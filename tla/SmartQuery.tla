------------------------------ MODULE SmartQuery ------------------------------
(***************************************************************************)
(* How a question becomes a context, code-intel/src/query: the two         *)
(* retrieval paths of createSmartQuery, the fusion of their ranks, the     *)
(* expansion along the calls, the token budget, and the cache of results.  *)
(*                                                                         *)
(* What the tables and the embedder answer is an input, `db':              *)
(*   names     rows of fts_symbols that match the words, best first        *)
(*   content   rows of fts_content that match the words, best first        *)
(*   vectors   rows of js_vectors, with their similarity to the question   *)
(*   symbols, chunks, calls    the rows of those tables                    *)
(*   tokens    the length of every text                                    *)
(*   exact, short, reranked    which names and contents the texts favour,  *)
(*                             and the scores of the reranker              *)
(* A file pattern is the paths it matches: for SQLite, where a star        *)
(* crosses slashes, and for the regular expression, where it does not.     *)
(***************************************************************************)
EXTENDS Integers, Sequences, FiniteSets, SequencesExt, FiniteSetsExt, TLC

CONSTANTS MIN_SIMILARITY, RRF_K,
          DEFAULT_MAX_DEPTH, MAX_ALLOWED_DEPTH,
          TopSymbols, MinRemaining,   \* 5 symbols are expanded, 100 tokens are worth a cut
          MaxRank,                    \* no list of an instance is longer
          maxEntries, ttlMs, Missing  \* of the cache; what it answers when it has nothing

(* createGraphExpander, graph-expander.ts: the symbols that call a symbol, *)
(* or that it calls, up to a depth.  `edges' are the calls on the branch   *)
(* that is asked for, in the order of their rows; `types' gives the        *)
(* symbols of the table their types.  Callers and callees are one          *)
(* traversal that follows an edge from its end `near' to its end `far'.    *)

(* maxDepth 0 stands for none given.                                       *)
parseOptions(options) ==
  LET asked == IF options.maxDepth = 0 THEN DEFAULT_MAX_DEPTH ELSE options.maxDepth
  IN [options EXCEPT !.maxDepth = IF asked < MAX_ALLOWED_DEPTH THEN asked ELSE MAX_ALLOWED_DEPTH]

filterEdgesByConfidence(edges, threshold) == SelectSeq(edges, LAMBDA e : e.confidence >= threshold)

(* The order of the rows stays among edges of one confidence, and when     *)
(* nothing is cut off.                                                     *)
limitEdges(edges, maxFanOut) ==
  LET order == SortSeq([i \in DOMAIN edges |-> i], LAMBDA i, j :
                 \/ edges[i].confidence > edges[j].confidence
                 \/ edges[i].confidence = edges[j].confidence /\ i < j)
  IN IF Len(edges) <= maxFanOut THEN [edges |-> edges, truncated |-> FALSE]
     ELSE [edges |-> [i \in 1..maxFanOut |-> edges[order[i]]], truncated |-> TRUE]

(* The edges that are followed from a symbol.                              *)
Followed(edges, near, options, id) ==
  limitEdges(filterEdgesByConfidence(SelectSeq(edges, LAMBDA e : e[near] = id),
                                     options.confidenceThreshold),
             options.maxFanOut)

matchesTypeFilter(type, symbolTypes) == symbolTypes = {} \/ type \in symbolTypes

(* Every edge that is followed is reported.  A symbol is visited once,     *)
(* whether or not it is in the table and has a type that is asked for;     *)
(* only one that is and has is a node and is expanded.                     *)
Follow(walk, edge, far, depth, types, options) ==
  LET id == edge[far]
      seen == [walk EXCEPT !.edges = Append(@, edge), !.visited = @ \cup {id}]
      isNode == id \in DOMAIN types /\ matchesTypeFilter(types[id], options.symbolTypes)
  IN IF id \in walk.visited \/ ~isNode THEN seen
     ELSE [seen EXCEPT !.nodes = Append(@, [symbol |-> id, depth |-> depth, edge |-> edge]),
                       !.queue = Append(@, [symbolId |-> id, depth |-> depth])]

RECURSIVE Walk(_, _, _, _, _, _)
Walk(walk, edges, types, near, far, options) ==
  LET current == Head(walk.queue)
      rest == [walk EXCEPT !.queue = Tail(@)]
      limited == Followed(edges, near, options, current.symbolId)
      expanded == FoldLeft(LAMBDA w, e : Follow(w, e, far, current.depth + 1, types, options),
                           [rest EXCEPT !.truncatedNodes = @ + (IF limited.truncated THEN 1 ELSE 0)],
                           limited.edges)
  IN IF walk.queue = <<>> THEN walk
     ELSE Walk(IF current.depth >= options.maxDepth THEN rest ELSE expanded,
               edges, types, near, far, options)

Traverse(root, edges, types, near, far, options) ==
  Walk([nodes |-> <<[symbol |-> root, depth |-> 0]>>, edges |-> <<>>, visited |-> {root},
        queue |-> <<[symbolId |-> root, depth |-> 0]>>, truncatedNodes |-> 0],
       edges, types, near, far, parseOptions(options))

NotFound == [nodes |-> <<>>, edges |-> <<>>]

findCallers(root, edges, types, options) ==
  IF root \in DOMAIN types THEN Traverse(root, edges, types, "target_id", "source_id", options) ELSE NotFound
findCallees(root, edges, types, options) ==
  IF root \in DOMAIN types THEN Traverse(root, edges, types, "source_id", "target_id", options) ELSE NotFound
-----------------------------------------------------------------------------
(* What "depth-limited traversal" (graph-expander.ts:2) means: the symbols *)
(* at distance n in the graph of the edges that are followed.              *)
RECURSIVE Within(_, _, _, _, _)
Within(n, root, edges, types, options) ==
  IF n = 0 THEN {root}
  ELSE LET closer == Within(n - 1, root, edges, types, options)
           Next(id) == LET followed == Followed(edges, "source_id", options, id).edges
                       IN {followed[i].target_id : i \in DOMAIN followed}
       IN closer \cup {id \in UNION {Next(c) : c \in closer} \cap DOMAIN types :
                         matchesTypeFilter(types[id], options.symbolTypes)}

(* Each symbol within the depth is found once, at its distance, and no     *)
(* other is.                                                               *)
FindsByDistance(root, edges, types, options) ==
  LET nodes == findCallees(root, edges, types, options).nodes
      depth == parseOptions(options).maxDepth
      Ring(n) == IF n = 0 THEN {root}
                 ELSE Within(n, root, edges, types, options) \ Within(n - 1, root, edges, types, options)
  IN /\ \A n \in 0..depth : {nodes[i].symbol : i \in {j \in DOMAIN nodes : nodes[j].depth = n}} = Ring(n)
     /\ \A i, j \in DOMAIN nodes : nodes[i].symbol = nodes[j].symbol => i = j
     /\ \A i \in DOMAIN nodes : nodes[i].depth <= depth

(* An edge is reported once, although two paths lead to where it starts.   *)
EdgesOnce(root, edges, types, options) ==
  LET walked == findCallees(root, edges, types, options).edges
  IN \A i, j \in DOMAIN walked : walked[i] = walked[j] => i = j

Turned(edges) ==
  [i \in DOMAIN edges |-> [edges[i] EXCEPT !.source_id = edges[i].target_id, !.target_id = edges[i].source_id]]

(* The callers are the callees when every call is turned around.           *)
CallersAreTurnedCallees(root, edges, types, options) ==
  LET callers == findCallers(root, edges, types, options)
      turned == findCallees(root, Turned(edges), types, options)
  IN /\ [i \in DOMAIN callers.nodes |-> <<callers.nodes[i].symbol, callers.nodes[i].depth>>]
          = [i \in DOMAIN turned.nodes |-> <<turned.nodes[i].symbol, turned.nodes[i].depth>>]
     /\ Turned(callers.edges) = turned.edges

-----------------------------------------------------------------------------
LOCAL Smaller(m, n) == IF m < n THEN m ELSE n
LOCAL Take(list, n) == SubSeq(list, 1, Smaller(Len(list), n))
LOCAL Map(Op(_), list) == [i \in DOMAIN list |-> Op(list[i])]
LOCAL Has(list, id) == \E i \in DOMAIN list : list[i].id = id

(* JavaScript's sort by score, which keeps the order of equals.            *)
ByScore(list) ==
  LET order == SortSeq([i \in DOMAIN list |-> i], LAMBDA i, j :
                 \/ list[i].score > list[j].score
                 \/ list[i].score = list[j].score /\ i < j)
  IN [i \in DOMAIN list |-> list[order[i]]]

(* 1 / (k + rank) as a multiple of one over the product of all k + rank.   *)
Share(rank) == FoldFunction(LAMBDA m, n : m * n, 1, [r \in (1..MaxRank) \ {rank} |-> RRF_K + r])
-----------------------------------------------------------------------------
(* Which paths are asked for, path-filter.ts.                              *)
hasPathFilters(o) == o.prefix # {} \/ o.patterns # {}
matchesPathFilters(path, o) ==
  /\ o.prefix # {} => path \in o.prefix
  /\ o.patterns # {} => \E p \in o.patterns : path \in p.regex

(* The LIKE conditions of the simple path: the prefix and a pattern.       *)
LikeFilters(path, o) ==
  /\ o.prefix # {} => path \in o.prefix
  /\ o.patterns # {} => \E p \in o.patterns : path \in p.sql

(* The GLOB conditions of the enhanced path, to whose patterns the prefix  *)
(* has been added: one of them is enough.                                  *)
GlobFilters(path, o) ==
  LET globs == {p.sql : p \in o.patterns} \cup ({o.prefix} \ {{}})
  IN globs # {} => path \in UNION globs

-----------------------------------------------------------------------------
(* The simple path: KeywordSearcher, VectorSearcher and fuseWithRrf.       *)

keywordSearch(db, o, limit) ==
  LET rows == Take(SelectSeq(db.names, LAMBDA r : LikeFilters(r.path, o)), 2 * limit)
      Boosted(r) == [id |-> r.id, score |-> IF r.id \in db.exact THEN 2 * r.score ELSE r.score]
  IN Take(ByScore(Map(Boosted, rows)), limit)

(* searchWithPureJs: what a vector finds.  The embedding of a symbol has   *)
(* no branch to be looked at; a chunk stands for the symbol it is of.      *)
VectorTarget(db, v) ==
  IF v.kind = "symbol" \/ v.id \notin DOMAIN db.chunks THEN v.id
  ELSE IF v.kind = "chunk" /\ db.chunks[v.id].parent # "" THEN db.chunks[v.id].parent ELSE v.id

VectorPasses(db, v, o) ==
  /\ v.similarity >= MIN_SIMILARITY
  /\ IF v.kind = "symbol"
     THEN hasPathFilters(o) => v.id \in DOMAIN db.symbols /\ matchesPathFilters(db.symbols[v.id].path, o)
     ELSE /\ v.id \in DOMAIN db.chunks
          /\ db.chunks[v.id].branch = o.branch /\ matchesPathFilters(db.chunks[v.id].path, o)

vectorSearch(db, o, limit) ==
  LET rows == SelectSeq(db.vectors, LAMBDA v : VectorPasses(db, v, o))
      Best(found, v) ==
        LET id == VectorTarget(db, v)
        IN IF Has(found, id)
           THEN Map(LAMBDA f : IF f.id = id /\ v.similarity > f.score THEN [f EXCEPT !.score = v.similarity]
                               ELSE f, found)
           ELSE Append(found, [id |-> id, score |-> v.similarity])
  IN Take(ByScore(FoldLeft(Best, <<>>, rows)), limit)

(* Adds the shares of a list to the scores; an item that is in them        *)
(* already keeps its place among equals.                                   *)
AddRanks(scores, list, weight) ==
  LET Add(all, i) ==
        LET share == weight * Share(i)
        IN IF Has(all, list[i].id)
           THEN Map(LAMBDA s : IF s.id = list[i].id THEN [s EXCEPT !.score = @ + share] ELSE s, all)
           ELSE Append(all, [list[i] EXCEPT !.score = share])
  IN FoldLeftDomain(LAMBDA all, i : Add(all, i), scores, list)

fuseWithRrf(vectorResults, keywordResults) ==
  ByScore(AddRanks(AddRanks(<<>>, vectorResults, 1), keywordResults, 1))

hydrateSymbols(db, fused) == SelectSeq(fused, LAMBDA f : f.id \in DOMAIN db.symbols)

Reranks(o) == o.rerank \notin {"", "none"}
applyReranking(db, list) == ByScore(Map(LAMBDA s : [s EXCEPT !.score = db.reranked[s.id]], list))

SimplePath(db, o, limit) ==
  LET fused == fuseWithRrf(IF o.embedding THEN vectorSearch(db, o, limit) ELSE <<>>,
                           IF o.text THEN keywordSearch(db, o, limit) ELSE <<>>)
      hydrated == hydrateSymbols(db, fused)
  IN IF Reranks(o) /\ o.text THEN applyReranking(db, hydrated) ELSE hydrated
-----------------------------------------------------------------------------
(* The enhanced path: searchEnhanced and the base search below it.         *)

Resolves(db, item) == item.id \in DOMAIN (IF item.kind = "symbol" THEN db.symbols ELSE db.chunks)
OfKind(o, item) == o.granularity \in {"", "auto", item.kind}

rrfFusion(lists, limit) ==
  Take(ByScore(FoldLeft(LAMBDA scores, l : AddRanks(scores, l.items, l.weight), <<>>, lists)), limit)

applyWordBoundaryBoost(db, ranked) ==
  ByScore(Map(LAMBDA r : [r EXCEPT !.score = IF r.id \in db.short THEN 3 * @ ELSE 2 * @], ranked))

(* Weights 1.0, 0.7 and 0.3, in tenths.                                    *)
baseSearch(db, o, limit) ==
  LET Item(r) == [id |-> r.id, kind |-> r.kind, score |-> 0]
      fts == Take(SelectSeq(db.content, LAMBDA r : OfKind(o, r) /\ GlobFilters(r.path, o)), 2 * limit)
      near == Take(ByScore(Map(LAMBDA v : [id |-> v.id, kind |-> v.kind, score |-> v.similarity],
                               SelectSeq(db.vectors, LAMBDA v : OfKind(o, v)))),
                   (IF hasPathFilters(o) THEN 3 ELSE 2) * limit)
      Path(v) == IF v.kind = "symbol" THEN db.symbols[v.id].path ELSE db.chunks[v.id].path
      vectors == SelectSeq(near, LAMBDA v : v.score >= MIN_SIMILARITY /\ Resolves(db, v)
                                              /\ matchesPathFilters(Path(v), o))
      Of(list, k) == Map(Item, SelectSeq(list, LAMBDA r : r.kind = k))
      ranked == rrfFusion(<<[items |-> Of(fts, "symbol"), weight |-> 10], [items |-> Of(vectors, "symbol"), weight |-> 10],
                            [items |-> Of(fts, "chunk"), weight |-> 7], [items |-> Of(vectors, "chunk"), weight |-> 7],
                            [items |-> Of(fts, "file"), weight |-> 3], [items |-> Of(vectors, "file"), weight |-> 3]>>,
                          limit)
  IN applyWordBoundaryBoost(db, ranked)

(* The patterns in the words of the question are added to those given.     *)
searchEnhanced(db, o, limit) ==
  LET ranked == baseSearch(db, [o EXCEPT !.patterns = @ \cup o.mentioned], limit)
  IN IF Reranks(o) THEN applyReranking(db, ranked) ELSE ranked

(* Symbols, if there are any; else the chunks and files stand in for them. *)
EnhancedPath(db, o, limit) ==
  LET ranked == searchEnhanced(db, o, limit)
      symbols == SelectSeq(ranked, LAMBDA r : r.kind = "symbol" /\ Resolves(db, r))
  IN IF symbols # <<>> THEN symbols ELSE SelectSeq(ranked, LAMBDA r : r.kind # "symbol")
-----------------------------------------------------------------------------
(* What both paths end in.                                                 *)

Graph(db, o) ==
  [types |-> [id \in DOMAIN db.symbols |-> db.symbols[id].type],
   edges |-> SelectSeq(db.calls, LAMBDA e : e.branch = o.branch)]

AddNodes(ids, nodes) ==
  FoldLeft(LAMBDA all, n : IF n.symbol \in ToSet(all) THEN all ELSE Append(all, n.symbol), ids, nodes)

(* The symbols that were found stay in front.                              *)
expandGraphForTopSymbols(db, o, found) ==
  LET graph == Graph(db, o)
      Expand(ids, root) ==
        AddNodes(AddNodes(ids, findCallers(root, graph.edges, graph.types, o.graph).nodes),
                 findCallees(root, graph.edges, graph.types, o.graph).nodes)
  IN IF o.granularity = "file" THEN found ELSE FoldLeft(Expand, found, Take(found, TopSymbols))

(* Symbols with a content that has been seen are left out; the first that  *)
(* is too long is cut to what is left, or not shown, and ends the context. *)
buildContextWithinBudget(texts, ids, maxTokens) ==
  LET Add(c, id) ==
        LET text == texts[id]
            left == maxTokens - c.tokens
        IN IF c.full \/ (text.hash # "" /\ text.hash \in c.seen) THEN c
           ELSE LET seen == [c EXCEPT !.seen = @ \cup {text.hash}]
                IN IF text.tokens <= left
                   THEN [seen EXCEPT !.shown = Append(@, id), !.tokens = @ + text.tokens]
                   ELSE IF left > MinRemaining
                   THEN [seen EXCEPT !.shown = Append(@, id), !.tokens = maxTokens, !.full = TRUE]
                   ELSE [seen EXCEPT !.full = TRUE]
  IN FoldLeft(Add, [shown |-> <<>>, tokens |-> 0, seen |-> {}, full |-> FALSE], ids)

(* A chunk or a file that stands in for a symbol has no hash.              *)
Texts(db) ==
  [id \in DOMAIN db.tokens |->
     [hash |-> IF id \in DOMAIN db.symbols THEN db.symbols[id].hash ELSE "", tokens |-> db.tokens[id]]]

Found(db, o, limit, enhancedFails) ==
  LET hits == IF o.embedding /\ o.text /\ ~enhancedFails THEN EnhancedPath(db, o, limit) ELSE SimplePath(db, o, limit)
  IN Map(LAMBDA h : h.id, hits)

search(db, o, limit, enhancedFails) ==
  LET found == Found(db, o, limit, enhancedFails)
  IN buildContextWithinBudget(Texts(db), IF found = <<>> THEN <<>> ELSE expandGraphForTopSymbols(db, o, found),
                              o.maxTokens)
-----------------------------------------------------------------------------
(* Math.round of n / d.                                                    *)
LOCAL Round(n, d) == (2 * n + d) \div (2 * d)

(* How many candidates a channel is asked for: 20, fewer for one or two    *)
(* words, more for six, for a scope and for a budget over 8000 tokens.     *)
computeAdaptiveLimit(words, scoped, maxTokens) ==
  LET byWords == IF words <= 2 THEN 15 ELSE IF words >= 6 THEN 30 ELSE 20
      byScope == IF scoped THEN Round(byWords * 5, 4) ELSE byWords
      byBudget == IF maxTokens > 8000 THEN Round(byScope * (8000 + Smaller(maxTokens, 24000)), 16000)
                  ELSE byScope
  IN IF byBudget < 10 THEN 10 ELSE Smaller(byBudget, 75)

(* computeEnhancedAgreement, in percent, rounded down.                     *)
computeEnhancedAgreement(vectorHits, keywordHits) ==
  IF vectorHits = 0 /\ keywordHits = 0 THEN 0
  ELSE IF vectorHits = 0 \/ keywordHits = 0 THEN 10
  ELSE 50 + (50 * Smaller(vectorHits, keywordHits))
              \div (IF vectorHits < keywordHits THEN keywordHits ELSE vectorHits)

(* computeMultiSignalConfidence, from its signals in percent; the spread   *)
(* of the scores, a logarithm, is an input.                                *)
confidenceTier(symbols, agreement, spread, concentration, granularity) ==
  LET composite == IF granularity = "file" THEN 60 * agreement + 30 * spread + 10 * concentration
                   ELSE 45 * agreement + 25 * spread + 30 * concentration
  IN IF \/ symbols = 1 /\ agreement >= 50 /\ concentration >= 100
        \/ composite >= 6000
     THEN "high"
     ELSE IF composite >= 3500 THEN "medium"
     ELSE IF composite >= 1000 THEN "low" ELSE "degraded"
-----------------------------------------------------------------------------
(* What a search promises.                                                 *)

(* The context is within its budget, shows nothing twice, and stops only   *)
(* where the next text does not fit.                                       *)
BudgetKept(texts, ids, maxTokens) ==
  LET c == buildContextWithinBudget(texts, ids, maxTokens)
      shown == ToSet(c.shown)
  IN /\ c.tokens <= maxTokens
     /\ \A i, j \in DOMAIN c.shown :
          i # j => texts[c.shown[i]].hash = "" \/ texts[c.shown[i]].hash # texts[c.shown[j]].hash
     /\ \A i \in DOMAIN ids : ids[i] \notin shown =>
          \/ \E j \in 1..(i - 1) : texts[ids[j]].hash = texts[ids[i]].hash /\ texts[ids[i]].hash # ""
          \/ /\ \A j \in (i + 1)..Len(ids) : ids[j] \notin shown
             /\ c.full

(* What was found has precedence over what calls it or is called by it.    *)
FoundFirst(db, o, limit, enhancedFails) ==
  LET found == ToSet(Found(db, o, limit, enhancedFails))
      shown == search(db, o, limit, enhancedFails).shown
  IN \A i, j \in DOMAIN shown : shown[i] \notin found /\ shown[j] \in found => j < i

(* An item that both lists rank above another is above it.                 *)
FusionAgrees(vectorResults, keywordResults) ==
  LET fused == fuseWithRrf(vectorResults, keywordResults)
      At(list, id) == CHOOSE i \in DOMAIN list : list[i].id = id
      Above(list, x, y) == Has(list, x) /\ (Has(list, y) => At(list, x) < At(list, y))
  IN \A i, j \in DOMAIN fused :
       Above(vectorResults, fused[i].id, fused[j].id) /\ Above(keywordResults, fused[i].id, fused[j].id) => i < j

(* What is found is in the scope that was asked for, if the patterns mean  *)
(* the same to SQLite and to the regular expressions, the question names   *)
(* no file, and not both a prefix and patterns are given: with both, the   *)
(* enhanced path takes what matches either.  A hit is one of a symbol, or  *)
(* of a chunk or file that has its path.                                   *)
FoundInScope(db, o, limit, enhancedFails) ==
  LET Path(id) == IF id \in DOMAIN db.symbols THEN db.symbols[id].path ELSE db.chunks[id].path
  IN /\ \A p \in o.patterns : p.sql = p.regex
     /\ o.mentioned = {}
     /\ o.prefix = {} \/ o.patterns = {} \/ enhancedFails
     => \A id \in ToSet(Found(db, o, limit, enhancedFails)) : matchesPathFilters(Path(id), o)

(* A stronger signal never gives a lower confidence.                       *)
Tiers == <<"degraded", "low", "medium", "high">>
TierGrows(symbols, granularity, one, two) ==
  LET Level(s) == CHOOSE i \in DOMAIN Tiers : Tiers[i] = confidenceTier(symbols, s[1], s[2], s[3], granularity)
  IN (\A i \in 1..3 : one[i] <= two[i]) => Level(one) <= Level(two)

(* So does a longer question, a scope or a larger budget for the limit,    *)
(* which stays between its bounds.                                         *)
LimitGrows(words, maxTokens) ==
  LET limit == computeAdaptiveLimit(words, FALSE, maxTokens)
  IN /\ 10 <= limit /\ computeAdaptiveLimit(words, TRUE, maxTokens) <= 75
     /\ limit <= computeAdaptiveLimit(words, TRUE, maxTokens)
     /\ limit <= computeAdaptiveLimit(words + 1, FALSE, maxTokens)
     /\ limit <= computeAdaptiveLimit(words, FALSE, maxTokens + 4000)
-----------------------------------------------------------------------------
(***************************************************************************)
(* createContextCache, code-intel/src/query/context-cache.ts: the cache of *)
(* search results.  A Map keeps its insertion order, so the cache is the   *)
(* sequence of its entries [key, value, timestamp]; `now' is Date.now().   *)
(***************************************************************************)
isExpired(entry, now) == now - entry.timestamp > ttlMs

LOCAL Without(cache, key) == SelectSeq(cache, LAMBDA e : e.key # key)
LOCAL Entry(cache, key) == SelectSeq(cache, LAMBDA e : e.key = key)

(* The first of the entries that were written longest ago goes.            *)
evictOldest(cache) ==
  LET oldest == CHOOSE i \in DOMAIN cache :
                  /\ \A j \in DOMAIN cache : cache[i].timestamp <= cache[j].timestamp
                  /\ \A j \in 1..(i - 1) : cache[i].timestamp < cache[j].timestamp
  IN IF Len(cache) <= maxEntries THEN cache ELSE Without(cache, cache[oldest].key)

cleanup(cache, now) == SelectSeq(cache, LAMBDA e : ~isExpired(e, now))

(* A hit moves the entry to the end and leaves its timestamp as it is.     *)
get(cache, key, now) ==
  LET entry == Entry(cache, key)
  IN IF entry = <<>> THEN [value |-> Missing, cache |-> cache]
     ELSE IF isExpired(entry[1], now) THEN [value |-> Missing, cache |-> Without(cache, key)]
     ELSE [value |-> entry[1].value, cache |-> Without(cache, key) \o entry]

set(cache, key, value, now) ==
  evictOldest(Append(Without(cache, key), [key |-> key, value |-> value, timestamp |-> now]))

has(cache, key, now) ==
  LET entry == Entry(cache, key)
      live == entry # <<>> /\ ~isExpired(entry[1], now)
  IN [value |-> live, cache |-> IF live THEN cache ELSE Without(cache, key)]

(* invalidatePattern and invalidateByFile, for the keys that match.        *)
invalidate(cache, keys) == SelectSeq(cache, LAMBDA e : e.key \notin keys)

getStats(cache, now) ==
  LET left == cleanup(cache, now)
      ages == {now - left[i].timestamp : i \in DOMAIN left}
  IN [size |-> Len(left), cache |-> left,
      oldestEntryAge |-> IF ages = {} THEN 0 ELSE CHOOSE a \in ages : \A b \in ages : b <= a]

(* The key of a search.  The query is its text without case and the space  *)
(* around it.                                                              *)
generateCacheKey(params) ==
  [q |-> params.words, b |-> params.branch, p |-> params.pathPrefix, g |-> params.granularity,
   l |-> params.limit, f |-> params.filePatterns,
   r |-> IF params.enableReranking THEN params.rerankerType ELSE "none"]
-----------------------------------------------------------------------------
(* A call [op, key, value], one time unit after the one before it, and     *)
(* what a sequence of calls leaves.                                        *)
After(cache, call, now) ==
  CASE call.op = "set" -> set(cache, call.key, call.value, now)
    [] call.op = "get" -> get(cache, call.key, now).cache
    [] call.op = "has" -> has(cache, call.key, now).cache
    [] call.op = "invalidate" -> invalidate(cache, {call.key})
    [] call.op = "stats" -> getStats(cache, now).cache
Result(calls, gap) == FoldLeftDomain(LAMBDA cache, i : After(cache, calls[i], i * gap), <<>>, calls)

(* The cache stays within its size, no key stands twice, and a get returns *)
(* the value that was set last for the key, when it returns one: never one *)
(* that was invalidated or is too old.                                     *)
AnswersLastSet(calls, gap, key) ==
  LET cache == Result(calls, gap)
      now == (Len(calls) + 1) * gap
      got == get(cache, key, now).value
      sets == {i \in DOMAIN calls : calls[i].op \in {"set", "invalidate"} /\ calls[i].key = key}
  IN /\ Len(cache) <= maxEntries
     /\ \A i, j \in DOMAIN cache : cache[i].key = cache[j].key => i = j
     /\ got # Missing =>
          \E i \in sets : /\ \A j \in sets : j <= i
                          /\ calls[i].op = "set" /\ calls[i].value = got /\ now - i * gap <= ttlMs

(* A value that is not too old is missed exactly when at least maxEntries  *)
(* other keys were set after it, if nothing is invalidated: reading it     *)
(* does not keep it ("LRU cache", context-cache.ts:2), the sets decide.    *)
MissesOnlyTheOld(calls, gap, key) ==
  LET now == (Len(calls) + 1) * gap
      mine == {i \in DOMAIN calls : calls[i].op \in {"set", "invalidate"} /\ calls[i].key = key}
      last == CHOOSE i \in mine : \A j \in mine : j <= i
      others == {calls[j].key : j \in {k \in DOMAIN calls : k > last /\ calls[k].op = "set"}}
  IN /\ mine # {} /\ now - last * gap <= ttlMs
     /\ \A i \in DOMAIN calls : calls[i].op # "invalidate"
     => (get(Result(calls, gap), key, now).value = Missing <=> Cardinality(others) >= maxEntries)
=============================================================================
