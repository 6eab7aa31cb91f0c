----------------------------- MODULE MCCodeIntel ------------------------------
(* The instances of code-intel: the job queue, and bounded inputs for the  *)
(* functions of its chunker, its cache and its queries.                    *)
EXTENDS JobQueue, TLC, SequencesExt

Few == INSTANCE Chunker WITH maxChunkLines <- 3, minChunkLines <- 2, overlapLines <- 1,
         maxChunksPerFile <- 4, largeFileThreshold <- 7, maxFileContentLength <- 6
Tight == INSTANCE Chunker WITH maxChunkLines <- 2, minChunkLines <- 1, overlapLines <- 2,
           maxChunksPerFile <- 3, largeFileThreshold <- 9, maxFileContentLength <- 9

Texts == {[i \in 1..n |-> IF i \in blank THEN "" ELSE "x"] :
            n \in {1, 5, 7}, blank \in {{}, 1..1, 1..3, 3..5, {2, 5}}}

(* At most two symbols, which may nest or overlap; one that starts on the  *)
(* second line has no content, one on the fourth is external.              *)
Symbols(lines) ==
  {[id |-> <<first, last>>, start_line |-> first, end_line |-> last, is_external |-> first = 4,
    content |-> IF first = 2 THEN <<>> ELSE SubSeq(lines, first, last)] :
      first \in DOMAIN lines, last \in {l \in DOMAIN lines : l % 2 = 1}}
Outlines(lines) == {{s, t} : s, t \in {u \in Symbols(lines) : u.start_line <= u.end_line}} \cup {{}}

(* The windows of a file cover what its symbols leave, and what else the   *)
(* chunker promises of its blocks, its rows and their number.              *)
ASSUME ChunksCoverFiles ==
  \A lines \in Texts : \A symbols \in Outlines(lines) :
    /\ Few!GapsAreExact(lines, symbols)
    /\ Few!BlocksCover(lines, symbols) /\ Tight!BlocksCover(lines, symbols)
    /\ Few!RowsLost(lines, symbols) /\ Tight!RowsLost(lines, symbols)
    /\ Few!CapHolds(lines, symbols) /\ Tight!CapHolds(lines, symbols)
-----------------------------------------------------------------------------
Query == INSTANCE SmartQuery WITH MIN_SIMILARITY <- 2, RRF_K <- 60, DEFAULT_MAX_DEPTH <- 2, MAX_ALLOWED_DEPTH <- 3,
           TopSymbols <- 1, MinRemaining <- 2, MaxRank <- 4, maxEntries <- 2, ttlMs <- 3, Missing <- 0

CacheCalls == [op : {"set"}, key : {"a", "b", "c"}, value : {1}]
                \cup [op : {"get", "invalidate"}, key : {"a"}, value : {0}]
                \cup [op : {"has", "stats"}, key : {"b"}, value : {0}]
(* Each set stores a value of its own.                                     *)
Numbered(calls) == [i \in DOMAIN calls |-> [calls[i] EXCEPT !.value = i]]

(* Any five calls, of which one or two fit into the time a value lives.    *)
ASSUME CacheAnswersLastSet ==
  \A calls \in [1..5 -> CacheCalls], gap \in {0, 1} :
    /\ Query!AnswersLastSet(Numbered(calls), gap, "a")
    /\ gap = 1 => Query!MissesOnlyTheOld(Numbered(calls), gap, "a")
-----------------------------------------------------------------------------
Call(e) == [source_id |-> e[1], target_id |-> e[2], confidence |-> e[3], branch |-> "main"]
Links == <<<<"a", "b", 2>>, <<"a", "c", 1>>, <<"b", "c", 2>>, <<"b", "d", 2>>, <<"c", "d", 1>>, <<"d", "a", 2>>,
          <<"c", "e", 2>>, <<"d", "e", 2>>, <<"e", "f", 1>>>>
Types == [id \in {"a", "b", "c", "d", "f"} |-> IF id \in {"a", "c"} THEN "CLASS" ELSE "FUNCTION"]

ASSUME GraphIsExpandedByDistance ==
  \A links \in SUBSET ToSet(Links), depth \in {0, 1, 4}, fanOut \in {1, 9}, threshold \in {1, 2}, types \in {{}, {"FUNCTION"}} :
    LET order == SelectSeq(Links, LAMBDA l : l \in links)
        edges == [i \in DOMAIN order |-> Call(order[i])]
        options == [maxDepth |-> depth, maxFanOut |-> fanOut, confidenceThreshold |-> threshold, symbolTypes |-> types]
    IN /\ Query!FindsByDistance("a", edges, Types, options)
       /\ Query!EdgesOnce("a", edges, Types, options)
       /\ Query!CallersAreTurnedCallees("a", edges, Types, options)
-----------------------------------------------------------------------------

(* Two symbols with the same text and one that another branch has too;     *)
(* their chunks, one of no symbol, and a file.                             *)
Path == [s1 |-> "p/a", s2 |-> "p/b", s3 |-> "q", s4 |-> "q", c1 |-> "p/a", c2 |-> "p/b", f1 |-> "q"]
Tables ==
  [symbols |-> [id \in {"s1", "s2", "s3", "s4"} |->
     [path |-> Path[id], hash |-> IF id = "s2" THEN "s1" ELSE id, type |-> "FUNCTION"]],
   chunks |-> [id \in {"c1", "c2", "f1"} |->
     [path |-> Path[id], branch |-> "main", parent |-> IF id = "c1" THEN "s1" ELSE ""]],
   calls |-> [i \in 1..2 |-> [Call(<<<<"s1", "s4", 2>>, <<"s4", "s3", 2>>>>[i]) EXCEPT !.branch = "main"]],
   tokens |-> [id \in DOMAIN Path |-> IF id \in {"s1", "f1"} THEN 5 ELSE 2],
   exact |-> {"s3"}, short |-> {"c2"}, reranked |-> [id \in DOMAIN Path |-> IF id = "s3" THEN 2 ELSE 1]]

Row(id) == [id |-> id, path |-> Path[id], score |-> 3, kind |-> IF id = "f1" THEN "file"
                                                  ELSE IF id \in {"c1", "c2"} THEN "chunk" ELSE "symbol"]
Near(id, n) == [id |-> id, kind |-> Row(id).kind, similarity |-> n]
Databases ==
  {Tables @@ [names |-> names, content |-> content, vectors |-> vectors] :
     names \in {<<>>, <<Row("s2"), Row("s1"), Row("s3")>>},
     content \in {<<Row("c2"), Row("s3"), Row("s1")>>, <<Row("f1"), Row("c2")>>},
     vectors \in {<<Near("s1", 2), Near("c1", 5), Near("f1", 3)>>, <<Near("s3", 4), Near("s2", 4), Near("c2", 1)>>}}

Everywhere == {"p/a", "p/b", "q"}
Options ==
  [branch : {"main"}, prefix : {{}, {"p/a", "p/b"}},
   patterns : {{}, {[sql |-> {"q"}, regex |-> {"q"}]}, {[sql |-> Everywhere, regex |-> {"q"}]}},
   mentioned : {{}, {[sql |-> {"p/b"}, regex |-> {"p/b"}]}},
   granularity : {"auto", "file"}, rerank : {"", "heuristic"}, embedding : BOOLEAN, text : {TRUE},
   maxTokens : {4, 9}, graph : {[maxDepth |-> 0, maxFanOut |-> 9, confidenceThreshold |-> 1, symbolTypes |-> {}]}]

(* A context is within its budget, begins with what was found and stays in *)
(* the scope that was asked for.                                           *)
ASSUME ContextsAreKept ==
  \A db \in Databases, o \in Options, limit \in {1, 3}, fails \in BOOLEAN :
    /\ Query!FoundFirst(db, o, limit, fails)
    /\ Query!FoundInScope(db, o, limit, fails)

ASSUME BudgetsAreKept ==
  \A ids \in UNION {[1..n -> {"s1", "s2", "s3", "c1", "c2"}] : n \in 0..4}, maxTokens \in 0..9 :
    IsInjective(ids) => Query!BudgetKept(Query!Texts(Tables), ids, maxTokens)

Rankings == {[i \in DOMAIN s |-> [id |-> s[i], score |-> 0]] :
               s \in {t \in UNION {[1..n -> {"s1", "s2", "s3", "s4"}] : n \in 0..4} : IsInjective(t)}}

(* Fusion ranks as both lists do where they agree.                         *)
ASSUME FusionKeepsAgreement == \A vectors, words \in Rankings : Query!FusionAgrees(vectors, words)

Percents == {0, 33, 50, 80, 100}
ASSUME SignalsAreMonotone ==
  /\ \A one, two \in Percents \X Percents \X Percents, symbols \in {1, 2}, granularity \in {"auto", "file"} :
       Query!TierGrows(symbols, granularity, one, two)
  /\ \A words \in 0..8, tokens \in {4000 * n : n \in 1..8} : Query!LimitGrows(words, tokens)
-----------------------------------------------------------------------------
Db == INSTANCE FileIndexing WITH Null <- <<>>
Sym(name, signature, path, branch, lines) ==
  [id |-> <<name, path, signature>>, name |-> name, qualified_name |-> <<path, name>>, signature |-> signature,
   type |-> IF name = "m" THEN "MODULE" ELSE "FUNCTION", file_path |-> path, start_line |-> 1, branch |-> branch,
   content_hash |-> <<name, signature, lines>>, is_external |-> FALSE, lines |-> lines,
   language |-> IF path = "c" THEN "python" ELSE "typescript"]
Piece(path, branch, n, content, parent) ==
  [id |-> <<path, n, content>>, file_path |-> path, start_line |-> n, chunk_type |-> IF parent = <<>> THEN "file" ELSE "symbol",
   parent_symbol_id |-> parent, content_hash |-> content, branch |-> branch]
Line(begins, name, of) ==
  [form |-> "other", begins |-> begins, calls |-> <<[name |-> name, of |-> of]>>, module |-> {}, names |-> <<>>]
Calls(name, of) == Line("other", name, of)
Import(form, module, names) ==
  [form |-> form, begins |-> "import", calls |-> <<>>, module |-> module, names |-> names]

(* Three files: b calls a function of a that calls another one, c imports  *)
(* from b, and both a and c have an f; each in two versions, on one of two *)
(* branches; the second version of a changes f and moves g.                *)
Version(path, branch, v) ==
  LET symbols ==
        CASE path = "a" -> LET f == Sym("f", v, "a", branch, <<>>)
                                g == Sym("g", 1, "a", branch, <<Calls("f", "nothing")>>)
                            IN IF v = 1 THEN <<f, g>> ELSE <<g, f>>
          [] path = "b" -> <<Sym("h", 1, "b", branch, <<Calls("g", IF v = 2 THEN "name" ELSE "nothing"), Calls("x", "expression"), Calls("h", "nothing")>>)>>
          [] path = "c" -> IF v = 2 THEN <<>> ELSE <<Sym("f", 1, "c", branch, <<>>), Sym("m", 1, "c", branch, <<Calls("f", "name")>>)>>
  IN [path |-> path, branch |-> branch, symbols |-> symbols, isReadable |-> TRUE, isExternal |-> FALSE, isEmpty |-> FALSE,
      language |-> IF path = "c" THEN "python" ELSE "typescript",
      lines |-> IF path = "c" THEN <<Import("from", {"b"}, <<"h", "x">>), Import("module", {"a"}, <<"f">>), Import("from", {}, <<"g">>)>>
                ELSE <<Import("type", {"c"}, <<"m">>), Import("named", {"b"}, <<"h">>)>>,
      chunks |-> [i \in DOMAIN symbols |-> Piece(path, branch, i, symbols[i].content_hash, symbols[i].id)]
                   \o <<Piece(path, branch, 1, <<path>>, <<>>)>>]
Versions == {Version(path, branch, v) : path \in {"a", "b", "c"}, branch \in {"main", "dev"}, v \in {1, 2}}
              \cup {[Version("a", "main", 1) EXCEPT !.isReadable = FALSE]}
Runs == {[i \in 1..Len(files) |-> [file |-> files[i], embeds |-> (i % 2 = 1)]] : files \in UNION {[1..n -> Versions] : n \in 0..2}}

ASSUME CallsOfVariablesAreLost ==
  \A lines \in UNION {[1..n -> {Line(begins, name, of) : begins \in {"variable", "export", "class", "other"},
                                  name \in {"f", "if"}, of \in {"nothing", "name", "expression"}}] : n \in 0..2} :
    Db!DeclarationsHideCalls(lines)

ASSUME EdgesInAreLost ==
  \A run \in Runs, file \in Versions, shared \in BOOLEAN :
    LET s == Db!AfterFiles(shared, run)
    IN /\ Db!EdgesOfIndexing(s, file, TRUE)
       /\ Db!NoEdgeIsRefused(s, file)
       /\ Db!NamesResolveNear(s, file)
       /\ Db!EmbeddingsAreOfTheContent(s, file, FALSE)
       /\ Db!ForeignKeysHold(Db!unlink(s.db, file.path, file.branch))

ASSUME KeywordsFollowTheLast ==
  \A run \in Runs, last \in Versions, shared \in BOOLEAN :
    Db!KeywordsAreOfTheLast(shared, Append(run, [file |-> last, embeds |-> FALSE]))

(* What calls a symbol is found to any depth, but not with the threshold   *)
(* that the tools use: inferred calls stay below it.                       *)
ASSUME InferredCallsAreNotSeen ==
  \A run \in Runs, threshold \in {30, 45, 50}, depth \in {1, 3} :
    LET db == Db!AfterFiles(FALSE, run).db
    IN \A id \in Db!Ids(db.symbols) :
         Db!ImpactIsReachability(db, id, [branch |-> "main", confidenceThreshold |-> threshold, maxDepth |-> depth])

(* Also where calls meet or go round.                                      *)
Trio == [i \in 1..3 |-> Sym("f", i, "a", "main", <<>>)]
Calling(links) ==
  LET Link(n) == Db!createEdge(Trio[(n \div 3) + 1].id, Trio[(n % 3) + 1].id, "CALLS", 45, "main")
      chosen == SelectSeq([i \in 1..9 |-> i], LAMBDA i : i \in links)
  IN Db!UpsertMany(Db!UpsertMany(Db!NoRows, "symbols", Trio).db, "edges", [n \in DOMAIN chosen |-> Link(chosen[n] - 1)]).db
ASSUME ImpactGoesRound ==
  \A links \in SUBSET (1..9), depth \in 0..3 :
    Db!ImpactIsReachability(Calling(links), Trio[1].id, [branch |-> "main", confidenceThreshold |-> 45, maxDepth |-> depth])

Rows(branch) == {Sym("f", v, p, branch, lines) : v \in {1, 2}, p \in {"a", "b"}, lines \in {<<>>, <<Calls("g", "nothing")>>}}
Holding(rows) ==
  LET few == SetToSeq(rows)
      db == Db!UpsertMany(Db!NoRows, "symbols", few).db
      Link(i, j) == Db!createEdge(few[i].id, few[j].id, "CALLS", 45, few[i].branch)
  IN Db!UpsertMany(db, "edges", IF Len(few) < 2 THEN <<>> ELSE <<Link(1, 2), Link(2, 1)>>).db
ASSUME BranchesAreCompared ==
  /\ \A one \in SUBSET Rows("main"), two \in SUBSET Rows("dev") :
       Cardinality(one) <= 2 /\ Cardinality(two) <= 2 =>
         /\ Db!DiffsAreOpposite(Holding(one \cup two), "main", "dev")
         /\ Db!SharedSymbolsLookAdded(SetToSeq(one), SetToSeq(two), "main", "dev")

Word(text, length, starred, operator) == [text |-> text, length |-> length, starred |-> starred, operator |-> operator]
Words == {Word("auth", 4, FALSE, FALSE), Word("user", 4, FALSE, FALSE), Word("key", 3, FALSE, FALSE), Word("admin", 5, FALSE, FALSE), Word("auth", 4, TRUE, FALSE),
          Word("id", 2, FALSE, FALSE), Word("or", 2, FALSE, TRUE)}
Entries == [Db!NoRows EXCEPT !.fts_content = [i \in 1..4 |-> [content_id |-> i, content_type |-> "chunk",
              terms |-> <<{"auth", "user"}, {"auth", "key"}, {"user"}, {"key"}>>[i]]]]
ASSUME QuestionsAreAlternatives ==
  \A words \in UNION {[1..n -> Words] : n \in 0..3} : Db!FindsWhatHasTheWords(Entries, words)

Files == {[version |-> 0, js_vectors |-> "none", vectors |-> {}, model |-> ""],
          [version |-> 1, js_vectors |-> "plain", vectors |-> {"old"}, model |-> "old"],
          [version |-> 2, js_vectors |-> "granular", vectors |-> {"old"}, model |-> ""],
          [version |-> 3, js_vectors |-> "granular", vectors |-> {"old"}, model |-> "old"]}
Sessions == [model : {"old", "new"}, steps : 0..8]
ASSUME VectorsAreOfOneModel ==
  \A file \in Files, sessions \in UNION {[1..n -> Sessions] : n \in 0..2}, model \in {"old", "new"} :
    Db!VectorsAreOfTheModel(file, sessions, model)
-----------------------------------------------------------------------------
Item(id, embedding, granularity) == [id |-> id, embedding |-> embedding, granularity |-> granularity]
Items == {Item("x", <<1, 0>>, "chunk"), Item("y", <<1, 1>>, "file"), Item("x", <<-1, 2>>, "file"), Item("y", <<3>>, "chunk")}
VectorCalls ==
  [op : {"upsert"}, store : Db!Stores, item : Items]
    \cup [op : {"delete", "search"}, store : Db!Stores, item : {Item("x", <<1, 0>>, "chunk")}]
    \cup [op : {"forget", "clear"}, store : {"granular"}, item : {Item("y", <<1, 1>>, "chunk")}]
CallSequences == UNION {[1..n -> VectorCalls] : n \in 0..3}
ASSUME CachesAreTheirOwn ==
  \A calls \in CallSequences, store \in Db!Stores, query \in {<<1, 1>>, <<0>>} :
    Db!AnswersFromItsLoad(calls, store, query)
ASSUME NearestAreFound ==
  \A calls \in CallSequences, query \in {<<1, 2>>, <<-1, 0>>}, limit \in {1, 2} :
    Db!FindsTheNearest(calls, query, limit, "x")
ASSUME HybridLooksElsewhere ==
  \A rows \in {<<>>, <<Item("x", <<2, 2>>, "symbol")>>}, items \in UNION {[1..n -> Items] : n \in 0..2}, there \in BOOLEAN :
    Db!HybridGivesBack(rows, items, there)
=============================================================================
