------------------------------- MODULE Storage --------------------------------
(***************************************************************************)
(* The SQLite database of code-intel (code-intel/src/storage/): the        *)
(* opening and migration of the file (schema.ts), the stores over its      *)
(* tables, the comparison of two branches (query/branch-diff.ts), and the  *)
(* stores of embeddings, which search in caches of their own.  A table is  *)
(* the sequence of its rows in the order of their row ids; a row           *)
(* that replaces another one is a new row at the end.  A store is the list *)
(* of its prepared statements, each given by the columns of its WHERE; the *)
(* methods of a store only run them, converting rows to objects.  Indexes, *)
(* times and the columns no statement asks for are left out.               *)
(***************************************************************************)
EXTENDS Integers, Sequences, FiniteSets, SequencesExt

CONSTANT Null

(* The tables with their primary keys; full-text tables have none, so that *)
(* INSERT OR REPLACE never replaces a row of theirs.                       *)
PrimaryKey ==
  [symbols |-> <<"id">>, edges |-> <<"id">>, chunks |-> <<"id">>, files |-> <<"file_path">>,
   file_contents |-> <<"file_path", "branch">>, repo_map |-> <<"file_path", "branch">>]
FullText == {"fts_symbols", "fts_content"}
NoRows == [t \in DOMAIN PrimaryKey \cup FullText |-> <<>>]

ById == <<"id">>
OnBranch == <<"branch">>
FileOnBranch == <<"file_path", "branch">>

SymbolStore ==
  [getById |-> ById, getByFilePath |-> FileOnBranch, getByName |-> <<"name", "branch">>,
   getByType |-> <<"type", "branch">>, deleteByFilePath |-> FileOnBranch, deleteByBranch |-> OnBranch,
   count |-> OnBranch, countAll |-> <<>>, getAll |-> OnBranch]

EdgeStore ==
  [getById |-> ById, getBySourceId |-> <<"source_id", "branch">>, getByTargetId |-> <<"target_id", "branch">>,
   getByType |-> <<"type", "branch">>, getCallers |-> <<"target_id", "branch", "type">>,
   getCallees |-> <<"source_id", "branch", "type">>, deleteBySourceId |-> <<"source_id", "branch">>,
   deleteByTargetId |-> <<"target_id", "branch">>, deleteByBranch |-> OnBranch,
   count |-> OnBranch, countAll |-> <<>>]

ChunkStore ==
  [getById |-> ById, getByFilePath |-> FileOnBranch, getByParentSymbol |-> <<"parent_symbol_id", "branch">>,
   getByChunkType |-> <<"chunk_type", "branch">>, deleteById |-> ById, deleteByFilePath |-> FileOnBranch,
   deleteByBranch |-> OnBranch, deleteByParentSymbol |-> <<"parent_symbol_id", "branch">>,
   count |-> OnBranch, countAll |-> <<>>, countByChunkType |-> <<"chunk_type", "branch">>,
   countByFilePath |-> FileOnBranch, getAll |-> OnBranch]

FileStore ==
  [getByPath |-> FileOnBranch, getByStatus |-> <<"status", "branch">>, getByBranch |-> OnBranch,
   getAllPaths |-> OnBranch, deleteByPath |-> FileOnBranch, deleteByBranch |-> OnBranch,
   count |-> OnBranch, countAll |-> <<>>, countByStatus |-> <<"status", "branch">>]

FileContentStore ==
  [getByFilePath |-> FileOnBranch, getByBranch |-> OnBranch, deleteByFilePath |-> FileOnBranch,
   deleteByBranch |-> OnBranch, count |-> OnBranch, countAll |-> <<>>, exists |-> FileOnBranch]

RepoMapStore ==
  [getByBranch |-> OnBranch, getByFilePath |-> FileOnBranch, deleteByBranch |-> OnBranch,
   deleteByFilePath |-> FileOnBranch]

KeywordStore == [delete |-> <<"symbol_id">>, deleteByFilePath |-> <<"file_path">>]

ContentFTSStore ==
  [deleteById |-> <<"content_id">>, deleteByContentType |-> <<"content_type">>,
   deleteByFilePath |-> <<"file_path">>, countAll |-> <<>>, countByContentType |-> <<"content_type">>]

StoreOf ==
  [symbols |-> SymbolStore, edges |-> EdgeStore, chunks |-> ChunkStore, files |-> FileStore,
   file_contents |-> FileContentStore, repo_map |-> RepoMapStore,
   fts_symbols |-> KeywordStore, fts_content |-> ContentFTSStore]
-----------------------------------------------------------------------------
Matches(row, columns, values) == \A i \in DOMAIN columns : row[columns[i]] = values[i]
Select(db, table, statement, values) ==
  SelectSeq(db[table], LAMBDA r : Matches(r, StoreOf[table][statement], values))
Ids(rows) == {rows[i].id : i \in DOMAIN rows}

(* Foreign keys: the edges of a symbol that goes, go with it; its chunks   *)
(* stay, without a parent.                                                 *)
Orphaned(db, gone) ==
  [db EXCEPT
     !.edges = SelectSeq(@, LAMBDA e : e.source_id \notin gone /\ e.target_id \notin gone),
     !.chunks = [i \in DOMAIN @ |-> IF @[i].parent_symbol_id \in gone
                                    THEN [@[i] EXCEPT !.parent_symbol_id = Null] ELSE @[i]]]
Refused(db, table, row) ==
  \/ table = "edges" /\ ~({row.source_id, row.target_id} \subseteq Ids(db.symbols))
  \/ table = "chunks" /\ row.parent_symbol_id \notin Ids(db.symbols) \cup {Null}

DeleteWhere(db, table, columns, values) ==
  LET gone == SelectSeq(db[table], LAMBDA r : Matches(r, columns, values))
      left == [db EXCEPT ![table] = SelectSeq(@, LAMBDA r : ~Matches(r, columns, values))]
  IN IF table = "symbols" THEN Orphaned(left, Ids(gone)) ELSE left
Delete(db, table, statement, values) == DeleteWhere(db, table, StoreOf[table][statement], values)

(* INSERT OR REPLACE: the row that is replaced is deleted first, with what *)
(* a deletion entails.                                                     *)
Insert(db, table, row) ==
  LET key == PrimaryKey[table]
      free == IF table \in FullText THEN db
              ELSE DeleteWhere(db, table, key, [i \in DOMAIN key |-> row[key[i]]])
  IN [free EXCEPT ![table] = Append(@, row)]

(* One transaction: a row that is refused undoes them all and throws.      *)
UpsertMany(db, table, rows) ==
  FoldLeft(LAMBDA result, row :
             IF ~result.ok \/ Refused(result.db, table, row) THEN [db |-> db, ok |-> FALSE]
             ELSE [result EXCEPT !.db = Insert(@, table, row)],
           [db |-> db, ok |-> TRUE], rows)

updateStatus(db, path, branch, status) ==
  [db EXCEPT !.files = [i \in DOMAIN @ |-> IF Matches(@[i], FileOnBranch, <<path, branch>>)
                                           THEN [@[i] EXCEPT !.status = status] ELSE @[i]]]

deleteStaleEdges(db, symbolIds, branch) ==
  [db EXCEPT !.edges = SelectSeq(@, LAMBDA e :
     e.branch # branch \/ {e.source_id, e.target_id} \cap symbolIds = {})]
-----------------------------------------------------------------------------
(* A question to the unified full-text index: its words of two letters and *)
(* more that are no operators.  A word of four or more becomes `"w" OR     *)
(* "w"*' inside a list joined by AND, which binds more tightly: the list   *)
(* is an alternative of conjunctions, cut at each such word.  A row's      *)
(* `terms' are the texts that occur in it; fewer than three letters match  *)
(* nothing.                                                                *)
Conjunctions(words) ==
  LET cut == FoldLeft(LAMBDA c, w : IF w.length >= 4 /\ ~w.starred
                                    THEN [done |-> c.done \cup {c.open \cup {w}}, open |-> {w}]
                                    ELSE [c EXCEPT !.open = @ \cup {w}],
                      [done |-> {}, open |-> {}], words)
  IN cut.done \cup {cut.open}
HasWord(row, word) == word.length >= 3 /\ word.text \in row.terms
buildFTS5Query(words) == SelectSeq(words, LAMBDA w : w.length >= 2 /\ ~w.operator)
contentSearch(db, words, contentType) ==
  LET asked == buildFTS5Query(words)
  IN IF asked = <<>> THEN <<>>
     ELSE SelectSeq(db.fts_content, LAMBDA r :
            /\ \E c \in Conjunctions(asked) : \A w \in c : HasWord(r, w)
            /\ contentType # "" => r.content_type = contentType)

(* What has every word of a question (of three letters at least) is found; *)
(* of a question of long words, so is what has the first of them, the last *)
(* or two neighbours, and nothing else.                                    *)
FindsWhatHasTheWords(db, words) ==
  LET found == ToSet(contentSearch(db, words, ""))
      asked == buildFTS5Query(words)
      n == Len(asked)
  IN \A row \in ToSet(db.fts_content) :
       LET Has(i) == HasWord(row, asked[i])
       IN /\ n > 0 /\ (\A i \in 1..n : Has(i)) => row \in found
          /\ n > 0 /\ (\A i \in 1..n : asked[i].length >= 4 /\ ~asked[i].starred)
               => (row \in found <=> Has(1) \/ Has(n) \/ \E i \in 1 .. n - 1 : Has(i) /\ Has(i + 1))
-----------------------------------------------------------------------------
(* A database file: its version (0: none), whether js_vectors lacks the    *)
(* column `granularity', the models its vectors come from, and the model   *)
(* that is recorded.                                                       *)
SCHEMA_VERSION == 3

(* Opening runs the schema, which makes an index on that column; a missing *)
(* version is taken for the newest; then come the migrations above the     *)
(* version that is found, each followed by its number, and at last the     *)
(* vectors of another model than the embedder's are wiped.                 *)
Migrated(d, version) ==
  IF version = 2 THEN [d EXCEPT !.js_vectors = "granular"] ELSE [d EXCEPT !.vectors = {}]
OpeningStep(o, step, model) ==
  LET d == o.disk
      due == step.version > o.current
  IN CASE o.failed -> o
       [] step.run = "schema" ->
            IF d.js_vectors = "plain" THEN [o EXCEPT !.failed = TRUE]
            ELSE [o EXCEPT !.disk.js_vectors = "granular"]
       [] step.run = "version" ->
            LET version == IF d.version = 0 THEN SCHEMA_VERSION ELSE d.version
            IN [o EXCEPT !.disk.version = version, !.current = version]
       [] step.run = "migrate" -> IF ~due THEN o
                                  ELSE IF step.version = 2 /\ d.js_vectors = "granular" THEN [o EXCEPT !.failed = TRUE]
                                  ELSE [o EXCEPT !.disk = Migrated(@, step.version)]
       [] step.run = "stamp" -> IF due THEN [o EXCEPT !.disk.version = step.version] ELSE o
       [] step.run = "wipe" ->
            IF d.model \in {"", model} THEN o ELSE [o EXCEPT !.disk.vectors = {}]
       [] step.run = "model" -> [o EXCEPT !.disk.model = model]
OpeningSteps ==
  LET Run(name, version) == [run |-> name, version |-> version]
  IN <<Run("schema", 0), Run("version", 0), Run("migrate", 2), Run("stamp", 2), Run("migrate", 3),
       Run("stamp", 3), Run("wipe", 0), Run("model", 0)>>
(* The first n steps of an opening; fewer than all when the process dies.  *)
Opening(disk, model, n) ==
  FoldLeft(LAMBDA o, step : OpeningStep(o, step, model), [disk |-> disk, failed |-> FALSE, current |-> 0],
           SubSeq(OpeningSteps, 1, n))
(* Each session opens the file and, if that succeeds, embeds with its      *)
(* model.                                                                  *)
AfterSession(disk, session) ==
  LET o == Opening(disk, session.model, session.steps)
  IN IF o.failed \/ session.steps < Len(OpeningSteps) THEN o.disk
     ELSE [o.disk EXCEPT !.vectors = @ \cup {session.model}]
AfterSessions(disk, sessions) == FoldLeft(AfterSession, disk, sessions)

(* Over any sessions, some of which die while they open the file, the      *)
(* vectors are of the model that is recorded, also if the model changes; a *)
(* file opens, as version 3, unless it was written by version 1, which is  *)
(* refused for good before its migration is reached.                       *)
VectorsAreOfTheModel(disk, sessions, model) ==
  LET left == AfterSessions(disk, sessions)
      o == Opening(left, model, Len(OpeningSteps))
  IN /\ o.failed <=> disk.version = 1
     /\ ~o.failed => o.disk.version = SCHEMA_VERSION /\ o.disk.vectors \subseteq {model}
-----------------------------------------------------------------------------
(* Comparison of the rows of a branch with those of another one, by        *)
(* qualified name; `limit' cuts each list.                                 *)
Upto(rows, limit) == SubSeq(rows, 1, IF limit < Len(rows) THEN limit ELSE Len(rows))
SymbolsOn(db, branch) == Select(db, "symbols", "getAll", <<branch>>)
Twins(db, symbol, branch) == SelectSeq(SymbolsOn(db, branch), LAMBDA t : t.qualified_name = symbol.qualified_name)
getAddedSymbols(db, source, target, limit) ==
  Upto(SelectSeq(SymbolsOn(db, source), LAMBDA s : Twins(db, s, target) = <<>>), limit)
getRemovedSymbols(db, source, target, limit) == getAddedSymbols(db, target, source, limit)
Pairs(db, source, target) ==
  FoldLeft(LAMBDA pairs, s : pairs \o [i \in DOMAIN Twins(db, s, target) |->
                                         [source |-> s, target |-> Twins(db, s, target)[i]]],
           <<>>, SymbolsOn(db, source))
getModifiedSymbols(db, source, target, limit) ==
  Upto(SelectSeq(Pairs(db, source, target), LAMBDA p : p.source.content_hash # p.target.content_hash), limit)
unchangedCount(db, source, target) ==
  Len(SelectSeq(Pairs(db, source, target), LAMBDA p : p.source.content_hash = p.target.content_hash))
addedEdges(db, source, target, limit) ==
  LET On(branch) == SelectSeq(db.edges, LAMBDA e : e.branch = branch)
      Same(e, f) == Matches(e, <<"source_id", "target_id", "type">>, <<f.source_id, f.target_id, f.type>>)
  IN Upto(SelectSeq(On(source), LAMBDA e : ~\E f \in ToSet(On(target)) : Same(e, f)), limit)

(* The files with symbols on one branch only, and those of the symbols     *)
(* that differ.                                                            *)
getAffectedFiles(db, source, target) ==
  LET Files(branch) == {s.file_path : s \in ToSet(SymbolsOn(db, branch))}
      modified == getModifiedSymbols(db, source, target, Len(Pairs(db, source, target)))
  IN (Files(source) \ Files(target)) \cup (Files(target) \ Files(source))
       \cup {p.source.file_path : p \in ToSet(modified)}

Changes(pair) ==
  [locationChanged |-> \/ pair.source.file_path # pair.target.file_path
                       \/ pair.source.start_line # pair.target.start_line,
   signatureChanged |-> pair.source.signature # pair.target.signature]
diff(db, source, target, options) ==
  LET modified == getModifiedSymbols(db, source, target, options.limit)
  IN [added |-> getAddedSymbols(db, source, target, options.limit),
      removed |-> getRemovedSymbols(db, source, target, options.limit),
      modified |-> [i \in DOMAIN modified |-> [pair |-> modified[i], changes |-> Changes(modified[i])]],
      unchanged |-> unchangedCount(db, source, target),
      addedEdges |-> IF options.includeEdges THEN addedEdges(db, source, target, options.limit) ELSE <<>>,
      removedEdges |-> IF options.includeEdges THEN addedEdges(db, target, source, options.limit) ELSE <<>>,
      affectedFiles |-> getAffectedFiles(db, source, target)]

(* What one comparison adds, the opposite one removes; when names are      *)
(* unique on a branch, each symbol of the source is added, modified or     *)
(* unchanged; a file is affected only if a symbol in it is none of the     *)
(* latter.                                                                 *)
NamesAreUnique(rows) == \A i, j \in DOMAIN rows : rows[i].qualified_name = rows[j].qualified_name => i = j
DiffsAreOpposite(db, a, b) ==
  LET options == [limit |-> Len(db.symbols) * Len(db.symbols), includeEdges |-> TRUE]
      forth == diff(db, a, b, options)
      back == diff(db, b, a, options)
      changed == {s.file_path : s \in ToSet(forth.added) \cup ToSet(forth.removed)}
                   \cup {m.pair.source.file_path : m \in ToSet(forth.modified)}
  IN /\ forth.added = back.removed /\ forth.addedEdges = back.removedEdges
     /\ forth.unchanged = back.unchanged /\ Len(forth.modified) = Len(back.modified)
     /\ (NamesAreUnique(SymbolsOn(db, a)) /\ NamesAreUnique(SymbolsOn(db, b))) =>
          /\ Len(SymbolsOn(db, a)) = Len(forth.added) + Len(forth.modified) + forth.unchanged
          /\ forth.affectedFiles \subseteq changed

(* The id of a symbol is that of its name and signature, without the       *)
(* branch: of the symbols that two branches share, a row exists on the one *)
(* that was indexed last.  To the comparison they are new on it, and none  *)
(* is ever unchanged.                                                      *)
SharedSymbolsLookAdded(first, second, a, b) ==
  LET db == UpsertMany(UpsertMany(NoRows, "symbols", first).db, "symbols", second).db
      forth == diff(db, b, a, [limit |-> 1000, includeEdges |-> TRUE])
  IN /\ forth.unchanged = 0
     /\ \A s \in ToSet(SymbolsOn(db, b)) :
          (\A t \in ToSet(first) : t.qualified_name = s.qualified_name => t.id = s.id) => s \in ToSet(forth.added)
-----------------------------------------------------------------------------
(* Whatever the stores are called with, the ends of an edge and the parent *)
(* of a chunk are in the table, and a primary key occurs once.             *)
ForeignKeysHold(db) ==
  /\ \A e \in ToSet(db.edges) : {e.source_id, e.target_id} \subseteq Ids(db.symbols)
  /\ \A c \in ToSet(db.chunks) : c.parent_symbol_id \in Ids(db.symbols) \cup {Null}
  /\ \A t \in DOMAIN PrimaryKey : \A i, j \in DOMAIN db[t] :
       (\A n \in DOMAIN PrimaryKey[t] : db[t][i][PrimaryKey[t][n]] = db[t][j][PrimaryKey[t][n]]) => i = j
-----------------------------------------------------------------------------
(* The stores of embeddings (pure-vector-store.ts): two of them, one that  *)
(* knows granularities and one that does not, over the one table           *)
(* js_vectors, each searching in a cache of its own, and the hybrid store  *)
(* that writes to sqlite-vec if that can be loaded.  A vector is a         *)
(* sequence of integers, which 32-bit floats and base64 keep; the order of *)
(* two cosines is told from the squares of their fractions.                *)
Stores == {"pure", "granular"}
NotLoaded == [valid |-> FALSE, rows |-> <<>>]
Opened(rows) == [rows |-> rows, cache |-> [s \in Stores |-> NotLoaded]]

-----------------------------------------------------------------------------
SumOf(terms) == FoldLeft(+, 0, terms)
Dot(a, b) == SumOf([i \in DOMAIN a |-> a[i] * b[i]])

(* The similarity of two vectors, as a fraction whose size is the square   *)
(* of the cosine, without the query's own length; 0 if one has none.       *)
cosineSimilarity(a, b) ==
  LET dot == Dot(a, b)
      magnitude == Dot(a, a) * Dot(b, b)
  IN IF magnitude = 0 THEN [over |-> 0, under |-> 1]
     ELSE [over |-> dot * (IF dot < 0 THEN -dot ELSE dot), under |-> Dot(b, b)]
Closer(s, t) == s.over * t.under > t.over * s.under

(* Rows of another dimension are skipped; of equally close ones, the first *)
(* in the cache comes first.                                               *)
Nearest(rows, query, limit, granularity) ==
  LET compared == SelectSeq(rows, LAMBDA r : Len(r.embedding) = Len(query)
                                             /\ (granularity = "" \/ r.granularity = granularity))
      similarity == [i \in DOMAIN compared |-> cosineSimilarity(query, compared[i].embedding)]
      place(i) == Len(SelectSeq([j \in DOMAIN compared |-> j], LAMBDA j :
                        Closer(similarity[j], similarity[i]) \/ (j < i /\ ~Closer(similarity[i], similarity[j]))))
      order == [n \in DOMAIN compared |-> compared[CHOOSE i \in DOMAIN compared : place(i) = n - 1]]
  IN SubSeq(order, 1, IF limit < Len(order) THEN limit ELSE Len(order))
-----------------------------------------------------------------------------
Without(rows, ids) == SelectSeq(rows, LAMBDA r : r.id \notin ids)
Replaced(rows, row) == Append(Without(rows, {row.id}), row)
invalidateCache(s, store) == [s EXCEPT !.cache[store].valid = FALSE]

(* The store without granularities leaves that column to its default.      *)
Stored(store, item) == IF store = "pure" THEN [item EXCEPT !.granularity = "symbol"] ELSE item
upsertMany(s, store, items) ==
  invalidateCache([s EXCEPT !.rows = FoldLeft(LAMBDA rows, i : Replaced(rows, Stored(store, i)), @, items)], store)

deleteMany(s, store, ids) ==
  IF ids = {} THEN s ELSE invalidateCache([s EXCEPT !.rows = Without(@, ids)], store)

deleteByGranularity(s, granularity) ==
  invalidateCache([s EXCEPT !.rows = SelectSeq(@, LAMBDA r : r.granularity # granularity)], "granular")

clear(s, store) == invalidateCache([s EXCEPT !.rows = <<>>], store)

count(s, granularity) == Len(SelectSeq(s.rows, LAMBDA r : granularity \in {"", r.granularity}))

Lookup(rows, id) ==
  LET found == SelectSeq(rows, LAMBDA r : r.id = id) IN IF found = <<>> THEN Null ELSE found[1].embedding

loadCache(s, store) ==
  IF s.cache[store].valid THEN s ELSE [s EXCEPT !.cache[store] = [valid |-> TRUE, rows |-> s.rows]]
search(s, store, query, limit, granularity) ==
  LET loaded == loadCache(s, store)
  IN [state |-> loaded,
      answer |-> Nearest(loaded.cache[store].rows, query, limit, IF store = "pure" THEN "" ELSE granularity)]
-----------------------------------------------------------------------------
(* With sqlite-vec, the hybrid store writes, searches and counts in a      *)
(* table of that extension, but looks an id up in js_vectors.              *)
Hybrid(rows, usingSqliteVec) == [js |-> Opened(rows), vec |-> <<>>, usingSqliteVec |-> usingSqliteVec]
hybridUpsertMany(h, items) ==
  IF h.usingSqliteVec
  THEN [h EXCEPT !.vec = FoldLeft(Replaced, @, items)]
  ELSE [h EXCEPT !.js = upsertMany(@, "pure", items)]
hybridDeleteMany(h, ids) ==
  IF h.usingSqliteVec THEN [h EXCEPT !.vec = Without(@, ids)] ELSE [h EXCEPT !.js = deleteMany(@, "pure", ids)]
hybridClear(h) == IF h.usingSqliteVec THEN [h EXCEPT !.vec = <<>>] ELSE [h EXCEPT !.js = clear(@, "pure")]
hybridCount(h) == IF h.usingSqliteVec THEN Len(h.vec) ELSE count(h.js, "")
hybridGet(h, id) == Lookup(h.js.rows, id)
-----------------------------------------------------------------------------
(* Calls, of either store, and what they do.                               *)
Does(s, call) ==
  CASE call.op = "upsert" -> upsertMany(s, call.store, <<call.item>>)
    [] call.op = "delete" -> deleteMany(s, call.store, {call.item.id})
    [] call.op = "forget" -> deleteByGranularity(s, call.item.granularity)
    [] call.op = "clear" -> clear(s, call.store)
    [] call.op = "search" -> search(s, call.store, call.item.embedding, 2, call.item.granularity).state
Writer(call) == IF call.op = "search" THEN {} ELSE {IF call.op = "forget" THEN "granular" ELSE call.store}
After(calls) == FoldLeft(Does, Opened(<<>>), calls)

(* A store searches in the table as it was at its first search since its   *)
(* own last write, whatever the other store has written to it since; a     *)
(* store that is alone always searches in the table as it is.              *)
AnswersFromItsLoad(calls, store, query) ==
  LET n == Len(calls)
      Table(i) == After(SubSeq(calls, 1, i)).rows
      writes == {i \in 1..n : store \in Writer(calls[i])}
      loads == {i \in 1..n : /\ calls[i].op = "search" /\ calls[i].store = store
                             /\ \A w \in writes : w < i}
      loaded == IF loads = {} THEN n ELSE CHOOSE i \in loads : \A j \in loads : i <= j
      answer == search(After(calls), store, query, 9, "").answer
  IN /\ answer = Nearest(Table(loaded), query, 9, "")
     /\ (\A i \in 1..n : Writer(calls[i]) \subseteq {store}) => answer = Nearest(Table(n), query, 9, "")

(* What a search leaves out is no closer than what it finds, and how long  *)
(* a vector is does not matter.                                            *)
Lengthened(rows, id) ==
  [i \in DOMAIN rows |-> IF rows[i].id # id THEN rows[i]
                         ELSE [rows[i] EXCEPT !.embedding = [n \in DOMAIN @ |-> 2 * @[n]]]]
FindsTheNearest(calls, query, limit, longer) ==
  LET s == After(calls)
      found == search(s, "granular", query, limit, "").answer
      all == SelectSeq(s.rows, LAMBDA r : Len(r.embedding) = Len(query))
      Similarity(r) == cosineSimilarity(query, r.embedding)
  IN (~s.cache["granular"].valid) =>
       /\ Len(found) = IF limit < Len(all) THEN limit ELSE Len(all)
       /\ \A r \in ToSet(all) \ ToSet(found), f \in ToSet(found) : ~Closer(Similarity(r), Similarity(f))
       /\ Lengthened(found, longer) = Nearest(Lengthened(s.rows, longer), query, limit, "")

(* What the hybrid store is given it gives back, unless sqlite-vec is      *)
(* there: then it looks for it in a table it never writes.                 *)
HybridGivesBack(rows, items, usingSqliteVec) ==
  LET h == hybridUpsertMany(Hybrid(rows, usingSqliteVec), items)
      given == {items[i].id : i \in DOMAIN items}
  IN \A id \in given :
       /\ hybridGet(h, id) = Lookup(IF usingSqliteVec THEN rows ELSE FoldLeft(Replaced, rows, items), id)
       /\ hybridCount(hybridDeleteMany(h, given)) = IF usingSqliteVec THEN 0 ELSE Len(Without(rows, given))
==============================================================================
