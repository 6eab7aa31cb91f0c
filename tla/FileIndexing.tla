---------------------------- MODULE FileIndexing ------------------------------
(***************************************************************************)
(* What code-intel writes for a file (indexFileInternal and the watcher's  *)
(* deletion, indexing/index-manager.ts), the edges it infers between       *)
(* symbols (extraction/ast-inference.ts), and the impact that is read from *)
(* them (query/impact-analysis.ts).  A file is its lines, and the symbols  *)
(* and chunks that they are parsed into; an embedding is the content it    *)
(* was made from, and confidences are percentages.                         *)
(***************************************************************************)
EXTENDS Storage

IMPORT_EXACT == 50
IMPORT_INFERRED == 35
CALL_EXACT == 45
CALL_INFERRED == 30
minConfidence == 30

(* Imports and calls are read line by line.  A line is an import if it     *)
(* holds all of it: one over several lines, of types only or of nothing is *)
(* not seen.  A default or a namespace counts under its local name.        *)
parseImports(lines, forms) ==
  LET found == SelectSeq(lines, LAMBDA l : l.form \in forms)
  IN [i \in DOMAIN found |-> [module |-> found[i].module, names |-> found[i].names]]
parseTypeScriptImports(lines) == parseImports(lines, {"named", "default", "namespace"})
parsePythonImports(lines) == parseImports(lines, {"from", "module"})

(* A call is of a name, of a method of a name, or of a method of another   *)
(* expression, and the last is not seen; nor are those on lines that begin *)
(* as a definition, `const x = f()' included.                              *)
findCalls(lines, skipped, keywords) ==
  LET Methods(line) == SelectSeq(line.calls, LAMBDA c : c.of = "name")
      Plain(line) == SelectSeq(line.calls, LAMBDA c : c.of = "nothing" /\ c.name \notin keywords)
      Seen(calls, isMethodCall) == [i \in DOMAIN calls |-> [name |-> calls[i].name, isMethodCall |-> isMethodCall]]
      read == SelectSeq(lines, LAMBDA l : l.begins \notin skipped)
  IN FoldLeft(LAMBDA all, l : all \o Seen(Methods(l), TRUE) \o Seen(Plain(l), FALSE), <<>>, read)
findTypeScriptCalls(lines) ==
  findCalls(lines, {"import", "export", "function", "variable"},
            {"if", "for", "while", "switch", "catch", "function", "return", "typeof", "new", "await", "async"})
findPythonCalls(lines) ==
  findCalls(lines, {"import", "function", "class"}, {"if", "for", "while", "with", "except", "lambda", "print"})

(* A map of symbols lists them in the order in which they came in.         *)
MapDelete(map, ids) == SelectSeq(map, LAMBDA s : s.id \notin ids)
MapSet(map, symbol) ==
  IF symbol.id \in Ids(map) THEN [i \in DOMAIN map |-> IF map[i].id = symbol.id THEN symbol ELSE map[i]]
  ELSE Append(map, symbol)

(* The symbol of a name, as a set of at most one: the first of those that  *)
(* score most for their file and their type.                               *)
Score(symbol, path) ==
  1 + (IF path # "" /\ symbol.file_path = path THEN 2 ELSE 0)
    + (IF symbol.type \in {"FUNCTION", "METHOD", "CLASS"} THEN 1 ELSE 0)
findSymbolByName(name, map, preferredPath) ==
  LET named == SelectSeq(map, LAMBDA s : s.name = name)
      Before(i, j) == Score(named[i], preferredPath) > Score(named[j], preferredPath)
  IN {named[i] : i \in {i \in DOMAIN named : /\ \A j \in 1 .. i - 1 : Before(i, j)
                                             /\ \A j \in DOMAIN named : ~Before(j, i)}}

(* A module is given by the paths that contain its text.                   *)
resolveModuleToFile(module, map) ==
  LET found == SelectSeq(map, LAMBDA s : s.file_path \in module)
  IN IF found = <<>> THEN "" ELSE found[1].file_path

createEdge(source, target, type, confidence, branch) ==
  [id |-> <<source, target, type>>, source_id |-> source, target_id |-> target, type |-> type,
   confidence |-> confidence, branch |-> branch]

inferEdgesForSymbol(symbol, map, branch) ==
  LET Edge(call, t) == createEdge(symbol.id, t.id, "CALLS", IF call.isMethodCall THEN CALL_INFERRED ELSE CALL_EXACT, branch)
      Of(call) == {Edge(call, t) : t \in {t \in findSymbolByName(call.name, map, symbol.file_path) : t.id # symbol.id}}
      calls == IF symbol.language = "typescript" THEN findTypeScriptCalls(symbol.lines) ELSE findPythonCalls(symbol.lines)
      edges == FoldLeft(LAMBDA all, call : all \o SetToSeq(Of(call)), <<>>, calls)
  IN IF symbol.is_external THEN <<>> ELSE SelectSeq(edges, LAMBDA e : e.confidence >= minConfidence)

(* Imports go out from the module's symbol, or else the file's first.      *)
ImportingSymbol(path, map) ==
  LET own == SelectSeq(map, LAMBDA s : s.file_path = path)
      modules == SelectSeq(own, LAMBDA s : s.type = "MODULE")
  IN SubSeq(modules \o own, 1, IF own = <<>> THEN 0 ELSE 1)
importsOf(file) ==
  CASE file.language = "typescript" -> parseTypeScriptImports(file.lines)
    [] file.language = "python" -> parsePythonImports(file.lines)
    [] OTHER -> <<>>
inferImportEdges(file, map) ==
  LET source == ImportingSymbol(file.path, map)
      Of(import, name) ==
        LET path == resolveModuleToFile(import.module, map)
        IN {createEdge(source[1].id, t.id, "IMPORTS", IF path # "" THEN IMPORT_EXACT ELSE IMPORT_INFERRED, file.branch) :
              t \in findSymbolByName(name, map, path)}
      Named(import) == FoldLeft(LAMBDA all, name : all \o SetToSeq(Of(import, name)), <<>>, import.names)
  IN IF source = <<>> THEN <<>>
     ELSE SelectSeq(FoldLeft(LAMBDA all, import : all \o Named(import), <<>>, importsOf(file)),
                    LAMBDA e : e.confidence >= minConfidence)
-----------------------------------------------------------------------------
(* The embeddings of the file's old chunks, by content.                    *)
OldEmbeddings(s, file) ==
  LET old == Select(s.db, "chunks", "getByFilePath", <<file.path, file.branch>>)
  IN {<<c.content_hash, s.vectors[c.id]>> : c \in {c \in ToSet(old) : c.id \in DOMAIN s.vectors}}

(* Symbols and chunks go for this branch, full-text rows for all branches. *)
Cleared(db, file) ==
  LET here == <<file.path, file.branch>>
      old == Ids(Select(db, "symbols", "getByFilePath", here))
      symbols == Delete(db, "symbols", "deleteByFilePath", here)
      keywords == Delete(symbols, "fts_symbols", "deleteByFilePath", <<file.path>>)
      chunks == Delete(keywords, "chunks", "deleteByFilePath", here)
      contents == Delete(chunks, "fts_content", "deleteByFilePath", <<file.path>>)
  IN deleteStaleEdges(contents, old, file.branch)

WithSymbols(db, file) ==
  LET Keyword(s) == [symbol_id |-> s.id, file_path |-> s.file_path]
      Entry(s) == [content_id |-> s.id, content_type |-> "symbol", file_path |-> s.file_path]
      stored == UpsertMany(db, "symbols", file.symbols).db
      keywords == UpsertMany(stored, "fts_symbols", [i \in DOMAIN file.symbols |-> Keyword(file.symbols[i])]).db
  IN UpsertMany(keywords, "fts_content", [i \in DOMAIN file.symbols |-> Entry(file.symbols[i])]).db

(* Edges out of the file's symbols, to those that are known so far: the    *)
(* map that a run shares, or the rows of the branch.                       *)
Inferred(file, map) ==
  inferImportEdges(file, map)
    \o FoldLeft(LAMBDA all, s : all \o inferEdgesForSymbol(s, map, file.branch), <<>>, file.symbols)
WithEdges(db, file, map) ==
  IF file.symbols = <<>> \/ file.isExternal THEN [db |-> db, ok |-> TRUE]
  ELSE UpsertMany(db, "edges", Inferred(file, map))

WithChunks(db, file) ==
  LET Entry(c) == [content_id |-> c.id, content_type |-> IF c.chunk_type = "file" THEN "file" ELSE "chunk",
                   file_path |-> c.file_path]
      stored == UpsertMany(db, "chunks", file.chunks).db
  IN UpsertMany(stored, "fts_content", [i \in DOMAIN file.chunks |-> Entry(file.chunks[i])]).db

(* A chunk whose content had an embedding keeps it; the others are         *)
(* embedded, all of them or, if the embedder fails, none.                  *)
Embedded(vectors, old, file, embeds) ==
  LET Known(c) == \E o \in old : o[1] = c.content_hash
      Lent(c) == (CHOOSE o \in old : o[1] = c.content_hash)[2]
      new == {c \in ToSet(file.chunks) : Known(c) \/ embeds}
      Of(id) == CHOOSE c \in new : c.id = id
  IN [id \in DOMAIN vectors \cup {c.id : c \in new} |->
        IF \A c \in new : c.id # id THEN vectors[id]
        ELSE IF Known(Of(id)) THEN Lent(Of(id)) ELSE Of(id).content_hash]

Recorded(db, file) ==
  LET text == [file_path |-> file.path, branch |-> file.branch]
      record == [file_path |-> file.path, branch |-> file.branch, status |-> "indexed"]
      texts == IF file.isEmpty THEN db ELSE Insert(db, "file_contents", text)
  IN Insert(texts, "files", record)

(* A file that cannot be read, or whose edges are refused, is only marked. *)
indexFileInternal(s, file, embeds) ==
  LET old == Ids(Select(s.db, "symbols", "getByFilePath", <<file.path, file.branch>>))
      stored == WithSymbols(Cleared(s.db, file), file)
      map == IF s.shared THEN FoldLeft(MapSet, MapDelete(s.map, old), file.symbols)
             ELSE SymbolsOn(stored, file.branch)
      edges == WithEdges(stored, file, map)
      Marked(db) == updateStatus(db, file.path, file.branch, "error")
  IN IF ~file.isReadable THEN [s EXCEPT !.db = Marked(@)]
     ELSE IF ~edges.ok THEN [s EXCEPT !.db = Marked(edges.db), !.map = map]
     ELSE [s EXCEPT !.db = Recorded(WithChunks(edges.db, file), file), !.map = map,
                    !.vectors = Embedded(@, OldEmbeddings(s, file), file, embeds)]

(* The watcher's handler of a deletion.                                    *)
unlink(db, path, branch) == Delete(Cleared(db, [path |-> path, branch |-> branch]), "files", "deleteByPath", <<path, branch>>)
-----------------------------------------------------------------------------
DEFAULT_CONFIDENCE_THRESHOLD == 50
calculateRiskLevel(dependents) ==
  CASE dependents <= 3 -> "low" [] dependents <= 10 -> "medium" [] dependents <= 25 -> "high" [] OTHER -> "critical"

(* Breadth first over the callers; a symbol that is taken up at the        *)
(* deepest level counts as cut off, whether or not it has callers.  A      *)
(* caller is in the table and no newer than its edge, which goes with it.  *)
RECURSIVE Dependents(_, _, _)
Dependents(db, walk, options) ==
  LET current == Head(walk.queue)
      rest == [walk EXCEPT !.queue = Tail(@)]
      callers == SelectSeq(Select(db, "edges", "getCallers", <<current.id, options.branch, "CALLS">>),
                           LAMBDA e : e.confidence >= options.confidenceThreshold)
      Take(w, e) ==
        LET next == [id |-> e.source_id, depth |-> current.depth + 1]
        IN IF e.source_id \in w.visited THEN w
           ELSE [w EXCEPT !.visited = @ \cup {e.source_id}, !.affected = Append(@, next), !.queue = Append(@, next)]
  IN IF walk.queue = <<>> THEN walk
     ELSE Dependents(db, IF current.depth >= options.maxDepth THEN [rest EXCEPT !.partial = TRUE]
                         ELSE FoldLeft(Take, rest, callers), options)
analyzeImpact(db, id, options) ==
  LET root == [id |-> id, depth |-> 0]
      walk == Dependents(db, [queue |-> <<root>>, visited |-> {id}, affected |-> <<>>, partial |-> FALSE], options)
  IN IF id \notin Ids(db.symbols) THEN Null ELSE
     [affected |-> walk.affected, risk |-> calculateRiskLevel(Len(walk.affected)),
      directDependents |-> Len(SelectSeq(walk.affected, LAMBDA a : a.depth = 1)),
      confidence |-> IF walk.partial THEN "medium" ELSE "high"]
-----------------------------------------------------------------------------
(* TypeScript's reader sees what Python's would see of a text without its  *)
(* exports and variables; to leave out a line hides the calls on it only.  *)
DeclarationsHideCalls(lines) ==
  LET plain == SelectSeq(lines, LAMBDA l : l.begins \notin {"export", "variable"})
      calls == findTypeScriptCalls(lines)
      Seen(l) == Len(findTypeScriptCalls(<<l>>))
  IN /\ ({"class"} \cap {l.begins : l \in ToSet(lines)} = {}) => calls = findPythonCalls(plain)
     /\ \A c \in ToSet(calls) : \E l \in ToSet(lines) : \E k \in ToSet(l.calls) :
          k.name = c.name /\ k.of = IF c.isMethodCall THEN "name" ELSE "nothing"
     /\ \A i \in DOMAIN lines : Len(findTypeScriptCalls(RemoveAt(lines, i))) = Len(calls) - Seen(lines[i])

NoIndex(shared) == [db |-> NoRows, vectors |-> [id \in {} |-> Null], map |-> <<>>, shared |-> shared]
AfterFiles(shared, files) ==
  FoldLeft(LAMBDA s, f : indexFileInternal(s, f.file, f.embeds), NoIndex(shared), files)

(* Indexing a file again leaves its outgoing edges as inferred from what   *)
(* is in the table, those between other files as they were, and none of    *)
(* the edges into it, although the files those come from have not changed. *)
(* (A run during which the branch changes may draw the file's imports from *)
(* its symbol on the old one.)                                             *)
EdgesOfIndexing(s, file, embeds) ==
  LET after == indexFileInternal(s, file, embeds)
      here == Ids(file.symbols) \cup Ids(Select(s.db, "symbols", "getByFilePath", <<file.path, file.branch>>))
      Within(db, S, T) == {e \in ToSet(db.edges) : e.source_id \in S /\ e.target_id \in T}
      all == Ids(s.db.symbols) \cup here
  IN (file.isReadable /\ ~file.isExternal) =>
       /\ ForeignKeysHold(after.db)
       /\ (s.shared => \A m \in ToSet(s.map) : m.branch = file.branch) =>
            Within(after.db, all \ here, all \ here) = Within(s.db, all \ here, all \ here)
       /\ Within(after.db, all \ here, here) = {}
       /\ ~s.shared => {e.id : e \in Within(after.db, here, all)}
                          = {e.id : e \in ToSet(Inferred(file, SymbolsOn(after.db, file.branch)))}
(* A call goes to another symbol, of the caller's own file if the name is  *)
(* there, and an import to one in a file of its module, or else to any.    *)
NamesResolveNear(s, file) ==
  LET db == indexFileInternal(s, file, FALSE).db
      Symbol(id) == CHOOSE x \in ToSet(db.symbols) : x.id = id
      Here(name, paths) == {x \in ToSet(SymbolsOn(db, file.branch)) : x.name = name /\ x.file_path \in paths}
      imported == {e \in ToSet(db.edges) : e.type = "IMPORTS" /\ Symbol(e.source_id).file_path = file.path}
      calls == {e \in ToSet(db.edges) : e.type = "CALLS" /\ Symbol(e.source_id).file_path = file.path}
  IN (~s.shared /\ file.isReadable /\ file.symbols # <<>>) =>
       /\ \A e \in calls : LET called == Symbol(e.target_id)
                           IN /\ e.source_id # e.target_id
                              /\ called.file_path = file.path \/ Here(called.name, {file.path}) = {}
       /\ \A import \in ToSet(importsOf(file)) : \A name \in ToSet(import.names) :
            LET near == Here(name, import.module)
                any == {x \in ToSet(SymbolsOn(db, file.branch)) : x.name = name}
            IN any # {} => \E e \in imported : e.target_id \in Ids(SetToSeq(IF near # {} THEN near ELSE any))

(* No edge is ever refused, with the map of a run or without it.           *)
NoEdgeIsRefused(s, file) ==
  file.isReadable => \E r \in ToSet(indexFileInternal(s, file, FALSE).db.files) : r.file_path = file.path /\ r.status = "indexed"

(* The full-text rows of a path, and its record, are those of its last     *)
(* indexing on any branch, each once.                                      *)
LastOf(files, path) == LET own == SelectSeq(files, LAMBDA f : f.file.path = path /\ f.file.isReadable) IN own[Len(own)].file
KeywordsAreOfTheLast(shared, files) ==
  LET s == AfterFiles(shared, files)
      paths == {f.file.path : f \in {f \in ToSet(files) : f.file.isReadable}}
      Keys(path) == SelectSeq(s.db.fts_symbols, LAMBDA r : r.file_path = path)
      Contents(path) == SelectSeq(s.db.fts_content, LAMBDA r : r.file_path = path)
  IN \A path \in paths :
       LET last == LastOf(files, path)
       IN /\ [i \in DOMAIN Keys(path) |-> Keys(path)[i].symbol_id] = [i \in DOMAIN last.symbols |-> last.symbols[i].id]
          /\ Len(Contents(path)) = Len(last.symbols) + Len(last.chunks)
          /\ \A b \in {f.file.branch : f \in ToSet(files)} :
               Select(s.db, "files", "getByPath", <<path, b>>) # <<>> <=> b = last.branch

(* An embedding is always of the content of its chunk, and a content that  *)
(* had one when its file was indexed again still has it, whether or not    *)
(* the embedder works.                                                     *)
EmbeddingsAreOfTheContent(s, file, embeds) ==
  LET after == indexFileInternal(s, file, embeds)
      Has(t, c) == c.id \in DOMAIN t.vectors
      old == Select(s.db, "chunks", "getByFilePath", <<file.path, file.branch>>)
  IN \A c \in ToSet(after.db.chunks) :
       /\ Has(after, c) => after.vectors[c.id] = c.content_hash
       /\ /\ file.isReadable /\ Matches(c, FileOnBranch, <<file.path, file.branch>>)
          /\ \E o \in ToSet(old) : o.content_hash = c.content_hash /\ Has(s, o)
          => Has(after, c)

(* The impact of a symbol is what can reach it by calls that are confident *)
(* enough, and the least number of them it takes; with the threshold that  *)
(* the tools use, no inferred call is, and every symbol looks safe.        *)
ImpactIsReachability(db, id, options) ==
  LET impact == analyzeImpact(db, id, options)
      call == {<<e.source_id, e.target_id>> :
                 e \in {e \in ToSet(db.edges) : e.type = "CALLS" /\ e.branch = options.branch
                                                 /\ e.confidence >= options.confidenceThreshold}}
      Level[n \in 0..options.maxDepth] == IF n = 0 THEN {id} ELSE {c[1] : c \in {c \in call : c[2] \in Level[n - 1]}}
      depths(x) == {n \in 0..options.maxDepth : x \in Level[n]}
      found == {[id |-> x, depth |-> CHOOSE n \in depths(x) : \A m \in depths(x) : n <= m] :
                  x \in {x \in Ids(db.symbols) \ {id} : depths(x) # {}}}
  IN /\ ToSet(impact.affected) = found /\ Len(impact.affected) = Cardinality(found)
     /\ options.confidenceThreshold = DEFAULT_CONFIDENCE_THRESHOLD =>
          impact.affected = <<>> /\ impact.risk = "low" /\ impact.confidence = "high"
==============================================================================
