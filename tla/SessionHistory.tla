---------------------------- MODULE SessionHistory -----------------------------
(***************************************************************************)
(* The tools that show past sessions, workspace/src/session-history.ts,    *)
(* with the paths of their scope: hooks/context-scout.ts and bun-compat.ts *)
(* (POSIX paths only).                                                     *)
(*                                                                         *)
(* A value that may be missing or of another type is an option: <<>> or    *)
(* <<v>>.  A path is [absolute, segments].  What the client answers is     *)
(* [fails, data]; data that is no list counts as an empty one.  A tool     *)
(* returns [asked, ...]: the queries it sent, and what it shows.  Texts    *)
(* are shown cut and redacted, which is left out.                          *)
(***************************************************************************)
EXTENDS Integers, Sequences, SequencesExt, TLC

CONSTANTS Trim(_), Length(_), Lower(_), Includes(_, _)   \* of strings

NoRecord == [is |-> "no record"]
OrElse(option, default) == IF option = <<>> THEN default ELSE option[1]
LastOf(list, n) == SubSeq(list, IF Len(list) > n THEN Len(list) - n + 1 ELSE 1, Len(list))
FirstOf(list, n) == SubSeq(list, 1, IF Len(list) > n THEN n ELSE Len(list))

Failed(result) == "error" \in DOMAIN result
Then(result, Next(_)) == IF Failed(result) THEN result ELSE Next(result)
(* The first check [holds, says] that does not hold is the error.          *)
Checked(checks, value) ==
  LET broken == SelectSeq(checks, LAMBDA c : ~c[1])
  IN IF broken = <<>> THEN value ELSE [error |-> broken[1][2]]
-----------------------------------------------------------------------------
(* Going up from the root of an absolute path leads nowhere; a relative    *)
(* one keeps the steps up that it begins with.                             *)
normalizeSegments(segments, absolute) ==
  LET Step(stack, s) ==
        CASE s = "." -> stack
          [] s = ".." -> IF stack # <<>> /\ Last(stack) # ".." THEN Front(stack)
                         ELSE IF absolute THEN stack ELSE Append(stack, "..")
          [] OTHER -> Append(stack, s)
  IN FoldLeft(Step, <<>>, segments)

toAbsolutePath(path, root) ==
  normalizeSegments(IF path.absolute THEN path.segments
                    ELSE root \o normalizeSegments(path.segments, FALSE), TRUE)

relative(from, to) ==
  LET common == {n \in 0..Len(from) : n <= Len(to) /\ \A i \in 1..n : from[i] = to[i]}
      index == CHOOSE n \in common : \A m \in common : m <= n
  IN [i \in 1..(Len(from) - index) |-> ".."] \o SubSeq(to, index + 1, Len(to))

isPathWithinRoot(path, root) == LET rel == relative(root, path) IN rel = <<>> \/ rel[1] # ".."

(* A blank directory has no segments and is an error; none means the root. *)
normalizeDirectoryScope(root, input) ==
  IF input = <<>> THEN [directory |-> root, explicit |-> FALSE]
  ELSE LET resolved == toAbsolutePath(input[1], root)
       IN Checked(<<<<input[1].absolute \/ input[1].segments # <<>>, "directory is empty">>,
                    <<isPathWithinRoot(resolved, root), "directory is outside">>>>,
                  [directory |-> resolved, explicit |-> TRUE])
-----------------------------------------------------------------------------
StartIsRight(start) == start = <<>> \/ start[1] >= 0

normalizeListArgs(args) ==
  LET limit == OrElse(args.limit, 20)
      search == IF Trim(args.query) # "" THEN Trim(args.query) ELSE Trim(args.search)
  IN Checked(<<<<limit \in 1..100, "limit">>, <<StartIsRight(args.start), "start">>,
               <<search = "" \/ Length(search) >= 2, "query">>>>,
             [limit |-> limit, search |-> search, start |-> args.start,
              details |-> OrElse(args.include_details, FALSE)])

normalizeReadArgs(args) ==
  LET limit == OrElse(args.message_limit, 8)
  IN Checked(<<<<Trim(args.session_id) # "", "session_id">>, <<limit \in 1..30, "message_limit">>>>,
             [sessionID |-> Trim(args.session_id), messageLimit |-> limit,
              includeMessages |-> OrElse(args.include_messages, FALSE),
              details |-> OrElse(args.include_details, FALSE)])

normalizeSearchArgs(args) ==
  LET limit == OrElse(args.limit, 10)
  IN Checked(<<<<Length(Trim(args.query)) >= 2, "query">>, <<limit \in 1..50, "limit">>,
               <<StartIsRight(args.start), "start">>>>,
             [query |-> Trim(args.query), limit |-> limit, start |-> args.start,
              caseSensitive |-> OrElse(args.case_sensitive, FALSE),
              details |-> OrElse(args.include_details, FALSE)])

normalizeInfoArgs(args) ==
  Checked(<<<<Trim(args.session_id) # "", "session_id">>>>,
          [sessionID |-> Trim(args.session_id), details |-> OrElse(args.include_details, TRUE)])

(* The arguments are checked before the scope.                             *)
WithScope(args, root, directory, Next(_, _)) ==
  Then(args, LAMBDA a : Then(normalizeDirectoryScope(root, directory), LAMBDA scope : Next(a, scope)))
-----------------------------------------------------------------------------
Untitled == "(untitled)"

(* Only a session without an id is none at all.                            *)
normalizeSession(value) ==
  IF value = NoRecord \/ value.id = <<>> THEN <<>>
  ELSE <<[value EXCEPT !.id = @[1], !.title = OrElse(@, Untitled)]>>

normalizeSessionList(values) == FlattenSeq([i \in DOMAIN values |-> normalizeSession(values[i])])

(* A time that is not above zero is none.                                  *)
toISOTime(time) == IF time = <<>> \/ time[1] <= 0 THEN <<>> ELSE time

(* `client' gives for each method of its API that is there how it answers. *)
Has(client, method) == method \in DOMAIN client
Call(client, method, query, Next(_)) ==
  IF ~Has(client, method) THEN [error |-> "API is unavailable"]
  ELSE LET answer == client[method][query]
       IN IF answer.fails THEN [error |-> "API failed"] ELSE Next(answer.data)
(* Children, todos and status are none if the call fails.                  *)
OrNone(client, method, none) ==
  IF ~Has(client, method) \/ client[method].fails THEN none ELSE client[method].data

listSessions(client, query, Next(_)) ==
  Call(client, "list", query.search, LAMBDA data : Next(normalizeSessionList(data)))

(* A session that is not found is no error.                                *)
getSession(client, asked, Next(_)) ==
  Call(client, "get", asked.sessionID, LAMBDA data :
         LET session == normalizeSession(data)
         IN IF session = <<>> THEN [asked |-> <<asked>>, found |-> FALSE] ELSE Next(session[1]))

formatSessionListSummary(root, sessions, limit, details) ==
  LET Shown(s) ==
        LET base == [id |-> s.id, title |-> s.title, updated_at |-> toISOTime(s.updated),
                     archived |-> s.archived # <<>>]
        IN IF ~details THEN base
           ELSE base @@ [directory |-> IF s.directory = <<>> THEN <<>> ELSE <<relative(root, s.directory[1])>>]
      first == FirstOf(sessions, limit)
  IN [i \in DOMAIN first |-> Shown(first[i])]

executeSessionList(args, root, client) ==
  WithScope(normalizeListArgs(args), root, args.directory, LAMBDA a, scope :
    LET query == [directory |-> scope.directory, search |-> a.search, start |-> a.start, limit |-> a.limit]
    IN listSessions(client, query, LAMBDA sessions :
         [asked |-> <<query>>, scope |-> scope,
          sessions |-> formatSessionListSummary(root, sessions, a.limit, a.details)]))
-----------------------------------------------------------------------------
(* The text of a message: its parts that say something.                    *)
extractMessageText(parts) ==
  LET saying == SelectSeq(parts, LAMBDA p : /\ p # NoRecord
                                            /\ p.type \in {"text", "step-start"}
                                            /\ p.text # <<>> /\ Trim(p.text[1]) # "")
  IN [i \in DOMAIN saying |-> saying[i].text[1]]

normalizeMessages(values) ==
  LET records == SelectSeq(values, LAMBDA v : v # NoRecord)
  IN [i \in DOMAIN records |->
        [id |-> records[i].id, created |-> records[i].created,
         text |-> extractMessageText(records[i].parts), partsCount |-> Len(records[i].parts)]]

getSessionMessages(client, asked, Next(_)) ==
  Call(client, "messages", asked.sessionID, LAMBDA data : Next(normalizeMessages(data)))

(* What the client returns beyond the limit is dropped from the front,     *)
(* after the messages without a text.                                      *)
executeSessionRead(args, root, client) ==
  WithScope(normalizeReadArgs(args), root, args.directory, LAMBDA a, scope :
    LET asked == [sessionID |-> a.sessionID, directory |-> scope.directory]
        Shown(session, messages) ==
          [asked |-> <<asked>>, found |-> TRUE, scope |-> scope, session |-> session.id,
           archived_at |-> toISOTime(session.archived),
           included |-> a.includeMessages,
           messages |-> LastOf(SelectSeq(messages, LAMBDA m : m.text # <<>>), a.messageLimit)]
    IN getSession(client, asked, LAMBDA session :
         IF ~a.includeMessages THEN Shown(session, <<>>)
         ELSE getSessionMessages(client, asked, LAMBDA messages : Shown(session, messages))))
-----------------------------------------------------------------------------
includesQuery(text, query, caseSensitive) ==
  IF caseSensitive THEN Includes(text, query) ELSE Includes(Lower(text), Lower(query))

(* A Map keeps the place of a key that is set again.                       *)
Matched(matches, session, by) ==
  LET match == [session |-> session, matchedBy |-> by]
      same == {i \in DOMAIN matches : matches[i].session.id = session.id}
  IN IF same = {} THEN Append(matches, match)
     ELSE [i \in DOMAIN matches |-> IF i \in same THEN match ELSE matches[i]]

(* The search of the client comes first; if it finds too few, the titles   *)
(* of forty sessions are looked at.                                        *)
executeSessionSearch(args, root, client) ==
  WithScope(normalizeSearchArgs(args), root, args.directory, LAMBDA a, scope :
    LET primaryQuery == [directory |-> scope.directory, search |-> a.query, start |-> a.start,
                         limit |-> IF a.limit > 20 THEN a.limit ELSE 20]
        poolQuery == [directory |-> scope.directory, search |-> "", start |-> a.start, limit |-> 40]
        Shown(asked, matches) == [asked |-> asked, scope |-> scope, sessions |-> FirstOf(matches, a.limit)]
        Added(matches, session) ==
          IF \/ Len(matches) >= a.limit
             \/ \E i \in DOMAIN matches : matches[i].session.id = session.id
             \/ ~includesQuery(session.title, a.query, a.caseSensitive)
          THEN matches ELSE Matched(matches, session, "title-local")
    IN listSessions(client, primaryQuery, LAMBDA primary :
         LET matches == FoldLeft(LAMBDA ms, s : Matched(ms, s, "title-api"), <<>>, primary)
         IN IF Len(matches) >= a.limit THEN Shown(<<primaryQuery>>, matches)
            ELSE listSessions(client, poolQuery, LAMBDA pool :
                   Shown(<<primaryQuery, poolQuery>>, FoldLeft(Added, matches, pool)))))
-----------------------------------------------------------------------------
(* The status snapshot gives records to the sessions it knows.             *)
NoStatus == [id \in {} |-> NoRecord]
getNestedRecord(snapshot, id) == IF id \in DOMAIN snapshot /\ snapshot[id] # NoRecord THEN <<snapshot[id]>> ELSE <<>>

executeSessionInfo(args, root, client) ==
  WithScope(normalizeInfoArgs(args), root, args.directory, LAMBDA a, scope :
    LET asked == [sessionID |-> a.sessionID, directory |-> scope.directory]
        children == normalizeSessionList(OrNone(client, "children", <<>>))
        todos == OrNone(client, "todo", <<>>)
        pending == SelectSeq(todos, LAMBDA t : t = NoRecord \/ t.status # "completed")
        status == getNestedRecord(OrNone(client, "status", NoStatus), a.sessionID)
    IN getSession(client, asked, LAMBDA session :
         [asked |-> <<asked>>, found |-> TRUE, scope |-> scope, session |-> session.id,
          has_parent |-> session.parentID \notin {<<>>, <<"">>},
          has_children |-> children # <<>>, children_count |-> Len(children),
          todo_count |-> Len(todos), pending_todo_count |-> Len(pending),
          missing_required_fields |-> {f \in {"time.updated"} : session.updated = <<>>},
          status_snapshot_available |-> status # <<>>,
          children |-> FirstOf(children, 20),
          status_snapshot |-> IF a.details THEN status ELSE <<>>]))
-----------------------------------------------------------------------------
(* Where a path leads when its segments are followed one by one.           *)
Leads(path, root) ==
  LET Follow(at, s) == CASE s = "." -> at
                         [] s = ".." -> IF at = <<>> THEN at ELSE Front(at)
                         [] OTHER -> Append(at, s)
  IN FoldLeft(Follow, IF path.absolute THEN <<>> ELSE root, path.segments)

(* A directory is accepted exactly when following it ends within the root, *)
(* and then it is the place where it leads.                                *)
ScopeIsExact(root, path) ==
  LET scope == normalizeDirectoryScope(root, <<path>>)
      blank == ~path.absolute /\ path.segments = <<>>
      inside == IsPrefix(root, Leads(path, root))
  IN /\ Failed(scope) <=> blank \/ ~inside
     /\ ~Failed(scope) => scope.directory = Leads(path, root)

(* Every query a tool sends is about a directory within the root.          *)
AsksWithin(result, root) ==
  ~Failed(result) => \A i \in DOMAIN result.asked : IsPrefix(root, result.asked[i].directory)

(* The elements in the order in which each first occurs.                   *)
Distinct(list) ==
  LET First(i) == \A j \in 1..(i - 1) : list[j] # list[i]
  IN FoldLeftDomain(LAMBDA found, i : IF First(i) THEN Append(found, list[i]) ELSE found, <<>>, list)
Ids(sessions) == [i \in DOMAIN sessions |-> sessions[i].id]

(* A search shows, up to its limit, what the client found and then every   *)
(* other session of the pool whose title has the words, none of them twice.*)
SearchIsWhole(args, root, client) ==
  LET result == executeSessionSearch(args, root, client)
      a == normalizeSearchArgs(args)
      primary == Distinct(Ids(normalizeSessionList(client.list[a.query].data)))
      pool == normalizeSessionList(client.list[""].data)
      titled == SelectSeq(pool, LAMBDA s : includesQuery(s.title, a.query, a.caseSensitive))
      others == SelectSeq(Distinct(Ids(titled)), LAMBDA id : id \notin ToSet(primary))
  IN ~Failed(result) =>
       [i \in DOMAIN result.sessions |-> result.sessions[i].session.id] = FirstOf(primary \o others, a.limit)

(* A reading shows the last messages that say something, in their order.   *)
ReadShowsTheEnd(args, root, client) ==
  LET result == executeSessionRead(args, root, client)
      a == normalizeReadArgs(args)
      said == SelectSeq(normalizeMessages(client.messages[a.sessionID].data), LAMBDA m : m.text # <<>>)
  IN ~Failed(result) /\ result.found /\ result.included =>
       /\ Len(result.messages) <= a.messageLimit
       /\ IsSuffix(result.messages, said)
       /\ Len(result.messages) < a.messageLimit => result.messages = said

(* A child that cannot be read is not counted, calls that fail count as    *)
(* none, and a session without a title is not reported as lacking it.      *)
InfoCountsWhatIsRead(args, root, client) ==
  LET result == executeSessionInfo(args, root, client)
  IN ~Failed(result) /\ result.found =>
       /\ result.has_children <=> result.children_count > 0
       /\ Len(result.children) <= result.children_count
       /\ result.pending_todo_count <= result.todo_count
       /\ "children" \notin DOMAIN client \/ client.children.fails => ~result.has_children
       /\ "title" \notin result.missing_required_fields
=============================================================================
