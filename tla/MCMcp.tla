-------------------------------- MODULE MCMcp ---------------------------------
(***************************************************************************)
(* Small instances of Delegation, with the pointer to the MCP servers,     *)
(* its manager, the accounts and the session tools checked over bounded    *)
(* inputs.                                                                 *)
(***************************************************************************)
EXTENDS Delegation, TLC

(* Two calls of close and two of start: 16 steps reach every state.        *)
Pointer == INSTANCE McpRuntime WITH Closers <- 1..2, Starts <- 2

PointerEntry ==
  [id |-> 1, requirement |-> "required", tool_pattern |-> "a", lifecycle_state |-> "idle",
   health_status |-> "healthy", oauth_capable |-> "no", auth_status |-> "unknown"]
(* An entry with at most one field that is not as installed, and two.      *)
PointerEntries ==
  {PointerEntry} \cup
  UNION {{[PointerEntry EXCEPT ![f] = v] : v \in {"optional", "starting", "degraded", "ready", "", "bad"}} :
           f \in {"requirement", "tool_pattern", "lifecycle_state", "health_status", "auth_status"}}
  \cup {[PointerEntry EXCEPT !.id = i] : i \in {-1, 0}}
  \cup {[PointerEntry EXCEPT !.requirement = "optional", !.health_status = "unavailable"]}
Indexes ==
  {Pointer!Missing, Pointer!Unreadable, Pointer!NotJson} \cup
  {[version |-> v, servers |-> ss] : v \in 0..2,
     ss \in {<<>>} \cup {<<e>> : e \in PointerEntries} \cup
            {<<e, [f EXCEPT !.id = 2]>> : e, f \in {g \in PointerEntries : g.id = 1}}}
PointerFiles ==
  {[index |-> i, checksum |-> c] : i \in Indexes,
     c \in {Pointer!Missing, Pointer!Unreadable, [file |-> "right"], [file |-> "wrong"]}}
PointerModes == {"mixed", "pointer-only", "legacy-only"}

ASSUME RequiredMcpServersAreThere ==
  \A files \in PointerFiles, mode \in PointerModes : Pointer!RequiredServersAreThere(files, mode)
ASSUME PointerChecksAgree ==
  \A files \in PointerFiles, mode \in PointerModes : Pointer!ChecksAgree(files, mode)

McpServers ==
  [id : 1..2, required : Pointer!Requirements, oauthCapable : BOOLEAN, auth : {"bad", "expired"}, toolPattern : {"", "a"}]
ASSUME InstalledPointerIsUsed ==
  \A mcps \in {<<>>} \cup {<<a>> : a \in McpServers} \cup {<<a, b>> : a, b \in McpServers} : Pointer!InstalledIsUsed(mcps)

CacheOps ==
  {[op |-> o, server |-> s] : o \in {"upsert", "listChanged"}, s \in {"a", "b"}}
  \cup {[op |-> "error", server |-> "a", code |-> c] : c \in {"auth_expired", "other"}} \cup {[op |-> "wait", server |-> "a"]}
ASSUME FreshCapabilitiesAreRecent ==
  \A ops \in UNION {[1..n -> CacheOps] : n \in 0..4}, times \in {<<2, 3, 50>>, <<3, 2, 0>>} :
    Pointer!FreshIsRecent(ops, times[1], times[2], times[3], "a")
-----------------------------------------------------------------------------
ManagerStates == Pointer!Within(16)
ASSUME ManagerRecordIsHonest ==
  /\ \A m \in ManagerStates : Pointer!RecordIsHonest(m) /\ Pointer!NoRetryAfterClose(m)
  /\ \A m \in ManagerStates : Pointer!Steps(m) \subseteq ManagerStates
-----------------------------------------------------------------------------
Resolution(url) == IF url = "template" THEN "u1" ELSE url
Auth == INSTANCE McpAuth WITH Ticks <- 2, Templates <- {"template"}, Resolved <- Resolution

Urls == {"u1", "u2", "template", ""}
Accounts == [token : BOOLEAN, expires : {Auth!Never, 1, 2}, url : {"", "u1", "u2"}, client : BOOLEAN]
ASSUME AccountReadersAgree ==
  \A entry \in Accounts, url \in Urls, now \in 1..6 : Auth!ReadersAgree(entry, url, now)

SourceMcps ==
  {[id |-> i, type |-> "remote", url |-> "u1", header |-> h, oauthCapable |-> o, client |-> "none", env |-> {}] :
     i \in {"a", "b"}, o \in BOOLEAN, h \in {"", "bearer env", "bearer", "basic env", "template", "other"}}
  \cup {[id |-> i, type |-> "local", url |-> "", header |-> "", oauthCapable |-> FALSE, client |-> "none", env |-> {"V"}] :
          i \in {"a", "b"}}
ASSUME McpCredentialsAreKept ==
  \A mcps \in {<<m>> : m \in SourceMcps} \cup {<<m, n>> : m, n \in SourceMcps} : Auth!CredentialsAreKept(mcps)

OAuth(client, key) == [url |-> "u1", auth |-> [type |-> "oauth", key |-> key, client |-> client]]
Warmplanes ==
  {("w1" :> [store |-> s, servers |-> ("a" :> OAuth("none", k))]) @@ ("w2" :> [store |-> "", servers |-> ("b" :> OAuth("c", ""))]) :
     s \in {"", "mine"}, k \in {"", "b"}}
SettingFiles ==
  {[mcp0 |-> m, mcp |-> p] :
     m \in {Auth!NoMcp0} \cup [binary : {"", "warmplane"}, config : {"", "w1", "w2", "gone"}],
     p \in {<<>>, ("a" :> [oauth |-> "true", url |-> "u2"]), ("b" :> [type |-> "local", command |-> "mcp-remote"])}}
Stores ==
  {<<>>, ("data" :> <<>>)} \cup
  {(p :> ("a" :> [token |-> TRUE, expires |-> 2, url |-> u, client |-> FALSE])) : p \in {"data", "mine"}, u \in {"", "u2"}}
FilePairs == {<<f>> : f \in SettingFiles} \cup {<<f, g>> : f \in {s \in SettingFiles : s.mcp = <<>>}, g \in SettingFiles}
Pointers == {<<>>, ("a" :> [oauth_capable |-> TRUE, client |-> FALSE])}
ASSUME McpHealthIsTrue ==
  \A files \in {<<>>} \cup FilePairs, w \in Warmplanes, p \in Pointers, s \in Stores, b \in {{}, {"warmplane"}}, now \in {3, 5} :
    Auth!HealthIsTrue(files, w, p, s, b, now)
-----------------------------------------------------------------------------
Trimmed(s) == CASE s = " " -> "" [] s = " ab " -> "ab" [] OTHER -> s
Lowered(s) == IF s = "AB" THEN "ab" ELSE s
Size(s) == CASE s = "" -> 0 [] s = "a" -> 1 [] s = "(untitled)" -> 10 [] OTHER -> 2
History == INSTANCE SessionHistory WITH Trim <- Trimmed, Lower <- Lowered, Length <- Size, Includes <- LAMBDA t, q : t = q

ScopeRoot == <<"home", "p">>
ScopePaths ==
  [absolute : BOOLEAN, segments : UNION {[1..n -> {"home", "p", "..", "."}] : n \in 0..4}]
ASSUME ScopesAreExact == \A path \in ScopePaths : History!ScopeIsExact(ScopeRoot, path)

Answer(data) == [fails |-> FALSE, data |-> data]
Past(id, title) ==
  [id |-> id, title |-> title, directory |-> <<>>, parentID |-> <<>>, created |-> <<1>>, updated |-> <<>>, archived |-> <<>>]
PastSessions == {Past(<<i>>, <<t>>) : i \in {"s1", "s2"}, t \in {"ab", "AB"}} \cup {Past(<<"s3">>, <<>>), Past(<<>>, <<"ab">>)}
NoAnswer == [fails |-> TRUE, data |-> <<Past(<<"s1">>, <<"ab">>)>>]
PastLists == {<<>>} \cup [1..2 -> PastSessions]
Directories == {<<>>} \cup {<<[absolute |-> FALSE, segments |-> s]>> : s \in {<<>>, <<"src">>, <<"..", "q">>}}
Searches ==
  {[query |-> q, limit |-> l, start |-> s, case_sensitive |-> c, include_details |-> <<>>, directory |-> d] :
     q \in {"ab", " ab ", "a"}, l \in {<<>>, <<0>>, <<1>>, <<2>>}, s \in {<<>>, <<-1>>}, c \in {<<>>, <<TRUE>>}, d \in Directories}
SearchClient(primary, pool) == [list |-> ("ab" :> Answer(primary)) @@ ("" :> Answer(pool))]
Plain(args) == args.start = <<>> /\ args.directory = <<>>
ASSUME SessionsAreFound ==
  /\ \A args \in {a \in Searches : Plain(a)}, primary, pool \in PastLists :
       History!SearchIsWhole(args, ScopeRoot, SearchClient(primary, pool))
  /\ \A args \in Searches, list \in {NoAnswer, Answer(<<>>)} :
       LET client == [list |-> [q \in {"ab", ""} |-> list]]
       IN /\ History!AsksWithin(History!executeSessionSearch(args, ScopeRoot, client), ScopeRoot)
          /\ History!AsksWithin(History!executeSessionList(args @@ [search |-> ""], ScopeRoot, client), ScopeRoot)

Parts == {History!NoRecord} \cup {[type |-> t, text |-> x] : t \in {"text", "tool"}, x \in {<<>>, <<" ">>, <<"ab">>}}
Messages(i) ==
  {History!NoRecord} \cup {[id |-> <<i>>, created |-> <<>>, parts |-> ps] : ps \in {<<>>} \cup {<<p>> : p \in Parts}}
Conversations == {<<>>} \cup {<<m>> : m \in Messages(1)} \cup {<<m, n, o>> : m \in Messages(1), n \in Messages(2), o \in Messages(3)}
Readings ==
  {[session_id |-> i, message_limit |-> l, include_messages |-> m, include_details |-> <<>>, directory |-> d] :
     i \in {" ", "s1"}, l \in {<<>>, <<1>>, <<2>>, <<31>>}, m \in {<<>>, <<TRUE>>}, d \in Directories}
Todos == {<<>>, <<History!NoRecord, [status |-> "completed"], [status |-> "pending"]>>}
InfoClients ==
  {[get |-> ("s1" :> Answer(past)), status |-> status] @@ more :
     past \in PastSessions \cup {History!NoRecord},
     status \in {[fails |-> f, data |-> ("s1" :> History!NoRecord)] : f \in BOOLEAN} \cup {Answer("s1" :> [type |-> "busy"])},
     more \in {[todo |-> t] : t \in {Answer(x) : x \in Todos} \cup {NoAnswer}}
              \cup {[children |-> c] : c \in {Answer(x) : x \in PastLists} \cup {NoAnswer}}}
ASSUME SessionsAreShown ==
  /\ \A args \in Readings, list \in Conversations :
       LET client == [get |-> ("s1" :> Answer(Past(<<"s1">>, <<"ab">>))), messages |-> ("s1" :> Answer(list))]
       IN /\ History!ReadShowsTheEnd(args, ScopeRoot, client)
          /\ list = <<>> => History!AsksWithin(History!executeSessionRead(args, ScopeRoot, client), ScopeRoot)
  /\ \A args \in Readings, client \in InfoClients :
       /\ History!InfoCountsWhatIsRead(args, ScopeRoot, client)
       /\ History!AsksWithin(History!executeSessionInfo(args, ScopeRoot, client), ScopeRoot)
=============================================================================
