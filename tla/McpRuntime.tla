------------------------------ MODULE McpRuntime ------------------------------
(***************************************************************************)
(* The pointer to the MCP servers that the installer writes for the        *)
(* workspace plugin: install/src/mcp-pointer-contract.ts, and the index    *)
(* that the installer builds; then what the plugin makes of it:            *)
(* workspace/src/interop, mcp-pointer-contract.ts (its copy of the         *)
(* contract), mcp-pointer-resolve.ts, mcp-pointer-enforcement.ts and       *)
(* mcp-pointer-capability-cache.ts; at the end the manager that starts and *)
(* closes a server, mcp-pointer-lifecycle.ts.                              *)
(*                                                                         *)
(* A field of an entry that is not of the type it should have is Bad, and  *)
(* identifiers are numbers: 0 is the empty one, -1 one that is Bad.  The   *)
(* files are [index, checksum]: an index is Missing, Unreadable, NotJson   *)
(* or a record [version, servers], and the checksum is Missing,            *)
(* Unreadable, "right" or "wrong".                                         *)
(***************************************************************************)
EXTENDS Integers, Sequences, FiniteSets, SequencesExt, TLC

CONSTANTS Closers, Starts   \* of the manager: the calls of close and how many of start

Bad == "bad"
Missing == [file |-> "missing"]
Unreadable == [file |-> "unreadable"]
NotJson == [file |-> "not json"]

MCP_POINTER_INDEX_VERSION == 1
LifecycleStates == {"idle", "starting", "ready", "degraded", "closed"}
Healths == {"healthy", "degraded", "unavailable"}
Requirements == {"required", "optional"}
AuthStatuses == {"authenticated", "expired", "not_authenticated", "unknown"}

Closes == [close_requested |-> "closed", close_completed |-> "closed"]
transition_table ==
  [idle |-> Closes @@ [start_requested |-> "starting"],
   starting |-> Closes @@ [start_succeeded |-> "ready", start_failed |-> "degraded",
                            retry_scheduled |-> "starting", retry_exhausted |-> "degraded"],
   ready |-> Closes @@ [degrade_detected |-> "degraded"],
   degraded |-> Closes @@ [recover_detected |-> "ready", start_requested |-> "starting",
                            retry_scheduled |-> "starting"],
   closed |-> Closes @@ [start_requested |-> "starting"]]
max_attempts == 3

(* An event that the table does not have for a state leaves it as it is.   *)
resolveLifecycleTransition(state, event) ==
  IF event \in DOMAIN transition_table[state] THEN transition_table[state][event] ELSE state

shouldInvalidateOnError(code) == code \in {"auth_expired", "transport_unreachable", "capability_mismatch"}

Clamped(n, low, high) == IF n < low THEN low ELSE IF n > high THEN high ELSE n

(* The jitter is in percent, and added to the soft time alone.             *)
computeRefreshWindow(now, soft, hard, jitter) ==
  [refresh_at |-> now + soft + (soft * Clamped(jitter, 0, 100)) \div 100, expires_at |-> now + hard]

(* Where the servers are taken from: of the sources of a mode the first    *)
(* that is there.                                                          *)
Precedence(mode) ==
  CASE mode = "pointer-only" -> <<"pointer">> [] mode = "legacy-only" -> <<"legacy">> [] OTHER -> <<"pointer", "legacy">>

resolveCompatibilitySource(mode, available, requirement) ==
  LET there == SelectSeq(Precedence(mode), LAMBDA s : s \in available)
  IN IF there # <<>> THEN [ok |-> TRUE, source |-> there[1]]
     ELSE [ok |-> FALSE, code |-> IF requirement = "required" THEN "required_unavailable"
                                  ELSE IF mode = "mixed" THEN "mode_unavailable" ELSE "optional_unavailable"]

getMcpPointerReadableVersions(version) == IF version <= 1 THEN {version} ELSE {version, version - 1}
isReadableMcpPointerVersion(version, readable) == version \in readable
migratePointerIndexToCurrent(index) == [index EXCEPT !.version = MCP_POINTER_INDEX_VERSION]

redact_fields == {"accessToken", "refreshToken", "clientSecret", "Authorization"}
redactSensitiveAuthMetadata(metadata) ==
  [f \in DOMAIN metadata |-> IF f \in redact_fields THEN "[REDACTED]" ELSE metadata[f]]
toTypedAuthErrorCode(code) ==
  IF code \in {"auth_missing", "auth_expired", "auth_malformed"} THEN code ELSE "auth_transport_failure"
-----------------------------------------------------------------------------
(* The installer.  A server is [id, required, oauthCapable, auth], where   *)
(* `auth' is the status that was found, or Bad where none was asked for;   *)
(* a name without a pattern of tools makes an entry that is not complete.  *)
buildPointerServerEntry(mcp) ==
  [id |-> mcp.id, requirement |-> mcp.required, tool_pattern |-> mcp.toolPattern,
   lifecycle_state |-> "idle", health_status |-> "healthy",
   oauth_capable |-> IF mcp.oauthCapable THEN "yes" ELSE "no",
   auth_status |-> IF mcp.auth # Bad THEN mcp.auth
                   ELSE IF mcp.oauthCapable THEN "not_authenticated" ELSE "unknown"]

(* In the order of the identifiers, which are numbers here.                *)
buildMcpPointerIndex(mcps) ==
  [version |-> MCP_POINTER_INDEX_VERSION,
   servers |-> SortSeq([i \in DOMAIN mcps |-> buildPointerServerEntry(mcps[i])], LAMBDA a, b : a.id < b.id)]

validateMcpPointerArtifacts(files) ==
  LET servers == files.index.servers
      complete == {i \in DOMAIN servers : servers[i].id # 0 /\ servers[i].tool_pattern # ""}
  IN IF Missing \in {files.index, files.checksum} THEN FALSE
     ELSE IF files.index = NotJson THEN FALSE
     ELSE /\ isReadableMcpPointerVersion(files.index.version, getMcpPointerReadableVersions(MCP_POINTER_INDEX_VERSION))
          /\ files.checksum = [file |-> "right"]
          /\ complete = DOMAIN servers
          /\ \A i, j \in complete : servers[i].id = servers[j].id => i = j

-----------------------------------------------------------------------------

(* The copy of the contract says what the installer's does.                *)
pluginTransition(state, event) == resolveLifecycleTransition(state, event)
pluginInvalidates(code) == shouldInvalidateOnError(code)
pluginWindow(now, soft, hard, jitter) == computeRefreshWindow(now, soft, hard, jitter)
pluginSource(mode, available, requirement) == resolveCompatibilitySource(mode, available, requirement)
getReadableMcpPointerVersions == getMcpPointerReadableVersions(MCP_POINTER_INDEX_VERSION)
pluginMigration(index) == migratePointerIndexToCurrent(index)

isPointerServerEntry(server) ==
  /\ server.id >= 0 /\ server.requirement \in Requirements
  /\ server.lifecycle_state \in LifecycleStates /\ server.health_status \in Healths
  /\ server.tool_pattern # Bad
  /\ server.oauth_capable \in {"yes", "no"} /\ server.auth_status \in AuthStatuses

enforceMcpPointerAvailability(statuses) ==
  LET blocking == {s.id : s \in {t \in statuses : ~t.available /\ t.requirement = "required"}}
      degraded == {s.id : s \in {t \in statuses : ~t.available /\ t.requirement # "required"}}
  IN [ok |-> blocking = {}, blockingRequired |-> blocking, degradedOptional |-> degraded]

createPointerUnavailableResolution(mode, issue) ==
  LET found == pluginSource(mode, {"legacy"}, "required")
  IN [source |-> IF mode = "pointer-only" /\ ~found.ok THEN "pointer" ELSE "legacy",
      blocking |-> ~found.ok, blockingRequired |-> IF found.ok THEN {} ELSE {"__pointer_index__"},
      issues |-> {issue}, servers |-> <<>>]

Available(server, source) ==
  source = "pointer" => server.health_status = "healthy" /\ server.lifecycle_state \in {"ready", "idle"}
Statuses(servers, source) ==
  {[id |-> servers[i].id, requirement |-> servers[i].requirement, available |-> Available(servers[i], source)] :
     i \in DOMAIN servers}

Problem(files) ==
  CASE files.index = Missing -> "missing_pointer_index"
    [] files.index # Missing /\ files.checksum = Missing -> "missing_pointer_checksum"
    [] Missing \notin {files.index, files.checksum} /\ files.index = Unreadable -> "pointer_index_read_failed"
    [] files.index \notin {Missing, Unreadable} /\ files.checksum = Unreadable -> "pointer_checksum_read_failed"
    [] files.index \notin {Missing, Unreadable} /\ files.checksum = [file |-> "wrong"] -> "pointer_checksum_mismatch"
    [] files.index = NotJson /\ files.checksum = [file |-> "right"] -> "malformed_pointer_index"
    [] OTHER ->
         IF ~isReadableMcpPointerVersion(files.index.version, getReadableMcpPointerVersions)
         THEN "unsupported_pointer_version"
         ELSE IF \E i \in DOMAIN files.index.servers : ~isPointerServerEntry(files.index.servers[i])
         THEN "malformed_pointer_schema" ELSE "none"

resolveMcpPointerIndex(files, mode) ==
  LET problem == Problem(files)
      index == pluginMigration(files.index)
      source == pluginSource(mode, {"pointer", "legacy"}, "optional").source
      enforced == enforceMcpPointerAvailability(Statuses(index.servers, source))
      fallsBack == mode = "mixed" /\ source = "pointer" /\ ~enforced.ok
      resolved == IF fallsBack THEN "legacy" ELSE source
      result == enforceMcpPointerAvailability(Statuses(index.servers, resolved))
  IN IF problem # "none" THEN createPointerUnavailableResolution(mode, problem)
     ELSE [source |-> resolved, blocking |-> ~result.ok, blockingRequired |-> result.blockingRequired,
           issues |-> (IF fallsBack THEN {"pointer_required_unavailable_fallback"} ELSE {}) \cup
                      (IF files.index.version # index.version THEN {"pointer_index_migrated"} ELSE {}),
           servers |-> index.servers]
-----------------------------------------------------------------------------
(* The plugin never works from an index with a required server that is not *)
(* ready, unless it was told to use no other source, and then it says so;  *)
(* only in that mode does anything block.                                  *)
RequiredServersAreThere(files, mode) ==
  LET r == resolveMcpPointerIndex(files, mode)
      Ready(s) == s.health_status = "healthy" /\ s.lifecycle_state \in {"ready", "idle"}
  IN /\ r.blocking => mode = "pointer-only" /\ r.blockingRequired # {}
     /\ r.source = "pointer" /\ ~r.blocking =>
          /\ Problem(files) = "none"
          /\ \A i \in DOMAIN r.servers : r.servers[i].requirement = "required" => Ready(r.servers[i])
     /\ r.source = "legacy" => mode # "pointer-only"
     /\ r.source = "legacy" /\ mode = "mixed" => r.issues # {}

(* What the installer wrote and found to be whole is taken as it is, in    *)
(* every mode that looks at it; and it builds nothing it would not accept  *)
(* itself, as long as no two servers have one name and each has its tools. *)
InstalledIsUsed(mcps) ==
  LET files == [index |-> buildMcpPointerIndex(mcps), checksum |-> [file |-> "right"]]
  IN /\ validateMcpPointerArtifacts(files) <=>
          /\ \A i, j \in DOMAIN mcps : mcps[i].id = mcps[j].id => i = j
          /\ \A i \in DOMAIN mcps : mcps[i].toolPattern # ""
     /\ \A mode \in {"mixed", "pointer-only"} :
          LET r == resolveMcpPointerIndex(files, mode)
          IN r.source = "pointer" /\ ~r.blocking /\ r.issues = {} /\ Len(r.servers) = Len(mcps)

(* An index that the installer's check accepts is one the plugin reads,    *)
(* unless a field has the wrong type, which the installer does not look    *)
(* for; an older index is refused, so that nothing is ever migrated.       *)
ChecksAgree(files, mode) ==
  LET r == resolveMcpPointerIndex(files, mode)
  IN /\ Unreadable \notin {files.index, files.checksum} /\ validateMcpPointerArtifacts(files) =>
          Problem(files) \in {"none", "malformed_pointer_schema"}
     /\ "pointer_index_migrated" \notin r.issues
-----------------------------------------------------------------------------
(* The cache of what a server can do: functions from servers to entries.   *)
upsert(cache, server, now, soft, hard, jitter) == (server :> pluginWindow(now, soft, hard, jitter)) @@ cache
read(cache, server, now) ==
  IF server \notin DOMAIN cache THEN "missing"
  ELSE IF now >= cache[server].expires_at \/ now >= cache[server].refresh_at THEN "stale" ELSE "fresh"
invalidate(cache, server) == [s \in DOMAIN cache \ {server} |-> cache[s]]
invalidateIfNeeded(cache, server, code) == IF pluginInvalidates(code) THEN invalidate(cache, server) ELSE cache

(* A sequence of operations, one for each unit of time.                    *)
Cache(ops, soft, hard, jitter) ==
  LET after[t \in 0..Len(ops)] ==
        IF t = 0 THEN <<>>
        ELSE LET o == ops[t] IN
          CASE o.op = "upsert" -> upsert(after[t-1], o.server, t, soft, hard, jitter)
            [] o.op = "error" -> invalidateIfNeeded(after[t-1], o.server, o.code)
            [] o.op = "listChanged" -> invalidate(after[t-1], o.server)
            [] OTHER -> after[t-1]
  IN after[Len(ops)]

(* What is fresh was learnt from that server, since the last news that     *)
(* spoils it and within both times; what is not known any more is only     *)
(* what was spoilt: an entry whose time is over is still served, as stale. *)
FreshIsRecent(ops, soft, hard, jitter, server) ==
  LET now == Len(ops)
      state == read(Cache(ops, soft, hard, jitter), server, now)
      Spoils(o) == o.server = server /\ (o.op = "listChanged" \/ (o.op = "error" /\ o.code \in {"auth_expired", "transport_unreachable"}))
      Current(t) == /\ ops[t].op = "upsert" /\ ops[t].server = server
                    /\ \A u \in (t+1)..now : ~Spoils(ops[u])
      current == {t \in DOMAIN ops : Current(t)}
  IN /\ state = "fresh" => \E t \in current : now - t < hard /\ now - t < 2 * soft
     /\ state = "missing" <=> current = {}
     /\ \A t \in current : now - t < soft /\ now - t < hard => state = "fresh"
-----------------------------------------------------------------------------
(***************************************************************************)
(* The manager that starts and closes one MCP server,                      *)
(* mcp-pointer-lifecycle.ts.  It runs on one thread:                       *)
(* a step goes from one await to the next.  A state of it is a record of   *)
(*   state, error  the record of the server                                *)
(*   run           the start in flight: where it waits, its attempt, and   *)
(*                 whether it was aborted                                  *)
(*   closers       where each call of close waits                          *)
(*   up            the server runs (what start and close actions do)       *)
(*   starts        bound: calls of start that are still to come            *)
(* and, for the property, `overlap': a start was asked for, or came to its *)
(* end, while a close had begun.  The steps are sets of next states, so    *)
(* that all the states within a number of steps can be computed.           *)
(***************************************************************************)
NoRun == [at |-> "none", attempt |-> 0, aborted |-> FALSE]
Initial ==
  [state |-> "idle", error |-> FALSE, run |-> NoRun, closers |-> [c \in Closers |-> "idle"],
   up |-> FALSE, starts |-> Starts, overlap |-> FALSE]

transition(m, event) == [m EXCEPT !.state = pluginTransition(@, event)]
Closing(m) == \E c \in Closers : m.closers[c] \in {"waits", "acts"}
Over(m) == [m EXCEPT !.run.at = "over", !.overlap = @ \/ Closing(m)]

(* A start joins the one in flight, if there is one.                       *)
start(m) ==
  IF m.starts = 0 THEN {}
  ELSE LET n == [m EXCEPT !.starts = @ - 1, !.overlap = @ \/ Closing(m)]
       IN {IF m.run # NoRun THEN n
           ELSE [transition(n, "start_requested") EXCEPT !.run = [at |-> "acts", attempt |-> 1, aborted |-> FALSE]]}

(* The start action ends; one that is aborted may end well all the same.   *)
startInternal(m) ==
  IF m.run.at # "acts" THEN {}
  ELSE LET failed == [m EXCEPT !.error = TRUE]
       IN {Over([transition(m, "start_succeeded") EXCEPT !.error = FALSE, !.up = TRUE]),
           IF m.run.aborted THEN Over(transition(failed, "close_requested"))
           ELSE IF m.run.attempt >= max_attempts THEN Over(transition(failed, "retry_exhausted"))
           ELSE [transition(failed, "retry_scheduled") EXCEPT !.run.at = "delay"]}

(* The delay before a retry ends by itself; an abort ends it with the run. *)
delay(m) ==
  IF m.run.at # "delay" THEN {}
  ELSE {IF m.run.aborted THEN Over(m) ELSE [m EXCEPT !.run = [@ EXCEPT !.at = "acts", !.attempt = @ + 1]]}

Finally(m) == IF m.run.at = "over" THEN {[m EXCEPT !.run = NoRun]} ELSE {}

close(m, c) ==
  LET asked == [transition(m, "close_requested") EXCEPT
                  !.run.aborted = m.run # NoRun,
                  !.closers[c] = IF m.run # NoRun THEN "waits" ELSE "acts"]
  IN CASE m.closers[c] = "idle" -> {asked}
       [] m.closers[c] = "waits" -> IF m.run = NoRun THEN {[m EXCEPT !.closers[c] = "acts"]} ELSE {}
       [] m.closers[c] = "acts" ->
            {transition([m EXCEPT !.closers[c] = "done", !.up = FALSE], "close_completed"),
             [m EXCEPT !.closers[c] = "failed"]}
       [] OTHER -> {}

Steps(m) ==
  start(m) \cup startInternal(m) \cup delay(m) \cup Finally(m) \cup UNION {close(m, c) : c \in Closers}

(* The states within n steps.                                              *)
Within(n) ==
  LET reached[i \in 0..n] ==
        IF i = 0 THEN {Initial}
        ELSE LET before == reached[i - 1] IN before \cup UNION {Steps(m) : m \in before}
  IN reached[n]

Quiet(m) == m.run = NoRun /\ ~Closing(m)

(* When nothing is under way the record does not say "starting", a server  *)
(* it calls ready runs, one it calls degraded did not start, and one it    *)
(* calls closed does not run if no close failed and no start came between. *)
(* When a start overlaps a close, the record may call a server             *)
(* closed that the start has left running.                                 *)
RecordIsHonest(m) ==
  Quiet(m) =>
    /\ m.state # "starting"
    /\ m.state = "ready" => m.up
    /\ m.state = "degraded" => m.error
    /\ m.state = "closed" /\ ~m.overlap /\ (\A c \in Closers : m.closers[c] # "failed") => ~m.up

(* A close lets no retry begin that the start had not begun before.        *)
NoRetryAfterClose(m) ==
  \A n \in Steps(m) : m.run.aborted /\ n.run # NoRun => n.run.attempt = m.run.attempt
=============================================================================
