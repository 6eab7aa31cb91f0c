------------------------------ MODULE TaskCodec -------------------------------
(***************************************************************************)
(* How the task store reads its file, delegation/src/state.ts: the JSON is *)
(* repaired if it can be, and what is not as it should be is left out.     *)
(***************************************************************************)
EXTENDS JsonValues

(* The parts that are left out when nothing of them is accepted.           *)
Part(schema, x) ==
  LET part == Object(Taken(schema, x))
  IN IF ~IsObject(x) \/ part = Object(<<>>) THEN Undefined ELSE part
-----------------------------------------------------------------------------
Strategies == OneOf({"targeted", "fallback", "not_required"})
RetrySchema ==
  [reason |-> OneOf({"merge_conflict", "dirty_root"}),
   state |-> OneOf({"idle", "blocked", "resync_required", "ready"}),
   last_resync_status |-> OneOf({"pending", "succeeded", "failed"}),
   last_resync_at |-> Text, last_resync_summary |-> Text]
VerificationSchema ==
  [strategy |-> Strategies, candidate_commands |-> Words, selected_command |-> Text,
   fallback_command |-> Text, selection_reason |-> Text]
ReviewSchema ==
  [status |-> OneOf({"not_required", "pending", "running", "complete", "blocked"}),
   summary |-> Text, reviewed_at |-> Text]

normalizeTaskAssignment(x) ==
  LET owner == Accepted(OneOf({"manager"}), Get(x, "owner"))
      workflow == Accepted(OneOf({"caid"}), Get(x, "workflow"))
  IN IF owner = Undefined \/ workflow = Undefined THEN Undefined
     ELSE Object([owner |-> owner, workflow |-> workflow,
                  dependency_ids |-> normalizeDependencyIDs(Get(x, "dependency_ids")),
                  retry |-> Part(RetrySchema, Get(x, "retry")),
                  verification |-> Part(VerificationSchema, Get(x, "verification")),
                  review |-> Part(ReviewSchema, Get(x, "review"))])

(* The confidence, in percent, is put between 0 and 100.                   *)
normalizeRoutingTelemetry(categories, paths, x) ==
  LET category == Accepted(OneOf(categories), Get(x, "detected_category"))
      agent == Accepted(Text, Get(x, "chosen_agent"))
      confidence == Get(x, "confidence")
      path == Accepted(OneOf(paths), Get(x, "fallback_path"))
  IN IF category = Undefined \/ agent \in {Undefined, <<"string", "">>} \/ confidence[1] # "number" \/ path = Undefined
     THEN Undefined
     ELSE Object([detected_category |-> category, chosen_agent |-> agent, fallback_path |-> path,
                  confidence |-> <<"number", IF confidence[2] < 0 THEN 0
                                             ELSE IF confidence[2] > 100 THEN 100 ELSE confidence[2]>>])

(* The states of the merge and of the verification may be any text.        *)
ExecutionSchema ==
  [mode |-> OneOf({"direct", "worktree"}), branch |-> Text, base_branch |-> Text,
   effective_root_path |-> Text, worktree_path |-> Text, merge_status |-> Text,
   verification_status |-> Text, verification_strategy |-> Strategies, verification_candidates |-> Words,
   verification_fallback_reason |-> Text, verification_command |-> Text, verification_summary |-> Text,
   diff_summary |-> Text, read_count |-> Natural, search_count |-> Natural, planning_count |-> Natural,
   edit_count |-> Natural, other_count |-> Natural, file_changed |-> Flag,
   edit_or_blocked_threshold |-> Natural, stale_reason |-> Text, retry_count |-> Natural]

FollowThrough(x, now) ==
  LET status == Accepted(OneOf({"pending", "delivered", "waived"}), Get(x, "status"))
  IN IF status = Undefined THEN Undefined
     ELSE Object([status |-> status,
                  updated_at |-> Unless(Accepted(Text, Get(x, "updated_at")), now),
                  reason |-> Accepted(Text, Get(x, "reason")),
                  source |-> Accepted(Text, Get(x, "source"))])

normalizeTaskExecution(x, now) ==
  LET taken == Taken(ExecutionSchema, x)
  IN IF taken.mode = Undefined THEN Undefined
     ELSE Object(taken @@ [root_follow_through |-> FollowThrough(Get(x, "root_follow_through"), now)])

(* The first spelling that holds a string is read; it must not be empty.   *)
FirstText(x, spellings) ==
  LET texts == SelectSeq([i \in DOMAIN spellings |-> Get(x, spellings[i])], LAMBDA y : y[1] = "string")
  IN IF texts = <<>> THEN Undefined ELSE IF texts[1] = <<"string", "">> THEN Undefined ELSE texts[1]

normalizeTaskModelSelection(x) ==
  LET provider == FirstText(x, <<"providerID", "providerId", "provider_id">>)
      model == FirstText(x, <<"modelID", "modelId", "model_id">>)
  IN IF provider = Undefined \/ model = Undefined THEN Undefined
     ELSE Object([providerID |-> provider, modelID |-> model, variant |-> Accepted(Text, Get(x, "variant"))])
-----------------------------------------------------------------------------
Categories == {"quick", "deep", "visual", "research", "review", "build", "planning", "general"}
Paths == {"none", "category-default", "frontend-reroute", "user-subagent", "keyword-fallback"}
RequiredSchema ==
  [id |-> Text, root_session_id |-> Text, parent_session_id |-> Text, child_session_id |-> Text,
   description |-> Text, agent |-> Text, prompt |-> Text, run_in_background |-> Flag,
   status |-> OneOf({"queued", "blocked", "running", "succeeded", "failed", "cancelled"})]
OptionalSchema ==
  [authoritative_context |-> Text, command |-> Text, category |-> OneOf(Categories), depends_on |-> Words,
   concurrency_key |-> Text, started_at |-> Text, completed_at |-> Text, result |-> Text, error |-> Text]

parseCreatedOrder(x) == Accepted(Positive, x)

normalizeTaskRecord(x, now) ==
  LET required == Taken(RequiredSchema, x)
      model == Get(x, "root_model")
  IN IF \E f \in DOMAIN required : required[f] = Undefined THEN Undefined
     ELSE Object(required @@ Taken(OptionalSchema, x) @@
            [root_model |-> normalizeTaskModelSelection(
                              IF model \in {Undefined, <<"null">>} THEN Get(x, "model") ELSE model),
             routing |-> normalizeRoutingTelemetry(Categories, Paths, Get(x, "routing")),
             assignment |-> normalizeTaskAssignment(Get(x, "assignment")),
             execution |-> normalizeTaskExecution(Get(x, "execution"), now),
             created_order |-> parseCreatedOrder(Get(x, "created_order")),
             created_at |-> Unless(Accepted(Text, Get(x, "created_at")), now),
             updated_at |-> Unless(Accepted(Text, Get(x, "updated_at")), now)])

(* The records by their keys; one that is refused is left out.  (A list of *)
(* records would be read under its indices; nothing writes one.)           *)
normalizeStore(x, now) ==
  LET records == Fields(Get(x, "delegations"))
  IN IF Get(x, "version") # <<"number", 3>> THEN <<>>
     ELSE Fields(Object([k \in DOMAIN records |-> normalizeTaskRecord(records[k], now)]))

(* A text is what its attempts give, in the order they are made: as it is, *)
(* without trailing commas, and cut to its outer braces or brackets.       *)
parseJson(text) ==
  LET good == SelectSeq(<<text.plain, text.noCommas, text.braces, text.brackets>>, LAMBDA v : v # Undefined)
  IN IF text.blank \/ good = <<>> THEN <<"null">> ELSE good[1]
-----------------------------------------------------------------------------
sameStringSet(a, b) == ToSet(a) = ToSet(b)

(* What a caller gives: its dependencies must be those of the assignment.  *)
normalizeTaskAssignmentInput(assignment, dependsOn) ==
  LET own == Get(assignment, "dependency_ids")
      ids == Unless(own, dependsOn)
  IN IF assignment = Undefined THEN Undefined
     ELSE IF Undefined \notin {own, dependsOn} /\ ~sameStringSet(own[2], dependsOn[2]) THEN <<"error">>
     ELSE IF ids = Undefined THEN assignment
     ELSE IF ids[2] = <<>> THEN assignment
     ELSE Object(Fields(assignment) @@ [dependency_ids |-> ids])
-----------------------------------------------------------------------------
(* Reading what was read and written back changes nothing, however the     *)
(* file looked.                                                            *)
ReadingSettles(x) ==
  LET once == normalizeTaskRecord(x, <<"string", "now">>)
  IN once # Undefined => normalizeTaskRecord(once, <<"string", "later">>) = once

(* A record is refused only for one of the fields it cannot do without;    *)
(* and another field that is not as it should be costs only itself.        *)
DamageIsLocal(record, field, value) ==
  LET now == <<"string", "now">>
      damaged == <<"object", [f \in DOMAIN Fields(record) \cup {field} |->
                                IF f = field THEN value ELSE Fields(record)[f]]>>
      before == normalizeTaskRecord(record, now)
      after == normalizeTaskRecord(damaged, now)
  IN IF field \in DOMAIN RequiredSchema
     THEN after \in {Undefined, damaged}
     ELSE after # Undefined /\ \A f \in DOMAIN Fields(before) \cup DOMAIN Fields(after) :
            f \in {field, IF field = "model" THEN "root_model" ELSE field} \/ Get(after, f) = Get(before, f)
=============================================================================
