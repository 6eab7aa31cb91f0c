----------------------------- MODULE MCTaskViews ------------------------------
(***************************************************************************)
(* Small instances of Delegation, with the router of the tasks and the     *)
(* views of them checked over bounded inputs.                              *)
(***************************************************************************)
EXTENDS Delegation, TLC

Router == INSTANCE DelegationRouter

(* A text has one keyword of up to two categories, or two of one of them.  *)
Scores ==
  {[c \in Router!DelegationCategory |-> IF c = a THEN n ELSE IF c = b THEN 1 ELSE 0] :
     n \in 0..2, a, b \in Router!DelegationCategory}
ReadOnlyTexts == {"neither", "reads", "edits", "reads and edits"}
Texts ==
  {[empty |-> FALSE, score |-> s, ownership |-> o, nonVisual |-> v, surface |-> u, refinement |-> u,
    readOnlyIntent |-> IF r \in {"reads", "reads and edits"} THEN 1 ELSE 0,
    editIntent |-> IF r \in {"edits", "reads and edits"} THEN 1 ELSE 0,
    review |-> s["review"]] :
     s \in Scores, o, v \in 0..2, u \in 0..1, r \in ReadOnlyTexts}

RouterInputs(texts) ==
  [autoRoute : BOOLEAN, category : {"", "visual", "research"}, subagentType : {"", "coder", "frontend"},
   text : texts]

(* A few texts of each kind: those of two categories are the ones a tie    *)
(* decides.                                                                *)
RoutedTexts == {t \in Texts : t.score["visual"] + t.score["review"] + t.score["build"] >= 2}

ASSUME RoutingIsAccountable ==
  \A input \in RouterInputs(RoutedTexts) :
    /\ Router!AskedAgentStands(input)
    /\ Router!ReadersAreNotEditors(input)
    /\ Router!TelemetryIsTrue(input)

(* A keyword more of the category that won does not take the task away     *)
(* from it and makes the classification no less sure; a keyword more of    *)
(* another one either takes the task or makes it no surer.                 *)
ASSUME KeywordsOnlyAdd ==
  \A t \in RoutedTexts :
    LET before == Router!classifyDelegationCategory(t)
        more == [t EXCEPT !.score[before.category] = @ + 1]
        after == Router!classifyDelegationCategory(more)
    IN /\ before.fallbackPath = "none" => /\ after.category = before.category
                                          /\ after.confidence >= before.confidence
       /\ before.fallbackPath = "none" =>
            \A c \in {"research", "build"} \ {before.category} :
              LET other == Router!classifyDelegationCategory([t EXCEPT !.score[c] = @ + 1])
              IN other.category = c \/ (other.category = before.category
                                         /\ other.confidence <= before.confidence)
-----------------------------------------------------------------------------
Views == INSTANCE TaskViews WITH
  Missing <- -1, stuckAfterMs <- 3, queueDegradedAfterMs <- 2, failureWindowMs <- 1

(* Three records in the order of the store; the third depends on the       *)
(* others and on one that is gone.  One has no created_order, and the      *)
(* others have it in the order of their times: were it against them, the   *)
(* three could not be sorted.                                              *)
GraphRecord(id, created, deps, status) ==
  [id |-> id, created_at |-> created, depends_on |-> deps, status |-> status,
   created_order |-> IF id = 2 THEN -1 ELSE id, root |-> IF id = 1 THEN "r" ELSE "q", background |-> "yes"]
Graphs3 ==
  {<<GraphRecord(3, 1, <<1, 9, 2>>, s3), GraphRecord(1, 0, <<>>, s1), GraphRecord(2, c, <<1>>, s2)>> :
     s1, s2, s3 \in Views!Statuses, c \in 0..1}

(* The graph is blocked where the store would have blocked the task.       *)
StoredGraph(records) ==
  [t \in {1, 2, 3, 9} |-> [status |-> IF t = 9 THEN "absent"
                          ELSE (CHOOSE r \in {records[i] : i \in 1..3} : r.id = t).status]]
ASSUME TasksAreAllDrawn ==
  \A records \in Graphs3, all \in BOOLEAN :
    LET nodes == Views!buildTaskGraph(records, all).nodes
    IN /\ Views!GraphIsComplete(records, all)
       /\ \A i \in DOMAIN nodes :
            {nodes[i].blocked_by[k] : k \in DOMAIN nodes[i].blocked_by}
              = Blockers(StoredGraph(records), {nodes[i].depends_on[k] : k \in DOMAIN nodes[i].depends_on})

ASSUME TaskListsAgree ==
  \A records \in Graphs3, root \in {"", "q"}, limit \in -1..2 : Views!ListsAgree(records, root, limit)

(* A task is as old as it can be: no time, a time of the past or one of    *)
(* the future.                                                             *)
StatusTasks ==
  [status : Views!Statuses, created_at : {0, 4}, updated_at : {-1, 2}, started_at : {-1, 0, 9},
   completed_at : {-1, 3}]

ASSUME OneTaskSetsTheHealth ==
  /\ \A a, b \in StatusTasks : Views!HealthIsTheWorst(<<a, b>>, 4)
  /\ \A a \in StatusTasks : Views!HealthIsTheWorst(<<a>>, 4) /\ Views!HealthIsTheWorst(<<a>>, 5)
-----------------------------------------------------------------------------
Trimmed(s) == CASE s = " a" -> "a" [] s = " " -> "" [] OTHER -> s
Codec == INSTANCE TaskCodec WITH Trim <- Trimmed

Str(s) == <<"string", s>>
Junk ==
  {Codec!Undefined, <<"null">>, Str(""), Str("x"), Str(" a"), <<"number", -1>>, <<"number", 0>>, <<"number", 101>>,
   <<"fraction">>, <<"infinite">>, <<"boolean", TRUE>>, <<"array", <<>>>>,
   <<"array", <<Str(" a"), <<"number", 1>>, Str("b"), Str("a"), Str(" ")>>>>, <<"object", <<>>>>}
Changed(x, field, value) ==
  <<"object", [f \in DOMAIN x[2] \cup {field} |-> IF f = field THEN value ELSE x[2][f]]>>

FullAssignment ==
  <<"object", [owner |-> Str("manager"), workflow |-> Str("caid"), dependency_ids |-> <<"array", <<Str("a")>>>>,
               retry |-> <<"object", [reason |-> Str("dirty_root"), state |-> Str("ready")]>>,
               review |-> <<"object", [status |-> Str("pending"), summary |-> Str("x")]>>,
               verification |-> <<"object", [strategy |-> Str("targeted")]>>]>>
FullExecution ==
  <<"object", [mode |-> Str("worktree"), merge_status |-> Str("merged"), edit_count |-> <<"number", 2>>,
               file_changed |-> <<"boolean", TRUE>>,
               root_follow_through |-> <<"object", [status |-> Str("waived"), updated_at |-> Str("t")]>>]>>
FullRouting ==
  <<"object", [detected_category |-> Str("visual"), chosen_agent |-> Str("frontend"),
               confidence |-> <<"number", 90>>, fallback_path |-> Str("frontend-reroute")]>>
FullModel == <<"object", [providerID |-> Str("p"), modelID |-> Str("m")]>>
FullRecord ==
  <<"object", [f \in DOMAIN Codec!RequiredSchema |->
                 IF f = "run_in_background" THEN <<"boolean", FALSE>>
                 ELSE IF f = "status" THEN Str("running") ELSE Str("x")]
              @@ [assignment |-> FullAssignment, execution |-> FullExecution, routing |-> FullRouting,
                  root_model |-> FullModel, category |-> Str("deep"), depends_on |-> <<"array", <<Str("a")>>>>,
                  created_order |-> <<"number", 1>>, created_at |-> Str("t"), updated_at |-> Str("t")]>>

(* A file with one thing wrong, in a record or in a part of one.           *)
RecordFields == DOMAIN FullRecord[2] \cup {"model", "error", "concurrency_key"}
Damaged ==
  {Changed(FullRecord, f, v) : f \in RecordFields, v \in Junk}
  \cup {Changed(FullRecord, "assignment", Changed(FullAssignment, f, v)) : f \in DOMAIN FullAssignment[2], v \in Junk}
  \cup {Changed(FullRecord, "execution", Changed(FullExecution, f, v)) : f \in DOMAIN FullExecution[2], v \in Junk}
  \cup {Changed(FullRecord, "routing", Changed(FullRouting, f, v)) : f \in DOMAIN FullRouting[2], v \in Junk}

ASSUME RecordsSettle == \A x \in Damaged \cup Junk : Codec!ReadingSettles(x)
ASSUME DamageStaysWhereItIs ==
  /\ Codec!normalizeTaskRecord(FullRecord, Str("now")) = FullRecord
  /\ \A f \in RecordFields, v \in Junk : Codec!DamageIsLocal(FullRecord, f, v)

(* An assignment that is accepted names no dependencies but the task's.    *)
ASSUME AssignmentsNameTheDependencies ==
  \A v, d \in {j \in Junk : j[1] \in {"array", "undefined"}} :
    LET taken == Codec!normalizeTaskAssignmentInput(Changed(FullAssignment, "dependency_ids", v), d)
        named == Codec!Get(taken, "dependency_ids")
    IN taken # <<"error">> /\ d # Codec!Undefined /\ named # Codec!Undefined =>
         {named[2][i] : i \in DOMAIN named[2]} = {d[2][i] : i \in DOMAIN d[2]}
-----------------------------------------------------------------------------
Old == INSTANCE WorkspaceTasks WITH
  Trim <- Trimmed, NotATime <- -1, stuckAfter <- 3, degradedAfter <- 2, failureWindow <- 1

OldCalls ==
  {[op |-> "create", id |-> "a", deps |-> {}, root |-> "r", child |-> "s", initial |-> ""],
   [op |-> "create", id |-> "b", deps |-> {" a", " "}, root |-> "r", child |-> "s", initial |-> ""],
   [op |-> "create", id |-> "c", deps |-> {"a", "b"}, root |-> "r", child |-> "s", initial |-> "queued"],
   [op |-> "create", id |-> "c", deps |-> {"a"}, root |-> "q", child |-> "s", initial |-> ""],
   [op |-> "move", id |-> "a", to |-> "running"], [op |-> "move", id |-> "a", to |-> "succeeded"],
   [op |-> "move", id |-> "b", to |-> "blocked"], [op |-> "move", id |-> "b", to |-> "cancelled"]}

ASSUME OldTasksAreOrderly ==
  \A a, b, c, d \in OldCalls :
    /\ Old!TasksAreOrderly(<<a, b, c, d>>)
    /\ Old!RunnableIsUnblocked(<<a, b, c, d>>)

(* The copy reads the records of the delegation plugin, without what it    *)
(* does not know.                                                          *)
ASSUME OldReadsNew ==
  \A x \in Damaged :
    LET now == Str("now")
        old == Old!normalizeDelegationRecord(x, now)
        new == Codec!normalizeTaskRecord(x, now)
    IN new # Codec!Undefined =>
         /\ old # Codec!Undefined
         /\ \A f \in DOMAIN old[2] : f \in DOMAIN new[2] /\ old[2][f] = new[2][f]
=============================================================================
