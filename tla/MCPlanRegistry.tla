--------------------------- MODULE MCPlanRegistry ---------------------------
(* Small instances of PlanRegistry: the first plan is active, the second a *)
(* draft the user has not confirmed, or not yet written.                   *)
EXTENDS PlanRegistry

N == INSTANCE PlanNotes

Board(second) ==
  [files |-> [p \in Plans |-> IF p = 2 /\ second = "absent" THEN "future" ELSE "there"],
   registry |-> [p \in Plans |-> IF p = 1 THEN "active" ELSE second],
   active |-> 1,
   confirmed |-> [p \in Plans |-> IF p = 2 /\ second = "draft" THEN "no" ELSE "unknown"]]

MCBoards == {Board("draft"), Board("absent")}
-----------------------------------------------------------------------------
(* What plans remember: small texts, items and patches for PlanNotes.      *)
a == <<"a", "plain">>
b == <<"b", "plain">>
Shouted == <<"a", "upper">>
Padded == <<"a", "padded">>

Questions ==
  {[id |-> "1", question |-> q, header |-> h, answers |-> given, source |-> "freeform",
    phase |-> N!Missing, confirmed |-> c] :
     q \in {a, Shouted, N!Nothing}, h \in {N!Missing}, given \in {<<Padded>>, <<a, b, N!Nothing>>},
     c \in {"no", "unsaid"}}
Patterns ==
  {[name |-> n, source |-> "repo", files |-> fs, why |-> a, code |-> N!Missing, confirmed |-> c] :
     n \in {a, Padded}, fs \in {<<a>>, <<Padded, b>>}, c \in {"no", "unsaid"}}
Changes ==
  {[path |-> p, operation |-> o, reason |-> r, why |-> b, pattern |-> N!Missing] :
     p \in {a, Shouted}, o \in {"add", "move"}, r \in {N!Missing, a}}

Silent ==
  [stage |-> "", confirmed |-> "", kind |-> "", overlays |-> {}, texts |-> [goal |-> N!Missing],
   lists |-> [goal |-> <<>>], answers |-> <<>>, patterns |-> <<>>, changes |-> <<>>]
Patches ==
  {[Silent EXCEPT !.answers = <<q>>] : q \in Questions}
    \cup {[Silent EXCEPT !.texts.goal = g, !.lists.goal = l, !.overlays = {"tdd"}] :
            g \in {a, N!Nothing}, l \in {<<b, Padded, b>>}}
MorePatches ==
  {[Silent EXCEPT !.patterns = <<p>>] : p \in Patterns} \cup {[Silent EXCEPT !.changes = <<c>>] : c \in Changes}

NoFile == [state |-> "missing"]
Written(patches) ==
  {NoFile} \cup {N!plan_context_write(N!plan_context_write(NoFile, p, TRUE), q, TRUE) : p, q \in patches}

(* A repeated plan_context_write changes nothing, nothing is forgotten and *)
(* nothing stands twice, after any two writes.                             *)
ASSUME NotesAccumulate ==
  \A patches \in {Patches, MorePatches} : \A file \in Written(patches), p \in patches :
    LET new == N!plan_context_write(file, p, TRUE).json
    IN /\ N!RetryIsHarmless(file, p)
       /\ N!NothingForgotten(file, p)
       /\ N!NoTwoAlike(new.answers, N!getQuestionAnswerMergeKey)
       /\ N!NoTwoAlike(new.patterns, N!getPatternExampleMergeKey)
       /\ N!NoTwoAlike(new.changes, N!getPlanFileChangeMergeKey)

(* Two sessions that write into one plan know the same afterwards in       *)
(* whichever order the lock let them in.                                   *)
ASSUME NotesOrderFree ==
  \A patches \in {Patches, MorePatches} : \A p, q, r \in patches :
    N!OrderIsImmaterial(N!plan_context_write(NoFile, p, TRUE), q, r)

(* A file that was torn reads as an empty one, and the next write forgets  *)
(* what it held.                                                           *)
ASSUME TornIsForgotten ==
  \A p \in Patches \cup MorePatches :
    N!plan_context_write([state |-> "torn"], p, TRUE) = N!plan_context_write(NoFile, p, TRUE)

DocInputs == {[path |-> p, title |-> t, phase |-> scope] :
                p \in {"x", "y"}, t \in {N!Missing, a}, scope \in {N!Missing, N!Nothing, b}}
Link(file, call) ==
  N!linkPlanDoc(file, call[1], call[2],
                <<"1", "2", "3">>[1 + Cardinality(DOMAIN N!readPlanDocRegistry(file).docs)])

(* Any three links of two plans to two documents are bidirectional, and    *)
(* making one of them again changes nothing.                               *)
ASSUME DocsBidirectional ==
  \A one, two, three \in {"p", "q"} \X DocInputs :
    LET file == Link(Link(Link(NoFile, one), two), three)
    IN N!Bidirectional(N!readPlanDocRegistry(file)) /\ Link(file, one) = file
=============================================================================
