------------------------------ MODULE PlanNotes -------------------------------
(***************************************************************************)
(* What a plan remembers, workspace/src/plan/state.ts: the context that    *)
(* plan_context_write merges into the stored one, and the documents that   *)
(* plan_doc_link links with plans.  Each call is one critical section      *)
(* under a lock (PlanRegistry has the locks), so it is an operator here:   *)
(* from the stored value and the input to the value that is stored next.   *)
(*                                                                         *)
(* A text is <<word, form>>: trim() takes the form "padded" away and       *)
(* toLowerCase() the form "upper".  Missing stands for undefined.          *)
(***************************************************************************)
EXTENDS Integers, Sequences, FiniteSets, SequencesExt

Missing == <<>>
Nothing == <<"", "plain">>
Blank(t) == t = Missing \/ t[1] = ""
Trim(t) == IF t # Missing /\ t[2] = "padded" THEN <<t[1], "plain">> ELSE t
Folded(t) == IF t = Missing THEN Nothing ELSE <<t[1], "plain">>
Given(t) == IF Blank(t) THEN Missing ELSE Trim(t)
OrElse(t, u) == IF t = Missing THEN u ELSE t                       \* t ?? u

uniqueStrings(values) ==
  FoldLeft(LAMBDA kept, t : IF Blank(t) \/ Contains(kept, t) THEN kept ELSE Append(kept, t),
           <<>>, values)

Confirmed(flag) == IF flag = "no" THEN "no" ELSE "yes"
EitherConfirmed(flag, other) == IF "yes" \in {flag, other} THEN "yes" ELSE "no"

Mapped(items, Op(_)) == [i \in DOMAIN items |-> Op(items[i])]

-----------------------------------------------------------------------------
(* Questions with their answers, examples of patterns and changes of files *)
(* are well formed or left out.  What nobody says is unconfirmed is        *)
(* confirmed.                                                              *)
(* A question's task is treated like its phase and left out, and so are    *)
(* the lists of a pattern that are treated like its files.                 *)
QuestionOK(q) == ~Blank(q.question)
normalizeQuestionAnswer(q) ==
  [q EXCEPT !.question = Trim(@), !.header = Given(@), !.phase = Given(@),
            !.answers = uniqueStrings(@), !.confirmed = Confirmed(@)]

PatternOK(p) == ~Blank(p.name) /\ ~Blank(p.why)
normalizePatternExample(p) ==
  [p EXCEPT !.name = Trim(@), !.why = Trim(@), !.files = uniqueStrings(@),
            !.code = Given(@), !.confirmed = Confirmed(@)]

(* A change may give its reason as `reason' or as `why'.                   *)
ChangeOK(c) == ~Blank(c.path) /\ c.operation \in {"add", "edit", "delete"} /\ ~Blank(OrElse(c.reason, c.why))
normalizePlanFileChangeItem(c) ==
  [c EXCEPT !.path = Trim(@), !.reason = Trim(OrElse(c.reason, c.why)), !.why = Missing,
            !.pattern = Given(@)]

getQuestionAnswerMergeKey(q) == <<Folded(q.question), Folded(q.header), Folded(q.phase)>>
getPatternExampleMergeKey(p) == <<Folded(p.name), p.source>>
getPlanFileChangeMergeKey(c) == Folded(c.path)

(* The stored item keeps its id and its place in the list.                 *)
JoinedQuestion(old, new) ==
  [new EXCEPT !.id = old.id, !.header = OrElse(@, old.header), !.phase = OrElse(@, old.phase),
              !.answers = uniqueStrings(old.answers \o @), !.confirmed = EitherConfirmed(@, old.confirmed)]
JoinedPattern(old, new) ==
  [new EXCEPT !.files = uniqueStrings(old.files \o @), !.code = OrElse(@, old.code),
              !.confirmed = EitherConfirmed(@, old.confirmed)]
JoinedChange(old, new) == [new EXCEPT !.pattern = OrElse(@, old.pattern)]

(* A Map that is filled item by item.                                      *)
Put(items, item, Key(_), Combine(_, _)) ==
  LET same == {i \in DOMAIN items : Key(items[i]) = Key(item)}
  IN IF same = {} THEN Append(items, item)
     ELSE [i \in DOMAIN items |-> IF i \in same THEN Combine(items[i], item) ELSE items[i]]

Filled(items, incoming, Key(_), Combine(_, _)) ==
  FoldLeft(LAMBDA filled, item : Put(filled, item, Key, Combine), items, incoming)

Later(old, new) == new

mergeQuestionAnswers(existing, incoming) ==
  LET Normal(items) == Mapped(SelectSeq(items, QuestionOK), normalizeQuestionAnswer)
  IN Filled(Filled(<<>>, existing, getQuestionAnswerMergeKey, Later),
            Normal(incoming), getQuestionAnswerMergeKey, JoinedQuestion)
mergePatternExamples(existing, incoming) ==
  LET Normal(items) == Mapped(SelectSeq(items, PatternOK), normalizePatternExample)
  IN Filled(Filled(<<>>, existing, getPatternExampleMergeKey, Later),
            Normal(incoming), getPatternExampleMergeKey, JoinedPattern)
mergePlanFileChanges(existing, incoming) ==
  LET Normal(items) == Mapped(SelectSeq(items, ChangeOK), normalizePlanFileChangeItem)
  IN Filled(Filled(<<>>, existing, getPlanFileChangeMergeKey, Later),
            Normal(incoming), getPlanFileChangeMergeKey, JoinedChange)
-----------------------------------------------------------------------------
(* The context.  Its lists and its texts are functions of their fields,    *)
(* which are all treated alike.                                            *)
createEmptyPlanContext(fields) ==
  [stage |-> "draft", confirmed |-> "no", kind |-> "implementation", overlays |-> {},
   texts |-> [f \in fields |-> Missing], lists |-> [f \in fields |-> <<>>],
   answers |-> <<>>, patterns |-> <<>>, changes |-> <<>>]

Kinds == {"implementation", "prd", "refactor", "interface", "tdd"}
Overlays == {"deep-grill", "interface-review", "refactor-sequencing", "tdd",
             "user-story-mapping", "dependency-modeling", "vertical-slices"}

normalizePlanContextRecord(raw) ==
  [stage |-> IF raw.stage \in {"confirmed", "active", "archived"} THEN raw.stage ELSE "draft",
   confirmed |-> IF raw.confirmed = "yes" THEN "yes" ELSE "no",
   kind |-> IF raw.kind \in Kinds THEN raw.kind ELSE "implementation",
   overlays |-> raw.overlays \cap Overlays,
   texts |-> [f \in DOMAIN raw.texts |-> Given(raw.texts[f])],
   lists |-> [f \in DOMAIN raw.lists |-> uniqueStrings(raw.lists[f])],
   answers |-> Mapped(SelectSeq(raw.answers, QuestionOK), normalizeQuestionAnswer),
   patterns |-> Mapped(SelectSeq(raw.patterns, PatternOK), normalizePatternExample),
   changes |-> Mapped(SelectSeq(raw.changes, ChangeOK), normalizePlanFileChangeItem)]

(* A file is missing, whole, mended (commas too many, or text around the   *)
(* JSON, both of which the recovery takes away), or torn.                  *)
parseJsonWithRecovery(file) ==
  IF file.state \in {"whole", "mended"} THEN <<file.json>> ELSE <<>>

Stored(json) == [state |-> "whole", json |-> json]

readPlanContext(file, fields) ==
  LET parsed == parseJsonWithRecovery(file)
  IN IF parsed = <<>> THEN createEmptyPlanContext(fields) ELSE normalizePlanContextRecord(parsed[1])

(* What a patch does not give is "", Missing or empty; a text given as ""  *)
(* replaces the stored one.                                                *)
syncPlanContext(file, patch) ==
  LET existing == readPlanContext(file, DOMAIN patch.texts)
      Choose(given, stored) == IF given = "" THEN stored ELSE given
      Merged(Merge(_, _), items, incoming) == IF incoming = <<>> THEN items ELSE Merge(items, incoming)
  IN Stored(
       [stage |-> Choose(patch.stage, existing.stage),
        confirmed |-> Choose(patch.confirmed, existing.confirmed),
        kind |-> Choose(patch.kind, existing.kind),
        overlays |-> existing.overlays \cup patch.overlays,
        texts |-> [f \in DOMAIN patch.texts |-> OrElse(patch.texts[f], existing.texts[f])],
        lists |-> [f \in DOMAIN patch.lists |-> uniqueStrings(existing.lists[f] \o patch.lists[f])],
        answers |-> Merged(mergeQuestionAnswers, existing.answers, patch.answers),
        patterns |-> Merged(mergePatternExamples, existing.patterns, patch.patterns),
        changes |-> Merged(mergePlanFileChanges, existing.changes, patch.changes)])

(* The lists of records come as JSON: one that does not parse refuses the  *)
(* whole call, and a record that is not well formed is dropped.            *)
TrimmedList(values) == Mapped(SelectSeq(values, LAMBDA t : ~Blank(t)), Trim)
parsePlanQuestionAnswerInput(q) == [normalizeQuestionAnswer(q) EXCEPT !.answers = TrimmedList(q.answers)]
parsePatternExampleInput(p) == [normalizePatternExample(p) EXCEPT !.files = TrimmedList(p.files)]

plan_context_write(file, args, jsonParses) ==
  IF ~jsonParses THEN file
  ELSE syncPlanContext(file,
         [args EXCEPT !.answers = Mapped(SelectSeq(@, QuestionOK), parsePlanQuestionAnswerInput),
                      !.patterns = Mapped(SelectSeq(@, PatternOK), parsePatternExampleInput),
                      !.changes = Mapped(SelectSeq(@, ChangeOK), normalizePlanFileChangeItem)])
-----------------------------------------------------------------------------
(* Documents: the links of each plan and, for each document, the plans     *)
(* that link to it.  A link's task is treated like its phase.              *)
NoDocs == [plans |-> <<>>, docs |-> <<>>]

normalizePlanDocRegistry(raw) ==
  [plans |-> [p \in DOMAIN raw.plans |->
                SelectSeq(raw.plans[p], LAMBDA link : link.id # "" /\ link.path # "")],
   docs |-> [d \in {d \in DOMAIN raw.docs : raw.docs[d].path # ""} |-> raw.docs[d]]]

readPlanDocRegistry(file) ==
  LET parsed == parseJsonWithRecovery(file)
  IN IF parsed = <<>> THEN NoDocs ELSE normalizePlanDocRegistry(parsed[1])

SameScope(link, input) == OrElse(link.phase, Nothing) = OrElse(input.phase, Nothing)
With(function, key, value) ==
  [x \in DOMAIN function \cup {key} |-> IF x = key THEN value ELSE function[x]]

(* fresh: the id that generateDocID finds.  A link that is there already   *)
(* is returned and nothing is written, a title given with it neither.      *)
linkPlanDoc(file, planName, input, fresh) ==
  LET registry == readPlanDocRegistry(file)
      known == {d \in DOMAIN registry.docs : registry.docs[d].path = input.path}
      docID == IF known = {} THEN fresh ELSE CHOOSE d \in known : TRUE
      planLinks == IF planName \in DOMAIN registry.plans THEN registry.plans[planName] ELSE <<>>
      link == [id |-> docID, path |-> input.path, title |-> input.title, phase |-> input.phase]
      backlink == [plan |-> planName, phase |-> input.phase]
      entry == IF known = {} THEN [path |-> input.path, title |-> input.title, linked |-> <<>>]
               ELSE registry.docs[docID]
      linked == IF \E i \in DOMAIN entry.linked :
                      entry.linked[i].plan = planName /\ SameScope(entry.linked[i], input)
                THEN entry.linked ELSE Append(entry.linked, backlink)
      title == IF Blank(entry.title) THEN input.title ELSE entry.title
  IN IF \E i \in DOMAIN planLinks : planLinks[i].id = docID /\ SameScope(planLinks[i], input)
     THEN file
     ELSE Stored([plans |-> With(registry.plans, planName, Append(planLinks, link)),
                  docs |-> With(registry.docs, docID,
                                [path |-> entry.path, title |-> title, linked |-> linked])])
-----------------------------------------------------------------------------
(* What the calls promise.                                                 *)

(* A plan_context_write that is sent again changes nothing.                *)
RetryIsHarmless(file, patch) ==
  LET once == plan_context_write(file, patch, TRUE) IN plan_context_write(once, patch, TRUE) = once

(* The same question, example or file, as the user would see it, is never  *)
(* listed twice once the list was written.                                 *)
NoTwoAlike(items, Key(_)) == \A i, j \in DOMAIN items : Key(items[i]) = Key(items[j]) => i = j

(* What must not be lost of an item.                                       *)
ConfirmationOf(item) == IF item.confirmed = "yes" THEN {<<"confirmed", "plain">>} ELSE {}
PartsOfQuestion(q) == ToSet(q.answers) \cup ConfirmationOf(q)
PartsOfPattern(p) == ToSet(p.files) \cup ConfirmationOf(p)
PartsOfChange(c) == {}

(* Whatever a call merges in, what was there stays, in its place: list     *)
(* entries, answers, files, and each confirmation of an item.              *)
Kept(before, after, Key(_), Parts(_)) ==
  \A i \in DOMAIN before : \E j \in DOMAIN after :
    Key(after[j]) = Key(before[i]) /\ Parts(before[i]) \subseteq Parts(after[j])

NothingForgotten(file, patch) ==
  LET old == readPlanContext(file, DOMAIN patch.texts)
      new == readPlanContext(plan_context_write(file, patch, TRUE), DOMAIN patch.texts)
  IN /\ old.overlays \subseteq new.overlays
     /\ \A f \in DOMAIN old.lists : IsPrefix(old.lists[f], new.lists[f])
     /\ Kept(old.answers, new.answers, getQuestionAnswerMergeKey, PartsOfQuestion)
     /\ Kept(old.patterns, new.patterns, getPatternExampleMergeKey, PartsOfPattern)
     /\ Kept(old.changes, new.changes, getPlanFileChangeMergeKey, PartsOfChange)

(* Of two calls, whichever is first, the same is known afterwards.         *)
KnownOf(items, Key(_), Parts(_)) ==
  {<<Key(items[i]), UNION {Parts(items[j]) : j \in {j \in DOMAIN items : Key(items[j]) = Key(items[i])}}>> :
     i \in DOMAIN items}

OrderIsImmaterial(file, p, q) ==
  LET one == readPlanContext(plan_context_write(plan_context_write(file, p, TRUE), q, TRUE), DOMAIN p.texts)
      two == readPlanContext(plan_context_write(plan_context_write(file, q, TRUE), p, TRUE), DOMAIN p.texts)
      Alike(Key(_), Parts(_), items, others) == KnownOf(items, Key, Parts) = KnownOf(others, Key, Parts)
  IN /\ one.overlays = two.overlays
     /\ \A f \in DOMAIN one.lists : ToSet(one.lists[f]) = ToSet(two.lists[f])
     /\ Alike(getQuestionAnswerMergeKey, PartsOfQuestion, one.answers, two.answers)
     /\ Alike(getPatternExampleMergeKey, PartsOfPattern, one.patterns, two.patterns)
     /\ Alike(getPlanFileChangeMergeKey, PartsOfChange, one.changes, two.changes)

(* Links and backlinks are two sides of the same relation ("Stores         *)
(* bidirectional links in workspace metadata", index.ts:2219), each stands *)
(* once, and a path has one document.                                      *)
Bidirectional(registry) ==
  LET Links == {l \in (DOMAIN registry.plans) \X (1..8) : l[2] \in DOMAIN registry.plans[l[1]]}
      At(l) == registry.plans[l[1]][l[2]]
      Backlinks == {b \in (DOMAIN registry.docs) \X (1..8) : b[2] \in DOMAIN registry.docs[b[1]].linked}
      Back(b) == registry.docs[b[1]].linked[b[2]]
      Match(l, b) == At(l).id = b[1] /\ Back(b).plan = l[1] /\ SameScope(At(l), Back(b))
  IN /\ \A l \in Links : Cardinality({b \in Backlinks : Match(l, b)}) = 1
     /\ \A b \in Backlinks : Cardinality({l \in Links : Match(l, b)}) = 1
     /\ \A l \in Links : At(l).path = registry.docs[At(l).id].path
     /\ \A d, e \in DOMAIN registry.docs : registry.docs[d].path = registry.docs[e].path => d = e
=============================================================================
