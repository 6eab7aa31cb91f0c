--------------------------- MODULE DelegationRouter ---------------------------
(***************************************************************************)
(* Which agent a task goes to, delegation/src/router.ts.  What the router  *)
(* reads of a text is how many keywords of each list it contains: `score'  *)
(* for the lists of the categories, the other fields for the lists named   *)
(* after them.  A negated visual phrase has been taken out before.         *)
(* Confidences are in percent.                                             *)
(***************************************************************************)
EXTENDS Integers, Sequences, FiniteSets

CATEGORY_ORDER == <<"visual", "research", "review", "planning", "deep", "quick", "build", "general">>
DelegationCategory == {CATEGORY_ORDER[i] : i \in DOMAIN CATEGORY_ORDER}

CATEGORY_AGENT_DEFAULTS ==
  [quick |-> "coder", deep |-> "oracle", visual |-> "frontend", research |-> "researcher",
   review |-> "reviewer", build |-> "coder", planning |-> "oracle", general |-> "coder"]

looksReadOnlyDelegationIntent(text) == ~text.empty /\ text.readOnlyIntent > 0 /\ text.editIntent = 0

isFrontendOwnedTask(text) ==
  /\ ~looksReadOnlyDelegationIntent(text)
  /\ \/ text.ownership >= 2
     \/ text.ownership = 1 /\ text.nonVisual = 0
     \/ /\ text.nonVisual = 0 \/ text.ownership > 0
        /\ text.surface > 0 /\ text.refinement > 0
        /\ text.nonVisual < text.surface + text.refinement

Classified(category, confidence, fallbackPath) ==
  [category |-> category, confidence |-> confidence, fallbackPath |-> fallbackPath]

(* The order of the categories decides between equal scores.               *)
classifyDelegationCategory(text) ==
  LET Score(p) == text.score[CATEGORY_ORDER[p]]
      Best(S) == CHOOSE p \in S : \A q \in S : Score(q) < Score(p) \/ (Score(q) = Score(p) /\ p <= q)
      top == Best(DOMAIN CATEGORY_ORDER)
      topScore == Score(top)
      secondScore == Score(Best(DOMAIN CATEGORY_ORDER \ {top}))
      confidence == 55 + 8 * topScore + 5 * (topScore - secondScore)
  IN IF text.empty THEN Classified("general", 45, "keyword-fallback")
     ELSE IF looksReadOnlyDelegationIntent(text)
     THEN Classified(IF text.review > 0 THEN "review" ELSE "research", 86, "none")
     ELSE IF isFrontendOwnedTask(text) THEN Classified("visual", 90, "none")
     ELSE IF topScore = 0 THEN Classified("general", 45, "keyword-fallback")
     ELSE Classified(CATEGORY_ORDER[top], IF confidence > 100 THEN 100 ELSE confidence, "none")

(* A category or an agent that is not asked for is "".                     *)
shouldRerouteToFrontend(input, classification) ==
  /\ input.autoRoute
  /\ input.subagentType \notin {"", "frontend"}
  /\ \/ input.category = "visual"
     \/ classification.category = "visual" /\ classification.fallbackPath = "none"

Decision(agent, category, confidence, fallbackPath) ==
  [agent |-> agent,
   telemetry |-> [detected_category |-> category, chosen_agent |-> agent,
                  confidence |-> confidence, fallback_path |-> fallbackPath]]

resolveDelegationRouting(input) ==
  LET classification == classifyDelegationCategory(input.text)
      asked == input.category # ""
      category == IF asked THEN input.category ELSE classification.category
      confidence == IF asked THEN 100 ELSE classification.confidence
      default == CATEGORY_AGENT_DEFAULTS[category]
  IN IF shouldRerouteToFrontend(input, classification)
     THEN Decision("frontend", "visual",
                   IF input.category = "visual" THEN 100 ELSE classification.confidence, "frontend-reroute")
     ELSE IF input.subagentType # ""
     THEN Decision(input.subagentType, category, confidence, "user-subagent")
     ELSE Decision(default, category, confidence,
                   IF asked THEN "category-default"
                   ELSE IF ~input.autoRoute THEN "keyword-fallback" ELSE classification.fallbackPath)
-----------------------------------------------------------------------------
(* An agent that is asked for is given, unless routing is automatic and    *)
(* the task is visual.                                                     *)
AskedAgentStands(input) ==
  LET agent == resolveDelegationRouting(input).agent
  IN input.subagentType # "" /\ agent # input.subagentType =>
       /\ input.autoRoute /\ agent = "frontend"
       /\ input.category = "visual" \/ isFrontendOwnedTask(input.text)
            \/ classifyDelegationCategory(input.text).category = "visual"

(* A text that only asks to read goes to an agent that does not edit, when *)
(* neither an agent nor a category is asked for.                           *)
ReadersAreNotEditors(input) ==
  looksReadOnlyDelegationIntent(input.text) /\ input.subagentType = "" /\ input.category = "" =>
    resolveDelegationRouting(input).agent \in {"researcher", "reviewer"}

(* The telemetry says which agent was chosen and, unless the agent was     *)
(* asked for, a category that the agent is the default of.                 *)
TelemetryIsTrue(input) ==
  LET decision == resolveDelegationRouting(input)
      telemetry == decision.telemetry
  IN /\ telemetry.chosen_agent = decision.agent
     /\ telemetry.fallback_path # "user-subagent" =>
          decision.agent = CATEGORY_AGENT_DEFAULTS[telemetry.detected_category]
     /\ telemetry.confidence \in 45..100
     /\ telemetry.fallback_path = "keyword-fallback" => input.category = ""
=============================================================================
