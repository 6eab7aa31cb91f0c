------------------------------- MODULE FastMode -------------------------------
(***************************************************************************)
(* The switch of the fast mode, fast-mode/src.  Its state is a function    *)
(* from the providers to their models that are switched on; the plugin     *)
(* reads it once and then keeps it.  Names are normalised by ProviderID,   *)
(* ModelID and AgentName; what is left of some is "".                      *)
(***************************************************************************)
EXTENDS Integers, Sequences, FiniteSets, SequencesExt, TLC

CONSTANTS ProviderID(_), ModelID(_), AgentName(_)
NotRead == [read |-> FALSE]

(* A file: a sequence of providers, each with a sequence of models.  Two   *)
(* spellings of a provider are one, and the later takes the place of the   *)
(* earlier.                                                                *)
parseFastModeState(file) ==
  LET Models(i) == {ModelID(m[1]) : m \in {n \in ToSet(file[i].models) : n[2]}} \ {""}
      kept == {i \in DOMAIN file : ProviderID(file[i].provider) # "" /\ Models(i) # {}}
      Of(p) == {i \in kept : ProviderID(file[i].provider) = p}
  IN [p \in {ProviderID(file[i].provider) : i \in kept} |->
        Models(CHOOSE i \in Of(p) : \A j \in Of(p) : j <= i)]

isModelFastModeEnabled(state, provider, model) ==
  /\ ProviderID(provider) \in DOMAIN state \ {""}
  /\ ModelID(model) \in state[ProviderID(provider)] \ {""}

setModelFastModeEnabled(state, provider, model, enabled) ==
  LET p == ProviderID(provider)
      models == IF p \in DOMAIN state THEN state[p] ELSE {}
      next == IF enabled THEN models \cup {ModelID(model)} ELSE models \ {ModelID(model)}
  IN [q \in {r \in DOMAIN state \cup {p} : r # p \/ next # {}} |-> IF q = p THEN next ELSE state[q]]

getEnabledModelTargets(state) == UNION {{<<p, m>> : m \in state[p]} : p \in DOMAIN state}
-----------------------------------------------------------------------------
(* The plugin: what is on the disk, and what it keeps of it.  A write that *)
(* fails leaves what is kept changed.                                      *)
readState(plugin) == IF plugin.memo = NotRead THEN plugin.disk ELSE plugin.memo.state
Kept(state) == [read |-> TRUE, state |-> state]
writeState(plugin, next, fails) ==
  [disk |-> IF fails THEN plugin.disk ELSE next, memo |-> Kept(next)]

parseToolTarget(target) ==
  IF target.malformed \/ ProviderID(target.provider) = "" \/ ModelID(target.model) = "" THEN "error" ELSE "target"

(* The tool, with `all' for every model; the answer is what it says is on. *)
fast_mode(plugin, call) ==
  LET state == readState(plugin)
      read == [plugin EXCEPT !.memo = Kept(state)]
      next == IF call.all THEN <<>>
              ELSE setModelFastModeEnabled(state, call.target.provider, call.target.model, call.action = "on")
  IN CASE call.action = "status" -> [plugin |-> read, answer |-> getEnabledModelTargets(state)]
       [] call.action # "status" /\ call.all /\ call.action = "on" -> [plugin |-> read, answer |-> "refused"]
       [] call.action # "status" /\ ~call.all /\ parseToolTarget(call.target) = "error" ->
            [plugin |-> read, answer |-> "error"]
       [] OTHER -> [plugin |-> writeState(read, next, call.fails),
                    answer |-> IF call.fails THEN "error" ELSE getEnabledModelTargets(next)]
-----------------------------------------------------------------------------
(* The settings: files as sequences of [provider, settings], where the     *)
(* settings are the ones that are given.                                   *)
NoFile == [file |-> "no file"]
InvalidFile == [file |-> "invalid"]
Off == [enabled |-> FALSE, providers |-> <<>>]

mergeFastModeConfigInput(base, override) ==
  LET Find(list, p) == SelectSeq(list, LAMBDA e : e.provider = p)
      merged == [i \in DOMAIN base.providers |->
                   LET e == base.providers[i]
                       over == Find(override.providers, e.provider)
                   IN IF over = <<>> THEN e ELSE [e EXCEPT !.settings = over[1].settings @@ e.settings]]
      added == SelectSeq(override.providers, LAMBDA e : Find(base.providers, e.provider) = <<>>)
  IN IF override = NoFile THEN base
     ELSE [given |-> override.given @@ base.given, providers |-> merged \o added]

parseFastModeConfig(input) ==
  LET Name(i) == ProviderID(input.providers[i].provider)
      Latest(p) == CHOOSE i \in DOMAIN input.providers : Name(i) = p /\ \A j \in DOMAIN input.providers : Name(j) = p => j <= i
      Listed(s, f) == IF f \in DOMAIN s THEN s[f] ELSE {}
  IN [enabled |-> IF "enabled" \in DOMAIN input.given THEN input.given.enabled ELSE FALSE,
      providers |-> [p \in {Name(i) : i \in DOMAIN input.providers} \ {""} |->
        LET s == input.providers[Latest(p)].settings
        IN [enabled |-> IF "enabled" \in DOMAIN s THEN s.enabled ELSE TRUE,
            agents |-> {AgentName(a) : a \in Listed(s, "agents")} \ {""},
            models |-> {ModelID(m) : m \in Listed(s, "models")} \ {""}]]]

loadFastModeConfig(global, project) ==
  LET defaults == [given |-> [enabled |-> FALSE], providers |-> <<>>]
  IN IF InvalidFile \in {global, project} THEN Off
     ELSE parseFastModeConfig(mergeFastModeConfigInput(mergeFastModeConfigInput(defaults, global), project))

shouldApplyFastMode(config, state, request) ==
  LET p == ProviderID(request.provider)
  IN /\ config.enabled /\ p \in DOMAIN config.providers \ {""}
     /\ config.providers[p].enabled
     /\ ModelID(request.model) \in config.providers[p].models
     /\ AgentName(request.agent) \in config.providers[p].agents
     /\ isModelFastModeEnabled(state, p, request.model)
-----------------------------------------------------------------------------
(* What a sequence of calls and restarts does, from nothing on the disk.   *)
Plugins(steps) ==
  LET after[i \in 0..Len(steps)] ==
        IF i = 0 THEN [disk |-> <<>>, memo |-> NotRead]
        ELSE IF steps[i].action = "restart" THEN [after[i - 1] EXCEPT !.memo = NotRead]
        ELSE fast_mode(after[i - 1], steps[i]).plugin
  IN after

(* The last word counts: a model is on when the last call about it, or     *)
(* about all, switched it on.  A call whose write failed counts until the  *)
(* next restart, and for good when a later one of the same life is saved.  *)
(* A provider is kept only while a model of it is on.                      *)
LastWordCounts(steps, provider, model) ==
  LET after == Plugins(steps)
      Lives(i) == \A k \in (i+1)..Len(steps) : steps[k].action # "restart"
      Writes(i) == steps[i].action \in {"on", "off"} /\ ~(steps[i].all /\ steps[i].action = "on")
                   /\ (steps[i].all \/ parseToolTarget(steps[i].target) # "error")
      Saved(i) == \/ ~steps[i].fails
                  \/ \E j \in (i+1)..Len(steps) : /\ Writes(j) /\ ~steps[j].fails
                       /\ \A k \in i..j : steps[k].action # "restart"
      About(i) == Writes(i) /\ (steps[i].all \/ (/\ ProviderID(steps[i].target.provider) = ProviderID(provider)
                                                 /\ ModelID(steps[i].target.model) = ModelID(model)))
      counting == {i \in DOMAIN steps : About(i) /\ (Saved(i) \/ Lives(i))}
      last == CHOOSE i \in counting : \A j \in counting : j <= i
  IN /\ isModelFastModeEnabled(readState(after[Len(steps)]), provider, model)
       = (counting # {} /\ steps[last].action = "on")
     /\ \A p \in DOMAIN after[Len(steps)].disk : after[Len(steps)].disk[p] # {}

(* A request is speeded up only for a model that its settings and its      *)
(* switch both name, however they are spelt.                               *)
BothAgree(global, project, state, request) ==
  LET config == loadFastModeConfig(global, project)
      Same(q, p) == ProviderID(q) = ProviderID(p)
  IN shouldApplyFastMode(config, state, request) =>
       /\ \E t \in getEnabledModelTargets(state) : t = <<ProviderID(request.provider), ModelID(request.model)>>
       /\ \E file \in {global, project} : "given" \in DOMAIN file /\ \E i \in DOMAIN file.providers :
            /\ Same(file.providers[i].provider, request.provider)
            /\ "models" \in DOMAIN file.providers[i].settings
            /\ ModelID(request.model) \in {ModelID(m) : m \in file.providers[i].settings.models}
       /\ \E file \in {global, project} : "given" \in DOMAIN file /\ "enabled" \in DOMAIN file.given /\ file.given.enabled

(* What is saved of a file reads as the file did: nothing that it switched *)
(* on under another spelling is lost by a call about something else.       *)
SavedReadsBack(file) ==
  LET state == parseFastModeState(file)
      saved == SetToSeq({[provider |-> p, models |-> SetToSeq({<<m, TRUE>> : m \in state[p]})] : p \in DOMAIN state})
  IN /\ parseFastModeState(saved) = state
     /\ \A p \in DOMAIN state : \A m \in state[p] :
          \E i \in DOMAIN file : \E n \in ToSet(file[i].models) :
            ProviderID(file[i].provider) = p /\ n[2] /\ ModelID(n[1]) = m

(* What the project says of a provider is not overruled by the global file *)
(* when all spell it alike.                                                *)
ProjectOverrules(global, project, state, request) ==
  \A i \in DOMAIN project.providers :
    LET mine == project.providers[i]
        alike == \A file \in {global, project} \ {NoFile, InvalidFile} : \A j \in DOMAIN file.providers :
                   ProviderID(file.providers[j].provider) = ProviderID(mine.provider)
                     => file.providers[j].provider = mine.provider
    IN /\ alike /\ ProviderID(mine.provider) = ProviderID(request.provider)
       /\ shouldApplyFastMode(loadFastModeConfig(global, project), state, request)
       => /\ "enabled" \in DOMAIN mine.settings => mine.settings.enabled
          /\ "models" \in DOMAIN mine.settings =>
               ModelID(request.model) \in {ModelID(m) : m \in mine.settings.models}
=============================================================================
