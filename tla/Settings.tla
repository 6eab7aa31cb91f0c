------------------------------- MODULE Settings -------------------------------
(***************************************************************************)
(* The settings of two plugins, each read from a global file and from one  *)
(* of the project: those of the hooks, workspace/src/hooks/safe-hook.ts,   *)
(* which the environment overrides, and those of reprompt,                 *)
(* reprompt/src/config.ts.  Settings in use are functions from the fields  *)
(* that are set to plain values; a file that is not there, or is not JSON  *)
(* for the hooks, is NoFile.                                               *)
(***************************************************************************)
EXTENDS JsonValues

Plain(schema, x) ==
  LET taken == Fields(Object(Taken(schema, x))) IN [f \in DOMAIN taken |-> taken[f][2]]
NoFile == <<"no file">>
Clamp(n, low, high) == IF n < low THEN low ELSE IF n > high THEN high ELSE n
-----------------------------------------------------------------------------
(* The hooks.  A threshold of compaction is in percent.                    *)
Features ==
  {"momentum", "completionPromise", "writePolicy", "taskReminder", "autonomyPolicy", "notifications",
   "verificationAutopilot", "hashAnchoredEdit", "contextScout", "externalScout", "taskGraph",
   "continuationCommands", "tmuxOrchestration", "boundaryPolicyV2", "mcpOAuthHelper"}
HookParts ==
  [features |-> [f \in Features |-> Flag],
   thresholds |-> [f \in {"taskReminderThreshold", "contextLimit", "compactionThreshold", "verificationThrottleMs"}
                     |-> Number],
   notifications |-> [enabled |-> Flag, desktop |-> Flag, quietHours |-> Text, timezone |-> Text,
                      privacy |-> OneOf({"strict", "balanced"})],
   verification |-> [autopilot |-> Flag, throttleMs |-> Number]]
Empty == [p \in DOMAIN HookParts |-> <<>>] @@ [disabledHooks |-> {}, safeHookCreation |-> <<>>]

DEFAULT_HOOK_CONFIG ==
  [features |-> [f \in Features |-> TRUE],
   thresholds |-> [taskReminderThreshold |-> 20, contextLimit |-> 200000, compactionThreshold |-> 78,
                   verificationThrottleMs |-> 45000],
   notifications |-> [enabled |-> TRUE, desktop |-> TRUE, quietHours |-> "", timezone |-> "", privacy |-> "strict"],
   verification |-> [autopilot |-> TRUE, throttleMs |-> 45000],
   disabledHooks |-> {}, safeHookCreation |-> [it |-> FALSE]]

DISABLED_HOOKS_BY_FEATURE ==
  [f \in {"momentum", "completionPromise", "writePolicy", "taskReminder", "autonomyPolicy"} |-> {f}] @@
  [notifications |-> {"tool.execute.after.notificationChannels", "event.notificationChannels"},
   hashAnchoredEdit |-> {"tool.execute.after.hashAnchorReadEnhancer"},
   contextScout |-> {"tool.execute.after.contextScout"}, externalScout |-> {"tool.execute.after.contextScout"}] @@
  [f \in Features |-> {}]

getWorkspaceConfigFromRoot(x) ==
  LET section == IF IsObject(Get(x, "op7_workspace")) THEN Get(x, "op7_workspace") ELSE x
      listed == Get(section, "disabledHooks")
      names == IF listed[1] = "array" THEN {listed[2][i] : i \in DOMAIN listed[2]} ELSE {}
  IN IF x = NoFile \/ ~IsObject(x) THEN Empty
     ELSE [p \in DOMAIN HookParts |-> Plain(HookParts[p], Get(section, p))] @@
          [disabledHooks |-> {n[2] : n \in {m \in names : m[1] = "string"}} \ {""},
           safeHookCreation |-> Plain([it |-> Flag], Object([it |-> Get(section, "safeHookCreation")]))]

mergeHookConfig(base, incoming) ==
  [f \in DOMAIN base |-> IF f = "disabledHooks" THEN base[f] \cup incoming[f] ELSE incoming[f] @@ base[f]]

(* What the environment sets is in `env'; of its thresholds only these are *)
(* put within bounds, those of a file are not.                             *)
applyEnvOverrides(config, env) ==
  LET Set(part, field, name) ==
        IF name \in DOMAIN env THEN (field :> env[name]) @@ part ELSE part
      bounded == [f \in DOMAIN env |->
        CASE f = "taskReminderThreshold" -> IF env[f] < 1 THEN 1 ELSE env[f]
          [] f = "contextLimit" -> IF env[f] < 10000 THEN 10000 ELSE env[f]
          [] f = "compactionThreshold" -> Clamp(env[f], 10, 98)
          [] f = "verificationThrottleMs" -> IF env[f] < 0 THEN 0 ELSE env[f]
          [] OTHER -> env[f]]
      thresholds == [f \in DOMAIN config.thresholds |->
                       IF f \in DOMAIN env THEN bounded[f] ELSE config.thresholds[f]]
  IN [config EXCEPT
        !.features = Set(Set(@, "notifications", "notifications"), "verificationAutopilot", "autopilot"),
        !.thresholds = thresholds,
        !.notifications = [f \in DOMAIN @ |-> LET name == IF f = "enabled" THEN "notifications" ELSE f
                                              IN IF name \in DOMAIN env THEN env[name] ELSE @[f]],
        !.verification = IF "verificationThrottleMs" \in DOMAIN env
                         THEN [Set(@, "autopilot", "autopilot") EXCEPT !.throttleMs = thresholds.verificationThrottleMs]
                         ELSE Set(@, "autopilot", "autopilot")]

featureDisabledHooks(features) == UNION {DISABLED_HOOKS_BY_FEATURE[f] : f \in {g \in Features : ~features[g]}}

(* The two scouts go together, and the boundary policy needs two others.   *)
Implied(features) ==
  LET scouts == features.externalScout \/ features.contextScout
  IN [features EXCEPT !.externalScout = scouts, !.contextScout = scouts,
                      !.hashAnchoredEdit = @ \/ features.boundaryPolicyV2,
                      !.autonomyPolicy = @ \/ features.boundaryPolicyV2]

resolveHookConfig(partial, env) ==
  LET merged == mergeHookConfig(DEFAULT_HOOK_CONFIG, partial)
      implied == Implied(merged.features)
      autopilot == IF "autopilot" \in DOMAIN partial.verification
                   THEN merged.verification.autopilot ELSE implied.verificationAutopilot
      withEnv == applyEnvOverrides([merged EXCEPT !.features = [implied EXCEPT !.verificationAutopilot = autopilot],
                                                  !.verification.autopilot = autopilot], env)
      features == [withEnv.features EXCEPT !.verificationAutopilot = withEnv.verification.autopilot]
  IN [withEnv EXCEPT !.features = features, !.disabledHooks = @ \cup featureDisabledHooks(features)]

loadHookConfig(global, project, env) ==
  resolveHookConfig(mergeHookConfig(getWorkspaceConfigFromRoot(global), getWorkspaceConfigFromRoot(project)), env)

isHookEnabled(name, config) == name \notin config.disabledHooks

(* What creating a hook gives when its factory gives `made', and what a    *)
(* call of the hook gives when the hook itself gives `called'.             *)
createSafeHook(name, made, config) ==
  IF ~isHookEnabled(name, config) THEN "null"
  ELSE IF made = "throws" /\ config.safeHookCreation.it THEN "null" ELSE made

createSafeRuntimeHook(name, made, called, config) ==
  LET hook == createSafeHook(name, made, config)
  IN IF hook # "hook" THEN hook
     ELSE IF called = "throws" /\ config.safeHookCreation.it THEN "undefined" ELSE called
-----------------------------------------------------------------------------
(* Reprompt.  A field of the wrong type makes the whole an error.          *)
Strings == <<"strings">>
RepromptSchema ==
  [runtime |-> [mode |-> OneOf({"helper-only", "hook-and-helper"}), promptMode |-> OneOf({"auto", "compiler"}),
                triggerPrefix |-> Text],
   retry |-> [maxAttempts |-> Positive, cooldownMs |-> Natural, dedupeWindowMs |-> Positive, recursionGuard |-> Flag],
   bundle |-> [maxTokens |-> Positive, maxBytes |-> Positive, maxSlices |-> Positive, minRequiredSlices |-> Natural],
   privacy |-> [allowHiddenFiles |-> Flag, blockedGlobs |-> Strings, blockedPatterns |-> Strings, redactPatterns |-> Strings],
   oracle |-> [mode |-> OneOf({"disabled", "suggest", "allow"}), maxBundleTokens |-> Positive, maxCallsPerSession |-> Positive],
   telemetry |-> [level |-> OneOf({"off", "basic", "debug"}), persistEvents |-> Flag]]
Str(s) == <<"string", s>>
Num(n) == <<"number", n>>
Bool(b) == <<"boolean", b>>
RepromptDefaults ==
  [runtime |-> [mode |-> Str("hook-and-helper"), promptMode |-> Str("auto"), triggerPrefix |-> Str("opx")],
   retry |-> [maxAttempts |-> Num(1), cooldownMs |-> Num(5000), dedupeWindowMs |-> Num(60000), recursionGuard |-> Bool(TRUE)],
   bundle |-> [maxTokens |-> Num(6000), maxBytes |-> Num(24000), maxSlices |-> Num(12), minRequiredSlices |-> Num(1)],
   privacy |-> [allowHiddenFiles |-> Bool(FALSE)] @@
               [f \in {"blockedGlobs", "blockedPatterns", "redactPatterns"} |-> <<"array", <<>>>>],
   oracle |-> [mode |-> Str("suggest"), maxBundleTokens |-> Num(3000), maxCallsPerSession |-> Num(1)],
   telemetry |-> [level |-> Str("basic"), persistEvents |-> Bool(TRUE)]]

Valid(kind, v) ==
  \/ v = Undefined
  \/ kind = Strings /\ v[1] = "array" /\ \A i \in DOMAIN v[2] : v[2][i][1] = "string"
  \/ kind = Text /\ v[1] = "string" /\ Trim(v[2]) # ""
  \/ kind \notin {Strings, Text} /\ Accepted(kind, v) # Undefined

Parsed(kind, v) == IF kind = Text /\ v # Undefined THEN Str(Trim(v[2])) ELSE v

parseRepromptConfig(x) ==
  LET part(p) == Get(x, p)
      wrong == \/ ~Valid(Flag, Get(x, "enabled"))
               \/ \E p \in DOMAIN RepromptSchema :
                    \/ part(p) # Undefined /\ part(p)[1] # "object"
                    \/ \E f \in DOMAIN RepromptSchema[p] : ~Valid(RepromptSchema[p][f], Get(part(p), f))
  IN IF wrong THEN <<"error">>
     ELSE Object([p \in DOMAIN RepromptSchema |->
                    Object([f \in DOMAIN RepromptSchema[p] |->
                             Unless(Parsed(RepromptSchema[p][f], Get(part(p), f)), RepromptDefaults[p][f])])] @@
                 [enabled |-> Unless(Get(x, "enabled"), Bool(FALSE))])

mergeRepromptConfigInput(base, override) ==
  IF override = NoFile THEN base
  ELSE Object([p \in DOMAIN RepromptSchema |-> Object(Fields(Get(override, p)) @@ Fields(Get(base, p)))] @@
              Fields(override) @@ Fields(base))

loadRepromptConfig(global, project) ==
  IF <<"invalid">> \in {global, project} THEN parseRepromptConfig(Object([enabled |-> Bool(FALSE)]))
  ELSE parseRepromptConfig(mergeRepromptConfigInput(
         mergeRepromptConfigInput(Object([enabled |-> Bool(TRUE)]), global), project))
-----------------------------------------------------------------------------
(* However the files and the environment look, the settings in use agree   *)
(* with each other: the scouts are on or off together, the boundary policy *)
(* has what it needs, the autopilot has one value, and a hook of a feature *)
(* that is off does not run.                                               *)
HookSettingsAgree(global, project, env) ==
  LET c == loadHookConfig(global, project, env)
  IN /\ c.features.externalScout = c.features.contextScout
     /\ c.features.boundaryPolicyV2 => c.features.hashAnchoredEdit /\ c.features.autonomyPolicy
     /\ c.features.verificationAutopilot = c.verification.autopilot
     /\ \A f \in Features : ~c.features[f] => \A n \in DISABLED_HOOKS_BY_FEATURE[f] : ~isHookEnabled(n, c)
     /\ \A n \in c.disabledHooks : createSafeHook(n, "throws", c) = "null"
     /\ c.safeHookCreation.it => \A made, called \in {"hook", "throws", "null"} :
          createSafeRuntimeHook("momentum", made, called, c) # "throws"

(* The project has the last word over the global file, and the environment *)
(* over both; a hook that any of them disables stays disabled.             *)
LastWord(global, project, env) ==
  LET c == loadHookConfig(global, project, env)
      p == getWorkspaceConfigFromRoot(project)
      g == getWorkspaceConfigFromRoot(global)
  IN /\ \A f \in DOMAIN p.thresholds \ DOMAIN env : c.thresholds[f] = p.thresholds[f]
     /\ \A f \in DOMAIN g.thresholds \ (DOMAIN env \cup DOMAIN p.thresholds) : c.thresholds[f] = g.thresholds[f]
     /\ "autopilot" \in DOMAIN env => c.verification.autopilot = env.autopilot
     /\ "autopilot" \in DOMAIN p.verification /\ "autopilot" \notin DOMAIN env =>
          c.verification.autopilot = p.verification.autopilot
     /\ "autopilot" \notin DOMAIN p.verification \cup DOMAIN g.verification \cup DOMAIN env
          /\ "verificationAutopilot" \in DOMAIN p.features =>
            c.verification.autopilot = p.features.verificationAutopilot
     /\ p.disabledHooks \cup g.disabledHooks \subseteq c.disabledHooks

(* Reprompt is off when a file cannot be read, and otherwise on unless a   *)
(* file says so; each field is that of the project, of the global file or  *)
(* the default, whichever comes first, and of a type the rest can use.     *)
RepromptLayers(global, project) ==
  LET c == loadRepromptConfig(global, project)
      First(f(_)) == Unless(f(project), f(global))
  IN c # <<"error">> =>
       /\ Get(c, "enabled") = Bool(/\ <<"invalid">> \notin {global, project}
                                   /\ LET E(x) == Get(x, "enabled") IN First(E) # Bool(FALSE))
       /\ <<"invalid">> \notin {global, project} =>
            \A p \in DOMAIN RepromptSchema : \A f \in DOMAIN RepromptSchema[p] :
              LET F(x) == Get(Get(x, p), f)
                  v == Get(Get(c, p), f)
              IN v = Unless(Parsed(RepromptSchema[p][f], First(F)), RepromptDefaults[p][f]) /\ Valid(RepromptSchema[p][f], v)
=============================================================================
