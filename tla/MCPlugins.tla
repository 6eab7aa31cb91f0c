------------------------------ MODULE MCPlugins -------------------------------
(***************************************************************************)
(* A small instance of TaskStore, three tasks of one root session, the     *)
(* third depending on the first two, with the configuration of the         *)
(* language servers, of the hooks, of reprompt and of the fast mode, and   *)
(* the hooks themselves, checked over bounded inputs.                      *)
(***************************************************************************)
EXTENDS TaskStore, TLC, SequencesExt

CONSTANTS t1, t2, t3, root, child, key, exec1, exec2, asg

Creation(t, deps) ==
  [op |-> "create", id |-> t, root |-> root, deps |-> deps, child |-> child,
   key |-> key, bg |-> TRUE, exec |-> exec1, asg |-> asg, initial |-> "derived"]
Move(t, to) == [op |-> "transition", id |-> t, to |-> to]
Restart(t) ==
  [op |-> "restart", id |-> t, child |-> child, key |-> key, bg |-> TRUE,
   exec |-> exec1, asg |-> asg, initial |-> "queued"]

MCCalls ==
  {Creation(t1, {}), Creation(t2, {t1}), Creation(t3, {t1, t2}),
   Move(t1, "running"), Move(t1, "succeeded"), Move(t2, "cancelled"), Restart(t1),
   [op |-> "update", id |-> t2, exec |-> exec2, asg |-> asg]}

MCStore == [EmptyStore EXCEPT ![t1] =
  [status |-> "queued", root |-> root, deps |-> {}, order |-> 1, child |-> child,
   key |-> key, bg |-> TRUE, exec |-> exec1, asg |-> asg]]

(* A first start, an established store, and an upgrade from the old file.  *)
AllDisks ==
  {[exists |-> FALSE, primary |-> EmptyStore, legacy |-> EmptyStore],
   [exists |-> TRUE, primary |-> MCStore, legacy |-> MCStore],
   [exists |-> FALSE, primary |-> EmptyStore, legacy |-> MCStore]}

-----------------------------------------------------------------------------

(* Two built-in servers for one language.                                  *)
Servers == INSTANCE LspServers WITH
  BuiltIn <- <<[id |-> "pyright", command |-> "pyright", extensions |-> {".py"}],
               [id |-> "ruff", command |-> "ruff", extensions |-> {".py"}]>>,
  Installed <- {"own"}, Fetchable <- {"pyright", "ruff"}, Unreachable <- {"pyright"}

ServerEntries ==
  {[id |-> i, command |-> c, extensions |-> {".py"}, priority |-> p, disabled |-> d] :
     i \in {"pyright", "mine"}, c \in {Servers!NoCommand, "own", "gone"}, p \in {0, 5}, d \in BOOLEAN}
Whole == {e \in ServerEntries : e.command # Servers!NoCommand /\ (e.id = "mine" \/ e.disabled)}
TwoEntries == {<<e, f>> : e, f \in Whole}
ServerFiles ==
  [1..3 -> {<<>>} \cup {<<e>> : e \in {f \in ServerEntries : f.priority = 0}}]
  \cup {[s \in 1..3 |-> IF s = t THEN es ELSE <<>>] : t \in 1..3, es \in TwoEntries}

ASSUME ServersAreListed == \A files \in ServerFiles : Servers!ListIsTrue(files, ".py")
ASSUME NearestServerWins == \A files \in ServerFiles : Servers!NearestWins(files, ".py")
-----------------------------------------------------------------------------
Trimmed(s) == CASE s = " " -> "" [] s = " a " -> "a" [] OTHER -> s
Config == INSTANCE Settings WITH Trim <- Trimmed

Obj(fields) == <<"object", fields>>
On(b) == <<"boolean", b>>

(* Each file sets a part of what the parts of the settings have in common. *)
FeatureParts ==
  {[f \in fs |-> On(b)] : b \in BOOLEAN,
     fs \in {{}, {"contextScout"}, {"contextScout", "externalScout"}, {"boundaryPolicyV2"},
             {"autonomyPolicy"}, {"verificationAutopilot", "momentum"}}}
OtherParts ==
  {<<>>,
   ("thresholds" :> Obj("contextLimit" :> <<"number", 5>>)),
   ("thresholds" :> Obj("contextLimit" :> <<"string", "5">>)),
   ("verification" :> Obj("autopilot" :> On(TRUE))),
   ("verification" :> Obj("autopilot" :> On(FALSE))),
   ("safeHookCreation" :> On(TRUE)) @@ ("disabledHooks" :> <<"array", <<<<"string", "taskReminder">>, <<"null">>>>>>)}
HookFiles ==
  {Config!NoFile, <<"null">>} \cup {Obj(("features" :> Obj(f)) @@ o) : f \in FeatureParts, o \in OtherParts}
WrappedFiles == {Obj("op7_workspace" :> f) : f \in {g \in HookFiles : g[1] = "object"}}
FewFiles == {f \in HookFiles : Config!Get(f, "features") \in {Config!Undefined, Obj(<<>>)}}
Environments ==
  {<<>>, ("contextLimit" :> 4), ("autopilot" :> TRUE), ("autopilot" :> FALSE),
   ("notifications" :> FALSE) @@ ("verificationThrottleMs" :> 7)}

ASSUME HookSettingsAreOne ==
  \A env \in Environments :
    /\ \A g \in FewFiles, p \in HookFiles : Config!HookSettingsAgree(g, p, env)
    /\ \A g \in HookFiles, p \in FewFiles : Config!HookSettingsAgree(g, p, env)

ASSUME NearestSettingCounts ==
  \A env \in Environments :
    /\ \A g \in FewFiles, p \in HookFiles : Config!LastWord(g, p, env)
    /\ \A g \in HookFiles, p \in FewFiles : Config!LastWord(g, p, env)

(* A file that keeps its settings in a section reads as the section does.  *)
ASSUME SectionsReadAlike ==
  \A f \in WrappedFiles :
    Config!getWorkspaceConfigFromRoot(f) = Config!getWorkspaceConfigFromRoot(Config!Get(f, "op7_workspace"))

RepromptFiles ==
  {Config!NoFile, <<"invalid">>} \cup
  {Obj(e @@ r @@ b) :
     e \in {<<>>, ("enabled" :> On(TRUE)), ("enabled" :> On(FALSE))},
     r \in {<<>>, ("runtime" :> Obj("triggerPrefix" :> <<"string", " a ">>)), ("runtime" :> Obj("triggerPrefix" :> <<"string", " ">>)),
            ("runtime" :> Obj("mode" :> <<"string", "helper-only">>)), ("runtime" :> <<"null">>)},
     b \in {<<>>, ("bundle" :> Obj(("maxTokens" :> <<"number", 3>>) @@ ("minRequiredSlices" :> <<"number", 0>>))),
            ("bundle" :> Obj("maxTokens" :> <<"number", 0>>))}}
ASSUME RepromptIsLayered == \A g, p \in RepromptFiles : Config!RepromptLayers(g, p)
-----------------------------------------------------------------------------
(* Two spellings of each name, and one that is blank.                      *)
Lowered(s) == CASE s \in {"OpenAI", "openai "} -> "openai" [] s = "Coder" -> "coder" [] s = " " -> "" [] OTHER -> s
Unspaced(s) == CASE s = "gpt " -> "gpt" [] s = " " -> "" [] OTHER -> s
Fast == INSTANCE FastMode WITH ProviderID <- Lowered, ModelID <- Unspaced, AgentName <- Lowered

Target(p, m, bad) == [provider |-> p, model |-> m, malformed |-> bad]
FastCalls ==
  {[action |-> a, all |-> all, target |-> t, fails |-> f] :
     a \in {"on", "off"}, all \in BOOLEAN, f \in BOOLEAN,
     t \in {Target("OpenAI", "gpt ", FALSE), Target("openai", "mini", FALSE), Target(" ", "gpt", FALSE)}}
  \cup {[action |-> "restart"],
        [action |-> "status", all |-> TRUE, target |-> Target(" ", " ", FALSE), fails |-> FALSE]}
FewCalls == {c \in FastCalls : c.action \in {"restart", "status"} \/ ~c.all \/ c.action = "off"}

ASSUME FastModeFollowsTheCalls ==
  \A steps \in UNION {[1..n -> FewCalls] : n \in 0..3} :
    \A model \in {"gpt", "mini"} : Fast!LastWordCounts(steps, "openai", model)

SwitchFiles ==
  UNION {[1..n -> [provider : {"OpenAI", "openai", "zai", " "},
                   models : {<<>>, <<<<"gpt ", TRUE>>>>, <<<<"gpt", FALSE>>, <<"mini", TRUE>>>>, <<<<" ", TRUE>>>>}]] : n \in 0..2}
ASSUME SavedSwitchesReadBack == \A file \in SwitchFiles : Fast!SavedReadsBack(file)

FastProvider(p, s) == [provider |-> p, settings |-> s]
FastFiles ==
  {Fast!NoFile, Fast!InvalidFile} \cup
  {[given |-> g, providers |-> ps] :
     g \in {<<>>, [enabled |-> TRUE], [enabled |-> FALSE]},
     ps \in {<<>>} \cup
            {<<FastProvider(p, ("models" :> ms) @@ ("agents" :> {"Coder"}))>> : p \in {"OpenAI", "openai"}, ms \in {{}, {"gpt ", "mini"}}} \cup
            {<<FastProvider("openai", [enabled |-> FALSE]), FastProvider("OpenAI", [models |-> {"mini"}])>>}}
FastStates == {<<>>, ("openai" :> {"gpt"}), ("openai" :> {"gpt", "mini"})}
FastRequests ==
  [provider : {"OpenAI", "openai ", " "}, model : {"gpt", "gpt ", "mini"}, agent : {"Coder"}]
ASSUME FastModeNeedsBoth ==
  \A g, p \in FastFiles, state \in FastStates, r \in FastRequests : Fast!BothAgree(g, p, state, r)
ASSUME ProjectOverrulesFastMode ==
  \A g \in FastFiles, p \in FastFiles \ {Fast!NoFile, Fast!InvalidFile}, state \in FastStates, r \in FastRequests :
    Fast!ProjectOverrules(g, p, state, r)
-----------------------------------------------------------------------------
(* Three lines of five characters, a day of twelve minutes.                *)
Hooks == INSTANCE SessionHooks WITH
  Trim <- Trimmed, Fingerprint <- LAMBDA s : IF s = "again?" THEN 1 ELSE 2, AsksPermission <- LAMBDA s : s = "allow?",
  ValidZones <- {"UTC", "east"}, SystemZone <- "local", MinutesAhead <- LAMBDA z : IF z = "east" THEN 5 ELSE 0,
  Day <- 12, DEDUP_TTL_MS <- 3, SHORT_TTL_MS <- 1,
  MAX_OUTPUT_CHARS <- 6, MAX_OUTPUT_LINES <- 4, DEFAULT_MAX_OUTPUT_TOKENS <- 3, MinChars <- 4, NoteChars <- 2,
  COMPACTION_COOLDOWN_MS <- 2, MIN_TOKENS_TO_CHECK <- 1, Callers <- 1..2, Clock <- 5

Clocks == -1..11
ASSUME QuietHoursAreOne ==
  /\ \A s, e \in 0..11, minute \in 0..11 : s # e => Hooks!QuietHoursAreOneStretch([start |-> s, end |-> e], minute)
  /\ \A s, e \in Clocks : Hooks!parseQuietHoursWindow(<<s, e>>, "gone") = <<>> <=> s = e \/ -1 \in {s, e}

Routes == [root : {"", " ", "r"}, child : {"", "r", "c"}, task : {"", " ", "c"}]
Asked ==
  [sessionID : {"s"}, callID : {"", "1", " "}, tool : {""}, source : {""}, kind : {"", "plan"},
   questionText : {"", "again?", "allow?"}, route : {r \in Routes : " " \notin {r.root, r.task}}]
Ready == [sessionID : {"s"}, source : {" ", "idle"}, route : Routes]
Ran == [sessionID : {"s"}, callID : {"1"}, tool : {"task", "doctor", "read"}, status : {"ok", "warn", "error"}]
Notices ==
  {Hooks!getInputNeededNotification(a) : a \in Asked} \cup {Hooks!getSessionReadyNotification(r) : r \in Ready}
Tellings ==
  [enabled : BOOLEAN, log : BOOLEAN, toast : BOOLEAN, desktop : BOOLEAN, notifier : BOOLEAN,
   quietHours : {<<>>, <<10, 2>>}, timezone : {"", "east"}, privacy : {"strict", "balanced"}]
ASSUME NoticesAreTold ==
  /\ \A n \in Notices : Hooks!RouteIsToldAlike(n)
  /\ \A a, b \in {c \in Asked : c.callID # " "} : a.source = b.source => Hooks!KeysTellApart(a, b)
  /\ \A n \in Notices \cup UNION {ToSet(Hooks!getNotificationMessage(r)) : r \in Ran},
        o \in {t \in Tellings : t.enabled /\ t.quietHours = <<>> /\ t.timezone = ""} : Hooks!StrictLogIsTerse(n, o)

Repeated ==
  {Hooks!getSessionReadyNotification([sessionID |-> "s", source |-> "", route |-> Hooks!NoRoute]),
   Hooks!getNotificationMessage([sessionID |-> "s", callID |-> "1", tool |-> "task", status |-> ""])[1]}
ASSUME NoticesAreNotRepeated ==
  \A ns \in [1..3 -> Repeated], gaps \in [1..3 -> {0, 1, 2, 4}], o \in {t \in Tellings : t.privacy = "strict" /\ (t.log <=> t.toast)} :
    LET at(i) == FoldLeft(LAMBDA a, b : a + b, 0, SubSeq(gaps, 1, i))
    IN Hooks!ToldOncePerTime([i \in 1..3 |-> [notice |-> ns[i], now |-> at(i), minute |-> at(i)]], o)
-----------------------------------------------------------------------------
Outputs == UNION {[1..n -> {0, 1, 3, 8}] : n \in 1..5}
Turns == UNION {[1..n -> [assistant : BOOLEAN, tokens : {0, 2, 5}]] : n \in 0..3}
ASSUME OutputsAreCut ==
  /\ \A lines \in Outputs, max \in {4, 6, 12} : Hooks!CutsAreNoted(lines, max) /\ Hooks!CutsFit(lines, max)
  /\ \A turns \in Turns : \A ratio \in {0, 50, 99} : Hooks!WindowsOnlyFill(turns, 8, ratio)
  /\ \A tool \in {"truncatable", "edit", "task"}, b, e \in BOOLEAN, lines \in {<<0>>, <<3, 3, 3, 3, 8>>}, turns \in {<<>>, <<[assistant |-> TRUE, tokens |-> 8]>>} :
       Hooks!OthersAreWhole([tool |-> tool, background |-> b], [lines |-> lines, editError |-> e, blank |-> lines = <<0>>], turns, 8)

CompactionStates == Hooks!CompactionsWithin(24)
ASSUME SummariesAreApart ==
  \A m \in CompactionStates :
    /\ Hooks!OneSummaryAtATime(m) /\ Hooks!MarksAreHeard(m) /\ Hooks!ChecksKeepTheirDistance(m)
    /\ Hooks!CompactionSteps(m) \subseteq CompactionStates
=============================================================================
