------------------------------ MODULE Installer ------------------------------
(***************************************************************************)
(* The installer, src/packages/install/src/index.ts: runs of main() over   *)
(* the files of the user's configuration directory.  Between the prompts   *)
(* the user may edit a file; between any two steps a run may be killed.    *)
(* Left out: --dry-run, which writes nothing, the directories of templates *)
(* copied, the catalogue of models, what is printed.                       *)
(***************************************************************************)
EXTENDS Integers, Functions

CONSTANTS
  NoFile, Mangled, Torn, \* no file; text that is not JSON; a write that was cut off
  Disks,                 \* what the first run finds
  Edits,                 \* <<file, content>> a user may write meanwhile
  Answers,               \* what the user chooses in a run
  MaxRuns, MaxEdits      \* bounds

ConfigFiles == {"config", "workspace", "tui"}  \* opencode.json, workspace.json, tui.json
Catalog == {"linear", "mcp0"}            \* MCP servers on offer
AllAgents == {"build"}

VARIABLES
  file,        \* the three files
  backups,     \* what there is a copy of, among the contents in `mine'
  pointer,     \* the index and checksum in .mcp-pointer: the run that wrote each, 0 if none
  downstream,  \* servers in mcp0/mcp_servers.json
  run,         \* the run under way, or the last one
  runs, edits,
  mine,        \* <<file, content>>: what the user wrote last
  exposed      \* what has no copy as copying failed, or was written during a run

vars == <<file, backups, pointer, downstream, run, runs, edits, mine, exposed>>

Parsed(c) == c \notin {NoFile, Mangled, Torn}
ParseError(c) == c \in {Mangled, Torn}
Data(c) == IF Parsed(c) THEN c ELSE NoFile

-----------------------------------------------------------------------------
(* mergeConfig.  Settings are a function from names to values.             *)

Empty == [plugin |-> {}, mcp |-> <<>>, tools |-> <<>>, agent |-> <<>>, keys |-> <<>>, skills |-> {}]
Preserved == {"provider", "model", "small_model", "default_agent", "compaction", "permission"}

(* The existing object, or a new one with the settings that even a         *)
(* replacement keeps; the path of the old skill vault goes.                *)
Base(existing, original) ==
  LET base == IF existing # NoFile THEN existing
              ELSE IF original # NoFile
                   THEN [original EXCEPT !.keys = Restrict(@, DOMAIN @ \cap Preserved)]
                   ELSE Empty
  IN [base EXCEPT !.skills = @ \ {"vault"}]

(* Where both have a value, that of f wins.                                *)
Over(f, g) == [x \in DOMAIN f \cup DOMAIN g |-> IF x \in DOMAIN f THEN f[x] ELSE g[x]]

(* Mutant of Joined: the installer's values win.                           *)
JoinedOver(old, new) == Over(new, old)
Joined(old, new) == Over(old, new)

NewAgent == [tools |-> <<>>, model |-> "none"]

AgentEntry(old, ans) ==
  [tools |-> Joined(old.tools, [m \in ans.mcps |-> TRUE]),
   model |-> IF old.model = "none" /\ ans.models = "agents" THEN "chosen" ELSE old.model]

MergedAgents(agent, ans) ==
  [a \in DOMAIN agent \cup AllAgents |->
     IF a \notin AllAgents THEN agent[a]
     ELSE AgentEntry(IF a \in DOMAIN agent THEN agent[a] ELSE NewAgent, ans)]

Defaults(ans) ==
  [k \in {"compaction"} \cup (IF ans.models = "global" THEN {"model"} ELSE {}) |-> "chosen"]

mergeConfig(existing, original, ans) ==
  LET base == Base(existing, original)
  IN [base EXCEPT
        !.plugin = @ \cup ans.plugins,
        !.mcp = Joined(@, [m \in ans.mcps |-> "catalog"]),
        !.tools = Joined(@, [m \in ans.mcps |-> FALSE]),
        !.agent = MergedAgents(@, ans),
        !.keys = Joined(@, Defaults(ans))]

FacadeMode(ans) == "mcp0" \in ans.mcps

(* applyMcp0FacadeMode: of servers and tool switches only mcp0's stay, and *)
(* the agents lose the switches that were named in either.                 *)
applyMcp0FacadeMode(c) ==
  LET removed == (DOMAIN c.tools \cup DOMAIN c.mcp) \ {"mcp0"}
  IN [c EXCEPT
        !.mcp = [m \in {"mcp0"} |-> "catalog"],
        !.tools = Over(Restrict(@, DOMAIN @ \cap {"mcp0"}), [m \in {"mcp0"} |-> FALSE]),
        !.agent = [a \in DOMAIN c.agent |->
                     [c.agent[a] EXCEPT !.tools = Restrict(@, DOMAIN @ \ removed)]]]

Installed(existing, original, ans) ==
  LET merged == mergeConfig(existing, original, ans)
  IN IF FacadeMode(ans) THEN applyMcp0FacadeMode(merged) ELSE merged

mergeWorkspaceConfig(existing) ==
  Joined(IF existing = NoFile THEN <<>> ELSE existing, [mcpPointer |-> "on", features |-> "default"])

mergeTuiConfig(existing, ans) ==
  (IF existing = NoFile THEN {} ELSE existing) \cup (ans.plugins \cap {"delegation"})

shouldConfigureTui(ans) == "delegation" \in ans.plugins
-----------------------------------------------------------------------------
NoAnswers == [plugins |-> {}, mcps |-> {}, models |-> "none"]
Nothing == [f \in ConfigFiles |-> NoFile]
Rest == [step |-> "idle", read |-> Nothing, existing |-> NoFile, ans |-> NoAnswers,
         new |-> Nothing, previous |-> [index |-> 0, sum |-> 0]]

Init ==
  /\ file \in Disks
  /\ backups = {} /\ exposed = {}
  /\ pointer = [index |-> 0, sum |-> 0] /\ downstream = {}
  /\ run = Rest /\ runs = 0 /\ edits = 0
  /\ mine = {<<f, file[f]>> : f \in {g \in ConfigFiles : file[g] # NoFile}}

At(step) == run.step = step
Go(step) == run' = [run EXCEPT !.step = step]
artifacts == <<pointer, downstream>>
tally == <<runs, edits>>

(* backupConfigFile: any error gives null, and the installer goes on.      *)
BackUp(f) ==
  LET copied == mine \cap {<<f, file[f]>>}
  IN \/ backups' = backups \cup copied /\ UNCHANGED exposed
     \/ exposed' = exposed \cup copied /\ UNCHANGED backups

(* Mutant of KeepCopy: nothing is copied.                                  *)
NoCopy(f) == UNCHANGED <<backups, exposed>>
KeepCopy(f) == BackUp(f)

Begin ==
  /\ run.step \in {"idle", "finished"} /\ runs < MaxRuns
  /\ run' = [Rest EXCEPT !.step = "opened", !.read = file]
  /\ runs' = runs + 1
  /\ UNCHANGED <<file, backups, artifacts, edits, mine, exposed>>

Cancel ==
  /\ run.step \in {"opened", "decide", "answers"}
  /\ At("opened") => ~Parsed(run.read["config"])
  /\ run' = Rest
  /\ UNCHANGED <<file, backups, artifacts, tally, mine, exposed>>

(* A malformed config is copied once the user agrees to replace it.        *)
ReplaceMalformed ==
  /\ At("opened") /\ ParseError(run.read["config"])
  /\ KeepCopy("config") /\ Go("workspace")
  /\ UNCHANGED <<file, artifacts, tally, mine>>

(* A valid one is copied before the user is asked anything.                *)
CopyConfig ==
  /\ At("opened") /\ Parsed(run.read["config"])
  /\ KeepCopy("config") /\ Go("decide")
  /\ UNCHANGED <<file, artifacts, tally, mine>>

Decide ==
  /\ At("decide")
  /\ \E existing \in {run.read["config"], NoFile} :
       run' = [run EXCEPT !.step = "workspace", !.existing = existing]
  /\ UNCHANGED <<file, backups, artifacts, tally, mine, exposed>>

NoConfig ==
  /\ At("opened") /\ run.read["config"] = NoFile
  /\ Go("workspace")
  /\ UNCHANGED <<file, backups, artifacts, tally, mine, exposed>>

CheckWorkspace ==
  /\ At("workspace")
  /\ IF ParseError(run.read["workspace"]) THEN KeepCopy("workspace")
     ELSE UNCHANGED <<backups, exposed>>
  /\ Go("answers")
  /\ UNCHANGED <<file, artifacts, tally, mine>>

(* Components, plugins, servers and models; tui.json is copied when it is  *)
(* malformed and will be written.                                          *)
Answer(ans) ==
  /\ At("answers")
  /\ IF shouldConfigureTui(ans) /\ ParseError(run.read["tui"]) THEN KeepCopy("tui")
     ELSE UNCHANGED <<backups, exposed>>
  /\ run' = [run EXCEPT !.step = "merge", !.ans = ans]
  /\ UNCHANGED <<file, artifacts, tally, mine>>

(* Everything to be written is computed from what was read at the start;   *)
(* in facade mode the binary of mcp0 has to be there or to arrive.         *)
Merge ==
  /\ At("merge")
  /\ \/ run' = [run EXCEPT !.step = "templates", !.read = Nothing, !.existing = NoFile, !.new =
          [config |-> Installed(run.existing, Data(run.read["config"]), run.ans),
           workspace |-> mergeWorkspaceConfig(Data(run.read["workspace"])),
           tui |-> IF shouldConfigureTui(run.ans)
                   THEN mergeTuiConfig(Data(run.read["tui"]), run.ans) ELSE NoFile]]
     \/ FacadeMode(run.ans) /\ run' = Rest
  /\ UNCHANGED <<file, backups, artifacts, tally, mine, exposed>>

PointerEnabled == run.new["workspace"].mcpPointer # "off"

CopyTemplates ==
  /\ At("templates")
  /\ \/ Go(IF PointerEnabled THEN "index" ELSE "downstream")
     \/ run' = Rest
  /\ UNCHANGED <<file, backups, artifacts, tally, mine, exposed>>

-----------------------------------------------------------------------------
(* installMcpPointerArtifacts: index and checksum are renamed into place   *)
(* one after the other and then validated.                                 *)

Disabled == [run EXCEPT !.step = "downstream", !.new["workspace"].mcpPointer = "off"]

(* Mutant of Fallback: the workspace config keeps the pointer enabled.     *)
FallbackEnabled == run' = [run EXCEPT !.step = "downstream"]
Fallback == run' = Disabled

WriteIndex ==
  /\ At("index")
  /\ \/ /\ pointer' = [pointer EXCEPT !.index = runs]
        /\ run' = [run EXCEPT !.step = "sum", !.previous = pointer]
     \/ /\ run' = [run EXCEPT !.step = "restore", !.previous = pointer]
        /\ UNCHANGED pointer
     \/ Fallback /\ UNCHANGED pointer
  /\ UNCHANGED <<file, backups, downstream, tally, mine, exposed>>

WriteSum ==
  /\ At("sum")
  /\ \/ pointer' = [pointer EXCEPT !.sum = runs] /\ Go("validate")
     \/ Go("restore") /\ UNCHANGED pointer
  /\ UNCHANGED <<file, backups, downstream, tally, mine, exposed>>

Validate ==
  /\ At("validate")
  /\ \/ pointer.index = pointer.sum /\ Go("downstream")
     \/ Go("restore")
     \/ Fallback
  /\ UNCHANGED <<file, backups, artifacts, tally, mine, exposed>>

(* The former files come back if both were there; otherwise what is there  *)
(* goes.  Each of the two steps may fail.                                  *)
Former(part) ==
  IF run.previous.index # 0 /\ run.previous.sum # 0 THEN run.previous[part] ELSE 0

Restore ==
  /\ run.step \in {"restore", "restoreSum"}
  /\ LET part == IF At("restore") THEN "index" ELSE "sum"
     IN \/ /\ pointer' = [pointer EXCEPT ![part] = Former(part)]
           /\ IF At("restore") THEN Go("restoreSum") ELSE Fallback
        \/ Fallback /\ UNCHANGED pointer
  /\ UNCHANGED <<file, backups, downstream, tally, mine, exposed>>

-----------------------------------------------------------------------------
(* The files proper.  Each is rewritten in place: a write that fails or is *)
(* cut off leaves part of it, and ends the run.                            *)

WriteDownstream ==
  /\ At("downstream")
  /\ IF FacadeMode(run.ans)
     THEN \/ downstream' = run.ans.mcps \ {"mcp0"} /\ Go("config")
          \/ downstream' = {} /\ run' = Rest
     ELSE Go("config") /\ UNCHANGED downstream
  /\ UNCHANGED <<file, backups, pointer, tally, mine, exposed>>

After(f) == CASE f = "config" -> "workspace.json"
              [] f = "workspace" -> IF run.new["tui"] = NoFile THEN "finished" ELSE "tui"
              [] f = "tui" -> "finished"

StepOf(f) == IF f = "workspace" THEN "workspace.json" ELSE f

WriteFile(f) ==
  /\ At(StepOf(f))
  /\ \/ file' = [file EXCEPT ![f] = run.new[f]] /\ Go(After(f))
     \/ file' = [file EXCEPT ![f] = Torn] /\ run' = Rest
  /\ UNCHANGED <<backups, artifacts, tally, mine, exposed>>

Killed ==
  /\ run.step \notin {"idle", "finished"}
  /\ run' = Rest
  /\ UNCHANGED <<file, backups, artifacts, tally, mine, exposed>>

Others(contents, f) == {m \in contents : m[1] # f}

(* The user writes a file: at rest, or in another window while the         *)
(* installer asks.  Then nothing reads it again.                           *)
Edit(f, c) ==
  /\ run.step \in {"idle", "finished", "opened", "decide", "workspace", "answers"}
  /\ edits < MaxEdits /\ c # file[f]
  /\ file' = [file EXCEPT ![f] = c]
  /\ edits' = edits + 1
  /\ mine' = Others(mine, f) \cup {<<f, c>>}
  /\ backups' = Others(backups, f)
  /\ IF run.step \in {"idle", "finished"}
     THEN run' = Rest /\ exposed' = Others(exposed, f)
     ELSE exposed' = Others(exposed, f) \cup {<<f, c>>} /\ UNCHANGED run
  /\ UNCHANGED <<artifacts, runs>>

Next ==
  \/ Begin \/ Cancel \/ ReplaceMalformed \/ CopyConfig \/ Decide \/ NoConfig
  \/ CheckWorkspace \/ (\E ans \in Answers : Answer(ans)) \/ Merge \/ CopyTemplates
  \/ WriteIndex \/ WriteSum \/ Validate \/ Restore \/ WriteDownstream
  \/ (\E f \in ConfigFiles : WriteFile(f)) \/ Killed
  \/ (\E e \in Edits : Edit(e[1], e[2]))

Spec == Init /\ [][Next]_vars
-----------------------------------------------------------------------------
Steps == {"idle", "opened", "decide", "workspace", "answers", "merge", "templates", "index", "sum",
          "validate", "restore", "restoreSum", "downstream", "config", "workspace.json", "tui", "finished"}

(* Files have contents, versions are of runs, the run is at a known step.  *)
TypeOK ==
  /\ DOMAIN file = ConfigFiles /\ DOMAIN run.read = ConfigFiles
  /\ \A p \in {"index", "sum"} : pointer[p] \in 0..runs
  /\ downstream \subseteq Catalog
  /\ run.step \in Steps /\ runs \in 0..MaxRuns /\ edits \in 0..MaxEdits
  /\ \A m \in mine \cup backups \cup exposed : m[1] \in ConfigFiles

(* "ALWAYS create backup before any changes" (index.ts:1559): what a user  *)
(* wrote into opencode.json, and what a user wrote into either other file  *)
(* that cannot be parsed, is in the file or in a copy, after any sequence  *)
(* of runs, failures and kills, unless the copy itself failed or it was    *)
(* written during a run, which reads the files before its prompts.         *)
UserFilesKept ==
  \A m \in mine :
    (m[1] = "config" \/ m[2] = Mangled) =>
       file[m[1]] = m[2] \/ m \in backups \cup exposed

(* A run that gets to its end leaves a whole installation: complete files  *)
(* with the plugins chosen; an MCP pointer that is enabled has an index    *)
(* and a checksum of this run; in facade mode mcp0 is the only server and  *)
(* the others chosen are behind it.                                        *)
FinishedIsWhole ==
  At("finished") =>
    /\ Parsed(file["config"]) /\ run.ans.plugins \subseteq file["config"].plugin
    /\ Parsed(file["workspace"])
    /\ file["workspace"].mcpPointer = "on" => pointer.index = runs /\ pointer.sum = runs
    /\ shouldConfigureTui(run.ans) => Parsed(file["tui"]) /\ "delegation" \in file["tui"]
    /\ FacadeMode(run.ans) => /\ DOMAIN file["config"].mcp = {"mcp0"}
                              /\ run.ans.mcps \ {"mcp0"} = downstream

-----------------------------------------------------------------------------
(* What mergeConfig promises ("Preserves your settings, adds op1           *)
(* components", index.ts:1576), for the instances to check.                *)

(* Every setting of the old config is in the new one with its value.       *)
Extends(new, old) == DOMAIN old \subseteq DOMAIN new /\ \A k \in DOMAIN old : new[k] = old[k]

KeepsAgents(new, old) ==
  \A a \in DOMAIN old : /\ a \in DOMAIN new
                        /\ Extends(new[a].tools, old[a].tools)
                        /\ old[a].model # "none" => new[a].model = old[a].model

KeepsSettings(new, old, names) ==
  /\ old.plugin \subseteq new.plugin /\ old.skills \ {"vault"} = new.skills
  /\ Extends(new.mcp, old.mcp) /\ Extends(new.tools, old.tools)
  /\ KeepsAgents(new.agent, old.agent)
  /\ Extends(new.keys, Restrict(old.keys, DOMAIN old.keys \cap names))
=============================================================================
