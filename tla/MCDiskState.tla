---------------------------- MODULE MCDiskState ------------------------------
(***************************************************************************)
(* What op1 keeps on the disk where several runs, kills and people meet    *)
(* it: the code index, the installed configuration, the worktrees and the  *)
(* modes of sessions, and the tasks of a manager.  They share no file, so  *)
(* a behaviour exercises one of them, the part chosen at the start, and    *)
(* the states are the sum of theirs.                                       *)
(***************************************************************************)
EXTENDS CodeIndex, Sequences, TLC

CONSTANTS
  NoFile, Mangled, Torn, Disks, Edits, Answers, MaxRuns, MaxEdits,  \* of Installer
  Words, Values,                       \* names and values in the installer's files
  Owners, Calls, Names, None, MaxTools, MaxChanges,                 \* of Worktrees
  Keys, MaxMutations,                                               \* of SessionModes
  Agents, Editors, Own, MaxContinuations, MaxEvents                 \* of Assignments

VARIABLES
  file, backups, pointer, downstream, run, runs, edits, mine, exposed,        \* of Installer
  tree, ignored, branches, tracked, entered, call, tools, changes, gone, cut, \* of Worktrees
  modes, copy, mutation, possible, mutations, forgotten,                      \* of SessionModes
  record, worktree, branch, rootDirty, actor, ended,                          \* of Assignments
  continuations, events, unreviewed, gate,
  part

installation == <<file, backups, pointer, downstream, run, runs, edits, mine, exposed>>
worktrees == <<tree, ignored, branches, tracked, entered, call, tools, changes, gone, cut>>
continuation == <<modes, copy, mutation, possible, mutations, forgotten>>
assignment == <<record, worktree, branch, rootDirty, actor, ended, continuations, events, unreviewed, gate>>

I == INSTANCE Installer
W == INSTANCE Worktrees
M == INSTANCE SessionModes
A == INSTANCE Assignments WITH Actors <- Calls
E == INSTANCE AnchoredEdit
Scout == INSTANCE ContextScout

DiskInit ==
  /\ part \in {"index", "installer", "worktrees", "modes", "assignment"}
  /\ Init /\ (part # "index" => cache = Empty)
  /\ I!Init /\ (part # "installer" => file = I!Nothing)
  /\ W!Init /\ M!Init
  /\ A!Init /\ (record.bg <=> part # "assignment")

DiskNext ==
  /\ UNCHANGED part
  /\ \/ part = "index" /\ Next /\ UNCHANGED <<installation, worktrees, continuation, assignment>>
     \/ part = "installer" /\ I!Next /\ UNCHANGED <<vars, worktrees, continuation, assignment>>
     \/ part = "worktrees" /\ W!Next /\ UNCHANGED <<vars, installation, continuation, assignment>>
     \/ part = "modes" /\ M!Next /\ UNCHANGED <<vars, installation, worktrees, assignment>>
     \/ part = "assignment" /\ A!Next /\ UNCHANGED <<vars, installation, worktrees, continuation>>

DiskSpec == DiskInit /\ [][DiskNext]_<<part, vars, installation, worktrees, continuation, assignment>>
(* A file that is not there or was cut off is none of those with contents, *)
(* and "no branch" is none of the branches.  The installer finds a file or *)
(* none under each name, a user writes files, and the prompts offer the    *)
(* catalogue.  Only editors work in worktrees, and reviewers are no        *)
(* editors (isWorktreeEligibleAgent).                                      *)
ASSUME DiskAssumption ==
  /\ NoFile # Torn /\ {NoFile, Torn} \cap M!Contents = {}
  /\ None \notin Names
  /\ MaxMutations \in Nat /\ MaxTools \in Nat /\ MaxChanges \in Nat /\ MaxContinuations \in Nat
  /\ MaxRuns \in Nat /\ MaxEdits \in Nat
  /\ \A found \in Disks : DOMAIN found = I!ConfigFiles
  /\ \A e \in Edits : e[1] \in I!ConfigFiles /\ e[2] # NoFile
  /\ \A ans \in Answers : ans.mcps \subseteq I!Catalog
  /\ Own \in Editors /\ Editors \subseteq Agents \ {"reviewer"}

(* What the installer's files may hold: settings under names, each kind of *)
(* its own words.                                                          *)
Settings(names, values) == UNION {[S -> values] : S \in SUBSET names}
AgentSettings == [tools : Settings(Words.tools, BOOLEAN), model : Values]
Contents(f) ==
  CASE f = "config" ->
         [plugin : SUBSET Words.plugin, mcp : Settings(Words.mcp, Values), tools : Settings(Words.tools, BOOLEAN),
          agent : Settings(Words.agent, AgentSettings), keys : Settings(Words.keys, Values),
          skills : SUBSET Words.skills]
    [] f = "workspace" -> Settings(Words.workspace, Values)
    [] f = "tui" -> SUBSET Words.plugin

(* A missing, a mangled and a cut-off file hold none of this; what the     *)
(* first run finds and what users write is of this kind or mangled; and    *)
(* the words of the installer are among the words.                         *)
ASSUME ContentsAssumption ==
  /\ {NoFile, Mangled, Torn} \cap Contents("config") = {}
  /\ {NoFile, Mangled, Torn} \cap Contents("workspace") = {}
  /\ \A c \in Contents("tui") : c \notin {NoFile, Mangled, Torn}
  /\ \A f \in I!ConfigFiles :
       /\ \A found \in Disks : found[f] \in {NoFile, Mangled} \/ found[f] \in Contents(f)
       /\ \A e \in Edits : e[1] = f => e[2] = Mangled \/ e[2] \in Contents(f)
  /\ \A ans \in Answers : ans.plugins \subseteq Words.plugin
  /\ I!Catalog \subseteq Words.mcp \cap Words.tools /\ I!AllAgents \subseteq Words.agent
  /\ {"compaction", "model"} \subseteq Words.keys /\ {"mcpPointer", "features"} \subseteq Words.workspace
  /\ {"catalog", "chosen", "none", "on", "off", "default"} \subseteq Values
-----------------------------------------------------------------------------
(* Every file differs between the first branch and the others.             *)
MCTrees == [b \in Branches |-> [f \in Files |-> IF b = Main THEN 1 ELSE 2]]

(* Members of these sets differ in nothing but their names.  TLC tries     *)
(* every composition of the permutations, so few of them are cheaper.      *)
Swap(S) == CHOOSE p \in Permutations(S) : \A x \in S : p[x] # x
Symmetry == Permutations(Calls) \cup {Swap(Runs) @@ Swap(Owners) @@ Swap(Names)}

(* A config that uses every kind of setting, another without op1, and the  *)
(* two other files as a user may leave them.                               *)
FullConfig ==
  [plugin |-> {"other"}, mcp |-> [own |-> "user"], tools |-> [bash |-> FALSE, linear |-> TRUE],
   agent |-> [build |-> [tools |-> [linear |-> FALSE], model |-> "user"],
              helper |-> [tools |-> <<>>, model |-> "none"]],
   keys |-> [provider |-> "user", compaction |-> "user", theme |-> "user"], skills |-> {"vault", "own"}]
PlainConfig ==
  [plugin |-> {}, mcp |-> [linear |-> "user", mcp0 |-> "user"], tools |-> <<>>, agent |-> <<>>,
   keys |-> [model |-> "user"], skills |-> {}]

MCDisks ==
  {[config |-> NoFile, workspace |-> NoFile, tui |-> NoFile],
   [config |-> FullConfig, workspace |-> [mcpPointer |-> "off", features |-> "user"], tui |-> Mangled],
   [config |-> Mangled, workspace |-> Mangled, tui |-> {"other"}]}

MCWords ==
  [plugin |-> {"other", "workspace", "delegation"}, mcp |-> {"own", "linear", "mcp0"},
   tools |-> {"bash", "linear", "mcp0"}, agent |-> {"build", "helper"},
   keys |-> {"provider", "compaction", "theme", "model"}, skills |-> {"vault", "own"},
   workspace |-> {"mcpPointer", "features"}]
MCValues == {"catalog", "chosen", "none", "on", "off", "default", "user"}

MCEdits == {<<"config", PlainConfig>>, <<"workspace", Mangled>>}

MCAnswers ==
  {[plugins |-> {"workspace", "delegation"}, mcps |-> {"linear"}, models |-> "agents"],
   [plugins |-> {"workspace"}, mcps |-> {"linear", "mcp0"}, models |-> "global"]}
-----------------------------------------------------------------------------
(* The invariants of the parts; a part that was not chosen stands still.   *)

(* Every variable has its type.                                            *)
TypesOK ==
  /\ part = "index" => TypeOK
  /\ part = "installer" => I!TypeOK
  /\ part = "worktrees" => W!TypeOK
  /\ part = "modes" => M!TypeOK
  /\ part = "assignment" => A!TypeOK

(* A user's files survive installations: see Installer.                    *)
UserFilesKept == part = "installer" => I!UserFilesKept

(* An installation that ends is whole: see Installer.                      *)
FinishedIsWhole == part = "installer" => I!FinishedIsWhole

(* Only forced deletions destroy changes: see Worktrees.                   *)
UnforcedKeepsWork == part = "worktrees" => W!UnforcedKeepsWork

(* Tables and directories agree: see Worktrees.                            *)
RowsMatchTrees == part = "worktrees" => W!RowsMatchTrees

(* A session's mode outlives errors and kills: see SessionModes.           *)
ModesKept == part = "modes" => M!ModesKept

(* A manager's task is over when it is reviewed: see Assignments.          *)
MergedIsReviewed == part = "assignment" => A!MergedIsReviewed

(* mergeConfig keeps every setting when it merges, and those it names when *)
(* it replaces; mcp0 has not yet taken the place of the other servers.     *)
ASSUME MergeKeepsSettings ==
  \A c \in {FullConfig, PlainConfig, I!Empty}, ans \in MCAnswers :
    /\ I!KeepsSettings(I!mergeConfig(c, c, ans), c, DOMAIN c.keys)
    /\ I!KeepsSettings(I!mergeConfig(NoFile, c, ans), c, I!Preserved)

(* A second installation with the same answers changes nothing.           *)
ASSUME MergeIsIdempotent ==
  \A c \in {FullConfig, PlainConfig, I!Empty}, ans \in MCAnswers :
    LET merged == I!Installed(c, c, ans)
        replaced == I!Installed(NoFile, c, ans)
    IN I!Installed(merged, merged, ans) = merged /\ I!Installed(NoFile, replaced, ans) = replaced
-----------------------------------------------------------------------------
(* Anchored edits of files of up to four lines.                            *)
TextsOf(lines, n) == UNION {[1..k -> lines] : k \in 1..n}
FewLines == {"", "a", "heading"}
MoreLines == {"", "a", "heading", "codeFence"}

(* An edit is accepted exactly when its lines and their neighbours are as  *)
(* they were read: a change of the file in between is noticed.             *)
ASSUME EditsAcceptedExactly ==
  \A read, now \in TextsOf(FewLines, 3), text \in {<<"">>, <<"a", "codeFence">>} :
    \A i \in DOMAIN read : \A j \in i..Len(read) : E!AcceptsExactly(read, now, i, j, text)

(* An accepted edit changes the lines it names and no other.               *)
ASSUME EditsReplaceOnly ==
  \A now \in TextsOf(MoreLines, 3), text \in TextsOf(MoreLines, 2) :
    \A i \in DOMAIN now : \A j \in i..Len(now) : E!ReplacesOnly(now, i, j, text)

(* Edits from one read, a line apart, do not depend on their order.        *)
ASSUME EditsCommute ==
  \A now \in TextsOf(FewLines, 4), textI, textJ \in {"", "c", "heading"} :
    \A i, j \in DOMAIN now : E!Commutes(now, i, j, textI, textJ)

(* A partial read anchors its first and last line as if nothing surrounded *)
(* them: an edit there is refused although nothing changed, unless the     *)
(* line beyond is empty or missing.                                        *)
ASSUME EdgesOfPartialReads ==
  \A now \in TextsOf({"", "a"}, 4) : \A first \in DOMAIN now : \A last \in first..Len(now) :
    LET anchors == E!enhanceReadOutputWithAnchors(now, first, last)
        Accepted(i) == E!executeHashAnchoredEdit(now, <<anchors[i]>>, <<"c">>).ok
    IN /\ Accepted(first) <=> E!LineAt(now, first - 1) = "" /\ (first < last \/ E!LineAt(now, last + 1) = "")
       /\ \A i \in first + 1 .. last - 1 : Accepted(i)
-----------------------------------------------------------------------------
(* Three searches in two files, some time apart, by any of the tools; the  *)
(* file "outside" is under no root.                                        *)
Found(text, f) == [kind |-> "match", text |-> text, file |-> f]
Outputs ==
  {<<tool, lines>> : tool \in {"grep", "ast_grep_search", "lsp_symbols"},
     lines \in {<<[kind |-> "path", file |-> "f"], [kind |-> "blank"], Found(<<"x", "plain">>, ""),
                  [kind |-> "snippet", text |-> <<"x", "upper">>, file |-> "f"],
                  [kind |-> "named", text |-> <<"x", "plain">>, file |-> "f"], Found(<<"y", "plain">>, "")>>,
                <<[kind |-> "path", file |-> "g"], Found(<<"x", "upper">>, ""), [kind |-> "other"],
                  Found(<<"z", "plain">>, ""), [kind |-> "snippet", text |-> <<"z", "plain">>, file |-> "outside"],
                  [kind |-> "path", file |-> "g"], Found(<<"w", "plain">>, ""),
                  [kind |-> "named", text |-> <<"w", "plain">>, file |-> ""]>>}}
    \cup {<<"glob", <<[kind |-> "path", file |-> "f"], [kind |-> "path", file |-> "outside"]>>>>}

Searched(store, output, now) == Scout!AfterSearch(store, output[1], output[2], {"f", "g"}, now)

(* The best patterns are shown, pruning is not seen and merging does not   *)
(* depend on the order, whatever was found and however long ago.           *)
ASSUME ScoutShowsTheBest ==
  \A one, two, three \in Outputs : \A wait, after \in {0, 3, 5} :
    LET store == Searched(Searched(Searched(<<>>, one, 0), two, wait), three, wait + after)
        now == wait + after
    IN /\ \A maxPatterns \in {1, 3}, later \in {now, now + 4} : Scout!ShowsTheBest(store, maxPatterns, later)
       /\ \A later \in {now + 1, now + 5} : Scout!PruningIsUnseen(store, now + 1, later)
       /\ Scout!MergesInAnyOrder(store)

(* A pattern is only in the store if a file under the roots had it.        *)
ASSUME ScoutKeepsToRoots ==
  \A one, two \in Outputs :
    LET store == Searched(Searched(<<>>, one, 0), two, 1)
    IN /\ \A i \in DOMAIN store : store[i].file \in {"f", "g"} /\ store[i].pattern # <<"z", "plain">>
       /\ \A i, j \in DOMAIN store : store[i].id = store[j].id => i = j
=============================================================================
