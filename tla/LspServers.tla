------------------------------ MODULE LspServers ------------------------------
(***************************************************************************)
(* Which language server answers for a file, lsp/src/config.ts.  `configs' *)
(* are the entries of the three files, in the order of Sources; a file     *)
(* that is not there or not JSON has none.  The commands Installed are on  *)
(* the machine, the Fetchable ones are fetched when a file needs them,     *)
(* which fails for those Unreachable; a list of the servers fetches none.  *)
(***************************************************************************)
EXTENDS Integers, Sequences, FiniteSets, SequencesExt, TLC

CONSTANTS BuiltIn,        \* sequence of [id, command, extensions]
          Installed, Fetchable, Unreachable

Sources == <<"project", "user", "opencode">>
NoCommand == "none"

(* An entry in the order in which the files are read, with its source.     *)
Entries(configs) ==
  FlattenSeq([s \in DOMAIN Sources |->
    [i \in DOMAIN configs[s] |-> [entry |-> configs[s][i], source |-> s]]])

Server(entry, source) ==
  [id |-> entry.id, command |-> entry.command, extensions |-> entry.extensions,
   priority |-> entry.priority, source |-> source]

Disabled(configs) ==
  {e.entry.id : e \in {d \in ToSet(Entries(configs)) : d.entry.disabled}}

(* Sorting is stable: equal servers stay in the order they were found.     *)
getMergedServers(configs) ==
  LET entries == Entries(configs)
      usable == SelectSeq(entries, LAMBDA e : /\ ~e.entry.disabled /\ e.entry.command # NoCommand
                                              /\ e.entry.extensions # {})
      first == SelectSeq([i \in DOMAIN usable |-> i],
                 LAMBDA i : \A j \in 1..(i-1) : usable[j].entry.id # usable[i].entry.id)
      own == [k \in DOMAIN first |-> Server(usable[first[k]].entry, usable[first[k]].source)]
      builtin == SelectSeq(BuiltIn, LAMBDA b : /\ b.id \notin Disabled(configs)
                                               /\ \A k \in DOMAIN own : own[k].id # b.id)
      all == own \o [i \in DOMAIN builtin |-> Server(builtin[i] @@ [priority |-> -100], 3)]
      order == SortSeq([i \in DOMAIN all |-> i], LAMBDA i, j :
                 IF all[i].source # all[j].source THEN all[i].source < all[j].source
                 ELSE IF all[i].priority # all[j].priority THEN all[i].priority > all[j].priority
                 ELSE i < j)
  IN [k \in DOMAIN order |-> all[order[k]]]

isServerInstalled(command) == command \in Installed \cup Fetchable
resolveCommand(command) == command \in Installed \cup (Fetchable \ Unreachable)

findServerForExtension(configs, ext) ==
  LET servers == getMergedServers(configs)
      candidates == SelectSeq(servers, LAMBDA s : ext \in s.extensions)
      startable == SelectSeq(candidates, LAMBDA s : resolveCommand(s.command))
  IN IF startable # <<>> THEN [status |-> "found", server |-> startable[1].id]
     ELSE IF candidates # <<>> THEN [status |-> "not_installed", server |-> candidates[1].id]
     ELSE [status |-> "not_configured", server |-> ""]

getAllServers(configs) ==
  LET servers == getMergedServers(configs)
      rest == Disabled(configs) \ {servers[i].id : i \in DOMAIN servers}
      builtin(id) == {b \in ToSet(BuiltIn) : b.id = id}
      line(id) == [id |-> id, source |-> "disabled", disabled |-> TRUE,
                   installed |-> \E b \in builtin(id) : isServerInstalled(b.command)]
  IN {[id |-> servers[i].id, source |-> Sources[servers[i].source], disabled |-> FALSE,
       installed |-> isServerInstalled(servers[i].command)] : i \in DOMAIN servers} \cup {line(id) : id \in rest}
-----------------------------------------------------------------------------
(* A server that is used is one that is listed as not disabled and as      *)
(* installed; each is listed once, and none is missing from the list.      *)
ListIsTrue(configs, ext) ==
  LET all == getAllServers(configs)
      found == findServerForExtension(configs, ext)
  IN /\ found.status = "found" =>
          \E l \in all : l.id = found.server /\ ~l.disabled /\ l.installed
     /\ Cardinality({l.id : l \in all}) = Cardinality(all)
     /\ {l.id : l \in all} \subseteq {b.id : b \in ToSet(BuiltIn)} \cup {e.entry.id : e \in ToSet(Entries(configs))}
     /\ {b.id : b \in ToSet(BuiltIn)} \subseteq {l.id : l \in all}

(* A file nearer to the project is followed first, and a server that is    *)
(* disabled and that no other entry brings back is not used.  An entry     *)
(* that disables a server does not hide another file's entry for it.       *)
NearestWins(configs, ext) ==
  LET servers == getMergedServers(configs)
      found == findServerForExtension(configs, ext)
      Brings(s, id) == \E i \in DOMAIN configs[s] :
        /\ configs[s][i].id = id /\ ~configs[s][i].disabled
        /\ configs[s][i].command # NoCommand /\ configs[s][i].extensions # {}
  IN /\ \A i \in DOMAIN servers : \A s \in DOMAIN Sources :
          Brings(s, servers[i].id) => servers[i].source <= s
     /\ \A id \in Disabled(configs) :
          (\A s \in DOMAIN Sources : ~Brings(s, id)) => \A i \in DOMAIN servers : servers[i].id # id
     /\ found.status = "found" =>
          \A i \in DOMAIN servers :
            resolveCommand(servers[i].command) /\ ext \in servers[i].extensions =>
              \A k \in DOMAIN servers : servers[k].id = found.server =>
                servers[k].source < servers[i].source
                \/ (servers[k].source = servers[i].source /\ servers[k].priority >= servers[i].priority)
=============================================================================
