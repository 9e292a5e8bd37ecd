----------------------------- MODULE MCWorkbench -----------------------------
(***************************************************************************)
(* The pages of TalpaDB, OctoHub and Vulpes that share no state, in one    *)
(* run: a behaviour follows one of them, its focus, and the others rest.   *)
(***************************************************************************)
EXTENDS ExplorerTree, Stashes, WorkingChanges, TabGroups, DiagramLayout, RealtimeTabs, TLC

VARIABLE focus
benchVars ==
  <<focus, explorerVars, stashVars, changeVars, groupVars, diagramVars, realtimeVars>>

\* A server, its database, a schema and a group of it
NodeIds == {"s", "d", "n", "g"}
NodeParent == [i \in NodeIds |-> CASE i = "n" -> "d" [] i = "g" -> "n" [] OTHER -> "s"]
NodeKind ==
  [i \in NodeIds |-> CASE i = "s" -> "server" [] i = "d" -> "database" [] i = "n" -> "schema" [] OTHER -> "group"]

BenchInit ==
  /\ focus \in {"explorer", "stashes", "changes", "groups", "diagram", "realtime"}
  /\ ExplorerInit /\ ChangesInit /\ StashesInit
  /\ GroupsInit /\ DiagramInit /\ RealtimeInit
  /\ stream => focus = "realtime"
  /\ headed # {} => focus = "stashes"

BenchNext ==
  /\ UNCHANGED focus
  /\ \/ focus = "explorer" /\ ExplorerNext
        /\ UNCHANGED <<stashVars, changeVars, groupVars, diagramVars, realtimeVars>>
     \/ focus = "stashes" /\ StashesNext
        /\ UNCHANGED <<explorerVars, changeVars, groupVars, diagramVars, realtimeVars>>
     \/ focus = "changes" /\ ChangesNext
        /\ UNCHANGED <<explorerVars, stashVars, groupVars, diagramVars, realtimeVars>>
     \/ focus = "groups" /\ GroupsNext
        /\ UNCHANGED <<explorerVars, stashVars, changeVars, diagramVars, realtimeVars>>
     \/ focus = "diagram" /\ DiagramNext
        /\ UNCHANGED <<explorerVars, stashVars, changeVars, groupVars, realtimeVars>>
     \/ focus = "realtime" /\ RealtimeNext
        /\ UNCHANGED <<explorerVars, stashVars, changeVars, groupVars, diagramVars>>

BenchSpec == BenchInit /\ [][BenchNext]_benchVars

\* Windows, repositories and branches are alike, and no property is about time
Alike == Permutations(Windows) \union Permutations(Repos) \union Permutations(Branches)

\* What is said of a diagram ends with its first lapse, which nothing takes back.
UntilLapse == ~lapse

\* The variables of every page have their types.
BenchTypeOK ==
  /\ ExplorerTypeOK /\ StashesTypeOK /\ ChangesTypeOK
  /\ GroupsTypeOK /\ DiagramTypeOK /\ RealtimeTypeOK
=============================================================================
