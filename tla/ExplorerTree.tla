----------------------------- MODULE ExplorerTree -----------------------------
(***************************************************************************)
(* The object explorer of TalpaDB (ExplorerStore.ts): a tree of servers,   *)
(* databases, schemas, groups, relations and columns, filled node by node  *)
(* by calls whose answers come while the user refreshes, disconnects and   *)
(* deletes connections, and while the catalogue of the server changes.     *)
(*                                                                         *)
(* Ids are the paths serverNodeId and segment build; Parent is the tree    *)
(* they spell.                                                             *)
(***************************************************************************)
EXTENDS Naturals

CONSTANTS Ids,         \* every node that may exist
          Kind,        \* its kind
          Parent,      \* its parent; a server is its own
          Loads,       \* bound: calls of loadChildren in flight at once
          MaxLoads,    \* bound: calls made in all
          MaxChanges   \* bound: changes of the catalogue

NotLoaded == {"not loaded"}
NoId == "none"

ASSUME ExplorerAssumption ==
  /\ Parent \in [Ids -> Ids] /\ MaxChanges \in Nat /\ MaxLoads \in Nat
  /\ Kind \in [Ids -> {"server", "database", "schema", "group", "relation", "column"}]
  /\ (NotLoaded \union {NoId}) \intersect Ids = {}
  /\ \A i \in Ids : (Parent[i] = i <=> Kind[i] = "server") /\ (Kind[Parent[i]] = "schema" <=> Kind[i] = "group")

(* What is on the way to the root: the smallest set with the parent, and   *)
(* with the parent of whatever is in it.  Paths that are extended do not   *)
(* come back to where they were.                                           *)
ClosedAbove(S) == \A k \in S : Parent[k] \in S
Above == [i \in Ids |-> {j \in Ids \ {i} : \A S \in SUBSET Ids : ClosedAbove(S) /\ Parent[i] \in S => j \in S}]
ASSUME PathsGetLonger == \A i, j \in Ids : i \in Above[j] => j \notin Above[i]

VARIABLES
  nodes,     \* nodes
  children,  \* children: the list of a node, or NotLoaded
  readAt,    \* when that list was read (history)
  expanded, loading, errors,   \* ids for which the entry is set
  selected,  \* selectedId
  connected, \* servers shown as connected
  roots,     \* rootIds
  calls,     \* calls of loadChildren: free, asked, answered, failed
  exists,    \* what the catalogue holds
  changes,   \* how often it changed
  made,      \* calls made so far
  stray      \* nodes whose loading mark a disconnect dropped (history)
explorerVars == <<nodes, children, readAt, expanded, loading, errors, selected, connected, roots,
                  calls, made, exists, changes, stray>>

Free == [at |-> "free", id |-> NoId, lists |-> {}, read |-> 0]
Servers == {i \in Ids : Kind[i] = "server"}
Movable == {i \in Ids : Kind[i] \in {"database", "relation"}}
Below(i) == {j \in Ids : Parent[j] = i /\ j # i}

(* loadChildren: the list of one node; a schema brings its groups filled *)
Listed(i, catalogue) == Below(i) \intersect catalogue
Result(i, catalogue) ==
  {[id |-> j, kids |-> Listed(j, catalogue)] :
     j \in {i} \union (IF Kind[i] = "schema" THEN Listed(i, catalogue) ELSE {})}

ListOf(i) == IF children[i] = NotLoaded THEN {} ELSE children[i]
(* collectDescendants, along the lists that are shown *)
Descendants(i) ==
  {j \in Ids : i \in Above[j] /\ \A k \in {j} \union (Above[j] \ ({i} \union Above[i])) : k \in ListOf(Parent[k])}

ExplorerTypeOK ==
  /\ nodes \subseteq Ids /\ expanded \subseteq Ids /\ loading \subseteq Ids /\ errors \subseteq Ids
  /\ stray \subseteq Ids /\ roots \subseteq Servers /\ connected \subseteq Servers
  /\ \A i \in Ids : children[i] = NotLoaded \/ children[i] \subseteq Below(i)
  /\ selected \in nodes \union {NoId}
  /\ exists \subseteq Ids /\ changes \in 0 .. MaxChanges /\ made \in 0 .. MaxLoads
  /\ readAt \in [Ids -> 0 .. MaxChanges]

ExplorerInit ==
  /\ nodes = Servers /\ roots = Servers
  /\ children = [i \in Ids |-> NotLoaded] /\ readAt = [i \in Ids |-> 0]
  /\ expanded = {} /\ loading = {} /\ errors = {} /\ selected = NoId /\ connected = {}
  /\ calls = [l \in Loads |-> Free]
  /\ exists = Ids /\ changes = 0 /\ made = 0 /\ stray = {}

----------------------------------------------------------------------------
(* load(): nothing while the node is loading; (a bug: it does not look) *)
NeverBusy(i) == FALSE
Busy(i) == i \in loading
Load(i) ==
  IF Busy(i) THEN UNCHANGED <<loading, errors, calls, made>>
  ELSE \E l \in Loads :
         /\ calls[l].at = "free" /\ made < MaxLoads
         /\ made' = made + 1
         /\ calls' = [calls EXCEPT ![l] = [at |-> "asked", id |-> i, lists |-> {}, read |-> 0]]
         /\ loading' = loading \union {i}
         /\ errors' = errors \ {i}

(* toggle and expand: a list that is there and has no error is not read *)
Toggle(i) ==
  /\ i \in nodes
  /\ IF i \in expanded
       THEN expanded' = expanded \ {i} /\ UNCHANGED <<loading, errors, calls, made>>
       ELSE /\ Kind[i] # "column"
            /\ expanded' = expanded \union {i}
            /\ IF children[i] = NotLoaded \/ i \in errors THEN Load(i)
               ELSE UNCHANGED <<loading, errors, calls, made>>
  /\ UNCHANGED <<nodes, children, readAt, selected, connected, roots, exists, changes, stray>>

(* refresh: a group is refreshed through its schema *)
Refresh(i) ==
  LET target == IF Kind[i] = "group" THEN Parent[i] ELSE i IN
  /\ i \in nodes /\ Kind[i] # "column"
  /\ expanded' = expanded \union {target}
  /\ Load(target)
  /\ UNCHANGED <<nodes, children, readAt, selected, connected, roots, exists, changes, stray>>

Select(i) ==
  /\ i \in nodes /\ selected' = i
  /\ UNCHANGED <<nodes, children, readAt, expanded, loading, errors, connected, roots, calls,
                 made, exists, changes, stray>>

CollapseAll ==
  /\ expanded # {} /\ expanded' = {}
  /\ UNCHANGED <<nodes, children, readAt, loading, errors, selected, connected, roots, calls,
                 made, exists, changes, stray>>

(* (a bug: what is selected stays so) *)
SelectionStays(removed) == selected
SelectionWithout(removed) == IF selected \in removed THEN NoId ELSE selected

(* removeSubtrees, keeping the roots or not *)
RemoveSubtrees(ids, keepRoots) ==
  LET removed == (UNION {Descendants(i) : i \in ids}) \union (IF keepRoots THEN {} ELSE ids)
      emptied == removed \union ids
  IN /\ nodes' = nodes \ removed
     /\ children' = [i \in Ids |-> IF i \in emptied THEN NotLoaded ELSE children[i]]
     /\ readAt' = [i \in Ids |-> IF i \in emptied THEN 0 ELSE readAt[i]]
     /\ expanded' = expanded \ emptied
     /\ loading' = loading \ removed
     /\ errors' = errors \ emptied
     /\ selected' = SelectionWithout(removed)
     /\ stray' = stray \union (loading \intersect removed)

(* Disconnecting, or editing the connection: resetServer *)
ResetServer(i) ==
  /\ i \in roots
  /\ RemoveSubtrees({i}, TRUE)
  /\ connected' = connected \ {i}
  /\ UNCHANGED <<roots, calls, made, exists, changes>>

(* syncServers, after a connection was deleted *)
SyncServers(gone) ==
  /\ gone \subseteq roots /\ gone # {}
  /\ roots' = roots \ gone
  /\ RemoveSubtrees(gone, FALSE)
  /\ UNCHANGED <<connected, calls, made, exists, changes>>

----------------------------------------------------------------------------
(* The backend reads the catalogue, or fails *)
Answer(l) ==
  /\ calls[l].at = "asked"
  /\ \/ calls' = [calls EXCEPT ![l] = [at |-> "answered", id |-> calls[l].id,
                                       lists |-> Result(calls[l].id, exists), read |-> changes]]
     \/ calls' = [calls EXCEPT ![l].at = "failed"]
  /\ UNCHANGED <<nodes, children, readAt, expanded, loading, errors, selected, connected, roots,
                 made, exists, changes, stray>>

(* The lists of an answer replace what was below the node.  Nodes that     *)
(* come back with their list (the groups of a schema) stay open.           *)
CollapsedUnlessReloaded(stale, reloaded, filled) == stale \ reloaded
Collapsed(stale, reloaded, filled) == {j \in stale : ~(j \in reloaded /\ j \in filled)}
Show(l) ==
  LET i == calls[l].id
      lists == calls[l].lists
      stale == Descendants(i)
      reloaded == UNION {r.kids : r \in lists}
      filled == {r.id : r \in lists}
      ListFor(j) == (CHOOSE r \in lists : r.id = j).kids
  IN /\ nodes' = (nodes \ stale) \union reloaded
     /\ children' = [j \in Ids |-> IF j \in filled THEN ListFor(j)
                                   ELSE IF j \in stale THEN NotLoaded ELSE children[j]]
     /\ readAt' = [j \in Ids |-> IF j \in filled THEN calls[l].read
                                 ELSE IF j \in stale THEN 0 ELSE readAt[j]]
     /\ expanded' = expanded \ Collapsed(stale, reloaded, filled)
     /\ errors' = errors \ stale
     /\ selected' = SelectionWithout(stale \ reloaded)
     /\ connected' = IF Kind[i] = "server" THEN connected \union {i} ELSE connected

(* (a bug: an answer for a node that has gone is shown all the same) *)
Anywhere(i) == TRUE
StillThere(i) == i \in nodes
Loaded(l) ==
  /\ calls[l].at = "answered"
  /\ IF StillThere(calls[l].id) THEN Show(l)
     ELSE UNCHANGED <<nodes, children, readAt, expanded, errors, selected, connected>>
  /\ loading' = loading \ {calls[l].id}
  /\ calls' = [calls EXCEPT ![l] = Free]
  /\ UNCHANGED <<roots, made, exists, changes, stray>>

LoadFailed(l) ==
  LET i == calls[l].id IN
  /\ calls[l].at = "failed"
  /\ loading' = loading \ {i} /\ errors' = errors \union {i}
  /\ connected' = connected \ {i}
  /\ calls' = [calls EXCEPT ![l] = Free]
  /\ UNCHANGED <<nodes, children, readAt, expanded, selected, roots, made, exists, changes, stray>>

(* Databases and relations are created and dropped, here or elsewhere *)
Change(i) ==
  /\ i \in Movable /\ changes < MaxChanges
  /\ changes' = changes + 1
  /\ exists' = IF i \in exists THEN exists \ {i} ELSE exists \union {i}
  /\ UNCHANGED <<nodes, children, readAt, expanded, loading, errors, selected, connected, roots,
                 calls, made, stray>>

ExplorerNext ==
  \/ \E i \in Ids : Toggle(i) \/ Refresh(i) \/ Select(i) \/ ResetServer(i) \/ SyncServers({i}) \/ Change(i)
  \/ CollapseAll
  \/ \E l \in Loads : Answer(l) \/ Loaded(l) \/ LoadFailed(l)
ExplorerSpec == ExplorerInit /\ [][ExplorerNext]_explorerVars

----------------------------------------------------------------------------
(* The tree is whole, whatever answers arrive late: what a list names is a *)
(* node, and a node that is no server is named by the list of its parent   *)
(* (load and removeSubtrees; ObjectExplorer draws along the lists).        *)
TreeIsWhole ==
  /\ \A i \in Ids : ListOf(i) \subseteq nodes
  /\ \A i \in nodes : i \in roots \/ i \in ListOf(Parent[i])
  /\ \A i \in Ids \ nodes : children[i] = NotLoaded

(* An open node shows its list, that it is loading, or an error: never     *)
(* nothing (expand reads only what is missing; load closes what it emptied)*)
OpenNodeShowsSomething ==
  \A i \in expanded \intersect nodes : children[i] # NotLoaded \/ i \in loading \/ i \in errors

(* A list is never replaced by one read earlier: load runs once per node.  *)
(* Only a disconnect that drops the mark of a load lets two run at once    *)
(* (and a schema brings the lists of its groups).                          *)
ListsGetNewer ==
  [][\A i \in Ids : {i, Parent[i]} \intersect stray' = {} /\ children[i] # NotLoaded /\ children'[i] # NotLoaded
       => readAt'[i] >= readAt[i]]_explorerVars
=============================================================================
