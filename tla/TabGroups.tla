----------------------------- MODULE TabGroups -----------------------------
(***************************************************************************)
(* The tabs of a workspace and the groups of panes they are shown in: the  *)
(* stores of TalpaDB and Vulpes (TalpadbStore.ts, VulpesStore.ts), which   *)
(* share this logic.  An action is one call of set, which nothing can      *)
(* interrupt; what may come late is the request: a drop or a close speaks  *)
(* of a group that something else has emptied meanwhile.                   *)
(*                                                                         *)
(* The order of groups and of the panes of a group is left out.  Where the *)
(* code takes the first pane that remains, or the group beside the one     *)
(* that went, the model takes any.                                         *)
(***************************************************************************)
EXTENDS FiniteSets, Integers

CONSTANTS Tabs, Groups,  \* ids; generateId gives one that is not in use
          NoTab, NoGroup,
          maxSplitPanes

ASSUME TabGroupsAssumption ==
  /\ NoTab \notin Tabs /\ NoGroup \notin Groups
  /\ maxSplitPanes \in Nat \ {0} /\ IsFiniteSet(Tabs)

VARIABLES
  tabs,        \* the ids of tabs
  panes,       \* paneIds of each group; a group without panes does not exist
  focused,     \* focusedPaneId of each group
  activeGroup, \* activeGroupId
  activeTab,   \* activeTabId
  dragging     \* draggingGroupId

groupVars == <<tabs, panes, focused, activeGroup, activeTab, dragging>>

GroupsTypeOK ==
  /\ tabs \subseteq Tabs
  /\ panes \in [Groups -> SUBSET Tabs]
  /\ focused \in [Groups -> Tabs \union {NoTab}]
  /\ activeGroup \in Groups \union {NoGroup}
  /\ activeTab \in Tabs \union {NoTab}
  /\ dragging \in Groups \union {NoGroup}

Exists(g) == panes[g] # {}
Fresh == {g \in Groups : ~Exists(g)}

GroupsInit ==
  /\ tabs = {}
  /\ panes = [g \in Groups |-> {}]
  /\ focused = [g \in Groups |-> NoTab]
  /\ activeGroup = NoGroup /\ activeTab = NoTab /\ dragging = NoGroup

\* A tab that no other has the key of gets a group of its own.
OpenTab(t, g) ==
  /\ t \notin tabs /\ g \in Fresh
  /\ tabs' = tabs \union {t}
  /\ panes' = [panes EXCEPT ![g] = {t}]
  /\ focused' = [focused EXCEPT ![g] = t]
  /\ activeGroup' = g /\ activeTab' = t
  /\ UNCHANGED dragging

\* Also what opening a tab comes to whose key is there already.
SetActiveTab(g, t) ==
  /\ t \in panes[g]
  /\ focused' = [focused EXCEPT ![g] = t]
  /\ activeGroup' = g /\ activeTab' = t
  /\ UNCHANGED <<tabs, panes, dragging>>

SetActiveGroup(g) ==
  /\ Exists(g)
  /\ activeGroup' = g /\ activeTab' = focused[g]
  /\ UNCHANGED <<tabs, panes, focused, dragging>>

\* The groups whose focus goes with the panes removed, and are not emptied.
Refocused(removed) ==
  {g \in Groups : Exists(g) /\ focused[g] \in removed /\ ~(panes[g] \subseteq removed)}

\* Bug: the active group stays active although it is emptied.
StaysActive(removed) == {activeGroup}

\* The group shown once the panes removed are gone.
NextGroups(removed) ==
  LET left == {g \in Groups : ~(panes[g] \subseteq removed)}
  IN  CASE activeGroup \in left -> {activeGroup}
        [] left = {} -> {NoGroup}
        [] OTHER -> left

\* closeTab, closeGroup, closeConnectionTabs, closeMatchingTabs, removeTabs:
\* tabs asked for and already gone make no difference.
RemovePanes(removed) ==
  /\ removed \subseteq tabs /\ removed # {}
  /\ tabs' = tabs \ removed
  /\ panes' = [g \in Groups |-> panes[g] \ removed]
  /\ \E f \in [Refocused(removed) -> Tabs], a \in NextGroups(removed) :
       /\ \A g \in Refocused(removed) : f[g] \in panes[g] \ removed
       /\ focused' = [g \in Groups |->
            CASE g \in Refocused(removed) -> f[g]
              [] panes[g] \subseteq removed -> NoTab
              [] OTHER -> focused[g]]
       /\ activeGroup' = a
       /\ activeTab' = IF a = NoGroup THEN NoTab ELSE focused'[a]
  /\ UNCHANGED dragging

\* A drag starts on a group of the bar, and may end without a drop.
SetDraggingGroup(g) ==
  /\ g \in Groups => Exists(g)
  /\ dragging' = g
  /\ UNCHANGED <<tabs, panes, focused, activeGroup, activeTab>>

\* Bug: only the group dropped on is looked at.
TargetFits(g, h) == Cardinality(panes[h]) < maxSplitPanes

Fits(g, h) == Cardinality(panes[g]) + Cardinality(panes[h]) <= maxSplitPanes

\* The group dragged is dropped on the one shown: it joins it if it is still
\* there and they fit together.
MergeGroupInto(g, h) ==
  /\ dragging = g /\ activeGroup = h
  /\ dragging' = NoGroup
  /\ IF Exists(g) /\ Exists(h) /\ g # h /\ Fits(g, h)
     THEN /\ panes' = [panes EXCEPT ![g] = {}, ![h] = panes[h] \union panes[g]]
          /\ focused' = [focused EXCEPT ![g] = NoTab, ![h] = focused[g]]
          /\ activeGroup' = h /\ activeTab' = focused[g]
     ELSE UNCHANGED <<panes, focused, activeGroup, activeTab>>
  /\ UNCHANGED tabs

\* A pane of several gets a group of its own.
DetachPane(g, t, new) ==
  /\ t \in panes[g] /\ panes[g] # {t} /\ new \in Fresh
  /\ panes' = [panes EXCEPT ![g] = panes[g] \ {t}, ![new] = {t}]
  /\ \E f \in panes[g] \ {t} :
       /\ focused[g] # t => f = focused[g]
       /\ focused' = [focused EXCEPT ![g] = f, ![new] = t]
  /\ activeGroup' = new /\ activeTab' = t
  /\ UNCHANGED <<tabs, dragging>>

\* Every pane of a group gets one of its own (Vulpes).
Ungroup(g, home) ==
  /\ \E t \in panes[g] : panes[g] # {t}
  /\ \A t \in panes[g] : home[t] \in Fresh \union {g}
  /\ \A t, u \in panes[g] : home[t] = home[u] => t = u
  /\ panes' = [h \in Groups |->
       IF h = g \/ (\E t \in panes[g] : home[t] = h) THEN {t \in panes[g] : home[t] = h} ELSE panes[h]]
  /\ focused' = [h \in Groups |->
       IF \E t \in panes[g] : home[t] = h THEN CHOOSE t \in panes[g] : home[t] = h
       ELSE IF h = g THEN NoTab ELSE focused[h]]
  /\ activeTab' = focused[g] /\ activeGroup' = home[focused[g]]
  /\ UNCHANGED <<tabs, dragging>>

Reset ==
  /\ tabs # {}
  /\ tabs' = {}
  /\ panes' = [g \in Groups |-> {}]
  /\ focused' = [g \in Groups |-> NoTab]
  /\ activeGroup' = NoGroup /\ activeTab' = NoTab /\ dragging' = NoGroup

GroupsNext ==
  \/ Reset
  \/ \E t \in Tabs, g \in Groups : OpenTab(t, g) \/ SetActiveTab(g, t)
  \/ \E g \in Groups : SetActiveGroup(g)
  \/ \E g \in Groups \union {NoGroup} : SetDraggingGroup(g)
  \/ \E removed \in SUBSET tabs : RemovePanes(removed)
  \/ \E g, h \in Groups : MergeGroupInto(g, h)
  \/ \E g, new \in Groups, t \in Tabs : DetachPane(g, t, new)
  \/ \E g \in Groups : \E home \in [panes[g] -> Groups] : Ungroup(g, home)

GroupsSpec == GroupsInit /\ [][GroupsNext]_groupVars

-----------------------------------------------------------------------------
\* Every open tab is a pane of exactly one group, nothing else is a pane, and
\* no group has more panes than a split can show: whatever is dragged, dropped,
\* detached and closed, no tab is left that no group shows, to run on unseen.
EveryTabHasItsPane ==
  /\ \A t \in tabs : \E g \in Groups : t \in panes[g]
  /\ \A g, h \in Groups : g # h => panes[g] \intersect panes[h] = {}
  /\ \A g \in Groups : panes[g] \subseteq tabs /\ Cardinality(panes[g]) <= maxSplitPanes

\* The focus of a group is one of its panes, and the active tab is the focus
\* of the active group: what the keyboard acts on is what the user looks at.
ActiveTabIsShown ==
  /\ \A g \in Groups : Exists(g) => focused[g] \in panes[g]
  /\ IF activeGroup = NoGroup
     THEN activeTab = NoTab /\ \A g \in Groups : ~Exists(g)
     ELSE Exists(activeGroup) /\ activeTab = focused[activeGroup]
=============================================================================
