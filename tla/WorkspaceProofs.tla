--------------------------- MODULE WorkspaceProofs ---------------------------
(***************************************************************************)
(* The safety of the parts of a TalpaDB and a Vulpes workspace, each for   *)
(* any values of its constants: the tabs and their split groups            *)
(* (TabGroups), the tree of the explorer (ExplorerTree), the arrangement   *)
(* of a diagram (DiagramLayout) and the realtime tabs (RealtimeTabs).      *)
(* They share no variable, so each has an inductive invariant of its own:  *)
(* GroupsInv, ExplorerInv, DiagramInv, RealtimeInv.                        *)
(***************************************************************************)
EXTENDS TabGroups, ExplorerTree, DiagramLayout, RealtimeTabs, FiniteSetTheorems, TLAPS

-----------------------------------------------------------------------------
\* TABS AND SPLIT GROUPS.  The two properties hold each other up: that a focus
\* is a pane of its group needs the panes to be apart, and what is shown after
\* a drop needs the focus of the group dragged.  Together they are inductive.

GroupsInv == GroupsTypeOK /\ EveryTabHasItsPane /\ ActiveTabIsShown

\* The parts of EveryTabHasItsPane, and that of ActiveTabIsShown about groups.
Covered == \A t \in tabs : \E g \in Groups : t \in panes[g]
Apart == \A g, h \in Groups : g # h => panes[g] \intersect panes[h] = {}
OnlyOpenTabs == \A g \in Groups : panes[g] \subseteq tabs
Small == \A g \in Groups : Cardinality(panes[g]) <= maxSplitPanes
FocusInside == \A g \in Groups : Exists(g) => focused[g] \in panes[g]
OneIsShown ==
    IF activeGroup = NoGroup
    THEN activeTab = NoTab /\ \A g \in Groups : ~Exists(g)
    ELSE Exists(activeGroup) /\ activeTab = focused[activeGroup]

LEMMA GroupsParts ==
    /\ EveryTabHasItsPane <=> Covered /\ Apart /\ OnlyOpenTabs /\ Small
    /\ ActiveTabIsShown <=> FocusInside /\ OneIsShown
BY DEF EveryTabHasItsPane, ActiveTabIsShown, Covered, Apart, OnlyOpenTabs, Small, FocusInside, OneIsShown

LEMMA GroupsPartsNext ==
    /\ EveryTabHasItsPane' <=> Covered' /\ Apart' /\ OnlyOpenTabs' /\ Small'
    /\ ActiveTabIsShown' <=> FocusInside' /\ OneIsShown'
BY DEF EveryTabHasItsPane, ActiveTabIsShown, Covered, Apart, OnlyOpenTabs, Small, FocusInside, OneIsShown

-----------------------------------------------------------------------------
\* Panes are few: their number is one, and those of a part are no more.

LEMMA PanesAreFinite ==
    ASSUME NEW S \in SUBSET Tabs
    PROVE  IsFiniteSet(S) /\ Cardinality(S) \in Nat
BY TabGroupsAssumption, FS_Subset, FS_CardinalityType

LEMMA FewerPanes ==
    ASSUME NEW S \in SUBSET Tabs, NEW T \in SUBSET S, Cardinality(S) <= maxSplitPanes
    PROVE  Cardinality(T) <= maxSplitPanes
<1>1. Cardinality(T) <= Cardinality(S) /\ Cardinality(S) \in Nat /\ Cardinality(T) \in Nat
  BY PanesAreFinite, FS_Subset
<1> QED
  BY <1>1, TabGroupsAssumption

LEMMA OnePaneFits == \A t : Cardinality({t}) <= maxSplitPanes
<1>1. \A t : Cardinality({t}) = 1
  BY FS_Singleton
<1> QED
  BY <1>1, TabGroupsAssumption

LEMMA NoPaneFits == Cardinality({}) <= maxSplitPanes
BY FS_EmptySet, TabGroupsAssumption

\* What MergeGroupInto puts together is as small as Fits says.
LEMMA MergedFits ==
    ASSUME NEW S \in SUBSET Tabs, NEW T \in SUBSET Tabs,
           Cardinality(S) + Cardinality(T) <= maxSplitPanes
    PROVE  Cardinality(T \union S) <= maxSplitPanes
<1>1. /\ Cardinality(T \union S) = Cardinality(T) + Cardinality(S) - Cardinality(T \intersect S)
      /\ Cardinality(S) \in Nat /\ Cardinality(T) \in Nat /\ Cardinality(T \intersect S) \in Nat
  <2>1. IsFiniteSet(S) /\ IsFiniteSet(T) /\ T \intersect S \in SUBSET Tabs
    BY PanesAreFinite
  <2> QED
    BY <2>1, PanesAreFinite, FS_Union
<1> QED
  BY <1>1, TabGroupsAssumption

-----------------------------------------------------------------------------
(***************************************************************************)
(* Every action preserves the invariant: one lemma for each, and in it one *)
(* step for each part that is not untouched.                               *)
(***************************************************************************)

LEMMA GroupsInitSafe == GroupsInit => GroupsInv
<1> SUFFICES ASSUME GroupsInit PROVE GroupsInv
  OBVIOUS
<1>1. GroupsTypeOK
  BY TabGroupsAssumption DEF GroupsInit, GroupsTypeOK
<1>2. Covered /\ Apart /\ OnlyOpenTabs /\ FocusInside /\ OneIsShown
  BY TabGroupsAssumption DEF GroupsInit, Covered, Apart, OnlyOpenTabs, FocusInside, OneIsShown, Exists
<1>3. Small
  BY NoPaneFits DEF GroupsInit, Small
<1> QED
  BY <1>1, <1>2, <1>3, GroupsParts DEF GroupsInv

LEMMA OpenTabSafe ==
    ASSUME GroupsInv, NEW t \in Tabs, NEW g \in Groups, OpenTab(t, g)
    PROVE  GroupsInv'
<1> USE TabGroupsAssumption DEF OpenTab, Fresh, Exists
<1>0. GroupsTypeOK /\ Covered /\ Apart /\ OnlyOpenTabs /\ Small /\ FocusInside /\ OneIsShown
  BY GroupsParts DEF GroupsInv
<1>1. GroupsTypeOK'
  BY <1>0 DEF GroupsTypeOK
<1>2. Covered'
  BY <1>0 DEF GroupsTypeOK, Covered
<1>3. Apart' /\ OnlyOpenTabs'
  BY <1>0 DEF GroupsTypeOK, Apart, OnlyOpenTabs
<1>4. Small'
  BY <1>0, OnePaneFits DEF GroupsTypeOK, Small
<1>5. FocusInside' /\ OneIsShown'
  BY <1>0 DEF GroupsTypeOK, FocusInside, OneIsShown
<1> QED
  BY <1>1, <1>2, <1>3, <1>4, <1>5, GroupsPartsNext DEF GroupsInv

LEMMA SetActiveTabSafe ==
    ASSUME GroupsInv, NEW t \in Tabs, NEW g \in Groups, SetActiveTab(g, t)
    PROVE  GroupsInv'
<1> USE TabGroupsAssumption DEF SetActiveTab, Exists
<1>0. GroupsTypeOK /\ Covered /\ Apart /\ OnlyOpenTabs /\ Small /\ FocusInside
  BY GroupsParts DEF GroupsInv
<1>1. GroupsTypeOK'
  BY <1>0 DEF GroupsTypeOK
<1>2. Covered' /\ Apart' /\ OnlyOpenTabs' /\ Small'
  BY <1>0 DEF Covered, Apart, OnlyOpenTabs, Small
<1>3. FocusInside' /\ OneIsShown'
  BY <1>0 DEF GroupsTypeOK, FocusInside, OneIsShown
<1> QED
  BY <1>1, <1>2, <1>3, GroupsPartsNext DEF GroupsInv

LEMMA SetActiveGroupSafe ==
    ASSUME GroupsInv, NEW g \in Groups, SetActiveGroup(g)
    PROVE  GroupsInv'
<1> USE TabGroupsAssumption DEF SetActiveGroup, Exists
<1>0. GroupsTypeOK /\ Covered /\ Apart /\ OnlyOpenTabs /\ Small /\ FocusInside
  BY GroupsParts DEF GroupsInv
<1>1. GroupsTypeOK'
  BY <1>0 DEF GroupsTypeOK, FocusInside
<1>2. Covered' /\ Apart' /\ OnlyOpenTabs' /\ Small'
  BY <1>0 DEF Covered, Apart, OnlyOpenTabs, Small
<1>3. FocusInside' /\ OneIsShown'
  BY <1>0 DEF GroupsTypeOK, FocusInside, OneIsShown
<1> QED
  BY <1>1, <1>2, <1>3, GroupsPartsNext DEF GroupsInv

LEMMA SetDraggingGroupSafe ==
    ASSUME GroupsInv, NEW g \in Groups \union {NoGroup}, SetDraggingGroup(g)
    PROVE  GroupsInv'
BY DEF GroupsInv, SetDraggingGroup, GroupsTypeOK, EveryTabHasItsPane, ActiveTabIsShown, Exists

LEMMA RemovePanesSafe ==
    ASSUME GroupsInv, NEW removed \in SUBSET tabs, RemovePanes(removed)
    PROVE  GroupsInv'
<1> USE TabGroupsAssumption
<1>0. GroupsTypeOK /\ Covered /\ Apart /\ OnlyOpenTabs /\ Small /\ FocusInside /\ OneIsShown
  BY GroupsParts DEF GroupsInv
<1>a. PICK f \in [Refocused(removed) -> Tabs], a \in NextGroups(removed) :
        /\ \A g \in Refocused(removed) : f[g] \in panes[g] \ removed
        /\ focused' = [g \in Groups |->
             CASE g \in Refocused(removed) -> f[g]
               [] panes[g] \subseteq removed -> NoTab
               [] OTHER -> focused[g]]
        /\ activeGroup' = a
        /\ activeTab' = IF a = NoGroup THEN NoTab ELSE focused'[a]
  BY DEF RemovePanes
<1>b. /\ tabs' = tabs \ removed
      /\ panes' = [g \in Groups |-> panes[g] \ removed]
      /\ dragging' = dragging
  BY DEF RemovePanes
\* The focus of each group, and what is shown next
<1>c. ASSUME NEW g \in Groups
      PROVE  /\ g \in Refocused(removed) => focused'[g] = f[g]
             /\ panes[g] \subseteq removed => focused'[g] = NoTab
             /\ g \notin Refocused(removed) /\ ~(panes[g] \subseteq removed) => focused'[g] = focused[g]
  BY <1>a DEF Refocused
<1>d. /\ a \in Groups => ~(panes[a] \subseteq removed)
      /\ a \notin Groups => a = NoGroup /\ \A g \in Groups : panes[g] \subseteq removed
  BY <1>0, <1>a DEF NextGroups, OneIsShown, GroupsTypeOK, Exists
<1>1. GroupsTypeOK'
  <2>1. focused' \in [Groups -> Tabs \union {NoTab}]
    <3>1. \A g \in Groups : focused'[g] \in Tabs \union {NoTab}
      BY <1>0, <1>a, <1>c DEF GroupsTypeOK
    <3> QED
      BY <3>1, <1>a
  <2>2. activeGroup' \in Groups \union {NoGroup} /\ activeTab' \in Tabs \union {NoTab}
    BY <1>a, <1>d, <2>1
  <2>3. tabs' \subseteq Tabs /\ panes' \in [Groups -> SUBSET Tabs] /\ dragging' \in Groups \union {NoGroup}
    BY <1>0, <1>b DEF GroupsTypeOK
  <2> QED
    BY <2>1, <2>2, <2>3 DEF GroupsTypeOK
<1>2. Covered' /\ Apart' /\ OnlyOpenTabs'
  BY <1>0, <1>b DEF GroupsTypeOK, Covered, Apart, OnlyOpenTabs
<1>3. Small'
  <2> SUFFICES ASSUME NEW g \in Groups PROVE Cardinality(panes'[g]) <= maxSplitPanes
    BY DEF Small
  <2>1. panes'[g] = panes[g] \ removed /\ panes[g] \in SUBSET Tabs
    BY <1>0, <1>b DEF GroupsTypeOK
  <2> QED
    BY <2>1, <1>0, FewerPanes DEF Small
<1>4. FocusInside'
  <2> SUFFICES ASSUME NEW g \in Groups, panes'[g] # {} PROVE focused'[g] \in panes'[g]
    BY DEF FocusInside, Exists
  <2>1. panes'[g] = panes[g] \ removed /\ ~(panes[g] \subseteq removed)
    BY <1>b
  <2>2. CASE g \in Refocused(removed)
    BY <2>1, <2>2, <1>a, <1>c
  <2>3. CASE g \notin Refocused(removed)
    BY <2>1, <2>3, <1>0, <1>c DEF FocusInside, Refocused, Exists
  <2> QED
    BY <2>2, <2>3
<1>5. OneIsShown'
  <2>1. CASE a \in Groups
    BY <2>1, <1>a, <1>b, <1>d DEF OneIsShown, Exists
  <2>2. CASE a \notin Groups
    BY <2>2, <1>a, <1>b, <1>d DEF OneIsShown, Exists
  <2> QED
    BY <2>1, <2>2
<1> QED
  BY <1>1, <1>2, <1>3, <1>4, <1>5, GroupsPartsNext DEF GroupsInv

LEMMA MergeGroupIntoSafe ==
    ASSUME GroupsInv, NEW g \in Groups, NEW h \in Groups, MergeGroupInto(g, h)
    PROVE  GroupsInv'
<1> USE TabGroupsAssumption
<1>0. GroupsTypeOK /\ Covered /\ Apart /\ OnlyOpenTabs /\ Small /\ FocusInside /\ OneIsShown
  BY GroupsParts DEF GroupsInv
<1>1. CASE Exists(g) /\ Exists(h) /\ g # h /\ Fits(g, h)
  <2>a. /\ panes' = [panes EXCEPT ![g] = {}, ![h] = panes[h] \union panes[g]]
        /\ focused' = [focused EXCEPT ![g] = NoTab, ![h] = focused[g]]
        /\ activeGroup' = h /\ activeTab' = focused[g] /\ dragging' = NoGroup /\ tabs' = tabs
    BY <1>1 DEF MergeGroupInto
  <2>b. /\ panes'[g] = {} /\ panes'[h] = panes[h] \union panes[g]
        /\ \A k \in Groups \ {g, h} : panes'[k] = panes[k] /\ focused'[k] = focused[k]
        /\ focused'[h] = focused[g] /\ focused[g] \in panes[g]
    BY <2>a, <1>0, <1>1 DEF GroupsTypeOK, FocusInside
  <2>1. GroupsTypeOK'
    BY <2>a, <1>0 DEF GroupsTypeOK
  <2>2. Covered' /\ OnlyOpenTabs'
    BY <2>a, <2>b, <1>0 DEF GroupsTypeOK, Covered, OnlyOpenTabs
  <2>3. Apart'
    BY <2>b, <1>0 DEF Apart
  <2>4. Small'
    <3>1. Cardinality(panes'[h]) <= maxSplitPanes
      BY <2>b, <1>0, <1>1, MergedFits DEF GroupsTypeOK, Fits
    <3> QED
      BY <3>1, <2>b, <1>0, NoPaneFits DEF Small
  <2>5. FocusInside' /\ OneIsShown'
    BY <2>a, <2>b, <1>0 DEF FocusInside, OneIsShown, Exists
  <2> QED
    BY <2>1, <2>2, <2>3, <2>4, <2>5, GroupsPartsNext DEF GroupsInv
<1>2. CASE ~(Exists(g) /\ Exists(h) /\ g # h /\ Fits(g, h))
  <2>1. UNCHANGED <<tabs, panes, focused, activeGroup, activeTab>> /\ dragging' = NoGroup
    BY <1>2 DEF MergeGroupInto
  <2> QED
    BY <2>1 DEF GroupsInv, GroupsTypeOK, EveryTabHasItsPane, ActiveTabIsShown, Exists
<1> QED
  BY <1>1, <1>2

LEMMA DetachPaneSafe ==
    ASSUME GroupsInv, NEW g \in Groups, NEW t \in Tabs, NEW new \in Groups, DetachPane(g, t, new)
    PROVE  GroupsInv'
<1> USE TabGroupsAssumption
<1>0. GroupsTypeOK /\ Covered /\ Apart /\ OnlyOpenTabs /\ Small /\ FocusInside /\ OneIsShown
  BY GroupsParts DEF GroupsInv
<1>a. PICK f \in panes[g] \ {t} : focused' = [focused EXCEPT ![g] = f, ![new] = t]
  BY DEF DetachPane
<1>b. /\ panes' = [panes EXCEPT ![g] = panes[g] \ {t}, ![new] = {t}]
      /\ activeGroup' = new /\ activeTab' = t /\ tabs' = tabs /\ dragging' = dragging
      /\ t \in panes[g] /\ panes[new] = {} /\ new # g
  BY DEF DetachPane, Fresh, Exists
<1>c. /\ panes'[g] = panes[g] \ {t} /\ panes'[new] = {t}
      /\ \A k \in Groups \ {g, new} : panes'[k] = panes[k] /\ focused'[k] = focused[k]
      /\ focused'[g] = f /\ focused'[new] = t
  BY <1>a, <1>b, <1>0 DEF GroupsTypeOK
<1>1. GroupsTypeOK'
  BY <1>a, <1>b, <1>0 DEF GroupsTypeOK
<1>2. Covered' /\ OnlyOpenTabs'
  BY <1>b, <1>c, <1>0 DEF GroupsTypeOK, Covered, OnlyOpenTabs
<1>3. Apart'
  <2>1. \A k \in Groups \ {new} : panes'[k] \subseteq panes[k] /\ t \notin panes'[k]
    BY <1>b, <1>c, <1>0 DEF Apart
  <2>2. \A h, k \in Groups \ {new} : h # k => panes'[h] \intersect panes'[k] = {}
    BY <2>1, <1>0 DEF Apart
  <2>3. \A k \in Groups \ {new} : panes'[k] \intersect panes'[new] = {}
    BY <2>1, <1>c
  <2> QED
    BY <2>2, <2>3 DEF Apart
<1>4. Small'
  <2>1. Cardinality(panes'[g]) <= maxSplitPanes
    BY <1>c, <1>0, FewerPanes DEF GroupsTypeOK, Small
  <2> QED
    BY <2>1, <1>c, <1>0, OnePaneFits DEF Small
<1>5. FocusInside' /\ OneIsShown'
  BY <1>a, <1>b, <1>c, <1>0 DEF FocusInside, OneIsShown, Exists
<1> QED
  BY <1>1, <1>2, <1>3, <1>4, <1>5, GroupsPartsNext DEF GroupsInv

LEMMA UngroupSafe ==
    ASSUME GroupsInv, NEW g \in Groups, NEW home \in [panes[g] -> Groups], Ungroup(g, home)
    PROVE  GroupsInv'
<1> USE TabGroupsAssumption
<1>0. GroupsTypeOK /\ Covered /\ Apart /\ OnlyOpenTabs /\ Small /\ FocusInside /\ OneIsShown
  BY GroupsParts DEF GroupsInv
<1>a. /\ panes[g] # {} /\ focused[g] \in panes[g]
      /\ \A t \in panes[g] : home[t] \in Groups /\ (home[t] = g \/ panes[home[t]] = {})
      /\ \A t, u \in panes[g] : home[t] = home[u] => t = u
      /\ activeGroup' = home[focused[g]] /\ activeTab' = focused[g]
      /\ tabs' = tabs /\ dragging' = dragging
  BY <1>0 DEF Ungroup, Fresh, Exists, FocusInside
\* Where a pane goes it is alone and has the focus.
<1>b. ASSUME NEW t \in panes[g]
      PROVE  panes'[home[t]] = {t} /\ focused'[home[t]] = t
  <2>1. {u \in panes[g] : home[u] = home[t]} = {t}
    BY <1>a
  <2>2. (CHOOSE u \in panes[g] : home[u] = home[t]) = t
    BY <1>a
  <2> QED
    BY <2>1, <2>2, <1>a DEF Ungroup
\* Where none goes nothing changes, except that the group they leave is gone.
<1>c. ASSUME NEW h \in Groups, \A t \in panes[g] : home[t] # h
      PROVE  /\ h = g => panes'[h] = {} /\ focused'[h] = NoTab
             /\ h # g => panes'[h] = panes[h] /\ focused'[h] = focused[h]
  BY <1>c DEF Ungroup
<1>d. DOMAIN panes' = Groups /\ DOMAIN focused' = Groups
      /\ panes' = [h \in Groups |-> panes'[h]] /\ focused' = [h \in Groups |-> focused'[h]]
  BY DEF Ungroup
<1>1. GroupsTypeOK'
  <2>1. \A h \in Groups : panes'[h] \in SUBSET Tabs /\ focused'[h] \in Tabs \union {NoTab}
    BY <1>0, <1>a, <1>b, <1>c DEF GroupsTypeOK
  <2> QED
    BY <2>1, <1>0, <1>a, <1>d DEF GroupsTypeOK
<1>2. Covered'
  BY <1>0, <1>a, <1>b, <1>c DEF GroupsTypeOK, Covered, Apart
<1>3. OnlyOpenTabs'
  BY <1>0, <1>a, <1>b, <1>c DEF OnlyOpenTabs
<1>4. Apart'
  <2> SUFFICES ASSUME NEW h \in Groups, NEW k \in Groups, h # k PROVE panes'[h] \intersect panes'[k] = {}
    BY DEF Apart
  <2> DEFINE Home(i) == \E t \in panes[g] : home[t] = i
  <2>1. CASE Home(h) /\ Home(k)
    BY <2>1, <1>b
  <2>2. ASSUME NEW i \in Groups, NEW j \in Groups, i # j, Home(i), ~Home(j)
        PROVE  panes'[i] \intersect panes'[j] = {}
    <3>1. PICK t \in panes[g] : home[t] = i
      BY <2>2
    <3>2. panes'[i] = {t}
      BY <3>1, <1>b
    <3>3. t \notin panes'[j]
      BY <2>2, <1>c, <1>0 DEF Apart
    <3> QED
      BY <3>2, <3>3
  <2>3. CASE ~Home(h) /\ ~Home(k)
    BY <2>3, <1>c, <1>0 DEF Apart
  <2> QED
    BY <2>1, <2>2, <2>3
<1>5. Small'
  <2> SUFFICES ASSUME NEW h \in Groups PROVE Cardinality(panes'[h]) <= maxSplitPanes
    BY DEF Small
  <2>1. CASE \E t \in panes[g] : home[t] = h
    <3>1. PICK t \in panes[g] : home[t] = h
      BY <2>1
    <3>2. panes'[h] = {t}
      BY <3>1, <1>b
    <3> QED
      BY <3>2, OnePaneFits
  <2>2. CASE \A t \in panes[g] : home[t] # h
    BY <2>2, <1>c, <1>0, NoPaneFits DEF Small
  <2> QED
    BY <2>1, <2>2
<1>6. FocusInside'
  <2> SUFFICES ASSUME NEW h \in Groups, panes'[h] # {} PROVE focused'[h] \in panes'[h]
    BY DEF FocusInside, Exists
  <2>1. CASE \E t \in panes[g] : home[t] = h
    BY <2>1, <1>b
  <2>2. CASE \A t \in panes[g] : home[t] # h
    BY <2>2, <1>c, <1>0 DEF FocusInside, Exists
  <2> QED
    BY <2>1, <2>2
<1>7. OneIsShown'
  BY <1>a, <1>b DEF OneIsShown, Exists
<1> QED
  BY <1>1, <1>2, <1>3, <1>4, <1>5, <1>6, <1>7, GroupsPartsNext DEF GroupsInv

LEMMA ResetSafe == ASSUME Reset PROVE GroupsInv'
<1>1. GroupsTypeOK'
  BY TabGroupsAssumption DEF Reset, GroupsTypeOK
<1>2. Covered' /\ Apart' /\ OnlyOpenTabs' /\ FocusInside' /\ OneIsShown'
  BY TabGroupsAssumption DEF Reset, Covered, Apart, OnlyOpenTabs, FocusInside, OneIsShown, Exists
<1>3. Small'
  BY NoPaneFits DEF Reset, Small
<1> QED
  BY <1>1, <1>2, <1>3, GroupsPartsNext DEF GroupsInv

LEMMA GroupsNextSafe == GroupsInv /\ [GroupsNext]_groupVars => GroupsInv'
<1> SUFFICES ASSUME GroupsInv, [GroupsNext]_groupVars PROVE GroupsInv'
  OBVIOUS
<1>1. CASE GroupsNext
  BY <1>1, OpenTabSafe, SetActiveTabSafe, SetActiveGroupSafe, SetDraggingGroupSafe, RemovePanesSafe,
     MergeGroupIntoSafe, DetachPaneSafe, UngroupSafe, ResetSafe DEF GroupsNext
<1>2. CASE UNCHANGED groupVars
  BY <1>2 DEF groupVars, GroupsInv, GroupsTypeOK, EveryTabHasItsPane, ActiveTabIsShown, Exists
<1> QED
  BY <1>1, <1>2

-----------------------------------------------------------------------------
(***************************************************************************)
(* The inductive invariant: types, panes and focus together.               *)
(***************************************************************************)
THEOREM GroupsInvariant == GroupsSpec => []GroupsInv
BY GroupsInitSafe, GroupsNextSafe, PTL DEF GroupsSpec

(***************************************************************************)
(* Every reachable arrangement of tabs is well typed.                      *)
(***************************************************************************)
THEOREM GroupsTypeCorrect == GroupsSpec => []GroupsTypeOK
BY GroupsInvariant, PTL DEF GroupsInv

(***************************************************************************)
(* However groups are dragged, dropped, split and closed, every open tab   *)
(* is a pane of exactly one group, and no group outgrows a split.          *)
(***************************************************************************)
THEOREM TabsHavePanes == GroupsSpec => []EveryTabHasItsPane
BY GroupsInvariant, PTL DEF GroupsInv

(***************************************************************************)
(* The active tab is always the focus of the active group, and there is an *)
(* active group as long as there is any.                                   *)
(***************************************************************************)
THEOREM ActiveIsShown == GroupsSpec => []ActiveTabIsShown
BY GroupsInvariant, PTL DEF GroupsInv

-----------------------------------------------------------------------------
(***************************************************************************)
(* The explorer.  An open node is a node; a group comes filled and is      *)
(* never asked for by itself.  A node whose loading mark no disconnect has *)
(* dropped is loaded by one call at a time, and that call brings lists     *)
(* that are not older than those it replaces.                              *)
(***************************************************************************)
InFlight(l) == calls[l].at \in {"asked", "answered", "failed"}
\* The node whose call brings the list of j.
Filler(j) == IF Kind[j] = "group" THEN Parent[j] ELSE j
CallRecords == [at : {"free", "asked", "answered", "failed"}, id : Ids \union {NoId},
                lists : SUBSET [id : Ids, kids : SUBSET Ids], read : Nat]

CallsSound ==
    /\ calls \in [Loads -> CallRecords]
    /\ \A l \in Loads :
         /\ InFlight(l) => calls[l].id \in Ids /\ Kind[calls[l].id] # "group"
         /\ calls[l].at = "answered" =>
              \E catalogue \in SUBSET Ids : calls[l].lists = Result(calls[l].id, catalogue)

GroupsFilled ==
    /\ \A i \in nodes : Kind[i] = "group" => children[i] # NotLoaded
    /\ \A i \in errors : Kind[i] # "group"

OneLoadPerNode ==
    \A l \in Loads : InFlight(l) /\ calls[l].id \notin stray =>
      /\ calls[l].id \in loading
      /\ \A k \in Loads : InFlight(k) /\ calls[k].id = calls[l].id => k = l

NoneOlder ==
    /\ \A i \in Ids : readAt[i] <= changes
    /\ \A l \in Loads : calls[l].at = "answered" => calls[l].read <= changes
    /\ \A l \in Loads, j \in Ids :
         calls[l].at = "answered" /\ calls[l].id \notin stray /\ Filler(j) = calls[l].id => readAt[j] <= calls[l].read

ExplorerInv ==
    /\ ExplorerTypeOK /\ expanded \subseteq nodes
    /\ CallsSound /\ GroupsFilled /\ OneLoadPerNode /\ NoneOlder
    /\ TreeIsWhole /\ OpenNodeShowsSomething

\* Above, without the node itself taken out.
Up(i) == {j \in Ids : \A S \in SUBSET Ids : ClosedAbove(S) /\ Parent[i] \in S => j \in S}

LEMMA UpIsClosed ==
    ASSUME NEW i \in Ids
    PROVE  Up(i) \subseteq Ids /\ ClosedAbove(Up(i)) /\ Parent[i] \in Up(i) /\ Above[i] = Up(i) \ {i}
<1>1. Up(i) \subseteq Ids /\ Parent[i] \in Up(i)
  BY ExplorerAssumption DEF Up
<1>2. ClosedAbove(Up(i))
  <2> SUFFICES ASSUME NEW k \in Up(i) PROVE Parent[k] \in Up(i)
    BY DEF ClosedAbove
  <2>1. ASSUME NEW S \in SUBSET Ids, ClosedAbove(S), Parent[i] \in S PROVE Parent[k] \in S
    BY <2>1 DEF Up, ClosedAbove
  <2> QED
    BY <2>1, ExplorerAssumption DEF Up
<1>3. Above[i] = Up(i) \ {i}
  BY DEF Above, Up
<1> QED
  BY <1>1, <1>2, <1>3

\* What is above a node is its parent and what is above that.
LEMMA UpOfParent ==
    ASSUME NEW i \in Ids
    PROVE  Up(i) = {Parent[i]} \union Up(Parent[i])
<1> DEFINE p == Parent[i]
<1>0. p \in Ids
  BY ExplorerAssumption
<1>1. ASSUME NEW j \in Up(i) PROVE j \in {p} \union Up(p)
  <2> DEFINE S == {p} \union Up(p)
  <2>1. S \in SUBSET Ids /\ ClosedAbove(S) /\ p \in S
    BY <1>0, UpIsClosed DEF ClosedAbove
  <2> QED
    BY <1>1, <2>1 DEF Up
<1>2. ASSUME NEW j \in Up(p) PROVE j \in Up(i)
  <2>1. Up(i) \in SUBSET Ids /\ ClosedAbove(Up(i)) /\ Parent[p] \in Up(i)
    BY <1>0, UpIsClosed DEF ClosedAbove
  <2> QED
    BY <1>2, <2>1 DEF Up
<1>3. p \in Up(i)
  BY UpIsClosed
<1> QED
  BY <1>1, <1>2, <1>3

LEMMA AboveChild ==
    ASSUME NEW i \in Ids, Parent[i] # i
    PROVE  Above[i] = {Parent[i]} \union Above[Parent[i]] /\ i \notin Above[Parent[i]]
<1>0. Parent[i] \in Ids
  BY ExplorerAssumption
<1>1. Above[i] = Up(i) \ {i} /\ Above[Parent[i]] = Up(Parent[i]) \ {Parent[i]} /\ Parent[i] \in Up(i)
  BY <1>0, UpIsClosed
<1>2. i \notin Above[Parent[i]]
  BY <1>0, <1>1, PathsGetLonger
<1> QED
  BY <1>1, <1>2, UpOfParent

LEMMA AboveRoot ==
    ASSUME NEW i \in Ids, Parent[i] = i
    PROVE  Above[i] = {}
<1>1. {i} \in SUBSET Ids /\ ClosedAbove({i}) /\ Parent[i] \in {i}
  BY DEF ClosedAbove
<1>2. \A j \in Up(i) : j = i
  BY <1>1 DEF Up
<1> QED
  BY <1>2, UpIsClosed

\* What the list of a node names is below it, and below whatever it is below.
LEMMA ListedAreDescendants ==
    ASSUME ExplorerTypeOK, NEW i \in Ids, NEW j \in Descendants(i) \union {i}, NEW m \in ListOf(j)
    PROVE  m \in Descendants(i)
<1>1. j \in Ids /\ m \in Ids /\ Parent[m] = j /\ m # j
  BY DEF ExplorerTypeOK, ListOf, Below, Descendants
<1>2. Above[m] = {j} \union Above[j]
  BY <1>1, AboveChild
<1>3. CASE j = i
  <2>1. Above[m] \ ({i} \union Above[i]) = {}
    BY <1>2, <1>3
  <2> QED
    BY <1>1, <1>2, <1>3, <2>1 DEF Descendants
<1>4. CASE j \in Descendants(i)
  <2>1. i \in Above[j] /\ \A k \in {j} \union (Above[j] \ ({i} \union Above[i])) : k \in ListOf(Parent[k])
    BY <1>4 DEF Descendants
  <2>2. \A k \in {m} \union (Above[m] \ ({i} \union Above[i])) : k \in ListOf(Parent[k])
    BY <1>1, <1>2, <2>1
  <2> QED
    BY <1>1, <1>2, <2>1, <2>2 DEF Descendants
<1> QED
  BY <1>3, <1>4

\* A descendant is in the list of its parent, which is one too, or the node.
LEMMA ParentsOfDescendants ==
    ASSUME NEW i \in Ids, NEW j \in Descendants(i)
    PROVE  /\ j \in Ids /\ j # i /\ Parent[j] # j /\ j \in ListOf(Parent[j])
           /\ Parent[j] \in Descendants(i) \union {i}
<1>1. j \in Ids /\ i \in Above[j] /\ \A k \in {j} \union (Above[j] \ ({i} \union Above[i])) : k \in ListOf(Parent[k])
  BY DEF Descendants
<1>2. j # i /\ Parent[j] # j
  BY <1>1, AboveRoot, UpIsClosed
<1>3. Parent[j] \in Ids /\ Above[j] = {Parent[j]} \union Above[Parent[j]]
  BY <1>1, <1>2, AboveChild, ExplorerAssumption
<1>4. ASSUME Parent[j] # i PROVE Parent[j] \in Descendants(i)
  <2>1. i \in Above[Parent[j]]
    BY <1>1, <1>3, <1>4
  <2>2. Parent[j] \notin Above[i]
    BY <1>3, <2>1, PathsGetLonger
  <2> QED
    BY <1>1, <1>3, <1>4, <2>1, <2>2 DEF Descendants
<1> QED
  BY <1>1, <1>2, <1>4

\* No id is a mark: a list that is there is not NotLoaded.
LEMMA ListsAreLoaded ==
    ASSUME NEW S \in SUBSET Ids
    PROVE  S # NotLoaded
BY ExplorerAssumption DEF NotLoaded

LEMMA Unlisted ==
    ASSUME ExplorerInv
    PROVE  /\ \A i \in Ids : children[i] = NotLoaded \/ (children[i] \subseteq Below(i) /\ children[i] \subseteq nodes)
           /\ \A i \in nodes : i \in roots \/ (Parent[i] \in nodes /\ children[Parent[i]] # NotLoaded /\ i \in children[Parent[i]])
           /\ \A i \in roots : i \in Ids /\ Parent[i] = i
           /\ \A i \in Ids : Kind[i] = "group" => Parent[i] # i /\ Kind[Parent[i]] = "schema"
<1>1. \A i \in roots : i \in Ids /\ Parent[i] = i
  BY ExplorerAssumption DEF ExplorerInv, ExplorerTypeOK, Servers
<1>2. \A i \in Ids : Kind[i] = "group" => Parent[i] # i /\ Kind[Parent[i]] = "schema"
  BY ExplorerAssumption
<1>3. \A i \in Ids : children[i] = NotLoaded \/ (children[i] \subseteq Below(i) /\ children[i] \subseteq nodes)
  BY DEF ExplorerInv, ExplorerTypeOK, TreeIsWhole, ListOf
<1>4. ASSUME NEW i \in nodes, i \notin roots
      PROVE  Parent[i] \in nodes /\ children[Parent[i]] # NotLoaded /\ i \in children[Parent[i]]
  <2>1. i \in Ids /\ Parent[i] \in Ids
    BY ExplorerAssumption DEF ExplorerInv, ExplorerTypeOK
  <2>2. i \in ListOf(Parent[i])
    BY <1>4 DEF ExplorerInv, TreeIsWhole
  <2>3. children[Parent[i]] # NotLoaded /\ i \in children[Parent[i]]
    BY <2>2 DEF ListOf
  <2> QED
    BY <2>1, <2>3 DEF ExplorerInv, TreeIsWhole
<1> QED
  BY <1>1, <1>2, <1>3, <1>4

LEMMA ExplorerInitSafe == ExplorerInit => ExplorerInv
<1> SUFFICES ASSUME ExplorerInit PROVE ExplorerInv
  OBVIOUS
<1>1. ExplorerTypeOK /\ expanded \subseteq nodes
  <2>1. changes \in 0 .. MaxChanges /\ made \in 0 .. MaxLoads /\ readAt \in [Ids -> 0 .. MaxChanges]
    BY ExplorerAssumption DEF ExplorerInit
  <2>2. nodes \subseteq Ids /\ roots \subseteq Servers
    BY DEF ExplorerInit, Servers
  <2> QED
    BY <2>1, <2>2 DEF ExplorerInit, ExplorerTypeOK
<1>2. CallsSound /\ OneLoadPerNode
  <2>1. Free \in CallRecords
    BY DEF Free, CallRecords
  <2>2. \A l \in Loads : calls[l].at = "free"
    BY DEF ExplorerInit, Free
  <2> QED
    BY <2>1, <2>2 DEF ExplorerInit, CallsSound, OneLoadPerNode, InFlight
<1>3. GroupsFilled
  BY DEF ExplorerInit, GroupsFilled, Servers
<1>4. NoneOlder
  BY DEF ExplorerInit, NoneOlder, Free
<1>5. TreeIsWhole /\ OpenNodeShowsSomething
  BY DEF ExplorerInit, TreeIsWhole, ListOf, OpenNodeShowsSomething
<1> QED
  BY <1>1, <1>2, <1>3, <1>4, <1>5 DEF ExplorerInv

-----------------------------------------------------------------------------
\* Subtrees are removed whole: what stays keeps its list, and is in one.
LEMMA RemoveSafe ==
    ASSUME ExplorerInv, NEW ids \in SUBSET roots, NEW keepRoots \in BOOLEAN,
           RemoveSubtrees(ids, keepRoots), roots' = IF keepRoots THEN roots ELSE roots \ ids,
           connected' \subseteq connected, UNCHANGED <<calls, made, exists, changes>>
    PROVE  ExplorerInv'
<1> DEFINE below == UNION {Descendants(i) : i \in ids}
           removed == below \union (IF keepRoots THEN {} ELSE ids)
           emptied == removed \union ids
<1>0. ExplorerTypeOK /\ expanded \subseteq nodes
  BY DEF ExplorerInv
<1>c. /\ nodes' = nodes \ removed
      /\ children' = [i \in Ids |-> IF i \in emptied THEN NotLoaded ELSE children[i]]
      /\ readAt' = [i \in Ids |-> IF i \in emptied THEN 0 ELSE readAt[i]]
      /\ expanded' = expanded \ emptied /\ loading' = loading \ removed /\ errors' = errors \ emptied
      /\ selected' = SelectionWithout(removed)
      /\ stray' = stray \union (loading \intersect removed)
  BY Zenon DEF RemoveSubtrees
<1>a. /\ nodes' = nodes \ removed
      /\ \A i \in Ids : children'[i] = IF i \in emptied THEN NotLoaded ELSE children[i]
      /\ readAt' = [i \in Ids |-> IF i \in emptied THEN 0 ELSE readAt[i]]
      /\ expanded' = expanded \ emptied /\ loading' = loading \ removed /\ errors' = errors \ emptied
      /\ selected' = IF selected \in removed THEN NoId ELSE selected
      /\ stray' = stray \union (loading \intersect removed)
  BY <1>c DEF SelectionWithout
<1>b. /\ removed \subseteq emptied /\ below \subseteq removed
      /\ \A j \in below : j \in Ids /\ Parent[j] # j /\ Parent[j] \in emptied
      /\ \A j \in emptied : \A m \in ListOf(j) : m \in below
      /\ \A j \in emptied \ removed : keepRoots /\ j \in ids
  <2>1. \A i \in ids : i \in Ids
    BY <1>0 DEF ExplorerTypeOK, Servers
  <2>2. \A i \in ids : \A j \in Descendants(i) : j \in Ids /\ Parent[j] # j /\ Parent[j] \in Descendants(i) \union {i}
    BY <2>1, ParentsOfDescendants
  <2>3. \A i \in ids : \A j \in Descendants(i) \union {i} : \A m \in ListOf(j) : m \in Descendants(i)
    BY <1>0, <2>1, ListedAreDescendants
  <2>4. \A j \in below : \E i \in ids : j \in Descendants(i)
    OBVIOUS
  <2>5. \A j \in emptied : \E i \in ids : j \in Descendants(i) \union {i}
    BY <2>4
  <2>6. \A i \in ids : Descendants(i) \union {i} \subseteq emptied
    OBVIOUS
  <2>7. \A i \in ids : Descendants(i) \subseteq below
    OBVIOUS
  <2> HIDE DEF below
  <2> QED
    BY <2>2, <2>3, <2>4, <2>5, <2>6, <2>7
<1> HIDE DEF below, removed, emptied
<1>1. ExplorerTypeOK'
  <2>1. readAt' \in [Ids -> 0 .. MaxChanges]
    BY <1>0, <1>a, ExplorerAssumption DEF ExplorerTypeOK
  <2>2. \A i \in Ids : children'[i] = NotLoaded \/ children'[i] \subseteq Below(i)
    BY <1>0, <1>a DEF ExplorerTypeOK
  <2>3. selected' \in nodes' \union {NoId}
    BY <1>0, <1>a DEF ExplorerTypeOK
  <2>4. roots' \subseteq Servers /\ connected' \subseteq Servers
    BY <1>0 DEF ExplorerTypeOK
  <2>5. /\ nodes' \subseteq Ids /\ expanded' \subseteq Ids /\ loading' \subseteq Ids
        /\ errors' \subseteq Ids /\ stray' \subseteq Ids
    BY <1>0, <1>a DEF ExplorerTypeOK
  <2> QED
    BY <1>0, <2>1, <2>2, <2>3, <2>4, <2>5 DEF ExplorerTypeOK
<1>2. CallsSound' /\ expanded' \subseteq nodes'
  BY <1>0, <1>a, <1>b DEF ExplorerInv, CallsSound, InFlight
<1>3. GroupsFilled'
  <2> SUFFICES ASSUME NEW i \in nodes', Kind[i] = "group" PROVE children'[i] # NotLoaded
    BY <1>a DEF ExplorerInv, GroupsFilled
  <2>1. i \in nodes /\ i \in Ids /\ i \notin removed /\ Parent[i] # i
    BY <1>0, <1>a, Unlisted DEF ExplorerTypeOK
  <2>2. i \notin emptied
    BY <1>b, <2>1, Unlisted
  <2> QED
    BY <1>a, <2>1, <2>2 DEF ExplorerInv, GroupsFilled
<1>4. OneLoadPerNode'
  BY <1>a DEF ExplorerInv, OneLoadPerNode, InFlight
<1>5. NoneOlder'
  <2>1. \A i \in Ids : readAt'[i] <= readAt[i] /\ readAt'[i] \in Nat /\ readAt[i] \in Nat /\ changes \in Nat
    BY <1>0, <1>a DEF ExplorerTypeOK
  <2>2. \A l \in Loads : calls[l].read \in Nat
    BY DEF ExplorerInv, CallsSound, CallRecords
  <2>3. \A l \in Loads : calls[l].id \notin stray' => calls[l].id \notin stray
    BY <1>a
  <2>4. \A l \in Loads, j \in Ids :
          calls[l].at = "answered" /\ calls[l].id \notin stray' /\ Filler(j) = calls[l].id => readAt'[j] <= calls[l].read
    BY <2>1, <2>2, <2>3 DEF ExplorerInv, NoneOlder
  <2> QED
    BY <2>1, <2>4 DEF ExplorerInv, NoneOlder, Filler
<1>6. TreeIsWhole'
  <2>1. ASSUME NEW i \in Ids PROVE ListOf(i)' \subseteq nodes'
    <3>1. CASE i \in emptied
      BY <1>a, <3>1 DEF ListOf
    <3>2. CASE i \notin emptied
      <4>1. ListOf(i)' = ListOf(i)
        BY <1>a, <3>2 DEF ListOf
      <4>2. ASSUME NEW m \in ListOf(i) PROVE m \in nodes /\ m \in Ids /\ Parent[m] = i /\ m # i
        BY <1>0, <4>2 DEF ExplorerInv, TreeIsWhole, ExplorerTypeOK, ListOf, Below
      <4>3. ASSUME NEW m \in ListOf(i) PROVE m \notin emptied
        <5>1. m \notin below
          BY <1>b, <4>2, <4>3, <3>2
        <5>2. m \notin ids
          BY <4>2, <4>3, Unlisted
        <5> QED
          BY <5>1, <5>2 DEF emptied, removed
      <4> QED
        BY <1>a, <1>b, <4>1, <4>2, <4>3
    <3> QED
      BY <3>1, <3>2
  <2>2. ASSUME NEW i \in nodes', i \notin roots' PROVE i \in ListOf(Parent[i])'
    <3>1. i \in nodes /\ i \notin removed /\ i \in Ids /\ Parent[i] \in Ids
      BY <1>0, <1>a, <2>2, ExplorerAssumption DEF ExplorerTypeOK
    <3>2. i \notin roots
      BY <3>1, <2>2 DEF removed
    <3>3. i \in ListOf(Parent[i])
      BY <3>1, <3>2 DEF ExplorerInv, TreeIsWhole
    <3>4. Parent[i] \notin emptied
      BY <1>b, <3>1, <3>3
    <3> QED
      BY <1>a, <3>1, <3>3, <3>4 DEF ListOf
  <2>3. ASSUME NEW i \in Ids \ nodes' PROVE children'[i] = NotLoaded
    BY <1>a, <1>b, <2>3 DEF ExplorerInv, TreeIsWhole
  <2> QED
    BY <2>1, <2>2, <2>3 DEF TreeIsWhole
<1>7. OpenNodeShowsSomething'
  BY <1>0, <1>a, <1>b DEF ExplorerInv, OpenNodeShowsSomething, ExplorerTypeOK
<1> QED
  BY <1>1, <1>2, <1>3, <1>4, <1>5, <1>6, <1>7 DEF ExplorerInv

-----------------------------------------------------------------------------
\* A load is started once, and not for a group.
LEMMA LoadSafe ==
    ASSUME ExplorerInv, NEW i \in Ids, Kind[i] # "group", Load(i),
           UNCHANGED <<nodes, children, readAt, changes, stray>>
    PROVE  /\ CallsSound' /\ GroupsFilled' /\ OneLoadPerNode' /\ NoneOlder'
           /\ i \in loading' /\ loading \subseteq loading' /\ loading' \subseteq Ids
           /\ errors' \subseteq errors /\ errors \subseteq errors' \union {i}
           /\ made' \in 0 .. MaxLoads
<1>0. ExplorerTypeOK /\ CallsSound /\ OneLoadPerNode /\ NoneOlder
  BY DEF ExplorerInv
<1>1. CASE Busy(i)
  BY <1>0, <1>1 DEF Load, Busy, ExplorerInv, ExplorerTypeOK, CallsSound, GroupsFilled, OneLoadPerNode,
     NoneOlder, InFlight
<1>2. CASE ~Busy(i)
  <2>1. PICK l \in Loads :
          /\ calls[l].at = "free" /\ made < MaxLoads /\ made' = made + 1
          /\ calls' = [calls EXCEPT ![l] = [at |-> "asked", id |-> i, lists |-> {}, read |-> 0]]
          /\ loading' = loading \union {i} /\ errors' = errors \ {i}
    BY <1>2 DEF Load
  <2> DEFINE asking == [at |-> "asked", id |-> i, lists |-> {}, read |-> 0]
  <2>2. asking \in CallRecords /\ asking.at = "asked" /\ asking.id = i
    BY DEF CallRecords
  <2>3. calls' \in [Loads -> CallRecords] /\ \A k \in Loads : calls'[k] = IF k = l THEN asking ELSE calls[k]
    BY <1>0, <2>1, <2>2 DEF CallsSound
  <2> HIDE DEF asking
  <2>4. CallsSound'
    BY <1>0, <2>2, <2>3 DEF CallsSound, InFlight
  <2>5. GroupsFilled'
    BY <2>1 DEF ExplorerInv, GroupsFilled
  <2>6. \A k \in Loads : InFlight(k) /\ calls[k].id \notin stray => calls[k].id # i
    BY <1>0, <1>2 DEF OneLoadPerNode, Busy
  <2>7. OneLoadPerNode'
    <3> SUFFICES ASSUME NEW k \in Loads, InFlight(k)', calls'[k].id \notin stray
                 PROVE  /\ calls'[k].id \in loading'
                        /\ \A n \in Loads : InFlight(n)' /\ calls'[n].id = calls'[k].id => n = k
      BY DEF OneLoadPerNode
    <3>1. CASE k = l
      BY <2>1, <2>2, <2>3, <2>6, <3>1 DEF InFlight
    <3>2. CASE k # l
      BY <1>0, <2>1, <2>2, <2>3, <2>6, <3>2 DEF InFlight, OneLoadPerNode
    <3> QED
      BY <3>1, <3>2
  <2>8. NoneOlder'
    BY <1>0, <2>2, <2>3 DEF NoneOlder, Filler
  <2>9. made' \in 0 .. MaxLoads
    BY <1>0, <2>1, ExplorerAssumption DEF ExplorerTypeOK
  <2> QED
    BY <1>0, <2>1, <2>4, <2>5, <2>7, <2>8, <2>9 DEF ExplorerTypeOK
<1> QED
  BY <1>1, <1>2

\* Opening a node asks for what it would show.
LEMMA OpenSafe ==
    ASSUME ExplorerInv, NEW i \in nodes,
           UNCHANGED <<nodes, children, readAt, selected, connected, roots, exists, changes, stray>>,
           expanded' = expanded \union {i},
           \/ Kind[i] # "group" /\ Load(i)
           \/ /\ children[i] # NotLoaded /\ UNCHANGED <<loading, errors, calls, made>>
    PROVE  ExplorerInv'
<1>0. ExplorerTypeOK /\ expanded \subseteq nodes /\ i \in Ids
  BY DEF ExplorerInv, ExplorerTypeOK
<1>1. TreeIsWhole'
  BY DEF ExplorerInv, TreeIsWhole, ListOf
<1>2. CASE Kind[i] # "group" /\ Load(i)
  <2>1. ExplorerTypeOK' /\ expanded' \subseteq nodes'
    BY <1>0, <1>2, LoadSafe DEF ExplorerTypeOK
  <2>2. OpenNodeShowsSomething'
    BY <1>0, <1>2, LoadSafe DEF ExplorerInv, OpenNodeShowsSomething
  <2> QED
    BY <1>0, <1>1, <1>2, <2>1, <2>2, LoadSafe DEF ExplorerInv
<1>3. CASE children[i] # NotLoaded /\ UNCHANGED <<loading, errors, calls, made>>
  <2>1. ExplorerTypeOK' /\ expanded' \subseteq nodes'
    BY <1>0, <1>3 DEF ExplorerTypeOK
  <2>2. OpenNodeShowsSomething'
    BY <1>0, <1>3 DEF ExplorerInv, OpenNodeShowsSomething
  <2>3. CallsSound' /\ GroupsFilled' /\ OneLoadPerNode' /\ NoneOlder'
    BY <1>3 DEF ExplorerInv, CallsSound, GroupsFilled, OneLoadPerNode, NoneOlder, InFlight
  <2> QED
    BY <1>1, <2>1, <2>2, <2>3 DEF ExplorerInv
<1> QED
  BY <1>2, <1>3

\* Steps that neither read nor change a list.
LEMMA CloseSafe ==
    ASSUME ExplorerInv, UNCHANGED <<nodes, children, readAt, loading, errors, connected, roots, calls, made, stray>>,
           expanded' \subseteq expanded, selected' \in nodes \union {NoId}, exists' \subseteq Ids,
           changes' \in 0 .. MaxChanges, changes' >= changes
    PROVE  ExplorerInv'
<1>1. ExplorerTypeOK' /\ expanded' \subseteq nodes'
  BY DEF ExplorerInv, ExplorerTypeOK
<1>2. CallsSound' /\ GroupsFilled' /\ OneLoadPerNode'
  BY DEF ExplorerInv, CallsSound, GroupsFilled, OneLoadPerNode, InFlight
<1>3. NoneOlder'
  <2>1. /\ \A i \in Ids : readAt[i] \in Nat
        /\ \A l \in Loads : calls[l].read \in Nat
        /\ changes \in Nat /\ changes' \in Nat
    BY ExplorerAssumption DEF ExplorerInv, ExplorerTypeOK, CallsSound, CallRecords
  <2> QED
    BY <2>1 DEF ExplorerInv, NoneOlder
<1>4. TreeIsWhole' /\ OpenNodeShowsSomething'
  BY DEF ExplorerInv, TreeIsWhole, ListOf, OpenNodeShowsSomething
<1> QED
  BY <1>1, <1>2, <1>3, <1>4 DEF ExplorerInv

LEMMA ToggleSafe ==
    ASSUME ExplorerInv, NEW i \in Ids, Toggle(i)
    PROVE  ExplorerInv'
<1>1. CASE i \in expanded
  BY <1>1, CloseSafe DEF Toggle, ExplorerInv, ExplorerTypeOK
<1>2. CASE i \notin expanded
  <2>1. i \in nodes /\ (Kind[i] = "group" => children[i] # NotLoaded /\ i \notin errors)
    BY DEF Toggle, ExplorerInv, GroupsFilled
  <2> QED
    BY <1>2, <2>1, OpenSafe DEF Toggle
<1> QED
  BY <1>1, <1>2

LEMMA RefreshSafe ==
    ASSUME ExplorerInv, NEW i \in Ids, Refresh(i)
    PROVE  ExplorerInv'
<1> DEFINE target == IF Kind[i] = "group" THEN Parent[i] ELSE i
<1>1. target \in nodes /\ Kind[target] # "group"
  BY Unlisted DEF Refresh
<1>2. expanded' = expanded \union {target} /\ Load(target)
      /\ UNCHANGED <<nodes, children, readAt, selected, connected, roots, exists, changes, stray>>
  BY DEF Refresh
<1> HIDE DEF target
<1> QED
  BY <1>1, <1>2, OpenSafe

LEMMA RestSafe ==
    ASSUME ExplorerInv, NEW i \in Ids, Select(i) \/ CollapseAll \/ Change(i)
    PROVE  ExplorerInv'
<1>0. changes \in 0 .. MaxChanges /\ exists \subseteq Ids /\ selected \in nodes \union {NoId}
  BY DEF ExplorerInv, ExplorerTypeOK
<1>1. CASE Select(i)
  BY <1>0, <1>1, CloseSafe DEF Select
<1>2. CASE CollapseAll
  BY <1>0, <1>2, CloseSafe DEF CollapseAll
<1>3. CASE Change(i)
  <2>1. changes' \in 0 .. MaxChanges /\ changes' >= changes
    BY <1>0, <1>3, ExplorerAssumption DEF Change
  <2>2. exists' \subseteq Ids
    BY <1>0, <1>3 DEF Change
  <2> QED
    BY <1>0, <1>3, <2>1, <2>2, CloseSafe DEF Change
<1> QED
  BY <1>1, <1>2, <1>3

-----------------------------------------------------------------------------
\* What is read is not older than any list that is shown.
LEMMA AnswerSafe ==
    ASSUME ExplorerInv, NEW l \in Loads, Answer(l)
    PROVE  ExplorerInv'
<1>0. /\ ExplorerTypeOK /\ CallsSound /\ OneLoadPerNode /\ NoneOlder
      /\ calls[l].at = "asked" /\ InFlight(l) /\ calls[l].id \in Ids /\ Kind[calls[l].id] # "group"
  BY DEF ExplorerInv, Answer, CallsSound, InFlight
<1> DEFINE i == calls[l].id
<1>1. PICK answer \in CallRecords :
        /\ calls' = [calls EXCEPT ![l] = answer]
        /\ answer.id = i
        /\ \/ answer.at = "answered" /\ answer.lists = Result(i, exists) /\ answer.read = changes
           \/ answer.at = "failed"
  <2>1. CASE calls' = [calls EXCEPT ![l] = [at |-> "answered", id |-> calls[l].id,
                                           lists |-> Result(calls[l].id, exists), read |-> changes]]
    <3> DEFINE answer == [at |-> "answered", id |-> calls[l].id,
                          lists |-> Result(calls[l].id, exists), read |-> changes]
    <3>1. Result(i, exists) \subseteq [id : Ids, kids : SUBSET Ids]
      BY <1>0 DEF Result, Listed, Below, ExplorerTypeOK
    <3>2. changes \in Nat
      BY <1>0, ExplorerAssumption DEF ExplorerTypeOK
    <3>3. answer \in CallRecords
      BY <1>0, <3>1, <3>2 DEF CallRecords
    <3> QED
      BY <2>1, <3>3
  <2>2. CASE calls' = [calls EXCEPT ![l].at = "failed"]
    <3> DEFINE answer == [calls[l] EXCEPT !.at = "failed"]
    <3>1. calls[l] \in CallRecords
      BY <1>0 DEF CallsSound
    <3>2. answer \in CallRecords /\ answer.id = i /\ answer.at = "failed"
      BY <3>1 DEF CallRecords
    <3>3. calls' = [calls EXCEPT ![l] = answer]
      BY <1>0, <2>2 DEF CallsSound
    <3> QED
      BY <3>2, <3>3
  <2> QED
    BY <2>1, <2>2 DEF Answer
<1>2. \A k \in Loads : calls'[k] = IF k = l THEN answer ELSE calls[k]
  BY <1>0, <1>1 DEF CallsSound
<1>3. calls' \in [Loads -> CallRecords]
  BY <1>0, <1>1 DEF CallsSound
<1>4. \A k \in Loads : (InFlight(k)' <=> InFlight(k)) /\ calls'[k].id = calls[k].id
  BY <1>0, <1>1, <1>2 DEF InFlight
<1> HIDE DEF i
<1>5. CallsSound'
  <2> SUFFICES ASSUME NEW k \in Loads
               PROVE  /\ InFlight(k)' => calls'[k].id \in Ids /\ Kind[calls'[k].id] # "group"
                      /\ calls'[k].at = "answered" =>
                           \E catalogue \in SUBSET Ids : calls'[k].lists = Result(calls'[k].id, catalogue)
    BY <1>3 DEF CallsSound
  <2>1. InFlight(k)' => calls'[k].id \in Ids /\ Kind[calls'[k].id] # "group"
    BY <1>0, <1>4 DEF CallsSound
  <2>2. CASE k = l
    BY <1>0, <1>1, <1>2, <2>1, <2>2 DEF ExplorerTypeOK
  <2>3. CASE k # l
    BY <1>0, <1>2, <2>1, <2>3 DEF CallsSound
  <2> QED
    BY <2>2, <2>3
<1>6. UNCHANGED <<nodes, children, readAt, expanded, loading, errors, selected, connected, roots,
                  made, exists, changes, stray>>
  BY DEF Answer
<1>7. OneLoadPerNode'
  BY <1>0, <1>4, <1>6 DEF OneLoadPerNode
<1>8. NoneOlder'
  <2>1. \A j \in Ids : readAt[j] <= changes /\ changes <= changes
    BY <1>0, ExplorerAssumption DEF NoneOlder, ExplorerTypeOK
  <2>2. \A k \in Loads : calls'[k].at = "answered" =>
          \/ calls'[k].read = changes
          \/ calls[k].at = "answered" /\ calls'[k].read = calls[k].read
    BY <1>1, <1>2
  <2>3. ASSUME NEW k \in Loads, calls'[k].at = "answered" PROVE calls'[k].read <= changes
    BY <1>0, <2>1, <2>2, <2>3, ExplorerAssumption DEF NoneOlder, ExplorerTypeOK
  <2>4. ASSUME NEW k \in Loads, NEW j \in Ids, calls'[k].at = "answered",
               calls[k].id \notin stray, Filler(j) = calls[k].id
        PROVE  readAt[j] <= calls'[k].read
    BY <1>0, <2>1, <2>2, <2>4 DEF NoneOlder
  <2> QED
    BY <1>4, <1>6, <2>1, <2>3, <2>4 DEF NoneOlder, Filler
<1> QED
  BY <1>3, <1>5, <1>6, <1>7, <1>8
  DEF ExplorerInv, ExplorerTypeOK, GroupsFilled, TreeIsWhole, ListOf, OpenNodeShowsSomething

\* A call that is over leaves the others as they were.
LEMMA CallOver ==
    ASSUME ExplorerInv, NEW l \in Loads, InFlight(l), calls' = [calls EXCEPT ![l] = Free],
           loading' = loading \ {calls[l].id}, stray' = stray
    PROVE  /\ CallsSound' /\ OneLoadPerNode' /\ calls'[l].at = "free"
           /\ \A k \in Loads : k # l => calls'[k] = calls[k]
<1>0. CallsSound /\ OneLoadPerNode /\ Free \in CallRecords /\ Free.at = "free"
  BY DEF ExplorerInv, Free, CallRecords
<1>1. calls' \in [Loads -> CallRecords] /\ \A k \in Loads : calls'[k] = IF k = l THEN Free ELSE calls[k]
  BY <1>0 DEF CallsSound
<1>2. CallsSound'
  BY <1>0, <1>1 DEF CallsSound, InFlight
<1>3. OneLoadPerNode'
  BY <1>0, <1>1 DEF OneLoadPerNode, InFlight
<1> QED
  BY <1>0, <1>1, <1>2, <1>3

LEMMA LoadFailedSafe ==
    ASSUME ExplorerInv, NEW l \in Loads, LoadFailed(l)
    PROVE  ExplorerInv'
<1>0. ExplorerTypeOK /\ expanded \subseteq nodes /\ InFlight(l) /\ calls[l].id \in Ids /\ Kind[calls[l].id] # "group"
  BY DEF ExplorerInv, LoadFailed, CallsSound, InFlight
<1>1. /\ CallsSound' /\ OneLoadPerNode' /\ calls'[l].at = "free"
      /\ \A k \in Loads : k # l => calls'[k] = calls[k]
  BY <1>0, CallOver DEF LoadFailed
<1>2. /\ loading' = loading \ {calls[l].id} /\ errors' = errors \union {calls[l].id}
      /\ connected' \subseteq connected
      /\ UNCHANGED <<nodes, children, readAt, expanded, selected, roots, made, exists, changes, stray>>
  BY DEF LoadFailed
<1>3. ExplorerTypeOK'
  BY <1>0, <1>2 DEF ExplorerTypeOK
<1>4. GroupsFilled' /\ NoneOlder'
  BY <1>0, <1>1, <1>2 DEF ExplorerInv, GroupsFilled, NoneOlder
<1>5. TreeIsWhole' /\ OpenNodeShowsSomething'
  BY <1>0, <1>2 DEF ExplorerInv, TreeIsWhole, ListOf, OpenNodeShowsSomething
<1> QED
  BY <1>0, <1>1, <1>2, <1>3, <1>4, <1>5 DEF ExplorerInv

-----------------------------------------------------------------------------
(***************************************************************************)
(* An answer that is shown: the nodes it fills, and those it brings.       *)
(***************************************************************************)
Filled(i, catalogue) == {i} \union (IF Kind[i] = "schema" THEN Listed(i, catalogue) ELSE {})
Brought(i, catalogue) == UNION {Listed(k, catalogue) : k \in Filled(i, catalogue)}

LEMMA ResultIs ==
    ASSUME NEW i \in Ids, NEW catalogue \in SUBSET Ids
    PROVE  /\ {r.id : r \in Result(i, catalogue)} = Filled(i, catalogue)
           /\ UNION {r.kids : r \in Result(i, catalogue)} = Brought(i, catalogue)
           /\ \A j \in Filled(i, catalogue) :
                (CHOOSE r \in Result(i, catalogue) : r.id = j).kids = Listed(j, catalogue)
           /\ Filled(i, catalogue) \subseteq Ids /\ Brought(i, catalogue) \subseteq Ids
<1> DEFINE R == Result(i, catalogue)
           F == Filled(i, catalogue)
<1>1. R = {[id |-> j, kids |-> Listed(j, catalogue)] : j \in F}
  BY DEF Result, Filled
<1>2. F \subseteq Ids /\ \A j \in F : Listed(j, catalogue) \subseteq Ids
  BY DEF Filled, Listed, Below
<1> HIDE DEF R, F
<1>3. \A r \in R : r.id \in F /\ r.kids = Listed(r.id, catalogue)
  BY <1>1
<1>4. \A j \in F : \E r \in R : r.id = j /\ r.kids = Listed(j, catalogue)
  <2> SUFFICES ASSUME NEW j \in F PROVE \E r \in R : r.id = j /\ r.kids = Listed(j, catalogue)
    OBVIOUS
  <2>1. [id |-> j, kids |-> Listed(j, catalogue)] \in R
    BY <1>1
  <2> QED
    BY <2>1
<1>5. {r.id : r \in R} = F
  BY <1>3, <1>4
<1>6. UNION {r.kids : r \in R} = UNION {Listed(k, catalogue) : k \in F}
  <2>1. {r.kids : r \in R} = {Listed(k, catalogue) : k \in F}
    BY <1>3, <1>4
  <2> QED
    BY <2>1
<1>7. \A j \in F : (CHOOSE r \in R : r.id = j).kids = Listed(j, catalogue)
  BY <1>3, <1>4
<1>8. Brought(i, catalogue) \subseteq Ids
  BY <1>2 DEF Brought, F
<1> QED
  BY <1>2, <1>5, <1>6, <1>7, <1>8 DEF R, F, Brought

LEMMA ShowIs ==
    ASSUME NEW l \in Loads, NEW i \in Ids, NEW catalogue \in SUBSET Ids,
           calls[l].id = i, calls[l].lists = Result(i, catalogue), Show(l)
    PROVE  LET stale == Descendants(i)
               F == Filled(i, catalogue)
               B == Brought(i, catalogue)
           IN /\ nodes' = (nodes \ stale) \union B
              /\ \A j \in Ids : children'[j] = IF j \in F THEN Listed(j, catalogue)
                                               ELSE IF j \in stale THEN NotLoaded ELSE children[j]
              /\ readAt' = [j \in Ids |-> IF j \in F THEN calls[l].read
                                          ELSE IF j \in stale THEN 0 ELSE readAt[j]]
              /\ expanded' = expanded \ {j \in stale : ~(j \in B /\ j \in F)}
              /\ errors' = errors \ stale
              /\ selected' = IF selected \in stale \ B THEN NoId ELSE selected
              /\ connected' = IF Kind[i] = "server" THEN connected \union {i} ELSE connected
<1> DEFINE R == Result(i, catalogue)
           F == Filled(i, catalogue)
           B == Brought(i, catalogue)
           stale == Descendants(i)
           filled == {r.id : r \in R}
           reloaded == UNION {r.kids : r \in R}
<1>1. /\ filled = F /\ reloaded = B
      /\ \A j \in F : (CHOOSE r \in R : r.id = j).kids = Listed(j, catalogue)
  BY ResultIs
<1>2. /\ nodes' = (nodes \ stale) \union reloaded
      /\ children' = [j \in Ids |-> IF j \in filled THEN (CHOOSE r \in R : r.id = j).kids
                                    ELSE IF j \in stale THEN NotLoaded ELSE children[j]]
      /\ readAt' = [j \in Ids |-> IF j \in filled THEN calls[l].read
                                  ELSE IF j \in stale THEN 0 ELSE readAt[j]]
      /\ expanded' = expanded \ Collapsed(stale, reloaded, filled)
      /\ errors' = errors \ stale
      /\ selected' = SelectionWithout(stale \ reloaded)
      /\ connected' = IF Kind[i] = "server" THEN connected \union {i} ELSE connected
  BY DEF Show
<1> HIDE DEF R, F, B, stale, filled, reloaded
<1>3. /\ nodes' = (nodes \ stale) \union B
      /\ children' = [j \in Ids |-> IF j \in F THEN (CHOOSE r \in R : r.id = j).kids
                                    ELSE IF j \in stale THEN NotLoaded ELSE children[j]]
      /\ readAt' = [j \in Ids |-> IF j \in F THEN calls[l].read
                                  ELSE IF j \in stale THEN 0 ELSE readAt[j]]
      /\ expanded' = expanded \ Collapsed(stale, B, F)
      /\ errors' = errors \ stale
      /\ selected' = SelectionWithout(stale \ B)
  BY <1>1, <1>2
<1>4. \A j \in Ids : children'[j] = IF j \in F THEN Listed(j, catalogue)
                                    ELSE IF j \in stale THEN NotLoaded ELSE children[j]
  BY <1>1, <1>3
<1> QED
  BY <1>2, <1>3, <1>4, Zenon DEF F, B, stale, Collapsed, SelectionWithout

\* Showing a node that is there: its subtree is replaced by what the answer brings.
LEMMA ShowSafe ==
    ASSUME ExplorerInv, NEW l \in Loads, Loaded(l), calls[l].id \in nodes
    PROVE  ExplorerInv'
<1> DEFINE i == calls[l].id
<1>0. ExplorerTypeOK /\ expanded \subseteq nodes /\ CallsSound /\ OneLoadPerNode /\ NoneOlder
  BY DEF ExplorerInv
<1>c. calls[l].at = "answered" /\ InFlight(l) /\ i \in Ids /\ i \in nodes /\ Kind[i] # "group"
  BY <1>0 DEF Loaded, CallsSound, InFlight
<1>1. PICK catalogue \in SUBSET Ids : calls[l].lists = Result(i, catalogue)
  BY <1>0, <1>c DEF CallsSound
<1> DEFINE stale == Descendants(i)
           F == Filled(i, catalogue)
           B == Brought(i, catalogue)
           read == calls[l].read
<1>s. Show(l)
  BY DEF Loaded, StillThere
<1>2. /\ nodes' = (nodes \ stale) \union B
      /\ \A j \in Ids : children'[j] = IF j \in F THEN Listed(j, catalogue)
                                       ELSE IF j \in stale THEN NotLoaded ELSE children[j]
      /\ readAt' = [j \in Ids |-> IF j \in F THEN read ELSE IF j \in stale THEN 0 ELSE readAt[j]]
      /\ expanded' = expanded \ {j \in stale : ~(j \in B /\ j \in F)}
      /\ errors' = errors \ stale
      /\ selected' = IF selected \in stale \ B THEN NoId ELSE selected
      /\ connected' = IF Kind[i] = "server" THEN connected \union {i} ELSE connected
  BY <1>s, <1>c, <1>1, ShowIs
<1>3. /\ loading' = loading \ {i} /\ UNCHANGED <<roots, made, exists, changes, stray>>
      /\ calls' = [calls EXCEPT ![l] = Free]
  BY DEF Loaded
<1>4. /\ CallsSound' /\ OneLoadPerNode' /\ calls'[l].at = "free"
      /\ \A k \in Loads : k # l => calls'[k] = calls[k]
  BY <1>c, <1>3, CallOver
\* The nodes that are filled, brought and stale.
<1>f. /\ F \subseteq Ids /\ B \subseteq Ids /\ i \in F
      /\ \A j \in F : Listed(j, catalogue) \subseteq B /\ Listed(j, catalogue) \subseteq Below(j)
                      /\ Listed(j, catalogue) # NotLoaded
      /\ \A m \in B : Parent[m] \in F /\ m \in Listed(Parent[m], catalogue) /\ m # Parent[m]
      /\ \A j \in F : j # i => j \in B /\ Kind[j] = "group" /\ Parent[j] = i /\ j # Parent[j]
      /\ \A j \in B : Kind[j] = "group" => j \in F
  <2>1. F \subseteq Ids /\ B \subseteq Ids
    BY <1>c, ResultIs
  <2>2. \A j \in Ids : Listed(j, catalogue) \subseteq Below(j) /\ Listed(j, catalogue) \in SUBSET Ids
    BY DEF Listed, Below
  <2>3. \A j \in F : Listed(j, catalogue) \subseteq B /\ Listed(j, catalogue) # NotLoaded
    BY <2>1, <2>2, ListsAreLoaded DEF Brought
  <2>4. \A m \in B : \E j \in F : m \in Listed(j, catalogue)
    BY DEF Brought
  <2>5. \A m \in B : Parent[m] \in F /\ m \in Listed(Parent[m], catalogue) /\ m # Parent[m]
    BY <2>1, <2>2, <2>4 DEF Below
  <2>6. ASSUME NEW j \in F, j # i PROVE j \in B /\ Kind[j] = "group" /\ Parent[j] = i /\ j # Parent[j]
    <3>1. Kind[i] = "schema" /\ j \in Listed(i, catalogue)
      BY <2>6 DEF Filled
    <3>2. j \in Ids /\ Parent[j] = i /\ j # i
      BY <3>1, <2>1, <2>6 DEF Listed, Below
    <3>3. i \in F
      BY DEF Filled
    <3> QED
      BY <3>1, <3>2, <3>3, <2>3, ExplorerAssumption
  <2>7. ASSUME NEW j \in B, Kind[j] = "group" PROVE j \in F
    <3>1. Parent[j] \in F /\ j \in Listed(Parent[j], catalogue) /\ Kind[Parent[j]] = "schema" /\ j \in Ids
      BY <2>1, <2>5, <2>7, ExplorerAssumption
    <3>2. Parent[j] = i
      BY <2>6, <3>1
    <3> QED
      BY <3>1, <3>2 DEF Filled
  <2>8. i \in F
    BY DEF Filled
  <2> QED
    BY <2>1, <2>2, <2>3, <2>5, <2>6, <2>7, <2>8
<1>g. /\ \A j \in stale \union {i} : \A m \in ListOf(j) : m \in stale
      /\ \A j \in stale : j \in Ids /\ j # i /\ Parent[j] \in stale \union {i}
  BY <1>0, <1>c, ListedAreDescendants, ParentsOfDescendants
<1>r. read \in Nat /\ read <= changes /\ changes \in 0 .. MaxChanges
  BY <1>0, <1>c DEF CallsSound, CallRecords, NoneOlder, ExplorerTypeOK
<1> HIDE DEF i, stale, F, B, read
<1>5. ExplorerTypeOK'
  <2>1. readAt' \in [Ids -> 0 .. MaxChanges]
    <3>1. read \in 0 .. MaxChanges /\ 0 \in 0 .. MaxChanges
      BY <1>r, ExplorerAssumption
    <3> QED
      BY <1>0, <1>2, <3>1 DEF ExplorerTypeOK
  <2>2. \A j \in Ids : children'[j] = NotLoaded \/ children'[j] \subseteq Below(j)
    BY <1>0, <1>2, <1>f DEF ExplorerTypeOK
  <2>3. selected' \in nodes' \union {NoId} /\ connected' \subseteq Servers
    BY <1>0, <1>2, <1>c DEF ExplorerTypeOK, Servers
  <2>4. nodes' \subseteq Ids /\ expanded' \subseteq Ids /\ loading' \subseteq Ids /\ errors' \subseteq Ids
    BY <1>0, <1>2, <1>3, <1>f DEF ExplorerTypeOK
  <2> QED
    BY <1>0, <1>3, <2>1, <2>2, <2>3, <2>4 DEF ExplorerTypeOK
<1>6. expanded' \subseteq nodes'
  BY <1>0, <1>2
<1>7. GroupsFilled'
  <2> SUFFICES ASSUME NEW j \in nodes', Kind[j] = "group" PROVE children'[j] # NotLoaded
    BY <1>2 DEF ExplorerInv, GroupsFilled
  <2>1. j \in Ids
    BY <1>0, <1>2, <1>f DEF ExplorerTypeOK
  <2>2. CASE j \in B
    BY <1>2, <1>f, <2>1, <2>2
  <2>3. CASE j \notin B
    <3>1. j \in nodes /\ j \notin stale /\ (j \in F => j = i)
      BY <1>2, <1>f, <2>3
    <3> QED
      BY <1>2, <1>c, <1>f, <2>1, <3>1 DEF ExplorerInv, GroupsFilled
  <2> QED
    BY <2>2, <2>3
<1>8. NoneOlder'
  <2>1. \A j \in Ids : readAt[j] \in Nat /\ readAt[j] <= changes
    BY <1>0 DEF ExplorerTypeOK, NoneOlder
  <2>2. \A k \in Loads : calls'[k].at = "answered" => k # l /\ calls'[k] = calls[k] /\ calls[k].read \in Nat
    BY <1>0, <1>4 DEF CallsSound, CallRecords
  <2>3. \A j \in Ids : readAt'[j] <= changes
    BY <1>2, <1>r, <2>1
  <2>4. ASSUME NEW k \in Loads, NEW j \in Ids, calls'[k].at = "answered",
               calls'[k].id \notin stray, Filler(j) = calls'[k].id
        PROVE  readAt'[j] <= calls'[k].read
    <3>1. k # l /\ calls'[k] = calls[k] /\ readAt[j] <= calls[k].read /\ calls[k].read \in Nat
      BY <1>0, <2>2, <2>4 DEF NoneOlder
    <3>2. calls[k].id # i
      BY <1>0, <1>c, <2>4, <3>1 DEF OneLoadPerNode, InFlight, i
    <3>3. j \notin F
      BY <1>c, <1>f, <2>4, <3>1, <3>2 DEF Filler
    <3> QED
      BY <1>2, <2>1, <3>1, <3>3
  <2> QED
    BY <1>0, <1>3, <2>2, <2>3, <2>4 DEF NoneOlder, Filler
<1>9. TreeIsWhole'
  <2>1. ASSUME NEW j \in Ids PROVE ListOf(j)' \subseteq nodes'
    <3>1. CASE j \in F
      BY <1>2, <1>f, <3>1 DEF ListOf
    <3>2. CASE j \notin F /\ j \in stale
      BY <1>2, <3>2 DEF ListOf
    <3>3. CASE j \notin F /\ j \notin stale
      <4>1. ListOf(j)' = ListOf(j)
        BY <1>2, <3>3 DEF ListOf
      <4>2. ASSUME NEW m \in ListOf(j) PROVE m \in nodes /\ Parent[m] = j
        BY <1>0, <4>2 DEF ExplorerInv, TreeIsWhole, ExplorerTypeOK, ListOf, Below
      <4>3. ASSUME NEW m \in ListOf(j) PROVE m \notin stale
        BY <1>f, <1>g, <3>3, <4>2, <4>3
      <4> QED
        BY <1>2, <4>1, <4>2, <4>3
    <3> QED
      BY <3>1, <3>2, <3>3
  <2>2. ASSUME NEW n \in nodes', n \notin roots' PROVE n \in ListOf(Parent[n])'
    <3>0. n \in Ids /\ Parent[n] \in Ids
      BY <1>0, <1>2, <1>f, ExplorerAssumption DEF ExplorerTypeOK
    <3>1. CASE n \in B
      BY <1>2, <1>f, <3>0, <3>1 DEF ListOf
    <3>2. CASE n \notin B
      <4>1. n \in nodes /\ n \notin stale /\ n \notin roots
        BY <1>2, <1>3, <2>2, <3>2
      <4>2. n \in ListOf(Parent[n]) /\ Parent[n] \in nodes /\ Parent[n] \notin stale \union {i}
        BY <1>g, <4>1, Unlisted DEF ExplorerInv, TreeIsWhole
      <4>3. Parent[n] \notin F
        <5> SUFFICES ASSUME Parent[n] \in F PROVE FALSE
          OBVIOUS
        <5> DEFINE g == Parent[n]
        <5>1. g \in nodes /\ g # i /\ Kind[g] = "group" /\ Parent[g] = i /\ Parent[g] # g
          BY <1>f, <4>2
        <5>2. g \in ListOf(i)
          BY <5>1, Unlisted DEF ExplorerInv, TreeIsWhole
        <5>3. g \in stale
          BY <1>g, <5>2
        <5> QED
          BY <4>2, <5>3
      <4> QED
        BY <1>2, <3>0, <4>2, <4>3 DEF ListOf
    <3> QED
      BY <3>1, <3>2
  <2>3. ASSUME NEW j \in Ids \ nodes' PROVE children'[j] = NotLoaded
    <3>1. j \notin B /\ (j \in nodes => j \in stale)
      BY <1>2, <2>3
    <3>2. j \notin F
      BY <1>c, <1>f, <1>g, <3>1
    <3> QED
      BY <1>2, <3>1, <3>2 DEF ExplorerInv, TreeIsWhole
  <2> QED
    BY <2>1, <2>2, <2>3 DEF TreeIsWhole
<1>10. OpenNodeShowsSomething'
  <2> SUFFICES ASSUME NEW j \in expanded', j \in nodes'
               PROVE  children'[j] # NotLoaded \/ j \in loading' \/ j \in errors'
    BY DEF OpenNodeShowsSomething
  <2>1. j \in Ids /\ j \in nodes /\ j \in expanded
    BY <1>0, <1>2 DEF ExplorerTypeOK
  <2>2. CASE j \in F
    BY <1>2, <1>f, <2>1, <2>2
  <2>3. CASE j \notin F
    <3>1. j \notin stale /\ j # i
      BY <1>2, <1>f, <2>3
    <3> QED
      BY <1>2, <1>3, <2>1, <2>3, <3>1 DEF ExplorerInv, OpenNodeShowsSomething
  <2> QED
    BY <2>2, <2>3
<1> QED
  BY <1>4, <1>5, <1>6, <1>7, <1>8, <1>9, <1>10 DEF ExplorerInv

LEMMA LoadedSafe ==
    ASSUME ExplorerInv, NEW l \in Loads, Loaded(l)
    PROVE  ExplorerInv'
<1>1. CASE calls[l].id \in nodes
  BY <1>1, ShowSafe
<1>2. CASE calls[l].id \notin nodes
  <2>0. ExplorerTypeOK /\ expanded \subseteq nodes /\ InFlight(l)
    BY DEF ExplorerInv, Loaded, InFlight
  <2>1. /\ loading' = loading \ {calls[l].id}
        /\ UNCHANGED <<nodes, children, readAt, expanded, errors, selected, connected, roots, made, exists, changes, stray>>
    BY <1>2 DEF Loaded, StillThere
  <2>2. /\ CallsSound' /\ OneLoadPerNode' /\ calls'[l].at = "free"
        /\ \A k \in Loads : k # l => calls'[k] = calls[k]
    BY <2>0, CallOver DEF Loaded
  <2>3. ExplorerTypeOK' /\ GroupsFilled' /\ TreeIsWhole' /\ OpenNodeShowsSomething'
    BY <1>2, <2>0, <2>1 DEF ExplorerInv, ExplorerTypeOK, GroupsFilled, TreeIsWhole, ListOf, OpenNodeShowsSomething
  <2>4. NoneOlder'
    BY <2>1, <2>2 DEF ExplorerInv, NoneOlder
  <2> QED
    BY <2>0, <2>1, <2>2, <2>3, <2>4 DEF ExplorerInv
<1> QED
  BY <1>1, <1>2

LEMMA ExplorerNextSafe == ExplorerInv /\ [ExplorerNext]_explorerVars => ExplorerInv'
<1> SUFFICES ASSUME ExplorerInv, [ExplorerNext]_explorerVars PROVE ExplorerInv'
  OBVIOUS
<1>1. ASSUME NEW i \in Ids, ResetServer(i) \/ SyncServers({i}) PROVE ExplorerInv'
  <2>1. CASE ResetServer(i)
    <3>1. {i} \in SUBSET roots /\ RemoveSubtrees({i}, TRUE) /\ connected' \subseteq connected
          /\ UNCHANGED <<roots, calls, made, exists, changes>>
      BY <2>1 DEF ResetServer
    <3> QED
      BY <3>1, RemoveSafe
  <2>2. CASE SyncServers({i})
    <3>1. {i} \in SUBSET roots /\ RemoveSubtrees({i}, FALSE) /\ roots' = roots \ {i}
          /\ UNCHANGED <<connected, calls, made, exists, changes>>
      BY <2>2 DEF SyncServers
    <3> QED
      BY <3>1, RemoveSafe
  <2> QED
    BY <1>1, <2>1, <2>2
<1>2. ASSUME NEW i \in Ids, Toggle(i) \/ Refresh(i) \/ Select(i) \/ Change(i) PROVE ExplorerInv'
  BY <1>2, ToggleSafe, RefreshSafe, RestSafe
<1>3. ASSUME NEW l \in Loads, Answer(l) \/ Loaded(l) \/ LoadFailed(l) PROVE ExplorerInv'
  BY <1>3, AnswerSafe, LoadedSafe, LoadFailedSafe
<1>4. ASSUME CollapseAll \/ UNCHANGED explorerVars PROVE ExplorerInv'
  <2>1. changes \in 0 .. MaxChanges /\ changes >= changes /\ exists \subseteq Ids /\ selected \in nodes \union {NoId}
    BY ExplorerAssumption DEF ExplorerInv, ExplorerTypeOK
  <2>2. /\ UNCHANGED <<nodes, children, readAt, loading, errors, selected, connected, roots, calls, made,
                       exists, changes, stray>>
        /\ expanded' \subseteq expanded
    BY <1>4 DEF CollapseAll, explorerVars
  <2> QED
    BY <2>1, <2>2, CloseSafe
<1> QED
  BY <1>1, <1>2, <1>3, <1>4 DEF ExplorerNext

LEMMA ExplorerInvariant == ExplorerSpec => []ExplorerInv
BY ExplorerInitSafe, ExplorerNextSafe, PTL DEF ExplorerSpec

(***************************************************************************)
(* Every reachable tree of the explorer (ExplorerStore) is well typed.     *)
(***************************************************************************)
THEOREM ExplorerTypeCorrect == ExplorerSpec => []ExplorerTypeOK
<1>1. ExplorerInv => ExplorerTypeOK
  BY DEF ExplorerInv
<1> QED
  BY <1>1, ExplorerInvariant, PTL

(***************************************************************************)
(* The tree is whole whatever answers come late: every name in a list is a *)
(* node, and every node that is no server is in the list of its parent     *)
(* (load and removeSubtrees of ExplorerStore).                             *)
(***************************************************************************)
THEOREM TreesAreWhole == ExplorerSpec => []TreeIsWhole
<1>1. ExplorerInv => TreeIsWhole
  BY DEF ExplorerInv
<1> QED
  BY <1>1, ExplorerInvariant, PTL

(***************************************************************************)
(* An open node shows its list, that it loads, or an error (expand and     *)
(* load of ExplorerStore).                                                 *)
(***************************************************************************)
THEOREM OpenNodesShow == ExplorerSpec => []OpenNodeShowsSomething
<1>1. ExplorerInv => OpenNodeShowsSomething
  BY DEF ExplorerInv
<1> QED
  BY <1>1, ExplorerInvariant, PTL

\* A step of the tree replaces no list by an older one.
LEMMA StepGetsNewer ==
    ASSUME ExplorerInv, [ExplorerNext]_explorerVars
    PROVE  \A i \in Ids : {i, Parent[i]} \intersect stray' = {} /\ children[i] # NotLoaded /\ children'[i] # NotLoaded
             => readAt'[i] >= readAt[i]
<1>0. (\A i \in Ids : readAt[i] \in Nat) /\ roots \subseteq Ids
  BY DEF ExplorerInv, ExplorerTypeOK, Servers
<1>1. CASE UNCHANGED readAt
  BY <1>0, <1>1
<1>2. ASSUME NEW ids, NEW keepRoots \in BOOLEAN, RemoveSubtrees(ids, keepRoots), NEW i \in Ids, children'[i] # NotLoaded
      PROVE  readAt'[i] = readAt[i]
  BY <1>2 DEF RemoveSubtrees
<1>3. ASSUME NEW l \in Loads, calls[l].at = "answered", Show(l), stray' = stray,
             NEW j \in Ids, {j, Parent[j]} \intersect stray' = {}, children'[j] # NotLoaded
      PROVE  readAt'[j] >= readAt[j]
  <2> DEFINE i == calls[l].id
  <2>1. i \in Ids /\ Kind[i] # "group" /\ \E catalogue \in SUBSET Ids : calls[l].lists = Result(i, catalogue)
    BY <1>3 DEF ExplorerInv, CallsSound, InFlight
  <2>2. PICK catalogue \in SUBSET Ids : calls[l].lists = Result(i, catalogue)
    BY <2>1
  <2>3. /\ children'[j] = IF j \in Filled(i, catalogue) THEN Listed(j, catalogue)
                          ELSE IF j \in Descendants(i) THEN NotLoaded ELSE children[j]
        /\ readAt'[j] = IF j \in Filled(i, catalogue) THEN calls[l].read
                        ELSE IF j \in Descendants(i) THEN 0 ELSE readAt[j]
    BY <1>3, <2>1, <2>2, ShowIs
  <2>4. j \in Filled(i, catalogue) => Filler(j) = i /\ i \in {j, Parent[j]}
    BY <2>1, ExplorerAssumption DEF Filled, Filler, Listed, Below
  <2>5. Filler(j) = i /\ i \notin stray => readAt[j] <= calls[l].read /\ calls[l].read \in Nat
    BY <1>3 DEF ExplorerInv, NoneOlder, CallsSound, CallRecords
  <2> QED
    BY <1>0, <1>3, <2>3, <2>4, <2>5
<1>4. ASSUME NEW i \in Ids, ResetServer(i) \/ SyncServers({i})
      PROVE  \A j \in Ids : children'[j] # NotLoaded => readAt'[j] >= readAt[j]
  <2>1. RemoveSubtrees({i}, TRUE) \/ RemoveSubtrees({i}, FALSE)
    BY <1>4 DEF ResetServer, SyncServers
  <2>2. \A j \in Ids : children'[j] # NotLoaded => readAt'[j] = readAt[j]
    BY <1>2, <2>1
  <2> QED
    BY <1>0, <2>2
<1>5. ASSUME NEW l \in Loads, Loaded(l)
      PROVE  \A j \in Ids : {j, Parent[j]} \intersect stray' = {} /\ children'[j] # NotLoaded => readAt'[j] >= readAt[j]
  <2>1. CASE StillThere(calls[l].id)
    BY <1>3, <1>5, <2>1 DEF Loaded
  <2>2. CASE ~StillThere(calls[l].id)
    BY <1>0, <1>5, <2>2 DEF Loaded
  <2> QED
    BY <2>1, <2>2
<1> QED
  BY <1>1, <1>4, <1>5 DEF ExplorerNext, explorerVars, Toggle, Refresh, Select, Change, CollapseAll, Answer, LoadFailed

(***************************************************************************)
(* A list is never replaced by one that was read earlier, unless a         *)
(* disconnect dropped the mark of a load that was under way (load of       *)
(* ExplorerStore runs once per node).                                      *)
(***************************************************************************)
THEOREM ListsAreNotReplacedByOlder == ExplorerSpec => ListsGetNewer
<1>1. ExplorerInv /\ [ExplorerNext]_explorerVars =>
        [\A i \in Ids : {i, Parent[i]} \intersect stray' = {} /\ children[i] # NotLoaded /\ children'[i] # NotLoaded
           => readAt'[i] >= readAt[i]]_explorerVars
  BY StepGetsNewer
<1> QED
  BY <1>1, ExplorerInvariant, PTL DEF ExplorerSpec, ListsGetNewer

-----------------------------------------------------------------------------
(***************************************************************************)
(* Diagrams.  A timer or a drag means an open tab; what is on its way, or  *)
(* what the database has, is what the user wants unless a timer or a drag  *)
(* will see to it; and what a tab has read while it loads is that too.     *)
(* A table nudged is only in the layout shown, until a save takes it along *)
(* or the tab closes.                                                      *)
(***************************************************************************)
SomeoneAtWork == timer \/ drag = "moved"

DiagramInv ==
    /\ DiagramTypeOK
    /\ timer \/ drag # "up" \/ nudged => tab = "open"
    /\ tab \in {"closed", "failed"} => saved = NoLayout
    /\ ~lapse =>
         /\ tab = "open" => IF nudged THEN \A p \in Parts \ {"positions", "edges"} : layout[p] = wanted[p] ELSE layout = wanted
         /\ tab = "loading" /\ saved # NoLayout => saved = wanted
         /\ ~SomeoneAtWork => IF sending = {} THEN row = wanted ELSE sending = {wanted}

LEMMA DrawnIsLayout == Drawn \in Layouts /\ 0 \in Versions
BY DiagramAssumption DEF Drawn, Layouts, Versions

LEMMA DiagramInitSafe == DiagramInit => DiagramInv
<1> SUFFICES ASSUME DiagramInit PROVE DiagramInv
  OBVIOUS
<1>1. DiagramTypeOK
  <2>1. arranged \in Versions /\ opened \in 0 .. MaxOpened
    BY DrawnIsLayout, DiagramAssumption DEF DiagramInit
  <2>2. layout \in Layouts /\ row \in Layouts /\ wanted \in Layouts
    BY DrawnIsLayout DEF DiagramInit
  <2> QED
    BY <2>1, <2>2 DEF DiagramInit, DiagramTypeOK
<1> QED
  BY <1>1 DEF DiagramInit, DiagramInv, SomeoneAtWork

\* Sending the whole layout: two at once are a lapse.
LEMMA PersistSafe ==
    ASSUME DiagramInv, timer, PersistLayout, row' = row, drag' = drag
    PROVE  /\ sending' \subseteq Layouts /\ wanted' \in Layouts /\ timer' = FALSE /\ nudged' = FALSE /\ lapse' \in BOOLEAN
           /\ ~lapse' => sending' = {wanted'} /\ wanted' = layout /\ ~lapse
BY DEF DiagramInv, DiagramTypeOK, PersistLayout

\* What opening, reading and reading again do.
LEMMA ReadingSafe ==
    ASSUME DiagramInv,
           \/ OpenDiagram \/ GetDiagramLayout \/ FirstLoad \/ FirstLoadFails \/ TryAgain
           \/ Reload \/ Reloaded \/ ReloadFails
    PROVE  DiagramInv'
<1>1. UNCHANGED <<drag, timer, sending, row, arranged, wanted, nudged>>
  BY DEF OpenDiagram, GetDiagramLayout, FirstLoad, FirstLoadFails, TryAgain, Reload, Reloaded, ReloadFails
<1>2. DiagramTypeOK'
  <2>0. DiagramTypeOK /\ (tab = "closed" => saved = NoLayout)
    BY DEF DiagramInv
  <2>1. opened' \in 0 .. MaxOpened
    BY <2>0, DiagramAssumption
    DEF DiagramTypeOK, OpenDiagram, GetDiagramLayout, FirstLoad, FirstLoadFails, TryAgain,
        Reload, Reloaded, ReloadFails
  <2>2. tab' \in {"closed", "loading", "failed", "open"} /\ reloading' \in BOOLEAN
    BY <2>0
    DEF DiagramTypeOK, OpenDiagram, GetDiagramLayout, FirstLoad, FirstLoadFails, TryAgain,
        Reload, Reloaded, ReloadFails
  <2>3. lapse' \in BOOLEAN
    BY <2>0
    DEF DiagramTypeOK, OpenDiagram, GetDiagramLayout, FirstLoad, FirstLoadFails, TryAgain,
        Reload, Reloaded, ReloadFails
  <2>4. layout' \in Layouts /\ saved' \in Layouts \union {NoLayout}
    BY <2>0, DrawnIsLayout
    DEF DiagramTypeOK, OpenDiagram, GetDiagramLayout, FirstLoad, FirstLoadFails, TryAgain,
        Reload, Reloaded, ReloadFails, KeptOnReload
  <2> QED
    BY <1>1, <2>0, <2>1, <2>2, <2>3, <2>4 DEF DiagramTypeOK
<1>3. CASE OpenDiagram
  BY <1>1, <1>2, <1>3 DEF OpenDiagram, DiagramInv, SomeoneAtWork
<1>4. CASE GetDiagramLayout
  BY <1>1, <1>2, <1>4 DEF GetDiagramLayout, DiagramInv, DiagramTypeOK, SomeoneAtWork
<1>5. CASE FirstLoad \/ FirstLoadFails \/ TryAgain
  BY <1>1, <1>2, <1>5 DEF FirstLoad, FirstLoadFails, TryAgain, DiagramInv, DiagramTypeOK, SomeoneAtWork
<1>6. CASE Reload \/ Reloaded \/ ReloadFails
  BY <1>1, <1>2, <1>6 DEF Reload, Reloaded, ReloadFails, KeptOnReload, DiagramInv, SomeoneAtWork
<1> QED
  BY <1>3, <1>4, <1>5, <1>6

\* What the user does to the layout: it is what is wanted from now on, and a
\* timer or the end of the drag will send it.
LEMMA ArrangingSafe ==
    ASSUME DiagramInv,
           \/ ToggleKeysOnly \/ ChangeLineStyle \/ ChangeWaypoints \/ ResetAnchors
           \/ Reorganize \/ RestoreAllEdges \/ HandleMove
    PROVE  DiagramInv'
<1>1. /\ tab = "open" /\ layout' \in Layouts /\ wanted' = layout' /\ nudged' = FALSE /\ arranged' \in Versions
      /\ UNCHANGED <<tab, saved, reloading, sending, row, opened, lapse>>
  <2>1. ASSUME NEW parts, Arrange(parts) PROVE layout' \in Layouts /\ arranged' \in Versions
    BY <2>1, DiagramAssumption DEF Arrange, Move, Layouts, Versions, DiagramInv, DiagramTypeOK
  <2>2. ASSUME NEW parts, DrawAgain(parts) PROVE layout' \in Layouts /\ arranged' \in Versions
    BY <2>2, DiagramAssumption DEF DrawAgain, Layouts, Versions, DiagramInv, DiagramTypeOK
  <2> QED
    BY <2>1, <2>2 DEF ToggleKeysOnly, ChangeLineStyle, ChangeWaypoints, ResetAnchors, Arranged,
       Reorganize, RestoreAllEdges, DrawAgain, HandleMove, Arrange, Move
<1>2. (timer' = TRUE /\ drag' = "up") \/ (timer' = timer /\ drag' = "moved")
  BY DEF ToggleKeysOnly, ChangeLineStyle, ChangeWaypoints, ResetAnchors, Arranged, ScheduleSave,
         Reorganize, RestoreAllEdges, DrawAgain, HandleMove
<1>3. DiagramTypeOK'
  BY <1>1, <1>2 DEF DiagramInv, DiagramTypeOK
<1> QED
  BY <1>1, <1>2, <1>3 DEF DiagramInv, SomeoneAtWork

\* A nudge shows in the places of tables and the ways of lines alone.
LEMMA NudgeSafe ==
    ASSUME DiagramInv, Nudge
    PROVE  DiagramInv'
<1>1. PICK parts \in {{"positions", "edges"}, {"positions"}} : Move(parts)
  BY DEF Nudge
<1>2. /\ tab = "open" /\ nudged' = TRUE /\ UNCHANGED <<tab, saved, reloading, drag, timer, sending, row, wanted, opened, lapse>>
      /\ layout' = [p \in Parts |-> IF p \in parts THEN arranged' ELSE layout[p]]
  BY <1>1 DEF Nudge, Move
<1>3. layout' \in Layouts /\ arranged' \in Versions
  BY <1>1, DiagramAssumption DEF Move, Layouts, Versions, DiagramInv, DiagramTypeOK
<1>4. \A p \in Parts \ {"positions", "edges"} : layout'[p] = layout[p]
  BY <1>2
<1>5. DiagramTypeOK'
  BY <1>2, <1>3 DEF DiagramInv, DiagramTypeOK
<1>6. ~lapse => \A p \in Parts \ {"positions", "edges"} : layout'[p] = wanted[p]
  BY <1>2, <1>4 DEF DiagramInv
<1> QED
  BY <1>2, <1>5, <1>6 DEF DiagramInv, SomeoneAtWork

LEMMA DraggingSafe ==
    ASSUME DiagramInv, StartDragging \/ HandleUp
    PROVE  DiagramInv'
BY DEF DiagramInv, DiagramTypeOK, StartDragging, HandleUp, SomeoneAtWork

LEMMA TimerFiresSafe ==
    ASSUME DiagramInv, TimerFires
    PROVE  DiagramInv'
<1>1. DiagramTypeOK'
  BY PersistSafe DEF DiagramInv, DiagramTypeOK, TimerFires
<1> QED
  BY <1>1, PersistSafe DEF DiagramInv, TimerFires, SomeoneAtWork

LEMMA CloseDiagramSafe ==
    ASSUME DiagramInv, CloseDiagram
    PROVE  DiagramInv'
<1>1. DiagramTypeOK'
  BY PersistSafe, DrawnIsLayout DEF DiagramInv, DiagramTypeOK, CloseDiagram, FlushOnUnmount
<1>2. timer' = FALSE /\ nudged' = FALSE /\ drag' = "up" /\ tab' = "closed" /\ saved' = NoLayout
  BY PersistSafe DEF CloseDiagram, FlushOnUnmount, DiagramInv, DiagramTypeOK
<1>3. ASSUME ~lapse' PROVE IF sending' = {} THEN row' = wanted' ELSE sending' = {wanted'}
  <2>1. CASE timer
    BY <2>1, <1>3, PersistSafe DEF CloseDiagram, FlushOnUnmount
  <2>2. CASE ~timer
    BY <2>2, <1>3 DEF CloseDiagram, FlushOnUnmount, DiagramInv, SomeoneAtWork
  <2> QED
    BY <2>1, <2>2
<1> QED
  BY <1>1, <1>2, <1>3 DEF DiagramInv

LEMMA SaveDiagramLayoutSafe ==
    ASSUME DiagramInv, NEW l \in sending, SaveDiagramLayout(l)
    PROVE  DiagramInv'
<1>1. DiagramTypeOK'
  BY DEF DiagramInv, DiagramTypeOK, SaveDiagramLayout
<1> QED
  BY <1>1 DEF DiagramInv, SaveDiagramLayout, SomeoneAtWork

LEMMA DiagramNextSafe == DiagramInv /\ [DiagramNext]_diagramVars => DiagramInv'
<1>1. ASSUME DiagramInv, UNCHANGED diagramVars PROVE DiagramInv'
  BY <1>1 DEF diagramVars, DiagramInv, DiagramTypeOK, SomeoneAtWork
<1> QED
  BY <1>1, ReadingSafe, ArrangingSafe, NudgeSafe, DraggingSafe, TimerFiresSafe, CloseDiagramSafe, SaveDiagramLayoutSafe
  DEF DiagramNext

LEMMA DiagramInvariant == DiagramSpec => []DiagramInv
BY DiagramInitSafe, DiagramNextSafe, PTL DEF DiagramSpec

(***************************************************************************)
(* Every reachable state of a diagram tab (DiagramTab) is well typed: no   *)
(* layout is sent or saved that lacks a part.                              *)
(***************************************************************************)
THEOREM DiagramTypeCorrect == DiagramSpec => []DiagramTypeOK
<1>1. DiagramInv => DiagramTypeOK
  BY DEF DiagramInv
<1> QED
  BY <1>1, DiagramInvariant, PTL

(***************************************************************************)
(* Once nothing is left to save, the database has the layout as the user   *)
(* last left it, whatever was dragged, read again, closed and opened since *)
(* (scheduleSave, persistLayout and the unmount effect of DiagramTab), but *)
(* for a table moved by three pixels or less, which starts no save.        *)
(***************************************************************************)
THEOREM ArrangementsAreKept == DiagramSpec => []ArrangementIsKept
<1>1. DiagramInv => ArrangementIsKept
  BY DEF DiagramInv, ArrangementIsKept, SomeoneAtWork
<1> QED
  BY <1>1, DiagramInvariant, PTL

(***************************************************************************)
(* An open diagram shows that layout, before and after it is saved, and    *)
(* nothing else but where a table was put by so small a move.              *)
(***************************************************************************)
THEOREM ArrangementsAreShown == DiagramSpec => []TabShowsArrangement
<1>1. DiagramInv => TabShowsArrangement
  BY DEF DiagramInv, TabShowsArrangement
<1> QED
  BY <1>1, DiagramInvariant, PTL

-----------------------------------------------------------------------------
\* REALTIME TABS OF VULPES.  No connection is left without an owner: the map has
\* it, or the registration that took it out of the map has not come to closing it
\* yet.  What its tab shows in the end is right, because the last event on its
\* way always is (Told).

\* The events on their way stay events.
LEMMA QueueType ==
    ASSUME NEW S, NEW q \in Seq(S)
    PROVE  /\ <<>> \in Seq(S)
           /\ \A e \in S : Append(q, e) \in Seq(S)
           /\ q # <<>> => Head(q) \in S /\ Tail(q) \in Seq(S)
OBVIOUS

Events == {"connecting", "connected", "closed"}

\* The type invariant in two parts: the window's, and the backend's.
WindowTypeOK ==
    /\ stream \in BOOLEAN /\ listening \in BOOLEAN /\ crossed \in BOOLEAN
    /\ status \in {"idle", "connecting", "connected", "closed", "gone"}
    /\ queue \in Seq(Events)
    /\ closeCalls \in 0 .. 2 /\ asked \in 0 .. MaxConnects

BackendTypeOK ==
    /\ attempt \in [Conns -> CallPhases] /\ session \in [Conns -> SessionPhases]
    /\ registered \in Conns \union {NoConn} /\ replaced \in [Conns -> Conns \union {NoConn}]

\* A closed tab neither listens nor closes again, and a connection that was
\* not asked for has no call.
Unasked == \A c \in Conns : c > asked => attempt[c] = "none"
GoneIsGone == IF status = "gone" THEN ~listening ELSE closeCalls <= 1

RealtimeInv == BackendTypeOK /\ WindowTypeOK /\ Unasked /\ GoneIsGone /\ EverySessionIsOwned

LEMMA TypeInTwo == RealtimeTypeOK <=> BackendTypeOK /\ WindowTypeOK
BY DEF RealtimeTypeOK, BackendTypeOK, WindowTypeOK, Events

\* NoConn is no connection.
LEMMA NoConnIsNone == NoConn \notin Conns
BY RealtimeAssumption DEF NoConn, Conns

LEMMA RealtimeInitSafe == RealtimeInit => RealtimeInv
<1> SUFFICES ASSUME RealtimeInit PROVE RealtimeInv
  OBVIOUS
<1>1. BackendTypeOK
  BY DEF RealtimeInit, BackendTypeOK, CallPhases, SessionPhases
<1>2. EverySessionIsOwned
  BY DEF RealtimeInit, EverySessionIsOwned
<1>3. WindowTypeOK
  <2>1. queue \in Seq(Events)
    BY DEF RealtimeInit
  <2>2. closeCalls \in 0 .. 2 /\ asked \in 0 .. MaxConnects
    BY RealtimeAssumption DEF RealtimeInit
  <2>3. stream \in BOOLEAN /\ listening \in BOOLEAN /\ crossed \in BOOLEAN /\ status = "idle"
    BY DEF RealtimeInit
  <2> QED
    BY <2>1, <2>2, <2>3 DEF WindowTypeOK
<1>4. Unasked /\ GoneIsGone
  BY DEF RealtimeInit, Unasked, GoneIsGone
<1> QED
  BY <1>1, <1>2, <1>3, <1>4 DEF RealtimeInv

-----------------------------------------------------------------------------
(***************************************************************************)
(* What the window keeps, step by step.                                    *)
(***************************************************************************)
\* The steps of the backend only announce.
LEMMA BackendStepWindow ==
    ASSUME RealtimeInv, NEW c \in Conns,
           \/ Refuse(c) \/ Dial(c) \/ DialFails(c) \/ RegisterSession(c) \/ Announce(c)
           \/ AnnouncedInVain(c) \/ ReadEnds(c) \/ ForgetSession(c) \/ Answered(c)
    PROVE  WindowTypeOK' /\ GoneIsGone' /\ Unasked'
<1>0. WindowTypeOK /\ BackendTypeOK /\ Unasked /\ GoneIsGone
  BY DEF RealtimeInv
<1>1. /\ UNCHANGED <<stream, listening, crossed, status, closeCalls, asked>>
      /\ queue' = queue \/ \E e \in Events : queue' = Append(queue, e)
  BY DEF Refuse, Dial, DialFails, RegisterSession, Announce, AnnouncedInVain, ReadEnds,
         ForgetSession, Answered, Events
<1>2. queue' \in Seq(Events)
  BY <1>0, <1>1, QueueType DEF WindowTypeOK
<1>3. WindowTypeOK' /\ GoneIsGone'
  BY <1>0, <1>1, <1>2 DEF WindowTypeOK, GoneIsGone
<1>4. attempt' = attempt \/ (attempt[c] # "none" /\ \E p \in CallPhases : attempt' = [attempt EXCEPT ![c] = p])
  BY DEF Refuse, Dial, DialFails, RegisterSession, Announce, AnnouncedInVain, ReadEnds,
         ForgetSession, Answered, CallPhases
<1>5. Unasked'
  BY <1>0, <1>1, <1>4 DEF Unasked, BackendTypeOK
<1> QED
  BY <1>3, <1>5

LEMMA WindowStepWindow ==
    ASSUME RealtimeInv, Connect \/ Deliver \/ Disconnect \/ CloseTab \/ LoggedOut \/ CloseSession
    PROVE  WindowTypeOK' /\ GoneIsGone' /\ Unasked'
<1>0. WindowTypeOK /\ BackendTypeOK /\ Unasked /\ GoneIsGone
  BY DEF RealtimeInv
<1>1. CASE Connect
  <2>1. status # "gone"
    BY <1>1 DEF Connect, MayConnect
  <2>2. WindowTypeOK' /\ GoneIsGone'
    BY <1>0, <1>1, <2>1, RealtimeAssumption DEF Connect, WindowTypeOK, GoneIsGone
  <2>3. Unasked'
    BY <1>0, <1>1, RealtimeAssumption DEF Connect, Unasked, WindowTypeOK, BackendTypeOK, Conns
  <2> QED
    BY <2>2, <2>3
<1>2. CASE Deliver
  <2>1. Head(queue) \in Events /\ queue' \in Seq(Events)
    BY <1>0, <1>2, QueueType DEF Deliver, WindowTypeOK
  <2> QED
    BY <1>0, <1>2, <2>1 DEF Deliver, WindowTypeOK, GoneIsGone, Unasked, Events
<1>3. CASE Disconnect
  BY <1>0, <1>3 DEF Disconnect, WindowTypeOK, GoneIsGone, Unasked
<1>4. CASE CloseTab \/ LoggedOut
  <2>1. closeCalls' \in 0 .. 2
    BY <1>0, <1>4 DEF CloseTab, LoggedOut, WindowTypeOK, GoneIsGone
  <2>2. /\ status' = "gone" /\ listening' = FALSE
        /\ UNCHANGED <<stream, crossed, queue, asked, attempt>>
    BY <1>4 DEF CloseTab, LoggedOut
  <2> QED
    BY <1>0, <2>1, <2>2 DEF WindowTypeOK, GoneIsGone, Unasked
<1>5. CASE CloseSession
  BY <1>0, <1>5 DEF CloseSession, WindowTypeOK, GoneIsGone, Unasked
<1> QED
  BY <1>1, <1>2, <1>3, <1>4, <1>5

LEMMA FailConnectionWindow ==
    ASSUME RealtimeInv, NEW c \in Conns, FailConnection(c)
    PROVE  WindowTypeOK' /\ GoneIsGone' /\ Unasked'
<1>1. WindowTypeOK' /\ GoneIsGone'
  BY DEF RealtimeInv, FailConnection, NoLongerListening, WindowTypeOK, GoneIsGone
<1>2. Unasked'
  BY DEF RealtimeInv, FailConnection, Unasked, BackendTypeOK
<1> QED
  BY <1>1, <1>2

-----------------------------------------------------------------------------
(***************************************************************************)
(* The sessions and their owners, step by step.                            *)
(***************************************************************************)
BackendInv == BackendTypeOK /\ EverySessionIsOwned

\* Steps that leave the sessions and their owners as they are.
LEMMA OwnersSafe ==
    ASSUME RealtimeInv, UNCHANGED <<session, registered, replaced>>, attempt' \in [Conns -> CallPhases],
           \A c \in Conns : attempt[c] = "registered" => attempt'[c] = "registered"
    PROVE  BackendInv'
BY DEF RealtimeInv, BackendInv, BackendTypeOK, EverySessionIsOwned

LEMMA WindowStepSafe ==
    ASSUME RealtimeInv, Connect \/ Deliver \/ Disconnect \/ CloseTab \/ LoggedOut
    PROVE  BackendInv'
<1>1. UNCHANGED <<session, registered, replaced>>
  BY DEF Connect, Deliver, Disconnect, CloseTab, LoggedOut
<1>2. CASE Connect
  <2>1. attempt' = [attempt EXCEPT ![asked + 1] = "asked"] /\ asked \in Nat
    BY <1>2 DEF Connect, RealtimeInv, WindowTypeOK
  <2>2. asked + 1 \in Conns => attempt[asked + 1] = "none"
    BY <2>1 DEF RealtimeInv, Unasked
  <2> QED
    BY <2>1, <2>2, <1>1, OwnersSafe DEF RealtimeInv, BackendTypeOK, CallPhases
<1>3. CASE attempt' = attempt
  BY <1>1, <1>3, OwnersSafe DEF RealtimeInv, BackendInv, BackendTypeOK
<1> QED
  BY <1>2, <1>3 DEF Deliver, Disconnect, CloseTab, LoggedOut

LEMMA CallStepSafe ==
    ASSUME RealtimeInv, NEW c \in Conns,
           Refuse(c) \/ Dial(c) \/ DialFails(c) \/ Answered(c) \/ FailConnection(c)
    PROVE  BackendInv'
<1>1. UNCHANGED <<session, registered, replaced>>
  BY DEF Refuse, Dial, DialFails, Answered, FailConnection
<1>2. /\ attempt[c] # "registered"
      /\ \E p \in CallPhases : attempt' = [attempt EXCEPT ![c] = p]
  BY DEF Refuse, Dial, DialFails, Answered, FailConnection, CallPhases
<1> QED
  BY <1>1, <1>2, OwnersSafe DEF RealtimeInv, BackendInv, BackendTypeOK

LEMMA RegisterSessionSafe ==
    ASSUME RealtimeInv, NEW c \in Conns, RegisterSession(c)
    PROVE  BackendInv'
<1>1. BackendTypeOK'
  BY DEF RealtimeInv, BackendInv, BackendTypeOK, RegisterSession, CallPhases, SessionPhases
<1>2. EverySessionIsOwned'
  BY DEF RealtimeInv, BackendInv, BackendTypeOK, EverySessionIsOwned, RegisterSession
<1> QED
  BY <1>1, <1>2 DEF RealtimeInv, BackendInv

\* Closing one session leaves the others as they are, and it is not live then.
LEMMA ClosedIsClosed ==
    ASSUME BackendTypeOK, NEW c \in Conns \union {NoConn}
    PROVE  /\ Closed(c) \in [Conns -> SessionPhases]
           /\ \A d \in Conns : Closed(c)[d] = "live" => session[d] = "live" /\ d # c
BY NoConnIsNone DEF Closed, BackendTypeOK, SessionPhases

LEMMA AnnounceSafe ==
    ASSUME RealtimeInv, NEW c \in Conns, Announce(c)
    PROVE  BackendInv'
<1>0. BackendTypeOK /\ EverySessionIsOwned
  BY DEF RealtimeInv, BackendInv
<1>a. /\ replaced[c] \in Conns \union {NoConn} /\ session' = Closed(replaced[c])
      /\ attempt' = [attempt EXCEPT ![c] = "up"]
      /\ registered' = registered /\ replaced' = replaced
  BY <1>0 DEF Announce, CloseReplaced, BackendTypeOK
<1>1. BackendTypeOK'
  BY <1>0, <1>a, ClosedIsClosed DEF BackendTypeOK, CallPhases
<1>2. EverySessionIsOwned'
  <2> SUFFICES ASSUME NEW x \in Conns, session'[x] = "live"
               PROVE  registered' = x \/ \E d \in Conns : attempt'[d] = "registered" /\ replaced'[d] = x
    BY DEF EverySessionIsOwned
  <2>1. session[x] = "live" /\ x # replaced[c]
    BY <1>0, <1>a, ClosedIsClosed
  <2> QED
    BY <2>1, <1>0, <1>a DEF EverySessionIsOwned, BackendTypeOK
<1> QED
  BY <1>1, <1>2 DEF RealtimeInv, BackendInv

LEMMA AnnouncedInVainSafe ==
    ASSUME RealtimeInv, NEW c \in Conns, AnnouncedInVain(c)
    PROVE  BackendInv'
<1>0. BackendTypeOK /\ EverySessionIsOwned
  BY DEF RealtimeInv, BackendInv
<1>a. /\ replaced[c] \in Conns \union {NoConn} /\ session' = [Closed(replaced[c]) EXCEPT ![c] = "over"]
      /\ attempt' = [attempt EXCEPT ![c] = "failed"]
      /\ registered' = Without(c) /\ replaced' = replaced
  BY <1>0 DEF AnnouncedInVain, CloseReplaced, BackendTypeOK
<1>1. BackendTypeOK'
  BY <1>0, <1>a, ClosedIsClosed DEF BackendTypeOK, CallPhases, SessionPhases, Without
<1>2. EverySessionIsOwned'
  <2> SUFFICES ASSUME NEW x \in Conns, session'[x] = "live"
               PROVE  registered' = x \/ \E d \in Conns : attempt'[d] = "registered" /\ replaced'[d] = x
    BY DEF EverySessionIsOwned
  <2>1. session[x] = "live" /\ x # replaced[c] /\ x # c
    BY <1>0, <1>a, ClosedIsClosed DEF BackendTypeOK, SessionPhases
  <2> QED
    BY <2>1, <1>0, <1>a DEF EverySessionIsOwned, BackendTypeOK, Without
<1> QED
  BY <1>1, <1>2 DEF RealtimeInv, BackendInv

LEMMA ReadEndsSafe ==
    ASSUME RealtimeInv, NEW c \in Conns, ReadEnds(c)
    PROVE  BackendInv'
BY DEF RealtimeInv, BackendInv, BackendTypeOK, EverySessionIsOwned, ReadEnds, SessionPhases

LEMMA ForgetSessionSafe ==
    ASSUME RealtimeInv, NEW c \in Conns, ForgetSession(c)
    PROVE  BackendInv'
BY DEF RealtimeInv, BackendInv, BackendTypeOK, EverySessionIsOwned, ForgetSession, Without, SessionPhases

LEMMA CloseSessionSafe ==
    ASSUME RealtimeInv, CloseSession
    PROVE  BackendInv'
<1>0. BackendTypeOK /\ EverySessionIsOwned /\ registered \in Conns \union {NoConn}
  BY DEF RealtimeInv, BackendInv, BackendTypeOK
<1>1. BackendTypeOK'
  BY <1>0, ClosedIsClosed DEF BackendTypeOK, CloseSession
<1>2. EverySessionIsOwned'
  BY <1>0, ClosedIsClosed DEF EverySessionIsOwned, CloseSession
<1> QED
  BY <1>1, <1>2 DEF RealtimeInv, BackendInv

LEMMA RealtimeNextSafe == RealtimeInv /\ [RealtimeNext]_realtimeVars => RealtimeInv'
<1> SUFFICES ASSUME RealtimeInv, [RealtimeNext]_realtimeVars PROVE RealtimeInv'
  OBVIOUS
<1>1. ASSUME RealtimeNext PROVE WindowTypeOK' /\ GoneIsGone' /\ Unasked'
  BY <1>1, BackendStepWindow, WindowStepWindow, FailConnectionWindow DEF RealtimeNext
<1>2. ASSUME RealtimeNext PROVE BackendInv'
  BY <1>2, WindowStepSafe, CallStepSafe, RegisterSessionSafe, AnnounceSafe, AnnouncedInVainSafe,
     ReadEndsSafe, ForgetSessionSafe, CloseSessionSafe DEF RealtimeNext
<1>3. CASE UNCHANGED realtimeVars
  BY <1>3 DEF realtimeVars, RealtimeInv, BackendTypeOK, WindowTypeOK, GoneIsGone, Unasked, EverySessionIsOwned
<1> QED
  BY <1>1, <1>2, <1>3 DEF RealtimeInv, BackendInv

-----------------------------------------------------------------------------
(***************************************************************************)
(* The inductive invariant: types, the life of a tab, and owners.          *)
(***************************************************************************)
THEOREM RealtimeInvariant == RealtimeSpec => []RealtimeInv
BY RealtimeInitSafe, RealtimeNextSafe, PTL DEF RealtimeSpec

(***************************************************************************)
(* Every reachable state of a tab and its connections is well typed; in    *)
(* particular no more than two calls to close one are ever on their way.   *)
(***************************************************************************)
THEOREM RealtimeTypeCorrect == RealtimeSpec => []RealtimeTypeOK
<1>1. RealtimeInv => RealtimeTypeOK
  BY TypeInTwo DEF RealtimeInv
<1> QED
  BY <1>1, RealtimeInvariant, PTL

(***************************************************************************)
(* A connection that is up is always in the map, or about to be closed by  *)
(* the one that took its place, however many a tab asks for.               *)
(***************************************************************************)
THEOREM SessionsAreOwned == RealtimeSpec => []EverySessionIsOwned
BY RealtimeInvariant, PTL DEF RealtimeInv
-----------------------------------------------------------------------------
(***************************************************************************)
(* What a tab shows at last: its status once the events on their way have  *)
(* been delivered.  As long as it never asked for a connection while it    *)
(* had one, at most one is AtWork, it listens to that one, and with no     *)
(* call under way what it will show at last is whether that one runs.      *)
(***************************************************************************)
AtWork(c) == Pending(c) \/ Running(c)
Finally == IF listening /\ queue # <<>> THEN queue[Len(queue)] ELSE status

\* A connection runs from its registration on; what the map has is not over.
Phases ==
    /\ \A c \in Conns : attempt[c] \in {"none", "asked", "dialling", "failed"} => ~Running(c)
    /\ \A c \in Conns : attempt[c] = "registered" => Running(c)
    /\ registered # NoConn => session[registered] \in {"live", "closing", "ended"}

OneAtATime ==
    /\ \A c, d \in Conns : AtWork(c) /\ AtWork(d) => c = d
    /\ status # "gone" =>
         /\ (\E c \in Conns : AtWork(c)) => listening
         /\ (\A c \in Conns : ~Pending(c)) => ((Finally = "connected") <=> \E c \in Conns : Running(c))

Told == Phases /\ (~crossed => OneAtATime)

\* The event on its way that comes last.
LEMMA LastEvent ==
    ASSUME NEW S, NEW q \in Seq(S)
    PROVE  /\ \A e \in S : LET r == Append(q, e) IN r # <<>> /\ r[Len(r)] = e
           /\ q # <<>> /\ Tail(q) = <<>> => q[Len(q)] = Head(q)
           /\ q # <<>> /\ Tail(q) # <<>> => Tail(q)[Len(Tail(q))] = q[Len(q)]
<1>1. \A e \in S : LET r == Append(q, e) IN r # <<>> /\ r[Len(r)] = e
  OBVIOUS
<1>2. ASSUME q # <<>> PROVE Len(q) \in Nat /\ Len(q) >= 1 /\ Len(Tail(q)) = Len(q) - 1
  BY <1>2
<1>3. ASSUME q # <<>>, Tail(q) = <<>> PROVE q[Len(q)] = Head(q)
  <2>1. Len(q) = 1
    <3>1. Len(<<>>) = 0
      OBVIOUS
    <3>2. Len(Tail(q)) = 0
      BY <3>1, <1>3, Zenon
    <3> QED
      BY <3>2, <1>2, <1>3
  <2> QED
    BY <2>1, <1>3
<1>4. ASSUME q # <<>>, Tail(q) # <<>> PROVE Tail(q)[Len(Tail(q))] = q[Len(q)]
  <2>1. Tail(q) \in Seq(S) /\ Len(Tail(q)) >= 1
    BY <1>4
  <2>2. \A i \in 1 .. Len(Tail(q)) : Tail(q)[i] = q[i + 1]
    BY <1>4
  <2> QED
    BY <2>1, <2>2, <1>2, <1>4
<1> QED
  BY <1>1, <1>3, <1>4

\* Delivering an event changes nothing of what the tab shows at last.
LEMMA DeliverTold ==
    ASSUME RealtimeInv, Told, Deliver
    PROVE  Told'
<1>a. /\ queue \in Seq(Events) /\ queue # <<>> /\ queue' = Tail(queue)
      /\ status' = IF listening THEN Head(queue) ELSE status
      /\ UNCHANGED <<listening, attempt, session, registered, crossed>>
  BY DEF Deliver, RealtimeInv, WindowTypeOK
<1>1. Finally' = Finally
  BY <1>a, LastEvent DEF Finally
<1>2. status = "gone" => status' = "gone"
  BY <1>a DEF RealtimeInv, GoneIsGone
<1> QED
  BY <1>a, <1>1, <1>2 DEF Told, Phases, OneAtATime, AtWork, Pending, Running

LEMMA ConnectTold ==
    ASSUME RealtimeInv, Told, Connect
    PROVE  Told'
<1>0. BackendTypeOK /\ asked \in Nat
  BY DEF RealtimeInv, WindowTypeOK
<1>a. PICK n \in Conns :
         /\ n > asked /\ attempt' = [attempt EXCEPT ![n] = "asked"]
         /\ listening' = TRUE /\ UNCHANGED <<session, registered>>
         /\ crossed' = (crossed \/ \E c \in Conns : AtWork(c))
  <2>1. asked + 1 \in Conns /\ asked + 1 > asked
    BY <1>0, RealtimeAssumption DEF Connect, Conns
  <2> QED
    BY <2>1 DEF Connect, AtWork
<1>b. attempt[n] = "none"
  BY <1>a DEF RealtimeInv, Unasked
<1>1. Phases'
  BY <1>0, <1>a, <1>b DEF Told, Phases, Running, BackendTypeOK
<1>2. ASSUME ~crossed' PROVE OneAtATime'
  <2>1. \A c \in Conns : AtWork(c)' => c = n
    BY <1>0, <1>a, <1>2 DEF AtWork, Pending, Running, BackendTypeOK
  <2>2. Pending(n)'
    BY <1>0, <1>a DEF Pending, BackendTypeOK
  <2> QED
    BY <2>1, <2>2, <1>a DEF OneAtATime
<1> QED
  BY <1>1, <1>2 DEF Told

\* Refusals, dials and their failures leave the call under way; the answer of
\* a call that succeeded leaves everything told as it is.
LEMMA CallsTold ==
    ASSUME RealtimeInv, Told, NEW c \in Conns, Refuse(c) \/ Dial(c) \/ DialFails(c) \/ Answered(c)
    PROVE  Told'
<1>0. BackendTypeOK
  BY DEF RealtimeInv
<1>a. UNCHANGED <<status, listening, session, registered, crossed>>
  BY DEF Refuse, Dial, DialFails, Answered
<1>1. CASE Refuse(c) \/ Dial(c) \/ DialFails(c)
  <2>1. /\ attempt[c] \in {"asked", "dialling"}
        /\ \E p \in {"dialling", "failed"} : attempt' = [attempt EXCEPT ![c] = p]
    BY <1>1 DEF Refuse, Dial, DialFails
  <2>2. \A d \in Conns : (Pending(d)' <=> Pending(d)) /\ (Running(d)' <=> Running(d))
    BY <1>0, <1>a, <2>1 DEF Pending, Running, BackendTypeOK
  <2>3. Pending(c) /\ Phases'
    BY <1>0, <1>a, <2>1 DEF Told, Phases, Pending, Running, BackendTypeOK
  <2> QED
    BY <1>a, <2>2, <2>3 DEF Told, OneAtATime, AtWork
<1>2. CASE Answered(c)
  <2>1. attempt[c] = "up" /\ attempt' = [attempt EXCEPT ![c] = "answered"]
    BY <1>2 DEF Answered
  <2>2. \A d \in Conns : (Pending(d)' <=> Pending(d)) /\ (Running(d)' <=> Running(d))
    BY <1>0, <1>a, <2>1 DEF Pending, Running, BackendTypeOK
  <2>3. Phases' /\ Finally' = Finally
    BY <1>0, <1>2, <1>a, <2>1 DEF Told, Phases, Running, BackendTypeOK, Finally, Answered
  <2> QED
    BY <1>a, <2>2, <2>3 DEF Told, OneAtATime, AtWork
<1> QED
  BY <1>1, <1>2

LEMMA RegisterTold ==
    ASSUME RealtimeInv, Told, NEW c \in Conns, RegisterSession(c)
    PROVE  Told'
<1>0. BackendTypeOK
  BY DEF RealtimeInv
<1>a. /\ attempt[c] = "dialling" /\ attempt' = [attempt EXCEPT ![c] = "registered"]
      /\ session' = [session EXCEPT ![c] = "live"] /\ registered' = c
      /\ UNCHANGED <<status, listening, queue, crossed>>
  BY DEF RegisterSession
<1>1. Phases'
  BY <1>0, <1>a DEF Told, Phases, Running, BackendTypeOK
<1>2. (\A d \in Conns : AtWork(d)' <=> AtWork(d)) /\ Pending(c) /\ Pending(c)'
  BY <1>0, <1>a DEF AtWork, Pending, Running, BackendTypeOK
<1> QED
  BY <1>1, <1>2, <1>a DEF Told, OneAtATime, AtWork

\* Closing leaves what runs running until its read loop ends.
LEMMA ClosedRuns ==
    ASSUME BackendTypeOK, NEW c \in Conns \union {NoConn}
    PROVE  \A d \in Conns :
             /\ Closed(c)[d] \in {"live", "closing"} <=> session[d] \in {"live", "closing"}
             /\ Closed(c)[d] = session[d] \/ (session[d] = "live" /\ Closed(c)[d] = "closing")
BY NoConnIsNone DEF Closed, BackendTypeOK, SessionPhases

LEMMA AnnounceTold ==
    ASSUME RealtimeInv, Told, NEW c \in Conns, Announce(c)
    PROVE  Told'
<1>0. BackendTypeOK /\ queue \in Seq(Events)
  BY DEF RealtimeInv, WindowTypeOK
<1>a. /\ replaced[c] \in Conns \union {NoConn} /\ session' = Closed(replaced[c])
      /\ attempt[c] = "registered" /\ attempt' = [attempt EXCEPT ![c] = "up"]
      /\ queue' = Append(queue, "connected")
      /\ UNCHANGED <<status, listening, registered, crossed>>
  BY <1>0 DEF Announce, CloseReplaced, BackendTypeOK
<1>b. session' \in [Conns -> SessionPhases] /\ \A d \in Conns :
         /\ session'[d] \in {"live", "closing"} <=> session[d] \in {"live", "closing"}
         /\ session'[d] = session[d] \/ (session[d] = "live" /\ session'[d] = "closing")
  BY <1>0, <1>a, ClosedRuns, ClosedIsClosed
<1>1. Phases'
  BY <1>0, <1>a, <1>b DEF Told, Phases, Running, BackendTypeOK
<1>2. \A d \in Conns : (Running(d)' <=> Running(d)) /\ (Pending(d)' <=> Pending(d) /\ d # c)
  BY <1>0, <1>a, <1>b DEF Running, Pending, BackendTypeOK
<1>3. ASSUME ~crossed', status' # "gone" PROVE OneAtATime'
  <2>1. Pending(c) /\ listening'
    <3>1. AtWork(c) /\ Pending(c)
      BY <1>a DEF Pending, AtWork
    <3> QED
      BY <3>1, <1>a, <1>3 DEF Told, OneAtATime
  <2>2. Finally' = "connected"
    BY <1>0, <1>a, <2>1, LastEvent DEF Finally, Events
  <2>3. Running(c)'
    BY <1>2, <1>a DEF Told, Phases
  <2>4. \A d \in Conns : AtWork(d)' => AtWork(d)
    BY <1>2 DEF AtWork
  <2>5. ~crossed /\ status # "gone"
    BY <1>3, <1>a
  <2> QED
    BY <2>1, <2>2, <2>3, <2>4, <2>5 DEF OneAtATime, Told
<1>4. ASSUME ~crossed', status' = "gone" PROVE OneAtATime'
  BY <1>2, <1>4, <1>a DEF OneAtATime, Told, AtWork
<1> QED
  BY <1>1, <1>3, <1>4 DEF Told

LEMMA AnnouncedInVainTold ==
    ASSUME RealtimeInv, Told, NEW c \in Conns, AnnouncedInVain(c)
    PROVE  Told'
<1>0. BackendTypeOK
  BY DEF RealtimeInv
<1>a. /\ replaced[c] \in Conns \union {NoConn} /\ session' = [Closed(replaced[c]) EXCEPT ![c] = "over"]
      /\ attempt[c] = "registered" /\ attempt' = [attempt EXCEPT ![c] = "failed"]
      /\ registered' = Without(c)
      /\ UNCHANGED <<status, listening, crossed>>
  BY <1>0 DEF AnnouncedInVain, CloseReplaced, BackendTypeOK
<1>b. /\ session'[c] = "over"
      /\ \A d \in Conns \ {c} :
           /\ session'[d] \in {"live", "closing"} <=> session[d] \in {"live", "closing"}
           /\ session'[d] = session[d] \/ (session[d] = "live" /\ session'[d] = "closing")
  BY <1>0, <1>a, ClosedRuns, ClosedIsClosed
<1>1. Phases'
  BY <1>0, <1>a, <1>b DEF Told, Phases, Running, Without, BackendTypeOK, NoConn
<1>2. /\ \A d \in Conns : Running(d)' => Running(d)
      /\ \A d \in Conns : Pending(d)' <=> Pending(d)
      /\ Pending(c)
  BY <1>0, <1>a, <1>b DEF Running, Pending, BackendTypeOK
<1>3. \A d \in Conns : AtWork(d)' => AtWork(d)
  BY <1>2 DEF AtWork
<1>4. ASSUME ~crossed' PROVE OneAtATime'
  BY <1>2, <1>3, <1>4, <1>a DEF OneAtATime, Told
<1> QED
  BY <1>1, <1>4 DEF Told

\* The end of the one connection that runs is the last the tab hears of.
LEMMA ReadEndsTold ==
    ASSUME RealtimeInv, Told, NEW c \in Conns, ReadEnds(c)
    PROVE  Told'
<1>0. BackendTypeOK /\ queue \in Seq(Events)
  BY DEF RealtimeInv, WindowTypeOK
<1>a. /\ attempt[c] \in {"up", "answered"} /\ Running(c) /\ AtWork(c)
      /\ session' = [session EXCEPT ![c] = "ended"] /\ queue' = Append(queue, "closed")
      /\ UNCHANGED <<status, listening, attempt, registered, crossed>>
  BY DEF ReadEnds, AtWork
<1>1. Phases'
  BY <1>0, <1>a DEF Told, Phases, Running, BackendTypeOK
<1>2. \A d \in Conns : (Running(d)' <=> Running(d) /\ d # c) /\ (Pending(d)' <=> Pending(d))
  BY <1>0, <1>a DEF Running, Pending, BackendTypeOK
<1>3. ASSUME ~crossed' PROVE OneAtATime'
  <2>1. \A d \in Conns : AtWork(d)' => AtWork(d)
    BY <1>2 DEF AtWork
  <2>2. \A d \in Conns : ~Running(d)'
    BY <1>2, <1>3, <1>a DEF Told, OneAtATime, AtWork
  <2>3. ASSUME status # "gone" PROVE Finally' = "closed"
    <3>1. listening
      BY <1>3, <1>a, <2>3 DEF Told, OneAtATime
    <3> QED
      BY <3>1, <1>0, <1>a, LastEvent DEF Finally, Events
  <2> QED
    BY <2>1, <2>2, <2>3, <1>3, <1>a DEF Told, OneAtATime
<1> QED
  BY <1>1, <1>3 DEF Told

LEMMA ForgetTold ==
    ASSUME RealtimeInv, Told, NEW c \in Conns, ForgetSession(c)
    PROVE  Told'
<1>0. BackendTypeOK
  BY DEF RealtimeInv
<1>a. /\ session[c] = "ended" /\ session' = [session EXCEPT ![c] = "over"] /\ registered' = Without(c)
      /\ UNCHANGED <<status, listening, queue, attempt, crossed>>
  BY DEF ForgetSession
<1>1. Phases'
  BY <1>0, <1>a DEF Told, Phases, Running, Without, BackendTypeOK, NoConn
<1>2. (\A d \in Conns : (Running(d)' <=> Running(d)) /\ (Pending(d)' <=> Pending(d))) /\ Finally' = Finally
  BY <1>0, <1>a DEF Running, Pending, BackendTypeOK, Finally
<1> QED
  BY <1>1, <1>2, <1>a DEF Told, OneAtATime, AtWork

LEMMA CloseSessionTold ==
    ASSUME RealtimeInv, Told, CloseSession
    PROVE  Told'
<1>0. BackendTypeOK
  BY DEF RealtimeInv
<1>a. /\ registered \in Conns \union {NoConn} /\ session' = Closed(registered) /\ registered' = NoConn
      /\ UNCHANGED <<status, listening, queue, attempt, crossed>>
  BY <1>0 DEF CloseSession, BackendTypeOK
<1>1. \A d \in Conns : (Running(d)' <=> Running(d)) /\ (Pending(d)' <=> Pending(d))
  BY <1>0, <1>a, ClosedRuns DEF Running, Pending
<1>2. Phases' /\ Finally' = Finally
  BY <1>1, <1>a DEF Told, Phases, Finally
<1> QED
  BY <1>1, <1>2, <1>a DEF Told, OneAtATime, AtWork

\* The failure of the one call under way: nothing runs, and the tab listens to
\* nothing more.
LEMMA FailTold ==
    ASSUME RealtimeInv, Told, NEW c \in Conns, FailConnection(c)
    PROVE  Told'
<1>0. BackendTypeOK
  BY DEF RealtimeInv
<1>a. /\ attempt[c] = "failed" /\ attempt' = [attempt EXCEPT ![c] = "answered"]
      /\ listening' = FALSE /\ status' = IF status = "gone" THEN status ELSE "idle"
      /\ UNCHANGED <<queue, session, registered, crossed>>
  BY DEF FailConnection, NoLongerListening
<1>1. Phases'
  BY <1>0, <1>a DEF Told, Phases, Running, BackendTypeOK
<1>2. (\A d \in Conns : (Running(d)' <=> Running(d)) /\ (Pending(d)' <=> Pending(d) /\ d # c)) /\ AtWork(c)
  BY <1>0, <1>a DEF Running, Pending, AtWork, BackendTypeOK
<1>3. ASSUME ~crossed' PROVE OneAtATime'
  <2>1. ~Running(c)
    BY <1>a DEF Told, Phases
  <2>2. \A d \in Conns : ~AtWork(d)'
    BY <1>2, <1>3, <1>a, <2>1 DEF Told, OneAtATime, AtWork
  <2>3. status' # "gone" => Finally' = "idle"
    BY <1>a DEF Finally
  <2> QED
    BY <2>2, <2>3 DEF OneAtATime, AtWork
<1> QED
  BY <1>1, <1>3 DEF Told

LEMMA LeaveTold ==
    ASSUME RealtimeInv, Told, CloseTab \/ LoggedOut
    PROVE  Told'
<1>1. status' = "gone" /\ UNCHANGED <<attempt, session, registered, crossed>>
  BY DEF CloseTab, LoggedOut
<1> QED
  BY <1>1 DEF Told, Phases, OneAtATime, AtWork, Pending, Running

LEMMA NextTold == RealtimeInv /\ Told /\ [RealtimeNext]_realtimeVars => Told'
<1> SUFFICES ASSUME RealtimeInv, Told, [RealtimeNext]_realtimeVars PROVE Told'
  OBVIOUS
<1>1. CASE Deliver \/ Connect \/ CloseSession \/ CloseTab \/ LoggedOut
  BY <1>1, DeliverTold, ConnectTold, CloseSessionTold, LeaveTold
<1>2. ASSUME Disconnect PROVE Told'
  BY <1>2 DEF Disconnect, Told, Phases, OneAtATime, AtWork, Pending, Running, Finally
<1>3. ASSUME NEW c \in Conns, Refuse(c) \/ Dial(c) \/ DialFails(c) \/ Answered(c) PROVE Told'
  BY <1>3, CallsTold
<1>4. ASSUME NEW c \in Conns, RegisterSession(c) \/ Announce(c) \/ AnnouncedInVain(c) PROVE Told'
  BY <1>4, RegisterTold, AnnounceTold, AnnouncedInVainTold
<1>5. ASSUME NEW c \in Conns, ReadEnds(c) \/ ForgetSession(c) \/ FailConnection(c) PROVE Told'
  BY <1>5, ReadEndsTold, ForgetTold, FailTold
<1>6. CASE UNCHANGED realtimeVars
  BY <1>6 DEF realtimeVars, Told, Phases, OneAtATime, AtWork, Pending, Running, Finally
<1> QED
  BY <1>1, <1>2, <1>3, <1>4, <1>5, <1>6 DEF RealtimeNext

LEMMA InitTold == RealtimeInit => Told
<1> SUFFICES ASSUME RealtimeInit PROVE Told
  OBVIOUS
<1>1. \A c \in Conns : attempt[c] = "none" /\ session[c] = "none"
  BY DEF RealtimeInit
<1>2. registered = NoConn /\ status = "idle" /\ queue = <<>>
  BY DEF RealtimeInit
<1> QED
  BY <1>1, <1>2 DEF Told, Phases, OneAtATime, AtWork, Pending, Running, Finally

(***************************************************************************)
(* Once things are quiet, a tab that never asked for a connection while it *)
(* had one shows itself connected exactly if its session is in the map:    *)
(* however late the answers of connect come (failConnection of             *)
(* RequestActions.ts, the events of client_handler.go).                    *)
(***************************************************************************)
THEOREM QuietTabsAreRight == RealtimeSpec => []QuietTabShowsItsSession
<1>1. RealtimeInv /\ Told => QuietTabShowsItsSession
  <2> SUFFICES ASSUME RealtimeInv, Told, NothingUnderWay, ~crossed, status # "gone"
               PROVE  (status = "connected") <=> (registered # NoConn)
    BY DEF QuietTabShowsItsSession
  <2>1. (status = "connected") <=> \E c \in Conns : Running(c)
    BY DEF NothingUnderWay, Told, OneAtATime, Finally
  <2>2. ASSUME NEW c \in Conns, Running(c) PROVE registered = c
    BY <2>2 DEF NothingUnderWay, Running, Pending, RealtimeInv, EverySessionIsOwned
  <2>3. ASSUME registered # NoConn PROVE registered \in Conns /\ Running(registered)
    BY <2>3 DEF NothingUnderWay, Running, Told, Phases, RealtimeInv, BackendTypeOK
  <2> QED
    BY <2>1, <2>2, <2>3, NoConnIsNone
<1> QED
  BY <1>1, RealtimeInvariant, InitTold, NextTold, PTL DEF RealtimeSpec
=============================================================================
