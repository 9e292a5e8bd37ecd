--------------------------- MODULE WorkbenchProofs ---------------------------
(***************************************************************************)
(* The pages together.  A step of the workbench is a step of one page, and *)
(* rest for the others, so a behaviour of it is one of every page; what is *)
(* proved of a page alone holds next to the others, for any values of the  *)
(* constants of all.                                                       *)
(***************************************************************************)
EXTENDS MCWorkbench, WorkspaceProofs, StashesProofs, WorkingChangesProofs

LEMMA PagesBegin ==
    BenchInit => /\ ExplorerInit /\ StashesInit /\ ChangesInit
                 /\ GroupsInit /\ DiagramInit /\ RealtimeInit
BY DEF BenchInit

LEMMA PagesGoOn ==
    [BenchNext]_benchVars =>
        /\ [ExplorerNext]_explorerVars /\ [StashesNext]_stashVars /\ [ChangesNext]_changeVars
        /\ [GroupsNext]_groupVars /\ [DiagramNext]_diagramVars /\ [RealtimeNext]_realtimeVars
<1>1. CASE UNCHANGED benchVars
  BY <1>1 DEF benchVars
<1>2. CASE BenchNext
  BY <1>2 DEF BenchNext
<1> QED
  BY <1>1, <1>2

(***************************************************************************)
(* No page does what it could not do alone: a behaviour of the workbench   *)
(* is one of the explorer, of the stashes and the changes of a repository, *)
(* of the tabs, of a diagram and of a realtime tab.                        *)
(***************************************************************************)
THEOREM PagesKeepTheirSpecs ==
    BenchSpec => /\ ExplorerSpec /\ StashesSpec /\ ChangesSpec
                 /\ GroupsSpec /\ DiagramSpec /\ RealtimeSpec
BY PagesBegin, PagesGoOn, PTL
   DEF BenchSpec, ExplorerSpec, StashesSpec, ChangesSpec, GroupsSpec, DiagramSpec, RealtimeSpec

(***************************************************************************)
(* Every reachable state of the workbench is well typed, page by page.     *)
(***************************************************************************)
THEOREM BenchTypes == BenchSpec => []BenchTypeOK
<1>1. /\ ExplorerTypeOK /\ StashesTypeOK /\ ChangesTypeOK
      /\ GroupsTypeOK /\ DiagramTypeOK /\ RealtimeTypeOK
      => BenchTypeOK
  BY DEF BenchTypeOK
<1> QED
  BY <1>1, PagesKeepTheirSpecs, ExplorerTypeCorrect, StashesTypeCorrect, ChangesTypeCorrect,
     GroupsTypeCorrect, DiagramTypeCorrect, RealtimeTypeCorrect, PTL

(***************************************************************************)
(* What the pages promise, they promise next to one another: the trees,    *)
(* lists, changes, choices, tabs, arrangements and sessions that the       *)
(* comments of these properties speak of are all kept at once.             *)
(***************************************************************************)
THEOREM BenchIsSafe ==
    BenchSpec => /\ []TreeIsWhole /\ []OpenNodeShowsSomething /\ ListsGetNewer
                 /\ []NothingIsLost /\ []ChangesComeBack
                 /\ []LinesAreOfTheDiffShown /\ LinesTakenAsPicked /\ []ChoiceIsKept /\ []QuietPageIsTrue
                 /\ []EveryTabHasItsPane /\ []ActiveTabIsShown
                 /\ []ArrangementIsKept /\ []TabShowsArrangement
                 /\ []EverySessionIsOwned /\ []QuietTabShowsItsSession
BY PagesKeepTheirSpecs, TreesAreWhole, OpenNodesShow, ListsAreNotReplacedByOlder,
   NoChangeIsLost, ChangesDoComeBack,
   LinesAreShown, LinesAreTakenAsPicked, ChoicesAreKept, QuietPagesAreTrue,
   TabsHavePanes, ActiveIsShown, ArrangementsAreKept, ArrangementsAreShown,
   SessionsAreOwned, QuietTabsAreRight, PTL
=============================================================================
