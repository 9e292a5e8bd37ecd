---------------------------- MODULE DiagramLayout ----------------------------
(***************************************************************************)
(* How a diagram tab of TalpaDB keeps what the user arranges in it         *)
(* (DiagramTab.tsx).  Every change starts a timer again, 600 ms later the  *)
(* whole layout is sent, and closing the tab sends at once what the timer  *)
(* still held.  Sending and reading are calls: they may fail, and two on   *)
(* their way arrive in any order.                                          *)
(*                                                                         *)
(* Of a part of the layout only its version counts: 0 is what the program  *)
(* draws by itself, n the user's n-th change.  One window: the key of the  *)
(* tab is that of the diagram, so it has one at a time.  The mouse button  *)
(* is up when the tab closes.                                              *)
(***************************************************************************)
EXTENDS Integers, FiniteSets

CONSTANTS MaxArranged, \* bound: changes the user makes in all
          MaxOpened    \* bound: times the tab is opened

ASSUME DiagramAssumption == MaxArranged \in Nat /\ MaxOpened \in Nat

Parts == {"keysOnly", "lineStyle", "positions", "edges", "anchors"}
Versions == 0 .. MaxArranged
Layouts == [Parts -> Versions]
Drawn == [p \in Parts |-> 0]
NoLayout == [p \in Parts |-> -1]

VARIABLES
  tab,       \* closed, loading, failed (error, no diagram), open
  layout,    \* the layout the refs hold
  saved,     \* what getDiagramLayout answered, or NoLayout
  reloading, \* the diagram is being read again
  drag,      \* the mouse: up, down on something, or moved
  timer,     \* saveTimerRef is set
  sending,   \* calls of saveDiagramLayout on their way
  row,    \* the row of the database
  arranged,  \* changes made so far
  wanted,    \* the layout as the user last left it with a change to save (history)
  nudged,    \* and a table was moved since, too little for a save (history)
  opened,
  lapse      \* a call failed, or two were on their way at once (history)

diagramVars == <<tab, layout, saved, reloading, drag, timer, sending, row, arranged, wanted, nudged, opened, lapse>>

DiagramTypeOK ==
  /\ tab \in {"closed", "loading", "failed", "open"}
  /\ layout \in Layouts /\ row \in Layouts /\ wanted \in Layouts
  /\ saved \in Layouts \union {NoLayout}
  /\ reloading \in BOOLEAN /\ timer \in BOOLEAN /\ lapse \in BOOLEAN /\ nudged \in BOOLEAN
  /\ drag \in {"up", "down", "moved"}
  /\ sending \subseteq Layouts
  /\ arranged \in Versions /\ opened \in 0 .. MaxOpened

DiagramInit ==
  /\ tab = "closed" /\ drag = "up"
  /\ layout = Drawn /\ row = Drawn /\ wanted = Drawn /\ saved = NoLayout
  /\ reloading = FALSE /\ timer = FALSE /\ lapse = FALSE /\ nudged = FALSE
  /\ sending = {} /\ arranged = 0 /\ opened = 0

\* persistLayout sends all that is shown, a nudge included.
PersistLayout ==
  /\ wanted' = (IF nudged THEN layout ELSE wanted) /\ nudged' = FALSE
  /\ timer' = FALSE
  /\ sending' = sending \union {layout}
  /\ lapse' = (lapse \/ sending # {})

\* Opening the tab asks for the diagram and for the layout saved.
OpenDiagram ==
  /\ tab = "closed" /\ opened < MaxOpened
  /\ tab' = "loading" /\ opened' = opened + 1
  /\ saved' = NoLayout /\ reloading' = FALSE /\ layout' = Drawn
  /\ UNCHANGED <<drag, timer, sending, row, arranged, wanted, nudged, lapse>>

\* getDiagramLayout; if it fails the tab goes on as if nothing were saved.
GetDiagramLayout ==
  /\ tab = "loading" /\ saved = NoLayout
  /\ \/ saved' = row /\ lapse' = (lapse \/ sending # {})
     \/ saved' = Drawn /\ lapse' = TRUE
  /\ UNCHANGED <<tab, layout, reloading, drag, timer, sending, row, arranged, wanted, nudged, opened>>

\* The answer to the first load, and the one that says the diagram could not
\* be read, whatever became of the layout.
FirstLoad ==
  /\ tab = "loading" /\ saved # NoLayout
  /\ tab' = "open" /\ layout' = saved
  /\ UNCHANGED <<saved, reloading, drag, timer, sending, row, arranged, wanted, nudged, opened, lapse>>

FirstLoadFails ==
  /\ tab = "loading"
  /\ tab' = "failed" /\ saved' = NoLayout
  /\ UNCHANGED <<layout, reloading, drag, timer, sending, row, arranged, wanted, nudged, opened, lapse>>

TryAgain ==
  /\ tab = "failed"
  /\ tab' = "loading"
  /\ UNCHANGED <<layout, saved, reloading, drag, timer, sending, row, arranged, wanted, nudged, opened, lapse>>

Reload ==
  /\ tab = "open" /\ ~reloading
  /\ reloading' = TRUE
  /\ UNCHANGED <<tab, layout, saved, drag, timer, sending, row, arranged, wanted, nudged, opened, lapse>>

\* Bug: a diagram read again is laid out as it was when it was opened.
LaidOutAgain == saved

\* A diagram read again keeps what the tab shows.
KeptOnReload == layout

Reloaded ==
  /\ tab = "open" /\ reloading
  /\ reloading' = FALSE
  /\ layout' = KeptOnReload
  /\ UNCHANGED <<tab, saved, drag, timer, sending, row, arranged, wanted, nudged, opened, lapse>>

ReloadFails ==
  /\ tab = "open" /\ reloading
  /\ reloading' = FALSE
  /\ UNCHANGED <<tab, layout, saved, drag, timer, sending, row, arranged, wanted, nudged, opened, lapse>>

\* What the user does to some parts of the layout.
Move(parts) ==
  /\ tab = "open" /\ arranged < MaxArranged
  /\ arranged' = arranged + 1
  /\ layout' = [p \in Parts |-> IF p \in parts THEN arranged' ELSE layout[p]]
Arrange(parts) == Move(parts) /\ wanted' = layout' /\ nudged' = FALSE

\* scheduleSave starts the timer again: 600 ms from now, whatever it held.
ScheduleSave == timer' = TRUE

Arranged(parts) ==
  /\ drag = "up"
  /\ Arrange(parts)
  /\ ScheduleSave
  /\ UNCHANGED <<tab, saved, reloading, drag, sending, row, opened, lapse>>

ToggleKeysOnly == Arranged({"keysOnly"})
ChangeLineStyle == Arranged({"lineStyle"})
\* addWaypoint, removeWaypoint, straightenEdge
ChangeWaypoints == Arranged({"edges"})
\* resetAnchor, restoreEdgeAnchors
ResetAnchors == Arranged({"anchors"})

\* reorganize and restoreAllEdges put parts back as the program draws them.
DrawAgain(parts) ==
  /\ drag = "up" /\ tab = "open"
  /\ layout' = [p \in Parts |-> IF p \in parts THEN 0 ELSE layout[p]]
  /\ wanted' = layout' /\ nudged' = FALSE
  /\ ScheduleSave
  /\ UNCHANGED <<tab, saved, reloading, drag, sending, row, arranged, opened, lapse>>

Reorganize == DrawAgain({"positions", "edges", "anchors"})
RestoreAllEdges == DrawAgain({"edges", "anchors"})

\* A drag of a table (its lines follow), of a point of a line or of an arrow.
StartDragging ==
  /\ tab = "open" /\ drag = "up"
  /\ drag' = "down"
  /\ UNCHANGED <<tab, layout, saved, reloading, timer, sending, row, arranged, wanted, nudged, opened, lapse>>

\* A table follows the mouse from the first pixel, and its lines with it, but
\* up to three pixels are no move, and HandleUp saves nothing.
Nudge ==
  /\ drag = "down"
  /\ \E parts \in {{"positions", "edges"}, {"positions"}} : Move(parts)
  /\ nudged' = TRUE
  /\ UNCHANGED <<tab, saved, reloading, drag, timer, sending, row, wanted, opened, lapse>>

HandleMove ==
  /\ drag # "up"
  /\ \E parts \in {{"positions", "edges"}, {"positions"}, {"edges"}, {"anchors"}} : Arrange(parts)
  /\ drag' = "moved"
  /\ UNCHANGED <<tab, saved, reloading, timer, sending, row, opened, lapse>>

HandleUp ==
  /\ drag # "up"
  /\ drag' = "up"
  /\ timer' = (timer \/ drag = "moved")
  /\ UNCHANGED <<tab, layout, saved, reloading, sending, row, arranged, wanted, nudged, opened, lapse>>

TimerFires ==
  /\ timer
  /\ PersistLayout
  /\ UNCHANGED <<tab, layout, saved, reloading, drag, row, arranged, opened>>

\* Bug: closing the tab drops the timer.
Forgotten == timer' = FALSE /\ nudged' = FALSE /\ UNCHANGED <<wanted, sending, lapse>>

\* What the unmount effect does: a nudge with no timer goes with the tab.
FlushOnUnmount == IF timer THEN PersistLayout ELSE nudged' = FALSE /\ UNCHANGED <<wanted, timer, sending, lapse>>

CloseDiagram ==
  /\ tab # "closed" /\ drag = "up"
  /\ FlushOnUnmount
  /\ tab' = "closed" /\ reloading' = FALSE /\ saved' = NoLayout /\ layout' = Drawn
  /\ UNCHANGED <<drag, row, arranged, opened>>

SaveDiagramLayout(l) ==
  /\ sending' = sending \ {l}
  /\ \/ row' = l /\ UNCHANGED lapse
     \/ lapse' = TRUE /\ UNCHANGED row
  /\ UNCHANGED <<tab, layout, saved, reloading, drag, timer, arranged, wanted, nudged, opened>>

DiagramNext ==
  \/ OpenDiagram \/ GetDiagramLayout \/ FirstLoad \/ FirstLoadFails \/ TryAgain
  \/ Reload \/ Reloaded \/ ReloadFails
  \/ ToggleKeysOnly \/ ChangeLineStyle \/ ChangeWaypoints \/ ResetAnchors
  \/ Reorganize \/ RestoreAllEdges
  \/ StartDragging \/ Nudge \/ HandleMove \/ HandleUp
  \/ TimerFires \/ CloseDiagram
  \/ \E l \in sending : SaveDiagramLayout(l)

DiagramSpec == DiagramInit /\ [][DiagramNext]_diagramVars

-----------------------------------------------------------------------------
\* Once nothing is left to save, the database has the layout as the user last
\* left it, through reloads, drags, closing and opening the tab again: unless
\* a call failed, or a save was on its way when the next one or the read of
\* the tab opened again was sent; and but for a table moved by three pixels or
\* less, which only the next save takes along, if there is one before the tab
\* closes.
ArrangementIsKept ==
  ~lapse /\ ~timer /\ sending = {} /\ drag = "up" => row = wanted

\* An open tab shows that layout too, also between a change and its save, and
\* nothing else but where a table was put by so small a move.
TabShowsArrangement ==
  tab = "open" /\ ~lapse =>
    \A p \in Parts : layout[p] = wanted[p] \/ (nudged /\ p \in {"positions", "edges"})
=============================================================================
