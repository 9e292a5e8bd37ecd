---------------------------- MODULE TerminalPlaces ----------------------------
(***************************************************************************)
(* TerminalSessions implements TerminalService: whatever goroutines do     *)
(* between the steps of a move, windows see terminals that are in one      *)
(* place.  A terminal is where its output goes, which changes in moveTo,   *)
(* and is found if some key of the map holds it: not from Delete to Store. *)
(* It is over once its waiter has forgotten it.                            *)
(***************************************************************************)
EXTENDS TerminalSessions

Service == INSTANCE TerminalService WITH
  Terminals <- Conns,
  Wins <- Windows,
  Names <- Ids,
  Nowhere <- NoKey,
  Nobody <- NoWindow,
  Limit <- MaxPending,
  place <- [c \in Conns |-> OutputKey(c)],
  found <- {c \in Conns : \E k \in Keys : sessions[k] = c},
  leaving <- IF mover.pc = "move" THEN {mover.conn} ELSE {},
  coming <- IF mover.pc = "store" THEN {mover.conn} ELSE {},
  over <- {c \in Conns : phase[c] \in {"forgotten", "done"}},
  told <- exitNotice,
  read <- produced,
  shown <- emitted,
  waiting <- [c \in Conns |-> output[c].pending]

(***************************************************************************)
(* moveWindowSessions re-keys a session in several steps of a map without  *)
(* a lock.  Whatever comes between them, a session is found in one place   *)
(* at most and only where it shows its output; nothing finds it while it   *)
(* changes its window, it then takes the place over from whatever came     *)
(* there first, and it is not forgotten on its way.  It shows its output   *)
(* in order, ends once, and tells the window it is in.                     *)
(***************************************************************************)
MovesKeepTerminals == Service!ServiceSpec
=============================================================================
