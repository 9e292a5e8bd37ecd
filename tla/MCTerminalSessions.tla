------------------------- MODULE MCTerminalSessions -------------------------
(***************************************************************************)
(* Instances of TerminalSessions for TLC: two sessions without output that *)
(* compete for the keys of two windows, and one session with its output.   *)
(***************************************************************************)
EXTENDS TerminalPlaces, TLC

\* Sound for the safety run only: no property there names a window or a thread.
Symmetry == Permutations(Windows) \cup Permutations(Threads)
                \cup Permutations(Conns)
=============================================================================
