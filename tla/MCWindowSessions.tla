--------------------------- MODULE MCWindowSessions ---------------------------
(***************************************************************************)
(* An instance of WindowSessions for TLC: the main window, windows that    *)
(* are detached from one another, two users and a few tokens.              *)
(***************************************************************************)
EXTENDS WindowSessions, TLC

\* Sound: Main is the only window, and no user or token, named anywhere.
Symmetry == Permutations(Windows \ {Main}) \cup Permutations(Users)
                \cup Permutations(Tokens)
=============================================================================
