---------------------------- MODULE TerminalService ----------------------------
(***************************************************************************)
(* What terminals promise to the windows, without goroutines, locks or a   *)
(* map: a terminal is in one place, a window and an id there, and of the   *)
(* terminals in a place at most one, the last that was put there, is found *)
(* by the calls of its window.  A terminal goes to another window in three *)
(* steps, and no other one goes meanwhile: it leaves, and from then on no  *)
(* window finds it or what was found in its place; it comes; it is found   *)
(* again, instead of what has taken its new place by then.  On its way it  *)
(* does not end, and it always arrives where it has come to.  One that has *)
(* ended is not found, stays, and the window that shows it is told.  What  *)
(* it reads is shown in order; what waits for a window to attach may lose  *)
(* its beginning, and nothing else is lost.                                *)
(***************************************************************************)
EXTENDS Naturals, Sequences

CONSTANTS Terminals, Wins, Names, Nowhere, Nobody, Limit

VARIABLES
  place,   \* the window that shows a terminal, and its id there
  found,   \* the terminals that calls of their window find
  leaving, \* the terminal that has left its window, before it has come to another
  coming,  \* the terminal that has come to a window, before it is found there
  over,    \* the terminals that have ended
  told,    \* the window told of it
  read,    \* chunks read from the shell so far
  shown,   \* chunks sent to windows so far, in order
  waiting  \* chunks that wait for a window to attach

onWay == <<leaving, coming>>
serviceVars == <<place, found, onWay, over, told, read, shown, waiting>>

ServiceInit ==
  /\ place = [c \in Terminals |-> Nowhere] /\ found = {} /\ over = {}
  /\ leaving = {} /\ coming = {}
  /\ told = [c \in Terminals |-> Nobody] /\ read = [c \in Terminals |-> 0]
  /\ shown = [c \in Terminals |-> <<>>] /\ waiting = [c \in Terminals |-> <<>>]

Lives(c) == place[c] # Nowhere /\ c \notin over

\* What the calls of a window find in a place.
In(p) == {d \in found : place[d] = p}

Open(c) ==
  /\ place[c] = Nowhere
  /\ \E w \in Wins, i \in Names :
       place' = [place EXCEPT ![c] = <<w, i>>] /\ found' = (found \ In(<<w, i>>)) \cup {c}
  /\ UNCHANGED <<onWay, over, told, read, shown, waiting>>

Leave(c) ==
  /\ Lives(c) /\ leaving \cup coming = {}
  /\ leaving' = {c} /\ found' = found \ In(place[c])
  /\ UNCHANGED <<place, coming, over, told, read, shown, waiting>>

Come(c) ==
  /\ c \in leaving \ found
  /\ \E w \in Wins : place' = [place EXCEPT ![c] = <<w, @[2]>>]
  /\ leaving' = {} /\ coming' = {c}
  /\ UNCHANGED <<found, over, told, read, shown, waiting>>

Arrive(c) ==
  /\ c \in coming \ found
  /\ coming' = {} /\ found' = (found \ In(place[c])) \cup {c}
  /\ UNCHANGED <<place, leaving, over, told, read, shown, waiting>>

\* A disconnect.
Lose(c) == found' = found \ {c} /\ UNCHANGED <<place, onWay, over, told, read, shown, waiting>>

End(c) ==
  /\ Lives(c) /\ c \notin leaving \cup coming
  /\ over' = over \cup {c} /\ found' = found \ {c}
  /\ UNCHANGED <<place, onWay, told, read, shown, waiting>>

Tell(c) ==
  /\ c \in over /\ told[c] = Nobody
  /\ told' = [told EXCEPT ![c] = place[c][1]]
  /\ UNCHANGED <<place, found, onWay, over, read, shown, waiting>>

\* The end of what waits.
Newest(s) == IF Len(s) > Limit THEN SubSeq(s, Len(s) - Limit + 1, Len(s)) ELSE s

Read(c) ==
  /\ Lives(c)
  /\ read' = [read EXCEPT ![c] = @ + 1]
  /\ \/ /\ waiting[c] = <<>>
        /\ shown' = [shown EXCEPT ![c] = Append(@, read'[c])] /\ UNCHANGED waiting
     \/ waiting' = [waiting EXCEPT ![c] = Newest(Append(@, read'[c]))] /\ UNCHANGED shown
  /\ UNCHANGED <<place, found, onWay, over, told>>

Show(c) ==
  /\ shown' = [shown EXCEPT ![c] = @ \o waiting[c]]
  /\ waiting' = [waiting EXCEPT ![c] = <<>>]
  /\ UNCHANGED <<place, found, onWay, over, told, read>>

ServiceNext ==
  \E c \in Terminals :
    \/ Open(c) \/ Leave(c) \/ Come(c) \/ Arrive(c) \/ Lose(c)
    \/ End(c) \/ Tell(c) \/ Read(c) \/ Show(c)

ServiceSpec == ServiceInit /\ [][ServiceNext]_serviceVars
=============================================================================
