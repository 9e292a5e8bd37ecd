---------------------------- MODULE RealtimeTabs ----------------------------
(***************************************************************************)
(* A Vulpes tab that holds a connection (WebSocket, Socket.IO, MQTT, or a  *)
(* gRPC stream): RequestActions.ts and VulpesStore.ts in the window,       *)
(* client_handler.go and the clients of each protocol behind it.  What     *)
(* happens to a connection reaches the tab as events; whether connecting   *)
(* succeeded, as the answer of the call: either may come first.            *)
(*                                                                         *)
(* A tab has one key in the map of sessions (its window and its id), so    *)
(* tabs share nothing and one is enough.  Events of a window arrive in the *)
(* order they were emitted in.  Messages are left out.                     *)
(***************************************************************************)
EXTENDS Integers, Sequences

CONSTANT MaxConnects  \* bound: connections the tab asks for in all

ASSUME RealtimeAssumption == MaxConnects \in Nat

Conns == 1 .. MaxConnects
NoConn == 0

VARIABLES
  stream,     \* the tab is a gRPC stream: the shortcut starts another any time
  status,     \* runtime.connection; "gone" once the tab is closed
  listening,  \* the tab is subscribed to its events
  queue,      \* events on their way to the window
  attempt,    \* the connect call of each connection
  session,    \* the session of each connection
  registered, \* sessions[key], or NoConn
  replaced,   \* what registerSession found there
  closeCalls, \* calls of CloseSession on their way: 0, 1 or 2
  asked,      \* connections asked for so far
  crossed     \* one was asked for while an earlier one was not over (history)

realtimeVars ==
  <<stream, status, listening, queue, attempt, session, registered, replaced, closeCalls, asked, crossed>>

\* live: the connection is up; closing: close was called; ended: the read loop
\* saw the end and said so; over: forgetSession was called
SessionPhases == {"none", "live", "closing", "ended", "over"}
CallPhases == {"none", "asked", "dialling", "registered", "failed", "up", "answered"}

RealtimeTypeOK ==
  /\ stream \in BOOLEAN /\ listening \in BOOLEAN /\ crossed \in BOOLEAN
  /\ status \in {"idle", "connecting", "connected", "closed", "gone"}
  /\ queue \in Seq({"connecting", "connected", "closed"})
  /\ attempt \in [Conns -> CallPhases] /\ session \in [Conns -> SessionPhases]
  /\ registered \in Conns \union {NoConn} /\ replaced \in [Conns -> Conns \union {NoConn}]
  /\ closeCalls \in 0 .. 2 /\ asked \in 0 .. MaxConnects

RealtimeInit ==
  /\ stream \in BOOLEAN
  /\ status = "idle" /\ listening = FALSE /\ queue = <<>>
  /\ attempt = [c \in Conns |-> "none"] /\ session = [c \in Conns |-> "none"]
  /\ registered = NoConn /\ replaced = [c \in Conns |-> NoConn]
  /\ closeCalls = 0 /\ asked = 0 /\ crossed = FALSE

Pending(c) == attempt[c] \in {"asked", "dialling", "registered", "failed"}
Running(c) == session[c] \in {"live", "closing"}

\* The buttons offer it when the tab is idle or closed; the shortcut unless it
\* is connected, and for a gRPC stream always.
MayConnect == IF stream THEN status # "gone" ELSE status \notin {"connected", "gone"}

\* connect, startGrpcStream, with listenToTab
Connect ==
  /\ MayConnect /\ asked < MaxConnects
  /\ asked' = asked + 1
  /\ attempt' = [attempt EXCEPT ![asked'] = "asked"]
  /\ status' = "connecting" /\ listening' = TRUE
  /\ crossed' = (crossed \/ \E c \in Conns : Pending(c) \/ Running(c))
  /\ UNCHANGED <<stream, queue, session, registered, replaced, closeCalls>>

\* The call fails before it says anything, or announces the attempt and dials.
Refuse(c) ==
  /\ attempt[c] = "asked"
  /\ attempt' = [attempt EXCEPT ![c] = "failed"]
  /\ UNCHANGED <<stream, status, listening, queue, session, registered, replaced, closeCalls, asked, crossed>>

Dial(c) ==
  /\ attempt[c] = "asked"
  /\ attempt' = [attempt EXCEPT ![c] = "dialling"]
  /\ queue' = IF stream THEN queue ELSE Append(queue, "connecting")
  /\ UNCHANGED <<stream, status, listening, session, registered, replaced, closeCalls, asked, crossed>>

DialFails(c) ==
  /\ attempt[c] = "dialling"
  /\ attempt' = [attempt EXCEPT ![c] = "failed"]
  /\ UNCHANGED <<stream, status, listening, queue, session, registered, replaced, closeCalls, asked, crossed>>

\* registerSession, as far as its critical section
RegisterSession(c) ==
  /\ attempt[c] = "dialling"
  /\ attempt' = [attempt EXCEPT ![c] = "registered"]
  /\ session' = [session EXCEPT ![c] = "live"]
  /\ registered' = c
  /\ replaced' = [replaced EXCEPT ![c] = registered]
  /\ UNCHANGED <<stream, status, listening, queue, closeCalls, asked, crossed>>

Closed(c) == IF c \in Conns /\ session[c] = "live" THEN [session EXCEPT ![c] = "closing"] ELSE session

\* The rest of registerSession closes the session replaced.
CloseReplaced(c) == Closed(replaced[c])

\* Then the connection is announced and its read loop starts.
Announce(c) ==
  /\ attempt[c] = "registered"
  /\ attempt' = [attempt EXCEPT ![c] = "up"]
  /\ session' = CloseReplaced(c)
  /\ queue' = Append(queue, "connected")
  /\ UNCHANGED <<stream, status, listening, registered, replaced, closeCalls, asked, crossed>>

\* Bug: what is under the key goes, whose session it may be.
KeyWithout(c) == NoConn

\* forgetSession takes a session out of the map only if it is there.
Without(c) == IF registered = c THEN NoConn ELSE registered

\* The first message of a server stream is part of the call, and may fail it.
AnnouncedInVain(c) ==
  /\ stream /\ attempt[c] = "registered"
  /\ attempt' = [attempt EXCEPT ![c] = "failed"]
  /\ session' = [CloseReplaced(c) EXCEPT ![c] = "over"]
  /\ registered' = Without(c)
  /\ queue' = Append(queue, "connected")
  /\ UNCHANGED <<stream, status, listening, replaced, closeCalls, asked, crossed>>

\* The read loop ends, because the server or close ended the connection: it
\* says so, and only then forgets the session.
ReadEnds(c) ==
  /\ attempt[c] \in {"up", "answered"} /\ Running(c)
  /\ session' = [session EXCEPT ![c] = "ended"]
  /\ queue' = Append(queue, "closed")
  /\ UNCHANGED <<stream, status, listening, attempt, registered, replaced, closeCalls, asked, crossed>>

ForgetSession(c) ==
  /\ session[c] = "ended"
  /\ session' = [session EXCEPT ![c] = "over"]
  /\ registered' = Without(c)
  /\ UNCHANGED <<stream, status, listening, queue, attempt, replaced, closeCalls, asked, crossed>>

\* A call that succeeded changes nothing here: the event says it.
Answered(c) ==
  /\ attempt[c] = "up"
  /\ attempt' = [attempt EXCEPT ![c] = "answered"]
  /\ UNCHANGED <<stream, status, listening, queue, session, registered, replaced, closeCalls, asked, crossed>>

\* Bug: the tab keeps listening to a connection that failed.
StillListening == listening

\* failConnection stops listening: what the call announced may still come.
NoLongerListening == FALSE

FailConnection(c) ==
  /\ attempt[c] = "failed"
  /\ attempt' = [attempt EXCEPT ![c] = "answered"]
  /\ listening' = NoLongerListening
  /\ status' = IF status = "gone" THEN status ELSE "idle"
  /\ UNCHANGED <<stream, queue, session, registered, replaced, closeCalls, asked, crossed>>

\* pushRealtimeEvent, for a tab that listens
Deliver ==
  /\ queue # <<>>
  /\ queue' = Tail(queue)
  /\ status' = IF listening THEN Head(queue) ELSE status
  /\ UNCHANGED <<stream, listening, attempt, session, registered, replaced, closeCalls, asked, crossed>>

\* The buttons "Desconectar" and, while it connects, "Cancelar".
Disconnect ==
  /\ status \in {"connecting", "connected"} /\ closeCalls = 0
  /\ closeCalls' = 1
  /\ UNCHANGED <<stream, status, listening, queue, attempt, session, registered, replaced, asked, crossed>>

\* releaseTab, and the tab leaves the store; so does releaseAll, for each tab,
\* when the module is closed, and the backend itself when the window is.
CloseTab ==
  /\ status # "gone"
  /\ status' = "gone" /\ listening' = FALSE
  /\ closeCalls' = closeCalls + 1
  /\ UNCHANGED <<stream, queue, attempt, session, registered, replaced, asked, crossed>>

\* After a logout there is no token to close the session with: it goes on
\* until the server, or the window's close, ends it.
LoggedOut ==
  /\ status # "gone"
  /\ status' = "gone" /\ listening' = FALSE
  /\ UNCHANGED <<stream, queue, attempt, session, registered, replaced, closeCalls, asked, crossed>>

\* The map is emptied of the key and what was there is closed; a connection
\* that is still being dialled is not there.
CloseSession ==
  /\ closeCalls > 0
  /\ closeCalls' = closeCalls - 1
  /\ registered' = NoConn
  /\ session' = Closed(registered)
  /\ UNCHANGED <<stream, status, listening, queue, attempt, replaced, asked, crossed>>

RealtimeNext ==
  \/ Connect \/ Deliver \/ Disconnect \/ CloseTab \/ LoggedOut \/ CloseSession
  \/ \E c \in Conns :
       \/ Refuse(c) \/ Dial(c) \/ DialFails(c) \/ RegisterSession(c)
       \/ Announce(c) \/ AnnouncedInVain(c) \/ ReadEnds(c) \/ ForgetSession(c)
       \/ Answered(c) \/ FailConnection(c)

RealtimeSpec == RealtimeInit /\ [][RealtimeNext]_realtimeVars

-----------------------------------------------------------------------------
\* A connection that is up is in the map, or about to be closed by the one
\* that took its place: whatever was asked for at once, ended late or was
\* forgotten late, none is left that neither the tab nor the window's close
\* can reach.
EverySessionIsOwned ==
  \A c \in Conns : session[c] = "live" =>
    registered = c \/ \E d \in Conns : attempt[d] = "registered" /\ replaced[d] = c

\* Nothing about the tab's connections is still on its way.
NothingUnderWay ==
  /\ queue = <<>> /\ closeCalls = 0
  /\ \A c \in Conns : ~Pending(c) /\ session[c] \notin {"closing", "ended"}

\* Once things are quiet, a tab shows itself connected exactly if its session
\* is in the map: also when the failure of a call arrives before what the call
\* had announced, and a cancel before there is anything to cancel.  Not if it
\* asked for a connection while it had one: the end of the first then hides
\* the second.
QuietTabShowsItsSession ==
  NothingUnderWay /\ ~crossed /\ status # "gone" => (status = "connected" <=> registered # NoConn)
=============================================================================
