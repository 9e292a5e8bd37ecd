--------------------------- MODULE TerminalSessions ---------------------------
(***************************************************************************)
(* The terminal sessions of the FerretShell module: what                   *)
(* terminal_handler.go (SSH) and local_terminal_handler.go (local shells)  *)
(* keep in a sync.Map, and the session_output.go that both share.          *)
(*                                                                         *)
(* A session is registered under the key <<window, session id>> and emits  *)
(* its output to the window that owns it.  When the FerretShell tab is     *)
(* dragged to another window its sessions are re-keyed one by one under    *)
(* moveMutex; the map itself is lock-free, so the calls of the windows,    *)
(* the goroutine that waits for a session to end and the release of a      *)
(* closed window interleave with the move between any two map operations.  *)
(*                                                                         *)
(* A thread is a goroutine that serves one call of a window (connect,      *)
(* disconnect, attach) or the listener of a closed window (release).       *)
(* Output is abstracted to numbered chunks: chunk n of a connection is the *)
(* n-th one its readers hand to sessionOutput.write.                       *)
(***************************************************************************)
EXTENDS Integers, Sequences, FiniteSets

CONSTANTS
    Windows,      \* names of the application's windows, never reused
    Ids,          \* session ids chosen by the frontend
    Conns,        \* connections ever opened, each used once (bounds the runs)
    Threads,      \* goroutines serving calls and window-closed notifications
    NoConn,       \* an absent map entry
    NoWindow,     \* the window of an output that does not exist yet
    NoId,         \* its session id
    MaxPending,   \* maxPendingOutputBytes, counted in chunks
    MaxChunks     \* chunks a connection produces (bounds the runs)

ASSUME SentinelAssumption ==
    NoConn \notin Conns /\ NoWindow \notin Windows /\ NoId \notin Ids
ASSUME BoundAssumption == MaxPending \in Nat \ {0} /\ MaxChunks \in Nat

VARIABLES
    sessions,        \* the sync.Map: key -> connection, or NoConn
    phase,           \* the life of each connection and its waiting goroutine
    output,          \* the sessionOutput of each connection
    produced,        \* chunks the readers have written so far
    emitted,         \* chunks sent to windows so far, in order
    closedByClient,  \* set before a disconnect closes the connection
    exitNotice,      \* the window told that the session ended, or NoWindow
    closedWindows,   \* the windows that were closed
    thread,          \* what each goroutine is doing
    mover            \* the call of moveWindowSessions that holds moveMutex

lifeVars == <<phase, closedByClient, exitNotice>>
streamVars == <<output, produced, emitted>>
vars == <<sessions, phase, output, produced, emitted, closedByClient,
          exitNotice, closedWindows, thread, mover>>

Keys == Windows \X Ids

\* ScopedKey and IsScopedTo: the keys of one window.
KeysOf(w) == {k \in Keys : k[1] = w}

\* sessionOutput.key: computed from the window that owns the output now.
OutputKey(c) == <<output[c].window, output[c].id>>

Outputs == [window : Windows \cup {NoWindow}, id : Ids \cup {NoId},
            paused : BOOLEAN, pending : Seq(Nat)]

NoOutput == [window |-> NoWindow, id |-> NoId, paused |-> FALSE, pending |-> <<>>]

\* newSessionOutput.
NewOutput(k) == [window |-> k[1], id |-> k[2], paused |-> FALSE, pending |-> <<>>]

NoKey == <<NoWindow, NoId>>

(***************************************************************************)
(* unused -> running -> ended (Wait returned) -> forgotten (out of the     *)
(* map) -> done (the window was told, unless the client asked for it).     *)
(***************************************************************************)
Phases == {"unused", "running", "ended", "forgotten", "done"}

Idle == [op |-> "idle", pc |-> "idle", key |-> NoKey, conn |-> NoConn, seen |-> {}]

Unlocked == [pc |-> "unlocked", from |-> NoWindow, to |-> NoWindow,
             key |-> NoKey, conn |-> NoConn, seen |-> {}]

ThreadStates ==
    [op : {"idle", "connect", "disconnect", "attach", "release"},
     pc : {"idle", "disconnect", "dial", "resume", "scan"},
     key : Keys \cup {NoKey} \cup (Windows \X {NoId}),
     conn : Conns \cup {NoConn},
     seen : SUBSET Keys]

MoverStates ==
    [pc : {"unlocked", "range", "delete", "move", "store"},
     from : Windows \cup {NoWindow},
     to : Windows \cup {NoWindow},
     key : Keys \cup {NoKey},
     conn : Conns \cup {NoConn},
     seen : SUBSET Keys]

-----------------------------------------------------------------------------
Init ==
    /\ sessions = [k \in Keys |-> NoConn]
    /\ phase = [c \in Conns |-> "unused"]
    /\ output = [c \in Conns |-> NoOutput]
    /\ produced = [c \in Conns |-> 0]
    /\ emitted = [c \in Conns |-> <<>>]
    /\ closedByClient = [c \in Conns |-> FALSE]
    /\ exitNotice = [c \in Conns |-> NoWindow]
    /\ closedWindows = {}
    /\ thread = [t \in Threads |-> Idle]
    /\ mover = Unlocked

-----------------------------------------------------------------------------
(***************************************************************************)
(* disconnect(key) in two steps: getSession, and the rest.  The rest sets  *)
(* closedByClient, which only the waiter reads once the session has left   *)
(* the map, and ends the session after the CompareAndDelete, as the server *)
(* may do at any time: no other step can tell these from one.              *)
(***************************************************************************)

\* sync.Map.CompareAndDelete.
CompareAndDelete(k, c) ==
    sessions' = IF k \in Keys /\ sessions[k] = c
                THEN [sessions EXCEPT ![k] = NoConn] ELSE sessions

\* The connection of c is closed: its waiter is released.
EndOf(c) == [phase EXCEPT ![c] = IF @ = "running" THEN "ended" ELSE @]

\* Where a thread goes on when its disconnect returns.
AfterDisconnect(t) ==
    CASE thread[t].op = "connect" -> [thread[t] EXCEPT !.pc = "dial", !.conn = NoConn]
      [] thread[t].op = "release" -> [thread[t] EXCEPT !.pc = "scan", !.conn = NoConn]
      [] OTHER -> Idle

Disconnect(t) ==
    /\ thread[t].pc = "disconnect"
    /\ closedByClient' = [closedByClient EXCEPT ![thread[t].conn] = TRUE]
    /\ CompareAndDelete(thread[t].key, thread[t].conn)
    /\ phase' = EndOf(thread[t].conn)
    /\ thread' = [thread EXCEPT ![t] = AfterDisconnect(t)]
    /\ UNCHANGED <<exitNotice, streamVars, closedWindows, mover>>

-----------------------------------------------------------------------------
(***************************************************************************)
(* Calls of an open window, up to their lookup of the session.  A lookup   *)
(* that finds nothing ends the call, except the one of a connect.          *)
(***************************************************************************)
Begin(t, op, pc, k) ==
    /\ thread[t] = Idle
    /\ k[1] \notin closedWindows
    /\ thread' = [thread EXCEPT ![t] = [op |-> op, pc |-> pc, key |-> k,
                                        conn |-> sessions[k], seen |-> {}]]
    /\ UNCHANGED <<sessions, lifeVars, streamVars, closedWindows, mover>>

\* ConnectWith and Start first disconnect what the key holds.
BeginConnect(t, k) ==
    Begin(t, "connect", IF sessions[k] = NoConn THEN "dial" ELSE "disconnect", k)

BeginDisconnect(t, k) ==
    sessions[k] # NoConn /\ Begin(t, "disconnect", "disconnect", k)

BeginAttach(t, k) ==
    sessions[k] # NoConn /\ Begin(t, "attach", "resume", k)

(***************************************************************************)
(* WindowClosing: the listener disconnects the keys of the window that its *)
(* Range over the map comes across, each once and in any order.            *)
(***************************************************************************)
CloseWindow(t, w) ==
    /\ thread[t] = Idle
    /\ w \notin closedWindows
    /\ closedWindows' = closedWindows \cup {w}
    /\ thread' = [thread EXCEPT ![t] = [Idle EXCEPT !.op = "release", !.pc = "scan",
                                                    !.key = <<w, NoId>>]]
    /\ UNCHANGED <<sessions, lifeVars, streamVars, mover>>

Unseen(w, seen) == {k \in KeysOf(w) \ seen : sessions[k] # NoConn}

ScanNext(t, k) ==
    /\ thread[t].pc = "scan"
    /\ k \in Unseen(thread[t].key[1], thread[t].seen)
    /\ thread' = [thread EXCEPT ![t] =
                    [thread[t] EXCEPT !.pc = "disconnect", !.key = k,
                                      !.conn = sessions[k], !.seen = @ \cup {k}]]
    /\ UNCHANGED <<sessions, lifeVars, streamVars, closedWindows, mover>>

\* A key filled after Range has passed it is not visited.
ScanEnd(t) ==
    /\ thread[t].pc = "scan"
    /\ Unseen(thread[t].key[1], thread[t].seen) = {}
    /\ thread' = [thread EXCEPT ![t] = Idle]
    /\ UNCHANGED <<sessions, lifeVars, streamVars, closedWindows, mover>>

-----------------------------------------------------------------------------
(***************************************************************************)
(* The rest of ConnectWith (Start): dial, then register the session.  No   *)
(* check separates the two: the window may have been closed meanwhile.     *)
(***************************************************************************)
DialFails(t) ==
    /\ thread[t].pc = "dial"
    /\ thread' = [thread EXCEPT ![t] = Idle]
    /\ UNCHANGED <<sessions, lifeVars, streamVars, closedWindows, mover>>

DialSucceeds(t, c) ==
    /\ thread[t].pc = "dial"
    /\ phase[c] = "unused"
    /\ phase' = [phase EXCEPT ![c] = "running"]
    /\ output' = [output EXCEPT ![c] = NewOutput(thread[t].key)]
    /\ sessions' = [sessions EXCEPT ![thread[t].key] = c]
    /\ thread' = [thread EXCEPT ![t] = Idle]
    /\ UNCHANGED <<produced, emitted, closedByClient, exitNotice,
                   closedWindows, mover>>

-----------------------------------------------------------------------------
(***************************************************************************)
(* sessionOutput, whose methods run under its own mutex.                   *)
(***************************************************************************)

\* Mutant: the buffer stops growing when it is full.
NewestDropped(s) == IF Len(s) > MaxPending THEN SubSeq(s, 1, MaxPending) ELSE s

\* pending keeps the newest maxPendingOutputBytes.
Newest(s) == IF Len(s) > MaxPending
             THEN SubSeq(s, Len(s) - MaxPending + 1, Len(s)) ELSE s

\* write, called by the readers until the stream is drained.
Write(c) ==
    /\ phase[c] \in {"running", "ended"}
    /\ produced[c] < MaxChunks
    /\ produced' = [produced EXCEPT ![c] = @ + 1]
    /\ IF output[c].paused
       THEN /\ output' = [output EXCEPT ![c].pending = Newest(Append(@, produced[c] + 1))]
            /\ UNCHANGED emitted
       ELSE /\ emitted' = [emitted EXCEPT ![c] = Append(@, produced[c] + 1)]
            /\ UNCHANGED output
    /\ UNCHANGED <<sessions, lifeVars, closedWindows, thread, mover>>

\* resume, called on the connection that Attach found.
AttachResume(t) ==
    /\ thread[t].pc = "resume"
    /\ LET c == thread[t].conn IN
         /\ output' = [output EXCEPT ![c] = [@ EXCEPT !.paused = FALSE, !.pending = <<>>]]
         /\ emitted' = [emitted EXCEPT ![c] = @ \o output[c].pending]
    /\ thread' = [thread EXCEPT ![t] = Idle]
    /\ UNCHANGED <<sessions, lifeVars, produced, closedWindows, mover>>

-----------------------------------------------------------------------------
(***************************************************************************)
(* The life of a session that nobody disconnects, and its waiter.          *)
(***************************************************************************)

\* The shell exits, the server closes, or three keepalives fail.
RemoteExit(c) ==
    /\ phase[c] = "running"
    /\ phase' = EndOf(c)
    /\ UNCHANGED <<sessions, closedByClient, exitNotice, streamVars,
                   closedWindows, thread, mover>>

\* Mutant: forgetSession does not take moveMutex.
ForgetUnlocked(c) ==
    /\ phase[c] = "ended"
    /\ CompareAndDelete(OutputKey(c), c)
    /\ phase' = [phase EXCEPT ![c] = "forgotten"]
    /\ UNCHANGED <<closedByClient, exitNotice, streamVars, closedWindows,
                   thread, mover>>

\* Mutant: the waiter forgets nothing that the client has disconnected itself.
ForgetUnlessClosed(c) ==
    /\ phase[c] = "ended"
    /\ mover.pc = "unlocked"
    /\ IF closedByClient[c] THEN UNCHANGED sessions
       ELSE CompareAndDelete(OutputKey(c), c)
    /\ phase' = [phase EXCEPT ![c] = "forgotten"]
    /\ UNCHANGED <<closedByClient, exitNotice, streamVars, closedWindows,
                   thread, mover>>

\* forgetSession, under moveMutex, after the readers have drained the stream.
Forget(c) ==
    /\ phase[c] = "ended"
    /\ mover.pc = "unlocked"
    /\ CompareAndDelete(OutputKey(c), c)
    /\ phase' = [phase EXCEPT ![c] = "forgotten"]
    /\ UNCHANGED <<closedByClient, exitNotice, streamVars, closedWindows,
                   thread, mover>>

\* Mutant: the waiter notifies before it forgets the session.
NotifyFirst(c) ==
    /\ phase[c] = "ended"
    /\ phase' = [phase EXCEPT ![c] = "done"]
    /\ exitNotice' = IF closedByClient[c] THEN exitNotice
                     ELSE [exitNotice EXCEPT ![c] = output[c].window]
    /\ UNCHANGED <<sessions, closedByClient, streamVars, closedWindows,
                   thread, mover>>

\* Mutant: the session id in the place of the window.
NotifyId(c) ==
    /\ phase[c] = "forgotten"
    /\ phase' = [phase EXCEPT ![c] = "done"]
    /\ exitNotice' = IF closedByClient[c] THEN exitNotice
                     ELSE [exitNotice EXCEPT ![c] = output[c].id]
    /\ UNCHANGED <<sessions, closedByClient, streamVars, closedWindows,
                   thread, mover>>

\* notify reads the owner only now, outside moveMutex.
NotifyExit(c) ==
    /\ phase[c] = "forgotten"
    /\ phase' = [phase EXCEPT ![c] = "done"]
    /\ exitNotice' = IF closedByClient[c] THEN exitNotice
                     ELSE [exitNotice EXCEPT ![c] = output[c].window]
    /\ UNCHANGED <<sessions, closedByClient, streamVars, closedWindows,
                   thread, mover>>

-----------------------------------------------------------------------------
(***************************************************************************)
(* moveWindowSessions: holds moveMutex from BeginMove to EndMove.          *)
(***************************************************************************)
BeginMove(from, to) ==
    /\ mover.pc = "unlocked"
    /\ from # to
    /\ {from, to} \cap closedWindows = {}
    /\ mover' = [Unlocked EXCEPT !.pc = "range", !.from = from, !.to = to]
    /\ UNCHANGED <<sessions, lifeVars, streamVars, closedWindows, thread>>

MoveRange(k) ==
    /\ mover.pc = "range"
    /\ k \in Unseen(mover.from, mover.seen)
    /\ mover' = [mover EXCEPT !.pc = "delete", !.key = k, !.conn = sessions[k],
                              !.seen = @ \cup {k}]
    /\ UNCHANGED <<sessions, lifeVars, streamVars, closedWindows, thread>>

\* Mutant: the entry of the former owner is left in place.
MoveKeep ==
    /\ mover.pc = "delete"
    /\ mover' = [mover EXCEPT !.pc = "move"]
    /\ UNCHANGED <<sessions, lifeVars, streamVars, closedWindows, thread>>

\* Delete is unconditional: it removes whatever the key holds by now.
MoveDelete ==
    /\ mover.pc = "delete"
    /\ sessions' = [sessions EXCEPT ![mover.key] = NoConn]
    /\ mover' = [mover EXCEPT !.pc = "move"]
    /\ UNCHANGED <<lifeVars, streamVars, closedWindows, thread>>

\* moveTo, under the output's own mutex: its window is the new owner, and it waits.
MoveTo ==
    /\ mover.pc = "move"
    /\ output' = [output EXCEPT ![mover.conn] =
                    [@ EXCEPT !.window = mover.to, !.paused = TRUE]]
    /\ mover' = [mover EXCEPT !.pc = "store"]
    /\ UNCHANGED <<sessions, lifeVars, produced, emitted, closedWindows, thread>>

\* Store under the key of the new owner, in the place of what it holds by now.
MoveStore ==
    /\ mover.pc = "store"
    /\ sessions' = [sessions EXCEPT ![OutputKey(mover.conn)] = mover.conn]
    /\ mover' = [mover EXCEPT !.pc = "range", !.key = NoKey, !.conn = NoConn]
    /\ UNCHANGED <<lifeVars, streamVars, closedWindows, thread>>

EndMove ==
    /\ mover.pc = "range"
    /\ Unseen(mover.from, mover.seen) = {}
    /\ mover' = Unlocked
    /\ UNCHANGED <<sessions, lifeVars, streamVars, closedWindows, thread>>

-----------------------------------------------------------------------------
ThreadStep(t) ==
    \/ \E k \in Keys : ScanNext(t, k)
    \/ ScanEnd(t)
    \/ Disconnect(t)
    \/ DialFails(t)
    \/ \E c \in Conns : DialSucceeds(t, c)
    \/ AttachResume(t)

MoveStep ==
    \/ \E k \in Keys : MoveRange(k)
    \/ MoveDelete
    \/ MoveTo
    \/ MoveStore
    \/ EndMove

Call(t) ==
    \/ \E k \in Keys : BeginConnect(t, k) \/ BeginDisconnect(t, k) \/ BeginAttach(t, k)
    \/ \E w \in Windows : CloseWindow(t, w)

Next ==
    \/ \E t \in Threads : Call(t) \/ ThreadStep(t)
    \/ \E c \in Conns : Write(c) \/ RemoteExit(c) \/ Forget(c) \/ NotifyExit(c)
    \/ \E from, to \in Windows : BeginMove(from, to)
    \/ MoveStep

Spec == Init /\ [][Next]_vars

(***************************************************************************)
(* Every goroutine runs, a dial ends (it has a timeout), and sync.Mutex    *)
(* starves no waiter: a session that waits for moveMutex gets it.  Windows *)
(* need not call, shells need not write or exit.                           *)
(***************************************************************************)
Fairness ==
    /\ \A t \in Threads : WF_vars(ThreadStep(t))
    /\ WF_vars(MoveStep)
    /\ \A c \in Conns : SF_vars(Forget(c)) /\ WF_vars(NotifyExit(c))

FairSpec == Spec /\ Fairness

-----------------------------------------------------------------------------
(***************************************************************************)
(* Type invariant.                                                         *)
(***************************************************************************)
TypeOK ==
    /\ sessions \in [Keys -> Conns \cup {NoConn}]
    /\ phase \in [Conns -> Phases]
    /\ output \in [Conns -> Outputs]
    /\ produced \in [Conns -> Nat]
    /\ emitted \in [Conns -> Seq(Nat)]
    /\ closedByClient \in [Conns -> BOOLEAN]
    /\ exitNotice \in [Conns -> Windows \cup {NoWindow}]
    /\ closedWindows \subseteq Windows
    /\ thread \in [Threads -> ThreadStates]
    /\ mover \in MoverStates

(***************************************************************************)
(* A session found under a key sends its output to that window under that  *)
(* id, whatever calls interleaved with the moves: no window ever types     *)
(* into a terminal whose output another window shows, and no session is    *)
(* registered twice (terminal_handler.go, session_output.go).              *)
(***************************************************************************)
SessionBelongsToItsKey ==
    \A k \in Keys : sessions[k] # NoConn => OutputKey(sessions[k]) = k

(***************************************************************************)
(* Once its waiter has forgotten a session the map never holds it again,   *)
(* though a move may have read it out of the map before and stores it back *)
(* later: forgetSession and moveWindowSessions exclude each other.         *)
(***************************************************************************)
ForgottenStaysForgotten ==
    \A c \in Conns : phase[c] \in {"forgotten", "done"} =>
        \A k \in Keys : sessions[k] # c

(***************************************************************************)
(* The window told that a session ended is the one that shows it: notify   *)
(* reads the owner outside moveMutex and still never tells a former owner. *)
(***************************************************************************)
NoticeFollowsSession ==
    \A c \in Conns : exitNotice[c] # NoWindow => exitNotice[c] = output[c].window

\* What the windows have received of c, followed by what waits for an attach.
Stream(c) == emitted[c] \o output[c].pending

(***************************************************************************)
(* Chunks reach the windows in the order they were read, across any number *)
(* of moves and attaches, and a chunk is missing only because the buffer   *)
(* of a paused output overflowed: the MaxPending chunks that follow the    *)
(* missing ones are all there.                                             *)
(***************************************************************************)
GapsOnlyFromOverflow ==
    \A c \in Conns :
        LET kept == {Stream(c)[n] : n \in DOMAIN Stream(c)} IN
        /\ \A m, n \in DOMAIN Stream(c) : m < n => Stream(c)[m] < Stream(c)[n]
        /\ \A n \in (1 .. produced[c]) \ kept :
             \E m \in n .. produced[c] : m + 1 .. m + MaxPending \subseteq kept

(***************************************************************************)
(* A session that a window or its release disconnects ends and leaves the  *)
(* map, even when a move carries it to another key between the lookup and  *)
(* the CompareAndDelete that then misses it.                               *)
(***************************************************************************)
ClosedSessionLeaves ==
    \A c \in Conns : closedByClient[c] ~>
        (phase[c] = "done" /\ \A k \in Keys : sessions[k] # c)

(***************************************************************************)
(* README.md: closing a window releases its resources.  When every call    *)
(* has returned no session is left running under a closed window.          *)
(***************************************************************************)
ClosedWindowHoldsNothing ==
    (mover = Unlocked /\ \A t \in Threads : thread[t] = Idle) =>
        \A k \in Keys : k[1] \in closedWindows /\ sessions[k] # NoConn =>
            phase[sessions[k]] # "running"
=============================================================================
