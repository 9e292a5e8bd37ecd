------------------------ MODULE TerminalSessionsProofs ------------------------
(***************************************************************************)
(* The safety of TerminalSessions, for any number of windows, session ids, *)
(* connections and goroutines.                                             *)
(*                                                                         *)
(* The three invariants hold because of what moveMutex keeps true between  *)
(* the steps of a move: the session in the hands of the mover is neither   *)
(* unused nor forgotten, its output still names the key that the mover     *)
(* read it from until that key has been emptied, and from then on no key   *)
(* holds it.  MoverInv states this; the rest of IInv is local.             *)
(*                                                                         *)
(* The stream of a connection needs none of that: whatever a write, a move *)
(* or an attach finds, it keeps what was read in order (Orderly).          *)
(***************************************************************************)
EXTENDS TerminalPlaces, SequenceTheorems, TLAPS

MoverInv ==
    /\ mover.pc \in {"delete", "move", "store"} =>
         mover.conn \in Conns /\ phase[mover.conn] \in {"running", "ended"}
    /\ mover.pc = "delete" => mover.key = OutputKey(mover.conn)
    /\ mover.pc \in {"move", "store"} => \A k \in Keys : sessions[k] # mover.conn
    /\ mover.pc = "store" => output[mover.conn].window = mover.to

UnusedIsNowhere ==
    \A c \in Conns : phase[c] = "unused" => \A k \in Keys : sessions[k] # c

NoticeIsLast ==
    \A c \in Conns : exitNotice[c] # NoWindow => phase[c] = "done"

IInv ==
    /\ TypeOK
    /\ SessionBelongsToItsKey
    /\ ForgottenStaysForgotten
    /\ NoticeFollowsSession
    /\ MoverInv
    /\ UnusedIsNowhere
    /\ NoticeIsLast

-----------------------------------------------------------------------------
(***************************************************************************)
(* Type correctness.                                                       *)
(***************************************************************************)

\* The buffer of a paused output stays a sequence of chunk numbers.
LEMMA NewestType ==
    ASSUME NEW s \in Seq(Nat)
    PROVE  Newest(s) \in Seq(Nat)
BY BoundAssumption DEF Newest

\* A disconnect leaves its goroutine in a state it knows.
LEMMA AfterDisconnectType ==
    ASSUME TypeOK, NEW t \in Threads
    PROVE  AfterDisconnect(t) \in ThreadStates
<1>1. thread[t] \in ThreadStates
  BY DEF TypeOK
<1>2. Idle \in ThreadStates
  BY DEF Idle, ThreadStates
<1>3. CASE thread[t].op = "connect"
  BY <1>1, <1>3 DEF AfterDisconnect, ThreadStates
<1>4. CASE thread[t].op = "release"
  BY <1>1, <1>4 DEF AfterDisconnect, ThreadStates
<1>5. CASE thread[t].op \notin {"connect", "release"}
  BY <1>2, <1>5 DEF AfterDisconnect
<1> QED
  BY <1>3, <1>4, <1>5

\* CompareAndDelete only ever empties a key.
LEMMA CompareAndDeleteType ==
    ASSUME sessions \in [Keys -> Conns \cup {NoConn}], NEW k, NEW c,
           CompareAndDelete(k, c)
    PROVE  /\ sessions' \in [Keys -> Conns \cup {NoConn}]
           /\ \A j \in Keys : sessions'[j] = sessions[j] \/ sessions'[j] = NoConn
BY DEF CompareAndDelete

LEMMA BeginType ==
    ASSUME TypeOK, NEW t \in Threads, NEW k \in Keys,
           NEW op \in {"connect", "disconnect", "attach"},
           NEW pc \in {"disconnect", "dial", "resume"}, Begin(t, op, pc, k)
    PROVE  TypeOK'
<1>1. thread' \in [Threads -> ThreadStates]
  BY DEF Begin, TypeOK, ThreadStates
<1> QED
  BY <1>1 DEF Begin, TypeOK, lifeVars, streamVars

LEMMA CallType ==
    ASSUME TypeOK, NEW t \in Threads, Call(t)
    PROVE  TypeOK'
<1>1. ASSUME NEW k \in Keys, BeginConnect(t, k)
      PROVE  TypeOK'
  BY <1>1, BeginType DEF BeginConnect
<1>2. ASSUME NEW k \in Keys, BeginDisconnect(t, k)
      PROVE  TypeOK'
  BY <1>2, BeginType DEF BeginDisconnect
<1>3. ASSUME NEW k \in Keys, BeginAttach(t, k)
      PROVE  TypeOK'
  BY <1>3, BeginType DEF BeginAttach
<1>4. ASSUME NEW w \in Windows, CloseWindow(t, w)
      PROVE  TypeOK'
  <2>1. thread' \in [Threads -> ThreadStates]
    BY <1>4 DEF CloseWindow, TypeOK, ThreadStates, Idle
  <2> QED
    BY <1>4, <2>1 DEF CloseWindow, TypeOK, lifeVars, streamVars
<1> QED
  BY <1>1, <1>2, <1>3, <1>4 DEF Call

LEMMA ThreadStepType ==
    ASSUME TypeOK, NEW t \in Threads, ThreadStep(t)
    PROVE  TypeOK'
<1>1. ASSUME NEW k \in Keys, ScanNext(t, k)
      PROVE  TypeOK'
  <2>1. thread[t] \in ThreadStates /\ sessions[k] \in Conns \cup {NoConn}
    BY DEF TypeOK
  <2>2. [thread[t] EXCEPT !.pc = "disconnect", !.key = k, !.conn = sessions[k],
                          !.seen = @ \cup {k}] \in ThreadStates
    BY <2>1 DEF ThreadStates
  <2>3. thread' \in [Threads -> ThreadStates]
    <3>1. thread \in [Threads -> ThreadStates]
      BY DEF TypeOK
    <3> QED
      BY <1>1, <2>2, <3>1 DEF ScanNext
  <2> QED
    BY <1>1, <2>3 DEF ScanNext, TypeOK, lifeVars, streamVars
<1>2. CASE ScanEnd(t)
  <2>1. thread' \in [Threads -> ThreadStates]
    BY <1>2 DEF ScanEnd, TypeOK, ThreadStates, Idle
  <2> QED
    BY <1>2, <2>1 DEF ScanEnd, TypeOK, lifeVars, streamVars
<1>3. CASE Disconnect(t)
  <2>1. thread' \in [Threads -> ThreadStates]
    BY <1>3, AfterDisconnectType DEF Disconnect, TypeOK
  <2>2. sessions' \in [Keys -> Conns \cup {NoConn}]
    BY <1>3, CompareAndDeleteType DEF Disconnect, TypeOK
  <2>3. phase' \in [Conns -> Phases]
    BY <1>3 DEF Disconnect, EndOf, TypeOK, Phases
  <2> QED
    BY <1>3, <2>1, <2>2, <2>3 DEF Disconnect, TypeOK, streamVars
<1>4. CASE DialFails(t)
  <2>1. thread' \in [Threads -> ThreadStates]
    BY <1>4 DEF DialFails, TypeOK, ThreadStates, Idle
  <2> QED
    BY <1>4, <2>1 DEF DialFails, TypeOK, lifeVars, streamVars
<1>5. ASSUME NEW c \in Conns, DialSucceeds(t, c)
      PROVE  TypeOK'
  <2>1. thread' \in [Threads -> ThreadStates]
    BY <1>5 DEF DialSucceeds, TypeOK, ThreadStates, Idle
  <2>2. NewOutput(thread[t].key) \in Outputs
    <3>1. thread[t].key \in Keys \cup {NoKey} \cup (Windows \X {NoId})
      BY DEF TypeOK, ThreadStates
    <3> QED
      BY <3>1 DEF NewOutput, Outputs, Keys, NoKey
  <2>3. output' \in [Conns -> Outputs]
    BY <1>5, <2>2 DEF DialSucceeds, TypeOK
  <2> QED
    BY <1>5, <2>1, <2>3 DEF DialSucceeds, TypeOK, Phases
<1>6. CASE AttachResume(t)
  <2>1. thread' \in [Threads -> ThreadStates]
    BY <1>6 DEF AttachResume, TypeOK, ThreadStates, Idle
  <2>2. ASSUME NEW c \in Conns
        PROVE  /\ [output[c] EXCEPT !.paused = FALSE, !.pending = <<>>] \in Outputs
               /\ emitted[c] \o output[c].pending \in Seq(Nat)
    <3>1. output[c] \in Outputs /\ emitted[c] \in Seq(Nat)
      BY DEF TypeOK
    <3>2. output[c].pending \in Seq(Nat)
      BY <3>1 DEF Outputs
    <3>3. emitted[c] \o output[c].pending \in Seq(Nat)
      BY <3>1, <3>2
    <3>4. << >> \in Seq(Nat)
      OBVIOUS
    <3> QED
      BY <3>1, <3>3, <3>4 DEF Outputs
  <2>3. output' \in [Conns -> Outputs]
    BY <1>6, <2>2 DEF AttachResume, TypeOK
  <2>4. emitted' \in [Conns -> Seq(Nat)]
    BY <1>6, <2>2 DEF AttachResume, TypeOK
  <2> QED
    BY <1>6, <2>1, <2>3, <2>4 DEF AttachResume, TypeOK, lifeVars
<1> QED
  BY <1>1, <1>2, <1>3, <1>4, <1>5, <1>6 DEF ThreadStep
\* The steps of a session on its own.
SessionStep(c) == Write(c) \/ RemoteExit(c) \/ Forget(c) \/ NotifyExit(c)

LEMMA SessionStepType ==
    ASSUME TypeOK, NEW c \in Conns, SessionStep(c)
    PROVE  TypeOK'
<1>1. CASE Write(c)
  <2>1. produced[c] \in Nat /\ output[c] \in Outputs /\ emitted[c] \in Seq(Nat)
    BY DEF TypeOK
  <2>2. produced[c] + 1 \in Nat /\ output[c].pending \in Seq(Nat)
    BY <2>1 DEF Outputs
  <2>3. Newest(Append(output[c].pending, produced[c] + 1)) \in Seq(Nat)
    <3>1. Append(output[c].pending, produced[c] + 1) \in Seq(Nat)
      BY <2>2
    <3> QED
      BY <3>1, NewestType
  <2>4. Append(emitted[c], produced[c] + 1) \in Seq(Nat)
    BY <2>1, <2>2
  <2>5. [output[c] EXCEPT !.pending = Newest(Append(@, produced[c] + 1))] \in Outputs
    BY <2>1, <2>3 DEF Outputs
  <2>6. output' \in [Conns -> Outputs]
    <3>1. output \in [Conns -> Outputs]
      BY DEF TypeOK
    <3> QED
      BY <1>1, <2>5, <3>1 DEF Write
  <2>7. emitted' \in [Conns -> Seq(Nat)]
    BY <1>1, <2>4 DEF Write, TypeOK
  <2> QED
    BY <1>1, <2>2, <2>6, <2>7 DEF Write, TypeOK, lifeVars
<1>2. CASE RemoteExit(c)
  BY <1>2 DEF RemoteExit, EndOf, TypeOK, Phases, streamVars
<1>3. CASE Forget(c)
  <2>1. sessions' \in [Keys -> Conns \cup {NoConn}]
    BY <1>3, CompareAndDeleteType DEF Forget, TypeOK
  <2> QED
    BY <1>3, <2>1 DEF Forget, TypeOK, Phases, streamVars
<1>4. CASE NotifyExit(c)
  <2>1. output[c].window \in Windows \cup {NoWindow}
    BY DEF TypeOK, Outputs
  <2> QED
    BY <1>4, <2>1 DEF NotifyExit, TypeOK, Phases, streamVars
<1> QED
  BY <1>1, <1>2, <1>3, <1>4 DEF SessionStep

\* The steps of a move, its first included.
MoverStep == MoveStep \/ \E from, to \in Windows : BeginMove(from, to)

LEMMA MoverStepType ==
    ASSUME TypeOK, MoverStep
    PROVE  TypeOK'
<1>1. ASSUME NEW from \in Windows, NEW to \in Windows, BeginMove(from, to)
      PROVE  TypeOK'
  <2>1. mover' \in MoverStates
    BY <1>1 DEF BeginMove, Unlocked, MoverStates
  <2> QED
    BY <1>1, <2>1 DEF BeginMove, TypeOK, lifeVars, streamVars
<1>2. ASSUME NEW k \in Keys, MoveRange(k)
      PROVE  TypeOK'
  <2>1. mover \in MoverStates /\ sessions[k] \in Conns \cup {NoConn}
    BY DEF TypeOK
  <2>2. mover' \in MoverStates
    BY <1>2, <2>1 DEF MoveRange, MoverStates
  <2> QED
    BY <1>2, <2>2 DEF MoveRange, TypeOK, lifeVars, streamVars
<1>3. CASE MoveDelete
  <2>1. mover' \in MoverStates
    BY <1>3 DEF MoveDelete, TypeOK, MoverStates
  <2> QED
    BY <1>3, <2>1 DEF MoveDelete, TypeOK, lifeVars, streamVars
<1>4. CASE MoveTo
  <2>1. mover \in MoverStates /\ output \in [Conns -> Outputs]
    BY DEF TypeOK
  <2>2. mover' \in MoverStates
    BY <1>4, <2>1 DEF MoveTo, MoverStates
  <2>3. ASSUME NEW c \in Conns
        PROVE  [output[c] EXCEPT !.window = mover.to, !.paused = TRUE] \in Outputs
    <3>1. output[c] \in Outputs /\ mover.to \in Windows \cup {NoWindow}
      BY <2>1 DEF MoverStates
    <3> QED
      BY <3>1 DEF Outputs
  <2>4. output' \in [Conns -> Outputs]
    BY <1>4, <2>1, <2>3 DEF MoveTo
  <2> QED
    BY <1>4, <2>2, <2>4 DEF MoveTo, TypeOK, lifeVars
<1>5. CASE MoveStore
  <2>1. mover' \in MoverStates
    BY <1>5 DEF MoveStore, TypeOK, MoverStates, NoKey
  <2>2. sessions' \in [Keys -> Conns \cup {NoConn}]
    BY <1>5 DEF MoveStore, MoverStates, TypeOK
  <2> QED
    BY <1>5, <2>1, <2>2 DEF MoveStore, TypeOK, lifeVars, streamVars
<1>6. CASE EndMove
  <2>1. mover' \in MoverStates
    BY <1>6 DEF EndMove, Unlocked, MoverStates, NoKey
  <2> QED
    BY <1>6, <2>1 DEF EndMove, TypeOK, lifeVars, streamVars
<1> QED
  BY <1>1, <1>2, <1>3, <1>4, <1>5, <1>6 DEF MoverStep, MoveStep

LEMMA InitType == Init => TypeOK
<1> SUFFICES ASSUME Init PROVE TypeOK
  OBVIOUS
<1>1. NoOutput \in Outputs
  BY DEF NoOutput, Outputs
<1>2. Idle \in ThreadStates /\ Unlocked \in MoverStates
  BY DEF Idle, ThreadStates, Unlocked, MoverStates
<1> QED
  BY <1>1, <1>2 DEF Init, TypeOK, Phases

LEMMA NextType == TypeOK /\ [Next]_vars => TypeOK'
<1> SUFFICES ASSUME TypeOK, [Next]_vars PROVE TypeOK'
  OBVIOUS
<1>1. ASSUME NEW t \in Threads, Call(t) PROVE TypeOK'
  BY <1>1, CallType
<1>2. ASSUME NEW t \in Threads, ThreadStep(t) PROVE TypeOK'
  BY <1>2, ThreadStepType
<1>3. ASSUME NEW c \in Conns, SessionStep(c) PROVE TypeOK'
  BY <1>3, SessionStepType
<1>4. CASE MoverStep
  BY <1>4, MoverStepType
<1>5. CASE UNCHANGED vars
  BY <1>5 DEF vars, TypeOK
<1> QED
  BY <1>1, <1>2, <1>3, <1>4, <1>5 DEF Next, SessionStep, MoverStep

\* Every variable keeps its type, for any constants.
THEOREM TypeCorrect == Spec => []TypeOK
BY InitType, NextType, PTL DEF Spec
-----------------------------------------------------------------------------
(***************************************************************************)
(* Safety.  Frame covers the steps that touch none of the variables that   *)
(* the invariant relates.                                                  *)
(***************************************************************************)
LEMMA Frame ==
    ASSUME IInv, TypeOK', UNCHANGED <<sessions, lifeVars, output, mover>>
    PROVE  IInv'
BY DEF IInv, SessionBelongsToItsKey, ForgottenStaysForgotten, NoticeFollowsSession,
       MoverInv, UnusedIsNowhere, NoticeIsLast, OutputKey, lifeVars

\* A key that is emptied breaks nothing, nor does a session that ends.
LEMMA Emptying ==
    ASSUME IInv, TypeOK', UNCHANGED <<exitNotice, output, mover>>,
           \A k \in Keys : sessions'[k] = sessions[k] \/ sessions'[k] = NoConn,
           \A c \in Conns : \/ phase'[c] = phase[c]
                            \/ phase[c] = "running" /\ phase'[c] = "ended"
    PROVE  IInv'
<1>1. SessionBelongsToItsKey'
  BY DEF IInv, SessionBelongsToItsKey, OutputKey
<1>2. ForgottenStaysForgotten' /\ UnusedIsNowhere'
  BY SentinelAssumption DEF IInv, ForgottenStaysForgotten, UnusedIsNowhere
<1>3. NoticeFollowsSession' /\ NoticeIsLast'
  BY DEF IInv, NoticeFollowsSession, NoticeIsLast
<1>4. MoverInv'
  BY SentinelAssumption DEF IInv, MoverInv, OutputKey
<1> QED
  BY <1>1, <1>2, <1>3, <1>4 DEF IInv

LEMMA ThreadStepSafe ==
    ASSUME IInv, TypeOK', NEW t \in Threads, ThreadStep(t)
    PROVE  IInv'
<1> USE DEF lifeVars, streamVars
<1>1. ASSUME NEW k \in Keys, ScanNext(t, k) PROVE IInv'
  BY <1>1, Frame DEF ScanNext
<1>2. CASE ScanEnd(t)
  BY <1>2, Frame DEF ScanEnd
<1>3. CASE Disconnect(t)
  <2>1. \A k \in Keys : sessions'[k] = sessions[k] \/ sessions'[k] = NoConn
    BY <1>3, CompareAndDeleteType DEF Disconnect, IInv, TypeOK
  <2>2. \A c \in Conns : \/ phase'[c] = phase[c]
                         \/ phase[c] = "running" /\ phase'[c] = "ended"
    BY <1>3 DEF Disconnect, EndOf, IInv, TypeOK
  <2> QED
    BY <1>3, <2>1, <2>2, Emptying DEF Disconnect
<1>4. CASE DialFails(t)
  BY <1>4, Frame DEF DialFails
<1>5. ASSUME NEW c \in Conns, DialSucceeds(t, c) PROVE IInv'
  <2> USE <1>5 DEF DialSucceeds
  <2>1. /\ sessions \in [Keys -> Conns \cup {NoConn}]
        /\ output \in [Conns -> Outputs]
        /\ phase \in [Conns -> Phases]
    BY DEF IInv, TypeOK
  <2>2. \A k \in Keys : sessions[k] # c
    BY DEF IInv, UnusedIsNowhere
  <2>3. \A k \in Keys : IF k = thread[t].key THEN sessions'[k] = c
                                             ELSE sessions'[k] = sessions[k]
    BY <2>1
  <2>4. /\ output'[c] = NewOutput(thread[t].key) /\ phase'[c] = "running"
        /\ \A d \in Conns \ {c} : output'[d] = output[d] /\ phase'[d] = phase[d]
    BY <2>1
  <2>5. SessionBelongsToItsKey'
    <3> SUFFICES ASSUME NEW k \in Keys, sessions'[k] # NoConn
                 PROVE  <<output'[sessions'[k]].window, output'[sessions'[k]].id>> = k
      BY DEF SessionBelongsToItsKey, OutputKey
    <3>1. CASE k = thread[t].key
      BY <2>3, <2>4, <3>1 DEF OutputKey, NewOutput, Keys
    <3>2. CASE k # thread[t].key
      <4>1. sessions'[k] = sessions[k] /\ sessions[k] \in Conns \ {c}
        BY <2>1, <2>2, <2>3, <3>2
      <4>2. OutputKey(sessions[k]) = k
        BY <4>1, SentinelAssumption DEF IInv, SessionBelongsToItsKey
      <4> QED
        BY <2>4, <4>1, <4>2 DEF OutputKey
    <3> QED
      BY <3>1, <3>2
  <2>6. ForgottenStaysForgotten' /\ UnusedIsNowhere'
    BY <2>2, <2>3, <2>4 DEF IInv, ForgottenStaysForgotten, UnusedIsNowhere
  <2>7. exitNotice[c] = NoWindow
    BY DEF IInv, NoticeIsLast
  <2>8. NoticeFollowsSession' /\ NoticeIsLast'
    BY <2>4, <2>7 DEF IInv, NoticeFollowsSession, NoticeIsLast
  <2>9. MoverInv'
    <3>1. mover.pc \in {"delete", "store"} => mover.conn \in Conns \ {c}
      BY DEF IInv, MoverInv
    <3> QED
      BY <2>3, <2>4, <3>1 DEF IInv, MoverInv, OutputKey
  <2> QED
    BY <2>5, <2>6, <2>8, <2>9 DEF IInv
<1>6. CASE AttachResume(t)
  <2>1. output \in [Conns -> Outputs]
    BY DEF IInv, TypeOK
  <2>2. ASSUME NEW c \in Conns
        PROVE  output'[c].window = output[c].window /\ output'[c].id = output[c].id
    BY <1>6, <2>1 DEF AttachResume, Outputs
  <2>3. SessionBelongsToItsKey'
    BY <1>6, <2>2 DEF AttachResume, IInv, TypeOK, SessionBelongsToItsKey, OutputKey
  <2>4. NoticeFollowsSession'
    BY <1>6, <2>2 DEF AttachResume, IInv, NoticeFollowsSession
  <2>5. MoverInv'
    BY <1>6, <2>2 DEF AttachResume, IInv, MoverInv, OutputKey
  <2>6. ForgottenStaysForgotten' /\ UnusedIsNowhere' /\ NoticeIsLast'
    BY <1>6 DEF AttachResume, IInv, ForgottenStaysForgotten, UnusedIsNowhere,
                NoticeIsLast
  <2> QED
    BY <2>3, <2>4, <2>5, <2>6 DEF IInv
<1> QED
  BY <1>1, <1>2, <1>3, <1>4, <1>5, <1>6 DEF ThreadStep

LEMMA SessionStepSafe ==
    ASSUME IInv, TypeOK', NEW c \in Conns, SessionStep(c)
    PROVE  IInv'
<1> USE DEF lifeVars, streamVars
<1>1. CASE Write(c)
  <2>1. output \in [Conns -> Outputs]
    BY DEF IInv, TypeOK
  <2>2. ASSUME NEW d \in Conns
        PROVE  output'[d].window = output[d].window /\ output'[d].id = output[d].id
    BY <1>1, <2>1 DEF Write, Outputs
  <2>3. SessionBelongsToItsKey'
    BY <1>1, <2>2 DEF Write, IInv, TypeOK, SessionBelongsToItsKey, OutputKey
  <2>4. NoticeFollowsSession'
    BY <1>1, <2>2 DEF Write, IInv, NoticeFollowsSession
  <2>5. MoverInv'
    BY <1>1, <2>2 DEF Write, IInv, MoverInv, OutputKey
  <2>6. ForgottenStaysForgotten' /\ UnusedIsNowhere' /\ NoticeIsLast'
    BY <1>1 DEF Write, IInv, ForgottenStaysForgotten, UnusedIsNowhere, NoticeIsLast
  <2> QED
    BY <2>3, <2>4, <2>5, <2>6 DEF IInv
<1>2. CASE RemoteExit(c)
  BY <1>2, Emptying DEF RemoteExit, EndOf, IInv, TypeOK
<1>3. CASE Forget(c)
  <2> USE <1>3 DEF Forget
  <2>1. /\ sessions \in [Keys -> Conns \cup {NoConn}]
        /\ phase \in [Conns -> Phases]
    BY DEF IInv, TypeOK
  <2>2. \A k \in Keys : sessions'[k] = sessions[k] \/ sessions'[k] = NoConn
    BY <2>1, CompareAndDeleteType
  <2>3. \A k \in Keys : sessions'[k] # c
    <3> SUFFICES ASSUME NEW k \in Keys, sessions[k] = c PROVE sessions'[k] # c
      BY <2>2, SentinelAssumption
    <3>1. OutputKey(c) = k
      BY SentinelAssumption DEF IInv, SessionBelongsToItsKey
    <3> QED
      BY <2>1, <3>1, SentinelAssumption DEF CompareAndDelete
  <2>4. /\ phase'[c] = "forgotten"
        /\ \A d \in Conns \ {c} : phase'[d] = phase[d]
    BY <2>1
  <2>5. SessionBelongsToItsKey'
    BY <2>2 DEF IInv, SessionBelongsToItsKey, OutputKey
  <2>6. ForgottenStaysForgotten' /\ UnusedIsNowhere'
    BY <2>2, <2>3, <2>4, SentinelAssumption
    DEF IInv, ForgottenStaysForgotten, UnusedIsNowhere
  <2>7. NoticeFollowsSession' /\ NoticeIsLast'
    BY <2>4 DEF IInv, NoticeFollowsSession, NoticeIsLast
  <2>8. MoverInv'
    BY DEF IInv, MoverInv
  <2> QED
    BY <2>5, <2>6, <2>7, <2>8 DEF IInv
<1>4. CASE NotifyExit(c)
  <2> USE <1>4 DEF NotifyExit
  <2>1. /\ phase'[c] = "done"
        /\ \A d \in Conns \ {c} : phase'[d] = phase[d] /\ exitNotice'[d] = exitNotice[d]
        /\ exitNotice'[c] = exitNotice[c] \/ exitNotice'[c] = output[c].window
    BY DEF IInv, TypeOK
  <2>2. SessionBelongsToItsKey'
    BY DEF IInv, SessionBelongsToItsKey, OutputKey
  <2>3. ForgottenStaysForgotten' /\ UnusedIsNowhere'
    BY <2>1 DEF IInv, ForgottenStaysForgotten, UnusedIsNowhere
  <2>4. NoticeFollowsSession' /\ NoticeIsLast'
    BY <2>1 DEF IInv, NoticeFollowsSession, NoticeIsLast
  <2>5. MoverInv'
    <3>1. mover.pc \in {"delete", "store"} => mover.conn \in Conns \ {c}
      BY DEF IInv, MoverInv
    <3> QED
      BY <2>1, <3>1 DEF IInv, MoverInv, OutputKey
  <2> QED
    BY <2>2, <2>3, <2>4, <2>5 DEF IInv
<1> QED
  BY <1>1, <1>2, <1>3, <1>4 DEF SessionStep

LEMMA MoverStepSafe ==
    ASSUME IInv, TypeOK', MoverStep
    PROVE  IInv'
<1> USE DEF lifeVars, streamVars
<1>1. ASSUME UNCHANGED <<sessions, lifeVars, output>>, MoverInv'
      PROVE  IInv'
  BY <1>1 DEF IInv, SessionBelongsToItsKey, ForgottenStaysForgotten, OutputKey,
              NoticeFollowsSession, UnusedIsNowhere, NoticeIsLast
<1>2. ASSUME NEW from \in Windows, NEW to \in Windows, BeginMove(from, to)
      PROVE  IInv'
  BY <1>1, <1>2 DEF BeginMove, Unlocked, MoverInv
<1>3. ASSUME NEW k \in Keys, MoveRange(k)
      PROVE  IInv'
  <2> USE <1>3 DEF MoveRange
  <2>1. /\ mover' = [mover EXCEPT !.pc = "delete", !.key = k, !.conn = sessions[k],
                                  !.seen = @ \cup {k}]
        /\ mover \in MoverStates
    BY DEF IInv, TypeOK
  <2>2. mover'.pc = "delete" /\ mover'.key = k /\ mover'.conn = sessions[k]
    BY <2>1 DEF MoverStates
  <2>3. sessions[k] \in Conns /\ OutputKey(sessions[k]) = k
    BY DEF Unseen, IInv, TypeOK, SessionBelongsToItsKey
  <2>4. phase[sessions[k]] \in {"running", "ended"}
    BY <2>3 DEF IInv, TypeOK, Phases, ForgottenStaysForgotten, UnusedIsNowhere
  <2>5. MoverInv'
    BY <2>2, <2>3, <2>4 DEF MoverInv, OutputKey
  <2> QED
    BY <1>1, <2>5
<1>4. CASE MoveDelete
  <2> USE <1>4 DEF MoveDelete
  <2>1. /\ mover'.pc = "move" /\ mover'.conn = mover.conn
        /\ sessions \in [Keys -> Conns \cup {NoConn}]
    BY DEF IInv, TypeOK, MoverStates
  <2>2. /\ mover.conn \in Conns /\ phase[mover.conn] \in {"running", "ended"}
        /\ mover.key = OutputKey(mover.conn)
    BY DEF IInv, MoverInv
  <2>3. \A k \in Keys : \/ sessions'[k] = NoConn
                        \/ k # mover.key /\ sessions'[k] = sessions[k]
    BY <2>1
  <2>4. \A k \in Keys : sessions'[k] # mover.conn
    BY <2>2, <2>3, SentinelAssumption DEF IInv, SessionBelongsToItsKey
  <2>5. MoverInv'
    BY <2>1, <2>2, <2>4 DEF MoverInv
  <2>6. SessionBelongsToItsKey'
    BY <2>3 DEF IInv, SessionBelongsToItsKey, OutputKey
  <2>7. ForgottenStaysForgotten' /\ UnusedIsNowhere'
    BY <2>3, SentinelAssumption DEF IInv, ForgottenStaysForgotten, UnusedIsNowhere
  <2>8. NoticeFollowsSession' /\ NoticeIsLast'
    BY DEF IInv, NoticeFollowsSession, NoticeIsLast
  <2> QED
    BY <2>5, <2>6, <2>7, <2>8 DEF IInv
<1>5. CASE MoveTo
  <2>1. PICK c : c = mover.conn
    OBVIOUS
  <2>2. /\ c \in Conns /\ phase[c] \in {"running", "ended"}
        /\ \A k \in Keys : sessions[k] # c
        /\ output \in [Conns -> Outputs] /\ mover \in MoverStates
        /\ UNCHANGED <<sessions, phase, exitNotice>>
    BY <1>5, <2>1 DEF MoveTo, IInv, MoverInv, TypeOK
  <2>3. /\ output'[c].window = mover.to
        /\ \A d \in Conns \ {c} : output'[d] = output[d]
    BY <1>5, <2>1, <2>2 DEF MoveTo, Outputs
  <2>4. mover'.pc = "store" /\ mover'.conn = c /\ mover'.to = mover.to
    BY <1>5, <2>1, <2>2 DEF MoveTo, MoverStates
  <2>5. SessionBelongsToItsKey'
    <3> SUFFICES ASSUME NEW k \in Keys, sessions[k] # NoConn
                 PROVE  <<output'[sessions[k]].window, output'[sessions[k]].id>> = k
      BY <2>2 DEF SessionBelongsToItsKey, OutputKey
    <3>1. sessions[k] \in Conns \ {c}
      BY <2>2 DEF IInv, TypeOK
    <3> QED
      BY <2>3, <3>1 DEF IInv, SessionBelongsToItsKey, OutputKey
  <2>6. ForgottenStaysForgotten' /\ UnusedIsNowhere' /\ NoticeIsLast'
    BY <2>2 DEF IInv, ForgottenStaysForgotten, UnusedIsNowhere, NoticeIsLast
  <2>7. exitNotice[c] = NoWindow
    BY <2>2 DEF IInv, NoticeIsLast
  <2>8. NoticeFollowsSession'
    BY <2>2, <2>3, <2>7 DEF IInv, NoticeFollowsSession
  <2>9. MoverInv'
    BY <2>2, <2>3, <2>4 DEF MoverInv
  <2> QED
    BY <2>5, <2>6, <2>8, <2>9 DEF IInv
<1>6. CASE MoveStore
  <2>1. PICK c, key : c = mover.conn /\ key = OutputKey(c)
    OBVIOUS
  <2>2. /\ c \in Conns /\ phase[c] \in {"running", "ended"}
        /\ \A k \in Keys : sessions[k] # c
        /\ UNCHANGED <<output, phase, exitNotice>>
    BY <1>6, <2>1 DEF MoveStore, IInv, MoverInv
  <2>3. \A k \in Keys : sessions'[k] = IF k = key THEN c ELSE sessions[k]
    BY <1>6, <2>1 DEF MoveStore, IInv, TypeOK
  <2>4. SessionBelongsToItsKey'
    BY <2>1, <2>2, <2>3 DEF IInv, SessionBelongsToItsKey, OutputKey
  <2>5. ForgottenStaysForgotten' /\ UnusedIsNowhere'
    BY <2>2, <2>3 DEF IInv, ForgottenStaysForgotten, UnusedIsNowhere
  <2>6. NoticeFollowsSession' /\ NoticeIsLast'
    BY <2>2 DEF IInv, NoticeFollowsSession, NoticeIsLast
  <2>7. mover'.pc = "range"
    BY <1>6 DEF MoveStore, IInv, TypeOK, MoverStates
  <2>8. MoverInv'
    BY <2>7 DEF MoverInv
  <2> QED
    BY <2>4, <2>5, <2>6, <2>8 DEF IInv
<1>7. CASE EndMove
  BY <1>1, <1>7 DEF EndMove, Unlocked, MoverInv
<1> QED
  BY <1>2, <1>3, <1>4, <1>5, <1>6, <1>7 DEF MoverStep, MoveStep

LEMMA InitSafe == Init => IInv
<1> SUFFICES ASSUME Init PROVE IInv
  OBVIOUS
<1>1. TypeOK
  BY InitType
<1>2. SessionBelongsToItsKey /\ ForgottenStaysForgotten /\ NoticeFollowsSession
  BY DEF Init, SessionBelongsToItsKey, ForgottenStaysForgotten, NoticeFollowsSession
<1>3. MoverInv /\ UnusedIsNowhere /\ NoticeIsLast
  BY SentinelAssumption DEF Init, Unlocked, MoverInv, UnusedIsNowhere, NoticeIsLast
<1> QED
  BY <1>1, <1>2, <1>3 DEF IInv

LEMMA NextSafe == IInv /\ [Next]_vars => IInv'
<1> SUFFICES ASSUME IInv, [Next]_vars PROVE IInv'
  OBVIOUS
<1>1. TypeOK'
  BY NextType DEF IInv
<1>2. ASSUME NEW t \in Threads, Call(t) PROVE IInv'
  BY <1>1, <1>2, Frame DEF Call, BeginConnect, BeginDisconnect, BeginAttach, Begin,
                           CloseWindow, lifeVars, streamVars
<1>3. ASSUME NEW t \in Threads, ThreadStep(t) PROVE IInv'
  BY <1>1, <1>3, ThreadStepSafe
<1>4. ASSUME NEW c \in Conns, SessionStep(c) PROVE IInv'
  BY <1>1, <1>4, SessionStepSafe
<1>5. CASE MoverStep
  BY <1>1, <1>5, MoverStepSafe
<1>6. CASE UNCHANGED vars
  BY <1>1, <1>6, Frame DEF vars, lifeVars
<1> QED
  BY <1>2, <1>3, <1>4, <1>5, <1>6 DEF Next, SessionStep, MoverStep

THEOREM Invariant == Spec => []IInv
BY InitSafe, NextSafe, PTL DEF Spec

(***************************************************************************)
(* A session found under a key sends its output to that window under that  *)
(* id, however calls, releases and moves interleave.                       *)
(***************************************************************************)
THEOREM SessionsBelong == Spec => []SessionBelongsToItsKey
BY Invariant, PTL DEF IInv

(***************************************************************************)
(* A session that its waiter has forgotten never comes back into the map.  *)
(***************************************************************************)
THEOREM ForgottenIsFinal == Spec => []ForgottenStaysForgotten
BY Invariant, PTL DEF IInv

(***************************************************************************)
(* The end of a session is told to the window that owns it, not to one     *)
(* that it has been moved away from.                                       *)
(***************************************************************************)
THEOREM NoticesFollow == Spec => []NoticeFollowsSession
BY Invariant, PTL DEF IInv

-----------------------------------------------------------------------------
(***************************************************************************)
(* The stream of a connection.  Of n chunks read, the windows have e and   *)
(* the buffer p: the buffer is always the last chunks without a gap, what  *)
(* the windows have is older, and a chunk is missing only with MaxPending  *)
(* chunks after it that are there (Orderly).                               *)
(***************************************************************************)
There(q, e, p, n) == (q \in Nat /\ n - Len(p) < q /\ q <= n) \/ \E i \in DOMAIN e : e[i] = q

Rising(e) == \A i, j \in DOMAIN e : i < j => e[i] < e[j]

GapsExcused(e, p, n) ==
    \A k \in 1 .. n : There(k, e, p, n) \/ \E m \in k .. n : \A q \in m + 1 .. m + MaxPending : There(q, e, p, n)

LastOf(p, n) ==
    p \in Seq(Nat) /\ n \in Nat /\ Len(p) <= MaxPending /\ Len(p) <= n /\ \A i \in DOMAIN p : p[i] = n - Len(p) + i

Orderly(e, p, n) ==
    /\ e \in Seq(Nat) /\ LastOf(p, n)
    /\ Rising(e) /\ \A i \in DOMAIN e : 1 <= e[i] /\ e[i] <= n - Len(p)
    /\ GapsExcused(e, p, n)

LEMMA NothingRead == Orderly(<<>>, <<>>, 0)
BY BoundAssumption DEF LastOf, Orderly, Rising, GapsExcused

\* write to a window: the buffer is empty and stays so.
LEMMA ChunkSent ==
    ASSUME NEW e, NEW n, Orderly(e, <<>>, n)
    PROVE  Orderly(Append(e, n + 1), <<>>, n + 1)
<1> DEFINE f == Append(e, n + 1)
<1>0. e \in Seq(Nat) /\ n \in Nat /\ Len(e) \in Nat /\ DOMAIN e = 1 .. Len(e)
  BY DEF LastOf, Orderly
<1>1. /\ f \in Seq(Nat) /\ DOMAIN f = 1 .. Len(e) + 1 /\ f[Len(e) + 1] = n + 1
      /\ \A i \in DOMAIN e : i \in DOMAIN f /\ f[i] = e[i]
  BY <1>0
<1> HIDE DEF f
<1>2. \A i \in DOMAIN e : e[i] \in Nat /\ 1 <= e[i] /\ e[i] <= n
  BY <1>0 DEF LastOf, Orderly
<1>a. \A i, j \in DOMAIN e : i < j => e[i] < e[j]
  BY DEF LastOf, Orderly, Rising
<1>b. \A i \in DOMAIN f : i \in DOMAIN e \/ i = Len(e) + 1
  BY <1>0, <1>1
<1>c. \A i \in DOMAIN e : i <= Len(e)
  BY <1>0
<1>d. \A i \in DOMAIN f : f[i] \in Nat /\ 1 <= f[i] /\ f[i] <= n + 1 /\ (i \in DOMAIN e => f[i] < n + 1)
  BY <1>0, <1>1, <1>2, <1>b, <1>c
<1>e. ASSUME NEW i \in DOMAIN f, NEW j \in DOMAIN f, i < j PROVE f[i] < f[j]
  <2>1. i \in DOMAIN e
    BY <1>0, <1>1, <1>b, <1>c, <1>e
  <2> QED
    BY <2>1, <1>1, <1>a, <1>b, <1>d, <1>e
<1>3. Rising(f) /\ \A i \in DOMAIN f : 1 <= f[i] /\ f[i] <= n + 1
  BY <1>d, <1>e DEF Rising
<1>4. \A q : There(q, e, <<>>, n) => There(q, f, <<>>, n + 1)
  BY <1>0, <1>1 DEF There
<1>5. There(n + 1, f, <<>>, n + 1)
  BY <1>0, <1>1 DEF There
<1>6. ASSUME NEW k \in 1 .. n + 1
      PROVE  There(k, f, <<>>, n + 1)
             \/ \E m \in k .. n + 1 : \A q \in m + 1 .. m + MaxPending : There(q, f, <<>>, n + 1)
  <2>1. CASE k = n + 1
    BY <2>1, <1>5
  <2>2. CASE k \in 1 .. n
    <3>1. There(k, e, <<>>, n) \/ \E m \in k .. n : \A q \in m + 1 .. m + MaxPending : There(q, e, <<>>, n)
      BY <2>2 DEF LastOf, Orderly, GapsExcused
    <3>2. \A m \in k .. n : m \in k .. n + 1
      BY <1>0
    <3> QED
      BY <3>1, <3>2, <1>4
  <2> QED
    BY <2>1, <2>2, <1>0
<1> QED
  BY <1>0, <1>1, <1>3, <1>6 DEF LastOf, Orderly, GapsExcused, f

\* A part of a sequence, place by place.
LEMMA Piece ==
    ASSUME NEW S, NEW a \in Seq(S), NEW h \in 1 .. Len(a), NEW t \in h .. Len(a)
    PROVE  /\ SubSeq(a, h, t) \in Seq(S) /\ Len(SubSeq(a, h, t)) = t - h + 1
           /\ \A i \in 1 .. t - h + 1 : SubSeq(a, h, t)[i] = a[h + i - 1]
<1>1. h \in Int /\ t \in Int /\ h <= t /\ t - h + 1 \in Nat /\ \A i \in h .. t : i \in 1 .. Len(a)
  OBVIOUS
<1>2. \A i \in h .. t : a[i] \in S
  BY <1>1, ElementOfSeq
<1>3. /\ SubSeq(a, h, t) \in Seq(S)
      /\ Len(SubSeq(a, h, t)) = IF h <= t THEN t - h + 1 ELSE 0
      /\ \A i \in 1 .. t - h + 1 : SubSeq(a, h, t)[i] = a[h + i - 1]
  BY <1>1, <1>2, SubSeqProperties
<1>4. Len(SubSeq(a, h, t)) = t - h + 1
  BY <1>1, <1>3
<1> DEFINE s == SubSeq(a, h, t)
<1>5. s \in Seq(S) /\ Len(s) = t - h + 1 /\ \A i \in 1 .. t - h + 1 : s[i] = a[h + i - 1]
  BY <1>3, <1>4
<1> QED
  BY <1>5

\* write to the buffer, which drops its oldest chunk when it is full.
LEMMA NewestIs ==
    ASSUME NEW p, NEW n, LastOf(p, n)
    PROVE  /\ LastOf(Newest(Append(p, n + 1)), n + 1)
           /\ Len(Newest(Append(p, n + 1))) = IF Len(p) = MaxPending THEN MaxPending ELSE Len(p) + 1
<1> DEFINE l == Len(p)
           a == Append(p, n + 1)
<1>0. /\ MaxPending \in Nat \ {0} /\ a \in Seq(Nat) /\ Len(a) = l + 1 /\ DOMAIN a = 1 .. l + 1
      /\ n \in Nat /\ l \in Nat /\ l <= MaxPending /\ l <= n
  BY BoundAssumption DEF LastOf
<1>1. \A i \in 1 .. l + 1 : a[i] = n - l + i
  <2>1. /\ a[l + 1] = n + 1 /\ \A i \in 1 .. l : a[i] = p[i]
        /\ \A i \in 1 .. l : p[i] = n - l + i
    BY DEF LastOf
  <2> HIDE DEF a, l
  <2>2. \A i \in 1 .. l + 1 : i = l + 1 \/ i \in 1 .. l
    BY <1>0
  <2>3. n - l + (l + 1) = n + 1
    BY <1>0
  <2> QED
    BY <2>1, <2>2, <2>3
<1> HIDE DEF a, l
<1>2. CASE l < MaxPending
  <2>1. Newest(a) = a
    BY <1>0, <1>2 DEF Newest
  <2>2. \A i \in 1 .. l + 1 : a[i] = (n + 1) - (l + 1) + i
    BY <1>0, <1>1
  <2>3. l + 1 <= MaxPending /\ l + 1 <= n + 1 /\ n + 1 \in Nat /\ l # MaxPending
    BY <1>0, <1>2
  <2>4. LastOf(a, n + 1)
    BY <1>0, <2>2, <2>3 DEF LastOf
  <2> QED
    BY <1>0, <2>1, <2>3, <2>4 DEF a, l
<1>3. CASE l = MaxPending
  <2> DEFINE t == MaxPending + 1
             b == SubSeq(a, 2, t)
  <2>1. 2 \in 1 .. Len(a) /\ t \in 2 .. Len(a) /\ t - 2 + 1 = MaxPending
    BY <1>0, <1>3
  <2>2. Newest(a) = b
    <3>1. Len(a) - MaxPending + 1 = 2 /\ Len(a) = t /\ Len(a) > MaxPending
      BY <1>0, <1>3
    <3> QED
      BY <3>1 DEF Newest
  <2>3. b \in Seq(Nat) /\ Len(b) = MaxPending /\ \A i \in 1 .. MaxPending : b[i] = a[2 + i - 1]
    <3>0. a \in Seq(Nat)
      BY <1>0
    <3> HIDE DEF t, b
    <3>1. /\ SubSeq(a, 2, t) \in Seq(Nat) /\ Len(SubSeq(a, 2, t)) = t - 2 + 1
          /\ \A i \in 1 .. t - 2 + 1 : SubSeq(a, 2, t)[i] = a[2 + i - 1]
      BY <3>0, <2>1, Piece
    <3> QED
      BY <3>1, <2>1 DEF b
  <2> HIDE DEF b
  <2>4. ASSUME NEW i \in 1 .. MaxPending PROVE b[i] = (n + 1) - MaxPending + i
    <3>1. 2 + i - 1 = i + 1 /\ i + 1 \in 1 .. l + 1 /\ n - l + (i + 1) = (n + 1) - MaxPending + i
      BY <1>0, <1>3
    <3> QED
      BY <1>1, <2>3, <3>1
  <2>5. DOMAIN b = 1 .. MaxPending
    BY <2>3, LenProperties
  <2>6. MaxPending <= n + 1 /\ n + 1 \in Nat /\ MaxPending <= MaxPending
    BY <1>0, <1>3
  <2>7. LastOf(b, n + 1)
    BY <2>3, <2>4, <2>5, <2>6 DEF LastOf
  <2> QED
    BY <1>3, <2>2, <2>3, <2>7 DEF a, l
<1> QED
  BY <1>0, <1>2, <1>3

LEMMA ChunkBuffered ==
    ASSUME NEW e, NEW p, NEW n, Orderly(e, p, n)
    PROVE  Orderly(e, Newest(Append(p, n + 1)), n + 1)
<1> DEFINE b == Newest(Append(p, n + 1))
<1>0. /\ e \in Seq(Nat) /\ p \in Seq(Nat) /\ n \in Nat /\ Len(p) <= MaxPending /\ Len(p) <= n
      /\ Len(p) \in Nat /\ MaxPending \in Nat \ {0} /\ \A i \in DOMAIN p : p[i] = n - Len(p) + i
  BY BoundAssumption DEF LastOf, Orderly
<1>1. LastOf(b, n + 1) /\ Len(b) = IF Len(p) = MaxPending THEN MaxPending ELSE Len(p) + 1
  <2>1. LastOf(p, n)
    BY DEF Orderly
  <2> QED
    BY <2>1, NewestIs
<1> HIDE DEF b
<1>2. Len(b) \in Nat /\ Len(b) <= MaxPending /\ Len(b) <= n + 1 /\ n - Len(p) <= n + 1 - Len(b)
  BY <1>0, <1>1
<1>3. Rising(e) /\ \A i \in DOMAIN e : 1 <= e[i] /\ e[i] <= n + 1 - Len(b)
  <2>1. \A i \in DOMAIN e : e[i] \in Nat
    BY <1>0
  <2> QED
    BY <1>0, <1>2, <2>1 DEF LastOf, Orderly
<1>4. GapsExcused(e, b, n + 1)
  <2> SUFFICES ASSUME NEW k \in 1 .. n + 1, ~There(k, e, b, n + 1)
               PROVE  \E m \in k .. n + 1 : \A q \in m + 1 .. m + MaxPending : There(q, e, b, n + 1)
    BY DEF GapsExcused
  <2>1. k <= n + 1 - Len(b)
    BY <1>0, <1>2 DEF There
  <2>2. CASE Len(p) = MaxPending
    <3> DEFINE m == n + 1 - MaxPending
    <3>1. m \in k .. n + 1 /\ \A q \in m + 1 .. m + MaxPending : q \in Nat /\ n + 1 - Len(b) < q /\ q <= n + 1
      BY <1>0, <1>1, <2>1, <2>2
    <3> HIDE DEF m
    <3>2. \A q \in m + 1 .. m + MaxPending : There(q, e, b, n + 1)
      <4> TAKE q \in m + 1 .. m + MaxPending
      <4>1. q \in Nat /\ (n + 1) - Len(b) < q /\ q <= n + 1
        BY <1>0, <1>2, <3>1
      <4> QED
        BY <4>1 DEF There
    <3> QED
      BY <3>1, <3>2
  <2>3. CASE Len(p) # MaxPending
    <3>1. n - Len(p) = n + 1 - Len(b)
      BY <1>0, <1>1, <2>3
    <3>2. ASSUME NEW q, There(q, e, p, n) PROVE There(q, e, b, n + 1)
      <4>1. CASE q \in Nat /\ n - Len(p) < q /\ q <= n
        <5>1. (n + 1) - Len(b) < q /\ q <= n + 1
          BY <1>0, <3>1, <4>1
        <5> QED
          BY <4>1, <5>1 DEF There
      <4>2. CASE \E i \in DOMAIN e : e[i] = q
        BY <4>2 DEF There
      <4> QED
        BY <3>2, <4>1, <4>2 DEF There
    <3>3. k \in 1 .. n
      BY <1>0, <1>1, <2>1, <2>3, <3>1
    <3>4. PICK m \in k .. n : \A q \in m + 1 .. m + MaxPending : There(q, e, p, n)
      BY <3>2, <3>3 DEF LastOf, Orderly, GapsExcused
    <3>5. m \in k .. n + 1
      BY <1>0, <3>3, <3>4
    <3> QED
      BY <3>2, <3>4, <3>5
  <2> QED
    BY <2>2, <2>3
<1> QED
  BY <1>0, <1>1, <1>2, <1>3, <1>4 DEF LastOf, Orderly, b

\* What the windows have received, followed by the buffer.
LEMMA Joined ==
    ASSUME NEW e, NEW p, NEW n, Orderly(e, p, n)
    PROVE  /\ e \o p \in Seq(Nat) /\ Rising(e \o p) /\ \A i \in DOMAIN (e \o p) : 1 <= (e \o p)[i] /\ (e \o p)[i] <= n
           /\ \A q : There(q, e, p, n) => \E i \in DOMAIN (e \o p) : (e \o p)[i] = q
<1> DEFINE s == e \o p
<1>0. /\ e \in Seq(Nat) /\ p \in Seq(Nat) /\ n \in Nat /\ Len(e) \in Nat /\ Len(p) \in Nat /\ Len(p) <= n
      /\ DOMAIN e = 1 .. Len(e) /\ DOMAIN p = 1 .. Len(p)
      /\ \A i \in DOMAIN p : p[i] = n - Len(p) + i
      /\ \A i \in DOMAIN e : 1 <= e[i] /\ e[i] <= n - Len(p)
  BY DEF LastOf, Orderly
<1>1. \A i \in 1 .. Len(e) : e[i] \in Nat /\ 1 <= e[i] /\ e[i] <= n - Len(p)
  BY <1>0
<1>2. s \in Seq(Nat) /\ DOMAIN s = 1 .. Len(e) + Len(p)
  BY <1>0
<1>3. \A i \in 1 .. Len(e) + Len(p) : s[i] = IF i <= Len(e) THEN e[i] ELSE p[i - Len(e)]
  BY <1>0
<1> HIDE DEF s
<1>4. \A i \in 1 .. Len(e) : s[i] = e[i]
  BY <1>0, <1>3
<1>5. \A i \in Len(e) + 1 .. Len(e) + Len(p) : s[i] = n - Len(p) + (i - Len(e))
  <2> TAKE i \in Len(e) + 1 .. Len(e) + Len(p)
  <2>1. i \in 1 .. Len(e) + Len(p) /\ ~(i <= Len(e)) /\ i - Len(e) \in 1 .. Len(p)
    BY <1>0
  <2>2. s[i] = p[i - Len(e)]
    BY <1>3, <2>1
  <2> QED
    BY <1>0, <2>1, <2>2
<1>a. \A i \in 1 .. Len(e) + Len(p) : i \in 1 .. Len(e) \/ i \in Len(e) + 1 .. Len(e) + Len(p)
  BY <1>0
<1>b. \A i \in Len(e) + 1 .. Len(e) + Len(p) : s[i] \in Nat /\ n - Len(p) < s[i] /\ s[i] <= n
  BY <1>0, <1>5
<1>c. \A i \in 1 .. Len(e) : s[i] \in Nat /\ 1 <= s[i] /\ s[i] <= n - Len(p)
  BY <1>1, <1>4
<1>6. \A i \in DOMAIN s : 1 <= s[i] /\ s[i] <= n
  <2> TAKE i \in DOMAIN s
  <2>1. CASE i \in 1 .. Len(e)
    BY <2>1, <1>0, <1>c
  <2>2. CASE i \in Len(e) + 1 .. Len(e) + Len(p)
    BY <2>2, <1>0, <1>b
  <2> QED
    BY <1>2, <1>a, <2>1, <2>2
<1>7. Rising(s)
  <2> SUFFICES ASSUME NEW i \in 1 .. Len(e) + Len(p), NEW j \in 1 .. Len(e) + Len(p), i < j PROVE s[i] < s[j]
    BY <1>2 DEF Rising
  <2>1. CASE j <= Len(e)
    <3>1. i \in 1 .. Len(e) /\ j \in 1 .. Len(e)
      BY <1>0, <2>1
    <3> QED
      BY <3>1, <1>0, <1>4 DEF LastOf, Orderly, Rising
  <2>2. CASE i <= Len(e) /\ Len(e) < j
    <3>1. i \in 1 .. Len(e) /\ j \in Len(e) + 1 .. Len(e) + Len(p)
      BY <1>0, <2>2
    <3> QED
      BY <3>1, <1>0, <1>b, <1>c
  <2>3. CASE Len(e) < i
    <3>1. i \in Len(e) + 1 .. Len(e) + Len(p) /\ j \in Len(e) + 1 .. Len(e) + Len(p)
      BY <1>0, <2>3
    <3>2. s[i] = n - Len(p) + (i - Len(e)) /\ s[j] = n - Len(p) + (j - Len(e))
      BY <3>1, <1>5
    <3> QED
      BY <3>1, <3>2, <1>0
  <2> QED
    BY <2>1, <2>2, <2>3, <1>0
<1>8. ASSUME NEW q, There(q, e, p, n) PROVE \E i \in DOMAIN s : s[i] = q
  <2>1. CASE q \in Nat /\ n - Len(p) < q /\ q <= n
    <3> DEFINE i == q - n + Len(p) + Len(e)
    <3>1. i \in Len(e) + 1 .. Len(e) + Len(p) /\ n - Len(p) + (i - Len(e)) = q
      BY <1>0, <2>1
    <3>2. i \in DOMAIN s
      BY <1>0, <1>2, <3>1
    <3> HIDE DEF i
    <3> QED
      BY <1>5, <3>1, <3>2
  <2>2. CASE \E i \in DOMAIN e : e[i] = q
    <3>1. PICK i \in DOMAIN e : e[i] = q
      BY <2>2
    <3>2. i \in 1 .. Len(e) /\ i \in DOMAIN s
      BY <1>0, <1>2, <3>1
    <3> QED
      BY <1>4, <3>1, <3>2
  <2> QED
    BY <1>8, <2>1, <2>2 DEF There
<1> QED
  BY <1>2, <1>6, <1>7, <1>8 DEF s

\* resume: the buffer goes to the window.
LEMMA BufferSent ==
    ASSUME NEW e, NEW p, NEW n, Orderly(e, p, n)
    PROVE  Orderly(e \o p, <<>>, n)
<1> DEFINE s == e \o p
<1>1. /\ s \in Seq(Nat) /\ Rising(s) /\ \A i \in DOMAIN s : 1 <= s[i] /\ s[i] <= n
      /\ \A q : There(q, e, p, n) => \E i \in DOMAIN s : s[i] = q
  BY Joined
<1> HIDE DEF s
<1>2. \A q : There(q, e, p, n) => There(q, s, <<>>, n)
  BY <1>1 DEF There
<1>3. GapsExcused(s, <<>>, n)
  <2>1. GapsExcused(e, p, n)
    BY DEF LastOf, Orderly
  <2> QED
    BY <1>2, <2>1 DEF GapsExcused
<1>4. n \in Nat /\ MaxPending \in Nat /\ Len(<<>>) = 0 /\ <<>> \in Seq(Nat) /\ \A i \in DOMAIN <<>> : FALSE
  BY BoundAssumption DEF LastOf, Orderly
<1> QED
  BY <1>1, <1>3, <1>4 DEF LastOf, Orderly, s

-----------------------------------------------------------------------------
(***************************************************************************)
(* An output that is not paused buffers nothing, and a connection that was *)
(* never dialled has sent nothing.                                         *)
(***************************************************************************)
Flows(c) ==
    /\ Orderly(emitted[c], output[c].pending, produced[c])
    /\ ~output[c].paused => output[c].pending = <<>>
    /\ phase[c] = "unused" => output[c].pending = <<>> /\ emitted[c] = <<>> /\ produced[c] = 0

StreamInv == TypeOK /\ \A c \in Conns : Flows(c)

LEMMA InitFlows == Init => StreamInv
<1> SUFFICES ASSUME Init PROVE StreamInv
  OBVIOUS
<1>1. TypeOK
  BY InitType
<1>2. ASSUME NEW c \in Conns PROVE Flows(c)
  BY NothingRead DEF Init, Flows, NoOutput
<1> QED
  BY <1>1, <1>2 DEF StreamInv

\* A connection keeps its stream when only its window or its life changes.
LEMMA StaysInFlow ==
    ASSUME NEW c \in Conns, Flows(c), emitted'[c] = emitted[c], produced'[c] = produced[c],
           output'[c].pending = output[c].pending, output'[c].paused = output[c].paused \/ output'[c].paused,
           phase'[c] = "unused" => phase[c] = "unused"
    PROVE  Flows(c)'
BY DEF Flows

LEMMA DialFlows ==
    ASSUME StreamInv, NEW t \in Threads, NEW d \in Conns, DialSucceeds(t, d), NEW c \in Conns
    PROVE  Flows(c)'
<1>0. Flows(c)
  BY DEF StreamInv
<1>1. /\ output' = [output EXCEPT ![d] = NewOutput(thread[t].key)] /\ phase' = [phase EXCEPT ![d] = "running"]
      /\ emitted' = emitted /\ produced' = produced /\ phase[d] = "unused"
  BY DEF DialSucceeds
<1>2. c \in DOMAIN output /\ c \in DOMAIN phase
  BY DEF StreamInv, TypeOK
<1>3. CASE c # d
  BY <1>0, <1>1, <1>2, <1>3, StaysInFlow
<1>4. CASE c = d
  <2>1. output'[c].pending = <<>> /\ phase'[c] = "running"
    BY <1>1, <1>2, <1>4 DEF NewOutput
  <2>2. output[c].pending = <<>>
    BY <1>0, <1>1, <1>4 DEF Flows
  <2> QED
    BY <1>0, <1>1, <2>1, <2>2 DEF Flows
<1> QED
  BY <1>3, <1>4

LEMMA WriteFlows ==
    ASSUME StreamInv, NEW d \in Conns, Write(d), NEW c \in Conns
    PROVE  Flows(c)'
<1>0. Flows(c) /\ output[d] \in Outputs /\ produced[d] \in Nat
  BY DEF StreamInv, TypeOK
<1>1. /\ phase' = phase /\ phase[d] \in {"running", "ended"} /\ produced' = [produced EXCEPT ![d] = produced[d] + 1]
      /\ output[d].paused =>
           /\ output' = [output EXCEPT ![d].pending = Newest(Append(output[d].pending, produced[d] + 1))]
           /\ emitted' = emitted
      /\ ~output[d].paused => emitted' = [emitted EXCEPT ![d] = Append(emitted[d], produced[d] + 1)] /\ output' = output
  BY DEF Write, lifeVars
<1>2. c \in DOMAIN output /\ c \in DOMAIN emitted /\ c \in DOMAIN produced
  BY DEF StreamInv, TypeOK
<1>3. CASE c # d
  BY <1>0, <1>1, <1>2, <1>3, StaysInFlow
<1>4. CASE c = d /\ output[d].paused
  <2>1. DOMAIN output[d] = {"window", "id", "paused", "pending"}
    BY <1>0 DEF Outputs
  <2>2. /\ output'[c].pending = Newest(Append(output[c].pending, produced[c] + 1)) /\ output'[c].paused = output[c].paused
        /\ emitted'[c] = emitted[c] /\ produced'[c] = produced[c] + 1 /\ phase'[c] = phase[c]
    BY <1>1, <1>2, <1>4, <2>1
  <2>3. Orderly(emitted[c], Newest(Append(output[c].pending, produced[c] + 1)), produced[c] + 1)
    BY <1>0, ChunkBuffered DEF Flows
  <2> QED
    BY <1>1, <1>4, <2>2, <2>3 DEF Flows
<1>5. CASE c = d /\ ~output[d].paused
  <2>1. /\ emitted'[c] = Append(emitted[c], produced[c] + 1) /\ produced'[c] = produced[c] + 1
        /\ output'[c] = output[c] /\ phase'[c] = phase[c] /\ output[c].pending = <<>>
    BY <1>0, <1>1, <1>2, <1>5 DEF Flows
  <2>2. Orderly(Append(emitted[c], produced[c] + 1), <<>>, produced[c] + 1)
    BY <1>0, <2>1, ChunkSent DEF Flows
  <2> QED
    BY <1>1, <1>5, <2>1, <2>2 DEF Flows
<1> QED
  BY <1>3, <1>4, <1>5

LEMMA ResumeFlows ==
    ASSUME StreamInv, NEW t \in Threads, AttachResume(t), NEW c \in Conns
    PROVE  Flows(c)'
<1> DEFINE d == thread[t].conn
<1>0. Flows(c) /\ output[c] \in Outputs
  BY DEF StreamInv, TypeOK
<1>1. /\ output' = [output EXCEPT ![d] = [output[d] EXCEPT !.paused = FALSE, !.pending = <<>>]]
      /\ emitted' = [emitted EXCEPT ![d] = emitted[d] \o output[d].pending]
      /\ produced' = produced /\ phase' = phase
  BY DEF AttachResume, lifeVars
<1>2. c \in DOMAIN output /\ c \in DOMAIN emitted
  BY DEF StreamInv, TypeOK
<1> HIDE DEF d
<1>3. CASE c # d
  BY <1>0, <1>1, <1>2, <1>3, StaysInFlow
<1>4. CASE c = d
  <2>1. DOMAIN output[c] = {"window", "id", "paused", "pending"}
    BY <1>0 DEF Outputs
  <2>2. /\ output'[c].pending = <<>> /\ emitted'[c] = emitted[c] \o output[c].pending
        /\ produced'[c] = produced[c] /\ phase'[c] = phase[c]
    BY <1>1, <1>2, <1>4, <2>1
  <2>3. Orderly(emitted[c] \o output[c].pending, <<>>, produced[c])
    BY <1>0, BufferSent DEF Flows
  <2>4. phase[c] = "unused" => emitted'[c] = <<>> /\ produced'[c] = 0
    BY <1>0, <2>2 DEF Flows
  <2> QED
    BY <2>2, <2>3, <2>4 DEF Flows
<1> QED
  BY <1>3, <1>4

\* moveTo pauses the output and keeps what it buffers.
LEMMA MoveFlows ==
    ASSUME StreamInv, MoveTo, NEW c \in Conns
    PROVE  Flows(c)'
<1> DEFINE d == mover.conn
<1>0. Flows(c) /\ output[c] \in Outputs
  BY DEF StreamInv, TypeOK
<1>1. /\ output' = [output EXCEPT ![d] = [output[d] EXCEPT !.window = mover.to, !.paused = TRUE]]
      /\ emitted' = emitted /\ produced' = produced /\ phase' = phase
  BY DEF MoveTo, lifeVars
<1>2. c \in DOMAIN output
  BY DEF StreamInv, TypeOK
<1> HIDE DEF d
<1>3. CASE c # d
  BY <1>0, <1>1, <1>2, <1>3, StaysInFlow
<1>4. CASE c = d
  <2>1. DOMAIN output[c] = {"window", "id", "paused", "pending"}
    BY <1>0 DEF Outputs
  <2>2. output'[c].pending = output[c].pending /\ output'[c].paused = TRUE
    BY <1>1, <1>2, <1>4, <2>1
  <2> QED
    BY <1>0, <1>1, <2>2, StaysInFlow
<1> QED
  BY <1>3, <1>4

\* Every other step leaves the streams alone, and no connection is unused again.
LEMMA OthersFlow ==
    ASSUME StreamInv, UNCHANGED streamVars, \A c \in Conns : phase'[c] = "unused" => phase[c] = "unused",
           NEW c \in Conns
    PROVE  Flows(c)'
<1>1. Flows(c)
  BY DEF StreamInv
<1> QED
  BY <1>1, StaysInFlow DEF streamVars

\* A connection that was dialled is not unused again.
LEMMA EndOfIs ==
    ASSUME TypeOK, NEW d, NEW c \in Conns, EndOf(d)[c] = "unused"
    PROVE  phase[c] = "unused"
<1>1. c \in DOMAIN phase
  BY DEF TypeOK
<1>2. CASE c = d
  BY <1>1, <1>2 DEF EndOf
<1>3. CASE c # d
  BY <1>1, <1>3 DEF EndOf
<1> QED
  BY <1>2, <1>3

LEMMA NextFlows == StreamInv /\ [Next]_vars => StreamInv'
<1> SUFFICES ASSUME StreamInv, [Next]_vars PROVE StreamInv'
  OBVIOUS
<1>0. TypeOK /\ TypeOK' /\ \A c \in Conns : c \in DOMAIN phase
  BY NextType DEF StreamInv, TypeOK
<1> SUFFICES ASSUME NEW c \in Conns PROVE Flows(c)'
  BY <1>0 DEF StreamInv
<1>1. ASSUME UNCHANGED <<phase, streamVars>> PROVE Flows(c)'
  BY <1>1, OthersFlow DEF streamVars
<1>2. ASSUME UNCHANGED streamVars, NEW d, NEW l \in {"forgotten", "done"}, phase' = [phase EXCEPT ![d] = l]
      PROVE  Flows(c)'
  <2>1. \A x \in Conns : phase'[x] = "unused" => phase[x] = "unused"
    BY <1>0, <1>2
  <2> QED
    BY <1>2, <2>1, OthersFlow
<1>3. ASSUME UNCHANGED streamVars, NEW d, phase' = EndOf(d) PROVE Flows(c)'
  <2>1. \A x \in Conns : phase'[x] = "unused" => phase[x] = "unused"
    BY <1>0, <1>3, EndOfIs
  <2> QED
    BY <1>3, <2>1, OthersFlow
<1>4. ASSUME NEW t \in Threads, Call(t) PROVE Flows(c)'
  <2>1. UNCHANGED <<phase, streamVars>>
    BY <1>4 DEF Call, BeginConnect, BeginDisconnect, BeginAttach, Begin, CloseWindow, lifeVars
  <2> QED
    BY <2>1, <1>1
<1>5. ASSUME NEW t \in Threads, ThreadStep(t) PROVE Flows(c)'
  <2>1. CASE (\E k \in Keys : ScanNext(t, k)) \/ ScanEnd(t) \/ DialFails(t)
    <3>1. UNCHANGED <<phase, streamVars>>
      BY <2>1 DEF ScanNext, ScanEnd, DialFails, lifeVars
    <3> QED
      BY <3>1, <1>1
  <2>2. CASE Disconnect(t)
    BY <2>2, <1>3 DEF Disconnect
  <2>3. CASE \E d \in Conns : DialSucceeds(t, d)
    BY <2>3, DialFlows
  <2>4. CASE AttachResume(t)
    BY <2>4, ResumeFlows
  <2> QED
    BY <1>5, <2>1, <2>2, <2>3, <2>4 DEF ThreadStep
<1>6. ASSUME NEW d \in Conns, Write(d) \/ RemoteExit(d) \/ Forget(d) \/ NotifyExit(d) PROVE Flows(c)'
  <2>1. CASE Write(d)
    BY <2>1, WriteFlows
  <2>2. CASE RemoteExit(d)
    BY <2>2, <1>3 DEF RemoteExit
  <2>3. CASE Forget(d)
    BY <2>3, <1>2 DEF Forget
  <2>4. CASE NotifyExit(d)
    BY <2>4, <1>2 DEF NotifyExit
  <2> QED
    BY <1>6, <2>1, <2>2, <2>3, <2>4
<1>7. ASSUME NEW from \in Windows, NEW to \in Windows, BeginMove(from, to) PROVE Flows(c)'
  BY <1>7, <1>1 DEF BeginMove, lifeVars
<1>8. CASE MoveStep
  <2>1. CASE MoveTo
    BY <2>1, MoveFlows
  <2>2. CASE (\E k \in Keys : MoveRange(k)) \/ MoveDelete \/ MoveStore \/ EndMove
    BY <2>2, <1>1 DEF MoveRange, MoveDelete, MoveStore, EndMove, lifeVars
  <2> QED
    BY <1>8, <2>1, <2>2 DEF MoveStep
<1>9. CASE UNCHANGED vars
  BY <1>9, <1>1 DEF vars, streamVars
<1> QED
  BY <1>4, <1>5, <1>6, <1>7, <1>8, <1>9 DEF Next

(***************************************************************************)
(* Chunks reach the windows in the order they were read, across any number *)
(* of moves and attaches, and one is missing only because the buffer of a  *)
(* paused output was full (write and resume of session_output.go): for any *)
(* size of the buffer and any number of chunks.                            *)
(***************************************************************************)
THEOREM GapsAreOverflows == Spec => []GapsOnlyFromOverflow
<1>1. Spec => []StreamInv
  BY InitFlows, NextFlows, PTL DEF Spec
<1>2. StreamInv => GapsOnlyFromOverflow
  <2> SUFFICES ASSUME StreamInv, NEW c \in Conns
               PROVE  LET kept == {Stream(c)[n] : n \in DOMAIN Stream(c)} IN
                      /\ \A m, n \in DOMAIN Stream(c) : m < n => Stream(c)[m] < Stream(c)[n]
                      /\ \A n \in (1 .. produced[c]) \ kept :
                           \E m \in n .. produced[c] : m + 1 .. m + MaxPending \subseteq kept
    BY DEF GapsOnlyFromOverflow
  <2> DEFINE kept == {Stream(c)[n] : n \in DOMAIN Stream(c)}
  <2>1. Orderly(emitted[c], output[c].pending, produced[c])
    BY DEF StreamInv, Flows
  <2>2. Rising(Stream(c)) /\ \A q : There(q, emitted[c], output[c].pending, produced[c]) => q \in kept
    <3>1. /\ Rising(Stream(c))
          /\ \A q : There(q, emitted[c], output[c].pending, produced[c]) =>
                    \E i \in DOMAIN Stream(c) : Stream(c)[i] = q
      <4> DEFINE e == emitted[c]
                 p == output[c].pending
      <4>1. Stream(c) = e \o p /\ Orderly(e, p, produced[c])
        BY <2>1 DEF Stream
      <4> HIDE DEF e, p
      <4>2. /\ Rising(e \o p)
            /\ \A q : There(q, e, p, produced[c]) => \E i \in DOMAIN (e \o p) : (e \o p)[i] = q
        BY <4>1, Joined
      <4> QED
        BY <4>1, <4>2 DEF e, p
    <3> QED
      BY <3>1
  <2> HIDE DEF kept
  <2>3. \A n \in 1 .. produced[c] : n \in kept \/ \E m \in n .. produced[c] : \A q \in m + 1 .. m + MaxPending : q \in kept
    BY <2>1, <2>2 DEF LastOf, Orderly, GapsExcused
  <2>4. \A n \in (1 .. produced[c]) \ kept : \E m \in n .. produced[c] : m + 1 .. m + MaxPending \subseteq kept
    BY <2>3
  <2> QED
    BY <2>2, <2>4 DEF Rising, kept
<1> QED
  BY <1>1, <1>2, PTL

-----------------------------------------------------------------------------
(***************************************************************************)
(* TerminalSessions implements TerminalService.  A connection that was     *)
(* dialled has a key, from then on.                                        *)
(***************************************************************************)
PlaceInv ==
    /\ \A c \in Conns : IF phase[c] = "unused" THEN OutputKey(c) = NoKey ELSE OutputKey(c) \in Keys
    /\ \A t \in Threads : /\ thread[t].op = "connect" => thread[t].key \in Keys
                          /\ thread[t].pc = "dial" => thread[t].op = "connect"
    /\ mover.pc # "unlocked" => mover.to \in Windows

LEMMA InitPlaced == Init => PlaceInv
BY DEF Init, PlaceInv, NoOutput, OutputKey, NoKey, Idle, Unlocked

LEMMA CallPlaced ==
    ASSUME TypeOK, PlaceInv, NEW t \in Threads, Call(t)
    PROVE  PlaceInv'
<1>1. UNCHANGED <<phase, output, mover>>
  BY DEF Call, BeginConnect, BeginDisconnect, BeginAttach, Begin, CloseWindow, lifeVars, streamVars
<1>2. ASSUME NEW k \in Keys, NEW op, NEW pc, Begin(t, op, pc, k), pc = "dial" => op = "connect" PROVE PlaceInv'
  <2> DEFINE begun == [op |-> op, pc |-> pc, key |-> k, conn |-> sessions[k], seen |-> {}]
  <2>1. thread' = [thread EXCEPT ![t] = begun]
    BY <1>2 DEF Begin
  <2>2. begun.op = op /\ begun.pc = pc /\ begun.key = k
    OBVIOUS
  <2> HIDE DEF begun
  <2>3. \A s \in Threads : thread'[s] = IF s = t THEN begun ELSE thread[s]
    BY <2>1 DEF TypeOK
  <2> QED
    BY <1>1, <1>2, <2>2, <2>3 DEF PlaceInv, OutputKey
<1>3. ASSUME NEW w \in Windows, CloseWindow(t, w) PROVE PlaceInv'
  <2>1. \A s \in Threads : thread'[s] = IF s = t THEN [Idle EXCEPT !.op = "release", !.pc = "scan", !.key = <<w, NoId>>]
                                        ELSE thread[s]
    BY <1>3 DEF CloseWindow, TypeOK
  <2> QED
    BY <1>1, <2>1 DEF PlaceInv, OutputKey, Idle
<1> QED
  BY <1>2, <1>3 DEF Call, BeginConnect, BeginDisconnect, BeginAttach

LEMMA ThreadStepPlaced ==
    ASSUME TypeOK, PlaceInv, NEW t \in Threads, ThreadStep(t)
    PROVE  PlaceInv'
<1>1. CASE \E k \in Keys : ScanNext(t, k)
  BY <1>1 DEF ScanNext, TypeOK, ThreadStates, PlaceInv, OutputKey, lifeVars, streamVars
<1>2. CASE ScanEnd(t) \/ DialFails(t)
  <2>1. /\ \A s \in Threads : thread'[s] = IF s = t THEN Idle ELSE thread[s]
        /\ UNCHANGED <<phase, output, mover>> /\ Idle.op = "idle" /\ Idle.pc = "idle"
    BY <1>2 DEF ScanEnd, DialFails, TypeOK, Idle, lifeVars, streamVars
  <2> QED
    BY <2>1 DEF PlaceInv, OutputKey
<1>3. CASE Disconnect(t)
  <2>1. /\ AfterDisconnect(t).op = "connect" => thread[t].op = "connect" /\ AfterDisconnect(t).key = thread[t].key
        /\ AfterDisconnect(t).pc = "dial" => AfterDisconnect(t).op = "connect"
    BY DEF AfterDisconnect, TypeOK, ThreadStates, Idle
  <2>2. thread' = [thread EXCEPT ![t] = AfterDisconnect(t)] /\ phase' = EndOf(thread[t].conn) /\ UNCHANGED <<output, mover>>
    BY <1>3 DEF Disconnect, streamVars
  <2> QED
    BY <2>1, <2>2 DEF TypeOK, EndOf, PlaceInv, OutputKey
<1>4. ASSUME NEW c \in Conns, DialSucceeds(t, c) PROVE PlaceInv'
  <2>1. thread[t].key \in Keys
    BY <1>4 DEF DialSucceeds, PlaceInv
  <2>2. OutputKey(c)' = thread[t].key /\ \A d \in Conns \ {c} : OutputKey(d)' = OutputKey(d)
    BY <1>4, <2>1 DEF DialSucceeds, NewOutput, OutputKey, TypeOK, Keys
  <2> QED
    BY <1>4, <2>1, <2>2 DEF DialSucceeds, PlaceInv, TypeOK, Idle
<1>5. CASE AttachResume(t)
  <2>1. \A c \in Conns : output'[c].window = output[c].window /\ output'[c].id = output[c].id
    BY <1>5 DEF AttachResume, TypeOK, Outputs
  <2> QED
    BY <1>5, <2>1 DEF AttachResume, TypeOK, Idle, PlaceInv, OutputKey, lifeVars
<1> QED
  BY <1>1, <1>2, <1>3, <1>4, <1>5 DEF ThreadStep

LEMMA SessionStepPlaced ==
    ASSUME TypeOK, PlaceInv, NEW c \in Conns, SessionStep(c)
    PROVE  PlaceInv'
<1>1. CASE Write(c)
  <2>1. \A d \in Conns : output'[d].window = output[d].window /\ output'[d].id = output[d].id
    <3>1. output \in [Conns -> Outputs]
      BY DEF TypeOK
    <3>2. output' = output \/ \E p : output' = [output EXCEPT ![c].pending = p]
      BY <1>1 DEF Write
    <3>3. ASSUME NEW p, output' = [output EXCEPT ![c].pending = p], NEW d \in Conns
          PROVE  output'[d].window = output[d].window /\ output'[d].id = output[d].id
      <4>1. output'[d] = IF d = c THEN [output[d] EXCEPT !.pending = p] ELSE output[d]
        BY <3>1, <3>3
      <4>2. output[d] \in Outputs
        BY <3>1
      <4> QED
        BY <4>1, <4>2 DEF Outputs
    <3> QED
      BY <3>2, <3>3
  <2> QED
    BY <1>1, <2>1 DEF Write, PlaceInv, OutputKey, lifeVars
<1>2. CASE RemoteExit(c) \/ Forget(c) \/ NotifyExit(c)
  BY <1>2 DEF RemoteExit, Forget, NotifyExit, EndOf, TypeOK, PlaceInv, OutputKey, lifeVars, streamVars
<1> QED
  BY <1>1, <1>2 DEF SessionStep

\* What moveTo does: the terminal c changes its window.
LEMMA Moved ==
    ASSUME IInv, PlaceInv, MoveTo, NEW c, c = mover.conn
    PROVE  /\ c \in Conns /\ phase[c] \in {"running", "ended"} /\ mover.to \in Windows
           /\ OutputKey(c) \in Keys /\ <<mover.to, output[c].id>> \in Keys
           /\ OutputKey(c)' = <<mover.to, output[c].id>>
           /\ \A d \in Conns \ {c} : OutputKey(d)' = OutputKey(d)
           /\ \A d \in Conns : output'[d].pending = output[d].pending
<1>1. c \in Conns /\ phase[c] \in {"running", "ended"} /\ mover.to \in Windows
  BY DEF MoveTo, IInv, MoverInv, PlaceInv
<1>2. OutputKey(c) \in Keys /\ <<mover.to, output[c].id>> \in Keys
  BY <1>1 DEF PlaceInv, OutputKey, Keys
<1>3. output \in [Conns -> Outputs]
  BY DEF IInv, TypeOK
<1>4. /\ output'[c] = [output[c] EXCEPT !.window = mover.to, !.paused = TRUE]
      /\ \A d \in Conns \ {c} : output'[d] = output[d]
  BY <1>1, <1>3 DEF MoveTo
<1>5. output'[c].window = mover.to /\ output'[c].id = output[c].id /\ output'[c].pending = output[c].pending
  BY <1>1, <1>3, <1>4 DEF Outputs
<1> QED
  BY <1>1, <1>2, <1>4, <1>5 DEF OutputKey

LEMMA MoverStepPlaced ==
    ASSUME IInv, PlaceInv, MoverStep
    PROVE  PlaceInv'
<1>1. CASE MoveTo
  <2>1. PICK c : c = mover.conn
    OBVIOUS
  <2>2. /\ c \in Conns /\ phase[c] \in {"running", "ended"} /\ mover.to \in Windows
        /\ <<mover.to, output[c].id>> \in Keys
        /\ OutputKey(c)' = <<mover.to, output[c].id>>
        /\ \A d \in Conns \ {c} : OutputKey(d)' = OutputKey(d)
    BY <1>1, <2>1, Moved
  <2>3. mover'.to = mover.to /\ phase' = phase /\ thread' = thread
    BY <1>1 DEF MoveTo, IInv, TypeOK, MoverStates, lifeVars
  <2>4. ASSUME NEW d \in Conns PROVE IF phase'[d] = "unused" THEN OutputKey(d)' = NoKey ELSE OutputKey(d)' \in Keys
    BY <2>2, <2>3 DEF PlaceInv
  <2>5. (mover.pc # "unlocked")' => (mover.to)' \in Windows
    BY <2>2, <2>3
  <2> QED
    BY <2>3, <2>4, <2>5 DEF PlaceInv
<1>2. CASE EndMove \/ MoveStore \/ \E k \in Keys : MoveRange(k)
  <2>1. UNCHANGED <<phase, output, thread>>
    BY <1>2 DEF EndMove, MoveStore, MoveRange, lifeVars, streamVars
  <2>2. mover'.pc = "unlocked" \/ (mover'.to = mover.to /\ mover.pc # "unlocked")
    <3>1. mover \in MoverStates
      BY DEF IInv, TypeOK
    <3>2. CASE EndMove
      BY <3>2 DEF EndMove, Unlocked
    <3>3. ASSUME NEW k \in Keys, MoveRange(k) PROVE mover'.to = mover.to /\ mover.pc # "unlocked"
      BY <3>1, <3>3 DEF MoveRange, MoverStates
    <3>4. CASE MoveStore
      BY <3>1, <3>4 DEF MoveStore, MoverStates
    <3> QED
      BY <1>2, <3>2, <3>3, <3>4
  <2> QED
    BY <2>1, <2>2 DEF PlaceInv, OutputKey
<1>3. CASE MoveDelete \/ \E from, to \in Windows : BeginMove(from, to)
  BY <1>3 DEF MoveDelete, BeginMove, Unlocked, IInv, TypeOK, MoverStates, PlaceInv, OutputKey, lifeVars, streamVars
<1> QED
  BY <1>1, <1>2, <1>3 DEF MoverStep, MoveStep

LEMMA NextPlaced == IInv /\ PlaceInv /\ [Next]_vars => PlaceInv'
<1> SUFFICES ASSUME IInv, PlaceInv, [Next]_vars PROVE PlaceInv'
  OBVIOUS
<1>0. TypeOK
  BY DEF IInv
<1>1. CASE UNCHANGED vars
  BY <1>1 DEF vars, PlaceInv, OutputKey
<1> QED
  BY <1>0, <1>1, CallPlaced, ThreadStepPlaced, SessionStepPlaced, MoverStepPlaced DEF Next, SessionStep, MoverStep

-----------------------------------------------------------------------------
(***************************************************************************)
(* The state of TerminalService, in the words of TerminalPlaces.           *)
(***************************************************************************)
Place == [c \in Conns |-> OutputKey(c)]
Found == {c \in Conns : \E k \in Keys : sessions[k] = c}
Leaving == IF mover.pc = "move" THEN {mover.conn} ELSE {}
Coming == IF mover.pc = "store" THEN {mover.conn} ELSE {}
Over == {c \in Conns : phase[c] \in {"forgotten", "done"}}
Waiting == [c \in Conns |-> output[c].pending]

LEMMA Stutters ==
    ASSUME Place' = Place, Found' = Found, Leaving' = Leaving, Coming' = Coming, Over' = Over, Waiting' = Waiting,
           UNCHANGED <<exitNotice, produced, emitted>>
    PROVE  UNCHANGED Service!serviceVars
BY DEF Service!serviceVars, Service!onWay, Place, Found, Leaving, Coming, Over, Waiting

\* What an action leaves alone is where it was.
LEMMA Unmoved == output' = output => Place' = Place /\ Waiting' = Waiting
BY DEF Place, Waiting, OutputKey

LEMMA StillFound == sessions' = sessions => Found' = Found
BY DEF Found

LEMMA StillOnWay == mover' = mover => Leaving' = Leaving /\ Coming' = Coming
BY DEF Leaving, Coming

\* The other steps of the mover are taken with no terminal on its way.
LEMMA NoneOnWay ==
    mover.pc \notin {"move", "store"} /\ mover'.pc \notin {"move", "store"} => Leaving' = Leaving /\ Coming' = Coming
BY DEF Leaving, Coming

LEMMA StillOver == phase' = phase => Over' = Over
BY DEF Over

\* The terminal of a key that is emptied is not found any more, and no other is lost.
LEMMA KeyEmptied ==
    ASSUME IInv, NEW k \in Keys, NEW c \in Conns, sessions[k] = c,
           sessions' = [sessions EXCEPT ![k] = NoConn]
    PROVE  Found' = Found \ {c}
<1>1. \A j \in Keys : sessions'[j] = IF j = k THEN NoConn ELSE sessions[j]
  BY DEF IInv, TypeOK
<1>2. \A j \in Keys : sessions[j] = c => j = k
  BY SentinelAssumption DEF IInv, SessionBelongsToItsKey
<1> QED
  BY <1>1, <1>2, SentinelAssumption DEF Found

\* A terminal that takes a key is found there instead of the one that was.
LEMMA KeyTaken ==
    ASSUME IInv, NEW k \in Keys, NEW c \in Conns, \A j \in Keys : sessions[j] # c,
           sessions' = [sessions EXCEPT ![k] = c]
    PROVE  Found' = {d \in Found : Place[d] # k} \cup {c}
<1>1. \A j \in Keys : sessions'[j] = IF j = k THEN c ELSE sessions[j]
  BY DEF IInv, TypeOK
<1>2. \A d \in Conns, j \in Keys : sessions[j] = d => Place[d] = j
  BY SentinelAssumption DEF IInv, SessionBelongsToItsKey, Place
<1>3. ASSUME NEW d \in Conns, d # c PROVE d \in Found' <=> d \in Found /\ Place[d] # k
  BY <1>1, <1>2, <1>3 DEF Found
<1>4. c \in Found' /\ Found' \subseteq Conns /\ Found \subseteq Conns /\ c \notin Found
  BY <1>1 DEF Found
<1> QED
  BY <1>3, <1>4

\* CompareAndDelete loses no other terminal than its own.
LEMMA Compared ==
    ASSUME IInv, NEW k, NEW c \in Conns \cup {NoConn}, CompareAndDelete(k, c)
    PROVE  Found' = Found \/ (c \in Conns /\ Found' = Found \ {c})
<1>1. CASE k \in Keys /\ sessions[k] = c /\ c \in Conns
  BY <1>1, KeyEmptied DEF CompareAndDelete
<1>2. CASE ~(k \in Keys /\ sessions[k] = c)
  BY <1>2, StillFound DEF CompareAndDelete
<1>3. CASE k \in Keys /\ sessions[k] = c /\ c = NoConn
  <2>1. sessions' = sessions
    BY <1>3 DEF CompareAndDelete, IInv, TypeOK
  <2> QED
    BY <2>1, StillFound
<1> QED
  BY <1>1, <1>2, <1>3

LEMMA NowhereIsNoKey == NoKey \notin Keys
BY SentinelAssumption DEF NoKey, Keys

-----------------------------------------------------------------------------
(***************************************************************************)
(* One step of a goroutine, of a session or of a move is one step of the   *)
(* service, or none.                                                       *)
(***************************************************************************)
LEMMA DisconnectLoses ==
    ASSUME IInv, NEW t \in Threads, Disconnect(t)
    PROVE  (\E c \in Conns : Service!Lose(c)) \/ UNCHANGED Service!serviceVars
<1>1. PICK c : c = thread[t].conn
  OBVIOUS
<1>2. /\ c \in Conns \cup {NoConn} /\ CompareAndDelete(thread[t].key, c) /\ phase' = EndOf(c)
      /\ UNCHANGED <<exitNotice, output, produced, emitted, mover>>
  BY <1>1 DEF Disconnect, streamVars, IInv, TypeOK, ThreadStates
<1>3. Over' = Over
  <2>1. \A d \in Conns : phase'[d] = IF d = c /\ phase[d] = "running" THEN "ended" ELSE phase[d]
    BY <1>2 DEF EndOf, IInv, TypeOK
  <2> QED
    BY <2>1 DEF Over
<1>4. Place' = Place /\ Waiting' = Waiting /\ Leaving' = Leaving /\ Coming' = Coming
  BY <1>2, Unmoved, StillOnWay
<1>5. CASE Found' = Found
  BY <1>2, <1>3, <1>4, <1>5, Stutters
<1>6. CASE c \in Conns /\ Found' = Found \ {c}
  <2>1. Service!Lose(c)
    BY <1>2, <1>3, <1>4, <1>6 DEF Service!Lose, Service!onWay, Place, Found, Leaving, Coming, Over, Waiting
  <2> QED
    BY <1>6, <2>1
<1> QED
  BY <1>2, <1>5, <1>6, Compared

LEMMA DialOpens ==
    ASSUME IInv, PlaceInv, NEW t \in Threads, NEW c \in Conns, Flows(c), DialSucceeds(t, c)
    PROVE  Service!Open(c)
<1>1. PICK k : k = thread[t].key
  OBVIOUS
<1>2. k \in Keys /\ \A j \in Keys : sessions[j] # c
  BY <1>1 DEF DialSucceeds, PlaceInv, IInv, UnusedIsNowhere
<1>3. /\ output' = [output EXCEPT ![c] = NewOutput(k)] /\ sessions' = [sessions EXCEPT ![k] = c]
      /\ phase' = [phase EXCEPT ![c] = "running"] /\ phase[c] = "unused"
      /\ UNCHANGED <<exitNotice, produced, emitted, mover>>
  BY <1>1 DEF DialSucceeds
<1>4. Found' = {d \in Found : Place[d] # k} \cup {c}
  BY <1>2, <1>3, KeyTaken
<1>5. Place[c] = NoKey
  BY <1>3 DEF PlaceInv, Place
<1>6. PICK w \in Windows, i \in Ids : k = <<w, i>>
  BY <1>2 DEF Keys
<1>7. \A d \in Conns : output'[d] = IF d = c THEN NewOutput(k) ELSE output[d]
  BY <1>3 DEF IInv, TypeOK
<1>8. Place' = [Place EXCEPT ![c] = <<w, i>>]
  <2>1. \A d \in Conns : OutputKey(d)' = IF d = c THEN <<w, i>> ELSE OutputKey(d)
    BY <1>6, <1>7 DEF NewOutput, OutputKey
  <2> QED
    BY <2>1 DEF Place
<1>9. Over' = Over
  <2>1. \A d \in Conns : phase'[d] = IF d = c THEN "running" ELSE phase[d]
    BY <1>3 DEF IInv, TypeOK
  <2> QED
    BY <1>3, <2>1 DEF Over
<1>10. Waiting' = Waiting
  BY <1>3, <1>7 DEF Flows, NewOutput, Waiting
<1>11. Leaving' = Leaving /\ Coming' = Coming
  BY <1>3, StillOnWay
<1>12. Found' = (Found \ {d \in Found : Place[d] = <<w, i>>}) \cup {c}
  BY <1>4, <1>6
<1>13. \E w1 \in Windows, i1 \in Ids :
         /\ Place' = [Place EXCEPT ![c] = <<w1, i1>>]
         /\ Found' = (Found \ {d \in Found : Place[d] = <<w1, i1>>}) \cup {c}
  BY <1>6, <1>8, <1>12
<1>14. Place[c] = NoKey /\ UNCHANGED <<exitNotice, produced, emitted>>
  BY <1>3, <1>5
<1> QED
  BY <1>9, <1>10, <1>11, <1>13, <1>14
     DEF Service!Open, Service!In, Service!onWay, Place, Found, Leaving, Coming, Over, Waiting

LEMMA ResumeShows ==
    ASSUME IInv, NEW t \in Threads, AttachResume(t)
    PROVE  (\E c \in Conns : Service!Show(c)) \/ UNCHANGED Service!serviceVars
<1>1. PICK c : c = thread[t].conn
  OBVIOUS
<1>2. /\ output' = [output EXCEPT ![c] = [output[c] EXCEPT !.paused = FALSE, !.pending = <<>>]]
      /\ emitted' = [emitted EXCEPT ![c] = emitted[c] \o output[c].pending]
      /\ sessions' = sessions /\ phase' = phase /\ UNCHANGED <<exitNotice, produced, mover>>
  BY <1>1 DEF AttachResume, lifeVars
<1>3. output \in [Conns -> Outputs] /\ emitted \in [Conns -> Seq(Nat)]
  BY DEF IInv, TypeOK
<1>4. Found' = Found /\ Over' = Over /\ Leaving' = Leaving /\ Coming' = Coming
  BY <1>2, StillFound, StillOver, StillOnWay
<1>5. CASE c \in Conns
  <2>1. /\ output'[c] = [output[c] EXCEPT !.paused = FALSE, !.pending = <<>>]
        /\ \A d \in Conns \ {c} : output'[d] = output[d]
    BY <1>2, <1>3, <1>5
  <2>2. output'[c].pending = <<>> /\ output'[c].window = output[c].window /\ output'[c].id = output[c].id
    BY <1>3, <1>5, <2>1 DEF Outputs
  <2>3. Place' = Place /\ Waiting' = [Waiting EXCEPT ![c] = <<>>]
    BY <2>1, <2>2 DEF Place, Waiting, OutputKey
  <2>4. emitted' = [emitted EXCEPT ![c] = emitted[c] \o Waiting[c]]
    BY <1>2, <1>5 DEF Waiting
  <2>5. Service!Show(c)
    BY <1>2, <1>4, <2>3, <2>4 DEF Service!Show, Service!onWay, Place, Found, Leaving, Coming, Over, Waiting
  <2> QED
    BY <1>5, <2>5
<1>6. CASE c \notin Conns
  <2>1. output' = output /\ emitted' = emitted
    BY <1>2, <1>3, <1>6
  <2> QED
    BY <1>2, <1>4, <2>1, Unmoved, Stutters
<1> QED
  BY <1>5, <1>6

LEMMA WriteReads ==
    ASSUME IInv, PlaceInv, NEW c \in Conns, Flows(c), Write(c)
    PROVE  Service!Read(c)
<1>1. Found' = Found /\ Over' = Over /\ exitNotice' = exitNotice /\ Leaving' = Leaving /\ Coming' = Coming
  BY StillFound, StillOver, StillOnWay DEF Write, lifeVars
<1>2. Place[c] # NoKey /\ c \notin Over
  BY NowhereIsNoKey DEF Write, PlaceInv, Place, Over
<1>3. /\ output \in [Conns -> Outputs] /\ produced \in [Conns -> Nat]
      /\ produced' = [produced EXCEPT ![c] = produced[c] + 1] /\ produced'[c] = produced[c] + 1
  BY DEF Write, IInv, TypeOK
<1>4. CASE output[c].paused
  <2>1. PICK s : s = Newest(Append(output[c].pending, produced[c] + 1))
    OBVIOUS
  <2>2. output' = [output EXCEPT ![c].pending = s] /\ emitted' = emitted
    BY <1>4, <2>1 DEF Write
  <2>3. /\ output'[c] = [output[c] EXCEPT !.pending = s] /\ \A d \in Conns \ {c} : output'[d] = output[d]
    BY <1>3, <2>2
  <2>4. output'[c].pending = s /\ output'[c].window = output[c].window /\ output'[c].id = output[c].id
    BY <1>3, <2>3 DEF Outputs
  <2>5. Place' = Place /\ Waiting' = [Waiting EXCEPT ![c] = s]
    BY <2>3, <2>4 DEF Place, Waiting, OutputKey
  <2>6. s = Service!Newest(Append(Waiting[c], produced'[c]))
    BY <1>3, <2>1 DEF Service!Newest, Newest, Waiting
  <2> QED
    BY <1>1, <1>2, <1>3, <2>2, <2>5, <2>6
       DEF Service!Read, Service!Lives, Service!onWay, Place, Found, Leaving, Coming, Over, Waiting
<1>5. CASE ~output[c].paused
  <2>1. output' = output /\ emitted' = [emitted EXCEPT ![c] = Append(emitted[c], produced'[c])] /\ Waiting[c] = <<>>
    BY <1>3, <1>5 DEF Write, Flows, Waiting
  <2>2. Place' = Place /\ Waiting' = Waiting
    BY <2>1, Unmoved
  <2> QED
    BY <1>1, <1>2, <1>3, <2>1, <2>2
       DEF Service!Read, Service!Lives, Service!onWay, Place, Found, Leaving, Coming, Over, Waiting
<1> QED
  BY <1>4, <1>5

LEMMA ForgetEnds ==
    ASSUME IInv, PlaceInv, NEW c \in Conns, Forget(c)
    PROVE  Service!End(c)
<1>1. /\ phase[c] = "ended" /\ phase' = [phase EXCEPT ![c] = "forgotten"] /\ CompareAndDelete(OutputKey(c), c)
      /\ output' = output /\ UNCHANGED <<exitNotice, produced, emitted, mover>> /\ mover.pc = "unlocked"
  BY DEF Forget, streamVars
<1>2. Place[c] \in Keys /\ Place[c] # NoKey /\ c \notin Over /\ Place[c] = OutputKey(c)
  BY <1>1, NowhereIsNoKey DEF PlaceInv, Place, Over
<1>3. Over' = Over \cup {c}
  <2>1. \A d \in Conns : phase'[d] = IF d = c THEN "forgotten" ELSE phase[d]
    BY <1>1 DEF IInv, TypeOK
  <2> QED
    BY <2>1 DEF Over
<1>4. Found' = Found \ {c}
  <2>1. PICK k \in Keys : k = OutputKey(c)
    BY <1>2
  <2>2. CASE sessions[k] = c
    BY <1>1, <2>1, <2>2, KeyEmptied DEF CompareAndDelete
  <2>3. CASE sessions[k] # c
    <3>1. c \notin Found
      BY <2>1, <2>3, SentinelAssumption DEF IInv, SessionBelongsToItsKey, Found
    <3>2. sessions' = sessions
      BY <1>1, <2>1, <2>3 DEF CompareAndDelete
    <3> QED
      BY <3>1, <3>2, StillFound
  <2> QED
    BY <2>2, <2>3
<1>5. Place' = Place /\ Waiting' = Waiting /\ Leaving' = Leaving /\ Coming' = Coming
  BY <1>1, Unmoved, StillOnWay
<1>6. c \notin Leaving \cup Coming
  BY <1>1 DEF Leaving, Coming
<1> QED
  BY <1>1, <1>2, <1>3, <1>4, <1>5, <1>6
     DEF Service!End, Service!Lives, Service!onWay, Place, Found, Leaving, Coming, Over, Waiting

LEMMA NotifyTells ==
    ASSUME IInv, NEW c \in Conns, NotifyExit(c)
    PROVE  Service!Tell(c) \/ UNCHANGED Service!serviceVars
<1>1. /\ phase[c] = "forgotten" /\ phase' = [phase EXCEPT ![c] = "done"]
      /\ sessions' = sessions /\ output' = output /\ UNCHANGED <<produced, emitted, mover>>
  BY DEF NotifyExit, streamVars
<1>2. Over' = Over /\ c \in Over
  <2>1. \A d \in Conns : phase'[d] = IF d = c THEN "done" ELSE phase[d]
    BY <1>1 DEF IInv, TypeOK
  <2> QED
    BY <1>1, <2>1 DEF Over
<1>3. Place' = Place /\ Waiting' = Waiting /\ Found' = Found /\ Leaving' = Leaving /\ Coming' = Coming
  BY <1>1, Unmoved, StillFound, StillOnWay
<1>4. CASE closedByClient[c]
  BY <1>1, <1>2, <1>3, <1>4, Stutters DEF NotifyExit
<1>5. CASE ~closedByClient[c]
  <2>1. exitNotice' = [exitNotice EXCEPT ![c] = Place[c][1]]
    BY <1>5 DEF NotifyExit, Place, OutputKey
  <2>2. exitNotice[c] = NoWindow
    BY <1>1 DEF IInv, NoticeIsLast
  <2>3. Service!Tell(c)
    BY <1>1, <1>2, <1>3, <2>1, <2>2 DEF Service!Tell, Service!onWay, Place, Found, Leaving, Coming, Over, Waiting
  <2> QED
    BY <2>3
<1> QED
  BY <1>4, <1>5

LEMMA DeleteLeaves ==
    ASSUME IInv, PlaceInv, MoveDelete
    PROVE  \E c \in Conns : Service!Leave(c)
<1>1. PICK c, k : c = mover.conn /\ k = mover.key
  OBVIOUS
<1>2. /\ c \in Conns /\ phase[c] \in {"running", "ended"} /\ k = OutputKey(c) /\ k \in Keys
      /\ mover.pc = "delete"
  BY <1>1 DEF MoveDelete, IInv, MoverInv, PlaceInv
<1>3. /\ sessions' = [sessions EXCEPT ![k] = NoConn] /\ mover'.pc = "move" /\ mover'.conn = c
      /\ phase' = phase /\ output' = output /\ UNCHANGED <<exitNotice, produced, emitted>>
  BY <1>1 DEF MoveDelete, IInv, TypeOK, MoverStates, lifeVars, streamVars
<1>4. Place' = Place /\ Waiting' = Waiting /\ Over' = Over
  BY <1>3, Unmoved, StillOver
<1>5. Found' = Found \ {d \in Found : Place[d] = Place[c]}
  <2>1. \A j \in Keys : sessions'[j] = IF j = k THEN NoConn ELSE sessions[j]
    BY <1>3 DEF IInv, TypeOK
  <2>2. \A d \in Conns, j \in Keys : sessions[j] = d => Place[d] = j
    BY SentinelAssumption DEF IInv, SessionBelongsToItsKey, Place
  <2>3. Place[c] = k
    BY <1>2 DEF Place
  <2>4. ASSUME NEW d \in Conns PROVE d \in Found' <=> d \in Found /\ Place[d] # k
    BY <2>1, <2>2, SentinelAssumption DEF Found
  <2>5. Found' \subseteq Conns /\ Found \subseteq Conns
    BY DEF Found
  <2> QED
    BY <2>3, <2>4, <2>5
<1>6. Leaving' = {c} /\ Coming' = Coming /\ Leaving \cup Coming = {}
  BY <1>2, <1>3 DEF Leaving, Coming
<1>7. Place[c] # NoKey /\ c \notin Over
  BY <1>2, NowhereIsNoKey DEF Place, Over
<1>8. Service!Leave(c)
  BY <1>3, <1>4, <1>5, <1>6, <1>7
     DEF Service!Leave, Service!Lives, Service!In, Place, Found, Leaving, Coming, Over, Waiting
<1> QED
  BY <1>2, <1>8

\* Nothing finds the terminal whose output changes its window.
LEMMA MoveToComes ==
    ASSUME IInv, PlaceInv, MoveTo
    PROVE  \E c \in Conns : Service!Come(c)
<1>1. PICK c, w, i : c = mover.conn /\ w = mover.to /\ i = output[c].id
  OBVIOUS
<1>2. /\ c \in Conns /\ w \in Windows
      /\ OutputKey(c)' = <<w, i>>
      /\ \A d \in Conns \ {c} : OutputKey(d)' = OutputKey(d)
      /\ \A d \in Conns : output'[d].pending = output[d].pending
  BY <1>1, Moved
<1>3. Place' = [Place EXCEPT ![c] = <<w, i>>] /\ Waiting' = Waiting
  BY <1>2 DEF Place, Waiting
<1>4. /\ mover.pc = "move" /\ mover'.pc = "store" /\ mover'.conn = c
      /\ sessions' = sessions /\ phase' = phase /\ UNCHANGED <<exitNotice, produced, emitted>>
  BY <1>1 DEF MoveTo, IInv, TypeOK, MoverStates, lifeVars
<1>5. Found' = Found /\ Over' = Over
  BY <1>4, StillFound, StillOver
<1>6. Leaving = {c} /\ Leaving' = {} /\ Coming' = {c}
  BY <1>1, <1>4 DEF Leaving, Coming
<1>7. c \notin Found
  BY <1>1, <1>4 DEF IInv, MoverInv, Found
<1>8. Place' = [Place EXCEPT ![c] = <<w, Place[c][2]>>]
  BY <1>1, <1>2, <1>3 DEF Place, OutputKey
<1>9. Service!Come(c)
  BY <1>2, <1>3, <1>4, <1>5, <1>6, <1>7, <1>8 DEF Service!Come, Place, Found, Leaving, Coming, Over, Waiting
<1> QED
  BY <1>2, <1>9

LEMMA StoreArrives ==
    ASSUME IInv, PlaceInv, MoveStore
    PROVE  \E c \in Conns : Service!Arrive(c)
<1>1. PICK c, k : c = mover.conn /\ k = OutputKey(c)
  OBVIOUS
<1>2. /\ c \in Conns /\ phase[c] \in {"running", "ended"} /\ k \in Keys
      /\ \A j \in Keys : sessions[j] # c
      /\ mover.pc = "store"
  BY <1>1 DEF MoveStore, IInv, MoverInv, PlaceInv
<1>3. /\ sessions' = [sessions EXCEPT ![k] = c] /\ mover'.pc = "range"
      /\ phase' = phase /\ output' = output /\ UNCHANGED <<exitNotice, produced, emitted>>
  BY <1>1 DEF MoveStore, IInv, TypeOK, MoverStates, lifeVars, streamVars
<1>4. Place' = Place /\ Waiting' = Waiting /\ Over' = Over
  BY <1>3, Unmoved, StillOver
<1>5. Found' = {d \in Found : Place[d] # k} \cup {c}
  BY <1>2, <1>3, KeyTaken
<1>6. Place[c] = k
  BY <1>1, <1>2 DEF Place
<1>7. Found' = (Found \ {d \in Found : Place[d] = Place[c]}) \cup {c}
  BY <1>5, <1>6
<1>8. Leaving' = Leaving /\ Coming = {c} /\ Coming' = {}
  BY <1>1, <1>2, <1>3 DEF Leaving, Coming
<1>9. c \notin Found
  BY <1>2 DEF Found
<1>10. Service!Arrive(c)
  BY <1>3, <1>4, <1>7, <1>8, <1>9 DEF Service!Arrive, Service!In, Place, Found, Leaving, Coming, Over, Waiting
<1> QED
  BY <1>2, <1>10

LEMMA NextImplements ==
    IInv /\ PlaceInv /\ StreamInv /\ [Next]_vars => [Service!ServiceNext]_Service!serviceVars
<1> SUFFICES ASSUME IInv, PlaceInv, StreamInv, [Next]_vars PROVE [Service!ServiceNext]_Service!serviceVars
  OBVIOUS
<1> USE DEF lifeVars, streamVars
<1>1. ASSUME UNCHANGED <<sessions, phase, exitNotice, output, produced, emitted, mover>> PROVE UNCHANGED Service!serviceVars
  BY <1>1, Unmoved, StillFound, StillOnWay, StillOver, Stutters
<1>2. ASSUME NEW t \in Threads, Call(t) PROVE UNCHANGED Service!serviceVars
  BY <1>1, <1>2 DEF Call, BeginConnect, BeginDisconnect, BeginAttach, Begin, CloseWindow
<1>3. ASSUME NEW t \in Threads, ThreadStep(t) PROVE [Service!ServiceNext]_Service!serviceVars
  <2>1. CASE ScanEnd(t) \/ DialFails(t) \/ \E k \in Keys : ScanNext(t, k)
    BY <1>1, <2>1 DEF ScanEnd, DialFails, ScanNext
  <2>2. CASE Disconnect(t)
    BY <2>2, DisconnectLoses DEF Service!ServiceNext
  <2>3. ASSUME NEW c \in Conns, DialSucceeds(t, c) PROVE Service!ServiceNext
    BY <2>3, DialOpens DEF StreamInv, Service!ServiceNext
  <2>4. CASE AttachResume(t)
    BY <2>4, ResumeShows DEF Service!ServiceNext
  <2> QED
    BY <1>3, <2>1, <2>2, <2>3, <2>4 DEF ThreadStep
<1>4. ASSUME NEW c \in Conns, SessionStep(c) PROVE [Service!ServiceNext]_Service!serviceVars
  <2>1. CASE Write(c)
    BY <2>1, WriteReads DEF StreamInv, Service!ServiceNext
  <2>2. CASE RemoteExit(c)
    <3>1. \A d \in Conns : phase'[d] = IF d = c /\ phase[d] = "running" THEN "ended" ELSE phase[d]
      BY <2>2 DEF RemoteExit, EndOf, IInv, TypeOK
    <3>2. Over' = Over
      BY <3>1 DEF Over
    <3> QED
      BY <2>2, <3>2, Unmoved, StillFound, StillOnWay, Stutters DEF RemoteExit
  <2>3. CASE Forget(c)
    BY <2>3, ForgetEnds DEF Service!ServiceNext
  <2>4. CASE NotifyExit(c)
    BY <2>4, NotifyTells DEF Service!ServiceNext
  <2> QED
    BY <1>4, <2>1, <2>2, <2>3, <2>4 DEF SessionStep
<1>5. CASE MoverStep
  <2>1. CASE EndMove \/ (\E k \in Keys : MoveRange(k)) \/ \E from, to \in Windows : BeginMove(from, to)
    <3>1. mover.pc \notin {"move", "store"} /\ mover'.pc \notin {"move", "store"}
      <4>1. CASE EndMove
        BY <4>1 DEF EndMove, Unlocked
      <4>2. ASSUME NEW k \in Keys, MoveRange(k)
            PROVE  mover.pc = "range" /\ mover'.pc = "delete"
        BY <4>2 DEF MoveRange, IInv, TypeOK, MoverStates
      <4>3. ASSUME NEW from \in Windows, NEW to \in Windows, BeginMove(from, to)
            PROVE  mover.pc = "unlocked" /\ mover'.pc = "range"
        BY <4>3 DEF BeginMove, Unlocked
      <4> QED
        BY <2>1, <4>1, <4>2, <4>3
    <3>2. UNCHANGED <<sessions, phase, exitNotice, output, produced, emitted>>
      BY <2>1 DEF EndMove, MoveRange, BeginMove
    <3> QED
      BY <3>1, <3>2, NoneOnWay, Unmoved, StillFound, StillOver, Stutters
  <2>2. CASE MoveDelete
    BY <2>2, DeleteLeaves DEF Service!ServiceNext
  <2>3. CASE MoveTo
    BY <2>3, MoveToComes DEF Service!ServiceNext
  <2>4. CASE MoveStore
    BY <2>4, StoreArrives DEF Service!ServiceNext
  <2> QED
    BY <1>5, <2>1, <2>2, <2>3, <2>4 DEF MoverStep, MoveStep
<1>6. CASE UNCHANGED vars
  BY <1>1, <1>6 DEF vars
<1> QED
  BY <1>2, <1>3, <1>4, <1>5, <1>6 DEF Next, SessionStep, MoverStep

LEMMA InitImplements == Init => Service!ServiceInit
<1> SUFFICES ASSUME Init PROVE Service!ServiceInit
  OBVIOUS
<1>1. Place = [c \in Conns |-> NoKey] /\ Waiting = [c \in Conns |-> <<>>]
  BY DEF Init, NoOutput, NoKey, OutputKey, Place, Waiting
<1>2. Found = {} /\ Over = {}
  BY SentinelAssumption DEF Init, Found, Over
<1>3. Leaving = {} /\ Coming = {}
  BY DEF Init, Unlocked, Leaving, Coming
<1> QED
  BY <1>1, <1>2, <1>3 DEF Init, Service!ServiceInit, Place, Waiting, Found, Leaving, Coming, Over

(***************************************************************************)
(* moveWindowSessions empties and fills keys of a map that no lock guards, *)
(* while calls of windows, the waiters of sessions and the release of a    *)
(* closed window go on between its steps; every step of all of them is a   *)
(* step of the service, in which a terminal is in one place, is found by   *)
(* nothing while it changes its window, is found there afterwards, does    *)
(* not end on its way, and shows what it reads where it is.                *)
(***************************************************************************)
THEOREM Implements == Spec => MovesKeepTerminals
<1>1. Init => IInv /\ PlaceInv /\ StreamInv
  BY InitSafe, InitPlaced, InitFlows
<1>2. IInv /\ PlaceInv /\ StreamInv /\ [Next]_vars => (IInv /\ PlaceInv /\ StreamInv)'
  BY NextSafe, NextPlaced, NextFlows
<1> QED
  BY <1>1, <1>2, InitImplements, NextImplements, PTL DEF Spec, MovesKeepTerminals, Service!ServiceSpec

-----------------------------------------------------------------------------
(***************************************************************************)
(* What a closed window leaves behind.  ClosedWindowHoldsNothing fails     *)
(* when a window closes while one of its connections is dialled, and when  *)
(* it closes while sessions are moved to it; both are excluded here.  What *)
(* is left, however it interleaves, is harmless: a session that runs under *)
(* a closed window is one that the release of the window will come to.     *)
(***************************************************************************)
ClosesAlone ==
    \A w \in closedWindows' \ closedWindows :
        /\ \A t \in Threads : thread[t].op = "connect" => thread[t].key[1] # w
        /\ mover.pc # "unlocked" => mover.to # w

AloneSpec == Init /\ [][Next /\ ClosesAlone]_vars

\* The release t has k ahead of it, or is about to end what it found there.
ComesTo(t, k) ==
    /\ thread[t].op = "release" /\ thread[t].pc \in {"scan", "disconnect"}
    /\ thread[t].key[1] = k[1]
    /\ \/ k \notin thread[t].seen
       \/ thread[t].pc = "disconnect" /\ thread[t].key = k /\ thread[t].conn = sessions[k]

Runs(k) == sessions[k] # NoConn /\ phase[sessions[k]] = "running"

\* Nothing goes to a closed window any more.
Shut ==
    /\ \A t \in Threads : thread[t].op = "connect" => thread[t].key[1] \notin closedWindows
    /\ mover.pc # "unlocked" => mover.to \notin closedWindows

Released == \A k \in Keys : k[1] \in closedWindows /\ Runs(k) => \E t \in Threads : ComesTo(t, k)

ClosedInv == IInv /\ PlaceInv /\ Shut /\ Released

LEMMA InitClosed == Init => Shut /\ Released
BY SentinelAssumption DEF Init, Shut, Released, Idle, Unlocked

\* No key gets a session that runs, and no release gives one up.
LEMMA NothingRuns ==
    ASSUME Released, UNCHANGED closedWindows,
           \A k \in Keys : k[1] \in closedWindows /\ Runs(k)' => Runs(k) /\ sessions'[k] = sessions[k],
           \A t \in Threads : thread[t].op = "release" => thread'[t] = thread[t]
    PROVE  Released'
BY DEF Released, ComesTo

\* The sessions of keys stay or go, and none begins to run.
LEMMA NoneBegins ==
    ASSUME TypeOK, NEW k \in Keys,
           sessions'[k] = sessions[k] \/ sessions'[k] = NoConn,
           \A c \in Conns : phase'[c] = "running" => phase[c] = "running",
           Runs(k)'
    PROVE  Runs(k) /\ sessions'[k] = sessions[k]
BY DEF Runs, TypeOK

LEMMA ClosedByCall ==
    ASSUME ClosedInv, NEW t \in Threads, Call(t), ClosesAlone
    PROVE  Shut' /\ Released'
<1>1. UNCHANGED <<sessions, phase, mover>> /\ TypeOK
  BY DEF Call, BeginConnect, BeginDisconnect, BeginAttach, Begin, CloseWindow, lifeVars, streamVars, ClosedInv, IInv
<1>2. ASSUME NEW k \in Keys, NEW op, NEW pc, op # "release", Begin(t, op, pc, k) PROVE Shut' /\ Released'
  <2> DEFINE begun == [op |-> op, pc |-> pc, key |-> k, conn |-> sessions[k], seen |-> {}]
  <2>1. thread' = [thread EXCEPT ![t] = begun] /\ thread[t] = Idle /\ k[1] \notin closedWindows /\ closedWindows' = closedWindows
    BY <1>2 DEF Begin
  <2>2. begun.op = op /\ begun.key = k /\ thread[t].op # "release"
    BY <2>1 DEF Idle
  <2> HIDE DEF begun
  <2>3. \A s \in Threads : thread'[s] = IF s = t THEN begun ELSE thread[s]
    BY <1>1, <2>1 DEF TypeOK
  <2>4. Shut'
    BY <1>1, <2>1, <2>2, <2>3 DEF ClosedInv, Shut
  <2>5. Released'
    BY <1>1, <2>1, <2>2, <2>3, NothingRuns DEF ClosedInv, Runs
  <2> QED
    BY <2>4, <2>5
<1>3. ASSUME NEW w \in Windows, CloseWindow(t, w) PROVE Shut' /\ Released'
  <2> DEFINE begun == [Idle EXCEPT !.op = "release", !.pc = "scan", !.key = <<w, NoId>>]
  <2>1. /\ thread' = [thread EXCEPT ![t] = begun] /\ thread[t] = Idle
        /\ closedWindows' = closedWindows \cup {w} /\ w \notin closedWindows
    BY <1>3 DEF CloseWindow
  <2>2. /\ begun.op = "release" /\ begun.pc = "scan" /\ begun.key[1] = w /\ begun.seen = {}
        /\ thread[t].op = "idle"
    BY <2>1 DEF Idle
  <2> HIDE DEF begun
  <2>3. \A s \in Threads : thread'[s] = IF s = t THEN begun ELSE thread[s]
    BY <1>1, <2>1 DEF TypeOK
  <2>4. Shut'
    BY <1>1, <2>1, <2>2, <2>3 DEF ClosedInv, Shut, ClosesAlone
  <2>5. ASSUME NEW k \in Keys, (k[1] \in closedWindows)', Runs(k)' PROVE \E s \in Threads : ComesTo(s, k)'
    <3>1. CASE k[1] = w
      BY <2>2, <2>3, <3>1 DEF ComesTo
    <3>2. CASE k[1] # w
      <4>1. k[1] \in closedWindows /\ Runs(k)
        BY <1>1, <2>1, <2>5, <3>2 DEF Runs
      <4>2. PICK s \in Threads : ComesTo(s, k)
        BY <4>1 DEF ClosedInv, Released
      <4>3. thread'[s] = thread[s]
        BY <2>2, <2>3, <4>2 DEF ComesTo
      <4> QED
        BY <1>1, <4>2, <4>3 DEF ComesTo
    <3> QED
      BY <3>1, <3>2
  <2> QED
    BY <2>4, <2>5 DEF Released
<1> QED
  BY <1>2, <1>3 DEF Call, BeginConnect, BeginDisconnect, BeginAttach

LEMMA ClosedByThread ==
    ASSUME ClosedInv, NEW t \in Threads, ThreadStep(t)
    PROVE  Shut' /\ Released'
<1>0. TypeOK /\ Shut /\ Released /\ thread[t] \in ThreadStates
  BY DEF ClosedInv, IInv, TypeOK
<1>1. ASSUME NEW k \in Keys, ScanNext(t, k) PROVE Shut' /\ Released'
  <2>1. /\ k[1] = thread[t].key[1] /\ thread[t].pc = "scan"
        /\ UNCHANGED <<sessions, phase, closedWindows, mover>>
    BY <1>1 DEF ScanNext, Unseen, KeysOf, lifeVars
  <2>2. \A s \in Threads \ {t} : thread'[s] = thread[s]
    BY <1>0, <1>1 DEF ScanNext, TypeOK
  <2>3. /\ thread'[t].op = thread[t].op /\ thread'[t].pc = "disconnect" /\ thread'[t].key = k
        /\ thread'[t].conn = sessions[k] /\ thread'[t].seen = thread[t].seen \cup {k}
    BY <1>0, <1>1 DEF ScanNext, TypeOK, ThreadStates
  <2>4. \A s \in Threads, j \in Keys : ComesTo(s, j) => ComesTo(s, j)'
    BY <2>1, <2>2, <2>3 DEF ComesTo
  <2>5. Shut'
    BY <1>0, <2>1, <2>2, <2>3 DEF Shut
  <2> QED
    BY <1>0, <2>1, <2>4, <2>5 DEF Released, Runs
<1>2. CASE ScanEnd(t)
  <2>1. /\ UNCHANGED <<sessions, phase, closedWindows, mover>> /\ thread[t].pc = "scan"
        /\ \A k \in Keys : k[1] = thread[t].key[1] /\ k \notin thread[t].seen => sessions[k] = NoConn
    BY <1>2 DEF ScanEnd, Unseen, KeysOf, lifeVars
  <2>2. \A s \in Threads : thread'[s] = IF s = t THEN Idle ELSE thread[s]
    BY <1>0, <1>2 DEF ScanEnd, TypeOK
  <2>3. Shut'
    BY <1>0, <2>1, <2>2 DEF Shut, Idle
  <2>4. \A k \in Keys : Runs(k) => ~ComesTo(t, k)
    BY <2>1 DEF Runs, ComesTo
  <2>5. \A s \in Threads \ {t}, k \in Keys : ComesTo(s, k) => ComesTo(s, k)'
    BY <2>1, <2>2 DEF ComesTo
  <2> QED
    BY <1>0, <2>1, <2>3, <2>4, <2>5 DEF Released, Runs
<1>3. CASE Disconnect(t)
  <2>1. /\ UNCHANGED <<closedWindows, mover>> /\ thread[t].pc = "disconnect"
        /\ thread' = [thread EXCEPT ![t] = AfterDisconnect(t)]
        /\ CompareAndDelete(thread[t].key, thread[t].conn) /\ phase' = EndOf(thread[t].conn)
    BY <1>3 DEF Disconnect
  <2>2. \A s \in Threads \ {t} : thread'[s] = thread[s]
    BY <1>0, <2>1 DEF TypeOK
  <2>3. /\ thread[t].op \in {"connect", "release"} =>
             thread'[t].op = thread[t].op /\ thread'[t].key = thread[t].key /\ thread'[t].seen = thread[t].seen
        /\ thread[t].op = "release" => thread'[t].pc = "scan"
        /\ thread[t].op \notin {"connect", "release"} => thread'[t].op = "idle"
    BY <1>0, <2>1 DEF AfterDisconnect, TypeOK, ThreadStates, Idle
  <2>4. \A k \in Keys : sessions'[k] = sessions[k] \/ sessions'[k] = NoConn
    BY <1>0, <2>1 DEF CompareAndDelete, TypeOK
  <2>5. \A c \in Conns : phase'[c] = "running" => phase[c] = "running"
    BY <1>0, <2>1 DEF EndOf, TypeOK
  <2>6. Shut'
    BY <1>0, <2>1, <2>2, <2>3 DEF Shut
  <2>7. ASSUME NEW k \in Keys, k[1] \in closedWindows, Runs(k)' PROVE \E s \in Threads : ComesTo(s, k)'
    <3>1. Runs(k) /\ sessions'[k] = sessions[k]
      BY <1>0, <2>4, <2>5, <2>7, NoneBegins
    <3>2. PICK s \in Threads : ComesTo(s, k)
      BY <1>0, <2>7, <3>1 DEF Released
    <3>3. CASE s # t
      BY <2>2, <3>1, <3>2, <3>3 DEF ComesTo
    <3>4. CASE s = t
      <4>1. ~(thread[t].key = k /\ thread[t].conn = sessions[k])
        BY <1>0, <2>1, <3>1 DEF CompareAndDelete, TypeOK, Runs
      <4> QED
        BY <2>1, <2>3, <3>2, <3>4, <4>1 DEF ComesTo
    <3> QED
      BY <3>3, <3>4
  <2> QED
    BY <2>1, <2>6, <2>7 DEF Released
<1>4. CASE DialFails(t) \/ AttachResume(t)
  <2>1. /\ UNCHANGED <<sessions, phase, closedWindows, mover>> /\ thread[t].pc \notin {"scan", "disconnect"}
        /\ thread' = [thread EXCEPT ![t] = Idle]
    BY <1>4 DEF DialFails, AttachResume, lifeVars
  <2>2. \A s \in Threads : thread'[s] = IF s = t THEN Idle ELSE thread[s]
    BY <1>0, <2>1 DEF TypeOK
  <2>3. Shut'
    BY <1>0, <2>1, <2>2 DEF Shut, Idle
  <2>4. \A s \in Threads, k \in Keys : ComesTo(s, k) => ComesTo(s, k)'
    BY <2>1, <2>2 DEF ComesTo
  <2> QED
    BY <1>0, <2>1, <2>3, <2>4 DEF Released, Runs
<1>5. ASSUME NEW c \in Conns, DialSucceeds(t, c) PROVE Shut' /\ Released'
  <2>1. /\ thread[t].pc = "dial" /\ phase[c] = "unused" /\ UNCHANGED <<closedWindows, mover>>
        /\ sessions' = [sessions EXCEPT ![thread[t].key] = c] /\ phase' = [phase EXCEPT ![c] = "running"]
    BY <1>5 DEF DialSucceeds
  <2>2. thread[t].key[1] \notin closedWindows
    BY <1>0, <2>1 DEF ClosedInv, PlaceInv, Shut
  <2>3. \A s \in Threads : thread'[s] = IF s = t THEN Idle ELSE thread[s]
    BY <1>0, <1>5 DEF DialSucceeds, TypeOK
  <2>4. Shut'
    BY <1>0, <2>1, <2>3 DEF Shut, Idle
  <2>5. ASSUME NEW k \in Keys, k[1] \in closedWindows, Runs(k)' PROVE \E s \in Threads : ComesTo(s, k)'
    <3>1. sessions'[k] = sessions[k] /\ sessions[k] # c
      BY <1>0, <2>1, <2>2, <2>5 DEF TypeOK, ClosedInv, IInv, UnusedIsNowhere
    <3>2. Runs(k)
      BY <1>0, <2>1, <2>5, <3>1 DEF Runs, TypeOK
    <3>3. PICK s \in Threads : ComesTo(s, k)
      BY <1>0, <2>5, <3>2 DEF Released
    <3>4. ComesTo(s, k)'
      BY <2>1, <2>3, <3>1, <3>3 DEF ComesTo
    <3> QED
      BY <3>4
  <2> QED
    BY <2>1, <2>4, <2>5 DEF Released
<1> QED
  BY <1>1, <1>2, <1>3, <1>4, <1>5 DEF ThreadStep

LEMMA ClosedBySession ==
    ASSUME ClosedInv, NEW c \in Conns, SessionStep(c)
    PROVE  Shut' /\ Released'
<1>0. TypeOK /\ Shut /\ Released
  BY DEF ClosedInv, IInv
<1>1. UNCHANGED <<closedWindows, thread, mover>>
  BY DEF SessionStep, Write, RemoteExit, Forget, NotifyExit
<1>2. \A k \in Keys : sessions'[k] = sessions[k] \/ sessions'[k] = NoConn
  BY <1>0 DEF SessionStep, Write, RemoteExit, Forget, NotifyExit, CompareAndDelete, TypeOK
<1>3. \A d \in Conns : phase'[d] = "running" => phase[d] = "running"
  BY <1>0 DEF SessionStep, Write, RemoteExit, Forget, NotifyExit, EndOf, TypeOK, lifeVars
<1>4. Shut'
  BY <1>0, <1>1 DEF Shut
<1> QED
  BY <1>0, <1>1, <1>2, <1>3, <1>4, NoneBegins, NothingRuns

LEMMA ClosedByMover ==
    ASSUME ClosedInv, MoverStep
    PROVE  Shut' /\ Released'
<1>0. TypeOK /\ Shut /\ Released /\ mover \in MoverStates
  BY DEF ClosedInv, IInv, TypeOK
<1>1. UNCHANGED <<phase, closedWindows, thread>>
  BY DEF MoverStep, MoveStep, BeginMove, MoveRange, MoveDelete, MoveTo, MoveStore, EndMove, lifeVars
<1>2. mover'.pc # "unlocked" => mover'.to \notin closedWindows
  <2>1. CASE MoveDelete \/ MoveTo \/ MoveStore \/ \E k \in Keys : MoveRange(k)
    BY <1>0, <2>1 DEF MoveDelete, MoveTo, MoveStore, MoveRange, MoverStates, Shut
  <2>2. CASE EndMove
    BY <2>2 DEF EndMove, Unlocked
  <2>3. ASSUME NEW from \in Windows, NEW to \in Windows, BeginMove(from, to)
        PROVE  mover'.to = to /\ to \notin closedWindows
    BY <2>3 DEF BeginMove, Unlocked
  <2> QED
    BY <2>1, <2>2, <2>3 DEF MoverStep, MoveStep
<1>3. Shut'
  BY <1>0, <1>1, <1>2 DEF Shut
<1>4. \A k \in Keys : k[1] \in closedWindows => sessions'[k] = sessions[k] \/ sessions'[k] = NoConn
  <2>1. CASE MoveStore
    <3>1. /\ OutputKey(mover.conn)[1] \notin closedWindows
          /\ sessions' = [sessions EXCEPT ![OutputKey(mover.conn)] = mover.conn]
      BY <1>0, <2>1 DEF MoveStore, Shut, ClosedInv, IInv, MoverInv, OutputKey
    <3> QED
      BY <1>0, <3>1 DEF TypeOK
  <2>2. CASE ~MoveStore
    BY <1>0, <2>2 DEF MoverStep, MoveStep, BeginMove, MoveRange, MoveDelete, MoveTo, EndMove, TypeOK
  <2> QED
    BY <2>1, <2>2
<1> QED
  BY <1>0, <1>1, <1>3, <1>4, NoneBegins, NothingRuns

(***************************************************************************)
(* README.md: closing a window releases its resources.  It does so unless  *)
(* the window closes while one of its connections is dialled, or while     *)
(* sessions are moved to it: nothing else that interleaves with the        *)
(* release (calls that were under way, moves away from the window,         *)
(* sessions that end) leaves one running under it, though the release      *)
(* ranges over a map that changes (releaseWindowResources, disconnect and  *)
(* moveWindowSessions).                                                    *)
(***************************************************************************)
THEOREM ClosedAloneHoldsNothing == AloneSpec => []ClosedWindowHoldsNothing
<1>1. Init => ClosedInv
  BY InitSafe, InitPlaced, InitClosed DEF ClosedInv
<1>2. ClosedInv /\ [Next /\ ClosesAlone]_vars => ClosedInv'
  <2> SUFFICES ASSUME ClosedInv, [Next /\ ClosesAlone]_vars PROVE ClosedInv'
    OBVIOUS
  <2>1. IInv' /\ PlaceInv'
    BY NextSafe, NextPlaced DEF ClosedInv
  <2>2. CASE UNCHANGED vars
    BY <2>1, <2>2 DEF vars, ClosedInv, Shut, Released, Runs, ComesTo
  <2>3. CASE Next /\ ClosesAlone
    BY <2>1, <2>3, ClosedByCall, ClosedByThread, ClosedBySession, ClosedByMover
       DEF Next, ClosedInv, SessionStep, MoverStep
  <2> QED
    BY <2>2, <2>3
<1>3. ClosedInv => ClosedWindowHoldsNothing
  BY DEF ClosedInv, Released, Runs, ComesTo, ClosedWindowHoldsNothing, Idle
<1> QED
  BY <1>1, <1>2, <1>3, PTL DEF AloneSpec
=============================================================================
