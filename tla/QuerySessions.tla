---------------------------- MODULE QuerySessions ----------------------------
(***************************************************************************)
(* A TalpaDB query tab (QueryTab.tsx), its PostgreSQL session in the       *)
(* backend (query_handler.go) and the save of the rows edited in its grid  *)
(* (edit_handler.go).  A tab opens its session on its first run and closes *)
(* it when it unmounts; a run, a save, a cancel and a close are calls that *)
(* the two sides handle in steps, over a connection that may be lost.      *)
(*                                                                         *)
(* A tab edits its grid once; the edited rows are 1..N, those that must    *)
(* match a row of the table (deletes and updates) before the inserts, the  *)
(* order of applyTableChanges.  The text that filled the grid only reads.  *)
(***************************************************************************)
EXTENDS Integers, FiniteSets

CONSTANTS Tabs,       \* query tabs, each opened once
          Sids,       \* ids of sessions
          None,       \* no session
          Updates,    \* how many edited rows are deleted or updated
          Inserts,    \* how many are inserted
          MaxLosses,  \* bound: connections the network may lose
          MaxRuns     \* bound: runs and cancels the user asks for

ASSUME QueryAssumption ==
  /\ Sids \intersect {None, "none", "dialing", "error"} = {}
  /\ Updates \in Nat /\ Inserts \in Nat /\ MaxLosses \in Nat /\ MaxRuns \in Nat

Rows == 1 .. Updates + Inserts
Statements == {"select", "begin", "commit", "rollback", "wrong"}
Labels == {"none", "idle", "transaction", "failed", "closed"}
Nothing == [i \in Rows |-> 0]

VARIABLES
  tab,      \* the life of a tab: absent, open, closed
  ref,      \* sessionRef
  tx,       \* txStatus, copied to tabTxStatus
  gridEdits,    \* the edits of the grid: none, editable, pending, gone
  opening,  \* openingRef: none, dialing, error, or the session in the answer
  exec,     \* the run of a tab: the step it is at and its call
  save,     \* the save of a tab: likewise, and what its last answer said
  sess,     \* sessions: free, registered, removed, closing, done
  owner,    \* the tab a session was opened for
  lock,     \* executionMutex: the tab whose call holds it, or None
  cancelled,\* the context of the running call is cancelled
  txs,      \* conn.TxStatus, "gone" once the connection is known closed
  lost,     \* the server or the network dropped the connection
  pend,     \* how often the open transaction applied each row
  db,       \* how often each row of a tab's edits was committed
  closes,   \* CloseQuerySession calls on their way
  cancels,  \* CancelQuery calls on their way
  authed,   \* the token is valid
  losses,
  requested     \* runs and cancels so far
queryVars == <<tab, ref, tx, gridEdits, opening, exec, save, sess, owner, lock,
               cancelled, txs, lost, pend, db, closes, cancels, authed, losses, requested>>
server == <<sess, owner, lock, cancelled, txs, lost, pend, db>>

Idle == [at |-> "idle", stmt |-> "select", sid |-> None, retried |-> FALSE, label |-> "none"]
NoSave == [at |-> "idle", row |-> 0, sid |-> None, own |-> FALSE, overlap |-> FALSE, said |-> "none", before |-> Nothing]

RunSteps == {"idle", "opening", "sent", "locked", "reconnect", "run", "answer"}
RunCalls == [at : RunSteps, stmt : Statements, sid : Sids \union {None}, retried : BOOLEAN,
             label : Labels \union {"notfound", "refused"}]
SaveSteps == {"idle", "sent", "rows", "answer"}
SaveAnswers == {"none", "refused", "nothing", "failed", "unsure", "committed", "uncommitted"}
SaveCalls == [at : SaveSteps, row : 0 .. Updates + Inserts + 1, sid : Sids \union {None},
              own : BOOLEAN, overlap : BOOLEAN, said : SaveAnswers, before : [Rows -> Nat]]

QueryTypeOK ==
  /\ tab \in [Tabs -> {"absent", "open", "closed"}]
  /\ ref \in [Tabs -> Sids \union {None}]
  /\ tx \in [Tabs -> Labels]
  /\ gridEdits \in [Tabs -> {"none", "editable", "pending", "gone"}]
  /\ opening \in [Tabs -> Sids \union {"none", "dialing", "error"}]
  /\ exec \in [Tabs -> RunCalls] /\ save \in [Tabs -> SaveCalls]
  /\ sess \in [Sids -> {"free", "registered", "removed", "closing", "done"}]
  /\ owner \in [Sids -> Tabs \union {None}]
  /\ lock \in [Sids -> BOOLEAN]
  /\ cancelled \in [Sids -> BOOLEAN]
  /\ txs \in [Sids -> {"I", "T", "E", "gone"}]
  /\ lost \in [Sids -> BOOLEAN]
  /\ pend \in [Sids -> [Rows -> Nat]]
  /\ db \in [Tabs -> [Rows -> Nat]]
  /\ closes \subseteq Sids /\ cancels \subseteq Sids
  /\ authed \in BOOLEAN /\ losses \in 0 .. MaxLosses /\ requested \in 0 .. MaxRuns

QueryInit ==
  /\ tab = [t \in Tabs |-> "absent"] /\ ref = [t \in Tabs |-> None]
  /\ tx = [t \in Tabs |-> "none"] /\ gridEdits = [t \in Tabs |-> "none"]
  /\ opening = [t \in Tabs |-> "none"]
  /\ exec = [t \in Tabs |-> Idle] /\ save = [t \in Tabs |-> NoSave]
  /\ sess = [s \in Sids |-> "free"] /\ owner = [s \in Sids |-> None]
  /\ lock = [s \in Sids |-> FALSE]
  /\ cancelled = [s \in Sids |-> FALSE]
  /\ txs = [s \in Sids |-> "gone"] /\ lost = [s \in Sids |-> FALSE]
  /\ pend = [s \in Sids |-> Nothing] /\ db = [t \in Tabs |-> Nothing]
  /\ closes = {} /\ cancels = {} /\ authed = TRUE /\ losses = 0 /\ requested = 0

----------------------------------------------------------------------------
(* The tab *)

OpenTab(t) ==
  /\ tab[t] = "absent" /\ authed
  /\ tab' = [tab EXCEPT ![t] = "open"]
  /\ UNCHANGED <<ref, tx, gridEdits, opening, exec, save, server, closes, cancels, authed, losses,
                 requested>>

(* execute(): ensureSession answers the session it has, waits for the one  *)
(* being opened, or opens one                                              *)
Execute(t, e) ==
  IF ref[t] # None
    THEN /\ exec' = [exec EXCEPT ![t] = [e EXCEPT !.at = "sent", !.sid = ref[t]]]
         /\ UNCHANGED opening
    ELSE /\ exec' = [exec EXCEPT ![t] = [e EXCEPT !.at = "opening"]]
         /\ opening' = [opening EXCEPT ![t] = IF @ = "none" THEN "dialing" ELSE @]

(* run(): one at a time, runningRef *)
Run(t, stmt) ==
  /\ tab[t] = "open" /\ authed /\ exec[t].at = "idle"
  /\ requested < MaxRuns /\ requested' = requested + 1
  /\ Execute(t, [Idle EXCEPT !.stmt = stmt])
  /\ save' = [save EXCEPT ![t].overlap = @ \/ save[t].at # "idle"]
  /\ UNCHANGED <<tab, ref, tx, gridEdits, server, closes, cancels, authed, losses>>

(* (a bug: the answer is taken by a tab that is closed) *)
OpenedUnchecked(t) ==
  /\ opening[t] \in Sids
  /\ opening' = [opening EXCEPT ![t] = "none"]
  /\ ref' = [ref EXCEPT ![t] = opening[t]]
  /\ exec' = [exec EXCEPT ![t].at = "sent", ![t].sid = opening[t]]
  /\ UNCHANGED <<tab, tx, gridEdits, save, server, closes, cancels, authed, losses, requested>>

(* The promise of openQuerySession settles *)
Opened(t) ==
  /\ opening[t] \in Sids
  /\ opening' = [opening EXCEPT ![t] = "none"]
  /\ IF tab[t] = "open"
       THEN /\ ref' = [ref EXCEPT ![t] = opening[t]]
            /\ exec' = [exec EXCEPT ![t].at = "sent", ![t].sid = opening[t]]
            /\ UNCHANGED closes
       ELSE /\ closes' = closes \union {opening[t]}
            /\ exec' = [exec EXCEPT ![t] = Idle]
            /\ UNCHANGED ref
  /\ UNCHANGED <<tab, tx, gridEdits, save, server, cancels, authed, losses, requested>>

OpenFailed(t) ==
  /\ opening[t] = "error"
  /\ opening' = [opening EXCEPT ![t] = "none"]
  /\ exec' = [exec EXCEPT ![t] = Idle]
  /\ gridEdits' = IF tab[t] = "open" THEN [gridEdits EXCEPT ![t] = IF @ = "none" THEN @ ELSE "gone"] ELSE gridEdits
  /\ UNCHANGED <<tab, ref, tx, save, server, closes, cancels, authed, losses, requested>>

(* The answer of executeQuery: a session the backend does not know is      *)
(* forgotten and the statement tried once more, on a new one; any other    *)
(* answer replaces the execution shown, and with it the edits of its grid. *)
Answered(t) ==
  LET e == exec[t] IN
  /\ e.at = "answer"
  /\ IF e.label = "notfound" /\ ~e.retried
       THEN /\ ref' = [ref EXCEPT ![t] = None]
            /\ exec' = [exec EXCEPT ![t] = [e EXCEPT !.at = "opening", !.retried = TRUE]]
            /\ opening' = [opening EXCEPT ![t] = "dialing"]
            /\ UNCHANGED <<tx, gridEdits>>
       ELSE /\ exec' = [exec EXCEPT ![t] = Idle]
            /\ IF tab[t] = "open"
                 THEN /\ tx' = IF e.label \in Labels THEN [tx EXCEPT ![t] = e.label] ELSE tx
                      /\ gridEdits' = [gridEdits EXCEPT ![t] =
                           IF @ # "none" THEN "gone"
                           ELSE IF e.stmt = "select" /\ e.label \in {"idle", "transaction"} THEN "editable"
                           ELSE @]
                 ELSE UNCHANGED <<tx, gridEdits>>
            /\ UNCHANGED <<ref, opening>>
  /\ UNCHANGED <<tab, save, server, closes, cancels, authed, losses, requested>>

(* cancel(), while the toolbar shows a run *)
Cancel(t) ==
  /\ tab[t] = "open" /\ authed /\ exec[t].at # "idle" /\ ref[t] # None
  /\ requested < MaxRuns /\ requested' = requested + 1
  /\ cancels' = cancels \union {ref[t]}
  /\ UNCHANGED <<tab, ref, tx, gridEdits, opening, exec, save, server, closes, authed, losses>>

(* useGridEdits: the user changes the grid *)
EditGrid(t) ==
  /\ tab[t] = "open" /\ gridEdits[t] = "editable"
  /\ gridEdits' = [gridEdits EXCEPT ![t] = "pending"]
  /\ UNCHANGED <<tab, ref, tx, opening, exec, save, server, closes, cancels, authed, losses, requested>>

(* ResultsPanel's save button and saveChanges *)
SaveChanges(t) ==
  /\ tab[t] = "open" /\ authed /\ gridEdits[t] = "pending" /\ save[t].at = "idle" /\ ref[t] # None
  /\ save' = [save EXCEPT ![t] = [NoSave EXCEPT !.at = "sent", !.sid = ref[t],
                                  !.overlap = save[t].overlap \/ exec[t].at # "idle"]]
  /\ UNCHANGED <<tab, ref, tx, gridEdits, opening, exec, server, closes, cancels, authed, losses,
                 requested>>

(* What lastRunRef names: the text that filled the grid, unless a run that *)
(* overlapped the save has replaced it                                     *)
LastRun(v) == IF v.overlap THEN Statements ELSE {"select"}

(* The answer of saveTableChanges: saved edits are discarded and the text  *)
(* of the last run is run again; after an error they stay                  *)
Saved(t) ==
  LET v == save[t]  ok == v.said \in {"committed", "uncommitted"} IN
  /\ v.at = "answer"
  /\ save' = [save EXCEPT ![t] = [NoSave EXCEPT !.said = v.said, !.overlap = v.overlap,
                                  !.before = IF v.said \in {"nothing", "failed"} THEN v.before ELSE Nothing]]
  /\ IF ok /\ tab[t] = "open"
       THEN /\ tx' = [tx EXCEPT ![t] = IF v.own THEN "idle" ELSE "transaction"]
            /\ gridEdits' = [gridEdits EXCEPT ![t] = "gone"]
            /\ IF exec[t].at = "idle" /\ authed
               THEN \E stmt \in LastRun(v) : Execute(t, [Idle EXCEPT !.stmt = stmt])
               ELSE UNCHANGED <<exec, opening>>
       ELSE UNCHANGED <<tx, gridEdits, exec, opening>>
  /\ UNCHANGED <<tab, ref, server, closes, cancels, authed, losses, requested>>

(* The tab unmounts, closed by the user or with its connection.  A tab     *)
(* that shows an open transaction asks first (useCloseWorkspaceTabs).      *)
CloseTab(t) ==
  /\ tab[t] = "open" /\ authed
  /\ tab' = [tab EXCEPT ![t] = "closed"]
  /\ ref' = [ref EXCEPT ![t] = None]
  /\ closes' = IF ref[t] # None THEN closes \union {ref[t]} ELSE closes
  /\ tx' = [tx EXCEPT ![t] = "none"] /\ gridEdits' = [gridEdits EXCEPT ![t] = "gone"]
  /\ UNCHANGED <<opening, exec, save, server, cancels, authed, losses, requested>>

(* Logout unmounts every tab after the token is gone: nothing is closed,   *)
(* and a close or a cancel that arrives from then on is refused            *)
Logout ==
  /\ authed /\ authed' = FALSE
  /\ tab' = [t \in Tabs |-> IF tab[t] = "open" THEN "closed" ELSE tab[t]]
  /\ ref' = [t \in Tabs |-> None]
  /\ tx' = [t \in Tabs |-> "none"] /\ gridEdits' = [t \in Tabs |-> "gone"]
  /\ closes' = {} /\ cancels' = {}
  /\ UNCHANGED <<opening, exec, save, server, losses, requested>>

----------------------------------------------------------------------------
(* The backend *)

Known(s) == authed /\ sess[s] = "registered"
client == <<tab, ref, tx, gridEdits>>

(* OpenQuerySession connects and registers the session, under a new uuid *)
FreshId == CHOOSE s \in Sids : sess[s] = "free"
OpenQuerySession(t) ==
  /\ opening[t] = "dialing"
  /\ \/ \E s \in Sids :
          /\ authed /\ sess[s] = "free" /\ s = FreshId
          /\ sess' = [sess EXCEPT ![s] = "registered"]
          /\ owner' = [owner EXCEPT ![s] = t]
          /\ txs' = [txs EXCEPT ![s] = "I"]
          /\ opening' = [opening EXCEPT ![t] = s]
     \/ /\ opening' = [opening EXCEPT ![t] = "error"]
        /\ UNCHANGED <<sess, owner, txs>>
  /\ UNCHANGED <<client, exec, save, lock, cancelled, lost, pend, db, closes, cancels,
                 authed, losses, requested>>

(* txStatusLabel; (bugs: a failed transaction has no label, or that of none) *)
LabelUnknown(state) == IF state = "E" THEN "unknown" ELSE IF state = "T" THEN "transaction" ELSE "idle"
LabelOfNone(state) == IF state = "T" THEN "transaction" ELSE IF state = "gone" THEN "closed" ELSE "idle"
LabelOf(state) == CASE state = "I" -> "idle"   [] state = "T" -> "transaction"
                    [] state = "E" -> "failed" [] OTHER -> "closed"

AnswerExec(t, label) == exec' = [exec EXCEPT ![t].at = "answer", ![t].label = label]
Unlock(s) ==
  /\ lock' = [lock EXCEPT ![s] = FALSE]
  /\ cancelled' = [cancelled EXCEPT ![s] = FALSE]

(* ExecuteQuery finds its session and tries its lock *)
ExecuteQuery(t) ==
  LET s == exec[t].sid IN
  /\ exec[t].at = "sent"
  /\ IF Known(s) /\ ~lock[s]
       THEN /\ lock' = [lock EXCEPT ![s] = TRUE]
            /\ exec' = [exec EXCEPT ![t].at = "locked"]
       ELSE /\ AnswerExec(t, IF authed /\ ~Known(s) THEN "notfound" ELSE "refused")
            /\ UNCHANGED lock
  /\ UNCHANGED <<client, opening, save, sess, owner, cancelled, txs, lost, pend, db, closes,
                 cancels, authed, losses, requested>>

(* (a bug: the run does not look at the mark) *)
BeginRunAnyway(t) ==
  LET s == exec[t].sid IN
  /\ exec[t].at = "locked"
  /\ exec' = [exec EXCEPT ![t].at = IF txs[s] = "gone" THEN "reconnect" ELSE "run"]
  /\ UNCHANGED <<client, opening, save, server, closes, cancels, authed, losses, requested>>

(* beginRun: refused once the session is marked closed; then a connection  *)
(* known to be closed is opened again before the statement is sent         *)
BeginRun(t) ==
  LET s == exec[t].sid IN
  /\ exec[t].at = "locked"
  /\ IF sess[s] \in {"closing", "done"}
       THEN AnswerExec(t, "notfound") /\ Unlock(s)
       ELSE /\ exec' = [exec EXCEPT ![t].at = IF txs[s] = "gone" THEN "reconnect" ELSE "run"]
            /\ UNCHANGED <<lock, cancelled>>
  /\ UNCHANGED <<client, opening, save, sess, owner, txs, lost, pend, db, closes, cancels, authed,
                 losses, requested>>

Reconnect(t) ==
  LET s == exec[t].sid IN
  /\ exec[t].at = "reconnect"
  /\ \/ /\ ~cancelled[s]
        /\ txs' = [txs EXCEPT ![s] = "I"]
        /\ exec' = [exec EXCEPT ![t].at = "run"]
        /\ UNCHANGED <<lock, cancelled>>
     \/ AnswerExec(t, "refused") /\ Unlock(s) /\ UNCHANGED txs
  /\ UNCHANGED <<client, opening, save, sess, owner, lost, pend, db, closes, cancels, authed,
                 losses, requested>>

CommitPending(s) ==
  db' = [db EXCEPT ![owner[s]] = [i \in Rows |-> IF i <= Updates /\ @[i] = 1 THEN 1 ELSE @[i] + pend[s][i]]]

(* What the server makes of a statement *)
Finish(t, state, committed) ==
  LET s == exec[t].sid IN
  /\ txs' = [txs EXCEPT ![s] = state]
  /\ pend' = IF state \in {"I", "gone"} THEN [pend EXCEPT ![s] = Nothing] ELSE pend
  /\ IF committed THEN CommitPending(s) ELSE UNCHANGED db
  /\ lost' = IF state = "gone" THEN [lost EXCEPT ![s] = FALSE] ELSE lost
  /\ AnswerExec(t, LabelOf(state))
  /\ Unlock(s)
  /\ UNCHANGED <<client, opening, save, sess, owner, closes, authed, losses, requested>>

RunFinishes(t) ==
  LET s == exec[t].sid  q == exec[t].stmt IN
  /\ exec[t].at = "run" /\ ~lost[s] /\ ~cancelled[s]
  /\ CASE q \in {"commit", "rollback"} -> Finish(t, "I", q = "commit" /\ txs[s] = "T")
       [] q = "begin" /\ txs[s] = "I"  -> Finish(t, "T", FALSE)
       [] q = "wrong" /\ txs[s] = "T"  -> Finish(t, "E", FALSE)
       [] OTHER                        -> Finish(t, txs[s], FALSE)
  /\ UNCHANGED cancels

(* A lost connection, or the cancelled context of a session being closed,  *)
(* ends the read and closes the connection                                 *)
RunBreaks(t) ==
  LET s == exec[t].sid IN
  /\ exec[t].at = "run" /\ (lost[s] \/ cancelled[s])
  /\ Finish(t, "gone", FALSE) /\ UNCHANGED cancels

(* CancelRequest reaches the server: it interrupts the statement it finds *)
CancelQuery(s) ==
  /\ s \in cancels
  /\ cancels' = cancels \ {s}
  /\ \/ \E t \in Tabs :
          /\ exec[t].at = "run" /\ exec[t].sid = s /\ Known(s) /\ ~lost[s] /\ ~cancelled[s]
          /\ exec[t].stmt \notin {"commit", "rollback"}
          /\ Finish(t, IF txs[s] = "T" THEN "E" ELSE txs[s], FALSE)
     \/ UNCHANGED <<client, opening, exec, save, server, closes, authed, losses, requested>>

(* SaveTableChanges: the checks before anything is sent *)
AnswerSave(t, said) == save' = [save EXCEPT ![t].at = "answer", ![t].said = said]

(* The transaction is the save's own when none is open.  BEGIN fails on a  *)
(* lost connection, with nothing to undo.                                  *)
(* (a bug: a save opens a closed connection again) *)
SavableAfterReconnect(s) == txs[s] \in {"I", "T", "gone"}
Savable(s) == txs[s] \in {"I", "T"}

SaveTableChanges(t) ==
  LET s == save[t].sid IN
  /\ save[t].at = "sent"
  /\ IF ~Known(s) \/ lock[s] \/ ~Savable(s) \/ (txs[s] = "I" /\ lost[s])
       THEN /\ AnswerSave(t, "refused")
            /\ LET broken == Known(s) /\ ~lock[s] /\ txs[s] = "I" /\ lost[s] IN
               /\ txs' = IF broken THEN [txs EXCEPT ![s] = "gone"] ELSE txs
               /\ lost' = IF broken THEN [lost EXCEPT ![s] = FALSE] ELSE lost
            /\ UNCHANGED lock
       ELSE /\ save' = [save EXCEPT ![t] = [@ EXCEPT !.at = "rows", !.row = 1,
                                            !.own = txs[s] # "T", !.before = db[t]]]
            /\ txs' = [txs EXCEPT ![s] = "T"]
            /\ lock' = [lock EXCEPT ![s] = TRUE]
            /\ UNCHANGED lost
  /\ UNCHANGED <<client, opening, exec, sess, owner, cancelled, pend, db, closes, cancels, authed,
                 losses, requested>>

(* (a bug: nothing is rolled back) *)
SaveFailsOpen(t, state) ==
  LET s == save[t].sid  own == save[t].own IN
  /\ txs' = [txs EXCEPT ![s] = state]
  /\ pend' = IF state = "gone" THEN [pend EXCEPT ![s] = Nothing] ELSE pend
  /\ lost' = IF state = "gone" THEN [lost EXCEPT ![s] = FALSE] ELSE lost
  /\ AnswerSave(t, IF own THEN "nothing" ELSE "failed")
  /\ Unlock(s)
  /\ UNCHANGED db

(* fail(): the save's own transaction is rolled back; ROLLBACK finds no    *)
(* connection when that is what failed                                     *)
SaveFails(t, state) ==
  LET s == save[t].sid  own == save[t].own
      left == IF own /\ state # "gone" THEN "I" ELSE state IN
  /\ txs' = [txs EXCEPT ![s] = left]
  /\ pend' = IF left \in {"I", "gone"} THEN [pend EXCEPT ![s] = Nothing] ELSE pend
  /\ lost' = IF state = "gone" THEN [lost EXCEPT ![s] = FALSE] ELSE lost
  /\ AnswerSave(t, IF own THEN "nothing" ELSE "failed")
  /\ Unlock(s)
  /\ UNCHANGED db

(* applyTableChanges, one row: applied; no row matched, which is an error  *)
(* of the handler and none of the server's; refused by the server, or      *)
(* interrupted by a cancel that comes late                                 *)
SaveRow(t) ==
  LET s == save[t].sid  i == save[t].row IN
  /\ save[t].at = "rows" /\ i \in Rows /\ ~lost[s] /\ ~cancelled[s]
  /\ \/ /\ pend' = [pend EXCEPT ![s][i] = IF i <= Updates THEN 1 ELSE @ + 1]
        /\ save' = [save EXCEPT ![t].row = i + 1]
        /\ UNCHANGED <<txs, lost, db, lock, cancelled, cancels>>
     \/ /\ i <= Updates
        /\ SaveFails(t, "T") /\ UNCHANGED cancels
     \/ SaveFails(t, "E") /\ cancels' \in {cancels, cancels \ {s}}
  /\ UNCHANGED <<client, opening, exec, sess, owner, closes, authed, losses, requested>>

(* Or the connection breaks under it, or closes                            *)
SaveBreaks(t) ==
  LET s == save[t].sid IN
  /\ save[t].at = "rows" /\ save[t].row \in Rows /\ (lost[s] \/ cancelled[s])
  /\ SaveFails(t, "gone")
  /\ UNCHANGED <<client, opening, exec, sess, owner, closes, cancels, authed, losses, requested>>

(* COMMIT of the save's own transaction: done, refused by the server, or   *)
(* unanswered, with the connection gone and the rows committed or not      *)
SaveCommits(t) ==
  LET s == save[t].sid IN
  /\ save[t].at = "rows" /\ save[t].row \notin Rows
  /\ IF ~save[t].own
       THEN AnswerSave(t, "uncommitted") /\ UNCHANGED <<txs, lost, pend, db>>
       ELSE /\ pend' = [pend EXCEPT ![s] = Nothing]
            /\ \/ /\ ~lost[s] /\ ~cancelled[s]
                  /\ CommitPending(s) /\ AnswerSave(t, "committed")
                  /\ txs' = [txs EXCEPT ![s] = "I"] /\ UNCHANGED lost
               \/ /\ ~lost[s] /\ ~cancelled[s]
                  /\ AnswerSave(t, "unsure")
                  /\ txs' = [txs EXCEPT ![s] = "I"] /\ UNCHANGED <<db, lost>>
               \/ /\ AnswerSave(t, "unsure")
                  /\ txs' = [txs EXCEPT ![s] = "gone"] /\ lost' = [lost EXCEPT ![s] = FALSE]
                  /\ IF lost[s] \/ cancelled[s] THEN UNCHANGED db ELSE CommitPending(s)
  /\ Unlock(s)
  /\ UNCHANGED <<client, opening, exec, sess, owner, closes, cancels, authed, losses, requested>>

(* CloseQuerySession, DisconnectServer and the release of a window take    *)
(* the session out of the map, then close it; the call needs a valid token *)
(* (a cancel that arrives later finds no session)                          *)
CloseQuerySession(s) ==
  /\ s \in closes
  /\ closes' = closes \ {s}
  /\ sess' = IF Known(s) THEN [sess EXCEPT ![s] = "removed"] ELSE sess
  /\ cancels' = cancels \ {s}
  /\ UNCHANGED <<client, opening, exec, save, owner, lock, cancelled, txs, lost, pend, db, authed,
                 losses, requested>>

DisconnectServer ==
  /\ authed /\ \E s \in Sids : sess[s] = "registered"
  /\ sess' = [s \in Sids |-> IF sess[s] = "registered" THEN "removed" ELSE sess[s]]
  /\ cancels' = {}
  /\ UNCHANGED <<client, opening, exec, save, owner, lock, cancelled, txs, lost, pend, db,
                 closes, authed, losses, requested>>

(* session.close(): mark and cancel, then wait for the lock *)
Running(s) ==
  \E t \in Tabs :
    \/ exec[t].sid = s /\ exec[t].at \in {"reconnect", "run"}
    \/ save[t].sid = s /\ save[t].at = "rows"
MarkClosed(s) ==
  /\ sess[s] = "removed"
  /\ sess' = [sess EXCEPT ![s] = "closing"]
  /\ cancelled' = [cancelled EXCEPT ![s] = Running(s)]
  /\ UNCHANGED <<client, opening, exec, save, owner, lock, txs, lost, pend, db, closes,
                 cancels, authed, losses, requested>>

CloseConn(s) ==
  /\ sess[s] = "closing" /\ ~lock[s]
  /\ sess' = [sess EXCEPT ![s] = "done"]
  /\ txs' = [txs EXCEPT ![s] = "gone"] /\ lost' = [lost EXCEPT ![s] = FALSE]
  /\ pend' = [pend EXCEPT ![s] = Nothing]
  /\ UNCHANGED <<client, opening, exec, save, owner, lock, cancelled, db, closes, cancels,
                 authed, losses, requested>>

(* The network or the server drops a connection: its transaction is undone *)
LoseConnection(s) ==
  /\ txs[s] # "gone" /\ ~lost[s] /\ losses < MaxLosses
  /\ losses' = losses + 1
  /\ lost' = [lost EXCEPT ![s] = TRUE]
  /\ pend' = [pend EXCEPT ![s] = Nothing]
  /\ UNCHANGED <<client, opening, exec, save, sess, owner, lock, cancelled, txs, db, closes,
                 cancels, authed, requested>>

----------------------------------------------------------------------------
QueryStep(t) ==
  \/ Opened(t) \/ OpenFailed(t) \/ Answered(t) \/ Saved(t)
  \/ OpenQuerySession(t) \/ ExecuteQuery(t) \/ BeginRun(t) \/ Reconnect(t) \/ RunBreaks(t)
  \/ SaveTableChanges(t) \/ SaveBreaks(t) \/ SaveCommits(t)
SessionStep(s) == CloseQuerySession(s) \/ MarkClosed(s) \/ CloseConn(s)

QueryNext ==
  \/ \E t \in Tabs :
       \/ OpenTab(t) \/ (\E stmt \in Statements : Run(t, stmt)) \/ Cancel(t)
       \/ EditGrid(t) \/ SaveChanges(t) \/ CloseTab(t)
       \/ QueryStep(t) \/ RunFinishes(t) \/ SaveRow(t)
  \/ \E s \in Sids : SessionStep(s) \/ CancelQuery(s) \/ LoseConnection(s)
  \/ Logout \/ DisconnectServer

(* Calls, answers and closes go on; the user does nothing in particular,   *)
(* and a statement, of a run or of a save, may run for ever.               *)
QueryFairness ==
  /\ \A t \in Tabs : WF_queryVars(QueryStep(t))
  /\ \A s \in Sids : WF_queryVars(SessionStep(s))
QuerySpec == QueryInit /\ [][QueryNext]_queryVars /\ QueryFairness

----------------------------------------------------------------------------
(* A session in the map has a tab that refers to it, or the answer that    *)
(* brings it to its tab or the call that closes it is on its way; only     *)
(* logout leaves one behind (the unmount of QueryTab finds no token).      *)
SessionHasItsTab ==
  authed => \A s \in Sids : sess[s] = "registered" =>
    s \in closes \/ opening[owner[s]] = s \/ (tab[owner[s]] = "open" /\ ref[owner[s]] = s)

(* What the answer of a save said is so: "Nada foi salvo" means no row of  *)
(* it is committed or left in a transaction, "salvas" that each is (fail   *)
(* and the COMMIT of SaveTableChanges).                                    *)
SaveTellsTheTruth ==
  \A t \in Tabs :
    /\ save[t].said = "nothing" =>
         /\ db[t] = save[t].before
         /\ \A s \in Sids : owner[s] = t /\ sess[s] = "registered" => pend[s] = Nothing
    /\ save[t].said = "committed" => \A i \in Rows : db[t][i] >= 1

(* No row is inserted twice, however often the same edits are saved: what  *)
(* is not known to have failed is never sent again (the refusals at the    *)
(* start of SaveTableChanges, and the new run that clears the grid).  A    *)
(* save that overlaps a run may send again what that run is about to       *)
(* clear: neither button waits for the other.                              *)
InsertedOnce ==
  \A t \in Tabs : ~save[t].overlap => \A i \in Updates + 1 .. Updates + Inserts :
    /\ db[t][i] <= 1
    /\ \A s \in Sids : owner[s] = t => db[t][i] + pend[s][i] <= 1

(* A tab whose connection is inside a transaction shows it, so that        *)
(* closing the tab asks first, unless an answer is still due.              *)
OpenTransactionIsShown ==
  \A t \in Tabs :
    /\ tab[t] = "open" /\ ref[t] # None /\ exec[t].at = "idle" /\ save[t].at = "idle"
    /\ sess[ref[t]] = "registered" /\ txs[ref[t]] \in {"T", "E"}
    => tx[t] \in {"transaction", "failed"}

(* The connection of a closed tab is closed in the end, even while its     *)
(* statement would run for ever (close cancels it before it waits).        *)
ClosedTabFreesItsConnection ==
  \A t \in Tabs : \A s \in Sids :
    (tab[t] = "closed" /\ owner[s] = t) ~> (txs[s] = "gone" \/ ~authed)
=============================================================================
