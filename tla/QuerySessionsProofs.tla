------------------------- MODULE QuerySessionsProofs -------------------------
(***************************************************************************)
(* Proofs about the query sessions: for any tabs, sessions and edited      *)
(* rows, with any number of runs, saves, cancels and lost connections.     *)
(*                                                                         *)
(* The invariant says whom a session belongs to, that one call holds it at *)
(* a time, and then three stories, each with the case of every step a save *)
(* or a run can be at: what an answer said of the rows, where the inserted *)
(* rows are before and after a save, and what tells the tab of an open     *)
(* transaction.                                                            *)
(***************************************************************************)
EXTENDS QuerySessions, TLAPS

\* A run between its send and its answer; while it holds the lock; the states
\* of a transaction, and the rows that are inserted.
Active == {"sent", "locked", "reconnect", "run", "answer"}
Holding == {"locked", "reconnect", "run"}
InTransaction == {"T", "E"}
Shows == {"transaction", "failed"}
InsertRows == Updates + 1 .. Updates + Inserts

\* s is a session of tab t.
Of(s, t) == s \in Sids /\ owner[s] = t /\ sess[s] # "free"
Registered(s, t) == s \in Sids /\ owner[s] = t /\ sess[s] = "registered"

(***************************************************************************)
(* Whom a session belongs to: what a tab refers to, is given by an answer, *)
(* runs or saves on is its own, and it refers to no other meanwhile.       *)
(***************************************************************************)
TabRefs(t) ==
    /\ ref[t] # None => Of(ref[t], t) /\ tab[t] = "open"
    /\ opening[t] \in Sids => Of(opening[t], t) /\ txs[opening[t]] \notin InTransaction
    /\ exec[t].at = "opening" <=> opening[t] # "none"
    /\ opening[t] # "none" => ref[t] = None
    /\ exec[t].at \in Active => Of(exec[t].sid, t) /\ ref[t] \in {None, exec[t].sid}
    /\ save[t].at # "idle" => Of(save[t].sid, t) /\ save[t].sid # opening[t]
    /\ tab[t] = "open" => authed
    /\ tab[t] = "closed" => gridEdits[t] = "gone"
    /\ save[t].at = "idle" /\ save[t].said \in {"committed", "uncommitted"} => gridEdits[t] = "gone"
    /\ tab[t] = "absent" => exec[t].at = "idle" /\ save[t].at = "idle"
SessionRefs(s) ==
    /\ sess[s] = "free" => pend[s] = Nothing
    /\ sess[s] # "free" => owner[s] \in Tabs
    /\ s \in closes => sess[s] # "free" /\ tab[owner[s]] = "closed"
Refs == (\A t \in Tabs : TabRefs(t)) /\ \A s \in Sids : SessionRefs(s)

(***************************************************************************)
(* executionMutex: a run or a save, never both, and no lock without one.   *)
(***************************************************************************)
Runs(t, s) == exec[t].at \in Holding /\ exec[t].sid = s
Saves(t, s) == save[t].at = "rows" /\ save[t].sid = s
Locks ==
    /\ \A t \in Tabs, s \in Sids : Runs(t, s) => lock[s] /\ ~Saves(t, s)
    /\ \A t \in Tabs, s \in Sids : Saves(t, s) => lock[s] /\ txs[s] = "T"
    /\ \A s \in Sids : lock[s] => \E t \in Tabs : Runs(t, s) \/ Saves(t, s)
    /\ \A t \in Tabs : exec[t].at = "reconnect" => txs[exec[t].sid] = "gone"

(***************************************************************************)
(* One session of a tab at most is in the map: a new one is opened when    *)
(* the one before is not there any more.                                   *)
(***************************************************************************)
OneOf(t) ==
    /\ exec[t].at \in Active => \A s \in Sids : Registered(s, t) => s = exec[t].sid
    /\ exec[t].at = "opening" => \A s \in Sids : Registered(s, t) => s = opening[t]
    /\ exec[t].at = "answer" /\ exec[t].label = "notfound" => sess[exec[t].sid] # "registered"
One == \A t \in Tabs : OneOf(t)

(***************************************************************************)
(* Saves.  A session is left when its tab will not run on it again; what   *)
(* rows it holds are not committed any more.                               *)
(***************************************************************************)
Left(t, s) ==
    /\ sess[s] # "registered" /\ ref[t] # s /\ opening[t] # s
    /\ ~(exec[t].at \in Active /\ exec[t].sid = s)
Told(t) ==
    /\ save[t].at \in {"sent", "rows"} => save[t].said = "none"
    /\ save[t].at = "answer" /\ save[t].said = "committed" => save[t].own
    /\ save[t].at # "idle" =>
         \A s \in Sids : Of(s, t) /\ s # save[t].sid => pend[s] = Nothing \/ Left(t, s)
    /\ save[t].said = "nothing" =>
         /\ db[t] = save[t].before
         /\ \A s \in Sids : Of(s, t) => pend[s] = Nothing \/ Left(t, s)
    /\ save[t].at = "rows" =>
         /\ db[t] = save[t].before /\ save[t].row >= 1
         /\ ~lost[save[t].sid] => \A i \in Rows : i < save[t].row => pend[save[t].sid][i] >= 1
    /\ save[t].said = "committed" => \A i \in Rows : db[t][i] >= 1
Truth == \A t \in Tabs : Told(t)

(***************************************************************************)
(* Inserts.  Before a save sends rows none of them is anywhere, unless it  *)
(* cannot send them: a run is under way, or the connection takes no save.  *)
(***************************************************************************)
Clean(t) == \A i \in InsertRows : db[t][i] = 0 /\ \A s \in Sids : Of(s, t) => pend[s][i] = 0
Untouched == \A t \in Tabs : gridEdits[t] \in {"none", "editable"} => save[t].at = "idle" /\ Clean(t)
Blocked(t) ==
    \/ exec[t].at # "idle"
    \/ \E s \in Sids : /\ Of(s, t) /\ txs[s] \in {"E", "gone"}
                       /\ s = IF save[t].at = "idle" THEN ref[t] ELSE save[t].sid
MaySave(t) ==
    \/ save[t].at = "sent"
    \/ save[t].at \in {"idle", "answer"} /\ gridEdits[t] # "gone" /\ save[t].said \notin {"committed", "uncommitted"}
OnceOf(t) ==
    /\ exec[t].at = "idle" \/ save[t].at = "idle"
    /\ save[t].at # "idle" /\ tab[t] = "open" => ref[t] = save[t].sid
    /\ MaySave(t) => Clean(t) \/ Blocked(t)
    /\ save[t].at = "rows" => \A i \in InsertRows :
         /\ db[t][i] = 0 /\ pend[save[t].sid][i] <= 1
         /\ i >= save[t].row => pend[save[t].sid][i] = 0
         /\ \A s \in Sids : Of(s, t) /\ s # save[t].sid => pend[s][i] = 0
    /\ \A i \in InsertRows :
         /\ db[t][i] <= 1
         /\ \A s \in Sids : Of(s, t) => db[t][i] + pend[s][i] <= 1
         /\ \A r, s \in Sids : Of(r, t) /\ Of(s, t) /\ r # s => pend[r][i] + pend[s][i] <= 1
Once == \A t \in Tabs : ~save[t].overlap => OnceOf(t)

(***************************************************************************)
(* What a tab shows of its transaction.                                    *)
(***************************************************************************)
SavesOwn(t, s) == Saves(t, s) /\ save[t].own
Due(t) == exec[t].at = "answer" /\ exec[t].label \in Shows
\* the run a save starts when it is answered
Looks(t) == exec[t].at \in {"sent"} \union Holding /\ save[t].at = "idle" /\ gridEdits[t] = "gone"
Open(t, s) == Registered(s, t) /\ txs[s] \in InTransaction
ShownOf(t) ==
    \A s \in Sids : Open(t, s) /\ ref[t] = s =>
      /\ tx[t] \in Shows \/ Due(t) \/ Looks(t) \/ SavesOwn(t, s)
      /\ exec[t].at = "answer" =>
           /\ exec[t].label \in {"idle", "closed"} => SavesOwn(t, s)
           /\ exec[t].label \notin Shows /\ save[t].at # "idle" /\ save[t].own => SavesOwn(t, s)
Shown == \A t \in Tabs : ShownOf(t)

Answers == {"idle", "transaction", "failed", "closed", "notfound", "refused"}
LabelsOK == \A t \in Tabs : exec[t].at = "answer" => exec[t].label \in Answers

IInv ==
    /\ QueryTypeOK /\ LabelsOK /\ Refs /\ Locks /\ One /\ SessionHasItsTab
    /\ Truth /\ Untouched /\ Once /\ Shown

----------------------------------------------------------------------------
(* Records, field by field *)

\* The run of tab t is now at a step, with a session and a label; the others are as they were.
RunIs(t, at, sid, label) ==
    /\ exec' \in [Tabs -> RunCalls]
    /\ exec'[t].at = at /\ exec'[t].sid = sid /\ exec'[t].label = label
    /\ \A u \in Tabs : u # t => exec'[u] = exec[u]

SaveIs(t, at, row, sid, own, overlap, said, before) ==
    /\ save' \in [Tabs -> SaveCalls]
    /\ save'[t].at = at /\ save'[t].row = row /\ save'[t].sid = sid /\ (save'[t].own <=> own)
    /\ (save'[t].overlap <=> overlap) /\ save'[t].said = said /\ save'[t].before = before
    /\ \A u \in Tabs : u # t => save'[u] = save[u]

LEMMA NullsTyped == Idle \in RunCalls /\ NoSave \in SaveCalls
<1>1. Idle \in RunCalls
  BY DEF Idle, RunCalls, RunSteps, Statements, Labels
<1>2. Nothing \in [Rows -> Nat] /\ 0 \in 0 .. Updates + Inserts + 1
  BY QueryAssumption DEF Nothing
<1>3. NoSave \in SaveCalls
  BY <1>2 DEF NoSave, SaveCalls, SaveSteps, SaveAnswers
<1> QED
  BY <1>1, <1>3

LEMMA RunMoves ==
    ASSUME exec \in [Tabs -> RunCalls], NEW t \in Tabs, NEW x \in RunSteps, exec' = [exec EXCEPT ![t].at = x]
    PROVE  RunIs(t, x, exec[t].sid, exec[t].label)
BY DEF RunIs, RunCalls

LEMMA RunAnswers ==
    ASSUME exec \in [Tabs -> RunCalls], NEW t \in Tabs, NEW l \in Labels \union {"notfound", "refused"},
           AnswerExec(t, l)
    PROVE  RunIs(t, "answer", exec[t].sid, l)
BY DEF AnswerExec, RunIs, RunCalls, RunSteps

LEMMA RunEnds ==
    ASSUME exec \in [Tabs -> RunCalls], NEW t \in Tabs, exec' = [exec EXCEPT ![t] = Idle]
    PROVE  RunIs(t, "idle", None, "none")
BY NullsTyped DEF RunIs, Idle

LEMMA RunOpened ==
    ASSUME exec \in [Tabs -> RunCalls], NEW t \in Tabs, NEW s \in Sids,
           exec' = [exec EXCEPT ![t].at = "sent", ![t].sid = s]
    PROVE  RunIs(t, "sent", s, exec[t].label)
BY DEF RunIs, RunCalls, RunSteps

LEMMA RunRetries ==
    ASSUME exec \in [Tabs -> RunCalls], NEW t \in Tabs,
           exec' = [exec EXCEPT ![t] = [exec[t] EXCEPT !.at = "opening", !.retried = TRUE]]
    PROVE  RunIs(t, "opening", exec[t].sid, exec[t].label)
BY DEF RunIs, RunCalls, RunSteps

LEMMA RunStarts ==
    ASSUME exec \in [Tabs -> RunCalls], ref \in [Tabs -> Sids \union {None}], NEW t \in Tabs, NEW e \in RunCalls,
           opening \in [Tabs -> Sids \union {"none", "dialing", "error"}],
           Execute(t, e)
    PROVE  \/ ref[t] # None /\ RunIs(t, "sent", ref[t], e.label) /\ opening' = opening
           \/ /\ ref[t] = None /\ RunIs(t, "opening", e.sid, e.label)
              /\ opening' = [opening EXCEPT ![t] = IF @ = "none" THEN "dialing" ELSE @]
<1>1. CASE ref[t] # None
  <2> DEFINE n1 == [e EXCEPT !.at = "sent"]
             n2 == [n1 EXCEPT !.sid = ref[t]]
  <2>1. exec' = [exec EXCEPT ![t] = n2] /\ opening' = opening
    BY <1>1 DEF Execute
  <2>2. n1 \in RunCalls /\ n1.at = "sent" /\ n1.label = e.label
    BY DEF RunCalls, RunSteps
  <2> HIDE DEF n1
  <2>3. n2 \in RunCalls /\ n2.at = "sent" /\ n2.label = e.label /\ n2.sid = ref[t]
    BY <2>2 DEF RunCalls
  <2> HIDE DEF n2
  <2> QED
    BY <1>1, <2>1, <2>3 DEF RunIs
<1>2. CASE ref[t] = None
  <2> DEFINE n1 == [e EXCEPT !.at = "opening"]
  <2>1. exec' = [exec EXCEPT ![t] = n1] /\ opening' = [opening EXCEPT ![t] = IF @ = "none" THEN "dialing" ELSE @]
    BY <1>2 DEF Execute
  <2>2. n1 \in RunCalls /\ n1.at = "opening" /\ n1.label = e.label /\ n1.sid = e.sid
    BY DEF RunCalls, RunSteps
  <2> HIDE DEF n1
  <2> QED
    BY <1>2, <2>1, <2>2 DEF RunIs
<1> QED
  BY <1>1, <1>2

LEMMA RunStatement ==
    ASSUME NEW q \in Statements
    PROVE [Idle EXCEPT !.stmt = q] \in RunCalls /\ [Idle EXCEPT !.stmt = q].sid = None /\ [Idle EXCEPT !.stmt = q].label = "none"
BY NullsTyped DEF Idle, RunCalls, RunSteps, Statements, Labels

LEMMA SaveAnswered ==
    ASSUME save \in [Tabs -> SaveCalls], NEW t \in Tabs, NEW x \in SaveAnswers, AnswerSave(t, x)
    PROVE  SaveIs(t, "answer", save[t].row, save[t].sid, save[t].own, save[t].overlap, x, save[t].before)
<1> DEFINE mid == [save EXCEPT ![t].at = "answer"]
<1>1. save' = [mid EXCEPT ![t].said = x]
  BY DEF AnswerSave
<1>2. /\ mid \in [Tabs -> SaveCalls] /\ mid[t].at = "answer"
      /\ mid[t].row = save[t].row /\ mid[t].sid = save[t].sid /\ mid[t].own = save[t].own
      /\ mid[t].overlap = save[t].overlap /\ mid[t].before = save[t].before
      /\ \A u \in Tabs : u # t => mid[u] = save[u]
  BY DEF SaveCalls, SaveSteps
<1> HIDE DEF mid
<1> QED
  BY <1>1, <1>2 DEF SaveIs, SaveCalls

LEMMA SaveGoesOn ==
    ASSUME save \in [Tabs -> SaveCalls], NEW t \in Tabs, NEW i \in Rows, save' = [save EXCEPT ![t].row = i + 1]
    PROVE  SaveIs(t, save[t].at, i + 1, save[t].sid, save[t].own, save[t].overlap, save[t].said, save[t].before)
<1>1. i + 1 \in 0 .. Updates + Inserts + 1
  BY QueryAssumption DEF Rows
<1> QED
  BY <1>1 DEF SaveIs, SaveCalls

LEMMA FieldByField ==
    ASSUME NEW r, NEW own, NEW b
    PROVE  [r EXCEPT !.at = "rows", !.row = 1, !.own = own, !.before = b]
             = [[[[r EXCEPT !.at = "rows"] EXCEPT !.row = 1] EXCEPT !.own = own] EXCEPT !.before = b]
OBVIOUS

LEMMA SaveBegins ==
    ASSUME save \in [Tabs -> SaveCalls], NEW t \in Tabs, NEW b \in [Rows -> Nat], NEW own \in BOOLEAN,
           save' = [save EXCEPT ![t] = [@ EXCEPT !.at = "rows", !.row = 1, !.own = own, !.before = b]]
    PROVE  SaveIs(t, "rows", 1, save[t].sid, own, save[t].overlap, save[t].said, b)
<1> DEFINE n1 == [save[t] EXCEPT !.at = "rows"]
           n2 == [n1 EXCEPT !.row = 1]
           n3 == [n2 EXCEPT !.own = own]
           n4 == [n3 EXCEPT !.before = b]
<1> DEFINE n == [save[t] EXCEPT !.at = "rows", !.row = 1, !.own = own, !.before = b]
<1>1. n = n4
  BY FieldByField
<1>a. save' = [save EXCEPT ![t] = n]
  OBVIOUS
<1> HIDE DEF n
<1>2. /\ n1 \in SaveCalls /\ n1.at = "rows" /\ n1.sid = save[t].sid
      /\ n1.overlap = save[t].overlap /\ n1.said = save[t].said
  BY DEF SaveCalls, SaveSteps
<1> HIDE DEF n1
<1>3. /\ n2 \in SaveCalls /\ n2.at = "rows" /\ n2.sid = save[t].sid
      /\ n2.overlap = save[t].overlap /\ n2.said = save[t].said /\ n2.row = 1
  <2>1. 1 \in 0 .. Updates + Inserts + 1
    BY QueryAssumption
  <2> QED
    BY <1>2, <2>1 DEF SaveCalls
<1> HIDE DEF n2
<1>4. /\ n3 \in SaveCalls /\ n3.at = "rows" /\ n3.sid = save[t].sid
      /\ n3.overlap = save[t].overlap /\ n3.said = save[t].said /\ n3.row = 1 /\ n3.own = own
  BY <1>3 DEF SaveCalls
<1> HIDE DEF n3
<1>5. /\ n4 \in SaveCalls /\ n4.at = "rows" /\ n4.sid = save[t].sid
      /\ n4.overlap = save[t].overlap /\ n4.said = save[t].said /\ n4.row = 1 /\ n4.own = own
      /\ n4.before = b
  BY <1>4 DEF SaveCalls
<1> HIDE DEF n4
<1> QED
  BY <1>a, <1>1, <1>5 DEF SaveIs

LEMMA SaveAsked ==
    ASSUME save \in [Tabs -> SaveCalls], NEW t \in Tabs, NEW s \in Sids, NEW both \in BOOLEAN,
           save' = [save EXCEPT ![t] = [NoSave EXCEPT !.at = "sent", !.sid = s, !.overlap = both]]
    PROVE  SaveIs(t, "sent", 0, s, FALSE, both, "none", Nothing)
BY NullsTyped DEF SaveIs, NoSave, SaveCalls, SaveSteps

LEMMA SaveEnds ==
    ASSUME save \in [Tabs -> SaveCalls], NEW t \in Tabs, NEW x \in SaveAnswers, NEW both \in BOOLEAN, NEW b \in [Rows -> Nat],
           save' = [save EXCEPT ![t] = [NoSave EXCEPT !.said = x, !.overlap = both, !.before = b]]
    PROVE  SaveIs(t, "idle", 0, None, FALSE, both, x, b)
BY NullsTyped DEF SaveIs, NoSave, SaveCalls, SaveSteps

LEMMA SaveOverlaps ==
    ASSUME save \in [Tabs -> SaveCalls], NEW t \in Tabs, NEW both \in BOOLEAN,
           save' = [save EXCEPT ![t].overlap = both]
    PROVE  SaveIs(t, save[t].at, save[t].row, save[t].sid, save[t].own, both, save[t].said, save[t].before)
BY DEF SaveIs, SaveCalls

----------------------------------------------------------------------------
(* What the steps share *)

\* A step that leaves a tab, its calls and its rows alone, and makes no session it has hold more of
\* them or able to take a save again, leaves its inserts as they were.
LEMMA OnceKept ==
    ASSUME QueryTypeOK, NEW t \in Tabs, OnceOf(t),
           exec'[t] = exec[t], save'[t] = save[t], db'[t] = db[t],
           \/ gridEdits'[t] = gridEdits[t] /\ ref'[t] = ref[t]
           \/ gridEdits'[t] = "gone" /\ tab'[t] # "open",
           tab'[t] = "open" => tab[t] = "open" \/ save[t].at = "idle",
           \A s \in Sids : Of(s, t)' => Of(s, t) \/ pend'[s] = Nothing,
           \A s \in Sids : Of(s, t)' => pend'[s] = pend[s] \/ pend'[s] = Nothing,
           save[t].at = "rows" => Of(save[t].sid, t),
           \A s \in Sids : Of(s, t) => Of(s, t)' /\ (txs[s] \in {"E", "gone"} => txs'[s] \in {"E", "gone"})
    PROVE  OnceOf(t)'
<1>1. \A s \in Sids, i \in InsertRows : Of(s, t)' => pend'[s][i] = 0 \/ (Of(s, t) /\ pend'[s][i] = pend[s][i])
  BY QueryAssumption DEF Nothing, InsertRows, Rows
<1>2. \A i \in InsertRows : db[t][i] \in Nat /\ \A s \in Sids : pend[s][i] \in Nat
  BY QueryAssumption DEF QueryTypeOK, InsertRows, Rows
<1>4. Clean(t) => Clean(t)'
  BY <1>1 DEF Clean
<1>5. MaySave(t)' => MaySave(t) /\ (Blocked(t) => Blocked(t)')
  BY DEF MaySave, Blocked, Of
<1>6. save[t].at # "idle" /\ tab'[t] = "open" => ref'[t] = save[t].sid
  BY DEF OnceOf
<1>7. ASSUME save[t].at = "rows", NEW i \in InsertRows
      PROVE  /\ db'[t][i] = 0 /\ pend'[save[t].sid][i] <= 1
             /\ i >= save[t].row => pend'[save[t].sid][i] = 0
             /\ \A s \in Sids : Of(s, t)' /\ s # save[t].sid => pend'[s][i] = 0
  <2>1. save[t].sid \in Sids /\ Of(save[t].sid, t)'
    BY <1>7 DEF Of
  <2> QED
    BY <1>1, <1>2, <1>7, <2>1 DEF OnceOf
<1>8. ASSUME NEW i \in InsertRows
      PROVE  /\ db'[t][i] <= 1
             /\ \A s \in Sids : Of(s, t)' => db'[t][i] + pend'[s][i] <= 1
             /\ \A r, s \in Sids : Of(r, t)' /\ Of(s, t)' /\ r # s => pend'[r][i] + pend'[s][i] <= 1
  BY <1>1, <1>2 DEF OnceOf
<1> QED
  BY <1>4, <1>5, <1>6, <1>7, <1>8 DEF OnceOf

\* The run that execute() starts, on the session the tab has or on one that is opened for it.
LEMMA Starts ==
    ASSUME QueryTypeOK, NEW t \in Tabs, TabRefs(t), exec[t].at = "idle",
           NEW e \in RunCalls, Execute(t, e)
    PROVE  /\ exec' \in [Tabs -> RunCalls] /\ opening' \in [Tabs -> Sids \union {"none", "dialing", "error"}]
           /\ \A u \in Tabs : u # t => exec'[u] = exec[u] /\ opening'[u] = opening[u]
           /\ opening[t] = "none" /\ opening'[t] = (IF ref[t] = None THEN "dialing" ELSE "none")
           /\ exec'[t].at = (IF ref[t] = None THEN "opening" ELSE "sent")
           /\ exec'[t].at = "sent" => exec'[t].sid = ref[t]
<1>1. /\ ref \in [Tabs -> Sids \union {None}] /\ opening \in [Tabs -> Sids \union {"none", "dialing", "error"}]
      /\ exec \in [Tabs -> RunCalls]
  BY DEF QueryTypeOK
<1>2. opening[t] = "none"
  BY DEF TabRefs
<1>3. \/ ref[t] # None /\ RunIs(t, "sent", ref[t], e.label) /\ opening' = opening
      \/ /\ ref[t] = None /\ RunIs(t, "opening", e.sid, e.label)
         /\ opening' = [opening EXCEPT ![t] = IF @ = "none" THEN "dialing" ELSE @]
  BY <1>1, RunStarts
<1>4. CASE ref[t] # None /\ RunIs(t, "sent", ref[t], e.label) /\ opening' = opening
  BY <1>1, <1>2, <1>4 DEF RunIs
<1>5. CASE /\ ref[t] = None /\ RunIs(t, "opening", e.sid, e.label)
           /\ opening' = [opening EXCEPT ![t] = IF @ = "none" THEN "dialing" ELSE @]
  BY <1>1, <1>2, <1>5 DEF RunIs
<1> QED
  BY <1>3, <1>4, <1>5

\* No session of its tab but the one it runs on is in the map.
LEMMA StartsOnItsSession ==
    ASSUME IInv, NEW t \in Tabs, exec[t].at = "idle", tab[t] = "open",
           UNCHANGED <<sess, owner>>,
           opening'[t] = (IF ref[t] = None THEN "dialing" ELSE "none"),
           exec'[t].at = (IF ref[t] = None THEN "opening" ELSE "sent"),
           exec'[t].at = "sent" => exec'[t].sid = ref[t]
    PROVE  OneOf(t)'
<1>1. authed /\ opening[t] = "none"
  BY DEF IInv, Refs, TabRefs
<1>2. \A s \in Sids : Registered(s, t) => s \notin closes /\ s # opening[t]
  BY <1>1, QueryAssumption DEF IInv, Refs, SessionRefs, Registered
<1>3. \A s \in Sids : Registered(s, t)' => ref[t] = s
  BY <1>1, <1>2 DEF IInv, SessionHasItsTab, Registered
<1> QED
  BY <1>3, QueryAssumption DEF OneOf, Active

\* What COMMIT makes of the rows of a session's tab.
LEMMA Commits ==
    ASSUME QueryTypeOK, NEW t \in Tabs, NEW s \in Sids, owner[s] = t, CommitPending(s)
    PROVE  /\ db' \in [Tabs -> [Rows -> Nat]]
           /\ \A u \in Tabs : u # t => db'[u] = db[u]
           /\ pend[s] = Nothing => db'[t] = db[t]
           /\ \A i \in Rows : /\ db'[t][i] >= db[t][i] /\ (pend[s][i] >= 1 => db'[t][i] >= 1)
                              /\ i > Updates => db'[t][i] = db[t][i] + pend[s][i]
<1> DEFINE row(i) == IF i <= Updates /\ db[t][i] = 1 THEN 1 ELSE db[t][i] + pend[s][i]
           rows == [i \in Rows |-> row(i)]
<1>1. db[t] \in [Rows -> Nat] /\ pend[s] \in [Rows -> Nat] /\ db \in [Tabs -> [Rows -> Nat]]
  BY DEF QueryTypeOK
<1>2. db' = [db EXCEPT ![t] = rows]
  BY DEF CommitPending
<1>3. \A i \in Rows : /\ row(i) \in Nat /\ row(i) >= db[t][i] /\ (pend[s][i] >= 1 => row(i) >= 1)
                      /\ i > Updates => row(i) = db[t][i] + pend[s][i]
                      /\ pend[s][i] = 0 => row(i) = db[t][i]
  BY <1>1, QueryAssumption DEF Rows
<1>4. rows \in [Rows -> Nat] /\ \A i \in Rows : rows[i] = row(i)
  BY <1>3
<1> HIDE DEF row, rows
<1>5. db' \in [Tabs -> [Rows -> Nat]] /\ db'[t] = rows /\ \A u \in Tabs : u # t => db'[u] = db[u]
  BY <1>1, <1>2, <1>4
<1>6. pend[s] = Nothing => rows = db[t]
  BY <1>1, <1>3, <1>4 DEF Nothing
<1> QED
  BY <1>3, <1>4, <1>5, <1>6

----------------------------------------------------------------------------
(* The steps *)

LEMMA OpenTabSafe ==
    ASSUME IInv, NEW t \in Tabs, OpenTab(t)
    PROVE  IInv'
<1>1. QueryTypeOK'
  BY QueryAssumption DEF IInv, OpenTab, QueryTypeOK, client, server, Nothing, Refs,
       TabRefs, SessionRefs, Of, Active, InTransaction
<1>2. LabelsOK'
  BY QueryAssumption DEF IInv, OpenTab, QueryTypeOK, client, server, LabelsOK, Answers
<1>3. Refs'
  BY QueryAssumption DEF IInv, OpenTab, QueryTypeOK, client, server, Refs, TabRefs,
       SessionRefs, Of, Active, InTransaction
<1>4. Locks'
  BY QueryAssumption DEF IInv, OpenTab, QueryTypeOK, client, server, Locks, Runs, Saves,
       Holding, Refs, TabRefs, Of, Active
<1>5. One'
  BY QueryAssumption DEF IInv, OpenTab, QueryTypeOK, client, server, One, OneOf,
       Registered, Active, Refs, TabRefs, SessionRefs, Of, SessionHasItsTab
<1>6. SessionHasItsTab'
  BY QueryAssumption DEF IInv, OpenTab, QueryTypeOK, client, server, SessionHasItsTab,
       Refs, TabRefs, SessionRefs, Of, One, OneOf, Registered, Active
<1>7. Truth'
  BY QueryAssumption DEF IInv, OpenTab, QueryTypeOK, client, server, Truth, Told, Left,
       Of, Refs, TabRefs, SessionRefs, Active, One, OneOf, Registered, Locks, Runs, Saves, Holding,
       SessionHasItsTab, CommitPending, Nothing
<1>8. Once'
  <2> SUFFICES ASSUME NEW u \in Tabs, ~save[u].overlap PROVE OnceOf(u)'
    BY DEF Once, OpenTab
  <2>1. /\ QueryTypeOK /\ OnceOf(u) /\ (save[u].at = "rows" => Of(save[u].sid, u))
        /\ tab[u] = "absent" => save[u].at = "idle"
    BY DEF IInv, Once, Refs, TabRefs
  <2> QED
    BY OnceKept, <2>1 DEF OpenTab, QueryTypeOK, client, server, Of
<1>9. Shown'
  BY QueryAssumption DEF IInv, OpenTab, QueryTypeOK, client, server, Shown, ShownOf, Open,
       Registered, Due, Looks, SavesOwn, Saves, Shows, InTransaction, Refs, TabRefs, Of, Active,
       Locks, Runs, Holding, One, OneOf, LabelsOK, Answers, Labels
<1>10. Untouched'
  BY QueryAssumption DEF IInv, OpenTab, QueryTypeOK, client, server, Untouched, Clean, Of,
       InsertRows, Rows, Nothing, SessionRefs, Refs
<1> QED
  BY <1>1, <1>2, <1>3, <1>4, <1>5, <1>6, <1>7, <1>8, <1>9, <1>10 DEF IInv

LEMMA RunSafe ==
    ASSUME IInv, NEW t \in Tabs, NEW stmt \in Statements, Run(t, stmt)
    PROVE  IInv'
<1>a. /\ QueryTypeOK /\ tab[t] = "open" /\ authed /\ exec[t].at = "idle"
      /\ requested < MaxRuns /\ requested' = requested + 1
      /\ UNCHANGED <<tab, ref, tx, gridEdits, server, closes, cancels, authed, losses>>
  BY DEF IInv, Run
<1>b. SaveIs(t, save[t].at, save[t].row, save[t].sid, save[t].own, save[t].overlap \/ save[t].at # "idle",
             save[t].said, save[t].before)
  <2> DEFINE both == save[t].overlap \/ save[t].at # "idle"
  <2>1. both \in BOOLEAN
    OBVIOUS
  <2>2. save' = [save EXCEPT ![t].overlap = both]
    BY DEF Run
  <2>3. save \in [Tabs -> SaveCalls]
    BY <1>a DEF QueryTypeOK
  <2> HIDE DEF both
  <2>4. SaveIs(t, save[t].at, save[t].row, save[t].sid, save[t].own, both, save[t].said, save[t].before)
    BY <2>1, <2>2, <2>3, SaveOverlaps
  <2> QED
    BY <2>4 DEF both
<1>c. /\ exec' \in [Tabs -> RunCalls] /\ opening' \in [Tabs -> Sids \union {"none", "dialing", "error"}]
      /\ \A u \in Tabs : u # t => exec'[u] = exec[u] /\ opening'[u] = opening[u]
      /\ opening[t] = "none" /\ opening'[t] = (IF ref[t] = None THEN "dialing" ELSE "none")
      /\ exec'[t].at = (IF ref[t] = None THEN "opening" ELSE "sent")
      /\ exec'[t].at = "sent" => exec'[t].sid = ref[t]
  <2> DEFINE e == [Idle EXCEPT !.stmt = stmt]
  <2>1. e \in RunCalls /\ TabRefs(t)
    BY RunStatement DEF IInv, Refs
  <2>2. Execute(t, e)
    BY DEF Run
  <2> HIDE DEF e
  <2> QED
    BY <2>1, <2>2, <1>a, Starts
<1>1. QueryTypeOK'
  <2>1. requested' \in 0 .. MaxRuns
    BY <1>a, QueryAssumption DEF QueryTypeOK
  <2>2. save' \in [Tabs -> SaveCalls]
    BY <1>b DEF SaveIs
  <2> QED
    BY <1>a, <1>c, <2>1, <2>2 DEF QueryTypeOK, client, server
<1>2. LabelsOK'
  BY <1>a, <1>c DEF IInv, LabelsOK
<1>3. Refs'
  <2>1. ASSUME NEW u \in Tabs PROVE TabRefs(u)'
    <3>1. TabRefs(u) /\ save'[u].at = save[u].at /\ save'[u].sid = save[u].sid /\ save'[u].said = save[u].said
      BY <1>b DEF IInv, Refs, SaveIs
    <3>2. CASE u # t
      BY <1>a, <1>c, <3>1, <3>2 DEF QueryTypeOK, client, server, Refs, TabRefs, SessionRefs, Of,
           Active, InTransaction
    <3>3. CASE u = t
      BY <1>a, <1>c, <3>1, <3>3, QueryAssumption DEF QueryTypeOK, client, server, Refs, TabRefs,
           SessionRefs, Of, Active, InTransaction
    <3> QED
      BY <3>2, <3>3
  <2> QED
    BY <1>a, <2>1 DEF IInv, Refs, SessionRefs, QueryTypeOK, client, server
<1>4. Locks'
  <2>1. \A u \in Tabs, s \in Sids : (Runs(u, s)' <=> Runs(u, s)) /\ (Saves(u, s)' <=> Saves(u, s))
    <3>1. ASSUME NEW u \in Tabs PROVE save'[u].at = save[u].at /\ save'[u].sid = save[u].sid
      BY <1>b DEF SaveIs
    <3> QED
      BY <1>a, <1>c, <3>1 DEF Runs, Saves, Holding
  <2> QED
    BY <1>a, <1>c, <2>1 DEF IInv, Locks, server
<1>5. One'
  <2> SUFFICES ASSUME NEW u \in Tabs PROVE OneOf(u)'
    BY DEF One
  <2>1. CASE u # t
    BY <1>a, <1>c, <2>1 DEF IInv, QueryTypeOK, client, server, One, OneOf, Registered, Active
  <2>2. CASE u = t
    BY <1>a, <1>c, <2>2, StartsOnItsSession DEF server
  <2> QED
    BY <2>1, <2>2
<1>6. SessionHasItsTab'
  BY <1>a, <1>c, QueryAssumption DEF IInv, QueryTypeOK, client, server, SessionHasItsTab, Refs,
       TabRefs, SessionRefs, Of, One, OneOf, Registered, Active
<1>7. Truth'
  <2> SUFFICES ASSUME NEW u \in Tabs PROVE Told(u)'
    BY DEF Truth
  <2>1. \A s \in Sids : Left(u, s) => Left(u, s)'
    BY <1>a, <1>c, QueryAssumption DEF QueryTypeOK, client, server, Left, Active
  <2>2. /\ save'[u].at = save[u].at /\ save'[u].sid = save[u].sid /\ save'[u].said = save[u].said
        /\ (save'[u].own <=> save[u].own) /\ save'[u].before = save[u].before /\ save'[u].row = save[u].row
    BY <1>b DEF SaveIs
  <2> QED
    BY <1>a, <2>1, <2>2 DEF IInv, server, Truth, Told, Of
<1>8. Once'
  <2> SUFFICES ASSUME NEW u \in Tabs, ~save'[u].overlap PROVE OnceOf(u)'
    BY DEF Once
  <2>1. QueryTypeOK /\ OnceOf(u) /\ (save[u].at = "rows" => Of(save[u].sid, u))
    BY <1>b DEF IInv, Once, Refs, TabRefs, SaveIs
  <2>2. CASE u # t
    BY <1>a, <1>b, <1>c, OnceKept, <2>1, <2>2 DEF QueryTypeOK, client, server, Of, SaveIs
  <2>3. CASE u = t
    <3>1. save[t].at = "idle" /\ save'[t].at = "idle" /\ save'[t].said = save[t].said /\ Blocked(t)'
      BY <1>b, <1>c, <2>3 DEF SaveIs, Blocked
    <3> QED
      BY <1>a, <2>1, <2>3, <3>1 DEF QueryTypeOK, client, server, OnceOf, MaySave, Of
  <2> QED
    BY <2>2, <2>3
<1>9. Shown'
  <2> SUFFICES ASSUME NEW u \in Tabs PROVE ShownOf(u)'
    BY DEF Shown
  <2>1. CASE u # t
    BY <1>a, <1>b, <1>c, <2>1 DEF IInv, QueryTypeOK, client, server, SaveIs, Shown, ShownOf, Open,
         Registered, Due, Looks, SavesOwn, Saves, Shows, InTransaction, Refs, TabRefs, Of, Active,
         Locks, Runs, Holding, One, OneOf, LabelsOK, Answers, Labels
  <2>2. CASE u = t
    BY <1>a, <1>b, <1>c, <2>2 DEF IInv, QueryTypeOK, client, server, SaveIs, Shown, ShownOf, Open,
         Registered, Due, Looks, SavesOwn, Saves, Shows, InTransaction, Refs, TabRefs, Of, Active,
         Locks, Runs, Holding, One, OneOf, LabelsOK, Answers, Labels
  <2> QED
    BY <2>1, <2>2
<1>10. Untouched'
  <2>1. \A u \in Tabs : save'[u].at = save[u].at
    BY <1>b DEF SaveIs
  <2> QED
    BY <1>a, <2>1 DEF IInv, QueryTypeOK, client, server, Untouched, Clean, Of
<1> QED
  BY <1>1, <1>2, <1>3, <1>4, <1>5, <1>6, <1>7, <1>8, <1>9, <1>10 DEF IInv

LEMMA OpenedSafe ==
    ASSUME IInv, NEW t \in Tabs, Opened(t)
    PROVE  IInv'
<1> DEFINE taken == /\ tab[t] = "open" /\ ref' = [ref EXCEPT ![t] = opening[t]] /\ closes' = closes
                    /\ RunIs(t, "sent", opening[t], exec[t].label)
           closed == /\ tab[t] # "open" /\ closes' = closes \union {opening[t]} /\ ref' = ref
                     /\ RunIs(t, "idle", None, "none")
<1>a. /\ QueryTypeOK /\ TabRefs(t) /\ opening[t] \in Sids /\ opening' = [opening EXCEPT ![t] = "none"]
      /\ UNCHANGED <<tab, tx, gridEdits, save, server, cancels, authed, losses, requested>>
  BY DEF IInv, Refs, Opened
<1>b. /\ exec[t].at = "opening" /\ ref[t] = None /\ Of(opening[t], t) /\ opening[t] # None
      /\ txs[opening[t]] \notin InTransaction
  BY <1>a, QueryAssumption DEF TabRefs
<1>c. taken \/ closed
  BY <1>a, RunOpened, RunEnds DEF Opened, QueryTypeOK
<1>d. /\ exec' \in [Tabs -> RunCalls] /\ ref' \in [Tabs -> Sids \union {None}]
      /\ \A u \in Tabs : u # t => exec'[u] = exec[u] /\ ref'[u] = ref[u]
      /\ \A u \in Tabs : u # t => opening'[u] = opening[u]
      /\ opening'[t] = "none" /\ closes' \subseteq closes \union {opening[t]} /\ closes \subseteq closes'
  BY <1>a, <1>c DEF RunIs, QueryTypeOK
<1>e. \/ /\ tab[t] = "open" /\ ref'[t] = opening[t] /\ closes' = closes
         /\ exec'[t].at = "sent" /\ exec'[t].sid = opening[t]
      \/ tab[t] # "open" /\ opening[t] \in closes' /\ ref'[t] = None /\ exec'[t].at = "idle"
  BY <1>a, <1>b, <1>c DEF RunIs, QueryTypeOK
<1> HIDE DEF taken, closed
<1>1. QueryTypeOK'
  BY <1>a, <1>d DEF QueryTypeOK, client, server
<1>2. LabelsOK'
  BY <1>a, <1>d, <1>e DEF IInv, LabelsOK
<1>3. Refs'
  <2>1. ASSUME NEW u \in Tabs PROVE TabRefs(u)'
    <3>1. TabRefs(u)
      BY DEF IInv, Refs
    <3>2. CASE u # t
      BY <1>a, <1>d, <3>1, <3>2 DEF QueryTypeOK, client, server, Refs, TabRefs, SessionRefs, Of,
           Active, InTransaction
    <3>3. CASE u = t
      BY <1>a, <1>b, <1>d, <1>e, <3>3, QueryAssumption DEF QueryTypeOK, client, server, Refs,
           TabRefs, SessionRefs, Of, Active, InTransaction
    <3> QED
      BY <3>2, <3>3
  <2>2. tab[t] = "absent" => exec[t].at # "opening"
    BY <1>a DEF TabRefs
  <2>3. ASSUME NEW s \in Sids PROVE SessionRefs(s)'
    BY <1>a, <1>b, <1>d, <1>e, <2>2 DEF IInv, QueryTypeOK, client, server, Refs, TabRefs,
         SessionRefs, Of, Active, InTransaction
  <2> QED
    BY <2>1, <2>3 DEF Refs
<1>4. Locks'
  <2>1. \A u \in Tabs, s \in Sids : (Runs(u, s)' <=> Runs(u, s)) /\ (Saves(u, s)' <=> Saves(u, s))
    BY <1>a, <1>b, <1>d, <1>e DEF Runs, Saves, Holding
  <2> QED
    BY <1>a, <1>b, <1>d, <1>e, <2>1 DEF IInv, Locks, server
<1>5. One'
  <2> SUFFICES ASSUME NEW u \in Tabs PROVE OneOf(u)'
    BY DEF One
  <2>1. CASE u # t
    BY <1>a, <1>d, <2>1 DEF IInv, QueryTypeOK, client, server, One, OneOf, Registered, Active
  <2>2. CASE u = t
    BY <1>a, <1>b, <1>e, <2>2 DEF IInv, QueryTypeOK, client, server, One, OneOf, Registered, Active
  <2> QED
    BY <2>1, <2>2
<1>6. SessionHasItsTab'
  BY <1>a, <1>b, <1>d, <1>e, QueryAssumption DEF IInv, QueryTypeOK, client, server,
       SessionHasItsTab, Refs, TabRefs, SessionRefs, Of, One, OneOf, Registered, Active
<1>7. Truth'
  <2> SUFFICES ASSUME NEW u \in Tabs PROVE Told(u)'
    BY DEF Truth
  <2>1. \A s \in Sids : Of(s, u) => pend[s] = Nothing \/ (Left(u, s) => Left(u, s)')
    BY <1>a, <1>b, <1>d, <1>e, QueryAssumption DEF QueryTypeOK, client, server, Left, Active
  <2> QED
    BY <1>a, <2>1 DEF IInv, server, Truth, Told, Of
<1>8. Once'
  <2> SUFFICES ASSUME NEW u \in Tabs, ~save[u].overlap PROVE OnceOf(u)'
    BY <1>a DEF Once
  <2>1. QueryTypeOK /\ OnceOf(u) /\ (save[u].at = "rows" => Of(save[u].sid, u))
    BY DEF IInv, Once, Refs, TabRefs
  <2>2. CASE u # t
    BY <1>a, <1>d, OnceKept, <2>1, <2>2 DEF QueryTypeOK, client, server, Of
  <2>3. CASE u = t
    <3>1. save[t].at = "idle" /\ (tab[t] # "open" => gridEdits[t] = "gone")
      BY <1>a, <1>b, <2>1, <2>3 DEF OnceOf, TabRefs, QueryTypeOK
    <3>2. MaySave(t)' => Blocked(t)'
      BY <1>a, <1>e, <3>1 DEF MaySave, Blocked
    <3> QED
      BY <1>a, <2>1, <2>3, <3>1, <3>2 DEF QueryTypeOK, client, server, OnceOf, MaySave, Of
  <2> QED
    BY <2>2, <2>3
<1>9. Shown'
  <2> SUFFICES ASSUME NEW u \in Tabs PROVE ShownOf(u)'
    BY DEF Shown
  <2>1. CASE u # t
    BY <1>a, <1>d, <2>1 DEF IInv, QueryTypeOK, client, server, Shown, ShownOf, Open, Registered,
         Due, Looks, SavesOwn, Saves, Shows, InTransaction, Refs, TabRefs, Of, Active, Locks, Runs,
         Holding, One, OneOf, LabelsOK, Answers, Labels
  <2>2. CASE u = t
    BY <1>a, <1>b, <1>d, <1>e, <2>2, QueryAssumption DEF ShownOf, Open, Registered, InTransaction, server
  <2> QED
    BY <2>1, <2>2
<1>10. Untouched'
  BY <1>a DEF IInv, QueryTypeOK, client, server, Untouched, Clean, Of
<1> QED
  BY <1>1, <1>2, <1>3, <1>4, <1>5, <1>6, <1>7, <1>8, <1>9, <1>10 DEF IInv

LEMMA OpenFailedSafe ==
    ASSUME IInv, NEW t \in Tabs, OpenFailed(t)
    PROVE  IInv'
<1>a. /\ QueryTypeOK /\ TabRefs(t) /\ opening[t] = "error" /\ opening' = [opening EXCEPT ![t] = "none"]
      /\ RunIs(t, "idle", None, "none")
      /\ gridEdits' = IF tab[t] = "open" THEN [gridEdits EXCEPT ![t] = IF @ = "none" THEN @ ELSE "gone"]
                                         ELSE gridEdits
      /\ UNCHANGED <<tab, ref, tx, save, server, closes, cancels, authed, losses, requested>>
  BY RunEnds DEF IInv, Refs, OpenFailed, QueryTypeOK
<1>b. exec[t].at = "opening" /\ ref[t] = None /\ exec'[t].at = "idle" /\ opening'[t] = "none"
  BY <1>a DEF TabRefs, RunIs, QueryTypeOK
<1>c. /\ exec' \in [Tabs -> RunCalls] /\ gridEdits' \in [Tabs -> {"none", "editable", "pending", "gone"}]
      /\ gridEdits'[t] \in {"none", "gone"} /\ (gridEdits'[t] = "none" => gridEdits[t] = "none")
      /\ \A u \in Tabs : u # t => exec'[u] = exec[u] /\ opening'[u] = opening[u] /\ gridEdits'[u] = gridEdits[u]
  BY <1>a, <1>b DEF RunIs, QueryTypeOK, TabRefs
<1>1. QueryTypeOK'
  BY <1>a, <1>c DEF QueryTypeOK, client, server
<1>2. LabelsOK'
  BY <1>a, <1>b, <1>c DEF IInv, LabelsOK
<1>3. Refs'
  <2>1. ASSUME NEW u \in Tabs PROVE TabRefs(u)'
    <3>1. TabRefs(u)
      BY DEF IInv, Refs
    <3>2. CASE u # t
      BY <1>a, <1>c, <3>1, <3>2 DEF QueryTypeOK, client, server, Refs, TabRefs, SessionRefs, Of,
           Active, InTransaction
    <3>3. CASE u = t
      BY <1>a, <1>b, <1>c, <3>1, <3>3, QueryAssumption DEF QueryTypeOK, client, server, Refs,
           TabRefs, SessionRefs, Of, Active, InTransaction
    <3> QED
      BY <3>2, <3>3
  <2> QED
    BY <1>a, <2>1 DEF IInv, Refs, SessionRefs, server
<1>4. Locks'
  <2>1. \A u \in Tabs, s \in Sids : (Runs(u, s)' <=> Runs(u, s)) /\ (Saves(u, s)' <=> Saves(u, s))
    BY <1>a, <1>b, <1>c DEF Runs, Saves, Holding
  <2> QED
    BY <1>a, <1>b, <1>c, <2>1 DEF IInv, Locks, server
<1>5. One'
  <2> SUFFICES ASSUME NEW u \in Tabs PROVE OneOf(u)'
    BY DEF One
  <2>1. CASE u # t
    BY <1>a, <1>c, <2>1 DEF IInv, QueryTypeOK, client, server, One, OneOf, Registered, Active
  <2>2. CASE u = t
    BY <1>b, <2>2 DEF OneOf, Active
  <2> QED
    BY <2>1, <2>2
<1>6. SessionHasItsTab'
  BY <1>a, <1>b, <1>c, QueryAssumption DEF IInv, QueryTypeOK, client, server, SessionHasItsTab,
       Refs, TabRefs, SessionRefs, Of, One, OneOf, Registered, Active
<1>7. Truth'
  <2> SUFFICES ASSUME NEW u \in Tabs PROVE Told(u)'
    BY DEF Truth
  <2>1. \A s \in Sids : Of(s, u) /\ Left(u, s) => Left(u, s)'
    BY <1>a, <1>b, <1>c, QueryAssumption DEF QueryTypeOK, client, server, Left, Active
  <2> QED
    BY <1>a, <2>1 DEF IInv, server, Truth, Told, Of
<1>8. Once'
  <2> SUFFICES ASSUME NEW u \in Tabs, ~save[u].overlap PROVE OnceOf(u)'
    BY <1>a DEF Once
  <2>1. QueryTypeOK /\ OnceOf(u) /\ (save[u].at = "rows" => Of(save[u].sid, u))
    BY DEF IInv, Once, Refs, TabRefs
  <2>2. CASE u # t
    BY <1>a, <1>c, OnceKept, <2>1, <2>2 DEF QueryTypeOK, client, server, Of
  <2>3. CASE u = t
    <3>1. save[t].at = "idle"
      BY <1>b, <2>1, <2>3 DEF OnceOf
    <3>2. MaySave(t)' => Clean(t)
      BY <1>a, <1>c, <3>1 DEF IInv, MaySave, Untouched
    <3>3. Clean(t) => Clean(t)'
      BY <1>a DEF Clean, server, Of
    <3> QED
      BY <1>a, <2>1, <2>3, <3>1, <3>2, <3>3 DEF QueryTypeOK, client, server, OnceOf, MaySave, Of
  <2> QED
    BY <2>2, <2>3
<1>9. Shown'
  <2> SUFFICES ASSUME NEW u \in Tabs PROVE ShownOf(u)'
    BY DEF Shown
  <2>1. CASE u # t
    BY <1>a, <1>c, <2>1 DEF IInv, QueryTypeOK, client, server, Shown, ShownOf, Open, Registered,
         Due, Looks, SavesOwn, Saves, Shows, InTransaction, Refs, TabRefs, Of, Active, Locks, Runs,
         Holding, One, OneOf, LabelsOK, Answers, Labels
  <2>2. CASE u = t
    BY <1>a, <1>b, <2>2, QueryAssumption DEF ShownOf
  <2> QED
    BY <2>1, <2>2
<1>10. Untouched'
  BY <1>a, <1>c DEF IInv, QueryTypeOK, client, server, Untouched, Clean, Of
<1> QED
  BY <1>1, <1>2, <1>3, <1>4, <1>5, <1>6, <1>7, <1>8, <1>9, <1>10 DEF IInv

LEMMA AnsweredSafe ==
    ASSUME IInv, NEW t \in Tabs, Answered(t)
    PROVE  IInv'
<1> DEFINE e == exec[t]
<1>a. /\ QueryTypeOK /\ TabRefs(t) /\ OneOf(t) /\ e.at = "answer" /\ e.label \in Answers
      /\ UNCHANGED <<tab, save, server, closes, cancels, authed, losses, requested>>
  BY DEF IInv, Refs, One, LabelsOK, Answered
<1>b. Of(e.sid, t) /\ e.sid \in Sids /\ opening[t] = "none" /\ ref[t] \in {None, e.sid}
  BY <1>a DEF TabRefs, Active, Of
<1>c. \/ /\ e.label = "notfound" /\ ref' = [ref EXCEPT ![t] = None]
         /\ RunIs(t, "opening", e.sid, e.label)
         /\ opening' = [opening EXCEPT ![t] = "dialing"] /\ tx' = tx /\ gridEdits' = gridEdits
      \/ /\ RunIs(t, "idle", None, "none") /\ ref' = ref /\ opening' = opening
         /\ \/ /\ tab[t] = "open"
               /\ tx' = IF e.label \in Labels THEN [tx EXCEPT ![t] = e.label] ELSE tx
               /\ gridEdits' = [gridEdits EXCEPT ![t] =
                                  IF @ # "none" THEN "gone"
                                  ELSE IF e.stmt = "select" /\ e.label \in {"idle", "transaction"} THEN "editable"
                                  ELSE @]
            \/ tab[t] # "open" /\ tx' = tx /\ gridEdits' = gridEdits
  <2>0. exec \in [Tabs -> RunCalls]
    BY <1>a DEF QueryTypeOK
  <2>1. CASE e.label = "notfound" /\ ~e.retried
    BY <2>0, <2>1, RunRetries DEF Answered
  <2>2. CASE ~(e.label = "notfound" /\ ~e.retried)
    <3>1. exec' = [exec EXCEPT ![t] = Idle]
      BY <2>2 DEF Answered
    <3>2. RunIs(t, "idle", None, "none")
      BY <2>0, <3>1, RunEnds
    <3> QED
      BY <2>2, <3>2 DEF Answered
  <2> QED
    BY <2>1, <2>2
<1>d. /\ exec' \in [Tabs -> RunCalls] /\ \A u \in Tabs : u # t => exec'[u] = exec[u]
  BY <1>c DEF RunIs
<1>e. /\ ref' \in [Tabs -> Sids \union {None}] /\ tx' \in [Tabs -> Labels]
      /\ gridEdits' \in [Tabs -> {"none", "editable", "pending", "gone"}]
      /\ opening' \in [Tabs -> Sids \union {"none", "dialing", "error"}]
      /\ \A u \in Tabs : u # t => /\ ref'[u] = ref[u] /\ tx'[u] = tx[u] /\ gridEdits'[u] = gridEdits[u]
                                  /\ opening'[u] = opening[u]
  <2>1. /\ ref \in [Tabs -> Sids \union {None}] /\ tx \in [Tabs -> Labels]
        /\ gridEdits \in [Tabs -> {"none", "editable", "pending", "gone"}]
        /\ opening \in [Tabs -> Sids \union {"none", "dialing", "error"}]
    BY <1>a DEF QueryTypeOK
  <2> QED
    BY <1>c, <2>1
<1>f. gridEdits'[t] = gridEdits[t] \/ (gridEdits[t] = "none" /\ gridEdits'[t] = "editable") \/ gridEdits'[t] = "gone"
  BY <1>a, <1>c DEF QueryTypeOK
<1>g. \/ /\ e.label = "notfound" /\ ref'[t] = None /\ exec'[t].at = "opening" /\ opening'[t] = "dialing"
         /\ gridEdits'[t] = gridEdits[t]
      \/ /\ exec'[t].at = "idle" /\ opening'[t] = "none" /\ ref'[t] = ref[t]
         /\ tab[t] = "open" => /\ tx'[t] = IF e.label \in Labels THEN e.label ELSE tx[t]
                               /\ gridEdits[t] # "none" => gridEdits'[t] = "gone"
         /\ tab[t] # "open" => gridEdits'[t] = gridEdits[t]
  BY <1>a, <1>b, <1>c DEF RunIs, QueryTypeOK
<1>1. QueryTypeOK'
  BY <1>a, <1>d, <1>e DEF QueryTypeOK, client, server
<1>2. LabelsOK'
  BY <1>d, <1>g DEF IInv, LabelsOK
<1>3. Refs'
  <2>1. ASSUME NEW u \in Tabs PROVE TabRefs(u)'
    <3>1. TabRefs(u)
      BY DEF IInv, Refs
    <3>2. CASE u # t
      BY <1>a, <1>d, <1>e, <3>1, <3>2 DEF server, Refs, TabRefs, SessionRefs, Of, Active,
           InTransaction
    <3>3. CASE u = t
      BY <1>a, <1>b, <1>f, <1>g, <3>1, <3>3, QueryAssumption DEF server, Refs, TabRefs, SessionRefs,
           Of, Active, InTransaction
    <3> QED
      BY <3>2, <3>3
  <2> QED
    BY <1>a, <2>1 DEF IInv, Refs, SessionRefs, server
<1>4. Locks'
  <2>1. \A u \in Tabs, r \in Sids : (Runs(u, r)' <=> Runs(u, r)) /\ (Saves(u, r)' <=> Saves(u, r))
    BY <1>a, <1>d, <1>g DEF Runs, Saves, Holding
  <2> QED
    BY <1>a, <1>d, <1>g, <2>1 DEF IInv, Locks, server
<1>5. One'
  <2> SUFFICES ASSUME NEW u \in Tabs PROVE OneOf(u)'
    BY DEF One
  <2>1. CASE u # t
    BY <1>a, <1>d, <1>e, <2>1 DEF IInv, server, One, OneOf, Registered, Active
  <2>2. CASE u = t
    BY <1>a, <1>g, <2>2 DEF server, OneOf, Registered, Active
  <2> QED
    BY <2>1, <2>2
<1>6. SessionHasItsTab'
  <2>1. ASSUME NEW s \in Sids, authed, sess[s] = "registered"
        PROVE  s \in closes \/ opening'[owner[s]] = s \/ (tab[owner[s]] = "open" /\ ref'[owner[s]] = s)
    <3>1. owner[s] \in Tabs /\ (s \in closes \/ opening[owner[s]] = s \/ (tab[owner[s]] = "open" /\ ref[owner[s]] = s))
      BY <2>1 DEF IInv, SessionHasItsTab, Refs, SessionRefs
    <3>2. CASE owner[s] # t
      BY <1>e, <3>1, <3>2
    <3>3. CASE owner[s] = t
      <4>1. s = e.sid /\ e.label # "notfound" /\ opening[t] # s
        BY <1>a, <1>b, <2>1, <3>3, QueryAssumption DEF OneOf, Active, Registered
      <4> QED
        BY <1>g, <3>1, <3>3, <4>1
    <3> QED
      BY <3>2, <3>3
  <2> QED
    BY <1>a, <2>1 DEF server, SessionHasItsTab
<1>7. Truth'
  <2> SUFFICES ASSUME NEW u \in Tabs PROVE Told(u)'
    BY DEF Truth
  <2>1. \A r \in Sids : Of(r, u) /\ Left(u, r) => Left(u, r)'
    BY <1>a, <1>d, <1>e, <1>g, QueryAssumption DEF server, Left, Active
  <2> QED
    BY <1>a, <2>1 DEF IInv, server, Truth, Told, Of
<1>8. Once'
  <2> SUFFICES ASSUME NEW u \in Tabs, ~save[u].overlap PROVE OnceOf(u)'
    BY <1>a DEF Once
  <2>1. QueryTypeOK /\ OnceOf(u) /\ (save[u].at = "rows" => Of(save[u].sid, u))
    BY DEF IInv, Once, Refs, TabRefs
  <2>2. CASE u # t
    BY <1>a, <1>d, <1>e, OnceKept, <2>1, <2>2 DEF server, Of
  <2>3. CASE u = t
    <3>1. save[t].at = "idle"
      BY <1>a, <2>1, <2>3 DEF OnceOf
    <3>2. CASE exec'[t].at = "opening"
      <4>1. Blocked(t)'
        BY <3>2 DEF Blocked
      <4> QED
        BY <1>a, <2>1, <2>3, <3>1, <4>1 DEF server, OnceOf, Of
    <3>3. CASE exec'[t].at = "idle"
      <4>1. gridEdits'[t] = "gone" \/ gridEdits[t] \in {"none", "editable"}
        BY <1>a, <1>f, <1>g, <3>3 DEF TabRefs, QueryTypeOK
      <4>2. MaySave(t)' => Clean(t)
        BY <1>a, <3>1, <4>1 DEF IInv, Untouched, MaySave
      <4>3. Clean(t) => Clean(t)'
        BY <1>a DEF Clean, server, Of
      <4> QED
        BY <1>a, <2>1, <2>3, <3>1, <4>2, <4>3 DEF server, OnceOf, Of
    <3> QED
      BY <1>g, <3>2, <3>3
  <2> QED
    BY <2>2, <2>3
<1>9. Shown'
  <2> SUFFICES ASSUME NEW u \in Tabs PROVE ShownOf(u)'
    BY DEF Shown
  <2>1. CASE u # t
    BY <1>a, <1>d, <1>e, <2>1 DEF IInv, server, Shown, ShownOf, Open, Registered, Due, Looks,
         SavesOwn, Saves, Shows, InTransaction, Refs, TabRefs, Of, Active, Locks, Runs, Holding,
         One, OneOf, LabelsOK, Answers, Labels
  <2>2. CASE u = t
    <3> SUFFICES ASSUME NEW s \in Sids, Open(t, s)', ref'[t] = s
                 PROVE  tx'[t] \in Shows \/ SavesOwn(t, s)'
      BY <1>g, <2>2 DEF ShownOf
    <3>1. s = e.sid /\ tab[t] = "open" /\ Open(t, s) /\ e.label # "notfound" /\ ref[t] = s
      BY <1>a, <1>b, <1>g, QueryAssumption DEF OneOf, server, Open, Registered, TabRefs
    <3>2. tx'[t] = IF e.label \in Labels THEN e.label ELSE tx[t]
      BY <1>g, <3>1
    <3>3. /\ tx[t] \in Shows \/ e.label \in Shows \/ SavesOwn(t, s)
          /\ e.label \in {"idle", "closed"} => SavesOwn(t, s)
      BY <1>a, <3>1 DEF IInv, Shown, ShownOf, Looks, Holding, Due
    <3>4. e.label \in Labels => e.label \in Shows \union {"idle", "closed"}
      BY <1>a DEF Answers, Labels, Shows
    <3>5. e.label \in Shows => e.label \in Labels
      BY DEF Labels, Shows
    <3>6. SavesOwn(t, s)' <=> SavesOwn(t, s)
      BY <1>a DEF SavesOwn, Saves
    <3> QED
      BY <3>2, <3>3, <3>4, <3>5, <3>6
  <2> QED
    BY <2>1, <2>2
<1>10. Untouched'
  <2>1. \A u \in Tabs : gridEdits'[u] \in {"none", "editable"} => gridEdits[u] \in {"none", "editable"}
    BY <1>e, <1>f
  <2> QED
    BY <1>a, <2>1 DEF IInv, server, Untouched, Clean, Of
<1> QED
  BY <1>1, <1>2, <1>3, <1>4, <1>5, <1>6, <1>7, <1>8, <1>9, <1>10 DEF IInv

LEMMA CancelSafe ==
    ASSUME IInv, NEW t \in Tabs, Cancel(t)
    PROVE  IInv'
<1>1. QueryTypeOK'
  BY QueryAssumption DEF IInv, Cancel, QueryTypeOK, client, server, Nothing, Refs,
       TabRefs, SessionRefs, Of, Active, InTransaction
<1>2. LabelsOK'
  BY QueryAssumption DEF IInv, Cancel, QueryTypeOK, client, server, LabelsOK, Answers
<1>3. Refs'
  BY QueryAssumption DEF IInv, Cancel, QueryTypeOK, client, server, Refs, TabRefs,
       SessionRefs, Of, Active, InTransaction
<1>4. Locks'
  BY QueryAssumption DEF IInv, Cancel, QueryTypeOK, client, server, Locks, Runs, Saves,
       Holding, Refs, TabRefs, Of, Active
<1>5. One'
  BY QueryAssumption DEF IInv, Cancel, QueryTypeOK, client, server, One, OneOf,
       Registered, Active, Refs, TabRefs, SessionRefs, Of, SessionHasItsTab
<1>6. SessionHasItsTab'
  BY QueryAssumption DEF IInv, Cancel, QueryTypeOK, client, server, SessionHasItsTab,
       Refs, TabRefs, SessionRefs, Of, One, OneOf, Registered, Active
<1>7. Truth'
  BY QueryAssumption DEF IInv, Cancel, QueryTypeOK, client, server, Truth, Told, Left, Of,
       Refs, TabRefs, SessionRefs, Active, One, OneOf, Registered, Locks, Runs, Saves, Holding,
       SessionHasItsTab, CommitPending, Nothing
<1>8. Once'
  <2> SUFFICES ASSUME NEW u \in Tabs, ~save[u].overlap PROVE OnceOf(u)'
    BY DEF Once, Cancel
  <2>1. /\ QueryTypeOK /\ OnceOf(u) /\ (save[u].at = "rows" => Of(save[u].sid, u))
        /\ tab[u] = "absent" => save[u].at = "idle"
    BY DEF IInv, Once, Refs, TabRefs
  <2> QED
    BY OnceKept, <2>1 DEF Cancel, QueryTypeOK, client, server, Of
<1>9. Shown'
  BY QueryAssumption DEF IInv, Cancel, QueryTypeOK, client, server, Shown, ShownOf, Open,
       Registered, Due, Looks, SavesOwn, Saves, Shows, InTransaction, Refs, TabRefs, Of, Active,
       Locks, Runs, Holding, One, OneOf, LabelsOK, Answers, Labels
<1>10. Untouched'
  BY QueryAssumption DEF IInv, Cancel, QueryTypeOK, client, server, Untouched, Clean, Of,
       InsertRows, Rows, Nothing, SessionRefs, Refs
<1> QED
  BY <1>1, <1>2, <1>3, <1>4, <1>5, <1>6, <1>7, <1>8, <1>9, <1>10 DEF IInv

LEMMA EditGridSafe ==
    ASSUME IInv, NEW t \in Tabs, EditGrid(t)
    PROVE  IInv'
<1>1. QueryTypeOK'
  BY QueryAssumption DEF IInv, EditGrid, QueryTypeOK, client, server, Nothing, Refs,
       TabRefs, SessionRefs, Of, Active, InTransaction
<1>2. LabelsOK'
  BY QueryAssumption DEF IInv, EditGrid, QueryTypeOK, client, server, LabelsOK, Answers
<1>3. Refs'
  BY QueryAssumption DEF IInv, EditGrid, QueryTypeOK, client, server, Refs, TabRefs,
       SessionRefs, Of, Active, InTransaction
<1>4. Locks'
  BY QueryAssumption DEF IInv, EditGrid, QueryTypeOK, client, server, Locks, Runs, Saves,
       Holding, Refs, TabRefs, Of, Active
<1>5. One'
  BY QueryAssumption DEF IInv, EditGrid, QueryTypeOK, client, server, One, OneOf,
       Registered, Active, Refs, TabRefs, SessionRefs, Of, SessionHasItsTab
<1>6. SessionHasItsTab'
  BY QueryAssumption DEF IInv, EditGrid, QueryTypeOK, client, server, SessionHasItsTab,
       Refs, TabRefs, SessionRefs, Of, One, OneOf, Registered, Active
<1>7. Truth'
  BY QueryAssumption DEF IInv, EditGrid, QueryTypeOK, client, server, Truth, Told, Left,
       Of, Refs, TabRefs, SessionRefs, Active, One, OneOf, Registered, Locks, Runs, Saves, Holding,
       SessionHasItsTab, CommitPending, Nothing
<1>8. Once'
  <2> SUFFICES ASSUME NEW u \in Tabs, ~save[u].overlap PROVE OnceOf(u)'
    BY DEF Once, EditGrid
  <2>1. QueryTypeOK /\ OnceOf(u) /\ (save[u].at = "rows" => Of(save[u].sid, u))
    BY DEF IInv, Once, Refs, TabRefs
  <2>2. CASE u # t
    BY OnceKept, <2>1, <2>2 DEF EditGrid, QueryTypeOK, client, server, Of
  <2>3. CASE u = t
    <3>1. MaySave(t)' => MaySave(t)
      BY DEF EditGrid, MaySave
    <3>2. (Clean(t) => Clean(t)') /\ (Blocked(t) => Blocked(t)')
      BY DEF EditGrid, server, Clean, Blocked, Of
    <3> QED
      BY <2>1, <2>3, <3>1, <3>2 DEF EditGrid, server, OnceOf, Of
  <2> QED
    BY <2>2, <2>3
<1>9. Shown'
  BY QueryAssumption DEF IInv, EditGrid, QueryTypeOK, client, server, Shown, ShownOf,
       Open, Registered, Due, Looks, SavesOwn, Saves, Shows, InTransaction, Refs, TabRefs, Of,
       Active, Locks, Runs, Holding, One, OneOf, LabelsOK, Answers, Labels
<1>10. Untouched'
  BY QueryAssumption DEF IInv, EditGrid, QueryTypeOK, client, server, Untouched, Clean,
       Of, InsertRows, Rows, Nothing, SessionRefs, Refs
<1> QED
  BY <1>1, <1>2, <1>3, <1>4, <1>5, <1>6, <1>7, <1>8, <1>9, <1>10 DEF IInv

LEMMA SaveChangesSafe ==
    ASSUME IInv, NEW t \in Tabs, SaveChanges(t)
    PROVE  IInv'
<1>a. /\ QueryTypeOK /\ TabRefs(t) /\ tab[t] = "open" /\ authed /\ gridEdits[t] = "pending"
      /\ save[t].at = "idle" /\ ref[t] # None
      /\ UNCHANGED <<tab, ref, tx, gridEdits, opening, exec, server, closes, cancels, authed, losses, requested>>
  BY DEF IInv, Refs, SaveChanges
<1>b. Of(ref[t], t) /\ ref[t] \in Sids /\ opening[t] = "none" /\ save[t].said \notin {"committed", "uncommitted"}
  BY <1>a DEF TabRefs, Of
<1>c. SaveIs(t, "sent", 0, ref[t], FALSE, save[t].overlap \/ exec[t].at # "idle", "none", Nothing)
  <2> DEFINE both == save[t].overlap \/ exec[t].at # "idle"
  <2>1. both \in BOOLEAN
    OBVIOUS
  <2>2. save' = [save EXCEPT ![t] = [NoSave EXCEPT !.at = "sent", !.sid = ref[t], !.overlap = both]]
    BY DEF SaveChanges
  <2>3. save \in [Tabs -> SaveCalls]
    BY <1>a DEF QueryTypeOK
  <2> HIDE DEF both
  <2>4. SaveIs(t, "sent", 0, ref[t], FALSE, both, "none", Nothing)
    BY <1>b, <2>1, <2>2, <2>3, SaveAsked
  <2> QED
    BY <2>4 DEF both
<1>d. /\ save' \in [Tabs -> SaveCalls] /\ \A u \in Tabs : u # t => save'[u] = save[u]
      /\ save'[t].at = "sent" /\ save'[t].sid = ref[t] /\ ~save'[t].own /\ save'[t].said = "none"
      /\ save'[t].overlap <=> save[t].overlap \/ exec[t].at # "idle"
  BY <1>c DEF SaveIs
<1>1. QueryTypeOK'
  BY <1>a, <1>d DEF QueryTypeOK, client, server
<1>2. LabelsOK'
  BY <1>a DEF IInv, LabelsOK
<1>3. Refs'
  <2>1. ASSUME NEW u \in Tabs PROVE TabRefs(u)'
    <3>1. TabRefs(u)
      BY DEF IInv, Refs
    <3>2. CASE u # t
      BY <1>a, <1>d, <3>1, <3>2 DEF server, Refs, TabRefs, SessionRefs, Of, Active, InTransaction
    <3>3. CASE u = t
      BY <1>a, <1>b, <1>d, <3>1, <3>3, QueryAssumption DEF server, Refs, TabRefs, SessionRefs, Of,
           Active, InTransaction
    <3> QED
      BY <3>2, <3>3
  <2> QED
    BY <1>a, <2>1 DEF IInv, Refs, SessionRefs, server
<1>4. Locks'
  <2>1. \A u \in Tabs, r \in Sids : (Runs(u, r)' <=> Runs(u, r)) /\ (Saves(u, r)' <=> Saves(u, r))
    BY <1>a, <1>d DEF Runs, Saves, Holding
  <2> QED
    BY <1>a, <2>1 DEF IInv, Locks, server
<1>5. One'
  BY <1>a DEF IInv, server, One, OneOf, Registered
<1>6. SessionHasItsTab'
  BY <1>a DEF IInv, server, SessionHasItsTab
<1>7. Truth'
  <2> SUFFICES ASSUME NEW u \in Tabs PROVE Told(u)'
    BY DEF Truth
  <2>1. \A r \in Sids : Left(u, r) <=> Left(u, r)'
    BY <1>a DEF server, Left
  <2>2. CASE u # t
    BY <1>a, <1>d, <2>1, <2>2 DEF IInv, server, Truth, Told, Of
  <2>3. CASE u = t
    <3>1. \A s \in Sids : Of(s, t) /\ s # ref[t] => Left(t, s)
      <4>1. \A s \in Sids : Registered(s, t) => s \notin closes /\ s # opening[t]
        BY <1>a, <1>b, QueryAssumption DEF IInv, Refs, SessionRefs, Registered
      <4>2. \A s \in Sids : Registered(s, t) => ref[t] = s
        BY <1>a, <4>1 DEF IInv, SessionHasItsTab, Registered
      <4> QED
        BY <1>a, <1>b, <4>2, QueryAssumption DEF Left, TabRefs, Of, Registered
    <3> QED
      BY <1>a, <1>d, <2>1, <2>3, <3>1 DEF server, Told, Of
  <2> QED
    BY <2>2, <2>3
<1>8. Once'
  <2> SUFFICES ASSUME NEW u \in Tabs, ~save'[u].overlap PROVE OnceOf(u)'
    BY DEF Once
  <2>1. QueryTypeOK /\ OnceOf(u) /\ (save[u].at = "rows" => Of(save[u].sid, u))
    BY <1>d DEF IInv, Once, Refs, TabRefs
  <2>2. CASE u # t
    BY <1>a, <1>d, OnceKept, <2>1, <2>2 DEF server, Of
  <2>3. CASE u = t
    <3>1. MaySave(t) /\ exec[t].at = "idle"
      BY <1>a, <1>b, <1>d, <2>3 DEF MaySave
    <3>2. Blocked(t) => Blocked(t)'
      BY <1>a, <1>d DEF server, Blocked, Of
    <3>3. Clean(t) => Clean(t)'
      BY <1>a DEF Clean, server, Of
    <3> QED
      BY <1>a, <1>d, <2>1, <2>3, <3>1, <3>2, <3>3 DEF server, OnceOf, Of
  <2> QED
    BY <2>2, <2>3
<1>9. Shown'
  <2> SUFFICES ASSUME NEW u \in Tabs PROVE ShownOf(u)'
    BY DEF Shown
  <2>1. CASE u # t
    BY <1>a, <1>d, <2>1 DEF IInv, server, Shown, ShownOf, Open, Registered, Due, Looks, SavesOwn, Saves
  <2>2. CASE u = t
    BY <1>a, <1>d, <2>2 DEF IInv, server, Shown, ShownOf, Open, Registered, Due, Looks, SavesOwn, Saves
  <2> QED
    BY <2>1, <2>2
<1>10. Untouched'
  BY <1>a, <1>d DEF IInv, server, Untouched, Clean, Of
<1> QED
  BY <1>1, <1>2, <1>3, <1>4, <1>5, <1>6, <1>7, <1>8, <1>9, <1>10 DEF IInv

LEMMA SavedSafe ==
    ASSUME IInv, NEW t \in Tabs, Saved(t)
    PROVE  IInv'
<1> DEFINE v == save[t]
           ok == v.said \in {"committed", "uncommitted"} /\ tab[t] = "open"
<1>a. /\ QueryTypeOK /\ TabRefs(t) /\ v.at = "answer"
      /\ UNCHANGED <<tab, ref, server, closes, cancels, authed, losses, requested>>
  BY DEF IInv, Refs, Saved
<1>b. /\ save' \in [Tabs -> SaveCalls] /\ \A u \in Tabs : u # t => save'[u] = save[u]
      /\ save'[t].at = "idle" /\ save'[t].said = v.said /\ (save'[t].overlap <=> v.overlap)
      /\ v.said = "nothing" => save'[t].before = v.before
  <2> DEFINE b == IF v.said \in {"nothing", "failed"} THEN v.before ELSE Nothing
  <2>1. v \in SaveCalls /\ save \in [Tabs -> SaveCalls]
    BY <1>a DEF QueryTypeOK
  <2>2. v.said \in SaveAnswers /\ v.overlap \in BOOLEAN /\ v.before \in [Rows -> Nat] /\ Nothing \in [Rows -> Nat]
    BY <2>1 DEF SaveCalls, Nothing
  <2>3. b \in [Rows -> Nat] /\ (v.said = "nothing" => b = v.before)
    BY <2>2
  <2>4. save' = [save EXCEPT ![t] = [NoSave EXCEPT !.said = v.said, !.overlap = v.overlap, !.before = b]]
    BY DEF Saved
  <2> HIDE DEF b
  <2>5. SaveIs(t, "idle", 0, None, FALSE, v.overlap, v.said, b)
    BY <2>1, <2>2, <2>3, <2>4, SaveEnds
  <2> QED
    BY <2>3, <2>5 DEF SaveIs
<1>c. CASE ~ok
  <2>a. UNCHANGED <<tab, ref, tx, gridEdits, exec, opening, server, closes, cancels, authed, losses, requested>>
    BY <1>a, <1>c DEF Saved
  <2>1. QueryTypeOK'
    BY <1>a, <1>b, <2>a DEF QueryTypeOK, client, server
  <2>2. LabelsOK'
    BY <2>a DEF IInv, LabelsOK
  <2>3. Refs'
    <3>1. ASSUME NEW u \in Tabs PROVE TabRefs(u)'
      <4>1. TabRefs(u)
        BY DEF IInv, Refs
      <4>2. CASE u # t
        BY <1>b, <2>a, <4>1, <4>2 DEF server, Refs, TabRefs, SessionRefs, Of, Active, InTransaction
      <4>3. CASE u = t
        <5>1. tab[t] = "open" \/ tab[t] = "closed"
          BY <1>a DEF TabRefs, QueryTypeOK
        <5> QED
          BY <1>a, <1>b, <1>c, <2>a, <4>1, <4>3, <5>1 DEF server, Refs, TabRefs, SessionRefs, Of,
               Active, InTransaction
      <4> QED
        BY <4>2, <4>3
    <3> QED
      BY <2>a, <3>1 DEF IInv, Refs, SessionRefs, server
  <2>4. Locks'
    <3>1. \A u \in Tabs, r \in Sids : (Runs(u, r)' <=> Runs(u, r)) /\ (Saves(u, r)' <=> Saves(u, r))
      BY <1>a, <1>b, <2>a DEF Runs, Saves, Holding
    <3> QED
      BY <2>a, <3>1 DEF IInv, Locks, server
  <2>5. One'
    BY <2>a DEF IInv, server, One, OneOf, Registered
  <2>6. SessionHasItsTab'
    BY <2>a DEF IInv, server, SessionHasItsTab
  <2>7. Truth'
    <3> SUFFICES ASSUME NEW u \in Tabs PROVE Told(u)'
      BY DEF Truth
    <3>1. \A r \in Sids : Left(u, r) <=> Left(u, r)'
      BY <2>a DEF server, Left
    <3>2. CASE u # t
      BY <1>b, <2>a, <3>1, <3>2 DEF IInv, server, Truth, Told, Of
    <3>3. CASE u = t
      BY <1>a, <1>b, <2>a, <3>1, <3>3 DEF IInv, Truth, server, Told, Of
    <3> QED
      BY <3>2, <3>3
  <2>8. Once'
    <3> SUFFICES ASSUME NEW u \in Tabs, ~save'[u].overlap PROVE OnceOf(u)'
      BY DEF Once
    <3>1. QueryTypeOK /\ OnceOf(u) /\ (save[u].at = "rows" => Of(save[u].sid, u))
      BY <1>b DEF IInv, Once, Refs, TabRefs
    <3>2. CASE u # t
      BY <1>b, <2>a, OnceKept, <3>1, <3>2 DEF server, Of
    <3>3. CASE u = t
      <4>1. MaySave(t)' => MaySave(t) /\ tab[t] = "open"
        BY <1>a, <1>b, <2>a DEF MaySave, TabRefs, QueryTypeOK
      <4>2. Blocked(t) /\ tab[t] = "open" => Blocked(t)'
        BY <1>a, <1>b, <2>a, <3>1, <3>3 DEF server, Blocked, Of, OnceOf
      <4>3. Clean(t) => Clean(t)'
        BY <2>a DEF Clean, server, Of
      <4> QED
        BY <1>b, <2>a, <3>1, <3>3, <4>1, <4>2, <4>3 DEF server, OnceOf, Of
    <3> QED
      BY <3>2, <3>3
  <2>9. Shown'
    <3> SUFFICES ASSUME NEW u \in Tabs PROVE ShownOf(u)'
      BY DEF Shown
    <3>1. CASE u # t
      BY <1>b, <2>a, <3>1 DEF IInv, server, Shown, ShownOf, Open, Registered, Due, Looks, SavesOwn, Saves
    <3>2. CASE u = t
      BY <1>a, <1>b, <2>a, <3>2 DEF IInv, server, Shown, ShownOf, Open, Registered, Due, Looks, SavesOwn, Saves
    <3> QED
      BY <3>1, <3>2
  <2>10. Untouched'
    BY <1>b, <2>a DEF IInv, server, Untouched, Clean, Of
  <2> QED
    BY <2>1, <2>2, <2>3, <2>4, <2>5, <2>6, <2>7, <2>8, <2>9, <2>10 DEF IInv
<1>d. CASE ok
  <2>a. /\ tab[t] = "open" /\ authed /\ v.said \in {"committed", "uncommitted"}
        /\ tx' = [tx EXCEPT ![t] = IF v.own THEN "idle" ELSE "transaction"]
        /\ gridEdits' = [gridEdits EXCEPT ![t] = "gone"]
    BY <1>a, <1>d DEF Saved, TabRefs
  <2>b. /\ tx' \in [Tabs -> Labels] /\ gridEdits' \in [Tabs -> {"none", "editable", "pending", "gone"}]
        /\ \A u \in Tabs : u # t => tx'[u] = tx[u] /\ gridEdits'[u] = gridEdits[u]
        /\ tx'[t] = (IF v.own THEN "idle" ELSE "transaction") /\ gridEdits'[t] = "gone"
    BY <1>a, <2>a DEF QueryTypeOK, Labels
  <2>c. \/ /\ exec[t].at = "idle" /\ opening'[t] = (IF ref[t] = None THEN "dialing" ELSE "none")
           /\ exec'[t].at = (IF ref[t] = None THEN "opening" ELSE "sent")
           /\ exec'[t].at = "sent" => exec'[t].sid = ref[t]
        \/ exec[t].at # "idle" /\ exec' = exec /\ opening' = opening
    <3>1. CASE exec[t].at = "idle"
      <4>1. PICK stmt \in Statements : Execute(t, [Idle EXCEPT !.stmt = stmt])
        BY <1>d, <2>a, <3>1 DEF Saved, LastRun, Statements
      <4> DEFINE e == [Idle EXCEPT !.stmt = stmt]
      <4>2. e \in RunCalls /\ Execute(t, e)
        BY <4>1, RunStatement
      <4> HIDE DEF e
      <4> QED
        BY <1>a, <3>1, <4>2, Starts
    <3>2. CASE exec[t].at # "idle"
      BY <1>d, <2>a, <3>2 DEF Saved
    <3> QED
      BY <3>1, <3>2
  <2>d. /\ exec' \in [Tabs -> RunCalls] /\ opening' \in [Tabs -> Sids \union {"none", "dialing", "error"}]
        /\ \A u \in Tabs : u # t => exec'[u] = exec[u] /\ opening'[u] = opening[u]
    <3>1. CASE exec[t].at = "idle"
      <4>1. PICK stmt \in Statements : Execute(t, [Idle EXCEPT !.stmt = stmt])
        BY <1>d, <2>a, <3>1 DEF Saved, LastRun, Statements
      <4> DEFINE e == [Idle EXCEPT !.stmt = stmt]
      <4>2. e \in RunCalls /\ Execute(t, e)
        BY <4>1, RunStatement
      <4> HIDE DEF e
      <4> QED
        BY <1>a, <3>1, <4>2, Starts
    <3>2. CASE exec[t].at # "idle"
      BY <1>a, <2>c, <3>2 DEF QueryTypeOK
    <3> QED
      BY <3>1, <3>2
  <2>1. QueryTypeOK'
    BY <1>a, <1>b, <2>b, <2>d DEF QueryTypeOK, client, server
  <2>2. LabelsOK'
    BY <1>a, <2>c, <2>d DEF IInv, LabelsOK
  <2>3. Refs'
    <3>1. ASSUME NEW u \in Tabs PROVE TabRefs(u)'
      <4>1. TabRefs(u)
        BY DEF IInv, Refs
      <4>2. CASE u # t
        BY <1>a, <1>b, <2>b, <2>d, <4>1, <4>2 DEF server, Refs, TabRefs, SessionRefs, Of, Active,
             InTransaction
      <4>3. CASE u = t
        <5>1. CASE exec[t].at = "idle"
          BY <1>a, <1>b, <2>a, <2>b, <2>c, <4>1, <4>3, <5>1, QueryAssumption DEF server, Refs,
               TabRefs, SessionRefs, Of, Active, InTransaction
        <5>2. CASE exec[t].at # "idle"
          BY <1>a, <1>b, <2>a, <2>b, <2>c, <4>1, <4>3, <5>2, QueryAssumption DEF server, Refs,
               TabRefs, SessionRefs, Of, Active, InTransaction
        <5> QED
          BY <5>1, <5>2
      <4> QED
        BY <4>2, <4>3
    <3> QED
      BY <1>a, <3>1 DEF IInv, Refs, SessionRefs, server
  <2>4. Locks'
    <3>1. \A u \in Tabs, r \in Sids : (Runs(u, r)' <=> Runs(u, r)) /\ (Saves(u, r)' <=> Saves(u, r))
      BY <1>a, <1>b, <2>c, <2>d DEF Runs, Saves, Holding
    <3> QED
      BY <1>a, <2>c, <2>d, <3>1 DEF IInv, Locks, server
  <2>5. One'
    <3> SUFFICES ASSUME NEW u \in Tabs PROVE OneOf(u)'
      BY DEF One
    <3>1. CASE u # t \/ (exec' = exec /\ opening' = opening)
      BY <1>a, <2>d, <3>1 DEF IInv, server, One, OneOf, Registered
    <3>2. CASE u = t /\ exec[t].at = "idle"
      BY <1>a, <2>a, <2>c, <3>2, StartsOnItsSession DEF server
    <3> QED
      BY <2>c, <3>1, <3>2
  <2>6. SessionHasItsTab'
    <3>1. ASSUME NEW s \in Sids, authed, sess[s] = "registered"
          PROVE  s \in closes \/ opening'[owner[s]] = s \/ (tab[owner[s]] = "open" /\ ref[owner[s]] = s)
      <4>1. owner[s] \in Tabs /\ (s \in closes \/ opening[owner[s]] = s \/ (tab[owner[s]] = "open" /\ ref[owner[s]] = s))
        BY <3>1 DEF IInv, SessionHasItsTab, Refs, SessionRefs
      <4>2. exec[t].at = "idle" => opening[t] \notin Sids
        BY <1>a, QueryAssumption DEF TabRefs
      <4> QED
        BY <2>c, <2>d, <4>1, <4>2
    <3> QED
      BY <1>a, <3>1 DEF server, SessionHasItsTab
  <2>7. Truth'
    <3> SUFFICES ASSUME NEW u \in Tabs PROVE Told(u)'
      BY DEF Truth
    <3>1. \A r \in Sids : Left(u, r) => Left(u, r)'
      BY <1>a, <2>c, <2>d, QueryAssumption DEF server, Left, Active
    <3>2. CASE u # t
      BY <1>a, <1>b, <3>1, <3>2 DEF IInv, server, Truth, Told, Of
    <3>3. CASE u = t
      BY <1>a, <1>b, <2>a, <3>1, <3>3 DEF IInv, Truth, server, Told, Of
    <3> QED
      BY <3>2, <3>3
  <2>8. Once'
    <3> SUFFICES ASSUME NEW u \in Tabs, ~save'[u].overlap PROVE OnceOf(u)'
      BY DEF Once
    <3>1. QueryTypeOK /\ OnceOf(u) /\ (save[u].at = "rows" => Of(save[u].sid, u))
      BY <1>b DEF IInv, Once, Refs, TabRefs
    <3>2. CASE u # t
      BY <1>a, <1>b, <2>b, <2>d, OnceKept, <3>1, <3>2 DEF server, Of
    <3>3. CASE u = t
      <4>1. ~MaySave(t)'
        BY <1>b, <2>b DEF MaySave
      <4> QED
        BY <1>a, <1>b, <3>1, <3>3, <4>1 DEF server, OnceOf, Of
    <3> QED
      BY <3>2, <3>3
  <2>9. Shown'
    <3> SUFFICES ASSUME NEW u \in Tabs PROVE ShownOf(u)'
      BY DEF Shown
    <3>1. CASE u # t
      BY <1>a, <1>b, <2>b, <2>d, <3>1 DEF IInv, server, Shown, ShownOf, Open, Registered, Due, Looks, SavesOwn, Saves
    <3>2. CASE u = t
      <4> SUFFICES ASSUME NEW s \in Sids, Open(t, s)', ref'[t] = s
                   PROVE  /\ tx'[t] \in Shows \/ Due(t)' \/ Looks(t)'
                          /\ exec'[t].at = "answer" => exec'[t].label \notin {"idle", "closed"}
        BY <1>b, <3>2 DEF ShownOf
      <4>1. ref[t] = s /\ s # None /\ Open(t, s) /\ ~SavesOwn(t, s)
        BY <1>a, QueryAssumption DEF server, Open, Registered, SavesOwn, Saves
      <4>2. exec[t].at = "answer" =>
              /\ exec[t].label \notin {"idle", "closed"}
              /\ exec[t].label \notin Shows => ~v.own
        BY <1>a, <4>1 DEF IInv, Shown, ShownOf
      <4>3. exec'[t].at # "opening" /\ exec'[t].at # "idle"
        BY <1>a, <2>c, <4>1 DEF TabRefs
      <4>4. exec'[t].at \in RunSteps
        BY <2>d DEF RunCalls
      <4>5. Looks(t)' \/ exec'[t].at = "answer"
        BY <1>b, <2>b, <4>3, <4>4 DEF Looks, Holding, RunSteps
      <4>6. exec'[t].at = "answer" => exec'[t] = exec[t]
        BY <2>c, <4>1
      <4> QED
        BY <2>b, <4>2, <4>5, <4>6 DEF Due, Shows
    <3> QED
      BY <3>1, <3>2
  <2>10. Untouched'
    BY <1>a, <1>b, <2>b DEF IInv, server, Untouched, Clean, Of
  <2> QED
    BY <2>1, <2>2, <2>3, <2>4, <2>5, <2>6, <2>7, <2>8, <2>9, <2>10 DEF IInv
<1> QED
  BY <1>c, <1>d

LEMMA CloseTabSafe ==
    ASSUME IInv, NEW t \in Tabs, CloseTab(t)
    PROVE  IInv'
<1>1. QueryTypeOK'
  <2>1. QueryTypeOK
    BY DEF IInv
  <2> QED
    BY <2>1, QueryAssumption DEF CloseTab, QueryTypeOK, client, server, Labels
<1>2. LabelsOK'
  BY QueryAssumption DEF IInv, CloseTab, QueryTypeOK, client, server, LabelsOK, Answers
<1>3. Refs'
  BY QueryAssumption DEF IInv, CloseTab, QueryTypeOK, client, server, Refs, TabRefs,
       SessionRefs, Of, Active, InTransaction
<1>4. Locks'
  BY QueryAssumption DEF IInv, CloseTab, QueryTypeOK, client, server, Locks, Runs, Saves,
       Holding, Refs, TabRefs, Of, Active
<1>5. One'
  BY QueryAssumption DEF IInv, CloseTab, QueryTypeOK, client, server, One, OneOf,
       Registered, Active, Refs, TabRefs, SessionRefs, Of, SessionHasItsTab
<1>6. SessionHasItsTab'
  BY QueryAssumption DEF IInv, CloseTab, QueryTypeOK, client, server, SessionHasItsTab,
       Refs, TabRefs, SessionRefs, Of, One, OneOf, Registered, Active
<1>7. Truth'
  BY QueryAssumption DEF IInv, CloseTab, QueryTypeOK, client, server, Truth, Told, Left,
       Of, Refs, TabRefs, SessionRefs, Active, One, OneOf, Registered, Locks, Runs, Saves, Holding,
       SessionHasItsTab, CommitPending, Nothing
<1>8. Once'
  <2> SUFFICES ASSUME NEW u \in Tabs, ~save[u].overlap PROVE OnceOf(u)'
    BY DEF Once, CloseTab
  <2>1. QueryTypeOK /\ OnceOf(u) /\ (save[u].at = "rows" => Of(save[u].sid, u))
    BY DEF IInv, Once, Refs, TabRefs
  <2> QED
    BY OnceKept, <2>1 DEF CloseTab, QueryTypeOK, client, server, Of
<1>9. Shown'
  BY QueryAssumption DEF IInv, CloseTab, QueryTypeOK, client, server, Shown, ShownOf,
       Open, Registered, Due, Looks, SavesOwn, Saves, Shows, InTransaction, Refs, TabRefs, Of,
       Active, Locks, Runs, Holding, One, OneOf, LabelsOK, Answers, Labels
<1>10. Untouched'
  BY QueryAssumption DEF IInv, CloseTab, QueryTypeOK, client, server, Untouched, Clean,
       Of, InsertRows, Rows, Nothing, SessionRefs, Refs
<1> QED
  BY <1>1, <1>2, <1>3, <1>4, <1>5, <1>6, <1>7, <1>8, <1>9, <1>10 DEF IInv

LEMMA LogoutSafe ==
    ASSUME IInv, Logout
    PROVE  IInv'
<1>1. QueryTypeOK'
  <2>1. QueryTypeOK
    BY DEF IInv
  <2> QED
    BY <2>1, QueryAssumption DEF Logout, QueryTypeOK, client, server, Labels
<1>2. LabelsOK'
  BY QueryAssumption DEF IInv, Logout, QueryTypeOK, client, server, LabelsOK, Answers
<1>3. Refs'
  BY QueryAssumption DEF IInv, Logout, QueryTypeOK, client, server, Refs, TabRefs,
       SessionRefs, Of, Active, InTransaction
<1>4. Locks'
  BY QueryAssumption DEF IInv, Logout, QueryTypeOK, client, server, Locks, Runs, Saves,
       Holding, Refs, TabRefs, Of, Active
<1>5. One'
  BY QueryAssumption DEF IInv, Logout, QueryTypeOK, client, server, One, OneOf,
       Registered, Active, Refs, TabRefs, SessionRefs, Of, SessionHasItsTab
<1>6. SessionHasItsTab'
  BY QueryAssumption DEF IInv, Logout, QueryTypeOK, client, server, SessionHasItsTab,
       Refs, TabRefs, SessionRefs, Of, One, OneOf, Registered, Active
<1>7. Truth'
  BY QueryAssumption DEF IInv, Logout, QueryTypeOK, client, server, Truth, Told, Left, Of,
       Refs, TabRefs, SessionRefs, Active, One, OneOf, Registered, Locks, Runs, Saves, Holding,
       SessionHasItsTab, CommitPending, Nothing
<1>8. Once'
  <2> SUFFICES ASSUME NEW u \in Tabs, ~save[u].overlap PROVE OnceOf(u)'
    BY DEF Once, Logout
  <2>1. QueryTypeOK /\ OnceOf(u) /\ (save[u].at = "rows" => Of(save[u].sid, u))
    BY DEF IInv, Once, Refs, TabRefs
  <2> QED
    BY OnceKept, <2>1 DEF Logout, QueryTypeOK, client, server, Of
<1>9. Shown'
  BY QueryAssumption DEF IInv, Logout, QueryTypeOK, client, server, Shown, ShownOf, Open,
       Registered, Due, Looks, SavesOwn, Saves, Shows, InTransaction, Refs, TabRefs, Of, Active,
       Locks, Runs, Holding, One, OneOf, LabelsOK, Answers, Labels
<1>10. Untouched'
  BY QueryAssumption DEF IInv, Logout, QueryTypeOK, client, server, Untouched, Clean, Of,
       InsertRows, Rows, Nothing, SessionRefs, Refs
<1> QED
  BY <1>1, <1>2, <1>3, <1>4, <1>5, <1>6, <1>7, <1>8, <1>9, <1>10 DEF IInv

LEMMA OpenQuerySessionSafe ==
    ASSUME IInv, NEW t \in Tabs, OpenQuerySession(t)
    PROVE  IInv'
<1>1. CASE UNCHANGED <<sess, owner, txs>> /\ opening' = [opening EXCEPT ![t] = "error"]
  <2>1. QueryTypeOK'
    BY <1>1 DEF IInv, OpenQuerySession, QueryTypeOK, client, server
  <2>2. LabelsOK'
    BY <1>1 DEF IInv, OpenQuerySession, QueryTypeOK, client, server, LabelsOK, Answers
  <2>3. Refs'
    BY <1>1, QueryAssumption DEF IInv, OpenQuerySession, QueryTypeOK, client, server,
         Refs, TabRefs, SessionRefs, Of, Active, InTransaction
  <2>4. Locks'
    BY <1>1 DEF IInv, OpenQuerySession, QueryTypeOK, client, server, Locks, Runs, Saves,
         Holding, Refs, TabRefs, Of, Active
  <2>5. One'
    BY <1>1, QueryAssumption DEF IInv, OpenQuerySession, QueryTypeOK, client, server, One,
         OneOf, Registered, Active, Refs, TabRefs, SessionRefs, Of, SessionHasItsTab
  <2>6. SessionHasItsTab'
    BY <1>1, QueryAssumption DEF IInv, OpenQuerySession, QueryTypeOK, client, server,
         SessionHasItsTab, Refs, TabRefs, SessionRefs, Of, One, OneOf, Registered, Active
  <2>7. Truth'
    BY <1>1, QueryAssumption DEF IInv, OpenQuerySession, QueryTypeOK, client, server,
         Truth, Told, Left, Of, Refs, TabRefs, SessionRefs, Active, One, OneOf, Registered, Locks,
         Runs, Saves, Holding, SessionHasItsTab, CommitPending, Nothing
  <2>8. Once'
    <3> SUFFICES ASSUME NEW u \in Tabs, ~save[u].overlap PROVE OnceOf(u)'
      BY DEF Once, OpenQuerySession
    <3>1. QueryTypeOK /\ OnceOf(u) /\ (save[u].at = "rows" => Of(save[u].sid, u))
      BY DEF IInv, Once, Refs, TabRefs
    <3> QED
      BY <1>1, OnceKept, <3>1 DEF OpenQuerySession, QueryTypeOK, client, server, Of
  <2>9. Shown'
    BY <1>1 DEF IInv, OpenQuerySession, QueryTypeOK, client, server, Shown, ShownOf, Open,
         Registered, Due, Looks, SavesOwn, Saves, Shows, InTransaction, Refs, TabRefs, Of, Active,
         Locks, Runs, Holding, One, OneOf, LabelsOK, Answers, Labels
  <2>10. Untouched'
    BY <1>1 DEF IInv, OpenQuerySession, QueryTypeOK, client, server, Untouched, Clean, Of
  <2> QED
    BY <2>1, <2>2, <2>3, <2>4, <2>5, <2>6, <2>7, <2>8, <2>9, <2>10 DEF IInv
<1>2. ASSUME NEW s \in Sids, authed, sess[s] = "free",
             sess' = [sess EXCEPT ![s] = "registered"], owner' = [owner EXCEPT ![s] = t],
             txs' = [txs EXCEPT ![s] = "I"], opening' = [opening EXCEPT ![t] = s]
      PROVE  IInv'
  <2>0. /\ opening[t] = "dialing" /\ pend[s] = Nothing /\ ref[t] = None /\ exec[t].at = "opening"
        /\ \A u \in Tabs, r \in Sids : Of(r, u)' <=> Of(r, u) \/ (r = s /\ u = t)
        /\ ~\E u \in Tabs : Of(s, u)
        /\ UNCHANGED <<client, exec, save, lock, cancelled, lost, pend, db, closes, cancels, authed, losses, requested>>
    <3>1. /\ QueryTypeOK /\ TabRefs(t) /\ SessionRefs(s) /\ opening[t] = "dialing"
          /\ UNCHANGED <<client, exec, save, lock, cancelled, lost, pend, db, closes, cancels, authed, losses, requested>>
      BY DEF IInv, Refs, OpenQuerySession
    <3>2. pend[s] = Nothing /\ ref[t] = None /\ exec[t].at = "opening"
      BY <3>1, <1>2 DEF TabRefs, SessionRefs
    <3>3. \A u \in Tabs, r \in Sids : Of(r, u)' <=> Of(r, u) \/ (r = s /\ u = t)
      BY <3>1, <1>2 DEF QueryTypeOK, Of
    <3> QED
      BY <3>1, <3>2, <3>3, <1>2 DEF Of
  <2>1. QueryTypeOK'
    BY <1>2, <2>0 DEF IInv, QueryTypeOK, client, server
  <2>2. LabelsOK'
    BY <2>0 DEF IInv, QueryTypeOK, client, server, LabelsOK, Answers
  <2>3. Refs'
    <3>1. ASSUME NEW u \in Tabs PROVE TabRefs(u)'
      BY <1>2, <2>0, <3>1, QueryAssumption DEF IInv, QueryTypeOK, client, server, Refs, TabRefs,
           SessionRefs, Of, Active, InTransaction
    <3>2. ASSUME NEW r \in Sids PROVE SessionRefs(r)'
      BY <1>2, <2>0, <3>2, QueryAssumption DEF IInv, QueryTypeOK, client, server, Refs, TabRefs,
           SessionRefs, Of, Active, InTransaction
    <3> QED
      BY <3>1, <3>2 DEF Refs
  <2>4. Locks'
    BY <1>2, <2>0 DEF IInv, QueryTypeOK, client, server, Locks, Runs, Saves, Holding,
         Refs, TabRefs, Of, Active
  <2>5. One'
    <3> SUFFICES ASSUME NEW u \in Tabs PROVE OneOf(u)'
      BY DEF One
    <3>1. \A r \in Sids : Registered(r, u)' => Registered(r, u) \/ (r = s /\ u = t)
      BY <1>2 DEF IInv, QueryTypeOK, Registered
    <3>2. ~Registered(s, u)
      BY <1>2 DEF Registered
    <3>3. \A r \in Sids : Registered(r, u) => r # opening[t] \/ u # t
      BY <2>0, QueryAssumption
    <3> QED
      BY <1>2, <2>0, <3>1, <3>2, <3>3, QueryAssumption DEF IInv, QueryTypeOK, client, server, One,
           OneOf, Refs, TabRefs, Active, Of
  <2>6. SessionHasItsTab'
    BY <1>2, <2>0, QueryAssumption DEF IInv, QueryTypeOK, client, server,
         SessionHasItsTab, Refs, TabRefs, SessionRefs, Of, One, OneOf, Registered, Active
  <2>7. Truth'
    BY <1>2, <2>0, QueryAssumption DEF IInv, QueryTypeOK, client, server, Truth, Told,
         Left, Of, Refs, TabRefs, SessionRefs, Active, One, OneOf, Registered, Locks, Runs, Saves,
         Holding, SessionHasItsTab, CommitPending, Nothing
  <2>8. Once'
    <3> SUFFICES ASSUME NEW u \in Tabs, ~save[u].overlap PROVE OnceOf(u)'
      BY <2>0 DEF Once
    <3>1. QueryTypeOK /\ OnceOf(u) /\ (save[u].at = "rows" => Of(save[u].sid, u))
      BY DEF IInv, Once, Refs, TabRefs
    <3> QED
      BY <1>2, <2>0, OnceKept, <3>1 DEF QueryTypeOK, client, server
  <2>9. Shown'
    BY <1>2, <2>0 DEF IInv, QueryTypeOK, client, server, Shown, ShownOf, Open, Registered,
         Due, Looks, SavesOwn, Saves, Shows, InTransaction, Refs, TabRefs, Of, Active, Locks, Runs,
         Holding, One, OneOf, LabelsOK, Answers, Labels
  <2>10. Untouched'
    BY <1>2, <2>0, QueryAssumption DEF IInv, QueryTypeOK, client, server, Untouched, Clean,
         InsertRows, Rows, Nothing
  <2> QED
    BY <2>1, <2>2, <2>3, <2>4, <2>5, <2>6, <2>7, <2>8, <2>9, <2>10 DEF IInv
<1> QED
  BY <1>1, <1>2 DEF OpenQuerySession

LEMMA ExecuteQuerySafe ==
    ASSUME IInv, NEW t \in Tabs, ExecuteQuery(t)
    PROVE  IInv'
<1> DEFINE s == exec[t].sid
           taken == /\ authed /\ sess[s] = "registered" /\ ~lock[s] /\ lock' = [lock EXCEPT ![s] = TRUE]
                    /\ RunIs(t, "locked", s, exec[t].label)
           refused(label) == lock' = lock /\ RunIs(t, "answer", s, label)
<1>a. /\ QueryTypeOK /\ TabRefs(t) /\ exec[t].at = "sent"
      /\ UNCHANGED <<client, opening, save, sess, owner, cancelled, txs, lost, pend, db, closes, cancels,
                     authed, losses, requested>>
  BY DEF IInv, Refs, ExecuteQuery
<1>b. Of(s, t) /\ s \in Sids /\ opening[t] = "none"
  BY <1>a DEF TabRefs, Active, Of
<1>c. \/ taken
      \/ refused("notfound") /\ authed /\ sess[s] # "registered"
      \/ refused("refused") /\ (~authed \/ (sess[s] = "registered" /\ lock[s]))
  <2>1. CASE Known(s) /\ ~lock[s]
    BY <1>a, <2>1, RunMoves DEF ExecuteQuery, Known, QueryTypeOK, RunSteps
  <2>2. CASE ~(Known(s) /\ ~lock[s]) /\ authed /\ ~Known(s)
    <3>1. AnswerExec(t, "notfound") /\ lock' = lock
      BY <2>2 DEF ExecuteQuery
    <3> QED
      BY <1>a, <2>2, <3>1, RunAnswers DEF Known, QueryTypeOK
  <2>3. CASE ~(Known(s) /\ ~lock[s]) /\ ~(authed /\ ~Known(s))
    <3>1. AnswerExec(t, "refused") /\ lock' = lock
      BY <2>3 DEF ExecuteQuery
    <3>2. refused("refused")
      BY <1>a, <3>1, RunAnswers DEF QueryTypeOK
    <3>3. ~authed \/ (sess[s] = "registered" /\ lock[s])
      BY <2>3 DEF Known
    <3> QED
      BY <3>2, <3>3
  <2> QED
    BY <2>1, <2>2, <2>3
<1>d. /\ exec' \in [Tabs -> RunCalls] /\ lock' \in [Sids -> BOOLEAN] /\ exec'[t].sid = s
      /\ exec'[t].at \in {"locked", "answer"}
      /\ \A u \in Tabs : u # t => exec'[u] = exec[u]
      /\ \A r \in Sids : r # s => (lock'[r] <=> lock[r])
  BY <1>a, <1>c DEF RunIs, QueryTypeOK
<1>e. \/ authed /\ sess[s] = "registered" /\ ~lock[s] /\ lock'[s] /\ exec'[t].at = "locked"
      \/ /\ lock' = lock /\ exec'[t].at = "answer" /\ exec'[t].label = "notfound"
         /\ authed /\ sess[s] # "registered"
      \/ /\ lock' = lock /\ exec'[t].at = "answer" /\ exec'[t].label = "refused"
         /\ ~authed \/ (sess[s] = "registered" /\ lock[s])
  BY <1>a, <1>b, <1>c DEF RunIs, QueryTypeOK
<1> HIDE DEF taken, refused
<1>1. QueryTypeOK'
  BY <1>a, <1>d DEF QueryTypeOK, client, server
<1>2. LabelsOK'
  BY <1>a, <1>d, <1>e DEF IInv, LabelsOK, Answers
<1>3. Refs'
  <2>1. ASSUME NEW u \in Tabs PROVE TabRefs(u)'
    <3>1. TabRefs(u)
      BY DEF IInv, Refs
    <3>2. CASE u # t
      BY <1>a, <1>d, <3>1, <3>2 DEF QueryTypeOK, client, server, Refs, TabRefs, SessionRefs, Of,
           Active, InTransaction
    <3>3. CASE u = t
      BY <1>a, <1>b, <1>d, <3>1, <3>3, QueryAssumption DEF QueryTypeOK, client, server, Refs,
           TabRefs, SessionRefs, Of, Active, InTransaction
    <3> QED
      BY <3>2, <3>3
  <2> QED
    BY <1>a, <2>1 DEF IInv, Refs, SessionRefs, client
<1>4. Locks'
  <2>1. \A u \in Tabs, r \in Sids :
          (Runs(u, r)' <=> Runs(u, r) \/ (u = t /\ r = s /\ exec'[t].at = "locked")) /\ (Saves(u, r)' <=> Saves(u, r))
    BY <1>a, <1>d DEF Runs, Saves, Holding
  <2> QED
    BY <1>a, <1>b, <1>d, <1>e, <2>1 DEF IInv, Locks
<1>5. One'
  <2> SUFFICES ASSUME NEW u \in Tabs PROVE OneOf(u)'
    BY DEF One
  <2>1. CASE u # t
    BY <1>a, <1>d, <2>1 DEF IInv, QueryTypeOK, client, server, One, OneOf, Registered, Active
  <2>2. CASE u = t
    BY <1>a, <1>d, <1>e, <2>2 DEF IInv, One, OneOf, Registered, Active
  <2> QED
    BY <2>1, <2>2
<1>6. SessionHasItsTab'
  BY <1>a DEF IInv, client, SessionHasItsTab
<1>7. Truth'
  <2> SUFFICES ASSUME NEW u \in Tabs PROVE Told(u)'
    BY DEF Truth
  <2>1. \A r \in Sids : Of(r, u) /\ Left(u, r) => Left(u, r)'
    BY <1>a, <1>d DEF client, Left, Active
  <2> QED
    BY <1>a, <2>1 DEF IInv, Truth, Told, Of
<1>8. Once'
  <2> SUFFICES ASSUME NEW u \in Tabs, ~save[u].overlap PROVE OnceOf(u)'
    BY <1>a DEF Once
  <2>1. QueryTypeOK /\ OnceOf(u) /\ (save[u].at = "rows" => Of(save[u].sid, u))
    BY DEF IInv, Once, Refs, TabRefs
  <2>2. CASE u # t
    BY <1>a, <1>d, OnceKept, <2>1, <2>2 DEF QueryTypeOK, client, server, Of
  <2>3. CASE u = t
    <3>1. Blocked(t)'
      BY <1>d DEF Blocked
    <3>2. save[t].at = "idle"
      BY <1>a, <2>1, <2>3 DEF OnceOf
    <3> QED
      BY <1>a, <2>1, <2>3, <3>1, <3>2 DEF client, OnceOf, Of
  <2> QED
    BY <2>2, <2>3
<1>9. Shown'
  <2> SUFFICES ASSUME NEW u \in Tabs PROVE ShownOf(u)'
    BY DEF Shown
  <2>1. CASE u # t
    BY <1>a, <1>d, <2>1 DEF IInv, QueryTypeOK, client, server, Shown, ShownOf, Open, Registered,
         Due, Looks, SavesOwn, Saves, Shows, InTransaction, Refs, TabRefs, Of, Active, Locks, Runs,
         Holding, One, OneOf, LabelsOK, Answers, Labels
  <2>2. CASE u = t
    <3> SUFFICES ASSUME NEW r \in Sids, Open(t, r)', ref'[t] = r
                 PROVE  /\ tx'[t] \in Shows \/ Due(t)' \/ Looks(t)' \/ SavesOwn(t, r)'
                        /\ exec'[t].at = "answer" =>
                             /\ exec'[t].label \in {"idle", "closed"} => SavesOwn(t, r)'
                             /\ /\ exec'[t].label \notin Shows
                                /\ save'[t].at # "idle" /\ save'[t].own
                                => SavesOwn(t, r)'
      BY <2>2 DEF ShownOf
    <3>1. r = s /\ authed /\ sess[s] = "registered" /\ ref[t] = s /\ Open(t, s)
      BY <1>a, QueryAssumption DEF client, TabRefs, Active, Open, Registered
    <3>2. exec'[t].at = "answer" => exec'[t].label = "refused" /\ Saves(t, s)
      <4>1. lock[s] => \E w \in Tabs : Runs(w, s) \/ Saves(w, s)
        BY <1>b DEF IInv, Locks
      <4>2. \A w \in Tabs : Runs(w, s) \/ Saves(w, s) => w = t
        BY <1>b DEF IInv, Refs, TabRefs, Runs, Saves, Holding, Active, Of
      <4>3. ~Runs(t, s)
        BY <1>a DEF Runs, Holding
      <4> QED
        BY <1>e, <3>1, <4>1, <4>2, <4>3
    <3>3. tx[t] \in Shows \/ Looks(t) \/ SavesOwn(t, s)
      BY <1>a, <1>b, <3>1 DEF IInv, Shown, ShownOf, Due
    <3>4. Looks(t) => Looks(t)' \/ exec'[t].at = "answer"
      BY <1>a, <1>d DEF client, Looks, Holding
    <3> QED
      BY <1>a, <1>d, <3>1, <3>2, <3>3, <3>4 DEF client, Looks, SavesOwn, Saves, Due, Shows
  <2> QED
    BY <2>1, <2>2
<1>10. Untouched'
  BY <1>a DEF IInv, QueryTypeOK, client, server, Untouched, Clean, Of
<1> QED
  BY <1>1, <1>2, <1>3, <1>4, <1>5, <1>6, <1>7, <1>8, <1>9, <1>10 DEF IInv

LEMMA BeginRunSafe ==
    ASSUME IInv, NEW t \in Tabs, BeginRun(t)
    PROVE  IInv'
<1> DEFINE s == exec[t].sid
<1>a. /\ QueryTypeOK /\ TabRefs(t) /\ exec[t].at = "locked"
      /\ UNCHANGED <<client, opening, save, sess, owner, txs, lost, pend, db, closes, cancels, authed,
                     losses, requested>>
  BY DEF IInv, Refs, BeginRun
<1>b. Of(s, t) /\ s \in Sids /\ opening[t] = "none" /\ lock[s] /\ ~Saves(t, s)
  BY <1>a DEF TabRefs, Active, Of, IInv, Locks, Runs, Holding
<1>c. \/ /\ sess[s] \in {"closing", "done"} /\ RunIs(t, "answer", s, "notfound")
         /\ lock' = [lock EXCEPT ![s] = FALSE] /\ cancelled' = [cancelled EXCEPT ![s] = FALSE]
      \/ /\ txs[s] = "gone" /\ RunIs(t, "reconnect", s, exec[t].label)
         /\ UNCHANGED <<lock, cancelled>>
      \/ /\ RunIs(t, "run", s, exec[t].label)
         /\ UNCHANGED <<lock, cancelled>>
  <2>1. CASE sess[s] \in {"closing", "done"}
    <3>1. AnswerExec(t, "notfound") /\ Unlock(s)
      BY <2>1 DEF BeginRun
    <3> QED
      BY <1>a, <2>1, <3>1, RunAnswers DEF QueryTypeOK, Unlock
  <2>2. CASE sess[s] \notin {"closing", "done"}
    <3>1. exec' = [exec EXCEPT ![t].at = IF txs[s] = "gone" THEN "reconnect" ELSE "run"] /\ UNCHANGED <<lock, cancelled>>
      BY <2>2 DEF BeginRun
    <3>2. CASE txs[s] = "gone"
      <4>1. exec' = [exec EXCEPT ![t].at = "reconnect"]
        BY <3>1, <3>2
      <4> QED
        BY <1>a, <3>1, <3>2, <4>1, RunMoves DEF QueryTypeOK, RunSteps
    <3>3. CASE txs[s] # "gone"
      <4>1. exec' = [exec EXCEPT ![t].at = "run"]
        BY <3>1, <3>3
      <4> QED
        BY <1>a, <3>1, <4>1, RunMoves DEF QueryTypeOK, RunSteps
    <3> QED
      BY <3>2, <3>3
  <2> QED
    BY <2>1, <2>2
<1>d. /\ exec' \in [Tabs -> RunCalls] /\ lock' \in [Sids -> BOOLEAN] /\ cancelled' \in [Sids -> BOOLEAN]
      /\ exec'[t].sid = s /\ exec'[t].at \in {"run", "reconnect", "answer"}
      /\ \A u \in Tabs : u # t => exec'[u] = exec[u]
      /\ \A r \in Sids : r # s => (lock'[r] <=> lock[r])
  <2>1. lock \in [Sids -> BOOLEAN] /\ cancelled \in [Sids -> BOOLEAN]
    BY <1>a DEF QueryTypeOK
  <2>2. \/ lock' = [lock EXCEPT ![s] = FALSE] /\ cancelled' = [cancelled EXCEPT ![s] = FALSE]
        \/ lock' = lock /\ cancelled' = cancelled
    BY <1>c
  <2>3. lock' \in [Sids -> BOOLEAN] /\ cancelled' \in [Sids -> BOOLEAN]
    BY <2>1, <2>2
  <2>4. \A r \in Sids : r # s => (lock'[r] <=> lock[r])
    BY <2>1, <2>2
  <2> QED
    BY <1>c, <2>3, <2>4 DEF RunIs
<1>e. \/ ~lock'[s] /\ exec'[t].at = "answer" /\ exec'[t].label = "notfound" /\ sess[s] # "registered"
      \/ lock'[s] /\ exec'[t].at = "reconnect" /\ txs[s] = "gone"
      \/ lock'[s] /\ exec'[t].at = "run"
  BY <1>a, <1>b, <1>c DEF RunIs, QueryTypeOK
<1>1. QueryTypeOK'
  BY <1>a, <1>d DEF QueryTypeOK, client, server
<1>2. LabelsOK'
  BY <1>a, <1>d, <1>e DEF IInv, LabelsOK, Answers
<1>3. Refs'
  <2>1. ASSUME NEW u \in Tabs PROVE TabRefs(u)'
    <3>1. TabRefs(u)
      BY DEF IInv, Refs
    <3>2. CASE u # t
      BY <1>a, <1>d, <3>1, <3>2 DEF QueryTypeOK, client, server, Refs, TabRefs, SessionRefs, Of,
           Active, InTransaction
    <3>3. CASE u = t
      BY <1>a, <1>b, <1>d, <3>1, <3>3, QueryAssumption DEF QueryTypeOK, client, server, Refs,
           TabRefs, SessionRefs, Of, Active, InTransaction
    <3> QED
      BY <3>2, <3>3
  <2> QED
    BY <1>a, <2>1 DEF IInv, Refs, SessionRefs, client
<1>4. Locks'
  <2>1. \A u \in Tabs, r \in Sids :
          /\ Runs(u, r)' <=> Runs(u, r) /\ ~(u = t /\ r = s /\ exec'[t].at = "answer")
          /\ Saves(u, r)' <=> Saves(u, r)
    BY <1>a, <1>d DEF Runs, Saves, Holding
  <2>2. \A u \in Tabs : Runs(u, s) \/ Saves(u, s) => u = t
    BY <1>b DEF IInv, Refs, TabRefs, Runs, Saves, Holding, Active, Of
  <2>3. Runs(t, s)
    BY <1>a DEF Runs, Holding
  <2> QED
    BY <1>a, <1>b, <1>d, <1>e, <2>1, <2>2, <2>3 DEF IInv, Locks
<1>5. One'
  <2> SUFFICES ASSUME NEW u \in Tabs PROVE OneOf(u)'
    BY DEF One
  <2>1. CASE u # t
    BY <1>a, <1>d, <2>1 DEF IInv, QueryTypeOK, client, server, One, OneOf, Registered, Active
  <2>2. CASE u = t
    BY <1>a, <1>d, <1>e, <2>2 DEF IInv, One, OneOf, Registered, Active
  <2> QED
    BY <2>1, <2>2
<1>6. SessionHasItsTab'
  BY <1>a DEF IInv, client, SessionHasItsTab
<1>7. Truth'
  <2> SUFFICES ASSUME NEW u \in Tabs PROVE Told(u)'
    BY DEF Truth
  <2>1. \A r \in Sids : Of(r, u) /\ Left(u, r) => Left(u, r)'
    BY <1>a, <1>d DEF client, Left, Active
  <2> QED
    BY <1>a, <2>1 DEF IInv, Truth, Told, Of
<1>8. Once'
  <2> SUFFICES ASSUME NEW u \in Tabs, ~save[u].overlap PROVE OnceOf(u)'
    BY <1>a DEF Once
  <2>1. QueryTypeOK /\ OnceOf(u) /\ (save[u].at = "rows" => Of(save[u].sid, u))
    BY DEF IInv, Once, Refs, TabRefs
  <2>2. CASE u # t
    BY <1>a, <1>d, OnceKept, <2>1, <2>2 DEF QueryTypeOK, client, server, Of
  <2>3. CASE u = t
    <3>1. Blocked(t)'
      BY <1>d DEF Blocked
    <3>2. save[t].at = "idle"
      BY <1>a, <2>1, <2>3 DEF OnceOf
    <3> QED
      BY <1>a, <2>1, <2>3, <3>1, <3>2 DEF client, OnceOf, Of
  <2> QED
    BY <2>2, <2>3
<1>9. Shown'
  <2> SUFFICES ASSUME NEW u \in Tabs PROVE ShownOf(u)'
    BY DEF Shown
  <2>1. CASE u # t
    BY <1>a, <1>d, <2>1 DEF IInv, QueryTypeOK, client, server, Shown, ShownOf, Open, Registered,
         Due, Looks, SavesOwn, Saves, Shows, InTransaction, Refs, TabRefs, Of, Active, Locks, Runs,
         Holding, One, OneOf, LabelsOK, Answers, Labels
  <2>2. CASE u = t
    <3>1. CASE sess[s] # "registered" /\ exec'[t].at = "answer"
      BY <1>a, <1>b, <2>2, <3>1, QueryAssumption DEF client, ShownOf, Open, Registered, TabRefs, Active
    <3>2. CASE exec'[t].at \in {"run", "reconnect"}
      <4>1. Looks(t) => Looks(t)'
        BY <1>a, <3>2 DEF client, Looks, Holding
      <4>2. \A r \in Sids : (Open(t, r)' <=> Open(t, r)) /\ (SavesOwn(t, r)' <=> SavesOwn(t, r))
        BY <1>a DEF Open, Registered, SavesOwn, Saves
      <4> QED
        BY <1>a, <2>2, <3>2, <4>1, <4>2 DEF IInv, client, Shown, ShownOf, Due
    <3> QED
      BY <1>e, <3>1, <3>2
  <2> QED
    BY <2>1, <2>2
<1>10. Untouched'
  BY <1>a DEF IInv, QueryTypeOK, client, server, Untouched, Clean, Of
<1> QED
  BY <1>1, <1>2, <1>3, <1>4, <1>5, <1>6, <1>7, <1>8, <1>9, <1>10 DEF IInv

LEMMA ReconnectSafe ==
    ASSUME IInv, NEW t \in Tabs, Reconnect(t)
    PROVE  IInv'
<1> DEFINE s == exec[t].sid
<1>a. /\ QueryTypeOK /\ TabRefs(t) /\ exec[t].at = "reconnect"
      /\ UNCHANGED <<client, opening, save, sess, owner, lost, pend, db, closes, cancels, authed,
                     losses, requested>>
  BY DEF IInv, Refs, Reconnect
<1>b. Of(s, t) /\ s \in Sids /\ opening[t] = "none" /\ lock[s] /\ ~Saves(t, s) /\ txs[s] = "gone"
  BY <1>a DEF TabRefs, Active, Of, IInv, Locks, Runs, Holding
<1>c. \/ /\ txs' = [txs EXCEPT ![s] = "I"] /\ RunIs(t, "run", s, exec[t].label)
         /\ lock' = lock /\ cancelled' = cancelled
      \/ /\ txs' = txs /\ RunIs(t, "answer", s, "refused")
         /\ lock' = [lock EXCEPT ![s] = FALSE] /\ cancelled' = [cancelled EXCEPT ![s] = FALSE]
  BY <1>a, RunMoves, RunAnswers DEF Reconnect, Unlock, QueryTypeOK, RunSteps
<1>d. /\ exec' \in [Tabs -> RunCalls] /\ exec'[t].sid = s /\ exec'[t].at \in {"run", "answer"}
      /\ \A u \in Tabs : u # t => exec'[u] = exec[u]
  BY <1>c DEF RunIs
<1>e. /\ lock' \in [Sids -> BOOLEAN] /\ cancelled' \in [Sids -> BOOLEAN]
      /\ txs' \in [Sids -> {"I", "T", "E", "gone"}]
      /\ \A r \in Sids : r # s => (lock'[r] <=> lock[r]) /\ txs'[r] = txs[r]
      /\ txs'[s] \notin InTransaction
  <2>1. lock \in [Sids -> BOOLEAN] /\ cancelled \in [Sids -> BOOLEAN] /\ txs \in [Sids -> {"I", "T", "E", "gone"}]
    BY <1>a DEF QueryTypeOK
  <2>2. CASE txs' = [txs EXCEPT ![s] = "I"] /\ lock' = lock /\ cancelled' = cancelled
    BY <1>b, <2>1, <2>2 DEF InTransaction
  <2>3. CASE txs' = txs /\ lock' = [lock EXCEPT ![s] = FALSE] /\ cancelled' = [cancelled EXCEPT ![s] = FALSE]
    BY <1>b, <2>1, <2>3 DEF InTransaction
  <2> QED
    BY <1>c, <2>2, <2>3
<1>f. \/ lock'[s] /\ exec'[t].at = "run"
      \/ ~lock'[s] /\ exec'[t].at = "answer" /\ exec'[t].label = "refused"
  BY <1>a, <1>b, <1>c DEF RunIs, QueryTypeOK
<1>1. QueryTypeOK'
  BY <1>a, <1>d, <1>e DEF QueryTypeOK, client, server
<1>2. LabelsOK'
  BY <1>d, <1>f DEF IInv, LabelsOK, Answers
<1>3. Refs'
  <2>1. ASSUME NEW u \in Tabs PROVE TabRefs(u)'
    <3>1. TabRefs(u)
      BY DEF IInv, Refs
    <3>2. CASE u # t
      BY <1>a, <1>b, <1>d, <1>e, <3>1, <3>2 DEF QueryTypeOK, client, server, Refs, TabRefs,
           SessionRefs, Of, Active, InTransaction
    <3>3. CASE u = t
      BY <1>a, <1>b, <1>d, <3>1, <3>3, QueryAssumption DEF QueryTypeOK, client, server, Refs,
           TabRefs, SessionRefs, Of, Active, InTransaction
    <3> QED
      BY <3>2, <3>3
  <2> QED
    BY <1>a, <2>1 DEF IInv, Refs, SessionRefs, client
<1>4. Locks'
  <2>1. \A u \in Tabs, r \in Sids :
          /\ Runs(u, r)' <=> Runs(u, r) /\ ~(u = t /\ r = s /\ exec'[t].at = "answer")
          /\ Saves(u, r)' <=> Saves(u, r)
    BY <1>a, <1>d DEF Runs, Saves, Holding
  <2>2. \A u \in Tabs : Runs(u, s) \/ Saves(u, s) => u = t
    BY <1>b DEF IInv, Refs, TabRefs, Runs, Saves, Holding, Active, Of
  <2>3. Runs(t, s)
    BY <1>a DEF Runs, Holding
  <2>4. \A u \in Tabs : exec'[u].at = "reconnect" => u # t /\ txs[exec[u].sid] = "gone" /\ exec[u].sid \in Sids \ {s}
    BY <1>a, <1>b, <1>d DEF IInv, Refs, TabRefs, Active, Of, Locks
  <2> QED
    BY <1>a, <1>b, <1>d, <1>e, <1>f, <2>1, <2>2, <2>3, <2>4 DEF IInv, Locks
<1>5. One'
  <2> SUFFICES ASSUME NEW u \in Tabs PROVE OneOf(u)'
    BY DEF One
  <2>1. CASE u # t
    BY <1>a, <1>d, <2>1 DEF IInv, QueryTypeOK, client, server, One, OneOf, Registered, Active
  <2>2. CASE u = t
    BY <1>a, <1>d, <1>f, <2>2 DEF IInv, One, OneOf, Registered, Active
  <2> QED
    BY <2>1, <2>2
<1>6. SessionHasItsTab'
  BY <1>a DEF IInv, client, SessionHasItsTab
<1>7. Truth'
  <2> SUFFICES ASSUME NEW u \in Tabs PROVE Told(u)'
    BY DEF Truth
  <2>1. \A r \in Sids : Of(r, u) /\ Left(u, r) => Left(u, r)'
    BY <1>a, <1>d DEF client, Left, Active
  <2> QED
    BY <1>a, <2>1 DEF IInv, Truth, Told, Of
<1>8. Once'
  <2> SUFFICES ASSUME NEW u \in Tabs, ~save[u].overlap PROVE OnceOf(u)'
    BY <1>a DEF Once
  <2>1. QueryTypeOK /\ OnceOf(u) /\ (save[u].at = "rows" => Of(save[u].sid, u))
    BY DEF IInv, Once, Refs, TabRefs
  <2>2. CASE u # t
    <3>1. \A r \in Sids : Of(r, u) => Of(r, u)' /\ txs'[r] = txs[r]
      BY <1>a, <1>b, <1>e, <2>2 DEF Of
    <3>2. \A r \in Sids : Of(r, u)' => Of(r, u)
      BY <1>a DEF Of
    <3> QED
      BY <1>a, <1>d, OnceKept, <2>1, <2>2, <3>1, <3>2 DEF client
  <2>3. CASE u = t
    <3>1. Blocked(t)'
      BY <1>d DEF Blocked
    <3>2. save[t].at = "idle"
      BY <1>a, <2>1, <2>3 DEF OnceOf
    <3> QED
      BY <1>a, <2>1, <2>3, <3>1, <3>2 DEF client, OnceOf, Of
  <2> QED
    BY <2>2, <2>3
<1>9. Shown'
  <2> SUFFICES ASSUME NEW u \in Tabs PROVE ShownOf(u)'
    BY DEF Shown
  <2>1. CASE u # t
    <3>1. \A r \in Sids : Open(u, r)' => Open(u, r)
      BY <1>a, <1>b, <1>e, <2>1 DEF Open, Registered, Of, InTransaction
    <3> QED
      BY <1>a, <1>d, <2>1, <3>1 DEF IInv, client, Shown, ShownOf, Due, Looks, SavesOwn, Saves
  <2>2. CASE u = t
    BY <1>a, <1>b, <1>e, <2>2, QueryAssumption DEF client, ShownOf, Open, Registered, TabRefs, Active
  <2> QED
    BY <2>1, <2>2
<1>10. Untouched'
  BY <1>a DEF IInv, QueryTypeOK, client, server, Untouched, Clean, Of
<1> QED
  BY <1>1, <1>2, <1>3, <1>4, <1>5, <1>6, <1>7, <1>8, <1>9, <1>10 DEF IInv

LEMMA FinishSafe ==
    ASSUME IInv, NEW t \in Tabs, NEW state \in {"I", "T", "E", "gone"}, NEW committed \in BOOLEAN,
           exec[t].at = "run", committed => state = "I", cancels' \subseteq Sids,
           Finish(t, state, committed)
    PROVE  IInv'
<1> DEFINE s == exec[t].sid
<1>a. /\ QueryTypeOK /\ TabRefs(t)
      /\ UNCHANGED <<client, opening, save, sess, owner, closes, authed, losses, requested>>
  BY DEF IInv, Refs, Finish
<1>b. /\ Of(s, t) /\ s \in Sids /\ owner[s] = t /\ opening[t] = "none" /\ lock[s] /\ ~Saves(t, s)
      /\ ref[t] \in {None, s}
  BY <1>a DEF TabRefs, Active, Of, IInv, Locks, Runs, Holding
<1>c. /\ exec' \in [Tabs -> RunCalls] /\ exec'[t].at = "answer" /\ exec'[t].sid = s
      /\ \A u \in Tabs : u # t => exec'[u] = exec[u]
      /\ exec'[t].label \in Answers /\ exec'[t].label # "notfound"
      /\ state \in InTransaction => exec'[t].label \in Shows
  <2>1. LabelOf(state) \in Labels /\ AnswerExec(t, LabelOf(state))
    BY DEF Finish, LabelOf, Labels
  <2>2. RunIs(t, "answer", s, LabelOf(state))
    BY <1>a, <2>1, RunAnswers DEF QueryTypeOK
  <2>3. /\ LabelOf(state) \in Answers /\ LabelOf(state) # "notfound"
        /\ state \in InTransaction => LabelOf(state) \in Shows
    BY DEF LabelOf, Answers, Shows, InTransaction
  <2> QED
    BY <2>2, <2>3 DEF RunIs
<1>d. /\ lock' \in [Sids -> BOOLEAN] /\ cancelled' \in [Sids -> BOOLEAN] /\ ~lock'[s]
      /\ \A r \in Sids : r # s => (lock'[r] <=> lock[r])
  BY <1>a, <1>b DEF Finish, Unlock, QueryTypeOK
<1>e. /\ txs' \in [Sids -> {"I", "T", "E", "gone"}] /\ txs'[s] = state
      /\ lost' \in [Sids -> BOOLEAN]
      /\ \A r \in Sids : r # s => txs'[r] = txs[r] /\ (lost'[r] <=> lost[r])
  <2>1. txs \in [Sids -> {"I", "T", "E", "gone"}] /\ lost \in [Sids -> BOOLEAN]
    BY <1>a DEF QueryTypeOK
  <2>2. txs' = [txs EXCEPT ![s] = state] /\ (lost' = lost \/ lost' = [lost EXCEPT ![s] = FALSE])
    BY DEF Finish
  <2> QED
    BY <1>b, <2>1, <2>2
<1>f. /\ pend' \in [Sids -> [Rows -> Nat]]
      /\ \A r \in Sids : r # s => pend'[r] = pend[r]
      /\ pend'[s] = pend[s] \/ pend'[s] = Nothing
      /\ committed => pend'[s] = Nothing
  <2>1. pend \in [Sids -> [Rows -> Nat]] /\ Nothing \in [Rows -> Nat]
    BY <1>a DEF QueryTypeOK, Nothing
  <2>2. /\ pend' = pend \/ pend' = [pend EXCEPT ![s] = Nothing]
        /\ committed => pend' = [pend EXCEPT ![s] = Nothing]
    BY DEF Finish
  <2> QED
    BY <1>b, <2>1, <2>2
<1>g. /\ db' \in [Tabs -> [Rows -> Nat]]
      /\ \A u \in Tabs : u # t => db'[u] = db[u]
      /\ pend[s] = Nothing => db'[t] = db[t]
      /\ \A i \in Rows : db'[t][i] >= db[t][i]
      /\ \/ db' = db
         \/ /\ pend'[s] = Nothing
            /\ \A i \in Rows : i > Updates => db'[t][i] = db[t][i] + pend[s][i]
  <2>1. CASE committed
    <3>1. CommitPending(s)
      BY <2>1 DEF Finish
    <3> QED
      BY <1>a, <1>b, <1>f, <2>1, <3>1, Commits
  <2>2. CASE ~committed
    <3>1. db' = db
      BY <2>2 DEF Finish
    <3> QED
      BY <1>a, <3>1 DEF QueryTypeOK
  <2> QED
    BY <2>1, <2>2
<1>h. \A r \in Sids, u \in Tabs : (Of(r, u)' <=> Of(r, u)) /\ (u # t /\ Of(r, u) => r # s)
  BY <1>a, <1>b DEF Of
<1>1. QueryTypeOK'
  BY <1>a, <1>c, <1>d, <1>e, <1>f, <1>g DEF QueryTypeOK, client, server
<1>2. LabelsOK'
  BY <1>c DEF IInv, LabelsOK
<1>3. Refs'
  <2>1. ASSUME NEW u \in Tabs PROVE TabRefs(u)'
    <3>1. TabRefs(u)
      BY DEF IInv, Refs
    <3>2. CASE u # t
      BY <1>a, <1>c, <1>e, <1>h, <3>1, <3>2 DEF client, TabRefs, Active, InTransaction, Of
    <3>3. CASE u = t
      BY <1>a, <1>b, <1>c, <3>1, <3>3, QueryAssumption DEF client, TabRefs, Active, Of
    <3> QED
      BY <3>2, <3>3
  <2>2. ASSUME NEW r \in Sids PROVE SessionRefs(r)'
    BY <1>a, <1>b, <1>f DEF IInv, Refs, SessionRefs, client, Of
  <2> QED
    BY <2>1, <2>2 DEF Refs
<1>4. Locks'
  <2>1. \A u \in Tabs, r \in Sids :
          /\ Runs(u, r)' <=> Runs(u, r) /\ ~(u = t /\ r = s)
          /\ Saves(u, r)' <=> Saves(u, r)
    BY <1>a, <1>c DEF Runs, Saves, Holding
  <2>2. \A u \in Tabs : Runs(u, s) \/ Saves(u, s) => u = t
    BY <1>b DEF IInv, Refs, TabRefs, Runs, Saves, Holding, Active, Of
  <2>3. Runs(t, s) /\ \A r \in Sids : Runs(t, r) => r = s
    BY DEF Runs, Holding
  <2>4. \A u \in Tabs : exec'[u].at = "reconnect" => u # t /\ txs[exec[u].sid] = "gone" /\ exec[u].sid \in Sids \ {s}
    BY <1>a, <1>b, <1>c DEF IInv, Refs, TabRefs, Active, Of, Locks
  <2> QED
    BY <1>a, <1>b, <1>c, <1>d, <1>e, <2>1, <2>2, <2>3, <2>4 DEF IInv, Locks
<1>5. One'
  <2> SUFFICES ASSUME NEW u \in Tabs PROVE OneOf(u)'
    BY DEF One
  <2>1. CASE u # t
    BY <1>a, <1>c, <2>1 DEF IInv, One, OneOf, Registered, Active
  <2>2. CASE u = t
    BY <1>a, <1>c, <2>2 DEF IInv, One, OneOf, Registered, Active
  <2> QED
    BY <2>1, <2>2
<1>6. SessionHasItsTab'
  BY <1>a DEF IInv, client, SessionHasItsTab
<1>7. Truth'
  <2> SUFFICES ASSUME NEW u \in Tabs PROVE Told(u)'
    BY DEF Truth
  <2>0. Told(u)
    BY DEF IInv, Truth
  <2>1. \A r \in Sids : Of(r, u) /\ Left(u, r) => Left(u, r)'
    BY <1>a, <1>c DEF client, Left, Active
  <2>2. \A r \in Sids : pend[r] = Nothing => pend'[r] = Nothing
    BY <1>f
  <2>3. CASE u # t
    <3>1. \A r \in Sids : Of(r, u) => pend'[r] = pend[r] /\ (lost'[r] <=> lost[r])
      BY <1>e, <1>f, <1>h, <2>3
    <3>2. save[u].at # "idle" => save[u].sid \in Sids /\ Of(save[u].sid, u)
      BY DEF IInv, Refs, TabRefs, Of
    <3> QED
      BY <1>a, <1>g, <1>h, <2>0, <2>1, <2>3, <3>1, <3>2 DEF Told
  <2>4. CASE u = t
    <3>1. ~Left(t, s)
      BY DEF Left, Active
    <3>2. save[t].said = "nothing" \/ save[t].at = "rows" => pend[s] = Nothing
      BY <1>b, <2>0, <2>4, <3>1 DEF Told, Saves
    <3>3. save[t].at = "rows" => save[t].sid \in Sids \ {s}
      BY <1>b DEF IInv, Refs, TabRefs, Of, Saves
    <3>4. save[t].at = "rows" /\ ~lost'[save[t].sid] => \A i \in Rows : i < save[t].row => pend'[save[t].sid][i] >= 1
      BY <1>e, <1>f, <2>0, <2>4, <3>3 DEF Told
    <3>5. save[t].said = "committed" => \A i \in Rows : db'[t][i] >= 1
      BY <1>a, <1>g, <2>0, <2>4 DEF Told, QueryTypeOK
    <3> QED
      BY <1>a, <1>g, <1>h, <2>0, <2>1, <2>2, <2>4, <3>2, <3>4, <3>5 DEF Told
  <2> QED
    BY <2>3, <2>4
<1>8. Once'
  <2> SUFFICES ASSUME NEW u \in Tabs, ~save[u].overlap PROVE OnceOf(u)'
    BY <1>a DEF Once
  <2>1. QueryTypeOK /\ OnceOf(u) /\ (save[u].at = "rows" => Of(save[u].sid, u))
    BY DEF IInv, Once, Refs, TabRefs
  <2>2. CASE u # t
    <3>1. \A r \in Sids : Of(r, u) => txs'[r] = txs[r] /\ pend'[r] = pend[r]
      BY <1>e, <1>f, <1>h, <2>2
    <3> QED
      BY <1>a, <1>c, <1>g, <1>h, OnceKept, <2>1, <2>2, <3>1 DEF client
  <2>3. CASE u = t
    <3>1. Blocked(t)'
      BY <1>c DEF Blocked
    <3>2. save[t].at = "idle"
      BY <2>1, <2>3 DEF OnceOf
    <3>3. ASSUME NEW i \in InsertRows
          PROVE  /\ db'[t][i] <= 1
                 /\ \A r \in Sids : Of(r, t)' => db'[t][i] + pend'[r][i] <= 1
                 /\ \A q, r \in Sids : Of(q, t)' /\ Of(r, t)' /\ q # r => pend'[q][i] + pend'[r][i] <= 1
      <4>1. i \in Rows /\ i > Updates
        BY QueryAssumption DEF InsertRows, Rows
      <4>2. db[t][i] \in Nat /\ \A r \in Sids : pend[r][i] \in Nat /\ pend'[r][i] \in {pend[r][i], 0}
        <5>1. db[t] \in [Rows -> Nat] /\ \A r \in Sids : pend[r] \in [Rows -> Nat]
          BY <1>a DEF QueryTypeOK
        <5>2. \A r \in Sids : pend'[r] = pend[r] \/ pend'[r] = Nothing
          BY <1>f
        <5>3. Nothing[i] = 0
          BY <4>1 DEF Nothing
        <5> QED
          BY <4>1, <5>1, <5>2, <5>3
      <4>3. /\ db[t][i] <= 1 /\ \A r \in Sids : Of(r, t) => db[t][i] + pend[r][i] <= 1
            /\ \A q, r \in Sids : Of(q, t) /\ Of(r, t) /\ q # r => pend[q][i] + pend[r][i] <= 1
        BY <2>1, <2>3 DEF OnceOf
      <4>4. db'[t][i] = db[t][i] \/ (db'[t][i] = db[t][i] + pend[s][i] /\ pend'[s][i] = 0)
        BY <1>g, <4>1 DEF Nothing
      <4> QED
        BY <1>b, <1>h, <4>2, <4>3, <4>4
    <3> QED
      BY <1>a, <2>1, <2>3, <3>1, <3>2, <3>3 DEF client, OnceOf
  <2> QED
    BY <2>2, <2>3
<1>9. Shown'
  <2> SUFFICES ASSUME NEW u \in Tabs PROVE ShownOf(u)'
    BY DEF Shown
  <2>1. CASE u # t
    <3>1. \A r \in Sids : Open(u, r)' => Open(u, r)
      BY <1>a, <1>e, <1>h, <2>1 DEF Open, Registered, Of
    <3> QED
      BY <1>a, <1>c, <2>1, <3>1 DEF IInv, client, Shown, ShownOf, Due, Looks, SavesOwn, Saves
  <2>2. CASE u = t
    <3>1. \A r \in Sids : Open(t, r)' /\ ref'[t] = r => exec'[t].label \in Shows
      BY <1>a, <1>b, <1>c, <1>e, QueryAssumption DEF client, Open
    <3> QED
      BY <1>c, <2>2, <3>1 DEF ShownOf, Due, Shows
  <2> QED
    BY <2>1, <2>2
<1>10. Untouched'
  <2> SUFFICES ASSUME NEW u \in Tabs, gridEdits[u] \in {"none", "editable"}
               PROVE  save[u].at = "idle" /\ Clean(u)'
    BY <1>a DEF client, Untouched
  <2>1. save[u].at = "idle" /\ Clean(u)
    BY DEF IInv, Untouched
  <2>2. ASSUME NEW i \in InsertRows
        PROVE  db'[u][i] = 0 /\ \A r \in Sids : Of(r, u)' => pend'[r][i] = 0
    <3>1. i \in Rows /\ i > Updates
      BY QueryAssumption DEF InsertRows, Rows
    <3>2. db[u][i] = 0 /\ \A r \in Sids : Of(r, u) => pend[r][i] = 0
      BY <2>1 DEF Clean
    <3>3. \A r \in Sids : pend'[r] = pend[r] \/ pend'[r][i] = 0
      BY <1>f, <3>1 DEF Nothing
    <3> QED
      BY <1>b, <1>g, <1>h, <3>1, <3>2, <3>3
  <2> QED
    BY <2>1, <2>2 DEF Clean
<1> QED
  BY <1>1, <1>2, <1>3, <1>4, <1>5, <1>6, <1>7, <1>8, <1>9, <1>10 DEF IInv

LEMMA SaveTableChangesSafe ==
    ASSUME IInv, NEW t \in Tabs, SaveTableChanges(t)
    PROVE  IInv'
<1> DEFINE s == save[t].sid
<1>a. /\ QueryTypeOK /\ TabRefs(t) /\ save[t].at = "sent"
      /\ UNCHANGED <<client, opening, exec, sess, owner, cancelled, pend, db, closes, cancels, authed,
                     losses, requested>>
  BY DEF IInv, Refs, SaveTableChanges
<1>b. Of(s, t) /\ s \in Sids /\ s # opening[t] /\ owner[s] = t
  BY <1>a DEF TabRefs, Of
<1>c. /\ txs \in [Sids -> {"I", "T", "E", "gone"}] /\ lost \in [Sids -> BOOLEAN] /\ lock \in [Sids -> BOOLEAN]
      /\ save \in [Tabs -> SaveCalls] /\ db[t] \in [Rows -> Nat]
  BY <1>a DEF QueryTypeOK
<1>d. \A r \in Sids, u \in Tabs : (Of(r, u)' <=> Of(r, u)) /\ (u # t /\ Of(r, u) => r # s)
  BY <1>a, <1>b DEF Of
<1>e. \A u \in Tabs, r \in Sids : /\ Registered(r, u)' <=> Registered(r, u)
                                  /\ Left(u, r)' <=> Left(u, r)
                                  /\ Runs(u, r)' <=> Runs(u, r)
  BY <1>a DEF client, Registered, Left, Runs
\* What the answer of a refused save and the first step of the others leave as it was.
<1>2. LabelsOK'
  BY <1>a DEF IInv, LabelsOK
<1>5. One'
  BY <1>a, <1>e DEF IInv, One, OneOf
<1>6. SessionHasItsTab'
  BY <1>a DEF IInv, client, SessionHasItsTab
<1>f. CASE ~Known(s) \/ lock[s] \/ ~Savable(s) \/ (txs[s] = "I" /\ lost[s])
  <2>a. /\ save' \in [Tabs -> SaveCalls] /\ \A u \in Tabs : u # t => save'[u] = save[u]
        /\ save'[t].at = "answer" /\ save'[t].said = "refused" /\ save'[t].sid = s
        /\ (save'[t].own <=> save[t].own) /\ (save'[t].overlap <=> save[t].overlap)
    <3>1. AnswerSave(t, "refused") /\ "refused" \in SaveAnswers
      BY <1>f DEF SaveTableChanges, SaveAnswers
    <3> QED
      BY <1>c, <3>1, SaveAnswered DEF SaveIs
  <2>b. /\ lock' = lock
        /\ txs' \in [Sids -> {"I", "T", "E", "gone"}] /\ lost' \in [Sids -> BOOLEAN]
        /\ \A r \in Sids : txs'[r] = txs[r] \/ (r = s /\ txs'[r] = "gone")
    <3>1. lock' = lock /\ (txs' = txs \/ txs' = [txs EXCEPT ![s] = "gone"])
                       /\ (lost' = lost \/ lost' = [lost EXCEPT ![s] = FALSE])
      BY <1>f DEF SaveTableChanges
    <3> QED
      BY <1>b, <1>c, <3>1
  <2>1. QueryTypeOK'
    BY <1>a, <2>a, <2>b DEF QueryTypeOK, client
  <2>3. Refs'
    <3>1. ASSUME NEW u \in Tabs PROVE TabRefs(u)'
      <4>1. TabRefs(u)
        BY DEF IInv, Refs
      <4>2. CASE u # t
        BY <1>a, <1>d, <2>a, <2>b, <4>1, <4>2 DEF client, TabRefs, InTransaction, Of
      <4>3. CASE u = t
        BY <1>a, <1>b, <1>d, <2>a, <2>b, <4>1, <4>3 DEF client, TabRefs, InTransaction, Of
      <4> QED
        BY <4>2, <4>3
    <3> QED
      BY <1>a, <3>1 DEF IInv, Refs, SessionRefs, client
  <2>4. Locks'
    <3>1. \A u \in Tabs, r \in Sids : (Saves(u, r)' <=> Saves(u, r)) /\ ~Saves(t, r)
      BY <1>a, <2>a DEF Saves
    <3>2. \A u \in Tabs, r \in Sids : Saves(u, r) => u # t /\ r # s
      BY <1>d, <3>1 DEF IInv, Refs, TabRefs, Saves
    <3>3. \A u \in Tabs : exec[u].at = "reconnect" => txs[exec[u].sid] = "gone" /\ exec[u].sid \in Sids
      BY DEF IInv, Refs, TabRefs, Active, Of, Locks
    <3> QED
      BY <1>a, <1>e, <2>b, <3>1, <3>2, <3>3 DEF IInv, Locks
  <2>7. Truth'
    <3> SUFFICES ASSUME NEW u \in Tabs PROVE Told(u)'
      BY DEF Truth
    <3>1. CASE u # t
      <4>1. save[u].at = "rows" => lost'[save[u].sid] = lost[save[u].sid]
        <5>1. save[u].at = "rows" => save[u].sid \in Sids \ {s}
          BY <1>b, <3>1 DEF IInv, Refs, TabRefs, Of
        <5> QED
          BY <1>c, <1>f, <5>1 DEF SaveTableChanges
      <4> QED
        BY <1>a, <1>d, <1>e, <2>a, <3>1, <4>1 DEF IInv, Truth, Told
    <3>2. CASE u = t
      BY <1>a, <1>d, <1>e, <2>a, <3>2 DEF IInv, Truth, Told
    <3> QED
      BY <3>1, <3>2
  <2>8. Once'
    <3> SUFFICES ASSUME NEW u \in Tabs, ~save'[u].overlap PROVE OnceOf(u)'
      BY DEF Once
    <3>1. QueryTypeOK /\ OnceOf(u) /\ (save[u].at = "rows" => Of(save[u].sid, u))
      BY <2>a DEF IInv, Once, Refs, TabRefs
    <3>2. CASE u # t
      BY <1>a, <1>d, <2>a, <2>b, OnceKept, <3>1, <3>2 DEF client
    <3>3. CASE u = t
      <4>1. MaySave(t) /\ (Blocked(t) => Blocked(t)') /\ (Clean(t) => Clean(t)')
        BY <1>a, <1>d, <2>a, <2>b DEF MaySave, Blocked, Clean
      <4> QED
        BY <1>a, <1>d, <2>a, <3>1, <3>3, <4>1 DEF client, OnceOf
    <3> QED
      BY <3>2, <3>3
  <2>9. Shown'
    <3> SUFFICES ASSUME NEW u \in Tabs PROVE ShownOf(u)'
      BY DEF Shown
    <3>1. \A r \in Sids : Open(u, r)' => Open(u, r)
      BY <1>e, <2>b DEF Open, InTransaction, Registered
    <3>2. \A r \in Sids : SavesOwn(u, r)' <=> SavesOwn(u, r)
      BY <1>a, <2>a DEF SavesOwn, Saves
    <3>3. (Looks(u)' <=> Looks(u)) /\ (Due(u)' <=> Due(u))
      BY <1>a, <2>a DEF client, Looks, Due
    <3>4. (save'[u].at # "idle" /\ save'[u].own) => (save[u].at # "idle" /\ save[u].own)
      BY <1>a, <2>a
    <3> QED
      BY <1>a, <3>1, <3>2, <3>3, <3>4 DEF IInv, client, Shown, ShownOf
  <2>10. Untouched'
    BY <1>a, <1>d, <2>a DEF IInv, client, Untouched, Clean
  <2> QED
    BY <1>2, <1>5, <1>6, <2>1, <2>3, <2>4, <2>7, <2>8, <2>9, <2>10 DEF IInv
<1>g. CASE ~(~Known(s) \/ lock[s] \/ ~Savable(s) \/ (txs[s] = "I" /\ lost[s]))
  <2>a. /\ save' \in [Tabs -> SaveCalls] /\ \A u \in Tabs : u # t => save'[u] = save[u]
        /\ save'[t].at = "rows" /\ save'[t].row = 1 /\ save'[t].sid = s /\ save'[t].before = db[t]
        /\ (save'[t].own <=> txs[s] # "T") /\ (save'[t].overlap <=> save[t].overlap)
        /\ save'[t].said = save[t].said
    <3> DEFINE own == txs[s] # "T"
    <3>1. own \in BOOLEAN
      OBVIOUS
    <3>2. save' = [save EXCEPT ![t] = [@ EXCEPT !.at = "rows", !.row = 1, !.own = own, !.before = db[t]]]
      BY <1>g DEF SaveTableChanges
    <3> HIDE DEF own
    <3>3. SaveIs(t, "rows", 1, s, own, save[t].overlap, save[t].said, db[t])
      BY <1>c, <3>1, <3>2, SaveBegins
    <3> QED
      BY <3>3 DEF SaveIs, own
  <2>b. /\ authed /\ sess[s] = "registered" /\ ~lock[s] /\ txs[s] \in {"I", "T"}
        /\ txs' = [txs EXCEPT ![s] = "T"] /\ lock' = [lock EXCEPT ![s] = TRUE] /\ lost' = lost
    BY <1>g DEF SaveTableChanges, Known, Savable
  <2>c. /\ txs' \in [Sids -> {"I", "T", "E", "gone"}] /\ lock' \in [Sids -> BOOLEAN]
        /\ txs'[s] = "T" /\ lock'[s]
        /\ \A r \in Sids : r # s => txs'[r] = txs[r] /\ (lock'[r] <=> lock[r])
    BY <1>b, <1>c, <2>b
  <2>1. QueryTypeOK'
    BY <1>a, <2>a, <2>b, <2>c DEF QueryTypeOK, client
  <2>3. Refs'
    <3>1. ASSUME NEW u \in Tabs PROVE TabRefs(u)'
      <4>1. TabRefs(u)
        BY DEF IInv, Refs
      <4>2. CASE u # t
        BY <1>a, <1>d, <2>a, <2>c, <4>1, <4>2 DEF client, TabRefs, InTransaction, Of
      <4>3. CASE u = t
        BY <1>a, <1>b, <1>d, <2>a, <2>c, <4>1, <4>3 DEF client, TabRefs, InTransaction, Of
      <4> QED
        BY <4>2, <4>3
    <3> QED
      BY <1>a, <3>1 DEF IInv, Refs, SessionRefs, client
  <2>4. Locks'
    <3>1. \A u \in Tabs, r \in Sids : Saves(u, r)' <=> Saves(u, r) \/ (u = t /\ r = s)
      BY <1>a, <2>a DEF Saves
    <3>2. \A u \in Tabs, r \in Sids : Saves(u, r) \/ Runs(u, r) => r # s
      BY <2>b DEF IInv, Locks
    <3>3. \A u \in Tabs : exec[u].at = "reconnect" => txs[exec[u].sid] = "gone" /\ exec[u].sid \in Sids \ {s}
      BY <2>b DEF IInv, Refs, TabRefs, Active, Of, Locks
    <3> QED
      BY <1>a, <1>b, <1>e, <2>c, <3>1, <3>2, <3>3 DEF IInv, Locks
  <2>7. Truth'
    <3> SUFFICES ASSUME NEW u \in Tabs PROVE Told(u)'
      BY DEF Truth
    <3>1. CASE u # t
      BY <1>a, <1>d, <1>e, <2>a, <2>b, <3>1 DEF IInv, Truth, Told
    <3>2. CASE u = t
      <4>1. \A i \in Rows : ~(i < 1)
        BY QueryAssumption DEF Rows
      <4> QED
        BY <1>a, <1>d, <1>e, <2>a, <3>2, <4>1 DEF IInv, Truth, Told
    <3> QED
      BY <3>1, <3>2
  <2>8. Once'
    <3> SUFFICES ASSUME NEW u \in Tabs, ~save'[u].overlap PROVE OnceOf(u)'
      BY DEF Once
    <3>1. QueryTypeOK /\ OnceOf(u) /\ (save[u].at = "rows" => Of(save[u].sid, u))
      BY <2>a DEF IInv, Once, Refs, TabRefs
    <3>2. CASE u # t
      <4>1. \A r \in Sids : Of(r, u) => txs'[r] = txs[r]
        BY <1>d, <2>c, <3>2
      <4> QED
        BY <1>a, <1>d, <2>a, OnceKept, <3>1, <3>2, <4>1 DEF client
    <3>3. CASE u = t
      <4>1. exec[t].at = "idle" /\ (Clean(t) \/ Blocked(t))
        BY <1>a, <3>1, <3>3 DEF OnceOf, MaySave
      <4>2. Clean(t)
        BY <1>a, <2>b, <4>1 DEF Blocked
      <4> QED
        BY <1>a, <1>b, <1>d, <2>a, <3>1, <3>3, <4>1, <4>2 DEF client, OnceOf, MaySave, Clean
    <3> QED
      BY <3>2, <3>3
  <2>9. Shown'
    <3> SUFFICES ASSUME NEW u \in Tabs PROVE ShownOf(u)'
      BY DEF Shown
    <3>1. CASE u # t
      <4>1. \A r \in Sids : Open(u, r)' => Open(u, r)
        BY <1>a, <1>d, <1>e, <2>c, <3>1 DEF Open, Registered, Of
      <4> QED
        BY <1>a, <2>a, <3>1, <4>1 DEF IInv, client, Shown, ShownOf, Due, Looks, SavesOwn, Saves
    <3>2. CASE u = t
      <4> SUFFICES ASSUME NEW r \in Sids, Open(t, r)', ref[t] = r
                   PROVE  /\ tx[t] \in Shows \/ Due(t)' \/ SavesOwn(t, r)'
                          /\ exec[t].at = "answer" =>
                               /\ exec[t].label \in {"idle", "closed"} => SavesOwn(t, r)'
                               /\ exec[t].label \notin Shows /\ save'[t].own => SavesOwn(t, r)'
        BY <1>a, <2>a, <3>2 DEF client, ShownOf
      <4>1. r = s
        <5>1. Registered(r, t) /\ Registered(s, t) /\ s \notin closes
          BY <1>a, <1>b, <1>e, <2>b, QueryAssumption DEF Open, Registered, IInv, Refs, SessionRefs, TabRefs
        <5>2. opening[owner[s]] # s
          BY <1>b
        <5> QED
          BY <1>b, <2>b, <5>1, <5>2 DEF IInv, SessionHasItsTab
      <4>2. SavesOwn(t, r)' \/ (~save'[t].own /\ Open(t, r))
        BY <1>e, <2>a, <2>c, <4>1 DEF SavesOwn, Saves, Open, InTransaction, Registered
      <4>3. Open(t, r) => /\ tx[t] \in Shows \/ Due(t)
                          /\ exec[t].at = "answer" => exec[t].label \notin {"idle", "closed"}
        BY <1>a, <4>1 DEF IInv, Shown, ShownOf, Looks, SavesOwn, Saves
      <4>4. Due(t)' <=> Due(t)
        BY <1>a DEF Due
      <4> QED
        BY <4>2, <4>3, <4>4
    <3> QED
      BY <3>1, <3>2
  <2>10. Untouched'
    BY <1>a, <1>d, <2>a DEF IInv, client, Untouched, Clean
  <2> QED
    BY <1>2, <1>5, <1>6, <2>1, <2>3, <2>4, <2>7, <2>8, <2>9, <2>10 DEF IInv
<1> QED
  BY <1>f, <1>g

LEMMA SaveAppliesSafe ==
    ASSUME IInv, NEW t \in Tabs, NEW i \in Rows, save[t].at = "rows", i = save[t].row, ~lost[save[t].sid],
           pend' = [pend EXCEPT ![save[t].sid][i] = IF i <= Updates THEN 1 ELSE @ + 1],
           save' = [save EXCEPT ![t].row = i + 1],
           UNCHANGED <<client, opening, exec, sess, owner, lock, cancelled, txs, lost, db, closes,
                       authed, losses, requested>>, cancels' \subseteq Sids
    PROVE  IInv'
<1> DEFINE s == save[t].sid
<1>a. /\ QueryTypeOK /\ TabRefs(t)
      /\ UNCHANGED <<client, opening, exec, sess, owner, lock, cancelled, txs, lost, db, closes,
                     authed, losses, requested>>
  BY DEF IInv, Refs
<1>b. Of(s, t) /\ s \in Sids /\ owner[s] = t /\ save[t].said = "none"
  BY <1>a DEF IInv, Truth, Told, TabRefs, Of
<1>c. /\ save' \in [Tabs -> SaveCalls] /\ \A u \in Tabs : u # t => save'[u] = save[u]
      /\ save'[t].at = "rows" /\ save'[t].row = i + 1 /\ save'[t].sid = s /\ save'[t].before = save[t].before
      /\ (save'[t].own <=> save[t].own) /\ (save'[t].overlap <=> save[t].overlap)
      /\ save'[t].said = save[t].said
  <2>1. save \in [Tabs -> SaveCalls]
    BY <1>a DEF QueryTypeOK
  <2>2. SaveIs(t, save[t].at, i + 1, s, save[t].own, save[t].overlap, save[t].said, save[t].before)
    BY <2>1, SaveGoesOn
  <2> QED
    BY <2>2 DEF SaveIs
<1>d. /\ pend' \in [Sids -> [Rows -> Nat]]
      /\ \A r \in Sids : r # s => pend'[r] = pend[r]
      /\ \A j \in Rows : j # i => pend'[s][j] = pend[s][j]
      /\ pend'[s][i] >= 1 /\ (i > Updates => pend'[s][i] = pend[s][i] + 1)
  <2>1. pend \in [Sids -> [Rows -> Nat]] /\ pend[s] \in [Rows -> Nat] /\ pend[s][i] \in Nat
    BY <1>a, <1>b DEF QueryTypeOK
  <2> DEFINE n == IF i <= Updates THEN 1 ELSE pend[s][i] + 1
             row == [pend[s] EXCEPT ![i] = n]
  <2>2. n \in Nat /\ n >= 1 /\ (i > Updates => n = pend[s][i] + 1)
    <3>1. i \in Int /\ Updates \in Int /\ pend[s][i] \in Nat
      BY <2>1, QueryAssumption DEF Rows
    <3> QED
      BY <3>1
  <2>3. pend' = [pend EXCEPT ![s] = row]
    OBVIOUS
  <2> HIDE DEF n
  <2>4. row \in [Rows -> Nat] /\ row[i] = n /\ \A j \in Rows : j # i => row[j] = pend[s][j]
    BY <2>1, <2>2
  <2> HIDE DEF row
  <2> QED
    BY <1>b, <2>1, <2>2, <2>3, <2>4
<1>e. \A r \in Sids, u \in Tabs : /\ Of(r, u)' <=> Of(r, u)
                                  /\ u # t /\ Of(r, u) => r # s
                                  /\ Registered(r, u)' <=> Registered(r, u)
                                  /\ Left(u, r)' <=> Left(u, r)
                                  /\ Runs(u, r)' <=> Runs(u, r)
                                  /\ Saves(u, r)' <=> Saves(u, r)
                                  /\ SavesOwn(u, r)' <=> SavesOwn(u, r)
                                  /\ Open(u, r)' <=> Open(u, r)
  BY <1>a, <1>b, <1>c DEF client, Of, Registered, Left, Runs, Saves, SavesOwn, Open
<1>1. QueryTypeOK'
  BY <1>a, <1>c, <1>d DEF QueryTypeOK, client
<1>2. LabelsOK'
  BY <1>a DEF IInv, LabelsOK
<1>3. Refs'
  <2>1. ASSUME NEW u \in Tabs PROVE TabRefs(u)'
    <3>1. TabRefs(u) /\ save'[u].at = save[u].at /\ save'[u].sid = save[u].sid /\ save'[u].said = save[u].said
      BY <1>c DEF IInv, Refs
    <3> QED
      BY <1>a, <1>e, <3>1 DEF client, TabRefs, Of
  <2>2. ASSUME NEW r \in Sids PROVE SessionRefs(r)'
    BY <1>a, <1>b, <1>d DEF IInv, Refs, SessionRefs, client, Of
  <2> QED
    BY <2>1, <2>2 DEF Refs
<1>4. Locks'
  BY <1>a, <1>e DEF IInv, Locks
<1>5. One'
  BY <1>a, <1>e DEF IInv, One, OneOf
<1>6. SessionHasItsTab'
  BY <1>a DEF IInv, client, SessionHasItsTab
<1>7. Truth'
  <2> SUFFICES ASSUME NEW u \in Tabs PROVE Told(u)'
    BY DEF Truth
  <2>1. CASE u # t
    <3>1. \A r \in Sids : Of(r, u) => pend'[r] = pend[r]
      BY <1>d, <1>e, <2>1
    <3>2. save[u].at # "idle" => Of(save[u].sid, u) /\ save[u].sid \in Sids
      BY DEF IInv, Refs, TabRefs, Of
    <3> QED
      BY <1>a, <1>c, <1>e, <2>1, <3>1, <3>2 DEF IInv, Truth, Told
  <2>2. CASE u = t
    <3>1. \A j \in Rows : j < i + 1 => pend'[s][j] >= 1
      BY <1>d, <2>2, QueryAssumption DEF IInv, Truth, Told, Rows
    <3>2. i + 1 >= 1
      BY QueryAssumption DEF Rows
    <3> QED
      BY <1>a, <1>b, <1>c, <1>d, <1>e, <2>2, <3>1, <3>2 DEF IInv, Truth, Told
  <2> QED
    BY <2>1, <2>2
<1>8. Once'
  <2> SUFFICES ASSUME NEW u \in Tabs, ~save'[u].overlap PROVE OnceOf(u)'
    BY DEF Once
  <2>1. QueryTypeOK /\ OnceOf(u) /\ (save[u].at = "rows" => Of(save[u].sid, u))
    BY <1>c DEF IInv, Once, Refs, TabRefs
  <2>2. CASE u # t
    <3>1. \A r \in Sids : Of(r, u) => pend'[r] = pend[r]
      BY <1>d, <1>e, <2>2
    <3> QED
      BY <1>a, <1>c, <1>e, OnceKept, <2>1, <2>2, <3>1 DEF client
  <2>3. CASE u = t
    <3>1. ASSUME NEW j \in InsertRows
          PROVE  /\ db[t][j] = 0 /\ pend'[s][j] <= 1 /\ (j >= i + 1 => pend'[s][j] = 0)
                 /\ \A r \in Sids : Of(r, t) /\ r # s => pend'[r][j] = 0
      <4>1. j \in Rows /\ j > Updates /\ j \in Int /\ i \in Int
        BY QueryAssumption DEF InsertRows, Rows
      <4>2. /\ db[t][j] = 0 /\ pend[s][j] <= 1 /\ (j >= i => pend[s][j] = 0)
            /\ \A r \in Sids : Of(r, t) /\ r # s => pend[r][j] = 0
        BY <2>1, <2>3 DEF OnceOf
      <4> QED
        BY <1>d, <4>1, <4>2
    <3>2. \A j \in InsertRows, r \in Sids : pend'[r][j] \in Nat
      BY <1>d, QueryAssumption DEF InsertRows, Rows
    <3>3. ~MaySave(t)'
      BY <1>c DEF MaySave
    <3>4. ASSUME NEW j \in InsertRows
          PROVE  /\ db[t][j] <= 1 /\ \A r \in Sids : Of(r, t) => db[t][j] + pend'[r][j] <= 1
                 /\ \A q, r \in Sids : Of(q, t) /\ Of(r, t) /\ q # r => pend'[q][j] + pend'[r][j] <= 1
      BY <1>b, <3>1, <3>2
    <3> QED
      BY <1>a, <1>c, <1>e, <2>1, <2>3, <3>1, <3>3, <3>4 DEF client, OnceOf
  <2> QED
    BY <2>2, <2>3
<1>9. Shown'
  <2>1. \A u \in Tabs : save'[u].at = save[u].at /\ (save'[u].own <=> save[u].own)
    BY <1>c
  <2>2. \A u \in Tabs : (Looks(u)' <=> Looks(u)) /\ (Due(u)' <=> Due(u))
    BY <1>a, <2>1 DEF client, Looks, Due
  <2> QED
    BY <1>a, <1>e, <2>1, <2>2 DEF IInv, client, Shown, ShownOf
<1>10. Untouched'
  <2>1. \A u \in Tabs : gridEdits[u] \in {"none", "editable"} => u # t /\ save'[u].at = "idle" /\ Clean(u)
    BY <1>c DEF IInv, Untouched
  <2> QED
    BY <1>a, <1>d, <1>e, <2>1 DEF client, Untouched, Clean
<1> QED
  BY <1>1, <1>2, <1>3, <1>4, <1>5, <1>6, <1>7, <1>8, <1>9, <1>10 DEF IInv

LEMMA SaveFailsSafe ==
    ASSUME IInv, NEW t \in Tabs, NEW state \in {"T", "E", "gone"},
           save[t].at = "rows", save[t].row \in Rows, state = "T" => save[t].row <= Updates,
           SaveFails(t, state), cancels' \subseteq Sids,
           UNCHANGED <<client, opening, exec, sess, owner, closes, authed, losses, requested>>
    PROVE  IInv'
<1> DEFINE s == save[t].sid
           own == save[t].own
           left == IF own /\ state # "gone" THEN "I" ELSE state
<1>a. /\ QueryTypeOK /\ TabRefs(t) /\ db' = db
      /\ UNCHANGED <<client, opening, exec, sess, owner, closes, authed, losses, requested>>
  BY DEF IInv, Refs, SaveFails
<1>b. /\ Of(s, t) /\ s \in Sids /\ owner[s] = t /\ s # opening[t] /\ lock[s] /\ txs[s] = "T" /\ Saves(t, s)
      /\ \A u \in Tabs : ~Runs(u, s)
  <2>1. Of(s, t) /\ s \in Sids /\ s # opening[t] /\ Saves(t, s)
    BY <1>a DEF TabRefs, Of, Saves
  <2>2. \A u \in Tabs : Runs(u, s) => u = t
    BY <2>1 DEF IInv, Refs, TabRefs, Runs, Holding, Active, Of
  <2> QED
    BY <2>1, <2>2 DEF IInv, Locks, Of
<1>c. /\ save' \in [Tabs -> SaveCalls] /\ \A u \in Tabs : u # t => save'[u] = save[u]
      /\ save'[t].at = "answer" /\ save'[t].sid = s /\ save'[t].before = save[t].before
      /\ (save'[t].own <=> own) /\ (save'[t].overlap <=> save[t].overlap)
      /\ save'[t].said \in {"nothing", "failed"} /\ (save'[t].said = "nothing" => own)
  <2> DEFINE said == IF own THEN "nothing" ELSE "failed"
  <2>1. said \in SaveAnswers /\ said \in {"nothing", "failed"} /\ (said = "nothing" => own)
    BY DEF SaveAnswers
  <2>2. AnswerSave(t, said)
    BY DEF SaveFails
  <2> HIDE DEF said
  <2> QED
    BY <1>a, <2>1, <2>2, SaveAnswered DEF SaveIs, QueryTypeOK
<1>d. /\ lock' \in [Sids -> BOOLEAN] /\ cancelled' \in [Sids -> BOOLEAN] /\ ~lock'[s]
      /\ \A r \in Sids : r # s => (lock'[r] <=> lock[r])
  BY <1>a, <1>b DEF SaveFails, Unlock, QueryTypeOK
<1>e. /\ txs' \in [Sids -> {"I", "T", "E", "gone"}] /\ txs'[s] = left /\ lost' \in [Sids -> BOOLEAN]
      /\ \A r \in Sids : r # s => txs'[r] = txs[r] /\ (lost'[r] <=> lost[r])
  <2>1. /\ txs \in [Sids -> {"I", "T", "E", "gone"}] /\ lost \in [Sids -> BOOLEAN]
        /\ left \in {"I", "T", "E", "gone"}
    BY <1>a DEF QueryTypeOK
  <2>2. txs' = [txs EXCEPT ![s] = left] /\ (lost' = lost \/ lost' = [lost EXCEPT ![s] = FALSE])
    BY DEF SaveFails
  <2> HIDE DEF left
  <2> QED
    BY <1>b, <2>1, <2>2
<1>f. /\ pend' \in [Sids -> [Rows -> Nat]]
      /\ \A r \in Sids : r # s => pend'[r] = pend[r]
      /\ pend'[s] = pend[s] \/ pend'[s] = Nothing
      /\ own => pend'[s] = Nothing
  <2>1. pend \in [Sids -> [Rows -> Nat]] /\ Nothing \in [Rows -> Nat]
    BY <1>a DEF QueryTypeOK, Nothing
  <2>2. pend' = IF left \in {"I", "gone"} THEN [pend EXCEPT ![s] = Nothing] ELSE pend
    BY DEF SaveFails
  <2>3. own => left \in {"I", "gone"}
    OBVIOUS
  <2> HIDE DEF left
  <2> QED
    BY <1>b, <2>1, <2>2, <2>3
<1>g. \A r \in Sids, u \in Tabs : /\ Of(r, u)' <=> Of(r, u)
                                  /\ u # t /\ Of(r, u) => r # s
                                  /\ Registered(r, u)' <=> Registered(r, u)
                                  /\ Left(u, r)' <=> Left(u, r)
                                  /\ Runs(u, r)' <=> Runs(u, r)
                                  /\ Saves(u, r)' <=> Saves(u, r) /\ u # t
  BY <1>a, <1>b, <1>c DEF client, Of, Registered, Left, Runs, Saves
<1>1. QueryTypeOK'
  BY <1>a, <1>c, <1>d, <1>e, <1>f DEF QueryTypeOK, client
<1>2. LabelsOK'
  BY <1>a DEF IInv, LabelsOK
<1>3. Refs'
  <2>1. ASSUME NEW u \in Tabs PROVE TabRefs(u)'
    <3>1. TabRefs(u)
      BY DEF IInv, Refs
    <3>2. CASE u # t
      BY <1>a, <1>c, <1>e, <1>g, <3>1, <3>2 DEF client, TabRefs, InTransaction, Of
    <3>3. CASE u = t
      BY <1>a, <1>b, <1>c, <1>e, <1>g, <3>1, <3>3 DEF client, TabRefs, InTransaction, Of
    <3> QED
      BY <3>2, <3>3
  <2>2. ASSUME NEW r \in Sids PROVE SessionRefs(r)'
    BY <1>a, <1>b, <1>f DEF IInv, Refs, SessionRefs, client, Of
  <2> QED
    BY <2>1, <2>2 DEF Refs
<1>4. Locks'
  <2>1. \A u \in Tabs, r \in Sids : Saves(u, r) => (u = t <=> r = s)
    BY <1>b, <1>g DEF IInv, Refs, TabRefs, Saves
  <2>2. \A u \in Tabs : exec[u].at = "reconnect" => txs[exec[u].sid] = "gone" /\ exec[u].sid \in Sids \ {s}
    BY <1>b DEF IInv, Refs, TabRefs, Active, Of, Locks
  <2> QED
    BY <1>a, <1>b, <1>d, <1>e, <1>g, <2>1, <2>2 DEF IInv, Locks
<1>5. One'
  BY <1>a, <1>g DEF IInv, One, OneOf
<1>6. SessionHasItsTab'
  BY <1>a DEF IInv, client, SessionHasItsTab
<1>7. Truth'
  <2> SUFFICES ASSUME NEW u \in Tabs PROVE Told(u)'
    BY DEF Truth
  <2>1. CASE u # t
    <3>1. \A r \in Sids : Of(r, u) => pend'[r] = pend[r] /\ (lost'[r] <=> lost[r])
      BY <1>e, <1>f, <1>g, <2>1
    <3>2. save[u].at # "idle" => Of(save[u].sid, u) /\ save[u].sid \in Sids
      BY DEF IInv, Refs, TabRefs, Of
    <3> QED
      BY <1>a, <1>c, <1>g, <2>1, <3>1, <3>2 DEF IInv, Truth, Told
  <2>2. CASE u = t
    <3>1. /\ db[t] = save[t].before
          /\ \A r \in Sids : Of(r, t) /\ r # s => pend[r] = Nothing \/ Left(t, r)
      BY <2>2 DEF IInv, Truth, Told
    <3>2. \A r \in Sids : Of(r, t)' /\ r # s => pend'[r] = Nothing \/ Left(t, r)'
      BY <1>f, <1>g, <3>1
    <3> QED
      BY <1>a, <1>c, <1>f, <2>2, <3>1, <3>2 DEF Told
  <2> QED
    BY <2>1, <2>2
<1>8. Once'
  <2> SUFFICES ASSUME NEW u \in Tabs, ~save'[u].overlap PROVE OnceOf(u)'
    BY DEF Once
  <2>1. QueryTypeOK /\ OnceOf(u) /\ (save[u].at = "rows" => Of(save[u].sid, u))
    BY <1>c DEF IInv, Once, Refs, TabRefs
  <2>2. CASE u # t
    <3>1. \A r \in Sids : Of(r, u) => pend'[r] = pend[r] /\ txs'[r] = txs[r]
      BY <1>e, <1>f, <1>g, <2>2
    <3> QED
      BY <1>a, <1>c, <1>g, OnceKept, <2>1, <2>2, <3>1 DEF client
  <2>3. CASE u = t
    <3>1. ASSUME NEW j \in InsertRows
          PROVE  /\ j \in Rows /\ Nothing[j] = 0 /\ db[t][j] = 0 /\ pend[s][j] <= 1 /\ pend[s][j] \in Nat
                 /\ j >= save[t].row => pend[s][j] = 0
                 /\ \A r \in Sids : Of(r, t) /\ r # s => pend[r][j] = 0
      <4>1. j \in Rows
        BY QueryAssumption DEF InsertRows, Rows
      <4> QED
        BY <1>a, <1>b, <2>1, <2>3, <4>1 DEF OnceOf, Nothing, QueryTypeOK
    <3>2. Clean(t)' \/ Blocked(t)'
      <4>1. CASE own \/ state = "T"
        <5>1. \A j \in InsertRows : pend'[s][j] = 0
          <6>1. CASE own
            BY <1>f, <3>1, <6>1
          <6>2. CASE state = "T"
            <7>1. \A j \in InsertRows : j >= save[t].row
              BY <4>1, <6>2, QueryAssumption DEF InsertRows, Rows
            <7> QED
              BY <1>f, <3>1, <7>1
          <6> QED
            BY <4>1, <6>1, <6>2
        <5> QED
          BY <1>a, <1>f, <1>g, <3>1, <5>1 DEF Clean
      <4>2. CASE ~own /\ state \in {"E", "gone"}
        BY <1>b, <1>c, <1>e, <1>g, <4>2 DEF Blocked
      <4> QED
        BY <4>1, <4>2
    <3>3. ASSUME NEW j \in InsertRows
          PROVE  /\ db[t][j] <= 1 /\ \A r \in Sids : Of(r, t) => db[t][j] + pend'[r][j] <= 1
                 /\ \A q, r \in Sids : Of(q, t) /\ Of(r, t) /\ q # r => pend'[q][j] + pend'[r][j] <= 1
      <4>1. pend'[s][j] \in {0, pend[s][j]}
        BY <1>f, <3>1
      <4>2. \A r \in Sids : Of(r, t) /\ r # s => pend'[r][j] = 0
        BY <1>f, <3>1
      <4> QED
        BY <3>1, <4>1, <4>2
    <3> QED
      BY <1>a, <1>c, <1>g, <2>1, <2>3, <3>2, <3>3 DEF client, OnceOf
  <2> QED
    BY <2>2, <2>3
<1>9. Shown'
  <2> SUFFICES ASSUME NEW u \in Tabs PROVE ShownOf(u)'
    BY DEF Shown
  <2>1. \A r \in Sids : Open(u, r)' => Open(u, r) /\ (r = s => ~own)
    BY <1>b, <1>e, <1>g DEF Open, InTransaction
  <2>2. (Looks(u)' <=> Looks(u)) /\ (Due(u)' <=> Due(u))
    BY <1>a, <1>c DEF client, Looks, Due
  <2>3. \A r \in Sids : Open(u, r)' => (SavesOwn(u, r) <=> SavesOwn(u, r)')
    BY <1>b, <1>c, <1>g, <2>1 DEF SavesOwn, Saves
  <2>4. (save'[u].at # "idle" /\ save'[u].own) => (save[u].at # "idle" /\ save[u].own)
    BY <1>c
  <2> QED
    BY <1>a, <2>1, <2>2, <2>3, <2>4 DEF IInv, client, Shown, ShownOf
<1>10. Untouched'
  <2>1. \A u \in Tabs : gridEdits[u] \in {"none", "editable"} => u # t /\ save'[u].at = "idle" /\ Clean(u)
    BY <1>c DEF IInv, Untouched
  <2> QED
    BY <1>a, <1>f, <1>g, <2>1 DEF client, Untouched, Clean
<1> QED
  BY <1>1, <1>2, <1>3, <1>4, <1>5, <1>6, <1>7, <1>8, <1>9, <1>10 DEF IInv

LEMMA SaveCommitsSafe ==
    ASSUME IInv, NEW t \in Tabs, SaveCommits(t)
    PROVE  IInv'
<1> DEFINE s == save[t].sid
           own == save[t].own
<1>a. /\ QueryTypeOK /\ TabRefs(t) /\ save[t].at = "rows" /\ save[t].row \notin Rows
      /\ UNCHANGED <<client, opening, exec, sess, owner, closes, cancels, authed, losses, requested>>
  BY DEF IInv, Refs, SaveCommits
<1>b. /\ Of(s, t) /\ s \in Sids /\ owner[s] = t /\ s # opening[t] /\ lock[s] /\ txs[s] = "T" /\ Saves(t, s)
      /\ \A u \in Tabs : ~Runs(u, s)
  <2>1. Of(s, t) /\ s \in Sids /\ s # opening[t] /\ Saves(t, s)
    BY <1>a DEF TabRefs, Of, Saves
  <2>2. \A u \in Tabs : Runs(u, s) => u = t
    BY <2>1 DEF IInv, Refs, TabRefs, Runs, Holding, Active, Of
  <2> QED
    BY <2>1, <2>2 DEF IInv, Locks, Of
<1>c. PICK said \in {"uncommitted", "committed", "unsure"} :
        /\ AnswerSave(t, said)
        /\ \/ said = "uncommitted" /\ ~own /\ txs' = txs /\ lost' = lost /\ pend' = pend /\ db' = db
           \/ /\ said # "uncommitted" /\ own /\ pend' = [pend EXCEPT ![s] = Nothing]
              /\ \/ /\ said = "committed" /\ ~lost[s] /\ CommitPending(s)
                    /\ txs' = [txs EXCEPT ![s] = "I"] /\ lost' = lost
                 \/ /\ said = "unsure" /\ txs' = [txs EXCEPT ![s] = "I"] /\ db' = db /\ lost' = lost
                 \/ /\ said = "unsure" /\ txs' = [txs EXCEPT ![s] = "gone"]
                    /\ lost' = [lost EXCEPT ![s] = FALSE]
                    /\ db' = db \/ CommitPending(s)
  <2>1. CASE ~own
    <3>1. AnswerSave(t, "uncommitted") /\ txs' = txs /\ lost' = lost /\ pend' = pend /\ db' = db
      BY <2>1 DEF SaveCommits
    <3> QED
      BY <2>1, <3>1
  <2>2. CASE own
    <3>1. /\ pend' = [pend EXCEPT ![s] = Nothing]
          /\ \/ /\ AnswerSave(t, "committed") /\ ~lost[s] /\ CommitPending(s)
                /\ txs' = [txs EXCEPT ![s] = "I"] /\ lost' = lost
             \/ /\ AnswerSave(t, "unsure") /\ txs' = [txs EXCEPT ![s] = "I"] /\ db' = db /\ lost' = lost
             \/ /\ AnswerSave(t, "unsure") /\ txs' = [txs EXCEPT ![s] = "gone"]
                /\ lost' = [lost EXCEPT ![s] = FALSE]
                /\ db' = db \/ CommitPending(s)
      BY <2>2 DEF SaveCommits
    <3> QED
      BY <2>2, <3>1
  <2> QED
    BY <2>1, <2>2
<1>d. /\ save' \in [Tabs -> SaveCalls] /\ \A u \in Tabs : u # t => save'[u] = save[u]
      /\ save'[t].at = "answer" /\ save'[t].sid = s /\ save'[t].before = save[t].before
      /\ (save'[t].own <=> own) /\ (save'[t].overlap <=> save[t].overlap)
      /\ save'[t].said = said
  <2>1. said \in SaveAnswers
    BY DEF SaveAnswers
  <2> QED
    BY <1>a, <1>c, <2>1, SaveAnswered DEF SaveIs, QueryTypeOK
<1>e. /\ lock' \in [Sids -> BOOLEAN] /\ cancelled' \in [Sids -> BOOLEAN] /\ ~lock'[s]
      /\ \A r \in Sids : r # s => (lock'[r] <=> lock[r])
  BY <1>a, <1>b DEF SaveCommits, Unlock, QueryTypeOK
<1>f. /\ txs' \in [Sids -> {"I", "T", "E", "gone"}] /\ lost' \in [Sids -> BOOLEAN]
      /\ \A r \in Sids : r # s => txs'[r] = txs[r] /\ (lost'[r] <=> lost[r])
      /\ own => txs'[s] \in {"I", "gone"}
      /\ ~own => txs'[s] = "T"
  <2>1. txs \in [Sids -> {"I", "T", "E", "gone"}] /\ lost \in [Sids -> BOOLEAN]
    BY <1>a DEF QueryTypeOK
  <2>2. /\ \/ ~own /\ txs' = txs
           \/ own /\ (txs' = [txs EXCEPT ![s] = "I"] \/ txs' = [txs EXCEPT ![s] = "gone"])
        /\ lost' = lost \/ lost' = [lost EXCEPT ![s] = FALSE]
    BY <1>c
  <2>3. /\ lost' \in [Sids -> BOOLEAN] /\ \A r \in Sids : r # s => (lost'[r] <=> lost[r])
    BY <1>b, <2>1, <2>2
  <2>4. CASE ~own /\ txs' = txs
    BY <1>b, <2>1, <2>3, <2>4
  <2>5. CASE own /\ (txs' = [txs EXCEPT ![s] = "I"] \/ txs' = [txs EXCEPT ![s] = "gone"])
    BY <1>b, <2>1, <2>3, <2>5
  <2> QED
    BY <2>2, <2>4, <2>5
<1>g. /\ pend' \in [Sids -> [Rows -> Nat]]
      /\ \A r \in Sids : r # s => pend'[r] = pend[r]
      /\ own => pend'[s] = Nothing
      /\ ~own => pend'[s] = pend[s]
  <2>1. pend \in [Sids -> [Rows -> Nat]] /\ Nothing \in [Rows -> Nat]
    BY <1>a DEF QueryTypeOK, Nothing
  <2>2. (~own /\ pend' = pend) \/ (own /\ pend' = [pend EXCEPT ![s] = Nothing])
    BY <1>c
  <2> QED
    BY <1>b, <2>1, <2>2
<1>h. /\ db' \in [Tabs -> [Rows -> Nat]]
      /\ \A u \in Tabs : u # t => db'[u] = db[u]
      /\ \A i \in Rows : i > Updates => db'[t][i] = db[t][i] \/ (own /\ db'[t][i] = db[t][i] + pend[s][i])
      /\ said = "unsure" /\ txs'[s] # "gone" => db' = db
      /\ said = "committed" => \A i \in Rows : db'[t][i] >= 1
  <2>1. CASE db' = db /\ said # "committed"
    BY <1>a, <2>1 DEF QueryTypeOK
  <2>2. CASE CommitPending(s) /\ own /\ (said = "unsure" => txs' = [txs EXCEPT ![s] = "gone"])
             /\ (said = "committed" => ~lost[s])
    <3>1. said = "committed" => \A i \in Rows : pend[s][i] >= 1
      <4>1. save[t].row \in 0 .. Updates + Inserts + 1 /\ save[t].row >= 1
        BY <1>a DEF QueryTypeOK, SaveCalls, IInv, Truth, Told
      <4>2. \A i \in Rows : i < save[t].row
        BY <1>a, <4>1, QueryAssumption DEF Rows
      <4> QED
        BY <1>a, <2>2, <4>2 DEF IInv, Truth, Told
    <3>2. said = "unsure" => txs'[s] = "gone"
      BY <1>a, <1>b, <2>2 DEF QueryTypeOK
    <3> QED
      BY <1>a, <1>b, <2>2, <3>1, <3>2, Commits
  <2> QED
    BY <1>c, <2>1, <2>2
<1>i. \A r \in Sids, u \in Tabs : /\ Of(r, u)' <=> Of(r, u)
                                  /\ u # t /\ Of(r, u) => r # s
                                  /\ Registered(r, u)' <=> Registered(r, u)
                                  /\ Left(u, r)' <=> Left(u, r)
                                  /\ Runs(u, r)' <=> Runs(u, r)
                                  /\ Saves(u, r)' <=> Saves(u, r) /\ u # t
  BY <1>a, <1>b, <1>d DEF client, Of, Registered, Left, Runs, Saves
<1>1. QueryTypeOK'
  BY <1>a, <1>d, <1>e, <1>f, <1>g, <1>h DEF QueryTypeOK, client
<1>2. LabelsOK'
  BY <1>a DEF IInv, LabelsOK
<1>3. Refs'
  <2>1. ASSUME NEW u \in Tabs PROVE TabRefs(u)'
    <3>1. TabRefs(u)
      BY DEF IInv, Refs
    <3>2. CASE u # t
      BY <1>a, <1>d, <1>f, <1>i, <3>1, <3>2 DEF client, TabRefs, InTransaction, Of
    <3>3. CASE u = t
      BY <1>a, <1>b, <1>d, <1>f, <1>i, <3>1, <3>3 DEF client, TabRefs, InTransaction, Of
    <3> QED
      BY <3>2, <3>3
  <2>2. ASSUME NEW r \in Sids PROVE SessionRefs(r)'
    BY <1>a, <1>b, <1>g DEF IInv, Refs, SessionRefs, client, Of
  <2> QED
    BY <2>1, <2>2 DEF Refs
<1>4. Locks'
  <2>1. \A u \in Tabs, r \in Sids : Saves(u, r) => (u = t <=> r = s)
    BY <1>b, <1>i DEF IInv, Refs, TabRefs, Saves
  <2>2. \A u \in Tabs : exec[u].at = "reconnect" => txs[exec[u].sid] = "gone" /\ exec[u].sid \in Sids \ {s}
    BY <1>b DEF IInv, Refs, TabRefs, Active, Of, Locks
  <2> QED
    BY <1>a, <1>b, <1>e, <1>f, <1>i, <2>1, <2>2 DEF IInv, Locks
<1>5. One'
  BY <1>a, <1>i DEF IInv, One, OneOf
<1>6. SessionHasItsTab'
  BY <1>a DEF IInv, client, SessionHasItsTab
<1>7. Truth'
  <2> SUFFICES ASSUME NEW u \in Tabs PROVE Told(u)'
    BY DEF Truth
  <2>1. CASE u # t
    <3>1. \A r \in Sids : Of(r, u) => pend'[r] = pend[r] /\ (lost'[r] <=> lost[r])
      BY <1>f, <1>g, <1>i, <2>1
    <3>2. save[u].at # "idle" => Of(save[u].sid, u) /\ save[u].sid \in Sids
      BY DEF IInv, Refs, TabRefs, Of
    <3>3. Told(u) /\ save'[u] = save[u] /\ db'[u] = db[u]
      BY <1>d, <1>h, <2>1 DEF IInv, Truth
    <3> QED
      BY <1>i, <3>1, <3>2, <3>3 DEF Told
  <2>2. CASE u = t
    <3>1. \A r \in Sids : Of(r, t) /\ r # s => pend[r] = Nothing \/ Left(t, r)
      BY <1>a DEF IInv, Truth, Told
    <3>2. \A r \in Sids : Of(r, t)' /\ r # s => pend'[r] = Nothing \/ Left(t, r)'
      BY <1>g, <1>i, <3>1
    <3>3. said = "committed" => own
      BY <1>c
    <3> QED
      BY <1>d, <1>h, <2>2, <3>2, <3>3 DEF Told
  <2> QED
    BY <2>1, <2>2
<1>8. Once'
  <2> SUFFICES ASSUME NEW u \in Tabs, ~save'[u].overlap PROVE OnceOf(u)'
    BY DEF Once
  <2>1. QueryTypeOK /\ OnceOf(u) /\ (save[u].at = "rows" => Of(save[u].sid, u))
    BY <1>d DEF IInv, Once, Refs, TabRefs
  <2>2. CASE u # t
    <3>1. \A r \in Sids : Of(r, u) => pend'[r] = pend[r] /\ txs'[r] = txs[r]
      BY <1>f, <1>g, <1>i, <2>2
    <3> QED
      BY <1>a, <1>d, <1>h, <1>i, OnceKept, <2>1, <2>2, <3>1 DEF client
  <2>3. CASE u = t
    <3>1. ASSUME NEW j \in InsertRows
          PROVE  /\ j \in Rows /\ Nothing[j] = 0 /\ db[t][j] = 0 /\ pend[s][j] \in {0, 1}
                 /\ \A r \in Sids : Of(r, t) /\ r # s => pend'[r][j] = 0
                 /\ \/ db'[t][j] = 0 /\ pend'[s][j] \in {0, 1}
                    \/ db'[t][j] \in {0, 1} /\ pend'[s][j] = 0
      <4>1. j \in Rows /\ j > Updates
        BY QueryAssumption DEF InsertRows, Rows
      <4>2. /\ Nothing[j] = 0 /\ db[t][j] = 0 /\ pend[s][j] \in {0, 1}
            /\ \A r \in Sids : Of(r, t) /\ r # s => pend[r][j] = 0
        <5>1. Nothing[j] = 0 /\ pend[s][j] \in Nat
          BY <1>a, <1>b, <4>1 DEF Nothing, QueryTypeOK
        <5>2. /\ db[t][j] = 0 /\ pend[s][j] <= 1
              /\ \A r \in Sids : Of(r, t) /\ r # s => pend[r][j] = 0
          BY <1>a, <2>1, <2>3 DEF OnceOf
        <5> QED
          BY <5>1, <5>2
      <4>3. db'[t][j] = 0 \/ (own /\ db'[t][j] = pend[s][j])
        BY <1>h, <4>1, <4>2
      <4> QED
        BY <1>g, <4>1, <4>2, <4>3
    <3>2. MaySave(t)' => Clean(t)' \/ Blocked(t)'
      <4>1. CASE said = "unsure" /\ txs'[s] = "gone"
        BY <1>b, <1>d, <1>i, <4>1 DEF Blocked
      <4>2. CASE said = "unsure" /\ txs'[s] # "gone"
        <5>1. own /\ db' = db
          BY <1>c, <1>h, <4>2
        <5>2. pend'[s] = Nothing
          BY <1>g, <5>1
        <5> QED
          BY <1>i, <3>1, <5>1, <5>2 DEF Clean
      <4>3. CASE said # "unsure"
        BY <1>d, <4>3 DEF MaySave
      <4> QED
        BY <4>1, <4>2, <4>3
    <3>3. ASSUME NEW j \in InsertRows
          PROVE  /\ db'[t][j] <= 1 /\ \A r \in Sids : Of(r, t) => db'[t][j] + pend'[r][j] <= 1
                 /\ \A q, r \in Sids : Of(q, t) /\ Of(r, t) /\ q # r => pend'[q][j] + pend'[r][j] <= 1
      BY <3>1
    <3> QED
      BY <1>a, <1>d, <1>i, <2>1, <2>3, <3>2, <3>3 DEF client, OnceOf
  <2> QED
    BY <2>2, <2>3
<1>9. Shown'
  <2> SUFFICES ASSUME NEW u \in Tabs PROVE ShownOf(u)'
    BY DEF Shown
  <2>1. \A r \in Sids : Open(u, r)' => Open(u, r) /\ (r = s => ~own)
    BY <1>b, <1>f, <1>i DEF Open, InTransaction
  <2>2. (Looks(u)' <=> Looks(u)) /\ (Due(u)' <=> Due(u))
    BY <1>a, <1>d DEF client, Looks, Due
  <2>3. \A r \in Sids : Open(u, r)' => (SavesOwn(u, r) <=> SavesOwn(u, r)')
    BY <1>b, <1>d, <1>i, <2>1 DEF SavesOwn, Saves
  <2>4. (save'[u].at # "idle" /\ save'[u].own) => (save[u].at # "idle" /\ save[u].own)
    BY <1>a, <1>d
  <2> QED
    BY <1>a, <2>1, <2>2, <2>3, <2>4 DEF IInv, client, Shown, ShownOf
<1>10. Untouched'
  <2>1. \A u \in Tabs : gridEdits[u] \in {"none", "editable"} => u # t /\ save'[u].at = "idle" /\ Clean(u)
    BY <1>a, <1>d DEF IInv, Untouched
  <2>2. \A u \in Tabs : u # t => /\ db'[u] = db[u]
                                 /\ \A r \in Sids : Of(r, u) => pend'[r] = pend[r]
    BY <1>g, <1>h, <1>i
  <2> QED
    BY <1>a, <1>i, <2>1, <2>2 DEF client, Untouched, Clean
<1> QED
  BY <1>1, <1>2, <1>3, <1>4, <1>5, <1>6, <1>7, <1>8, <1>9, <1>10 DEF IInv

LEMMA CloseQuerySessionSafe ==
    ASSUME IInv, NEW s \in Sids, CloseQuerySession(s)
    PROVE  IInv'
<1>1. QueryTypeOK'
  BY QueryAssumption DEF IInv, CloseQuerySession, Known, QueryTypeOK, client, server,
       Nothing, Refs, TabRefs, SessionRefs, Of, Active, InTransaction
<1>2. LabelsOK'
  BY QueryAssumption DEF IInv, CloseQuerySession, Known, QueryTypeOK, client, server,
       LabelsOK, Answers
<1>3. Refs'
  BY QueryAssumption DEF IInv, CloseQuerySession, Known, QueryTypeOK, client, server,
       Refs, TabRefs, SessionRefs, Of, Active, InTransaction
<1>4. Locks'
  BY QueryAssumption DEF IInv, CloseQuerySession, Known, QueryTypeOK, client, server,
       Locks, Runs, Saves, Holding, Refs, TabRefs, Of, Active
<1>5. One'
  BY QueryAssumption DEF IInv, CloseQuerySession, Known, QueryTypeOK, client, server, One,
       OneOf, Registered, Active, Refs, TabRefs, SessionRefs, Of, SessionHasItsTab
<1>6. SessionHasItsTab'
  BY QueryAssumption DEF IInv, CloseQuerySession, Known, QueryTypeOK, client, server,
       SessionHasItsTab, Refs, TabRefs, SessionRefs, Of, One, OneOf, Registered, Active
<1>7. Truth'
  BY QueryAssumption DEF IInv, CloseQuerySession, Known, QueryTypeOK, client, server,
       Truth, Told, Left, Of, Refs, TabRefs, SessionRefs, Active, One, OneOf, Registered, Locks,
       Runs, Saves, Holding, SessionHasItsTab, CommitPending, Nothing
<1>8. Once'
  <2> SUFFICES ASSUME NEW u \in Tabs, ~save[u].overlap PROVE OnceOf(u)'
    BY DEF Once, CloseQuerySession, Known
  <2>1. QueryTypeOK /\ OnceOf(u) /\ (save[u].at = "rows" => Of(save[u].sid, u))
    BY DEF IInv, Once, Refs, TabRefs
  <2> QED
    BY OnceKept, <2>1 DEF CloseQuerySession, Known, QueryTypeOK, client, server, Of
<1>9. Shown'
  BY QueryAssumption DEF IInv, CloseQuerySession, Known, QueryTypeOK, client, server,
       Shown, ShownOf, Open, Registered, Due, Looks, SavesOwn, Saves, Shows, InTransaction, Refs,
       TabRefs, Of, Active, Locks, Runs, Holding, One, OneOf, LabelsOK, Answers, Labels
<1>10. Untouched'
  BY QueryAssumption DEF IInv, CloseQuerySession, QueryTypeOK, client, server, Untouched,
       Clean, Of, InsertRows, Rows, Nothing, SessionRefs, Refs
<1> QED
  BY <1>1, <1>2, <1>3, <1>4, <1>5, <1>6, <1>7, <1>8, <1>9, <1>10 DEF IInv

LEMMA DisconnectServerSafe ==
    ASSUME IInv, DisconnectServer
    PROVE  IInv'
<1>1. QueryTypeOK'
  BY QueryAssumption DEF IInv, DisconnectServer, QueryTypeOK, client, server, Nothing,
       Refs, TabRefs, SessionRefs, Of, Active, InTransaction
<1>2. LabelsOK'
  BY QueryAssumption DEF IInv, DisconnectServer, QueryTypeOK, client, server, LabelsOK,
       Answers
<1>3. Refs'
  BY QueryAssumption DEF IInv, DisconnectServer, QueryTypeOK, client, server, Refs,
       TabRefs, SessionRefs, Of, Active, InTransaction
<1>4. Locks'
  BY QueryAssumption DEF IInv, DisconnectServer, QueryTypeOK, client, server, Locks, Runs,
       Saves, Holding, Refs, TabRefs, Of, Active
<1>5. One'
  BY QueryAssumption DEF IInv, DisconnectServer, QueryTypeOK, client, server, One, OneOf,
       Registered, Active, Refs, TabRefs, SessionRefs, Of, SessionHasItsTab
<1>6. SessionHasItsTab'
  BY QueryAssumption DEF IInv, DisconnectServer, QueryTypeOK, client, server,
       SessionHasItsTab, Refs, TabRefs, SessionRefs, Of, One, OneOf, Registered, Active
<1>7. Truth'
  BY QueryAssumption DEF IInv, DisconnectServer, QueryTypeOK, client, server, Truth, Told,
       Left, Of, Refs, TabRefs, SessionRefs, Active, One, OneOf, Registered, Locks, Runs, Saves,
       Holding, SessionHasItsTab, CommitPending, Nothing
<1>8. Once'
  <2> SUFFICES ASSUME NEW u \in Tabs, ~save[u].overlap PROVE OnceOf(u)'
    BY DEF Once, DisconnectServer
  <2>1. QueryTypeOK /\ OnceOf(u) /\ (save[u].at = "rows" => Of(save[u].sid, u))
    BY DEF IInv, Once, Refs, TabRefs
  <2> QED
    BY OnceKept, <2>1 DEF DisconnectServer, QueryTypeOK, client, server, Of
<1>9. Shown'
  BY QueryAssumption DEF IInv, DisconnectServer, QueryTypeOK, client, server, Shown,
       ShownOf, Open, Registered, Due, Looks, SavesOwn, Saves, Shows, InTransaction, Refs, TabRefs,
       Of, Active, Locks, Runs, Holding, One, OneOf, LabelsOK, Answers, Labels
<1>10. Untouched'
  BY QueryAssumption DEF IInv, DisconnectServer, QueryTypeOK, client, server, Untouched,
       Clean, Of, InsertRows, Rows, Nothing, SessionRefs, Refs
<1> QED
  BY <1>1, <1>2, <1>3, <1>4, <1>5, <1>6, <1>7, <1>8, <1>9, <1>10 DEF IInv

LEMMA MarkClosedSafe ==
    ASSUME IInv, NEW s \in Sids, MarkClosed(s)
    PROVE  IInv'
<1>1. QueryTypeOK'
  <2>1. QueryTypeOK
    BY DEF IInv
  <2>2. PICK b \in BOOLEAN : b = Running(s)
    BY DEF Running
  <2>3. cancelled' = [cancelled EXCEPT ![s] = b]
    BY <2>2 DEF MarkClosed
  <2>4. cancelled' \in [Sids -> BOOLEAN]
    BY <2>1, <2>3 DEF QueryTypeOK
  <2> QED
    BY <2>1, <2>4 DEF MarkClosed, QueryTypeOK, client, server
<1>2. LabelsOK'
  BY QueryAssumption DEF IInv, MarkClosed, QueryTypeOK, client, server, LabelsOK, Answers
<1>3. Refs'
  BY QueryAssumption DEF IInv, MarkClosed, QueryTypeOK, client, server, Refs, TabRefs,
       SessionRefs, Of, Active, InTransaction
<1>4. Locks'
  BY QueryAssumption DEF IInv, MarkClosed, QueryTypeOK, client, server, Locks, Runs,
       Saves, Holding, Refs, TabRefs, Of, Active
<1>5. One'
  BY QueryAssumption DEF IInv, MarkClosed, QueryTypeOK, client, server, One, OneOf,
       Registered, Active, Refs, TabRefs, SessionRefs, Of, SessionHasItsTab
<1>6. SessionHasItsTab'
  BY QueryAssumption DEF IInv, MarkClosed, QueryTypeOK, client, server, SessionHasItsTab,
       Refs, TabRefs, SessionRefs, Of, One, OneOf, Registered, Active
<1>7. Truth'
  BY QueryAssumption DEF IInv, MarkClosed, QueryTypeOK, client, server, Truth, Told, Left,
       Of, Refs, TabRefs, SessionRefs, Active, One, OneOf, Registered, Locks, Runs, Saves, Holding,
       SessionHasItsTab, CommitPending, Nothing
<1>8. Once'
  <2> SUFFICES ASSUME NEW u \in Tabs, ~save[u].overlap PROVE OnceOf(u)'
    BY DEF Once, MarkClosed
  <2>1. QueryTypeOK /\ OnceOf(u) /\ (save[u].at = "rows" => Of(save[u].sid, u))
    BY DEF IInv, Once, Refs, TabRefs
  <2> QED
    BY OnceKept, <2>1 DEF MarkClosed, QueryTypeOK, client, server, Of
<1>9. Shown'
  BY QueryAssumption DEF IInv, MarkClosed, QueryTypeOK, client, server, Shown, ShownOf,
       Open, Registered, Due, Looks, SavesOwn, Saves, Shows, InTransaction, Refs, TabRefs, Of,
       Active, Locks, Runs, Holding, One, OneOf, LabelsOK, Answers, Labels
<1>10. Untouched'
  BY QueryAssumption DEF IInv, MarkClosed, QueryTypeOK, client, server, Untouched, Clean,
       Of, InsertRows, Rows, Nothing, SessionRefs, Refs
<1> QED
  BY <1>1, <1>2, <1>3, <1>4, <1>5, <1>6, <1>7, <1>8, <1>9, <1>10 DEF IInv

LEMMA CloseConnSafe ==
    ASSUME IInv, NEW s \in Sids, CloseConn(s)
    PROVE  IInv'
<1>1. QueryTypeOK'
  BY QueryAssumption DEF IInv, CloseConn, QueryTypeOK, client, server, Nothing, Refs,
       TabRefs, SessionRefs, Of, Active, InTransaction
<1>2. LabelsOK'
  BY QueryAssumption DEF IInv, CloseConn, QueryTypeOK, client, server, LabelsOK, Answers
<1>3. Refs'
  BY QueryAssumption DEF IInv, CloseConn, QueryTypeOK, client, server, Refs, TabRefs,
       SessionRefs, Of, Active, InTransaction
<1>4. Locks'
  BY QueryAssumption DEF IInv, CloseConn, QueryTypeOK, client, server, Locks, Runs, Saves,
       Holding, Refs, TabRefs, Of, Active
<1>5. One'
  BY QueryAssumption DEF IInv, CloseConn, QueryTypeOK, client, server, One, OneOf,
       Registered, Active, Refs, TabRefs, SessionRefs, Of, SessionHasItsTab
<1>6. SessionHasItsTab'
  BY QueryAssumption DEF IInv, CloseConn, QueryTypeOK, client, server, SessionHasItsTab,
       Refs, TabRefs, SessionRefs, Of, One, OneOf, Registered, Active
<1>7. Truth'
  BY QueryAssumption DEF IInv, CloseConn, QueryTypeOK, client, server, Truth, Told, Left,
       Of, Refs, TabRefs, SessionRefs, Active, One, OneOf, Registered, Locks, Runs, Saves, Holding,
       SessionHasItsTab, CommitPending, Nothing
<1>8. Once'
  <2> SUFFICES ASSUME NEW u \in Tabs, ~save[u].overlap PROVE OnceOf(u)'
    BY DEF Once, CloseConn
  <2>1. QueryTypeOK /\ OnceOf(u) /\ (save[u].at = "rows" => Of(save[u].sid, u))
    BY DEF IInv, Once, Refs, TabRefs
  <2> QED
    BY OnceKept, <2>1 DEF CloseConn, QueryTypeOK, client, server, Of
<1>9. Shown'
  BY QueryAssumption DEF IInv, CloseConn, QueryTypeOK, client, server, Shown, ShownOf,
       Open, Registered, Due, Looks, SavesOwn, Saves, Shows, InTransaction, Refs, TabRefs, Of,
       Active, Locks, Runs, Holding, One, OneOf, LabelsOK, Answers, Labels
<1>10. Untouched'
  BY QueryAssumption DEF IInv, CloseConn, QueryTypeOK, client, server, Untouched, Clean,
       Of, InsertRows, Rows, Nothing, SessionRefs, Refs
<1> QED
  BY <1>1, <1>2, <1>3, <1>4, <1>5, <1>6, <1>7, <1>8, <1>9, <1>10 DEF IInv

LEMMA LoseConnectionSafe ==
    ASSUME IInv, NEW s \in Sids, LoseConnection(s)
    PROVE  IInv'
<1>1. QueryTypeOK'
  BY QueryAssumption DEF IInv, LoseConnection, QueryTypeOK, client, server, Nothing, Refs,
       TabRefs, SessionRefs, Of, Active, InTransaction
<1>2. LabelsOK'
  BY QueryAssumption DEF IInv, LoseConnection, QueryTypeOK, client, server, LabelsOK,
       Answers
<1>3. Refs'
  BY QueryAssumption DEF IInv, LoseConnection, QueryTypeOK, client, server, Refs, TabRefs,
       SessionRefs, Of, Active, InTransaction
<1>4. Locks'
  BY QueryAssumption DEF IInv, LoseConnection, QueryTypeOK, client, server, Locks, Runs,
       Saves, Holding, Refs, TabRefs, Of, Active
<1>5. One'
  BY QueryAssumption DEF IInv, LoseConnection, QueryTypeOK, client, server, One, OneOf,
       Registered, Active, Refs, TabRefs, SessionRefs, Of, SessionHasItsTab
<1>6. SessionHasItsTab'
  BY QueryAssumption DEF IInv, LoseConnection, QueryTypeOK, client, server,
       SessionHasItsTab, Refs, TabRefs, SessionRefs, Of, One, OneOf, Registered, Active
<1>7. Truth'
  BY QueryAssumption DEF IInv, LoseConnection, QueryTypeOK, client, server, Truth, Told,
       Left, Of, Refs, TabRefs, SessionRefs, Active, One, OneOf, Registered, Locks, Runs, Saves,
       Holding, SessionHasItsTab, CommitPending, Nothing
<1>8. Once'
  <2> SUFFICES ASSUME NEW u \in Tabs, ~save[u].overlap PROVE OnceOf(u)'
    BY DEF Once, LoseConnection
  <2>1. QueryTypeOK /\ OnceOf(u) /\ (save[u].at = "rows" => Of(save[u].sid, u))
    BY DEF IInv, Once, Refs, TabRefs
  <2> QED
    BY OnceKept, <2>1 DEF LoseConnection, QueryTypeOK, client, server, Of
<1>9. Shown'
  BY QueryAssumption DEF IInv, LoseConnection, QueryTypeOK, client, server, Shown,
       ShownOf, Open, Registered, Due, Looks, SavesOwn, Saves, Shows, InTransaction, Refs, TabRefs,
       Of, Active, Locks, Runs, Holding, One, OneOf, LabelsOK, Answers, Labels
<1>10. Untouched'
  BY QueryAssumption DEF IInv, LoseConnection, QueryTypeOK, client, server, Untouched,
       Clean, Of, InsertRows, Rows, Nothing, SessionRefs, Refs
<1> QED
  BY <1>1, <1>2, <1>3, <1>4, <1>5, <1>6, <1>7, <1>8, <1>9, <1>10 DEF IInv

LEMMA RunFinishesSafe ==
    ASSUME IInv, NEW t \in Tabs, RunFinishes(t)
    PROVE  IInv'
<1> DEFINE s == exec[t].sid
           q == exec[t].stmt
           commits == q = "commit" /\ txs[s] = "T"
<1>1. exec[t].at = "run" /\ cancels' \subseteq Sids /\ commits \in BOOLEAN
  BY DEF RunFinishes, IInv, QueryTypeOK
<1>2. txs[s] \in {"I", "T", "E", "gone"}
  <2>1. s \in Sids
    BY <1>1 DEF IInv, Refs, TabRefs, Active, Of
  <2> QED
    BY <2>1 DEF IInv, QueryTypeOK
<1>3. \/ Finish(t, "I", commits) \/ Finish(t, "T", FALSE) \/ Finish(t, "E", FALSE)
      \/ Finish(t, txs[s], FALSE)
  BY DEF RunFinishes
<1>4. CASE Finish(t, "I", commits)
  <2> HIDE DEF commits
  <2> QED
    BY <1>1, <1>4, FinishSafe
<1>5. CASE Finish(t, "T", FALSE)
  BY <1>1, <1>5, FinishSafe
<1>6. CASE Finish(t, "E", FALSE)
  BY <1>1, <1>6, FinishSafe
<1>7. CASE Finish(t, txs[s], FALSE)
  BY <1>1, <1>2, <1>7, FinishSafe
<1> QED
  BY <1>3, <1>4, <1>5, <1>6, <1>7

LEMMA RunBreaksSafe ==
    ASSUME IInv, NEW t \in Tabs, RunBreaks(t)
    PROVE  IInv'
<1>1. exec[t].at = "run" /\ cancels' \subseteq Sids /\ Finish(t, "gone", FALSE)
  BY DEF RunBreaks, IInv, QueryTypeOK
<1> QED
  BY <1>1, FinishSafe

LEMMA CancelQuerySafe ==
    ASSUME IInv, NEW s \in Sids, CancelQuery(s)
    PROVE  IInv'
<1>1. cancels' \subseteq Sids
  BY DEF CancelQuery, IInv, QueryTypeOK
<1>2. ASSUME NEW t \in Tabs, exec[t].at = "run", exec[t].sid = s,
             Finish(t, IF txs[s] = "T" THEN "E" ELSE txs[s], FALSE)
      PROVE  IInv'
  <2> DEFINE state == IF txs[s] = "T" THEN "E" ELSE txs[s]
  <2>1. state \in {"I", "T", "E", "gone"}
    BY DEF IInv, QueryTypeOK
  <2>2. Finish(t, state, FALSE)
    BY <1>2
  <2> HIDE DEF state
  <2> QED
    BY <1>1, <1>2, <2>1, <2>2, FinishSafe
<1>3. CASE UNCHANGED <<client, opening, exec, save, server, closes, authed, losses, requested>>
  <2>1. /\ QueryTypeOK' /\ LabelsOK' /\ SessionHasItsTab' /\ One' /\ Locks'
    BY <1>1, <1>3 DEF IInv, QueryTypeOK, client, server, LabelsOK, SessionHasItsTab, One, OneOf,
         Registered, Locks, Runs, Saves
  <2>2. Refs'
    BY <1>3 DEF IInv, QueryTypeOK, client, server, Refs, TabRefs, SessionRefs, Of
  <2>3. Truth'
    BY <1>3 DEF IInv, QueryTypeOK, client, server, Truth, Told, Of, Left
  <2>4. Once' /\ Untouched'
    BY <1>3 DEF IInv, QueryTypeOK, client, server, Once, OnceOf, MaySave, Clean, Blocked, Untouched,
         Of
  <2>5. Shown'
    BY <1>3 DEF IInv, QueryTypeOK, client, server, Shown, ShownOf, Open, Registered, Due, Looks,
         SavesOwn, Saves
  <2> QED
    BY <2>1, <2>2, <2>3, <2>4, <2>5 DEF IInv
<1> QED
  BY <1>2, <1>3 DEF CancelQuery

LEMMA SaveRowSafe ==
    ASSUME IInv, NEW t \in Tabs, SaveRow(t)
    PROVE  IInv'
<1> DEFINE s == save[t].sid
           i == save[t].row
<1>1. /\ save[t].at = "rows" /\ i \in Rows /\ ~lost[s] /\ cancels \subseteq Sids
      /\ UNCHANGED <<client, opening, exec, sess, owner, closes, authed, losses, requested>>
  BY DEF SaveRow, IInv, QueryTypeOK
<1>2. CASE /\ pend' = [pend EXCEPT ![s][i] = IF i <= Updates THEN 1 ELSE @ + 1]
           /\ save' = [save EXCEPT ![t].row = i + 1]
           /\ UNCHANGED <<txs, lost, db, lock, cancelled, cancels>>
  BY <1>1, <1>2, SaveAppliesSafe
<1>3. CASE i <= Updates /\ SaveFails(t, "T") /\ UNCHANGED cancels
  BY <1>1, <1>3, SaveFailsSafe
<1>4. CASE SaveFails(t, "E") /\ cancels' \in {cancels, cancels \ {s}}
  <2>1. cancels' \subseteq Sids
    BY <1>1, <1>4
  <2> QED
    BY <1>1, <1>4, <2>1, SaveFailsSafe
<1> QED
  BY <1>2, <1>3, <1>4 DEF SaveRow

LEMMA SaveBreaksSafe ==
    ASSUME IInv, NEW t \in Tabs, SaveBreaks(t)
    PROVE  IInv'
<1>1. /\ save[t].at = "rows" /\ save[t].row \in Rows /\ SaveFails(t, "gone") /\ cancels' \subseteq Sids
      /\ UNCHANGED <<client, opening, exec, sess, owner, closes, authed, losses, requested>>
  BY DEF SaveBreaks, IInv, QueryTypeOK
<1> QED
  BY <1>1, SaveFailsSafe

LEMMA InitSafe == QueryInit => IInv
<1> SUFFICES ASSUME QueryInit PROVE IInv
  OBVIOUS
<1>1. Nothing \in [Rows -> Nat] /\ \A i \in InsertRows : i \in Rows /\ Nothing[i] = 0
  BY QueryAssumption DEF Nothing, InsertRows, Rows
<1>2. \A t \in Tabs : exec[t] = Idle /\ save[t] = NoSave
  BY DEF QueryInit
<1>3. /\ Idle.at = "idle" /\ NoSave.at = "idle" /\ NoSave.said = "none"
  BY DEF Idle, NoSave
<1>4. QueryTypeOK
  BY NullsTyped, <1>1, QueryAssumption DEF QueryInit, QueryTypeOK, Labels
<1>5. LabelsOK /\ SessionHasItsTab
  BY <1>2, <1>3 DEF QueryInit, LabelsOK, SessionHasItsTab
<1>6. Refs
  BY <1>2, <1>3, QueryAssumption DEF QueryInit, Refs, TabRefs, SessionRefs, Active
<1>7. Locks /\ One
  BY <1>2, <1>3 DEF QueryInit, Locks, Runs, Saves, Holding, One, OneOf, Active
<1>8. Truth
  BY <1>2, <1>3 DEF Truth, Told
<1>9. \A t \in Tabs : Clean(t)
  BY <1>1 DEF QueryInit, Clean
<1>10. Once /\ Untouched
  <2>1. \A i \in InsertRows, t \in Tabs : db[t][i] = 0
    BY <1>1 DEF QueryInit
  <2>2. \A i \in InsertRows, s \in Sids : pend[s][i] = 0
    BY <1>1 DEF QueryInit
  <2> QED
    BY <1>2, <1>3, <1>9, <2>1, <2>2 DEF Once, OnceOf, Untouched
<1>11. Shown
  BY DEF QueryInit, Shown, ShownOf, Open, Registered
<1> QED
  BY <1>4, <1>5, <1>6, <1>7, <1>8, <1>10, <1>11 DEF IInv

LEMMA StutterSafe == IInv /\ UNCHANGED queryVars => IInv'
<1> SUFFICES ASSUME IInv, UNCHANGED queryVars PROVE IInv'
  OBVIOUS
<1>1. /\ QueryTypeOK' /\ LabelsOK' /\ SessionHasItsTab' /\ One' /\ Locks'
  BY DEF IInv, queryVars, QueryTypeOK, LabelsOK, SessionHasItsTab, One, OneOf, Registered, Locks, Runs, Saves
<1>2. Refs'
  BY DEF IInv, queryVars, Refs, TabRefs, SessionRefs, Of
<1>3. Truth'
  BY DEF IInv, queryVars, Truth, Told, Of, Left
<1>4. Once' /\ Untouched'
  BY DEF IInv, queryVars, Once, OnceOf, MaySave, Clean, Blocked, Untouched, Of
<1>5. Shown'
  BY DEF IInv, queryVars, Shown, ShownOf, Open, Registered, Due, Looks, SavesOwn, Saves
<1> QED
  BY <1>1, <1>2, <1>3, <1>4, <1>5 DEF IInv

LEMMA NextSafe == IInv /\ [QueryNext]_queryVars => IInv'
<1> SUFFICES ASSUME IInv, [QueryNext]_queryVars PROVE IInv'
  OBVIOUS
<1>1. ASSUME NEW t \in Tabs,
             \/ OpenTab(t) \/ (\E stmt \in Statements : Run(t, stmt)) \/ Cancel(t)
             \/ EditGrid(t) \/ SaveChanges(t) \/ CloseTab(t)
             \/ QueryStep(t) \/ RunFinishes(t) \/ SaveRow(t)
      PROVE  IInv'
  <2>1. CASE OpenTab(t)
    BY <2>1, OpenTabSafe
  <2>2. ASSUME NEW stmt \in Statements, Run(t, stmt) PROVE IInv'
    BY <2>2, RunSafe
  <2>3. CASE Cancel(t)
    BY <2>3, CancelSafe
  <2>4. CASE EditGrid(t)
    BY <2>4, EditGridSafe
  <2>5. CASE SaveChanges(t)
    BY <2>5, SaveChangesSafe
  <2>6. CASE CloseTab(t)
    BY <2>6, CloseTabSafe
  <2>7. CASE Opened(t)
    BY <2>7, OpenedSafe
  <2>8. CASE OpenFailed(t)
    BY <2>8, OpenFailedSafe
  <2>9. CASE Answered(t)
    BY <2>9, AnsweredSafe
  <2>10. CASE Saved(t)
    BY <2>10, SavedSafe
  <2>11. CASE OpenQuerySession(t)
    BY <2>11, OpenQuerySessionSafe
  <2>12. CASE ExecuteQuery(t)
    BY <2>12, ExecuteQuerySafe
  <2>13. CASE BeginRun(t)
    BY <2>13, BeginRunSafe
  <2>14. CASE Reconnect(t)
    BY <2>14, ReconnectSafe
  <2>15. CASE RunBreaks(t)
    BY <2>15, RunBreaksSafe
  <2>16. CASE SaveTableChanges(t)
    BY <2>16, SaveTableChangesSafe
  <2>17. CASE SaveBreaks(t)
    BY <2>17, SaveBreaksSafe
  <2>18. CASE SaveCommits(t)
    BY <2>18, SaveCommitsSafe
  <2>19. CASE RunFinishes(t)
    BY <2>19, RunFinishesSafe
  <2>20. CASE SaveRow(t)
    BY <2>20, SaveRowSafe
  <2> QED
    BY <1>1, <2>1, <2>2, <2>3, <2>4, <2>5, <2>6, <2>7, <2>8, <2>9, <2>10, <2>11, <2>12, <2>13, <2>14,
       <2>15, <2>16, <2>17, <2>18, <2>19, <2>20 DEF QueryStep
<1>2. ASSUME NEW s \in Sids, SessionStep(s) \/ CancelQuery(s) \/ LoseConnection(s)
      PROVE  IInv'
  BY <1>2, CloseQuerySessionSafe, MarkClosedSafe, CloseConnSafe, CancelQuerySafe, LoseConnectionSafe
  DEF SessionStep
<1>3. CASE Logout \/ DisconnectServer
  BY <1>3, LogoutSafe, DisconnectServerSafe
<1>4. CASE UNCHANGED queryVars
  BY <1>4, StutterSafe
<1> QED
  BY <1>1, <1>2, <1>3, <1>4 DEF QueryNext

LEMMA Invariant == QuerySpec => []IInv
BY InitSafe, NextSafe, PTL DEF QuerySpec

\* The variables keep their types: whatever step of the tab, of the backend or of the network comes.
THEOREM QueryTypeCorrect == QuerySpec => []QueryTypeOK
<1>1. IInv => QueryTypeOK
  BY DEF IInv
<1> QED
  BY <1>1, Invariant, PTL

\* A run and a save hold a session one at a time, and nothing holds it that has ended
\* (executionMutex and the TryLock of ExecuteQuery and SaveTableChanges).
THEOREM CallsHoldTheirSession == QuerySpec => []Locks
<1>1. IInv => Locks
  BY DEF IInv
<1> QED
  BY <1>1, Invariant, PTL

\* However often a session is forgotten and opened again, no tab has two in the map.
THEOREM OneSessionPerTab ==
    QuerySpec => [](authed => \A t \in Tabs : \A r, s \in Sids :
                      Registered(r, t) /\ Registered(s, t) /\ tab[t] = "open" => r = s)
<1> DEFINE OneOnly == authed => \A t \in Tabs : \A r, s \in Sids :
                        Registered(r, t) /\ Registered(s, t) /\ tab[t] = "open" => r = s
<1>1. IInv => OneOnly
  <2> SUFFICES ASSUME IInv, authed, NEW t \in Tabs, NEW r \in Sids, NEW s \in Sids,
                      Registered(r, t), Registered(s, t), tab[t] = "open"
               PROVE  r = s
    OBVIOUS
  <2>1. r \notin closes /\ s \notin closes
    BY DEF IInv, Refs, SessionRefs, Registered
  <2>2. (opening[t] = r \/ ref[t] = r) /\ (opening[t] = s \/ ref[t] = s)
    BY <2>1 DEF IInv, SessionHasItsTab, Registered
  <2>3. opening[t] # "none" => ref[t] = None
    BY DEF IInv, Refs, TabRefs
  <2> QED
    BY <2>2, <2>3, QueryAssumption
<1> QED
  BY <1>1, Invariant, PTL

\* No session stays in the map whose tab is gone, unless its close is on the way
\* (openedSession of QueryTab.tsx, and the close of its unmount).
THEOREM SessionsHaveTheirTab == QuerySpec => []SessionHasItsTab
<1>1. IInv => SessionHasItsTab
  BY DEF IInv
<1> QED
  BY <1>1, Invariant, PTL

\* An answer of a save that says what became of the rows is right, however the connection, a close or
\* a cancel came in between (fail() and the COMMIT of SaveTableChanges).
THEOREM SavesTellTheTruth == QuerySpec => []SaveTellsTheTruth
<1>1. IInv => SaveTellsTheTruth
  <2> SUFFICES ASSUME IInv, NEW t \in Tabs
               PROVE  /\ save[t].said = "nothing" =>
                           /\ db[t] = save[t].before
                           /\ \A s \in Sids : owner[s] = t /\ sess[s] = "registered" => pend[s] = Nothing
                      /\ save[t].said = "committed" => \A i \in Rows : db[t][i] >= 1
    BY DEF SaveTellsTheTruth
  <2> QED
    BY DEF IInv, Truth, Told, Of, Left
<1> QED
  BY <1>1, Invariant, PTL

\* No inserted row is committed twice, whatever a failed save is sent again after
\* (the refusals of SaveTableChanges and the run that clears the grid).
THEOREM RowsInsertedOnce == QuerySpec => []InsertedOnce
<1>1. IInv => InsertedOnce
  <2> SUFFICES ASSUME IInv, NEW t \in Tabs, ~save[t].overlap, NEW i \in Updates + 1 .. Updates + Inserts
               PROVE  /\ db[t][i] <= 1
                      /\ \A s \in Sids : owner[s] = t => db[t][i] + pend[s][i] <= 1
    BY DEF InsertedOnce
  <2>1. i \in InsertRows /\ Nothing[i] = 0 /\ db[t][i] \in Nat
    BY QueryAssumption DEF InsertRows, Rows, Nothing, IInv, QueryTypeOK
  <2>2. db[t][i] <= 1 /\ \A s \in Sids : Of(s, t) => db[t][i] + pend[s][i] <= 1
    BY <2>1 DEF IInv, Once, OnceOf
  <2>3. \A s \in Sids : owner[s] = t => Of(s, t) \/ pend[s] = Nothing
    BY DEF IInv, Refs, SessionRefs, Of
  <2> QED
    BY <2>1, <2>2, <2>3
<1> QED
  BY <1>1, Invariant, PTL

\* A tab that shows no open transaction has none, so that it may be closed without a question
\* (tabTxStatus, useCloseWorkspaceTabs).
THEOREM TransactionsAreShown == QuerySpec => []OpenTransactionIsShown
<1>1. IInv => OpenTransactionIsShown
  <2> SUFFICES ASSUME IInv, NEW t \in Tabs, tab[t] = "open", ref[t] # None,
                      exec[t].at = "idle", save[t].at = "idle",
                      sess[ref[t]] = "registered", txs[ref[t]] \in {"T", "E"}
               PROVE  tx[t] \in {"transaction", "failed"}
    BY DEF OpenTransactionIsShown
  <2>1. Open(t, ref[t]) /\ ref[t] \in Sids
    BY DEF IInv, Refs, TabRefs, Of, Open, Registered, InTransaction
  <2> QED
    BY <2>1 DEF IInv, Shown, ShownOf, Due, Looks, Holding, SavesOwn, Saves, Shows
<1> QED
  BY <1>1, Invariant, PTL
=============================================================================
