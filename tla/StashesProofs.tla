---------------------------- MODULE StashesProofs ----------------------------
(***************************************************************************)
(* Stashes, for any windows, repositories, branches and changes.           *)
(*                                                                         *)
(* No change is lost: what a discard takes is in the copy it made, unless  *)
(* it was disturbed or found no commit.  IInv follows a discard from its   *)
(* copy on: as long as it is alone, its window has the repository of the   *)
(* copy, and the copy, then a stash of that repository, holds what the     *)
(* tree has.                                                               *)
(*                                                                         *)
(* Changes come back: CourseInv follows a change of branch.  As long as it *)
(* is alone, what it set aside is the newest stash of its repository, and  *)
(* the only one of that number, until it is popped or left there.          *)
(***************************************************************************)
EXTENDS Stashes, SequenceTheorems, TLAPS

\* A list of stashes, each of which holds changes.
IsList(q) == \E S : q \in Seq(S) /\ \A x \in S : x.holds \in SUBSET Changes

\* An operation has the fields of NoOp.
IsOp(o) ==
    o = [what |-> o.what, at |-> o.at, target |-> o.target, leave |-> o.leave, dirty |-> o.dirty,
         stash |-> o.stash, held |-> o.held, repo |-> o.repo, alone |-> o.alone]

Ops == op = [v \in Windows |-> op[v]] /\ \A v \in Windows : IsOp(op[v])

Lists == stashes = [r \in Repos |-> stashes[r]] /\ \A r \in Repos : IsList(stashes[r])

Shape ==
    /\ workspace \in [Windows -> Repos] /\ Lists
    /\ tree \in [Repos -> SUBSET Changes] /\ committed \in [Repos -> SUBSET Changes]

\* A change that some stash of a list holds.
HeldIn(c, q) == \E i \in DOMAIN q : c \in q[i].holds

Somewhere(c) ==
    \/ \E r \in Repos : c \in tree[r] \/ c \in committed[r] \/ HeldIn(c, stashes[r])
    \/ \E d \in dropped : c \in d.holds

\* A discard that is alone is where its copy is, and its copy has all there is to take.
Copied(r) == \E i \in DOMAIN stashes[r] : tree[r] \subseteq stashes[r][i].holds

Fine(v) ==
    /\ op[v].at = "store" => op[v].held \in SUBSET Changes
    /\ op[v].at \in {"store", "restore"} /\ op[v].alone =>
        /\ workspace[v] = op[v].repo
        /\ op[v].at = "store" => tree[op[v].repo] \subseteq op[v].held
        /\ op[v].at = "restore" => Copied(op[v].repo)

IInv == Shape /\ Ops /\ NothingIsLost /\ \A v \in Windows : Fine(v)

-----------------------------------------------------------------------------
\* What is put first leaves the others in the list.
LEMMA PutFirst ==
    ASSUME NEW S, NEW q \in Seq(S), NEW x \in S
    PROVE  /\ <<x>> \o q \in Seq(S)
           /\ 1 \in DOMAIN (<<x>> \o q) /\ (<<x>> \o q)[1] = x
           /\ \A i \in DOMAIN q : i + 1 \in DOMAIN (<<x>> \o q) /\ (<<x>> \o q)[i + 1] = q[i]
OBVIOUS

\* RemoveAt, place by place.
LEMMA RemoveAtIs ==
    ASSUME NEW S, NEW q \in Seq(S), NEW pos \in DOMAIN q
    PROVE  /\ RemoveAt(q, pos) \in Seq(S) /\ Len(RemoveAt(q, pos)) = Len(q) - 1
           /\ DOMAIN RemoveAt(q, pos) = 1 .. Len(q) - 1
           /\ \A i \in 1 .. pos - 1 : RemoveAt(q, pos)[i] = q[i]
           /\ \A i \in pos + 1 .. Len(q) : RemoveAt(q, pos)[i - 1] = q[i]
           /\ \A i \in 1 .. Len(q) - 1 : RemoveAt(q, pos)[i] = IF i < pos THEN q[i] ELSE q[i + 1]
<1>1. pos \in 1 .. Len(q) /\ RemoveAt(q, pos) = SubSeq(q, 1, pos - 1) \o SubSeq(q, pos + 1, Len(q))
  BY DEF RemoveAt
<1> DEFINE low == SubSeq(q, 1, pos - 1)
           high == SubSeq(q, pos + 1, Len(q))
<1>0. \A i \in 1 .. Len(q) : q[i] \in S
  BY ElementOfSeq
<1>2. /\ low \in Seq(S) /\ Len(low) = pos - 1
      /\ \A i \in 1 .. pos - 1 : low[i] = q[i]
  <2>1. \A i \in 1 .. pos - 1 : q[i] \in S
    BY <1>0, <1>1
  <2> QED
    BY <1>1, <2>1, SubSeqProperties
<1>3. /\ high \in Seq(S) /\ Len(high) = Len(q) - pos
      /\ \A i \in 1 .. Len(q) - pos : high[i] = q[pos + i]
  <2>1. \A i \in pos + 1 .. Len(q) : q[i] \in S
    BY <1>0, <1>1
  <2>2. pos + 1 \in Int /\ Len(q) \in Int
    BY <1>1
  <2>3. /\ high \in Seq(S)
        /\ Len(high) = IF pos + 1 <= Len(q) THEN Len(q) - (pos + 1) + 1 ELSE 0
        /\ \A i \in 1 .. Len(q) - (pos + 1) + 1 : high[i] = q[(pos + 1) + i - 1]
    <3> HIDE DEF high
    <3> DEFINE m == pos + 1
               n == Len(q)
    <3>1. m \in Int /\ n \in Int /\ (\A i \in m .. n : q[i] \in S) /\ high = SubSeq(q, m, n)
      BY <2>1, <2>2 DEF high
    <3> HIDE DEF m, n
    <3>2. /\ high \in Seq(S) /\ Len(high) = IF m <= n THEN n - m + 1 ELSE 0
          /\ \A i \in 1 .. n - m + 1 : high[i] = q[m + i - 1]
      BY <3>1, SubSeqProperties
    <3> QED
      BY <3>2 DEF m, n
  <2> HIDE DEF high
  <2>4. Len(high) = Len(q) - pos
    BY <1>1, <2>3
  <2>5. ASSUME NEW i \in 1 .. Len(q) - pos PROVE high[i] = q[pos + i]
    <3>1. i \in 1 .. Len(q) - (pos + 1) + 1 /\ (pos + 1) + i - 1 = pos + i
      BY <1>1
    <3> QED
      BY <2>3, <3>1
  <2> QED
    BY <2>3, <2>4, <2>5
<1> HIDE DEF low, high
<1>4. /\ low \o high \in Seq(S) /\ Len(low \o high) = Len(q) - 1
      /\ DOMAIN (low \o high) = 1 .. Len(q) - 1
      /\ \A i \in 1 .. Len(q) - 1 : (low \o high)[i] = IF i <= pos - 1 THEN low[i] ELSE high[i - (pos - 1)]
  <2>1. /\ low \o high \in Seq(S) /\ Len(low \o high) = Len(low) + Len(high)
        /\ \A i \in 1 .. Len(low) + Len(high) :
             (low \o high)[i] = IF i <= Len(low) THEN low[i] ELSE high[i - Len(low)]
    BY <1>2, <1>3, ConcatProperties
  <2>2. Len(low) + Len(high) = Len(q) - 1
    BY <1>1, <1>2, <1>3
  <2>3. DOMAIN (low \o high) = 1 .. Len(low \o high)
    BY <2>1, LenProperties
  <2> QED
    BY <2>1, <2>2, <2>3, <1>2
<1>5. ASSUME NEW i \in 1 .. pos - 1 PROVE (low \o high)[i] = q[i]
  BY <1>1, <1>2, <1>4
<1>6. ASSUME NEW i \in pos + 1 .. Len(q) PROVE (low \o high)[i - 1] = q[i]
  <2>1. i - 1 \in 1 .. Len(q) - 1 /\ ~(i - 1 <= pos - 1) /\ (i - 1) - (pos - 1) = i - pos
        /\ i - pos \in 1 .. Len(q) - pos /\ pos + (i - pos) = i
    BY <1>1
  <2> QED
    BY <2>1, <1>3, <1>4
<1>7. ASSUME NEW i \in 1 .. Len(q) - 1 PROVE (low \o high)[i] = IF i < pos THEN q[i] ELSE q[i + 1]
  <2>1. CASE i < pos
    <3>1. i \in 1 .. pos - 1
      BY <1>1, <2>1
    <3> QED
      BY <1>5, <2>1, <3>1
  <2>2. CASE ~(i < pos)
    <3>1. i + 1 \in pos + 1 .. Len(q) /\ (i + 1) - 1 = i
      BY <1>1, <2>2
    <3> QED
      BY <1>6, <2>2, <3>1
  <2> QED
    BY <2>1, <2>2
<1>8. RemoveAt(q, pos) = low \o high
  BY <1>1 DEF low, high
<1> QED
  BY <1>4, <1>5, <1>6, <1>7, <1>8

\* What is removed leaves the others in the list.
LEMMA Removed ==
    ASSUME NEW S, NEW q \in Seq(S), NEW pos \in DOMAIN q
    PROVE  /\ RemoveAt(q, pos) \in Seq(S)
           /\ \A i \in DOMAIN q \ {pos} :
                \E k \in DOMAIN RemoveAt(q, pos) : RemoveAt(q, pos)[k] = q[i]
<1>0. pos \in 1 .. Len(q) /\ DOMAIN q = 1 .. Len(q)
  BY LenProperties
<1>1. ASSUME NEW i \in DOMAIN q \ {pos}
      PROVE  \E k \in DOMAIN RemoveAt(q, pos) : RemoveAt(q, pos)[k] = q[i]
  <2>1. CASE i \in 1 .. pos - 1
    <3>1. i \in 1 .. Len(q) - 1
      BY <1>0, <2>1
    <3> QED
      BY <3>1, <2>1, RemoveAtIs
  <2>2. CASE i \in pos + 1 .. Len(q)
    <3>1. i - 1 \in 1 .. Len(q) - 1
      BY <1>0, <2>2
    <3> QED
      BY <3>1, <2>2, RemoveAtIs
  <2> QED
    BY <1>0, <2>1, <2>2
<1> QED
  BY <1>1, RemoveAtIs

-----------------------------------------------------------------------------
\* A discard that nothing has touched is as fine as it was.
Untouched(v) ==
    op'[v].at \in {"store", "restore"} =>
        /\ op[v].at = op'[v].at /\ op'[v].held = op[v].held
        /\ op'[v].alone =>
             /\ op[v].alone /\ op'[v].repo = op[v].repo /\ workspace'[v] = workspace[v]
             /\ tree'[op[v].repo] \subseteq tree[op[v].repo] /\ stashes'[op[v].repo] = stashes[op[v].repo]

LEMMA StillFine ==
    ASSUME NEW v \in Windows, Fine(v), Untouched(v)
    PROVE  Fine(v)'
BY DEF Fine, Untouched, Copied

\* Nothing is lost by a step that leaves every change somewhere.
LEMMA StillSomewhere ==
    ASSUME NothingIsLost, changed' = changed, exposed \subseteq exposed',
           \A c : Somewhere(c) => Somewhere(c)' \/ c \in exposed'
    PROVE  NothingIsLost'
BY DEF NothingIsLost, Somewhere, HeldIn

\* Whoever is in the repository of a command stops being alone.
LEMMA DisturbedOps ==
    ASSUME Ops, NEW r
    PROVE  /\ Disturbed(r) = [v \in Windows |-> Disturbed(r)[v]]
           /\ \A v \in Windows :
                /\ IsOp(Disturbed(r)[v])
                /\ Disturbed(r)[v].at = op[v].at /\ Disturbed(r)[v].repo = op[v].repo /\ Disturbed(r)[v].held = op[v].held
                /\ Disturbed(r)[v].alone => op[v].repo # r /\ op[v].alone
<1> SUFFICES ASSUME NEW v \in Windows
             PROVE  /\ IsOp(Disturbed(r)[v])
                    /\ Disturbed(r)[v].at = op[v].at /\ Disturbed(r)[v].repo = op[v].repo /\ Disturbed(r)[v].held = op[v].held
                    /\ Disturbed(r)[v].alone => op[v].repo # r /\ op[v].alone
  BY DEF Disturbed
<1>1. CASE op[v].repo = r
  <2>1. Disturbed(r)[v] = [op[v] EXCEPT !.alone = FALSE]
    BY <1>1 DEF Disturbed
  <2>2. Disturbed(r)[v] =
          [what |-> op[v].what, at |-> op[v].at, target |-> op[v].target, leave |-> op[v].leave,
           dirty |-> op[v].dirty, stash |-> op[v].stash, held |-> op[v].held, repo |-> op[v].repo, alone |-> FALSE]
    BY <2>1 DEF Ops, IsOp
  <2> QED
    BY <2>2 DEF IsOp
<1>2. CASE op[v].repo # r
  BY <1>2 DEF Disturbed, Ops
<1> QED
  BY <1>1, <1>2

\* A command changes the tree and the stashes of one repository.
LEMMA CommandFine ==
    ASSUME IInv, NEW w \in Windows, NEW r, NEW next, IsOp(next), Command(w, r, next),
           workspace' = workspace,
           \A q \in Repos : q # r => tree'[q] = tree[q] /\ stashes'[q] = stashes[q],
           next.at \notin {"store", "restore"} \/ Fine(w)'
    PROVE  Ops' /\ \A v \in Windows : Fine(v)'
<1>1. /\ op' = [v \in Windows |-> op'[v]] /\ op'[w] = next
      /\ \A v \in Windows \ {w} : op'[v] = Disturbed(r)[v]
  <2>1. Disturbed(r) = [v \in Windows |-> Disturbed(r)[v]]
    BY DisturbedOps DEF IInv
  <2> DEFINE before == Disturbed(r)
  <2>2. op' = [before EXCEPT ![w] = next]
    BY DEF Command
  <2> HIDE DEF before
  <2>3. before = [v \in Windows |-> before[v]]
    BY <2>1 DEF before
  <2>4. /\ op' = [v \in Windows |-> op'[v]] /\ op'[w] = next
        /\ \A v \in Windows \ {w} : op'[v] = before[v]
    BY <2>2, <2>3
  <2> QED
    BY <2>4 DEF before
<1>2. Ops'
  BY <1>1, DisturbedOps DEF IInv, Ops
<1>3. ASSUME NEW v \in Windows PROVE Fine(v)'
  <2>1. CASE v = w
    BY <1>1, <2>1 DEF Fine
  <2>2. CASE v # w
    <3>1. Untouched(v)
      BY <1>1, <2>2, DisturbedOps DEF IInv, Untouched, Fine, Shape
    <3> QED
      BY <3>1, StillFine DEF IInv
  <2> QED
    BY <2>1, <2>2
<1> QED
  BY <1>2, <1>3

\* So does what takes or drops a stash outside an operation.
LEMMA DisturbedFine ==
    ASSUME IInv, NEW r, op' = Disturbed(r), workspace' = workspace,
           \A q \in Repos : q # r => tree'[q] = tree[q] /\ stashes'[q] = stashes[q]
    PROVE  Ops' /\ \A v \in Windows : Fine(v)'
<1>1. Ops'
  BY DisturbedOps DEF IInv, Ops
<1>2. ASSUME NEW v \in Windows PROVE Fine(v)'
  <2>1. op'[v].at = op[v].at /\ op'[v].repo = op[v].repo /\ op'[v].held = op[v].held /\ (op'[v].alone => op[v].repo # r /\ op[v].alone)
    BY DisturbedOps DEF IInv
  <2>2. Fine(v) /\ workspace[v] \in Repos
    BY DEF IInv, Shape
  <2>3. Untouched(v)
    BY <2>1, <2>2 DEF Untouched, Fine
  <2> QED
    BY <2>2, <2>3, StillFine
<1> QED
  BY <1>1, <1>2

\* A step of an operation that touches no repository.
LEMMA OwnStepFine ==
    ASSUME IInv, NEW w \in Windows, NEW next, IsOp(next), op' = [op EXCEPT ![w] = next],
           UNCHANGED <<tree, stashes>>, \A v \in Windows \ {w} : workspace'[v] = workspace[v],
           next.at \notin {"store", "restore"} \/ Fine(w)'
    PROVE  Ops' /\ \A v \in Windows : Fine(v)'
<1>1. /\ op' = [v \in Windows |-> op'[v]] /\ op'[w] = next
      /\ \A v \in Windows \ {w} : op'[v] = op[v]
  BY DEF IInv, Ops
<1>2. Ops'
  BY <1>1 DEF IInv, Ops
<1>3. ASSUME NEW v \in Windows PROVE Fine(v)'
  <2>1. CASE v = w
    BY <1>1, <2>1 DEF Fine
  <2>2. CASE v # w
    <3>1. Untouched(v)
      BY <1>1, <2>2 DEF Untouched
    <3> QED
      BY <3>1, StillFine DEF IInv
  <2> QED
    BY <2>1, <2>2
<1> QED
  BY <1>2, <1>3

-----------------------------------------------------------------------------
\* What the commands make of the operation they belong to.
LEMMA NextAt ==
    ASSUME NEW o, IsOp(o), NEW x
    PROVE  /\ IsOp([o EXCEPT !.at = x])
           /\ [o EXCEPT !.at = x].at = x
           /\ [o EXCEPT !.at = x].repo = o.repo /\ [o EXCEPT !.at = x].alone = o.alone /\ [o EXCEPT !.at = x].held = o.held
<1>1. [o EXCEPT !.at = x] =
        [what |-> o.what, at |-> x, target |-> o.target, leave |-> o.leave, dirty |-> o.dirty,
         stash |-> o.stash, held |-> o.held, repo |-> o.repo, alone |-> o.alone]
  BY DEF IsOp
<1> QED
  BY <1>1 DEF IsOp

LEMMA NextAlone ==
    ASSUME NEW o, IsOp(o), NEW x
    PROVE  /\ IsOp([o EXCEPT !.alone = x]) /\ [o EXCEPT !.alone = x].alone = x
           /\ [o EXCEPT !.alone = x].at = o.at /\ [o EXCEPT !.alone = x].repo = o.repo /\ [o EXCEPT !.alone = x].held = o.held
<1>1. [o EXCEPT !.alone = x] =
        [what |-> o.what, at |-> o.at, target |-> o.target, leave |-> o.leave, dirty |-> o.dirty,
         stash |-> o.stash, held |-> o.held, repo |-> o.repo, alone |-> x]
  BY DEF IsOp
<1> QED
  BY <1>1 DEF IsOp

LEMMA NextStash ==
    ASSUME NEW o, IsOp(o), NEW x
    PROVE  /\ IsOp([o EXCEPT !.stash = x]) /\ [o EXCEPT !.stash = x].stash = x
           /\ [o EXCEPT !.stash = x].at = o.at /\ [o EXCEPT !.stash = x].repo = o.repo /\ [o EXCEPT !.stash = x].alone = o.alone
<1>1. [o EXCEPT !.stash = x] =
        [what |-> o.what, at |-> o.at, target |-> o.target, leave |-> o.leave, dirty |-> o.dirty,
         stash |-> x, held |-> o.held, repo |-> o.repo, alone |-> o.alone]
  BY DEF IsOp
<1> QED
  BY <1>1 DEF IsOp

LEMMA NextHeld ==
    ASSUME NEW o, IsOp(o), NEW x
    PROVE  /\ IsOp([o EXCEPT !.held = x]) /\ [o EXCEPT !.held = x].held = x
           /\ [o EXCEPT !.held = x].at = o.at /\ [o EXCEPT !.held = x].repo = o.repo /\ [o EXCEPT !.held = x].alone = o.alone
<1>1. [o EXCEPT !.held = x] =
        [what |-> o.what, at |-> o.at, target |-> o.target, leave |-> o.leave, dirty |-> o.dirty,
         stash |-> o.stash, held |-> x, repo |-> o.repo, alone |-> o.alone]
  BY DEF IsOp
<1> QED
  BY <1>1 DEF IsOp

LEMMA NextDirty ==
    ASSUME NEW o, IsOp(o), NEW x
    PROVE  /\ IsOp([o EXCEPT !.dirty = x]) /\ [o EXCEPT !.dirty = x].dirty = x
           /\ [o EXCEPT !.dirty = x].at = o.at /\ [o EXCEPT !.dirty = x].repo = o.repo /\ [o EXCEPT !.dirty = x].alone = o.alone
<1>1. [o EXCEPT !.dirty = x] =
        [what |-> o.what, at |-> o.at, target |-> o.target, leave |-> o.leave, dirty |-> x,
         stash |-> o.stash, held |-> o.held, repo |-> o.repo, alone |-> o.alone]
  BY DEF IsOp
<1> QED
  BY <1>1 DEF IsOp

LEMMA NextStashed ==
    ASSUME NEW o, IsOp(o), NEW x, NEW y, NEW z
    PROVE  /\ IsOp(Knowing(o, x, y, z)) /\ Knowing(o, x, y, z).at = x
           /\ Knowing(o, x, y, z).repo = o.repo /\ Knowing(o, x, y, z).alone = o.alone
<1> DEFINE n1 == [o EXCEPT !.at = x]
           n2 == [n1 EXCEPT !.stash = y]
           n3 == [n2 EXCEPT !.held = z]
<1>1. Knowing(o, x, y, z) = n3
  BY DEF Knowing
<1>2. IsOp(n1) /\ n1.at = x /\ n1.repo = o.repo /\ n1.alone = o.alone
  BY NextAt
<1> HIDE DEF n1
<1>3. IsOp(n2) /\ n2.at = x /\ n2.repo = o.repo /\ n2.alone = o.alone
  BY <1>2, NextStash
<1> HIDE DEF n2
<1>4. IsOp(n3) /\ n3.at = x /\ n3.repo = o.repo /\ n3.alone = o.alone
  BY <1>3, NextHeld
<1> QED
  BY <1>1, <1>4

\* Where a pop leads: nothing that was somewhere is nowhere afterwards.
LEMMA PopKeeps ==
    ASSUME Shape, NEW r \in Repos, NEW pos, NEW outcome \in Outcomes, Pop(r, pos, outcome[1], outcome[2])
    PROVE  /\ tree' \in [Repos -> SUBSET Changes] /\ Lists'
           /\ \A q \in Repos : q # r => tree'[q] = tree[q] /\ stashes'[q] = stashes[q]
           /\ \A c : \A q \in Repos : c \in tree[q] \/ HeldIn(c, stashes[q])
                                      => c \in tree'[q] \/ HeldIn(c, stashes'[q])
<1>0. tree \in [Repos -> SUBSET Changes] /\ Lists
  BY DEF Shape
<1>1. CASE pos \notin DOMAIN stashes[r]
  BY <1>0, <1>1 DEF Pop, Lists
<1>2. CASE pos \in DOMAIN stashes[r]
  <2> DEFINE q0 == stashes[r]
  <2>1. PICK S : q0 \in Seq(S) /\ \A x \in S : x.holds \in SUBSET Changes
    BY <1>0 DEF Lists, IsList
  <2>0. q0[pos].holds \in SUBSET Changes
    <3>1. pos \in 1 .. Len(q0)
      BY <1>2, <2>1, LenProperties
    <3> HIDE DEF q0
    <3> QED
      BY <2>1, <3>1, ElementOfSeq
  <2>2. tree' = tree \/ tree' = [tree EXCEPT ![r] = tree[r] \union q0[pos].holds]
    BY <1>2 DEF Pop
  <2>3. \/ stashes' = stashes
        \/ /\ stashes' = [stashes EXCEPT ![r] = RemoveAt(q0, pos)]
           /\ tree' = [tree EXCEPT ![r] = tree[r] \union q0[pos].holds]
    <3>1. outcome[2] => outcome[1]
      <4>1. outcome = <<TRUE, TRUE>> \/ outcome = <<TRUE, FALSE>> \/ outcome = <<FALSE, FALSE>>
        BY DEF Outcomes
      <4>2. CASE outcome = <<TRUE, TRUE>>
        BY <4>2
      <4>4. CASE outcome = <<TRUE, FALSE>>
        <5>1. outcome[2] = FALSE
          BY <4>4
        <5> QED
          BY <5>1
      <4>3. CASE outcome = <<FALSE, FALSE>>
        <5>1. outcome[2] = FALSE
          BY <4>3
        <5> QED
          BY <5>1
      <4> QED
        BY <4>1, <4>2, <4>3, <4>4
    <3>2. /\ tree' = IF outcome[1] THEN [tree EXCEPT ![r] = tree[r] \union q0[pos].holds] ELSE tree
          /\ stashes' = IF outcome[2] THEN [stashes EXCEPT ![r] = RemoveAt(q0, pos)] ELSE stashes
      BY <1>2 DEF Pop
    <3> HIDE DEF q0
    <3> QED
      BY <3>1, <3>2
  <2>4. tree' \in [Repos -> SUBSET Changes] /\ \A q \in Repos : tree[q] \subseteq tree'[q] /\ (q # r => tree'[q] = tree[q])
    BY <1>0, <2>0, <2>2
  <2>5. CASE stashes' = stashes
    BY <1>0, <2>4, <2>5 DEF Lists
  <2>6. CASE /\ stashes' = [stashes EXCEPT ![r] = RemoveAt(q0, pos)]
             /\ tree' = [tree EXCEPT ![r] = tree[r] \union q0[pos].holds]
    <3>1. /\ RemoveAt(q0, pos) \in Seq(S)
          /\ \A i \in DOMAIN q0 \ {pos} : \E k \in DOMAIN RemoveAt(q0, pos) : RemoveAt(q0, pos)[k] = q0[i]
      BY <1>2, <2>1, Removed
    <3>2. /\ stashes'[r] = RemoveAt(q0, pos) /\ tree'[r] = tree[r] \union q0[pos].holds
          /\ stashes' = [q \in Repos |-> stashes'[q]]
          /\ \A q \in Repos : q # r => stashes'[q] = stashes[q]
      BY <1>0, <2>6 DEF Lists
    <3>4. Lists'
      BY <1>0, <2>1, <3>1, <3>2 DEF Lists, IsList
    <3>3. ASSUME NEW c, HeldIn(c, q0) PROVE c \in q0[pos].holds \/ HeldIn(c, stashes'[r])
      BY <3>1, <3>2, <3>3 DEF HeldIn
    <3> QED
      BY <2>4, <3>2, <3>3, <3>4
  <2> QED
    BY <2>3, <2>5, <2>6
<1> QED
  BY <1>1, <1>2

\* A new stash leaves what the others hold, and holds what it was made of.
LEMMA StashedKeeps ==
    ASSUME Shape, NEW r \in Repos, NEW changes \in SUBSET Changes
    PROVE  /\ IsList(Stashed(r, changes))
           /\ 1 \in DOMAIN Stashed(r, changes) /\ Stashed(r, changes)[1].holds = changes
           /\ \A c : HeldIn(c, stashes[r]) => HeldIn(c, Stashed(r, changes))
           /\ \A c \in changes : HeldIn(c, Stashed(r, changes))
<1> DEFINE x == [id |-> stored + 1, on |-> branch[r], holds |-> changes]
<1>1. x.holds = changes
  OBVIOUS
<1>2. Stashed(r, changes) = <<x>> \o stashes[r]
  BY DEF Stashed
<1> HIDE DEF x
<1>a. PICK S : stashes[r] \in Seq(S) /\ \A y \in S : y.holds \in SUBSET Changes
  BY DEF Shape, Lists, IsList
<1>b. stashes[r] \in Seq(S \union {x}) /\ \A y \in S \union {x} : y.holds \in SUBSET Changes
  BY <1>1, <1>a, SeqMonotonic
<1>3. /\ Stashed(r, changes) \in Seq(S \union {x})
      /\ 1 \in DOMAIN Stashed(r, changes) /\ Stashed(r, changes)[1] = x
      /\ \A i \in DOMAIN stashes[r] :
           i + 1 \in DOMAIN Stashed(r, changes) /\ Stashed(r, changes)[i + 1] = stashes[r][i]
  BY <1>2, <1>b, PutFirst
<1>4. IsList(Stashed(r, changes))
  BY <1>3, <1>b DEF IsList
<1> QED
  BY <1>1, <1>3, <1>4 DEF HeldIn

-----------------------------------------------------------------------------
(***************************************************************************)
(* Every action preserves the invariant.                                   *)
(***************************************************************************)
LEMMA InitSafe == StashesInit => IInv
<1> SUFFICES ASSUME StashesInit PROVE IInv
  OBVIOUS
<1>1. Shape
  <2>1. stashes = [q \in Repos |-> << >>]
    BY DEF StashesInit
  <2>2. IsList(<< >>)
    <3> DEFINE S == {}
    <3>1. << >> \in Seq(S) /\ \A x \in S : x.holds \in SUBSET Changes
      OBVIOUS
    <3> HIDE DEF S
    <3> QED
      BY <3>1 DEF IsList
  <2> QED
    BY <2>1, <2>2 DEF StashesInit, Shape, Lists
<1>2. Ops /\ \A v \in Windows : Fine(v)
  BY DEF StashesInit, Ops, IsOp, NoOp, Fine
<1>3. NothingIsLost
  BY DEF StashesInit, NothingIsLost
<1> QED
  BY <1>1, <1>2, <1>3 DEF IInv

\* Steps that change no tree, no list and no more than the operation of w.
LEMMA QuietSafe ==
    ASSUME IInv, Ops', \A v \in Windows : Fine(v)', UNCHANGED <<tree, committed, stashes, changed, dropped, exposed>>,
           workspace' \in [Windows -> Repos]
    PROVE  IInv'
BY DEF IInv, Shape, Lists, NothingIsLost

LEMMA EditFileSafe ==
    ASSUME IInv, NEW c \in Changes, NEW r \in Repos, EditFile(c, r)
    PROVE  IInv'
<1>0. /\ changed' = changed \union {c} /\ tree' = [tree EXCEPT ![r] = tree[r] \union {c}]
      /\ UNCHANGED <<workspace, committed, stashes, dropped, exposed>>
      /\ op' = [v \in Windows |-> IF op[v].repo = r /\ op[v].at \in {"store", "restore"}
                                  THEN [op[v] EXCEPT !.alone = FALSE] ELSE op[v]]
  BY DEF EditFile
<1>1. Shape' /\ \A q \in Repos : tree[q] \subseteq tree'[q] /\ (q # r => tree'[q] = tree[q])
  BY <1>0 DEF IInv, Shape, Lists
<1>2. NothingIsLost'
  <2>1. c \in tree'[r]
    BY <1>0 DEF IInv, Shape
  <2> QED
    BY <1>0, <1>1, <2>1 DEF IInv, NothingIsLost
<1>3. ASSUME NEW v \in Windows
      PROVE  IsOp(op'[v]) /\ Fine(v)'
  <2>1. CASE op[v].repo = r /\ op[v].at \in {"store", "restore"}
    <3>1. op'[v] = [what |-> op[v].what, at |-> op[v].at, target |-> op[v].target, leave |-> op[v].leave,
                    dirty |-> op[v].dirty, stash |-> op[v].stash, held |-> op[v].held, repo |-> op[v].repo,
                    alone |-> FALSE]
      <4>1. op'[v] = [op[v] EXCEPT !.alone = FALSE] /\ IsOp(op[v])
        BY <1>0, <2>1 DEF IInv, Ops
      <4> QED
        BY <4>1 DEF IsOp
    <3>2. Fine(v)
      BY DEF IInv
    <3> QED
      BY <3>1, <3>2 DEF IsOp, Fine
  <2>2. CASE ~(op[v].repo = r /\ op[v].at \in {"store", "restore"})
    <3>1. op'[v] = op[v] /\ IsOp(op[v]) /\ Fine(v)
      BY <1>0, <2>2 DEF IInv, Ops
    <3>2. CASE op[v].at \in {"store", "restore"} /\ op[v].alone /\ op[v].repo \in Repos
      BY <1>0, <1>1, <2>2, <3>1, <3>2 DEF Fine, Copied
    <3>3. CASE op[v].at \notin {"store", "restore"} \/ ~op[v].alone
      BY <1>0, <3>1, <3>3 DEF Fine
    <3>4. op[v].at \in {"store", "restore"} /\ op[v].alone => op[v].repo \in Repos
      BY <3>1 DEF Fine, IInv, Shape
    <3> QED
      BY <3>2, <3>3, <3>4
  <2> QED
    BY <2>1, <2>2
<1>4. Ops'
  BY <1>0, <1>3 DEF Ops
<1> QED
  BY <1>1, <1>2, <1>3, <1>4 DEF IInv

LEMMA SelectRepositorySafe ==
    ASSUME IInv, NEW w \in Windows, NEW r \in Repos, SelectRepository(w, r)
    PROVE  IInv'
<1> DEFINE next == [op[w] EXCEPT !.alone = FALSE]
<1>2. IsOp(next) /\ ~next.alone /\ next.at = op[w].at /\ next.held = op[w].held
  BY NextAlone DEF IInv, Ops
<1>3. /\ op' = [op EXCEPT ![w] = next] /\ workspace' = [workspace EXCEPT ![w] = r]
      /\ UNCHANGED <<tree, committed, stashes, changed, dropped, exposed>>
  BY DEF SelectRepository
<1> HIDE DEF next
<1>4. workspace' \in [Windows -> Repos] /\ \A v \in Windows \ {w} : workspace'[v] = workspace[v]
  BY <1>3 DEF IInv, Shape
<1>5. Fine(w)'
  <2>1. op'[w] = next /\ Fine(w)
    BY <1>3 DEF IInv, Ops
  <2> QED
    BY <1>2, <2>1 DEF Fine
<1> QED
  BY <1>2, <1>3, <1>4, <1>5, OwnStepFine, QuietSafe

LEMMA StartSafe ==
    ASSUME IInv, NEW w \in Windows, NEW what, NEW target, NEW leave, Start(w, what, target, leave)
    PROVE  IInv'
<1> DEFINE next ==
      [what |-> what, at |-> IF what = "change" THEN "status" ELSE "head", target |-> target, leave |-> leave,
       dirty |-> FALSE, stash |-> 0, held |-> {}, repo |-> workspace[w], alone |-> TRUE]
<1>2. IsOp(next) /\ next.at \notin {"store", "restore"}
  BY DEF IsOp
<1>3. /\ op' = [op EXCEPT ![w] = next]
      /\ UNCHANGED <<workspace, tree, committed, stashes, changed, dropped, exposed>>
  BY DEF Start
<1> HIDE DEF next
<1> QED
  BY <1>2, <1>3, OwnStepFine, QuietSafe DEF IInv, Shape

LEMMA HasUncommittedChangesSafe ==
    ASSUME IInv, NEW w \in Windows, HasUncommittedChanges(w)
    PROVE  IInv'
<1> DEFINE dirty == tree[workspace[w]] # {}
           x == IF dirty THEN "push" ELSE "checkout"
           next == [op[w] EXCEPT !.dirty = dirty, !.at = x]
<1>1. next = [what |-> op[w].what, at |-> x, target |-> op[w].target, leave |-> op[w].leave,
              dirty |-> dirty, stash |-> op[w].stash, held |-> op[w].held, repo |-> op[w].repo,
              alone |-> op[w].alone]
  <2>1. IsOp(op[w]) /\ next = [[op[w] EXCEPT !.dirty = dirty] EXCEPT !.at = x]
    BY DEF IInv, Ops
  <2> HIDE DEF next, dirty, x
  <2> QED
    BY <2>1 DEF IsOp
<1>2. IsOp(next) /\ next.at \notin {"store", "restore"}
  BY <1>1 DEF IsOp
<1>3. /\ op' = [op EXCEPT ![w] = next]
      /\ UNCHANGED <<workspace, tree, committed, stashes, changed, dropped, exposed>>
  <2>1. op' = [op EXCEPT ![w].dirty = dirty, ![w].at = x]
    BY DEF HasUncommittedChanges
  <2>2. w \in DOMAIN op
    BY DEF IInv, Ops
  <2> QED
    BY <2>1, <2>2 DEF HasUncommittedChanges
<1> HIDE DEF next
<1> QED
  BY <1>2, <1>3, OwnStepFine, QuietSafe DEF IInv, Shape

\* A step of w that only moves on to x.
LEMMA MoveOnSafe ==
    ASSUME IInv, NEW w \in Windows, NEW x, x \notin {"store", "restore"}, op' = [op EXCEPT ![w].at = x],
           UNCHANGED <<workspace, tree, committed, stashes, changed, dropped, exposed>>
    PROVE  IInv'
<1> DEFINE next == [op[w] EXCEPT !.at = x]
<1>1. IsOp(next) /\ next.at = x
  BY NextAt DEF IInv, Ops
<1>2. op' = [op EXCEPT ![w] = next]
  OBVIOUS
<1> HIDE DEF next
<1> QED
  BY <1>1, <1>2, OwnStepFine, QuietSafe DEF IInv, Shape

\* What a command of w leaves to show, once its effect on the repository is known.
LEMMA CommandSafe ==
    ASSUME IInv, NEW w \in Windows, NEW r, NEW next, IsOp(next), Command(w, r, next),
           UNCHANGED <<workspace, changed, dropped>>, exposed \subseteq exposed', Shape',
           \A q \in Repos : q # r => tree'[q] = tree[q] /\ stashes'[q] = stashes[q],
           next.at \notin {"store", "restore"} \/ Fine(w)',
           \A c : Somewhere(c) => Somewhere(c)' \/ c \in exposed'
    PROVE  IInv'
<1>1. Ops' /\ \A v \in Windows : Fine(v)'
  BY CommandFine
<1>2. NothingIsLost'
  BY StillSomewhere DEF IInv
<1> QED
  BY <1>1, <1>2 DEF IInv

LEMMA StashPushSafe ==
    ASSUME IInv, NEW w \in Windows, StashPush(w)
    PROVE  IInv'
<1> DEFINE r == workspace[w]
           next == Knowing(op[w], "checkout", stored + 1, tree[r])
<1>1. CASE stashes' = stashes /\ tree' = tree /\ \E x \in {"checkout", "failed"} : op' = [op EXCEPT ![w].at = x]
  BY <1>1, MoveOnSafe DEF StashPush
<1>2. CASE /\ stashes' = [stashes EXCEPT ![r] = Stashed(r, tree[r])] /\ tree' = [tree EXCEPT ![r] = {}]
           /\ Command(w, r, next)
  <2>1. /\ stashes' = [stashes EXCEPT ![r] = Stashed(r, tree[r])] /\ tree' = [tree EXCEPT ![r] = {}]
        /\ Command(w, r, next)
        /\ UNCHANGED <<workspace, committed, changed, dropped, exposed>>
    BY <1>2 DEF StashPush
  <2>2. r \in Repos /\ tree[r] \in SUBSET Changes /\ Shape
    BY DEF IInv, Shape
  <2>3. IsOp(next) /\ next.at = "checkout"
    <3>1. IsOp(op[w])
      BY DEF IInv, Ops
    <3> QED
      BY <3>1, NextStashed
  <2>4. /\ IsList(Stashed(r, tree[r]))
        /\ \A c : HeldIn(c, stashes[r]) => HeldIn(c, Stashed(r, tree[r]))
        /\ \A c \in tree[r] : HeldIn(c, Stashed(r, tree[r]))
    BY <2>2, StashedKeeps
  <2> HIDE DEF r, next
  <2>5. /\ Shape' /\ stashes'[r] = Stashed(r, tree[r])
        /\ \A q \in Repos : q # r => tree'[q] = tree[q] /\ stashes'[q] = stashes[q]
    BY <2>1, <2>2, <2>4 DEF Shape, Lists
  <2>6. \A c : Somewhere(c) => Somewhere(c)'
    BY <2>1, <2>2, <2>4, <2>5 DEF Somewhere
  <2> QED
    BY <2>1, <2>3, <2>5, <2>6, CommandSafe
<1> QED
  BY <1>1, <1>2 DEF StashPush

LEMMA CheckoutSafe ==
    ASSUME IInv, NEW w \in Windows, Checkout(w)
    PROVE  IInv'
<1> DEFINE r == workspace[w]
           x == IF BringsBack(op[w]) THEN "pop" ELSE "done"
           y == IF op[w].dirty THEN "unpush" ELSE "failed"
           next == [op[w] EXCEPT !.at = x]
<1>0. UNCHANGED <<workspace, tree, committed, stashes, changed, dropped, exposed>>
  BY DEF Checkout
<1>1. CASE Command(w, r, next)
  <2>1. IsOp(next) /\ next.at \notin {"store", "restore"}
    BY NextAt DEF IInv, Ops
  <2> HIDE DEF next, r
  <2>2. Shape' /\ \A c : Somewhere(c) => Somewhere(c)'
    BY <1>0 DEF IInv, Shape, Lists, Somewhere
  <2> QED
    BY <1>0, <1>1, <2>1, <2>2, CommandSafe
<1>2. CASE op' = [op EXCEPT ![w].at = y]
  <2>1. y \notin {"store", "restore"}
    OBVIOUS
  <2> HIDE DEF y
  <2> QED
    BY <1>0, <1>2, <2>1, MoveOnSafe
<1> QED
  BY <1>1, <1>2 DEF Checkout

LEMMA StashPopSafe ==
    ASSUME IInv, NEW w \in Windows, StashPop(w)
    PROVE  IInv'
<1> DEFINE r == workspace[w]
<1>1. PICK outcome \in Outcomes :
        /\ Pop(r, 1, outcome[1], outcome[2])
        /\ Command(w, r, [op[w] EXCEPT !.at = IF op[w].at = "pop" /\ Popped(r, 1, outcome) THEN "done" ELSE "failed"])
  BY DEF StashPop
<1> DEFINE next == [op[w] EXCEPT !.at = IF op[w].at = "pop" /\ Popped(r, 1, outcome) THEN "done" ELSE "failed"]
<1>2. IsOp(next) /\ next.at \notin {"store", "restore"}
  BY NextAt DEF IInv, Ops
<1>3. UNCHANGED <<workspace, committed, changed, dropped, exposed>> /\ r \in Repos /\ Command(w, r, next)
  BY <1>1 DEF StashPop, IInv, Shape
<1> HIDE DEF next, r
<1>4. /\ tree' \in [Repos -> SUBSET Changes] /\ Lists'
      /\ \A q \in Repos : q # r => tree'[q] = tree[q] /\ stashes'[q] = stashes[q]
      /\ \A c : \A q \in Repos : c \in tree[q] \/ HeldIn(c, stashes[q])
                                 => c \in tree'[q] \/ HeldIn(c, stashes'[q])
  BY <1>1, <1>3, PopKeeps DEF IInv
<1>5. Shape' /\ \A c : Somewhere(c) => Somewhere(c)'
  BY <1>3, <1>4 DEF IInv, Shape, Somewhere
<1> QED
  BY <1>2, <1>3, <1>4, <1>5, CommandSafe

LEMMA HasHeadSafe ==
    ASSUME IInv, NEW w \in Windows, HasHead(w)
    PROVE  IInv'
<1> DEFINE without == [op[w] EXCEPT !.at = "restore", !.alone = FALSE]
<1>0. UNCHANGED <<workspace, tree, committed, stashes, changed, dropped, exposed>>
  BY DEF HasHead
<1>1. CASE op' = [op EXCEPT ![w].at = "copy"]
  <2> DEFINE x == "copy"
  <2>1. x \notin {"store", "restore"} /\ op' = [op EXCEPT ![w].at = x]
    BY <1>1
  <2> HIDE DEF x
  <2> QED
    BY <1>0, <2>1, MoveOnSafe
<1>2. CASE op' = [op EXCEPT ![w] = [op[w] EXCEPT !.at = "restore", !.alone = FALSE]]
  <2>2. IsOp(without) /\ without.at = "restore" /\ ~without.alone
    <3> DEFINE n1 == [op[w] EXCEPT !.at = "restore"]
               n2 == [n1 EXCEPT !.alone = FALSE]
    <3>1. IsOp(n1) /\ n1.at = "restore"
      BY NextAt DEF IInv, Ops
    <3>2. without = n2
      OBVIOUS
    <3> HIDE DEF n1, without
    <3>3. IsOp(n2) /\ n2.at = n1.at /\ ~n2.alone
      BY <3>1, NextAlone
    <3> QED
      BY <3>1, <3>2, <3>3
  <2>3. op' = [op EXCEPT ![w] = without]
    BY <1>2
  <2> HIDE DEF without
  <2>4. Fine(w)'
    <3>1. op'[w] = without
      BY <2>3 DEF IInv, Ops
    <3> QED
      BY <2>2, <3>1 DEF Fine
  <2> QED
    BY <1>0, <2>2, <2>3, <2>4, OwnStepFine, QuietSafe DEF IInv, Shape
<1> QED
  BY <1>1, <1>2 DEF HasHead

LEMMA CopyChangesSafe ==
    ASSUME IInv, NEW w \in Windows, CopyChanges(w)
    PROVE  IInv'
<1> DEFINE r == workspace[w]
           copy == [op[w] EXCEPT !.at = "store", !.held = tree[r], !.repo = r]
<1>0. UNCHANGED <<workspace, tree, committed, stashes, changed, dropped, exposed>>
  BY DEF CopyChanges
<1>1. CASE op' = [op EXCEPT ![w] = [op[w] EXCEPT !.at = "store", !.held = tree[r], !.repo = r]]
  <2>2. IsOp(copy) /\ copy.at = "store" /\ copy.held = tree[r] /\ copy.repo = r
    <3> DEFINE n1 == [op[w] EXCEPT !.at = "store"]
               n2 == [n1 EXCEPT !.held = tree[r]]
               n3 == [n2 EXCEPT !.repo = r]
    <3>1. IsOp(n1) /\ n1.at = "store"
      BY NextAt DEF IInv, Ops
    <3>2. copy = n3
      OBVIOUS
    <3> HIDE DEF n1, copy, r
    <3>3. IsOp(n2) /\ n2.at = n1.at /\ n2.held = tree[r]
      BY <3>1, NextHeld
    <3> HIDE DEF n2
    <3>4. n3 = [what |-> n2.what, at |-> n2.at, target |-> n2.target, leave |-> n2.leave, dirty |-> n2.dirty,
                stash |-> n2.stash, held |-> n2.held, repo |-> r, alone |-> n2.alone]
      BY <3>3 DEF IsOp
    <3>5. IsOp(n3) /\ n3.at = n2.at /\ n3.held = n2.held /\ n3.repo = r
      BY <3>4 DEF IsOp
    <3> HIDE DEF n3
    <3> QED
      BY <3>1, <3>2, <3>3, <3>5
  <2>3. op' = [op EXCEPT ![w] = copy]
    BY <1>1
  <2>4. r = workspace[w] /\ r \in Repos /\ tree[r] \in SUBSET Changes
    BY DEF IInv, Shape
  <2> HIDE DEF copy, r
  <2>5. Fine(w)'
    <3>1. op'[w] = copy
      BY <2>3 DEF IInv, Ops
    <3> QED
      BY <1>0, <2>2, <2>4, <3>1 DEF Fine
  <2> QED
    BY <1>0, <2>2, <2>3, <2>5, OwnStepFine, QuietSafe DEF IInv, Shape
<1>2. CASE op' = [op EXCEPT ![w].at = AfterCopy(w, FALSE)]
  <2>1. AfterCopy(w, FALSE) \notin {"store", "restore"}
    BY DEF AfterCopy
  <2> QED
    BY <1>0, <1>2, <2>1, MoveOnSafe
<1> QED
  BY <1>1, <1>2 DEF CopyChanges

LEMMA StashStoreSafe ==
    ASSUME IInv, NEW w \in Windows, StashStore(w)
    PROVE  IInv'
<1> DEFINE r == workspace[w]
           held == op[w].held
           next == Knowing(op[w], AfterCopy(w, TRUE), stored + 1, op[w].held)
<1>1. CASE stashes' = [stashes EXCEPT ![r] = Stashed(r, op[w].held)] /\ Command(w, r, next)
  <2>1. UNCHANGED <<workspace, tree, committed, changed, dropped, exposed>> /\ op[w].at = "store"
    BY DEF StashStore
  <2>2. r \in Repos /\ held \in SUBSET Changes /\ Shape
    BY <2>1 DEF IInv, Shape, Fine
  <2>3. IsOp(next) /\ next.at = "restore" /\ next.repo = op[w].repo /\ next.alone = op[w].alone
    <3>1. IsOp(op[w]) /\ AfterCopy(w, TRUE) = "restore"
      BY DEF IInv, Ops, AfterCopy
    <3> DEFINE to == AfterCopy(w, TRUE)
               number == stored + 1
    <3>2. next = Knowing(op[w], to, number, held) /\ to = "restore"
      BY <3>1
    <3> HIDE DEF to, number, held, next
    <3>3. /\ IsOp(Knowing(op[w], to, number, held))
          /\ Knowing(op[w], to, number, held).at = to
          /\ Knowing(op[w], to, number, held).repo = op[w].repo
          /\ Knowing(op[w], to, number, held).alone = op[w].alone
      BY <3>1, NextStashed
    <3> QED
      BY <3>2, <3>3
  <2>4. /\ IsList(Stashed(r, held))
        /\ 1 \in DOMAIN Stashed(r, held) /\ Stashed(r, held)[1].holds = held
        /\ \A c : HeldIn(c, stashes[r]) => HeldIn(c, Stashed(r, held))
    <3> HIDE DEF held, r
    <3> QED
      BY <2>2, StashedKeeps
  <2>5. r = workspace[w] /\ held = op[w].held
    OBVIOUS
  <2> HIDE DEF r, next, held
  <2>6. /\ Shape' /\ stashes'[r] = Stashed(r, held)
        /\ \A q \in Repos : q # r => tree'[q] = tree[q] /\ stashes'[q] = stashes[q]
    BY <1>1, <2>1, <2>2, <2>4, <2>5 DEF Shape, Lists
  <2>7. \A c : Somewhere(c) => Somewhere(c)'
    BY <2>1, <2>2, <2>4, <2>6 DEF Somewhere
\* What is listed now holds the tree, if nobody came since it was copied.
  <2>8. Fine(w)'
    <3>1. op'[w] = next
      BY <1>1, DisturbedOps DEF IInv, Command
    <3>2. op[w].alone => op[w].repo = r /\ tree[r] \subseteq held
      BY <2>1, <2>5 DEF IInv, Fine
    <3>3. op[w].alone => \E i \in DOMAIN stashes'[r] : tree'[r] \subseteq stashes'[r][i].holds
      BY <2>1, <2>4, <2>6, <3>2
    <3> QED
      BY <2>1, <2>3, <2>5, <3>1, <3>2, <3>3 DEF Fine, Copied
  <2> QED
    BY <1>1, <2>1, <2>3, <2>6, <2>7, <2>8, CommandSafe
<1>2. CASE op' = [op EXCEPT ![w].at = AfterCopy(w, FALSE)] /\ stashes' = stashes
  <2>1. AfterCopy(w, FALSE) \notin {"store", "restore"}
    BY DEF AfterCopy
  <2> QED
    BY <1>2, <2>1, MoveOnSafe DEF StashStore
<1> QED
  BY <1>1, <1>2 DEF StashStore

LEMMA RestoreSafe ==
    ASSUME IInv, NEW w \in Windows, NEW taken \in SUBSET tree[workspace[w]], NEW x, Restore(w, taken, x)
    PROVE  IInv'
<1> DEFINE r == workspace[w]
           next == [op[w] EXCEPT !.at = x]
<1>1. /\ op[w].at = "restore" /\ tree' = [tree EXCEPT ![r] = tree[r] \ taken] /\ taken \subseteq tree[r]
      /\ exposed' = (IF op[w].alone THEN exposed ELSE exposed \union taken)
      /\ Command(w, r, next) /\ UNCHANGED <<workspace, committed, stashes, changed, dropped>>
      /\ x \in {"restore", "done"}
  BY DEF Restore
<1>2. IsOp(next) /\ next.at = x /\ next.repo = op[w].repo /\ next.alone = op[w].alone
  BY NextAt DEF IInv, Ops
<1>3. /\ r \in Repos /\ r = workspace[w]
      /\ op[w].alone => op[w].repo = r /\ Copied(r)
  BY <1>1 DEF IInv, Shape, Fine
<1> HIDE DEF r, next
<1>4. /\ Shape' /\ tree'[r] = tree[r] \ taken
      /\ \A q \in Repos : q # r => tree'[q] = tree[q] /\ stashes'[q] = stashes[q]
  BY <1>1, <1>3 DEF IInv, Shape, Lists
<1>5. ASSUME NEW c, Somewhere(c) PROVE Somewhere(c)' \/ c \in exposed'
  <2>1. CASE c \in taken /\ op[w].alone
    BY <1>1, <1>3, <2>1 DEF Somewhere, HeldIn, Copied
  <2>2. CASE c \in taken /\ ~op[w].alone
    BY <1>1, <2>2
  <2>3. CASE c \notin taken
    BY <1>1, <1>4, <1>5, <2>3 DEF Somewhere
  <2> QED
    BY <2>1, <2>2, <2>3
<1>6. exposed \subseteq exposed'
  BY <1>1
<1>7. Fine(w)'
  <2>1. op'[w] = next
    BY <1>1, DisturbedOps DEF IInv, Command
  <2>2. op[w].alone => \E i \in DOMAIN stashes'[r] : tree'[r] \subseteq stashes'[r][i].holds
    BY <1>1, <1>3, <1>4 DEF Copied
  <2>3. op[w].alone => next.repo = r /\ workspace'[w] = r
    BY <1>1, <1>2, <1>3
  <2> QED
    BY <1>1, <1>2, <2>1, <2>2, <2>3 DEF Fine, Copied
<1> QED
  BY <1>1, <1>2, <1>4, <1>5, <1>6, <1>7, CommandSafe

LEMMA SettledSafe ==
    ASSUME IInv, NEW w \in Windows, Settled(w)
    PROVE  IInv'
<1>1. IsOp(NoOp) /\ NoOp.at \notin {"store", "restore"}
  BY DEF IsOp, NoOp
<1> QED
  BY <1>1, OwnStepFine, QuietSafe DEF Settled, IInv, Shape

LEMMA PointSafe ==
    ASSUME IInv, NEW w \in Windows, NEW i, NEW drop, Point(w, i, drop)
    PROVE  IInv'
BY DEF Point, IInv, Shape, Lists, Ops, NothingIsLost, Fine, Copied

\* What a pop or a drop outside an operation leaves to show.
LEMMA OutsideSafe ==
    ASSUME IInv, NEW r, op' = Disturbed(r), UNCHANGED <<workspace, changed, exposed>>, Shape',
           \A q \in Repos : q # r => tree'[q] = tree[q] /\ stashes'[q] = stashes[q],
           \A c : Somewhere(c) => Somewhere(c)'
    PROVE  IInv'
<1>1. Ops' /\ \A v \in Windows : Fine(v)'
  BY DisturbedFine
<1>2. NothingIsLost'
  BY StillSomewhere DEF IInv
<1> QED
  BY <1>1, <1>2 DEF IInv

LEMMA PopStashSafe ==
    ASSUME IInv, NEW w \in Windows, PopStash(w)
    PROVE  IInv'
<1> DEFINE r == workspace[w]
<1>1. PICK outcome \in Outcomes : Pop(r, pointed[w].pos, outcome[1], outcome[2])
  BY DEF PopStash
<1>2. op' = Disturbed(r) /\ UNCHANGED <<workspace, committed, changed, dropped, exposed>> /\ r \in Repos
  BY DEF PopStash, IInv, Shape
<1> HIDE DEF r
<1>3. /\ tree' \in [Repos -> SUBSET Changes] /\ Lists'
      /\ \A q \in Repos : q # r => tree'[q] = tree[q] /\ stashes'[q] = stashes[q]
      /\ \A c : \A q \in Repos : c \in tree[q] \/ HeldIn(c, stashes[q])
                                 => c \in tree'[q] \/ HeldIn(c, stashes'[q])
  BY <1>1, <1>2, PopKeeps DEF IInv
<1>4. Shape' /\ \A c : Somewhere(c) => Somewhere(c)'
  BY <1>2, <1>3 DEF IInv, Shape, Somewhere
<1> QED
  BY <1>2, <1>3, <1>4, OutsideSafe

LEMMA CommitSafe ==
    ASSUME IInv, NEW w \in Windows, NEW taken \in SUBSET tree[workspace[w]], CommitTaken(w, taken)
    PROVE  IInv'
<1> DEFINE r == workspace[w]
<1>1. /\ op' = Disturbed(r) /\ UNCHANGED <<workspace, stashes, changed, dropped, exposed>> /\ r \in Repos
      /\ tree' = [tree EXCEPT ![r] = tree[r] \ taken] /\ committed' = [committed EXCEPT ![r] = committed[r] \union taken]
      /\ taken \subseteq tree[r]
  BY DEF CommitTaken, IInv, Shape
<1> HIDE DEF r
<1>2. /\ Shape' /\ tree'[r] = tree[r] \ taken /\ committed'[r] = committed[r] \union taken
      /\ \A q \in Repos : q # r => tree'[q] = tree[q] /\ committed'[q] = committed[q] /\ stashes'[q] = stashes[q]
  BY <1>1 DEF IInv, Shape, Lists
<1>3. ASSUME NEW c, Somewhere(c) PROVE Somewhere(c)'
  BY <1>1, <1>2, <1>3 DEF Somewhere
<1> QED
  BY <1>1, <1>2, <1>3, OutsideSafe

LEMMA UndoLastCommitSafe ==
    ASSUME IInv, NEW w \in Windows, NEW back \in SUBSET committed[workspace[w]], NEW first, UndoCommit(w, back, first)
    PROVE  IInv'
<1> DEFINE r == workspace[w]
<1>1. /\ op' = Disturbed(r) /\ UNCHANGED <<workspace, stashes, changed, dropped, exposed>> /\ r \in Repos
      /\ tree' = [tree EXCEPT ![r] = tree[r] \union back] /\ committed' = [committed EXCEPT ![r] = committed[r] \ back]
      /\ back \subseteq committed[r]
  BY DEF UndoCommit, IInv, Shape
<1> HIDE DEF r
<1>2. /\ Shape' /\ tree'[r] = tree[r] \union back /\ committed'[r] = committed[r] \ back
      /\ \A q \in Repos : q # r => tree'[q] = tree[q] /\ committed'[q] = committed[q] /\ stashes'[q] = stashes[q]
  BY <1>1 DEF IInv, Shape, Lists
<1>3. ASSUME NEW c, Somewhere(c) PROVE Somewhere(c)'
  BY <1>1, <1>2, <1>3 DEF Somewhere
<1> QED
  BY <1>1, <1>2, <1>3, OutsideSafe

LEMMA DropStashSafe ==
    ASSUME IInv, NEW w \in Windows, DropStash(w)
    PROVE  IInv'
<1> DEFINE r == workspace[w]
           pos == pointed[w].pos
           gone == [named |-> pointed[w].id, taken |-> stashes[r][pos].id, holds |-> stashes[r][pos].holds]
<1>0. UNCHANGED <<workspace, tree, committed, changed, exposed>> /\ r \in Repos
  BY DEF DropStash, IInv, Shape
<1>1. CASE pos \in DOMAIN stashes[r]
  <2>1. /\ stashes' = [stashes EXCEPT ![r] = RemoveAt(stashes[r], pos)]
        /\ dropped' = dropped \union {gone} /\ op' = Disturbed(r)
    BY <1>1 DEF DropStash
  <2>2. gone.holds = stashes[r][pos].holds
    OBVIOUS
  <2> HIDE DEF r, pos, gone
  <2>3. PICK S : stashes[r] \in Seq(S) /\ \A x \in S : x.holds \in SUBSET Changes
    BY <1>0 DEF IInv, Shape, Lists, IsList
  <2>4. /\ RemoveAt(stashes[r], pos) \in Seq(S)
        /\ \A i \in DOMAIN stashes[r] \ {pos} :
             \E k \in DOMAIN RemoveAt(stashes[r], pos) : RemoveAt(stashes[r], pos)[k] = stashes[r][i]
    BY <1>1, <2>3, Removed
  <2>5. /\ stashes' = [q \in Repos |-> stashes'[q]] /\ stashes'[r] = RemoveAt(stashes[r], pos)
        /\ \A q \in Repos : q # r => tree'[q] = tree[q] /\ stashes'[q] = stashes[q]
    BY <1>0, <2>1 DEF IInv, Shape, Lists
  <2>6. Shape'
    <3>1. IsList(stashes'[r])
      BY <2>3, <2>4, <2>5 DEF IsList
    <3> QED
      BY <1>0, <2>5, <3>1 DEF IInv, Shape, Lists
  <2>7. ASSUME NEW c, HeldIn(c, stashes[r]) PROVE c \in gone.holds \/ HeldIn(c, stashes'[r])
    BY <2>2, <2>4, <2>5, <2>7 DEF HeldIn
  <2>8. ASSUME NEW c, Somewhere(c) PROVE Somewhere(c)'
    BY <1>0, <2>1, <2>5, <2>7, <2>8 DEF Somewhere
  <2> QED
    BY <1>0, <2>1, <2>5, <2>6, <2>8, OutsideSafe
<1>2. CASE pos \notin DOMAIN stashes[r]
  <2>1. UNCHANGED <<workspace, tree, committed, stashes, op, changed, dropped, exposed>>
    BY <1>2 DEF DropStash
  <2> QED
    BY <2>1 DEF IInv, Shape, Lists, Ops, NothingIsLost, Fine, Copied
<1> QED
  BY <1>1, <1>2

LEMMA NextSafe == IInv /\ [StashesNext]_stashVars => IInv'
<1> SUFFICES ASSUME IInv, [StashesNext]_stashVars PROVE IInv'
  OBVIOUS
<1>1. CASE StashesNext
  BY <1>1, EditFileSafe, SelectRepositorySafe, StartSafe, HasUncommittedChangesSafe, StashPushSafe,
     CheckoutSafe, StashPopSafe, HasHeadSafe, CopyChangesSafe, StashStoreSafe, RestoreSafe, SettledSafe,
     PopStashSafe, DropStashSafe, PointSafe, CommitSafe, UndoLastCommitSafe DEF StashesNext
<1>2. CASE UNCHANGED stashVars
  BY <1>2 DEF stashVars, IInv, Shape, Lists, Ops, NothingIsLost, Fine, Copied
<1> QED
  BY <1>1, <1>2

-----------------------------------------------------------------------------
(***************************************************************************)
(* Every change is in a working tree, in a commit, in a stash or in a      *)
(* stash the user had dropped, except those that a discard took which was  *)
(* disturbed between its commands, or found no commit to make a copy of    *)
(* (DiscardChanges and backupChanges, git_discard.go).                     *)
(***************************************************************************)
THEOREM NoChangeIsLost == StashesSpec => []NothingIsLost
<1>1. StashesSpec => []IInv
  BY InitSafe, NextSafe, PTL DEF StashesSpec
<1> QED
  BY <1>1, PTL DEF IInv

-----------------------------------------------------------------------------
(***************************************************************************)
(* Types, records included.  Stashes are numbered as they are made, and a  *)
(* list is no longer than what was made.                                   *)
(***************************************************************************)
Targets == Branches \union {"none"}
Steps == {"idle", "status", "push", "checkout", "unpush", "pop", "head", "copy", "store", "restore", "done", "failed"}
StashRecords == [id : 1 .. MaxStashes, on : Branches, holds : SUBSET Changes]
OpRecords == [what : {"none", "change", "discard"}, at : Steps, target : Targets, leave : BOOLEAN, dirty : BOOLEAN,
              stash : 0 .. MaxStashes, held : SUBSET Changes, repo : Repos \union {"none"}, alone : BOOLEAN]
Named == [pos : 0 .. MaxStashes, id : 0 .. MaxStashes, drop : BOOLEAN]

ReposTyped ==
    /\ workspace \in [Windows -> Repos] /\ branch \in [Repos -> Branches] /\ tree \in [Repos -> SUBSET Changes]
    /\ stored \in 0 .. MaxStashes /\ stashes \in [Repos -> Seq(StashRecords)]
    /\ \A r \in Repos : Len(stashes[r]) <= stored /\ \A i \in DOMAIN stashes[r] : stashes[r][i].id <= stored
OpsTyped ==
    /\ op \in [Windows -> OpRecords]
    /\ \A v \in Windows : op[v].at \in {"status", "push", "checkout"} => op[v].target \in Branches
RestTyped ==
    /\ committed \in [Repos -> SUBSET Changes] /\ headed \subseteq Repos
    /\ pointed \in [Windows -> Named]
    /\ changed \subseteq Changes /\ exposed \subseteq Changes /\ ops \in 0 .. MaxOps
    /\ dropped \subseteq [named : 0 .. MaxStashes, taken : 1 .. MaxStashes, holds : SUBSET Changes]

(***************************************************************************)
(* A change of branch that is alone: what it set aside is the newest stash *)
(* until the pop, and then where the user was told (Course).               *)
(***************************************************************************)
Newest(o) ==
    /\ 1 \in DOMAIN stashes[o.repo] /\ stashes[o.repo][1].id = o.stash /\ stashes[o.repo][1].holds = o.held
    /\ \A i \in DOMAIN stashes[o.repo] : stashes[o.repo][i].id = o.stash => i = 1
Applied(o) == o.held \subseteq tree[o.repo]
Gone(o) == \A i \in DOMAIN stashes[o.repo] : stashes[o.repo][i].id # o.stash
Aside(o) ==
    /\ o.at \in {"checkout", "pop", "unpush"} \/ (o.at = "done" /\ o.leave) => Newest(o)
    /\ o.at = "done" /\ ~o.leave => Applied(o) /\ Gone(o)
    /\ o.at = "failed" => Applied(o) \/ Newest(o)
Course(v) ==
    op[v].what = "change" =>
      /\ op[v].at \notin {"idle", "head", "copy", "store", "restore"}
      /\ op[v].at \in {"status", "push"} => op[v].stash = 0
      /\ op[v].at = "push" \/ op[v].stash # 0 => op[v].dirty
      /\ op[v].at = "pop" => ~op[v].leave
      /\ op[v].alone => workspace[v] = op[v].repo /\ (op[v].stash # 0 => Aside(op[v]))

CourseInv == ReposTyped /\ OpsTyped /\ RestTyped /\ \A v \in Windows : Course(v)

LEMMA NoOpTyped == NoOp \in OpRecords /\ NoOp.what = "none" /\ NoOp.at = "idle"
BY StashesAssumption DEF NoOp, OpRecords, Steps, Targets

LEMMA Moved ==
    ASSUME NEW o \in OpRecords, NEW x \in Steps
    PROVE  LET n == [o EXCEPT !.at = x] IN
           /\ n \in OpRecords /\ n.at = x /\ n.what = o.what /\ n.target = o.target /\ n.leave = o.leave /\ n.dirty = o.dirty
           /\ n.stash = o.stash /\ n.held = o.held /\ n.repo = o.repo /\ n.alone = o.alone
BY DEF OpRecords

LEMMA LeftAlone ==
    ASSUME NEW o \in OpRecords
    PROVE  LET n == [o EXCEPT !.alone = FALSE] IN
           /\ n \in OpRecords /\ n.at = o.at /\ n.what = o.what /\ n.target = o.target /\ n.leave = o.leave /\ n.dirty = o.dirty
           /\ n.stash = o.stash /\ n.held = o.held /\ n.repo = o.repo /\ ~n.alone
BY DEF OpRecords

LEMMA Known ==
    ASSUME NEW o \in OpRecords, NEW x \in Steps, NEW number \in 0 .. MaxStashes, NEW held \in SUBSET Changes
    PROVE  LET n == Knowing(o, x, number, held) IN
           /\ n \in OpRecords /\ n.at = x /\ n.what = o.what /\ n.target = o.target /\ n.leave = o.leave /\ n.dirty = o.dirty
           /\ n.stash = number /\ n.held = held /\ n.repo = o.repo /\ n.alone = o.alone
BY DEF OpRecords, Knowing

LEMMA DisturbedTyped ==
    ASSUME OpsTyped, NEW r
    PROVE  /\ Disturbed(r) \in [Windows -> OpRecords]
           /\ \A v \in Windows :
                /\ Disturbed(r)[v].at = op[v].at /\ Disturbed(r)[v].target = op[v].target
                /\ \/ Disturbed(r)[v] = [op[v] EXCEPT !.alone = FALSE]
                   \/ Disturbed(r)[v] = op[v] /\ op[v].repo # r
BY LeftAlone DEF Disturbed, OpsTyped

-----------------------------------------------------------------------------
\* What another does leaves a course alone, or disturbs it.
Passed(v) ==
    \/ op'[v] = [op[v] EXCEPT !.alone = FALSE]
    \/ /\ op'[v] = op[v]
       /\ op[v].what = "change" /\ op[v].alone =>
            /\ workspace'[v] = workspace[v] /\ stashes'[op[v].repo] = stashes[op[v].repo]
            /\ tree[op[v].repo] \subseteq tree'[op[v].repo]

LEMMA StaysOnCourse ==
    ASSUME OpsTyped, NEW v \in Windows, Course(v), Passed(v)
    PROVE  Course(v)'
<1>1. op[v] \in OpRecords
  BY DEF OpsTyped
<1>2. CASE op'[v] = [op[v] EXCEPT !.alone = FALSE]
  BY <1>1, <1>2, LeftAlone DEF Course
<1>3. CASE op'[v] = op[v] /\ ~(op[v].what = "change" /\ op[v].alone)
  BY <1>3 DEF Course
<1>4. CASE /\ op'[v] = op[v] /\ workspace'[v] = workspace[v] /\ stashes'[op[v].repo] = stashes[op[v].repo]
           /\ tree[op[v].repo] \subseteq tree'[op[v].repo]
  <2>1. Aside(op[v]) => Aside(op[v])'
    BY <1>4 DEF Aside, Newest, Applied, Gone
  <2> QED
    BY <1>4, <2>1 DEF Course
<1> QED
  BY <1>2, <1>3, <1>4 DEF Passed

\* What a step of the operation of w leaves to show.
Others(w) == \A v \in Windows \ {w} : Passed(v) /\ op'[v].at = op[v].at /\ op'[v].target = op[v].target

LEMMA OwnStep ==
    ASSUME CourseInv, NEW w \in Windows, op' \in [Windows -> OpRecords], Others(w), ReposTyped', RestTyped',
           op'[w].at \in {"status", "push", "checkout"} => op'[w].target \in Branches, Course(w)'
    PROVE  CourseInv'
<1>1. OpsTyped'
  BY DEF CourseInv, OpsTyped, Others
<1>2. ASSUME NEW v \in Windows PROVE Course(v)'
  <2>1. CASE v = w
    BY <2>1
  <2>2. CASE v # w
    BY <2>2, StaysOnCourse DEF Others, CourseInv
  <2> QED
    BY <2>1, <2>2
<1> QED
  BY <1>1, <1>2 DEF CourseInv

\* A step that asks git for nothing, or changes no list and no tree.
LEMMA Silent ==
    ASSUME CourseInv, NEW w \in Windows, NEW next \in OpRecords, op' = [op EXCEPT ![w] = next],
           UNCHANGED <<tree, stashes>>, \A v \in Windows \ {w} : workspace'[v] = workspace[v]
    PROVE  op' \in [Windows -> OpRecords] /\ op'[w] = next /\ Others(w)
BY DEF CourseInv, OpsTyped, ReposTyped, Others, Passed

\* A git command of w, on r.
LEMMA Commanded ==
    ASSUME CourseInv, NEW w \in Windows, NEW r \in Repos, NEW next \in OpRecords, Command(w, r, next),
           workspace' = workspace, \A q \in Repos : q # r => tree'[q] = tree[q] /\ stashes'[q] = stashes[q]
    PROVE  op' \in [Windows -> OpRecords] /\ op'[w] = next /\ Others(w)
<1> DEFINE before == Disturbed(r)
<1>1. /\ before \in [Windows -> OpRecords]
      /\ \A v \in Windows :
           /\ before[v].at = op[v].at /\ before[v].target = op[v].target
           /\ \/ before[v] = [op[v] EXCEPT !.alone = FALSE]
              \/ before[v] = op[v] /\ op[v].repo # r
  BY DisturbedTyped DEF CourseInv
<1>2. op' = [before EXCEPT ![w] = next]
  BY DEF Command
<1> HIDE DEF before
<1>3. op' \in [Windows -> OpRecords] /\ op'[w] = next /\ \A v \in Windows \ {w} : op'[v] = before[v]
  BY <1>1, <1>2
<1>4. ASSUME NEW v \in Windows \ {w} PROVE Passed(v)
  <2>1. CASE before[v] = [op[v] EXCEPT !.alone = FALSE]
    BY <1>3, <2>1 DEF Passed
  <2>2. CASE before[v] = op[v] /\ op[v].repo # r
    <3>1. ASSUME op[v].what = "change", op[v].alone
          PROVE  /\ workspace'[v] = workspace[v] /\ stashes'[op[v].repo] = stashes[op[v].repo]
                 /\ tree[op[v].repo] \subseteq tree'[op[v].repo]
      <4>1. op[v].repo \in Repos
        BY <3>1 DEF CourseInv, Course, ReposTyped
      <4> QED
        BY <2>2, <4>1
    <3> QED
      BY <1>3, <2>2, <3>1 DEF Passed
  <2> QED
    BY <1>1, <2>1, <2>2
<1> QED
  BY <1>1, <1>3, <1>4 DEF Others

-----------------------------------------------------------------------------
\* What is put first moves the others by one.
LEMMA PutFirstIs ==
    ASSUME NEW S, NEW q \in Seq(S), NEW x \in S
    PROVE  /\ <<x>> \o q \in Seq(S) /\ Len(<<x>> \o q) = Len(q) + 1 /\ DOMAIN (<<x>> \o q) = 1 .. Len(q) + 1
           /\ (<<x>> \o q)[1] = x
           /\ \A i \in 2 .. Len(q) + 1 : i - 1 \in DOMAIN q /\ (<<x>> \o q)[i] = q[i - 1]
OBVIOUS

-----------------------------------------------------------------------------
\* The lists after a stash was made, or taken out.
Numbered(q, n) == q \in Seq(StashRecords) /\ Len(q) <= n /\ \A i \in DOMAIN q : q[i].id <= n

LEMMA StashMade ==
    ASSUME ReposTyped, NEW r \in Repos, NEW held \in SUBSET Changes, stored < MaxStashes, stored' = stored + 1
    PROVE  /\ stored' \in 1 .. MaxStashes
           /\ Numbered(Stashed(r, held), stored + 1)
           /\ \A q \in Repos : Numbered(stashes[q], stored + 1)
           /\ 1 \in DOMAIN Stashed(r, held) /\ Stashed(r, held)[1].id = stored + 1 /\ Stashed(r, held)[1].holds = held
           /\ \A i \in DOMAIN Stashed(r, held) : Stashed(r, held)[i].id = stored + 1 => i = 1
<1> DEFINE x == [id |-> stored + 1, on |-> branch[r], holds |-> held]
<1>0. stored \in Nat /\ MaxStashes \in Nat /\ stored + 1 \in 1 .. MaxStashes
  BY StashesAssumption DEF ReposTyped
<1>1. x \in StashRecords /\ x.id = stored + 1 /\ x.holds = held
  BY <1>0 DEF ReposTyped, StashRecords
<1>2. Stashed(r, held) = <<x>> \o stashes[r] /\ stashes[r] \in Seq(StashRecords)
  BY DEF Stashed, ReposTyped
<1>3. \A q \in Repos : /\ stashes[q] \in Seq(StashRecords) /\ Len(stashes[q]) \in Nat /\ Len(stashes[q]) <= stored
                      /\ \A i \in DOMAIN stashes[q] : stashes[q][i].id \in Nat /\ stashes[q][i].id <= stored
  <2> TAKE q \in Repos
  <2>1. stashes[q] \in Seq(StashRecords) /\ Len(stashes[q]) <= stored /\ \A i \in DOMAIN stashes[q] : stashes[q][i].id <= stored
    BY DEF ReposTyped
  <2>2. \A i \in DOMAIN stashes[q] : stashes[q][i] \in StashRecords
    BY <2>1, ElementOfSeq
  <2> QED
    BY <2>1, <2>2 DEF StashRecords
<1> HIDE DEF x
<1>4. /\ <<x>> \o stashes[r] \in Seq(StashRecords) /\ Len(<<x>> \o stashes[r]) = Len(stashes[r]) + 1
      /\ DOMAIN (<<x>> \o stashes[r]) = 1 .. Len(stashes[r]) + 1 /\ (<<x>> \o stashes[r])[1] = x
      /\ \A i \in 2 .. Len(stashes[r]) + 1 :
           i - 1 \in DOMAIN stashes[r] /\ (<<x>> \o stashes[r])[i] = stashes[r][i - 1]
  BY <1>1, <1>2, PutFirstIs
<1>5. \A i \in DOMAIN (<<x>> \o stashes[r]) : i = 1 \/ ((<<x>> \o stashes[r])[i].id \in Nat /\ (<<x>> \o stashes[r])[i].id <= stored)
  <2> TAKE i \in DOMAIN (<<x>> \o stashes[r])
  <2>1. i = 1 \/ i \in 2 .. Len(stashes[r]) + 1
    BY <1>3, <1>4
  <2> QED
    BY <2>1, <1>3, <1>4
<1>6. 1 \in DOMAIN (<<x>> \o stashes[r])
  BY <1>3, <1>4
<1> HIDE DEF Stashed
<1>7. Numbered(<<x>> \o stashes[r], stored + 1)
  BY <1>0, <1>1, <1>3, <1>4, <1>5 DEF Numbered
<1>8. \A q \in Repos : Numbered(stashes[q], stored + 1)
  BY <1>0, <1>3 DEF Numbered
<1>9. \A i \in DOMAIN (<<x>> \o stashes[r]) : (<<x>> \o stashes[r])[i].id = stored + 1 => i = 1
  BY <1>0, <1>5
<1> QED
  BY <1>0, <1>1, <1>2, <1>4, <1>6, <1>7, <1>8, <1>9

LEMMA StashTaken ==
    ASSUME ReposTyped, NEW r \in Repos, NEW pos \in DOMAIN stashes[r]
    PROVE  /\ Numbered(RemoveAt(stashes[r], pos), stored)
           /\ stashes[r][pos] \in StashRecords
           /\ \A i \in DOMAIN RemoveAt(stashes[r], pos) :
                \E k \in DOMAIN stashes[r] \ {pos} : RemoveAt(stashes[r], pos)[i] = stashes[r][k]
<1> DEFINE q == stashes[r]
<1>1. q \in Seq(StashRecords) /\ Len(q) <= stored /\ (\A i \in DOMAIN q : q[i].id <= stored) /\ stored \in Nat /\ pos \in DOMAIN q
  BY StashesAssumption DEF ReposTyped
<1> HIDE DEF q
<1>2. Len(q) \in Nat /\ DOMAIN q = 1 .. Len(q) /\ pos \in 1 .. Len(q)
  BY <1>1, LenProperties
<1>3. /\ RemoveAt(q, pos) \in Seq(StashRecords) /\ Len(RemoveAt(q, pos)) = Len(q) - 1
      /\ DOMAIN RemoveAt(q, pos) = 1 .. Len(q) - 1
      /\ \A i \in 1 .. Len(q) - 1 : RemoveAt(q, pos)[i] = IF i < pos THEN q[i] ELSE q[i + 1]
  BY <1>1, RemoveAtIs
<1>4. ASSUME NEW i \in 1 .. Len(q) - 1 PROVE \E k \in DOMAIN q \ {pos} : RemoveAt(q, pos)[i] = q[k]
  <2>1. CASE i < pos
    <3>1. i \in DOMAIN q \ {pos}
      BY <1>2, <2>1
    <3> QED
      BY <1>3, <2>1, <3>1
  <2>2. CASE ~(i < pos)
    <3>1. i + 1 \in DOMAIN q \ {pos}
      BY <1>2, <2>2
    <3> QED
      BY <1>3, <2>2, <3>1
  <2> QED
    BY <2>1, <2>2
<1>5. Numbered(RemoveAt(q, pos), stored)
  <2>1. \A i \in DOMAIN RemoveAt(q, pos) : RemoveAt(q, pos)[i].id <= stored
    BY <1>1, <1>3, <1>4
  <2>2. Len(q) - 1 <= stored
    BY <1>1, <1>2
  <2> QED
    BY <1>3, <2>1, <2>2 DEF Numbered
<1>6. q[pos] \in StashRecords
  BY <1>1, <1>2, ElementOfSeq
<1> QED
  BY <1>3, <1>4, <1>5, <1>6 DEF q

\* The outcomes of a pop: what is removed was applied.
LEMMA PopIs ==
    ASSUME ReposTyped, NEW r \in Repos, NEW pos, NEW outcome \in Outcomes, Pop(r, pos, outcome[1], outcome[2]),
           UNCHANGED <<workspace, branch, stored>>
    PROVE  /\ ReposTyped'
           /\ \A q \in Repos : q # r => tree'[q] = tree[q] /\ stashes'[q] = stashes[q]
           /\ tree[r] \subseteq tree'[r]
           /\ pos \in DOMAIN stashes[r] =>
                IF outcome[2] THEN stashes'[r] = RemoveAt(stashes[r], pos) /\ tree'[r] = tree[r] \union stashes[r][pos].holds
                ELSE stashes' = stashes
<1>1. CASE pos \notin DOMAIN stashes[r]
  BY <1>1 DEF Pop, ReposTyped
<1>2. CASE pos \in DOMAIN stashes[r]
  <2> DEFINE h == stashes[r][pos].holds
             q0 == RemoveAt(stashes[r], pos)
  <2>1. h \in SUBSET Changes /\ Numbered(q0, stored)
    BY <1>2, StashTaken DEF StashRecords
  <2>2. /\ tree' = IF outcome[1] THEN [tree EXCEPT ![r] = tree[r] \union h] ELSE tree
        /\ stashes' = IF outcome[2] THEN [stashes EXCEPT ![r] = q0] ELSE stashes
    BY <1>2 DEF Pop
  <2>3. outcome[2] => outcome[1]
    <3>1. outcome = <<TRUE, TRUE>> \/ outcome = <<TRUE, FALSE>> \/ outcome = <<FALSE, FALSE>>
      BY DEF Outcomes
    <3>2. CASE outcome = <<TRUE, TRUE>>
      BY <3>2
    <3>3. CASE outcome = <<TRUE, FALSE>>
      BY <3>3
    <3>4. CASE outcome = <<FALSE, FALSE>>
      <4>1. outcome[2] = FALSE
        BY <3>4
      <4> QED
        BY <4>1
    <3> QED
      BY <3>1, <3>2, <3>3, <3>4
  <2> HIDE DEF h, q0
  <2>4. tree' \in [Repos -> SUBSET Changes] /\ tree[r] \subseteq tree'[r] /\ \A q \in Repos : q # r => tree'[q] = tree[q]
    BY <2>1, <2>2 DEF ReposTyped
  <2>5. /\ stashes' \in [Repos -> Seq(StashRecords)] /\ \A q \in Repos : q # r => stashes'[q] = stashes[q]
        /\ \A q \in Repos : Len(stashes'[q]) <= stored /\ \A i \in DOMAIN stashes'[q] : stashes'[q][i].id <= stored
    BY <2>1, <2>2 DEF ReposTyped, Numbered
  <2>6. ReposTyped'
    BY <2>4, <2>5 DEF ReposTyped
  <2>7. CASE outcome[2]
    <3>1. stashes'[r] = q0 /\ tree'[r] = tree[r] \union h
      BY <2>2, <2>3, <2>7 DEF ReposTyped
    <3> QED
      BY <2>4, <2>5, <2>6, <2>7, <3>1 DEF h, q0
  <2>8. CASE ~outcome[2]
    BY <2>2, <2>4, <2>5, <2>6, <2>8
  <2> QED
    BY <2>7, <2>8
<1> QED
  BY <1>1, <1>2

-----------------------------------------------------------------------------
\* Each action keeps every change of branch on its course.
LEMMA CourseBegins == StashesInit => CourseInv
<1> SUFFICES ASSUME StashesInit PROVE CourseInv
  OBVIOUS
<1>1. ReposTyped
  <2>1. workspace \in [Windows -> Repos] /\ branch \in [Repos -> Branches] /\ tree \in [Repos -> SUBSET Changes]
    BY DEF StashesInit
  <2>2. stored \in 0 .. MaxStashes /\ stashes \in [Repos -> Seq(StashRecords)]
    BY StashesAssumption DEF StashesInit
  <2>3. \A r \in Repos : Len(stashes[r]) <= stored /\ \A i \in DOMAIN stashes[r] : stashes[r][i].id <= stored
    BY DEF StashesInit
  <2> QED
    BY <2>1, <2>2, <2>3 DEF ReposTyped
<1>2. OpsTyped /\ \A v \in Windows : Course(v)
  BY NoOpTyped DEF StashesInit, OpsTyped, Course
<1>3. RestTyped
  BY StashesAssumption DEF StashesInit, RestTyped, NoName, Named
<1> QED
  BY <1>1, <1>2, <1>3 DEF CourseInv

LEMMA EditFileOnCourse ==
    ASSUME CourseInv, NEW c \in Changes, NEW r \in Repos, EditFile(c, r)
    PROVE  CourseInv'
<1>1. /\ changed' = changed \union {c} /\ tree' = [tree EXCEPT ![r] = tree[r] \union {c}]
      /\ UNCHANGED <<workspace, branch, headed, committed, stashes, pointed, dropped, exposed, stored, ops>>
  BY DEF EditFile
<1>2. ReposTyped' /\ RestTyped' /\ \A q \in Repos : tree[q] \subseteq tree'[q]
  BY <1>1 DEF CourseInv, ReposTyped, RestTyped
<1>3. op \in [Windows -> OpRecords]
  BY DEF CourseInv, OpsTyped
<1>4. \A v \in Windows : op'[v] = op[v] \/ op'[v] = [op[v] EXCEPT !.alone = FALSE]
  BY DEF EditFile
<1>5. op' = [v \in Windows |-> op'[v]]
  BY DEF EditFile
<1>6. OpsTyped'
  <2>1. \A v \in Windows : op'[v] \in OpRecords /\ op'[v].at = op[v].at /\ op'[v].target = op[v].target
    BY <1>3, <1>4, LeftAlone
  <2> QED
    BY <1>5, <2>1 DEF CourseInv, OpsTyped
<1>7. ASSUME NEW v \in Windows PROVE Course(v)'
  <2>1. Passed(v)
    <3>1. CASE op'[v] = [op[v] EXCEPT !.alone = FALSE]
      BY <3>1 DEF Passed
    <3>2. CASE op'[v] = op[v]
      BY <1>1, <1>2, <3>2 DEF Passed, CourseInv, Course, ReposTyped
    <3> QED
      BY <1>4, <3>1, <3>2
  <2> QED
    BY <2>1, StaysOnCourse DEF CourseInv
<1> QED
  BY <1>2, <1>6, <1>7 DEF CourseInv

LEMMA SelectRepositoryOnCourse ==
    ASSUME CourseInv, NEW w \in Windows, NEW r \in Repos, SelectRepository(w, r)
    PROVE  CourseInv'
<1> DEFINE next == [op[w] EXCEPT !.alone = FALSE]
<1>0. op[w] \in OpRecords
  BY DEF CourseInv, OpsTyped
<1>1. next \in OpRecords /\ next.at = op[w].at /\ next.target = op[w].target
  BY <1>0, LeftAlone
<1>2. /\ op' = [op EXCEPT ![w] = next] /\ workspace' = [workspace EXCEPT ![w] = r] /\ ops' \in 0 .. MaxOps
      /\ UNCHANGED <<branch, tree, stashes, headed, committed, pointed, changed, dropped, exposed, stored>>
  BY StashesAssumption DEF SelectRepository, CourseInv, RestTyped
<1>3. ReposTyped' /\ RestTyped'
  BY <1>2 DEF CourseInv, ReposTyped, RestTyped
<1>4. \A v \in Windows \ {w} : workspace'[v] = workspace[v]
  BY <1>2 DEF CourseInv, ReposTyped
<1> HIDE DEF next
<1>5. op' \in [Windows -> OpRecords] /\ op'[w] = next /\ Others(w)
  BY <1>1, <1>2, <1>4, Silent
<1>6. Passed(w)
  BY <1>5 DEF next, Passed
<1>7. Course(w)'
  BY <1>6, StaysOnCourse DEF CourseInv
<1> QED
  BY <1>1, <1>3, <1>5, <1>7, OwnStep DEF CourseInv, OpsTyped

LEMMA StartOnCourse ==
    ASSUME CourseInv, NEW w \in Windows, NEW what \in {"change", "discard"}, NEW target \in Targets, NEW leave \in BOOLEAN,
           what = "change" => target \in Branches, Start(w, what, target, leave)
    PROVE  CourseInv'
<1> DEFINE next ==
      [what |-> what, at |-> IF what = "change" THEN "status" ELSE "head", target |-> target, leave |-> leave,
       dirty |-> FALSE, stash |-> 0, held |-> {}, repo |-> workspace[w], alone |-> TRUE]
<1>1. /\ next \in OpRecords /\ next.what = what /\ next.target = target /\ next.stash = 0 /\ next.repo = workspace[w]
      /\ next.at = IF what = "change" THEN "status" ELSE "head"
  BY StashesAssumption DEF CourseInv, ReposTyped, OpRecords, Steps
<1>2. /\ op' = [op EXCEPT ![w] = next] /\ ops' \in 0 .. MaxOps
      /\ UNCHANGED <<workspace, branch, tree, stashes, headed, committed, pointed, changed, dropped, exposed, stored>>
  BY StashesAssumption DEF Start, CourseInv, RestTyped
<1>3. ReposTyped' /\ RestTyped'
  BY <1>2 DEF CourseInv, ReposTyped, RestTyped
<1> HIDE DEF next
<1>5. op' \in [Windows -> OpRecords] /\ op'[w] = next /\ Others(w)
  BY <1>1, <1>2, Silent
<1>6. Course(w)'
  BY <1>1, <1>2, <1>5 DEF Course
<1> QED
  BY <1>1, <1>3, <1>5, <1>6, OwnStep

LEMMA HasUncommittedChangesOnCourse ==
    ASSUME CourseInv, NEW w \in Windows, HasUncommittedChanges(w)
    PROVE  CourseInv'
<1> DEFINE dirty == tree[workspace[w]] # {}
           x == IF dirty THEN "push" ELSE "checkout"
           next == [op[w] EXCEPT !.dirty = dirty, !.at = x]
<1>0. op[w] \in OpRecords /\ dirty \in BOOLEAN /\ x \in Steps /\ op[w].at = "status"
  BY DEF CourseInv, OpsTyped, Steps, HasUncommittedChanges
<1>1. /\ next \in OpRecords /\ next.at = x /\ next.dirty = dirty /\ next.what = op[w].what /\ next.target = op[w].target
      /\ next.leave = op[w].leave /\ next.stash = op[w].stash /\ next.repo = op[w].repo /\ next.alone = op[w].alone
  <2> HIDE DEF dirty, x
  <2> QED
    BY <1>0 DEF OpRecords
<1>2. /\ op' = [op EXCEPT ![w] = next]
      /\ UNCHANGED <<workspace, branch, tree, stashes, headed, committed, pointed, changed, dropped, exposed, stored, ops>>
  <2>1. op' = [op EXCEPT ![w].dirty = dirty, ![w].at = x]
    BY DEF HasUncommittedChanges
  <2>2. w \in DOMAIN op
    BY DEF CourseInv, OpsTyped
  <2> QED
    BY <2>1, <2>2 DEF HasUncommittedChanges
<1>3. ReposTyped' /\ RestTyped'
  BY <1>2 DEF CourseInv, ReposTyped, RestTyped
<1>4. (x = "push" /\ dirty) \/ x = "checkout"
  OBVIOUS
<1> HIDE DEF next, x, dirty
<1>5. op' \in [Windows -> OpRecords] /\ op'[w] = next /\ Others(w)
  BY <1>1, <1>2, Silent
<1>6. Course(w)'
  BY <1>0, <1>1, <1>2, <1>4, <1>5 DEF Course, CourseInv
<1> QED
  BY <1>0, <1>1, <1>3, <1>5, <1>6, OwnStep DEF CourseInv, OpsTyped

LEMMA SettledOnCourse ==
    ASSUME CourseInv, NEW w \in Windows, Settled(w)
    PROVE  CourseInv'
<1>1. op' = [op EXCEPT ![w] = NoOp] /\ UNCHANGED <<workspace, branch, tree, headed, committed, stashes, pointed, changed, dropped, exposed, stored, ops>>
  BY DEF Settled
<1>2. op' \in [Windows -> OpRecords] /\ op'[w] = NoOp /\ Others(w)
  BY <1>1, NoOpTyped, Silent
<1>3. ReposTyped' /\ RestTyped'
  BY <1>1 DEF CourseInv, ReposTyped, RestTyped
<1> QED
  BY <1>2, <1>3, NoOpTyped, OwnStep DEF Course

LEMMA PointOnCourse ==
    ASSUME CourseInv, NEW w \in Windows, NEW i \in ListStashes(workspace[w]), NEW drop \in BOOLEAN, Point(w, i, drop)
    PROVE  CourseInv'
<1> DEFINE q == stashes[workspace[w]]
           p == [pos |-> i, id |-> q[i].id, drop |-> drop]
<1>1. q \in Seq(StashRecords) /\ Len(q) <= stored /\ i \in DOMAIN q /\ stored \in 0 .. MaxStashes
  BY DEF CourseInv, ReposTyped, ListStashes
<1>2. pointed' = [pointed EXCEPT ![w] = p] /\ UNCHANGED <<workspace, branch, tree, headed, committed, stashes, op, changed, dropped, exposed, stored>>
      /\ ops' \in 0 .. MaxOps
  BY StashesAssumption DEF Point, CourseInv, RestTyped
<1>3. p \in Named
  <2> HIDE DEF q
  <2>1. i \in 1 .. Len(q) /\ Len(q) \in Nat
    BY <1>1, LenProperties
  <2>2. i \in 0 .. MaxStashes
    BY <1>1, <2>1, StashesAssumption
  <2>3. q[i] \in StashRecords
    BY <1>1, <2>1, ElementOfSeq
  <2> QED
    BY <2>2, <2>3, StashesAssumption DEF StashRecords, Named
<1> HIDE DEF p, q
<1>4. RestTyped'
  BY <1>2, <1>3 DEF CourseInv, RestTyped
<1> QED
  BY <1>2, <1>4 DEF CourseInv, ReposTyped, OpsTyped, Course, Aside, Newest, Applied, Gone

\* A stash is made of changes, and a push of the whole tree, which it empties.
LEMMA StashIsMade ==
    ASSUME CourseInv, NEW r \in Repos, NEW held \in SUBSET Changes, stored < MaxStashes, stored' = stored + 1,
           stashes' = [stashes EXCEPT ![r] = Stashed(r, held)], tree' = tree \/ tree' = [tree EXCEPT ![r] = {}],
           UNCHANGED <<workspace, branch>>
    PROVE  ReposTyped' /\ \A q \in Repos : q # r => tree'[q] = tree[q] /\ stashes'[q] = stashes[q]
<1> DEFINE q0 == Stashed(r, held)
<1>1. stored' \in 1 .. MaxStashes /\ Numbered(q0, stored + 1) /\ \A q \in Repos : Numbered(stashes[q], stored + 1)
  BY StashMade DEF CourseInv
<1>2. stashes' = [stashes EXCEPT ![r] = q0]
  OBVIOUS
<1> HIDE DEF q0
<1>3. /\ stashes' \in [Repos -> Seq(StashRecords)]
      /\ \A q \in Repos : Len(stashes'[q]) <= stored' /\ \A i \in DOMAIN stashes'[q] : stashes'[q][i].id <= stored'
  BY <1>1, <1>2 DEF CourseInv, ReposTyped, Numbered
<1>4. tree' \in [Repos -> SUBSET Changes] /\ \A q \in Repos : q # r => tree'[q] = tree[q] /\ stashes'[q] = stashes[q]
  BY <1>2 DEF CourseInv, ReposTyped
<1>5. stored' \in 0 .. MaxStashes
  BY <1>1
<1> QED
  BY <1>3, <1>4, <1>5 DEF CourseInv, ReposTyped

\* A step of w that only moves on, without a stash or to where a stash of its own still is.
LEMMA MovedOn ==
    ASSUME CourseInv, NEW w \in Windows, NEW x \in Steps, op' = [op EXCEPT ![w].at = x],
           UNCHANGED <<workspace, branch, tree, stashes, headed, committed, pointed, changed, dropped, exposed, stored, ops>>,
           op[w].at \in {"status", "push", "checkout"} \/ x \notin {"status", "push", "checkout"},
           op[w].what = "change" =>
             /\ x \notin {"idle", "head", "copy", "store", "restore", "pop", "status", "push"}
             /\ op[w].alone /\ op[w].stash # 0 => Newest(op[w]) /\ x # "done"
    PROVE  CourseInv'
<1> DEFINE next == [op[w] EXCEPT !.at = x]
<1>0. op[w] \in OpRecords
  BY DEF CourseInv, OpsTyped
<1>1. /\ next \in OpRecords /\ next.at = x /\ next.what = op[w].what /\ next.target = op[w].target
      /\ next.leave = op[w].leave /\ next.dirty = op[w].dirty
      /\ next.stash = op[w].stash /\ next.held = op[w].held /\ next.repo = op[w].repo /\ next.alone = op[w].alone
  BY <1>0, Moved
<1>2. op' = [op EXCEPT ![w] = next]
  OBVIOUS
<1>3. ReposTyped' /\ RestTyped'
  BY DEF CourseInv, ReposTyped, RestTyped
<1> HIDE DEF next
<1>4. op' \in [Windows -> OpRecords] /\ op'[w] = next /\ Others(w)
  BY <1>1, <1>2, Silent
<1>5. op[w].what = "change" /\ op[w].alone /\ op[w].stash # 0 => Aside(op[w])'
  BY <1>1, <1>4 DEF Aside, Newest
<1>6. Course(w)'
  BY <1>1, <1>4, <1>5 DEF Course, CourseInv
<1> QED
  BY <1>0, <1>1, <1>3, <1>4, <1>6, OwnStep DEF CourseInv, OpsTyped

LEMMA StashPushOnCourse ==
    ASSUME CourseInv, NEW w \in Windows, StashPush(w)
    PROVE  CourseInv'
<1> DEFINE r == workspace[w]
           next == Knowing(op[w], "checkout", stored + 1, tree[r])
<1>0. op[w] \in OpRecords /\ op[w].at = "push" /\ r \in Repos /\ tree[r] \in SUBSET Changes
  BY DEF CourseInv, OpsTyped, ReposTyped, StashPush
<1>1. CASE UNCHANGED <<tree, stashes, stored>> /\ \E x \in {"checkout", "failed"} : op' = [op EXCEPT ![w].at = x]
  <2>1. op[w].what = "change" => op[w].stash = 0
    BY <1>0 DEF CourseInv, Course
  <2> QED
    BY <1>0, <1>1, <2>1, MovedOn DEF StashPush, Steps
<1>2. CASE /\ stashes' = [stashes EXCEPT ![r] = Stashed(r, tree[r])] /\ tree' = [tree EXCEPT ![r] = {}]
           /\ stored < MaxStashes /\ stored' = stored + 1 /\ Command(w, r, next)
  <2>1. /\ stashes' = [stashes EXCEPT ![r] = Stashed(r, tree[r])] /\ tree' = [tree EXCEPT ![r] = {}]
        /\ stored < MaxStashes /\ stored' = stored + 1
        /\ Command(w, r, next)
        /\ UNCHANGED <<workspace, branch, headed, committed, pointed, changed, dropped, exposed, ops>>
    BY <1>2 DEF StashPush
  <2>2. /\ stored + 1 \in 1 .. MaxStashes
        /\ 1 \in DOMAIN Stashed(r, tree[r]) /\ Stashed(r, tree[r])[1].id = stored + 1 /\ Stashed(r, tree[r])[1].holds = tree[r]
        /\ \A i \in DOMAIN Stashed(r, tree[r]) : Stashed(r, tree[r])[i].id = stored + 1 => i = 1
    BY <1>0, <2>1, StashMade DEF CourseInv
  <2>3. ReposTyped' /\ \A q \in Repos : q # r => tree'[q] = tree[q] /\ stashes'[q] = stashes[q]
    BY <1>0, <2>1, StashIsMade
  <2>4. RestTyped'
    BY <2>1 DEF CourseInv, RestTyped
  <2>5. /\ next \in OpRecords /\ next.at = "checkout" /\ next.what = op[w].what /\ next.target = op[w].target
        /\ next.leave = op[w].leave /\ next.dirty = op[w].dirty
        /\ next.stash = stored + 1 /\ next.held = tree[r] /\ next.repo = op[w].repo /\ next.alone = op[w].alone
    <3>1. stored + 1 \in 0 .. MaxStashes /\ "checkout" \in Steps
      BY <2>2 DEF Steps
    <3> DEFINE n == stored + 1
               h == tree[r]
    <3>2. n \in 0 .. MaxStashes /\ h \in SUBSET Changes /\ next = Knowing(op[w], "checkout", n, h)
      BY <1>0, <3>1
    <3> HIDE DEF n, h, next
    <3>3. /\ Knowing(op[w], "checkout", n, h) \in OpRecords /\ Knowing(op[w], "checkout", n, h).at = "checkout"
          /\ Knowing(op[w], "checkout", n, h).what = op[w].what /\ Knowing(op[w], "checkout", n, h).target = op[w].target
          /\ Knowing(op[w], "checkout", n, h).leave = op[w].leave /\ Knowing(op[w], "checkout", n, h).dirty = op[w].dirty
          /\ Knowing(op[w], "checkout", n, h).stash = n /\ Knowing(op[w], "checkout", n, h).held = h
          /\ Knowing(op[w], "checkout", n, h).repo = op[w].repo /\ Knowing(op[w], "checkout", n, h).alone = op[w].alone
      BY <1>0, <3>1, <3>2, Known
    <3> QED
      BY <3>2, <3>3 DEF n, h
  <2>6. stashes'[r] = Stashed(r, tree[r])
    BY <1>0, <2>1 DEF CourseInv, ReposTyped
  <2>7. r = workspace[w]
    OBVIOUS
  <2> HIDE DEF next, r
  <2>8. op' \in [Windows -> OpRecords] /\ op'[w] = next /\ Others(w)
    BY <1>0, <2>1, <2>3, <2>5, Commanded
  <2>9. Course(w)'
    <3>1. op[w].what = "change" => op[w].dirty /\ (op[w].alone => op[w].repo = r)
      BY <1>0, <2>7 DEF CourseInv, Course
    <3>2. op[w].what = "change" /\ op[w].alone => Newest(op[w])'
      BY <2>2, <2>5, <2>6, <2>8, <3>1 DEF Newest
    <3>3. op[w].what = "change" /\ op[w].alone => Aside(op[w])'
      BY <2>5, <2>8, <3>2 DEF Aside
    <3>4. next.stash # 0
      BY <2>2, <2>5
    <3> QED
      BY <2>1, <2>5, <2>7, <2>8, <3>1, <3>3, <3>4 DEF Course
  <2> QED
    BY <1>0, <2>3, <2>4, <2>5, <2>8, <2>9, OwnStep DEF CourseInv, OpsTyped
<1> QED
  BY <1>1, <1>2 DEF StashPush

LEMMA CheckoutOnCourse ==
    ASSUME CourseInv, NEW w \in Windows, Checkout(w)
    PROVE  CourseInv'
<1> DEFINE r == workspace[w]
           x == IF BringsBack(op[w]) THEN "pop" ELSE "done"
           y == IF op[w].dirty THEN "unpush" ELSE "failed"
           next == [op[w] EXCEPT !.at = x]
<1>0. /\ op[w] \in OpRecords /\ op[w].at = "checkout" /\ r \in Repos /\ op[w].target \in Branches
      /\ UNCHANGED <<workspace, tree, committed, stashes, pointed, changed, dropped, exposed, stored, ops>>
  BY DEF CourseInv, OpsTyped, ReposTyped, Checkout
<1>1. ASSUME op[w].what = "change"
      PROVE  /\ op[w].stash # 0 => op[w].dirty
             /\ op[w].alone => workspace[w] = op[w].repo /\ (op[w].stash # 0 => Newest(op[w]))
  BY <1>0, <1>1 DEF CourseInv, Course, Aside
<1>2. CASE branch' = [branch EXCEPT ![r] = op[w].target] /\ headed' = headed \union {r} /\ Command(w, r, next)
  <2>1. /\ next \in OpRecords /\ next.at = x /\ next.what = op[w].what /\ next.target = op[w].target
        /\ next.leave = op[w].leave /\ next.dirty = op[w].dirty
        /\ next.stash = op[w].stash /\ next.held = op[w].held /\ next.repo = op[w].repo /\ next.alone = op[w].alone
    <3>1. x \in Steps
      BY DEF Steps
    <3> HIDE DEF x
    <3> QED
      BY <1>0, <3>1, Moved
  <2>2. ReposTyped' /\ RestTyped'
    BY <1>0, <1>2 DEF CourseInv, ReposTyped, RestTyped
  <2>3. (x = "pop" /\ op[w].dirty /\ ~op[w].leave) \/ (x = "done" /\ (op[w].dirty => op[w].leave))
    BY DEF BringsBack
  <2> HIDE DEF next, x, r
  <2>4. op' \in [Windows -> OpRecords] /\ op'[w] = next /\ Others(w)
    BY <1>0, <1>2, <2>1, Commanded
  <2>5. op[w].what = "change" /\ op[w].alone /\ op[w].stash # 0 => Aside(op[w])'
    <3> SUFFICES ASSUME op[w].what = "change", op[w].alone, op[w].stash # 0 PROVE Aside(op[w])'
      OBVIOUS
    <3>1. Newest(op[w])'
      BY <1>0, <1>1, <2>1, <2>4 DEF Newest
    <3> QED
      BY <1>1, <2>1, <2>3, <2>4, <3>1 DEF Aside
  <2>6. Course(w)'
    BY <1>0, <1>1, <2>1, <2>3, <2>4, <2>5 DEF Course
  <2> QED
    BY <2>1, <2>2, <2>3, <2>4, <2>6, OwnStep
<1>3. CASE op' = [op EXCEPT ![w].at = y] /\ branch' = branch /\ headed' = headed
  <2>1. y \in Steps /\ y \in {"unpush", "failed"}
    BY DEF Steps
  <2> HIDE DEF y
  <2> QED
    BY <1>0, <1>1, <1>3, <2>1, MovedOn
<1> QED
  BY <1>2, <1>3 DEF Checkout

\* Popping the newest stash brings back what it holds, or keeps it.
LEMMA NewestPopped ==
    ASSUME ReposTyped, NEW o \in OpRecords, o.repo \in Repos, Newest(o), NEW outcome \in Outcomes,
           Pop(o.repo, 1, outcome[1], outcome[2]), UNCHANGED <<workspace, branch, stored>>
    PROVE  IF outcome[2] THEN Applied(o)' /\ Gone(o)' ELSE Newest(o)'
<1>1. IF outcome[2] THEN /\ stashes'[o.repo] = RemoveAt(stashes[o.repo], 1)
                         /\ tree'[o.repo] = tree[o.repo] \union stashes[o.repo][1].holds
      ELSE stashes' = stashes
  BY PopIs DEF Newest
<1>2. CASE outcome[2]
  <2>1. \A i \in DOMAIN RemoveAt(stashes[o.repo], 1) :
          \E k \in DOMAIN stashes[o.repo] \ {1} : RemoveAt(stashes[o.repo], 1)[i] = stashes[o.repo][k]
    BY StashTaken DEF Newest
  <2> QED
    BY <1>1, <1>2, <2>1 DEF Newest, Applied, Gone
<1>3. CASE ~outcome[2]
  BY <1>1, <1>3 DEF Newest
<1> QED
  BY <1>2, <1>3

LEMMA StashPopOnCourse ==
    ASSUME CourseInv, NEW w \in Windows, StashPop(w)
    PROVE  CourseInv'
<1> DEFINE r == workspace[w]
<1>1. PICK outcome \in Outcomes :
        /\ Pop(r, 1, outcome[1], outcome[2])
        /\ Command(w, r, [op[w] EXCEPT !.at = IF op[w].at = "pop" /\ Popped(r, 1, outcome) THEN "done" ELSE "failed"])
  BY DEF StashPop
<1> DEFINE x == IF op[w].at = "pop" /\ Popped(r, 1, outcome) THEN "done" ELSE "failed"
           next == [op[w] EXCEPT !.at = x]
<1>0. /\ op[w] \in OpRecords /\ op[w].at \in {"pop", "unpush"} /\ r \in Repos
      /\ UNCHANGED <<workspace, branch, headed, committed, pointed, changed, dropped, exposed, stored, ops>>
  BY DEF CourseInv, OpsTyped, ReposTyped, StashPop
<1>2. /\ next \in OpRecords /\ next.at = x /\ next.what = op[w].what /\ next.target = op[w].target
      /\ next.leave = op[w].leave /\ next.dirty = op[w].dirty
      /\ next.stash = op[w].stash /\ next.held = op[w].held /\ next.repo = op[w].repo /\ next.alone = op[w].alone
  <2>1. x \in Steps
    BY DEF Steps
  <2> HIDE DEF x
  <2> QED
    BY <1>0, <2>1, Moved
<1>3. (x = "done" /\ op[w].at = "pop" /\ outcome[2]) \/ x = "failed"
  BY DEF Popped
<1>4. /\ ReposTyped' /\ \A q \in Repos : q # r => tree'[q] = tree[q] /\ stashes'[q] = stashes[q]
  BY <1>0, <1>1, PopIs DEF CourseInv
<1>5. RestTyped'
  BY <1>0 DEF CourseInv, RestTyped
<1>6. Command(w, r, next) /\ r = workspace[w]
  BY <1>1
<1> HIDE DEF next, x, r
<1>7. op' \in [Windows -> OpRecords] /\ op'[w] = next /\ Others(w)
  BY <1>0, <1>2, <1>4, <1>6, Commanded
<1>8. ASSUME op[w].what = "change", op[w].alone, op[w].stash # 0 PROVE Aside(op[w])'
  <2>1. op[w].repo = r /\ Newest(op[w]) /\ (op[w].at = "pop" => ~op[w].leave)
    BY <1>0, <1>6, <1>8 DEF CourseInv, Course, Aside
  <2>2. PICK o : o = op[w]
    OBVIOUS
  <2>3. Newest(o) /\ o.repo = r /\ o \in OpRecords
    BY <1>0, <2>1, <2>2
  <2>4. IF outcome[2] THEN Applied(o)' /\ Gone(o)' ELSE Newest(o)'
    BY <1>0, <1>1, <2>3, NewestPopped DEF CourseInv
  <2>5. next.repo = o.repo /\ next.stash = o.stash /\ next.held = o.held
    BY <1>2, <2>2
  <2>6. IF outcome[2] THEN Applied(op[w])' /\ Gone(op[w])' ELSE Newest(op[w])'
    BY <1>7, <2>4, <2>5 DEF Applied, Gone, Newest
  <2> QED
    BY <1>2, <1>3, <1>7, <2>1, <2>6 DEF Aside
<1>9. Course(w)'
  <2>1. op[w].what = "change" =>
          (op[w].stash # 0 => op[w].dirty) /\ (op[w].alone => workspace[w] = op[w].repo)
    BY <1>0 DEF CourseInv, Course
  <2> QED
    BY <1>0, <1>2, <1>3, <1>7, <1>8, <2>1 DEF Course
<1> QED
  BY <1>2, <1>3, <1>4, <1>5, <1>7, <1>9, OwnStep

\* A discard has no course to keep.
LEMMA NoCourse ==
    ASSUME CourseInv, NEW w \in Windows, op[w].at \in {"head", "copy", "store", "restore"} PROVE op[w].what # "change"
BY DEF CourseInv, Course

\* A step of a discard that asks git for nothing it keeps.
LEMMA DiscardOnCourse ==
    ASSUME CourseInv, NEW w \in Windows, op[w].what # "change", NEW next \in OpRecords, next.what = op[w].what,
           next.at \notin {"status", "push", "checkout"}, op' = [op EXCEPT ![w] = next],
           UNCHANGED <<workspace, branch, tree, headed, committed, stashes, pointed, changed, dropped, exposed, stored, ops>>
    PROVE  CourseInv'
<1>1. ReposTyped' /\ RestTyped'
  BY DEF CourseInv, ReposTyped, RestTyped
<1>2. op' \in [Windows -> OpRecords] /\ op'[w] = next /\ Others(w)
  BY Silent
<1> QED
  BY <1>1, <1>2, OwnStep DEF Course

LEMMA HasHeadOnCourse ==
    ASSUME CourseInv, NEW w \in Windows, HasHead(w)
    PROVE  CourseInv'
<1> DEFINE without == [op[w] EXCEPT !.at = "restore", !.alone = FALSE]
<1>0. /\ op[w] \in OpRecords /\ op[w].what # "change"
      /\ UNCHANGED <<workspace, branch, tree, headed, committed, stashes, pointed, changed, dropped, exposed, stored, ops>>
  BY NoCourse DEF CourseInv, OpsTyped, HasHead
<1>1. CASE op' = [op EXCEPT ![w].at = "copy"]
  BY <1>0, <1>1, MovedOn DEF Steps
<1>2. CASE op' = [op EXCEPT ![w] = [op[w] EXCEPT !.at = "restore", !.alone = FALSE]]
  <2>1. without \in OpRecords /\ without.what = op[w].what /\ without.at = "restore"
    BY <1>0 DEF OpRecords, Steps
  <2>2. op' = [op EXCEPT ![w] = without]
    BY <1>2
  <2> HIDE DEF without
  <2> QED
    BY <1>0, <2>1, <2>2, DiscardOnCourse
<1> QED
  BY <1>1, <1>2 DEF HasHead

LEMMA CopyChangesOnCourse ==
    ASSUME CourseInv, NEW w \in Windows, CopyChanges(w)
    PROVE  CourseInv'
<1> DEFINE r == workspace[w]
           copy == [op[w] EXCEPT !.at = "store", !.held = tree[r], !.repo = r]
<1>0. /\ op[w] \in OpRecords /\ op[w].what # "change" /\ r \in Repos /\ tree[r] \in SUBSET Changes /\ op[w].at = "copy"
      /\ UNCHANGED <<workspace, branch, tree, headed, committed, stashes, pointed, changed, dropped, exposed, stored, ops>>
  BY NoCourse DEF CourseInv, OpsTyped, ReposTyped, CopyChanges
<1>1. CASE op' = [op EXCEPT ![w] = [op[w] EXCEPT !.at = "store", !.held = tree[r], !.repo = r]]
  <2>1. copy \in OpRecords /\ copy.what = op[w].what /\ copy.at = "store"
    BY <1>0 DEF OpRecords, Steps
  <2>2. op' = [op EXCEPT ![w] = copy]
    BY <1>1
  <2> HIDE DEF copy
  <2> QED
    BY <1>0, <2>1, <2>2, DiscardOnCourse
<1>2. CASE op' = [op EXCEPT ![w].at = AfterCopy(w, FALSE)]
  BY <1>0, <1>2, MovedOn DEF AfterCopy, Steps
<1> QED
  BY <1>1, <1>2 DEF CopyChanges

LEMMA StashStoreOnCourse ==
    ASSUME CourseInv, NEW w \in Windows, StashStore(w)
    PROVE  CourseInv'
<1> DEFINE r == workspace[w]
           held == op[w].held
           next == Knowing(op[w], AfterCopy(w, TRUE), stored + 1, op[w].held)
<1>0. op[w] \in OpRecords /\ op[w].at = "store" /\ op[w].what # "change" /\ r \in Repos /\ held \in SUBSET Changes
  BY NoCourse DEF CourseInv, OpsTyped, OpRecords, ReposTyped, StashStore
<1>1. CASE /\ stored < MaxStashes /\ stored' = stored + 1 /\ stashes' = [stashes EXCEPT ![r] = Stashed(r, held)]
           /\ Command(w, r, next)
  <2>1. UNCHANGED <<workspace, branch, tree, headed, committed, pointed, changed, dropped, exposed, ops>>
    BY DEF StashStore
  <2>2. stored + 1 \in 0 .. MaxStashes
    BY <1>1, StashesAssumption DEF CourseInv, ReposTyped
  <2>3. ReposTyped' /\ \A q \in Repos : q # r => tree'[q] = tree[q] /\ stashes'[q] = stashes[q]
    <3> HIDE DEF held, r, next
    <3> QED
      BY <1>0, <1>1, <2>1, StashIsMade
  <2>4. RestTyped'
    BY <2>1 DEF CourseInv, RestTyped
  <2>5. next \in OpRecords /\ next.at = "restore" /\ next.what = op[w].what
    <3> DEFINE n == stored + 1
    <3>1. "restore" \in Steps /\ n \in 0 .. MaxStashes /\ next = Knowing(op[w], "restore", n, held)
      BY <1>0, <2>2 DEF Steps, AfterCopy
    <3> HIDE DEF n, held, next
    <3>2. /\ Knowing(op[w], "restore", n, held) \in OpRecords /\ Knowing(op[w], "restore", n, held).at = "restore"
          /\ Knowing(op[w], "restore", n, held).what = op[w].what
      BY <1>0, <3>1, Known
    <3> QED
      BY <3>1, <3>2
  <2> HIDE DEF next, r
  <2>6. op' \in [Windows -> OpRecords] /\ op'[w] = next /\ Others(w)
    BY <1>0, <1>1, <2>1, <2>3, <2>5, Commanded
  <2> QED
    BY <1>0, <2>3, <2>4, <2>5, <2>6, OwnStep DEF Course
<1>2. CASE op' = [op EXCEPT ![w].at = AfterCopy(w, FALSE)] /\ UNCHANGED <<stashes, stored>>
  BY <1>0, <1>2, MovedOn DEF StashStore, AfterCopy, Steps
<1> QED
  BY <1>1, <1>2 DEF StashStore

LEMMA RestoreOnCourse ==
    ASSUME CourseInv, NEW w \in Windows, NEW taken \in SUBSET tree[workspace[w]], NEW x, Restore(w, taken, x)
    PROVE  CourseInv'
<1> DEFINE r == workspace[w]
           next == [op[w] EXCEPT !.at = x]
<1>0. op[w] \in OpRecords /\ op[w].what # "change" /\ r \in Repos /\ taken \subseteq tree[r] /\ tree[r] \in SUBSET Changes
  BY NoCourse DEF CourseInv, OpsTyped, ReposTyped, Restore
<1>1. /\ tree' = [tree EXCEPT ![r] = tree[r] \ taken] /\ exposed' \subseteq exposed \union taken /\ x \in {"restore", "done"}
      /\ Command(w, r, next)
      /\ UNCHANGED <<workspace, branch, headed, committed, stashes, pointed, changed, dropped, stored, ops>>
  BY DEF Restore
<1>2. next \in OpRecords /\ next.at = x /\ next.what = op[w].what
  <2>1. x \in Steps
    BY <1>1 DEF Steps
  <2> QED
    BY <1>0, <2>1, Moved
<1> HIDE DEF next, r
<1>3. ReposTyped' /\ RestTyped' /\ \A q \in Repos : q # r => tree'[q] = tree[q] /\ stashes'[q] = stashes[q]
  BY <1>0, <1>1 DEF CourseInv, ReposTyped, RestTyped
<1>4. op' \in [Windows -> OpRecords] /\ op'[w] = next /\ Others(w)
  BY <1>0, <1>1, <1>2, <1>3, Commanded
<1> QED
  BY <1>0, <1>1, <1>2, <1>3, <1>4, OwnStep DEF Course

\* A stash is taken outside an operation.
LEMMA TakenOutside ==
    ASSUME CourseInv, NEW r \in Repos, op' = Disturbed(r), workspace' = workspace, ReposTyped', RestTyped',
           \A q \in Repos : q # r => tree'[q] = tree[q] /\ stashes'[q] = stashes[q]
    PROVE  CourseInv'
<1>1. /\ op' \in [Windows -> OpRecords]
      /\ \A v \in Windows :
           /\ op'[v].at = op[v].at /\ op'[v].target = op[v].target
           /\ \/ op'[v] = [op[v] EXCEPT !.alone = FALSE]
              \/ op'[v] = op[v] /\ op[v].repo # r
  BY DisturbedTyped DEF CourseInv
<1>2. ASSUME NEW v \in Windows PROVE Course(v)'
  <2>1. op[v].what = "change" /\ op[v].alone => op[v].repo \in Repos
    BY DEF CourseInv, Course, ReposTyped
  <2>2. Passed(v)
    BY <1>1, <2>1 DEF Passed
  <2> QED
    BY <2>2, StaysOnCourse DEF CourseInv
<1> QED
  BY <1>1, <1>2 DEF CourseInv, OpsTyped

LEMMA PopStashOnCourse ==
    ASSUME CourseInv, NEW w \in Windows, PopStash(w)
    PROVE  CourseInv'
<1> DEFINE r == workspace[w]
           pos == pointed[w].pos
<1>1. PICK outcome \in Outcomes : Pop(r, pos, outcome[1], outcome[2])
  BY DEF PopStash
<1>2. /\ op' = Disturbed(r) /\ r \in Repos /\ pointed' = [pointed EXCEPT ![w] = NoName]
      /\ UNCHANGED <<workspace, branch, headed, committed, changed, dropped, exposed, stored, ops>>
  BY DEF PopStash, CourseInv, ReposTyped
<1> HIDE DEF r, pos
<1>3. ReposTyped' /\ \A q \in Repos : q # r => tree'[q] = tree[q] /\ stashes'[q] = stashes[q]
  BY <1>1, <1>2, PopIs DEF CourseInv
<1>4. RestTyped'
  BY <1>2, StashesAssumption DEF CourseInv, RestTyped, NoName, Named
<1> QED
  BY <1>2, <1>3, <1>4, TakenOutside

\* Commits move changes between a tree and the commits of its repository.
LEMMA CommitsOnCourse ==
    ASSUME CourseInv, NEW r \in Repos, NEW now \in SUBSET Changes, NEW taken \in SUBSET Changes, op' = Disturbed(r),
           tree' = [tree EXCEPT ![r] = now], committed' = [committed EXCEPT ![r] = taken], headed' \subseteq Repos,
           ops' \in 0 .. MaxOps, UNCHANGED <<workspace, branch, stashes, pointed, changed, dropped, exposed, stored>>
    PROVE  CourseInv'
<1>1. ReposTyped' /\ RestTyped' /\ \A q \in Repos : q # r => tree'[q] = tree[q] /\ stashes'[q] = stashes[q]
  BY DEF CourseInv, ReposTyped, RestTyped
<1> QED
  BY <1>1, TakenOutside

LEMMA CommitOnCourse ==
    ASSUME CourseInv, NEW w \in Windows, NEW taken \in SUBSET tree[workspace[w]], CommitTaken(w, taken)
    PROVE  CourseInv'
<1> DEFINE r == workspace[w]
<1>1. /\ r \in Repos /\ tree[r] \ taken \in SUBSET Changes /\ committed[r] \union taken \in SUBSET Changes
      /\ headed' \subseteq Repos /\ ops' \in 0 .. MaxOps
  BY StashesAssumption DEF CommitTaken, CourseInv, ReposTyped, RestTyped
<1> QED
  BY <1>1, CommitsOnCourse DEF CommitTaken

LEMMA UndoLastCommitOnCourse ==
    ASSUME CourseInv, NEW w \in Windows, NEW back \in SUBSET committed[workspace[w]], NEW first \in BOOLEAN,
           UndoCommit(w, back, first)
    PROVE  CourseInv'
<1> DEFINE r == workspace[w]
<1>1. /\ r \in Repos /\ tree[r] \union back \in SUBSET Changes /\ committed[r] \ back \in SUBSET Changes
      /\ headed' \subseteq Repos /\ ops' \in 0 .. MaxOps
  BY StashesAssumption DEF UndoCommit, CourseInv, ReposTyped, RestTyped
<1> QED
  BY <1>1, CommitsOnCourse DEF UndoCommit

LEMMA DropStashOnCourse ==
    ASSUME CourseInv, NEW w \in Windows, DropStash(w)
    PROVE  CourseInv'
<1> DEFINE r == workspace[w]
           pos == pointed[w].pos
           gone == [named |-> pointed[w].id, taken |-> stashes[r][pos].id, holds |-> stashes[r][pos].holds]
<1>0. /\ UNCHANGED <<workspace, branch, tree, headed, committed, changed, exposed, stored, ops>> /\ r \in Repos
      /\ pointed' = [pointed EXCEPT ![w] = NoName] /\ NoName \in Named /\ pointed[w].id \in 0 .. MaxStashes
  BY StashesAssumption DEF DropStash, CourseInv, ReposTyped, RestTyped, NoName, Named
<1>1. CASE pos \in DOMAIN stashes[r]
  <2>1. /\ stashes' = [stashes EXCEPT ![r] = RemoveAt(stashes[r], pos)]
        /\ dropped' = dropped \union {gone} /\ op' = Disturbed(r)
    BY <1>1 DEF DropStash
  <2>2. Numbered(RemoveAt(stashes[r], pos), stored) /\ stashes[r][pos] \in StashRecords
    BY <1>0, <1>1, StashTaken DEF CourseInv
  <2>3. gone \in [named : 0 .. MaxStashes, taken : 1 .. MaxStashes, holds : SUBSET Changes]
    BY <1>0, <2>2 DEF StashRecords
  <2> HIDE DEF gone, pos, r
  <2>4. RestTyped'
    BY <1>0, <2>1, <2>3 DEF CourseInv, RestTyped
  <2>5. ReposTyped' /\ \A q \in Repos : q # r => tree'[q] = tree[q] /\ stashes'[q] = stashes[q]
    BY <1>0, <2>1, <2>2 DEF CourseInv, ReposTyped, Numbered
  <2> QED
    BY <1>0, <2>1, <2>4, <2>5, TakenOutside
<1>2. CASE pos \notin DOMAIN stashes[r]
  <2>1. UNCHANGED <<stashes, dropped, op>>
    BY <1>2 DEF DropStash
  <2>2. RestTyped'
    BY <1>0, <2>1 DEF CourseInv, RestTyped
  <2> QED
    BY <1>0, <2>1, <2>2 DEF CourseInv, ReposTyped, OpsTyped, Course, Aside, Newest, Applied, Gone
<1> QED
  BY <1>1, <1>2

LEMMA CourseKept == CourseInv /\ [StashesNext]_stashVars => CourseInv'
<1> SUFFICES ASSUME CourseInv, [StashesNext]_stashVars PROVE CourseInv'
  OBVIOUS
<1>1. ASSUME NEW w \in Windows, NEW b \in Branches, NEW leave \in BOOLEAN, Start(w, "change", b, leave) PROVE CourseInv'
  BY <1>1, StartOnCourse DEF Targets
<1>2. ASSUME NEW w \in Windows, Start(w, "discard", "none", FALSE) PROVE CourseInv'
  BY <1>2, StartOnCourse DEF Targets
<1>3. CASE StashesNext
  BY <1>1, <1>2, <1>3, EditFileOnCourse, SelectRepositoryOnCourse, HasUncommittedChangesOnCourse, StashPushOnCourse,
     CheckoutOnCourse, StashPopOnCourse, HasHeadOnCourse, CopyChangesOnCourse, StashStoreOnCourse, RestoreOnCourse,
     SettledOnCourse, PopStashOnCourse, DropStashOnCourse, PointOnCourse, CommitOnCourse, UndoLastCommitOnCourse
     DEF StashesNext
<1>4. CASE UNCHANGED stashVars
  BY <1>4 DEF stashVars, CourseInv, ReposTyped, OpsTyped, RestTyped, Course, Aside, Newest, Applied, Gone
<1> QED
  BY <1>3, <1>4

THEOREM CourseInvariant == StashesSpec => []CourseInv
BY CourseBegins, CourseKept, PTL DEF StashesSpec

\* The variables of the working trees, the stash lists and the operations keep their types.
THEOREM StashesTypeCorrect == StashesSpec => []StashesTypeOK
<1>1. CourseInv => StashesTypeOK
  <2> SUFFICES ASSUME CourseInv PROVE StashesTypeOK
    OBVIOUS
  <2>1. \A r \in Repos : \A i \in DOMAIN stashes[r] : stashes[r][i] \in StashRecords
    BY ElementOfSeq DEF CourseInv, ReposTyped
  <2>2. \A w \in Windows : op[w].what \in {"none", "change", "discard"} /\ op[w].at \in Steps
    BY DEF CourseInv, OpsTyped, OpRecords
  <2> QED
    BY <2>1, <2>2 DEF CourseInv, ReposTyped, RestTyped, StashRecords, Steps, Named, StashesTypeOK
<1> QED
  BY <1>1, CourseInvariant, PTL

(***************************************************************************)
(* ChangeBranch and CheckoutCommit (git_branch_handler.go) end with the    *)
(* changes where the user was told, left in the newest stash or back in    *)
(* the working tree, as long as nobody else works in that repository.      *)
(***************************************************************************)
THEOREM ChangesDoComeBack == StashesSpec => []ChangesComeBack
<1>1. CourseInv => ChangesComeBack
  <2> SUFFICES ASSUME CourseInv, NEW w \in Windows, op[w].what = "change", op[w].alone, op[w].stash # 0
               PROVE  LET kept == {i \in DOMAIN stashes[op[w].repo] : stashes[op[w].repo][i].id = op[w].stash} IN
                      /\ op[w].at = "done" /\ ~op[w].leave => op[w].held \subseteq tree[op[w].repo] /\ kept = {}
                      /\ op[w].at = "done" /\ op[w].leave  => 1 \in kept
                      /\ op[w].at = "failed" => op[w].held \subseteq tree[op[w].repo] \/ 1 \in kept
    BY DEF ChangesComeBack
  <2>1. Aside(op[w])
    BY DEF CourseInv, Course
  <2> QED
    BY <2>1 DEF Aside, Applied, Gone, Newest
<1> QED
  BY <1>1, CourseInvariant, PTL
=============================================================================
