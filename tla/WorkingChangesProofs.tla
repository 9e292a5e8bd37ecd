------------------------- MODULE WorkingChangesProofs -------------------------
(***************************************************************************)
(* Proofs about WorkingChanges: for every set of files and every bound,    *)
(* what the Changes view shows once it is quiet is the repository, a choice*)
(* holds until it is used, and a commit of lines takes the lines that were *)
(* picked.  The inductive invariant is ChangesInv; its parts are stated    *)
(* before the lemmas that keep them.                                       *)
(***************************************************************************)
EXTENDS WorkingChanges, SequenceTheorems, TLAPS

\* What the variables hold, records included.
Selections == [kind : {"all", "none", "partial"}, hash : Contents]
Sources == {"working", "stash", "commit"}
StatusCalls == [at : {"free", "asked", "failed"}, files : SUBSET Files, undo : 0 .. MaxCommits,
                gotFiles : BOOLEAN, gotUndo : BOOLEAN, live : BOOLEAN]
LoadCalls == [at : {"free", "asked", "answered", "failed"}, kind : {"load", "check"}, from : Sources,
              of : Files \union {NoFile}, content : Contents, live : BOOLEAN]
Requests == UNION {[S -> Selections] : S \in SUBSET Files}
HandlerCalls == [at : {"idle", "sent", "done", "failed"}, what : {"commit", "discard"}, req : Requests, id : 0 .. MaxCommits]
UndoCalls == [at : {"idle", "sent", "done", "failed"}, named : 0 .. MaxCommits]

RepoTyped ==
    /\ disk \in [Files -> Contents] /\ log \in Seq(1 .. MaxCommits)
    /\ undoneHead \in 0 .. MaxCommits /\ numbered \in 2 .. MaxCommits
PageTyped ==
    /\ view \in {"changes", "history"} /\ files \subseteq Files
    /\ selectedFile \in Files \union {NoFile} /\ source \in Sources
    /\ shown \in [of : Files \union {NoFile}, content : Contents]
    /\ loadingDiff \in BOOLEAN /\ revised \in BOOLEAN /\ fresh \in BOOLEAN /\ undoable \in 0 .. MaxCommits
ChoiceTyped == sel \in [Files -> Selections] /\ chosen \in [Files -> Selections] /\ outrun \subseteq Files
CallsTyped ==
    /\ stats \in [Slots -> StatusCalls] /\ loads \in [Slots -> LoadCalls]
    /\ call \in HandlerCalls /\ undo \in UndoCalls
    /\ \A i \in Slots : (loads[i].at # "free" => loads[i].of \in Files) /\ (loads[i].kind = "check" => loads[i].from = "working")
AllTyped == RepoTyped /\ PageTyped /\ ChoiceTyped /\ CallsTyped

-----------------------------------------------------------------------------
\* Records, field by field.

LEMMA Nulls ==
    /\ 0 \in Contents /\ NoCommit \in 0 .. MaxCommits
    /\ All \in Selections /\ Excluded \in Selections /\ All.kind = "all" /\ Excluded.kind = "none"
    /\ NoDiff \in [of : Files \union {NoFile}, content : Contents] /\ NoDiff.of = NoFile
    /\ NoStat \in StatusCalls /\ NoStat.at = "free" /\ ~NoStat.live
    /\ NoLoad \in LoadCalls /\ NoLoad.at = "free" /\ NoLoad.kind = "load" /\ ~NoLoad.live
    /\ NoCall \in HandlerCalls /\ NoCall.at = "idle" /\ DOMAIN NoCall.req = {}
    /\ NoUndo \in UndoCalls /\ NoUndo.at = "idle"
<1>1. 0 \in Contents /\ NoCommit \in 0 .. MaxCommits
  BY ChangesAssumption DEF Contents, NoCommit
<1>2. All \in Selections /\ Excluded \in Selections /\ All.kind = "all" /\ Excluded.kind = "none"
  BY <1>1 DEF All, Excluded, Selections
<1>3. NoDiff \in [of : Files \union {NoFile}, content : Contents] /\ NoDiff.of = NoFile
  BY <1>1 DEF NoDiff
<1>4. NoStat \in StatusCalls /\ NoStat.at = "free" /\ ~NoStat.live
  BY <1>1 DEF NoStat, StatusCalls
<1>5. NoLoad \in LoadCalls /\ NoLoad.at = "free" /\ NoLoad.kind = "load" /\ ~NoLoad.live
  BY <1>1 DEF NoLoad, LoadCalls, Sources
<1>6. [f \in {} |-> All] \in [{} -> Selections] /\ {} \in SUBSET Files
  OBVIOUS
<1>7. [f \in {} |-> All] \in Requests
  BY <1>6 DEF Requests
<1>8. NoCall \in HandlerCalls /\ NoCall.at = "idle" /\ DOMAIN NoCall.req = {}
  BY <1>1, <1>7 DEF NoCall, HandlerCalls
<1>9. NoUndo \in UndoCalls /\ NoUndo.at = "idle"
  BY <1>1 DEF NoUndo, UndoCalls
<1> QED
  BY <1>1, <1>2, <1>3, <1>4, <1>5, <1>8, <1>9

LEMMA PartialIs == ASSUME NEW c \in Contents PROVE Partial(c) \in Selections /\ Partial(c).kind = "partial" /\ Partial(c).hash = c
BY DEF Partial, Selections

LEMMA FreeSlot ==
    ASSUME NEW calls, SomeFree(calls)
    PROVE  FreeIn(calls) \in Slots /\ calls[FreeIn(calls)].at = "free"
BY DEF SomeFree, FreeIn

LEMMA LoadIsAsked ==
    ASSUME NEW f \in Files \union {NoFile}, NEW from \in Sources
    PROVE  /\ AskedFor(f, from) \in LoadCalls /\ AskedFor(f, from).at = "asked" /\ AskedFor(f, from).kind = "load"
           /\ AskedFor(f, from).of = f /\ AskedFor(f, from).from = from /\ AskedFor(f, from).live
<1>1. NoLoad \in LoadCalls /\ NoLoad.kind = "load"
  BY Nulls DEF NoLoad
<1> QED
  BY <1>1 DEF AskedFor, LoadCalls

LEMMA CheckIsAsked ==
    ASSUME NEW f \in Files \union {NoFile}
    PROVE  /\ Checking(f) \in LoadCalls /\ Checking(f).at = "asked" /\ Checking(f).kind = "check"
           /\ Checking(f).of = f /\ Checking(f).from = "working" /\ ~Checking(f).live
<1>1. NoLoad \in LoadCalls /\ NoLoad.from = "working" /\ ~NoLoad.live
  BY Nulls DEF NoLoad
<1> QED
  BY <1>1 DEF Checking, LoadCalls

LEMMA SupersededAre ==
    ASSUME NEW calls \in [Slots -> LoadCalls]
    PROVE  /\ Superseded(calls) \in [Slots -> LoadCalls]
           /\ \A i \in Slots :
                /\ Superseded(calls)[i].live <=> calls[i].live /\ calls[i].kind # "load"
                /\ Superseded(calls)[i].at = calls[i].at /\ Superseded(calls)[i].kind = calls[i].kind
                /\ Superseded(calls)[i].of = calls[i].of /\ Superseded(calls)[i].from = calls[i].from
                /\ Superseded(calls)[i].content = calls[i].content
BY DEF Superseded, LoadCalls

LEMMA StaleAre ==
    ASSUME NEW calls \in [Slots -> StatusCalls]
    PROVE  /\ Stale(calls) \in [Slots -> StatusCalls]
           /\ \A i \in Slots : ~Stale(calls)[i].live /\ Stale(calls)[i].at = calls[i].at
BY DEF Stale, StatusCalls

LEMMA StatusIsAsked ==
    ASSUME CallsTyped, FetchGitStatus
    PROVE  /\ stats' \in [Slots -> StatusCalls]
           /\ \E k \in Slots :
                /\ stats'[k].at = "asked" /\ stats'[k].live /\ ~stats'[k].gotFiles /\ ~stats'[k].gotUndo
                /\ \A i \in Slots : i # k => ~stats'[i].live
<1> DEFINE n == [NoStat EXCEPT !.at = "asked", !.live = TRUE]
           k == FreeIn(stats)
<1>1. n \in StatusCalls /\ n.at = "asked" /\ n.live /\ ~n.gotFiles /\ ~n.gotUndo
  <2>1. NoStat \in StatusCalls /\ ~NoStat.gotFiles /\ ~NoStat.gotUndo
    BY Nulls DEF NoStat
  <2> QED
    BY <2>1 DEF StatusCalls
<1>2. k \in Slots
  BY FreeSlot DEF FetchGitStatus
<1>3. stats' = [Stale(stats) EXCEPT ![k] = n]
  BY DEF FetchGitStatus
<1>4. Stale(stats) \in [Slots -> StatusCalls] /\ \A i \in Slots : ~Stale(stats)[i].live
  BY StaleAre DEF CallsTyped
<1> HIDE DEF n, k
<1> QED
  BY <1>1, <1>2, <1>3, <1>4

\* A call of loadDiff, once begun: its slot, and the others superseded.
Begun(k, f, from) ==
    /\ loads' \in [Slots -> LoadCalls]
    /\ loads'[k].at = "asked" /\ loads'[k].kind = "load" /\ loads'[k].of = f /\ loads'[k].from = from /\ loads'[k].live
    /\ loads[k].at = "free" \/ loads[k].kind = "check"
    /\ \A i \in Slots : i # k =>
         /\ loads'[i].live <=> loads[i].live /\ loads[i].kind # "load"
         /\ loads'[i].at = loads[i].at /\ loads'[i].kind = loads[i].kind /\ loads'[i].of = loads[i].of
         /\ loads'[i].from = loads[i].from /\ loads'[i].content = loads[i].content

LEMMA LoadBegins ==
    ASSUME CallsTyped, NEW f \in Files, NEW from \in Sources, LoadDiff(f, from)
    PROVE  \E k \in Slots : Begun(k, f, from)
<1> DEFINE k == FreeIn(loads)
<1>1. k \in Slots /\ loads[k].at = "free"
  BY FreeSlot DEF LoadDiff
<1>2. loads' = [Superseded(loads) EXCEPT ![k] = AskedFor(f, from)]
  BY DEF LoadDiff
<1> HIDE DEF k
<1>3. Begun(k, f, from)
  BY <1>1, <1>2, LoadIsAsked, SupersededAre DEF CallsTyped, Begun
<1> QED
  BY <1>1, <1>3

-----------------------------------------------------------------------------
(***************************************************************************)
(* What a step does to the diff: nothing, or it begins a load, empties     *)
(* the view, begins a check, or is a step of a call.                       *)
(***************************************************************************)
LoadStarts == shown' = shown /\ \E f \in Files, from \in Sources : LoadDiff(f, from)
Emptied ==
    /\ selectedFile' = NoFile /\ shown' = NoDiff /\ source' = source /\ loadingDiff' = loadingDiff
    /\ loads' = loads \/ loads' = Superseded(loads)
CheckStarts ==
    /\ SomeFree(loads) /\ loads' = [loads EXCEPT ![FreeIn(loads)] = Checking(selectedFile)]
    /\ selectedFile \in Files
    /\ UNCHANGED <<selectedFile, source, shown, loadingDiff>>

Freed(i) ==
    /\ loads' \in [Slots -> LoadCalls]
    /\ loads'[i].at = "free" /\ loads'[i].kind = "load" /\ ~loads'[i].live
    /\ \A j \in Slots : j # i => loads'[j] = loads[j]
CheckBegun(k) ==
    /\ loads' \in [Slots -> LoadCalls] /\ loads[k].at = "free"
    /\ loads'[k].at = "asked" /\ loads'[k].kind = "check" /\ loads'[k].of = selectedFile /\ loads'[k].from = "working"
    /\ ~loads'[k].live
    /\ \A j \in Slots : j # k => loads'[j] = loads[j]
HasRead(i) ==
    /\ loads' \in [Slots -> LoadCalls]
    /\ loads[i].at = "asked"
    /\ loads'[i].live = loads[i].live /\ loads'[i].kind = loads[i].kind /\ loads'[i].of = loads[i].of
    /\ loads'[i].from = loads[i].from
    /\ \/ loads'[i].at = "failed"
       \/ loads'[i].at = "answered" /\ (loads[i].from = "working" => loads'[i].content = disk[loads[i].of])
    /\ \A j \in Slots : j # i => loads'[j] = loads[j]

LEMMA CheckBegins ==
    ASSUME CallsTyped, PageTyped, CheckStarts
    PROVE  \E k \in Slots : CheckBegun(k)
<1> DEFINE k == FreeIn(loads)
<1>1. k \in Slots /\ loads[k].at = "free"
  BY FreeSlot DEF CheckStarts
<1>2. loads' = [loads EXCEPT ![k] = Checking(selectedFile)]
  BY DEF CheckStarts
<1> HIDE DEF k
<1>3. CheckBegun(k)
  BY <1>1, <1>2, CheckIsAsked DEF CallsTyped, PageTyped, CheckBegun
<1> QED
  BY <1>1, <1>3

LEMMA LoadHasRead ==
    ASSUME CallsTyped, RepoTyped, NEW i \in Slots, LoadReads(i)
    PROVE  HasRead(i)
<1> DEFINE c == IF loads[i].from = "working" THEN disk[loads[i].of] ELSE 0
<1>1. c \in Contents
  BY Nulls DEF RepoTyped, CallsTyped, LoadReads
<1>2. loads' = [loads EXCEPT ![i].at = "answered", ![i].content = c] \/ loads' = [loads EXCEPT ![i].at = "failed"]
  BY DEF LoadReads
<1>3. loads[i].from = "working" => c = disk[loads[i].of]
  OBVIOUS
<1> HIDE DEF c
<1>4. CASE loads' = [loads EXCEPT ![i].at = "answered", ![i].content = c]
  BY <1>1, <1>3, <1>4 DEF CallsTyped, LoadCalls, HasRead, LoadReads
<1>5. CASE loads' = [loads EXCEPT ![i].at = "failed"]
  BY <1>5 DEF CallsTyped, LoadCalls, HasRead, LoadReads
<1> QED
  BY <1>2, <1>4, <1>5

LEMMA SlotFreed ==
    ASSUME CallsTyped, NEW i \in Slots, loads' = [loads EXCEPT ![i] = NoLoad]
    PROVE  Freed(i)
BY Nulls DEF Freed, CallsTyped

LEMMA LoadIsFreed == ASSUME CallsTyped, NEW i \in Slots, LoadAnswered(i) PROVE Freed(i)
BY SlotFreed DEF LoadAnswered

\* The answer of a check: the file has other content than what is shown, and is loaded; or the check is over.
Current(i) == loads[i].at = "answered" /\ selectedFile = loads[i].of /\ source = "working"
Differs(i) == ~(shown.of # NoFile /\ shown.content = loads[i].content)
LEMMA CheckEnds ==
    ASSUME CallsTyped, NEW i \in Slots, CheckAnswered(i)
    PROVE  /\ loads[i].kind = "check" /\ loads[i].at \in {"answered", "failed"}
           /\ UNCHANGED <<selectedFile, source, shown>>
           /\ \/ Current(i) /\ Differs(i) /\ Begun(i, selectedFile, "working") /\ loadingDiff' = TRUE /\ fresh' = fresh
              \/ /\ ~(Current(i) /\ Differs(i)) /\ Freed(i) /\ loadingDiff' = loadingDiff
                 /\ fresh' = (fresh /\ loads[i].at # "failed" /\ ~\E j \in Slots : loads'[j].live)
<1> DEFINE others == [loads EXCEPT ![i] = NoLoad]
<1>1. others \in [Slots -> LoadCalls] /\ ~others[i].live /\ others[i].at = "free" /\ \A j \in Slots : j # i => others[j] = loads[j]
  BY Nulls DEF CallsTyped
<1>2. /\ Superseded(others) \in [Slots -> LoadCalls]
      /\ \A j \in Slots :
           /\ Superseded(others)[j].live <=> others[j].live /\ others[j].kind # "load"
           /\ Superseded(others)[j].at = others[j].at /\ Superseded(others)[j].kind = others[j].kind
           /\ Superseded(others)[j].of = others[j].of /\ Superseded(others)[j].from = others[j].from
           /\ Superseded(others)[j].content = others[j].content
  <2> HIDE DEF others
  <2> QED
    BY <1>1, SupersededAre
<1>3. loads[i].kind = "check" /\ loads[i].at \in {"answered", "failed"} /\ UNCHANGED <<selectedFile, source, shown>>
  BY DEF CheckAnswered
<1>4. \/ Current(i) /\ Differs(i) /\ loads' = [Superseded(others) EXCEPT ![i] = AskedFor(selectedFile, "working")]
         /\ loadingDiff' = TRUE /\ fresh' = fresh
      \/ ~(Current(i) /\ Differs(i)) /\ loads' = others /\ loadingDiff' = loadingDiff
         /\ fresh' = (fresh /\ loads[i].at # "failed" /\ ~\E j \in Slots : others[j].live)
  BY DEF CheckAnswered, Current, Differs
<1>5. CASE Current(i) /\ Differs(i) /\ loads' = [Superseded(others) EXCEPT ![i] = AskedFor(selectedFile, "working")]
           /\ loadingDiff' = TRUE /\ fresh' = fresh
  <2>1. selectedFile \in Files \union {NoFile}
    BY <1>5 DEF Current, CallsTyped, LoadCalls
  <2> HIDE DEF others
  <2>2. Begun(i, selectedFile, "working")
    BY <2>1, <1>1, <1>2, <1>3, <1>5, LoadIsAsked DEF Begun, Sources
  <2> QED
    BY <2>2, <1>3, <1>5
<1>6. CASE ~(Current(i) /\ Differs(i)) /\ loads' = others /\ loadingDiff' = loadingDiff
           /\ fresh' = (fresh /\ loads[i].at # "failed" /\ ~\E j \in Slots : others[j].live)
  <2>1. Freed(i)
    BY <1>6, SlotFreed
  <2> QED
    BY <2>1, <1>3, <1>6
<1> QED
  BY <1>4, <1>5, <1>6

DiffStep ==
    \/ UNCHANGED diffs
    \/ LoadStarts \/ Emptied \/ CheckStarts
    \/ \E i \in Slots : LoadReads(i) \/ LoadAnswered(i) \/ CheckAnswered(i)

LEMMA ListShown ==
    ASSUME NEW got \in SUBSET Files, ShowFirst(got)
    PROVE  UNCHANGED diffs \/ LoadStarts \/ Emptied
<1>1. CASE view # "changes" \/ source = "stash"
  BY <1>1 DEF ShowFirst
<1>2. CASE ~(view # "changes" \/ source = "stash") /\ got = {}
  BY <1>2 DEF ShowFirst, Emptied
<1>3. CASE ~(view # "changes" \/ source = "stash") /\ got # {}
  <2> DEFINE f == IF selectedFile \in got THEN selectedFile ELSE CHOOSE g \in got : TRUE
  <2>1. f \in Files
    BY <1>3
  <2>2. LoadDiff(f, "working") /\ shown' = shown
    BY <1>3 DEF ShowFirst
  <2> HIDE DEF f
  <2> QED
    BY <2>1, <2>2 DEF LoadStarts, Sources
<1> QED
  BY <1>1, <1>2, <1>3

LEMMA OpenFileChecked ==
    ASSUME PageTyped, CheckOpenFile, UNCHANGED <<selectedFile, source, shown, loadingDiff>>
    PROVE  UNCHANGED diffs \/ CheckStarts
BY DEF CheckOpenFile, Check, diffs, CheckStarts, PageTyped

\* The list an answered status brings.
Got(i) == stats[i].files

LEMMA DiffSteps ==
    ASSUME AllTyped, [ChangesNext]_changeVars
    PROVE  DiffStep
<1>1. ASSUME NEW i \in Slots, StatusAnswered(i) PROVE DiffStep
  <2>1. Got(i) \in SUBSET Files
    BY DEF AllTyped, CallsTyped, StatusCalls, Got
  <2>2. \/ CheckOpenFile /\ UNCHANGED <<selectedFile, source, shown, loadingDiff>>
        \/ ShowFirst(Got(i))
    BY <1>1 DEF StatusAnswered, Got
  <2> QED
    BY <2>1, <2>2, ListShown, OpenFileChecked DEF AllTyped, DiffStep
<1>2. ASSUME NEW f \in Files, SelectFile(f) \/ ShowStash(f) \/ ShowCommit(f) PROVE DiffStep
  BY <1>2 DEF SelectFile, ShowStash, ShowCommit, DiffStep, LoadStarts, Sources
<1>3. CASE ViewChanges
  <2>1. files \in SUBSET Files
    BY DEF AllTyped, PageTyped
  <2>2. CASE files = {}
    BY <2>2, <1>3 DEF ViewChanges, DiffStep, Emptied
  <2>3. CASE files # {}
    <3> DEFINE f == CHOOSE g \in files : TRUE
    <3>1. f \in Files
      BY <2>1, <2>3
    <3>2. LoadDiff(f, "working") /\ shown' = shown
      BY <2>3, <1>3 DEF ViewChanges
    <3> HIDE DEF f
    <3> QED
      BY <3>1, <3>2 DEF DiffStep, LoadStarts, Sources
  <2> QED
    BY <2>2, <2>3
<1>4. CASE ViewHistory
  BY <1>4 DEF ViewHistory, DiffStep, Emptied
<1>5. CASE \/ \E f \in Files, c \in Contents : EditOutside(f, c)
           \/ \E f \in Files : ToggleFileSelection(f)
           \/ CommitElsewhere \/ RevisionEffect \/ SyncWithDisk \/ SetDiffLines
           \/ \E i \in Slots : StatusReads(i) \/ StatusFails(i)
  BY <1>5 DEF EditOutside, ToggleFileSelection, CommitElsewhere, RevisionEffect, SyncWithDisk, SetDiffLines,
              StatusReads, StatusFails, DiffStep
<1>6. CASE Commit \/ Discard \/ Take \/ CallAnswered \/ Undo \/ UndoLastCommit \/ UndoAnswered
  BY <1>6 DEF Commit, Discard, SendSelected, Send, Take, CallAnswered, Undo, UndoLastCommit, UndoAnswered, DiffStep
<1>7. CASE UNCHANGED changeVars
  BY <1>7 DEF changeVars, DiffStep
<1>8. ASSUME NEW i \in Slots, LoadReads(i) \/ LoadAnswered(i) \/ CheckAnswered(i) PROVE DiffStep
  BY <1>8 DEF DiffStep
<1> QED
  BY <1>1, <1>2, <1>3, <1>4, <1>5, <1>6, <1>7, <1>8 DEF ChangesNext

-----------------------------------------------------------------------------
\* Types.

LEMMA InitTyped == ChangesInit => AllTyped
<1> SUFFICES ASSUME ChangesInit PROVE AllTyped
  OBVIOUS
<1>1. RepoTyped
  BY Nulls, ChangesAssumption DEF ChangesInit, RepoTyped, NoCommit
<1>2. PageTyped
  BY Nulls DEF ChangesInit, PageTyped, Sources
<1>3. ChoiceTyped
  BY Nulls DEF ChangesInit, ChoiceTyped
<1>4. CallsTyped
  BY Nulls DEF ChangesInit, CallsTyped
<1> QED
  BY <1>1, <1>2, <1>3, <1>4 DEF AllTyped

LEMMA UndoableTyped == ASSUME RepoTyped PROVE Undoable \in 0 .. MaxCommits
<1>1. CASE log = << >>
  BY <1>1, Nulls DEF Undoable
<1>2. CASE log # << >>
  <2>0. Len(log) \in 1 .. Len(log)
    BY <1>2 DEF RepoTyped
  <2>1. log[Len(log)] \in 1 .. MaxCommits
    BY <2>0, ElementOfSeq DEF RepoTyped
  <2> QED
    BY <1>2, <2>1, Nulls DEF Undoable, UndoableOf, Last
<1> QED
  BY <1>1, <1>2

LEMMA LogTyped ==
    ASSUME RepoTyped
    PROVE  /\ numbered < MaxCommits => Append(log, numbered + 1) \in Seq(1 .. MaxCommits)
           /\ log # << >> => Front(log) \in Seq(1 .. MaxCommits)
           /\ Len(log) > 1 => log[Len(log) - 1] \in 1 .. MaxCommits
<1>1. numbered < MaxCommits => numbered + 1 \in 1 .. MaxCommits
  BY ChangesAssumption DEF RepoTyped
<1>2. numbered < MaxCommits => Append(log, numbered + 1) \in Seq(1 .. MaxCommits)
  BY <1>1 DEF RepoTyped
<1>3. ASSUME log # << >> PROVE Front(log) \in Seq(1 .. MaxCommits)
  <2>1. Len(log) \in Nat /\ Len(log) >= 1
    BY <1>3 DEF RepoTyped
  <2>2. Front(log) = SubSeq(log, 1, Len(log) - 1)
    BY DEF Front
  <2>3. SubSeq(log, 1, Len(log) - 1) \in Seq(1 .. MaxCommits)
    <3> DEFINE n == Len(log) - 1
               T == 1 .. MaxCommits
    <3>1. n \in Int /\ 1 \in Int /\ \A i \in 1 .. n : i \in 1 .. Len(log)
      BY <2>1
    <3>2. \A i \in 1 .. Len(log) : log[i] \in T
      BY ElementOfSeq DEF RepoTyped
    <3>3. \A i \in 1 .. n : log[i] \in T
      BY <3>1, <3>2
    <3> HIDE DEF n, T
    <3>4. SubSeq(log, 1, n) \in Seq(T)
      BY <3>1, <3>3, SubSeqProperties
    <3> QED
      BY <3>4 DEF n, T
  <2> QED
    BY <2>2, <2>3
<1>4. ASSUME Len(log) > 1 PROVE log[Len(log) - 1] \in 1 .. MaxCommits
  <2>1. Len(log) - 1 \in 1 .. Len(log)
    BY <1>4 DEF RepoTyped
  <2> QED
    BY <2>1, ElementOfSeq DEF RepoTyped
<1> QED
  BY <1>2, <1>3, <1>4

LEMMA RepoStaysTyped == ASSUME AllTyped, [ChangesNext]_changeVars PROVE RepoTyped'
<1>1. ASSUME NEW f \in Files, NEW c \in Contents, EditOutside(f, c) PROVE RepoTyped'
  BY <1>1 DEF EditOutside, AllTyped, RepoTyped
<1>2. CASE CommitElsewhere
  <2>1. numbered' \in 2 .. MaxCommits
    BY <1>2, ChangesAssumption DEF CommitElsewhere, AllTyped, RepoTyped
  <2> QED
    BY <1>2, <2>1, LogTyped DEF CommitElsewhere, AllTyped, RepoTyped
<1>3. CASE Take
  <2>1. disk' \in [Files -> Contents]
    BY <1>3 DEF Take, AllTyped, RepoTyped
  <2>2. numbered' \in 2 .. MaxCommits
    BY <1>3, ChangesAssumption DEF Take, AllTyped, RepoTyped
  <2>3. log' \in Seq(1 .. MaxCommits) /\ undoneHead' \in 0 .. MaxCommits
    BY <1>3, LogTyped, Nulls DEF Take, AllTyped, RepoTyped
  <2> QED
    BY <2>1, <2>2, <2>3 DEF RepoTyped
<1>4. CASE UndoLastCommit
  <2>1. disk' \in [Files -> Contents]
    BY <1>4 DEF UndoLastCommit, AllTyped, RepoTyped
  <2>2. Undoable # NoCommit => log # << >>
    BY DEF Undoable
  <2>3. log' \in Seq(1 .. MaxCommits)
    BY <1>4, <2>2, LogTyped DEF UndoLastCommit, AllTyped, RepoTyped
  <2>4. undoneHead' \in 0 .. MaxCommits
    BY <1>4, LogTyped, Nulls DEF UndoLastCommit, AllTyped, RepoTyped
  <2> QED
    BY <1>4, <2>1, <2>3, <2>4 DEF UndoLastCommit, AllTyped, RepoTyped
<1>5. CASE \/ \E f \in Files : SelectFile(f) \/ ShowStash(f) \/ ShowCommit(f) \/ ToggleFileSelection(f)
           \/ RevisionEffect \/ SyncWithDisk \/ ViewChanges \/ ViewHistory \/ SetDiffLines
           \/ Commit \/ Discard \/ CallAnswered \/ Undo \/ UndoAnswered \/ UNCHANGED changeVars
  <2>1. UNCHANGED repo
    BY <1>5 DEF SelectFile, ShowStash, ShowCommit, ToggleFileSelection, RevisionEffect, SyncWithDisk, ViewChanges,
       ViewHistory, SetDiffLines, Commit, Discard, SendSelected, Send, CallAnswered, Undo, UndoAnswered, changeVars
  <2> QED
    BY <2>1 DEF repo, AllTyped, RepoTyped
<1>6. CASE \E i \in Slots : \/ StatusReads(i) \/ StatusFails(i) \/ StatusAnswered(i)
                            \/ LoadReads(i) \/ LoadAnswered(i) \/ CheckAnswered(i)
  <2>1. UNCHANGED repo
    BY <1>6 DEF StatusReads, StatusFails, StatusAnswered, LoadReads, LoadAnswered, CheckAnswered
  <2> QED
    BY <2>1 DEF repo, AllTyped, RepoTyped
<1> QED
  BY <1>1, <1>2, <1>3, <1>4, <1>5, <1>6 DEF ChangesNext

LEMMA PageStaysTyped == ASSUME AllTyped, [ChangesNext]_changeVars PROVE PageTyped'
<1> DEFINE DiffTyped == /\ selectedFile' \in Files \union {NoFile} /\ source' \in Sources
                        /\ shown' \in [of : Files \union {NoFile}, content : Contents] /\ loadingDiff' \in BOOLEAN
           RestTyped == /\ view' \in {"changes", "history"} /\ files' \subseteq Files /\ revised' \in BOOLEAN
                        /\ fresh' \in BOOLEAN /\ undoable' \in 0 .. MaxCommits
<1>1. DiffTyped
  <2>1. CASE UNCHANGED diffs \/ CheckStarts \/ \E i \in Slots : LoadReads(i)
    BY <2>1 DEF diffs, CheckStarts, LoadReads, AllTyped, PageTyped
  <2>2. CASE LoadStarts
    BY <2>2 DEF LoadStarts, LoadDiff, AllTyped, PageTyped
  <2>3. CASE Emptied
    BY <2>3, Nulls DEF Emptied, AllTyped, PageTyped
  <2>4. ASSUME NEW i \in Slots, LoadAnswered(i) PROVE DiffTyped
    <3>1. [of |-> loads[i].of, content |-> loads[i].content] \in [of : Files \union {NoFile}, content : Contents]
      BY DEF AllTyped, CallsTyped, LoadCalls
    <3> QED
      BY <2>4, <3>1, Nulls DEF LoadAnswered, AllTyped, PageTyped
  <2>5. ASSUME NEW i \in Slots, CheckAnswered(i) PROVE DiffTyped
    BY <2>5, CheckEnds DEF AllTyped, PageTyped
  <2> QED
    BY <2>1, <2>2, <2>3, <2>4, <2>5, DiffSteps DEF DiffStep
<1>2. RestTyped
  <2>1. ASSUME NEW i \in Slots, StatusAnswered(i) PROVE RestTyped
    <3>1. stats[i] \in StatusCalls
      BY DEF AllTyped, CallsTyped
    <3>2. files' \subseteq Files
      BY <2>1, <3>1 DEF StatusAnswered, StatusCalls, AllTyped, PageTyped
    <3>3. undoable' \in 0 .. MaxCommits
      BY <2>1, <3>1, Nulls DEF StatusAnswered, StatusCalls, AllTyped, PageTyped
    <3>4. view' = view /\ revised' = revised /\ fresh' \in BOOLEAN
      BY <2>1 DEF StatusAnswered, AllTyped, PageTyped
    <3> QED
      BY <3>2, <3>3, <3>4 DEF AllTyped, PageTyped
  <2>2. CASE Take
    BY <2>2 DEF Take, AllTyped, PageTyped
  <2>3. CASE CallAnswered
    BY <2>3 DEF CallAnswered, AllTyped, PageTyped, CallsTyped, HandlerCalls
  <2>4. CASE Undo \/ UndoLastCommit \/ UndoAnswered
    BY <2>4, Nulls DEF Undo, UndoLastCommit, UndoAnswered, AllTyped, PageTyped, CallsTyped, UndoCalls
  <2>5. CASE \/ \E f \in Files, c \in Contents : EditOutside(f, c)
             \/ CommitElsewhere \/ RevisionEffect \/ SyncWithDisk
    BY <2>5 DEF EditOutside, CommitElsewhere, RevisionEffect, SyncWithDisk, FetchGitStatus, AllTyped, PageTyped
  <2>6. CASE \/ \E f \in Files : SelectFile(f) \/ ShowStash(f) \/ ShowCommit(f) \/ ToggleFileSelection(f)
             \/ ViewChanges \/ ViewHistory \/ SetDiffLines \/ Commit \/ Discard \/ UNCHANGED changeVars
    BY <2>6 DEF SelectFile, ShowStash, ShowCommit, ToggleFileSelection, ViewChanges, ViewHistory, SetDiffLines,
                Commit, Discard, SendSelected, Send, changeVars, AllTyped, PageTyped
  <2>7. CASE \E i \in Slots : StatusReads(i) \/ StatusFails(i) \/ LoadReads(i)
    BY <2>7 DEF StatusReads, StatusFails, LoadReads, AllTyped, PageTyped
  <2>8. ASSUME NEW i \in Slots, LoadAnswered(i) \/ CheckAnswered(i) PROVE RestTyped
    <3>1. fresh' \in BOOLEAN
      <4>1. CASE LoadAnswered(i)
        BY <4>1 DEF LoadAnswered, AllTyped, PageTyped
      <4>2. CASE CheckAnswered(i)
        BY <4>2, CheckEnds DEF AllTyped, PageTyped
      <4> QED
        BY <4>1, <4>2, <2>8
    <3>2. UNCHANGED <<view, files, revised, undoable>>
      BY <2>8 DEF LoadAnswered, CheckAnswered
    <3> QED
      BY <3>1, <3>2 DEF AllTyped, PageTyped
  <2> QED
    BY <2>1, <2>2, <2>3, <2>4, <2>5, <2>6, <2>7, <2>8 DEF ChangesNext
<1> QED
  BY <1>1, <1>2 DEF PageTyped

\* The choice of a step: each file keeps it or has it replaced by that of the whole file or of none of it,
\* unless lines are chosen.
SelLoosens ==
    /\ sel' \in [Files -> Selections]
    /\ \A f \in Files : sel'[f] = sel[f] \/ sel'[f].kind \in {"all", "none"}
    /\ picked \subseteq picked'

LEMMA SelSteps ==
    ASSUME AllTyped, [ChangesNext]_changeVars
    PROVE  SelLoosens \/ SetDiffLines
<1>1. ASSUME NEW i \in Slots, StatusAnswered(i) PROVE SelLoosens
  BY <1>1, Nulls DEF StatusAnswered, SelLoosens, AllTyped, ChoiceTyped
<1>2. ASSUME NEW i \in Slots, LoadAnswered(i) PROVE SelLoosens
  <2>1. sel' = sel \/ sel' = [sel EXCEPT ![loads[i].of] = All]
    BY <1>2 DEF LoadAnswered
  <2> QED
    BY <1>2, <2>1, Nulls DEF LoadAnswered, SelLoosens, AllTyped, ChoiceTyped
<1>3. ASSUME NEW f \in Files, ToggleFileSelection(f) PROVE SelLoosens
  BY <1>3, Nulls DEF ToggleFileSelection, Choose, SelLoosens, AllTyped, ChoiceTyped
<1>4. CASE CallAnswered
  <2>1. sel' = sel \/ \E fs : sel' = [f \in Files |-> IF f \in fs THEN All ELSE sel[f]]
    BY <1>4 DEF CallAnswered, Forget
  <2>2. picked' = picked
    BY <1>4 DEF CallAnswered
  <2> QED
    BY <2>1, <2>2, Nulls DEF SelLoosens, AllTyped, ChoiceTyped
<1>5. CASE \/ \E f \in Files, c \in Contents : EditOutside(f, c)
           \/ \E f \in Files : SelectFile(f) \/ ShowStash(f) \/ ShowCommit(f)
           \/ CommitElsewhere \/ RevisionEffect \/ SyncWithDisk \/ ViewChanges \/ ViewHistory
           \/ Commit \/ Discard \/ Take \/ Undo \/ UndoLastCommit \/ UndoAnswered \/ UNCHANGED changeVars
  <2>1. sel' = sel /\ picked \subseteq picked'
    BY <1>5 DEF EditOutside, SelectFile, ShowStash, ShowCommit, CommitElsewhere, RevisionEffect, SyncWithDisk,
       ViewChanges, ViewHistory, Commit, Discard, SendSelected, Send, Take, Undo, UndoLastCommit, UndoAnswered,
       changeVars, choice
  <2> QED
    BY <2>1 DEF SelLoosens, AllTyped, ChoiceTyped
<1>6. CASE \E i \in Slots : StatusReads(i) \/ StatusFails(i) \/ LoadReads(i) \/ CheckAnswered(i)
  <2>1. UNCHANGED <<sel, picked>>
    BY <1>6 DEF StatusReads, StatusFails, LoadReads, CheckAnswered, choice
  <2> QED
    BY <2>1 DEF SelLoosens, AllTyped, ChoiceTyped
<1> QED
  BY <1>1, <1>2, <1>3, <1>4, <1>5, <1>6 DEF ChangesNext

LEMMA ChoiceStaysTyped == ASSUME AllTyped, [ChangesNext]_changeVars PROVE ChoiceTyped'
<1>1. CASE SetDiffLines
  <2>1. shown.content \in Contents /\ selectedFile \in Files
    BY <1>1 DEF SetDiffLines, CanSelectLines, AllTyped, PageTyped
  <2> QED
    BY <1>1, <2>1, Nulls, PartialIs DEF SetDiffLines, Choose, AllTyped, ChoiceTyped
<1>2. CASE ~SetDiffLines
  <2>1. sel' \in [Files -> Selections]
    BY <1>2, SelSteps DEF SelLoosens
  <2>2. chosen' \in [Files -> Selections]
    <3>1. ASSUME NEW f \in Files, NEW c \in Contents, Void(f, c) = chosen' PROVE chosen' \in [Files -> Selections]
      BY <3>1, Nulls DEF Void, AllTyped, ChoiceTyped
    <3>2. ASSUME NEW f \in Files, ToggleFileSelection(f) PROVE chosen' \in [Files -> Selections]
      BY <3>2, Nulls DEF ToggleFileSelection, Choose, AllTyped, ChoiceTyped
    <3>3. CASE Take \/ CallAnswered
      <4>1. chosen' = chosen \/ \E fs : chosen' = [f \in Files |-> IF f \in fs THEN All ELSE chosen[f]]
        BY <3>3 DEF Take, CallAnswered, Forget
      <4> QED
        BY <4>1, Nulls DEF AllTyped, ChoiceTyped
    <3>4. CASE chosen' = chosen
      BY <3>4 DEF AllTyped, ChoiceTyped
    <3>5. \/ \E f \in Files, c \in Contents : EditOutside(f, c)
          \/ UndoLastCommit \/ Take \/ CallAnswered \/ (\E f \in Files : ToggleFileSelection(f)) \/ chosen' = chosen
      BY <1>2 DEF ChangesNext, SelectFile, ShowStash, ShowCommit, CommitElsewhere, RevisionEffect, SyncWithDisk,
       ViewChanges, ViewHistory, Commit, Discard, SendSelected, Send, Undo, UndoAnswered, changeVars, choice,
       StatusReads, StatusFails, StatusAnswered, LoadReads, LoadAnswered, CheckAnswered
    <3>7. ASSUME NEW f \in Files, NEW c \in Contents, EditOutside(f, c) PROVE chosen' = Void(f, c)
      BY <3>7 DEF EditOutside
    <3>8. ASSUME UndoLastCommit PROVE chosen' = chosen \/ \E f \in Files, c \in Contents : chosen' = Void(f, c)
      BY <3>8 DEF UndoLastCommit
    <3> QED
      BY <3>1, <3>2, <3>3, <3>4, <3>5, <3>7, <3>8
  <2>3. outrun' \subseteq Files
    <3>1. CASE UNCHANGED outrun \/ outrun' \subseteq outrun \/ \E g \in Files : outrun' = outrun \union {g}
      BY <3>1 DEF AllTyped, ChoiceTyped
    <3>2. ASSUME NEW i \in Slots, StatusAnswered(i) PROVE outrun' \subseteq Files
      BY <3>2 DEF StatusAnswered, AllTyped, ChoiceTyped
    <3>3. ASSUME NEW i \in Slots, LoadAnswered(i) PROVE outrun' \subseteq Files
      BY <3>3 DEF LoadAnswered, AllTyped, ChoiceTyped, CallsTyped
    <3>4. ASSUME NEW f \in Files, ToggleFileSelection(f) PROVE outrun' \subseteq Files
      BY <3>4 DEF ToggleFileSelection, Choose, AllTyped, ChoiceTyped
    <3>5. \/ \E i \in Slots : StatusAnswered(i) \/ LoadAnswered(i)
          \/ (\E f \in Files : ToggleFileSelection(f)) \/ outrun' = outrun
      BY <1>2 DEF ChangesNext, EditOutside, UndoLastCommit, Take, CallAnswered, SelectFile, ShowStash, ShowCommit,
       CommitElsewhere, RevisionEffect, SyncWithDisk, ViewChanges, ViewHistory, Commit, Discard, SendSelected, Send, Undo,
       UndoAnswered, changeVars, choice, StatusReads, StatusFails, LoadReads, CheckAnswered
    <3> QED
      BY <3>1, <3>2, <3>3, <3>4, <3>5
  <2> QED
    BY <2>1, <2>2, <2>3 DEF ChoiceTyped
<1> QED
  BY <1>1, <1>2

\* The calls of fetchGitStatus: a step leaves them, begins one, makes them stale, or is a step of one.
OneStatusMoves(i) ==
    /\ stats' \in [Slots -> StatusCalls] /\ (stats'[i].live => stats[i].live /\ stats'[i].at # "free")
    /\ \A j \in Slots : j # i => stats'[j] = stats[j]
LEMMA StatusMoves ==
    ASSUME AllTyped, NEW i \in Slots, StatusReads(i) \/ StatusFails(i) \/ StatusAnswered(i)
    PROVE  OneStatusMoves(i)
<1>0. Undoable \in 0 .. MaxCommits /\ Dirty \subseteq Files
  BY UndoableTyped DEF AllTyped, Dirty
<1> DEFINE d == Dirty
           u == Undoable
<1>1. \/ stats' = [stats EXCEPT ![i].files = d, ![i].gotFiles = TRUE] /\ stats[i].at # "free"
      \/ stats' = [stats EXCEPT ![i].undo = u, ![i].gotUndo = TRUE] /\ stats[i].at # "free"
      \/ stats' = [stats EXCEPT ![i].at = "failed", ![i].gotFiles = TRUE]
      \/ stats' = [stats EXCEPT ![i].at = "failed", ![i].gotUndo = TRUE]
      \/ stats' = [stats EXCEPT ![i] = NoStat]
  BY DEF StatusReads, StatusFails, StatusAnswered
<1>2. d \subseteq Files /\ u \in 0 .. MaxCommits
  BY <1>0
<1> HIDE DEF d, u
<1>3. CASE stats' = [stats EXCEPT ![i].files = d, ![i].gotFiles = TRUE] /\ stats[i].at # "free"
  BY <1>2, <1>3 DEF AllTyped, CallsTyped, StatusCalls, OneStatusMoves
<1>4. CASE stats' = [stats EXCEPT ![i].undo = u, ![i].gotUndo = TRUE] /\ stats[i].at # "free"
  BY <1>2, <1>4 DEF AllTyped, CallsTyped, StatusCalls, OneStatusMoves
<1>5. CASE stats' = [stats EXCEPT ![i].at = "failed", ![i].gotFiles = TRUE]
  <2> DEFINE failed == [stats[i] EXCEPT !.at = "failed", !.gotFiles = TRUE]
  <2>1. stats[i] \in StatusCalls /\ stats \in [Slots -> StatusCalls]
    BY DEF AllTyped, CallsTyped
  <2>2. failed \in StatusCalls /\ failed.live = stats[i].live /\ failed.at # "free"
    BY <2>1 DEF StatusCalls
  <2>3. stats' = [stats EXCEPT ![i] = failed]
    BY <1>5, <2>1 DEF StatusCalls
  <2> HIDE DEF failed
  <2> QED
    BY <2>1, <2>2, <2>3 DEF OneStatusMoves
<1>6. CASE stats' = [stats EXCEPT ![i].at = "failed", ![i].gotUndo = TRUE]
  <2> DEFINE failed == [stats[i] EXCEPT !.at = "failed", !.gotUndo = TRUE]
  <2>1. stats[i] \in StatusCalls /\ stats \in [Slots -> StatusCalls]
    BY DEF AllTyped, CallsTyped
  <2>2. failed \in StatusCalls /\ failed.live = stats[i].live /\ failed.at # "free"
    BY <2>1 DEF StatusCalls
  <2>3. stats' = [stats EXCEPT ![i] = failed]
    BY <1>6, <2>1 DEF StatusCalls
  <2> HIDE DEF failed
  <2> QED
    BY <2>1, <2>2, <2>3 DEF OneStatusMoves
<1>7. CASE stats' = [stats EXCEPT ![i] = NoStat]
  BY <1>7, Nulls DEF AllTyped, CallsTyped, OneStatusMoves
<1> QED
  BY <1>1, <1>3, <1>4, <1>5, <1>6, <1>7

StatStep ==
    \/ stats' = stats \/ stats' = Stale(stats) \/ FetchGitStatus
    \/ \E i \in Slots : StatusReads(i) \/ StatusFails(i) \/ StatusAnswered(i)

LEMMA StatSteps == ASSUME [ChangesNext]_changeVars PROVE StatStep
<1>1. CASE \/ \E f \in Files, c \in Contents : EditOutside(f, c)
           \/ \E f \in Files : SelectFile(f) \/ ShowStash(f) \/ ShowCommit(f) \/ ToggleFileSelection(f)
           \/ CommitElsewhere \/ ViewChanges \/ ViewHistory \/ SetDiffLines
           \/ Commit \/ Discard \/ Take \/ UndoLastCommit \/ UndoAnswered \/ UNCHANGED changeVars
  BY <1>1 DEF EditOutside, SelectFile, ShowStash, ShowCommit, ToggleFileSelection, CommitElsewhere, ViewChanges,
     ViewHistory, SetDiffLines, Commit, Discard, SendSelected, Send, Take, UndoLastCommit, UndoAnswered, changeVars, StatStep
<1>2. CASE RevisionEffect \/ SyncWithDisk \/ CallAnswered \/ Undo
  BY <1>2 DEF RevisionEffect, SyncWithDisk, CallAnswered, Undo, StatStep
<1>3. CASE \E i \in Slots : LoadReads(i) \/ LoadAnswered(i) \/ CheckAnswered(i)
  BY <1>3 DEF LoadReads, LoadAnswered, CheckAnswered, StatStep
<1>4. CASE \E i \in Slots : StatusReads(i) \/ StatusFails(i) \/ StatusAnswered(i)
  BY <1>4 DEF StatStep
<1> QED
  BY <1>1, <1>2, <1>3, <1>4 DEF ChangesNext

LEMMA StatsStayTyped == ASSUME AllTyped, [ChangesNext]_changeVars PROVE stats' \in [Slots -> StatusCalls]
<1>1. CASE stats' = stats
  BY <1>1 DEF AllTyped, CallsTyped
<1>2. CASE stats' = Stale(stats)
  BY <1>2, StaleAre DEF AllTyped, CallsTyped
<1>3. CASE FetchGitStatus
  BY <1>3, StatusIsAsked DEF AllTyped
<1>4. ASSUME NEW i \in Slots, StatusReads(i) \/ StatusFails(i) \/ StatusAnswered(i) PROVE stats' \in [Slots -> StatusCalls]
  BY <1>4, StatusMoves DEF OneStatusMoves
<1> QED
  BY <1>1, <1>2, <1>3, <1>4, StatSteps DEF StatStep

OfFiles == \A i \in Slots : (loads[i].at # "free" => loads[i].of \in Files) /\ (loads[i].kind = "check" => loads[i].from = "working")

LEMMA LoadsStayTyped ==
    ASSUME AllTyped, [ChangesNext]_changeVars
    PROVE  loads' \in [Slots -> LoadCalls] /\ OfFiles'
<1>0. OfFiles /\ loads \in [Slots -> LoadCalls]
  BY DEF AllTyped, CallsTyped, OfFiles
<1>1. CASE UNCHANGED diffs
  BY <1>0, <1>1 DEF diffs, OfFiles
<1>2. CASE LoadStarts
  <2>1. PICK f \in Files, from \in Sources, k \in Slots : Begun(k, f, from)
    BY <1>2, LoadBegins DEF LoadStarts, AllTyped
  <2> QED
    BY <1>0, <2>1 DEF Begun, OfFiles
<1>3. CASE Emptied
  BY <1>0, <1>3, SupersededAre DEF Emptied, OfFiles
<1>4. CASE CheckStarts
  <2>1. PICK k \in Slots : CheckBegun(k)
    BY <1>4, CheckBegins DEF AllTyped
  <2> QED
    BY <1>0, <1>4, <2>1 DEF CheckBegun, OfFiles, CheckStarts
<1>5. ASSUME NEW i \in Slots, LoadReads(i) PROVE loads' \in [Slots -> LoadCalls] /\ OfFiles'
  <2>1. HasRead(i)
    BY <1>5, LoadHasRead DEF AllTyped
  <2> QED
    BY <1>0, <2>1 DEF HasRead, OfFiles
<1>6. ASSUME NEW i \in Slots, LoadAnswered(i) PROVE loads' \in [Slots -> LoadCalls] /\ OfFiles'
  <2>1. Freed(i)
    BY <1>6, LoadIsFreed DEF AllTyped
  <2> QED
    BY <1>0, <2>1 DEF Freed, OfFiles
<1>7. ASSUME NEW i \in Slots, CheckAnswered(i) PROVE loads' \in [Slots -> LoadCalls] /\ OfFiles'
  <2>1. CASE Current(i) /\ Begun(i, selectedFile, "working")
    <3>1. selectedFile \in Files
      BY <1>0, <2>1 DEF Current, OfFiles
    <3> QED
      BY <1>0, <2>1, <3>1 DEF Begun, OfFiles
  <2>2. CASE Freed(i)
    BY <1>0, <2>2 DEF Freed, OfFiles
  <2> QED
    BY <1>7, <2>1, <2>2, CheckEnds DEF AllTyped
<1> QED
  BY <1>1, <1>2, <1>3, <1>4, <1>5, <1>6, <1>7, DiffSteps DEF DiffStep

\* What a commit or a discard is asked to take are choices of files.
LEMMA SentTyped ==
    ASSUME CallsTyped, NEW what \in {"commit", "discard"}, NEW req \in Requests, Send(what, req)
    PROVE  call' \in HandlerCalls /\ call'.what = what /\ call'.req = req /\ call'.at = "sent"
<1>1. NoCall \in HandlerCalls
  BY Nulls
<1> QED
  BY <1>1 DEF Send, HandlerCalls

LEMMA RequestsAre ==
    ASSUME AllTyped
    PROVE  /\ SelectedRequests \in Requests
           /\ \A S \in SUBSET files, s \in Selections : [g \in S |-> s] \in Requests
<1>1. {g \in files : sel[g].kind # "none"} \in SUBSET Files
  BY DEF AllTyped, PageTyped
<1>2. SelectedRequests \in [{g \in files : sel[g].kind # "none"} -> Selections]
  BY <1>1 DEF SelectedRequests, AllTyped, ChoiceTyped
<1>3. SelectedRequests \in Requests
  BY <1>1, <1>2 DEF Requests
<1>4. ASSUME NEW S \in SUBSET files, NEW s \in Selections PROVE [g \in S |-> s] \in Requests
  <2>1. S \in SUBSET Files /\ [g \in S |-> s] \in [S -> Selections]
    BY DEF AllTyped, PageTyped
  <2> QED
    BY <2>1 DEF Requests
<1> QED
  BY <1>3, <1>4

LEMMA CallStaysTyped ==
    ASSUME AllTyped, [ChangesNext]_changeVars
    PROVE  call' \in HandlerCalls /\ undo' \in UndoCalls
<1>0. call \in HandlerCalls /\ undo \in UndoCalls
  BY DEF AllTyped, CallsTyped
<1>1. CASE Commit
  BY <1>0, <1>1, SentTyped, RequestsAre DEF Commit, SendSelected, Send, AllTyped
<1>2. CASE Discard
  <2>1. undo' = undo
    BY <1>2 DEF Discard, SendSelected, Send
  <2>2. CASE Send("discard", SelectedRequests)
    BY <1>0, <2>1, <2>2, SentTyped, RequestsAre DEF AllTyped
  <2>3. ASSUME NEW S \in SUBSET files, Send("discard", [g \in S |-> All]) PROVE call' \in HandlerCalls
    <3>1. [g \in S |-> All] \in Requests
      BY RequestsAre, Nulls
    <3> QED
      BY <2>3, <3>1, SentTyped DEF AllTyped
  <2>4. ASSUME selectedFile \in files, Send("discard", [g \in {selectedFile} |-> Partial(shown.content)])
        PROVE  call' \in HandlerCalls
    <3>1. Partial(shown.content) \in Selections
      BY PartialIs DEF AllTyped, PageTyped
    <3>2. [g \in {selectedFile} |-> Partial(shown.content)] \in Requests
      BY <2>4, <3>1, RequestsAre
    <3> QED
      BY <2>4, <3>2, SentTyped DEF AllTyped
  <2> QED
    BY <1>0, <1>2, <2>1, <2>2, <2>3, <2>4 DEF Discard, SendSelected
<1>3. CASE Take
  <2>1. numbered < MaxCommits => numbered + 1 \in 0 .. MaxCommits
    BY ChangesAssumption DEF AllTyped, RepoTyped
  <2>2. call' = [call EXCEPT !.at = "done"] \/ call' = [call EXCEPT !.at = "failed"]
        \/ (numbered < MaxCommits /\ call' = [call EXCEPT !.at = "done", !.id = numbered + 1])
    BY <1>3 DEF Take
  <2>3. undo' = undo
    BY <1>3 DEF Take
  <2> QED
    BY <1>0, <2>1, <2>2, <2>3 DEF HandlerCalls
<1>4. CASE CallAnswered
  BY <1>0, <1>4, Nulls DEF CallAnswered
<1>5. CASE Undo
  <2>1. NoUndo \in UndoCalls
    BY Nulls
  <2> QED
    BY <1>0, <1>5, <2>1 DEF Undo, UndoCalls, AllTyped, PageTyped
<1>6. CASE UndoLastCommit
  BY <1>0, <1>6 DEF UndoLastCommit, UndoCalls
<1>7. CASE UndoAnswered
  BY <1>0, <1>7, Nulls DEF UndoAnswered
<1>8. CASE UNCHANGED <<call, undo>>
  BY <1>0, <1>8
<1> QED
  BY <1>1, <1>2, <1>3, <1>4, <1>5, <1>6, <1>7, <1>8 DEF ChangesNext, EditOutside, SelectFile, ShowStash, ShowCommit,
     ToggleFileSelection, CommitElsewhere, RevisionEffect, SyncWithDisk, ViewChanges, ViewHistory, SetDiffLines,
     StatusReads, StatusFails, StatusAnswered, LoadReads, LoadAnswered, CheckAnswered, changeVars

LEMMA NextTyped == AllTyped /\ [ChangesNext]_changeVars => AllTyped'
<1> SUFFICES ASSUME AllTyped, [ChangesNext]_changeVars PROVE AllTyped'
  OBVIOUS
<1>1. CallsTyped'
  BY StatsStayTyped, LoadsStayTyped, CallStaysTyped DEF CallsTyped, OfFiles
<1> QED
  BY <1>1, RepoStaysTyped, PageStaysTyped, ChoiceStaysTyped DEF AllTyped

-----------------------------------------------------------------------------
(***************************************************************************)
(* The diff.  A load whose answer counts is the only one, is of the file   *)
(* that is open, and shows as loading; a file that is open is in the list; *)
(* what is shown when nothing loads is of that file, and lines that are    *)
(* chosen are lines of it.                                                 *)
(***************************************************************************)
LiveLoads ==
    /\ \A i \in Slots : loads[i].live =>
         /\ loads[i].kind = "load" /\ loads[i].at # "free" /\ loadingDiff
         /\ selectedFile # NoFile => loads[i].of = selectedFile /\ loads[i].from = source
    /\ \A i, j \in Slots : loads[i].live /\ loads[j].live => i = j
    /\ loadingDiff /\ selectedFile # NoFile => \E i \in Slots : loads[i].live
OpenFile ==
    /\ view = "history" => selectedFile = NoFile \/ source # "working"
    /\ source = "working" /\ selectedFile # NoFile => selectedFile \in files
AtRest == source = "working" /\ ~loadingDiff /\ selectedFile # NoFile /\ shown.of # NoFile
DiffShown ==
    AtRest =>
      /\ shown.of = selectedFile
      /\ sel[selectedFile].kind = "partial" => sel[selectedFile].hash = shown.content
PickedOnDiffs ==
    /\ \A f \in Files : sel[f].kind = "partial" => <<f, sel[f].hash>> \in picked
    /\ \A f \in DOMAIN call.req : call.req[f].kind = "partial" => <<f, call.req[f].hash>> \in picked

(***************************************************************************)
(* Choices.  One that stands is of a changed file in the list, and is the  *)
(* one the page has; a load whose answer counts does not undo it.          *)
(***************************************************************************)
ChoicesStand ==
    \A f \in Files : chosen[f].kind # "all" =>
      /\ disk[f] # 0
      /\ chosen[f].kind = "partial" => chosen[f].hash = disk[f]
      /\ f \notin outrun => f \in files /\ sel[f] = chosen[f]
LoadsSpare ==
    \A i \in Slots : /\ loads[i].live /\ loads[i].at = "answered" /\ loads[i].from = "working"
                     /\ chosen[loads[i].of].kind = "partial"
                     => loads[i].content = disk[loads[i].of]

(***************************************************************************)
(* Refreshes.  One status request counts; once it is answered the list is  *)
(* that of the repository, and the diff is, or a call under way makes it   *)
(* so (Due).                                                               *)
(***************************************************************************)
LiveStats ==
    /\ \A i \in Slots : stats[i].live => stats[i].at # "free"
    /\ \A i, j \in Slots : stats[i].live /\ stats[j].live => i = j
    /\ undo.at # "idle" => undo.named # NoCommit
Looking == revised \/ \E i \in Slots : stats[i].live
Present(i) == loads[i].at \in {"asked", "failed"} \/ (loads[i].at = "answered" /\ loads[i].content = disk[loads[i].of])
WillShow(i) == Present(i) /\ (loads[i].live \/ (loads[i].kind = "check" /\ loads[i].of = selectedFile))
ShowsFile == shown = [of |-> selectedFile, content |-> disk[selectedFile]] /\ \A i \in Slots : ~loads[i].live
Due == ShowsFile \/ \E i \in Slots : WillShow(i)
OnFile == view = "changes" /\ source = "working" /\ selectedFile # NoFile
AnswersFresh ==
    fresh => \A i \in Slots : stats[i].live /\ stats[i].at = "asked" =>
               /\ stats[i].gotFiles => stats[i].files = Dirty
               /\ stats[i].gotUndo => stats[i].undo = Undoable
ListFresh ==
    fresh /\ ~Looking =>
      /\ files = Dirty
      /\ undoable = Undoable \/ (undo.at # "idle" /\ undoable = NoCommit)
DiffFresh == fresh /\ ~Looking /\ OnFile => Due

ChangesInv ==
    /\ AllTyped /\ LiveLoads /\ OpenFile /\ DiffShown /\ PickedOnDiffs
    /\ ChoicesStand /\ LoadsSpare /\ LiveStats /\ AnswersFresh /\ ListFresh /\ DiffFresh

LEMMA LiveLoadsSafe == ASSUME AllTyped, LiveLoads, [ChangesNext]_changeVars PROVE LiveLoads'
<1>1. CASE UNCHANGED diffs
  BY <1>1 DEF diffs, LiveLoads
<1>2. CASE LoadStarts
  <2>1. PICK f \in Files, from \in Sources : LoadDiff(f, from)
    BY <1>2 DEF LoadStarts
  <2>2. PICK k \in Slots : Begun(k, f, from)
    BY <2>1, LoadBegins DEF AllTyped
  <2>3. loadingDiff' = TRUE /\ selectedFile' = f /\ source' = from
    BY <2>1 DEF LoadDiff
  <2> QED
    BY <2>2, <2>3 DEF Begun, LiveLoads
<1>3. CASE Emptied
  <2>1. \A i \in Slots : loads'[i].live => loads[i].live /\ loads'[i].kind = loads[i].kind /\ loads'[i].at = loads[i].at
    BY <1>3, SupersededAre DEF Emptied, AllTyped, CallsTyped
  <2> QED
    BY <1>3, <2>1 DEF Emptied, LiveLoads
<1>4. CASE CheckStarts
  <2>1. PICK k \in Slots : CheckBegun(k)
    BY <1>4, CheckBegins DEF AllTyped
  <2>2. ~loads[k].live
    BY <2>1 DEF CheckBegun, LiveLoads
  <2> QED
    BY <1>4, <2>1, <2>2 DEF CheckBegun, CheckStarts, LiveLoads
<1>5. ASSUME NEW i \in Slots, LoadReads(i) PROVE LiveLoads'
  <2>1. HasRead(i)
    BY <1>5, LoadHasRead DEF AllTyped
  <2>2. UNCHANGED <<selectedFile, source, loadingDiff>>
    BY <1>5 DEF LoadReads
  <2> QED
    BY <2>1, <2>2 DEF HasRead, LiveLoads
<1>6. ASSUME NEW i \in Slots, LoadAnswered(i) PROVE LiveLoads'
  <2>1. Freed(i)
    BY <1>6, LoadIsFreed DEF AllTyped
  <2>2. UNCHANGED <<selectedFile, source>> /\ IF loads[i].live THEN ~loadingDiff' ELSE loadingDiff' = loadingDiff
    BY <1>6 DEF LoadAnswered
  <2> QED
    BY <2>1, <2>2 DEF Freed, LiveLoads
<1>7. ASSUME NEW i \in Slots, CheckAnswered(i) PROVE LiveLoads'
  <2>0. ~loads[i].live /\ UNCHANGED <<selectedFile, source>>
    BY <1>7, CheckEnds DEF LiveLoads, AllTyped
  <2>1. CASE Current(i) /\ Begun(i, selectedFile, "working") /\ loadingDiff' = TRUE
    BY <2>0, <2>1 DEF Current, Begun, LiveLoads
  <2>2. CASE Freed(i) /\ loadingDiff' = loadingDiff
    BY <2>0, <2>2 DEF Freed, LiveLoads
  <2> QED
    BY <1>7, <2>1, <2>2, CheckEnds DEF AllTyped
<1> QED
  BY <1>1, <1>2, <1>3, <1>4, <1>5, <1>6, <1>7, DiffSteps DEF DiffStep

LEMMA OpenFileSafe == ASSUME AllTyped, OpenFile, [ChangesNext]_changeVars PROVE OpenFile'
<1>1. ASSUME NEW i \in Slots, StatusAnswered(i) PROVE OpenFile'
  <2>0. view' = view
    BY <1>1 DEF StatusAnswered
  <2>1. CASE UNCHANGED <<files, selectedFile, source>>
    BY <2>0, <2>1 DEF OpenFile
  <2>2. CASE stats[i].live /\ files' = Got(i) /\ ShowFirst(Got(i))
    <3>1. CASE view # "changes" \/ source = "stash"
      <4>1. selectedFile' = selectedFile /\ source' = source
        BY <2>2, <3>1 DEF ShowFirst, diffs
      <4> QED
        BY <2>0, <3>1, <4>1 DEF OpenFile, AllTyped, PageTyped
    <3>2. CASE ~(view # "changes" \/ source = "stash") /\ Got(i) = {}
      BY <2>0, <2>2, <3>2 DEF ShowFirst, OpenFile
    <3>3. CASE ~(view # "changes" \/ source = "stash") /\ Got(i) # {}
      <4>1. selectedFile' \in Got(i)
        BY <2>2, <3>3 DEF ShowFirst, LoadDiff
      <4> QED
        BY <2>0, <2>2, <3>3, <4>1 DEF OpenFile
    <3> QED
      BY <3>1, <3>2, <3>3
  <2>3. CASE stats[i].live /\ files' = Got(i) /\ Got(i) = files /\ UNCHANGED <<selectedFile, source>>
    BY <2>0, <2>3 DEF OpenFile
  <2> QED
    BY <1>1, <2>1, <2>2, <2>3 DEF StatusAnswered, Got
<1>2. ASSUME NEW f \in Files, SelectFile(f) \/ ShowStash(f) \/ ShowCommit(f) PROVE OpenFile'
  BY <1>2 DEF SelectFile, ShowStash, ShowCommit, LoadDiff, OpenFile
<1>3. CASE ViewChanges
  BY <1>3 DEF ViewChanges, LoadDiff, OpenFile
<1>4. CASE ViewHistory
  BY <1>4 DEF ViewHistory, OpenFile
<1>5. CASE UndoAnswered
  BY <1>5 DEF UndoAnswered, diffs, OpenFile
<1>6. ASSUME NEW i \in Slots, CheckAnswered(i) PROVE OpenFile'
  BY <1>6 DEF CheckAnswered, OpenFile
<1>7. CASE UNCHANGED <<view, files, selectedFile, source>>
  BY <1>7 DEF OpenFile
<1>8. CASE \/ \E f \in Files, c \in Contents : EditOutside(f, c)
           \/ \E f \in Files : ToggleFileSelection(f)
           \/ CommitElsewhere \/ RevisionEffect \/ SyncWithDisk \/ SetDiffLines
           \/ Commit \/ Discard \/ Take \/ CallAnswered \/ Undo \/ UndoLastCommit \/ UNCHANGED changeVars
           \/ \E i \in Slots : StatusReads(i) \/ StatusFails(i) \/ LoadReads(i) \/ LoadAnswered(i)
  <2>1. UNCHANGED <<view, files, selectedFile, source>>
    BY <1>8 DEF EditOutside, ToggleFileSelection, CommitElsewhere, RevisionEffect, SyncWithDisk, SetDiffLines,
       Commit, Discard, SendSelected, Send, Take, CallAnswered, Undo, UndoLastCommit, changeVars,
       StatusReads, StatusFails, LoadReads, LoadAnswered, diffs
  <2> QED
    BY <2>1, <1>7
<1> QED
  BY <1>1, <1>2, <1>3, <1>4, <1>5, <1>6, <1>8 DEF ChangesNext

\* Steps that pick no lines keep what is shown that of the open file.
LEMMA DiffShownSafe == ASSUME AllTyped, LiveLoads, DiffShown, [ChangesNext]_changeVars PROVE DiffShown'
<1>1. CASE SetDiffLines
  <2>1. UNCHANGED diffs /\ sel' = [sel EXCEPT ![selectedFile] = Partial(shown.content)] /\ selectedFile \in Files
    BY <1>1 DEF SetDiffLines, Choose, CanSelectLines, AllTyped, PageTyped
  <2>2. sel'[selectedFile].hash = shown.content
    BY <2>1, PartialIs DEF AllTyped, PageTyped, ChoiceTyped
  <2> QED
    BY <2>1, <2>2 DEF diffs, DiffShown, AtRest
<1>2. CASE ~SetDiffLines
  <2> SUFFICES ASSUME AtRest'
               PROVE  shown'.of = selectedFile' /\ (sel'[selectedFile'].kind = "partial" => sel'[selectedFile'].hash = shown'.content)
    BY DEF DiffShown
  <2>0. SelLoosens /\ selectedFile' \in Files
    BY <1>2, SelSteps, NextTyped DEF AtRest, AllTyped, PageTyped
  <2>1. CASE UNCHANGED <<selectedFile, source, shown, loadingDiff>>
    BY <2>0, <2>1 DEF SelLoosens, DiffShown, AtRest
  <2>2. CASE LoadStarts \/ Emptied
    BY <2>2 DEF LoadStarts, LoadDiff, Emptied, AtRest
  <2>3. ASSUME NEW i \in Slots, LoadAnswered(i), loads[i].live
        PROVE  shown'.of = selectedFile' /\ (sel'[selectedFile'].kind = "partial" => sel'[selectedFile'].hash = shown'.content)
    <3>1. selectedFile' = selectedFile /\ source' = source /\ loads[i].of = selectedFile /\ loads[i].from = "working"
      BY <2>3 DEF LoadAnswered, LiveLoads, AtRest
    <3>2. loads[i].at = "answered"
      BY <2>3, Nulls DEF LoadAnswered, AtRest
    <3>3. shown' = [of |-> selectedFile, content |-> loads[i].content]
      BY <2>3, <3>1, <3>2 DEF LoadAnswered
    <3>4. sel' = IF StillOf(sel[selectedFile], loads[i].content) THEN sel ELSE [sel EXCEPT ![selectedFile] = All]
      BY <2>3, <3>1, <3>2 DEF LoadAnswered
    <3> QED
      BY <2>0, <3>1, <3>3, <3>4, Nulls DEF StillOf, AllTyped, ChoiceTyped
  <2>4. ASSUME NEW i \in Slots, CheckAnswered(i)
        PROVE  shown'.of = selectedFile' /\ (sel'[selectedFile'].kind = "partial" => sel'[selectedFile'].hash = shown'.content)
    <3>1. UNCHANGED <<selectedFile, source, shown, loadingDiff>>
      BY <2>4, CheckEnds DEF AtRest, AllTyped
    <3> QED
      BY <3>1, <2>1
  <2>5. CASE UNCHANGED diffs \/ CheckStarts \/ \E i \in Slots : LoadReads(i) \/ (LoadAnswered(i) /\ ~loads[i].live)
    <3>1. UNCHANGED <<selectedFile, source, shown, loadingDiff>>
      BY <2>5 DEF diffs, CheckStarts, LoadReads, LoadAnswered
    <3> QED
      BY <3>1, <2>1
  <2> QED
    BY <2>2, <2>3, <2>4, <2>5, DiffSteps DEF DiffStep
<1> QED
  BY <1>1, <1>2

LEMMA PickedSafe == ASSUME AllTyped, DiffShown, PickedOnDiffs, [ChangesNext]_changeVars PROVE PickedOnDiffs'
<1> DEFINE RequestPicked ==
             \A f \in DOMAIN call'.req : call'.req[f].kind = "partial" => <<f, call'.req[f].hash>> \in picked'
           SelPicked == \A f \in Files : sel'[f].kind = "partial" => <<f, sel'[f].hash>> \in picked'
<1>1. picked \subseteq picked'
  BY SelSteps DEF SelLoosens, SetDiffLines
<1>2. SelPicked
  <2>1. CASE SetDiffLines
    <3>1. /\ picked' = picked \union {<<shown.of, shown.content>>} /\ selectedFile \in Files
          /\ sel' = [sel EXCEPT ![selectedFile] = Partial(shown.content)]
          /\ shown.of = selectedFile
      BY <2>1 DEF SetDiffLines, CanSelectLines, Choose, DiffShown, AtRest, AllTyped, PageTyped
    <3>2. Partial(shown.content).hash = shown.content
      BY PartialIs DEF AllTyped, PageTyped
    <3> QED
      BY <3>1, <3>2 DEF PickedOnDiffs, AllTyped, ChoiceTyped
  <2>2. CASE SelLoosens
    BY <2>2 DEF SelLoosens, PickedOnDiffs
  <2> QED
    BY <2>1, <2>2, SelSteps
<1>3. RequestPicked
  <2>1. ASSUME NEW what \in {"commit", "discard"}, SendSelected(what) PROVE RequestPicked
    <3>1. call'.req = SelectedRequests /\ picked' = picked
      BY <2>1, RequestsAre, SentTyped DEF SendSelected, AllTyped
    <3>2. \A f \in DOMAIN SelectedRequests : f \in Files /\ SelectedRequests[f] = sel[f]
      BY DEF SelectedRequests, AllTyped, PageTyped
    <3> QED
      BY <3>1, <3>2 DEF PickedOnDiffs
  <2>2. CASE Discard
    <3>1. ASSUME NEW S \in SUBSET files, Send("discard", [g \in S |-> All]) PROVE RequestPicked
      <4>1. [g \in S |-> All] \in Requests
        BY RequestsAre, Nulls
      <4>2. call'.req = [g \in S |-> All]
        BY <3>1, <4>1, SentTyped DEF AllTyped
      <4> QED
        BY <4>2, Nulls
    <3>2. ASSUME CanSelectLines, selectedFile \in files, Send("discard", [g \in {selectedFile} |-> Partial(shown.content)]),
                 picked' = picked \union {<<shown.of, shown.content>>}
          PROVE  RequestPicked
      <4>1. Partial(shown.content) \in Selections /\ Partial(shown.content).hash = shown.content
        BY PartialIs DEF AllTyped, PageTyped
      <4>2. [g \in {selectedFile} |-> Partial(shown.content)] \in Requests
        BY <3>2, <4>1, RequestsAre
      <4>3. call'.req = [g \in {selectedFile} |-> Partial(shown.content)]
        BY <3>2, <4>2, SentTyped DEF AllTyped
      <4>4. shown.of = selectedFile
        BY <3>2 DEF CanSelectLines, DiffShown, AtRest
      <4> QED
        BY <3>2, <4>1, <4>3, <4>4
    <3> QED
      BY <2>1, <2>2, <3>1, <3>2 DEF Discard
  <2>3. CASE Take
    <3>1. call'.what = call.what /\ call'.req = call.req
      BY <2>3 DEF Take, AllTyped, CallsTyped, HandlerCalls
    <3> QED
      BY <1>1, <3>1 DEF PickedOnDiffs
  <2>4. CASE CallAnswered
    <3>1. DOMAIN call'.req = {}
      BY <2>4, Nulls DEF CallAnswered
    <3> QED
      BY <3>1
  <2>5. CASE call' = call
    BY <1>1, <2>5 DEF PickedOnDiffs
  <2>6. Commit \/ Discard \/ Take \/ CallAnswered \/ call' = call
    BY DEF ChangesNext, EditOutside, SelectFile, ShowStash, ShowCommit,
     ToggleFileSelection, CommitElsewhere, RevisionEffect, SyncWithDisk, ViewChanges, ViewHistory, SetDiffLines,
     StatusReads, StatusFails, StatusAnswered, LoadReads, LoadAnswered, CheckAnswered, Undo, UndoLastCommit,
     UndoAnswered, changeVars
  <2> QED
    BY <2>1, <2>2, <2>3, <2>4, <2>5, <2>6 DEF Commit
<1> QED
  BY <1>2, <1>3 DEF PickedOnDiffs

-----------------------------------------------------------------------------
\* A file whose content another comes to have: its choice stands no longer if it named lines, or the file is as in HEAD.
LEMMA VoidKeeps ==
    ASSUME AllTyped, ChoicesStand, NEW f \in Files, NEW c \in Contents,
           disk' = [disk EXCEPT ![f] = c], chosen' = Void(f, c), UNCHANGED <<files, sel, outrun>>
    PROVE  ChoicesStand'
<1>1. CASE c # disk[f] /\ (c = 0 \/ chosen[f].kind = "partial")
  <2>1. chosen' = [chosen EXCEPT ![f] = All]
    BY <1>1 DEF Void
  <2> QED
    BY <2>1, Nulls DEF ChoicesStand, AllTyped, RepoTyped, ChoiceTyped
<1>2. CASE ~(c # disk[f] /\ (c = 0 \/ chosen[f].kind = "partial"))
  <2>1. chosen' = chosen
    BY <1>2 DEF Void
  <2> QED
    BY <1>2, <2>1 DEF ChoicesStand, AllTyped, RepoTyped, ChoiceTyped
<1> QED
  BY <1>1, <1>2

\* A choice made now stands if it is one of what the file has now.
LEMMA ChoiceMade ==
    ASSUME AllTyped, ChoicesStand, NEW f \in files, NEW s \in Selections, Choose(f, s), UNCHANGED <<disk, files>>
    PROVE  ChoicesStand'
<1> DEFINE c == IF disk[f] = 0 \/ (s.kind = "partial" /\ s.hash # disk[f]) THEN All ELSE s
<1>0. f \in Files
  BY DEF AllTyped, PageTyped
<1>1. sel' = [sel EXCEPT ![f] = s] /\ chosen' = [chosen EXCEPT ![f] = c] /\ outrun' = outrun \ {f}
  BY DEF Choose
<1>2. c.kind # "all" => c = s /\ disk[f] # 0 /\ (s.kind = "partial" => s.hash = disk[f])
  BY Nulls
<1> HIDE DEF c
<1> QED
  BY <1>0, <1>1, <1>2 DEF ChoicesStand, AllTyped, ChoiceTyped

LEMMA ChoicesStandSafe ==
    ASSUME ChangesInv, [ChangesNext]_changeVars
    PROVE  ChoicesStand'
<1>0. AllTyped /\ ChoicesStand
  BY DEF ChangesInv
<1>1. ASSUME NEW f \in Files, NEW c \in Contents, EditOutside(f, c) PROVE ChoicesStand'
  BY <1>0, <1>1, VoidKeeps DEF EditOutside
<1>2. CASE UndoLastCommit
  <2>1. CASE UNCHANGED <<disk, chosen>>
    BY <1>0, <1>2, <2>1 DEF UndoLastCommit, ChoicesStand
  <2>2. ASSUME NEW f \in Files, NEW c \in Contents, disk' = [disk EXCEPT ![f] = c], chosen' = Void(f, c)
        PROVE  ChoicesStand'
    BY <1>0, <1>2, <2>2, VoidKeeps DEF UndoLastCommit
  <2> QED
    BY <1>2, <2>1, <2>2 DEF UndoLastCommit
<1>3. ASSUME NEW i \in Slots, StatusAnswered(i) PROVE ChoicesStand'
  <2>1. UNCHANGED <<disk, chosen>>
    BY <1>3 DEF StatusAnswered, repo
  <2>2. CASE UNCHANGED <<files, sel, outrun>>
    BY <1>0, <2>1, <2>2 DEF ChoicesStand
  <2>3. CASE /\ files' = Got(i) /\ sel' = [f \in Files |-> IF KeptIn(f, Got(i)) THEN sel[f] ELSE All]
             /\ outrun' = outrun \union {f \in Files \ Got(i) : chosen[f].kind # "all"}
    BY <1>0, <2>1, <2>3 DEF ChoicesStand, KeptIn
  <2> QED
    BY <1>3, <2>2, <2>3 DEF StatusAnswered, Got
<1>4. ASSUME NEW i \in Slots, LoadAnswered(i) PROVE ChoicesStand'
  <2>1. UNCHANGED <<disk, chosen, files>> /\ outrun \subseteq outrun'
    BY <1>4 DEF LoadAnswered, repo
  <2>2. CASE sel' = sel
    BY <1>0, <2>1, <2>2 DEF ChoicesStand
  <2>3. CASE /\ loads[i].at = "answered" /\ loads[i].from = "working" /\ ~StillOf(sel[loads[i].of], loads[i].content)
             /\ sel' = [sel EXCEPT ![loads[i].of] = All]
    <3> DEFINE f == loads[i].of
    <3>0. f \in Files
      BY <1>0, <2>3 DEF AllTyped, CallsTyped
    <3>1. CASE ~loads[i].live
      <4>1. f \in outrun'
        BY <1>4, <2>3, <3>1 DEF LoadAnswered
      <4> QED
        BY <1>0, <2>1, <2>3, <3>0, <4>1 DEF ChoicesStand, AllTyped, ChoiceTyped
    <3>2. CASE loads[i].live
      <4>1. sel[f].kind = "partial" /\ sel[f].hash # loads[i].content
        BY <2>3 DEF StillOf
      <4>2. ASSUME chosen[f].kind # "all", f \notin outrun PROVE FALSE
        <5>1. sel[f] = chosen[f] /\ chosen[f].kind = "partial" /\ chosen[f].hash = disk[f]
          BY <1>0, <3>0, <4>1, <4>2 DEF ChoicesStand
        <5>2. loads[i].content = disk[f]
          BY <2>3, <3>2, <5>1 DEF ChangesInv, LoadsSpare
        <5> QED
          BY <4>1, <5>1, <5>2
      <4> QED
        BY <1>0, <2>1, <2>3, <3>0, <4>2 DEF ChoicesStand, AllTyped, ChoiceTyped
    <3> QED
      BY <3>1, <3>2
  <2> QED
    BY <1>4, <2>2, <2>3 DEF LoadAnswered
<1>5. ASSUME NEW f \in Files, ToggleFileSelection(f) PROVE ChoicesStand'
  BY <1>0, <1>5, ChoiceMade, Nulls DEF ToggleFileSelection, repo
<1>6. CASE SetDiffLines
  <2>1. selectedFile \in files
    BY <1>6 DEF SetDiffLines, CanSelectLines, ChangesInv, OpenFile
  <2>2. Partial(shown.content) \in Selections
    BY <1>0, PartialIs DEF AllTyped, PageTyped
  <2> QED
    BY <1>0, <1>6, <2>1, <2>2, ChoiceMade DEF SetDiffLines, repo
<1>7. CASE Take
  <2>1. UNCHANGED <<files, sel, outrun>>
    BY <1>7 DEF Take
  <2>2. CASE UNCHANGED <<disk, chosen>>
    BY <1>0, <2>1, <2>2 DEF ChoicesStand
  <2>3. CASE \E rest : /\ disk' = [f \in Files |-> IF f \in DOMAIN call.req THEN rest[f] ELSE disk[f]]
                       /\ chosen' = [f \in Files |-> IF f \in DOMAIN call.req THEN All ELSE chosen[f]]
    BY <1>0, <2>1, <2>3, Nulls DEF ChoicesStand
  <2> QED
    BY <1>7, <2>2, <2>3 DEF Take
<1>8. CASE CallAnswered
  <2>1. UNCHANGED <<files, disk, outrun>>
    BY <1>8 DEF CallAnswered, repo
  <2>2. CASE UNCHANGED <<sel, chosen>>
    BY <1>0, <2>1, <2>2 DEF ChoicesStand
  <2>3. CASE \E fs : Forget(fs)
    BY <1>0, <2>1, <2>3, Nulls DEF Forget, ChoicesStand
  <2> QED
    BY <1>8, <2>2, <2>3 DEF CallAnswered
<1>9. CASE UNCHANGED <<disk, files, sel, chosen, outrun>>
  BY <1>0, <1>9 DEF ChoicesStand
<1>10. CASE \/ \E f \in Files : SelectFile(f) \/ ShowStash(f) \/ ShowCommit(f)
            \/ CommitElsewhere \/ RevisionEffect \/ SyncWithDisk \/ ViewChanges \/ ViewHistory
            \/ Commit \/ Discard \/ Undo \/ UndoAnswered \/ UNCHANGED changeVars
            \/ \E i \in Slots : StatusReads(i) \/ StatusFails(i) \/ LoadReads(i) \/ CheckAnswered(i)
  <2>1. UNCHANGED <<disk, files, sel, chosen, outrun>>
    BY <1>10 DEF SelectFile, ShowStash, ShowCommit, CommitElsewhere, RevisionEffect, SyncWithDisk, ViewChanges,
       ViewHistory, Commit, Discard, SendSelected, Send, Undo, UndoAnswered, changeVars, choice, repo,
       StatusReads, StatusFails, LoadReads, CheckAnswered
  <2> QED
    BY <2>1, <1>9
<1> QED
  BY <1>1, <1>2, <1>3, <1>4, <1>5, <1>6, <1>7, <1>8, <1>10 DEF ChangesNext

\* Lines that are chosen from now on are of what the file has: no load that counts is under way then.
ChoiceOfFiles ==
    \A f \in Files : chosen'[f].kind = "partial" => chosen'[f] = chosen[f] /\ disk'[f] = disk[f]

LEMMA ChoicesOf ==
    ASSUME ChangesInv, [ChangesNext]_changeVars
    PROVE  ChoiceOfFiles \/ (SetDiffLines /\ \A i \in Slots : ~loads[i].live)
<1>0. AllTyped
  BY DEF ChangesInv
<1>1. ASSUME NEW f \in Files, NEW c \in Contents, disk' = [disk EXCEPT ![f] = c], chosen' = Void(f, c)
      PROVE  ChoiceOfFiles
  BY <1>0, <1>1, Nulls DEF Void, ChoiceOfFiles, AllTyped, RepoTyped, ChoiceTyped
<1>2. CASE (\E f \in Files, c \in Contents : EditOutside(f, c)) \/ UndoLastCommit
  BY <1>1, <1>2 DEF EditOutside, UndoLastCommit, ChoiceOfFiles
<1>3. ASSUME NEW f \in Files, ToggleFileSelection(f) PROVE ChoiceOfFiles
  <2>1. chosen' = [chosen EXCEPT ![f] = All] \/ chosen' = [chosen EXCEPT ![f] = Excluded]
    BY <1>3 DEF ToggleFileSelection, Choose
  <2>2. disk' = disk
    BY <1>3 DEF ToggleFileSelection, repo
  <2> QED
    BY <1>0, <2>1, <2>2, Nulls DEF ChoiceOfFiles, AllTyped, ChoiceTyped
<1>4. CASE Take
  BY <1>4, Nulls DEF Take, ChoiceOfFiles
<1>5. CASE CallAnswered
  BY <1>5, Nulls DEF CallAnswered, Forget, repo, ChoiceOfFiles
<1>6. CASE SetDiffLines
  BY <1>6 DEF SetDiffLines, CanSelectLines, ChangesInv, LiveLoads
<1>7. CASE UNCHANGED <<disk, chosen>>
  BY <1>7 DEF ChoiceOfFiles
<1>8. CASE \/ \E f \in Files : SelectFile(f) \/ ShowStash(f) \/ ShowCommit(f)
           \/ CommitElsewhere \/ RevisionEffect \/ SyncWithDisk \/ ViewChanges \/ ViewHistory
           \/ Commit \/ Discard \/ Undo \/ UndoAnswered \/ UNCHANGED changeVars
           \/ \E i \in Slots : \/ StatusReads(i) \/ StatusFails(i) \/ StatusAnswered(i)
                               \/ LoadReads(i) \/ LoadAnswered(i) \/ CheckAnswered(i)
  <2>1. UNCHANGED <<disk, chosen>>
    BY <1>8 DEF SelectFile, ShowStash, ShowCommit, CommitElsewhere, RevisionEffect, SyncWithDisk, ViewChanges,
       ViewHistory, Commit, Discard, SendSelected, Send, Undo, UndoAnswered, changeVars, choice, repo,
       StatusReads, StatusFails, StatusAnswered, LoadReads, LoadAnswered, CheckAnswered
  <2> QED
    BY <2>1, <1>7
<1> QED
  BY <1>2, <1>3, <1>4, <1>5, <1>6, <1>8 DEF ChangesNext

LEMMA LoadsSpareSafe ==
    ASSUME ChangesInv, [ChangesNext]_changeVars
    PROVE  LoadsSpare'
<1>0. AllTyped /\ LoadsSpare /\ LiveLoads
  BY DEF ChangesInv
<1>1. CASE SetDiffLines /\ \A i \in Slots : ~loads[i].live
  BY <1>1 DEF SetDiffLines, diffs, LoadsSpare
<1>2. CASE ChoiceOfFiles
  \* an answer that counts was there before, or has just been read
  <2>1. ASSUME NEW j \in Slots, loads'[j].live, loads'[j].at = "answered", loads'[j].from = "working"
        PROVE  \/ loads[j].live /\ loads[j].at = "answered" /\ loads[j].from = "working"
                  /\ loads'[j].of = loads[j].of /\ loads'[j].content = loads[j].content
               \/ UNCHANGED <<disk, chosen>> /\ loads'[j].content = disk[loads'[j].of]
    <3>1. CASE UNCHANGED diffs
      BY <2>1, <3>1 DEF diffs
    <3>2. CASE LoadStarts
      <4>1. PICK f \in Files, from \in Sources, k \in Slots : Begun(k, f, from)
        BY <1>0, <3>2, LoadBegins DEF LoadStarts, AllTyped
      <4> QED
        BY <2>1, <4>1 DEF Begun
    <3>3. CASE Emptied
      BY <1>0, <2>1, <3>3, SupersededAre DEF Emptied, AllTyped, CallsTyped
    <3>4. CASE CheckStarts
      <4>1. PICK k \in Slots : CheckBegun(k)
        BY <1>0, <3>4, CheckBegins DEF AllTyped
      <4> QED
        BY <2>1, <4>1 DEF CheckBegun
    <3>5. ASSUME NEW i \in Slots, LoadReads(i)
          PROVE  \/ loads[j].live /\ loads[j].at = "answered" /\ loads[j].from = "working"
                    /\ loads'[j].of = loads[j].of /\ loads'[j].content = loads[j].content
                 \/ UNCHANGED <<disk, chosen>> /\ loads'[j].content = disk[loads'[j].of]
      <4>1. HasRead(i) /\ UNCHANGED <<disk, chosen>>
        BY <1>0, <3>5, LoadHasRead DEF LoadReads, repo, choice, AllTyped
      <4> QED
        BY <2>1, <4>1 DEF HasRead
    <3>6. ASSUME NEW i \in Slots, Freed(i)
          PROVE  loads[j].live /\ loads[j].at = "answered" /\ loads[j].from = "working"
                    /\ loads'[j].of = loads[j].of /\ loads'[j].content = loads[j].content
      BY <2>1, <3>6 DEF Freed
    <3>7. ASSUME NEW i \in Slots, Begun(i, selectedFile, "working")
          PROVE  loads[j].live /\ loads[j].at = "answered" /\ loads[j].from = "working"
                    /\ loads'[j].of = loads[j].of /\ loads'[j].content = loads[j].content
      BY <2>1, <3>7 DEF Begun
    <3>8. ASSUME NEW i \in Slots, LoadAnswered(i) \/ CheckAnswered(i)
          PROVE  Freed(i) \/ Begun(i, selectedFile, "working")
      BY <1>0, <3>8, LoadIsFreed, CheckEnds DEF AllTyped
    <3> QED
      BY <1>0, <3>1, <3>2, <3>3, <3>4, <3>5, <3>6, <3>7, <3>8, DiffSteps DEF DiffStep
  <2>2. ASSUME NEW j \in Slots, loads'[j].live, loads'[j].at = "answered", loads'[j].from = "working",
               chosen'[loads'[j].of].kind = "partial"
        PROVE  loads'[j].content = disk'[loads'[j].of]
    <3>1. loads'[j].of \in Files
      BY <1>0, <2>2, LoadsStayTyped DEF OfFiles
    <3>2. chosen'[loads'[j].of] = chosen[loads'[j].of] /\ disk'[loads'[j].of] = disk[loads'[j].of]
      BY <1>2, <2>2, <3>1 DEF ChoiceOfFiles
    <3> QED
      BY <1>0, <2>1, <2>2, <3>2 DEF LoadsSpare
  <2> QED
    BY <2>2 DEF LoadsSpare
<1> QED
  BY <1>1, <1>2, ChoicesOf

-----------------------------------------------------------------------------
LEMMA LiveStatsSafe == ASSUME AllTyped, LiveStats, [ChangesNext]_changeVars PROVE LiveStats'
<1> DEFINE OneLive == /\ \A i \in Slots : stats'[i].live => stats'[i].at # "free"
                      /\ \A i, j \in Slots : stats'[i].live /\ stats'[j].live => i = j
<1>1. OneLive
  <2>1. CASE stats' = stats
    BY <2>1 DEF LiveStats
  <2>2. CASE stats' = Stale(stats)
    BY <2>2, StaleAre DEF AllTyped, CallsTyped
  <2>3. CASE FetchGitStatus
    BY <2>3, StatusIsAsked DEF AllTyped
  <2>4. ASSUME NEW i \in Slots, StatusReads(i) \/ StatusFails(i) \/ StatusAnswered(i) PROVE OneLive
    <3>1. OneStatusMoves(i)
      BY <2>4, StatusMoves
    <3> QED
      BY <3>1 DEF OneStatusMoves, LiveStats
  <2> QED
    BY <2>1, <2>2, <2>3, <2>4, StatSteps DEF StatStep
<1>2. undo'.at # "idle" => undo'.named # NoCommit
  <2>1. CASE Undo
    <3>1. NoUndo \in UndoCalls
      BY Nulls
    <3> QED
      BY <2>1, <3>1 DEF Undo, UndoCalls
  <2>2. CASE UndoLastCommit
    BY <2>2 DEF UndoLastCommit, AllTyped, CallsTyped, UndoCalls, LiveStats
  <2>3. CASE UndoAnswered
    BY <2>3, Nulls DEF UndoAnswered
  <2>4. CASE undo' = undo
    BY <2>4 DEF LiveStats
  <2> QED
    BY <2>1, <2>2, <2>3, <2>4 DEF ChangesNext, EditOutside, SelectFile, ShowStash, ShowCommit,
     ToggleFileSelection, CommitElsewhere, RevisionEffect, SyncWithDisk, ViewChanges, ViewHistory, SetDiffLines,
     StatusReads, StatusFails, StatusAnswered, LoadReads, LoadAnswered, CheckAnswered, changeVars,
     Commit, Discard, SendSelected, Send, Take, CallAnswered
<1> QED
  BY <1>1, <1>2 DEF LiveStats

\* What is fresh after a step was fresh before it, or a refresh begins; and the repository is as it was.
Calm == UNCHANGED <<disk, log, undoneHead>>

LEMMA CalmKeeps == Calm => Dirty' = Dirty /\ Undoable' = Undoable
BY DEF Calm, Dirty, Undoable, UndoableOf

LEMMA FreshSteps ==
    ASSUME AllTyped, [ChangesNext]_changeVars, fresh'
    PROVE  Calm /\ (fresh \/ FetchGitStatus)
<1>1. CASE \/ \E f \in Files, c \in Contents : EditOutside(f, c)
           \/ CommitElsewhere \/ Take \/ UndoLastCommit
  BY <1>1 DEF EditOutside, CommitElsewhere, Take, UndoLastCommit, Calm
<1>2. CASE RevisionEffect \/ SyncWithDisk
  BY <1>2 DEF RevisionEffect, SyncWithDisk, Calm, repo
<1>3. CASE \/ \E f \in Files : SelectFile(f) \/ ShowStash(f) \/ ShowCommit(f) \/ ToggleFileSelection(f)
           \/ ViewChanges \/ ViewHistory \/ SetDiffLines
           \/ Commit \/ Discard \/ CallAnswered \/ Undo \/ UndoAnswered \/ UNCHANGED changeVars
  BY <1>3 DEF SelectFile, ShowStash, ShowCommit, ToggleFileSelection, ViewChanges, ViewHistory, SetDiffLines,
     Commit, Discard, SendSelected, Send, CallAnswered, Undo, UndoAnswered, changeVars, Calm, repo
<1>4. CASE \E i \in Slots : StatusReads(i) \/ StatusFails(i) \/ StatusAnswered(i) \/ LoadReads(i) \/ LoadAnswered(i)
  BY <1>4 DEF StatusReads, StatusFails, StatusAnswered, LoadReads, LoadAnswered, Calm, repo
<1>5. ASSUME NEW i \in Slots, CheckAnswered(i) PROVE Calm /\ fresh
  <2>1. Calm
    BY <1>5 DEF CheckAnswered, Calm, repo
  <2>2. fresh
    BY <1>5, CheckEnds DEF AllTyped
  <2> QED
    BY <2>1, <2>2
<1> QED
  BY <1>1, <1>2, <1>3, <1>4, <1>5 DEF ChangesNext

LEMMA AnswersFreshSafe ==
    ASSUME AllTyped, AnswersFresh, [ChangesNext]_changeVars
    PROVE  AnswersFresh'
<1> SUFFICES ASSUME fresh', NEW j \in Slots, stats'[j].live, stats'[j].at = "asked"
             PROVE  (stats'[j].gotFiles => stats'[j].files = Dirty') /\ (stats'[j].gotUndo => stats'[j].undo = Undoable')
  BY DEF AnswersFresh
<1>0. Dirty' = Dirty /\ Undoable' = Undoable
  BY FreshSteps, CalmKeeps
<1>1. CASE FetchGitStatus
  BY <1>1, StatusIsAsked DEF AllTyped
<1>2. CASE ~FetchGitStatus
  <2>0. fresh
    BY <1>2, FreshSteps
  <2>1. CASE stats' = stats
    BY <1>0, <2>0, <2>1 DEF AnswersFresh
  <2>2. CASE stats' = Stale(stats)
    BY <2>2, StaleAre DEF AllTyped, CallsTyped
  <2>3. ASSUME NEW i \in Slots, StatusReads(i)
        PROVE  (stats'[j].gotFiles => stats'[j].files = Dirty) /\ (stats'[j].gotUndo => stats'[j].undo = Undoable)
    <3> DEFINE d == Dirty
               u == Undoable
    <3>1. \/ stats' = [stats EXCEPT ![i].files = d, ![i].gotFiles = TRUE]
          \/ stats' = [stats EXCEPT ![i].undo = u, ![i].gotUndo = TRUE]
      BY <2>3 DEF StatusReads
    <3>2. stats[j].live /\ stats[j].at = "asked" =>
            (stats[j].gotFiles => stats[j].files = d) /\ (stats[j].gotUndo => stats[j].undo = u)
      BY <2>0 DEF AnswersFresh
    <3>3. stats \in [Slots -> StatusCalls]
      BY DEF AllTyped, CallsTyped
    <3> HIDE DEF d, u
    <3>4. (stats'[j].gotFiles => stats'[j].files = d) /\ (stats'[j].gotUndo => stats'[j].undo = u)
      <4>1. CASE stats' = [stats EXCEPT ![i].files = d, ![i].gotFiles = TRUE]
        BY <3>2, <3>3, <4>1 DEF StatusCalls
      <4>2. CASE stats' = [stats EXCEPT ![i].undo = u, ![i].gotUndo = TRUE]
        BY <3>2, <3>3, <4>2 DEF StatusCalls
      <4> QED
        BY <3>1, <4>1, <4>2
    <3> QED
      BY <3>4 DEF d, u
  <2>4. ASSUME NEW i \in Slots, StatusFails(i) \/ StatusAnswered(i) PROVE stats'[j] = stats[j]
    <3>1. i # j
      <4>1. CASE StatusFails(i)
        <5>1. \/ stats' = [stats EXCEPT ![i].at = "failed", ![i].gotFiles = TRUE]
              \/ stats' = [stats EXCEPT ![i].at = "failed", ![i].gotUndo = TRUE]
          BY <4>1 DEF StatusFails
        <5> QED
          BY <5>1 DEF AllTyped, CallsTyped, StatusCalls
      <4>2. CASE StatusAnswered(i)
        BY <4>2, Nulls DEF StatusAnswered, AllTyped, CallsTyped
      <4> QED
        BY <2>4, <4>1, <4>2
    <3> QED
      BY <2>4, <3>1, StatusMoves DEF OneStatusMoves
  <2> QED
    BY <1>0, <1>2, <2>0, <2>1, <2>2, <2>3, <2>4, StatSteps DEF StatStep, AnswersFresh
<1> QED
  BY <1>1, <1>2

\* A page that looks no more did not before, or has just been answered.
LookedNow(i) == StatusAnswered(i) /\ stats[i].live /\ stats[i].at = "asked"

LEMMA LookedAt ==
    ASSUME AllTyped, LiveStats, [ChangesNext]_changeVars, fresh', ~Looking'
    PROVE  fresh /\ Calm /\ (~Looking \/ \E i \in Slots : LookedNow(i))
<1>1. ~FetchGitStatus
  BY StatusIsAsked DEF AllTyped, Looking
<1>2. fresh /\ Calm
  BY <1>1, FreshSteps
<1>3. CASE \E i \in Slots : StatusAnswered(i) /\ stats[i].live
  <2>1. PICK i \in Slots : StatusAnswered(i) /\ stats[i].live
    BY <1>3
  <2>2. fresh' = (fresh /\ ~(stats[i].at = "failed")) /\ (stats[i].at = "failed" \/ stats[i].at = "asked")
    BY <2>1 DEF StatusAnswered, AllTyped, CallsTyped, StatusCalls, LiveStats
  <2>3. LookedNow(i)
    BY <2>1, <2>2 DEF LookedNow
  <2> QED
    BY <1>2, <2>3
<1>4. CASE ~\E i \in Slots : StatusAnswered(i) /\ stats[i].live
  <2>1. ~revised
    BY <1>1 DEF Looking, ChangesNext, EditOutside, SelectFile, ShowStash, ShowCommit,
     ToggleFileSelection, CommitElsewhere, RevisionEffect, SyncWithDisk, ViewChanges, ViewHistory, SetDiffLines,
     StatusReads, StatusFails, StatusAnswered, LoadReads, LoadAnswered, CheckAnswered, changeVars,
     Commit, Discard, SendSelected, Send, Take, CallAnswered, Undo, UndoLastCommit, UndoAnswered
  <2>2. ASSUME NEW j \in Slots, stats[j].live PROVE FALSE
    <3>0. ~stats'[j].live
      BY DEF Looking
    <3>1. ASSUME NEW i \in Slots, StatusReads(i) \/ StatusFails(i) \/ StatusAnswered(i) PROVE FALSE
      <4>1. CASE StatusReads(i) \/ StatusFails(i)
        <5> DEFINE d == Dirty
                   u == Undoable
        <5>1. \/ stats' = [stats EXCEPT ![i].files = d, ![i].gotFiles = TRUE]
              \/ stats' = [stats EXCEPT ![i].undo = u, ![i].gotUndo = TRUE]
              \/ stats' = [stats EXCEPT ![i].at = "failed", ![i].gotFiles = TRUE]
              \/ stats' = [stats EXCEPT ![i].at = "failed", ![i].gotUndo = TRUE]
          BY <4>1 DEF StatusReads, StatusFails
        <5> HIDE DEF d, u
        <5> QED
          BY <2>2, <3>0, <5>1 DEF AllTyped, CallsTyped, StatusCalls
      <4>2. CASE StatusAnswered(i)
        <5>1. i # j
          BY <1>4, <2>2, <4>2
        <5> QED
          BY <2>2, <3>0, <4>2, <5>1, StatusMoves DEF OneStatusMoves
      <4> QED
        BY <3>1, <4>1, <4>2
    <3>2. CASE CallAnswered
      BY <2>2, <3>0, <3>2 DEF CallAnswered, Looking
    <3>3. CASE Undo
      BY <1>2, <2>2, <3>3 DEF Undo
    <3>4. CASE RevisionEffect \/ SyncWithDisk
      BY <1>1, <3>4 DEF RevisionEffect, SyncWithDisk, Looking
    <3>5. CASE \/ \E f \in Files, c \in Contents : EditOutside(f, c)
               \/ \E f \in Files : SelectFile(f) \/ ShowStash(f) \/ ShowCommit(f) \/ ToggleFileSelection(f)
               \/ CommitElsewhere \/ ViewChanges \/ ViewHistory \/ SetDiffLines
               \/ Commit \/ Discard \/ Take \/ UndoLastCommit \/ UndoAnswered \/ UNCHANGED changeVars
               \/ \E i \in Slots : LoadReads(i) \/ LoadAnswered(i) \/ CheckAnswered(i)
      <4>1. stats' = stats
        BY <3>5 DEF EditOutside, SelectFile, ShowStash, ShowCommit, ToggleFileSelection, CommitElsewhere, ViewChanges,
         ViewHistory, SetDiffLines, Commit, Discard, SendSelected, Send, Take, UndoLastCommit, UndoAnswered, changeVars,
         LoadReads, LoadAnswered, CheckAnswered
      <4> QED
        BY <2>2, <3>0, <4>1
    <3> QED
      BY <3>1, <3>2, <3>3, <3>4, <3>5 DEF ChangesNext
  <2> QED
    BY <1>2, <2>1, <2>2 DEF Looking
<1> QED
  BY <1>2, <1>3, <1>4


LEMMA ListFreshSafe ==
    ASSUME AllTyped, LiveStats, AnswersFresh, ListFresh, [ChangesNext]_changeVars
    PROVE  ListFresh'
<1> DEFINE Same == files' = files /\ undoable' = undoable /\ undo' = undo
           Goal == files' = Dirty' /\ (undoable' = Undoable' \/ (undo'.at # "idle" /\ undoable' = NoCommit))
<1> SUFFICES ASSUME fresh', ~Looking' PROVE Goal
  BY DEF ListFresh
<1>1. fresh /\ Calm /\ (~Looking \/ \E i \in Slots : LookedNow(i))
  BY LookedAt
<1>2. Dirty' = Dirty /\ Undoable' = Undoable
  BY <1>1, CalmKeeps
<1>3. ASSUME NEW i \in Slots, LookedNow(i) PROVE Goal
  <2>1. stats[i].live /\ stats[i].at = "asked" /\ stats[i].gotFiles /\ stats[i].gotUndo
        /\ files' = stats[i].files /\ undoable' = stats[i].undo
    BY <1>3 DEF LookedNow, StatusAnswered
  <2>2. stats[i].files = Dirty /\ stats[i].undo = Undoable
    BY <1>1, <2>1 DEF AnswersFresh
  <2> QED
    BY <1>2, <2>1, <2>2
<1>4. CASE ~Looking
  <2>1. files = Dirty /\ (undoable = Undoable \/ (undo.at # "idle" /\ undoable = NoCommit))
    BY <1>1, <1>4 DEF ListFresh
  <2>2. CASE Same
    BY <1>2, <2>1, <2>2
  <2>3. ASSUME NEW i \in Slots, StatusAnswered(i) PROVE Same
    <3>1. ~stats[i].live
      BY <1>4 DEF Looking
    <3> QED
      BY <2>3, <3>1 DEF StatusAnswered
  <2>4. CASE CallAnswered
    <3>1. ~revised'
      BY DEF Looking
    <3>2. Same
      BY <2>4, <3>1 DEF CallAnswered
    <3> QED
      BY <2>2, <3>2
  <2>5. CASE Undo
    <3>1. NoUndo \in UndoCalls
      BY Nulls
    <3>2. files' = files /\ undoable' = NoCommit /\ undo'.at = "sent"
      BY <2>5, <3>1 DEF Undo, UndoCalls
    <3> QED
      BY <1>2, <2>1, <3>2
  <2>6. CASE UndoLastCommit
    <3>1. files' = files /\ undoable' = undoable /\ undo.at = "sent"
      BY <2>6 DEF UndoLastCommit
    <3>2. undo'.at # "idle"
      BY <2>6 DEF UndoLastCommit, AllTyped, CallsTyped, UndoCalls
    <3> QED
      BY <1>2, <2>1, <3>1, <3>2
  <2>7. CASE UndoAnswered
    <3>1. ~revised' /\ undo.at # "idle"
      BY <2>7 DEF UndoAnswered, Looking
    <3>2. files' = files /\ undoable' = undo.named /\ undoable = undo.named
      BY <2>7, <3>1 DEF UndoAnswered
    <3>3. undo.named # NoCommit
      BY <3>1 DEF LiveStats
    <3> QED
      BY <1>2, <2>1, <3>2, <3>3
  <2>8. CASE \/ \E f \in Files, c \in Contents : EditOutside(f, c)
             \/ \E f \in Files : SelectFile(f) \/ ShowStash(f) \/ ShowCommit(f) \/ ToggleFileSelection(f)
             \/ CommitElsewhere \/ RevisionEffect \/ SyncWithDisk \/ ViewChanges \/ ViewHistory \/ SetDiffLines
             \/ Commit \/ Discard \/ Take \/ UNCHANGED changeVars
             \/ \E i \in Slots : StatusReads(i) \/ StatusFails(i) \/ LoadReads(i) \/ LoadAnswered(i) \/ CheckAnswered(i)
    <3>1. Same
      BY <2>8 DEF EditOutside, SelectFile, ShowStash, ShowCommit, ToggleFileSelection, CommitElsewhere,
         RevisionEffect, SyncWithDisk, ViewChanges, ViewHistory, SetDiffLines, Commit, Discard, SendSelected, Send, Take, changeVars,
         StatusReads, StatusFails, LoadReads, LoadAnswered, CheckAnswered
    <3> QED
      BY <2>2, <3>1
  <2> QED
    BY <2>2, <2>3, <2>4, <2>5, <2>6, <2>7, <2>8 DEF ChangesNext
<1> QED
  BY <1>1, <1>3, <1>4

-----------------------------------------------------------------------------
\* The view changes only to the history, with a load or with nothing open, or when an undo makes the page look again.
LEMMA ViewSteps ==
    ASSUME [ChangesNext]_changeVars, files \subseteq Files
    PROVE  view' = view \/ view' = "history" \/ selectedFile' = NoFile \/ LoadStarts \/ revised'
<1>1. CASE ViewChanges /\ files # {}
  <2> DEFINE f == CHOOSE g \in files : TRUE
  <2>1. f \in Files
    BY <1>1
  <2>2. LoadDiff(f, "working") /\ shown' = shown
    BY <1>1 DEF ViewChanges
  <2> HIDE DEF f
  <2> QED
    BY <2>1, <2>2 DEF LoadStarts, Sources
<1>2. CASE (ViewChanges /\ files = {}) \/ ViewHistory \/ UndoAnswered
  BY <1>2 DEF ViewChanges, ViewHistory, UndoAnswered
<1>3. CASE ~(ViewChanges \/ ViewHistory \/ UndoAnswered)
  BY <1>3 DEF ChangesNext, EditOutside, SelectFile, ShowStash, ShowCommit, ToggleFileSelection, CommitElsewhere,
     RevisionEffect, SyncWithDisk, SetDiffLines, Commit, Discard, SendSelected, Send, Take, CallAnswered, Undo, UndoLastCommit,
     changeVars, StatusReads, StatusFails, StatusAnswered, LoadReads, LoadAnswered, CheckAnswered
<1> QED
  BY <1>1, <1>2, <1>3

\* What has just been asked will show the open file.
LEMMA NewLoadShows == ASSUME AllTyped, LoadStarts PROVE Due'
<1>1. PICK f \in Files, from \in Sources : LoadDiff(f, from)
  BY DEF LoadStarts
<1>2. PICK k \in Slots : Begun(k, f, from)
  BY <1>1, LoadBegins DEF AllTyped
<1>3. WillShow(k)'
  BY <1>2 DEF Begun, WillShow, Present
<1> QED
  BY <1>3 DEF Due

LEMMA NewCheckShows == ASSUME AllTyped, CheckStarts PROVE Due'
<1>1. PICK k \in Slots : CheckBegun(k)
  BY CheckBegins DEF AllTyped
<1>2. WillShow(k)'
  BY <1>1 DEF CheckBegun, CheckStarts, WillShow, Present
<1> QED
  BY <1>2 DEF Due

\* A refresh that is answered opens a file anew or has the open one checked.
LEMMA LookedShows ==
    ASSUME AllTyped, OpenFile, NEW i \in Slots, LookedNow(i), OnFile'
    PROVE  Due'
<1>1. view' = view /\ (ShowFirst(Got(i)) \/ (CheckOpenFile /\ UNCHANGED <<selectedFile, source, shown, loadingDiff>>))
  BY DEF LookedNow, StatusAnswered, Got
<1>2. CASE ShowFirst(Got(i))
  <2>1. view = "changes" /\ source # "stash" /\ Got(i) # {}
    BY <1>1, <1>2 DEF ShowFirst, OnFile, diffs
  <2> DEFINE f == IF selectedFile \in Got(i) THEN selectedFile ELSE CHOOSE g \in Got(i) : TRUE
  <2>2. Got(i) \subseteq Files
    BY DEF AllTyped, CallsTyped, StatusCalls, Got
  <2>3. f \in Files
    BY <2>1, <2>2
  <2>4. LoadDiff(f, "working") /\ shown' = shown
    BY <1>2, <2>1 DEF ShowFirst
  <2> HIDE DEF f
  <2>5. LoadStarts
    BY <2>3, <2>4 DEF LoadStarts, Sources
  <2> QED
    BY <2>5, NewLoadShows
<1>3. CASE CheckOpenFile /\ UNCHANGED <<selectedFile, source, shown, loadingDiff>>
  <2>1. view = "changes" /\ source = "working" /\ selectedFile \in files
    BY <1>1, <1>3 DEF OnFile, OpenFile
  <2>2. CheckStarts
    BY <1>3, <2>1 DEF CheckOpenFile, Check, CheckStarts, AllTyped, PageTyped
  <2> QED
    BY <2>2, NewCheckShows
<1> QED
  BY <1>1, <1>2, <1>3

\* The answer of a load that counts, and has what the file has now, is what is shown; another answer changes nothing.
LEMMA LoadAnswerShows ==
    ASSUME AllTyped, LiveLoads, OnFile, Due, NEW i \in Slots, LoadAnswered(i), fresh', disk' = disk
    PROVE  Due'
<1>1. Freed(i) /\ UNCHANGED <<selectedFile, source>> /\ loads[i].kind = "load" /\ loads[i].at \in {"answered", "failed"}
  BY LoadIsFreed DEF LoadAnswered, AllTyped
<1>2. ASSUME NEW j \in Slots, WillShow(j), j # i, ~loads[j].live \/ ~loads[i].live PROVE Due'
  <2>1. WillShow(j)'
    BY <1>1, <1>2 DEF Freed, WillShow, Present
  <2> QED
    BY <2>1 DEF Due
<1>3. CASE loads[i].live
  <2>1. loads[i].at = "answered" /\ loads[i].of = selectedFile /\ loads[i].from = "working"
    BY <1>1, <1>3 DEF LoadAnswered, LiveLoads, OnFile
  <2>2. shown' = [of |-> selectedFile, content |-> loads[i].content]
    BY <1>3, <2>1 DEF LoadAnswered
  <2>3. \A j \in Slots : ~loads'[j].live
    BY <1>1, <1>3 DEF Freed, LiveLoads
  <2>4. ~ShowsFile
    BY <1>3 DEF ShowsFile
  <2>5. ASSUME NEW j \in Slots, WillShow(j), j # i PROVE Due'
    BY <1>2, <1>3, <2>5 DEF LiveLoads
  <2>6. ASSUME WillShow(i) PROVE Due'
    <3>1. loads[i].content = disk[selectedFile]
      BY <2>1, <2>6 DEF WillShow, Present
    <3> QED
      BY <1>1, <2>2, <2>3, <3>1 DEF Due, ShowsFile
  <2> QED
    BY <2>4, <2>5, <2>6 DEF Due
<1>4. CASE ~loads[i].live
  <2>1. shown' = shown
    BY <1>4 DEF LoadAnswered
  <2>2. CASE ShowsFile
    BY <1>1, <2>1, <2>2 DEF Freed, Due, ShowsFile
  <2>3. ~WillShow(i)
    BY <1>1, <1>4 DEF WillShow
  <2> QED
    BY <1>2, <1>4, <2>2, <2>3 DEF Due
<1> QED
  BY <1>3, <1>4

\* A check that finds another content has it loaded; one that finds the content shown leaves it, and no load is under way.
LEMMA CheckAnswerShows ==
    ASSUME AllTyped, LiveLoads, DiffShown, OnFile, Due, NEW i \in Slots, CheckAnswered(i), fresh', disk' = disk
    PROVE  Due'
<1>1. /\ loads[i].kind = "check" /\ loads[i].at \in {"answered", "failed"} /\ ~loads[i].live
      /\ UNCHANGED <<selectedFile, source, shown>>
  BY CheckEnds DEF AllTyped, LiveLoads
<1>2. CASE Begun(i, selectedFile, "working")
  <2>1. WillShow(i)'
    BY <1>2 DEF Begun, WillShow, Present
  <2> QED
    BY <2>1 DEF Due
<1>3. CASE /\ ~(Current(i) /\ Differs(i)) /\ Freed(i)
           /\ fresh' = (fresh /\ loads[i].at # "failed" /\ ~\E j \in Slots : loads'[j].live)
  <2>1. loads[i].at = "answered" /\ \A j \in Slots : ~loads'[j].live
    BY <1>1, <1>3
  <2>2. CASE ShowsFile
    BY <1>1, <2>1, <2>2 DEF Due, ShowsFile
  <2>3. ASSUME NEW j \in Slots, WillShow(j), j # i PROVE Due'
    <3>1. WillShow(j)'
      BY <1>1, <1>3, <2>3 DEF Freed, WillShow, Present
    <3> QED
      BY <3>1 DEF Due
  <2>4. ASSUME WillShow(i) PROVE Due'
    <3>1. loads[i].of = selectedFile /\ loads[i].content = disk[selectedFile]
      BY <1>1, <2>1, <2>4 DEF WillShow, Present
    <3>2. shown.of # NoFile /\ shown.content = disk[selectedFile]
      BY <1>3, <2>1, <3>1 DEF Current, Differs, OnFile
    <3>3. ~loadingDiff
      BY <1>1, <1>3, <2>1 DEF Freed, LiveLoads, OnFile
    <3>4. shown.of = selectedFile
      BY <3>2, <3>3 DEF DiffShown, AtRest, OnFile
    <3>5. shown = [of |-> selectedFile, content |-> disk[selectedFile]]
      BY <3>2, <3>4 DEF AllTyped, PageTyped
    <3> QED
      BY <1>1, <2>1, <3>5 DEF Due, ShowsFile
  <2> QED
    BY <2>2, <2>3, <2>4 DEF Due
<1> QED
  BY <1>2, <1>3, CheckEnds DEF AllTyped

LEMMA DiffFreshSafe ==
    ASSUME ChangesInv, [ChangesNext]_changeVars
    PROVE  DiffFresh'
<1> SUFFICES ASSUME fresh', ~Looking', OnFile' PROVE Due'
  BY DEF DiffFresh
<1>0. AllTyped /\ LiveLoads /\ OpenFile /\ DiffShown /\ LiveStats /\ DiffFresh
  BY DEF ChangesInv
<1>1. fresh /\ Calm /\ (~Looking \/ \E i \in Slots : LookedNow(i))
  BY <1>0, LookedAt
<1>2. ASSUME NEW i \in Slots, LookedNow(i) PROVE Due'
  BY <1>0, <1>2, LookedShows
<1>3. CASE ~Looking /\ ~LoadStarts
  <2>1. disk' = disk
    BY <1>1 DEF Calm
  <2>2. view' = view
    BY <1>0, <1>3, ViewSteps DEF OnFile, Looking, AllTyped, PageTyped
  <2>3. CASE Emptied \/ CheckStarts
    BY <1>0, <2>3, NewCheckShows DEF Emptied, OnFile
  <2>4. CASE UNCHANGED <<selectedFile, source>> /\ ~CheckStarts
    <3>1. OnFile /\ Due
      BY <1>0, <1>1, <1>3, <2>2, <2>4 DEF OnFile, DiffFresh
    <3>2. CASE UNCHANGED diffs
      BY <2>1, <3>1, <3>2 DEF diffs, Due, ShowsFile, WillShow, Present
    <3>3. ASSUME NEW i \in Slots, LoadReads(i) PROVE Due'
      <4>1. HasRead(i) /\ UNCHANGED <<selectedFile, shown>>
        BY <1>0, <3>3, LoadHasRead DEF LoadReads, AllTyped
      <4>2. CASE ShowsFile
        BY <2>1, <4>1, <4>2 DEF HasRead, Due, ShowsFile
      <4>3. ASSUME NEW j \in Slots, WillShow(j), j # i PROVE Due'
        <5>1. WillShow(j)'
          BY <2>1, <4>1, <4>3 DEF HasRead, WillShow, Present
        <5> QED
          BY <5>1 DEF Due
      <4>4. ASSUME WillShow(i) PROVE Due'
        <5>1. loads[i].from = "working"
          BY <1>0, <3>1, <4>4 DEF WillShow, LiveLoads, OnFile, AllTyped, CallsTyped
        <5>2. WillShow(i)'
          BY <2>1, <4>1, <4>4, <5>1 DEF HasRead, WillShow, Present
        <5> QED
          BY <5>2 DEF Due
      <4> QED
        BY <3>1, <4>2, <4>3, <4>4 DEF Due
    <3>4. ASSUME NEW i \in Slots, LoadAnswered(i) PROVE Due'
      BY <1>0, <2>1, <2>4, <3>1, <3>4, LoadAnswerShows
    <3>5. ASSUME NEW i \in Slots, CheckAnswered(i) PROVE Due'
      BY <1>0, <2>1, <2>4, <3>1, <3>5, CheckAnswerShows
    <3> QED
      BY <1>0, <1>3, <2>3, <2>4, <3>2, <3>3, <3>4, <3>5, DiffSteps DEF DiffStep, AllTyped
  <2>5. Emptied \/ CheckStarts \/ UNCHANGED <<selectedFile, source>>
    BY <1>0, <1>3, DiffSteps DEF DiffStep, diffs, LoadReads, LoadAnswered, CheckAnswered
  <2> QED
    BY <2>3, <2>4, <2>5
<1>4. CASE LoadStarts
  BY <1>0, <1>4, NewLoadShows
<1> QED
  BY <1>1, <1>2, <1>3, <1>4

-----------------------------------------------------------------------------
LEMMA ChangesInitSafe == ChangesInit => ChangesInv
<1> SUFFICES ASSUME ChangesInit PROVE ChangesInv
  OBVIOUS
<1>1. AllTyped
  BY InitTyped
<1>2. /\ \A i \in Slots : ~loads[i].live /\ ~stats[i].live
      /\ \A f \in Files : sel[f].kind = "all" /\ chosen[f].kind = "all"
      /\ DOMAIN call.req = {} /\ undo.at = "idle" /\ ~loadingDiff /\ ~fresh
      /\ shown.of = NoFile /\ selectedFile = NoFile
  BY Nulls DEF ChangesInit
<1>3. LiveLoads /\ OpenFile /\ DiffShown
  BY <1>2 DEF LiveLoads, OpenFile, DiffShown, AtRest
<1>4. PickedOnDiffs /\ ChoicesStand /\ LoadsSpare
  BY <1>2 DEF PickedOnDiffs, ChoicesStand, LoadsSpare
<1>5. LiveStats /\ AnswersFresh /\ ListFresh /\ DiffFresh
  BY <1>2 DEF LiveStats, AnswersFresh, ListFresh, DiffFresh
<1> QED
  BY <1>1, <1>3, <1>4, <1>5 DEF ChangesInv

LEMMA ChangesNextSafe == ChangesInv /\ [ChangesNext]_changeVars => ChangesInv'
<1> SUFFICES ASSUME ChangesInv, [ChangesNext]_changeVars PROVE ChangesInv'
  OBVIOUS
<1>0. /\ AllTyped /\ LiveLoads /\ OpenFile /\ DiffShown /\ PickedOnDiffs
      /\ ChoicesStand /\ LoadsSpare /\ LiveStats /\ AnswersFresh /\ ListFresh /\ DiffFresh
  BY DEF ChangesInv
<1>1. AllTyped' /\ LiveLoads' /\ OpenFile' /\ DiffShown'
  BY <1>0, NextTyped, LiveLoadsSafe, OpenFileSafe, DiffShownSafe
<1>2. PickedOnDiffs' /\ ChoicesStand' /\ LoadsSpare'
  BY <1>0, PickedSafe, ChoicesStandSafe, LoadsSpareSafe
<1>3. LiveStats' /\ AnswersFresh' /\ ListFresh' /\ DiffFresh'
  BY <1>0, LiveStatsSafe, AnswersFreshSafe, ListFreshSafe, DiffFreshSafe
<1> QED
  BY <1>1, <1>2, <1>3 DEF ChangesInv

THEOREM ChangesInvariant == ChangesSpec => []ChangesInv
BY ChangesInitSafe, ChangesNextSafe, PTL DEF ChangesSpec

\* The variables of CommitHistoryPage.tsx and of the repository keep their types.
THEOREM ChangesTypeCorrect == ChangesSpec => []ChangesTypeOK
<1>1. ChangesInv => ChangesTypeOK
  <2> SUFFICES ASSUME ChangesInv PROVE ChangesTypeOK
    OBVIOUS
  <2>0. AllTyped
    BY DEF ChangesInv
  <2>1. \A i \in Slots : /\ stats[i].at \in {"free", "asked", "failed"} /\ stats[i].files \subseteq Files
                         /\ loads[i].at \in {"free", "asked", "answered", "failed"}
    BY <2>0 DEF AllTyped, CallsTyped, StatusCalls, LoadCalls
  <2>2. call.at \in {"idle", "sent", "done", "failed"} /\ undo.at \in {"idle", "sent", "done", "failed"}
    BY <2>0 DEF AllTyped, CallsTyped, HandlerCalls, UndoCalls
  <2> QED
    BY <2>0, <2>1, <2>2 DEF ChangesTypeOK, AllTyped, RepoTyped, PageTyped, ChoiceTyped, Selections, Sources
<1> QED
  BY <1>1, ChangesInvariant, PTL

\* Lines that can be added to are lines of the diff that is shown (canSelectLines and setLines of CommitHistoryPage.tsx):
\* a diff in loading, or one of another file, never has its line numbers mixed with those of an earlier content.
THEOREM LinesAreShown == ChangesSpec => []LinesAreOfTheDiffShown
<1>1. ChangesInv => LinesAreOfTheDiffShown
  <2> SUFFICES ASSUME ChangesInv, CanSelectLines, sel[selectedFile].kind = "partial"
               PROVE  shown = [of |-> selectedFile, content |-> sel[selectedFile].hash]
    BY DEF LinesAreOfTheDiffShown
  <2>1. shown.of = selectedFile /\ shown.content = sel[selectedFile].hash
    BY DEF ChangesInv, DiffShown, AtRest, CanSelectLines
  <2> QED
    BY <2>1 DEF ChangesInv, AllTyped, PageTyped
<1> QED
  BY <1>1, ChangesInvariant, PTL

\* A choice for the next commit stays what the user made it, through refreshes (fetchGitStatus), loads
\* (fetchUncommitedDiff), commits and discards, until it is used or its file changes.
THEOREM ChoicesAreKept == ChangesSpec => []ChoiceIsKept
<1>1. ChangesInv => ChoiceIsKept
  BY DEF ChangesInv, AllTyped, PageTyped, ChoicesStand, ChoiceIsKept
<1> QED
  BY <1>1, ChangesInvariant, PTL

\* Once nothing is under way after a refresh, the page shows the repository: the list, the commit that can be undone
\* and the diff of the open file (refreshWorkingTree, refreshSelectedDiff and the request numbers).
THEOREM QuietPagesAreTrue == ChangesSpec => []QuietPageIsTrue
<1>1. ChangesInv => QuietPageIsTrue
  <2> SUFFICES ASSUME ChangesInv, Quiet, fresh PROVE
        /\ files = Dirty /\ undoable = Undoable
        /\ OnFile => selectedFile \in files /\ ~loadingDiff /\ shown = [of |-> selectedFile, content |-> disk[selectedFile]]
    BY DEF QuietPageIsTrue, OnFile
  <2>0. AllTyped /\ LiveLoads /\ OpenFile /\ LiveStats /\ ListFresh /\ DiffFresh
    BY DEF ChangesInv
  <2>1. ~Looking
    BY <2>0 DEF Quiet, Looking, LiveStats
  <2>2. files = Dirty /\ undoable = Undoable
    BY <2>0, <2>1 DEF ListFresh, Quiet
  <2>3. ASSUME OnFile
        PROVE  selectedFile \in files /\ ~loadingDiff /\ shown = [of |-> selectedFile, content |-> disk[selectedFile]]
    <3>1. Due
      BY <2>0, <2>1, <2>3 DEF DiffFresh
    <3>2. \A i \in Slots : ~WillShow(i)
      BY DEF Quiet, WillShow, Present
    <3>3. ~loadingDiff
      BY <2>0, <2>3 DEF LiveLoads, Quiet, OnFile
    <3> QED
      BY <2>0, <2>3, <3>1, <3>2, <3>3 DEF Due, ShowsFile, OpenFile, OnFile
  <2> QED
    BY <2>2, <2>3
<1> QED
  BY <1>1, ChangesInvariant, PTL

\* A commit or a discard of a part of a file, of chosen lines or of a hunk, takes lines the user picked on the very
\* content the file has when the handler takes them (git_commits_handler.go and git_discard.go refuse lines of another
\* hash).
THEOREM LinesAreTakenAsPicked == ChangesSpec => LinesTakenAsPicked
<1> DEFINE PickedNow == \A f \in DOMAIN call.req :
             call.at = "sent" /\ call'.at = "done" /\ call.req[f].kind = "partial"
               => <<f, disk[f]>> \in picked
<1>1. ChangesInv /\ [ChangesNext]_changeVars => [PickedNow]_changeVars
  <2> SUFFICES ASSUME ChangesInv, [ChangesNext]_changeVars, call.at = "sent", call'.at = "done",
                      NEW f \in DOMAIN call.req, call.req[f].kind = "partial"
               PROVE  <<f, disk[f]>> \in picked
    OBVIOUS
  <2>1. Take
    <3>1. ~(Commit \/ Discard \/ CallAnswered)
      BY DEF Commit, Discard, SendSelected, Send, CallAnswered
    <3> QED
      BY <3>1 DEF ChangesNext, EditOutside, SelectFile, ShowStash, ShowCommit, ToggleFileSelection, CommitElsewhere,
     RevisionEffect, SyncWithDisk, ViewChanges, ViewHistory, SetDiffLines, StatusReads, StatusFails, StatusAnswered,
     LoadReads, LoadAnswered, CheckAnswered, Undo, UndoLastCommit, UndoAnswered, changeVars
  <2>2. Unchanged(call.req)
    <3>1. call' # [call EXCEPT !.at = "failed"]
      BY DEF ChangesInv, AllTyped, CallsTyped, HandlerCalls
    <3> QED
      BY <2>1, <3>1 DEF Take
  <2> QED
    BY <2>2 DEF Unchanged, ChangesInv, PickedOnDiffs
<1> QED
  BY <1>1, ChangesInvariant, PTL DEF ChangesSpec, LinesTakenAsPicked
===============================================================================
