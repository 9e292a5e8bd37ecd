---------------------------- MODULE WorkingChanges ----------------------------
(***************************************************************************)
(* The Changes view of OctoHub (CommitHistoryPage.tsx): the list of the    *)
(* changed files, the diff of one of them, the lines and files chosen for  *)
(* the next commit, and Commit, Discard and Undo, against a repository     *)
(* that editors and other programs change (git_commits_handler.go,         *)
(* git_discard.go).  Every answer comes later than its question; answers   *)
(* of superseded questions are dropped by the page's request numbers,      *)
(* which the model keeps as a mark, live, on each call.                    *)
(*                                                                         *)
(* A diff has more than one line; its hash is its content.                 *)
(***************************************************************************)
EXTENDS Naturals, FiniteSets, Sequences, SequencesExt

CONSTANTS Files, NoFile,
          MaxContents,  \* bound: contents of a file; 0 is that of HEAD
          MaxEdits,     \* bound: edits made outside
          MaxCommits,   \* bound: commits made in all, two of them at the start
          MaxAsked,     \* bound: what the user asks for in all
          Slots         \* bound: calls of a kind in flight at once
ASSUME ChangesAssumption ==
  NoFile \notin Files /\ MaxContents \in Nat /\ MaxEdits \in Nat /\ MaxAsked \in Nat /\ MaxCommits \in Nat \ {0, 1}

Contents == 0 .. MaxContents
NoCommit == 0
All == [kind |-> "all", hash |-> 0]
Excluded == [kind |-> "none", hash |-> 0]
Partial(c) == [kind |-> "partial", hash |-> c]
NoDiff == [of |-> NoFile, content |-> 0]

VARIABLES
  \* the repository
  disk,      \* the content of each file
  log,       \* the commits of HEAD
  undoneHead,\* undoneHeads: the head an undo left
  numbered,  \* commits made so far
  edits,     \* edits so far
  \* the page
  view,      \* activeTab
  files,     \* changedFiles
  sel,       \* selections
  selectedFile,  \* selectedFile
  source,    \* diffSource
  shown,     \* fileDiff and fileDiffHash
  loadingDiff,   \* loadingDiff
  revised,   \* notifyChange was called and its effects have not run
  undoable,  \* undoableCommit
  stats,     \* calls of fetchGitStatus
  loads,     \* calls of loadDiff, and the reads of refreshSelectedDiff
  call,      \* handleCommit or a discard
  undo,      \* handleUndoCommit
  requests,     \* what the user asked for so far
  \* history
  chosen,    \* the user's last choice for a file, All when it was used up
  outrun,    \* files whose choice an answer read too early may have hit
  picked,    \* diffs on which lines, or a hunk to discard, were picked
  fresh      \* a refresh that read everything began after the last change
repo == <<disk, log, undoneHead, numbered, edits>>
choice == <<sel, chosen, outrun, picked>>
diffs == <<selectedFile, source, shown, loadingDiff, loads>>
changeVars == <<repo, view, files, choice, diffs, revised, undoable, stats, call, undo, requests, fresh>>

NoStat == [at |-> "free", files |-> {}, undo |-> NoCommit, gotFiles |-> FALSE, gotUndo |-> FALSE, live |-> FALSE]
NoLoad == [at |-> "free", kind |-> "load", from |-> "working", of |-> NoFile, content |-> 0, live |-> FALSE]
NoCall == [at |-> "idle", what |-> "commit", req |-> [f \in {} |-> All], id |-> NoCommit]
NoUndo == [at |-> "idle", named |-> NoCommit]

ChangesTypeOK ==
  /\ disk \in [Files -> Contents] /\ log \in Seq(1 .. MaxCommits) /\ undoneHead \in 0 .. MaxCommits
  /\ view \in {"changes", "history"} /\ files \subseteq Files
  /\ sel \in [Files -> [kind : {"all", "none", "partial"}, hash : Contents]]
  /\ selectedFile \in Files \union {NoFile} /\ source \in {"working", "stash", "commit"}
  /\ shown \in [of : Files \union {NoFile}, content : Contents]
  /\ loadingDiff \in BOOLEAN /\ revised \in BOOLEAN /\ fresh \in BOOLEAN
  /\ undoable \in 0 .. MaxCommits
  /\ \A i \in Slots :
       /\ stats[i].at \in {"free", "asked", "failed"} /\ stats[i].files \subseteq Files
       /\ loads[i].at \in {"free", "asked", "answered", "failed"}
  /\ call.at \in {"idle", "sent", "done", "failed"} /\ undo.at \in {"idle", "sent", "done", "failed"}
  /\ chosen \in [Files -> [kind : {"all", "none", "partial"}, hash : Contents]]

ChangesInit ==
  /\ disk = [f \in Files |-> 0] /\ log = <<1, 2>> /\ undoneHead = NoCommit
  /\ numbered = 2 /\ edits = 0
  /\ view = "changes" /\ files = {} /\ selectedFile = NoFile /\ source = "working"
  /\ shown = NoDiff /\ loadingDiff = FALSE /\ revised = TRUE
  /\ sel = [f \in Files |-> All] /\ chosen = [f \in Files |-> All] /\ outrun = {} /\ picked = {}
  /\ undoable = NoCommit
  /\ stats = [i \in Slots |-> NoStat] /\ loads = [i \in Slots |-> NoLoad]
  /\ call = NoCall /\ undo = NoUndo /\ requests = 0 /\ fresh = FALSE

Dirty == {f \in Files : disk[f] # 0}
FreeIn(calls) == CHOOSE i \in Slots : calls[i].at = "free"
SomeFree(calls) == \E i \in Slots : calls[i].at = "free"
Superseded(calls) == [i \in Slots |-> IF calls[i].kind = "load" THEN [calls[i] EXCEPT !.live = FALSE] ELSE calls[i]]
Ask == requests < MaxAsked /\ requests' = requests + 1

----------------------------------------------------------------------------
(* The repository *)

(* GetUndoableCommit: the last commit, unless an undo left it there *)
UndoableOf(head) == IF head = undoneHead THEN NoCommit ELSE head
Undoable == IF log = << >> THEN NoCommit ELSE UndoableOf(Last(log))

(* A choice of lines is void once the file changes, any choice once it is  *)
(* no longer changed                                                       *)
Void(f, c) ==
  IF c # disk[f] /\ (c = 0 \/ chosen[f].kind = "partial") THEN [chosen EXCEPT ![f] = All] ELSE chosen

EditOutside(f, c) ==
  /\ edits < MaxEdits /\ c # disk[f] /\ edits' = edits + 1
  /\ disk' = [disk EXCEPT ![f] = c]
  /\ chosen' = Void(f, c)
  /\ fresh' = FALSE
  /\ UNCHANGED <<log, undoneHead, numbered, view, files, sel, outrun, picked, diffs,
                 revised, undoable, stats, call, undo, requests>>

CommitElsewhere ==
  /\ numbered < MaxCommits /\ numbered' = numbered + 1
  /\ log' = Append(log, numbered + 1)
  /\ fresh' = FALSE
  /\ UNCHANGED <<disk, undoneHead, edits, view, files, choice, diffs, revised, undoable, stats,
                 call, undo, requests>>

----------------------------------------------------------------------------
(* The list of changes *)

(* fetchGitStatus, which refreshWorkingTree calls: the newest request wins *)
Stale(calls) == [i \in Slots |-> [calls[i] EXCEPT !.live = FALSE]]
FetchGitStatus ==
  /\ SomeFree(stats)
  /\ stats' = [Stale(stats) EXCEPT ![FreeIn(stats)] = [NoStat EXCEPT !.at = "asked", !.live = TRUE]]
  /\ fresh' = TRUE

(* notifyChange bumps the revision, and the effects of the page refresh *)
RevisionEffect ==
  /\ revised /\ FetchGitStatus /\ revised' = FALSE
  /\ UNCHANGED <<repo, view, files, choice, diffs, undoable, call, undo, requests>>

(* A focused window (syncWithDisk) or F5: the page looks again.  That no   *)
(* commit is running was looked at before the calls that come first.       *)
SyncWithDisk ==
  /\ Ask
  /\ \/ FetchGitStatus /\ UNCHANGED revised
     \/ revised' = TRUE /\ UNCHANGED <<stats, fresh>>
  /\ UNCHANGED <<repo, view, files, choice, diffs, undoable, call, undo>>

(* The calls of one request read one after the other, and each may fail: *)
(* what it asks for is then empty                                        *)
StatusReads(i) ==
  /\ stats[i].at # "free"
  /\ \/ /\ ~stats[i].gotFiles
        /\ stats' = [stats EXCEPT ![i].files = Dirty, ![i].gotFiles = TRUE]
     \/ /\ ~stats[i].gotUndo
        /\ stats' = [stats EXCEPT ![i].undo = Undoable, ![i].gotUndo = TRUE]
  /\ UNCHANGED <<repo, view, files, choice, diffs, revised, undoable, call, undo, requests, fresh>>
StatusFails(i) ==
  /\ stats[i].at # "free"
  /\ \/ ~stats[i].gotFiles /\ stats' = [stats EXCEPT ![i].at = "failed", ![i].gotFiles = TRUE]
     \/ ~stats[i].gotUndo /\ stats' = [stats EXCEPT ![i].at = "failed", ![i].gotUndo = TRUE]
  /\ UNCHANGED <<repo, view, files, choice, diffs, revised, undoable, call, undo, requests, fresh>>

(* loadDiff supersedes the loads before it *)
AskedFor(f, from) == [NoLoad EXCEPT !.at = "asked", !.of = f, !.from = from, !.live = TRUE]
LoadDiff(f, from) ==
  /\ SomeFree(loads)
  /\ loads' = [Superseded(loads) EXCEPT ![FreeIn(loads)] = AskedFor(f, from)]
  /\ loadingDiff' = TRUE /\ selectedFile' = f /\ source' = from

(* refreshSelectedDiff reads the open file again *)
Checking(f) == [NoLoad EXCEPT !.at = "asked", !.kind = "check", !.of = f]
Check ==
  IF view = "changes" /\ source = "working" /\ selectedFile \in files
    THEN /\ SomeFree(loads)
         /\ loads' = [loads EXCEPT ![FreeIn(loads)] = Checking(selectedFile)]
    ELSE UNCHANGED loads

(* The effect of a changed list: the open file, or the first, or nothing *)
ShowFirst(got) ==
  IF view # "changes" \/ source = "stash" THEN UNCHANGED diffs
  ELSE IF got = {}
    THEN /\ loads' = Superseded(loads)
         /\ selectedFile' = NoFile /\ shown' = NoDiff /\ UNCHANGED <<source, loadingDiff>>
    ELSE /\ LoadDiff(IF selectedFile \in got THEN selectedFile ELSE CHOOSE f \in got : TRUE, "working")
         /\ UNCHANGED shown

(* (a bug: a new list forgets what was chosen) *)
KeptNothing(f, got) == FALSE
KeptIn(f, got) == f \in got
(* (a bug: the diff is left as it was when the list is the same) *)
CheckNothing == UNCHANGED loads
CheckOpenFile == Check

StatusAnswered(i) ==
  LET s == stats[i]  got == s.files IN
  /\ s.gotFiles /\ s.gotUndo
  /\ stats' = [stats EXCEPT ![i] = NoStat]
  /\ IF ~s.live
       THEN /\ CheckOpenFile /\ UNCHANGED <<files, sel, outrun, undoable, selectedFile, source,
                                            shown, loadingDiff, fresh>>
       ELSE /\ files' = got
            /\ sel' = [f \in Files |-> IF KeptIn(f, got) THEN sel[f] ELSE All]
            /\ outrun' = outrun \union {f \in Files \ got : chosen[f].kind # "all"}
            /\ undoable' = s.undo
            /\ fresh' = (fresh /\ s.at # "failed")
            /\ IF got # files THEN ShowFirst(got)
               ELSE CheckOpenFile /\ UNCHANGED <<selectedFile, source, shown, loadingDiff>>
  /\ UNCHANGED <<repo, view, chosen, picked, revised, call, undo, requests>>

----------------------------------------------------------------------------
(* The diff *)

LoadReads(i) ==
  /\ loads[i].at = "asked"
  /\ \/ loads' = [loads EXCEPT ![i].at = "answered", ![i].content = IF loads[i].from = "working" THEN disk[loads[i].of] ELSE 0]
     \/ loads' = [loads EXCEPT ![i].at = "failed"]
  /\ UNCHANGED <<repo, view, files, choice, selectedFile, source, shown, loadingDiff, revised,
                 undoable, stats, call, undo, requests, fresh>>

(* (a bug: lines picked on another diff are kept) *)
KeepsLines(s, c) == TRUE
StillOf(s, c) == s.kind # "partial" \/ s.hash = c

(* The answer of loadDiff.  fetchUncommitedDiff looks at the lines chosen  *)
(* before it is known whether the answer is the latest.                    *)
LoadAnswered(i) ==
  LET l == loads[i]
      read == l.at = "answered" /\ l.from = "working" IN
  /\ l.at \in {"answered", "failed"} /\ l.kind = "load"
  /\ loads' = [loads EXCEPT ![i] = NoLoad]
  /\ sel' = IF read /\ ~StillOf(sel[l.of], l.content) THEN [sel EXCEPT ![l.of] = All] ELSE sel
  /\ outrun' = IF read /\ ~l.live THEN outrun \union {l.of} ELSE outrun
  /\ IF l.live
       THEN /\ shown' = IF read THEN [of |-> l.of, content |-> l.content] ELSE NoDiff
            /\ loadingDiff' = FALSE
            /\ fresh' = (fresh /\ l.at # "failed")
       ELSE UNCHANGED <<shown, loadingDiff, fresh>>
  /\ UNCHANGED <<repo, view, files, chosen, picked, selectedFile, source, revised, undoable, stats,
                 call, undo, requests>>

(* refreshSelectedDiff: another content is loaded.  Contents may come back:*)
(* a load under way may then still bring what was in between.              *)
CheckAnswered(i) ==
  LET l == loads[i]  others == [loads EXCEPT ![i] = NoLoad]
      current == l.at = "answered" /\ selectedFile = l.of /\ source = "working" IN
  /\ l.at \in {"answered", "failed"} /\ l.kind = "check"
  /\ IF current /\ ~(shown.of # NoFile /\ shown.content = l.content)
       THEN /\ loads' = [Superseded(others) EXCEPT ![i] = AskedFor(l.of, "working")]
            /\ loadingDiff' = TRUE /\ UNCHANGED fresh
       ELSE /\ loads' = others /\ UNCHANGED loadingDiff
            /\ fresh' = (fresh /\ l.at # "failed" /\ ~\E j \in Slots : others[j].live)
  /\ UNCHANGED <<repo, view, files, choice, selectedFile, source, shown, revised, undoable, stats,
                 call, undo, requests>>

----------------------------------------------------------------------------
(* The user *)

SelectFile(f) ==
  /\ view = "changes" /\ f \in files /\ Ask /\ LoadDiff(f, "working")
  /\ UNCHANGED <<repo, view, files, choice, shown, revised, undoable, stats, call, undo, fresh>>

ShowStash(f) ==
  /\ view = "changes" /\ Ask /\ LoadDiff(f, "stash")
  /\ UNCHANGED <<repo, view, files, choice, shown, revised, undoable, stats, call, undo, fresh>>

ViewChanges ==
  /\ Ask /\ view' = "changes"
  /\ IF files = {} THEN selectedFile' = NoFile /\ shown' = NoDiff /\ UNCHANGED <<source, loadingDiff, loads>>
     ELSE LoadDiff(CHOOSE f \in files : TRUE, "working") /\ UNCHANGED shown
  /\ UNCHANGED <<repo, files, choice, revised, undoable, stats, call, undo, fresh>>

(* The history tab, and the first diff of the commit it shows, which is    *)
(* loaded whatever tab is open when its list of files has come             *)
ViewHistory ==
  /\ Ask /\ view' = "history" /\ selectedFile' = NoFile /\ shown' = NoDiff
  /\ UNCHANGED <<repo, files, choice, source, loadingDiff, loads, revised, undoable, stats, call,
                 undo, fresh>>
ShowCommit(f) ==
  /\ LoadDiff(f, "commit") /\ Ask
  /\ UNCHANGED <<repo, view, files, choice, shown, revised, undoable, stats, call, undo, fresh>>

Choose(f, s) ==
  /\ sel' = [sel EXCEPT ![f] = s]
  /\ chosen' = [chosen EXCEPT ![f] = IF disk[f] = 0 \/ (s.kind = "partial" /\ s.hash # disk[f]) THEN All ELSE s]
  /\ outrun' = outrun \ {f}

ToggleFileSelection(f) ==
  /\ view = "changes" /\ f \in files /\ Ask
  /\ Choose(f, IF sel[f].kind = "all" THEN Excluded ELSE All)
  /\ UNCHANGED <<repo, view, files, picked, diffs, revised, undoable, stats, call, undo, fresh>>

(* (a bug: lines may be picked while the next diff is loading) *)
CanSelectAlways == view = "changes" /\ source = "working" /\ selectedFile # NoFile /\ shown.of # NoFile
CanSelectLines ==
  /\ view = "changes" /\ source = "working" /\ ~loadingDiff
  /\ selectedFile # NoFile /\ shown.of # NoFile /\ shown.content # 0

(* setDiffLines: some lines of the diff, under its hash *)
SetDiffLines ==
  /\ CanSelectLines /\ Ask
  /\ Choose(selectedFile, Partial(shown.content))
  /\ picked' = picked \union {<<shown.of, shown.content>>}
  /\ UNCHANGED <<repo, view, files, diffs, revised, undoable, stats, call, undo, fresh>>

----------------------------------------------------------------------------
(* Commit, discard, undo *)

Send(what, req) ==
  /\ call.at = "idle" /\ Ask
  /\ call' = [NoCall EXCEPT !.at = "sent", !.what = what, !.req = req]
  /\ UNCHANGED <<repo, view, files, sel, chosen, outrun, diffs, revised, undoable, stats, undo, fresh>>
SelectedRequests == [f \in {g \in files : sel[g].kind # "none"} |-> sel[f]]
SendSelected(what) == DOMAIN SelectedRequests # {} /\ Send(what, SelectedRequests) /\ UNCHANGED picked
Commit == undo.at = "idle" /\ SendSelected("commit")
Discard ==
  \/ SendSelected("discard")
  \/ \* discardFile and discardAll
     \E fs \in {{f} : f \in files} \union ({files} \ {{}}) : Send("discard", [g \in fs |-> All]) /\ UNCHANGED picked
  \/ \* discardHunk: the lines are those of a part of the diff that is shown
     /\ CanSelectLines /\ selectedFile \in files
     /\ Send("discard", [g \in {selectedFile} |-> Partial(shown.content)])
     /\ picked' = picked \union {<<shown.of, shown.content>>}

(* The handlers: lines of a file that is no longer what it was are refused *)
(* (a bug: they are not) *)
TakesAny(req) == TRUE
Unchanged(req) == \A f \in DOMAIN req : req[f].kind = "partial" => req[f].hash = disk[f]
Take ==
  /\ call.at = "sent"
  /\ \/ /\ Unchanged(call.req)
        /\ \E rest \in [DOMAIN call.req -> Contents] :
             /\ \A f \in DOMAIN call.req :
                  IF call.req[f].kind = "all" THEN rest[f] = 0 ELSE rest[f] \notin {0, disk[f]}
             /\ disk' = [f \in Files |-> IF f \in DOMAIN call.req THEN rest[f] ELSE disk[f]]
        /\ chosen' = [f \in Files |-> IF f \in DOMAIN call.req THEN All ELSE chosen[f]]
        /\ fresh' = FALSE
        /\ IF call.what = "discard"
             THEN /\ call' = [call EXCEPT !.at = "done"]
                  /\ UNCHANGED <<log, undoneHead, numbered>>
             ELSE /\ numbered < MaxCommits /\ numbered' = numbered + 1
                  /\ log' = Append(log, numbered + 1) /\ undoneHead' = NoCommit
                  /\ call' = [call EXCEPT !.at = "done", !.id = numbered + 1]
     \/ /\ call' = [call EXCEPT !.at = "failed"]
        /\ UNCHANGED <<disk, chosen, log, undoneHead, numbered, fresh>>
  /\ UNCHANGED <<edits, view, files, sel, outrun, picked, diffs, revised, undoable, stats, undo,
                 requests>>

Forget(fs) ==
  /\ sel' = [f \in Files |-> IF f \in fs THEN All ELSE sel[f]]
  /\ chosen' = [f \in Files |-> IF f \in fs THEN All ELSE chosen[f]]

(* A commit makes the status requests before it stale; both make the page  *)
(* look again                                                              *)
CallAnswered ==
  /\ call.at \in {"done", "failed"} /\ call' = NoCall
  /\ IF call.at = "failed" THEN UNCHANGED <<sel, chosen, revised, undoable, stats>>
     ELSE /\ revised' = TRUE
          /\ IF call.what = "discard"
               THEN Forget(DOMAIN call.req) /\ UNCHANGED <<undoable, stats>>
               ELSE /\ Forget(Files)
                    /\ undoable' = call.id
                    /\ stats' = Stale(stats)
  /\ UNCHANGED <<repo, view, files, outrun, picked, diffs, undo, requests, fresh>>

(* handleUndoCommit, from the commit box, or from the menu of the commit,  *)
(* which does not look whether a commit is running.  A refresh under way   *)
(* is dropped, and only an undo that succeeds starts another.              *)
Undo ==
  /\ undo.at = "idle" /\ undoable # NoCommit /\ Ask
  /\ undo' = [NoUndo EXCEPT !.at = "sent", !.named = undoable]
  /\ undoable' = NoCommit
  /\ stats' = Stale(stats)
  /\ fresh' = (fresh /\ ~\E i \in Slots : stats[i].live)
  /\ UNCHANGED <<repo, view, files, choice, diffs, revised, call>>

(* UndoLastCommit takes no name: it undoes what can be undone by now.  The *)
(* files of the commit show as changed again.                              *)
UndoLastCommit ==
  /\ undo.at = "sent"
  /\ \/ /\ Undoable # NoCommit
        /\ undo' = [undo EXCEPT !.at = "done"]
        /\ log' = Front(log)
        /\ undoneHead' = IF Len(log) > 1 THEN log[Len(log) - 1] ELSE NoCommit
        /\ \E f \in Files, c \in Contents \ {0} :
             disk' = [disk EXCEPT ![f] = c] /\ chosen' = Void(f, c)
        /\ fresh' = FALSE
     \/ /\ undo' = [undo EXCEPT !.at = "failed"]
        /\ UNCHANGED <<log, undoneHead, disk, chosen, fresh>>
  /\ UNCHANGED <<numbered, edits, view, files, sel, outrun, picked, diffs, revised, undoable, stats,
                 call, requests>>

(* An undo that fails puts back what the page showed when it was asked,    *)
(* over whatever a refresh has brought since                               *)
UndoAnswered ==
  /\ undo.at \in {"done", "failed"} /\ undo' = NoUndo
  /\ IF undo.at = "done" THEN view' = "changes" /\ revised' = TRUE /\ UNCHANGED <<undoable, fresh>>
     ELSE /\ undoable' = undo.named /\ fresh' = (fresh /\ undoable = undo.named)
          /\ UNCHANGED <<view, revised>>
  /\ UNCHANGED <<repo, files, choice, diffs, stats, call, requests>>

----------------------------------------------------------------------------
ChangesNext ==
  \/ \E f \in Files :
       \/ \E c \in Contents : EditOutside(f, c)
       \/ SelectFile(f) \/ ShowStash(f) \/ ShowCommit(f) \/ ToggleFileSelection(f)
  \/ CommitElsewhere \/ RevisionEffect \/ SyncWithDisk
  \/ \E i \in Slots :
       StatusReads(i) \/ StatusFails(i) \/ StatusAnswered(i) \/ LoadReads(i) \/ LoadAnswered(i) \/ CheckAnswered(i)
  \/ ViewChanges \/ ViewHistory \/ SetDiffLines
  \/ Commit \/ Discard \/ Take \/ CallAnswered \/ Undo \/ UndoLastCommit \/ UndoAnswered
ChangesSpec == ChangesInit /\ [][ChangesNext]_changeVars

----------------------------------------------------------------------------
(* The lines of a choice that can be added to are lines of the diff that   *)
(* is shown (setLines carries their numbers over to the new hash).         *)
LinesAreOfTheDiffShown ==
  CanSelectLines /\ sel[selectedFile].kind = "partial" => shown = [of |-> selectedFile, content |-> sel[selectedFile].hash]
(* What a commit, a discard of the chosen lines or a discard of a hunk     *)
(* takes of a part of a file are lines the user picked on the very content *)
(* the file has when the handler takes them (DiffHash, in Commit and in    *)
(* DiscardChanges).                                                        *)
LinesTakenAsPicked ==
  [][\A f \in DOMAIN call.req :
       call.at = "sent" /\ call'.at = "done" /\ call.req[f].kind = "partial"
         => <<f, disk[f]>> \in picked]_changeVars

(* A choice holds until it is used or the file changes: a file that was    *)
(* left out is not in the next commit, and a part is not the whole.        *)
(* Exempt are a status whose list fails, which empties the list, a list    *)
(* read while the file was not changed, and a file two of whose diffs were *)
(* under way at once.                                                      *)
ChoiceIsKept ==
  \A f \in (files \intersect Dirty) \ outrun :
    chosen[f].kind # "all" => sel[f] = chosen[f]

(* Once all is quiet after a refresh, the page shows the repository: its   *)
(* changes, its last commit and the present diff of the open file          *)
(* (refreshWorkingTree and the request numbers).                           *)
Quiet ==
  /\ ~revised /\ call.at = "idle" /\ undo.at = "idle"
  /\ \A i \in Slots : stats[i].at = "free" /\ loads[i].at = "free"
QuietPageIsTrue ==
  Quiet /\ fresh =>
    /\ files = Dirty /\ undoable = Undoable
    /\ view = "changes" /\ source = "working" /\ selectedFile # NoFile
         => selectedFile \in files /\ ~loadingDiff /\ shown = [of |-> selectedFile, content |-> disk[selectedFile]]
=============================================================================
