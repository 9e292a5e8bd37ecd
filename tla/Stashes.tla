------------------------------- MODULE Stashes -------------------------------
(***************************************************************************)
(* What OctoHub does to uncommitted changes: it sets them aside when a     *)
(* branch or a commit is checked out (ChangeBranch, git_branch_handler.go),*)
(* keeps a copy of what it discards (DiscardChanges, git_discard.go) and   *)
(* restores or drops what is listed (PopStash, DropStash).                 *)
(*                                                                         *)
(* Each of these is a sequence of git commands, and each command looks up  *)
(* the repository of its window again (runGit, git_handler.go): the        *)
(* commands of two windows interleave, and so does a change of repository. *)
(* A stash is named by its position.  The changes are those of the files   *)
(* an operation is asked for: what a discard is not asked for it leaves.   *)
(***************************************************************************)
EXTENDS Naturals, Sequences, SequencesExt

CONSTANTS Windows, Repos,
          Branches,   \* of every repository
          Changes,    \* uncommitted changes, each made once
          MaxStashes, \* bound: stashes made in all
          MaxOps      \* bound: operations asked for in all
ASSUME StashesAssumption == MaxStashes \in Nat /\ MaxOps \in Nat

VARIABLES
  workspace,  \* workspaces: the repository of a window
  branch,     \* what HEAD is on
  tree,       \* the uncommitted changes of a working tree
  headed,     \* the repositories whose HEAD has a commit
  committed,  \* the changes that the commits of a repository have taken
  stashes,    \* the stash list of a repository, newest first
  op,         \* the operation of a window: the command it is about to run
  pointed,      \* the stash its user points at, in the list as it was read then
  changed,       \* changes made so far
  dropped,    \* stashes dropped: the one the user named, the one that went
  exposed,    \* changes that a discard took with nothing to vouch for (history)
  stored,   \* stashes made so far
  ops
stashVars == <<workspace, branch, tree, headed, committed, stashes, op, pointed, changed, dropped, exposed, stored, ops>>

NoName == [pos |-> 0, id |-> 0, drop |-> FALSE]
(* what, the command that is next, the arguments, what it found; and, as   *)
(* history, the stash it made, what that holds, the repository it works in *)
(* and whether it is alone: nobody came between its commands, and a        *)
(* discard found a commit to make its copy of                              *)
NoOp == [what |-> "none", at |-> "idle", target |-> "none", leave |-> FALSE, dirty |-> FALSE,
         stash |-> 0, held |-> {}, repo |-> "none", alone |-> TRUE]

StashesTypeOK ==
  /\ workspace \in [Windows -> Repos] /\ branch \in [Repos -> Branches]
  /\ tree \in [Repos -> SUBSET Changes] /\ committed \in [Repos -> SUBSET Changes] /\ headed \subseteq Repos
  /\ \A r \in Repos : \A i \in DOMAIN stashes[r] :
       stashes[r][i] \in [id : 1 .. MaxStashes, on : Branches, holds : SUBSET Changes]
  /\ \A w \in Windows :
       /\ op[w].what \in {"none", "change", "discard"}
       /\ op[w].at \in {"idle", "status", "push", "checkout", "unpush", "pop",
                        "head", "copy", "store", "restore", "done", "failed"}
       /\ pointed[w] \in [pos : 0 .. MaxStashes, id : 0 .. MaxStashes, drop : BOOLEAN]
  /\ changed \subseteq Changes /\ exposed \subseteq Changes
  /\ dropped \subseteq [named : 0 .. MaxStashes, taken : 1 .. MaxStashes, holds : SUBSET Changes]
  /\ stored \in 0 .. MaxStashes /\ ops \in 0 .. MaxOps

StashesInit ==
  /\ \E r \in Repos : workspace = [w \in Windows |-> r]
  /\ \E b \in Branches : branch = [r \in Repos |-> b]
  /\ headed \in SUBSET Repos /\ committed = [r \in Repos |-> {}]
  /\ tree = [r \in Repos |-> {}] /\ stashes = [r \in Repos |-> << >>]
  /\ op = [w \in Windows |-> NoOp]
  /\ pointed = [w \in Windows |-> NoName]
  /\ changed = {} /\ dropped = {} /\ exposed = {} /\ stored = 0 /\ ops = 0

----------------------------------------------------------------------------
(* Operations in the same repository stop being alone when another moves   *)
(* its stashes, its changes or its branch                                  *)
Disturbed(r) ==
  [v \in Windows |-> IF op[v].repo = r THEN [op[v] EXCEPT !.alone = FALSE] ELSE op[v]]
(* one git command of the operation of w, which goes on to the next *)
Command(w, r, next) == op' = [Disturbed(r) EXCEPT ![w] = next]

(* The user, an editor or a build changes a file *)
EditFile(c, r) ==
  /\ c \notin changed /\ changed' = changed \union {c}
  /\ tree' = [tree EXCEPT ![r] = @ \union {c}]
  /\ op' = [v \in Windows |-> IF op[v].repo = r /\ op[v].at \in {"store", "restore"}
                             THEN [op[v] EXCEPT !.alone = FALSE] ELSE op[v]]
  /\ UNCHANGED <<workspace, branch, headed, committed, stashes, pointed, dropped, exposed, stored, ops>>

(* Commit takes some of the changes; the first one gives HEAD a commit *)
CommitTaken(w, taken) ==
  LET r == workspace[w] IN
  /\ ops < MaxOps /\ ops' = ops + 1
  /\ tree' = [tree EXCEPT ![r] = @ \ taken] /\ committed' = [committed EXCEPT ![r] = @ \union taken]
  /\ headed' = headed \union {r} /\ op' = Disturbed(r)
  /\ UNCHANGED <<workspace, branch, stashes, pointed, changed, dropped, exposed, stored>>

(* UndoLastCommit gives them back, and the first one leaves HEAD without   *)
UndoCommit(w, back, first) ==
  LET r == workspace[w] IN
  /\ r \in headed /\ ops < MaxOps /\ ops' = ops + 1
  /\ tree' = [tree EXCEPT ![r] = @ \union back] /\ committed' = [committed EXCEPT ![r] = @ \ back]
  /\ headed' = (IF first THEN headed \ {r} ELSE headed) /\ op' = Disturbed(r)
  /\ UNCHANGED <<workspace, branch, stashes, pointed, changed, dropped, exposed, stored>>

(* SelectRepository: the window's next command runs elsewhere *)
SelectRepository(w, r) ==
  /\ r # workspace[w] /\ ops < MaxOps /\ ops' = ops + 1
  /\ workspace' = [workspace EXCEPT ![w] = r]
  /\ op' = [op EXCEPT ![w].alone = FALSE]
  /\ UNCHANGED <<branch, tree, headed, committed, stashes, pointed, changed, dropped, exposed, stored>>

(* ListStashes: those made on the branch HEAD is on, each by its position *)
ListStashes(r) == {i \in DOMAIN stashes[r] : stashes[r][i].on = branch[r]}

(* stash push -u, or store: the newest stash is the first *)
Stashed(r, changes) == <<[id |-> stored + 1, on |-> branch[r], holds |-> changes]>> \o stashes[r]

(* The operation goes on knowing the stash it made *)
Knowing(o, next, stash, held) == [o EXCEPT !.at = next, !.stash = stash, !.held = held]

(* stash pop: applied and removed; refused, where the working tree is in   *)
(* the way; or applied with conflicts, and kept                            *)
Pop(r, pos, applied, removed) ==
  IF pos \notin DOMAIN stashes[r] THEN UNCHANGED <<tree, stashes>>
  ELSE /\ tree' = IF applied THEN [tree EXCEPT ![r] = @ \union stashes[r][pos].holds] ELSE tree
       /\ stashes' = IF removed THEN [stashes EXCEPT ![r] = RemoveAt(@, pos)] ELSE stashes
Outcomes == {<<TRUE, TRUE>>, <<TRUE, FALSE>>, <<FALSE, FALSE>>}
Popped(r, pos, outcome) == pos \in DOMAIN stashes[r] /\ outcome[2]

----------------------------------------------------------------------------
(* ChangeBranch and CheckoutCommit, as switchBranch and checkoutCommit ask *)
Start(w, what, target, leave) ==
  /\ op[w].what = "none" /\ ops < MaxOps /\ ops' = ops + 1
  /\ op' = [op EXCEPT ![w] =
       [what |-> what, at |-> IF what = "change" THEN "status" ELSE "head", target |-> target, leave |-> leave,
        dirty |-> FALSE, stash |-> 0, held |-> {}, repo |-> workspace[w], alone |-> TRUE]]
  /\ UNCHANGED <<workspace, branch, tree, headed, committed, stashes, pointed, changed, dropped, exposed, stored>>

HasUncommittedChanges(w) ==
  LET dirty == tree[workspace[w]] # {} IN
  /\ op[w].at = "status"
  /\ op' = [op EXCEPT ![w].dirty = dirty, ![w].at = IF dirty THEN "push" ELSE "checkout"]
  /\ UNCHANGED <<workspace, branch, tree, headed, committed, stashes, pointed, changed, dropped, exposed, stored, ops>>

(* with nothing to set aside git stores nothing, and answers no error;     *)
(* with something it may fail, and without a commit it does                *)
StashPush(w) ==
  LET r == workspace[w] IN
  /\ op[w].at = "push"
  /\ \/ /\ tree[r] = {} /\ op' = [op EXCEPT ![w].at = "checkout"]
        /\ UNCHANGED <<tree, stashes, stored>>
     \/ /\ tree[r] # {} /\ r \in headed /\ stored < MaxStashes
        /\ stashes' = [stashes EXCEPT ![r] = Stashed(r, tree[r])]
        /\ tree' = [tree EXCEPT ![r] = {}]
        /\ stored' = stored + 1
        /\ Command(w, r, Knowing(op[w], "checkout", stored + 1, tree[r]))
     \/ /\ tree[r] # {} /\ op' = [op EXCEPT ![w].at = "failed"]
        /\ UNCHANGED <<tree, stashes, stored>>
  /\ UNCHANGED <<workspace, branch, headed, committed, pointed, changed, dropped, exposed, ops>>

(* (a bug: the changes are brought along though the user leaves them) *)
PopAlways(o) == o.dirty
BringsBack(o) == o.dirty /\ ~o.leave

Checkout(w) ==
  LET r == workspace[w] IN
  /\ op[w].at = "checkout"
  /\ \/ /\ branch' = [branch EXCEPT ![r] = op[w].target] /\ headed' = headed \union {r}
        /\ Command(w, r, [op[w] EXCEPT !.at = IF BringsBack(op[w]) THEN "pop" ELSE "done"])
     \/ /\ op' = [op EXCEPT ![w].at = IF op[w].dirty THEN "unpush" ELSE "failed"]
        /\ UNCHANGED <<branch, headed>>
  /\ UNCHANGED <<workspace, tree, committed, stashes, pointed, changed, dropped, exposed, stored, ops>>

StashPop(w) ==
  LET r == workspace[w] IN
  /\ op[w].at \in {"pop", "unpush"}
  /\ \E outcome \in Outcomes :
       /\ Pop(r, 1, outcome[1], outcome[2])
       /\ Command(w, r, [op[w] EXCEPT !.at = IF op[w].at = "pop" /\ Popped(r, 1, outcome) THEN "done" ELSE "failed"])
  /\ UNCHANGED <<workspace, branch, headed, committed, pointed, changed, dropped, exposed, stored, ops>>

----------------------------------------------------------------------------
(* DiscardChanges: where HEAD has a commit, a copy is stored first, and    *)
(* without it nothing is discarded                                         *)
(* (a bug: the copy may fail) *)
AfterAnyCopy(w, copied) == "restore"
AfterCopy(w, copied) == IF copied THEN "restore" ELSE "failed"

(* a look at HEAD that fails is taken for a HEAD without a commit *)
HasHead(w) ==
  /\ op[w].at = "head"
  /\ \/ workspace[w] \in headed /\ op' = [op EXCEPT ![w].at = "copy"]
     \/ op' = [op EXCEPT ![w] = [@ EXCEPT !.at = "restore", !.alone = FALSE]]
  /\ UNCHANGED <<workspace, branch, tree, headed, committed, stashes, pointed, changed, dropped, exposed, stored, ops>>

(* add and write-tree: a commit of what the tree has now, not listed yet *)
CopyChanges(w) ==
  LET r == workspace[w] IN
  /\ op[w].at = "copy"
  /\ \/ /\ r \in headed
        /\ op' = [op EXCEPT ![w] = [@ EXCEPT !.at = "store", !.held = tree[r], !.repo = r]]
     \/ op' = [op EXCEPT ![w].at = AfterCopy(w, FALSE)]
  /\ UNCHANGED <<workspace, branch, tree, headed, committed, stashes, pointed, changed, dropped, exposed, stored, ops>>

(* stash store lists it; another repository does not have that commit *)
StashStore(w) ==
  LET r == workspace[w] IN
  /\ op[w].at = "store"
  /\ \/ /\ r = op[w].repo /\ stored < MaxStashes
        /\ stashes' = [stashes EXCEPT ![r] = Stashed(r, op[w].held)]
        /\ stored' = stored + 1
        /\ Command(w, r, Knowing(op[w], AfterCopy(w, TRUE), stored + 1, op[w].held))
     \/ /\ op' = [op EXCEPT ![w].at = AfterCopy(w, FALSE)]
        /\ UNCHANGED <<stashes, stored>>
  /\ UNCHANGED <<workspace, branch, tree, headed, committed, pointed, changed, dropped, exposed, ops>>

(* apply, restore (or rm) and removeFiles, one after the other until one   *)
(* fails: each names lines or paths, and takes what is there by now        *)
Restore(w, taken, next) ==
  LET r == workspace[w] IN
  /\ op[w].at = "restore" /\ next \in {"restore", "done"}
  /\ tree' = [tree EXCEPT ![r] = @ \ taken]
  /\ exposed' = IF op[w].alone THEN exposed ELSE exposed \union taken
  /\ Command(w, r, [op[w] EXCEPT !.at = next])
  /\ UNCHANGED <<workspace, branch, headed, committed, stashes, pointed, changed, dropped, stored, ops>>

Settled(w) ==
  /\ op[w].at \in {"done", "failed"}
  /\ op' = [op EXCEPT ![w] = NoOp]
  /\ UNCHANGED <<workspace, branch, tree, headed, committed, stashes, pointed, changed, dropped, exposed, stored, ops>>

----------------------------------------------------------------------------
(* The user points at a stash of the list, to restore it (handlePopStash)  *)
(* or to drop it (handleDropStash, which asks again); a page that switches *)
(* keeps the position                                                      *)
Point(w, i, drop) ==
  /\ pointed[w] = NoName /\ ops < MaxOps /\ ops' = ops + 1
  /\ pointed' = [pointed EXCEPT ![w] = [pos |-> i, id |-> stashes[workspace[w]][i].id, drop |-> drop]]
  /\ UNCHANGED <<workspace, branch, tree, headed, committed, stashes, op, changed, dropped, exposed, stored>>

PopStash(w) ==
  LET r == workspace[w] IN
  /\ pointed[w] # NoName /\ ~pointed[w].drop
  /\ pointed' = [pointed EXCEPT ![w] = NoName]
  /\ \E outcome \in Outcomes : Pop(r, pointed[w].pos, outcome[1], outcome[2])
  /\ op' = Disturbed(r)
  /\ UNCHANGED <<workspace, branch, headed, committed, changed, dropped, exposed, stored, ops>>

DropStash(w) ==
  LET r == workspace[w]  pos == pointed[w].pos IN
  /\ pointed[w].drop /\ pointed' = [pointed EXCEPT ![w] = NoName]
  /\ IF pos \in DOMAIN stashes[r]
       THEN /\ stashes' = [stashes EXCEPT ![r] = RemoveAt(@, pos)]
            /\ dropped' = dropped \union
                 {[named |-> pointed[w].id, taken |-> stashes[r][pos].id, holds |-> stashes[r][pos].holds]}
            /\ op' = Disturbed(r)
       ELSE UNCHANGED <<stashes, dropped, op>>
  /\ UNCHANGED <<workspace, branch, tree, headed, committed, changed, exposed, stored, ops>>

StashesNext ==
  \/ \E c \in Changes, r \in Repos : EditFile(c, r)
  \/ \E w \in Windows :
       \/ \E r \in Repos : SelectRepository(w, r)
       \/ \E b \in Branches : b # branch[workspace[w]] /\ \E leave \in BOOLEAN : Start(w, "change", b, leave)
       \/ tree[workspace[w]] # {} /\ Start(w, "discard", "none", FALSE)
       \/ \E taken \in SUBSET tree[workspace[w]] : taken # {} /\ CommitTaken(w, taken)
       \/ \E back \in SUBSET committed[workspace[w]], first \in BOOLEAN : UndoCommit(w, back, first)
       \/ HasUncommittedChanges(w) \/ StashPush(w) \/ Checkout(w) \/ StashPop(w)
       \/ HasHead(w) \/ CopyChanges(w) \/ StashStore(w)
       \/ \E taken \in SUBSET tree[workspace[w]], next \in {"restore", "done"} : Restore(w, taken, next)
       \/ Settled(w) \/ PopStash(w) \/ DropStash(w)
       \/ \E i \in ListStashes(workspace[w]), drop \in BOOLEAN : Point(w, i, drop)
StashesSpec == StashesInit /\ [][StashesNext]_stashVars

----------------------------------------------------------------------------
(* A change is in a working tree, in a commit, in a stash or in a stash    *)
(* the user had dropped: "nada foi descartado" where the copy fails, and   *)
(* what is discarded can be restored.  Two discards may take what has no   *)
(* copy: one with another actor, or a change of repository, between its    *)
(* commands, and one that found no commit to make a copy of ("ainda não    *)
(* tem commits, então isso não pode ser desfeito", CommitHistoryPage.tsx). *)
NothingIsLost ==
  \A c \in changed \ exposed :
    \/ \E r \in Repos : c \in tree[r] \union committed[r] \/ \E i \in DOMAIN stashes[r] : c \in stashes[r][i].holds
    \/ \E d \in dropped : c \in d.holds

(* Changing branches ends with the changes where the user was told: left   *)
(* in the newest stash, or back in the working tree, which is also where   *)
(* a failed checkout puts them unless they cannot be applied; provided     *)
(* nobody else works in that repository meanwhile (ChangeBranch).          *)
ChangesComeBack ==
  \A w \in Windows : op[w].what = "change" /\ op[w].alone /\ op[w].stash # 0 =>
    LET kept == {i \in DOMAIN stashes[op[w].repo] : stashes[op[w].repo][i].id = op[w].stash} IN
    /\ op[w].at = "done" /\ ~op[w].leave => op[w].held \subseteq tree[op[w].repo] /\ kept = {}
    /\ op[w].at = "done" /\ op[w].leave  => 1 \in kept
    /\ op[w].at = "failed" => op[w].held \subseteq tree[op[w].repo] \/ 1 \in kept

(* "Tem certeza que deseja descartar este stash permanentemente?": the     *)
(* stash that goes is the one the question was asked about.                *)
DropTakesTheStashNamed == \A d \in dropped : d.named = d.taken
=============================================================================
