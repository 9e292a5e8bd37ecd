# Verification of Devops Hub

Devops Hub is a Wails desktop application: Go services called from React windows. This directory holds TLA+ models
of the parts whose behaviour depends on interleaving, failure or order, the TLC configurations that check them on
small instances, and proofs that TLAPS checks for every instance.

    tlc -workers 2 -config MCTerminalSessions.cfg MCTerminalSessions.tla
    tlapm TerminalSessionsProofs.tla

Paths below are relative to the repository; `src/` is its Go tree and `frontend/src/` its React tree.

## 1. The system

One process serves every window. A service method runs in a goroutine of its own for each call, so calls of one
window and of several interleave. The backend talks to a window through events (`desktop.EmitToWindow`,
`desktop.Broadcast`), which travel independently of the answers of calls. What belongs to a window is kept under
`ScopedKey(window, id)`; `notifyWindowClosed` and `NotifyModuleMoved` (`src/desktop/windows.go`) tell the services
that a window closed or that a module moved to another window.

| Component | State | Operations | Hard behaviour | Correct when | Modules |
|---|---|---|---|---|---|
| Terminal sessions (`src/ferretshell`) | `sync.Map` of sessions, each with its `sessionOutput`; `moveMutex` | connect, disconnect, attach, move, release, waiter | the map is lock-free except for moves and the waiter's removal | a session belongs to its key; the ended never return; output ordered; a terminal that changes its window is found by nothing until it is there | `TerminalSessions`, abstractly `TerminalService` |
| Cloud backup (`src/cloudSync`) | database with its `-wal` or its journal, `backups/`, `cloud-sync.json`, the file on the Drive | restore at start, restore and restart, upload, connect, disconnect | crashes between file operations, several computers, clocks, lost answers | a restore is atomic and loses nothing; what is announced happens | `CloudSync`, abstractly `VersionStore` |
| Sessions and login (`src/auth`, `src/types`, `AuthContext.tsx`) | sessions, window offers, one session key; a token per window | login, logout, offer, claim, expiry, ping | a claim spans three critical sections; events race answers | a window acts only for its user; offers do not linger | `WindowSessions` |
| TalpaDB query tabs (`query_handler.go`, `edit_handler.go`, `QueryTab.tsx`) | connection, `executionMutex`, `cancelRun`, transaction status; the grid and its edits | open, run, cancel, reconnect, save, close | cancel and close race a run; a connection is lost with an answer due; edits fail half way | no session without a tab; a save says what it did; open transactions are shown | `QuerySessions` |
| TalpaDB explorer (`ExplorerStore.ts`) | nodes, lists, loading and error marks | load, refresh, reset, collapse, select | late answers for nodes that were emptied or removed | the tree is whole, lists get newer | `ExplorerTree` |
| TalpaDB diagrams (`features/talpadb-module/workspace/diagram`) | the layout in refs, a timer, the row saved | arrange, reload, save, close | a delayed save, its failure, closing in between | the arrangement is kept | `DiagramLayout` |
| Tabs of TalpaDB and Vulpes (`TalpadbStore.ts`, `VulpesStore.ts`) | tabs, groups of panes, focus | open, close, drag, merge, detach | long sequences, requests about groups that are gone | every tab is in one group, what is active is shown | `TabGroups` |
| Vulpes realtime (`src/vulpes`, `RequestActions.ts`) | a session per tab, its event queue | connect, disconnect, close, forget | events race answers; sessions replace each other | every live session has an owner; the tab shows it | `RealtimeTabs` |
| OctoHub working tree (`git_branch_handler.go`, `git_discard.go`, `git_commits_handler.go`, `CommitHistoryPage.tsx`) | HEAD, working tree, stash list; the choice of lines on the page | change branch, discard, pop, drop; select lines, commit, undo | several git commands in a row, other windows and editors between them, late answers | no change lost; what is committed is what was chosen | `Stashes`, `WorkingChanges` |
| The rest | | | | | section 6 |

`PROJECT.json` lists every component with its files, and the hazards with the line where each bites.

## 2. The modules

### TerminalSessions

| Model | Code |
|---|---|
| `sessions` | `sshSessions` / `sessions`, the `sync.Map`; a key is `<<window, id>>` |
| `output[c]` | the `sessionOutput` of a connection: owner, paused, pending |
| `phase[c]` | unused, running, ended (`Wait` returned), forgotten (`forgetSession` done), done (notified) |
| `thread[t]` | a goroutine serving a call, or the release of a closed window, between two map operations |
| `mover` | `moveWindowSessions`, which holds `moveMutex` while `mover.pc # "unlocked"` |
| `produced`, `emitted`, `exitNotice` | chunks read, chunks sent to windows, the window told of the exit |

A `sync.Map` operation is one step; so is a method of `sessionOutput`, which runs under its mutex. `Disconnect`
is one step after its lookup: it sets `closedByClient`, which only the waiter reads and only once the session has
left the map, and ends the session, which the server may do at any time, so no other step can tell the three apart.
`Range` visits each key at most once, in any order, and may miss a key filled behind it, as the Go documentation says.
Bytes are numbered chunks. SSH and local shells share the model: they differ in how a session is dialled.

### TerminalService, TerminalPlaces

`TerminalService` is what terminals promise to the windows, without goroutines, locks or a map: a terminal is in one
place (a window and an id); of those in a place at most one, the last that was put there, is found by the calls of its
window; one that has ended is not found and the window that shows it is told; what is read is shown in order, and only
what waits for an attach may lose its beginning. A move is three steps of it, because it is visible in three: `Leave`
(the `Delete`: the terminal is not found, nor is a session that a connect stored there meanwhile), `Come` (`moveTo`:
its place, where its output and the notice of its end go, is the new window, and nothing finds it) and `Arrive` (the
`Store`: it is found, instead of a session that has been connected under the new key by then). What `moveMutex`
promises is in their guards: one terminal is on its way at a time, and it does not end before it has arrived.
`TerminalPlaces` maps `TerminalSessions` to it: a terminal is where its output goes, is found if a key of the map holds
it, and is over once its waiter has forgotten it. Run `terminal_stream` checks the refinement, `MovesKeepTerminals`, and
`TerminalSessionsProofs` proves it, also for several connections.

### CloudSync

| Model | Code |
|---|---|
| `main[m]`, `wal[m]` | the database file of a computer and its `-wal`; a content is the set of commits it results from |
| `torn[m]` | SQLite has begun to write the database file, in a checkpoint or in a commit, and has not ended: only the `-wal` or the journal beside it makes it whole |
| `backups[m]` | the `backups` directory, oldest first |
| `state[m]` | `cloud-sync.json`: account, `LastSyncedAt`, `LastSyncedHash` |
| `job[m]` | the restore or upload under way; `syncMutex` and the start order allow one |
| `drive[a]` | what was sent to an account, in order of arrival: `FindRemoteBackup` takes the last, an update replaces what has its id |
| `asked[m]` | the state that `status` read under `syncMutex`, while it asks the Drive without it |
| `shown[m]` | the settings or the login screen announce that a newer version will be restored |
| `versions`, `held`, `guarded`, `spoilt` | history variables; `spoilt` are the computers whose torn file a restore has replaced |

Each file operation of `Apply` and each exchange with the Drive is a step, and `Crash` or `Fail` may follow any.
`After` says where a failure leads: `RestoreBeforeOpen` and `UploadNow` go on with the app open, `ServiceShutdown`
and `RestoreAndRestart` end it. A hash equals another exactly if the contents do. Commits made while the process is
already shutting down, and the failure to restart it, are left out. Backups are ordered by age, not by their names.

How SQLite writes decides what a death leaves behind, so the model has both ways (`Wal`). `sqlite_config.go:35` asks for
a `-wal` file with `_journal_mode`, a parameter of another driver: the one of `go.mod` (`glebarez/sqlite`) reads
`_pragma`, so the application as it is built keeps SQLite's default, a rollback journal, unless its file was put in the
other mode before. With a `-wal` file a commit is an `Edit` of it, and a checkpoint writes the main file between
`WriteMain` and `Checkpoint`; with a journal each commit writes it, between `WriteMain` and `Edit` or `Rollback`. A process that
dies or exits in between leaves it torn. `backupLocalDatabase` and `replaceDatabase` know the `-wal` and the `-shm` (`sidecarSuffixes`)
but no journal: with a `-wal` file the copy of a torn file is whole, and the removal of the `-wal` before the
rename leaves no database until the rename; with a journal the copy is no database (`Copied`), and the journal stays beside
the file that is renamed into its place, where SQLite plays it back (`Rename`). `Damaged` is a content that is no
version.

### WindowSessions

| Model | Code |
|---|---|
| `owner`, `valid`, `offers` | `ManagerStruct`: sessions and `windowOffers`; a token is issued once |
| `window[w]`, `held[w]` | the life of a window and its `tokenRef` |
| `call[w]` | the login or the claim under way, by critical section |
| `clears[w]` | calls of `clearSession` on their way: of an `auth:changed(false)` event, of a logout that returns, of a ping that was refused |
| `sessionKey`, `secrets` | the variable of `types.go` and, for each secret written, its user and the user of the key |
| `entitled`, `leaving` | history variables |

### VersionStore, CloudSyncStore

`VersionStore` is what the backup promises without files, network or crashes: a database changes by a commit, or by
becoming in one step a version that has existed; while its backups are not full a computer keeps every commit.
`CloudSyncStore` maps `CloudSync` to it: the database of a computer is what SQLite would find if the process died now
(`Content`), what is kept is that and the backups. Once a restore has replaced a torn file (`broken`) nothing is promised
any more: what is left then need not be a version. Run `cloud_two_computers` checks the refinement, `RestoresAreAtomic`,
and `CloudSyncProofs` proves it.

### QuerySessions

| Model | Code |
|---|---|
| `tab`, `ref`, `tx`, `gridEdits`, `opening` | `QueryTab.tsx`: `sessionRef`, `txStatus`, the edits of `ResultGrid`, `openingRef` |
| `exec[t]`, `save[t]` | `ExecuteQuery` and `SaveTableChanges`, at the step their goroutine has reached |
| `sess[s]`, `lock[s]`, `cancelled[s]` | the session in the map, `executionMutex`, `cancelRun` |
| `txs[s]`, `lost[s]`, `pend[s]`, `db[t]` | the server's side: transaction status, connection, rows applied and committed |
| `closes`, `cancels` | `CloseQuerySession` and `CancelQuery` calls on their way |

A statement is one of select, begin, commit, rollback and one the server rejects; that is all the label of a tab and
the refusals of a save depend on. After a save the tab runs its last text again, which a run that overlapped it may
have replaced (`LastRun`). A row edited must match one row of the table, or is inserted; the server may say it
matched none. The sessions are those of PostgreSQL, which keep the most state.

### ExplorerTree

`nodes`, `children`, `expanded`, `loading`, `errors`, `selectedId`, `connected` and `roots` are those of the store, with
ids in place of paths; `Above` is what a path begins with, and a path that is extended does not come back to itself
(`PathsGetLonger`). A call of `loadChildren` is asked, then answered with what the catalogue holds at that moment,
then applied. `Toggle`, `Refresh`, `ResetServer`, `SyncServers`, `Select` and `CollapseAll` are the operations of the
store; creating and dropping change the catalogue and refresh.

### Stashes and WorkingChanges

`Stashes` is the backend: each git command of `ChangeBranch`, `CheckoutCommit` and `DiscardChanges` is a step, in the
repository its window has at that moment, and another window, an editor or a build may act between two. A pop
applies and removes, applies with conflicts and keeps, or is refused. A discard looks whether HEAD has a commit (`HasHead`,
which takes a look that fails for a no), copies what the tree has (`CopyChanges`: `read-tree` to `commit-tree`, of which `add`
reads the tree), lists the copy (`StashStore`), and takes the changes in one or more commands (`Restore`); without a commit it
takes them at once, and no copy exists. `headed` are the repositories whose HEAD has a commit; `CommitTaken` and `UndoCommit`
change that, and move changes between the tree and the commits. `exposed` records what a discard took that had changed
after its copy, or of which no copy was made.

`WorkingChanges` is the page: `changedFiles`, `selections`, `fileDiff`, the request numbers (as a mark on each call whose
answer still counts), and Commit, Discard and Undo with their answers. A content is a number and its diff the content;
a choice of a file is all, none, or lines of the diff of one content. A discard is of the chosen lines and files
(`SendSelected`, which a commit sends too), of one file, of all, or of a hunk of the diff shown. The calls of a status
request fail one by one. The first diff of a commit is loaded whatever tab is open by then (`ShowCommit`).

### TabGroups

One action per function of the store, each a single `set`. The order of groups and of panes is left out: where the
code takes the first pane that remains, the model takes any. A group without panes does not exist, so a fresh id is a group
without panes.

### DiagramLayout

The layout is five parts (keys only, line style, positions, edges, anchors), each the number of the user's change it
is from; 0 is what the program draws. `timer`, `sending` and `row` are the 600 ms timer, the calls of
`SaveDiagramLayout` on their way, in any order, and the row of the database. A table follows the mouse from the first pixel,
but up to three pixels are no move for `handleUp` (`Nudge`): the layout has changed, and no save is scheduled. `wanted`
is the layout as of the last change that schedules one, or of the last save, which takes a nudge before it along; `nudged` says that the tab
shows more than that.

### RealtimeTabs

`status` and `listening` are the tab's; `queue` the events on their way, in the order they were emitted; `attempt[c]` and
`session[c]` the call and the session of each connection; `registered` the entry of the map under the tab's key.
`RegisterSession` ends with its critical section: the session it replaced is closed in the next step.

### MCWorkbench

The six modules above that share no variable, in one run: `focus` says which page a behaviour follows, and the others
stutter. The properties of a page are those of its own behaviours (`PagesKeepTheirSpecs`, section 5).

## 3. The runs

| Run | Bounds | Shows |
|---|---|---|
| `terminal_sessions` | 2 windows, 1 id, 2 connections, 2 goroutines and a move; no output; 668 000 states | `TypeOK`, `SessionBelongsToItsKey`, `ForgottenStaysForgotten`, `NoticeFollowsSession` |
| `terminal_stream` | 1 connection, 3 chunks, a buffer of 2; fairness; 370 000 states | `GapsOnlyFromOverflow`, `MovesKeepTerminals` (refinement), `ClosedSessionLeaves` |
| `terminal_closed_window` | as the first | **violated**: `ClosedWindowHoldsNothing` |
| `cloud_crashes` | 1 computer, 2 accounts, 2 commits, 3 faults, 2 backups kept, a `-wal` file; 3 139 000 states | `TypeOK`, `DatabaseIsAVersion`, `NothingLostLocally`, `SkippedUploadIsSafe` |
| `cloud_two_computers` | 2 computers, 1 account, 2 commits, 1 fault, 1 backup kept, a journal; 457 000 states | `RestoresAreAtomic` (refinement) |
| `cloud_careful_user` | 2 computers, 3 commits, 4 uploads, no fault, a journal; 65 000 states | `ContinuesWhereLeftOff` |
| `cloud_announced_restore` | 2 computers, no fault, no late answer of `status` | **violated**: `AnnouncedRestoreHolds` |
| `window_sessions` | the main and one detached window, 2 users, 3 tokens, 1 clear outstanding when another is asked for; 522 000 states | `TypeOK`, `OnlyEntitledUsers`, `WindowsShareNoToken`, `LogoutReachesHolders`, `NoOfferOutlivesItsWindow` |
| `window_secrets` | the same | **violated**: `SecretsUnderOwnKey` |
| `query_sessions` | 1 tab, 2 sessions, an update and an insert, 1 lost connection, 2 runs or cancels; fairness; 585 000 states | `QueryTypeOK`, `SessionHasItsTab`, `SaveTellsTheTruth`, `InsertedOnce`, `OpenTransactionIsShown`, `ClosedTabFreesItsConnection` |
| `workbench` | explorer: a server, a database, a schema, a group, 2 loads at once, 4 in all; stashes: 2 windows, 2 repositories, 2 branches, 1 change, 2 stashes, 3 operations; changes: 1 file, 2 contents, 1 edit from outside, 3 commits, 2 requests; groups: 4 tabs, 4 groups, splits of 3; diagram: 2 changes, opened twice; realtime: 2 connections; 644 000 states | `TreeIsWhole`, `OpenNodeShowsSomething`, `ListsGetNewer`; `NothingIsLost`, `ChangesComeBack`; `LinesAreOfTheDiffShown`, `LinesTakenAsPicked`, `ChoiceIsKept`, `QuietPageIsTrue`; `EveryTabHasItsPane`, `ActiveTabIsShown`; `ArrangementIsKept`, `TabShowsArrangement`; `EverySessionIsOwned`, `QuietTabShowsItsSession`; `BenchTypeOK` |
| `stash_drop` | the stashes alone | **violated**: `DropTakesTheStashNamed` |

The bounds are enough because conflicts are between two: two sessions for a key, a call against a move, two
computers, a user and the one before, a discard against another window, a connection against the one it replaces. Two
connections suffice for one to replace the other while it is moved, two
goroutines for a release or a connect against a disconnect. One id is enough in the terminal runs because keys of
different ids share nothing but the scans, which treat each key apart. Three chunks against a buffer of two
overflow it once and leave a chunk to follow. Three faults allow a crash in a restore, in its repetition and in an
upload. One query tab has two sessions because a tab replaces the one it lost, and tabs share only the map; an update
before an insert lets a save fail with a row done. Four tabs and splits of three make two groups that fit together and two that do
not. One edit from outside makes a diff stale that is read, shown or used. Two realtime connections make one replace the other; tabs
have different keys.

`CHECK_DEADLOCK FALSE` stands in each file because the system really stops: windows are closed, and
connections, commits, uploads, operations and tokens are bounded.

Symmetry is used in safety runs only, over sets none of whose members a property or a constant names. The constraint
`UntilLapse` of `workbench` stops at the first state in which a call about a diagram failed or crossed another: both
properties of diagrams are about states before it, and `lapse` is never reset.

### What the violated runs show

- `terminal_closed_window`: a window starts a connection and closes while it is dialled. `releaseWindowResources`
  finds nothing, `ConnectWith` then stores the session, which no window and no release reaches any more. README.md:76
  says that closing a window releases its resources. A move does the same to a window that closes while sessions are
  handed to it. `ClosedAloneHoldsNothing` proves that there is no third way.
- `cloud_announced_restore`: a computer connects to an account that has a backup. The settings announce that the
  version in the cloud will replace the local database at the next start; closing the app uploads the local database
  over it. `RestoreAndRestart`, which only the login screen offers, is the only way to take the cloud version.
  The run admits no late answer of `status`, which asks the Drive outside `syncMutex` and may announce what was pending
  when it read the state. `AnnouncementsHold` proves that this upload, late answers and clocks that disagree are the
  only causes.
- `window_secrets`: two windows are logged in as two users, because a window whose claim failed, or that was told of
  a logout, shows a login screen of its own. Whoever logs in last sets the key of the
  process, and the other window writes its secrets under it; `docs/privacy.html:67` promises a key derived from the
  user's own password. `OneUserKeepsSecrets` proves that secrets are under their owner's key if nobody logs in while
  another user is.
- `stash_drop`: a stash is dropped by its position. One made after the list was read, in another window or by git
  itself, shifts the positions, and the stash that goes is not the one `CommitHistoryPage.tsx:483` asked about.

### What holds with a condition

- `DatabaseIsAVersion`, `NothingLostLocally` and `RestoresAreAtomic` leave out what follows a restore over a file that was
  torn when the process died (`spoilt`): the first and the last on any computer, because what it then uploads others
  restore; the second on that computer. This is a defect, not a choice of the code: without the exception
  `NothingLostLocally` fails with one fault. The process dies while SQLite writes the database file, and the next start finds
  a newer version. The copy in `backups` is of the half-written file without its journal, because `sidecarSuffixes`
  (`sync.go:29`) names `-wal` and `-shm` only; the journal stays and is played back on the restored file; the commits are
  in neither, though `CloudSyncSettings.tsx:177` says that the database is kept in backups. With a `-wal` file the backups are
  whole, but a death between the removal of the `-wal` and the rename leaves a main file that is no database until a
  restore succeeds. `NothingIsLost` and `DatabasesAreVersions` prove that a torn file is the only cause.
- `NothingLostLocally` stops counting at `MaxBackups` backups: a restore that fails after the backup at six starts in
  a row prunes the backup that alone holds the commits of the removed `-wal`.
- `ContinuesWhereLeftOff` needs the careful user of `CarefulSpec` and clocks that agree. Without the first it is the
  finding above; without the second a later upload can look older than what another computer has.
- `LogoutReachesHolders` speaks of what a window holds at the logout. The answer of a claim under way is applied
  after the event, and that window stays logged in.
- A connect that lands between the `Range` and the `Delete` of a move loses its map entry (`MoveDelete` is
  unconditional, as in the code): that every running session can be found is not a property of this system.
- `SessionHasItsTab` holds until the logout: the unmount of a tab then finds no token to close its session with.
- `SaveTellsTheTruth` says nothing of the answer that a transaction failed. In a transaction of the user's own a row
  that matched nothing leaves the rows before it in place; the message says that the transaction has failed, which
  the server does not think, and a COMMIT keeps those rows.
- `InsertedOnce` leaves out a save that was asked for while a run was under way (`overlap`): neither button waits for
  the other, and the run clears the grid afterwards.
- `ListsGetNewer` leaves out nodes whose load a disconnect forgot while it was under way (`stray`).
- `NothingIsLost` leaves out what a discard took when an edit or another window came between its commands, and when it
  found no commit to make a copy of (`exposed`): `git_discard.go:60` then makes none, and the question of the page
  says that it cannot be undone (`CommitHistoryPage.tsx:676`); `ChangesComeBack` the changes of branch that were not alone in their repository.
- `ChoiceIsKept` leaves out files two of whose diffs were under way at once, what a failed status empties, and a choice
  made between the moment a list without its file was read and its answer: the answer drops the choice, and the file
  comes back chosen whole (`outrun`).
- `QuietTabShowsItsSession` leaves out tabs that asked for a connection while they had one (`crossed`), which the
  shortcut allows a gRPC stream: the end of the first hides the second.
- The properties of diagrams leave out what follows a failed call or two that crossed (`lapse`): a save sent later may
  be applied first, and a layout that cannot be read is overwritten by the next change. They also leave out where a
  table was put by a drag of three pixels or less (`nudged`): no save is scheduled for it (`DiagramTab.tsx:503`, `:525`), so a
  tab that is closed before the next save forgets it.

## 4. Fairness

Two runs assume any. In `terminal_stream`, `WF(ThreadStep)`, `WF(MoveStep)`, `WF(NotifyExit)`: the Go scheduler runs
every goroutine, a scan of a finite map ends, and a dial has a timeout. `SF(Forget)`: the waiter needs `moveMutex`, which
moves may take again and again; `sync.Mutex` hands the lock to a waiter that starves. Users are not assumed to act,
shells need neither write nor exit.

In `query_sessions`, weak fairness of the steps of each tab's calls (`QueryStep`) and of each session's close
(`SessionStep`): calls are delivered and answered. Neither the user nor a statement under way is fair: a statement may
run for ever; once it is cancelled or its connection is lost it ends (`RunBreaks`, `SaveBreaks`). Weak fairness suffices although calls
share `executionMutex`: the close waits for the lock alone, since a session that is marked closed starts no other run.

## 5. The proofs

All from the assumptions the modules state of their constants (the null values are not members of the sets, the
bounds are numbers, `Skew` is a number for each computer), and for any sets of windows, ids, connections, goroutines,
computers, accounts, users, tokens, tabs, session ids, statements and nodes. Of the explorer's ids they say what the
store makes of them: a server is its own parent, groups are the children of schemas, and ids are paths
(`ExplorerAssumption`, `PathsGetLonger`); of the session ids, that none is one of the marks of `opening`. None of the
properties is inductive; each module proves an invariant that is (`InitSafe`, `NextSafe`, one lemma or step for each
action), and the theorems follow from it.

`TerminalSessionsProofs`: `TypeCorrect`, `SessionsBelong`, `ForgottenIsFinal`, `NoticesFollow`. During a move the
mover holds a session that is in no key, or still in the key it was read from; a call holds one it looked up earlier.
`IInv` adds what ties them together: a connection that was never dialled is in no key; the
connection of the mover has not been forgotten, because `Forget` and the move exclude each other; and the key the
mover read agrees with the output of its connection until it has been emptied; from `moveTo` to the `Store` that output
names the window the session is moved to.
The same module proves `GapsAreOverflows`, with `StreamInv`: what a connection buffers is the last chunks read, without a
gap (`LastOf`); what the windows have is older and rising, and a chunk is missing only with `MaxPending` later ones there
(`GapsExcused`). An output that is not paused buffers nothing, and a connection not yet dialled has sent nothing
(`Flows`). No induction over the chunks is needed: writing, resuming and moving each keep this order (`Orderly`).

And it proves `Implements`, that `TerminalSessions` implements `TerminalService`, for which `PlaceInv` is added: a connection
has a key from its dial on, and a connect and a move know theirs. A step of a thread, a session or the mover is one step of
the service or none. A call that only looks a session up, and a move that begins or ends, are none; a disconnect
loses at most the terminal that the key held (`DisconnectLoses`), because a session is under one key (`KeyEmptied`); the
`Delete` of a move takes whatever is found in the place (`DeleteLeaves`), `moveTo` changes the place of a terminal that
no key holds (`MoveToComes`), and the `Store` takes the new place from whoever was found there (`StoreArrives`,
`KeyTaken`), because the mover's session has not been forgotten; a write reads one chunk and shows it or
lets it wait (`WriteReads`), which needs of `StreamInv` that nothing waits while the output is not paused.

`CloudSyncProofs`: `TypeCorrect`, `DatabasesAreVersions`, `NothingIsLost`, `SkippedUploads`. `IInv` says of each
computer, in both modes of SQLite, that what SQLite would find is a version, and what it had before it began to write
the main file is one (what is left when the `-wal` of a file that is not torn is removed), that a restore carries the
version it found, which has arrived in the account in use, that an upload carries a version under its own hash, and
that from the backup to the rename the backups alone hold every commit if the file is not torn. What it says of versions it
says until a restore replaces a torn file (`spoilt = {}`), what it says of a computer's backups until that computer's does. That the hash is checked is what
keeps a damaged download out; that the account changes only between jobs is what keeps the recorded hash true. A step
of one computer touches nothing another relies on but the Drive, where what has arrived stays (`OthersSafe`).

`WindowSessionsProofs`: `TypeCorrect`, `OnlyEntitled`, `TokensAreNotShared`, `LogoutsReach`, `OffersAreClaimable`.
`IInv` follows a session from the offer through the claim to the window: the offered token, the one being checked and
the answer under way all belong to users entitled in the window they are for, the answer is nowhere else yet, and a
window that is not open holds nothing.

`CloudSyncProofs` also proves `Implements`, that `CloudSync` implements `VersionStore`. Each step maps to a commit, to a
replacement or to a stutter. No case is needed on what a restore or an upload does: that the database is a version
after the step and that nothing was lost follow from `IInv`; what is left is that only `Edit` adds a version and that
the variables of the other computers stay. A step that replaces a torn file breaks the store, which may then do anything.

It also proves `CarefulUserContinues`: a careful user with one account, clocks that agree and no failure (`CarefulUse`,
the hypotheses of the run `cloud_careful_user`) finds every commit on the computer at work, for any number of computers,
commits and uploads. A computer leads if it is connected and has nothing newer to restore, or uploads; `CarefulInv`
says that one that leads holds every commit, and that if none leads the latest file of the account does (`Agreed`). This
hangs on what each computer has recorded: it is of the latest file, in which case its hash is that content, or of an
older one (`Recorded`), and a new stamp is later than all before (`Stamped`). So what a close skips has arrived, a
computer that is started is behind exactly when it must be, and the restore that `Careful` demands brings everything
(`Restoring`). At most one computer is at work (`Alone`): an upload only makes the others older (`OthersAreWell`).

`QuerySessionsProofs`: `QueryTypeCorrect`, `CallsHoldTheirSession`, `OneSessionPerTab`, `SessionsHaveTheirTab`,
`SavesTellTheTruth`, `RowsInsertedOnce`, `TransactionsAreShown`, for any tabs, session ids and rows. `IInv` has three
foundations: whom a session belongs to (`Refs`: what a tab refers to, is given by an answer or runs on is its own),
that one call holds it (`Locks`), and that a tab opens another only when the one before has left the map (`One`). On
them rest three stories, each with a case for every step a run or a save can be at. `Truth` follows what an answer
said: a save that was told nothing was saved had its transaction rolled back with nothing else pending, or the
session that holds rows is left, and its rows are not committed any more (`Left`). `Once` follows an inserted row: before
a save may send it, it is nowhere, or the connection takes no save (`Blocked`), which is why a save that failed in the
user's transaction may be sent again only after a rollback. `Shown` follows what tells the tab: the label it has, the
answer due, or the run that a save starts when it is answered (`Looks`).

`WorkspaceProofs` has the parts of a TalpaDB and a Vulpes workspace. They share no variable; each has its own invariant.
- `GroupsTypeCorrect`, `TabsHavePanes`, `ActiveIsShown`, for any tabs, groups and size of a split. The two properties and
  the types are inductive together: where the focus moves after a close needs the panes to be apart, and the bound of
  a split needs the cardinality of a union (`MergedFits`).
- `ExplorerTypeCorrect`, `TreesAreWhole`, `OpenNodesShow`, `ListsAreNotReplacedByOlder`, for any tree of ids. What `removeSubtrees` removes is
  what `Above` says is below, because the tree is whole (`ListedAreDescendants`, `ParentsOfDescendants`), and that paths do not come
  back keeps the node itself. `ExplorerInv` adds that a node whose loading mark no disconnect dropped is being loaded by
  one call, and that its answer is not older than the lists it replaces (`NoneOlder`).
- `DiagramTypeCorrect`, `ArrangementsAreKept`, `ArrangementsAreShown`, for any number of changes. What is on its way, or what the database
  has when nothing is, is what the user wants, but for a nudge no save has taken along, unless a timer or a drag will see to it; what a tab has read while it
  loads is that too.
- `RealtimeTypeCorrect`, `SessionsAreOwned`, `QuietTabsAreRight`, for any number of connections.
  Ownership is inductive given the types: a registration hands the session it finds to itself before any other step can
  lose it. The types need that a closed tab closes nothing again and that a connection that was not asked for has no
  call. What a quiet tab shows needs `Told`: while one connection at a time is asked for, a call under way is heard, and
  once none is, what the last event on its way will make the tab show is what the map has.

`StashesProofs`: `NoChangeIsLost`, for any windows, repositories, branches and changes. Only a discard takes changes out
of trees and commits, so `IInv` follows one from its start (`Fine`): as long as no other actor and no change of repository has come
between its commands, and it found a commit to make a copy of, its window has the repository it began in, the copy holds
everything the tree has until it is listed, and from then to the restore one stash of that repository does. An edit, a pop, a drop or a change of repository in between takes this away,
and what the restore then takes is what the property excepts. A pop that is applied adds to the tree what it removes
from the list; the places of the other stashes shift (`PutFirst`, `Removed`), which is all the positions matter for here.

The same module proves `ChangesDoComeBack` and `StashesTypeCorrect` from a second invariant, `CourseInv`, which follows a
change of branch (`Course`). As long as it is alone, its window has the repository it began in, and what it set aside is
the newest stash there, with the number the operation remembers and no other stash of that number (`Newest`): so the pop,
which takes whatever is first, takes that one (`NewestPopped`). Afterwards the tree has what was set aside and no stash has its
number (`Applied`, `Gone`), or, if a step failed, one of the two. That numbers do not repeat needs that every stash of
every list has a number that was given out (`Numbered`), which is also what bounds the lists.

`WorkingChangesProofs`: `ChangesTypeCorrect`, `LinesAreShown`, `LinesAreTakenAsPicked`, `ChoicesAreKept`, `QuietPagesAreTrue`,
for any files, contents, edits, commits and requests. `ChangesInv` says of every call under way what its answer may bring.
One load counts; it is of the open file, and while it runs the page shows that it loads (`LiveLoads`), so what is shown
at rest is of the open file and the lines chosen are lines of it (`DiffShown`). A load that counts has read what a
choice of lines was made on (`LoadsSpare`). After the last change, one status request counts and has read the present
(`AnswersFresh`); from its answer on, the diff of the open file is the present one or a call is under way whose answer
shows it (`Due`): a load, or a check that will begin one. Each step of the diff is one of six (`DiffSteps`), and each of the parts has
one case for each.

`WorkbenchProofs` composes the pages of `MCWorkbench`: a step of the workbench is a step of one page and rest for the
others, so its behaviours are behaviours of all six (`PagesKeepTheirSpecs`), and what is proved of a page alone holds
of the specification that the run `workbench` checks (`BenchTypes`, `BenchIsSafe`).

Three theorems delimit what the violated runs show. Each takes a specification that excludes the steps a counterexample
needs, stated as an action formula beside the next-state relation in the proof module, and proves that the property holds
of all other behaviours. They are no claims about the code as it is: each says what a repair has to prevent.
- `ClosedAloneHoldsNothing` (`ClosesAlone`: a window closes while none of its connections is dialled and no sessions are
  moved to it). The invariant is `Released`: what runs under a closed window is ahead of a release under way, or in its
  hands (`ComesTo`), however calls, moves and ends of sessions interleave with it.
- `OneUserKeepsSecrets` (`LogsInAlone`: a login begins only when no session of another user is valid, created or claimed).
  The invariant is `OneInv`: all of these are of one user, whose key the process has but for a login that is yet to set
  it (`BelongTo`); no detach, claim, logout or expiry mixes two users up.
- `AnnouncementsHold` (`ClosesUpToDate`: no computer closes with an upload over a newer version; `StampsRise`: a file is not
  stamped before the one it follows; `AnswersInTime`: `status` announces nothing of a state that has changed since it read it,
  or while a restore or an upload is under way). The invariant is `ShownInv`; nothing is assumed of failures, crashes, accounts or
  the order in which computers work. Stamps matter because another computer's upload may replace what was announced.

Only model-checked: `ClosedSessionLeaves` and `ClosedTabFreesItsConnection`, liveness properties, which are out of the
prover's reach. Every invariant and action property of the runs that pass, and both refinements, are theorems.

## 6. Not modelled

- Tabs of the application frame, and the windows beyond close, move and offer: the transfer of a tab is an event and
  an answer between two React trees; its effect on sessions is the move of `TerminalSessions`. Its hazards are listed.
- The screens of terminals: they write what `TerminalSessions` emits.
- SFTP, local files, SSH configurations: file operations; SFTP sessions live as those of the terminals do, without
  output or moves.
- Docker: calls of its SDK, and two maps of streams; the one race between them is listed as a hazard.
- The pools of TalpaDB, its dashboard and files: a cache with the check-then-act of the terminals' map, and catalogue
  queries. `QuerySessions` takes its connections from a server that may refuse them.
- The engines of TalpaDB: SQL texts and the splitting of scripts, character by character.
- Vulpes requests, references, runner, storage, import and export: one request and its answer, conversions, and one row per collection.
- Merges, rebases and conflicts of OctoHub: they are states of git's own. Accounts and remotes: calls of GitHub and GitLab.
- The Google login (an exchange through the browser, `Connect` in `CloudSync`), migrations (run once at start), users and
  settings (one row each, read and written whole), updates (a download and a restart).
- Views that show what they are given: geometry of diagrams, editors, grids, exports, lists, modals.
