------------------------------ MODULE CloudSync ------------------------------
(***************************************************************************)
(* The copy of the local SQLite database in the user's Google Drive:       *)
(* functions/sync.go and state.go, driven by main.go (restore before the   *)
(* database opens) and by cloud_sync_handler.go (connect, disconnect, send *)
(* now, restore and restart, send when the app closes).                    *)
(*                                                                         *)
(* Several computers share an account and nothing coordinates them: each   *)
(* compares the syncedAt property of the remote file with the LastSyncedAt *)
(* it keeps in cloud-sync.json.  A computer may crash between any two file *)
(* operations, the network may fail, and clocks may disagree.              *)
(*                                                                         *)
(* The content of a database is the set of the commits it results from,    *)
(* and stands for its SHA-256 too.  SQLite writes the main file in a       *)
(* checkpoint when it keeps a -wal file, in every commit when it keeps a   *)
(* rollback journal; until it is done the main file is torn, and only what *)
(* lies beside it makes it whole again.  sqlite_config.go asks for the     *)
(* -wal in a parameter its driver does not read, so the built application  *)
(* has a journal: both modes are modelled.                                 *)
(***************************************************************************)
EXTENDS Integers, Sequences, FiniteSets

CONSTANTS
    Machines,    \* the computers of the user
    Accounts,    \* Google accounts
    NoAccount,   \* a computer that is not connected
    Wal,         \* SQLite keeps a -wal file, not a rollback journal
    Skew,        \* how far the clock of each computer is ahead
    MaxBackups,  \* maxLocalBackups
    MaxEdits,    \* commits made (bounds the runs)
    MaxTime,     \* uploads stamped (bounds the runs)
    MaxFaults,   \* crashes and failed operations (bounds the runs)
    Watched      \* the computers whose screens ask for the status (bounds the runs)

ASSUME AccountAssumption == NoAccount \notin Accounts
ASSUME SkewAssumption == Skew \in [Machines -> Nat]
ASSUME ModeAssumption == Wal \in BOOLEAN
ASSUME WatchedAssumption == Watched \subseteq Machines
ASSUME LimitAssumption ==
    MaxBackups \in Nat \ {0} /\ MaxEdits \in Nat /\ MaxTime \in Nat /\ MaxFaults \in Nat

VARIABLES
    main,      \* the commits in the database file of each computer; when it is
               \* torn, those it held before it was written
    wal,       \* its -wal file: commits not in the main file yet
    torn,      \* SQLite has begun to write the main file and has not ended
    backups,   \* its backups directory, oldest first
    state,     \* its cloud-sync.json
    job,       \* what the app does on it: off, open, or a restore or upload
    drive,     \* the files sent to each account, in the order they arrived
    now,       \* the time, which advances with every upload that is stamped
    edits,     \* commits made so far
    faults,    \* faults so far
    asked,     \* the state a status request has read, while it asks the Drive
    shown,     \* the screen announces that the next start restores the cloud version
    versions,  \* every content some computer has had (history)
    held,      \* every commit the database of a computer has had (history)
    guarded,   \* backups made by a computer (history)
    spoilt     \* computers a restore has left without a database (history)

local == <<main, wal, torn, backups>>
history == <<versions, held, guarded, spoilt>>
vars == <<main, wal, torn, backups, state, job, drive, now, edits, faults, asked,
          shown, versions, held, guarded, spoilt>>

Edits == 1 .. MaxEdits

\* A download that does not hold what was sent, a torn file without what repairs it.
Damaged == {0}

Contents == SUBSET (Edits \cup Damaged)

\* No version sent or restored yet.
NoHash == {-1}

Hashes == Contents \cup {NoHash}

\* What SQLite finds, which completes or undoes what it was writing.
Content(m) == main[m] \cup wal[m]

Disconnected == [account |-> NoAccount, at |-> 0, hash |-> NoHash]
SyncStates == [account : Accounts \cup {NoAccount}, at : Nat, hash : Hashes]

(***************************************************************************)
(* A file on the Drive: its hash and at are the appProperties sha256 and   *)
(* syncedAt.  An update of a file replaces what was sent with its id, and  *)
(* both creating and updating a file make it the last modified.            *)
(***************************************************************************)
Files == [id : Nat \ {0}, content : Contents, hash : Hashes, at : Nat]

\* FindRemoteBackup orders by modifiedTime and takes one.
Latest(a) == drive[a][Len(drive[a])]

HasBackup(a) == drive[a] # <<>>

\* The content has reached the account.
Arrived(a, content) == \E n \in DOMAIN drive[a] : drive[a][n].content = content

\* Whether PrepareRestore finds a version to restore, and status announces one.
Pending(m) ==
    /\ state[m].account # NoAccount
    /\ HasBackup(state[m].account)
    /\ Latest(state[m].account).at > state[m].at

(***************************************************************************)
(* kind: the app opens (RestoreBeforeOpen), restarts (RestoreAndRestart),  *)
(* sends at once (UploadNow), closes (ServiceShutdown).  syncMutex admits  *)
(* one of them at a time.                                                  *)
(***************************************************************************)
RestorePcs == {"download", "close", "backup", "sidecars", "rename", "record"}
UploadPcs == {"find", "send", "save"}

Jobs == [pc : {"off", "open"} \cup RestorePcs \cup UploadPcs,
         kind : {"none", "opening", "restart", "now", "closing"},
         id : Nat, content : Contents, hash : Hashes, at : Nat]

Off == [pc |-> "off", kind |-> "none", id |-> 0, content |-> {}, hash |-> NoHash, at |-> 0]
Open == [Off EXCEPT !.pc = "open"]

\* What a job leaves behind, whether it succeeds or fails.
After(m) == IF job[m].kind \in {"opening", "now"} THEN Open ELSE Off

\* No step of the app has closed the database.
DatabaseOpen(m) ==
    \/ job[m].pc = "open"
    \/ job[m].kind = "now"
    \/ job[m].kind = "restart" /\ job[m].pc \in {"download", "close"}

Init ==
    /\ main = [m \in Machines |-> {}]
    /\ wal = [m \in Machines |-> {}]
    /\ torn = [m \in Machines |-> FALSE]
    /\ backups = [m \in Machines |-> <<>>]
    /\ state = [m \in Machines |-> Disconnected]
    /\ job = [m \in Machines |-> Off]
    /\ drive = [a \in Accounts |-> <<>>]
    /\ now = 1
    /\ edits = 0
    /\ faults = 0
    /\ asked = [m \in Machines |-> Disconnected]
    /\ shown = [m \in Machines |-> FALSE]
    /\ versions = {{}}
    /\ held = [m \in Machines |-> {}]
    /\ guarded = [m \in Machines |-> 0]
    /\ spoilt = {}

Fault ==
    /\ faults < MaxFaults
    /\ faults' = faults + 1

-----------------------------------------------------------------------------
(***************************************************************************)
(* SQLite, as the application uses it.                                     *)
(***************************************************************************)
\* A checkpoint or a commit begins to write the main file.
WriteMain(m) ==
    /\ DatabaseOpen(m)
    /\ ~torn[m]
    /\ Wal => wal[m] # {}
    /\ torn' = [torn EXCEPT ![m] = TRUE]
    /\ UNCHANGED <<main, wal, backups, state, job, drive, now, edits, faults, asked,
                   shown, history>>

Checkpoint(m) ==
    /\ DatabaseOpen(m)
    /\ Wal /\ torn[m]
    /\ main' = [main EXCEPT ![m] = Content(m)]
    /\ wal' = [wal EXCEPT ![m] = {}]
    /\ torn' = [torn EXCEPT ![m] = FALSE]
    /\ UNCHANGED <<backups, state, job, drive, now, edits, faults, asked, shown, history>>

\* A commit is a frame of the -wal, or the end of a write and of its journal.
Edit(m) ==
    /\ DatabaseOpen(m)
    /\ edits < MaxEdits
    /\ edits' = edits + 1
    /\ \/ /\ Wal
          /\ wal' = [wal EXCEPT ![m] = @ \cup {edits'}]
          /\ UNCHANGED <<main, torn>>
       \/ /\ ~Wal /\ torn[m]
          /\ main' = [main EXCEPT ![m] = @ \cup {edits'}]
          /\ torn' = [torn EXCEPT ![m] = FALSE]
          /\ UNCHANGED wal
    /\ versions' = versions \cup {Content(m) \cup {edits'}}
    /\ held' = [held EXCEPT ![m] = @ \cup {edits'}]
    /\ UNCHANGED <<backups, state, job, drive, now, faults, asked, shown, guarded, spoilt>>

\* The journal of a write that failed, or of a process that died, is played back.
Rollback(m) ==
    /\ DatabaseOpen(m)
    /\ ~Wal /\ torn[m]
    /\ torn' = [torn EXCEPT ![m] = FALSE]
    /\ UNCHANGED <<main, wal, backups, state, job, drive, now, edits, faults, asked,
                   shown, history>>

-----------------------------------------------------------------------------
(***************************************************************************)
(* Start of the app, and the account it uses.                              *)
(***************************************************************************)

\* RestoreBeforeOpen finds nothing newer, or cannot ask (15 s at most).
OpenAsIs(m) ==
    /\ job[m].pc = "off"
    /\ IF Pending(m) THEN Fault ELSE UNCHANGED faults
    /\ job' = [job EXCEPT ![m] = Open]
    /\ asked' = [asked EXCEPT ![m] = Disconnected]
    /\ shown' = [shown EXCEPT ![m] = FALSE]
    /\ UNCHANGED <<local, state, drive, now, edits, history>>

\* status, asked by the login screen and by the settings, reads under syncMutex.
AskStatus(m) ==
    /\ m \in Watched
    /\ job[m].pc = "open"
    /\ state[m].account # NoAccount
    /\ asked[m].account = NoAccount
    /\ asked' = [asked EXCEPT ![m] = state[m]]
    /\ UNCHANGED <<local, state, job, drive, now, edits, faults, shown, history>>

\* It has asked the Drive without it: the answer is about the state it read, and
\* announces nothing when the Drive could not be asked.
ShowStatus(m) ==
    /\ job[m].pc = "open" \/ job[m].kind \in {"now", "restart"}
    /\ asked[m].account # NoAccount
    /\ \E answered \in BOOLEAN :
         shown' = [shown EXCEPT ![m] = answered /\ HasBackup(asked[m].account)
                                       /\ Latest(asked[m].account).at > asked[m].at]
    /\ asked' = [asked EXCEPT ![m] = Disconnected]
    /\ UNCHANGED <<local, state, job, drive, now, edits, faults, history>>

\* Mutant: what was synchronised with another account is kept.
ConnectKeeping(m, a) ==
    /\ job[m].pc = "open"
    /\ state[m].account # a
    /\ state' = [state EXCEPT ![m].account = a]
    /\ shown' = [shown EXCEPT ![m] = FALSE]
    /\ UNCHANGED <<local, job, drive, now, edits, faults, asked, history>>

\* connect, after the login; with the same account only the token changes.
Connect(m, a) ==
    /\ job[m].pc = "open"
    /\ state[m].account # a
    /\ state' = [state EXCEPT ![m] = [Disconnected EXCEPT !.account = a]]
    /\ shown' = [shown EXCEPT ![m] = FALSE]
    /\ UNCHANGED <<local, job, drive, now, edits, faults, asked, history>>

Disconnect(m) ==
    /\ job[m].pc = "open"
    /\ state[m].account # NoAccount
    /\ state' = [state EXCEPT ![m] = Disconnected]
    /\ shown' = [shown EXCEPT ![m] = FALSE]
    /\ UNCHANGED <<local, job, drive, now, edits, faults, asked, history>>

-----------------------------------------------------------------------------
(***************************************************************************)
(* PrepareRestore and Apply.                                               *)
(***************************************************************************)
BeginRestore(m, kind) ==
    /\ job[m].pc = IF kind = "opening" THEN "off" ELSE "open"
    /\ Pending(m)
    /\ LET file == Latest(state[m].account) IN
         job' = [job EXCEPT ![m] = [pc |-> "download", kind |-> kind, id |-> file.id,
                                    content |-> {}, hash |-> file.hash, at |-> file.at]]
    /\ asked' = IF kind = "opening" THEN [asked EXCEPT ![m] = Disconnected] ELSE asked
    /\ shown' = [shown EXCEPT ![m] = FALSE]
    /\ UNCHANGED <<local, state, drive, now, edits, faults, history>>

\* What the file that was found holds now: it may have been updated since.
Stored(m) ==
    LET files == drive[state[m].account]
        Is(n) == files[n].id = job[m].id
    IN {files[n].content : n \in {k \in DOMAIN files :
           Is(k) /\ \A j \in DOMAIN files : j > k => ~Is(j)}}

\* Mutant: the header of the file is enough.
Accepted(content, hash) == TRUE

\* verifyBackup.
Verified(content, hash) == content = hash

Download(m, content) ==
    /\ job[m].pc = "download"
    /\ \/ content \in Stored(m) /\ UNCHANGED faults
       \/ content = Damaged /\ Fault
    /\ job' = [job EXCEPT ![m] =
                 IF Verified(content, job[m].hash)
                 THEN [job[m] EXCEPT !.content = content,
                         !.pc = IF job[m].kind = "restart" THEN "close" ELSE "backup"]
                 ELSE Open]
    /\ UNCHANGED <<local, state, drive, now, edits, asked, shown, history>>

\* RestoreAndRestart closes the database, which waits for what is being written.
CloseDatabase(m) ==
    /\ job[m].pc = "close"
    /\ \/ /\ ~torn[m]
          /\ job' = [job EXCEPT ![m].pc = "backup"]
          /\ UNCHANGED faults
       \/ job' = [job EXCEPT ![m] = Open] /\ Fault
    /\ UNCHANGED <<local, state, drive, now, edits, asked, shown, history>>

\* Mutant: one too many is pruned.
NewestButOne(s) ==
    IF Len(s) >= MaxBackups THEN SubSeq(s, Len(s) - MaxBackups + 2, Len(s)) ELSE s

\* pruneBackups.
Newest(s) == IF Len(s) > MaxBackups THEN SubSeq(s, Len(s) - MaxBackups + 1, Len(s)) ELSE s

\* What the backups hold.
Kept(m) == UNION {backups[m][n] : n \in DOMAIN backups[m]}

\* More than MaxBackups need not be told apart.
OneMore(n) == IF n > MaxBackups THEN n ELSE n + 1

\* Mutant: the -wal file is not copied.
BackupMain(m) ==
    /\ job[m].pc = "backup"
    /\ backups' = [backups EXCEPT ![m] = Newest(Append(@, main[m]))]
    /\ guarded' = [guarded EXCEPT ![m] = OneMore(@)]
    /\ job' = [job EXCEPT ![m].pc = "sidecars"]
    /\ UNCHANGED <<main, wal, torn, state, drive, now, edits, faults, asked, shown,
                   versions, held, spoilt>>

\* What a copy of the main file and of the sidecarSuffixes holds: no journal.
Copied(m) == IF torn[m] /\ ~Wal THEN Damaged ELSE Content(m)

\* backupLocalDatabase.
Backup(m) ==
    /\ job[m].pc = "backup"
    /\ backups' = [backups EXCEPT ![m] = Newest(Append(@, Copied(m)))]
    /\ guarded' = [guarded EXCEPT ![m] = OneMore(@)]
    /\ job' = [job EXCEPT ![m].pc = "sidecars"]
    /\ UNCHANGED <<main, wal, torn, state, drive, now, edits, faults, asked, shown,
                   versions, held, spoilt>>

\* copyFile breaks off, and the incomplete copy stays, unpruned, among the backups.
BackupBreaks(m) ==
    /\ job[m].pc = "backup"
    /\ Fault
    /\ backups' = [backups EXCEPT ![m] = Append(@, {})]
    /\ guarded' = [guarded EXCEPT ![m] = OneMore(@)]
    /\ job' = [job EXCEPT ![m] = After(m)]
    /\ UNCHANGED <<main, wal, torn, state, drive, now, edits, asked, shown,
                   versions, held, spoilt>>

\* replaceDatabase removes the sidecars first, then renames: a torn main file has
\* lost its -wal from here on.
RemoveSidecars(m) ==
    /\ job[m].pc = "sidecars"
    /\ wal' = [wal EXCEPT ![m] = {}]
    /\ IF Wal /\ torn[m]
       THEN /\ main' = [main EXCEPT ![m] = Damaged]
            /\ torn' = [torn EXCEPT ![m] = FALSE]
            /\ spoilt' = spoilt \cup {m}
       ELSE UNCHANGED <<main, torn, spoilt>>
    /\ job' = [job EXCEPT ![m].pc = "rename"]
    /\ UNCHANGED <<backups, state, drive, now, edits, faults, asked, shown,
                   versions, held, guarded>>

\* The journal of a torn file stays, and SQLite plays it back on the new file.
Rename(m) ==
    /\ job[m].pc = "rename"
    /\ main' = [main EXCEPT ![m] = IF torn[m] THEN Damaged ELSE job[m].content]
    /\ torn' = [torn EXCEPT ![m] = FALSE]
    /\ spoilt' = IF torn[m] THEN spoilt \cup {m} ELSE spoilt
    /\ held' = [held EXCEPT ![m] = @ \cup job[m].content]
    /\ job' = [job EXCEPT ![m].pc = "record"]
    /\ UNCHANGED <<wal, backups, state, drive, now, edits, faults, asked, shown,
                   versions, guarded>>

\* SaveState of the restored version.
Record(m) ==
    /\ job[m].pc = "record"
    /\ state' = [state EXCEPT ![m] = [@ EXCEPT !.at = job[m].at, !.hash = job[m].hash]]
    /\ job' = [job EXCEPT ![m] = After(m)]
    /\ UNCHANGED <<local, drive, now, edits, faults, asked, shown, history>>

-----------------------------------------------------------------------------
(***************************************************************************)
(* UploadDatabase.                                                         *)
(***************************************************************************)
BeginUpload(m, kind) ==
    /\ state[m].account # NoAccount
    /\ job' = [job EXCEPT ![m] = [pc |-> "find", kind |-> kind, id |-> 0, at |-> 0,
                                  content |-> Content(m), hash |-> Content(m)]]

\* UploadNow forces the upload: this is how the user keeps the local version.
UploadNow(m) ==
    /\ job[m].pc = "open"
    /\ BeginUpload(m, "now")
    /\ shown' = [shown EXCEPT ![m] = FALSE]
    /\ UNCHANGED <<local, state, drive, now, edits, faults, asked, history>>

\* Mutant: any version synchronised before is taken for this one.
CloseUnlessSynced(m) ==
    /\ job[m].pc = "open"
    /\ IF state[m].account = NoAccount \/ state[m].hash # NoHash
       THEN job' = [job EXCEPT ![m] = Off]
       ELSE BeginUpload(m, "closing")
    /\ IF torn[m] THEN Fault ELSE UNCHANGED faults
    /\ UNCHANGED <<local, state, drive, now, edits, asked, shown, history>>

\* ServiceShutdown sends what differs from the last version synchronised; the
\* process that exits may cut a write short.
Close(m) ==
    /\ job[m].pc = "open"
    /\ IF torn[m] THEN Fault ELSE UNCHANGED faults
    /\ IF state[m].account = NoAccount \/ Content(m) = state[m].hash
       THEN job' = [job EXCEPT ![m] = Off]
       ELSE BeginUpload(m, "closing")
    /\ UNCHANGED <<local, state, drive, now, edits, asked, shown, history>>

\* FindRemoteBackup, then the stamp.
Find(m) ==
    /\ job[m].pc = "find"
    /\ now < MaxTime
    /\ now' = now + 1
    /\ LET a == state[m].account IN
         job' = [job EXCEPT ![m] = [job[m] EXCEPT
                    !.pc = "send", !.at = now + Skew[m],
                    !.id = IF HasBackup(a) THEN Latest(a).id ELSE 0]]
    /\ UNCHANGED <<local, state, drive, edits, faults, asked, shown, history>>

\* Mutant: an update even when no file was found.
FoundId(m) == job[m].id

\* The file is created when none was found, else updated.
FileId(m) == IF job[m].id = 0 THEN Len(drive[state[m].account]) + 1 ELSE job[m].id

Send(m) ==
    /\ job[m].pc = "send"
    /\ drive' = [drive EXCEPT ![state[m].account] =
                   Append(@, [id |-> FileId(m), content |-> job[m].content,
                              hash |-> job[m].hash, at |-> job[m].at])]
    /\ job' = [job EXCEPT ![m].pc = "save"]
    /\ UNCHANGED <<local, state, now, edits, faults, asked, shown, history>>

Save(m) ==
    /\ job[m].pc = "save"
    /\ state' = [state EXCEPT ![m] = [@ EXCEPT !.at = job[m].at, !.hash = job[m].hash]]
    /\ job' = [job EXCEPT ![m] = After(m)]
    /\ UNCHANGED <<local, drive, now, edits, faults, asked, shown, history>>

-----------------------------------------------------------------------------
(***************************************************************************)
(* Failures.                                                               *)
(***************************************************************************)

\* An error of the network or of a file operation: the rest is skipped.
Fail(m) ==
    /\ job[m].pc \in (RestorePcs \cup UploadPcs) \ {"download", "close"}
    /\ Fault
    /\ job' = [job EXCEPT ![m] = After(m)]
    /\ UNCHANGED <<local, state, drive, now, edits, asked, shown, history>>

\* The process dies, and nothing is sent; files keep what was written.
Crash(m) ==
    /\ job[m].pc # "off"
    /\ Fault
    /\ job' = [job EXCEPT ![m] = Off]
    /\ UNCHANGED <<local, state, drive, now, edits, asked, shown, history>>

-----------------------------------------------------------------------------
MachineStep(m) ==
    \/ WriteMain(m) \/ Checkpoint(m) \/ Edit(m) \/ Rollback(m)
    \/ OpenAsIs(m) \/ AskStatus(m) \/ ShowStatus(m)
    \/ \E a \in Accounts : Connect(m, a)
    \/ Disconnect(m)
    \/ \E kind \in {"opening", "restart"} : BeginRestore(m, kind)
    \/ \E content \in Contents : Download(m, content)
    \/ CloseDatabase(m)
    \/ Backup(m) \/ BackupBreaks(m) \/ RemoveSidecars(m) \/ Rename(m) \/ Record(m)
    \/ UploadNow(m) \/ Close(m) \/ Find(m) \/ Send(m) \/ Save(m)
    \/ Fail(m) \/ Crash(m)

Next == \E m \in Machines : MachineStep(m)

Spec == Init /\ [][Next]_vars

-----------------------------------------------------------------------------
(***************************************************************************)
(* Type invariant.                                                         *)
(***************************************************************************)
TypeOK ==
    /\ main \in [Machines -> Contents]
    /\ wal \in [Machines -> SUBSET Edits]
    /\ torn \in [Machines -> BOOLEAN]
    /\ backups \in [Machines -> Seq(Contents)]
    /\ state \in [Machines -> SyncStates]
    /\ job \in [Machines -> Jobs]
    /\ drive \in [Accounts -> Seq(Files)]
    /\ now \in Nat
    /\ edits \in 0 .. MaxEdits
    /\ faults \in 0 .. MaxFaults
    /\ asked \in [Machines -> SyncStates]
    /\ shown \in [Machines -> BOOLEAN]
    /\ versions \subseteq Contents
    /\ held \in [Machines -> Contents]
    /\ guarded \in [Machines -> 0 .. MaxBackups + 1]
    /\ spoilt \subseteq Machines

(***************************************************************************)
(* Whenever the process dies, what SQLite finds on the disk is a version   *)
(* of the database that some computer really had: never a restored file    *)
(* with the -wal of the one it replaced, never a damaged download.  Except *)
(* after a restore over a torn file, on any computer: it takes the -wal    *)
(* the file needs, or leaves the journal to be played back on the new one. *)
(***************************************************************************)
DatabaseIsAVersion == spoilt = {} => \A m \in Machines : Content(m) \in versions

(***************************************************************************)
(* CloudSyncSettings.tsx: the database is kept in backups before it is     *)
(* replaced.  Whatever crashes and however often the restore is tried      *)
(* again, every commit a computer has had is in its database or in one of  *)
(* its backups until more backups than MaxBackups were made, or a restore  *)
(* replaced a torn file on this computer.                                  *)
(***************************************************************************)
NothingLostLocally ==
    \A m \in Machines \ spoilt :
        guarded[m] <= MaxBackups => held[m] \subseteq Content(m) \cup Kept(m)

(***************************************************************************)
(* Closing the app sends nothing only if that very content has reached the *)
(* account in use: the recorded hash is never one of another account, nor  *)
(* of an upload that did not arrive.                                       *)
(***************************************************************************)
SkippedUploadIsSafe ==
    \A m \in Machines : state[m].hash # NoHash =>
        state[m].account # NoAccount /\ Arrived(state[m].account, state[m].hash)

(***************************************************************************)
(* CloudSyncSettings.tsx: "Ela vai substituir o banco deste computador na  *)
(* proxima vez que o app abrir".  Once announced, a newer version is there *)
(* to be restored until the user starts the app, sends the local version   *)
(* or changes the account.                                                 *)
(***************************************************************************)
AnnouncedRestoreHolds == \A m \in Machines : shown[m] => Pending(m)

\* No answer announces anything of a state that has changed since it was read, or
\* while a restore or an upload is under way.
AnswersInTime ==
    \A m \in Machines : shown'[m] /\ ~shown[m] => job[m].pc = "open" /\ asked[m] = state[m]

AnnouncedSpec == Init /\ [][Next /\ AnswersInTime]_vars

-----------------------------------------------------------------------------
(***************************************************************************)
(* A careful user: one computer at a time, commits only when it is         *)
(* connected and has nothing newer to restore, and the restore button of   *)
(* the login screen whenever there is.                                     *)
(***************************************************************************)
Synced(m) == state[m].account # NoAccount /\ ~Pending(m)

Careful ==
    /\ \A m, n \in Machines : job'[m].pc # "off" /\ job'[n].pc # "off" => m = n
    /\ edits' # edits => \A m \in Machines : job[m].pc = "off" \/ Synced(m)
    /\ \A m \in Machines :
         job[m].pc = "open" /\ Pending(m) /\ job'[m] # job[m] => job'[m].kind = "restart"
    /\ \A m \in Machines :
         state[m].account # NoAccount => state'[m].account = state[m].account

CarefulSpec == Init /\ [][Next /\ Careful]_vars

(***************************************************************************)
(* docs/index.html: "continuar de onde parou em outro computador".  With   *)
(* clocks that agree and no failure, a computer of a careful user that is  *)
(* open and has nothing to restore holds every commit made so far.         *)
(***************************************************************************)
ContinuesWhereLeftOff ==
    \A m \in Machines : job[m].pc = "open" /\ Synced(m) /\ HasBackup(state[m].account) =>
        Content(m) = 1 .. edits
=============================================================================
