---------------------------- MODULE CloudSyncProofs ----------------------------
(***************************************************************************)
(* The safety of CloudSync, for any computers, accounts, clocks and number *)
(* of commits, uploads, backups and faults.                                *)
(*                                                                         *)
(* What is on the Drive, or on its way there or back, is a version some    *)
(* computer had, under its own hash; a job keeps the account it began      *)
(* with; the database stays closed from the backup to the rename, so that  *)
(* the backup still holds what the rename replaces.  Nothing is claimed    *)
(* once a restore has replaced a torn file.                                *)
(*                                                                         *)
(* Then: CloudSync implements VersionStore; and a careful user continues   *)
(* on one computer where they stopped on another.                          *)
(***************************************************************************)
EXTENDS CloudSyncStore, TLAPS

\* Some computer had this content, as long as no restore left a database spoilt.
IsVersion(v) == spoilt = {} => v \in versions

\* A version is a set of commits, and nothing else.
VersionsAreReal == spoilt = {} => versions \subseteq SUBSET Edits

DriveHoldsVersions ==
    \A a \in Accounts : \A n \in DOMAIN drive[a] :
        IsVersion(drive[a][n].content) /\ drive[a][n].hash = drive[a][n].content

\* What the main file holds, or held before it was torn, is a version too: the one
\* of the last checkpoint or commit.
DatabaseSound(m) ==
    IsVersion(Content(m)) /\ IsVersion(main[m]) /\ (Wal \/ wal[m] = {})

\* What is recorded as synchronised has reached the account in use.
RecordSound(m) ==
    state[m].hash # NoHash =>
        state[m].account \in Accounts /\ Arrived(state[m].account, state[m].hash)

\* A restore brings a version that has arrived in the account in use.
RestoreSound(m) ==
    job[m].pc \in RestorePcs =>
        /\ job[m].kind \in {"opening", "restart"}
        /\ state[m].account \in Accounts
        /\ IsVersion(job[m].hash)
        /\ Arrived(state[m].account, job[m].hash)
        /\ job[m].pc # "download" => job[m].content = job[m].hash
        /\ job[m].pc = "rename" => wal[m] = {}

\* An upload sends a version under its own hash.
UploadSound(m) ==
    job[m].pc \in UploadPcs =>
        /\ state[m].account \in Accounts
        /\ IsVersion(job[m].content)
        /\ job[m].hash = job[m].content
        /\ job[m].pc = "save" => Arrived(state[m].account, job[m].hash)

(***************************************************************************)
(* Within the limit nothing has been pruned, and every commit is kept: by  *)
(* the backups alone from the backup to the rename, unless the file was    *)
(* torn when it was copied.                                                *)
(***************************************************************************)
BackupSound(m) ==
    m \notin spoilt /\ guarded[m] <= MaxBackups =>
        /\ Len(backups[m]) <= guarded[m]
        /\ held[m] \subseteq Content(m) \cup Kept(m)
        /\ job[m].pc \in {"sidecars", "rename"} /\ ~torn[m] => held[m] \subseteq Kept(m)

MachineSound(m) ==
    DatabaseSound(m) /\ RecordSound(m) /\ RestoreSound(m) /\ UploadSound(m) /\ BackupSound(m)

IInv ==
    /\ TypeOK
    /\ VersionsAreReal
    /\ DriveHoldsVersions
    /\ \A m \in Machines : MachineSound(m)

-----------------------------------------------------------------------------
(***************************************************************************)
(* The sequences of backups and of the files sent.                         *)
(***************************************************************************)

\* Pruning keeps a sequence of contents, and all of one within the limit.
LEMMA NewestKeeps ==
    ASSUME NEW s \in Seq(Contents)
    PROVE  /\ Newest(s) \in Seq(Contents)
           /\ Len(s) <= MaxBackups => Newest(s) = s
BY LimitAssumption DEF Newest

\* A backup within the limit is added to the others.
LEMMA AppendKeeps ==
    ASSUME TypeOK, NEW m \in Machines, NEW c,
           backups'[m] = Append(backups[m], c)
    PROVE  Kept(m)' = Kept(m) \cup c
<1>1. backups[m] \in Seq(Contents)
  BY DEF TypeOK
<1>2. Len(backups'[m]) = Len(backups[m]) + 1
  BY <1>1
<1>3. DOMAIN backups'[m] = DOMAIN backups[m] \cup {Len(backups[m]) + 1}
  BY <1>1
<1>4. \A n \in DOMAIN backups[m] : backups'[m][n] = backups[m][n]
  BY <1>1
<1>5. backups'[m][Len(backups[m]) + 1] = c
  BY <1>1
<1> QED
  BY <1>3, <1>4, <1>5 DEF Kept

\* The count tells one more backup as long as it matters.
LEMMA OneMoreCounts ==
    ASSUME NEW n \in 0 .. MaxBackups + 1
    PROVE  /\ OneMore(n) \in 0 .. MaxBackups + 1
           /\ OneMore(n) <= MaxBackups => OneMore(n) = n + 1
BY LimitAssumption DEF OneMore

\* What has arrived stays.
LEMMA ArrivedStays ==
    ASSUME TypeOK, NEW m \in Machines, Send(m), NEW a \in Accounts, NEW c, Arrived(a, c)
    PROVE  Arrived(a, c)'
<1>1. PICK n \in DOMAIN drive[a] : drive[a][n].content = c
  BY DEF Arrived
<1>2. drive[a] \in Seq(Files)
  BY DEF TypeOK
<1>3. drive'[a] = drive[a] \/ \E f : drive'[a] = Append(drive[a], f)
  BY DEF Send, TypeOK
<1>4. n \in DOMAIN drive'[a] /\ drive'[a][n] = drive[a][n]
  BY <1>1, <1>2, <1>3
<1> QED
  BY <1>1, <1>4 DEF Arrived

\* A version that is pending is a file of the account in use.
LEMMA PendingIsSound ==
    ASSUME TypeOK, DriveHoldsVersions, NEW m \in Machines, Pending(m)
    PROVE  /\ state[m].account \in Accounts
           /\ Latest(state[m].account) \in Files
           /\ IsVersion(Latest(state[m].account).hash)
           /\ Arrived(state[m].account, Latest(state[m].account).hash)
<1> DEFINE a == state[m].account
<1>1. a \in Accounts
  BY DEF TypeOK, SyncStates, Pending
<1>2. drive[a] \in Seq(Files) /\ drive[a] # <<>>
  BY <1>1 DEF TypeOK, Pending, HasBackup
<1>3. Len(drive[a]) \in DOMAIN drive[a] /\ Latest(a) \in Files
  BY <1>2 DEF Latest
<1>4. IsVersion(Latest(a).content) /\ Latest(a).hash = Latest(a).content
  BY <1>1, <1>3 DEF DriveHoldsVersions, Latest
<1>5. Arrived(a, Latest(a).hash)
  BY <1>3, <1>4 DEF Arrived, Latest
<1> QED
  BY <1>1, <1>3, <1>4, <1>5

-----------------------------------------------------------------------------
(***************************************************************************)
(* Type correctness.                                                       *)
(***************************************************************************)
LEMMA JobType ==
    ASSUME TypeOK, NEW m \in Machines
    PROVE  job[m] \in Jobs /\ Off \in Jobs /\ Open \in Jobs /\ After(m) \in Jobs
BY DEF TypeOK, Jobs, Off, Open, After, Contents, Hashes

LEMMA DisconnectedType == Disconnected \in SyncStates
BY DEF Disconnected, SyncStates, Hashes

LEMMA ContentType ==
    ASSUME TypeOK, NEW m \in Machines
    PROVE  Content(m) \in Contents
BY DEF TypeOK, Content, Contents

\* A job that goes on to its next step.
LEMMA NextPcType ==
    ASSUME TypeOK, NEW m \in Machines, NEW p \in {"backup", "sidecars", "rename", "record", "save"},
           job' = [job EXCEPT ![m].pc = p]
    PROVE  /\ job' \in [Machines -> Jobs]
           /\ job'[m] = [job[m] EXCEPT !.pc = p]
<1>1. job \in [Machines -> Jobs] /\ job[m] \in Jobs
  BY DEF TypeOK
<1>2. [job[m] EXCEPT !.pc = p] \in Jobs
  BY <1>1 DEF Jobs, RestorePcs, UploadPcs
<1> QED
  BY <1>1, <1>2

\* What a job records of a version.
LEMMA StateType ==
    ASSUME TypeOK, NEW m \in Machines,
           state' = [state EXCEPT ![m] = [@ EXCEPT !.at = job[m].at, !.hash = job[m].hash]]
    PROVE  /\ state' \in [Machines -> SyncStates]
           /\ state'[m] = [state[m] EXCEPT !.at = job[m].at, !.hash = job[m].hash]
<1>1. state \in [Machines -> SyncStates] /\ state[m] \in SyncStates /\ job[m] \in Jobs
  BY DEF TypeOK
<1>2. [state[m] EXCEPT !.at = job[m].at, !.hash = job[m].hash] \in SyncStates
  BY <1>1 DEF Jobs, SyncStates
<1> QED
  BY <1>1, <1>2

\* Without a job, nothing is claimed of one.
LEMMA IdleIsSound ==
    ASSUME NEW m \in Machines, job'[m].pc \in {"off", "open"}
    PROVE  RestoreSound(m)' /\ UploadSound(m)'
BY DEF RestoreSound, UploadSound, RestorePcs, UploadPcs

LEMMA AfterIsIdle ==
    ASSUME NEW m \in Machines
    PROVE  /\ Off.pc = "off" /\ Open.pc = "open"
           /\ After(m).pc \in {"off", "open"}
BY DEF After, Open, Off

\* A job that ends keeps what the backups hold.
LEMMA EndKeepsBackups ==
    ASSUME NEW m \in Machines, BackupSound(m), job'[m].pc \in {"off", "open", "record"},
           UNCHANGED local, UNCHANGED <<held, guarded, spoilt>>
    PROVE  BackupSound(m)'
BY DEF BackupSound, local, Content, Kept

-----------------------------------------------------------------------------
(***************************************************************************)
(* Every action preserves what the invariant says of the computer that     *)
(* takes it.                                                               *)
(***************************************************************************)
Shared == TypeOK /\ VersionsAreReal /\ DriveHoldsVersions

LEMMA EditSafe ==
    ASSUME Shared, NEW m \in Machines, MachineSound(m), Edit(m)
    PROVE  Shared' /\ MachineSound(m)'
<1>1. edits' \in Edits /\ edits' \in 0 .. MaxEdits
  BY LimitAssumption DEF Shared, TypeOK, Edit, Edits
<1>2. Content(m) \in Contents /\ (spoilt = {} => Content(m) \in SUBSET Edits)
  BY ContentType DEF Shared, MachineSound, VersionsAreReal, DatabaseSound, IsVersion
<1>3. TypeOK'
  <2>0. /\ main \in [Machines -> Contents] /\ wal \in [Machines -> SUBSET Edits]
        /\ torn \in [Machines -> BOOLEAN]
    BY DEF Shared, TypeOK
  <2>1. /\ wal' \in [Machines -> SUBSET Edits] /\ main' \in [Machines -> Contents]
        /\ torn' \in [Machines -> BOOLEAN]
    <3>1. CASE Wal
      <4>1. wal' = [wal EXCEPT ![m] = @ \cup {edits'}] /\ main' = main /\ torn' = torn
        BY <3>1 DEF Edit
      <4> QED
        BY <1>1, <2>0, <4>1
    <3>2. CASE ~Wal
      <4>1. /\ wal' = wal /\ main' = [main EXCEPT ![m] = @ \cup {edits'}]
            /\ torn' = [torn EXCEPT ![m] = FALSE]
        BY <3>2 DEF Edit
      <4>2. main[m] \cup {edits'} \in Contents
        BY <1>1, <2>0 DEF Contents
      <4> QED
        BY <2>0, <4>1, <4>2
    <3> QED
      BY <3>1, <3>2
  <2>2. held' \in [Machines -> Contents]
    BY <1>1 DEF Shared, TypeOK, Edit, Contents
  <2>3. versions' \subseteq Contents
    BY <1>1, <1>2 DEF Shared, TypeOK, Edit, Contents
  <2> QED
    BY <1>1, <2>1, <2>2, <2>3 DEF Shared, TypeOK, Edit
<1>4. VersionsAreReal'
  BY <1>1, <1>2 DEF Shared, VersionsAreReal, Edit
<1>5. DriveHoldsVersions'
  BY DEF Shared, DriveHoldsVersions, IsVersion, Edit
<1>10. Content(m)' = Content(m) \cup {edits'}
  BY DEF Edit, Shared, TypeOK, Content
<1>6. DatabaseSound(m)'
  <2>1. main'[m] = main[m] \/ (~Wal /\ main'[m] = main[m] \cup {edits'} /\ wal[m] = {})
    BY DEF Edit, Shared, TypeOK, MachineSound, DatabaseSound
  <2>2. Wal \/ wal'[m] = {}
    BY DEF Edit, MachineSound, DatabaseSound
  <2>3. main'[m] = main[m] \/ main'[m] = Content(m) \cup {edits'}
    BY <2>1 DEF Content
  <2> QED
    BY <1>10, <2>2, <2>3 DEF Edit, MachineSound, DatabaseSound, IsVersion
<1>7. RecordSound(m)' /\ UploadSound(m)'
  BY DEF Edit, MachineSound, RecordSound, UploadSound, Arrived, IsVersion
<1>11. job[m].pc \notin {"sidecars", "rename"}
  BY DEF Edit, DatabaseOpen, MachineSound, RestoreSound, RestorePcs
<1>8. RestoreSound(m)'
  BY <1>11 DEF Edit, MachineSound, RestoreSound, Arrived, IsVersion
<1>9. BackupSound(m)'
  <2>1. held'[m] = held[m] \cup {edits'}
    BY DEF Edit, Shared, TypeOK
  <2> QED
    BY <1>10, <1>11, <2>1 DEF Edit, MachineSound, BackupSound, Kept
<1> QED
  BY <1>3, <1>4, <1>5, <1>6, <1>7, <1>8, <1>9 DEF Shared, MachineSound

LEMMA WriteMainSafe ==
    ASSUME Shared, NEW m \in Machines, MachineSound(m), WriteMain(m) \/ Rollback(m)
    PROVE  Shared' /\ MachineSound(m)'
<1>1. torn' \in [Machines -> BOOLEAN]
  BY DEF WriteMain, Rollback, Shared, TypeOK
<1>2. /\ UNCHANGED <<main, wal, backups, state, job, drive, now, edits, faults, asked, shown>>
      /\ UNCHANGED history
      /\ DatabaseOpen(m)
  BY DEF WriteMain, Rollback
<1>3. Shared'
  BY <1>1, <1>2 DEF Shared, TypeOK, VersionsAreReal, DriveHoldsVersions, IsVersion, history
<1>4. job[m].pc \notin {"sidecars", "rename"}
  BY <1>2 DEF DatabaseOpen, MachineSound, RestoreSound, RestorePcs
<1>5. BackupSound(m)'
  BY <1>2, <1>4 DEF MachineSound, BackupSound, Content, Kept, history
<1>6. DatabaseSound(m)' /\ RecordSound(m)' /\ RestoreSound(m)' /\ UploadSound(m)'
  BY <1>2 DEF MachineSound, DatabaseSound, RecordSound, RestoreSound, UploadSound, Content,
              Arrived, IsVersion, history
<1> QED
  BY <1>3, <1>5, <1>6 DEF MachineSound

LEMMA CheckpointSafe ==
    ASSUME Shared, NEW m \in Machines, MachineSound(m), Checkpoint(m)
    PROVE  Shared' /\ MachineSound(m)'
<1>1. Shared'
  BY ContentType DEF Checkpoint, Shared, TypeOK, VersionsAreReal, DriveHoldsVersions, IsVersion,
                     history
<1>2. Content(m)' = Content(m) /\ main'[m] = Content(m) /\ wal'[m] = {}
  BY DEF Checkpoint, Shared, TypeOK, Content
<1>5. job[m].pc \notin {"sidecars", "rename"}
  BY DEF Checkpoint, DatabaseOpen, MachineSound, RestoreSound, RestorePcs
<1>3. DatabaseSound(m)' /\ BackupSound(m)'
  BY <1>2, <1>5 DEF Checkpoint, MachineSound, DatabaseSound, BackupSound, Kept, IsVersion, history
<1>4. RecordSound(m)' /\ RestoreSound(m)' /\ UploadSound(m)'
  BY <1>2 DEF Checkpoint, MachineSound, RecordSound, RestoreSound, UploadSound, Arrived,
              IsVersion, history
<1> QED
  BY <1>1, <1>3, <1>4 DEF MachineSound

LEMMA OpenAsIsSafe ==
    ASSUME Shared, NEW m \in Machines, MachineSound(m), OpenAsIs(m)
    PROVE  Shared' /\ MachineSound(m)'
<1>1. faults' \in 0 .. MaxFaults
  BY LimitAssumption DEF OpenAsIs, Fault, Shared, TypeOK
<1>2. job' \in [Machines -> Jobs] /\ job'[m] = Open
  BY JobType DEF OpenAsIs, Shared, TypeOK
<1>7. asked' \in [Machines -> SyncStates]
  BY DisconnectedType DEF OpenAsIs, Shared, TypeOK
<1>3. Shared'
  BY <1>1, <1>2, <1>7 DEF OpenAsIs, Shared, TypeOK, VersionsAreReal, DriveHoldsVersions,
                          IsVersion, local, history
<1>4. RestoreSound(m)' /\ UploadSound(m)'
  BY <1>2, AfterIsIdle, IdleIsSound
<1>5. BackupSound(m)'
  BY <1>2, AfterIsIdle, EndKeepsBackups DEF OpenAsIs, MachineSound, history
<1>6. DatabaseSound(m)' /\ RecordSound(m)'
  BY DEF OpenAsIs, MachineSound, DatabaseSound, RecordSound, Content, Arrived, IsVersion,
         local, history
<1> QED
  BY <1>3, <1>4, <1>5, <1>6 DEF MachineSound

LEMMA StatusSafe ==
    ASSUME Shared, NEW m \in Machines, MachineSound(m), AskStatus(m) \/ ShowStatus(m)
    PROVE  Shared' /\ MachineSound(m)'
<1>1. UNCHANGED <<local, state, job, drive, now, edits, faults, history>>
  BY DEF AskStatus, ShowStatus
<1>2. asked' \in [Machines -> SyncStates]
  BY DisconnectedType DEF AskStatus, ShowStatus, Shared, TypeOK
<1>3. shown' \in [Machines -> BOOLEAN]
  <2>1. CASE AskStatus(m)
    BY <2>1 DEF AskStatus, Shared, TypeOK
  <2>2. CASE ShowStatus(m)
    <3>1. PICK answered \in BOOLEAN :
            shown' = [shown EXCEPT ![m] = answered /\ HasBackup(asked[m].account)
                                          /\ Latest(asked[m].account).at > asked[m].at]
      BY <2>2 DEF ShowStatus
    <3> DEFINE newer == answered /\ HasBackup(asked[m].account)
                        /\ Latest(asked[m].account).at > asked[m].at
    <3>2. newer \in BOOLEAN
      OBVIOUS
    <3> HIDE DEF newer
    <3> QED
      BY <3>1, <3>2 DEF Shared, TypeOK, newer
  <2> QED
    BY <2>1, <2>2
<1>4. Shared'
  BY <1>1, <1>2, <1>3 DEF Shared, TypeOK, VersionsAreReal, DriveHoldsVersions, IsVersion,
                          local, history
<1>5. MachineSound(m)'
  BY <1>1 DEF MachineSound, DatabaseSound, RecordSound, RestoreSound, UploadSound,
              BackupSound, Content, Kept, Arrived, IsVersion, local, history
<1> QED
  BY <1>4, <1>5

LEMMA AccountSafe ==
    ASSUME Shared, NEW m \in Machines, MachineSound(m),
           NEW a \in Accounts \cup {NoAccount}, job[m].pc = "open",
           state' = [state EXCEPT ![m] = [Disconnected EXCEPT !.account = a]],
           shown' \in [Machines -> BOOLEAN],
           UNCHANGED <<local, job, drive, now, edits, faults, asked, history>>
    PROVE  Shared' /\ MachineSound(m)'
<1>1. [Disconnected EXCEPT !.account = a] = [account |-> a, at |-> 0, hash |-> NoHash]
  BY DEF Disconnected
<1>2. state' \in [Machines -> SyncStates] /\ state'[m].hash = NoHash
  BY <1>1 DEF Shared, TypeOK, SyncStates, Hashes
<1>3. Shared'
  BY <1>2 DEF Shared, TypeOK, VersionsAreReal, DriveHoldsVersions, IsVersion, local, history
<1>4. RestoreSound(m)' /\ UploadSound(m)'
  BY IdleIsSound
<1>5. RecordSound(m)'
  BY <1>2 DEF RecordSound
<1>6. DatabaseSound(m)' /\ BackupSound(m)'
  BY EndKeepsBackups DEF MachineSound, DatabaseSound, Content, IsVersion, local, history
<1> QED
  BY <1>3, <1>4, <1>5, <1>6 DEF MachineSound

LEMMA ConnectSafe ==
    ASSUME Shared, NEW m \in Machines, MachineSound(m), NEW a \in Accounts, Connect(m, a)
    PROVE  Shared' /\ MachineSound(m)'
<1>1. shown' \in [Machines -> BOOLEAN]
  BY DEF Connect, Shared, TypeOK
<1> QED
  BY <1>1, AccountSafe DEF Connect

LEMMA DisconnectSafe ==
    ASSUME Shared, NEW m \in Machines, MachineSound(m), Disconnect(m)
    PROVE  Shared' /\ MachineSound(m)'
<1>1. shown' \in [Machines -> BOOLEAN]
  BY DEF Disconnect, Shared, TypeOK
<1>2. [Disconnected EXCEPT !.account = NoAccount] = Disconnected
  BY DEF Disconnected
<1>3. state' = [state EXCEPT ![m] = [Disconnected EXCEPT !.account = NoAccount]]
  BY <1>2 DEF Disconnect
<1> QED
  BY <1>1, <1>3, AccountSafe DEF Disconnect

LEMMA BeginRestoreSafe ==
    ASSUME Shared, NEW m \in Machines, MachineSound(m),
           NEW kind \in {"opening", "restart"}, BeginRestore(m, kind)
    PROVE  Shared' /\ MachineSound(m)'
<1> DEFINE a == state[m].account
           file == Latest(a)
           begun == [pc |-> "download", kind |-> kind, id |-> file.id,
                     content |-> {}, hash |-> file.hash, at |-> file.at]
<1>1. a \in Accounts /\ file \in Files /\ IsVersion(file.hash) /\ Arrived(a, file.hash)
  BY PendingIsSound DEF BeginRestore, Shared
<1>2. begun \in Jobs
  BY <1>1 DEF Files, Jobs, RestorePcs, Contents
<1>3. job' \in [Machines -> Jobs] /\ job'[m] = begun
  BY <1>2 DEF BeginRestore, Shared, TypeOK
<1>9. asked' \in [Machines -> SyncStates]
  BY DisconnectedType DEF BeginRestore, Shared, TypeOK
<1>4. Shared'
  BY <1>3, <1>9 DEF BeginRestore, Shared, TypeOK, VersionsAreReal, DriveHoldsVersions,
                    IsVersion, local, history
<1>5. RestoreSound(m)'
  BY <1>1, <1>3 DEF BeginRestore, RestoreSound, Arrived, IsVersion, history
<1>6. UploadSound(m)'
  BY <1>3 DEF UploadSound, UploadPcs
<1>7. DatabaseSound(m)' /\ RecordSound(m)'
  BY DEF BeginRestore, MachineSound, DatabaseSound, RecordSound, Content, Arrived, IsVersion,
         local, history
<1>8. BackupSound(m)'
  BY <1>3 DEF BeginRestore, MachineSound, BackupSound, Content, Kept, local, history
<1> QED
  BY <1>4, <1>5, <1>6, <1>7, <1>8 DEF MachineSound

\* A job that ends, and nothing else changes but the count of faults.
LEMMA EndStep ==
    ASSUME Shared, NEW m \in Machines, MachineSound(m),
           NEW j \in {Off, Open}, job' = [job EXCEPT ![m] = j],
           faults' \in 0 .. MaxFaults,
           UNCHANGED <<local, state, drive, now, edits, asked, shown, history>>
    PROVE  Shared' /\ MachineSound(m)'
<1>1. job' \in [Machines -> Jobs] /\ job'[m].pc \in {"off", "open"}
  BY JobType, AfterIsIdle DEF Shared, TypeOK
<1>2. Shared'
  BY <1>1 DEF Shared, TypeOK, VersionsAreReal, DriveHoldsVersions, IsVersion, local, history
<1>3. RestoreSound(m)' /\ UploadSound(m)'
  BY <1>1, IdleIsSound
<1>4. BackupSound(m)'
  BY <1>1, EndKeepsBackups DEF MachineSound, history
<1>5. DatabaseSound(m)' /\ RecordSound(m)'
  BY DEF MachineSound, DatabaseSound, RecordSound, Content, Arrived, IsVersion, local, history
<1> QED
  BY <1>2, <1>3, <1>4, <1>5 DEF MachineSound

\* What passes the verification is the version the remote file names.
LEMMA DownloadSafe ==
    ASSUME Shared, NEW m \in Machines, MachineSound(m), NEW content \in Contents,
           Download(m, content)
    PROVE  Shared' /\ MachineSound(m)'
<1>1. faults' \in 0 .. MaxFaults
  BY LimitAssumption DEF Download, Fault, Shared, TypeOK
<1>2. job[m].kind \in {"opening", "restart"} /\ IsVersion(job[m].hash)
  BY DEF Download, MachineSound, RestoreSound, RestorePcs
<1>3. CASE Verified(content, job[m].hash)
  <2> DEFINE p == IF job[m].kind = "restart" THEN "close" ELSE "backup"
             got == [job[m] EXCEPT !.content = content, !.pc = p]
  <2>1. got \in Jobs /\ got.pc \in {"close", "backup"}
        /\ got.kind = job[m].kind /\ got.hash = job[m].hash /\ got.content = content
    BY DEF Shared, TypeOK, Jobs, RestorePcs
  <2>2. job' \in [Machines -> Jobs] /\ job'[m] = got
    BY <1>3, <2>1 DEF Download, Shared, TypeOK
  <2> HIDE DEF got
  <2>3. Shared'
    BY <1>1, <2>2 DEF Download, Shared, TypeOK, VersionsAreReal, DriveHoldsVersions, IsVersion,
                      local, history
  <2>4. RestoreSound(m)'
    BY <1>3, <2>1, <2>2 DEF Download, Verified, MachineSound, RestoreSound, RestorePcs,
                            Arrived, IsVersion, history
  <2>5. UploadSound(m)'
    BY <2>1, <2>2 DEF UploadSound, UploadPcs
  <2>6. BackupSound(m)'
    BY <2>1, <2>2 DEF Download, MachineSound, BackupSound, Content, Kept, local, history
  <2>7. DatabaseSound(m)' /\ RecordSound(m)'
    BY DEF Download, MachineSound, DatabaseSound, RecordSound, Content, Arrived, IsVersion,
           local, history
  <2> QED
    BY <2>3, <2>4, <2>5, <2>6, <2>7 DEF MachineSound
<1>4. CASE ~Verified(content, job[m].hash)
  <2>1. job' = [job EXCEPT ![m] = Open]
    BY <1>4 DEF Download
  <2> QED
    BY <1>1, <2>1, EndStep DEF Download
<1> QED
  BY <1>3, <1>4

\* What is closed has been written to the end.
LEMMA CloseDatabaseSafe ==
    ASSUME Shared, NEW m \in Machines, MachineSound(m), CloseDatabase(m)
    PROVE  Shared' /\ MachineSound(m)'
<1>1. faults' \in 0 .. MaxFaults
  BY LimitAssumption DEF CloseDatabase, Fault, Shared, TypeOK
<1>2. CASE job' = [job EXCEPT ![m] = Open]
  BY <1>1, <1>2, EndStep DEF CloseDatabase
<1>3. CASE job' = [job EXCEPT ![m].pc = "backup"]
  <2>1. job' \in [Machines -> Jobs] /\ job'[m] = [job[m] EXCEPT !.pc = "backup"]
    BY <1>3, NextPcType DEF Shared
  <2>2. /\ job'[m].pc = "backup" /\ job'[m].kind = job[m].kind
        /\ job'[m].hash = job[m].hash /\ job'[m].content = job[m].content
    BY <2>1 DEF Shared, TypeOK, Jobs
  <2>3. Shared'
    BY <1>1, <2>1 DEF CloseDatabase, Shared, TypeOK, VersionsAreReal, DriveHoldsVersions,
                      IsVersion, local, history
  <2>4. RestoreSound(m)'
    BY <2>2 DEF CloseDatabase, MachineSound, RestoreSound, RestorePcs, Arrived, IsVersion, history
  <2>5. UploadSound(m)'
    BY <2>2 DEF UploadSound, UploadPcs
  <2>6. BackupSound(m)'
    BY <2>2 DEF CloseDatabase, MachineSound, BackupSound, Content, Kept, local, history
  <2>7. DatabaseSound(m)' /\ RecordSound(m)'
    BY DEF CloseDatabase, MachineSound, DatabaseSound, RecordSound, Content, Arrived, IsVersion,
           local, history
  <2> QED
    BY <2>3, <2>4, <2>5, <2>6, <2>7 DEF MachineSound
<1> QED
  BY <1>2, <1>3 DEF CloseDatabase

\* A backup, complete or not, is added to those there are.
LEMMA BackupStep ==
    ASSUME Shared, NEW m \in Machines, MachineSound(m), NEW c \in Contents,
           NEW kept \in Seq(Contents),
           m \notin spoilt /\ guarded[m] < MaxBackups => kept = Append(backups[m], c),
           backups' = [backups EXCEPT ![m] = kept],
           guarded' = [guarded EXCEPT ![m] = OneMore(@)],
           UNCHANGED <<main, wal, held, spoilt>>
    PROVE  /\ backups' \in [Machines -> Seq(Contents)]
           /\ guarded' \in [Machines -> 0 .. MaxBackups + 1]
           /\ m \notin spoilt /\ guarded'[m] <= MaxBackups =>
                /\ Len(backups'[m]) <= guarded'[m]
                /\ Kept(m)' = Kept(m) \cup c
                /\ held'[m] \subseteq Content(m)' \cup Kept(m)'
<1>1. guarded[m] \in 0 .. MaxBackups + 1 /\ backups[m] \in Seq(Contents)
  BY DEF Shared, TypeOK
<1>2. guarded'[m] = OneMore(guarded[m]) /\ OneMore(guarded[m]) \in 0 .. MaxBackups + 1
  BY <1>1, OneMoreCounts DEF Shared, TypeOK
<1>3. backups' \in [Machines -> Seq(Contents)] /\ guarded' \in [Machines -> 0 .. MaxBackups + 1]
  BY <1>2 DEF Shared, TypeOK
<1>4. ASSUME m \notin spoilt, guarded'[m] <= MaxBackups
      PROVE  /\ Len(backups'[m]) <= guarded'[m]
             /\ Kept(m)' = Kept(m) \cup c
             /\ held'[m] \subseteq Content(m)' \cup Kept(m)'
  <2>1. guarded'[m] = guarded[m] + 1 /\ guarded[m] < MaxBackups
    BY <1>1, <1>2, <1>4, OneMoreCounts, LimitAssumption
  <2>2. backups'[m] = Append(backups[m], c)
    BY <1>4, <2>1 DEF Shared, TypeOK
  <2>3. Len(backups[m]) <= guarded[m] /\ held[m] \subseteq Content(m) \cup Kept(m)
    BY <1>1, <1>4, <2>1, LimitAssumption DEF MachineSound, BackupSound
  <2>4. Len(backups'[m]) <= guarded'[m]
    BY <1>1, <2>1, <2>2, <2>3
  <2>5. Kept(m)' = Kept(m) \cup c
    BY <2>2, AppendKeeps DEF Shared
  <2> QED
    BY <2>3, <2>4, <2>5 DEF Content
<1> QED
  BY <1>3, <1>4

LEMMA BackupSafe ==
    ASSUME Shared, NEW m \in Machines, MachineSound(m), Backup(m)
    PROVE  Shared' /\ MachineSound(m)'
<1>1. job' \in [Machines -> Jobs] /\ job'[m] = [job[m] EXCEPT !.pc = "sidecars"]
  BY NextPcType DEF Backup, Shared
<1>2. /\ job'[m].pc = "sidecars" /\ job'[m].kind = job[m].kind
      /\ job'[m].hash = job[m].hash /\ job'[m].content = job[m].content
  BY <1>1 DEF Shared, TypeOK, Jobs
<1>3. /\ Copied(m) \in Contents /\ backups[m] \in Seq(Contents)
      /\ Append(backups[m], Copied(m)) \in Seq(Contents)
  BY ContentType DEF Shared, TypeOK, Copied, Damaged, Contents
<1> DEFINE kept == Newest(Append(backups[m], Copied(m)))
<1>4. kept \in Seq(Contents)
  BY <1>3, NewestKeeps
<1>5. m \notin spoilt /\ guarded[m] < MaxBackups => kept = Append(backups[m], Copied(m))
  <2>1. m \notin spoilt /\ guarded[m] < MaxBackups =>
          Len(Append(backups[m], Copied(m))) <= MaxBackups
    BY <1>3, LimitAssumption DEF Shared, TypeOK, MachineSound, BackupSound
  <2> QED
    BY <1>3, <2>1, NewestKeeps
<1>6. backups' = [backups EXCEPT ![m] = kept]
  BY DEF Backup
<1> HIDE DEF kept
<1>7. /\ backups' \in [Machines -> Seq(Contents)]
      /\ guarded' \in [Machines -> 0 .. MaxBackups + 1]
      /\ m \notin spoilt /\ guarded'[m] <= MaxBackups =>
           /\ Len(backups'[m]) <= guarded'[m]
           /\ Kept(m)' = Kept(m) \cup Copied(m)
           /\ held'[m] \subseteq Content(m)' \cup Kept(m)'
  BY <1>3, <1>4, <1>5, <1>6, BackupStep DEF Backup
<1>8. Shared'
  BY <1>1, <1>7 DEF Backup, Shared, TypeOK, VersionsAreReal, DriveHoldsVersions, IsVersion
<1>9. BackupSound(m)'
  <2>1. m \notin spoilt' /\ guarded'[m] <= MaxBackups /\ ~torn'[m] => held'[m] \subseteq Kept(m)'
    BY <1>7 DEF Backup, Content, Copied
  <2> QED
    BY <1>7, <2>1 DEF Backup, BackupSound
<1>10. RestoreSound(m)'
  BY <1>2 DEF Backup, MachineSound, RestoreSound, RestorePcs, Arrived, IsVersion
<1>11. UploadSound(m)'
  BY <1>2 DEF UploadSound, UploadPcs
<1>12. DatabaseSound(m)' /\ RecordSound(m)'
  BY DEF Backup, MachineSound, DatabaseSound, RecordSound, Content, Arrived, IsVersion
<1> QED
  BY <1>8, <1>9, <1>10, <1>11, <1>12 DEF MachineSound

LEMMA BackupBreaksSafe ==
    ASSUME Shared, NEW m \in Machines, MachineSound(m), BackupBreaks(m)
    PROVE  Shared' /\ MachineSound(m)'
<1>1. job' \in [Machines -> Jobs] /\ job'[m].pc \in {"off", "open"}
  BY JobType, AfterIsIdle DEF BackupBreaks, Shared, TypeOK
<1>2. faults' \in 0 .. MaxFaults
  BY LimitAssumption DEF BackupBreaks, Fault, Shared, TypeOK
<1> DEFINE kept == Append(backups[m], {})
<1>3. {} \in Contents /\ kept \in Seq(Contents) /\ backups' = [backups EXCEPT ![m] = kept]
  BY DEF BackupBreaks, Shared, TypeOK, Contents
<1>4. /\ backups' \in [Machines -> Seq(Contents)]
      /\ guarded' \in [Machines -> 0 .. MaxBackups + 1]
      /\ m \notin spoilt /\ guarded'[m] <= MaxBackups =>
           /\ Len(backups'[m]) <= guarded'[m]
           /\ Kept(m)' = Kept(m) \cup {}
           /\ held'[m] \subseteq Content(m)' \cup Kept(m)'
  BY <1>3, BackupStep DEF BackupBreaks
<1>5. Shared'
  BY <1>1, <1>2, <1>4 DEF BackupBreaks, Shared, TypeOK, VersionsAreReal, DriveHoldsVersions,
                          IsVersion
<1>6. BackupSound(m)'
  BY <1>1, <1>4 DEF BackupBreaks, BackupSound
<1>7. RestoreSound(m)' /\ UploadSound(m)'
  BY <1>1, IdleIsSound
<1>8. DatabaseSound(m)' /\ RecordSound(m)'
  BY DEF BackupBreaks, MachineSound, DatabaseSound, RecordSound, Content, Arrived, IsVersion
<1> QED
  BY <1>5, <1>6, <1>7, <1>8 DEF MachineSound

LEMMA RemoveSidecarsSafe ==
    ASSUME Shared, NEW m \in Machines, MachineSound(m), RemoveSidecars(m)
    PROVE  Shared' /\ MachineSound(m)'
<1>1. job' \in [Machines -> Jobs] /\ job'[m] = [job[m] EXCEPT !.pc = "rename"]
  BY NextPcType DEF RemoveSidecars, Shared
<1>2. /\ job'[m].pc = "rename" /\ job'[m].kind = job[m].kind
      /\ job'[m].hash = job[m].hash /\ job'[m].content = job[m].content
  BY <1>1 DEF Shared, TypeOK, Jobs
<1>3. /\ wal' \in [Machines -> SUBSET Edits] /\ wal'[m] = {}
      /\ main' \in [Machines -> Contents] /\ torn' \in [Machines -> BOOLEAN]
      /\ spoilt' \subseteq Machines
  BY DEF RemoveSidecars, Shared, TypeOK, Damaged, Contents
<1>10. spoilt \subseteq spoilt' /\ (UNCHANGED <<main, torn, spoilt>> \/ m \in spoilt')
  BY DEF RemoveSidecars
<1>4. Shared'
  BY <1>1, <1>3, <1>10 DEF RemoveSidecars, Shared, TypeOK, VersionsAreReal, DriveHoldsVersions,
                           IsVersion
<1>5. DatabaseSound(m)'
  <2>1. CASE UNCHANGED <<main, torn, spoilt>>
    <3>1. Content(m)' = main[m]
      BY <1>3, <2>1 DEF Content
    <3> QED
      BY <1>3, <2>1, <3>1 DEF RemoveSidecars, MachineSound, DatabaseSound, IsVersion
  <2>2. CASE m \in spoilt'
    BY <1>3, <2>2 DEF DatabaseSound, IsVersion
  <2> QED
    BY <1>10, <2>1, <2>2
<1>6. RestoreSound(m)'
  BY <1>2, <1>3, <1>10 DEF RemoveSidecars, MachineSound, RestoreSound, RestorePcs, Arrived,
                           IsVersion
<1>7. UploadSound(m)'
  BY <1>2 DEF UploadSound, UploadPcs
<1>8. RecordSound(m)'
  BY DEF RemoveSidecars, MachineSound, RecordSound, Arrived
<1>9. BackupSound(m)'
  <2>1. CASE m \in spoilt'
    BY <2>1 DEF BackupSound
  <2>2. CASE m \notin spoilt'
    <3>1. UNCHANGED <<main, torn, spoilt>> /\ (torn[m] => ~Wal)
      BY <1>10, <2>2 DEF RemoveSidecars
    <3>2. torn[m] => Content(m)' = Content(m)
      BY <1>3, <3>1 DEF MachineSound, DatabaseSound, Content
    <3> QED
      BY <2>2, <3>1, <3>2 DEF RemoveSidecars, MachineSound, BackupSound, Kept
  <2> QED
    BY <2>1, <2>2
<1> QED
  BY <1>4, <1>5, <1>6, <1>7, <1>8, <1>9 DEF MachineSound

LEMMA RenameSafe ==
    ASSUME Shared, NEW m \in Machines, MachineSound(m), Rename(m)
    PROVE  Shared' /\ MachineSound(m)'
<1>1. job' \in [Machines -> Jobs] /\ job'[m] = [job[m] EXCEPT !.pc = "record"]
  BY NextPcType DEF Rename, Shared
<1>2. /\ job'[m].pc = "record" /\ job'[m].kind = job[m].kind
      /\ job'[m].hash = job[m].hash /\ job'[m].content = job[m].content
  BY <1>1 DEF Shared, TypeOK, Jobs
<1>3. IsVersion(job[m].content) /\ job[m].content \in Contents /\ wal[m] = {}
  BY DEF Rename, Shared, TypeOK, Jobs, MachineSound, RestoreSound, RestorePcs
<1>4. /\ main' \in [Machines -> Contents] /\ torn' \in [Machines -> BOOLEAN]
      /\ held' \in [Machines -> Contents] /\ held'[m] = held[m] \cup job[m].content
      /\ spoilt' \subseteq Machines
  BY <1>3 DEF Rename, Shared, TypeOK, Contents, Damaged
<1>12. /\ spoilt \subseteq spoilt'
       /\ (~torn[m] /\ spoilt' = spoilt /\ main'[m] = job[m].content) \/ m \in spoilt'
  BY DEF Rename, Shared, TypeOK
<1>5. main'[m] = job[m].content => Content(m)' = job[m].content
  BY <1>3 DEF Rename, Content
<1>6. Shared'
  BY <1>1, <1>4, <1>12 DEF Rename, Shared, TypeOK, VersionsAreReal, DriveHoldsVersions, IsVersion
<1>7. DatabaseSound(m)'
  BY <1>3, <1>5, <1>12 DEF Rename, DatabaseSound, IsVersion
<1>8. RestoreSound(m)'
  BY <1>2, <1>12 DEF Rename, MachineSound, RestoreSound, RestorePcs, Arrived, IsVersion
<1>9. UploadSound(m)'
  BY <1>2 DEF UploadSound, UploadPcs
<1>10. RecordSound(m)'
  BY DEF Rename, MachineSound, RecordSound, Arrived
<1>11. BackupSound(m)'
  <2>1. CASE m \in spoilt'
    BY <2>1 DEF BackupSound
  <2>2. CASE m \notin spoilt'
    <3>1. ~torn[m] /\ m \notin spoilt /\ Content(m)' = job[m].content
      BY <1>5, <1>12, <2>2
    <3> QED
      BY <1>2, <1>4, <3>1 DEF Rename, MachineSound, BackupSound, Kept
  <2> QED
    BY <2>1, <2>2
<1> QED
  BY <1>6, <1>7, <1>8, <1>9, <1>10, <1>11 DEF MachineSound

\* The version recorded has arrived in the account in use.
LEMMA RecordStep ==
    ASSUME Shared, NEW m \in Machines, MachineSound(m),
           job[m].pc \in {"record", "save"},
           state' = [state EXCEPT ![m] = [@ EXCEPT !.at = job[m].at, !.hash = job[m].hash]],
           job' = [job EXCEPT ![m] = After(m)],
           UNCHANGED <<local, drive, now, edits, faults, asked, shown, history>>
    PROVE  Shared' /\ MachineSound(m)'
<1>1. job' \in [Machines -> Jobs] /\ job'[m].pc \in {"off", "open"}
  BY JobType, AfterIsIdle DEF Shared, TypeOK
<1>2. /\ state' \in [Machines -> SyncStates]
      /\ state'[m] = [state[m] EXCEPT !.at = job[m].at, !.hash = job[m].hash]
  BY StateType DEF Shared
<1>3. state'[m].hash = job[m].hash /\ state'[m].account = state[m].account
  BY <1>2 DEF Shared, TypeOK, SyncStates
<1>4. Shared'
  BY <1>1, <1>2 DEF Shared, TypeOK, VersionsAreReal, DriveHoldsVersions, IsVersion,
                    local, history
<1>5. RecordSound(m)'
  BY <1>3 DEF MachineSound, RecordSound, RestoreSound, UploadSound, RestorePcs, UploadPcs, Arrived
<1>6. RestoreSound(m)' /\ UploadSound(m)'
  BY <1>1, IdleIsSound
<1>7. DatabaseSound(m)' /\ BackupSound(m)'
  BY <1>1, EndKeepsBackups DEF MachineSound, DatabaseSound, Content, IsVersion, local, history
<1> QED
  BY <1>4, <1>5, <1>6, <1>7 DEF MachineSound


LEMMA BeginUploadStep ==
    ASSUME Shared, NEW m \in Machines, MachineSound(m),
           NEW kind \in {"now", "closing"}, BeginUpload(m, kind),
           shown' \in [Machines -> BOOLEAN], faults' \in 0 .. MaxFaults,
           UNCHANGED <<local, state, drive, now, edits, asked, history>>
    PROVE  Shared' /\ MachineSound(m)'
<1> DEFINE begun == [pc |-> "find", kind |-> kind, id |-> 0, at |-> 0,
                     content |-> Content(m), hash |-> Content(m)]
<1>1. begun \in Jobs
  BY ContentType DEF Shared, Jobs, UploadPcs, Hashes
<1>3. job' \in [Machines -> Jobs] /\ job'[m] = begun
  BY <1>1 DEF BeginUpload, Shared, TypeOK
<1>4. Shared'
  BY <1>3 DEF Shared, TypeOK, VersionsAreReal, DriveHoldsVersions, IsVersion, local, history
<1>5. RestoreSound(m)'
  BY <1>3 DEF RestoreSound, RestorePcs
<1>6. UploadSound(m)'
  <2>1. state[m].account \in Accounts
    BY DEF BeginUpload, Shared, TypeOK, SyncStates
  <2> QED
    BY <1>3, <2>1 DEF MachineSound, DatabaseSound, UploadSound, IsVersion, history
<1>7. BackupSound(m)'
  BY <1>3 DEF MachineSound, BackupSound, Content, Kept, local, history
<1>8. DatabaseSound(m)' /\ RecordSound(m)'
  BY DEF MachineSound, DatabaseSound, RecordSound, Content, Arrived, IsVersion, local, history
<1> QED
  BY <1>4, <1>5, <1>6, <1>7, <1>8 DEF MachineSound

LEMMA UploadNowSafe ==
    ASSUME Shared, NEW m \in Machines, MachineSound(m), UploadNow(m)
    PROVE  Shared' /\ MachineSound(m)'
<1>1. shown' \in [Machines -> BOOLEAN] /\ faults' \in 0 .. MaxFaults
  BY DEF UploadNow, Shared, TypeOK
<1> QED
  BY <1>1, BeginUploadStep DEF UploadNow

LEMMA CloseSafe ==
    ASSUME Shared, NEW m \in Machines, MachineSound(m), Close(m)
    PROVE  Shared' /\ MachineSound(m)'
<1>1. shown' \in [Machines -> BOOLEAN] /\ faults' \in 0 .. MaxFaults
  BY LimitAssumption DEF Close, Fault, Shared, TypeOK
<1>2. CASE job' = [job EXCEPT ![m] = Off]
  BY <1>1, <1>2, EndStep DEF Close
<1>3. CASE BeginUpload(m, "closing")
  BY <1>1, <1>3, BeginUploadStep DEF Close
<1> QED
  BY <1>2, <1>3 DEF Close

LEMMA FailSafe ==
    ASSUME Shared, NEW m \in Machines, MachineSound(m), Fail(m)
    PROVE  Shared' /\ MachineSound(m)'
<1>1. faults' \in 0 .. MaxFaults
  BY LimitAssumption DEF Fail, Fault, Shared, TypeOK
<1>2. After(m) \in {Off, Open}
  BY DEF After
<1> QED
  BY <1>1, <1>2, EndStep DEF Fail

LEMMA CrashSafe ==
    ASSUME Shared, NEW m \in Machines, MachineSound(m), Crash(m)
    PROVE  Shared' /\ MachineSound(m)'
<1>1. faults' \in 0 .. MaxFaults
  BY LimitAssumption DEF Crash, Fault, Shared, TypeOK
<1> QED
  BY <1>1, EndStep DEF Crash

LEMMA FindSafe ==
    ASSUME Shared, NEW m \in Machines, MachineSound(m), Find(m)
    PROVE  Shared' /\ MachineSound(m)'
<1> DEFINE a == state[m].account
           id == IF HasBackup(a) THEN Latest(a).id ELSE 0
           found == [job[m] EXCEPT !.pc = "send", !.at = now + Skew[m], !.id = id]
<1>1. a \in Accounts
  BY DEF Find, MachineSound, UploadSound, UploadPcs
<1>2. id \in Nat
  <2>1. drive[a] \in Seq(Files)
    BY <1>1 DEF Shared, TypeOK
  <2>2. HasBackup(a) => Latest(a) \in Files
    BY <2>1 DEF HasBackup, Latest
  <2> QED
    BY <2>2 DEF Files
<1>3. now' \in Nat /\ now + Skew[m] \in Nat
  <2>1. now \in Nat /\ Skew[m] \in Nat
    BY SkewAssumption DEF Shared, TypeOK
  <2> QED
    BY <2>1 DEF Find
<1>4. found \in Jobs
  <2>1. job[m] \in Jobs
    BY DEF Shared, TypeOK
  <2> HIDE DEF id
  <2> QED
    BY <1>2, <1>3, <2>1 DEF Jobs, UploadPcs
<1>5. job' \in [Machines -> Jobs] /\ job'[m] = found
  BY <1>4 DEF Find, Shared, TypeOK
<1>6. found.pc = "send" /\ found.content = job[m].content /\ found.hash = job[m].hash
  BY DEF Shared, TypeOK, Jobs
<1>7. Shared'
  BY <1>3, <1>5 DEF Find, Shared, TypeOK, VersionsAreReal, DriveHoldsVersions, IsVersion,
                    local, history
<1>8. UploadSound(m)'
  BY <1>5, <1>6 DEF Find, MachineSound, UploadSound, UploadPcs, IsVersion, history
<1>9. RestoreSound(m)'
  BY <1>5, <1>6 DEF RestoreSound, RestorePcs
<1>10. BackupSound(m)'
  BY <1>5, <1>6 DEF Find, MachineSound, BackupSound, Content, Kept, local, history
<1>11. DatabaseSound(m)' /\ RecordSound(m)'
  BY DEF Find, MachineSound, DatabaseSound, RecordSound, Content, Arrived, IsVersion,
         local, history
<1> QED
  BY <1>7, <1>8, <1>9, <1>10, <1>11 DEF MachineSound

LEMMA SendSafe ==
    ASSUME Shared, NEW m \in Machines, MachineSound(m), Send(m)
    PROVE  Shared' /\ MachineSound(m)'
<1> DEFINE a == state[m].account
           file == [id |-> FileId(m), content |-> job[m].content,
                    hash |-> job[m].hash, at |-> job[m].at]
<1>1. /\ a \in Accounts /\ drive[a] \in Seq(Files)
      /\ IsVersion(job[m].content) /\ job[m].hash = job[m].content
  BY DEF Send, Shared, TypeOK, MachineSound, UploadSound, UploadPcs
<1>2. file \in Files
  <2>1. FileId(m) \in Nat \ {0}
    BY <1>1 DEF FileId, Shared, TypeOK, Jobs
  <2> QED
    BY <2>1 DEF Files, Shared, TypeOK, Jobs
<1>3. drive' \in [Accounts -> Seq(Files)] /\ drive'[a] = Append(drive[a], file)
  BY <1>1, <1>2 DEF Send, Shared, TypeOK
<1>4. job' \in [Machines -> Jobs] /\ job'[m] = [job[m] EXCEPT !.pc = "save"]
  BY NextPcType DEF Send, Shared
<1>5. /\ job'[m].pc = "save" /\ job'[m].hash = job[m].hash
      /\ job'[m].content = job[m].content
  BY <1>4 DEF Shared, TypeOK, Jobs
<1>6. TypeOK'
  BY <1>3, <1>4 DEF Send, Shared, TypeOK, local, history
<1>7. DriveHoldsVersions'
  <2>1. ASSUME NEW b \in Accounts, NEW n \in DOMAIN drive'[b]
        PROVE  \/ n \in DOMAIN drive[b] /\ drive'[b][n] = drive[b][n]
               \/ drive'[b][n] = file
    BY <1>1, <1>3 DEF Send, Shared, TypeOK
  <2> QED
    BY <1>1, <2>1 DEF Send, Shared, DriveHoldsVersions, IsVersion, history
<1>8. VersionsAreReal'
  BY DEF Send, Shared, VersionsAreReal, history
<1>9. UploadSound(m)'
  <2>1. Len(drive'[a]) \in DOMAIN drive'[a] /\ drive'[a][Len(drive'[a])] = file
    BY <1>1, <1>3
  <2>2. drive'[a][Len(drive'[a])].content = job[m].content
    BY <2>1
  <2>3. Arrived(a, job[m].content)'
    BY <2>1, <2>2 DEF Send, Arrived
  <2> QED
    BY <1>1, <1>5, <2>3 DEF Send, UploadSound, UploadPcs, IsVersion, history
<1>10. RestoreSound(m)'
  BY <1>5 DEF RestoreSound, RestorePcs
<1>11. RecordSound(m)'
  <2>1. \A b \in Accounts : \A c : Arrived(b, c) => Arrived(b, c)'
    BY ArrivedStays DEF Shared
  <2> QED
    BY <2>1 DEF Send, MachineSound, RecordSound, Arrived
<1>12. BackupSound(m)'
  BY <1>5 DEF Send, MachineSound, BackupSound, Content, Kept, local, history
<1>13. DatabaseSound(m)'
  BY DEF Send, MachineSound, DatabaseSound, Content, IsVersion, local, history
<1> QED
  BY <1>6, <1>7, <1>8, <1>9, <1>10, <1>11, <1>12, <1>13 DEF Shared, MachineSound

-----------------------------------------------------------------------------
(***************************************************************************)
(* The other computers are not touched, and what they rely on stays: the   *)
(* versions, and what has arrived.                                         *)
(***************************************************************************)
LEMMA OthersUnchanged ==
    ASSUME Shared, NEW m \in Machines, MachineStep(m), NEW n \in Machines, n # m
    PROVE  /\ main'[n] = main[n] /\ wal'[n] = wal[n] /\ torn'[n] = torn[n]
           /\ backups'[n] = backups[n] /\ state'[n] = state[n] /\ job'[n] = job[n]
           /\ held'[n] = held[n] /\ guarded'[n] = guarded[n]
           /\ versions \subseteq versions'
           /\ spoilt \subseteq spoilt' /\ (n \in spoilt' => n \in spoilt)
           /\ drive' = drive \/ Send(m)
<1> USE DEF local, history
<1>0. /\ main \in [Machines -> Contents] /\ wal \in [Machines -> SUBSET Edits]
      /\ torn \in [Machines -> BOOLEAN] /\ backups \in [Machines -> Seq(Contents)]
      /\ state \in [Machines -> SyncStates] /\ job \in [Machines -> Jobs]
      /\ held \in [Machines -> Contents] /\ guarded \in [Machines -> 0 .. MaxBackups + 1]
  BY DEF Shared, TypeOK
<1>1. CASE WriteMain(m) \/ Checkpoint(m) \/ Rollback(m)
  BY <1>0, <1>1 DEF WriteMain, Checkpoint, Rollback
<1>2. CASE Edit(m)
  BY <1>0, <1>2 DEF Edit
<1>3. CASE OpenAsIs(m) \/ AskStatus(m) \/ ShowStatus(m) \/ Disconnect(m)
  BY <1>0, <1>3 DEF OpenAsIs, AskStatus, ShowStatus, Disconnect
<1>4. CASE \E a \in Accounts : Connect(m, a)
  BY <1>0, <1>4 DEF Connect
<1>5. CASE \E kind \in {"opening", "restart"} : BeginRestore(m, kind)
  BY <1>0, <1>5 DEF BeginRestore
<1>6. CASE \E content \in Contents : Download(m, content)
  BY <1>0, <1>6 DEF Download
<1>7. CASE CloseDatabase(m) \/ Fail(m) \/ Crash(m)
  BY <1>0, <1>7 DEF CloseDatabase, Fail, Crash
<1>8. CASE Backup(m) \/ BackupBreaks(m)
  BY <1>0, <1>8 DEF Backup, BackupBreaks
<1>9. CASE RemoveSidecars(m)
  BY <1>0, <1>9 DEF RemoveSidecars
<1>10. CASE Rename(m)
  BY <1>0, <1>10 DEF Rename
<1>11. CASE Record(m) \/ Save(m)
  BY <1>0, <1>11 DEF Record, Save
<1>12. CASE UploadNow(m)
  BY <1>0, <1>12 DEF UploadNow, BeginUpload
<1>13. CASE Close(m)
  BY <1>0, <1>13 DEF Close, BeginUpload
<1>14. CASE Find(m)
  BY <1>0, <1>14 DEF Find
<1>15. CASE Send(m)
  BY <1>0, <1>15 DEF Send
<1> QED
  BY <1>1, <1>2, <1>3, <1>4, <1>5, <1>6, <1>7, <1>8, <1>9, <1>10, <1>11, <1>12, <1>13, <1>14,
     <1>15 DEF MachineStep

LEMMA OthersSafe ==
    ASSUME Shared, NEW m \in Machines, MachineStep(m), NEW n \in Machines, n # m,
           MachineSound(n)
    PROVE  MachineSound(n)'
<1>1. /\ main'[n] = main[n] /\ wal'[n] = wal[n] /\ torn'[n] = torn[n]
      /\ backups'[n] = backups[n] /\ state'[n] = state[n] /\ job'[n] = job[n]
      /\ held'[n] = held[n] /\ guarded'[n] = guarded[n]
      /\ versions \subseteq versions'
      /\ spoilt \subseteq spoilt' /\ (n \in spoilt' => n \in spoilt)
  BY OthersUnchanged
<1>2. \A a \in Accounts : \A c : Arrived(a, c) => Arrived(a, c)'
  <2>1. CASE drive' = drive
    BY <2>1 DEF Arrived
  <2>2. CASE Send(m)
    BY <2>2, ArrivedStays DEF Shared
  <2> QED
    BY <2>1, <2>2, OthersUnchanged
<1>3. DatabaseSound(n)'
  BY <1>1 DEF MachineSound, DatabaseSound, Content, IsVersion
<1>4. RecordSound(n)'
  BY <1>1, <1>2 DEF MachineSound, RecordSound, Arrived
<1>5. RestoreSound(n)'
  BY <1>1, <1>2 DEF MachineSound, RestoreSound, Arrived, IsVersion
<1>6. UploadSound(n)'
  BY <1>1, <1>2 DEF MachineSound, UploadSound, Arrived, IsVersion
<1>7. BackupSound(n)'
  BY <1>1 DEF MachineSound, BackupSound, Content, Kept
<1> QED
  BY <1>3, <1>4, <1>5, <1>6, <1>7 DEF MachineSound

LEMMA StepSafe ==
    ASSUME Shared, NEW m \in Machines, MachineSound(m), MachineStep(m)
    PROVE  Shared' /\ MachineSound(m)'
<1>1. CASE Record(m) \/ Save(m)
  BY <1>1, RecordStep DEF Record, Save
<1> QED
  BY <1>1, EditSafe, WriteMainSafe, CheckpointSafe, OpenAsIsSafe, StatusSafe, ConnectSafe,
     DisconnectSafe, BeginRestoreSafe, DownloadSafe, CloseDatabaseSafe, BackupSafe, BackupBreaksSafe, RemoveSidecarsSafe,
     RenameSafe, UploadNowSafe, CloseSafe, FindSafe, SendSafe, FailSafe, CrashSafe
     DEF MachineStep

LEMMA InitSafe == Init => IInv
<1> SUFFICES ASSUME Init PROVE IInv
  OBVIOUS
<1>1. Disconnected \in SyncStates /\ Off \in Jobs /\ {} \in Contents
  BY DEF Disconnected, SyncStates, Off, Jobs, Contents, Hashes
<1>2. TypeOK
  BY <1>1, LimitAssumption DEF Init, TypeOK, Contents
<1>3. VersionsAreReal /\ DriveHoldsVersions
  BY DEF Init, VersionsAreReal, DriveHoldsVersions, IsVersion
<1>4. ASSUME NEW m \in Machines PROVE MachineSound(m)
  <2>1. Disconnected.hash = NoHash /\ Off.pc = "off"
    BY DEF Disconnected, Off
  <2>2. DatabaseSound(m) /\ RecordSound(m)
    BY <2>1 DEF Init, DatabaseSound, RecordSound, Content, IsVersion
  <2>3. RestoreSound(m) /\ UploadSound(m)
    BY <2>1 DEF Init, RestoreSound, UploadSound, RestorePcs, UploadPcs
  <2>4. BackupSound(m)
    BY <2>1 DEF Init, BackupSound
  <2> QED
    BY <2>2, <2>3, <2>4 DEF MachineSound
<1> QED
  BY <1>2, <1>3, <1>4 DEF IInv

LEMMA NextSafe == IInv /\ [Next]_vars => IInv'
<1> SUFFICES ASSUME IInv, [Next]_vars PROVE IInv'
  OBVIOUS
<1>1. ASSUME NEW m \in Machines, MachineStep(m) PROVE IInv'
  <2>1. Shared' /\ MachineSound(m)'
    BY <1>1, StepSafe DEF IInv, Shared
  <2>2. ASSUME NEW n \in Machines, n # m PROVE MachineSound(n)'
    BY <1>1, <2>2, OthersSafe DEF IInv, Shared
  <2> QED
    BY <2>1, <2>2 DEF IInv, Shared
<1>2. CASE UNCHANGED vars
  <2>1. TypeOK' /\ VersionsAreReal' /\ DriveHoldsVersions'
    BY <1>2 DEF IInv, vars, TypeOK, VersionsAreReal, DriveHoldsVersions, IsVersion
  <2>2. ASSUME NEW m \in Machines PROVE MachineSound(m)'
    BY <1>2 DEF IInv, vars, MachineSound, DatabaseSound, RecordSound, RestoreSound,
                UploadSound, BackupSound, Content, Kept, Arrived, IsVersion
  <2> QED
    BY <2>1, <2>2 DEF IInv
<1> QED
  BY <1>1, <1>2 DEF Next

\* What the invariant says of the database, the backups and the records.
LEMMA InvariantImplies ==
    ASSUME IInv
    PROVE  /\ TypeOK
           /\ DatabaseIsAVersion
           /\ NothingLostLocally
           /\ SkippedUploadIsSafe
<1>1. DatabaseIsAVersion
  BY DEF IInv, MachineSound, DatabaseSound, DatabaseIsAVersion, IsVersion
<1>2. NothingLostLocally
  BY DEF IInv, MachineSound, BackupSound, NothingLostLocally
<1>3. SkippedUploadIsSafe
  BY AccountAssumption DEF IInv, MachineSound, RecordSound, SkippedUploadIsSafe
<1> QED
  BY <1>1, <1>2, <1>3 DEF IInv

-----------------------------------------------------------------------------
(***************************************************************************)
(* The inductive invariant: through crashes, failures, clocks that differ  *)
(* and computers that overwrite one another's backups, every job carries a *)
(* version some computer had and keeps what it is about to replace, until  *)
(* a restore replaces a file that was torn.                                *)
(***************************************************************************)
THEOREM Invariant == Spec => []IInv
BY InitSafe, NextSafe, PTL DEF Spec

(***************************************************************************)
(* Every reachable state is well typed.                                    *)
(***************************************************************************)
THEOREM TypeCorrect == Spec => []TypeOK
BY Invariant, InvariantImplies, PTL

(***************************************************************************)
(* Whenever the process dies in replaceDatabase or anywhere else, the main *)
(* file and the -wal beside it make a version that some computer had, as   *)
(* long as no restore has replaced a torn file.                            *)
(***************************************************************************)
THEOREM DatabasesAreVersions == Spec => []DatabaseIsAVersion
BY Invariant, InvariantImplies, PTL

(***************************************************************************)
(* Until more backups are made than are kept, no restore, whole or broken  *)
(* off, loses a commit the computer had, unless it replaces a torn file.   *)
(***************************************************************************)
THEOREM NothingIsLost == Spec => []NothingLostLocally
BY Invariant, InvariantImplies, PTL

(***************************************************************************)
(* UploadDatabase skips only content that the account in use has received. *)
(***************************************************************************)
THEOREM SkippedUploads == Spec => []SkippedUploadIsSafe
BY Invariant, InvariantImplies, PTL

-----------------------------------------------------------------------------
(***************************************************************************)
(* CloudSync implements VersionStore.  The step simulation needs no case   *)
(* on what a restore or an upload does: the inductive invariant, after the *)
(* step, says that the database is a version and that nothing was lost; or *)
(* a torn file has been replaced, and nothing is promised any more.        *)
(***************************************************************************)
\* What a step does to the history: only Edit makes a version.
LEMMA VersionsGrowByEdits ==
    ASSUME NEW m \in Machines, MachineStep(m)
    PROVE  Edit(m) \/ versions' = versions
BY DEF MachineStep, WriteMain, Checkpoint, Rollback, OpenAsIs, AskStatus, ShowStatus, Connect,
       Disconnect, BeginRestore, Download, CloseDatabase, Backup, BackupBreaks, RemoveSidecars, Rename, Record, UploadNow, Close, BeginUpload,
       Find, Send, Save, Fail, Crash, history

\* What a computer has had it has had for ever, and it never makes fewer backups.
LEMMA HeldGrows ==
    ASSUME TypeOK, NEW m \in Machines, MachineStep(m)
    PROVE  /\ held[m] \subseteq held'[m] /\ guarded'[m] \in {guarded[m], OneMore(guarded[m])}
           /\ spoilt \subseteq spoilt'
<1>1. CASE Edit(m)
  BY <1>1 DEF TypeOK, Edit
<1>2. CASE Rename(m)
  BY <1>2 DEF TypeOK, Rename
<1>3. CASE Backup(m) \/ BackupBreaks(m)
  BY <1>3 DEF TypeOK, Backup, BackupBreaks
<1>4. CASE held' = held /\ guarded' = guarded /\ spoilt \subseteq spoilt'
  BY <1>4
<1>5. \/ Edit(m) \/ Rename(m) \/ Backup(m) \/ BackupBreaks(m)
      \/ held' = held /\ guarded' = guarded /\ spoilt \subseteq spoilt'
  BY DEF MachineStep, WriteMain, Checkpoint, Rollback, OpenAsIs, AskStatus, ShowStatus, Connect,
       Disconnect, BeginRestore, Download, CloseDatabase, RemoveSidecars, Record, UploadNow, Close, BeginUpload, Find, Send, Save,
       Fail, Crash, history
<1> QED
  BY <1>1, <1>2, <1>3, <1>4, <1>5

LEMMA FullStaysFull ==
    ASSUME TypeOK, NEW m \in Machines, guarded'[m] \in {guarded[m], OneMore(guarded[m])}
    PROVE  (guarded[m] > MaxBackups) => (guarded'[m] > MaxBackups)
<1>1. guarded[m] \in 0 .. MaxBackups + 1 /\ MaxBackups \in Nat
  BY LimitAssumption DEF TypeOK
<1>2. CASE guarded'[m] = guarded[m]
  BY <1>2
<1>3. CASE guarded'[m] = OneMore(guarded[m])
  BY <1>1, <1>3 DEF OneMore
<1> QED
  BY <1>2, <1>3

\* The mapped variables, under names of their own.
Db == [m \in Machines |-> Content(m)]
Kept1(m) == held[m] \cap (Content(m) \cup Kept(m))
KeptAll == [m \in Machines |-> Kept1(m)]
Full == [m \in Machines |-> guarded[m] > MaxBackups]

\* The mapped variables of the computers that do not take the step.
LEMMA OthersMapped ==
    ASSUME TypeOK, NEW m \in Machines, MachineStep(m)
    PROVE  /\ Db' = [Db EXCEPT ![m] = Content(m)']
           /\ KeptAll' = [KeptAll EXCEPT ![m] = Kept1(m)']
           /\ Full' = [Full EXCEPT ![m] = (guarded[m] > MaxBackups)']
<1>1. \A n \in Machines \ {m} :
         /\ main'[n] = main[n] /\ wal'[n] = wal[n] /\ backups'[n] = backups[n]
         /\ held'[n] = held[n] /\ guarded'[n] = guarded[n]
  BY DEF TypeOK, MachineStep, WriteMain, Edit, Checkpoint, Rollback, OpenAsIs, AskStatus,
       ShowStatus, Connect, Disconnect, BeginRestore, Download, CloseDatabase, Backup,
       BackupBreaks, RemoveSidecars, Rename, Record, UploadNow, Close, BeginUpload, Find, Send,
       Save, Fail, Crash, local, history
<1>2. \A n \in Machines \ {m} : Content(n)' = Content(n) /\ Kept(n)' = Kept(n)
  BY <1>1 DEF Content, Kept
<1>3. \A n \in Machines \ {m} : Kept1(n)' = Kept1(n)
  BY <1>1, <1>2 DEF Kept1
<1> QED
  BY <1>1, <1>2, <1>3 DEF Db, KeptAll, Full

LEMMA EditCommits ==
    ASSUME TypeOK, NEW m \in Machines, Edit(m)
    PROVE  \E c \in Edits :
             /\ Content(m)' = Content(m) \cup {c}
             /\ versions' = versions \cup {Content(m) \cup {c}}
             /\ Kept1(m)' = Kept1(m) \cup {c}
             /\ guarded' = guarded
<1>1. edits' \in Edits
  BY LimitAssumption DEF TypeOK, Edit, Edits
<1>2. Content(m)' = Content(m) \cup {edits'} /\ Kept(m)' = Kept(m)
  BY DEF TypeOK, Edit, Content, Kept
<1>3. held'[m] = held[m] \cup {edits'}
  BY DEF TypeOK, Edit
<1> QED
  BY <1>1, <1>2, <1>3 DEF Edit, Kept1

\* Nothing that is kept goes while the backups are not full.
LEMMA KeptStays ==
    ASSUME IInv, IInv', NEW m \in Machines, MachineStep(m), ~(guarded'[m] > MaxBackups),
           spoilt' = {}
    PROVE  Kept1(m) \subseteq Kept1(m)'
<1>1. guarded'[m] <= MaxBackups
  BY LimitAssumption DEF IInv, TypeOK
<1>2. held'[m] \subseteq (Content(m) \cup Kept(m))'
  BY <1>1 DEF IInv, MachineSound, BackupSound
<1> QED
  BY <1>2, HeldGrows DEF Kept1, IInv

LEMMA StepImplements ==
    ASSUME IInv, IInv', NEW m \in Machines, MachineStep(m), spoilt' = {}
    PROVE  Store!CommitOne(m) \/ Store!Replace(m)
<1>0. TypeOK /\ TypeOK'
  BY DEF IInv
<1>1. /\ Db' = [Db EXCEPT ![m] = Content(m)']
      /\ KeptAll' = [KeptAll EXCEPT ![m] = Kept1(m)']
      /\ Full' = [Full EXCEPT ![m] = (guarded[m] > MaxBackups)']
  BY <1>0, OthersMapped
<1>2. Db[m] = Content(m) /\ KeptAll[m] = Kept1(m) /\ Full[m] = (guarded[m] > MaxBackups)
  BY DEF Db, KeptAll, Full
<1>3. CASE Edit(m)
  <2>1. PICK c \in Edits :
             /\ Content(m)' = Content(m) \cup {c}
             /\ versions' = versions \cup {Content(m) \cup {c}}
             /\ Kept1(m)' = Kept1(m) \cup {c}
             /\ guarded' = guarded
    BY <1>0, <1>3, EditCommits
  <2>2. Full' = Full
    BY <2>1 DEF Full
  <2>3. Store!CommitOne(m)
    BY <1>1, <1>2, <2>1, <2>2 DEF Store!CommitOne, Db, KeptAll, Full, Kept1
  <2> QED
    BY <2>3
<1>4. CASE versions' = versions
  <2>1. Content(m)' \in versions
    BY <1>4 DEF IInv, MachineSound, DatabaseSound, IsVersion
  <2>2. Full' \in {Full, [Full EXCEPT ![m] = TRUE]}
    <3>1. (guarded[m] > MaxBackups) => (guarded'[m] > MaxBackups)
      BY <1>0, HeldGrows, FullStaysFull
    <3>2. CASE guarded'[m] > MaxBackups
      <4>1. (guarded[m] > MaxBackups)' = TRUE
        BY <3>2
      <4> QED
        BY <1>1, <4>1
    <3>3. CASE ~(guarded'[m] > MaxBackups)
      <4>1. (guarded[m] > MaxBackups)' = (guarded[m] > MaxBackups)
        BY <3>1, <3>3
      <4>2. Full = [Full EXCEPT ![m] = (guarded[m] > MaxBackups)]
        BY DEF Full
      <4> QED
        BY <1>1, <4>1, <4>2
    <3> QED
      BY <3>2, <3>3
  <2>3. Full'[m] = (guarded'[m] > MaxBackups) /\ KeptAll'[m] = Kept1(m)'
    BY DEF Full, KeptAll
  <2>4. Full'[m] \/ KeptAll[m] \subseteq KeptAll'[m]
    BY <1>2, <2>3, KeptStays
  <2>5. KeptAll' = [KeptAll EXCEPT ![m] = KeptAll'[m]]
    BY <1>1, <2>3
  <2>6. Store!Replace(m)
    BY <1>1, <1>4, <2>1, <2>2, <2>4, <2>5 DEF Store!Replace, Db, KeptAll, Full, Kept1
  <2> QED
    BY <2>6
<1> QED
  BY <1>3, <1>4, VersionsGrowByEdits

LEMMA NextImplements ==
    IInv /\ IInv' /\ [Next]_vars => [Store!StoreNext]_Store!storeVars
<1> SUFFICES ASSUME IInv, IInv', [Next]_vars PROVE [Store!StoreNext]_Store!storeVars
  OBVIOUS
<1>1. ASSUME NEW m \in Machines, MachineStep(m) PROVE Store!StoreNext
  <2>1. CASE spoilt' = {}
    <3>1. spoilt = {}
      BY <1>1, <2>1, HeldGrows DEF IInv
    <3> QED
      BY <1>1, <2>1, <3>1, StepImplements DEF Store!StoreNext
  <2>2. CASE spoilt' # {}
    BY <2>2 DEF Store!StoreNext
  <2> QED
    BY <2>1, <2>2
<1>2. CASE UNCHANGED vars
  BY <1>2 DEF vars, Store!storeVars, Content, Kept
<1> QED
  BY <1>1, <1>2 DEF Next

LEMMA InitImplements == Init => Store!StoreInit
<1> SUFFICES ASSUME Init PROVE Store!StoreInit
  OBVIOUS
<1>1. \A m \in Machines : Content(m) = {} /\ held[m] = {} /\ ~(guarded[m] > MaxBackups)
  BY LimitAssumption DEF Init, Content
<1>2. \A m \in Machines : (guarded[m] > MaxBackups) = FALSE
  BY <1>1
<1>3. \A m \in Machines : held[m] \cap (Content(m) \cup Kept(m)) = {}
  BY <1>1
<1>4. [m \in Machines |-> Content(m)] = [m \in Machines |-> {}]
  BY <1>1
<1>5. [m \in Machines |-> guarded[m] > MaxBackups] = [m \in Machines |-> FALSE]
  BY <1>2
<1>6. [m \in Machines |-> held[m] \cap (Content(m) \cup Kept(m))] = [m \in Machines |-> {}]
  BY <1>3
<1>7. versions = {{}} /\ ~(spoilt # {})
  BY DEF Init
<1> QED
  BY <1>4, <1>5, <1>6, <1>7 DEF Store!StoreInit

(***************************************************************************)
(* The detailed specification implements the abstract one: a restore, with *)
(* its download, backup, removal of the -wal and rename, each of which may *)
(* be the last step before a crash, is atomic and loses nothing, until one *)
(* replaces a file that was torn.                                          *)
(***************************************************************************)
THEOREM Implements == Spec => RestoresAreAtomic
BY Invariant, InitImplements, NextImplements, PTL DEF Spec, RestoresAreAtomic, Store!StoreSpec

-----------------------------------------------------------------------------
(***************************************************************************)
(* A careful user.  At most one computer is at work, so what the account   *)
(* has does not change while a restore or an upload is under way.  One     *)
(* that is connected and has nothing newer to restore holds every commit   *)
(* (Leads); if there is none, the latest file of the account does          *)
(* (Agreed).                                                               *)
(*                                                                         *)
(* The parts speak of one computer: s is its cloud-sync.json, j its job, c *)
(* the content of its database; has, f: whether its account has a backup,  *)
(* and the latest; clock: what it would stamp now; n: the commits so far.  *)
(***************************************************************************)
CarefulUse ==
    /\ MaxFaults = 0
    /\ \A a, b \in Accounts : a = b
    /\ \A m, k \in Machines : Skew[m] = Skew[k]

Connected(s) == s.account # NoAccount
Behind(s, has, f) == Connected(s) /\ has /\ f.at > s.at
Leading(s, j, has, f) == Connected(s) /\ (j.pc \in UploadPcs \/ (j.pc = "open" /\ ~Behind(s, has, f)))

\* What is recorded is of the latest file, or of an older one.
Recorded(s, j, c, has, f) ==
    /\ ~Connected(s) => c = {} /\ j.pc \in {"off", "open"}
    /\ Connected(s) /\ has => s.at <= f.at
    /\ Connected(s) /\ has /\ s.at = f.at => s.hash = f.content /\ (j.pc = "off" => c = f.content)
    /\ Connected(s) /\ ~has => s.at = 0 /\ s.hash = NoHash /\ (j.pc = "off" => c = {})

\* A restore brings the latest file, which is newer than what is recorded.
Restoring(s, j, c, has, f) ==
    j.pc \in RestorePcs =>
        /\ has /\ f.at > s.at
        /\ j.id = f.id /\ j.at = f.at /\ j.hash = f.content
        /\ j.pc = "record" => c = f.content

\* An upload that closes the app sends what the database holds, and what is
\* sent is newer than what was there.
Uploading(s, j, c, has, f, clock) ==
    j.pc \in UploadPcs =>
        /\ j.kind \in {"now", "closing"} /\ (j.kind = "closing" => j.content = c)
        /\ j.pc # "save" => ~Behind(s, has, f)
        /\ j.pc = "send" => 0 < j.at /\ j.at < clock /\ (has => f.at < j.at)
        /\ j.pc = "save" => has /\ f.content = j.content /\ f.at = j.at /\ s.at < j.at

Well(s, j, c, has, f, clock, n) ==
    /\ Recorded(s, j, c, has, f) /\ Restoring(s, j, c, has, f) /\ Uploading(s, j, c, has, f, clock)
    /\ j.pc \in {"off", "open"} => j.kind = "none"
    /\ Leading(s, j, has, f) => c = 1 .. n

IsWell(m) ==
    Well(state[m], job[m], Content(m), HasBackup(state[m].account), Latest(state[m].account), now + Skew[m], edits)
Leads(m) == Leading(state[m], job[m], HasBackup(state[m].account), Latest(state[m].account))

Alone == \A m, k \in Machines : job[m].pc # "off" /\ job[k].pc # "off" => m = k
Stamped ==
    now > 0 /\ \A a \in Accounts : HasBackup(a) => 0 < Latest(a).at /\ \A m \in Machines : Latest(a).at < now + Skew[m]
Agreed == \A a \in Accounts : IF HasBackup(a) THEN Latest(a).content = 1 .. edits ELSE edits = 0

\* Nothing is written but by an app at work.
Whole == \A m \in Machines : torn[m] => DatabaseOpen(m)

CarefulInv ==
    /\ IInv /\ Alone /\ Stamped /\ Whole
    /\ (\A m \in Machines : ~Leads(m)) => Agreed
    /\ \A m \in Machines : IsWell(m)

\* What a step does to these parts decides.
LEMMA PartsAre ==
    ASSUME NEW m, NEW s, NEW j, NEW c, NEW has, NEW f, NEW clock, NEW n,
           state'[m] = s, job'[m] = j, Content(m)' = c, HasBackup(state[m].account)' = has,
           Latest(state[m].account)' = f, now' + Skew[m] = clock, edits' = n
    PROVE  (IsWell(m)' <=> Well(s, j, c, has, f, clock, n)) /\ (Leads(m)' <=> Leading(s, j, has, f))
<1>1. IsWell(m)' <=> Well(state'[m], job'[m], Content(m)', HasBackup(state[m].account)', Latest(state[m].account)',
                          now' + Skew[m], edits')
  BY DEF IsWell
<1>2. Leads(m)' <=> Leading(state'[m], job'[m], HasBackup(state[m].account)', Latest(state[m].account)')
  BY DEF Leads
<1> QED
  BY <1>1, <1>2, Zenon

\* No operation fails, and a computer does not crash.
LEMMA NoFault ==
    ASSUME CarefulUse, TypeOK
    PROVE  ~Fault
BY LimitAssumption DEF CarefulUse, TypeOK, Fault

\* The latest file of the account in use.
LEMMA LatestIs ==
    ASSUME IInv, NEW a \in Accounts, HasBackup(a)
    PROVE  Latest(a) \in Files /\ Latest(a).hash = Latest(a).content
<1>1. drive[a] \in Seq(Files) /\ drive[a] # <<>>
  BY DEF IInv, TypeOK, HasBackup
<1>2. Len(drive[a]) \in DOMAIN drive[a] /\ drive[a][Len(drive[a])] \in Files
  BY <1>1
<1> QED
  BY <1>2 DEF IInv, DriveHoldsVersions, Latest

\* The parts of one computer have their types.
LEMMA PartTypes ==
    ASSUME IInv, NEW m \in Machines
    PROVE  /\ state[m] \in SyncStates /\ job[m] \in Jobs /\ Content(m) \in Contents
           /\ edits \in Nat /\ now \in Nat /\ Skew[m] \in Nat
           /\ Connected(state[m]) => state[m].account \in Accounts
           /\ Connected(state[m]) /\ HasBackup(state[m].account) =>
                /\ Latest(state[m].account) \in Files
                /\ Latest(state[m].account).hash = Latest(state[m].account).content
<1>1. TypeOK
  BY DEF IInv
<1>2. state[m] \in SyncStates /\ job[m] \in Jobs /\ Content(m) \in Contents
  BY <1>1, ContentType DEF TypeOK
<1>3. Connected(state[m]) => state[m].account \in Accounts
  BY <1>2 DEF SyncStates, Connected
<1>4. edits \in Nat /\ now \in Nat /\ Skew[m] \in Nat
  BY <1>1, SkewAssumption, LimitAssumption DEF TypeOK
<1> QED
  BY <1>2, <1>3, <1>4, LatestIs

\* The others are off when one is at work.
LEMMA OthersAreOff ==
    ASSUME CarefulInv, NEW m \in Machines, MachineStep(m), Careful, NEW k \in Machines, k # m
    PROVE  job[k].pc = "off" /\ job'[k].pc = "off"
<1>1. job'[k] = job[k]
  BY OthersUnchanged DEF CarefulInv, IInv, Shared
<1>2. CASE job[m].pc # "off"
  BY <1>1, <1>2 DEF CarefulInv, Alone
<1>3. CASE job[m].pc = "off"
  <2>1. (\E kind \in {"opening", "restart"} : BeginRestore(m, kind)) \/ OpenAsIs(m)
    <3>1. ~DatabaseOpen(m)
      <4>1. job[m].kind = "none"
        BY <1>3 DEF CarefulInv, IsWell, Well
      <4> QED
        BY <1>3, <4>1 DEF DatabaseOpen
    <3>2. ~ShowStatus(m)
      <4>1. job[m].kind = "none"
        BY <1>3 DEF CarefulInv, IsWell, Well
      <4> QED
        BY <1>3, <4>1 DEF ShowStatus
    <3> QED
      BY <1>3, <3>1, <3>2 DEF MachineStep, WriteMain, Edit, Checkpoint, Rollback, AskStatus, Connect, Disconnect,
         Download, CloseDatabase, Backup, BackupBreaks, RemoveSidecars, Rename, Record, UploadNow, Close, Find, Send, Save, Fail, Crash, RestorePcs, UploadPcs
  <2>2. job \in [Machines -> Jobs]
    BY DEF CarefulInv, IInv, TypeOK
  <2>3. job'[m].pc # "off"
    <3>1. CASE OpenAsIs(m)
      BY <2>2, <3>1 DEF OpenAsIs, Open
    <3>2. ASSUME NEW kind \in {"opening", "restart"}, BeginRestore(m, kind) PROVE job'[m].pc # "off"
      <4> DEFINE file == Latest(state[m].account)
                 begun == [pc |-> "download", kind |-> kind, id |-> file.id, content |-> {}, hash |-> file.hash, at |-> file.at]
      <4>1. job' = [job EXCEPT ![m] = begun] /\ begun.pc = "download"
        BY <3>2 DEF BeginRestore
      <4> HIDE DEF begun
      <4> QED
        BY <2>2, <4>1
    <3> QED
      BY <2>1, <3>1, <3>2
  <2> QED
    BY <1>1, <2>3 DEF Careful
<1> QED
  BY <1>2, <1>3

\* They stay as they should be: an upload of another only makes them older.
LEMMA OthersAreWell ==
    ASSUME CarefulUse, CarefulInv, NEW m \in Machines, MachineStep(m), NEW k \in Machines, k # m, job[k].pc = "off"
    PROVE  IsWell(k)' /\ ~Leads(k) /\ ~Leads(k)'
<1> DEFINE s == state[k]
           j == job[k]
           c == Content(k)
           a == s.account
           has == HasBackup(a)
           f == Latest(a)
<1>1. /\ state'[k] = s /\ job'[k] = j /\ Content(k)' = c
      /\ drive' = drive \/ Send(m)
  BY OthersUnchanged DEF CarefulInv, IInv, Shared, Content
<1>2. Well(s, j, c, has, f, now + Skew[k], edits) /\ j.pc = "off"
  BY DEF CarefulInv, IsWell
<1>4. PICK has1, f1, clock1, n1 : /\ HasBackup(state[k].account)' = has1 /\ Latest(state[k].account)' = f1
                                  /\ now' + Skew[k] = clock1 /\ edits' = n1
  OBVIOUS
<1>5. (IsWell(k)' <=> Well(s, j, c, has1, f1, clock1, n1)) /\ (Leads(k)' <=> Leading(s, j, has1, f1))
  BY <1>1, <1>4, PartsAre
<1>6. Recorded(s, j, c, has1, f1)
  <2>1. CASE drive' = drive
    <3>1. has1 = has /\ f1 = f
      BY <1>1, <1>4, <2>1 DEF HasBackup, Latest
    <3> QED
      BY <1>2, <3>1 DEF Well
  <2>2. CASE Send(m) /\ Connected(s)
    <3>1. a \in Accounts /\ state[m].account \in Accounts /\ a = state[m].account /\ job[m].at \in Nat
          /\ s.at \in Nat /\ (has => f.at \in Nat) /\ drive[a] \in Seq(Files)
      <4>1. Connected(s) /\ Connected(state[m])
        BY <2>2 DEF Send, CarefulInv, IsWell, Well, Recorded
      <4>2. a \in Accounts /\ state[m].account \in Accounts
        BY <4>1, PartTypes DEF CarefulInv
      <4>3. /\ job[m] \in Jobs /\ s \in SyncStates /\ drive[a] \in Seq(Files)
            /\ has => f \in Files
        BY <4>1, <4>2, PartTypes DEF CarefulInv, IInv, TypeOK
      <4> QED
        BY <4>2, <4>3 DEF CarefulUse, Jobs, SyncStates, Files
    <3>2. has1 /\ f1.at = job[m].at
      <4>1. drive' = [drive EXCEPT ![a] = Append(drive[a], [id |-> FileId(m), content |-> job[m].content,
                              hash |-> job[m].hash, at |-> job[m].at])]
        BY <2>2, <3>1 DEF Send
      <4>2. a \in DOMAIN drive
        BY <3>1 DEF CarefulInv, IInv, TypeOK
      <4> DEFINE file == [id |-> FileId(m), content |-> job[m].content, hash |-> job[m].hash, at |-> job[m].at]
      <4>3. drive'[a] = Append(drive[a], file) /\ file.at = job[m].at
        BY <4>1, <4>2
      <4> HIDE DEF file
      <4>4. drive'[a] # <<>> /\ drive'[a][Len(drive'[a])] = file
        BY <3>1, <4>3
      <4> QED
        BY <1>1, <1>4, <4>3, <4>4 DEF HasBackup, Latest
    <3>3. has => f.at < job[m].at
      BY <2>2, <3>1 DEF CarefulInv, IsWell, Well, Uploading, Send, UploadPcs
    <3>4. 0 < job[m].at
      BY <2>2 DEF CarefulInv, IsWell, Well, Uploading, Send, UploadPcs
    <3>5. (has => s.at <= f.at) /\ (~has => s.at = 0)
      BY <1>2, <2>2 DEF Well, Recorded
    <3>6. s.at < job[m].at
      BY <3>1, <3>3, <3>4, <3>5
    <3>7. s.at <= f1.at /\ s.at # f1.at
      BY <3>1, <3>2, <3>6
    <3> QED
      BY <1>2, <2>2, <3>2, <3>7 DEF Well, Recorded
  <2>3. CASE ~Connected(s)
    BY <1>2, <2>3 DEF Well, Recorded
  <2> QED
    BY <1>1, <2>1, <2>2, <2>3
<1>7. Well(s, j, c, has1, f1, clock1, n1)
  BY <1>2, <1>6 DEF Well, Restoring, Uploading, Leading, RestorePcs, UploadPcs
<1>8. ~Leading(s, j, has1, f1) /\ ~Leading(s, j, has, f)
  BY <1>2 DEF Leading, UploadPcs
<1> QED
  BY <1>5, <1>7, <1>8 DEF Leads

-----------------------------------------------------------------------------
\* The steps of the one at work.  Its own part is well, and as long as it
\* does not lead the latest file has every commit.
Ready(m) ==
    /\ CarefulUse /\ CarefulInv /\ m \in Machines
    /\ ~Leads(m) => Agreed

Keeps(m) == IsWell(m)' /\ (~Leads(m)' => Agreed')

\* A step that leaves Drive and records alone changes the job, or the content.
LEMMA QuietStep ==
    ASSUME NEW m, Ready(m), drive' = drive, state' = state, NEW j, NEW c, NEW clock, NEW n,
           job'[m] = j, Content(m)' = c, now' + Skew[m] = clock, edits' = n,
           Well(state[m], j, c, HasBackup(state[m].account), Latest(state[m].account), clock, n),
           ~Leading(state[m], j, HasBackup(state[m].account), Latest(state[m].account)) => Agreed /\ n = edits
    PROVE  Keeps(m)
<1> DEFINE s == state[m]
           has == HasBackup(s.account)
           f == Latest(s.account)
<1>1. state'[m] = s /\ HasBackup(state[m].account)' = has /\ Latest(state[m].account)' = f
  BY DEF HasBackup, Latest
<1>2. (IsWell(m)' <=> Well(s, j, c, has, f, clock, n)) /\ (Leads(m)' <=> Leading(s, j, has, f))
  BY <1>1, PartsAre
<1>3. Agreed /\ n = edits => Agreed'
  BY DEF Agreed, HasBackup, Latest
<1> QED
  BY <1>2, <1>3 DEF Keeps

LEMMA EditKeeps ==
    ASSUME NEW m, Ready(m), Careful, Edit(m)
    PROVE  Keeps(m)
<1> DEFINE s == state[m]
           j == job[m]
           c == Content(m)
           has == HasBackup(s.account)
           f == Latest(s.account)
           clock == now + Skew[m]
           n == edits
<1>0. m \in Machines /\ IInv /\ TypeOK /\ n \in Nat
  BY PartTypes DEF Ready, CarefulInv, IInv
<1>1. Well(s, j, c, has, f, clock, n)
  BY DEF Ready, CarefulInv, IsWell
<1>2. edits' = n + 1 /\ Content(m)' = c \union {n + 1} /\ job' = job /\ now' = now /\ drive' = drive /\ state' = state
  BY <1>0 DEF Edit, TypeOK, Content
<1>3. Connected(s) /\ ~Behind(s, has, f)
  <2>1. j.pc # "off"
    BY <1>1 DEF Edit, DatabaseOpen, Well
  <2>2. edits' # edits
    BY <1>0, <1>2
  <2> QED
    BY <1>0, <2>1, <2>2 DEF Careful, Synced, Pending, Connected, Behind
<1>4. j.pc \in {"open", "find", "send"} /\ j.kind # "closing"
  BY <1>0, <1>1, <1>3, PartTypes
  DEF Edit, DatabaseOpen, Well, Restoring, Uploading, Behind, RestorePcs, UploadPcs, Jobs, Files, SyncStates
<1>5. Leading(s, j, has, f)
  BY <1>3, <1>4 DEF Leading, UploadPcs
<1>6. c \union {n + 1} = 1 .. n + 1
  BY <1>0, <1>1, <1>5 DEF Well
<1> HIDE DEF s, j, c, has, f, clock, n
<1>7. Well(s, j, c \union {n + 1}, has, f, clock, n + 1)
  BY <1>1, <1>3, <1>4, <1>6 DEF Well, Recorded, Restoring, Uploading, RestorePcs, UploadPcs
<1> QED
  BY <1>2, <1>5, <1>7, QuietStep DEF s, j, c, has, f, clock, n

LEMMA CheckpointKeeps ==
    ASSUME NEW m, Ready(m),
           WriteMain(m) \/ Checkpoint(m) \/ Rollback(m) \/ AskStatus(m) \/ ShowStatus(m)
    PROVE  Keeps(m)
<1>1. /\ Content(m)' = Content(m) /\ job' = job /\ now' = now /\ edits' = edits /\ drive' = drive /\ state' = state
  BY DEF Ready, CarefulInv, IInv, TypeOK, WriteMain, Checkpoint, Rollback, AskStatus, ShowStatus, Content, local
<1>2. Well(state[m], job[m], Content(m), HasBackup(state[m].account), Latest(state[m].account), now + Skew[m], edits)
  BY DEF Ready, CarefulInv, IsWell
<1> QED
  BY <1>1, <1>2, QuietStep DEF Ready, Leads

LEMMA OpenAsIsKeeps ==
    ASSUME NEW m, Ready(m), OpenAsIs(m)
    PROVE  Keeps(m)
<1> DEFINE s == state[m]
           c == Content(m)
           has == HasBackup(s.account)
           f == Latest(s.account)
           clock == now + Skew[m]
           n == edits
<1>0. m \in Machines /\ IInv /\ TypeOK /\ CarefulUse
  BY DEF Ready, CarefulInv, IInv
<1>1. Well(s, job[m], c, has, f, clock, n) /\ job[m].pc = "off"
  BY DEF Ready, CarefulInv, IsWell, OpenAsIs
<1>2. /\ Content(m)' = c /\ job'[m] = Open /\ now' = now /\ edits' = n /\ drive' = drive /\ state' = state
      /\ ~Pending(m)
  BY <1>0, NoFault DEF TypeOK, OpenAsIs, Content, local
<1>3. ~Behind(s, has, f)
  BY <1>2 DEF Pending, Behind, Connected
<1>4. Agreed
  BY <1>1 DEF Ready, Leads, Leading, UploadPcs
<1>5. Connected(s) => IF has THEN f.content = 1 .. n ELSE n = 0
  BY <1>0, <1>4, PartTypes DEF Agreed
<1>6. /\ s \in SyncStates
      /\ Connected(s) /\ has => f \in Files
  BY <1>0, PartTypes
<1> HIDE DEF s, c, has, f, clock, n
<1>7. Connected(s) => c = 1 .. n
  <2>1. CASE Connected(s) /\ has
    <3>1. s.at \in Nat /\ f.at \in Nat /\ s.at <= f.at /\ ~(f.at > s.at)
      BY <1>1, <1>3, <1>6, <2>1 DEF SyncStates, Files, Behind, Well, Recorded
    <3>2. s.at = f.at
      BY <3>1
    <3> QED
      BY <1>1, <1>5, <2>1, <3>2 DEF Well, Recorded
  <2>2. CASE Connected(s) /\ ~has
    BY <1>1, <1>5, <2>2 DEF Well, Recorded
  <2> QED
    BY <2>1, <2>2
<1>8. Well(s, Open, c, has, f, clock, n)
  BY <1>1, <1>7 DEF Well, Recorded, Restoring, Uploading, Leading, Open, Off, RestorePcs, UploadPcs
<1> QED
  BY <1>2, <1>4, <1>8, QuietStep DEF s, c, has, f, clock, n

\* A restore that begins, and goes on to the rename: it does not lead.
LEMMA RestoreKeeps ==
    ASSUME NEW m, Ready(m), drive' = drive, state' = state, edits' = edits, ~Leads(m), Connected(state[m]),
           NEW j, job'[m] = j, j.pc \in RestorePcs,
           Restoring(state[m], j, Content(m)', HasBackup(state[m].account), Latest(state[m].account))
    PROVE  Keeps(m)
<1> DEFINE s == state[m]
           has == HasBackup(s.account)
           f == Latest(s.account)
<1>1. PICK c, clock, n : Content(m)' = c /\ now' + Skew[m] = clock /\ n = edits
  OBVIOUS
<1>2. Well(s, job[m], Content(m), has, f, now + Skew[m], edits)
  BY DEF Ready, CarefulInv, IsWell
<1>3. Restoring(s, j, c, has, f)
  BY <1>1
<1> HIDE DEF s, has, f
<1>4. Well(s, j, c, has, f, clock, n) /\ ~Leading(s, j, has, f)
  <2>1. Connected(s)
    BY DEF s
  <2> QED
    BY <1>2, <1>3, <2>1 DEF Well, Recorded, Uploading, Leading, RestorePcs, UploadPcs
<1> QED
  BY <1>1, <1>4, QuietStep DEF Ready, s, has, f

LEMMA BeginRestoreKeeps ==
    ASSUME NEW m, Ready(m), NEW kind \in {"opening", "restart"}, BeginRestore(m, kind)
    PROVE  Keeps(m)
<1> DEFINE s == state[m]
           has == HasBackup(s.account)
           f == Latest(s.account)
           begun == [pc |-> "download", kind |-> kind, id |-> f.id, content |-> {}, hash |-> f.hash, at |-> f.at]
<1>0. m \in Machines /\ IInv
  BY DEF Ready, CarefulInv
<1>1. drive' = drive /\ state' = state /\ edits' = edits /\ Pending(m) /\ job[m].pc \in {"off", "open"}
  BY DEF BeginRestore
<1>2. job'[m] = begun
  <2>1. job' = [job EXCEPT ![m] = begun] /\ m \in DOMAIN job
    BY <1>0 DEF BeginRestore, IInv, TypeOK
  <2> HIDE DEF begun
  <2> QED
    BY <2>1
<1>3. Connected(s) /\ Behind(s, has, f) /\ has
  BY <1>1 DEF Pending, Connected, Behind
<1>4. f.hash = f.content
  BY <1>0, <1>3, PartTypes
<1>5. ~Leads(m)
  BY <1>1, <1>3 DEF Leads, Leading, UploadPcs
<1>6. begun.pc \in RestorePcs /\ \A c : Restoring(s, begun, c, has, f)
  BY <1>3, <1>4 DEF Restoring, RestorePcs, Behind
<1> HIDE DEF s, has, f, begun
<1> QED
  BY <1>1, <1>2, <1>3, <1>5, <1>6, RestoreKeeps DEF s, has, f

\* Where a restore stands.
LEMMA RestoreStands ==
    ASSUME NEW m, Ready(m), job[m].pc \in RestorePcs
    PROVE  /\ m \in Machines /\ job[m] \in Jobs /\ state[m] \in SyncStates /\ Connected(state[m]) /\ ~Leads(m) /\ Agreed
           /\ HasBackup(state[m].account)
           /\ Restoring(state[m], job[m], Content(m), HasBackup(state[m].account), Latest(state[m].account))
           /\ job[m].pc # "download" => job[m].content = job[m].hash
           /\ job[m].pc = "rename" => wal[m] = {}
           /\ job[m].kind \in {"opening", "restart"}
<1>1. m \in Machines /\ IInv /\ IsWell(m)
  BY DEF Ready, CarefulInv
<1>2. job[m] \in Jobs /\ state[m] \in SyncStates
  BY <1>1, PartTypes
<1>3. Connected(state[m])
  BY <1>1 DEF IsWell, Well, Recorded, RestorePcs
<1>4. ~Leads(m)
  BY DEF Leads, Leading, RestorePcs, UploadPcs
<1>5. Agreed
  BY <1>4 DEF Ready
<1>6. /\ HasBackup(state[m].account)
      /\ Restoring(state[m], job[m], Content(m), HasBackup(state[m].account), Latest(state[m].account))
  BY <1>1 DEF IsWell, Well, Restoring
<1>7. RestoreSound(m)
  BY <1>1 DEF IInv, MachineSound
<1> QED
  BY <1>1, <1>2, <1>3, <1>4, <1>5, <1>6, <1>7 DEF RestoreSound

LEMMA DownloadKeeps ==
    ASSUME NEW m, Ready(m), NEW content \in Contents, Download(m, content)
    PROVE  Keeps(m)
<1> DEFINE s == state[m]
           has == HasBackup(s.account)
           f == Latest(s.account)
           p == IF job[m].kind = "restart" THEN "close" ELSE "backup"
           got == [job[m] EXCEPT !.content = content, !.pc = p]
<1>0. job[m].pc = "download" /\ job[m].pc \in RestorePcs /\ job \in [Machines -> Jobs]
  BY DEF Download, RestorePcs, Ready, CarefulInv, IInv, TypeOK
<1>1. /\ m \in Machines /\ job[m] \in Jobs /\ Connected(s) /\ ~Leads(m) /\ Agreed /\ has
      /\ \A c : Restoring(s, job[m], c, has, f)
  BY <1>0, RestoreStands DEF Restoring
<1>2. drive' = drive /\ state' = state /\ edits' = edits /\ now' = now
  BY DEF Download
<1>3. CASE job' = [job EXCEPT ![m] = got]
  <2>1. /\ job'[m] = got /\ got.pc \in {"close", "backup"} /\ got.id = job[m].id /\ got.at = job[m].at /\ got.hash = job[m].hash
    BY <1>0, <1>1, <1>3 DEF Jobs
  <2> HIDE DEF got, s, has, f
  <2>2. got.pc \in RestorePcs /\ \A c : Restoring(s, got, c, has, f)
    BY <1>0, <1>1, <2>1 DEF Restoring, RestorePcs
  <2> QED
    BY <1>1, <1>2, <2>1, <2>2, RestoreKeeps DEF s, has, f
<1>4. CASE job' = [job EXCEPT ![m] = Open]
  <2>1. job'[m] = Open
    BY <1>0, <1>1, <1>4
  <2>2. PICK c : Content(m)' = c
    OBVIOUS
  <2>3. Well(s, job[m], Content(m), has, f, now + Skew[m], edits)
    BY DEF Ready, CarefulInv, IsWell
  <2>4. Behind(s, has, f)
    BY <1>0, <1>1 DEF Behind, Restoring
  <2> HIDE DEF s, has, f
  <2>5. Well(s, Open, c, has, f, now + Skew[m], edits)
    BY <1>1, <2>3, <2>4 DEF Well, Recorded, Restoring, Uploading, Leading, Open, Off, RestorePcs, UploadPcs
  <2> QED
    BY <1>1, <1>2, <2>1, <2>2, <2>5, QuietStep DEF s, has, f
<1> QED
  BY <1>3, <1>4 DEF Download

\* A restore that goes on to p, with the content c.
LEMMA RestoreGoesOn ==
    ASSUME NEW m, Ready(m), job[m].pc \in RestorePcs, drive' = drive, state' = state, edits' = edits,
           NEW p \in {"backup", "sidecars", "rename", "record"}, job' = [job EXCEPT ![m].pc = p],
           NEW c, Content(m)' = c, p = "record" => c = Latest(state[m].account).content
    PROVE  Keeps(m)
<1> DEFINE s == state[m]
           has == HasBackup(s.account)
           f == Latest(s.account)
<1>0. /\ m \in Machines /\ job[m] \in Jobs /\ Connected(s) /\ ~Leads(m)
      /\ Restoring(s, job[m], Content(m), has, f)
  BY RestoreStands
<1>1. m \in DOMAIN job
  BY <1>0 DEF Ready, CarefulInv, IInv, TypeOK
<1>2. PICK j : j = job'[m]
  OBVIOUS
<1>3. j.pc = p /\ j.id = job[m].id /\ j.at = job[m].at /\ j.hash = job[m].hash
  BY <1>0, <1>1, <1>2 DEF Jobs
<1>4. j.pc \in RestorePcs
  BY <1>3 DEF RestorePcs
<1> HIDE DEF has, f, s
<1>5. Restoring(s, j, c, has, f)
  BY <1>0, <1>3 DEF Restoring, f, s
<1> QED
  BY <1>0, <1>2, <1>4, <1>5, RestoreKeeps DEF s, has, f

LEMMA ReplaceKeeps ==
    ASSUME NEW m, Ready(m), CloseDatabase(m) \/ Backup(m) \/ RemoveSidecars(m) \/ Rename(m)
    PROVE  Keeps(m)
<1>0. drive' = drive /\ state' = state /\ edits' = edits
  BY DEF CloseDatabase, Backup, RemoveSidecars, Rename
<1>4. CASE CloseDatabase(m)
  <2>1. ~Fault
    BY NoFault DEF Ready, CarefulInv, IInv
  <2> QED
    BY <1>0, <1>4, <2>1, RestoreGoesOn DEF CloseDatabase, RestorePcs
<1>1. CASE Backup(m)
  BY <1>0, <1>1, RestoreGoesOn DEF Backup, RestorePcs
<1>2. CASE RemoveSidecars(m)
  BY <1>0, <1>2, RestoreGoesOn DEF RemoveSidecars, RestorePcs
<1>3. CASE Rename(m)
  <2>1. job[m].pc = "rename" /\ job[m].pc \in RestorePcs
    BY <1>3 DEF Rename, RestorePcs
  <2>2. job[m].content = Latest(state[m].account).content /\ wal[m] = {} /\ m \in Machines
    BY <2>1, RestoreStands DEF Restoring
  <2>7. ~torn[m]
    BY <2>1, <2>2, RestoreStands DEF Ready, CarefulInv, Whole, DatabaseOpen
  <2>3. Content(m)' = job[m].content
    BY <1>3, <2>2, <2>7 DEF Rename, Content, Ready, CarefulInv, IInv, TypeOK
  <2>4. job' = [job EXCEPT ![m].pc = "record"]
    BY <1>3 DEF Rename
  <2>5. PICK c : c = Content(m)'
    OBVIOUS
  <2>6. c = Latest(state[m].account).content
    BY <2>2, <2>3, <2>5
  <2> QED
    BY <1>0, <2>1, <2>4, <2>5, <2>6, RestoreGoesOn
<1> QED
  BY <1>1, <1>2, <1>3, <1>4

\* A restore that is recorded: the database holds the latest version.
LEMMA RecordKeeps ==
    ASSUME NEW m, Ready(m), Record(m)
    PROVE  Keeps(m)
<1> DEFINE s == state[m]
           a == s.account
           has == HasBackup(a)
           f == Latest(a)
           c == Content(m)
           clock == now + Skew[m]
           n == edits
           recorded == [s EXCEPT !.at = job[m].at, !.hash = job[m].hash]
<1>0. job[m].pc = "record" /\ job[m].pc \in RestorePcs
  BY DEF Record, RestorePcs
<1>1. /\ m \in Machines /\ s \in SyncStates /\ Connected(s) /\ Agreed /\ has
      /\ Restoring(s, job[m], c, has, f)
  BY <1>0, RestoreStands
<1>2. f \in Files /\ a \in Accounts
  BY <1>1, PartTypes DEF Ready, CarefulInv
<1>3. f.content = 1 .. n /\ f.at \in Nat
  BY <1>1, <1>2 DEF Agreed, Files
<1>4. /\ job[m].at = f.at /\ job[m].hash = f.content /\ c = f.content
  BY <1>0, <1>1 DEF Restoring
<1>5. state'[m] = recorded /\ job'[m] = After(m) /\ Content(m)' = c /\ drive' = drive /\ now' = now /\ edits' = n
  BY <1>1 DEF Record, Ready, CarefulInv, IInv, TypeOK, Content, local
<1>6. recorded.account = a /\ recorded.at = f.at /\ recorded.hash = f.content
  BY <1>1, <1>4 DEF SyncStates
<1>7. HasBackup(state[m].account)' = has /\ Latest(state[m].account)' = f
  BY <1>5, <1>6 DEF HasBackup, Latest
<1>8. PICK j : j = After(m)
  OBVIOUS
<1>9. j.pc \in {"off", "open"} /\ j.kind = "none"
  BY <1>8 DEF After, Open, Off
<1>10. Agreed'
  BY <1>1, <1>5 DEF Agreed, HasBackup, Latest
<1>11. now' + Skew[m] = clock
  BY <1>5
<1>12. Connected(recorded)
  BY <1>1, <1>6 DEF Connected
<1> HIDE DEF s, a, has, f, c, clock, n, recorded
<1>13. Well(recorded, j, c, has, f, clock, n)
  BY <1>1, <1>3, <1>4, <1>6, <1>9, <1>12 DEF Well, Recorded, Restoring, Uploading, RestorePcs, UploadPcs
<1> QED
  BY <1>5, <1>7, <1>8, <1>10, <1>11, <1>13, PartsAre DEF Keeps

\* The account is chosen once, on a computer that has made no commit.
LEMMA ConnectKeeps ==
    ASSUME NEW m, Ready(m), Careful, NEW a \in Accounts, Connect(m, a)
    PROVE  Keeps(m)
<1> DEFINE s == state[m]
           has == HasBackup(a)
           f == Latest(a)
           c == Content(m)
           clock == now + Skew[m]
           n == edits
           fresh == [Disconnected EXCEPT !.account = a]
<1>0. m \in Machines /\ IInv /\ TypeOK /\ IsWell(m)
  BY DEF Ready, CarefulInv, IInv
<1>1. state' = [state EXCEPT ![m] = fresh] /\ job[m].pc = "open" /\ s.account # a
  BY DEF Connect
<1>2. fresh.account = a /\ fresh.at = 0 /\ fresh.hash = NoHash
  BY DEF Disconnected
<1>3. state'[m] = fresh /\ job'[m] = job[m] /\ Content(m)' = c /\ drive' = drive /\ now' + Skew[m] = clock /\ edits' = n
  BY <1>0, <1>1 DEF Connect, TypeOK, Content, local
<1>4. ~Connected(s)
  BY <1>0, <1>1, <1>2, <1>3 DEF Careful, Connected
<1>5. HasBackup(state[m].account)' = has /\ Latest(state[m].account)' = f
  BY <1>2, <1>3 DEF HasBackup, Latest
<1>6. Agreed
  BY <1>4 DEF Ready, Leads, Leading
<1>7. has => 0 < f.at /\ f.at \in Nat
  BY <1>0, LatestIs DEF Ready, CarefulInv, Stamped, Files
<1>8. ~has => n = 0
  BY <1>6 DEF Agreed
<1>9. c = {} /\ job[m].kind = "none"
  BY <1>0, <1>1, <1>4 DEF IsWell, Well, Recorded
<1>10. Agreed'
  BY <1>3, <1>6 DEF Agreed, HasBackup, Latest
<1> HIDE DEF s, has, f, c, clock, n, fresh
<1>11. has => Behind(fresh, has, f)
  <2>1. Connected(fresh)
    BY <1>2, AccountAssumption DEF Connected
  <2> QED
    BY <1>2, <1>7, <2>1 DEF Behind
<1>12. Recorded(fresh, job[m], c, has, f)
  BY <1>1, <1>2, <1>7, <1>9 DEF Recorded
<1>13. Leading(fresh, job[m], has, f) => c = 1 .. n
  <2>1. Leading(fresh, job[m], has, f) => ~has
    BY <1>1, <1>11 DEF Leading, UploadPcs
  <2>2. n = 0 => c = 1 .. n
    BY <1>9
  <2> QED
    BY <1>8, <2>1, <2>2
<1>14. Well(fresh, job[m], c, has, f, clock, n)
  BY <1>1, <1>9, <1>12, <1>13 DEF Well, Restoring, Uploading, RestorePcs, UploadPcs
<1> QED
  BY <1>3, <1>5, <1>10, <1>14, PartsAre DEF Keeps

\* An upload begins on a computer that has nothing to restore, or on none.
LEMMA UploadStarts ==
    ASSUME NEW m, Ready(m), Careful, UploadNow(m) \/ Close(m), Connected(state[m])
    PROVE  /\ ~Behind(state[m], HasBackup(state[m].account), Latest(state[m].account))
           /\ Leads(m) /\ Content(m) = 1 .. edits
<1> DEFINE s == state[m]
           has == HasBackup(s.account)
           f == Latest(s.account)
<1>0. m \in Machines /\ job \in [Machines -> Jobs] /\ IsWell(m)
  BY DEF Ready, CarefulInv, IInv, TypeOK
<1>1. PICK j : job' = [job EXCEPT ![m] = j] /\ j.pc # "open" /\ j.kind # "restart" /\ job[m].pc = "open"
  <2> DEFINE begun(kind) == [pc |-> "find", kind |-> kind, id |-> 0, at |-> 0,
                             content |-> Content(m), hash |-> Content(m)]
  <2>1. begun("now").pc = "find" /\ begun("now").kind = "now" /\ begun("closing").pc = "find" /\ begun("closing").kind = "closing"
    OBVIOUS
  <2>2. Off.pc = "off" /\ Off.kind = "none"
    BY DEF Off
  <2>3. /\ job[m].pc = "open"
        /\ job' = [job EXCEPT ![m] = begun("now")] \/ job' = [job EXCEPT ![m] = begun("closing")] \/ job' = [job EXCEPT ![m] = Off]
    BY DEF UploadNow, Close, BeginUpload
  <2> HIDE DEF begun
  <2> QED
    BY <2>1, <2>2, <2>3
<1>2. job'[m] = j
  BY <1>0, <1>1
<1>3. ~Pending(m)
  BY <1>0, <1>1, <1>2 DEF Careful
<1>4. ~Behind(s, has, f)
  BY <1>3 DEF Pending, Behind, Connected
<1>5. Leading(s, job[m], has, f)
  BY <1>1, <1>4 DEF Leading
<1> QED
  BY <1>0, <1>4, <1>5 DEF Leads, IsWell, Well

LEMMA UploadKeeps ==
    ASSUME NEW m, Ready(m), Careful, UploadNow(m) \/ Close(m),
           NEW kind \in {"now", "closing"}, BeginUpload(m, kind)
    PROVE  Keeps(m)
<1> DEFINE s == state[m]
           has == HasBackup(s.account)
           f == Latest(s.account)
           c == Content(m)
           n == edits
           clock == now + Skew[m]
           begun == [pc |-> "find", kind |-> kind, id |-> 0, at |-> 0, content |-> c, hash |-> c]
<1>0. m \in Machines /\ job \in [Machines -> Jobs] /\ IsWell(m)
  BY DEF Ready, CarefulInv, IInv, TypeOK
<1>1. job' = [job EXCEPT ![m] = begun] /\ Connected(s)
  BY DEF BeginUpload, Connected
<1>2. ~Behind(s, has, f) /\ c = 1 .. n
  BY <1>1, UploadStarts
<1>3. begun.pc = "find" /\ begun.kind = kind /\ begun.content = c
  OBVIOUS
<1>4. drive' = drive /\ state' = state /\ Content(m)' = c /\ now' + Skew[m] = clock /\ edits' = n
  BY DEF UploadNow, Close, Content, local
<1>5. Well(s, job[m], c, has, f, clock, n)
  BY <1>0 DEF IsWell
<1> HIDE DEF s, has, f, c, n, clock, begun
<1>6. job'[m] = begun
  BY <1>0, <1>1
<1>7. Well(s, begun, c, has, f, clock, n) /\ Leading(s, begun, has, f)
  BY <1>1, <1>2, <1>3, <1>5 DEF Well, Recorded, Restoring, Uploading, Leading, RestorePcs, UploadPcs
<1> QED
  BY <1>4, <1>6, <1>7, QuietStep DEF s, has, f, c, n, clock

\* Closing sends nothing: the latest version is this one, or there is no account.
LEMMA CloseKeeps ==
    ASSUME NEW m, Ready(m), Careful, Close(m)
    PROVE  Keeps(m)
<1> DEFINE s == state[m]
           a == s.account
           has == HasBackup(a)
           f == Latest(a)
           c == Content(m)
           n == edits
           clock == now + Skew[m]
<1>0. /\ m \in Machines /\ job \in [Machines -> Jobs] /\ CarefulUse /\ IInv
      /\ Well(s, job[m], c, has, f, clock, n)
  BY DEF Ready, CarefulInv, IInv, TypeOK, IsWell
<1>1. CASE BeginUpload(m, "closing")
  BY <1>1, UploadKeeps
<1>2. CASE (~Connected(s) \/ c = s.hash) /\ job' = [job EXCEPT ![m] = Off]
  <2>1. drive' = drive /\ state' = state /\ Content(m)' = c /\ now' + Skew[m] = clock /\ edits' = n /\ job[m].pc = "open"
    BY DEF Close, Content, local
  <2>2. job'[m] = Off /\ Off.pc = "off" /\ Off.kind = "none"
    BY <1>0, <1>2 DEF Off
  <2>3. /\ Connected(s) => ~Behind(s, has, f) /\ Leads(m) /\ c = 1 .. n
        /\ ~Connected(s) => ~Leads(m)
    BY UploadStarts DEF Leads, Leading
  <2>4. Connected(s) => has /\ s.at = f.at /\ s.hash = f.content
    <3> SUFFICES ASSUME Connected(s) PROVE has /\ s.at = f.at /\ s.hash = f.content
      OBVIOUS
    <3>1. s \in SyncStates /\ c \in Contents /\ (has => f \in Files)
      BY <1>0, PartTypes
    <3>2. has
      <4>1. c # NoHash
        <5>1. c \subseteq Edits \cup Damaged
          BY <3>1 DEF Contents
        <5>2. -1 \notin Edits \cup Damaged
          BY DEF Edits, Damaged
        <5> QED
          BY <5>1, <5>2 DEF NoHash
      <4> QED
        BY <1>0, <1>2, <4>1 DEF Well, Recorded
    <3>3. s.at <= f.at /\ ~(f.at > s.at) /\ s.at \in Nat /\ f.at \in Nat
      BY <1>0, <2>3, <3>1, <3>2 DEF Well, Recorded, Behind, SyncStates, Files
    <3>4. s.at = f.at
      BY <3>3
    <3> QED
      BY <1>0, <3>2, <3>4 DEF Well, Recorded
  <2>5. Agreed
    <3>1. CASE ~Connected(s)
      BY <2>3, <3>1 DEF Ready
    <3>2. CASE Connected(s)
      <4>1. f.content = 1 .. n /\ has
        BY <1>2, <2>3, <2>4, <3>2
      <4>2. a \in Accounts
        BY <1>0, <3>2, PartTypes
      <4>3. \A b \in Accounts : b = a
        BY <1>0, <4>2 DEF CarefulUse
      <4> HIDE DEF a
      <4> QED
        BY <4>1, <4>3 DEF Agreed
    <3> QED
      BY <3>1, <3>2
  <2> HIDE DEF s, a, has, f, c, n, clock
  <2>6. Connected(s) => c = f.content
    BY <1>2, <2>4
  <2>7. Well(s, Off, c, has, f, clock, n)
    BY <1>0, <2>1, <2>2, <2>4, <2>6 DEF Well, Recorded, Restoring, Uploading, Leading, RestorePcs, UploadPcs
  <2> QED
    BY <2>1, <2>2, <2>5, <2>7, QuietStep DEF s, a, has, f, c, n, clock
<1> QED
  BY <1>1, <1>2 DEF Close, Connected

LEMMA UploadNowKeeps ==
    ASSUME NEW m, Ready(m), Careful, UploadNow(m)
    PROVE  Keeps(m)
BY UploadKeeps DEF UploadNow

\* The stamp is newer than what is there.
LEMMA FindKeeps ==
    ASSUME NEW m, Ready(m), Find(m)
    PROVE  Keeps(m)
<1> DEFINE s == state[m]
           a == s.account
           has == HasBackup(a)
           f == Latest(a)
           c == Content(m)
           n == edits
           clock == now + Skew[m]
           found == [job[m] EXCEPT !.pc = "send", !.at = clock, !.id = IF has THEN f.id ELSE 0]
<1>0. /\ m \in Machines /\ job \in [Machines -> Jobs] /\ job[m] \in Jobs /\ now \in Nat /\ Skew[m] \in Nat /\ Stamped
      /\ Well(s, job[m], c, has, f, clock, n)
  BY PartTypes DEF Ready, CarefulInv, IInv, TypeOK, IsWell
<1>1. job[m].pc = "find" /\ job' = [job EXCEPT ![m] = found]
  BY DEF Find
<1>2. found.pc = "send" /\ found.kind = job[m].kind /\ found.content = job[m].content /\ found.at = clock
  BY <1>0 DEF Jobs
<1>3. drive' = drive /\ state' = state /\ Content(m)' = c /\ now' = now + 1 /\ edits' = n
  BY DEF Find, Content, local
<1>4. Connected(s)
  BY <1>0, <1>1 DEF Well, Recorded
<1>5. a \in Accounts
  BY <1>0, <1>4, PartTypes DEF Ready, CarefulInv
<1>6. /\ 0 < clock /\ clock < clock + 1 /\ now' + Skew[m] = clock + 1
      /\ has => f.at < clock
  BY <1>0, <1>3, <1>5 DEF Stamped
<1> HIDE DEF s, a, has, f, c, n, clock, found
<1>7. job'[m] = found
  BY <1>0, <1>1
<1>8. Well(s, found, c, has, f, clock + 1, n) /\ Leading(s, found, has, f)
  BY <1>0, <1>1, <1>2, <1>4, <1>6 DEF Well, Recorded, Restoring, Uploading, Leading, RestorePcs, UploadPcs
<1> QED
  BY <1>3, <1>6, <1>7, <1>8, QuietStep DEF s, a, has, f, c, n, clock

\* The account has what the sender holds.
LEMMA SendKeeps ==
    ASSUME NEW m, Ready(m), Send(m)
    PROVE  Keeps(m)
<1> DEFINE s == state[m]
           a == s.account
           has == HasBackup(a)
           f == Latest(a)
           c == Content(m)
           n == edits
           clock == now + Skew[m]
           file == [id |-> FileId(m), content |-> job[m].content, hash |-> job[m].hash, at |-> job[m].at]
           sent == [job[m] EXCEPT !.pc = "save"]
<1>0. /\ m \in Machines /\ job \in [Machines -> Jobs] /\ job[m] \in Jobs /\ s \in SyncStates
      /\ Well(s, job[m], c, has, f, clock, n)
  BY PartTypes DEF Ready, CarefulInv, IInv, TypeOK, IsWell
<1>1. job[m].pc = "send" /\ job' = [job EXCEPT ![m] = sent] /\ drive' = [drive EXCEPT ![a] = Append(@, file)]
  BY DEF Send
<1>2. sent.pc = "save" /\ sent.kind = job[m].kind /\ sent.content = job[m].content /\ sent.at = job[m].at
  BY <1>0 DEF Jobs
<1>3. state' = state /\ Content(m)' = c /\ now' + Skew[m] = clock /\ edits' = n
  BY DEF Send, Content, local
<1>4. Connected(s)
  BY <1>0, <1>1 DEF Well, Recorded
<1>5. a \in Accounts /\ (has => f \in Files)
  BY <1>0, <1>4, PartTypes DEF Ready, CarefulInv
<1>6. drive \in [Accounts -> Seq(Files)]
  BY DEF Ready, CarefulInv, IInv, TypeOK
<1>7. file.content = job[m].content /\ file.at = job[m].at
  OBVIOUS
<1>8. s.at \in Nat /\ job[m].at \in Nat /\ (has => f.at \in Nat)
  BY <1>0, <1>5 DEF SyncStates, Jobs, Files
<1> HIDE DEF s, a, has, f, c, n, clock, file, sent
<1>9. /\ 0 < job[m].at /\ (has => f.at < job[m].at) /\ (has => s.at <= f.at) /\ (~has => s.at = 0)
  BY <1>0, <1>1, <1>4 DEF Well, Recorded, Uploading, UploadPcs
<1>10. s.at < job[m].at
  BY <1>8, <1>9
<1>11. job'[m] = sent
  BY <1>0, <1>1
<1>12. HasBackup(state[m].account)' /\ Latest(state[m].account)' = file
  <2>1. drive[a] \in Seq(Files) /\ drive'[a] = Append(drive[a], file)
    BY <1>1, <1>5, <1>6
  <2>2. drive'[a] # <<>> /\ drive'[a][Len(drive'[a])] = file
    BY <2>1
  <2>3. state'[m].account = a
    BY <1>3 DEF s, a
  <2> QED
    BY <2>2, <2>3 DEF HasBackup, Latest
<1>13. Leading(s, job[m], has, f) /\ Leading(s, sent, TRUE, file)
  BY <1>1, <1>2, <1>4 DEF Leading, UploadPcs
<1>14. Well(s, sent, c, TRUE, file, clock, n)
  <2>1. s.at <= file.at /\ s.at # file.at
    BY <1>7, <1>8, <1>10
  <2> QED
    BY <1>0, <1>1, <1>2, <1>4, <1>7, <1>10, <1>13, <2>1 DEF Well, Recorded, Restoring, Uploading, RestorePcs, UploadPcs
<1> QED
  <2>1. PICK has1 : has1 = HasBackup(state[m].account)'
    OBVIOUS
  <2>2. has1 = TRUE
    BY <1>12, <2>1 DEF HasBackup
  <2> QED
    BY <1>3, <1>11, <1>12, <1>13, <1>14, <2>1, <2>2, PartsAre DEF Keeps, s

\* What is recorded is what was sent; on a computer that is off it is all there is.
LEMMA SaveKeeps ==
    ASSUME NEW m, Ready(m), Save(m)
    PROVE  Keeps(m)
<1> DEFINE s == state[m]
           a == s.account
           has == HasBackup(a)
           f == Latest(a)
           c == Content(m)
           n == edits
           clock == now + Skew[m]
           recorded == [s EXCEPT !.at = job[m].at, !.hash = job[m].hash]
<1>0. /\ m \in Machines /\ job \in [Machines -> Jobs] /\ job[m] \in Jobs /\ s \in SyncStates /\ CarefulUse
      /\ Well(s, job[m], c, has, f, clock, n)
  BY PartTypes DEF Ready, CarefulInv, IInv, TypeOK, IsWell
<1>1. job[m].pc = "save" /\ job[m].pc \in UploadPcs
  BY DEF Save, UploadPcs
<1>2. Connected(s)
  BY <1>0, <1>1 DEF Well, Recorded
<1>3. a \in Accounts
  BY <1>0, <1>2, PartTypes DEF Ready, CarefulInv
<1>4. job[m].hash = job[m].content
  BY <1>0, <1>1 DEF Ready, CarefulInv, IInv, MachineSound, UploadSound
<1>5. has /\ f.content = job[m].content /\ f.at = job[m].at /\ (job[m].kind = "closing" => job[m].content = c)
      /\ job[m].kind \in {"now", "closing"} /\ c = 1 .. n
  BY <1>0, <1>1, <1>2 DEF Well, Uploading, Leading
<1>6. state'[m] = recorded /\ job'[m] = After(m) /\ Content(m)' = c /\ drive' = drive /\ now' = now /\ edits' = n
  BY <1>0 DEF Save, Ready, CarefulInv, IInv, TypeOK, Content, local
<1>7. recorded.account = a /\ recorded.at = f.at /\ recorded.hash = f.content /\ f.at \in Nat
  BY <1>0, <1>4, <1>5 DEF SyncStates, Jobs
<1>8. HasBackup(state[m].account)' = has /\ Latest(state[m].account)' = f
  BY <1>6, <1>7 DEF HasBackup, Latest
<1>9. PICK j : j = After(m)
  OBVIOUS
<1>10. j.kind = "none" /\ ((j.pc = "open" /\ job[m].kind = "now") \/ (j.pc = "off" /\ job[m].kind = "closing"))
  BY <1>5, <1>9 DEF After, Open, Off
<1>11. now' + Skew[m] = clock
  BY <1>6
<1>12. Connected(recorded)
  BY <1>2, <1>7 DEF Connected
<1>13. \A b \in Accounts : b = a
  BY <1>0, <1>3 DEF CarefulUse
<1>14. j.pc = "off" => Agreed'
  <2> SUFFICES ASSUME j.pc = "off" PROVE Agreed'
    OBVIOUS
  <2>1. has /\ f.content = 1 .. n
    BY <1>5, <1>10
  <2> HIDE DEF a
  <2>2. Agreed
    BY <1>13, <2>1 DEF Agreed
  <2> QED
    BY <1>6, <2>2 DEF Agreed, HasBackup, Latest
<1> HIDE DEF s, a, has, f, c, clock, n, recorded
<1>15. Well(recorded, j, c, has, f, clock, n)
  BY <1>5, <1>7, <1>10, <1>12 DEF Well, Recorded, Restoring, Uploading, RestorePcs, UploadPcs
<1>16. j.pc = "off" \/ Leading(recorded, j, has, f)
  <2>1. ~Behind(recorded, has, f)
    BY <1>7 DEF Behind
  <2> QED
    BY <1>10, <1>12, <2>1 DEF Leading
<1> QED
  BY <1>6, <1>8, <1>9, <1>11, <1>14, <1>15, <1>16, PartsAre DEF Keeps

\* Each step of a careful user that meets no failure.
LEMMA StepKeeps ==
    ASSUME NEW m, Ready(m), Careful, MachineStep(m)
    PROVE  Keeps(m)
<1>0. m \in Machines /\ ~Fault
  BY NoFault DEF Ready, CarefulInv, IInv
<1>1. ~BackupBreaks(m) /\ ~Fail(m) /\ ~Crash(m)
  BY <1>0 DEF BackupBreaks, Fail, Crash
<1>2. ~Disconnect(m)
  <2> SUFFICES ASSUME Disconnect(m) PROVE FALSE
    OBVIOUS
  <2>1. state[m].account # NoAccount /\ state'[m] = Disconnected
    BY <1>0 DEF Disconnect, Ready, CarefulInv, IInv, TypeOK
  <2> QED
    BY <1>0, <2>1 DEF Careful, Disconnected
<1>3. CASE Edit(m)
  BY <1>3, EditKeeps
<1>4. CASE WriteMain(m) \/ Checkpoint(m) \/ Rollback(m) \/ AskStatus(m) \/ ShowStatus(m)
  BY <1>4, CheckpointKeeps
<1>5. CASE OpenAsIs(m)
  BY <1>5, OpenAsIsKeeps
<1>6. CASE \E a \in Accounts : Connect(m, a)
  BY <1>6, ConnectKeeps
<1>7. CASE \E kind \in {"opening", "restart"} : BeginRestore(m, kind)
  BY <1>7, BeginRestoreKeeps
<1>8. CASE \E content \in Contents : Download(m, content)
  BY <1>8, DownloadKeeps
<1>9. CASE CloseDatabase(m) \/ Backup(m) \/ RemoveSidecars(m) \/ Rename(m)
  BY <1>9, ReplaceKeeps
<1>10. CASE Record(m)
  BY <1>10, RecordKeeps
<1>11. CASE UploadNow(m)
  BY <1>11, UploadNowKeeps
<1>12. CASE Close(m)
  BY <1>12, CloseKeeps
<1>13. CASE Find(m)
  BY <1>13, FindKeeps
<1>14. CASE Send(m)
  BY <1>14, SendKeeps
<1>15. CASE Save(m)
  BY <1>15, SaveKeeps
<1> QED
  BY <1>1, <1>2, <1>3, <1>4, <1>5, <1>6, <1>7, <1>8, <1>9, <1>10, <1>11, <1>12, <1>13, <1>14, <1>15 DEF MachineStep

\* Every clock is past the stamps of what was sent.
LEMMA StampedKept ==
    ASSUME NEW m, Ready(m), MachineStep(m)
    PROVE  Stamped'
<1>0. /\ m \in Machines /\ CarefulUse /\ Stamped /\ IsWell(m) /\ now \in Nat /\ drive \in [Accounts -> Seq(Files)]
      /\ \A k \in Machines : Skew[k] \in Nat
  BY SkewAssumption DEF Ready, CarefulInv, IInv, TypeOK
<1>1. now' = now \/ now' = now + 1
  BY DEF MachineStep, WriteMain, Edit, Checkpoint, Rollback, OpenAsIs, AskStatus, ShowStatus, Connect, Disconnect,
     BeginRestore, Download, CloseDatabase, Backup, BackupBreaks, RemoveSidecars, Rename, Record, UploadNow, Close, Find,
     Send, Save, Fail, Crash
<1>2. CASE drive' = drive
  <2>1. \A a \in Accounts : HasBackup(a)' = HasBackup(a) /\ Latest(a)' = Latest(a)
    BY <1>2 DEF HasBackup, Latest
  <2>2. \A a \in Accounts : HasBackup(a) => Latest(a).at \in Nat
    BY LatestIs DEF Ready, CarefulInv, Files
  <2>3. now' > 0
    BY <1>0, <1>1 DEF Stamped
  <2>4. ASSUME NEW a \in Accounts, HasBackup(a)' PROVE 0 < Latest(a)'.at /\ \A k \in Machines : Latest(a)'.at < now' + Skew[k]
    <3>1. HasBackup(a) /\ Latest(a)' = Latest(a) /\ Latest(a).at \in Nat
      BY <2>1, <2>2, <2>4, Zenon
    <3>2. 0 < Latest(a).at /\ \A k \in Machines : Latest(a).at < now + Skew[k]
      BY <1>0, <3>1 DEF Stamped
    <3>3. \A k \in Machines : Latest(a).at < now' + Skew[k]
      BY <1>0, <1>1, <3>1, <3>2
    <3> QED
      BY <3>1, <3>2, <3>3, Zenon
  <2> QED
    BY <2>3, <2>4 DEF Stamped
<1>3. CASE Send(m)
  <2> DEFINE a == state[m].account
             file == [id |-> FileId(m), content |-> job[m].content, hash |-> job[m].hash, at |-> job[m].at]
  <2>1. drive' = [drive EXCEPT ![a] = Append(@, file)] /\ now' = now /\ job[m].pc = "send"
    BY <1>3 DEF Send
  <2>2. Connected(state[m])
    BY <1>0, <2>1 DEF IsWell, Well, Recorded
  <2>3. a \in Accounts
    BY <1>0, <2>2, PartTypes DEF Ready, CarefulInv
  <2>4. 0 < job[m].at /\ job[m].at < now + Skew[m]
    BY <1>0, <2>1 DEF IsWell, Well, Uploading, UploadPcs
  <2>5. file.at = job[m].at
    OBVIOUS
  <2>6. \A b \in Accounts : b = a
    BY <1>0, <2>3 DEF CarefulUse
  <2> HIDE DEF a, file
  <2>7. drive[a] \in Seq(Files) /\ drive'[a] = Append(drive[a], file)
    BY <1>0, <2>1, <2>3
  <2>8. drive'[a][Len(drive'[a])] = file
    BY <2>7
  <2>9. \A k \in Machines : Skew[k] = Skew[m]
    BY <1>0 DEF CarefulUse
  <2>10. now' > 0
    BY <1>0, <2>1 DEF Stamped
  <2>11. ASSUME NEW b \in Accounts PROVE 0 < Latest(b)'.at /\ \A k \in Machines : Latest(b)'.at < now' + Skew[k]
    <3>1. b = a /\ Latest(b)' = drive'[b][Len(drive'[b])]
      BY <2>6 DEF Latest
    <3>2. Latest(b)'.at = job[m].at
      BY <2>5, <2>8, <3>1
    <3> QED
      BY <2>1, <2>4, <2>9, <3>2
  <2> QED
    BY <2>10, <2>11 DEF Stamped
<1>4. drive' = drive \/ Send(m)
  BY DEF MachineStep, WriteMain, Edit, Checkpoint, Rollback, OpenAsIs, AskStatus, ShowStatus, Connect, Disconnect,
     BeginRestore, Download, CloseDatabase, Backup, BackupBreaks, RemoveSidecars, Rename, Record, UploadNow, Close, Find,
     Save, Fail, Crash
<1> QED
  BY <1>2, <1>3, <1>4

\* What is being written is written to the end before the database is closed.
LEMMA WholeKept ==
    ASSUME NEW m, Ready(m), MachineStep(m), torn'[m]
    PROVE  DatabaseOpen(m)'
<1>0. /\ m \in Machines /\ ~Fault /\ torn \in [Machines -> BOOLEAN] /\ job \in [Machines -> Jobs]
      /\ job[m] \in Jobs /\ (torn[m] => DatabaseOpen(m))
      /\ job[m].pc \in {"off", "open"} => job[m].kind = "none"
      /\ job[m].pc \in RestorePcs => job[m].kind \in {"opening", "restart"}
      /\ job[m].pc \in UploadPcs => job[m].kind \in {"now", "closing"}
  BY NoFault, RestoreStands DEF Ready, CarefulInv, IInv, TypeOK, Whole, IsWell, Well, Uploading
<1>1. CASE WriteMain(m) \/ Edit(m) \/ Checkpoint(m) \/ Rollback(m)
  BY <1>1 DEF WriteMain, Edit, Checkpoint, Rollback, DatabaseOpen
<1>2. CASE OpenAsIs(m)
  BY <1>0, <1>2 DEF OpenAsIs, DatabaseOpen, Open
<1>3. CASE AskStatus(m) \/ ShowStatus(m) \/ Disconnect(m)
  BY <1>0, <1>3 DEF AskStatus, ShowStatus, Disconnect, DatabaseOpen, local
<1>4. CASE \E a \in Accounts : Connect(m, a)
  BY <1>0, <1>4 DEF Connect, DatabaseOpen, local
<1>5. CASE \E kind \in {"opening", "restart"} : BeginRestore(m, kind)
  <2>1. PICK kind \in {"opening", "restart"} : BeginRestore(m, kind)
    BY <1>5
  <2> DEFINE file == Latest(state[m].account)
             begun == [pc |-> "download", kind |-> kind, id |-> file.id,
                       content |-> {}, hash |-> file.hash, at |-> file.at]
  <2>a. job' = [job EXCEPT ![m] = begun] /\ torn' = torn
    BY <2>1 DEF BeginRestore, local
  <2>b. begun.pc = "download" /\ begun.kind = kind
    OBVIOUS
  <2> HIDE DEF begun
  <2>2. PICK j : job' = [job EXCEPT ![m] = j] /\ j.pc = "download" /\ j.kind = kind /\ torn' = torn
    BY <2>a, <2>b
  <2>3. job[m].pc = IF kind = "opening" THEN "off" ELSE "open"
    BY <2>1 DEF BeginRestore
  <2> QED
    BY <1>0, <2>2, <2>3 DEF DatabaseOpen
<1>6. CASE \E content \in Contents : Download(m, content)
  <2>1. PICK content \in Contents : Download(m, content)
    BY <1>6
  <2>2. PICK j : job' = [job EXCEPT ![m] = j] /\ torn' = torn /\ job[m].pc = "download"
                 /\ j = IF Verified(content, job[m].hash)
                        THEN [job[m] EXCEPT !.content = content,
                                !.pc = IF job[m].kind = "restart" THEN "close" ELSE "backup"]
                        ELSE Open
    BY <2>1 DEF Download, local
  <2>3. job[m].kind = "restart"
    BY <1>0, <2>2 DEF DatabaseOpen, RestorePcs
  <2>4. j.pc = "open" \/ (j.kind = "restart" /\ j.pc = "close")
    BY <1>0, <2>2, <2>3 DEF Jobs, Open
  <2> QED
    BY <1>0, <2>2, <2>4 DEF DatabaseOpen
<1>7. CASE CloseDatabase(m) \/ BackupBreaks(m) \/ Fail(m) \/ Crash(m)
  BY <1>0, <1>7 DEF CloseDatabase, BackupBreaks, Fail, Crash, local
<1>8. CASE Backup(m) \/ RemoveSidecars(m) \/ Rename(m) \/ Record(m)
  <2>1. job[m].pc \in {"backup", "sidecars", "rename", "record"}
    BY <1>8 DEF Backup, RemoveSidecars, Rename, Record
  <2>2. ~torn[m]
    BY <1>0, <2>1 DEF DatabaseOpen, RestorePcs
  <2>3. ~torn'[m]
    BY <1>0, <1>8, <2>2 DEF Backup, RemoveSidecars, Rename, Record, local
  <2> QED
    BY <2>3
<1>9. CASE UploadNow(m)
  <2> DEFINE begun == [pc |-> "find", kind |-> "now", id |-> 0, at |-> 0,
                       content |-> Content(m), hash |-> Content(m)]
  <2>a. job' = [job EXCEPT ![m] = begun]
    BY <1>9 DEF UploadNow, BeginUpload
  <2>b. begun.kind = "now"
    OBVIOUS
  <2> HIDE DEF begun
  <2>1. PICK j : job' = [job EXCEPT ![m] = j] /\ j.kind = "now"
    BY <2>a, <2>b
  <2> QED
    BY <1>0, <2>1 DEF DatabaseOpen
<1>10. CASE Close(m)
  BY <1>0, <1>10 DEF Close, local
<1>11. CASE Find(m) \/ Send(m) \/ Save(m)
  <2>1. torn' = torn /\ job[m].pc \in UploadPcs
    BY <1>11 DEF Find, Send, Save, UploadPcs, local
  <2>2. job[m].kind = "now"
    BY <1>0, <2>1 DEF DatabaseOpen, UploadPcs
  <2>3. job'[m].kind = "now" \/ job'[m].pc = "open"
    <3>1. CASE Find(m)
      <4>1. PICK id, at : job' = [job EXCEPT ![m] = [job[m] EXCEPT !.pc = "send", !.at = at, !.id = id]]
        BY <3>1 DEF Find
      <4> QED
        BY <1>0, <2>2, <4>1 DEF Jobs
    <3>2. CASE Send(m)
      BY <1>0, <2>2, <3>2 DEF Send, Jobs
    <3>3. CASE Save(m)
      BY <1>0, <2>2, <3>3 DEF Save, After, Open
    <3> QED
      BY <1>11, <3>1, <3>2, <3>3
  <2> QED
    BY <2>3 DEF DatabaseOpen
<1> QED
  BY <1>1, <1>2, <1>3, <1>4, <1>5, <1>6, <1>7, <1>8, <1>9, <1>10, <1>11 DEF MachineStep

LEMMA CarefulInit ==
    ASSUME Init
    PROVE  CarefulInv
<1>1. IInv
  BY InitSafe
<1>2. Stamped
  BY DEF Init, Stamped, HasBackup
<1>3. Alone
  BY DEF Init, Alone, Off
<1>6. Whole
  BY DEF Init, Whole
<1>4. Agreed
  BY DEF Init, Agreed, HasBackup
<1>5. ASSUME NEW m \in Machines PROVE IsWell(m)
  <2>1. state[m] = Disconnected /\ job[m] = Off /\ Content(m) = {}
    BY DEF Init, Content
  <2>2. ~Connected(Disconnected)
    BY DEF Disconnected, Connected
  <2> QED
    BY <2>1, <2>2 DEF IsWell, Well, Recorded, Restoring, Uploading, Leading, Off, RestorePcs, UploadPcs
<1> QED
  BY <1>1, <1>2, <1>3, <1>4, <1>5, <1>6 DEF CarefulInv

LEMMA CarefulStep ==
    ASSUME CarefulUse, CarefulInv, IInv', [Next /\ Careful]_vars
    PROVE  CarefulInv'
<1>1. CASE UNCHANGED vars
  <2>1. \A a : HasBackup(a)' = HasBackup(a) /\ Latest(a)' = Latest(a)
    BY <1>1 DEF vars, HasBackup, Latest
  <2>2. \A m : Content(m)' = Content(m)
    BY <1>1 DEF vars, local, Content
  <2>3. /\ state' = state /\ job' = job /\ now' = now /\ edits' = edits
    BY <1>1 DEF vars
  <2>4. \A m : (IsWell(m)' <=> IsWell(m)) /\ (Leads(m)' <=> Leads(m))
    BY <2>1, <2>2, <2>3, Zenon DEF IsWell, Leads
  <2>5. (Stamped' <=> Stamped) /\ (Agreed' <=> Agreed)
    BY <2>1, <2>3, Zenon DEF Stamped, Agreed
  <2>6. Alone' <=> Alone
    BY <2>3, Zenon DEF Alone
  <2>7. Whole' <=> Whole
    BY <1>1 DEF vars, Whole, DatabaseOpen
  <2> QED
    BY <2>4, <2>5, <2>6, <2>7 DEF CarefulInv
<1>2. ASSUME NEW m \in Machines, MachineStep(m), Careful PROVE CarefulInv'
  <2>1. \A k \in Machines : k # m => IsWell(k)' /\ ~Leads(k) /\ ~Leads(k)'
    BY <1>2, OthersAreOff, OthersAreWell
  <2>2. Ready(m)
    BY <2>1 DEF Ready, CarefulInv
  <2>3. Keeps(m)
    BY <1>2, <2>2, StepKeeps
  <2>4. Stamped'
    BY <1>2, <2>2, StampedKept
  <2>5. Alone'
    BY <1>2 DEF Careful, Alone
  <2>6. \A k \in Machines : IsWell(k)'
    BY <2>1, <2>3 DEF Keeps
  <2>7. (\A k \in Machines : ~Leads(k)') => Agreed'
    BY <2>3 DEF Keeps
  <2>8. Whole'
    <3> SUFFICES ASSUME NEW k \in Machines, torn'[k] PROVE DatabaseOpen(k)'
      BY DEF Whole
    <3>1. CASE k = m
      BY <1>2, <2>2, <3>1, WholeKept
    <3>2. CASE k # m
      <4>1. torn'[k] = torn[k] /\ job'[k] = job[k]
        BY <1>2, <3>2, OthersUnchanged DEF CarefulInv, IInv, Shared
      <4> QED
        BY <4>1 DEF CarefulInv, Whole, DatabaseOpen
    <3> QED
      BY <3>1, <3>2
  <2> QED
    BY <2>4, <2>5, <2>6, <2>7, <2>8 DEF CarefulInv
<1> QED
  BY <1>1, <1>2 DEF Next

(***************************************************************************)
(* docs/index.html: "continuar de onde parou em outro computador".  Of a   *)
(* user with one account, who works as Careful says, with clocks that      *)
(* agree and no failure: for any number of computers, commits and uploads, *)
(* one that is open and has nothing newer to restore holds every commit    *)
(* made on any of them (UploadDatabase, PrepareRestore and Apply).         *)
(***************************************************************************)
THEOREM CarefulUserContinues ==
    ASSUME CarefulUse
    PROVE  CarefulSpec => []ContinuesWhereLeftOff
<1>1. Init => CarefulInv
  BY CarefulInit
<1>2. CarefulInv /\ [Next /\ Careful]_vars => CarefulInv'
  BY CarefulStep, NextSafe DEF CarefulInv
<1>3. CarefulInv => ContinuesWhereLeftOff
  <2> SUFFICES ASSUME CarefulInv, NEW m \in Machines, job[m].pc = "open", Synced(m), HasBackup(state[m].account)
               PROVE  Content(m) = 1 .. edits
    BY DEF ContinuesWhereLeftOff
  <2>1. Leads(m)
    BY DEF Synced, Pending, Leads, Leading, Connected, Behind
  <2> QED
    BY <2>1 DEF CarefulInv, IsWell, Well, Leads
<1> QED
  BY <1>1, <1>2, <1>3, PTL DEF CarefulSpec

-----------------------------------------------------------------------------
(***************************************************************************)
(* An announced restore.  AnnouncedRestoreHolds fails because a computer   *)
(* that closes with unsent commits sends them over the newer version it    *)
(* has announced, and because status asks the Drive after it has released  *)
(* syncMutex, so that its answer may be about a state that has changed.    *)
(* Without these two, and if every file is stamped after those it follows  *)
(* on the account, nothing else withdraws an announcement: whatever fails  *)
(* or crashes, and however the computers interleave.                       *)
(***************************************************************************)
ClosesUpToDate ==
    \A m \in Machines : job[m].pc = "open" /\ job'[m].kind = "closing" => ~Pending(m)

StampsRise ==
    \A a \in Accounts : HasBackup(a) => Latest(a)'.at >= Latest(a).at

UpToDate == ClosesUpToDate /\ AnswersInTime /\ StampsRise

UpToDateSpec == Init /\ [][Next /\ UpToDate]_vars

\* What was announced waits for the next start.
ShownInv == \A m \in Machines : shown[m] => Pending(m) /\ job[m].pc \in {"open", "off"}

LEMMA OnlySendSends ==
    ASSUME NEW m \in Machines, MachineStep(m)
    PROVE  drive' = drive \/ Send(m)
<1>1. CASE WriteMain(m) \/ Edit(m) \/ Checkpoint(m) \/ Rollback(m)
  BY <1>1 DEF WriteMain, Edit, Checkpoint, Rollback
<1>6. CASE OpenAsIs(m) \/ AskStatus(m) \/ ShowStatus(m) \/ Disconnect(m)
  BY <1>6 DEF OpenAsIs, AskStatus, ShowStatus, Disconnect
<1>2. CASE \/ \E a \in Accounts : Connect(m, a)
           \/ \E kind \in {"opening", "restart"} : BeginRestore(m, kind)
  BY <1>2 DEF Connect, BeginRestore
<1>3. CASE \E content \in Contents : Download(m, content)
  BY <1>3 DEF Download
<1>4. CASE \/ CloseDatabase(m) \/ Backup(m) \/ BackupBreaks(m) \/ RemoveSidecars(m) \/ Rename(m)
           \/ Record(m)
  BY <1>4 DEF CloseDatabase, Backup, BackupBreaks, RemoveSidecars, Rename, Record
<1>5. CASE UploadNow(m) \/ Close(m) \/ Find(m) \/ Save(m) \/ Fail(m) \/ Crash(m)
  BY <1>5 DEF UploadNow, Close, Find, Save, Fail, Crash
<1> QED
  BY <1>1, <1>2, <1>3, <1>4, <1>5, <1>6 DEF MachineStep

\* A version that is newer than what a computer recorded stays newer.
LEMMA PendingStays ==
    ASSUME IInv, IInv', StampsRise, NEW m \in Machines, MachineStep(m),
           NEW k \in Machines, Pending(k), state'[k] = state[k]
    PROVE  Pending(k)'
<1> DEFINE a == state[k].account
           t == state[k].at
<1>1. a \in Accounts /\ a # NoAccount /\ HasBackup(a) /\ Latest(a).at > t /\ t \in Nat
  BY DEF IInv, TypeOK, SyncStates, Pending
<1>2. drive[a] \in Seq(Files) /\ drive'[a] \in Seq(Files) /\ drive[a] # <<>>
  BY <1>1 DEF IInv, TypeOK, HasBackup
<1>3. drive' = drive \/ Send(m)
  BY OnlySendSends
<1>4. drive'[a] # <<>>
  <2>1. drive'[a] = drive[a] \/ \E f : drive'[a] = Append(drive[a], f)
    <3>1. CASE drive' = drive
      BY <3>1
    <3>2. CASE Send(m)
      <4>1. PICK b, f : drive' = [drive EXCEPT ![b] = Append(@, f)]
        BY <3>2 DEF Send
      <4>2. drive \in [Accounts -> Seq(Files)]
        BY DEF IInv, TypeOK
      <4> QED
        BY <1>1, <4>1, <4>2
    <3> QED
      BY <1>3, <3>1, <3>2
  <2> QED
    BY <1>2, <2>1
<1>5. PICK before, after : before = Latest(a) /\ after = drive'[a][Len(drive'[a])]
  OBVIOUS
<1>6. before \in Files /\ after \in Files
  <2>1. Len(drive[a]) \in DOMAIN drive[a] /\ Len(drive'[a]) \in DOMAIN drive'[a]
    BY <1>2, <1>4
  <2> QED
    BY <1>2, <1>5, <2>1 DEF Latest
<1>7. after.at >= before.at
  BY <1>1, <1>5 DEF StampsRise, Latest
<1>8. after.at > t
  BY <1>1, <1>5, <1>6, <1>7 DEF Files
<1>9. state'[k].account = a /\ state'[k].at = t
  OBVIOUS
<1>10. a # NoAccount
  BY <1>1
<1> HIDE DEF a, t
<1>11. state'[k].account # NoAccount /\ drive'[state'[k].account] # <<>>
  BY <1>4, <1>9, <1>10
<1>12. drive'[state'[k].account][Len(drive'[state'[k].account])].at > state'[k].at
  BY <1>5, <1>8, <1>9
<1> QED
  BY <1>11, <1>12 DEF Pending, HasBackup, Latest

\* A step is taken on one computer.
LEMMA OthersUntouched ==
    ASSUME IInv, NEW m \in Machines, MachineStep(m), NEW k \in Machines, k # m
    PROVE  state'[k] = state[k] /\ job'[k] = job[k] /\ shown'[k] = shown[k]
<1>1. state \in [Machines -> SyncStates] /\ job \in [Machines -> Jobs] /\ shown \in [Machines -> BOOLEAN]
  BY DEF IInv, TypeOK
<1>2. CASE WriteMain(m) \/ Edit(m) \/ Checkpoint(m) \/ Rollback(m) \/ OpenAsIs(m) \/ AskStatus(m)
  BY <1>1, <1>2 DEF WriteMain, Edit, Checkpoint, Rollback, OpenAsIs, AskStatus
<1>9. CASE ShowStatus(m)
  BY <1>1, <1>9 DEF ShowStatus
<1>3. CASE Disconnect(m) \/ \E a \in Accounts : Connect(m, a)
  BY <1>1, <1>3 DEF Connect, Disconnect
<1>4. CASE \E kind \in {"opening", "restart"} : BeginRestore(m, kind)
  BY <1>1, <1>4 DEF BeginRestore
<1>5. CASE \E content \in Contents : Download(m, content)
  BY <1>1, <1>5 DEF Download
<1>6. CASE \/ CloseDatabase(m) \/ Backup(m) \/ BackupBreaks(m) \/ RemoveSidecars(m) \/ Rename(m)
           \/ Record(m)
  BY <1>1, <1>6 DEF CloseDatabase, Backup, BackupBreaks, RemoveSidecars, Rename, Record
<1>7. CASE UploadNow(m) \/ Close(m)
  BY <1>1, <1>7 DEF UploadNow, Close, BeginUpload
<1>8. CASE Find(m) \/ Send(m) \/ Save(m) \/ Fail(m) \/ Crash(m)
  BY <1>1, <1>8 DEF Find, Send, Save, Fail, Crash
<1> QED
  BY <1>2, <1>3, <1>4, <1>5, <1>6, <1>7, <1>8, <1>9 DEF MachineStep

\* The computer that takes the step: what it announces is there to be restored.
LEMMA AnnouncerKeeps ==
    ASSUME IInv, IInv', UpToDate, ShownInv, NEW m \in Machines, MachineStep(m),
           shown'[m]
    PROVE  Pending(m)' /\ job'[m].pc \in {"open", "off"}
<1>1. state \in [Machines -> SyncStates] /\ job \in [Machines -> Jobs] /\ shown \in [Machines -> BOOLEAN]
  BY DEF IInv, TypeOK
<1>2. shown[m] => Pending(m) /\ job[m].pc \in {"open", "off"}
  BY DEF ShownInv
<1>14. StampsRise /\ ClosesUpToDate /\ AnswersInTime
  BY DEF UpToDate
<1>3. CASE OpenAsIs(m) \/ Disconnect(m) \/ UploadNow(m)
  BY <1>1, <1>3 DEF OpenAsIs, Disconnect, UploadNow
<1>4. CASE \E a \in Accounts : Connect(m, a)
  BY <1>1, <1>4 DEF Connect
<1>5. CASE \E kind \in {"opening", "restart"} : BeginRestore(m, kind)
  BY <1>1, <1>5 DEF BeginRestore
<1>6. CASE ShowStatus(m)
  <2>1. UNCHANGED <<job, state>> /\ asked[m].account # NoAccount
    BY <1>6 DEF ShowStatus
  <2>2. CASE shown[m]
    BY <1>2, <1>14, <2>1, <2>2, PendingStays
  <2>3. CASE ~shown[m]
    <3>1. job[m].pc = "open" /\ asked[m] = state[m]
      BY <1>14, <2>3 DEF AnswersInTime
    <3>2. HasBackup(asked[m].account) /\ Latest(asked[m].account).at > asked[m].at
      <4>1. PICK newer \in BOOLEAN :
              /\ shown' = [shown EXCEPT ![m] = newer]
              /\ newer => HasBackup(asked[m].account) /\ Latest(asked[m].account).at > asked[m].at
        BY <1>6 DEF ShowStatus
      <4> QED
        BY <1>1, <4>1
    <3>3. Pending(m)
      BY <2>1, <3>1, <3>2 DEF Pending
    <3> QED
      BY <1>14, <2>1, <3>1, <3>3, PendingStays
  <2> QED
    BY <2>2, <2>3
<1>7. CASE WriteMain(m) \/ Edit(m) \/ Checkpoint(m) \/ Rollback(m) \/ AskStatus(m)
  <2>1. UNCHANGED <<job, state, shown>>
    BY <1>7 DEF WriteMain, Edit, Checkpoint, Rollback, AskStatus
  <2> QED
    BY <1>2, <1>14, <2>1, PendingStays
<1>8. CASE Close(m)
  <2>1. job[m].pc = "open" /\ UNCHANGED <<state, shown>>
    BY <1>8 DEF Close
  <2>2. Pending(m)
    BY <1>2, <2>1
  <2>3. job'[m].kind # "closing"
    BY <1>14, <2>1, <2>2 DEF ClosesUpToDate
  <2>4. ~BeginUpload(m, "closing")
    BY <1>1, <2>3 DEF BeginUpload
  <2>5. job'[m] = Off
    BY <1>1, <1>8, <2>4 DEF Close
  <2> QED
    BY <1>14, <2>1, <2>2, <2>5, PendingStays DEF Off
<1>9. CASE Crash(m)
  <2>1. UNCHANGED <<state, shown>> /\ job'[m] = Off
    BY <1>1, <1>9 DEF Crash
  <2> QED
    BY <1>2, <1>14, <2>1, PendingStays DEF Off
<1>10. CASE \E content \in Contents : Download(m, content)
  BY <1>2, <1>10 DEF Download
<1>11. CASE \/ CloseDatabase(m) \/ Backup(m) \/ BackupBreaks(m) \/ RemoveSidecars(m) \/ Rename(m)
            \/ Record(m)
  BY <1>2, <1>11 DEF CloseDatabase, Backup, BackupBreaks, RemoveSidecars, Rename, Record
<1>12. CASE Find(m) \/ Send(m) \/ Save(m)
  BY <1>2, <1>12 DEF Find, Send, Save
<1>13. CASE Fail(m)
  BY <1>2, <1>13 DEF Fail, RestorePcs, UploadPcs
<1> QED
  BY <1>3, <1>4, <1>5, <1>6, <1>7, <1>8, <1>9, <1>10, <1>11, <1>12, <1>13 DEF MachineStep

LEMMA ShownStep ==
    ASSUME IInv, IInv', ShownInv, [Next /\ UpToDate]_vars
    PROVE  ShownInv'
<1>1. CASE UNCHANGED vars
  BY <1>1 DEF vars, ShownInv, Pending, HasBackup, Latest
<1>2. ASSUME NEW m \in Machines, MachineStep(m), UpToDate PROVE ShownInv'
  <2>1. ASSUME NEW k \in Machines, shown'[k] PROVE Pending(k)' /\ job'[k].pc \in {"open", "off"}
    <3>1. CASE k = m
      BY <1>2, <2>1, <3>1, AnnouncerKeeps
    <3>2. CASE k # m
      <4>1. state'[k] = state[k] /\ job'[k] = job[k] /\ shown[k]
        BY <1>2, <2>1, <3>2, OthersUntouched
      <4> QED
        BY <1>2, <4>1, PendingStays DEF ShownInv, UpToDate
    <3> QED
      BY <3>1, <3>2
  <2> QED
    BY <2>1 DEF ShownInv
<1> QED
  BY <1>1, <1>2 DEF Next

(***************************************************************************)
(* CloudSyncSettings.tsx announces that the cloud version replaces the     *)
(* database the next time the app opens.  If ServiceShutdown sent nothing  *)
(* over a version it has announced, no answer of status came after what it *)
(* read had changed, and stamps rose, the announcement would hold until    *)
(* the app starts or the user chooses otherwise.                           *)
(***************************************************************************)
THEOREM AnnouncementsHold == UpToDateSpec => []AnnouncedRestoreHolds
<1>1. Init => IInv /\ ShownInv
  BY InitSafe DEF Init, ShownInv
<1>2. IInv /\ ShownInv /\ [Next /\ UpToDate]_vars => IInv' /\ ShownInv'
  BY NextSafe, ShownStep
<1>3. ShownInv => AnnouncedRestoreHolds
  BY DEF ShownInv, AnnouncedRestoreHolds
<1> QED
  BY <1>1, <1>2, <1>3, PTL DEF UpToDateSpec
=============================================================================
