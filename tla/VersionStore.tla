----------------------------- MODULE VersionStore -----------------------------
(***************************************************************************)
(* What the cloud backup promises of the databases of a user's computers,  *)
(* without files, network or crashes: a database changes by a commit, or   *)
(* by becoming, in one step, a version some computer has had; and while    *)
(* its backups are not full, a computer keeps every commit it ever had, in *)
(* the database or in a backup.  All of it holds until a replacement       *)
(* breaks, from then on nothing is promised.                               *)
(***************************************************************************)
CONSTANTS Computers, Commits

VARIABLES
  db,    \* the database of each computer: its commits
  had,   \* the versions that have existed
  kept,  \* the commits a computer has had and still has somewhere
  full,  \* a computer has made more backups than it keeps
  broken \* a database has been replaced by something that is no version

storeVars == <<db, had, kept, full, broken>>

StoreInit ==
  /\ db = [m \in Computers |-> {}] /\ had = {{}}
  /\ kept = [m \in Computers |-> {}] /\ full = [m \in Computers |-> FALSE]
  /\ broken = FALSE

\* The application writes to its database.
CommitOne(m) ==
  \E c \in Commits :
    /\ db' = [db EXCEPT ![m] = @ \cup {c}]
    /\ had' = had \cup {db[m] \cup {c}}
    /\ kept' = [kept EXCEPT ![m] = @ \cup {c}]
    /\ UNCHANGED full

\* A database becomes another version, and backups are made and pruned.
Replace(m) ==
  /\ \E v \in had : db' = [db EXCEPT ![m] = v]
  /\ UNCHANGED had
  /\ full' \in {full, [full EXCEPT ![m] = TRUE]}
  /\ kept' = [kept EXCEPT ![m] = kept'[m]]
  /\ full'[m] \/ kept[m] \subseteq kept'[m]

StoreNext ==
  \/ broken'
  \/ ~broken /\ UNCHANGED broken /\ \E m \in Computers : CommitOne(m) \/ Replace(m)

StoreSpec == StoreInit /\ [][StoreNext]_storeVars
=============================================================================
