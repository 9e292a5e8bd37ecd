---------------------------- MODULE CloudSyncStore ----------------------------
(***************************************************************************)
(* CloudSync implements VersionStore: its file operations, interrupted     *)
(* anywhere, look from outside like commits and replacements of a database *)
(* in one step.  What a computer has is what SQLite would find if the      *)
(* process died now: the main file with the -wal beside it.                *)
(***************************************************************************)
EXTENDS CloudSync

Store == INSTANCE VersionStore WITH
  Computers <- Machines,
  Commits <- Edits,
  db <- [m \in Machines |-> Content(m)],
  had <- versions,
  kept <- [m \in Machines |-> held[m] \cap (Content(m) \cup Kept(m))],
  full <- [m \in Machines |-> guarded[m] > MaxBackups],
  broken <- spoilt # {}

(***************************************************************************)
(* replaceDatabase and backupLocalDatabase: a restore is atomic and loses  *)
(* nothing, wherever it is interrupted, while no restore has replaced a    *)
(* file that a death left torn.                                            *)
(***************************************************************************)
RestoresAreAtomic == Store!StoreSpec
=============================================================================
