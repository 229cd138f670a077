------------------------------ MODULE MCEntries ------------------------------
(***************************************************************************)
(* The entries of FAT directories, one aspect of them in a behaviour: how  *)
(* a table of entries is read, what becomes of a name, and of the stamps.  *)
(***************************************************************************)
EXTENDS MCDirReader, MCNameConversion, MCTimeConversion

\* The aspects that are not looked at stay at one state.
TableIdle ==
  /\ items = <<>> /\ extents = <<>>
  /\ iterator = 0 /\ current_cluster = 0 /\ cluster_dentry = 0 /\ current_dentry = 0
  /\ names = <<>> /\ remaining = 0 /\ children = <<>>
  /\ pc = "idle" /\ then = "idle"

NameIdle ==
  /\ file = [long |-> TRUE, name |-> <<>>]
  /\ segments = <<>> /\ s = 1 /\ i = 1
  /\ name = <<>> /\ rec_len = 0
  /\ name_pc = "idle"

TimeIdle == stamps = <<>> /\ inode = <<>> /\ time_pc = "idle"

EntriesInit ==
  \/ Init /\ NameIdle /\ TimeIdle
  \/ TableIdle /\ NameInit /\ TimeIdle
  \/ TableIdle /\ NameIdle /\ TimeInit

EntriesNext ==
  \/ Next /\ UNCHANGED <<nameVars, timeVars>>
  \/ NameNext /\ UNCHANGED <<vars, timeVars>>
  \/ TimeNext /\ UNCHANGED <<vars, nameVars>>

EntriesSpec == EntriesInit /\ [][EntriesNext]_<<vars, nameVars, timeVars>>
=============================================================================
