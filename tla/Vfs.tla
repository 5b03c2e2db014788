-------------------------------- MODULE Vfs --------------------------------
(***************************************************************************)
(* src/src/fs/vfs.rs: a root file system and others mounted at paths, with  *)
(* mount and open_file called by several CPUs.  The other operations of Vfs *)
(* are todo!().  A file system is what its open_file answers; nothing in    *)
(* Vfs changes one.                                                         *)
(***************************************************************************)
EXTENDS Path

CONSTANTS
  Caller,        \* CPUs that use the Vfs
  Paths,         \* paths they pass
  FileSystems,   \* what they mount
  Files,         \* the files of each file system
  RootPaths,     \* the paths that exist in the root file system
  RootFiles      \* those of them that are files

VARIABLES
  mounts,    \* sequence of [path, fs]
  pc,        \* the mount call of each caller that waits for the write lock
  last       \* the last open_file call, and its result

vars == <<mounts, pc, last>>

Idle == [fs |-> "none", path |-> NoPath]

Init ==
  /\ mounts = <<>>
  /\ pc = [c \in Caller |-> Idle]
  /\ last = [path |-> NoPath, res |-> "none"]

(* The two checks before the lock; an error changes nothing. *)
mount_checks(c, fs, p) ==
  /\ pc[c] = Idle
  /\ has_root(p) /\ p \notin RootPaths
  /\ pc' = [pc EXCEPT ![c] = [fs |-> fs, path |-> p]]
  /\ UNCHANGED <<mounts, last>>

(* Mutant: the mounted paths are not looked at again under the lock. *)
Mounted_unchecked(p, fs) == Append(mounts, [path |-> p, fs |-> fs])

(* Mutant: a new mount goes before the others. *)
Mounted_front(p, fs) ==
  IF \E i \in DOMAIN mounts : mounts[i].path = p THEN mounts
  ELSE <<[path |-> p, fs |-> fs]>> \o mounts

(* The mounts after the critical section: unchanged if the path is taken. *)
Mounted(p, fs) ==
  IF \E i \in DOMAIN mounts : mounts[i].path = p THEN mounts
  ELSE Append(mounts, [path |-> p, fs |-> fs])

mount(c) ==
  /\ pc[c] # Idle
  /\ mounts' = Mounted(pc[c].path, pc[c].fs)
  /\ pc' = [pc EXCEPT ![c] = Idle]
  /\ UNCHANGED last

(* The mount that answers for a path: the first whose path is a prefix. *)
Answering(p) ==
  LET fits == {i \in DOMAIN mounts : relative_to(p, mounts[i].path) # NoPath} IN
  IF fits = {} THEN 0 ELSE Min(fits)

(* open_file of a mounted file system, which checks its path as Ramfs does. *)
fs_open_file(fs, p) ==
  IF ~ has_root(p) THEN "PathIsNotAbsolute"
  ELSE IF p \in Files[fs] THEN "Ok" ELSE "PathDoesNotExist"

open_file_in_mounts(p) ==
  LET i == Answering(p) IN
  IF i = 0 THEN "PathDoesNotExist" ELSE fs_open_file(mounts[i].fs, relative_to(p, mounts[i].path))

open_file(c, p) ==
  /\ pc[c] = Idle
  /\ last' = [path |-> p,
              res |-> IF ~ has_root(p) THEN "PathIsNotAbsolute"
                      ELSE IF p \in RootFiles THEN "Ok" ELSE open_file_in_mounts(p)]
  /\ UNCHANGED <<mounts, pc>>

Next ==
  \E c \in Caller :
    \/ mount(c)
    \/ \E p \in Paths : open_file(c, p) \/ \E fs \in FileSystems : mount_checks(c, fs, p)

Spec == Init /\ [][Next]_vars

-----------------------------------------------------------------------------
(* Two callers that mount at one path at the same time do not both succeed, *)
(* and no mount hides a path of the root file system: both passed mount's   *)
(* first check before either took the write lock.                           *)
MountsDistinct ==
  \A i, j \in DOMAIN mounts :
    mounts[i].path \notin RootPaths /\ (mounts[i].path = mounts[j].path => i = j)

(* A file system that answers for a path goes on to answer for it, whatever *)
(* is mounted later above, below or beside it: open_file_in_mounts takes    *)
(* the first mount that fits, and mount appends.                            *)
AnswersStable ==
  [][\A p \in Paths : Answering(p) # 0 => mounts[Answering(p)] = mounts'[Answering(p)']]_vars
=============================================================================
