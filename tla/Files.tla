------------------------------- MODULE Files -------------------------------
(***************************************************************************)
(* The file systems: the tree in memory (Ramfs), the mounts (Vfs), and the *)
(* paths both take apart (PathWalk).                                       *)
(***************************************************************************)
EXTENDS Ramfs

CONSTANTS MountPaths, FileSystems, MountedFiles, RootPaths, RootFiles   \* of Vfs
CONSTANT  WalkPaths                                                     \* of PathWalk

VARIABLES
  mounts, mounting, answer,     \* of Vfs
  path, other                   \* of PathWalk

vfs_vars == <<mounts, mounting, answer>>
path_vars == <<path, other>>

Mounts ==
  INSTANCE Vfs WITH Paths <- MountPaths, Files <- MountedFiles, pc <- mounting, last <- answer

Walks == INSTANCE PathWalk WITH Paths <- WalkPaths

(* Like Paths, paths are not empty as sequences of parts. *)
ASSUME FilesAssumption == WalkPaths \subseteq Seq(Seq(Letters)) \ {<<>>}

-----------------------------------------------------------------------------
Tree == INSTANCE FileTree WITH tree <- Visible

(* Whatever the callers do between each other's steps, and however many     *)
(* entries of one name there are, the tree they see changes only by one     *)
(* entry that appears or by one path that goes with all below it: an entry  *)
(* never turns into another one, and none is lost.                          *)
ImplementsTree == Tree!Spec

(* Two callers that mount at one path at the same time do not both succeed, *)
(* and no mount hides a path of the root file system.                       *)
MountsDistinct == Mounts!MountsDistinct

(* A file system that answers for a path goes on to answer for it, whatever *)
(* is mounted later.                                                        *)
AnswersStable == Mounts!AnswersStable

(* The views of a path fit together: parent and filename, by which files    *)
(* are created, and split_from_top, by which they are found, see the same;  *)
(* relative_to undoes what was put after a directory; and going up from an  *)
(* absolute path leads to the root.                                         *)
ViewsAgree == Walks!ViewsAgree
=============================================================================
