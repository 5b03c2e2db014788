------------------------------ MODULE FileTree ------------------------------
(***************************************************************************)
(* What the FileSystem trait (src/src/fs/vfs.rs) lets its callers see: a    *)
(* tree of named entries in which a path, while nobody deletes it or a      *)
(* directory above it, keeps denoting the entry it denotes.                 *)
(***************************************************************************)
EXTENDS Path

VARIABLE tree     \* a set of [path, kind, node]; the root is the path <<>>

Directories == {<<>>} \cup {e.path : e \in {d \in tree : d.kind = "dir"}}

Init == tree = {}

(* One entry appears, in a directory that is there, where none of its kind  *)
(* was, with a node that had no place in the tree.                          *)
Create ==
  \E e \in tree' :
    /\ tree' = tree \cup {e}
    /\ Front(e.path) \in Directories
    /\ \A d \in tree : d.node # e.node /\ (d.path # e.path \/ d.kind # e.kind)

(* Everything at and below one path goes, and nothing else. *)
Delete ==
  \E p \in {<<>>} \cup {e.path : e \in tree} :
    tree' = {e \in tree : ~ IsPrefix(p, e.path)}

Next == Create \/ Delete

Spec == Init /\ [][Next]_tree
=============================================================================
