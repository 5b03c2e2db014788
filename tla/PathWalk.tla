------------------------------ MODULE PathWalk ------------------------------
(***************************************************************************)
(* The functions of Path on every path of a bounded set, and the walk from  *)
(* a path to its parent, its grandparent and so on that callers make.       *)
(***************************************************************************)
EXTENDS Path

CONSTANT Paths      \* non-empty sequences of parts

VARIABLES path,     \* where the walk is; NoPath after the last parent()
          other     \* the path it is compared with

vars == <<path, other>>

Init == path \in Paths /\ other \in Paths

Up ==
  /\ path \notin {NoPath, root}
  /\ path' = parent(path)
  /\ UNCHANGED other

Spec == Init /\ [][Up]_vars

-----------------------------------------------------------------------------
(* An absolute path without doubled or trailing slashes. *)
Clean(p) == has_root(p) /\ \A i \in 2 .. Len(p) : p[i] # Empty

(* p lies in the directory q, part by part. *)
Below(p, q) ==
  \/ is_root(q) /\ has_root(p)
  \/ Len(p) > Len(q) /\ SubSeq(p, 1, Len(q)) = q

(* The views of a path fit together.  Files are created by parent and       *)
(* filename and found by split_from_top: for a clean path both see the same *)
(* file in the same directory.  relative_to gives the way from a directory  *)
(* to what lies below it, for paths with doubled and trailing slashes too:  *)
(* put after the directory and a slash it is the path again.  And parent()  *)
(* of an absolute path is the root or a shorter absolute path, never None.  *)
ViewsAgree ==
  /\ Clean(path) =>
       LET up == parent(path)
           dir == IF is_root(up) THEN <<>> ELSE split_from_top(up)[2] IN
       /\ split_from_top(path)[2] = dir \o filename(path)
       /\ relative_to(path, up) = filename(path)
       /\ top_folder(path) = root
  /\ Below(path, other) /\ ~ is_root(other) =>
       LET r == relative_to(path, other) IN r # NoPath /\ other \o r = path
  /\ has_root(path) =>
       LET up == parent(path) IN is_root(up) \/ (has_root(up) /\ Len(up) < Len(path))
=============================================================================
