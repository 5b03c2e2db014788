------------------------------ MODULE MCFiles ------------------------------
(***************************************************************************)
(* Paths and callers for Files.  A behaviour is one of Vfs, of PathWalk or *)
(* of Ramfs, the last with callers that change its tree or, in a tree of   *)
(* one file, with callers that hold the file.                              *)
(***************************************************************************)
EXTENDS Files, TLC

VARIABLE part

a == <<"a">>
b == <<"b">>
ab == <<"a", "b">>

(* "/", "/a", "/a/b" and the relative path "a" *)
MCPaths == {root, <<Empty, a>>, <<Empty, a, b>>, <<a>>}
MCBuffers == {<<1>>, <<1, 2>>}

(* "/", "/a", "/ab", "/a/a", "/ab/a" and "a": one is below another by its    *)
(* parts, and one only begins with the letters of another.                  *)
MCMountPaths == {root, <<Empty, a>>, <<Empty, ab>>, <<Empty, a, a>>, <<Empty, ab, a>>, <<a>>}
MCMountedFiles == [fs \in FileSystems |-> {<<Empty, a>>}]
MCRootPaths == {root, <<Empty, ab>>}
MCRootFiles == {<<Empty, ab>>}

(* Paths of up to four parts over the names "", "a" and "ab", the empty    *)
(* path, doubled and trailing slashes among them.                          *)
MCWalkPaths == UNION {[1 .. n -> {Empty, a, ab}] : n \in 1 .. 4}

Callers == Permutations(Caller)

-----------------------------------------------------------------------------
(* The callers of Ramfs make these calls only. *)
Calls(ops) ==
  /\ last'.op \in ops \cup {"idle"}
  /\ \A c \in Caller : pc'[c].op \in ops \cup {"idle", "panic"}

(* They build a tree, and do not read or write. *)
BuildTree ==
  /\ Calls({"create_file", "create_dir", "delete"})
  /\ \A c \in Caller : handle'[c].pos = 0

(* They use one file. *)
UseFile ==
  /\ Calls({"open_file", "create_file", "delete", "file_type", "open_dir"})
  /\ Len(node') <= 2

FilesInit ==
  /\ part \in {"tree", "handles", "mounts", "paths"}
  /\ Init /\ Mounts!Init
  /\ Walks!Init /\ (part # "paths" => path = root /\ other = root)

FilesNext ==
  \/ part = "tree" /\ Next /\ BuildTree /\ UNCHANGED <<part, vfs_vars, path_vars>>
  \/ part = "handles" /\ Next /\ UseFile /\ UNCHANGED <<part, vfs_vars, path_vars>>
  \/ part = "mounts" /\ Mounts!Next /\ UNCHANGED <<part, vars, path_vars>>
  \/ part = "paths" /\ Walks!Up /\ UNCHANGED <<part, vars, vfs_vars>>

FilesSpec == FilesInit /\ [][FilesNext]_<<part, vars, vfs_vars, path_vars>>

=============================================================================
