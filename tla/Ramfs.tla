------------------------------- MODULE Ramfs -------------------------------
(***************************************************************************)
(* src/src/fs/ramfs.rs: the tree of directories and files in memory, file   *)
(* handles, and the FileSystem operations, called by several CPUs.          *)
(*                                                                         *)
(* node is everything ever allocated with Arc::new; node 1 is the root.     *)
(* find_dir and find_file hold the read locks of all directories on their   *)
(* way until they return, so that the tree they saw is the one at their     *)
(* last step, and they are one step here.  The locks are then released:     *)
(* what an operation does with the directory it found is another step,      *)
(* under that directory's lock alone.                                       *)
(***************************************************************************)
EXTENDS Path

CONSTANTS
  Caller,       \* CPUs that use the file system
  Ops,          \* the operations they call
  Paths,        \* paths they pass
  Buffers,      \* what they write: sequences of bytes
  ReadSizes,    \* lengths of the buffers they read into
  MaxNodes,     \* bound: directories and files ever created, with the root
  MaxData,      \* bound: bytes in a file
  Letters,      \* of which names are made
  Bytes         \* of which files are made

(* What callers pass: paths, which are not empty as sequences of parts,     *)
(* buffers of bytes, and sizes.                                             *)
ASSUME RamfsAssumption ==
  /\ Paths \subseteq Seq(Seq(Letters)) \ {<<>>}
  /\ Buffers \subseteq Seq(Bytes) /\ ReadSizes \subseteq Nat

ROOT == 1
None == 0
Idle == [op |-> "idle"]
NoHandle == [file |-> None, pos |-> 0]

VARIABLES
  node,      \* sequence of [name, kind, entries, data]
  handle,    \* the RamfsFileHandle each caller holds
  pc,        \* what each caller is about to do: Idle, or operation, path and directory
  last       \* the last call that returned, and its result

vars == <<node, handle, pc, last>>

Init ==
  /\ node = <<[name |-> Empty, kind |-> "dir", entries |-> <<>>, data |-> <<>>]>>
  /\ handle = [c \in Caller |-> NoHandle]
  /\ pc = [c \in Caller |-> Idle]
  /\ last = Idle

-----------------------------------------------------------------------------
(* name() and file_type() of an entry *)
name(n) == node[n].name
kind(n) == node[n].kind

(* The first entry of a directory with this name and one of these kinds. *)
Child(d, part, kinds) ==
  LET s == node[d].entries
      hits == {i \in DOMAIN s : name(s[i]) = part /\ kind(s[i]) \in kinds}
  IN IF d = None \/ hits = {} THEN None ELSE s[Min(hits)]

(* Both follow the parts of a path from the root, without going back: the  *)
(* directory reached after each part.                                      *)
Walk(path) ==
  LET dir[i \in 0 .. Len(path)] ==
        IF i = 0 THEN ROOT ELSE Child(dir[i - 1], path[i], {"dir"})
  IN  dir

find_dir(path) == Walk(path)[Len(path)]

find_file(path) == Child(find_dir(Front(path)), Last(path), {"file"})

(* The directory an operation works in. *)
DirByRelative(p) ==
  IF is_root(parent(p)) THEN ROOT ELSE find_dir(relative_to(parent(p), root))

DirBySplit(p) ==
  IF is_root(parent(p)) THEN ROOT ELSE find_dir(split_from_top(parent(p))[2])

DirOpened(p) == IF is_root(p) THEN ROOT ELSE find_dir(relative_to(p, root))

(* Mutant: only files exist. *)
exists_files(p) ==
  has_root(p) /\ (is_root(p) \/ Child(DirByRelative(p), Last(p), {"file"}) # None)

exists(p) ==
  has_root(p) /\ (is_root(p) \/ Child(DirByRelative(p), Last(p), {"dir", "file"}) # None)

-----------------------------------------------------------------------------
Return(c, op, p, res) ==
  /\ last' = [op |-> op, path |-> p, res |-> res]
  /\ pc' = [pc EXCEPT ![c] = Idle]

(* Every operation starts with has_root. *)
not_absolute(c, op, p) ==
  /\ pc[c] = Idle /\ ~ has_root(p)
  /\ Return(c, op, p, "PathIsNotAbsolute")
  /\ UNCHANGED <<node, handle>>

(* The lookup of an operation; `error` if there is no such directory. *)
Lookup(c, op, p, dir, error) ==
  /\ pc[c] = Idle /\ has_root(p)
  /\ \/ /\ dir = None
        /\ Return(c, op, p, error)
     \/ /\ dir # None
        /\ pc' = [pc EXCEPT ![c] = [op |-> op, path |-> p, dir |-> dir]]
        /\ UNCHANGED last
  /\ UNCHANGED <<node, handle>>

At(c, op) == pc[c].op = op

open_file(c, p) ==
  /\ pc[c] = Idle /\ has_root(p)
  /\ LET f == find_file(split_from_top(p)[2]) IN
     \/ /\ f = None
        /\ Return(c, "open_file", p, "PathDoesNotExist")
        /\ UNCHANGED handle
     \/ /\ f # None
        /\ Return(c, "open_file", p, "Ok")
        /\ handle' = [handle EXCEPT ![c] = [file |-> f, pos |-> 0]]
  /\ UNCHANGED node

(* Mutant: a new entry goes before the others. *)
Linked_front(d, as, type) ==
  Append([node EXCEPT ![d].entries = <<Len(node) + 1>> \o @],
         [name |-> as, kind |-> type, entries |-> <<>>, data |-> <<>>])

(* The tree with a new node pushed to directory d. *)
Linked(d, as, type) ==
  Append([node EXCEPT ![d].entries = Append(@, Len(node) + 1)],
         [name |-> as, kind |-> type, entries |-> <<>>, data |-> <<>>])

create_lookup(c, op, p) ==
  op \in {"create_file", "create_dir"} /\ Lookup(c, op, p, DirBySplit(p), "DirectoryDoesNotExist")

(* filename().unwrap() *)
create_panic(c) ==
  /\ At(c, "create_file") \/ At(c, "create_dir")
  /\ filename(pc[c].path) = NoPath
  /\ pc' = [pc EXCEPT ![c].op = "panic"]
  /\ UNCHANGED <<node, handle, last>>

create_file(c) ==
  /\ At(c, "create_file") /\ filename(pc[c].path) # NoPath /\ Len(node) < MaxNodes
  /\ node' = Linked(pc[c].dir, filename(pc[c].path)[1], "file")
  /\ handle' = [handle EXCEPT ![c] = [file |-> Len(node) + 1, pos |-> 0]]
  /\ Return(c, "create_file", pc[c].path, "Ok")

create_dir(c) ==
  /\ At(c, "create_dir") /\ filename(pc[c].path) # NoPath /\ Len(node) < MaxNodes
  /\ node' = Linked(pc[c].dir, filename(pc[c].path)[1], "dir")
  /\ Return(c, "create_dir", pc[c].path, "Ok")
  /\ UNCHANGED handle

delete_root(c, p) ==
  /\ pc[c] = Idle /\ is_root(p)
  /\ node' = [node EXCEPT ![ROOT].entries = <<>>]
  /\ Return(c, "delete", p, "Ok")
  /\ UNCHANGED handle

delete_lookup(c, p) == ~ is_root(p) /\ Lookup(c, "delete", p, DirByRelative(p), "PathDoesNotExist")

(* retain(|e| e.name() != name) *)
Kept(d, other) ==
  LET s == node[d].entries
      kept[i \in 0 .. Len(s)] ==
        IF i = 0 THEN <<>>
        ELSE IF name(s[i]) = other THEN kept[i - 1] ELSE Append(kept[i - 1], s[i])
  IN  kept[Len(s)]

delete(c) ==
  /\ At(c, "delete")
  /\ node' = [node EXCEPT ![pc[c].dir].entries = Kept(pc[c].dir, filename(pc[c].path)[1])]
  /\ Return(c, "delete", pc[c].path, "Ok")
  /\ UNCHANGED handle

file_type_root(c, p) ==
  /\ pc[c] = Idle /\ is_root(p)
  /\ Return(c, "file_type", p, "dir")
  /\ UNCHANGED <<node, handle>>

file_type_lookup(c, p) ==
  ~ is_root(p) /\ Lookup(c, "file_type", p, DirByRelative(p), "PathDoesNotExist")

file_type(c) ==
  /\ At(c, "file_type")
  /\ LET n == Child(pc[c].dir, filename(pc[c].path)[1], {"dir", "file"}) IN
     Return(c, "file_type", pc[c].path, IF n = None THEN "PathDoesNotExist" ELSE kind(n))
  /\ UNCHANGED <<node, handle>>

open_dir_lookup(c, p) == Lookup(c, "open_dir", p, DirOpened(p), "PathDoesNotExist")

(* The entries, collected under the read lock. *)
Listing(d, p) ==
  [i \in DOMAIN node[d].entries |->
     LET n == node[d].entries[i] IN [path |-> add(p, <<name(n)>>), file_type |-> kind(n)]]

open_dir(c) ==
  /\ At(c, "open_dir")
  /\ Return(c, "open_dir", pc[c].path, Listing(pc[c].dir, pc[c].path))
  /\ UNCHANGED <<node, handle>>

-----------------------------------------------------------------------------
Data(c) == node[handle[c].file].data
CanUse(c) == pc[c] = Idle /\ handle[c] # NoHandle

(* Mutant: the position is moved by the size of the buffer. *)
BytesRead_asked(c, size) == size

(* buf zipped with the data from pos on *)
BytesRead(c, size) == Min({size, Max({0, Len(Data(c)) - handle[c].pos})})

read(c, size) ==
  /\ CanUse(c)
  /\ handle' = [handle EXCEPT ![c].pos = @ + BytesRead(c, size)]
  /\ UNCHANGED <<node, pc, last>>

Inserted(s, pos, buf) == SubSeq(s, 1, pos) \o buf \o SubSeq(s, pos + 1, Len(s))

(* Vec::insert panics past the end. *)
write(c, buf) ==
  /\ CanUse(c) /\ Len(Data(c)) + Len(buf) <= MaxData
  /\ IF handle[c].pos <= Len(Data(c))
     THEN /\ node' = [node EXCEPT ![handle[c].file].data = Inserted(@, handle[c].pos, buf)]
          /\ handle' = [handle EXCEPT ![c].pos = @ + Len(buf)]
          /\ UNCHANGED pc
     ELSE /\ pc' = [pc EXCEPT ![c] = [op |-> "panic", path |-> NoPath]]
          /\ UNCHANGED <<node, handle>>
  /\ UNCHANGED last

CallStep(c, p) ==
  \/ \E op \in Ops : not_absolute(c, op, p) \/ create_lookup(c, op, p)
  \/ "open_file" \in Ops /\ open_file(c, p)
  \/ "delete" \in Ops /\ (delete_root(c, p) \/ delete_lookup(c, p))
  \/ "file_type" \in Ops /\ (file_type_root(c, p) \/ file_type_lookup(c, p))
  \/ "open_dir" \in Ops /\ open_dir_lookup(c, p)

Next ==
  \E c \in Caller :
    \/ \E p \in Paths : CallStep(c, p)
    \/ create_panic(c) \/ create_file(c) \/ create_dir(c)
    \/ delete(c) \/ file_type(c) \/ open_dir(c)
    \/ \E size \in ReadSizes : read(c, size)
    \/ \E buf \in Buffers : write(c, buf)

Spec == Init /\ [][Next]_vars

-----------------------------------------------------------------------------
(* The paths that can be in the tree, from the root: those that callers     *)
(* pass, and the directories above.                                         *)
TreePaths ==
  UNION {{SubSeq(p, 2, n) : n \in 2 .. Len(p)} : p \in {q \in Paths : has_root(q) /\ ~ is_root(q)}}

(* What callers see, the tree of FileTree: the first entry of each kind     *)
(* under each path.                                                         *)
Visible ==
  {e \in {[path |-> p, kind |-> "dir", node |-> find_dir(p)] : p \in TreePaths} \cup
         {[path |-> p, kind |-> "file", node |-> find_file(p)] : p \in TreePaths} : e.node # None}

(* No unwrap fails and no insert is out of bounds, except in a create call  *)
(* with the path of the root: the position of a handle never passes the end *)
(* of its file, which other handles write to and whose path others delete.  *)
PanicsOnlyAtRoot ==
  \A c \in Caller :
    /\ At(c, "panic") => is_root(pc[c].path)
    /\ handle[c] # NoHandle => handle[c].pos <= Len(Data(c))

(* The operations take a path apart in three ways, and all reach the same   *)
(* entry in every tree, duplicate names or not: create by its parent split  *)
(* at the first slash, exists, file_type and delete by its parent relative  *)
(* to the root, open_file and open_dir part by part to the end.  The root   *)
(* is apart, and a path that begins with two slashes: relative_to strips    *)
(* both.                                                                    *)
LookupsAgree ==
  \A p \in Paths : has_root(p) /\ p[2] # Empty =>
    /\ DirBySplit(p) = DirByRelative(p)
    /\ exists(p) <=> find_file(split_from_top(p)[2]) # None \/ DirOpened(p) # None
=============================================================================
