----------------------------- MODULE FileProofs -----------------------------
(***************************************************************************)
(* Theorems about the file systems together: the views of a path            *)
(* (PathWalk), the mounts (Vfs), and that the tree in memory implements the *)
(* abstract one (FileTree), for any number of callers and paths of any      *)
(* length.  The lemmas about the tree in memory are in RamfsProofs.         *)
(***************************************************************************)
EXTENDS Files, RamfsProofs

-----------------------------------------------------------------------------
(* A part put in front *)
LEMMA ConsIs ==
  ASSUME NEW P, NEW e, e \in P, NEW r, r \in Seq(P)
  PROVE  /\ <<e>> \o r \in Seq(P) /\ Len(<<e>> \o r) = Len(r) + 1
         /\ Head(<<e>> \o r) = e /\ Tail(<<e>> \o r) = r
<1>1. <<e>> \in Seq(P) /\ Len(<<e>>) = 1 /\ <<e>>[1] = e
  BY SMTT(30)
<1>2. PICK c : c = <<e>> \o r
  BY Zenon
<1>3. /\ c \in Seq(P) /\ Len(c) = 1 + Len(r)
      /\ \A i \in 1 .. 1 + Len(r) : c[i] = IF i <= 1 THEN <<e>>[i] ELSE r[i - 1]
  BY <1>1, <1>2, ConcatProperties, Zenon
<1>4. PICK n : n = Len(r) /\ n \in Nat
  OBVIOUS
<1>5. c[1] = e /\ \A i \in 1 .. n : c[i + 1] = r[i]
  <2>1. 1 \in 1 .. 1 + n /\ 1 <= 1
    BY <1>4, SMTT(30)
  <2>2. \A i \in 1 .. n : i + 1 \in 1 .. 1 + n /\ ~ (i + 1 <= 1) /\ (i + 1) - 1 = i
    BY <1>4
  <2> QED BY <1>1, <1>3, <1>4, <2>1, <2>2, Zenon
<1>6. c # <<>> /\ Head(c) = c[1]
  BY <1>3, <1>4
<1>7. Tail(c) \in Seq(P) /\ Len(Tail(c)) = n /\ \A i \in 1 .. n : Tail(c)[i] = c[i + 1]
  <2>1. /\ Tail(c) \in Seq(P) /\ Len(Tail(c)) = Len(c) - 1
        /\ \A i \in 1 .. Len(Tail(c)) : Tail(c)[i] = c[i + 1]
    BY <1>3, <1>6, HeadTailProperties, Zenon
  <2>2. Len(c) - 1 = n
    BY <1>3, <1>4
  <2> QED BY <2>1, <2>2, Zenon
<1>8. PICK t : t = Tail(c)
  BY Zenon
<1>9. t = r
  BY <1>4, <1>5, <1>7, <1>8, SeqEqual, Zenon
<1> QED BY <1>2, <1>3, <1>4, <1>5, <1>6, <1>8, <1>9

(* The way from a directory to what lies below it *)
LEMMA RelativeBelow ==
  ASSUME NEW p, p \in Seq(Seq(Letters)), NEW k \in 1 .. Len(p) - 1
  PROVE  relative_to(p, SubSeq(p, 1, k)) = SubSeq(p, k + 1, Len(p))
<1>1. PICK n : n = Len(p)
  BY SMTT(30)
<1>2. n \in Nat /\ k \in Nat /\ k >= 1 /\ k + 1 <= n
  BY <1>1
<1>3. PICK q : q = SubSeq(p, 1, k)
  BY Zenon
<1>4. /\ q \in Seq(Seq(Letters)) /\ Len(q) = k /\ q[k] = p[k] /\ p[k] \in Seq(Letters)
      /\ \A i \in 1 .. k : q[i] = p[i]
  BY <1>1, <1>2, <1>3
<1>5. Last(q) = p[k] /\ Front(q) = SubSeq(q, 1, k - 1)
  BY <1>4, Zenon DEF Last, Front
<1>6. SubSeq(q, 1, k - 1) = SubSeq(p, 1, k - 1)
  <2>1. PICK t, u : t = SubSeq(q, 1, k - 1) /\ u = SubSeq(p, 1, k - 1)
    BY Zenon
  <2>2. /\ t \in Seq(Seq(Letters)) /\ u \in Seq(Seq(Letters)) /\ Len(t) = k - 1 /\ Len(u) = k - 1
        /\ \A i \in 1 .. k - 1 : t[i] = q[i] /\ u[i] = p[i]
    BY <1>1, <1>2, <1>4, <2>1
  <2>3. \A i \in 1 .. k - 1 : t[i] = u[i]
    <3>1. \A i \in 1 .. k - 1 : i \in 1 .. k
      BY <1>2
    <3> QED BY <1>4, <2>2, <3>1, Zenon
  <2>4. t = u
    BY <2>2, <2>3, SeqEqual, Zenon
  <2> QED BY <2>1, <2>4, Zenon
<1>7. starts_with(p, q)
  <2>1. IsPrefix(p[k], p[k])
    BY <1>4, SMTT(30) DEF IsPrefix
  <2>2. Len(p) >= k
    BY <1>1, <1>2
  <2> QED BY <1>4, <1>5, <1>6, <2>1, <2>2, Zenon DEF starts_with
<1>8. SubSeq(p[k], Len(p[k]) + 1, Len(p[k])) = Empty
  BY <1>4, SubSeqEmpty DEF Empty
<1>9. relative_to(p, q) = strip_slash(<<Empty>> \o SubSeq(p, k + 1, Len(p)))
  BY <1>4, <1>5, <1>7, <1>8, Zenon DEF relative_to
<1>10. PICK r : r = SubSeq(p, k + 1, Len(p))
  BY Zenon
<1>11. r \in Seq(Seq(Letters)) /\ Len(r) = n - k /\ r # <<>>
  <2>1. \A i \in k + 1 .. n : p[i] \in Seq(Letters)
    BY <1>1, <1>2
  <2>2. /\ SubSeq(p, k + 1, n) \in Seq(Seq(Letters))
        /\ Len(SubSeq(p, k + 1, n)) = IF k + 1 <= n THEN n - (k + 1) + 1 ELSE 0
    <3>1. k + 1 \in Int /\ n \in Int
      BY <1>2
    <3> QED BY <2>1, <3>1, SubSeqProperties, Zenon
  <2>3. r = SubSeq(p, k + 1, n)
    BY <1>1, <1>10, Zenon
  <2>4. k + 1 <= n /\ n - (k + 1) + 1 = n - k /\ n - k # 0
    BY <1>2
  <2>5. r \in Seq(Seq(Letters)) /\ Len(r) = n - k
    BY <2>2, <2>3, <2>4, Zenon
  <2> QED BY <2>4, <2>5, Zenon
<1>12. /\ Len(<<Empty>> \o r) > 1 /\ Head(<<Empty>> \o r) = Empty /\ Tail(<<Empty>> \o r) = r
  <2>1. Empty \in Seq(Letters)
    BY DEF Empty
  <2>2. Len(<<Empty>> \o r) = Len(r) + 1 /\ Head(<<Empty>> \o r) = Empty /\ Tail(<<Empty>> \o r) = r
    BY <1>11, <2>1, ConsIs, ZenonT(60)
  <2>3. Len(r) + 1 > 1
    BY <1>2, <1>11, SMTT(30)
  <2> QED BY <2>2, <2>3, Zenon
<1>13. strip_slash(<<Empty>> \o r) = r
  BY <1>12, Zenon DEF strip_slash, has_root
<1> QED BY <1>3, <1>9, <1>10, <1>13, Zenon
-----------------------------------------------------------------------------
(* PathWalk uses the same functions. *)
LEMMA SameFunctions ==
  /\ Walks!root = root /\ Walks!NoPath = NoPath /\ Walks!Empty = Empty
  /\ \A p : /\ Walks!has_root(p) <=> has_root(p)
            /\ Walks!is_root(p) <=> is_root(p)
            /\ Walks!parent(p) = parent(p)
            /\ Walks!filename(p) = filename(p)
            /\ Walks!top_folder(p) = top_folder(p)
            /\ Walks!split_from_top(p) = split_from_top(p)
  /\ \A p, q : Walks!relative_to(p, q) = relative_to(p, q)
<1>1. Walks!root = root /\ Walks!NoPath = NoPath /\ Walks!Empty = Empty
  BY ZenonT(60) DEF Walks!root, root, Walks!NoPath, NoPath, Walks!Empty, Empty
<1>2. \A p : (Walks!has_root(p) <=> has_root(p)) /\ (Walks!is_root(p) <=> is_root(p))
  BY <1>1, Zenon DEF Walks!has_root, has_root, Walks!is_root, is_root
<1>3. \A p : Walks!Front(p) = Front(p) /\ Walks!Last(p) = Last(p)
  BY Zenon DEF Walks!Front, Front, Walks!Last, Last
<1>4. \A p : Walks!parent(p) = parent(p)
  BY <1>1, <1>3, Zenon DEF Walks!parent, parent
<1>5. \A p : Walks!filename(p) = filename(p)
  BY <1>1, <1>3, <1>4, Zenon DEF Walks!filename, filename
<1>6. \A p : Walks!top_folder(p) = top_folder(p)
  BY <1>1, <1>2, Zenon DEF Walks!top_folder, top_folder
<1>7. \A p : Walks!split_from_top(p) = split_from_top(p)
  BY <1>1, Zenon DEF Walks!split_from_top, split_from_top
<1>8. \A p, q : Walks!IsPrefix(p, q) <=> IsPrefix(p, q)
  BY Zenon DEF Walks!IsPrefix, IsPrefix
<1>9. \A p, q : Walks!starts_with(p, q) <=> starts_with(p, q)
  BY <1>3, <1>8, Zenon DEF Walks!starts_with, starts_with
<1>10. \A p : Walks!strip_slash(p) = strip_slash(p)
  BY <1>2, Zenon DEF Walks!strip_slash, strip_slash
<1>11. \A p, q : Walks!relative_to(p, q) = relative_to(p, q)
  BY <1>1, <1>3, <1>9, <1>10, Zenon DEF Walks!relative_to, relative_to
<1> QED BY <1>1, <1>2, <1>4, <1>5, <1>6, <1>7, <1>11, Zenon

PathInv == path \in Seq(Seq(Letters)) /\ other \in Seq(Seq(Letters)) /\ other # <<>>

(* parent() of a path is a path. *)
LEMMA PathStep ==
  PathInv /\ [Walks!Up]_Walks!vars => PathInv'
<1> SUFFICES ASSUME PathInv, [Walks!Up]_Walks!vars PROVE PathInv'
  OBVIOUS
<1>1. CASE Walks!Up
  <2>1. path # NoPath /\ path' = parent(path) /\ other' = other
    BY <1>1, SameFunctions, Zenon DEF Walks!Up
  <2>2. Len(path) \in Nat /\ Len(path) >= 1
    BY <2>1 DEF PathInv, NoPath
  <2>3. Front(path) \in Seq(Seq(Letters))
    BY <2>2, FrontIs, Zenon DEF PathInv
  <2>4. root \in Seq(Seq(Letters)) /\ NoPath \in Seq(Seq(Letters))
    BY DEF root, Empty, NoPath
  <2>5. parent(path) \in Seq(Seq(Letters))
    BY <2>3, <2>4, Zenon DEF parent
  <2> QED BY <2>1, <2>5, Zenon DEF PathInv
<1>2. CASE UNCHANGED Walks!vars
  BY <1>2, Zenon DEF Walks!vars, PathInv
<1> QED BY <1>1, <1>2, Zenon

(* For a clean path, what create and what open take it apart to *)
LEMMA CleanViews ==
  ASSUME NEW p, p \in Seq(Seq(Letters)), has_root(p), \A i \in 2 .. Len(p) : p[i] # Empty
  PROVE  /\ split_from_top(p)[2]
              = (IF is_root(parent(p)) THEN <<>> ELSE split_from_top(parent(p))[2]) \o filename(p)
         /\ relative_to(p, parent(p)) = filename(p)
         /\ top_folder(p) = root
<1>1. /\ Len(p) \in Nat /\ Len(p) >= 2 /\ p # <<>> /\ p[1] = Empty
      /\ Len(p) = 2 => parent(p) = root
      /\ Len(p) > 2 => parent(p) = Front(p) /\ has_root(Front(p))
      /\ ~ is_root(p) => filename(p) = <<Last(p)>>
  BY ParentIs, Zenon
<1>2. p[2] # Empty
  BY <1>1
<1>3. ~ is_root(p)
  BY <1>2 DEF is_root, root
<1>4. split_from_top(p)[2] = Tail(p) /\ relative_to(p, root) = Tail(p)
  BY <1>2, WithoutRoot, Zenon
<1>5. /\ Len(p) = 2 => Tail(p) = <<Last(p)>>
      /\ Len(p) > 2 => Tail(p) = Tail(Front(p)) \o <<Last(p)>>
  BY <1>1, TailIs, Zenon
<1>6. top_folder(p) = root
  BY Zenon DEF top_folder
<1>7. CASE Len(p) = 2
  <2>1. is_root(parent(p)) /\ parent(p) = root
    BY <1>1, <1>7, ZenonT(60) DEF is_root
  <2>2. \A e : <<>> \o <<e>> = <<e>>
    BY SMTT(30)
  <2> QED BY <1>1, <1>3, <1>4, <1>5, <1>6, <1>7, <2>1, <2>2, Zenon
<1>8. CASE Len(p) > 2
  <2>1. PICK n : n = Len(p) /\ n \in Nat /\ n > 2
    BY <1>1, <1>8, ZenonT(60)
  <2>2. PICK f : f = Front(p)
    OBVIOUS
  <2>3. f \in Seq(Seq(Letters)) /\ Len(f) = n - 1 /\ f[2] = p[2] /\ Last(p) = p[n]
    <3>1. /\ f \in Seq(Seq(Letters)) /\ Len(f) = n - 1 /\ Last(p) = p[n]
          /\ \A i \in 1 .. n - 1 : f[i] = p[i]
      BY <1>1, <2>1, <2>2, FrontIs, SMTT(30)
    <3>2. 2 \in 1 .. n - 1
      BY <2>1, SMTT(30)
    <3> QED BY <3>1, <3>2, Zenon
  <2>4. f = SubSeq(p, 1, n - 1)
    BY <2>1, <2>2, Zenon DEF Front
  <2>5. ~ is_root(f)
    BY <1>2, <2>3, SMTT(30) DEF is_root, root
  <2>6. split_from_top(f)[2] = Tail(f)
    BY <1>1, <1>2, <1>8, <2>2, <2>3, WithoutRoot, Zenon
  <2>7. relative_to(p, f) = <<Last(p)>>
    <3>1. n - 1 \in 1 .. Len(p) - 1 /\ (n - 1) + 1 = n
      BY <2>1, SMTT(30)
    <3>2. relative_to(p, f) = SubSeq(p, n, n)
      BY <2>1, <2>4, <3>1, RelativeBelow, Zenon
    <3>3. n \in 1 .. Len(p) /\ n \in n .. Len(p) /\ n + 1 > n
      BY <2>1, SMTT(30)
    <3>4. SubSeq(p, n, n) = <<p[n]>> \o SubSeq(p, n + 1, n)
      BY <3>3, SubSeqRecursiveFirst, Zenon
    <3>5. SubSeq(p, n + 1, n) = <<>>
      BY <2>1, <3>3, SubSeqEmpty
    <3>6. \A e : <<e>> \o <<>> = <<e>>
      OBVIOUS
    <3> QED BY <2>3, <3>2, <3>4, <3>5, <3>6, ZenonT(60)
  <2> QED BY <1>1, <1>3, <1>4, <1>5, <1>6, <1>8, <2>2, <2>5, <2>6, <2>7, Zenon
<1>9. Len(p) = 2 \/ Len(p) > 2
  <2>1. \A n \in Nat : n >= 2 => n = 2 \/ n > 2
    OBVIOUS
  <2> QED BY <1>1, <2>1, Zenon
<1> QED BY <1>7, <1>8, <1>9, Zenon

(* The views of a path fit together wherever a walk to its parents leads,   *)
(* for paths of any length over any letters: what a caller creates by       *)
(* parent and filename it finds by split_from_top, relative_to leads back   *)
(* from a directory to what lies below it, and parent() of an absolute path *)
(* ends at the root.                                                        *)
THEOREM PathViews == Walks!Spec => []ViewsAgree
<1>1. Walks!Init => PathInv
  BY FilesAssumption, Zenon DEF Walks!Init, PathInv
<1>2. PathInv => ViewsAgree
  <2> SUFFICES ASSUME PathInv PROVE Walks!ViewsAgree
    BY Zenon DEF ViewsAgree
  <2>1. Walks!Clean(path) =>
          /\ split_from_top(path)[2]
               = (IF is_root(parent(path)) THEN <<>> ELSE split_from_top(parent(path))[2])
                   \o filename(path)
          /\ relative_to(path, parent(path)) = filename(path)
          /\ top_folder(path) = root
    <3>1. ASSUME Walks!Clean(path) PROVE has_root(path) /\ \A i \in 2 .. Len(path) : path[i] # Empty
      BY <3>1, SameFunctions, Zenon DEF Walks!Clean
    <3> QED BY <3>1, CleanViews, Zenon DEF PathInv
  <2>2. ASSUME Walks!Below(path, other), ~ is_root(other)
        PROVE  relative_to(path, other) # NoPath /\ other \o relative_to(path, other) = path
    <3>1. Len(path) > Len(other) /\ SubSeq(path, 1, Len(other)) = other
      BY <2>2, SameFunctions, Zenon DEF Walks!Below
    <3>2. PICK n, k : n = Len(path) /\ k = Len(other)
      BY Zenon
    <3>3. n \in Nat /\ k \in Nat /\ k >= 1 /\ n > k
      BY <3>1, <3>2 DEF PathInv
    <3>4. k \in 1 .. n - 1 /\ 1 \in 1 .. n + 1 /\ k \in 1 - 1 .. n /\ n \in k .. n
      BY <3>3
    <3>5. relative_to(path, other) = SubSeq(path, k + 1, n)
      BY <3>1, <3>2, <3>4, RelativeBelow, Zenon DEF PathInv
    <3>6. SubSeq(path, 1, k) \o SubSeq(path, k + 1, n) = SubSeq(path, 1, n)
      BY <3>2, <3>4, ConcatAdjacentSubSeq, Zenon DEF PathInv
    <3>7. SubSeq(path, 1, n) = path
      BY <3>2, SubSeqFull, Zenon DEF PathInv
    <3>8. other \o relative_to(path, other) = path
      BY <3>1, <3>2, <3>5, <3>6, <3>7, Zenon
    <3>9. relative_to(path, other) # NoPath
      <4>1. other # path
        BY <3>2, <3>3
      <4>2. other \o <<>> = other
        BY ConcatEmptySeq, Zenon DEF PathInv
      <4> QED BY <3>8, <4>1, <4>2, Zenon DEF NoPath
    <3> QED BY <3>8, <3>9, Zenon
  <2>3. ASSUME has_root(path)
        PROVE  is_root(parent(path)) \/ (has_root(parent(path)) /\ Len(parent(path)) < Len(path))
    <3>1. /\ Len(path) \in Nat /\ Len(path) >= 2
          /\ Len(path) = 2 => parent(path) = root
          /\ Len(path) > 2 => parent(path) = Front(path) /\ has_root(Front(path))
      BY <2>3, ParentIs, Zenon DEF PathInv
    <3>2. Len(Front(path)) = Len(path) - 1
      BY <3>1, FrontIs, SMTT(30) DEF PathInv
    <3>3. (Len(path) = 2 \/ Len(path) > 2) /\ Len(path) - 1 < Len(path)
      <4>1. \A n \in Nat : n >= 2 => (n = 2 \/ n > 2) /\ n - 1 < n
        OBVIOUS
      <4> QED BY <3>1, <4>1, Zenon
    <3> QED BY <3>1, <3>2, <3>3, Zenon DEF is_root
  <2> QED BY <2>1, <2>2, <2>3, SameFunctions, Zenon DEF Walks!ViewsAgree
<1> QED BY <1>1, <1>2, PathStep, PTL DEF Walks!Spec
-----------------------------------------------------------------------------
(* A mount call that waits for the lock has passed the check against the    *)
(* root file system; the mounts made so far are distinct.                   *)
MountType == [path : MountPaths, fs : FileSystems]

MountInv ==
  /\ mounts \in Seq(MountType)
  /\ mounting \in [Caller -> {Mounts!Idle} \cup [fs : FileSystems, path : MountPaths]]
  /\ \A c \in Caller : mounting[c] # Mounts!Idle =>
       /\ mounting[c] \in [fs : FileSystems, path : MountPaths]
       /\ mounting[c].path \notin RootPaths
  /\ Mounts!MountsDistinct

(* No mount at first *)
LEMMA MountInit == Mounts!Init => MountInv
BY DEF Mounts!Init, MountInv, Mounts!MountsDistinct

(* A mount leaves the mounts as they are or appends one. *)
LEMMA MountAppends ==
  ASSUME MountInv, NEW c \in Caller, Mounts!mount(c)
  PROVE  \/ mounts' = mounts
         \/ \E m \in MountType :
              /\ mounts' = Append(mounts, m) /\ m.path \notin RootPaths
              /\ \A i \in 1 .. Len(mounts) : mounts[i].path # m.path
<1>1. /\ mounting[c] \in [fs : FileSystems, path : MountPaths] /\ mounting[c].path \notin RootPaths
      /\ mounts' = Mounts!Mounted(mounting[c].path, mounting[c].fs)
  BY Zenon DEF Mounts!mount, MountInv
<1>2. DOMAIN mounts = 1 .. Len(mounts)
  BY DEF MountInv
<1>3. CASE \E i \in DOMAIN mounts : mounts[i].path = mounting[c].path
  BY <1>1, <1>3, Zenon DEF Mounts!Mounted
<1>4. CASE ~ \E i \in DOMAIN mounts : mounts[i].path = mounting[c].path
  <2> DEFINE m == [path |-> mounting[c].path, fs |-> mounting[c].fs]
  <2>1. m \in MountType /\ m.path = mounting[c].path
    BY <1>1, Zenon DEF MountType
  <2>2. mounts' = Append(mounts, m)
    BY <1>1, <1>4, Zenon DEF Mounts!Mounted
  <2> HIDE DEF m
  <2> QED BY <1>1, <1>2, <1>4, <2>1, <2>2, Zenon
<1> QED BY <1>3, <1>4, Zenon

(* What the table of mounts is after a push *)
Pushed(new, old, m) ==
  /\ new \in Seq(MountType) /\ Len(new) = Len(old) + 1
  /\ \A i \in 1 .. Len(old) : new[i] = old[i]
  /\ new[Len(old) + 1] = m

(* mount pushes its mount behind the others *)
LEMMA PushIs ==
  ASSUME NEW old \in Seq(MountType), NEW m \in MountType
  PROVE  Pushed(Append(old, m), old, m)
<1>1. PICK n : n = Len(old) /\ n \in Nat
  BY SMTT(30)
<1>2. PICK new : new = Append(old, m)
  BY Zenon
<1>3. new \in Seq(MountType)
  BY <1>2
<1>4. Len(new) = n + 1
  BY <1>1, <1>2
<1>5. ASSUME NEW i \in 1 .. n PROVE new[i] = old[i]
  BY <1>1, <1>2, <1>5
<1>6. new[n + 1] = m
  BY <1>1, <1>2
<1> QED BY <1>1, <1>2, <1>3, <1>4, <1>5, <1>6, Zenon DEF Pushed

(* The check and the mount of several callers, in any order *)
LEMMA MountStep == MountInv /\ [Mounts!Next]_Mounts!vars => MountInv'
<1> SUFFICES ASSUME MountInv, [Mounts!Next]_Mounts!vars PROVE MountInv'
  OBVIOUS
<1>1. ASSUME NEW c \in Caller, Mounts!mount(c) PROVE MountInv'
  <2>1. CASE mounts' = mounts
    BY <1>1, <2>1, Zenon DEF Mounts!mount, MountInv, Mounts!MountsDistinct
  <2>2. ASSUME NEW m \in MountType, mounts' = Append(mounts, m), m.path \notin RootPaths,
               \A i \in 1 .. Len(mounts) : mounts[i].path # m.path
        PROVE  MountInv'
    <3>1. mounts \in Seq(MountType) /\ Len(mounts) \in Nat
      BY DEF MountInv
    <3>2. /\ mounts' \in Seq(MountType) /\ Len(mounts') = Len(mounts) + 1
          /\ \A i \in 1 .. Len(mounts) : mounts'[i] = mounts[i]
          /\ mounts'[Len(mounts) + 1] = m
      <4>1. Pushed(Append(mounts, m), mounts, m)
        BY <2>2, <3>1, PushIs, Zenon
      <4>2. Pushed(mounts', mounts, m)
        BY <2>2, <4>1, Zenon
      <4> QED BY <4>2, Zenon DEF Pushed
    <3>3. DOMAIN mounts = 1 .. Len(mounts) /\ DOMAIN mounts' = 1 .. Len(mounts) + 1
      BY <3>1, <3>2
    <3>4. ASSUME NEW i \in DOMAIN mounts' PROVE i \in 1 .. Len(mounts) \/ i = Len(mounts) + 1
      BY <3>1, <3>3
    <3>5. Mounts!MountsDistinct'
      BY <2>2, <3>2, <3>3, <3>4 DEF MountInv, Mounts!MountsDistinct
    <3> QED BY <1>1, <3>2, <3>5, Zenon DEF Mounts!mount, MountInv
  <2> QED BY <1>1, <2>1, <2>2, MountAppends, Zenon
<1>2. ASSUME NEW c \in Caller, NEW p \in MountPaths, Mounts!open_file(c, p) PROVE MountInv'
  BY <1>2, Zenon DEF Mounts!open_file, MountInv, Mounts!MountsDistinct
<1>3. ASSUME NEW c \in Caller, NEW p \in MountPaths, NEW fs \in FileSystems, Mounts!mount_checks(c, fs, p)
      PROVE  MountInv'
  BY <1>3, Zenon DEF Mounts!mount_checks, MountInv, Mounts!MountsDistinct
<1>4. CASE UNCHANGED Mounts!vars
  BY <1>4, Zenon DEF Mounts!vars, MountInv, Mounts!MountsDistinct
<1> QED BY <1>1, <1>2, <1>3, <1>4, Zenon DEF Mounts!Next

(* No two mounts have the same path and none has a path of the root file    *)
(* system, although mount looks there before it takes the lock              *)
(* (MountsDistinct).                                                        *)
THEOREM MountsApart == Mounts!Spec => []MountsDistinct
<1>1. MountInv => MountsDistinct
  BY Zenon DEF MountInv, MountsDistinct
<1> QED BY <1>1, MountInit, MountStep, PTL DEF Mounts!Spec

(* Min of a set of naturals *)
LEMMA LeastMount ==
  ASSUME NEW S \in SUBSET Nat, S # {}
  PROVE  /\ Mounts!Min(S) \in S
         /\ \A y \in S : Mounts!Min(S) <= y
<1> DEFINE R == {rs \in Nat \X Nat : rs[1] < rs[2]}
<1>1. IsWellFoundedOn(R, Nat)
  <2>1. OpToRel(<, Nat) = R
    BY Zenon DEF OpToRel
  <2> QED BY <2>1, NatLessThanWellFounded, Zenon
<1>2. PICK x \in S : \A y \in S : ~ (<<y, x>> \in R)
  BY <1>1, WFMin, Zenon
<1>3. ASSUME NEW y \in S PROVE x <= y
  <2>1. x \in Nat /\ y \in Nat /\ ~ (y < x)
    BY <1>2, Zenon
  <2> QED BY <2>1
<1> QED BY <1>3, Zenon DEF Mounts!Min

(* A path that a mount answers for is answered by that mount for good: one  *)
(* that is appended later does not come before it (AnswersStable).          *)
THEOREM AnswersKept == Mounts!Spec => AnswersStable
<1>1. ASSUME MountInv, [Mounts!Next]_Mounts!vars, NEW p \in MountPaths, Mounts!Answering(p) # 0
      PROVE  mounts[Mounts!Answering(p)] = mounts'[Mounts!Answering(p)']
  <2>1. CASE mounts' = mounts
    BY <2>1, Zenon DEF Mounts!Answering
  <2>2. ASSUME NEW m \in MountType, mounts' = Append(mounts, m)
        PROVE  mounts[Mounts!Answering(p)] = mounts'[Mounts!Answering(p)']
    <3> DEFINE fits == {i \in DOMAIN mounts : Mounts!relative_to(p, mounts[i].path) # Mounts!NoPath}
               all == {i \in DOMAIN mounts' : Mounts!relative_to(p, mounts'[i].path) # Mounts!NoPath}
    <3>1. mounts \in Seq(MountType) /\ Len(mounts) \in Nat
      BY <1>1, SMTT(30) DEF MountInv
    <3>2. /\ mounts' \in Seq(MountType) /\ Len(mounts') = Len(mounts) + 1
          /\ \A i \in 1 .. Len(mounts) : mounts'[i] = mounts[i]
      <4>1. Pushed(Append(mounts, m), mounts, m)
        BY <2>2, <3>1, PushIs, Zenon
      <4>2. Pushed(mounts', mounts, m)
        BY <2>2, <4>1, Zenon
      <4> QED BY <4>2, Zenon DEF Pushed
    <3>3. DOMAIN mounts = 1 .. Len(mounts) /\ DOMAIN mounts' = 1 .. Len(mounts) + 1
      BY <3>1, <3>2
    <3>4. fits # {} /\ Mounts!Answering(p) = Mounts!Min(fits)
      BY <1>1, Zenon DEF Mounts!Answering
    <3>5. fits \subseteq 1 .. Len(mounts) /\ fits \subseteq all /\ all \subseteq Nat
          /\ all \ fits \subseteq {Len(mounts) + 1}
      <4>1. \A i \in 1 .. Len(mounts) : i \in all <=> i \in fits
        BY <3>1, <3>2, <3>3
      <4>2. fits \subseteq 1 .. Len(mounts) /\ all \subseteq 1 .. Len(mounts) + 1
        BY <3>3, Zenon
      <4>3. \A i \in 1 .. Len(mounts) + 1 : i \in 1 .. Len(mounts) \/ i = Len(mounts) + 1
        BY <3>1
      <4> HIDE DEF fits, all
      <4> QED BY <3>1, <4>1, <4>2, <4>3
    <3>6. Mounts!Answering(p)' = Mounts!Min(all)
      <4>1. Mounts!Answering(p)' = IF all = {} THEN 0 ELSE Mounts!Min(all)
        BY Zenon DEF Mounts!Answering
      <4> QED BY <3>4, <3>5, <4>1, Zenon
    <3> HIDE DEF fits, all
    <3>7. /\ Mounts!Min(fits) \in fits /\ \A y \in fits : Mounts!Min(fits) <= y
      BY <3>4, <3>5, LeastMount, Zenon
    <3>8. Mounts!Min(all) \in all /\ \A y \in all : Mounts!Min(all) <= y
      BY <3>4, <3>5, LeastMount, Zenon
    <3>9. Mounts!Min(all) = Mounts!Min(fits)
      <4>1. PICK f, a : f = Mounts!Min(fits) /\ a = Mounts!Min(all)
        OBVIOUS
      <4>2. f \in 1 .. Len(mounts) /\ a \in Nat /\ a <= f
        BY <3>5, <3>7, <3>8, <4>1, Zenon
      <4>3. a # Len(mounts) + 1
        BY <3>1, <4>2, SMTT(30)
      <4>4. a \in fits
        BY <3>5, <3>8, <4>1, <4>3, Zenon
      <4>5. f <= a
        BY <3>7, <4>1, <4>4, Zenon
      <4> QED BY <4>1, <4>2, <4>5
    <3> QED BY <3>2, <3>4, <3>5, <3>6, <3>7, <3>9, Zenon
  <2>3. ASSUME NEW c \in Caller, Mounts!mount(c)
        PROVE  mounts' = mounts \/ \E m \in MountType : mounts' = Append(mounts, m)
    BY <1>1, <2>3, MountAppends, Zenon
  <2>4. ASSUME ~ \E c \in Caller : Mounts!mount(c) PROVE mounts' = mounts
    BY <1>1, <2>4, Zenon DEF Mounts!Next, Mounts!vars, Mounts!open_file, Mounts!mount_checks
  <2> QED BY <2>1, <2>2, <2>3, <2>4, Zenon
<1>2. MountInv /\ [Mounts!Next]_Mounts!vars =>
        [\A p \in MountPaths : Mounts!Answering(p) # 0 =>
           mounts[Mounts!Answering(p)] = mounts'[Mounts!Answering(p)']]_Mounts!vars
  BY <1>1, Zenon
<1> QED BY <1>2, MountInit, MountStep, PTL DEF Mounts!Spec, AnswersStable, Mounts!AnswersStable
-----------------------------------------------------------------------------
(* The file system in memory implements the tree of the FileSystem trait:   *)
(* its callers see entries appear one by one and go with all below them,    *)
(* and a path keeps denoting the entry it denotes (ImplementsTree).         *)
THEOREM TreeImplemented == Spec => ImplementsTree
<1>1. TreeInv /\ Visible = {} => Tree!Init
  BY Zenon DEF Tree!Init
<1>2. ASSUME SeenMoves(Visible, Visible') PROVE [Tree!Next]_Visible
  <2>1. CASE Visible' = Visible
    BY <2>1, Zenon
  <2>2. CASE Appears(Visible, Visible')
    <3>1. Tree!Create
      BY <2>2, Zenon DEF Appears, Tree!Create, Tree!Directories, Tree!Front, Front
    <3> QED BY <3>1, Zenon DEF Tree!Next
  <2>3. CASE Goes(Visible, Visible')
    <3>1. Tree!Delete
      BY <2>3, Zenon DEF Goes, Tree!Delete, Tree!IsPrefix, IsPrefix
    <3> QED BY <3>1, Zenon DEF Tree!Next
  <2> QED BY <1>2, <2>1, <2>2, <2>3, Zenon DEF SeenMoves
<1>3. TreeInv /\ [Next]_vars => TreeInv' /\ [Tree!Next]_Visible
  BY <1>2, TreeStep, Zenon
<1> QED BY <1>1, <1>3, TreeInit, PTL DEF Spec, ImplementsTree, Tree!Spec
=============================================================================
