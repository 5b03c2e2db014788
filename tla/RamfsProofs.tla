----------------------------- MODULE RamfsProofs ----------------------------
(***************************************************************************)
(* Theorems about the file system in memory (Ramfs), for any number of      *)
(* callers, trees and paths of any size and files of any length: its        *)
(* handles, its entries, and the tree that its callers see.                 *)
(*                                                                         *)
(* The lemmas about the tree are about any two sequences of nodes, N before *)
(* a step and M after it; StepChanges then says which of them applies to    *)
(* each operation.  The argument: each node is the entry of one directory   *)
(* at most, so that one path leads to it.  An entry that is pushed is then  *)
(* seen under one path or under none, and what delete removes lies below    *)
(* one path.                                                                *)
(*                                                                         *)
(* What is computed by recursion over a path or a directory is proved by    *)
(* induction over a set of naturals.                                        *)
(***************************************************************************)
EXTENDS Ramfs, SequenceTheorems, WellFoundedInduction, TLAPS

-----------------------------------------------------------------------------
(* Parts of sequences *)
(* Front and Last, in sequences of any values *)
LEMMA FrontIs ==
  ASSUME NEW P, NEW s, s \in Seq(P), Len(s) >= 1
  PROVE  /\ Front(s) \in Seq(P) /\ Len(Front(s)) = Len(s) - 1
         /\ \A i \in 1 .. Len(s) - 1 : Front(s)[i] = s[i]
         /\ Last(s) = s[Len(s)] /\ s[Len(s)] \in P
<1>1. PICK n : n = Len(s) - 1
  OBVIOUS
<1>2. n \in Nat /\ Len(s) = n + 1
  BY <1>1
<1>3. \A i \in 1 .. n : s[i] \in P
  BY <1>2
<1>4. Front(s) = SubSeq(s, 1, n)
  BY <1>1, Zenon DEF Front
<1>5. /\ SubSeq(s, 1, n) \in Seq(P) /\ Len(SubSeq(s, 1, n)) = n
      /\ \A i \in 1 .. n : SubSeq(s, 1, n)[i] = s[i]
  BY <1>2, <1>3
<1>6. s[Len(s)] \in P
  BY <1>2
<1> QED BY <1>1, <1>4, <1>5, <1>6, Zenon DEF Last

(* The first part of a path, cut off from the rest *)
LEMMA FirstPart ==
  ASSUME NEW P, NEW s, s \in Seq(P), Len(s) >= 1
  PROVE  SubSeq(s, 1, 1) = <<s[1]>>
<1>1. s[1] \in P
  OBVIOUS
<1>2. /\ SubSeq(s, 1, 1) \in Seq(P) /\ Len(SubSeq(s, 1, 1)) = 1 /\ SubSeq(s, 1, 1)[1] = s[1]
  OBVIOUS
<1>3. <<s[1]>> \in Seq(P) /\ Len(<<s[1]>>) = 1 /\ <<s[1]>>[1] = s[1]
  BY <1>1
<1>4. \A i \in 1 .. 1 : SubSeq(s, 1, 1)[i] = <<s[1]>>[i]
  BY <1>2, <1>3
<1>5. PICK t, u : t = SubSeq(s, 1, 1) /\ u = <<s[1]>>
  BY Zenon
<1>6. t \in Seq(P) /\ u \in Seq(P) /\ Len(t) = Len(u) /\ \A i \in 1 .. Len(t) : t[i] = u[i]
  BY <1>2, <1>3, <1>4, <1>5, Zenon
<1>7. t = u
  BY <1>6, SeqEqual, Zenon
<1> QED BY <1>5, <1>7, Zenon

(* Tail is the second part and those after it. *)
LEMMA RestOf ==
  ASSUME NEW P, NEW s, s \in Seq(P), Len(s) >= 2
  PROVE  Tail(s) = <<s[2]>> \o SubSeq(s, 3, Len(s))
<1>1. PICK n : n = Len(s)
  OBVIOUS
<1>2. n \in Nat /\ n >= 2
  BY <1>1
<1>3. 2 \in 1 .. n /\ n \in 2 .. n
  BY <1>2
<1>4. SubSeq(s, 2, n) = <<s[2]>> \o SubSeq(s, 2 + 1, n)
  BY <1>1, <1>3, SubSeqRecursiveFirst, Zenon
<1>5. Tail(s) = SubSeq(s, 2, n)
  BY <1>1, <1>2, TailIsSubSeq
<1>6. 2 + 1 = 3
  OBVIOUS
<1> QED BY <1>1, <1>4, <1>5, <1>6, Zenon

(* The root is its own parent. *)
LEMMA RootIs ==
  /\ Len(root) = 2 /\ Last(root) = Empty /\ Front(root) = <<Empty>> /\ root \in Seq({Empty})
<1>1. \A e : /\ <<e, e>> \in Seq({e}) /\ Len(<<e, e>>) = 2
             /\ <<e, e>>[2] = e /\ <<e, e>>[1] = e
  OBVIOUS
<1>2. root \in Seq({Empty}) /\ Len(root) = 2 /\ root[2] = Empty /\ root[1] = Empty
  BY <1>1, Zenon DEF root
<1>3. SubSeq(root, 1, 1) = <<root[1]>>
  BY <1>2, FirstPart
<1>4. Front(root) = SubSeq(root, 1, 2 - 1)
  BY <1>2, Zenon DEF Front
<1>5. 2 - 1 = 1
  OBVIOUS
<1> QED BY <1>2, <1>3, <1>4, <1>5, Zenon DEF Last

(* The parent of an absolute path *)
LEMMA ParentIs ==
  ASSUME NEW P, NEW p, p \in Seq(P), has_root(p)
  PROVE  /\ Len(p) \in Nat /\ Len(p) >= 2 /\ p # <<>> /\ p[1] = Empty
         /\ Len(p) = 2 => parent(p) = root
         /\ Len(p) > 2 => /\ parent(p) = Front(p) /\ ~ is_root(p) /\ has_root(Front(p))
         /\ ~ is_root(p) => filename(p) = <<Last(p)>>
         /\ is_root(p) => filename(p) = NoPath
<1>0. \A n \in Nat : (n >= 2 => n # 1 /\ (n = 2 \/ n > 2)) /\ (n > 2 => n # 2)
  OBVIOUS
<1>1. Len(p) \in Nat /\ Len(p) >= 2 /\ p # <<>> /\ p[1] = Empty
  BY DEF has_root
<1>2. /\ Front(p) \in Seq(P) /\ Len(Front(p)) = Len(p) - 1
      /\ \A i \in 1 .. Len(p) - 1 : Front(p)[i] = p[i]
  BY <1>1, FrontIs
<1>3. ASSUME Len(p) = 2 PROVE parent(p) = root
  <2>1. Front(p) = SubSeq(p, 1, 1)
    BY <1>3 DEF Front
  <2>2. Front(p) = <<Empty>>
    BY <1>1, <2>1, FirstPart
  <2> QED BY <1>3, <2>2 DEF parent
<1>4. ASSUME Len(p) > 2
      PROVE  parent(p) = Front(p) /\ ~ is_root(p) /\ has_root(Front(p)) /\ Front(p) # p /\ Front(p) # NoPath
  <2>1. Len(Front(p)) # 1 /\ Len(Front(p)) > 1 /\ Front(p)[1] = Empty /\ Front(p) # <<>>
    BY <1>1, <1>2, <1>4
  <2>2. \A e : Len(<<e>>) = 1
    OBVIOUS
  <2>3. Front(p) # <<Empty>>
    BY <2>1, <2>2, Zenon
  <2>4. ~ is_root(p)
    <3>1. Len(p) # 2
      BY <1>0, <1>1, <1>4, Zenon
    <3> QED BY <3>1, RootIs, Zenon DEF is_root
  <2>5. Front(p) # p
    BY <1>1, <1>2
  <2>6. has_root(Front(p))
    BY <1>2, <2>1 DEF has_root
  <2>7. Len(p) # 1
    BY <1>0, <1>1, Zenon
  <2> QED BY <2>1, <2>3, <2>4, <2>5, <2>6, <2>7, Zenon DEF parent, NoPath
<1>5. root # NoPath
  BY RootIs DEF NoPath
<1>6. ~ is_root(p) => filename(p) = <<Last(p)>>
  <2>1. Len(p) = 2 \/ Len(p) > 2
    BY <1>0, <1>1, Zenon
  <2> QED BY <2>1, <1>3, <1>4, <1>5, Zenon DEF filename, is_root
<1>7. is_root(p) => filename(p) = NoPath
  BY <1>1, <1>3, RootIs, Zenon DEF filename, is_root
<1> QED BY <1>1, <1>3, <1>4, <1>6, <1>7, Zenon
(* An absolute path without its first slash: relative_to goes on to strip a *)
(* second one.                                                              *)
LEMMA WithoutSlash ==
  ASSUME NEW p, p \in Seq(Seq(Letters)), has_root(p)
  PROVE  split_from_top(p)[2] = Tail(p) /\ relative_to(p, root) = strip_slash(Tail(p))
<1>1. Len(p) \in Nat /\ Len(p) >= 2 /\ p # <<>> /\ p[1] = Empty
  BY ParentIs, Zenon
<1>2. p[2] \in Seq(Letters)
  BY <1>1
<1>3. split_from_top(p)[2] = Tail(p)
  <2>1. \A n \in Nat : n >= 2 => n # 1
    OBVIOUS
  <2>2. \A x, y : <<x, y>>[2] = y
    OBVIOUS
  <2>3. Len(p) # 1
    BY <1>1, <2>1, Zenon
  <2> QED BY <2>2, <2>3, Zenon DEF split_from_top
<1>4. Len(root) = 2 /\ Last(root) = Empty /\ Front(root) = <<Empty>>
  BY RootIs, Zenon
<1>5. starts_with(p, root)
  <2>1. SubSeq(p, 1, 1) = <<Empty>>
    BY <1>1, FirstPart
  <2>2. IsPrefix(Empty, p[2])
    BY <1>2 DEF IsPrefix, Empty
  <2>3. 2 - 1 = 1
    OBVIOUS
  <2> QED BY <1>1, <1>4, <2>1, <2>2, <2>3, Zenon DEF starts_with
<1>6. SubSeq(p[2], Len(Empty) + 1, Len(p[2])) = p[2]
  <2>1. Len(Empty) + 1 = 1
    BY DEF Empty
  <2>2. SubSeq(p[2], 1, Len(p[2])) = p[2]
    BY <1>2, SubSeqFull, Zenon
  <2> QED BY <2>1, <2>2, Zenon
<1>7. <<p[2]>> \o SubSeq(p, 2 + 1, Len(p)) = Tail(p)
  <2>1. Tail(p) = <<p[2]>> \o SubSeq(p, 3, Len(p))
    BY <1>1, RestOf, Zenon
  <2>2. 2 + 1 = 3
    OBVIOUS
  <2> QED BY <2>1, <2>2, Zenon
<1>8. relative_to(p, root)
        = strip_slash(<<SubSeq(p[2], Len(Empty) + 1, Len(p[2]))>> \o SubSeq(p, 2 + 1, Len(p)))
  BY <1>4, <1>5, Zenon DEF relative_to
<1> QED BY <1>3, <1>6, <1>7, <1>8, Zenon

(* Both ways to take the root from a path leave the same parts. *)
LEMMA WithoutRoot ==
  ASSUME NEW p, p \in Seq(Seq(Letters)), has_root(p), p[2] # Empty
  PROVE  split_from_top(p)[2] = Tail(p) /\ relative_to(p, root) = Tail(p)
<1>1. Len(p) \in Nat /\ Len(p) >= 2
  BY ParentIs, Zenon
<1>2. split_from_top(p)[2] = Tail(p) /\ relative_to(p, root) = strip_slash(Tail(p))
  BY WithoutSlash, Zenon
<1>3. ~ has_root(Tail(p))
  <2>1. Head(Tail(p)) = p[2]
    BY <1>1
  <2> QED BY <2>1, Zenon DEF has_root
<1> QED BY <1>2, <1>3, Zenon DEF strip_slash

(* A sequence of two parts or more is its front and its last, and so is its *)
(* tail.                                                                    *)
LEMMA TailIs ==
  ASSUME NEW P, NEW s, s \in Seq(P), Len(s) >= 2
  PROVE  /\ Tail(s) \in Seq(P) /\ Tail(s) # <<>> /\ Last(Tail(s)) = Last(s)
         /\ Len(s) = 2 => Front(Tail(s)) = <<>> /\ Tail(s) = <<Last(s)>>
         /\ Len(s) > 2 => Front(Tail(s)) = Tail(Front(s)) /\ Tail(s) = Tail(Front(s)) \o <<Last(s)>>
<1>1. PICK n : n = Len(s) /\ n \in Nat /\ n >= 2 /\ s # <<>>
  OBVIOUS
<1>2. PICK t : t = Tail(s)
  BY Zenon
<1>3. t \in Seq(P) /\ Len(t) = n - 1 /\ \A i \in 1 .. n - 1 : t[i] = s[i + 1]
  BY <1>1, <1>2, HeadTailProperties, Zenon
<1>4. t # <<>> /\ Len(t) >= 1
  BY <1>1, <1>3
<1>5. Last(t) = t[n - 1] /\ Last(s) = s[n] /\ s[n] \in P
  BY <1>1, <1>3, <1>4, FrontIs
<1>6. Last(t) = Last(s)
  <2>1. n - 1 \in 1 .. n - 1 /\ (n - 1) + 1 = n
    BY <1>1
  <2> QED BY <1>3, <1>5, <2>1, Zenon
<1>7. /\ Front(t) \in Seq(P) /\ Len(Front(t)) = (n - 1) - 1
      /\ \A i \in 1 .. (n - 1) - 1 : Front(t)[i] = t[i]
  BY <1>3, <1>4, FrontIs, Zenon
<1>8. ASSUME n = 2 PROVE Front(t) = <<>> /\ t = <<Last(s)>>
  <2>1. Len(Front(t)) = 0
    BY <1>7, <1>8
  <2>2. Front(t) = <<>>
    BY <1>7, <2>1, EmptySeq, Zenon
  <2>3. \A e \in P : <<e>> \in Seq(P) /\ Len(<<e>>) = 1 /\ <<e>>[1] = e
    OBVIOUS
  <2>4. PICK u : u = <<Last(s)>>
    BY Zenon
  <2>5. u \in Seq(P) /\ Len(u) = 1 /\ u[1] = Last(s)
    BY <1>5, <2>3, <2>4, Zenon
  <2>6. Len(t) = 1 /\ t[1] = Last(s)
    BY <1>3, <1>5, <1>6, <1>8
  <2>7. t = u
    BY <1>3, <2>5, <2>6, SeqEqual
  <2> QED BY <2>2, <2>4, <2>7, Zenon
<1>9. ASSUME n > 2 PROVE Front(t) = Tail(Front(s)) /\ t = Tail(Front(s)) \o <<Last(s)>>
  <2>1. PICK f : f = Front(s)
    OBVIOUS
  <2>2. f \in Seq(P) /\ Len(f) = n - 1 /\ \A i \in 1 .. n - 1 : f[i] = s[i]
    BY <1>1, <2>1, FrontIs
  <2>3. f # <<>>
    <3>1. n - 1 # 0
      BY <1>9
    <3> QED BY <2>2, <3>1, EmptySeq, Zenon
  <2>4. PICK g : g = Tail(f)
    BY Zenon
  <2>5. g \in Seq(P) /\ Len(g) = n - 2 /\ \A i \in 1 .. n - 2 : g[i] = f[i + 1]
    BY <1>1, <2>2, <2>3, <2>4, HeadTailProperties
  <2>6. \A i \in 1 .. n - 2 : i + 1 \in 1 .. n - 1 /\ i \in 1 .. n - 1
    BY <1>1
  <2>7. \A i \in 1 .. n - 2 : g[i] = s[i + 1]
    BY <2>2, <2>5, <2>6, Zenon
  <2>8. (n - 1) - 1 = n - 2
    BY <1>1
  <2>9. PICK h : h = Front(t)
    OBVIOUS
  <2>10. h \in Seq(P) /\ Len(h) = n - 2 /\ \A i \in 1 .. n - 2 : h[i] = g[i]
    BY <1>3, <1>7, <2>6, <2>7, <2>8, <2>9, Zenon
  <2>11. h = g
    BY <2>5, <2>10, SeqEqual, Zenon
  <2>12. PICK u : u = g \o <<Last(s)>>
    BY Zenon
  <2>13. \A e \in P : <<e>> \in Seq(P) /\ Len(<<e>>) = 1 /\ <<e>>[1] = e
    OBVIOUS
  <2>14. PICK l : l = <<Last(s)>> /\ l \in Seq(P) /\ Len(l) = 1 /\ l[1] = Last(s)
    BY <1>5, <2>13, Zenon
  <2>15. /\ u \in Seq(P) /\ Len(u) = (n - 2) + 1
         /\ \A i \in 1 .. (n - 2) + 1 : u[i] = IF i <= n - 2 THEN g[i] ELSE l[i - (n - 2)]
    BY <2>5, <2>12, <2>14, ConcatProperties
  <2>16. ASSUME NEW i \in 1 .. n - 1 PROVE u[i] = t[i]
    <3>1. i \in 1 .. (n - 2) + 1
      BY <1>1
    <3>2. CASE i <= n - 2
      <4>1. i \in 1 .. n - 2
        BY <1>1, <3>2
      <4>2. u[i] = g[i]
        BY <2>15, <3>1, <3>2, Zenon
      <4> QED BY <1>3, <2>7, <4>1, <4>2, Zenon
    <3>3. CASE i = n - 1
      <4>1. ~ (i <= n - 2) /\ i - (n - 2) = 1
        BY <1>1, <3>3
      <4>2. u[i] = l[1]
        BY <2>15, <3>1, <4>1, Zenon
      <4> QED BY <1>5, <1>6, <2>14, <3>3, <4>2, Zenon
    <3>4. i <= n - 2 \/ i = n - 1
      BY <1>1
    <3> QED BY <3>2, <3>3, <3>4, Zenon
  <2>17. (n - 2) + 1 = n - 1
    BY <1>1
  <2>18. t = u
    BY <1>3, <2>15, <2>16, <2>17, SeqEqual, Zenon
  <2> QED BY <2>1, <2>4, <2>9, <2>11, <2>12, <2>18, Zenon
<1> QED BY <1>1, <1>2, <1>3, <1>4, <1>6, <1>8, <1>9, Zenon
-----------------------------------------------------------------------------
(* Induction over the naturals, for a set. *)
LEMMA SetInduction ==
  ASSUME NEW S, 0 \in S, \A n \in Nat : n \in S => n + 1 \in S
  PROVE  Nat \subseteq S
<1> SUFFICES ASSUME Nat \ S # {} PROVE FALSE
  OBVIOUS
<1> DEFINE R == {rs \in Nat \X Nat : rs[1] < rs[2]}
<1>1. OpToRel(<, Nat) = R
  BY Zenon DEF OpToRel
<1>2. IsWellFoundedOn(R, Nat)
  BY <1>1, NatLessThanWellFounded, Zenon
<1>3. PICK m \in Nat \ S : \A y \in Nat \ S : <<y, m>> \notin R
  BY <1>2, WFMin, Zenon
<1>4. m # 0 /\ m - 1 \in Nat /\ m - 1 < m
  OBVIOUS
<1>5. m - 1 \in S
  BY <1>3, <1>4, Zenon
<1> QED BY <1>4, <1>5

(* Two functions that start alike and go on alike are alike. *)
GoAlike(n, f, h) ==
  /\ n \in Nat /\ f[0] = h[0]
  /\ \A i \in 1 .. n : f[i - 1] = h[i - 1] => f[i] = h[i]

Alike(n, f, h) == \A i \in 0 .. n : f[i] = h[i]

(* By induction over the places of the two functions *)
LEMMA AlikeUpTo ==
  ASSUME NEW n, NEW f, NEW h, GoAlike(n, f, h)
  PROVE  Alike(n, f, h)
<1> USE DEF GoAlike, Alike
<1> DEFINE S == {i \in Nat : i <= n => f[i] = h[i]}
<1>1. 0 \in S
  OBVIOUS
<1>2. ASSUME NEW i \in Nat, i \in S PROVE i + 1 \in S
  <2>1. CASE i + 1 <= n
    <3>1. i + 1 \in 1 .. n /\ (i + 1) - 1 = i /\ f[i] = h[i]
      BY <1>2, <2>1
    <3> QED BY <3>1
  <2> QED BY <2>1
<1>3. Nat \subseteq S
  BY <1>1, <1>2, SetInduction, Zenon
<1> QED BY <1>3
(* A function can be given by its first value and by each value from the    *)
(* one before.                                                              *)
Steps(n, T, x, g) == n \in Nat /\ x \in T /\ g \in [(1 .. n) \X T -> T]
Follows(f, n, T, x, g) ==
  /\ f \in [0 .. n -> T] /\ f[0] = x
  /\ \A i \in 1 .. n : f[i] = g[<<i, f[i - 1]>>]

(* There is such a function, by induction over its length. *)
LEMMA RecursionExists ==
  ASSUME NEW n, NEW T, NEW x, NEW g, Steps(n, T, x, g)
  PROVE  \E f : Follows(f, n, T, x, g)
<1> USE DEF Steps
<1> DEFINE Upto(k, f) == f[0] = x /\ \A i \in 1 .. k : f[i] = g[<<i, f[i - 1]>>]
           S == {k \in Nat : k <= n => \E f \in [0 .. k -> T] : Upto(k, f)}
<1>1. 0 \in S
  <2>1. [i \in 0 .. 0 |-> x] \in [0 .. 0 -> T] /\ Upto(0, [i \in 0 .. 0 |-> x])
    OBVIOUS
  <2> QED BY <2>1, Zenon
<1>2. ASSUME NEW k \in Nat, k \in S PROVE k + 1 \in S
  <2> SUFFICES ASSUME k + 1 <= n PROVE \E f \in [0 .. k + 1 -> T] : Upto(k + 1, f)
    OBVIOUS
  <2>1. PICK f \in [0 .. k -> T] : Upto(k, f)
    BY <1>2
  <2> DEFINE h == [i \in 0 .. k + 1 |-> IF i = k + 1 THEN g[<<k + 1, f[k]>>] ELSE f[i]]
  <2>2. g[<<k + 1, f[k]>>] \in T
    OBVIOUS
  <2>3. h \in [0 .. k + 1 -> T]
    BY <2>2
  <2>4. h[0] = x /\ h[k + 1] = g[<<k + 1, h[k]>>]
    <3>1. h[0] = f[0] /\ h[k] = f[k] /\ h[k + 1] = g[<<k + 1, f[k]>>]
      OBVIOUS
    <3>2. f[0] = x
      BY <2>1, Zenon
    <3> HIDE DEF h
    <3> QED BY <3>1, <3>2, Zenon
  <2>5. ASSUME NEW i \in 1 .. k PROVE h[i] = g[<<i, h[i - 1]>>]
    <3>1. h[i] = f[i] /\ h[i - 1] = f[i - 1]
      OBVIOUS
    <3> QED BY <2>1, <3>1, Zenon
  <2>6. Upto(k + 1, h)
    <3> HIDE DEF h
    <3>1. ASSUME NEW i \in 1 .. k + 1 PROVE h[i] = g[<<i, h[i - 1]>>]
      <4>1. CASE i = k + 1
        BY <2>4, <4>1
      <4>2. CASE i \in 1 .. k
        BY <2>5, <4>2, Zenon
      <4> QED BY <4>1, <4>2
    <3> QED BY <2>4, <3>1, Zenon
  <2> HIDE DEF h, Upto
  <2> QED BY <2>3, <2>6, Zenon
<1>3. n \in S
  <2> HIDE DEF S
  <2> QED BY <1>1, <1>2, SetInduction, Zenon
<1> QED BY <1>3 DEF Follows

(* A set of naturals has a least element, which Min chooses. *)
LEMMA LeastOf ==
  ASSUME NEW S \in SUBSET Nat, S # {}
  PROVE  Min(S) \in S /\ \A y \in S : Min(S) <= y
<1> DEFINE R == {rs \in Nat \X Nat : rs[1] < rs[2]}
<1>1. IsWellFoundedOn(R, Nat)
  <2>1. OpToRel(<, Nat) = R
    BY Zenon DEF OpToRel
  <2> QED BY <2>1, NatLessThanWellFounded, Zenon
<1>2. PICK x \in S : \A y \in S : ~ (<<y, x>> \in R)
  BY <1>1, WFMin, Zenon
<1>3. ASSUME NEW y \in S PROVE x <= y
  <2>1. x \in Nat /\ y \in Nat /\ ~ (y < x)
    BY <1>2, Zenon
  <2> QED BY <2>1
<1> QED BY <1>3, Zenon DEF Min
-----------------------------------------------------------------------------
(* The first j parts of p *)
IsInitial(q, p, j) == Len(q) = j /\ \A i \in 1 .. j : q[i] = p[i]

(* The paths of the tree are the parts of absolute paths after the root. *)
LEMMA TreePathOf ==
  ASSUME NEW q \in TreePaths
  PROVE  \E p \in Paths : \E n \in 2 .. Len(p) :
           q = SubSeq(p, 2, n) /\ \A m \in 2 .. Len(p) : SubSeq(p, 2, m) \in TreePaths
<1>1. PICK p \in {r \in Paths : has_root(r) /\ ~ is_root(r)} : q \in {SubSeq(p, 2, n) : n \in 2 .. Len(p)}
  BY Zenon DEF TreePaths
<1>2. \A m \in 2 .. Len(p) : SubSeq(p, 2, m) \in TreePaths
  <2>1. PICK S : S = {SubSeq(p, 2, n) : n \in 2 .. Len(p)}
    BY Zenon
  <2>2. PICK U : U = {{SubSeq(r, 2, n) : n \in 2 .. Len(r)} : r \in {r \in Paths : has_root(r) /\ ~ is_root(r)}}
    BY Zenon
  <2>3. S \in U
    BY <1>1, <2>1, <2>2, Zenon
  <2>4. TreePaths = UNION U
    BY <2>2, Zenon DEF TreePaths
  <2> QED BY <2>1, <2>3, <2>4, Zenon
<1> QED BY <1>1, <1>2, Zenon

(* What part of a path is *)
LEMMA PartsFrom ==
  ASSUME NEW p \in Paths, NEW n \in 2 .. Len(p), NEW q, q = SubSeq(p, 2, n)
  PROVE  /\ Len(p) \in Nat /\ q \in Seq(Seq(Letters)) /\ Len(q) = n - 1
         /\ \A i \in 1 .. n - 1 : q[i] = p[i + 1]
<1>1. p \in Seq(Seq(Letters))
  BY RamfsAssumption, Zenon
<1>2. /\ SubSeq(p, 2, n) \in Seq(Seq(Letters)) /\ Len(SubSeq(p, 2, n)) = n - 1
      /\ \A i \in 1 .. n - 1 : SubSeq(p, 2, n)[i] = p[i + 1]
  BY <1>1
<1> QED BY <1>1, <1>2

(* They have parts, *)
LEMMA TreePathsAre ==
  \A p \in TreePaths : p \in Seq(Seq(Letters)) /\ Len(p) \in Nat /\ Len(p) >= 1
<1> SUFFICES ASSUME NEW q \in TreePaths PROVE q \in Seq(Seq(Letters)) /\ Len(q) \in Nat /\ Len(q) >= 1
  OBVIOUS
<1>1. PICK p \in Paths : \E n \in 2 .. Len(p) : q = SubSeq(p, 2, n)
  BY TreePathOf, Zenon
<1>2. PICK n \in 2 .. Len(p) : q = SubSeq(p, 2, n)
  BY <1>1
<1>3. q \in Seq(Seq(Letters)) /\ Len(q) = n - 1
  BY <1>2, PartsFrom, Zenon
<1> QED BY <1>3

(* are told apart by them, *)
LEMMA SamePath ==
  ASSUME NEW p \in TreePaths, NEW q \in TreePaths, Len(p) = Len(q),
         \A i \in 1 .. Len(p) : p[i] = q[i]
  PROVE  p = q
<1>1. p \in Seq(Seq(Letters)) /\ q \in Seq(Seq(Letters))
  BY TreePathsAre, Zenon
<1> QED BY <1>1, SeqEqual, Zenon

(* and the directories above are among them. *)
LEMMA InitialPath ==
  ASSUME NEW q \in TreePaths, NEW j \in 1 .. Len(q)
  PROVE  \E r \in TreePaths : IsInitial(r, q, j)
<1>0. PICK p \in Paths : \E n \in 2 .. Len(p) :
        q = SubSeq(p, 2, n) /\ \A m \in 2 .. Len(p) : SubSeq(p, 2, m) \in TreePaths
  BY TreePathOf, Zenon
<1>1. PICK n \in 2 .. Len(p) :
        q = SubSeq(p, 2, n) /\ \A m \in 2 .. Len(p) : SubSeq(p, 2, m) \in TreePaths
  BY <1>0, Zenon
<1>2. Len(p) \in Nat /\ Len(q) = n - 1 /\ \A i \in 1 .. n - 1 : q[i] = p[i + 1]
  BY <1>1, PartsFrom, Zenon
<1>3. PICK m \in 2 .. Len(p) : m = j + 1 /\ m - 1 = j /\ j <= n - 1
  BY <1>2
<1>4. PICK r : r = SubSeq(p, 2, m)
  BY Zenon
<1>5. Len(r) = m - 1 /\ \A i \in 1 .. m - 1 : r[i] = p[i + 1]
  BY <1>4, PartsFrom, Zenon
<1>6. \A i \in 1 .. j : i \in 1 .. n - 1
  BY <1>2, <1>3
<1>7. IsInitial(r, q, j)
  BY <1>2, <1>3, <1>5, <1>6, Zenon DEF IsInitial
<1>8. r \in TreePaths
  BY <1>1, <1>4, Zenon
<1> QED BY <1>7, <1>8, Zenon

(* The directory above is the root or a path of the tree. *)
LEMMA FrontPath ==
  ASSUME NEW p \in TreePaths
  PROVE  \/ Front(p) = <<>> /\ Len(p) = 1
         \/ Len(p) > 1 /\ Front(p) \in TreePaths /\ IsInitial(Front(p), p, Len(p) - 1)
<1>1. p \in Seq(Seq(Letters)) /\ Len(p) \in Nat /\ Len(p) >= 1
  BY TreePathsAre, Zenon
<1>2. PICK f : f = Front(p)
  OBVIOUS
<1>3. f \in Seq(Seq(Letters)) /\ Len(f) = Len(p) - 1 /\ \A i \in 1 .. Len(p) - 1 : f[i] = p[i]
  BY <1>1, <1>2, FrontIs, Zenon
<1>4. CASE Len(p) = 1
  <2>1. Len(f) = 0
    BY <1>3, <1>4
  <2>2. f = <<>>
    BY <1>3, <2>1, EmptySeq, Zenon
  <2> QED BY <1>2, <1>4, <2>2, Zenon
<1>5. CASE Len(p) > 1
  <2>1. Len(p) - 1 \in 1 .. Len(p)
    BY <1>1, <1>5
  <2>2. PICK r \in TreePaths : IsInitial(r, p, Len(p) - 1)
    BY <2>1, InitialPath, Zenon
  <2>3. /\ r \in Seq(Seq(Letters)) /\ Len(r) = Len(f) /\ \A i \in 1 .. Len(f) : f[i] = r[i]
    BY <1>3, <2>2, TreePathsAre, Zenon DEF IsInitial
  <2>4. f = r
    BY <1>3, <2>3, SeqEqual, Zenon
  <2> QED BY <1>2, <1>5, <2>2, <2>4, Zenon
<1>6. Len(p) = 1 \/ Len(p) > 1
  <2>1. \A n \in Nat : n >= 1 => n = 1 \/ n > 1
    OBVIOUS
  <2> QED BY <1>1, <2>1, Zenon
<1> QED BY <1>4, <1>5, <1>6, Zenon

(* What it is for a path to begin with another *)
LEMMA PrefixIs ==
  ASSUME NEW p \in TreePaths, NEW q \in TreePaths
  PROVE  IsPrefix(q, p) <=> Len(q) <= Len(p) /\ \A i \in 1 .. Len(q) : q[i] = p[i]
<1>1. /\ p \in Seq(Seq(Letters)) /\ Len(p) \in Nat
      /\ q \in Seq(Seq(Letters)) /\ Len(q) \in Nat /\ Len(q) >= 1
  BY TreePathsAre, Zenon
<1>2. CASE Len(q) <= Len(p)
  <2>1. PICK n \in Nat : n = Len(q)
    BY <1>1
  <2>2. PICK s, t : s = SubSeq(q, 1, n) /\ t = SubSeq(p, 1, n)
    BY Zenon
  <2>3. s \in Seq(Seq(Letters)) /\ Len(s) = n /\ \A i \in 1 .. n : s[i] = q[i]
    BY <1>1, <2>1, <2>2
  <2>4. t \in Seq(Seq(Letters)) /\ Len(t) = n /\ \A i \in 1 .. n : t[i] = p[i]
    BY <1>1, <1>2, <2>1, <2>2
  <2>5. s = t <=> \A i \in 1 .. n : s[i] = t[i]
    BY <2>3, <2>4, SeqEqual, Zenon
  <2>6. s = t <=> \A i \in 1 .. n : q[i] = p[i]
    BY <2>3, <2>4, <2>5, Zenon
  <2> QED BY <1>2, <2>1, <2>2, <2>6, Zenon DEF IsPrefix
<1>3. CASE ~ (Len(q) <= Len(p))
  BY <1>3, Zenon DEF IsPrefix
<1> QED BY <1>2, <1>3, Zenon

(* All paths begin with that of the root. *)
LEMMA EmptyPrefix == \A p \in TreePaths : IsPrefix(<<>>, p)
<1> SUFFICES ASSUME NEW p \in TreePaths PROVE IsPrefix(<<>>, p)
  OBVIOUS
<1>1. Len(p) \in Nat
  BY TreePathsAre, Zenon
<1>2. Len(<<>>) = 0 /\ 0 <= Len(p) /\ 0 \in Int /\ 1 \in Int /\ 0 < 1
  BY <1>1
<1>3. SubSeq(<<>>, 1, 0) = <<>> /\ SubSeq(p, 1, 0) = <<>>
  BY <1>2, SubSeqEmpty, Zenon
<1> QED BY <1>2, <1>3, Zenon DEF IsPrefix
-----------------------------------------------------------------------------
(* The tree as callers see it.  What follows is about any two sequences of  *)
(* nodes, N before a step and M after it.                                   *)
(*                                                                         *)
(* c is the first of the n entries s that has this name and one of these    *)
(* kinds.                                                                   *)
Fits(N, c, x, K) == N[c].name = x /\ N[c].kind \in K

IsFirst(N, s, n, x, K, c) ==
  \/ c = None /\ \A i \in 1 .. n : ~ Fits(N, s[i], x, K)
  \/ \E i \in 1 .. n : /\ c = s[i] /\ Fits(N, s[i], x, K)
                       /\ \A j \in 1 .. i - 1 : ~ Fits(N, s[j], x, K)

IsChild(N, d, x, K, c) ==
  IF d = None THEN c = None ELSE IsFirst(N, N[d].entries, Len(N[d].entries), x, K, c)

OnlyChild(N, d, x, K, c) == \A e : IsChild(N, d, x, K, e) => e = c

EntryOf(N, c, d) == \E i \in 1 .. Len(N[d].entries) : c = N[d].entries[i]

Enters(N, d, x, c) ==
  c # None => /\ d # None /\ d \in 1 .. Len(N)
              /\ EntryOf(N, c, d) /\ c # ROOT /\ N[c].name = x

(* f is the way along the path p to its first entry of kind k. *)
Kinds(p, k, i) == IF i = Len(p) THEN {k} ELSE {"dir"}

Leads(N, p, k, f) ==
  /\ f[0] = ROOT
  /\ \A i \in 0 .. Len(p) : f[i] \in 0 .. Len(N)
  /\ \A i \in 1 .. Len(p) : IsChild(N, f[i - 1], p[i], Kinds(p, k, i), f[i])

(* The nodes form trees: each is the entry of one directory at most, and    *)
(* the root of none.                                                        *)
TreeOK(N) ==
  /\ Len(N) \in Nat /\ Len(N) >= 1
  /\ \A d \in 1 .. Len(N) : Len(N[d].entries) \in Nat
  /\ \A d \in 1 .. Len(N) : \A c : EntryOf(N, c, d) => c \in 2 .. Len(N)
  /\ \A d, e \in 1 .. Len(N) : \A c : EntryOf(N, c, d) /\ EntryOf(N, c, e) => d = e

(* There is one first entry only. *)
LEMMA FirstOnce ==
  ASSUME NEW N, NEW s, NEW n \in Nat, NEW x, NEW K, NEW c, NEW e,
         IsFirst(N, s, n, x, K, c), IsFirst(N, s, n, x, K, e)
  PROVE  c = e
<1>1. CASE \A i \in 1 .. n : ~ Fits(N, s[i], x, K)
  BY <1>1, Zenon DEF IsFirst
<1>2. CASE \E i \in 1 .. n : Fits(N, s[i], x, K)
  <2>1. PICK i \in 1 .. n : /\ c = s[i] /\ Fits(N, s[i], x, K)
                            /\ \A j \in 1 .. i - 1 : ~ Fits(N, s[j], x, K)
    BY <1>2, Zenon DEF IsFirst
  <2>2. PICK h \in 1 .. n : /\ e = s[h] /\ Fits(N, s[h], x, K)
                            /\ \A j \in 1 .. h - 1 : ~ Fits(N, s[j], x, K)
    BY <1>2, Zenon DEF IsFirst
  <2>3. ~ (i \in 1 .. h - 1) /\ ~ (h \in 1 .. i - 1)
    BY <2>1, <2>2, Zenon
  <2>4. i = h
    BY <2>3
  <2> QED BY <2>1, <2>2, <2>4, Zenon
<1> QED BY <1>1, <1>2, Zenon

(* So there is one entry for a name and a kind, in the directory itself. *)
LEMMA ChildOnce ==
  ASSUME NEW N, TreeOK(N), NEW d \in 0 .. Len(N), NEW x, NEW K, NEW c, IsChild(N, d, x, K, c)
  PROVE  /\ \A e : IsChild(N, d, x, K, e) => e = c
         /\ c # None => /\ d \in 1 .. Len(N) /\ EntryOf(N, c, d) /\ Fits(N, c, x, K)
                        /\ c # ROOT /\ c \in 1 .. Len(N)
<1>1. CASE d = None
  BY <1>1, Zenon DEF IsChild
<1>2. CASE d # None
  <2>1. d \in 1 .. Len(N) /\ Len(N[d].entries) \in Nat
    BY <1>2 DEF TreeOK, None
  <2>2. IsFirst(N, N[d].entries, Len(N[d].entries), x, K, c)
    BY <1>2, Zenon DEF IsChild
  <2>3. \A e : IsChild(N, d, x, K, e) => e = c
    BY <1>2, <2>1, <2>2, FirstOnce, Zenon DEF IsChild
  <2>4. c # None => EntryOf(N, c, d) /\ Fits(N, c, x, K)
    BY <2>2, Zenon DEF IsFirst, EntryOf
  <2>5. c # None => c \in 2 .. Len(N)
    BY <2>1, <2>4, Zenon DEF TreeOK
  <2>6. c \in 2 .. Len(N) => c # ROOT /\ c \in 1 .. Len(N)
    BY DEF TreeOK, ROOT
  <2> QED BY <2>1, <2>3, <2>4, <2>5, <2>6, Zenon
<1> QED BY <1>1, <1>2, Zenon

(* One step of a way *)
LEMMA WayStep ==
  ASSUME NEW N, TreeOK(N), NEW p, Len(p) \in Nat, NEW k, NEW f, Leads(N, p, k, f),
         NEW i \in 1 .. Len(p)
  PROVE  /\ f[i - 1] \in 0 .. Len(N) /\ f[i] \in 0 .. Len(N)
         /\ IsChild(N, f[i - 1], p[i], Kinds(p, k, i), f[i])
         /\ OnlyChild(N, f[i - 1], p[i], Kinds(p, k, i), f[i])
         /\ Enters(N, f[i - 1], p[i], f[i])
<1>1. i \in 0 .. Len(p) /\ i - 1 \in 0 .. Len(p)
  OBVIOUS
<1>2. /\ f[i - 1] \in 0 .. Len(N) /\ f[i] \in 0 .. Len(N)
      /\ IsChild(N, f[i - 1], p[i], Kinds(p, k, i), f[i])
  BY <1>1, Zenon DEF Leads
<1>3. \A e \in 1 .. Len(N) : e # None
  BY DEF None
<1>4. PICK d, c, x, K : d = f[i - 1] /\ c = f[i] /\ x = p[i] /\ K = Kinds(p, k, i)
  OBVIOUS
<1>5. d \in 0 .. Len(N) /\ IsChild(N, d, x, K, c)
  BY <1>2, <1>4, Zenon
<1>6. /\ \A e : IsChild(N, d, x, K, e) => e = c
      /\ c # None => /\ d \in 1 .. Len(N) /\ EntryOf(N, c, d) /\ Fits(N, c, x, K)
                     /\ c # ROOT /\ c \in 1 .. Len(N)
  BY <1>5, ChildOnce, Zenon
<1>7. Enters(N, d, x, c)
  BY <1>3, <1>6, Zenon DEF Fits, Enters
<1>8. OnlyChild(N, d, x, K, c)
  BY <1>6, Zenon DEF OnlyChild
<1> QED BY <1>2, <1>4, <1>6, <1>7, <1>8, Zenon

(* Two ways along the same parts lead to the same nodes. *)
PartsAlike(p, k, q, l, n) ==
  /\ n \in Nat /\ n <= Len(p) /\ n <= Len(q)
  /\ \A i \in 1 .. n : p[i] = q[i] /\ Kinds(p, k, i) = Kinds(q, l, i)

(* By induction over the parts *)
LEMMA SameWay ==
  ASSUME NEW N, TreeOK(N), NEW p, Len(p) \in Nat, NEW k, NEW f, Leads(N, p, k, f),
         NEW q, Len(q) \in Nat, NEW l, NEW g, Leads(N, q, l, g),
         NEW n, PartsAlike(p, k, q, l, n)
  PROVE  Alike(n, f, g)
<1>0. /\ n \in Nat /\ n <= Len(p) /\ n <= Len(q)
      /\ \A i \in 1 .. n : p[i] = q[i] /\ Kinds(p, k, i) = Kinds(q, l, i)
  BY Zenon DEF PartsAlike
<1>1. f[0] = g[0]
  BY Zenon DEF Leads
<1>2. ASSUME NEW i \in 1 .. n, f[i - 1] = g[i - 1] PROVE f[i] = g[i]
  <2>1. i \in 1 .. Len(p) /\ i \in 1 .. Len(q)
    BY <1>0
  <2>2. IsChild(N, g[i - 1], q[i], Kinds(q, l, i), g[i])
    BY <2>1, WayStep, Zenon
  <2>3. IsChild(N, f[i - 1], p[i], Kinds(p, k, i), g[i])
    BY <1>0, <1>2, <2>2, Zenon
  <2>4. OnlyChild(N, f[i - 1], p[i], Kinds(p, k, i), f[i])
    BY <2>1, WayStep, Zenon
  <2> QED BY <2>3, <2>4, Zenon DEF OnlyChild
<1>3. GoAlike(n, f, g)
  BY <1>0, <1>1, <1>2, Zenon DEF GoAlike
<1> QED BY <1>3, AlikeUpTo, Zenon

(* A way that has come to nothing stays there. *)
LEMMA WayAlive ==
  ASSUME NEW N, TreeOK(N), NEW p, Len(p) \in Nat, NEW k, NEW f, Leads(N, p, k, f),
         f[Len(p)] # None, NEW j \in 0 .. Len(p)
  PROVE  f[j] # None
<1> DEFINE S == {h \in Nat : h <= Len(p) - j => f[Len(p) - h] # None}
<1>1. 0 \in S
  <2>1. Len(p) - 0 = Len(p)
    OBVIOUS
  <2> QED BY <2>1
<1>2. ASSUME NEW h \in Nat, h \in S PROVE h + 1 \in S
  <2> SUFFICES ASSUME h + 1 <= Len(p) - j PROVE f[Len(p) - (h + 1)] # None
    OBVIOUS
  <2>1. PICK i \in 1 .. Len(p) : i = Len(p) - h /\ i - 1 = Len(p) - (h + 1)
    OBVIOUS
  <2>2. f[i] # None
    <3>1. f[Len(p) - h] # None
      BY <1>2
    <3> QED BY <2>1, <3>1, Zenon
  <2>3. f[i - 1] # None
    <3>1. Enters(N, f[i - 1], p[i], f[i])
      BY WayStep, Zenon
    <3> QED BY <2>2, <3>1, Zenon DEF Enters
  <2> QED BY <2>1, <2>3, Zenon
<1>3. Nat \subseteq S
  <2> HIDE DEF S
  <2> QED BY <1>1, <1>2, SetInduction, Zenon
<1>4. PICK h \in Nat : h = Len(p) - j /\ Len(p) - h = j /\ h <= Len(p) - j
  <2>1. \A n \in Nat : \A m \in 0 .. n : n - m \in Nat /\ n - (n - m) = m /\ n - m <= n - m
    OBVIOUS
  <2> QED BY <2>1, Zenon
<1>5. f[Len(p) - h] # None
  BY <1>3, <1>4, Zenon
<1> QED BY <1>4, <1>5, Zenon

(* A node is reached along one path only. *)
SamePlace(p, i, q, j) == i = j /\ \A h \in 1 .. i : p[h] = q[h]

(* By induction over the way, back to the root *)
LEMMA OneWay ==
  ASSUME NEW N, TreeOK(N), NEW p, Len(p) \in Nat, NEW k, NEW f, Leads(N, p, k, f),
         NEW q, Len(q) \in Nat, NEW l, NEW g, Leads(N, q, l, g),
         NEW i \in 0 .. Len(p), NEW j \in 0 .. Len(q), f[i] = g[j], f[i] # None
  PROVE  SamePlace(p, i, q, j)
<1> DEFINE Same(m, n) == m = n /\ \A h \in 1 .. m : p[h] = q[h]
           S == {m \in Nat : m <= Len(p) =>
                   \A n \in 0 .. Len(q) : f[m] = g[n] /\ f[m] # None => Same(m, n)}
<1>1. 0 \in S
  <2> SUFFICES ASSUME NEW n \in 0 .. Len(q), f[0] = g[n], f[0] # None PROVE Same(0, n)
    OBVIOUS
  <2>1. n \in 1 .. Len(q) => Enters(N, g[n - 1], q[n], g[n])
    BY WayStep, Zenon
  <2>2. f[0] = ROOT
    BY Zenon DEF Leads
  <2>3. ~ (n \in 1 .. Len(q))
    BY <2>1, <2>2, Zenon DEF Enters
  <2> QED BY <2>3
<1>2. ASSUME NEW m \in Nat, m \in S PROVE m + 1 \in S
  <2> SUFFICES ASSUME m + 1 <= Len(p), NEW n \in 0 .. Len(q), f[m + 1] = g[n], f[m + 1] # None
               PROVE  Same(m + 1, n)
    OBVIOUS
  <2>1. PICK a \in 1 .. Len(p) : a = m + 1 /\ a - 1 = m
    OBVIOUS
  <2>2. /\ f[m] # None /\ f[m] \in 1 .. Len(N) /\ EntryOf(N, f[a], f[m])
        /\ f[a] # ROOT /\ N[f[a]].name = p[a]
    <3>1. Enters(N, f[a - 1], p[a], f[a])
      BY WayStep, Zenon
    <3> QED BY <2>1, <3>1, Zenon DEF Enters
  <2>3. n # 0
    <3>1. g[0] = ROOT
      BY Zenon DEF Leads
    <3> QED BY <2>1, <2>2, <3>1, Zenon
  <2>4. PICK b \in 1 .. Len(q) : b = n /\ n - 1 \in 0 .. Len(q)
    BY <2>3
  <2>5. /\ g[n - 1] # None /\ g[n - 1] \in 1 .. Len(N) /\ EntryOf(N, g[n], g[n - 1])
        /\ N[g[n]].name = q[n]
    <3>1. Enters(N, g[b - 1], q[b], g[b])
      BY WayStep, Zenon
    <3>2. b = n
      BY <2>4, Zenon
    <3> QED BY <2>1, <3>1, <3>2, Zenon DEF Enters
  <2>6. f[m] = g[n - 1]
    BY <2>1, <2>2, <2>5, Zenon DEF TreeOK
  <2>7. p[a] = q[n]
    BY <2>1, <2>2, <2>5, Zenon
  <2>8. Same(m, n - 1)
    BY <1>2, <2>2, <2>4, <2>6, SMTT(30)
  <2> QED BY <2>1, <2>7, <2>8
<1>3. Nat \subseteq S
  <2> HIDE DEF S
  <2> QED BY <1>1, <1>2, SetInduction, Zenon
<1>4. i \in Nat /\ i <= Len(p)
  OBVIOUS
<1>5. Same(i, j)
  <2> HIDE DEF Same
  <2> QED BY <1>3, <1>4
<1> QED BY <1>5, Zenon DEF SamePlace

(* Nodes keep their names and kinds. *)
NamesKept(N, M) ==
  Len(N) <= Len(M) /\ \A n \in 1 .. Len(N) : M[n].name = N[n].name /\ M[n].kind = N[n].kind

(* The entries of a directory *)
LEMMA EntriesAre ==
  ASSUME NEW N, TreeOK(N), NEW d \in 1 .. Len(N), NEW s, s = N[d].entries
  PROVE  d # None /\ Len(s) \in Nat /\ \A i \in 1 .. Len(s) : s[i] \in 1 .. Len(N) /\ s[i] # None
<1>1. d # None /\ \A y \in 2 .. Len(N) : y \in 1 .. Len(N) /\ y # None
  BY DEF TreeOK, None
<1>2. ASSUME NEW i \in 1 .. Len(s) PROVE s[i] \in 2 .. Len(N)
  <2>1. EntryOf(N, s[i], d)
    BY Zenon DEF EntryOf
  <2> QED BY <2>1, Zenon DEF TreeOK
<1> QED BY <1>1, <1>2, Zenon DEF TreeOK

(* Among the same entries the same is the first, *)
LEMMA SameFirst ==
  ASSUME NEW N, NEW M, NamesKept(N, M), NEW s, NEW n \in Nat, \A i \in 1 .. n : s[i] \in 1 .. Len(N),
         NEW x, NEW K, NEW c, IsFirst(N, s, n, x, K, c)
  PROVE  IsFirst(M, s, n, x, K, c)
<1>1. \A i \in 1 .. n : Fits(M, s[i], x, K) <=> Fits(N, s[i], x, K)
  BY Zenon DEF NamesKept, Fits
<1>2. \A i \in 1 .. n : \A j \in 1 .. i - 1 : j \in 1 .. n
  OBVIOUS
<1> QED BY <1>1, <1>2, Zenon DEF IsFirst

(* also in a directory. *)
LEMMA SameChild ==
  ASSUME NEW N, TreeOK(N), NEW M, NamesKept(N, M), NEW d \in 1 .. Len(N),
         M[d].entries = N[d].entries, NEW x, NEW K, NEW c, IsChild(N, d, x, K, c)
  PROVE  IsChild(M, d, x, K, c)
<1>1. PICK s, n : s = N[d].entries /\ n = Len(s)
  BY Zenon
<1>2. d # None /\ n \in Nat /\ \A i \in 1 .. n : s[i] \in 1 .. Len(N)
  BY <1>1, EntriesAre, Zenon
<1>3. IsFirst(N, s, n, x, K, c)
  BY <1>1, <1>2, Zenon DEF IsChild
<1>4. IsFirst(M, s, n, x, K, c)
  BY <1>2, <1>3, SameFirst, Zenon
<1> QED BY <1>1, <1>2, <1>4, Zenon DEF IsChild

(* The first entry when one more is looked at *)
More(N, c, e, x, K) == IF c # None THEN c ELSE IF Fits(N, e, x, K) THEN e ELSE None

(* An entry that comes after the others is the first only without them. *)
LEMMA FirstOfMore ==
  ASSUME NEW N, NEW s, NEW n \in Nat, NEW x, NEW K, NEW c, IsFirst(N, s, n, x, K, c),
         \A i \in 1 .. n : s[i] # None,
         NEW t, \A i \in 1 .. n : t[i] = s[i]
  PROVE  IsFirst(N, t, n + 1, x, K, More(N, c, t[n + 1], x, K))
<1>1. \A i \in 1 .. n : \A j \in 1 .. i - 1 : j \in 1 .. n
  OBVIOUS
<1>2. /\ n + 1 \in 1 .. n + 1 /\ \A j \in 1 .. (n + 1) - 1 : j \in 1 .. n
      /\ \A i \in 1 .. n + 1 : i \in 1 .. n \/ i = n + 1
      /\ \A i \in 1 .. n : i \in 1 .. n + 1
  OBVIOUS
<1>3. CASE c # None
  <2>1. PICK i \in 1 .. n : /\ c = s[i] /\ Fits(N, s[i], x, K)
                            /\ \A j \in 1 .. i - 1 : ~ Fits(N, s[j], x, K)
    BY <1>3, Zenon DEF IsFirst
  <2>2. /\ i \in 1 .. n + 1 /\ c = t[i] /\ Fits(N, t[i], x, K)
        /\ \A j \in 1 .. i - 1 : ~ Fits(N, t[j], x, K)
    BY <1>1, <1>2, <2>1, Zenon
  <2> QED BY <1>3, <2>2, Zenon DEF IsFirst, More
<1>4. CASE c = None
  <2>1. \A i \in 1 .. n : ~ Fits(N, t[i], x, K)
    BY <1>4, Zenon DEF IsFirst
  <2>2. CASE Fits(N, t[n + 1], x, K)
    BY <1>2, <1>4, <2>1, <2>2, Zenon DEF IsFirst, More
  <2>3. CASE ~ Fits(N, t[n + 1], x, K)
    BY <1>2, <1>4, <2>1, <2>3, Zenon DEF IsFirst, More
  <2> QED BY <2>2, <2>3, Zenon
<1> QED BY <1>3, <1>4, Zenon
-----------------------------------------------------------------------------
(* A new node at the end of the entries of d *)
Grown(N, M, d, as, type) ==
  /\ Len(M) = Len(N) + 1 /\ NamesKept(N, M)
  /\ \A n \in 1 .. Len(N) : n # d => M[n].entries = N[n].entries
  /\ Len(M[d].entries) = Len(N[d].entries) + 1
  /\ \A i \in 1 .. Len(N[d].entries) : M[d].entries[i] = N[d].entries[i]
  /\ M[d].entries[Len(N[d].entries) + 1] = Len(N) + 1
  /\ M[Len(N) + 1].name = as /\ M[Len(N) + 1].kind = type
  /\ Len(M[Len(N) + 1].entries) = 0

(* The entries of a tree that has grown *)
LEMMA GrownEntries ==
  ASSUME NEW N, TreeOK(N), NEW M, NEW d \in 1 .. Len(N), NEW as, NEW type, Grown(N, M, d, as, type),
         NEW e \in 1 .. Len(M), NEW c, EntryOf(M, c, e)
  PROVE  e \in 1 .. Len(N) /\ (EntryOf(N, c, e) \/ (e = d /\ c = Len(N) + 1))
<1>1. PICK i \in 1 .. Len(M[e].entries) : c = M[e].entries[i]
  BY Zenon DEF EntryOf
<1>2. e # Len(N) + 1
  <2>1. ~ (i \in 1 .. 0)
    OBVIOUS
  <2> QED BY <1>1, <2>1, Zenon DEF Grown
<1>3. e \in 1 .. Len(N)
  <2>1. Len(M) = Len(N) + 1 /\ Len(N) \in Nat
    BY Zenon DEF Grown, TreeOK
  <2> QED BY <1>2, <2>1
<1>4. CASE e # d
  <2>1. M[e].entries = N[e].entries
    BY <1>3, <1>4, Zenon DEF Grown
  <2>2. EntryOf(N, c, e)
    BY <2>1, Zenon DEF EntryOf
  <2> QED BY <1>3, <2>2, Zenon
<1>5. CASE e = d
  <2>1. PICK n \in Nat : n = Len(N[d].entries)
    BY Zenon DEF TreeOK
  <2>2. Len(M[d].entries) = n + 1
    BY <2>1, Zenon DEF Grown
  <2>3. i \in 1 .. n \/ i = n + 1
    BY <1>1, <1>5, <2>2
  <2>4. ASSUME i \in 1 .. n PROVE EntryOf(N, c, e)
    <3>1. c = N[d].entries[i]
      BY <1>1, <1>5, <2>1, <2>4, Zenon DEF Grown
    <3> QED BY <1>5, <2>1, <2>4, <3>1, Zenon DEF EntryOf
  <2>5. ASSUME i = n + 1 PROVE c = Len(N) + 1
    BY <1>1, <1>5, <2>1, <2>5, Zenon DEF Grown
  <2> QED BY <1>3, <1>5, <2>3, <2>4, <2>5, Zenon
<1> QED BY <1>3, <1>4, <1>5, Zenon

(* It is a tree. *)
LEMMA GrownOK ==
  ASSUME NEW N, TreeOK(N), NEW M, NEW d \in 1 .. Len(N), NEW as, NEW type, Grown(N, M, d, as, type)
  PROVE  TreeOK(M)
<1>1. PICK n \in Nat : n = Len(N) /\ n >= 1
  BY Zenon DEF TreeOK
<1>2. Len(M) = n + 1 /\ Len(M) \in Nat /\ Len(M) >= 1
  <2>1. Len(M) = n + 1
    BY <1>1, Zenon DEF Grown
  <2> QED BY <1>1, <2>1
<1>3. \A e \in 1 .. n + 1 : e \in 1 .. n \/ e = n + 1
  BY <1>1
<1>4. /\ n + 1 \in 2 .. n + 1 /\ \A y \in 2 .. n : y \in 2 .. n + 1 /\ y # n + 1
      /\ \A y \in Nat : y + 1 \in Nat
      /\ 0 \in Nat
  BY <1>1
<1>5. ASSUME NEW e \in 1 .. Len(M) PROVE Len(M[e].entries) \in Nat
  <2>1. CASE e = n + 1
    BY <1>1, <1>4, <2>1, Zenon DEF Grown
  <2>2. CASE e \in 1 .. n
    BY <1>1, <1>4, <2>2, Zenon DEF Grown, TreeOK
  <2> QED BY <1>2, <1>3, <2>1, <2>2, Zenon
<1>6. ASSUME NEW e \in 1 .. Len(M), NEW c, EntryOf(M, c, e)
      PROVE  e \in 1 .. n /\ (EntryOf(N, c, e) \/ (e = d /\ c = n + 1))
  BY <1>1, <1>6, GrownEntries, Zenon
<1>7. ASSUME NEW e \in 1 .. n, NEW c, EntryOf(N, c, e) PROVE c \in 2 .. n
  BY <1>1, <1>7, Zenon DEF TreeOK
<1>8. ASSUME NEW e \in 1 .. Len(M), NEW c, EntryOf(M, c, e) PROVE c \in 2 .. Len(M)
  BY <1>2, <1>4, <1>6, <1>7, <1>8, Zenon
<1>9. ASSUME NEW e \in 1 .. Len(M), NEW h \in 1 .. Len(M), NEW c, EntryOf(M, c, e), EntryOf(M, c, h)
      PROVE  e = h
  <2>1. /\ e \in 1 .. n /\ (EntryOf(N, c, e) \/ (e = d /\ c = n + 1))
        /\ h \in 1 .. n /\ (EntryOf(N, c, h) \/ (h = d /\ c = n + 1))
    <3>1. e \in 1 .. n /\ (EntryOf(N, c, e) \/ (e = d /\ c = n + 1))
      BY <1>6, <1>9, Zenon
    <3>2. h \in 1 .. n /\ (EntryOf(N, c, h) \/ (h = d /\ c = n + 1))
      BY <1>6, <1>9, Zenon
    <3> QED BY <3>1, <3>2, Zenon
  <2>2. CASE c = n + 1
    BY <1>4, <1>7, <2>1, <2>2, Zenon
  <2>3. CASE c # n + 1
    BY <1>1, <2>1, <2>3, Zenon DEF TreeOK
  <2> QED BY <2>2, <2>3, Zenon
<1> QED BY <1>2, <1>5, <1>8, <1>9, Zenon DEF TreeOK

(* The ways in a tree that has grown: where one ended for want of the new   *)
(* entry, it now leads there.                                               *)
Reaches(d, as, type, p, k, f, i) ==
  i # 0 /\ f[i - 1] = d /\ p[i] = as /\ type \in Kinds(p, k, i)

GrownWay(N, d, as, type, p, k, f, g) ==
  \A i \in 0 .. Len(p) :
    g[i] = IF f[i] # None THEN f[i]
           ELSE IF Reaches(d, as, type, p, k, f, i) THEN Len(N) + 1 ELSE None

(* That is a way in the tree that has grown. *)
LEMMA GrownLeads ==
  ASSUME NEW N, TreeOK(N), NEW M, NEW d \in 1 .. Len(N), NEW as, NEW type, Grown(N, M, d, as, type),
         NEW p, Len(p) \in Nat, NEW k, NEW f, Leads(N, p, k, f),
         NEW g, GrownWay(N, d, as, type, p, k, f, g)
  PROVE  Leads(M, p, k, g)
<1>1. PICK m : m = Len(N) + 1
  OBVIOUS
<1>2. /\ m = Len(M) /\ NamesKept(N, M) /\ m \in 0 .. m /\ None \in 0 .. m /\ m # None /\ d # None
      /\ ROOT # None /\ \A y \in 0 .. Len(N) : y \in 0 .. m /\ (y # None => y \in 1 .. Len(N))
  <2>1. Len(N) \in Nat /\ Len(M) = Len(N) + 1 /\ NamesKept(N, M)
    BY Zenon DEF Grown, TreeOK
  <2> QED BY <1>1, <2>1 DEF None, ROOT
<1>3. \A i \in 1 .. Len(p) : i \in 0 .. Len(p) /\ i - 1 \in 0 .. Len(p) /\ i # 0
  OBVIOUS
<1>4. \A i \in 0 .. Len(p) :
        g[i] = IF f[i] # None THEN f[i] ELSE IF Reaches(d, as, type, p, k, f, i) THEN m ELSE None
  BY <1>1, Zenon DEF GrownWay
<1>5. f[0] = ROOT /\ \A i \in 0 .. Len(p) : f[i] \in 0 .. Len(N)
  BY Zenon DEF Leads
<1>6. g[0] = ROOT
  <2>1. 0 \in 0 .. Len(p)
    OBVIOUS
  <2> QED BY <1>2, <1>4, <1>5, <2>1, Zenon
<1>7. \A i \in 0 .. Len(p) : g[i] \in 0 .. Len(M)
  BY <1>2, <1>4, <1>5, Zenon
<1>8. ASSUME NEW i \in 1 .. Len(p)
      PROVE  IsChild(M, g[i - 1], p[i], Kinds(p, k, i), g[i])
  <2>1. PICK e, c, x, K : e = f[i - 1] /\ c = f[i] /\ x = p[i] /\ K = Kinds(p, k, i)
    OBVIOUS
  <2>2. IsChild(N, e, x, K, c) /\ Enters(N, e, x, c)
    BY <2>1, WayStep, Zenon
  <2>3. CASE e = None
    <3>1. c = None
      BY <2>2, <2>3, Zenon DEF Enters
    <3>2. g[i] = None
      BY <1>2, <1>3, <1>4, <2>1, <2>3, <3>1, Zenon DEF Reaches
    <3>3. g[i - 1] = None \/ g[i - 1] = m
      BY <1>3, <1>4, <2>1, <2>3, Zenon
    <3>4. IsChild(M, m, x, K, None)
      <4>1. \A h \in 1 .. 0 : FALSE
        OBVIOUS
      <4>2. Len(M[m].entries) = 0
        BY <1>1, Zenon DEF Grown
      <4> QED BY <1>2, <4>1, <4>2, Zenon DEF IsChild, IsFirst
    <3>5. IsChild(M, None, x, K, None)
      BY Zenon DEF IsChild
    <3> QED BY <2>1, <3>2, <3>3, <3>4, <3>5, Zenon
  <2>4. CASE e # None
    <3>1. e \in 1 .. Len(N) /\ g[i - 1] = e
      BY <1>2, <1>3, <1>4, <1>5, <2>1, <2>4, Zenon
    <3>2. CASE e # d
      <4>1. g[i] = c
        BY <1>3, <1>4, <2>1, <3>2, Zenon DEF Reaches
      <4>2. M[e].entries = N[e].entries
        BY <3>1, <3>2, Zenon DEF Grown
      <4>3. IsChild(M, e, x, K, c)
        BY <1>2, <2>2, <3>1, <4>2, SameChild, Zenon
      <4> QED BY <2>1, <3>1, <4>1, <4>3, Zenon
    <3>3. CASE e = d
      <4>1. PICK s, t, n : s = N[d].entries /\ t = M[d].entries /\ n = Len(s)
        BY Zenon
      <4>2. n \in Nat /\ \A h \in 1 .. n : s[h] \in 1 .. Len(N) /\ s[h] # None
        BY <4>1, EntriesAre, Zenon
      <4>3. IsFirst(N, s, n, x, K, c)
        BY <1>2, <2>2, <3>3, <4>1, Zenon DEF IsChild
      <4>4. IsFirst(M, s, n, x, K, c)
        BY <1>2, <4>2, <4>3, SameFirst, Zenon
      <4>5. (\A h \in 1 .. n : t[h] = s[h]) /\ Len(t) = n + 1 /\ t[n + 1] = m
        BY <1>1, <4>1, Zenon DEF Grown
      <4>6. IsFirst(M, t, n + 1, x, K, More(M, c, t[n + 1], x, K))
        BY <4>2, <4>4, <4>5, FirstOfMore, Zenon
      <4>7. Fits(M, m, x, K) <=> Reaches(d, as, type, p, k, f, i)
        BY <1>1, <1>3, <2>1, <3>3, Zenon DEF Fits, Reaches, Grown
      <4>8. More(M, c, t[n + 1], x, K) = g[i]
        BY <1>3, <1>4, <2>1, <4>5, <4>7, Zenon DEF More
      <4>9. IsChild(M, d, x, K, g[i])
        BY <1>2, <4>1, <4>5, <4>6, <4>8, Zenon DEF IsChild
      <4> QED BY <2>1, <3>1, <3>3, <4>9, Zenon
    <3> QED BY <3>2, <3>3, Zenon
  <2> QED BY <2>3, <2>4, Zenon
<1> QED BY <1>6, <1>7, <1>8, Zenon DEF Leads
-----------------------------------------------------------------------------
(* What is in the tree, with the paths that callers use *)
Types == {"dir", "file"}
Cell(p, k, c) == [path |-> p, kind |-> k, node |-> c]
Seen(N) ==
  {e \in [path : TreePaths, kind : Types, node : Nat \ {0}] :
     \E f : Leads(N, e.path, e.kind, f) /\ f[Len(e.path)] = e.node}

Walkable(N) == \A p \in TreePaths, k \in Types : \E f : Leads(N, p, k, f)

(* Each path and kind has one entry or none. *)
LEMMA SeenOnce ==
  ASSUME NEW N, TreeOK(N), NEW p \in TreePaths, NEW k \in Types, NEW f, Leads(N, p, k, f), NEW c
  PROVE  Cell(p, k, c) \in Seen(N) <=> c = f[Len(p)] /\ c # None
<1>1. Len(p) \in Nat /\ Len(p) \in 0 .. Len(p) /\ Len(p) <= Len(p)
  BY TreePathsAre
<1>2. Cell(p, k, c).path = p /\ Cell(p, k, c).kind = k /\ Cell(p, k, c).node = c
  BY Zenon DEF Cell
<1>3. ASSUME Cell(p, k, c) \in Seen(N) PROVE c = f[Len(p)] /\ c # None
  <2>1. PICK g : Leads(N, p, k, g) /\ g[Len(p)] = c
    BY <1>2, <1>3, Zenon DEF Seen
  <2>2. Alike(Len(p), f, g)
    <3>1. PartsAlike(p, k, p, k, Len(p))
      BY <1>1, Zenon DEF PartsAlike
    <3> QED BY <1>1, <2>1, <3>1, SameWay, Zenon
  <2>3. c \in Nat \ {0}
    BY <1>2, <1>3, Zenon DEF Seen
  <2>4. \A y \in Nat \ {0} : y # None
    BY DEF None
  <2> QED BY <1>1, <2>1, <2>2, <2>3, <2>4, Zenon DEF Alike
<1>4. ASSUME c = f[Len(p)], c # None PROVE Cell(p, k, c) \in Seen(N)
  <2>1. c \in 0 .. Len(N)
    BY <1>1, <1>4, Zenon DEF Leads
  <2>2. c \in Nat \ {0}
    BY <1>4, <2>1 DEF None
  <2>3. Cell(p, k, c) \in [path : TreePaths, kind : Types, node : Nat \ {0}]
    BY <2>2, Zenon DEF Cell
  <2> QED BY <1>2, <1>4, <2>3, Zenon DEF Seen
<1> QED BY <1>3, <1>4, Zenon

(* The beginning of a path leads to a directory on its way. *)
LEMMA InitialLeads ==
  ASSUME NEW N, NEW p \in TreePaths, NEW k, NEW f, Leads(N, p, k, f),
         NEW q \in TreePaths, NEW j, j < Len(p), IsInitial(q, p, j)
  PROVE  Leads(N, q, "dir", f)
<1>1. Len(p) \in Nat /\ Len(q) \in Nat /\ Len(q) = j /\ \A i \in 1 .. Len(q) : q[i] = p[i]
  BY TreePathsAre, Zenon DEF IsInitial
<1>2. /\ \A i \in 0 .. Len(q) : i \in 0 .. Len(p)
      /\ \A i \in 1 .. Len(q) : i \in 1 .. Len(p) /\ i # Len(p)
  BY <1>1
<1>3. \A i \in 1 .. Len(q) : Kinds(p, k, i) = {"dir"} /\ Kinds(q, "dir", i) = {"dir"}
  BY <1>2, Zenon DEF Kinds
<1> QED BY <1>1, <1>2, <1>3, Zenon DEF Leads

(* What is seen are cells, *)
LEMMA SeenCells ==
  ASSUME NEW N, NEW e \in Seen(N)
  PROVE  /\ e.path \in TreePaths /\ e.kind \in Types /\ e = Cell(e.path, e.kind, e.node)
         /\ e.node # None /\ \E f : Leads(N, e.path, e.kind, f) /\ f[Len(e.path)] = e.node
<1>1. e \in [path : TreePaths, kind : Types, node : Nat \ {0}]
  BY Zenon DEF Seen
<1>2. e = Cell(e.path, e.kind, e.node) /\ e.path \in TreePaths /\ e.kind \in Types /\ e.node \in Nat \ {0}
  BY <1>1 DEF Cell
<1>3. \E f : Leads(N, e.path, e.kind, f) /\ f[Len(e.path)] = e.node
  BY Zenon DEF Seen
<1>4. \A y \in Nat \ {0} : y # None
  BY DEF None
<1> QED BY <1>2, <1>3, <1>4, Zenon

(* and two sets of the same cells are the same. *)
AllCells(S) == \A e \in S : \E p \in TreePaths, k \in Types : \E c : e = Cell(p, k, c)
SameCells(S, T) ==
  \A p \in TreePaths, k \in Types : \A c : Cell(p, k, c) \in S <=> Cell(p, k, c) \in T

(* What is seen consists of cells. *)
LEMMA SeenAllCells == \A N : AllCells(Seen(N))
<1>1. ASSUME NEW N, NEW e \in Seen(N) PROVE \E p \in TreePaths, k \in Types : \E c : e = Cell(p, k, c)
  <2>1. e.path \in TreePaths /\ e.kind \in Types /\ e = Cell(e.path, e.kind, e.node)
    BY SeenCells, Zenon
  <2> QED BY <2>1, Zenon
<1> QED BY <1>1, Zenon DEF AllCells

(* Sets of cells are told apart by their cells. *)
LEMMA CellsSame ==
  ASSUME NEW S, AllCells(S), NEW T, AllCells(T), SameCells(S, T)
  PROVE  S = T
<1>1. ASSUME NEW e \in S PROVE e \in T
  <2>0. PICK p \in TreePaths, k \in Types : \E c : e = Cell(p, k, c)
    BY Zenon DEF AllCells
  <2>1. PICK c : e = Cell(p, k, c)
    BY <2>0, Zenon
  <2>2. Cell(p, k, c) \in S
    BY <2>1, Zenon
  <2> QED BY <2>1, <2>2, Zenon DEF SameCells
<1>2. ASSUME NEW e \in T PROVE e \in S
  <2>0. PICK p \in TreePaths, k \in Types : \E c : e = Cell(p, k, c)
    BY Zenon DEF AllCells
  <2>1. PICK c : e = Cell(p, k, c)
    BY <2>0, Zenon
  <2>2. Cell(p, k, c) \in T
    BY <2>1, Zenon
  <2> QED BY <2>1, <2>2, Zenon DEF SameCells
<1> QED BY <1>1, <1>2, Zenon

(* A new entry: one cell appears, in a directory that is seen, or none. *)
Appears(S, T) ==
  \E e \in T :
    /\ T = S \cup {e}
    /\ Front(e.path) \in {<<>>} \cup {h.path : h \in {z \in S : z.kind = "dir"}}
    /\ \A z \in S : z.node # e.node /\ (z.path # e.path \/ z.kind # e.kind)

NewCell(N, d, as, type, p, k) ==
  \E f : Leads(N, p, k, f) /\ f[Len(p)] = None /\ Reaches(d, as, type, p, k, f, Len(p))

(* The cells of a tree that has grown *)
LEMMA GrownCells ==
  ASSUME NEW N, TreeOK(N), Walkable(N), NEW M, NEW d \in 1 .. Len(N), NEW as, NEW type,
         Grown(N, M, d, as, type), NEW p \in TreePaths, NEW k \in Types, NEW c
  PROVE  Cell(p, k, c) \in Seen(M) <=>
           Cell(p, k, c) \in Seen(N) \/ (c = Len(N) + 1 /\ NewCell(N, d, as, type, p, k))
<1>1. PICK n : n = Len(p) /\ n \in Nat /\ n \in 0 .. Len(p)
  <2>1. Len(p) \in Nat
    BY TreePathsAre, Zenon
  <2> QED BY <2>1
<1>2. PICK f : /\ Leads(N, p, k, f)
               /\ NewCell(N, d, as, type, p, k) <=>
                    f[n] = None /\ Reaches(d, as, type, p, k, f, n)
  <2>1. PICK h : Leads(N, p, k, h)
    BY Zenon DEF Walkable
  <2> QED BY <1>1, <2>1, Zenon DEF NewCell
<1>3. PICK g : g = [i \in 0 .. Len(p) |->
                      IF f[i] # None THEN f[i]
                      ELSE IF Reaches(d, as, type, p, k, f, i) THEN Len(N) + 1 ELSE None]
  BY Zenon
<1>4. GrownWay(N, d, as, type, p, k, f, g)
  BY <1>3, Zenon DEF GrownWay
<1>5. Leads(M, p, k, g)
  BY <1>1, <1>2, <1>4, GrownLeads, Zenon
<1>6. TreeOK(M)
  BY GrownOK, Zenon
<1>7. Cell(p, k, c) \in Seen(M) <=> c = g[n] /\ c # None
  BY <1>1, <1>5, <1>6, SeenOnce, Zenon
<1>8. Cell(p, k, c) \in Seen(N) <=> c = f[n] /\ c # None
  BY <1>1, <1>2, SeenOnce, Zenon
<1>9. g[n] = IF f[n] # None THEN f[n]
             ELSE IF NewCell(N, d, as, type, p, k) THEN Len(N) + 1 ELSE None
  BY <1>1, <1>2, <1>4, Zenon DEF GrownWay
<1>10. Len(N) + 1 # None
  BY DEF TreeOK, None
<1> QED BY <1>2, <1>7, <1>8, <1>9, <1>10, Zenon

(* ... of which at most one is new *)
LEMMA OneNewCell ==
  ASSUME NEW N, TreeOK(N), NEW d \in 1 .. Len(N), NEW as, NEW type,
         NEW p \in TreePaths, NEW k \in Types, NewCell(N, d, as, type, p, k),
         NEW q \in TreePaths, NEW l \in Types, NewCell(N, d, as, type, q, l)
  PROVE  p = q /\ k = l
<1>1. /\ Len(p) \in Nat /\ Len(p) - 1 \in 0 .. Len(p)
      /\ Len(q) \in Nat /\ Len(q) - 1 \in 0 .. Len(q) /\ d # None
  BY TreePathsAre DEF None
<1>2. PICK f : Leads(N, p, k, f) /\ Reaches(d, as, type, p, k, f, Len(p))
  BY Zenon DEF NewCell
<1>3. PICK g : Leads(N, q, l, g) /\ Reaches(d, as, type, q, l, g, Len(q))
  BY Zenon DEF NewCell
<1>4. f[Len(p) - 1] = d /\ g[Len(q) - 1] = d /\ p[Len(p)] = as /\ q[Len(q)] = as
  BY <1>2, <1>3, Zenon DEF Reaches
<1>5. type \in {k} /\ type \in {l}
  BY <1>2, <1>3, Zenon DEF Reaches, Kinds
<1>6. Len(p) - 1 = Len(q) - 1 /\ \A h \in 1 .. Len(p) - 1 : p[h] = q[h]
  <2>1. f[Len(p) - 1] = g[Len(q) - 1] /\ f[Len(p) - 1] # None
    BY <1>1, <1>4, Zenon
  <2>2. SamePlace(p, Len(p) - 1, q, Len(q) - 1)
    BY <1>1, <1>2, <1>3, <2>1, OneWay, Zenon
  <2> QED BY <2>2, Zenon DEF SamePlace
<1>7. Len(p) = Len(q)
  BY <1>1, <1>6
<1>8. \A h \in 1 .. Len(p) : p[h] = q[h]
  <2>1. \A h \in 1 .. Len(p) : h \in 1 .. Len(p) - 1 \/ h = Len(p)
    BY <1>1
  <2> QED BY <1>4, <1>6, <1>7, <2>1, Zenon
<1> QED BY <1>5, <1>7, <1>8, SamePath, Zenon

(* create adds one cell to what is seen, or none. *)
LEMMA GrownSeen ==
  ASSUME NEW N, TreeOK(N), Walkable(N), NEW M, NEW d \in 1 .. Len(N), NEW as, NEW type,
         Grown(N, M, d, as, type)
  PROVE  Seen(M) = Seen(N) \/ Appears(Seen(N), Seen(M))
<1>1. ASSUME NEW p \in TreePaths, NEW k \in Types, NEW c
      PROVE  Cell(p, k, c) \in Seen(M) <=>
               Cell(p, k, c) \in Seen(N) \/ (c = Len(N) + 1 /\ NewCell(N, d, as, type, p, k))
  BY GrownCells, Zenon
<1>2. CASE \A p \in TreePaths, k \in Types : ~ NewCell(N, d, as, type, p, k)
  <2>1. SameCells(Seen(M), Seen(N))
    BY <1>1, <1>2, Zenon DEF SameCells
  <2> QED BY <2>1, SeenAllCells, CellsSame, Zenon
<1>3. ASSUME NEW p \in TreePaths, NEW k \in Types, NewCell(N, d, as, type, p, k)
      PROVE  Appears(Seen(N), Seen(M))
  <2>1. PICK m, e : m = Len(N) + 1 /\ e = Cell(p, k, m)
    OBVIOUS
  <2>2. e.path = p /\ e.kind = k /\ e.node = m
    BY <2>1, Zenon DEF Cell
  <2>3. Seen(M) = Seen(N) \cup {e}
    <3>1. ASSUME NEW q \in TreePaths, NEW l \in Types, NEW c
          PROVE  Cell(q, l, c) \in Seen(M) <=> Cell(q, l, c) \in Seen(N) \cup {e}
      <4>1. c = m /\ NewCell(N, d, as, type, q, l) <=> Cell(q, l, c) = e
        <5>1. ASSUME Cell(q, l, c) = e PROVE q = p /\ l = k /\ c = m
          BY <2>2, <5>1, Zenon DEF Cell
        <5>2. ASSUME c = m, NewCell(N, d, as, type, q, l) PROVE Cell(q, l, c) = e
          <6>1. p = q /\ k = l
            BY <1>3, <5>2, OneNewCell, Zenon
          <6> QED BY <2>1, <5>2, <6>1, Zenon
        <5> QED BY <1>3, <5>1, <5>2, Zenon
      <4> QED BY <1>1, <2>1, <4>1, Zenon
    <3>2. AllCells(Seen(N) \cup {e})
      BY <2>1, SeenAllCells, Zenon DEF AllCells
    <3>3. SameCells(Seen(M), Seen(N) \cup {e})
      BY <3>1, Zenon DEF SameCells
    <3> QED BY <3>2, <3>3, SeenAllCells, CellsSame, Zenon
  <2>4. PICK f : /\ Leads(N, p, k, f) /\ f[Len(p)] = None
                 /\ Reaches(d, as, type, p, k, f, Len(p))
    BY <1>3, Zenon DEF NewCell
  <2>5. ASSUME NEW z \in Seen(N) PROVE z.node # m /\ (z.path # p \/ z.kind # k)
    <3>1. /\ z.path \in TreePaths /\ z.kind \in Types /\ z = Cell(z.path, z.kind, z.node)
          /\ z.node # None /\ \E h : Leads(N, z.path, z.kind, h) /\ h[Len(z.path)] = z.node
      BY SeenCells, Zenon
    <3>2. Len(z.path) \in 0 .. Len(z.path)
      BY <3>1, TreePathsAre
    <3>3. z.node \in 0 .. Len(N)
      BY <3>1, <3>2, Zenon DEF Leads
    <3>4. z.node # m
      BY <2>1, <3>3 DEF TreeOK
    <3>5. ASSUME z.path = p, z.kind = k PROVE FALSE
      <4>1. Cell(p, k, z.node) \in Seen(N)
        BY <3>1, <3>5, Zenon
      <4> QED BY <2>4, <3>1, <4>1, SeenOnce, Zenon
    <3> QED BY <3>4, <3>5, Zenon
  <2>6. Front(p) \in {<<>>} \cup {h.path : h \in {z \in Seen(N) : z.kind = "dir"}}
    <3>1. CASE Front(p) = <<>>
      BY <3>1, Zenon
    <3>2. CASE Len(p) > 1 /\ Front(p) \in TreePaths /\ IsInitial(Front(p), p, Len(p) - 1)
      <4>1. PICK q \in TreePaths : q = Front(p) /\ IsInitial(q, p, Len(p) - 1)
        BY <3>2, Zenon
      <4>2. Leads(N, q, "dir", f)
        <5>1. Len(p) - 1 < Len(p)
          BY TreePathsAre
        <5> QED BY <2>4, <4>1, <5>1, InitialLeads, Zenon
      <4>3. Len(q) = Len(p) - 1
        BY <4>1, Zenon DEF IsInitial
      <4>4. f[Len(q)] = d /\ d # None
        <5>1. d # None
          BY DEF None
        <5> QED BY <2>4, <4>3, <5>1, Zenon DEF Reaches
      <4>5. Cell(q, "dir", d) \in Seen(N)
        BY <4>2, <4>4, SeenOnce, Zenon DEF Types
      <4>6. Cell(q, "dir", d).path = q /\ Cell(q, "dir", d).kind = "dir"
        BY Zenon DEF Cell
      <4> QED BY <4>1, <4>5, <4>6, Zenon
    <3> QED BY <3>1, <3>2, FrontPath, Zenon
  <2>7. e \in Seen(M)
    BY <2>3, Zenon
  <2> QED BY <2>2, <2>3, <2>5, <2>6, <2>7, Zenon DEF Appears
<1> QED BY <1>2, <1>3, Zenon
-----------------------------------------------------------------------------
(* Directories that lose entries are still those of a tree. *)
Fewer(N, M) ==
  /\ Len(M) = Len(N)
  /\ \A d \in 1 .. Len(N) : Len(M[d].entries) \in Nat /\ \A c : EntryOf(M, c, d) => EntryOf(N, c, d)

(* No node gets a second place. *)
LEMMA FewerOK == ASSUME NEW N, TreeOK(N), NEW M, Fewer(N, M) PROVE TreeOK(M)
<1>1. ASSUME NEW d \in 1 .. Len(N), NEW c, EntryOf(M, c, d) PROVE EntryOf(N, c, d) /\ c \in 2 .. Len(N)
  BY <1>1, Zenon DEF Fewer, TreeOK
<1>2. ASSUME NEW d \in 1 .. Len(N), NEW e \in 1 .. Len(N), NEW c, EntryOf(M, c, d), EntryOf(M, c, e)
      PROVE  d = e
  <2>1. EntryOf(N, c, d)
    BY <1>1, <1>2, Zenon
  <2>2. EntryOf(N, c, e)
    BY <1>1, <1>2, Zenon
  <2> QED BY <2>1, <2>2, Zenon DEF TreeOK
<1>3. Len(M) = Len(N) /\ Len(N) \in Nat /\ Len(N) >= 1 /\ \A d \in 1 .. Len(N) : Len(M[d].entries) \in Nat
  BY Zenon DEF Fewer, TreeOK
<1> QED BY <1>1, <1>2, <1>3, Zenon DEF TreeOK

(* Directory d without the entries of the name x *)
Pruned(N, M, d, x) ==
  /\ Fewer(N, M) /\ NamesKept(N, M)
  /\ \A n \in 1 .. Len(N) : n # d => M[n].entries = N[n].entries
  /\ \A y, K, c : IsChild(N, d, y, K, c) => IsChild(M, d, y, K, IF y = x THEN None ELSE c)

(* The ways end where they went through such an entry. *)
Cut(d, x, p, f, i) == \E j \in 1 .. i : f[j - 1] = d /\ p[j] = x

PrunedWay(d, x, p, f, g) == \A i \in 0 .. Len(p) : g[i] = IF Cut(d, x, p, f, i) THEN None ELSE f[i]

(* That is a way in the tree without these entries. *)
LEMMA PrunedLeads ==
  ASSUME NEW N, TreeOK(N), NEW M, NEW d \in 1 .. Len(N), NEW x, Pruned(N, M, d, x),
         NEW p, Len(p) \in Nat, NEW k, NEW f, Leads(N, p, k, f),
         NEW g, PrunedWay(d, x, p, f, g)
  PROVE  Leads(M, p, k, g)
<1>1. /\ Len(M) = Len(N) /\ NamesKept(N, M) /\ Len(N) \in Nat /\ d # None
      /\ None \in 0 .. Len(N) /\ \A y \in 0 .. Len(N) : y # None => y \in 1 .. Len(N)
  <2>1. Len(M) = Len(N) /\ NamesKept(N, M) /\ Len(N) \in Nat
    BY Zenon DEF Pruned, Fewer, TreeOK
  <2> QED BY <2>1 DEF None
<1>2. f[0] = ROOT /\ \A i \in 0 .. Len(p) : f[i] \in 0 .. Len(N)
  BY Zenon DEF Leads
<1>3. g[0] = ROOT
  <2>1. 0 \in 0 .. Len(p) /\ \A j \in 1 .. 0 : FALSE
    OBVIOUS
  <2> QED BY <1>2, <2>1, Zenon DEF PrunedWay, Cut
<1>4. \A i \in 0 .. Len(p) : g[i] \in 0 .. Len(M)
  BY <1>1, <1>2, Zenon DEF PrunedWay
<1>5. ASSUME NEW i \in 1 .. Len(p)
      PROVE  IsChild(M, g[i - 1], p[i], Kinds(p, k, i), g[i])
  <2>1. PICK e, c, y, K : e = f[i - 1] /\ c = f[i] /\ y = p[i] /\ K = Kinds(p, k, i)
    OBVIOUS
  <2>2. IsChild(N, e, y, K, c) /\ Enters(N, e, y, c)
    BY <2>1, WayStep, Zenon
  <2>3. i \in 0 .. Len(p) /\ i - 1 \in 0 .. Len(p)
    OBVIOUS
  <2>4. Cut(d, x, p, f, i) <=> Cut(d, x, p, f, i - 1) \/ (e = d /\ y = x)
    <3>1. /\ \A j \in 1 .. i : j \in 1 .. i - 1 \/ j = i
          /\ \A j \in 1 .. i - 1 : j \in 1 .. i
          /\ i \in 1 .. i
      OBVIOUS
    <3> QED BY <2>1, <3>1, Zenon DEF Cut
  <2>5. /\ g[i] = IF Cut(d, x, p, f, i) THEN None ELSE c
        /\ g[i - 1] = IF Cut(d, x, p, f, i - 1) THEN None ELSE e
    BY <2>1, <2>3, Zenon DEF PrunedWay
  <2>6. IsChild(M, None, y, K, None)
    BY Zenon DEF IsChild
  <2>7. CASE Cut(d, x, p, f, i - 1)
    BY <2>1, <2>4, <2>5, <2>6, <2>7, Zenon
  <2>8. CASE ~ Cut(d, x, p, f, i - 1) /\ e = d
    <3>1. IsChild(M, d, y, K, IF y = x THEN None ELSE c)
      BY <2>2, <2>8, Zenon DEF Pruned
    <3>2. g[i - 1] = d /\ g[i] = IF y = x THEN None ELSE c
      BY <2>4, <2>5, <2>8, Zenon
    <3> QED BY <2>1, <3>1, <3>2, Zenon
  <2>9. CASE ~ Cut(d, x, p, f, i - 1) /\ e # d
    <3>1. g[i - 1] = e /\ g[i] = c
      BY <2>4, <2>5, <2>9, Zenon
    <3>2. CASE e = None
      BY <2>1, <2>2, <2>6, <3>1, <3>2, Zenon DEF Enters
    <3>3. CASE e # None
      <4>1. e \in 1 .. Len(N)
        BY <1>1, <1>2, <2>1, <2>3, <3>3, Zenon
      <4>2. M[e].entries = N[e].entries
        BY <2>9, <4>1, Zenon DEF Pruned
      <4>3. IsChild(M, e, y, K, c)
        BY <1>1, <2>2, <4>1, <4>2, SameChild, Zenon
      <4> QED BY <2>1, <3>1, <4>3, Zenon
    <3> QED BY <3>2, <3>3, Zenon
  <2> QED BY <2>7, <2>8, <2>9, Zenon
<1> QED BY <1>3, <1>4, <1>5, Zenon DEF Leads

(* A path goes with all below it. *)
Goes(S, T) ==
  \E q \in {<<>>} \cup {e.path : e \in S} : T = {e \in S : ~ IsPrefix(q, e.path)}

GoneCell(N, d, x, p, k) == \E f : Leads(N, p, k, f) /\ Cut(d, x, p, f, Len(p))

(* The cells that stay when entries are deleted *)
LEMMA PrunedCells ==
  ASSUME NEW N, TreeOK(N), Walkable(N), NEW M, NEW d \in 1 .. Len(N), NEW x, Pruned(N, M, d, x),
         NEW p \in TreePaths, NEW k \in Types, NEW c
  PROVE  Cell(p, k, c) \in Seen(M) <=> Cell(p, k, c) \in Seen(N) /\ ~ GoneCell(N, d, x, p, k)
<1>1. PICK n : n = Len(p) /\ n \in Nat /\ n \in 0 .. Len(p)
  <2>1. Len(p) \in Nat
    BY TreePathsAre, Zenon
  <2> QED BY <2>1
<1>2. PICK f : /\ Leads(N, p, k, f)
               /\ GoneCell(N, d, x, p, k) <=> Cut(d, x, p, f, n)
  <2>1. PICK h : Leads(N, p, k, h)
    BY Zenon DEF Walkable
  <2> QED BY <1>1, <2>1, Zenon DEF GoneCell
<1>3. PICK g : g = [i \in 0 .. Len(p) |-> IF Cut(d, x, p, f, i) THEN None ELSE f[i]]
  BY Zenon
<1>4. PrunedWay(d, x, p, f, g)
  BY <1>3, Zenon DEF PrunedWay
<1>5. Leads(M, p, k, g)
  BY <1>1, <1>2, <1>4, PrunedLeads, Zenon
<1>6. TreeOK(M)
  BY FewerOK, Zenon DEF Pruned
<1>7. Cell(p, k, c) \in Seen(M) <=> c = g[n] /\ c # None
  BY <1>1, <1>5, <1>6, SeenOnce, Zenon
<1>8. Cell(p, k, c) \in Seen(N) <=> c = f[n] /\ c # None
  BY <1>1, <1>2, SeenOnce, Zenon
<1>9. g[n] = IF GoneCell(N, d, x, p, k) THEN None ELSE f[n]
  BY <1>1, <1>2, <1>4, Zenon DEF PrunedWay
<1> QED BY <1>7, <1>8, <1>9, Zenon

(* The first j parts of p lead through d and end with x. *)
CutAt(N, d, x, p, k, f, j) ==
  Leads(N, p, k, f) /\ j \in 1 .. Len(p) /\ f[j - 1] = d /\ p[j] = x

(* All that is gone is below one path: a node is reached along one path     *)
(* only,                                                                    *)
LEMMA GoneBelow ==
  ASSUME NEW N, TreeOK(N), NEW d \in 1 .. Len(N), NEW x,
         NEW p \in TreePaths, NEW k \in Types, NEW f, NEW j, CutAt(N, d, x, p, k, f, j),
         NEW q \in TreePaths, IsInitial(q, p, j),
         NEW r \in TreePaths, NEW l \in Types, GoneCell(N, d, x, r, l)
  PROVE  IsPrefix(q, r)
<1>1. Leads(N, p, k, f) /\ j \in 1 .. Len(p) /\ f[j - 1] = d /\ p[j] = x
  BY Zenon DEF CutAt
<1>2. PICK g : Leads(N, r, l, g) /\ Cut(d, x, r, g, Len(r))
  BY Zenon DEF GoneCell
<1>3. PICK i \in 1 .. Len(r) : g[i - 1] = d /\ r[i] = x
  BY <1>2, Zenon DEF Cut
<1>4. /\ Len(p) \in Nat /\ Len(r) \in Nat /\ d # None
      /\ j - 1 \in 0 .. Len(p) /\ i - 1 \in 0 .. Len(r)
  BY <1>1, TreePathsAre DEF None
<1>5. SamePlace(p, j - 1, r, i - 1)
  BY <1>1, <1>2, <1>3, <1>4, OneWay, Zenon
<1>6. j - 1 = i - 1 /\ \A h \in 1 .. j - 1 : p[h] = r[h]
  BY <1>5, Zenon DEF SamePlace
<1>7. j = i /\ j <= Len(r) /\ \A h \in 1 .. j : h \in 1 .. j - 1 \/ h = j
  BY <1>1, <1>4, <1>6
<1>8. \A h \in 1 .. j : p[h] = r[h]
  BY <1>1, <1>3, <1>6, <1>7, Zenon
<1>9. Len(q) = j /\ \A h \in 1 .. j : q[h] = p[h]
  BY Zenon DEF IsInitial
<1>10. Len(q) <= Len(r) /\ \A h \in 1 .. Len(q) : q[h] = r[h]
  <2>1. j <= Len(r) /\ \A h \in 1 .. j : q[h] = r[h]
    BY <1>7, <1>8, <1>9, Zenon
  <2> QED BY <1>9, <2>1, Zenon
<1> QED BY <1>10, PrefixIs, Zenon

(* and all below that path is gone. *)
LEMMA BelowGone ==
  ASSUME NEW N, TreeOK(N), Walkable(N), NEW d \in 1 .. Len(N), NEW x,
         NEW p \in TreePaths, NEW k \in Types, NEW f, NEW j, CutAt(N, d, x, p, k, f, j),
         NEW q \in TreePaths, IsInitial(q, p, j),
         NEW r \in TreePaths, NEW l \in Types, IsPrefix(q, r)
  PROVE  GoneCell(N, d, x, r, l)
<1>1. Leads(N, p, k, f) /\ j \in 1 .. Len(p) /\ f[j - 1] = d /\ p[j] = x
  BY Zenon DEF CutAt
<1>2. PICK g : Leads(N, r, l, g)
  BY Zenon DEF Walkable
<1>3. Len(q) <= Len(r) /\ \A h \in 1 .. Len(q) : q[h] = r[h]
  BY PrefixIs, Zenon
<1>4. Len(q) = j /\ \A h \in 1 .. j : q[h] = p[h]
  BY Zenon DEF IsInitial
<1>5. Len(p) \in Nat /\ Len(r) \in Nat
  BY TreePathsAre
<1>6. /\ j \in 1 .. Len(r) /\ j - 1 \in Nat /\ j - 1 <= Len(p) /\ j - 1 <= Len(r)
      /\ j - 1 \in 0 .. j - 1
      /\ \A h \in 1 .. j - 1 : h \in 1 .. j /\ h # Len(p) /\ h # Len(r)
      /\ j \in 1 .. j
  BY <1>1, <1>3, <1>4, <1>5
<1>7. \A h \in 1 .. j : r[h] = p[h]
  BY <1>3, <1>4, Zenon
<1>8. \A h \in 1 .. j - 1 : Kinds(p, k, h) = Kinds(r, l, h)
  BY <1>6, Zenon DEF Kinds
<1>9. PartsAlike(p, k, r, l, j - 1)
  BY <1>6, <1>7, <1>8, Zenon DEF PartsAlike
<1>10. Alike(j - 1, f, g)
  BY <1>1, <1>2, <1>5, <1>9, SameWay, Zenon
<1>11. g[j - 1] = d /\ r[j] = x
  BY <1>1, <1>6, <1>7, <1>10, Zenon DEF Alike
<1> QED BY <1>2, <1>6, <1>11, Zenon DEF GoneCell, Cut

(* delete takes away a path that is seen and what is below, or nothing. *)
LEMMA PrunedSeen ==
  ASSUME NEW N, TreeOK(N), Walkable(N), NEW M, NEW d \in 1 .. Len(N), NEW x, Pruned(N, M, d, x)
  PROVE  Seen(M) = Seen(N) \/ Goes(Seen(N), Seen(M))
<1>1. ASSUME NEW p \in TreePaths, NEW k \in Types, NEW c
      PROVE  Cell(p, k, c) \in Seen(M) <=> Cell(p, k, c) \in Seen(N) /\ ~ GoneCell(N, d, x, p, k)
  BY PrunedCells, Zenon
<1>2. CASE \A p \in TreePaths, k \in Types : \A c :
             Cell(p, k, c) \in Seen(N) => ~ GoneCell(N, d, x, p, k)
  <2>1. SameCells(Seen(M), Seen(N))
    BY <1>1, <1>2, Zenon DEF SameCells
  <2> QED BY <2>1, SeenAllCells, CellsSame, Zenon
<1>3. ASSUME NEW p \in TreePaths, NEW k \in Types, NEW c,
             Cell(p, k, c) \in Seen(N), GoneCell(N, d, x, p, k)
      PROVE  Goes(Seen(N), Seen(M))
  <2>1. PICK f : Leads(N, p, k, f) /\ Cut(d, x, p, f, Len(p))
    BY <1>3, Zenon DEF GoneCell
  <2>2. PICK j \in 1 .. Len(p) : f[j - 1] = d /\ p[j] = x
    BY <2>1, Zenon DEF Cut
  <2>3. PICK q \in TreePaths : IsInitial(q, p, j)
    BY InitialPath, Zenon
  <2>4. q \in {e.path : e \in Seen(N)}
    <3>1. Len(p) \in Nat /\ Len(q) = j /\ \A h \in 1 .. Len(q) : q[h] = p[h]
      BY <2>3, TreePathsAre, Zenon DEF IsInitial
    <3>2. CASE j = Len(p)
      <4>1. q = p
        BY <3>1, <3>2, SamePath, Zenon
      <4>2. Cell(p, k, c).path = p
        BY Zenon DEF Cell
      <4> QED BY <1>3, <4>1, <4>2, Zenon
    <3>3. CASE j # Len(p)
      <4>1. j < Len(p) /\ j \in 0 .. Len(p)
        BY <3>1, <3>3
      <4>2. Leads(N, q, "dir", f)
        BY <2>1, <2>3, <4>1, InitialLeads, Zenon
      <4>3. f[Len(p)] # None
        BY <1>3, <2>1, SeenOnce, Zenon
      <4>4. f[j] # None
        BY <2>1, <3>1, <4>1, <4>3, WayAlive, Zenon
      <4>5. Cell(q, "dir", f[j]) \in Seen(N)
        BY <3>1, <4>2, <4>4, SeenOnce, Zenon DEF Types
      <4>6. Cell(q, "dir", f[j]).path = q
        BY Zenon DEF Cell
      <4> QED BY <4>5, <4>6, Zenon
    <3> QED BY <3>2, <3>3, Zenon
  <2>5. CutAt(N, d, x, p, k, f, j)
    BY <2>1, <2>2, Zenon DEF CutAt
  <2>6. ASSUME NEW r \in TreePaths, NEW l \in Types
        PROVE  GoneCell(N, d, x, r, l) <=> IsPrefix(q, r)
    <3>1. GoneCell(N, d, x, r, l) => IsPrefix(q, r)
      BY <2>3, <2>5, GoneBelow, Zenon
    <3>2. IsPrefix(q, r) => GoneCell(N, d, x, r, l)
      BY <2>3, <2>5, BelowGone, Zenon
    <3> QED BY <3>1, <3>2, Zenon
  <2>7. PICK T : T = {e \in Seen(N) : ~ IsPrefix(q, e.path)}
    BY Zenon
  <2>8. AllCells(T)
    BY <2>7, SeenAllCells, Zenon DEF AllCells
  <2>9. SameCells(Seen(M), T)
    <3>1. ASSUME NEW r \in TreePaths, NEW l \in Types, NEW b
          PROVE  Cell(r, l, b) \in Seen(M) <=> Cell(r, l, b) \in T
      <4>1. Cell(r, l, b).path = r
        BY Zenon DEF Cell
      <4>2. Cell(r, l, b) \in Seen(M) <=> Cell(r, l, b) \in Seen(N) /\ ~ IsPrefix(q, r)
        BY <1>1, <2>6, Zenon
      <4> QED BY <2>7, <4>1, <4>2, Zenon
    <3> QED BY <3>1, Zenon DEF SameCells
  <2>10. Seen(M) = T
    BY <2>8, <2>9, SeenAllCells, CellsSame, Zenon
  <2> QED BY <2>4, <2>7, <2>10, Zenon DEF Goes
<1> QED BY <1>2, <1>3, Zenon
-----------------------------------------------------------------------------
(* The first entry when one less is looked at *)
Before(N, s, n, x, K, c) ==
  \E b : IsFirst(N, s, n, x, K, b) /\ c = More(N, b, s[n + 1], x, K)

(* It is the same, or none where the last one is the first. *)
LEMMA FirstOfLess ==
  ASSUME NEW N, NEW s, NEW n \in Nat, NEW x, NEW K, NEW c, IsFirst(N, s, n + 1, x, K, c),
         \A i \in 1 .. n + 1 : s[i] # None
  PROVE  Before(N, s, n, x, K, c)
<1> USE DEF Before
<1>1. /\ \A i \in 1 .. n : i \in 1 .. n + 1
      /\ n + 1 \in 1 .. n + 1 /\ (n + 1) - 1 = n
      /\ \A i \in 1 .. n + 1 : i \in 1 .. n \/ i = n + 1
  OBVIOUS
<1>2. CASE \A i \in 1 .. n + 1 : ~ Fits(N, s[i], x, K)
  <2>1. c = None
    BY <1>2, Zenon DEF IsFirst
  <2>2. IsFirst(N, s, n, x, K, None)
    BY <1>1, <1>2, Zenon DEF IsFirst
  <2> QED BY <1>1, <1>2, <2>1, <2>2, Zenon DEF More
<1>3. CASE \E i \in 1 .. n + 1 : Fits(N, s[i], x, K)
  <2>1. PICK i \in 1 .. n + 1 : /\ c = s[i] /\ Fits(N, s[i], x, K)
                                /\ \A j \in 1 .. i - 1 : ~ Fits(N, s[j], x, K)
    BY <1>3, Zenon DEF IsFirst
  <2>2. CASE i \in 1 .. n
    <3>1. IsFirst(N, s, n, x, K, c)
      BY <2>1, <2>2, Zenon DEF IsFirst
    <3>2. c # None
      BY <2>1, Zenon
    <3> QED BY <3>1, <3>2, Zenon DEF More
  <2>3. CASE i = n + 1
    <3>1. IsFirst(N, s, n, x, K, None)
      BY <1>1, <2>1, <2>3, Zenon DEF IsFirst
    <3>2. c = s[n + 1] /\ Fits(N, s[n + 1], x, K)
      BY <2>1, <2>3, Zenon
    <3> QED BY <3>1, <3>2, Zenon DEF More
  <2> QED BY <1>1, <2>2, <2>3, Zenon
<1> QED BY <1>2, <1>3, Zenon

(* t is s without the entries of the name x. *)
Among(t, s, n) == \A h \in 1 .. Len(t) : \E j \in 1 .. n : t[h] = s[j]

FirstsKept(N, s, n, x, t) ==
  \A y, K, c : IsFirst(N, s, n, y, K, c) =>
    IsFirst(N, t, Len(t), y, K, IF y = x THEN None ELSE c)

PartlyKept(N, t, x, a, y, K, c) ==
  \E b : /\ IsFirst(N, t, Len(t), y, K, IF y = x THEN None ELSE b)
         /\ c = More(N, b, a, y, K)

Without(N, s, n, x, T, t) == t \in Seq(T) /\ Among(t, s, n) /\ FirstsKept(N, s, n, x, t)

(* One more entry is looked at, and kept or not. *)
LEMMA SieveStep ==
  ASSUME NEW N, NEW s, NEW T, None \notin T, NEW n \in Nat, \A i \in 1 .. n + 1 : s[i] \in T,
         NEW x, NEW t, Without(N, s, n, x, T, t),
         NEW u, u = IF N[s[n + 1]].name = x THEN t ELSE Append(t, s[n + 1])
  PROVE  Without(N, s, n + 1, x, T, u)
<1>1. /\ \A i \in 1 .. n : i \in 1 .. n + 1
      /\ n + 1 \in 1 .. n + 1
  OBVIOUS
<1>2. PICK a \in T : a = s[n + 1]
  BY <1>1, Zenon
<1>3. PICK m \in Nat : m = Len(t) /\ t \in Seq(T)
  <2>1. t \in Seq(T)
    BY Zenon DEF Without
  <2> QED BY <2>1
<1>4. \A i \in 1 .. n + 1 : s[i] # None
  BY Zenon
<1>5. \A h \in 1 .. m : t[h] # None
  BY <1>3
<1>6. ASSUME NEW y, NEW K, NEW c, IsFirst(N, s, n + 1, y, K, c)
      PROVE  PartlyKept(N, t, x, a, y, K, c)
  <2>1. Before(N, s, n, y, K, c)
    BY <1>4, <1>6, FirstOfLess, Zenon
  <2>2. PICK b : IsFirst(N, s, n, y, K, b) /\ c = More(N, b, s[n + 1], y, K)
    BY <2>1, Zenon DEF Before
  <2>3. IsFirst(N, t, Len(t), y, K, IF y = x THEN None ELSE b)
    BY <2>2, Zenon DEF Without, FirstsKept
  <2> QED BY <1>2, <2>2, <2>3, Zenon DEF PartlyKept
<1>7. CASE N[a].name = x
  <2>1. u = t
    BY <1>2, <1>7, Zenon
  <2>2. Among(u, s, n + 1)
    BY <1>1, <2>1, Zenon DEF Without, Among
  <2>3. ASSUME NEW y, NEW K, NEW c, IsFirst(N, s, n + 1, y, K, c)
        PROVE  IsFirst(N, t, m, y, K, IF y = x THEN None ELSE c)
    <3>0. PartlyKept(N, t, x, a, y, K, c)
      BY <1>6, <2>3, Zenon
    <3>1. PICK b : /\ IsFirst(N, t, m, y, K, IF y = x THEN None ELSE b)
                   /\ c = More(N, b, a, y, K)
      BY <1>3, <3>0, Zenon DEF PartlyKept
    <3>2. y # x => c = b
      BY <1>7, <3>1, Zenon DEF More, Fits
    <3> QED BY <3>1, <3>2, Zenon
  <2>4. FirstsKept(N, s, n + 1, x, u)
    BY <1>3, <2>1, <2>3, Zenon DEF FirstsKept
  <2> QED BY <1>3, <2>1, <2>2, <2>4, Zenon DEF Without
<1>8. CASE N[a].name # x
  <2>1. u = Append(t, a)
    BY <1>2, <1>8, Zenon
  <2>2. /\ u \in Seq(T) /\ Len(u) = m + 1 /\ u[m + 1] = a
        /\ \A h \in 1 .. m : u[h] = t[h]
    BY <1>3, <2>1, AppendProperties
  <2>3. Among(u, s, n + 1)
    <3>1. \A h \in 1 .. m + 1 : h \in 1 .. m \/ h = m + 1
      OBVIOUS
    <3>2. \A h \in 1 .. m : \E j \in 1 .. n : t[h] = s[j]
      BY <1>3, Zenon DEF Without, Among
    <3>3. \A h \in 1 .. m + 1 : \E j \in 1 .. n + 1 : u[h] = s[j]
      BY <1>1, <1>2, <2>2, <3>1, <3>2, Zenon
    <3> QED BY <2>2, <3>3, Zenon DEF Among
  <2>4. ASSUME NEW y, NEW K, NEW c, IsFirst(N, s, n + 1, y, K, c)
        PROVE  IsFirst(N, u, m + 1, y, K, IF y = x THEN None ELSE c)
    <3>0. PartlyKept(N, t, x, a, y, K, c)
      BY <1>6, <2>4, Zenon
    <3>1. PICK b : /\ IsFirst(N, t, m, y, K, IF y = x THEN None ELSE b)
                   /\ c = More(N, b, a, y, K)
      BY <1>3, <3>0, Zenon DEF PartlyKept
    <3>2. PICK e : e = IF y = x THEN None ELSE b
      OBVIOUS
    <3>3. IsFirst(N, t, m, y, K, e)
      BY <3>1, <3>2, Zenon
    <3>4. IsFirst(N, u, m + 1, y, K, More(N, e, u[m + 1], y, K))
      BY <1>5, <2>2, <3>3, FirstOfMore, Zenon
    <3>5. More(N, e, a, y, K) = IF y = x THEN None ELSE c
      BY <1>8, <3>1, <3>2, Zenon DEF More, Fits
    <3> QED BY <2>2, <3>4, <3>5, Zenon
  <2>5. FirstsKept(N, s, n + 1, x, u)
    BY <2>2, <2>4, ZenonT(60) DEF FirstsKept
  <2> QED BY <2>2, <2>3, <2>5, Zenon DEF Without
<1> QED BY <1>7, <1>8, Zenon

(* f keeps, of each number of entries, those of another name. *)
Sieve(N, s, x, f) ==
  /\ f[0] = <<>>
  /\ \A i \in 1 .. Len(s) : f[i] = IF N[s[i]].name = x THEN f[i - 1] ELSE Append(f[i - 1], s[i])

(* In the end all entries of the name are out. *)
LEMMA SieveWithout ==
  ASSUME NEW N, NEW T, None \notin T, NEW s \in Seq(T), NEW x, NEW f, Sieve(N, s, x, f)
  PROVE  Without(N, s, Len(s), x, T, f[Len(s)])
<1> DEFINE S == {i \in Nat : i <= Len(s) => Without(N, s, i, x, T, f[i])}
<1>1. PICK n \in Nat : n = Len(s) /\ \A i \in 1 .. n : s[i] \in T
  OBVIOUS
<1>2. 0 \in S
  <2>1. f[0] = <<>>
    BY Zenon DEF Sieve
  <2>2. f[0] \in Seq(T) /\ Len(f[0]) = 0
    BY <2>1
  <2>3. \A h \in 1 .. 0 : FALSE
    OBVIOUS
  <2>4. Among(f[0], s, 0)
    BY <2>2, <2>3, Zenon DEF Among
  <2>5. \A y, K, c : IsFirst(N, s, 0, y, K, c) => c = None
    BY <2>3, Zenon DEF IsFirst
  <2>6. \A y, K : IsFirst(N, f[0], 0, y, K, None)
    BY <2>3, Zenon DEF IsFirst
  <2>7. FirstsKept(N, s, 0, x, f[0])
    BY <2>2, <2>5, <2>6, Zenon DEF FirstsKept
  <2>8. Without(N, s, 0, x, T, f[0])
    BY <2>2, <2>4, <2>7, Zenon DEF Without
  <2> QED BY <2>8
<1>3. ASSUME NEW i \in Nat, i \in S PROVE i + 1 \in S
  <2> SUFFICES ASSUME i + 1 <= Len(s) PROVE Without(N, s, i + 1, x, T, f[i + 1])
    OBVIOUS
  <2>1. Without(N, s, i, x, T, f[i])
    BY <1>1, <1>3
  <2>2. i + 1 \in 1 .. Len(s) /\ (i + 1) - 1 = i /\ \A j \in 1 .. i + 1 : s[j] \in T
    BY <1>1
  <2>3. PICK u, t : u = f[i + 1] /\ t = f[i]
    OBVIOUS
  <2>4. u = IF N[s[i + 1]].name = x THEN t ELSE Append(t, s[i + 1])
    BY <2>2, <2>3, Zenon DEF Sieve
  <2>5. Without(N, s, i + 1, x, T, u)
    BY <2>1, <2>2, <2>3, <2>4, SieveStep, Zenon
  <2> QED BY <2>3, <2>5, Zenon
<1>4. Nat \subseteq S
  <2> HIDE DEF S
  <2> QED BY <1>2, <1>3, SetInduction, Zenon
<1>5. n <= Len(s)
  BY <1>1
<1> QED BY <1>1, <1>4, <1>5, Zenon
-----------------------------------------------------------------------------
(* In an empty root nothing is seen. *)
LEMMA EmptySeen ==
  ASSUME NEW M, TreeOK(M), Len(M[ROOT].entries) = 0
  PROVE  Seen(M) = {}
<1> SUFFICES ASSUME NEW e \in Seen(M) PROVE FALSE
  BY Zenon
<1>1. PICK p, k, f : p \in TreePaths /\ Leads(M, p, k, f) /\ f[Len(p)] # None
  BY SeenCells, Zenon
<1>2. Len(p) \in Nat /\ 1 \in 0 .. Len(p) /\ 1 \in 1 .. Len(p) /\ 1 - 1 = 0
  BY <1>1, TreePathsAre
<1>3. f[1] # None
  BY <1>1, <1>2, WayAlive, Zenon
<1>4. Enters(M, f[1 - 1], p[1], f[1])
  BY <1>1, <1>2, WayStep, Zenon
<1>5. f[0] = ROOT
  BY <1>1, Zenon DEF Leads
<1>6. EntryOf(M, f[1], ROOT)
  BY <1>2, <1>3, <1>4, <1>5, Zenon DEF Enters
<1>7. \A i \in 1 .. 0 : FALSE
  OBVIOUS
<1> QED BY <1>6, <1>7, Zenon DEF EntryOf

(* delete of the root empties it. *)
Cleared(N, M) == Fewer(N, M) /\ Len(M[ROOT].entries) = 0

(* All that was seen goes. *)
LEMMA ClearedSeen ==
  ASSUME NEW N, TreeOK(N), NEW M, Cleared(N, M)
  PROVE  TreeOK(M) /\ Goes(Seen(N), Seen(M))
<1>1. TreeOK(M)
  BY FewerOK, Zenon DEF Cleared
<1>2. Seen(M) = {}
  BY <1>1, EmptySeen, Zenon DEF Cleared
<1>3. \A e \in Seen(N) : IsPrefix(<<>>, e.path)
  BY SeenCells, EmptyPrefix, Zenon
<1>4. Seen(M) = {e \in Seen(N) : ~ IsPrefix(<<>>, e.path)}
  BY <1>2, <1>3, Zenon
<1> QED BY <1>1, <1>4, Zenon DEF Goes

(* Nothing else is seen to change when a file is written. *)
SameTree(N, M) ==
  Len(M) = Len(N) /\ NamesKept(N, M) /\ \A n \in 1 .. Len(N) : M[n].entries = N[n].entries

(* The same ways lead to the same entries. *)
LEMMA SameTreeSeen ==
  ASSUME NEW N, TreeOK(N), Walkable(N), NEW M, SameTree(N, M)
  PROVE  TreeOK(M) /\ Seen(M) = Seen(N)
<1>1. Fewer(N, M)
  BY Zenon DEF SameTree, Fewer, EntryOf, TreeOK
<1>2. TreeOK(M)
  BY <1>1, FewerOK, Zenon
<1>3. ASSUME NEW p \in TreePaths, NEW k \in Types, NEW f, Leads(N, p, k, f) PROVE Leads(M, p, k, f)
  <2>1. Len(p) \in Nat
    BY TreePathsAre
  <2>2. ASSUME NEW i \in 1 .. Len(p) PROVE IsChild(M, f[i - 1], p[i], Kinds(p, k, i), f[i])
    <3>1. f[i - 1] \in 0 .. Len(N) /\ IsChild(N, f[i - 1], p[i], Kinds(p, k, i), f[i])
      BY <1>3, <2>1, WayStep, Zenon
    <3>2. CASE f[i - 1] = None
      BY <3>1, <3>2, Zenon DEF IsChild
    <3>3. CASE f[i - 1] # None
      <4>1. f[i - 1] \in 1 .. Len(N)
        BY <3>1, <3>3 DEF None
      <4>2. M[f[i - 1]].entries = N[f[i - 1]].entries /\ NamesKept(N, M)
        BY <4>1, Zenon DEF SameTree
      <4> QED BY <3>1, <4>1, <4>2, SameChild, Zenon
    <3> QED BY <3>2, <3>3, Zenon
  <2> QED BY <1>3, <2>2, Zenon DEF Leads, SameTree
<1>4. ASSUME NEW p \in TreePaths, NEW k \in Types, NEW c
      PROVE  Cell(p, k, c) \in Seen(M) <=> Cell(p, k, c) \in Seen(N)
  <2>1. PICK f : Leads(N, p, k, f)
    BY Zenon DEF Walkable
  <2>2. Leads(M, p, k, f)
    BY <1>3, <2>1, Zenon
  <2>3. Cell(p, k, c) \in Seen(M) <=> c = f[Len(p)] /\ c # None
    BY <1>2, <2>2, SeenOnce, Zenon
  <2>4. Cell(p, k, c) \in Seen(N) <=> c = f[Len(p)] /\ c # None
    BY <2>1, SeenOnce, Zenon
  <2> QED BY <2>3, <2>4, Zenon
<1>5. SameCells(Seen(M), Seen(N))
  BY <1>4, Zenon DEF SameCells
<1> QED BY <1>2, <1>5, SeenAllCells, CellsSame, Zenon
-----------------------------------------------------------------------------
NodeType ==
  [name : Seq(Letters), kind : {"dir", "file"}, entries : Seq(Nat \ {0}), data : Seq(Bytes)]

(* The entries of a directory are directories and files that were made. *)
NodesOK ==
  /\ node \in Seq(NodeType) /\ Len(node) >= 1
  /\ \A d \in 1 .. Len(node) : \A i \in 1 .. Len(node[d].entries) :
       node[d].entries[i] \in 1 .. Len(node)

(* Child finds an entry where there is one. *)
LEMMA ChildFound ==
  ASSUME NodesOK, NEW d \in 0 .. Len(node), NEW part, NEW kinds
  PROVE  /\ Child(d, part, kinds) \in 0 .. Len(node)
         /\ Child(d, part, kinds) # None <=>
              /\ d # None
              /\ \E i \in 1 .. Len(node[d].entries) :
                   name(node[d].entries[i]) = part /\ kind(node[d].entries[i]) \in kinds
<1>0. Len(node) \in Nat /\ 0 \in 0 .. Len(node)
  BY DEF NodesOK
<1>1. CASE d = 0
  BY <1>0, <1>1, Zenon DEF Child, None
<1>2. CASE d # 0
  <2>1. d \in 1 .. Len(node) /\ node[d] \in NodeType
    BY <1>0, <1>2 DEF NodesOK
  <2>2. PICK s : s = node[d].entries
    OBVIOUS
  <2>3. s \in Seq(Nat \ {0}) /\ DOMAIN s = 1 .. Len(s) /\ Len(s) \in Nat
    BY <2>1, <2>2 DEF NodeType
  <2>4. \A i \in 1 .. Len(s) : s[i] \in 1 .. Len(node)
    BY <2>1, <2>2, Zenon DEF NodesOK
  <2> DEFINE hits == {i \in DOMAIN s : name(s[i]) = part /\ kind(s[i]) \in kinds}
  <2>5. Child(d, part, kinds) = IF hits = {} THEN 0 ELSE s[Min(hits)]
    BY <1>2, <2>2, Zenon DEF Child, None
  <2>6. hits \in SUBSET Nat /\ hits \subseteq 1 .. Len(s)
    BY <2>3
  <2>7. hits # {} <=> \E i \in 1 .. Len(s) : name(s[i]) = part /\ kind(s[i]) \in kinds
    BY <2>3, Zenon
  <2> HIDE DEF hits
  <2>8. CASE hits = {}
    BY <1>0, <1>2, <2>2, <2>5, <2>7, <2>8, Zenon DEF None
  <2>9. CASE hits # {}
    <3>1. Min(hits) \in 1 .. Len(s)
      BY <2>6, <2>9, LeastOf, Zenon
    <3>2. Child(d, part, kinds) \in 1 .. Len(node)
      BY <2>4, <2>5, <2>9, <3>1, Zenon
    <3> QED BY <1>0, <1>2, <2>2, <2>7, <2>9, <3>2 DEF None
  <2> QED BY <2>8, <2>9, Zenon
<1> QED BY <1>1, <1>2, Zenon

(* find_dir goes from directory to directory. *)
LEMMA WalkIs ==
  ASSUME NodesOK, NEW p, NEW P, p \in Seq(P)
  PROVE  /\ Len(p) \in Nat
         /\ Walk(p) \in [0 .. Len(p) -> 0 .. Len(node)]
         /\ Walk(p)[0] = ROOT
         /\ \A i \in 1 .. Len(p) : Walk(p)[i] = Child(Walk(p)[i - 1], p[i], {"dir"})
<1> DEFINE end == Len(p)
           Found == 0 .. Len(node)
           g == [id \in (1 .. end) \X Found |-> Child(id[2], p[id[1]], {"dir"})]
           F(h) == [i \in 0 .. end |-> IF i = 0 THEN ROOT ELSE Child(h[i - 1], p[i], {"dir"})]
<1>1. end \in Nat /\ ROOT \in Found
  BY DEF NodesOK, ROOT
<1>2. g \in [(1 .. end) \X Found -> Found]
  <2>1. ASSUME NEW id \in (1 .. end) \X Found PROVE Child(id[2], p[id[1]], {"dir"}) \in Found
    BY ChildFound, Zenon
  <2> QED BY <2>1, Zenon
<1>3. PICK f \in [0 .. end -> Found] : f[0] = ROOT /\ \A i \in 1 .. end : f[i] = g[<<i, f[i - 1]>>]
  <2> HIDE DEF end, Found, g
  <2>1. Steps(end, Found, ROOT, g)
    BY <1>1, <1>2, Zenon DEF Steps
  <2>2. PICK f : Follows(f, end, Found, ROOT, g)
    BY <2>1, RecursionExists, Zenon
  <2> QED BY <2>2, Zenon DEF Follows
<1>4. \A i \in 1 .. end : f[i] = Child(f[i - 1], p[i], {"dir"})
  <2> SUFFICES ASSUME NEW i \in 1 .. end PROVE f[i] = Child(f[i - 1], p[i], {"dir"})
    OBVIOUS
  <2>1. <<i, f[i - 1]>> \in (1 .. end) \X Found
    <3>1. i - 1 \in 0 .. end
      BY <1>1
    <3> HIDE DEF end, Found
    <3> QED BY <3>1, Zenon
  <2>2. g[<<i, f[i - 1]>>] = Child(f[i - 1], p[i], {"dir"})
    BY <2>1, Zenon
  <2> QED BY <1>3, <2>2, Zenon
<1>5. f = F(f)
  BY <1>1, <1>3, <1>4
<1>6. Walk(p) = CHOOSE h : h = F(h)
  BY Zenon DEF Walk
<1>7. Walk(p) = F(Walk(p))
  <2> HIDE DEF F
  <2> QED BY <1>5, <1>6, Zenon
<1>8. PICK w : w = Walk(p)
  OBVIOUS
<1>9. w = F(w)
  BY <1>7, <1>8, Zenon
<1>10. w[0] = ROOT /\ \A i \in 1 .. end : w[i] = Child(w[i - 1], p[i], {"dir"})
  BY <1>1, <1>9
<1>11. \A i \in 0 .. end : w[i] = f[i]
  <2> HIDE DEF end, F, Found
  <2>1. \A i \in 1 .. end : w[i - 1] = f[i - 1] => w[i] = f[i]
    BY <1>4, <1>10, Zenon
  <2>2. GoAlike(end, w, f)
    BY <1>1, <1>3, <1>10, <2>1, Zenon DEF GoAlike
  <2>3. Alike(end, w, f)
    BY <2>2, AlikeUpTo, Zenon
  <2> QED BY <2>3, Zenon DEF Alike
<1>12. w \in [0 .. end -> Found]
  <2>1. \A i \in 0 .. end : w[i] \in Found
    BY <1>3, <1>11, Zenon
  <2>2. w = [i \in 0 .. end |-> w[i]]
    BY <1>9, Zenon
  <2> HIDE DEF end, F, Found
  <2> QED BY <2>1, <2>2, Zenon
<1> QED BY <1>1, <1>8, <1>10, <1>12, Zenon

(* What find_dir finds is a node, and is found in the directory above. *)
LEMMA FindDirLast ==
  ASSUME NodesOK, NEW q, NEW P, q \in Seq(P)
  PROVE  /\ find_dir(q) \in 0 .. Len(node)
         /\ q = <<>> => find_dir(q) = ROOT
         /\ q # <<>> => find_dir(q) = Child(find_dir(Front(q)), Last(q), {"dir"})
<1>1. PICK n : n = Len(q)
  OBVIOUS
<1>2. /\ n \in Nat
      /\ Walk(q) \in [0 .. n -> 0 .. Len(node)] /\ Walk(q)[0] = ROOT
      /\ \A i \in 1 .. n : Walk(q)[i] = Child(Walk(q)[i - 1], q[i], {"dir"})
  BY <1>1, WalkIs, Zenon
<1>3. find_dir(q) \in 0 .. Len(node)
  BY <1>1, <1>2 DEF find_dir
<1>4. q = <<>> => find_dir(q) = ROOT
  BY <1>1, <1>2, Zenon DEF find_dir
<1>5. ASSUME q # <<>> PROVE find_dir(q) = Child(find_dir(Front(q)), Last(q), {"dir"})
  <2>1. n \in Nat \ {0} /\ n - 1 \in Nat
    BY <1>1, <1>5
  <2>2. PICK f : f = Front(q)
    OBVIOUS
  <2>3. f \in Seq(P) /\ Len(f) = n - 1 /\ \A i \in 1 .. n - 1 : f[i] = q[i]
    BY <1>1, <2>1, <2>2 DEF Front
  <2>4. /\ Walk(f)[0] = ROOT
        /\ \A i \in 1 .. n - 1 : Walk(f)[i] = Child(Walk(f)[i - 1], f[i], {"dir"})
    BY <2>3, WalkIs, Zenon
  <2>5. PICK w, v : w = Walk(q) /\ v = Walk(f)
    OBVIOUS
  <2>6. \A i \in 1 .. n - 1 : w[i - 1] = v[i - 1] => w[i] = v[i]
    <3>1. \A i \in 1 .. n - 1 : i \in 1 .. n
      BY <2>1
    <3> QED BY <1>2, <2>3, <2>4, <2>5, <3>1, Zenon
  <2>7. GoAlike(n - 1, w, v)
    BY <1>2, <2>1, <2>4, <2>5, <2>6, Zenon DEF GoAlike
  <2>8. w[n - 1] = v[n - 1]
    <3>1. Alike(n - 1, w, v)
      BY <2>7, AlikeUpTo, Zenon
    <3> QED BY <2>1, <3>1 DEF Alike
  <2>9. find_dir(q) = Child(w[n - 1], q[n], {"dir"})
    BY <1>1, <1>2, <2>1, <2>5 DEF find_dir
  <2>10. find_dir(Front(q)) = v[n - 1] /\ Last(q) = q[n]
    BY <1>1, <2>2, <2>3, <2>5, Zenon DEF find_dir, Last
  <2> QED BY <2>8, <2>9, <2>10, Zenon
<1> QED BY <1>3, <1>4, <1>5, Zenon

(* The directory of an absolute path is found from its parent. *)
LEMMA DirOfPath ==
  ASSUME NodesOK, NEW p, p \in Seq(Seq(Letters)), has_root(p), p[2] # Empty
  PROVE  /\ DirBySplit(p) = find_dir(Front(Tail(p)))
         /\ DirByRelative(p) = find_dir(Front(Tail(p)))
<1>1. /\ Len(p) \in Nat /\ Len(p) >= 2
      /\ Len(p) = 2 => parent(p) = root
      /\ Len(p) > 2 => parent(p) = Front(p) /\ has_root(Front(p))
  BY ParentIs, Zenon
<1>2. /\ Len(p) = 2 => Front(Tail(p)) = <<>>
      /\ Len(p) > 2 => Front(Tail(p)) = Tail(Front(p))
  BY <1>1, TailIs, Zenon
<1>3. CASE Len(p) = 2
  <2>1. is_root(parent(p))
    BY <1>1, <1>3, Zenon DEF is_root
  <2>2. <<>> \in Seq(Seq(Letters))
    OBVIOUS
  <2>3. find_dir(<<>>) = ROOT
    BY <2>2, FindDirLast, Zenon
  <2> QED BY <1>2, <1>3, <2>1, <2>3, Zenon DEF DirBySplit, DirByRelative
<1>4. CASE Len(p) > 2
  <2>1. PICK n : n = Len(p) /\ n \in Nat /\ n > 2
    BY <1>1, <1>4, Zenon
  <2>2. PICK f : f = Front(p)
    OBVIOUS
  <2>3. f \in Seq(Seq(Letters)) /\ f[2] = p[2]
    <3>1. f \in Seq(Seq(Letters)) /\ \A i \in 1 .. n - 1 : f[i] = p[i]
      BY <1>1, <2>1, <2>2, FrontIs
    <3>2. 2 \in 1 .. n - 1
      BY <2>1
    <3> QED BY <3>1, <3>2, Zenon
  <2>4. ~ is_root(f)
    BY <2>3 DEF is_root, root
  <2>5. split_from_top(f)[2] = Tail(f) /\ relative_to(f, root) = Tail(f)
    BY <1>1, <1>4, <2>2, <2>3, WithoutRoot, Zenon
  <2> QED BY <1>1, <1>2, <1>4, <2>2, <2>4, <2>5, Zenon DEF DirBySplit, DirByRelative
<1>5. Len(p) = 2 \/ Len(p) > 2
  <2>1. \A n \in Nat : n >= 2 => n = 2 \/ n > 2
    OBVIOUS
  <2> QED BY <1>1, <2>1, Zenon
<1> QED BY <1>3, <1>4, <1>5, Zenon

(* In a tree that is well formed all ways to a path lead to one entry. *)
LEMMA SameEntry ==
  ASSUME NodesOK, Paths \subseteq Seq(Seq(Letters)) \ {<<>>}
  PROVE  LookupsAgree
<1> SUFFICES ASSUME NEW p \in Paths, has_root(p), p[2] # Empty
    PROVE  /\ DirBySplit(p) = DirByRelative(p)
           /\ exists(p) <=> find_file(split_from_top(p)[2]) # None \/ DirOpened(p) # None
  BY Zenon DEF LookupsAgree
<1>1. p \in Seq(Seq(Letters))
  OBVIOUS
<1>2. PICK q, d, l : q = Tail(p) /\ d = find_dir(Front(Tail(p))) /\ l = Last(p)
  BY Zenon
<1>3. DirBySplit(p) = d /\ DirByRelative(p) = d
  BY <1>1, <1>2, DirOfPath, Zenon
<1>4. split_from_top(p)[2] = q /\ relative_to(p, root) = q
  BY <1>1, <1>2, WithoutRoot, Zenon
<1>5. Len(p) \in Nat /\ Len(p) >= 2
  BY <1>1, ParentIs, Zenon
<1>6. q \in Seq(Seq(Letters)) /\ q # <<>> /\ Last(q) = l
  BY <1>1, <1>2, <1>5, TailIs, Zenon
<1>7. Len(q) >= 1
  BY <1>6
<1>8. Front(q) \in Seq(Seq(Letters))
  BY <1>6, <1>7, FrontIs, Zenon
<1>9. d \in 0 .. Len(node)
  BY <1>2, <1>8, FindDirLast, Zenon
<1>10. ~ is_root(p)
  BY DEF is_root, root
<1>11. DirOpened(p) = Child(d, l, {"dir"})
  <2>1. find_dir(q) = Child(find_dir(Front(q)), Last(q), {"dir"})
    BY <1>6, FindDirLast, Zenon
  <2> QED BY <1>2, <1>4, <1>6, <1>10, <2>1, Zenon DEF DirOpened
<1>12. find_file(q) = Child(d, l, {"file"})
  BY <1>2, <1>6, Zenon DEF find_file
<1>13. exists(p) <=> Child(d, l, {"dir", "file"}) # None
  BY <1>2, <1>3, <1>10, Zenon DEF exists
<1>14. ASSUME NEW kinds
       PROVE  Child(d, l, kinds) # None <=>
                /\ d # None
                /\ \E i \in 1 .. Len(node[d].entries) :
                     name(node[d].entries[i]) = l /\ kind(node[d].entries[i]) \in kinds
  BY <1>9, ChildFound, Zenon
<1>15. Child(d, l, {"dir", "file"}) # None <=>
         Child(d, l, {"file"}) # None \/ Child(d, l, {"dir"}) # None
  BY <1>14, Zenon
<1> QED BY <1>3, <1>4, <1>11, <1>12, <1>13, <1>15, Zenon

(* Whatever absolute path it is given, a lookup finds a node or nothing. *)
LEMMA LookupFinds ==
  ASSUME NodesOK, NEW p, p \in Seq(Seq(Letters)), has_root(p)
  PROVE  /\ DirBySplit(p) \in 0 .. Len(node)
         /\ DirByRelative(p) \in 0 .. Len(node)
         /\ DirOpened(p) \in 0 .. Len(node)
         /\ find_file(split_from_top(p)[2]) \in 0 .. Len(node)
<1>1. /\ Len(p) \in Nat /\ Len(p) >= 2
      /\ Len(p) = 2 => parent(p) = root
      /\ Len(p) > 2 => parent(p) = Front(p) /\ has_root(Front(p))
  BY ParentIs, Zenon
<1>2. ROOT \in 0 .. Len(node)
  BY DEF ROOT, NodesOK
<1>3. ASSUME NEW q, q \in Seq(Seq(Letters)), has_root(q)
      PROVE  /\ find_dir(split_from_top(q)[2]) \in 0 .. Len(node)
             /\ find_dir(relative_to(q, root)) \in 0 .. Len(node)
  <2>1. split_from_top(q)[2] = Tail(q) /\ relative_to(q, root) = strip_slash(Tail(q))
    BY <1>3, WithoutSlash, Zenon
  <2>2. q # <<>> /\ Len(q) >= 2
    BY <1>3, ParentIs, Zenon
  <2>3. Tail(q) \in Seq(Seq(Letters)) /\ Tail(q) # <<>>
    BY <1>3, <2>2, TailIs, Zenon
  <2>4. Tail(Tail(q)) \in Seq(Seq(Letters))
    BY <2>3, HeadTailProperties, Zenon
  <2>5. strip_slash(Tail(q)) \in Seq(Seq(Letters))
    BY <2>3, <2>4, Zenon DEF strip_slash
  <2> QED BY <2>1, <2>3, <2>5, FindDirLast, Zenon
<1>4. DirOpened(p) \in 0 .. Len(node)
  BY <1>2, <1>3, Zenon DEF DirOpened
<1>5. find_file(split_from_top(p)[2]) \in 0 .. Len(node)
  <2>1. PICK q : q = split_from_top(p)[2]
    OBVIOUS
  <2>2. q = Tail(p)
    BY <2>1, WithoutSlash, Zenon
  <2>3. q \in Seq(Seq(Letters)) /\ q # <<>>
    BY <1>1, <2>2, TailIs, Zenon
  <2>4. Len(q) >= 1
    BY <2>3
  <2>5. Front(q) \in Seq(Seq(Letters))
    BY <2>3, <2>4, FrontIs, Zenon
  <2>6. find_dir(Front(q)) \in 0 .. Len(node)
    BY <2>5, FindDirLast, Zenon
  <2>7. find_file(q) \in 0 .. Len(node)
    BY <2>6, ChildFound, Zenon DEF find_file
  <2> QED BY <2>1, <2>7, Zenon
<1>6. DirBySplit(p) \in 0 .. Len(node) /\ DirByRelative(p) \in 0 .. Len(node)
  <2>1. CASE Len(p) = 2
    <3>1. is_root(parent(p))
      BY <1>1, <2>1, Zenon DEF is_root
    <3> QED BY <1>2, <3>1, Zenon DEF DirBySplit, DirByRelative
  <2>2. CASE Len(p) > 2
    <3>1. Front(p) \in Seq(Seq(Letters))
      BY <1>1, FrontIs
    <3>2. /\ find_dir(split_from_top(Front(p))[2]) \in 0 .. Len(node)
          /\ find_dir(relative_to(Front(p), root)) \in 0 .. Len(node)
      BY <1>1, <1>3, <2>2, <3>1, Zenon
    <3> QED BY <1>1, <1>2, <2>2, <3>2, Zenon DEF DirBySplit, DirByRelative
  <2>3. Len(p) = 2 \/ Len(p) > 2
    <3>1. \A n \in Nat : n >= 2 => n = 2 \/ n > 2
      OBVIOUS
    <3> QED BY <1>1, <3>1, Zenon
  <2> QED BY <2>1, <2>2, <2>3, Zenon
<1> QED BY <1>4, <1>5, <1>6, Zenon
-----------------------------------------------------------------------------
(* delete keeps the entries of other names, in their order. *)
LEMMA KeptIs ==
  ASSUME NodesOK, NEW d \in 1 .. Len(node), NEW x
  PROVE  Without(node, node[d].entries, Len(node[d].entries), x, 1 .. Len(node), Kept(d, x))
<1>1. PICK s : s = node[d].entries
  OBVIOUS
<1>2. node[d] \in NodeType
  BY DEF NodesOK
<1>3. s \in Seq(Nat \ {0}) /\ \A i \in 1 .. Len(s) : s[i] \in 1 .. Len(node)
  BY <1>1, <1>2, Zenon DEF NodesOK, NodeType
<1> DEFINE n == Len(s)
           T == Seq(1 .. Len(node))
           After(y, i) == IF name(s[i]) = x THEN y ELSE Append(y, s[i])
           g == [id \in (1 .. n) \X T |-> After(id[2], id[1])]
           F(h) == [i \in 0 .. n |-> IF i = 0 THEN <<>> ELSE After(h[i - 1], i)]
<1>4. n \in Nat /\ <<>> \in T
  BY <1>3
<1>5. g \in [(1 .. n) \X T -> T]
  <2>1. ASSUME NEW id \in (1 .. n) \X T PROVE After(id[2], id[1]) \in T
    <3>1. id[2] \in T /\ Append(id[2], s[id[1]]) \in T
      BY <1>3
    <3> QED BY <3>1, Zenon
  <2> HIDE DEF After
  <2> QED BY <2>1, Zenon
<1>6. PICK f \in [0 .. n -> T] : f[0] = <<>> /\ \A i \in 1 .. n : f[i] = g[<<i, f[i - 1]>>]
  <2> HIDE DEF n, T, g
  <2>1. Steps(n, T, <<>>, g)
    BY <1>4, <1>5, Zenon DEF Steps
  <2>2. PICK f : Follows(f, n, T, <<>>, g)
    BY <2>1, RecursionExists, Zenon
  <2> QED BY <2>2, Zenon DEF Follows
<1>7. \A i \in 1 .. n : f[i] = After(f[i - 1], i)
  <2> SUFFICES ASSUME NEW i \in 1 .. n
      PROVE  f[i] = After(f[i - 1], i)
    OBVIOUS
  <2>1. <<i, f[i - 1]>> \in (1 .. n) \X T
    <3>1. i - 1 \in 0 .. n
      BY <1>4
    <3> HIDE DEF n, T
    <3> QED BY <3>1, Zenon
  <2>2. g[<<i, f[i - 1]>>] = After(f[i - 1], i)
    BY <2>1, Zenon
  <2> QED BY <1>6, <2>2, Zenon
<1>8. f = F(f)
  <2> HIDE DEF After
  <2> QED BY <1>4, <1>6, <1>7
<1>9. Kept(d, x) = (CHOOSE h : h = F(h))[n]
  BY <1>1, Zenon DEF Kept
<1> HIDE DEF After
<1>10. PICK w : w = CHOOSE h : h = F(h)
  OBVIOUS
<1>11. w = F(w)
  <2> HIDE DEF F
  <2> QED BY <1>8, <1>10, Zenon
<1>12. /\ w[0] = <<>>
       /\ \A i \in 1 .. n : w[i] = After(w[i - 1], i)
  BY <1>4, <1>11
<1>13. Sieve(node, s, x, w)
  BY <1>12, Zenon DEF Sieve, After, name
<1>14. None \notin 1 .. Len(node) /\ s \in Seq(1 .. Len(node))
  BY <1>3 DEF None
<1>15. Without(node, s, n, x, 1 .. Len(node), w[n])
  BY <1>13, <1>14, SieveWithout, Zenon
<1> QED BY <1>1, <1>9, <1>10, <1>15, Zenon

(* A sequence with another value at one place *)
Updated(t, s, i, e) == t = [s EXCEPT ![i] = e]

(* It is a sequence of the same length. *)
LEMMA UpdatedSeq ==
  ASSUME NEW S, NEW s \in Seq(S), NEW i \in 1 .. Len(s), NEW e \in S, NEW t, Updated(t, s, i, e)
  PROVE  /\ t \in Seq(S) /\ Len(t) = Len(s)
         /\ \A j \in 1 .. Len(s) : t[j] = IF j = i THEN e ELSE s[j]
BY ExceptSeq DEF Updated

(* Other entries in one directory leave the rest of the tree as it is. *)
WithEntries(t, d, e) == t = [node EXCEPT ![d].entries = e]

(* t differs from the nodes in the entries of d only. *)
OnlyEntries(t, d, e) ==
  /\ t \in Seq(NodeType) /\ Len(t) = Len(node)
  /\ t[d].entries = e
  /\ \A n \in 1 .. Len(node) : n # d => t[n] = node[n]
  /\ \A n \in 1 .. Len(node) : t[n].data = node[n].data
  /\ NamesKept(node, t)

(* The tree with these entries has the same files. *)
LEMMA EntriesSet ==
  ASSUME NodesOK, NEW d \in 1 .. Len(node), NEW e \in Seq(Nat \ {0}), NEW t, WithEntries(t, d, e)
  PROVE  OnlyEntries(t, d, e)
<1>1. node \in Seq(NodeType) /\ node[d] \in NodeType /\ Len(node) \in Nat
  BY DEF NodesOK
<1>2. PICK r : r = [node[d] EXCEPT !.entries = e]
  BY Zenon
<1>3. /\ r \in NodeType /\ r.entries = e /\ r.data = node[d].data
      /\ r.name = node[d].name /\ r.kind = node[d].kind
  BY <1>1, <1>2, Zenon DEF NodeType
<1>4. t = [node EXCEPT ![d] = r]
  BY <1>2, Zenon DEF WithEntries
<1>5. /\ t \in Seq(NodeType) /\ Len(t) = Len(node)
      /\ \A j \in 1 .. Len(node) : t[j] = IF j = d THEN r ELSE node[j]
  <2>1. Updated(t, node, d, r)
    BY <1>4, Zenon DEF Updated
  <2> QED BY <1>1, <1>3, <2>1, UpdatedSeq
<1>6. NamesKept(node, t)
  <2>1. Len(node) <= Len(node)
    BY <1>1
  <2>2. Len(node) <= Len(t)
    BY <1>5, <2>1, Zenon
  <2> QED BY <1>3, <1>5, <2>2, Zenon DEF NamesKept
<1> QED BY <1>3, <1>5, <1>6, Zenon DEF OnlyEntries

(* A new entry in a directory *)
LEMMA LinkedOK ==
  ASSUME NodesOK, NEW d \in 1 .. Len(node), NEW as \in Seq(Letters), NEW type \in {"dir", "file"},
         node' = Linked(d, as, type)
  PROVE  /\ NodesOK' /\ Len(node') = Len(node) + 1 /\ node'[Len(node) + 1].data = <<>>
         /\ \A n \in 1 .. Len(node) : node'[n].data = node[n].data
         /\ Grown(node, node', d, as, type)
<1>1. node \in Seq(NodeType) /\ node[d] \in NodeType /\ Len(node) \in Nat /\ Len(node) >= 1
  BY DEF NodesOK
<1>2. PICK m : m = Len(node) + 1 /\ m \in Nat \ {0}
  BY <1>1
<1>3. PICK e : e = Append(node[d].entries, m)
  BY Zenon
<1>4. PICK t : t = [node EXCEPT ![d].entries = e]
  BY Zenon
<1>5. PICK new : new = [name |-> as, kind |-> type, entries |-> <<>>, data |-> <<>>]
  BY Zenon
<1>6. /\ new \in NodeType /\ new.entries = <<>> /\ new.data = <<>>
      /\ new.name = as /\ new.kind = type
  <2>1. \A x \in Seq(Nat \ {0}), y \in Seq(Bytes) :
          /\ [name |-> as, kind |-> type, entries |-> x, data |-> y] \in NodeType
          /\ [name |-> as, kind |-> type, entries |-> x, data |-> y].entries = x
          /\ [name |-> as, kind |-> type, entries |-> x, data |-> y].data = y
          /\ [name |-> as, kind |-> type, entries |-> x, data |-> y].name = as
          /\ [name |-> as, kind |-> type, entries |-> x, data |-> y].kind = type
    BY Zenon DEF NodeType
  <2>2. <<>> \in Seq(Nat \ {0}) /\ <<>> \in Seq(Bytes)
    OBVIOUS
  <2> QED BY <1>5, <2>1, <2>2, Zenon
<1>7. node' = Append(t, new)
  BY <1>2, <1>3, <1>4, <1>5, Zenon DEF Linked
<1>8. node[d].entries \in Seq(Nat \ {0})
  BY <1>1, Zenon DEF NodeType
<1>9. \A i \in 1 .. Len(node[d].entries) : node[d].entries[i] \in 1 .. Len(node)
  BY Zenon DEF NodesOK
<1>10. e \in Seq(Nat \ {0}) /\ \A i \in 1 .. Len(e) : e[i] \in 1 .. m
  BY <1>1, <1>2, <1>3, <1>8, <1>9
<1>11. /\ t \in Seq(NodeType) /\ Len(t) = Len(node)
       /\ t[d].entries = e
       /\ \A n \in 1 .. Len(node) : n # d => t[n] = node[n]
       /\ \A n \in 1 .. Len(node) : t[n].data = node[n].data
       /\ NamesKept(node, t)
  <2>1. WithEntries(t, d, e)
    BY <1>4, Zenon DEF WithEntries
  <2>2. OnlyEntries(t, d, e)
    BY <1>10, <2>1, EntriesSet, Zenon
  <2> QED BY <2>2, Zenon DEF OnlyEntries
<1>12. /\ node' \in Seq(NodeType) /\ Len(node') = m /\ node'[m] = new
       /\ \A n \in 1 .. Len(node) : node'[n] = t[n]
  BY <1>2, <1>6, <1>7, <1>11, AppendProperties
<1>13. ASSUME NEW n \in 1 .. m, NEW i \in 1 .. Len(node'[n].entries)
       PROVE  node'[n].entries[i] \in 1 .. m
  <2>1. CASE n = m
    BY <1>6, <1>12, <2>1
  <2>2. CASE n = d
    BY <1>10, <1>11, <1>12, <2>2, Zenon
  <2>3. CASE n \in 1 .. Len(node) /\ n # d
    <3>1. node'[n] = node[n]
      BY <1>11, <1>12, <2>3, Zenon
    <3>2. node[n].entries[i] \in 1 .. Len(node)
      BY <2>3, <3>1, Zenon DEF NodesOK
    <3> QED BY <1>1, <1>2, <3>1, <3>2
  <2>4. n = m \/ n \in 1 .. Len(node)
    BY <1>1, <1>2
  <2> QED BY <2>1, <2>2, <2>3, <2>4, Zenon
<1>14. NodesOK'
  <2>1. m >= 1
    BY <1>2
  <2> QED BY <1>12, <1>13, <2>1, Zenon DEF NodesOK
<1>15. Grown(node, node', d, as, type)
  <2>1. PICK s, l : s = node[d].entries /\ l = Len(s)
    BY SMTT(30)
  <2>2. Len(e) = l + 1 /\ e[l + 1] = m /\ \A i \in 1 .. l : e[i] = s[i]
    BY <1>2, <1>3, <1>8, <2>1, AppendProperties
  <2>3. NamesKept(node, node')
    <3>1. Len(node) <= m
      BY <1>1, <1>2
    <3> QED BY <1>11, <1>12, <3>1, Zenon DEF NamesKept
  <2>4. node'[d].entries = e /\ \A n \in 1 .. Len(node) : n # d => node'[n].entries = node[n].entries
    BY <1>11, <1>12, Zenon
  <2>5. Len(node'[m].entries) = 0
    BY <1>6, <1>12
  <2> QED BY <1>2, <1>6, <1>12, <2>1, <2>2, <2>3, <2>4, <2>5, Zenon DEF Grown
<1> QED BY <1>2, <1>6, <1>11, <1>12, <1>14, <1>15, Zenon

(* Fewer entries in a directory *)
LEMMA UnlinkedOK ==
  ASSUME NodesOK, NEW d \in 1 .. Len(node), NEW e \in Seq(1 .. Len(node)),
         node' = [node EXCEPT ![d].entries = e]
  PROVE  /\ NodesOK' /\ Len(node') = Len(node)
         /\ \A n \in 1 .. Len(node) : node'[n].data = node[n].data
         /\ OnlyEntries(node', d, e)
<1>1. Len(node) \in Nat /\ Len(node) >= 1
  BY DEF NodesOK
<1>2. e \in Seq(Nat \ {0}) /\ \A i \in 1 .. Len(e) : e[i] \in 1 .. Len(node)
  <2>1. 1 .. Len(node) \subseteq Nat \ {0}
    BY <1>1
  <2>2. e \in Seq(Nat \ {0})
    BY <2>1, SeqMonotonic, Zenon
  <2> QED BY <2>2, ElementOfSeq, Zenon
<1>3. PICK t : t = node'
  OBVIOUS
<1>4. /\ t \in Seq(NodeType) /\ Len(t) = Len(node)
      /\ t[d].entries = e
      /\ \A n \in 1 .. Len(node) : n # d => t[n] = node[n]
      /\ \A n \in 1 .. Len(node) : t[n].data = node[n].data
      /\ OnlyEntries(t, d, e)
  <2>1. WithEntries(t, d, e)
    BY <1>3, Zenon DEF WithEntries
  <2>2. OnlyEntries(t, d, e)
    BY <1>2, <2>1, EntriesSet, Zenon
  <2> QED BY <2>2, Zenon DEF OnlyEntries
<1>5. ASSUME NEW n \in 1 .. Len(node), NEW i \in 1 .. Len(t[n].entries)
      PROVE  t[n].entries[i] \in 1 .. Len(node)
  BY <1>2, <1>4, <1>5, Zenon DEF NodesOK
<1>6. NodesOK'
  BY <1>1, <1>3, <1>4, <1>5, Zenon DEF NodesOK
<1> QED BY <1>3, <1>4, <1>6, Zenon

(* Two pieces of data, one after the other *)
LEMMA JoinedIs ==
  \A a, b \in Seq(Bytes) : a \o b \in Seq(Bytes) /\ Len(a \o b) = Len(a) + Len(b)
  BY ConcatProperties, Zenon

(* write inserts the buffer. *)
LEMMA InsertedIs ==
  ASSUME NEW s \in Seq(Bytes), NEW pos \in Nat, pos <= Len(s), NEW buf \in Seq(Bytes)
  PROVE  Inserted(s, pos, buf) \in Seq(Bytes) /\ Len(Inserted(s, pos, buf)) = Len(s) + Len(buf)
<1>1. PICK n : n = Len(s) /\ n \in Nat
  OBVIOUS
<1>2. PICK l : l = SubSeq(s, 1, pos)
  BY Zenon
<1>3. PICK r : r = SubSeq(s, pos + 1, n)
  BY Zenon
<1>4. l \in Seq(Bytes) /\ Len(l) = pos
  BY <1>1, <1>2
<1>5. r \in Seq(Bytes) /\ Len(r) = n - pos
  <2>1. \A i \in pos + 1 .. n : s[i] \in Bytes
    BY <1>1
  <2>2. pos + 1 \in Int /\ n \in Int
    BY <1>1
  <2>3. /\ r \in Seq(Bytes)
        /\ Len(r) = IF pos + 1 <= n THEN n - (pos + 1) + 1 ELSE 0
    BY <1>3, <2>1, <2>2, SubSeqProperties
  <2> QED BY <1>1, <2>3
<1>6. l \o buf \in Seq(Bytes) /\ Len(l \o buf) = pos + Len(buf)
  BY <1>4, ConcatProperties, Zenon
<1>7. (l \o buf) \o r \in Seq(Bytes) /\ Len((l \o buf) \o r) = (pos + Len(buf)) + (n - pos)
  <2>1. PICK m : m = l \o buf
    BY Zenon
  <2>2. m \in Seq(Bytes) /\ Len(m) = pos + Len(buf)
    BY <1>6, <2>1, Zenon
  <2>3. m \o r \in Seq(Bytes) /\ Len(m \o r) = Len(m) + Len(r)
    BY <1>5, <2>2, JoinedIs, Zenon
  <2> QED BY <1>5, <2>1, <2>2, <2>3, Zenon
<1>8. Inserted(s, pos, buf) = (l \o buf) \o r
  BY <1>1, <1>2, <1>3, Zenon DEF Inserted
<1>9. (pos + Len(buf)) + (n - pos) = n + Len(buf)
  BY <1>1
<1> QED BY <1>1, <1>7, <1>8, <1>9, Zenon

(* Other data in one file *)
LEMMA WrittenOK ==
  ASSUME NodesOK, NEW f \in 1 .. Len(node), NEW b \in Seq(Bytes),
         node' = [node EXCEPT ![f].data = b]
  PROVE  /\ NodesOK' /\ Len(node') = Len(node) /\ node'[f].data = b
         /\ \A n \in 1 .. Len(node) : n # f => node'[n] = node[n]
         /\ SameTree(node, node')
<1>1. node \in Seq(NodeType) /\ node[f] \in NodeType /\ Len(node) \in Nat /\ Len(node) >= 1
  BY DEF NodesOK
<1>2. PICK r : r = [node[f] EXCEPT !.data = b]
  OBVIOUS
<1>3. /\ r \in NodeType /\ r.data = b /\ r.entries = node[f].entries
      /\ r.name = node[f].name /\ r.kind = node[f].kind
  BY <1>1, <1>2, Zenon DEF NodeType
<1>4. PICK t : t = node'
  OBVIOUS
<1>5. Updated(t, node, f, r)
  BY <1>2, <1>4, Zenon DEF Updated
<1>6. /\ t \in Seq(NodeType) /\ Len(t) = Len(node)
      /\ \A j \in 1 .. Len(node) : t[j] = IF j = f THEN r ELSE node[j]
  BY <1>1, <1>3, <1>5, UpdatedSeq
<1>7. \A n \in 1 .. Len(node) : t[n].entries = node[n].entries
  BY <1>3, <1>6, Zenon
<1>8. NodesOK'
  BY <1>1, <1>4, <1>6, <1>7, ZenonT(60) DEF NodesOK
<1>9. SameTree(node, t)
  <2>1. Len(node) <= Len(node)
    BY <1>1
  <2>2. NamesKept(node, t)
    BY <1>3, <1>6, <2>1, Zenon DEF NamesKept
  <2> QED BY <1>6, <1>7, <2>2, Zenon DEF SameTree
<1> QED BY <1>3, <1>4, <1>6, <1>8, <1>9, Zenon

(* read goes no further than the data. *)
LEMMA ReadWithin ==
  ASSUME NEW size \in Nat, NEW rest \in Nat
  PROVE  Min({size, Max({0, rest})}) \in 0 .. rest
<1>1. Max({0, rest}) = rest
  <2>1. rest \in {0, rest} /\ \A y \in {0, rest} : rest >= y
    OBVIOUS
  <2>2. \A x \in {0, rest} : (\A y \in {0, rest} : x >= y) => x = rest
    OBVIOUS
  <2>3. PICK S : S = {0, rest}
    BY Zenon
  <2> QED BY <2>1, <2>2, <2>3, Zenon DEF Max
<1>2. Min({size, rest}) \in {size, rest} /\ \A y \in {size, rest} : Min({size, rest}) <= y
  BY LeastOf, Zenon
<1> QED BY <1>1, <1>2
-----------------------------------------------------------------------------
CallType ==
  [op : {"create_file", "create_dir", "delete", "file_type", "open_dir", "panic"},
   path : Paths, dir : Nat]

(* A handle has a file and is within its data; a call that is under way has *)
(* found its directory, and has failed only at the root.                    *)
HandleOK(h) == h # NoHandle => h.file \in 1 .. Len(node) /\ h.pos <= Len(node[h.file].data)
CallOK(k) == has_root(k.path) /\ k.dir \in 1 .. Len(node) /\ (k.op = "panic" => is_root(k.path))

RamfsInv ==
  /\ NodesOK
  /\ handle \in [Caller -> [file : Nat, pos : Nat]]
  /\ \A c \in Caller : HandleOK(handle[c])
  /\ pc \in [Caller -> {Idle} \cup CallType]
  /\ \A c \in Caller : pc[c] # Idle => CallOK(pc[c])

(* At first there is the root and no handle. *)
LEMMA RamfsInit == Init => RamfsInv
<1> SUFFICES ASSUME Init PROVE RamfsInv
  OBVIOUS
<1>1. NodesOK
  <2>1. \A x \in Seq(Letters), y \in Seq(Nat \ {0}), z \in Seq(Bytes) :
          /\ [name |-> x, kind |-> "dir", entries |-> y, data |-> z] \in NodeType
          /\ [name |-> x, kind |-> "dir", entries |-> y, data |-> z].entries = y
    BY Zenon DEF NodeType
  <2>2. Empty \in Seq(Letters) /\ <<>> \in Seq(Nat \ {0}) /\ <<>> \in Seq(Bytes)
    BY DEF Empty
  <2>3. PICK n : n = [name |-> Empty, kind |-> "dir", entries |-> <<>>, data |-> <<>>]
    BY Zenon
  <2>4. n \in NodeType /\ n.entries = <<>>
    BY <2>1, <2>2, <2>3, Zenon
  <2>5. node = <<n>>
    BY <2>3, Zenon DEF Init
  <2>6. node \in Seq(NodeType) /\ Len(node) = 1 /\ node[1] = n
    BY <2>4, <2>5
  <2> QED BY <2>4, <2>6 DEF NodesOK
<1>2. NoHandle \in [file : Nat, pos : Nat]
  BY Zenon DEF NoHandle, None
<1> QED BY <1>1, <1>2, Zenon DEF Init, RamfsInv, HandleOK

(* What grows keeps handles and calls as they should be. *)
LEMMA GrowthKeeps ==
  ASSUME NodesOK, NodesOK', Len(node) <= Len(node'),
         \A n \in 1 .. Len(node) : Len(node[n].data) <= Len(node'[n].data)
  PROVE  /\ \A h \in [file : Nat, pos : Nat] : HandleOK(h) => HandleOK(h)'
         /\ \A k : CallOK(k) => CallOK(k)'
<1>1. Len(node) \in Nat /\ Len(node') \in Nat
  BY DEF NodesOK
<1>2. 1 .. Len(node) \subseteq 1 .. Len(node')
  BY <1>1
<1>3. \A n \in 1 .. Len(node) : Len(node[n].data) \in Nat /\ Len(node'[n].data) \in Nat
  <2>1. \A n \in 1 .. Len(node) : node[n] \in NodeType /\ node'[n] \in NodeType
    BY <1>2 DEF NodesOK
  <2> QED BY <2>1 DEF NodeType
<1>4. ASSUME NEW h \in [file : Nat, pos : Nat], HandleOK(h), h # NoHandle
      PROVE  h.file \in 1 .. Len(node') /\ h.pos <= Len(node'[h.file].data)
  <2>1. h.file \in 1 .. Len(node) /\ h.pos <= Len(node[h.file].data) /\ h.pos \in Nat
    BY <1>4, Zenon DEF HandleOK
  <2> QED BY <1>2, <1>3, <2>1
<1>5. \A h \in [file : Nat, pos : Nat] : HandleOK(h) => HandleOK(h)'
  BY <1>4, Zenon DEF HandleOK
<1>6. \A k : CallOK(k) => CallOK(k)'
  BY <1>2, Zenon DEF CallOK
<1> QED BY <1>5, <1>6, Zenon

(* A step of one caller in a tree that grows or stays *)
Grows ==
  /\ NodesOK' /\ Len(node) <= Len(node')
  /\ \A n \in 1 .. Len(node) : Len(node[n].data) <= Len(node'[n].data)

CallMoves(c, k) ==
  /\ k \in {Idle} \cup CallType /\ (k # Idle => CallOK(k)')
  /\ pc' = [pc EXCEPT ![c] = k]

HandleMoves(c, h) ==
  /\ h \in [file : Nat, pos : Nat] /\ HandleOK(h)'
  /\ handle' = [handle EXCEPT ![c] = h]

(* Such a step keeps the invariant. *)
LEMMA StepKeeps ==
  ASSUME RamfsInv, Grows, NEW c \in Caller,
         pc' = pc \/ \E k : CallMoves(c, k),
         handle' = handle \/ \E h : HandleMoves(c, h)
  PROVE  RamfsInv'
<1>1. /\ \A h \in [file : Nat, pos : Nat] : HandleOK(h) => HandleOK(h)'
      /\ \A k : CallOK(k) => CallOK(k)'
  BY GrowthKeeps, Zenon DEF RamfsInv, Grows
<1>2. handle' \in [Caller -> [file : Nat, pos : Nat]] /\ \A d \in Caller : HandleOK(handle[d])'
  <2>1. CASE handle' = handle
    <3>1. \A d \in Caller : handle[d] \in [file : Nat, pos : Nat] /\ HandleOK(handle[d])
      BY Zenon DEF RamfsInv
    <3>2. ASSUME NEW d \in Caller PROVE HandleOK(handle[d])'
      <4>1. PICK h \in [file : Nat, pos : Nat] : h = handle[d]
        BY <3>1, Zenon
      <4>2. HandleOK(h)'
        BY <1>1, <3>1, <4>1, Zenon
      <4> QED BY <2>1, <4>1, <4>2, Zenon DEF HandleOK
    <3> QED BY <2>1, <3>2, Zenon DEF RamfsInv
  <2>2. ASSUME NEW g, HandleMoves(c, g)
        PROVE  handle' \in [Caller -> [file : Nat, pos : Nat]] /\ \A d \in Caller : HandleOK(handle[d])'
    <3>1. handle' \in [Caller -> [file : Nat, pos : Nat]]
      BY <2>2, Zenon DEF HandleMoves, RamfsInv
    <3>2. \A d \in Caller : handle[d] \in [file : Nat, pos : Nat] /\ HandleOK(handle[d])
      BY Zenon DEF RamfsInv
    <3>3. handle'[c] = g /\ \A d \in Caller : d # c => handle'[d] = handle[d]
      BY <2>2, Zenon DEF HandleMoves, RamfsInv
    <3>4. ASSUME NEW d \in Caller PROVE HandleOK(handle[d])'
      <4>1. PICK h \in [file : Nat, pos : Nat] : h = handle'[d]
        BY <3>1, Zenon
      <4>2. HandleOK(h)'
        BY <1>1, <2>2, <3>2, <3>3, <4>1, Zenon DEF HandleMoves
      <4> QED BY <4>1, <4>2, Zenon DEF HandleOK
    <3> QED BY <3>1, <3>4, Zenon
  <2> QED BY <2>1, <2>2, Zenon
<1>3. /\ pc' \in [Caller -> {Idle} \cup CallType]
      /\ \A d \in Caller : pc'[d] # Idle => CallOK(pc[d])'
  <2>1. CASE pc' = pc
    <3>1. \A d \in Caller : pc[d] # Idle => CallOK(pc[d])
      BY Zenon DEF RamfsInv
    <3>2. ASSUME NEW d \in Caller, pc'[d] # Idle PROVE CallOK(pc[d])'
      <4>1. PICK k : k = pc[d]
        OBVIOUS
      <4>2. CallOK(k)'
        BY <1>1, <2>1, <3>1, <3>2, <4>1, Zenon
      <4> QED BY <2>1, <4>1, <4>2, Zenon DEF CallOK
    <3> QED BY <2>1, <3>2, Zenon DEF RamfsInv
  <2>2. ASSUME NEW j, CallMoves(c, j)
        PROVE  /\ pc' \in [Caller -> {Idle} \cup CallType]
               /\ \A d \in Caller : pc'[d] # Idle => CallOK(pc[d])'
    <3>1. pc' \in [Caller -> {Idle} \cup CallType]
      BY <2>2, Zenon DEF CallMoves, RamfsInv
    <3>2. \A d \in Caller : pc[d] # Idle => CallOK(pc[d])
      BY Zenon DEF RamfsInv
    <3>3. pc'[c] = j /\ \A d \in Caller : d # c => pc'[d] = pc[d]
      BY <2>2, Zenon DEF CallMoves, RamfsInv
    <3>4. ASSUME NEW d \in Caller, pc'[d] # Idle PROVE CallOK(pc[d])'
      <4>1. PICK k : k = pc'[d]
        OBVIOUS
      <4>2. CallOK(k)'
        BY <1>1, <2>2, <3>2, <3>3, <3>4, <4>1, Zenon DEF CallMoves
      <4> QED BY <4>1, <4>2, Zenon DEF CallOK
    <3> QED BY <3>1, <3>4, Zenon
  <2> QED BY <2>1, <2>2, Zenon
<1> QED BY <1>2, <1>3, Zenon DEF Grows, RamfsInv

(* A call that changes no file is such a step. *)
LEMMA StaysGrows == ASSUME NodesOK, node' = node PROVE Grows
<1>1. Len(node) \in Nat /\ Len(node) <= Len(node)
  BY DEF NodesOK
<1>2. \A n \in 1 .. Len(node) : node[n] \in NodeType
  BY DEF NodesOK
<1>3. \A n \in 1 .. Len(node) : Len(node[n].data) <= Len(node[n].data)
  BY <1>2 DEF NodeType
<1>4. NodesOK'
  BY Zenon DEF NodesOK
<1> QED BY <1>1, <1>3, <1>4, Zenon DEF Grows

(* So is one that changes entries and no data. *)
LEMMA DataStays ==
  ASSUME NodesOK, NodesOK', Len(node) <= Len(node'),
         \A n \in 1 .. Len(node) : node'[n].data = node[n].data
  PROVE  Grows
<1>1. \A n \in 1 .. Len(node) : node[n] \in NodeType
  BY DEF NodesOK
<1>2. \A n \in 1 .. Len(node) : Len(node[n].data) <= Len(node[n].data)
  BY <1>1 DEF NodeType
<1> QED BY <1>2, Zenon DEF Grows

(* A call that returns, in a tree that grows or stays *)
LEMMA ReturnKeeps ==
  ASSUME RamfsInv, Grows, NEW c \in Caller, NEW op, NEW p, NEW res, Return(c, op, p, res),
         handle' = handle \/ \E h : HandleMoves(c, h)
  PROVE  RamfsInv'
<1>1. CallMoves(c, Idle)
  BY Zenon DEF Return, CallMoves
<1> QED BY <1>1, StepKeeps, Zenon

(* A lookup moves its caller on, to the directory it found. *)
LEMMA LookupKeeps ==
  ASSUME RamfsInv, NEW c \in Caller, NEW p \in Paths, NEW dir \in 0 .. Len(node), NEW error,
         NEW op \in {"create_file", "create_dir", "delete", "file_type", "open_dir"},
         Lookup(c, op, p, dir, error)
  PROVE  RamfsInv'
<1>1. node' = node /\ handle' = handle /\ has_root(p)
  BY Zenon DEF Lookup
<1>2. Grows
  BY <1>1, StaysGrows, Zenon DEF RamfsInv
<1>3. CASE Return(c, op, p, error)
  BY <1>1, <1>2, <1>3, ReturnKeeps, Zenon
<1>4. CASE dir # None /\ pc' = [pc EXCEPT ![c] = [op |-> op, path |-> p, dir |-> dir]]
  <2>1. PICK k : k = [op |-> op, path |-> p, dir |-> dir]
    BY Zenon
  <2>2. Len(node) \in Nat
    BY DEF RamfsInv, NodesOK
  <2>3. dir \in 1 .. Len(node) /\ dir \in Nat
    BY <1>4, <2>2 DEF None
  <2>4. k \in CallType /\ k.path = p /\ k.dir = dir /\ k.op = op
    BY <2>1, <2>3, Zenon DEF CallType
  <2>5. op # "panic"
    OBVIOUS
  <2>6. CallOK(k)'
    BY <1>1, <2>3, <2>4, <2>5, Zenon DEF CallOK
  <2>7. CallMoves(c, k)
    BY <1>4, <2>1, <2>4, <2>6, Zenon DEF CallMoves
  <2> QED BY <1>1, <1>2, <2>7, StepKeeps, Zenon
<1> QED BY <1>3, <1>4, Zenon DEF Lookup

(* The steps in which a call starts *)
LEMMA CallStepKeeps ==
  ASSUME RamfsInv, NEW c \in Caller, NEW p \in Paths, CallStep(c, p)
  PROVE  RamfsInv'
<1>1. p \in Seq(Seq(Letters))
  BY RamfsAssumption, Zenon
<1>2. NodesOK
  BY Zenon DEF RamfsInv
<1>3. ASSUME has_root(p)
      PROVE  /\ DirBySplit(p) \in 0 .. Len(node)
             /\ DirByRelative(p) \in 0 .. Len(node)
             /\ DirOpened(p) \in 0 .. Len(node)
             /\ find_file(split_from_top(p)[2]) \in 0 .. Len(node)
  BY <1>1, <1>2, <1>3, LookupFinds, Zenon
<1>4. ASSUME NEW op \in Ops, not_absolute(c, op, p) PROVE RamfsInv'
  <2>1. node' = node /\ handle' = handle /\ Return(c, op, p, "PathIsNotAbsolute")
    BY <1>4, Zenon DEF not_absolute
  <2> QED BY <1>2, <2>1, StaysGrows, ReturnKeeps, Zenon
<1>5. ASSUME NEW op \in Ops, create_lookup(c, op, p) PROVE RamfsInv'
  <2>1. op \in {"create_file", "create_dir"} /\ has_root(p)
        /\ Lookup(c, op, p, DirBySplit(p), "DirectoryDoesNotExist")
    BY <1>5, Zenon DEF create_lookup, Lookup
  <2> QED BY <1>3, <2>1, LookupKeeps, Zenon
<1>6. ASSUME open_file(c, p) PROVE RamfsInv'
  <2>1. PICK f : f = find_file(split_from_top(p)[2])
    OBVIOUS
  <2>2. f \in 0 .. Len(node) /\ node' = node
    BY <1>3, <1>6, <2>1, Zenon DEF open_file
  <2>3. Grows
    BY <1>2, <2>2, StaysGrows, Zenon
  <2>4. CASE Return(c, "open_file", p, "PathDoesNotExist") /\ handle' = handle
    BY <2>3, <2>4, ReturnKeeps, Zenon
  <2>5. CASE /\ f # None /\ Return(c, "open_file", p, "Ok")
             /\ handle' = [handle EXCEPT ![c] = [file |-> f, pos |-> 0]]
    <3>1. PICK h : h = [file |-> f, pos |-> 0]
      BY Zenon
    <3>2. Len(node) \in Nat
      BY <1>2 DEF NodesOK
    <3>3. f \in 1 .. Len(node) /\ f \in Nat
      BY <2>2, <2>5, <3>2 DEF None
    <3>4. h \in [file : Nat, pos : Nat] /\ h.file = f /\ h.pos = 0
      BY <3>1, <3>3, Zenon
    <3>5. 0 <= Len(node[f].data)
      BY <1>2, <3>3 DEF NodesOK, NodeType
    <3>6. HandleOK(h)'
      BY <2>2, <3>3, <3>4, <3>5, Zenon DEF HandleOK
    <3>7. HandleMoves(c, h)
      BY <2>5, <3>1, <3>4, <3>6, Zenon DEF HandleMoves
    <3> QED BY <2>3, <2>5, <3>7, ReturnKeeps, Zenon
  <2> QED BY <1>6, <2>1, <2>4, <2>5, Zenon DEF open_file
<1>7. ASSUME delete_root(c, p) PROVE RamfsInv'
  <2>1. /\ node' = [node EXCEPT ![ROOT].entries = <<>>] /\ handle' = handle
        /\ Return(c, "delete", p, "Ok")
    BY <1>7, Zenon DEF delete_root
  <2>2. ROOT \in 1 .. Len(node) /\ <<>> \in Seq(1 .. Len(node))
    BY <1>2 DEF ROOT, NodesOK
  <2>3. /\ NodesOK' /\ Len(node') = Len(node)
        /\ \A n \in 1 .. Len(node) : node'[n].data = node[n].data
    BY <1>2, <2>1, <2>2, UnlinkedOK, Zenon
  <2>4. Grows
    <3>1. Len(node) <= Len(node')
      BY <1>2, <2>3 DEF NodesOK
    <3> QED BY <1>2, <2>3, <3>1, DataStays, Zenon
  <2> QED BY <2>1, <2>4, ReturnKeeps, Zenon
<1>8. ASSUME delete_lookup(c, p) \/ file_type_lookup(c, p) \/ open_dir_lookup(c, p) PROVE RamfsInv'
  <2>1. has_root(p)
    BY <1>8, Zenon DEF delete_lookup, file_type_lookup, open_dir_lookup, Lookup
  <2>2. \/ Lookup(c, "delete", p, DirByRelative(p), "PathDoesNotExist")
        \/ Lookup(c, "file_type", p, DirByRelative(p), "PathDoesNotExist")
        \/ Lookup(c, "open_dir", p, DirOpened(p), "PathDoesNotExist")
    BY <1>8, Zenon DEF delete_lookup, file_type_lookup, open_dir_lookup
  <2> QED BY <1>3, <2>1, <2>2, LookupKeeps, Zenon
<1>9. ASSUME file_type_root(c, p) PROVE RamfsInv'
  <2>1. node' = node /\ handle' = handle /\ Return(c, "file_type", p, "dir")
    BY <1>9, Zenon DEF file_type_root
  <2> QED BY <1>2, <2>1, StaysGrows, ReturnKeeps, Zenon
<1> QED BY <1>4, <1>5, <1>6, <1>7, <1>8, <1>9, Zenon DEF CallStep

(* A call that is under way *)
LEMMA Underway ==
  ASSUME RamfsInv, NEW c \in Caller,
         NEW op \in {"create_file", "create_dir", "delete", "file_type", "open_dir"}, At(c, op)
  PROVE  /\ pc[c] \in CallType /\ has_root(pc[c].path) /\ pc[c].path \in Paths
         /\ pc[c].dir \in 1 .. Len(node)
<1>1. pc[c] # Idle
  BY DEF At, Idle
<1>2. pc[c] \in CallType /\ CallOK(pc[c])
  BY <1>1, Zenon DEF RamfsInv
<1>3. pc[c].path \in Paths
  BY <1>2, Zenon DEF CallType
<1> QED BY <1>2, <1>3, Zenon DEF CallOK

(* create fails at the root only. *)
LEMMA CreatePanicKeeps ==
  ASSUME RamfsInv, NEW c \in Caller, create_panic(c)
  PROVE  RamfsInv'
<1>1. /\ pc[c] \in CallType /\ has_root(pc[c].path) /\ pc[c].path \in Paths
      /\ pc[c].dir \in 1 .. Len(node)
  BY Underway, Zenon DEF create_panic
<1>2. PICK p : p = pc[c].path
  OBVIOUS
<1>3. p \in Seq(Seq(Letters)) /\ has_root(p)
  BY <1>1, <1>2, RamfsAssumption, Zenon
<1>4. filename(p) = NoPath /\ node' = node /\ handle' = handle
  BY <1>2, Zenon DEF create_panic
<1>5. is_root(p)
  <2>1. ~ is_root(p) => filename(p) = <<Last(p)>>
    BY <1>3, ParentIs, Zenon
  <2>2. \A x : <<x>> # <<>>
    OBVIOUS
  <2> QED BY <1>4, <2>1, <2>2, Zenon DEF NoPath
<1>6. PICK k : k = [pc[c] EXCEPT !.op = "panic"]
  BY Zenon
<1>7. k \in CallType /\ k.path = p /\ k.dir = pc[c].dir
  BY <1>1, <1>2, <1>6, Zenon DEF CallType
<1>8. CallOK(k)'
  BY <1>1, <1>3, <1>4, <1>5, <1>7, Zenon DEF CallOK
<1>9. pc' = [pc EXCEPT ![c] = k]
  BY <1>6, Zenon DEF create_panic
<1>10. CallMoves(c, k)
  BY <1>7, <1>8, <1>9, Zenon DEF CallMoves
<1>11. Grows
  BY <1>4, StaysGrows, Zenon DEF RamfsInv
<1> QED BY <1>4, <1>10, <1>11, StepKeeps, Zenon

(* create puts a new entry into the directory found; a new file is open at  *)
(* its start.                                                               *)
LEMMA CreateKeeps ==
  ASSUME RamfsInv, NEW c \in Caller, create_file(c) \/ create_dir(c)
  PROVE  RamfsInv'
<1>1. /\ pc[c] \in CallType /\ has_root(pc[c].path) /\ pc[c].path \in Paths
      /\ pc[c].dir \in 1 .. Len(node)
  BY Underway, Zenon DEF create_file, create_dir
<1>2. PICK p : p = pc[c].path
  OBVIOUS
<1>3. p \in Seq(Seq(Letters)) /\ has_root(p)
  BY <1>1, <1>2, RamfsAssumption, Zenon
<1>4. filename(p) # NoPath
  BY <1>2, Zenon DEF create_file, create_dir
<1>5. PICK as : as = filename(p)[1]
  OBVIOUS
<1>6. as \in Seq(Letters)
  <2>1. /\ Len(p) \in Nat /\ Len(p) >= 2
        /\ ~ is_root(p) => filename(p) = <<Last(p)>>
        /\ is_root(p) => filename(p) = NoPath
    BY <1>3, ParentIs, Zenon
  <2>2. Last(p) \in Seq(Letters)
    BY <1>3, <2>1 DEF Last
  <2>3. \A x : <<x>>[1] = x
    OBVIOUS
  <2> QED BY <1>4, <1>5, <2>1, <2>2, <2>3, Zenon
<1>7. PICK d \in 1 .. Len(node) : d = pc[c].dir
  BY <1>1, Zenon
<1>8. NodesOK /\ Len(node) \in Nat
  BY DEF RamfsInv, NodesOK
<1>9. ASSUME NEW type \in {"dir", "file"}, node' = Linked(d, as, type)
      PROVE  Grows /\ Len(node') = Len(node) + 1 /\ node'[Len(node) + 1].data = <<>>
  <2>1. /\ NodesOK' /\ Len(node') = Len(node) + 1 /\ node'[Len(node) + 1].data = <<>>
        /\ \A n \in 1 .. Len(node) : node'[n].data = node[n].data
    BY <1>6, <1>8, <1>9, LinkedOK, Zenon
  <2>2. Len(node) <= Len(node')
    BY <1>8, <2>1
  <2> QED BY <1>8, <2>1, <2>2, DataStays, Zenon
<1>10. CASE create_dir(c)
  <2>1. /\ node' = Linked(d, as, "dir") /\ handle' = handle
        /\ Return(c, "create_dir", p, "Ok")
    BY <1>2, <1>5, <1>7, <1>10, Zenon DEF create_dir
  <2> QED BY <1>9, <2>1, ReturnKeeps, Zenon
<1>11. CASE create_file(c)
  <2>1. /\ node' = Linked(d, as, "file")
        /\ handle' = [handle EXCEPT ![c] = [file |-> Len(node) + 1, pos |-> 0]]
        /\ Return(c, "create_file", p, "Ok")
    BY <1>2, <1>5, <1>7, <1>11, Zenon DEF create_file
  <2>2. Grows /\ Len(node') = Len(node) + 1 /\ node'[Len(node) + 1].data = <<>>
    BY <1>9, <2>1, Zenon
  <2>3. PICK h : h = [file |-> Len(node) + 1, pos |-> 0]
    BY Zenon
  <2>4. h \in [file : Nat, pos : Nat] /\ h.file = Len(node) + 1 /\ h.pos = 0
    BY <1>8, <2>3
  <2>5. h.file \in 1 .. Len(node') /\ h.pos <= Len(node'[h.file].data)
    <3>1. 0 <= Len(<<>>)
      OBVIOUS
    <3> QED BY <1>8, <2>2, <2>4, <3>1
  <2>6. HandleMoves(c, h)
    BY <2>1, <2>3, <2>4, <2>5, Zenon DEF HandleMoves, HandleOK
  <2> QED BY <2>1, <2>2, <2>6, ReturnKeeps, Zenon
<1> QED BY <1>10, <1>11, Zenon

(* delete keeps some of the entries of the directory found. *)
LEMMA DeleteKeeps ==
  ASSUME RamfsInv, NEW c \in Caller, delete(c)
  PROVE  RamfsInv'
<1>1. pc[c].dir \in 1 .. Len(node)
  BY Underway, Zenon DEF delete
<1>2. PICK d \in 1 .. Len(node) : d = pc[c].dir
  BY <1>1, Zenon
<1>3. NodesOK /\ Len(node) \in Nat
  <2>1. NodesOK
    BY Zenon DEF RamfsInv
  <2>2. node \in Seq(NodeType)
    BY <2>1, Zenon DEF NodesOK
  <2> QED BY <2>1, <2>2
<1>4. PICK e : e = Kept(d, filename(pc[c].path)[1])
  OBVIOUS
<1>5. e \in Seq(1 .. Len(node))
  BY <1>3, <1>4, KeptIs, Zenon DEF Without
<1>6. node' = [node EXCEPT ![d].entries = e] /\ handle' = handle
      /\ Return(c, "delete", pc[c].path, "Ok")
  BY <1>2, <1>4, Zenon DEF delete
<1>7. /\ NodesOK' /\ Len(node') = Len(node)
      /\ \A n \in 1 .. Len(node) : node'[n].data = node[n].data
  BY <1>3, <1>5, <1>6, UnlinkedOK, Zenon
<1>8. Len(node) <= Len(node')
  BY <1>3, <1>7
<1>9. Grows
  BY <1>3, <1>7, <1>8, DataStays, Zenon
<1> QED BY <1>6, <1>9, ReturnKeeps, Zenon

(* The handle of a caller that uses one *)
LEMMA InUse ==
  ASSUME RamfsInv, NEW c \in Caller, CanUse(c)
  PROVE  /\ handle[c] \in [file : Nat, pos : Nat] /\ handle[c].pos \in Nat
         /\ handle[c].file \in 1 .. Len(node)
         /\ Data(c) \in Seq(Bytes) /\ Len(Data(c)) \in Nat /\ handle[c].pos <= Len(Data(c))
<1>1. handle[c] \in [file : Nat, pos : Nat] /\ handle[c].pos \in Nat
  BY Zenon DEF RamfsInv
<1>2. handle[c].file \in 1 .. Len(node) /\ handle[c].pos <= Len(node[handle[c].file].data)
  BY Zenon DEF RamfsInv, HandleOK, CanUse
<1>3. node[handle[c].file] \in NodeType
  BY <1>2 DEF RamfsInv, NodesOK
<1>4. Data(c) \in Seq(Bytes)
  BY <1>3, Zenon DEF Data, NodeType
<1>5. Len(Data(c)) \in Nat
  BY <1>4
<1> QED BY <1>1, <1>2, <1>4, <1>5, Zenon DEF Data

(* read moves a handle up to the end of its file. *)
LEMMA ReadKeeps ==
  ASSUME RamfsInv, NEW c \in Caller, NEW size \in ReadSizes, read(c, size)
  PROVE  RamfsInv'
<1>1. /\ handle[c] \in [file : Nat, pos : Nat] /\ handle[c].pos \in Nat
      /\ handle[c].file \in 1 .. Len(node)
      /\ Data(c) \in Seq(Bytes) /\ Len(Data(c)) \in Nat /\ handle[c].pos <= Len(Data(c))
  BY InUse, Zenon DEF read
<1>2. PICK rest \in Nat : rest = Len(Data(c)) - handle[c].pos
  BY <1>1
<1>3. PICK n : n = BytesRead(c, size)
  OBVIOUS
<1>4. size \in Nat
  BY RamfsAssumption, Zenon
<1>5. n = Min({size, Max({0, rest})})
  BY <1>2, <1>3, Zenon DEF BytesRead
<1>6. n \in 0 .. rest
  BY <1>4, <1>5, ReadWithin, Zenon
<1>7. PICK h : h = [handle[c] EXCEPT !.pos = handle[c].pos + n]
  BY Zenon
<1>8. handle[c].pos + n \in Nat /\ handle[c].pos + n <= Len(Data(c))
  BY <1>1, <1>2, <1>6
<1>9. /\ h \in [file : Nat, pos : Nat]
      /\ h.file = handle[c].file /\ h.pos = handle[c].pos + n
  BY <1>1, <1>7, <1>8, Zenon
<1>10. node' = node /\ pc' = pc /\ handle' = [handle EXCEPT ![c] = h]
  BY <1>3, <1>7, Zenon DEF read
<1>11. h.file \in 1 .. Len(node) /\ h.pos <= Len(node[h.file].data)
  BY <1>1, <1>8, <1>9, Zenon DEF Data
<1>12. HandleOK(h)'
  BY <1>10, <1>11, Zenon DEF HandleOK
<1>13. HandleMoves(c, h)
  BY <1>9, <1>10, <1>12, Zenon DEF HandleMoves
<1>14. Grows
  BY <1>10, StaysGrows, Zenon DEF RamfsInv
<1> QED BY <1>10, <1>13, <1>14, StepKeeps, Zenon

(* write makes the file of a handle longer, and moves the handle on as far. *)
LEMMA WriteKeeps ==
  ASSUME RamfsInv, NEW c \in Caller, NEW buf \in Buffers, write(c, buf)
  PROVE  RamfsInv'
<1>1. /\ handle[c] \in [file : Nat, pos : Nat] /\ handle[c].pos \in Nat
      /\ handle[c].file \in 1 .. Len(node)
      /\ Data(c) \in Seq(Bytes) /\ Len(Data(c)) \in Nat /\ handle[c].pos <= Len(Data(c))
  BY InUse, Zenon DEF write
<1>2. buf \in Seq(Bytes) /\ Len(buf) \in Nat
  BY RamfsAssumption
<1>3. PICK f \in 1 .. Len(node) : f = handle[c].file
  BY <1>1, Zenon
<1>4. PICK pos \in Nat : pos = handle[c].pos
  BY <1>1, Zenon
<1>5. PICK s \in Seq(Bytes) : s = Data(c) /\ s = node[f].data
  BY <1>1, <1>3, Zenon DEF Data
<1>6. PICK b : b = Inserted(s, pos, buf)
  OBVIOUS
<1>7. b \in Seq(Bytes) /\ Len(b) = Len(s) + Len(buf)
  BY <1>1, <1>2, <1>4, <1>5, <1>6, InsertedIs, Zenon
<1>8. PICK h : h = [handle[c] EXCEPT !.pos = pos + Len(buf)]
  BY Zenon
<1>9. /\ node' = [node EXCEPT ![f].data = b] /\ pc' = pc
      /\ handle' = [handle EXCEPT ![c] = h]
  BY <1>1, <1>3, <1>4, <1>5, <1>6, <1>8, Zenon DEF write
<1>10. NodesOK /\ Len(node) \in Nat
  BY SMTT(30) DEF RamfsInv, NodesOK
<1>11. /\ NodesOK' /\ Len(node') = Len(node) /\ node'[f].data = b
       /\ \A n \in 1 .. Len(node) : n # f => node'[n] = node[n]
  BY <1>7, <1>9, <1>10, WrittenOK, Zenon
<1>12. Len(s) <= Len(b) /\ pos + Len(buf) <= Len(b) /\ pos + Len(buf) \in Nat
  BY <1>1, <1>2, <1>4, <1>5, <1>7, SMTT(30)
<1>13. Grows
  <2>1. \A n \in 1 .. Len(node) : Len(node[n].data) \in Nat
    <3>1. \A n \in 1 .. Len(node) : node[n] \in NodeType
      BY <1>10 DEF NodesOK
    <3> QED BY <3>1 DEF NodeType
  <2>2. \A n \in 1 .. Len(node) : Len(node[n].data) <= Len(node'[n].data)
    BY <1>5, <1>11, <1>12, <2>1
  <2>3. Len(node) <= Len(node')
    BY <1>10, <1>11
  <2> QED BY <1>11, <2>2, <2>3, Zenon DEF Grows
<1>14. /\ h \in [file : Nat, pos : Nat] /\ h.file = f /\ h.pos = pos + Len(buf)
  BY <1>1, <1>3, <1>8, <1>12, Zenon
<1>15. HandleOK(h)'
  BY <1>11, <1>12, <1>14, Zenon DEF HandleOK
<1>16. HandleMoves(c, h)
  BY <1>9, <1>14, <1>15, Zenon DEF HandleMoves
<1> QED BY <1>9, <1>13, <1>16, StepKeeps, Zenon

(* The calls of several CPUs, in any order *)
LEMMA RamfsStep == ASSUME RamfsInv, [Next]_vars PROVE RamfsInv'
<1>1. NodesOK
  BY Zenon DEF RamfsInv
<1>2. ASSUME UNCHANGED vars PROVE RamfsInv'
  BY <1>2, Zenon DEF vars, RamfsInv, NodesOK, HandleOK, CallOK
<1>3. ASSUME NEW c \in Caller, file_type(c) \/ open_dir(c) PROVE RamfsInv'
  <2>1. node' = node /\ handle' = handle
    BY <1>3, Zenon DEF file_type, open_dir
  <2>2. \E op, p, res : Return(c, op, p, res)
    BY <1>3, Zenon DEF file_type, open_dir
  <2> QED BY <1>1, <2>1, <2>2, StaysGrows, ReturnKeeps, Zenon
<1>4. ASSUME NEW c \in Caller,
             \/ \E p \in Paths : CallStep(c, p)
             \/ create_panic(c) \/ create_file(c) \/ create_dir(c)
             \/ delete(c) \/ file_type(c) \/ open_dir(c)
             \/ \E size \in ReadSizes : read(c, size)
             \/ \E buf \in Buffers : write(c, buf)
      PROVE  RamfsInv'
  BY <1>3, <1>4, CallStepKeeps, CreatePanicKeeps, CreateKeeps, DeleteKeeps, ReadKeeps, WriteKeeps, Zenon
<1> QED BY <1>2, <1>4, Zenon DEF Next

(* No call to the file system panics, whatever the CPUs do, except a create *)
(* with the path of the root: no write is past the end of its file          *)
(* (PanicsOnlyAtRoot).                                                      *)
THEOREM HandlesInBounds == Spec => []PanicsOnlyAtRoot
<1>1. RamfsInv => PanicsOnlyAtRoot
  <2> SUFFICES ASSUME RamfsInv, NEW c \in Caller
               PROVE  /\ At(c, "panic") => is_root(pc[c].path)
                      /\ handle[c] # NoHandle => handle[c].pos <= Len(Data(c))
    BY Zenon DEF PanicsOnlyAtRoot
  <2>1. handle[c] # NoHandle => handle[c].pos <= Len(Data(c))
    BY Zenon DEF RamfsInv, HandleOK, Data
  <2>2. At(c, "panic") => is_root(pc[c].path)
    <3>1. At(c, "panic") => pc[c] # Idle
      BY DEF At, Idle
    <3> QED BY <3>1, Zenon DEF RamfsInv, CallOK, At
  <2> QED BY <2>1, <2>2, Zenon
<1> QED BY <1>1, RamfsInit, RamfsStep, PTL DEF Spec

(* The three ways in which the calls take a path apart lead to the same     *)
(* entry of every tree that they build (LookupsAgree).                      *)
THEOREM OneEntryPerPath == Spec => []LookupsAgree
<1>1. RamfsInv => LookupsAgree
  BY SameEntry, RamfsAssumption, Zenon DEF RamfsInv
<1> QED BY <1>1, RamfsInit, RamfsStep, PTL DEF Spec
-----------------------------------------------------------------------------
(* Child finds the first entry. *)
LEMMA ChildIs ==
  ASSUME NodesOK, NEW d \in 0 .. Len(node), NEW x, NEW K
  PROVE  IsChild(node, d, x, K, Child(d, x, K))
<1>1. CASE d = None
  BY <1>1, Zenon DEF Child, IsChild
<1>2. CASE d # None
  <2>1. Len(node) \in Nat
    BY DEF NodesOK
  <2>2. d \in 1 .. Len(node) /\ node[d] \in NodeType
    BY <1>2, <2>1 DEF NodesOK, None
  <2>3. PICK s : s = node[d].entries
    OBVIOUS
  <2>4. s \in Seq(Nat \ {0})
    BY <2>2, <2>3, Zenon DEF NodeType
  <2>5. DOMAIN s = 1 .. Len(s) /\ Len(s) \in Nat
    BY <2>4
  <2> DEFINE hits == {i \in DOMAIN s : name(s[i]) = x /\ kind(s[i]) \in K}
  <2>6. Child(d, x, K) = IF hits = {} THEN None ELSE s[Min(hits)]
    BY <1>2, <2>3, Zenon DEF Child
  <2>7. hits \in SUBSET Nat
    BY <2>5
  <2>8. \A i : i \in hits <=> i \in 1 .. Len(s) /\ Fits(node, s[i], x, K)
    BY <2>5, Zenon DEF Fits, name, kind
  <2> HIDE DEF hits
  <2>9. CASE hits = {}
    <3>1. \A i \in 1 .. Len(s) : ~ Fits(node, s[i], x, K)
      BY <2>8, <2>9, Zenon
    <3> QED BY <1>2, <2>3, <2>6, <2>9, <3>1, Zenon DEF IsChild, IsFirst
  <2>10. CASE hits # {}
    <3>1. PICK m : m = Min(hits)
      OBVIOUS
    <3>2. m \in hits /\ \A y \in hits : m <= y
      BY <2>7, <2>10, <3>1, LeastOf, Zenon
    <3>3. m \in 1 .. Len(s) /\ Fits(node, s[m], x, K)
      BY <2>8, <3>2, Zenon
    <3>4. ASSUME NEW j \in 1 .. m - 1 PROVE j \in 1 .. Len(s) /\ ~ (m <= j)
      BY <2>5, <3>3
    <3>5. \A j \in 1 .. m - 1 : ~ Fits(node, s[j], x, K)
      BY <2>8, <3>2, <3>4, Zenon
    <3> QED BY <1>2, <2>3, <2>6, <2>10, <3>1, <3>3, <3>5, Zenon DEF IsChild, IsFirst
  <2> QED BY <2>9, <2>10, Zenon
<1> QED BY <1>1, <1>2, Zenon

(* The way of find_dir *)
LEMMA DirLeads ==
  ASSUME NodesOK, NEW p, NEW P, p \in Seq(P)
  PROVE  Leads(node, p, "dir", Walk(p))
<1>1. PICK w, n : w = Walk(p) /\ n = Len(p)
  OBVIOUS
<1>2. /\ n \in Nat /\ w \in [0 .. n -> 0 .. Len(node)] /\ w[0] = ROOT
      /\ \A i \in 1 .. n : w[i] = Child(w[i - 1], p[i], {"dir"})
  BY <1>1, WalkIs, Zenon
<1>3. \A i \in 0 .. n : w[i] \in 0 .. Len(node)
  BY <1>2, Zenon
<1>4. \A i \in 1 .. n : i - 1 \in 0 .. n
  BY <1>2
<1>5. \A i : Kinds(p, "dir", i) = {"dir"}
  BY Zenon DEF Kinds
<1>6. \A i \in 1 .. n : IsChild(node, w[i - 1], p[i], {"dir"}, w[i])
  BY <1>2, <1>3, <1>4, ChildIs, Zenon
<1> QED BY <1>1, <1>2, <1>3, <1>5, <1>6, Zenon DEF Leads

(* The way of find_file *)
LEMMA FileLeads ==
  ASSUME NodesOK, NEW p, NEW P, p \in Seq(P), Len(p) >= 1
  PROVE  \E f : Leads(node, p, "file", f) /\ f[Len(p)] = find_file(p)
<1>1. PICK q, n : q = Front(p) /\ n = Len(p)
  OBVIOUS
<1>2. n \in Nat /\ n >= 1 /\ n - 1 \in Nat
  BY <1>1
<1>3. /\ q \in Seq(P) /\ Len(q) = n - 1 /\ \A i \in 1 .. n - 1 : q[i] = p[i]
      /\ Last(p) = p[n]
  BY <1>1, FrontIs, Zenon
<1>4. PICK w : w = Walk(q)
  OBVIOUS
<1>5. Leads(node, q, "dir", w)
  BY <1>3, <1>4, DirLeads, Zenon
<1>6. /\ w[0] = ROOT /\ \A i \in 0 .. n - 1 : w[i] \in 0 .. Len(node)
      /\ \A i \in 1 .. n - 1 : IsChild(node, w[i - 1], p[i], {"dir"}, w[i])
  <2>1. \A i : Kinds(q, "dir", i) = {"dir"}
    BY Zenon DEF Kinds
  <2> QED BY <1>3, <1>5, <2>1, Zenon DEF Leads
<1>7. find_dir(q) = w[n - 1]
  BY <1>3, <1>4, Zenon DEF find_dir
<1>8. PICK c : c = find_file(p)
  OBVIOUS
<1>9. c = Child(w[n - 1], p[n], {"file"}) /\ n - 1 \in 0 .. n - 1
  BY <1>1, <1>2, <1>3, <1>7, <1>8 DEF find_file
<1>10. c \in 0 .. Len(node) /\ IsChild(node, w[n - 1], p[n], {"file"}, c)
  BY <1>6, <1>9, ChildFound, ChildIs, Zenon
<1> DEFINE f == [i \in 0 .. n |-> IF i = n THEN c ELSE w[i]]
<1>11. f[0] = w[0] /\ f[n] = c /\ \A i \in 0 .. n - 1 : f[i] = w[i]
  BY <1>2
<1>12. \A i \in 0 .. n : i = n \/ i \in 0 .. n - 1
  BY <1>2
<1>13. \A i \in 0 .. n : f[i] \in 0 .. Len(node)
  <2> HIDE DEF f
  <2> QED BY <1>6, <1>10, <1>11, <1>12, Zenon
<1>14. ASSUME NEW i \in 1 .. n PROVE IsChild(node, f[i - 1], p[i], Kinds(p, "file", i), f[i])
  <2> HIDE DEF f
  <2>1. i - 1 \in 0 .. n - 1 /\ (i = n \/ (i \in 1 .. n - 1 /\ i \in 0 .. n - 1 /\ i # n))
    BY <1>2
  <2>2. CASE i = n
    BY <1>1, <1>10, <1>11, <2>1, <2>2, Zenon DEF Kinds
  <2>3. CASE i \in 1 .. n - 1 /\ i \in 0 .. n - 1 /\ i # n
    BY <1>1, <1>6, <1>11, <2>1, <2>3, Zenon DEF Kinds
  <2> QED BY <2>1, <2>2, <2>3, Zenon
<1> HIDE DEF f
<1>15. Leads(node, p, "file", f)
  BY <1>1, <1>6, <1>11, <1>13, <1>14, Zenon DEF Leads
<1> QED BY <1>1, <1>8, <1>11, <1>15, Zenon

(* So every path leads somewhere or to nothing. *)
LEMMA NodesWalkable == ASSUME NodesOK PROVE Walkable(node)
<1>1. ASSUME NEW p \in TreePaths PROVE \E f : Leads(node, p, "dir", f)
  BY TreePathsAre, DirLeads, Zenon
<1>2. ASSUME NEW p \in TreePaths PROVE \E f : Leads(node, p, "file", f)
  <2>1. p \in Seq(Seq(Letters)) /\ Len(p) >= 1
    BY TreePathsAre, Zenon
  <2> QED BY <2>1, FileLeads, Zenon
<1> QED BY <1>1, <1>2, Zenon DEF Walkable, Types

(* Two cells that are the same have the same parts. *)
SameCell(p, k, c, q, l, e) == Cell(p, k, c) = Cell(q, l, e)

(* As records do *)
LEMMA CellsApart ==
  ASSUME NEW p, NEW k, NEW c, NEW q, NEW l, NEW e, SameCell(p, k, c, q, l, e)
  PROVE  p = q /\ k = l /\ c = e
<1>1. Cell(p, k, c).path = p /\ Cell(p, k, c).kind = k /\ Cell(p, k, c).node = c
  BY Zenon DEF Cell
<1>2. Cell(q, l, e).path = q /\ Cell(q, l, e).kind = l /\ Cell(q, l, e).node = e
  BY Zenon DEF Cell
<1>3. PICK x : x = Cell(p, k, c) /\ x = Cell(q, l, e)
  BY Zenon DEF SameCell
<1>4. x.path = p /\ x.kind = k /\ x.node = c
  BY <1>1, <1>3, Zenon
<1>5. x.path = q /\ x.kind = l /\ x.node = e
  BY <1>2, <1>3, Zenon
<1> QED BY <1>4, <1>5, Zenon

(* The lookups find what is seen. *)
LEMMA VisibleIs == NodesOK /\ TreeOK(node) => Visible = Seen(node)
<1> SUFFICES ASSUME NodesOK, TreeOK(node) PROVE Visible = Seen(node)
  OBVIOUS
<1>1. Visible = {e \in {Cell(p, "dir", find_dir(p)) : p \in TreePaths} \cup
                       {Cell(p, "file", find_file(p)) : p \in TreePaths} : e.node # None}
  BY Zenon DEF Visible, Cell
<1>2. \A p, k, c : Cell(p, k, c).node = c
  BY Zenon DEF Cell
<1>3. AllCells(Visible)
  BY <1>1, Zenon DEF AllCells, Types
<1>4. "dir" # "file"
  OBVIOUS
<1>5. ASSUME NEW p \in TreePaths, NEW c
      PROVE  Cell(p, "dir", c) \in Visible <=> c = find_dir(p) /\ c # None
  <2>1. ASSUME Cell(p, "dir", c) \in Visible PROVE c = find_dir(p) /\ c # None
    <3>1. PICK q \in TreePaths : \/ Cell(p, "dir", c) = Cell(q, "dir", find_dir(q))
                                 \/ Cell(p, "dir", c) = Cell(q, "file", find_file(q))
      BY <1>1, <2>1, Zenon
    <3>2. Cell(p, "dir", c).node # None
      BY <1>1, <2>1, Zenon
    <3>3. CASE Cell(p, "dir", c) = Cell(q, "dir", find_dir(q))
      <4>1. SameCell(p, "dir", c, q, "dir", find_dir(q))
        BY <3>3, Zenon DEF SameCell
      <4>2. p = q /\ c = find_dir(q)
        BY <4>1, CellsApart, Zenon
      <4> QED BY <1>2, <3>2, <4>2, Zenon
    <3>4. CASE Cell(p, "dir", c) = Cell(q, "file", find_file(q))
      <4>1. SameCell(p, "dir", c, q, "file", find_file(q))
        BY <3>4, Zenon DEF SameCell
      <4> QED BY <1>4, <4>1, CellsApart, Zenon
    <3> QED BY <3>1, <3>3, <3>4, Zenon
  <2>2. ASSUME c = find_dir(p), c # None PROVE Cell(p, "dir", c) \in Visible
    BY <1>1, <1>2, <2>2, Zenon
  <2> QED BY <2>1, <2>2, Zenon
<1>6. ASSUME NEW p \in TreePaths, NEW c
      PROVE  Cell(p, "file", c) \in Visible <=> c = find_file(p) /\ c # None
  <2>1. ASSUME Cell(p, "file", c) \in Visible PROVE c = find_file(p) /\ c # None
    <3>1. PICK q \in TreePaths : \/ Cell(p, "file", c) = Cell(q, "dir", find_dir(q))
                                 \/ Cell(p, "file", c) = Cell(q, "file", find_file(q))
      BY <1>1, <2>1, Zenon
    <3>2. Cell(p, "file", c).node # None
      BY <1>1, <2>1, Zenon
    <3>3. CASE Cell(p, "file", c) = Cell(q, "file", find_file(q))
      <4>1. SameCell(p, "file", c, q, "file", find_file(q))
        BY <3>3, Zenon DEF SameCell
      <4>2. p = q /\ c = find_file(q)
        BY <4>1, CellsApart, Zenon
      <4> QED BY <1>2, <3>2, <4>2, Zenon
    <3>4. CASE Cell(p, "file", c) = Cell(q, "dir", find_dir(q))
      <4>1. SameCell(p, "file", c, q, "dir", find_dir(q))
        BY <3>4, Zenon DEF SameCell
      <4> QED BY <1>4, <4>1, CellsApart, Zenon
    <3> QED BY <3>1, <3>3, <3>4, Zenon
  <2>2. ASSUME c = find_file(p), c # None PROVE Cell(p, "file", c) \in Visible
    BY <1>1, <1>2, <2>2, Zenon
  <2> QED BY <2>1, <2>2, Zenon
<1>7. ASSUME NEW p \in TreePaths, NEW c PROVE Cell(p, "dir", c) \in Visible <=> Cell(p, "dir", c) \in Seen(node)
  <2>1. p \in Seq(Seq(Letters)) /\ "dir" \in Types
    BY TreePathsAre, Zenon DEF Types
  <2>2. Leads(node, p, "dir", Walk(p))
    BY <2>1, DirLeads, Zenon
  <2>3. Cell(p, "dir", c) \in Seen(node) <=> c = Walk(p)[Len(p)] /\ c # None
    BY <2>1, <2>2, SeenOnce, Zenon
  <2> QED BY <1>5, <2>3, Zenon DEF find_dir
<1>8. ASSUME NEW p \in TreePaths, NEW c PROVE Cell(p, "file", c) \in Visible <=> Cell(p, "file", c) \in Seen(node)
  <2>1. p \in Seq(Seq(Letters)) /\ Len(p) >= 1 /\ "file" \in Types
    BY TreePathsAre, Zenon DEF Types
  <2>2. PICK f : Leads(node, p, "file", f) /\ f[Len(p)] = find_file(p)
    BY <2>1, FileLeads, Zenon
  <2>3. Cell(p, "file", c) \in Seen(node) <=> c = f[Len(p)] /\ c # None
    BY <2>1, <2>2, SeenOnce, Zenon
  <2> QED BY <1>6, <2>2, <2>3, Zenon
<1>9. SameCells(Visible, Seen(node))
  BY <1>7, <1>8, Zenon DEF SameCells, Types
<1> QED BY <1>3, <1>9, SeenAllCells, CellsSame, Zenon
-----------------------------------------------------------------------------
(* delete leaves a directory without the entries of one name. *)
LEMMA KeptPruned ==
  ASSUME NodesOK, TreeOK(node), NEW d \in 1 .. Len(node), NEW x,
         node' = [node EXCEPT ![d].entries = Kept(d, x)]
  PROVE  Pruned(node, node', d, x)
<1>1. PICK s, t, M : s = node[d].entries /\ t = Kept(d, x) /\ M = node'
  OBVIOUS
<1>2. Without(node, s, Len(s), x, 1 .. Len(node), t)
  BY <1>1, KeptIs, Zenon
<1>3. t \in Seq(1 .. Len(node)) /\ Among(t, s, Len(s)) /\ FirstsKept(node, s, Len(s), x, t)
  BY <1>2, Zenon DEF Without
<1>4. OnlyEntries(M, d, t)
  BY <1>1, <1>3, UnlinkedOK, Zenon
<1>5. /\ Len(M) = Len(node) /\ M[d].entries = t /\ NamesKept(node, M)
      /\ \A n \in 1 .. Len(node) : n # d => M[n].entries = node[n].entries
  BY <1>4, Zenon DEF OnlyEntries
<1>6. Len(t) \in Nat /\ d # None /\ \A i \in 1 .. Len(t) : t[i] \in 1 .. Len(node)
  BY <1>3 DEF None
<1>7. Fewer(node, M)
  <2>1. ASSUME NEW c, EntryOf(M, c, d) PROVE EntryOf(node, c, d)
    <3>1. PICK h \in 1 .. Len(t) : c = t[h]
      BY <1>5, <2>1, Zenon DEF EntryOf
    <3>2. PICK j \in 1 .. Len(s) : t[h] = s[j]
      BY <1>3, Zenon DEF Among
    <3> QED BY <1>1, <3>1, <3>2, Zenon DEF EntryOf
  <2>2. ASSUME NEW n \in 1 .. Len(node), n # d, NEW c, EntryOf(M, c, n) PROVE EntryOf(node, c, n)
    BY <1>5, <2>2, Zenon DEF EntryOf
  <2>3. \A n \in 1 .. Len(node) : Len(M[n].entries) \in Nat
    BY <1>5, <1>6, Zenon DEF TreeOK
  <2> QED BY <1>5, <2>1, <2>2, <2>3, Zenon DEF Fewer
<1>8. ASSUME NEW y, NEW K, NEW c, IsChild(node, d, y, K, c)
      PROVE  IsChild(M, d, y, K, IF y = x THEN None ELSE c)
  <2>1. IsFirst(node, s, Len(s), y, K, c)
    BY <1>1, <1>6, <1>8, Zenon DEF IsChild
  <2>2. PICK b : b = IF y = x THEN None ELSE c
    OBVIOUS
  <2>3. IsFirst(node, t, Len(t), y, K, b)
    BY <1>3, <2>1, <2>2, Zenon DEF FirstsKept
  <2>4. IsFirst(M, t, Len(t), y, K, b)
    BY <1>5, <1>6, <2>3, SameFirst, Zenon
  <2> QED BY <1>5, <1>6, <2>2, <2>4, Zenon DEF IsChild
<1> QED BY <1>1, <1>5, <1>7, <1>8, Zenon DEF Pruned

(* What a step does to the tree: nothing, or a file is written, or an entry *)
(* made, or those of a name removed, or all of the root's.                  *)
Makes(N, M) == \E d \in 1 .. Len(N) : \E as, type : Grown(N, M, d, as, type)
Removes(N, M) == \E d \in 1 .. Len(N) : \E x : Pruned(N, M, d, x)

Changes(N, M) == M = N \/ SameTree(N, M) \/ Makes(N, M) \/ Removes(N, M) \/ Cleared(N, M)

(* create makes an entry. *)
LEMMA CreateChanges ==
  ASSUME RamfsInv, NEW c \in Caller, create_file(c) \/ create_dir(c)
  PROVE  Makes(node, node')
<1>1. /\ has_root(pc[c].path) /\ pc[c].path \in Paths /\ pc[c].dir \in 1 .. Len(node)
  BY Underway, Zenon DEF create_file, create_dir
<1>2. PICK p, d, as : p = pc[c].path /\ d = pc[c].dir /\ as = filename(p)[1]
  OBVIOUS
<1>3. p \in Seq(Seq(Letters)) /\ has_root(p) /\ d \in 1 .. Len(node)
  BY <1>1, <1>2, RamfsAssumption, Zenon
<1>4. filename(p) # NoPath
  BY <1>2, Zenon DEF create_file, create_dir
<1>5. as \in Seq(Letters)
  <2>1. /\ Len(p) \in Nat /\ Len(p) >= 2
        /\ ~ is_root(p) => filename(p) = <<Last(p)>>
        /\ is_root(p) => filename(p) = NoPath
    BY <1>3, ParentIs, Zenon
  <2>2. Last(p) \in Seq(Letters)
    BY <1>3, <2>1 DEF Last
  <2>3. \A x : <<x>>[1] = x
    OBVIOUS
  <2> QED BY <1>2, <1>4, <2>1, <2>2, <2>3, Zenon
<1>6. PICK type \in {"dir", "file"} : node' = Linked(d, as, type)
  BY <1>2, Zenon DEF create_file, create_dir
<1>7. Grown(node, node', d, as, type)
  BY <1>3, <1>5, <1>6, LinkedOK, Zenon DEF RamfsInv
<1> QED BY <1>3, <1>7, Zenon DEF Makes

(* delete removes entries, *)
LEMMA DeleteChanges ==
  ASSUME RamfsInv, TreeOK(node), NEW c \in Caller, delete(c)
  PROVE  Removes(node, node')
<1>1. PICK d, x : d = pc[c].dir /\ x = filename(pc[c].path)[1]
  OBVIOUS
<1>2. d \in 1 .. Len(node)
  BY <1>1, Underway, Zenon DEF delete
<1>3. node' = [node EXCEPT ![d].entries = Kept(d, x)]
  BY <1>1, Zenon DEF delete
<1>4. Pruned(node, node', d, x)
  BY <1>2, <1>3, KeptPruned, Zenon DEF RamfsInv
<1> QED BY <1>2, <1>4, Zenon DEF Removes

(* of the root all, *)
LEMMA DeleteRootChanges ==
  ASSUME RamfsInv, TreeOK(node), NEW c \in Caller, NEW p, delete_root(c, p)
  PROVE  Cleared(node, node')
<1>1. ROOT \in 1 .. Len(node) /\ <<>> \in Seq(1 .. Len(node)) /\ Len(<<>>) = 0 /\ 0 \in Nat
  BY DEF ROOT, TreeOK
<1>2. PICK M : M = node'
  OBVIOUS
<1>3. OnlyEntries(M, ROOT, <<>>)
  BY <1>1, <1>2, UnlinkedOK, Zenon DEF RamfsInv, delete_root
<1>4. /\ Len(M) = Len(node) /\ M[ROOT].entries = <<>>
      /\ \A n \in 1 .. Len(node) : n # ROOT => M[n].entries = node[n].entries
  BY <1>3, Zenon DEF OnlyEntries
<1>5. \A i \in 1 .. 0 : FALSE
  OBVIOUS
<1>6. \A e : ~ EntryOf(M, e, ROOT)
  BY <1>1, <1>4, <1>5, Zenon DEF EntryOf
<1>7. \A n \in 1 .. Len(node) : \A e : EntryOf(M, e, n) => EntryOf(node, e, n)
  BY <1>4, <1>6, Zenon DEF EntryOf
<1>8. \A n \in 1 .. Len(node) : Len(M[n].entries) \in Nat
  BY <1>1, <1>4, Zenon DEF TreeOK
<1> QED BY <1>1, <1>2, <1>4, <1>7, <1>8, Zenon DEF Cleared, Fewer

(* and write changes data only. *)
LEMMA WriteChanges ==
  ASSUME RamfsInv, NEW c \in Caller, NEW buf \in Buffers, write(c, buf)
  PROVE  SameTree(node, node')
<1>1. /\ handle[c].pos \in Nat /\ handle[c].file \in 1 .. Len(node)
      /\ Data(c) \in Seq(Bytes) /\ handle[c].pos <= Len(Data(c))
  BY InUse, Zenon DEF write
<1>2. PICK f, pos, s : f = handle[c].file /\ pos = handle[c].pos /\ s = Data(c)
  OBVIOUS
<1>3. buf \in Seq(Bytes)
  BY RamfsAssumption, Zenon
<1>4. f \in 1 .. Len(node) /\ s \in Seq(Bytes) /\ pos \in Nat /\ pos <= Len(s) /\ s = node[f].data
  BY <1>1, <1>2, Zenon DEF Data
<1>5. PICK b : b = Inserted(s, pos, buf)
  OBVIOUS
<1>6. b \in Seq(Bytes)
  BY <1>3, <1>4, <1>5, InsertedIs, Zenon
<1>7. node' = [node EXCEPT ![f].data = b]
  BY <1>1, <1>2, <1>4, <1>5, Zenon DEF write
<1> QED BY <1>4, <1>6, <1>7, WrittenOK, Zenon DEF RamfsInv

(* So does every step one of these things. *)
LEMMA StepChanges == ASSUME RamfsInv, TreeOK(node), [Next]_vars PROVE Changes(node, node')
<1> USE DEF Changes
<1>1. ASSUME UNCHANGED vars PROVE Changes(node, node')
  BY <1>1, Zenon DEF vars
<1>2. ASSUME NEW c \in Caller, NEW p \in Paths, CallStep(c, p) PROVE Changes(node, node')
  <2>1. CASE delete_root(c, p)
    BY <2>1, DeleteRootChanges, Zenon
  <2>2. CASE ~ delete_root(c, p)
    <3>1. node' = node
      BY <1>2, <2>2, Zenon DEF CallStep, not_absolute, create_lookup, open_file, delete_lookup,
        file_type_root, file_type_lookup, open_dir_lookup, Lookup
    <3> QED BY <3>1, Zenon
  <2> QED BY <2>1, <2>2, Zenon
<1>3. ASSUME NEW c \in Caller, create_file(c) \/ create_dir(c) PROVE Changes(node, node')
  BY <1>3, CreateChanges, Zenon
<1>4. ASSUME NEW c \in Caller, delete(c) PROVE Changes(node, node')
  BY <1>4, DeleteChanges, Zenon
<1>5. ASSUME NEW c \in Caller, NEW buf \in Buffers, write(c, buf) PROVE Changes(node, node')
  BY <1>5, WriteChanges, Zenon
<1>6. ASSUME NEW c \in Caller, create_panic(c) \/ file_type(c) \/ open_dir(c) PROVE Changes(node, node')
  BY <1>6, Zenon DEF create_panic, file_type, open_dir
<1>7. ASSUME NEW c \in Caller, NEW size \in ReadSizes, read(c, size) PROVE Changes(node, node')
  BY <1>7, Zenon DEF read
<1> HIDE DEF Changes
<1> QED BY <1>1, <1>2, <1>3, <1>4, <1>5, <1>6, <1>7, Zenon DEF Next

(* Each of them leaves a tree, and adds to what is seen or takes from it as *)
(* FileTree allows.                                                         *)
SeenMoves(S, T) == T = S \/ Appears(S, T) \/ Goes(S, T)

(* By the lemmas about trees *)
LEMMA ChangesMove ==
  ASSUME NEW N, TreeOK(N), Walkable(N), NEW M, Changes(N, M)
  PROVE  TreeOK(M) /\ SeenMoves(Seen(N), Seen(M))
<1>1. CASE M = N
  BY <1>1, Zenon DEF SeenMoves
<1>2. CASE SameTree(N, M)
  BY <1>2, SameTreeSeen, Zenon DEF SeenMoves
<1>3. CASE Makes(N, M)
  <2>1. PICK d \in 1 .. Len(N) : \E as, type : Grown(N, M, d, as, type)
    BY <1>3, Zenon DEF Makes
  <2>2. PICK as, type : Grown(N, M, d, as, type)
    BY <2>1, Zenon
  <2> QED BY <2>2, GrownOK, GrownSeen, Zenon DEF SeenMoves
<1>4. CASE Removes(N, M)
  <2>1. PICK d \in 1 .. Len(N) : \E x : Pruned(N, M, d, x)
    BY <1>4, Zenon DEF Removes
  <2>2. PICK x : Pruned(N, M, d, x)
    BY <2>1, Zenon
  <2>3. TreeOK(M)
    BY <2>2, FewerOK, Zenon DEF Pruned
  <2> QED BY <2>2, <2>3, PrunedSeen, Zenon DEF SeenMoves
<1>5. CASE Cleared(N, M)
  BY <1>5, ClearedSeen, Zenon DEF SeenMoves
<1> QED BY <1>1, <1>2, <1>3, <1>4, <1>5, Zenon DEF Changes

(* The invariant of the refinement: what callers see is what a tree shows. *)
TreeInv == RamfsInv /\ TreeOK(node) /\ Visible = Seen(node)

(* At first nothing is seen, *)
LEMMA TreeInit == Init => TreeInv /\ Visible = {}
<1> SUFFICES ASSUME Init PROVE TreeInv /\ Visible = {}
  OBVIOUS
<1>1. RamfsInv
  BY RamfsInit, Zenon
<1>2. PICK n : n = [name |-> Empty, kind |-> "dir", entries |-> <<>>, data |-> <<>>]
  BY Zenon
<1>3. node = <<n>> /\ n.entries = <<>>
  BY <1>2, Zenon DEF Init
<1>4. Len(node) = 1 /\ node[1].entries = <<>> /\ \A d \in 1 .. 1 : d = 1
  BY <1>3
<1>5. Len(<<>>) = 0 /\ 0 \in Nat /\ 1 \in Nat /\ 1 >= 1 /\ \A i \in 1 .. 0 : FALSE
  OBVIOUS
<1>6. \A d \in 1 .. 1 : \A c : ~ EntryOf(node, c, d)
  BY <1>4, <1>5, Zenon DEF EntryOf
<1>7. TreeOK(node)
  BY <1>4, <1>5, <1>6, Zenon DEF TreeOK
<1>8. Len(node[ROOT].entries) = 0
  BY <1>4, <1>5, Zenon DEF ROOT
<1>9. Seen(node) = {}
  BY <1>7, <1>8, EmptySeen, Zenon
<1> QED BY <1>1, <1>7, <1>9, VisibleIs, Zenon DEF TreeInv, RamfsInv

(* and every step moves what callers see as FileTree allows. *)
LEMMA TreeStep == ASSUME TreeInv, [Next]_vars PROVE TreeInv' /\ SeenMoves(Visible, Visible')
<1>1. RamfsInv'
  BY RamfsStep, Zenon DEF TreeInv
<1>2. Changes(node, node')
  BY StepChanges, Zenon DEF TreeInv
<1>3. TreeOK(node') /\ SeenMoves(Seen(node), Seen(node'))
  BY <1>2, NodesWalkable, ChangesMove, Zenon DEF TreeInv, RamfsInv
<1>4. (NodesOK /\ TreeOK(node) => Visible = Seen(node))'
  BY VisibleIs, PTL
<1> QED BY <1>1, <1>3, <1>4, Zenon DEF TreeInv, RamfsInv
=============================================================================
