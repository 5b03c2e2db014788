-------------------------------- MODULE Path --------------------------------
(***************************************************************************)
(* src/src/fs/path.rs.  A path is a string, and everything the code does    *)
(* with it but one thing happens at its slashes, so a path is the sequence  *)
(* of the parts between them: "/usr/foo" is <<"", "usr", "foo">>, "/" is     *)
(* <<"", "">> and "" is <<"">>.  Strings and non-empty sequences of parts    *)
(* correspond one to one.  relative_to compares characters, so a part is     *)
(* the sequence of its letters.  None is the empty sequence, NoPath.         *)
(***************************************************************************)
EXTENDS Integers, Sequences

(* As in SequencesExt and FiniteSetsExt, of which the file systems need     *)
(* nothing else                                                             *)
Front(s) == SubSeq(s, 1, Len(s) - 1)
Last(s) == s[Len(s)]
IsPrefix(s, t) == Len(s) <= Len(t) /\ SubSeq(s, 1, Len(s)) = SubSeq(t, 1, Len(s))

Min(S) == CHOOSE x \in S : \A y \in S : x <= y
Max(S) == CHOOSE x \in S : \A y \in S : x >= y

NoPath == <<>>
Empty == <<>>                   \* the part before a leading slash

root == <<Empty, Empty>>

has_root(p) == Len(p) > 1 /\ Head(p) = Empty

is_root(p) == p = root

(* rsplit_once('/'); an empty rest is the root. *)
parent(p) ==
  IF Len(p) = 1 THEN NoPath
  ELSE IF Front(p) = <<Empty>> THEN root ELSE Front(p)

top_folder(p) ==
  IF has_root(p) THEN root
  ELSE IF Len(p) = 1 THEN NoPath ELSE <<Head(p)>>

filename(p) == IF parent(p) \notin {NoPath, p} THEN <<Last(p)>> ELSE NoPath

(* split_once('/'): top and rest, both paths. *)
split_from_top(p) == IF Len(p) = 1 THEN NoPath ELSE <<<<Head(p)>>, Tail(p)>>

(* Mutant: a slash in front of the rest is kept. *)
strip_slash_not(p) == p

(* strip_prefix("/").unwrap_or(e) *)
strip_slash(p) == IF has_root(p) THEN Tail(p) ELSE p

(* The text of q is the beginning of the text of p. *)
starts_with(p, q) ==
  LET k == Len(q) IN
  /\ Len(p) >= k
  /\ SubSeq(p, 1, k - 1) = Front(q)
  /\ IsPrefix(Last(q), p[k])

relative_to(p, q) ==
  LET k == Len(q)
      rest == SubSeq(p[k], Len(Last(q)) + 1, Len(p[k])) IN
  IF starts_with(p, q) THEN strip_slash(<<rest>> \o SubSeq(p, k + 1, Len(p)))
  ELSE NoPath

(* PathBuf + &Path puts the two strings together, without a slash. *)
add(p, q) == Front(p) \o <<Last(p) \o Head(q)>> \o Tail(q)
=============================================================================
