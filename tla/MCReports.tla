----------------------------- MODULE MCReports -----------------------------
(***************************************************************************)
(* Screens, symbols and tests for Reports                                  *)
(***************************************************************************)
EXTENDS Reports

Screen(w, h, padding) ==
  [width |-> w, height |-> h, bytes_per_pixel |-> 4, bytes_per_row |-> 4 * w + padding]

(* One to four characters a line, one to three lines, with pixels left over *)
(* to the right and below, or one too few for the line's last character     *)
(* (17, 26), and rows with and without padding.                             *)
MCScreens ==
  {Screen(w, h, p) : w \in {9, 16, 17, 18, 25, 26, 30, 43}, h \in {16, 31, 47, 50}, p \in {0, 12}}

Line(a, n) == [addr |-> a, name |-> n]

(* A symbol before the kernel, a function with two names, a line without a  *)
(* name inside one and at the start of another, functions of one byte and   *)
(* side by side; a handler, and an entry whose call is its end.             *)
MCSymbols ==
  <<Line(1, "early"), Line(3, "a"), Line(3, "alias"), Line(4, "none"),
    Line(5, "none"), Line(5, "b"), Line(6, "handler"), Line(7, "entry"), Line(8, "end")>>
Handler == [start |-> 6, end |-> 6]
Entry == [start |-> 7, end |-> 7]
MCFunctions == {[start |-> 3, end |-> 4], [start |-> 5, end |-> 5], Handler, Entry}
MCWrappers == {Handler}
MCEntries == {Entry}

MCScripts ==
  {<<>>, <<"print", "printed">>, <<"should_panic">>, <<"should_panic", "panic">>,
   <<"lock", "unlock", "panic">>, <<"lock", "should_panic", "unlock">>, <<"lock", "panic">>,
   <<"should_panic", "print", "panic">>}
=============================================================================
