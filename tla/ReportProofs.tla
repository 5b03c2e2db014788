---------------------------- MODULE ReportProofs ----------------------------
(***************************************************************************)
(* The reports of the kernel: the console stays in the framebuffer and     *)
(* overwrites nothing on every screen, and panics at the end of a line     *)
(* only, on a screen whose width is 9 k + 8; the test runner counts its    *)
(* tests; the stack trace names the functions on the stack.                *)
(***************************************************************************)
EXTENDS Reports, FiniteSetTheorems, SequenceTheorems, NaturalsInduction,
        WellFoundedInduction, TLAPS

(* The cursor is at a multiple of a character and its space, where the wrap *)
(* checks of print_char_colored put it.                                     *)
CursorFits ==
  /\ \E k \in Nat : cursor_pos.x = 9 * k
  /\ cursor_pos.x + CHAR_WIDTH <= screen.width
  /\ cursor_pos.y + CHAR_HEIGHT <= screen.height

Positions == [x : Nat, y : Nat]

IInv ==
  /\ screen \in Screens
  /\ cursor_pos \in Positions
  /\ text \subseteq Positions
  /\ panicked \in BOOLEAN /\ PanicsAtEdge
  /\ overrun = FALSE
  /\ CursorFits
  /\ NothingOverdrawn

(* What the assumption on the screens says of one of them. *)
LEMMA ScreenFacts ==
  ASSUME NEW s \in Screens
  PROVE  /\ s.width \in Nat /\ s.height \in Nat /\ s.bytes_per_row \in Nat
         /\ s.bytes_per_pixel = 4
         /\ s.width > 8 /\ s.height >= 16
         /\ s.bytes_per_row >= s.width * 4
BY ScreensAssumption DEF PixelBytes, CHAR_WIDTH, CHAR_HEIGHT

(* A pixel of the screen ends inside its row, and its row inside the        *)
(* framebuffer: the arithmetic behind write_pixel's safety comment.         *)
LEMMA PixelInside ==
  ASSUME NEW w \in Nat, NEW h \in Nat, NEW r \in Nat, r >= w * 4,
         NEW x \in Nat, NEW y \in Nat, x < w, y < h
  PROVE  x * 4 + y * r + 4 <= r * h
<1>1. PICK d \in Nat : h = y + 1 + d
  <2>1. h - y - 1 \in Nat /\ h = y + 1 + (h - y - 1)  OBVIOUS
  <2> QED  BY <2>1
<1>2. r * h = r * y + r + r * d  BY <1>1
<1>3. r * d \in Nat  OBVIOUS
<1>4. x * 4 + 4 <= r  OBVIOUS
<1>5. y * r = r * y /\ r * y \in Nat  OBVIOUS
<1> HIDE <1>1
<1> QED  BY <1>2, <1>3, <1>4, <1>5

(* draw_all stays in the framebuffer. *)
LEMMA DrawAllInside ==
  ASSUME NEW s \in Screens
  PROVE  draw_all_overruns(s) = FALSE
<1> SUFFICES ASSUME NEW y \in 0 .. s.height - 1, NEW x \in 0 .. s.width - 1
             PROVE  ~ Outside(s, y * s.bytes_per_row + x * s.bytes_per_pixel)
  BY DEF draw_all_overruns
<1>1. s.width \in Nat /\ s.height \in Nat /\ s.bytes_per_row \in Nat
  BY ScreenFacts
<1>2. x \in Nat /\ y \in Nat /\ x < s.width /\ y < s.height  BY <1>1
<1>3. x * 4 + y * s.bytes_per_row + 4 <= s.bytes_per_row * s.height
  BY <1>1, <1>2, ScreenFacts, PixelInside
<1>4. PICK p : p = y * s.bytes_per_row  OBVIOUS
<1>5. p \in Nat  BY <1>1, <1>2, <1>4
<1>6. PICK q : q = s.bytes_per_row * s.height  OBVIOUS
<1>7. q \in Nat  BY <1>1, <1>6
<1>8. x * 4 + p + 4 <= q  BY <1>3, <1>4, <1>6
<1>9. p + x * 4 + 4 <= q  BY <1>2, <1>5, <1>7, <1>8
<1> QED  BY <1>2, <1>4, <1>5, <1>6, <1>7, <1>9, ScreenFacts DEF Outside, PixelBytes

(* A character that draw_pixel accepts stays in the framebuffer. *)
LEMMA DrawCharInside ==
  ASSUME screen \in Screens, NEW x \in Nat, NEW y \in Nat, draw_char_asserts(x, y)
  PROVE  draw_char_overruns(x, y) = FALSE
<1> SUFFICES ASSUME NEW px \in Columns(x), NEW py \in Rows(y)
             PROVE  ~ Outside(screen, Offset(screen, px, py))
  BY DEF draw_char_overruns
<1>1. screen.width \in Nat /\ screen.height \in Nat /\ screen.bytes_per_row \in Nat
  BY ScreenFacts
<1>2. px \in Nat /\ py \in Nat  BY DEF Columns, Rows, CHAR_WIDTH, CHAR_HEIGHT
<1>3. px < screen.width /\ py < screen.height  BY DEF draw_char_asserts
<1>4. px * 4 + py * screen.bytes_per_row + 4 <= screen.bytes_per_row * screen.height
  BY <1>1, <1>2, <1>3, ScreenFacts, PixelInside
<1>5. screen.bytes_per_pixel = 4  BY ScreenFacts
<1>6. Offset(screen, px, py) = px * 4 + py * screen.bytes_per_row  BY <1>5, Zenon DEF Offset
<1>7. PICK o : o = px * 4 + py * screen.bytes_per_row  OBVIOUS
<1>8. PICK q : q = screen.bytes_per_row * screen.height  OBVIOUS
<1>9. o \in Nat /\ q \in Nat  BY <1>1, <1>2, <1>7, <1>8
<1>10. o + 4 <= q  BY <1>4, <1>7, <1>8, Zenon
<1>11. ~ (o + 4 > q)  BY <1>9, <1>10
<1> QED  BY <1>6, <1>7, <1>8, <1>11, Zenon DEF Outside, PixelBytes

(* At a cursor that fits draw_pixel accepts all pixels, unless the eight    *)
(* pixels from it on are the last of the row.                               *)
LEMMA CharFits ==
  ASSUME screen \in Screens, cursor_pos \in Positions, CursorFits,
         ~ draw_char_asserts(cursor_pos.x, cursor_pos.y)
  PROVE  /\ cursor_pos.x + CHAR_WIDTH = screen.width
         /\ screen.width % (CHAR_WIDTH + SPACE_BETWEEN_CHARS) = CHAR_WIDTH
<1>1. screen.width \in Nat /\ screen.height \in Nat  BY ScreenFacts
<1>2. cursor_pos.x \in Nat /\ cursor_pos.y \in Nat  BY DEF Positions
<1>3. cursor_pos.x + 8 <= screen.width /\ cursor_pos.y + 16 <= screen.height
  BY DEF CursorFits, CHAR_WIDTH, CHAR_HEIGHT
<1>4. ASSUME cursor_pos.x + 8 < screen.width
      PROVE  draw_char_asserts(cursor_pos.x, cursor_pos.y)
  BY <1>1, <1>2, <1>3, <1>4 DEF draw_char_asserts, Columns, Rows, CHAR_WIDTH, CHAR_HEIGHT
<1>5. cursor_pos.x + 8 = screen.width  BY <1>1, <1>2, <1>3, <1>4
<1>6. PICK k \in Nat : cursor_pos.x = 9 * k  BY DEF CursorFits
<1>7. screen.width = 9 * k + 8  BY <1>5, <1>6
<1>8. ASSUME NEW n \in Nat PROVE (9 * n + 8) % 9 = 8  OBVIOUS
<1> QED  BY <1>5, <1>7, <1>8 DEF CHAR_WIDTH, SPACE_BETWEEN_CHARS

(* next_line gives a line of the screen, the first one or one further down. *)
LEMMA NextLineFits ==
  ASSUME screen \in Screens, NEW y \in Nat
  PROVE  /\ next_line(y) \in Nat
         /\ next_line(y) + CHAR_HEIGHT <= screen.height
         /\ next_line(y) = 0 \/ next_line(y) = y + CHAR_HEIGHT
BY ScreenFacts DEF next_line, CHAR_HEIGHT

(* The cursor moves to a position that fits and is after what was written,  *)
(* or to the top left, where nothing counts as written.                     *)
LEMMA WrittenFits ==
  ASSUME screen \in Screens, screen' = screen,
         NEW pos \in Positions, NEW drawn \in SUBSET Positions,
         Written(pos, drawn),
         \E k \in Nat : pos.x = 9 * k,
         pos.x + CHAR_WIDTH <= screen.width, pos.y + CHAR_HEIGHT <= screen.height,
         pos # Origin => \A p \in drawn :
                           \/ p.y + CHAR_HEIGHT <= pos.y
                           \/ p.y = pos.y /\ p.x + CHAR_WIDTH < pos.x + 1
  PROVE  cursor_pos' \in Positions /\ text' \subseteq Positions /\ CursorFits' /\ NothingOverdrawn'
BY DEF Written, CursorFits, NothingOverdrawn

(* A newline keeps the invariant. *)
LEMMA NewlineStep ==
  ASSUME IInv, newline
  PROVE  IInv'
<1> DEFINE pos == [x |-> 0, y |-> next_line(cursor_pos.y)]
<1>1. cursor_pos.x \in Nat /\ cursor_pos.y \in Nat  BY DEF IInv, Positions
<1>2. screen \in Screens /\ screen' = screen  BY DEF IInv, newline
<1>3. /\ next_line(cursor_pos.y) \in Nat
      /\ next_line(cursor_pos.y) + CHAR_HEIGHT <= screen.height
      /\ next_line(cursor_pos.y) = 0 \/ next_line(cursor_pos.y) = cursor_pos.y + CHAR_HEIGHT
  BY <1>1, <1>2, NextLineFits
<1>4. pos \in Positions  BY <1>3 DEF Positions
<1>5. pos.x = 9 * 0 /\ pos.x + CHAR_WIDTH <= screen.width
  BY <1>2, ScreenFacts DEF CHAR_WIDTH
<1>6. ASSUME pos # Origin, NEW p \in text
      PROVE  p.y + CHAR_HEIGHT <= pos.y
  <2>1. next_line(cursor_pos.y) = cursor_pos.y + CHAR_HEIGHT  BY <1>3, <1>6 DEF Origin
  <2>2. p.y \in Nat /\ p.y <= cursor_pos.y
    BY <1>1, <1>6 DEF IInv, NothingOverdrawn, Positions, CHAR_HEIGHT
  <2> QED  BY <1>1, <2>1, <2>2 DEF CHAR_HEIGHT
<1>7. Written(pos, text)  BY DEF newline
<1>8. text \in SUBSET Positions  BY DEF IInv
<1> HIDE DEF pos
<1>9. cursor_pos' \in Positions /\ text' \subseteq Positions /\ CursorFits' /\ NothingOverdrawn'
  <2>1. \E k \in Nat : pos.x = 9 * k  BY <1>5
  <2>2. pos.y + CHAR_HEIGHT <= screen.height  BY <1>3 DEF pos
  <2> QED  BY <1>2, <1>4, <1>5, <1>6, <1>7, <1>8, <2>1, <2>2, WrittenFits
<1>10. panicked' \in BOOLEAN /\ PanicsAtEdge' /\ overrun' = FALSE
  BY DEF IInv, newline, PanicsAtEdge
<1> QED  BY <1>2, <1>9, <1>10 DEF IInv

(* A character that is drawn keeps the invariant: the cursor is put behind  *)
(* it or in the next line.                                                  *)
LEMMA CharStep ==
  ASSUME IInv, print_char_colored, draw_char_asserts(cursor_pos.x, cursor_pos.y)
  PROVE  IInv'
<1> DEFINE x == cursor_pos.x
<1> DEFINE y == cursor_pos.y
<1> DEFINE pos == advance(x, y)
<1> DEFINE drawn == text \cup {cursor_pos}
<1>1. x \in Nat /\ y \in Nat  BY DEF IInv, Positions
<1>2. screen \in Screens /\ screen' = screen  BY DEF IInv, print_char_colored
<1>3. draw_char_asserts(x, y)  OBVIOUS
<1>4. draw_char_overruns(x, y) = FALSE  BY <1>1, <1>2, <1>3, DrawCharInside, Zenon
<1>5. Written(pos, drawn) /\ overrun' = FALSE /\ panicked' \in BOOLEAN /\ PanicsAtEdge'
  <2>1. Written(pos, drawn) /\ overrun' = (overrun \/ draw_char_overruns(x, y))
        /\ panicked' = panicked /\ ~ panicked
    BY <1>3, Zenon DEF print_char_colored
  <2>2. overrun' = FALSE  BY <1>4, <2>1, Zenon DEF IInv
  <2>3. panicked' \in BOOLEAN /\ PanicsAtEdge'  BY <2>1 DEF IInv, PanicsAtEdge
  <2> QED  BY <2>1, <2>2, <2>3
<1>6. drawn \in SUBSET Positions  BY DEF IInv
<1>7. screen.width \in Nat /\ screen.height \in Nat /\ screen.width > 8  BY <1>2, ScreenFacts
<1>8. \A p \in drawn : /\ p.x \in Nat /\ p.y \in Nat
                       /\ p.y <= y
                       /\ (p.y + 16 <= y \/ (p.y = y /\ p.x <= x))
  <2> SUFFICES ASSUME NEW p \in drawn
               PROVE  /\ p.x \in Nat /\ p.y \in Nat
                      /\ p.y <= y
                      /\ (p.y + 16 <= y \/ (p.y = y /\ p.x <= x))
    OBVIOUS
  <2>1. p.x \in Nat /\ p.y \in Nat  BY <1>6 DEF Positions
  <2>2. CASE p = cursor_pos  BY <1>1, <2>2
  <2>3. CASE p \in text
    <3>1. p.y + 16 <= y \/ (p.y = y /\ p.x + 8 < x + 1)
      BY <2>3 DEF IInv, NothingOverdrawn, CHAR_HEIGHT, CHAR_WIDTH
    <3> QED  BY <1>1, <2>1, <3>1
  <2> QED  BY <2>2, <2>3
<1>9. CASE x + 17 > screen.width
  <2>1. pos = [x |-> 0, y |-> next_line(y)]
    BY <1>1, <1>9 DEF advance, CHAR_WIDTH, SPACE_BETWEEN_CHARS
  <2>2. /\ next_line(y) \in Nat
        /\ next_line(y) + CHAR_HEIGHT <= screen.height
        /\ next_line(y) = 0 \/ next_line(y) = y + CHAR_HEIGHT
    BY <1>1, <1>2, NextLineFits
  <2>3. pos \in Positions /\ pos.x = 9 * 0 /\ pos.y = next_line(y)  BY <2>1, <2>2 DEF Positions
  <2>4. ASSUME pos # Origin, NEW p \in drawn
        PROVE  p.y + CHAR_HEIGHT <= pos.y
    <3>1. pos.y = y + CHAR_HEIGHT  BY <2>1, <2>2, <2>3, <2>4 DEF Origin
    <3> QED  BY <1>1, <1>8, <2>4, <3>1 DEF CHAR_HEIGHT
  <2>5. pos.x + CHAR_WIDTH <= screen.width  BY <1>7, <2>3 DEF CHAR_WIDTH
  <2>6. \E k \in Nat : pos.x = 9 * k  BY <2>3
  <2>7. pos.y + CHAR_HEIGHT <= screen.height  BY <2>2, <2>3
  <2> HIDE DEF pos, drawn
  <2>8. cursor_pos' \in Positions /\ text' \subseteq Positions /\ CursorFits' /\ NothingOverdrawn'
    BY <1>2, <1>5, <1>6, <2>3, <2>4, <2>5, <2>6, <2>7, WrittenFits
  <2> QED  BY <1>2, <1>5, <2>8 DEF IInv
<1>10. CASE ~ (x + 17 > screen.width)
  <2>1. pos = [x |-> x + 9, y |-> y]
    BY <1>1, <1>7, <1>10 DEF advance, CHAR_WIDTH, SPACE_BETWEEN_CHARS
  <2>2. pos \in Positions /\ pos.x = x + 9 /\ pos.y = y  BY <1>1, <2>1 DEF Positions
  <2>3. \E k \in Nat : pos.x = 9 * k
    <3>1. PICK k \in Nat : x = 9 * k  BY DEF IInv, CursorFits
    <3>2. pos.x = 9 * (k + 1)  BY <2>2, <3>1
    <3>3. k + 1 \in Nat  OBVIOUS
    <3> HIDE DEF pos
    <3> QED  BY <3>2, <3>3
  <2>4. pos.x + CHAR_WIDTH <= screen.width  BY <1>1, <1>7, <1>10, <2>2 DEF CHAR_WIDTH
  <2>5. pos.y + CHAR_HEIGHT <= screen.height  BY <2>2 DEF IInv, CursorFits
  <2>6. ASSUME NEW p \in drawn
        PROVE  \/ p.y + CHAR_HEIGHT <= pos.y
               \/ p.y = pos.y /\ p.x + CHAR_WIDTH < pos.x + 1
    <3>1. /\ p.x \in Nat /\ p.y \in Nat
          /\ (p.y + 16 <= y \/ (p.y = y /\ p.x <= x))
      BY <1>8, <2>6
    <3>2. pos.x \in Nat /\ pos.x = x + 9 /\ pos.y = y  BY <1>1, <2>2
    <3> HIDE DEF pos, x, y
    <3> QED  BY <1>1, <3>1, <3>2 DEF CHAR_HEIGHT, CHAR_WIDTH
  <2> HIDE DEF pos, drawn
  <2>7. cursor_pos' \in Positions /\ text' \subseteq Positions /\ CursorFits' /\ NothingOverdrawn'
    BY <1>2, <1>5, <1>6, <2>2, <2>3, <2>4, <2>5, <2>6, WrittenFits
  <2> QED  BY <1>2, <1>5, <2>7 DEF IInv
<1> QED  BY <1>9, <1>10

(* clear keeps the invariant. *)
LEMMA ClearStep ==
  ASSUME IInv, clear
  PROVE  IInv'
<1>1. screen \in Screens /\ screen' = screen  BY DEF IInv, clear
<1>2. overrun' = FALSE /\ panicked' \in BOOLEAN /\ PanicsAtEdge'
  <2>1. panicked' = panicked /\ ~ panicked  BY DEF clear
  <2>2. panicked' \in BOOLEAN /\ PanicsAtEdge'  BY <2>1 DEF IInv, PanicsAtEdge
  <2> QED  BY <1>1, <2>2, DrawAllInside, Zenon DEF IInv, clear
<1>3. cursor_pos' = Origin /\ text' = {}  BY DEF clear, Written
<1>4. CursorFits'
  <2>1. cursor_pos'.x = 9 * 0 /\ cursor_pos'.y = 0  BY <1>3 DEF Origin
  <2> QED  BY <1>1, <2>1, ScreenFacts DEF CursorFits, CHAR_WIDTH, CHAR_HEIGHT
<1> QED  BY <1>1, <1>2, <1>3, <1>4 DEF IInv, NothingOverdrawn, Positions, Origin

(* On every screen the console never writes outside the framebuffer, never  *)
(* draws over text before it starts again at the top, and panics only at    *)
(* the end of a line, on a screen whose width is 9 k + 8, whatever is       *)
(* printed.                                                                 *)
THEOREM ConsoleSafe == Spec => [](PanicsAtEdge /\ BytesInside /\ NothingOverdrawn)
<1>1. Init => IInv
  <2> SUFFICES ASSUME Init PROVE IInv  OBVIOUS
  <2>1. screen \in Screens /\ cursor_pos = Origin /\ text = {} /\ panicked = FALSE
    BY DEF Init
  <2>2. overrun = FALSE  BY <2>1, DrawAllInside, Zenon DEF Init
  <2>3. CursorFits
    <3>1. cursor_pos.x = 9 * 0 /\ cursor_pos.y = 0  BY <2>1 DEF Origin
    <3> QED  BY <2>1, <3>1, ScreenFacts DEF CursorFits, CHAR_WIDTH, CHAR_HEIGHT
  <2>4. panicked \in BOOLEAN /\ PanicsAtEdge  BY <2>1, Zenon DEF PanicsAtEdge
  <2> QED  BY <2>1, <2>2, <2>3, <2>4 DEF IInv, NothingOverdrawn, Positions, Origin
<1>2. IInv /\ [Next]_vars => IInv'
  <2> SUFFICES ASSUME IInv, [Next]_vars PROVE IInv'  OBVIOUS
  <2>1. CASE newline  BY <2>1, NewlineStep
  <2>2. CASE print_char_colored
    <3>1. CASE draw_char_asserts(cursor_pos.x, cursor_pos.y)  BY <2>2, <3>1, CharStep
    <3>2. CASE ~ draw_char_asserts(cursor_pos.x, cursor_pos.y)
      <4>1. panicked' = TRUE /\ UNCHANGED <<screen, cursor_pos, overrun, text>>
        BY <2>2, <3>2 DEF print_char_colored
      <4>2. /\ cursor_pos.x + CHAR_WIDTH = screen.width
            /\ screen.width % (CHAR_WIDTH + SPACE_BETWEEN_CHARS) = CHAR_WIDTH
        BY <3>2, CharFits DEF IInv
      <4> QED  BY <4>1, <4>2 DEF IInv, PanicsAtEdge, CursorFits, NothingOverdrawn
    <3> QED  BY <3>1, <3>2
  <2>3. CASE clear  BY <2>3, ClearStep
  <2>4. CASE UNCHANGED vars
    BY <2>4 DEF vars, IInv, CursorFits, NothingOverdrawn, PanicsAtEdge
  <2> QED  BY <2>1, <2>2, <2>3, <2>4 DEF Next
<1>3. IInv => PanicsAtEdge /\ BytesInside /\ NothingOverdrawn
  BY DEF IInv, BytesInside
<1> QED  BY <1>1, <1>2, <1>3, PTL DEF Spec

-----------------------------------------------------------------------------
(* TestRunner *)

(* The first n tests that pass *)
Passed(n) == {i \in 1 .. n : Tests!Passes(tests[i])}

(* should_panic! has been called in this test. *)
Announced == \E j \in 1 .. step - 1 : Tests!Script[j] = "should_panic"

(* The counts are those of the tests that are over; the flag says whether   *)
(* the current one called should_panic!.                                    *)
TestInv ==
  /\ tests \in Seq(Scripts)
  /\ phase \in {"start", "begin", "run", "panic", "done"}
  /\ tests # <<>> =>
       /\ current_test \in 0 .. Len(tests) /\ success_tests_num \in Nat /\ failed_tests_num \in Nat
       /\ success_tests_num = Cardinality(Passed(current_test))
       /\ success_tests_num + failed_tests_num = current_test
       /\ phase = "start" => current_test = 0
       /\ phase = "begin" => current_test < Len(tests)
       /\ phase \in {"start", "begin"} => step = 1 /\ should_current_test_panic = FALSE
       /\ phase \in {"run", "panic"} =>
            /\ current_test < Len(tests) /\ step \in 1 .. Len(Tests!Script) + 1
            /\ should_current_test_panic = Announced
            /\ \A j \in 1 .. step - 1 : Tests!Script[j] # "panic"
       /\ phase = "panic" => step <= Len(Tests!Script) /\ Tests!Script[step] = "panic"
       /\ phase = "done" => current_test = Len(tests)

(* The cardinality that the model takes is the one of the theorems. *)
LEMMA SameCardinality == \A S : Tests!Cardinality(S) = Cardinality(S)
BY Zenon DEF Tests!Cardinality, Cardinality, Tests!IsFiniteSet, IsFiniteSet

(* No test is over before the first. *)
LEMMA TestInit == Tests!Init => TestInv
<1> SUFFICES ASSUME Tests!Init PROVE TestInv
  OBVIOUS
<1>1. tests \in Seq(Scripts)
  BY DEF Tests!Init
<1>2. Passed(0) = {}
  BY DEF Passed
<1>3. Cardinality(Passed(0)) = 0
  BY <1>2, FS_EmptySet
<1>4. Len(tests) \in Nat
  BY <1>1
<1> QED BY <1>1, <1>3, <1>4 DEF Tests!Init, TestInv

(* The number of passed tests grows by one with a test that passes. *)
LEMMA OneMore ==
  ASSUME NEW n \in Nat
  PROVE  /\ Cardinality(Passed(n)) \in Nat
         /\ Cardinality(Passed(n + 1)) =
              Cardinality(Passed(n)) + (IF Tests!Passes(tests[n + 1]) THEN 1 ELSE 0)
<1>1. IsFiniteSet(Passed(n))
  <2>1. IsFiniteSet(1 .. n)
    BY FS_Interval
  <2> QED BY <2>1, FS_Subset DEF Passed
<1>2. Cardinality(Passed(n)) \in Nat
  BY <1>1, FS_CardinalityType
<1>3. Passed(n + 1) = IF Tests!Passes(tests[n + 1]) THEN Passed(n) \cup {n + 1} ELSE Passed(n)
  <2>1. 1 .. n + 1 = (1 .. n) \cup {n + 1} /\ n + 1 \notin 1 .. n
    OBVIOUS
  <2> QED BY <2>1 DEF Passed
<1>4. n + 1 \notin Passed(n)
  BY DEF Passed
<1>5. Cardinality(Passed(n) \cup {n + 1}) = Cardinality(Passed(n)) + 1
  BY <1>1, <1>4, FS_AddElement
<1> QED BY <1>2, <1>3, <1>5

(* What run_test and the panic handler make of a test is what it does. *)
LEMMA Verdict ==
  ASSUME Tests!ScriptsOK, TestInv, tests # <<>>, phase \in {"run", "panic"},
         phase = "run" => step > Len(Tests!Script)
  PROVE  Tests!Passes(Tests!Script) = (should_current_test_panic = (phase = "panic"))
<1> DEFINE s == Tests!Script
<1>1. current_test \in Nat /\ current_test + 1 \in 1 .. Len(tests) /\ tests \in Seq(Scripts)
  BY DEF TestInv
<1>2. s \in Scripts
  BY <1>1 DEF Tests!Script
<1>3. /\ s \in Seq(Tests!Deeds) /\ Len(s) \in Nat
      /\ \A i \in 1 .. Len(s) : s[i] = "panic" => i = Len(s)
  BY <1>2 DEF Tests!ScriptsOK
<1>4. /\ step \in 1 .. Len(s) + 1 /\ should_current_test_panic = (\E j \in 1 .. step - 1 : s[j] = "should_panic")
      /\ \A j \in 1 .. step - 1 : s[j] # "panic"
      /\ phase = "panic" => step <= Len(s) /\ s[step] = "panic"
  BY Zenon DEF TestInv, Announced
<1>5. /\ \A i : i \in Tests!Index(s, "panic") <=> i \in 1 .. Len(s) /\ s[i] = "panic"
      /\ \A i : i \in Tests!Index(s, "should_panic") <=> i \in 1 .. Len(s) /\ s[i] = "should_panic"
  BY <1>3 DEF Tests!Index
<1> HIDE DEF s
<1>6. CASE phase = "run"
  <2>1. step = Len(s) + 1 /\ step - 1 = Len(s)
    BY <1>3, <1>4, <1>6 DEF s
  <2>2. Tests!Index(s, "panic") = {}
    BY <1>4, <1>5, <2>1
  <2>3. Tests!Passes(s) <=> Tests!Index(s, "should_panic") = {}
    BY <2>2 DEF Tests!Passes
  <2>4. should_current_test_panic <=> Tests!Index(s, "should_panic") # {}
    BY <1>4, <1>5, <2>1
  <2> QED BY <1>4, <1>6, <2>3, <2>4, Zenon DEF s, Tests!Passes
<1>7. CASE phase = "panic"
  <2>1. step = Len(s) /\ step \in Tests!Index(s, "panic")
    BY <1>3, <1>4, <1>5, <1>7
  <2>2. Tests!Passes(s) <=> \E i \in Tests!Index(s, "panic"), j \in Tests!Index(s, "should_panic") : j < i
    BY <2>1 DEF Tests!Passes
  <2>3. Tests!Passes(s) => should_current_test_panic
    BY <1>3, <1>4, <1>5, <2>1, <2>2
  <2>4. should_current_test_panic => Tests!Passes(s)
    <3> SUFFICES ASSUME should_current_test_panic PROVE Tests!Passes(s)
      OBVIOUS
    <3>1. PICK j \in 1 .. step - 1 : s[j] = "should_panic"
      BY <1>4, Zenon
    <3>2. j \in 1 .. Len(s) /\ j < step
      BY <1>3, <2>1
    <3>3. j \in Tests!Index(s, "should_panic")
      BY <1>5, <3>1, <3>2
    <3> QED BY <2>1, <2>2, <3>2, <3>3
  <2> QED BY <1>4, <1>7, <2>3, <2>4, Zenon DEF s, Tests!Passes
<1> QED BY <1>6, <1>7

(* Each test that ends is counted, as what it is. *)
LEMMA TestStep == Tests!ScriptsOK /\ TestInv /\ [Tests!Next]_Tests!vars => TestInv'
<1> SUFFICES ASSUME Tests!ScriptsOK, TestInv, [Tests!Next]_Tests!vars PROVE TestInv'
  OBVIOUS
<1>1. tests' = tests /\ phase' \in {"start", "begin", "run", "panic", "done"}
  BY DEF Tests!Next, Tests!vars, Tests!test_runner, Tests!run_test_begin, Tests!test_lock,
         Tests!test_unlock, Tests!test_print, Tests!test_printed, Tests!should_panic,
         Tests!test_panic, Tests!run_test, Tests!panic, Tests!next_test, TestInv
<1>2. CASE tests = <<>>
  BY <1>1, <1>2 DEF TestInv
<1> SUFFICES ASSUME tests # <<>> PROVE TestInv'
  BY <1>2
<1>3. /\ tests \in Seq(Scripts) /\ Len(tests) \in Nat /\ Len(tests) > 0
      /\ current_test \in 0 .. Len(tests) /\ success_tests_num \in Nat /\ failed_tests_num \in Nat
      /\ success_tests_num = Cardinality(Passed(current_test))
      /\ success_tests_num + failed_tests_num = current_test
  BY EmptySeq, LenProperties DEF TestInv
<1>4. phase \in {"run", "panic"} =>
        /\ current_test < Len(tests) /\ step \in 1 .. Len(Tests!Script) + 1
        /\ should_current_test_panic = Announced
        /\ \A j \in 1 .. step - 1 : Tests!Script[j] # "panic"
  BY DEF TestInv
<1>5. phase \in {"run", "panic"} =>
        Tests!Script \in Seq(Tests!Deeds) /\ Len(Tests!Script) \in Nat
  <2> SUFFICES ASSUME phase \in {"run", "panic"}
               PROVE  Tests!Script \in Seq(Tests!Deeds)
    OBVIOUS
  <2>1. current_test + 1 \in 1 .. Len(tests)
    BY <1>3, <1>4
  <2> QED BY <1>3, <2>1 DEF Tests!Script, Tests!ScriptsOK
(* The counts are about the same tests as long as no test ends. *)
<1>6. \A n : Passed(n)' = Passed(n)
  BY <1>1 DEF Passed, Tests!Passes, Tests!Index
<1>7. ASSUME current_test' = current_test, UNCHANGED Tests!counts
      PROVE  /\ success_tests_num' = Cardinality(Passed(current_test))'
             /\ Tests!Script' = Tests!Script
  BY <1>1, <1>3, <1>6, <1>7 DEF Tests!counts, Tests!Script, Passed, Tests!Passes, Tests!Index
<1>8. CASE Tests!test_runner
  <2>1. phase = "start" /\ phase' = "begin" /\ current_test' = current_test /\ step' = step
        /\ should_current_test_panic' = should_current_test_panic /\ UNCHANGED Tests!counts
    BY <1>8 DEF Tests!test_runner
  <2>2. current_test = 0 /\ step = 1 /\ should_current_test_panic = FALSE
    BY <2>1 DEF TestInv
  <2> QED BY <1>1, <1>3, <1>7, <2>1, <2>2 DEF TestInv, Tests!counts
<1>9. CASE Tests!run_test_begin
  <2>1. phase = "begin" /\ phase' = "run" /\ current_test' = current_test /\ step' = step
        /\ should_current_test_panic' = should_current_test_panic /\ UNCHANGED Tests!counts
    BY <1>9 DEF Tests!run_test_begin
  <2>2. current_test < Len(tests) /\ step = 1 /\ should_current_test_panic = FALSE
    BY <2>1 DEF TestInv
  <2>3. Len(Tests!Script') \in Nat
    <3>1. current_test + 1 \in 1 .. Len(tests)
      BY <1>3, <2>2
    <3>2. Tests!Script' = tests[current_test + 1]
      BY <1>1, <2>1 DEF Tests!Script
    <3> QED BY <1>3, <3>1, <3>2 DEF Tests!ScriptsOK
  <2>4. \A j \in 1 .. step' - 1 : FALSE
    BY <2>1, <2>2
  <2>5. should_current_test_panic' = Announced'
    BY <2>1, <2>2, <2>4, Zenon DEF Announced
  <2> QED BY <1>1, <1>3, <1>7, <2>1, <2>2, <2>3, <2>4, <2>5 DEF TestInv, Tests!counts
<1>10. CASE \/ Tests!test_lock \/ Tests!test_unlock
         \/ Tests!test_print \/ Tests!test_printed \/ Tests!should_panic
  <2>1. /\ phase = "run" /\ phase' = "run" /\ current_test' = current_test /\ step' = step + 1
        /\ UNCHANGED Tests!counts
        /\ step <= Len(Tests!Script) /\ Tests!Script[step] # "panic"
        /\ IF Tests!Script[step] = "should_panic" THEN should_current_test_panic' = TRUE
           ELSE should_current_test_panic' = should_current_test_panic
    BY <1>10 DEF Tests!test_lock, Tests!test_unlock, Tests!test_print, Tests!test_printed,
                Tests!should_panic, Tests!Does
  <2>2. Tests!Script' = Tests!Script
    BY <1>7, <2>1
  <2>3. step \in Nat /\ step' - 1 = step /\ 1 .. step = (1 .. step - 1) \cup {step}
    BY <1>4, <1>5, <2>1
  <2>4. should_current_test_panic' = Announced'
    BY <1>4, <2>1, <2>2, <2>3, Zenon DEF Announced
  <2>5. \A j \in 1 .. step' - 1 : Tests!Script'[j] # "panic"
    BY <1>4, <2>1, <2>2, <2>3
  <2>6. step' \in 1 .. Len(Tests!Script') + 1
    BY <1>5, <2>1, <2>2, <2>3
  <2> QED BY <1>1, <1>3, <1>4, <1>7, <2>1, <2>2, <2>4, <2>5, <2>6 DEF TestInv, Tests!counts
<1>11. CASE Tests!test_panic
  <2>1. /\ phase = "run" /\ phase' = "panic" /\ current_test' = current_test /\ step' = step
        /\ should_current_test_panic' = should_current_test_panic
        /\ UNCHANGED Tests!counts
        /\ step <= Len(Tests!Script) /\ Tests!Script[step] = "panic"
    BY <1>11 DEF Tests!test_panic, Tests!Does
  <2>2. Tests!Script' = Tests!Script
    BY <1>7, <2>1
  <2>3. Announced' = Announced
    BY <2>1, <2>2 DEF Announced
  <2> QED BY <1>1, <1>3, <1>4, <1>7, <2>1, <2>2, <2>3 DEF TestInv, Tests!counts
<1>12. CASE Tests!run_test \/ Tests!panic
  <2>1. /\ phase \in {"run", "panic"} /\ (phase = "run" => step > Len(Tests!Script))
        /\ Tests!next_test
        /\ IF should_current_test_panic = (phase = "panic") THEN Tests!success ELSE Tests!failed
    BY <1>4, <1>12, Zenon DEF Tests!run_test, Tests!panic, Announced
  <2>2. Tests!Passes(Tests!Script) = (should_current_test_panic = (phase = "panic"))
    BY <2>1, Verdict
  <2>3. Cardinality(Passed(current_test + 1)) =
          Cardinality(Passed(current_test)) + (IF Tests!Passes(Tests!Script) THEN 1 ELSE 0)
    <3>1. current_test \in Nat
      BY <1>3
    <3> QED BY <3>1, OneMore, Zenon DEF Tests!Script
  <2>4. /\ success_tests_num' \in Nat /\ failed_tests_num' \in Nat
        /\ success_tests_num' + failed_tests_num' = current_test + 1
        /\ success_tests_num' = Cardinality(Passed(current_test + 1))
    <3>1. CASE Tests!Passes(Tests!Script)
      <4>1. Tests!success
        BY <2>1, <2>2, <3>1, Zenon
      <4> QED BY <1>3, <2>3, <3>1, <4>1 DEF Tests!success
    <3>2. CASE ~ Tests!Passes(Tests!Script)
      <4>1. Tests!failed
        BY <2>1, <2>2, <3>2, Zenon
      <4> QED BY <1>3, <2>3, <3>2, <4>1 DEF Tests!failed
    <3> QED BY <3>1, <3>2
  <2>5. current_test' = current_test + 1 /\ current_test + 1 \in 0 .. Len(tests) /\ step' = 1
    BY <1>3, <1>4, <2>1 DEF Tests!next_test
  <2>6. success_tests_num' = Cardinality(Passed(current_test))'
    BY <1>1, <2>4, <2>5 DEF Passed, Tests!Passes, Tests!Index
  <2>7. IF current_test + 1 >= Len(tests) THEN phase' = "done"
        ELSE phase' = "begin" /\ should_current_test_panic' = FALSE
    BY <2>1 DEF Tests!next_test
  <2>8. CASE current_test + 1 >= Len(tests)
    BY <1>1, <1>3, <2>4, <2>5, <2>6, <2>7, <2>8 DEF TestInv
  <2>9. CASE ~ (current_test + 1 >= Len(tests))
    <3>1. current_test' < Len(tests)
      BY <1>3, <2>5, <2>9
    <3> QED BY <1>1, <1>3, <2>4, <2>5, <2>6, <2>7, <2>9, <3>1, SMTT(30) DEF TestInv
  <2> QED BY <2>8, <2>9
<1>13. CASE UNCHANGED Tests!vars
  BY <1>13, Zenon DEF Tests!vars, Tests!counts, TestInv, Passed, Tests!Passes, Tests!Index, Announced,
               Tests!Script
<1> QED BY <1>8, <1>9, <1>10, <1>11, <1>12, <1>13 DEF Tests!Next

(* The summary counts every test once, as the example of should_panic! says *)
(* it ends, for any list of tests that do nothing after a panic.            *)
THEOREM TestsCounted == Tests!Spec => []SummaryExact
<1>1. TestInv => SummaryExact
  <2> SUFFICES ASSUME TestInv, phase = "done", tests # <<>>
               PROVE  /\ success_tests_num = Cardinality({i \in DOMAIN tests : Tests!Passes(tests[i])})
                      /\ success_tests_num + failed_tests_num = Len(tests)
    BY SameCardinality, Zenon DEF SummaryExact, Tests!SummaryExact
  <2>1. current_test = Len(tests) /\ DOMAIN tests = 1 .. Len(tests)
    BY DEF TestInv
  <2> QED BY <2>1, Zenon DEF TestInv, Passed
<1>2. TestInv /\ [Tests!Next]_Tests!vars => TestInv'
  BY TestStep, TestsAssumption
<1> QED BY <1>1, <1>2, TestInit, PTL DEF Tests!Spec

-----------------------------------------------------------------------------
(* StackTrace *)

(* A line that names addr *)
Hit(i, addr) == Symbols[i].addr = addr /\ Symbols[i].name # Trace!NoName

(* lookup_symbol of an address with a name: the first line that has one,    *)
(* which no line with a larger address comes before.                        *)
LEMMA NamedFound ==
  ASSUME Trace!SymbolsOK, NEW addr \in Begin .. End, NEW k \in DOMAIN Symbols, Hit(k, addr)
  PROVE  Trace!lookup_symbol[addr] \in Trace!NamesAt(addr)
<1> DEFINE S == {i \in DOMAIN Symbols : Hit(i, addr)}
           hits == {i \in DOMAIN Symbols :
                      Hit(i, addr) /\ \A j \in 1 .. i - 1 : ~ Hit(j, addr) /\ Symbols[j].addr <= addr}
           R == {rs \in Nat \X Nat : rs[1] < rs[2]}
<1>1. DOMAIN Symbols = 1 .. Len(Symbols) /\ Len(Symbols) \in Nat
  BY DEF Trace!SymbolsOK
<1>2. IsWellFoundedOn(R, Nat)
  <2>1. OpToRel(<, Nat) = R
    BY DEF OpToRel
  <2> QED BY <2>1, NatLessThanWellFounded, Zenon
<1>3. S \subseteq Nat /\ k \in S
  BY <1>1
<1>4. PICK i \in S : \A j \in S : ~ (<<j, i>> \in R)
  BY <1>2, <1>3, WFMin, Zenon
<1>5. ASSUME NEW j \in 1 .. i - 1 PROVE ~ Hit(j, addr) /\ Symbols[j].addr <= addr
  <2>1. j \in DOMAIN Symbols /\ i \in DOMAIN Symbols /\ j < i /\ i \in Nat /\ j \in Nat
    BY <1>1
  <2>2. ~ Hit(j, addr)
    BY <1>3, <1>4, <2>1, Zenon
  <2>3. Symbols[j].addr <= Symbols[i].addr /\ Symbols[i].addr = addr
    BY <2>1, SMTT(30) DEF Trace!SymbolsOK, Hit
  <2> QED BY <2>2, <2>3
<1>6. i \in hits
  BY <1>5
<1>7. Trace!lookup_symbol[addr] = Symbols[CHOOSE h \in hits : TRUE].name
  BY <1>6 DEF Trace!lookup_symbol, Hit
<1>8. PICK h : h = (CHOOSE x \in hits : TRUE)
  OBVIOUS
<1>9. h \in hits
  BY <1>6, <1>8
<1> QED BY <1>7, <1>8, <1>9, Zenon DEF Trace!NamesAt, Hit

(* lookup_symbol of an address without a name *)
LEMMA UnnamedMissed ==
  ASSUME NEW addr \in Begin .. End, \A i \in DOMAIN Symbols : ~ Hit(i, addr)
  PROVE  Trace!lookup_symbol[addr] = Trace!NoName
<1> DEFINE hits == {i \in DOMAIN Symbols :
                      Hit(i, addr) /\ \A j \in 1 .. i - 1 : ~ Hit(j, addr) /\ Symbols[j].addr <= addr}
<1>1. hits = {}
  OBVIOUS
<1> QED BY <1>1 DEF Trace!lookup_symbol, Hit

(* From a place in a function after its first byte the way down meets the   *)
(* function's own name first.                                               *)
LEMMA FunctionNamed ==
  ASSUME Trace!SymbolsOK, NEW f \in Functions, NEW at \in Trace!AfterCall(f)
  PROVE  /\ Trace!lookup_symbol_from_return_addr[at] \in Trace!NamesAt(f.start)
         /\ Trace!lookup_symbol_from_return_addr[at] # Trace!NoName
<1>1. /\ Begin \in Int /\ End \in Int /\ f.start \in Int /\ f.end \in Int
      /\ Begin <= f.start /\ f.start <= f.end /\ f.end <= End
      /\ at \in f.start + 1 .. f.end + 1 /\ at \in Begin .. End + 1 /\ at \in Int
      /\ f.start \in Begin .. End
  BY SMTT(30) DEF Trace!SymbolsOK, Trace!AfterCall
<1> DEFINE named == {a \in Begin .. at - 1 : Trace!lookup_symbol[a] # Trace!NoName}
<1>2. Trace!lookup_symbol[f.start] \in Trace!NamesAt(f.start)
  <2>1. PICK k \in DOMAIN Symbols : Hit(k, f.start)
    BY DEF Trace!SymbolsOK, Hit
  <2> QED BY <1>1, <2>1, NamedFound
<1>3. f.start \in named
  BY <1>1, <1>2 DEF Trace!NamesAt
<1>4. ASSUME NEW a \in named PROVE a <= f.start
  <2> SUFFICES ASSUME a > f.start PROVE FALSE
    BY <1>1
  <2>1. a \in f.start + 1 .. f.end /\ a \in Begin .. End
    BY <1>1
  <2>2. \A i \in DOMAIN Symbols : ~ Hit(i, a)
    BY <2>1, Zenon DEF Trace!SymbolsOK, Hit
  <2>3. Trace!lookup_symbol[a] = Trace!NoName
    BY <2>1, <2>2, UnnamedMissed
  <2> QED BY <2>3
<1>5. PICK c : c = CHOOSE a \in named : \A b \in named : b <= a
  OBVIOUS
<1>6. c \in named /\ \A b \in named : b <= c
  BY <1>3, <1>4, <1>5
<1>7. c = f.start
  <2>1. c <= f.start /\ f.start <= c /\ c \in Int
    BY <1>1, <1>3, <1>4, <1>6
  <2> QED BY <1>1, <2>1
<1>8. Trace!lookup_symbol_from_return_addr[at] = Trace!LastNamed(Begin .. at - 1)
  BY <1>1 DEF Trace!lookup_symbol_from_return_addr
<1>9. Trace!LastNamed(Begin .. at - 1) = Trace!lookup_symbol[f.start]
  <2>1. Trace!LastNamed(Begin .. at - 1) =
          IF named = {} THEN Trace!NoName
          ELSE Trace!lookup_symbol[CHOOSE a \in named : \A b \in named : b <= a]
    BY Zenon DEF Trace!LastNamed
  <2> HIDE DEF named
  <2> QED BY <1>3, <1>5, <1>7, <2>1, Zenon
<1> QED BY <1>2, <1>8, <1>9 DEF Trace!NamesAt
-----------------------------------------------------------------------------
(* The names in the symbol file *)
Names == {Symbols[i].name : i \in DOMAIN Symbols}

(* The functions on the stack with a frame, newer than frame r if there is one *)
Newer(r) == {i \in DOMAIN stack : stack[i].framed /\ (r # 0 => i < r)}

Walked == {walked[i] : i \in DOMAIN walked}

(* The walk has named the panicking function and the callers of the frames  *)
(* newer than rbp, in order; func_name is the last of them.                 *)
TraceInv ==
  /\ stack \in Seq(Trace!Activations) /\ Len(stack) >= 2 /\ ~ stack[Len(stack)].framed
  /\ printed \in Seq(Names) /\ func_name \in Names /\ done \in BOOLEAN
  /\ walked \in Seq(1 .. Len(stack))
  /\ Len(walked) = IF done THEN Len(printed) ELSE Len(printed) + 1
  /\ \A i, j \in 1 .. Len(walked) : i < j => walked[i] < walked[j]
  /\ \A i \in 1 .. Len(printed) : printed[i] \in Trace!NamesAt(stack[walked[i]].func.start)
  /\ ~ done => func_name \in Trace!NamesAt(stack[walked[Len(walked)]].func.start)
  /\ done => rbp = 0
  /\ rbp \in 0 .. Len(stack) - 1
  /\ rbp # 0 => stack[rbp].framed /\ walked[Len(walked)] <= rbp
  /\ Walked = {1} \cup {i + 1 : i \in Newer(rbp)}

(* A frame saves the next older one. *)
LEMMA SavedFrame ==
  ASSUME TraceInv, rbp # 0
  PROVE  /\ Trace!saved_rbp \in 0 .. Len(stack) - 1
         /\ Trace!saved_rbp # 0 => rbp < Trace!saved_rbp /\ stack[Trace!saved_rbp].framed
         /\ Newer(Trace!saved_rbp) = Newer(rbp) \cup {rbp}
<1> DEFINE older == {i \in rbp + 1 .. Len(stack) : stack[i].framed}
           R == {rs \in Nat \X Nat : rs[1] < rs[2]}
<1>1. /\ Len(stack) \in Nat /\ DOMAIN stack = 1 .. Len(stack) /\ ~ stack[Len(stack)].framed
      /\ rbp \in 1 .. Len(stack) - 1 /\ stack[rbp].framed
  BY DEF TraceInv
<1>2. Trace!saved_rbp = IF older = {} THEN 0 ELSE CHOOSE i \in older : \A j \in older : i <= j
  BY DEF Trace!saved_rbp
<1>3. CASE older = {}
  <2>1. Trace!saved_rbp = 0
    BY <1>2, <1>3
  <2>2. ASSUME NEW i \in 1 .. Len(stack), stack[i].framed PROVE i < rbp \/ i = rbp
    BY <1>1, <1>3, <2>2
  <2> QED BY <1>1, <2>1, <2>2 DEF Newer
<1>4. CASE older # {}
  <2>1. IsWellFoundedOn(R, Nat)
    <3>1. OpToRel(<, Nat) = R
      BY DEF OpToRel
    <3> QED BY <3>1, NatLessThanWellFounded, Zenon
  <2>2. older \subseteq Nat
    BY <1>1
  <2>3. PICK o \in older : TRUE
    BY <1>4, Zenon
  <2>4. PICK m \in older : \A j \in older : ~ (<<j, m>> \in R)
    BY <2>1, <2>2, <2>3, WFMin, Zenon
  <2>5. \A j \in older : m <= j
    <3> SUFFICES ASSUME NEW j \in older PROVE m <= j
      OBVIOUS
    <3>1. j \in Nat /\ m \in Nat /\ ~ (<<j, m>> \in R)
      BY <2>2, <2>4, Zenon
    <3> HIDE DEF older
    <3> QED BY <3>1
  <2>6. PICK c : c = CHOOSE i \in older : \A j \in older : i <= j
    OBVIOUS
  <2>7. c \in older /\ \A j \in older : c <= j
    <3> HIDE DEF older
    <3> QED BY <2>4, <2>5, <2>6, Zenon
  <2>8. Trace!saved_rbp = c
    BY <1>2, <1>4, <2>6, Zenon
  <2>9. c \in rbp + 1 .. Len(stack) - 1 /\ stack[c].framed
    <3>1. c \in rbp + 1 .. Len(stack) /\ stack[c].framed
      BY <2>7
    <3>2. c # Len(stack)
      BY <1>1, <3>1, Zenon
    <3>3. c \in rbp + 1 .. Len(stack) /\ Len(stack) \in Nat /\ rbp \in Nat
      BY <1>1, <3>1
    <3> HIDE DEF older
    <3>4. c \in rbp + 1 .. Len(stack) - 1
      BY ONLY <3>2, <3>3
    <3> QED BY <3>1, <3>4
  <2>10. ASSUME NEW i \in 1 .. Len(stack), stack[i].framed PROVE (i < c) <=> (i < rbp \/ i = rbp)
    <3>1. i \in older \/ i <= rbp
      BY <1>1, <2>10
    <3> QED BY <1>1, <2>7, <2>9, <3>1
  <2>11. c # 0 /\ rbp # 0
    BY <1>1, <2>9
  <2>12. Newer(c) = Newer(rbp) \cup {rbp}
    BY <1>1, <2>10, <2>11 DEF Newer
  <2> QED BY <1>1, <2>8, <2>9, <2>12
<1> QED BY <1>3, <1>4

(* The lookup for a function on the stack *)
LEMMA ActivationNamed ==
  ASSUME Trace!SymbolsOK, NEW a \in Trace!Activations
  PROVE  /\ Trace!lookup_symbol_from_return_addr[a.at] \in Trace!NamesAt(a.func.start)
         /\ Trace!lookup_symbol_from_return_addr[a.at] # Trace!NoName
         /\ Trace!lookup_symbol_from_return_addr[a.at] \in Names
<1>1. PICK f \in Functions : a \in [func : {f}, at : Trace!AfterCall(f), framed : BOOLEAN]
  BY DEF Trace!Activations
<1>2. a.func = f /\ a.at \in Trace!AfterCall(f)
  BY <1>1
<1>3. /\ Trace!lookup_symbol_from_return_addr[a.at] \in Trace!NamesAt(a.func.start)
      /\ Trace!lookup_symbol_from_return_addr[a.at] # Trace!NoName
  BY <1>2, FunctionNamed
<1> QED BY <1>3 DEF Names, Trace!NamesAt

(* The panic handler looks its own place up first. *)
LEMMA TraceInit == Trace!SymbolsOK /\ Trace!Init => TraceInv
<1> SUFFICES ASSUME Trace!SymbolsOK, Trace!Init PROVE TraceInv
  OBVIOUS
<1>1. stack \in Seq(Trace!Activations) /\ Len(stack) >= 2 /\ Len(stack) \in Nat
  <2>1. PICK n \in 2 .. MaxDepth : stack \in [1 .. n -> Trace!Activations]
    BY DEF Trace!Init, Trace!InitAt, Trace!Stacks
  <2>2. n \in Nat /\ n >= 2
    OBVIOUS
  <2> QED BY <2>1, <2>2
<1>2. stack[1] \in Trace!Activations
  BY <1>1
<1>3. func_name \in Trace!NamesAt(stack[1].func.start) /\ func_name \in Names
  BY <1>2, ActivationNamed DEF Trace!Init, Trace!InitAt
<1>4. rbp = 1 /\ printed = <<>> /\ done = FALSE /\ walked = <<1>> /\ Trace!StackOK(stack)
  BY DEF Trace!Init, Trace!InitAt, Trace!Stacks
<1>5. printed \in Seq(Names) /\ Len(printed) = 0 /\ \A i \in 1 .. Len(printed) : FALSE
  BY <1>4
<1>6. ~ done /\ done \in BOOLEAN /\ rbp # 0
  BY <1>4, 1 # 0, Zenon
<1>7. stack[1].framed /\ ~ stack[Len(stack)].framed
  <2>1. Len(stack) \in DOMAIN stack
    BY <1>1
  <2> QED BY <1>4, <2>1, Zenon DEF Trace!StackOK
<1>8. /\ walked \in Seq(1 .. Len(stack)) /\ Len(walked) = 1 /\ walked[1] = 1
      /\ \A i \in 1 .. Len(walked) : i = 1
  BY <1>1, <1>4
<1>9. Walked = {1}
  BY <1>8 DEF Walked
<1>10. Newer(rbp) = {}
  BY <1>1, <1>4 DEF Newer
<1>11. Walked = {1} \cup {i + 1 : i \in Newer(rbp)}
  BY <1>9, <1>10
<1>12. /\ Len(walked) = (IF done THEN Len(printed) ELSE Len(printed) + 1)
       /\ \A i, j \in 1 .. Len(walked) : i < j => walked[i] < walked[j]
       /\ rbp \in 0 .. Len(stack) - 1 /\ walked[Len(walked)] <= rbp
  <2>1. Len(printed) + 1 = 1
    BY <1>5
  <2>2. \A i, j \in 1 .. Len(walked) : ~ (i < j)
    BY <1>8
  <2> QED BY <1>1, <1>4, <1>6, <1>8, <2>1, <2>2
<1>13. func_name \in Trace!NamesAt(stack[walked[Len(walked)]].func.start)
  BY <1>3, <1>8, Zenon
<1> QED BY <1>1, <1>3, <1>4, <1>5, <1>6, <1>7, <1>8, <1>11, <1>12, <1>13, Zenon DEF TraceInv

(* Printing the name it has keeps the names in step with the walk. *)
LEMMA NamePrinted ==
  ASSUME TraceInv, ~ done, printed' = Append(printed, func_name)
  PROVE  /\ printed' \in Seq(Names) /\ Len(printed') = Len(printed) + 1 /\ Len(printed') = Len(walked)
         /\ \A i \in 1 .. Len(printed') : printed'[i] \in Trace!NamesAt(stack[walked[i]].func.start)
<1>1. Len(printed) \in Nat /\ Len(walked) = Len(printed) + 1
  BY DEF TraceInv
<1>2. /\ printed' \in Seq(Names) /\ Len(printed') = Len(printed) + 1
      /\ \A i \in 1 .. Len(printed) : printed'[i] = printed[i]
      /\ printed'[Len(printed) + 1] = func_name
  BY AppendProperties DEF TraceInv
<1>3. ASSUME NEW i \in 1 .. Len(printed) + 1 PROVE i \in 1 .. Len(printed) \/ i = Len(printed) + 1
  BY <1>1
<1> QED BY <1>1, <1>2, <1>3 DEF TraceInv

(* What is beyond the last of an increasing sequence is beyond all of it. *)
LEMMA LastIsLargest ==
  ASSUME NEW w, NEW n \in Nat, n > 0, NEW v \in Nat, w[n] < v,
         \A i \in 1 .. n : w[i] \in Nat,
         \A i, j \in 1 .. n : i < j => w[i] < w[j]
  PROVE  \A i \in 1 .. n : i \in 1 .. n + 1 /\ w[i] < v
<1> SUFFICES ASSUME NEW i \in 1 .. n PROVE w[i] < v
  OBVIOUS
<1>1. n \in 1 .. n /\ (i < n \/ i = n)
  OBVIOUS
<1>2. w[i] \in Nat /\ w[n] \in Nat /\ (i < n => w[i] < w[n])
  BY <1>1
<1> QED BY <1>1, <1>2

(* A walk that goes on beyond its last place stays in order. *)
LEMMA WalkGoesOn ==
  ASSUME TraceInv, NEW v \in 1 .. Len(stack), walked' = Append(walked, v), Len(walked) > 0,
         walked[Len(walked)] < v
  PROVE  /\ walked' \in Seq(1 .. Len(stack)) /\ Len(walked') = Len(walked) + 1
         /\ \A i \in 1 .. Len(walked) : walked'[i] = walked[i]
         /\ walked'[Len(walked')] = v
         /\ \A i, j \in 1 .. Len(walked') : i < j => walked'[i] < walked'[j]
         /\ Walked' = Walked \cup {v}
<1>1. /\ Len(walked) \in Nat /\ DOMAIN walked = 1 .. Len(walked) /\ Len(stack) \in Nat
      /\ \A i \in 1 .. Len(walked) : walked[i] \in Nat
      /\ \A i, j \in 1 .. Len(walked) : i < j => walked[i] < walked[j]
  BY DEF TraceInv
<1>2. /\ walked' \in Seq(1 .. Len(stack)) /\ Len(walked') = Len(walked) + 1
      /\ \A i \in 1 .. Len(walked) : walked'[i] = walked[i]
      /\ walked'[Len(walked) + 1] = v
  BY AppendProperties DEF TraceInv
<1>3. ASSUME NEW i \in 1 .. Len(walked') PROVE i \in 1 .. Len(walked) \/ i = Len(walked) + 1
  BY <1>1, <1>2
<1>4. DOMAIN walked' = 1 .. Len(walked') /\ Len(walked) + 1 \in 1 .. Len(walked')
  BY <1>1, <1>2
<1>5. \A i \in 1 .. Len(walked) : i \in 1 .. Len(walked') /\ walked[i] < v
  <2>1. v \in Nat
    BY <1>1
  <2>2. \A i \in 1 .. Len(walked) : i \in 1 .. Len(walked) + 1 /\ walked[i] < v
    BY <1>1, <2>1, LastIsLargest, Zenon
  <2> QED BY <1>2, <2>2, Zenon
<1>6. ASSUME NEW i \in 1 .. Len(walked'), NEW j \in 1 .. Len(walked'), i < j
      PROVE  walked'[i] < walked'[j]
  <2>1. i \in 1 .. Len(walked)
    BY <1>1, <1>2, <1>6
  <2>2. CASE j \in 1 .. Len(walked)
    BY <1>1, <1>2, <1>6, <2>1, <2>2
  <2>3. CASE j = Len(walked) + 1
    BY <1>2, <1>5, <2>1, <2>3
  <2> QED BY <1>3, <2>2, <2>3
<1>7. Walked' = Walked \cup {v}
  <2>1. ASSUME NEW x \in Walked' PROVE x \in Walked \cup {v}
    BY <1>1, <1>2, <1>3, <1>4, <2>1 DEF Walked
  <2>2. ASSUME NEW x \in Walked PROVE x \in Walked'
    BY <1>1, <1>2, <1>4, <1>5, <2>2 DEF Walked
  <2>3. v \in Walked'
    BY <1>2, <1>4 DEF Walked
  <2> QED BY <2>1, <2>2, <2>3, Zenon
<1> QED BY <1>2, <1>6, <1>7

(* A turn of the loop prints the name it has and looks up the next one. *)
LEMMA TraceStep == Trace!SymbolsOK /\ TraceInv /\ [Trace!Next]_Trace!vars => TraceInv'
<1> SUFFICES ASSUME Trace!SymbolsOK, TraceInv, [Trace!Next]_Trace!vars PROVE TraceInv'
  OBVIOUS
<1>1. /\ Len(stack) \in Nat /\ Len(printed) \in Nat /\ Len(walked) \in Nat
      /\ stack \in Seq(Trace!Activations) /\ Len(stack) >= 2 /\ ~ stack[Len(stack)].framed
  BY DEF TraceInv
<1>2. CASE Trace!trace_next
  <2>1. /\ rbp # 0 /\ printed' = Append(printed, func_name) /\ stack' = stack /\ done' = done
        /\ rbp' = Trace!saved_rbp /\ walked' = Append(walked, rbp + 1)
        /\ func_name' = IF Trace!lookup_symbol_from_return_addr[stack[rbp + 1].at] = Trace!NoName
                        THEN "unknown_func"
                        ELSE Trace!lookup_symbol_from_return_addr[stack[rbp + 1].at]
    BY <1>2, SMTT(30) DEF Trace!trace_next, Trace!ret_addr_in
  <2>2. /\ ~ done /\ rbp \in 1 .. Len(stack) - 1 /\ Len(walked) = Len(printed) + 1
        /\ walked[Len(walked)] <= rbp /\ walked[Len(walked)] \in Nat
    <3>1. ~ done /\ rbp \in 1 .. Len(stack) - 1 /\ walked[Len(walked)] <= rbp
      BY <1>1, <2>1 DEF TraceInv
    <3>2. Len(walked) = Len(printed) + 1
      BY <3>1 DEF TraceInv
    <3>3. Len(walked) \in 1 .. Len(walked)
      BY <1>1, <3>2
    <3>4. walked[Len(walked)] \in 1 .. Len(stack)
      BY <3>3 DEF TraceInv
    <3> QED BY <3>1, <3>2, <3>4
  <2>3. rbp + 1 \in 1 .. Len(stack) /\ walked[Len(walked)] < rbp + 1 /\ Len(walked) > 0
    BY <1>1, <2>2
  <2>4. stack[rbp + 1] \in Trace!Activations
    BY <1>1, <2>3
  <2>5. func_name' \in Trace!NamesAt(stack[rbp + 1].func.start) /\ func_name' \in Names
    BY <2>1, <2>4, ActivationNamed
  <2>6. /\ printed' \in Seq(Names) /\ Len(printed') = Len(walked)
        /\ \A i \in 1 .. Len(printed') : printed'[i] \in Trace!NamesAt(stack[walked[i]].func.start)
    BY <2>1, <2>2, NamePrinted
  <2>7. /\ walked' \in Seq(1 .. Len(stack)) /\ Len(walked') = Len(walked) + 1
        /\ \A i \in 1 .. Len(walked) : walked'[i] = walked[i]
        /\ walked'[Len(walked')] = rbp + 1
        /\ \A i, j \in 1 .. Len(walked') : i < j => walked'[i] < walked'[j]
        /\ Walked' = Walked \cup {rbp + 1}
    BY <2>1, <2>3, WalkGoesOn
  <2>8. /\ rbp' \in 0 .. Len(stack) - 1
        /\ rbp' # 0 => rbp < rbp' /\ stack[rbp'].framed
        /\ Newer(rbp') = Newer(rbp) \cup {rbp}
    BY <2>1, SavedFrame
  <2>9. Walked' = {1} \cup {i + 1 : i \in Newer(rbp')}
    <3>1. Walked = {1} \cup {i + 1 : i \in Newer(rbp)}
      BY DEF TraceInv
    <3> QED BY <2>7, <2>8, <3>1
  <2>10. Newer(rbp)' = Newer(rbp')
    BY <2>1 DEF Newer
  <2>11. /\ ~ done' /\ done' \in BOOLEAN
         /\ Len(walked') = (IF done' THEN Len(printed') ELSE Len(printed') + 1)
    <3>1. done' = done /\ done \in BOOLEAN /\ ~ done
      BY <2>1, <2>2 DEF TraceInv
    <3> QED BY <2>6, <2>7, <3>1
  <2>12. rbp' # 0 => stack'[rbp'].framed /\ walked'[Len(walked')] <= rbp'
    BY <1>1, <2>1, <2>2, <2>7, <2>8
  <2>13. \A i \in 1 .. Len(printed') : printed'[i] \in Trace!NamesAt(stack'[walked'[i]].func.start)
    BY <2>1, <2>6, <2>7
  <2>14. func_name' \in Trace!NamesAt(stack'[walked'[Len(walked')]].func.start)
    BY <2>1, <2>5, <2>7, Zenon
  <2>15. /\ stack' \in Seq(Trace!Activations) /\ Len(stack') >= 2 /\ ~ stack'[Len(stack')].framed
         /\ walked' \in Seq(1 .. Len(stack')) /\ rbp' \in 0 .. Len(stack') - 1
    BY <1>1, <2>1, <2>7, <2>8
  <2>16. Walked' = {1} \cup {i + 1 : i \in Newer(rbp)'}
    BY <2>9, <2>10
  <2> QED BY <2>5, <2>6, <2>7, <2>11, <2>12, <2>13, <2>14, <2>15, <2>16, ZenonT(60)
          DEF TraceInv, Trace!NamesAt, Trace!Activations, Trace!AfterCall, Names
<1>3. CASE Trace!trace_end
  <2>1. /\ rbp = 0 /\ ~ done /\ printed' = Append(printed, func_name) /\ done' = TRUE
        /\ UNCHANGED <<stack, rbp, func_name, walked>>
    BY <1>3 DEF Trace!trace_end
  <2>2. /\ printed' \in Seq(Names) /\ Len(printed') = Len(walked)
        /\ \A i \in 1 .. Len(printed') : printed'[i] \in Trace!NamesAt(stack[walked[i]].func.start)
    BY <2>1, NamePrinted
  <2>3. Walked' = Walked /\ Newer(rbp)' = Newer(rbp)
    BY <2>1, Zenon DEF Walked, Newer
  <2> QED BY <2>1, <2>2, <2>3, SMTT(30) DEF TraceInv, Trace!NamesAt, Trace!Activations, Trace!AfterCall, Names
<1>4. CASE UNCHANGED Trace!vars
  <2>1. Walked' = Walked /\ Newer(rbp)' = Newer(rbp)
    BY <1>4, Zenon DEF Trace!vars, Walked, Newer
  <2> QED BY <1>4, <2>1 DEF Trace!vars, TraceInv, Trace!NamesAt, Trace!Activations, Trace!AfterCall, Names
<1> QED BY <1>2, <1>3, <1>4 DEF Trace!Next

(* The trace names the panicking function and the caller of every function  *)
(* with a frame, once each and in order, up to kmain or cpu_main, for every *)
(* symbol file that is sorted and names each function at its first byte     *)
(* only, and every stack, with or without exceptions.                       *)
THEOREM TraceNamesStack == Trace!Spec => []TraceFaithful
<1>1. TraceInv => TraceFaithful
  <2> SUFFICES ASSUME TraceInv PROVE TraceFaithful
    OBVIOUS
  <2>1. DOMAIN printed = 1 .. Len(printed) /\ DOMAIN walked = 1 .. Len(walked)
    BY DEF TraceInv
  <2>2. ASSUME done PROVE Len(printed) = Len(walked) /\ Walked = Trace!Known
    <3>1. rbp = 0 /\ Len(printed) = Len(walked) /\ Walked = {1} \cup {i + 1 : i \in Newer(rbp)}
      BY <2>2, Zenon DEF TraceInv
    <3>2. Newer(0) = {j \in DOMAIN stack : stack[j].framed}
      BY DEF Newer
    <3> QED BY <3>1, <3>2, Zenon DEF Trace!Known
  <2> QED BY <2>1, <2>2, Zenon DEF TraceInv, TraceFaithful, Trace!TraceFaithful, Walked
<1>2. Trace!Init => TraceInv
  BY TraceInit, SymbolsAssumption
<1>3. TraceInv /\ [Trace!Next]_Trace!vars => TraceInv'
  BY TraceStep, SymbolsAssumption
<1> QED BY <1>1, <1>2, <1>3, PTL DEF Trace!Spec
=============================================================================
