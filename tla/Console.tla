------------------------------ MODULE Console ------------------------------
(***************************************************************************)
(* src/src/console.rs on src/src/screen.rs: the cursor, the pixels that a   *)
(* character covers, and the bytes of the framebuffer behind them.  Colors  *)
(* and the font are left out.                                               *)
(***************************************************************************)
EXTENDS Integers

CONSTANT Screens     \* [width, height, bytes_per_pixel, bytes_per_row]

CHAR_WIDTH == 8
CHAR_HEIGHT == 16
SPACE_BETWEEN_CHARS == 1
PixelBytes == 4      \* write_pixel stores a u32

(* What the bootloader may report: 32 bits a pixel, room for one character, *)
(* and rows long enough for their pixels.                                   *)
ASSUME ScreensAssumption ==
  \A s \in Screens :
    /\ s \in [width : Nat, height : Nat, bytes_per_pixel : {PixelBytes}, bytes_per_row : Nat]
    /\ s.width > CHAR_WIDTH /\ s.height >= CHAR_HEIGHT
    /\ s.bytes_per_row >= s.width * PixelBytes

VARIABLES
  screen,        \* the screen of this boot
  cursor_pos,    \* [x, y]
  panicked,      \* the assertion of draw_pixel failed
  overrun,       \* a pixel was written outside the framebuffer
  text           \* positions drawn at since the cursor was last at the top left

vars == <<screen, cursor_pos, panicked, overrun, text>>

Origin == [x |-> 0, y |-> 0]

(* write_pixel writes outside the framebuffer. *)
Outside(s, offset) == offset + PixelBytes > s.bytes_per_row * s.height

(* Mutant: x and y are swapped. *)
Offset_swapped(s, x, y) == y * s.bytes_per_pixel + x * s.bytes_per_row

(* draw_pixel's offset *)
Offset(s, x, y) == x * s.bytes_per_pixel + y * s.bytes_per_row

(* draw_all adds bytes_per_pixel to the offset of the row. *)
draw_all_overruns(s) ==
  \E y \in 0 .. s.height - 1, x \in 0 .. s.width - 1 :
    Outside(s, y * s.bytes_per_row + x * s.bytes_per_pixel)

Init ==
  /\ screen \in Screens
  /\ cursor_pos = Origin
  /\ panicked = FALSE
  /\ overrun = draw_all_overruns(screen)
  /\ text = {}

-----------------------------------------------------------------------------
(* The columns and rows of pixels of the character at x, y *)
Columns(x) == {x + (CHAR_WIDTH - i) : i \in 0 .. CHAR_WIDTH - 1}
Rows(y) == y .. y + CHAR_HEIGHT - 1

(* assert!(x < self.width && y < self.height) *)
draw_char_asserts(x, y) ==
  /\ \A px \in Columns(x) : px < screen.width
  /\ \A py \in Rows(y) : py < screen.height

draw_char_overruns(x, y) ==
  \E px \in Columns(x), py \in Rows(y) : Outside(screen, Offset(screen, px, py))

(* Mutant: the lines are not wrapped at the bottom. *)
next_line_unwrapped(y) == y + CHAR_HEIGHT

(* y of the line after y, or of the first one *)
next_line(y) ==
  IF y + CHAR_HEIGHT + CHAR_HEIGHT > screen.height THEN 0 ELSE y + CHAR_HEIGHT

(* Mutant: the space is taken off. *)
advance_narrow(x, y) ==
  LET next == x + CHAR_WIDTH - SPACE_BETWEEN_CHARS IN
  IF next + CHAR_WIDTH > screen.width THEN [x |-> 0, y |-> next_line(y)]
  ELSE [x |-> next, y |-> y]

(* The cursor after a character at x, y *)
advance(x, y) ==
  LET next == x + CHAR_WIDTH + SPACE_BETWEEN_CHARS IN
  IF next + CHAR_WIDTH > screen.width THEN [x |-> 0, y |-> next_line(y)]
  ELSE [x |-> next, y |-> y]

Written(pos, drawn) ==
  /\ cursor_pos' = pos
  /\ text' = IF pos = Origin THEN {} ELSE drawn

newline ==
  /\ ~ panicked
  /\ Written([x |-> 0, y |-> next_line(cursor_pos.y)], text)
  /\ UNCHANGED <<screen, panicked, overrun>>

print_char_colored ==
  LET x == cursor_pos.x
      y == cursor_pos.y IN
  /\ ~ panicked
  /\ IF draw_char_asserts(x, y)
     THEN /\ overrun' = (overrun \/ draw_char_overruns(x, y))
          /\ Written(advance(x, y), text \cup {cursor_pos})
          /\ UNCHANGED panicked
     ELSE panicked' = TRUE /\ UNCHANGED <<cursor_pos, overrun, text>>
  /\ UNCHANGED screen

clear ==
  /\ ~ panicked
  /\ Written(Origin, {})
  /\ overrun' = (overrun \/ draw_all_overruns(screen))
  /\ UNCHANGED <<screen, panicked>>

(* write_str prints character by character. *)
Next == newline \/ print_char_colored \/ clear

Spec == Init /\ [][Next]_vars

-----------------------------------------------------------------------------
(* "we need to make sure there is enough place for the next character": no  *)
(* sequence of characters, newlines and clears makes draw_pixel panic.  It  *)
(* does not hold on a screen whose width leaves 8 pixels after a line's     *)
(* last character: its last column of pixels is one to the right of them.   *)
NextCharFits == ~ panicked

(* draw_pixel's assertion fails in no other case: whatever was printed, the *)
(* cursor is then at the last character of a line, on a screen whose width  *)
(* is 9 k + 8.                                                              *)
PanicsAtEdge ==
  panicked => /\ cursor_pos.x + CHAR_WIDTH = screen.width
              /\ screen.width % (CHAR_WIDTH + SPACE_BETWEEN_CHARS) = CHAR_WIDTH

(* Every pixel that draw_char and draw_all write lies in the framebuffer,   *)
(* which write_pixel does not check.                                        *)
BytesInside == ~ overrun

(* No character is drawn over another one until the console starts again at *)
(* the first line: the cursor is after all that was written.                *)
NothingOverdrawn ==
  \A p \in text :
    \/ p.y + CHAR_HEIGHT <= cursor_pos.y
    \/ p.y = cursor_pos.y /\ p.x + CHAR_WIDTH < cursor_pos.x + 1
=============================================================================
