------------------------------- MODULE Console ------------------------------
(***************************************************************************)
(* The text console on the framebuffer (kernel/src/vga.c) that boot        *)
(* messages are written to.  The screen is a grid of character cells, each *)
(* as large as a drawn character; a character that is not printable is     *)
(* drawn as another one and is the same cell here.                         *)
(***************************************************************************)
EXTENDS Integers, Sequences

CONSTANTS
  Cols, Rows,   \* CONSOLE_COLS (100), CONSOLE_ROWS (37)
  Chars,        \* printable characters
  Dark          \* an empty cell

ASSUME ConsoleAssumption == Cols \in Nat \ {0} /\ Rows \in Nat \ {0}

VARIABLES
  ready,          \* fb_init_done
  cx, cy,         \* console_cx, console_cy
  screen,         \* screen[<<x, y>>]
  line            \* characters since the cursor was last in column 0 (history)

kvars == <<ready, cx, cy, screen, line>>

Cells == (0 .. (Cols - 1)) \X (0 .. (Rows - 1))

DarkScreen == [c \in Cells |-> Dark]

KInit ==
  /\ ready = FALSE
  /\ cx = 0 /\ cy = 0
  /\ screen = DarkScreen
  /\ line = <<>>

\* vga_init, once the mappings are made and the device is found.
vga_init ==
  /\ ready' = TRUE
  /\ cx' = 0 /\ cy' = 0
  /\ line' = <<>>
  /\ UNCHANGED screen

\* vga_console_clear moves the cursor and leaves the screen.
vga_console_clear ==
  /\ ready
  /\ cx' = 0 /\ cy' = 0
  /\ line' = <<>>
  /\ UNCHANGED <<ready, screen>>

\* Slip: the cursor goes to the row below the last.
RowBelow(y) == y + 1

\* The cursor enters the next row; at the bottom it stays in the last row.
NextRow(y) == IF y + 1 >= Rows THEN Rows - 1 ELSE y + 1

\* vga_console_scroll clears the whole screen.
Scrolled(scr, y) == IF y + 1 >= Rows THEN DarkScreen ELSE scr

NewLine ==
  /\ ready
  /\ cx' = 0 /\ cy' = NextRow(cy)
  /\ screen' = Scrolled(screen, cy)
  /\ line' = <<>>
  /\ UNCHANGED ready

CarriageReturn ==
  /\ ready
  /\ cx' = 0
  /\ line' = <<>>
  /\ UNCHANGED <<ready, cy, screen>>

\* The character is drawn before the screen is cleared for the next row.
DrawAndWrap(c) ==
  LET drawn == [screen EXCEPT ![<<cx, cy>>] = c]
  IN  IF cx + 1 >= Cols THEN Scrolled(drawn, cy) ELSE drawn

\* A character is drawn at the cursor; behind the last column the next row
\* begins.
Draw(c) ==
  /\ ready
  /\ screen' = DrawAndWrap(c)
  /\ IF cx + 1 >= Cols THEN cx' = 0 /\ cy' = NextRow(cy) /\ line' = <<>>
                       ELSE cx' = cx + 1 /\ cy' = cy /\ line' = Append(line, c)
  /\ UNCHANGED ready

KNext == vga_init \/ vga_console_clear \/ NewLine \/ CarriageReturn \/ \E c \in Chars : Draw(c)

KSpec == KInit /\ [][KNext]_kvars

-----------------------------------------------------------------------------

\* The cursor is on the screen, and the row it is in shows what has been
\* written since column 0, whatever was wrapped, scrolled away or overwritten
\* before.
LineShown ==
  /\ cx = Len(line) /\ <<cx, cy>> \in Cells
  /\ \A x \in 1 .. Len(line) : screen[<<x - 1, cy>>] = line[x]
=============================================================================
