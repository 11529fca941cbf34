------------------------------ MODULE Console ------------------------------
(***************************************************************************)
(* The text console of print.c: the cursor Pos, the loop of print() that   *)
(* draws a formatted text, putchar() and clear_screen().  One action is    *)
(* one iteration of the loop.  A character is one of four classes, since   *)
(* print() tells no others apart; putchar() is the cell it paints.         *)
(* A text is at most MaxLength characters long here, buf[] holds 4096.     *)
(***************************************************************************)
EXTENDS Integers, Sequences, FiniteSets

CONSTANTS
    XResolution, YResolution,   \* of the screen, in pixels
    XCharSize, YCharSize,       \* of a character: 8 and 16 in the program
    MaxLength                   \* bound: characters of a text

Cols == XResolution \div XCharSize
Rows == YResolution \div YCharSize

ASSUME ScreenAssumption ==
    /\ XResolution \in Nat /\ YResolution \in Nat
    /\ XCharSize \in Nat \ {0} /\ YCharSize \in Nat \ {0}
    /\ XResolution >= XCharSize /\ YResolution >= YCharSize
    /\ MaxLength \in Nat

VARIABLES
    XPosition, YPosition,   \* Pos: the cell the cursor is in
    buf,                    \* the text vsprintf() produced
    count,                  \* characters of buf the loop is done with
    line,                   \* blanks the current tab still needs
    at,                     \* history: the cell putchar() painted last
    painted,                \* history: characters of buf painted as such
    reach                   \* history: the column the last tab got to, not
                            \* wrapped at the end of its row, modulo 8

vars == <<XPosition, YPosition, buf, count, line, at, painted, reach>>

Class == {"char", "newline", "backspace", "tab"}
Texts == UNION {[1 .. n -> Class] : n \in 0 .. MaxLength}

(* The cursor is a cell of the screen and the counters of the loop of      *)
(* print() are in range.                                                   *)
TypeOK ==
    /\ XPosition \in 0 .. Cols - 1
    /\ YPosition \in 0 .. Rows - 1
    /\ buf \in Seq(Class)
    /\ count \in 0 .. Len(buf)
    /\ line \in 0 .. 7
    /\ at \in Int \X Int
    /\ painted \in 0 .. Len(buf)
    /\ reach \in 0 .. 7

Init ==
    /\ XPosition = 0
    /\ YPosition = 0
    /\ buf = <<>>
    /\ count = 0
    /\ line = 0
    /\ at = <<0, 0>>
    /\ painted = 0
    /\ reach = 0

-----------------------------------------------------------------------------
(* The loop. *)

Done == count = Len(buf) /\ line = 0

(* A call of print() with the next text.                                   *)
print ==
    /\ Done
    /\ buf' \in Texts
    /\ count' = 0
    /\ painted' = 0
    /\ UNCHANGED <<XPosition, YPosition, line, at, reach>>

ClearScreen ==
    /\ Done
    /\ XPosition' = 0
    /\ YPosition' = 0
    /\ UNCHANGED <<buf, count, line, at, painted, reach>>

MoveTo_NoRow(x, y) ==       \* as if the last row did not wrap
    /\ XPosition' = IF x >= Cols THEN 0 ELSE x
    /\ YPosition' = IF x >= Cols THEN y + 1 ELSE y

(* The end of an iteration: right of the last column comes the next row,   *)
(* below the last row the first one.                                       *)
MoveTo(x, y) ==
    LET row == IF x >= Cols THEN y + 1 ELSE y
    IN  /\ XPosition' = IF x >= Cols THEN 0 ELSE x
        /\ YPosition' = IF row >= Rows THEN 0 ELSE row

Putchar(x, y) == at' = <<x, y>>

(* The loop takes a character, unless a tab is under way.                  *)
Takes(class) ==
    /\ line = 0
    /\ count < Len(buf)
    /\ buf[count + 1] = class
    /\ count' = count + 1

Newline ==
    /\ Takes("newline")
    /\ MoveTo(0, YPosition + 1)
    /\ UNCHANGED <<buf, line, at, painted, reach>>

Backspace_SameRow ==    \* as if the cursor never left its row backwards
    /\ Takes("backspace")
    /\ MoveTo(XPosition - 1, YPosition)
    /\ Putchar(XPosition - 1, YPosition)
    /\ UNCHANGED <<buf, line, painted, reach>>

(* The cursor steps back and blanks the cell; before the first column it   *)
(* is at the end of the row above, above the first row in the last one.    *)
Backspace ==
    LET back == XPosition - 1 < 0
        x == IF back THEN Cols - 1 ELSE XPosition - 1
        y == IF ~back THEN YPosition
             ELSE IF YPosition - 1 < 0 THEN Rows - 1
             ELSE YPosition - 1
    IN  /\ Takes("backspace")
        /\ Putchar(x, y)
        /\ MoveTo(x, y)
        /\ UNCHANGED <<buf, line, painted, reach>>

Blank ==
    /\ Putchar(XPosition, YPosition)
    /\ MoveTo(XPosition + 1, YPosition)
    /\ UNCHANGED <<buf, painted>>

NextStop(x) == ((x + 8) \div 8) * 8     \* (x + 8) & ~(8 - 1)

(* A tab computes how far the next multiple of 8 is and paints one blank.  *)
Tab ==
    /\ Takes("tab")
    /\ line' = NextStop(XPosition) - XPosition - 1
    /\ reach' = (XPosition + 1) % 8
    /\ Blank

TabGoesOn_Counts ==     \* as if count-- were missing
    /\ line > 0
    /\ line' = line - 1
    /\ count' = IF count < Len(buf) THEN count + 1 ELSE count
    /\ reach' = (reach + 1) % 8
    /\ Blank

TabGoesOn_Again ==      \* as if Label_tab stood before the computation
    /\ line > 0
    /\ line' = NextStop(XPosition) - XPosition - 1
    /\ reach' = (reach + 1) % 8
    /\ Blank
    /\ UNCHANGED count

TabGoesOn_Forever ==    \* as if line-- stood before Label_tab
    /\ line > 0
    /\ reach' = (reach + 1) % 8
    /\ Blank
    /\ UNCHANGED <<count, line>>

(* The iterations that follow re-enter the tab: count-- makes up for the   *)
(* count++ of the loop, and `line' keeps the loop alive after the last     *)
(* character.                                                              *)
TabGoesOn ==
    /\ line > 0
    /\ line' = line - 1
    /\ reach' = (reach + 1) % 8
    /\ Blank
    /\ UNCHANGED count

Char ==
    /\ Takes("char")
    /\ Putchar(XPosition, YPosition)
    /\ MoveTo(XPosition + 1, YPosition)
    /\ painted' = painted + 1
    /\ UNCHANGED <<buf, line, reach>>

Iteration == Newline \/ Backspace \/ Tab \/ TabGoesOn \/ Char

Next == print \/ ClearScreen \/ Iteration

(* print() runs to its end; nobody has to call it again.                   *)
Spec == Init /\ [][Next]_vars /\ WF_vars(Iteration)

-----------------------------------------------------------------------------
(* Properties. *)

(* putchar() stays in the frame buffer: the pixels of the cell it paints,  *)
(* from the upper left to the lower right one, are pixels of the screen,   *)
(* also where the screen is no whole number of characters wide or high.    *)
InFrameBuffer ==
    LET x == at[1] * XCharSize
        y == at[2] * YCharSize
    IN  /\ XResolution * y + x >= 0
        /\ XResolution * (y + YCharSize - 1) + x + XCharSize - 1
               < XResolution * YResolution
        /\ x \in 0 .. XResolution - XCharSize

(* When print() returns, every printable character was painted once: the   *)
(* jump into the tab neither skips nor repeats one.                        *)
EachPaintedOnce ==
    painted = Cardinality({i \in 1 .. count : buf[i] = "char"})

(* A tab fills up to a multiple of 8 columns, and where the row ends       *)
(* before, it goes on in the next row for the rest of its blanks: with the *)
(* blanks that are still due, the ones painted lead to a tab stop.         *)
TabReachesStop == (reach + line) % 8 = 0

(* Every call of print() returns: the iterations a tab adds by taking the  *)
(* count++ back come to an end, also in a row narrower than the tab.       *)
PrintReturns == []<>Done
=============================================================================
