--------------------------- MODULE Console_proofs ---------------------------
(***************************************************************************)
(* Proofs about Console for every resolution, character size and length of *)
(* the texts: the cursor stays on the screen, so putchar() stays in the    *)
(* frame buffer, and a tab ends at a tab stop.                             *)
(***************************************************************************)
EXTENDS Console, FiniteSetTheorems, TLAPS

(* A cell counted in characters fits in as many pixels as they have.       *)
LEMMA CellFits ==
    ASSUME NEW size \in Nat, NEW char \in Nat \ {0}, size >= char
    PROVE  /\ size \div char \in Nat \ {0}
           /\ \A i \in 0 .. (size \div char) - 1 :
                  /\ i * char \in Nat
                  /\ i * char + char <= size
<1>1. size \div char \in Int /\ char * (size \div char) <= size
      /\ size < char * (size \div char) + char
  OBVIOUS
<1> DEFINE n == size \div char
<1>2. n \in Nat \ {0}
  <2>1. CASE n <= 0
    <3>1. char * n <= 0
      BY <1>1, <2>1
    <3> QED BY <1>1, <3>1
  <2> QED BY <1>1, <2>1
<1>3. ASSUME NEW i \in 0 .. n - 1
      PROVE  i * char \in Nat /\ i * char + char <= size
  <2> HIDE DEF n
  <2>1. i \in Nat /\ n = i + 1 + (n - 1 - i) /\ n - 1 - i \in Nat
    BY <1>2, <1>3
  <2> DEFINE r == n - 1 - i
  <2>2. char * n = char * i + char + char * r
    BY <2>1
  <2>3. char * r >= 0 /\ char * i \in Nat /\ i * char = char * i
    BY <2>1
  <2>4. char * n <= size
    BY <1>1 DEF n
  <2> HIDE DEF r
  <2> QED BY <2>1, <2>2, <2>3, <2>4, <1>2
<1> QED BY <1>2, <1>3

(* The screen has at least one column and one row.                         *)
LEMMA ScreenSize == Cols \in Nat \ {0} /\ Rows \in Nat \ {0}
  BY ScreenAssumption, CellFits DEF Cols, Rows

(* A tab needs one to eight blanks, also computed from column 0.           *)
LEMMA StopIsNear ==
    ASSUME NEW x \in Nat
    PROVE  NextStop(x) - x \in 1 .. 8 /\ NextStop(x) % 8 = 0
  BY DEF NextStop

(* The last lines of the loop put the cursor on the screen again from one  *)
(* column or one row outside of it.                                        *)
LEMMA MoveStays ==
    ASSUME NEW x \in 0 .. Cols, NEW y \in 0 .. Rows, y = Rows => x < Cols,
           MoveTo(x, y)
    PROVE  XPosition' \in 0 .. Cols - 1 /\ YPosition' \in 0 .. Rows - 1
  BY ScreenSize DEF MoveTo

-----------------------------------------------------------------------------

(* putchar() paints a cell of the screen.                                  *)
PaintsCell == at \in (0 .. Cols - 1) \X (0 .. Rows - 1)

(* No more characters are painted than the loop has taken.                 *)
PaintedIsTaken == painted <= count

(* The inductive invariant of print() and clear_screen().                  *)
IInv == TypeOK /\ PaintsCell /\ PaintedIsTaken /\ TabReachesStop

(* Start_Kernel() leaves an empty console that satisfies it.               *)
LEMMA InitIInv == Init => IInv
  BY ScreenSize DEF Init, IInv, TypeOK, PaintsCell, PaintedIsTaken, TabReachesStop,
         Class

(* Blank paints where the cursor is and moves it by one column.            *)
LEMMA BlankStays ==
    ASSUME TypeOK, Blank
    PROVE  /\ XPosition' \in 0 .. Cols - 1 /\ YPosition' \in 0 .. Rows - 1
           /\ PaintsCell' /\ buf' = buf /\ painted' = painted
           /\ at' \in Int \X Int
  <1>1. MoveTo(XPosition + 1, YPosition) /\ at' = <<XPosition, YPosition>>
        /\ buf' = buf /\ painted' = painted
    BY DEF Blank, Putchar
  <1>2. XPosition + 1 \in 0 .. Cols /\ YPosition \in 0 .. Rows - 1
    BY ScreenSize DEF TypeOK
  <1>3. XPosition' \in 0 .. Cols - 1 /\ YPosition' \in 0 .. Rows - 1
    BY <1>1, <1>2, MoveStays, ScreenSize
  <1>4. XPosition \in 0 .. Cols - 1 /\ YPosition \in 0 .. Rows - 1
    BY DEF TypeOK
  <1> QED BY <1>1, <1>3, <1>4, ScreenSize DEF PaintsCell

(* Every iteration of the loop of print() keeps it.                        *)
LEMMA NextIInv == IInv /\ [Next]_vars => IInv'
<1> SUFFICES ASSUME IInv, [Next]_vars PROVE IInv'
  OBVIOUS
<1> USE DEF IInv, PaintedIsTaken
<1>0. /\ XPosition \in 0 .. Cols - 1 /\ YPosition \in 0 .. Rows - 1
      /\ buf \in Seq(Class) /\ Len(buf) \in Nat /\ count \in 0 .. Len(buf)
      /\ line \in 0 .. 7 /\ painted \in 0 .. Len(buf) /\ reach \in 0 .. 7
  BY DEF TypeOK
<1>t. ASSUME NEW class, Takes(class)
      PROVE  count' \in 0 .. Len(buf) /\ count' = count + 1 /\ line = 0
  BY <1>0, <1>t DEF Takes
<1>1. CASE print
  <2>1. buf' \in Seq(Class) /\ Len(buf') \in Nat
    BY <1>1 DEF print, Texts
  <2> QED BY <1>0, <1>1, <2>1 DEF print, TypeOK, PaintsCell, TabReachesStop
<1>2. CASE ClearScreen
  BY <1>0, <1>2, ScreenSize
     DEF ClearScreen, TypeOK, PaintsCell, TabReachesStop
<1>3. CASE Newline
  <2>1. MoveTo(0, YPosition + 1) /\ YPosition + 1 \in 0 .. Rows
        /\ 0 < Cols /\ 0 \in 0 .. Cols
    BY <1>0, <1>3, ScreenSize DEF Newline
  <2>2. XPosition' \in 0 .. Cols - 1 /\ YPosition' \in 0 .. Rows - 1
    BY <2>1, MoveStays
  <2> QED BY <1>0, <1>3, <1>t, <2>2
          DEF Newline, TypeOK, PaintsCell, TabReachesStop
<1>4. CASE Backspace
  <2>1. PICK x \in 0 .. Cols - 1, y \in 0 .. Rows - 1 :
            MoveTo(x, y) /\ at' = <<x, y>>
    BY <1>0, <1>4, ScreenSize DEF Backspace, Putchar
  <2>2. XPosition' \in 0 .. Cols - 1 /\ YPosition' \in 0 .. Rows - 1
    BY <2>1, MoveStays, ScreenSize
  <2>3. at' \in (0 .. Cols - 1) \X (0 .. Rows - 1) /\ at' \in Int \X Int
    BY <2>1, ScreenSize
  <2> QED BY <1>0, <1>4, <1>t, <2>2, <2>3
          DEF Backspace, TypeOK, PaintsCell, TabReachesStop
<1>5. CASE Tab
  <2>1. NextStop(XPosition) - XPosition \in 1 .. 8
        /\ NextStop(XPosition) % 8 = 0 /\ NextStop(XPosition) \in Int
    BY <1>0, StopIsNear, ScreenSize DEF NextStop
  <2>2. line' \in 0 .. 7 /\ reach' \in 0 .. 7
        /\ reach' = (XPosition + 1) % 8
        /\ line' = NextStop(XPosition) - XPosition - 1
    BY <1>0, <1>5, <2>1, ScreenSize DEF Tab
  <2>3. Blank /\ Takes("tab")
    BY <1>5 DEF Tab
  <2>4. (reach' + line') % 8 = 0
    BY <1>0, <2>1, <2>2, ScreenSize
  <2>5. count' \in 0 .. Len(buf) /\ count' = count + 1
    BY <1>t, <2>3
  <2>6. /\ XPosition' \in 0 .. Cols - 1 /\ YPosition' \in 0 .. Rows - 1
        /\ PaintsCell' /\ buf' = buf /\ painted' = painted
        /\ at' \in Int \X Int
    BY <2>3, BlankStays
  <2>7. TypeOK'
    BY <1>0, <2>2, <2>5, <2>6 DEF TypeOK
  <2> QED BY <1>0, <2>4, <2>5, <2>6, <2>7 DEF TabReachesStop
<1>6. CASE TabGoesOn
  <2>1. Blank /\ line' \in 0 .. 7 /\ reach' \in 0 .. 7 /\ count' = count
        /\ reach' = (reach + 1) % 8 /\ line' = line - 1
    BY <1>0, <1>6 DEF TabGoesOn
  <2>2. (reach' + line') % 8 = 0
    BY <1>0, <2>1 DEF TabReachesStop
  <2> QED BY <1>0, <2>1, <2>2, BlankStays DEF TypeOK, TabReachesStop
<1>7. CASE Char
  <2>1. MoveTo(XPosition + 1, YPosition) /\ at' = <<XPosition, YPosition>>
        /\ buf' = buf /\ line' = line /\ reach' = reach
        /\ painted' = painted + 1 /\ Takes("char")
    BY <1>7 DEF Char, Putchar
  <2>2. XPosition' \in 0 .. Cols - 1 /\ YPosition' \in 0 .. Rows - 1
    BY <1>0, <2>1, MoveStays, ScreenSize
  <2>3. at' \in (0 .. Cols - 1) \X (0 .. Rows - 1) /\ at' \in Int \X Int
    BY <1>0, <2>1, ScreenSize
  <2> QED BY <1>0, <1>t, <2>1, <2>2, <2>3
          DEF TypeOK, PaintsCell, TabReachesStop
<1>8. CASE UNCHANGED vars
  BY <1>8 DEF vars, TypeOK, PaintsCell, TabReachesStop
<1> QED BY <1>1, <1>2, <1>3, <1>4, <1>5, <1>6, <1>7, <1>8
        DEF Next, Iteration

(* One character more is taken: if it is printable, there is one more to    *)
(* paint.                                                                  *)
LEMMA OneMore ==
    ASSUME NEW t, NEW n \in Nat
    PROVE  LET taken(k) == {i \in 1 .. k : t[i] = "char"}
           IN  /\ Cardinality(taken(n)) \in Nat
               /\ Cardinality(taken(n + 1)) =
                     Cardinality(taken(n)) + (IF t[n + 1] = "char" THEN 1 ELSE 0)
<1> DEFINE taken(k) == {i \in 1 .. k : t[i] = "char"}
<1>1. IsFiniteSet(taken(n)) /\ Cardinality(taken(n)) \in Nat
  <2>1. IsFiniteSet(1 .. n) /\ taken(n) \subseteq 1 .. n
    BY FS_Interval
  <2>2. IsFiniteSet(taken(n))
    BY <2>1, FS_Subset
  <2> QED BY <2>2, FS_CardinalityType
<1>2. n + 1 \notin taken(n)
  OBVIOUS
<1>3. CASE t[n + 1] = "char"
  <2>1. taken(n + 1) = taken(n) \cup {n + 1}
    BY <1>3
  <2>2. Cardinality(taken(n) \cup {n + 1}) = Cardinality(taken(n)) + 1
    BY <1>1, <1>2, FS_AddElement
  <2> QED BY <2>1, <2>2, <1>1, <1>3
<1>4. CASE t[n + 1] # "char"
  <2>1. taken(n + 1) = taken(n)
    BY <1>4
  <2> HIDE DEF taken
  <2>2. Cardinality(taken(n)) + 0 = Cardinality(taken(n))
    BY <1>1
  <2>3. Cardinality(taken(n + 1)) =
           Cardinality(taken(n)) + (IF t[n + 1] = "char" THEN 1 ELSE 0)
    BY <2>1, <2>2, <1>4
  <2> QED BY <2>3, <1>1 DEF taken
<1> QED BY <1>3, <1>4

(* Tabs take back what they added to the counter, so that no character is  *)
(* skipped or painted twice.                                               *)
LEMMA PaintedOnceKept ==
    IInv /\ EachPaintedOnce /\ [Next]_vars => EachPaintedOnce'
<1> SUFFICES ASSUME IInv, EachPaintedOnce, [Next]_vars
             PROVE  EachPaintedOnce'
  OBVIOUS
<1> DEFINE taken(k) == {i \in 1 .. k : buf[i] = "char"}
<1>1. count \in Nat /\ painted = Cardinality(taken(count))
  BY DEF IInv, TypeOK, EachPaintedOnce
<1>2. CASE UNCHANGED <<buf, count, painted>>
  BY <1>2 DEF EachPaintedOnce
<1>3. CASE print
  <2>1. count' = 0 /\ painted' = 0
    BY <1>3 DEF print
  <2>2. {i \in 1 .. count' : buf'[i] = "char"} = {}
    BY <2>1
  <2> QED BY <2>1, <2>2, FS_EmptySet DEF EachPaintedOnce
<1>4. ASSUME NEW class, Takes(class), buf' = buf,
             painted' = painted + (IF class = "char" THEN 1 ELSE 0)
      PROVE  EachPaintedOnce'
  <2>1. count' = count + 1 /\ buf[count + 1] = class
    BY <1>4 DEF Takes
  <2>2. Cardinality(taken(count + 1)) =
           Cardinality(taken(count)) + (IF class = "char" THEN 1 ELSE 0)
    BY <1>1, <2>1, OneMore
  <2>3. painted' = Cardinality(taken(count'))
    BY <1>1, <1>4, <2>1, <2>2
  <2> QED BY <1>4, <2>3 DEF EachPaintedOnce
<1>5. painted + 0 = painted
  BY DEF IInv, TypeOK
<1>6. CASE Newline
  BY <1>4, <1>5, <1>6 DEF Newline
<1>7. CASE Backspace
  BY <1>4, <1>5, <1>7 DEF Backspace
<1>8. CASE Tab
  BY <1>4, <1>5, <1>8 DEF Tab, Blank
<1>9. CASE Char
  BY <1>4, <1>9 DEF Char
<1>10. CASE TabGoesOn \/ ClearScreen \/ UNCHANGED vars
  BY <1>2, <1>10 DEF TabGoesOn, Blank, ClearScreen, vars
<1> QED BY <1>3, <1>6, <1>7, <1>8, <1>9, <1>10 DEF Next, Iteration

(***************************************************************************)
(* A cell of the screen is made of pixels of the screen.                   *)
(***************************************************************************)
LEMMA CellInFrameBuffer == PaintsCell => InFrameBuffer
<1> SUFFICES ASSUME PaintsCell PROVE InFrameBuffer
  OBVIOUS
<1> DEFINE x == at[1] * XCharSize
           y == at[2] * YCharSize
           below == YResolution - (y + YCharSize)
<1>1. at[1] \in 0 .. Cols - 1 /\ at[2] \in 0 .. Rows - 1
  BY DEF PaintsCell
<1>2. x \in Nat /\ x + XCharSize <= XResolution
  BY <1>1, ScreenAssumption, CellFits DEF Cols
<1>3. y \in Nat /\ y + YCharSize <= YResolution
  BY <1>1, ScreenAssumption, CellFits DEF Rows
<1>4. XResolution \in Nat /\ YResolution \in Nat
      /\ XCharSize \in Nat \ {0} /\ YCharSize \in Nat \ {0}
  BY ScreenAssumption
<1> HIDE DEF x, y
<1>5. XResolution * y >= 0 /\ XResolution * y \in Nat
  BY <1>3, <1>4
<1>6. below \in Nat /\ YResolution = (y + YCharSize - 1) + 1 + below
  BY <1>3, <1>4
<1> DEFINE last == y + YCharSize - 1
<1>7. last \in Nat
  BY <1>3, <1>4
<1> HIDE DEF below, last
<1>8. /\ XResolution * (last + 1 + below)
          = XResolution * last + XResolution + XResolution * below
      /\ XResolution * below >= 0 /\ XResolution * last \in Nat
      /\ XResolution * below \in Nat
  BY <1>4, <1>6, <1>7
<1>9. YResolution = last + 1 + below
  BY <1>6 DEF last
<1>10. XResolution * last + x + XCharSize - 1 < XResolution * YResolution
  BY <1>2, <1>4, <1>8, <1>9
<1>11. x \in 0 .. XResolution - XCharSize
  BY <1>2, <1>4
<1>12. XResolution * y + x >= 0
  BY <1>2, <1>5
<1> QED BY <1>10, <1>11, <1>12 DEF InFrameBuffer, last, x, y

(* The cursor is on the screen and every variable of print() in its range, *)
(* whatever the resolution and the texts.                                  *)
THEOREM TypeCorrect == Spec => []TypeOK
<1>1. IInv => TypeOK
  BY DEF IInv
<1> QED BY InitIInv, NextIInv, <1>1, PTL DEF Spec

(* putchar() never writes outside of the frame buffer: the arithmetic of   *)
(* print() on columns and rows is enough, it has no further check.         *)
THEOREM InFrameBufferCorrect == Spec => []InFrameBuffer
<1>1. IInv => InFrameBuffer
  BY CellInFrameBuffer DEF IInv
<1> QED BY InitIInv, NextIInv, <1>1, PTL DEF Spec

(* A tab of print() ends at a multiple of 8 columns also when it starts    *)
(* near the end of a row of any width.                                     *)
THEOREM TabReachesStopCorrect == Spec => []TabReachesStop
<1>1. IInv => TabReachesStop
  BY DEF IInv
<1> QED BY InitIInv, NextIInv, <1>1, PTL DEF Spec

(* When print() has taken some characters, it has painted the printable    *)
(* ones among them, each once (Console!EachPaintedOnce).                   *)
THEOREM EachPaintedOnceCorrect == Spec => []EachPaintedOnce
<1>1. Init => EachPaintedOnce
  <2>1. ASSUME Init
        PROVE  {i \in 1 .. count : buf[i] = "char"} = {}
    BY <2>1 DEF Init
  <2> QED BY <2>1, FS_EmptySet DEF Init, EachPaintedOnce
<1> QED BY <1>1, InitIInv, NextIInv, PaintedOnceKept, PTL DEF Spec

(* How many iterations of the loop are left at most: eight for each        *)
(* character that could be a tab, and the blanks that are still due.       *)
Ahead == 8 * (Len(buf) - count) + line

(* Each iteration of the loop leaves fewer of them, tabs that take the     *)
(* counter back included, so that print() cannot hang on any text or       *)
(* screen (print.c:337): the part of PrintReturns that needs no fairness.  *)
THEOREM LoopShrinks ==
    Spec => [][Iteration => Ahead' \in Nat /\ Ahead' < Ahead]_vars
<1>1. ASSUME IInv, Next, Iteration
      PROVE  Ahead' \in Nat /\ Ahead' < Ahead
  <2>1. /\ buf \in Seq(Class) /\ Len(buf) \in Nat /\ count \in 0 .. Len(buf)
        /\ line \in 0 .. 7 /\ XPosition \in 0 .. Cols - 1
    BY <1>1 DEF IInv, TypeOK
  <2>2. buf' = buf
    BY <1>1 DEF Iteration, Newline, Backspace, Tab, TabGoesOn, Char, Blank
  <2>3. CASE TabGoesOn
    <3>1. line > 0 /\ line' = line - 1 /\ count' = count
      BY <2>3 DEF TabGoesOn
    <3> QED BY <2>1, <2>2, <3>1 DEF Ahead
  <2>4. ASSUME NEW class, Takes(class), line' \in 0 .. 7
        PROVE  Ahead' \in Nat /\ Ahead' < Ahead
    <3>1. count < Len(buf) /\ count' = count + 1 /\ line = 0
      BY <2>4 DEF Takes
    <3> QED BY <2>1, <2>2, <2>4, <3>1 DEF Ahead
  <2>5. CASE Tab
    <3>1. NextStop(XPosition) - XPosition \in 1 .. 8
          /\ NextStop(XPosition) \in Int
      BY <2>1, StopIsNear, ScreenSize DEF NextStop
    <3>2. line' \in 0 .. 7
      BY <2>1, <2>5, <3>1, ScreenSize DEF Tab
    <3> QED BY <2>4, <2>5, <3>2 DEF Tab
  <2>6. CASE Newline \/ Backspace \/ Char
    <3>1. line' \in 0 .. 7
      BY <2>1, <2>6 DEF Newline, Backspace, Char
    <3> QED BY <2>4, <2>6, <3>1 DEF Newline, Backspace, Char
  <2> QED BY <1>1, <2>3, <2>5, <2>6 DEF Iteration
<1>2. IInv /\ [Next]_vars =>
         [Iteration => Ahead' \in Nat /\ Ahead' < Ahead]_vars
  BY <1>1
<1> QED BY <1>2, InitIInv, NextIInv, PTL DEF Spec

=============================================================================
