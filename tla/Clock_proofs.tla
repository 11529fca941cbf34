----------------------------- MODULE Clock_proofs -----------------------------
(***************************************************************************)
(* Proofs about Clock.tla for every number of reads, from 9 on, that fit   *)
(* between two ticks, and every moment the machine is started in.  The     *)
(* heart is ReadInv: how far the fields that were read in this pass are    *)
(* those of the time the pass began, and that at most one tick fell in it. *)
(* The second part is about the line that print() makes of the time: what  *)
(* the recursions of vsprintf(), number() and of a reader of the line come *)
(* to, and with them LineText, for every time.                             *)
(***************************************************************************)
EXTENDS Clock, FiniteSetTheorems, SequenceTheorems, TLAPS

(* The registers are read one after the other, each once.                  *)
LEMMA OrderFacts ==
    /\ Len(Order) = 7
    /\ DOMAIN Order = 1 .. 7
    /\ \A i \in 1 .. 7 : Order[i] \in Field
    /\ \A f \in Field : \E i \in 1 .. 7 : Order[i] = f
    /\ \A i, j \in 1 .. 7 : Order[i] = Order[j] => i = j
    /\ \A i \in 1 .. 7 : Order[i] = "second" <=> i = 7
<1>1. Len(Order) = 7 /\ DOMAIN Order = 1 .. 7
  BY DEF Order
<1>2. /\ Order[1] = "year" /\ Order[2] = "century" /\ Order[3] = "month"
      /\ Order[4] = "day" /\ Order[5] = "hour" /\ Order[6] = "minute"
      /\ Order[7] = "second"
  BY DEF Order
<1>3. \A i \in 1 .. 7 : \/ i = 1 \/ i = 2 \/ i = 3 \/ i = 4 \/ i = 5 \/ i = 6
                        \/ i = 7
  OBVIOUS
<1>4. \A i \in 1 .. 7 : Order[i] \in Field
  BY <1>2, <1>3 DEF Field
<1>5. \A f \in Field : \E i \in 1 .. 7 : Order[i] = f
  BY <1>2 DEF Field
<1>6. \A i, j \in 1 .. 7 : Order[i] = Order[j] => i = j
  BY <1>2, <1>3
<1>7. \A i \in 1 .. 7 : Order[i] = "second" <=> i = 7
  BY <1>2, <1>3
<1> QED BY <1>1, <1>4, <1>5, <1>6, <1>7

(* BCD tells the numbers up to 99 apart.                                   *)
LEMMA BcdFacts ==
    ASSUME NEW m \in 0 .. 99, NEW n \in 0 .. 99
    PROVE  /\ Bcd(m) \in 0 .. Bcd(99)
           /\ Bcd(m) = Bcd(n) => m = n
  BY DEF Bcd

(* A moment the clock can show.                                            *)
Valid(c) == c \in Time /\ c.day <= DaysIn(c)

(* The fields of a moment are numbers up to 99.                            *)
LEMMA TimeFields ==
    ASSUME NEW c \in Time, NEW f \in Field
    PROVE  c[f] \in 0 .. 99
  BY DEF Time, Field

(* What a tick does to each field.                                         *)
LEMMA SuccessorFields ==
    ASSUME NEW c, Valid(c)
    PROVE  /\ Valid(Successor(c))
           /\ Successor(c).second # c.second
           /\ Successor(c).minute = c.minute =>
                 \A f \in Field \ {"second"} : Successor(c)[f] = c[f]
<1> DEFINE d == Successor(c)
<1>0. /\ c \in Time /\ c.day <= DaysIn(c)
      /\ DaysIn(c) \in 28 .. 31
  BY DEF Valid, DaysIn
<1>1. /\ d = [f \in Field |-> d[f]]
      /\ d.second = IF c.second = 59 THEN 0 ELSE c.second + 1
      /\ d.minute = IF c.second # 59 THEN c.minute
                    ELSE IF c.minute = 59 THEN 0 ELSE c.minute + 1
      /\ d.hour = IF c.second # 59 \/ c.minute # 59 THEN c.hour
                  ELSE IF c.hour = 23 THEN 0 ELSE c.hour + 1
  BY DEF Successor, Field, Finer, Last, First
<1>2. /\ d.day = IF c.second # 59 \/ c.minute # 59 \/ c.hour # 23 THEN c.day
                 ELSE IF c.day = DaysIn(c) THEN 1 ELSE c.day + 1
      /\ d.month = IF \/ c.second # 59 \/ c.minute # 59 \/ c.hour # 23
                      \/ c.day # DaysIn(c) THEN c.month
                   ELSE IF c.month = 12 THEN 1 ELSE c.month + 1
  BY DEF Successor, Field, Finer, Last, First
<1>3. /\ d.year = IF \/ c.second # 59 \/ c.minute # 59 \/ c.hour # 23
                     \/ c.day # DaysIn(c) \/ c.month # 12 THEN c.year
                  ELSE IF c.year = 99 THEN 0 ELSE c.year + 1
      /\ d.century = IF \/ c.second # 59 \/ c.minute # 59 \/ c.hour # 23
                        \/ c.day # DaysIn(c) \/ c.month # 12 \/ c.year # 99
                     THEN c.century
                     ELSE IF c.century = 99 THEN 0 ELSE c.century + 1
  BY DEF Successor, Field, Finer, Last, First
<1>4. d \in Time
  <2>1. /\ c.century \in 0 .. 99 /\ c.year \in 0 .. 99 /\ c.month \in 1 .. 12
        /\ c.day \in 1 .. 31 /\ c.hour \in 0 .. 23 /\ c.minute \in 0 .. 59
        /\ c.second \in 0 .. 59
    BY <1>0 DEF Time
  <2>2. /\ d.century \in 0 .. 99 /\ d.year \in 0 .. 99 /\ d.month \in 1 .. 12
        /\ d.day \in 1 .. 31 /\ d.hour \in 0 .. 23 /\ d.minute \in 0 .. 59
        /\ d.second \in 0 .. 59
    BY <2>1, <1>0, <1>1, <1>2, <1>3
  <2>3. d = [century |-> d.century, year |-> d.year, month |-> d.month,
             day |-> d.day, hour |-> d.hour, minute |-> d.minute,
             second |-> d.second]
    BY <1>1 DEF Field
  <2> QED BY <2>2, <2>3 DEF Time
<1>5. d.day <= DaysIn(d)
  <2>1. DaysIn(d) \in 28 .. 31
    BY DEF DaysIn
  <2>2. CASE d.day = 1
    BY <2>1, <2>2
  <2>3. CASE d.day # 1
    <3>1. d.month = c.month /\ d.year = c.year
      BY <2>3, <1>2, <1>3
    <3>2. DaysIn(d) = DaysIn(c)
      BY <3>1 DEF DaysIn
    <3> QED BY <3>2, <1>0, <1>2, <2>1 DEF Time
  <2> QED BY <2>2, <2>3
<1>6. d.second # c.second
  BY <1>0, <1>1 DEF Time
<1>7. ASSUME d.minute = c.minute, NEW f \in Field \ {"second"}
      PROVE  d[f] = c[f]
  <2>1. c.second # 59
    BY <1>0, <1>1, <1>7 DEF Time
  <2> QED BY <2>1, <1>1, <1>2, <1>3 DEF Field
<1> QED BY <1>4, <1>5, <1>6, <1>7 DEF Valid

(* A remainder is below its divisor.                                       *)
LEMMA Remainder ==
    ASSUME NEW m \in Nat, NEW n \in Nat \ {0}
    PROVE  m % n \in 0 .. n - 1 /\ m \div n \in Nat
  OBVIOUS

(* Both halves have values.                                                *)
LEMMA Halves == HalfLo \in Nat \ {0} /\ HalfHi \in Nat \ {0}
  BY DEF HalfLo, HalfHi

(* The halves of a seed stay halves.                                       *)
LEMMA SeedFacts ==
    ASSUME NEW sd \in SeedType
    PROVE  NextSeed(sd) \in SeedType
<1>1. sd.lo \in Nat /\ sd.hi \in Nat
  BY Halves DEF SeedType
<1> DEFINE low == sd.lo * 20077 + 12345
           carry == low \div HalfLo
           high == sd.hi * 20077 + sd.lo * 16838 + carry
<1>2. low \in Nat
  BY <1>1
<1>3. low % HalfLo \in 0 .. HalfLo - 1 /\ carry \in Nat
  <2> HIDE DEF low
  <2> QED BY <1>2, Halves, Remainder
<1>4. high \in Nat
  <2> HIDE DEF carry
  <2> QED BY <1>1, <1>3
<1>5. high % HalfHi \in 0 .. HalfHi - 1
  <2> HIDE DEF high
  <2> QED BY <1>4, Halves, Remainder
<1>6. NextSeed(sd) = [hi |-> high % HalfHi, lo |-> low % HalfLo]
  BY DEF NextSeed
<1> HIDE DEF low, high
<1> QED BY <1>3, <1>5, <1>6 DEF SeedType

(* randrange() stays in the range, for every seed and every range.         *)
LEMMA RandrangeFacts ==
    ASSUME NEW sd \in SeedType, NEW x \in Int, NEW y \in Int, x <= y
    PROVE  randrange(sd, x, y) \in x .. y
<1>1. sd.hi \in Nat
  BY Halves DEF SeedType
<1>2. y - x + 1 \in Nat \ {0}
  OBVIOUS
<1>3. sd.hi % (y - x + 1) \in 0 .. (y - x + 1) - 1
  BY <1>1, <1>2, Remainder
<1>4. \A r \in 0 .. (y - x + 1) - 1 : r + x \in x .. y
  OBVIOUS
<1> QED BY <1>3, <1>4 DEF randrange, rand_my

(* A second of the clock is a seed.                                        *)
LEMMA SeedOfFacts ==
    ASSUME NEW n \in 0 .. Bcd(99)
    PROVE  SeedOf(n) \in SeedType
<1>1. n \in Nat
  BY DEF Bcd
<1>2. n % HalfLo \in 0 .. HalfLo - 1 /\ n \div HalfLo \in Nat
  BY <1>1, Halves, Remainder
<1>3. (n \div HalfLo) % HalfHi \in 0 .. HalfHi - 1
  BY <1>2, Halves, Remainder
<1> QED BY <1>2, <1>3 DEF SeedOf, SeedType

-----------------------------------------------------------------------------
(* TypeOK and what it rests on: the clock shows days that exist.           *)
TypeInv ==
    /\ TypeOK
    /\ Valid(clock)
    /\ Valid(entered)

(* It is inductive.                                                        *)
LEMMA TypeInvHolds == Spec => []TypeInv
<1> USE OrderFacts, ClockAssumption
<1>1. Init => TypeInv
  <2> SUFFICES ASSUME Init PROVE TypeInv
    OBVIOUS
  <2>1. Valid(clock) /\ Valid(entered) /\ Valid(left)
    BY BootAssumption DEF Init, Valid
  <2>2. time \in [Field -> 0 .. Bcd(99)]
    BY DEF Init, Bcd
  <2>3. seed \in SeedType
    BY SeedOfFacts DEF Init, Bcd
  <2>4. /\ since \in 0 .. MinReads /\ ticks \in 0 .. MaxTicks
        /\ draws \in 0 .. MaxDraws /\ passes \in 0 .. 3
    BY DEF Init
  <2>6. interrupts \in BOOLEAN /\ (Reading => ~interrupts)
    BY DEF Init, Reading
  <2>5. pc \in {"get_time"} \X (1 .. Len(Order) + 1)
    BY DEF Init
  <2>7. drawn \in 1 .. 100
    BY DEF Init
  <2> QED BY <2>1, <2>2, <2>3, <2>4, <2>5, <2>6, <2>7 DEF TypeInv, TypeOK, Valid
<1>2. TypeInv /\ [Next]_vars => TypeInv'
  <2> SUFFICES ASSUME TypeInv, [Next]_vars PROVE TypeInv'
    OBVIOUS
  <2>0. /\ \A f \in Field : CMOS_READ(f) \in 0 .. Bcd(99)
        /\ CMOS_READ("second") \in 0 .. Bcd(99)
        /\ MinReads \in Nat /\ since \in 0 .. MinReads
    <3>1. clock \in Time /\ MinReads \in Nat /\ since \in 0 .. MinReads
      BY DEF TypeInv, TypeOK
    <3>2. \A f \in Field : clock[f] \in 0 .. 99
      BY <3>1, TimeFields, Zenon
    <3>3. \A f \in Field : CMOS_READ(f) \in 0 .. Bcd(99)
      <4>1. 99 \in 0 .. 99
        OBVIOUS
      <4>2. \A n \in 0 .. 99 : Bcd(n) \in 0 .. Bcd(99)
        BY <4>1, BcdFacts, Zenon
      <4> QED BY <3>2, <4>2, Zenon DEF CMOS_READ
    <3>4. "second" \in Field
      BY DEF Field
    <3> QED BY <3>1, <3>3, <3>4, Zenon
  <2>a. ASSUME Reads \/ Lasting PROVE since' \in 0 .. MinReads
    BY <2>a, <2>0 DEF Reads, Lasting
  <2> USE DEF TypeInv, TypeOK, history, machine, Reading
  <2>1. CASE Tick
    <3>1. Valid(clock') /\ clock' \in Time
      BY <2>1, SuccessorFields DEF Tick, Valid
    <3>2. since' \in 0 .. MinReads /\ ticks' \in 0 .. MaxTicks
      BY <2>1 DEF Tick
    <3> QED BY <2>1, <3>1, <3>2 DEF Tick
  <2>2. CASE ReadField
    <3>1. pc[1] = "get_time" /\ pc[2] \in 1 .. 7
      BY <2>2 DEF ReadField
    <3>2. time' \in [Field -> 0 .. Bcd(99)]
      BY <2>2, <3>1, <2>0 DEF ReadField
    <3>3. pc' \in {"get_time"} \X (1 .. Len(Order) + 1)
      BY <2>2, <3>1 DEF ReadField
    <3>4. passes' \in 0 .. 3 /\ Valid(entered') /\ entered' \in Time
      BY <2>2 DEF ReadField
    <3>5. since' \in 0 .. MinReads
      BY <2>2, <2>a DEF ReadField
    <3> QED BY <2>2, <3>1, <3>2, <3>3, <3>4, <3>5 DEF ReadField
  <2>3. CASE TestSecond
    <3>1. since' \in 0 .. MinReads
      BY <2>3, <2>a DEF TestSecond
    <3>2. CASE time.second = CMOS_READ("second")
      BY <2>3, <3>1, <3>2 DEF TestSecond
    <3>3. CASE time.second # CMOS_READ("second")
      BY <2>3, <3>1, <3>3 DEF TestSecond
    <3> QED BY <3>2, <3>3
  <2>4. CASE PrintTime
    BY <2>4, <2>a DEF PrintTime
  <2>5. CASE srand_my
    <3>1. seed' \in SeedType
      BY <2>5, <2>0, SeedOfFacts DEF srand_my
    <3> QED BY <2>5, <3>1, <2>a DEF srand_my
  <2>6. CASE init_8259A
    BY <2>6, <2>a DEF init_8259A
  <2>7. CASE Draw
    <3>1. seed' \in SeedType /\ draws' \in 0 .. MaxDraws
      BY <2>7, SeedFacts DEF Draw
    <3>2. randrange(seed', 1, 100) \in 1 .. 100
      <4> HIDE DEF TypeInv, TypeOK, history, machine, Reading
      <4>1. seed' \in SeedType /\ 1 \in Int /\ 100 \in Int /\ 1 <= 100
        BY <3>1
      <4>2. \A sd \in SeedType : randrange(sd, 1, 100) \in 1 .. 100
        BY RandrangeFacts
      <4> QED BY <4>1, <4>2
    <3>3. drawn' \in 1 .. 100
      BY <2>7, <3>2 DEF Draw
    <3>4. since' \in 0 .. MinReads
      BY <2>7, <2>a DEF Draw
    <3> QED BY <2>7, <3>1, <3>3, <3>4 DEF Draw
  <2>8. CASE ignore_int
    BY <2>8, <2>a DEF ignore_int
  <2>9. CASE UNCHANGED vars
    BY <2>9 DEF vars
  <2> QED BY <2>1, <2>2, <2>3, <2>4, <2>5, <2>6, <2>7, <2>8, <2>9
          DEF Next, Step
<1> QED BY <1>1, <1>2, PTL DEF Spec

(* The registers, the seed and the flag IF have the values TypeOK gives    *)
(* them, for every clock that shows a day of the calendar.                 *)
THEOREM TypeCorrect == Spec => []TypeOK
<1>1. TypeInv => TypeOK
  BY DEF TypeInv
<1> QED BY <1>1, TypeInvHolds, PTL

(* Every number drawn for the game is from 1 to 100, after any number of   *)
(* draws and from any second of the clock (random.c:18).                   *)
THEOREM DrawsInRangeCorrect == Spec => [](drawn \in 1 .. 100)
<1>1. TypeInv => drawn \in 1 .. 100
  BY DEF TypeInv, TypeOK
<1> QED BY <1>1, TypeInvHolds, PTL

-----------------------------------------------------------------------------
(* The first n of the fields read so far are those of the time the pass    *)
(* began, the other ones, up to the r-th, those of the clock.              *)
Seen(n, r) ==
    \A i \in 1 .. r :
        time[Order[i]] = Bcd((IF i <= n THEN entered ELSE clock)[Order[i]])

(* What a pass has read after r accesses.  A second pass follows a tick    *)
(* that fell between the two last accesses of the first: it is over before *)
(* the next one.                                                           *)
Progress(r) ==
    /\ passes \in 0 .. 2
    /\ passes = 0 => r = 0
    /\ passes = 1 /\ r = 0 => since = 1
    /\ passes = 2 => r >= 1 /\ since = r + 1 /\ clock = entered
    /\ r >= 1 =>
          /\ passes >= 1
          /\ \E n \in 1 .. r :
                /\ Seen(n, r)
                /\ \/ clock = entered
                   \/ clock = Successor(entered) /\ since = r - n

ReadInv ==
    /\ Reading => Progress(pc[2] - 1)
    /\ TwoPasses
    /\ TimeExplained

(* A tick in a pass that has read r fields.                                *)
LEMMA TickKeeps ==
    ASSUME NEW r \in 0 .. 7, TypeInv, Tick, Progress(r)
    PROVE  Progress(r)'
<1>0. /\ since = MinReads /\ since' = 0 /\ clock' = Successor(clock)
      /\ UNCHANGED <<pc, time, entered, passes>>
      /\ MinReads \in Nat /\ MinReads >= 9
  BY ClockAssumption DEF Tick, machine, history
<1>1. passes # 2
  BY <1>0 DEF Progress
<1>2. ASSUME r >= 1
      PROVE  \E n \in 1 .. r : /\ Seen(n, r)'
                               /\ clock' = Successor(entered') /\ since' = r - n
  <2>1. PICK n \in 1 .. r : /\ Seen(n, r)
                            /\ \/ clock = entered
                               \/ clock = Successor(entered) /\ since = r - n
    BY <1>2 DEF Progress
  <2>2. clock = entered
    BY <2>1, <1>0
  <2>3. Seen(r, r)'
    BY <2>1, <2>2, <1>0 DEF Seen
  <2> QED BY <2>2, <2>3, <1>0, <1>2
<1>3. ASSUME r >= 1
      PROVE  \E n \in 1 .. r :
                /\ Seen(n, r)'
                /\ \/ clock' = entered'
                   \/ clock' = Successor(entered') /\ since' = r - n
  BY <1>2, <1>3
<1> QED BY <1>0, <1>1, <1>3 DEF Progress

(* The read of a field.                                                    *)
LEMMA ReadKeeps ==
    ASSUME NEW r \in 0 .. 6, TypeInv, ReadField, pc[2] = r + 1, Progress(r)
    PROVE  Progress(r + 1)'
<1>0. /\ time' = [time EXCEPT ![Order[r + 1]] = Bcd(clock[Order[r + 1]])]
      /\ time \in [Field -> 0 .. Bcd(99)]
      /\ entered' = IF r = 0 THEN clock ELSE entered
      /\ passes' = IF r = 0 /\ passes < 3 THEN passes + 1 ELSE passes
      /\ since' = IF since < MinReads THEN since + 1 ELSE since
      /\ clock' = clock
      /\ MinReads \in Nat /\ MinReads >= 9 /\ since \in 0 .. MinReads
  BY ClockAssumption
     DEF ReadField, Reads, CMOS_READ, TypeInv, TypeOK, Reading
<1>1. \A i \in 1 .. r + 1 :
          time'[Order[i]] = IF i = r + 1 THEN Bcd(clock[Order[i]])
                            ELSE time[Order[i]]
  BY <1>0, OrderFacts
<1>2. CASE r = 0
  <2>1. passes \in 0 .. 1 /\ (passes = 1 => since = 1)
    BY <1>2 DEF Progress
  <2>2. Seen(1, 1)'
    BY <1>0, <1>1, <1>2 DEF Seen
  <2>3. passes' = passes + 1 /\ clock' = entered'
    BY <1>0, <1>2, <2>1
  <2>4. passes = 1 => since' = 2
    BY <1>0, <2>1
  <2>5. \E n \in 1 .. 1 : Seen(n, 1)' /\ clock' = entered'
    BY <2>2, <2>3
  <2>6. Progress(1)'
    BY <2>1, <2>3, <2>4, <2>5 DEF Progress
  <2>7. r + 1 = 1
    BY <1>2
  <2> QED BY <2>6, <2>7
<1>3. CASE r # 0
  <2>1. PICK n \in 1 .. r : /\ Seen(n, r)
                            /\ \/ clock = entered
                               \/ clock = Successor(entered) /\ since = r - n
    BY <1>0, <1>3 DEF Progress
  <2>2. /\ passes' = passes /\ entered' = entered
        /\ passes \in 1 .. 2
    BY <1>0, <1>3 DEF Progress
  <2>3. Seen(n, r + 1)'
    <3> SUFFICES ASSUME NEW i \in 1 .. r + 1
                 PROVE  time'[Order[i]] =
                            Bcd((IF i <= n THEN entered' ELSE clock')[Order[i]])
      BY DEF Seen, Bcd
    <3>1. CASE i = r + 1
      BY <3>1, <1>0, <1>1
    <3>2. CASE i # r + 1
      <4>1. i \in 1 .. r
        BY <3>2, <1>0
      <4>2. time[Order[i]] = Bcd((IF i <= n THEN entered ELSE clock)[Order[i]])
        BY <4>1, <2>1 DEF Seen
      <4> QED BY <4>1, <4>2, <3>2, <1>0, <1>1, <2>2
    <3> QED BY <3>1, <3>2
  <2>4. \/ clock' = entered'
        \/ clock' = Successor(entered') /\ since' = r + 1 - n
    BY <2>1, <2>2, <1>0
  <2>5. passes = 2 => since' = r + 2 /\ clock' = entered'
    BY <2>2, <1>0 DEF Progress
  <2>6. n \in 1 .. r + 1
    BY <1>0
  <2>7. \E m \in 1 .. r + 1 :
            /\ Seen(m, r + 1)'
            /\ \/ clock' = entered'
               \/ clock' = Successor(entered') /\ since' = r + 1 - m
    BY <2>3, <2>4, <2>6
  <2> QED BY <2>2, <2>5, <2>7, <1>3 DEF Progress
<1> QED BY <1>2, <1>3

(* The end of a pass: what was read is explained, or the loop starts again *)
(* for the last time.                                                      *)
LEMMA TestKeeps ==
    ASSUME TypeInv, TestSecond, Progress(pc[2] - 1)
    PROVE  /\ Reading' => Progress(pc[2] - 1)'
           /\ TimeExplained'
<1>0. /\ pc[2] = 8
      /\ since' = IF since < MinReads THEN since + 1 ELSE since
      /\ UNCHANGED <<clock, time, entered, passes>>
      /\ MinReads \in Nat /\ MinReads >= 9
      /\ Order[7] = "second"
  BY ClockAssumption, OrderFacts DEF TestSecond, Reads
<1>1. PICK n \in 1 .. 7 : /\ Seen(n, 7)
                          /\ \/ clock = entered
                             \/ clock = Successor(entered) /\ since = 7 - n
  BY <1>0 DEF Progress
<1>2. /\ passes \in 1 .. 2
      /\ passes = 2 => clock = entered
  BY <1>0 DEF Progress
<1>3. time["second"] = Bcd((IF 7 <= n THEN entered ELSE clock)["second"])
  BY <1>0, <1>1 DEF Seen
<1>4. CASE time.second = CMOS_READ("second")
  <2>1. pc' = <<"print", 1>> /\ left' = clock
    BY <1>4 DEF TestSecond
  <2>2. CASE clock = entered
    <3>1. \A i \in 1 .. 7 : time[Order[i]] = Bcd(clock[Order[i]])
      BY <1>1, <2>2 DEF Seen
    <3>2. \A f \in Field : time[f] = Bcd(clock[f])
      BY <3>1, OrderFacts
    <3>3. 0 \in 0 .. Len(Order) - 1
      BY OrderFacts
    <3>4. \A i \in DOMAIN Order :
             time'[Order[i]] =
                 Bcd((IF i <= 0 THEN entered' ELSE left')[Order[i]])
      BY <3>1, <2>1, <1>0, OrderFacts
    <3> QED BY <3>2, <3>3, <3>4, <2>1, <1>0, <1>4
            DEF TimeExplained, Reading, CMOS_READ
  <2>3. CASE clock = Successor(entered)
    <3>0. /\ clock.second # entered.second
          /\ clock.minute = entered.minute =>
                \A f \in Field \ {"second"} : clock[f] = entered[f]
          /\ clock.second \in 0 .. 99 /\ entered.second \in 0 .. 99
      BY <2>3, SuccessorFields, TimeFields DEF TypeInv, TypeOK, Field
    <3>1. n # 7
      <4>1. Bcd(clock.second) # Bcd(entered.second)
        BY <3>0, BcdFacts
      <4> QED BY <4>1, <1>3, <1>4 DEF CMOS_READ
    <3>2. n \in 0 .. Len(Order) - 1
      BY <3>1, OrderFacts
    <3>3. \A i \in DOMAIN Order :
             time'[Order[i]] =
                 Bcd((IF i <= n THEN entered' ELSE left')[Order[i]])
      BY <1>1, <1>0, <2>1, OrderFacts DEF Seen
    <3>4. ASSUME entered.minute = clock.minute, NEW f \in Field
          PROVE  time[f] = Bcd(clock[f])
      <4>1. PICK i \in 1 .. 7 : Order[i] = f
        BY OrderFacts
      <4>2. time[f] = Bcd((IF i <= n THEN entered ELSE clock)[f])
        BY <4>1, <1>1 DEF Seen
      <4>3. f # "second" => clock[f] = entered[f]
        BY <3>0, <3>4
      <4>4. f = "second" => time[f] = Bcd(clock[f])
        BY <1>4 DEF CMOS_READ
      <4> QED BY <4>2, <4>3, <4>4
    <3> QED BY <3>2, <3>3, <3>4, <2>1, <1>0, <1>4
            DEF TimeExplained, Reading, CMOS_READ
  <2>4. ~Reading'
    BY <2>1 DEF Reading
  <2> QED BY <2>2, <2>3, <2>4, <1>1
<1>5. CASE time.second # CMOS_READ("second")
  <2>1. pc' = <<"get_time", 1>>
    BY <1>5 DEF TestSecond
  <2>2. 7 <= n /\ clock # entered
    BY <1>3, <1>5 DEF CMOS_READ
  <2>3. since' = 1
    BY <2>2, <1>0, <1>1
  <2>4. passes' = 1
    BY <2>2, <1>0, <1>2
  <2>5. Progress(0)'
    BY <2>3, <2>4 DEF Progress
  <2> QED BY <2>1, <2>5 DEF Reading, TimeExplained
<1> QED BY <1>4, <1>5

(* ReadInv is inductive, given TypeInv.                                    *)
LEMMA ReadInvHolds == Spec => []ReadInv
<1>1. Init => ReadInv
  BY DEF Init, ReadInv, Reading, Progress, TwoPasses, TimeExplained
<1>2. TypeInv /\ TypeInv' /\ ReadInv /\ [Next]_vars => ReadInv'
  <2> SUFFICES ASSUME TypeInv, TypeInv', ReadInv, [Next]_vars PROVE ReadInv'
    OBVIOUS
  <2>1. CASE Tick
    <3>1. UNCHANGED <<pc, time, entered, left, passes>>
      BY <2>1 DEF Tick, machine, history
    <3>2. Reading => pc[2] - 1 \in 0 .. 7
      BY OrderFacts DEF TypeInv, TypeOK, Reading
    <3>3. ASSUME Reading PROVE Progress(pc[2] - 1)'
      <4>1. PICK r \in 0 .. 7 : r = pc[2] - 1
        BY <3>2, <3>3
      <4>2. Progress(r)'
        BY <2>1, <3>3, <4>1, TickKeeps DEF ReadInv
      <4>3. r = pc'[2] - 1
        BY <4>1, <3>1
      <4> QED BY <4>2, <4>3
    <3> QED BY <3>1, <3>3 DEF ReadInv, Reading, TwoPasses, TimeExplained
  <2>2. CASE ReadField
    <3>1. Reading /\ Reading'
      BY <2>2 DEF ReadField, Reading
    <3>2. pc[2] - 1 \in 0 .. 6 /\ pc'[2] = pc[2] + 1
      BY <2>2, <3>1, OrderFacts DEF ReadField, TypeInv, TypeOK, Reading
    <3>3. PICK r \in 0 .. 6 : pc[2] = r + 1 /\ pc'[2] - 1 = r + 1
      BY <3>2
    <3>4. Progress(r + 1)'
      BY <2>2, <3>1, <3>3, ReadKeeps DEF ReadInv
    <3>5. Progress(pc[2] - 1)'
      BY <3>3, <3>4
    <3>6. TwoPasses'
      BY <3>4 DEF Progress, TwoPasses
    <3> QED BY <3>1, <3>5, <3>6 DEF ReadInv, TimeExplained
  <2>3. CASE TestSecond
    <3>1. Reading
      BY <2>3 DEF TestSecond, Reading
    <3>2. passes' = passes
      BY <2>3 DEF TestSecond
    <3> QED BY <2>3, <3>1, <3>2, TestKeeps DEF ReadInv, TwoPasses
  <2>4. CASE PrintTime \/ srand_my \/ init_8259A \/ Draw \/ ignore_int
    <3>1. ~Reading /\ ~Reading'
      BY <2>4 DEF PrintTime, srand_my, init_8259A, Draw, ignore_int, Reading
    <3>2. UNCHANGED <<time, entered, left, passes>>
      BY <2>4 DEF PrintTime, srand_my, init_8259A, Draw, ignore_int, history
    <3> QED BY <3>1, <3>2 DEF ReadInv, TwoPasses, TimeExplained
  <2>5. CASE UNCHANGED vars
    BY <2>5 DEF vars, machine, history, ReadInv, Reading, Progress, Seen,
                TwoPasses, TimeExplained
  <2> QED BY <2>1, <2>2, <2>3, <2>4, <2>5 DEF Next, Step
<1> QED BY <1>1, <1>2, TypeInvHolds, PTL DEF Spec

(* What get_time() returns is the moment its loop ends, or the moment      *)
(* before it up to one of the fields when a new minute began.              *)
THEOREM TimeExplainedCorrect == Spec => []TimeExplained
<1>1. ReadInv => TimeExplained
  BY DEF ReadInv
<1> QED BY <1>1, ReadInvHolds, PTL

(* get_time() reads the clock twice at most.                               *)
THEOREM TwoPassesCorrect == Spec => []TwoPasses
<1>1. ReadInv => TwoPasses
  BY DEF ReadInv
<1> QED BY <1>1, ReadInvHolds, PTL

-----------------------------------------------------------------------------
-----------------------------------------------------------------------------
(* Induction. *)

(* A set of numbers has a least one.  The proof goes through the intervals *)
(* from 0 to the numbers, which are well-founded by inclusion.             *)
LEMMA LeastNat ==
    ASSUME NEW T \in SUBSET Nat, T # {}
    PROVE  \E m \in T : \A n \in T : m <= n
<1> DEFINE intervals == {0 .. n : n \in T}
           within == StrictSubsetOrdering(Nat)
<1>1. \A n \in Nat : IsFiniteSet(0 .. n) /\ 0 .. n \subseteq Nat
  BY FS_Interval
<1>2. intervals \subseteq FiniteSubsetsOf(Nat) /\ intervals # {}
  BY <1>1 DEF FiniteSubsetsOf
<1>3. IsWellFoundedOn(within, FiniteSubsetsOf(Nat))
  BY FS_StrictSubsetOrderingWellFounded
<1>4. PICK x \in intervals : \A y \in intervals : ~ (<<y, x>> \in within)
  <2> HIDE DEF intervals, within
  <2> QED BY <1>2, <1>3, WFMin
<1>5. PICK m \in T : x = 0 .. m
  OBVIOUS
<1>6. ASSUME NEW n \in T, ~(m <= n)
      PROVE  FALSE
  <2>1. 0 .. n \subseteq 0 .. m /\ 0 .. n # 0 .. m
    BY <1>6
  <2>2. <<0 .. n, x>> \in within
    BY <2>1, <1>5, <1>1 DEF StrictSubsetOrdering
  <2> QED BY <2>2, <1>4
<1> QED BY <1>6

(* Induction over numbers, of a set instead of a formula.                  *)
LEMMA SetInduction ==
    ASSUME NEW N \in Nat, NEW T \in SUBSET (0 .. N), 0 \in T,
           \A n \in 1 .. N : n - 1 \in T => n \in T
    PROVE  T = 0 .. N
<1> DEFINE U == (0 .. N) \ T
<1> SUFFICES ASSUME U # {}
             PROVE  FALSE
  OBVIOUS
<1>1. U \in SUBSET Nat
  OBVIOUS
<1>2. PICK m \in U : \A n \in U : m <= n
  <2> HIDE DEF U
  <2> QED BY <1>1, LeastNat
<1>3. m \in 1 .. N
  BY <1>2
<1>4. m - 1 \in 0 .. N /\ ~(m <= m - 1)
  BY <1>3
<1>5. m - 1 \in T
  BY <1>2, <1>4
<1> QED BY <1>2, <1>3, <1>5

-----------------------------------------------------------------------------
(* vsprintf(): the directives of a format. *)

(* The one place that After() can mean.                                    *)
LEMMA AfterIs ==
    ASSUME NEW fmt, Len(fmt) \in Nat, NEW i \in Nat, NEW S,
           NEW j \in i .. Len(fmt) + 1,
           j > Len(fmt) \/ fmt[j] \notin S,
           \A k \in i .. j - 1 : fmt[k] \in S
    PROVE  After(fmt, i, S) = j
<1> DEFINE Stops(k) == /\ k > Len(fmt) \/ fmt[k] \notin S
                      /\ \A l \in i .. k - 1 : fmt[l] \in S
           found == CHOOSE k \in i .. Len(fmt) + 1 : Stops(k)
<1>1. Len(fmt) \in Nat
  OBVIOUS
<1>2. found \in i .. Len(fmt) + 1 /\ Stops(found)
  <2>1. Stops(j)
    OBVIOUS
  <2> HIDE DEF Stops
  <2> QED BY <2>1
<1>3. After(fmt, i, S) = found
  BY DEF After
<1> HIDE DEF found
<1>4. CASE found < j
  <2>1. found \in i .. j - 1 /\ found <= Len(fmt)
    BY <1>1, <1>2, <1>4
  <2> QED BY <2>1, <1>1, <1>2
<1>5. CASE j < found
  <2>1. j \in i .. found - 1 /\ j <= Len(fmt)
    BY <1>1, <1>2, <1>5
  <2> QED BY <2>1, <1>1, <1>2
<1> QED BY <1>1, <1>2, <1>3, <1>4, <1>5

(* What vsprintf() makes of the format from place at[1] on, with the       *)
(* arguments from the at[2]-th on, when it has str[at] for later places.   *)
Item(fmt, args, str, at) ==
    LET d == Directive(fmt, at[1] + 1)
        c == CharAt(fmt, d.at)
    IN  IF at[1] > Len(fmt) THEN <<>>
        ELSE IF fmt[at[1]] # "%" THEN <<fmt[at[1]]>> \o str[<<at[1] + 1, at[2]>>]
        ELSE IF c \in Conversion
        THEN Converted(c, d, args[at[2]]) \o str[<<d.at + 1, at[2] + 1>>]
        ELSE IF c = "end" THEN <<"%">>
        ELSE (IF c = "%" THEN <<"%">> ELSE <<"%", c>>) \o str[<<d.at + 1, at[2]>>]

(* Behind each % of the format there is a conversion.                      *)
Complete(fmt) ==
    /\ Len(fmt) \in Nat
    /\ \A i \in 1 .. Len(fmt) : fmt[i] = "%" =>
          Directive(fmt, i + 1).at \in i + 1 .. Len(fmt)

(* str is what vsprintf() makes from each place on.                        *)
Texts(fmt, args, str) ==
    /\ vsprintf(fmt, args) = str[<<1, 1>>]
    /\ \A i \in 1 .. Len(fmt) + 1, a \in Nat :
          str[<<i, a>>] = Item(fmt, args, str, <<i, a>>)

(* An item looks at later ones only.                                       *)
LEMMA ItemLater ==
    ASSUME NEW fmt, Complete(fmt), NEW args, NEW i \in 1 .. Len(fmt) + 1,
           NEW a \in Nat, NEW g, NEW h,
           \A j \in i + 1 .. Len(fmt) + 1, b \in Nat : g[<<j, b>>] = h[<<j, b>>]
    PROVE  Item(fmt, args, g, <<i, a>>) = Item(fmt, args, h, <<i, a>>)
<1> DEFINE d == Directive(fmt, i + 1)
           n == Len(fmt)
           before(str) == str[<<i + 1, a>>]
           behind(str, b) == str[<<d.at + 1, b>>]
<1>1. n \in Nat
  BY DEF Complete
<1>2. CASE i > n
  BY <1>2 DEF Item
<1>3. CASE i <= n /\ fmt[i] # "%"
  <2>1. i + 1 \in i + 1 .. n + 1
    BY <1>1, <1>3
  <2>2. g[<<i + 1, a>>] = h[<<i + 1, a>>]
    BY <2>1
  <2> QED BY <2>2, <1>1, <1>3 DEF Item
<1>4. CASE i <= n /\ fmt[i] = "%"
  <2>1. d.at \in i + 1 .. n
    BY <1>1, <1>4 DEF Complete
  <2>2. d.at + 1 \in i + 1 .. n + 1 /\ a + 1 \in Nat
    BY <2>1, <1>1
  <2>3. /\ g[<<d.at + 1, a>>] = h[<<d.at + 1, a>>]
        /\ g[<<d.at + 1, a + 1>>] = h[<<d.at + 1, a + 1>>]
    BY <2>2
  <2> QED BY <2>3, <1>1, <1>4, Zenon DEF Item
<1> QED BY <1>1, <1>2, <1>3, <1>4

(* vsprintf() is defined for every complete format.                        *)
LEMMA TextsExist ==
    ASSUME NEW fmt, Complete(fmt), NEW args
    PROVE  \E str : Texts(fmt, args, str)
<1> DEFINE n == Len(fmt)
           Made(g, k) == \A i \in k .. n + 1, a \in Nat :
                            g[<<i, a>>] = Item(fmt, args, g, <<i, a>>)
           T == {k \in 0 .. n : \E g : Made(g, n + 1 - k)}
<1>1. n \in Nat
  BY DEF Complete
<1>2. 0 \in T
  <2> DEFINE g == [at \in (n + 1 .. n + 1) \X Nat |-> <<>>]
  <2>1. \A i \in n + 1 .. n + 1, a \in Nat :
           g[<<i, a>>] = <<>> /\ Item(fmt, args, g, <<i, a>>) = <<>>
    <3> SUFFICES ASSUME NEW i \in n + 1 .. n + 1, NEW a \in Nat
                 PROVE  g[<<i, a>>] = <<>> /\ Item(fmt, args, g, <<i, a>>) = <<>>
      OBVIOUS
    <3>1. i > n /\ <<i, a>> \in (n + 1 .. n + 1) \X Nat
      BY <1>1
    <3>2. g[<<i, a>>] = <<>>
      BY <3>1
    <3> HIDE DEF g
    <3> QED BY <3>1, <3>2 DEF Item
  <2> HIDE DEF g
  <2>2. Made(g, n + 1)
    BY <2>1
  <2> HIDE DEF Made
  <2> QED BY <2>2, <1>1
<1>3. ASSUME NEW k \in 1 .. n, k - 1 \in T
      PROVE  k \in T
  <2> DEFINE m == n + 1 - k
  <2>1. PICK g : Made(g, n + 1 - (k - 1))
    BY <1>3
  <2>2. m \in 1 .. n /\ n + 1 - (k - 1) = m + 1
    BY <1>1
  <2> DEFINE h == [at \in (m .. n + 1) \X Nat |->
                      IF at[1] = m THEN Item(fmt, args, g, at) ELSE g[at]]
  <2>3. \A a \in Nat : h[<<m, a>>] = Item(fmt, args, g, <<m, a>>)
    <3> SUFFICES ASSUME NEW a \in Nat
                 PROVE  h[<<m, a>>] = Item(fmt, args, g, <<m, a>>)
      OBVIOUS
    <3>1. <<m, a>> \in (m .. n + 1) \X Nat
      BY <2>2, <1>1
    <3> HIDE DEF m, n
    <3> QED BY <3>1
  <2>4. \A i \in m + 1 .. n + 1, a \in Nat : h[<<i, a>>] = g[<<i, a>>]
    <3> SUFFICES ASSUME NEW i \in m + 1 .. n + 1, NEW a \in Nat
                 PROVE  h[<<i, a>>] = g[<<i, a>>]
      OBVIOUS
    <3>1. <<i, a>> \in (m .. n + 1) \X Nat /\ i # m
      BY <2>2, <1>1
    <3> HIDE DEF m, n
    <3> QED BY <3>1
  <2> HIDE DEF h
  <2>5. \A i \in m .. n + 1, a \in Nat :
           Item(fmt, args, h, <<i, a>>) = Item(fmt, args, g, <<i, a>>)
    <3> SUFFICES ASSUME NEW i \in m .. n + 1, NEW a \in Nat
                 PROVE  Item(fmt, args, h, <<i, a>>) = Item(fmt, args, g, <<i, a>>)
      OBVIOUS
    <3>1. i \in 1 .. n + 1
      BY <2>2, <1>1
    <3>2. \A j \in i + 1 .. n + 1 : j \in m + 1 .. n + 1
      BY <2>2, <1>1
    <3>3. \A j \in i + 1 .. n + 1, b \in Nat : h[<<j, b>>] = g[<<j, b>>]
      BY <3>2, <2>4
    <3> QED BY <3>1, <3>3, ItemLater
  <2>6. \A i \in m .. n + 1 : i = m \/ i \in m + 1 .. n + 1
    BY <2>2, <1>1
  <2>7. \A i \in m + 1 .. n + 1, a \in Nat :
           g[<<i, a>>] = Item(fmt, args, g, <<i, a>>)
    BY <2>1, <2>2
  <2> HIDE DEF m
  <2>8. Made(h, m)
    BY <2>3, <2>4, <2>5, <2>6, <2>7
  <2> HIDE DEF Made, n
  <2>9. k \in 0 .. n
    BY <1>1
  <2> QED BY <2>8, <2>9 DEF m
<1>4. T = 0 .. n
  <2>1. T \in SUBSET (0 .. n)
    OBVIOUS
  <2> HIDE DEF T, n
  <2> QED BY <1>1, <1>2, <1>3, <2>1, SetInduction
<1>5. PICK g : Made(g, 1)
  <2>1. n + 1 - n = 1 /\ n \in 0 .. n
    BY <1>1
  <2>2. n \in T
    <3> HIDE DEF T, n
    <3> QED BY <2>1, <1>4
  <2>3. PICK g : Made(g, n + 1 - n)
    <3> HIDE DEF Made
    <3> QED BY <2>2
  <2> HIDE DEF n
  <2> QED BY <2>1, <2>3
<1> DEFINE D == (1 .. n + 1) \X Nat
           f == [at \in D |-> g[at]]
           str == CHOOSE s : s = [at \in D |-> Item(fmt, args, s, at)]
<1>6. f = [at \in D |-> Item(fmt, args, f, at)]
  <2>1. \A i \in 1 .. n + 1, a \in Nat : f[<<i, a>>] = g[<<i, a>>]
    <3> HIDE DEF n
    <3> QED OBVIOUS
  <2> HIDE DEF f
  <2>2. \A i \in 1 .. n + 1, a \in Nat :
           Item(fmt, args, f, <<i, a>>) = Item(fmt, args, g, <<i, a>>)
    <3> SUFFICES ASSUME NEW i \in 1 .. n + 1, NEW a \in Nat
                 PROVE  Item(fmt, args, f, <<i, a>>) = Item(fmt, args, g, <<i, a>>)
      OBVIOUS
    <3>1. \A j \in i + 1 .. n + 1 : j \in 1 .. n + 1
      BY <1>1
    <3>2. \A j \in i + 1 .. n + 1, b \in Nat : f[<<j, b>>] = g[<<j, b>>]
      BY <3>1, <2>1
    <3> QED BY <3>2, ItemLater
  <2>3. \A i \in 1 .. n + 1, a \in Nat :
           f[<<i, a>>] = Item(fmt, args, f, <<i, a>>)
    BY <2>1, <2>2, <1>5
  <2>4. \A at \in D : \E i \in 1 .. n + 1, a \in Nat : at = <<i, a>>
    <3> HIDE DEF n
    <3> QED OBVIOUS
  <2>5. \A at \in D : f[at] = Item(fmt, args, f, at)
    BY <2>3, <2>4
  <2>6. f = [at \in D |-> f[at]]
    BY DEF f
  <2> HIDE DEF D
  <2> QED BY <2>5, <2>6
<1>7. str = [at \in D |-> Item(fmt, args, str, at)]
  <2> HIDE DEF D, f
  <2> QED BY <1>6
<1>8. vsprintf(fmt, args) = str[<<1, 1>>]
  BY DEF vsprintf, Item
<1> HIDE DEF str
<1>9. \A i \in 1 .. n + 1, a \in Nat :
         str[<<i, a>>] = Item(fmt, args, str, <<i, a>>)
  <2> SUFFICES ASSUME NEW i \in 1 .. n + 1, NEW a \in Nat
               PROVE  str[<<i, a>>] = Item(fmt, args, str, <<i, a>>)
    OBVIOUS
  <2>1. <<i, a>> \in D
    OBVIOUS
  <2> HIDE DEF D
  <2> QED BY <2>1, <1>7
<1> QED BY <1>8, <1>9 DEF Texts

-----------------------------------------------------------------------------
(* number(): the digits of a number. *)

(* Division makes a number smaller.                                        *)
LEMMA Quotient ==
    ASSUME NEW base \in {10, 16}, NEW n \in Nat
    PROVE  /\ n % base \in 0 .. base - 1 /\ n \div base \in Nat
           /\ n = base * (n \div base) + (n % base)
           /\ n >= base => n \div base \in 0 .. n - 1
<1>1. CASE base = 10
  BY <1>1
<1>2. CASE base = 16
  BY <1>2
<1> QED BY <1>1, <1>2

(* The first digit, or one digit behind those of the quotient.             *)
Pass(d, n, base, digits) ==
    IF n < base THEN <<digits[n + 1]>>
    ELSE Append(d[n \div base], digits[(n % base) + 1])

(* d[n] are the digits of n, for every n up to num.                        *)
Passes(d, num, base, digits) ==
    \A n \in 0 .. num : d[n] = Pass(d, n, base, digits)

(* The loop of number() that divides has a result, for every number.       *)
LEMMA PassesExist ==
    ASSUME NEW base \in {10, 16}, NEW digits, NEW num \in Nat
    PROVE  \E d : /\ Passes(d, num, base, digits)
                  /\ Digits(num, base, digits) = d[num]
<1> DEFINE One(d, n) == Pass(d, n, base, digits)
           T == {k \in 0 .. num : \E g : Passes(g, k, base, digits)}
<1>1. 0 \in T
  <2> DEFINE g == [n \in 0 .. 0 |-> <<digits[n + 1]>>]
  <2>1. g[0] = One(g, 0)
    BY DEF Pass
  <2> HIDE DEF g
  <2>2. Passes(g, 0, base, digits)
    BY <2>1 DEF Passes
  <2> HIDE DEF Passes
  <2> QED BY <2>2
<1>2. ASSUME NEW k \in 1 .. num, k - 1 \in T
      PROVE  k \in T
  <2>1. PICK g : Passes(g, k - 1, base, digits)
    BY <1>2
  <2> DEFINE h == [n \in 0 .. k |-> IF n < k THEN g[n] ELSE One(g, k)]
  <2>2. h[k] = One(g, k) /\ \A n \in 0 .. k - 1 : h[n] = g[n]
    <3> HIDE DEF One
    <3> QED OBVIOUS
  <2>3. \A n \in 0 .. k : One(h, n) = One(g, n)
    <3> HIDE DEF h
    <3> SUFFICES ASSUME NEW n \in 0 .. k
                 PROVE  One(h, n) = One(g, n)
      OBVIOUS
    <3>1. n >= base => n \div base \in 0 .. k - 1
      BY Quotient
    <3> QED BY <3>1, <2>2 DEF Pass
  <2> HIDE DEF h
  <2>4. \A n \in 0 .. k : n = k \/ n \in 0 .. k - 1
    OBVIOUS
  <2>5. Passes(h, k, base, digits)
    BY <2>1, <2>2, <2>3, <2>4 DEF Passes
  <2> HIDE DEF Passes
  <2> QED BY <2>5
<1>3. T = 0 .. num
  <2>1. T \in SUBSET (0 .. num)
    OBVIOUS
  <2> HIDE DEF T
  <2> QED BY <1>1, <1>2, <2>1, SetInduction
<1>4. PICK g : Passes(g, num, base, digits)
  <2>1. num \in T
    <3> HIDE DEF T
    <3> QED BY <1>3
  <2> HIDE DEF Passes
  <2> QED BY <2>1
<1> DEFINE f == [n \in 0 .. num |-> g[n]]
           d == CHOOSE s : s = [n \in 0 .. num |-> One(s, n)]
<1>5. f = [n \in 0 .. num |-> One(f, n)]
  <2>1. \A n \in 0 .. num : f[n] = g[n]
    OBVIOUS
  <2>2. f = [n \in 0 .. num |-> f[n]]
    OBVIOUS
  <2> HIDE DEF f
  <2>3. \A n \in 0 .. num : One(f, n) = One(g, n)
    <3> SUFFICES ASSUME NEW n \in 0 .. num
                 PROVE  One(f, n) = One(g, n)
      OBVIOUS
    <3>1. n >= base => n \div base \in 0 .. num
      BY Quotient
    <3> QED BY <3>1, <2>1 DEF Pass
  <2>4. \A n \in 0 .. num : f[n] = One(f, n)
    BY <2>1, <2>3, <1>4 DEF Passes
  <2> HIDE DEF One
  <2> QED BY <2>2, <2>4
<1>6. d = [n \in 0 .. num |-> One(d, n)]
  <2> HIDE DEF f, One
  <2> QED BY <1>5
<1>7. Digits(num, base, digits) = d[num]
  BY DEF Digits, Pass
<1> HIDE DEF d
<1>8. Passes(d, num, base, digits)
  <2> HIDE DEF One
  <2>1. \A n \in 0 .. num : d[n] = One(d, n)
    BY <1>6
  <2> USE DEF One
  <2> QED BY <2>1 DEF Passes
<1> QED BY <1>7, <1>8

(* The digits of a number are those of its quotient and one more.          *)
LEMMA DigitsOf ==
    ASSUME NEW base \in {10, 16}, NEW digits, NEW n \in Nat
    PROVE  Digits(n, base, digits) =
             IF n < base THEN <<digits[n + 1]>>
             ELSE Append(Digits(n \div base, base, digits),
                         digits[(n % base) + 1])
<1>1. PICK d : Passes(d, n, base, digits) /\ Digits(n, base, digits) = d[n]
  BY PassesExist
<1>2. d[n] = Pass(d, n, base, digits)
  BY <1>1 DEF Passes
<1>3. CASE n < base
  BY <1>1, <1>2, <1>3 DEF Pass
<1>4. CASE n >= base
  <2> DEFINE q == n \div base
  <2>1. q \in 0 .. n - 1 /\ q \in Nat
    BY <1>4, Quotient
  <2> HIDE DEF q
  <2>2. PICK e : Passes(e, q, base, digits) /\ Digits(q, base, digits) = e[q]
    BY <2>1, PassesExist
  <2> DEFINE U == {m \in 0 .. q : d[m] # e[m]}
  <2>3. U = {}
    <3> SUFFICES ASSUME U # {}
                 PROVE  FALSE
      OBVIOUS
    <3>1. U \in SUBSET Nat
      OBVIOUS
    <3>2. PICK m \in U : \A k \in U : m <= k
      <4> HIDE DEF U
      <4> QED BY <3>1, LeastNat
    <3>3. m \in Nat /\ m \in 0 .. q /\ m \in 0 .. n /\ d[m] # e[m]
      BY <2>1
    <3>4. m >= base => m \div base \in 0 .. q /\ ~(m <= m \div base)
      <4>1. m >= base => m \div base \in 0 .. m - 1
        BY <3>3, Quotient
      <4> HIDE DEF U
      <4> QED BY <4>1, <3>3, <2>1
    <3>5. m >= base => d[m \div base] = e[m \div base]
      BY <3>2, <3>4
    <3>6. d[m] = Pass(d, m, base, digits) /\ e[m] = Pass(e, m, base, digits)
      BY <3>3, <1>1, <2>2 DEF Passes
    <3>7. m < base \/ m >= base
      BY <3>3
    <3> QED BY <3>3, <3>5, <3>6, <3>7 DEF Pass
  <2>4. d[q] = e[q]
    <3>1. q \in 0 .. q
      BY <2>1
    <3> QED BY <2>3, <3>1
  <2>5. ~(n < base)
    BY <1>4
  <2> QED BY <1>1, <1>2, <2>2, <2>4, <2>5 DEF Pass, q
<1> QED BY <1>3, <1>4

(* A last character, in the words of a concatenation.                      *)
LEMMA LastOne ==
    ASSUME NEW S, NEW s \in Seq(S), NEW t \in Seq(S), NEW c \in S
    PROVE  /\ <<c>> \in Seq(S) /\ Len(<<c>>) = 1
           /\ Append(s, c) = s \o <<c>>
           /\ Append(s, c) \in Seq(S) /\ Len(Append(s, c)) = Len(s) + 1
           /\ Append(t \o s, c) = t \o Append(s, c)
<1> DEFINE one == <<c>>
<1>1. one \in Seq(S) /\ Len(one) = 1 /\ one[1] = c
  OBVIOUS
<1> HIDE DEF one
<1>2. \A u \in Seq(S) : /\ Append(u, c) \in Seq(S)
                        /\ Len(Append(u, c)) = Len(u) + 1
                        /\ Append(u, c) = u \o one
  <2> SUFFICES ASSUME NEW u \in Seq(S)
               PROVE  /\ Append(u, c) \in Seq(S)
                      /\ Len(Append(u, c)) = Len(u) + 1
                      /\ Append(u, c) = u \o one
    OBVIOUS
  <2> DEFINE a == Append(u, c)
             b == u \o one
  <2>1. /\ a \in Seq(S) /\ Len(a) = Len(u) + 1 /\ Len(u) \in Nat
        /\ \A i \in 1 .. Len(u) : a[i] = u[i]
        /\ a[Len(u) + 1] = c
    OBVIOUS
  <2>2. /\ b \in Seq(S) /\ Len(b) = Len(u) + 1
        /\ \A i \in 1 .. Len(u) + 1 :
              b[i] = IF i <= Len(u) THEN u[i] ELSE one[i - Len(u)]
    <3> HIDE DEF a
    <3>1. /\ b \in Seq(S) /\ Len(b) = Len(u) + Len(one)
          /\ \A i \in 1 .. Len(u) + Len(one) :
                b[i] = IF i <= Len(u) THEN u[i] ELSE one[i - Len(u)]
      BY <1>1, ConcatProperties
    <3> HIDE DEF b
    <3> QED BY <3>1, <1>1
  <2> HIDE DEF a, b
  <2>3. \A i \in 1 .. Len(a) : a[i] = b[i]
    <3> SUFFICES ASSUME NEW i \in 1 .. Len(a)
                 PROVE  a[i] = b[i]
      OBVIOUS
    <3>1. CASE i <= Len(u)
      BY <3>1, <2>1, <2>2
    <3>2. CASE i = Len(u) + 1
      <4>1. i - Len(u) = 1 /\ ~(i <= Len(u)) /\ i \in 1 .. Len(u) + 1
        BY <3>2, <2>1
      <4> QED BY <4>1, <3>2, <2>1, <2>2, <1>1
    <3> QED BY <3>1, <3>2, <2>1
  <2>4. a = b
    BY <2>1, <2>2, <2>3, SeqEqual
  <2> QED BY <2>1, <2>4 DEF a, b
<1>3. t \o s \in Seq(S)
  BY ConcatProperties
<1>4. Append(t \o s, c) = t \o Append(s, c)
  <2>1. (t \o s) \o one = t \o (s \o one)
    BY <1>1, ConcatAssociative
  <2> QED BY <2>1, <1>2, <1>3
<1> QED BY <1>1, <1>2, <1>4 DEF one

(* Nothing is repeated when the count is not positive.                     *)
LEMMA RepeatNone ==
    ASSUME NEW c, NEW n \in Int, n <= 0
    PROVE  Repeat(c, n) = <<>>
<1> DEFINE r == [i \in 1 .. 0 |-> c]
<1>1. 1 .. n = 1 .. 0
  OBVIOUS
<1>2. Repeat(c, n) = r
  BY <1>1 DEF Repeat
<1>3. r \in Seq({c}) /\ Len(r) = 0
  OBVIOUS
<1>4. r = <<>>
  <2> HIDE DEF r
  <2> QED BY <1>3, EmptySeq
<1> QED BY <1>2, <1>4

-----------------------------------------------------------------------------
(* Numbers(): how the line is read. *)

(* The characters of the line, but those of its directives.                *)
Chars == {"~"} \cup Digit

(* The digit a character stands for.                                       *)
Value(c) == CHOOSE d \in 0 .. 9 : Small[d + 1] = c

(* The numbers in the first i characters, when n has those of the first    *)
(* i - 1.                                                                  *)
Read(n, text, i) ==
    IF i = 0 THEN <<>>
    ELSE IF text[i] \notin Digit THEN n[i - 1]
    ELSE IF i = 1 \/ text[i - 1] \notin Digit
    THEN Append(n[i - 1], Value(text[i]))
    ELSE [n[i - 1] EXCEPT ![Len(n[i - 1])] = 10 * @ + Value(text[i])]

(* n has the numbers in the first i characters, for each i up to k.        *)
ReadTo(n, text, k) == \A i \in 0 .. k : n[i] = Read(n, text, i)

(* Numbers() is defined for every text.                                    *)
LEMMA NumbersExist ==
    ASSUME NEW text, Len(text) \in Nat
    PROVE  \E n : ReadTo(n, text, Len(text)) /\ Numbers(text) = n[Len(text)]
<1> DEFINE L == Len(text)
           Next1(n, i) == Read(n, text, i)
           T == {k \in 0 .. L : \E g : ReadTo(g, text, k)}
<1>0. L \in Nat
  OBVIOUS
<1> HIDE DEF L
<1>1. 0 \in T
  <2> DEFINE g == [n \in 0 .. 0 |-> <<>>]
  <2>1. g[0] = <<>>
    OBVIOUS
  <2> HIDE DEF g
  <2>2. ReadTo(g, text, 0)
    BY <2>1 DEF ReadTo, Read
  <2> HIDE DEF ReadTo
  <2> QED BY <2>2, <1>0
<1>2. ASSUME NEW k \in 1 .. L, k - 1 \in T
      PROVE  k \in T
  <2>1. PICK g : ReadTo(g, text, k - 1)
    BY <1>2
  <2> DEFINE h == [n \in 0 .. k |-> IF n < k THEN g[n] ELSE Next1(g, k)]
  <2>2. h[k] = Next1(g, k) /\ \A n \in 0 .. k - 1 : h[n] = g[n]
    <3> HIDE DEF Next1
    <3> QED BY <1>0
  <2> HIDE DEF h
  <2>3. \A n \in 0 .. k : Next1(h, n) = Next1(g, n)
    <3> SUFFICES ASSUME NEW n \in 0 .. k
                 PROVE  Next1(h, n) = Next1(g, n)
      OBVIOUS
    <3>1. n # 0 => n - 1 \in 0 .. k - 1
      BY <1>0
    <3>2. n # 0 => h[n - 1] = g[n - 1]
      BY <3>1, <2>2
    <3> QED BY <3>2, Zenon DEF Read
  <2>4. \A n \in 0 .. k : n = k \/ n \in 0 .. k - 1
    BY <1>0
  <2> HIDE DEF Next1
  <2>5. \A n \in 0 .. k : h[n] = Next1(h, n)
    <3>1. \A n \in 0 .. k - 1 : g[n] = Next1(g, n)
      BY <2>1 DEF ReadTo, Next1
    <3>2. k \in 0 .. k
      BY <1>0
    <3> QED BY <3>1, <3>2, <2>2, <2>3, <2>4
  <2>6. ReadTo(h, text, k)
    BY <2>5 DEF ReadTo, Next1
  <2>7. k \in 0 .. L
    BY <1>0
  <2> HIDE DEF ReadTo
  <2> QED BY <2>6, <2>7
<1>3. T = 0 .. L
  <2>1. T \in SUBSET (0 .. L)
    OBVIOUS
  <2> HIDE DEF T
  <2> QED BY <1>0, <1>1, <1>2, <2>1, SetInduction
<1>4. PICK g : ReadTo(g, text, L)
  <2>1. L \in T
    <3> HIDE DEF T
    <3> QED BY <1>0, <1>3
  <2> HIDE DEF ReadTo
  <2> QED BY <2>1
<1> DEFINE f == [i \in 0 .. L |-> g[i]]
           n == CHOOSE s : s = [i \in 0 .. L |-> Next1(s, i)]
<1>5. f = [i \in 0 .. L |-> Next1(f, i)]
  <2>1. \A i \in 0 .. L : f[i] = g[i]
    OBVIOUS
  <2>2. f = [i \in 0 .. L |-> f[i]]
    OBVIOUS
  <2> HIDE DEF f
  <2>3. \A i \in 0 .. L : Next1(f, i) = Next1(g, i)
    <3> SUFFICES ASSUME NEW i \in 0 .. L
                 PROVE  Next1(f, i) = Next1(g, i)
      OBVIOUS
    <3>1. i # 0 => i - 1 \in 0 .. L
      BY <1>0
    <3>2. i # 0 => f[i - 1] = g[i - 1]
      BY <3>1, <2>1
    <3> QED BY <3>2, Zenon DEF Read
  <2> HIDE DEF Next1
  <2>4. \A i \in 0 .. L : f[i] = Next1(f, i)
    <3>1. \A i \in 0 .. L : g[i] = Next1(g, i)
      BY <1>4 DEF ReadTo, Next1
    <3> QED BY <3>1, <2>1, <2>3
  <2> QED BY <2>2, <2>4
<1>6. n = [i \in 0 .. L |-> Next1(n, i)]
  <2> HIDE DEF f, Next1
  <2> QED BY <1>5
<1>7. Numbers(text) = n[L]
  BY DEF Numbers, Read, Value, L
<1> HIDE DEF n
<1>8. ReadTo(n, text, L)
  <2> HIDE DEF Next1
  <2>1. \A i \in 0 .. L : n[i] = Next1(n, i)
    BY <1>6
  <2> USE DEF Next1
  <2> QED BY <2>1 DEF ReadTo
<1> QED BY <1>7, <1>8 DEF L

(* The lists of numbers agree where the texts do.                          *)
LEMMA ReadAlike ==
    ASSUME NEW L \in Nat, NEW s, NEW t, NEW n, NEW m,
           \A i \in 1 .. L : s[i] = t[i],
           ReadTo(n, s, L), ReadTo(m, t, L)
    PROVE  n[L] = m[L]
<1> DEFINE T == {k \in 0 .. L : n[k] = m[k]}
<1>1. 0 \in T
  <2>1. 0 \in 0 .. L /\ n[0] = Read(n, s, 0) /\ m[0] = Read(m, t, 0)
    BY DEF ReadTo
  <2> QED BY <2>1 DEF Read
<1>2. ASSUME NEW k \in 1 .. L, k - 1 \in T
      PROVE  k \in T
  <2>1. k \in 0 .. L /\ k # 0 /\ n[k - 1] = m[k - 1] /\ s[k] = t[k]
    BY <1>2
  <2>2. k = 1 \/ s[k - 1] = t[k - 1]
    OBVIOUS
  <2>3. n[k] = Read(n, s, k) /\ m[k] = Read(m, t, k)
    BY <2>1 DEF ReadTo
  <2>4. Read(n, s, k) = Read(m, t, k)
    BY <2>1, <2>2, Zenon DEF Read
  <2> QED BY <2>1, <2>3, <2>4
<1>3. T = 0 .. L
  <2>1. T \in SUBSET (0 .. L)
    OBVIOUS
  <2> HIDE DEF T
  <2> QED BY <1>1, <1>2, <2>1, SetInduction
<1>4. L \in 0 .. L
  OBVIOUS
<1> QED BY <1>3, <1>4

(* The digits stand for their numbers.                                     *)
LEMMA Figures ==
    ASSUME NEW d \in 0 .. 9
    PROVE  /\ Small[d + 1] \in Digit /\ Large[d + 1] = Small[d + 1]
           /\ Value(Small[d + 1]) = d
<1>1. \A e \in 0 .. 9 : Small[e + 1] = Small[d + 1] => e = d
  BY DEF Small
<1>2. Small[d + 1] \in Digit
  BY DEF Digit
<1>3. Large[d + 1] = Small[d + 1]
  BY DEF Large, Small
<1>4. Value(Small[d + 1]) = d
  <2> HIDE DEF Small
  <2> QED BY <1>1 DEF Value
<1> QED BY <1>2, <1>3, <1>4

(* A digit is the digit of a number.                                       *)
LEMMA ValueType == \A c \in Digit : Value(c) \in Nat
<1> SUFFICES ASSUME NEW c \in Digit
             PROVE  Value(c) \in Nat
  OBVIOUS
<1>1. PICK i \in 1 .. 10 : c = Small[i]
  BY DEF Digit
<1>2. i - 1 \in 0 .. 9 /\ Small[(i - 1) + 1] = c
  BY <1>1
<1>3. Value(c) = i - 1
  BY <1>2, Figures
<1> QED BY <1>2, <1>3

(* "~" is not a digit.                                                     *)
LEMMA NoDigit == "~" \notin Digit
  BY DEF Digit, Small

(* A digit behind the text would begin a number.                           *)
Fresh(t) == t = <<>> \/ t[Len(t)] \notin Digit

(* The numbers of a text are those of its beginning, with one more or a    *)
(* longer one behind when it ends with a digit.                            *)
LEMMA OneMoreRead ==
    ASSUME NEW t \in Seq(Chars), NEW c \in Chars
    PROVE  LET ns == Numbers(t)
           IN  Numbers(Append(t, c)) =
                 IF c \notin Digit THEN ns
                 ELSE IF Fresh(t) THEN Append(ns, Value(c))
                 ELSE [ns EXCEPT ![Len(ns)] = 10 * @ + Value(c)]
<1> DEFINE L == Len(t)
           u == Append(t, c)
<1>1. /\ L \in Nat /\ u \in Seq(Chars) /\ Len(u) = L + 1 /\ u[L + 1] = c
      /\ \A i \in 1 .. L : t[i] = u[i]
  OBVIOUS
<1>2. t = <<>> <=> L = 0
  BY EmptySeq
<1> HIDE DEF u
<1>3. PICK n : ReadTo(n, t, L) /\ Numbers(t) = n[L]
  BY <1>1, NumbersExist
<1>4. PICK m : ReadTo(m, u, L + 1) /\ Numbers(u) = m[L + 1]
  <2>1. L + 1 \in Nat
    BY <1>1
  <2> HIDE DEF L
  <2> QED BY <2>1, <1>1, NumbersExist
<1> HIDE DEF L
<1>5. ReadTo(m, u, L)
  <2>1. \A i \in 0 .. L : i \in 0 .. L + 1
    BY <1>1
  <2> QED BY <2>1, <1>4 DEF ReadTo
<1>6. n[L] = m[L]
  BY <1>1, <1>3, <1>5, ReadAlike
<1>7. m[L + 1] = Read(m, u, L + 1)
  <2>1. L + 1 \in 0 .. L + 1
    BY <1>1
  <2> QED BY <2>1, <1>4 DEF ReadTo
<1>8. L + 1 # 0 /\ (L + 1) - 1 = L /\ (L + 1 = 1 <=> L = 0)
  BY <1>1
<1>9. L # 0 => u[L] = t[L]
  BY <1>1
<1>10. Fresh(t) <=> L + 1 = 1 \/ u[(L + 1) - 1] \notin Digit
  BY <1>2, <1>8, <1>9 DEF Fresh, L
<1>11. Read(m, u, L + 1) =
         IF c \notin Digit THEN m[L]
         ELSE IF Fresh(t) THEN Append(m[L], Value(c))
         ELSE [m[L] EXCEPT ![Len(m[L])] = 10 * @ + Value(c)]
  BY <1>1, <1>8, <1>10, Zenon DEF Read
<1> QED BY <1>3, <1>4, <1>6, <1>7, <1>11 DEF u

(* A larger last number.                                                   *)
LEMMA LastGrown ==
    ASSUME NEW s \in Seq(Nat), NEW d \in Nat
    PROVE  [s EXCEPT ![Len(s)] = 10 * @ + d] \in Seq(Nat)
<1> DEFINE L == Len(s)
           r == [i \in 1 .. L |-> IF i = L THEN 10 * s[L] + d ELSE s[i]]
<1>1. L \in Nat /\ DOMAIN s = 1 .. L /\ \A i \in 1 .. L : s[i] \in Nat
  OBVIOUS
<1>2. [s EXCEPT ![Len(s)] = 10 * @ + d] = r
  BY <1>1
<1> HIDE DEF L
<1>3. r \in [1 .. L -> Nat]
  BY <1>1
<1> HIDE DEF r
<1>4. r \in Seq(Nat)
  BY <1>1, <1>3, SeqDef
<1> QED BY <1>2, <1>4

(* What is read is a list of numbers.                                      *)
LEMMA NumbersType ==
    ASSUME NEW t \in Seq(Chars)
    PROVE  Numbers(t) \in Seq(Nat)
<1> DEFINE L == Len(t)
<1>1. L \in Nat
  OBVIOUS
<1>2. PICK n : ReadTo(n, t, L) /\ Numbers(t) = n[L]
  BY <1>1, NumbersExist
<1> HIDE DEF L
<1> DEFINE T == {k \in 0 .. L : n[k] \in Seq(Nat)}
<1>3. 0 \in T
  <2>1. 0 \in 0 .. L /\ n[0] = Read(n, t, 0)
    BY <1>1, <1>2 DEF ReadTo
  <2>2. n[0] = <<>>
    BY <2>1 DEF Read
  <2>3. <<>> \in Seq(Nat)
    BY EmptySeq
  <2> QED BY <2>1, <2>2, <2>3
<1>4. ASSUME NEW k \in 1 .. L, k - 1 \in T
      PROVE  k \in T
  <2>1. k \in 0 .. L /\ k # 0 /\ n[k - 1] \in Seq(Nat)
    BY <1>4
  <2>2. n[k] = Read(n, t, k)
    BY <2>1, <1>2 DEF ReadTo
  <2>3. t[k] \in Digit => Value(t[k]) \in Nat
    BY ValueType
  <2> DEFINE s == n[k - 1]
             v == Value(t[k])
  <2>4. t[k] \in Digit => /\ Append(s, v) \in Seq(Nat)
                          /\ [s EXCEPT ![Len(s)] = 10 * @ + v] \in Seq(Nat)
    <3> HIDE DEF s, v
    <3>1. s \in Seq(Nat) /\ (t[k] \in Digit => v \in Nat)
      BY <2>1, <2>3 DEF s, v
    <3>2. v \in Nat => Append(s, v) \in Seq(Nat)
      BY <3>1
    <3> QED BY <3>1, <3>2, LastGrown
  <2>5. Read(n, t, k) \in Seq(Nat)
    <3>1. \/ Read(n, t, k) = s
          \/ /\ t[k] \in Digit
             /\ \/ Read(n, t, k) = Append(s, v)
                \/ Read(n, t, k) = [s EXCEPT ![Len(s)] = 10 * @ + v]
      BY <2>1, Zenon DEF Read
    <3> HIDE DEF v
    <3> QED BY <3>1, <2>1, <2>4, Zenon
  <2> HIDE DEF s, v
  <2> QED BY <2>1, <2>2, <2>5
<1>5. T = 0 .. L
  <2>1. T \in SUBSET (0 .. L)
    OBVIOUS
  <2> HIDE DEF T
  <2> QED BY <1>1, <1>3, <1>4, <2>1, SetInduction
<1>6. L \in 0 .. L
  BY <1>1
<1> QED BY <1>2, <1>5, <1>6

(* A character behind two texts in a row is one behind the second.         *)
LEMMA OneBehind ==
    \A s, t \in Seq(Chars), c \in Chars :
        Append(t \o s, c) = t \o Append(s, c)
  BY LastOne

(* Digits that are read as the number v.                                   *)
ReadsAs(ds, v) ==
    /\ ds \in Seq(Chars) /\ v \in Nat
    /\ \A t \in Seq(Chars) : Fresh(t) =>
          /\ Numbers(t \o ds) = Append(Numbers(t), v)
          /\ ~Fresh(t \o ds)

(* Behind a digit a digit belongs to the same number.                      *)
LEMMA NotFresh ==
    ASSUME NEW t \in Seq(Chars), NEW c \in Chars
    PROVE  Fresh(Append(t, c)) <=> c \notin Digit
<1> DEFINE u == Append(t, c)
<1>1. u # <<>> /\ u[Len(u)] = c
  <2>1. Len(u) = Len(t) + 1 /\ u[Len(t) + 1] = c /\ u # <<>>
    BY AppendProperties
  <2> HIDE DEF u
  <2> QED BY <2>1
<1> QED BY <1>1 DEF Fresh

(* One digit.                                                              *)
LEMMA ReadsDigit ==
    ASSUME NEW d \in 0 .. 9
    PROVE  ReadsAs(<<Small[d + 1]>>, d)
<1> DEFINE c == Small[d + 1]
<1>1. c \in Chars /\ c \in Digit /\ Value(c) = d
  BY Figures DEF Chars
<1> HIDE DEF c
<1>2. <<c>> \in Seq(Chars)
  BY <1>1
<1>3. ASSUME NEW t \in Seq(Chars), Fresh(t)
      PROVE  /\ Numbers(t \o <<c>>) = Append(Numbers(t), d)
             /\ ~Fresh(t \o <<c>>)
  <2>1. t \o <<c>> = Append(t, c)
    BY <1>1, AppendIsConcat
  <2>2. Numbers(Append(t, c)) = Append(Numbers(t), d)
    BY <1>1, <1>3, OneMoreRead
  <2>3. ~Fresh(Append(t, c))
    BY <1>1, NotFresh
  <2> QED BY <2>1, <2>2, <2>3
<1>4. d \in Nat
  OBVIOUS
<1> QED BY <1>2, <1>3, <1>4 DEF ReadsAs, c

(* One digit more.                                                         *)
LEMMA ReadsMore ==
    ASSUME NEW ds, NEW v, ReadsAs(ds, v), NEW d \in 0 .. 9
    PROVE  ReadsAs(Append(ds, Small[d + 1]), 10 * v + d)
<1> DEFINE c == Small[d + 1]
           w == 10 * v + d
<1>1. c \in Chars /\ c \in Digit /\ Value(c) = d
  BY Figures DEF Chars
<1> HIDE DEF c
<1>2. ds \in Seq(Chars) /\ v \in Nat /\ w \in Nat
  BY DEF ReadsAs
<1>3. Append(ds, c) \in Seq(Chars)
  BY <1>1, <1>2, AppendProperties
<1>4. ASSUME NEW t \in Seq(Chars), Fresh(t)
      PROVE  /\ Numbers(t \o Append(ds, c)) = Append(Numbers(t), w)
             /\ ~Fresh(t \o Append(ds, c))
  <2> DEFINE u == t \o ds
             ns == Numbers(t)
  <2>1. u \in Seq(Chars)
    BY <1>2, ConcatProperties
  <2>2. Append(u, c) = t \o Append(ds, c)
    <3>1. t \in Seq(Chars) /\ ds \in Seq(Chars) /\ c \in Chars
      BY <1>1, <1>2
    <3> QED BY <3>1, OneBehind
  <2>3. Numbers(u) = Append(ns, v) /\ ~Fresh(u)
    BY <1>4 DEF ReadsAs
  <2>4. ns \in Seq(Nat)
    BY NumbersType
  <2> HIDE DEF u, ns
  <2>5. Numbers(Append(u, c)) =
          [Append(ns, v) EXCEPT ![Len(Append(ns, v))] = 10 * @ + d]
    <3>1. LET ms == Numbers(u)
          IN  Numbers(Append(u, c)) =
                [ms EXCEPT ![Len(ms)] = 10 * @ + Value(c)]
      BY <1>1, <2>1, <2>3, OneMoreRead
    <3> QED BY <3>1, <2>3, <1>1
  <2>6. [Append(ns, v) EXCEPT ![Len(Append(ns, v))] = 10 * @ + d]
          = Append(ns, w)
    <3> DEFINE a == Append(ns, v)
               b == Append(ns, w)
               L == Len(ns)
    <3>1. /\ a \in Seq(Nat) /\ Len(a) = L + 1 /\ a[L + 1] = v
          /\ \A i \in 1 .. L : a[i] = ns[i]
      BY <1>2, <2>4, AppendProperties
    <3> HIDE DEF w
    <3>2. /\ b \in Seq(Nat) /\ Len(b) = L + 1 /\ b[L + 1] = w
          /\ \A i \in 1 .. L : b[i] = ns[i]
      BY <1>2, <2>4, AppendProperties
    <3> DEFINE e == [a EXCEPT ![L + 1] = 10 * @ + d]
    <3>3. L \in Nat
      BY <2>4
    <3> HIDE DEF a, b, L
    <3>4. DOMAIN a = 1 .. L + 1 /\ DOMAIN b = 1 .. L + 1
      BY <3>1, <3>2, <3>3, LenProperties
    <3>5. e = [i \in 1 .. L + 1 |-> IF i = L + 1 THEN 10 * v + d ELSE a[i]]
      BY <3>1, <3>3, <3>4
    <3>6. b = [i \in 1 .. L + 1 |-> b[i]]
      BY <3>2, <3>4, LenProperties
    <3>7. \A i \in 1 .. L + 1 :
             b[i] = IF i = L + 1 THEN 10 * v + d ELSE a[i]
      <4>1. \A i \in 1 .. L + 1 : i = L + 1 \/ i \in 1 .. L
        BY <3>3
      <4> QED BY <4>1, <3>1, <3>2 DEF w
    <3>8. e = b
      <4> HIDE DEF e
      <4> QED BY <3>5, <3>6, <3>7
    <3> QED BY <3>1, <3>8 DEF a, b
  <2>7. ~Fresh(Append(u, c))
    BY <1>1, <2>1, NotFresh
  <2> QED BY <2>2, <2>5, <2>6, <2>7 DEF ns
<1> QED BY <1>2, <1>3, <1>4 DEF ReadsAs, c

-----------------------------------------------------------------------------
(* The texts of the fields. *)

(* A number of one digit.                                                  *)
LEMMA HexOne ==
    ASSUME NEW r \in 0 .. 9
    PROVE  ReadsAs(Digits(r, 16, Small), r)
<1>1. r \in Nat /\ r < 16 /\ 16 \in {10, 16}
  OBVIOUS
<1>2. Digits(r, 16, Small) = <<Small[r + 1]>>
  BY <1>1, DigitsOf
<1> QED BY <1>2, ReadsDigit

(* A digit more of the numbers that read the same in both bases.           *)
LEMMA HexMore ==
    ASSUME NEW n \in Nat, n # 0, NEW v, ReadsAs(Digits(n, 16, Small), v),
           NEW r \in 0 .. 9
    PROVE  ReadsAs(Digits(16 * n + r, 16, Small), 10 * v + r)
<1> DEFINE m == 16 * n + r
<1>1. /\ m \in Nat /\ ~(m < 16) /\ 16 \in {10, 16}
      /\ m \div 16 = n /\ m % 16 = r
  OBVIOUS
<1> HIDE DEF m
<1>2. Digits(m, 16, Small) = Append(Digits(n, 16, Small), Small[r + 1])
  BY <1>1, DigitsOf
<1>3. ReadsAs(Append(Digits(n, 16, Small), Small[r + 1]), 10 * v + r)
  BY ReadsMore
<1> QED BY <1>2, <1>3 DEF m

(* The same with decimal digits.                                           *)
LEMMA DecimalOne ==
    ASSUME NEW r \in 0 .. 9
    PROVE  ReadsAs(Digits(r, 10, Large), r)
<1>1. r \in Nat /\ r < 10 /\ 10 \in {10, 16}
  OBVIOUS
<1>2. Digits(r, 10, Large) = <<Small[r + 1]>>
  BY <1>1, DigitsOf, Figures
<1> QED BY <1>2, ReadsDigit

(* One more decimal digit reads as ten times the number and the digit.     *)
LEMMA DecimalMore ==
    ASSUME NEW n \in Nat, n # 0, ReadsAs(Digits(n, 10, Large), n),
           NEW r \in 0 .. 9
    PROVE  ReadsAs(Digits(10 * n + r, 10, Large), 10 * n + r)
<1> DEFINE m == 10 * n + r
<1>1. /\ m \in Nat /\ ~(m < 10) /\ 10 \in {10, 16}
      /\ m \div 10 = n /\ m % 10 = r
  OBVIOUS
<1> HIDE DEF m
<1>2. Digits(m, 10, Large) = Append(Digits(n, 10, Large), Small[r + 1])
  BY <1>1, DigitsOf, Figures
<1>3. ReadsAs(Append(Digits(n, 10, Large), Small[r + 1]), 10 * n + r)
  BY ReadsMore
<1> QED BY <1>2, <1>3 DEF m

(* The two digits of a number up to 99.                                    *)
LEMMA Tens ==
    ASSUME NEW k \in 0 .. 99
    PROVE  /\ k \div 10 \in 0 .. 9 /\ k % 10 \in 0 .. 9
           /\ k = 10 * (k \div 10) + (k % 10)
           /\ Bcd(k) = 16 * (k \div 10) + (k % 10)
           /\ Bcd(k) \in 0 .. 153 /\ BCD2BIN(Bcd(k)) = k
           /\ Bcd(k) = 0 <=> k = 0
<1>1. /\ k \div 10 \in 0 .. 9 /\ k % 10 \in 0 .. 9
      /\ k = 10 * (k \div 10) + (k % 10)
  OBVIOUS
<1> DEFINE q == k \div 10
           r == k % 10
<1>2. Bcd(k) = 16 * q + r
  BY <1>1 DEF Bcd
<1> HIDE DEF q, r
<1>3. q \in 0 .. 9 /\ r \in 0 .. 9 /\ k = 10 * q + r
  BY <1>1 DEF q, r
<1>4. Bcd(k) \in 0 .. 153 /\ (Bcd(k) = 0 <=> k = 0)
  BY <1>2, <1>3
<1>5. Bcd(k) \div 16 = q /\ Bcd(k) % 16 = r
  BY <1>2, <1>3
<1>6. BCD2BIN(Bcd(k)) = k
  BY <1>3, <1>5 DEF BCD2BIN
<1> QED BY <1>1, <1>2, <1>4, <1>6 DEF q, r

(* %x of a register in BCD reads as the number it stands for.              *)
LEMMA BcdText ==
    ASSUME NEW k \in 0 .. 99
    PROVE  ReadsAs(Digits(Bcd(k), 16, Small), k)
<1> DEFINE q == k \div 10
           r == k % 10
<1>1. q \in 0 .. 9 /\ r \in 0 .. 9 /\ k = 10 * q + r /\ Bcd(k) = 16 * q + r
  BY Tens
<1> HIDE DEF q, r
<1>2. CASE q = 0
  <2>1. Bcd(k) = r /\ k = r
    BY <1>1, <1>2
  <2> QED BY <2>1, <1>1, HexOne
<1>3. CASE q # 0
  <2>1. q \in Nat /\ ReadsAs(Digits(q, 16, Small), q)
    BY <1>1, HexOne
  <2>2. ReadsAs(Digits(16 * q + r, 16, Small), 10 * q + r)
    BY <2>1, <1>1, <1>3, HexMore
  <2> QED BY <2>2, <1>1
<1> QED BY <1>2, <1>3

(* %x of century and year reads as the year.                               *)
LEMMA YearText ==
    ASSUME NEW c \in 0 .. 99, NEW y \in 0 .. 99
    PROVE  ReadsAs(Digits(Bcd(y) + Bcd(c) * 256, 16, Small), 100 * c + y)
<1> DEFINE q == y \div 10
           r == y % 10
           b == Bcd(c)
           n == 16 * b + q
<1>1. q \in 0 .. 9 /\ r \in 0 .. 9 /\ y = 10 * q + r /\ Bcd(y) = 16 * q + r
  BY Tens
<1>2. b \in Nat /\ (b = 0 <=> c = 0) /\ ReadsAs(Digits(b, 16, Small), c)
  <2>1. Bcd(c) \in 0 .. 153 /\ (Bcd(c) = 0 <=> c = 0)
    BY Tens
  <2>2. ReadsAs(Digits(Bcd(c), 16, Small), c)
    BY BcdText
  <2> QED BY <2>1, <2>2
<1> HIDE DEF q, r, b
<1>3. CASE c = 0
  <2>1. Bcd(y) + b * 256 = Bcd(y) /\ 100 * c + y = y
    BY <1>1, <1>2, <1>3
  <2>2. ReadsAs(Digits(Bcd(y), 16, Small), y)
    BY BcdText
  <2> QED BY <2>1, <2>2 DEF b
<1>4. CASE c # 0
  <2>1. n \in Nat /\ n # 0
    BY <1>1, <1>2, <1>4
  <2>2. ReadsAs(Digits(n, 16, Small), 10 * c + q)
    BY <1>1, <1>2, <1>4, HexMore
  <2>3. 16 * n + r = Bcd(y) + b * 256 /\ 10 * (10 * c + q) + r = 100 * c + y
    BY <1>1, <1>2
  <2> HIDE DEF n
  <2>4. ReadsAs(Digits(16 * n + r, 16, Small), 10 * (10 * c + q) + r)
    BY <2>1, <2>2, <1>1, HexMore
  <2> QED BY <2>3, <2>4 DEF b
<1> QED BY <1>3, <1>4

(* %d of a byte in BCD reads as the byte.                                  *)
LEMMA DayText ==
    ASSUME NEW n \in 0 .. 153
    PROVE  ReadsAs(Digits(n, 10, Large), n)
<1>1. ASSUME NEW m \in 0 .. 99
      PROVE  ReadsAs(Digits(m, 10, Large), m)
  <2> DEFINE q == m \div 10
             r == m % 10
  <2>1. q \in 0 .. 9 /\ r \in 0 .. 9 /\ m = 10 * q + r
    BY Tens
  <2> HIDE DEF q, r
  <2>2. CASE q = 0
    <3>1. m = r
      BY <2>1, <2>2
    <3> QED BY <3>1, <2>1, DecimalOne
  <2>3. CASE q # 0
    <3>1. q \in Nat /\ ReadsAs(Digits(q, 10, Large), q)
      BY <2>1, DecimalOne
    <3> QED BY <3>1, <2>1, <2>3, DecimalMore
  <2> QED BY <2>2, <2>3
<1> DEFINE q == n \div 10
           r == n % 10
<1>2. q \in 0 .. 15 /\ r \in 0 .. 9 /\ n = 10 * q + r
  OBVIOUS
<1> HIDE DEF q, r
<1>3. CASE q = 0
  <2>1. n \in 0 .. 99
    BY <1>2, <1>3
  <2> QED BY <2>1, <1>1
<1>4. CASE q # 0
  <2>1. q \in Nat /\ q \in 0 .. 99
    BY <1>2
  <2> QED BY <2>1, <1>1, <1>2, <1>4, DecimalMore
<1> QED BY <1>3, <1>4

(* %x without flags or width prints nothing but the digits.                *)
LEMMA HexPlain ==
    ASSUME NEW n \in Nat, Digits(n, 16, Small) \in Seq(Chars)
    PROVE  number(n, 16, -1, -1, {} \cup {"SMALL"}) = Digits(n, 16, Small)
<1> DEFINE flags == {} \cup {"SMALL"}
           tmp == Digits(n, 16, Small)
           L == Len(tmp)
<1>1. L \in Nat /\ tmp \in Seq(Chars)
  OBVIOUS
<1>2. /\ LEFT \notin flags /\ ZEROPAD \notin flags /\ SPECIAL \notin flags
      /\ "SIGN" \notin flags /\ PLUS \notin flags /\ SPACE \notin flags
      /\ "SMALL" \in flags /\ {ZEROPAD, LEFT} \cap flags = {}
  BY DEF LEFT, ZEROPAD, SPECIAL, PLUS, SPACE
<1> HIDE DEF flags
<1>3. Sign(n, flags) = <<>> /\ Prefix(16, flags) = <<>>
  BY <1>2 DEF Sign, Prefix
<1> HIDE DEF tmp, L
<1>4. /\ Larger(-1, L) = L /\ -1 - L \in Int /\ -1 - L <= 0
      /\ -1 - 0 - 0 - L = -1 - L
  BY <1>1 DEF Larger
<1>5. Len(<<>>) = 0
  BY EmptySeq
<1>6. Repeat("0", -1 - L) = <<>> /\ Repeat(" ", -1 - L) = <<>>
  BY <1>4, RepeatNone
<1>7. number(n, 16, -1, -1, flags) =
        <<>> \o <<>> \o <<>> \o <<>> \o <<>> \o tmp \o <<>>
  BY <1>2, <1>3, <1>4, <1>5, <1>6, Zenon DEF number, tmp, L
<1>8. <<>> \o <<>> = <<>> /\ <<>> \o tmp = tmp /\ tmp \o <<>> = tmp
  BY <1>1, EmptySeq, ConcatEmptySeq
<1> QED BY <1>7, <1>8, Zenon DEF flags, tmp

(* So does %d of a number that is not negative.                            *)
LEMMA DecimalPlain ==
    ASSUME NEW n \in Nat, Digits(n, 10, Large) \in Seq(Chars)
    PROVE  number(n, 10, -1, -1, {} \cup {"SIGN"}) = Digits(n, 10, Large)
<1> DEFINE flags == {} \cup {"SIGN"}
           tmp == Digits(n, 10, Large)
           L == Len(tmp)
<1>1. L \in Nat /\ tmp \in Seq(Chars)
  OBVIOUS
<1>2. /\ LEFT \notin flags /\ ZEROPAD \notin flags /\ SPECIAL \notin flags
      /\ "SIGN" \in flags /\ PLUS \notin flags /\ SPACE \notin flags
      /\ "SMALL" \notin flags /\ {ZEROPAD, LEFT} \cap flags = {}
  BY DEF LEFT, ZEROPAD, SPECIAL, PLUS, SPACE
<1> HIDE DEF flags
<1>9. ~(n < 0)
  OBVIOUS
<1>3. Sign(n, flags) = <<>> /\ Prefix(10, flags) = <<>>
  BY <1>2, <1>9, Zenon DEF Sign, Prefix
<1> HIDE DEF tmp, L
<1>4. /\ Larger(-1, L) = L /\ -1 - L \in Int /\ -1 - L <= 0
      /\ -1 - 0 - 0 - L = -1 - L
  BY <1>1 DEF Larger
<1>5. Len(<<>>) = 0
  BY EmptySeq
<1>6. Repeat("0", -1 - L) = <<>> /\ Repeat(" ", -1 - L) = <<>>
  BY <1>4, RepeatNone
<1>7. number(n, 10, -1, -1, flags) =
        <<>> \o <<>> \o <<>> \o <<>> \o <<>> \o tmp \o <<>>
  BY <1>2, <1>3, <1>4, <1>5, <1>6, <1>9, Zenon DEF number, tmp, L
<1>8. <<>> \o <<>> = <<>> /\ <<>> \o tmp = tmp /\ tmp \o <<>> = tmp
  BY <1>1, EmptySeq, ConcatEmptySeq
<1> QED BY <1>7, <1>8, Zenon DEF flags, tmp

-----------------------------------------------------------------------------
(* The format of the line. *)

(* The characters of the format.                                           *)
Marks == {"~", "%", "x", "d"}

(* A text that is repeated is as long as it should be.                     *)
LEMMA LettersAre ==
    ASSUME NEW n \in Nat
    PROVE  /\ Letters(n) \in Seq(Marks) /\ Len(Letters(n)) = n
           /\ \A i \in 1 .. n : Letters(n)[i] = "~"
  BY DEF Letters, Repeat, Marks

(* Two texts in a row.                                                     *)
LEMMA Concatenated ==
    \A s, t \in Seq(Marks) :
       /\ s \o t \in Seq(Marks) /\ Len(s \o t) = Len(s) + Len(t)
       /\ \A i \in 1 .. Len(s) + Len(t) :
             (s \o t)[i] = IF i <= Len(s) THEN s[i] ELSE t[i - Len(s)]
  BY ConcatProperties

(* There are letters from lo to hi.                                        *)
LettersAt(f, lo, hi) == \A i \in lo .. hi : f[i] = "~"

(* f begins with the n characters that s begins with.                      *)
Same(f, s, n) == \A i \in 1 .. n : f[i] = s[i]

(* t is s, of length L, with n letters and the directive c behind.         *)
Extension(t, s, L, n, c) ==
    /\ t \in Seq(Marks) /\ Len(t) = L + n + 2
    /\ Same(t, s, L) /\ LettersAt(t, L + 1, L + n)
    /\ t[L + n + 1] = "%" /\ t[L + n + 2] = c

(* Letters and a directive behind a format.                                *)
LEMMA Extended ==
    ASSUME NEW s \in Seq(Marks), NEW L \in Nat, Len(s) = L,
           NEW n \in Nat, NEW c \in Marks
    PROVE  Extension(s \o Letters(n) \o <<"%", c>>, s, L, n, c)
<1> DEFINE m == Letters(n)
           u == s \o m
           p == <<"%", c>>
           t == u \o p
<1>2. m \in Seq(Marks) /\ Len(m) = n /\ \A i \in 1 .. n : m[i] = "~"
  BY LettersAre
<1>3. p \in Seq(Marks) /\ Len(p) = 2 /\ p[1] = "%" /\ p[2] = c
  BY DEF Marks
<1> HIDE DEF m, p
<1>4. /\ u \in Seq(Marks) /\ Len(u) = L + n
      /\ \A i \in 1 .. L + n : u[i] = IF i <= L THEN s[i] ELSE m[i - L]
  BY <1>2, ConcatProperties
<1> HIDE DEF u
<1>5. /\ t \in Seq(Marks) /\ Len(t) = L + n + 2
      /\ \A i \in 1 .. L + n + 2 :
            t[i] = IF i <= L + n THEN u[i] ELSE p[i - (L + n)]
  <2>1. /\ t \in Seq(Marks) /\ Len(t) = Len(u) + Len(p)
        /\ \A i \in 1 .. Len(u) + Len(p) :
              t[i] = IF i <= Len(u) THEN u[i] ELSE p[i - Len(u)]
    <3>1. u \in Seq(Marks) /\ p \in Seq(Marks)
      BY <1>3, <1>4
    <3> QED BY <3>1, Concatenated, Zenon
  <2> HIDE DEF t
  <2> QED BY <2>1, <1>3, <1>4
<1> HIDE DEF t
<1>6. Same(t, s, L)
  <2> SUFFICES ASSUME NEW i \in 1 .. L
               PROVE  t[i] = s[i]
    BY DEF Same
  <2>1. i \in 1 .. L + n /\ i \in 1 .. L + n + 2 /\ i <= L /\ i <= L + n
    OBVIOUS
  <2> QED BY <2>1, <1>4, <1>5
<1>7. LettersAt(t, L + 1, L + n)
  <2> SUFFICES ASSUME NEW i \in L + 1 .. L + n
               PROVE  t[i] = "~"
    BY DEF LettersAt
  <2>1. /\ i \in 1 .. L + n /\ i \in 1 .. L + n + 2 /\ ~(i <= L) /\ i <= L + n
        /\ i - L \in 1 .. n
    OBVIOUS
  <2> QED BY <2>1, <1>2, <1>4, <1>5
<1>8. t[L + n + 1] = "%" /\ t[L + n + 2] = c
  <2>1. /\ L + n + 1 \in 1 .. L + n + 2 /\ L + n + 2 \in 1 .. L + n + 2
        /\ ~(L + n + 1 <= L + n) /\ ~(L + n + 2 <= L + n)
        /\ (L + n + 1) - (L + n) = 1 /\ (L + n + 2) - (L + n) = 2
    OBVIOUS
  <2> QED BY <2>1, <1>3, <1>5
<1> QED BY <1>5, <1>6, <1>7, <1>8 DEF Extension, t, u, m, p

(* A beginning of a beginning, and its letters.                            *)
LEMMA SameShorter ==
    ASSUME NEW f, NEW s, NEW r, NEW n \in Nat, NEW m \in Nat, m <= n,
           Same(f, s, n), Same(s, r, m)
    PROVE  Same(f, r, m)
  BY DEF Same

(* What a format that begins like another one has of it.                   *)
LEMMA SameAt ==
    ASSUME NEW f, NEW s, NEW n \in Nat, Same(f, s, n),
           NEW lo \in Nat, NEW hi \in Nat, 1 <= lo, hi + 2 = n,
           LettersAt(s, lo, hi)
    PROVE  LettersAt(f, lo, hi) /\ f[n - 1] = s[n - 1] /\ f[n] = s[n]
<1>1. \A i \in lo .. hi : i \in 1 .. n
  OBVIOUS
<1>2. n - 1 \in 1 .. n /\ n \in 1 .. n
  OBVIOUS
<1> QED BY <1>1, <1>2 DEF Same, LettersAt

(* The format of the line, by its places.                                  *)
LEMMA LineFacts ==
    /\ Len(line) = 53
    /\ LettersAt(line, 1, 5) /\ line[6] = "%" /\ line[7] = "x"
    /\ LettersAt(line, 8, 14) /\ line[15] = "%" /\ line[16] = "x"
    /\ LettersAt(line, 17, 21) /\ line[22] = "%" /\ line[23] = "d"
    /\ LettersAt(line, 24, 29) /\ line[30] = "%" /\ line[31] = "x"
    /\ LettersAt(line, 32, 39) /\ line[40] = "%" /\ line[41] = "x"
    /\ LettersAt(line, 42, 49) /\ line[50] = "%" /\ line[51] = "x"
    /\ LettersAt(line, 52, 53)
<1> DEFINE s1 == Letters(5) \o <<"%", "x">>
           s2 == s1 \o Letters(7) \o <<"%", "x">>
           s3 == s2 \o Letters(5) \o <<"%", "d">>
           s4 == s3 \o Letters(6) \o <<"%", "x">>
           s5 == s4 \o Letters(8) \o <<"%", "x">>
           s6 == s5 \o Letters(8) \o <<"%", "x">>
           f == s6 \o Letters(2)
<1>1. line = f
  BY DEF line
<1>2. "x" \in Marks /\ "d" \in Marks
  BY DEF Marks
<1>3. /\ s1 \in Seq(Marks) /\ Len(s1) = 7 /\ LettersAt(s1, 1, 5)
      /\ s1[6] = "%" /\ s1[7] = "x"
  <2> DEFINE e == << >>
  <2>1. e \in Seq(Marks) /\ Len(e) = 0
    BY EmptySeq
  <2>2. e \o Letters(5) = Letters(5)
    BY LettersAre, ConcatEmptySeq
  <2> HIDE DEF e
  <2>3. Extension(e \o Letters(5) \o <<"%", "x">>, e, 0, 5, "x")
    <3>1. 0 \in Nat /\ 5 \in Nat
      OBVIOUS
    <3> QED BY <3>1, <2>1, <1>2, Extended
  <2>4. Extension(s1, e, 0, 5, "x")
    BY <2>2, <2>3, Zenon
  <2> HIDE DEF s1
  <2> QED BY <2>4 DEF Extension
<1> HIDE DEF s1
<1>4. /\ s2 \in Seq(Marks) /\ Len(s2) = 16 /\ Same(s2, s1, 7)
      /\ LettersAt(s2, 8, 14) /\ s2[15] = "%" /\ s2[16] = "x"
  <2>1. s1 \in Seq(Marks) /\ Len(s1) = 7 /\ 7 \in Nat /\ 7 \in Nat
    BY <1>3
  <2>2. Extension(s2, s1, 7, 7, "x")
    BY <2>1, <1>2, Extended
  <2> HIDE DEF s2
  <2> QED BY <2>2 DEF Extension
<1> HIDE DEF s2
<1>5. /\ s3 \in Seq(Marks) /\ Len(s3) = 23 /\ Same(s3, s2, 16)
      /\ LettersAt(s3, 17, 21) /\ s3[22] = "%" /\ s3[23] = "d"
  <2>1. s2 \in Seq(Marks) /\ Len(s2) = 16 /\ 16 \in Nat /\ 5 \in Nat
    BY <1>4
  <2>2. Extension(s3, s2, 16, 5, "d")
    BY <2>1, <1>2, Extended
  <2> HIDE DEF s3
  <2> QED BY <2>2 DEF Extension
<1> HIDE DEF s3
<1>6. /\ s4 \in Seq(Marks) /\ Len(s4) = 31 /\ Same(s4, s3, 23)
      /\ LettersAt(s4, 24, 29) /\ s4[30] = "%" /\ s4[31] = "x"
  <2>1. s3 \in Seq(Marks) /\ Len(s3) = 23 /\ 23 \in Nat /\ 6 \in Nat
    BY <1>5
  <2>2. Extension(s4, s3, 23, 6, "x")
    BY <2>1, <1>2, Extended
  <2> HIDE DEF s4
  <2> QED BY <2>2 DEF Extension
<1> HIDE DEF s4
<1>7. /\ s5 \in Seq(Marks) /\ Len(s5) = 41 /\ Same(s5, s4, 31)
      /\ LettersAt(s5, 32, 39) /\ s5[40] = "%" /\ s5[41] = "x"
  <2>1. s4 \in Seq(Marks) /\ Len(s4) = 31 /\ 31 \in Nat /\ 8 \in Nat
    BY <1>6
  <2>2. Extension(s5, s4, 31, 8, "x")
    BY <2>1, <1>2, Extended
  <2> HIDE DEF s5
  <2> QED BY <2>2 DEF Extension
<1> HIDE DEF s5
<1>8. /\ s6 \in Seq(Marks) /\ Len(s6) = 51 /\ Same(s6, s5, 41)
      /\ LettersAt(s6, 42, 49) /\ s6[50] = "%" /\ s6[51] = "x"
  <2>1. s5 \in Seq(Marks) /\ Len(s5) = 41 /\ 41 \in Nat /\ 8 \in Nat
    BY <1>7
  <2>2. Extension(s6, s5, 41, 8, "x")
    BY <2>1, <1>2, Extended
  <2> HIDE DEF s6
  <2> QED BY <2>2 DEF Extension
<1> HIDE DEF s6
<1>9. Len(f) = 53 /\ LettersAt(f, 52, 53) /\ Same(f, s6, 51)
  <2> DEFINE m == Letters(2)
  <2>1. m \in Seq(Marks) /\ Len(m) = 2 /\ \A i \in 1 .. 2 : m[i] = "~"
    BY LettersAre
  <2> HIDE DEF m
  <2>2. s6 \in Seq(Marks) /\ Len(s6) = 51
    BY <1>8
  <2> DEFINE g == s6 \o m
  <2>3. /\ Len(g) = Len(s6) + Len(m)
        /\ \A i \in 1 .. Len(s6) + Len(m) :
              g[i] = IF i <= Len(s6) THEN s6[i] ELSE m[i - Len(s6)]
    <3>1. s6 \in Seq(Marks) /\ m \in Seq(Marks)
      BY <2>1, <2>2
    <3> QED BY <3>1, Concatenated, Zenon
  <2> HIDE DEF g
  <2>4. Len(g) = 53 /\ \A i \in 1 .. 53 :
                           g[i] = IF i <= 51 THEN s6[i] ELSE m[i - 51]
    BY <2>1, <2>2, <2>3
  <2>5. \A i \in 52 .. 53 : i \in 1 .. 53 /\ ~(i <= 51) /\ i - 51 \in 1 .. 2
    OBVIOUS
  <2>6. LettersAt(g, 52, 53)
    <3> SUFFICES ASSUME NEW i \in 52 .. 53 PROVE g[i] = "~"
      BY DEF LettersAt
    <3>1. i \in 1 .. 53 /\ ~(i <= 51) /\ i - 51 \in 1 .. 2
      BY <2>5, Zenon
    <3>2. g[i] = m[i - 51]
      BY <2>4, <3>1, Zenon
    <3> QED BY <2>1, <3>1, <3>2, Zenon
  <2>7. Same(g, s6, 51)
    BY <2>4 DEF Same
  <2> QED BY <2>4, <2>6, <2>7 DEF g, m
<1> HIDE DEF f
<1>10. Same(f, s5, 41)
  <2>1. Same(f, s6, 51) /\ Same(s6, s5, 41)
    BY <1>9, <1>8
  <2>2. 51 \in Nat /\ 41 \in Nat /\ 41 <= 51
    OBVIOUS
  <2> QED BY <2>1, <2>2, SameShorter
<1>11. Same(f, s4, 31)
  <2>1. Same(f, s5, 41) /\ Same(s5, s4, 31)
    BY <1>10, <1>7
  <2>2. 41 \in Nat /\ 31 \in Nat /\ 31 <= 41
    OBVIOUS
  <2> QED BY <2>1, <2>2, SameShorter
<1>12. Same(f, s3, 23)
  <2>1. Same(f, s4, 31) /\ Same(s4, s3, 23)
    BY <1>11, <1>6
  <2>2. 31 \in Nat /\ 23 \in Nat /\ 23 <= 31
    OBVIOUS
  <2> QED BY <2>1, <2>2, SameShorter
<1>13. Same(f, s2, 16)
  <2>1. Same(f, s3, 23) /\ Same(s3, s2, 16)
    BY <1>12, <1>5
  <2>2. 23 \in Nat /\ 16 \in Nat /\ 16 <= 23
    OBVIOUS
  <2> QED BY <2>1, <2>2, SameShorter
<1>14. Same(f, s1, 7)
  <2>1. Same(f, s2, 16) /\ Same(s2, s1, 7)
    BY <1>13, <1>4
  <2>2. 16 \in Nat /\ 7 \in Nat /\ 7 <= 16
    OBVIOUS
  <2> QED BY <2>1, <2>2, SameShorter
<1>15. LettersAt(f, 1, 5) /\ f[6] = "%" /\ f[7] = "x"
  <2>1. Same(f, s1, 7) /\ LettersAt(s1, 1, 5)
    BY <1>14, <1>3
  <2>2. /\ 7 \in Nat /\ 1 \in Nat /\ 5 \in Nat /\ 1 <= 1 /\ 5 + 2 = 7
        /\ 7 - 1 = 6
    OBVIOUS
  <2>3. /\ LettersAt(f, 1, 5) /\ f[7 - 1] = s1[7 - 1]
        /\ f[7] = s1[7]
    BY <2>1, <2>2, SameAt
  <2> QED BY <2>2, <2>3, <1>3
<1>16. LettersAt(f, 8, 14) /\ f[15] = "%" /\ f[16] = "x"
  <2>1. Same(f, s2, 16) /\ LettersAt(s2, 8, 14)
    BY <1>13, <1>4
  <2>2. /\ 16 \in Nat /\ 8 \in Nat /\ 14 \in Nat /\ 1 <= 8 /\ 14 + 2 = 16
        /\ 16 - 1 = 15
    OBVIOUS
  <2>3. /\ LettersAt(f, 8, 14) /\ f[16 - 1] = s2[16 - 1]
        /\ f[16] = s2[16]
    BY <2>1, <2>2, SameAt
  <2> QED BY <2>2, <2>3, <1>4
<1>17. LettersAt(f, 17, 21) /\ f[22] = "%" /\ f[23] = "d"
  <2>1. Same(f, s3, 23) /\ LettersAt(s3, 17, 21)
    BY <1>12, <1>5
  <2>2. /\ 23 \in Nat /\ 17 \in Nat /\ 21 \in Nat /\ 1 <= 17 /\ 21 + 2 = 23
        /\ 23 - 1 = 22
    OBVIOUS
  <2>3. /\ LettersAt(f, 17, 21) /\ f[23 - 1] = s3[23 - 1]
        /\ f[23] = s3[23]
    BY <2>1, <2>2, SameAt
  <2> QED BY <2>2, <2>3, <1>5
<1>18. LettersAt(f, 24, 29) /\ f[30] = "%" /\ f[31] = "x"
  <2>1. Same(f, s4, 31) /\ LettersAt(s4, 24, 29)
    BY <1>11, <1>6
  <2>2. /\ 31 \in Nat /\ 24 \in Nat /\ 29 \in Nat /\ 1 <= 24 /\ 29 + 2 = 31
        /\ 31 - 1 = 30
    OBVIOUS
  <2>3. /\ LettersAt(f, 24, 29) /\ f[31 - 1] = s4[31 - 1]
        /\ f[31] = s4[31]
    BY <2>1, <2>2, SameAt
  <2> QED BY <2>2, <2>3, <1>6
<1>19. LettersAt(f, 32, 39) /\ f[40] = "%" /\ f[41] = "x"
  <2>1. Same(f, s5, 41) /\ LettersAt(s5, 32, 39)
    BY <1>10, <1>7
  <2>2. /\ 41 \in Nat /\ 32 \in Nat /\ 39 \in Nat /\ 1 <= 32 /\ 39 + 2 = 41
        /\ 41 - 1 = 40
    OBVIOUS
  <2>3. /\ LettersAt(f, 32, 39) /\ f[41 - 1] = s5[41 - 1]
        /\ f[41] = s5[41]
    BY <2>1, <2>2, SameAt
  <2> QED BY <2>2, <2>3, <1>7
<1>20. LettersAt(f, 42, 49) /\ f[50] = "%" /\ f[51] = "x"
  <2>1. Same(f, s6, 51) /\ LettersAt(s6, 42, 49)
    BY <1>9, <1>8
  <2>2. /\ 51 \in Nat /\ 42 \in Nat /\ 49 \in Nat /\ 1 <= 42 /\ 49 + 2 = 51
        /\ 51 - 1 = 50
    OBVIOUS
  <2>3. /\ LettersAt(f, 42, 49) /\ f[51 - 1] = s6[51 - 1]
        /\ f[51] = s6[51]
    BY <2>1, <2>2, SameAt
  <2> QED BY <2>2, <2>3, <1>8
<1> QED BY <1>1, <1>9, <1>15, <1>16, <1>17, <1>18, <1>19, <1>20, Zenon

(* A directive without flags, width or precision.                          *)
LEMMA PlainDirective ==
    ASSUME NEW f, NEW n \in Nat, Len(f) = n, NEW i \in 1 .. n - 1,
           f[i + 1] \in {"x", "d"}
    PROVE  Directive(f, i + 1) =
             [flags |-> {}, field_width |-> -1, precision |-> -1,
              long |-> FALSE, at |-> i + 1]
<1> DEFINE j == i + 1
<1>1. j \in 1 .. n /\ j \in Nat /\ j \in j .. n + 1 /\ j .. j - 1 = {}
  OBVIOUS
<1> HIDE DEF j
<1>2. f[j] \notin FlagChars /\ f[j] \notin Digit
      /\ f[j] \notin {"h", "l", "L", "Z"} /\ f[j] # "."
  <2>1. "x" \notin Digit /\ "d" \notin Digit
    BY SMTT(30) DEF Digit, Small
  <2>2. f[j] = "x" \/ f[j] = "d"
    BY DEF j
  <2>3. "x" \notin FlagChars /\ "d" \notin FlagChars
    BY DEF FlagChars, LEFT, PLUS, SPACE, SPECIAL, ZEROPAD
  <2>4. CASE f[j] = "x"
    BY <2>1, <2>3, <2>4
  <2>5. CASE f[j] = "d"
    BY <2>1, <2>3, <2>5
  <2> QED BY <2>2, <2>4, <2>5
<1>3. After(f, j, FlagChars) = j
  BY <1>1, <1>2, AfterIs
<1>4. After(f, j, Digit) = j
  BY <1>1, <1>2, AfterIs
<1>5. CharAt(f, j) = f[j]
  BY <1>1 DEF CharAt
<1>6. {f[k] : k \in j .. j - 1} = {}
  BY <1>1
<1>7. CharAt(f, j) # "." /\ CharAt(f, j) \notin {"h", "l", "L", "Z"}
      /\ CharAt(f, j) # "l"
  BY <1>2, <1>5
<1>8. Directive(f, j) = [flags |-> {}, field_width |-> -1, precision |-> -1,
                         long |-> CharAt(f, j) = "l", at |-> j]
  BY <1>3, <1>4, <1>6, <1>7, Zenon DEF Directive
<1>9. (CharAt(f, j) = "l") = FALSE
  BY <1>7
<1> QED BY <1>8, <1>9 DEF j

(* The places of the directives.                                           *)
Places == {6, 15, 22, 30, 40, 50}

(* What follows a % in the line.                                           *)
LEMMA LinePlaces ==
    /\ Complete(line)
    /\ \A i \in 1 .. 53 : line[i] = "%" => i \in Places
    /\ \A i \in Places :
          /\ line[i] = "%" /\ line[i + 1] \in {"x", "d"}
          /\ line[i + 1] = "d" <=> i = 22
          /\ CharAt(line, i + 1) = line[i + 1]
          /\ Directive(line, i + 1) =
               [flags |-> {}, field_width |-> -1, precision |-> -1,
                long |-> FALSE, at |-> i + 1]
<1>1. \A i \in Places : /\ line[i] = "%" /\ line[i + 1] \in {"x", "d"}
                        /\ line[i + 1] = "d" <=> i = 22
  BY LineFacts DEF Places
<1>2. \A i \in 1 .. 53 : line[i] = "%" => i \in Places
  <2> SUFFICES ASSUME NEW i \in 1 .. 53, i \notin Places
               PROVE  line[i] # "%"
    OBVIOUS
  <2>1. \/ i \in 1 .. 5 \/ i = 7 \/ i \in 8 .. 14 \/ i = 16 \/ i \in 17 .. 21
        \/ i = 23 \/ i \in 24 .. 29 \/ i = 31 \/ i \in 32 .. 39 \/ i = 41
        \/ i \in 42 .. 49 \/ i = 51 \/ i \in 52 .. 53
    BY DEF Places
  <2>2. ASSUME i \in {7, 16, 23, 31, 41, 51}
        PROVE  line[i] # "%"
    BY <2>2, LineFacts
  <2>3. ASSUME \/ i \in 1 .. 5 \/ i \in 8 .. 14 \/ i \in 17 .. 21
               \/ i \in 24 .. 29 \/ i \in 32 .. 39 \/ i \in 42 .. 49
               \/ i \in 52 .. 53
        PROVE  line[i] # "%"
    <3>1. /\ LettersAt(line, 1, 5) /\ LettersAt(line, 8, 14)
          /\ LettersAt(line, 17, 21) /\ LettersAt(line, 24, 29)
          /\ LettersAt(line, 32, 39) /\ LettersAt(line, 42, 49)
          /\ LettersAt(line, 52, 53)
      BY LineFacts
    <3>2. line[i] = "~"
      BY <2>3, <3>1 DEF LettersAt
    <3> QED BY <3>2
  <2> QED BY <2>1, <2>2, <2>3
<1>3. 53 \in Nat /\ Len(line) = 53 /\ \A i \in Places : i \in 1 .. 53 - 1
  BY LineFacts DEF Places
<1>4. ASSUME NEW i \in Places
      PROVE  /\ CharAt(line, i + 1) = line[i + 1]
             /\ Directive(line, i + 1) =
                  [flags |-> {}, field_width |-> -1, precision |-> -1,
                   long |-> FALSE, at |-> i + 1]
  <2>1. i \in 1 .. 53 - 1 /\ line[i + 1] \in {"x", "d"} /\ Len(line) = 53
    BY <1>1, <1>3
  <2>2. i + 1 <= Len(line)
    BY <2>1
  <2>3. CharAt(line, i + 1) = line[i + 1]
    BY <2>2 DEF CharAt
  <2>4. Directive(line, i + 1) =
          [flags |-> {}, field_width |-> -1, precision |-> -1,
           long |-> FALSE, at |-> i + 1]
    BY <1>3, <2>1, PlainDirective
  <2> QED BY <2>3, <2>4
<1>5. Complete(line)
  <2> SUFFICES ASSUME NEW i \in 1 .. Len(line), line[i] = "%"
               PROVE  Directive(line, i + 1).at \in i + 1 .. Len(line)
    BY <1>3 DEF Complete
  <2>1. i \in Places
    BY <1>2, <1>3
  <2>2. Directive(line, i + 1).at = i + 1
    <3>1. Directive(line, i + 1) =
            [flags |-> {}, field_width |-> -1, precision |-> -1,
             long |-> FALSE, at |-> i + 1]
      BY <2>1, <1>4
    <3> QED BY <3>1
  <2>3. i \in 1 .. 53 - 1 /\ Len(line) = 53
    BY <2>1, <1>3
  <2> QED BY <2>2, <2>3
<1> QED BY <1>1, <1>2, <1>4, <1>5

(* A number of 16 bits is an unsigned int.                                 *)
LEMMA SmallArgument ==
    ASSUME NEW n \in Nat, n < 65536
    PROVE  n % UINT = n
  BY UintAssumption

-----------------------------------------------------------------------------
(* The line. *)

(* Behind any text, and behind a text a number may follow, s adds the      *)
(* numbers ns.                                                             *)
Adds(s, ns) ==
    /\ s \in Seq(Chars) /\ ns \in Seq(Nat)
    /\ \A t \in Seq(Chars) : Numbers(t \o s) = Numbers(t) \o ns

AddsFresh(s, ns) ==
    /\ s \in Seq(Chars) /\ ns \in Seq(Nat)
    /\ \A t \in Seq(Chars) : Fresh(t) => Numbers(t \o s) = Numbers(t) \o ns

(* Texts in a row.                                                         *)
LEMMA InRow ==
    \A s, t, u \in Seq(Chars) :
       s \o t \in Seq(Chars) /\ (s \o t) \o u = s \o (t \o u)
<1> SUFFICES ASSUME NEW s \in Seq(Chars), NEW t \in Seq(Chars), NEW u \in Seq(Chars)
             PROVE  s \o t \in Seq(Chars) /\ (s \o t) \o u = s \o (t \o u)
  OBVIOUS
<1>1. s \o t \in Seq(Chars)
  BY ConcatProperties, SMTT(30)
<1>2. (s \o t) \o u = s \o (t \o u)
  BY ConcatAssociative, SMTT(30)
<1> QED BY <1>1, <1>2

(* The same for lists of numbers.                                          *)
LEMMA ListsInRow ==
    \A s, t, u \in Seq(Nat) :
       s \o t \in Seq(Nat) /\ (s \o t) \o u = s \o (t \o u)
<1> SUFFICES ASSUME NEW s \in Seq(Nat), NEW t \in Seq(Nat), NEW u \in Seq(Nat)
             PROVE  s \o t \in Seq(Nat) /\ (s \o t) \o u = s \o (t \o u)
  OBVIOUS
<1>1. s \o t \in Seq(Nat)
  BY ConcatProperties, SMTT(30)
<1>2. (s \o t) \o u = s \o (t \o u)
  BY ConcatAssociative, SMTT(30)
<1> QED BY <1>1, <1>2

(* Nothing adds nothing.                                                   *)
LEMMA NothingAdds == Adds(<<>>, <<>>)
<1>1. <<>> \in Seq(Chars) /\ <<>> \in Seq(Nat)
  BY EmptySeq
<1>2. \A t \in Seq(Chars) : t \o <<>> = t /\ Numbers(t) \o <<>> = Numbers(t)
  BY ConcatEmptySeq, NumbersType
<1> QED BY <1>1, <1>2 DEF Adds

(* A letter in front.                                                      *)
LEMMA LetterAdds ==
    ASSUME NEW s, NEW ns, AddsFresh(s, ns)
    PROVE  Adds(<<"~">> \o s, ns)
<1> DEFINE l == <<"~">>
<1>1. "~" \in Chars /\ "~" \notin Digit
  BY NoDigit DEF Chars
<1>2. l \in Seq(Chars) /\ s \in Seq(Chars) /\ ns \in Seq(Nat)
  BY <1>1 DEF AddsFresh
<1>3. \A t \in Seq(Chars) : Append(t, "~") = t \o l
  BY <1>1, AppendIsConcat
<1> HIDE DEF l
<1>4. ASSUME NEW t \in Seq(Chars)
      PROVE  Numbers(t \o (l \o s)) = Numbers(t) \o ns
  <2> DEFINE u == t \o l
  <2>1. u \in Seq(Chars) /\ u \o s = t \o (l \o s)
    BY <1>2, InRow
  <2>2. u = Append(t, "~")
    BY <1>3
  <2>3. Fresh(u) /\ Numbers(u) = Numbers(t)
    <3>1. Fresh(Append(t, "~"))
      BY <1>1, NotFresh
    <3>2. Numbers(Append(t, "~")) = Numbers(t)
      BY <1>1, OneMoreRead
    <3> QED BY <3>1, <3>2, <2>2
  <2> HIDE DEF u
  <2>4. Numbers(u \o s) = Numbers(u) \o ns
    BY <2>1, <2>3 DEF AddsFresh
  <2> QED BY <2>1, <2>3, <2>4
<1>5. l \o s \in Seq(Chars)
  BY <1>2, InRow
<1> QED BY <1>2, <1>4, <1>5 DEF Adds, l

(* A number in front.                                                      *)
LEMMA NumberAdds ==
    ASSUME NEW ds, NEW v, ReadsAs(ds, v), NEW s, NEW ns, Adds(s, ns)
    PROVE  AddsFresh(ds \o s, <<v>> \o ns)
<1> DEFINE vs == <<v>>
<1>1. ds \in Seq(Chars) /\ s \in Seq(Chars) /\ ns \in Seq(Nat) /\ v \in Nat
  BY DEF ReadsAs, Adds
<1>2. vs \in Seq(Nat)
  BY <1>1
<1>3. \A ms \in Seq(Nat) : Append(ms, v) = ms \o vs
  BY <1>1, AppendIsConcat
<1> HIDE DEF vs
<1>4. ASSUME NEW t \in Seq(Chars), Fresh(t)
      PROVE  Numbers(t \o (ds \o s)) = Numbers(t) \o (vs \o ns)
  <2> DEFINE u == t \o ds
             ms == Numbers(t)
  <2>1. u \in Seq(Chars) /\ u \o s = t \o (ds \o s)
    BY <1>1, InRow
  <2>2. Numbers(u) = Append(ms, v)
    BY <1>4 DEF ReadsAs
  <2>3. ms \in Seq(Nat)
    BY NumbersType
  <2> HIDE DEF u, ms
  <2>4. Numbers(u \o s) = Append(ms, v) \o ns
    BY <2>1, <2>2 DEF Adds
  <2>5. Append(ms, v) \o ns = ms \o (vs \o ns)
    <3>1. Append(ms, v) = ms \o vs
      BY <2>3, <1>3
    <3>2. (ms \o vs) \o ns = ms \o (vs \o ns)
      BY <2>3, <1>1, <1>2, ListsInRow
    <3> QED BY <3>1, <3>2
  <2> QED BY <2>1, <2>4, <2>5 DEF ms
<1>5. ds \o s \in Seq(Chars) /\ vs \o ns \in Seq(Nat)
  BY <1>1, <1>2, InRow, ListsInRow
<1> QED BY <1>4, <1>5 DEF AddsFresh, vs

(* Letters of the format in front.                                         *)
LEMMA LettersAdd ==
    ASSUME NEW args, NEW str, Texts(line, args, str),
           NEW lo \in 1 .. 53, NEW hi \in lo .. 53, LettersAt(line, lo, hi),
           NEW a \in Nat, NEW ns, AddsFresh(str[<<hi + 1, a>>], ns)
    PROVE  Adds(str[<<lo, a>>], ns)
<1> DEFINE N == hi - lo
           at(k) == hi - k
           T == {k \in 0 .. N : Adds(str[<<at(k), a>>], ns)}
<1>1. ASSUME NEW i \in lo .. hi, AddsFresh(str[<<i + 1, a>>], ns)
      PROVE  Adds(str[<<i, a>>], ns)
  <2>1. i \in 1 .. Len(line) + 1 /\ ~(i > Len(line))
    BY LineFacts
  <2>2. line[i] = "~"
    BY DEF LettersAt
  <2> DEFINE p == <<i, a>>
  <2>3. p[1] = i /\ p[2] = a
    OBVIOUS
  <2>4. str[p] = Item(line, args, str, p)
    BY <2>1 DEF Texts
  <2> HIDE DEF p
  <2>5. str[p] = <<"~">> \o str[<<i + 1, a>>]
    BY <2>1, <2>2, <2>3, <2>4 DEF Item
  <2>6. Adds(str[p], ns)
    BY <2>5, <1>1, LetterAdds
  <2> QED BY <2>6 DEF p
<1>2. \A s, ms : Adds(s, ms) => AddsFresh(s, ms)
  BY DEF Adds, AddsFresh
<1>3. N \in Nat
  OBVIOUS
<1>4. 0 \in T
  <2>1. at(0) = hi /\ hi \in lo .. hi
    OBVIOUS
  <2>2. Adds(str[<<hi, a>>], ns)
    BY <2>1, <1>1
  <2> QED BY <1>3, <2>1, <2>2
<1>5. ASSUME NEW k \in 1 .. N, k - 1 \in T
      PROVE  k \in T
  <2>1. at(k) \in lo .. hi /\ at(k - 1) = at(k) + 1 /\ k \in 0 .. N
    OBVIOUS
  <2>2. Adds(str[<<at(k - 1), a>>], ns)
    BY <1>5
  <2> HIDE DEF at
  <2>3. AddsFresh(str[<<at(k) + 1, a>>], ns)
    BY <2>1, <2>2, <1>2
  <2>4. Adds(str[<<at(k), a>>], ns)
    BY <2>1, <2>3, <1>1
  <2> QED BY <2>1, <2>4
<1>6. T = 0 .. N
  <2>1. T \in SUBSET (0 .. N)
    OBVIOUS
  <2> HIDE DEF T, N
  <2> QED BY <1>3, <1>4, <1>5, <2>1, SetInduction
<1>7. N \in T /\ at(N) = lo
  <2>1. N \in 0 .. N /\ at(N) = lo
    OBVIOUS
  <2> HIDE DEF T
  <2> QED BY <2>1, <1>6
<1> QED BY <1>7

(* There is a directive at place i of the format f.                        *)
IsDirective(f, i) ==
    /\ ~(i > Len(f)) /\ f[i] = "%"
    /\ CharAt(f, Directive(f, i + 1).at) \in Conversion

(* vsprintf() converts the argument and goes on behind it.                 *)
Converts(f, args, str, i, a) ==
    LET d == Directive(f, i + 1)
    IN  Item(f, args, str, <<i, a>>) =
          Converted(CharAt(f, d.at), d, args[a]) \o str[<<d.at + 1, a + 1>>]

(* The text that begins at a directive.                                    *)
LEMMA DirectiveItem ==
    ASSUME NEW f, NEW args, NEW str, NEW i, NEW a, IsDirective(f, i)
    PROVE  Converts(f, args, str, i, a)
<1> DEFINE p == <<i, a>>
           d == Directive(f, i + 1)
<1>1. p[1] = i /\ p[2] = a
  OBVIOUS
<1> HIDE DEF p
<1>2. Item(f, args, str, p) =
        Converted(CharAt(f, d.at), d, args[a]) \o str[<<d.at + 1, a + 1>>]
  BY <1>1, Zenon DEF Item, IsDirective
<1> QED BY <1>2 DEF p, Converts

(* The digits of the argument n of the directive at i are read as v.       *)
FieldReads(i, n, v) ==
    /\ n \in Nat /\ n < 65536
    /\ ReadsAs(IF i = 22 THEN Digits(n, 10, Large) ELSE Digits(n, 16, Small), v)

(* A directive of the format in front.                                     *)
LEMMA FieldAdds ==
    ASSUME NEW args, NEW str, Texts(line, args, str), NEW i \in Places,
           NEW a \in Nat, NEW v, FieldReads(i, args[a], v), NEW ns,
           Adds(str[<<i + 2, a + 1>>], ns)
    PROVE  AddsFresh(str[<<i, a>>], <<v>> \o ns)
<1> DEFINE d == Directive(line, i + 1)
           c == line[i + 1]
           n == args[a]
           ds == IF i = 22 THEN Digits(n, 10, Large) ELSE Digits(n, 16, Small)
<1>1. i \in 1 .. Len(line) + 1 /\ ~(i > Len(line)) /\ i \in Nat
  BY LineFacts DEF Places
<1>2. /\ line[i] = "%" /\ c \in {"x", "d"} /\ (c = "d" <=> i = 22)
      /\ CharAt(line, i + 1) = c
      /\ d = [flags |-> {}, field_width |-> -1, precision |-> -1,
              long |-> FALSE, at |-> i + 1]
  BY LinePlaces
<1> HIDE DEF d, c
<1>3. d.flags = {} /\ d.field_width = -1 /\ d.precision = -1
      /\ d.long = FALSE /\ d.at = i + 1
  BY <1>2
<1>4. ReadsAs(ds, v) /\ n \in Nat /\ n < 65536
  BY DEF FieldReads
<1>5. ds \in Seq(Chars)
  BY <1>4 DEF ReadsAs
<1>6. n % UINT = n
  BY <1>4, SmallArgument
<1>7. Converted(c, d, n) = ds
  <2>1. CASE i = 22
    <3>1. c = "d" /\ ds = Digits(n, 10, Large)
      BY <2>1, <1>2
    <3>2. Converted("d", d, n) = number(n, 10, -1, -1, {} \cup {"SIGN"})
      BY <1>3, <1>6 DEF Converted
    <3>3. number(n, 10, -1, -1, {} \cup {"SIGN"}) = Digits(n, 10, Large)
      BY <3>1, <1>4, <1>5, DecimalPlain
    <3> HIDE DEF ds, n
    <3> QED BY <3>1, <3>2, <3>3
  <2>2. CASE i # 22
    <3>1. c = "x" /\ ds = Digits(n, 16, Small)
      BY <2>2, <1>2
    <3>2. Converted("x", d, n) = number(n, 16, -1, -1, {} \cup {"SMALL"})
      BY <1>3, <1>6 DEF Converted
    <3>3. number(n, 16, -1, -1, {} \cup {"SMALL"}) = Digits(n, 16, Small)
      BY <3>1, <1>4, <1>5, HexPlain
    <3> HIDE DEF ds, n
    <3> QED BY <3>1, <3>2, <3>3
  <2> QED BY <2>1, <2>2
<1>8. str[<<i, a>>] = Item(line, args, str, <<i, a>>)
  BY <1>1 DEF Texts
<1>9. c \in Conversion
  BY <1>2 DEF Conversion
<1>10. d.at + 1 = i + 2 /\ CharAt(line, d.at) = c
  BY <1>1, <1>2, <1>3
<1> DEFINE e == str[<<i + 2, a + 1>>]
<1> HIDE DEF ds, n, e
<1>11. Item(line, args, str, <<i, a>>) = ds \o e
  <2>1. Item(line, args, str, <<i, a>>) =
          Converted(c, d, args[a]) \o str[<<d.at + 1, a + 1>>]
    <3>1. IsDirective(line, i)
      <4>1. /\ line[i] = "%" /\ ~(i > Len(line))
            /\ CharAt(line, d.at) \in Conversion
        BY <1>1, <1>2, <1>9, <1>10
      <4> QED BY <4>1 DEF IsDirective, d
    <3>2. Converts(line, args, str, i, a)
      BY <3>1, DirectiveItem
    <3> QED BY <3>2, <1>10, Zenon DEF Converts, d
  <2> QED BY <2>1, <1>7, <1>10, Zenon DEF n, e
<1>12. AddsFresh(ds \o e, <<v>> \o ns)
  BY <1>4, NumberAdds DEF e
<1> QED BY <1>8, <1>11, <1>12, Zenon

(* A directive and the letters in front of it.                             *)
LEMMA PartAdds ==
    ASSUME NEW args, NEW str, Texts(line, args, str), NEW i \in Places,
           NEW lo \in 1 .. i - 1, LettersAt(line, lo, i - 1), NEW a \in Nat,
           NEW v, FieldReads(i, args[a], v),
           NEW ns, Adds(str[<<i + 2, a + 1>>], ns)
    PROVE  Adds(str[<<lo, a>>], <<v>> \o ns)
<1> DEFINE hi == i - 1
<1>1. lo \in 1 .. 53 /\ hi \in lo .. 53 /\ hi + 1 = i
  BY DEF Places
<1>2. AddsFresh(str[<<i, a>>], <<v>> \o ns)
  BY FieldAdds
<1>3. AddsFresh(str[<<hi + 1, a>>], <<v>> \o ns) /\ LettersAt(line, lo, hi)
  BY <1>1, <1>2
<1> HIDE DEF hi
<1> QED BY <1>1, <1>3, LettersAdd

(* The same for places and arguments that are given by name.               *)
LEMMA PartAt ==
    ASSUME NEW args, NEW str, Texts(line, args, str), NEW i \in Places,
           NEW lo \in 1 .. i - 1, NEW hi, hi = i - 1, LettersAt(line, lo, hi),
           NEW a \in Nat, NEW n, n = args[a], NEW v, FieldReads(i, n, v),
           NEW j, j = i + 2, NEW b, b = a + 1, NEW ns, Adds(str[<<j, b>>], ns)
    PROVE  Adds(str[<<lo, a>>], <<v>> \o ns)
  BY PartAdds

(* The elements of what is written in front of a list.                     *)
LEMMA FrontProperties ==
    ASSUME NEW v \in Nat, NEW s \in Seq(Nat)
    PROVE  /\ <<v>> \o s \in Seq(Nat)
           /\ Len(<<v>> \o s) = Len(s) + 1
           /\ Len(s) \in Nat
           /\ (<<v>> \o s)[1] = v
           /\ \A i \in 1 .. Len(s) : (<<v>> \o s)[i + 1] = s[i]
<1> DEFINE h == <<v>>
<1>1. h \in Seq(Nat) /\ Len(h) = 1 /\ h[1] = v
  OBVIOUS
<1> HIDE DEF h
<1>2. /\ h \o s \in Seq(Nat)
      /\ Len(h \o s) = Len(h) + Len(s)
      /\ \A i \in 1 .. Len(h) + Len(s) : (h \o s)[i] =
             IF i <= Len(h) THEN h[i] ELSE s[i - Len(h)]
  BY <1>1, ConcatProperties, Zenon
<1>3. Len(s) \in Nat
  BY LenProperties
<1>4. (h \o s)[1] = h[1]
  BY <1>1, <1>2, <1>3
<1>5. \A i \in 1 .. Len(s) : (h \o s)[i + 1] = s[i]
  <2> SUFFICES ASSUME NEW i \in 1 .. Len(s)
               PROVE  (h \o s)[i + 1] = s[i]
    OBVIOUS
  <2>1. i + 1 \in 1 .. Len(h) + Len(s) /\ ~(i + 1 <= Len(h))
    BY <1>1, <1>3
  <2>2. (h \o s)[i + 1] = s[i + 1 - Len(h)]
    BY <2>1, <1>2
  <2>3. i + 1 - Len(h) = i
    BY <1>1
  <2> QED BY <2>2, <2>3
<1> QED BY <1>1, <1>2, <1>3, <1>4, <1>5 DEF h

(* What is written in front of a list.                                     *)
LEMMA InFront ==
    ASSUME NEW v \in Nat, NEW s \in Seq(Nat), NEW t \in Seq(Nat),
           Len(t) = Len(s) + 1, t[1] = v,
           \A i \in 1 .. Len(s) : t[i + 1] = s[i]
    PROVE  <<v>> \o s = t
<1> DEFINE r == <<v>> \o s
<1>1. /\ r \in Seq(Nat) /\ Len(r) = Len(s) + 1 /\ Len(s) \in Nat
      /\ r[1] = v
      /\ \A i \in 1 .. Len(s) : r[i + 1] = s[i]
  BY FrontProperties, Zenon
<1> HIDE DEF r
<1>2. \A i \in 1 .. Len(r) : r[i] = t[i]
  <2> SUFFICES ASSUME NEW i \in 1 .. Len(r)
               PROVE  r[i] = t[i]
    OBVIOUS
  <2>1. CASE i = 1
    BY <2>1, <1>1
  <2>2. CASE i # 1
    <3> DEFINE j == i - 1
    <3>1. j \in 1 .. Len(s) /\ j + 1 = i
      BY <2>2, <1>1
    <3> HIDE DEF j
    <3>2. r[j + 1] = s[j] /\ t[j + 1] = s[j]
      BY <3>1, <1>1, Zenon
    <3> QED BY <3>1, <3>2
  <2> QED BY <2>1, <2>2
<1>3. Len(r) = Len(t)
  BY <1>1
<1>4. r = t
  BY <1>1, <1>2, <1>3, SeqEqual, Zenon
<1> QED BY <1>4 DEF r

(* The places of a short list, one by one.                                 *)
LEMMA Firsts ==
    /\ \A i \in 1 .. 1 : i = 1
    /\ \A i \in 1 .. 2 : i = 1 \/ i = 2
    /\ \A i \in 1 .. 3 : i = 1 \/ i = 2 \/ i = 3
    /\ \A i \in 1 .. 4 : i = 1 \/ i = 2 \/ i = 3 \/ i = 4
    /\ \A i \in 1 .. 5 : i = 1 \/ i = 2 \/ i = 3 \/ i = 4 \/ i = 5
  OBVIOUS

(* Six numbers, each in front of the rest, are the list of them.           *)
IsList(u, v, w, x, y, z) ==
    <<u>> \o (<<v>> \o (<<w>> \o (<<x>> \o (<<y>> \o (<<z>> \o <<>>)))))
      = <<u, v, w, x, y, z>>

(* This is so for numbers.                                                 *)
LEMMA SixNumbers ==
    ASSUME NEW u \in Nat, NEW v \in Nat, NEW w \in Nat,
           NEW x \in Nat, NEW y \in Nat, NEW z \in Nat
    PROVE  IsList(u, v, w, x, y, z)
<1>1. <<z>> \o <<>> = <<z>>
  OBVIOUS
<1>2. <<y>> \o <<z>> = <<y, z>>
  <2> DEFINE s == <<z>>
             t == <<y, z>>
  <2>1. s \in Seq(Nat) /\ Len(s) = 1
    OBVIOUS
  <2>2. t \in Seq(Nat) /\ Len(t) = 2 /\ t[1] = y
    OBVIOUS
  <2>3. t[1 + 1] = s[1]
    OBVIOUS
  <2> HIDE DEF s, t
  <2>4. \A i \in 1 .. Len(s) : t[i + 1] = s[i]
    BY <2>1, <2>3, Firsts
  <2>5. Len(t) = Len(s) + 1
    BY <2>1, <2>2
  <2>6. <<y>> \o s = t
    BY <2>1, <2>2, <2>4, <2>5, InFront, Zenon
  <2> QED BY <2>6 DEF s, t
<1>3. <<x>> \o <<y, z>> = <<x, y, z>>
  <2> DEFINE s == <<y, z>>
             t == <<x, y, z>>
  <2>1. s \in Seq(Nat) /\ Len(s) = 2
    OBVIOUS
  <2>2. t \in Seq(Nat) /\ Len(t) = 3 /\ t[1] = x
    OBVIOUS
  <2>3. t[1 + 1] = s[1] /\ t[2 + 1] = s[2]
    OBVIOUS
  <2> HIDE DEF s, t
  <2>4. \A i \in 1 .. Len(s) : t[i + 1] = s[i]
    BY <2>1, <2>3, Firsts
  <2>5. Len(t) = Len(s) + 1
    BY <2>1, <2>2
  <2>6. <<x>> \o s = t
    BY <2>1, <2>2, <2>4, <2>5, InFront, Zenon
  <2> QED BY <2>6 DEF s, t
<1>4. <<w>> \o <<x, y, z>> = <<w, x, y, z>>
  <2> DEFINE s == <<x, y, z>>
             t == <<w, x, y, z>>
  <2>1. s \in Seq(Nat) /\ Len(s) = 3
    OBVIOUS
  <2>2. t \in Seq(Nat) /\ Len(t) = 4 /\ t[1] = w
    OBVIOUS
  <2>3. t[1 + 1] = s[1] /\ t[2 + 1] = s[2] /\ t[3 + 1] = s[3]
    OBVIOUS
  <2> HIDE DEF s, t
  <2>4. \A i \in 1 .. Len(s) : t[i + 1] = s[i]
    BY <2>1, <2>3, Firsts
  <2>5. Len(t) = Len(s) + 1
    BY <2>1, <2>2
  <2>6. <<w>> \o s = t
    BY <2>1, <2>2, <2>4, <2>5, InFront, Zenon
  <2> QED BY <2>6 DEF s, t
<1>5. <<v>> \o <<w, x, y, z>> = <<v, w, x, y, z>>
  <2> DEFINE s == <<w, x, y, z>>
             t == <<v, w, x, y, z>>
  <2>1. s \in Seq(Nat) /\ Len(s) = 4
    OBVIOUS
  <2>2. t \in Seq(Nat) /\ Len(t) = 5 /\ t[1] = v
    OBVIOUS
  <2>3. t[1 + 1] = s[1] /\ t[2 + 1] = s[2] /\ t[3 + 1] = s[3] /\ t[4 + 1] = s[4]
    OBVIOUS
  <2> HIDE DEF s, t
  <2>4. \A i \in 1 .. Len(s) : t[i + 1] = s[i]
    BY <2>1, <2>3, Firsts
  <2>5. Len(t) = Len(s) + 1
    BY <2>1, <2>2
  <2>6. <<v>> \o s = t
    BY <2>1, <2>2, <2>4, <2>5, InFront, Zenon
  <2> QED BY <2>6 DEF s, t
<1>6. <<u>> \o <<v, w, x, y, z>> = <<u, v, w, x, y, z>>
  <2> DEFINE s == <<v, w, x, y, z>>
             t == <<u, v, w, x, y, z>>
  <2>1. s \in Seq(Nat) /\ Len(s) = 5
    OBVIOUS
  <2>2. t \in Seq(Nat) /\ Len(t) = 6 /\ t[1] = u
    OBVIOUS
  <2>3. t[1 + 1] = s[1] /\ t[2 + 1] = s[2] /\ t[3 + 1] = s[3] /\ t[4 + 1] = s[4] /\ t[5 + 1] = s[5]
    OBVIOUS
  <2> HIDE DEF s, t
  <2>4. \A i \in 1 .. Len(s) : t[i + 1] = s[i]
    BY <2>1, <2>3, Firsts
  <2>5. Len(t) = Len(s) + 1
    BY <2>1, <2>2
  <2>6. <<u>> \o s = t
    BY <2>1, <2>2, <2>4, <2>5, InFront, Zenon
  <2> QED BY <2>6 DEF s, t
<1> QED BY <1>1, <1>2, <1>3, <1>4, <1>5, <1>6, Zenon DEF IsList

(* Nothing reads as nothing.                                               *)
LEMMA NothingRead == Numbers(<<>>) = <<>>
<1> DEFINE e == <<>>
<1>1. Len(e) = 0
  BY EmptySeq
<1> HIDE DEF e
<1>2. PICK n : ReadTo(n, e, Len(e)) /\ Numbers(e) = n[Len(e)]
  <2>1. Len(e) \in Nat
    BY <1>1
  <2> QED BY <2>1, NumbersExist
<1>3. n[0] = Read(n, e, 0)
  BY <1>1, <1>2 DEF ReadTo
<1>4. n[0] = <<>>
  BY <1>3 DEF Read
<1> QED BY <1>1, <1>2, <1>4 DEF e

(* The arguments of the line for a time in BCD.                            *)
Arguments(t) == <<t.year + t.century * 256, t.month, t.day, t.hour,
                  t.minute, t.second>>

(* What a reader should find.                                              *)
Readable(t, k) == <<100 * k.century + k.year, k.month, t.day, k.hour,
                    k.minute, k.second>>

(* t shows in BCD what k has as numbers.                                   *)
InBcd(t, k) ==
    /\ k \in [Field -> 0 .. 99]
    /\ \A f \in Field : t[f] = Bcd(k[f])

(* What print() makes of a time in BCD reads as the time, but for the day, *)
(* which reads as the byte (main.c:43).                                    *)
THEOREM LineText ==
    ASSUME NEW t, NEW k, InBcd(t, k)
    PROVE  Numbers(vsprintf(line, Arguments(t))) = Readable(t, k)
<1> DEFINE args == Arguments(t)
           ns == Readable(t, k)
<1>1. /\ args[1] = t.year + t.century * 256 /\ args[2] = t.month
      /\ args[3] = t.day /\ args[4] = t.hour /\ args[5] = t.minute
      /\ args[6] = t.second
  BY DEF Arguments
<1> HIDE DEF args
<1>2. \A f \in Field : k[f] \in 0 .. 99 /\ t[f] = Bcd(k[f])
  BY DEF InBcd
<1>3. \A f \in Field : FieldReads(6, t[f], k[f])
  <2> SUFFICES ASSUME NEW f \in Field
               PROVE  FieldReads(6, t[f], k[f])
    OBVIOUS
  <2>1. ReadsAs(Digits(t[f], 16, Small), k[f])
    BY <1>2, BcdText
  <2>2. t[f] \in Nat /\ t[f] < 65536
    <3>1. Bcd(k[f]) \in 0 .. 153
      BY <1>2, Tens
    <3> QED BY <3>1, <1>2
  <2> QED BY <2>1, <2>2 DEF FieldReads
<1>4. \A i, n, v : i # 22 /\ FieldReads(6, n, v) => FieldReads(i, n, v)
  BY DEF FieldReads
<1>5. /\ FieldReads(15, args[2], k.month) /\ FieldReads(30, args[4], k.hour)
      /\ FieldReads(40, args[5], k.minute) /\ FieldReads(50, args[6], k.second)
  <2>1. /\ FieldReads(6, t.month, k.month) /\ FieldReads(6, t.hour, k.hour)
        /\ FieldReads(6, t.minute, k.minute) /\ FieldReads(6, t.second, k.second)
    BY <1>3 DEF Field
  <2>2. 15 # 22 /\ 30 # 22 /\ 40 # 22 /\ 50 # 22
    OBVIOUS
  <2> QED BY <2>1, <2>2, <1>1, <1>4
<1>6. FieldReads(22, args[3], t.day)
  <2>1. k.day \in 0 .. 99 /\ t.day = Bcd(k.day)
    BY <1>2 DEF Field
  <2>2. t.day \in 0 .. 153
    BY <2>1, Tens
  <2>3. ReadsAs(Digits(t.day, 10, Large), t.day)
    BY <2>2, DayText
  <2> QED BY <2>2, <2>3, <1>1 DEF FieldReads
<1>7. FieldReads(6, args[1], 100 * k.century + k.year)
  <2>1. /\ k.century \in 0 .. 99 /\ t.century = Bcd(k.century)
        /\ k.year \in 0 .. 99 /\ t.year = Bcd(k.year)
    BY <1>2 DEF Field
  <2>2. t.century \in 0 .. 153 /\ t.year \in 0 .. 153
    BY <2>1, Tens
  <2>3. ReadsAs(Digits(t.year + t.century * 256, 16, Small),
                100 * k.century + k.year)
    BY <2>1, YearText
  <2>4. /\ t.year + t.century * 256 \in Nat
        /\ t.year + t.century * 256 < 65536
    <3> DEFINE y == t.year
               c == t.century
    <3>1. y \in 0 .. 153 /\ c \in 0 .. 153
      BY <2>2
    <3> HIDE DEF y, c
    <3>2. y + c * 256 \in Nat /\ y + c * 256 < 65536
      BY <3>1
    <3> QED BY <3>2 DEF y, c
  <2> QED BY <2>3, <2>4, <1>1 DEF FieldReads
<1>8. PICK str : Texts(line, args, str)
  BY TextsExist, LinePlaces
<1>9. Adds(str[<<54, 7>>], <<>>)
  <2> DEFINE p == <<54, 7>>
  <2>1. 54 \in 1 .. Len(line) + 1 /\ 54 > Len(line) /\ 7 \in Nat
    BY LineFacts
  <2>2. str[p] = Item(line, args, str, p)
    BY <2>1, <1>8 DEF Texts
  <2>3. p[1] = 54
    OBVIOUS
  <2> HIDE DEF p
  <2>4. str[p] = <<>>
    BY <2>1, <2>2, <2>3 DEF Item
  <2> QED BY <2>4, NothingAdds DEF p
<1>10. Adds(str[<<52, 7>>], <<>>)
  <2>1. AddsFresh(str[<<53 + 1, 7>>], <<>>)
    <3>1. 53 + 1 = 54
      OBVIOUS
    <3> QED BY <3>1, <1>9 DEF Adds, AddsFresh
  <2>2. LettersAt(line, 52, 53)
    BY LineFacts
  <2>3. 52 \in 1 .. 53 /\ 53 \in 52 .. 53 /\ 7 \in Nat
    OBVIOUS
  <2> QED BY <2>1, <2>2, <2>3, <1>8, LettersAdd
<1> DEFINE n7 == <<>>
<1>10a. Adds(str[<<52, 7>>], n7)
  BY <1>10
<1> HIDE DEF n7
<1> DEFINE n6 == <<k.second>> \o n7
<1>11. Adds(str[<<42, 6>>], n6)
  <2>1. /\ 50 \in Places /\ 42 \in 1 .. 50 - 1 /\ 49 = 50 - 1
        /\ 52 = 50 + 2 /\ 7 = 6 + 1 /\ 6 \in Nat
    BY DEF Places
  <2>2. LettersAt(line, 42, 49)
    BY LineFacts
  <2>3. FieldReads(50, args[6], k.second)
    BY <1>5
  <2> QED BY <2>1, <2>2, <2>3, <1>8, <1>10a, PartAt
<1> HIDE DEF n6
<1> DEFINE n5 == <<k.minute>> \o n6
<1>12. Adds(str[<<32, 5>>], n5)
  <2>1. /\ 40 \in Places /\ 32 \in 1 .. 40 - 1 /\ 39 = 40 - 1
        /\ 42 = 40 + 2 /\ 6 = 5 + 1 /\ 5 \in Nat
    BY DEF Places
  <2>2. LettersAt(line, 32, 39)
    BY LineFacts
  <2>3. FieldReads(40, args[5], k.minute)
    BY <1>5
  <2> QED BY <2>1, <2>2, <2>3, <1>8, <1>11, PartAt
<1> HIDE DEF n5
<1> DEFINE n4 == <<k.hour>> \o n5
<1>13. Adds(str[<<24, 4>>], n4)
  <2>1. /\ 30 \in Places /\ 24 \in 1 .. 30 - 1 /\ 29 = 30 - 1
        /\ 32 = 30 + 2 /\ 5 = 4 + 1 /\ 4 \in Nat
    BY DEF Places
  <2>2. LettersAt(line, 24, 29)
    BY LineFacts
  <2>3. FieldReads(30, args[4], k.hour)
    BY <1>5
  <2> QED BY <2>1, <2>2, <2>3, <1>8, <1>12, PartAt
<1> HIDE DEF n4
<1> DEFINE n3 == <<t.day>> \o n4
<1>14. Adds(str[<<17, 3>>], n3)
  <2>1. /\ 22 \in Places /\ 17 \in 1 .. 22 - 1 /\ 21 = 22 - 1
        /\ 24 = 22 + 2 /\ 4 = 3 + 1 /\ 3 \in Nat
    BY DEF Places
  <2>2. LettersAt(line, 17, 21)
    BY LineFacts
  <2>3. FieldReads(22, args[3], t.day)
    BY <1>6
  <2> QED BY <2>1, <2>2, <2>3, <1>8, <1>13, PartAt
<1> HIDE DEF n3
<1> DEFINE n2 == <<k.month>> \o n3
<1>15. Adds(str[<<8, 2>>], n2)
  <2>1. /\ 15 \in Places /\ 8 \in 1 .. 15 - 1 /\ 14 = 15 - 1
        /\ 17 = 15 + 2 /\ 3 = 2 + 1 /\ 2 \in Nat
    BY DEF Places
  <2>2. LettersAt(line, 8, 14)
    BY LineFacts
  <2>3. FieldReads(15, args[2], k.month)
    BY <1>5
  <2> QED BY <2>1, <2>2, <2>3, <1>8, <1>14, PartAt
<1> HIDE DEF n2
<1> DEFINE n1 == <<100 * k.century + k.year>> \o n2
<1>16. Adds(str[<<1, 1>>], n1)
  <2>1. /\ 6 \in Places /\ 1 \in 1 .. 6 - 1 /\ 5 = 6 - 1
        /\ 8 = 6 + 2 /\ 2 = 1 + 1 /\ 1 \in Nat
    BY DEF Places
  <2>2. LettersAt(line, 1, 5)
    BY LineFacts
  <2>3. FieldReads(6, args[1], 100 * k.century + k.year)
    BY <1>7
  <2> QED BY <2>1, <2>2, <2>3, <1>8, <1>15, PartAt
<1> HIDE DEF n1
<1>17. n1 = ns
  <2>1. /\ 100 * k.century + k.year \in Nat /\ k.month \in Nat
        /\ t.day \in Nat /\ k.hour \in Nat /\ k.minute \in Nat
        /\ k.second \in Nat
    BY <1>5, <1>6, <1>7 DEF FieldReads, ReadsAs
  <2> DEFINE y == 100 * k.century + k.year
             m == k.month
             d == t.day
             h == k.hour
             i == k.minute
             o == k.second
  <2>2. IsList(y, m, d, h, i, o)
    <3>1. /\ y \in Nat /\ m \in Nat /\ d \in Nat /\ h \in Nat
          /\ i \in Nat /\ o \in Nat
      BY <2>1
    <3> HIDE DEF y, m, d, h, i, o
    <3> QED BY <3>1, SixNumbers
  <2> QED BY <2>2 DEF IsList, n1, n2, n3, n4, n5, n6, n7, Readable
<1>18. vsprintf(line, args) = str[<<1, 1>>]
  BY <1>8 DEF Texts
<1> DEFINE s == str[<<1, 1>>]
<1> HIDE DEF s, ns
<1>19. Numbers(s) = ns
  <2>1. s \in Seq(Chars) /\ n1 \in Seq(Nat) /\ <<>> \in Seq(Chars)
    BY <1>16, EmptySeq DEF Adds, s
  <2>2. Numbers(<<>> \o s) = Numbers(<<>>) \o n1
    BY <2>1, <1>16 DEF Adds, s
  <2>3. <<>> \o s = s /\ <<>> \o n1 = n1
    BY <2>1, ConcatEmptySeq
  <2> QED BY <2>2, <2>3, <1>17, NothingRead
<1> QED BY <1>18, <1>19 DEF s, ns, args

-----------------------------------------------------------------------------
(* struct time holds numbers in BCD, also while get_time() is in between   *)
(* two of its fields, and the line is the one print() makes of them: no    *)
(* step writes struct time once the line is there.                         *)
ShownInv ==
    /\ \E k : InBcd(time, k)
    /\ shown # <<>> => ~Reading /\ shown = vsprintf(line, Arguments(time))

(* One more field from the clock.                                          *)
LEMMA InBcdKept ==
    ASSUME NEW t, NEW k, InBcd(t, k), NEW f \in Field, NEW n \in 0 .. 99,
           NEW u, u = [t EXCEPT ![f] = Bcd(n)], t \in [Field -> 0 .. Bcd(99)]
    PROVE  \E m : InBcd(u, m)
<1> DEFINE m == [k EXCEPT ![f] = n]
<1>1. k \in [Field -> 0 .. 99] /\ \A g \in Field : t[g] = Bcd(k[g])
  BY DEF InBcd
<1>2. m \in [Field -> 0 .. 99]
  BY <1>1
<1>3. \A g \in Field : u[g] = Bcd(m[g])
  BY <1>1
<1>4. InBcd(u, m)
  BY <1>2, <1>3 DEF InBcd
<1> QED BY <1>4

(* ShownInv is inductive, given TypeInv.                                   *)
LEMMA ShownInvHolds == Spec => []ShownInv
<1>1. Init => ShownInv
  <2> SUFFICES ASSUME Init PROVE ShownInv
    OBVIOUS
  <2> DEFINE k == [f \in Field |-> 0]
  <2>1. Bcd(0) = 0
    BY DEF Bcd
  <2>2. InBcd(time, k)
    BY <2>1 DEF Init, InBcd
  <2>3. shown = <<>>
    BY DEF Init
  <2> QED BY <2>2, <2>3 DEF ShownInv
<1>2. TypeInv /\ ShownInv /\ [Next]_vars => ShownInv'
  <2> SUFFICES ASSUME TypeInv, ShownInv, [Next]_vars PROVE ShownInv'
    OBVIOUS
  <2>1. CASE ReadField
    <3> DEFINE f == Order[pc[2]]
    <3>1. Reading /\ shown' = shown
      BY <2>1 DEF ReadField, Reading
    <3>2. pc[2] \in 1 .. 7
      BY <2>1, <3>1, OrderFacts DEF ReadField, TypeInv, TypeOK, Reading
    <3>3. f \in Field
      BY <3>2, OrderFacts
    <3>4. time' = [time EXCEPT ![f] = Bcd(clock[f])]
      BY <2>1 DEF ReadField, CMOS_READ
    <3> HIDE DEF f
    <3>5. clock[f] \in 0 .. 99 /\ time \in [Field -> 0 .. Bcd(99)]
      BY <3>3, TimeFields DEF TypeInv, TypeOK
    <3>6. PICK k : InBcd(time, k)
      BY DEF ShownInv
    <3>7. \E m : InBcd(time', m)
      BY <3>3, <3>4, <3>5, <3>6, InBcdKept
    <3> QED BY <3>1, <3>7 DEF ShownInv
  <2>2. CASE PrintTime
    <3>1. ~Reading' /\ time' = time
      BY <2>2 DEF PrintTime, Reading
    <3>2. shown' = vsprintf(line, Arguments(time))
      BY <2>2 DEF PrintTime, Arguments
    <3> QED BY <3>1, <3>2 DEF ShownInv
  <2>3. CASE time' = time /\ shown' = shown /\ (~Reading => ~Reading')
    BY <2>3 DEF ShownInv
  <2>4. ASSUME Tick \/ TestSecond \/ srand_my \/ init_8259A \/ Draw
               \/ ignore_int \/ UNCHANGED vars
        PROVE  time' = time /\ shown' = shown /\ (~Reading => ~Reading')
    BY <2>4 DEF Tick, TestSecond, srand_my, init_8259A, Draw, ignore_int,
                vars, machine, Reading
  <2> QED BY <2>1, <2>2, <2>3, <2>4 DEF Next, Step
<1> QED BY <1>1, <1>2, TypeInvHolds, PTL DEF Spec

(* Whatever the clock showed while it was read, a reader of the line finds *)
(* the numbers of struct time, and for the day its byte (main.c:43).       *)
THEOREM LineReadableCorrect == Spec => []LineReadable
<1>1. ShownInv => LineReadable
  <2> SUFFICES ASSUME ShownInv, shown # <<>>
               PROVE  Numbers(shown) =
                          <<100 * BCD2BIN(time.century) + BCD2BIN(time.year),
                            BCD2BIN(time.month), time.day,
                            BCD2BIN(time.hour), BCD2BIN(time.minute),
                            BCD2BIN(time.second)>>
    BY DEF LineReadable
  <2>1. PICK k : InBcd(time, k)
    BY DEF ShownInv
  <2>2. Numbers(shown) = Readable(time, k)
    BY <2>1, LineText DEF ShownInv
  <2>3. \A f \in Field : BCD2BIN(time[f]) = k[f]
    BY <2>1, Tens DEF InBcd
  <2>4. /\ BCD2BIN(time.century) = k.century /\ BCD2BIN(time.year) = k.year
        /\ BCD2BIN(time.month) = k.month /\ BCD2BIN(time.hour) = k.hour
        /\ BCD2BIN(time.minute) = k.minute
        /\ BCD2BIN(time.second) = k.second
    BY <2>3 DEF Field
  <2> QED BY <2>2, <2>4, Zenon DEF Readable
<1> QED BY <1>1, ShownInvHolds, PTL
=============================================================================
