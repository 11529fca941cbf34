------------------------------- MODULE Clock -------------------------------
(***************************************************************************)
(* What Start_Kernel() does with the real-time clock: get_time() (time.c), *)
(* the line that print() makes of the time, and the seed of the random     *)
(* numbers (random.c) with the draws that the game makes later.            *)
(*                                                                         *)
(* The clock goes on between any two accesses to its registers, which hold *)
(* the time in BCD; an access is an action.  get_time() has interrupts     *)
(* disabled but that does not stop the clock.  That a register is read     *)
(* while the clock updates it is left out: an update is one step.          *)
(*                                                                         *)
(* The vectors of the 8259A are the ones of the firmware at this time.     *)
(* All interrupts lead to ignore_int (head.S), which prints and loops.     *)
(***************************************************************************)
EXTENDS Format, Random

CONSTANTS
    Boot,               \* what the clock may show when the machine starts
    MinReads,           \* reads of a register that fit between two ticks
    MaxTicks,           \* bound: how often the clock ticks
    MaxDraws,           \* bound: numbers the game draws
    FirmwareInterrupts  \* TRUE when the firmware left an interrupt unmasked

(* A read takes microseconds and a tick comes every second.                *)
ASSUME ClockAssumption ==
    /\ MinReads \in Nat /\ MinReads >= 9
    /\ MaxTicks \in Nat /\ MaxDraws \in Nat
    /\ FirmwareInterrupts \in BOOLEAN

Field == {"century", "year", "month", "day", "hour", "minute", "second"}

VARIABLES
    clock,      \* the time, as numbers
    since,      \* reads since the last tick, up to MinReads
    ticks,      \* ticks so far
    pc,         \* <<routine, next access>>
    interrupts, \* the flag IF
    time,       \* struct time, as the registers hold it
    shown,      \* the line print() made of it
    seed,
    draws,      \* numbers drawn so far
    drawn,      \* what randrange(1, 100) returned last
    entered,    \* history: the clock when the last pass of the loop began
    left,       \* history: the clock when the loop ended
    passes      \* history: passes of the loop, up to 3

machine == <<pc, interrupts, time, shown, seed, draws, drawn>>
history == <<entered, left, passes>>
vars == <<clock, since, ticks, machine, history>>

(* get_time() reads the registers in this order, time->year from two.      *)
Order == <<"year", "century", "month", "day", "hour", "minute", "second">>

-----------------------------------------------------------------------------
(* The clock. *)

DaysIn(c) ==
    IF c.month \in {4, 6, 9, 11} THEN 30
    ELSE IF c.month # 2 THEN 31
    ELSE IF c.year % 4 = 0 THEN 29 ELSE 28

First == [century |-> 0, year |-> 0, month |-> 1, day |-> 1, hour |-> 0,
          minute |-> 0, second |-> 0]

Last(c) == [century |-> 99, year |-> 99, month |-> 12, day |-> DaysIn(c),
            hour |-> 23, minute |-> 59, second |-> 59]

Time == [century : 0 .. 99, year : 0 .. 99, month : 1 .. 12, day : 1 .. 31,
         hour : 0 .. 23, minute : 0 .. 59, second : 0 .. 59]

Finer ==
    [century |-> {"year", "month", "day", "hour", "minute", "second"},
     year    |-> {"month", "day", "hour", "minute", "second"},
     month   |-> {"day", "hour", "minute", "second"},
     day     |-> {"hour", "minute", "second"},
     hour    |-> {"minute", "second"},
     minute  |-> {"second"},
     second  |-> {}]

(* A field moves on when all finer ones have come to their end.            *)
Successor(c) ==
    [f \in Field |->
        IF \E g \in Finer[f] : c[g] # Last(c)[g] THEN c[f]
        ELSE IF c[f] = Last(c)[f] THEN First[f]
        ELSE c[f] + 1]

Bcd(n) == (n \div 10) * 16 + (n % 10)

ASSUME BootAssumption == \A c \in Boot : c \in Time /\ c.day <= DaysIn(c)

(* CMOS_READ: what the register of field f holds now.                      *)
CMOS_READ(f) == Bcd(clock[f])

Tick ==
    /\ since = MinReads
    /\ ticks < MaxTicks
    /\ ticks' = ticks + 1
    /\ since' = 0
    /\ clock' = Successor(clock)
    /\ UNCHANGED <<machine, history>>

Reads   == since' = IF since < MinReads THEN since + 1 ELSE since
Lasting == since' = MinReads    \* a step that takes any time

-----------------------------------------------------------------------------

Init ==
    /\ clock \in Boot
    /\ since = MinReads
    /\ ticks = 0
    /\ pc = <<"get_time", 1>>
    /\ interrupts = FALSE
    /\ time = [f \in Field |-> 0]
    /\ shown = <<>>
    /\ seed = SeedOf(1)
    /\ draws = 0
    /\ drawn = 1
    /\ entered = clock
    /\ left = clock
    /\ passes = 0

(* get_time() has executed cli: one access of a pass of the loop.          *)
ReadField ==
    /\ pc[1] = "get_time"
    /\ pc[2] <= Len(Order)
    /\ time' = [time EXCEPT ![Order[pc[2]]] = CMOS_READ(Order[pc[2]])]
    /\ pc' = <<"get_time", pc[2] + 1>>
    /\ Reads
    /\ entered' = IF pc[2] = 1 THEN clock ELSE entered
    /\ passes' = IF pc[2] = 1 /\ passes < 3 THEN passes + 1 ELSE passes
    /\ UNCHANGED <<clock, ticks, interrupts, shown, seed, draws, drawn, left>>

TestSecond_Dropped ==       \* as if there were no loop
    /\ pc = <<"get_time", Len(Order) + 1>>
    /\ pc' = <<"print", 1>>
    /\ interrupts' = TRUE
    /\ Reads
    /\ left' = clock
    /\ UNCHANGED <<clock, ticks, time, shown, seed, draws, drawn, entered, passes>>

TestSecond_Converted ==     \* as if one side went through BCD2BIN
    /\ pc = <<"get_time", Len(Order) + 1>>
    /\ IF time.second = clock.second
         THEN pc' = <<"print", 1>> /\ interrupts' = TRUE /\ left' = clock
         ELSE pc' = <<"get_time", 1>> /\ UNCHANGED <<interrupts, left>>
    /\ Reads
    /\ UNCHANGED <<clock, ticks, time, shown, seed, draws, drawn, entered, passes>>

TestSecond_Sti ==           \* as if sti stood inside the loop
    /\ pc = <<"get_time", Len(Order) + 1>>
    /\ IF time.second = CMOS_READ("second")
         THEN pc' = <<"print", 1>> /\ left' = clock
         ELSE pc' = <<"get_time", 1>> /\ UNCHANGED left
    /\ interrupts' = TRUE
    /\ Reads
    /\ UNCHANGED <<clock, ticks, time, shown, seed, draws, drawn, entered, passes>>

(* while (time->second != CMOS_READ(0x00)); behind the loop sti.           *)
TestSecond ==
    /\ pc = <<"get_time", Len(Order) + 1>>
    /\ IF time.second = CMOS_READ("second")
         THEN pc' = <<"print", 1>> /\ interrupts' = TRUE /\ left' = clock
         ELSE pc' = <<"get_time", 1>> /\ UNCHANGED <<interrupts, left>>
    /\ Reads
    /\ UNCHANGED <<clock, ticks, time, shown, seed, draws, drawn, entered, passes>>

Letters(n) == Repeat("~", n)

line_Decimal ==             \* as if the hour were printed like the day
    Letters(5) \o <<"%", "x">> \o Letters(7) \o <<"%", "x">>
    \o Letters(5) \o <<"%", "d">> \o Letters(6) \o <<"%", "d">>
    \o Letters(8) \o <<"%", "x">> \o Letters(8) \o <<"%", "x">> \o Letters(2)

(* "year:%x,month:%x,day:%d,hour:%x,mintue:%x,second:%x \n"                *)
line ==
    Letters(5) \o <<"%", "x">> \o Letters(7) \o <<"%", "x">>
    \o Letters(5) \o <<"%", "d">> \o Letters(6) \o <<"%", "x">>
    \o Letters(8) \o <<"%", "x">> \o Letters(8) \o <<"%", "x">> \o Letters(2)

PrintTime ==
    /\ pc = <<"print", 1>>
    /\ shown' = vsprintf(line, <<time.year + time.century * 256,
                                 time.month, time.day, time.hour,
                                 time.minute, time.second>>)
    /\ pc' = <<"srand_my", 1>>
    /\ Lasting
    /\ UNCHANGED <<clock, ticks, interrupts, time, seed, draws, drawn, history>>

(* srand_my(): get_second_now() reads with interrupts disabled.            *)
srand_my ==
    /\ pc = <<"srand_my", 1>>
    /\ seed' = SeedOf(CMOS_READ("second"))
    /\ pc' = <<"init_8259A", 1>>
    /\ interrupts' = TRUE
    /\ Reads
    /\ UNCHANGED <<clock, ticks, time, shown, draws, drawn, history>>

(* init_8259A() puts vectors and mask of its own in place; Kernel.tla has  *)
(* how the processor gets from there to the game.                          *)
init_8259A ==
    /\ pc = <<"init_8259A", 1>>
    /\ pc' = <<"game", 1>>
    /\ Lasting
    /\ UNCHANGED <<clock, ticks, interrupts, time, shown, seed, draws, drawn,
                   history>>

(* A randrange(1, 100) of the game.                                        *)
Draw ==
    /\ pc = <<"game", 1>>
    /\ draws < MaxDraws
    /\ draws' = draws + 1
    /\ seed' = NextSeed(seed)
    /\ drawn' = randrange(seed', 1, 100)
    /\ Lasting
    /\ UNCHANGED <<clock, ticks, pc, interrupts, time, shown, history>>

(* ignore_int: before init_8259A() has masked it, an interrupt of the      *)
(* firmware ends the boot.                                                 *)
ignore_int ==
    /\ FirmwareInterrupts
    /\ interrupts
    /\ pc[1] \in {"print", "srand_my", "init_8259A"}
    /\ pc' = <<"ignore_int", 1>>
    /\ interrupts' = FALSE
    /\ Lasting
    /\ UNCHANGED <<clock, ticks, time, shown, seed, draws, drawn, history>>

Step == ReadField \/ TestSecond \/ PrintTime \/ srand_my \/ init_8259A \/ Draw

Next == Tick \/ Step \/ ignore_int

(* The processor goes on.                                                  *)
Spec == Init /\ [][Next]_vars /\ WF_vars(Step)

-----------------------------------------------------------------------------
(* Properties. *)

Reading == pc[1] = "get_time"

(* The registers hold BCD, the seed has 31 bits, interrupts stay disabled  *)
(* while the clock is read.  What the game relies on: whatever second the  *)
(* machine starts in, randrange(1, 100) yields a number from 1 to 100,     *)
(* also through the conversions between int and unsigned long              *)
(* (random.c:18).                                                          *)
TypeOK ==
    /\ clock \in Time
    /\ since \in 0 .. MinReads
    /\ ticks \in 0 .. MaxTicks
    /\ pc \in {"get_time"} \X (1 .. Len(Order) + 1)
             \cup {"print", "srand_my", "init_8259A", "game", "ignore_int"} \X {1}
    /\ interrupts \in BOOLEAN
    /\ Reading => ~interrupts
    /\ time \in [Field -> 0 .. Bcd(99)]
    /\ seed \in SeedType
    /\ draws \in 0 .. MaxDraws
    /\ drawn \in 1 .. 100
    /\ entered \in Time
    /\ left \in Time
    /\ passes \in 0 .. 3

(* What get_time() returns.  The seconds are those of the moment the loop  *)
(* ends.  So is all the rest unless a new minute began during the last     *)
(* pass: then the fields that were read before may be the old ones, and    *)
(* the loop, which only looks at the seconds, does not notice.             *)
TimeExplained ==
    ~Reading =>
        /\ time.second = Bcd(left.second)
        /\ \E n \in 0 .. Len(Order) - 1 : \A i \in DOMAIN Order :
               time[Order[i]] = Bcd((IF i <= n THEN entered ELSE left)[Order[i]])
        /\ entered.minute = left.minute =>
               \A f \in Field : time[f] = Bcd(left[f])

(* A tick makes the loop start again, but the next tick is more than a     *)
(* pass away: the loop ends after its second pass at the latest.           *)
TwoPasses == passes <= 2

BCD2BIN(value) == (value \div 16) * 10 + (value % 16)

(* The numbers in a text, as a reader takes them.                          *)
Numbers(text) ==
    LET DigitAt(i) == CHOOSE d \in 0 .. 9 : Small[d + 1] = text[i]
        n[i \in 0 .. Len(text)] ==
            IF i = 0 THEN <<>>
            ELSE IF text[i] \notin Digit THEN n[i - 1]
            ELSE IF i = 1 \/ text[i - 1] \notin Digit
            THEN Append(n[i - 1], DigitAt(i))
            ELSE [n[i - 1] EXCEPT ![Len(n[i - 1])] = 10 * @ + DigitAt(i)]
    IN  n[Len(text)]

(* The line on the screen can be read: hexadecimal digits of a number in   *)
(* BCD are its decimal digits, with the century in front of the year.  The *)
(* day is the exception: it is printed with %d (main.c:43), so from the    *)
(* tenth on the reader finds the BCD byte as a number.                     *)
LineReadable ==
    shown # <<>> =>
        Numbers(shown) = <<100 * BCD2BIN(time.century) + BCD2BIN(time.year),
                           BCD2BIN(time.month), time.day,
                           BCD2BIN(time.hour), BCD2BIN(time.minute),
                           BCD2BIN(time.second)>>

(* The game starts, unless an interrupt of the firmware ends the boot in   *)
(* ignore_int once get_time() has enabled interrupts (time.c:25).          *)
GameStarts == <>(pc[1] \in {"game", "ignore_int"})
=============================================================================
