# A verification project for the mini game console kernel

The repository is a 64-bit kernel for one processor (`kernel/`, C and assembly)
that boots from UEFI, sets up interrupts, memory and one task, enters privilege
level 3 and there runs a game that polls the keyboard. This directory holds TLA+
models of its parts, the TLC configurations that check them, and proofs for TLAPS.

To check a module: `tlc -config Keyboard.cfg Keyboard.tla` (or any other pair of the
table of runs). The module of a run is the MC module where there is one
(`MCClock`, `MCKernel`, `MCMemory`, `MCTrap`). To check proofs: `tlapm Keyboard_proofs.tla`.

## The system

| part | state | operations | meets others through |
|---|---|---|---|
| keyboard mailbox (`8259A.c`, `keyword.h`, `game.c`) | `game_select_start`, `currentword`, `select_on` | `do_IRQ`, `getkey`, the polling loops | the interrupt; no lock, no `cli` |
| menu and screens (`game.c`, `kill_the_monster.c`) | the player, three monsters, two bosses, `round`, `battle_result`, `menu` | `game`, `choosing_game`, `kill_the_monster`, eight functions that raise abilities | keys from the mailbox, `battle`, `randrange`, `print` |
| battle (`kill_the_monster.c`) | two hit point counters | `battle` | called by the screens |
| console (`print.c`, `clear_screen.c`) | the cursor `Pos`, `buf`, the frame buffer | `print`, `vsprintf`, `putchar`, `clear_screen` | called from everywhere, traps included |
| memory manager (`memory.c`) | bit map, `pages_struct`, `zones_struct`, the E820 table | `init_memory`, `alloc_pages`, `page_init`, `page_clean` | `do_fork` takes one page |
| boot and tasks (`main.c`, `task.c`, `task.h`, `entry.S`) | stacks, registers, `task_struct`s on a ring, the TSS | `init_8259A`, `task_init`, `do_fork`, `switch_to`, `kernel_thread_func`, `init`, `do_execve`, `ret_system_call` | the processor; interrupts anywhere |
| interrupts (`interrupt.c`, `8259A.c`, `entry.S`, `gate.h`) | the frame on the IST stack, IDT | `SAVE_ALL`, `RESTORE_ALL`, `do_IRQ` | interrupts whatever runs |
| traps (`trap.c`, `entry.S`) | `pt_regs` of the fault, the chain of frames | the stubs, `error_code`, twenty `do_` functions, `backtrace` | reads the stack and the kernel symbols, prints, halts |
| kernel symbols (`kallsyms.c`, `trap.c`) | three tables | the build tool, `lookup_kallsyms` | built from `nm`, read by `backtrace` |
| clock, random numbers (`time.c`, `random.c`) | CMOS registers, `seed` | `get_time`, `get_second_now`, `srand_my`, `rand_my`, `randrange` | called at boot and by the game |
| system calls (`sys.c`, `syscalls.c`) | a table | `system_call` | nothing executes `sysenter` |
| spin lock (`spinlock.h`) | one word | lock, unlock, trylock | not included anywhere |
| boot code and build (`head.S`, `Kernel.lds`, `Makefile`) | the IDT, full of `ignore_int` | straight-line set-up | runs before `Start_Kernel` |

What is hard in it: one interrupt handler shares three plain globals with loops
that poll; the interrupt also falls into code that has the stack pointer of one
task and the registers of another, or that pops a frame; `init()` rewrites the
very stack it runs on; the allocator keeps three tables that have to agree; the
tab of `print()` jumps into the middle of its loop and takes the loop counter
back; the state of the game lives in globals that outlast a game; the clock ticks
while it is read; a backtrace trusts a chain of frame pointers on three kinds of
stack; tables that a build tool makes in three loops must not slip against each
other. There is no persistence, no second processor, no message and no timer, so
there is nothing to say about crashes, lost messages or timeouts. `PROJECT.json` lists the hazards
with the line where each bites and the properties aimed at it.

What makes the parts correct: the mailbox loses keys but invents, repeats and
reorders none; the game ends by its rules and the abilities it feeds to
`battle()` are in the range `battle()` is right for; the console stays in the
frame buffer and returns; no page is handed out twice and the three tables agree;
an interrupt leaves no trace; the machine reaches the game with the right stack,
segments and flags; the time shown is explained by what the clock showed; what an
exception prints is true, and the backtrace is the chain of calls.

## The modules

**KeyChannel** is the abstract mailbox: it holds at most one key, a typed key is
taken or refused, a waiting key may be replaced or lost, a read empties it.

**Keyboard** is the code. `KeyIRQ` is `do_IRQ` (one step: its gate clears IF).
A pass of a polling loop is a chain of actions, one for each access to a shared
global: `OpenMailbox`, `TestSelectOn`, then inside `getkey()` `EnterGetkey`,
`ClearSelectOn`, `ReadWord`, `ZeroWord`; the switch is `AcceptKey` or `IgnoreKey`,
and `busy` stands for whatever a screen does before it, or another one, polls
again. The loop of the boss battle does not test `select_on`;
`getkey()` then runs off its end, and returns the 0 still in the register in the
unoptimised build the `Makefile` makes. Scan codes are keystroke numbers: the
code copies them and the games compare them only for equality. Release codes
are keystrokes too: the handler does not tell them apart. `screen` is the screen
whose loop polls; an accepted key enters one that may follow it. `visit` counts the
screens and `typedIn` remembers in which visit a key was typed, so that a key can be
seen to act on a screen that was not there yet.

**Screens** is the order of the screens by itself: `Follows` is the set of screens a key may
lead to. It stands between two modules: Keyboard instantiates it for what the games
do with a key, and KillTheMonster is shown to implement it, so that Keyboard assumes
nothing of the games that their code does not do.

**BattleRule** states who wins in one formula (how many blows each needs);
**Battle** is `battle()` blow by blow. **KillTheMonster** is the menu and the
game, one action per branch of each screen's switch, with `battle()` as one step
whose result is the rule (Battle shows that it is). The eight functions that
raise abilities are operators that yield the set of possible results.

**Console** is `print()` after the formatting: one action per iteration, a
character being one of the four classes the loop tells apart, `putchar()` the cell
it paints. `Tab` and `TabGoesOn` are the first and the further passes through
`Label_tab`.

**Format** is the formatting before it: `number()` and `vsprintf()` as functions from a
format and its arguments to a text. Digits come from a recursive function, the pass over
the format from another; `Directive` reads flags, width, precision and qualifier of one
conversion. An integer without `l` is fetched as an unsigned int (`% UINT`) whatever its
conversion, which is what the code does for `%d` too.

**Random** is `random.c` on the 31 bits of the seed that ever reach a number, in two
halves, so that TLC's integers hold every product.

**Clock** is the first part of `Start_Kernel()`: `ReadField` is one access of a pass of
`get_time()`, `TestSecond` the condition of its loop with the `sti()` behind it, then the line
`print()` makes of the time, the seed `srand_my()` takes from the seconds and the draws of the
game. `Tick` moves the clock to the next second between any two of them, at least
`MinReads` reads after the last tick. `ignore_int` is the interrupt of the firmware that
`get_time()` lets in before `init_8259A()` has set vectors and mask. **MCClock** has the moments to start at.

**Kallsyms** is the build tool and the search in the tables it builds. `Written` is the
list of symbols that all three loops of `write_src()` agree on, `kallsyms_names` the name found at
a position of the string of names, `kallsyms_addresses` has the word that lies behind the
last address in memory, since the search compares with it.

**Trap** is an exception from the fault to the halt. The program that faults is C code with
frame pointers: `Call` and `Return` build and take down its frames on one of
three stacks (of `Start_Kernel()`, which nobody called; of `init()`, called by
`kernel_thread_func`; of the game, on a user stack below those of the kernel). `StackTop` is
the `rsp0` that `backtrace()` reads through `current`: that of the stack the handler runs on,
which is the interrupted one in the kernel and the one of the TSS, `init()`'s, in the game. `Raise` is what the
processor pushes, with or without a code; `Stub` what the stub of that vector and
`error_code` (or `nmi`) add to make a `pt_regs`; `Handler` the `do_` function, which says what the
bits of the code mean; `Backtrace` a round of the loop of `backtrace()` with the search of the
symbol, the test of the frame pointer and the two reads (`Follow`). A word of the stack
nobody wrote is any of `Junk`. **MCTrap** has a small kernel: its symbols and its call graph.

**PageOwners** is what the memory manager promises: pages have a number of users; a run of
usable pages without users, none of them the kernel's, is handed out and has one user
each; a page in use may be joined and left.

**Memory** is `memory.c` on three functions (bits, pages, zones) with the width of
a word, the size of a page and the E820 tables it may find as constants; **MCMemory** has
tables for TLC. A zone is named by the entry of the table it was made for, and a page
remembers its zone that way, as the pointer in `struct Page` does. `Searched` are the zones
that `alloc_pages()` goes through for a `zone_select`: the first one for `ZONE_DMA` and
`ZONE_NORMAL`, whose indices are always 0; for `ZONE_UNMAPED` the one that begins at 0x100000000 and
those behind it, or all if none begins there; none for any other value. `ZoneSelects` are the
values its callers pass; the program has one caller, `do_fork()`, which passes `ZONE_NORMAL`. A page that
no zone has (`Charged`) has a NULL `zone_struct`, through which `page_init()` writes: the phase is "astray"
then, and nothing after it is modelled. What `alloc_pages()` does
with its pages one after the other is one operator on the three tables and a set of pages
(`UsersCome`): the pages differ, so the order makes no difference. The search of `alloc_pages()` is translated with its window over two
words, the reading of the word behind the map (as zeros) and `page = j + k - 1`.
The shift by 64, undefined in C, leaves the word as it is, as the x86 instruction
does. `Share` stands for a caller of `page_init()` on a page in use; the program has
no caller of it or of `page_clean()` yet, so `Memory` states what the interface
does for callers that own the page. It implements PageOwners on tables that fit: the users
of a page are its `reference_count`, the usable pages those of the zones, `init_memory` is
`Settle`, `alloc_pages` is `HandOut`, `Share` and `Clean` are `Join` and `Leave`. PageOwners
knows no bit map and no attribute, so the refinement says that what the search finds by its
bits is free, and that the branches of `page_init()` and `page_clean()`, which go by the
attribute, add and take exactly one user.

**Kernel** is the way from `Start_Kernel()` to the game. A stack is a function
from the distance to its top to a word; registers, `rsp` and `pc` hold pairs.
Assembly in which the stack or the registers change hands is split into its
instructions (`PushRbpRax` ... `PushRip`, each `Pop`), C functions are one action
and leave junk in the registers they need not keep; `init` also leaves it in the
memory its frame takes. `KeyInterrupt` is `SAVE_ALL`, `RESTORE_ALL` the way back, and
either may fall between any two other steps once `init_8259A` has run. The copied
task's `fs` is whatever its page held, so `__switch_to` may raise the general
protection fault, whose handler halts. Every entry of the IST has the same address
(`task.h:160`), which lies in the stack of `init()`: `DeliveredOn` puts the frame of an interrupt
there, `IstAt` words below the top, 128 in the program, where that stack is in page 0, the first
page handed out. The selectors `fs` and `gs` are not part of the machine that is
interrupted: no entry code saves or changes them. Constants are `Depth`, the words of a stack,
`IstAt` (two frames and a return address at least), `InUse`, what `Start_Kernel()` and the functions it
called have on the first one, and `GameRegs`, what the game may leave in its registers;
**MCKernel** has two such games.

## The runs

| run | checks | shows |
|---|---|---|
| Keyboard | `InOrderOnce`, `NeverOutrun`, `OneScreenLate`, `WaitingKeyReturned`, `ImplementsChannel` | The mailbox without a lock keeps order and repeats nothing; a key acts on the screen it was typed on or the next one; a key that waits is returned or replaced, and only one stored between the copy and the zeroing of `currentword` is lost |
| Battle | `ResultIsRule`, `Terminates` | `battle()` computes the rule and ends |
| KillTheMonster | `BossAfterAllRounds`, `BattleArguments`, `NoneWeakens`, `ImplementsScreens` | The order of rounds and boss; the screens follow each other as Keyboard takes them to; a second game starts afresh; abilities go to their owners, except for the warrior monster |
| KillTheMonster_career (violation) | `WarriorMonsterIsWarrior` | Line 165 makes the warrior monster a copy of the magician monster |
| KillTheMonster_exit (violation) | `ExitKeyLeaves` | Key b does not leave the boss battle |
| Memory | `NoDoubleAllocation`, `BitmapAgrees`, `CountersAgree`, `ImplementsOwners` | Right for every `zone_select` as long as the zones it reaches start one page into a word of the bit map and stay in it; the bit of a page that was shared is never cleared; the three tables implement a count of users |
| Memory_double (violation) | `NoDoubleAllocation` | In a second word the page before the free run is handed out |
| Memory_layout (violation) | `TablesDisjoint` | With the E820 table as the program finds it, empty, the three tables coincide |
| Console | `InFrameBuffer`, `EachPaintedOnce`, `TabReachesStop`, `PrintReturns` | Cursor arithmetic, tab jump and termination of `print()` |
| Kernel | `KeepsMemory`, `StackDiscipline`, `GameEntered`, `Transparent`, `Boots` | The interrupt leaves no trace wherever it falls; the machine gets to the game (or halts in the handler of the fault) |
| Clock | `TimeExplained`, `TwoPasses`, `LineReadable`, `GameStarts` | The time returned is that of the end of the loop, except for fields from before a minute that turned during the last pass; the loop ends after two passes; the line reads back to the time, but for the day; the game starts unless `ignore_int` stops the boot |
| Trap | `ReportFaithful`, `BacktraceIsCallChain`, `NamesRight`, `ReadsNearStack` | Every handler reports the registers and the code of its fault; the backtrace shows the calls without a gap and stays on the stack of the program; each line has the name and offset of its address |

Each passing run also checks its module's `TypeOK`; that of Clock says too that every
`randrange(1, 100)` of the game is from 1 to 100.

Three properties state what the code does where that is not what one would wish,
so that nobody relies on more. `get_time()` reads everything again until the *seconds* are the
same at both ends of a pass, so a minute that turns after the minutes were read and
before the seconds are is not noticed: `TimeExplained` allows exactly the fields read
before the turn to be old. The registers hold BCD and the line prints all of it with
`%x` but the day, with `%d` (`main.c:43`): `LineReadable` has the BCD byte there. A
backtrace from `Start_Kernel()` goes one step above the first frame, because
nobody called that function and `rbp` is compared before 8 is added:
`BacktraceIsCallChain` and `ReadsNearStack` allow that step on this stack alone.

**Bounds.** *Keyboard*: `MaxKeys = 5` interrupts; one pass has six accesses and a
property involves at most three keys (one being read, one that lands inside
`getkey()`, one that replaces it), so five cover two passes in a row that are hit.
*Battle*: abilities up to 4 include both shortcuts, death by exact zero and by
overshoot, and fights of several rounds. *KillTheMonster*: two rounds instead of ten
give a round that is followed by another and one followed by the boss; two of the
hundred values of a draw reach different branches of each of the eight functions
and both sides of `ex_plus > 50`; several games follow one another. *Memory*: words of
8 bits instead of 64; one zone of 5 pages, or two or three of 2 pages in a word each; the search
for `ZONE_UNMAPED` begins at the third zone where there is one, and else goes through them all, to the
next one when a zone has too few pages left; all four kinds of `zone_select`, two users of a page and one more, requests for up to three
pages. The zones that the search is wrong for are the three tables of `MCMemory` that do not fit; each
breaks `NoDoubleAllocation` when it is the value of `E820Maps` in `Memory_double.cfg`, which has the
first of them: `TwoWords`, a zone that goes on into a second word; `SameWord`, a zone that begins in
the word of another (a page in use is handed out again and again); `NewWord`, one that begins with
a word, as the zone at 0x100000000 does (the page before it is handed out, which no zone has).
*Console*: 10 columns and 2 rows of cells on 83 x 35 pixels; 10 is no multiple of
8, so tabs cross the end of rows, the bottom wraps, and the pixels left over are
where a wrong cell would show; three characters per call and any number of calls
reach every cursor position with every pair of neighbours. *Clock*: five moments to
start at (the second before a leap day ends, before a century, before a minute in the
middle of an hour, and two where no field but the seconds moves), `MinReads = 9` reads between
ticks, one more than a pass has, which is the tightest spacing under which the code
can end in two passes (real hardware fits thousands), three ticks, two of which can fall
into `get_time()`, and 40 draws from each seed; unsigned ints have 16 bits, more
than any number printed. *Trap*: functions are four addresses of text and
the call graph reaches depth 12, more than the ten lines of a backtrace; the codes have
each bit set and clear, the page fault all 32 of its codes; junk is 0, an address of text and
addresses around the end of the stack. One symbol has two names, two lie outside of the
text, one line of `nm` cannot be read. *Kernel*:
stacks of 154 words with the IST at 128 of them, as in the program, 4 in use at the start, and two
games; nothing in the code depends on more, which the proofs confirm for any depth and any
`IstAt` from 49 words on.

**Deadlock** is checked except where the code really stops: `battle()` returns, and
the memory model ends when no page is left and every user of a shared page has
been counted (`MaxReferences`), `ignore_int` loops for good and the numbers drawn are
bounded (`MaxDraws`), and every handler of an exception halts.

**Fairness.** *Keyboard*: weak fairness of the game's steps; there is one process and
interrupts return, and nobody has to type. *Battle*, *Console*: sequential code takes
its next step; nobody has to call it again. *Kernel*: `SF(Step)` says the interrupted
code goes on although interrupts take the processor away again and again, because
keys come slower than instructions run; weak fairness would not do, since
`Step` is not enabled inside the handler. `WF(Handler)`: the handler has no loop.
*Clock*: the processor goes on; the clock need not tick.

## What is proved

Each `_proofs` module states its theorems for every value of the constants. Every invariant
and every action property of the runs that expect no violation is a theorem, and so are the three
refinements; liveness is not.

*Keyboard_proofs*. `TypeCorrect`. `NeverOutrunCorrect` needs `PassInv`: while
`getkey()` is about to clear `select_on` it is still 1, and each return of a key,
plus the one under way, is paid by a stored key. `InOrderOnceCorrect` needs
`OrderInv`, which relates every key returned to what is still in `currentword` and
to the last key stored. `ChannelImplemented` maps each step of the code to a step of
KeyChannel or a stutter; the copy in `ReadWord` is the abstract read, so between
copy and zeroing the word no longer counts as waiting. `OneScreenLateCorrect` needs
`LateInv`: a key in `currentword`, or taken out of it and about to act, was typed in this
visit or in the one before; when a key is about to act, one that is again in
`currentword` came after the zeroing and was typed in this visit.
Assumption: `MaxKeys \in Nat`.

*Battle_proofs*. The loop invariant `LoopInv` counts the full rounds: hit points
are initial ones minus so many blows, with one blow more by the player when it
is the monster's turn. With monotonicity of products `ResultCorrect` follows. `TypeCorrect`
is the absence of int overflow, for `MaxStat <= 2147483647`. `EveryBlowHurts` is why the loop
ends: both fighters stand, and each blow makes the sum of their hit points smaller.

*KillTheMonster_proofs*. `Grown(a, b, k)` says b keeps a's career and exceeds each
ability by 0 to k; lemmas give it for each of the eight functions, `FightSteps` for the
three fights. The inductive invariant adds `GrowthInv`: after `wins` rounds everyone is within
4 * wins of the start, the magician monster within a smaller one, since the warrior
monster may be made from it after it has grown. From it `BossAfterAllRoundsCorrect`,
`BattleArgumentsCorrect` and `NoneWeakensCorrect`, for every number of rounds and every
set of draws from 1 .. 100. `ScreensImplemented` maps each action to a step of Screens or
a stutter.

*Clock_proofs*. `ReadInv` says of every point of a pass (`Progress`: after so many reads)
which registers are those of `entered`, which those of now, and that at most one tick
fell into it, by counting reads since the last tick; `SuccessorFields` says which
fields a tick can change. From these `TimeExplainedCorrect`, `TwoPassesCorrect`; the product
of the seed with a constant is bounded in `Halves`, which gives `DrawsInRangeCorrect`.
`LineReadableCorrect` needs `ShownInv`: `struct time` is in BCD at every moment, also while
`get_time()` is between two of its fields, and no step writes it once the line is there. The
line itself is `LineText`: for any time in BCD the numbers read off `vsprintf()`'s text are
those of the time, the day being its byte. Under it, `TextsExist` and `PassesExist` show that the
recursions of `vsprintf()` and `number()` define functions, `PlainDirective` what a `%` of this
line asks for, `DigitsOf` what the digits are, `ReadsMore` that a text behind the last
digit is read for itself, and `FieldAdds`, `PartAdds` add the six fields one after the other.
Assumptions: `MinReads >= 9`, that the clock starts at a day of the calendar, and
`UintAssumption` (an unsigned int has 16 bits at least, as C demands).

*Console_proofs*. The inductive invariant is `TypeOK`, that the last cell painted is
on the screen, that no more is painted than taken, and `TabReachesStop`.
`CellInFrameBuffer` turns cells into pixels: columns times width fit the screen
although the division rounds. `EachPaintedOnceCorrect` adds the count of the printable
characters taken, to which `OneMore` adds one at a time. `LoopShrinks` is why the loop ends:
with `Ahead`, eight times the characters to come plus the blanks still due, every iteration
makes a natural number smaller. For every resolution that holds a character and every text.

*Trap_proofs*. The inductive invariant has three parts. `Stack(fp)`: fp[k] is where the
k-th function of the chain saved rbp; the fp descend by at least two words, each holds
the one before it, and above it lies the place to return to. `FrameInv`: what was pushed
so far is what the vector demands; `Stacked` and `StubFrame` show that the two ways in which
the stubs fill the places of code and function end in the same layout. `Walk(fp)`: before
line i is printed, `ret_address` and rbp of `backtrace()` are those of the i-th function
from the inside. From these `TypeCorrect`, `BacktraceIsCallChainCorrect`,
`ReadsNearStackCorrect` and `RegistersSavedCorrect`, for every call graph, all sizes
of locals, any depth and any error codes. The witness fp is chosen anew by each call and
return, so it is quantified in the invariant and needs no history variable.

What is printed needs `PrintInv` besides: the report is that of the vector, the code, `rsp` and
`rip` (`ReportOf`), which do not change any more, and each line is that of an address with a
name (`Shown`). Three theorems on `vsprintf()` say that the texts can be read back: `HexText`
(`%#018lx` of a word of 64 bits), `IndexText` (`%#010x` of 16 bits), `OffsetText` (`%04d` below
10000 has four characters). `LookupNearest` says that `lookup_kallsyms()` finds the first
symbol at the last address up to the one looked for, for every sorted output of `nm`: `TableKept`
is `read_map()`, `WrittenEntries` that `write_src()` writes each address of the text once, with
the first of its symbols, `Positions` that no two names start at one place. With these, `ReportFaithfulCorrect` and
`NamesRightCorrect`. Both need that addresses are words of 64 bits (`AddressesAreWords`), the
second one also that neighbouring symbols of the text are at most 10000 bytes apart, since a
larger distance takes a fifth digit. The largest distance in the kernel is 4096 bytes, an `.org` of
`head.S`, the largest function takes 2645. Both are hypotheses of the theorems and not
assumptions of the module, the first because TLC's numbers have 32 bits.
Assumptions: `NamesAssumption` (the kernel's functions are found by `lookup_kallsyms()`, what
was copied to user memory is not), `TrapAssumption` (user memory below the stacks of the kernel; nothing is assumed of the text, which lies
above the stack of `init()` and below that of `Start_Kernel()`, nor of the symbols of `nm`, some of
which are small numbers), `CodesAssumption` (a code is 16 bits, and one with the bit for the IDT has not the
one for the LDT, as the processor makes them), `NmAssumption` (the output of `nm` is sorted, and
`_text` and `_etext` are in it and readable) and `UintAssumption`.

*Memory_proofs*. `NeverHandedOutTwice`, `BitmapRight`, `CountersRight` and
`CountsInRange` (`TypeOK`) for words of any width, pages of any size, any number of users and every table in
`E820Maps`, under the hypothesis `Fitting`: a table whose three structures get addresses of
their own (`TablesApart`) also satisfies `Fits`. That is: the zones lie apart and within memory,
the first one begins at page 1, with room for the kernel, and each zone that the callers'
`ZoneSelects` may reach is `WithinWord`: it begins one page into a word of the bit map and ends
in it, and no free run goes from there on into the next word. Only such a zone does the search
read from the right bit. For callers of `ZONE_NORMAL` alone, as the program has, the first zone is
the only one, and a PC whose memory has a hole from the 128th megabyte or before is such a machine. For
callers of `ZONE_UNMAPED` the hypothesis is narrow: the zone at 0x100000000 begins with a word, so
that no machine that has one satisfies it. TLC evaluates that the tables of the run
Memory do (`FitAssumption`). Outside of it there are tables for which the theorems are
false: `TwoWords`, `SameWord` and `NewWord` of `MCMemory`. The inductive invariant `Inv` says of the tables
(`Booked`) what each word of them is worth: which page is charged to which zone (page 0, the
kernel's, to the first, whose it is not), that a used page is owned or the kernel's, and
what a bit then is; its counters are cardinalities of sets of pages. The difficult step is
`alloc_pages()`: that the window over two words, the shift by 64 and `page = j + k - 1`
together find a free run of the word of the zone, whatever lies behind it. Lemmas speak of a value
of the three tables, so that `page_init()` and `page_clean()` are reasoned about once and used by
every action. `OwnersImplemented` is the refinement of PageOwners, under the same hypothesis:
`RunUsers`, `UserJoined` and `UserGone` turn what is known of the tables after `page_init()` and
`page_clean()` into the counts of all pages. A least element of a set of numbers (`LeastNat`), which the search and the
`CHOOSE`s need, comes from the well-foundedness of inclusion.

*Kernel_proofs*. The inductive invariant `Inv` says for every label what the stack pointer is
and what lies where the code will look for it (`Starting`, `Switching`, `Failing`,
`Threading`, `Executing`, `Returning`, `Playing`): for instance that after n `popq` of
`ret_system_call` the words of `rip` and `rsp` of the game are in their places of the frame or
already in r10 and r11. It is stated of a machine `m`, so that it holds of the processor
outside of the handler and of `interrupted.machine` inside of it; there `Frame` says that
the words from the IST on (`IstWords`) bring `m` back, and `AloneAbove` that those above it are as
before. `RunsAbove` is why that is enough: whatever the code will look for lies above the IST. `SavedFacts` shows that what
the processor, `SAVE_ALL` and the stub push makes this frame, `Restored` that the `popq` and
`iretq` take from it what it is meant for, since `PopOrder` is `PushOrder` reversed
(`Orders`). From these `InterruptTransparent` (an action property), `MemoryKept`,
`StacksInOrder`, `OnlyGameAtUserLevel` and `StaysInStack` (`TypeOK`). `NeverBack` is why the machine
arrives: each step of the code leaves fewer steps (`Ahead`) to the game or the fault, and the
interrupt returns to where it came from. Assumption: `KernelAssumption`, the room on
the stacks.

Induction over data. Texts and tables come out of recursive functions, and the induction
theorems of the library take an operator, which the provers cannot instantiate. Where induction
is needed it is over a set instead: `LeastNat` gets a least element from the well-foundedness of
inclusion on finite sets, `SetInduction` makes induction over `0 .. N` of it, and `Iteration`
(`PassesExist`, `TextsExist`) the function a recursion defines. Clock_proofs and
Trap_proofs each have the lemmas on `vsprintf()` that they need, for their own formats.

Only model-checked: `WaitingKeyReturned`, `Terminates`, `PrintReturns`, `Boots` and
`GameStarts`, liveness under fairness and outside of TLAPS. Of three of them the measure that
decreases is proved (`EveryBlowHurts`, `LoopShrinks`, `NeverBack`), of `GameStarts` that the
loop ends after two passes (`TwoPassesCorrect`).

## What is not modelled, and assumptions

- C functions are one step in Kernel. An interrupt inside of one finds other words on the stack,
  of which `KeepsMemory` says that they are safe as long as the stack of `init()` is no deeper
  than the IST, 128 words. Whether the frames of `init()` and of what it calls reach it
  depends on the compiler (the unoptimised build leaves about a hundred bytes).
- With overlapping tables nothing after `init_memory()` is modelled: each write lands in
  another table's bytes.
- The processor is taken to see a register of the clock between updates, never in
  one; the code does not look at the flag that tells (bit 7 of register A).
- The stack of Trap belongs to code with frame pointers, as the `Makefile` compiles it,
  and does not overflow. The header lines of `backtrace()` are left out, and
  `fscanf()` of the build tool is taken to read every name whole.
- `%n` and widths given by `*` in `vsprintf()`: no format of the kernel has them.
- System calls: `system_call` and its table are reached by `sysenter`, which
  no code executes. Spin locks: no file includes `spinlock.h`. The unused list and
  string functions of `lib.h`.
- Page tables and the rest of `head.S`, glyphs (`font.h` is data), wording.
- Two hazards have no property: what `fs` of the new thread holds (`task.c:186`) and whether an
  interrupt of the firmware is pending at the first `sti()` (`time.c:25`). Both outcomes are in the
  models; nothing in the repository says which one to expect, so `Boots` and `GameStarts` accept
  the halt they lead to and would not catch either. That `do_fork()` does not test the page it gets
  is no hazard of this program: its only call is always served.

## Plan

Order: what interrupts can break first, then what only particular inputs break.

1. Done: Keyboard with KeyChannel and Screens, Battle, KillTheMonster, Memory with PageOwners,
   Console, Kernel, Clock with Random and Format, Trap with Kallsyms, and the proofs above.
2. *SpinLock* on several processors (mutual exclusion, and what `decq` on a held lock
   does to the word), last, as nothing uses it.
