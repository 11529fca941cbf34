-------------------------------- MODULE Trap --------------------------------
(***************************************************************************)
(* Exceptions: the gates of sys_vector_init(), the stubs of entry.S, the   *)
(* do_ functions of trap.c with what they print, and backtrace(), which    *)
(* do_divide_error() calls.  None of them returns to the program.          *)
(*                                                                         *)
(* The program that is interrupted is C code compiled with frame pointers, *)
(* on one of three stacks: the one of Start_Kernel(), the one of the       *)
(* thread init(), and the user stack on which the game runs.  A function   *)
(* is four addresses of text, an address of a stack is one word, and all   *)
(* words are numbers.  User memory lies below the stacks of the kernel;    *)
(* the text and the symbols of nm may lie anywhere.                        *)
(***************************************************************************)
EXTENDS Kallsyms, Format

CONSTANTS
    Calls,          \* pairs <<f, g>>: the function f calls g
    Locals,         \* of each function, the words of its local variables
    MaxDepth,       \* bound: functions on a stack
    ErrorCodes,     \* what the processor pushes for faults with a selector
    Junk,           \* words that memory may hold which nobody wrote
    UserText,       \* user_level_function() copied to 0x800000
    UserTop,        \* the end of the user stack
    BootTop,        \* the end of the stack of Start_Kernel()
    ThreadTop       \* the end of the one of init()

ASSUME TrapAssumption ==
    /\ UserText < UserTop /\ UserTop < BootTop /\ UserTop + 1 < ThreadTop
    /\ ErrorCodes \subseteq Nat /\ Junk \subseteq Nat
    /\ MaxDepth \in Nat \ {0}
    /\ \A f \in DOMAIN Locals : Locals[f] \in Nat

(* A code is 16 bits of a word; when bit 1 says that it names a vector     *)
(* and no selector, bit 2, which tells the tables of those, is 0.          *)
ASSUME CodesAssumption ==
    \A c \in ErrorCodes : c < 65536 /\ c % 8 \notin {6, 7}

VARIABLES
    level,          \* whose stack it is: "boot", "thread" or "user"
    chain,          \* history: the functions on it, the innermost last
    rsp, rbp,       \* of the program
    mem,            \* the words in use of the stack
    pc,             \* "program", "stub", "handler", "backtrace", "halted"
    vector, code,   \* what the processor raised, code 0 if it pushes none
    frame,          \* what was pushed for the exception, the top first
    called,         \* the function the stub called with
    error_code,     \* this second argument; the first one is frame
    report,         \* what it printed, without the backtrace
    ret_address,    \* of backtrace()
    bp,             \* the variable rbp of backtrace()
    lines,          \* how many lines it printed
    line,           \* the last one
    reads           \* history: the words it read last

program == <<level, chain, rsp, rbp, mem>>
trace   == <<ret_address, bp, lines, line, reads>>
vars == <<program, pc, vector, code, frame, called, error_code, report, trace>>

-----------------------------------------------------------------------------
(* The program. *)

Start(f) == IF f = "user_level_function" THEN UserText ELSE Address(f)
Site(f)  == Start(f) + 2        \* where its callees return to
Here(f)  == Start(f) + 3        \* another place in it
rip      == Here(Last(chain))

(* A place in a function of the kernel has a name, one in user memory has  *)
(* not; the game's first function is called by nobody.                     *)
Named == {"Start_Kernel", "init", "kernel_thread_func"} \cup DOMAIN Locals

ASSUME NamesAssumption ==
    /\ {UserText, UserTop, BootTop, ThreadTop} \subseteq Nat
    /\ "user_level_function" \notin DOMAIN Locals
    /\ \A place \in {Site("user_level_function"), Here("user_level_function")} :
          lookup_kallsyms(place) = <<>>
    /\ \A f \in Named :
          /\ Address(f) \in Nat
          /\ lookup_kallsyms(Site(f)) # <<>> /\ lookup_kallsyms(Here(f)) # <<>>

(* current->thread->rsp0 in a handler: it runs on the kernel's own stack   *)
(* if that was interrupted, else on the one of the TSS, which is init()'s. *)
StackTop == IF level = "boot" THEN BootTop ELSE ThreadTop

Top == IF level = "user" THEN UserTop ELSE StackTop

(* Only kernel_thread_func calls the first function of a stack; the other  *)
(* two are jumped to, with nothing above them and any rbp.                 *)
Init ==
    /\ \E junk \in Junk :
        \/ /\ level = "boot" /\ chain = <<"Start_Kernel">>
           /\ rsp = BootTop - 1
           /\ mem = [a \in {rsp} |-> junk]
        \/ /\ level = "user" /\ chain = <<"user_level_function">>
           /\ rsp = UserTop - 1
           /\ mem = [a \in {rsp} |-> junk]
        \/ /\ level = "thread" /\ chain = <<"init">>
           /\ rsp = ThreadTop - 2
           /\ mem = [a \in {rsp, rsp + 1} |->
                        IF a = rsp THEN 0 ELSE Site("kernel_thread_func")]
    /\ rbp = rsp
    /\ pc = "program"
    /\ vector = 0 /\ code = 0
    /\ frame = <<>> /\ called = 0 /\ error_code = 0 /\ report = <<>>
    /\ ret_address = 0 /\ bp = 0 /\ lines = 0 /\ line = <<>> /\ reads = {}

(* call; then push %rbp; mov %rsp,%rbp; sub $locals,%rsp.  That a stack    *)
(* overflows is left out.                                                  *)
Call(f) ==
    /\ pc = "program"
    /\ <<Last(chain), f>> \in Calls
    /\ Len(chain) < MaxDepth
    /\ 2 + Locals[f] < rsp
    /\ chain' = Append(chain, f)
    /\ rbp' = rsp - 2
    /\ rsp' = rsp - 2 - Locals[f]
    /\ mem' = [a \in DOMAIN mem \cup {rsp - 1, rsp - 2} |->
                  IF a = rsp - 1 THEN Site(Last(chain))
                  ELSE IF a = rsp - 2 THEN rbp ELSE mem[a]]
    /\ UNCHANGED <<level, pc, vector, code, frame, called, error_code, report,
                   trace>>

(* leave; ret                                                              *)
Return ==
    /\ pc = "program"
    /\ Len(chain) > 1
    /\ chain' = Front(chain)
    /\ rsp' = rbp + 2
    /\ rbp' = mem[rbp]
    /\ mem' = [a \in {x \in DOMAIN mem : x >= rbp + 2} |-> mem[a]]
    /\ UNCHANGED <<level, pc, vector, code, frame, called, error_code, report,
                   trace>>

-----------------------------------------------------------------------------
(* The way into the kernel. *)

pt_regs == <<"r15", "r14", "r13", "r12", "r11", "r10", "r9", "r8", "rbx",
             "rcx", "rdx", "rsi", "rdi", "rbp", "ds", "es", "rax",
             "func", "errcode", "rip", "cs", "rflags", "rsp", "ss">>

PushOrder == <<"rax", "es", "ds", "rbp", "rdi", "rsi", "rdx", "rcx", "rbx",
               "r8", "r9", "r10", "r11", "r12", "r13", "r14", "r15">>

OffsetOf(f) == CHOOSE i \in DOMAIN pt_regs : pt_regs[i] = f

(* What the registers of the program hold: each something of its own.      *)
Held(r) == CASE r = "rip" -> rip
             [] r = "rsp" -> rsp
             [] r = "rbp" -> rbp
             [] OTHER -> 1000 + OffsetOf(r)

Word(regs, f) == regs[OffsetOf(f)]

(* sys_vector_init(): the stub of each gate.  There is none for vector 15. *)
IDT_Table ==
    [v \in 0 .. 20 \ {15} |->
        <<"divide_error", "debug", "nmi", "int3", "overflow", "bounds",
          "undefined_opcode", "dev_not_available", "double_fault",
          "coprocessor_segment_overrun", "invalid_TSS", "segment_not_present",
          "stack_segment_fault", "general_protection", "page_fault", "none",
          "x87_FPU_error", "alignment_check", "machine_check",
          "SIMD_exception", "virtualization_exception">>[v + 1]]

(* The processor pushes a code for these.  The one of a double fault and   *)
(* of an alignment check is always 0, the one of a page fault has bits.    *)
WithCode == {8, 10, 11, 12, 13, 14, 17}
CodesOf(v) == IF v \in 10 .. 13 THEN ErrorCodes
              ELSE IF v = 14 THEN 0 .. 31 ELSE {0}

(* An exception in the middle of a function.                               *)
Raise(v) ==
    /\ pc = "program"
    /\ pc' = "stub"
    /\ vector' = v
    /\ code' \in CodesOf(v)
    /\ frame' = (IF v \in WithCode THEN <<code'>> ELSE <<>>)
                \o <<Held("rip"), Held("cs"), Held("rflags"), Held("rsp"),
                     Held("ss")>>
    /\ UNCHANGED <<program, called, error_code, report, trace>>

(* do_ functions are words too.                                            *)
Do(name) == 2000 + (CHOOSE v \in DOMAIN IDT_Table : IDT_Table[v] = name)

PushZero_Alignment ==       \* as if alignment_check were like its neighbours
    {v \in DOMAIN IDT_Table : v \notin WithCode} \cup {17}

(* The stubs that push $0 before they go to error_code.                    *)
PushZero == {0, 1, 3, 4, 5, 6, 7, 9, 16, 18, 19, 20}

(* A stub puts the address of its do_ function on the stack in exchange    *)
(* for rax; error_code saves the registers and calls it.  nmi pushes rax   *)
(* in the places of the code and the function and passes 0.                *)
Stub ==
    LET name  == IDT_Table[vector]
        head  == IF name = "nmi" THEN <<Held("rax"), Held("rax")>>
                 ELSE IF vector \in PushZero THEN <<Do(name), 0>>
                 ELSE <<Do(name)>>
        saved == Reverse([i \in DOMAIN PushOrder |-> Held(PushOrder[i])])
    IN  /\ pc = "stub"
        /\ pc' = "handler"
        /\ frame' = saved \o head \o frame
        /\ called' = IF name = "nmi" THEN Do(name) ELSE Word(frame', "func")
        /\ error_code' = IF name = "nmi" THEN 0 ELSE Word(frame', "errcode")
        /\ UNCHANGED <<program, vector, code, report, trace>>

-----------------------------------------------------------------------------
(* The functions of trap.c. *)

Bit(n, b) == (n \div b) % 2 = 1

(* What do_invalid_TSS(), do_segment_not_present(),                        *)
(* do_stack_segment_fault() and do_general_protection() say of the code.   *)
AboutSelector(c) ==
    (IF Bit(c, 1) THEN {"external"} ELSE {})
    \cup (IF Bit(c, 2) THEN {"IDT"} ELSE {"GDT or LDT"})
    \cup (IF Bit(c, 2) THEN {} ELSE IF Bit(c, 4) THEN {"LDT"} ELSE {"GDT"})

AboutPage_Fetch(c) ==       \* as if the test of 0x10 were a test of 0x01
    (IF Bit(c, 1) THEN {} ELSE {"not present"})
    \cup (IF Bit(c, 2) THEN {"write"} ELSE {"read"})
    \cup (IF Bit(c, 4) THEN {"user"} ELSE {"supervisor"})
    \cup (IF Bit(c, 8) THEN {"reserved bit"} ELSE {})
    \cup (IF Bit(c, 1) THEN {"instruction fetch"} ELSE {})

(* What do_page_fault() says of it.                                        *)
AboutPage(c) ==
    (IF Bit(c, 1) THEN {} ELSE {"not present"})
    \cup (IF Bit(c, 2) THEN {"write"} ELSE {"read"})
    \cup (IF Bit(c, 4) THEN {"user"} ELSE {"supervisor"})
    \cup (IF Bit(c, 8) THEN {"reserved bit"} ELSE {})
    \cup (IF Bit(c, 16) THEN {"instruction fetch"} ELSE {})

HexFormat == <<"%", "#", "0", "1", "8", "l", "x">>
IndexFormat == <<"%", "#", "0", "1", "0", "x">>
OffsetFormat == <<"%", "0", "4", "d">>

(* do_divide_error() only prints the code, then the backtrace.             *)
Handler ==
    LET v == called - 2000
        c == error_code
    IN  /\ pc = "handler"
        /\ report' =
              [vector |-> v,
               code  |-> vsprintf(HexFormat, <<c>>),
               rsp   |-> IF v = 0 THEN <<>>
                         ELSE vsprintf(HexFormat, <<Word(frame, "rsp")>>),
               rip   |-> IF v = 0 THEN <<>>
                         ELSE vsprintf(HexFormat, <<Word(frame, "rip")>>),
               about |-> CASE v \in 10 .. 13 -> AboutSelector(c)
                           [] v = 14 -> AboutPage(c)
                           [] OTHER -> {},
               index |-> IF v \in 10 .. 13
                         THEN vsprintf(IndexFormat, <<(c % 65536) - (c % 8)>>)
                         ELSE <<>>]
        /\ IF v = 0
             THEN /\ pc' = "backtrace"
                  /\ ret_address' = Word(frame, "rip")
                  /\ bp' = Word(frame, "rbp")
                  /\ UNCHANGED <<lines, line, reads>>
             ELSE pc' = "halted" /\ UNCHANGED trace
        /\ UNCHANGED <<program, vector, code, frame, called, error_code>>

(* What the word at address a may be.                                      *)
Contents(a) == IF a \in DOMAIN mem THEN {mem[a]} ELSE Junk

OffStack_Upper(b) == b > StackTop       \* as if the stack had no lower end

(* The test of rbp in backtrace().                                         *)
OffStack(b) == b < Word(frame, "rsp") \/ b > StackTop

Follow_RbpFirst ==          \* as if rbp moved on before ret_address is read
    /\ bp' \in Contents(bp)
    /\ ret_address' \in Contents(bp' + 1)
    /\ reads' = {bp, bp' + 1}

(* ret_address = *(rbp+1); rbp = *rbp                                      *)
Follow ==
    /\ ret_address' \in Contents(bp + 1)
    /\ bp' \in Contents(bp)
    /\ reads' = {bp, bp + 1}

(* A round of the loop of backtrace().                                     *)
Backtrace ==
    /\ pc = "backtrace"
    /\ LET found == lookup_kallsyms(ret_address)
       IN  IF found = <<>>
           THEN pc' = "halted" /\ UNCHANGED trace
           ELSE /\ lines' = lines + 1
                /\ line' = [found |-> found,
                            address |-> vsprintf(HexFormat, <<found[1]>>),
                            offset |-> vsprintf(OffsetFormat, <<found[2]>>)]
                /\ IF OffStack(bp)
                     THEN pc' = "halted" /\ UNCHANGED <<ret_address, bp, reads>>
                     ELSE /\ pc' = IF lines' = 10 THEN "halted" ELSE "backtrace"
                          /\ Follow
    /\ UNCHANGED <<program, vector, code, frame, called, error_code, report>>

Next ==
    \/ \E f \in DOMAIN Locals : Call(f)
    \/ Return
    \/ \E v \in DOMAIN IDT_Table : Raise(v)
    \/ Stub
    \/ Handler
    \/ Backtrace

Spec == Init /\ [][Next]_vars

-----------------------------------------------------------------------------
(* Properties. *)

(* The stack is a stack of frames, the counters are in their ranges.       *)
TypeOK ==
    /\ level \in {"boot", "thread", "user"}
    /\ Len(chain) \in 1 .. MaxDepth
    /\ rsp <= rbp /\ rbp < Top
    /\ {rbp} \subseteq DOMAIN mem /\ DOMAIN mem \subseteq rsp .. Top - 1
    /\ pc \in {"program", "stub", "handler", "backtrace", "halted"}
    /\ vector \in DOMAIN IDT_Table
    /\ code \in CodesOf(vector)
    /\ Len(frame) \in {0, 5, 6, Len(pt_regs)}
    /\ lines \in 0 .. 10
    /\ called \in {0} \cup {Do(IDT_Table[v]) : v \in DOMAIN IDT_Table}

(* The number in a text that vsprintf() made with the prefix 0x.           *)
Hex(text) ==
    LET n[i \in 2 .. Len(text)] ==
            IF i = 2 THEN 0
            ELSE 16 * n[i - 1] + (CHOOSE d \in 0 .. 15 : Small[d + 1] = text[i])
    IN  n[Len(text)]

(* What an exception prints is true.  Whether or not the processor pushes  *)
(* a code, the function of its vector finds the registers of the program   *)
(* in its pt_regs; the texts have their width and can be read back; and    *)
(* from the code that is reported, bit by bit, follows the one that was    *)
(* pushed.                                                                 *)
ReportFaithful ==
    report # <<>> =>
        /\ report.vector = vector
        /\ \A r \in {pt_regs[i] : i \in DOMAIN pt_regs} \ {"func", "errcode"} :
               Word(frame, r) = Held(r)
        /\ Len(report.code) = 18 /\ Hex(report.code) = code
        /\ vector # 0 => /\ Len(report.rsp) = 18 /\ Hex(report.rsp) = rsp
                         /\ Len(report.rip) = 18 /\ Hex(report.rip) = rip
        /\ vector \in 10 .. 13 =>
               /\ Len(report.index) = 10
               /\ code = Hex(report.index)
                         + (IF "external" \in report.about THEN 1 ELSE 0)
                         + (IF "IDT" \in report.about THEN 2 ELSE 0)
                         + (IF "LDT" \in report.about THEN 4 ELSE 0)
        /\ vector = 14 =>
               code = (IF "not present" \in report.about THEN 0 ELSE 1)
                      + (IF "write" \in report.about THEN 2 ELSE 0)
                      + (IF "user" \in report.about THEN 4 ELSE 0)
                      + (IF "reserved bit" \in report.about THEN 8 ELSE 0)
                      + (IF "instruction fetch" \in report.about THEN 16 ELSE 0)

(* Where the program is, where it returns to from there, and so on, as far *)
(* as that is text of the kernel.                                          *)
Callers ==
    LET n == Len(chain)
        places == <<rip>> \o [i \in 1 .. n - 1 |-> Site(chain[n - i])]
    IN  CASE level = "user"   -> SubSeq(places, 1, n - 1)
          [] level = "thread" -> Append(places, Site("kernel_thread_func"))
          [] level = "boot"   -> places

(* The backtrace shows the calls that lead to the division, the innermost  *)
(* first, without a gap, up to ten; it ends with the functions the kernel  *)
(* has names for.  Only on the stack of Start_Kernel(), which nobody       *)
(* called, a line that means nothing can follow.                           *)
BacktraceIsCallChain ==
    /\ lines \in 1 .. Len(Callers) => line.found[1] = Callers[lines]
    /\ lines > Len(Callers) => level = "boot"
    /\ pc = "halted" /\ vector = 0 =>
           lines >= (IF Len(Callers) < 10 THEN Len(Callers) ELSE 10)

(* Each line names the function: the first symbol nm gives for the last    *)
(* address that has one up to that of the line, and the distance to it;    *)
(* the address can be read back, the distance keeps to its four columns.   *)
NamesRight ==
    lines > 0 =>
        LET at == line.found[1]
        IN  /\ Address("_text") <= at /\ at < Address("_etext")
            /\ \E i \in DOMAIN table :
                  /\ table[i].symbol = line.found[3]
                  /\ table[i].address = at - line.found[2]
                  /\ \A j \in DOMAIN table :
                        /\ table[j].address <= at =>
                              table[j].address <= table[i].address
                        /\ j < i => table[j].address < table[i].address
            /\ Len(line.address) = 18 /\ Hex(line.address) = at
            /\ Len(line.offset) = 4

(* The walk reads frames of the program's stack and no others.  From       *)
(* Start_Kernel() on it may read the two words above that stack: rbp is    *)
(* compared with rsp0 before 8 is added to it.                             *)
ReadsNearStack ==
    reads \subseteq rsp .. (IF level = "boot" THEN Top + 1 ELSE Top - 1)
=============================================================================
