-------------------------------- MODULE Kernel --------------------------------
(***************************************************************************)
(* How the processor gets from Start_Kernel() to the game, and what an     *)
(* interrupt does on the way: init_8259A(), task_init(), kernel_thread(),  *)
(* do_fork(), switch_to(), kernel_thread_func, init(), do_execve(),        *)
(* ret_system_call, the entry and the exit of an interrupt (interrupt.c,   *)
(* entry.S) and the one exception these steps can raise.                   *)
(*                                                                         *)
(* The keyboard interrupt may fall between any two steps.  Assembly code   *)
(* in which the stack pointer or the registers of a task are under way is  *)
(* split into its instructions.  C code is one step: the interrupt touches *)
(* nothing of what it works on, which is what KeepsMemory and Transparent  *)
(* say, as long as init() stays within the first IstAt words of its stack. *)
(* The entry and the exit of the interrupt run with interrupts disabled    *)
(* and are one step each.                                                  *)
(*                                                                         *)
(* A word of memory or a register holds a pair; a stack is a function from *)
(* the distance to its top, in words, so that rsp = <<s, n>> is the stack  *)
(* s with n words on it.  What C code leaves behind in registers and below *)
(* or above its frame is "junk".                                           *)
(***************************************************************************)
EXTENDS Integers, Sequences, SequencesExt

CONSTANTS
    Depth,      \* words of a stack
    IstAt,      \* words of init()'s stack above the address in every IST
    InUse,      \* words of the first task's stack before init_8259A()
    GameRegs    \* what the game may compute in the registers

Task == {"boot", "init"}            \* init_task_union and the forked task

Junk == <<"junk", "junk">>
KERNEL_DS == <<"segment", "kernel">>

(* struct pt_regs, from the lowest address.                                *)
pt_regs == <<"r15", "r14", "r13", "r12", "r11", "r10", "r9", "r8", "rbx",
             "rcx", "rdx", "rsi", "rdi", "rbp", "ds", "es", "rax",
             "func", "errcode", "rip", "cs", "rflags", "rsp", "ss">>

(* The registers in the order of the popq of RESTORE_ALL,                  *)
(* kernel_thread_func and ret_system_call.                                 *)
PopOrder == <<"r15", "r14", "r13", "r12", "r11", "r10", "r9", "r8", "rbx",
              "rcx", "rdx", "rsi", "rdi", "rbp", "ds", "es", "rax">>

(* The registers in the order of the pushq of SAVE_ALL and error_code.     *)
PushOrder == <<"rax", "es", "ds", "rbp", "rdi", "rsi", "rdx", "rcx", "rbx",
               "r8", "r9", "r10", "r11", "r12", "r13", "r14", "r15">>

(* Above the IST there is room for the frame of a thread, a return address *)
(* and the frame of an exception, below it for what the handler needs; the *)
(* first task calls C functions and pushes two words.                      *)
ASSUME KernelAssumption ==
    /\ Depth \in Nat /\ IstAt \in Nat
    /\ 2 * Len(pt_regs) + 1 <= IstAt /\ IstAt + Len(pt_regs) + 2 <= Depth
    /\ InUse \in Nat \ {0} /\ InUse + 2 <= Depth

Reg     == Range(PopOrder)
Scratch == {"rax", "rcx", "rdx", "rsi", "rdi", "r8", "r9", "r10", "r11"}

VARIABLES
    pc,             \* <<label of the code, registers popped there so far>>
    rsp,
    regs,
    user,           \* TRUE at privilege level 3
    interrupts,     \* the flag IF
    unmasked,       \* the 8259A lets the keyboard through
    mem,            \* the stacks
    task,           \* of each task: pid, state, thread_struct and list
    tss_rsp0,       \* the stack the TSS holds for level 0
    interrupted     \* history: the machine when the last interrupt came

machine == <<pc, rsp, regs, user, interrupts>>
vars == <<machine, unmasked, mem, task, tss_rsp0, interrupted>>

InHandler == pc[1] \in {"do_IRQ", "restore_all"}

-----------------------------------------------------------------------------
(* Stacks. *)

(* Memory after the words ws were pushed at the stack pointer sp.          *)
Pushed(sp, ws) ==
    [mem EXCEPT ![sp[1]] =
        [i \in DOMAIN @ |-> IF i \in sp[2] + 1 .. sp[2] + Len(ws)
                            THEN ws[i - sp[2]] ELSE @[i]]]

Below(sp, n) == <<sp[1], sp[2] + n>>
Above(sp, n) == <<sp[1], sp[2] - n>>
Word(sp)     == mem[sp[1]][sp[2]]       \* the one popq would take

(* Where a pt_regs at the stack pointer sp has its field f.                *)
FieldAt(sp, f) == sp[2] + 1 - (CHOOSE i \in DOMAIN pt_regs : pt_regs[i] = f)

(* What C code leaves in the registers it need not preserve.               *)
AfterCall(rs) == [r \in Reg |-> IF r \in Scratch THEN Junk ELSE rs[r]]

(* What the processor pushes, and what SAVE_ALL or error_code adds.        *)
Hardware ==
    <<<<"ss", user>>, rsp, <<"if", interrupts>>, <<"cs", user>>, pc>>
Saved(errcode, func) ==
    Hardware \o <<errcode, func>> \o [i \in DOMAIN PushOrder |-> regs[PushOrder[i]]]

(* The stack an interrupt or an exception is delivered on.  The address in *)
(* every IST is a number (task.h:160); it lies in the page of the stack of *)
(* init(), the first page that is handed out.                              *)
DeliveredOn(ist) == IF ist # 0 THEN <<"init", IstAt>>
                    ELSE IF user THEN tss_rsp0 ELSE rsp

-----------------------------------------------------------------------------

(* A processor in Start_Kernel(), which get_time() left with interrupts    *)
(* enabled.                                                                *)
Init ==
    /\ pc = <<"start_kernel", 0>>
    /\ rsp = <<"boot", InUse>>
    /\ regs = [r \in Reg |-> <<"boot_regs", r>>]
    /\ user = FALSE
    /\ interrupts = TRUE
    /\ unmasked = FALSE
    /\ mem = [s \in Task |-> [i \in 1 .. Depth |-> Junk]]
    /\ task = [t \in Task |->
                 [pid |-> 0, state |-> "uninterruptible", rsp0 |-> <<t, 0>>,
                  rsp |-> <<t, 0>>, rip |-> <<"none", 0>>, fs |-> "kernel",
                  prev |-> "none", next |-> "none"]]
    /\ tss_rsp0 = <<"boot", 0>>
    /\ interrupted = <<>>

At(label) == pc[1] = label
Goto(label) == pc' = <<label, 0>>

(* init_8259A(): the gates, the mask that leaves the keyboard, sti.        *)
init_8259A ==
    /\ At("start_kernel")
    /\ unmasked' = TRUE
    /\ interrupts' = TRUE
    /\ regs' = AfterCall(regs)
    /\ Goto("task_init")
    /\ UNCHANGED <<rsp, user, mem, task, tss_rsp0, interrupted>>

(* get_current(): rsp with its low bits masked.  A stack pointer at the    *)
(* very top of a stack belongs to the memory above.                        *)
get_current == IF rsp[1] \in Task /\ rsp[2] > 0 THEN rsp[1] ELSE "none"

(* What kernel_thread() fills in for a thread that calls fn(arg).          *)
ThreadRegs(fn, arg) ==
    [f \in Range(pt_regs) |->
        CASE f = "rbx" -> <<fn, 0>>
          [] f = "rdx" -> <<"arg", arg>>
          [] f \in {"ds", "es", "ss"} -> KERNEL_DS
          [] f = "cs" -> <<"cs", FALSE>>
          [] f = "rflags" -> <<"if", TRUE>>
          [] f = "rip" -> <<"thread_func", 0>>
          [] OTHER -> <<"zero", 0>>]

(* lib.h: an empty ring, and a new entry at the end of the ring of entry.  *)
list_init(tasks, t) == [tasks EXCEPT ![t].prev = t, ![t].next = t]

list_add_to_before_Swapped(tasks, entry, new) ==
    \* as if entry->prev were overwritten before it is used
    [tasks EXCEPT ![new].next = entry, ![new].prev = new, ![entry].prev = new]

list_add_to_before(tasks, entry, new) ==
    LET last == tasks[entry].prev
    IN  [tasks EXCEPT ![new].next = entry, ![last].next = new,
                      ![new].prev = last, ![entry].prev = new]

(* do_fork(): a copy of the current task with a pt_regs at the top of its  *)
(* stack.  The copied flags hold PF_KTHREAD, so rip stays the one of the   *)
(* frame.  fs is not set: it is what the page of the task held there.      *)
do_fork(tasks, frame) ==
    /\ mem' = Pushed(<<"init", 0>>,
                     [i \in DOMAIN pt_regs |->
                         frame[pt_regs[Len(pt_regs) + 1 - i]]])
    /\ \E fs \in {"kernel", "garbage"} :
        LET copy == [tasks[get_current] EXCEPT
                        !.pid = @ + 1, !.state = "running", !.fs = fs,
                        !.rsp0 = <<"init", 0>>, !.rip = frame["rip"],
                        !.rsp = <<"init", Len(pt_regs)>>]
        IN  task' = list_add_to_before(
                        list_init([tasks EXCEPT !["init"] = copy], "init"),
                        "boot", "init")

(* task_init() up to switch_to(); the TSS gets the stack of the first task *)
task_init ==
    /\ At("task_init")
    /\ tss_rsp0' = <<"boot", 0>>
    /\ do_fork([list_init(task, "boot") EXCEPT !["boot"].state = "running"],
               ThreadRegs("init", 10))
    /\ regs' = AfterCall(regs)
    /\ Goto("push_rbp_rax")
    /\ UNCHANGED <<rsp, user, interrupts, unmasked, interrupted>>

-----------------------------------------------------------------------------
(* switch_to(current, p), instruction by instruction. *)

(* p of task_init(): the task behind the current one on the ring.          *)
NextTask == task["boot"].next

PushRbpRax ==
    /\ At("push_rbp_rax")
    /\ mem' = Pushed(rsp, <<regs["rbp"], regs["rax"]>>)
    /\ rsp' = Below(rsp, 2)
    /\ Goto("save_rsp")
    /\ UNCHANGED <<regs, user, interrupts, unmasked, task, tss_rsp0, interrupted>>

SaveRsp ==
    /\ At("save_rsp")
    /\ task' = [task EXCEPT !["boot"].rsp = rsp]
    /\ Goto("load_rsp")
    /\ UNCHANGED <<rsp, regs, user, interrupts, unmasked, mem, tss_rsp0,
                   interrupted>>

LoadRsp ==
    /\ At("load_rsp")
    /\ rsp' = task[NextTask].rsp
    /\ Goto("save_rip")
    /\ UNCHANGED <<regs, user, interrupts, unmasked, mem, task, tss_rsp0,
                   interrupted>>

SaveRip ==
    /\ At("save_rip")
    /\ task' = [task EXCEPT !["boot"].rip = <<"switched_back", 0>>]
    /\ Goto("push_rip")
    /\ UNCHANGED <<rsp, regs, user, interrupts, unmasked, mem, tss_rsp0,
                   interrupted>>

(* pushq the rip of the next task, jmp __switch_to.                        *)
PushRip ==
    /\ At("push_rip")
    /\ mem' = Pushed(rsp, <<task[NextTask].rip>>)
    /\ rsp' = Below(rsp, 1)
    /\ Goto("switch_to")
    /\ UNCHANGED <<regs, user, interrupts, unmasked, task, tss_rsp0, interrupted>>

(* __switch_to(): the TSS, fs; its ret takes the rip that was pushed.      *)
__switch_to ==
    /\ At("switch_to")
    /\ tss_rsp0' = task[NextTask].rsp0
    /\ task' = [task EXCEPT !["boot"].fs = "kernel"]
    /\ regs' = AfterCall(regs)
    /\ IF task[NextTask].fs = "garbage"
         THEN Goto("general_protection") /\ UNCHANGED rsp
         ELSE pc' = Word(rsp) /\ rsp' = Above(rsp, 1)
    /\ UNCHANGED <<user, interrupts, unmasked, mem, interrupted>>

(* The exception of a bad selector, through error_code to                  *)
(* do_general_protection(), which never returns.  A trap gate leaves IF.   *)
general_protection ==
    /\ At("general_protection")
    /\ LET ws == Saved(<<"selector", "garbage">>, <<"do_general_protection", 0>>)
       IN  /\ mem' = Pushed(DeliveredOn(0), ws)
           /\ rsp' = Below(DeliveredOn(0), Len(ws))
    /\ regs' = AfterCall(regs)
    /\ user' = FALSE
    /\ Goto("halt")
    /\ UNCHANGED <<interrupts, unmasked, task, tss_rsp0, interrupted>>

-----------------------------------------------------------------------------
(* The new thread. *)

(* One popq of kernel_thread_func or ret_system_call; ds and es by way of  *)
(* rax, which is popped last.                                              *)
Pop ==
    /\ pc[1] \in {"thread_func", "ret_system_call"}
    /\ pc[2] < Len(PopOrder)
    /\ regs' = [regs EXCEPT ![PopOrder[pc[2] + 1]] = Word(rsp)]
    /\ rsp' = Above(rsp, 1)
    /\ pc' = <<pc[1], pc[2] + 1>>
    /\ UNCHANGED <<user, interrupts, unmasked, mem, task, tss_rsp0, interrupted>>

(* The end of kernel_thread_func: skip the rest of the frame, call *rbx.   *)
(* The frame is below the new stack pointer: the called function gets its  *)
(* memory.                                                                 *)
CallThread_Jumps ==     \* as if it were jmp *%rbx
    /\ pc = <<"thread_func", Len(PopOrder)>>
    /\ rsp' = Above(rsp, 7)
    /\ regs' = [regs EXCEPT !["rdi"] = regs["rdx"]]
    /\ pc' = regs["rbx"]
    /\ UNCHANGED <<user, interrupts, unmasked, mem, task, tss_rsp0, interrupted>>

CallThread ==
    /\ pc = <<"thread_func", Len(PopOrder)>>
    /\ mem' = Pushed(Above(rsp, 7), <<<<"do_exit", 0>>>>)
    /\ rsp' = Above(rsp, 6)
    /\ regs' = [regs EXCEPT !["rdi"] = regs["rdx"]]
    /\ pc' = regs["rbx"]
    /\ UNCHANGED <<user, interrupts, unmasked, task, tss_rsp0, interrupted>>

(* init(): C code runs where the frame was; then the stack pointer is put  *)
(* below the frame again, ret_system_call is pushed, jmp do_execve.        *)
init ==
    /\ At("init")
    /\ LET sp == <<get_current, Len(pt_regs)>>
       IN  /\ task' = [task EXCEPT ![get_current].rip = <<"ret_system_call", 0>>,
                                   ![get_current].rsp = sp]
           /\ mem' = [mem EXCEPT ![get_current] =
                         [i \in DOMAIN @ |->
                             IF i = sp[2] + 1 THEN <<"ret_system_call", 0>>
                             ELSE IF i > rsp[2] THEN Junk ELSE @[i]]]
           /\ rsp' = Below(sp, 1)
    /\ regs' = AfterCall(regs)
    /\ Goto("do_execve")
    /\ UNCHANGED <<user, interrupts, unmasked, tss_rsp0, interrupted>>

SetFields(sp, values) ==
    mem' = [mem EXCEPT ![sp[1]] =
        [i \in DOMAIN @ |->
            IF \E f \in DOMAIN values : i = FieldAt(sp, f)
            THEN values[CHOOSE f \in DOMAIN values : i = FieldAt(sp, f)]
            ELSE @[i]]]

UserRip == <<"game", 0>>
UserRsp == <<"user", 0>>
UserDs  == <<"segment", "null">>

do_execve_RdxRcx ==     \* with the two lines that are commented out
    /\ At("do_execve")
    /\ SetFields(Above(rsp, 1), [rdx |-> UserRip, rcx |-> UserRsp,
                                 ds |-> UserDs, es |-> UserDs])
    /\ regs' = AfterCall(regs)
    /\ pc' = Word(rsp)
    /\ rsp' = Above(rsp, 1)
    /\ UNCHANGED <<user, interrupts, unmasked, task, tss_rsp0, interrupted>>

(* do_execve() fills in the frame above its return address; its ret takes  *)
(* that address.                                                           *)
do_execve ==
    /\ At("do_execve")
    /\ SetFields(Above(rsp, 1), [r10 |-> UserRip, r11 |-> UserRsp,
                                 rax |-> <<"one", 1>>,
                                 ds |-> UserDs, es |-> UserDs])
    /\ regs' = AfterCall(regs)
    /\ pc' = Word(rsp)
    /\ rsp' = Above(rsp, 1)
    /\ UNCHANGED <<user, interrupts, unmasked, task, tss_rsp0, interrupted>>

(* The end of ret_system_call: r10 and r11 go to rdx and rcx, from where   *)
(* sysexit takes rip and rsp.                                              *)
sysexit ==
    /\ pc = <<"ret_system_call", Len(PopOrder)>>
    /\ pc' = regs["r10"]
    /\ rsp' = regs["r11"]
    /\ regs' = [regs EXCEPT !["rdx"] = regs["r10"], !["r10"] = regs["rdx"],
                            !["rcx"] = regs["r11"], !["r11"] = regs["rcx"]]
    /\ user' = TRUE
    /\ interrupts' = TRUE
    /\ UNCHANGED <<unmasked, mem, task, tss_rsp0, interrupted>>

(* The game computes; which registers it uses is up to the compiler.       *)
Game ==
    /\ At("game")
    /\ \E g \in GameRegs :
           regs' = [r \in Reg |-> IF r \in {"ds", "es"} THEN regs[r] ELSE g[r]]
    /\ UNCHANGED <<pc, rsp, user, interrupts, unmasked, mem, task, tss_rsp0,
                   interrupted>>

-----------------------------------------------------------------------------
(* The keyboard interrupt. *)

IrqGate_NoIst == [ist |-> 0, clears_if |-> TRUE]  \* as if the 2 were a 0
IrqGate_Trap  == [ist |-> 2, clears_if |-> FALSE] \* as if by set_trap_gate()

(* set_intr_gate(i, 2, interrupt[i - 32])                                  *)
IrqGate == [ist |-> 2, clears_if |-> TRUE]

(* IRQ0x21_interrupt: SAVE_ALL, then the address of ret_from_intr is       *)
(* pushed as the return address of do_IRQ().                               *)
KeyInterrupt ==
    /\ interrupts /\ unmasked
    /\ LET sp == DeliveredOn(IrqGate.ist)
           ws == Saved(<<"zero", 0>>, regs["rax"]) \o <<<<"restore_all", 0>>>>
       IN  /\ mem' = Pushed(sp, ws)
           /\ rsp' = Below(sp, Len(ws))
    /\ regs' = [AfterCall(regs) EXCEPT !["ds"] = KERNEL_DS, !["es"] = KERNEL_DS]
    /\ interrupted' = [machine |-> machine, mem |-> mem]
    /\ user' = FALSE
    /\ interrupts' = ~IrqGate.clears_if
    /\ Goto("do_IRQ")
    /\ UNCHANGED <<unmasked, task, tss_rsp0>>

(* do_IRQ(), whose own frame lies below; Keyboard.tla has what it does.    *)
do_IRQ ==
    /\ At("do_IRQ")
    /\ mem' = Pushed(rsp, <<Junk>>)
    /\ regs' = AfterCall(regs)
    /\ pc' = Word(rsp)
    /\ rsp' = Above(rsp, 1)
    /\ UNCHANGED <<user, interrupts, unmasked, task, tss_rsp0, interrupted>>

(* Register r as the popq of RESTORE_ALL find it.                          *)
Popped(r) == mem[rsp[1]][rsp[2] + 1 - (CHOOSE i \in DOMAIN PopOrder : PopOrder[i] = r)]

(* ret_from_intr: the popq, addq $0x10 over func and errcode, iretq.       *)
RESTORE_ALL ==
    /\ At("restore_all")
    /\ LET frame(n) == mem[rsp[1]][rsp[2] - Len(PopOrder) - 2 - n]
       IN  /\ pc' = frame(0)
           /\ user' = frame(1)[2]
           /\ interrupts' = frame(2)[2]
           /\ rsp' = frame(3)
    /\ regs' = [r \in Reg |-> Popped(r)]
    /\ UNCHANGED <<unmasked, mem, task, tss_rsp0, interrupted>>

Step ==
    \/ init_8259A \/ task_init
    \/ PushRbpRax \/ SaveRsp \/ LoadRsp \/ SaveRip \/ PushRip \/ __switch_to
    \/ general_protection
    \/ Pop \/ CallThread \/ init \/ do_execve \/ sysexit \/ Game

Handler == do_IRQ \/ RESTORE_ALL

Next == Step \/ KeyInterrupt \/ Handler

(* The interrupted code goes on although interrupts take the processor     *)
(* away again and again: keys are typed slower than instructions run.      *)
Spec == Init /\ [][Next]_vars /\ SF_vars(Step) /\ WF_vars(Handler)

-----------------------------------------------------------------------------
(* Properties. *)

(* The stack pointer stays within a modelled stack, and the TSS always     *)
(* holds the stack of a task.                                              *)
TypeOK ==
    /\ rsp[1] \in Task \cup {"user"} /\ rsp[2] \in 0 .. Depth
    /\ DOMAIN regs = Reg
    /\ user \in BOOLEAN /\ interrupts \in BOOLEAN /\ unmasked \in BOOLEAN
    /\ \A s \in Task : DOMAIN mem[s] = 1 .. Depth
    /\ \A t \in Task : /\ task[t].state \in {"uninterruptible", "running"}
                       /\ task[t].pid \in {0, 1}
    /\ tss_rsp0[1] \in Task

(* An interrupt leaves no trace: wherever it falls, also in the middle of  *)
(* the switch of the stacks or of popping a frame, its iretq brings back   *)
(* every register, the stack pointer, the privilege level, IF and rip      *)
(* (SAVE_ALL of interrupt.c against RESTORE_ALL of entry.S).               *)
Transparent == [][At("restore_all") => machine' = interrupted.machine]_vars

(* Nor does it touch a stack in use, not even the memory below the stack   *)
(* pointer: the kernel is compiled with a red zone, which only the IST     *)
(* (the 2 in set_intr_gate()) keeps safe.  Of init()'s own stack, where    *)
(* the IST points, the handler leaves the first IstAt words alone.         *)
KeepsMemory ==
    InHandler =>
        /\ mem["boot"] = interrupted.mem["boot"]
        /\ \A i \in 1 .. IstAt : mem["init"][i] = interrupted.mem["init"][i]

(* Whenever C code asks for `current' the stack pointer is inside of the   *)
(* task that runs, and a frame is popped from its first to its last word:  *)
(* push, call, ret and the explicit changes of rsp in task.h, task.c and   *)
(* entry.S fit together.                                                   *)
StackDiscipline ==
    /\ pc[1] \in {"start_kernel", "task_init", "push_rbp_rax"} =>
           get_current = "boot"
    /\ pc[1] \in {"init", "do_execve"} => get_current = "init"
    /\ pc[1] \in {"thread_func", "ret_system_call"} =>
           rsp = <<"init", Len(pt_regs) - pc[2]>>

(* The only code at privilege level 3 is the game, on the user stack, with *)
(* interrupts enabled, and the TSS then holds the stack of its task:       *)
(* what do_execve() writes into the frame survives until sysexit, although *)
(* the frame lies where init() had its locals.                             *)
GameEntered ==
    user => /\ pc = UserRip
            /\ rsp = UserRsp
            /\ regs["ds"] = UserDs /\ regs["es"] = UserDs
            /\ interrupts
            /\ tss_rsp0 = task["init"].rsp0

(* The machine ends up in the game, or in the handler of the exception     *)
(* that the uninitialised fs of the new task may raise (task.c:186).       *)
Boots == <>(At("game") \/ At("halt"))
=============================================================================
