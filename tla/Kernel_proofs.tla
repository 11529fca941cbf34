---------------------------- MODULE Kernel_proofs ----------------------------
(***************************************************************************)
(* Proofs about Kernel for stacks of any depth, an IST anywhere below the  *)
(* frames of init()'s stack, any use of the first task's stack and any     *)
(* game: the stacks of the tasks are handled in an orderly way from        *)
(* Start_Kernel() to the game, the code never goes back on that way, and   *)
(* an interrupt leaves no trace wherever it falls.                         *)
(***************************************************************************)
EXTENDS Kernel, SequenceTheorems, TLAPS

(* The numbers among the constants.                                        *)
LEMMA Numbers ==
    /\ Depth \in Nat /\ 49 <= Depth
    /\ IstAt \in Nat /\ 49 <= IstAt /\ IstAt + 26 <= Depth
    /\ InUse \in Nat /\ InUse # 0 /\ InUse + 2 <= Depth
<1>1. Len(pt_regs) = 24
  BY DEF pt_regs
<1> QED BY <1>1, KernelAssumption

-----------------------------------------------------------------------------
(* The orders of the registers. *)

(* Popping takes the registers in the opposite order of pushing, and each  *)
(* of them once.                                                           *)
LEMMA Orders ==
    /\ Len(pt_regs) = 24 /\ DOMAIN pt_regs = 1 .. 24
    /\ Len(PopOrder) = 17 /\ DOMAIN PopOrder = 1 .. 17
    /\ Len(PushOrder) = 17 /\ DOMAIN PushOrder = 1 .. 17
    /\ \A k \in 1 .. 17 : PopOrder[k] = PushOrder[18 - k]
    /\ \A j, k \in 1 .. 17 : PopOrder[j] = PopOrder[k] => j = k
    /\ \A i, j \in 1 .. 24 : pt_regs[i] = pt_regs[j] => i = j
    /\ \A k \in 1 .. 17 : PopOrder[k] \in Reg /\ PushOrder[k] \in Reg
<1>1. Len(pt_regs) = 24 /\ DOMAIN pt_regs = 1 .. 24
  BY DEF pt_regs
<1>2. /\ Len(PopOrder) = 17 /\ DOMAIN PopOrder = 1 .. 17
      /\ Len(PushOrder) = 17 /\ DOMAIN PushOrder = 1 .. 17
  BY DEF PopOrder, PushOrder
<1>3. \A k \in 1 .. 17 : PopOrder[k] = PushOrder[18 - k]
  BY DEF PopOrder, PushOrder
<1>4. \A j, k \in 1 .. 17 : PopOrder[j] = PopOrder[k] => j = k
  BY DEF PopOrder
<1>5. \A i, j \in 1 .. 24 : pt_regs[i] = pt_regs[j] => i = j
  BY DEF pt_regs
<1>6. \A k \in 1 .. 17 : PopOrder[k] \in Reg
  BY <1>2 DEF Reg, Range
<1>7. ASSUME NEW k \in 1 .. 17
      PROVE  PushOrder[k] \in Reg
  <2>1. PICK j \in 1 .. 17 : j = 18 - k /\ k = 18 - j
    OBVIOUS
  <2>2. PushOrder[k] = PopOrder[j]
    BY <2>1, <1>3
  <2> QED BY <2>1, <2>2, <1>6
<1> QED BY <1>1, <1>2, <1>3, <1>4, <1>5, <1>6, <1>7

(* The registers the code names.                                           *)
LEMMA Named ==
    /\ PopOrder[9] = "rbx" /\ PopOrder[5] = "r11" /\ PopOrder[6] = "r10"
    /\ PopOrder[15] = "ds" /\ PopOrder[16] = "es"
    /\ {"rbx", "rbp", "rax", "r10", "r11", "rcx", "rdx", "rdi", "ds", "es"}
          \subseteq Reg
    /\ "rbx" \notin Scratch /\ "ds" \notin Scratch /\ "es" \notin Scratch
<1>1. /\ PopOrder[9] = "rbx" /\ PopOrder[5] = "r11" /\ PopOrder[6] = "r10"
      /\ PopOrder[15] = "ds" /\ PopOrder[16] = "es"
      /\ PopOrder[14] = "rbp" /\ PopOrder[17] = "rax" /\ PopOrder[10] = "rcx"
      /\ PopOrder[11] = "rdx" /\ PopOrder[13] = "rdi"
  BY DEF PopOrder
<1>2. {"rbx", "rbp", "rax", "r10", "r11", "rcx", "rdx", "rdi", "ds", "es"}
         \subseteq Reg
  BY <1>1, Orders
<1>3. "rbx" \notin Scratch /\ "ds" \notin Scratch /\ "es" \notin Scratch
  BY DEF Scratch
<1> QED BY <1>1, <1>2, <1>3

(* The places of the fields do_execve() sets in a frame on an empty stack. *)
LEMMA Places ==
    /\ FieldAt(<<"init", 24>>, "r10") = 19 /\ FieldAt(<<"init", 24>>, "r11") = 20
    /\ FieldAt(<<"init", 24>>, "ds") = 10 /\ FieldAt(<<"init", 24>>, "es") = 9
    /\ FieldAt(<<"init", 24>>, "rax") = 8
<1> DEFINE at(f) == CHOOSE i \in DOMAIN pt_regs : pt_regs[i] = f
<1>1. \A i \in 1 .. 24 : at(pt_regs[i]) = i
  BY Orders
<1>2. /\ pt_regs[6] = "r10" /\ pt_regs[5] = "r11" /\ pt_regs[15] = "ds"
      /\ pt_regs[16] = "es" /\ pt_regs[17] = "rax"
  BY DEF pt_regs
<1>3. /\ at("r10") = 6 /\ at("r11") = 5 /\ at("ds") = 15 /\ at("es") = 16
      /\ at("rax") = 17
  BY <1>1, <1>2
<1>4. \A f : FieldAt(<<"init", 24>>, f) = 24 + 1 - at(f)
  BY DEF FieldAt
<1> HIDE DEF at
<1> QED BY <1>3, <1>4

-----------------------------------------------------------------------------
(* Pushing. *)

(* A stack for each task, of Depth words.                                  *)
Shaped(memory) ==
    /\ DOMAIN memory = Task
    /\ \A s \in Task : DOMAIN memory[s] = 1 .. Depth

(* new is old with the words ws behind the first n words of the stack s.   *)
Grown(new, old, s, n, ws) ==
    /\ \A t \in Task : t # s => new[t] = old[t]
    /\ \A i \in 1 .. Depth : i <= n => new[s][i] = old[s][i]
    /\ \A i \in 1 .. Len(ws) : n + i <= Depth => new[s][n + i] = ws[i]

(* Pushing sets the words above the stack pointer, and none below.         *)
LEMMA PushedFacts ==
    ASSUME Shaped(mem), NEW s \in Task, NEW n \in Nat, NEW ws,
           Len(ws) \in Nat
    PROVE  /\ Shaped(Pushed(<<s, n>>, ws))
           /\ Grown(Pushed(<<s, n>>, ws), mem, s, n, ws)
<1> DEFINE f == [i \in DOMAIN mem[s] |->
                    IF i \in n + 1 .. n + Len(ws) THEN ws[i - n] ELSE mem[s][i]]
<1>1. Pushed(<<s, n>>, ws) = [mem EXCEPT ![s] = f]
  BY DEF Pushed
<1>2. DOMAIN mem = Task /\ \A t \in Task : DOMAIN mem[t] = 1 .. Depth
  BY DEF Shaped
<1>3. DOMAIN f = 1 .. Depth
  BY <1>2
<1>4. ASSUME NEW i \in 1 .. Depth, i <= n
      PROVE  f[i] = mem[s][i]
  <2>1. i \in DOMAIN mem[s] /\ i \notin n + 1 .. n + Len(ws)
    BY <1>2, <1>4, Numbers
  <2> QED BY <2>1
<1>5. ASSUME NEW i \in 1 .. Len(ws), n + i <= Depth
      PROVE  f[n + i] = ws[i]
  <2>1. n + i \in 1 .. Depth /\ n + i \in n + 1 .. n + Len(ws)
        /\ (n + i) - n = i
    BY <1>5, Numbers
  <2>2. f[n + i] = ws[(n + i) - n]
    BY <2>1, <1>2
  <2> QED BY <2>1, <2>2
<1> HIDE DEF f
<1>6. DOMAIN [mem EXCEPT ![s] = f] = Task
  BY <1>2
<1>7. [mem EXCEPT ![s] = f][s] = f
  BY <1>2
<1>8. \A t \in Task : t # s => [mem EXCEPT ![s] = f][t] = mem[t]
  BY <1>2
<1>9. Shaped([mem EXCEPT ![s] = f])
  BY <1>2, <1>3, <1>6, <1>7, <1>8 DEF Shaped
<1> QED BY <1>1, <1>4, <1>5, <1>7, <1>8, <1>9 DEF Grown

(* The sequence r consists of p and then q.                                *)
Consists(r, p, q) ==
    /\ Len(r) = Len(p) + Len(q)
    /\ \A i \in 1 .. Len(p) : r[i] = p[i]
    /\ \A i \in 1 .. Len(q) : r[Len(p) + i] = q[i]

(* Two sequences in a row.                                                 *)
LEMMA Joined ==
    ASSUME NEW S, NEW p \in Seq(S), NEW q \in Seq(S)
    PROVE  p \o q \in Seq(S) /\ Consists(p \o q, p, q)
<1>1. Len(p) \in Nat /\ Len(q) \in Nat
  OBVIOUS
<1> DEFINE r == p \o q
<1>2. /\ r \in Seq(S)
      /\ Len(r) = Len(p) + Len(q)
      /\ \A i \in 1 .. Len(p) + Len(q) :
            r[i] = IF i <= Len(p) THEN p[i] ELSE q[i - Len(p)]
  BY ConcatProperties
<1> HIDE DEF r
<1>3. \A i \in 1 .. Len(p) : r[i] = p[i]
  BY <1>1, <1>2
<1>4. ASSUME NEW i \in 1 .. Len(q)
      PROVE  r[Len(p) + i] = q[i]
  <2>1. /\ Len(p) + i \in 1 .. Len(p) + Len(q) /\ ~(Len(p) + i <= Len(p))
        /\ (Len(p) + i) - Len(p) = i
    BY <1>1
  <2>2. r[Len(p) + i] = q[(Len(p) + i) - Len(p)]
    BY <2>1, <1>2
  <2> QED BY <2>1, <2>2
<1> QED BY <1>2, <1>3, <1>4 DEF r, Consists

(* The words that bring back the machine m, from the top of the stack k.   *)
Frame(k, m) ==
    /\ k[2] = m[2]
    /\ k[3] = <<"if", m[5]>>
    /\ k[4] = <<"cs", m[4]>>
    /\ k[5] = m[1]
    /\ \A i \in 1 .. 17 : k[7 + i] = m[3][PushOrder[i]]

(* The words ws and last after them do so.                                 *)
Keeps(ws, last, m) ==
    /\ Len(ws) = 24 /\ Len(ws \o <<last>>) = 25
    /\ Frame(ws \o <<last>>, m)
    /\ (ws \o <<last>>)[25] = last

(* They are what the processor, SAVE_ALL and the stub push, in this order, *)
(* whatever the code, the function and the word pushed after them.         *)
LEMMA SavedFacts ==
    ASSUME NEW errcode, NEW func, NEW last
    PROVE  Keeps(Saved(errcode, func), last, machine)
<1> DEFINE two == <<errcode, func>>
           rs == [i \in DOMAIN PushOrder |-> regs[PushOrder[i]]]
           one == <<last>>
           S == {Hardware[i] : i \in 1 .. 5} \cup {errcode, func, last}
                   \cup {rs[i] : i \in 1 .. 17}
           p == Hardware \o two
           q == p \o rs
           r == q \o one
<1>1. Hardware \in Seq(S) /\ Len(Hardware) = 5
  <2>1. Len(Hardware) = 5 /\ Hardware = [i \in 1 .. 5 |-> Hardware[i]]
    BY DEF Hardware
  <2>2. \A i \in 1 .. 5 : Hardware[i] \in S
    OBVIOUS
  <2> HIDE DEF S
  <2> QED BY <2>1, <2>2
<1>2. two \in Seq(S) /\ Len(two) = 2
  <2>1. errcode \in S /\ func \in S
    OBVIOUS
  <2> HIDE DEF S
  <2> QED BY <2>1
<1>3. rs \in Seq(S) /\ Len(rs) = 17 /\ \A i \in 1 .. 17 : rs[i] = regs[PushOrder[i]]
  <2>1. \A i \in 1 .. 17 : rs[i] \in S
    OBVIOUS
  <2>2. DOMAIN rs = 1 .. 17 /\ rs = [i \in 1 .. 17 |-> rs[i]]
    BY Orders
  <2>3. \A i \in 1 .. 17 : rs[i] = regs[PushOrder[i]]
    BY Orders
  <2> HIDE DEF S, rs
  <2> QED BY <2>1, <2>2, <2>3
<1>4. one \in Seq(S) /\ Len(one) = 1 /\ one[1] = last
  <2>1. last \in S
    OBVIOUS
  <2> HIDE DEF S
  <2> QED BY <2>1
<1>5. /\ Hardware[2] = rsp /\ Hardware[3] = <<"if", interrupts>>
      /\ Hardware[4] = <<"cs", user>> /\ Hardware[5] = pc
  BY DEF Hardware
<1>6. Saved(errcode, func) = q
  BY DEF Saved
<1> HIDE DEF S, two, rs, one, p, q, r
<1>7. /\ p \in Seq(S) /\ Len(p) = 7
      /\ \A i \in 1 .. 5 : p[i] = Hardware[i]
  <2>1. p \in Seq(S) /\ Consists(p, Hardware, two)
    BY <1>1, <1>2, Joined DEF p
  <2> QED BY <2>1, <1>1, <1>2 DEF Consists
<1>8. /\ q \in Seq(S) /\ Len(q) = 24
      /\ \A i \in 1 .. 7 : q[i] = p[i]
      /\ \A i \in 1 .. 17 : q[7 + i] = rs[i]
  <2>1. q \in Seq(S) /\ Consists(q, p, rs)
    BY <1>3, <1>7, Joined DEF q
  <2> QED BY <2>1, <1>3, <1>7 DEF Consists
<1>9. /\ Len(r) = 25
      /\ \A i \in 1 .. 24 : r[i] = q[i]
      /\ r[25] = last
  <2>1. Consists(r, q, one)
    BY <1>4, <1>8, Joined DEF r
  <2>2. r[24 + 1] = one[1]
    BY <2>1, <1>4, <1>8 DEF Consists
  <2> QED BY <2>1, <2>2, <1>4, <1>8 DEF Consists
<1>10. /\ r[2] = rsp /\ r[3] = <<"if", interrupts>> /\ r[4] = <<"cs", user>>
       /\ r[5] = pc
  <2>1. ASSUME NEW i \in 1 .. 5
        PROVE  r[i] = Hardware[i]
    <3>1. i \in 1 .. 7 /\ i \in 1 .. 24
      OBVIOUS
    <3> QED BY <3>1, <1>7, <1>8, <1>9
  <2> QED BY <2>1, <1>5
<1>11. \A i \in 1 .. 17 : r[7 + i] = regs[PushOrder[i]]
  <2>1. \A i \in 1 .. 17 : 7 + i \in 1 .. 24
    OBVIOUS
  <2> QED BY <2>1, <1>3, <1>8, <1>9
<1>12. Frame(r, machine)
  BY <1>10, <1>11 DEF Frame, machine
<1>13. r = Saved(errcode, func) \o <<last>>
  BY <1>6 DEF r, one
<1> QED BY <1>6, <1>8, <1>9, <1>12, <1>13 DEF Keeps

(* Nothing else is pushed for an exception.                                *)
LEMMA SavedLength ==
    ASSUME NEW errcode, NEW func
    PROVE  Len(Saved(errcode, func)) = 24
<1>1. Keeps(Saved(errcode, func), func, machine)
  BY SavedFacts
<1> QED BY <1>1 DEF Keeps

-----------------------------------------------------------------------------
(* The inductive invariant.  Of a machine m, m[1] is pc, m[2] is rsp, m[3] *)
(* the registers, m[4] the privilege level and m[5] the flag IF; w is the  *)
(* stack of the new task, ts the tasks, tss what the TSS holds.            *)

TaskInfo ==
    [pid : {0, 1}, state : {"uninterruptible", "running"},
     rsp0 : Task \X {0}, rsp : Task \X Nat,
     rip : {"none", "thread_func", "switched_back", "ret_system_call"} \X {0},
     fs : {"kernel", "garbage"}, prev : {"none"} \cup Task,
     next : {"none"} \cup Task]

(* After do_fork(): the ring of the two tasks and where the new one starts. *)
Forked(ts) ==
    /\ ts["boot"].next = "init"
    /\ ts["init"].rsp = <<"init", 24>>
    /\ ts["init"].rsp0 = <<"init", 0>>

Starting(m, ts) ==
    /\ m[1] \in {<<"start_kernel", 0>>, <<"task_init", 0>>}
    /\ m[2] = <<"boot", InUse>>
    /\ ts["boot"].pid = 0

(* rip and rbx of the new task wait in its task structure and its frame.   *)
Switching(m, w, ts) ==
    /\ \/ m[1] = <<"push_rbp_rax", 0>> /\ m[2] = <<"boot", InUse>>
       \/ /\ m[1] \in {<<"save_rsp", 0>>, <<"load_rsp", 0>>}
          /\ m[2] = <<"boot", InUse + 2>>
       \/ /\ m[1] \in {<<"save_rip", 0>>, <<"push_rip", 0>>}
          /\ m[2] = <<"init", 24>>
       \/ /\ m[1] = <<"switch_to", 0>> /\ m[2] = <<"init", 25>>
          /\ w[25] = <<"thread_func", 0>>
    /\ Forked(ts)
    /\ ts["init"].rip = <<"thread_func", 0>>
    /\ w[16] = <<"init", 0>>

Failing(m) ==
    \/ m[1] = <<"general_protection", 0>> /\ m[2] = <<"init", 25>>
    \/ m[1] = <<"halt", 0>> /\ m[2] = <<"init", 49>>

(* n registers are popped; the function to call lies in the frame or in rbx *)
Threading(m, w, n) ==
    /\ m[1] = <<"thread_func", n>> /\ m[2] = <<"init", 24 - n>>
    /\ n < 9 => w[16] = <<"init", 0>>
    /\ n >= 9 => m[3]["rbx"] = <<"init", 0>>

Executing(m, w) ==
    \/ m[1] = <<"init", 0>> /\ m[2] = <<"init", 1>>
    \/ /\ m[1] = <<"do_execve", 0>> /\ m[2] = <<"init", 25>>
       /\ w[25] = <<"ret_system_call", 0>>

(* n registers are popped; what do_execve() wrote lies in the frame or in  *)
(* its register.                                                           *)
Returning(m, w, n) ==
    /\ m[1] = <<"ret_system_call", n>> /\ m[2] = <<"init", 24 - n>>
    /\ w[20] = UserRsp /\ w[19] = UserRip /\ w[10] = UserDs /\ w[9] = UserDs
    /\ n >= 5 => m[3]["r11"] = UserRsp
    /\ n >= 6 => m[3]["r10"] = UserRip
    /\ n >= 15 => m[3]["ds"] = UserDs
    /\ n >= 16 => m[3]["es"] = UserDs

Playing(m) ==
    /\ m[1] = UserRip /\ m[2] = UserRsp
    /\ m[3]["ds"] = UserDs /\ m[3]["es"] = UserDs

(* Machines of the program between two interrupts.                         *)
Runs(m, w, ts, tss) ==
    /\ m = <<m[1], m[2], m[3], m[4], m[5]>>
    /\ m[3] = [r \in Reg |-> m[3][r]]
    /\ m[5] = TRUE
    /\ \/ m[4] = FALSE /\ Starting(m, ts)
       \/ m[4] = FALSE /\ Switching(m, w, ts)
       \/ m[4] = FALSE /\ Failing(m)
       \/ /\ Forked(ts) /\ tss = <<"init", 0>>
          /\ \/ m[4] = FALSE /\ \E n \in 0 .. 17 : Threading(m, w, n)
             \/ m[4] = FALSE /\ Executing(m, w)
             \/ m[4] = FALSE /\ \E n \in 0 .. 17 : Returning(m, w, n)
             \/ m[4] = TRUE /\ Playing(m)

(* The words of the new task's stack w where the entry of an interrupt     *)
(* pushes the frame and a return address.                                  *)
IstWords(w) == [i \in 1 .. 25 |-> w[IstAt + i]]

(* The handler, with the frame of m in the words ist from the IST on.      *)
Handles(p, ist, m) ==
    /\ Frame(ist, m)
    /\ \/ /\ p[1] = <<"do_IRQ", 0>> /\ p[2] = <<"init", IstAt + 25>>
          /\ ist[25] = <<"restore_all", 0>>
       \/ p[1] = <<"restore_all", 0>> /\ p[2] = <<"init", IstAt + 24>>
    /\ p[4] = FALSE /\ p[5] = FALSE

(* The stacks new are the stacks old but for words from the IST on.        *)
AloneAbove(new, old) ==
    /\ new["boot"] = old["boot"]
    /\ \A i \in 1 .. IstAt : new["init"][i] = old["init"][i]

Types ==
    /\ Shaped(mem)
    /\ regs = [r \in Reg |-> regs[r]]
    /\ unmasked \in BOOLEAN
    /\ task \in [Task -> TaskInfo]
    /\ tss_rsp0 \in Task \X {0}

Inv ==
    /\ Types
    /\ ~InHandler => Runs(machine, mem["init"], task, tss_rsp0)
    /\ InHandler =>
          /\ Handles(machine, IstWords(mem["init"]), interrupted.machine)
          /\ Runs(interrupted.machine, mem["init"], task, tss_rsp0)
          /\ AloneAbove(mem, interrupted.mem)

(* What the invariant says of the machine m at each label.                 *)
Here(m, w, ts, tss) ==
    /\ m[5] = TRUE
    /\ m[1][1] \notin {"do_IRQ", "restore_all"}
    /\ m[1][1] \in {"start_kernel", "task_init"} =>
          m[4] = FALSE /\ Starting(m, ts)
    /\ m[1][1] \in {"push_rbp_rax", "save_rsp", "load_rsp", "save_rip",
                    "push_rip", "switch_to"} =>
          m[4] = FALSE /\ Switching(m, w, ts)
    /\ m[1][1] \in {"general_protection", "halt"} => m[4] = FALSE /\ Failing(m)
    /\ m[1][1] \in {"thread_func", "init", "do_execve", "ret_system_call", "game"}
          => Forked(ts) /\ tss = <<"init", 0>>
    /\ m[1][1] = "thread_func" =>
          m[4] = FALSE /\ \E n \in 0 .. 17 : Threading(m, w, n)
    /\ m[1][1] \in {"init", "do_execve"} => m[4] = FALSE /\ Executing(m, w)
    /\ m[1][1] = "ret_system_call" =>
          m[4] = FALSE /\ \E n \in 0 .. 17 : Returning(m, w, n)
    /\ m[1][1] = "game" => m[4] = TRUE /\ Playing(m)
    /\ m[4] = TRUE => Playing(m) /\ Forked(ts) /\ tss = <<"init", 0>>
    /\ m[4] \in BOOLEAN

(* The labels tell the cases of the invariant apart.                       *)
LEMMA Where ==
    ASSUME NEW m, NEW w, NEW ts, NEW tss, Runs(m, w, ts, tss)
    PROVE  Here(m, w, ts, tss)
<1>1. Starting(m, ts) => m[1][1] = "start_kernel" \/ m[1][1] = "task_init"
  BY DEF Starting
<1>2. Switching(m, w, ts) =>
         m[1][1] \in {"push_rbp_rax", "save_rsp", "load_rsp", "save_rip",
                      "push_rip", "switch_to"}
  BY DEF Switching
<1>3. Failing(m) => m[1][1] = "general_protection" \/ m[1][1] = "halt"
  BY DEF Failing
<1>4. \A n : Threading(m, w, n) => m[1][1] = "thread_func"
  BY DEF Threading
<1>5. Executing(m, w) => m[1][1] = "init" \/ m[1][1] = "do_execve"
  BY DEF Executing
<1>6. \A n : Returning(m, w, n) => m[1][1] = "ret_system_call"
  BY DEF Returning
<1>7. Playing(m) => m[1][1] = "game"
  BY DEF Playing, UserRip
<1> QED BY <1>1, <1>2, <1>3, <1>4, <1>5, <1>6, <1>7 DEF Runs, Here

-----------------------------------------------------------------------------
(* The steps of the program. *)

(* The parts of the machine.                                               *)
IsNow(m) == /\ m[1] = pc /\ m[2] = rsp /\ m[3] = regs /\ m[4] = user
            /\ m[5] = interrupts

(* The machine that goes on is the one that runs.                          *)
LEMMA Running ==
    ASSUME Inv, ~InHandler
    PROVE  /\ Types
           /\ \E m : IsNow(m) /\ Runs(m, mem["init"], task, tss_rsp0)
<1>1. Types /\ Runs(machine, mem["init"], task, tss_rsp0)
  BY DEF Inv
<1>2. IsNow(machine)
  BY DEF IsNow, machine
<1> QED BY <1>1, <1>2

(* Outside of the handler that is all there is to show.                    *)
LEMMA GoesOn ==
    ASSUME Types', pc'[1] \notin {"do_IRQ", "restore_all"},
           Runs(machine, mem["init"], task, tss_rsp0)'
    PROVE  Inv'
BY DEF Inv, InHandler

(* The processor in Start_Kernel() satisfies the invariant.                 *)
LEMMA InitInv == Init => Inv
<1> SUFFICES ASSUME Init
             PROVE  Inv
  OBVIOUS
<1>1. task \in [Task -> TaskInfo] /\ tss_rsp0 \in Task \X {0}
  <2>1. ASSUME NEW t \in Task
        PROVE  task[t] \in TaskInfo
    <3>1. task[t] = [pid |-> 0, state |-> "uninterruptible", rsp0 |-> <<t, 0>>,
                     rsp |-> <<t, 0>>, rip |-> <<"none", 0>>, fs |-> "kernel",
                     prev |-> "none", next |-> "none"]
      BY DEF Init
    <3>2. /\ <<t, 0>> \in Task \X {0} /\ <<t, 0>> \in Task \X Nat
      BY DEF Task
    <3> QED BY <3>1, <3>2 DEF TaskInfo
  <2>2. DOMAIN task = Task /\ task = [t \in Task |-> task[t]]
    BY DEF Init
  <2>3. tss_rsp0 \in Task \X {0}
    BY DEF Init, Task
  <2> QED BY <2>1, <2>2, <2>3
<1>2. Shaped(mem)
  BY DEF Init, Shaped
<1>3. Types
  BY <1>1, <1>2 DEF Init, Types
<1>4. Runs(machine, mem["init"], task, tss_rsp0)
  BY DEF Init, machine, Runs, Starting, Task
<1> QED BY <1>3, <1>4 DEF Init, Inv, InHandler

(* init_8259A() changes registers only.                                     *)
LEMMA Init8259AInv == Inv /\ init_8259A => Inv'
<1> SUFFICES ASSUME Inv, init_8259A
             PROVE  Inv'
  OBVIOUS
<1>1. pc[1] = "start_kernel" /\ ~InHandler
  BY DEF init_8259A, At, InHandler
<1>2. Types
  BY <1>1, Running
<1>3. PICK m : IsNow(m) /\ Runs(m, mem["init"], task, tss_rsp0)
  BY <1>1, Running
<1>4. rsp = <<"boot", InUse>> /\ user = FALSE /\ task["boot"].pid = 0
  <2>1. m[4] = FALSE /\ Starting(m, task)
    BY <1>1, <1>3, Where DEF IsNow, Here
  <2> QED BY <2>1, <1>3 DEF IsNow, Starting
<1>5. Types'
  BY <1>2 DEF Types, init_8259A, AfterCall, Shaped
<1>6. Runs(machine, mem["init"], task, tss_rsp0)'
  BY <1>4 DEF init_8259A, AfterCall, machine, Goto, Runs, Starting
<1> QED BY <1>5, <1>6, GoesOn DEF init_8259A, Goto

(* What list_init() and list_add_to_before() leave alone in a task.        *)
SameBut(r, q) ==
    r.pid = q.pid /\ r.rsp = q.rsp /\ r.rsp0 = q.rsp0 /\ r.rip = q.rip

(* The task q with new links.                                              *)
Link(q, a, b) == [q EXCEPT !.next = a, !.prev = b]

(* New links leave the rest of a task alone.                               *)
LEMMA Linked ==
    ASSUME NEW q \in TaskInfo, NEW a \in Task, NEW b \in Task
    PROVE  /\ Link(q, a, b) \in TaskInfo /\ SameBut(Link(q, a, b), q)
           /\ Link(q, a, b).next = a /\ Link(q, a, b).prev = b
BY DEF TaskInfo, SameBut, Link

(* list_init() makes a ring of one task and changes nothing else.          *)
LEMMA ListInit ==
    ASSUME NEW ts \in [Task -> TaskInfo], NEW t \in Task, NEW new,
           new = list_init(ts, t)
    PROVE  /\ new \in [Task -> TaskInfo]
           /\ SameBut(new[t], ts[t]) /\ new[t].prev = t
           /\ \A u \in Task : u # t => new[u] = ts[u]
<1>1. PICK r : r = Link(ts[t], t, t)
  OBVIOUS
<1>2. r \in TaskInfo /\ SameBut(r, ts[t]) /\ r.prev = t
  BY <1>1, Linked
<1>3. new = [ts EXCEPT ![t] = r]
  BY <1>1 DEF list_init, TaskInfo, Link
<1> QED BY <1>2, <1>3

(* list_add_to_before() puts a task behind one that is alone on its ring.  *)
LEMMA ListAdd ==
    ASSUME NEW ts \in [Task -> TaskInfo], NEW entry \in Task, NEW t \in Task,
           t # entry, ts[entry].prev = entry, NEW new,
           new = list_add_to_before(ts, entry, t)
    PROVE  /\ new \in [Task -> TaskInfo]
           /\ new[entry].next = t
           /\ SameBut(new[t], ts[t])
<1>1. PICK r : r = Link(ts[t], entry, entry)
  OBVIOUS
<1>2. PICK q : q = Link(ts[entry], t, t)
  OBVIOUS
<1>3. r \in TaskInfo /\ SameBut(r, ts[t]) /\ q \in TaskInfo /\ q.next = t
  BY <1>1, <1>2, Linked
<1>4. new = [ts EXCEPT ![t] = r, ![entry] = q]
  BY <1>1, <1>2 DEF list_add_to_before, TaskInfo, Link
<1> QED BY <1>3, <1>4

(* do_fork() from the first task makes a task that starts at the rip of    *)
(* the frame, with the frame on its stack.                                 *)
LEMMA ForkFacts ==
    ASSUME NEW ts \in [Task -> TaskInfo], NEW fn, NEW arg,
           ts["boot"].pid = 0, ts["boot"].prev = "boot",
           get_current = "boot", Shaped(mem), do_fork(ts, ThreadRegs(fn, arg))
    PROVE  /\ task' \in [Task -> TaskInfo]
           /\ Forked(task') /\ task'["init"].rip = <<"thread_func", 0>>
           /\ Shaped(mem') /\ mem'["init"][16] = <<fn, 0>>
<1> DEFINE frame == ThreadRegs(fn, arg)
           ws == [i \in DOMAIN pt_regs |-> frame[pt_regs[Len(pt_regs) + 1 - i]]]
<1>1. /\ pt_regs[9] = "rbx" /\ pt_regs[20] = "rip" /\ DOMAIN pt_regs = 1 .. 24
      /\ Len(pt_regs) = 24
  BY DEF pt_regs
<1>2. frame["rbx"] = <<fn, 0>> /\ frame["rip"] = <<"thread_func", 0>>
  <2>1. "rbx" \in Range(pt_regs) /\ "rip" \in Range(pt_regs)
    BY <1>1 DEF Range
  <2> QED BY <2>1 DEF ThreadRegs
<1>3. Shaped(mem') /\ mem'["init"][16] = <<fn, 0>>
  <2>1. mem' = Pushed(<<"init", 0>>, ws)
    BY DEF do_fork
  <2>2. Len(ws) = 24 /\ ws[16] = <<fn, 0>>
    BY <1>1, <1>2
  <2>3. "init" \in Task
    BY DEF Task
  <2> HIDE DEF ws
  <2>4. Shaped(mem') /\ Grown(mem', mem, "init", 0, ws)
    BY <2>1, <2>2, <2>3, PushedFacts
  <2>5. mem'["init"][0 + 16] = ws[16]
    BY <2>2, <2>4, Numbers DEF Grown
  <2> QED BY <2>2, <2>4, <2>5
<1> DEFINE Copy(fs) == [ts["boot"] EXCEPT
                           !.pid = @ + 1, !.state = "running", !.fs = fs,
                           !.rsp0 = <<"init", 0>>, !.rip = frame["rip"],
                           !.rsp = <<"init", Len(pt_regs)>>]
<1>4a. PICK fs \in {"kernel", "garbage"} :
          task' = list_add_to_before(
                     list_init([ts EXCEPT !["init"] = Copy(fs)], "init"),
                     "boot", "init")
  BY DEF do_fork
<1>4b. PICK copy : copy = Copy(fs)
  OBVIOUS
<1>4. /\ copy = [ts["boot"] EXCEPT
                    !.pid = @ + 1, !.state = "running", !.fs = fs,
                    !.rsp0 = <<"init", 0>>, !.rip = frame["rip"],
                    !.rsp = <<"init", Len(pt_regs)>>]
      /\ task' = list_add_to_before(
                     list_init([ts EXCEPT !["init"] = copy], "init"),
                     "boot", "init")
  BY <1>4a, <1>4b
<1> HIDE DEF frame, Copy
<1>5. /\ copy \in TaskInfo /\ copy.rsp0 = <<"init", 0>>
      /\ copy.rsp = <<"init", 24>> /\ copy.rip = <<"thread_func", 0>>
  <2>1. PICK q \in TaskInfo : q = ts["boot"] /\ q.pid = 0
    BY DEF Task
  <2>2. copy = [q EXCEPT !.pid = 1, !.state = "running", !.fs = fs,
                         !.rsp0 = <<"init", 0>>, !.rip = <<"thread_func", 0>>,
                         !.rsp = <<"init", 24>>]
    BY <2>1, <1>1, <1>2, <1>4
  <2>3. <<"init", 0>> \in Task \X {0} /\ <<"init", 24>> \in Task \X Nat
    BY DEF Task
  <2> QED BY <2>1, <2>2, <2>3 DEF TaskInfo
<1>6. PICK t1 : t1 = [ts EXCEPT !["init"] = copy]
  OBVIOUS
<1>7. t1 \in [Task -> TaskInfo] /\ t1["init"] = copy /\ t1["boot"].prev = "boot"
  BY <1>5, <1>6 DEF Task
<1>8. PICK t2 : t2 = list_init(t1, "init")
  OBVIOUS
<1>9. /\ t2 \in [Task -> TaskInfo] /\ SameBut(t2["init"], copy)
      /\ t2["boot"].prev = "boot"
  BY <1>7, <1>8, ListInit DEF Task
<1>10. task' = list_add_to_before(t2, "boot", "init")
  BY <1>4, <1>6, <1>8
<1>11. /\ task' \in [Task -> TaskInfo] /\ task'["boot"].next = "init"
       /\ SameBut(task'["init"], t2["init"])
  BY <1>9, <1>10, ListAdd DEF Task
<1>12. Forked(task') /\ task'["init"].rip = <<"thread_func", 0>>
  BY <1>5, <1>9, <1>11 DEF Forked, SameBut
<1> QED BY <1>3, <1>11, <1>12

(* task_init() makes the ring and the frame of the new task.                *)
LEMMA TaskInitInv == Inv /\ task_init => Inv'
<1> SUFFICES ASSUME Inv, task_init
             PROVE  Inv'
  OBVIOUS
<1>1. pc[1] = "task_init" /\ ~InHandler
  BY DEF task_init, At, InHandler
<1>2. PICK m : IsNow(m) /\ Runs(m, mem["init"], task, tss_rsp0)
  BY <1>1, Running
<1>3. /\ rsp = <<"boot", InUse>> /\ user = FALSE /\ task["boot"].pid = 0
      /\ interrupts = TRUE
  <2>1. m[4] = FALSE /\ Starting(m, task) /\ m[5] = TRUE
    BY <1>1, <1>2, Where DEF IsNow, Here
  <2> QED BY <2>1, <1>2 DEF IsNow, Starting
<1>4. Types
  BY <1>1, Running
<1>5. get_current = "boot"
  BY <1>3, Numbers DEF get_current, Task
<1>6. PICK t1 : t1 = list_init(task, "boot")
  OBVIOUS
<1>7. PICK t2 : t2 = [t1 EXCEPT !["boot"].state = "running"]
  OBVIOUS
<1>8. t2 \in [Task -> TaskInfo] /\ t2["boot"].pid = 0 /\ t2["boot"].prev = "boot"
  <2>1. /\ t1 \in [Task -> TaskInfo] /\ SameBut(t1["boot"], task["boot"])
        /\ t1["boot"].prev = "boot"
    BY <1>4, <1>6, ListInit DEF Types, Task
  <2>2. PICK q \in TaskInfo : q = t1["boot"]
    BY <2>1 DEF Task
  <2>3. PICK r : r = [q EXCEPT !.state = "running"]
    OBVIOUS
  <2>4. r \in TaskInfo /\ r.pid = q.pid /\ r.prev = q.prev
    BY <2>3 DEF TaskInfo
  <2>5. t2 = [t1 EXCEPT !["boot"] = r]
    BY <2>1, <2>2, <2>3, <1>7
  <2> QED BY <2>1, <2>2, <2>4, <2>5, <1>3 DEF SameBut, Task
<1>9. do_fork(t2, ThreadRegs("init", 10))
  BY <1>6, <1>7 DEF task_init
<1>10. /\ task' \in [Task -> TaskInfo]
       /\ Forked(task') /\ task'["init"].rip = <<"thread_func", 0>>
       /\ Shaped(mem') /\ mem'["init"][16] = <<"init", 0>>
  BY <1>4, <1>5, <1>8, <1>9, ForkFacts DEF Types
<1>11. Types'
  BY <1>4, <1>10 DEF Types, task_init, AfterCall, Task
<1>12. Runs(machine, mem["init"], task, tss_rsp0)'
  BY <1>3, <1>10 DEF task_init, AfterCall, machine, Goto, Runs, Switching
<1> QED BY <1>11, <1>12, GoesOn DEF task_init, Goto

(* The state on the way from one task to the other.                        *)
LEMMA OnTheWay ==
    ASSUME Inv, pc[1] \in {"push_rbp_rax", "save_rsp", "load_rsp", "save_rip",
                           "push_rip", "switch_to"}
    PROVE  /\ Types /\ interrupts = TRUE /\ user = FALSE
           /\ Forked(task) /\ task["init"].rip = <<"thread_func", 0>>
           /\ mem["init"][16] = <<"init", 0>>
           /\ pc[1] = "push_rbp_rax" => rsp = <<"boot", InUse>>
           /\ pc[1] \in {"save_rsp", "load_rsp"} => rsp = <<"boot", InUse + 2>>
           /\ pc[1] \in {"save_rip", "push_rip"} => rsp = <<"init", 24>>
           /\ pc[1] = "switch_to" => /\ rsp = <<"init", 25>>
                                     /\ mem["init"][25] = <<"thread_func", 0>>
<1>1. ~InHandler
  BY DEF InHandler
<1>2. Types
  BY <1>1, Running
<1>3. PICK m : IsNow(m) /\ Runs(m, mem["init"], task, tss_rsp0)
  BY <1>1, Running
<1>4. m[4] = FALSE /\ Switching(m, mem["init"], task) /\ m[5] = TRUE
  BY <1>3, Where DEF IsNow, Here
<1>5. /\ m[1][1] = "push_rbp_rax" => m[2] = <<"boot", InUse>>
      /\ m[1][1] \in {"save_rsp", "load_rsp"} => m[2] = <<"boot", InUse + 2>>
      /\ m[1][1] \in {"save_rip", "push_rip"} => m[2] = <<"init", 24>>
      /\ m[1][1] = "switch_to" => /\ m[2] = <<"init", 25>>
                                  /\ mem["init"][25] = <<"thread_func", 0>>
  BY <1>4 DEF Switching
<1> QED BY <1>2, <1>3, <1>4, <1>5 DEF Switching, IsNow

(* The two words pushed lie on the stack of the first task.                 *)
LEMMA PushRbpRaxInv == Inv /\ PushRbpRax => Inv'
<1> SUFFICES ASSUME Inv, PushRbpRax
             PROVE  Inv'
  OBVIOUS
<1>1. /\ Types /\ interrupts = TRUE /\ user = FALSE
      /\ Forked(task) /\ task["init"].rip = <<"thread_func", 0>>
      /\ mem["init"][16] = <<"init", 0>> /\ rsp = <<"boot", InUse>>
  BY OnTheWay DEF PushRbpRax, At
<1>2. Shaped(mem') /\ mem'["init"] = mem["init"]
  <2>1. mem' = Pushed(<<"boot", InUse>>, <<regs["rbp"], regs["rax"]>>)
    BY <1>1 DEF PushRbpRax
  <2> DEFINE ws == <<regs["rbp"], regs["rax"]>>
  <2>2. Len(ws) \in Nat
    OBVIOUS
  <2> HIDE DEF ws
  <2>3. Shaped(mem') /\ Grown(mem', mem, "boot", InUse, ws)
    BY <2>1, <2>2, <1>1, PushedFacts, Numbers DEF ws, Types, Task
  <2> QED BY <2>3 DEF Grown, Task
<1>3. Types'
  BY <1>1, <1>2 DEF Types, PushRbpRax
<1>4. Runs(machine, mem["init"], task, tss_rsp0)'
  BY <1>1, <1>2, Numbers
     DEF PushRbpRax, Types, Below, machine, Goto, Runs, Switching
<1> QED BY <1>3, <1>4, GoesOn DEF PushRbpRax, Goto

(* Saving rsp leaves what the new task starts from.                         *)
LEMMA SaveRspInv == Inv /\ SaveRsp => Inv'
<1> SUFFICES ASSUME Inv, SaveRsp
             PROVE  Inv'
  OBVIOUS
<1>1. /\ Types /\ interrupts = TRUE /\ user = FALSE
      /\ Forked(task) /\ task["init"].rip = <<"thread_func", 0>>
      /\ mem["init"][16] = <<"init", 0>> /\ rsp = <<"boot", InUse + 2>>
  BY OnTheWay DEF SaveRsp, At
<1>2. /\ task' \in [Task -> TaskInfo] /\ Forked(task')
      /\ task'["init"].rip = <<"thread_func", 0>>
  <2>1. PICK q \in TaskInfo : q = task["boot"]
    BY <1>1 DEF Types, Task
  <2>2. rsp \in Task \X Nat
    BY <1>1, Numbers DEF Task
  <2>3. PICK r : r = [q EXCEPT !.rsp = rsp]
    OBVIOUS
  <2>4. r \in TaskInfo /\ r.next = q.next
    BY <2>2, <2>3 DEF TaskInfo
  <2>5. task' = [task EXCEPT !["boot"] = r]
    BY <2>1, <2>3 DEF SaveRsp
  <2> QED BY <1>1, <2>1, <2>4, <2>5 DEF Types, Forked, Task
<1>3. Types'
  BY <1>1, <1>2 DEF Types, SaveRsp
<1>4. Runs(machine, mem["init"], task, tss_rsp0)'
  BY <1>1, <1>2 DEF SaveRsp, Types, machine, Goto, Runs, Switching
<1> QED BY <1>3, <1>4, GoesOn DEF SaveRsp, Goto

(* rsp becomes the new task's, above its frame.                             *)
LEMMA LoadRspInv == Inv /\ LoadRsp => Inv'
<1> SUFFICES ASSUME Inv, LoadRsp
             PROVE  Inv'
  OBVIOUS
<1>1. /\ Types /\ interrupts = TRUE /\ user = FALSE
      /\ Forked(task) /\ task["init"].rip = <<"thread_func", 0>>
      /\ mem["init"][16] = <<"init", 0>>
  BY OnTheWay DEF LoadRsp, At
<1>2. rsp' = <<"init", 24>>
  BY <1>1 DEF LoadRsp, NextTask, Forked
<1>3. Types'
  BY <1>1 DEF Types, LoadRsp
<1>4. Runs(machine, mem["init"], task, tss_rsp0)'
  BY <1>1, <1>2 DEF LoadRsp, Types, machine, Goto, Runs, Switching
<1> QED BY <1>3, <1>4, GoesOn DEF LoadRsp, Goto

(* Saving rip leaves what the new task starts from.                         *)
LEMMA SaveRipInv == Inv /\ SaveRip => Inv'
<1> SUFFICES ASSUME Inv, SaveRip
             PROVE  Inv'
  OBVIOUS
<1>1. /\ Types /\ interrupts = TRUE /\ user = FALSE
      /\ Forked(task) /\ task["init"].rip = <<"thread_func", 0>>
      /\ mem["init"][16] = <<"init", 0>> /\ rsp = <<"init", 24>>
  BY OnTheWay DEF SaveRip, At
<1>2. /\ task' \in [Task -> TaskInfo] /\ Forked(task')
      /\ task'["init"].rip = <<"thread_func", 0>>
  <2>1. PICK q \in TaskInfo : q = task["boot"]
    BY <1>1 DEF Types, Task
  <2>2. PICK r : r = [q EXCEPT !.rip = <<"switched_back", 0>>]
    OBVIOUS
  <2>3. r \in TaskInfo /\ r.next = q.next
    BY <2>2 DEF TaskInfo
  <2>4. task' = [task EXCEPT !["boot"] = r]
    BY <2>1, <2>2 DEF SaveRip
  <2> QED BY <1>1, <2>1, <2>3, <2>4 DEF Types, Forked, Task
<1>3. Types'
  BY <1>1, <1>2 DEF Types, SaveRip
<1>4. Runs(machine, mem["init"], task, tss_rsp0)'
  BY <1>1, <1>2 DEF SaveRip, Types, machine, Goto, Runs, Switching
<1> QED BY <1>3, <1>4, GoesOn DEF SaveRip, Goto

(* The rip of the new task is where the ret takes it.                       *)
LEMMA PushRipInv == Inv /\ PushRip => Inv'
<1> SUFFICES ASSUME Inv, PushRip
             PROVE  Inv'
  OBVIOUS
<1>1. /\ Types /\ interrupts = TRUE /\ user = FALSE
      /\ Forked(task) /\ task["init"].rip = <<"thread_func", 0>>
      /\ mem["init"][16] = <<"init", 0>> /\ rsp = <<"init", 24>>
  BY OnTheWay DEF PushRip, At
<1>2. /\ Shaped(mem') /\ mem'["init"][16] = <<"init", 0>>
      /\ mem'["init"][25] = <<"thread_func", 0>>
  <2> DEFINE ws == <<task[NextTask].rip>>
  <2>1. mem' = Pushed(<<"init", 24>>, ws)
    BY <1>1 DEF PushRip
  <2>2. Len(ws) = 1 /\ ws[1] = <<"thread_func", 0>>
    BY <1>1 DEF NextTask, Forked
  <2> HIDE DEF ws
  <2>3. Shaped(mem') /\ Grown(mem', mem, "init", 24, ws)
    BY <2>1, <2>2, <1>1, PushedFacts DEF Types, Task
  <2>4. mem'["init"][24 + 1] = ws[1] /\ mem'["init"][16] = mem["init"][16]
    BY <2>2, <2>3, Numbers DEF Grown
  <2> QED BY <1>1, <2>2, <2>3, <2>4
<1>3. Types'
  BY <1>1, <1>2 DEF Types, PushRip
<1>4. Runs(machine, mem["init"], task, tss_rsp0)'
  BY <1>1, <1>2 DEF PushRip, Types, Below, machine, Goto, Runs, Switching
<1> QED BY <1>3, <1>4, GoesOn DEF PushRip, Goto

(* The ret lands in kernel_thread_func, or the fs raises the exception.     *)
LEMMA SwitchToInv == Inv /\ __switch_to => Inv'
<1> SUFFICES ASSUME Inv, __switch_to
             PROVE  Inv'
  OBVIOUS
<1>1. /\ Types /\ interrupts = TRUE /\ user = FALSE
      /\ Forked(task) /\ mem["init"][16] = <<"init", 0>>
      /\ rsp = <<"init", 25>> /\ mem["init"][25] = <<"thread_func", 0>>
  BY OnTheWay DEF __switch_to, At
<1>2. task' \in [Task -> TaskInfo] /\ Forked(task')
  <2>1. PICK q \in TaskInfo : q = task["boot"]
    BY <1>1 DEF Types, Task
  <2>2. PICK r : r = [q EXCEPT !.fs = "kernel"]
    OBVIOUS
  <2>3. r \in TaskInfo /\ r.next = q.next
    BY <2>2 DEF TaskInfo
  <2>4. task' = [task EXCEPT !["boot"] = r]
    BY <2>1, <2>2 DEF __switch_to
  <2> QED BY <1>1, <2>1, <2>3, <2>4 DEF Types, Forked, Task
<1>3. tss_rsp0' = <<"init", 0>>
  BY <1>1 DEF __switch_to, NextTask, Forked
<1>4. Types'
  BY <1>1, <1>2, <1>3 DEF Types, __switch_to, AfterCall, Task
<1>5. CASE task[NextTask].fs = "garbage"
  <2>1. pc' = <<"general_protection", 0>> /\ rsp' = <<"init", 25>>
    BY <1>1, <1>5 DEF __switch_to, Goto
  <2>2. Runs(machine, mem["init"], task, tss_rsp0)'
    BY <1>1, <2>1 DEF __switch_to, AfterCall, machine, Runs, Failing
  <2> QED BY <1>4, <2>1, <2>2, GoesOn
<1>6. CASE task[NextTask].fs # "garbage"
  <2>1. pc' = <<"thread_func", 0>> /\ rsp' = <<"init", 24>>
    BY <1>1, <1>6 DEF __switch_to, Word, Above
  <2>2. Threading(machine, mem["init"], 0)'
    BY <1>1, <2>1 DEF __switch_to, machine, Threading
  <2>3. Runs(machine, mem["init"], task, tss_rsp0)'
    BY <1>1, <1>2, <1>3, <2>2 DEF __switch_to, AfterCall, machine, Runs
  <2> QED BY <1>4, <2>1, <2>3, GoesOn
<1> QED BY <1>5, <1>6

(* The frame of the exception fits on the stack of the new task.            *)
LEMMA GeneralProtectionInv == Inv /\ general_protection => Inv'
<1> SUFFICES ASSUME Inv, general_protection
             PROVE  Inv'
  OBVIOUS
<1>1. pc[1] = "general_protection" /\ ~InHandler
  BY DEF general_protection, At, InHandler
<1>2. PICK m : IsNow(m) /\ Runs(m, mem["init"], task, tss_rsp0)
  BY <1>1, Running
<1>3. Types /\ rsp = <<"init", 25>> /\ user = FALSE /\ interrupts = TRUE
  <2>1. m[4] = FALSE /\ Failing(m) /\ m[5] = TRUE
    BY <1>1, <1>2, Where DEF IsNow, Here
  <2> QED BY <2>1, <1>1, <1>2, Running DEF IsNow, Failing
<1>4. PICK ws : ws = Saved(<<"selector", "garbage">>,
                           <<"do_general_protection", 0>>)
  OBVIOUS
<1>5. Len(ws) = 24
  BY <1>4, SavedLength
<1>6. mem' = Pushed(<<"init", 25>>, ws) /\ rsp' = <<"init", 25 + 24>>
  BY <1>3, <1>4, <1>5 DEF general_protection, DeliveredOn, Below
<1>7. Shaped(mem')
  BY <1>3, <1>5, <1>6, PushedFacts DEF Types, Task
<1>8. Types'
  BY <1>3, <1>7 DEF Types, general_protection, AfterCall
<1>9. Runs(machine, mem["init"], task, tss_rsp0)'
  BY <1>3, <1>6
     DEF general_protection, AfterCall, machine, Goto, Runs, Failing
<1> QED BY <1>8, <1>9, GoesOn DEF general_protection, Goto

(* The state at one of the popq of the two epilogues.                      *)
LEMMA AtPop ==
    ASSUME Inv, pc[1] \in {"thread_func", "ret_system_call"}
    PROVE  /\ Types /\ interrupts = TRUE /\ user = FALSE
           /\ Forked(task) /\ tss_rsp0 = <<"init", 0>>
           /\ \E n \in 0 .. 17 :
                 /\ pc = <<pc[1], n>> /\ rsp = <<"init", 24 - n>>
                 /\ pc[1] = "thread_func" => Threading(machine, mem["init"], n)
                 /\ pc[1] = "ret_system_call" =>
                       Returning(machine, mem["init"], n)
<1>1. ~InHandler
  BY DEF InHandler
<1>2. Types
  BY <1>1, Running
<1>3. Runs(machine, mem["init"], task, tss_rsp0)
  BY <1>1 DEF Inv
<1>4. IsNow(machine)
  BY DEF IsNow, machine
<1>5. PICK m : m = machine /\ IsNow(m) /\ Runs(m, mem["init"], task, tss_rsp0)
  BY <1>3, <1>4
<1>6. /\ m[4] = FALSE /\ m[5] = TRUE /\ Forked(task) /\ tss_rsp0 = <<"init", 0>>
      /\ m[1][1] = "thread_func" =>
            \E n \in 0 .. 17 : Threading(m, mem["init"], n)
      /\ m[1][1] = "ret_system_call" =>
            \E n \in 0 .. 17 : Returning(m, mem["init"], n)
  <2>1. Here(m, mem["init"], task, tss_rsp0)
    BY <1>5, Where
  <2>2. m[1][1] \in {"thread_func", "ret_system_call"}
    BY <1>5 DEF IsNow
  <2> QED BY <2>1, <2>2 DEF Here
<1>7. CASE pc[1] = "thread_func"
  <2>1. PICK n \in 0 .. 17 : Threading(m, mem["init"], n)
    BY <1>4, <1>5, <1>6, <1>7 DEF IsNow
  <2>2. pc = <<"thread_func", n>> /\ rsp = <<"init", 24 - n>>
    BY <2>1, <1>4, <1>5 DEF IsNow, Threading
  <2> QED BY <2>1, <2>2, <1>2, <1>4, <1>5, <1>6, <1>7 DEF IsNow
<1>8. CASE pc[1] = "ret_system_call"
  <2>1. PICK n \in 0 .. 17 : Returning(m, mem["init"], n)
    BY <1>4, <1>5, <1>6, <1>8 DEF IsNow
  <2>2. pc = <<"ret_system_call", n>> /\ rsp = <<"init", 24 - n>>
    BY <2>1, <1>4, <1>5 DEF IsNow, Returning
  <2> QED BY <2>1, <2>2, <1>2, <1>4, <1>5, <1>6, <1>8 DEF IsNow
<1> QED BY <1>7, <1>8

(* Each popq takes the word of its register.                                *)
LEMMA PopInv == Inv /\ Pop => Inv'
<1> SUFFICES ASSUME Inv, Pop
             PROVE  Inv'
  OBVIOUS
<1>1. pc[1] \in {"thread_func", "ret_system_call"} /\ pc[2] < 17
  BY Orders DEF Pop
<1>2. /\ Types /\ interrupts = TRUE /\ user = FALSE
      /\ Forked(task) /\ tss_rsp0 = <<"init", 0>>
  BY <1>1, AtPop
<1>3. PICK n \in 0 .. 17 :
         /\ pc = <<pc[1], n>> /\ rsp = <<"init", 24 - n>>
         /\ pc[1] = "thread_func" => Threading(machine, mem["init"], n)
         /\ pc[1] = "ret_system_call" => Returning(machine, mem["init"], n)
  BY <1>1, AtPop
<1>4. /\ n \in 0 .. 16 /\ n + 1 \in 0 .. 17 /\ pc' = <<pc[1], n + 1>>
      /\ rsp' = <<"init", 24 - (n + 1)>>
      /\ regs' = [regs EXCEPT ![PopOrder[n + 1]] = mem["init"][24 - n]]
  <2>1. n \in 0 .. 16 /\ pc[2] = n
    BY <1>1, <1>3
  <2>2. /\ pc' = <<pc[1], pc[2] + 1>> /\ rsp' = <<"init", (24 - n) - 1>>
        /\ regs' = [regs EXCEPT ![PopOrder[pc[2] + 1]] = mem["init"][24 - n]]
    BY <1>3 DEF Pop, Above, Word
  <2> QED BY <2>1, <2>2
<1>5. /\ PopOrder[n + 1] \in Reg
      /\ regs'[PopOrder[n + 1]] = mem["init"][24 - n]
      /\ \A r \in Reg : r # PopOrder[n + 1] => regs'[r] = regs[r]
      /\ regs' = [r \in Reg |-> regs'[r]]
  <2>1. PopOrder[n + 1] \in Reg
    BY <1>4, Orders
  <2> QED BY <2>1, <1>2, <1>4 DEF Types
<1>6. Types'
  BY <1>2, <1>5 DEF Types, Pop
<1>7. mem' = mem /\ task' = task /\ tss_rsp0' = tss_rsp0 /\ user' = user
      /\ interrupts' = interrupts
  BY DEF Pop
<1>8. /\ n = 8 <=> PopOrder[n + 1] = "rbx"
      /\ n = 4 <=> PopOrder[n + 1] = "r11"
      /\ n = 5 <=> PopOrder[n + 1] = "r10"
      /\ n = 14 <=> PopOrder[n + 1] = "ds"
      /\ n = 15 <=> PopOrder[n + 1] = "es"
  BY <1>4, Named, Orders
<1>9. CASE pc[1] = "thread_func"
  <2>1. /\ n < 9 => mem["init"][16] = <<"init", 0>>
        /\ n >= 9 => regs["rbx"] = <<"init", 0>>
    BY <1>3, <1>9 DEF Threading, machine
  <2>2. n + 1 >= 9 => regs'["rbx"] = <<"init", 0>>
    <3>1. CASE n = 8
      BY <3>1, <2>1, <1>5, <1>8
    <3>2. CASE n >= 9
      BY <3>2, <2>1, <1>5, <1>8, Named
    <3> QED BY <3>1, <3>2, <1>4
  <2>3. Threading(machine, mem["init"], n + 1)'
    BY <2>1, <2>2, <1>4, <1>7, <1>9 DEF Threading, machine
  <2>4. Runs(machine, mem["init"], task, tss_rsp0)'
    BY <2>3, <1>2, <1>4, <1>5, <1>7 DEF Runs, machine
  <2> QED BY <2>4, <1>4, <1>6, <1>9, GoesOn
<1>10. CASE pc[1] = "ret_system_call"
  <2>1. Returning(machine, mem["init"], n)
    BY <1>3, <1>10
  <2>2. /\ mem["init"][20] = UserRsp /\ mem["init"][19] = UserRip
        /\ mem["init"][10] = UserDs /\ mem["init"][9] = UserDs
        /\ n >= 5 => regs["r11"] = UserRsp
        /\ n >= 6 => regs["r10"] = UserRip
        /\ n >= 15 => regs["ds"] = UserDs
        /\ n >= 16 => regs["es"] = UserDs
    BY <2>1 DEF Returning, machine
  <2>3. n + 1 >= 5 => regs'["r11"] = UserRsp
    BY <2>2, <1>4, <1>5, <1>8, Named
  <2>4. n + 1 >= 6 => regs'["r10"] = UserRip
    BY <2>2, <1>4, <1>5, <1>8, Named
  <2>5. n + 1 >= 15 => regs'["ds"] = UserDs
    BY <2>2, <1>4, <1>5, <1>8, Named
  <2>6. n + 1 >= 16 => regs'["es"] = UserDs
    BY <2>2, <1>4, <1>5, <1>8, Named
  <2>7. Returning(machine, mem["init"], n + 1)'
    BY <2>2, <2>3, <2>4, <2>5, <2>6, <1>4, <1>7, <1>10
       DEF Returning, machine
  <2>8. Runs(machine, mem["init"], task, tss_rsp0)'
    BY <2>7, <1>2, <1>4, <1>5, <1>7 DEF Runs, machine
  <2> QED BY <2>8, <1>4, <1>6, <1>10, GoesOn
<1> QED BY <1>1, <1>9, <1>10

(* kernel_thread_func calls init() on the emptied stack.                    *)
LEMMA CallThreadInv == Inv /\ CallThread => Inv'
<1> SUFFICES ASSUME Inv, CallThread
             PROVE  Inv'
  OBVIOUS
<1>1. pc = <<"thread_func", 17>>
  BY Orders DEF CallThread
<1>2. /\ Types /\ interrupts = TRUE /\ user = FALSE
      /\ Forked(task) /\ tss_rsp0 = <<"init", 0>>
  BY <1>1, AtPop
<1>3. rsp = <<"init", 7>> /\ regs["rbx"] = <<"init", 0>>
  <2>1. PICK n \in 0 .. 17 :
           /\ pc = <<pc[1], n>> /\ rsp = <<"init", 24 - n>>
           /\ Threading(machine, mem["init"], n)
    BY <1>1, AtPop
  <2>2. n = 17
    BY <2>1, <1>1
  <2> QED BY <2>1, <2>2 DEF Threading, machine
<1>4. Shaped(mem')
  <2> DEFINE ws == <<<<"do_exit", 0>>>>
  <2>1. mem' = Pushed(<<"init", 0>>, ws) /\ Len(ws) = 1
    BY <1>3 DEF CallThread, Above
  <2> QED BY <2>1, <1>2, PushedFacts DEF Types, Task
<1>5. pc' = <<"init", 0>> /\ rsp' = <<"init", 1>>
  BY <1>3 DEF CallThread, Above
<1>6. Types'
  BY <1>2, <1>4 DEF Types, CallThread
<1>7. Runs(machine, mem["init"], task, tss_rsp0)'
  BY <1>2, <1>5 DEF CallThread, Types, machine, Runs, Executing
<1> QED BY <1>5, <1>6, <1>7, GoesOn

(* init() hands a frame to do_execve(), below a return address.             *)
LEMMA InitFunctionInv == Inv /\ init => Inv'
<1> SUFFICES ASSUME Inv, init
             PROVE  Inv'
  OBVIOUS
<1>1. pc[1] = "init" /\ ~InHandler
  BY DEF init, At, InHandler
<1>2. PICK m : IsNow(m) /\ Runs(m, mem["init"], task, tss_rsp0)
  BY <1>1, Running
<1>3. /\ Types /\ rsp = <<"init", 1>> /\ user = FALSE /\ interrupts = TRUE
      /\ Forked(task) /\ tss_rsp0 = <<"init", 0>>
  <2>1. /\ m[4] = FALSE /\ Executing(m, mem["init"]) /\ m[5] = TRUE
        /\ Forked(task) /\ tss_rsp0 = <<"init", 0>>
    <3>1. Here(m, mem["init"], task, tss_rsp0)
      BY <1>2, Where
    <3>2. m[1][1] = "init"
      BY <1>1, <1>2 DEF IsNow
    <3> QED BY <3>1, <3>2 DEF Here
  <2>2. m[2] = <<"init", 1>>
    BY <2>1, <1>1, <1>2 DEF IsNow, Executing
  <2> QED BY <2>1, <2>2, <1>1, <1>2, Running DEF IsNow
<1>4. get_current = "init" /\ Len(pt_regs) = 24
  BY <1>3, Orders DEF get_current, Task
<1>5. /\ task' \in [Task -> TaskInfo] /\ Forked(task')
  <2>1. PICK q \in TaskInfo : q = task["init"]
    BY <1>3 DEF Types, Task
  <2>2. PICK r : r = [q EXCEPT !.rip = <<"ret_system_call", 0>>,
                               !.rsp = <<"init", 24>>]
    OBVIOUS
  <2>3. <<"init", 24>> \in Task \X Nat
    BY DEF Task
  <2>4. r \in TaskInfo /\ r.rsp = <<"init", 24>> /\ r.rsp0 = q.rsp0
    BY <2>2, <2>3 DEF TaskInfo
  <2>5. task' = [task EXCEPT !["init"] = r]
    BY <2>1, <2>2, <1>3, <1>4 DEF init, Types
  <2> QED BY <1>3, <2>1, <2>4, <2>5 DEF Types, Forked, Task
<1>6. Shaped(mem') /\ mem'["init"][25] = <<"ret_system_call", 0>>
  <2> DEFINE f == [i \in DOMAIN mem["init"] |->
                      IF i = 24 + 1 THEN <<"ret_system_call", 0>>
                      ELSE IF i > rsp[2] THEN Junk ELSE mem["init"][i]]
  <2>1. mem' = [mem EXCEPT !["init"] = f]
    BY <1>4 DEF init
  <2>2. DOMAIN mem = Task /\ \A s \in Task : DOMAIN mem[s] = 1 .. Depth
    BY <1>3 DEF Types, Shaped
  <2>3. "init" \in Task
    BY DEF Task
  <2>4. DOMAIN f = 1 .. Depth /\ f[25] = <<"ret_system_call", 0>>
    BY <2>2, <2>3, Numbers
  <2> HIDE DEF f
  <2> QED BY <2>1, <2>2, <2>3, <2>4 DEF Shaped
<1>7. pc' = <<"do_execve", 0>> /\ rsp' = <<"init", 25>>
  BY <1>4 DEF init, Goto, Below
<1>8. Types'
  BY <1>3, <1>5, <1>6 DEF Types, init, AfterCall
<1>9. Runs(machine, mem["init"], task, tss_rsp0)'
  BY <1>3, <1>5, <1>6, <1>7 DEF init, AfterCall, machine, Runs, Executing
<1> QED BY <1>7, <1>8, <1>9, GoesOn

(* do_execve() writes the words the epilogue pops into r10, r11, ds and es. *)
LEMMA FieldsSet ==
    ASSUME Shaped(mem), NEW values,
           values = [r10 |-> UserRip, r11 |-> UserRsp, rax |-> <<"one", 1>>,
                     ds |-> UserDs, es |-> UserDs],
           SetFields(<<"init", 24>>, values)
    PROVE  /\ Shaped(mem')
           /\ mem'["init"][19] = UserRip /\ mem'["init"][20] = UserRsp
           /\ mem'["init"][10] = UserDs /\ mem'["init"][9] = UserDs
<1> DEFINE at(f) == FieldAt(<<"init", 24>>, f)
           g == [i \in DOMAIN mem["init"] |->
                    IF \E f \in DOMAIN values : i = at(f)
                    THEN values[CHOOSE f \in DOMAIN values : i = at(f)]
                    ELSE mem["init"][i]]
<1>1. mem' = [mem EXCEPT !["init"] = g]
  BY DEF SetFields
<1>2. DOMAIN mem = Task /\ \A s \in Task : DOMAIN mem[s] = 1 .. Depth
  BY DEF Shaped
<1>3. "init" \in Task
  BY DEF Task
<1>4. DOMAIN g = 1 .. Depth
  BY <1>2, <1>3
<1>5. /\ DOMAIN values = {"r10", "r11", "rax", "ds", "es"}
      /\ values["r10"] = UserRip /\ values["r11"] = UserRsp
      /\ values["ds"] = UserDs /\ values["es"] = UserDs
  OBVIOUS
<1>6. /\ at("r10") = 19 /\ at("r11") = 20 /\ at("ds") = 10 /\ at("es") = 9
      /\ at("rax") = 8
  BY Places
<1>7. ASSUME NEW f \in DOMAIN values
      PROVE  g[at(f)] = values[f]
  <2>1. at(f) \in DOMAIN mem["init"]
    BY <1>2, <1>3, <1>5, <1>6, Numbers
  <2>2. \A e \in DOMAIN values : at(e) = at(f) => e = f
    BY <1>5, <1>6
  <2> DEFINE e == CHOOSE e \in DOMAIN values : at(f) = at(e)
  <2>3. e \in DOMAIN values /\ at(f) = at(e)
    OBVIOUS
  <2>4. g[at(f)] = values[e]
    BY <2>1
  <2> HIDE DEF e
  <2> QED BY <2>2, <2>3, <2>4
<1> HIDE DEF g
<1>8. /\ g[19] = UserRip /\ g[20] = UserRsp /\ g[10] = UserDs /\ g[9] = UserDs
  <2>1. /\ g[at("r10")] = UserRip /\ g[at("r11")] = UserRsp
        /\ g[at("ds")] = UserDs /\ g[at("es")] = UserDs
    BY <1>5, <1>7
  <2> QED BY <2>1, <1>6
<1> QED BY <1>1, <1>2, <1>3, <1>4, <1>8 DEF Shaped

(* do_execve() fills in the frame and returns to ret_system_call.           *)
LEMMA DoExecveInv == Inv /\ do_execve => Inv'
<1> SUFFICES ASSUME Inv, do_execve
             PROVE  Inv'
  OBVIOUS
<1>1. pc[1] = "do_execve" /\ ~InHandler
  BY DEF do_execve, At, InHandler
<1>2. PICK m : IsNow(m) /\ Runs(m, mem["init"], task, tss_rsp0)
  BY <1>1, Running
<1>3. /\ Types /\ rsp = <<"init", 25>> /\ user = FALSE /\ interrupts = TRUE
      /\ Forked(task) /\ tss_rsp0 = <<"init", 0>>
      /\ mem["init"][25] = <<"ret_system_call", 0>>
  <2>1. /\ m[4] = FALSE /\ Executing(m, mem["init"]) /\ m[5] = TRUE
        /\ Forked(task) /\ tss_rsp0 = <<"init", 0>>
    <3>1. Here(m, mem["init"], task, tss_rsp0)
      BY <1>2, Where
    <3>2. m[1][1] = "do_execve"
      BY <1>1, <1>2 DEF IsNow
    <3> QED BY <3>1, <3>2 DEF Here
  <2>2. /\ m[2] = <<"init", 25>>
        /\ mem["init"][25] = <<"ret_system_call", 0>>
    BY <2>1, <1>1, <1>2 DEF IsNow, Executing
  <2> QED BY <2>1, <2>2, <1>1, <1>2, Running DEF IsNow
<1>4. PICK values :
         /\ values = [r10 |-> UserRip, r11 |-> UserRsp, rax |-> <<"one", 1>>,
                      ds |-> UserDs, es |-> UserDs]
         /\ SetFields(<<"init", 24>>, values)
  BY <1>3 DEF do_execve, Above
<1>5. /\ Shaped(mem')
      /\ mem'["init"][19] = UserRip /\ mem'["init"][20] = UserRsp
      /\ mem'["init"][10] = UserDs /\ mem'["init"][9] = UserDs
  BY <1>3, <1>4, FieldsSet DEF Types
<1>6. pc' = <<"ret_system_call", 0>> /\ rsp' = <<"init", 24>>
  BY <1>3 DEF do_execve, Word, Above
<1>7. Types'
  BY <1>3, <1>5 DEF Types, do_execve, AfterCall
<1>8. Returning(machine, mem["init"], 0)'
  BY <1>5, <1>6 DEF Returning, machine
<1>9. Runs(machine, mem["init"], task, tss_rsp0)'
  BY <1>3, <1>8 DEF do_execve, AfterCall, machine, Runs
<1> QED BY <1>6, <1>7, <1>9, GoesOn

(* sysexit takes rip and rsp of the game from r10 and r11.                  *)
LEMMA SysexitInv == Inv /\ sysexit => Inv'
<1> SUFFICES ASSUME Inv, sysexit
             PROVE  Inv'
  OBVIOUS
<1>1. pc = <<"ret_system_call", 17>>
  BY Orders DEF sysexit
<1>2. /\ Types /\ Forked(task) /\ tss_rsp0 = <<"init", 0>>
  BY <1>1, AtPop
<1>3. /\ regs["r10"] = UserRip /\ regs["r11"] = UserRsp
      /\ regs["ds"] = UserDs /\ regs["es"] = UserDs
  <2>1. PICK n \in 0 .. 17 :
           /\ pc = <<pc[1], n>> /\ Returning(machine, mem["init"], n)
    BY <1>1, AtPop
  <2>2. n = 17
    BY <2>1, <1>1
  <2> QED BY <2>1, <2>2 DEF Returning, machine
<1>4. /\ regs' = [r \in Reg |-> regs'[r]]
      /\ regs'["ds"] = UserDs /\ regs'["es"] = UserDs
  BY <1>2, <1>3, Named DEF Types, sysexit
<1>5. pc' = UserRip /\ rsp' = UserRsp
  BY <1>3 DEF sysexit
<1>6. Types'
  BY <1>2, <1>4 DEF Types, sysexit
<1>7. Runs(machine, mem["init"], task, tss_rsp0)'
  BY <1>2, <1>4, <1>5 DEF sysexit, machine, Runs, Playing
<1> QED BY <1>5, <1>6, <1>7, GoesOn DEF UserRip

(* The game keeps its segments.                                             *)
LEMMA GameInv == Inv /\ Game => Inv'
<1> SUFFICES ASSUME Inv, Game
             PROVE  Inv'
  OBVIOUS
<1>1. pc[1] = "game" /\ ~InHandler
  BY DEF Game, At, InHandler
<1>2. PICK m : IsNow(m) /\ Runs(m, mem["init"], task, tss_rsp0)
  BY <1>1, Running
<1>3. /\ Types /\ pc = UserRip /\ rsp = UserRsp /\ user = TRUE
      /\ interrupts = TRUE /\ Forked(task) /\ tss_rsp0 = <<"init", 0>>
      /\ regs["ds"] = UserDs /\ regs["es"] = UserDs
  <2>1. /\ m[4] = TRUE /\ Playing(m) /\ m[5] = TRUE
        /\ Forked(task) /\ tss_rsp0 = <<"init", 0>>
    <3>1. Here(m, mem["init"], task, tss_rsp0)
      BY <1>2, Where
    <3>2. m[1][1] = "game"
      BY <1>1, <1>2 DEF IsNow
    <3> QED BY <3>1, <3>2 DEF Here
  <2> QED BY <2>1, <1>1, <1>2, Running DEF IsNow, Playing
<1>4. /\ regs' = [r \in Reg |-> regs'[r]]
      /\ regs'["ds"] = UserDs /\ regs'["es"] = UserDs
  BY <1>3, Named DEF Game
<1>5. Types'
  BY <1>3, <1>4 DEF Types, Game
<1>6. Runs(machine, mem["init"], task, tss_rsp0)'
  BY <1>3, <1>4 DEF Game, machine, Runs, Playing
<1> QED BY <1>1, <1>5, <1>6, GoesOn DEF Game

-----------------------------------------------------------------------------
(* The interrupt. *)

(* What is true inside of the handler.                                     *)
LEMMA Handling ==
    ASSUME Inv, InHandler
    PROVE  /\ Types /\ interrupts = FALSE /\ user = FALSE
           /\ Frame(IstWords(mem["init"]), interrupted.machine)
           /\ Runs(interrupted.machine, mem["init"], task, tss_rsp0)
           /\ AloneAbove(mem, interrupted.mem)
           /\ pc[1] = "do_IRQ" =>
                 /\ rsp = <<"init", IstAt + 25>>
                 /\ IstWords(mem["init"])[25] = <<"restore_all", 0>>
           /\ pc[1] = "restore_all" => rsp = <<"init", IstAt + 24>>
<1>1. /\ Types
      /\ Handles(machine, IstWords(mem["init"]), interrupted.machine)
      /\ Runs(interrupted.machine, mem["init"], task, tss_rsp0)
      /\ AloneAbove(mem, interrupted.mem)
  BY DEF Inv
<1> QED BY <1>1 DEF Handles, machine

(* What the program needs of the new task's stack lies above the IST.      *)
LEMMA RunsAbove ==
    ASSUME NEW m, NEW w, NEW new, NEW ts, NEW tss, Runs(m, w, ts, tss),
           \A i \in 1 .. IstAt : new[i] = w[i]
    PROVE  Runs(m, new, ts, tss)
<1>1. /\ new[25] = w[25] /\ new[16] = w[16] /\ new[20] = w[20]
      /\ new[19] = w[19] /\ new[10] = w[10] /\ new[9] = w[9]
  <2>1. {25, 16, 20, 19, 10, 9} \subseteq 1 .. IstAt
    BY Numbers
  <2> QED BY <2>1
<1>2. Switching(m, w, ts) => Switching(m, new, ts)
  BY <1>1 DEF Switching
<1>3. \A n \in 0 .. 17 : Threading(m, w, n) => Threading(m, new, n)
  BY <1>1 DEF Threading
<1>4. Executing(m, w) => Executing(m, new)
  BY <1>1 DEF Executing
<1>5. \A n \in 0 .. 17 : Returning(m, w, n) => Returning(m, new, n)
  BY <1>1 DEF Returning
<1> QED BY <1>2, <1>3, <1>4, <1>5 DEF Runs

(* Pushing words from the IST on, or behind those, leaves the rest alone.  *)
LEMMA PushedBelow ==
    ASSUME NEW new, NEW old, NEW n \in Nat, NEW ws,
           Grown(new, old, "init", IstAt + n, ws)
    PROVE  /\ AloneAbove(new, old)
           /\ \A i \in 1 .. 25 : i <= n =>
                 IstWords(new["init"])[i] = IstWords(old["init"])[i]
<1>1. new["boot"] = old["boot"]
  BY DEF Grown, Task
<1>2. \A i \in 1 .. Depth : i <= IstAt + n => new["init"][i] = old["init"][i]
  BY DEF Grown
<1>3. ASSUME NEW i \in 1 .. IstAt
      PROVE  new["init"][i] = old["init"][i]
  <2>1. i \in 1 .. Depth /\ i <= IstAt + n
    BY Numbers
  <2> QED BY <2>1, <1>2
<1>4. ASSUME NEW i \in 1 .. 25, i <= n
      PROVE  IstWords(new["init"])[i] = IstWords(old["init"])[i]
  <2>1. IstAt + i \in 1 .. Depth /\ IstAt + i <= IstAt + n
    BY <1>4, Numbers
  <2> QED BY <2>1, <1>2 DEF IstWords
<1> QED BY <1>1, <1>3, <1>4 DEF AloneAbove

(* The entry saves the machine from the IST on.                            *)
LEMMA KeyInterruptInv == Inv /\ KeyInterrupt => Inv'
<1> SUFFICES ASSUME Inv, KeyInterrupt
             PROVE  Inv'
  OBVIOUS
<1>1. ~InHandler
  BY Handling DEF KeyInterrupt
<1>2. Types /\ Runs(machine, mem["init"], task, tss_rsp0)
  BY <1>1 DEF Inv
<1>3. PICK ws : ws = Saved(<<"zero", 0>>, regs["rax"]) \o <<<<"restore_all", 0>>>>
  OBVIOUS
<1>4. Len(ws) = 25 /\ Frame(ws, machine) /\ ws[25] = <<"restore_all", 0>>
  <2>1. Keeps(Saved(<<"zero", 0>>, regs["rax"]), <<"restore_all", 0>>, machine)
    BY SavedFacts
  <2> QED BY <2>1, <1>3 DEF Keeps
<1>5. DeliveredOn(IrqGate.ist) = <<"init", IstAt>> /\ IrqGate.clears_if = TRUE
  BY DEF DeliveredOn, IrqGate
<1>6. /\ mem' = Pushed(<<"init", IstAt>>, ws) /\ rsp' = <<"init", IstAt + 25>>
      /\ interrupts' = FALSE /\ user' = FALSE /\ pc' = <<"do_IRQ", 0>>
      /\ interrupted' = [machine |-> machine, mem |-> mem]
      /\ task' = task /\ tss_rsp0' = tss_rsp0 /\ unmasked' = unmasked
  <2>1a. PICK sp : sp = <<"init", IstAt>>
    OBVIOUS
  <2>1. sp = <<"init", IstAt>> /\ sp[1] = "init" /\ sp[2] = IstAt
    BY <2>1a
  <2>2. DeliveredOn(IrqGate.ist) = sp
    BY <2>1, <1>5
  <2>3. mem' = Pushed(sp, ws)
    BY <2>2, <1>3 DEF KeyInterrupt
  <2>4. rsp' = Below(sp, Len(ws))
    BY <2>2, <1>3 DEF KeyInterrupt
  <2>5. rsp' = <<"init", IstAt + 25>>
    BY <2>1, <2>4, <1>4 DEF Below
  <2>6. /\ user' = FALSE /\ pc' = <<"do_IRQ", 0>>
        /\ interrupted' = [machine |-> machine, mem |-> mem]
        /\ task' = task /\ tss_rsp0' = tss_rsp0 /\ unmasked' = unmasked
    BY DEF KeyInterrupt, Goto
  <2>7. interrupts' = FALSE
    BY <1>5 DEF KeyInterrupt
  <2> QED BY <2>1, <2>3, <2>5, <2>6, <2>7
<1>7. Shaped(mem') /\ Grown(mem', mem, "init", IstAt, ws)
  BY <1>2, <1>4, <1>6, PushedFacts, Numbers DEF Types, Task
<1>8. ASSUME NEW i \in 1 .. 25
      PROVE  IstWords(mem'["init"])[i] = ws[i]
  <2>1. i \in 1 .. Len(ws) /\ IstAt + i <= Depth
    BY <1>4, Numbers
  <2>2. mem'["init"][IstAt + i] = ws[i]
    BY <2>1, <1>7 DEF Grown
  <2> QED BY <2>2 DEF IstWords
<1>9. /\ Frame(IstWords(mem'["init"]), machine)
      /\ IstWords(mem'["init"])[25] = <<"restore_all", 0>>
  <2>1. \A i \in 1 .. 17 : 7 + i \in 1 .. 25
    OBVIOUS
  <2> QED BY <2>1, <1>4, <1>8 DEF Frame
<1>10. AloneAbove(mem', mem)
  <2>1. Grown(mem', mem, "init", IstAt + 0, ws)
    BY <1>7, Numbers
  <2> QED BY <2>1, PushedBelow
<1>11. Types'
  BY <1>2, <1>6, <1>7 DEF Types, KeyInterrupt, AfterCall
<1>12. InHandler' /\ Handles(machine', IstWords(mem'["init"]), machine)
  BY <1>6, <1>9 DEF InHandler, Handles, machine
<1>13. Runs(machine, mem'["init"], task', tss_rsp0')
  BY <1>2, <1>6, <1>10, RunsAbove DEF AloneAbove
<1>14. interrupted'.machine = machine /\ interrupted'.mem = mem
  BY <1>6
<1> QED BY <1>10, <1>11, <1>12, <1>13, <1>14 DEF Inv

(* do_IRQ() returns to ret_from_intr with the frame unchanged.             *)
LEMMA DoIRQInv == Inv /\ do_IRQ => Inv'
<1> SUFFICES ASSUME Inv, do_IRQ
             PROVE  Inv'
  OBVIOUS
<1>1. pc[1] = "do_IRQ" /\ InHandler
  BY DEF do_IRQ, At, InHandler
<1>2. /\ Types /\ interrupts = FALSE /\ user = FALSE
      /\ Frame(IstWords(mem["init"]), interrupted.machine)
      /\ Runs(interrupted.machine, mem["init"], task, tss_rsp0)
      /\ AloneAbove(mem, interrupted.mem)
      /\ rsp = <<"init", IstAt + 25>>
      /\ IstWords(mem["init"])[25] = <<"restore_all", 0>>
  BY <1>1, Handling
<1>3. /\ pc' = <<"restore_all", 0>> /\ rsp' = <<"init", IstAt + 24>>
      /\ interrupts' = interrupts /\ user' = user /\ task' = task
      /\ tss_rsp0' = tss_rsp0 /\ interrupted' = interrupted
  <2>1. rsp[1] = "init" /\ rsp[2] = IstAt + 25
    BY <1>2
  <2>2. mem["init"][IstAt + 25] = <<"restore_all", 0>>
    BY <1>2 DEF IstWords
  <2>3. rsp[2] - 1 = IstAt + 24
    BY <2>1, Numbers
  <2>4. Word(rsp) = <<"restore_all", 0>>
    BY <2>1, <2>2 DEF Word
  <2>5. Above(rsp, 1) = <<"init", IstAt + 24>>
    BY <2>1, <2>3 DEF Above
  <2> QED BY <2>4, <2>5 DEF do_IRQ
<1>4. Shaped(mem') /\ Grown(mem', mem, "init", IstAt + 25, <<Junk>>)
  <2>1. PICK ws : ws = <<Junk>>
    OBVIOUS
  <2>2. Len(ws) = 1 /\ IstAt + 25 \in Nat
    BY <2>1, Numbers
  <2>3. mem' = Pushed(<<"init", IstAt + 25>>, ws)
    BY <2>1, <1>2 DEF do_IRQ
  <2>4. Shaped(mem') /\ Grown(mem', mem, "init", IstAt + 25, ws)
    BY <2>2, <2>3, <1>2, PushedFacts DEF Types, Task
  <2> QED BY <2>1, <2>4
<1>5. /\ AloneAbove(mem', mem)
      /\ \A i \in 1 .. 25 :
            IstWords(mem'["init"])[i] = IstWords(mem["init"])[i]
  <2>1. \A i \in 1 .. 25 : i <= 25
    OBVIOUS
  <2> QED BY <2>1, <1>4, PushedBelow
<1>6. Frame(IstWords(mem'["init"]), interrupted.machine)
  <2>1. \A i \in 1 .. 17 : 7 + i \in 1 .. 25
    OBVIOUS
  <2> QED BY <2>1, <1>2, <1>5 DEF Frame
<1>7. Types'
  BY <1>2, <1>4 DEF Types, do_IRQ, AfterCall
<1>8. /\ InHandler'
      /\ Handles(machine', IstWords(mem'["init"]), interrupted.machine)
  BY <1>2, <1>3, <1>6 DEF InHandler, Handles, machine
<1>9. Runs(interrupted.machine, mem'["init"], task', tss_rsp0')
  BY <1>2, <1>3, <1>5, RunsAbove DEF AloneAbove
<1>10. AloneAbove(mem', interrupted.mem)
  BY <1>2, <1>5 DEF AloneAbove
<1> QED BY <1>3, <1>7, <1>8, <1>9, <1>10 DEF Inv

(* RESTORE_ALL brings back the machine that was interrupted.               *)
LEMMA Restored ==
    ASSUME Inv, RESTORE_ALL
    PROVE  machine' = interrupted.machine
<1>1. pc[1] = "restore_all" /\ InHandler
  BY DEF RESTORE_ALL, At, InHandler
<1>2. PICK m : m = interrupted.machine
  OBVIOUS
<1>3. PICK ist : ist = IstWords(mem["init"])
  OBVIOUS
<1>4. /\ Frame(ist, m) /\ rsp = <<"init", IstAt + 24>>
      /\ Runs(m, mem["init"], task, tss_rsp0)
  BY <1>1, <1>2, <1>3, Handling
<1>5. \A i \in 1 .. 25 : mem["init"][IstAt + i] = ist[i]
  BY <1>3 DEF IstWords
<1>6. /\ m = <<m[1], m[2], m[3], m[4], m[5]>>
      /\ m[3] = [r \in Reg |-> m[3][r]]
  BY <1>4 DEF Runs
<1>7. /\ pc' = ist[5] /\ user' = ist[4][2]
      /\ interrupts' = ist[3][2] /\ rsp' = ist[2]
  <2>1. /\ rsp[1] = "init" /\ rsp[2] = IstAt + 24 /\ Len(PopOrder) = 17
    BY <1>4, Orders
  <2>2. /\ rsp[2] - Len(PopOrder) - 2 - 0 = IstAt + 5
        /\ rsp[2] - Len(PopOrder) - 2 - 1 = IstAt + 4
        /\ rsp[2] - Len(PopOrder) - 2 - 2 = IstAt + 3
        /\ rsp[2] - Len(PopOrder) - 2 - 3 = IstAt + 2
    BY <2>1, Numbers
  <2>3. /\ mem["init"][IstAt + 5] = ist[5] /\ mem["init"][IstAt + 4] = ist[4]
        /\ mem["init"][IstAt + 3] = ist[3] /\ mem["init"][IstAt + 2] = ist[2]
    BY <1>5
  <2> QED BY <2>1, <2>2, <2>3 DEF RESTORE_ALL
<1>8. pc' = m[1] /\ user' = m[4] /\ interrupts' = m[5] /\ rsp' = m[2]
  BY <1>4, <1>7 DEF Frame
<1>9. ASSUME NEW r \in Reg
      PROVE  Popped(r) = m[3][r]
  <2>1. PICK k \in 1 .. 17 : PopOrder[k] = r
    BY Orders DEF Reg, Range
  <2>2. (CHOOSE i \in DOMAIN PopOrder : PopOrder[i] = r) = k
    BY <2>1, Orders
  <2>3. Popped(r) = mem["init"][IstAt + 24 + 1 - k]
    BY <2>2, <1>4 DEF Popped
  <2>4. PICK j \in 1 .. 17 :
            j = 18 - k /\ IstAt + 24 + 1 - k = IstAt + (7 + j) /\ 7 + j \in 1 .. 25
    BY Numbers
  <2>5. mem["init"][IstAt + (7 + j)] = ist[7 + j]
    BY <2>4, <1>5
  <2>6. ist[7 + j] = m[3][PushOrder[j]]
    BY <1>4 DEF Frame
  <2>7. PushOrder[j] = r
    BY <2>1, <2>4, Orders
  <2> QED BY <2>3, <2>4, <2>5, <2>6, <2>7
<1>10. regs' = m[3]
  <2>1. regs' = [r \in Reg |-> Popped(r)]
    BY DEF RESTORE_ALL
  <2> QED BY <2>1, <1>6, <1>9
<1> QED BY <1>2, <1>6, <1>8, <1>10 DEF machine

(* The iretq goes back to a machine of the program.                         *)
LEMMA RestoreAllInv == Inv /\ RESTORE_ALL => Inv'
<1> SUFFICES ASSUME Inv, RESTORE_ALL
             PROVE  Inv'
  OBVIOUS
<1>1. InHandler
  BY DEF RESTORE_ALL, At, InHandler
<1>2. PICK m : m = interrupted.machine /\ machine' = m
  BY Restored
<1>3. Types /\ Runs(m, mem["init"], task, tss_rsp0)
  BY <1>1, <1>2, Handling
<1>4. mem' = mem /\ task' = task /\ tss_rsp0' = tss_rsp0
  BY DEF RESTORE_ALL
<1>5. Types'
  BY <1>3, <1>4 DEF Types, RESTORE_ALL
<1>6. Runs(machine', mem'["init"], task', tss_rsp0')
  BY <1>2, <1>3, <1>4
<1>7. pc'[1] \notin {"do_IRQ", "restore_all"}
  <2>1. Here(m, mem["init"], task, tss_rsp0)
    BY <1>3, Where
  <2>2. m[1] = pc'
    BY <1>2 DEF machine
  <2> QED BY <2>1, <2>2 DEF Here
<1> QED BY <1>5, <1>6, <1>7, GoesOn

-----------------------------------------------------------------------------

(* The invariant is inductive.                                             *)
LEMMA NextInv == Inv /\ [Next]_vars => Inv'
<1> SUFFICES ASSUME Inv, [Next]_vars
             PROVE  Inv'
  OBVIOUS
<1>1. CASE Step
  BY <1>1, Init8259AInv, TaskInitInv, PushRbpRaxInv, SaveRspInv, LoadRspInv,
     SaveRipInv, PushRipInv, SwitchToInv, GeneralProtectionInv, PopInv,
     CallThreadInv, InitFunctionInv, DoExecveInv, SysexitInv, GameInv DEF Step
<1>2. CASE KeyInterrupt
  BY <1>2, KeyInterruptInv
<1>3. CASE Handler
  BY <1>3, DoIRQInv, RestoreAllInv DEF Handler
<1>4. CASE UNCHANGED vars
  BY <1>4 DEF vars, machine, Inv, Types, InHandler
<1> QED BY <1>1, <1>2, <1>3, <1>4 DEF Next

(* It holds of the program.                                                *)
LEMMA SpecInv == Spec => []Inv
<1>1. Init => Inv
  BY InitInv
<1>2. Inv /\ [Next]_vars => Inv'
  BY NextInv
<1> QED BY <1>1, <1>2, PTL DEF Spec


-----------------------------------------------------------------------------
(* The theorems. *)

(* The stack pointer of a machine of the program lies in a modelled stack. *)
LEMMA WithinStack ==
    ASSUME NEW m, NEW w, NEW ts, NEW tss, Runs(m, w, ts, tss)
    PROVE  m[2][1] \in Task \cup {"user"} /\ m[2][2] \in 0 .. Depth
<1>1. Starting(m, ts) => m[2][1] = "boot" /\ m[2][2] = InUse
  BY DEF Starting
<1>2. Switching(m, w, ts) =>
         \/ m[2][1] = "boot" /\ m[2][2] \in {InUse, InUse + 2}
         \/ m[2][1] = "init" /\ m[2][2] \in {24, 25}
  BY DEF Switching
<1>3. Failing(m) => m[2][1] = "init" /\ m[2][2] \in {25, 49}
  BY DEF Failing
<1>4. \A n \in 0 .. 17 : Threading(m, w, n) =>
         m[2][1] = "init" /\ m[2][2] \in 0 .. 24
  BY DEF Threading
<1>5. Executing(m, w) => m[2][1] = "init" /\ m[2][2] \in {1, 25}
  BY DEF Executing
<1>6. \A n \in 0 .. 17 : Returning(m, w, n) =>
         m[2][1] = "init" /\ m[2][2] \in 0 .. 24
  BY DEF Returning
<1>7. Playing(m) => m[2][1] = "user" /\ m[2][2] = 0
  BY DEF Playing, UserRsp
<1>8. "boot" \in Task /\ "init" \in Task
  BY DEF Task
<1>9. \/ m[2][1] = "boot" /\ m[2][2] \in {InUse, InUse + 2}
      \/ m[2][1] = "init" /\ m[2][2] \in 0 .. 49
      \/ m[2][1] = "user" /\ m[2][2] = 0
  <2>1. {24, 25} \subseteq 0 .. 49 /\ {25, 49} \subseteq 0 .. 49
        /\ {1, 25} \subseteq 0 .. 49 /\ 0 .. 24 \subseteq 0 .. 49
    OBVIOUS
  <2>2. \/ Starting(m, ts) \/ Switching(m, w, ts) \/ Failing(m)
        \/ Executing(m, w) \/ Playing(m)
        \/ \E n \in 0 .. 17 : Threading(m, w, n)
        \/ \E n \in 0 .. 17 : Returning(m, w, n)
    BY DEF Runs
  <2> QED BY <2>1, <2>2, <1>1, <1>2, <1>3, <1>4, <1>5, <1>6, <1>7
<1>10. InUse \in 0 .. Depth /\ InUse + 2 \in 0 .. Depth
       /\ 0 .. 49 \subseteq 0 .. Depth /\ 0 \in 0 .. Depth
  BY Numbers
<1> QED BY <1>8, <1>9, <1>10

(* The invariant implies the types.                                        *)
LEMMA InvTypes == Inv => TypeOK
<1> SUFFICES ASSUME Inv
             PROVE  TypeOK
  OBVIOUS
<1>1. Types
  BY DEF Inv
<1>2. /\ rsp[1] \in Task \cup {"user"} /\ rsp[2] \in 0 .. Depth
      /\ user \in BOOLEAN /\ interrupts \in BOOLEAN
  <2>1. CASE InHandler
    <3>1. /\ user = FALSE /\ interrupts = FALSE
          /\ \/ rsp = <<"init", IstAt + 25>>
             \/ rsp = <<"init", IstAt + 24>>
      BY <2>1, Handling DEF InHandler
    <3>2. "init" \in Task /\ IstAt + 24 \in 0 .. Depth /\ IstAt + 25 \in 0 .. Depth
      BY Numbers DEF Task
    <3>3. rsp[1] = "init" /\ (rsp[2] = IstAt + 24 \/ rsp[2] = IstAt + 25)
      BY <3>1
    <3> QED BY <3>1, <3>2, <3>3
  <2>2. CASE ~InHandler
    <3>1. PICK m : IsNow(m) /\ Runs(m, mem["init"], task, tss_rsp0)
      BY <2>2, Running
    <3>2. m[2][1] \in Task \cup {"user"} /\ m[2][2] \in 0 .. Depth
      BY <3>1, WithinStack
    <3>3. m[5] = TRUE /\ m[4] \in BOOLEAN
      <4>1. Here(m, mem["init"], task, tss_rsp0)
        BY <3>1, Where
      <4> QED BY <4>1 DEF Here
    <3> QED BY <3>1, <3>2, <3>3 DEF IsNow
  <2> QED BY <2>1, <2>2
<1>3. DOMAIN regs = Reg
  BY <1>1 DEF Types
<1>4. \A s \in Task : DOMAIN mem[s] = 1 .. Depth
  BY <1>1 DEF Types, Shaped
<1>5. ASSUME NEW t \in Task
      PROVE  /\ task[t].state \in {"uninterruptible", "running"}
             /\ task[t].pid \in {0, 1}
  <2>1. PICK q \in TaskInfo : q = task[t]
    BY <1>1 DEF Types
  <2> QED BY <2>1 DEF TaskInfo
<1>6. tss_rsp0[1] \in Task /\ unmasked \in BOOLEAN
  BY <1>1 DEF Types
<1> QED BY <1>2, <1>3, <1>4, <1>5, <1>6 DEF TypeOK

(* Wherever the stack pointer goes it stays within a stack, with room for  *)
(* the frame of an exception and of an interrupt (Kernel!TypeOK).          *)
THEOREM StaysInStack == Spec => []TypeOK
<1>1. Inv => TypeOK
  BY InvTypes
<1> QED BY <1>1, SpecInv, PTL

(* Wherever the IST points in init()'s stack, the handler leaves the words *)
(* of that stack above it alone, and every word of the first task's: the   *)
(* red zones, too (Kernel!KeepsMemory).                                    *)
THEOREM MemoryKept == Spec => []KeepsMemory
<1>1. Inv => KeepsMemory
  BY DEF Inv, KeepsMemory, AloneAbove
<1> QED BY <1>1, SpecInv, PTL

(* `current' is the task that runs, and a frame is popped from its first   *)
(* word to its last (Kernel!StackDiscipline).                              *)
THEOREM StacksInOrder == Spec => []StackDiscipline
<1>1. ASSUME Inv, pc[1] \in {"start_kernel", "task_init"}
      PROVE  get_current = "boot"
  <2>1. ~InHandler
    BY <1>1 DEF InHandler
  <2>2. PICK m : IsNow(m) /\ Runs(m, mem["init"], task, tss_rsp0)
    BY <1>1, <2>1, Running
  <2>3. Starting(m, task)
    <3>1. Here(m, mem["init"], task, tss_rsp0)
      BY <2>2, Where
    <3>2. m[1][1] \in {"start_kernel", "task_init"}
      BY <1>1, <2>2 DEF IsNow
    <3> QED BY <3>1, <3>2 DEF Here
  <2>4. rsp = <<"boot", InUse>>
    BY <2>2, <2>3 DEF IsNow, Starting
  <2> QED BY <2>4, Numbers DEF get_current, Task
<1>2. ASSUME Inv, pc[1] = "push_rbp_rax"
      PROVE  get_current = "boot"
  <2>1. rsp = <<"boot", InUse>>
    BY <1>2, OnTheWay
  <2> QED BY <2>1, Numbers DEF get_current, Task
<1>3. ASSUME Inv, pc[1] \in {"init", "do_execve"}
      PROVE  get_current = "init"
  <2>1. ~InHandler
    BY <1>3 DEF InHandler
  <2>2. PICK m : IsNow(m) /\ Runs(m, mem["init"], task, tss_rsp0)
    BY <1>3, <2>1, Running
  <2>3. Executing(m, mem["init"])
    <3>1. Here(m, mem["init"], task, tss_rsp0)
      BY <2>2, Where
    <3>2. m[1][1] \in {"init", "do_execve"}
      BY <1>3, <2>2 DEF IsNow
    <3> QED BY <3>1, <3>2 DEF Here
  <2>4. rsp = <<"init", 1>> \/ rsp = <<"init", 25>>
    BY <2>2, <2>3 DEF IsNow, Executing
  <2> QED BY <2>4 DEF get_current, Task
<1>4. ASSUME Inv, pc[1] \in {"thread_func", "ret_system_call"}
      PROVE  rsp = <<"init", Len(pt_regs) - pc[2]>>
  <2>1. PICK n \in 0 .. 17 : pc = <<pc[1], n>> /\ rsp = <<"init", 24 - n>>
    BY <1>4, AtPop
  <2>2. pc[2] = n
    BY <2>1
  <2> QED BY <2>1, <2>2, Orders
<1>5. Inv => StackDiscipline
  BY <1>1, <1>2, <1>3, <1>4 DEF StackDiscipline
<1> QED BY <1>5, SpecInv, PTL

(* Nothing but the game runs at privilege level 3, on its own stack, with  *)
(* interrupts enabled and the TSS set for the way back                     *)
(* (Kernel!GameEntered).                                                   *)
THEOREM OnlyGameAtUserLevel == Spec => []GameEntered
<1>1. ASSUME Inv, user
      PROVE  /\ pc = UserRip /\ rsp = UserRsp
             /\ regs["ds"] = UserDs /\ regs["es"] = UserDs
             /\ interrupts /\ tss_rsp0 = task["init"].rsp0
  <2>1. ~InHandler
    BY <1>1, Handling
  <2>2. PICK m : IsNow(m) /\ Runs(m, mem["init"], task, tss_rsp0)
    BY <1>1, <2>1, Running
  <2>3. Here(m, mem["init"], task, tss_rsp0)
    BY <2>2, Where
  <2>4. m[4] = TRUE
    <3>1. m[4] \in BOOLEAN
      BY <2>3 DEF Here
    <3> QED BY <3>1, <1>1, <2>2 DEF IsNow
  <2>5. m[5] = TRUE /\ Playing(m) /\ Forked(task) /\ tss_rsp0 = <<"init", 0>>
    BY <2>3, <2>4 DEF Here
  <2> QED BY <2>2, <2>5 DEF IsNow, Playing, Forked
<1>2. Inv => GameEntered
  BY <1>1 DEF GameEntered
<1> QED BY <1>2, SpecInv, PTL

(* An interrupt leaves no trace: its iretq brings back every register, the *)
(* stack pointer, the privilege level, IF and rip, wherever it fell        *)
(* (Kernel!Transparent).                                                   *)
THEOREM InterruptTransparent == Spec => Transparent
<1>1. ASSUME Inv, [Next]_vars
      PROVE  [At("restore_all") => machine' = interrupted.machine]_vars
  <2>1. SUFFICES ASSUME Next, pc[1] = "restore_all"
                 PROVE  machine' = interrupted.machine
    BY <1>1 DEF At
  <2>2. ~Step
    BY <2>1 DEF Step, At, init_8259A, task_init, PushRbpRax, SaveRsp, LoadRsp,
       SaveRip, PushRip, __switch_to, general_protection, Pop, CallThread,
       init, do_execve, sysexit, Game
  <2>3. ~KeyInterrupt
    <3>1. interrupts = FALSE
      BY <1>1, <2>1, Handling DEF InHandler
    <3> QED BY <3>1 DEF KeyInterrupt
  <2>4. ~do_IRQ
    BY <2>1 DEF do_IRQ, At
  <2>5. RESTORE_ALL
    BY <2>1, <2>2, <2>3, <2>4 DEF Next, Handler
  <2> QED BY <1>1, <2>5, Restored
<1> QED BY <1>1, SpecInv, PTL DEF Spec, Transparent

-----------------------------------------------------------------------------
(* How many steps the code has still to make from p, the exception and the *)
(* game being its ends.                                                    *)
Ahead(p) ==
    CASE p[1] = "start_kernel" -> 47
      [] p[1] = "task_init" -> 46
      [] p[1] = "push_rbp_rax" -> 45
      [] p[1] = "save_rsp" -> 44
      [] p[1] = "load_rsp" -> 43
      [] p[1] = "save_rip" -> 42
      [] p[1] = "push_rip" -> 41
      [] p[1] = "switch_to" -> 40
      [] p[1] = "thread_func" -> 38 - p[2]
      [] p[1] = "init" -> 20
      [] p[1] = "do_execve" -> 19
      [] p[1] = "ret_system_call" -> 18 - p[2]
      [] p[1] = "general_protection" -> 1
      [] OTHER -> 0

(* The steps ahead at each label.                                          *)
LEMMA AheadFacts ==
    /\ \A p : /\ p[1] = "start_kernel" => Ahead(p) = 47
              /\ p[1] = "task_init" => Ahead(p) = 46
              /\ p[1] = "push_rbp_rax" => Ahead(p) = 45
              /\ p[1] = "save_rsp" => Ahead(p) = 44
              /\ p[1] = "load_rsp" => Ahead(p) = 43
              /\ p[1] = "save_rip" => Ahead(p) = 42
              /\ p[1] = "push_rip" => Ahead(p) = 41
              /\ p[1] = "switch_to" => Ahead(p) = 40
              /\ p[1] = "init" => Ahead(p) = 20
              /\ p[1] = "do_execve" => Ahead(p) = 19
              /\ p[1] = "general_protection" => Ahead(p) = 1
              /\ p[1] \in {"game", "halt"} => Ahead(p) = 0
    /\ \A n \in 0 .. 17 : /\ Ahead(<<"thread_func", n>>) = 38 - n
                          /\ Ahead(<<"ret_system_call", n>>) = 18 - n
BY DEF Ahead

(* The steps that go to a label named in the code.                         *)
LEMMA StraightOn ==
    ASSUME init_8259A \/ task_init \/ PushRbpRax \/ SaveRsp \/ LoadRsp
              \/ SaveRip \/ PushRip \/ general_protection \/ init
    PROVE  Ahead(pc') \in Nat /\ Ahead(pc') < Ahead(pc)
<1>1. CASE init_8259A
  BY <1>1, AheadFacts DEF init_8259A, At, Goto
<1>2. CASE task_init
  BY <1>2, AheadFacts DEF task_init, At, Goto
<1>3. CASE PushRbpRax
  BY <1>3, AheadFacts DEF PushRbpRax, At, Goto
<1>4. CASE SaveRsp
  BY <1>4, AheadFacts DEF SaveRsp, At, Goto
<1>5. CASE LoadRsp
  BY <1>5, AheadFacts DEF LoadRsp, At, Goto
<1>6. CASE SaveRip
  BY <1>6, AheadFacts DEF SaveRip, At, Goto
<1>7. CASE PushRip
  BY <1>7, AheadFacts DEF PushRip, At, Goto
<1>8. CASE general_protection
  <2>1. pc[1] = "general_protection" /\ pc'[1] = "halt"
    BY <1>8 DEF general_protection, At, Goto
  <2>2. Ahead(pc) = 1 /\ Ahead(pc') = 0
    BY <2>1, AheadFacts
  <2> QED BY <2>2
<1>9. CASE init
  <2>1. pc[1] = "init" /\ pc'[1] = "do_execve"
    BY <1>9 DEF init, At, Goto
  <2>2. Ahead(pc) = 20 /\ Ahead(pc') = 19
    BY <2>1, AheadFacts
  <2> QED BY <2>2
<1> QED BY <1>1, <1>2, <1>3, <1>4, <1>5, <1>6, <1>7, <1>8, <1>9

(* The code never goes back: every step between Start_Kernel() and the     *)
(* game, also a ret, a call by register and sysexit, which take their      *)
(* target from a stack or a register, leaves fewer steps to the game or to *)
(* the handler of the exception.  With InterruptTransparent, which brings  *)
(* the processor back to where it was, this is the part of Boots that      *)
(* needs no fairness.                                                      *)
THEOREM NeverBack ==
    Spec => [][Step => At("game") \/ (Ahead(pc') \in Nat
                                      /\ Ahead(pc') < Ahead(pc))]_vars
<1>1. ASSUME Inv, Step
      PROVE  At("game") \/ (Ahead(pc') \in Nat /\ Ahead(pc') < Ahead(pc))
  <2>1. CASE __switch_to
    <3>1. pc[1] = "switch_to"
      BY <2>1 DEF __switch_to, At
    <3>2. rsp = <<"init", 25>> /\ mem["init"][25] = <<"thread_func", 0>>
      BY <1>1, <3>1, OnTheWay
    <3>3. \/ pc' = <<"general_protection", 0>>
          \/ pc' = <<"thread_func", 0>>
      BY <2>1, <3>2 DEF __switch_to, Goto, Word
    <3> QED BY <3>1, <3>3, AheadFacts
  <2>2. CASE Pop
    <3>1. pc[1] \in {"thread_func", "ret_system_call"} /\ pc[2] < 17
      BY <2>2, Orders DEF Pop
    <3>2. PICK n \in 0 .. 17 : pc = <<pc[1], n>>
      BY <1>1, <3>1, AtPop
    <3>3. n \in 0 .. 16 /\ n + 1 \in 0 .. 17 /\ pc' = <<pc[1], n + 1>>
      BY <2>2, <3>1, <3>2 DEF Pop
    <3>4. CASE pc[1] = "thread_func"
      <4>1. Ahead(pc) = 38 - n /\ Ahead(pc') = 38 - (n + 1)
        BY <3>2, <3>3, <3>4, AheadFacts
      <4> QED BY <4>1, <3>3
    <3>5. CASE pc[1] = "ret_system_call"
      <4>1. Ahead(pc) = 18 - n /\ Ahead(pc') = 18 - (n + 1)
        BY <3>2, <3>3, <3>5, AheadFacts
      <4> QED BY <4>1, <3>3
    <3> QED BY <3>1, <3>4, <3>5
  <2>3. CASE CallThread
    <3>1. pc = <<"thread_func", 17>>
      BY <2>3, Orders DEF CallThread
    <3>2. PICK n \in 0 .. 17 :
             pc = <<pc[1], n>> /\ Threading(machine, mem["init"], n)
      BY <1>1, <3>1, AtPop
    <3>3. n = 17
      BY <3>1, <3>2
    <3>4. pc' = <<"init", 0>>
      BY <2>3, <3>2, <3>3 DEF CallThread, Threading, machine
    <3> QED BY <3>1, <3>4, AheadFacts
  <2>4. CASE do_execve
    <3>1. pc[1] = "do_execve" /\ ~InHandler
      BY <2>4 DEF do_execve, At, InHandler
    <3>2. PICK m : IsNow(m) /\ Runs(m, mem["init"], task, tss_rsp0)
      BY <1>1, <3>1, Running
    <3>3. Executing(m, mem["init"])
      <4>1. Here(m, mem["init"], task, tss_rsp0)
        BY <3>2, Where
      <4>2. m[1][1] = "do_execve"
        BY <3>1, <3>2 DEF IsNow
      <4> QED BY <4>1, <4>2 DEF Here
    <3>4. rsp = <<"init", 25>> /\ mem["init"][25] = <<"ret_system_call", 0>>
      BY <3>1, <3>2, <3>3 DEF IsNow, Executing
    <3>5. pc' = <<"ret_system_call", 0>>
      BY <2>4, <3>4 DEF do_execve, Word
    <3> QED BY <3>1, <3>5, AheadFacts
  <2>5. CASE sysexit
    <3>1. pc = <<"ret_system_call", 17>>
      BY <2>5, Orders DEF sysexit
    <3>2. PICK n \in 0 .. 17 :
             pc = <<pc[1], n>> /\ Returning(machine, mem["init"], n)
      BY <1>1, <3>1, AtPop
    <3>3. n = 17
      BY <3>1, <3>2
    <3>4. pc' = <<"game", 0>>
      BY <2>5, <3>2, <3>3 DEF sysexit, Returning, machine, UserRip
    <3> QED BY <3>1, <3>4, AheadFacts
  <2>6. CASE Game
    BY <2>6 DEF Game
  <2> QED BY <1>1, <2>1, <2>2, <2>3, <2>4, <2>5, <2>6, StraightOn DEF Step
<1>2. Inv /\ [Next]_vars =>
         [Step => At("game") \/ (Ahead(pc') \in Nat
                                 /\ Ahead(pc') < Ahead(pc))]_vars
  BY <1>1
<1> QED BY <1>2, SpecInv, PTL DEF Spec

=============================================================================
