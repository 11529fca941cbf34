----------------------------- MODULE Trap_proofs -----------------------------
(***************************************************************************)
(* Proofs about Trap.tla, and about the symbol table and vsprintf() that   *)
(* it uses, for every call graph, every kernel whose functions have names, *)
(* every output of nm that is sorted, and stacks of any depth.             *)
(*                                                                         *)
(* The parts: induction by least elements; the table of symbols, whose     *)
(* last theorem is LookupNearest; the texts of vsprintf(), whose last ones *)
(* are HexText, IndexText and OffsetText; the stack of the interrupted     *)
(* program; the walk of backtrace(); what is printed.  The heart of the    *)
(* latter is the pair Stack and Walk: where the frame of each function of  *)
(* the chain lies, and which of them backtrace() is about to read.         *)
(***************************************************************************)
EXTENDS Trap, FiniteSetTheorems, SequenceTheorems, TLAPS

-----------------------------------------------------------------------------
(* Induction. *)

(* A set of numbers has a least one.  The proof goes through the intervals *)
(* from 0 to the numbers, which are well-founded by inclusion.             *)
LEMMA LeastNat ==
    ASSUME NEW T \in SUBSET Nat, T # {}
    PROVE  \E m \in T : \A n \in T : m <= n
<1> DEFINE intervals == {0 .. n : n \in T}
           within == StrictSubsetOrdering(Nat)
<1>1. \A n \in Nat : IsFiniteSet(0 .. n) /\ 0 .. n \subseteq Nat
  BY FS_Interval
<1>2. intervals \subseteq FiniteSubsetsOf(Nat) /\ intervals # {}
  BY <1>1 DEF FiniteSubsetsOf
<1>3. IsWellFoundedOn(within, FiniteSubsetsOf(Nat))
  BY FS_StrictSubsetOrderingWellFounded
<1>4. PICK x \in intervals : \A y \in intervals : ~ (<<y, x>> \in within)
  <2> HIDE DEF intervals, within
  <2> QED BY <1>2, <1>3, WFMin
<1>5. PICK m \in T : x = 0 .. m
  OBVIOUS
<1>6. ASSUME NEW n \in T, ~(m <= n)
      PROVE  FALSE
  <2>1. 0 .. n \subseteq 0 .. m /\ 0 .. n # 0 .. m
    BY <1>6
  <2>2. <<0 .. n, x>> \in within
    BY <2>1, <1>5, <1>1 DEF StrictSubsetOrdering
  <2> QED BY <2>2, <1>4
<1> QED BY <1>6

(* Induction over numbers, of a set instead of a formula.                  *)
LEMMA SetInduction ==
    ASSUME NEW N \in Nat, NEW T \in SUBSET (0 .. N), 0 \in T,
           \A n \in 1 .. N : n - 1 \in T => n \in T
    PROVE  T = 0 .. N
<1> DEFINE U == (0 .. N) \ T
<1> SUFFICES ASSUME U # {}
             PROVE  FALSE
  OBVIOUS
<1>1. U \in SUBSET Nat
  OBVIOUS
<1>2. PICK m \in U : \A n \in U : m <= n
  <2> HIDE DEF U
  <2> QED BY <1>1, LeastNat
<1>3. m \in 1 .. N
  BY <1>2
<1>4. m - 1 \in 0 .. N /\ ~(m <= m - 1)
  BY <1>3
<1>5. m - 1 \in T
  BY <1>2, <1>4
<1> QED BY <1>2, <1>3, <1>5

(* The functions this program computes in a loop of N passes: f[n] is what *)
(* the variable holds after n of them, and G makes the next of it.         *)
Body(G, N, V) == G \in [V \X (1 .. N) -> V]

Loop(f, N, V, c, G) ==
    /\ f \in [0 .. N -> V]
    /\ f[0] = c
    /\ \A n \in 1 .. N : f[n] = G[<<f[n - 1], n>>]

(* A recursion over the numbers up to N has a function.                    *)
LEMMA Iteration ==
    ASSUME NEW N \in Nat, NEW V, NEW c \in V, NEW G, Body(G, N, V)
    PROVE  \E f : Loop(f, N, V, c, G)
<1> USE DEF Body, Loop
<1> DEFINE T == {k \in 0 .. N : \E f \in [0 .. k -> V] :
                    f[0] = c /\ \A n \in 1 .. k : f[n] = G[<<f[n - 1], n>>]}
<1>1. 0 \in T
  <2> DEFINE f == [i \in 0 .. 0 |-> c]
  <2>1. f \in [0 .. 0 -> V] /\ f[0] = c
    OBVIOUS
  <2>2. 0 \in 0 .. N /\ 1 .. 0 = {}
    OBVIOUS
  <2> HIDE DEF f
  <2> QED BY <2>1, <2>2
<1>2. ASSUME NEW n \in 1 .. N, n - 1 \in T
      PROVE  n \in T
  <2>1. PICK f \in [0 .. n - 1 -> V] :
           f[0] = c /\ \A i \in 1 .. n - 1 : f[i] = G[<<f[i - 1], i>>]
    BY <1>2
  <2> DEFINE h == [i \in 0 .. n |-> IF i < n THEN f[i] ELSE G[<<f[n - 1], n>>]]
  <2>2. f[n - 1] \in V /\ G[<<f[n - 1], n>>] \in V
    BY <2>1
  <2>3. h \in [0 .. n -> V]
    BY <2>1, <2>2
  <2>4. h[0] = c
    BY <2>1
  <2>5. ASSUME NEW i \in 1 .. n
        PROVE  h[i] = G[<<h[i - 1], i>>]
    <3>1. i - 1 \in 0 .. n - 1 /\ h[i - 1] = f[i - 1]
      OBVIOUS
    <3>2. CASE i < n
      <4>1. h[i] = f[i]
        BY <3>2
      <4>2. f[i] = G[<<f[i - 1], i>>]
        BY <3>2, <2>1
      <4> HIDE DEF h
      <4> QED BY <3>1, <4>1, <4>2
    <3>3. CASE i = n
      <4>1. h[i] = G[<<f[n - 1], n>>]
        BY <3>3
      <4> HIDE DEF h
      <4> QED BY <3>1, <3>3, <4>1
    <3> QED BY <3>2, <3>3
  <2>6. n \in 0 .. N
    OBVIOUS
  <2> HIDE DEF h
  <2> QED BY <2>3, <2>4, <2>5, <2>6
<1>3. T = 0 .. N
  <2>1. T \in SUBSET (0 .. N)
    OBVIOUS
  <2> HIDE DEF T
  <2> QED BY <1>1, <1>2, <2>1, SetInduction
<1>4. N \in T
  <2> HIDE DEF T
  <2> QED BY <1>3
<1> QED BY <1>4

-----------------------------------------------------------------------------
(* The table of symbols. *)

(* read_map() keeps the order of nm, drops what it cannot parse and        *)
(* nothing else.                                                           *)
Kept(t, n) ==
    /\ t \in Seq(NmLine)
    /\ \A k \in DOMAIN t : \E i \in 1 .. n : t[k] = NmOutput[i]
    /\ \A i, j \in DOMAIN t : i < j => t[i].address <= t[j].address
    /\ \A i \in 1 .. n : NmOutput[i].readable =>
          \E k \in DOMAIN t : t[k] = NmOutput[i]

(* read_map() keeps the lines that fscanf() can parse, in their order.     *)
LEMMA TableKept == Kept(table, Len(NmOutput))
<1> DEFINE N == Len(NmOutput)
           V == Seq(NmLine)
           Pass(f, n) == IF n = 0 THEN <<>>
                         ELSE IF NmOutput[n].readable
                         THEN Append(f[n - 1], NmOutput[n]) ELSE f[n - 1]
           G == [x \in V \X (1 .. N) |->
                    IF NmOutput[x[2]].readable
                    THEN Append(x[1], NmOutput[x[2]]) ELSE x[1]]
           read == CHOOSE f : f = [n \in 0 .. N |-> Pass(f, n)]
<1>1. /\ NmOutput \in Seq(NmLine) /\ N \in Nat /\ DOMAIN NmOutput = 1 .. N
      /\ \A n \in 1 .. N : NmOutput[n] \in NmLine
  BY NmAssumption
<1>2. read = [n \in 0 .. N |-> Pass(read, n)]
  <2>1. Body(G, N, V) /\ <<>> \in V /\ N \in Nat
    BY <1>1 DEF Body
  <2>2. PICK f : Loop(f, N, V, <<>>, G)
    <3> HIDE DEF N, V, G
    <3> QED BY <2>1, Iteration
  <2>3. \A n \in 1 .. N : f[n] = Pass(f, n)
    <3> SUFFICES ASSUME NEW n \in 1 .. N
                 PROVE  f[n] = Pass(f, n)
      OBVIOUS
    <3>1. n - 1 \in 0 .. N /\ n # 0
      BY <1>1
    <3>2. <<f[n - 1], n>> \in V \X (1 .. N)
      BY <3>1, <2>2 DEF Loop
    <3> HIDE DEF N, V
    <3> QED BY <2>2, <3>1, <3>2 DEF Loop
  <2>4. f = [n \in 0 .. N |-> Pass(f, n)]
    <3>1. f[0] = Pass(f, 0)
      BY <2>2 DEF Loop
    <3>2. \A n \in 0 .. N : n = 0 \/ n \in 1 .. N
      BY <1>1
    <3> HIDE DEF N, V, Pass
    <3>3. \A n \in 0 .. N : f[n] = Pass(f, n)
      BY <2>3, <3>1, <3>2
    <3> QED BY <2>2, <3>3 DEF Loop
  <2> HIDE DEF Pass, N
  <2> QED BY <2>4
<1>3. \A n \in 0 .. N : Kept(read[n], n)
  <2> DEFINE T == {n \in 0 .. N : Kept(read[n], n)}
  <2>1. read[0] = <<>>
    <3> HIDE DEF N, read
    <3> QED BY <1>1, <1>2
  <2>2. 0 \in T
    <3>1. Kept(<<>>, 0)
      BY DEF Kept
    <3> HIDE DEF read
    <3> QED BY <3>1, <2>1, <1>1
  <2>3. ASSUME NEW n \in 1 .. N, n - 1 \in T
        PROVE  n \in T
    <3> DEFINE t == read[n - 1]
               e == NmOutput[n]
    <3>1. Kept(t, n - 1) /\ e \in NmLine
      BY <2>3, <1>1
    <3>2. read[n] = IF e.readable THEN Append(t, e) ELSE t
      <4>1. n \in 0 .. N /\ n # 0
        BY <1>1
      <4> HIDE DEF N, read
      <4> QED BY <4>1, <1>2
    <3>3. \A i \in 1 .. n - 1 : NmOutput[i].address <= e.address
      BY <1>1, NmAssumption
    <3> HIDE DEF t, e, read, N
    <3>4. CASE e.readable
      <4> DEFINE u == Append(t, e)
      <4>1. /\ u \in Seq(NmLine) /\ DOMAIN u = 1 .. Len(t) + 1
            /\ \A i \in 1 .. Len(t) : u[i] = t[i]
            /\ u[Len(t) + 1] = e /\ DOMAIN t = 1 .. Len(t) /\ Len(t) \in Nat
        BY <3>1 DEF Kept
      <4> HIDE DEF u
      <4>2. \A k \in DOMAIN u : \E i \in 1 .. n : u[k] = NmOutput[i]
        BY <4>1, <3>1, <1>1 DEF Kept, e
      <4>3. \A i, j \in DOMAIN u : i < j => u[i].address <= u[j].address
        BY <4>1, <3>1, <3>3 DEF Kept
      <4>4. \A i \in 1 .. n : NmOutput[i].readable =>
               \E k \in DOMAIN u : u[k] = NmOutput[i]
        BY <4>1, <3>1, <1>1 DEF Kept, e
      <4>5. Kept(u, n)
        BY <4>1, <4>2, <4>3, <4>4 DEF Kept
      <4>6. read[n] = u
        BY <3>2, <3>4 DEF u
      <4>7. n \in 0 .. N
        BY <1>1
      <4> QED BY <4>5, <4>6, <4>7
    <3>5. CASE ~e.readable
      <4>1. Kept(t, n)
        BY <3>1, <3>5, <1>1 DEF Kept, e
      <4> QED BY <4>1, <3>2, <3>5, <1>1
    <3> QED BY <3>4, <3>5
  <2>4. T = 0 .. N
    <3>1. T \in SUBSET (0 .. N)
      OBVIOUS
    <3> HIDE DEF T, N
    <3> QED BY <1>1, <2>2, <2>3, <3>1, SetInduction
  <2> QED BY <2>4
<1>4. table = read[N]
  BY DEF table
<1> HIDE DEF read
<1> QED BY <1>1, <1>3, <1>4

(* The fields of the lines of nm.                                          *)
LEMMA LineFields ==
    ASSUME NEW t \in Seq(NmLine)
    PROVE  /\ Len(t) \in Nat /\ DOMAIN t = 1 .. Len(t)
           /\ \A i \in DOMAIN t :
                 /\ t[i] \in NmLine /\ t[i].address \in Nat
                 /\ t[i].symbol_length \in Nat \ {0}
<1>1. \A e \in NmLine : e.address \in Nat /\ e.symbol_length \in Nat \ {0}
  BY DEF NmLine
<1>2. Len(t) \in Nat /\ DOMAIN t = 1 .. Len(t) /\ \A i \in DOMAIN t : t[i] \in NmLine
  OBVIOUS
<1> QED BY <1>1, <1>2

(* The table of symbols, in the order of their addresses.                  *)
LEMMA TableFacts ==
    /\ Len(table) \in Nat /\ DOMAIN table = 1 .. Len(table)
    /\ \A i \in DOMAIN table : table[i] \in NmLine /\ table[i].address \in Nat
    /\ \A i, j \in DOMAIN table : i < j => table[i].address <= table[j].address
<1>1. /\ table \in Seq(NmLine)
      /\ \A i, j \in DOMAIN table : i < j => table[i].address <= table[j].address
  BY TableKept DEF Kept
<1>2. /\ Len(table) \in Nat /\ DOMAIN table = 1 .. Len(table)
      /\ \A i \in DOMAIN table : table[i] \in NmLine /\ table[i].address \in Nat
  BY <1>1, LineFields
<1> QED BY <1>1, <1>2

(* The last of the symbols of a name is one of the table.                  *)
LEMMA AddressFacts ==
    ASSUME NEW name \in {"_text", "_etext"}
    PROVE  /\ Address(name) \in Nat
           /\ \E i \in DOMAIN NmOutput : Address(name) = NmOutput[i].address
<1> DEFINE I == {i \in DOMAIN table : table[i].symbol = name}
           ahead == {Len(table) - i : i \in I}
<1>1. /\ Len(table) \in Nat /\ DOMAIN table = 1 .. Len(table)
      /\ \A i \in DOMAIN table : table[i].address \in Nat
  BY TableFacts
<1>2. I # {}
  <2>1. PICK i \in DOMAIN NmOutput :
           NmOutput[i].symbol = name /\ NmOutput[i].readable
    BY NmAssumption
  <2>2. i \in 1 .. Len(NmOutput)
    BY NmAssumption
  <2>3. PICK k \in DOMAIN table : table[k] = NmOutput[i]
    BY <2>1, <2>2, TableKept DEF Kept
  <2> QED BY <2>1, <2>3
<1>3. ahead \in SUBSET Nat /\ ahead # {}
  BY <1>1, <1>2
<1>4. PICK m \in ahead : \A n \in ahead : m <= n
  <2> HIDE DEF ahead
  <2> QED BY <1>3, LeastNat
<1>5. PICK i \in I : m = Len(table) - i
  OBVIOUS
<1>6. \A j \in I : j <= i
  <2> SUFFICES ASSUME NEW j \in I
               PROVE  j <= i
    OBVIOUS
  <2>1. Len(table) - j \in ahead
    OBVIOUS
  <2>2. i \in Int /\ j \in Int /\ Len(table) \in Int
    BY <1>1
  <2>3. m <= Len(table) - j
    BY <2>1, <1>4
  <2> QED BY <2>2, <2>3, <1>5
<1> DEFINE i0 == CHOOSE k \in DOMAIN table :
                    /\ table[k].symbol = name
                    /\ \A j \in DOMAIN table : table[j].symbol = name => j <= k
<1>7. i0 \in DOMAIN table
  BY <1>6
<1>8. Address(name) = table[i0].address
  BY DEF Address
<1> HIDE DEF i0
<1>9. \E l \in DOMAIN NmOutput : table[i0] = NmOutput[l]
  <2>1. DOMAIN NmOutput = 1 .. Len(NmOutput)
    BY NmAssumption
  <2> QED BY <2>1, <1>7, TableKept DEF Kept
<1> QED BY <1>1, <1>7, <1>8, <1>9

(* What the loops of write_src() have written after n symbols: each        *)
(* address of the text once, with the first of its symbols.                *)
Entries(w, n) ==
    /\ w \in Seq(NmLine)
    /\ \A k \in DOMAIN w : w[k].address > 0 /\ symbol_valid(w[k])
    /\ \A k, l \in DOMAIN w : k < l => w[k].address < w[l].address
    /\ \A k \in DOMAIN w : \E i \in 1 .. n :
          /\ table[i] = w[k]
          /\ \A j \in 1 .. i - 1 : table[j].address < w[k].address
    /\ \A j \in 1 .. n : symbol_valid(table[j]) /\ table[j].address > 0 =>
          \E k \in DOMAIN w : w[k].address = table[j].address

(* A symbol whose address is new.                                          *)
LEMMA EntryWritten ==
    ASSUME NEW n \in 1 .. Len(table), NEW w, Entries(w, n - 1),
           symbol_valid(table[n]), NewAddress(w, table[n])
    PROVE  Entries(Append(w, table[n]), n)
<1> DEFINE e == table[n]
           u == Append(w, e)
<1>1. /\ Len(table) \in Nat /\ DOMAIN table = 1 .. Len(table)
      /\ \A i \in DOMAIN table : table[i] \in NmLine /\ table[i].address \in Nat
      /\ \A i, j \in DOMAIN table : i < j => table[i].address <= table[j].address
  BY TableFacts
<1>2. /\ w \in Seq(NmLine) /\ Len(w) \in Nat /\ DOMAIN w = 1 .. Len(w)
      /\ \A k \in DOMAIN w : w[k].address \in Nat
  BY LineFields DEF Entries
<1>3. /\ u \in Seq(NmLine) /\ DOMAIN u = 1 .. Len(w) + 1
      /\ \A k \in 1 .. Len(w) : u[k] = w[k]
      /\ u[Len(w) + 1] = e /\ e \in NmLine /\ e.address \in Nat
  <2>1. n \in DOMAIN table
    BY <1>1
  <2>2. e \in NmLine /\ e.address \in Nat
    BY <1>1, <2>1
  <2> HIDE DEF e
  <2> QED BY <1>2, <2>2
<1> HIDE DEF u
<1>4. \A k \in DOMAIN w : w[k].address < e.address
  <2> SUFFICES ASSUME NEW k \in DOMAIN w
               PROVE  w[k].address < e.address
    OBVIOUS
  <2>1. w # <<>> /\ Len(w) \in DOMAIN w
    BY <1>2
  <2>2. PICK i \in 1 .. n - 1 : table[i] = w[Len(w)]
    BY <2>1 DEF Entries
  <2>3. w[Len(w)].address <= e.address
    BY <2>2, <1>1
  <2>4. e.address # w[Len(w)].address
    BY <2>1 DEF NewAddress, Last
  <2>5. k = Len(w) \/ w[k].address < w[Len(w)].address
    BY <2>1, <1>2 DEF Entries
  <2>6. /\ w[k].address \in Nat /\ w[Len(w)].address \in Nat
        /\ e.address \in Nat
    BY <2>1, <1>2, <1>3
  <2> HIDE DEF e
  <2> QED BY <2>3, <2>4, <2>5, <2>6
<1>5. e.address > 0
  <2>1. CASE w = <<>>
    <3>1. e.address # 0
      BY <2>1 DEF NewAddress
    <3> QED BY <3>1, <1>3
  <2>2. CASE w # <<>>
    <3>1. 1 \in DOMAIN w
      BY <2>2, <1>2
    <3> QED BY <3>1, <1>2, <1>3, <1>4
  <2> QED BY <2>1, <2>2
<1>6. \A j \in 1 .. n - 1 : table[j].address < e.address
  <2> SUFFICES ASSUME NEW j \in 1 .. n - 1, ~(table[j].address < e.address)
               PROVE  FALSE
    OBVIOUS
  <2>1. table[j].address = e.address
    BY <1>1
  <2>2. symbol_valid(table[j])
    BY <2>1 DEF symbol_valid
  <2>3. PICK k \in DOMAIN w : w[k].address = e.address
    BY <2>1, <2>2, <1>5 DEF Entries
  <2> QED BY <2>3, <1>2, <1>4
<1>7. \A k \in DOMAIN u : u[k].address > 0 /\ symbol_valid(u[k])
  BY <1>2, <1>3, <1>5 DEF Entries
<1>8. \A k, l \in DOMAIN u : k < l => u[k].address < u[l].address
  BY <1>2, <1>3, <1>4 DEF Entries
<1>9. \A k \in DOMAIN u : \E i \in 1 .. n :
          /\ table[i] = u[k]
          /\ \A j \in 1 .. i - 1 : table[j].address < u[k].address
  <2> SUFFICES ASSUME NEW k \in DOMAIN u
               PROVE  \E i \in 1 .. n :
                         /\ table[i] = u[k]
                         /\ \A j \in 1 .. i - 1 : table[j].address < u[k].address
    OBVIOUS
  <2>1. CASE k \in DOMAIN w
    <3>1. PICK i \in 1 .. n - 1 :
             /\ table[i] = w[k]
             /\ \A j \in 1 .. i - 1 : table[j].address < w[k].address
      BY <2>1 DEF Entries
    <3>2. i \in 1 .. n /\ u[k] = w[k]
      BY <2>1, <1>2, <1>3
    <3> QED BY <3>1, <3>2
  <2>2. CASE k = Len(w) + 1
    BY <2>2, <1>3, <1>6
  <2> QED BY <2>1, <2>2, <1>2, <1>3
<1>10. \A j \in 1 .. n : symbol_valid(table[j]) /\ table[j].address > 0 =>
          \E k \in DOMAIN u : u[k].address = table[j].address
  <2> SUFFICES ASSUME NEW j \in 1 .. n, symbol_valid(table[j]),
                      table[j].address > 0
               PROVE  \E k \in DOMAIN u : u[k].address = table[j].address
    OBVIOUS
  <2>1. CASE j = n
    BY <2>1, <1>2, <1>3
  <2>2. CASE j # n
    <3>1. PICK k \in DOMAIN w : w[k].address = table[j].address
      BY <2>2 DEF Entries
    <3>2. k \in DOMAIN u /\ u[k] = w[k]
      BY <1>2, <1>3
    <3> QED BY <3>1, <3>2
  <2> QED BY <2>1, <2>2
<1>11. Entries(u, n)
  BY <1>3, <1>7, <1>8, <1>9, <1>10 DEF Entries
<1> QED BY <1>11 DEF u

(* A symbol outside of the text, or at an address that has one already.    *)
LEMMA EntryPassedOver ==
    ASSUME NEW n \in 1 .. Len(table), NEW w, Entries(w, n - 1),
           ~(symbol_valid(table[n]) /\ NewAddress(w, table[n]))
    PROVE  Entries(w, n)
<1>1. /\ w \in Seq(NmLine) /\ DOMAIN w = 1 .. Len(w) /\ Len(w) \in Nat
  BY DEF Entries
<1>2. symbol_valid(table[n]) /\ table[n].address > 0 =>
         \E k \in DOMAIN w : w[k].address = table[n].address
  <2> SUFFICES ASSUME symbol_valid(table[n]), table[n].address > 0
               PROVE  \E k \in DOMAIN w : w[k].address = table[n].address
    OBVIOUS
  <2>1. ~NewAddress(w, table[n])
    OBVIOUS
  <2>2. w # <<>> /\ table[n].address = w[Len(w)].address
    BY <2>1 DEF NewAddress, Last
  <2>3. Len(w) \in DOMAIN w
    BY <1>1, <2>2
  <2> QED BY <2>2, <2>3
<1>3. \A k \in DOMAIN w : \E i \in 1 .. n :
          /\ table[i] = w[k]
          /\ \A j \in 1 .. i - 1 : table[j].address < w[k].address
  BY DEF Entries
<1>4. \A j \in 1 .. n : j = n \/ j \in 1 .. n - 1
  OBVIOUS
<1> QED BY <1>1, <1>2, <1>3, <1>4 DEF Entries

(* write_src() writes each address of the text once, with the first of its *)
(* symbols.                                                                *)
LEMMA WrittenEntries == Entries(Written, Len(table))
<1> DEFINE N == Len(table)
           V == Seq(NmLine)
           New(w, n) == symbol_valid(table[n]) /\ NewAddress(w, table[n])
           Pass(f, n) == IF n = 0 THEN <<>>
                         ELSE IF New(f[n - 1], n)
                         THEN Append(f[n - 1], table[n]) ELSE f[n - 1]
           G == [x \in V \X (1 .. N) |->
                    IF New(x[1], x[2]) THEN Append(x[1], table[x[2]]) ELSE x[1]]
           written == CHOOSE f : f = [n \in 0 .. N |-> Pass(f, n)]
<1>1. N \in Nat /\ \A n \in 1 .. N : table[n] \in NmLine
  BY TableKept DEF Kept
<1>2. written = [n \in 0 .. N |-> Pass(written, n)]
  <2>1. Body(G, N, V) /\ <<>> \in V
    BY <1>1 DEF Body
  <2>2. PICK f : Loop(f, N, V, <<>>, G)
    <3> HIDE DEF N, V, G
    <3> QED BY <1>1, <2>1, Iteration
  <2>3. \A n \in 1 .. N : f[n] = Pass(f, n)
    <3> SUFFICES ASSUME NEW n \in 1 .. N
                 PROVE  f[n] = Pass(f, n)
      OBVIOUS
    <3>1. n - 1 \in 0 .. N /\ n # 0
      BY <1>1
    <3>2. <<f[n - 1], n>> \in V \X (1 .. N)
      BY <3>1, <2>2 DEF Loop
    <3> HIDE DEF N, V, New
    <3> QED BY <2>2, <3>1, <3>2 DEF Loop
  <2>4. f = [n \in 0 .. N |-> Pass(f, n)]
    <3>1. f[0] = Pass(f, 0)
      BY <2>2 DEF Loop
    <3>2. \A n \in 0 .. N : n = 0 \/ n \in 1 .. N
      BY <1>1
    <3> HIDE DEF N, V, Pass
    <3>3. \A n \in 0 .. N : f[n] = Pass(f, n)
      BY <2>3, <3>1, <3>2
    <3> QED BY <2>2, <3>3 DEF Loop
  <2> HIDE DEF Pass, N
  <2> QED BY <2>4
<1> DEFINE T == {n \in 0 .. N : Entries(written[n], n)}
<1>3. 0 \in T
  <2>1. written[0] = <<>>
    <3> HIDE DEF N, written, New
    <3> QED BY <1>1, <1>2
  <2>2. Entries(<<>>, 0)
    BY DEF Entries
  <2> HIDE DEF written
  <2> QED BY <2>1, <2>2, <1>1
<1>4. ASSUME NEW n \in 1 .. N, n - 1 \in T
      PROVE  n \in T
  <2> DEFINE w == written[n - 1]
  <2>1. written[n] = IF New(w, n) THEN Append(w, table[n]) ELSE w
    <3>1. n \in 0 .. N /\ n # 0
      BY <1>1
    <3> HIDE DEF N, written, New
    <3> QED BY <3>1, <1>2
  <2>2. Entries(w, n - 1)
    BY <1>4
  <2> HIDE DEF w, written
  <2>3. Entries(written[n], n)
    <3>1. CASE New(w, n)
      BY <3>1, <2>1, <2>2, EntryWritten
    <3>2. CASE ~New(w, n)
      BY <3>2, <2>1, <2>2, EntryPassedOver
    <3> QED BY <3>1, <3>2
  <2> QED BY <2>3, <1>1
<1>5. T = 0 .. N
  <2>1. T \in SUBSET (0 .. N)
    OBVIOUS
  <2> HIDE DEF T, N
  <2> QED BY <1>1, <1>3, <1>4, <2>1, SetInduction
<1>6. Written = written[N]
  BY DEF Written
<1> HIDE DEF written
<1> QED BY <1>1, <1>5, <1>6

(* The names lie one behind the other, none of them empty.                 *)
LEMMA Positions ==
    ASSUME NEW es \in Seq(NmLine)
    PROVE  \A i, j \in DOMAIN es : i # j => Position(es, i) # Position(es, j)
<1> DEFINE N == Len(es)
           Pass(f, n) == IF n = 0 THEN 0 ELSE f[n - 1] + es[n].symbol_length
           G == [x \in Nat \X (1 .. N) |-> x[1] + es[x[2]].symbol_length]
           ends == CHOOSE f : f = [n \in 0 .. N |-> Pass(f, n)]
<1>1. N \in Nat /\ \A n \in 1 .. N : es[n].symbol_length \in Nat \ {0}
  BY LineFields
<1>2. PICK f : Loop(f, N, Nat, 0, G)
  <2>1. Body(G, N, Nat) /\ 0 \in Nat
    <3> HIDE DEF N
    <3> QED BY <1>1 DEF Body
  <2> HIDE DEF N, G
  <2> QED BY <1>1, <2>1, Iteration
<1>3. f \in [0 .. N -> Nat] /\ f = [n \in 0 .. N |-> Pass(f, n)]
  <2>1. f \in [0 .. N -> Nat] /\ f[0] = 0
    BY <1>2 DEF Loop
  <2>2. \A n \in 1 .. N : f[n] = Pass(f, n)
    <3> SUFFICES ASSUME NEW n \in 1 .. N
                 PROVE  f[n] = Pass(f, n)
      OBVIOUS
    <3>1. n - 1 \in 0 .. N /\ n # 0
      BY <1>1
    <3>2. <<f[n - 1], n>> \in Nat \X (1 .. N)
      BY <3>1, <2>1
    <3> HIDE DEF N
    <3> QED BY <1>2, <3>1, <3>2 DEF Loop
  <2>3. \A n \in 0 .. N : n = 0 \/ n \in 1 .. N
    BY <1>1
  <2>4. f[0] = Pass(f, 0)
    BY <2>1
  <2> HIDE DEF N, Pass
  <2>5. \A n \in 0 .. N : f[n] = Pass(f, n)
    BY <2>2, <2>3, <2>4
  <2> QED BY <2>1, <2>5
<1>4. ends = [n \in 0 .. N |-> Pass(ends, n)]
  <2> HIDE DEF Pass, N
  <2> QED BY <1>3
<1> HIDE DEF ends
<1> DEFINE T == {n \in 0 .. N : /\ ends[n] \in Nat
                                /\ \A m \in 0 .. n - 1 : ends[m] < ends[n]
                                /\ \A m \in 0 .. n - 1 : ends[m] \in Nat}
<1>5. 0 \in T
  <2>1. ends[0] = 0
    <3> HIDE DEF N
    <3> QED BY <1>1, <1>4
  <2> QED BY <2>1, <1>1
<1>6. ASSUME NEW n \in 1 .. N, n - 1 \in T
      PROVE  n \in T
  <2>1. ends[n] = ends[n - 1] + es[n].symbol_length
    <3>1. n \in 0 .. N /\ n # 0
      BY <1>1
    <3> HIDE DEF N
    <3> QED BY <3>1, <1>4
  <2>2. /\ ends[n - 1] \in Nat
        /\ \A m \in 0 .. n - 2 : ends[m] \in Nat /\ ends[m] < ends[n - 1]
    BY <1>6
  <2>3. ends[n] \in Nat /\ ends[n - 1] < ends[n]
    BY <2>1, <2>2, <1>1
  <2>4. \A m \in 0 .. n - 1 : m = n - 1 \/ m \in 0 .. n - 2
    OBVIOUS
  <2>5. n \in 0 .. N
    BY <1>1
  <2>6. ASSUME NEW m \in 0 .. n - 1
        PROVE  ends[m] \in Nat /\ ends[m] < ends[n]
    <3>1. ends[m] \in Nat /\ ends[m] <= ends[n - 1]
      BY <2>2, <2>4
    <3> QED BY <3>1, <2>2, <2>3
  <2> HIDE DEF N
  <2> QED BY <2>3, <2>5, <2>6
<1>7. T = 0 .. N
  <2>1. T \in SUBSET (0 .. N)
    OBVIOUS
  <2> HIDE DEF T, N
  <2> QED BY <1>1, <1>5, <1>6, <2>1, SetInduction
<1>8. \A n \in 0 .. N : ends[n] \in Nat /\ \A m \in 0 .. n - 1 : ends[m] < ends[n]
  BY <1>7
<1>9. \A i : Position(es, i) = ends[i - 1]
  BY DEF Position, ends
<1>10. ASSUME NEW i \in DOMAIN es, NEW j \in DOMAIN es, i < j
       PROVE  Position(es, i) < Position(es, j)
  <2>1. i \in Int /\ j - 1 \in 0 .. N /\ i - 1 \in 0 .. j - 2
    BY <1>1, <1>10
  <2> HIDE DEF N
  <2> QED BY <2>1, <1>8, <1>9
<1>11. \A i \in DOMAIN es : Position(es, i) \in Nat
  <2> SUFFICES ASSUME NEW i \in DOMAIN es
               PROVE  Position(es, i) \in Nat
    OBVIOUS
  <2>1. i - 1 \in 0 .. N
    BY <1>1
  <2> HIDE DEF N
  <2> QED BY <2>1, <1>8, <1>9
<1> QED
  <2> SUFFICES ASSUME NEW i \in DOMAIN es, NEW j \in DOMAIN es, i # j
               PROVE  Position(es, i) # Position(es, j)
    OBVIOUS
  <2>1. i < j \/ j < i
    BY <1>1
  <2>2. Position(es, i) \in Nat /\ Position(es, j) \in Nat
    BY <1>11
  <2> QED BY <2>1, <2>2, <1>10

(* The addresses grow by one at least, so the i-th is not below i.         *)
LEMMA AddressesGrow ==
    ASSUME NEW k \in DOMAIN Written
    PROVE  k <= Written[k].address
<1> DEFINE N == Len(Written)
           T == {n \in 0 .. N : n > 0 => n <= Written[n].address}
<1>1. /\ N \in Nat /\ DOMAIN Written = 1 .. N
      /\ \A n \in 1 .. N : Written[n].address \in Nat /\ Written[n].address > 0
      /\ \A m, n \in 1 .. N : m < n => Written[m].address < Written[n].address
  BY WrittenEntries, LineFields DEF Entries
<1>2. 0 \in T
  BY <1>1
<1>3. ASSUME NEW n \in 1 .. N, n - 1 \in T
      PROVE  n \in T
  <2>1. CASE n = 1
    BY <2>1, <1>1
  <2>2. CASE n # 1
    <3>1. n - 1 \in 1 .. N /\ n - 1 <= Written[n - 1].address
      BY <2>2, <1>3, <1>1
    <3>2. Written[n - 1].address < Written[n].address
      BY <3>1, <1>1
    <3> QED BY <3>1, <3>2, <1>1
  <2> QED BY <2>1, <2>2
<1>4. T = 0 .. N
  <2>1. T \in SUBSET (0 .. N)
    OBVIOUS
  <2> HIDE DEF T, N
  <2> QED BY <1>1, <1>2, <1>3, <2>1, SetInduction
<1>5. k \in T
  BY <1>1, <1>4
<1> QED BY <1>1, <1>5

(* What lookup_kallsyms() prints of an address: the first of the symbols   *)
(* nm has for the last address up to it, and the distance to that one.     *)
NearestSymbol(found, at) ==
    /\ Address("_text") <= at /\ at < Address("_etext")
    /\ found[1] = at
    /\ \E i \in DOMAIN table :
          /\ table[i].symbol = found[3]
          /\ table[i].address = at - found[2]
          /\ \A j \in DOMAIN table :
                /\ table[j].address <= at => table[j].address <= table[i].address
                /\ j < i => table[j].address < table[i].address

(* What lookup_kallsyms() finds for an address is right: the address is in *)
(* the text, and the symbol is the first of those at the last address that *)
(* has one; the distance is less than that to the next one.                *)
THEOREM LookupNearest ==
    ASSUME NEW at \in Int, lookup_kallsyms(at) # <<>>
    PROVE  /\ NearestSymbol(lookup_kallsyms(at), at)
           /\ \E k \in 1 .. Len(Written) - 1 :
                 /\ lookup_kallsyms(at)[2] = at - Written[k].address
                 /\ Written[k].address <= at /\ at < Written[k + 1].address
<1> DEFINE N == Len(Written)
           W == Written
           text == Address("_text")
           etext == Address("_etext")
<1>1. /\ W \in Seq(NmLine) /\ N \in Nat /\ DOMAIN W = 1 .. N
      /\ \A n \in 1 .. N : W[n].address \in Nat /\ symbol_valid(W[n])
      /\ \A m, n \in 1 .. N : m < n => W[m].address < W[n].address
  BY WrittenEntries, LineFields DEF Entries
<1>2. text \in Nat /\ etext \in Nat
  BY AddressFacts
<1>3. Matches(at) # {} /\ Matches(at) \subseteq 1 .. N
  BY DEF lookup_kallsyms, Matches, kallsyms_syms_num
<1> DEFINE index == CHOOSE i \in Matches(at) : \A j \in Matches(at) : i <= j
<1>4. index \in Matches(at)
  <2>1. Matches(at) \in SUBSET Nat
    BY <1>1, <1>3
  <2>2. \E i \in Matches(at) : \A j \in Matches(at) : i <= j
    BY <2>1, <1>3, LeastNat
  <2> QED BY <2>2
<1>5. lookup_kallsyms(at) = <<at, at - kallsyms_addresses[index],
                             kallsyms_names(kallsyms_index[index])>>
  BY <1>3 DEF lookup_kallsyms
<1> HIDE DEF index
<1>6. /\ index \in 1 .. N
      /\ kallsyms_addresses[index] <= at /\ at < kallsyms_addresses[index + 1]
  <2>1. /\ index \in 1 .. N
        /\ at >= kallsyms_addresses[index] /\ at < kallsyms_addresses[index + 1]
    BY <1>4 DEF Matches, kallsyms_syms_num
  <2>2. kallsyms_addresses[index] = W[index].address
    BY <2>1, <1>1 DEF kallsyms_addresses
  <2> QED BY <2>1, <2>2, <1>1
<1>7. kallsyms_addresses[index] = W[index].address
  BY <1>1, <1>6 DEF kallsyms_addresses
<1>8. index < N
  <2>0. index \in Int /\ N \in Int /\ index <= N
    BY <1>1, <1>6
  <2> SUFFICES ASSUME index = N
               PROVE  FALSE
    <3> HIDE DEF N
    <3> QED BY <2>0
  <2>1. kallsyms_addresses[index + 1] = N
    BY <1>1 DEF kallsyms_addresses, kallsyms_syms_num
  <2>2. N <= W[N].address /\ W[N].address \in Nat
    BY <1>1, <1>6, AddressesGrow
  <2> QED BY <2>1, <2>2, <1>1, <1>6, <1>7
<1>9. /\ index \in 1 .. N - 1 /\ index + 1 \in 1 .. N
      /\ W[index].address <= at /\ at < W[index + 1].address
  <2>1. index \in 1 .. N - 1 /\ index + 1 \in 1 .. N
    BY <1>1, <1>6, <1>8
  <2>2. kallsyms_addresses[index + 1] = W[index + 1].address
    BY <2>1, <1>1 DEF kallsyms_addresses
  <2> QED BY <2>1, <2>2, <1>6, <1>7
<1>10. kallsyms_names(kallsyms_index[index]) = W[index].symbol
  <2> DEFINE p == Position(W, index)
             i0 == CHOOSE i \in DOMAIN W : Position(W, i) = p
  <2>1. index \in DOMAIN W /\ kallsyms_index[index] = p
    BY <1>1, <1>6 DEF kallsyms_index
  <2>2. i0 \in DOMAIN W /\ Position(W, i0) = p
    BY <2>1
  <2>3. i0 = index
    <3> HIDE DEF i0
    <3> QED BY <2>1, <2>2, <1>1, Positions
  <2>4. kallsyms_names(p) = W[i0].symbol
    BY <2>1 DEF kallsyms_names, NameAt
  <2> HIDE DEF p, i0
  <2> QED BY <2>1, <2>3, <2>4
<1>11. text <= W[index].address /\ W[index + 1].address <= etext
  BY <1>1, <1>6, <1>9 DEF symbol_valid
<1>12. text <= at /\ at < etext
  BY <1>1, <1>2, <1>6, <1>9, <1>11
<1>13. PICK i \in 1 .. Len(table) :
         /\ table[i] = W[index]
         /\ \A j \in 1 .. i - 1 : table[j].address < W[index].address
  BY <1>1, <1>6, WrittenEntries DEF Entries
<1>14. ASSUME NEW j \in DOMAIN table, table[j].address <= at
       PROVE  table[j].address <= W[index].address
  <2>1. table[j].address \in Nat /\ j \in 1 .. Len(table)
    BY TableFacts
  <2>2. CASE table[j].address < text
    BY <2>1, <2>2, <1>1, <1>2, <1>6, <1>11
  <2>3. CASE table[j].address = 0
    BY <2>3, <1>1, <1>6
  <2>4. CASE table[j].address >= text /\ table[j].address > 0
    <3>1. symbol_valid(table[j])
      BY <2>1, <2>4, <1>2, <1>12, <1>14 DEF symbol_valid
    <3>2. PICK k \in 1 .. N : W[k].address = table[j].address
      BY <3>1, <2>1, <2>4, <1>1, WrittenEntries DEF Entries
    <3>3. k <= index
      <4> SUFFICES ASSUME index < k
                   PROVE  FALSE
        BY <1>6
      <4>1. index + 1 = k \/ index + 1 < k
        BY <1>6
      <4>2. W[index + 1].address <= W[k].address
        BY <4>1, <1>1, <1>9
      <4> QED BY <4>2, <3>2, <1>1, <1>9, <1>14
    <3>4. k = index \/ W[k].address < W[index].address
      BY <3>3, <1>1, <1>6
    <3> QED BY <3>2, <3>4, <1>1, <1>6
  <2> QED BY <2>1, <2>2, <2>3, <2>4, <1>2
<1>15. /\ i \in DOMAIN table /\ table[i].symbol = W[index].symbol
       /\ table[i].address = W[index].address
       /\ \A j \in DOMAIN table : j < i => table[j].address < table[i].address
  BY <1>13, TableFacts
<1>16. at - (at - W[index].address) = W[index].address
  BY <1>1, <1>6
<1> DEFINE found == lookup_kallsyms(at)
<1>17. /\ found[1] = at /\ found[2] = at - W[index].address
       /\ found[3] = W[index].symbol
  BY <1>5, <1>7, <1>10
<1> HIDE DEF found, W, text, etext
<1>18. \E k \in DOMAIN table :
          /\ table[k].symbol = found[3]
          /\ table[k].address = at - found[2]
          /\ \A j \in DOMAIN table :
                /\ table[j].address <= at => table[j].address <= table[k].address
                /\ j < k => table[j].address < table[k].address
  BY <1>14, <1>15, <1>16, <1>17
<1>19. NearestSymbol(found, at)
  BY <1>12, <1>17, <1>18 DEF NearestSymbol, text, etext
<1> QED BY <1>9, <1>17, <1>19 DEF found, W

-----------------------------------------------------------------------------
(* vsprintf(): the directives of a format. *)

(* The one place that After() can mean.                                    *)
LEMMA AfterIs ==
    ASSUME NEW fmt, Len(fmt) \in Nat, NEW i \in Nat, NEW S, NEW j \in i .. Len(fmt) + 1,
           j > Len(fmt) \/ fmt[j] \notin S,
           \A k \in i .. j - 1 : fmt[k] \in S
    PROVE  After(fmt, i, S) = j
<1> DEFINE Stops(k) == /\ k > Len(fmt) \/ fmt[k] \notin S
                      /\ \A l \in i .. k - 1 : fmt[l] \in S
           found == CHOOSE k \in i .. Len(fmt) + 1 : Stops(k)
<1>1. Len(fmt) \in Nat
  OBVIOUS
<1>2. found \in i .. Len(fmt) + 1 /\ Stops(found)
  <2>1. Stops(j)
    OBVIOUS
  <2> HIDE DEF Stops
  <2> QED BY <2>1
<1>3. After(fmt, i, S) = found
  BY DEF After
<1> HIDE DEF found
<1>4. CASE found < j
  <2>1. found \in i .. j - 1 /\ found <= Len(fmt)
    BY <1>1, <1>2, <1>4
  <2> QED BY <2>1, <1>1, <1>2
<1>5. CASE j < found
  <2>1. j \in i .. found - 1 /\ j <= Len(fmt)
    BY <1>1, <1>2, <1>5
  <2> QED BY <2>1, <1>1, <1>2
<1> QED BY <1>1, <1>2, <1>3, <1>4, <1>5

(* What vsprintf() makes of the format from place at[1] on, with the       *)
(* arguments from the at[2]-th on, when it has str[at] for later places.   *)
Item(fmt, args, str, at) ==
    LET d == Directive(fmt, at[1] + 1)
        c == CharAt(fmt, d.at)
    IN  IF at[1] > Len(fmt) THEN <<>>
        ELSE IF fmt[at[1]] # "%" THEN <<fmt[at[1]]>> \o str[<<at[1] + 1, at[2]>>]
        ELSE IF c \in Conversion
        THEN Converted(c, d, args[at[2]]) \o str[<<d.at + 1, at[2] + 1>>]
        ELSE IF c = "end" THEN <<"%">>
        ELSE (IF c = "%" THEN <<"%">> ELSE <<"%", c>>) \o str[<<d.at + 1, at[2]>>]

(* Behind each % of the format there is a conversion.                      *)
Complete(fmt) ==
    /\ Len(fmt) \in Nat
    /\ \A i \in 1 .. Len(fmt) : fmt[i] = "%" =>
          Directive(fmt, i + 1).at \in i + 1 .. Len(fmt)

(* str is what vsprintf() makes from each place on.                        *)
Texts(fmt, args, str) ==
    /\ vsprintf(fmt, args) = str[<<1, 1>>]
    /\ \A i \in 1 .. Len(fmt) + 1, a \in Nat :
          str[<<i, a>>] = Item(fmt, args, str, <<i, a>>)

(* An item looks at later ones only.                                       *)
LEMMA ItemLater ==
    ASSUME NEW fmt, Complete(fmt), NEW args, NEW i \in 1 .. Len(fmt) + 1,
           NEW a \in Nat, NEW g, NEW h,
           \A j \in i + 1 .. Len(fmt) + 1, b \in Nat : g[<<j, b>>] = h[<<j, b>>]
    PROVE  Item(fmt, args, g, <<i, a>>) = Item(fmt, args, h, <<i, a>>)
<1> DEFINE d == Directive(fmt, i + 1)
           n == Len(fmt)
           before(str) == str[<<i + 1, a>>]
           behind(str, b) == str[<<d.at + 1, b>>]
<1>1. n \in Nat
  BY DEF Complete
<1>2. CASE i > n
  BY <1>2 DEF Item
<1>3. CASE i <= n /\ fmt[i] # "%"
  <2>1. i + 1 \in i + 1 .. n + 1
    BY <1>1, <1>3
  <2>2. g[<<i + 1, a>>] = h[<<i + 1, a>>]
    BY <2>1
  <2> QED BY <2>2, <1>1, <1>3 DEF Item
<1>4. CASE i <= n /\ fmt[i] = "%"
  <2>1. d.at \in i + 1 .. n
    BY <1>1, <1>4 DEF Complete
  <2>2. d.at + 1 \in i + 1 .. n + 1 /\ a + 1 \in Nat
    BY <2>1, <1>1
  <2>3. /\ g[<<d.at + 1, a>>] = h[<<d.at + 1, a>>]
        /\ g[<<d.at + 1, a + 1>>] = h[<<d.at + 1, a + 1>>]
    BY <2>2
  <2> QED BY <2>3, <1>1, <1>4, Zenon DEF Item
<1> QED BY <1>1, <1>2, <1>3, <1>4

(* vsprintf() is defined for every complete format.                        *)
LEMMA TextsExist ==
    ASSUME NEW fmt, Complete(fmt), NEW args
    PROVE  \E str : Texts(fmt, args, str)
<1> DEFINE n == Len(fmt)
           Made(g, k) == \A i \in k .. n + 1, a \in Nat :
                            g[<<i, a>>] = Item(fmt, args, g, <<i, a>>)
           T == {k \in 0 .. n : \E g : Made(g, n + 1 - k)}
<1>1. n \in Nat
  BY DEF Complete
<1>2. 0 \in T
  <2> DEFINE g == [at \in (n + 1 .. n + 1) \X Nat |-> <<>>]
  <2>1. \A i \in n + 1 .. n + 1, a \in Nat :
           g[<<i, a>>] = <<>> /\ Item(fmt, args, g, <<i, a>>) = <<>>
    <3> SUFFICES ASSUME NEW i \in n + 1 .. n + 1, NEW a \in Nat
                 PROVE  g[<<i, a>>] = <<>> /\ Item(fmt, args, g, <<i, a>>) = <<>>
      OBVIOUS
    <3>1. i > n /\ <<i, a>> \in (n + 1 .. n + 1) \X Nat
      BY <1>1
    <3>2. g[<<i, a>>] = <<>>
      BY <3>1
    <3> HIDE DEF g
    <3> QED BY <3>1, <3>2 DEF Item
  <2> HIDE DEF g
  <2>2. Made(g, n + 1)
    BY <2>1
  <2> HIDE DEF Made
  <2> QED BY <2>2, <1>1
<1>3. ASSUME NEW k \in 1 .. n, k - 1 \in T
      PROVE  k \in T
  <2> DEFINE m == n + 1 - k
  <2>1. PICK g : Made(g, n + 1 - (k - 1))
    BY <1>3
  <2>2. m \in 1 .. n /\ n + 1 - (k - 1) = m + 1
    BY <1>1
  <2> DEFINE h == [at \in (m .. n + 1) \X Nat |->
                      IF at[1] = m THEN Item(fmt, args, g, at) ELSE g[at]]
  <2>3. \A a \in Nat : h[<<m, a>>] = Item(fmt, args, g, <<m, a>>)
    <3> SUFFICES ASSUME NEW a \in Nat
                 PROVE  h[<<m, a>>] = Item(fmt, args, g, <<m, a>>)
      OBVIOUS
    <3>1. <<m, a>> \in (m .. n + 1) \X Nat
      BY <2>2, <1>1
    <3> HIDE DEF m, n
    <3> QED BY <3>1
  <2>4. \A i \in m + 1 .. n + 1, a \in Nat : h[<<i, a>>] = g[<<i, a>>]
    <3> SUFFICES ASSUME NEW i \in m + 1 .. n + 1, NEW a \in Nat
                 PROVE  h[<<i, a>>] = g[<<i, a>>]
      OBVIOUS
    <3>1. <<i, a>> \in (m .. n + 1) \X Nat /\ i # m
      BY <2>2, <1>1
    <3> HIDE DEF m, n
    <3> QED BY <3>1
  <2> HIDE DEF h
  <2>5. \A i \in m .. n + 1, a \in Nat :
           Item(fmt, args, h, <<i, a>>) = Item(fmt, args, g, <<i, a>>)
    <3> SUFFICES ASSUME NEW i \in m .. n + 1, NEW a \in Nat
                 PROVE  Item(fmt, args, h, <<i, a>>) = Item(fmt, args, g, <<i, a>>)
      OBVIOUS
    <3>1. i \in 1 .. n + 1
      BY <2>2, <1>1
    <3>2. \A j \in i + 1 .. n + 1 : j \in m + 1 .. n + 1
      BY <2>2, <1>1
    <3>3. \A j \in i + 1 .. n + 1, b \in Nat : h[<<j, b>>] = g[<<j, b>>]
      BY <3>2, <2>4
    <3> QED BY <3>1, <3>3, ItemLater
  <2>6. \A i \in m .. n + 1 : i = m \/ i \in m + 1 .. n + 1
    BY <2>2, <1>1
  <2>7. \A i \in m + 1 .. n + 1, a \in Nat :
           g[<<i, a>>] = Item(fmt, args, g, <<i, a>>)
    BY <2>1, <2>2
  <2> HIDE DEF m
  <2>8. Made(h, m)
    BY <2>3, <2>4, <2>5, <2>6, <2>7
  <2> HIDE DEF Made, n
  <2>9. k \in 0 .. n
    BY <1>1
  <2> QED BY <2>8, <2>9 DEF m
<1>4. T = 0 .. n
  <2>1. T \in SUBSET (0 .. n)
    OBVIOUS
  <2> HIDE DEF T, n
  <2> QED BY <1>1, <1>2, <1>3, <2>1, SetInduction
<1>5. PICK g : Made(g, 1)
  <2>1. n + 1 - n = 1 /\ n \in 0 .. n
    BY <1>1
  <2>2. n \in T
    <3> HIDE DEF T, n
    <3> QED BY <2>1, <1>4
  <2>3. PICK g : Made(g, n + 1 - n)
    <3> HIDE DEF Made
    <3> QED BY <2>2
  <2> HIDE DEF n
  <2> QED BY <2>1, <2>3
<1> DEFINE D == (1 .. n + 1) \X Nat
           f == [at \in D |-> g[at]]
           str == CHOOSE s : s = [at \in D |-> Item(fmt, args, s, at)]
<1>6. f = [at \in D |-> Item(fmt, args, f, at)]
  <2>1. \A i \in 1 .. n + 1, a \in Nat : f[<<i, a>>] = g[<<i, a>>]
    <3> HIDE DEF n
    <3> QED OBVIOUS
  <2> HIDE DEF f
  <2>2. \A i \in 1 .. n + 1, a \in Nat :
           Item(fmt, args, f, <<i, a>>) = Item(fmt, args, g, <<i, a>>)
    <3> SUFFICES ASSUME NEW i \in 1 .. n + 1, NEW a \in Nat
                 PROVE  Item(fmt, args, f, <<i, a>>) = Item(fmt, args, g, <<i, a>>)
      OBVIOUS
    <3>1. \A j \in i + 1 .. n + 1 : j \in 1 .. n + 1
      BY <1>1
    <3>2. \A j \in i + 1 .. n + 1, b \in Nat : f[<<j, b>>] = g[<<j, b>>]
      BY <3>1, <2>1
    <3> QED BY <3>2, ItemLater
  <2>3. \A i \in 1 .. n + 1, a \in Nat :
           f[<<i, a>>] = Item(fmt, args, f, <<i, a>>)
    BY <2>1, <2>2, <1>5
  <2>4. \A at \in D : \E i \in 1 .. n + 1, a \in Nat : at = <<i, a>>
    <3> HIDE DEF n
    <3> QED OBVIOUS
  <2>5. \A at \in D : f[at] = Item(fmt, args, f, at)
    BY <2>3, <2>4
  <2>6. f = [at \in D |-> f[at]]
    BY DEF f
  <2> HIDE DEF D
  <2> QED BY <2>5, <2>6
<1>7. str = [at \in D |-> Item(fmt, args, str, at)]
  <2> HIDE DEF D, f
  <2> QED BY <1>6
<1>8. vsprintf(fmt, args) = str[<<1, 1>>]
  BY DEF vsprintf, Item
<1> HIDE DEF str
<1>9. \A i \in 1 .. n + 1, a \in Nat :
         str[<<i, a>>] = Item(fmt, args, str, <<i, a>>)
  <2> SUFFICES ASSUME NEW i \in 1 .. n + 1, NEW a \in Nat
               PROVE  str[<<i, a>>] = Item(fmt, args, str, <<i, a>>)
    OBVIOUS
  <2>1. <<i, a>> \in D
    OBVIOUS
  <2> HIDE DEF D
  <2> QED BY <2>1, <1>7
<1> QED BY <1>8, <1>9 DEF Texts

-----------------------------------------------------------------------------
(* vsprintf(): the digits of a number. *)

(* The characters of hexadecimal texts.                                    *)
Chars == {"x"} \cup {Small[i] : i \in 1 .. 16}

(* The characters of number() tell the digits apart.                       *)
LEMMA DigitIs ==
    ASSUME NEW d \in 0 .. 15
    PROVE  /\ Small[d + 1] \in Chars
           /\ (CHOOSE e \in 0 .. 15 : Small[e + 1] = Small[d + 1]) = d
           /\ d < 10 => (CHOOSE e \in 0 .. 9 : Small[e + 1] = Small[d + 1]) = d
<1>1. \A e \in 0 .. 15 : Small[e + 1] = Small[d + 1] => e = d
  BY DEF Small
<1>2. d < 10 => d \in 0 .. 9 /\ \A e \in 0 .. 9 : e \in 0 .. 15
  OBVIOUS
<1>3. Small[d + 1] \in Chars
  BY DEF Chars
<1> HIDE DEF Small
<1>4. (CHOOSE e \in 0 .. 15 : Small[e + 1] = Small[d + 1]) = d
  BY <1>1
<1>5. d < 10 => (CHOOSE e \in 0 .. 9 : Small[e + 1] = Small[d + 1]) = d
  BY <1>1, <1>2
<1> QED BY <1>3, <1>4, <1>5

(* Division makes a number smaller.                                        *)
LEMMA Quotient ==
    ASSUME NEW base \in {10, 16}, NEW n \in Nat
    PROVE  /\ n % base \in 0 .. base - 1 /\ n \div base \in Nat
           /\ n = base * (n \div base) + (n % base)
           /\ n >= base => n \div base \in 0 .. n - 1
<1>1. CASE base = 10
  BY <1>1
<1>2. CASE base = 16
  BY <1>2
<1> QED BY <1>1, <1>2

(* The first digit, or one digit behind those of the quotient.             *)
Step(d, n, base, digits) ==
    IF n < base THEN <<digits[n + 1]>>
    ELSE Append(d[n \div base], digits[(n % base) + 1])

(* d[n] are the digits of n, for every n up to num.                        *)
Steps(d, num, base, digits) ==
    \A n \in 0 .. num : d[n] = Step(d, n, base, digits)

(* The loop of number() that divides has a result, for every number.       *)
LEMMA StepsExist ==
    ASSUME NEW base \in {10, 16}, NEW digits, NEW num \in Nat
    PROVE  \E d : /\ Steps(d, num, base, digits)
                  /\ Digits(num, base, digits) = d[num]
<1> DEFINE Pass(d, n) == Step(d, n, base, digits)
           T == {k \in 0 .. num : \E g : Steps(g, k, base, digits)}
<1>1. 0 \in T
  <2> DEFINE g == [n \in 0 .. 0 |-> <<digits[n + 1]>>]
  <2>1. g[0] = Pass(g, 0)
    BY DEF Step
  <2> HIDE DEF g
  <2>2. Steps(g, 0, base, digits)
    BY <2>1 DEF Steps
  <2> HIDE DEF Steps
  <2> QED BY <2>2
<1>2. ASSUME NEW k \in 1 .. num, k - 1 \in T
      PROVE  k \in T
  <2>1. PICK g : Steps(g, k - 1, base, digits)
    BY <1>2
  <2> DEFINE h == [n \in 0 .. k |-> IF n < k THEN g[n] ELSE Pass(g, k)]
  <2>2. h[k] = Pass(g, k) /\ \A n \in 0 .. k - 1 : h[n] = g[n]
    <3> HIDE DEF Pass
    <3> QED OBVIOUS
  <2>3. \A n \in 0 .. k : Pass(h, n) = Pass(g, n)
    <3> HIDE DEF h
    <3> SUFFICES ASSUME NEW n \in 0 .. k
                 PROVE  Pass(h, n) = Pass(g, n)
      OBVIOUS
    <3>1. n >= base => n \div base \in 0 .. k - 1
      BY Quotient
    <3> QED BY <3>1, <2>2 DEF Step
  <2> HIDE DEF h
  <2>4. \A n \in 0 .. k : n = k \/ n \in 0 .. k - 1
    OBVIOUS
  <2>5. Steps(h, k, base, digits)
    BY <2>1, <2>2, <2>3, <2>4 DEF Steps
  <2> HIDE DEF Steps
  <2> QED BY <2>5
<1>3. T = 0 .. num
  <2>1. T \in SUBSET (0 .. num)
    OBVIOUS
  <2> HIDE DEF T
  <2> QED BY <1>1, <1>2, <2>1, SetInduction
<1>4. PICK g : Steps(g, num, base, digits)
  <2>1. num \in T
    <3> HIDE DEF T
    <3> QED BY <1>3
  <2> HIDE DEF Steps
  <2> QED BY <2>1
<1> DEFINE f == [n \in 0 .. num |-> g[n]]
           d == CHOOSE s : s = [n \in 0 .. num |-> Pass(s, n)]
<1>5. f = [n \in 0 .. num |-> Pass(f, n)]
  <2>1. \A n \in 0 .. num : f[n] = g[n]
    OBVIOUS
  <2>2. f = [n \in 0 .. num |-> f[n]]
    OBVIOUS
  <2> HIDE DEF f
  <2>3. \A n \in 0 .. num : Pass(f, n) = Pass(g, n)
    <3> SUFFICES ASSUME NEW n \in 0 .. num
                 PROVE  Pass(f, n) = Pass(g, n)
      OBVIOUS
    <3>1. n >= base => n \div base \in 0 .. num
      BY Quotient
    <3> QED BY <3>1, <2>1 DEF Step
  <2>4. \A n \in 0 .. num : f[n] = Pass(f, n)
    BY <2>1, <2>3, <1>4 DEF Steps
  <2> HIDE DEF Pass
  <2> QED BY <2>2, <2>4
<1>6. d = [n \in 0 .. num |-> Pass(d, n)]
  <2> HIDE DEF f, Pass
  <2> QED BY <1>5
<1>7. Digits(num, base, digits) = d[num]
  BY DEF Digits, Step
<1> HIDE DEF d
<1>8. Steps(d, num, base, digits)
  <2> HIDE DEF Pass
  <2>1. \A n \in 0 .. num : d[n] = Pass(d, n)
    BY <1>6
  <2> USE DEF Pass
  <2> QED BY <2>1 DEF Steps
<1> QED BY <1>7, <1>8

(* The digits of a number are those of its quotient and one more.          *)
LEMMA DigitsOf ==
    ASSUME NEW base \in {10, 16}, NEW digits, NEW n \in Nat
    PROVE  Digits(n, base, digits) =
             IF n < base THEN <<digits[n + 1]>>
             ELSE Append(Digits(n \div base, base, digits),
                         digits[(n % base) + 1])
<1>1. PICK d : Steps(d, n, base, digits) /\ Digits(n, base, digits) = d[n]
  BY StepsExist
<1>2. d[n] = Step(d, n, base, digits)
  BY <1>1 DEF Steps
<1>3. CASE n < base
  BY <1>1, <1>2, <1>3 DEF Step
<1>4. CASE n >= base
  <2> DEFINE q == n \div base
  <2>1. q \in 0 .. n - 1 /\ q \in Nat
    BY <1>4, Quotient
  <2> HIDE DEF q
  <2>2. PICK e : Steps(e, q, base, digits) /\ Digits(q, base, digits) = e[q]
    BY <2>1, StepsExist
  <2> DEFINE U == {m \in 0 .. q : d[m] # e[m]}
  <2>3. U = {}
    <3> SUFFICES ASSUME U # {}
                 PROVE  FALSE
      OBVIOUS
    <3>1. U \in SUBSET Nat
      OBVIOUS
    <3>2. PICK m \in U : \A k \in U : m <= k
      <4> HIDE DEF U
      <4> QED BY <3>1, LeastNat
    <3>3. m \in Nat /\ m \in 0 .. q /\ m \in 0 .. n /\ d[m] # e[m]
      BY <2>1
    <3>4. m >= base => m \div base \in 0 .. q /\ ~(m <= m \div base)
      <4>1. m >= base => m \div base \in 0 .. m - 1
        BY <3>3, Quotient
      <4> HIDE DEF U
      <4> QED BY <4>1, <3>3, <2>1
    <3>5. m >= base => d[m \div base] = e[m \div base]
      BY <3>2, <3>4
    <3>6. d[m] = Step(d, m, base, digits) /\ e[m] = Step(e, m, base, digits)
      BY <3>3, <1>1, <2>2 DEF Steps
    <3>7. m < base \/ m >= base
      BY <3>3
    <3> QED BY <3>3, <3>5, <3>6, <3>7 DEF Step
  <2>4. d[q] = e[q]
    <3>1. q \in 0 .. q
      BY <2>1
    <3> QED BY <2>3, <3>1
  <2>5. ~(n < base)
    BY <1>4
  <2> QED BY <1>1, <1>2, <2>2, <2>4, <2>5 DEF Step, q
<1> QED BY <1>3, <1>4

(* A last character, in the words of a concatenation.                      *)
LEMMA LastOne ==
    ASSUME NEW S, NEW s \in Seq(S), NEW t \in Seq(S), NEW c \in S
    PROVE  /\ <<c>> \in Seq(S) /\ Len(<<c>>) = 1
           /\ Append(s, c) = s \o <<c>>
           /\ Append(s, c) \in Seq(S) /\ Len(Append(s, c)) = Len(s) + 1
           /\ Append(t \o s, c) = t \o Append(s, c)
<1> DEFINE one == <<c>>
<1>1. one \in Seq(S) /\ Len(one) = 1 /\ one[1] = c
  OBVIOUS
<1> HIDE DEF one
<1>2. \A u \in Seq(S) : /\ Append(u, c) \in Seq(S)
                        /\ Len(Append(u, c)) = Len(u) + 1
                        /\ Append(u, c) = u \o one
  <2> SUFFICES ASSUME NEW u \in Seq(S)
               PROVE  /\ Append(u, c) \in Seq(S)
                      /\ Len(Append(u, c)) = Len(u) + 1
                      /\ Append(u, c) = u \o one
    OBVIOUS
  <2> DEFINE a == Append(u, c)
             b == u \o one
  <2>1. /\ a \in Seq(S) /\ Len(a) = Len(u) + 1 /\ Len(u) \in Nat
        /\ \A i \in 1 .. Len(u) : a[i] = u[i]
        /\ a[Len(u) + 1] = c
    OBVIOUS
  <2>2. /\ b \in Seq(S) /\ Len(b) = Len(u) + 1
        /\ \A i \in 1 .. Len(u) + 1 :
              b[i] = IF i <= Len(u) THEN u[i] ELSE one[i - Len(u)]
    <3> HIDE DEF a
    <3>1. /\ b \in Seq(S) /\ Len(b) = Len(u) + Len(one)
          /\ \A i \in 1 .. Len(u) + Len(one) :
                b[i] = IF i <= Len(u) THEN u[i] ELSE one[i - Len(u)]
      BY <1>1, ConcatProperties
    <3> HIDE DEF b
    <3> QED BY <3>1, <1>1
  <2> HIDE DEF a, b
  <2>3. \A i \in 1 .. Len(a) : a[i] = b[i]
    <3> SUFFICES ASSUME NEW i \in 1 .. Len(a)
                 PROVE  a[i] = b[i]
      OBVIOUS
    <3>1. CASE i <= Len(u)
      BY <3>1, <2>1, <2>2
    <3>2. CASE i = Len(u) + 1
      <4>1. i - Len(u) = 1 /\ ~(i <= Len(u)) /\ i \in 1 .. Len(u) + 1
        BY <3>2, <2>1
      <4> QED BY <4>1, <3>2, <2>1, <2>2, <1>1
    <3> QED BY <3>1, <3>2, <2>1
  <2>4. a = b
    BY <2>1, <2>2, <2>3, SeqEqual
  <2> QED BY <2>1, <2>4 DEF a, b
<1>3. t \o s \in Seq(S)
  BY ConcatProperties
<1>4. Append(t \o s, c) = t \o Append(s, c)
  <2>1. (t \o s) \o one = t \o (s \o one)
    BY <1>1, ConcatAssociative
  <2> QED BY <2>1, <1>2, <1>3
<1> QED BY <1>1, <1>2, <1>4 DEF one

(* v[i] is the number in the characters 3 .. i of the text.                *)
HexSum(t, v) ==
    /\ t \in Seq(Chars) /\ Len(t) >= 2
    /\ v[2] = 0
    /\ \A i \in 3 .. Len(t) : \E d \in 0 .. 15 :
          t[i] = Small[d + 1] /\ v[i] = 16 * v[i - 1] + d

(* The text t reads as the number n.                                       *)
Reads(t, n) == n \in Nat /\ \E v : HexSum(t, v) /\ v[Len(t)] = n

(* Hex() finds this number.                                                *)
LEMMA HexReads ==
    ASSUME NEW t, NEW n, Reads(t, n)
    PROVE  Hex(t) = n
<1>1. PICK v : HexSum(t, v) /\ v[Len(t)] = n
  BY DEF Reads
<1> DEFINE L == Len(t)
           Pass(h, i) == IF i = 2 THEN 0
                         ELSE 16 * h[i - 1]
                              + (CHOOSE d \in 0 .. 15 : Small[d + 1] = t[i])
           w == [i \in 2 .. L |-> v[i]]
           h == CHOOSE g : g = [i \in 2 .. L |-> Pass(g, i)]
<1>2. L \in Nat /\ L >= 2
  BY <1>1 DEF HexSum
<1>3. \A i \in 3 .. L :
         v[i] = 16 * v[i - 1] + (CHOOSE d \in 0 .. 15 : Small[d + 1] = t[i])
  <2> SUFFICES ASSUME NEW i \in 3 .. L
               PROVE  v[i] = 16 * v[i - 1]
                             + (CHOOSE d \in 0 .. 15 : Small[d + 1] = t[i])
    OBVIOUS
  <2>1. PICK d \in 0 .. 15 : t[i] = Small[d + 1] /\ v[i] = 16 * v[i - 1] + d
    BY <1>1 DEF HexSum
  <2>2. (CHOOSE e \in 0 .. 15 : Small[e + 1] = t[i]) = d
    BY <2>1, DigitIs
  <2> QED BY <2>1, <2>2
<1>4. \A i \in 2 .. L : w[i] = v[i]
  OBVIOUS
<1>5. w = [i \in 2 .. L |-> Pass(w, i)]
  <2>1. w = [i \in 2 .. L |-> w[i]]
    OBVIOUS
  <2> HIDE DEF w
  <2>2. w[2] = Pass(w, 2)
    BY <1>1, <1>2, <1>4 DEF HexSum
  <2>3. ASSUME NEW i \in 3 .. L
        PROVE  w[i] = Pass(w, i)
    <3>1. i \in 2 .. L /\ i - 1 \in 2 .. L /\ i # 2
      BY <1>2
    <3> HIDE DEF L
    <3> QED BY <3>1, <1>3, <1>4
  <2>4. \A i \in 2 .. L : i = 2 \/ i \in 3 .. L
    BY <1>2
  <2> HIDE DEF Pass, L
  <2>5. \A i \in 2 .. L : w[i] = Pass(w, i)
    BY <2>2, <2>3, <2>4
  <2> QED BY <2>1, <2>5
<1>6. h = [i \in 2 .. L |-> Pass(h, i)]
  <2> HIDE DEF w, Pass
  <2> QED BY <1>5
<1>7. Hex(t) = h[L]
  BY DEF Hex
<1> HIDE DEF h, w
<1> DEFINE digit(i) == CHOOSE d \in 0 .. 15 : Small[d + 1] = t[i]
<1> DEFINE T == {k \in 0 .. L - 2 : h[k + 2] = v[k + 2]}
<1>8. T = 0 .. L - 2
  <2>1. 0 \in T
    <3>1. h[2] = 0
      BY <1>6, <1>2
    <3> QED BY <3>1, <1>1, <1>2 DEF HexSum
  <2>2. ASSUME NEW k \in 1 .. L - 2, k - 1 \in T
        PROVE  k \in T
    <3>1. k + 2 \in 3 .. L /\ k + 2 \in 2 .. L /\ k + 2 # 2
          /\ k - 1 + 2 = k + 1 /\ k + 2 - 1 = k + 1 /\ k \in 0 .. L - 2
      BY <1>2
    <3>2. h[k + 1] = v[k + 1]
      BY <2>2, <3>1
    <3>3. h[k + 2] = Pass(h, k + 2)
      <4> HIDE DEF Pass, L
      <4> QED BY <3>1, <1>6
    <3>4. h[k + 2] = 16 * v[k + 1] + digit(k + 2)
      BY <3>1, <3>2, <3>3
    <3>5. \A i \in 3 .. L : v[i] = 16 * v[i - 1] + digit(i)
      BY <1>3
    <3> HIDE DEF digit, L
    <3>6. v[k + 2] = 16 * v[k + 1] + digit(k + 2)
      BY <3>1, <3>5
    <3> QED BY <3>1, <3>4, <3>6
  <2>3. T \in SUBSET (0 .. L - 2) /\ L - 2 \in Nat
    BY <1>2
  <2> HIDE DEF T, L
  <2> QED BY <2>1, <2>2, <2>3, SetInduction
<1>9. L - 2 \in T
  <2> HIDE DEF T
  <2> QED BY <1>8, <1>2
<1>10. h[L] = v[L]
  <2>1. L - 2 + 2 = L
    BY <1>2
  <2> HIDE DEF L
  <2> QED BY <2>1, <1>9
<1> QED BY <1>1, <1>7, <1>10

(* One more digit.                                                         *)
LEMMA ReadsNext ==
    ASSUME NEW t, NEW n, Reads(t, n), NEW e \in 0 .. 15
    PROVE  Reads(Append(t, Small[e + 1]), 16 * n + e)
<1>1. PICK v : HexSum(t, v) /\ v[Len(t)] = n
  BY DEF Reads
<1> DEFINE L == Len(t)
           c == Small[e + 1]
           u == Append(t, c)
           w == [i \in 2 .. L + 1 |-> IF i <= L THEN v[i] ELSE 16 * n + e]
<1>2. t \in Seq(Chars) /\ L \in Nat /\ L >= 2 /\ n \in Nat
  BY <1>1 DEF HexSum, Reads
<1>3. c \in Chars
  BY DigitIs
<1> HIDE DEF c
<1>4. u \in Seq(Chars) /\ Len(u) = L + 1 /\ u[L + 1] = c
      /\ \A i \in 1 .. L : u[i] = t[i]
  BY <1>2, <1>3
<1>5. w[L + 1] = 16 * n + e /\ \A i \in 2 .. L : w[i] = v[i]
  BY <1>2
<1> HIDE DEF w, u
<1>6. HexSum(u, w)
  <2>1. w[2] = 0
    BY <1>1, <1>2, <1>5 DEF HexSum
  <2>2. ASSUME NEW i \in 3 .. L + 1
        PROVE  \E d \in 0 .. 15 : u[i] = Small[d + 1] /\ w[i] = 16 * w[i - 1] + d
    <3>1. CASE i = L + 1
      <4>1. i - 1 = L /\ L \in 2 .. L
        BY <3>1, <1>2
      <4>2. w[i - 1] = n
        BY <4>1, <1>1, <1>5
      <4> HIDE DEF L
      <4> QED BY <3>1, <4>2, <1>4, <1>5 DEF c
    <3>2. CASE i # L + 1
      <4>1. i \in 3 .. L /\ i \in 2 .. L /\ i - 1 \in 2 .. L /\ i \in 1 .. L
        BY <3>2, <1>2
      <4>2. PICK d \in 0 .. 15 : t[i] = Small[d + 1] /\ v[i] = 16 * v[i - 1] + d
        BY <4>1, <1>1 DEF HexSum
      <4>3. w[i] = v[i] /\ w[i - 1] = v[i - 1] /\ u[i] = t[i]
        BY <4>1, <1>4, <1>5
      <4> QED BY <4>2, <4>3
    <3> QED BY <3>1, <3>2
  <2> HIDE DEF L
  <2> QED BY <2>1, <2>2, <1>2, <1>4 DEF HexSum
<1>7. 16 * n + e \in Nat
  BY <1>2
<1> HIDE DEF L
<1> QED BY <1>4, <1>5, <1>6, <1>7 DEF Reads, u, c

(* The prefix and zeros.                                                   *)
Zeros(k) == <<"0", "x">> \o Repeat("0", k)

(* They are as many as they should be, and read as 0.                      *)
LEMMA ZerosAre ==
    ASSUME NEW k \in Nat
    PROVE  Zeros(k) \in Seq(Chars) /\ Len(Zeros(k)) = k + 2 /\ Reads(Zeros(k), 0)
<1> DEFINE r == Repeat("0", k)
           p == <<"0", "x">>
           t == Zeros(k)
<1>1. "0" \in Chars /\ "x" \in Chars /\ "0" = Small[0 + 1]
  BY DEF Chars, Small
<1>2. r \in Seq(Chars) /\ Len(r) = k /\ \A i \in 1 .. k : r[i] = "0"
  BY <1>1 DEF Repeat
<1>3. p \in Seq(Chars) /\ Len(p) = 2
  BY <1>1
<1> HIDE DEF r, p
<1>4. /\ t \in Seq(Chars) /\ Len(t) = k + 2
      /\ \A i \in 3 .. k + 2 : t[i] = r[i - 2]
  BY <1>2, <1>3 DEF Zeros, r, p
<1>5. \A i \in 3 .. k + 2 : t[i] = Small[0 + 1]
  <2>1. \A i \in 3 .. k + 2 : i - 2 \in 1 .. k
    OBVIOUS
  <2> HIDE DEF t
  <2> QED BY <2>1, <1>1, <1>2, <1>4
<1> HIDE DEF t
<1> DEFINE v == [i \in 2 .. k + 2 |-> 0]
<1>6. \A i \in 2 .. k + 2 : v[i] = 0
  OBVIOUS
<1> HIDE DEF v
<1>7. HexSum(t, v)
  <2>1. \A i \in 3 .. k + 2 : v[i] = 16 * v[i - 1] + 0
    <3>1. \A i \in 3 .. k + 2 : i \in 2 .. k + 2 /\ i - 1 \in 2 .. k + 2
      OBVIOUS
    <3> QED BY <3>1, <1>6
  <2>2. 0 \in 0 .. 15 /\ 2 \in 2 .. k + 2
    OBVIOUS
  <2> QED BY <2>1, <2>2, <1>4, <1>5, <1>6 DEF HexSum
<1>8. v[k + 2] = 0
  BY <1>6
<1>9. Reads(t, 0)
  BY <1>4, <1>7, <1>8 DEF Reads
<1> QED BY <1>4, <1>9 DEF t

(* The digits of n behind the prefix and zeros are n.                      *)
LEMMA ZerosAndDigits ==
    ASSUME NEW k \in Nat, NEW n \in Nat
    PROVE  /\ Digits(n, 16, Small) \in Seq(Chars) /\ Len(Digits(n, 16, Small)) > 0
           /\ Reads(Zeros(k) \o Digits(n, 16, Small), n)
<1> DEFINE D(m) == Digits(m, 16, Small)
           Good(m) == D(m) \in Seq(Chars) /\ Len(D(m)) > 0 /\ Reads(Zeros(k) \o D(m), m)
           U == {m \in Nat : ~Good(m)}
<1>1. \A m \in Nat : D(m) = IF m < 16 THEN <<Small[m + 1]>>
                            ELSE Append(D(m \div 16), Small[(m % 16) + 1])
  BY DigitsOf
<1> HIDE DEF D
<1> SUFFICES ASSUME U # {}
             PROVE  FALSE
  BY DEF D
<1>2. PICK m \in U : \A j \in U : m <= j
  <2>1. U \in SUBSET Nat
    OBVIOUS
  <2> HIDE DEF U
  <2> QED BY <2>1, LeastNat
<1>3. m \in Nat /\ ~Good(m)
  OBVIOUS
<1>4. CASE m < 16
  <2> DEFINE c == Small[m + 1]
  <2>1. c \in Chars /\ Reads(Append(Zeros(k), c), 16 * 0 + m)
    <3>1. m \in 0 .. 15
      BY <1>3, <1>4
    <3>2. c \in Chars
      BY <3>1, DigitIs
    <3> QED BY <3>1, <3>2, ZerosAre, ReadsNext
  <2>2. D(m) = <<c>> /\ 16 * 0 + m = m
    BY <1>1, <1>3, <1>4
  <2> HIDE DEF c
  <2>3. Append(Zeros(k), c) = Zeros(k) \o <<c>> /\ <<c>> \in Seq(Chars) /\ Len(<<c>>) = 1
    <3> DEFINE z == Zeros(k)
    <3>1. z \in Seq(Chars)
      BY ZerosAre
    <3> HIDE DEF z
    <3>2. Append(z, c) = z \o <<c>> /\ <<c>> \in Seq(Chars) /\ Len(<<c>>) = 1
      BY <2>1, <3>1, LastOne
    <3> QED BY <3>2 DEF z
  <2> QED BY <1>3, <2>1, <2>2, <2>3
<1>5. CASE m >= 16
  <2> DEFINE q == m \div 16
             c == Small[(m % 16) + 1]
  <2>1. q \in Nat /\ ~(m <= q) /\ m % 16 \in 0 .. 15 /\ m = 16 * q + (m % 16)
    BY <1>3, <1>5
  <2>2. D(m) = Append(D(q), c)
    <3>1. ~(m < 16)
      BY <1>3, <1>5
    <3> QED BY <1>1, <1>3, <3>1
  <2> HIDE DEF q
  <2>3. Good(q)
    <3> HIDE DEF Good
    <3> QED BY <1>2, <2>1
  <2>4. c \in Chars /\ Reads(Append(Zeros(k) \o D(q), c), 16 * q + (m % 16))
    BY <2>1, <2>3, ReadsNext, DigitIs
  <2> HIDE DEF c
  <2>5. /\ Append(Zeros(k) \o D(q), c) = Zeros(k) \o Append(D(q), c)
        /\ Append(D(q), c) \in Seq(Chars) /\ Len(Append(D(q), c)) > 0
    <3> DEFINE z == Zeros(k)
               s == D(q)
    <3>1. z \in Seq(Chars) /\ s \in Seq(Chars) /\ Len(s) \in Nat
      BY <2>3, ZerosAre
    <3> HIDE DEF z, s
    <3>2. /\ Append(z \o s, c) = z \o Append(s, c)
          /\ Append(s, c) \in Seq(Chars) /\ Len(Append(s, c)) = Len(s) + 1
      BY <2>4, <3>1, LastOne, SMTT(30)
    <3>3. Len(Append(s, c)) > 0
      BY <3>1, <3>2
    <3> QED BY <3>2, <3>3 DEF z, s
  <2> QED BY <1>3, <2>1, <2>2, <2>4, <2>5
<1> QED BY <1>3, <1>4, <1>5

(* The digits are characters of the kind given, and there is at least one. *)
LEMMA DigitsAre ==
    ASSUME NEW base \in {10, 16}, NEW S, NEW digits,
           \A i \in 1 .. base : digits[i] \in S, NEW n \in Nat
    PROVE  /\ Digits(n, base, digits) \in Seq(S)
           /\ Len(Digits(n, base, digits)) \in Nat \ {0}
<1> DEFINE D(m) == Digits(m, base, digits)
           Good(m) == D(m) \in Seq(S) /\ Len(D(m)) \in Nat \ {0}
           U == {m \in Nat : ~Good(m)}
<1>1. \A m \in Nat : D(m) = IF m < base THEN <<digits[m + 1]>>
                            ELSE Append(D(m \div base), digits[(m % base) + 1])
  BY DigitsOf
<1> HIDE DEF D
<1> SUFFICES ASSUME U # {}
             PROVE  FALSE
  BY DEF D
<1>2. PICK m \in U : \A j \in U : m <= j
  <2>1. U \in SUBSET Nat
    OBVIOUS
  <2> HIDE DEF U
  <2> QED BY <2>1, LeastNat
<1>3. m \in Nat /\ ~Good(m)
  OBVIOUS
<1>4. CASE m < base
  <2>1. digits[m + 1] \in S /\ D(m) = <<digits[m + 1]>>
    BY <1>1, <1>3, <1>4
  <2> QED BY <1>3, <2>1
<1>5. CASE ~(m < base)
  <2> DEFINE q == m \div base
             c == digits[(m % base) + 1]
  <2>1. q \in Nat /\ q \in 0 .. m - 1 /\ (m % base) + 1 \in 1 .. base
    BY <1>3, <1>5, Quotient
  <2>2. D(m) = Append(D(q), c) /\ c \in S
    BY <2>1, <1>1, <1>3, <1>5
  <2> HIDE DEF q, c
  <2>3. Good(q)
    <3>1. ~(m <= q)
      BY <2>1, <1>3
    <3> HIDE DEF Good
    <3> QED BY <1>2, <2>1, <3>1
  <2> QED BY <1>3, <2>2, <2>3
<1> QED BY <1>3, <1>4, <1>5

(* Numbers below b have at most k digits.                                  *)
Short(b, k, base, digits) ==
    \A n \in 0 .. b - 1 : Len(Digits(n, base, digits)) <= k

(* A bound on the digits of the numbers below b is, with one digit more,   *)
(* one for those below base * b.                                           *)
LEMMA OneLonger ==
    ASSUME NEW base \in {10, 16}, NEW S, NEW digits,
           \A i \in 1 .. base : digits[i] \in S,
           NEW b \in Nat \ {0}, NEW k \in Nat \ {0}, Short(b, k, base, digits)
    PROVE  Short(base * b, k + 1, base, digits)
<1> SUFFICES ASSUME NEW n \in 0 .. base * b - 1
             PROVE  Len(Digits(n, base, digits)) <= k + 1
  BY DEF Short
<1>0. n \in Nat /\ n < base * b
  <2>1. CASE base = 10
    BY <2>1
  <2>2. CASE base = 16
    BY <2>2
  <2> QED BY <2>1, <2>2
<1>1. CASE n < base
  <2>1. Digits(n, base, digits) = <<digits[n + 1]>>
    BY <1>0, <1>1, DigitsOf
  <2>2. Len(<<digits[n + 1]>>) = 1
    OBVIOUS
  <2> QED BY <2>1, <2>2
<1>2. CASE ~(n < base)
  <2> DEFINE q == n \div base
             c == digits[(n % base) + 1]
             s == Digits(q, base, digits)
  <2>1. q \in Nat /\ (n % base) + 1 \in 1 .. base /\ n = base * q + (n % base)
    BY <1>0, Quotient
  <2>2. c \in S
    BY <2>1
  <2>3. Digits(n, base, digits) = Append(s, c)
    BY <1>0, <1>2, DigitsOf
  <2> HIDE DEF q, c
  <2>4. q \in 0 .. b - 1
    <3>1. CASE base = 10
      BY <3>1, <2>1, <1>0
    <3>2. CASE base = 16
      BY <3>2, <2>1, <1>0
    <3> QED BY <3>1, <3>2
  <2>5. s \in Seq(S) /\ Len(s) \in Nat /\ Len(s) <= k
    BY <2>1, <2>4, DigitsAre DEF Short
  <2> HIDE DEF s
  <2>6. Len(Append(s, c)) = Len(s) + 1
    BY <2>2, <2>5
  <2> QED BY <2>3, <2>5, <2>6
<1> QED BY <1>1, <1>2

(* Numbers below the base have one digit.                                  *)
LEMMA OneDigit ==
    ASSUME NEW base \in {10, 16}, NEW digits
    PROVE  Short(base, 1, base, digits)
<1> SUFFICES ASSUME NEW n \in 0 .. base - 1
             PROVE  Len(Digits(n, base, digits)) <= 1
  BY DEF Short
<1>1. Digits(n, base, digits) = <<digits[n + 1]>>
  <2>1. n \in Nat /\ n < base
    OBVIOUS
  <2> QED BY <2>1, DigitsOf
<1>2. Len(<<digits[n + 1]>>) = 1
  OBVIOUS
<1> QED BY <1>1, <1>2

(* A register holds less.                                                  *)
Word64 == 65536 * 65536 * 65536 * 65536

(* A word of 16 bits has four hexadecimal digits at the most, a word of 64 *)
(* bits sixteen.                                                           *)
LEMMA HexLength ==
    ASSUME NEW n \in Nat
    PROVE  /\ n < 65536 => Len(Digits(n, 16, Small)) <= 4
           /\ n < Word64 => Len(Digits(n, 16, Small)) <= 16
<1> DEFINE P(b, k) == Short(b, k, 16, Small)
<1>1. 16 \in {10, 16} /\ \A i \in 1 .. 16 : Small[i] \in Chars
  BY DEF Chars
<1>2. P(16, 1)
  BY <1>1, OneDigit
<1>3. \A b, k \in Nat \ {0} : P(b, k) => P(16 * b, k + 1)
  BY <1>1, OneLonger
<1> HIDE DEF P
<1>4. \A b, k \in Nat \ {0} : P(b, k) => P(65536 * b, k + 4)
  <2> SUFFICES ASSUME NEW b \in Nat \ {0}, NEW k \in Nat \ {0}, P(b, k)
               PROVE  P(65536 * b, k + 4)
    OBVIOUS
  <2>1. P(16 * b, k + 1) /\ 16 * b \in Nat \ {0} /\ k + 1 \in Nat \ {0}
    BY <1>3
  <2>2. P(16 * (16 * b), (k + 1) + 1) /\ 16 * (16 * b) = 256 * b /\ (k + 1) + 1 = k + 2
    BY <2>1, <1>3
  <2>3. P(256 * b, k + 2) /\ 256 * b \in Nat \ {0} /\ k + 2 \in Nat \ {0}
    BY <2>2
  <2>4. P(16 * (256 * b), (k + 2) + 1) /\ 16 * (256 * b) = 4096 * b /\ (k + 2) + 1 = k + 3
    BY <2>3, <1>3
  <2>5. P(4096 * b, k + 3) /\ 4096 * b \in Nat \ {0} /\ k + 3 \in Nat \ {0}
    BY <2>4
  <2>6. /\ P(16 * (4096 * b), (k + 3) + 1)
        /\ 16 * (4096 * b) = 65536 * b /\ (k + 3) + 1 = k + 4
    BY <2>5, <1>3
  <2> QED BY <2>6
<1>5. P(16 * 16, 2) /\ P(16 * 256, 3) /\ P(16 * 4096, 4)
  <2>1. P(16 * 16, 1 + 1)
    BY <1>2, <1>3
  <2>2. P(256, 2)
    BY <2>1
  <2>3. P(16 * 256, 2 + 1)
    BY <2>2, <1>3
  <2>4. P(4096, 3)
    BY <2>3
  <2>5. P(16 * 4096, 3 + 1)
    BY <2>4, <1>3
  <2> QED BY <2>1, <2>3, <2>5
<1>6. P(65536, 4)
  BY <1>5
<1> DEFINE two == 65536 * 65536
           three == 65536 * two
<1>7. two \in Nat \ {0} /\ three \in Nat \ {0} /\ Word64 = 65536 * three
  BY DEF Word64
<1>8. P(two, 4 + 4)
  BY <1>6, <1>4
<1> HIDE DEF two
<1>9. P(two, 8)
  BY <1>8
<1>10. P(three, 8 + 4)
  BY <1>9, <1>7, <1>4
<1> HIDE DEF three
<1>11. P(three, 12)
  BY <1>10
<1>12. P(65536 * three, 12 + 4)
  BY <1>11, <1>7, <1>4
<1>13. P(65536 * three, 16)
  BY <1>12
<1>14. \A b, k \in Nat \ {0} : P(b, k) =>
          (n < b => Len(Digits(n, 16, Small)) <= k)
  BY DEF P, Short
<1> DEFINE b == 65536
           c == Word64
<1>15. P(b, 4) /\ P(c, 16) /\ b \in Nat \ {0} /\ c \in Nat \ {0}
  BY <1>6, <1>7, <1>13
<1> HIDE DEF b, c
<1>16. /\ n < b => Len(Digits(n, 16, Small)) <= 4
       /\ n < c => Len(Digits(n, 16, Small)) <= 16
  BY <1>14, <1>15
<1> QED BY <1>16 DEF b, c

(* A number below 10000 has four decimal digits at the most.               *)
LEMMA DecimalLength ==
    ASSUME NEW n \in Nat, n < 10000
    PROVE  Len(Digits(n, 10, Large)) <= 4
<1> DEFINE P(b, k) == Short(b, k, 10, Large)
           S == {Large[j] : j \in 1 .. 10}
<1>1. 10 \in {10, 16} /\ \A i \in 1 .. 10 : Large[i] \in S
  OBVIOUS
<1>2. P(10, 1)
  BY <1>1, OneDigit
<1> HIDE DEF S
<1>3. \A b, k \in Nat \ {0} : P(b, k) => P(10 * b, k + 1)
  BY <1>1, OneLonger
<1> HIDE DEF P
<1>4. P(10 * 10, 1 + 1)
  BY <1>2, <1>3
<1>5. P(100, 2)
  BY <1>4
<1>6. P(10 * 100, 2 + 1)
  BY <1>5, <1>3
<1>7. P(1000, 3)
  BY <1>6
<1>8. P(10 * 1000, 3 + 1)
  BY <1>7, <1>3
<1> DEFINE b == 10000
<1>9. P(b, 4) /\ n \in 0 .. b - 1
  BY <1>8
<1> HIDE DEF b
<1> QED BY <1>9 DEF P, Short

-----------------------------------------------------------------------------
(* vsprintf(): number(). *)

(* Nothing is repeated when the count is not positive.                     *)
LEMMA RepeatNone ==
    ASSUME NEW c, NEW n \in Int, n <= 0
    PROVE  Repeat(c, n) = <<>>
<1> DEFINE r == [i \in 1 .. 0 |-> c]
<1>1. 1 .. n = 1 .. 0
  OBVIOUS
<1>2. Repeat(c, n) = r
  BY <1>1 DEF Repeat
<1>3. r \in Seq({c}) /\ Len(r) = 0
  OBVIOUS
<1>4. r = <<>>
  <2> HIDE DEF r
  <2> QED BY <1>3, EmptySeq
<1> QED BY <1>2, <1>4

(* %#0<size>x and %#0<size>lx: the prefix, zeros up to the width, the      *)
(* digits.                                                                 *)
LEMMA HexNumber ==
    ASSUME NEW n \in Nat, NEW size \in 2 .. 18,
           Len(Digits(n, 16, Small)) <= size - 2
    PROVE  LET t == number(n, 16, size, -1, {SPECIAL, ZEROPAD} \cup {"SMALL"})
           IN  t \in Seq(Chars) /\ Len(t) = size /\ Hex(t) = n
<1> DEFINE flags == {SPECIAL, ZEROPAD} \cup {"SMALL"}
           tmp == Digits(n, 16, Small)
           L == Len(tmp)
           room == size - 2 - L
           p == <<"0", "x">>
           z == Repeat("0", room)
           t == number(n, 16, size, -1, flags)
<1>1. /\ tmp \in Seq(Chars) /\ L \in Nat /\ L > 0 /\ L <= size - 2
  <2>1. tmp \in Seq(Chars) /\ L > 0
    <3>1. 0 \in Nat
      OBVIOUS
    <3> QED BY <3>1, ZerosAndDigits
  <2>2. L <= size - 2
    OBVIOUS
  <2>3. L \in Nat
    <3> HIDE DEF tmp
    <3> QED BY <2>1
  <2> QED BY <2>1, <2>2, <2>3
<1>2. /\ LEFT \notin flags /\ ZEROPAD \in flags /\ SPECIAL \in flags
      /\ "SIGN" \notin flags /\ PLUS \notin flags /\ SPACE \notin flags
      /\ "SMALL" \in flags /\ {ZEROPAD, LEFT} \cap flags # {}
  BY DEF LEFT, ZEROPAD, SPECIAL, PLUS, SPACE
<1> HIDE DEF flags
<1>3. Sign(n, flags) = <<>> /\ Prefix(16, flags) = p
  BY <1>2 DEF Sign, Prefix
<1>4. Larger(-1, L) = L /\ -1 - L \in Int /\ -1 - L <= 0
  BY <1>1 DEF Larger
<1>5. Len(<<>>) = 0 /\ Len(p) = 2 /\ size - 0 - 2 - L = room
  BY <1>1
<1> HIDE DEF p, tmp, L
<1>6. Repeat("0", -1 - L) = <<>>
  BY <1>4, RepeatNone
<1>7. t = <<>> \o <<>> \o p \o Repeat("0", room) \o <<>> \o tmp \o <<>>
  BY <1>2, <1>3, <1>4, <1>5, <1>6, Zenon DEF number, tmp, L
<1>8. room \in Nat
  BY <1>1
<1> HIDE DEF room
<1>9. z \in Seq(Chars) /\ p \in Seq(Chars) /\ Len(z) = room
  <2>1. "0" \in Chars /\ "x" \in Chars
    BY DEF Chars, Small
  <2> QED BY <2>1, <1>8 DEF Repeat, p
<1> HIDE DEF z
<1>10. /\ p \o z \in Seq(Chars) /\ (p \o z) \o tmp \in Seq(Chars)
       /\ Len((p \o z) \o tmp) = 2 + room + L
  <2>1. p \o z \in Seq(Chars) /\ Len(p \o z) = 2 + room
    <3>1. p \o z \in Seq(Chars) /\ Len(p \o z) = Len(p) + Len(z)
      BY <1>9, ConcatProperties
    <3> QED BY <3>1, <1>5, <1>9
  <2>2. /\ (p \o z) \o tmp \in Seq(Chars)
        /\ Len((p \o z) \o tmp) = Len(p \o z) + Len(tmp)
    BY <2>1, <1>1, ConcatProperties
  <2> QED BY <2>1, <2>2 DEF L
<1>11. t = (p \o z) \o tmp
  <2> HIDE DEF t
  <2>1. <<>> \o <<>> = <<>> /\ <<>> \o p = p
    BY <1>9, EmptySeq, ConcatEmptySeq
  <2>2. (p \o z) \o <<>> = p \o z /\ ((p \o z) \o tmp) \o <<>> = (p \o z) \o tmp
    BY <1>10, ConcatEmptySeq
  <2> QED BY <1>7, <2>1, <2>2, Zenon DEF z
<1>12. Reads((p \o z) \o tmp, n)
  BY <1>8, ZerosAndDigits DEF Zeros, p, z, tmp
<1>13. Hex(t) = n
  <2> HIDE DEF t
  <2> QED BY <1>11, <1>12, HexReads
<1>14. 2 + room + L = size
  BY <1>1 DEF room
<1>15. t \in Seq(Chars) /\ Len(t) = size
  BY <1>10, <1>11, <1>14
<1> HIDE DEF t
<1>16. t \in Seq(Chars) /\ Len(t) = size /\ Hex(t) = n
  BY <1>13, <1>15
<1> QED BY <1>16 DEF t, flags

(* %04d of a number with up to four digits.                                *)
LEMMA OffsetNumber ==
    ASSUME NEW n \in Nat, Len(Digits(n, 10, Large)) <= 4
    PROVE  LET t == number(n, 10, 4, -1, {ZEROPAD} \cup {"SIGN"})
           IN  Len(t) = 4 /\ t \in Seq({Large[i] : i \in 1 .. 16} \cup {"0"})
<1> DEFINE flags == {ZEROPAD} \cup {"SIGN"}
           S == {Large[i] : i \in 1 .. 16} \cup {"0"}
           tmp == Digits(n, 10, Large)
           L == Len(tmp)
           room == 4 - L
           z == Repeat("0", room)
           t == number(n, 10, 4, -1, flags)
<1>0. n \in Nat /\ ~(n < 0)
  OBVIOUS
<1>1. tmp \in Seq(S) /\ L \in Nat /\ L > 0 /\ L <= 4
  <2>1. 10 \in {10, 16} /\ \A i \in 1 .. 10 : Large[i] \in S
    OBVIOUS
  <2>2. tmp \in Seq(S) /\ L \in Nat \ {0}
    <3> HIDE DEF S
    <3> QED BY <2>1, <1>0, DigitsAre
  <2>3. L <= 4
    OBVIOUS
  <2> HIDE DEF tmp
  <2> QED BY <2>2, <2>3
<1>2. /\ LEFT \notin flags /\ ZEROPAD \in flags /\ SPECIAL \notin flags
      /\ PLUS \notin flags /\ SPACE \notin flags
      /\ "SMALL" \notin flags /\ {ZEROPAD, LEFT} \cap flags # {}
  BY DEF LEFT, ZEROPAD, SPECIAL, PLUS, SPACE
<1> HIDE DEF flags, S
<1>3. Sign(n, flags) = <<>> /\ Prefix(10, flags) = <<>>
  BY <1>0, <1>2 DEF Sign, Prefix
<1>4. Larger(-1, L) = L /\ -1 - L \in Int /\ -1 - L <= 0
  BY <1>1 DEF Larger
<1>5. Len(<<>>) = 0 /\ 4 - 0 - 0 - L = room
  BY <1>1
<1> HIDE DEF tmp, L
<1>6. Repeat("0", -1 - L) = <<>>
  BY <1>4, RepeatNone
<1>7. t = <<>> \o <<>> \o <<>> \o Repeat("0", room) \o <<>> \o tmp \o <<>>
  BY <1>0, <1>2, <1>3, <1>4, <1>5, <1>6, Zenon DEF number, tmp, L
<1>8. room \in Nat
  BY <1>1
<1> HIDE DEF room
<1>9. z \in Seq(S) /\ Len(z) = room
  BY <1>8 DEF Repeat, S
<1> HIDE DEF z
<1>10. z \o tmp \in Seq(S) /\ Len(z \o tmp) = room + L
  BY <1>1, <1>9, ConcatProperties DEF L
<1>11. t = z \o tmp
  <2> HIDE DEF t
  <2>1. <<>> \o <<>> = <<>> /\ <<>> \o z = z /\ z \o <<>> = z
    BY <1>9, EmptySeq, ConcatEmptySeq
  <2>2. (z \o tmp) \o <<>> = z \o tmp
    BY <1>10, ConcatEmptySeq
  <2>3. <<>> \o <<>> \o <<>> \o z \o <<>> = z
    <3>1. <<>> \o <<>> \o <<>> = <<>>
      BY <2>1
    <3>2. <<>> \o <<>> \o <<>> \o z = z
      BY <2>1, <3>1
    <3> QED BY <2>1, <3>2
  <2>4. t = <<>> \o <<>> \o <<>> \o z \o <<>> \o tmp \o <<>>
    BY <1>7 DEF z
  <2> QED BY <2>2, <2>3, <2>4
<1>12. room + L = 4
  BY <1>1 DEF room
<1> HIDE DEF t
<1>13. Len(t) = 4 /\ t \in Seq(S)
  BY <1>10, <1>11, <1>12
<1> QED BY <1>13 DEF t, flags, S

(* skip_atoi() of a single digit is the digit.                             *)
LEMMA OneFigure ==
    ASSUME NEW fmt, NEW i \in Nat, NEW d \in 0 .. 9, fmt[i] = Small[d + 1]
    PROVE  skip_atoi(fmt, i, i + 1) = d
<1> DEFINE j == i + 1
           digit(k) == CHOOSE e \in 0 .. 9 : Small[e + 1] = fmt[k]
           Pass(v, k) == IF k < i THEN 0 ELSE 10 * v[k - 1] + digit(k)
           w == [k \in i - 1 .. j - 1 |-> IF k < i THEN 0 ELSE d]
           v == CHOOSE f : f = [k \in i - 1 .. j - 1 |-> Pass(f, k)]
<1>1. digit(i) = d
  BY DigitIs
<1>2. j - 1 = i
  OBVIOUS
<1> HIDE DEF j
<1>3. skip_atoi(fmt, i, j) = v[j - 1]
  BY DEF skip_atoi
<1> HIDE DEF digit
<1>4. w = [k \in i - 1 .. j - 1 |-> Pass(w, k)]
  BY <1>1, <1>2
<1>5. v = [k \in i - 1 .. j - 1 |-> Pass(v, k)]
  <2> HIDE DEF w, Pass
  <2> QED BY <1>4
<1> HIDE DEF v
<1>6. v[i - 1] = 0
  BY <1>2, <1>5
<1>7. v[i] = 10 * v[i - 1] + digit(i)
  BY <1>2, <1>5
<1>8. skip_atoi(fmt, i, j) = d
  BY <1>1, <1>2, <1>3, <1>6, <1>7
<1> QED BY <1>8 DEF j

(* Two digits are tens and ones.                                           *)
LEMMA TwoFigures ==
    ASSUME NEW fmt, NEW i \in Nat, NEW d \in 0 .. 9, fmt[i] = Small[d + 1],
           NEW e \in 0 .. 9, fmt[i + 1] = Small[e + 1]
    PROVE  skip_atoi(fmt, i, i + 2) = 10 * d + e
<1> DEFINE j == i + 2
           digit(k) == CHOOSE x \in 0 .. 9 : Small[x + 1] = fmt[k]
           Pass(v, k) == IF k < i THEN 0 ELSE 10 * v[k - 1] + digit(k)
           w == [k \in i - 1 .. j - 1 |->
                    IF k < i THEN 0 ELSE IF k = i THEN d ELSE 10 * d + e]
           v == CHOOSE f : f = [k \in i - 1 .. j - 1 |-> Pass(f, k)]
<1>1. digit(i) = d /\ digit(i + 1) = e
  BY DigitIs
<1>2. j - 1 = i + 1
  OBVIOUS
<1> HIDE DEF j
<1>3. skip_atoi(fmt, i, j) = v[j - 1]
  BY DEF skip_atoi
<1> HIDE DEF digit
<1>4. w = [k \in i - 1 .. j - 1 |-> Pass(w, k)]
  BY <1>1, <1>2
<1>5. v = [k \in i - 1 .. j - 1 |-> Pass(v, k)]
  <2> HIDE DEF w, Pass
  <2> QED BY <1>4
<1> HIDE DEF v
<1>6. v[i - 1] = 0
  BY <1>2, <1>5
<1>7. v[i] = 10 * v[i - 1] + digit(i)
  BY <1>2, <1>5
<1>8. v[i + 1] = 10 * v[i] + digit(i + 1)
  BY <1>2, <1>5
<1>9. skip_atoi(fmt, i, j) = 10 * d + e
  BY <1>1, <1>2, <1>3, <1>6, <1>7, <1>8
<1> QED BY <1>9 DEF j

-----------------------------------------------------------------------------
(* vsprintf(): the formats of trap.c. *)

(* Limits, named to keep the large numbers away from the provers.          *)
Word16 == 65536
FourDigits == 10000

(* The flags # and 0.                                                      *)
Flagged == {SPECIAL, ZEROPAD}

(* %#018lx: the flags # and 0, a width of 18, a long word.                 *)
LEMMA HexDirective ==
    /\ Complete(HexFormat)
    /\ Directive(HexFormat, 2) =
         [flags |-> Flagged, field_width |-> 18, precision |-> -1,
          long |-> TRUE, at |-> 7]
<1> DEFINE f == HexFormat
<1>1. /\ Len(f) = 7 /\ f[1] = "%" /\ f[2] = "#" /\ f[3] = "0" /\ f[4] = "1"
      /\ f[5] = "8" /\ f[6] = "l" /\ f[7] = "x"
  BY DEF HexFormat
<1> HIDE DEF f
<1>2. After(f, 2, FlagChars) = 4
  <2>1. f[2] \in FlagChars /\ f[3] \in FlagChars /\ f[4] \notin FlagChars
    BY <1>1 DEF FlagChars, LEFT, PLUS, SPACE, SPECIAL, ZEROPAD
  <2>2. 4 \in 2 .. Len(f) + 1 /\ Len(f) \in Nat /\ \A k \in 2 .. 4 - 1 : k = 2 \/ k = 3
    BY <1>1
  <2> QED BY <2>1, <2>2, AfterIs
<1>3. "1" = Small[1 + 1] /\ "8" = Small[8 + 1] /\ "l" \notin Digit
      /\ "1" \in Digit /\ "8" \in Digit
  BY DEF Digit, Small
<1>4. After(f, 4, Digit) = 6
  <2>1. 6 \in 4 .. Len(f) + 1 /\ Len(f) \in Nat /\ \A k \in 4 .. 6 - 1 : k = 4 \/ k = 5
    BY <1>1
  <2>2. f[4] \in Digit /\ f[5] \in Digit /\ f[6] \notin Digit
    BY <1>1, <1>3
  <2>3. \A k \in 4 .. 6 - 1 : f[k] \in Digit
    BY <2>1, <2>2
  <2> QED BY <2>1, <2>2, <2>3, AfterIs
<1>5. skip_atoi(f, 4, 6) = 18
  <2>1. 4 + 2 = 6 /\ 10 * 1 + 8 = 18 /\ f[4 + 1] = "8" /\ 1 \in 0 .. 9 /\ 8 \in 0 .. 9
    BY <1>1
  <2> QED BY <2>1, <1>1, <1>3, TwoFigures
<1>6. CharAt(f, 6) = "l"
  BY <1>1 DEF CharAt
<1>7. {f[k] : k \in 2 .. 4 - 1} = Flagged
  <2>1. 2 .. 4 - 1 = {2, 3}
    OBVIOUS
  <2> QED BY <2>1, <1>1 DEF Flagged, SPECIAL, ZEROPAD
<1>8. Directive(f, 2) = [flags |-> Flagged, field_width |-> 18, precision |-> -1,
                         long |-> TRUE, at |-> 7]
  <2>1. CharAt(f, 6) # "." /\ 6 # 4 /\ 6 + 1 = 7
        /\ CharAt(f, 6) \in {"h", "l", "L", "Z"}
    BY <1>6
  <2> QED BY <2>1, <1>2, <1>4, <1>5, <1>6, <1>7, Zenon DEF Directive
<1>9. Complete(f)
  <2>1. \A i \in 1 .. Len(f) : f[i] = "%" => i = 1
    BY <1>1
  <2>2. 1 + 1 = 2 /\ Directive(f, 2).at = 7 /\ 7 \in 2 .. Len(f) /\ Len(f) \in Nat
    BY <1>1, <1>8
  <2> QED BY <2>1, <2>2 DEF Complete
<1> QED BY <1>8, <1>9 DEF f

(* %#010x: the flags # and 0, a width of 10.                               *)
LEMMA IndexDirective ==
    /\ Complete(IndexFormat)
    /\ Directive(IndexFormat, 2) =
         [flags |-> Flagged, field_width |-> 10, precision |-> -1,
          long |-> FALSE, at |-> 6]
<1> DEFINE f == IndexFormat
<1>1. /\ Len(f) = 6 /\ f[1] = "%" /\ f[2] = "#" /\ f[3] = "0" /\ f[4] = "1"
      /\ f[5] = "0" /\ f[6] = "x"
  BY DEF IndexFormat
<1> HIDE DEF f
<1>2. After(f, 2, FlagChars) = 4
  <2>1. f[2] \in FlagChars /\ f[3] \in FlagChars /\ f[4] \notin FlagChars
    BY <1>1 DEF FlagChars, LEFT, PLUS, SPACE, SPECIAL, ZEROPAD
  <2>2. 4 \in 2 .. Len(f) + 1 /\ Len(f) \in Nat /\ \A k \in 2 .. 4 - 1 : k = 2 \/ k = 3
    BY <1>1
  <2> QED BY <2>1, <2>2, AfterIs
<1>3. "1" = Small[1 + 1] /\ "0" = Small[0 + 1] /\ "x" \notin Digit
      /\ "1" \in Digit /\ "0" \in Digit
  BY DEF Digit, Small
<1>4. After(f, 4, Digit) = 6
  <2>1. 6 \in 4 .. Len(f) + 1 /\ Len(f) \in Nat /\ \A k \in 4 .. 6 - 1 : k = 4 \/ k = 5
    BY <1>1
  <2>2. f[4] \in Digit /\ f[5] \in Digit /\ f[6] \notin Digit
    BY <1>1, <1>3
  <2>3. \A k \in 4 .. 6 - 1 : f[k] \in Digit
    BY <2>1, <2>2
  <2> QED BY <2>1, <2>2, <2>3, AfterIs
<1>5. skip_atoi(f, 4, 6) = 10
  <2>1. 4 + 2 = 6 /\ 10 * 1 + 0 = 10 /\ f[4 + 1] = "0" /\ 1 \in 0 .. 9 /\ 0 \in 0 .. 9
    BY <1>1
  <2> QED BY <2>1, <1>1, <1>3, TwoFigures
<1>6. CharAt(f, 6) = "x"
  BY <1>1 DEF CharAt
<1>7. {f[k] : k \in 2 .. 4 - 1} = Flagged
  <2>1. 2 .. 4 - 1 = {2, 3}
    OBVIOUS
  <2> QED BY <2>1, <1>1 DEF Flagged, SPECIAL, ZEROPAD
<1>8. Directive(f, 2) = [flags |-> Flagged, field_width |-> 10, precision |-> -1,
                         long |-> FALSE, at |-> 6]
  <2>1. CharAt(f, 6) # "." /\ 6 # 4 /\ CharAt(f, 6) # "l"
        /\ CharAt(f, 6) \notin {"h", "l", "L", "Z"}
    BY <1>6
  <2> QED BY <2>1, <1>2, <1>4, <1>5, <1>6, <1>7, Zenon DEF Directive
<1>9. Complete(f)
  <2>1. \A i \in 1 .. Len(f) : f[i] = "%" => i = 1
    BY <1>1
  <2>2. 1 + 1 = 2 /\ Directive(f, 2).at = 6 /\ 6 \in 2 .. Len(f) /\ Len(f) \in Nat
    BY <1>1, <1>8
  <2> QED BY <2>1, <2>2 DEF Complete
<1> QED BY <1>8, <1>9 DEF f

(* %04d: the flag 0, a width of 4.                                         *)
LEMMA OffsetDirective ==
    /\ Complete(OffsetFormat)
    /\ Directive(OffsetFormat, 2) =
         [flags |-> {ZEROPAD}, field_width |-> 4, precision |-> -1,
          long |-> FALSE, at |-> 4]
<1> DEFINE f == OffsetFormat
<1>1. /\ Len(f) = 4 /\ f[1] = "%" /\ f[2] = "0" /\ f[3] = "4" /\ f[4] = "d"
  BY DEF OffsetFormat
<1> HIDE DEF f
<1>2. After(f, 2, FlagChars) = 3
  <2>1. f[2] \in FlagChars /\ f[3] \notin FlagChars
    BY <1>1 DEF FlagChars, LEFT, PLUS, SPACE, SPECIAL, ZEROPAD
  <2>2. 3 \in 2 .. Len(f) + 1 /\ Len(f) \in Nat /\ \A k \in 2 .. 3 - 1 : k = 2
    BY <1>1
  <2> QED BY <2>1, <2>2, AfterIs
<1>3. "4" = Small[4 + 1] /\ "d" \notin Digit /\ "4" \in Digit
  BY DEF Digit, Small
<1>4. After(f, 3, Digit) = 4
  <2>1. 4 \in 3 .. Len(f) + 1 /\ Len(f) \in Nat /\ \A k \in 3 .. 4 - 1 : k = 3
    BY <1>1
  <2>2. f[3] \in Digit /\ f[4] \notin Digit
    BY <1>1, <1>3
  <2>3. \A k \in 3 .. 4 - 1 : f[k] \in Digit
    BY <2>1, <2>2
  <2> QED BY <2>1, <2>2, <2>3, AfterIs
<1>5. skip_atoi(f, 3, 4) = 4
  <2>1. 3 + 1 = 4 /\ 4 \in 0 .. 9
    OBVIOUS
  <2> QED BY <2>1, <1>1, <1>3, OneFigure
<1>6. CharAt(f, 4) = "d"
  BY <1>1 DEF CharAt
<1>7. {f[k] : k \in 2 .. 3 - 1} = {ZEROPAD}
  <2>1. 2 .. 3 - 1 = {2}
    OBVIOUS
  <2> QED BY <2>1, <1>1 DEF ZEROPAD
<1>8. Directive(f, 2) = [flags |-> {ZEROPAD}, field_width |-> 4, precision |-> -1,
                         long |-> FALSE, at |-> 4]
  <2>1. CharAt(f, 4) # "." /\ 4 # 3 /\ CharAt(f, 4) # "l"
        /\ CharAt(f, 4) \notin {"h", "l", "L", "Z"}
    BY <1>6
  <2> QED BY <2>1, <1>2, <1>4, <1>5, <1>6, <1>7, Zenon DEF Directive
<1>9. Complete(f)
  <2>1. \A i \in 1 .. Len(f) : f[i] = "%" => i = 1
    BY <1>1
  <2>2. 1 + 1 = 2 /\ Directive(f, 2).at = 4 /\ 4 \in 2 .. Len(f) /\ Len(f) \in Nat
    BY <1>1, <1>8
  <2> QED BY <2>1, <2>2 DEF Complete
<1> QED BY <1>8, <1>9 DEF f

(* A format that is one directive.                                         *)
LEMMA OneItem ==
    ASSUME NEW fmt, Complete(fmt), NEW n, fmt[1] = "%", Len(fmt) >= 1,
           Directive(fmt, 2).at = Len(fmt), fmt[Len(fmt)] \in Conversion
    PROVE  vsprintf(fmt, <<n>>) =
             Converted(fmt[Len(fmt)], Directive(fmt, 2), n) \o <<>>
<1> DEFINE L == Len(fmt)
           d == Directive(fmt, 2)
           c == fmt[L]
<1>1. PICK str : Texts(fmt, <<n>>, str)
  BY TextsExist
<1>2. L \in Nat /\ 1 \in 1 .. L + 1 /\ L + 1 \in 1 .. L + 1
  BY DEF Complete
<1>3. /\ vsprintf(fmt, <<n>>) = str[<<1, 1>>]
      /\ str[<<1, 1>>] = Item(fmt, <<n>>, str, <<1, 1>>)
      /\ str[<<L + 1, 2>>] = Item(fmt, <<n>>, str, <<L + 1, 2>>)
  BY <1>1, <1>2 DEF Texts
<1>4. str[<<L + 1, 2>>] = <<>>
  <2>1. L + 1 > Len(fmt)
    BY <1>2
  <2> QED BY <2>1, <1>3 DEF Item
<1>5. CharAt(fmt, d.at) = c
  BY <1>2 DEF CharAt
<1>6. d.at + 1 = L + 1 /\ 1 + 1 = 2 /\ ~(1 > L) /\ <<n>>[1] = n
  BY <1>2
<1> DEFINE at == <<1, 1>>
<1>7. at[1] = 1 /\ at[2] = 1
  OBVIOUS
<1> HIDE DEF at, d
<1>8. Item(fmt, <<n>>, str, at) = Converted(c, d, n) \o str[<<L + 1, 2>>]
  <2>1. Directive(fmt, at[1] + 1) = d
    BY <1>6, <1>7 DEF d
  <2> QED BY <2>1, <1>5, <1>6, <1>7, Zenon DEF Item
<1> QED BY <1>3, <1>4, <1>8 DEF at, d

(* What %#018lx makes of a word of 64 bits: eighteen characters that read  *)
(* as the word. It is how trap.c prints codes, registers and addresses.    *)
THEOREM HexText ==
    ASSUME NEW n \in Nat, n < Word64
    PROVE  LET t == vsprintf(HexFormat, <<n>>)
           IN  t \in Seq(Chars) /\ Len(t) = 18 /\ Hex(t) = n
<1> DEFINE d == Directive(HexFormat, 2)
           t == number(n, 16, 18, -1, Flagged \cup {"SMALL"})
<1>1. /\ Complete(HexFormat) /\ d.flags = Flagged /\ d.field_width = 18
      /\ d.precision = -1 /\ d.long = TRUE /\ d.at = 7
  BY HexDirective
<1>2. Len(HexFormat) = 7 /\ HexFormat[1] = "%" /\ HexFormat[7] = "x"
  BY DEF HexFormat
<1>3. "x" \in Conversion
  BY DEF Conversion
<1>4. vsprintf(HexFormat, <<n>>) = Converted("x", d, n) \o <<>>
  <2> DEFINE fmt == HexFormat
  <2>1. Complete(fmt) /\ fmt[1] = "%" /\ Len(fmt) = 7 /\ Len(fmt) >= 1
        /\ Directive(fmt, 2).at = Len(fmt) /\ fmt[Len(fmt)] = "x"
    BY <1>1, <1>2
  <2> HIDE DEF fmt
  <2>2. vsprintf(fmt, <<n>>) = Converted("x", Directive(fmt, 2), n) \o <<>>
    BY <2>1, <1>3, OneItem
  <2> QED BY <2>2 DEF fmt
<1> HIDE DEF d
<1>5. Converted("x", d, n) = t
  BY <1>1 DEF Converted
<1>6. t \in Seq(Chars) /\ Len(t) = 18 /\ Hex(t) = n
  <2>1. Len(Digits(n, 16, Small)) <= 18 - 2 /\ 18 \in 2 .. 18
    BY HexLength
  <2> QED BY <2>1, HexNumber DEF Flagged
<1> HIDE DEF t
<1>7. t \o <<>> = t
  BY <1>6, ConcatEmptySeq
<1> QED BY <1>4, <1>5, <1>6, <1>7

(* What %#010x makes of a word of 16 bits: ten characters that read as the *)
(* word. It is how trap.c prints the index of a selector.                  *)
THEOREM IndexText ==
    ASSUME NEW n \in Nat, n < Word16
    PROVE  LET t == vsprintf(IndexFormat, <<n>>)
           IN  t \in Seq(Chars) /\ Len(t) = 10 /\ Hex(t) = n
<1> DEFINE d == Directive(IndexFormat, 2)
           t == number(n, 16, 10, -1, Flagged \cup {"SMALL"})
<1>1. /\ Complete(IndexFormat) /\ d.flags = Flagged /\ d.field_width = 10
      /\ d.precision = -1 /\ d.long = FALSE /\ d.at = 6
  BY IndexDirective
<1>2. Len(IndexFormat) = 6 /\ IndexFormat[1] = "%" /\ IndexFormat[6] = "x"
  BY DEF IndexFormat
<1>3. "x" \in Conversion
  BY DEF Conversion
<1>4. vsprintf(IndexFormat, <<n>>) = Converted("x", d, n) \o <<>>
  <2> DEFINE fmt == IndexFormat
  <2>1. Complete(fmt) /\ fmt[1] = "%" /\ Len(fmt) = 6 /\ Len(fmt) >= 1
        /\ Directive(fmt, 2).at = Len(fmt) /\ fmt[Len(fmt)] = "x"
    BY <1>1, <1>2
  <2> HIDE DEF fmt
  <2>2. vsprintf(fmt, <<n>>) = Converted("x", Directive(fmt, 2), n) \o <<>>
    BY <2>1, <1>3, OneItem
  <2> QED BY <2>2 DEF fmt
<1>5. n % UINT = n
  BY UintAssumption DEF Word16, FourDigits
<1> HIDE DEF d
<1>6. Converted("x", d, n) = t
  BY <1>1, <1>5 DEF Converted
<1>7. t \in Seq(Chars) /\ Len(t) = 10 /\ Hex(t) = n
  <2>1. Len(Digits(n, 16, Small)) \in Nat
    BY ZerosAndDigits
  <2>2. Len(Digits(n, 16, Small)) <= 10 - 2 /\ 10 \in 2 .. 18
    BY <2>1, HexLength DEF Word16
  <2> HIDE DEF t
  <2>3. t = number(n, 16, 10, -1, {SPECIAL, ZEROPAD} \cup {"SMALL"})
    BY DEF Flagged, t
  <2> QED BY <2>2, <2>3, HexNumber
<1> HIDE DEF t
<1>8. t \o <<>> = t
  BY <1>7, ConcatEmptySeq
<1> QED BY <1>4, <1>6, <1>7, <1>8

(* What %04d makes of a number below 10000: four characters. It is how     *)
(* lookup_kallsyms() prints the distance to a symbol.                      *)
THEOREM OffsetText ==
    ASSUME NEW n \in Nat, n < FourDigits
    PROVE  Len(vsprintf(OffsetFormat, <<n>>)) = 4
<1> DEFINE d == Directive(OffsetFormat, 2)
           t == number(n, 10, 4, -1, {ZEROPAD} \cup {"SIGN"})
           S == {Large[i] : i \in 1 .. 16} \cup {"0"}
<1>1. /\ Complete(OffsetFormat) /\ d.flags = {ZEROPAD} /\ d.field_width = 4
      /\ d.precision = -1 /\ d.long = FALSE /\ d.at = 4
  BY OffsetDirective
<1>2. Len(OffsetFormat) = 4 /\ OffsetFormat[1] = "%" /\ OffsetFormat[4] = "d"
  BY DEF OffsetFormat
<1>3. "d" \in Conversion
  BY DEF Conversion
<1>4. vsprintf(OffsetFormat, <<n>>) = Converted("d", d, n) \o <<>>
  <2> DEFINE fmt == OffsetFormat
  <2>1. Complete(fmt) /\ fmt[1] = "%" /\ Len(fmt) = 4 /\ Len(fmt) >= 1
        /\ Directive(fmt, 2).at = Len(fmt) /\ fmt[Len(fmt)] = "d"
    BY <1>1, <1>2
  <2> HIDE DEF fmt
  <2>2. vsprintf(fmt, <<n>>) = Converted("d", Directive(fmt, 2), n) \o <<>>
    BY <2>1, <1>3, OneItem
  <2> QED BY <2>2 DEF fmt
<1>5. n % UINT = n
  BY UintAssumption DEF Word16, FourDigits
<1> HIDE DEF d
<1>6. Converted("d", d, n) = t
  BY <1>1, <1>5 DEF Converted
<1>7. Len(Digits(n, 10, Large)) <= 4
  BY DecimalLength DEF FourDigits
<1>8. t \in Seq(S) /\ Len(t) = 4
  <2> DEFINE good(x) == Len(x) = 4 /\ x \in Seq(S)
  <2>1. good(t)
    BY <1>7, OffsetNumber, Zenon
  <2> QED BY <2>1
<1> HIDE DEF t, S
<1>9. t \o <<>> = t
  BY <1>8, ConcatEmptySeq
<1> QED BY <1>4, <1>6, <1>8, <1>9

-----------------------------------------------------------------------------
(* The interrupted program. *)

(* The functions that may be on a stack.                                   *)
Func == {"Start_Kernel", "init", "user_level_function"} \cup DOMAIN Locals

(* Places in the text are numbers.                                         *)
LEMMA Places ==
    /\ \A f \in Func : Site(f) \in Nat /\ Here(f) \in Nat
    /\ Site("kernel_thread_func") \in Nat
<1>1. \A f \in Named : Address(f) \in Nat
  BY NamesAssumption
<1>2. ASSUME NEW f \in Func
      PROVE  Start(f) \in Nat
  <2>1. CASE f = "user_level_function"
    BY <2>1, NamesAssumption DEF Start
  <2>2. CASE f # "user_level_function"
    <3>1. f \in Named
      BY <2>2 DEF Func, Named
    <3> QED BY <3>1, <2>2, <1>1 DEF Start
  <2> QED BY <2>1, <2>2
<1>3. Start("kernel_thread_func") \in Nat
  BY <1>1 DEF Start, Named
<1> QED BY <1>2, <1>3 DEF Site, Here

(* Which places lookup_kallsyms() finds.                                   *)
LEMMA Lookup ==
    /\ \A a : lookup_kallsyms(a) # <<>> => lookup_kallsyms(a)[1] = a
    /\ \A f \in Func \ {"user_level_function"} :
          lookup_kallsyms(Site(f)) # <<>> /\ lookup_kallsyms(Here(f)) # <<>>
    /\ lookup_kallsyms(Site("kernel_thread_func")) # <<>>
    /\ lookup_kallsyms(Site("user_level_function")) = <<>>
    /\ lookup_kallsyms(Here("user_level_function")) = <<>>
<1>1. ASSUME NEW a, lookup_kallsyms(a) # <<>>
      PROVE  lookup_kallsyms(a)[1] = a
  BY <1>1 DEF lookup_kallsyms
<1>2. \A f \in Func \ {"user_level_function"} : f \in Named
  BY DEF Func, Named
<1>3. "kernel_thread_func" \in Named
  BY DEF Named
<1> QED BY <1>1, <1>2, <1>3, NamesAssumption

(* The top of a kernel stack leaves room for the two words of init().      *)
LEMMA Tops ==
    /\ UserTop \in Nat /\ StackTop \in Nat /\ Top \in Nat
    /\ UserTop + 1 <= StackTop /\ 2 <= StackTop
    /\ Top <= StackTop
<1>1. UserText < UserTop /\ UserTop < BootTop /\ UserTop + 1 < ThreadTop
  BY TrapAssumption
<1>2. UserText \in Nat /\ UserTop \in Nat /\ BootTop \in Nat /\ ThreadTop \in Nat
  BY NamesAssumption
<1>3. StackTop \in Nat /\ UserTop < StackTop
  BY <1>1, <1>2 DEF StackTop
<1> QED BY <1>1, <1>2, <1>3 DEF Top

-----------------------------------------------------------------------------
(* The fields of pt_regs. *)

(* Each field has one place.                                               *)
LEMMA Fields ==
    /\ Len(pt_regs) = 24 /\ DOMAIN pt_regs = 1 .. 24
    /\ \A i \in 1 .. 24 : OffsetOf(pt_regs[i]) = i
<1>1. Len(pt_regs) = 24 /\ DOMAIN pt_regs = 1 .. 24
  BY DEF pt_regs
<1>2. \A i, j \in 1 .. 24 : pt_regs[i] = pt_regs[j] => i = j
  BY DEF pt_regs
<1>3. ASSUME NEW i \in 1 .. 24
      PROVE  OffsetOf(pt_regs[i]) = i
  BY <1>1, <1>2 DEF OffsetOf
<1> QED BY <1>1, <1>3

(* The places of the fields that have a name in the proofs.                *)
LEMMA Offsets ==
    /\ OffsetOf("rbp") = 14 /\ OffsetOf("func") = 18 /\ OffsetOf("errcode") = 19
    /\ OffsetOf("rip") = 20 /\ OffsetOf("rsp") = 23
<1>1. /\ pt_regs[14] = "rbp" /\ pt_regs[18] = "func" /\ pt_regs[19] = "errcode"
      /\ pt_regs[20] = "rip" /\ pt_regs[23] = "rsp"
  BY DEF pt_regs
<1> QED BY <1>1, Fields

(* Each vector has a do_ function of its own.                              *)
LEMMA Vectors ==
    /\ DOMAIN IDT_Table = 0 .. 20 \ {15}
    /\ \A v \in DOMAIN IDT_Table :
          /\ Do(IDT_Table[v]) = 2000 + v
          /\ IDT_Table[v] = "nmi" <=> v = 2
          /\ v = 2 <=> v \notin PushZero \cup WithCode
          /\ v \in PushZero => v \notin WithCode
<1>1. DOMAIN IDT_Table = 0 .. 20 \ {15}
  BY DEF IDT_Table
<1>2. \A v, w \in 0 .. 20 \ {15} : IDT_Table[v] = IDT_Table[w] => v = w
  BY DEF IDT_Table
<1>3. IDT_Table[2] = "nmi"
  BY DEF IDT_Table
<1>4. ASSUME NEW v \in DOMAIN IDT_Table
      PROVE  Do(IDT_Table[v]) = 2000 + v
  <2> DEFINE w == CHOOSE u \in DOMAIN IDT_Table : IDT_Table[u] = IDT_Table[v]
  <2>1. w \in DOMAIN IDT_Table /\ IDT_Table[w] = IDT_Table[v]
    OBVIOUS
  <2>2. w = v
    BY <2>1, <1>1, <1>2
  <2>3. Do(IDT_Table[v]) = 2000 + w
    BY Zenon DEF Do
  <2> HIDE DEF w
  <2> QED BY <2>2, <2>3
<1>5. ASSUME NEW v \in 0 .. 20 \ {15}
      PROVE  /\ v = 2 <=> v \notin PushZero \cup WithCode
             /\ v \in PushZero => v \notin WithCode
  BY DEF PushZero, WithCode
<1> QED BY <1>1, <1>2, <1>3, <1>4, <1>5

-----------------------------------------------------------------------------
(* What was pushed. *)

(* The places of pt_regs that hold a register of the program.              *)
Registers == 1 .. 24 \ {18, 19}

(* What the processor pushed.                                              *)
Pushed ==
    (IF vector \in WithCode THEN <<code>> ELSE <<>>)
    \o <<Held("rip"), Held("cs"), Held("rflags"), Held("rsp"), Held("ss")>>

FrameInv ==
    /\ pc \in {"program", "stub", "handler", "backtrace", "halted"}
    /\ vector \in DOMAIN IDT_Table
    /\ code \in CodesOf(vector)
    /\ pc = "program" => frame = <<>> /\ called = 0
    /\ pc = "stub" => frame = Pushed /\ called = 0
    /\ pc \in {"handler", "backtrace", "halted"} =>
          /\ Len(frame) = 24
          /\ \A i \in Registers : frame[i] = Held(pt_regs[i])
          /\ called = Do(IDT_Table[vector])

(* The registers hold numbers.                                             *)
LEMMA HeldFacts ==
    ASSUME rip \in Int, rsp \in Int, rbp \in Int
    PROVE  /\ \A i \in 1 .. 24 : Held(pt_regs[i]) \in Int
           /\ Held("rip") = rip /\ Held("rsp") = rsp /\ Held("rbp") = rbp
<1>1. \A i \in 1 .. 24 : OffsetOf(pt_regs[i]) \in Int
  BY Fields
<1> QED BY <1>1 DEF Held

(* The registers error_code pushes lie in the order of pt_regs.            *)
LEMMA SavedFacts ==
    LET saved == Reverse([i \in DOMAIN PushOrder |-> Held(PushOrder[i])])
    IN  /\ DOMAIN saved = 1 .. 17 /\ Len(saved) = 17
        /\ saved = [i \in 1 .. 17 |-> Held(pt_regs[i])]
<1>1. DOMAIN PushOrder = 1 .. 17
  BY DEF PushOrder
<1>2. \A i \in 1 .. 17 : PushOrder[17 - i + 1] = pt_regs[i]
  BY DEF PushOrder, pt_regs
<1> DEFINE s == [i \in 1 .. 17 |-> Held(PushOrder[i])]
<1>3. Len(s) = 17
  OBVIOUS
<1>4. Reverse(s) = [i \in 1 .. 17 |-> Held(PushOrder[17 - i + 1])]
  BY <1>3 DEF Reverse
<1>5. [i \in 1 .. 17 |-> Held(PushOrder[17 - i + 1])]
        = [i \in 1 .. 17 |-> Held(pt_regs[i])]
  BY <1>2
<1> QED BY <1>1, <1>4, <1>5

(* Two sequences of numbers in a row.                                      *)
LEMMA Joined ==
    ASSUME NEW p \in Seq(Int), NEW q \in Seq(Int)
    PROVE  /\ p \o q \in Seq(Int)
           /\ Len(p \o q) = Len(p) + Len(q)
           /\ \A i \in 1 .. Len(p) : (p \o q)[i] = p[i]
           /\ \A i \in 1 .. Len(q) : (p \o q)[Len(p) + i] = q[i]
<1>1. Len(p) \in Nat /\ Len(q) \in Nat
  OBVIOUS
<1> DEFINE r == p \o q
<1>2. /\ r \in Seq(Int)
      /\ Len(r) = Len(p) + Len(q)
      /\ \A i \in 1 .. Len(p) + Len(q) :
            r[i] = IF i <= Len(p) THEN p[i] ELSE q[i - Len(p)]
  BY ConcatProperties
<1> HIDE DEF r
<1>3. ASSUME NEW i \in 1 .. Len(p)
      PROVE  r[i] = p[i]
  <2>1. i \in 1 .. Len(p) + Len(q) /\ i <= Len(p)
    BY <1>1
  <2> QED BY <2>1, <1>2
<1>4. ASSUME NEW i \in 1 .. Len(q)
      PROVE  r[Len(p) + i] = q[i]
  <2>1. /\ Len(p) + i \in 1 .. Len(p) + Len(q) /\ ~(Len(p) + i <= Len(p))
        /\ (Len(p) + i) - Len(p) = i
    BY <1>1
  <2>2. r[Len(p) + i] = q[(Len(p) + i) - Len(p)]
    BY <2>1, <1>2
  <2> QED BY <2>1, <2>2
<1> QED BY <1>2, <1>3, <1>4 DEF r

(* The words of s, then a and b, then those of h: in the two ways they are *)
(* put together.                                                           *)
InOne(s, a, b, h) == s \o <<a, b>> \o h
InTwo(s, a, b, h) == s \o <<a>> \o (<<b>> \o h)

Seventeen(s) == s \in Seq(Int) /\ Len(s) = 17
Five(h)      == h \in Seq(Int) /\ Len(h) = 5

Layout(f, s, a, b, h) ==
    /\ Len(f) = 24
    /\ \A i \in 1 .. 17 : f[i] = s[i]
    /\ f[18] = a /\ f[19] = b
    /\ \A i \in 1 .. 5 : f[19 + i] = h[i]

(* Seventeen words, two more and the five of the processor.                *)
LEMMA Stacked ==
    ASSUME NEW s, Seventeen(s), NEW a \in Int, NEW b \in Int,
           NEW h, Five(h)
    PROVE  /\ Layout(InOne(s, a, b, h), s, a, b, h)
           /\ InOne(s, a, b, h) = InTwo(s, a, b, h)
<1> DEFINE ab == <<a, b>>
           al == <<a>>
           bl == <<b>>
           bh == bl \o h
           sa == s \o al
           sab == s \o ab
           t == sab \o h
           u == sa \o bh
<1>1. s \in Seq(Int) /\ Len(s) = 17
  BY DEF Seventeen
<1>2. h \in Seq(Int) /\ Len(h) = 5
  BY DEF Five
<1>3. ab \in Seq(Int) /\ Len(ab) = 2 /\ ab[1] = a /\ ab[2] = b
  OBVIOUS
<1>4. al \in Seq(Int) /\ Len(al) = 1 /\ al[1] = a
  OBVIOUS
<1>5. bl \in Seq(Int) /\ Len(bl) = 1 /\ bl[1] = b
  OBVIOUS
<1> HIDE DEF ab, al, bl
<1>60. /\ bh \in Seq(Int) /\ Len(bh) = Len(bl) + Len(h)
       /\ \A i \in 1 .. Len(bl) : bh[i] = bl[i]
       /\ \A i \in 1 .. Len(h) : bh[Len(bl) + i] = h[i]
  BY <1>2, <1>5, Joined, Zenon
<1>70. /\ sa \in Seq(Int) /\ Len(sa) = Len(s) + Len(al)
       /\ \A i \in 1 .. Len(s) : sa[i] = s[i]
       /\ \A i \in 1 .. Len(al) : sa[Len(s) + i] = al[i]
  BY <1>1, <1>4, Joined, Zenon
<1>80. /\ sab \in Seq(Int) /\ Len(sab) = Len(s) + Len(ab)
       /\ \A i \in 1 .. Len(s) : sab[i] = s[i]
       /\ \A i \in 1 .. Len(ab) : sab[Len(s) + i] = ab[i]
  BY <1>1, <1>3, Joined, Zenon
<1> HIDE DEF bh, sa, sab
<1>6. /\ bh \in Seq(Int) /\ Len(bh) = 6
      /\ bh[1] = b /\ \A i \in 1 .. 5 : bh[1 + i] = h[i]
  BY <1>60, <1>2, <1>5
<1>7. /\ sa \in Seq(Int) /\ Len(sa) = 18
      /\ \A i \in 1 .. 17 : sa[i] = s[i]
      /\ sa[18] = a
  <2>1. sa[17 + 1] = al[1]
    BY <1>70, <1>1, <1>4
  <2> QED BY <2>1, <1>70, <1>1, <1>4
<1>8. /\ sab \in Seq(Int) /\ Len(sab) = 19
      /\ \A i \in 1 .. 17 : sab[i] = s[i]
      /\ sab[18] = a /\ sab[19] = b
  <2>1. sab[17 + 1] = ab[1] /\ sab[17 + 2] = ab[2]
    BY <1>80, <1>1, <1>3
  <2> QED BY <2>1, <1>80, <1>1, <1>3
<1>90. /\ t \in Seq(Int) /\ Len(t) = Len(sab) + Len(h)
       /\ \A i \in 1 .. Len(sab) : t[i] = sab[i]
       /\ \A i \in 1 .. Len(h) : t[Len(sab) + i] = h[i]
  BY <1>2, <1>8, Joined, Zenon
<1>100. /\ u \in Seq(Int) /\ Len(u) = Len(sa) + Len(bh)
        /\ \A i \in 1 .. Len(sa) : u[i] = sa[i]
        /\ \A i \in 1 .. Len(bh) : u[Len(sa) + i] = bh[i]
  <2>1. sa \in Seq(Int) /\ bh \in Seq(Int)
    BY <1>6, <1>7
  <2> QED BY <2>1, Joined, Zenon
<1> HIDE DEF t, u
<1>9. /\ t \in Seq(Int) /\ Len(t) = 24
      /\ \A i \in 1 .. 19 : t[i] = sab[i]
      /\ \A i \in 1 .. 5 : t[19 + i] = h[i]
  BY <1>90, <1>2, <1>8
<1>10. /\ u \in Seq(Int) /\ Len(u) = 24
       /\ \A i \in 1 .. 18 : u[i] = sa[i]
       /\ \A i \in 1 .. 6 : u[18 + i] = bh[i]
  BY <1>100, <1>6, <1>7
<1>11. /\ \A i \in 1 .. 17 : t[i] = s[i]
       /\ t[18] = a /\ t[19] = b
  <2>1. \A i \in 1 .. 17 : i \in 1 .. 19
    OBVIOUS
  <2>2. t[18] = sab[18] /\ t[19] = sab[19]
    BY <1>9
  <2>3. \A i \in 1 .. 17 : t[i] = sab[i]
    BY <2>1, <1>9
  <2> QED BY <2>2, <2>3, <1>8
<1>13. ASSUME NEW i \in 1 .. 24
       PROVE  t[i] = u[i]
  <2>1. CASE i \in 1 .. 17
    <3>1. i \in 1 .. 18 /\ i \in 1 .. 19
      BY <2>1
    <3>2. t[i] = sab[i] /\ u[i] = sa[i]
      BY <3>1, <1>9, <1>10
    <3> QED BY <3>2, <2>1, <1>7, <1>8
  <2>2. CASE i = 18
    BY <2>2, <1>7, <1>8, <1>9, <1>10
  <2>3. CASE i = 19
    <3>1. u[18 + 1] = bh[1]
      BY <1>10
    <3>2. 18 + 1 = 19
      OBVIOUS
    <3>3. u[19] = b /\ t[19] = b
      BY <3>1, <3>2, <1>6, <1>11
    <3> QED BY <3>3, <2>3
  <2>4. CASE i \in 20 .. 24
    <3> DEFINE k == i - 19
    <3>1. k \in 1 .. 5 /\ 1 + k \in 1 .. 6
      BY <2>4
    <3>2. t[19 + k] = h[k] /\ u[18 + (1 + k)] = bh[1 + k] /\ bh[1 + k] = h[k]
      BY <3>1, <1>6, <1>9, <1>10
    <3>3. 19 + k = i /\ 18 + (1 + k) = i
      OBVIOUS
    <3> QED BY <3>2, <3>3
  <2> QED BY <2>1, <2>2, <2>3, <2>4
<1>14. t = u
  <2>1. t \in Seq(Int) /\ u \in Seq(Int) /\ Len(t) = Len(u)
    BY <1>9, <1>10
  <2>2. \A i \in 1 .. Len(t) : t[i] = u[i]
    BY <1>9, <1>13
  <2> QED BY <2>1, <2>2, SeqEqual, Zenon
<1>15. Layout(t, s, a, b, h) /\ t = u
  BY <1>9, <1>11, <1>14 DEF Layout
<1> QED BY <1>15, Zenon DEF InOne, InTwo, t, u, sab, sa, bh, ab, al, bl

(* So the frame of a stub has that form, whichever way it pushed the two.  *)
LEMMA Stubbed ==
    ASSUME NEW f, NEW s, Seventeen(s), NEW a \in Int, NEW b \in Int,
           NEW h, Five(h), f = InOne(s, a, b, h) \/ f = InTwo(s, a, b, h)
    PROVE  Layout(f, s, a, b, h)
<1>1. Layout(InOne(s, a, b, h), s, a, b, h)
  BY Stacked, Zenon
<1>2. InOne(s, a, b, h) = InTwo(s, a, b, h)
  BY Stacked, Zenon
<1> QED BY <1>1, <1>2, Zenon

(* The stub completes a pt_regs, whether the processor pushed a code or    *)
(* not, and calls the function of the vector.                              *)
LEMMA StubFrame ==
    ASSUME FrameInv, Stub, rip \in Int, rsp \in Int, rbp \in Int,
           code \in Int
    PROVE  /\ Len(frame') = 24
           /\ \A i \in Registers : frame'[i] = Held(pt_regs[i])
           /\ called' = Do(IDT_Table[vector])
           /\ error_code' = code
<1> DEFINE saved == [i \in 1 .. 17 |-> Held(pt_regs[i])]
           name == IDT_Table[vector]
           do == Do(name)
           hard == <<Held("rip"), Held("cs"), Held("rflags"), Held("rsp"),
                     Held("ss")>>
<1>1. /\ vector \in DOMAIN IDT_Table
      /\ pc = "stub" /\ frame = Pushed
  BY DEF FrameInv, Stub
<1>2. \A i \in 1 .. 24 : Held(pt_regs[i]) \in Int
  BY HeldFacts
<1>3. Seventeen(saved)
  <2>1. saved \in [1 .. 17 -> Int]
    BY <1>2
  <2>2. Len(saved) = 17
    OBVIOUS
  <2> HIDE DEF saved
  <2>3. saved \in Seq(Int)
    BY <2>1, SeqDef
  <2> QED BY <2>2, <2>3 DEF Seventeen
<1>4. /\ Held("rip") = Held(pt_regs[20]) /\ Held("cs") = Held(pt_regs[21])
      /\ Held("rflags") = Held(pt_regs[22]) /\ Held("rsp") = Held(pt_regs[23])
      /\ Held("ss") = Held(pt_regs[24]) /\ Held("rax") = Held(pt_regs[17])
  BY DEF pt_regs
<1>5. do \in Int
  BY <1>1, Vectors
<1>6. ASSUME NEW a \in Int, NEW b \in Int,
             \/ frame' = InOne(saved, a, b, hard)
             \/ frame' = InTwo(saved, a, b, hard)
      PROVE  /\ Len(frame') = 24
             /\ \A i \in Registers : frame'[i] = Held(pt_regs[i])
             /\ frame'[18] = a /\ frame'[19] = b
  <2>1. /\ Held("rip") \in Int /\ Held("cs") \in Int /\ Held("rflags") \in Int
        /\ Held("rsp") \in Int /\ Held("ss") \in Int
    BY <1>2, <1>4
  <2>2. /\ hard \in Seq(Int) /\ Len(hard) = 5
        /\ hard[1] = Held("rip") /\ hard[2] = Held("cs")
        /\ hard[3] = Held("rflags")
        /\ hard[4] = Held("rsp") /\ hard[5] = Held("ss")
    BY <2>1
  <2> HIDE DEF saved, hard
  <2>21. Five(hard)
    BY <2>2 DEF Five
  <2>23. Layout(frame', saved, a, b, hard)
    BY <1>3, <1>6, <2>21, Stubbed
  <2>24. /\ Len(frame') = 24 /\ \A i \in 1 .. 17 : frame'[i] = saved[i]
         /\ frame'[18] = a /\ frame'[19] = b
         /\ \A i \in 1 .. 5 : frame'[19 + i] = hard[i]
    BY <2>23 DEF Layout
  <2>22. /\ frame'[19 + 1] = hard[1] /\ frame'[19 + 2] = hard[2]
         /\ frame'[19 + 3] = hard[3] /\ frame'[19 + 4] = hard[4]
         /\ frame'[19 + 5] = hard[5]
    BY <2>24
  <2>3. /\ Len(frame') = 24 /\ \A i \in 1 .. 17 : frame'[i] = saved[i]
        /\ frame'[18] = a /\ frame'[19] = b
        /\ frame'[20] = Held("rip") /\ frame'[21] = Held("cs")
        /\ frame'[22] = Held("rflags") /\ frame'[23] = Held("rsp")
        /\ frame'[24] = Held("ss")
    BY <2>2, <2>24, <2>22
  <2>4. \A i \in 1 .. 17 : saved[i] = Held(pt_regs[i])
    BY DEF saved
  <2>5. \A i \in Registers : i \in 1 .. 17 \/ i \in {20, 21, 22, 23, 24}
    BY DEF Registers
  <2>6. \A i \in Registers : frame'[i] = Held(pt_regs[i])
    BY <2>3, <2>4, <2>5, <1>4
  <2> QED BY <2>3, <2>6
<1>7. \A regs : Word(regs, "func") = regs[18] /\ Word(regs, "errcode") = regs[19]
  BY Offsets DEF Word
<1>11. vector \notin WithCode => code = 0
  <2>1. code \in CodesOf(vector)
    BY DEF FrameInv
  <2> QED BY <2>1 DEF CodesOf, WithCode
<1>8. CASE name = "nmi"
  <2>1. vector \notin WithCode
    BY <1>1, <1>8, Vectors
  <2>2. frame' = saved \o <<Held("rax"), Held("rax")>> \o Pushed
    BY <1>8, <1>1, SavedFacts DEF Stub
  <2>3. Pushed = hard
    BY <2>1 DEF Pushed
  <2>4. called' = do /\ error_code' = 0
    BY <1>8 DEF Stub
  <2>5. Held("rax") \in Int
    BY <1>2, <1>4
  <2>6. frame' = InOne(saved, Held("rax"), Held("rax"), hard)
    BY <2>2, <2>3, Zenon DEF InOne
  <2> QED BY <2>1, <2>4, <2>5, <2>6, <1>6, <1>11, Zenon
<1>9. CASE name # "nmi" /\ vector \in PushZero
  <2>1. vector \notin WithCode
    BY <1>1, <1>9, Vectors
  <2>2. frame' = saved \o <<do, 0>> \o Pushed
    BY <1>9, <1>1, SavedFacts DEF Stub
  <2>3. Pushed = hard
    BY <2>1 DEF Pushed
  <2>4. called' = Word(frame', "func") /\ error_code' = Word(frame', "errcode")
    BY <1>9 DEF Stub
  <2>5. frame' = InOne(saved, do, 0, hard)
    BY <2>2, <2>3, Zenon DEF InOne
  <2>6. 0 \in Int
    OBVIOUS
  <2>7. /\ Len(frame') = 24
        /\ \A i \in Registers : frame'[i] = Held(pt_regs[i])
        /\ frame'[18] = do /\ frame'[19] = 0
    BY <2>5, <2>6, <1>5, <1>6, Zenon
  <2>8. code = 0
    BY <2>1, <1>11, Zenon
  <2> HIDE DEF do
  <2>9. called' = do /\ error_code' = 0
    BY <2>4, <2>7, <1>7
  <2> QED BY <2>7, <2>8, <2>9, Zenon DEF do
<1>10. CASE name # "nmi" /\ vector \notin PushZero
  <2>1. vector \in WithCode
    BY <1>1, <1>10, Vectors
  <2>2. frame' = saved \o <<do>> \o Pushed
    BY <1>10, <1>1, SavedFacts DEF Stub
  <2>3. Pushed = <<code>> \o hard
    BY <2>1 DEF Pushed
  <2>4. called' = Word(frame', "func") /\ error_code' = Word(frame', "errcode")
    BY <1>10 DEF Stub
  <2>5. frame' = InTwo(saved, do, code, hard)
    BY <2>2, <2>3, Zenon DEF InTwo
  <2>6. /\ Len(frame') = 24
        /\ \A i \in Registers : frame'[i] = Held(pt_regs[i])
        /\ frame'[18] = do /\ frame'[19] = code
    BY <2>5, <1>5, <1>6, Zenon
  <2> HIDE DEF do
  <2>7. called' = do /\ error_code' = code
    BY <2>4, <2>6, <1>7
  <2> QED BY <2>6, <2>7, Zenon DEF do
<1> QED BY <1>8, <1>9, <1>10

-----------------------------------------------------------------------------
(* The stack. *)

(* The first frame: what called it, if anything.                           *)
Base(fp) ==
    /\ level \in {"boot", "thread", "user"}
    /\ level = "boot" => fp[1] = BootTop - 1 /\ chain[1] = "Start_Kernel"
    /\ level = "user" =>
          fp[1] = UserTop - 1 /\ chain[1] = "user_level_function"
    /\ level = "thread" =>
          /\ fp[1] = ThreadTop - 2 /\ chain[1] = "init"
          /\ fp[1] + 1 \in DOMAIN mem
          /\ mem[fp[1]] = 0 /\ mem[fp[1] + 1] = Site("kernel_thread_func")
          /\ 0 < rsp

(* fp[k] is where the k-th function of the chain saved rbp: it holds the   *)
(* fp of the one before, and above it lies the place to return to.         *)
Stack(fp) ==
    /\ chain \in Seq(Func)
    /\ Len(chain) \in 1 .. MaxDepth
    /\ fp \in [1 .. Len(chain) -> Int]
    /\ fp[Len(chain)] = rbp
    /\ rsp \in Int /\ rsp <= rbp
    /\ \A i, j \in 1 .. Len(chain) : i < j => fp[j] + 2 <= fp[i]
    /\ \A i \in 1 .. Len(chain) : fp[i] \in DOMAIN mem
    /\ DOMAIN mem \subseteq rsp .. Top - 1
    /\ \A a \in DOMAIN mem : mem[a] \in Int
    /\ \A k \in 2 .. Len(chain) :
          /\ fp[k] + 1 \in DOMAIN mem
          /\ mem[fp[k]] = fp[k - 1]
          /\ mem[fp[k] + 1] = Site(chain[k - 1])
          /\ chain[k] \in DOMAIN Locals
    /\ Base(fp)

(* The simple consequences.                                                *)
LEMMA StackFacts ==
    ASSUME NEW fp, Stack(fp)
    PROVE  /\ Len(chain) \in Nat /\ 1 <= Len(chain)
           /\ Last(chain) = chain[Len(chain)]
           /\ \A k \in 1 .. Len(chain) : chain[k] \in Func
           /\ rip = Here(chain[Len(chain)]) /\ rip \in Nat
           /\ rsp \in Int /\ rbp \in Int
           /\ \A k \in 1 .. Len(chain) : fp[k] \in Int /\ rsp <= fp[k]
           /\ \A k \in 1 .. Len(chain) : fp[k] < Top /\ fp[k] < StackTop
           /\ \A k \in 2 .. Len(chain) : fp[k] + 1 < Top
<1>1. /\ Len(chain) \in Nat /\ 1 <= Len(chain) /\ chain \in Seq(Func)
      /\ rsp \in Int
      /\ fp \in [1 .. Len(chain) -> Int] /\ fp[Len(chain)] = rbp
      /\ rsp <= rbp
      /\ \A i, j \in 1 .. Len(chain) : i < j => fp[j] + 2 <= fp[i]
      /\ \A i \in 1 .. Len(chain) : fp[i] \in rsp .. Top - 1
      /\ \A i \in 2 .. Len(chain) : fp[i] + 1 \in rsp .. Top - 1
  BY TrapAssumption DEF Stack
<1>2. Last(chain) = chain[Len(chain)]
  BY DEF Last
<1>3. \A k \in 1 .. Len(chain) : chain[k] \in Func
  BY <1>1
<1>4. rip = Here(chain[Len(chain)]) /\ rip \in Nat
  BY <1>1, <1>2, <1>3, Places DEF rip
<1>5. rbp \in Int
  BY <1>1
<1>6. \A k \in 1 .. Len(chain) : /\ fp[k] \in Int /\ rsp <= fp[k]
                                 /\ fp[k] < Top /\ fp[k] < StackTop
  BY <1>1, Tops
<1>7. \A k \in 2 .. Len(chain) : fp[k] + 1 < Top
  BY <1>1, Tops
<1> QED BY <1>1, <1>2, <1>3, <1>4, <1>5, <1>6, <1>7

(* Where the stack starts.                                                 *)
LEMMA InitStack == Init => \E fp : Stack(fp)
<1> SUFFICES ASSUME Init
             PROVE  \E fp : Stack(fp)
  OBVIOUS
<1>1. rsp \in Int /\ rbp = rsp /\ rsp = (IF level = "user" THEN UserTop - 1
                  ELSE IF level = "boot" THEN BootTop - 1 ELSE ThreadTop - 2)
  BY NamesAssumption DEF Init
<1> DEFINE fp == [k \in {1} |-> rsp]
<1>2. /\ chain \in Seq(Func) /\ Len(chain) = 1
      /\ level \in {"boot", "thread", "user"}
      /\ level = "boot" => chain[1] = "Start_Kernel"
      /\ level = "user" => chain[1] = "user_level_function"
      /\ level = "thread" => chain[1] = "init"
  <2>1. \A f : f \in Func => <<f>> \in Seq(Func) /\ Len(<<f>>) = 1 /\ <<f>>[1] = f
    OBVIOUS
  <2>2. {"Start_Kernel", "init", "user_level_function"} \subseteq Func
    BY DEF Func
  <2>3. \/ level = "boot" /\ chain = <<"Start_Kernel">>
        \/ level = "user" /\ chain = <<"user_level_function">>
        \/ level = "thread" /\ chain = <<"init">>
    BY DEF Init
  <2> QED BY <2>1, <2>2, <2>3
<1>3. level # "thread" =>
        /\ DOMAIN mem = {rsp} /\ mem[rsp] \in Nat
  BY TrapAssumption DEF Init
<1>4. level = "thread" =>
        /\ DOMAIN mem = {rsp, rsp + 1} /\ mem[rsp] = 0
        /\ mem[rsp + 1] = Site("kernel_thread_func")
        /\ 0 < rsp
  <2> SUFFICES ASSUME level = "thread"
               PROVE  /\ DOMAIN mem = {rsp, rsp + 1} /\ mem[rsp] = 0
                      /\ mem[rsp + 1] = Site("kernel_thread_func")
                      /\ 0 < rsp
    OBVIOUS
  <2>2. UserText < UserTop /\ UserTop + 1 < ThreadTop
        /\ UserText \in Nat /\ UserTop \in Nat /\ ThreadTop \in Nat
    BY TrapAssumption, NamesAssumption
  <2>3. 0 < rsp /\ rsp + 1 # rsp /\ rsp \in Int
    BY <2>2, <1>1
  <2>1. mem = [a \in {rsp, rsp + 1} |->
                  IF a = rsp THEN 0 ELSE Site("kernel_thread_func")]
    BY DEF Init
  <2> QED BY <2>1, <2>3
<1>5. \A a \in DOMAIN mem : mem[a] \in Int
  BY <1>1, <1>3, <1>4, Places
<1>6. rsp \in DOMAIN mem /\ DOMAIN mem \subseteq rsp .. Top - 1
  BY <1>1, <1>2, <1>3, <1>4, Tops DEF Top, StackTop
<1>7. Base(fp)
  BY <1>1, <1>2, <1>4 DEF Base
<1>8. 1 \in 1 .. MaxDepth
  BY TrapAssumption
<1>9. Stack(fp)
  BY <1>1, <1>2, <1>5, <1>6, <1>7, <1>8 DEF Stack
<1> QED BY <1>9

(* A call puts a frame below the others.                                   *)
LEMMA CallStack ==
    ASSUME NEW fp, Stack(fp), NEW f \in DOMAIN Locals, Call(f)
    PROVE  \E fq : Stack(fq)'
<1> DEFINE n == Len(chain)
<1>1. /\ n \in Nat /\ 1 <= n /\ n < MaxDepth
      /\ rsp \in Int /\ rbp \in Int
      /\ MaxDepth \in Nat /\ Locals[f] \in Nat
      /\ 2 + Locals[f] < rsp
  BY StackFacts, TrapAssumption DEF Call
<1>2. /\ chain' = Append(chain, f) /\ level' = level
      /\ rsp' = rsp - 2 - Locals[f] /\ rbp' = rsp - 2
      /\ DOMAIN mem' = DOMAIN mem \cup {rsp - 1, rsp - 2}
      /\ mem'[rsp - 1] = Site(Last(chain))
      /\ mem'[rsp - 2] = rbp
      /\ \A a \in DOMAIN mem \ {rsp - 1, rsp - 2} : mem'[a] = mem[a]
  BY <1>1 DEF Call
<1>3. /\ chain \in Seq(Func) /\ f \in Func
      /\ chain' \in Seq(Func) /\ Len(chain') = n + 1 /\ chain'[n + 1] = f
      /\ \A k \in 1 .. n : chain'[k] = chain[k]
  BY <1>2 DEF Stack, Func
<1>4. PICK fq : /\ fq \in [1 .. n + 1 -> Int] /\ fq[n + 1] = rsp - 2
                /\ \A k \in 1 .. n : fq[k] = fp[k]
  <2> DEFINE g == [k \in 1 .. n + 1 |-> IF k = n + 1 THEN rsp - 2 ELSE fp[k]]
  <2>1. /\ g \in [1 .. n + 1 -> Int] /\ g[n + 1] = rsp - 2
        /\ \A k \in 1 .. n : g[k] = fp[k]
    BY <1>1, StackFacts
  <2> HIDE DEF g
  <2> QED BY <2>1
<1>5. \A a \in DOMAIN mem : a \in Int /\ rsp <= a /\ a <= Top - 1
  BY <1>1, Tops DEF Stack
<1>6. \A a \in DOMAIN mem : a \in DOMAIN mem' /\ mem'[a] = mem[a]
  BY <1>1, <1>2, <1>5
<1>7. rsp' \in Int /\ rsp' <= rbp' /\ fq[n + 1] = rbp'
  BY <1>1, <1>2, <1>4
<1>8. ASSUME NEW i \in 1 .. n + 1, NEW j \in 1 .. n + 1, i < j
      PROVE  fq[j] + 2 <= fq[i]
  <2>1. CASE j = n + 1
    BY <2>1, <1>1, <1>4, <1>8, StackFacts
  <2>2. CASE j # n + 1
    <3>1. i \in 1 .. n /\ j \in 1 .. n
      BY <2>2, <1>1, <1>8
    <3> QED BY <3>1, <1>4, <1>8 DEF Stack
  <2> QED BY <2>1, <2>2
<1>9. ASSUME NEW i \in 1 .. n + 1
      PROVE  fq[i] \in DOMAIN mem'
  <2>1. CASE i = n + 1
    BY <2>1, <1>2, <1>4
  <2>2. CASE i # n + 1
    <3>1. i \in 1 .. n
      BY <2>2, <1>1
    <3> QED BY <3>1, <1>4, <1>6 DEF Stack
  <2> QED BY <2>1, <2>2
<1>10. Top' = Top
  BY <1>2 DEF Top, StackTop
<1>11. DOMAIN mem' \subseteq rsp' .. Top' - 1
  <2>1. rsp <= fp[1] /\ fp[1] \in Int /\ fp[1] < Top
    BY <1>1, StackFacts
  <2> QED BY <2>1, <1>1, <1>2, <1>5, <1>10, Tops, SMTT(30)
<1>12. \A a \in DOMAIN mem' : mem'[a] \in Int
  <2>1. Site(Last(chain)) \in Int
    BY <1>1, StackFacts, Places
  <2> QED BY <2>1, <1>1, <1>2 DEF Stack
<1>13. ASSUME NEW k \in 2 .. n + 1
       PROVE  /\ fq[k] + 1 \in DOMAIN mem'
              /\ mem'[fq[k]] = fq[k - 1]
              /\ mem'[fq[k] + 1] = Site(chain'[k - 1])
              /\ chain'[k] \in DOMAIN Locals
  <2>1. CASE k = n + 1
    <3>1. k - 1 = n /\ n \in 1 .. n /\ (rsp - 2) + 1 = rsp - 1
      BY <2>1, <1>1
    <3>2. fq[k] = rsp - 2 /\ fq[k - 1] = fp[n] /\ chain'[k - 1] = chain[n]
      BY <2>1, <3>1, <1>3, <1>4
    <3>3. fp[n] = rbp /\ Last(chain) = chain[n]
      BY StackFacts DEF Stack
    <3> QED BY <2>1, <3>1, <3>2, <3>3, <1>2, <1>3
  <2>2. CASE k # n + 1
    <3>1. k \in 2 .. n /\ k \in 1 .. n /\ k - 1 \in 1 .. n
      BY <2>2, <1>1
    <3>2. fq[k] = fp[k] /\ fq[k - 1] = fp[k - 1] /\ chain'[k] = chain[k]
          /\ chain'[k - 1] = chain[k - 1]
      BY <3>1, <1>3, <1>4
    <3>3. /\ fp[k] + 1 \in DOMAIN mem /\ fp[k] \in DOMAIN mem
          /\ mem[fp[k]] = fp[k - 1]
          /\ mem[fp[k] + 1] = Site(chain[k - 1])
          /\ chain[k] \in DOMAIN Locals
      BY <3>1 DEF Stack
    <3> QED BY <3>2, <3>3, <1>6
  <2> QED BY <2>1, <2>2
<1>14. Base(fq)'
  <2>1. 1 \in 1 .. n
    BY <1>1
  <2>2. fq[1] = fp[1] /\ chain'[1] = chain[1] /\ level' = level
    BY <2>1, <1>2, <1>3, <1>4
  <2>3. Base(fp) /\ fp[1] \in DOMAIN mem
    BY <2>1 DEF Stack
  <2>4. 0 < rsp'
    BY <1>1, <1>2
  <2> QED BY <2>2, <2>3, <2>4, <1>6 DEF Base
<1>15. Len(chain') \in 1 .. MaxDepth
  BY <1>1, <1>3
<1>16. Stack(fq)'
  BY <1>3, <1>4, <1>7, <1>8, <1>9, <1>11, <1>12, <1>13, <1>14, <1>15 DEF Stack
<1> QED BY <1>16

(* A return takes the lowest frame down.                                   *)
LEMMA ReturnStack ==
    ASSUME NEW fp, Stack(fp), Return
    PROVE  \E fq : Stack(fq)'
<1> DEFINE n == Len(chain)
<1>1. /\ n \in Nat /\ 1 < n /\ n <= MaxDepth
      /\ rsp \in Int /\ rbp \in Int /\ fp[n] = rbp /\ MaxDepth \in Nat
      /\ chain \in Seq(Func)
  BY StackFacts, TrapAssumption DEF Return, Stack
<1>2. n \in 2 .. n /\ n - 1 \in 1 .. n - 1
  BY <1>1
<1>3. mem[rbp] = fp[n - 1]
  BY <1>1, <1>2 DEF Stack
<1>4. /\ chain' = Front(chain) /\ level' = level
      /\ rsp' = rbp + 2 /\ rbp' = fp[n - 1]
      /\ DOMAIN mem' = {x \in DOMAIN mem : x >= rbp + 2}
      /\ \A a \in DOMAIN mem' : mem'[a] = mem[a]
  BY <1>3 DEF Return
<1>5. /\ chain' \in Seq(Func) /\ Len(chain') = n - 1
      /\ \A k \in 1 .. n - 1 : chain'[k] = chain[k]
  BY <1>1, <1>4 DEF Front
<1>6. PICK fq : /\ fq \in [1 .. n - 1 -> Int] /\ fq[n - 1] = rbp'
                /\ \A k \in 1 .. n - 1 : fq[k] = fp[k] /\ k \in 1 .. n
  <2> DEFINE g == [k \in 1 .. n - 1 |-> fp[k]]
  <2>1. /\ g \in [1 .. n - 1 -> Int] /\ g[n - 1] = rbp'
        /\ \A k \in 1 .. n - 1 : g[k] = fp[k] /\ k \in 1 .. n
    BY <1>1, <1>2, <1>4, StackFacts
  <2> HIDE DEF g
  <2> QED BY <2>1
<1>7. \A a \in DOMAIN mem : a \in Int /\ rsp <= a /\ a <= Top - 1
  BY <1>1, Tops DEF Stack
<1>8. ASSUME NEW k \in 1 .. n - 1
      PROVE  fp[k] \in Int /\ rbp + 2 <= fp[k]
  <2>1. k \in 1 .. n /\ n \in 1 .. n /\ k < n
    BY <1>1
  <2>2. fp[n] + 2 <= fp[k]
    BY <2>1 DEF Stack
  <2> QED BY <2>1, <2>2, <1>1, StackFacts
<1>9. \A i \in 1 .. n - 1 : fq[i] \in DOMAIN mem'
  BY <1>4, <1>6, <1>8 DEF Stack
<1>10. rsp' \in Int /\ rsp' <= rbp'
  BY <1>1, <1>2, <1>4, <1>8
<1>11. Top' = Top
  BY <1>4 DEF Top, StackTop
<1>12. DOMAIN mem' \subseteq rsp' .. Top' - 1
  BY <1>1, <1>4, <1>7, <1>11, Tops
<1>13. \A a \in DOMAIN mem' : mem'[a] \in Int
  BY <1>4 DEF Stack
<1>14. ASSUME NEW k \in 2 .. n - 1
       PROVE  /\ fq[k] + 1 \in DOMAIN mem'
              /\ mem'[fq[k]] = fq[k - 1]
              /\ mem'[fq[k] + 1] = Site(chain'[k - 1])
              /\ chain'[k] \in DOMAIN Locals
  <2>1. k \in 2 .. n /\ k \in 1 .. n - 1 /\ k - 1 \in 1 .. n - 1
    BY <1>1
  <2>2. fq[k] = fp[k] /\ fq[k - 1] = fp[k - 1] /\ chain'[k] = chain[k]
        /\ chain'[k - 1] = chain[k - 1]
    BY <2>1, <1>5, <1>6
  <2>3. /\ fp[k] + 1 \in DOMAIN mem
        /\ mem[fp[k]] = fp[k - 1]
        /\ mem[fp[k] + 1] = Site(chain[k - 1])
        /\ chain[k] \in DOMAIN Locals
    BY <2>1 DEF Stack
  <2>4. fp[k] + 1 \in DOMAIN mem' /\ fp[k] \in DOMAIN mem'
    <3>1. fp[k] \in Int /\ rbp + 2 <= fp[k]
      BY <2>1, <1>8
    <3>2. fp[k] + 1 >= rbp + 2
      BY <3>1, <1>1
    <3> QED BY <3>2, <2>1, <2>2, <2>3, <1>4, <1>9
  <2> QED BY <2>2, <2>3, <2>4, <1>4
<1>15. \A i, j \in 1 .. n - 1 : i < j => fq[j] + 2 <= fq[i]
  BY <1>6 DEF Stack
<1>16. Base(fq)'
  <2>1. 1 \in 1 .. n - 1
    BY <1>1
  <2>2. fq[1] = fp[1] /\ chain'[1] = chain[1] /\ level' = level
    BY <2>1, <1>4, <1>5, <1>6
  <2>3. Base(fp)
    BY DEF Stack
  <2>4. fp[1] \in DOMAIN mem' /\ fp[1] \in Int /\ rbp + 2 <= fp[1]
    BY <2>1, <2>2, <1>8, <1>9
  <2>5. level = "thread" => fp[1] + 1 \in DOMAIN mem' /\ 0 < rsp'
    <3> SUFFICES ASSUME level = "thread"
                 PROVE  fp[1] + 1 \in DOMAIN mem' /\ 0 < rsp'
      OBVIOUS
    <3>1. fp[1] + 1 \in DOMAIN mem /\ 0 < rsp
      BY <2>3 DEF Base
    <3>2. fp[1] + 1 >= rbp + 2 /\ rsp <= rbp
      BY <2>4, <1>1 DEF Stack
    <3> QED BY <3>1, <3>2, <1>1, <1>4
  <2> QED BY <2>2, <2>3, <2>4, <2>5, <1>4 DEF Base
<1>17. Len(chain') \in 1 .. MaxDepth
  BY <1>1, <1>5
<1>18. Stack(fq)'
  BY <1>5, <1>6, <1>9, <1>10, <1>12, <1>13, <1>14, <1>15, <1>16, <1>17 DEF Stack
<1> QED BY <1>18

-----------------------------------------------------------------------------
(* The walk of backtrace(). *)

(* The i-th place a backtrace is to show.                                  *)
Place(i) == IF i = 1 THEN rip ELSE Site(chain[Len(chain) - i + 1])

(* The loop is about to show a place and then to read the frame of the     *)
(* function that place lies in.                                            *)
At(fp) ==
    /\ vector = 0 /\ lines < 10
    /\ ret_address \in Int /\ bp \in Int
    /\ level = "user" => lines < Len(chain)
    /\ level = "thread" => lines <= Len(chain)
    /\ lines < Len(chain) =>
          ret_address = Place(lines + 1) /\ bp = fp[Len(chain) - lines]
    /\ level = "thread" /\ lines = Len(chain) =>
          ret_address = Site("kernel_thread_func") /\ bp = 0

Walk(fp) ==
    /\ lines \in 0 .. 10
    /\ pc \in {"program", "stub", "handler"} => lines = 0 /\ reads = {}
    /\ pc = "backtrace" => At(fp)
    /\ BacktraceIsCallChain
    /\ ReadsNearStack

(* What Callers is on each stack.                                          *)
LEMMA CallersFacts ==
    ASSUME NEW fp, Stack(fp)
    PROVE  /\ level = "user" => Len(Callers) = Len(chain) - 1
           /\ level = "thread" => Len(Callers) = Len(chain) + 1
           /\ level = "boot" => Len(Callers) = Len(chain)
           /\ Len(Callers) \in Nat
           /\ \A i \in 1 .. Len(Callers) :
                 Callers[i] = IF i = Len(chain) + 1
                              THEN Site("kernel_thread_func") ELSE Place(i)
<1> DEFINE n == Len(chain)
           back == [i \in 1 .. n - 1 |-> Site(chain[n - i])]
           places == <<rip>> \o back
<1>1. n \in Nat /\ 1 <= n /\ rip \in Int
  BY StackFacts
<1>2. \A i \in 1 .. n - 1 : n - i \in 1 .. n /\ Site(chain[n - i]) \in Int
  BY <1>1, StackFacts, Places
<1>3. back \in Seq(Int) /\ Len(back) = n - 1
      /\ \A i \in 1 .. n - 1 : back[i] = Site(chain[n - i])
  <2>1. n - 1 \in Nat
    BY <1>1
  <2>2. back \in [1 .. n - 1 -> Int]
    BY <1>2
  <2>3. Len(back) = n - 1
    BY <2>1
  <2>4. \A i \in 1 .. n - 1 : back[i] = Site(chain[n - i])
    OBVIOUS
  <2> HIDE DEF back
  <2>5. back \in Seq(Int)
    BY <2>1, <2>2, SeqDef
  <2> QED BY <2>3, <2>4, <2>5
<1> DEFINE one == <<rip>>
<1>4. one \in Seq(Int) /\ Len(one) = 1 /\ one[1] = rip
  BY <1>1
<1> HIDE DEF back, one
<1>5. /\ one \o back \in Seq(Int) /\ Len(one \o back) = Len(one) + Len(back)
      /\ \A i \in 1 .. Len(one) : (one \o back)[i] = one[i]
      /\ \A i \in 1 .. Len(back) : (one \o back)[Len(one) + i] = back[i]
  BY <1>3, <1>4, Joined, Zenon
<1>6. places = one \o back
  BY Zenon DEF one
<1> HIDE DEF places
<1>7. /\ places \in Seq(Int) /\ Len(places) = n
      /\ \A i \in 1 .. n : places[i] = Place(i)
  <2>1. /\ places \in Seq(Int) /\ Len(places) = Len(one) + Len(back)
        /\ \A i \in 1 .. Len(one) : places[i] = one[i]
        /\ \A i \in 1 .. Len(back) : places[Len(one) + i] = back[i]
    BY <1>5, <1>6, Zenon
  <2>2. places[1] = rip
    BY <2>1, <1>4
  <2>3. ASSUME NEW i \in 1 .. n, i # 1
        PROVE  places[i] = Site(chain[n - i + 1])
    <3> DEFINE j == i - 1
    <3>1. j \in 1 .. n - 1 /\ 1 + j = i /\ n - j = n - i + 1
      BY <1>1, <2>3
    <3>2. places[1 + j] = back[j]
      BY <3>1, <2>1, <1>3, <1>4
    <3>3. back[j] = Site(chain[n - j])
      BY <3>1, <1>3
    <3> QED BY <3>1, <3>2, <3>3
  <2> QED BY <2>1, <2>2, <2>3, <1>1, <1>3, <1>4 DEF Place
<1>8. Callers = CASE level = "user"   -> SubSeq(places, 1, n - 1)
                  [] level = "thread" -> Append(places, Site("kernel_thread_func"))
                  [] level = "boot"   -> places
  BY Zenon DEF Callers, places, back
<1>9. level \in {"boot", "thread", "user"}
  BY DEF Stack, Base
<1>10. CASE level = "user"
  <2>1. Callers = SubSeq(places, 1, n - 1)
    BY <1>8, <1>10
  <2>2. /\ Len(SubSeq(places, 1, n - 1)) = n - 1
        /\ \A i \in 1 .. n - 1 : SubSeq(places, 1, n - 1)[i] = places[i]
    BY <1>1, <1>7
  <2> QED BY <2>1, <2>2, <1>1, <1>7, <1>10
<1>11. CASE level = "thread"
  <2>1. Callers = Append(places, Site("kernel_thread_func"))
    BY <1>8, <1>11
  <2>2. Site("kernel_thread_func") \in Int
    BY Places
  <2> QED BY <2>1, <2>2, <1>1, <1>7, <1>11
<1>12. CASE level = "boot"
  BY <1>8, <1>12, <1>1, <1>7
<1> QED BY <1>9, <1>10, <1>11, <1>12

(* While the program does not run, all that is said of it stays.           *)
LEMMA ProgramStays ==
    ASSUME NEW fp, Stack(fp), program' = program
    PROVE  /\ Stack(fp)'
           /\ rip' = rip /\ Top' = Top /\ Callers' = Callers
           /\ \A i \in 1 .. 24 : Held(pt_regs[i])' = Held(pt_regs[i])
           /\ \A i : Place(i)' = Place(i)
<1>1. /\ level' = level /\ chain' = chain /\ rsp' = rsp /\ rbp' = rbp
      /\ mem' = mem
  BY DEF program
<1>2. rip' = rip /\ Top' = Top
  BY <1>1 DEF rip, Top, StackTop
<1>3. Callers' = Callers
  BY <1>1, <1>2, Zenon DEF Callers
<1>4. Stack(fp)'
  BY <1>1, <1>2 DEF Stack, Base
<1>5. \A i \in 1 .. 24 : Held(pt_regs[i])' = Held(pt_regs[i])
  BY <1>1, <1>2 DEF Held
<1>6. \A i : Place(i)' = Place(i)
  BY <1>1, <1>2 DEF Place
<1> QED BY <1>2, <1>3, <1>4, <1>5, <1>6

-----------------------------------------------------------------------------
(* The invariant. *)

Inv == FrameInv /\ \E fp : Stack(fp) /\ Walk(fp)

(* Codes are numbers.                                                      *)
LEMMA CodeFacts == \A v : CodesOf(v) \subseteq Nat
  BY TrapAssumption DEF CodesOf

(* What the processor pushed is five or six words.                         *)
LEMMA PushedFacts ==
    ASSUME rip \in Int, rsp \in Int, rbp \in Int, code \in Int
    PROVE  Len(Pushed) \in {5, 6}
<1> DEFINE hard == <<Held("rip"), Held("cs"), Held("rflags"), Held("rsp"),
                     Held("ss")>>
           one == <<code>>
<1>1. \A i \in 1 .. 24 : Held(pt_regs[i]) \in Int
  BY HeldFacts
<1>2. /\ Held("rip") = Held(pt_regs[20]) /\ Held("cs") = Held(pt_regs[21])
      /\ Held("rflags") = Held(pt_regs[22]) /\ Held("rsp") = Held(pt_regs[23])
      /\ Held("ss") = Held(pt_regs[24])
  BY DEF pt_regs
<1>3. /\ Held("rip") \in Int /\ Held("cs") \in Int /\ Held("rflags") \in Int
      /\ Held("rsp") \in Int /\ Held("ss") \in Int
  BY <1>1, <1>2
<1>4. hard \in Seq(Int) /\ Len(hard) = 5
  BY <1>3
<1>5. one \in Seq(Int) /\ Len(one) = 1
  OBVIOUS
<1>6. Pushed = (IF vector \in WithCode THEN one ELSE <<>>) \o hard
  BY Zenon DEF Pushed
<1> HIDE DEF hard, one
<1>7. Len(one \o hard) = Len(one) + Len(hard)
  BY <1>4, <1>5, Joined, Zenon
<1>8. <<>> \o hard = hard
  BY <1>4, ConcatEmptySeq
<1> QED BY <1>4, <1>5, <1>6, <1>7, <1>8

(* At the start.                                                           *)
LEMMA InitInv == Init => Inv
<1> SUFFICES ASSUME Init
             PROVE  Inv
  OBVIOUS
<1>1. PICK fp : Stack(fp)
  BY InitStack
<1>2. /\ pc = "program" /\ vector = 0 /\ code = 0 /\ frame = <<>> /\ called = 0
      /\ lines = 0 /\ reads = {}
  BY DEF Init
<1>3. FrameInv
  BY <1>2, Vectors DEF FrameInv, CodesOf
<1>4. Len(Callers) \in Nat
  BY <1>1, CallersFacts
<1>5. Walk(fp)
  BY <1>2, <1>4 DEF Walk, BacktraceIsCallChain, ReadsNearStack
<1> QED BY <1>1, <1>3, <1>5 DEF Inv

(* While nothing was printed there is nothing to say of it.                *)
Silent == lines = 0 /\ reads = {} /\ pc \in {"program", "stub", "handler"}

(* Then a stack of frames is all the walk needs.                           *)
LEMMA NothingPrinted == \A fp : Stack(fp) /\ Silent => Walk(fp)
<1> SUFFICES ASSUME NEW fp, Stack(fp), Silent
             PROVE  Walk(fp)
  OBVIOUS
<1>1. Len(Callers) \in Nat
  BY CallersFacts
<1> QED BY <1>1 DEF Silent, Walk, BacktraceIsCallChain, ReadsNearStack

(* The same of the next state.                                             *)
LEMMA NothingPrintedNext == (\A fp : Stack(fp) /\ Silent => Walk(fp))'
  BY NothingPrinted, PTL

(* The steps up to the handler.                                            *)
LEMMA StepsBefore ==
    ASSUME NEW fp, Stack(fp), Walk(fp), FrameInv,
           \/ \E f \in DOMAIN Locals : Call(f)
           \/ Return
           \/ \E v \in DOMAIN IDT_Table : Raise(v)
           \/ Stub
    PROVE  Inv'
<1>1. rip \in Int /\ rsp \in Int /\ rbp \in Int
  BY StackFacts
<1>2. ASSUME NEW fq, Stack(fq)', lines' = 0, reads' = {}, FrameInv',
             pc' \in {"program", "stub", "handler"}
      PROVE  Inv'
  <2>1. Walk(fq)'
    <3>1. Silent'
      BY <1>2 DEF Silent
    <3> QED BY <3>1, <1>2, NothingPrintedNext
  <2> QED BY <2>1, <1>2 DEF Inv
<1>3. CASE \E f \in DOMAIN Locals : Call(f)
  <2>1. PICK f \in DOMAIN Locals : Call(f)
    BY <1>3
  <2>2. PICK fq : Stack(fq)'
    BY <2>1, CallStack
  <2>3. /\ pc = "program" /\ pc' = pc /\ vector' = vector /\ code' = code
        /\ frame' = frame /\ called' = called
        /\ lines' = lines /\ reads' = reads
    BY <2>1 DEF Call, trace
  <2>4. FrameInv'
    BY <2>3 DEF FrameInv, CodesOf
  <2> QED BY <2>2, <2>3, <2>4, <1>2 DEF Walk
<1>4. CASE Return
  <2>1. PICK fq : Stack(fq)'
    BY <1>4, ReturnStack
  <2>2. /\ pc = "program" /\ pc' = pc /\ vector' = vector /\ code' = code
        /\ frame' = frame /\ called' = called
        /\ lines' = lines /\ reads' = reads
    BY <1>4 DEF Return, trace
  <2>3. FrameInv'
    BY <2>2 DEF FrameInv, CodesOf
  <2> QED BY <2>1, <2>2, <2>3, <1>2 DEF Walk
<1>5. CASE \E v \in DOMAIN IDT_Table : Raise(v)
  <2>1. PICK v \in DOMAIN IDT_Table : Raise(v)
    BY <1>5
  <2>2. /\ pc = "program" /\ pc' = "stub" /\ vector' = v /\ code' \in CodesOf(v)
        /\ program' = program /\ called' = called
        /\ lines' = lines /\ reads' = reads
    BY <2>1 DEF Raise, trace
  <2>3. /\ Stack(fp)'
        /\ Held("rip")' = Held("rip") /\ Held("cs")' = Held("cs")
        /\ Held("rflags")' = Held("rflags") /\ Held("rsp")' = Held("rsp")
        /\ Held("ss")' = Held("ss")
    <3>1. /\ pt_regs[20] = "rip" /\ pt_regs[21] = "cs" /\ pt_regs[22] = "rflags"
          /\ pt_regs[23] = "rsp" /\ pt_regs[24] = "ss"
      BY DEF pt_regs
    <3> QED BY <3>1, <2>2, ProgramStays
  <2>4. frame' = Pushed'
    <3>1. frame' = (IF vector' \in WithCode THEN <<code'>> ELSE <<>>)
                   \o <<Held("rip"), Held("cs"), Held("rflags"), Held("rsp"),
                        Held("ss")>>
      BY <2>1, <2>2, Zenon DEF Raise
    <3>2. Pushed' = (IF vector' \in WithCode THEN <<code'>> ELSE <<>>)
                    \o <<Held("rip")', Held("cs")', Held("rflags")',
                         Held("rsp")', Held("ss")'>>
      BY Zenon DEF Pushed
    <3> QED BY <3>1, <3>2, <2>3, Zenon
  <2>5. called = 0
    BY <2>2 DEF FrameInv
  <2>6. FrameInv'
    BY <2>2, <2>4, <2>5 DEF FrameInv, CodesOf
  <2> QED BY <2>2, <2>3, <2>6, <1>2 DEF Walk
<1>6. CASE Stub
  <2>1. code \in Int
    BY CodeFacts DEF FrameInv
  <2>2. /\ Len(frame') = 24
        /\ \A i \in Registers : frame'[i] = Held(pt_regs[i])
        /\ called' = Do(IDT_Table[vector])
    BY <1>1, <1>6, <2>1, StubFrame
  <2>3. /\ pc = "stub" /\ pc' = "handler" /\ vector' = vector /\ code' = code
        /\ program' = program
        /\ lines' = lines /\ reads' = reads
    BY <1>6 DEF Stub, trace
  <2>4. Stack(fp)' /\ \A i \in 1 .. 24 : Held(pt_regs[i])' = Held(pt_regs[i])
    BY <2>3, ProgramStays
  <2>5. Registers \subseteq 1 .. 24
    BY DEF Registers
  <2>6. \A i \in Registers : frame'[i] = Held(pt_regs[i])'
    BY <2>2, <2>4, <2>5
  <2>7. FrameInv'
    BY <2>2, <2>3, <2>6 DEF FrameInv, CodesOf
  <2> QED BY <2>3, <2>4, <2>7, <1>2 DEF Walk
<1> QED BY <1>3, <1>4, <1>5, <1>6

(* What the walk needs of a step in which the program does not run.        *)
LEMMA WalkNext ==
    ASSUME NEW fp, Stack(fp), program' = program,
           pc' \in {"backtrace", "halted"}, lines' \in 0 .. 10,
           pc' = "backtrace" => At(fp)',
           lines' \in 1 .. Len(Callers) => line'.found[1] = Callers[lines'],
           lines' > Len(Callers) => level = "boot",
           pc' = "halted" /\ vector' = 0 =>
               lines' >= (IF Len(Callers) < 10 THEN Len(Callers) ELSE 10),
           reads' \subseteq rsp .. (IF level = "boot" THEN Top + 1 ELSE Top - 1)
    PROVE  Walk(fp)'
<1>1. Callers' = Callers /\ Top' = Top /\ level' = level /\ rsp' = rsp
  BY ProgramStays DEF program
<1>2. BacktraceIsCallChain'
  BY <1>1 DEF BacktraceIsCallChain
<1>3. ReadsNearStack'
  BY <1>1 DEF ReadsNearStack
<1>4. /\ lines' \in 0 .. 10
      /\ pc' \in {"program", "stub", "handler"} => lines' = 0 /\ reads' = {}
      /\ pc' = "backtrace" => At(fp)'
  OBVIOUS
<1> QED BY <1>2, <1>3, <1>4, Zenon DEF Walk

(* The handler of a division starts the walk at the division.              *)
LEMMA HandlerStep ==
    ASSUME NEW fp, Stack(fp), Walk(fp), FrameInv, Handler
    PROVE  Inv'
<1>1. /\ pc = "handler" /\ program' = program /\ vector' = vector
      /\ code' = code /\ frame' = frame /\ called' = called
      /\ lines' = lines /\ reads' = reads /\ line' = line
      /\ pc' = (IF called - 2000 = 0 THEN "backtrace" ELSE "halted")
      /\ called - 2000 = 0 => /\ ret_address' = Word(frame, "rip")
                             /\ bp' = Word(frame, "rbp")
  BY DEF Handler, trace
<1>2. /\ vector \in DOMAIN IDT_Table /\ called = Do(IDT_Table[vector])
      /\ \A i \in Registers : frame[i] = Held(pt_regs[i])
  BY <1>1 DEF FrameInv
<1>3. called = 2000 + vector /\ vector \in Nat
  BY <1>2, Vectors
<1>4. called - 2000 = 0 <=> vector = 0
  BY <1>3
<1>5. lines = 0 /\ reads = {} /\ BacktraceIsCallChain
  BY <1>1 DEF Walk
<1>6. /\ rip \in Nat /\ rsp \in Int /\ rbp \in Int
      /\ Len(chain) \in Nat /\ 1 <= Len(chain) /\ fp[Len(chain)] = rbp
  BY StackFacts DEF Stack
<1>7. /\ Stack(fp)' /\ \A i : Place(i)' = Place(i)
      /\ \A i \in 1 .. 24 : Held(pt_regs[i])' = Held(pt_regs[i])
  BY <1>1, ProgramStays
<1>8. FrameInv'
  <2>1. Registers \subseteq 1 .. 24
    BY DEF Registers
  <2> QED BY <2>1, <1>1, <1>7 DEF FrameInv, CodesOf
<1>9. Word(frame, "rip") = rip /\ Word(frame, "rbp") = rbp
  <2>1. Word(frame, "rip") = frame[20] /\ Word(frame, "rbp") = frame[14]
    BY Offsets DEF Word
  <2>2. 20 \in Registers /\ 14 \in Registers
    BY DEF Registers
  <2>3. pt_regs[20] = "rip" /\ pt_regs[14] = "rbp"
    BY DEF pt_regs
  <2>4. Held("rip") = rip /\ Held("rbp") = rbp
    BY <1>6, HeldFacts
  <2> QED BY <2>1, <2>2, <2>3, <2>4, <1>2
<1>10. ASSUME pc' = "backtrace"
       PROVE  At(fp)'
  <2>1. vector = 0 /\ ret_address' = rip /\ bp' = rbp
    BY <1>1, <1>4, <1>9, <1>10
  <2>2. level' = level /\ chain' = chain
    BY <1>1 DEF program
  <2>3. rip' = rip
    BY <1>1, ProgramStays
  <2>4. bp' = fp[Len(chain) - 0] /\ lines' = 0
    BY <2>1, <1>1, <1>5, <1>6
  <2> QED BY <2>1, <2>2, <2>3, <2>4, <1>1, <1>6 DEF At, Place
<1>11. Len(Callers) \in Nat
  BY CallersFacts
<1>12. Walk(fp)'
  <2>1. ~(pc' = "halted" /\ vector' = 0)
    BY <1>1, <1>4
  <2>2. ~(lines' > Len(Callers)) /\ lines' \notin 1 .. Len(Callers)
    BY <1>1, <1>5, <1>11
  <2>3. pc' \in {"backtrace", "halted"} /\ lines' \in 0 .. 10 /\ reads' = {}
    BY <1>1, <1>5
  <2> QED BY <2>1, <2>2, <2>3, <1>1, <1>10, WalkNext
<1> QED BY <1>7, <1>8, <1>12 DEF Inv

(* A word of memory is a number.                                           *)
LEMMA ContentsFacts ==
    ASSUME NEW fp, Stack(fp)
    PROVE  /\ \A a \in DOMAIN mem : Contents(a) = {mem[a]}
           /\ \A a : Contents(a) \subseteq Int
<1>1. \A a \in DOMAIN mem : mem[a] \in Int
  BY DEF Stack
<1>2. Junk \subseteq Int
  <2>1. Junk \subseteq Nat
    BY TrapAssumption, Zenon
  <2> QED BY <2>1
<1>3. ASSUME NEW a
      PROVE  /\ a \in DOMAIN mem => Contents(a) = {mem[a]}
             /\ Contents(a) \subseteq Int
  BY <1>1, <1>2 DEF Contents
<1> QED BY <1>3

(* What the loop shows has a name unless it is the game's first function.  *)
LEMMA ShownFacts ==
    ASSUME NEW fp, Stack(fp), At(fp), lines \in Nat
    PROVE  /\ lines < Len(Callers) =>
                 /\ ret_address = Callers[lines + 1]
                 /\ lookup_kallsyms(ret_address) # <<>>
           /\ level = "user" /\ lines >= Len(Callers) =>
                 lookup_kallsyms(ret_address) = <<>>
           /\ level = "thread" => lines < Len(Callers)
<1> DEFINE n == Len(chain)
<1>1. n \in Nat /\ 1 <= n /\ rip = Here(chain[n])
      /\ level \in {"boot", "thread", "user"}
      /\ \A k \in 1 .. n : chain[k] \in Func
  BY StackFacts DEF Stack, Base
<1>2. ASSUME lines < n
      PROVE  /\ n - lines \in 1 .. n
             /\ \/ ret_address = Site(chain[n - lines])
                \/ ret_address = Here(chain[n - lines])
  <2>1. ret_address = Place(lines + 1)
    BY <1>2 DEF At
  <2>2. n - (lines + 1) + 1 = n - lines /\ n - lines \in 1 .. n
    BY <1>1, <1>2
  <2>3. lines = 0 => ret_address = Here(chain[n - lines])
    BY <2>1, <1>1 DEF Place
  <2>4. lines # 0 => ret_address = Site(chain[n - lines])
    BY <2>1, <2>2 DEF Place
  <2> QED BY <2>2, <2>3, <2>4
<1>3. ASSUME lines < n, chain[n - lines] # "user_level_function"
      PROVE  lookup_kallsyms(ret_address) # <<>>
  <2>1. chain[n - lines] \in Func \ {"user_level_function"}
    BY <1>1, <1>2, <1>3
  <2> QED BY <2>1, <1>2, <1>3, Lookup
<1>4. ASSUME n - lines \in 2 .. n
      PROVE  chain[n - lines] # "user_level_function"
  BY <1>4, NamesAssumption DEF Stack
<1>5. ASSUME lines < n
      PROVE  n - lines = 1 \/ n - lines \in 2 .. n
  BY <1>1, <1>5
<1>6. /\ level = "user" => chain[1] = "user_level_function"
      /\ level # "user" => chain[1] # "user_level_function"
  BY <1>1 DEF Stack, Base
<1>7. /\ level = "user" => Len(Callers) = n - 1
      /\ level = "thread" => Len(Callers) = n + 1
      /\ level = "boot" => Len(Callers) = n
      /\ \A i \in 1 .. Len(Callers) :
            Callers[i] = IF i = n + 1 THEN Site("kernel_thread_func") ELSE Place(i)
  BY CallersFacts
<1>8. ASSUME lines < Len(Callers), lines < n
      PROVE  ret_address = Callers[lines + 1]
  <2>1. ret_address = Place(lines + 1)
    BY <1>8 DEF At
  <2>2. lines + 1 \in 1 .. Len(Callers) /\ lines + 1 # n + 1
    BY <1>1, <1>7, <1>8
  <2> QED BY <2>1, <2>2, <1>7
<1>9. CASE level = "user"
  <2>1. lines < n
    BY <1>9 DEF At
  <2>2. ASSUME lines < Len(Callers)
        PROVE  lookup_kallsyms(ret_address) # <<>>
    <3>1. n - lines \in 2 .. n
      BY <2>2, <1>1, <1>7, <1>9
    <3> QED BY <3>1, <2>1, <1>3, <1>4
  <2>3. ASSUME lines >= Len(Callers)
        PROVE  lookup_kallsyms(ret_address) = <<>>
    <3>1. n - lines = 1
      BY <2>1, <2>3, <1>1, <1>7, <1>9
    <3>2. ret_address \in {Site("user_level_function"), Here("user_level_function")}
      BY <3>1, <2>1, <1>2, <1>6, <1>9
    <3> QED BY <3>2, Lookup
  <2> QED BY <2>1, <2>2, <2>3, <1>8, <1>9
<1>10. CASE level = "thread"
  <2>1. lines <= n /\ lines < Len(Callers)
    BY <1>1, <1>7, <1>10 DEF At
  <2>2. CASE lines < n
    BY <2>1, <2>2, <1>3, <1>4, <1>5, <1>6, <1>8, <1>10
  <2>3. CASE lines = n
    <3>1. ret_address = Site("kernel_thread_func")
      BY <2>3, <1>10 DEF At
    <3>2. lines + 1 \in 1 .. Len(Callers) /\ lines + 1 = n + 1
      BY <2>1, <2>3, <1>1
    <3>3. Callers[lines + 1] = Site("kernel_thread_func")
      BY <3>2, <1>7
    <3> QED BY <3>1, <3>3, <2>1, <1>10, Lookup
  <2> QED BY <2>1, <2>2, <2>3, <1>1
<1>11. CASE level = "boot"
  BY <1>3, <1>4, <1>5, <1>6, <1>7, <1>8, <1>11
<1> QED BY <1>1, <1>9, <1>10, <1>11

(* Where the walk goes from a frame that is on the stack.                  *)
LEMMA FollowFacts ==
    ASSUME NEW fp, Stack(fp), At(fp), lines \in Nat, Follow,
           rsp <= bp, bp <= StackTop,
           level = "user" => lines + 1 < Len(chain)
    PROVE  /\ ret_address' \in Int /\ bp' \in Int
           /\ reads' \subseteq rsp .. (IF level = "boot" THEN Top + 1 ELSE Top - 1)
           /\ level = "thread" => lines + 1 <= Len(chain)
           /\ lines + 1 < Len(chain) =>
                 /\ ret_address' = Place(lines + 2)
                 /\ bp' = fp[Len(chain) - (lines + 1)]
           /\ level = "thread" /\ lines + 1 = Len(chain) =>
                 ret_address' = Site("kernel_thread_func") /\ bp' = 0
<1> DEFINE n == Len(chain)
<1>1. n \in Nat /\ 1 <= n /\ rsp \in Int /\ Top \in Int
      /\ level \in {"boot", "thread", "user"}
  BY StackFacts, Tops DEF Stack, Base
<1>2. /\ ret_address' \in Contents(bp + 1) /\ bp' \in Contents(bp)
      /\ reads' = {bp, bp + 1}
      /\ bp \in Int
  BY DEF Follow, At
<1>3. /\ ret_address' \in Int /\ bp' \in Int
      /\ bp \in DOMAIN mem => bp' = mem[bp]
      /\ bp + 1 \in DOMAIN mem => ret_address' = mem[bp + 1]
  BY <1>2, ContentsFacts
<1>4. DOMAIN mem \subseteq rsp .. Top - 1
  BY DEF Stack
<1>5. level = "thread" => lines < n
  <2> SUFFICES ASSUME level = "thread"
               PROVE  lines < n
    OBVIOUS
  <2>1. lines <= n /\ 0 < rsp
    BY DEF At, Stack, Base
  <2>2. lines = n => bp = 0
    BY DEF At
  <2> QED BY <2>1, <2>2, <1>1, <1>2
<1>6. CASE n - lines \in 2 .. n
  <2>1. PICK k \in 2 .. n : k = n - lines
    BY <1>6
  <2>2. /\ bp = fp[k] /\ n - (lines + 1) = k - 1
        /\ lines + 1 < n /\ lines < n
    BY <2>1, <1>1 DEF At
  <2>3. /\ fp[k] \in DOMAIN mem /\ fp[k] + 1 \in DOMAIN mem
        /\ mem[fp[k]] = fp[k - 1]
        /\ mem[fp[k] + 1] = Site(chain[k - 1])
    <3>1. k \in 1 .. n
      BY <2>1, <1>1
    <3>2. fp[k] \in DOMAIN mem
      BY <3>1 DEF Stack
    <3> QED BY <3>2, <2>1 DEF Stack
  <2>4. bp' = fp[k - 1] /\ ret_address' = Site(chain[k - 1])
    BY <2>2, <2>3, <1>3
  <2>5. Place(lines + 2) = Site(chain[k - 1])
    <3>1. n - (lines + 2) + 1 = k - 1 /\ lines + 2 # 1
      BY <2>1, <1>1
    <3> QED BY <3>1 DEF Place
  <2>6. reads' \subseteq rsp .. Top - 1
    BY <2>2, <2>3, <1>2, <1>4
  <2>7. rsp .. Top - 1 \subseteq rsp .. Top + 1
    BY <1>1
  <2>8. lines + 1 <= n /\ lines + 1 # n
    BY <2>2, <1>1
  <2> QED BY <2>2, <2>4, <2>5, <2>6, <2>7, <2>8, <1>3
<1>7. CASE n - lines = 1
  <2>1. lines < n /\ lines + 1 = n /\ bp = fp[1] /\ level # "user"
    BY <1>1, <1>7 DEF At
  <2>2. ASSUME level = "thread"
        PROVE  /\ ret_address' = Site("kernel_thread_func") /\ bp' = 0
               /\ reads' \subseteq rsp .. Top - 1
    <3>1. 1 \in 1 .. n
      BY <1>1
    <3>2. /\ fp[1] \in DOMAIN mem /\ fp[1] + 1 \in DOMAIN mem
          /\ mem[fp[1]] = 0 /\ mem[fp[1] + 1] = Site("kernel_thread_func")
      BY <2>2, <3>1 DEF Stack, Base
    <3> QED BY <3>2, <2>1, <1>2, <1>3, <1>4
  <2>3. ASSUME level = "boot"
        PROVE  reads' \subseteq rsp .. Top + 1
    <3>1. Top = StackTop /\ StackTop = BootTop
      BY <2>3 DEF Top, StackTop
    <3> QED BY <3>1, <1>1, <1>2
  <2> QED BY <2>1, <2>2, <2>3, <1>1, <1>3
<1>8. CASE n <= lines
  <2>1. level = "boot"
    BY <1>1, <1>5, <1>8
  <2>2. Top = StackTop /\ StackTop = BootTop
    BY <2>1 DEF Top, StackTop
  <2>3. reads' \subseteq rsp .. Top + 1
    BY <2>2, <1>1, <1>2
  <2>4. ~(lines + 1 < n)
    BY <1>1, <1>8
  <2> QED BY <2>1, <2>3, <2>4, <1>3
<1>9. n - lines \in 2 .. n \/ n - lines = 1 \/ n <= lines
  BY <1>1
<1> QED BY <1>6, <1>7, <1>8, <1>9

(* A round of the loop.                                                    *)
LEMMA BacktraceStep ==
    ASSUME NEW fp, Stack(fp), Walk(fp), FrameInv, Backtrace
    PROVE  Inv'
<1> DEFINE n == Len(chain)
           c == Len(Callers)
           found == lookup_kallsyms(ret_address)
<1>1. /\ pc = "backtrace" /\ program' = program /\ vector' = vector
      /\ code' = code /\ frame' = frame /\ called' = called
  BY DEF Backtrace
<1>2. At(fp) /\ lines \in 0 .. 9 /\ BacktraceIsCallChain /\ ReadsNearStack
  BY <1>1 DEF Walk, At
<1>3. /\ n \in Nat /\ 1 <= n /\ rip \in Nat /\ rsp \in Int /\ rbp \in Int
      /\ \A k \in 1 .. n : fp[k] \in Int /\ rsp <= fp[k] /\ fp[k] < StackTop
      /\ StackTop \in Int /\ Top \in Int
      /\ level \in {"boot", "thread", "user"}
  <2>1. level \in {"boot", "thread", "user"}
    BY DEF Stack, Base
  <2>2. StackTop \in Int /\ Top \in Int
    BY Tops
  <2> QED BY <2>1, <2>2, StackFacts
<1>4. /\ level = "user" => c = n - 1
      /\ level = "thread" => c = n + 1
      /\ level = "boot" => c = n
      /\ c \in Nat
  BY CallersFacts
<1>5. /\ lines < c => ret_address = Callers[lines + 1] /\ found # <<>>
      /\ level = "user" /\ lines >= c => found = <<>>
      /\ level = "thread" => lines < c
  BY <1>2, ShownFacts
<1>6. FrameInv'
  <2>1. \A i \in 1 .. 24 : Held(pt_regs[i])' = Held(pt_regs[i])
    BY <1>1, ProgramStays
  <2>2. Registers \subseteq 1 .. 24
    BY DEF Registers
  <2>3. pc' \in {"halted", "backtrace"}
    BY DEF Backtrace
  <2> QED BY <2>1, <2>2, <2>3, <1>1 DEF FrameInv, CodesOf
<1>7. Word(frame, "rsp") = rsp
  <2>1. 23 \in Registers /\ pt_regs[23] = "rsp"
    BY DEF Registers, pt_regs
  <2>2. frame[23] = Held(pt_regs[23])
    BY <2>1, <1>1 DEF FrameInv
  <2>3. Held("rsp") = rsp
    BY <1>3, HeldFacts
  <2> QED BY <2>1, <2>2, <2>3, Offsets DEF Word
<1>8. vector = 0
  BY <1>2 DEF At
<1>9. CASE found = <<>>
  <2>1. pc' = "halted" /\ lines' = lines /\ line' = line /\ reads' = reads
    BY <1>9 DEF Backtrace, trace
  <2>2. lines >= c
    BY <1>4, <1>2, <1>5, <1>9
  <2>3. lines \in 1 .. c => line.found[1] = Callers[lines]
    BY <1>2 DEF BacktraceIsCallChain
  <2>4. lines > c => level = "boot"
    BY <1>2 DEF BacktraceIsCallChain
  <2>5. reads \subseteq rsp .. (IF level = "boot" THEN Top + 1 ELSE Top - 1)
    BY <1>2 DEF ReadsNearStack
  <2>6. lines >= (IF c < 10 THEN c ELSE 10)
    BY <2>2, <1>2, <1>4
  <2>7. lines \in 0 .. 10 /\ pc' # "backtrace"
    BY <2>1, <1>2
  <2>8. Walk(fp)'
    BY <2>1, <2>3, <2>4, <2>5, <2>6, <2>7, <1>1, WalkNext
  <2> QED BY <2>8, <1>1, <1>6, ProgramStays DEF Inv
<1>10. CASE found # <<>>
  <2>1. /\ lines' = lines + 1 /\ line'.found = found
        /\ IF OffStack(bp)
             THEN pc' = "halted" /\ UNCHANGED <<ret_address, bp, reads>>
             ELSE /\ pc' = IF lines' = 10 THEN "halted" ELSE "backtrace"
                  /\ Follow
    BY <1>10 DEF Backtrace
  <2>2. lines' \in 1 .. 10 /\ lines' > lines
    BY <2>1, <1>2
  <2>3. lines' \in 1 .. c => line'.found[1] = Callers[lines']
    <3> SUFFICES ASSUME lines' \in 1 .. c
                 PROVE  line'.found[1] = Callers[lines']
      OBVIOUS
    <3>1. lines < c
      BY <2>1, <1>2, <1>4
    <3>2. found[1] = ret_address
      BY <1>10, Lookup
    <3> QED BY <3>1, <3>2, <2>1, <1>5
  <2>4. level = "user" => lines < c
    BY <1>10, <1>2, <1>4, <1>5
  <2>5. lines' > c => level = "boot"
    BY <2>1, <2>4, <1>2, <1>3, <1>4, <1>5
  <2>6. level = "user" => lines + 1 < n
    BY <2>4, <1>2, <1>3, <1>4
  <2>7. CASE OffStack(bp)
    <3>1. pc' = "halted" /\ reads' = reads
      BY <2>1, <2>7
    <3>2. lines >= n
      <4>1. bp < rsp \/ bp > StackTop
        BY <2>7, <1>7 DEF OffStack
      <4>2. ASSUME lines < n
            PROVE  FALSE
        <5>1. n - lines \in 1 .. n
          BY <4>2, <1>2, <1>3
        <5>2. bp = fp[n - lines]
          BY <4>2, <1>2 DEF At
        <5> QED BY <5>1, <5>2, <4>1, <1>3
      <4> QED BY <4>2, <1>2, <1>3
    <3>3. lines' >= (IF c < 10 THEN c ELSE 10)
      BY <3>2, <2>1, <1>2, <1>3, <1>4
    <3>4. reads \subseteq rsp .. (IF level = "boot" THEN Top + 1 ELSE Top - 1)
      BY <1>2 DEF ReadsNearStack
    <3>5. lines' \in 0 .. 10
      BY <2>2
    <3>6. Walk(fp)'
      BY <3>1, <3>3, <3>4, <3>5, <2>3, <2>5, <1>1, WalkNext
    <3> QED BY <3>6, <1>1, <1>6, ProgramStays DEF Inv
  <2>8. CASE ~OffStack(bp)
    <3>1. Follow /\ pc' = IF lines' = 10 THEN "halted" ELSE "backtrace"
      BY <2>1, <2>8
    <3>2. rsp <= bp /\ bp <= StackTop
      <4>1. bp \in Int /\ ~(bp < rsp) /\ ~(bp > StackTop)
        BY <2>8, <1>2, <1>7 DEF OffStack, At
      <4> QED BY <4>1, <1>3
    <3>3. /\ ret_address' \in Int /\ bp' \in Int
          /\ reads' \subseteq rsp .. (IF level = "boot" THEN Top + 1 ELSE Top - 1)
          /\ level = "thread" => lines + 1 <= n
          /\ lines + 1 < n =>
                /\ ret_address' = Place(lines + 2)
                /\ bp' = fp[n - (lines + 1)]
          /\ level = "thread" /\ lines + 1 = n =>
                ret_address' = Site("kernel_thread_func") /\ bp' = 0
      BY <3>1, <3>2, <2>6, <1>2, FollowFacts
    <3>4. ASSUME pc' = "backtrace"
          PROVE  At(fp)'
      <4>1. lines' # 10 /\ lines' < 10
        BY <3>1, <3>4, <2>2
      <4>2. level' = level /\ chain' = chain /\ rip' = rip
        BY <1>1, ProgramStays DEF program
      <4> QED BY <4>1, <4>2, <3>3, <2>1, <2>6, <1>1, <1>2, <1>3, <1>8 DEF At, Place
    <3>5. pc' = "halted" => lines' >= (IF c < 10 THEN c ELSE 10)
      BY <3>1, <1>4
    <3>6. lines' \in 0 .. 10
      BY <2>2
    <3>7. Walk(fp)'
      BY <3>1, <3>3, <3>4, <3>5, <3>6, <2>3, <2>5, <1>1, WalkNext
    <3> QED BY <3>7, <1>1, <1>6, ProgramStays DEF Inv
  <2> QED BY <2>7, <2>8
<1> QED BY <1>9, <1>10

(* Every step keeps the invariant.                                         *)
LEMMA NextInv == Inv /\ [Next]_vars => Inv'
<1> SUFFICES ASSUME Inv, [Next]_vars
             PROVE  Inv'
  OBVIOUS
<1>1. FrameInv
  BY DEF Inv
<1>2. PICK fp : Stack(fp) /\ Walk(fp)
  BY DEF Inv
<1>3. CASE \/ \E f \in DOMAIN Locals : Call(f)
           \/ Return
           \/ \E v \in DOMAIN IDT_Table : Raise(v)
           \/ Stub
  BY <1>1, <1>2, <1>3, StepsBefore
<1>4. CASE Handler
  BY <1>1, <1>2, <1>4, HandlerStep
<1>5. CASE Backtrace
  BY <1>1, <1>2, <1>5, BacktraceStep
<1>6. CASE UNCHANGED vars
  <2>1. /\ program' = program /\ pc' = pc /\ vector' = vector /\ code' = code
        /\ frame' = frame /\ called' = called
        /\ ret_address' = ret_address /\ bp' = bp /\ lines' = lines
        /\ line' = line /\ reads' = reads
        /\ chain' = chain /\ level' = level /\ rsp' = rsp
    BY <1>6 DEF vars, trace, program
  <2>2. /\ Stack(fp)' /\ rip' = rip /\ Top' = Top /\ Callers' = Callers
        /\ \A i \in 1 .. 24 : Held(pt_regs[i])' = Held(pt_regs[i])
    BY <1>2, <2>1, ProgramStays
  <2>3. FrameInv'
    <3>1. Pushed' = Pushed
      <4>1. /\ pt_regs[20] = "rip" /\ pt_regs[21] = "cs"
            /\ pt_regs[22] = "rflags" /\ pt_regs[23] = "rsp"
            /\ pt_regs[24] = "ss"
        BY DEF pt_regs
      <4>2. /\ Held("rip")' = Held("rip") /\ Held("cs")' = Held("cs")
            /\ Held("rflags")' = Held("rflags") /\ Held("rsp")' = Held("rsp")
            /\ Held("ss")' = Held("ss")
        BY <4>1, <2>2
      <4>3. Pushed' = (IF vector' \in WithCode THEN <<code'>> ELSE <<>>)
                      \o <<Held("rip")', Held("cs")', Held("rflags")',
                           Held("rsp")', Held("ss")'>>
        BY Zenon DEF Pushed
      <4>4. Pushed = (IF vector \in WithCode THEN <<code>> ELSE <<>>)
                     \o <<Held("rip"), Held("cs"), Held("rflags"), Held("rsp"),
                          Held("ss")>>
        BY Zenon DEF Pushed
      <4> QED BY <4>2, <4>3, <4>4, <2>1, Zenon
    <3>2. Registers \subseteq 1 .. 24
      BY DEF Registers
    <3> QED BY <3>1, <3>2, <1>1, <2>1, <2>2 DEF FrameInv, CodesOf
  <2>4. At(fp)' <=> At(fp)
    BY <2>1, <2>2 DEF At, Place
  <2>5. BacktraceIsCallChain' <=> BacktraceIsCallChain
    BY <2>1, <2>2 DEF BacktraceIsCallChain
  <2>6. ReadsNearStack' <=> ReadsNearStack
    BY <2>1, <2>2 DEF ReadsNearStack
  <2>7. Walk(fp)'
    BY <1>2, <2>1, <2>4, <2>5, <2>6, Zenon DEF Walk
  <2> QED BY <2>2, <2>3, <2>7 DEF Inv
<1> QED BY <1>3, <1>4, <1>5, <1>6 DEF Next

(* The invariant of the specification.                                     *)
LEMMA SpecInv == Spec => []Inv
  BY InitInv, NextInv, PTL DEF Spec

-----------------------------------------------------------------------------
(* What is printed. *)

(* What the do_ function of vector v makes of code c, of rsp and of rip.   *)
ReportOf(v, c, sp, ip) ==
    [vector |-> v,
     code  |-> vsprintf(HexFormat, <<c>>),
     rsp   |-> IF v = 0 THEN <<>> ELSE vsprintf(HexFormat, <<sp>>),
     rip   |-> IF v = 0 THEN <<>> ELSE vsprintf(HexFormat, <<ip>>),
     about |-> CASE v \in 10 .. 13 -> AboutSelector(c)
                 [] v = 14 -> AboutPage(c)
                 [] OTHER -> {},
     index |-> IF v \in 10 .. 13
               THEN vsprintf(IndexFormat, <<(c % 65536) - (c % 8)>>)
               ELSE <<>>]

Told == ReportOf(vector, code, rsp, rip)

(* What a round of backtrace() prints of an address.                       *)
Shown(at) ==
    LET found == lookup_kallsyms(at)
    IN  [found |-> found,
         address |-> vsprintf(HexFormat, <<found[1]>>),
         offset |-> vsprintf(OffsetFormat, <<found[2]>>)]

(* The stub hands over the code that the processor raised; the report is   *)
(* that of the vector, the code and the program; each line is that of an   *)
(* address that has a name.                                                *)
PrintInv ==
    /\ 0 <= rsp
    /\ pc \in {"program", "stub", "handler"} => report = <<>> /\ lines = 0
    /\ pc = "handler" => error_code = code
    /\ report # <<>> => report = Told
    /\ lines > 0 => \E at \in Int : lookup_kallsyms(at) # <<>> /\ line = Shown(at)

(* At the start nothing is printed.                                        *)
LEMMA InitPrint == Init => PrintInv
<1> SUFFICES ASSUME Init
             PROVE  PrintInv
  OBVIOUS
<1>1. rsp = UserTop - 1 \/ rsp = BootTop - 1 \/ rsp = ThreadTop - 2
  BY DEF Init
<1>2. 0 <= rsp
  <2>1. /\ UserText < UserTop /\ UserTop < BootTop /\ UserTop + 1 < ThreadTop
        /\ UserText \in Nat /\ UserTop \in Nat
        /\ BootTop \in Nat /\ ThreadTop \in Nat
    BY TrapAssumption, NamesAssumption
  <2> QED BY <2>1, <1>1
<1> QED BY <1>2 DEF Init, PrintInv

(* What is said of the program stays while it does not run.                *)
LEMMA ToldStays ==
    ASSUME NEW fp, Stack(fp), program' = program, vector' = vector, code' = code
    PROVE  Told' = Told /\ rsp' = rsp
<1>1. rip' = rip /\ rsp' = rsp
  BY ProgramStays DEF program
<1> QED BY <1>1, Zenon DEF Told

(* Every step keeps it.                                                    *)
LEMMA NextPrint == Inv /\ PrintInv /\ [Next]_vars => PrintInv'
<1> SUFFICES ASSUME Inv, PrintInv, [Next]_vars
             PROVE  PrintInv'
  OBVIOUS
<1>1. FrameInv
  BY DEF Inv
<1>2. PICK fp : Stack(fp) /\ Walk(fp)
  BY DEF Inv
<1>3. rsp \in Int /\ rbp \in Int /\ rip \in Int /\ rsp <= rbp
  <2>1. rsp <= rbp
    BY <1>2 DEF Stack
  <2> QED BY <2>1, <1>2, StackFacts
<1>4. ASSUME NEW f \in DOMAIN Locals, Call(f)
      PROVE  PrintInv'
  <2>1. Locals[f] \in Nat
    BY TrapAssumption
  <2>2. 0 <= rsp'
    BY <2>1, <1>3, <1>4 DEF Call
  <2>3. /\ pc = "program" /\ pc' = pc /\ report' = report /\ lines' = lines
    BY <1>4 DEF Call, trace
  <2> QED BY <2>2, <2>3 DEF PrintInv
<1>5. CASE Return
  <2>1. 0 <= rsp'
    BY <1>3, <1>5 DEF Return, PrintInv
  <2>2. pc = "program" /\ pc' = pc /\ report' = report /\ lines' = lines
    BY <1>5 DEF Return, trace
  <2> QED BY <2>1, <2>2 DEF PrintInv
<1>6. ASSUME NEW v \in DOMAIN IDT_Table, Raise(v)
      PROVE  PrintInv'
  <2>1. /\ pc = "program" /\ pc' = "stub" /\ rsp' = rsp
        /\ report' = report /\ lines' = lines
    BY <1>6 DEF Raise, trace, program
  <2> QED BY <2>1 DEF PrintInv
<1>7. CASE Stub
  <2>1. code \in Int
    BY <1>1, CodeFacts DEF FrameInv
  <2>2. error_code' = code
    BY <2>1, <1>1, <1>3, <1>7, StubFrame
  <2>3. /\ pc = "stub" /\ pc' = "handler" /\ rsp' = rsp /\ code' = code
        /\ report' = report /\ lines' = lines
    BY <1>7 DEF Stub, trace, program
  <2> QED BY <2>2, <2>3 DEF PrintInv
<1>8. CASE Handler
  <2>1. /\ pc = "handler" /\ pc' \in {"backtrace", "halted"}
        /\ program' = program /\ vector' = vector /\ code' = code
        /\ lines' = lines
    BY <1>8 DEF Handler, trace
  <2>2. error_code = code /\ lines = 0 /\ 0 <= rsp
    BY <2>1 DEF PrintInv
  <2>3. called - 2000 = vector
    BY <2>1, <1>1, Vectors DEF FrameInv
  <2>4. Word(frame, "rsp") = rsp /\ Word(frame, "rip") = rip
    <3>1. Word(frame, "rip") = frame[20] /\ Word(frame, "rsp") = frame[23]
      BY Offsets DEF Word
    <3>2. 20 \in Registers /\ 23 \in Registers
      BY DEF Registers
    <3>3. pt_regs[20] = "rip" /\ pt_regs[23] = "rsp"
      BY DEF pt_regs
    <3>4. Held("rip") = rip /\ Held("rsp") = rsp
      BY <1>3, HeldFacts
    <3> QED BY <3>1, <3>2, <3>3, <3>4, <2>1, <1>1 DEF FrameInv
  <2>5. report' = ReportOf(called - 2000, error_code, Word(frame, "rsp"),
                           Word(frame, "rip"))
    BY <1>8 DEF Handler, ReportOf
  <2>6. Told' = Told /\ rsp' = rsp
    BY <2>1, <1>2, ToldStays
  <2>7. report' = Told
    BY <2>2, <2>3, <2>4, <2>5 DEF Told
  <2> QED BY <2>1, <2>2, <2>6, <2>7 DEF PrintInv
<1>9. CASE Backtrace
  <2>1. /\ pc = "backtrace" /\ pc' \in {"backtrace", "halted"}
        /\ program' = program /\ vector' = vector /\ code' = code
        /\ report' = report
    BY <1>9 DEF Backtrace
  <2>2. Told' = Told /\ rsp' = rsp
    BY <2>1, <1>2, ToldStays
  <2>3. ret_address \in Int
    BY <2>1, <1>2 DEF Walk, At
  <2>4. CASE lookup_kallsyms(ret_address) = <<>>
    <3>1. lines' = lines /\ line' = line
      BY <1>9, <2>4 DEF Backtrace, trace
    <3> QED BY <3>1, <2>1, <2>2 DEF PrintInv
  <2>5. CASE lookup_kallsyms(ret_address) # <<>>
    <3>1. line' = Shown(ret_address)
      BY <1>9, <2>5, Zenon DEF Backtrace, Shown
    <3> QED BY <3>1, <2>1, <2>2, <2>3, <2>5 DEF PrintInv
  <2> QED BY <2>4, <2>5
<1>10. CASE UNCHANGED vars
  <2>1. /\ program' = program /\ pc' = pc /\ vector' = vector /\ code' = code
        /\ error_code' = error_code /\ report' = report /\ lines' = lines
        /\ line' = line
    BY <1>10 DEF vars, trace
  <2>2. Told' = Told /\ rsp' = rsp
    BY <2>1, <1>2, ToldStays
  <2> QED BY <2>1, <2>2 DEF PrintInv
<1> QED BY <1>4, <1>5, <1>6, <1>7, <1>8, <1>9, <1>10 DEF Next

(* It is an invariant of the specification.                                *)
LEMMA SpecPrint == Spec => [](Inv /\ PrintInv)
<1>1. Init => Inv /\ PrintInv
  BY InitInv, InitPrint
<1>2. (Inv /\ PrintInv) /\ [Next]_vars => (Inv /\ PrintInv)'
  BY NextInv, NextPrint
<1> QED BY <1>1, <1>2, PTL DEF Spec

-----------------------------------------------------------------------------
(* The theorems. *)

(* The stack of the interrupted program stays a stack of frames within its *)
(* bounds, pt_regs is complete when the do_ function runs, and the stub    *)
(* called a do_ function.                                                  *)
THEOREM TypeCorrect == Spec => []TypeOK
<1>1. Inv => TypeOK
  <2> SUFFICES ASSUME Inv
               PROVE  TypeOK
    OBVIOUS
  <2>1. PICK fp : Stack(fp) /\ Walk(fp)
    BY DEF Inv
  <2>2. FrameInv
    BY DEF Inv
  <2>3. /\ level \in {"boot", "thread", "user"}
        /\ Len(chain) \in 1 .. MaxDepth /\ rsp <= rbp
        /\ DOMAIN mem \subseteq rsp .. Top - 1
        /\ \A i \in 1 .. Len(chain) : fp[i] \in DOMAIN mem
        /\ fp[Len(chain)] = rbp
    BY <2>1 DEF Stack, Base
  <2>4. Len(chain) \in 1 .. Len(chain) /\ rsp \in Int /\ rbp \in Int
        /\ rip \in Int
    BY <2>1, StackFacts
  <2>5. rbp < Top /\ {rbp} \subseteq DOMAIN mem
    BY <2>1, <2>3, <2>4, StackFacts
  <2>6. /\ pc \in {"program", "stub", "handler", "backtrace", "halted"}
        /\ vector \in DOMAIN IDT_Table /\ code \in CodesOf(vector)
    BY <2>2 DEF FrameInv
  <2>7. code \in Int
    BY <2>6, CodeFacts
  <2>8. Len(Pushed) \in {5, 6}
    BY <2>4, <2>7, PushedFacts
  <2>9. Len(frame) \in {0, 5, 6, Len(pt_regs)}
    <3>1. Len(pt_regs) = 24
      BY Fields
    <3>2. pc = "program" => Len(frame) = 0
      BY <2>2 DEF FrameInv
    <3>3. pc = "stub" => Len(frame) \in {5, 6}
      BY <2>2, <2>8 DEF FrameInv
    <3>4. pc \in {"handler", "backtrace", "halted"} => Len(frame) = 24
      BY <2>2 DEF FrameInv
    <3> QED BY <3>1, <3>2, <3>3, <3>4, <2>6
  <2>10. lines \in 0 .. 10
    BY <2>1 DEF Walk
  <2>11. called \in {0} \cup {Do(IDT_Table[v]) : v \in DOMAIN IDT_Table}
    <3>1. called = 0 \/ called = Do(IDT_Table[vector])
      BY <2>2, <2>6, Zenon DEF FrameInv
    <3> QED BY <3>1, <2>6, Zenon
  <2> QED BY <2>3, <2>5, <2>6, <2>9, <2>10, <2>11, Zenon DEF TypeOK
<1> QED BY <1>1, SpecInv, PTL

(* The lines backtrace() prints after a division by zero are the calls     *)
(* that lead to it, in their order and without a gap.                      *)
THEOREM BacktraceIsCallChainCorrect == Spec => []BacktraceIsCallChain
<1>1. Inv => BacktraceIsCallChain
  BY DEF Inv, Walk
<1> QED BY <1>1, SpecInv, PTL

(* Whatever memory holds above the stack, the loop of backtrace() reads    *)
(* only the stack of the program, and two words more at boot.              *)
THEOREM ReadsNearStackCorrect == Spec => []ReadsNearStack
<1>1. Inv => ReadsNearStack
  BY DEF Inv, Walk
<1> QED BY <1>1, SpecInv, PTL

(* From the do_ function on, pt_regs holds every register of the program,  *)
(* and the function is the one of the vector, whichever of the stubs ran.  *)
RegistersSaved ==
    pc \in {"handler", "backtrace", "halted"} =>
        /\ \A i \in Registers : Word(frame, pt_regs[i]) = Held(pt_regs[i])
        /\ called = Do(IDT_Table[vector])

(* The stubs of entry.S save what the program held.                        *)
THEOREM RegistersSavedCorrect == Spec => []RegistersSaved
<1>1. Inv => RegistersSaved
  <2> SUFFICES ASSUME Inv, pc \in {"handler", "backtrace", "halted"}
               PROVE  /\ \A i \in Registers :
                             Word(frame, pt_regs[i]) = Held(pt_regs[i])
                      /\ called = Do(IDT_Table[vector])
    BY DEF RegistersSaved
  <2>1. /\ \A i \in Registers : frame[i] = Held(pt_regs[i])
        /\ called = Do(IDT_Table[vector])
    BY DEF Inv, FrameInv
  <2>2. \A i \in Registers : OffsetOf(pt_regs[i]) = i
    BY Fields DEF Registers
  <2> QED BY <2>1, <2>2 DEF Word
<1> QED BY <1>1, SpecInv, PTL
(* The three low bits of a number, and what is above them.                 *)
LEMMA LowBits ==
    ASSUME NEW c \in Nat
    PROVE  /\ c - (c % 8) \in Nat /\ c - (c % 8) <= c
           /\ c % 8 = (IF Bit(c, 1) THEN 1 ELSE 0) + (IF Bit(c, 2) THEN 2 ELSE 0)
                      + (IF Bit(c, 4) THEN 4 ELSE 0)
<1> DEFINE one == c % 2
           two == (c \div 2) % 2
           four == (c \div 4) % 2
<1>1. /\ one \in {0, 1} /\ two \in {0, 1} /\ four \in {0, 1}
      /\ c % 8 = one + 2 * two + 4 * four
      /\ c - (c % 8) \in Nat /\ c - (c % 8) <= c
      /\ (c \div 1) % 2 = one
  OBVIOUS
<1>2. Bit(c, 1) <=> one = 1
  BY <1>1 DEF Bit
<1>3. (Bit(c, 2) <=> two = 1) /\ (Bit(c, 4) <=> four = 1)
  BY DEF Bit
<1> HIDE DEF one, two, four
<1> QED BY <1>1, <1>2, <1>3

(* What is said of a page fault tells its bits.                            *)
LEMMA PageTold ==
    ASSUME NEW c \in 0 .. 31
    PROVE  c = (IF "not present" \in AboutPage(c) THEN 0 ELSE 1)
               + (IF "write" \in AboutPage(c) THEN 2 ELSE 0)
               + (IF "user" \in AboutPage(c) THEN 4 ELSE 0)
               + (IF "reserved bit" \in AboutPage(c) THEN 8 ELSE 0)
               + (IF "instruction fetch" \in AboutPage(c) THEN 16 ELSE 0)
<1>1. /\ "not present" \in AboutPage(c) <=> ~Bit(c, 1)
      /\ "write" \in AboutPage(c) <=> Bit(c, 2)
      /\ "user" \in AboutPage(c) <=> Bit(c, 4)
      /\ "reserved bit" \in AboutPage(c) <=> Bit(c, 8)
      /\ "instruction fetch" \in AboutPage(c) <=> Bit(c, 16)
  BY DEF AboutPage
<1>2. c = (c % 8) + (IF Bit(c, 8) THEN 8 ELSE 0) + (IF Bit(c, 16) THEN 16 ELSE 0)
  BY DEF Bit
<1> DEFINE one == IF "not present" \in AboutPage(c) THEN 0 ELSE 1
           two == IF "write" \in AboutPage(c) THEN 2 ELSE 0
           four == IF "user" \in AboutPage(c) THEN 4 ELSE 0
           eight == IF "reserved bit" \in AboutPage(c) THEN 8 ELSE 0
           high == IF "instruction fetch" \in AboutPage(c) THEN 16 ELSE 0
<1>3. /\ one = IF Bit(c, 1) THEN 1 ELSE 0
      /\ two = IF Bit(c, 2) THEN 2 ELSE 0
      /\ four = IF Bit(c, 4) THEN 4 ELSE 0
      /\ eight = IF Bit(c, 8) THEN 8 ELSE 0
      /\ high = IF Bit(c, 16) THEN 16 ELSE 0
  BY <1>1, Zenon
<1> HIDE DEF one, two, four, eight, high, Bit
<1>4. c = (c % 8) + eight + high /\ c % 8 = one + two + four
  <2>1. c \in Nat
    OBVIOUS
  <2> QED BY <2>1, <1>2, <1>3, LowBits
<1>5. /\ one \in Nat /\ two \in Nat /\ four \in Nat /\ eight \in Nat
      /\ high \in Nat
  BY <1>3
<1>6. c = one + two + four + eight + high
  BY <1>4, <1>5
<1> QED BY <1>6 DEF one, two, four, eight, high

(* What is said of a fault with a selector tells the three low bits.       *)
LEMMA SelectorTold ==
    ASSUME NEW c \in ErrorCodes
    PROVE  c % 8 = (IF "external" \in AboutSelector(c) THEN 1 ELSE 0)
                   + (IF "IDT" \in AboutSelector(c) THEN 2 ELSE 0)
                   + (IF "LDT" \in AboutSelector(c) THEN 4 ELSE 0)
<1>1. c \in Nat /\ c % 8 # 6 /\ c % 8 # 7
  BY TrapAssumption, CodesAssumption
<1>2. ~(Bit(c, 2) /\ Bit(c, 4))
  BY <1>1, LowBits
<1>3. /\ "external" \in AboutSelector(c) <=> Bit(c, 1)
      /\ "IDT" \in AboutSelector(c) <=> Bit(c, 2)
      /\ "LDT" \in AboutSelector(c) <=> Bit(c, 4)
  BY <1>2 DEF AboutSelector
<1> QED BY <1>1, <1>3, LowBits

(* The limits are numbers, in their order.                                 *)
LEMMA Words == Word16 \in Nat /\ Word64 \in Nat /\ Word16 <= Word64
<1> DEFINE two == 65536 * 65536
           three == 65536 * two
<1>1. two \in Nat \ {0}
  OBVIOUS
<1> HIDE DEF two
<1>2. three \in Nat \ {0}
  BY <1>1
<1> HIDE DEF three
<1>3. 65536 * three \in Nat /\ 65536 <= 65536 * three
  BY <1>2
<1>4. Word64 = 65536 * three
  BY DEF Word64, three, two
<1> QED BY <1>3, <1>4 DEF Word16

(* Stacks and symbols have addresses of 64 bits.  TLC's numbers have 32,   *)
(* which is why this is no assumption of Trap.tla.                         *)
AddressesAreWords ==
    /\ BootTop < Word64 /\ ThreadTop < Word64
    /\ \A i \in DOMAIN NmOutput : NmOutput[i].address < Word64

(* So has then the place where the program is, on its stack and in its     *)
(* text.                                                                   *)
LEMMA BelowTop ==
    ASSUME AddressesAreWords, NEW fp, Stack(fp), 0 <= rsp
    PROVE  rsp \in Nat /\ rsp < Word64 /\ rip \in Nat /\ rip < Word64
<1> DEFINE f == chain[Len(chain)]
<1>1. /\ f \in Func /\ rip = Here(f) /\ rip \in Nat /\ rsp \in Int
      /\ rsp <= fp[Len(chain)] /\ fp[Len(chain)] < StackTop
      /\ fp[Len(chain)] \in Int
  BY StackFacts
<1>2. StackTop \in Nat /\ StackTop < Word64 /\ Word64 \in Nat
  BY Tops, Words DEF AddressesAreWords, StackTop
<1>3. CASE f = "user_level_function"
  <2>1. rip = UserText + 3
    BY <1>1, <1>3 DEF Here, Start
  <2>2. /\ UserText < UserTop /\ UserTop + 1 < ThreadTop
        /\ UserText \in Nat /\ UserTop \in Nat /\ ThreadTop \in Nat
    BY TrapAssumption, NamesAssumption
  <2>3. ThreadTop < Word64
    BY DEF AddressesAreWords
  <2>4. UserText + 3 < Word64
    <3> HIDE DEF Word64
    <3> QED BY <1>2, <2>2, <2>3
  <2> QED BY <1>1, <1>2, <2>1, <2>4
<1>4. CASE f # "user_level_function"
  <2>1. lookup_kallsyms(rip) # <<>>
    BY <1>1, <1>4, Lookup
  <2>2. rip < Address("_etext")
    BY <2>1, <1>1, LookupNearest DEF NearestSymbol
  <2>3. PICK i \in DOMAIN NmOutput : Address("_etext") = NmOutput[i].address
    BY AddressFacts
  <2>4. NmOutput[i].address < Word64 /\ Address("_etext") \in Nat
    BY AddressFacts DEF AddressesAreWords
  <2> QED BY <1>1, <1>2, <2>2, <2>3, <2>4
<1> QED BY <1>3, <1>4

(* What an exception prints is true, when addresses are words of 64 bits:  *)
(* the numbers can be read back, whichever of the stubs ran and whatever   *)
(* the code is, and the bits of the code follow from what is said of it.   *)
THEOREM ReportFaithfulCorrect ==
    ASSUME AddressesAreWords
    PROVE  Spec => []ReportFaithful
<1>1. Inv /\ PrintInv => ReportFaithful
  <2> SUFFICES ASSUME Inv, PrintInv, report # <<>>
               PROVE  ReportFaithful
    BY DEF ReportFaithful
  <2>1. PICK fp : Stack(fp) /\ Walk(fp)
    BY DEF Inv
  <2>2. FrameInv /\ pc \in {"backtrace", "halted"}
    BY DEF Inv, FrameInv, PrintInv
  <2>3. /\ vector \in DOMAIN IDT_Table /\ code \in CodesOf(vector)
        /\ \A i \in Registers : frame[i] = Held(pt_regs[i])
    BY <2>2 DEF FrameInv
  <2>4. report = ReportOf(vector, code, rsp, rip)
    BY DEF PrintInv, Told
  <2>5. /\ report.vector = vector
        /\ report.code = vsprintf(HexFormat, <<code>>)
        /\ vector # 0 => /\ report.rsp = vsprintf(HexFormat, <<rsp>>)
                         /\ report.rip = vsprintf(HexFormat, <<rip>>)
        /\ vector \in 10 .. 13 =>
              /\ report.about = AboutSelector(code)
              /\ report.index = vsprintf(IndexFormat,
                                         <<(code % 65536) - (code % 8)>>)
        /\ vector = 14 => report.about = AboutPage(code)
    BY <2>4 DEF ReportOf
  <2> HIDE DEF ReportOf
  <2>6. \A r \in {pt_regs[i] : i \in DOMAIN pt_regs} \ {"func", "errcode"} :
            Word(frame, r) = Held(r)
    <3> SUFFICES ASSUME NEW i \in DOMAIN pt_regs,
                        pt_regs[i] \notin {"func", "errcode"}
                 PROVE  Word(frame, pt_regs[i]) = Held(pt_regs[i])
      OBVIOUS
    <3>1. i \in 1 .. 24 /\ OffsetOf(pt_regs[i]) = i
      BY Fields
    <3>2. pt_regs[18] = "func" /\ pt_regs[19] = "errcode"
      BY DEF pt_regs
    <3>3. i \in Registers
      BY <3>1, <3>2 DEF Registers
    <3> QED BY <3>1, <3>3, <2>3 DEF Word
  <2>7. code \in Nat /\ code < Word16
    <3>1. \A c \in ErrorCodes : c \in Nat /\ c < Word16
      BY TrapAssumption, CodesAssumption DEF Word16
    <3>2. \A c \in 0 .. 31 : c \in Nat /\ c < Word16
      BY DEF Word16
    <3>3. \/ code \in ErrorCodes \/ code \in 0 .. 31 \/ code = 0
      BY <2>3 DEF CodesOf
    <3>4. 0 \in 0 .. 31
      OBVIOUS
    <3> QED BY <3>1, <3>2, <3>3, <3>4
  <2>9. Len(report.code) = 18 /\ Hex(report.code) = code
    <3>1. code < Word64
      BY <2>7, Words
    <3>2. /\ Len(vsprintf(HexFormat, <<code>>)) = 18
          /\ Hex(vsprintf(HexFormat, <<code>>)) = code
      BY <3>1, <2>7, HexText
    <3>3. report.code = vsprintf(HexFormat, <<code>>)
      BY <2>5
    <3> QED BY <3>2, <3>3
  <2>10. vector # 0 => /\ Len(report.rsp) = 18 /\ Hex(report.rsp) = rsp
                      /\ Len(report.rip) = 18 /\ Hex(report.rip) = rip
    <3>1. rsp \in Nat /\ rsp < Word64 /\ rip \in Nat /\ rip < Word64
      BY <2>1, BelowTop DEF PrintInv
    <3>2. /\ Len(vsprintf(HexFormat, <<rsp>>)) = 18
          /\ Hex(vsprintf(HexFormat, <<rsp>>)) = rsp
          /\ Len(vsprintf(HexFormat, <<rip>>)) = 18
          /\ Hex(vsprintf(HexFormat, <<rip>>)) = rip
      BY <3>1, HexText
    <3> QED BY <3>2, <2>5
  <2>11. ASSUME vector \in 10 .. 13
         PROVE  /\ Len(report.index) = 10
                /\ code = Hex(report.index)
                          + (IF "external" \in report.about THEN 1 ELSE 0)
                          + (IF "IDT" \in report.about THEN 2 ELSE 0)
                          + (IF "LDT" \in report.about THEN 4 ELSE 0)
    <3> DEFINE n == code - (code % 8)
    <3>1. code \in ErrorCodes
      BY <2>3, <2>11 DEF CodesOf
    <3>2. n \in Nat /\ n <= code /\ code % 8 \in Nat /\ code = n + (code % 8)
      BY <2>7, LowBits
    <3>3. code % 65536 = code
      BY <2>7 DEF Word16
    <3>4. report.index = vsprintf(IndexFormat, <<n>>)
      BY <3>3, <2>5, <2>11
    <3> HIDE DEF n
    <3>5. n < Word16
      <4>1. Word16 \in Nat
        BY Words
      <4> QED BY <4>1, <3>2, <2>7
    <3>6. Len(report.index) = 10 /\ Hex(report.index) = n
      BY <3>2, <3>4, <3>5, IndexText
    <3>8. report.about = AboutSelector(code)
      BY <2>5, <2>11
    <3>7. code % 8 = (IF "external" \in report.about THEN 1 ELSE 0)
                     + (IF "IDT" \in report.about THEN 2 ELSE 0)
                     + (IF "LDT" \in report.about THEN 4 ELSE 0)
      BY <3>1, <3>8, SelectorTold, Zenon
    <3> DEFINE e == IF "external" \in report.about THEN 1 ELSE 0
               i == IF "IDT" \in report.about THEN 2 ELSE 0
               l == IF "LDT" \in report.about THEN 4 ELSE 0
    <3>9. e \in Int /\ i \in Int /\ l \in Int
      OBVIOUS
    <3>10. code % 8 = e + i + l
      BY <3>7, Zenon
    <3> HIDE DEF e, i, l
    <3>11. code = Hex(report.index) + e + i + l
      BY <3>2, <3>6, <3>9, <3>10
    <3> QED BY <3>6, <3>11, Zenon DEF e, i, l
  <2>12. ASSUME vector = 14
         PROVE  code = (IF "not present" \in report.about THEN 0 ELSE 1)
                       + (IF "write" \in report.about THEN 2 ELSE 0)
                       + (IF "user" \in report.about THEN 4 ELSE 0)
                       + (IF "reserved bit" \in report.about THEN 8 ELSE 0)
                       + (IF "instruction fetch" \in report.about THEN 16 ELSE 0)
    <3>1. code \in 0 .. 31
      BY <2>3, <2>12 DEF CodesOf
    <3>2. report.about = AboutPage(code)
      BY <2>5, <2>12
    <3> QED BY <3>1, <3>2, PageTold, Zenon
  <2>13. report.vector = vector
    BY <2>5
  <2> QED BY <2>6, <2>9, <2>10, <2>11, <2>12, <2>13 DEF ReportFaithful
<1> QED BY <1>1, SpecPrint, PTL

(* Each line of a backtrace names the function: when addresses are words   *)
(* of 64 bits and no two neighbours among the symbols of the text are more *)
(* than 10000 bytes apart, which is what four digits have room for.        *)
THEOREM NamesRightCorrect ==
    ASSUME AddressesAreWords,
           \A k \in 1 .. Len(Written) - 1 :
              Written[k + 1].address - Written[k].address <= FourDigits
    PROVE  Spec => []NamesRight
<1>1. Inv /\ PrintInv => NamesRight
  <2> SUFFICES ASSUME PrintInv, lines > 0
               PROVE  NamesRight
    BY DEF NamesRight
  <2>1. PICK at \in Int : lookup_kallsyms(at) # <<>> /\ line = Shown(at)
    BY DEF PrintInv
  <2> DEFINE found == lookup_kallsyms(at)
  <2>2. /\ line.found = found
        /\ line.address = vsprintf(HexFormat, <<found[1]>>)
        /\ line.offset = vsprintf(OffsetFormat, <<found[2]>>)
    BY <2>1 DEF Shown
  <2>3. NearestSymbol(found, at)
    BY <2>1, LookupNearest
  <2>4. PICK k \in 1 .. Len(Written) - 1 :
           /\ found[2] = at - Written[k].address
           /\ Written[k].address <= at /\ at < Written[k + 1].address
    BY <2>1, LookupNearest
  <2> HIDE DEF found
  <2>5. Len(line.address) = 18 /\ Hex(line.address) = at
    <3>1. PICK i \in DOMAIN NmOutput : Address("_etext") = NmOutput[i].address
      BY AddressFacts
    <3>2. NmOutput[i].address < Word64
      BY DEF AddressesAreWords
    <3>3. /\ Address("_text") \in Nat /\ Address("_etext") \in Nat
          /\ Word64 \in Nat
      BY AddressFacts, Words
    <3>4. Address("_text") <= at /\ at < Address("_etext") /\ found[1] = at
      BY <2>3 DEF NearestSymbol
    <3>5. at \in Nat /\ at < Word64
      BY <3>1, <3>2, <3>3, <3>4
    <3> QED BY <3>4, <3>5, <2>2, HexText
  <2>6. Len(line.offset) = 4
    <3>1. /\ Len(Written) \in Nat
          /\ \A i \in 1 .. Len(Written) : Written[i].address \in Nat
      BY WrittenEntries, LineFields DEF Entries
    <3>2. k \in 1 .. Len(Written) /\ k + 1 \in 1 .. Len(Written)
      BY <3>1
    <3>3. Written[k].address \in Nat /\ Written[k + 1].address \in Nat
      BY <3>1, <3>2
    <3>4. Written[k + 1].address - Written[k].address <= FourDigits
          /\ FourDigits \in Nat
      <4>1. FourDigits \in Nat
        BY DEF FourDigits
      <4> QED BY <4>1
    <3>5. found[2] \in Nat /\ found[2] < FourDigits
      BY <3>3, <3>4, <2>4
    <3> QED BY <3>5, <2>2, OffsetText
  <2>7. line.found[1] = at
    BY <2>2, <2>3 DEF NearestSymbol
  <2> QED BY <2>2, <2>3, <2>5, <2>6, <2>7, Zenon DEF NamesRight, NearestSymbol
<1> QED BY <1>1, SpecPrint, PTL
=============================================================================
