------------------------------ MODULE Kallsyms ------------------------------
(***************************************************************************)
(* The symbol table of the kernel: kallsyms.c, which builds it from the    *)
(* output of nm, and lookup_kallsyms() of trap.c, which searches it.       *)
(*                                                                         *)
(* A line of nm is a record: readable, address, symbol, symbol_length (the *)
(* bytes of the name with the zero behind it).                             *)
(***************************************************************************)
EXTENDS Integers, Sequences, SequencesExt

CONSTANT NmOutput       \* the lines, by address

NmLine == [readable : BOOLEAN, address : Nat, symbol : STRING,
           symbol_length : Nat \ {0}]

ASSUME NmAssumption ==
    /\ NmOutput \in Seq(NmLine)
    /\ \A i, j \in DOMAIN NmOutput :
          i < j => NmOutput[i].address <= NmOutput[j].address
    /\ \A name \in {"_text", "_etext"} : \E i \in DOMAIN NmOutput :
          NmOutput[i].symbol = name /\ NmOutput[i].readable

(* read_map(): a line that fscanf() cannot parse is dropped.               *)
table ==
    LET read[n \in 0 .. Len(NmOutput)] ==
            IF n = 0 THEN <<>>
            ELSE IF NmOutput[n].readable THEN Append(read[n - 1], NmOutput[n])
            ELSE read[n - 1]
    IN  read[Len(NmOutput)]

(* _text and _etext: the last symbol of that name counts.                  *)
Address(name) ==
    table[CHOOSE i \in DOMAIN table :
              /\ table[i].symbol = name
              /\ \A j \in DOMAIN table : table[j].symbol = name => j <= i].address

symbol_valid(e) == Address("_text") <= e.address /\ e.address <= Address("_etext")

(* Each of the loops of write_src() passes over the symbols outside of the *)
(* text, and over all but the first of several at one address.             *)
NewAddress(written, e) ==
    e.address # (IF written = <<>> THEN 0 ELSE Last(written).address)

Written ==
    LET written[n \in 0 .. Len(table)] ==
            IF n = 0 THEN <<>>
            ELSE IF symbol_valid(table[n]) /\ NewAddress(written[n - 1], table[n])
            THEN Append(written[n - 1], table[n])
            ELSE written[n - 1]
    IN  written[Len(table)]

(* Where the i-th of the names es starts: behind those before it.          *)
Position(es, i) ==
    LET ends[n \in 0 .. Len(es)] ==
            IF n = 0 THEN 0 ELSE ends[n - 1] + es[n].symbol_length
    IN  ends[i - 1]

kallsyms_syms_num == Len(Written)
kallsyms_index == [i \in DOMAIN Written |-> Position(Written, i)]

(* In memory the word behind the last address is kallsyms_syms_num.        *)
kallsyms_addresses ==
    [i \in 1 .. Len(Written) + 1 |->
        IF i <= Len(Written) THEN Written[i].address ELSE kallsyms_syms_num]

(* The string that starts at position p; inside of a name it is a tail.    *)
NameAt(es, p) ==
    IF \E i \in DOMAIN es : Position(es, i) = p
    THEN es[CHOOSE i \in DOMAIN es : Position(es, i) = p].symbol
    ELSE "tail"

kallsyms_names_All(p) ==    \* as if the last loop forgot the duplicates
    NameAt(SelectSeq(table, symbol_valid), p)

kallsyms_names(p) == NameAt(Written, p)

Matches(address) ==
    {i \in 1 .. kallsyms_syms_num :
        /\ address >= kallsyms_addresses[i]
        /\ address < kallsyms_addresses[i + 1]}

(* What lookup_kallsyms() prints of an address, <<>> when it returns 1.    *)
lookup_kallsyms(address) ==
    IF Matches(address) = {} THEN <<>>
    ELSE LET index == CHOOSE i \in Matches(address) :
                          \A j \in Matches(address) : i <= j
         IN  <<address, address - kallsyms_addresses[index],
               kallsyms_names(kallsyms_index[index])>>
=============================================================================
