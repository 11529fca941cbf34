----------------------------- MODULE KeyChannel -----------------------------
(***************************************************************************)
(* What the keyboard of the console promises to the games: a mailbox that  *)
(* holds at most one key.  Keys are numbered in the order of the typing,   *)
(* so a key is its own time stamp.  A key may be refused, may replace the  *)
(* one that waits, and may be lost while it waits; a read empties the      *)
(* mailbox and yields what was in it, NoKey when there was nothing.        *)
(*                                                                         *)
(* Keyboard.tla implements this specification with three global variables  *)
(* that an interrupt handler and a polling loop share without a lock.      *)
(***************************************************************************)
EXTENDS Naturals, Sequences

CONSTANT MaxKeys    \* how many keys are typed at most

VARIABLES
    sent,           \* number of keys typed so far: the last one is key `sent'
    box,            \* the key that waits in the mailbox, or NoKey
    out             \* what the reads returned, oldest first

vars == <<sent, box, out>>

NoKey == 0
Key   == 1 .. MaxKeys

Init ==
    /\ sent = 0
    /\ box = NoKey
    /\ out = <<>>

(* A key is typed; the mailbox takes it, or refuses it. *)
Type ==
    /\ sent < MaxKeys
    /\ sent' = sent + 1
    /\ box' \in {box, sent + 1}
    /\ out' = out

(* A read hands the key over and leaves the mailbox empty. *)
Read ==
    /\ out' = Append(out, box)
    /\ box' = NoKey
    /\ sent' = sent

(* The key that waits is dropped. *)
Lose ==
    /\ box # NoKey
    /\ box' = NoKey
    /\ UNCHANGED <<sent, out>>

Next == Type \/ Read \/ Lose

Spec == Init /\ [][Next]_vars
=============================================================================
