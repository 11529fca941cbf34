----------------------------- MODULE PageOwners -----------------------------
(***************************************************************************)
(* What the memory manager promises to its callers: it counts the users of *)
(* every page.  A run of pages is handed out only of usable memory, with   *)
(* none of them the kernel's or in use; whoever gets or shares a page is a *)
(* user more, whoever cleans it one less, and a page without users is one  *)
(* that may be handed out again.  The kernel keeps its pages.              *)
(*                                                                         *)
(* Memory.tla implements this specification with three tables that are     *)
(* searched and kept in step by hand.                                      *)
(***************************************************************************)
EXTENDS Integers

CONSTANTS
    Page,       \* the numbers of the pages
    Kernel,     \* those that hold the kernel
    MaxNumber   \* how many pages are handed out at once at most

VARIABLES
    usable,     \* the pages of the regions one may use
    users       \* how many users a page has

vars == <<usable, users>>

Init ==
    /\ usable \in SUBSET Page
    /\ users = [p \in Page |-> 0]

(* The kernel takes its pages, before anyone else has one.                 *)
Settle ==
    /\ users = [p \in Page |-> 0]
    /\ users' = [p \in Page |-> IF p \in Kernel THEN 1 ELSE 0]
    /\ usable' = usable

(* A run of pages gets its first user.                                     *)
HandOut(number) ==
    \E page \in Page :
        LET run == page .. page + number - 1
        IN  /\ run \subseteq usable \ Kernel
            /\ \A p \in run : users[p] = 0
            /\ users' = [p \in Page |-> IF p \in run THEN 1 ELSE users[p]]
            /\ usable' = usable

(* A page that is in use gets one user more.                               *)
Join(p) ==
    /\ users[p] > 0
    /\ users' = [users EXCEPT ![p] = @ + 1]
    /\ usable' = usable

(* A user leaves a page, perhaps the last one.                             *)
Leave(p) ==
    /\ users[p] > 0
    /\ users' = [users EXCEPT ![p] = @ - 1]
    /\ usable' = usable

Next ==
    \/ Settle
    \/ \E number \in 1 .. MaxNumber : HandOut(number)
    \/ \E p \in Page \ Kernel : Join(p) \/ Leave(p)

Spec == Init /\ [][Next]_vars
=============================================================================
