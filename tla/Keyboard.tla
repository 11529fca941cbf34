------------------------------ MODULE Keyboard ------------------------------
(***************************************************************************)
(* The keyboard mailbox: the interrupt handler do_IRQ (8259A.c) on one     *)
(* side, the polling loops of game.c and kill_the_monster.c with getkey()  *)
(* on the other.  They share game_select_start, currentword and select_on  *)
(* (keyword.h), plain globals without a lock or a disabled interrupt.      *)
(*                                                                         *)
(* There is one processor.  do_IRQ is entered through an interrupt gate,   *)
(* which clears IF, so the handler is one atomic action (KeyIRQ).  The     *)
(* loops run with interrupts enabled, so each of their accesses to a       *)
(* shared variable is an action of its own and KeyIRQ may fall between     *)
(* any two of them.                                                        *)
(*                                                                         *)
(* A scan code is abstracted to the number of its keystroke: the code only *)
(* copies it and the games only compare it.  A scan code is never 0, so 0  *)
(* stands for the 0 that getkey() stores, as in the program.               *)
(***************************************************************************)
EXTENDS Naturals, Sequences

CONSTANT MaxKeys    \* bound: how many interrupts the keyboard raises

ASSUME MaxKeysAssumption == MaxKeys \in Nat

VARIABLES
    game_select_start,  \* 1 while a loop wants a key
    currentword,        \* the scan code the handler stored
    select_on,          \* 1 when a scan code was stored
    pc,                 \* the next access of the game
    screen,             \* the screen whose loop polls, or is drawn next
    scan_code,          \* what getkey() returned last
    typed,              \* history: keystrokes so far
    accepted,           \* history: the keystrokes do_IRQ stored, in order
    returned,           \* history: what getkey() took out of currentword
    visit,              \* history: how many screens came before this one
    typedIn             \* history: the visit in which a key was typed

shared == <<game_select_start, currentword, select_on>>
vars   == <<game_select_start, currentword, select_on, pc, screen, scan_code,
            typed, accepted, returned, visit, typedIn>>

(* The keys lead from screen to screen.                                    *)
Flow == INSTANCE Screens

NoKey == 0
Key   == 1 .. MaxKeys
Label == {"open", "test", "getkey", "clear", "read", "zero", "switch", "busy"}

(* select_on and game_select_start are flags and currentword holds a typed *)
(* key or 0.                                                               *)
TypeOK ==
    /\ game_select_start \in {0, 1}
    /\ currentword \in Key \cup {NoKey}
    /\ select_on \in {0, 1}
    /\ pc \in Label
    /\ screen \in Flow!Screen
    /\ scan_code \in Key \cup {NoKey}
    /\ typed \in 0 .. MaxKeys
    /\ accepted \in Seq(Key)
    /\ returned \in Seq(Key \cup {NoKey})
    /\ visit \in Nat
    /\ typedIn \in [Key -> Nat]

(* Before the first loop: print() and clear_screen() run, no key is taken. *)
Init ==
    /\ game_select_start = 0
    /\ currentword = NoKey
    /\ select_on = 0
    /\ pc = "busy"
    /\ Flow!Init
    /\ scan_code = NoKey
    /\ typed = 0
    /\ accepted = <<>>
    /\ returned = <<>>
    /\ visit = 0
    /\ typedIn = [k \in Key |-> 0]

-----------------------------------------------------------------------------
(* The interrupt side. *)

KeyIRQ_CountsKeys ==    \* as if select_on counted the keys that wait
    /\ typed < MaxKeys
    /\ typed' = typed + 1
    /\ IF game_select_start = 1
         THEN /\ currentword' = typed + 1
              /\ select_on' = select_on + 1
              /\ accepted' = Append(accepted, typed + 1)
              /\ game_select_start' = 0
         ELSE UNCHANGED <<shared, accepted>>
    /\ typedIn' = [typedIn EXCEPT ![typed + 1] = visit]
    /\ UNCHANGED <<pc, screen, scan_code, returned, visit>>

(* do_IRQ: the scan code is kept only if a loop asked for one.             *)
KeyIRQ ==
    /\ typed < MaxKeys
    /\ typed' = typed + 1
    /\ IF game_select_start = 1
         THEN /\ game_select_start' = 0
              /\ currentword' = typed + 1
              /\ select_on' = 1
              /\ accepted' = Append(accepted, typed + 1)
         ELSE UNCHANGED <<shared, accepted>>
    /\ typedIn' = [typedIn EXCEPT ![typed + 1] = visit]
    /\ UNCHANGED <<pc, screen, scan_code, returned, visit>>

-----------------------------------------------------------------------------
(* The game side: one pass of a polling loop. *)

history == <<typed, accepted, returned, visit, typedIn>>

(* game_select_start = 1; the boss loop calls getkey() without a test.     *)
OpenMailbox ==
    /\ pc = "open"
    /\ game_select_start' = 1
    /\ pc' = IF screen = "boss" THEN "getkey" ELSE "test"
    /\ UNCHANGED <<currentword, select_on, screen, scan_code, history>>

(* if (select_on != 0) ... else goto the label before the loop.            *)
TestSelectOn ==
    /\ pc = "test"
    /\ pc' = IF select_on # 0 THEN "getkey" ELSE "open"
    /\ UNCHANGED <<shared, screen, scan_code, history>>

EnterGetkey_Stale ==    \* as if the register held the last key
    /\ pc = "getkey"
    /\ pc' = IF select_on # 0 THEN "clear" ELSE "switch"
    /\ UNCHANGED <<shared, screen, scan_code, history>>

(* getkey(): if (select_on).  Without it no value is returned; in the      *)
(* build of the Makefile (no -O) the register still holds the 0 just       *)
(* tested.                                                                 *)
EnterGetkey ==
    /\ pc = "getkey"
    /\ IF select_on # 0
         THEN pc' = "clear" /\ UNCHANGED scan_code
         ELSE pc' = "switch" /\ scan_code' = NoKey
    /\ UNCHANGED <<shared, screen, history>>

ClearSelectOn_Early ==  \* as if currentword were reset with select_on
    /\ pc = "clear"
    /\ select_on' = 0
    /\ currentword' = NoKey
    /\ pc' = "read"
    /\ UNCHANGED <<game_select_start, screen, scan_code, history>>

ClearSelectOn_Dropped ==    \* as if select_on were never reset
    /\ pc = "clear"
    /\ pc' = "read"
    /\ UNCHANGED <<shared, screen, scan_code, history>>

(* select_on = 0;                                                          *)
ClearSelectOn ==
    /\ pc = "clear"
    /\ select_on' = 0
    /\ pc' = "read"
    /\ UNCHANGED <<game_select_start, currentword, screen, scan_code, history>>

(* scan_code = (unsigned int)currentword;                                  *)
ReadWord ==
    /\ pc = "read"
    /\ scan_code' = currentword
    /\ returned' = Append(returned, currentword)
    /\ pc' = "zero"
    /\ UNCHANGED <<shared, screen, typed, accepted, visit, typedIn>>

ZeroWord_Dropped ==     \* as if currentword kept the key
    /\ pc = "zero"
    /\ pc' = "switch"
    /\ UNCHANGED <<shared, screen, scan_code, history>>

(* currentword = 0; return scan_code;                                      *)
ZeroWord ==
    /\ pc = "zero"
    /\ currentword' = NoKey
    /\ pc' = "switch"
    /\ UNCHANGED <<game_select_start, select_on, screen, scan_code, history>>

(* A code without a case takes the default branch, back to the loop.       *)
IgnoreKey ==
    /\ pc = "switch"
    /\ pc' = "open"
    /\ UNCHANGED <<shared, screen, scan_code, history>>

(* A code with a case starts the work of that case, a battle or nothing,   *)
(* and draws the next screen.  0 has no case.                              *)
AcceptKey ==
    /\ pc = "switch"
    /\ scan_code # NoKey
    /\ pc' = "busy"
    /\ Flow!Enter
    /\ visit' = visit + 1
    /\ UNCHANGED <<shared, scan_code, typed, accepted, returned, typedIn>>

(* The screen is drawn and its loop starts.                                *)
StartLoop ==
    /\ pc = "busy"
    /\ pc' = "open"
    /\ UNCHANGED <<shared, screen, scan_code, history>>

GameStep ==
    \/ OpenMailbox \/ TestSelectOn \/ EnterGetkey \/ ClearSelectOn
    \/ ReadWord \/ ZeroWord \/ IgnoreKey \/ AcceptKey \/ StartLoop

Next == KeyIRQ \/ GameStep

(* The game is the only process and an interrupt always returns to it, so  *)
(* it takes its next step; nobody has to type.                             *)
Spec == Init /\ [][Next]_vars /\ WF_vars(GameStep)

-----------------------------------------------------------------------------
(* Properties. *)

Pending == currentword # NoKey /\ ~(pc = "zero" /\ currentword = scan_code)

Returned == {returned[i] : i \in DOMAIN returned} \ {NoKey}
Last     == IF accepted = <<>> THEN NoKey ELSE accepted[Len(accepted)]

(* The loops see the keystrokes in the order of the typing and none twice, *)
(* whatever interrupt falls inside getkey(): a later return of getkey()    *)
(* that is a key is a later keystroke (8259A.c do_IRQ, game.c getkey).     *)
InOrderOnce ==
    \A i, j \in DOMAIN returned :
        i < j /\ returned[i] # NoKey /\ returned[j] # NoKey
            => returned[i] < returned[j]

(* getkey() takes something out of the mailbox at most once per keystroke  *)
(* the handler stored: a keystroke stored inside getkey() may later be     *)
(* returned as a 0, but no keystroke makes the game act twice.             *)
NeverOutrun ==
    Len(returned) + select_on <= Len(accepted)

(* The mailbox is never emptied when a screen is left, so a key may act on *)
(* a screen that was not there when it was typed.  It does so on the very  *)
(* next screen at most, and never on a later one.                          *)
OneScreenLate ==
    pc = "switch" /\ scan_code # NoKey => visit <= typedIn[scan_code] + 1

(* A key that waits in the mailbox (and is not the one getkey() has just   *)
(* copied and is about to zero) is returned by getkey(), unless a later    *)
(* keystroke replaces it.  Only a keystroke that lands between the copy    *)
(* and the zeroing in getkey() is lost for good.                           *)
WaitingKeyReturned ==
    \A k \in Key :
        (Pending /\ currentword = k /\ pc # "zero")
            ~> (k \in Returned \/ Last > k)

(* The mailbox is a lossy, ordered mailbox of one key.  Between the copy   *)
(* and the zeroing the key that was copied no longer counts as waiting.    *)
Channel == INSTANCE KeyChannel WITH
    sent <- typed,
    box  <- IF Pending THEN currentword ELSE NoKey,
    out  <- returned

(* The three globals, the handler and the loops implement that mailbox.    *)
ImplementsChannel == Channel!Spec
=============================================================================
