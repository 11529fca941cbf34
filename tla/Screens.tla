------------------------------- MODULE Screens -------------------------------
(***************************************************************************)
(* The order of the screens of the game, as the labels and the gotos of    *)
(* game() and kill_the_monster() make it.  A screen is the piece of code   *)
(* that draws a question and then polls for a key; the key of a case is    *)
(* the only way from one screen to the next.                               *)
(*                                                                         *)
(* KillTheMonster.tla implements this specification, so Keyboard.tla may   *)
(* use it for what the games do with the keys they take.                   *)
(***************************************************************************)

VARIABLE screen

Screen == {"menu", "career", "enemy", "boss"}

(* The screens a key may lead to.  A battle of the rounds ends in the next *)
(* round, in the boss battle or, like the battle with the boss, in the     *)
(* menu.                                                                   *)
Follows(s) ==
    CASE s = "menu"   -> {"career"}
      [] s = "career" -> {"enemy", "menu"}
      [] s = "enemy"  -> {"enemy", "boss", "menu"}
      [] s = "boss"   -> {"menu"}

Init == screen = "menu"

Enter == screen' \in Follows(screen)

Spec == Init /\ [][Enter]_screen
=============================================================================
