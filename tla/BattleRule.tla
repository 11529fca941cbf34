----------------------------- MODULE BattleRule -----------------------------
(***************************************************************************)
(* The rule that decides a battle, without the loop that plays it.  It is  *)
(* what Battle.tla is checked and proved against, and what KillTheMonster  *)
(* uses for a call of battle().                                            *)
(***************************************************************************)
EXTENDS Integers

(* Some blow of the player brings the monster down, and the blows of the   *)
(* monster before it did not bring down the player.                        *)
PlayerWins(p, m) ==
    \E n \in 1 .. m.hp : /\ n * (p.atk - m.def) >= m.hp
                         /\ (n - 1) * (m.atk - p.def) < p.hp
=============================================================================
