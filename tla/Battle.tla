------------------------------- MODULE Battle -------------------------------
(***************************************************************************)
(* battle() of kill_the_monster.c: the two fighters strike in turn, the    *)
(* player first, until one has no hit points left.  The program computes   *)
(* with 32-bit ints; MaxStat bounds the abilities so that no value leaves  *)
(* that range (TypeOK), hence plain integers are exact here.               *)
(***************************************************************************)
EXTENDS BattleRule

CONSTANT MaxStat    \* largest value of an ability

ASSUME MaxStatAssumption == MaxStat \in Nat /\ MaxStat <= 2147483647

VARIABLES
    player, monster,    \* the two copies battle() gets
    i, j,               \* hit points left: of the monster, of the player
    pc,                 \* next step of battle()
    result              \* 1: the player wins; 0: the monster; -1: not set

vars == <<player, monster, i, j, pc, result>>

(* A fighter that enters a battle has at least one hit point.              *)
Ability == [atk : 0 .. MaxStat, hp : 1 .. MaxStat, def : 0 .. MaxStat]

real_damage_player  == player.atk - monster.def
real_damage_monster == monster.atk - player.def

(* The hit points never leave the range of a signed int on their way down, *)
(* so they never wrap from negative to positive.                           *)
TypeOK ==
    /\ player \in Ability
    /\ monster \in Ability
    /\ i \in -MaxStat .. MaxStat
    /\ j \in -MaxStat .. MaxStat
    /\ pc \in {"begin", "player", "monster", "end"}
    /\ result \in {-1, 0, 1}

Init ==
    /\ player \in Ability
    /\ monster \in Ability
    /\ i = monster.hp
    /\ j = player.hp
    /\ pc = "begin"
    /\ result = -1

-----------------------------------------------------------------------------

Begin_Strict ==         \* as if the shortcuts tested < 0
    /\ pc = "begin"
    /\ \/ /\ real_damage_player < 0
          /\ result' = 0
          /\ pc' = "end"
       \/ /\ real_damage_player >= 0
          /\ real_damage_monster < 0
          /\ result' = 1
          /\ pc' = "end"
       \/ /\ real_damage_player >= 0
          /\ real_damage_monster >= 0
          /\ pc' = "player"
          /\ result' = result
    /\ UNCHANGED <<player, monster, i, j>>

(* A player who cannot hurt the monster loses at once; otherwise one who   *)
(* cannot be hurt wins at once.                                            *)
Begin ==
    /\ pc = "begin"
    /\ \/ /\ real_damage_player <= 0
          /\ result' = 0
          /\ pc' = "end"
       \/ /\ real_damage_player > 0
          /\ real_damage_monster <= 0
          /\ result' = 1
          /\ pc' = "end"
       \/ /\ real_damage_player > 0
          /\ real_damage_monster > 0
          /\ pc' = "player"
          /\ result' = result
    /\ UNCHANGED <<player, monster, i, j>>

PlayerStrikes_OffByOne ==   \* as if the test were i < 0
    /\ pc = "player"
    /\ i' = i - real_damage_player
    /\ IF i' < 0
         THEN result' = 1 /\ pc' = "end"
         ELSE pc' = "monster" /\ UNCHANGED result
    /\ UNCHANGED <<player, monster, j>>

PlayerStrikes ==
    /\ pc = "player"
    /\ i' = i - real_damage_player
    /\ IF i' <= 0
         THEN result' = 1 /\ pc' = "end"
         ELSE pc' = "monster" /\ UNCHANGED result
    /\ UNCHANGED <<player, monster, j>>

MonsterStrikes_NoTest ==    \* as if j were not tested
    /\ pc = "monster"
    /\ j' = j - real_damage_monster
    /\ pc' = "player"
    /\ UNCHANGED <<player, monster, i, result>>

MonsterStrikes ==
    /\ pc = "monster"
    /\ j' = j - real_damage_monster
    /\ IF j' <= 0
         THEN result' = 0 /\ pc' = "end"
         ELSE pc' = "player" /\ UNCHANGED result
    /\ UNCHANGED <<player, monster, i>>

Next == Begin \/ PlayerStrikes \/ MonsterStrikes

(* battle() is sequential code that calls nothing: it takes its next step. *)
Spec == Init /\ [][Next]_vars /\ WF_vars(Next)

-----------------------------------------------------------------------------
(* Properties. *)

(* What battle() returns is what the rule says, with its shortcuts for a   *)
(* fight in which nobody is hurt and with the player's first blow          *)
(* (kill_the_monster.c, battle()).                                         *)
ResultIsRule ==
    pc = "end" => result = IF PlayerWins(player, monster) THEN 1 ELSE 0

(* The loop ends for every pair of fighters: battle() never hangs the game *)
Terminates == <>(pc = "end")
=============================================================================
