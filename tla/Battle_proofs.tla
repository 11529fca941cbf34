---------------------------- MODULE Battle_proofs ----------------------------
(***************************************************************************)
(* Proofs about Battle.tla for every MaxStat an int can hold: battle()     *)
(* stays within the range of its ints and returns what the rule of the     *)
(* game says.  The invariant of the loop counts the blows exchanged.       *)
(***************************************************************************)
EXTENDS Battle, TLAPS

(* A product with a non-negative factor is monotone in the other one.      *)
LEMMA ProductMonotone ==
    ASSUME NEW a \in Int, NEW b \in Int, NEW c \in Nat, a <= b
    PROVE  a * c <= b * c
<1>1. b * c = a * c + (b - a) * c
  OBVIOUS
<1>2. (b - a) * c >= 0
  <2>1. b - a \in Nat
    OBVIOUS
  <2> QED BY <2>1
<1>3. a * c \in Int /\ b * c \in Int /\ (b - a) * c \in Int
  OBVIOUS
<1> QED BY <1>1, <1>2, <1>3

(* In the loop somebody is hurt by every blow and both still stand; after   *)
(* n full rounds, and one more blow of the player when it is the monster's  *)
(* turn, the hit points are what the rule counts.                           *)
LoopInv ==
    pc \in {"player", "monster"} =>
        /\ real_damage_player > 0 /\ real_damage_monster > 0
        /\ i > 0 /\ j > 0
        /\ \E n \in Nat :
             /\ i = monster.hp - n * real_damage_player
             /\ \/ /\ pc = "player"
                   /\ j = player.hp - n * real_damage_monster
                \/ /\ pc = "monster"
                   /\ n > 0
                   /\ j = player.hp - (n - 1) * real_damage_monster

(* The hit points battle() starts to count from.                           *)
BeginInv == pc = "begin" => i = monster.hp /\ j = player.hp

(* The inductive invariant: the loop agrees with the rule so far.          *)
IInv == BeginInv /\ LoopInv /\ ResultIsRule

-----------------------------------------------------------------------------
(* What TypeOK says of the fighters and their damages, field by field.      *)
LEMMA DamageType ==
    ASSUME TypeOK
    PROVE  /\ player.atk \in 0 .. MaxStat /\ player.def \in 0 .. MaxStat
           /\ monster.atk \in 0 .. MaxStat /\ monster.def \in 0 .. MaxStat
           /\ player.hp \in 1 .. MaxStat /\ monster.hp \in 1 .. MaxStat
           /\ real_damage_player \in -MaxStat .. MaxStat
           /\ real_damage_monster \in -MaxStat .. MaxStat
           /\ MaxStat \in Nat
<1>1. MaxStat \in Nat
  BY MaxStatAssumption
<1>2. /\ player.atk \in 0 .. MaxStat /\ player.def \in 0 .. MaxStat
      /\ monster.atk \in 0 .. MaxStat /\ monster.def \in 0 .. MaxStat
      /\ player.hp \in 1 .. MaxStat /\ monster.hp \in 1 .. MaxStat
  BY DEF TypeOK, Ability
<1> QED BY <1>1, <1>2 DEF real_damage_player, real_damage_monster

(* The parameters of battle() are copies it never writes.                  *)
LEMMA SameFighters ==
    ASSUME [Next]_vars
    PROVE  player' = player /\ monster' = monster
  BY DEF Next, vars, Begin, PlayerStrikes, MonsterStrikes

-----------------------------------------------------------------------------
(* Each step of battle() stays within the ranges of its variables.         *)
LEMMA TypeStep == TypeOK /\ IInv /\ [Next]_vars => TypeOK'
<1> SUFFICES ASSUME TypeOK, IInv, [Next]_vars PROVE TypeOK'
  OBVIOUS
<1>0. player' = player /\ monster' = monster
  BY SameFighters
<1>1. CASE Begin
  BY <1>1, <1>0 DEF Begin, TypeOK
<1>2. CASE PlayerStrikes
  <2>1. i > 0 /\ real_damage_player > 0
    BY <1>2 DEF PlayerStrikes, IInv, LoopInv
  <2>2. i' \in -MaxStat .. MaxStat
    <3>1. i \in -MaxStat .. MaxStat
      BY DEF TypeOK
    <3>2. i' = i - real_damage_player
      BY <1>2 DEF PlayerStrikes
    <3> QED BY <2>1, <3>1, <3>2, DamageType
  <2> QED BY <1>2, <1>0, <2>2 DEF PlayerStrikes, TypeOK
<1>3. CASE MonsterStrikes
  <2>1. j > 0 /\ real_damage_monster > 0
    BY <1>3 DEF MonsterStrikes, IInv, LoopInv
  <2>2. j' \in -MaxStat .. MaxStat
    <3>1. j \in -MaxStat .. MaxStat
      BY DEF TypeOK
    <3>2. j' = j - real_damage_monster
      BY <1>3 DEF MonsterStrikes
    <3> QED BY <2>1, <3>1, <3>2, DamageType
  <2> QED BY <1>3, <1>0, <2>2 DEF MonsterStrikes, TypeOK
<1>4. CASE UNCHANGED vars
  BY <1>4 DEF vars, TypeOK
<1> QED BY <1>1, <1>2, <1>3, <1>4 DEF Next

(* The shortcuts before the loop agree with the rule.                      *)
LEMMA ShortcutIsRule ==
    ASSUME TypeOK, BeginInv, Begin
    PROVE  IInv'
<1> USE DamageType
<1>0. player' = player /\ monster' = monster /\ i' = i /\ j' = j
  BY DEF Begin
<1>1. CASE real_damage_player <= 0
  <2>1. pc' = "end" /\ result' = 0
    BY <1>1 DEF Begin
  <2>2. ASSUME NEW n \in 1 .. monster.hp
        PROVE  n * real_damage_player < monster.hp
    <3>1. n * real_damage_player <= 0
      <4>1. -real_damage_player \in Nat
        BY <1>1
      <4>2. n * (-real_damage_player) >= 0
        BY <4>1
      <4> QED BY <4>2
    <3> QED BY <3>1
  <2>3. ~PlayerWins(player, monster)
    <3>1. \A n \in 1 .. monster.hp :
             ~(n * (player.atk - monster.def) >= monster.hp)
      BY <2>2 DEF real_damage_player
    <3> QED BY <3>1 DEF PlayerWins
  <2> QED BY <2>1, <2>3, <1>0 DEF IInv, BeginInv, LoopInv, ResultIsRule
<1>2. CASE real_damage_player > 0 /\ real_damage_monster <= 0
  <2>1. pc' = "end" /\ result' = 1
    BY <1>2 DEF Begin
  <2>2. monster.hp * real_damage_player >= monster.hp
    <3>1. monster.hp * 1 <= monster.hp * real_damage_player
      BY <1>2, ProductMonotone
    <3> QED BY <3>1
  <2>3. (monster.hp - 1) * real_damage_monster < player.hp
    <3>1. -real_damage_monster \in Nat /\ monster.hp - 1 \in Nat
      BY <1>2
    <3>2. (monster.hp - 1) * (-real_damage_monster) >= 0
      BY <3>1
    <3> QED BY <3>2
  <2>4. PlayerWins(player, monster)
    BY <2>2, <2>3
    DEF PlayerWins, real_damage_player, real_damage_monster
  <2> QED BY <2>1, <2>4, <1>0 DEF IInv, BeginInv, LoopInv, ResultIsRule
<1>3. CASE real_damage_player > 0 /\ real_damage_monster > 0
  <2>1. pc' = "player" /\ i = monster.hp /\ j = player.hp
    BY <1>3 DEF Begin, BeginInv
  <2>2. i = monster.hp - 0 * real_damage_player
        /\ j = player.hp - 0 * real_damage_monster
    BY <2>1
  <2> QED BY <2>1, <2>2, <1>0, <1>3
          DEF IInv, BeginInv, LoopInv, ResultIsRule,
              real_damage_player, real_damage_monster
<1> QED BY <1>1, <1>2, <1>3

(* A blow that fells the monster makes the rule true, with this blow as the *)
(* witness; one that does not keeps the count.                              *)
LEMMA PlayerStrikeIsRule ==
    ASSUME TypeOK, LoopInv, PlayerStrikes
    PROVE  IInv'
<1> USE DamageType
<1> DEFINE dp == real_damage_player
           dm == real_damage_monster
<1>0. /\ player' = player /\ monster' = monster /\ j' = j /\ pc = "player"
      /\ i' = i - dp
      /\ dp' = dp /\ dm' = dm
  BY DEF PlayerStrikes, real_damage_player, real_damage_monster
<1>1. PICK n \in Nat : /\ i = monster.hp - n * dp
                       /\ j = player.hp - n * dm
  BY <1>0 DEF LoopInv
<1>2. dp > 0 /\ dm > 0 /\ i > 0 /\ j > 0 /\ i \in Int /\ j \in Int
  BY <1>0 DEF LoopInv, TypeOK
<1>3. i' = monster.hp - (n + 1) * dp
  <2>1. (n + 1) * dp = n * dp + dp /\ n * dp \in Int
    OBVIOUS
  <2> QED BY <2>1, <1>0, <1>1
<1>4. CASE i' <= 0
  <2>1. pc' = "end" /\ result' = 1
    BY <1>4 DEF PlayerStrikes
  <2>2. n + 1 \in 1 .. monster.hp
    <3>1. n * 1 <= n * dp
      BY <1>2, ProductMonotone
    <3>2. n * dp < monster.hp /\ n * dp \in Int
      BY <1>1, <1>2
    <3> QED BY <3>1, <3>2
  <2>3. (n + 1) * dp >= monster.hp
    <3>1. (n + 1) * dp \in Int
      OBVIOUS
    <3> QED BY <3>1, <1>3, <1>4
  <2>4. ((n + 1) - 1) * dm < player.hp
    <3>1. ((n + 1) - 1) = n /\ n * dm \in Int
      OBVIOUS
    <3> QED BY <3>1, <1>1, <1>2
  <2>5. PlayerWins(player, monster)
    BY <2>2, <2>3, <2>4
    DEF PlayerWins, real_damage_player, real_damage_monster
  <2> QED BY <2>1, <2>5, <1>0 DEF IInv, BeginInv, LoopInv, ResultIsRule
<1>5. CASE i' > 0
  <2>1. pc' = "monster"
    BY <1>5, <1>2, <1>0 DEF PlayerStrikes
  <2>2. LoopInv'
    <3>1. /\ n + 1 \in Nat /\ n + 1 > 0
          /\ j' = player'.hp - ((n + 1) - 1) * dm'
      BY <1>0, <1>1
    <3>2. i' = monster'.hp - (n + 1) * dp'
      BY <1>0, <1>3
    <3>3. dp' > 0 /\ dm' > 0 /\ i' > 0 /\ j' > 0
      BY <1>0, <1>2, <1>5
    <3> HIDE DEF dp, dm
    <3>4. \E m \in Nat : /\ i' = monster'.hp - m * dp'
                          /\ m > 0
                          /\ j' = player'.hp - (m - 1) * dm'
      BY <3>1, <3>2
    <3> QED BY <3>3, <3>4, <2>1 DEF LoopInv, dp, dm
  <2> QED BY <2>1, <2>2 DEF IInv, BeginInv, ResultIsRule
<1>6. i' \in Int
  BY <1>0, <1>2
<1> QED BY <1>4, <1>5, <1>6

(* A blow that fells the player makes the rule false: the earlier blows of  *)
(* the player are too weak in sum, the later ones come too late.            *)
LEMMA MonsterStrikeIsRule ==
    ASSUME TypeOK, LoopInv, MonsterStrikes
    PROVE  IInv'
<1> USE DamageType
<1> DEFINE dp == real_damage_player
           dm == real_damage_monster
<1>0. /\ player' = player /\ monster' = monster /\ i' = i /\ pc = "monster"
      /\ j' = j - dm
      /\ dp' = dp /\ dm' = dm
  BY DEF MonsterStrikes, real_damage_player, real_damage_monster
<1>1. PICK n \in Nat : /\ i = monster.hp - n * dp
                       /\ n > 0
                       /\ j = player.hp - (n - 1) * dm
  BY <1>0 DEF LoopInv
<1>2. dp > 0 /\ dm > 0 /\ i > 0 /\ j > 0 /\ i \in Int /\ j \in Int
  BY <1>0 DEF LoopInv, TypeOK
<1>3. j' = player.hp - n * dm
  <2>1. (n - 1) * dm = n * dm - dm /\ n * dm \in Int
    OBVIOUS
  <2> QED BY <2>1, <1>0, <1>1
<1>4. CASE j' <= 0
  <2>1. pc' = "end" /\ result' = 0
    BY <1>4 DEF MonsterStrikes
  <2>2. ASSUME NEW k \in 1 .. monster.hp,
               k * dp >= monster.hp, (k - 1) * dm < player.hp
        PROVE  FALSE
    <3>1. CASE k <= n
      <4>1. k * dp <= n * dp
        BY <3>1, <1>2, ProductMonotone
      <4>2. k * dp \in Int /\ n * dp \in Int
        OBVIOUS
      <4> QED BY <4>1, <4>2, <2>2, <1>1, <1>2
    <3>2. CASE k > n
      <4>1. n * dm <= (k - 1) * dm
        <5>1. n <= k - 1
          BY <3>2
        <5> QED BY <5>1, <1>2, ProductMonotone
      <4>2. n * dm \in Int /\ (k - 1) * dm \in Int
        OBVIOUS
      <4> QED BY <4>1, <4>2, <2>2, <1>3, <1>4
    <3> QED BY <3>1, <3>2
  <2>3. ~PlayerWins(player, monster)
    BY <2>2 DEF PlayerWins, real_damage_player, real_damage_monster
  <2> QED BY <2>1, <2>3, <1>0 DEF IInv, BeginInv, LoopInv, ResultIsRule
<1>5. CASE j' > 0
  <2>1. pc' = "player"
    BY <1>5, <1>2, <1>0 DEF MonsterStrikes
  <2>2. LoopInv'
    <3>1. /\ i' = monster'.hp - n * dp'
          /\ j' = player'.hp - n * dm'
      BY <1>0, <1>1, <1>3
    <3>2. dp' > 0 /\ dm' > 0 /\ i' > 0 /\ j' > 0
      BY <1>0, <1>2, <1>5
    <3> QED BY <3>1, <3>2, <2>1 DEF LoopInv
  <2> QED BY <2>1, <2>2 DEF IInv, BeginInv, ResultIsRule
<1>6. j' \in Int
  BY <1>0, <1>2
<1> QED BY <1>4, <1>5, <1>6

(* Each step of battle() keeps the count of the blows exact.               *)
LEMMA InvStep == TypeOK /\ IInv /\ [Next]_vars => IInv'
<1> SUFFICES ASSUME TypeOK, IInv, [Next]_vars PROVE IInv'
  OBVIOUS
<1>1. CASE Begin
  BY <1>1, ShortcutIsRule DEF IInv
<1>2. CASE PlayerStrikes
  BY <1>2, PlayerStrikeIsRule DEF IInv
<1>3. CASE MonsterStrikes
  BY <1>3, MonsterStrikeIsRule DEF IInv
<1>4. CASE UNCHANGED vars
  BY <1>4
  DEF vars, IInv, BeginInv, LoopInv, ResultIsRule,
      real_damage_player, real_damage_monster
<1> QED BY <1>1, <1>2, <1>3, <1>4 DEF Next

(* A call of battle() starts with the invariant.                           *)
LEMMA Initially == Init => TypeOK /\ IInv
<1> SUFFICES ASSUME Init PROVE TypeOK /\ IInv
  OBVIOUS
<1>1. player.hp \in 1 .. MaxStat /\ monster.hp \in 1 .. MaxStat
  BY DEF Init, Ability
<1>2. TypeOK
  BY <1>1, MaxStatAssumption DEF Init, TypeOK
<1> QED BY <1>2 DEF Init, IInv, BeginInv, LoopInv, ResultIsRule

(* The invariant holds in every step of battle().                          *)
LEMMA Invariant == Spec => [](TypeOK /\ IInv)
  BY Initially, TypeStep, InvStep, PTL DEF Spec

-----------------------------------------------------------------------------
(* Hit points and damages fit in an int in every step of battle(), for      *)
(* abilities up to the largest int.                                         *)
THEOREM TypeCorrect == Spec => []TypeOK
  BY Invariant, PTL

(* battle() returns 1 exactly if the rule lets the player win, for every    *)
(* pair of fighters.                                                        *)
THEOREM ResultCorrect == Spec => []ResultIsRule
<1>1. IInv => ResultIsRule
  BY DEF IInv
<1> QED BY <1>1, Invariant, PTL
(* Every blow takes hit points from a fighter while both still stand, so   *)
(* that the loop of battle() cannot go on for ever (kill_the_monster.c:256) *)
(* for any pair of fighters: the part of Terminates that needs no fairness. *)
THEOREM EveryBlowHurts ==
    Spec => [][PlayerStrikes \/ MonsterStrikes =>
                   i > 0 /\ j > 0 /\ i' + j' < i + j]_vars
<1>1. ASSUME TypeOK, IInv, PlayerStrikes \/ MonsterStrikes
      PROVE  i > 0 /\ j > 0 /\ i' + j' < i + j
  <2>1. /\ i > 0 /\ j > 0 /\ real_damage_player > 0 /\ real_damage_monster > 0
    BY <1>1 DEF IInv, LoopInv, PlayerStrikes, MonsterStrikes
  <2>2. i \in Int /\ j \in Int
    BY <1>1, DamageType DEF TypeOK
  <2>3. real_damage_player \in Int /\ real_damage_monster \in Int
    BY <1>1, DamageType
  <2>4. CASE PlayerStrikes
    BY <2>1, <2>2, <2>3, <2>4 DEF PlayerStrikes
  <2>5. CASE MonsterStrikes
    BY <2>1, <2>2, <2>3, <2>5 DEF MonsterStrikes
  <2> QED BY <1>1, <2>4, <2>5
<1>2. TypeOK /\ IInv /\ [Next]_vars =>
         [PlayerStrikes \/ MonsterStrikes =>
              i > 0 /\ j > 0 /\ i' + j' < i + j]_vars
  BY <1>1
<1> QED BY <1>2, Invariant, PTL DEF Spec

=============================================================================
