------------------------ MODULE KillTheMonster_proofs ------------------------
(***************************************************************************)
(* Proofs about KillTheMonster.tla for every number of rounds and every    *)
(* set of values the random generator may yield.                           *)
(***************************************************************************)
EXTENDS KillTheMonster, TLAPS

(* b is a after a growth of each ability by at most k.                     *)
Grown(a, b, k) ==
    /\ b \in Ability
    /\ b.career = a.career
    /\ a.atk <= b.atk /\ b.atk <= a.atk + k
    /\ a.hp  <= b.hp  /\ b.hp  <= a.hp + k
    /\ a.def <= b.def /\ b.def <= a.def + k

(* The fields of a fighter are naturals.                                   *)
LEMMA AbilityFields ==
    ASSUME NEW a \in Ability
    PROVE  a.atk \in Nat /\ a.hp \in Nat /\ a.def \in Nat
  BY DEF Ability

(* Growths add up.                                                         *)
LEMMA GrownTransitive ==
    ASSUME NEW a \in Ability, NEW b, NEW c, NEW k \in Nat, NEW l \in Nat,
           Grown(a, b, k), Grown(b, c, l)
    PROVE  Grown(a, c, k + l)
<1>1. b \in Ability /\ c \in Ability
  BY DEF Grown
<1> QED BY <1>1, AbilityFields DEF Grown

(* One ability point is a growth by 1.                                     *)
LEMMA RaiseGrown ==
    ASSUME NEW a \in Ability, NEW s \in {"atk", "hp", "def"}
    PROVE  Grown(a, Raise(a, s), 1)
<1>1. CASE s = "atk"
  BY <1>1 DEF Ability, Grown, Raise
<1>2. CASE s = "hp"
  BY <1>2 DEF Ability, Grown, Raise
<1>3. CASE s = "def"
  BY <1>3 DEF Ability, Grown, Raise
<1> QED BY <1>1, <1>2, <1>3

(* The reward of beating a monster of one's own career: two points.        *)
LEMMA RewardGrown ==
    ASSUME NEW a \in Ability,
           NEW s \in {"atk", "hp", "def"}, NEW t \in {"atk", "hp", "def"}
    PROVE  /\ Raise(Raise(a, s), t) \in Ability
           /\ Grown(a, Raise(Raise(a, s), t), 2)
<1>1. Grown(a, Raise(a, s), 1) /\ Raise(a, s) \in Ability
  BY RaiseGrown DEF Grown
<1>2. Grown(Raise(a, s), Raise(Raise(a, s), t), 1)
  BY <1>1, RaiseGrown
<1>3. Grown(a, Raise(Raise(a, s), t), 1 + 1)
  BY <1>1, <1>2, GrownTransitive
<1> QED BY <1>3 DEF Grown

(* A draw of ability_plus[] is a growth by 1.                              *)
LEMMA GainGrown ==
    ASSUME NEW a \in Ability, NEW draw, NEW t1, NEW t2
    PROVE  Grown(a, Gain(a, draw, t1, t2), 1)
  BY RaiseGrown DEF Gain

(* A draw of ex_plus is a growth by at most 1.                             *)
LEMMA ExtraGrown ==
    ASSUME NEW a \in Ability, NEW draw, NEW t1, NEW t2
    PROVE  Grown(a, Extra(a, draw, t1, t2), 1)
<1>1. Grown(a, a, 1)
  BY AbilityFields DEF Grown
<1> QED BY <1>1, RaiseGrown DEF Extra

(* Two draws are a growth by at most 2.                                    *)
LEMMA GainTwiceGrown ==
    ASSUME NEW a \in Ability, NEW t1, NEW t2, NEW b \in GainTwice(a, t1, t2)
    PROVE  Grown(a, b, 2)
<1>1. PICK d \in Rand, e \in Rand : b = Gain(Gain(a, d, t1, t2), e, t1, t2)
  BY DEF GainTwice
<1> DEFINE g == Gain(a, d, t1, t2)
<1>2. Grown(a, g, 1) /\ g \in Ability
  BY GainGrown DEF Grown
<1>3. Grown(g, b, 1)
  <2>1. b = Gain(g, e, t1, t2)
    BY <1>1
  <2> HIDE DEF g
  <2> QED BY <2>1, <1>2, GainGrown
<1> HIDE DEF g
<1>4. Grown(a, b, 1 + 1)
  BY <1>2, <1>3, GrownTransitive
<1> QED BY <1>4

(* Three draws and an extra one are a growth by at most 4.                 *)
LEMMA GainFourGrown ==
    ASSUME NEW a \in Ability, NEW t1, NEW t2, NEW b \in GainFour(a, t1, t2)
    PROVE  Grown(a, b, 4)
<1>1. PICK c \in GainTwice(a, t1, t2), d \in Rand, ex \in Rand :
          b = Extra(Gain(c, d, t1, t2), ex, 55, 95)
  BY DEF GainFour
<1> DEFINE g == Gain(c, d, t1, t2)
<1>2. Grown(a, c, 2) /\ c \in Ability
  BY GainTwiceGrown DEF Grown
<1>3. Grown(c, g, 1) /\ g \in Ability
  BY <1>2, GainGrown DEF Grown
<1>4. Grown(g, b, 1)
  <2>1. b = Extra(g, ex, 55, 95)
    BY <1>1
  <2> HIDE DEF g
  <2> QED BY <2>1, <1>3, ExtraGrown
<1> HIDE DEF g
<1>5. Grown(a, g, 2 + 1)
  BY <1>2, <1>3, GrownTransitive
<1>6. Grown(a, b, (2 + 1) + 1)
  BY <1>5, <1>4, GrownTransitive
<1> QED BY <1>6

(* A draw and an extra one are a growth by at most 2.                      *)
LEMMA GainPlayerGrown ==
    ASSUME NEW a \in Ability, NEW t1, NEW t2, NEW b \in GainPlayer(a, t1, t2)
    PROVE  Grown(a, b, 2)
<1>1. PICK d \in Rand, ex \in Rand : b = Extra(Gain(a, d, t1, t2), ex, 67, 84)
  BY DEF GainPlayer
<1> DEFINE g == Gain(a, d, t1, t2)
<1>2. Grown(a, g, 1) /\ g \in Ability
  BY GainGrown DEF Grown
<1>3. Grown(g, b, 1)
  <2>1. b = Extra(g, ex, 67, 84)
    BY <1>1
  <2> HIDE DEF g
  <2> QED BY <2>1, <1>2, ExtraGrown
<1> HIDE DEF g
<1>4. Grown(a, b, 1 + 1)
  BY <1>2, <1>3, GrownTransitive
<1> QED BY <1>4

-----------------------------------------------------------------------------
(* The eight ways an ability grows in a fight.                             *)
LEMMA FightGrown ==
    ASSUME NEW a \in Ability, NEW b
    PROVE  /\ b \in right_w(a) => Grown(a, b, 4)
           /\ b \in right_m(a) => Grown(a, b, 4)
           /\ b \in normnal_monster(a) => Grown(a, b, 2)
           /\ b \in normnal_w(a) => Grown(a, b, 2)
           /\ b \in normnal_m(a) => Grown(a, b, 2)
           /\ b \in player_w(a) => Grown(a, b, 2)
           /\ b \in player_m(a) => Grown(a, b, 2)
           /\ b \in player_n(a) => Grown(a, b, 2)
<1>1. b \in right_w(a) => Grown(a, b, 4)
  BY GainFourGrown DEF right_w
<1>2. b \in right_m(a) => Grown(a, b, 4)
  BY GainFourGrown DEF right_m
<1>3. b \in normnal_monster(a) => Grown(a, b, 2)
  BY GainTwiceGrown DEF normnal_monster
<1>4. b \in normnal_w(a) => Grown(a, b, 2)
  BY GainTwiceGrown DEF normnal_w
<1>5. b \in normnal_m(a) => Grown(a, b, 2)
  BY GainTwiceGrown DEF normnal_m
<1>6. b \in player_w(a) => Grown(a, b, 2)
  BY GainPlayerGrown DEF player_w
<1>7. b \in player_m(a) => Grown(a, b, 2)
  BY GainPlayerGrown DEF player_m
<1>8. b \in player_n(a) => Grown(a, b, 2)
  BY GainPlayerGrown DEF player_n
<1> QED BY <1>1, <1>2, <1>3, <1>4, <1>5, <1>6, <1>7, <1>8

(* A smaller growth is also a growth by at most 4.                         *)
LEMMA GrownLess ==
    ASSUME NEW a \in Ability, NEW b, NEW k \in Nat, Grown(a, b, k), k <= 4
    PROVE  Grown(a, b, 4)
<1>1. b \in Ability
  BY DEF Grown
<1> QED BY <1>1, AbilityFields DEF Grown

(* Who does not take part grows by nothing.                                *)
LEMMA NotGrown ==
    ASSUME NEW a \in Ability
    PROVE  Grown(a, a, 4)
  BY AbilityFields DEF Grown

Fighters == /\ player \in Ability
            /\ monster_warrior_level_1 \in Ability
            /\ monster_magician_level_1 \in Ability
            /\ monster_normal_level_1 \in Ability

(* What a fight against one of the first three monsters does to the four   *)
(* fighters: all grow, except that the warrior monster may be replaced by  *)
(* a growth of the new magician monster.                                   *)
FightEffect ==
    /\ Grown(player, player', 4)
    /\ Grown(monster_magician_level_1, monster_magician_level_1', 4)
    /\ Grown(monster_normal_level_1, monster_normal_level_1', 4)
    /\ \/ Grown(monster_warrior_level_1, monster_warrior_level_1', 4)
       \/ Grown(monster_magician_level_1', monster_warrior_level_1', 2)

(* The three fights have that effect on the fighters.                      *)
LEMMA FightSteps ==
    ASSUME Fighters, FightWarrior \/ FightMagician \/ FightNormal
    PROVE  FightEffect
<1> USE DEF Fighters
<1>1. CASE FightWarrior
  <2>1. CASE player.career = "w"
    <3> DEFINE p == Raise(Raise(player, "hp"), "def")
    <3>1. /\ player' \in player_w(p)
          /\ p \in Ability
          /\ Grown(player, p, 2)
      BY <1>1, <2>1, RewardGrown DEF FightWarrior
    <3>2. Grown(p, player', 2)
      <4> HIDE DEF p
      <4> QED BY <3>1, FightGrown
    <3>3. Grown(player, player', 2 + 2)
      <4> HIDE DEF p
      <4> QED BY <3>1, <3>2, GrownTransitive
    <3>4. /\ monster_warrior_level_1' \in right_w(monster_warrior_level_1)
          /\ monster_magician_level_1' \in normnal_m(monster_magician_level_1)
          /\ monster_normal_level_1' \in normnal_monster(monster_normal_level_1)
      BY <1>1, <2>1 DEF FightWarrior
    <3>5. /\ Grown(monster_warrior_level_1, monster_warrior_level_1', 4)
          /\ Grown(monster_magician_level_1, monster_magician_level_1', 2)
          /\ Grown(monster_normal_level_1, monster_normal_level_1', 2)
      BY <3>4, FightGrown
    <3> QED BY <3>3, <3>5, GrownLess DEF FightEffect
  <2>2. CASE player.career # "w"
    <3>1. /\ player' \in player_w(player)
          /\ monster_warrior_level_1' \in normnal_w(monster_warrior_level_1)
          /\ monster_magician_level_1' = monster_magician_level_1
          /\ monster_normal_level_1' = monster_normal_level_1
      BY <1>1, <2>2 DEF FightWarrior
    <3>2. /\ Grown(player, player', 2)
          /\ Grown(monster_warrior_level_1, monster_warrior_level_1', 2)
      BY <3>1, FightGrown
    <3> QED BY <3>1, <3>2, GrownLess, NotGrown DEF FightEffect
  <2> QED BY <2>1, <2>2
<1>2. CASE FightMagician
  <2>1. CASE player.career = "m"
    <3> DEFINE p == Raise(Raise(player, "atk"), "hp")
    <3>1. /\ player' \in player_m(p)
          /\ p \in Ability
          /\ Grown(player, p, 2)
      BY <1>2, <2>1, RewardGrown DEF FightMagician
    <3>2. Grown(p, player', 2)
      <4> HIDE DEF p
      <4> QED BY <3>1, FightGrown
    <3>3. Grown(player, player', 2 + 2)
      <4> HIDE DEF p
      <4> QED BY <3>1, <3>2, GrownTransitive
    <3>4. /\ monster_magician_level_1' \in right_m(monster_magician_level_1)
          /\ monster_warrior_level_1' \in normnal_w(monster_magician_level_1')
          /\ monster_normal_level_1' \in normnal_monster(monster_normal_level_1)
      BY <1>2, <2>1 DEF FightMagician
    <3>5. /\ Grown(monster_magician_level_1, monster_magician_level_1', 4)
          /\ monster_magician_level_1' \in Ability
          /\ Grown(monster_normal_level_1, monster_normal_level_1', 2)
      BY <3>4, FightGrown DEF Grown
    <3>6. Grown(monster_magician_level_1', monster_warrior_level_1', 2)
      BY <3>4, <3>5, FightGrown
    <3> QED BY <3>3, <3>5, <3>6, GrownLess DEF FightEffect
  <2>2. CASE player.career # "m"
    <3>1. /\ player' \in player_m(player)
          /\ monster_magician_level_1' \in normnal_m(monster_magician_level_1)
          /\ monster_warrior_level_1' = monster_warrior_level_1
          /\ monster_normal_level_1' = monster_normal_level_1
      BY <1>2, <2>2 DEF FightMagician
    <3>2. /\ Grown(player, player', 2)
          /\ Grown(monster_magician_level_1, monster_magician_level_1', 2)
      BY <3>1, FightGrown
    <3> QED BY <3>1, <3>2, GrownLess, NotGrown DEF FightEffect
  <2> QED BY <2>1, <2>2
<1>3. CASE FightNormal
  <2>1. /\ player' \in player_n(player)
        /\ monster_normal_level_1' \in normnal_monster(monster_normal_level_1)
        /\ monster_warrior_level_1' = monster_warrior_level_1
        /\ monster_magician_level_1' = monster_magician_level_1
    BY <1>3 DEF FightNormal
  <2>2. /\ Grown(player, player', 2)
        /\ Grown(monster_normal_level_1, monster_normal_level_1', 2)
    BY <2>1, FightGrown
  <2> QED BY <2>1, <2>2, GrownLess, NotGrown DEF FightEffect
<1> QED BY <1>1, <1>2, <1>3

-----------------------------------------------------------------------------
(* f has hit points and has grown by at most 4 a round from a start with    *)
(* abilities of at most b.                                                  *)
Within(f, b, w) ==
    /\ f.hp >= 1
    /\ f.atk <= b + 4 * w /\ f.hp <= b + 4 * w /\ f.def <= b + 4 * w

(* The magician monster needs the smaller start 3: line 165 makes a warrior *)
(* monster of it, two points stronger and in the same round.                *)
GrowthInv ==
    /\ screen = "career" =>
           /\ monsters = <<FirstWarrior, FirstMagician, FirstNormal>>
           /\ wins = 0 /\ round = 1
    /\ screen \in {"enemy", "boss"} =>
           /\ Within(player, 5, wins)
           /\ Within(monster_warrior_level_1, 5, wins)
           /\ Within(monster_magician_level_1, 3, wins)
           /\ Within(monster_normal_level_1, 5, wins)

(* The inductive invariant of the game.                                    *)
IInv == TypeOK /\ BossAfterAllRounds /\ GrowthInv

(* A growth by 4 in a round keeps to the bound on the next round.          *)
LEMMA WithinGrown ==
    ASSUME NEW a \in Ability, NEW b, NEW s \in Nat, NEW w \in Nat,
           Within(a, s, w), Grown(a, b, 4)
    PROVE  Within(b, s, w + 1)
<1>1. b \in Ability
  BY DEF Grown
<1> QED BY <1>1, AbilityFields DEF Within, Grown

(* The fighters a game starts with are within their bounds.                *)
LEMMA FirstFighters ==
    /\ nobody \in Ability /\ warrior \in Ability /\ magician \in Ability
    /\ FirstWarrior \in Ability /\ FirstMagician \in Ability
    /\ FirstNormal \in Ability
    /\ Within(warrior, 5, 0) /\ Within(magician, 5, 0)
    /\ Within(FirstWarrior, 5, 0) /\ Within(FirstMagician, 3, 0)
    /\ Within(FirstNormal, 5, 0)
  BY DEF Ability, Fighter, nobody, warrior, magician, FirstWarrior,
         FirstMagician, FirstNormal, Within

(* The menu of game() starts with the invariant.                           *)
LEMMA Initially == Init => IInv
<1> SUFFICES ASSUME Init PROVE IInv
  OBVIOUS
<1>1. [FirstMagician EXCEPT !.def = 0] \in Ability
  BY FirstFighters DEF Ability
<1>2. TypeOK
  BY <1>1, FirstFighters, RoundsAssumption DEF Init, TypeOK, Code
<1>3. BossAfterAllRounds /\ GrowthInv
  BY DEF Init, BossAfterAllRounds, GrowthInv
<1> QED BY <1>2, <1>3 DEF IInv

(* The result of a fight moves the round and the wins together.            *)
LEMMA AfterFight ==
    ASSUME IInv, screen = "enemy", FightEffect, AfterBattle,
           key' \in Code, battle_result' \in {0, 1}
    PROVE  IInv'
<1>0. Fighters
  BY DEF IInv, TypeOK, Fighters
<1>1. /\ player' \in Ability
      /\ monster_warrior_level_1' \in Ability
      /\ monster_magician_level_1' \in Ability
      /\ monster_normal_level_1' \in Ability
  BY DEF FightEffect, Grown
<1>2. /\ wins = round - 1 /\ wins \in Nat /\ round \in 1 .. Rounds
      /\ Rounds \in Nat
      /\ verdict \in {"none", "loss", "congratulations"}
  BY RoundsAssumption DEF IInv, TypeOK, BossAfterAllRounds
<1>3. CASE battle_result' = 0
  <2>1. /\ screen' = "menu" /\ verdict' = "loss"
        /\ round' = round /\ wins' = wins
    BY <1>3 DEF AfterBattle
  <2> QED BY <2>1, <1>1, <1>2
          DEF IInv, TypeOK, BossAfterAllRounds, GrowthInv
<1>4. CASE battle_result' # 0
  <2>1. /\ wins' = wins + 1 /\ verdict' = verdict
        /\ \/ round < Rounds /\ round' = round + 1 /\ screen' = "enemy"
           \/ ~(round < Rounds) /\ round' = round /\ screen' = "boss"
    BY <1>4 DEF AfterBattle
  <2>2. TypeOK'
    BY <2>1, <1>1, <1>2 DEF TypeOK
  <2>3. BossAfterAllRounds'
    BY <2>1, <1>2 DEF BossAfterAllRounds
  <2>4. /\ Within(player', 5, wins')
        /\ Within(monster_magician_level_1', 3, wins')
        /\ Within(monster_normal_level_1', 5, wins')
    BY <2>1, <1>0, <1>2, WithinGrown
    DEF FightEffect, IInv, GrowthInv, Fighters
  <2>5. Within(monster_warrior_level_1', 5, wins')
    <3>1. CASE Grown(monster_warrior_level_1, monster_warrior_level_1', 4)
      BY <3>1, <2>1, <1>0, <1>2, WithinGrown DEF IInv, GrowthInv, Fighters
    <3>2. CASE Grown(monster_magician_level_1', monster_warrior_level_1', 2)
      BY <3>2, <2>4, <2>1, <1>1, <1>2, AbilityFields DEF Within, Grown
    <3> QED BY <3>1, <3>2 DEF FightEffect
  <2>6. GrowthInv'
    BY <2>1, <2>4, <2>5 DEF GrowthInv
  <2> QED BY <2>2, <2>3, <2>6 DEF IInv
<1> QED BY <1>3, <1>4

(* battle() yields 0 or 1.                                                 *)
LEMMA BattleResult ==
    ASSUME NEW p, NEW m
    PROVE  battle(p, m) \in {0, 1}
  BY DEF battle

(* Every branch of every screen keeps the invariant.                       *)
LEMMA InvStep == IInv /\ [Next]_vars => IInv'
<1> SUFFICES ASSUME IInv, [Next]_vars PROVE IInv'
  OBVIOUS
<1>0. Fighters
  BY DEF IInv, TypeOK, Fighters
<1>1. CASE StartGame
  <2>1. TypeOK'
    BY <1>1, FirstFighters, RoundsAssumption DEF StartGame, IInv, TypeOK, Code
  <2> QED BY <1>1, <2>1 DEF StartGame, IInv, BossAfterAllRounds, GrowthInv,
                            monsters
<1>2. CASE ChooseCareer
  <2>1. TypeOK'
    BY <1>2, FirstFighters
    DEF ChooseCareer, IInv, TypeOK, Code, monsters
  <2>2. /\ monster_warrior_level_1' = FirstWarrior
        /\ monster_magician_level_1' = FirstMagician
        /\ monster_normal_level_1' = FirstNormal
        /\ wins' = 0 /\ round' = 1 /\ screen' = "enemy"
        /\ player' \in {warrior, magician}
    BY <1>2 DEF ChooseCareer, IInv, GrowthInv, monsters
  <2> QED BY <2>1, <2>2, FirstFighters
          DEF IInv, BossAfterAllRounds, GrowthInv
<1>3. CASE LeaveGame
  BY <1>3 DEF LeaveGame, IInv, TypeOK, BossAfterAllRounds, GrowthInv,
              monsters, Code
<1>4. CASE IgnoreKey
  <2>1. key' \in Code /\ screen' = screen
    BY <1>4 DEF IgnoreKey, IInv, TypeOK
  <2>2. UNCHANGED <<player, monsters, round, wins, verdict>>
    BY <1>4 DEF IgnoreKey
  <2>3. battle_result' \in {0, 1}
    BY <1>4 DEF IgnoreKey, IInv, TypeOK
  <2> QED BY <2>1, <2>2, <2>3
          DEF IInv, TypeOK, BossAfterAllRounds, GrowthInv, monsters
<1>5. CASE FightWarrior
  <2>1. FightEffect
    BY <1>5, <1>0, FightSteps
  <2>2. key' \in Code /\ battle_result' \in {0, 1}
    BY <1>5, BattleResult DEF FightWarrior, Code
  <2> QED BY <1>5, <2>1, <2>2, AfterFight DEF FightWarrior
<1>6. CASE FightMagician
  <2>1. FightEffect
    BY <1>6, <1>0, FightSteps
  <2>2. key' \in Code /\ battle_result' \in {0, 1}
    BY <1>6, BattleResult DEF FightMagician, Code
  <2> QED BY <1>6, <2>1, <2>2, AfterFight DEF FightMagician
<1>7. CASE FightNormal
  <2>1. FightEffect
    BY <1>7, <1>0, FightSteps
  <2>2. key' \in Code /\ battle_result' \in {0, 1}
    BY <1>7, BattleResult DEF FightNormal, Code
  <2> QED BY <1>7, <2>1, <2>2, AfterFight DEF FightNormal
<1>8. CASE FightBoss
  <2>1. battle_result' \in {0, 1}
    BY <1>8, BattleResult DEF FightBoss
  <2> QED BY <1>8, <2>1 DEF FightBoss, IInv, TypeOK, BossAfterAllRounds,
                            GrowthInv, monsters, Code
<1>9. CASE UNCHANGED vars
  BY <1>9 DEF vars, monsters, IInv, TypeOK, BossAfterAllRounds, GrowthInv
<1> QED
  BY <1>1, <1>2, <1>3, <1>4, <1>5, <1>6, <1>7, <1>8, <1>9 DEF Next

(* The invariant holds on every screen of the game.                        *)
LEMMA Invariant == Spec => []IInv
  BY Initially, InvStep, PTL DEF Spec

-----------------------------------------------------------------------------
(* The state of the game keeps its types, round stays within 1 .. Rounds.   *)
THEOREM TypeCorrect == Spec => []TypeOK
<1>1. IInv => TypeOK
  BY DEF IInv
<1> QED BY <1>1, Invariant, PTL

(* For every number of rounds the boss comes after exactly that many won    *)
(* battles, and round counts the battles won.                               *)
THEOREM BossAfterAllRoundsCorrect == Spec => []BossAfterAllRounds
<1>1. IInv => BossAfterAllRounds
  BY DEF IInv
<1> QED BY <1>1, Invariant, PTL

(* For every number of rounds and every random generator battle() is called *)
(* with fighters that stand and whose abilities are at most 5 + 4 * wins.   *)
THEOREM BattleArgumentsCorrect == Spec => []BattleArguments
<1>1. IInv => BattleArguments
  <2> SUFFICES ASSUME IInv, screen \in {"enemy", "boss"},
                      NEW f \in {player, monster_warrior_level_1,
                                 monster_magician_level_1,
                                 monster_normal_level_1}
               PROVE  Within(f, 5, wins)
    BY DEF BattleArguments, Within
  <2>1. CASE f = monster_magician_level_1
    <3>1. Within(f, 3, wins) /\ f \in Ability /\ wins \in Nat
      BY <2>1 DEF IInv, GrowthInv, TypeOK
    <3> QED BY <3>1, AbilityFields DEF Within
  <2>2. CASE f # monster_magician_level_1
    BY <2>2 DEF IInv, GrowthInv
  <2> QED BY <2>1, <2>2
<1> QED BY <1>1, Invariant, PTL

(* No step of a game takes an ability point or the career from the player,  *)
(* the magician monster or the normal monster.                              *)
THEOREM NoneWeakensCorrect == Spec => NoneWeakens
<1> DEFINE Pairs == {<<player, player'>>,
                     <<monster_magician_level_1, monster_magician_level_1'>>,
                     <<monster_normal_level_1, monster_normal_level_1'>>}
           Kept == screen = "enemy" /\ screen' # "menu" =>
                     \A f \in Pairs :
                        /\ f[2].career = f[1].career
                        /\ f[2].atk >= f[1].atk
                        /\ f[2].hp  >= f[1].hp
                        /\ f[2].def >= f[1].def
<1>1. IInv /\ [Next]_vars => [Kept]_vars
  <2> SUFFICES ASSUME IInv, Next, screen = "enemy", screen' # "menu",
                      NEW f \in Pairs
               PROVE  /\ f[2].career = f[1].career
                      /\ f[2].atk >= f[1].atk
                      /\ f[2].hp  >= f[1].hp
                      /\ f[2].def >= f[1].def
    OBVIOUS
  <2>0. Fighters
    BY DEF IInv, TypeOK, Fighters
  <2>1. \/ FightEffect
        \/ UNCHANGED <<player, monsters>>
    BY <2>0, FightSteps
    DEF Next, StartGame, ChooseCareer, LeaveGame, IgnoreKey, FightBoss
  <2>2. CASE FightEffect
    <3>1. Grown(f[1], f[2], 4) /\ f[1] \in Ability /\ f[2] \in Ability
      BY <2>0, <2>2 DEF FightEffect, Fighters, Grown
    <3> QED BY <3>1, AbilityFields DEF Grown
  <2>3. CASE UNCHANGED <<player, monsters>>
    <3>1. f[2] = f[1] /\ f[1] \in Ability
      BY <2>0, <2>3 DEF monsters, Fighters
    <3> QED BY <3>1, AbilityFields
  <2> QED BY <2>1, <2>2, <2>3
<1> QED BY <1>1, Invariant, PTL DEF Spec, NoneWeakens

-----------------------------------------------------------------------------
(* The screens follow one another as Screens.tla has it, for every number   *)
(* of rounds and whatever the random generator yields.                      *)
THEOREM ScreensImplemented == Spec => ImplementsScreens
<1>1. Init => Flow!Init
  BY DEF Init, Flow!Init
<1>2. [Next]_vars => [Flow!Enter]_screen
  <2> SUFFICES ASSUME [Next]_vars, screen' # screen PROVE Flow!Enter
    OBVIOUS
  <2> USE DEF Flow!Enter, Flow!Follows
  <2>1. CASE StartGame
    BY <2>1 DEF StartGame
  <2>2. CASE ChooseCareer
    BY <2>2 DEF ChooseCareer
  <2>3. CASE LeaveGame
    BY <2>3 DEF LeaveGame
  <2>4. CASE IgnoreKey
    BY <2>4 DEF IgnoreKey
  <2>5. CASE FightWarrior \/ FightMagician \/ FightNormal
    <3>1. screen = "enemy" /\ AfterBattle
      BY <2>5 DEF FightWarrior, FightMagician, FightNormal
    <3>2. screen' \in {"menu", "enemy", "boss"}
      BY <3>1 DEF AfterBattle
    <3> QED BY <3>1, <3>2
  <2>6. CASE FightBoss
    BY <2>6 DEF FightBoss
  <2>7. CASE UNCHANGED vars
    BY <2>7 DEF vars
  <2> QED
    BY <2>1, <2>2, <2>3, <2>4, <2>5, <2>6, <2>7 DEF Next
<1> QED BY <1>1, <1>2, PTL DEF Spec, ImplementsScreens, Flow!Spec
=============================================================================
