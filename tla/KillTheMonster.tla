--------------------------- MODULE KillTheMonster ---------------------------
(***************************************************************************)
(* The game: the menu of game() (game.c) and kill_the_monster(), one       *)
(* action per branch of the switch a screen makes of its key.  What        *)
(* getkey() returns is any scan code or 0: Keyboard.tla shows how keys may *)
(* be lost on their way.  Key 0 also stands for a pass of a loop that      *)
(* found select_on clear.  battle() is one step, with the result that      *)
(* Battle.tla establishes.                                                 *)
(***************************************************************************)
EXTENDS BattleRule

CONSTANTS
    Rounds,     \* battles before the boss: 10 in the program
    Rand        \* the values randrange(1, 100) may return

ASSUME RoundsAssumption == Rounds \in Nat \ {0}
ASSUME RandAssumption == Rand \subseteq 1 .. 100

VARIABLES
    screen,                     \* which loop waits for a key
    key,                        \* what getkey() returned last
    player,
    monster_warrior_level_1,
    monster_magician_level_1,
    monster_normal_level_1,
    round,
    battle_result,
    wins,                       \* history: monsters beaten in this game
    verdict                     \* history: how the last game ended

monsters == <<monster_warrior_level_1, monster_magician_level_1,
              monster_normal_level_1>>
vars == <<screen, key, player, monsters, round, battle_result, wins, verdict>>

One   == 2      \* scan code 0x02
Two   == 3      \* 0x03
Three == 4      \* 0x04
Exit  == 48     \* 0x30, the key `b'
Code  == {0, 1, One, Two, Three, Exit}      \* 1 stands for all the others

Ability == [career : {"n", "w", "m"}, atk : Nat, hp : Nat, def : Nat]

Fighter(c, a, h, d) == [career |-> c, atk |-> a, hp |-> h, def |-> d]

nobody        == Fighter("n", 0, 0, 0)
warrior       == Fighter("w", 2, 5, 1)
magician      == Fighter("m", 3, 3, 0)
Boss_warrior  == Fighter("w", 10, 12, 7)
Boss_magician == Fighter("m", 18, 13, 0)

(* The monsters a game starts with.                                        *)
FirstWarrior  == Fighter("w", 2, 4, 1)
FirstMagician == Fighter("m", 3, 2, 1)
FirstNormal   == Fighter("n", 2, 3, 1)

(* round and wins never pass the number of rounds, fighters keep natural   *)
(* abilities and a known career.                                           *)
TypeOK ==
    /\ screen \in {"menu", "career", "enemy", "boss"}
    /\ key \in Code
    /\ player \in Ability
    /\ monster_warrior_level_1 \in Ability
    /\ monster_magician_level_1 \in Ability
    /\ monster_normal_level_1 \in Ability
    /\ round \in 1 .. Rounds
    /\ battle_result \in {0, 1}
    /\ wins \in 0 .. Rounds
    /\ verdict \in {"none", "loss", "congratulations"}

(* The menu of game(); the abilities have their static initial values, the *)
(* magician monster's defence among them, which the game then raises.      *)
Init ==
    /\ screen = "menu"
    /\ key = 0
    /\ player = nobody
    /\ monster_warrior_level_1 = FirstWarrior
    /\ monster_magician_level_1 = [FirstMagician EXCEPT !.def = 0]
    /\ monster_normal_level_1 = FirstNormal
    /\ round = 1
    /\ battle_result = 0
    /\ wins = 0
    /\ verdict = "none"

-----------------------------------------------------------------------------
(* The random growth of abilities.                                         *)

Raise(a, ability) == [a EXCEPT ![ability] = @ + 1]

(* One draw of ability_plus[]: attack up to t1, defence up to t2, then hp. *)
Gain(a, draw, t1, t2) ==
    IF draw <= t1 THEN Raise(a, "atk")
    ELSE IF draw <= t2 THEN Raise(a, "def")
    ELSE Raise(a, "hp")

(* The draw of ex_plus: nothing up to 50, then attack, hp, defence.        *)
Extra(a, draw, t1, t2) ==
    IF draw <= 50 THEN a
    ELSE IF draw <= t1 THEN Raise(a, "atk")
    ELSE IF draw <= t2 THEN Raise(a, "hp")
    ELSE Raise(a, "def")

GainTwice(a, t1, t2) ==
    {Gain(Gain(a, d, t1, t2), e, t1, t2) : d, e \in Rand}

(* Three draws and an extra one.                                           *)
GainFour(a, t1, t2) ==
    {Extra(Gain(b, d, t1, t2), ex, 55, 95) :
        b \in GainTwice(a, t1, t2), d \in Rand, ex \in Rand}

GainPlayer(a, t1, t2) ==
    {Extra(Gain(a, d, t1, t2), ex, 67, 84) : d, ex \in Rand}

right_w(a)         == GainFour(a, 10, 60)
right_m(a)         == GainFour(a, 60, 70)
normnal_monster(a) == GainTwice(a, 50, 75)
normnal_w(a)       == GainTwice(a, 5, 85)
normnal_m(a)       == GainTwice(a, 80, 85)
player_w(a)        == GainPlayer(a, 50, 75)
player_m(a)        == GainPlayer(a, 70, 80)
player_n(a)        == GainPlayer(a, 35, 70)

battle(p, m) == IF PlayerWins(p, m) THEN 1 ELSE 0

-----------------------------------------------------------------------------
(* Screens. *)

StartGame_KeepsNormal ==    \* as if the normal monster were not reset
    /\ screen = "menu"
    /\ key' = One
    /\ player' = nobody
    /\ monster_warrior_level_1' = FirstWarrior
    /\ monster_magician_level_1' = FirstMagician
    /\ monster_normal_level_1' = monster_normal_level_1
    /\ round' = 1
    /\ wins' = 0
    /\ screen' = "career"
    /\ UNCHANGED <<battle_result, verdict>>

StartGame_NoCareer ==       \* as if the label choose_career were skipped
    /\ screen = "menu"
    /\ key' = One
    /\ player' = nobody
    /\ monster_warrior_level_1' = FirstWarrior
    /\ monster_magician_level_1' = FirstMagician
    /\ monster_normal_level_1' = FirstNormal
    /\ round' = 1
    /\ wins' = 0
    /\ screen' = "enemy"
    /\ UNCHANGED <<battle_result, verdict>>

(* choosing_game(0x02) calls kill_the_monster(), which resets the player,  *)
(* the monsters and the round.                                             *)
StartGame ==
    /\ screen = "menu"
    /\ key' = One
    /\ player' = nobody
    /\ monster_warrior_level_1' = FirstWarrior
    /\ monster_magician_level_1' = FirstMagician
    /\ monster_normal_level_1' = FirstNormal
    /\ round' = 1
    /\ wins' = 0
    /\ screen' = "career"
    /\ UNCHANGED <<battle_result, verdict>>

ChooseCareer ==
    /\ screen = "career"
    /\ \/ key' = One /\ player' = warrior
       \/ key' = Two /\ player' = magician
    /\ screen' = "enemy"
    /\ UNCHANGED <<monsters, round, battle_result, wins, verdict>>

(* Key `b' at the choice of the career or of the enemy: goto game_over.    *)
LeaveGame ==
    /\ screen \in {"career", "enemy"}
    /\ key' = Exit
    /\ screen' = "menu"
    /\ battle_result' = IF screen = "enemy" THEN 0 ELSE battle_result
    /\ UNCHANGED <<player, monsters, round, wins, verdict>>

(* No key or a key without a case: the screen asks again.  The choice of   *)
(* the enemy and the boss battle clear battle_result on every pass.        *)
IgnoreKey ==
    /\ key' \in CASE screen = "menu"   -> Code \ {One}
                  [] screen = "career" -> Code \ {One, Two, Exit}
                  [] screen = "enemy"  -> Code \ {One, Two, Three, Exit}
                  [] screen = "boss"   -> Code \ {One, Two}
    /\ battle_result' = IF screen \in {"enemy", "boss"} THEN 0
                                                        ELSE battle_result
    /\ UNCHANGED <<screen, player, monsters, round, wins, verdict>>

AfterBattle_ExtraRound ==       \* as if the test were round <= Rounds
    IF battle_result' = 0
      THEN /\ screen' = "menu"
           /\ verdict' = "loss"
           /\ UNCHANGED <<round, wins>>
      ELSE /\ wins' = wins + 1
           /\ UNCHANGED verdict
           /\ IF round <= Rounds
                THEN round' = round + 1 /\ UNCHANGED screen
                ELSE screen' = "boss" /\ UNCHANGED round

AfterBattle_LossGoesOn ==       \* as if the result were not tested
    /\ wins' = IF battle_result' = 0 THEN wins ELSE wins + 1
    /\ UNCHANGED verdict
    /\ IF round < Rounds
         THEN round' = round + 1 /\ UNCHANGED screen
         ELSE screen' = "boss" /\ UNCHANGED round

(* What follows the switch of choose_1_enemy.                              *)
AfterBattle ==
    IF battle_result' = 0
      THEN /\ screen' = "menu"
           /\ verdict' = "loss"
           /\ UNCHANGED <<round, wins>>
      ELSE /\ wins' = wins + 1
           /\ UNCHANGED verdict
           /\ IF round < Rounds
                THEN round' = round + 1 /\ UNCHANGED screen
                ELSE screen' = "boss" /\ UNCHANGED round

(* The abilities grow before the result of the battle is looked at.        *)
FightWarrior ==
    /\ screen = "enemy"
    /\ key' = One
    /\ battle_result' = battle(player, monster_warrior_level_1)
    /\ IF player.career = "w"
         THEN /\ player' \in player_w(Raise(Raise(player, "hp"), "def"))
              /\ monster_warrior_level_1' \in right_w(monster_warrior_level_1)
              /\ monster_magician_level_1' \in
                     normnal_m(monster_magician_level_1)
              /\ monster_normal_level_1' \in
                     normnal_monster(monster_normal_level_1)
         ELSE /\ player' \in player_w(player)
              /\ monster_warrior_level_1' \in
                     normnal_w(monster_warrior_level_1)
              /\ UNCHANGED <<monster_magician_level_1, monster_normal_level_1>>
    /\ AfterBattle

FightMagician_FreshNormal ==    \* as if the normal monster grew from its start
    /\ screen = "enemy"
    /\ key' = Two
    /\ battle_result' = battle(player, monster_magician_level_1)
    /\ IF player.career = "m"
         THEN /\ player' \in player_m(Raise(Raise(player, "atk"), "hp"))
              /\ monster_magician_level_1' \in
                     right_m(monster_magician_level_1)
              /\ monster_warrior_level_1' \in
                     normnal_w(monster_magician_level_1')
              /\ monster_normal_level_1' \in normnal_monster(FirstNormal)
         ELSE /\ player' \in player_m(player)
              /\ monster_magician_level_1' \in
                     normnal_m(monster_magician_level_1)
              /\ UNCHANGED <<monster_warrior_level_1, monster_normal_level_1>>
    /\ AfterBattle

(* Against a magician player the warrior monster is made from the magician *)
(* monster, which has already grown (line 165).                            *)
FightMagician ==
    /\ screen = "enemy"
    /\ key' = Two
    /\ battle_result' = battle(player, monster_magician_level_1)
    /\ IF player.career = "m"
         THEN /\ player' \in player_m(Raise(Raise(player, "atk"), "hp"))
              /\ monster_magician_level_1' \in
                     right_m(monster_magician_level_1)
              /\ monster_warrior_level_1' \in
                     normnal_w(monster_magician_level_1')
              /\ monster_normal_level_1' \in
                     normnal_monster(monster_normal_level_1)
         ELSE /\ player' \in player_m(player)
              /\ monster_magician_level_1' \in
                     normnal_m(monster_magician_level_1)
              /\ UNCHANGED <<monster_warrior_level_1, monster_normal_level_1>>
    /\ AfterBattle

FightNormal ==
    /\ screen = "enemy"
    /\ key' = Three
    /\ battle_result' = battle(player, monster_normal_level_1)
    /\ player' \in player_n(player)
    /\ monster_normal_level_1' \in normnal_monster(monster_normal_level_1)
    /\ UNCHANGED <<monster_warrior_level_1, monster_magician_level_1>>
    /\ AfterBattle

(* Boss_battle: win or lose, the game is over and the menu comes back.     *)
FightBoss ==
    /\ screen = "boss"
    /\ \/ key' = One /\ battle_result' = battle(player, Boss_warrior)
       \/ key' = Two /\ battle_result' = battle(player, Boss_magician)
    /\ verdict' = IF battle_result' = 0 THEN "loss" ELSE "congratulations"
    /\ screen' = "menu"
    /\ UNCHANGED <<player, monsters, round, wins>>

Next ==
    \/ StartGame \/ ChooseCareer \/ LeaveGame \/ IgnoreKey
    \/ FightWarrior \/ FightMagician \/ FightNormal \/ FightBoss

Spec == Init /\ [][Next]_vars

-----------------------------------------------------------------------------
(* Properties. *)

(* The boss is met after `Rounds' battles won in a row and never earlier,  *)
(* and every earlier round was won too.                                    *)
BossAfterAllRounds ==
    /\ screen = "enemy" => wins = round - 1
    /\ screen = "boss" => wins = Rounds

(* What battle() is called with: everybody has hit points, and no ability  *)
(* has grown by more than 4 a round, so for every number of rounds up to   *)
(* 536870910 the unsigned abilities convert to ints without loss.          *)
BattleArguments ==
    screen \in {"enemy", "boss"} =>
        \A f \in {player, monster_warrior_level_1,
                  monster_magician_level_1, monster_normal_level_1} :
            /\ f.hp >= 1
            /\ f.atk <= 5 + 4 * wins
            /\ f.hp  <= 5 + 4 * wins
            /\ f.def <= 5 + 4 * wins

(* Within a game nobody but the warrior monster loses an ability point or  *)
(* changes career: the growth of one fighter is never stored in another.   *)
NoneWeakens ==
    [][screen = "enemy" /\ screen' # "menu" =>
        \A f \in {<<player, player'>>,
                  <<monster_magician_level_1, monster_magician_level_1'>>,
                  <<monster_normal_level_1, monster_normal_level_1'>>} :
            /\ f[2].career = f[1].career
            /\ f[2].atk >= f[1].atk
            /\ f[2].hp  >= f[1].hp
            /\ f[2].def >= f[1].def]_vars

(* The gotos of the battles, of the lost game and of the exit key lead     *)
(* from screen to screen in the order Screens.tla promises to the model of *)
(* the keyboard: no battle without a career, no boss but after a battle.   *)
Flow == INSTANCE Screens
ImplementsScreens == Flow!Spec

(* What the source says of the first monster: "//init warrior monster" and *)
(* the line "1.warrior:" of the screen.  Line 165 breaks it.               *)
WarriorMonsterIsWarrior ==
    monster_warrior_level_1.career = "w"

(* What the first screen of the game tells the player: "pusn 'b' to exit   *)
(* game".  The loop of the boss battle has no case for it.                 *)
ExitKeyLeaves ==
    key = Exit => screen = "menu"
=============================================================================
