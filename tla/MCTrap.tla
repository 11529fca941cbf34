------------------------------- MODULE MCTrap -------------------------------
(***************************************************************************)
(* A kernel of a few functions for TLC: a symbol with two names, symbols   *)
(* outside of the text (those of entry.S near 0, _end above the stack of   *)
(* Start_Kernel()), lines of nm without an address, and calls that go      *)
(* deeper than the ten lines of a backtrace.  The stack of init() lies     *)
(* below the text.                                                         *)
(***************************************************************************)
EXTENDS Trap

Nm ==
    LET at == <<0, 0, 23, 96, 98, 100, 100, 104, 108, 112, 116, 120, 120, 124,
                128, 130, 210>>
        name == <<"none", "R15", "OLDSS", "none", "_absolute", "_start", "_text",
                  "Start_Kernel", "kernel_thread_func", "init", "game", "battle",
                  "battle_end", "print", "_etext", "_data", "_end">>
        length == <<1, 4, 6, 1, 10, 7, 6, 13, 19, 5, 5, 7, 11, 6, 7, 6, 5>>
    IN  [i \in DOMAIN at |-> [readable |-> name[i] # "none", address |-> at[i],
                             symbol |-> name[i], symbol_length |-> length[i]]]

CallGraph ==
    {<<"Start_Kernel", "print">>, <<"init", "print">>, <<"print", "print">>,
     <<"user_level_function", "game">>, <<"game", "battle">>,
     <<"battle", "battle">>, <<"game", "print">>, <<"battle", "print">>}

LocalWords == [f \in {"print", "game", "battle"} |-> IF f = "print" THEN 2 ELSE 0]
=============================================================================
