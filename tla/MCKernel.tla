------------------------------ MODULE MCKernel ------------------------------
(***************************************************************************)
(* Kernel for TLC: a game that computes by itself and one that has called  *)
(* getkey().                                                               *)
(***************************************************************************)
EXTENDS Kernel

TwoGames == {[r \in Reg |-> <<g, r>>] : g \in {"game_regs", "getkey_regs"}}
=============================================================================
