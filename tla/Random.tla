------------------------------- MODULE Random -------------------------------
(***************************************************************************)
(* The random numbers of random.c.  A number is made of the bits 16 to 30  *)
(* of the seed, which no higher bit of the seed ever reaches, so the seed  *)
(* is modelled by its low 31 bits, in two halves: lo has 16 of them, hi    *)
(* the other 15.                                                           *)
(***************************************************************************)
EXTENDS Integers

HalfLo == 65536     \* 2^16
HalfHi == 32768     \* 2^15

SeedType == [hi : 0 .. HalfHi - 1, lo : 0 .. HalfLo - 1]

(* srand_my(): seed = second                                               *)
SeedOf(second) == [hi |-> (second \div HalfLo) % HalfHi, lo |-> second % HalfLo]

(* seed * 1103515245 + 12345; the factor is 16838 * 2^16 + 20077.          *)
NextSeed(seed) ==
    LET low == seed.lo * 20077 + 12345
    IN  [hi |-> (seed.hi * 20077 + seed.lo * 16838 + low \div HalfLo) % HalfHi,
         lo |-> low % HalfLo]

(* (unsigned int)(seed / 65536) % 32768, of the seed rand_my() has stored. *)
rand_my(seed) == seed.hi

randrange_TooFar(seed, x, y) == (rand_my(seed) % (y - x + 2)) + x

randrange(seed, x, y) == (rand_my(seed) % (y - x + 1)) + x
=============================================================================
