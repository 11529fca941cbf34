------------------------------ MODULE MCMemory ------------------------------
(***************************************************************************)
(* E820 tables for TLC, in half pages.  As on a PC, the first megabyte is  *)
(* split into a usable and a reserved region, none of which holds a whole  *)
(* page, and the next region starts at the first page.                     *)
(***************************************************************************)
EXTENDS Memory

Region(a, l, t) == [address |-> a, length |-> l, type |-> t]

LowMemory == <<Region(0, 1, 1), Region(1, 1, 2)>>

(* The zone of pages 1 .. 5 lies in one word of the bit map.               *)
OneWord == LowMemory \o <<Region(2, 11, 1)>>

(* Zones of pages 1 and 2, 9 and 10 and, if the length of the last region  *)
(* is 4 and not 1, 17 and 18.  The search for ZONE_UNMAPED begins at page  *)
(* 17 where that is a zone, and else goes through them all.                *)
ThreeWords(length) ==
    LowMemory \o <<Region(2, 5, 1), Region(7, 11, 2), Region(18, 4, 1),
                   Region(22, 12, 2), Region(34, length, 1)>>

Fit == {OneWord, ThreeWords(4), ThreeWords(1)}

ASSUME FitAssumption == \A table \in Fit : TablesApart(table) /\ Fits(table)

Selects == {"ZONE_DMA", "ZONE_NORMAL", "ZONE_UNMAPED", "none of them"}

(* Three tables that do not fit.  The zone of pages 1 .. 9 goes on into a  *)
(* second word.                                                            *)
TwoWords == {LowMemory \o <<Region(2, 18, 1)>>}

(* A hole in the word of the first zone, as a PC may have one at the 15th  *)
(* megabyte: the second zone begins in the last page of the word, and a    *)
(* search for ZONE_UNMAPED comes to it.                                    *)
SameWord == {LowMemory \o <<Region(2, 9, 1), Region(11, 3, 2), Region(14, 8, 1)>>}

(* A zone at page 16, a multiple of W as the page at 0x100000000 is of 64. *)
NewWord == {LowMemory \o <<Region(2, 8, 1), Region(10, 22, 2), Region(32, 8, 1)>>}

(* What the program finds: nothing copies the table of the boot loader, so *)
(* e820_length is 0 and e820[0] is all zero.                               *)
Booted == {<<Region(0, 0, 0)>>}
=============================================================================
