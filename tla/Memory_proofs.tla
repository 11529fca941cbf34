---------------------------- MODULE Memory_proofs ----------------------------
(***************************************************************************)
(* Proofs about Memory.tla for every E820 table that fits, words of any    *)
(* length and any number of users: that no page is handed out twice, and   *)
(* that bit map, page structures and zone counters agree.  Nearly all of   *)
(* it is said of a value t of the three tables, so that no lemma up to     *)
(* the inductive invariant has an action in it.                            *)
(***************************************************************************)
EXTENDS Memory, FiniteSetTheorems, SequenceTheorems, TLAPS

-----------------------------------------------------------------------------
(* Numbers. *)

(* A set of numbers has a least one.  The proof goes through the intervals *)
(* from 0 to the numbers, which are well-founded by inclusion.             *)
LEMMA LeastNat ==
    ASSUME NEW T \in SUBSET Nat, T # {}
    PROVE  \E m \in T : \A n \in T : m <= n
<1> DEFINE intervals == {0 .. n : n \in T}
           within == StrictSubsetOrdering(Nat)
<1>1. \A n \in Nat : IsFiniteSet(0 .. n) /\ 0 .. n \subseteq Nat
  BY FS_Interval
<1>2. intervals \subseteq FiniteSubsetsOf(Nat) /\ intervals # {}
  BY <1>1 DEF FiniteSubsetsOf
<1>3. IsWellFoundedOn(within, FiniteSubsetsOf(Nat))
  BY FS_StrictSubsetOrderingWellFounded
<1>4. PICK x \in intervals : \A y \in intervals : ~ (<<y, x>> \in within)
  <2> HIDE DEF intervals, within
  <2> QED BY <1>2, <1>3, WFMin
<1>5. PICK m \in T : x = 0 .. m
  OBVIOUS
<1>6. ASSUME NEW n \in T, ~(m <= n)
      PROVE  FALSE
  <2>1. 0 .. n \subseteq 0 .. m /\ 0 .. n # 0 .. m
    BY <1>6
  <2>2. <<0 .. n, x>> \in within
    BY <2>1, <1>5, <1>1 DEF StrictSubsetOrdering
  <2> QED BY <2>2, <1>4
<1> QED BY <1>6

(* Two finite sets without a common element count as the sum.              *)
LEMMA Disjoint ==
    ASSUME NEW S, NEW T, IsFiniteSet(S), IsFiniteSet(T), S \cap T = {}
    PROVE  Cardinality(S \cup T) = Cardinality(S) + Cardinality(T)
<1>1. Cardinality(S \cap T) = 0
  BY FS_EmptySet
<1>2. Cardinality(S \cup T) =
      Cardinality(S) + Cardinality(T) - Cardinality(S \cap T)
  BY FS_Union
<1>3. Cardinality(S) \in Nat /\ Cardinality(T) \in Nat
  BY FS_CardinalityType
<1> QED BY <1>1, <1>2, <1>3

(* Division by a positive number.                                          *)
LEMMA Division ==
    ASSUME NEW a \in Nat, NEW d \in Nat \ {0}
    PROVE  /\ a \div d \in Nat
           /\ a = d * (a \div d) + (a % d)
           /\ a % d \in 0 .. d - 1
<1>1. a \div d \in Int /\ a % d \in 0 .. d - 1 /\ a = d * (a \div d) + (a % d)
  OBVIOUS
<1>2. a \div d >= 0
  <2> DEFINE q == a \div d
             r == a % d
  <2>1. q \in Int /\ r \in Int /\ a = d * q + r /\ r < d
    BY <1>1
  <2> HIDE DEF q, r
  <2>2. q <= -1 => d * q <= -d
    BY <2>1
  <2> QED BY <2>1, <2>2 DEF q
<1> QED BY <1>1, <1>2

(* Enough words for all bits.                                              *)
LEMMA RoundedUp ==
    ASSUME NEW a \in Nat, NEW d \in Nat \ {0}
    PROVE  /\ (a + d - 1) \div d \in Nat
           /\ a <= ((a + d - 1) \div d) * d
<1> DEFINE b == a + d - 1
           q == b \div d
           r == b % d
<1>1. b \in Nat
  OBVIOUS
<1>2. q \in Nat /\ b = d * q + r /\ r \in 0 .. d - 1
  BY <1>1, Division
<1>3. b = a + d - 1
  OBVIOUS
<1> HIDE DEF b, q, r
<1>4. a <= d * q
  BY <1>2, <1>3
<1>5. d * q = q * d
  BY <1>2
<1> QED BY <1>2, <1>4, <1>5 DEF b, q

-----------------------------------------------------------------------------
(* The table. *)

(* The numbers among the constants.                                        *)
LEMMA Numbers ==
    /\ W \in Nat /\ W # 0 /\ KernelEnd \in Nat
    /\ MaxNumber \in Nat /\ MaxNumber <= W
    /\ MaxReferences \in Nat /\ MaxReferences # 0
BY MemoryAssumption

(* What is known of every table.                                           *)
LEMMA TableFacts ==
    ASSUME NEW table \in E820Maps
    PROVE  /\ \A i \in DOMAIN table :
                 FirstPage(table[i]) \in Nat /\ EndPage(table[i]) \in Nat
           /\ \A i \in Zones(table) :
                 i \in Nat \ {0} /\ FirstPage(table[i]) < EndPage(table[i])
           /\ IsFiniteSet(Zones(table))
<1>1. table \in Seq([address : Nat, length : Nat, type : Nat])
  BY MemoryAssumption
<1>2. DOMAIN table = 1 .. Len(table) /\ Len(table) \in Nat
  BY <1>1
<1>3. ASSUME NEW i \in DOMAIN table
      PROVE  FirstPage(table[i]) \in Nat /\ EndPage(table[i]) \in Nat
  <2>1. table[i].address \in Nat /\ table[i].length \in Nat
    <3> DEFINE entry == [address : Nat, length : Nat, type : Nat]
    <3>1. table \in Seq(entry) /\ i \in 1 .. Len(table)
      BY <1>1, <1>2
    <3> HIDE DEF entry
    <3>2. table[i] \in entry
      BY <3>1, ElementOfSeq
    <3> QED BY <3>2 DEF entry
  <2>2. Units \in Nat \ {0}
    BY MemoryAssumption
  <2>3. table[i].address + Units - 1 \in Nat
        /\ table[i].address + table[i].length \in Nat
    BY <2>1, <2>2
  <2> QED BY <2>2, <2>3, Division DEF FirstPage, EndPage
<1>4. ASSUME NEW i \in Zones(table)
      PROVE  i \in Nat \ {0} /\ FirstPage(table[i]) < EndPage(table[i])
  <2>1. i \in DOMAIN table /\ Usable(table[i])
    BY DEF Zones
  <2> QED BY <2>1, <1>2, <1>3 DEF Usable
<1>5. IsFiniteSet(1 .. Len(table))
  BY <1>2, FS_Interval
<1>6. Zones(table) \in SUBSET (1 .. Len(table))
  BY <1>2 DEF Zones
<1>7. IsFiniteSet(Zones(table))
  BY <1>5, <1>6, FS_Subset
<1> QED BY <1>3, <1>4, <1>7

(* What is known of one that fits.                                         *)
LEMMA FitFacts ==
    ASSUME NEW table \in E820Maps, Fits(table)
    PROVE  /\ FirstZone(table) \in Zones(table)
           /\ \A i \in Zones(table) : FirstZone(table) <= i
           /\ FirstPage(table[FirstZone(table)]) = 1
           /\ KernelEnd + 1 < EndPage(table[FirstZone(table)])
           /\ EndPage(table[FirstZone(table)]) < W
           /\ TotalPages(table) \in Nat
           /\ EndPage(table[FirstZone(table)]) <= TotalPages(table)
           /\ Words(table) \in Nat /\ TotalPages(table) <= Words(table) * W
           /\ W \in Nat /\ 2 < W /\ W <= Words(table) * W
<1> DEFINE first == FirstZone(table)
<1>1. Zones(table) \subseteq Nat /\ Zones(table) # {}
  BY TableFacts DEF Fits
<1>2. \E m \in Zones(table) : \A n \in Zones(table) : m <= n
  BY <1>1, LeastNat
<1>3. first \in Zones(table) /\ \A i \in Zones(table) : first <= i
  BY <1>2 DEF FirstZone, Min
<1>4. /\ FirstPage(table[first]) = 1
      /\ KernelEnd + 1 < EndPage(table[first])
      /\ EndPage(table[first]) < W
      /\ EndPage(table[first]) <= TotalPages(table)
  <2>1. first \in Searched(table, "ZONE_NORMAL") /\ "ZONE_NORMAL" \in ZoneSelects
    BY <1>3, MemoryAssumption DEF Searched
  <2>2. WithinWord(table, first)
    BY <2>1 DEF Fits
  <2>3. /\ FirstPage(table[first]) = 1
        /\ KernelEnd + 1 < EndPage(table[first])
        /\ EndPage(table[first]) <= TotalPages(table)
    BY <1>3 DEF Fits
  <2>4. EndPage(table[first]) < (FirstPage(table[first]) - 1) + W
    BY <2>2 DEF WithinWord
  <2>5. W \in Nat
    BY MemoryAssumption
  <2> QED BY <2>3, <2>4, <2>5
<1>5. Len(table) \in DOMAIN table
  <2>1. table \in Seq([address : Nat, length : Nat, type : Nat])
    BY MemoryAssumption
  <2>2. first \in DOMAIN table
    BY <1>3 DEF Zones
  <2> QED BY <2>1, <2>2
<1>6. TotalPages(table) \in Nat
  BY <1>5, TableFacts DEF TotalPages
<1>7. W \in Nat \ {0} /\ KernelEnd \in Nat
  BY MemoryAssumption
<1>8. EndPage(table[first]) \in Nat /\ 1 < EndPage(table[first])
  BY <1>3, <1>4, TableFacts DEF Zones
<1>9. Words(table) \in Nat /\ TotalPages(table) <= Words(table) * W
  BY <1>6, <1>7, RoundedUp DEF Words
<1>10. W <= Words(table) * W
  <2> DEFINE n == Words(table)
  <2>1. n \in Nat /\ n * W > 0
    BY <1>4, <1>6, <1>7, <1>8, <1>9
  <2> HIDE DEF n
  <2>2. n # 0
    BY <2>1, <1>7
  <2>3. n >= 1
    BY <2>1, <2>2
  <2>4. n * W >= W
    BY <2>1, <2>3, <1>7
  <2> QED BY <2>4 DEF n
<1> QED BY <1>3, <1>4, <1>6, <1>7, <1>8, <1>9, <1>10

(* The zones share no page, and page 0 lies in none.                       *)
LEMMA ZonesApart ==
    ASSUME NEW table \in E820Maps, Fits(table), NEW p \in Int
    PROVE  /\ ZonesOf(table, p) \subseteq Zones(table)
           /\ \A i \in ZonesOf(table, p) : ZonesOf(table, p) = {i}
           /\ ZonesOf(table, p) # {} => p \in 1 .. TotalPages(table) - 1
           /\ p \in 1 .. EndPage(table[FirstZone(table)]) - 1 =>
                 FirstZone(table) \in ZonesOf(table, p)
<1> DEFINE first == FirstZone(table)
           start(i) == FirstPage(table[i])
           end(i) == EndPage(table[i])
<1>1. \A i \in Zones(table) : /\ i \in Nat /\ start(i) \in Nat /\ end(i) \in Nat
                              /\ start(i) < end(i)
  BY TableFacts DEF Zones
<1>2. /\ \A i, j \in Zones(table) : i < j => end(i) <= start(j)
      /\ \A i \in Zones(table) : end(i) <= TotalPages(table)
  BY DEF Fits
<1>3. /\ first \in Zones(table) /\ \A i \in Zones(table) : first <= i
      /\ start(first) = 1 /\ TotalPages(table) \in Nat
  BY FitFacts
<1>4. \A i : i \in ZonesOf(table, p) <=>
                i \in Zones(table) /\ p >= start(i) /\ p < end(i)
  BY DEF ZonesOf
<1> HIDE DEF first, start, end
<1>5. \A i \in Zones(table) : 1 <= start(i)
  <2> SUFFICES ASSUME NEW i \in Zones(table), i # first
               PROVE  1 <= start(i)
    BY <1>3
  <2>1. first < i
    BY <1>1, <1>3
  <2> QED BY <2>1, <1>1, <1>2, <1>3
<1>6. ASSUME NEW i \in ZonesOf(table, p), NEW j \in ZonesOf(table, p)
      PROVE  i = j
  <2>1. /\ i \in Zones(table) /\ p >= start(i) /\ p < end(i)
        /\ j \in Zones(table) /\ p >= start(j) /\ p < end(j)
    BY <1>4
  <2>2. ~(i < j) /\ ~(j < i)
    BY <2>1, <1>1, <1>2
  <2> QED BY <2>1, <2>2, <1>1
<1>7. ASSUME NEW i \in ZonesOf(table, p)
      PROVE  p \in 1 .. TotalPages(table) - 1
  BY <1>1, <1>2, <1>3, <1>4, <1>5
<1>8. p \in 1 .. end(first) - 1 => first \in ZonesOf(table, p)
  BY <1>1, <1>3, <1>4
<1> QED BY <1>4, <1>6, <1>7, <1>8 DEF first, start, end

(* The zone a page is charged to.                                          *)
ZoneOf(table, p) ==
    IF p = 0 THEN FirstZone(table)
    ELSE IF ZonesOf(table, p) = {} THEN Null ELSE Max(ZonesOf(table, p))

LastPage(table) == TotalPages(table) - 1

(* A page of a zone is charged to that zone; page 0, and so the pages of   *)
(* the kernel, to the first one; no other page to any.                     *)
LEMMA ChargedTo ==
    ASSUME NEW table \in E820Maps, Fits(table), NEW p \in Nat
    PROVE  /\ ZoneOf(table, p) \in {Null} \cup Zones(table) /\ Null \notin Zones(table)
           /\ ZonesOf(table, p) # {} => /\ ZoneOf(table, p) \in ZonesOf(table, p)
                                       /\ ZoneOf(table, p) \in Zones(table)
                                       /\ p \in 1 .. LastPage(table)
           /\ p # 0 /\ ZonesOf(table, p) = {} => ZoneOf(table, p) = Null
           /\ p \in 0 .. KernelEnd => ZoneOf(table, p) = FirstZone(table)
           /\ ZonesOf(table, 0) = {}
<1>1. /\ ZonesOf(table, p) \subseteq Zones(table)
      /\ \A i \in ZonesOf(table, p) : ZonesOf(table, p) = {i}
      /\ ZonesOf(table, p) # {} => p \in 1 .. LastPage(table)
  BY ZonesApart DEF LastPage
<1>2. \A i \in ZonesOf(table, p) : i \in Nat \ {0}
  BY <1>1, TableFacts
<1>3. \A i \in ZonesOf(table, p) : Max(ZonesOf(table, p)) = i
  BY <1>1, <1>2 DEF Max
<1>4. Null \notin Zones(table)
  BY TableFacts DEF Null
<1>5. FirstZone(table) \in Zones(table)
  BY FitFacts
<1>6. p \in 0 .. KernelEnd => ZoneOf(table, p) = FirstZone(table)
  <2> SUFFICES ASSUME p \in 1 .. KernelEnd
               PROVE  ZoneOf(table, p) = FirstZone(table)
    BY DEF ZoneOf
  <2>1. /\ KernelEnd + 1 < EndPage(table[FirstZone(table)]) /\ KernelEnd \in Nat
        /\ EndPage(table[FirstZone(table)]) \in Nat
    BY <1>5, FitFacts, TableFacts, MemoryAssumption DEF Zones
  <2>2. p \in 1 .. EndPage(table[FirstZone(table)]) - 1
    BY <2>1
  <2>3. FirstZone(table) \in ZonesOf(table, p)
    BY <2>2, ZonesApart
  <2> QED BY <2>3, <1>3 DEF ZoneOf
<1>7. ZonesOf(table, 0) = {}
  BY ZonesApart
<1>8. ZonesOf(table, p) # {} => ZoneOf(table, p) \in ZonesOf(table, p)
  BY <1>1, <1>3 DEF ZoneOf
<1>9. p # 0 /\ ZonesOf(table, p) = {} => ZoneOf(table, p) = Null
  BY DEF ZoneOf
<1>10. ZoneOf(table, p) \in {Null} \cup Zones(table)
  BY <1>1, <1>5, <1>8 DEF ZoneOf
<1> QED BY <1>1, <1>4, <1>6, <1>7, <1>8, <1>9, <1>10

(* A number is in one word of the map, at one bit.                         *)
LEMMA WordOf ==
    ASSUME NEW q \in Nat, NEW a \in 0 .. W - 1
    PROVE  (q * W + a) \div W = q /\ (q * W + a) % W = a
<1> DEFINE b == q * W + a
           d == b \div W
           r == b % W
<1>1. W \in Nat /\ W # 0 /\ a \in Nat /\ a < W
  BY Numbers
<1>2. q * W \in Nat
  BY <1>1
<1>3. b \in Nat /\ b = q * W + a
  BY <1>1, <1>2
<1>4. d \in Nat /\ b = W * d + r /\ r \in 0 .. W - 1
  BY <1>1, <1>3, Division
<1> HIDE DEF b, d, r
<1>5. W * d = d * W /\ d * W \in Nat
  BY <1>1, <1>4
<1>6. ~(d < q)
  <2> SUFFICES ASSUME d + 1 <= q
               PROVE  FALSE
    BY <1>4
  <2>1. (d + 1) * W <= q * W
    BY <1>1, <1>4
  <2>2. (d + 1) * W = d * W + W
    BY <1>1, <1>4
  <2> QED BY <1>1, <1>2, <1>3, <1>4, <1>5, <2>1, <2>2
<1>7. ~(q < d)
  <2> SUFFICES ASSUME q + 1 <= d
               PROVE  FALSE
    BY <1>4
  <2>1. (q + 1) * W <= d * W
    BY <1>1, <1>4
  <2>2. (q + 1) * W = q * W + W
    BY <1>1
  <2> QED BY <1>1, <1>2, <1>3, <1>4, <1>5, <2>1, <2>2
<1>8. d = q
  BY <1>4, <1>6, <1>7
<1>9. r = a
  BY <1>1, <1>2, <1>3, <1>4, <1>5, <1>8
<1> QED BY <1>8, <1>9 DEF b, d, r

(* Zone i lies within word q of the map.                                   *)
InWord(table, i, q) ==
    /\ i \in Zones(table)
    /\ q * W \in Nat /\ q * W + W <= Words(table) * W
    /\ FirstPage(table[i]) = q * W + 1
    /\ EndPage(table[i]) \in Nat /\ EndPage(table[i]) < q * W + W
    /\ \E p \in {q * W + W - 2, q * W + W - 1} : ZonesOf(table, p) = {}

(* So does every zone alloc_pages() goes through.                          *)
LEMMA SearchedInWord ==
    ASSUME NEW table \in E820Maps, Fits(table),
           NEW zone_select \in ZoneSelects, NEW i \in Searched(table, zone_select)
    PROVE  \E q \in Nat : InWord(table, i, q)
<1>1. i \in Zones(table)
  BY DEF Searched
<1>2. WithinWord(table, i)
  BY DEF Fits
<1> DEFINE a == FirstPage(table[i])
           q == a \div W
<1>3. a \in Nat /\ EndPage(table[i]) \in Nat /\ a < EndPage(table[i])
  BY <1>1, TableFacts DEF Zones
<1>4. W \in Nat /\ W # 0 /\ 2 < W
  BY FitFacts, Numbers
<1>5. q \in Nat /\ a = W * q + (a % W) /\ a % W = 1
  BY <1>2, <1>3, <1>4, Division DEF WithinWord
<1>6. /\ EndPage(table[i]) < (a - 1) + W
      /\ \E p \in {(a - 1) + W - 2, (a - 1) + W - 1} : ZonesOf(table, p) = {}
  BY <1>2 DEF WithinWord
<1>7. EndPage(table[i]) <= TotalPages(table) /\ TotalPages(table) \in Nat
  BY <1>1, FitFacts DEF Fits
<1>8. Words(table) \in Nat /\ TotalPages(table) <= Words(table) * W
  BY FitFacts
<1> HIDE DEF a, q
<1>9. q * W \in Nat /\ q * W = a - 1
  <2>1. W * q = q * W /\ q * W \in Nat
    BY <1>4, <1>5
  <2> QED BY <1>3, <1>5, <2>1
<1>10. q * W + W <= Words(table) * W
  <2> DEFINE n == Words(table)
  <2>1. n \in Nat /\ q * W < n * W
    BY <1>3, <1>4, <1>7, <1>8, <1>9
  <2> HIDE DEF n
  <2>2. ~(n <= q)
    <3> SUFFICES ASSUME n <= q
                 PROVE  FALSE
      OBVIOUS
    <3>1. n * W <= q * W
      BY <1>4, <1>5, <2>1
    <3> QED BY <1>4, <1>9, <2>1, <3>1
  <2>3. q + 1 <= n
    BY <1>5, <2>1, <2>2
  <2>4. (q + 1) * W <= n * W
    BY <1>4, <1>5, <2>1, <2>3
  <2>5. (q + 1) * W = q * W + W
    BY <1>4, <1>5
  <2> QED BY <2>4, <2>5 DEF n
<1>11. InWord(table, i, q)
  <2>1. a = q * W + 1 /\ a - 1 = q * W
    BY <1>3, <1>9
  <2>2. FirstPage(table[i]) = q * W + 1
    BY <2>1 DEF a
  <2>3. /\ EndPage(table[i]) < q * W + W
        /\ \E p \in {q * W + W - 2, q * W + W - 1} : ZonesOf(table, p) = {}
    BY <1>6, <2>1
  <2> QED BY <1>1, <1>3, <1>9, <1>10, <2>2, <2>3 DEF InWord
<1> QED BY <1>5, <1>11

-----------------------------------------------------------------------------
(* The three tables. *)

Page == [zone : Nat, attribute : Flags \cup {{}}, reference_count : Nat]
Zone == [start : Int, end : Int, page_using_count : Int,
         page_free_count : Int, total_pages_link : Int]

Shaped(table, t) ==
    t \in [bits  : [0 .. Words(table) * W - 1 -> {0, 1}],
           pages : [0 .. LastPage(table) -> Page],
           zones : [Zones(table) -> Zone]]

(* A free page has no user, one that is not shared has one.                *)
PagesRight(table, t) ==
    \A p \in 0 .. LastPage(table) :
        /\ t.pages[p].zone = ZoneOf(table, p)
        /\ t.pages[p].attribute = {} <=> t.pages[p].reference_count = 0
        /\ t.pages[p].attribute # {} /\ ~Shared(t.pages[p].attribute) =>
              t.pages[p].reference_count = 1
        /\ t.pages[p].reference_count <= MaxReferences

(* What the counters of zone i are to count.                               *)
PagesIn(t, i) == {p \in DOMAIN t.pages : t.pages[p].zone = i}
UsedIn(t, i)  == {p \in PagesIn(t, i) : t.pages[p].attribute # {}}
UsersIn(t, i) == {u \in PagesIn(t, i) \X (1 .. MaxReferences) :
                     u[2] <= t.pages[u[1]].reference_count}

ZonesRight(table, t) ==
    \A i \in Zones(table) :
        /\ t.zones[i].start = FirstPage(table[i])
        /\ t.zones[i].end = EndPage(table[i])
        /\ t.zones[i].page_using_count = Cardinality(UsedIn(t, i))
        /\ t.zones[i].page_using_count + t.zones[i].page_free_count =
              t.zones[i].end - t.zones[i].start
        /\ t.zones[i].total_pages_link = Cardinality(UsersIn(t, i))

Right(table, t) ==
    Shaped(table, t) /\ PagesRight(table, t) /\ ZonesRight(table, t)

(* The parts of tables that have their shape.                              *)
LEMMA ShapeFacts ==
    ASSUME NEW table \in E820Maps, Fits(table), NEW t, Shaped(table, t)
    PROVE  /\ t.bits \in [0 .. Words(table) * W - 1 -> {0, 1}]
           /\ t.pages \in [0 .. LastPage(table) -> Page]
           /\ t.zones \in [Zones(table) -> Zone]
           /\ DOMAIN t.bits = 0 .. Words(table) * W - 1
           /\ DOMAIN t.pages = 0 .. LastPage(table)
           /\ DOMAIN t.zones = Zones(table)
           /\ \A p \in 0 .. LastPage(table) :
                 /\ t.pages[p] \in Page
                 /\ t.pages[p].zone \in Nat
                 /\ t.pages[p].attribute \in Flags \cup {{}}
                 /\ t.pages[p].reference_count \in Nat
           /\ \A i \in Zones(table) :
                 /\ t.zones[i] \in Zone
                 /\ t.zones[i].start \in Int /\ t.zones[i].end \in Int
                 /\ t.zones[i].page_using_count \in Int
                 /\ t.zones[i].page_free_count \in Int
                 /\ t.zones[i].total_pages_link \in Int
           /\ 0 .. LastPage(table) \subseteq 0 .. Words(table) * W - 1
<1>1. /\ t.bits \in [0 .. Words(table) * W - 1 -> {0, 1}]
      /\ t.pages \in [0 .. LastPage(table) -> Page]
      /\ t.zones \in [Zones(table) -> Zone]
  BY DEF Shaped
<1>2. ASSUME NEW p \in 0 .. LastPage(table)
      PROVE  /\ t.pages[p] \in Page
             /\ t.pages[p].zone \in Nat
             /\ t.pages[p].attribute \in Flags \cup {{}}
             /\ t.pages[p].reference_count \in Nat
  <2>1. t.pages[p] \in Page
    BY <1>1
  <2> QED BY <2>1 DEF Page
<1>3. ASSUME NEW i \in Zones(table)
      PROVE  /\ t.zones[i] \in Zone
             /\ t.zones[i].start \in Int /\ t.zones[i].end \in Int
             /\ t.zones[i].page_using_count \in Int
             /\ t.zones[i].page_free_count \in Int
             /\ t.zones[i].total_pages_link \in Int
  <2>1. t.zones[i] \in Zone
    BY <1>1
  <2> QED BY <2>1 DEF Zone
<1>4. 0 .. LastPage(table) \subseteq 0 .. Words(table) * W - 1
  <2> DEFINE total == TotalPages(table)
             n == Words(table) * W
  <2>1. total \in Nat /\ Words(table) \in Nat /\ W \in Nat /\ total <= n
    BY FitFacts
  <2>2. n \in Nat
    BY <2>1
  <2> HIDE DEF total, n
  <2>3. 0 .. total - 1 \subseteq 0 .. n - 1
    BY <2>1, <2>2
  <2> QED BY <2>3 DEF total, n, LastPage
<1> QED BY <1>1, <1>2, <1>3, <1>4

(* There are finitely many of them to count.                               *)
LEMMA CountedFinite ==
    ASSUME NEW table \in E820Maps, Fits(table), NEW t, Shaped(table, t), NEW i
    PROVE  /\ IsFiniteSet(UsedIn(t, i)) /\ UsedIn(t, i) \subseteq PagesIn(t, i)
           /\ IsFiniteSet(UsersIn(t, i))
           /\ PagesIn(t, i) \subseteq 0 .. LastPage(table)
           /\ IsFiniteSet(PagesIn(t, i))
           /\ \A P \in SUBSET (0 .. LastPage(table)) : IsFiniteSet(P)
<1>1. IsFiniteSet(0 .. LastPage(table))
  <2>1. LastPage(table) \in Int
    BY FitFacts DEF LastPage
  <2> QED BY <2>1, FS_Interval
<1>2. PagesIn(t, i) \in SUBSET (0 .. LastPage(table))
  BY ShapeFacts DEF PagesIn
<1>3. \A P \in SUBSET (0 .. LastPage(table)) : IsFiniteSet(P)
  BY <1>1, FS_Subset
<1>4. UsedIn(t, i) \in SUBSET PagesIn(t, i)
  BY DEF UsedIn
<1>5. IsFiniteSet(1 .. MaxReferences)
  <2>1. MaxReferences \in Int
    BY MemoryAssumption
  <2> QED BY <2>1, FS_Interval
<1>6. IsFiniteSet(PagesIn(t, i) \X (1 .. MaxReferences))
  BY <1>2, <1>3, <1>5, FS_Product
<1>7. UsersIn(t, i) \in SUBSET (PagesIn(t, i) \X (1 .. MaxReferences))
  BY DEF UsersIn
<1>8. IsFiniteSet(UsersIn(t, i))
  BY <1>6, <1>7, FS_Subset
<1> QED BY <1>2, <1>3, <1>4, <1>8

(* What page_init() does to the tables t, field by field, to make them n.  *)
Came(table, t, P, first, further, flags, n) ==
    /\ n = [bits |-> n.bits, pages |-> n.pages, zones |-> n.zones]
    /\ n.bits = [p \in 0 .. Words(table) * W - 1 |->
                    IF p \in P \ further THEN 1 ELSE t.bits[p]]
    /\ n.pages = [p \in 0 .. LastPage(table) |-> n.pages[p]]
    /\ n.zones = [i \in Zones(table) |-> n.zones[i]]
    /\ \A p \in 0 .. LastPage(table) :
          /\ p \notin P => n.pages[p] = t.pages[p]
          /\ p \in P =>
                /\ n.pages[p].zone = t.pages[p].zone
                /\ n.pages[p].attribute = t.pages[p].attribute \cup flags
                /\ n.pages[p].reference_count =
                      t.pages[p].reference_count +
                      (IF p \in first \cup further THEN 1 ELSE 0)
                /\ n.pages[p] \in Page
    /\ \A i \in Zones(table) :
          /\ n.zones[i].start = t.zones[i].start
          /\ n.zones[i].end = t.zones[i].end
          /\ n.zones[i].page_using_count = t.zones[i].page_using_count +
                Cardinality({p \in first : t.pages[p].zone = i})
          /\ n.zones[i].page_free_count = t.zones[i].page_free_count -
                Cardinality({p \in first : t.pages[p].zone = i})
          /\ n.zones[i].total_pages_link = t.zones[i].total_pages_link +
                Cardinality({p \in first \cup further :
                                t.pages[p].zone = i})
          /\ /\ Cardinality({p \in first : t.pages[p].zone = i}) \in Int
             /\ Cardinality({p \in first \cup further :
                                t.pages[p].zone = i}) \in Int
             => n.zones[i] \in Zone

(* It does.                                                                *)
LEMMA UsersComeFields ==
    ASSUME NEW table \in E820Maps, Fits(table), NEW t, Shaped(table, t),
           NEW P, NEW first, NEW further, NEW flags \in Flags, NEW n,
           n = UsersCome(t, P, first, further, flags)
    PROVE  Came(table, t, P, first, further, flags, n)
<1>1. /\ n = [bits |-> n.bits, pages |-> n.pages, zones |-> n.zones]
      /\ n.bits = [p \in DOMAIN t.bits |->
                      IF p \in P \ further THEN 1 ELSE t.bits[p]]
      /\ n.pages = [p \in DOMAIN t.pages |->
                      IF p \notin P THEN t.pages[p]
                      ELSE [t.pages[p] EXCEPT
                               !.attribute = @ \cup flags,
                               !.reference_count =
                                   IF p \in first \cup further
                                   THEN @ + 1 ELSE @]]
      /\ n.zones = [i \in DOMAIN t.zones |->
                      [t.zones[i] EXCEPT
                          !.page_using_count = @ +
                              Cardinality({p \in first : t.pages[p].zone = i}),
                          !.page_free_count  = @ -
                              Cardinality({p \in first : t.pages[p].zone = i}),
                          !.total_pages_link = @ +
                              Cardinality({p \in first \cup further :
                                              t.pages[p].zone = i})]]
  BY DEF UsersCome
<1>2. /\ DOMAIN t.bits = 0 .. Words(table) * W - 1
      /\ DOMAIN t.pages = 0 .. LastPage(table)
      /\ DOMAIN t.zones = Zones(table)
  BY ShapeFacts
<1>3. ASSUME NEW p \in 0 .. LastPage(table), p \in P
      PROVE  /\ n.pages[p].zone = t.pages[p].zone
             /\ n.pages[p].attribute = t.pages[p].attribute \cup flags
             /\ n.pages[p].reference_count = t.pages[p].reference_count +
                   (IF p \in first \cup further THEN 1 ELSE 0)
             /\ n.pages[p] \in Page
  <2>1. PICK q : q = t.pages[p]
    OBVIOUS
  <2>2. PICK m : m = n.pages[p]
    OBVIOUS
  <2>3. PICK more \in {0, 1} : more = (IF p \in first \cup further THEN 1 ELSE 0)
    OBVIOUS
  <2>4. /\ q \in Page /\ q.attribute \in Flags \cup {{}}
        /\ q.reference_count \in Nat
    BY <2>1, ShapeFacts
  <2>5. m = [q EXCEPT !.attribute = @ \cup flags,
                      !.reference_count =
                          IF p \in first \cup further THEN @ + 1 ELSE @]
    BY <1>1, <1>2, <1>3, <2>1, <2>2
  <2>6. PICK count \in Nat : count = q.reference_count + more
    BY <2>4
  <2>7. m = [q EXCEPT !.attribute = @ \cup flags, !.reference_count = count]
    <3>1. (IF p \in first \cup further
           THEN q.reference_count + 1 ELSE q.reference_count) = count
      BY <2>3, <2>4, <2>6
    <3>2. m = [q EXCEPT !.attribute = q.attribute \cup flags,
                        !.reference_count =
                            IF p \in first \cup further
                            THEN q.reference_count + 1 ELSE q.reference_count]
      BY <2>5
    <3> QED BY <3>1, <3>2
  <2>8. q.attribute \cup flags \in Flags \cup {{}}
    BY <2>4 DEF Flags
  <2>9. /\ m \in Page /\ m.zone = q.zone /\ m.reference_count = count
        /\ m.attribute = q.attribute \cup flags
    BY <2>4, <2>7, <2>8 DEF Page
  <2> QED BY <2>1, <2>2, <2>3, <2>6, <2>9
<1>4. ASSUME NEW i \in Zones(table)
      PROVE  LET c == Cardinality({p \in first : t.pages[p].zone = i})
                 d == Cardinality({p \in first \cup further : t.pages[p].zone = i})
             IN  /\ n.zones[i].start = t.zones[i].start
                 /\ n.zones[i].end = t.zones[i].end
                 /\ n.zones[i].page_using_count = t.zones[i].page_using_count + c
                 /\ n.zones[i].page_free_count = t.zones[i].page_free_count - c
                 /\ n.zones[i].total_pages_link = t.zones[i].total_pages_link + d
                 /\ c \in Int /\ d \in Int => n.zones[i] \in Zone
  <2>1. PICK c : c = Cardinality({p \in first : t.pages[p].zone = i})
    OBVIOUS
  <2>2. PICK d : d = Cardinality({p \in first \cup further : t.pages[p].zone = i})
    OBVIOUS
  <2>3. PICK z : z = t.zones[i]
    OBVIOUS
  <2>4. PICK m : m = n.zones[i]
    OBVIOUS
  <2>5. m = [z EXCEPT !.page_using_count = @ + c, !.page_free_count  = @ - c,
                      !.total_pages_link = @ + d]
    BY <1>1, <1>2, <2>1, <2>2, <2>3, <2>4
  <2>6. z \in Zone
    BY <2>3, ShapeFacts
  <2>7. /\ m.start = z.start /\ m.end = z.end
        /\ m.page_using_count = z.page_using_count + c
        /\ m.page_free_count = z.page_free_count - c
        /\ m.total_pages_link = z.total_pages_link + d
    BY <2>5, <2>6 DEF Zone
  <2>8. ASSUME c \in Int, d \in Int
        PROVE  m \in Zone
    <3>1. /\ z.page_using_count + c \in Int /\ z.page_free_count - c \in Int
          /\ z.total_pages_link + d \in Int
      BY <2>6, <2>8 DEF Zone
    <3>2. m = [z EXCEPT !.page_using_count = z.page_using_count + c,
                        !.page_free_count  = z.page_free_count - c,
                        !.total_pages_link = z.total_pages_link + d]
      BY <2>5
    <3> QED BY <3>1, <3>2, <2>6 DEF Zone
  <2> QED BY <2>1, <2>2, <2>3, <2>4, <2>7, <2>8
<1>5. \A p \in 0 .. LastPage(table) : p \notin P => n.pages[p] = t.pages[p]
  BY <1>1, <1>2
<1>6. /\ n.bits = [p \in 0 .. Words(table) * W - 1 |->
                      IF p \in P \ further THEN 1 ELSE t.bits[p]]
      /\ n.pages = [p \in 0 .. LastPage(table) |-> n.pages[p]]
      /\ n.zones = [i \in Zones(table) |-> n.zones[i]]
  BY <1>1, <1>2
<1> QED BY <1>1, <1>3, <1>4, <1>5, <1>6 DEF Came

(* Each of the pages P of the tables t gets its first user, to make them n. *)
FirstCame(table, t, P, flags, n) ==
    /\ \A p \in 0 .. Words(table) * W - 1 :
          n.bits[p] = IF p \in P THEN 1 ELSE t.bits[p]
    /\ \A p \in 0 .. LastPage(table) :
          /\ p \notin P => n.pages[p] = t.pages[p]
          /\ p \in P => /\ n.pages[p].attribute = flags
                        /\ n.pages[p].reference_count = 1
    /\ \A i \in Zones(table) :
          n.zones[i].page_free_count =
              t.zones[i].page_free_count
              - Cardinality({p \in P : t.pages[p].zone = i})

(* page_init() of pages that are all free.                                 *)
LEMMA FirstUsers ==
    ASSUME NEW table \in E820Maps, Fits(table), NEW t, Right(table, t),
           NEW P \in SUBSET (0 .. LastPage(table)), NEW flags \in Flags,
           \A p \in P : t.pages[p].attribute = {}, NEW n,
           n = page_init(t, P, flags)
    PROVE  Right(table, n) /\ FirstCame(table, t, P, flags, n)
<1> DEFINE in(i) == {p \in P : t.pages[p].zone = i}
<1>1. Shaped(table, t) /\ PagesRight(table, t) /\ ZonesRight(table, t)
  BY DEF Right
<1>2. n = UsersCome(t, P, P, {}, flags)
  <2>1. {p \in P : t.pages[p].attribute = {}} = P
    OBVIOUS
  <2>2. {p \in P \ P : Shared(t.pages[p].attribute) \/ Shared(flags)} = {}
    OBVIOUS
  <2> QED BY <2>1, <2>2, Zenon DEF page_init
<1>3. /\ P \cup {} = P /\ P \ {} = P
      /\ Came(table, t, P, P, {}, flags, n)
  BY <1>1, <1>2, UsersComeFields
<1>4. /\ n = [bits |-> n.bits, pages |-> n.pages, zones |-> n.zones]
      /\ n.bits = [p \in 0 .. Words(table) * W - 1 |->
                      IF p \in P THEN 1 ELSE t.bits[p]]
      /\ n.pages = [p \in 0 .. LastPage(table) |-> n.pages[p]]
      /\ n.zones = [i \in Zones(table) |-> n.zones[i]]
  <2>1. /\ n = [bits |-> n.bits, pages |-> n.pages, zones |-> n.zones]
        /\ n.bits = [p \in 0 .. Words(table) * W - 1 |->
                        IF p \in P \ {} THEN 1 ELSE t.bits[p]]
        /\ n.pages = [p \in 0 .. LastPage(table) |-> n.pages[p]]
        /\ n.zones = [i \in Zones(table) |-> n.zones[i]]
    BY <1>3 DEF Came
  <2> QED BY <2>1, <1>3
<1>5. \A p \in P : /\ t.pages[p].reference_count = 0
                   /\ t.pages[p].attribute = {}
                   /\ t.pages[p] \in Page
  BY <1>1, ShapeFacts DEF PagesRight
<1>6. \A p \in 0 .. LastPage(table) :
         /\ p \notin P => n.pages[p] = t.pages[p]
         /\ p \in P => /\ n.pages[p].zone = t.pages[p].zone
                       /\ n.pages[p].attribute = t.pages[p].attribute \cup flags
                       /\ n.pages[p].reference_count =
                             t.pages[p].reference_count +
                             (IF p \in P \cup {} THEN 1 ELSE 0)
                       /\ n.pages[p] \in Page
  BY <1>3 DEF Came
<1>7. flags # {} /\ flags \in Flags \cup {{}} /\ 1 <= MaxReferences
  <2>1. flags # {} /\ flags \in Flags \cup {{}}
    BY Zenon DEF Flags
  <2>2. 1 <= MaxReferences
    BY MemoryAssumption
  <2> QED BY <2>1, <2>2
<1>8. \A p \in 0 .. LastPage(table) :
         /\ n.pages[p] \in Page /\ n.pages[p].zone = t.pages[p].zone
         /\ p \in P => n.pages[p].attribute = flags /\ n.pages[p].reference_count = 1
         /\ p \notin P => n.pages[p] = t.pages[p]
  <2> SUFFICES ASSUME NEW p \in 0 .. LastPage(table)
               PROVE  /\ n.pages[p] \in Page /\ n.pages[p].zone = t.pages[p].zone
                      /\ p \in P => /\ n.pages[p].attribute = flags
                                    /\ n.pages[p].reference_count = 1
                      /\ p \notin P => n.pages[p] = t.pages[p]
    OBVIOUS
  <2>1. CASE p \in P
    <3>1. /\ n.pages[p].zone = t.pages[p].zone /\ n.pages[p] \in Page
          /\ n.pages[p].attribute = t.pages[p].attribute \cup flags
          /\ n.pages[p].reference_count = t.pages[p].reference_count + 1
      BY <1>3, <1>6, <2>1
    <3>2. t.pages[p].reference_count = 0 /\ t.pages[p].attribute = {}
      BY <1>5, <2>1
    <3> QED BY <3>1, <3>2, <2>1
  <2>2. CASE p \notin P
    <3>1. t.pages[p] \in Page /\ n.pages[p] = t.pages[p]
      BY <1>1, <1>6, <2>2, ShapeFacts
    <3> QED BY <3>1, <2>2
  <2> QED BY <2>1, <2>2
<1>9. /\ DOMAIN n.pages = 0 .. LastPage(table)
      /\ n.pages \in [0 .. LastPage(table) -> Page]
  BY <1>4, <1>8
<1>10. ASSUME NEW i \in Zones(table)
       PROVE  /\ IsFiniteSet(in(i)) /\ Cardinality(in(i)) \in Nat
              /\ n.zones[i] \in Zone
              /\ n.zones[i].start = t.zones[i].start
              /\ n.zones[i].end = t.zones[i].end
              /\ n.zones[i].page_using_count =
                    t.zones[i].page_using_count + Cardinality(in(i))
              /\ n.zones[i].page_free_count =
                    t.zones[i].page_free_count - Cardinality(in(i))
              /\ n.zones[i].total_pages_link =
                    t.zones[i].total_pages_link + Cardinality(in(i))
  <2>1. in(i) \in SUBSET (0 .. LastPage(table))
    OBVIOUS
  <2>2. IsFiniteSet(in(i))
    BY <2>1, <1>1, CountedFinite
  <2>3. Cardinality(in(i)) \in Nat
    BY <2>2, FS_CardinalityType
  <2>4. {p \in P \cup {} : t.pages[p].zone = i} = in(i)
    BY <1>3
  <2>5. /\ n.zones[i].start = t.zones[i].start
        /\ n.zones[i].end = t.zones[i].end
        /\ n.zones[i].page_using_count =
              t.zones[i].page_using_count + Cardinality(in(i))
        /\ n.zones[i].page_free_count =
              t.zones[i].page_free_count - Cardinality(in(i))
        /\ n.zones[i].total_pages_link = t.zones[i].total_pages_link +
              Cardinality({p \in P \cup {} : t.pages[p].zone = i})
        /\ /\ Cardinality(in(i)) \in Int
           /\ Cardinality({p \in P \cup {} : t.pages[p].zone = i}) \in Int
           => n.zones[i] \in Zone
    BY <1>3 DEF Came
  <2>6. Cardinality(in(i)) \in Int
    BY <2>3
  <2> HIDE DEF in
  <2> QED BY <2>2, <2>3, <2>4, <2>5, <2>6
<1>11. ASSUME NEW i \in Zones(table)
       PROVE  /\ PagesIn(n, i) = PagesIn(t, i)
              /\ UsedIn(n, i) = UsedIn(t, i) \cup in(i)
              /\ UsedIn(t, i) \cap in(i) = {}
              /\ UsersIn(n, i) = UsersIn(t, i) \cup (in(i) \X {1})
              /\ UsersIn(t, i) \cap (in(i) \X {1}) = {}
  <2>1. PagesIn(n, i) = PagesIn(t, i)
    BY <1>1, <1>8, <1>9, ShapeFacts DEF PagesIn
  <2>2. in(i) \subseteq PagesIn(t, i)
    BY <1>1, ShapeFacts DEF PagesIn
  <2>3. PagesIn(t, i) \subseteq 0 .. LastPage(table)
    BY <1>1, ShapeFacts DEF PagesIn
  <2>4. \A p \in PagesIn(t, i) : p \in in(i) <=> p \in P
    BY DEF PagesIn
  <2> HIDE DEF in
  <2>5. UsedIn(n, i) = UsedIn(t, i) \cup in(i) /\ UsedIn(t, i) \cap in(i) = {}
    BY <1>5, <1>7, <1>8, <2>1, <2>2, <2>3, <2>4 DEF UsedIn
  <2>6. UsersIn(n, i) = UsersIn(t, i) \cup (in(i) \X {1})
    <3>1. ASSUME NEW p \in PagesIn(t, i), NEW k \in 1 .. MaxReferences
          PROVE  k <= n.pages[p].reference_count <=>
                 \/ k <= t.pages[p].reference_count
                 \/ p \in in(i) /\ k = 1
      BY <1>5, <1>7, <1>8, <2>3, <2>4
    <3>2. 1 \in 1 .. MaxReferences
      BY MemoryAssumption
    <3> QED BY <2>1, <2>2, <3>1, <3>2 DEF UsersIn
  <2>7. UsersIn(t, i) \cap (in(i) \X {1}) = {}
    <3>1. ASSUME NEW u \in UsersIn(t, i), u \in in(i) \X {1}
          PROVE  FALSE
      <4>1. u[1] \in in(i) /\ u[2] = 1
        BY <3>1
      <4>2. t.pages[u[1]].reference_count = 0
        BY <4>1, <1>5, <2>2, <2>4
      <4>3. u[2] <= t.pages[u[1]].reference_count
        BY DEF UsersIn
      <4> QED BY <4>1, <4>2, <4>3
    <3> QED BY <3>1
  <2> QED BY <2>1, <2>5, <2>6, <2>7
<1>12. Shaped(table, n)
  <2>1. t.bits \in [0 .. Words(table) * W - 1 -> {0, 1}]
    BY <1>1, ShapeFacts
  <2>2. n.bits \in [0 .. Words(table) * W - 1 -> {0, 1}]
    <3>1. n.bits = [p \in 0 .. Words(table) * W - 1 |->
                       IF p \in P THEN 1 ELSE t.bits[p]]
      BY <1>4
    <3> QED BY <2>1, <3>1
  <2>3. n.zones \in [Zones(table) -> Zone]
    BY <1>4, <1>10
  <2> QED BY <2>2, <2>3, <1>4, <1>9 DEF Shaped
<1>13. PagesRight(table, n)
  BY <1>1, <1>7, <1>8 DEF PagesRight
<1>14. ZonesRight(table, n)
  <2> SUFFICES ASSUME NEW i \in Zones(table)
               PROVE  /\ n.zones[i].start = FirstPage(table[i])
                      /\ n.zones[i].end = EndPage(table[i])
                      /\ n.zones[i].page_using_count = Cardinality(UsedIn(n, i))
                      /\ n.zones[i].page_using_count + n.zones[i].page_free_count =
                            n.zones[i].end - n.zones[i].start
                      /\ n.zones[i].total_pages_link = Cardinality(UsersIn(n, i))
    BY DEF ZonesRight
  <2>1. /\ t.zones[i].start = FirstPage(table[i])
        /\ t.zones[i].end = EndPage(table[i])
        /\ t.zones[i].page_using_count = Cardinality(UsedIn(t, i))
        /\ t.zones[i].page_using_count + t.zones[i].page_free_count =
              t.zones[i].end - t.zones[i].start
        /\ t.zones[i].total_pages_link = Cardinality(UsersIn(t, i))
    BY <1>1 DEF ZonesRight
  <2>2. /\ t.zones[i].page_using_count \in Int /\ t.zones[i].page_free_count \in Int
        /\ t.zones[i].total_pages_link \in Int
    BY <1>1, ShapeFacts
  <2>3. /\ IsFiniteSet(UsedIn(t, i)) /\ IsFiniteSet(UsersIn(t, i))
    BY <1>1, CountedFinite
  <2>4. Cardinality(UsedIn(n, i)) = Cardinality(UsedIn(t, i)) + Cardinality(in(i))
    <3>1. /\ IsFiniteSet(in(i)) /\ UsedIn(t, i) \cap in(i) = {}
          /\ UsedIn(n, i) = UsedIn(t, i) \cup in(i)
      BY <1>10, <1>11
    <3> HIDE DEF in
    <3> QED BY <2>3, <3>1, Disjoint
  <2>5. /\ IsFiniteSet(in(i) \X {1})
        /\ Cardinality(in(i) \X {1}) = Cardinality(in(i))
    <3>1. IsFiniteSet({1}) /\ Cardinality({1}) = 1
      BY FS_Singleton
    <3>2. /\ IsFiniteSet(in(i) \X {1})
          /\ Cardinality(in(i) \X {1}) = Cardinality(in(i)) * Cardinality({1})
      BY <3>1, <1>10, FS_Product
    <3>3. Cardinality(in(i)) \in Nat
      BY <1>10
    <3> HIDE DEF in
    <3> QED BY <3>1, <3>2, <3>3
  <2>6. Cardinality(UsersIn(n, i)) =
        Cardinality(UsersIn(t, i)) + Cardinality(in(i))
    BY <1>11, <2>3, <2>5, Disjoint
  <2> QED BY <1>10, <2>1, <2>2, <2>4, <2>6
<1>15. Right(table, n)
  BY <1>12, <1>13, <1>14 DEF Right
<1> QED BY <1>4, <1>8, <1>10, <1>15 DEF FirstCame

(* When only page p changes, and it had users and gets one more or one     *)
(* less, the counts of its zone change by as much and no others.           *)
LEMMA OnePageCounts ==
    ASSUME NEW table \in E820Maps, Fits(table),
           NEW t, Shaped(table, t), NEW n, Shaped(table, n),
           NEW p \in 0 .. LastPage(table), NEW i \in Zones(table),
           t.pages[p].attribute # {},
           \A q \in 0 .. LastPage(table) : q # p => n.pages[q] = t.pages[q],
           n.pages[p].zone = t.pages[p].zone,
           t.pages[p].reference_count \in 1 .. MaxReferences,
           n.pages[p].reference_count \in 0 .. MaxReferences,
           n.pages[p].reference_count \in
               {t.pages[p].reference_count + 1, t.pages[p].reference_count - 1}
    PROVE  /\ Cardinality(UsedIn(n, i)) = Cardinality(UsedIn(t, i)) -
                 (IF t.pages[p].zone = i /\ n.pages[p].attribute = {}
                  THEN 1 ELSE 0)
           /\ Cardinality(UsersIn(n, i)) = Cardinality(UsersIn(t, i)) +
                 (IF t.pages[p].zone = i
                  THEN n.pages[p].reference_count - t.pages[p].reference_count
                  ELSE 0)
<1> DEFINE zone == t.pages[p].zone
           old == t.pages[p].reference_count
           new == n.pages[p].reference_count
<1>1. /\ PagesIn(n, i) = PagesIn(t, i)
      /\ PagesIn(t, i) \subseteq 0 .. LastPage(table)
  <2>1. DOMAIN t.pages = 0 .. LastPage(table)
    BY ShapeFacts
  <2>2. DOMAIN n.pages = 0 .. LastPage(table)
    BY ShapeFacts
  <2>3. \A q \in 0 .. LastPage(table) : n.pages[q].zone = t.pages[q].zone
    OBVIOUS
  <2> QED BY <2>1, <2>2, <2>3 DEF PagesIn
<1>2. p \in PagesIn(t, i) <=> zone = i
  BY ShapeFacts DEF PagesIn
<1>3. /\ IsFiniteSet(UsedIn(t, i)) /\ Cardinality(UsedIn(t, i)) \in Nat
      /\ IsFiniteSet(UsersIn(t, i)) /\ Cardinality(UsersIn(t, i)) \in Nat
  BY CountedFinite, FS_CardinalityType
<1>4. Cardinality(UsedIn(n, i)) = Cardinality(UsedIn(t, i)) -
         (IF zone = i /\ n.pages[p].attribute = {} THEN 1 ELSE 0)
  <2>1. CASE zone = i /\ n.pages[p].attribute = {}
    <3>1. UsedIn(n, i) = UsedIn(t, i) \ {p} /\ p \in UsedIn(t, i)
      BY <1>1, <1>2, <2>1 DEF UsedIn
    <3>2. Cardinality(UsedIn(t, i) \ {p}) = Cardinality(UsedIn(t, i)) - 1
      BY <3>1, <1>3, FS_RemoveElement
    <3> QED BY <3>1, <3>2, <2>1
  <2>2. CASE ~(zone = i /\ n.pages[p].attribute = {})
    <3>1. UsedIn(n, i) = UsedIn(t, i)
      BY <1>1, <1>2, <2>2 DEF UsedIn
    <3> QED BY <3>1, <2>2, <1>3
  <2> QED BY <2>1, <2>2
<1>5. CASE zone # i
  <2>1. \A u \in PagesIn(t, i) \X (1 .. MaxReferences) :
           n.pages[u[1]] = t.pages[u[1]]
    BY <1>1, <1>2, <1>5
  <2>2. UsersIn(n, i) = UsersIn(t, i)
    BY <1>1, <2>1 DEF UsersIn
  <2> QED BY <2>2, <1>3, <1>4, <1>5
<1>6. CASE zone = i /\ new = old + 1
  <2>1. UsersIn(n, i) = UsersIn(t, i) \cup {<<p, new>>}
    <3>1. <<p, new>> \in UsersIn(n, i)
      BY <1>1, <1>2, <1>6 DEF UsersIn
    <3>2. \A u \in PagesIn(t, i) \X (1 .. MaxReferences) :
             u # <<p, new>> =>
                (u[2] <= n.pages[u[1]].reference_count <=>
                    u[2] <= t.pages[u[1]].reference_count)
      BY <1>1, <1>6
    <3> QED BY <1>1, <3>1, <3>2 DEF UsersIn
  <2>2. <<p, new>> \notin UsersIn(t, i)
    BY <1>6 DEF UsersIn
  <2>3. Cardinality(UsersIn(n, i)) = Cardinality(UsersIn(t, i)) + 1
    <3> DEFINE S == UsersIn(t, i)
               x == <<p, new>>
    <3>1. UsersIn(n, i) = S \cup {x} /\ x \notin S /\ IsFiniteSet(S)
      BY <2>1, <2>2, <1>3
    <3> HIDE DEF S, x
    <3>2. Cardinality(S \cup {x}) = Cardinality(S) + 1
      BY <3>1, FS_AddElement
    <3> QED BY <3>1, <3>2 DEF S
  <2> QED BY <2>3, <1>3, <1>4, <1>6
<1>7. CASE zone = i /\ new = old - 1
  <2>1. UsersIn(n, i) = UsersIn(t, i) \ {<<p, old>>}
    <3>1. <<p, old>> \notin UsersIn(n, i)
      BY <1>7 DEF UsersIn
    <3>2. \A u \in PagesIn(t, i) \X (1 .. MaxReferences) :
             u # <<p, old>> =>
                (u[2] <= n.pages[u[1]].reference_count <=>
                    u[2] <= t.pages[u[1]].reference_count)
      BY <1>1, <1>7
    <3> QED BY <1>1, <3>1, <3>2 DEF UsersIn
  <2>2. <<p, old>> \in UsersIn(t, i)
    BY <1>2, <1>7 DEF UsersIn
  <2>3. Cardinality(UsersIn(n, i)) = Cardinality(UsersIn(t, i)) - 1
    <3> DEFINE S == UsersIn(t, i)
               x == <<p, old>>
    <3>1. UsersIn(n, i) = S \ {x} /\ x \in S /\ IsFiniteSet(S)
      BY <2>1, <2>2, <1>3
    <3> HIDE DEF S, x
    <3>2. Cardinality(S \ {x}) = Cardinality(S) - 1
      BY <3>1, FS_RemoveElement
    <3> QED BY <3>1, <3>2 DEF S
  <2> QED BY <2>3, <1>3, <1>4, <1>7
<1> QED BY <1>5, <1>6, <1>7

(* Page p of the tables t, in use, gets one user more or less to make them *)
(* n, and its zone counts it; freed is 1 if that was the last user.        *)
OneUser(table, t, n, p, freed) ==
    /\ t.pages[p].attribute # {}
    /\ \A q \in 0 .. LastPage(table) : q # p => n.pages[q] = t.pages[q]
    /\ n.pages[p].zone = t.pages[p].zone
    /\ n.pages[p].attribute = {} <=> n.pages[p].reference_count = 0
    /\ n.pages[p].attribute # {} => Shared(n.pages[p].attribute)
    /\ n.pages[p].reference_count \in 0 .. MaxReferences
    /\ n.pages[p].reference_count \in
           {t.pages[p].reference_count + 1, t.pages[p].reference_count - 1}
    /\ freed = IF n.pages[p].attribute = {} THEN 1 ELSE 0
    /\ \A i \in Zones(table) :
           t.pages[p].zone = i =>
              /\ n.zones[i].start = t.zones[i].start
              /\ n.zones[i].end = t.zones[i].end
              /\ n.zones[i].page_using_count = t.zones[i].page_using_count - freed
              /\ n.zones[i].page_free_count = t.zones[i].page_free_count + freed
              /\ n.zones[i].total_pages_link = t.zones[i].total_pages_link +
                    n.pages[p].reference_count - t.pages[p].reference_count
    /\ \A i \in Zones(table) : t.pages[p].zone # i => n.zones[i] = t.zones[i]

(* The tables stay right.                                                  *)
LEMMA OneUserRight ==
    ASSUME NEW table \in E820Maps, Fits(table),
           NEW t, Right(table, t), NEW n, Shaped(table, n),
           NEW p \in 0 .. LastPage(table), NEW freed,
           OneUser(table, t, n, p, freed)
    PROVE  Right(table, n)
<1>1. Shaped(table, t) /\ PagesRight(table, t) /\ ZonesRight(table, t)
  BY DEF Right
<1>2. t.pages[p].reference_count \in 1 .. MaxReferences
  <2>1. /\ t.pages[p].reference_count \in Nat
        /\ t.pages[p].reference_count # 0
        /\ t.pages[p].reference_count <= MaxReferences
    BY <1>1, ShapeFacts DEF PagesRight, OneUser
  <2> QED BY <2>1, MemoryAssumption
<1>3. PagesRight(table, n)
  <2>1. \A q \in 0 .. LastPage(table) : n.pages[q].zone = t.pages[q].zone
    BY DEF OneUser
  <2>2. n.pages[p].reference_count <= MaxReferences
    BY Numbers DEF OneUser
  <2> QED BY <1>1, <2>1, <2>2 DEF PagesRight, OneUser
<1>4. ZonesRight(table, n)
  <2> SUFFICES ASSUME NEW i \in Zones(table)
               PROVE  /\ n.zones[i].start = FirstPage(table[i])
                      /\ n.zones[i].end = EndPage(table[i])
                      /\ n.zones[i].page_using_count = Cardinality(UsedIn(n, i))
                      /\ n.zones[i].page_using_count + n.zones[i].page_free_count =
                            n.zones[i].end - n.zones[i].start
                      /\ n.zones[i].total_pages_link = Cardinality(UsersIn(n, i))
    BY DEF ZonesRight
  <2>1. /\ t.zones[i].start = FirstPage(table[i])
        /\ t.zones[i].end = EndPage(table[i])
        /\ t.zones[i].page_using_count = Cardinality(UsedIn(t, i))
        /\ t.zones[i].page_using_count + t.zones[i].page_free_count =
              t.zones[i].end - t.zones[i].start
        /\ t.zones[i].total_pages_link = Cardinality(UsersIn(t, i))
    BY <1>1 DEF ZonesRight
  <2>2. /\ t.zones[i].page_using_count \in Int /\ t.zones[i].page_free_count \in Int
        /\ t.zones[i].total_pages_link \in Int
    BY <1>1, ShapeFacts
  <2>3. /\ Cardinality(UsedIn(n, i)) = Cardinality(UsedIn(t, i)) -
              (IF t.pages[p].zone = i /\ n.pages[p].attribute = {}
               THEN 1 ELSE 0)
        /\ Cardinality(UsersIn(n, i)) = Cardinality(UsersIn(t, i)) +
              (IF t.pages[p].zone = i
               THEN n.pages[p].reference_count - t.pages[p].reference_count
               ELSE 0)
    BY <1>1, <1>2, OnePageCounts DEF OneUser
  <2>4. /\ n.pages[p].reference_count \in Int
        /\ t.pages[p].reference_count \in Int
    BY <1>2, Numbers DEF OneUser
  <2>5. CASE t.pages[p].zone = i
    BY <2>1, <2>2, <2>3, <2>4, <2>5 DEF OneUser
  <2>6. CASE t.pages[p].zone # i
    <3>1. n.zones[i] = t.zones[i]
      BY <2>6 DEF OneUser
    <3> QED BY <3>1, <2>1, <2>2, <2>3, <2>6
  <2> QED BY <2>5, <2>6
<1> QED BY <1>3, <1>4 DEF Right

(* page_init() for a further user of page p.                               *)
Joined(t, p) == page_init(t, {p}, {"kernel", "shared"})

(* A further user of a page in use, which is a shared one from then on.    *)
LEMMA FurtherUser ==
    ASSUME NEW table \in E820Maps, Fits(table), NEW t, Right(table, t),
           NEW p \in 0 .. LastPage(table), t.pages[p].attribute # {},
           t.pages[p].reference_count < MaxReferences, NEW n,
           n = Joined(t, p)
    PROVE  /\ Right(table, n)
           /\ n.bits = t.bits
           /\ \A q \in 0 .. LastPage(table) : q # p => n.pages[q] = t.pages[q]
           /\ n.pages[p].attribute = {"kernel", "shared"}
           /\ n.pages[p].reference_count = t.pages[p].reference_count + 1
           /\ \A i \in Zones(table) :
                 n.zones[i].page_free_count = t.zones[i].page_free_count
<1> DEFINE flags == {"kernel", "shared"}
           in(i) == Cardinality({q \in {p} : t.pages[q].zone = i})
<1>1. Shaped(table, t) /\ PagesRight(table, t) /\ ZonesRight(table, t)
  BY DEF Right
<1>2. n = UsersCome(t, {p}, {}, {p}, flags)
  <2>1. {q \in {p} : t.pages[q].attribute = {}} = {}
    OBVIOUS
  <2>2. {p} \ {} = {p}
    OBVIOUS
  <2>3. Shared(flags)
    BY DEF Shared
  <2> HIDE DEF flags
  <2>4. {q \in {p} : Shared(t.pages[q].attribute) \/ Shared(flags)} = {p}
    BY <2>3
  <2>5. n = page_init(t, {p}, flags)
    BY DEF flags, Joined
  <2> QED BY <2>1, <2>2, <2>4, <2>5, Zenon DEF page_init
<1>3. Came(table, t, {p}, {}, {p}, flags, n)
  <2>1. flags \in Flags
    BY DEF Flags
  <2> HIDE DEF flags
  <2> QED BY <2>1, <1>1, <1>2, UsersComeFields
<1>4. /\ n = [bits |-> n.bits, pages |-> n.pages, zones |-> n.zones]
      /\ n.bits = [q \in 0 .. Words(table) * W - 1 |->
                      IF q \in {p} \ {p} THEN 1 ELSE t.bits[q]]
      /\ n.pages = [q \in 0 .. LastPage(table) |-> n.pages[q]]
      /\ n.zones = [i \in Zones(table) |-> n.zones[i]]
  BY <1>3 DEF Came
<1>5. \A q \in 0 .. LastPage(table) :
         /\ q \notin {p} => n.pages[q] = t.pages[q]
         /\ q \in {p} => /\ n.pages[q].zone = t.pages[q].zone
                         /\ n.pages[q].attribute = t.pages[q].attribute \cup flags
                         /\ n.pages[q].reference_count =
                               t.pages[q].reference_count +
                               (IF q \in {} \cup {p} THEN 1 ELSE 0)
                         /\ n.pages[q] \in Page
  BY <1>3 DEF Came
<1>6. n.bits = t.bits /\ n.bits \in [0 .. Words(table) * W - 1 -> {0, 1}]
  <2>1. t.bits \in [0 .. Words(table) * W - 1 -> {0, 1}]
    BY <1>1, ShapeFacts
  <2>2. n.bits = [q \in 0 .. Words(table) * W - 1 |-> t.bits[q]]
    <3>1. \A q \in 0 .. Words(table) * W - 1 : q \notin {p} \ {p}
      OBVIOUS
    <3> QED BY <1>4, <3>1
  <2> QED BY <2>1, <2>2
<1>7. t.pages[p].reference_count \in 1 .. MaxReferences - 1
  <2>1. /\ t.pages[p].reference_count \in Nat /\ t.pages[p].reference_count # 0
        /\ t.pages[p].reference_count < MaxReferences
    BY <1>1, ShapeFacts DEF PagesRight
  <2> QED BY <2>1, MemoryAssumption
<1>8. /\ n.pages[p].zone = t.pages[p].zone /\ n.pages[p] \in Page
      /\ n.pages[p].attribute = flags
      /\ n.pages[p].reference_count = t.pages[p].reference_count + 1
  <2>1. p \in {p} /\ p \in {} \cup {p}
    OBVIOUS
  <2>2. t.pages[p].attribute \cup flags = flags
    <3>1. t.pages[p].attribute \in Flags \cup {{}}
      BY <1>1, ShapeFacts
    <3> QED BY <3>1 DEF Flags
  <2> HIDE DEF flags
  <2> QED BY <1>5, <2>1, <2>2
<1>9. \A q \in 0 .. LastPage(table) : q # p => n.pages[q] = t.pages[q]
  BY <1>5
<1>10. n.pages \in [0 .. LastPage(table) -> Page]
  <2>1. \A q \in 0 .. LastPage(table) : n.pages[q] \in Page
    BY <1>1, <1>8, <1>9, ShapeFacts
  <2> QED BY <1>4, <2>1
<1>11. ASSUME NEW i \in Zones(table)
       PROVE  /\ n.zones[i] \in Zone
              /\ n.zones[i].start = t.zones[i].start
              /\ n.zones[i].end = t.zones[i].end
              /\ n.zones[i].page_using_count = t.zones[i].page_using_count
              /\ n.zones[i].page_free_count = t.zones[i].page_free_count
              /\ n.zones[i].total_pages_link = t.zones[i].total_pages_link +
                    (IF t.pages[p].zone = i THEN 1 ELSE 0)
  <2>1. Cardinality({q \in {} : t.pages[q].zone = i}) = 0
    <3>1. {q \in {} : t.pages[q].zone = i} = {}
      OBVIOUS
    <3> QED BY <3>1, FS_EmptySet
  <2>2. Cardinality({q \in {} \cup {p} : t.pages[q].zone = i}) =
        IF t.pages[p].zone = i THEN 1 ELSE 0
    <3>1. CASE t.pages[p].zone = i
      <4>1. {q \in {} \cup {p} : t.pages[q].zone = i} = {p}
        BY <3>1
      <4> QED BY <3>1, <4>1, FS_Singleton
    <3>2. CASE t.pages[p].zone # i
      <4>1. {q \in {} \cup {p} : t.pages[q].zone = i} = {}
        BY <3>2
      <4> QED BY <3>2, <4>1, FS_EmptySet
    <3> QED BY <3>1, <3>2
  <2>3. PICK c \in Int : c = Cardinality({q \in {} : t.pages[q].zone = i})
    BY <2>1
  <2>4. PICK d \in Int :
           d = Cardinality({q \in {} \cup {p} : t.pages[q].zone = i})
    <3>1. PICK e \in Int : e = IF t.pages[p].zone = i THEN 1 ELSE 0
      OBVIOUS
    <3>2. e = Cardinality({q \in {} \cup {p} : t.pages[q].zone = i})
      BY <2>2, <3>1, Zenon
    <3> QED BY <3>2
  <2>5. /\ n.zones[i].start = t.zones[i].start
        /\ n.zones[i].end = t.zones[i].end
        /\ n.zones[i].page_using_count = t.zones[i].page_using_count + c
        /\ n.zones[i].page_free_count = t.zones[i].page_free_count - c
        /\ n.zones[i].total_pages_link = t.zones[i].total_pages_link + d
        /\ n.zones[i] \in Zone
    BY <1>3, <2>3, <2>4 DEF Came
  <2>6. /\ t.zones[i].page_using_count \in Int /\ t.zones[i].page_free_count \in Int
        /\ t.zones[i].total_pages_link \in Int
    BY <1>1, ShapeFacts
  <2> QED BY <2>1, <2>2, <2>3, <2>4, <2>5, <2>6
<1>12. Shaped(table, n)
  <2>1. n.zones \in [Zones(table) -> Zone]
    BY <1>4, <1>11
  <2> QED BY <2>1, <1>4, <1>6, <1>10 DEF Shaped
<1>13. Right(table, n)
  <2> DEFINE freed == 0
  <2>1. /\ n.pages[p].reference_count \in 0 .. MaxReferences
        /\ n.pages[p].reference_count # 0
        /\ n.pages[p].reference_count \in
              {t.pages[p].reference_count + 1, t.pages[p].reference_count - 1}
    BY <1>7, <1>8, Numbers
  <2>2. n.pages[p].attribute # {} /\ Shared(n.pages[p].attribute)
    BY <1>8 DEF Shared
  <2>3. freed = IF n.pages[p].attribute = {} THEN 1 ELSE 0
    BY <2>2
  <2>4. ASSUME NEW i \in Zones(table), t.pages[p].zone = i
        PROVE  /\ n.zones[i].start = t.zones[i].start
               /\ n.zones[i].end = t.zones[i].end
               /\ n.zones[i].page_using_count =
                     t.zones[i].page_using_count - freed
               /\ n.zones[i].page_free_count = t.zones[i].page_free_count + freed
               /\ n.zones[i].total_pages_link = t.zones[i].total_pages_link +
                     n.pages[p].reference_count - t.pages[p].reference_count
    <3>1. /\ t.zones[i].page_using_count \in Int
          /\ t.zones[i].page_free_count \in Int
          /\ t.zones[i].total_pages_link \in Int
      BY <1>1, ShapeFacts
    <3>2. /\ n.zones[i].start = t.zones[i].start
          /\ n.zones[i].end = t.zones[i].end
          /\ n.zones[i].page_using_count = t.zones[i].page_using_count
          /\ n.zones[i].page_free_count = t.zones[i].page_free_count
          /\ n.zones[i].total_pages_link = t.zones[i].total_pages_link + 1
      BY <1>11, <2>4
    <3>3. /\ t.pages[p].reference_count \in Int
          /\ n.pages[p].reference_count = t.pages[p].reference_count + 1
      BY <1>7, <1>8, Numbers
    <3> QED BY <3>1, <3>2, <3>3
  <2>5. ASSUME NEW i \in Zones(table), t.pages[p].zone # i
        PROVE  n.zones[i] = t.zones[i]
    <3>1. PICK m : m = n.zones[i]
      OBVIOUS
    <3>2. PICK z : z = t.zones[i]
      OBVIOUS
    <3>3. m \in Zone /\ z \in Zone
      BY <1>1, <1>11, <3>1, <3>2, ShapeFacts
    <3>4. /\ m.start = z.start /\ m.end = z.end
          /\ m.page_using_count = z.page_using_count
          /\ m.page_free_count = z.page_free_count
          /\ m.total_pages_link = z.total_pages_link
      <4>1. z.total_pages_link \in Int
        BY <3>3 DEF Zone
      <4>2. /\ m.start = z.start /\ m.end = z.end
            /\ m.page_using_count = z.page_using_count
            /\ m.page_free_count = z.page_free_count
            /\ m.total_pages_link = z.total_pages_link + 0
        BY <1>11, <2>5, <3>1, <3>2
      <4> QED BY <4>1, <4>2
    <3>5. m = z
      BY <3>3, <3>4 DEF Zone
    <3> QED BY <3>1, <3>2, <3>5
  <2> HIDE DEF freed, flags
  <2>6. OneUser(table, t, n, p, freed)
    BY <1>8, <1>9, <2>1, <2>2, <2>3, <2>4, <2>5 DEF OneUser
  <2> QED BY <1>12, <2>6, OneUserRight
<1> QED BY <1>6, <1>8, <1>9, <1>11, <1>13

(* Page p of the tables t loses a user to make them n; m and x are the     *)
(* page and its zone afterwards.                                           *)
Left(table, t, n, p, m, x) ==
    LET q == t.pages[p]
        y == t.zones[q.zone]
        last == IF q.reference_count = 1 THEN 1 ELSE 0
    IN  /\ n = [bits |-> n.bits, pages |-> n.pages, zones |-> n.zones]
        /\ \/ n.bits = t.bits /\ Shared(q.attribute)
           \/ n.bits = [t.bits EXCEPT ![p] = 0] /\ m.attribute = {}
        /\ n.pages = [r \in 0 .. LastPage(table) |-> n.pages[r]]
        /\ \A r \in 0 .. LastPage(table) : r # p => n.pages[r] = t.pages[r]
        /\ n.zones = [i \in Zones(table) |-> n.zones[i]]
        /\ \A i \in Zones(table) : i # q.zone => n.zones[i] = t.zones[i]
        /\ m \in Page /\ m.zone = q.zone
        /\ m.reference_count = q.reference_count - 1
        /\ m.attribute = IF q.reference_count = 1 THEN {} ELSE q.attribute
        /\ x \in Zone /\ x.start = y.start /\ x.end = y.end
        /\ x.page_using_count = y.page_using_count - last
        /\ x.page_free_count = y.page_free_count + last
        /\ x.total_pages_link = y.total_pages_link - 1

(* One user less of a page in use, of a zone.                              *)
LEMMA LessUser ==
    ASSUME NEW table \in E820Maps, Fits(table), NEW t, Right(table, t),
           NEW p \in 0 .. LastPage(table), t.pages[p].attribute # {},
           t.pages[p].zone \in Zones(table), NEW n, n = page_clean(t, p)
    PROVE  /\ Right(table, n)
           /\ \A q \in 0 .. LastPage(table) : q # p => n.pages[q] = t.pages[q]
           /\ \A q \in 0 .. Words(table) * W - 1 : q # p => n.bits[q] = t.bits[q]
           /\ n.pages[p].attribute \in {t.pages[p].attribute, {}}
           /\ n.pages[p].reference_count = t.pages[p].reference_count - 1
           /\ \/ n.bits[p] = t.bits[p] /\ Shared(t.pages[p].attribute)
              \/ n.bits[p] = 0 /\ n.pages[p].attribute = {}
           /\ \A i \in Zones(table) :
                 n.zones[i].page_free_count >= t.zones[i].page_free_count
<1> DEFINE z == t.pages[p].zone
           old == t.pages[p].reference_count
           last == IF old = 1 THEN 1 ELSE 0
<1>1. Shaped(table, t) /\ PagesRight(table, t) /\ ZonesRight(table, t)
  BY DEF Right
<1>2. /\ old \in 1 .. MaxReferences
      /\ ~Shared(t.pages[p].attribute) => old = 1
  <2>1. /\ old \in Nat /\ old # 0 /\ old <= MaxReferences
        /\ ~Shared(t.pages[p].attribute) => old = 1
    BY <1>1, ShapeFacts DEF PagesRight
  <2> QED BY <2>1, MemoryAssumption
<1>3. /\ t = [bits |-> t.bits, pages |-> t.pages, zones |-> t.zones]
      /\ t.bits \in [0 .. Words(table) * W - 1 -> {0, 1}]
      /\ t.pages \in [0 .. LastPage(table) -> Page]
      /\ t.zones \in [Zones(table) -> Zone]
      /\ p \in 0 .. Words(table) * W - 1 /\ z \in Zones(table)
  <2>1. t = [bits |-> t.bits, pages |-> t.pages, zones |-> t.zones]
    BY <1>1 DEF Shaped
  <2> QED BY <2>1, <1>1, ShapeFacts
<1>4. PICK q : q = t.pages[p]
  OBVIOUS
<1>5. PICK y : y = t.zones[z]
  OBVIOUS
<1>6. /\ q \in Page /\ q.reference_count = old /\ q.zone = z /\ old \in Nat
      /\ q.zone \in Nat /\ q.attribute \in Flags \cup {{}} /\ old >= 1
  <2>1. q \in Page
    BY <1>3, <1>4
  <2>2. /\ q.zone \in Nat /\ q.attribute \in Flags \cup {{}}
        /\ q.reference_count \in Nat
    BY <2>1 DEF Page
  <2> QED BY <2>1, <2>2, <1>2, <1>4
<1>7. /\ y \in Zone /\ y.page_using_count \in Int /\ y.page_free_count \in Int
      /\ y.total_pages_link \in Int
  BY <1>3, <1>5 DEF Zone
<1>8. PICK m : m = n.pages[p]
  OBVIOUS
<1>9. PICK x : x = n.zones[z]
  OBVIOUS
<1>10. ASSUME Shared(t.pages[p].attribute)
       PROVE  Left(table, t, n, p, m, x)
  <2>1. n = UserLeaves(t, p, old = 1)
    BY <1>10 DEF page_clean
  <2>2. /\ n = [bits |-> n.bits, pages |-> n.pages, zones |-> n.zones]
        /\ n.bits = t.bits
    BY <2>1 DEF UserLeaves
  <2>3. n.pages = [t.pages EXCEPT ![p] =
                      [t.pages[p] EXCEPT
                          !.reference_count = @ - 1,
                          !.attribute = IF old = 1 THEN {} ELSE @]]
    BY <2>1 DEF UserLeaves
  <2>4. n.zones = [t.zones EXCEPT ![z] =
                      [t.zones[z] EXCEPT
                          !.total_pages_link = @ - 1,
                          !.page_using_count = IF old = 1 THEN @ - 1 ELSE @,
                          !.page_free_count = IF old = 1 THEN @ + 1 ELSE @]]
    BY <2>1 DEF UserLeaves
  <2>5. m = [q EXCEPT !.reference_count = @ - 1,
                      !.attribute = IF old = 1 THEN {} ELSE @]
    <3>1. n.pages[p] = [t.pages[p] EXCEPT
                           !.reference_count = @ - 1,
                           !.attribute = IF old = 1 THEN {} ELSE @]
      BY <2>3, <1>3
    <3> QED BY <3>1, <1>4, <1>8, Zenon
  <2>6. x = [y EXCEPT !.total_pages_link = @ - 1,
                      !.page_using_count = IF old = 1 THEN @ - 1 ELSE @,
                      !.page_free_count = IF old = 1 THEN @ + 1 ELSE @]
    <3>1. n.zones[z] = [t.zones[z] EXCEPT
                           !.total_pages_link = @ - 1,
                           !.page_using_count = IF old = 1 THEN @ - 1 ELSE @,
                           !.page_free_count = IF old = 1 THEN @ + 1 ELSE @]
      BY <2>4, <1>3
    <3> QED BY <3>1, <1>5, <1>9, Zenon
  <2>7. /\ m \in Page /\ m.zone = q.zone /\ m.reference_count = q.reference_count - 1
        /\ m.attribute = IF old = 1 THEN {} ELSE q.attribute
    <3>1. PICK a \in Flags \cup {{}} : a = IF old = 1 THEN {} ELSE q.attribute
      BY <1>6
    <3>2. PICK c \in Nat : c = q.reference_count - 1
      BY <1>6
    <3>3. m = [q EXCEPT !.reference_count = c, !.attribute = a]
      BY <2>5, <3>1, <3>2
    <3>4. m \in Page /\ m.zone = q.zone /\ m.reference_count = c /\ m.attribute = a
      BY <3>3, <1>6 DEF Page
    <3> QED BY <3>1, <3>2, <3>4
  <2>8. /\ x \in Zone /\ x.start = y.start /\ x.end = y.end
        /\ x.page_using_count = y.page_using_count - last
        /\ x.page_free_count = y.page_free_count + last
        /\ x.total_pages_link = y.total_pages_link - 1
    <3>1. PICK u \in Int : u = y.page_using_count - last
      BY <1>7
    <3>2. PICK f \in Int : f = y.page_free_count + last
      BY <1>7
    <3>3. PICK l \in Int : l = y.total_pages_link - 1
      BY <1>7
    <3>4. /\ u = IF old = 1 THEN y.page_using_count - 1 ELSE y.page_using_count
          /\ f = IF old = 1 THEN y.page_free_count + 1 ELSE y.page_free_count
      BY <3>1, <3>2, <1>7
    <3>5. x = [y EXCEPT !.total_pages_link = l, !.page_using_count = u,
                        !.page_free_count = f]
      BY <2>6, <3>3, <3>4
    <3> QED BY <3>1, <3>2, <3>3, <3>5, <1>7 DEF Zone
  <2>9. /\ n.pages = [r \in 0 .. LastPage(table) |-> n.pages[r]]
        /\ \A r \in 0 .. LastPage(table) : r # p => n.pages[r] = t.pages[r]
        /\ n.zones = [i \in Zones(table) |-> n.zones[i]]
        /\ \A i \in Zones(table) : i # z => n.zones[i] = t.zones[i]
    BY <2>3, <2>4, <1>3
  <2> QED BY <2>2, <2>7, <2>8, <2>9, <1>4, <1>5, <1>10 DEF Left
<1>11. ASSUME ~Shared(t.pages[p].attribute)
       PROVE  Left(table, t, n, p, m, x)
  <2>1. n = GiveBack(t, p)
    BY <1>11 DEF page_clean
  <2>2. /\ n = [bits |-> n.bits, pages |-> n.pages, zones |-> n.zones]
        /\ n.bits = [t.bits EXCEPT ![p] = 0]
        /\ n.pages = [t.pages EXCEPT ![p] = NewPage(z)]
    BY <2>1 DEF GiveBack
  <2>3. n.zones = [t.zones EXCEPT ![z] =
                      [t.zones[z] EXCEPT !.page_using_count = @ - 1,
                                         !.page_free_count = @ + 1,
                                         !.total_pages_link = @ - 1]]
    BY <2>1 DEF GiveBack
  <2>4. m = NewPage(z)
    BY <2>2, <1>3, <1>8
  <2>5. x = [y EXCEPT !.page_using_count = @ - 1,
                      !.page_free_count = @ + 1,
                      !.total_pages_link = @ - 1]
    <3>1. n.zones[z] = [t.zones[z] EXCEPT !.page_using_count = @ - 1,
                                          !.page_free_count = @ + 1,
                                          !.total_pages_link = @ - 1]
      BY <2>3, <1>3
    <3> QED BY <3>1, <1>5, <1>9, Zenon
  <2>6. old = 1
    BY <1>2, <1>11
  <2>7. m \in Page /\ m.zone = z /\ m.reference_count = 0 /\ m.attribute = {}
    BY <2>4, <1>6 DEF NewPage, Page
  <2>8. /\ x \in Zone /\ x.start = y.start /\ x.end = y.end
        /\ x.page_using_count = y.page_using_count - 1
        /\ x.page_free_count = y.page_free_count + 1
        /\ x.total_pages_link = y.total_pages_link - 1
    <3>1. PICK u \in Int : u = y.page_using_count - 1
      BY <1>7
    <3>2. PICK f \in Int : f = y.page_free_count + 1
      BY <1>7
    <3>3. PICK l \in Int : l = y.total_pages_link - 1
      BY <1>7
    <3>4. x = [y EXCEPT !.total_pages_link = l, !.page_using_count = u,
                        !.page_free_count = f]
      BY <2>5, <3>1, <3>2, <3>3
    <3> QED BY <3>1, <3>2, <3>3, <3>4, <1>7 DEF Zone
  <2>9. /\ n.pages = [r \in 0 .. LastPage(table) |-> n.pages[r]]
        /\ \A r \in 0 .. LastPage(table) : r # p => n.pages[r] = t.pages[r]
        /\ n.zones = [i \in Zones(table) |-> n.zones[i]]
        /\ \A i \in Zones(table) : i # z => n.zones[i] = t.zones[i]
    BY <2>2, <2>3, <1>3
  <2>10. m.reference_count = old - 1 /\ last = 1
    BY <2>6, <2>7
  <2>11. n.bits = [t.bits EXCEPT ![p] = 0]
    BY <2>2
  <2> HIDE DEF last
  <2> QED BY <2>2, <2>6, <2>7, <2>8, <2>9, <2>10, <2>11, <1>5 DEF Left
<1>12. Left(table, t, n, p, m, x)
  BY <1>10, <1>11
<1>13. /\ n = [bits |-> n.bits, pages |-> n.pages, zones |-> n.zones]
       /\ \/ n.bits = t.bits /\ Shared(q.attribute)
          \/ n.bits = [t.bits EXCEPT ![p] = 0] /\ m.attribute = {}
       /\ n.pages = [r \in 0 .. LastPage(table) |-> n.pages[r]]
       /\ \A r \in 0 .. LastPage(table) : r # p => n.pages[r] = t.pages[r]
       /\ n.zones = [i \in Zones(table) |-> n.zones[i]]
       /\ \A i \in Zones(table) : i # z => n.zones[i] = t.zones[i]
       /\ m \in Page /\ m.zone = z /\ m.reference_count = old - 1
       /\ m.attribute = IF old = 1 THEN {} ELSE q.attribute
       /\ x \in Zone /\ x.start = y.start /\ x.end = y.end
       /\ x.page_using_count = y.page_using_count - last
       /\ x.page_free_count = y.page_free_count + last
       /\ x.total_pages_link = y.total_pages_link - 1
  BY <1>4, <1>5, <1>12 DEF Left
<1>14. n.bits \in [0 .. Words(table) * W - 1 -> {0, 1}]
  <2>1. CASE n.bits = t.bits
    BY <2>1, <1>3
  <2>2. CASE n.bits = [t.bits EXCEPT ![p] = 0]
    BY <2>2, <1>3
  <2> QED BY <2>1, <2>2, <1>13
<1>15. n.pages \in [0 .. LastPage(table) -> Page]
  <2>1. \A r \in 0 .. LastPage(table) : n.pages[r] \in Page
    BY <1>1, <1>8, <1>13, ShapeFacts
  <2> QED BY <2>1, <1>13
<1>16. n.zones \in [Zones(table) -> Zone]
  <2>1. \A i \in Zones(table) : n.zones[i] \in Zone
    BY <1>1, <1>9, <1>13, ShapeFacts
  <2> QED BY <2>1, <1>13
<1>17. Shaped(table, n)
  BY <1>13, <1>14, <1>15, <1>16 DEF Shaped
<1>18. OneUser(table, t, n, p, last)
  <2>1. n.pages[p].zone = z /\ n.pages[p].reference_count = old - 1
    BY <1>8, <1>13
  <2>2. /\ n.pages[p].attribute = {} <=> n.pages[p].reference_count = 0
        /\ n.pages[p].attribute # {} => Shared(n.pages[p].attribute)
        /\ last = IF n.pages[p].attribute = {} THEN 1 ELSE 0
    BY <1>2, <1>4, <1>6, <1>8, <1>13
  <2>3. /\ n.pages[p].reference_count \in 0 .. MaxReferences
        /\ n.pages[p].reference_count \in {old + 1, old - 1}
    BY <2>1, <1>2, Numbers
  <2>4. ASSUME NEW i \in Zones(table), z = i
        PROVE  /\ n.zones[i].start = t.zones[i].start
               /\ n.zones[i].end = t.zones[i].end
               /\ n.zones[i].page_using_count = t.zones[i].page_using_count - last
               /\ n.zones[i].page_free_count = t.zones[i].page_free_count + last
               /\ n.zones[i].total_pages_link = t.zones[i].total_pages_link +
                     n.pages[p].reference_count - old
    BY <2>1, <2>4, <1>5, <1>6, <1>7, <1>9, <1>13
  <2>5. \A i \in Zones(table) : z # i => n.zones[i] = t.zones[i]
    BY <1>13
  <2>6. \A r \in 0 .. LastPage(table) : r # p => n.pages[r] = t.pages[r]
    BY <1>13
  <2> HIDE DEF last
  <2> QED BY <2>1, <2>2, <2>3, <2>4, <2>5, <2>6 DEF OneUser
<1>19. Right(table, n)
  BY <1>17, <1>18, OneUserRight
<1>20. \A i \in Zones(table) :
          n.zones[i].page_free_count >= t.zones[i].page_free_count
  <2> SUFFICES ASSUME NEW i \in Zones(table)
               PROVE  n.zones[i].page_free_count >= t.zones[i].page_free_count
    OBVIOUS
  <2>1. t.zones[i].page_free_count \in Int
    BY <1>1, ShapeFacts
  <2>2. n.zones[i].page_free_count \in
           {t.zones[i].page_free_count, t.zones[i].page_free_count + last}
    BY <1>5, <1>9, <1>13
  <2>3. last \in {0, 1}
    OBVIOUS
  <2> HIDE DEF last
  <2> QED BY <2>1, <2>2, <2>3
<1>21. \A r \in 0 .. Words(table) * W - 1 : r # p => n.bits[r] = t.bits[r]
  BY <1>3, <1>13
<1>22. \/ n.bits[p] = t.bits[p] /\ Shared(t.pages[p].attribute)
       \/ n.bits[p] = 0 /\ n.pages[p].attribute = {}
  BY <1>3, <1>4, <1>8, <1>13
<1> QED BY <1>4, <1>8, <1>13, <1>19, <1>20, <1>21, <1>22

-----------------------------------------------------------------------------
(* init_memory(). *)

(* The tables before anything is reserved.                                 *)
LEMMA FreshRight ==
    ASSUME NEW table \in E820Maps, Fits(table), NEW t, t = FreshTables(table)
    PROVE  /\ Right(table, t)
           /\ \A p \in 0 .. Words(table) * W - 1 :
                 t.bits[p] = IF ZonesOf(table, p) = {} THEN 1 ELSE 0
           /\ \A p \in 0 .. LastPage(table) : t.pages[p].attribute = {}
           /\ \A i \in Zones(table) :
                 t.zones[i].page_free_count =
                     EndPage(table[i]) - FirstPage(table[i])
<1>1. /\ t = [bits |-> t.bits, pages |-> t.pages, zones |-> t.zones]
      /\ t.bits = [p \in 0 .. Words(table) * W - 1 |->
                      (1 + Cardinality(ZonesOf(table, p))) % 2]
      /\ t.pages = [p \in 0 .. LastPage(table) |-> NewPage(ZoneOf(table, p))]
      /\ t.zones = [i \in Zones(table) |-> NewZone(table[i])]
  BY DEF FreshTables, ZoneOf, LastPage
<1>2. ASSUME NEW p \in 0 .. Words(table) * W - 1
      PROVE  t.bits[p] = IF ZonesOf(table, p) = {} THEN 1 ELSE 0
  <2>1. t.bits[p] = (1 + Cardinality(ZonesOf(table, p))) % 2
    BY <1>1
  <2>2. CASE ZonesOf(table, p) = {}
    <3>1. Cardinality(ZonesOf(table, p)) = 0
      BY <2>2, FS_EmptySet
    <3> QED BY <2>1, <2>2, <3>1
  <2>3. CASE ZonesOf(table, p) # {}
    <3>1. PICK i \in ZonesOf(table, p) : ZonesOf(table, p) = {i}
      BY <2>3, ZonesApart
    <3>2. Cardinality(ZonesOf(table, p)) = 1
      BY <3>1, FS_Singleton
    <3> QED BY <2>1, <2>3, <3>2
  <2> QED BY <2>2, <2>3
<1>3. t.bits \in [0 .. Words(table) * W - 1 -> {0, 1}]
  <2>1. \A p \in 0 .. Words(table) * W - 1 : t.bits[p] \in {0, 1}
    BY <1>2
  <2>2. t.bits = [p \in 0 .. Words(table) * W - 1 |-> t.bits[p]]
    BY <1>1
  <2> QED BY <2>1, <2>2
<1>4. ASSUME NEW p \in 0 .. LastPage(table)
      PROVE  /\ t.pages[p] \in Page /\ t.pages[p].zone = ZoneOf(table, p)
             /\ t.pages[p].attribute = {} /\ t.pages[p].reference_count = 0
  <2>1. t.pages[p] = NewPage(ZoneOf(table, p))
    BY <1>1
  <2>2. ZoneOf(table, p) \in Nat
    <3>1. p \in Nat
      BY FitFacts DEF LastPage
    <3>2. ZoneOf(table, p) \in {Null} \cup Zones(table)
      BY <3>1, ChargedTo
    <3>3. \A i \in Zones(table) : i \in Nat
      BY TableFacts
    <3> QED BY <3>2, <3>3 DEF Null
  <2> QED BY <2>1, <2>2 DEF NewPage, Page
<1>5. t.pages \in [0 .. LastPage(table) -> Page]
  BY <1>1, <1>4
<1>6. ASSUME NEW i \in Zones(table)
      PROVE  /\ t.zones[i] \in Zone
             /\ t.zones[i].start = FirstPage(table[i])
             /\ t.zones[i].end = EndPage(table[i])
             /\ t.zones[i].page_using_count = 0
             /\ t.zones[i].page_free_count =
                   EndPage(table[i]) - FirstPage(table[i])
             /\ t.zones[i].total_pages_link = 0
  <2>1. t.zones[i] = NewZone(table[i])
    BY <1>1
  <2>2. FirstPage(table[i]) \in Nat /\ EndPage(table[i]) \in Nat
    BY TableFacts DEF Zones
  <2> QED BY <2>1, <2>2 DEF NewZone, Zone
<1>7. t.zones \in [Zones(table) -> Zone]
  BY <1>1, <1>6
<1>8. Shaped(table, t)
  BY <1>1, <1>3, <1>5, <1>7 DEF Shaped
<1>9. PagesRight(table, t)
  BY <1>4, Numbers DEF PagesRight
<1>10. ZonesRight(table, t)
  <2> SUFFICES ASSUME NEW i \in Zones(table)
               PROVE  /\ Cardinality(UsedIn(t, i)) = 0
                      /\ Cardinality(UsersIn(t, i)) = 0
    <3>1. \A i \in Zones(table) :
             /\ FirstPage(table[i]) \in Nat /\ EndPage(table[i]) \in Nat
      BY TableFacts DEF Zones
    <3> QED BY <1>6, <3>1 DEF ZonesRight
  <2>1. PagesIn(t, i) \subseteq 0 .. LastPage(table)
    BY <1>8, CountedFinite
  <2>2. UsedIn(t, i) = {}
    BY <1>4, <2>1 DEF UsedIn
  <2>3. UsersIn(t, i) = {}
    BY <1>4, <2>1 DEF UsersIn
  <2> QED BY <2>2, <2>3, FS_EmptySet
<1> QED BY <1>2, <1>4, <1>6, <1>8, <1>9, <1>10 DEF Right

-----------------------------------------------------------------------------
(* The books. *)

Kernel == 0 .. KernelEnd

(* The tables t tell the truth of the pages in the hands of their owners:  *)
(* who uses a page and which bits are set.  A bit is set outside the zones *)
(* and at every page in use; elsewhere only where a shared page was freed. *)
Booked(table, t, taken, shared) ==
    /\ Right(table, t)
    /\ \A p \in taken : ZonesOf(table, p) # {} /\ p \in Nat /\ p \notin Kernel
    /\ \A p \in 0 .. LastPage(table) :
          t.pages[p].attribute # {} <=> p \in taken \cup Kernel
    /\ \A p \in taken : Shared(t.pages[p].attribute) => p \in shared
    /\ \A p \in 0 .. Words(table) * W - 1 :
          /\ ZonesOf(table, p) = {} => t.bits[p] = 1
          /\ t.bits[p] = 0 => p \notin taken \cup Kernel
          /\ ZonesOf(table, p) # {} /\ t.bits[p] = 1 =>
                p \in taken \cup Kernel \cup shared
    /\ t.zones[FirstZone(table)].page_free_count >= 0

(* Pages of zones, and those of the kernel, are in the tables.             *)
LEMMA PageRange ==
    ASSUME NEW table \in E820Maps, Fits(table), NEW p \in Nat,
           ZonesOf(table, p) # {} \/ p \in Kernel
    PROVE  p \in 0 .. LastPage(table) /\ p \in 0 .. Words(table) * W - 1
<1>1. p \in 0 .. LastPage(table)
  <2>1. CASE ZonesOf(table, p) # {}
    BY <2>1, ChargedTo
  <2>2. CASE p \in Kernel
    <3>1. /\ KernelEnd + 1 < EndPage(table[FirstZone(table)])
          /\ EndPage(table[FirstZone(table)]) <= TotalPages(table)
          /\ TotalPages(table) \in Nat /\ KernelEnd \in Nat
          /\ EndPage(table[FirstZone(table)]) \in Nat
      BY FitFacts, TableFacts, Numbers DEF Zones
    <3> QED BY <2>2, <3>1 DEF Kernel, LastPage
  <2> QED BY <2>1, <2>2
<1>2. TotalPages(table) \in Nat /\ TotalPages(table) <= Words(table) * W
      /\ Words(table) * W \in Nat
  BY FitFacts
<1> QED BY <1>1, <1>2 DEF LastPage

(* init_memory() reserves the pages of the kernel in fresh tables.         *)
LEMMA KernelBooked ==
    ASSUME NEW table \in E820Maps, Fits(table), NEW n,
           n = page_init(FreshTables(table), Kernel, {"kernel"})
    PROVE  Booked(table, n, {}, {})
<1> DEFINE t == FreshTables(table)
<1>1. /\ Right(table, t)
      /\ \A p \in 0 .. Words(table) * W - 1 :
            t.bits[p] = IF ZonesOf(table, p) = {} THEN 1 ELSE 0
      /\ \A p \in 0 .. LastPage(table) : t.pages[p].attribute = {}
      /\ \A i \in Zones(table) :
            t.zones[i].page_free_count =
                EndPage(table[i]) - FirstPage(table[i])
  BY FreshRight
<1> HIDE DEF t
<1>2. Kernel \in SUBSET (0 .. LastPage(table))
  <2>1. \A p \in Kernel : p \in Nat
    BY Numbers DEF Kernel
  <2> QED BY <2>1, PageRange
<1>3. {"kernel"} \in Flags /\ {"kernel"} # {} /\ ~Shared({"kernel"})
  BY DEF Flags, Shared
<1>4. n = page_init(t, Kernel, {"kernel"})
  BY DEF t
<1>5. /\ Right(table, n)
      /\ \A p \in 0 .. Words(table) * W - 1 :
            n.bits[p] = IF p \in Kernel THEN 1 ELSE t.bits[p]
      /\ \A p \in 0 .. LastPage(table) :
            /\ p \notin Kernel => n.pages[p] = t.pages[p]
            /\ p \in Kernel => n.pages[p].attribute = {"kernel"}
      /\ \A i \in Zones(table) :
            n.zones[i].page_free_count =
                t.zones[i].page_free_count
                - Cardinality({p \in Kernel : t.pages[p].zone = i})
  <2>1. \A p \in Kernel : t.pages[p].attribute = {}
    BY <1>1, <1>2
  <2> HIDE DEF Kernel
  <2>2. Right(table, n) /\ FirstCame(table, t, Kernel, {"kernel"}, n)
    BY <1>1, <1>2, <1>3, <1>4, <2>1, FirstUsers
  <2> QED BY <2>2 DEF FirstCame
<1>6. n.zones[FirstZone(table)].page_free_count >= 0
  <2> DEFINE f == FirstZone(table)
             here == {p \in Kernel : t.pages[p].zone = f}
  <2>1. /\ f \in Zones(table) /\ FirstPage(table[f]) = 1
        /\ KernelEnd + 1 < EndPage(table[f])
    BY FitFacts
  <2>2. EndPage(table[f]) \in Nat
    BY <2>1, TableFacts DEF Zones
  <2>3. IsFiniteSet(Kernel) /\ Cardinality(Kernel) = KernelEnd + 1
    BY Numbers, FS_Interval DEF Kernel
  <2>4. Cardinality(here) <= KernelEnd + 1 /\ Cardinality(here) \in Nat
    <3>1. here \in SUBSET Kernel
      OBVIOUS
    <3> HIDE DEF here
    <3>2. IsFiniteSet(here) /\ Cardinality(here) <= Cardinality(Kernel)
      BY <2>3, <3>1, FS_Subset
    <3> QED BY <2>3, <3>2, FS_CardinalityType
  <2>5. n.zones[f].page_free_count =
           (EndPage(table[f]) - FirstPage(table[f])) - Cardinality(here)
    BY <1>1, <1>5, <2>1
  <2> QED BY <2>1, <2>2, <2>4, <2>5, Numbers
<1>7. \A p \in 0 .. LastPage(table) :
         n.pages[p].attribute # {} <=> p \in {} \cup Kernel
  BY <1>1, <1>3, <1>5
<1>8. \A p \in 0 .. Words(table) * W - 1 :
         /\ ZonesOf(table, p) = {} => n.bits[p] = 1
         /\ n.bits[p] = 0 => p \notin {} \cup Kernel
         /\ ZonesOf(table, p) # {} /\ n.bits[p] = 1 =>
               p \in {} \cup Kernel \cup {}
  BY <1>1, <1>5
<1> QED BY <1>5, <1>6, <1>7, <1>8 DEF Booked

-----------------------------------------------------------------------------
(* The operations. *)

(* Pages of a zone that no one has, with a clear bit: what alloc_pages()   *)
(* must find.                                                              *)
Free(table, t, P) ==
    \A p \in P : /\ p \in 0 .. Words(table) * W - 1 /\ t.bits[p] = 0

(* Such pages point to a zone.                                             *)
LEMMA FreeCharged ==
    ASSUME NEW table \in E820Maps, Fits(table), NEW t, NEW taken, NEW shared,
           Booked(table, t, taken, shared), NEW P, Free(table, t, P)
    PROVE  Charged(t, P)
<1> SUFFICES ASSUME NEW p \in P
             PROVE  p \in DOMAIN t.pages /\ t.pages[p].zone # Null
  BY DEF Charged
<1>1. p \in Nat /\ p \in 0 .. Words(table) * W - 1 /\ t.bits[p] = 0
  BY FitFacts DEF Free
<1>2. ZonesOf(table, p) # {}
  BY <1>1 DEF Booked
<1>3. p \in 0 .. LastPage(table)
  BY <1>1, <1>2, PageRange
<1>4. DOMAIN t.pages = 0 .. LastPage(table) /\ t.pages[p].zone = ZoneOf(table, p)
  BY <1>3, ShapeFacts DEF Booked, Right, PagesRight
<1>5. ZoneOf(table, p) # Null
  BY <1>1, <1>2, ChargedTo
<1> QED BY <1>3, <1>4, <1>5

(* So do the pages of the kernel in fresh tables.                          *)
LEMMA KernelCharged ==
    ASSUME NEW table \in E820Maps, Fits(table)
    PROVE  Charged(FreshTables(table), Kernel)
<1> DEFINE t == FreshTables(table)
<1>1. Right(table, t)
  BY FreshRight
<1> HIDE DEF t
<1> SUFFICES ASSUME NEW p \in Kernel
             PROVE  p \in DOMAIN t.pages /\ t.pages[p].zone # Null
  BY DEF Charged, t
<1>2. p \in Nat
  BY Numbers DEF Kernel
<1>3. p \in 0 .. LastPage(table)
  BY <1>2, PageRange
<1>4. DOMAIN t.pages = 0 .. LastPage(table) /\ t.pages[p].zone = ZoneOf(table, p)
  BY <1>1, <1>3, ShapeFacts DEF Right, PagesRight
<1>5. ZoneOf(table, p) # Null
  <2>1. p \in 0 .. KernelEnd => ZoneOf(table, p) = FirstZone(table)
    BY <1>2, ChargedTo
  <2>2. Null \notin Zones(table) /\ FirstZone(table) \in Zones(table)
    BY <1>2, ChargedTo, FitFacts
  <2> QED BY <2>1, <2>2 DEF Kernel
<1> QED BY <1>3, <1>4, <1>5

(* What the first zone, charged with page 0 besides its own, has to spend. *)
Affordable(table, t, run) ==
    Cardinality({p \in run : t.pages[p].zone = FirstZone(table)})
        <= t.zones[FirstZone(table)].page_free_count

(* A run of them, no more of it in the first zone than that has left,      *)
(* changes hands, and the books stay right.                                *)
LEMMA RunBooked ==
    ASSUME NEW table \in E820Maps, Fits(table), NEW t, NEW taken, NEW shared,
           Booked(table, t, taken, shared),
           NEW run, Free(table, t, run), IsFiniteSet(run),
           Affordable(table, t, run), NEW flags \in Flags, NEW n, n = page_init(t, run, flags),
           NEW more, shared \subseteq more, Shared(flags) => run \subseteq more
    PROVE  /\ run \cap (taken \cup Kernel) = {}
           /\ Booked(table, n, taken \cup run, more)
<1> DEFINE f == FirstZone(table)
           here == {p \in run : t.pages[p].zone = f}
<1>1. /\ Right(table, t)
      /\ \A p \in taken : ZonesOf(table, p) # {} /\ p \in Nat /\ p \notin Kernel
      /\ \A p \in 0 .. LastPage(table) :
            t.pages[p].attribute # {} <=> p \in taken \cup Kernel
      /\ \A p \in taken : Shared(t.pages[p].attribute) => p \in shared
      /\ \A p \in 0 .. Words(table) * W - 1 :
            /\ ZonesOf(table, p) = {} => t.bits[p] = 1
            /\ t.bits[p] = 0 => p \notin taken \cup Kernel
            /\ ZonesOf(table, p) # {} /\ t.bits[p] = 1 =>
                  p \in taken \cup Kernel \cup shared
      /\ t.zones[f].page_free_count >= 0
  BY DEF Booked
<1>2. ASSUME NEW p \in run
      PROVE  /\ p \in Nat /\ ZonesOf(table, p) # {} /\ p \notin taken \cup Kernel
             /\ p \in 0 .. LastPage(table) /\ t.pages[p].attribute = {}
  <2>1. p \in Nat /\ p \in 0 .. Words(table) * W - 1 /\ t.bits[p] = 0
    BY FitFacts DEF Free
  <2>2. ZonesOf(table, p) # {} /\ p \notin taken \cup Kernel
    BY <1>1, <2>1
  <2>3. p \in 0 .. LastPage(table)
    BY <2>1, <2>2, PageRange
  <2> QED BY <1>1, <2>1, <2>2, <2>3
<1>3. run \in SUBSET (0 .. LastPage(table)) /\ \A p \in run : t.pages[p].attribute = {}
  BY <1>2
<1>4. Right(table, n) /\ FirstCame(table, t, run, flags, n)
  BY <1>1, <1>3, FirstUsers
<1>5. /\ \A p \in 0 .. Words(table) * W - 1 :
            n.bits[p] = IF p \in run THEN 1 ELSE t.bits[p]
      /\ \A p \in 0 .. LastPage(table) :
            /\ p \notin run => n.pages[p] = t.pages[p]
            /\ p \in run => n.pages[p].attribute = flags
      /\ \A i \in Zones(table) :
            n.zones[i].page_free_count =
                t.zones[i].page_free_count
                - Cardinality({p \in run : t.pages[p].zone = i})
  BY <1>4 DEF FirstCame
<1>6. flags # {}
  BY DEF Flags
<1>7. n.zones[f].page_free_count >= 0
  <2>1. Cardinality(here) <= t.zones[f].page_free_count
    BY DEF Affordable
  <2>2. IsFiniteSet(here)
    <3>1. here \in SUBSET run
      OBVIOUS
    <3> HIDE DEF here
    <3> QED BY <3>1, FS_Subset
  <2>3. Cardinality(here) \in Nat
    BY <2>2, FS_CardinalityType
  <2>4. f \in Zones(table)
    BY FitFacts
  <2>5. t.zones[f].page_free_count \in Int
    BY <1>1, <2>4, ShapeFacts DEF Right
  <2>6. n.zones[f].page_free_count =
           t.zones[f].page_free_count - Cardinality(here)
    BY <1>5, <2>4
  <2> HIDE DEF here
  <2> QED BY <2>1, <2>3, <2>5, <2>6
<1>8. \A p \in taken \cup run :
         /\ ZonesOf(table, p) # {} /\ p \in Nat /\ p \notin Kernel
         /\ Shared(n.pages[p].attribute) => p \in more
  <2> SUFFICES ASSUME NEW p \in taken \cup run
               PROVE  /\ ZonesOf(table, p) # {} /\ p \in Nat /\ p \notin Kernel
                      /\ Shared(n.pages[p].attribute) => p \in more
    OBVIOUS
  <2>1. CASE p \in run
    BY <1>2, <1>5, <2>1
  <2>2. CASE p \in taken /\ p \notin run
    <3>1. ZonesOf(table, p) # {} /\ p \in Nat /\ p \notin Kernel
      BY <1>1, <2>2
    <3>2. p \in 0 .. LastPage(table)
      BY <3>1, PageRange
    <3>3. n.pages[p] = t.pages[p]
      BY <3>2, <2>2, <1>5
    <3> QED BY <1>1, <2>2, <3>1, <3>3
  <2> QED BY <2>1, <2>2
<1>9. \A p \in 0 .. LastPage(table) :
         n.pages[p].attribute # {} <=> p \in (taken \cup run) \cup Kernel
  BY <1>1, <1>5, <1>6
<1>10. \A p \in 0 .. Words(table) * W - 1 :
          /\ ZonesOf(table, p) = {} => n.bits[p] = 1
          /\ n.bits[p] = 0 => p \notin (taken \cup run) \cup Kernel
          /\ ZonesOf(table, p) # {} /\ n.bits[p] = 1 =>
                p \in (taken \cup run) \cup Kernel \cup more
  BY <1>1, <1>5
<1>11. Booked(table, n, taken \cup run, more)
  BY <1>4, <1>7, <1>8, <1>9, <1>10 DEF Booked
<1> QED BY <1>2, <1>11

(* A further user of a page leaves the books right.                        *)
LEMMA ShareBooked ==
    ASSUME NEW table \in E820Maps, Fits(table), NEW t, NEW taken, NEW shared,
           Booked(table, t, taken, shared), NEW p \in taken,
           t.pages[p].reference_count < MaxReferences, NEW n,
           n = Joined(t, p)
    PROVE  Booked(table, n, taken, shared \cup {p})
<1>1. /\ Right(table, t)
      /\ \A q \in taken : ZonesOf(table, q) # {} /\ q \in Nat /\ q \notin Kernel
      /\ \A q \in 0 .. LastPage(table) :
            t.pages[q].attribute # {} <=> q \in taken \cup Kernel
      /\ \A q \in taken : Shared(t.pages[q].attribute) => q \in shared
      /\ \A q \in 0 .. Words(table) * W - 1 :
            /\ ZonesOf(table, q) = {} => t.bits[q] = 1
            /\ t.bits[q] = 0 => q \notin taken \cup Kernel
            /\ ZonesOf(table, q) # {} /\ t.bits[q] = 1 =>
                  q \in taken \cup Kernel \cup shared
      /\ t.zones[FirstZone(table)].page_free_count >= 0
  BY DEF Booked
<1>2. \A q \in taken : q \in 0 .. LastPage(table)
  BY <1>1, PageRange
<1>3. p \in 0 .. LastPage(table) /\ t.pages[p].attribute # {}
  BY <1>1, <1>2
<1>4. /\ Right(table, n)
      /\ n.bits = t.bits
      /\ \A q \in 0 .. LastPage(table) : q # p => n.pages[q] = t.pages[q]
      /\ n.pages[p].attribute = {"kernel", "shared"}
      /\ \A i \in Zones(table) :
            n.zones[i].page_free_count = t.zones[i].page_free_count
  BY <1>1, <1>3, FurtherUser
<1>5. n.zones[FirstZone(table)].page_free_count >= 0
  BY <1>1, <1>4, FitFacts
<1>6. \A q \in taken : Shared(n.pages[q].attribute) => q \in shared \cup {p}
  BY <1>1, <1>2, <1>4
<1>7. \A q \in 0 .. LastPage(table) :
         n.pages[q].attribute # {} <=> q \in taken \cup Kernel
  BY <1>1, <1>4
<1> QED BY <1>1, <1>4, <1>5, <1>6, <1>7 DEF Booked

(* So does one user less, who takes the page off the books when he is the  *)
(* last.                                                                   *)
LEMMA CleanBooked ==
    ASSUME NEW table \in E820Maps, Fits(table), NEW t, NEW taken, NEW shared,
           Booked(table, t, taken, shared), NEW p \in taken, NEW n,
           n = page_clean(t, p), NEW rest,
           rest = (IF n.pages[p].attribute = {} THEN taken \ {p} ELSE taken)
    PROVE  Booked(table, n, rest, shared)
<1>1. /\ Right(table, t)
      /\ \A q \in taken : ZonesOf(table, q) # {} /\ q \in Nat /\ q \notin Kernel
      /\ \A q \in 0 .. LastPage(table) :
            t.pages[q].attribute # {} <=> q \in taken \cup Kernel
      /\ \A q \in taken : Shared(t.pages[q].attribute) => q \in shared
      /\ \A q \in 0 .. Words(table) * W - 1 :
            /\ ZonesOf(table, q) = {} => t.bits[q] = 1
            /\ t.bits[q] = 0 => q \notin taken \cup Kernel
            /\ ZonesOf(table, q) # {} /\ t.bits[q] = 1 =>
                  q \in taken \cup Kernel \cup shared
      /\ t.zones[FirstZone(table)].page_free_count >= 0
  BY DEF Booked
<1>2. \A q \in taken : q \in 0 .. LastPage(table)
  BY <1>1, PageRange
<1>3. p \in 0 .. LastPage(table) /\ t.pages[p].attribute # {} /\ p \notin Kernel
      /\ ZonesOf(table, p) # {}
  BY <1>1, <1>2
<1>4. t.pages[p].zone \in Zones(table)
  <2>1. t.pages[p].zone = ZoneOf(table, p)
    BY <1>1, <1>3 DEF Right, PagesRight
  <2> QED BY <2>1, <1>1, <1>3, ChargedTo
<1>5. /\ Right(table, n)
      /\ \A q \in 0 .. LastPage(table) : q # p => n.pages[q] = t.pages[q]
      /\ \A q \in 0 .. Words(table) * W - 1 : q # p => n.bits[q] = t.bits[q]
      /\ n.pages[p].attribute \in {t.pages[p].attribute, {}}
      /\ \/ n.bits[p] = t.bits[p] /\ Shared(t.pages[p].attribute)
         \/ n.bits[p] = 0 /\ n.pages[p].attribute = {}
      /\ \A i \in Zones(table) :
            n.zones[i].page_free_count >= t.zones[i].page_free_count
  BY <1>1, <1>3, <1>4, LessUser
<1>6. n.zones[FirstZone(table)].page_free_count >= 0
  <2>1. FirstZone(table) \in Zones(table)
    BY FitFacts
  <2>2. /\ t.zones[FirstZone(table)].page_free_count \in Int
        /\ n.zones[FirstZone(table)].page_free_count \in Int
    BY <1>1, <1>5, <2>1, ShapeFacts DEF Right
  <2> QED BY <1>1, <1>5, <2>1, <2>2
<1>7. \A q \in rest : /\ ZonesOf(table, q) # {} /\ q \in Nat /\ q \notin Kernel
                      /\ Shared(n.pages[q].attribute) => q \in shared
  <2>1. Shared(n.pages[p].attribute) => Shared(t.pages[p].attribute)
    BY <1>5 DEF Shared
  <2> QED BY <1>1, <1>2, <1>5, <2>1
<1>8. \A q \in 0 .. LastPage(table) :
         n.pages[q].attribute # {} <=> q \in rest \cup Kernel
  BY <1>1, <1>3, <1>5
<1>9. \A q \in 0 .. Words(table) * W - 1 :
         /\ ZonesOf(table, q) = {} => n.bits[q] = 1
         /\ n.bits[q] = 0 => q \notin rest \cup Kernel
         /\ ZonesOf(table, q) # {} /\ n.bits[q] = 1 =>
               q \in rest \cup Kernel \cup shared
  BY <1>1, <1>3, <1>5
<1> QED BY <1>5, <1>6, <1>7, <1>8, <1>9 DEF Booked

-----------------------------------------------------------------------------
(* The search. *)

(* Of positions in memory there is a first one, which FirstPosition finds. *)
LEMMA FirstPositionIn ==
    ASSUME NEW S \in SUBSET (Nat \X Nat), S # {}
    PROVE  FirstPosition(S) \in S
<1> DEFINE J == {s[1] : s \in S}
<1>1. J \in SUBSET Nat /\ J # {}
  OBVIOUS
<1>2. PICK j \in J : \A i \in J : j <= i
  <2> HIDE DEF J
  <2> QED BY <1>1, LeastNat
<1> DEFINE K == {s[2] : s \in {r \in S : r[1] = j}}
<1>3. K \in SUBSET Nat /\ K # {}
  OBVIOUS
<1>4. PICK k \in K : \A i \in K : k <= i
  <2> HIDE DEF K
  <2> QED BY <1>3, LeastNat
<1>5. PICK s \in S : s[1] = j /\ s[2] = k
  OBVIOUS
<1>6. ASSUME NEW r \in S
      PROVE  s[1] < r[1] \/ (s[1] = r[1] /\ s[2] <= r[2])
  <2>1. r[1] \in J /\ j <= r[1] /\ j \in Nat /\ r[1] \in Nat
    BY <1>1, <1>2
  <2>2. CASE r[1] = j
    <3>1. r[2] \in K
      BY <2>2
    <3> QED BY <3>1, <2>2, <1>4, <1>5
  <2>3. CASE r[1] # j
    BY <2>1, <2>3, <1>5
  <2> QED BY <2>2, <2>3
<1>7. \E x \in S : \A r \in S : x[1] < r[1] \/ (x[1] = r[1] /\ x[2] <= r[2])
  BY <1>6
<1> QED BY <1>7 DEF FirstPosition

(* On tables that fit the search of a zone looks at one word only, and     *)
(* what it finds are free pages of that word: a run that left the zone     *)
(* would go on through the two last bits of the word, one of which is set. *)
LEMMA FoundFree ==
    ASSUME e820 \in E820Maps, Fits(e820), NEW taken, NEW shared,
           Booked(e820, Tables, taken, shared),
           NEW number \in 1 .. MaxNumber,
           NEW i, NEW q \in Nat, InWord(e820, i, q),
           NEW z, z = zones[i], Positions(z, number) # {}
    PROVE  LET page == FoundPage(FirstPosition(Positions(z, number)))
           IN  /\ page \in Nat /\ Free(e820, Tables, page .. page + number - 1)
               /\ q * W < page /\ page + number <= q * W + W
<1> DEFINE last == Words(e820) * W - 1
           w == q * W
<1>1. /\ W \in Nat /\ 2 < W /\ w + W <= last + 1 /\ w \in Nat
      /\ i \in Zones(e820) /\ FirstPage(e820[i]) = w + 1
      /\ EndPage(e820[i]) \in Nat /\ EndPage(e820[i]) < w + W
      /\ last \in Int
  <2>1. /\ W \in Nat /\ 2 < W /\ Words(e820) \in Nat
    BY FitFacts
  <2>2. Words(e820) * W \in Nat
    BY <2>1
  <2>3. /\ w + W <= Words(e820) * W /\ w \in Nat
        /\ i \in Zones(e820) /\ FirstPage(e820[i]) = w + 1
        /\ EndPage(e820[i]) \in Nat /\ EndPage(e820[i]) < w + W
    BY DEF InWord
  <2> QED BY <2>1, <2>2, <2>3
<1>2. z.start = w + 1 /\ z.end = EndPage(e820[i])
  BY <1>1 DEF Booked, Right, ZonesRight, Tables
<1>3. bits_map \in [0 .. last -> {0, 1}] /\ DOMAIN bits_map = 0 .. last
  BY ShapeFacts DEF Booked, Right, Tables
<1>4. \A p \in 0 .. last : ZonesOf(e820, p) = {} => bits_map[p] = 1
  BY DEF Booked, Tables
<1>5. Positions(z, number) \in SUBSET (Nat \X Nat)
  <2> HIDE DEF w
  <2> QED BY <1>1, <1>2 DEF Positions
<1>6. PICK s \in Positions(z, number) : s = FirstPosition(Positions(z, number))
  BY <1>5, FirstPositionIn
<1> DEFINE k == s[2]
           a == s[1] - w
<1>7. /\ s[1] \in w + 1 .. w + W - 1 /\ k \in 0 .. W - 1
      /\ s[1] = w + 1 \/ s[1] % W = 0
      /\ k >= s[1] % W /\ k < W - (s[1] % W)
      /\ \A n \in 0 .. number - 1 : WindowBit(s[1] \div W, k, n) = 0
  <2> HIDE DEF w
  <2> QED BY <1>1, <1>2 DEF Positions
<1>8. s[1] = w + 1 /\ k \in 1 .. W - 2 /\ s[1] \div W = q
  <2>1. a \in 1 .. W - 1 /\ s[1] = w + a
    <3>1. s[1] \in w + 1 .. w + W - 1
      BY <1>7
    <3> HIDE DEF w
    <3>2. \A x \in w + 1 .. w + W - 1 : x - w \in 1 .. W - 1 /\ x = w + (x - w)
      BY <1>1
    <3> QED BY <3>1, <3>2
  <2>2. s[1] % W = a /\ s[1] \div W = q
    <3> HIDE DEF a
    <3>1. a \in 0 .. W - 1
      BY <2>1, <1>1
    <3>2. (q * W + a) \div W = q /\ (q * W + a) % W = a
      BY <3>1, WordOf
    <3> QED BY <2>1, <3>2
  <2> HIDE DEF w, a, k
  <2> QED BY <2>1, <2>2, <1>1, <1>7
<1>9. \A n \in 0 .. number - 1 :
         w + (k + n) \in 0 .. last => bits_map[w + (k + n)] = 0
  <2> SUFFICES ASSUME NEW n \in 0 .. number - 1, w + (k + n) \in 0 .. last
               PROVE  bits_map[w + (k + n)] = 0
    OBVIOUS
  <2>1. WindowBit(q, k, n) = 0 /\ k # 0 /\ n \in Nat /\ k \in Nat
    <3> HIDE DEF w, k
    <3> QED BY <1>1, <1>7, <1>8, Numbers
  <2>2. CASE k + n < W
    <3>1. WindowBit(q, k, n) = Bit(q, k + n)
      BY <2>1, <2>2 DEF WindowBit
    <3>2. Bit(q, k + n) = bits_map[w + (k + n)]
      BY <1>3 DEF Bit
    <3> QED BY <2>1, <3>1, <3>2
  <2>3. CASE ~(k + n < W)
    <3>1. WindowBit(q, k, n) = Bit(q + 1, k + n - W)
      BY <2>1, <2>3 DEF WindowBit
    <3>2. (q + 1) * W + (k + n - W) = w + (k + n)
      <4>1. (q + 1) * W = w + W
        BY <1>1
      <4> HIDE DEF w, k
      <4> QED BY <4>1, <2>1, <1>1
    <3>3. Bit(q + 1, k + n - W) = bits_map[w + (k + n)]
      BY <3>2, <1>3 DEF Bit
    <3> QED BY <2>1, <3>1, <3>3
  <2> QED BY <2>2, <2>3
<1>10. k + number < W
  <2> SUFFICES ASSUME k + number >= W
               PROVE  FALSE
    BY <1>1, <1>8, Numbers
  <2>1. PICK p \in {w + W - 2, w + W - 1} : ZonesOf(e820, p) = {}
    BY DEF InWord
  <2> DEFINE n == (p - w) - k
  <2>2. p \in 0 .. last /\ n \in 0 .. number - 1 /\ w + (k + n) = p
    <3> HIDE DEF w, k, last
    <3> QED BY <2>1, <1>1, <1>8, Numbers
  <2>3. bits_map[p] = 0
    <3> HIDE DEF n, k, w, last
    <3> QED BY <2>2, <1>9
  <2> QED BY <2>1, <2>2, <2>3, <1>4
<1>11. FoundPage(s) = w + k /\ k \in Nat /\ w + k \in Nat
  <2> HIDE DEF w
  <2> QED BY <1>1, <1>8 DEF FoundPage
<1>12. Free(e820, Tables, w + k .. (w + k) + number - 1)
  <2> SUFFICES ASSUME NEW p \in w + k .. (w + k) + number - 1
               PROVE  p \in 0 .. last /\ bits_map[p] = 0
    BY DEF Free, Tables
  <2> DEFINE n == (p - w) - k
  <2>1. p \in 0 .. last /\ n \in 0 .. number - 1 /\ w + (k + n) = p
    <3> HIDE DEF w, k, last
    <3> QED BY <1>1, <1>8, <1>10, Numbers
  <2> HIDE DEF n, k, w, last
  <2> QED BY <2>1, <1>9
<1>13. w < w + k /\ (w + k) + number <= w + W
  <2> HIDE DEF w, k
  <2> QED BY <1>1, <1>8, <1>10, Numbers
<1> HIDE DEF k
<1> QED BY <1>6, <1>11, <1>12, <1>13

(* A run of that many pages.                                               *)
LEMMA RunSize ==
    ASSUME NEW page \in Nat, NEW number \in Nat
    PROVE  /\ IsFiniteSet(page .. page + number - 1)
           /\ Cardinality(page .. page + number - 1) = number
<1>1. page + number - 1 \in Int /\ page \in Int
  OBVIOUS
<1> QED BY <1>1, FS_Interval

(* Of such a run no more pages are charged to the first zone than that has *)
(* left: none, unless it is the zone searched.                             *)
LEMMA FoundCounted ==
    ASSUME NEW table \in E820Maps, Fits(table), NEW t, NEW taken, NEW shared,
           Booked(table, t, taken, shared),
           NEW number \in 1 .. MaxNumber,
           NEW i, NEW q \in Nat, InWord(table, i, q),
           number <= t.zones[i].page_free_count,
           NEW page \in Nat, q * W < page, NEW run,
           run = page .. page + number - 1, Free(table, t, run)
    PROVE  IsFiniteSet(run) /\ Affordable(table, t, run)
<1> DEFINE f == FirstZone(table)
           here == {p \in run : t.pages[p].zone = f}
<1>0. number \in Nat /\ W \in Nat /\ W # 0
  BY Numbers
<1>1. IsFiniteSet(run) /\ Cardinality(run) = number
  BY <1>0, RunSize
<1>2. IsFiniteSet(here) /\ Cardinality(here) <= number
  <2>1. here \in SUBSET run
    OBVIOUS
  <2> HIDE DEF here
  <2> QED BY <1>1, <2>1, FS_Subset
<1>3. /\ f \in Zones(table) /\ FirstPage(table[f]) = 1
      /\ EndPage(table[f]) < W /\ EndPage(table[f]) \in Nat
  <2>1. /\ f \in Zones(table) /\ FirstPage(table[f]) = 1
        /\ EndPage(table[f]) < W
    BY FitFacts
  <2> QED BY <2>1, TableFacts DEF Zones
<1>4. t.zones[f].page_free_count \in Int /\ t.zones[f].page_free_count >= 0
  BY <1>3, ShapeFacts DEF Booked, Right
<1>5. CASE q = 0
  <2>1. q * W = 0
    BY <1>0, <1>5
  <2>2. i \in Zones(table) /\ FirstPage(table[i]) = 1
    BY <2>1 DEF InWord
  <2>3. ~(f < i)
    <3>1. 1 < EndPage(table[f])
      BY <1>3, TableFacts
    <3>2. f < i => EndPage(table[f]) <= FirstPage(table[i])
      BY <1>3, <2>2 DEF Fits
    <3> QED BY <1>3, <2>2, <3>1, <3>2
  <2>4. f <= i /\ f \in Nat /\ i \in Nat
    BY <1>3, <2>2, FitFacts, TableFacts
  <2>5. i = f
    BY <2>3, <2>4
  <2>6. Cardinality(here) \in Int
    BY <1>2, FS_CardinalityType
  <2> HIDE DEF here
  <2>7. number <= t.zones[f].page_free_count
    BY <2>5
  <2>8. Cardinality(here) <= t.zones[f].page_free_count
    BY <1>0, <1>2, <1>4, <2>6, <2>7
  <2> QED BY <1>1, <2>8 DEF here, Affordable
<1>6. CASE q # 0
  <2>1. q * W >= W
    BY <1>0, <1>6
  <2>2. ASSUME NEW p \in run
        PROVE  t.pages[p].zone # f
    <3>1. p \in Nat /\ p >= W /\ p # 0
      BY <1>0, <2>1
    <3>2. p \in 0 .. Words(table) * W - 1 /\ t.bits[p] = 0
      BY DEF Free
    <3>3. ZonesOf(table, p) # {}
      BY <3>2 DEF Booked
    <3>4. p \in 0 .. LastPage(table)
      BY <3>1, <3>3, PageRange
    <3>5. t.pages[p].zone = ZoneOf(table, p)
      BY <3>4 DEF Booked, Right, PagesRight
    <3>6. ZoneOf(table, p) \in ZonesOf(table, p)
      BY <3>1, <3>3, ChargedTo
    <3>7. f \notin ZonesOf(table, p)
      BY <1>0, <1>3, <3>1 DEF ZonesOf
    <3> QED BY <3>5, <3>6, <3>7
  <2>3. here = {}
    BY <2>2
  <2> HIDE DEF here
  <2>4. Cardinality(here) = 0
    BY <2>3, FS_EmptySet
  <2>5. Cardinality(here) <= t.zones[f].page_free_count
    BY <1>4, <2>4
  <2> QED BY <1>1, <2>5 DEF here, Affordable
<1> QED BY <1>5, <1>6

-----------------------------------------------------------------------------
(* The inductive invariant. *)

(* The tables that init_memory() builds its structures for fit: those of a *)
(* machine with zones, and the empty one of the program, which it does not *)
(* get past.                                                               *)
Fitting == \A table \in E820Maps : TablesApart(table) => Fits(table)

Inv ==
    /\ e820 \in E820Maps
    /\ phase \in {"boot", "ready", "overlap"}
    /\ phase # "ready" =>
          /\ bits_map = <<>> /\ pages = <<>> /\ zones = <<>>
          /\ owned = {} /\ was_shared = {}
    /\ phase = "ready" => Fits(e820) /\ Booked(e820, Tables, owned, was_shared)
    /\ twice = {}

(* Before init_memory() there is nothing to be wrong.                      *)
LEMMA InitInv == Init => Inv
BY DEF Init, Inv

(* A value of the tables is its three parts.                               *)
LEMMA Parts ==
    ASSUME NEW table, NEW t, NEW taken, NEW shared,
           Booked(table, t, taken, shared)
    PROVE  t = [bits |-> t.bits, pages |-> t.pages, zones |-> t.zones]
BY DEF Booked, Right, Shaped

(* init_memory() makes the invariant say something.                        *)
LEMMA InitMemoryInv == Fitting /\ Inv /\ init_memory => Inv'
<1> SUFFICES ASSUME Fitting, Inv, init_memory
             PROVE  Inv'
  OBVIOUS
<1>1. /\ e820 \in E820Maps /\ phase = "boot"
      /\ owned = {} /\ twice = {} /\ was_shared = {}
  BY DEF Inv, init_memory
<1>2. e820' = e820 /\ owned' = {} /\ twice' = {} /\ was_shared' = {}
  BY <1>1 DEF init_memory
<1>3. CASE TablesApart(e820)
  <2>1. Fits(e820)
    BY <1>1, <1>3 DEF Fitting
  <2>2. PICK t : t = page_init(FreshTables(e820), Kernel, {"kernel"})
    OBVIOUS
  <2>3. /\ phase' = "ready" /\ bits_map' = t.bits /\ pages' = t.pages
        /\ zones' = t.zones
    <3>1. Charged(FreshTables(e820), Kernel)
      BY <1>1, <2>1, KernelCharged
    <3> QED BY <1>3, <2>2, <3>1 DEF init_memory, Kernel
  <2>4. Booked(e820, t, {}, {})
    BY <1>1, <2>1, <2>2, KernelBooked
  <2>5. Tables' = t
    BY <2>3, <2>4, Parts DEF Tables
  <2> QED BY <1>1, <1>2, <2>1, <2>3, <2>4, <2>5 DEF Inv
<1>4. CASE ~TablesApart(e820)
  BY <1>1, <1>2, <1>4 DEF Inv, init_memory
<1> QED BY <1>3, <1>4

(* What alloc_pages() finds is a run of free pages.                        *)
Found(page, run, t, number, flags) ==
    /\ page \in Nat /\ run = page .. page + number - 1
    /\ Free(e820, Tables, run) /\ IsFiniteSet(run)
    /\ Affordable(e820, Tables, run)
    /\ t = page_init(Tables, run, flags)
    /\ bits_map' = t.bits /\ pages' = t.pages /\ zones' = t.zones
    /\ owned' = owned \cup run
    /\ was_shared' = IF Shared(flags) THEN was_shared \cup run ELSE was_shared
    /\ twice' = twice \cup (run \cap (owned \cup Kernel))
    /\ e820' = e820 /\ phase' = phase

LEMMA AllocFound ==
    ASSUME Inv, NEW zone_select \in ZoneSelects, NEW number \in 1 .. MaxNumber,
           NEW flags \in Flags, alloc_pages(zone_select, number, flags)
    PROVE  \E page, run, t : Found(page, run, t, number, flags)
<1>1. /\ e820 \in E820Maps /\ phase = "ready" /\ Fits(e820)
      /\ Booked(e820, Tables, owned, was_shared)
  BY DEF Inv, alloc_pages
<1> DEFINE at(i)  == FoundPage(FirstPosition(Positions(zones[i], number)))
           got(i) == at(i) .. at(i) + number - 1
           new(i) == page_init(Tables, got(i), flags)
<1>2. PICK i \in Searched(e820, zone_select) :
         /\ Serves(i, number)
         /\ Charged(Tables, got(i)) =>
               /\ bits_map' = new(i).bits
               /\ pages' = new(i).pages
               /\ zones' = new(i).zones
               /\ owned' = owned \cup got(i)
               /\ twice' = twice \cup (got(i) \cap (owned \cup 0 .. KernelEnd))
               /\ was_shared' = IF Shared(flags) THEN was_shared \cup got(i)
                                                 ELSE was_shared
               /\ phase' = phase
  BY DEF alloc_pages
<1>3. e820' = e820
  BY DEF alloc_pages
<1>4. PICK q \in Nat : InWord(e820, i, q)
  BY <1>1, SearchedInWord
<1>5. zones[i].page_free_count >= number /\ Positions(zones[i], number) # {}
  BY <1>2 DEF Serves
<1>6. PICK z : z = zones[i]
  OBVIOUS
<1>7. PICK page : page = at(i)
  OBVIOUS
<1>8. /\ page \in Nat /\ Free(e820, Tables, page .. page + number - 1)
      /\ q * W < page
  BY <1>1, <1>4, <1>5, <1>6, <1>7, FoundFree
<1>9. PICK run : run = got(i)
  OBVIOUS
<1>10. run = page .. page + number - 1
  BY <1>7, <1>9
<1>11. number <= Tables.zones[i].page_free_count
  <2>1. Tables.zones = zones
    BY DEF Tables
  <2>2. zones[i].page_free_count \in Int
    <3>1. i \in Zones(e820)
      BY <1>4 DEF InWord
    <3> QED BY <1>1, <2>1, <3>1, ShapeFacts DEF Booked, Right
  <2> QED BY <1>5, <2>1, <2>2, Numbers
<1>12. Free(e820, Tables, run)
  BY <1>8, <1>10
<1>13. IsFiniteSet(run) /\ Affordable(e820, Tables, run)
  <2> HIDE DEF at, got, new
  <2> QED BY <1>1, <1>4, <1>8, <1>10, <1>11, <1>12, FoundCounted
<1>14. Charged(Tables, got(i))
  BY <1>1, <1>9, <1>12, FreeCharged
<1>15. PICK t : t = new(i)
  OBVIOUS
<1>16. t = page_init(Tables, run, flags)
  BY <1>9, <1>15
<1> HIDE DEF at, got, new
<1>17. Found(page, run, t, number, flags)
  BY <1>2, <1>3, <1>8, <1>9, <1>10, <1>12, <1>13, <1>14, <1>15, <1>16
     DEF Found, Kernel
<1> QED BY <1>17

(* So does every alloc_pages().                                            *)
LEMMA AllocInv ==
    ASSUME NEW zone_select \in ZoneSelects, NEW number \in 1 .. MaxNumber,
           NEW flags \in Flags
    PROVE  Inv /\ alloc_pages(zone_select, number, flags) => Inv'
<1> SUFFICES ASSUME Inv, alloc_pages(zone_select, number, flags)
             PROVE  Inv'
  OBVIOUS
<1>1. /\ e820 \in E820Maps /\ phase = "ready" /\ twice = {} /\ Fits(e820)
      /\ Booked(e820, Tables, owned, was_shared)
  BY DEF Inv, alloc_pages
<1>2. PICK page, run, t : Found(page, run, t, number, flags)
  BY AllocFound
<1>3. PICK more : more = IF Shared(flags) THEN was_shared \cup run ELSE was_shared
  OBVIOUS
<1>4. /\ bits_map' = t.bits /\ pages' = t.pages /\ zones' = t.zones
      /\ owned' = owned \cup run /\ was_shared' = more
      /\ twice' = twice \cup (run \cap (owned \cup Kernel))
      /\ e820' = e820 /\ phase' = phase
  BY <1>2, <1>3 DEF Found
<1>5. /\ run \cap (owned \cup Kernel) = {}
      /\ Booked(e820, t, owned \cup run, more)
  <2>1. /\ Free(e820, Tables, run) /\ IsFiniteSet(run)
        /\ Affordable(e820, Tables, run)
        /\ t = page_init(Tables, run, flags)
    BY <1>2 DEF Found
  <2>2. was_shared \subseteq more /\ (Shared(flags) => run \subseteq more)
    BY <1>3
  <2> QED BY <1>1, <2>1, <2>2, RunBooked
<1>6. Tables' = t
  BY <1>4, <1>5, Parts DEF Tables
<1> QED BY <1>1, <1>4, <1>5, <1>6 DEF Inv

(* And every further user.                                                 *)
LEMMA ShareInv ==
    ASSUME NEW p \in owned
    PROVE  Inv /\ Share(p) => Inv'
<1> SUFFICES ASSUME Inv, Share(p)
             PROVE  Inv'
  OBVIOUS
<1>1. /\ e820 \in E820Maps /\ phase = "ready" /\ twice = {} /\ Fits(e820)
      /\ Booked(e820, Tables, owned, was_shared)
  BY DEF Inv, Share
<1>2. PICK t : t = Joined(Tables, p)
  OBVIOUS
<1>3. /\ bits_map' = t.bits /\ pages' = t.pages /\ zones' = t.zones
      /\ was_shared' = was_shared \cup {p} /\ owned' = owned /\ twice' = twice
      /\ e820' = e820 /\ phase' = phase
      /\ Tables.pages[p].reference_count < MaxReferences
  BY <1>2 DEF Share, Tables, Joined
<1>4. Booked(e820, t, owned, was_shared \cup {p})
  BY <1>1, <1>2, <1>3, ShareBooked
<1>5. Tables' = t
  BY <1>3, <1>4, Parts DEF Tables
<1> QED BY <1>1, <1>3, <1>4, <1>5 DEF Inv

(* And every one who leaves.                                               *)
LEMMA CleanInv ==
    ASSUME NEW p \in owned
    PROVE  Inv /\ Clean(p) => Inv'
<1> SUFFICES ASSUME Inv, Clean(p)
             PROVE  Inv'
  OBVIOUS
<1>1. /\ e820 \in E820Maps /\ phase = "ready" /\ twice = {} /\ Fits(e820)
      /\ Booked(e820, Tables, owned, was_shared)
  BY DEF Inv, Clean
<1>2. PICK t : t = page_clean(Tables, p)
  OBVIOUS
<1>3. PICK rest : rest = IF t.pages[p].attribute = {} THEN owned \ {p} ELSE owned
  OBVIOUS
<1>4. /\ bits_map' = t.bits /\ pages' = t.pages /\ zones' = t.zones
      /\ was_shared' = was_shared /\ owned' = rest /\ twice' = twice
      /\ e820' = e820 /\ phase' = phase
  BY <1>2, <1>3 DEF Clean
<1>5. Booked(e820, t, rest, was_shared)
  BY <1>1, <1>2, <1>3, CleanBooked
<1>6. Tables' = t
  BY <1>4, <1>5, Parts DEF Tables
<1> QED BY <1>1, <1>4, <1>5, <1>6 DEF Inv

(* The invariant is inductive.                                             *)
LEMMA NextInv == Fitting /\ Inv /\ [Next]_vars => Inv'
<1> SUFFICES ASSUME Fitting, Inv, [Next]_vars
             PROVE  Inv'
  OBVIOUS
<1>1. CASE init_memory
  BY <1>1, InitMemoryInv
<1>2. ASSUME NEW zone_select \in ZoneSelects, NEW number \in 1 .. MaxNumber,
             NEW flags \in Flags, alloc_pages(zone_select, number, flags)
      PROVE  Inv'
  BY <1>2, AllocInv
<1>3. ASSUME NEW p \in owned, Share(p)
      PROVE  Inv'
  BY <1>3, ShareInv
<1>4. ASSUME NEW p \in owned, Clean(p)
      PROVE  Inv'
  BY <1>4, CleanInv
<1>5. CASE UNCHANGED vars
  <2>1. /\ e820' = e820 /\ phase' = phase /\ bits_map' = bits_map
        /\ pages' = pages /\ zones' = zones /\ owned' = owned
        /\ twice' = twice /\ was_shared' = was_shared
    BY <1>5 DEF vars
  <2>2. Tables' = Tables
    BY <2>1 DEF Tables
  <2> QED BY <2>1, <2>2 DEF Inv
<1> QED BY <1>1, <1>2, <1>3, <1>4, <1>5 DEF Next

(* It holds of the program.                                                *)
LEMMA SpecInv == Fitting => (Spec => []Inv)
<1> SUFFICES ASSUME Fitting
             PROVE  Spec => []Inv
  OBVIOUS
<1>1. Init => Inv
  BY InitInv
<1>2. Inv /\ [Next]_vars => Inv'
  BY NextInv
<1> QED BY <1>1, <1>2, PTL DEF Spec

-----------------------------------------------------------------------------
(* The properties. *)

(* No more pages of a zone are in use than it has, so that none of its two *)
(* counts of pages leaves the range from 0 to all pages.                   *)
LEMMA CountsWithin ==
    ASSUME NEW table \in E820Maps, Fits(table), NEW t, NEW taken, NEW shared,
           Booked(table, t, taken, shared), NEW i \in Zones(table)
    PROVE  /\ t.zones[i].page_using_count \in 0 .. TotalPages(table)
           /\ t.zones[i].page_free_count \in 0 .. TotalPages(table)
           /\ t.zones[i].total_pages_link \in Nat
<1> DEFINE start == FirstPage(table[i])
           end == EndPage(table[i])
           using == t.zones[i].page_using_count
           free == t.zones[i].page_free_count
<1>1. Shaped(table, t) /\ PagesRight(table, t) /\ ZonesRight(table, t)
  BY DEF Booked, Right
<1>2. /\ start \in Nat /\ end \in Nat /\ TotalPages(table) \in Nat
      /\ end <= TotalPages(table)
  BY TableFacts, FitFacts DEF Zones, Fits
<1>3. IsFiniteSet(UsedIn(t, i)) /\ IsFiniteSet(UsersIn(t, i))
  BY <1>1, CountedFinite
<1>4. Cardinality(UsedIn(t, i)) \in Nat /\ Cardinality(UsersIn(t, i)) \in Nat
  BY <1>3, FS_CardinalityType
<1>5. /\ using = Cardinality(UsedIn(t, i)) /\ using + free = end - start
      /\ t.zones[i].total_pages_link = Cardinality(UsersIn(t, i))
  BY <1>1 DEF ZonesRight
<1>6. using \in Nat /\ free \in Int
  BY <1>1, <1>4, <1>5, ShapeFacts
<1>7. free >= 0
  <2>1. CASE i = FirstZone(table)
    BY <2>1 DEF Booked
  <2>2. CASE i # FirstZone(table)
    <3>1. ASSUME NEW p \in UsedIn(t, i)
          PROVE  p \in start .. end - 1
      <4>1. p \in 0 .. LastPage(table) /\ t.pages[p].zone = i
        BY <1>1, ShapeFacts DEF UsedIn, PagesIn
      <4>2. p \in Nat /\ ZoneOf(table, p) = i
        BY <1>1, <1>2, <4>1 DEF PagesRight, LastPage
      <4>3. i # Null
        BY <4>2, ChargedTo
      <4>4. p # 0
        BY <2>2, <4>2 DEF ZoneOf
      <4>5. i \in ZonesOf(table, p)
        BY <4>2, <4>3, <4>4, ChargedTo
      <4> QED BY <4>2, <4>5, <1>2 DEF ZonesOf
    <3>2. start < end
      BY TableFacts
    <3>3. IsFiniteSet(start .. end - 1)
          /\ Cardinality(start .. end - 1) = end - start
      <4>1. PICK a \in Int, b \in Int :
               a = start /\ b = end - 1 /\ a <= b /\ b - a + 1 = end - start
        BY <1>2, <3>2
      <4>2. IsFiniteSet(a .. b) /\ Cardinality(a .. b) = b - a + 1
        BY <4>1, FS_Interval
      <4> QED BY <4>1, <4>2
    <3>4. Cardinality(UsedIn(t, i)) <= Cardinality(start .. end - 1)
      BY <3>1, <3>3, FS_Subset
    <3> QED BY <3>3, <3>4, <1>2, <1>5, <1>6
  <2> QED BY <2>1, <2>2
<1> HIDE DEF start, end, using, free
<1>8. using \in 0 .. TotalPages(table) /\ free \in 0 .. TotalPages(table)
  BY <1>2, <1>5, <1>6, <1>7
<1> QED BY <1>4, <1>5, <1>8 DEF using, free

(* No count of a page or of a zone ever wraps below 0 or passes what there *)
(* is to count: what alloc_pages() tests page_free_count for stays true of *)
(* every zone, although page 0 is charged to the first one without being   *)
(* one of its pages.                                                       *)
THEOREM CountsInRange == Fitting => (Spec => []TypeOK)
<1> SUFFICES ASSUME Fitting
             PROVE  Spec => []TypeOK
  OBVIOUS
<1>1. Inv => TypeOK
  <2> SUFFICES ASSUME Inv
               PROVE  TypeOK
    OBVIOUS
  <2>1. e820 \in E820Maps /\ phase \in {"boot", "ready", "overlap"}
    BY DEF Inv
  <2>2. CASE phase # "ready"
    <3>1. /\ DOMAIN bits_map = {} /\ DOMAIN pages = {} /\ DOMAIN zones = {}
          /\ owned = {}
      BY <2>2 DEF Inv
    <3> QED BY <2>1, <3>1 DEF TypeOK
  <2>3. CASE phase = "ready"
    <3>1. Fits(e820) /\ Booked(e820, Tables, owned, was_shared)
      BY <2>3 DEF Inv
    <3>2. Shaped(e820, Tables) /\ PagesRight(e820, Tables)
      BY <3>1 DEF Booked, Right
    <3>3. /\ DOMAIN pages = 0 .. LastPage(e820) /\ DOMAIN zones = Zones(e820)
          /\ \A b \in DOMAIN bits_map : bits_map[b] \in {0, 1}
      <4>1. PICK t : t = Tables
        OBVIOUS
      <4>2. /\ DOMAIN t.pages = 0 .. LastPage(e820)
            /\ DOMAIN t.zones = Zones(e820)
            /\ DOMAIN t.bits = 0 .. Words(e820) * W - 1
            /\ t.bits \in [0 .. Words(e820) * W - 1 -> {0, 1}]
        BY <2>1, <3>1, <3>2, <4>1, ShapeFacts
      <4>3. \A b \in DOMAIN t.bits : t.bits[b] \in {0, 1}
        BY <4>2
      <4> QED BY <4>1, <4>2, <4>3 DEF Tables
    <3>4. ASSUME NEW p \in DOMAIN pages
          PROVE  /\ pages[p].zone \in {Null} \cup DOMAIN zones
                 /\ pages[p].attribute \in Flags \cup {{}}
                 /\ pages[p].reference_count \in 0 .. MaxReferences
      <4>1. p \in Nat
        BY <2>1, <3>1, <3>3, FitFacts DEF LastPage
      <4>2. /\ pages[p].zone = ZoneOf(e820, p)
            /\ pages[p].reference_count <= MaxReferences
        BY <3>2, <3>3 DEF PagesRight, Tables
      <4>3. /\ pages[p].attribute \in Flags \cup {{}}
            /\ pages[p].reference_count \in Nat
        <5>1. PICK t : t = Tables
          OBVIOUS
        <5>2. p \in 0 .. LastPage(e820)
          BY <3>3
        <5>3. /\ t.pages[p].attribute \in Flags \cup {{}}
              /\ t.pages[p].reference_count \in Nat
          BY <2>1, <3>1, <3>2, <5>1, <5>2, ShapeFacts
        <5> QED BY <5>1, <5>3 DEF Tables
      <4>4. ZoneOf(e820, p) \in {Null} \cup Zones(e820)
        BY <2>1, <3>1, <4>1, ChargedTo
      <4> QED BY <3>3, <4>2, <4>3, <4>4, Numbers
    <3>5. ASSUME NEW i \in DOMAIN zones
          PROVE  /\ zones[i].page_using_count \in 0 .. TotalPages(e820)
                 /\ zones[i].page_free_count \in 0 .. TotalPages(e820)
                 /\ zones[i].total_pages_link \in Nat
      BY <2>1, <3>1, <3>3, CountsWithin DEF Tables
    <3>6. owned \subseteq DOMAIN pages
      BY <2>1, <3>1, <3>3, PageRange DEF Booked
    <3> QED BY <2>1, <3>3, <3>4, <3>5, <3>6 DEF TypeOK
  <2> QED BY <2>2, <2>3
<1>2. Spec => []Inv
  BY SpecInv
<1> QED BY <1>1, <1>2, PTL

(* No page is handed out while it has an owner or holds the kernel, and    *)
(* page_init() never gets one without a zone.                              *)
THEOREM NeverHandedOutTwice == Fitting => (Spec => []NoDoubleAllocation)
<1> SUFFICES ASSUME Fitting
             PROVE  Spec => []NoDoubleAllocation
  OBVIOUS
<1>1. Inv => NoDoubleAllocation
  BY DEF Inv, NoDoubleAllocation
<1>2. Spec => []Inv
  BY SpecInv
<1> QED BY <1>1, <1>2, PTL

(* A clear bit is a page no one uses, and a set bit of an unused page is   *)
(* one that was shared once.                                               *)
THEOREM BitmapRight == Fitting => (Spec => []BitmapAgrees)
<1> SUFFICES ASSUME Fitting
             PROVE  Spec => []BitmapAgrees
  OBVIOUS
<1>1. Inv => BitmapAgrees
  <2> SUFFICES ASSUME Inv, NEW p \in DOMAIN pages, pages[p].zone # Null, p # 0
               PROVE  /\ bits_map[p] = 0 => pages[p].attribute = {}
                      /\ pages[p].attribute = {} /\ bits_map[p] = 1 =>
                            p \in was_shared
    BY DEF BitmapAgrees
  <2>1. phase = "ready"
    BY DEF Inv
  <2>2. e820 \in E820Maps /\ Fits(e820)
        /\ Booked(e820, Tables, owned, was_shared)
    BY <2>1 DEF Inv
  <2>3. p \in 0 .. LastPage(e820) /\ p \in 0 .. Words(e820) * W - 1
    BY <2>2, ShapeFacts DEF Booked, Right, Tables
  <2>4. p \in Nat
    BY <2>2, <2>3, FitFacts DEF LastPage
  <2>5. ZonesOf(e820, p) # {}
    <3>1. pages[p].zone = ZoneOf(e820, p)
      BY <2>2, <2>3 DEF Booked, Right, PagesRight, Tables
    <3> QED BY <3>1, <2>2, <2>4, ChargedTo
  <2>6. /\ pages[p].attribute # {} <=> p \in owned \cup Kernel
        /\ bits_map[p] = 0 => p \notin owned \cup Kernel
        /\ bits_map[p] = 1 => p \in owned \cup Kernel \cup was_shared
    BY <2>2, <2>3, <2>5 DEF Booked, Tables
  <2> QED BY <2>6
<1>2. Spec => []Inv
  BY SpecInv
<1> QED BY <1>1, <1>2, PTL

(* The counters of a zone count its pages: those in use, the rest and all  *)
(* the users.                                                              *)
THEOREM CountersRight == Fitting => (Spec => []CountersAgree)
<1> SUFFICES ASSUME Fitting
             PROVE  Spec => []CountersAgree
  OBVIOUS
<1>1. Inv => CountersAgree
  <2> SUFFICES ASSUME Inv, phase = "ready", NEW i \in DOMAIN zones
               PROVE  /\ zones[i].page_using_count =
                            Cardinality({p \in PagesOf(i) :
                                            pages[p].attribute # {}})
                      /\ zones[i].page_using_count + zones[i].page_free_count =
                            zones[i].end - zones[i].start
                      /\ zones[i].total_pages_link = Cardinality(Users(i))
    BY DEF CountersAgree
  <2>1. e820 \in E820Maps /\ Fits(e820) /\ Right(e820, Tables)
    BY DEF Inv, Booked
  <2>2. i \in Zones(e820)
    BY <2>1, ShapeFacts DEF Right, Tables
  <2>3. PagesOf(i) = PagesIn(Tables, i)
    BY DEF PagesOf, PagesIn, Tables
  <2>4. UsedIn(Tables, i) = {p \in PagesOf(i) : pages[p].attribute # {}}
    BY <2>3 DEF UsedIn, Tables
  <2>5. UsersIn(Tables, i) = Users(i)
    BY <2>3 DEF UsersIn, Users, Tables
  <2>6. /\ zones[i].page_using_count = Cardinality(UsedIn(Tables, i))
        /\ zones[i].page_using_count + zones[i].page_free_count =
              zones[i].end - zones[i].start
        /\ zones[i].total_pages_link = Cardinality(UsersIn(Tables, i))
    BY <2>1, <2>2 DEF Right, ZonesRight, Tables
  <2> QED BY <2>4, <2>5, <2>6
<1>2. Spec => []Inv
  BY SpecInv
<1> QED BY <1>1, <1>2, PTL

-----------------------------------------------------------------------------
(* The abstract specification. *)

(* How many users the tables t count for each page.                        *)
UsersOf(t) ==
    [p \in PageNumbers |->
        IF p \in DOMAIN t.pages THEN t.pages[p].reference_count ELSE 0]

(* When the counts of the pages of a table are known, all of them are.     *)
LEMMA UsersAre ==
    ASSUME NEW table \in E820Maps, Fits(table), NEW t, Right(table, t),
           NEW u, u = [p \in PageNumbers |-> u[p]],
           \A p \in 0 .. LastPage(table) : u[p] = t.pages[p].reference_count,
           \A p \in PageNumbers \ (0 .. LastPage(table)) : u[p] = 0
    PROVE  UsersOf(t) = u
<1>1. DOMAIN t.pages = 0 .. LastPage(table)
  BY ShapeFacts DEF Right
<1>2. \A p \in PageNumbers : UsersOf(t)[p] = u[p]
  BY <1>1 DEF UsersOf
<1> QED BY <1>2 DEF UsersOf

(* And the other way round.                                                *)
LEMMA UsersAt ==
    ASSUME NEW table \in E820Maps, Fits(table), NEW t, Right(table, t)
    PROVE  /\ 0 .. LastPage(table) \subseteq PageNumbers
           /\ UsersOf(t) = [p \in PageNumbers |-> UsersOf(t)[p]]
           /\ \A p \in 0 .. LastPage(table) :
                 UsersOf(t)[p] = t.pages[p].reference_count
           /\ \A p \in PageNumbers \ (0 .. LastPage(table)) :
                 UsersOf(t)[p] = 0
<1>1. DOMAIN t.pages = 0 .. LastPage(table)
  BY ShapeFacts DEF Right
<1>2. 0 .. LastPage(table) \subseteq PageNumbers
  BY DEF PageNumbers, LastPage
<1> QED BY <1>1, <1>2 DEF UsersOf

(* init_memory() leaves one user to each page of the kernel and none to    *)
(* any other.                                                              *)
LEMMA KernelUsers ==
    ASSUME NEW table \in E820Maps, Fits(table), NEW n,
           n = page_init(FreshTables(table), Kernel, {"kernel"})
    PROVE  UsersOf(n) = [p \in PageNumbers |-> IF p \in Kernel THEN 1 ELSE 0]
<1> DEFINE t == FreshTables(table)
           u == [p \in PageNumbers |-> IF p \in Kernel THEN 1 ELSE 0]
<1>1. Right(table, t) /\ \A p \in 0 .. LastPage(table) : t.pages[p].attribute = {}
  BY FreshRight
<1>2. Kernel \in SUBSET (0 .. LastPage(table))
  <2>1. \A p \in Kernel : p \in Nat
    BY Numbers DEF Kernel
  <2> QED BY <2>1, PageRange
<1>3. Right(table, n) /\ FirstCame(table, t, Kernel, {"kernel"}, n)
  <2>1. {"kernel"} \in Flags
    BY DEF Flags
  <2>2. n = page_init(t, Kernel, {"kernel"})
    OBVIOUS
  <2>3. \A p \in Kernel : t.pages[p].attribute = {}
    BY <1>1, <1>2
  <2> HIDE DEF t, Kernel
  <2> QED BY <2>1, <2>2, <2>3, <1>1, <1>2, FirstUsers
<1>4. \A p \in 0 .. LastPage(table) :
         n.pages[p].reference_count = IF p \in Kernel THEN 1 ELSE 0
  <2>1. \A p \in 0 .. LastPage(table) : t.pages[p].reference_count = 0
    BY <1>1 DEF Right, PagesRight
  <2> HIDE DEF t
  <2> QED BY <2>1, <1>3 DEF FirstCame
<1>5. 0 .. LastPage(table) \subseteq PageNumbers
  BY <1>1, UsersAt
<1>6. /\ u = [p \in PageNumbers |-> u[p]]
      /\ \A p \in 0 .. LastPage(table) : u[p] = n.pages[p].reference_count
      /\ \A p \in PageNumbers \ (0 .. LastPage(table)) : u[p] = 0
  BY <1>2, <1>4, <1>5
<1> HIDE DEF u
<1>7. UsersOf(n) = u
  BY <1>3, <1>6, UsersAre
<1> QED BY <1>7 DEF u

(* A run of pages with clear bits is usable memory without users, none of  *)
(* it the kernel's, and page_init() makes one user for each.               *)
LEMMA RunUsers ==
    ASSUME NEW table \in E820Maps, Fits(table), NEW t, NEW taken, NEW shared,
           Booked(table, t, taken, shared), NEW run, Free(table, t, run),
           NEW flags \in Flags, NEW n, n = page_init(t, run, flags)
    PROVE  /\ \A p \in run : /\ p \in PageNumbers /\ p \notin Kernel
                             /\ ZonesOf(table, p) # {} /\ UsersOf(t)[p] = 0
           /\ UsersOf(n) = [p \in PageNumbers |->
                                IF p \in run THEN 1 ELSE UsersOf(t)[p]]
<1> DEFINE u == [p \in PageNumbers |-> IF p \in run THEN 1 ELSE UsersOf(t)[p]]
<1>1. /\ Right(table, t)
      /\ \A p \in 0 .. LastPage(table) :
            t.pages[p].attribute # {} <=> p \in taken \cup Kernel
      /\ \A p \in 0 .. Words(table) * W - 1 :
            /\ ZonesOf(table, p) = {} => t.bits[p] = 1
            /\ t.bits[p] = 0 => p \notin taken \cup Kernel
  BY DEF Booked
<1>2. ASSUME NEW p \in run
      PROVE  /\ ZonesOf(table, p) # {} /\ p \notin Kernel
             /\ p \in 0 .. LastPage(table) /\ t.pages[p].attribute = {}
             /\ t.pages[p].reference_count = 0
  <2>1. p \in Nat /\ p \in 0 .. Words(table) * W - 1 /\ t.bits[p] = 0
    BY FitFacts DEF Free
  <2>2. ZonesOf(table, p) # {} /\ p \notin taken \cup Kernel
    BY <1>1, <2>1
  <2>3. p \in 0 .. LastPage(table)
    BY <2>1, <2>2, PageRange
  <2>4. t.pages[p].attribute = {}
    BY <1>1, <2>2, <2>3
  <2> QED BY <1>1, <2>2, <2>3, <2>4 DEF Right, PagesRight
<1>3. /\ 0 .. LastPage(table) \subseteq PageNumbers
      /\ \A p \in 0 .. LastPage(table) :
            UsersOf(t)[p] = t.pages[p].reference_count
      /\ \A p \in PageNumbers \ (0 .. LastPage(table)) : UsersOf(t)[p] = 0
  BY <1>1, UsersAt
<1>4. Right(table, n) /\ FirstCame(table, t, run, flags, n)
  <2>1. /\ run \in SUBSET (0 .. LastPage(table))
        /\ \A p \in run : t.pages[p].attribute = {}
    BY <1>2
  <2> QED BY <2>1, <1>1, FirstUsers
<1>5. \A p \in 0 .. LastPage(table) :
         n.pages[p].reference_count =
             IF p \in run THEN 1 ELSE t.pages[p].reference_count
  BY <1>4 DEF FirstCame
<1>6. /\ u = [p \in PageNumbers |-> u[p]]
      /\ \A p \in 0 .. LastPage(table) : u[p] = n.pages[p].reference_count
      /\ \A p \in PageNumbers \ (0 .. LastPage(table)) : u[p] = 0
  BY <1>2, <1>3, <1>5
<1> HIDE DEF u
<1>7. UsersOf(n) = u
  BY <1>4, <1>6, UsersAre
<1> QED BY <1>2, <1>3, <1>7 DEF u

(* The tables t and n differ in page p only, whose count is another now.   *)
CountNow(table, t, n, p, count) ==
    /\ Right(table, t) /\ Right(table, n) /\ p \in 0 .. LastPage(table)
    /\ \A q \in 0 .. LastPage(table) : q # p => n.pages[q] = t.pages[q]
    /\ n.pages[p].reference_count = count

(* So do the users that they count.                                        *)
LEMMA OneCountChanges ==
    ASSUME NEW table \in E820Maps, Fits(table), NEW t, NEW n, NEW p, NEW count,
           CountNow(table, t, n, p, count)
    PROVE  UsersOf(n) = [UsersOf(t) EXCEPT ![p] = count]
<1> DEFINE u == [UsersOf(t) EXCEPT ![p] = count]
<1>0. /\ Right(table, t) /\ Right(table, n) /\ p \in 0 .. LastPage(table)
      /\ \A q \in 0 .. LastPage(table) : q # p => n.pages[q] = t.pages[q]
      /\ n.pages[p].reference_count = count
  BY DEF CountNow
<1>1. /\ 0 .. LastPage(table) \subseteq PageNumbers
      /\ UsersOf(t) = [q \in PageNumbers |-> UsersOf(t)[q]]
      /\ \A q \in 0 .. LastPage(table) :
            UsersOf(t)[q] = t.pages[q].reference_count
      /\ \A q \in PageNumbers \ (0 .. LastPage(table)) : UsersOf(t)[q] = 0
  BY <1>0, UsersAt
<1>2. /\ u = [q \in PageNumbers |-> u[q]]
      /\ \A q \in 0 .. LastPage(table) : u[q] = n.pages[q].reference_count
      /\ \A q \in PageNumbers \ (0 .. LastPage(table)) : u[q] = 0
  BY <1>0, <1>1
<1> HIDE DEF u
<1>3. UsersOf(n) = u
  BY <1>0, <1>2, UsersAre
<1> QED BY <1>3 DEF u

(* A page that has an owner has users, and is none of the kernel's.        *)
LEMMA OwnedPage ==
    ASSUME NEW table \in E820Maps, Fits(table), NEW t, NEW taken, NEW shared,
           Booked(table, t, taken, shared), NEW p \in taken
    PROVE  /\ p \in PageNumbers \ Kernel /\ p \in 0 .. LastPage(table)
           /\ UsersOf(t)[p] = t.pages[p].reference_count
           /\ UsersOf(t)[p] > 0
           /\ t.pages[p].attribute # {} /\ t.pages[p].zone \in Zones(table)
<1>1. /\ Right(table, t) /\ p \notin Kernel /\ p \in Nat
      /\ ZonesOf(table, p) # {}
      /\ \A q \in 0 .. LastPage(table) :
            t.pages[q].attribute # {} <=> q \in taken \cup Kernel
  BY DEF Booked
<1>2. p \in 0 .. LastPage(table)
  BY <1>1, PageRange
<1>3. t.pages[p].attribute # {} /\ t.pages[p].zone \in Zones(table)
  <2>1. t.pages[p].zone = ZoneOf(table, p)
    BY <1>1, <1>2 DEF Right, PagesRight
  <2> QED BY <2>1, <1>1, <1>2, ChargedTo
<1>4. p \in PageNumbers /\ UsersOf(t)[p] = t.pages[p].reference_count
  BY <1>1, <1>2, UsersAt
<1>5. t.pages[p].reference_count > 0
  <2>1. t.pages[p].reference_count \in Nat
    BY <1>1, <1>2, ShapeFacts DEF Right
  <2>2. t.pages[p].reference_count # 0
    BY <1>1, <1>2, <1>3 DEF Right, PagesRight
  <2> QED BY <2>1, <2>2
<1> QED BY <1>1, <1>2, <1>3, <1>4, <1>5

(* page_init() with a shared attribute makes one user more of it.          *)
LEMMA UserJoined ==
    ASSUME NEW table \in E820Maps, Fits(table), NEW t, NEW taken, NEW shared,
           Booked(table, t, taken, shared), NEW p \in taken,
           t.pages[p].reference_count < MaxReferences, NEW n,
           n = Joined(t, p)
    PROVE  UsersOf(n) = [UsersOf(t) EXCEPT ![p] = @ + 1]
<1>1. Right(table, t)
  BY DEF Booked
<1>2. /\ p \in 0 .. LastPage(table) /\ t.pages[p].attribute # {}
      /\ UsersOf(t)[p] = t.pages[p].reference_count
  BY OwnedPage
<1>3. /\ Right(table, n)
      /\ \A q \in 0 .. LastPage(table) : q # p => n.pages[q] = t.pages[q]
      /\ n.pages[p].reference_count = t.pages[p].reference_count + 1
  BY <1>1, <1>2, FurtherUser
<1>4. PICK count : count = UsersOf(t)[p] + 1
  OBVIOUS
<1>5. CountNow(table, t, n, p, count)
  BY <1>1, <1>2, <1>3, <1>4 DEF CountNow
<1>6. UsersOf(n) = [UsersOf(t) EXCEPT ![p] = count]
  BY <1>5, OneCountChanges
<1> QED BY <1>4, <1>6

(* page_clean() makes it one user less.                                    *)
LEMMA UserGone ==
    ASSUME NEW table \in E820Maps, Fits(table), NEW t, NEW taken, NEW shared,
           Booked(table, t, taken, shared), NEW p \in taken, NEW n,
           n = page_clean(t, p)
    PROVE  UsersOf(n) = [UsersOf(t) EXCEPT ![p] = @ - 1]
<1>1. Right(table, t)
  BY DEF Booked
<1>2. /\ p \in 0 .. LastPage(table) /\ t.pages[p].attribute # {}
      /\ t.pages[p].zone \in Zones(table)
      /\ UsersOf(t)[p] = t.pages[p].reference_count
  BY OwnedPage
<1>3. /\ Right(table, n)
      /\ \A q \in 0 .. LastPage(table) : q # p => n.pages[q] = t.pages[q]
      /\ n.pages[p].reference_count = t.pages[p].reference_count - 1
  BY <1>1, <1>2, LessUser
<1>4. PICK count : count = UsersOf(t)[p] - 1
  OBVIOUS
<1>5. CountNow(table, t, n, p, count)
  BY <1>1, <1>2, <1>3, <1>4 DEF CountNow
<1>6. UsersOf(n) = [UsersOf(t) EXCEPT ![p] = count]
  BY <1>5, OneCountChanges
<1> QED BY <1>4, <1>6

(* The three tables implement the count of users: every action is one of   *)
(* the abstract specification, or changes nothing there.                   *)
THEOREM OwnersImplemented == Fitting => (Spec => ImplementsOwners)
<1> SUFFICES ASSUME Fitting
             PROVE  Spec => ImplementsOwners
  OBVIOUS
<1> DEFINE usable == {p \in PageNumbers : ZonesOf(e820, p) # {}}
<1>1. Init => Owners!Init
  <2> SUFFICES ASSUME Init
               PROVE  /\ usable \in SUBSET PageNumbers
                      /\ Counted = [p \in PageNumbers |-> 0]
    BY DEF Owners!Init
  <2>1. DOMAIN pages = {}
    BY DEF Init
  <2> QED BY <2>1 DEF Counted
<1>2. Inv /\ [Next]_vars => [Owners!Next]_(Owners!vars)
  <2> SUFFICES ASSUME Inv, [Next]_vars
               PROVE  Owners!Next \/ UNCHANGED Owners!vars
    OBVIOUS
  <2>0. /\ e820 \in E820Maps
        /\ Counted = UsersOf(Tables) /\ Counted' = UsersOf(Tables')
        /\ \A t : pages' = t.pages => UsersOf(Tables') = UsersOf(t)
    BY DEF Inv, Counted, UsersOf, Tables
  <2>a. e820' = e820 => usable' = usable
    BY DEF ZonesOf, Zones
  <2>b. ASSUME e820' = e820, pages' = pages
        PROVE  UNCHANGED Owners!vars
    BY <2>a, <2>b DEF Owners!vars, Counted
  <2>1. CASE init_memory
    <3>1. e820' = e820
      BY <2>1 DEF init_memory
    <3>2. CASE ~TablesApart(e820)
      BY <2>1, <2>b, <3>1, <3>2 DEF init_memory
    <3>3. CASE TablesApart(e820)
      <4>1. Fits(e820)
        BY <2>0, <3>3 DEF Fitting
      <4>2. PICK t : t = page_init(FreshTables(e820), Kernel, {"kernel"})
        OBVIOUS
      <4>3. pages' = t.pages
        <5>1. Charged(FreshTables(e820), Kernel)
          BY <2>0, <4>1, KernelCharged
        <5> QED BY <2>1, <3>3, <4>2, <5>1 DEF init_memory, Kernel
      <4>4. Counted' = [p \in PageNumbers |-> IF p \in Kernel THEN 1 ELSE 0]
        BY <2>0, <4>1, <4>2, <4>3, KernelUsers
      <4>5. Counted = [p \in PageNumbers |-> 0]
        <5>1. pages = <<>>
          BY <2>1 DEF init_memory, Inv
        <5>2. DOMAIN pages = {}
          BY <5>1
        <5> QED BY <5>2 DEF Counted
      <4>6. Owners!Settle
        BY <2>a, <3>1, <4>4, <4>5 DEF Owners!Settle, Kernel
      <4> QED BY <4>6 DEF Owners!Next
    <3> QED BY <3>2, <3>3
  <2>2. ASSUME NEW zone_select \in ZoneSelects, NEW number \in 1 .. MaxNumber,
               NEW flags \in Flags, alloc_pages(zone_select, number, flags)
        PROVE  Owners!Next
    <3>1. /\ Fits(e820) /\ Booked(e820, Tables, owned, was_shared)
          /\ e820' = e820
      BY <2>2 DEF Inv, alloc_pages
    <3>2. PICK page, run, t : Found(page, run, t, number, flags)
      BY <2>2, AllocFound
    <3>5. page \in Nat /\ Free(e820, Tables, run)
      BY <3>2 DEF Found
    <3>6. run = page .. page + number - 1
      BY <3>2 DEF Found
    <3>7. t = page_init(Tables, run, flags)
      BY <3>2 DEF Found
    <3>8. pages' = t.pages
      BY <3>2 DEF Found
    <3>9. /\ \A p \in run : /\ p \in PageNumbers /\ p \notin Kernel
                            /\ ZonesOf(e820, p) # {} /\ Counted[p] = 0
          /\ Counted' = [p \in PageNumbers |->
                             IF p \in run THEN 1 ELSE Counted[p]]
      BY <2>0, <3>1, <3>5, <3>6, <3>7, <3>8, RunUsers
    <3>10. page \in run
      BY <3>5, <3>6, Numbers
    <3>11. run \subseteq usable \ Kernel /\ page \in PageNumbers
      BY <3>9, <3>10
    <3>12. Owners!HandOut(number)
      BY <2>a, <3>1, <3>6, <3>9, <3>11 DEF Owners!HandOut, Kernel
    <3> QED BY <3>12 DEF Owners!Next
  <2>3. ASSUME NEW p \in owned, Share(p)
        PROVE  Owners!Next
    <3>1. /\ Fits(e820) /\ Booked(e820, Tables, owned, was_shared)
          /\ e820' = e820 /\ Tables.pages[p].reference_count < MaxReferences
      BY <2>3 DEF Inv, Share, Tables
    <3>2. PICK t : t = Joined(Tables, p)
      OBVIOUS
    <3>3. pages' = t.pages
      BY <2>3, <3>2 DEF Share, Joined
    <3>4. /\ p \in PageNumbers \ Kernel /\ Counted[p] > 0
          /\ Counted' = [Counted EXCEPT ![p] = @ + 1]
      <4>1. /\ p \in PageNumbers \ Kernel /\ UsersOf(Tables)[p] > 0
            /\ UsersOf(t) = [UsersOf(Tables) EXCEPT ![p] = @ + 1]
        <5>1. UsersOf(t) = [UsersOf(Tables) EXCEPT ![p] = @ + 1]
          BY <2>0, <3>1, <3>2, UserJoined
        <5>2. p \in PageNumbers \ Kernel /\ UsersOf(Tables)[p] > 0
          BY <2>0, <3>1, OwnedPage
        <5> QED BY <5>1, <5>2
      <4>2. Counted = UsersOf(Tables) /\ Counted' = UsersOf(t)
        BY <2>0, <3>3
      <4> QED BY <4>1, <4>2
    <3>5. Owners!Join(p)
      BY <2>a, <3>1, <3>4 DEF Owners!Join
    <3> QED BY <3>4, <3>5 DEF Owners!Next, Kernel
  <2>4. ASSUME NEW p \in owned, Clean(p)
        PROVE  Owners!Next
    <3>1. /\ Fits(e820) /\ Booked(e820, Tables, owned, was_shared)
          /\ e820' = e820
      BY <2>4 DEF Inv, Clean
    <3>2. PICK t : t = page_clean(Tables, p)
      OBVIOUS
    <3>3. pages' = t.pages
      BY <2>4, <3>2 DEF Clean
    <3>4. /\ p \in PageNumbers \ Kernel /\ Counted[p] > 0
          /\ Counted' = [Counted EXCEPT ![p] = @ - 1]
      <4>1. /\ p \in PageNumbers \ Kernel /\ UsersOf(Tables)[p] > 0
            /\ UsersOf(t) = [UsersOf(Tables) EXCEPT ![p] = @ - 1]
        <5>1. UsersOf(t) = [UsersOf(Tables) EXCEPT ![p] = @ - 1]
          BY <2>0, <3>1, <3>2, UserGone
        <5>2. p \in PageNumbers \ Kernel /\ UsersOf(Tables)[p] > 0
          BY <2>0, <3>1, OwnedPage
        <5> QED BY <5>1, <5>2
      <4>2. Counted = UsersOf(Tables) /\ Counted' = UsersOf(t)
        BY <2>0, <3>3
      <4> QED BY <4>1, <4>2
    <3>5. Owners!Leave(p)
      BY <2>a, <3>1, <3>4 DEF Owners!Leave
    <3> QED BY <3>4, <3>5 DEF Owners!Next, Kernel
  <2>5. CASE UNCHANGED vars
    <3>1. e820' = e820 /\ pages' = pages
      BY <2>5 DEF vars
    <3> QED BY <3>1, <2>b
  <2> QED BY <2>1, <2>2, <2>3, <2>4, <2>5 DEF Next
<1>3. Spec => []Inv
  BY SpecInv
<1> QED BY <1>1, <1>2, <1>3, PTL DEF Spec, ImplementsOwners, Owners!Spec

=============================================================================
