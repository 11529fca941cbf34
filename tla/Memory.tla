------------------------------- MODULE Memory -------------------------------
(***************************************************************************)
(* The physical memory manager of memory.c: init_memory() builds a bit map *)
(* of the 2M pages, a struct Page for each and a struct Zone for each      *)
(* usable region of the E820 table; alloc_pages(), page_init() and         *)
(* page_clean() then work on the three together.                           *)
(*                                                                         *)
(* Memory is measured in units of which a 2M page has Units, and a word of *)
(* the bit map has W bits (64 in the program).  Of the attribute of a page *)
(* the code tells apart two things: whether it is 0, and whether one of    *)
(* PG_Referenced and PG_K_Share_To_U is set; it is a set of "kernel" and   *)
(* "shared" here.  The page tables and flush_tlb() are left out.           *)
(***************************************************************************)
EXTENDS Integers, Sequences, FiniteSets, FiniteSetsExt

CONSTANTS
    W,              \* bits of a word of the bit map
    Units,          \* units of memory in a page
    E820Maps,       \* the E820 tables init_memory() may find
    KernelEnd,      \* the page that holds the end of the tables
    Unmapped,       \* the page at 0x100000000
    ZoneSelects,    \* the zone_select callers of alloc_pages() pass
    MaxNumber,      \* bound: pages asked for at once
    MaxReferences   \* bound: users of a page

(* do_fork() asks for ZONE_NORMAL (task.c:83).                             *)
ASSUME MemoryAssumption ==
    /\ W \in Nat \ {0}
    /\ Units \in Nat \ {0}
    /\ KernelEnd \in Nat /\ Unmapped \in Nat
    /\ "ZONE_NORMAL" \in ZoneSelects
    /\ MaxNumber \in 1 .. W
    /\ MaxReferences \in Nat \ {0}
    /\ E820Maps \subseteq Seq([address : Nat, length : Nat, type : Nat])

VARIABLES
    e820,       \* memory_management_struct.e820[0 .. e820_length]
    phase,      \* "boot", then "ready"; "overlap" when the tables coincide,
                \* "astray" after a page that no zone has
    bits_map,   \* the bits of the words of the map, from 0
    pages,      \* pages_struct[], from 0
    zones,      \* zones_struct[], each by the entry it was made for
    owned,      \* history: pages alloc_pages() handed out, not cleaned since
    twice,      \* history: pages handed out while owned or reserved
    was_shared  \* history: pages that had a shared attribute

vars == <<e820, phase, bits_map, pages, zones, owned, twice, was_shared>>

Null == 0   \* no zone

Shared(attribute) == "shared" \in attribute
Flags == {{"kernel"}, {"kernel", "shared"}}

-----------------------------------------------------------------------------
(* The geometry init_memory() computes from the table.                     *)

FirstPage(r) == (r.address + Units - 1) \div Units      \* PAGE_2M_ALIGN
EndPage(r)   == (r.address + r.length) \div Units
Usable(r)    == r.type = 1 /\ EndPage(r) > FirstPage(r)

(* The last entry of the table, of whatever type, ends the memory.         *)
TotalPages(table) == EndPage(table[Len(table)])
Words(table)      == (TotalPages(table) + W - 1) \div W

(* Where the tables start, in bytes from the end of the kernel.            *)
To4K(n)             == ((n + 4095) \div 4096) * 4096
bits_length(table)  == Words(table) * (W \div 8)
pages_struct(table) == To4K(bits_length(table))
zones_struct(table) == To4K(pages_struct(table) + TotalPages(table) * 40)

(* What the comments of init_memory() say: the page structures lie behind  *)
(* the bit map (memory.c:112), so that all three tables are apart.         *)
TablesApart(table) ==
    0 < pages_struct(table) /\ pages_struct(table) < zones_struct(table)

(* The entries that become zones, in this order.                           *)
Zones(table)     == {i \in DOMAIN table : Usable(table[i])}
FirstZone(table) == Min(Zones(table))

NewZone(r) ==
    [start |-> FirstPage(r), end |-> EndPage(r),
     page_using_count |-> 0,
     page_free_count  |-> EndPage(r) - FirstPage(r),
     total_pages_link |-> 0]

NewPage(z) == [zone |-> z, attribute |-> {}, reference_count |-> 0]

(* The zones a page lies in; the last one wins where they overlap.         *)
ZonesOf(table, p) ==
    {i \in Zones(table) : p >= FirstPage(table[i]) /\ p < EndPage(table[i])}

(* The zones alloc_pages() goes through for a zone_select.  The index of    *)
(* DMA and NORMAL is always 0, that of UNMAPED the one of the zone that     *)
(* starts at 0x100000000; without such a zone it stays 0, and the search   *)
(* goes through them all.  Any other value is an error: NULL.              *)
Unmaped(table) == {i \in Zones(table) : FirstPage(table[i]) = Unmapped}

Searched(table, zone_select) ==
    CASE zone_select \in {"ZONE_DMA", "ZONE_NORMAL"} ->
             {i \in Zones(table) : i = FirstZone(table)}
      [] zone_select = "ZONE_UNMAPED" ->
             {i \in Zones(table) : \A j \in Unmaped(table) : j <= i}
      [] OTHER -> {}

-----------------------------------------------------------------------------
(* page_init() and page_clean(), as operators on the three tables.         *)

Tables == [bits |-> bits_map, pages |-> pages, zones |-> zones]

(* The structures of the pages P are all there and point to a zone.        *)
Charged(t, P) ==
    \A p \in P : p \in DOMAIN t.pages /\ t.pages[p].zone # Null

(* Of the pages P of the tables t those in first get their first user,     *)
(* those in further a further one, the others only more attributes.        *)
UsersCome(t, P, first, further, flags) ==
    LET in(S, i) == Cardinality({p \in S : t.pages[p].zone = i})
    IN  [bits  |-> [p \in DOMAIN t.bits |->
                       IF p \in P \ further THEN 1 ELSE t.bits[p]],
         pages |-> [p \in DOMAIN t.pages |->
                       IF p \notin P THEN t.pages[p]
                       ELSE [t.pages[p] EXCEPT
                                !.attribute = @ \cup flags,
                                !.reference_count =
                                    IF p \in first \cup further
                                    THEN @ + 1 ELSE @]],
         zones |-> [i \in DOMAIN t.zones |->
                       [t.zones[i] EXCEPT
                           !.page_using_count = @ + in(first, i),
                           !.page_free_count  = @ - in(first, i),
                           !.total_pages_link = @ + in(first \cup further, i)]]]

page_init_AlwaysFirst(t, P, flags) ==   \* as if the attribute were not tested
    UsersCome(t, P, P, {}, flags)

(* page_init() of each of the pages P; they are different ones, so that    *)
(* the order does not matter.  A free page gets its first user; a shared   *)
(* one a further user; any other one only more attributes.                 *)
page_init(t, P, flags) ==
    LET first   == {p \in P : t.pages[p].attribute = {}}
        further == {p \in P \ first :
                       Shared(t.pages[p].attribute) \/ Shared(flags)}
    IN  UsersCome(t, P, first, further, flags)

(* A shared page loses a user; the last one frees it, but its bit stays set *)
UserLeaves(t, p, last) ==
    LET page == t.pages[p]
        zone == t.zones[page.zone]
    IN  [bits  |-> t.bits,
         pages |-> [t.pages EXCEPT ![p] =
                       [page EXCEPT !.reference_count = @ - 1,
                                    !.attribute = IF last THEN {} ELSE @]],
         zones |-> [t.zones EXCEPT ![page.zone] =
                       [zone EXCEPT
                           !.total_pages_link = @ - 1,
                           !.page_using_count = IF last THEN @ - 1 ELSE @,
                           !.page_free_count  = IF last THEN @ + 1 ELSE @]]]

GiveBack(t, p) ==
    LET z    == t.pages[p].zone
        zone == t.zones[z]
    IN  [bits  |-> [t.bits EXCEPT ![p] = 0],
         pages |-> [t.pages EXCEPT ![p] = NewPage(z)],
         zones |-> [t.zones EXCEPT ![z] =
                       [zone EXCEPT !.page_using_count = @ - 1,
                                    !.page_free_count  = @ + 1,
                                    !.total_pages_link = @ - 1]]]

page_clean_OffByOne(t, p) ==    \* as if the count were tested before it falls
    IF t.pages[p].attribute = {} THEN t
    ELSE IF Shared(t.pages[p].attribute)
    THEN UserLeaves(t, p, t.pages[p].reference_count = 0)
    ELSE GiveBack(t, p)

page_clean_ClearsBit(t, p) ==   \* as if every user cleared the bit
    IF t.pages[p].attribute = {} THEN t
    ELSE IF Shared(t.pages[p].attribute)
    THEN [UserLeaves(t, p, t.pages[p].reference_count = 1)
             EXCEPT !.bits[p] = 0]
    ELSE GiveBack(t, p)

page_clean(t, p) ==
    IF t.pages[p].attribute = {} THEN t
    ELSE IF Shared(t.pages[p].attribute)
    THEN UserLeaves(t, p, t.pages[p].reference_count = 1)
    ELSE GiveBack(t, p)

-----------------------------------------------------------------------------
(* The search of alloc_pages().                                            *)

(* Bit n of word w; behind the map lies memory nobody has written: zeros.  *)
Bit(w, n) ==
    IF w * W + n \in DOMAIN bits_map THEN bits_map[w * W + n] ELSE 0

(* Bit n of the W bits that start at bit k of word w: the word shifted     *)
(* right by k, joined with the next one shifted left by W - k.  A shift by *)
(* 64 leaves a word as it is on this processor, so for k = 0 both words    *)
(* are joined in place.                                                    *)
WindowBit(w, k, n) ==
    IF k = 0 THEN IF Bit(w, n) = 1 THEN 1 ELSE Bit(w + 1, n)
    ELSE IF k + n < W THEN Bit(w, k + n)
    ELSE Bit(w + 1, k + n - W)

(* j takes the start of the zone, then the starts of the following words;  *)
(* a position is a pair of j and k.                                        *)
Positions(z, number) ==
    {s \in (z.start .. z.end) \X (0 .. W - 1) :
        /\ s[1] = z.start \/ s[1] % W = 0
        /\ s[2] >= s[1] % W /\ s[2] < W - (s[1] % W)
        /\ \A n \in 0 .. number - 1 : WindowBit(s[1] \div W, s[2], n) = 0}

FirstPosition(S) ==
    CHOOSE s \in S : \A r \in S : s[1] < r[1] \/ (s[1] = r[1] /\ s[2] <= r[2])

Serves(i, number) ==
    /\ zones[i].page_free_count >= number
    /\ Positions(zones[i], number) # {}

FoundPage_NextOne(pos) == pos[1] + pos[2]   \* as if page = j + k

(* page = j + k - 1                                                        *)
FoundPage(pos) == pos[1] + pos[2] - 1

-----------------------------------------------------------------------------

Init ==
    /\ e820 \in E820Maps
    /\ phase = "boot"
    /\ bits_map = <<>>
    /\ pages = <<>>
    /\ zones = <<>>
    /\ owned = {}
    /\ twice = {}
    /\ was_shared = {}

(* The tables before the kernel's own pages are reserved: bits of usable   *)
(* pages are toggled from 1, once for each region they lie in; page 0 gets *)
(* the first zone although it lies in no region.                           *)
FreshTables(table) ==
    [bits  |-> [p \in 0 .. Words(table) * W - 1 |->
                   (1 + Cardinality(ZonesOf(table, p))) % 2],
     pages |-> [p \in 0 .. TotalPages(table) - 1 |->
                   NewPage(IF p = 0 THEN FirstZone(table)
                           ELSE IF ZonesOf(table, p) = {} THEN Null
                           ELSE Max(ZonesOf(table, p)))],
     zones |-> [i \in Zones(table) |-> NewZone(table[i])]]

(* init_memory().  When the tables coincide, as they do for an empty table *)
(* of regions, each overwrites the others and nothing more is modelled; no *)
(* more is it when page_init() gets a page of no zone, through whose NULL  *)
(* zone_struct it then writes.                                             *)
init_memory ==
    /\ phase = "boot"
    /\ IF ~TablesApart(e820)
         THEN phase' = "overlap" /\ UNCHANGED <<bits_map, pages, zones>>
       ELSE IF ~Charged(FreshTables(e820), 0 .. KernelEnd)
         THEN phase' = "astray" /\ UNCHANGED <<bits_map, pages, zones>>
       ELSE LET t == page_init(FreshTables(e820), 0 .. KernelEnd, {"kernel"})
            IN  /\ phase' = "ready"
                /\ bits_map' = t.bits
                /\ pages' = t.pages
                /\ zones' = t.zones
    /\ UNCHANGED <<e820, owned, twice, was_shared>>

(* alloc_pages(): the first of the zones to search that has the pages.     *)
(* No such zone: NULL, no change.                                          *)
alloc_pages(zone_select, number, flags) ==
    /\ phase = "ready"
    /\ \E i \in Searched(e820, zone_select) :
         /\ Serves(i, number)
         /\ \A j \in Searched(e820, zone_select) : Serves(j, number) => i <= j
         /\ LET page == FoundPage(FirstPosition(Positions(zones[i], number)))
                run == page .. page + number - 1
                t   == page_init(Tables, run, flags)
            IN  IF Charged(Tables, run)
                THEN /\ bits_map' = t.bits
                     /\ pages' = t.pages
                     /\ zones' = t.zones
                     /\ owned' = owned \cup run
                     /\ twice' = twice \cup (run \cap (owned \cup 0 .. KernelEnd))
                     /\ was_shared' = IF Shared(flags) THEN was_shared \cup run
                                                       ELSE was_shared
                     /\ phase' = phase
                ELSE /\ phase' = "astray"
                     /\ UNCHANGED <<bits_map, pages, zones, owned, twice,
                                    was_shared>>
    /\ e820' = e820

(* page_init() for a further user of a page.                               *)
Share(p) ==
    /\ phase = "ready"
    /\ p \in owned
    /\ pages[p].reference_count < MaxReferences
    /\ LET t == page_init(Tables, {p}, {"kernel", "shared"})
       IN  bits_map' = t.bits /\ pages' = t.pages /\ zones' = t.zones
    /\ was_shared' = was_shared \cup {p}
    /\ UNCHANGED <<e820, phase, owned, twice>>

(* page_clean() by a user of a page.                                       *)
Clean(p) ==
    /\ phase = "ready"
    /\ p \in owned
    /\ LET t == page_clean(Tables, p)
       IN  /\ bits_map' = t.bits
           /\ pages' = t.pages
           /\ zones' = t.zones
           /\ owned' = IF t.pages[p].attribute = {} THEN owned \ {p} ELSE owned
    /\ UNCHANGED <<e820, phase, twice, was_shared>>

Next ==
    \/ init_memory
    \/ \E zone_select \in ZoneSelects, number \in 1 .. MaxNumber, flags \in Flags :
           alloc_pages(zone_select, number, flags)
    \/ \E p \in owned : Share(p) \/ Clean(p)

Spec == Init /\ [][Next]_vars

-----------------------------------------------------------------------------
(* Properties. *)

PagesOf(i) == {p \in DOMAIN pages : pages[p].zone = i}

(* The search of a zone is right if the zone starts at a page that is 1    *)
(* modulo W and ends in the same word, and if no free run goes from there  *)
(* on into the next word.                                                  *)
WithinWord(table, i) ==
    LET w == FirstPage(table[i]) - 1
    IN  /\ FirstPage(table[i]) % W = 1
        /\ EndPage(table[i]) < w + W
        /\ \E p \in {w + W - 2, w + W - 1} : ZonesOf(table, p) = {}

(* The tables on which the properties below hold: zones apart from each    *)
(* other and within memory, the first one from page 1 on and with more     *)
(* than the pages of the kernel, and whatever zone callers may reach       *)
(* within a word.                                                          *)
Fits(table) ==
    LET first == table[FirstZone(table)]
    IN  /\ Zones(table) # {}
        /\ \A i, j \in Zones(table) :
              i < j => EndPage(table[i]) <= FirstPage(table[j])
        /\ \A i \in Zones(table) : EndPage(table[i]) <= TotalPages(table)
        /\ FirstPage(first) = 1
        /\ KernelEnd + 1 < EndPage(first)
        /\ \A zone_select \in ZoneSelects :
              \A i \in Searched(table, zone_select) : WithinWord(table, i)

(* No count of a page or of a zone ever wraps below 0 or passes what there *)
(* is to count.                                                            *)
TypeOK ==
    /\ phase \in {"boot", "ready", "overlap", "astray"}
    /\ \A b \in DOMAIN bits_map : bits_map[b] \in {0, 1}
    /\ \A p \in DOMAIN pages :
         /\ pages[p].zone \in {Null} \cup DOMAIN zones
         /\ pages[p].attribute \in Flags \cup {{}}
         /\ pages[p].reference_count \in 0 .. MaxReferences
    /\ \A i \in DOMAIN zones :
         /\ zones[i].page_using_count \in 0 .. TotalPages(e820)
         /\ zones[i].page_free_count \in 0 .. TotalPages(e820)
         /\ zones[i].total_pages_link \in Nat
    /\ owned \subseteq DOMAIN pages

(* alloc_pages() hands out no page that has an owner or holds the kernel,  *)
(* and none that belongs to no zone.                                       *)
NoDoubleAllocation == twice = {} /\ phase # "astray"

(* The bit map and the page structures agree: a clear bit is a page no one *)
(* uses, and a set bit of an unused page is one that was shared once, which *)
(* page_clean() never gives back.                                          *)
BitmapAgrees ==
    \A p \in DOMAIN pages :
        pages[p].zone # Null /\ p # 0 =>
            /\ bits_map[p] = 0 => pages[p].attribute = {}
            /\ pages[p].attribute = {} /\ bits_map[p] = 1 => p \in was_shared

(* The users of the pages of a zone: one for each reference.               *)
Users(i) == {u \in PagesOf(i) \X (1 .. MaxReferences) :
                u[2] <= pages[u[1]].reference_count}

(* The counters of a zone count its pages: those in use, the rest, and all *)
(* the users; page 0, which lies outside, is charged to the first zone.    *)
CountersAgree ==
    phase = "ready" => \A i \in DOMAIN zones :
        /\ zones[i].page_using_count =
             Cardinality({p \in PagesOf(i) : pages[p].attribute # {}})
        /\ zones[i].page_using_count + zones[i].page_free_count =
             zones[i].end - zones[i].start
        /\ zones[i].total_pages_link = Cardinality(Users(i))

(* The tables init_memory() builds lie apart in memory (the comment at     *)
(* memory.c:112 puts the page structures behind the bit map).              *)
TablesDisjoint == phase # "overlap"

(* The pages that any of the tables has.                                   *)
PageNumbers == UNION {0 .. TotalPages(table) - 1 : table \in E820Maps}

(* struct Page counts the users of its page.                               *)
Counted ==
    [p \in PageNumbers |->
        IF p \in DOMAIN pages THEN pages[p].reference_count ELSE 0]

Owners == INSTANCE PageOwners
    WITH Page   <- PageNumbers,
         Kernel <- 0 .. KernelEnd,
         usable <- {p \in PageNumbers : ZonesOf(e820, p) # {}},
         users  <- Counted

(* The three tables implement a count of users for each page: what the     *)
(* search for a run of zeros finds in the bit map is usable memory without *)
(* a user, and a page is free again after exactly as many page_clean() as  *)
(* it had users, shared or not.                                            *)
ImplementsOwners == Owners!Spec
=============================================================================
