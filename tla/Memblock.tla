------------------------------ MODULE Memblock ------------------------------
(***************************************************************************)
(* Memory before the page allocator: the reserved regions of               *)
(* na/mm/memblock.cc, the kernel page table that vmm_init (na/mm/vmm.cc)   *)
(* builds with frames taken from them, and the hand-over to pmm_init.      *)
(*                                                                         *)
(* Addresses are bytes, MbPage to a page.  The page table is kept as the   *)
(* permissions of the pages mapped at their linked address, in the direct  *)
(* map and at vmemmap, and as the last-level tables, one for MbFanout      *)
(* consecutive pages, which are what the regions are spent on.             *)
(***************************************************************************)
EXTENDS Integers, Sequences, FiniteSets, FiniteSetsExt, SequencesExt

CONSTANTS
    MbPage, MbFanout, MbDescSize,    \* sizes of a page, a table, a descriptor
    kMemblockMaxRegions,
    MbLayouts,        \* [base, size, stext, etext, erodata, ebss, kend, uart, fdt]
    MbDevices,        \* pages of devices mapped later
    MbNone

ASSUME MbAssumption == MbPage \in Nat \ {0} /\ MbFanout \in Nat \ {0}

VARIABLES
    layout,    \* where RAM, the image's sections, UART and device tree are
    reserved,  \* g_mb.reserved: <<base, size>>, ascending by base
    bootAt,    \* "start", "map", "run" or "panic"
    todo,      \* mappings vmm_init still has to make
    mapped,    \* [<<where, page>> -> permissions]
    tables,    \* [<<where, group>> -> frame of the last-level table]
    page_map,  \* frames of the page descriptors
    freed      \* frames given to the page allocator

mbVars == <<layout, reserved, bootAt, todo, mapped, tables, page_map, freed>>

MbInit ==
    /\ layout = MbNone /\ reserved = <<>> /\ bootAt = "start" /\ todo = <<>>
    /\ mapped = <<>> /\ tables = <<>> /\ page_map = {} /\ freed = {}

AlignDown(a, n) == (a \div n) * n
AlignUp(a, n) == AlignDown(a + n - 1, n)
mem_end == layout.base + layout.size
FramesOf(base, size) == base \div MbPage .. (base + size - 1) \div MbPage

-----------------------------------------------------------------------------
(* insert_reserved keeps the regions sorted; equal bases keep their order. *)
insert_reserved(rs, base, size) ==
    LET i == Cardinality({k \in DOMAIN rs : rs[k][1] <= base})
    IN  SubSeq(rs, 1, i) \o << <<base, size>> >> \o SubSeq(rs, i + 1, Len(rs))

memblock_reserve(rs, base, size) ==
    LET from == AlignDown(base, MbPage)
    IN  insert_reserved(rs, from, AlignUp(base + size, MbPage) - from)

overlaps_reserved(rs, base, size) ==
    \E i \in DOMAIN rs : base < rs[i][1] + rs[i][2] /\ base + size > rs[i][1]

reserved_end_covering(rs, a) ==
    LET over == {i \in DOMAIN rs : rs[i][1] <= a /\ a < rs[i][1] + rs[i][2]}
    IN  IF over = {} THEN a ELSE rs[Min(over)][1] + rs[Min(over)][2]

(* Where memblock_alloc looks after start.                                 *)
AllocNext(rs, start, align) ==
    LET skip == reserved_end_covering(rs, start)
    IN  IF skip <= start THEN start + align ELSE skip

(* memblock_alloc, from the bottom of RAM upwards; MbNone where it panics. *)
memblock_alloc(rs, size, align) ==
    LET try[start \in Nat] ==
            LET a == AlignUp(start, align)
            IN  IF a + size > mem_end THEN MbNone
                ELSE IF ~overlaps_reserved(rs, a, size) THEN a
                ELSE try[AllocNext(rs, a, align)]
    IN  try[AlignUp(layout.base, MbPage)]

(* memblock_alloc_top, from the top downwards.                             *)
memblock_alloc_top(rs, size, align) ==
    LET first == AlignDown(AlignDown(mem_end, MbPage) - size, align)
        fits == {a \in layout.base .. first :
                    /\ (first - a) % align = 0 /\ a + size <= mem_end
                    /\ ~overlaps_reserved(rs, a, size)}
    IN  IF fits = {} THEN MbNone ELSE Max(fits)

(* memblock_for_each_free: the gaps between the first n regions, and the   *)
(* one above them.                                                         *)
GapsAround(rs, n) ==
    LET walk[i \in 0 .. n] ==
            IF i = 0 THEN [pos |-> layout.base, gaps |-> {}]
            ELSE LET w == walk[i - 1]
                     end == rs[i][1] + rs[i][2]
                 IN  IF w.pos >= mem_end THEN w
                     ELSE IF rs[i][1] < w.pos THEN [w EXCEPT !.pos = Max({@, end})]
                     ELSE [pos |-> end,
                           gaps |-> w.gaps \union {g \in {<<w.pos, rs[i][1]>>} : g[1] < g[2]}]
        last == walk[n]
    IN  last.gaps \union {g \in {<<last.pos, mem_end>>} : g[1] < g[2]}

(* Faulty variant: the last region is not looked at.                       *)
for_each_free_Short(rs) == GapsAround(rs, Len(rs) - 1)

for_each_free(rs) == GapsAround(rs, Len(rs))

-----------------------------------------------------------------------------
Ascending(where, lo, hi, perm) ==
    [k \in 1 .. Max({0, hi - lo}) |-> [where |-> where, page |-> lo + k - 1, perm |-> perm]]
PageOf(a) == a \div MbPage
PageAbove(a) == AlignUp(a, MbPage) \div MbPage

(* What vmm_init maps before the page descriptors, in its order.           *)
KernelMappings(l) ==
    Ascending("linked", PageOf(l.stext), PageAbove(l.etext), {"R", "X"})
    \o Ascending("linked", PageOf(l.etext), PageAbove(l.erodata), {"R"})
    \o Ascending("linked", PageOf(l.erodata), PageAbove(l.ebss), {"R", "W"})
    \o Ascending("direct", PageAbove(l.kend), PageAbove(l.base + l.size), {"R", "W"})

(* memblock_init reserves the firmware below the kernel, and the kernel.   *)
(* It is given the device tree's address too, and does not use it.         *)
FirstRegions(l) ==
    memblock_reserve(IF l.stext > l.base THEN memblock_reserve(<<>>, l.base, l.stext - l.base) ELSE <<>>,
                     l.stext, l.kend - l.stext)

(* memblock_init, and the start of vmm_init.                               *)
memblock_init(l) ==
    /\ bootAt = "start"
    /\ layout' = l
    /\ reserved' = FirstRegions(l)
    /\ todo' = KernelMappings(l)
    /\ bootAt' = "map"
    /\ UNCHANGED <<mapped, tables, page_map, freed>>

(* alloc_pt_page while memblock is active, keyed by what the table is for. *)
TakeTable(key) ==
    LET a == memblock_alloc(reserved, MbPage, MbPage) IN
    IF a = MbNone \/ Len(reserved) >= kMemblockMaxRegions
    THEN bootAt' = "panic" /\ UNCHANGED <<reserved, tables>>
    ELSE /\ reserved' = memblock_reserve(reserved, a, MbPage)
         /\ tables' = [k \in DOMAIN tables \union {key} |-> IF k = key THEN PageOf(a) ELSE tables[k]]
         /\ UNCHANGED bootAt

(* The table the next mapping lacks, if any: the root before all others.   *)
TableKey(m) == <<m.where, m.page \div MbFanout>>
Missing == {<<"root", 0>>, TableKey(Head(todo))} \ DOMAIN tables

(* map_range and its kin, one page: the missing table is taken first.      *)
MapTable ==
    /\ bootAt = "map" /\ todo # <<>> /\ Missing # {}
    /\ TakeTable(IF <<"root", 0>> \in Missing THEN <<"root", 0>> ELSE TableKey(Head(todo)))
    /\ UNCHANGED <<layout, todo, mapped, page_map, freed>>

MapPage ==
    /\ bootAt = "map" /\ todo # <<>> /\ Missing = {}
    /\ LET m == Head(todo)
       IN  mapped' = [x \in DOMAIN mapped \union {<<m.where, m.page>>} |->
                         IF x = <<m.where, m.page>> THEN m.perm ELSE mapped[x]]
    /\ todo' = Tail(todo)
    /\ UNCHANGED <<layout, reserved, bootAt, tables, page_map, freed>>

page_map_bytes == (layout.size \div MbPage) * MbDescSize

(* vmm_init step 7: descriptors from the top of RAM, mapped at vmemmap     *)
(* with small pages, and the UART's page after them.                       *)
AllocPageMap ==
    /\ bootAt = "map" /\ todo = <<>> /\ page_map = {}
    /\ LET span == AlignUp(page_map_bytes, MbPage)
           a == memblock_alloc_top(reserved, span, MbPage)
       IN  IF a = MbNone \/ Len(reserved) >= kMemblockMaxRegions
           THEN bootAt' = "panic" /\ UNCHANGED <<reserved, page_map, todo>>
           ELSE /\ reserved' = memblock_reserve(reserved, a, span)
                /\ page_map' = FramesOf(a, span)
                /\ todo' = Ascending("vmemmap", PageOf(a), PageOf(a + span), {"R", "W"})
                              \o Ascending("direct", layout.uart, layout.uart + 1, {"R", "W"})
                /\ UNCHANGED bootAt
    /\ UNCHANGED <<layout, mapped, tables, freed>>

(* pmm_init: every gap goes to the page allocator, memblock is retired.    *)
pmm_feed ==
    /\ bootAt = "map" /\ todo = <<>> /\ page_map # {}
    /\ freed' = UNION {FramesOf(g[1], AlignDown(g[2] - g[1], MbPage)) : g \in for_each_free(reserved)}
    /\ bootAt' = "run"
    /\ UNCHANGED <<layout, reserved, todo, mapped, tables, page_map>>

(* vmm_map_kernel_mmio of a device page, once the page allocator runs: the *)
(* table comes from there.                                                 *)
vmm_map_kernel_mmio(page) ==
    LET m == [where |-> "direct", page |-> page, perm |-> {"R", "W"}] IN
    /\ bootAt = "run" /\ <<"direct", page>> \notin DOMAIN mapped
    /\ \/ TableKey(m) \in DOMAIN tables /\ UNCHANGED <<tables, freed>>
       \/ /\ TableKey(m) \notin DOMAIN tables
          /\ \E f \in freed :
                /\ freed' = freed \ {f}
                /\ tables' = [k \in DOMAIN tables \union {TableKey(m)} |->
                                 IF k = TableKey(m) THEN f ELSE tables[k]]
    /\ mapped' = [x \in DOMAIN mapped \union {<<"direct", page>>} |->
                     IF x = <<"direct", page>> THEN m.perm ELSE mapped[x]]
    /\ UNCHANGED <<layout, reserved, bootAt, todo, page_map>>

MbNext ==
    \/ \E l \in MbLayouts : memblock_init(l)
    \/ MapTable \/ MapPage \/ AllocPageMap \/ pmm_feed
    \/ \E page \in MbDevices : vmm_map_kernel_mmio(page)

-----------------------------------------------------------------------------
Ram == FramesOf(layout.base, AlignDown(layout.size, MbPage))
ImageFrames == FramesOf(layout.base, layout.stext - layout.base)
                  \union FramesOf(layout.stext, layout.kend - layout.stext)
TableFrames == {tables[k] : k \in DOMAIN tables}

BlobFrames == FramesOf(layout.fdt, MbPage)

(* The page allocator is given exactly the frames that no region covers:   *)
(* not the firmware, the kernel image up to its last byte, a page table or *)
(* a descriptor, and no other frame is forgotten.  The device tree's blob, *)
(* which unflatten and the properties it keeps still point into, is in no  *)
(* region: its frame is handed over too, or is a table or descriptors.     *)
HandsOverTheRest ==
    bootAt = "run" =>
        /\ freed \intersect (ImageFrames \union TableFrames \union page_map) = {}
        /\ freed \union ImageFrames \union TableFrames \union page_map = Ram
        /\ BlobFrames \subseteq freed \union TableFrames \union page_map

(* No frame has two owners while memory is given out in pieces.            *)
EarlyFramesDistinct ==
    layout # MbNone =>
        /\ \A k, j \in DOMAIN tables : tables[k] = tables[j] => k = j
        /\ TableFrames \intersect (ImageFrames \union page_map) = {}
        /\ page_map \intersect ImageFrames = {}

(* memblock_alloc finds the lowest place, and fails only if there is none. *)
AllocFindsLowest ==
    layout # MbNone /\ bootAt # "run" =>
        \A size \in {1, MbPage, 2 * MbPage}, align \in {MbPage, 2 * MbPage} :
            LET ok == {a \in AlignUp(layout.base, MbPage) .. mem_end - size :
                          a % align = 0 /\ ~overlaps_reserved(reserved, a, size)}
            IN  memblock_alloc(reserved, size, align) = IF ok = {} THEN MbNone ELSE Min(ok)

(* No page of the kernel image is both writable and executable, and the    *)
(* text is never writable, at any moment of building the table.            *)
WriteXorExecute ==
    \A x \in DOMAIN mapped :
        /\ ~({"W", "X"} \subseteq mapped[x])
        /\ x[1] = "linked" /\ x[2] \in PageOf(layout.stext) .. PageAbove(layout.etext) - 1
              => mapped[x] = {"R", "X"}
        /\ x[1] = "linked" /\ x[2] \in PageOf(layout.etext) .. PageAbove(layout.erodata) - 1
              => "W" \notin mapped[x]

(* The direct map reaches every frame that the page allocator gives out.   *)
FreedAreMapped == bootAt = "run" => \A f \in freed : <<"direct", f>> \in DOMAIN mapped

(* A region is spent on each table and on three other things; boot panics  *)
(* only if the array is too short for that or RAM is full.                 *)
RegionsSuffice ==
    layout # MbNone =>
        /\ Len(reserved) <= 3 + Cardinality(DOMAIN tables)
        /\ bootAt = "panic" => \/ Len(reserved) = kMemblockMaxRegions
                               \/ memblock_alloc(reserved, MbPage, MbPage) = MbNone
                               \/ memblock_alloc_top(reserved, AlignUp(page_map_bytes, MbPage), MbPage) = MbNone
=============================================================================
