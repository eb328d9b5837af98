-------------------------------- MODULE Boot --------------------------------
(***************************************************************************)
(* The kernel image before the kernel runs: scripts/pack_image.py packs    *)
(* it with lz4_compress, boot_decompress_and_relocate chooses where to put *)
(* it, unpacks it with lz4_decompress and relocates it, and                *)
(* kaslr_layout_compute slides the kernel's virtual regions.               *)
(*                                                                         *)
(* LZ4 keeps its byte arithmetic with the widths as constants: a token     *)
(* holds two lengths of at most LzRun (15 in the code), a byte holds       *)
(* LzByte (255), a match has at least LzMin bytes (4).  The placement      *)
(* works on small physical addresses; the shuffle of the seed is any slot. *)
(***************************************************************************)
EXTENDS Integers, FiniteSets, FiniteSetsExt, Sequences, SequencesExt

CONSTANTS LzRun, LzMin, MaxLz,      \* MaxLz: bytes of data, or of a stream
          BootPage, BootWord,       \* bytes of a page and of a relocated word
          BootLayouts,              \* the machines that boot
          GapTries, kMaxSlots,      \* 64 tries; 64 slots of one gigabyte
          VmemmapSlot, HalfSlots,   \* slots 64 and 256 of the kernel's half
          RamBase, RamSizes         \* in slots, for the virtual layout

VARIABLES lzIn, boot, kaslr

bootVars == <<lzIn, boot, kaslr>>

ASSUME BootAssumption == LzRun \in Nat \ {0} /\ LzMin \in Nat \ {0} /\ BootPage \in Nat \ {0}

LzByte == (LzRun + 1) ^ 2 - 1

-----------------------------------------------------------------------------
(* lz4_decompress.  A position is the index of the next unread byte.       *)

RECURSIVE Extended(_, _, _)
Extended(src, i, len) ==
    IF i > Len(src) THEN [ok |-> FALSE]
    ELSE IF src[i] = LzByte THEN Extended(src, i + 1, len + src[i])
    ELSE [ok |-> TRUE, at |-> i + 1, len |-> len + src[i]]

\* A length of the token, with the bytes that continue it when it is full.
LengthAt(src, i, len) == IF len = LzRun THEN Extended(src, i, len)
                         ELSE [ok |-> TRUE, at |-> i, len |-> len]

\* Faulty variant: the match is copied as one block, not byte after byte.
CopyMatch_Block(out, off, n) == out \o [k \in 1..n |-> IF k <= off THEN out[Len(out) - off + k] ELSE 0]

RECURSIVE CopyMatch(_, _, _)
CopyMatch(out, off, n) ==
    IF n = 0 THEN out ELSE CopyMatch(Append(out, out[Len(out) - off + 1]), off, n - 1)

Fits1(used, n, cap) == used + n <= cap

RECURSIVE LzSequences(_, _, _, _)
LzSequences(src, i, out, cap) ==
    LET Stop(n, o) == [n |-> n, out |-> o]
        lit  == LengthAt(src, i + 1, src[i] \div (LzRun + 1))
        j    == lit.at + lit.len
        out1 == out \o SubSeq(src, lit.at, j - 1)
        off  == src[j] + src[j + 1] * (LzByte + 1)
        m    == LengthAt(src, j + 2, src[i] % (LzRun + 1))
    IN  IF i > Len(src) THEN Stop(Len(out), out)
        ELSE IF ~lit.ok \/ j - 1 > Len(src) \/ ~Fits1(Len(out), lit.len, cap) THEN Stop(-1, out)
        ELSE IF j > Len(src) THEN Stop(Len(out1), out1)
        ELSE IF j + 1 > Len(src) \/ off = 0 \/ off > Len(out1) THEN Stop(-1, out1)
        ELSE IF ~m.ok \/ ~Fits1(Len(out1), m.len + LzMin, cap) THEN Stop(-1, out1)
        ELSE LzSequences(src, m.at, CopyMatch(out1, off, m.len + LzMin), cap)

lz4_decompress(src, cap) == LzSequences(src, 1, <<>>, cap)

(* lz4_compress of pack_image.py: a table of the last place of each hash,  *)
(* a match only where the bytes really agree.                              *)

hash4(data, i) == FoldFunction(+, 0, SubSeq(data, i, i + LzMin - 1)) % 3

RECURSIVE MoreBytes(_)
MoreBytes(l) == IF l >= LzByte THEN <<LzByte>> \o MoreBytes(l - LzByte) ELSE <<l>>

LenBytes(l) == IF l >= LzRun THEN MoreBytes(l - LzRun) ELSE <<>>
LenNibble(l) == IF l >= LzRun THEN LzRun ELSE l

MatchLen(data, ref, i) ==
    Max({n \in LzMin..(Len(data) - i + 1) : \A k \in 0..(n - 1) : data[ref + k] = data[i + k]})

Matches(data, ref, i) ==
    /\ ref # 0 /\ i - ref <= (LzByte + 1) ^ 2 - 1
    /\ SubSeq(data, ref, ref + LzMin - 1) = SubSeq(data, i, i + LzMin - 1)

RECURSIVE Compressed(_, _, _, _)
Compressed(data, i, anchor, htab) ==
    LET Literals(to) == SubSeq(data, anchor, to - 1)
        ref  == htab[hash4(data, i)]
        seen == [htab EXCEPT ![hash4(data, i)] = i]
        lit  == i - anchor
        len  == MatchLen(data, ref, i)
        off  == i - ref
        rest == Len(data) + 1 - anchor
    IN  IF i + LzMin - 1 > Len(data)
        THEN <<LenNibble(rest) * (LzRun + 1)>> \o LenBytes(rest) \o Literals(Len(data) + 1)
        ELSE IF Matches(data, ref, i)
        THEN <<LenNibble(lit) * (LzRun + 1) + LenNibble(len - LzMin)>> \o LenBytes(lit)
             \o Literals(i) \o <<off % (LzByte + 1), off \div (LzByte + 1)>>
             \o LenBytes(len - LzMin) \o Compressed(data, i + len, i + len, seen)
        ELSE Compressed(data, i + 1, anchor, seen)

lz4_compress(data) == IF data = <<>> THEN <<>> ELSE Compressed(data, 1, 1, [h \in 0..2 |-> 0])

-----------------------------------------------------------------------------
(* Where the image goes.  A layout has the RAM, the image as the loader    *)
(* left it (link, the file's size, its bss up to the payload), the device  *)
(* tree and the ranges the firmware reserves.                              *)

align_down_page(a) == (a \div BootPage) * BootPage

Range1(start, size) == [start |-> start, end |-> start + size]

ranges_overlap(base, size, r) == size # 0 /\ base < r.end /\ base + size > r.start

collect_fdt_reserved(L) ==
    <<L.fdt>> \o [i \in DOMAIN SelectSeq(L.rsv, LAMBDA e : e[2] # 0) |->
                     LET e == SelectSeq(L.rsv, LAMBDA x : x[2] # 0)[i] IN Range1(e[1], e[2])]

\* payload_offset is still 0 when boot_decompress_and_relocate asks.
Reserved(L) == <<Range1(L.link, L.size), Range1(L.link, L.csize)>> \o collect_fdt_reserved(L)

NextBelow(hits, size, candidate) == Min({align_down_page(r.start - size) : r \in hits} \cup {candidate})

RECURSIVE Gap(_, _, _, _, _)
Gap(candidate, min_base, ranges, size, tries) ==
    LET hits == {r \in ToSet(ranges) : ranges_overlap(candidate, size, r)}
        next == NextBelow(hits, size, candidate)
    IN  IF tries = 0 \/ candidate < min_base THEN 0
        ELSE IF hits = {} THEN candidate
        ELSE IF (\E r \in hits : r.start < size) \/ next >= candidate THEN 0
        ELSE Gap(next, min_base, ranges, size, tries - 1)

find_gap_from(start, min_base, ranges, size) ==
    Gap(align_down_page(start), min_base, ranges, size, GapTries)

TriesTop(from, max_base) == from # max_base

choose_load_base(L, pick) ==
    LET min_base == align_down_page(L.mem.start)
        max_base == align_down_page(L.mem.end - L.size)
        from == IF L.seed THEN min_base + pick * BootPage ELSE max_base
        base1 == find_gap_from(from, min_base, Reserved(L), L.size)
        base2 == find_gap_from(max_base, min_base, Reserved(L), L.size)
    IN  CASE L.mem.end < L.size \/ max_base < min_base -> L.link
          [] base1 # 0 -> base1
          [] base1 = 0 /\ TriesTop(from, max_base) /\ base2 # 0 -> base2
          [] OTHER -> L.link

\* The slots a seed may choose from.
Slots1(L) == 0..Max({0, (align_down_page(L.mem.end - L.size) - align_down_page(L.mem.start)) \div BootPage})
-----------------------------------------------------------------------------
(* relocate_apply: the words of the image, by offset, after the entries of *)
(* the table; an entry out of range stops it with the words before it done. *)

range_ok(offset, L) == offset % BootWord = 0 /\ offset + BootWord <= L.size

\* Faulty variant: an absolute word is treated like a relative one.
RelocWord_Base(ent, load, link) == load + ent.addend

RelocWord(ent, load, link) ==
    IF ent.type = "RELATIVE" THEN load + ent.addend ELSE ent.addend + (load - link)

RECURSIVE Applied(_, _, _, _)
Applied(L, load, k, words) ==
    IF k > Len(L.relocs) THEN [status |-> "OK", words |-> words]
    ELSE IF ~range_ok(L.relocs[k].offset, L) THEN [status |-> "RANGE", words |-> words]
    ELSE Applied(L, load, k + 1,
                 [words EXCEPT ![L.relocs[k].offset] = RelocWord(L.relocs[k], load, L.link)])

\* The words the linker left, for an image that runs at base.
LinkedAt(L, base) ==
    [o \in {L.relocs[k].offset : k \in DOMAIN L.relocs} |->
        LET e == CHOOSE e \in ToSet(L.relocs) : e.offset = o
        IN  IF e.type = "RELATIVE" THEN base + e.addend ELSE e.addend - L.link + base]

relocate_apply(L, load) ==
    IF L.relocs = <<>> THEN [status |-> "OK", words |-> <<>>]
    ELSE IF L.damage = "table" THEN [status |-> "MAGIC", words |-> LinkedAt(L, L.link)]
    ELSE Applied(L, load, 1, LinkedAt(L, L.link))

\* The unpacking reads the payload while it writes the image.
Clobbers(L, load) == ranges_overlap(load, L.size, Range1(L.link + L.payload, L.csize))

Unpacked(L, load) == IF Clobbers(L, load) THEN {"image", "failed", "garbled"} ELSE {"image"}

boot_decompress_and_relocate(L) ==
    \E pick \in Slots1(L) : \E content \in Unpacked(L, choose_load_base(L, pick)) :
        LET packed == L.csize # 0
            load   == IF packed THEN choose_load_base(L, pick) ELSE L.link
            reloc  == relocate_apply(L, load)
            moved  == load # L.link
            Panics(flags) == [pc |-> "panic", layout |-> L, load |-> load, flags |-> flags]
            comp   == IF packed THEN {"COMPRESSED"} ELSE {}
        IN  boot' = CASE L.damage = "header" -> Panics({})
                      [] L.damage # "header" /\ packed /\ ~moved -> Panics({"RELOC_FAILED"})
                      [] L.damage = "payload" /\ moved -> Panics(comp \cup {"DECOMP_FAILED"})
                      [] L.damage \notin {"header", "payload"} /\ moved /\ content = "failed" ->
                             Panics(comp \cup {"DECOMP_FAILED"})
                      [] L.damage \notin {"header", "payload"} /\ moved /\ content # "failed"
                             /\ reloc.status # "OK" -> Panics(comp \cup {"RELOC_FAILED"})
                      [] OTHER -> [pc |-> "up", layout |-> L, load |-> load, content |-> content,
                                   words |-> reloc.words, done |-> moved,
                                   flags |-> comp \cup (IF moved /\ L.relocs # <<>>
                                                        THEN {"RELOCATED"} ELSE {})]

-----------------------------------------------------------------------------
(* kaslr_layout_compute, in slots of one gigabyte of the kernel's half.    *)

SlotOf(raw) == IF raw % kMaxSlots = 0 THEN 1 ELSE raw % kMaxSlots

Disjoint1(a, b) == a.end <= b.start \/ b.end <= a.start

InKernelHalf(r) == r.start < r.end /\ r.end <= HalfSlots

kaslr_layout_compute(raw, size) ==
    LET slide  == SlotOf(raw)
        direct == Range1(slide + RamBase, size)
        vmap   == Range1(VmemmapSlot + slide, (size + 63) \div 64)
        kernel == Range1(RamBase, 1)
        sound  == /\ \A r \in {direct, vmap, kernel} : InKernelHalf(r)
                  /\ Disjoint1(direct, kernel) /\ Disjoint1(vmap, kernel) /\ Disjoint1(direct, vmap)
    IN  kaslr' = [pc |-> IF sound THEN "up" ELSE "panic", size |-> size, slide |-> slide]

-----------------------------------------------------------------------------
BootInit == lzIn = <<>> /\ boot = [pc |-> "off"] /\ kaslr = [pc |-> "off"]

\* One more byte of data to pack, or of a stream to unpack.
MoreInput == /\ boot.pc = "off" /\ kaslr.pc = "off" /\ Len(lzIn) < MaxLz
             /\ \E b \in 0..LzByte : lzIn' = Append(lzIn, b)
             /\ UNCHANGED <<boot, kaslr>>

BootImage == /\ boot.pc = "off" /\ kaslr.pc = "off" /\ lzIn = <<>>
             /\ \E L \in BootLayouts : boot_decompress_and_relocate(L)
             /\ UNCHANGED <<lzIn, kaslr>>

kaslr_init == /\ boot.pc = "off" /\ kaslr.pc = "off" /\ lzIn = <<>>
              /\ \E raw \in 0..(2 * kMaxSlots - 1), size \in RamSizes : kaslr_layout_compute(raw, size)
              /\ UNCHANGED <<lzIn, boot>>

\* The machine, or the input, is set aside and another one is tried.
StartOver == /\ lzIn # <<>> \/ boot.pc # "off" \/ kaslr.pc # "off"
             /\ lzIn' = <<>> /\ boot' = [pc |-> "off"] /\ kaslr' = [pc |-> "off"]

BootNext == MoreInput \/ BootImage \/ kaslr_init \/ StartOver

-----------------------------------------------------------------------------
(* What pack_image.py packs, lz4_decompress unpacks to the same bytes when *)
(* the room is the size the header gives, and it fails, instead of         *)
(* returning a shorter image, when there is less room: long literal runs,  *)
(* long matches and matches that overlap their own output included.        *)
PackedComesBack ==
    LET packed == lz4_compress(lzIn)
    IN  /\ lz4_decompress(packed, Len(lzIn)) = [n |-> Len(lzIn), out |-> lzIn]
        /\ \A cap \in 0..(Len(lzIn) - 1) : lz4_decompress(packed, cap).n = -1

(* Whatever the stream, damaged ones included, lz4_decompress writes no    *)
(* more than dst_cap bytes and answers -1 or the number it wrote.          *)
UnpackStaysInRoom ==
    \A cap \in 0..MaxLz : LET r == lz4_decompress(lzIn, cap)
                          IN  Len(r.out) <= cap /\ r.n \in {-1, Len(r.out)}

\* The page-aligned places in RAM that meet no reserved range.
GoodBases(L) == {b \in align_down_page(L.mem.start)..(L.mem.end - L.size) :
                    /\ b % BootPage = 0 /\ b # 0
                    /\ \A r \in ToSet(Reserved(L)) : ~ranges_overlap(b, L.size, r)}

(* The image is unpacked to a page of RAM where it meets neither the       *)
(* running image, nor the device tree, nor what the firmware reserves; and *)
(* boot gives up with "no safe relocation base" only when there is no such *)
(* place: the downward search skips none, wherever the seed starts it.     *)
BaseFoundIfAny ==
    boot.pc # "off" /\ boot.layout.csize # 0 /\ boot.layout.damage # "header" =>
        IF boot.load = boot.layout.link THEN GoodBases(boot.layout) = {}
        ELSE boot.load \in GoodBases(boot.layout)

(* A kernel that boot hands control to is the packed one, and each word    *)
(* of its relocation table is what the linker would have written for the   *)
(* place it runs at; a damaged table or payload stops the boot.  Said of   *)
(* the placements that spare the payload (see the README).                 *)
BootedImageIsWhole ==
    boot.pc = "up" /\ ~(boot.done /\ Clobbers(boot.layout, boot.load)) =>
        /\ boot.content = "image"
        /\ boot.words = LinkedAt(boot.layout, boot.load)
        /\ boot.done => boot.layout.damage = "none" \/ boot.layout.relocs = <<>>

(* As long as RAM fits in the gap below vmemmap, every slot the generator  *)
(* can draw passes kaslr_layout_compute's own checks: no boot of such a    *)
(* machine depends on the seed.                                            *)
EverySlotBoots == kaslr.pc = "panic" => RamBase + kaslr.size > VmemmapSlot
============================================================================
