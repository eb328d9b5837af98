------------------------------ MODULE MCMemory ------------------------------
(***************************************************************************)
(* Boot and kernel memory for TLC: the image's unpacking, the device tree, *)
(* the boot allocator with the kernel's page tables, the page allocator    *)
(* and the slab caches, one of them per behaviour.                         *)
(***************************************************************************)
EXTENDS Pmm, Slab, Memblock, Fdt, Boot, TLC

VARIABLE subject    \* the component this behaviour is about

(* Two reserved pages, so that buddies are missing, in use or beyond the   *)
(* end of memory.                                                          *)
MCFreeRegions == <<<<0, 4>>, <<6, 7>>>>

MCSizeClasses == <<2, 3>>

(* RAM of three sizes from address 40, the image's sections at two places, *)
(* its end on and off a page boundary, the device tree above it.           *)
MCMbLayouts ==
    {[base |-> 40, size |-> size, stext |-> s, etext |-> s + 4, erodata |-> s + 8,
      ebss |-> s + 12 + b, kend |-> s + 12 + b + k, uart |-> 1, fdt |-> fdt] :
        size \in {40, 70, 96}, s \in {40, 44}, b \in {0, 2}, k \in {0, 3}, fdt \in {64, 76}}

(* Device trees over a few nodes and properties; a cell holds a hex digit. *)
MCFdtProps ==
    {[name |-> "#address-cells", val |-> <<1>>], [name |-> "#size-cells", val |-> <<2>>],
     [name |-> "reg", val |-> <<1, 2, 3, 4>>], [name |-> "reg", val |-> <<9, 2, 0, 0>>],
     [name |-> "compatible", val |-> <<"x", "ns16550a">>], [name |-> "compatible", val |-> <<"virtio,mmio">>],
     [name |-> "compatible", val |-> <<"plic0", "virtio-plic">>], [name |-> "kaslr-seed", val |-> <<1, 6>>]}

MCCompatParts == [c \in {"x", "ns16550a", "virtio,mmio", "plic0", "virtio-plic", "clint0"} |->
                    CASE c = "x" -> {} [] c = "ns16550a" -> {"ns16550"} [] c = "virtio,mmio" -> {"virtio"}
                      [] c = "plic0" -> {"plic"} [] c = "clint0" -> {"clint"} [] OTHER -> {"plic", "virtio"}]

MCDefaultSize == [kind \in {"uart", "plic", "clint", "virtio"} |->
                    CASE kind = "uart" -> 1 [] kind = "plic" -> 40 [] kind = "clint" -> 10 [] OTHER -> 2]

Reloc(offset, addend, type) == [offset |-> offset, addend |-> addend, type |-> type]

(* Machines with little or much RAM, the device tree in several places, a  *)
(* firmware reservation, relocation tables good and bad, damaged parts.    *)
MCBootLayouts ==
    {[mem |-> Range1(16, size), link |-> 20, size |-> 6, payload |-> 8, csize |-> packed,
      fdt |-> Range1(fdt, 3), rsv |-> rsv, relocs |-> relocs, damage |-> damage, seed |-> seed] :
        size \in {12, 24, 40}, packed \in {0, 4}, fdt \in {16, 28, 33, 41},
        rsv \in {<<>>, <<<<16, 2>>, <<40, 0>>, <<48, 5>>>>},
        relocs \in {<<>>, <<Reloc(2, 4, "RELATIVE"), Reloc(4, 21, "64")>>,
                         <<Reloc(2, 4, "RELATIVE"), Reloc(3, 21, "64")>>},
        damage \in {"none", "header", "payload", "table"}, seed \in BOOLEAN}

MCSymmetry == Permutations(Cpus)

MCVars == <<vars, slabVars, mbVars, blob, bootVars, subject>>

MCInit == /\ subject \in {"pmm", "slab", "memblock", "fdt", "boot"}
          /\ Init /\ slab_init /\ MbInit /\ FdtInit /\ BootInit

MCNext ==
    /\ UNCHANGED subject
    /\ \/ subject = "pmm" /\ Next /\ UNCHANGED <<slabVars, mbVars, blob, bootVars>>
       \/ subject = "slab" /\ SlabNext /\ UNCHANGED <<vars, mbVars, blob, bootVars>>
       \/ subject = "memblock" /\ MbNext /\ UNCHANGED <<vars, slabVars, blob, bootVars>>
       \/ subject = "fdt" /\ FdtNext /\ UNCHANGED <<vars, slabVars, mbVars, bootVars>>
       \/ subject = "boot" /\ BootNext /\ UNCHANGED <<vars, slabVars, mbVars, blob>>

MCSpec == MCInit /\ [][MCNext]_MCVars

-----------------------------------------------------------------------------
(* Every page is in one place, free blocks are whole and fully merged, the *)
(* per-CPU lists stay within their bound, and only the last reference      *)
(* frees.                                                                  *)
PagesExact == subject = "pmm" =>
    TypeOK /\ PagesConserved /\ FreeBlocksWhole /\ FullyCoalesced /\ PcpBounded /\ LastReferenceFrees

(* A slab's objects are free or in use, once; every slab page with room    *)
(* can be found again; kfree finds the cache of what kmalloc returned,     *)
(* with an interrupt handler allocating in the window of alloc.            *)
CachesExact == subject = "slab" => SlabTypeOK /\ SlabExact /\ SlabPagesReachable /\ KfreeFinds /\ ActiveIsSlab

(* The boot allocator gives each frame to one owner and the page allocator *)
(* the rest, the device tree's blob included; the kernel's mappings are    *)
(* writable or executable but not both, and every freed frame is in the    *)
(* direct map.                                                             *)
EarlyMemoryExact == subject = "memblock" =>
    /\ HandsOverTheRest /\ EarlyFramesDistinct /\ AllocFindsLowest
    /\ WriteXorExecute /\ FreedAreMapped /\ RegionsSuffice

(* Both device-tree parsers find what the blob says, wherever it says it.  *)
DeviceTreeRead == subject = "fdt" => MemoryFound /\ UartFound /\ SeedFromChosen /\ TreeRebuilt /\ RegistryFromLeaves

(* decompress_lz4 gives back what pack_image.py packed, and on any other   *)
(* input stays within its output.                                          *)
UnpackedAsPacked == subject = "boot" => PackedComesBack /\ UnpackStaysInRoom

(* A place for the image is found if there is one, the image that is       *)
(* entered is whole and relocated to where it lies, and every KASLR slot   *)
(* the seed can choose leaves room for the direct map.                     *)
ImagePlaced == subject = "boot" => BaseFoundIfAny /\ BootedImageIsWhole /\ EverySlotBoots
=============================================================================
