-------------------------------- MODULE Fdt --------------------------------
(***************************************************************************)
(* The device tree: the walks over the flattened blob that run before and  *)
(* after paging (na/fdt/fdt.cc), the tree of DeviceNodes they build        *)
(* (na/fdt/device_node.cc) and the single pass of the first-generation     *)
(* kernel that fills its device registry (src/kernel/fdt.cc).              *)
(*                                                                         *)
(* The firmware writes the struct block one token at a time: a node opens, *)
(* its properties come, then its children, then it closes.  Every complete *)
(* blob within the bounds is a state, and every walk is compared with what *)
(* the tree says.  A property's value is a sequence of 32-bit words, or of *)
(* strings for "compatible"; offsets and byte order are left out.          *)
(***************************************************************************)
EXTENDS Integers, Sequences, FiniteSets, SequencesExt, FiniteSetsExt

CONSTANTS NodeNames,     \* the names a node may have, the root aside
          MemoryNames,   \* those among them that begin with "memory"
          ChosenNames,   \* those among them that begin with "chosen"
          SeedNames,     \* the property names that begin with "kaslr-seed"
          CompatParts,   \* [compatible string -> which of Needles it contains]
          FdtProps,      \* the properties [name, val] a node may carry
          FdtDepth,      \* the 16 levels the walks keep track of
          MaxTokens,     \* bound: the tokens of a blob
          MAX_VIRTIO,    \* the registry's array of virtio slots
          MAX_MMIO,      \* and its array of I/O regions
          MmioLimit,     \* 0x80000000: where RAM begins
          DefaultSize,   \* [kind of device -> size where "reg" has none]
          WordBase,      \* 2^32: what a high word counts for
          NoReg          \* the walk found nothing

ASSUME FdtAssumption == /\ MemoryNames \cup ChosenNames \subseteq NodeNames
                        /\ {FdtDepth, MAX_VIRTIO, MAX_MMIO, WordBase} \subseteq Nat \ {0}

VARIABLE blob    \* the tokens the firmware has written so far

Token(t) == blob # <<>> /\ Last(blob).t = t

----------------------------------------------------------------------------
(* What the blob says, read off the nesting of its tokens.                 *)

BeginsOf(b) == {i \in DOMAIN b : b[i].t = "begin"}

\* How many nodes are open after the first i tokens.
OpenAfter(b, i) == Cardinality({j \in 1..i : b[j].t = "begin"})
                 - Cardinality({j \in 1..i : b[j].t = "end"})

\* The node a token stands in, 0 outside the root.
NodeOf(b, i) ==
    Max({0} \cup {j \in BeginsOf(b) :
        /\ j < i
        /\ \A k \in j..(i - 1) : OpenAfter(b, k) >= OpenAfter(b, j)})

DepthOf(b, n) == OpenAfter(b, n) - 1

PropsOf(b, n) == {i \in DOMAIN b : b[i].t = "prop" /\ NodeOf(b, i) = n}

Has(b, n, name) == \E i \in PropsOf(b, n) : b[i].prop.name = name

ValueOf(b, n, name) ==
    b[CHOOSE i \in PropsOf(b, n) : b[i].prop.name = name].prop.val

\* The cell count in force in node n: its own, or the nearest ancestor's.
RECURSIVE CellsIn(_, _, _, _)
CellsIn(b, n, name, default) ==
    CASE n = 0 -> default
      [] n # 0 /\ Has(b, n, name) -> ValueOf(b, n, name)[1]
      [] OTHER -> CellsIn(b, NodeOf(b, n), name, default)

RECURSIVE Below(_, _, _)
Below(b, n, top) == n # 0 /\ (n = top \/ Below(b, NodeOf(b, n), top))

----------------------------------------------------------------------------
(* The firmware's side: a blob is a root with properties before children;  *)
(* the root of a device tree has no "reg".                                 *)

Open == OpenAfter(blob, Len(blob))

Here == NodeOf(blob, Len(blob) + 1)

\* Room for one more token beside the ones that close what is open.
RoomFor(k) == Len(blob) + k + Open + 1 <= MaxTokens

BeginNode(name) ==
    /\ ~Token("fin") /\ Open > 0 /\ RoomFor(2)
    /\ \A i \in BeginsOf(blob) : NodeOf(blob, i) = Here => blob[i].name # name
    /\ blob' = Append(blob, [t |-> "begin", name |-> name])

WriteProp(p) ==
    /\ Token("begin") \/ Token("prop") \/ Token("nop")
    /\ RoomFor(1)
    /\ ~Has(blob, Here, p.name)
    /\ Open = 1 => p.name # "reg"
    /\ blob' = Append(blob, [t |-> "prop", prop |-> p])

WriteNop == Token("begin") /\ Open = 1 /\ RoomFor(1) /\ blob' = Append(blob, [t |-> "nop"])

EndNode == Open > 0 /\ blob' = Append(blob, [t |-> "end"])

Finish == Open = 0 /\ ~Token("fin") /\ blob' = Append(blob, [t |-> "fin"])

Complete == Token("fin")

FdtInit == blob = <<[t |-> "begin", name |-> ""]>>

FdtNext == \/ \E name \in NodeNames : BeginNode(name)
           \/ \E p \in FdtProps : WriteProp(p)
           \/ WriteNop
           \/ EndNode
           \/ Finish
           \/ Complete /\ UNCHANGED blob

----------------------------------------------------------------------------
(* The early scans: depth and per-depth cell counts, nothing allocated.    *)

read_cells(data, cells) ==
    IF cells = 2 THEN data[1] * WordBase + data[2] ELSE data[1]

\* A "reg" is an address followed by a size.
RegWith(data, ac, sc) ==
    [addr |-> read_cells(data, ac),
     size |-> read_cells(SubSeq(data, ac + 1, Len(data)), sc)]

Levels1 == 0..(FdtDepth - 1)

FirstScan == [depth |-> -1, ac |-> [d \in Levels1 |-> IF d = 0 THEN 2 ELSE 0],
              sc |-> [d \in Levels1 |-> IF d = 0 THEN 1 ELSE 0],
              in |-> FALSE, reg |-> NoReg, out |-> NoReg]

\* A node entered at depth d starts from its parent's cell counts.
Inherit(s, d) ==
    IF d \in Levels1 \ {0}
    THEN [s EXCEPT !.ac[d] = s.ac[d - 1], !.sc[d] = s.sc[d - 1]]
    ELSE s

Enter(s) == Inherit([s EXCEPT !.depth = @ + 1], s.depth + 1)

Decode(s, val) ==
    LET d == IF s.depth > 0 THEN s.depth - 1 ELSE 0
    IN  RegWith(val, s.ac[d], s.sc[d])

\* The two properties every scan follows on its way down.
TrackCells(s, p) == CASE p.name = "#address-cells" -> [s EXCEPT !.ac[s.depth] = p.val[1]]
                      [] p.name = "#size-cells" -> [s EXCEPT !.sc[s.depth] = p.val[1]]
                      [] OTHER -> s

MemToken(s, k) ==
    CASE s.out # NoReg -> s
      [] k.t = "begin" -> [Enter(s) EXCEPT !.in = s.depth = 0 /\ k.name \in MemoryNames]
      [] k.t = "end" -> [s EXCEPT !.depth = @ - 1, !.in = FALSE]
      [] k.t = "prop" /\ s.depth \in Levels1 ->
            IF s.in /\ k.prop.name = "reg"
            THEN [s EXCEPT !.out = Decode(s, k.prop.val)]
            ELSE TrackCells(s, k.prop)
      [] OTHER -> s

\* NoReg stands for the panic "/memory node not found".
early_scan_mem(b) == FoldLeft(MemToken, FirstScan, b).out

prop_contains_string(val, target) == \E i \in DOMAIN val : val[i] = target

\* "compatible" and "reg" of one node, in whichever order they come.
UartProp(s, p) ==
    CASE p.name = "compatible" ->
            IF prop_contains_string(p.val, "ns16550a")
            THEN [s EXCEPT !.in = TRUE, !.out = s.reg]
            ELSE s
      [] p.name = "reg" ->
            LET reg == Decode(s, p.val)
            IN  [s EXCEPT !.reg = reg, !.out = IF s.in THEN reg ELSE NoReg]
      [] OTHER -> TrackCells(s, p)

UartToken(s, k) ==
    CASE s.out # NoReg -> s
      [] k.t = "begin" -> [Enter(s) EXCEPT !.in = FALSE, !.reg = NoReg]
      [] k.t = "end" -> [s EXCEPT !.depth = @ - 1, !.in = FALSE, !.reg = NoReg]
      [] k.t = "prop" /\ s.depth \in Levels1 -> UartProp(s, k.prop)
      [] OTHER -> s

\* NoReg stands for the default address of the platform.
early_scan_uart(b) == FoldLeft(UartToken, FirstScan, b).out

\* Only a node below the root is /chosen; the nodes inside it count as well.
InChosen(s, name) == IF s.depth = 0 THEN name \in ChosenNames ELSE s.in

KaslrToken(s, k) ==
    CASE s.out # NoReg -> s
      [] k.t = "begin" -> [s EXCEPT !.depth = @ + 1, !.in = InChosen(s, k.name)]
      [] k.t = "end" -> [s EXCEPT !.depth = @ - 1, !.in = @ /\ s.depth - 1 >= 1]
      [] k.t = "prop" /\ s.in /\ k.prop.name \in SeedNames /\ Len(k.prop.val) = 2 ->
            [s EXCEPT !.out = read_cells(k.prop.val, 2)]
      [] OTHER -> s

\* NoReg stands for the seed 0.
early_scan_kaslr(b) == FoldLeft(KaslrToken, FirstScan, b).out

----------------------------------------------------------------------------
(* The tree: one DeviceNode per FDT_BEGIN_NODE, named by its token.        *)

DeviceNode(parent, name) ==
    [parent |-> parent, name |-> name, children |-> <<>>, props |-> <<>>]

add_child(nodes, parent, n) == [nodes EXCEPT ![parent].children = Append(@, n)]

add_prop(nodes, n, p) == [nodes EXCEPT ![n].props = Append(@, p)]

\* Faulty variant: the new node hangs below the last one created.
ParentAt_Last(s) == s.last

\* The node on the stack one level up.
ParentAt(s) == IF s.depth >= 0 THEN s.stack[s.depth] ELSE 0

UnflattenToken(s, k, i) ==
    CASE s.panic -> s
      [] k.t = "begin" ->
            LET d == s.depth + 1
                parent == ParentAt(s)
                grown == (i :> DeviceNode(parent, k.name)) @@ s.nodes
            IN  IF d >= FdtDepth
                THEN [s EXCEPT !.panic = TRUE]
                ELSE [s EXCEPT !.depth = d, !.last = i, !.stack[d] = i,
                        !.nodes = IF parent # 0 THEN add_child(grown, parent, i) ELSE grown,
                        !.root = IF parent # 0 THEN @ ELSE i]
      [] k.t = "end" -> [s EXCEPT !.depth = @ - 1]
      [] k.t = "prop" /\ s.depth \in Levels1 ->
            [s EXCEPT !.nodes = add_prop(@, s.stack[s.depth], k.prop)]
      [] OTHER -> s

unflatten(b) ==
    FoldLeft(LAMBDA s, i : UnflattenToken(s, b[i], i),
             [depth |-> -1, stack |-> [d \in Levels1 |-> 0], nodes |-> <<>>,
              root |-> 0, last |-> 0, panic |-> FALSE],
             [i \in DOMAIN b |-> i])

\* The first property of that name, <<>> when there is none.
get_prop(node, name) ==
    LET hits == SelectSeq(node.props, LAMBDA p : p.name = name)
    IN  IF hits = <<>> THEN <<>> ELSE hits[1].val

RECURSIVE find_compat_recursive(_, _, _)
find_compat_recursive(nodes, n, compat) ==
    IF prop_contains_string(get_prop(nodes[n], "compatible"), compat) THEN n
    ELSE LET inChildren == [i \in DOMAIN nodes[n].children |->
                              find_compat_recursive(nodes, nodes[n].children[i], compat)]
             hits == SelectSeq(inChildren, LAMBDA c : c # 0)
         IN  IF hits = <<>> THEN 0 ELSE hits[1]

find_compatible(t, compat) == find_compat_recursive(t.nodes, t.root, compat)

find_child(nodes, n, name) ==
    LET hits == SelectSeq(nodes[n].children, LAMBDA c : nodes[c].name = name)
    IN  IF hits = <<>> THEN 0 ELSE hits[1]

\* path is the sequence of its components; 0 when a component is missing.
get_node_by_path(t, path) ==
    FoldLeft(LAMBDA n, name : IF n = 0 THEN 0 ELSE find_child(t.nodes, n, name),
             t.root, path)

get_prop_u64(node, name, default) ==
    LET val == get_prop(node, name)
    IN  CASE Len(val) >= 2 -> read_cells(val, 2)
          [] Len(val) = 1 -> val[1]
          [] OTHER -> default

----------------------------------------------------------------------------
(* The first-generation kernel's pass over the same tokens.                *)

Needles == <<"ns16550", "plic", "clint", "virtio">>
Kinds == <<"uart", "plic", "clint", "virtio">>

\* A search for the bytes of the needle, which holds no NUL.
compat_match(val, needle) == \E i \in DOMAIN val : needle \in CompatParts[val[i]]

\* What a compatible property makes of a node: the first test that holds.
KindOf(val) ==
    LET hits == {i \in DOMAIN Needles : compat_match(val, Needles[i])}
    IN  IF hits = {} THEN "other" ELSE Kinds[Min(hits)]

NoDevice == [addr |-> 0, size |-> 0]

NoNode == [name |-> "", hasReg |-> FALSE, hasCompat |-> FALSE, kind |-> "other",
           reg |-> NoDevice]

add_mmio_region(m, r) ==
    IF \/ r.addr = 0 \/ r.size = 0 \/ r.addr >= MmioLimit \/ Len(m) >= MAX_MMIO
       \/ \E i \in DOMAIN m : m[i].addr = r.addr
    THEN m ELSE Append(m, r)

\* Two address cells and two size cells, as on the QEMU virt machine.
OldReg(val) == [addr |-> read_cells(val, 2),
                size |-> IF Len(val) >= 4 THEN read_cells(SubSeq(val, 3, 4), 2) ELSE 0]

Processed(c) == c.hasReg /\ c.hasCompat

Sized(kind, reg) == IF reg.size = 0 THEN [reg EXCEPT !.size = DefaultSize[kind]] ELSE reg

\* What FDT_END_NODE does with the node whose fields were gathered last.
Registered1(g, c) ==
    LET dev == Sized(c.kind, c.reg)
        device == CASE ~Processed(c) \/ c.kind = "other" -> g
                    [] Processed(c) /\ c.kind \in {"uart", "plic", "clint"} ->
                          [g EXCEPT ![c.kind] = dev, !.mmio = add_mmio_region(@, dev)]
                    [] Processed(c) /\ c.kind = "virtio" ->
                          IF Len(g.virtio) < MAX_VIRTIO
                          THEN [g EXCEPT !.virtio = Append(@, dev), !.mmio = add_mmio_region(@, dev)]
                          ELSE g
    IN  IF c.hasReg /\ c.name \in MemoryNames THEN [device EXCEPT !.mem = c.reg] ELSE device

ParseToken(s, k) ==
    CASE k.t = "begin" -> [s EXCEPT !.cur = [NoNode EXCEPT !.name = k.name]]
      [] k.t = "end" -> [s EXCEPT !.g = Registered1(s.g, s.cur)]
      [] k.t = "prop" /\ k.prop.name = "reg" /\ Len(k.prop.val) >= 2 ->
            [s EXCEPT !.cur.hasReg = TRUE, !.cur.reg = OldReg(k.prop.val)]
      [] k.t = "prop" /\ k.prop.name = "compatible" ->
            [s EXCEPT !.cur.hasCompat = TRUE, !.cur.kind = KindOf(k.prop.val)]
      [] OTHER -> s

fdt_parse(b) ==
    FoldLeft(ParseToken,
             [cur |-> NoNode, g |-> [uart |-> NoDevice, plic |-> NoDevice, clint |-> NoDevice,
                                     mem |-> NoDevice, virtio |-> <<>>, mmio |-> <<>>]], b).g

----------------------------------------------------------------------------
(* Properties.                                                             *)

\* The nodes both early scans look at: deeper ones are skipped.
Tracked(b) == {n \in BeginsOf(b) : DepthOf(b, n) < FdtDepth}

\* The reg of node n as its parent's cell counts decode it.
RegOf(b, n) == LET up == NodeOf(b, n)
               IN  RegWith(ValueOf(b, n, "reg"),
                           CellsIn(b, up, "#address-cells", 2), CellsIn(b, up, "#size-cells", 1))

\* What the first node satisfying the test holds, or NoReg.
FirstReg(b, nodes) == IF nodes = {} THEN NoReg ELSE RegOf(b, Min(nodes))

\* early_scan_mem takes the first node below the root whose name begins with
\* "memory" and decodes its "reg" with the cell counts in force in the root,
\* whatever counts that node or its neighbours set for their own children.
MemoryFound ==
    Complete => early_scan_mem(blob) =
        FirstReg(blob, {n \in Tracked(blob) : /\ DepthOf(blob, n) = 1
                                               /\ blob[n].name \in MemoryNames
                                               /\ Has(blob, n, "reg")})

\* early_scan_uart returns the first node with an ns16550a compatible string
\* and a "reg", in whichever order the two properties come and at whatever
\* depth, decoded with the cell counts in force in its parent.
UartFound ==
    Complete => early_scan_uart(blob) =
        FirstReg(blob, {n \in Tracked(blob) :
            /\ Has(blob, n, "reg") /\ Has(blob, n, "compatible")
            /\ prop_contains_string(ValueOf(blob, n, "compatible"), "ns16550a")})

\* early_scan_kaslr returns a seed only from a node below the root whose name
\* begins with "chosen" (or a node inside it), the first property of eight
\* bytes whose name begins with "kaslr-seed", however that node is closed and
\* whatever nodes follow it.
SeedFromChosen ==
    Complete => early_scan_kaslr(blob) =
        LET seeds == {i \in DOMAIN blob :
              /\ blob[i].t = "prop" /\ blob[i].prop.name \in SeedNames
              /\ Len(blob[i].prop.val) = 2
              /\ \E n \in BeginsOf(blob) : /\ DepthOf(blob, n) = 1 /\ blob[n].name \in ChosenNames
                                           /\ Below(blob, NodeOf(blob, i), n)}
        IN  IF seeds = {} THEN NoReg ELSE read_cells(blob[Min(seeds)].prop.val, 2)

RECURSIVE PathTo(_, _)
PathTo(b, n) == IF DepthOf(b, n) = 0 THEN <<>>
                ELSE Append(PathTo(b, NodeOf(b, n)), b[n].name)

\* unflatten rebuilds exactly the nesting of the blob: every node hangs below
\* the node that encloses it, its properties and children keep their order,
\* find_compatible finds what a search of the blob finds first and
\* get_node_by_path reaches every node by its path.  It panics on a tree
\* deeper than its stack, and only then.
TreeRebuilt ==
    Complete =>
        LET t == unflatten(blob)
        IN  /\ t.panic <=> Tracked(blob) # BeginsOf(blob)
            /\ ~t.panic => \A n \in BeginsOf(blob) :
                 /\ t.nodes[n].parent = NodeOf(blob, n)
                 /\ t.nodes[n].children =
                      SetToSortSeq({c \in BeginsOf(blob) : NodeOf(blob, c) = n}, <)
                 /\ t.nodes[n].props =
                      [i \in 1..Cardinality(PropsOf(blob, n)) |->
                         blob[SetToSortSeq(PropsOf(blob, n), <)[i]].prop]
                 /\ get_node_by_path(t, PathTo(blob, n)) = n
                 /\ Has(blob, n, "kaslr-seed") =>
                      get_prop_u64(t.nodes[n], "kaslr-seed", 0) =
                        read_cells(ValueOf(blob, n, "kaslr-seed"),
                                   Len(ValueOf(blob, n, "kaslr-seed")))
            /\ ~t.panic => \A c \in {"ns16550a", "virtio,mmio"} :
                 find_compatible(t, c) =
                   Min({n \in BeginsOf(blob) :
                          /\ Has(blob, n, "compatible")
                          /\ prop_contains_string(ValueOf(blob, n, "compatible"), c)}
                       \cup {Len(blob)}) % Len(blob)

\* The nodes without children, which are the ones the old parser still has
\* the fields of when they close.
Leaves(b) == {n \in BeginsOf(b) : \A c \in BeginsOf(b) : NodeOf(b, c) # n}

\* The devices among them, as the old parser reads them.
DevicesOf(b) ==
    {[node |-> n, kind |-> KindOf(ValueOf(b, n, "compatible")), reg |-> OldReg(ValueOf(b, n, "reg"))] :
        n \in {m \in Leaves(b) : Has(b, m, "reg") /\ Has(b, m, "compatible")}}

RegionsOfKind(devices, kind) == {Sized(kind, d.reg) : d \in {e \in devices : e.kind = kind}}

\* The first-generation fdt_parse registers the last childless UART, PLIC and
\* CLINT, and as virtio slots nothing but childless virtio nodes: all of them
\* while slots remain.  A device is of the first kind whose test finds its
\* needle anywhere in "compatible", and a size that is missing is the kind's
\* default.  The I/O regions are those of devices that lie below RAM, each
\* base once, all of them while there is room.
RegistryFromLeaves ==
    Complete =>
        LET g == fdt_parse(blob)
            devices == DevicesOf(blob)
            lastOf(kind) == {d \in devices : /\ d.kind = kind
                                             /\ \A e \in devices : e.kind = kind => e.node <= d.node}
            found == UNION {RegionsOfKind(devices, kind) : kind \in {"uart", "plic", "clint"}} \cup Range(g.virtio)
        IN  /\ \A kind \in {"uart", "plic", "clint"} :
                  /\ lastOf(kind) = {} => g[kind] = NoDevice
                  /\ \A d \in lastOf(kind) : g[kind] = Sized(kind, d.reg)
            /\ Range(g.virtio) \subseteq RegionsOfKind(devices, "virtio")
            /\ Len(g.virtio) < MAX_VIRTIO => Range(g.virtio) = RegionsOfKind(devices, "virtio")
            /\ Range(g.mmio) \subseteq {d \in found : d.addr \in 1..(MmioLimit - 1)}
            /\ Len(g.mmio) < MAX_MMIO =>
                  {r.addr : r \in Range(g.mmio)} = {d.addr : d \in found} \cap 1..(MmioLimit - 1)
            /\ \A i, j \in DOMAIN g.mmio : g.mmio[i].addr = g.mmio[j].addr => i = j
============================================================================
