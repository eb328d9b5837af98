------------------------------ MODULE VmaProofs ------------------------------
(***************************************************************************)
(* The proofs about user address spaces, for any number of spaces, pages   *)
(* and frames.  First what splitting, cutting, merging and relabelling do  *)
(* to the areas of one space, also when memory runs out half way; then the *)
(* calls on one space; then counting: every step has one of six effects    *)
(* on the entries of all spaces and on the frames' counts (StepShapes).    *)
(***************************************************************************)
EXTENDS Vma, SeqFacts, FiniteSetTheorems

(* The areas of a space: nonempty, in the user range, apart.               *)
AreasOk(as) ==
    /\ as \in SUBSET Areas
    /\ \A a \in as : RangeOk(a.start, a.end)
    /\ \A a, b \in as : a # b => ~range_overlaps(a, b.start, b.end)

(* Every page of vas that as grants something, bs grants the same.         *)
Keeps(as, bs, vas) ==
    \A va \in vas : \A a \in find(as, va) : \E b \in find(bs, va) : b.perm = a.perm

(* An area with its bounds in order, in the user range.                    *)
Proper(a) ==
    /\ a \in Areas /\ a.start \in Nat /\ a.end \in Nat /\ a.perm \in Perms
    /\ 1 <= a.start /\ a.start < a.end /\ a.end <= UserVaLimit

Lower(x, y) == IF x <= y THEN x ELSE y
Higher(x, y) == IF y <= x THEN x ELSE y

(* b is what is left of area a below lo or from hi on.                     *)
Piece(b, a, lo, hi) ==
    /\ b.start < b.end
    /\ b \in {Area(a.start, Lower(a.end, lo), a.perm), Area(Higher(a.start, hi), a.end, a.perm)}

(* A piece lies in its area, before the hole or after it.                  *)
PieceIn(b, a, lo, hi) ==
    /\ b \in Areas /\ b.start \in Nat /\ b.end \in Nat /\ b.perm = a.perm
    /\ a.start <= b.start /\ b.start < b.end /\ b.end <= a.end
    /\ \/ b.start = a.start /\ b.end <= lo /\ b.end = Lower(a.end, lo)
       \/ b.end = a.end /\ hi <= b.start /\ b.start = Higher(a.start, hi)

(* No area lies across at.                                                 *)
NoStraddle(as, at) == \A a \in as : ~(a.start < at /\ at < a.end)

(* The areas after protect, split at lo and hi, gives the range perm.      *)
Granted(as, lo, hi, perm) ==
    {IF range_overlaps(a, lo, hi) THEN [a EXCEPT !.perm = perm] ELSE a : a \in as}

(* Every page of the range that as grants something, bs grants perm.       *)
Grants(as, bs, lo, hi, perm) ==
    \A va \in lo .. hi - 1 : \A a \in find(as, va) : \E b \in find(bs, va) : b.perm = perm

(* Where len pages are free.                                               *)
FreeAt(as, len) == {va \in Va : va + len <= UserVaLimit /\ ~vma_overlaps(as, va, va + len)}

(* An entry that maps a page grants what the page's area does, less the    *)
(* write when it is copy-on-write.                                         *)
PageOk(e, as, va) ==
    e # NoPage => \E a \in find(as, va) : a.perm # {} /\ e.perm = a.perm \ (IF e.cow THEN {"W"} ELSE {})

(* One space: its areas, its entries and its heap.                         *)
SpaceOk(m) ==
    /\ m \in Spaces /\ AreasOk(m.areas)
    /\ \A va \in Slots : PageOk(m.pte[va], m.areas, va)
    /\ m.brk_start <= m.brk_end /\ (m.brk_start < m.brk_end => m.brk_end <= UserVaLimit)

(* Space m, if there is one, holds frame f in slot va.                     *)
Maps(m, va, f) == m # NoPage /\ m.pte[va] # NoPage /\ m.pte[va].frame = f

(* Space m, if there is one, may write the page of slot va.                *)
Writes(m, va) == m # NoPage /\ m.pte[va] # NoPage /\ "W" \in m.pte[va].perm

(* The entries that map f, for spaces sp.                                  *)
InUse(sp, f) == {x \in VmSpaces \X Slots : Maps(sp[x[1]], x[2], f)}

(* From spaces sp to sq, pages D of space s no longer map f.               *)
Drops(sp, sq, f, s, D) ==
    /\ \A u \in VmSpaces, va \in Slots :
          Maps(sq[u], va, f) <=> Maps(sp[u], va, f) /\ ~(u = s /\ va \in D)
    /\ \A va \in D : Maps(sp[s], va, f)

(* From sp to sq, pages D of space s, which did not map f, now do.         *)
Gains(sp, sq, f, s, D) ==
    /\ \A u \in VmSpaces, va \in Slots :
          Maps(sq[u], va, f) <=> Maps(sp[u], va, f) \/ (u = s /\ va \in D)
    /\ \A va \in D : ~Maps(sp[s], va, f)

(* From sp to sq, the entries that map f stay.                             *)
Same(sp, sq, f) == \A u \in VmSpaces, va \in Slots : Maps(sq[u], va, f) <=> Maps(sp[u], va, f)

(* From sp to sq, no entry appears and none becomes writable.              *)
Fewer(sp, sq) ==
    \A u \in VmSpaces, va \in Slots :
        /\ \A f : Maps(sq[u], va, f) => Maps(sp[u], va, f)
        /\ Writes(sq[u], va) => Writes(sp[u], va)

(* The frame of an entry that may be written is mapped by no other.        *)
NotShared(sp) ==
    \A s \in VmSpaces, va \in Slots : Writes(sp[s], va) =>
        \A u \in VmSpaces, vb \in Slots : Maps(sp[u], vb, sp[s].pte[va].frame) => u = s /\ vb = va

(* Table t without the pages from lo to hi, and the counts without them.   *)
Emptied(t, lo, hi) == [k \in Slots |-> IF k \in lo .. hi - 1 THEN NoPage ELSE t[k]]

Returned(t, lo, hi) ==
    [f \in VmFrames |->
        refs[f] - Cardinality({k \in Slots : k \in lo .. hi - 1 /\ t[k] # NoPage /\ t[k].frame = f})]

(* A step that at most drops the pages of s from lo to hi, with their      *)
(* references, and keeps the space in order.                               *)
TrimTo(s, n, lo, hi) ==
    /\ SpaceOk(n) /\ BrkTracks(space[s], n)
    /\ n.pte = Emptied(space[s].pte, lo, hi)
    /\ space' = [space EXCEPT ![s] = n]
    /\ refs' = Returned(space[s].pte, lo, hi) /\ lost' = lost

Trims(s) == \E n, lo, hi : TrimTo(s, n, lo, hi)

(* A step that relabels the entries of s and moves no page.                *)
RelabelTo(s, n, lo, hi, perm) ==
    /\ SpaceOk(n) /\ BrkTracks(space[s], n)
    /\ \A va \in Slots : n.pte[va] = IF va \in lo .. hi - 1 /\ space[s].pte[va] # NoPage
                                THEN NewLeaf(space[s].pte[va], perm) ELSE space[s].pte[va]
    /\ perm # {} /\ space' = [space EXCEPT ![s] = n] /\ refs' = refs /\ lost' = lost

Relabels(s) == \E n, lo, hi : \E perm \in Perms : RelabelTo(s, n, lo, hi, perm)

(* n maps the pages of m to the same frames, and writes no more of them.   *)
Tamer(m, n) ==
    \A va \in Slots :
        /\ n.pte[va] # NoPage <=> m.pte[va] # NoPage
        /\ m.pte[va] # NoPage => /\ n.pte[va].frame = m.pte[va].frame
                                 /\ "W" \in n.pte[va].perm => "W" \in m.pte[va].perm

(* No page of vas is writable in n.                                        *)
NoneWritable(n, vas) == \A va \in vas : n.pte[va] # NoPage => "W" \notin n.pte[va].perm

(* A step of the parent that shares pages: the same frames, less writable. *)
TamesTo(s, n) ==
    SpaceOk(n) /\ BrkTracks(space[s], n) /\ Tamer(space[s], n) /\ space' = [space EXCEPT ![s] = n]

(* A clone that went to the end: parent p and child k write nothing.       *)
ClonesTo(s, c, p, k) ==
    /\ c \in VmSpaces /\ space[c] = NoPage
    /\ SpaceOk(p) /\ Tamer(space[s], p) /\ NoneWritable(p, Slots) /\ BrkTracks(space[s], p)
    /\ SpaceOk(k) /\ Tamer(space[s], k) /\ NoneWritable(k, Slots)
    /\ space' = [space EXCEPT ![s] = p, ![c] = k]
    /\ refs' = Incref(space[s], MappedIn(space[s], space[s].areas)) /\ lost' = lost

(* A step that gives page va of s the free frame new, in place of a frame  *)
(* shared with others if it had one.                                       *)
TakesTo(s, va, n, new) ==
    /\ SpaceOk(n) /\ BrkTracks(space[s], n)
    /\ va \in Slots /\ new \in FreeFrames /\ n.pte[va] # NoPage /\ n.pte[va].frame = new
    /\ \A vb \in Slots \ {va} : n.pte[vb] = space[s].pte[vb]
    /\ space' = [space EXCEPT ![s] = n] /\ lost' = lost
    /\ refs' = IF space[s].pte[va] = NoPage THEN [refs EXCEPT ![new] = 1]
              ELSE CowCopyRefs(space[s].pte[va].frame, new)

Takes(s) == \E va, n, new : TakesTo(s, va, n, new)

(* The inductive invariant, space by space.                                *)
VmInv ==
    /\ VmTypeOK /\ \A s \in Alive : SpaceOk(space[s])
    /\ \A f \in VmFrames : refs[f] = Cardinality(InUse(space, f)) + lost[f]

(* The next state is in order, calls apart.                                *)
Kept ==
    /\ space' \in [VmSpaces -> Spaces \union {NoPage}]
    /\ \A u \in VmSpaces : space'[u] # NoPage => SpaceOk(space'[u])
    /\ refs' \in [VmFrames -> Int] /\ lost' \in [VmFrames -> Nat]
    /\ \A f \in VmFrames : refs'[f] = Cardinality(InUse(space', f)) + lost'[f]

-----------------------------------------------------------------------------
(* The areas.                                                              *)

(* Min and Max of two numbers.                                             *)
LEMMA MinMaxOfTwo ==
    ASSUME NEW x \in Nat, NEW y \in Nat
    PROVE  Min({x, y}) = Lower(x, y) /\ Max({x, y}) = Higher(x, y)
<1>1. /\ \E z \in {x, y} : \A w \in {x, y} : z <= w
      /\ \E z \in {x, y} : \A w \in {x, y} : z >= w
  OBVIOUS
<1>2. Min({x, y}) \in {x, y} /\ \A w \in {x, y} : Min({x, y}) <= w
  BY <1>1 DEF Min
<1>3. Max({x, y}) \in {x, y} /\ \A w \in {x, y} : Max({x, y}) >= w
  BY <1>1 DEF Max
<1>. QED
  BY <1>2, <1>3 DEF Lower, Higher

(* The bounds of an area are page numbers of the user range, in order.     *)
LEMMA AreaBounds ==
    ASSUME NEW as, AreasOk(as), NEW a \in as
    PROVE  Proper(a)
<1>1. a \in Areas /\ RangeOk(a.start, a.end)
  BY Zenon DEF AreasOk
<1>2. a.start \in Nat /\ a.end \in Nat /\ a.perm \in Perms
  BY <1>1 DEF Areas
<1>. QED
  BY <1>1, <1>2 DEF Proper, RangeOk, kUserVaBase

(* The fields of an area.                                                  *)
LEMMA AreaFields ==
    ASSUME NEW x \in Nat, NEW y \in Nat, NEW p \in Perms
    PROVE  Area(x, y, p) \in Areas /\ Area(x, y, p).start = x /\ Area(x, y, p).end = y /\ Area(x, y, p).perm = p
  BY DEF Area, Areas

(* Areas with the same bounds and permissions are the same.                *)
LEMMA SameArea ==
    ASSUME NEW a \in Areas, NEW b \in Areas, a.start = b.start, a.end = b.end, a.perm = b.perm
    PROVE  a = b
  BY DEF Areas

(* The user range ends at a page number.                                   *)
LEMMA LimitType == UserVaLimit \in Nat
  BY VmAssumption

(* The pages of the user range.                                            *)
LEMMA UserRange ==
    /\ \A va \in Va : va \in Nat /\ 1 <= va /\ va < UserVaLimit
    /\ \A va \in Nat : 1 <= va /\ va < UserVaLimit => va \in Va
  BY VmAssumption DEF Va, kUserVaBase

(* Bounds in order are a range that map accepts.                           *)
LEMMA ProperRange ==
    ASSUME NEW a, Proper(a)
    PROVE  RangeOk(a.start, a.end)
  BY LimitType DEF Proper, RangeOk, kUserVaBase

(* A page lies in one area at most: find's answer is the area.             *)
LEMMA OneAreaAt ==
    ASSUME NEW as, AreasOk(as), NEW va \in Nat, NEW a \in find(as, va), NEW b \in find(as, va)
    PROVE  a = b
<1>1. /\ a \in as /\ a.start <= va /\ va < a.end
      /\ b \in as /\ b.start <= va /\ va < b.end
  BY Zenon DEF find
<1>2. Proper(a) /\ Proper(b)
  BY <1>1, AreaBounds, Zenon
<1>3. range_overlaps(a, b.start, b.end)
  BY <1>1, <1>2 DEF range_overlaps, Proper
<1>. QED
  BY <1>1, <1>3, Zenon DEF AreasOk

(* Without leaves exactly the pieces of the areas.                         *)
LEMMA WithoutEntriesPieces ==
    ASSUME NEW as, AreasOk(as), NEW lo \in Nat, NEW hi \in Nat
    PROVE  \A b : b \in Without(as, lo, hi) <=> \E a \in as : Piece(b, a, lo, hi)
<1>. DEFINE Left(a) == Area(a.start, Min({a.end, lo}), a.perm)
            Right(a) == Area(Max({a.start, hi}), a.end, a.perm)
<1>1. \A b : b \in Without(as, lo, hi) <=> \E a \in as : b \in {Left(a), Right(a)} /\ b.start < b.end
  BY Zenon DEF Without
<1>2. ASSUME NEW a \in as
      PROVE  /\ Left(a) = Area(a.start, Lower(a.end, lo), a.perm)
             /\ Right(a) = Area(Higher(a.start, hi), a.end, a.perm)
  <2>1. a.start \in Nat /\ a.end \in Nat
    BY AreaBounds, Zenon DEF Proper
  <2>. QED
    BY <2>1, MinMaxOfTwo
<1>. HIDE DEF Left, Right
<1>. QED
  BY <1>1, <1>2, Zenon DEF Piece

(* A piece lies in its area, before the hole or after it.                  *)
LEMMA PieceBounds ==
    ASSUME NEW lo \in Nat, NEW hi \in Nat, NEW a, Proper(a), NEW b, Piece(b, a, lo, hi)
    PROVE  PieceIn(b, a, lo, hi)
<1>1. a.start \in Nat /\ a.end \in Nat /\ a.perm \in Perms /\ b.start < b.end
  BY DEF Proper, Piece
<1>2. CASE b = Area(a.start, Lower(a.end, lo), a.perm)
  <2>1. Lower(a.end, lo) \in Nat
    BY <1>1 DEF Lower
  <2>2. b \in Areas /\ b.start = a.start /\ b.end = Lower(a.end, lo) /\ b.perm = a.perm
    BY <1>1, <1>2, <2>1, AreaFields
  <2>. QED
    BY <1>1, <2>2 DEF PieceIn, Lower
<1>3. CASE b = Area(Higher(a.start, hi), a.end, a.perm)
  <2>1. Higher(a.start, hi) \in Nat
    BY <1>1 DEF Higher
  <2>2. b \in Areas /\ b.start = Higher(a.start, hi) /\ b.end = a.end /\ b.perm = a.perm
    BY <1>1, <1>3, <2>1, AreaFields
  <2>. QED
    BY <1>1, <2>2 DEF PieceIn, Higher
<1>. QED
  BY <1>2, <1>3 DEF Piece

(* munmap and the fixed mmap leave a well-formed set of areas, which       *)
(* grants what it did outside the range, and nothing inside.               *)
LEMMA WithoutOk ==
    ASSUME NEW as, AreasOk(as), NEW lo \in Nat, NEW hi \in Nat, lo < hi
    PROVE  /\ AreasOk(Without(as, lo, hi))
           /\ Keeps(as, Without(as, lo, hi), Nat \ (lo .. hi - 1))
           /\ \A va \in lo .. hi - 1 : find(Without(as, lo, hi), va) = {}
<1>. DEFINE bs == Without(as, lo, hi)
<1>1. \A b : b \in bs <=> \E a \in as : Piece(b, a, lo, hi)
  BY WithoutEntriesPieces, Zenon
<1>. HIDE DEF bs
<1>2. \A b \in bs : \E a \in as : Proper(a) /\ PieceIn(b, a, lo, hi)
  BY <1>1, AreaBounds, PieceBounds, Zenon
<1>3. bs \in SUBSET Areas
  BY <1>2, Zenon DEF PieceIn
<1>4. ASSUME NEW b \in bs
      PROVE  RangeOk(b.start, b.end)
  <2>1. PICK a \in as : Proper(a) /\ PieceIn(b, a, lo, hi)
    BY <1>2, Zenon
  <2>. QED
    BY <2>1, LimitType DEF RangeOk, kUserVaBase, Proper, PieceIn
<1>5. ASSUME NEW b \in bs, NEW c \in bs, b # c
      PROVE  ~range_overlaps(b, c.start, c.end)
  <2>1. PICK a \in as : Proper(a) /\ PieceIn(b, a, lo, hi)
    BY <1>2, Zenon
  <2>2. PICK d \in as : Proper(d) /\ PieceIn(c, d, lo, hi)
    BY <1>2, Zenon
  <2>3. CASE a # d
    <3>1. ~(d.start < a.end /\ a.start < d.end)
      BY <2>3, Zenon DEF AreasOk, range_overlaps
    <3>. QED
      BY <2>1, <2>2, <3>1 DEF range_overlaps, Proper, PieceIn
  <2>4. CASE a = d
    <3>1. b \in Areas /\ c \in Areas /\ b.perm = c.perm
      BY <2>1, <2>2, <2>4 DEF PieceIn
    <3>2. ~(b.start = c.start /\ b.end = c.end)
      BY <1>5, <3>1, SameArea
    <3>. QED
      BY <2>1, <2>2, <2>4, <3>2 DEF range_overlaps, Proper, PieceIn
  <2>. QED
    BY <2>3, <2>4
<1>6. AreasOk(bs)
  BY <1>3, <1>4, <1>5 DEF AreasOk
<1>7. ASSUME NEW va \in Nat \ (lo .. hi - 1), NEW a \in find(as, va)
      PROVE  \E b \in find(bs, va) : b.perm = a.perm
  <2>0. va \in Nat /\ a \in as /\ a.start <= va /\ va < a.end
    BY UserRange, Zenon DEF find
  <2>1. a.start \in Nat /\ a.end \in Nat /\ a.perm \in Perms
    BY <2>0, AreaBounds, Zenon DEF Proper
  <2>2. CASE va < lo
    <3>1. PICK e \in Nat : e = Lower(a.end, lo) /\ va < e
      BY <2>0, <2>1, <2>2 DEF Lower
    <3>2. PICK b \in Areas : b = Area(a.start, e, a.perm) /\ b.start = a.start /\ b.end = e /\ b.perm = a.perm
      BY <2>1, <3>1, AreaFields
    <3>3. b.start < b.end
      BY <2>0, <2>1, <3>1, <3>2
    <3>4. b \in bs
      BY <1>1, <2>0, <3>1, <3>2, <3>3, Zenon DEF Piece
    <3>. QED
      BY <2>0, <3>1, <3>2, <3>4 DEF find
  <2>3. CASE va >= hi
    <3>1. PICK e \in Nat : e = Higher(a.start, hi) /\ e <= va
      BY <2>0, <2>1, <2>3 DEF Higher
    <3>2. PICK b \in Areas : b = Area(e, a.end, a.perm) /\ b.start = e /\ b.end = a.end /\ b.perm = a.perm
      BY <2>1, <3>1, AreaFields
    <3>3. b.start < b.end
      BY <2>0, <2>1, <3>1, <3>2
    <3>4. b \in bs
      BY <1>1, <2>0, <3>1, <3>2, <3>3, Zenon DEF Piece
    <3>. QED
      BY <2>0, <3>1, <3>2, <3>4 DEF find
  <2>. QED
    BY <2>0, <2>2, <2>3
<1>8. ASSUME NEW va \in lo .. hi - 1, NEW b \in find(bs, va)
      PROVE  FALSE
  <2>1. b \in bs /\ b.start <= va /\ va < b.end
    BY DEF find
  <2>2. PICK a \in as : Proper(a) /\ PieceIn(b, a, lo, hi)
    BY <1>2, <2>1, Zenon
  <2>. QED
    BY <2>1, <2>2 DEF PieceIn, Proper
<1>9. Keeps(as, bs, Nat \ (lo .. hi - 1))
  BY <1>7, Zenon DEF Keeps
<1>. QED
  BY <1>6, <1>8, <1>9, Zenon DEF bs

(* vma_split cuts the one area around at in two, or does nothing.          *)
LEMMA SplitCases ==
    ASSUME NEW as, AreasOk(as), NEW at \in Nat
    PROVE  \/ ~NeedsSplit(as, at) /\ vma_split(as, at) = as /\ NoStraddle(as, at)
           \/ \E a \in as : /\ a.start < at /\ at < a.end
                           /\ vma_split(as, at) =
                                  (as \ {a}) \union {Area(a.start, at, a.perm), Area(at, a.end, a.perm)}
<1>. DEFINE cut == {a \in find(as, at) : a.start < at}
<1>1. vma_split(as, at) = (as \ cut) \union {Area(a.start, at, a.perm) : a \in cut}
                                      \union {Area(at, a.end, a.perm) : a \in cut}
  BY DEF vma_split
<1>2. NeedsSplit(as, at) <=> cut # {}
  BY Zenon DEF NeedsSplit
<1>3. \A a \in as : a \in cut <=> a.start < at /\ at < a.end
  <2>1. SUFFICES ASSUME NEW a \in as
                 PROVE  a \in cut <=> a.start < at /\ at < a.end
    BY Zenon
  <2>2. a.start \in Nat /\ a.end \in Nat
    BY AreaBounds, Zenon DEF Proper
  <2>3. a \in cut <=> a.start <= at /\ at < a.end /\ a.start < at
    BY Zenon DEF find
  <2>. HIDE DEF cut
  <2>. QED
    BY <2>2, <2>3
<1>4. \A a, b \in cut : a = b
  BY OneAreaAt, Zenon
<1>5. cut \subseteq as
  BY Zenon DEF find
<1>. HIDE DEF cut
<1>6. CASE cut = {}
  BY <1>1, <1>2, <1>3, <1>6, Zenon DEF NoStraddle
<1>7. ASSUME NEW a \in cut
      PROVE  /\ a.start < at /\ at < a.end
             /\ vma_split(as, at) =
                    (as \ {a}) \union {Area(a.start, at, a.perm), Area(at, a.end, a.perm)}
  <2>1. cut = {a}
    BY <1>4
  <2>2. a.start < at /\ at < a.end
    BY <1>3, <1>5, Zenon
  <2>3. /\ {Area(b.start, at, b.perm) : b \in {a}} = {Area(a.start, at, a.perm)}
        /\ {Area(at, b.end, b.perm) : b \in {a}} = {Area(at, a.end, a.perm)}
    OBVIOUS
  <2>. QED
    BY <1>1, <2>1, <2>2, <2>3
<1>. QED
  BY <1>5, <1>6, <1>7, Zenon

(* vma_split keeps the areas well formed and what they grant, and leaves   *)
(* none across at.                                                         *)
LEMMA SplitOk ==
    ASSUME NEW as, AreasOk(as), NEW at \in Nat
    PROVE  /\ AreasOk(vma_split(as, at))
           /\ Keeps(as, vma_split(as, at), Nat)
           /\ NoStraddle(vma_split(as, at), at)
           /\ \A x \in Nat : NoStraddle(as, x) => NoStraddle(vma_split(as, at), x)
<1>1. CASE ~NeedsSplit(as, at) /\ vma_split(as, at) = as /\ NoStraddle(as, at)
  BY <1>1, Zenon DEF Keeps
<1>2. ASSUME NEW a \in as, a.start < at, at < a.end,
             vma_split(as, at) = (as \ {a}) \union {Area(a.start, at, a.perm), Area(at, a.end, a.perm)}
      PROVE  /\ AreasOk(vma_split(as, at))
             /\ Keeps(as, vma_split(as, at), Nat)
             /\ NoStraddle(vma_split(as, at), at)
             /\ \A x \in Nat : NoStraddle(as, x) => NoStraddle(vma_split(as, at), x)
  <2>0. Proper(a)
    BY AreaBounds, Zenon
  <2>1. PICK l \in Areas : l = Area(a.start, at, a.perm) /\ l.start = a.start /\ l.end = at /\ l.perm = a.perm
    BY <2>0, AreaFields DEF Proper
  <2>2. PICK r \in Areas : r = Area(at, a.end, a.perm) /\ r.start = at /\ r.end = a.end /\ r.perm = a.perm
    BY <2>0, AreaFields DEF Proper
  <2>3. PICK bs : bs = vma_split(as, at)
    BY Zenon
  <2>4. bs = (as \ {a}) \union {l, r}
    BY <1>2, <2>1, <2>2, <2>3
  <2>5. Proper(l) /\ Proper(r)
    BY <1>2, <2>0, <2>1, <2>2, LimitType DEF Proper
  <2>6. ASSUME NEW b \in as, b # a
        PROVE  /\ ~range_overlaps(b, l.start, l.end) /\ ~range_overlaps(l, b.start, b.end)
               /\ ~range_overlaps(b, r.start, r.end) /\ ~range_overlaps(r, b.start, b.end)
    <3>1. Proper(b)
      BY AreaBounds, Zenon
    <3>2. ~range_overlaps(b, a.start, a.end)
      BY <2>6, Zenon DEF AreasOk
    <3>. QED
      BY <1>2, <2>0, <2>1, <2>2, <3>1, <3>2 DEF range_overlaps, Proper
  <2>7. ~range_overlaps(l, r.start, r.end) /\ ~range_overlaps(r, l.start, l.end)
    BY <1>2, <2>0, <2>1, <2>2 DEF range_overlaps, Proper
  <2>8. AreasOk(bs)
    <3>1. \A b \in bs : Proper(b)
      BY <2>4, <2>5, AreaBounds, Zenon
    <3>2. \A b, c \in as : b # c => ~range_overlaps(b, c.start, c.end)
      BY Zenon DEF AreasOk
    <3>3. \A b, c \in bs : b # c => ~range_overlaps(b, c.start, c.end)
      BY <2>4, <2>6, <2>7, <3>2, Zenon
    <3>. QED
      BY <3>1, <3>3, ProperRange DEF AreasOk, Proper
  <2>9. Keeps(as, bs, Nat)
    <3>1. SUFFICES ASSUME NEW va \in Nat, NEW b \in find(as, va)
                   PROVE  \E c \in find(bs, va) : c.perm = b.perm
      BY Zenon DEF Keeps
    <3>2. va \in Nat /\ b \in as /\ b.start <= va /\ va < b.end
      BY UserRange, Zenon DEF find
    <3>3. CASE b # a
      BY <2>4, <3>2, <3>3, Zenon DEF find
    <3>4. CASE b = a /\ va < at
      BY <2>1, <2>4, <3>2, <3>4, Zenon DEF find
    <3>5. CASE b = a /\ at <= va
      BY <2>2, <2>4, <3>2, <3>5, Zenon DEF find
    <3>. QED
      BY <3>2, <3>3, <3>4, <3>5
  <2>10. ASSUME NEW x \in Nat, x = at \/ NoStraddle(as, x)
         PROVE  NoStraddle(bs, x)
    <3>1. \A b \in as : b # a => ~(b.start < x /\ x < b.end)
      <4>1. SUFFICES ASSUME NEW b \in as, b # a, b.start < x, x < b.end
                     PROVE  FALSE
        BY Zenon
      <4>2. x = at
        BY <2>10, <4>1, Zenon DEF NoStraddle
      <4>3. Proper(b) /\ ~range_overlaps(b, a.start, a.end)
        BY <4>1, AreaBounds, Zenon DEF AreasOk
      <4>. QED
        BY <1>2, <2>0, <4>1, <4>2, <4>3 DEF range_overlaps, Proper
    <3>2. ~(a.start < x /\ x < a.end) \/ x = at
      BY <2>10, Zenon DEF NoStraddle
    <3>3. ~(l.start < x /\ x < l.end) /\ ~(r.start < x /\ x < r.end)
      BY <1>2, <2>0, <2>1, <2>2, <3>2 DEF Proper
    <3>. QED
      BY <2>4, <3>1, <3>3, Zenon DEF NoStraddle
  <2>. QED
    BY <2>3, <2>8, <2>9, <2>10, Zenon
<1>. QED
  BY <1>1, <1>2, SplitCases, Zenon

(* What is granted stays granted through two changes.                      *)
LEMMA KeepsTwice ==
    ASSUME NEW as, NEW bs, NEW cs, NEW vas, Keeps(as, bs, vas), Keeps(bs, cs, vas)
    PROVE  Keeps(as, cs, vas)
<1>1. SUFFICES ASSUME NEW va \in vas, NEW a \in find(as, va)
               PROVE  \E c \in find(cs, va) : c.perm = a.perm
  BY Zenon DEF Keeps
<1>2. PICK b \in find(bs, va) : b.perm = a.perm
  BY Zenon DEF Keeps
<1>. QED
  BY <1>2 DEF Keeps

(* vma_split_range, with memory or without: the areas stay well formed and *)
(* grant the same; when it succeeds none lies across an end of the range.  *)
LEMMA SplitRangeOk ==
    ASSUME NEW as, AreasOk(as), NEW lo \in Nat, NEW hi \in Nat, NEW mem
    PROVE  LET split == vma_split_range(as, lo, hi, mem)
           IN  /\ AreasOk(split.areas) /\ Keeps(as, split.areas, Nat)
               /\ split.ok => NoStraddle(split.areas, lo) /\ NoStraddle(split.areas, hi)
<1>1. PICK left : left = vma_split(as, lo)
  BY Zenon
<1>2. AreasOk(left) /\ Keeps(as, left, Nat) /\ NoStraddle(left, lo)
  BY <1>1, SplitOk, Zenon
<1>3. PICK both : both = vma_split(left, hi)
  OBVIOUS
<1>4. AreasOk(both) /\ Keeps(left, both, Nat) /\ NoStraddle(both, lo) /\ NoStraddle(both, hi)
  BY <1>2, <1>3, SplitOk
<1>5. Keeps(as, both, Nat)
  BY <1>2, <1>4, KeepsTwice, Zenon
<1>6. Keeps(as, as, Nat)
  BY Zenon DEF Keeps
<1>7. PICK split : split = vma_split_range(as, lo, hi, mem)
  BY Zenon
<1>8. \/ split = [areas |-> as, ok |-> FALSE]
      \/ split = [areas |-> left, ok |-> FALSE]
      \/ split = [areas |-> both, ok |-> TRUE]
  BY <1>1, <1>3, <1>7 DEF vma_split_range
<1>9. /\ split.areas \in {as, left, both}
      /\ split.ok => split.areas = both
  <2>1. CASE split = [areas |-> as, ok |-> FALSE]
    <3>1. split.areas = as /\ split.ok = FALSE
      BY <2>1
    <3>. QED
      BY <3>1, Zenon
  <2>2. CASE split = [areas |-> left, ok |-> FALSE]
    <3>1. split.areas = left /\ split.ok = FALSE
      BY <2>2
    <3>. QED
      BY <3>1
  <2>3. CASE split = [areas |-> both, ok |-> TRUE]
    BY <2>3
  <2>. QED
    BY <1>8, <2>1, <2>2, <2>3, Zenon
<1>10. AreasOk(split.areas) /\ Keeps(as, split.areas, Nat)
  BY <1>2, <1>4, <1>5, <1>6, <1>9, Zenon
<1>11. split.ok => NoStraddle(split.areas, lo) /\ NoStraddle(split.areas, hi)
  BY <1>4, <1>9
<1>. QED
  BY <1>7, <1>10, <1>11, Zenon

(* The permissions mprotect gives the areas of a range they do not cross.  *)
LEMMA ProtectOk ==
    ASSUME NEW as, AreasOk(as), NEW lo \in Nat, NEW hi \in Nat, NEW perm \in Perms,
           NoStraddle(as, lo), NoStraddle(as, hi), NEW bs,
           bs = Granted(as, lo, hi, perm)
    PROVE  /\ AreasOk(bs)
           /\ Keeps(as, bs, Nat \ (lo .. hi - 1))
           /\ Grants(as, bs, lo, hi, perm)
<1>. DEFINE New(a) == IF range_overlaps(a, lo, hi) THEN [a EXCEPT !.perm = perm] ELSE a
<1>1. bs = {New(a) : a \in as}
  BY DEF Granted
<1>2. ASSUME NEW a \in as
      PROVE  /\ Proper(a) /\ Proper(New(a)) /\ New(a).start = a.start /\ New(a).end = a.end
             /\ New(a).perm = IF range_overlaps(a, lo, hi) THEN perm ELSE a.perm
  <2>1. Proper(a)
    BY AreaBounds, Zenon
  <2>2. /\ New(a) \in Areas /\ New(a).start = a.start /\ New(a).end = a.end
        /\ New(a).perm = IF range_overlaps(a, lo, hi) THEN perm ELSE a.perm
    BY <2>1 DEF Proper, Areas
  <2>. HIDE DEF New
  <2>. QED
    BY <2>1, <2>2 DEF Proper
<1>. HIDE DEF New
<1>3. AreasOk(bs)
  <2>1. \A b \in bs : b \in Areas /\ RangeOk(b.start, b.end)
    BY <1>1, <1>2, ProperRange, Zenon DEF Proper
  <2>2. ASSUME NEW b \in bs, NEW c \in bs, b # c
        PROVE  ~range_overlaps(b, c.start, c.end)
    <3>1. PICK a \in as : b = New(a)
      BY <1>1, Zenon
    <3>2. PICK d \in as : c = New(d)
      BY <1>1, Zenon
    <3>3. ~range_overlaps(a, d.start, d.end)
      BY <2>2, <3>1, <3>2, Zenon DEF AreasOk
    <3>4. b.start = a.start /\ b.end = a.end /\ c.start = d.start /\ c.end = d.end
      BY <1>2, <3>1, <3>2, Zenon
    <3>. QED
      BY <3>3, <3>4 DEF range_overlaps
  <2>. QED
    BY <2>1, <2>2, Zenon DEF AreasOk
<1>4. ASSUME NEW va \in Nat, NEW a \in find(as, va)
      PROVE  \E b \in find(bs, va) : b.perm = IF va \in lo .. hi - 1 THEN perm ELSE a.perm
  <2>1. a \in as /\ a.start <= va /\ va < a.end
    BY Zenon DEF find
  <2>2. PICK b : b = New(a)
    OBVIOUS
  <2>3. /\ b \in bs /\ b.start = a.start /\ b.end = a.end
        /\ b.perm = IF range_overlaps(a, lo, hi) THEN perm ELSE a.perm
    BY <1>1, <1>2, <2>1, <2>2, Zenon
  <2>4. b \in find(bs, va)
    BY <2>1, <2>3, Zenon DEF find
  <2>5. ~(a.start < lo /\ lo < a.end) /\ ~(a.start < hi /\ hi < a.end) /\ Proper(a)
    BY <1>2, <2>1, Zenon DEF NoStraddle
  <2>6. range_overlaps(a, lo, hi) <=> va \in lo .. hi - 1
    BY <2>1, <2>5 DEF range_overlaps, Proper
  <2>. QED
    BY <2>3, <2>4, <2>6, Zenon
<1>5. Keeps(as, bs, Nat \ (lo .. hi - 1))
  BY <1>4, UserRange, Zenon DEF Keeps
<1>6. Grants(as, bs, lo, hi, perm)
  <2>1. \A va \in lo .. hi - 1 : va \in Nat
    OBVIOUS
  <2>. QED
    BY <1>4, <2>1, Zenon DEF Grants
<1>. QED
  BY <1>3, <1>5, <1>6

(* A bounded set of numbers that is not empty has a greatest.              *)
LEMMA MaxIsGreatest ==
    ASSUME NEW S \in SUBSET Nat, S # {}, NEW n \in Nat, \A x \in S : x <= n
    PROVE  Max(S) \in S /\ \A y \in S : y <= Max(S)
<1>. DEFINE T == {n - x : x \in S}
<1>0. PICK z : z \in S
  OBVIOUS
<1>1. T \in SUBSET Nat /\ T # {}
  <2>1. \A x \in S : n - x \in Nat
    OBVIOUS
  <2>2. n - z \in T
    BY <1>0
  <2>. QED
    BY <2>1, <2>2
<1>2. PICK t \in T : \A u \in T : t <= u
  BY <1>1, LeastNatural, Zenon
<1>3. PICK x \in S : t = n - x
  OBVIOUS
<1>4. \A y \in S : n - y \in T
  OBVIOUS
<1>. HIDE DEF T
<1>5. \A y \in S : x >= y
  BY <1>2, <1>3, <1>4
<1>6. Max(S) \in S /\ \A y \in S : Max(S) >= y
  BY <1>5, Zenon DEF Max
<1>. QED
  BY <1>6

(* vma_try_merge_neighbors keeps the areas well formed and what they       *)
(* grant: the merged area is the new one with its neighbours, no more.     *)
LEMMA MergeOk ==
    ASSUME NEW as, AreasOk(as), NEW vma \in as
    PROVE  AreasOk(vma_try_merge_neighbors(as, vma)) /\ Keeps(as, vma_try_merge_neighbors(as, vma), Nat)
<1>. DEFINE near == {a \in as : /\ a.perm = vma.perm
                                /\ a.end = vma.start \/ a.start = vma.end} \union {vma}
            starts == {a.start : a \in near}
            ends == {a.end : a \in near}
<1>1. PICK bs : bs = vma_try_merge_neighbors(as, vma)
  BY Zenon
<1>2. bs = (as \ near) \union {Area(Min(starts), Max(ends), vma.perm)}
  BY <1>1 DEF vma_try_merge_neighbors
<1>3. \A a \in as : Proper(a)
  BY AreaBounds, Zenon
<1>4. /\ vma \in near /\ near \subseteq as
      /\ \A a \in near : a.perm = vma.perm /\ (a = vma \/ a.end = vma.start \/ a.start = vma.end)
  BY Zenon
<1>. HIDE DEF near
<1>5. PICK l \in near : l.start = Min(starts) /\ \A a \in near : l.start <= a.start
  <2>1. starts \in SUBSET Nat /\ starts # {}
    BY <1>3, <1>4, Zenon DEF Proper
  <2>2. Min(starts) \in starts /\ \A x \in starts : Min(starts) <= x
    BY <2>1, MinIsLeast, Zenon
  <2>. QED
    BY <2>2, Zenon
<1>6. PICK r \in near : r.end = Max(ends) /\ \A a \in near : a.end <= r.end
  <2>1. ends \in SUBSET Nat /\ ends # {} /\ \A x \in ends : x <= UserVaLimit
    BY <1>3, <1>4, Zenon DEF Proper
  <2>2. Max(ends) \in ends /\ \A x \in ends : x <= Max(ends)
    BY <2>1, LimitType, MaxIsGreatest, Zenon
  <2>. QED
    BY <2>2, Zenon
<1>7. Proper(l) /\ Proper(r) /\ Proper(vma)
  BY <1>3, <1>4, <1>5, <1>6, Zenon
<1>8. /\ l.start <= vma.start /\ (l = vma \/ l.end = vma.start)
      /\ vma.end <= r.end /\ (r = vma \/ r.start = vma.end)
  <2>1. l.start <= vma.start /\ vma.end <= r.end
    BY <1>4, <1>5, <1>6
  <2>2. /\ l = vma \/ l.end = vma.start \/ l.start = vma.end
        /\ r = vma \/ r.end = vma.start \/ r.start = vma.end
    BY <1>4, <1>5, <1>6
  <2>. QED
    BY <1>7, <2>1, <2>2 DEF Proper
<1>9. PICK m \in Areas : /\ m = Area(l.start, r.end, vma.perm)
                         /\ m.start = l.start /\ m.end = r.end /\ m.perm = vma.perm
  BY <1>7, AreaFields DEF Proper
<1>10. bs = (as \ near) \union {m}
  BY <1>2, <1>5, <1>6, <1>9
<1>11. Proper(m)
  BY <1>7, <1>8, <1>9, LimitType DEF Proper
<1>12. ASSUME NEW c \in as \ near
       PROVE  ~range_overlaps(c, m.start, m.end) /\ ~range_overlaps(m, c.start, c.end)
  <2>1. Proper(c)
    BY <1>3, Zenon
  <2>2. /\ ~range_overlaps(c, l.start, l.end) /\ ~range_overlaps(c, r.start, r.end)
        /\ ~range_overlaps(c, vma.start, vma.end)
    BY <1>4, Zenon DEF AreasOk
  <2>3. ~(m.start < c.end /\ c.start < m.end)
    BY <1>7, <1>8, <1>9, <2>1, <2>2 DEF range_overlaps, Proper
  <2>. QED
    BY <2>3 DEF range_overlaps
<1>13. AreasOk(bs)
  <2>1. \A b \in bs : b \in Areas /\ RangeOk(b.start, b.end)
    BY <1>3, <1>10, <1>11, ProperRange, Zenon DEF Proper
  <2>2. \A b, c \in as : b # c => ~range_overlaps(b, c.start, c.end)
    BY Zenon DEF AreasOk
  <2>3. \A b, c \in bs : b # c => ~range_overlaps(b, c.start, c.end)
    BY <1>10, <1>12, <2>2, Zenon
  <2>. QED
    BY <2>1, <2>3 DEF AreasOk
<1>14. Keeps(as, bs, Nat)
  <2>1. SUFFICES ASSUME NEW va \in Nat, NEW a \in find(as, va)
                 PROVE  \E b \in find(bs, va) : b.perm = a.perm
    BY Zenon DEF Keeps
  <2>2. va \in Nat /\ a \in as /\ a.start <= va /\ va < a.end /\ Proper(a)
    BY <1>3, UserRange, Zenon DEF find
  <2>3. CASE a \notin near
    BY <1>10, <2>2, <2>3, Zenon DEF find
  <2>4. CASE a \in near
    <3>1. m.start <= a.start /\ a.end <= m.end /\ m.perm = a.perm
      BY <1>4, <1>5, <1>6, <1>9, <2>4
    <3>2. m.start <= va /\ va < m.end
      BY <1>11, <2>2, <3>1 DEF Proper
    <3>. QED
      BY <1>10, <3>1, <3>2, Zenon DEF find
  <2>. QED
    BY <2>3, <2>4
<1>. QED
  BY <1>1, <1>13, <1>14

(* A new area that overlaps none joins them.                               *)
LEMMA AddOk ==
    ASSUME NEW as, AreasOk(as), NEW vma, Proper(vma), ~vma_overlaps(as, vma.start, vma.end)
    PROVE  AreasOk(as \union {vma}) /\ Keeps(as, as \union {vma}, Nat)
<1>1. \A a \in as : Proper(a)
  BY AreaBounds, Zenon
<1>2. ASSUME NEW a \in as
      PROVE  ~range_overlaps(a, vma.start, vma.end) /\ ~range_overlaps(vma, a.start, a.end)
  <2>1. ~range_overlaps(a, vma.start, vma.end)
    BY Zenon DEF vma_overlaps
  <2>. QED
    BY <1>1, <2>1 DEF range_overlaps, Proper
<1>3. AreasOk(as \union {vma})
  <2>1. \A b \in as \union {vma} : b \in Areas /\ RangeOk(b.start, b.end)
    BY <1>1, ProperRange, Zenon DEF Proper
  <2>2. \A b, c \in as : b # c => ~range_overlaps(b, c.start, c.end)
    BY Zenon DEF AreasOk
  <2>3. \A b, c \in as \union {vma} : b # c => ~range_overlaps(b, c.start, c.end)
    BY <1>2, <2>2, Zenon
  <2>. QED
    BY <2>1, <2>3, Zenon DEF AreasOk
<1>4. Keeps(as, as \union {vma}, Nat)
  BY Zenon DEF Keeps, find
<1>. QED
  BY <1>3, <1>4

(* The cursor of mm_find_free_va passes no free range: a free range below  *)
(* which there is none begins at the base or where an area ends.           *)
LEMMA LowestGap ==
    ASSUME NEW as, AreasOk(as), NEW len \in Nat, len >= 1
    PROVE  mm_find_free_va(as, len) = IF FreeAt(as, len) = {} THEN 0 ELSE Min(FreeAt(as, len))
<1>. DEFINE free == {va \in Va : va + len <= UserVaLimit /\ ~vma_overlaps(as, va, va + len)}
            cursors == {kUserVaBase} \union {a.end : a \in as}
            fits == {c \in cursors : /\ c + len <= UserVaLimit
                                     /\ \A a \in as : a.end <= c \/ c + len <= a.start}
<1>. SUFFICES mm_find_free_va(as, len) = IF free = {} THEN 0 ELSE Min(free)
  BY DEF FreeAt
<1>1. \A a \in as : Proper(a)
  BY AreaBounds, Zenon
<1>2. \A c \in cursors : c \in Nat /\ 1 <= c
  <2>1. ASSUME NEW a \in as
        PROVE  a.end \in Nat /\ 1 <= a.end
    <3>1. Proper(a)
      BY <1>1, Zenon
    <3>. QED
      BY <3>1 DEF Proper
  <2>2. \A c \in cursors : c = 1 \/ \E a \in as : c = a.end
    BY Zenon DEF kUserVaBase
  <2>. HIDE DEF cursors
  <2>3. ASSUME NEW c \in cursors
        PROVE  c \in Nat /\ 1 <= c
    <3>1. CASE c = 1
      BY <3>1
    <3>2. CASE c # 1
      <4>1. PICK a \in as : c = a.end
        BY <2>2, <3>2, Zenon
      <4>. QED
        BY <2>1, <4>1, Zenon
    <3>. QED
      BY <3>1, <3>2
  <2>. QED
    BY <2>3
<1>3. ASSUME NEW c \in Nat
      PROVE  vma_overlaps(as, c, c + len) <=> ~(\A a \in as : a.end <= c \/ c + len <= a.start)
  <2>1. ASSUME NEW a \in as
        PROVE  range_overlaps(a, c, c + len) <=> ~(a.end <= c \/ c + len <= a.start)
    <3>1. a.start \in Nat /\ a.end \in Nat
      BY <1>1, Zenon DEF Proper
    <3>. QED
      BY <3>1 DEF range_overlaps
  <2>. QED
    BY <2>1, Zenon DEF vma_overlaps
<1>4. fits = free \intersect cursors
  <2>1. ASSUME NEW c \in cursors
        PROVE  c \in fits <=> c \in free
    <3>1. c \in Nat /\ 1 <= c
      BY <1>2, Zenon
    <3>2. c + len <= UserVaLimit => c \in Va
      BY <3>1, LimitType, UserRange
    <3>. HIDE DEF cursors
    <3>. QED
      BY <1>3, <3>1, <3>2, Zenon
  <2>. HIDE DEF free
  <2>. QED
    BY <2>1, Zenon
<1>5. CASE free = {}
  BY <1>4, <1>5, Zenon DEF mm_find_free_va
<1>6. CASE free # {}
  <2>1. free \in SUBSET Nat
    BY UserRange, Zenon
  <2>2. PICK v : v = Min(free)
    BY Zenon
  <2>3. v \in free /\ \A y \in free : v <= y
    BY <1>6, <2>1, <2>2, MinIsLeast, Zenon
  <2>4. v \in cursors
    <3>1. v \in Nat /\ 1 <= v /\ v < UserVaLimit /\ v + len <= UserVaLimit
      BY <2>3, UserRange
    <3>2. \A a \in as : a.end <= v \/ v + len <= a.start
      BY <1>3, <2>3, <3>1, Zenon
    <3>3. CASE v = 1
      BY <3>3 DEF kUserVaBase
    <3>4. CASE v # 1
      <4>1. v - 1 \in Nat /\ v - 1 \in Va /\ v - 1 + len <= UserVaLimit
        BY <3>1, <3>4, LimitType, UserRange
      <4>2. v - 1 \notin free
        <5>. HIDE DEF free
        <5>1. v - 1 \in free => v <= v - 1
          BY <2>3
        <5>. QED
          BY <3>1, <5>1
      <4>3. PICK a \in as : ~(a.end <= v - 1 \/ v - 1 + len <= a.start)
        BY <1>3, <4>1, <4>2, Zenon
      <4>4. a.end \in Nat /\ a.start \in Nat /\ (a.end <= v \/ v + len <= a.start)
        BY <1>1, <3>2, Zenon DEF Proper
      <4>5. a.end = v
        BY <3>1, <4>3, <4>4
      <4>. QED
        BY <4>5, Zenon
    <3>. QED
      BY <3>3, <3>4, Zenon
  <2>. HIDE DEF free, cursors
  <2>5. v \in fits /\ \A y \in fits : v <= y
    BY <1>4, <2>3, <2>4, Zenon
  <2>6. fits \in SUBSET Nat /\ fits # {}
    BY <1>4, <2>1, <2>5, Zenon
  <2>7. Min(fits) \in fits /\ \A y \in fits : Min(fits) <= y
    BY <2>6, MinIsLeast, Zenon
  <2>8. Min(fits) = v
    <3>1. PICK w : w = Min(fits)
      BY Zenon
    <3>. HIDE DEF fits
    <3>2. w \in Nat /\ v \in Nat /\ w <= v /\ v <= w
      BY <2>5, <2>6, <2>7, <3>1, Zenon
    <3>. QED
      BY <3>1, <3>2
  <2>9. mm_find_free_va(as, len) = IF fits = {} THEN 0 ELSE Min(fits)
    BY DEF mm_find_free_va, fits, cursors
  <2>. QED
    BY <1>6, <2>2, <2>6, <2>8, <2>9, Zenon DEF free
<1>. QED
  BY <1>5, <1>6, Zenon

(* What mm_find_free_va answers is a page number.                          *)
LEMMA GapIsPage ==
    ASSUME NEW as, AreasOk(as), NEW len \in Nat, len >= 1
    PROVE  mm_find_free_va(as, len) \in Nat
<1>1. PICK free : free = FreeAt(as, len)
  BY Zenon
<1>2. mm_find_free_va(as, len) = IF free = {} THEN 0 ELSE Min(free)
  BY <1>1, LowestGap, Zenon
<1>3. free \in SUBSET Nat
  BY <1>1, UserRange, Zenon DEF FreeAt
<1>4. free # {} => Min(free) \in Nat
  BY <1>3, MinIsLeast, Zenon
<1>. QED
  BY <1>2, <1>4

-----------------------------------------------------------------------------
(* Counting the entries that map a frame.                                  *)

(* The slots of a page table are finitely many.                            *)
LEMMA PagesFinite ==
    ASSUME NEW D \in SUBSET Slots
    PROVE  IsFiniteSet(D) /\ Cardinality(D) \in Nat
<1>1. IsFiniteSet(Slots)
  <2>1. 0 \in Int /\ Span - 1 \in Int
    BY VmAssumption
  <2>. QED
    BY <2>1, FS_Interval DEF Slots
<1>. QED
  BY <1>1, FS_Subset, FS_CardinalityType

(* A frame's entries are finitely many.                                    *)
LEMMA UsersFinite ==
    ASSUME NEW sp, NEW f
    PROVE  IsFiniteSet(InUse(sp, f)) /\ Cardinality(InUse(sp, f)) \in Nat
<1>1. IsFiniteSet(Slots) /\ IsFiniteSet(VmSpaces)
  BY PagesFinite, VmAssumption
<1>2. IsFiniteSet(VmSpaces \X Slots)
  BY <1>1, FS_Product
<1>3. InUse(sp, f) \in SUBSET (VmSpaces \X Slots)
  BY DEF InUse
<1>. QED
  BY <1>2, <1>3, FS_Subset, FS_CardinalityType

(* Pages D of one space count as many entries as pages.                    *)
LEMMA RowCount ==
    ASSUME NEW s, NEW D \in SUBSET Slots
    PROVE  IsFiniteSet({s} \X D) /\ Cardinality({s} \X D) = Cardinality(D)
<1>1. IsFiniteSet({s}) /\ Cardinality({s}) = 1
  BY FS_Singleton, Zenon
<1>2. IsFiniteSet(D) /\ Cardinality(D) \in Nat
  BY PagesFinite
<1>3. IsFiniteSet({s} \X D) /\ Cardinality({s} \X D) = Cardinality({s}) * Cardinality(D)
  BY <1>1, <1>2, FS_Product
<1>. QED
  BY <1>1, <1>2, <1>3

(* The count without the entries of pages D of space s.                    *)
LEMMA UsersLess ==
    ASSUME NEW S, IsFiniteSet(S), NEW s, NEW D \in SUBSET Slots, {s} \X D \subseteq S
    PROVE  Cardinality(S \ ({s} \X D)) = Cardinality(S) - Cardinality(D)
<1>1. PICK T : T = {s} \X D
  BY Zenon
<1>2. Cardinality(T) = Cardinality(D) /\ S \intersect T = T
  BY <1>1, RowCount, Zenon
<1>3. Cardinality(S \ T) = Cardinality(S) - Cardinality(S \intersect T)
  BY FS_Difference, Zenon
<1>. QED
  BY <1>1, <1>2, <1>3

(* The count with the entries of pages D of space s added.                 *)
LEMMA UsersMore ==
    ASSUME NEW S, IsFiniteSet(S), NEW s, NEW D \in SUBSET Slots, \A x \in S : x \notin {s} \X D
    PROVE  Cardinality(S \union ({s} \X D)) = Cardinality(S) + Cardinality(D)
<1>1. PICK T : T = {s} \X D
  BY Zenon
<1>2. IsFiniteSet(T) /\ Cardinality(T) = Cardinality(D) /\ S \intersect T = {}
  BY <1>1, RowCount, Zenon
<1>3. Cardinality(S \union T) = Cardinality(S) + Cardinality(T) - Cardinality(S \intersect T)
  BY <1>2, FS_Union
<1>4. Cardinality({}) = 0 /\ Cardinality(S) \in Nat /\ Cardinality(D) \in Nat
  BY FS_EmptySet, FS_CardinalityType, PagesFinite
<1>5. Cardinality(S \union T) = Cardinality(S) + Cardinality(D) - 0
  BY <1>2, <1>3, <1>4, Zenon
<1>. QED
  BY <1>1, <1>4, <1>5

(* Which pairs are entries of a frame.                                     *)
LEMMA InUseAt ==
    ASSUME NEW sp, NEW f
    PROVE  /\ InUse(sp, f) \subseteq VmSpaces \X Slots
           /\ \A u \in VmSpaces, va \in Slots : <<u, va>> \in InUse(sp, f) <=> Maps(sp[u], va, f)
  BY DEF InUse

(* Sets of pairs are equal when they have the same pairs.                  *)
LEMMA SamePairs ==
    ASSUME NEW A, NEW B, NEW S, NEW T, S \subseteq A \X B, T \subseteq A \X B,
           \A a \in A, b \in B : <<a, b>> \in S <=> <<a, b>> \in T
    PROVE  S = T
  OBVIOUS

(* Pages D of space s are mapped no more, the rest as before.              *)
LEMMA EntriesLess ==
    ASSUME NEW sp, NEW sq, NEW f, NEW s \in VmSpaces, NEW D \in SUBSET Slots, Drops(sp, sq, f, s, D)
    PROVE  Cardinality(InUse(sq, f)) = Cardinality(InUse(sp, f)) - Cardinality(D)
<1>1. PICK R : R = {s} \X D
  BY Zenon
<1>2. /\ R \subseteq VmSpaces \X Slots
      /\ \A u, va : <<u, va>> \in R <=> u = s /\ va \in D
  BY <1>1
<1>3. R \subseteq InUse(sp, f)
  <2>1. \A va \in D : <<s, va>> \in InUse(sp, f)
    BY InUseAt DEF Drops
  <2>. QED
    BY <1>1, <2>1
<1>4. InUse(sq, f) = InUse(sp, f) \ R
  <2>1. PICK S : S = InUse(sp, f) \ R
    BY Zenon
  <2>2. S \subseteq VmSpaces \X Slots /\ InUse(sq, f) \subseteq VmSpaces \X Slots
    BY <2>1, InUseAt
  <2>3. \A u \in VmSpaces, va \in Slots : <<u, va>> \in InUse(sq, f) <=> <<u, va>> \in S
    BY <1>2, <2>1, InUseAt, Zenon DEF Drops
  <2>. QED
    BY <2>1, <2>2, <2>3, SamePairs
<1>5. Cardinality(InUse(sp, f) \ R) = Cardinality(InUse(sp, f)) - Cardinality(D)
  <2>1. IsFiniteSet(InUse(sp, f))
    BY UsersFinite
  <2>. QED
    BY <1>1, <1>3, <2>1, UsersLess, Zenon
<1>. QED
  BY <1>4, <1>5

(* Pages D of space s are mapped too.                                      *)
LEMMA EntriesMore ==
    ASSUME NEW sp, NEW sq, NEW f, NEW s \in VmSpaces, NEW D \in SUBSET Slots, Gains(sp, sq, f, s, D)
    PROVE  Cardinality(InUse(sq, f)) = Cardinality(InUse(sp, f)) + Cardinality(D)
<1>1. PICK R : R = {s} \X D
  BY Zenon
<1>2. /\ R \subseteq VmSpaces \X Slots
      /\ \A u, va : <<u, va>> \in R <=> u = s /\ va \in D
  BY <1>1
<1>3. \A x \in InUse(sp, f) : x \notin R
  <2>1. \A va \in D : <<s, va>> \notin InUse(sp, f)
    BY InUseAt DEF Gains
  <2>. QED
    BY <1>1, <2>1
<1>4. InUse(sq, f) = InUse(sp, f) \union R
  <2>1. PICK S : S = InUse(sp, f) \union R
    BY Zenon
  <2>2. S \subseteq VmSpaces \X Slots /\ InUse(sq, f) \subseteq VmSpaces \X Slots
    BY <1>2, <2>1, InUseAt
  <2>3. \A u \in VmSpaces, va \in Slots : <<u, va>> \in InUse(sq, f) <=> <<u, va>> \in S
    BY <1>2, <2>1, InUseAt, Zenon DEF Gains
  <2>. QED
    BY <2>1, <2>2, <2>3, SamePairs
<1>5. Cardinality(InUse(sp, f) \union R) = Cardinality(InUse(sp, f)) + Cardinality(D)
  <2>1. IsFiniteSet(InUse(sp, f))
    BY UsersFinite
  <2>. QED
    BY <1>1, <1>3, <2>1, UsersMore, Zenon
<1>. QED
  BY <1>4, <1>5

-----------------------------------------------------------------------------
(* One space.                                                              *)

(* The fields of a space.                                                  *)
LEMMA SpaceFields ==
    ASSUME NEW m \in Spaces
    PROVE  /\ m.areas \in SUBSET Areas /\ m.pte \in [Slots -> Entries \union {NoPage}]
           /\ m.brk_start \in Nat /\ m.brk_end \in Nat
  BY DEF Spaces

(* A space with other areas.                                               *)
LEMMA NewAreas ==
    ASSUME NEW m \in Spaces, NEW as \in SUBSET Areas, NEW n, n = [m EXCEPT !.areas = as]
    PROVE  /\ n \in Spaces /\ n.areas = as /\ n.pte = m.pte
           /\ n.brk_start = m.brk_start /\ n.brk_end = m.brk_end
  BY Zenon DEF Spaces

(* A space with another page table.                                        *)
LEMMA NewTable ==
    ASSUME NEW m \in Spaces, NEW t \in [Slots -> Entries \union {NoPage}], NEW n, n = [m EXCEPT !.pte = t]
    PROVE  /\ n \in Spaces /\ n.areas = m.areas /\ n.pte = t
           /\ n.brk_start = m.brk_start /\ n.brk_end = m.brk_end
  BY DEF Spaces

(* An entry stays right when its area still grants what it did.            *)
LEMMA PageKept ==
    ASSUME NEW e, NEW as, NEW bs, NEW vas, NEW va \in vas, PageOk(e, as, va), Keeps(as, bs, vas)
    PROVE  PageOk(e, bs, va)
<1>1. SUFFICES ASSUME e # NoPage
               PROVE  \E b \in find(bs, va) :
                         b.perm # {} /\ e.perm = b.perm \ (IF e.cow THEN {"W"} ELSE {})
  BY DEF PageOk
<1>2. PICK a \in find(as, va) : a.perm # {} /\ e.perm = a.perm \ (IF e.cow THEN {"W"} ELSE {})
  BY <1>1, Zenon DEF PageOk
<1>3. PICK b \in find(bs, va) : b.perm = a.perm
  BY Zenon DEF Keeps
<1>. QED
  BY <1>2, <1>3

(* Below Span a page number is its slot.                                   *)
LEMMA SlotIs ==
    ASSUME NEW k \in Slots
    PROVE  k \in Nat /\ k < Span /\ vpn(k) = k
<1>1. Span \in Nat /\ k \in Nat /\ k < Span
  BY VmAssumption DEF Slots
<1>. QED
  BY <1>1 DEF vpn

(* The pages of areas that a table can hold are slots of their own.        *)
LEMMA ToldPage ==
    ASSUME NEW m, AreasOk(m.areas), Told(m), NEW va \in Nat, NEW a \in find(m.areas, va)
    PROVE  /\ va \in Slots /\ va \in Va /\ vpn(va) = va /\ a.perm \in Perms
           /\ "W" \in a.perm => "R" \in a.perm
<1>1. a \in m.areas /\ a.start <= va /\ va < a.end
  BY Zenon DEF find
<1>2. Proper(a) /\ a.end <= Span /\ ("W" \in a.perm => "R" \in a.perm)
  BY <1>1, AreaBounds, Zenon DEF Told
<1>3. 1 <= va /\ va < UserVaLimit /\ va < Span
  BY <1>1, <1>2, LimitType, VmAssumption DEF Proper
<1>4. va \in Slots
  BY <1>3, VmAssumption DEF Slots
<1>5. va \in Va /\ vpn(va) = va
  BY <1>3, <1>4, UserRange, SlotIs
<1>. QED
  BY <1>2, <1>4, <1>5, Zenon DEF Proper

(* lookup sees every entry of a space whose areas its table can hold.      *)
LEMMA LookupIs ==
    ASSUME NEW m, SpaceOk(m), Told(m), NEW k \in Slots
    PROVE  /\ lookup(m.pte, k) <=> m.pte[k] # NoPage
           /\ m.pte[k] # NoPage => k \in Va /\ find(m.areas, k) # {}
<1>1. k \in Nat /\ vpn(k) = k
  BY SlotIs
<1>2. ASSUME m.pte[k] # NoPage
      PROVE  m.pte[k].perm # {} /\ k \in Va /\ find(m.areas, k) # {}
  <2>1. PICK e : e = m.pte[k]
    OBVIOUS
  <2>2. PICK a \in find(m.areas, k) : a.perm # {} /\ e.perm = a.perm \ (IF e.cow THEN {"W"} ELSE {})
    BY <1>2, <2>1, Zenon DEF SpaceOk, PageOk
  <2>3. AreasOk(m.areas)
    BY Zenon DEF SpaceOk
  <2>4. k \in Va /\ ("W" \in a.perm => "R" \in a.perm)
    BY <1>1, <2>2, <2>3, ToldPage, Zenon
  <2>5. e.perm # {}
    BY <2>2, <2>4
  <2>. QED
    BY <2>1, <2>2, <2>4, <2>5
<1>. QED
  BY <1>1, <1>2 DEF lookup

(* The pages a call finds from lo to hi are all that are mapped there.     *)
LEMMA PagesAre ==
    ASSUME NEW m, SpaceOk(m), Told(m), NEW lo \in Nat, NEW hi \in Nat, NEW k
    PROVE  k \in Pages(m, lo, hi) <=> k \in Slots /\ k \in lo .. hi - 1 /\ m.pte[k] # NoPage
<1>1. AreasOk(m.areas) /\ \A va \in lo .. hi - 1 : va \in Nat
  BY DEF SpaceOk
<1>2. \A va \in lo .. hi - 1 : find(m.areas, va) # {} => va \in Slots /\ vpn(va) = va
  BY <1>1, ToldPage, Zenon
<1>3. PICK C : C = {va \in lo .. hi - 1 : find(m.areas, va) # {}}
  OBVIOUS
<1>4. k \in SlotsOf(C) <=> k \in C
  BY <1>2, <1>3 DEF SlotsOf
<1>5. k \in Pages(m, lo, hi) <=> k \in C /\ lookup(m.pte, k)
  BY <1>3, <1>4, Zenon DEF Pages
<1>. QED
  BY <1>2, <1>3, <1>5, LookupIs

(* What clearing a range does to the table and to the counts.              *)
LEMMA ClearedIs ==
    ASSUME NEW m, SpaceOk(m), Told(m), NEW lo \in Nat, NEW hi \in Nat
    PROVE  Cleared(m, lo, hi) = Emptied(m.pte, lo, hi) /\ Decref(m, lo, hi) = Returned(m.pte, lo, hi)
<1>1. PICK P : P = Pages(m, lo, hi)
  OBVIOUS
<1>2. \A k : k \in P <=> k \in Slots /\ k \in lo .. hi - 1 /\ m.pte[k] # NoPage
  BY <1>1, PagesAre
<1>3. Cleared(m, lo, hi) = [k \in Slots |-> IF k \in P THEN NoPage ELSE m.pte[k]]
  BY <1>1 DEF Cleared
<1>4. \A k \in Slots : (IF k \in P THEN NoPage ELSE m.pte[k]) = IF k \in lo .. hi - 1 THEN NoPage ELSE m.pte[k]
  BY <1>2
<1>5. Cleared(m, lo, hi) = Emptied(m.pte, lo, hi)
  BY <1>3, <1>4 DEF Emptied
<1>6. Decref(m, lo, hi) = [f \in VmFrames |-> refs[f] - Cardinality({k \in P : m.pte[k].frame = f})]
  BY <1>1 DEF Decref
<1>7. \A f : {k \in P : m.pte[k].frame = f}
               = {k \in Slots : k \in lo .. hi - 1 /\ m.pte[k] # NoPage /\ m.pte[k].frame = f}
  BY <1>2, Zenon
<1>. QED
  BY <1>5, <1>6, <1>7 DEF Returned

(* The entries of a table without a range.                                 *)
LEMMA ClearedEntries ==
    ASSUME NEW t \in [Slots -> Entries \union {NoPage}], NEW lo, NEW hi
    PROVE  /\ Emptied(t, lo, hi) \in [Slots -> Entries \union {NoPage}]
           /\ \A va \in Slots : Emptied(t, lo, hi)[va] = IF va \in lo .. hi - 1 THEN NoPage ELSE t[va]
  BY DEF Emptied

(* vmm_unmap_user leaves the space in order also when the hole needs       *)
(* memory that is not there; when it succeeds no area is left in the range.*)
LEMMA UnmapOk ==
    ASSUME NEW m, SpaceOk(m), Told(m), NEW lo \in Nat, NEW hi \in Nat, lo < hi, NEW mem,
           NEW u, u = vmm_unmap_user(m, lo, hi, mem)
    PROVE  /\ SpaceOk(u.m) /\ u.m.pte = Emptied(m.pte, lo, hi)
           /\ u.m.brk_start = m.brk_start /\ u.m.brk_end = m.brk_end
           /\ u.ok => \A va \in lo .. hi - 1 : find(u.m.areas, va) = {}
<1>1. m \in Spaces /\ AreasOk(m.areas) /\ m.pte \in [Slots -> Entries \union {NoPage}]
  BY SpaceFields DEF SpaceOk
<1>2. PICK ok : ok = (~(\E a \in m.areas : a.start < lo /\ hi < a.end) \/ "hole" \in mem)
  OBVIOUS
<1>3. PICK as : as = IF ok THEN Without(m.areas, lo, hi) ELSE m.areas
  OBVIOUS
<1>4. PICK t : t = Cleared(m, lo, hi) /\ t = Emptied(m.pte, lo, hi)
  BY ClearedIs, Zenon
<1>5. PICK n : n = [m EXCEPT !.areas = as, !.pte = t]
  OBVIOUS
<1>6. u = [m |-> n, ok |-> ok]
  BY <1>2, <1>3, <1>4, <1>5, Zenon DEF vmm_unmap_user
<1>7. u.m = n /\ u.ok = ok
  BY <1>6
<1>8. AreasOk(as) /\ Keeps(m.areas, as, Nat \ (lo .. hi - 1))
  <2>1. CASE ok
    BY <1>1, <1>3, <2>1, WithoutOk
  <2>2. CASE ~ok
    BY <1>1, <1>3, <2>2 DEF Keeps
  <2>. QED
    BY <2>1, <2>2, Zenon
<1>9. \A va \in Slots : t[va] = IF va \in lo .. hi - 1 THEN NoPage ELSE m.pte[va]
  BY <1>1, <1>4, ClearedEntries
<1>10. as \in SUBSET Areas /\ t \in [Slots -> Entries \union {NoPage}]
  <2>1. as \in SUBSET Areas
    BY <1>8, Zenon DEF AreasOk
  <2>2. t \in [Slots -> Entries \union {NoPage}]
    BY <1>1, <1>4, ClearedEntries
  <2>. QED
    BY <2>1, <2>2, Zenon
<1>11. /\ n \in Spaces /\ n.areas = as /\ n.pte = t
       /\ n.brk_start = m.brk_start /\ n.brk_end = m.brk_end
  BY <1>1, <1>5, <1>10, Zenon DEF Spaces
<1>12. ASSUME NEW va \in Slots
       PROVE  PageOk(t[va], as, va)
  <2>1. CASE va \in lo .. hi - 1
    BY <1>9, <2>1 DEF PageOk
  <2>2. CASE va \notin lo .. hi - 1
    <3>1. t[va] = m.pte[va] /\ PageOk(m.pte[va], m.areas, va)
      BY <1>9, <2>2 DEF SpaceOk
    <3>2. PICK vas : vas = Nat \ (lo .. hi - 1)
      BY Zenon
    <3>3. va \in vas /\ Keeps(m.areas, as, vas)
      BY <1>8, <2>2, <3>2, SlotIs, Zenon
    <3>. QED
      BY <3>1, <3>3, PageKept, Zenon
  <2>. QED
    BY <2>1, <2>2, Zenon
<1>13. SpaceOk(n)
  BY <1>8, <1>11, <1>12, Zenon DEF SpaceOk
<1>14. ok => \A va \in lo .. hi - 1 : find(as, va) = {}
  BY <1>1, <1>3, WithoutOk, Zenon
<1>. QED
  BY <1>4, <1>7, <1>11, <1>13, <1>14, Zenon

(* vmm_map_user leaves the space in order whether it succeeds or not; when *)
(* it succeeds the whole range has areas.                                  *)
LEMMA MapOk ==
    ASSUME NEW m, SpaceOk(m), NEW lo \in Nat, NEW hi \in Nat, NEW perm \in Perms, NEW mem,
           NEW u, u = vmm_map_user(m, lo, hi, perm, mem)
    PROVE  /\ SpaceOk(u.m) /\ u.m.pte = m.pte
           /\ u.m.brk_start = m.brk_start /\ u.m.brk_end = m.brk_end
           /\ u.ok => hi <= UserVaLimit /\ vma_range_covered(u.m.areas, lo, hi)
<1>1. m \in Spaces /\ AreasOk(m.areas) /\ m.pte \in [Slots -> Entries \union {NoPage}]
  BY SpaceFields DEF SpaceOk
<1>2. PICK vma \in Areas : vma = Area(lo, hi, perm) /\ vma.start = lo /\ vma.end = hi /\ vma.perm = perm
  BY AreaFields
<1>3. CASE ~RangeOk(lo, hi) \/ mem = {} \/ vma_overlaps(m.areas, lo, hi)
  <2>1. u = [m |-> m, ok |-> FALSE]
    BY <1>3 DEF vmm_map_user
  <2>2. u.m = m /\ u.ok = FALSE
    BY <2>1
  <2>. QED
    BY <2>2
<1>4. CASE ~(~RangeOk(lo, hi) \/ mem = {} \/ vma_overlaps(m.areas, lo, hi))
  <2>1. 1 <= lo /\ lo < hi /\ hi <= UserVaLimit /\ Proper(vma)
    BY <1>2, <1>4 DEF RangeOk, kUserVaBase, Proper
  <2>2. PICK bs : bs = m.areas \union {vma}
    BY Zenon
  <2>3. AreasOk(bs) /\ Keeps(m.areas, bs, Nat) /\ vma \in bs
    BY <1>1, <1>2, <1>4, <2>1, <2>2, AddOk
  <2>4. PICK cs : cs = vma_try_merge_neighbors(bs, vma)
    OBVIOUS
  <2>5. AreasOk(cs) /\ Keeps(bs, cs, Nat)
    BY <2>3, <2>4, MergeOk
  <2>6. PICK n : n = [m EXCEPT !.areas = cs]
    BY Zenon
  <2>7. u = [m |-> n, ok |-> TRUE]
    BY <1>2, <1>4, <2>2, <2>4, <2>6 DEF vmm_map_user
  <2>8. u.m = n
    BY <2>7
  <2>9. /\ n \in Spaces /\ n.areas = cs /\ n.pte = m.pte
        /\ n.brk_start = m.brk_start /\ n.brk_end = m.brk_end
    <3>1. cs \in SUBSET Areas
      BY <2>5, Zenon DEF AreasOk
    <3>. QED
      BY <1>1, <2>6, <3>1, NewAreas, Zenon
  <2>10. Keeps(m.areas, cs, Nat)
    BY <2>3, <2>5, KeepsTwice, Zenon
  <2>11. \A va \in Slots : PageOk(m.pte[va], cs, va)
    BY <2>10, SlotIs, PageKept, Zenon DEF SpaceOk
  <2>12. SpaceOk(n)
    BY <2>5, <2>9, <2>11 DEF SpaceOk
  <2>13. ASSUME NEW va \in lo .. hi - 1
         PROVE  find(cs, va) # {}
    <3>1. va \in Nat /\ 1 <= va /\ va < UserVaLimit /\ lo <= va /\ va < hi
      BY <2>1, LimitType
    <3>2. va \in Va /\ vma \in find(bs, va)
      BY <1>2, <2>3, <3>1, UserRange DEF find
    <3>. QED
      BY <2>5, <3>2 DEF Keeps
  <2>14. vma_range_covered(cs, lo, hi)
    BY <2>13 DEF vma_range_covered
  <2>. QED
    BY <2>1, <2>8, <2>9, <2>12, <2>14
<1>. QED
  BY <1>3, <1>4

(* page_align_up rounds up: to a page at least, and not below a page       *)
(* boundary that its argument reaches.                                     *)
LEMMA AlignUp ==
    ASSUME NEW b \in Nat, b > 0
    PROVE  /\ page_align_up(b) \in Nat /\ page_align_up(b) >= 1
           /\ \A k \in Nat : b >= k * BrkPage => page_align_up(b) >= k
<1>1. BrkPage \in Nat /\ BrkPage > 0
  BY VmAssumption
<1>2. PICK q : q = page_align_up(b)
  OBVIOUS
<1>3. q \in Int /\ q * BrkPage <= b + BrkPage - 1 /\ b + BrkPage - 1 < (q + 1) * BrkPage
  BY <1>1, <1>2 DEF page_align_up
<1>4. q >= 1
  BY <1>1, <1>3
<1>5. ASSUME NEW k \in Nat, b >= k * BrkPage
      PROVE  q >= k
  <2>1. k * BrkPage < (q + 1) * BrkPage
    BY <1>1, <1>3, <1>5
  <2>. QED
    BY <1>1, <1>3, <2>1
<1>. QED
  BY <1>2, <1>3, <1>4, <1>5

-----------------------------------------------------------------------------
(* The system calls that change areas and drop pages.                      *)

(* A heap whose end does not move has nothing to follow.                   *)
LEMMA BrkStays ==
    ASSUME NEW m, NEW n, m.brk_end \in Nat, n.brk_end = m.brk_end
    PROVE  BrkTracks(m, n)
<1>1. m.brk_end .. m.brk_end - 1 = {}
  OBVIOUS
<1>. QED
  BY <1>1 DEF BrkTracks, vma_range_covered

(* The range of a call that passed its checks holds pages of the space.    *)
LEMMA RangePages ==
    ASSUME NEW lo \in Nat, NEW hi \in Nat, RangeOk(lo, hi)
    PROVE  lo < hi /\ lo .. hi - 1 \subseteq Va
  BY LimitType, UserRange DEF RangeOk, kUserVaBase

(* A living space is in order.                                             *)
LEMMA AliveOk ==
    ASSUME VmInv, NEW s \in Alive
    PROVE  /\ s \in VmSpaces /\ space[s] # NoPage /\ SpaceOk(space[s]) /\ space[s] \in Spaces
           /\ AreasOk(space[s].areas) /\ space[s].pte \in [Slots -> Entries \union {NoPage}]
           /\ space[s].brk_start \in Nat /\ space[s].brk_end \in Nat
<1>1. s \in VmSpaces /\ space[s] # NoPage /\ SpaceOk(space[s])
  BY DEF VmInv, Alive
<1>2. space[s] \in Spaces /\ AreasOk(space[s].areas)
  BY <1>1 DEF SpaceOk
<1>. QED
  BY <1>1, <1>2, SpaceFields

(* Nor has it strayed while none has.                                      *)
LEMMA AliveTold ==
    ASSUME ~Strayed, NEW s \in Alive
    PROVE  Told(space[s])
  BY Zenon DEF Strayed

(* A call that leaves the page table alone drops no page.                  *)
LEMMA SameTableTrims ==
    ASSUME VmInv, NEW s \in Alive, NEW n, SpaceOk(n), n.pte = space[s].pte, BrkTracks(space[s], n),
           space' = [space EXCEPT ![s] = n], refs' = refs, lost' = lost
    PROVE  Trims(s)
<1>1. PICK t \in [Slots -> Entries \union {NoPage}] : t = space[s].pte
  BY AliveOk
<1>2. 1 .. 1 - 1 = {}
  OBVIOUS
<1>3. Emptied(t, 1, 1) = t
  BY <1>2 DEF Emptied
<1>4. Returned(t, 1, 1) = refs
  <2>1. refs \in [VmFrames -> Nat]
    BY DEF VmInv, VmTypeOK
  <2>2. ASSUME NEW f \in VmFrames
        PROVE  refs[f] - Cardinality({k \in Slots : k \in 1 .. 1 - 1 /\ t[k] # NoPage /\ t[k].frame = f}) = refs[f]
    <3>1. {k \in Slots : k \in 1 .. 1 - 1 /\ t[k] # NoPage /\ t[k].frame = f} = {}
      BY <1>2
    <3>2. refs[f] \in Nat /\ Cardinality({}) = 0
      BY <2>1, FS_EmptySet
    <3>. QED
      BY <3>1, <3>2
  <2>. QED
    BY <2>1, <2>2 DEF Returned
<1>5. TrimTo(s, n, 1, 1)
  BY <1>1, <1>2, <1>3, <1>4 DEF TrimTo
<1>. QED
  BY <1>5 DEF Trims

(* munmap.                                                                 *)
LEMMA MunmapTrims ==
    ASSUME VmInv, ~Strayed, NEW s \in Alive, NEW lo \in Nat, NEW hi \in Nat, NEW mem, sys_munmap(s, lo, hi, mem)
    PROVE  Trims(s)
<1>1. PICK u : u = vmm_unmap_user(space[s], lo, hi, mem)
  OBVIOUS
<1>2. /\ RangeOk(lo, hi) /\ space' = [space EXCEPT ![s] = u.m]
      /\ refs' = Decref(space[s], lo, hi) /\ lost' = lost
  BY <1>1 DEF sys_munmap
<1>3. SpaceOk(u.m) /\ u.m.pte = Emptied(space[s].pte, lo, hi) /\ u.m.brk_end = space[s].brk_end
  BY <1>1, <1>2, AliveOk, AliveTold, RangePages, UnmapOk
<1>4. BrkTracks(space[s], u.m)
  BY <1>3, AliveOk, BrkStays
<1>5. refs' = Returned(space[s].pte, lo, hi)
  BY <1>2, AliveOk, AliveTold, ClearedIs
<1>6. TrimTo(s, u.m, lo, hi)
  BY <1>2, <1>3, <1>4, <1>5 DEF TrimTo
<1>. QED
  BY <1>6 DEF Trims

(* mmap, at a fixed address, at a hint or anywhere.                        *)
LEMMA MmapTrims ==
    ASSUME VmInv, ~Strayed, NEW s \in Alive, NEW addr \in Nat, NEW len \in Nat, len >= 1, NEW perm \in Perms,
           NEW fixed \in BOOLEAN, NEW mem, sys_mmap(s, addr, len, perm, fixed, mem)
    PROVE  Trims(s)
<1>1. PICK m : m = space[s]
  OBVIOUS
<1>2. SpaceOk(m) /\ Told(m) /\ m.brk_end \in Nat /\ AreasOk(m.areas)
  BY <1>1, AliveOk, AliveTold
<1>3. PICK va : va = IF addr = 0 THEN mm_find_free_va(m.areas, len) ELSE addr
  OBVIOUS
<1>4. PICK other : other = mm_find_free_va(m.areas, len)
  OBVIOUS
<1>5. va \in Nat /\ other \in Nat /\ va + len \in Nat /\ other + len \in Nat
  <2>1. other \in Nat
    BY <1>2, <1>4, GapIsPage
  <2>. QED
    BY <1>3, <1>4, <2>1
<1>6. PICK first : first = IF fixed THEN vmm_unmap_user(m, va, va + len, mem) ELSE [m |-> m, ok |-> TRUE]
  BY Zenon
<1>7. PICK second : second = vmm_map_user(first.m, va, va + len, perm, mem \ {"hole", "again"})
  OBVIOUS
<1>8. PICK third : third = vmm_map_user(m, other, other + len, perm, mem \ {"hole", "area"})
  OBVIOUS
<1>9. PICK n : n = IF ~first.ok THEN first.m
                   ELSE IF second.ok \/ fixed \/ addr = 0 \/ other = 0 THEN second.m ELSE third.m
  OBVIOUS
<1>10. /\ fixed => RangeOk(va, va + len)
       /\ refs' = IF fixed THEN Decref(m, va, va + len) ELSE refs
       /\ space' = [space EXCEPT ![s] = n] /\ lost' = lost
  BY <1>1, <1>3, <1>4, <1>6, <1>7, <1>8, <1>9 DEF sys_mmap
<1>11. CASE fixed
  <2>1. RangeOk(va, va + len) /\ va < va + len
    BY <1>5, <1>10, <1>11, RangePages
  <2>2. SpaceOk(first.m) /\ first.m.pte = Emptied(m.pte, va, va + len) /\ first.m.brk_end = m.brk_end
    BY <1>2, <1>5, <1>6, <1>11, <2>1, UnmapOk
  <2>3. SpaceOk(second.m) /\ second.m.pte = first.m.pte /\ second.m.brk_end = first.m.brk_end
    BY <1>5, <1>7, <2>2, MapOk
  <2>4. n \in {first.m, second.m}
    BY <1>9, <1>11
  <2>5. SpaceOk(n) /\ n.pte = Emptied(m.pte, va, va + len) /\ n.brk_end = m.brk_end
    BY <2>2, <2>3, <2>4
  <2>6. BrkTracks(m, n)
    BY <1>2, <2>5, BrkStays
  <2>7. TrimTo(s, n, va, va + len)
    <3>1. /\ refs' = Returned(space[s].pte, va, va + len) /\ lost' = lost
          /\ space' = [space EXCEPT ![s] = n]
      BY <1>1, <1>2, <1>5, <1>10, <1>11, ClearedIs
    <3>2. SpaceOk(n) /\ n.pte = Emptied(space[s].pte, va, va + len) /\ BrkTracks(space[s], n)
      BY <1>1, <2>5, <2>6
    <3>. QED
      BY <3>1, <3>2 DEF TrimTo
  <2>. QED
    BY <2>7 DEF Trims
<1>12. CASE ~fixed
  <2>1. first.m = m
    BY <1>6, <1>12
  <2>2. SpaceOk(second.m) /\ second.m.pte = m.pte /\ second.m.brk_end = m.brk_end
    <3>1. second = vmm_map_user(m, va, va + len, perm, mem \ {"hole", "again"})
      BY <1>7, <2>1
    <3>. QED
      BY <1>2, <1>5, <3>1, MapOk
  <2>3. SpaceOk(third.m) /\ third.m.pte = m.pte /\ third.m.brk_end = m.brk_end
    BY <1>2, <1>5, <1>8, MapOk
  <2>4. n \in {first.m, second.m, third.m}
    BY <1>9
  <2>5. SpaceOk(n) /\ n.pte = m.pte /\ n.brk_end = m.brk_end
    BY <1>2, <2>1, <2>2, <2>3, <2>4
  <2>6. BrkTracks(m, n)
    BY <1>2, <2>5, BrkStays
  <2>. QED
    BY <1>1, <1>10, <1>12, <2>5, <2>6, SameTableTrims, Zenon
<1>. QED
  BY <1>11, <1>12

(* brk: placing the heap, growing it, giving pages back, or failing.       *)
LEMMA BrkTrims ==
    ASSUME VmInv, ~Strayed, NEW s \in Alive, NEW new_brk \in Nat, NEW mem, sys_brk(s, new_brk, mem)
    PROVE  Trims(s)
<1>1. PICK m0 : m0 = space[s]
  OBVIOUS
<1>2. SpaceOk(m0) /\ Told(m0) /\ m0 \in Spaces /\ m0.brk_start \in Nat /\ m0.brk_end \in Nat
  BY <1>1, AliveOk, AliveTold
<1>3. PICK end : end = page_align_up(new_brk)
  OBVIOUS
<1>4. new_brk > 0
  BY DEF sys_brk
<1>5. end \in Nat /\ end >= 1
  BY <1>3, <1>4, AlignUp
<1>6. PICK m : m = BrkPlaced(m0, end)
  OBVIOUS
<1>. DEFINE low == new_brk < m.brk_start * BrkPage
<1>8. PICK n : n = IF low THEN m ELSE BrkMove(m, end, mem)
  OBVIOUS
<1>9. /\ space' = [space EXCEPT ![s] = n] /\ lost' = lost
      /\ refs' = IF ~low /\ end < m.brk_end THEN Decref(m, end, m.brk_end) ELSE refs
  BY <1>1, <1>3, <1>6, <1>8 DEF sys_brk
<1>. HIDE DEF low
<1>10. ASSUME SpaceOk(n), n.pte = m0.pte, BrkTracks(m0, n), low \/ ~(end < m.brk_end)
       PROVE  Trims(s)
  <2>1. refs' = refs
    BY <1>9, <1>10
  <2>. QED
    BY <1>1, <1>9, <1>10, <2>1, SameTableTrims, Zenon
<1>11. CASE m0.brk_start = 0
  <2>1. /\ m \in Spaces /\ m.areas = m0.areas /\ m.pte = m0.pte
        /\ m.brk_start = end /\ m.brk_end = end
    BY <1>2, <1>5, <1>6, <1>11, Zenon DEF BrkPlaced, Spaces
  <2>2. ~(end > m.brk_end) /\ ~(end < m.brk_end) /\ m.brk_start <= m.brk_end /\ ~(m.brk_start < m.brk_end)
    BY <1>5, <2>1
  <2>3. BrkMove(m, end, mem) = m
    BY <2>2 DEF BrkMove
  <2>4. n = m
    BY <1>8, <2>3
  <2>5. SpaceOk(m)
    BY <1>2, <2>1, <2>2 DEF SpaceOk
  <2>6. BrkTracks(m0, n)
    BY <1>11 DEF BrkTracks
  <2>. QED
    BY <1>10, <2>1, <2>2, <2>4, <2>5, <2>6
<1>12. CASE m0.brk_start # 0 /\ low
  <2>1. n = m0
    BY <1>6, <1>8, <1>12 DEF BrkPlaced
  <2>. QED
    BY <1>2, <1>10, <1>12, <2>1, BrkStays
<1>13. CASE m0.brk_start # 0 /\ ~low
  <2>1. m = m0 /\ n = BrkMove(m0, end, mem)
    BY <1>6, <1>8, <1>13 DEF BrkPlaced
  <2>2. m0.brk_start <= end
    <3>1. BrkPage \in Nat
      BY VmAssumption
    <3>2. ~(new_brk < m0.brk_start * BrkPage)
      BY <1>13, <2>1 DEF low
    <3>3. new_brk >= m0.brk_start * BrkPage
      BY <1>2, <3>1, <3>2
    <3>. QED
      BY <1>2, <1>3, <1>4, <1>5, <3>3, AlignUp
  <2>3. m0.brk_start <= m0.brk_end /\ (m0.brk_start < m0.brk_end => m0.brk_end <= UserVaLimit)
    BY <1>2 DEF SpaceOk
  <2>4. CASE end > m0.brk_end
    <3>1. PICK grown : grown = vmm_map_user(m0, m0.brk_end, end, {"R", "W"}, mem \ {"hole"})
      OBVIOUS
    <3>2. n = IF grown.ok THEN [grown.m EXCEPT !.brk_end = end] ELSE m0
      BY <2>1, <2>4, <3>1 DEF BrkMove
    <3>3. /\ SpaceOk(grown.m) /\ grown.m.pte = m0.pte
          /\ grown.m.brk_start = m0.brk_start /\ grown.m.brk_end = m0.brk_end
          /\ grown.ok => end <= UserVaLimit /\ vma_range_covered(grown.m.areas, m0.brk_end, end)
      <4>1. {"R", "W"} \in Perms
        BY DEF Perms
      <4>. QED
        BY <1>2, <1>5, <3>1, <4>1, MapOk
    <3>4. ~(end < m.brk_end)
      BY <1>2, <1>5, <2>1, <2>4
    <3>5. CASE grown.ok
      <4>1. grown.m \in Spaces
        BY <3>3 DEF SpaceOk
      <4>2. /\ n \in Spaces /\ n.areas = grown.m.areas /\ n.pte = m0.pte
            /\ n.brk_start = m0.brk_start /\ n.brk_end = end
        BY <1>2, <1>5, <3>2, <3>3, <3>5, <4>1 DEF Spaces
      <4>3. n.brk_start <= n.brk_end /\ n.brk_end <= UserVaLimit
        BY <1>2, <1>5, <2>2, <3>3, <3>5, <4>2
      <4>4. AreasOk(n.areas) /\ \A va \in Slots : PageOk(n.pte[va], n.areas, va)
        BY <3>3, <4>2 DEF SpaceOk
      <4>5. SpaceOk(n)
        BY <4>2, <4>3, <4>4 DEF SpaceOk
      <4>6. BrkTracks(m0, n)
        <5>1. n.brk_end .. m0.brk_end - 1 = {}
          BY <1>2, <1>5, <2>4, <4>2
        <5>2. vma_range_covered(n.areas, m0.brk_end, n.brk_end)
          BY <3>3, <3>5, <4>2
        <5>. QED
          BY <5>1, <5>2 DEF BrkTracks
      <4>. QED
        BY <1>10, <3>4, <4>2, <4>5, <4>6
    <3>6. CASE ~grown.ok
      <4>1. n = m0
        BY <3>2, <3>6
      <4>. QED
        BY <1>2, <1>10, <3>4, <4>1, BrkStays
    <3>. QED
      BY <3>5, <3>6
  <2>5. CASE end < m0.brk_end
    <3>1. PICK shrunk : shrunk = vmm_unmap_user(m0, end, m0.brk_end, mem)
      OBVIOUS
    <3>2. n = IF shrunk.ok THEN [shrunk.m EXCEPT !.brk_end = end] ELSE shrunk.m
      <4>1. ~(end > m0.brk_end)
        BY <1>2, <1>5, <2>5
      <4>. QED
        BY <2>1, <2>5, <3>1, <4>1 DEF BrkMove
    <3>3. RangeOk(end, m0.brk_end)
      BY <1>2, <1>5, <2>2, <2>3, <2>5, LimitType DEF RangeOk, kUserVaBase
    <3>4. /\ SpaceOk(shrunk.m) /\ shrunk.m.pte = Emptied(m0.pte, end, m0.brk_end)
          /\ shrunk.m.brk_start = m0.brk_start /\ shrunk.m.brk_end = m0.brk_end
          /\ shrunk.ok => \A va \in end .. m0.brk_end - 1 : find(shrunk.m.areas, va) = {}
      <4>1. PICK hi \in Nat : hi = m0.brk_end
        BY <1>2
      <4>2. end \in Nat /\ end < hi /\ SpaceOk(m0) /\ Told(m0) /\ shrunk = vmm_unmap_user(m0, end, hi, mem)
        BY <1>2, <1>5, <2>5, <3>1, <4>1
      <4>3. /\ SpaceOk(shrunk.m) /\ shrunk.m.pte = Emptied(m0.pte, end, hi)
            /\ shrunk.m.brk_start = m0.brk_start /\ shrunk.m.brk_end = m0.brk_end
        BY <4>2, UnmapOk
      <4>4. shrunk.ok => \A va \in end .. hi - 1 : find(shrunk.m.areas, va) = {}
        BY <4>2, UnmapOk, Zenon
      <4>. QED
        BY <4>1, <4>3, <4>4
    <3>5. SpaceOk(n) /\ n.pte = Emptied(m0.pte, end, m0.brk_end) /\ BrkTracks(m0, n)
      <4>1. CASE shrunk.ok
        <5>1. shrunk.m \in Spaces
          BY <3>4 DEF SpaceOk
        <5>2. /\ n \in Spaces /\ n.areas = shrunk.m.areas /\ n.pte = shrunk.m.pte
              /\ n.brk_start = m0.brk_start /\ n.brk_end = end
          BY <1>5, <3>2, <3>4, <4>1, <5>1 DEF Spaces
        <5>3. n.brk_start <= n.brk_end /\ n.brk_end <= UserVaLimit
          BY <1>2, <1>5, <2>2, <2>3, <2>5, <5>2, LimitType
        <5>4. AreasOk(n.areas) /\ \A va \in Slots : PageOk(n.pte[va], n.areas, va)
          BY <3>4, <5>2 DEF SpaceOk
        <5>5. SpaceOk(n)
          BY <5>2, <5>3, <5>4 DEF SpaceOk
        <5>6. BrkTracks(m0, n)
          <6>1. m0.brk_end .. n.brk_end - 1 = {}
            BY <1>2, <1>5, <2>5, <5>2
          <6>2. \A va \in n.brk_end .. m0.brk_end - 1 : find(n.areas, va) = {}
            BY <3>4, <4>1, <5>2
          <6>. QED
            BY <6>1, <6>2 DEF BrkTracks, vma_range_covered
        <5>. QED
          BY <3>4, <5>2, <5>5, <5>6
      <4>2. CASE ~shrunk.ok
        BY <1>2, <3>2, <3>4, <4>2, BrkStays
      <4>. QED
        BY <4>1, <4>2
    <3>6. refs' = Returned(space[s].pte, end, m0.brk_end)
      BY <1>1, <1>2, <1>5, <1>9, <1>13, <2>1, <2>5, ClearedIs
    <3>7. TrimTo(s, n, end, m0.brk_end)
      BY <1>1, <1>9, <3>5, <3>6 DEF TrimTo
    <3>. QED
      BY <3>7 DEF Trims
  <2>6. CASE ~(end > m0.brk_end) /\ ~(end < m0.brk_end)
    <3>1. n = m0
      BY <2>1, <2>6 DEF BrkMove
    <3>. QED
      BY <1>2, <1>10, <2>1, <2>6, <3>1, BrkStays
  <2>. QED
    BY <2>4, <2>5, <2>6
<1>. QED
  BY <1>11, <1>12, <1>13

(* protect's new entry maps the same frame, and grants what the area does  *)
(* now, less the write on a page that stays copy-on-write.                 *)
LEMMA NewLeafOk ==
    ASSUME NEW e \in Entries, NEW perm \in Perms, NEW n, n = NewLeaf(e, perm)
    PROVE  /\ n \in Entries /\ n.frame = e.frame
           /\ n.perm = perm \ (IF n.cow THEN {"W"} ELSE {})
           /\ "W" \in n.perm => "W" \in perm /\ ~e.cow
<1>1. e.frame \in VmFrames /\ e.cow \in BOOLEAN
  BY DEF Entries
<1>2. perm \ {"W"} \in Perms
  BY DEF Perms
<1>3. CASE "W" \in perm /\ e.cow
  <2>1. n = [frame |-> e.frame, perm |-> perm \ {"W"}, cow |-> TRUE]
    BY <1>3 DEF NewLeaf, CowLeaf
  <2>2. n.frame = e.frame /\ n.perm = perm \ {"W"} /\ n.cow = TRUE
    BY <2>1
  <2>3. n \in Entries
    BY <1>1, <1>2, <2>1 DEF Entries
  <2>. QED
    BY <2>2, <2>3
<1>4. CASE ~("W" \in perm /\ e.cow)
  <2>1. n = [frame |-> e.frame, perm |-> perm, cow |-> FALSE]
    BY <1>4 DEF NewLeaf, Leaf
  <2>2. n.frame = e.frame /\ n.perm = perm /\ n.cow = FALSE
    BY <2>1
  <2>3. n \in Entries
    BY <1>1, <2>1 DEF Entries
  <2>. QED
    BY <1>4, <2>2, <2>3
<1>. QED
  BY <1>3, <1>4

(* mprotect: the split that fails, the pages dropped, the pages relabelled.*)
LEMMA MprotectShape ==
    ASSUME VmInv, ~Strayed, NEW s \in Alive, NEW lo \in Nat, NEW hi \in Nat, NEW perm \in Perms, NEW mem,
           sys_mprotect(s, lo, hi, perm, mem)
    PROVE  Trims(s) \/ Relabels(s)
<1>1. PICK m : m = space[s]
  OBVIOUS
<1>2. /\ SpaceOk(m) /\ Told(m) /\ m \in Spaces /\ AreasOk(m.areas) /\ m.brk_end \in Nat
      /\ m.pte \in [Slots -> Entries \union {NoPage}]
  BY <1>1, AliveOk, AliveTold
<1>3. PICK protected : protected = vmm_protect_user(m, lo, hi, perm, mem)
  OBVIOUS
<1>4. /\ RangeOk(lo, hi) /\ space' = [space EXCEPT ![s] = protected.m] /\ lost' = lost
      /\ refs' = IF protected.ok /\ perm = {} THEN Decref(m, lo, hi) ELSE refs
  BY <1>1, <1>3 DEF sys_mprotect
<1>5. PICK split : split = vma_split_range(m.areas, lo, hi, mem)
  OBVIOUS
<1>6. /\ AreasOk(split.areas) /\ Keeps(m.areas, split.areas, Nat)
      /\ split.ok => NoStraddle(split.areas, lo) /\ NoStraddle(split.areas, hi)
  BY <1>2, <1>5, SplitRangeOk
<1>7. CASE ~split.ok
  <2>1. PICK n : n = [m EXCEPT !.areas = split.areas]
    BY Zenon
  <2>2. protected = [m |-> n, ok |-> FALSE]
    BY <1>3, <1>5, <1>7, <2>1 DEF vmm_protect_user
  <2>3. protected.m = n /\ protected.ok = FALSE
    BY <2>2
  <2>4. /\ n \in Spaces /\ n.areas = split.areas /\ n.pte = m.pte
        /\ n.brk_start = m.brk_start /\ n.brk_end = m.brk_end
    BY <1>2, <1>6, <2>1, NewAreas DEF AreasOk
  <2>5. \A va \in Slots : PageOk(m.pte[va], split.areas, va)
    BY <1>2, <1>6, SlotIs, PageKept, Zenon DEF SpaceOk
  <2>6. SpaceOk(n)
    BY <1>2, <1>6, <2>4, <2>5 DEF SpaceOk
  <2>7. BrkTracks(m, n)
    BY <1>2, <2>4, BrkStays
  <2>8. refs' = refs
    BY <1>4, <2>3
  <2>. QED
    BY <1>1, <1>4, <2>3, <2>4, <2>6, <2>7, <2>8, SameTableTrims, Zenon
<1>8. CASE split.ok
  <2>1. PICK as : as = Granted(split.areas, lo, hi, perm)
    OBVIOUS
  <2>2. /\ AreasOk(as) /\ Keeps(split.areas, as, Nat \ (lo .. hi - 1))
        /\ Grants(split.areas, as, lo, hi, perm)
    <3>1. AreasOk(split.areas) /\ NoStraddle(split.areas, lo) /\ NoStraddle(split.areas, hi)
      BY <1>6, <1>8
    <3>. QED
      BY <2>1, <3>1, ProtectOk
  <2>3. PICK t : t = IF perm = {} THEN Cleared(m, lo, hi)
                     ELSE [k \in Slots |-> IF k \in Pages(m, lo, hi)
                                           THEN NewLeaf(m.pte[k], perm) ELSE m.pte[k]]
    BY Zenon
  <2>4. PICK n : n = [m EXCEPT !.areas = as, !.pte = t]
    OBVIOUS
  <2>5. protected = [m |-> n, ok |-> TRUE]
    BY <1>2, <1>3, <1>5, <1>8, <2>1, <2>3, <2>4 DEF vmm_protect_user, Granted, Spaces
  <2>6. protected.m = n /\ protected.ok = TRUE
    BY <2>5
  <2>7. \A va \in Slots : t[va] = IF va \in lo .. hi - 1 /\ m.pte[va] # NoPage
                                  THEN (IF perm = {} THEN NoPage ELSE NewLeaf(m.pte[va], perm)) ELSE m.pte[va]
    <3>1. CASE perm = {}
      <4>1. t = Emptied(m.pte, lo, hi)
        BY <1>2, <2>3, <3>1, ClearedIs
      <4>2. \A va \in Slots : t[va] = IF va \in lo .. hi - 1 THEN NoPage ELSE m.pte[va]
        BY <1>2, <4>1, ClearedEntries
      <4>. QED
        BY <3>1, <4>2
    <3>2. CASE perm # {}
      <4>1. PICK P : P = Pages(m, lo, hi)
        OBVIOUS
      <4>2. \A k \in Slots : k \in P <=> k \in lo .. hi - 1 /\ m.pte[k] # NoPage
        BY <1>2, <4>1, PagesAre
      <4>3. t = [k \in Slots |-> IF k \in P THEN NewLeaf(m.pte[k], perm) ELSE m.pte[k]]
        BY <2>3, <3>2, <4>1
      <4>. QED
        BY <3>2, <4>2, <4>3
    <3>. QED
      BY <3>1, <3>2
  <2>8. ASSUME NEW va \in Slots
        PROVE  t[va] \in Entries \union {NoPage} /\ PageOk(t[va], as, va)
    <3>1. m.pte[va] \in Entries \union {NoPage} /\ PageOk(m.pte[va], m.areas, va)
      BY <1>2 DEF SpaceOk
    <3>2. PageOk(m.pte[va], split.areas, va)
      BY <1>6, <3>1, SlotIs, PageKept
    <3>4. CASE va \notin lo .. hi - 1
      <4>1. t[va] = m.pte[va]
        BY <2>7, <3>4
      <4>2. PICK vas : vas = Nat \ (lo .. hi - 1)
        BY Zenon
      <4>3. va \in vas /\ Keeps(split.areas, as, vas)
        BY <2>2, <3>4, <4>2, SlotIs, Zenon
      <4>4. PageOk(m.pte[va], as, va)
        BY <3>2, <4>3, PageKept, Zenon
      <4>. QED
        BY <3>1, <4>1, <4>4
    <3>5. CASE va \in lo .. hi - 1 /\ (perm = {} \/ m.pte[va] = NoPage)
      <4>1. t[va] = NoPage
        BY <2>7, <3>5
      <4>. QED
        BY <4>1 DEF PageOk
    <3>6. CASE va \in lo .. hi - 1 /\ perm # {} /\ m.pte[va] # NoPage
      <4>1. t[va] = NewLeaf(m.pte[va], perm) /\ m.pte[va] \in Entries
        BY <2>7, <3>1, <3>6
      <4>2. t[va] \in Entries /\ t[va].perm = perm \ (IF t[va].cow THEN {"W"} ELSE {})
        BY <3>6, <4>1, NewLeafOk
      <4>3. PICK a : a \in find(split.areas, va)
        BY <3>2, <3>6 DEF PageOk
      <4>4. PICK b \in find(as, va) : b.perm = perm
        BY <2>2, <3>6, <4>3, Zenon DEF Grants
      <4>. QED
        BY <3>6, <4>2, <4>4, Zenon DEF PageOk
    <3>. QED
      BY <3>4, <3>5, <3>6, Zenon
  <2>9. t \in [Slots -> Entries \union {NoPage}]
    <3>1. t = [va \in Slots |-> t[va]]
      BY <2>3 DEF Cleared
    <3>. QED
      BY <2>8, <3>1, Zenon
  <2>10. as \in SUBSET Areas
    BY <2>2, Zenon DEF AreasOk
  <2>11. /\ n \in Spaces /\ n.areas = as /\ n.pte = t
         /\ n.brk_start = m.brk_start /\ n.brk_end = m.brk_end
    BY <1>2, <2>4, <2>9, <2>10, Zenon DEF Spaces
  <2>12. SpaceOk(n)
    BY <1>2, <2>2, <2>8, <2>11, Zenon DEF SpaceOk
  <2>13. BrkTracks(m, n)
    BY <1>2, <2>11, BrkStays
  <2>14. CASE perm = {}
    <3>1. refs' = Returned(space[s].pte, lo, hi) /\ n.pte = Emptied(space[s].pte, lo, hi)
      BY <1>1, <1>2, <1>4, <2>3, <2>6, <2>11, <2>14, ClearedIs
    <3>2. TrimTo(s, n, lo, hi)
      BY <1>1, <1>4, <2>6, <2>12, <2>13, <3>1 DEF TrimTo
    <3>. QED
      BY <3>2 DEF Trims
  <2>15. CASE perm # {}
    <3>1. refs' = refs /\ space' = [space EXCEPT ![s] = n] /\ lost' = lost
      BY <1>4, <2>6, <2>15
    <3>2. RelabelTo(s, n, lo, hi, perm)
      BY <1>1, <2>7, <2>11, <2>12, <2>13, <2>15, <3>1 DEF RelabelTo
    <3>. QED
      BY <3>2 DEF Relabels
  <2>. QED
    BY <2>14, <2>15
<1>. QED
  BY <1>7, <1>8

-----------------------------------------------------------------------------
(* The next state.                                                         *)

(* What a space holds in a slot.                                           *)
LEMMA MapsEntry ==
    ASSUME NEW m \in Spaces, NEW va \in Slots
    PROVE  /\ m # NoPage
           /\ m.pte[va] \in Entries \union {NoPage}
           /\ \A f : Maps(m, va, f) <=> m.pte[va] # NoPage /\ m.pte[va].frame = f
<1>1. m # NoPage
  BY VmAssumption
<1>2. m.pte[va] \in Entries \union {NoPage}
  BY SpaceFields
<1>. QED
  BY <1>1, <1>2 DEF Maps

(* The parts of the invariant make it.                                     *)
LEMMA KeptNext ==
    ASSUME Kept, calls' \in 0 .. MaxCalls
    PROVE  VmInv'
<1>1. ASSUME NEW f \in VmFrames
      PROVE  refs'[f] \in Nat
  <2>1. lost'[f] \in Nat /\ refs'[f] = Cardinality(InUse(space', f)) + lost'[f]
    BY DEF Kept
  <2>2. Cardinality(InUse(space', f)) \in Nat
    BY UsersFinite
  <2>. QED
    BY <2>1, <2>2
<1>2. refs' \in [VmFrames -> Nat]
  BY <1>1 DEF Kept
<1>3. VmTypeOK'
  BY <1>2 DEF Kept, VmTypeOK
<1>4. (\A s \in Alive : SpaceOk(space[s]))'
  BY DEF Kept, Alive
<1>. QED
  BY <1>3, <1>4 DEF Kept, VmInv

(* A step that replaces one space by one in order.                         *)
LEMMA OneSpace ==
    ASSUME VmInv, NEW s \in Alive, NEW n, SpaceOk(n), space' = [space EXCEPT ![s] = n]
    PROVE  /\ space' \in [VmSpaces -> Spaces \union {NoPage}]
           /\ space'[s] = n /\ \A u \in VmSpaces \ {s} : space'[u] = space[u]
           /\ \A u \in VmSpaces : space'[u] # NoPage => SpaceOk(space'[u])
<1>1. space \in [VmSpaces -> Spaces \union {NoPage}] /\ s \in VmSpaces
  BY DEF VmInv, VmTypeOK, Alive
<1>2. n \in Spaces
  BY DEF SpaceOk
<1>3. \A u \in VmSpaces \ {s} : space[u] # NoPage => SpaceOk(space[u])
  BY DEF VmInv, Alive
<1>4. space'[s] = n /\ \A u \in VmSpaces \ {s} : space'[u] = space[u]
  BY <1>1
<1>5. space' \in [VmSpaces -> Spaces \union {NoPage}]
  BY <1>1, <1>2
<1>. QED
  BY <1>3, <1>4, <1>5

(* The invariant, frame by frame.                                          *)
LEMMA RefsNow ==
    ASSUME VmInv, NEW f \in VmFrames
    PROVE  /\ refs[f] = Cardinality(InUse(space, f)) + lost[f]
           /\ refs[f] \in Nat /\ lost[f] \in Nat /\ Cardinality(InUse(space, f)) \in Nat
<1>1. Cardinality(InUse(space, f)) \in Nat
  BY UsersFinite
<1>. QED
  BY <1>1 DEF VmInv, VmTypeOK

(* The pages a call drops give back one reference each.                    *)
LEMMA TrimKeeps ==
    ASSUME VmInv, NEW s \in Alive, Trims(s)
    PROVE  Kept
<1>1. PICK n, lo, hi : TrimTo(s, n, lo, hi)
  BY DEF Trims
<1>2. PICK t : t = space[s].pte
  OBVIOUS
<1>3. /\ SpaceOk(n) /\ n.pte = Emptied(t, lo, hi)
      /\ space' = [space EXCEPT ![s] = n] /\ refs' = Returned(t, lo, hi) /\ lost' = lost
  BY <1>1, <1>2 DEF TrimTo
<1>4. s \in VmSpaces /\ space[s] \in Spaces /\ n \in Spaces /\ t \in [Slots -> Entries \union {NoPage}]
  BY <1>2, <1>3, AliveOk DEF SpaceOk
<1>5. /\ space' \in [VmSpaces -> Spaces \union {NoPage}]
      /\ space'[s] = n /\ \A u \in VmSpaces \ {s} : space'[u] = space[u]
      /\ \A u \in VmSpaces : space'[u] # NoPage => SpaceOk(space'[u])
  BY <1>3, OneSpace, Zenon
<1>6. \A va \in Slots : n.pte[va] = IF va \in lo .. hi - 1 THEN NoPage ELSE t[va]
  BY <1>3, <1>4, ClearedEntries
<1>7. ASSUME NEW f \in VmFrames
      PROVE  refs'[f] \in Int /\ refs'[f] = Cardinality(InUse(space', f)) + lost'[f]
  <2>1. PICK D : D = {k \in Slots : k \in lo .. hi - 1 /\ t[k] # NoPage /\ t[k].frame = f}
    BY Zenon
  <2>2. refs'[f] = refs[f] - Cardinality(D)
    BY <1>3, <2>1 DEF Returned
  <2>3. D \in SUBSET Slots /\ Cardinality(D) \in Nat
    BY <2>1, PagesFinite
  <2>4. ASSUME NEW va \in Slots
        PROVE  va \in D <=> va \in lo .. hi - 1 /\ Maps(space[s], va, f)
    BY <1>2, <1>4, <2>1, MapsEntry DEF Maps
  <2>5. ASSUME NEW u \in VmSpaces, NEW va \in Slots
        PROVE  Maps(space'[u], va, f) <=> Maps(space[u], va, f) /\ ~(u = s /\ va \in D)
    <3>1. CASE u # s
      BY <1>5, <3>1
    <3>2. CASE u = s
      <4>1. Maps(n, va, f) <=> n.pte[va] # NoPage /\ n.pte[va].frame = f
        BY <1>4, MapsEntry
      <4>2. Maps(space[s], va, f) <=> t[va] # NoPage /\ t[va].frame = f
        BY <1>2, <1>4, MapsEntry
      <4>3. n.pte[va] = IF va \in lo .. hi - 1 THEN NoPage ELSE t[va]
        BY <1>6
      <4>. QED
        BY <1>5, <2>4, <3>2, <4>1, <4>2, <4>3
    <3>. QED
      BY <3>1, <3>2
  <2>6. Cardinality(InUse(space', f)) = Cardinality(InUse(space, f)) - Cardinality(D)
    <3>1. Drops(space, space', f, s, D)
      BY <2>3, <2>4, <2>5 DEF Drops
    <3>. QED
      BY <1>4, <2>3, <3>1, EntriesLess
  <2>7. lost'[f] = lost[f]
    BY <1>3
  <2>. QED
    BY <2>2, <2>3, <2>6, <2>7, RefsNow
<1>8. refs' \in [VmFrames -> Int] /\ lost' \in [VmFrames -> Nat]
  <2>1. refs' = [f \in VmFrames |-> refs'[f]]
    BY <1>3 DEF Returned
  <2>2. lost' \in [VmFrames -> Nat]
    BY <1>3 DEF VmInv, VmTypeOK
  <2>. QED
    BY <1>7, <2>1, <2>2
<1>. QED
  BY <1>5, <1>7, <1>8 DEF Kept

(* The same entries count the same.                                        *)
LEMMA EntriesSame ==
    ASSUME NEW sp, NEW sq, NEW f, Same(sp, sq, f)
    PROVE  InUse(sq, f) = InUse(sp, f)
<1>1. InUse(sp, f) \subseteq VmSpaces \X Slots /\ InUse(sq, f) \subseteq VmSpaces \X Slots
  BY InUseAt
<1>2. \A u \in VmSpaces, va \in Slots : <<u, va>> \in InUse(sq, f) <=> <<u, va>> \in InUse(sp, f)
  BY InUseAt, Zenon DEF Same
<1>. QED
  BY <1>1, <1>2, SamePairs

(* mprotect that drops no page moves none.                                 *)
LEMMA RelabelSame ==
    ASSUME VmInv, NEW s \in Alive, NEW n, NEW lo, NEW hi, NEW perm \in Perms, RelabelTo(s, n, lo, hi, perm)
    PROVE  \A f : Same(space, space', f)
<1>1. /\ SpaceOk(n) /\ perm # {} /\ space' = [space EXCEPT ![s] = n]
      /\ \A va \in Slots : n.pte[va] = IF va \in lo .. hi - 1 /\ space[s].pte[va] # NoPage
                                  THEN NewLeaf(space[s].pte[va], perm) ELSE space[s].pte[va]
  BY DEF RelabelTo
<1>2. s \in VmSpaces /\ space[s] \in Spaces /\ n \in Spaces
  BY <1>1, AliveOk DEF SpaceOk
<1>3. space'[s] = n /\ \A u \in VmSpaces \ {s} : space'[u] = space[u]
  BY <1>1, OneSpace, Zenon
<1>4. ASSUME NEW f, NEW va \in Slots
      PROVE  Maps(n, va, f) <=> Maps(space[s], va, f)
  <2>1. PICK e : e = space[s].pte[va]
    OBVIOUS
  <2>2. /\ e \in Entries \union {NoPage}
        /\ Maps(space[s], va, f) <=> e # NoPage /\ e.frame = f
    BY <1>2, <2>1, MapsEntry
  <2>3. Maps(n, va, f) <=> n.pte[va] # NoPage /\ n.pte[va].frame = f
    BY <1>2, MapsEntry
  <2>4. CASE n.pte[va] = e
    BY <2>2, <2>3, <2>4
  <2>5. CASE n.pte[va] # e
    <3>1. n.pte[va] = NewLeaf(e, perm) /\ e \in Entries
      BY <1>1, <2>1, <2>2, <2>5
    <3>2. n.pte[va] \in Entries /\ n.pte[va].frame = e.frame
      BY <1>1, <3>1, NewLeafOk
    <3>3. n.pte[va] # NoPage /\ e # NoPage
      BY <3>1, <3>2, VmAssumption
    <3>. QED
      BY <2>2, <2>3, <3>2, <3>3
  <2>. QED
    BY <2>4, <2>5
<1>5. ASSUME NEW f, NEW u \in VmSpaces, NEW va \in Slots
      PROVE  Maps(space'[u], va, f) <=> Maps(space[u], va, f)
  BY <1>3, <1>4
<1>. QED
  BY <1>5 DEF Same

(* mprotect keeps every count.                                             *)
LEMMA RelabelKeeps ==
    ASSUME VmInv, NEW s \in Alive, Relabels(s)
    PROVE  Kept
<1>1. PICK n, lo, hi : \E perm \in Perms : RelabelTo(s, n, lo, hi, perm)
  BY DEF Relabels
<1>2. PICK perm \in Perms : RelabelTo(s, n, lo, hi, perm)
  BY <1>1
<1>3. SpaceOk(n) /\ space' = [space EXCEPT ![s] = n] /\ refs' = refs /\ lost' = lost
  BY <1>2 DEF RelabelTo
<1>4. /\ space' \in [VmSpaces -> Spaces \union {NoPage}]
      /\ \A u \in VmSpaces : space'[u] # NoPage => SpaceOk(space'[u])
  BY <1>3, OneSpace, Zenon
<1>5. \A f : InUse(space', f) = InUse(space, f)
  BY <1>2, RelabelSame, EntriesSame
<1>6. \A f \in VmFrames : refs'[f] = Cardinality(InUse(space', f)) + lost'[f]
  BY <1>3, <1>5, RefsNow, Zenon
<1>7. refs' \in [VmFrames -> Int] /\ lost' \in [VmFrames -> Nat]
  BY <1>3 DEF VmInv, VmTypeOK
<1>. QED
  BY <1>4, <1>6, <1>7 DEF Kept

(* A page fault that is resolved gives the page a free frame.              *)
LEMMA FaultTakes ==
    ASSUME VmInv, ~Strayed, NEW s \in Alive, NEW page \in Va, NEW cause, vmm_handle_page_fault(s, page, cause)
    PROVE  Takes(s)
<1>1. PICK m : m = space[s]
  OBVIOUS
<1>2. /\ SpaceOk(m) /\ Told(m) /\ m \in Spaces /\ AreasOk(m.areas)
      /\ m.pte \in [Slots -> Entries \union {NoPage}] /\ m.brk_end \in Nat
  BY <1>1, AliveOk, AliveTold
<1>3. PICK a \in find(m.areas, page) : \E new \in FreeFrames :
          /\ vma_allows(a, cause)
          /\ space' = [space EXCEPT ![s].pte[vpn(page)] = Leaf(new, a.perm)]
          /\ \/ lookup(m.pte, page) /\ refs' = CowCopyRefs(m.pte[vpn(page)].frame, new)
             \/ ~lookup(m.pte, page) /\ refs' = [refs EXCEPT ![new] = 1]
  BY <1>1, Zenon DEF vmm_handle_page_fault
<1>0. PICK va \in Slots : va = page /\ vpn(page) = va
  BY <1>2, <1>3, UserRange, ToldPage
<1>4. PICK new \in FreeFrames :
          /\ vma_allows(a, cause)
          /\ space' = [space EXCEPT ![s].pte[va] = Leaf(new, a.perm)]
          /\ \/ lookup(m.pte, va) /\ refs' = CowCopyRefs(m.pte[va].frame, new)
             \/ ~lookup(m.pte, va) /\ refs' = [refs EXCEPT ![new] = 1]
  BY <1>0, <1>3, Zenon
<1>5. lost' = lost
  BY DEF vmm_handle_page_fault
<1>6. PICK e : e = Leaf(new, a.perm)
  OBVIOUS
<1>7. e \in Entries /\ e # NoPage /\ e.frame = new /\ e.perm = a.perm /\ e.cow = FALSE /\ a.perm # {}
  <2>1. a \in Areas /\ new \in VmFrames /\ cause \in a.perm
    BY <1>2, <1>3, <1>4 DEF AreasOk, find, FreeFrames, vma_allows
  <2>2. e \in Entries
    BY <1>6, <2>1 DEF Leaf, Entries, Areas
  <2>. QED
    BY <1>6, <2>1, <2>2, VmAssumption, Zenon DEF Leaf
<1>8. PICK t : t = [m.pte EXCEPT ![va] = e]
  BY Zenon
<1>9. /\ t \in [Slots -> Entries \union {NoPage}] /\ t[va] = e
      /\ \A vb \in Slots \ {va} : t[vb] = m.pte[vb]
  BY <1>2, <1>7, <1>8
<1>10. PICK n : n = [m EXCEPT !.pte = t]
  BY Zenon
<1>11. /\ n \in Spaces /\ n.areas = m.areas /\ n.pte = t
       /\ n.brk_start = m.brk_start /\ n.brk_end = m.brk_end
  BY <1>2, <1>9, <1>10, NewTable
<1>12. space' = [space EXCEPT ![s] = n]
  BY <1>1, <1>4, <1>6, <1>8, <1>10
<1>13. \A vb \in Slots : PageOk(t[vb], m.areas, vb)
  <2>1. PageOk(e, m.areas, va)
    BY <1>0, <1>3, <1>7 DEF PageOk
  <2>2. \A vb \in Slots : PageOk(m.pte[vb], m.areas, vb)
    BY <1>2 DEF SpaceOk
  <2>. QED
    BY <1>9, <2>1, <2>2
<1>14. SpaceOk(n)
  BY <1>2, <1>11, <1>13 DEF SpaceOk
<1>15. BrkTracks(m, n)
  BY <1>2, <1>11, BrkStays
<1>16. refs' = IF m.pte[va] = NoPage THEN [refs EXCEPT ![new] = 1] ELSE CowCopyRefs(m.pte[va].frame, new)
  BY <1>2, <1>4, LookupIs
<1>17. TakesTo(s, va, n, new)
  BY <1>1, <1>5, <1>7, <1>9, <1>11, <1>12, <1>14, <1>15, <1>16 DEF TakesTo
<1>. QED
  BY <1>17 DEF Takes

(* No entry maps a free frame, and no clone lost a reference to it.        *)
LEMMA FreeUnused ==
    ASSUME VmInv, NEW new \in FreeFrames
    PROVE  /\ new \in VmFrames /\ refs[new] = 0 /\ lost[new] = 0 /\ Cardinality(InUse(space, new)) = 0
           /\ \A u \in VmSpaces, va \in Slots : ~Maps(space[u], va, new)
<1>1. new \in VmFrames /\ refs[new] = 0
  BY DEF FreeFrames
<1>2. Cardinality(InUse(space, new)) = 0 /\ lost[new] = 0
  BY <1>1, RefsNow
<1>3. InUse(space, new) = {}
  BY <1>2, UsersFinite, FS_EmptySet
<1>. QED
  BY <1>1, <1>2, <1>3, InUseAt, Zenon

(* The frame a fault takes has one reference; the one it copied from has   *)
(* one less.                                                               *)
LEMMA TakesKeeps ==
    ASSUME VmInv, NEW s \in Alive, Takes(s)
    PROVE  Kept
<1>1. PICK va, n, new : TakesTo(s, va, n, new)
  BY DEF Takes
<1>2. PICK t : t = space[s].pte
  OBVIOUS
<1>3. /\ SpaceOk(n) /\ va \in Slots /\ new \in FreeFrames /\ n.pte[va] # NoPage /\ n.pte[va].frame = new
      /\ \A vb \in Slots \ {va} : n.pte[vb] = t[vb]
      /\ space' = [space EXCEPT ![s] = n] /\ lost' = lost
      /\ refs' = IF t[va] = NoPage THEN [refs EXCEPT ![new] = 1] ELSE CowCopyRefs(t[va].frame, new)
  BY <1>1, <1>2 DEF TakesTo
<1>4. s \in VmSpaces /\ space[s] \in Spaces /\ n \in Spaces /\ t \in [Slots -> Entries \union {NoPage}]
  BY <1>2, <1>3, AliveOk DEF SpaceOk
<1>5. /\ space' \in [VmSpaces -> Spaces \union {NoPage}]
      /\ space'[s] = n /\ \A u \in VmSpaces \ {s} : space'[u] = space[u]
      /\ \A u \in VmSpaces : space'[u] # NoPage => SpaceOk(space'[u])
  BY <1>3, OneSpace, Zenon
<1>6. /\ new \in VmFrames /\ refs[new] = 0 /\ lost[new] = 0 /\ Cardinality(InUse(space, new)) = 0
      /\ \A u \in VmSpaces, vb \in Slots : ~Maps(space[u], vb, new)
  BY <1>3, FreeUnused
<1>7. {va} \in SUBSET Slots /\ Cardinality({va}) = 1
  BY <1>3, FS_Singleton
<1>8. ASSUME NEW f, NEW vb \in Slots
      PROVE  /\ Maps(space[s], vb, f) <=> t[vb] # NoPage /\ t[vb].frame = f
             /\ Maps(n, vb, f) <=> IF vb = va THEN f = new ELSE Maps(space[s], vb, f)
  <2>1. Maps(space[s], vb, f) <=> t[vb] # NoPage /\ t[vb].frame = f
    BY <1>2, <1>4, MapsEntry
  <2>2. Maps(n, vb, f) <=> n.pte[vb] # NoPage /\ n.pte[vb].frame = f
    BY <1>4, MapsEntry
  <2>. QED
    BY <1>3, <2>1, <2>2
<1>9. t[va] # NoPage => t[va].frame \in VmFrames /\ t[va].frame # new
  <2>1. t[va] # NoPage => t[va].frame \in VmFrames
    BY <1>3, <1>4 DEF Entries
  <2>. QED
    BY <1>3, <1>4, <1>6, <1>8, <2>1
<1>10. refs \in [VmFrames -> Nat]
  BY DEF VmInv, VmTypeOK
<1>11. /\ refs' \in [VmFrames -> Int] /\ refs'[new] = 1
       /\ \A f \in VmFrames \ {new} :
             refs'[f] = IF t[va] # NoPage /\ f = t[va].frame THEN refs[f] - 1 ELSE refs[f]
  BY <1>3, <1>6, <1>9, <1>10 DEF CowCopyRefs
<1>12. ASSUME NEW f \in VmFrames
       PROVE  refs'[f] = Cardinality(InUse(space', f)) + lost'[f]
  <2>1. CASE f = new
    <3>1. ASSUME NEW u \in VmSpaces, NEW vb \in Slots
          PROVE  Maps(space'[u], vb, f) <=> Maps(space[u], vb, f) \/ (u = s /\ vb \in {va})
      <4>1. CASE u # s
        BY <1>5, <4>1
      <4>2. CASE u = s
        BY <1>5, <1>6, <1>8, <2>1, <4>2
      <4>. QED
        BY <4>1, <4>2
    <3>2. Gains(space, space', f, s, {va})
      BY <1>3, <1>4, <1>6, <2>1, <3>1 DEF Gains
    <3>3. Cardinality(InUse(space', f)) = Cardinality(InUse(space, f)) + Cardinality({va})
      BY <1>4, <1>7, <3>2, EntriesMore
    <3>. QED
      BY <1>3, <1>6, <1>7, <1>11, <2>1, <3>3
  <2>2. CASE f # new /\ t[va] # NoPage /\ f = t[va].frame
    <3>1. ASSUME NEW u \in VmSpaces, NEW vb \in Slots
          PROVE  Maps(space'[u], vb, f) <=> Maps(space[u], vb, f) /\ ~(u = s /\ vb \in {va})
      <4>1. CASE u # s
        BY <1>5, <4>1
      <4>2. CASE u = s
        BY <1>5, <1>8, <2>2, <4>2
      <4>. QED
        BY <4>1, <4>2
    <3>2. Drops(space, space', f, s, {va})
      BY <1>3, <1>8, <2>2, <3>1 DEF Drops
    <3>3. Cardinality(InUse(space', f)) = Cardinality(InUse(space, f)) - Cardinality({va})
      BY <1>4, <1>7, <3>2, EntriesLess
    <3>4. refs'[f] = refs[f] - 1 /\ lost'[f] = lost[f]
      BY <1>3, <1>11, <2>2
    <3>. QED
      BY <1>7, <3>3, <3>4, RefsNow
  <2>3. CASE f # new /\ ~(t[va] # NoPage /\ f = t[va].frame)
    <3>1. ASSUME NEW u \in VmSpaces, NEW vb \in Slots
          PROVE  Maps(space'[u], vb, f) <=> Maps(space[u], vb, f)
      <4>1. CASE u # s
        BY <1>5, <4>1
      <4>2. CASE u = s
        BY <1>5, <1>8, <2>3, <4>2
      <4>. QED
        BY <4>1, <4>2
    <3>2. Same(space, space', f)
      BY <3>1 DEF Same
    <3>3. InUse(space', f) = InUse(space, f)
      BY <3>2, EntriesSame
    <3>4. refs'[f] = refs[f] /\ lost'[f] = lost[f]
      BY <1>3, <1>11, <2>3
    <3>. QED
      BY <3>3, <3>4, RefsNow
  <2>. QED
    BY <2>1, <2>2, <2>3
<1>13. lost' \in [VmFrames -> Nat]
  BY <1>3 DEF VmInv, VmTypeOK
<1>. QED
  BY <1>5, <1>11, <1>12, <1>13 DEF Kept

-----------------------------------------------------------------------------
(* Fork and exit.                                                          *)

(* Some area around the page is writable.                                  *)
Wr(m, va) == \E a \in find(m.areas, va) : "W" \in a.perm

(* The area of a mapped page, and what its entry grants.                   *)
LEMMA AreaOfPage ==
    ASSUME NEW m, SpaceOk(m), NEW va \in Slots, NEW e, e = m.pte[va], e # NoPage
    PROVE  /\ e \in Entries
           /\ \E a \in find(m.areas, va) : /\ a.perm \in Perms /\ a.perm # {} /\ find(m.areas, va) = {a}
                                           /\ e.perm = a.perm \ (IF e.cow THEN {"W"} ELSE {})
<1>1. e \in Entries /\ AreasOk(m.areas) /\ va \in Nat
  BY SpaceFields, SlotIs DEF SpaceOk
<1>2. PICK a \in find(m.areas, va) : a.perm # {} /\ e.perm = a.perm \ (IF e.cow THEN {"W"} ELSE {})
  BY Zenon DEF SpaceOk, PageOk
<1>3. a.perm \in Perms
  BY <1>1, <1>2, AreaBounds, Zenon DEF Proper, find
<1>4. find(m.areas, va) = {a}
  BY <1>1, <1>2, OneAreaAt
<1>. QED
  BY <1>1, <1>2, <1>3, <1>4

(* e is a copy-on-write entry for frame f, whose area grants p.            *)
CowOf(e, f, p) == e \in Entries /\ e # NoPage /\ e.frame = f /\ e.perm = p \ {"W"} /\ e.cow

(* The copy-on-write form of an entry whose area is writable.              *)
LEMMA CowLeafOk ==
    ASSUME NEW f \in VmFrames, NEW p \in Perms
    PROVE  CowOf(CowLeaf(f, p), f, p)
<1>1. p \ {"W"} \in Perms
  BY DEF Perms
<1>2. PICK e : e = CowLeaf(f, p)
  OBVIOUS
<1>3. e \in Entries
  BY <1>1, <1>2 DEF CowLeaf, Entries
<1>4. e.frame = f /\ e.perm = p \ {"W"} /\ e.cow = TRUE
  BY <1>2 DEF CowLeaf
<1>. QED
  BY <1>2, <1>3, <1>4, VmAssumption DEF CowOf

(* Pages that are slots of their own.                                      *)
LEMMA SlotsOfSlots ==
    ASSUME NEW vas \in SUBSET Slots
    PROVE  SlotsOf(vas) = vas
<1>1. \A va \in vas : vpn(va) = va
  BY SlotIs, Zenon
<1>. QED
  BY <1>1 DEF SlotsOf

(* The parent of a clone that shared pages vas, whether it went to the end *)
(* or not: in order, the same frames, none of vas writable.                *)
LEMMA ParentOk ==
    ASSUME NEW m, SpaceOk(m), NEW vas, \A va \in vas : va \in Slots /\ m.pte[va] # NoPage,
           NEW n, n = [m EXCEPT !.pte = Shares(m, vas).parent]
    PROVE  /\ SpaceOk(n) /\ BrkTracks(m, n)
           /\ Tamer(m, n) /\ NoneWritable(n, vas)
<1>1. m \in Spaces /\ m.pte \in [Slots -> Entries \union {NoPage}] /\ m.brk_end \in Nat
  BY SpaceFields DEF SpaceOk
<1>2. PICK t : t = Shares(m, vas).parent
  OBVIOUS
<1>3. t = [k \in Slots |-> IF k \in vas /\ Wr(m, k) THEN make_cow(m.pte, k)[k] ELSE m.pte[k]]
  <2>1. PICK W : W = {va \in vas : Wr(m, va)}
    OBVIOUS
  <2>2. t = [k \in Slots |-> IF k \in SlotsOf(W) THEN make_cow(m.pte, k)[k] ELSE m.pte[k]]
    BY <1>2, <2>1 DEF Shares, Wr
  <2>3. W \in SUBSET Slots
    BY <2>1
  <2>4. SlotsOf(W) = W
    BY <2>3, SlotsOfSlots
  <2>. QED
    BY <2>1, <2>2, <2>4
<1>4. ASSUME NEW va \in Slots
      PROVE  t[va] = IF va \in vas /\ Wr(m, va) THEN CowLeaf(m.pte[va].frame, m.pte[va].perm) ELSE m.pte[va]
  <2>1. vpn(va) = va
    BY SlotIs
  <2>. QED
    BY <1>1, <1>3, <2>1 DEF make_cow
<1>5. ASSUME NEW va \in Slots
      PROVE  /\ t[va] \in Entries \union {NoPage} /\ PageOk(t[va], m.areas, va)
             /\ t[va] # NoPage <=> m.pte[va] # NoPage
             /\ m.pte[va] # NoPage => /\ t[va].frame = m.pte[va].frame
                                      /\ "W" \in t[va].perm => "W" \in m.pte[va].perm
             /\ va \in vas /\ t[va] # NoPage => "W" \notin t[va].perm
  <2>1. PICK e : e = m.pte[va]
    OBVIOUS
  <2>2. e \in Entries \union {NoPage} /\ PageOk(e, m.areas, va) /\ (va \in vas => e # NoPage)
    BY <1>1, <2>1, MapsEntry DEF SpaceOk
  <2>3. CASE va \in vas /\ Wr(m, va)
    <3>1. PICK a \in find(m.areas, va) : /\ a.perm \in Perms /\ a.perm # {} /\ find(m.areas, va) = {a}
                                         /\ e.perm = a.perm \ (IF e.cow THEN {"W"} ELSE {})
      BY <2>1, <2>2, <2>3, AreaOfPage
    <3>3. e.perm \in Perms /\ e.perm \ {"W"} = a.perm \ {"W"}
      BY <3>1 DEF Perms
    <3>4. e.frame \in VmFrames /\ e # NoPage
      BY <2>2, <2>3 DEF Entries
    <3>5. t[va] = CowLeaf(e.frame, e.perm)
      BY <1>4, <2>1, <2>3
    <3>6. CowOf(t[va], e.frame, e.perm)
      BY <3>3, <3>4, <3>5, CowLeafOk
    <3>7. PageOk(t[va], m.areas, va)
      BY <3>1, <3>3, <3>6 DEF PageOk, CowOf
    <3>. QED
      BY <2>1, <3>4, <3>6, <3>7 DEF CowOf
  <2>4. CASE ~(va \in vas /\ Wr(m, va))
    <3>1. t[va] = e
      BY <1>4, <2>1, <2>4
    <3>2. va \in vas => "W" \notin e.perm
      <4>1. SUFFICES ASSUME va \in vas PROVE "W" \notin e.perm
        OBVIOUS
      <4>2. PICK a \in find(m.areas, va) : e.perm = a.perm \ (IF e.cow THEN {"W"} ELSE {})
        BY <2>1, <2>2, <4>1, AreaOfPage
      <4>3. "W" \notin a.perm
        BY <2>4, <4>1 DEF Wr
      <4>. QED
        BY <4>2, <4>3
    <3>. QED
      BY <2>1, <2>2, <3>1, <3>2
  <2>. QED
    BY <2>3, <2>4
<1>6. t \in [Slots -> Entries \union {NoPage}]
  BY <1>3, <1>5
<1>7. /\ n \in Spaces /\ n.areas = m.areas /\ n.pte = t
      /\ n.brk_start = m.brk_start /\ n.brk_end = m.brk_end
  BY <1>1, <1>2, <1>6, NewTable
<1>8. SpaceOk(n)
  BY <1>5, <1>7 DEF SpaceOk
<1>9. BrkTracks(m, n)
  BY <1>1, <1>7, BrkStays, Zenon
<1>10. Tamer(m, n) /\ NoneWritable(n, vas)
  BY <1>5, <1>7 DEF Tamer, NoneWritable
<1>. QED
  BY <1>8, <1>9, <1>10

(* The pages a complete clone shares are all the mapped ones.              *)
LEMMA AllMapped ==
    ASSUME NEW m, SpaceOk(m), Told(m), NEW as, as \subseteq m.areas
    PROVE  /\ \A va \in MappedIn(m, as) : va \in Slots /\ m.pte[va] # NoPage
           /\ \A k \in Slots : k \in MappedIn(m, m.areas) <=> m.pte[k] # NoPage
<1>1. ASSUME NEW va \in MappedIn(m, as)
      PROVE  va \in Slots /\ m.pte[va] # NoPage
  <2>1. va \in Va /\ lookup(m.pte, va) /\ find(as, va) # {}
    BY DEF MappedIn
  <2>2. PICK a : a \in find(m.areas, va)
    BY <2>1 DEF find
  <2>3. va \in Slots
    BY <2>1, <2>2, UserRange, ToldPage DEF SpaceOk
  <2>. QED
    BY <2>1, <2>3, LookupIs
<1>2. ASSUME NEW k \in Slots
      PROVE  k \in MappedIn(m, m.areas) <=> m.pte[k] # NoPage
  <2>1. lookup(m.pte, k) <=> m.pte[k] # NoPage
    BY LookupIs
  <2>2. m.pte[k] # NoPage => k \in Va /\ find(m.areas, k) # {}
    BY LookupIs
  <2>. QED
    BY <2>1, <2>2 DEF MappedIn
<1>. QED
  BY <1>1, <1>2

(* The child of a complete clone: in order, the parent's frames, nothing   *)
(* writable.                                                               *)
LEMMA ChildOk ==
    ASSUME NEW m, SpaceOk(m), Told(m), NEW vas, vas = MappedIn(m, m.areas),
           NEW n, n = [m EXCEPT !.pte = Shares(m, vas).child]
    PROVE  SpaceOk(n) /\ Tamer(m, n) /\ NoneWritable(n, Slots)
<1>1. m \in Spaces /\ m.pte \in [Slots -> Entries \union {NoPage}] /\ m.brk_end \in Nat
  BY SpaceFields DEF SpaceOk
<1>2. PICK t : t = Shares(m, vas).child
  OBVIOUS
<1>. DEFINE P(va) == (CHOOSE a \in find(m.areas, va) : TRUE).perm
<1>3. vas \in SUBSET Slots /\ \A k \in Slots : k \in vas <=> m.pte[k] # NoPage
  BY AllMapped
<1>4. ASSUME NEW va \in Slots
      PROVE  t[va] = IF m.pte[va] = NoPage THEN NoPage
                     ELSE IF Wr(m, va) THEN CowLeaf(m.pte[va].frame, P(va))
                     ELSE Leaf(m.pte[va].frame, P(va))
  <2>1. PICK page : page = CHOOSE v \in vas : vpn(v) = va
    OBVIOUS
  <2>2. t[va] = IF va \notin SlotsOf(vas) THEN NoPage
                ELSE IF Wr(m, page) THEN CowLeaf(m.pte[va].frame, P(page))
                ELSE Leaf(m.pte[va].frame, P(page))
    BY <1>2, <2>1 DEF Shares, Wr
  <2>. HIDE DEF P
  <2>3. SlotsOf(vas) = vas
    BY <1>3, SlotsOfSlots
  <2>4. \A v \in vas : vpn(v) = v
    BY <1>3, SlotIs
  <2>5. va \in vas => page = va
    BY <2>1, <2>4
  <2>. QED
    BY <1>3, <2>2, <2>3, <2>5
<1>5. ASSUME NEW va \in Slots, m.pte[va] # NoPage
      PROVE  /\ t[va] \in Entries /\ t[va] # NoPage /\ PageOk(t[va], m.areas, va)
             /\ t[va].frame = m.pte[va].frame /\ "W" \notin t[va].perm
  <2>1. PICK e : e = m.pte[va]
    OBVIOUS
  <2>2. e \in Entries /\ e.frame \in VmFrames
    BY <1>5, <2>1, AreaOfPage DEF Entries
  <2>3. PICK a \in find(m.areas, va) : /\ a.perm \in Perms /\ a.perm # {} /\ find(m.areas, va) = {a}
                                       /\ e.perm = a.perm \ (IF e.cow THEN {"W"} ELSE {})
    BY <1>5, <2>1, AreaOfPage
  <2>4. P(va) = a.perm
    BY <2>3
  <2>. HIDE DEF P
  <2>5. Wr(m, va) <=> "W" \in a.perm
    BY <2>3 DEF Wr
  <2>6. CASE "W" \in a.perm
    <3>1. t[va] = CowLeaf(e.frame, a.perm)
      BY <1>4, <1>5, <2>1, <2>4, <2>5, <2>6
    <3>2. CowOf(t[va], e.frame, a.perm)
      BY <2>2, <2>3, <3>1, CowLeafOk
    <3>3. PageOk(t[va], m.areas, va)
      BY <2>3, <3>2 DEF PageOk, CowOf
    <3>. QED
      BY <2>1, <3>2, <3>3 DEF CowOf
  <2>7. CASE "W" \notin a.perm
    <3>1. t[va] = [frame |-> e.frame, perm |-> a.perm, cow |-> FALSE]
      BY <1>4, <1>5, <2>1, <2>4, <2>5, <2>7 DEF Leaf
    <3>2. t[va].frame = e.frame /\ t[va].perm = a.perm /\ t[va].cow = FALSE
      BY <3>1
    <3>4. t[va] \in Entries
      BY <2>2, <2>3, <3>1 DEF Entries
    <3>5. PageOk(t[va], m.areas, va)
      BY <2>3, <3>2 DEF PageOk
    <3>. QED
      BY <2>1, <2>7, <3>2, <3>4, <3>5, VmAssumption
  <2>. QED
    BY <2>6, <2>7
<1>. HIDE DEF P
<1>6. ASSUME NEW va \in Slots, m.pte[va] = NoPage
      PROVE  t[va] = NoPage /\ PageOk(t[va], m.areas, va)
  BY <1>4, <1>6 DEF PageOk
<1>7. t \in [Slots -> Entries \union {NoPage}]
  <2>1. t = [k \in Slots |-> t[k]]
    BY <1>2 DEF Shares
  <2>. QED
    BY <1>5, <1>6, <2>1
<1>8. /\ n \in Spaces /\ n.areas = m.areas /\ n.pte = t
      /\ n.brk_start = m.brk_start /\ n.brk_end = m.brk_end
  BY <1>1, <1>2, <1>7, NewTable
<1>9. SpaceOk(n)
  BY <1>5, <1>6, <1>8 DEF SpaceOk
<1>10. Tamer(m, n) /\ NoneWritable(n, Slots)
  BY <1>5, <1>6, <1>8 DEF Tamer, NoneWritable
<1>. QED
  BY <1>9, <1>10

(* A tamer space maps the same.                                            *)
LEMMA TamerMaps ==
    ASSUME NEW m, NEW n, SpaceOk(m), SpaceOk(n), Tamer(m, n), NEW va \in Slots
    PROVE  /\ \A f : Maps(n, va, f) <=> Maps(m, va, f)
           /\ Writes(n, va) => Writes(m, va)
<1>1. m \in Spaces /\ n \in Spaces
  BY DEF SpaceOk
<1>2. /\ n.pte[va] # NoPage <=> m.pte[va] # NoPage
      /\ m.pte[va] # NoPage => n.pte[va].frame = m.pte[va].frame
      /\ m.pte[va] # NoPage => ("W" \in n.pte[va].perm => "W" \in m.pte[va].perm)
  BY DEF Tamer
<1>3. m # NoPage /\ n # NoPage
  BY <1>1, MapsEntry
<1>4. /\ \A f : Maps(m, va, f) <=> m.pte[va] # NoPage /\ m.pte[va].frame = f
      /\ \A f : Maps(n, va, f) <=> n.pte[va] # NoPage /\ n.pte[va].frame = f
  BY <1>1, MapsEntry
<1>. QED
  BY <1>2, <1>3, <1>4 DEF Writes

(* fork, to the end.                                                       *)
LEMMA CloneShape ==
    ASSUME VmInv, ~Strayed, NEW s \in Alive, NEW c \in VmSpaces, vmm_clone(s, c)
    PROVE  \E p, k : ClonesTo(s, c, p, k)
<1>1. PICK m : m = space[s]
  OBVIOUS
<1>2. SpaceOk(m) /\ Told(m) /\ m \in Spaces /\ s \in VmSpaces /\ space \in [VmSpaces -> Spaces \union {NoPage}]
  BY <1>1, AliveOk, AliveTold DEF VmInv, VmTypeOK
<1>3. PICK vas : vas = MappedIn(m, m.areas)
  OBVIOUS
<1>4. PICK p : p = [m EXCEPT !.pte = Shares(m, vas).parent]
  BY Zenon
<1>5. PICK k : k = [m EXCEPT !.pte = Shares(m, vas).child]
  BY Zenon
<1>6. space[c] = NoPage /\ refs' = Incref(m, vas) /\ lost' = lost
  BY <1>1, <1>3 DEF vmm_clone, Alive
<1>7. space' = [space EXCEPT ![s] = p, ![c] = k]
  BY <1>1, <1>3, <1>4, <1>5 DEF vmm_clone
<1>8. /\ \A va \in vas : va \in Slots /\ m.pte[va] # NoPage
      /\ \A va \in Slots : va \in vas <=> m.pte[va] # NoPage
  BY <1>2, <1>3, AllMapped
<1>9. SpaceOk(p) /\ BrkTracks(m, p) /\ Tamer(m, p) /\ NoneWritable(p, vas)
  BY <1>2, <1>4, <1>8, ParentOk
<1>10. SpaceOk(k) /\ Tamer(m, k) /\ NoneWritable(k, Slots)
  BY <1>2, <1>3, <1>5, ChildOk
<1>11. NoneWritable(p, Slots)
  BY <1>8, <1>9 DEF NoneWritable, Tamer
<1>12. ClonesTo(s, c, p, k)
  BY <1>1, <1>3, <1>6, <1>7, <1>9, <1>10, <1>11 DEF ClonesTo
<1>. QED
  BY <1>12

(* After fork each space other than parent and child is as it was.         *)
LEMMA CloneSpaces ==
    ASSUME VmInv, NEW s \in Alive, NEW c, NEW p, NEW k, ClonesTo(s, c, p, k)
    PROVE  /\ space' \in [VmSpaces -> Spaces \union {NoPage}]
           /\ s \in VmSpaces /\ c \in VmSpaces /\ s # c
           /\ space'[s] = p /\ space'[c] = k /\ \A u \in VmSpaces \ {s, c} : space'[u] = space[u]
           /\ \A u \in VmSpaces : space'[u] # NoPage => SpaceOk(space'[u])
<1>1. space \in [VmSpaces -> Spaces \union {NoPage}]
  BY DEF VmInv, VmTypeOK
<1>2. /\ c \in VmSpaces /\ space[c] = NoPage /\ SpaceOk(p) /\ SpaceOk(k)
      /\ space' = [space EXCEPT ![s] = p, ![c] = k]
  BY DEF ClonesTo
<1>3. s \in VmSpaces /\ s # c /\ p \in Spaces /\ k \in Spaces
  BY <1>2, AliveOk DEF SpaceOk
<1>4. /\ space' \in [VmSpaces -> Spaces \union {NoPage}]
      /\ space'[s] = p /\ space'[c] = k /\ \A u \in VmSpaces \ {s, c} : space'[u] = space[u]
  BY <1>1, <1>2, <1>3
<1>5. \A u \in VmSpaces \ {s, c} : space[u] # NoPage => SpaceOk(space[u])
  BY DEF VmInv, Alive
<1>. QED
  BY <1>2, <1>3, <1>4, <1>5

(* The pages whose references a fork takes.                                *)
LEMMA IncrefAt ==
    ASSUME NEW m, NEW vas \in SUBSET Slots, NEW f \in VmFrames
    PROVE  Incref(m, vas)[f] = refs[f] + Cardinality({va \in vas : m.pte[va].frame = f})
<1>1. \A va \in vas : vpn(va) = va
  BY SlotIs
<1>2. {va \in vas : m.pte[vpn(va)].frame = f} = {va \in vas : m.pte[va].frame = f}
  BY <1>1
<1>. QED
  BY <1>2 DEF Incref

(* fork takes one reference for each page it shares.                       *)
LEMMA CloneKeeps ==
    ASSUME VmInv, ~Strayed, NEW s \in Alive, NEW c, NEW p, NEW k, ClonesTo(s, c, p, k)
    PROVE  Kept
<1>1. PICK m : m = space[s]
  OBVIOUS
<1>2. PICK vas : vas = MappedIn(m, m.areas)
  OBVIOUS
<1>3. /\ space[c] = NoPage /\ SpaceOk(p) /\ Tamer(m, p) /\ SpaceOk(k) /\ Tamer(m, k)
      /\ refs' = Incref(m, vas) /\ lost' = lost
  BY <1>1, <1>2 DEF ClonesTo
<1>4. /\ space' \in [VmSpaces -> Spaces \union {NoPage}]
      /\ s \in VmSpaces /\ c \in VmSpaces /\ s # c
      /\ space'[s] = p /\ space'[c] = k /\ \A u \in VmSpaces \ {s, c} : space'[u] = space[u]
      /\ \A u \in VmSpaces : space'[u] # NoPage => SpaceOk(space'[u])
  BY CloneSpaces
<1>5. SpaceOk(m) /\ Told(m) /\ m \in Spaces
  BY <1>1, AliveOk, AliveTold
<1>0. vas \in SUBSET Slots /\ \A va \in Slots : va \in vas <=> m.pte[va] # NoPage
  BY <1>2, <1>5, AllMapped
<1>6. ASSUME NEW f \in VmFrames
      PROVE  refs'[f] \in Int /\ refs'[f] = Cardinality(InUse(space', f)) + lost'[f]
  <2>1. PICK D : D = {va \in vas : m.pte[va].frame = f}
    BY Zenon
  <2>2. refs'[f] = refs[f] + Cardinality(D)
    BY <1>0, <1>3, <2>1, IncrefAt
  <2>3. ASSUME NEW va \in Slots
        PROVE  va \in D <=> Maps(m, va, f)
    BY <1>0, <1>5, <2>1, MapsEntry
  <2>4. D \in SUBSET Slots /\ Cardinality(D) \in Nat
    BY <1>0, <2>1, PagesFinite
  <2>5. ASSUME NEW u \in VmSpaces, NEW va \in Slots
        PROVE  Maps(space'[u], va, f) <=> Maps(space[u], va, f) \/ (u = c /\ va \in D)
    <3>1. CASE u = s
      BY <1>1, <1>3, <1>4, <1>5, <3>1, TamerMaps
    <3>2. CASE u = c
      <4>1. Maps(k, va, f) <=> Maps(m, va, f)
        BY <1>3, <1>5, TamerMaps
      <4>2. ~Maps(space[c], va, f)
        BY <1>3 DEF Maps
      <4>. QED
        BY <1>4, <2>3, <3>2, <4>1, <4>2
    <3>3. CASE u \notin {s, c}
      BY <1>4, <3>3
    <3>. QED
      BY <3>1, <3>2, <3>3
  <2>6. Gains(space, space', f, c, D)
    <3>1. \A va \in D : ~Maps(space[c], va, f)
      BY <1>3 DEF Maps
    <3>. QED
      BY <2>5, <3>1 DEF Gains
  <2>7. Cardinality(InUse(space', f)) = Cardinality(InUse(space, f)) + Cardinality(D)
    BY <1>4, <2>4, <2>6, EntriesMore
  <2>8. lost'[f] = lost[f]
    BY <1>3
  <2>. QED
    BY <2>2, <2>4, <2>7, <2>8, RefsNow
<1>7. refs' \in [VmFrames -> Int] /\ lost' \in [VmFrames -> Nat]
  <2>1. refs' = [f \in VmFrames |-> refs'[f]]
    BY <1>3 DEF Incref
  <2>2. lost' \in [VmFrames -> Nat]
    BY <1>3 DEF VmInv, VmTypeOK
  <2>. QED
    BY <1>6, <2>1, <2>2
<1>. QED
  BY <1>4, <1>6, <1>7 DEF Kept

(* A fork that runs out of memory: the parent shares what was begun, and   *)
(* the references taken for it are the ones that are lost.                 *)
LEMMA CloneFailsShape ==
    ASSUME VmInv, ~Strayed, NEW s \in Alive, NEW a \in space[s].areas, NEW at \in Va \union {0}, CloneFails(s, a, at)
    PROVE  /\ \E n : TamesTo(s, n)
           /\ \E B \in SUBSET Slots :
                /\ refs' = Incref(space[s], B)
                /\ lost' = [f \in VmFrames |-> lost[f] + Cardinality({va \in B : space[s].pte[va].frame = f})]
<1>1. PICK m : m = space[s]
  OBVIOUS
<1>2. SpaceOk(m) /\ Told(m) /\ m \in Spaces /\ AreasOk(m.areas) /\ a \in m.areas
  BY <1>1, AliveOk, AliveTold
<1>3. Proper(a) /\ at \in Nat /\ (at = 0 \/ (a.start <= at /\ at < a.end))
  <2>1. Proper(a)
    BY <1>2, AreaBounds
  <2>2. at \in Nat
    BY UserRange
  <2>3. at = 0 \/ at \in a.start .. a.end - 1
    BY DEF CloneFails
  <2>. QED
    BY <2>1, <2>2, <2>3 DEF Proper
<1>4. a.start .. at \subseteq Slots /\ a.start .. at - 1 \subseteq Slots
  <2>1. a.end <= Span /\ Span \in Nat
    BY <1>2, VmAssumption DEF Told
  <2>. QED
    BY <1>3, <2>1 DEF Proper, Slots
<1>5. PICK B : B = {va \in a.start .. at - 1 : lookup(m.pte, va)}
  BY Zenon
<1>6. PICK vas : vas = MappedIn(m, {b \in m.areas : b.end <= a.start})
                       \union {va \in a.start .. at : lookup(m.pte, va)}
  BY Zenon
<1>7. PICK n : n = [m EXCEPT !.pte = Shares(m, vas).parent]
  BY Zenon
<1>8. /\ refs' = Incref(m, B)
      /\ lost' = [f \in VmFrames |-> lost[f] + Cardinality({va \in B : m.pte[va].frame = f})]
  <2>1. /\ refs' = Incref(m, B)
        /\ lost' = [f \in VmFrames |-> lost[f] + Cardinality({va \in B : m.pte[vpn(va)].frame = f})]
    BY <1>1, <1>5 DEF CloneFails
  <2>2. \A va \in B : vpn(va) = va
    BY <1>4, <1>5, SlotIs
  <2>3. \A f : {va \in B : m.pte[vpn(va)].frame = f} = {va \in B : m.pte[va].frame = f}
    BY <2>2
  <2>. QED
    BY <2>1, <2>3
<1>9. space' = [space EXCEPT ![s].pte = Shares(m, vas).parent]
  BY <1>1, <1>6 DEF CloneFails
<1>10. space' = [space EXCEPT ![s] = n]
  BY <1>1, <1>7, <1>9
<1>11. \A va \in vas : va \in Slots /\ m.pte[va] # NoPage
  <2>1. \A va \in MappedIn(m, {b \in m.areas : b.end <= a.start}) : va \in Slots /\ m.pte[va] # NoPage
    BY <1>2, AllMapped
  <2>2. \A va \in a.start .. at : lookup(m.pte, va) => va \in Slots /\ m.pte[va] # NoPage
    BY <1>2, <1>4, LookupIs
  <2>. QED
    BY <1>6, <2>1, <2>2
<1>12. SpaceOk(n) /\ BrkTracks(m, n) /\ Tamer(m, n)
  BY <1>2, <1>7, <1>11, ParentOk
<1>13. TamesTo(s, n)
  BY <1>1, <1>10, <1>12 DEF TamesTo
<1>14. B \in SUBSET Slots
  BY <1>4, <1>5
<1>. QED
  BY <1>1, <1>8, <1>13, <1>14

(* The entries stay when only the parent's writes go.                      *)
LEMMA TamesSame ==
    ASSUME VmInv, NEW s \in Alive, NEW n, TamesTo(s, n)
    PROVE  \A f : Same(space, space', f)
<1>1. SpaceOk(n) /\ Tamer(space[s], n) /\ space' = [space EXCEPT ![s] = n]
  BY DEF TamesTo
<1>2. s \in VmSpaces /\ SpaceOk(space[s])
  BY AliveOk
<1>3. space'[s] = n /\ \A u \in VmSpaces \ {s} : space'[u] = space[u]
  BY <1>1, OneSpace, Zenon
<1>4. ASSUME NEW f, NEW u \in VmSpaces, NEW va \in Slots
      PROVE  Maps(space'[u], va, f) <=> Maps(space[u], va, f)
  <2>1. Maps(n, va, f) <=> Maps(space[s], va, f)
    BY <1>1, <1>2, TamerMaps
  <2>. QED
    BY <1>3, <2>1
<1>. QED
  BY <1>4 DEF Same

(* A fork that fails loses as many references as it took.                  *)
LEMMA CloneFailsKeeps ==
    ASSUME VmInv, ~Strayed, NEW s \in Alive, NEW a \in space[s].areas, NEW at \in Va \union {0}, CloneFails(s, a, at)
    PROVE  Kept
<1>1. PICK n : TamesTo(s, n)
  BY CloneFailsShape
<1>2. PICK m : m = space[s]
  OBVIOUS
<1>3. PICK B \in SUBSET Slots :
          /\ refs' = Incref(m, B)
          /\ lost' = [f \in VmFrames |-> lost[f] + Cardinality({va \in B : m.pte[va].frame = f})]
  BY <1>2, CloneFailsShape
<1>4. SpaceOk(n) /\ space' = [space EXCEPT ![s] = n]
  BY <1>1 DEF TamesTo
<1>5. /\ space' \in [VmSpaces -> Spaces \union {NoPage}]
      /\ \A u \in VmSpaces : space'[u] # NoPage => SpaceOk(space'[u])
  BY <1>4, OneSpace, Zenon
<1>6. \A f : InUse(space', f) = InUse(space, f)
  BY <1>1, TamesSame, EntriesSame
<1>7. ASSUME NEW f \in VmFrames
      PROVE  /\ refs'[f] \in Int /\ lost'[f] \in Nat
             /\ refs'[f] = Cardinality(InUse(space', f)) + lost'[f]
  <2>1. PICK D : D = {va \in B : m.pte[va].frame = f}
    BY Zenon
  <2>2. D \in SUBSET Slots /\ Cardinality(D) \in Nat
    BY <2>1, PagesFinite
  <2>3. refs'[f] = refs[f] + Cardinality(D) /\ lost'[f] = lost[f] + Cardinality(D)
    BY <1>3, <2>1, IncrefAt
  <2>. QED
    BY <1>6, <2>2, <2>3, RefsNow
<1>8. refs' \in [VmFrames -> Int] /\ lost' \in [VmFrames -> Nat]
  <2>1. refs' = [f \in VmFrames |-> refs'[f]] /\ lost' = [f \in VmFrames |-> lost'[f]]
    BY <1>3 DEF Incref
  <2>. QED
    BY <1>7, <2>1
<1>. QED
  BY <1>5, <1>7, <1>8 DEF Kept

(* exit gives back every page.                                             *)
LEMMA DestroyKeeps ==
    ASSUME VmInv, ~Strayed, NEW s \in Alive, destroy(s)
    PROVE  /\ Kept
           /\ space'[s] = NoPage /\ \A u \in VmSpaces \ {s} : space'[u] = space[u]
<1>1. PICK t : t = space[s].pte
  OBVIOUS
<1>2. /\ refs' = Returned(t, kUserVaBase, UserVaLimit) /\ lost' = lost
      /\ space' = [space EXCEPT ![s] = NoPage]
  <2>1. kUserVaBase \in Nat /\ UserVaLimit \in Nat
    BY LimitType DEF kUserVaBase
  <2>. QED
    BY <1>1, <2>1, AliveOk, AliveTold, ClearedIs DEF destroy
<1>3. s \in VmSpaces /\ space[s] \in Spaces /\ space \in [VmSpaces -> Spaces \union {NoPage}]
  BY AliveOk DEF VmInv, VmTypeOK
<1>4. /\ space' \in [VmSpaces -> Spaces \union {NoPage}]
      /\ space'[s] = NoPage /\ \A u \in VmSpaces \ {s} : space'[u] = space[u]
  BY <1>2, <1>3
<1>5. \A u \in VmSpaces : space'[u] # NoPage => SpaceOk(space'[u])
  BY <1>4 DEF VmInv, Alive
<1>6. ASSUME NEW f \in VmFrames
      PROVE  refs'[f] \in Int /\ refs'[f] = Cardinality(InUse(space', f)) + lost'[f]
  <2>1. PICK D : D = {k \in Slots : k \in kUserVaBase .. UserVaLimit - 1 /\ t[k] # NoPage /\ t[k].frame = f}
    BY Zenon
  <2>2. refs'[f] = refs[f] - Cardinality(D) /\ lost'[f] = lost[f]
    BY <1>2, <2>1 DEF Returned
  <2>3. D \in SUBSET Slots /\ Cardinality(D) \in Nat
    BY <2>1, PagesFinite
  <2>4. ASSUME NEW va \in Slots
        PROVE  va \in D <=> Maps(space[s], va, f)
    <3>1. t[va] # NoPage => va \in kUserVaBase .. UserVaLimit - 1
      BY <1>1, AliveOk, AliveTold, LookupIs DEF Va
    <3>. QED
      BY <1>1, <1>3, <2>1, <3>1, MapsEntry
  <2>5. ASSUME NEW u \in VmSpaces, NEW va \in Slots
        PROVE  Maps(space'[u], va, f) <=> Maps(space[u], va, f) /\ ~(u = s /\ va \in D)
    <3>1. CASE u # s
      BY <1>4, <3>1
    <3>2. CASE u = s
      BY <1>4, <2>4, <3>2 DEF Maps
    <3>. QED
      BY <3>1, <3>2
  <2>6. Drops(space, space', f, s, D)
    BY <2>3, <2>4, <2>5 DEF Drops
  <2>7. Cardinality(InUse(space', f)) = Cardinality(InUse(space, f)) - Cardinality(D)
    BY <1>3, <2>3, <2>6, EntriesLess
  <2>. QED
    BY <2>2, <2>3, <2>7, RefsNow
<1>7. refs' \in [VmFrames -> Int] /\ lost' \in [VmFrames -> Nat]
  <2>1. refs' = [f \in VmFrames |-> refs'[f]]
    BY <1>2 DEF Returned
  <2>2. lost' \in [VmFrames -> Nat]
    BY <1>2 DEF VmInv, VmTypeOK
  <2>. QED
    BY <1>6, <2>1, <2>2
<1>. QED
  BY <1>4, <1>5, <1>6, <1>7 DEF Kept

-----------------------------------------------------------------------------
(* Every step.                                                             *)

(* The steps of address spaces, by what they do to entries and counts.     *)
LEMMA StepShapes ==
    ASSUME VmInv, VmNext
    PROVE  /\ calls' \in 0 .. MaxCalls /\ ~Strayed
           /\ \E s \in Alive :
                \/ Trims(s) \/ Relabels(s) \/ Takes(s)
                \/ \E c, p, k : ClonesTo(s, c, p, k)
                \/ \E a \in space[s].areas, at \in Va \union {0} : CloneFails(s, a, at)
                \/ destroy(s)
<1>1. PICK s \in Alive :
          \/ SystemCall(s)
          \/ /\ \/ \E va \in Va, cause \in {"R", "W", "X"} : vmm_handle_page_fault(s, va, cause)
                \/ \E c \in VmSpaces : vmm_clone(s, c)
                \/ \E a \in space[s].areas, at \in Va \union {0} : CloneFails(s, a, at)
                \/ destroy(s)
             /\ UNCHANGED calls
  BY DEF VmNext
<1>0. ~Strayed
  BY DEF VmNext
<1>2. calls \in 0 .. MaxCalls /\ MaxCalls \in Nat
  BY VmAssumption DEF VmInv, VmTypeOK
<1>3. CASE SystemCall(s)
  <2>1. calls' \in 0 .. MaxCalls
    BY <1>2, <1>3 DEF SystemCall
  <2>2. CASE \E lo \in Va, hi \in Va \union {UserVaLimit} : \E mem \in Memory({"hole"}) : sys_munmap(s, lo, hi, mem)
    <3>1. PICK lo \in Va, hi \in Va \union {UserVaLimit}, mem \in Memory({"hole"}) : sys_munmap(s, lo, hi, mem)
      BY <2>2
    <3>2. lo \in Nat /\ hi \in Nat
      BY UserRange, LimitType
    <3>. QED
      BY <1>0, <2>1, <3>1, <3>2, MunmapTrims
  <2>3. CASE \E lo \in Va, hi \in Va \union {UserVaLimit} :
                \E mem \in Memory({"low", "high"}), perm \in Prots : sys_mprotect(s, lo, hi, perm, mem)
    <3>1. PICK lo \in Va, hi \in Va \union {UserVaLimit}, mem \in Memory({"low", "high"}), perm \in Prots :
              sys_mprotect(s, lo, hi, perm, mem)
      BY <2>3
    <3>2. lo \in Nat /\ hi \in Nat /\ perm \in Perms
      BY UserRange, LimitType, VmAssumption
    <3>. QED
      BY <1>0, <2>1, <3>1, <3>2, MprotectShape
  <2>4. CASE \E addr \in 0 .. UserVaLimit - 1, len \in 1 .. MaxLen, perm \in Prots, fixed \in BOOLEAN :
                \E mem \in Memory({"area", IF fixed THEN "hole" ELSE "again"}) :
                    sys_mmap(s, addr, len, perm, fixed, mem)
    <3>1. PICK addr \in 0 .. UserVaLimit - 1, len \in 1 .. MaxLen, perm \in Prots, fixed \in BOOLEAN :
              \E mem : sys_mmap(s, addr, len, perm, fixed, mem)
      BY <2>4
    <3>2. addr \in Nat /\ len \in Nat /\ len >= 1 /\ perm \in Perms
      BY LimitType, VmAssumption
    <3>. QED
      BY <1>0, <2>1, <3>1, <3>2, MmapTrims
  <2>5. CASE \E b \in BrkArgs, mem \in Memory({"hole", "area"}) : sys_brk(s, b, mem)
    <3>1. PICK b \in BrkArgs, mem \in Memory({"hole", "area"}) : sys_brk(s, b, mem)
      BY <2>5
    <3>2. b \in Nat
      BY VmAssumption
    <3>. QED
      BY <1>0, <2>1, <3>1, <3>2, BrkTrims
  <2>. QED
    BY <1>3, <2>2, <2>3, <2>4, <2>5, Zenon DEF SystemCall
<1>4. CASE ~SystemCall(s)
  <2>1. calls' \in 0 .. MaxCalls
    BY <1>1, <1>2, <1>4
  <2>2. CASE \E va \in Va, cause \in {"R", "W", "X"} : vmm_handle_page_fault(s, va, cause)
    BY <1>0, <2>1, <2>2, FaultTakes
  <2>3. CASE \E c \in VmSpaces : vmm_clone(s, c)
    BY <1>0, <2>1, <2>3, CloneShape
  <2>4. CASE \E a \in space[s].areas, at \in Va \union {0} : CloneFails(s, a, at)
    BY <1>0, <2>1, <2>4
  <2>5. CASE destroy(s)
    BY <1>0, <2>1, <2>5
  <2>. QED
    BY <1>1, <1>4, <2>2, <2>3, <2>4, <2>5, Zenon
<1>. QED
  BY <1>3, <1>4

(* The invariant is inductive.                                             *)
LEMMA VmInvNext == VmInv /\ [VmNext]_vmVars => VmInv'
<1>. SUFFICES ASSUME VmInv, [VmNext]_vmVars PROVE VmInv'
  OBVIOUS
<1>1. CASE UNCHANGED vmVars
  BY <1>1 DEF vmVars, VmInv, VmTypeOK, Alive
<1>2. CASE VmNext
  <2>1. calls' \in 0 .. MaxCalls
    BY <1>2, StepShapes
  <2>2. Kept
    BY <1>2, StepShapes, TrimKeeps, RelabelKeeps, TakesKeeps, CloneKeeps, CloneFailsKeeps, DestroyKeeps
  <2>. QED
    BY <2>1, <2>2, KeptNext
<1>. QED
  BY <1>1, <1>2

(* The first space has no areas, and no frame is in use.                   *)
LEMMA VmInvInit == VmInit => VmInv
<1>. SUFFICES ASSUME VmInit PROVE VmInv
  OBVIOUS
<1>1. PICK first \in VmSpaces : space = [s \in VmSpaces |-> IF s = first THEN create ELSE NoPage]
  BY DEF VmInit
<1>2. /\ refs = [f \in VmFrames |-> 0] /\ lost = [f \in VmFrames |-> 0] /\ calls = 0
  BY DEF VmInit
<1>3. PICK m : m = create
  OBVIOUS
<1>4. m = [areas |-> {}, pte |-> [k \in Slots |-> NoPage], brk_start |-> 0, brk_end |-> 0]
  BY <1>3 DEF create
<1>5. m.areas = {} /\ m.pte = [k \in Slots |-> NoPage] /\ m.brk_start = 0 /\ m.brk_end = 0 /\ m \in Spaces
  BY <1>4 DEF Spaces
<1>6. SpaceOk(m)
  BY <1>5 DEF SpaceOk, AreasOk, PageOk
<1>7. VmTypeOK
  <2>1. space \in [VmSpaces -> Spaces \union {NoPage}]
    BY <1>1, <1>3, <1>5
  <2>2. calls \in 0 .. MaxCalls
    BY <1>2, VmAssumption
  <2>. QED
    BY <1>2, <2>1, <2>2 DEF VmTypeOK
<1>8. \A s \in Alive : SpaceOk(space[s])
  BY <1>1, <1>3, <1>6 DEF Alive
<1>9. ASSUME NEW f \in VmFrames
      PROVE  refs[f] = Cardinality(InUse(space, f)) + lost[f]
  <2>1. \A u \in VmSpaces, va \in Slots : ~Maps(space[u], va, f)
    BY <1>1, <1>3, <1>5 DEF Maps
  <2>2. InUse(space, f) = {}
    BY <2>1 DEF InUse
  <2>3. refs[f] = 0 /\ lost[f] = 0 /\ Cardinality({}) = 0
    BY <1>2, FS_EmptySet
  <2>. QED
    BY <2>2, <2>3
<1>. QED
  BY <1>7, <1>8, <1>9 DEF VmInv

-----------------------------------------------------------------------------
(* Sharing.                                                                *)

(* A frame's users are the entries that map it.                            *)
LEMMA UsersInUse ==
    ASSUME NEW f
    PROVE  Users(f) = InUse(space, f)
<1>1. Users(f) \subseteq VmSpaces \X Slots /\ InUse(space, f) \subseteq VmSpaces \X Slots
  BY DEF Users, Alive, InUse
<1>2. \A u \in VmSpaces, va \in Slots : <<u, va>> \in Users(f) <=> Maps(space[u], va, f)
  BY DEF Users, Alive, Maps
<1>3. \A u \in VmSpaces, va \in Slots : <<u, va>> \in Users(f) <=> <<u, va>> \in InUse(space, f)
  BY <1>2, InUseAt, Zenon
<1>. QED
  BY <1>1, <1>3, SamePairs

(* Sharing, entry by entry.                                                *)
LEMMA SharedForm == SharedNotWritable <=> NotShared(space)
<1>1. ASSUME NEW s \in VmSpaces, NEW va \in Slots, Writes(space[s], va), NEW f, f = space[s].pte[va].frame
      PROVE  Users(f) = {<<s, va>>} <=>
             \A u \in VmSpaces, vb \in Slots : Maps(space[u], vb, f) => u = s /\ vb = va
  <2>1. Maps(space[s], va, f)
    BY <1>1 DEF Writes, Maps
  <2>2. /\ Users(f) \subseteq VmSpaces \X Slots
        /\ \A u \in VmSpaces, vb \in Slots : <<u, vb>> \in Users(f) <=> Maps(space[u], vb, f)
    BY UsersInUse, InUseAt
  <2>3. \A u, vb : <<u, vb>> \in {<<s, va>>} <=> u = s /\ vb = va
    OBVIOUS
  <2>4. ASSUME Users(f) = {<<s, va>>}
        PROVE  \A u \in VmSpaces, vb \in Slots : Maps(space[u], vb, f) => u = s /\ vb = va
    BY <2>2, <2>3, <2>4
  <2>5. ASSUME \A u \in VmSpaces, vb \in Slots : Maps(space[u], vb, f) => u = s /\ vb = va
        PROVE  Users(f) = {<<s, va>>}
    <3>1. {<<s, va>>} \subseteq VmSpaces \X Slots
      OBVIOUS
    <3>2. \A u \in VmSpaces, vb \in Slots : <<u, vb>> \in Users(f) <=> <<u, vb>> \in {<<s, va>>}
      BY <2>1, <2>2, <2>3, <2>5, Zenon
    <3>. QED
      BY <2>2, <3>1, <3>2, SamePairs
  <2>. QED
    BY <2>4, <2>5
<1>2. SharedNotWritable <=> \A s \in VmSpaces, va \in Slots : Writes(space[s], va) =>
                                Users(space[s].pte[va].frame) = {<<s, va>>}
  <2>1. \A k \in Slots : vpn(k) = k
    BY SlotIs
  <2>2. \A m, k : "W" \in m.pte[k].perm => m.pte[k].perm # {}
    OBVIOUS
  <2>3. \A s \in VmSpaces, va \in Slots :
           lookup(space[s].pte, va) /\ "W" \in space[s].pte[va].perm
               <=> space[s].pte[va] # NoPage /\ "W" \in space[s].pte[va].perm
    BY <2>1, <2>2 DEF lookup
  <2>. QED
    BY <2>3 DEF SharedNotWritable, Writes, Alive
<1>. QED
  BY <1>1, <1>2 DEF NotShared

(* Fewer entries, fewer of them writable: nothing becomes shared.          *)
LEMMA FewerShared ==
    ASSUME NEW sp, NEW sq, Fewer(sp, sq), NotShared(sp)
    PROVE  NotShared(sq)
<1>. SUFFICES ASSUME NEW s \in VmSpaces, NEW va \in Slots, Writes(sq[s], va),
                     NEW u \in VmSpaces, NEW vb \in Slots, Maps(sq[u], vb, sq[s].pte[va].frame)
              PROVE  u = s /\ vb = va
  BY DEF NotShared
<1>1. PICK f : f = sq[s].pte[va].frame
  OBVIOUS
<1>2. Maps(sq[s], va, f)
  BY <1>1 DEF Writes, Maps
<1>3. Maps(sp[s], va, f) /\ Maps(sp[u], vb, f) /\ Writes(sp[s], va)
  BY <1>1, <1>2 DEF Fewer
<1>4. sp[s].pte[va].frame = f
  BY <1>3 DEF Maps
<1>. QED
  BY <1>3, <1>4 DEF NotShared

(* Calls that only drop pages.                                             *)
LEMMA TrimFewer ==
    ASSUME VmInv, NEW s \in Alive, Trims(s)
    PROVE  Fewer(space, space')
<1>1. PICK n, lo, hi : TrimTo(s, n, lo, hi)
  BY DEF Trims
<1>2. SpaceOk(n) /\ n.pte = Emptied(space[s].pte, lo, hi) /\ space' = [space EXCEPT ![s] = n]
  BY <1>1 DEF TrimTo
<1>3. s \in VmSpaces /\ space[s] \in Spaces /\ n \in Spaces /\ space[s].pte \in [Slots -> Entries \union {NoPage}]
  BY <1>2, AliveOk DEF SpaceOk
<1>4. space'[s] = n /\ \A u \in VmSpaces \ {s} : space'[u] = space[u]
  BY <1>2, OneSpace, Zenon
<1>5. ASSUME NEW va \in Slots
      PROVE  /\ \A f : Maps(n, va, f) => Maps(space[s], va, f)
             /\ Writes(n, va) => Writes(space[s], va)
  <2>1. n.pte[va] = NoPage \/ n.pte[va] = space[s].pte[va]
    BY <1>2, <1>3, ClearedEntries
  <2>2. space[s] # NoPage /\ n # NoPage
    BY <1>3, MapsEntry
  <2>. QED
    BY <2>1, <2>2 DEF Maps, Writes
<1>6. ASSUME NEW u \in VmSpaces, NEW va \in Slots
      PROVE  /\ \A f : Maps(space'[u], va, f) => Maps(space[u], va, f)
             /\ Writes(space'[u], va) => Writes(space[u], va)
  <2>1. CASE u = s
    BY <1>4, <1>5, <2>1
  <2>2. CASE u # s
    BY <1>4, <2>2
  <2>. QED
    BY <2>1, <2>2
<1>. QED
  BY <1>6 DEF Fewer

(* A fork that fails makes nothing writable.                               *)
LEMMA TamesFewer ==
    ASSUME VmInv, NEW s \in Alive, NEW n, TamesTo(s, n)
    PROVE  Fewer(space, space')
<1>1. SpaceOk(n) /\ Tamer(space[s], n) /\ space' = [space EXCEPT ![s] = n]
  BY DEF TamesTo
<1>2. s \in VmSpaces /\ SpaceOk(space[s])
  BY AliveOk
<1>3. space'[s] = n /\ \A u \in VmSpaces \ {s} : space'[u] = space[u]
  BY <1>1, OneSpace, Zenon
<1>4. ASSUME NEW u \in VmSpaces, NEW va \in Slots
      PROVE  /\ \A f : Maps(space'[u], va, f) => Maps(space[u], va, f)
             /\ Writes(space'[u], va) => Writes(space[u], va)
  <2>1. CASE u = s
    BY <1>1, <1>2, <1>3, <2>1, TamerMaps
  <2>2. CASE u # s
    BY <1>3, <2>2
  <2>. QED
    BY <2>1, <2>2
<1>. QED
  BY <1>4 DEF Fewer

(* exit only drops entries.                                                *)
LEMMA DestroyFewer ==
    ASSUME VmInv, ~Strayed, NEW s \in Alive, destroy(s)
    PROVE  Fewer(space, space')
<1>1. space'[s] = NoPage /\ \A u \in VmSpaces \ {s} : space'[u] = space[u]
  BY DestroyKeeps
<1>2. ASSUME NEW u \in VmSpaces, NEW va \in Slots
      PROVE  /\ \A f : Maps(space'[u], va, f) => Maps(space[u], va, f)
             /\ Writes(space'[u], va) => Writes(space[u], va)
  <2>1. CASE u = s
    BY <1>1, <2>1 DEF Maps, Writes
  <2>2. CASE u # s
    BY <1>1, <2>2
  <2>. QED
    BY <2>1, <2>2
<1>. QED
  BY <1>2 DEF Fewer

(* A fault: the new frame has one entry, the others are as they were.      *)
LEMMA TakesShared ==
    ASSUME VmInv, NEW s \in Alive, Takes(s), NotShared(space)
    PROVE  NotShared(space')
<1>1. PICK va, n, new : TakesTo(s, va, n, new)
  BY DEF Takes
<1>2. /\ SpaceOk(n) /\ va \in Slots /\ new \in FreeFrames /\ n.pte[va].frame = new
      /\ \A vb \in Slots \ {va} : n.pte[vb] = space[s].pte[vb]
      /\ space' = [space EXCEPT ![s] = n]
  BY <1>1 DEF TakesTo
<1>3. s \in VmSpaces /\ space[s] \in Spaces /\ n \in Spaces /\ space[s] # NoPage
  BY <1>2, AliveOk DEF SpaceOk
<1>4. space'[s] = n /\ \A u \in VmSpaces \ {s} : space'[u] = space[u]
  BY <1>2, OneSpace, Zenon
<1>5. \A u \in VmSpaces, vb \in Slots : ~Maps(space[u], vb, new)
  BY <1>2, FreeUnused
<1>6. ASSUME NEW u \in VmSpaces, NEW vb \in Slots, ~(u = s /\ vb = va)
      PROVE  /\ \A f : Maps(space'[u], vb, f) => Maps(space[u], vb, f)
             /\ Writes(space'[u], vb) => Writes(space[u], vb)
  <2>1. CASE u # s
    BY <1>4, <2>1
  <2>2. CASE u = s
    <3>1. n.pte[vb] = space[s].pte[vb]
      BY <1>2, <1>6, <2>2
    <3>. QED
      BY <1>3, <1>4, <2>2, <3>1 DEF Maps, Writes
  <2>. QED
    BY <2>1, <2>2
<1>. SUFFICES ASSUME NEW u \in VmSpaces, NEW vb \in Slots, Writes(space'[u], vb),
                     NEW w \in VmSpaces, NEW vc \in Slots, Maps(space'[w], vc, space'[u].pte[vb].frame)
              PROVE  w = u /\ vc = vb
  BY DEF NotShared
<1>7. PICK f : f = space'[u].pte[vb].frame
  OBVIOUS
<1>8. Maps(space'[u], vb, f) /\ Maps(space'[w], vc, f)
  BY <1>7 DEF Writes, Maps
<1>9. CASE f = new
  <2>1. u = s /\ vb = va
    BY <1>5, <1>6, <1>8, <1>9
  <2>2. w = s /\ vc = va
    BY <1>5, <1>6, <1>8, <1>9
  <2>. QED
    BY <2>1, <2>2
<1>10. CASE f # new
  <2>1. ~(u = s /\ vb = va) /\ ~(w = s /\ vc = va)
    <3>1. \A g : Maps(n, va, g) => g = new
      BY <1>2 DEF Maps
    <3>. QED
      BY <1>4, <1>8, <1>10, <3>1
  <2>2. Maps(space[u], vb, f) /\ Writes(space[u], vb) /\ Maps(space[w], vc, f)
    BY <1>6, <1>8, <2>1
  <2>3. space[u].pte[vb].frame = f
    BY <2>2 DEF Maps
  <2>. QED
    BY <2>2, <2>3 DEF NotShared
<1>. QED
  BY <1>9, <1>10

(* A fork: neither parent nor child writes, and what another space may     *)
(* write the parent did not map.                                           *)
LEMMA CloneShared ==
    ASSUME VmInv, NEW s \in Alive, NEW c, NEW p, NEW k, ClonesTo(s, c, p, k), NotShared(space)
    PROVE  NotShared(space')
<1>1. /\ SpaceOk(p) /\ Tamer(space[s], p) /\ NoneWritable(p, Slots)
      /\ SpaceOk(k) /\ Tamer(space[s], k) /\ NoneWritable(k, Slots)
  BY DEF ClonesTo
<1>2. /\ s \in VmSpaces /\ c \in VmSpaces /\ s # c
      /\ space'[s] = p /\ space'[c] = k /\ \A u \in VmSpaces \ {s, c} : space'[u] = space[u]
  BY CloneSpaces
<1>3. SpaceOk(space[s])
  BY AliveOk
<1>4. \A vb \in Slots : ~Writes(p, vb) /\ ~Writes(k, vb)
  BY <1>1 DEF NoneWritable, Writes
<1>5. \A vb \in Slots : \A f : (Maps(p, vb, f) => Maps(space[s], vb, f)) /\ (Maps(k, vb, f) => Maps(space[s], vb, f))
  BY <1>1, <1>3, TamerMaps
<1>. SUFFICES ASSUME NEW u \in VmSpaces, NEW vb \in Slots, Writes(space'[u], vb),
                     NEW w \in VmSpaces, NEW vc \in Slots, Maps(space'[w], vc, space'[u].pte[vb].frame)
              PROVE  w = u /\ vc = vb
  BY DEF NotShared
<1>6. u \notin {s, c} /\ space'[u] = space[u] /\ Writes(space[u], vb)
  BY <1>2, <1>4
<1>7. PICK f : f = space[u].pte[vb].frame
  OBVIOUS
<1>8. Maps(space'[w], vc, f)
  BY <1>6, <1>7
<1>9. CASE w \in {s, c}
  <2>1. Maps(space[s], vc, f)
    BY <1>2, <1>5, <1>8, <1>9
  <2>2. s = u
    BY <1>2, <1>6, <1>7, <2>1 DEF NotShared
  <2>. QED
    BY <1>6, <2>2
<1>10. CASE w \notin {s, c}
  <2>1. Maps(space[w], vc, f)
    BY <1>2, <1>8, <1>10
  <2>. QED
    BY <1>6, <1>7, <2>1 DEF NotShared
<1>. QED
  BY <1>9, <1>10

(* mprotect shares a frame for writing only where it made a mapped page of *)
(* an area writable that was not.                                          *)
LEMMA RelabelShared ==
    ASSUME VmInv, ~Strayed, NEW s \in Alive, Relabels(s), NotShared(space), ~NotShared(space')
    PROVE  \E x \in WritableAreas' \ WritableAreas : lookup(space[x[1]].pte, x[2])
<1>1. PICK n, lo, hi : \E perm \in Perms : RelabelTo(s, n, lo, hi, perm)
  BY DEF Relabels
<1>2. PICK perm \in Perms : RelabelTo(s, n, lo, hi, perm)
  BY <1>1
<1>3. /\ SpaceOk(n) /\ perm # {} /\ space' = [space EXCEPT ![s] = n]
      /\ \A va \in Slots : n.pte[va] = IF va \in lo .. hi - 1 /\ space[s].pte[va] # NoPage
                                  THEN NewLeaf(space[s].pte[va], perm) ELSE space[s].pte[va]
  BY <1>2 DEF RelabelTo
<1>4. s \in VmSpaces /\ SpaceOk(space[s]) /\ space[s] \in Spaces /\ n \in Spaces /\ space[s] # NoPage /\ n # NoPage
  BY <1>3, AliveOk, VmAssumption DEF SpaceOk
<1>5. space'[s] = n /\ \A u \in VmSpaces \ {s} : space'[u] = space[u]
  BY <1>3, OneSpace, Zenon
<1>6. ASSUME NEW f, NEW u \in VmSpaces, NEW va \in Slots
      PROVE  Maps(space'[u], va, f) <=> Maps(space[u], va, f)
  <2>1. Same(space, space', f)
    BY <1>2, RelabelSame
  <2>. QED
    BY <2>1 DEF Same
<1>7. PICK u \in VmSpaces, va \in Slots, w \in VmSpaces, vb \in Slots :
          Writes(space'[u], va) /\ Maps(space'[w], vb, space'[u].pte[va].frame) /\ ~(w = u /\ vb = va)
  BY DEF NotShared
<1>8. ~Writes(space[u], va)
  <2>1. PICK f : f = space'[u].pte[va].frame
    OBVIOUS
  <2>2. Maps(space'[u], va, f) /\ Maps(space'[w], vb, f)
    BY <1>7, <2>1 DEF Writes, Maps
  <2>3. Maps(space[u], va, f) /\ Maps(space[w], vb, f)
    BY <1>6, <2>2
  <2>4. space[u].pte[va].frame = f
    BY <2>3 DEF Maps
  <2>. QED
    BY <1>7, <2>3, <2>4 DEF NotShared
<1>9. u = s
  BY <1>5, <1>7, <1>8
<1>10. PICK e : e = space[s].pte[va]
  OBVIOUS
<1>11. "W" \in n.pte[va].perm /\ n.pte[va] # NoPage /\ n.pte[va] # e
  BY <1>4, <1>5, <1>7, <1>8, <1>9, <1>10 DEF Writes
<1>12. n.pte[va] = NewLeaf(e, perm) /\ e # NoPage
  BY <1>3, <1>10, <1>11
<1>13. PICK a \in find(space[s].areas, va) :
          /\ find(space[s].areas, va) = {a} /\ e.perm = a.perm \ (IF e.cow THEN {"W"} ELSE {})
  BY <1>4, <1>10, <1>12, AreaOfPage
<1>14. e \in Entries
  BY <1>4, <1>10, <1>12, AreaOfPage
<1>15. ~e.cow
  BY <1>3, <1>11, <1>12, <1>14, NewLeafOk, Zenon
<1>16. "W" \notin e.perm
  BY <1>4, <1>8, <1>9, <1>10, <1>12 DEF Writes
<1>17. "W" \notin a.perm
  BY <1>13, <1>15, <1>16
<1>22. lookup(space[s].pte, va)
  BY <1>4, <1>10, <1>12, AliveTold, LookupIs
<1>18. PICK b \in find(n.areas, va) : n.pte[va].perm = b.perm \ (IF n.pte[va].cow THEN {"W"} ELSE {})
  BY <1>3, <1>11, Zenon DEF SpaceOk, PageOk
<1>19. "W" \in b.perm
  BY <1>11, <1>18
<1>20. <<s, va>> \in WritableAreas'
  BY <1>4, <1>5, <1>19 DEF WritableAreas, Alive
<1>21. <<s, va>> \notin WritableAreas
  BY <1>13, <1>17 DEF WritableAreas
<1>. QED
  BY <1>20, <1>21, <1>22

(* The heap of every space that lives on moves with its areas.             *)
LEMMA BrkAll ==
    ASSUME VmInv, VmNext, NEW u \in Alive, space'[u] # NoPage
    PROVE  BrkTracks(space[u], space'[u])
<1>1. BrkTracks(space[u], space[u])
  BY AliveOk, BrkStays
<1>2. PICK s \in Alive :
          \/ Trims(s) \/ Relabels(s) \/ Takes(s)
          \/ \E c, p, k : ClonesTo(s, c, p, k)
          \/ \E a \in space[s].areas, at \in Va \union {0} : CloneFails(s, a, at)
          \/ destroy(s)
  BY StepShapes
<1>0. ~Strayed
  BY StepShapes
<1>3. u \in VmSpaces /\ space[u] # NoPage
  BY AliveOk
<1>4. ASSUME NEW n, SpaceOk(n), BrkTracks(space[s], n), space' = [space EXCEPT ![s] = n]
      PROVE  BrkTracks(space[u], space'[u])
  <2>1. space'[s] = n /\ \A v \in VmSpaces \ {s} : space'[v] = space[v]
    BY <1>4, OneSpace, Zenon
  <2>. QED
    BY <1>1, <1>3, <1>4, <2>1
<1>5. CASE Trims(s)
  <2>1. PICK n, lo, hi : TrimTo(s, n, lo, hi)
    BY <1>5 DEF Trims
  <2>. QED
    BY <1>4, <2>1, Zenon DEF TrimTo
<1>6. CASE Relabels(s)
  <2>1. PICK n, lo, hi, perm : RelabelTo(s, n, lo, hi, perm)
    BY <1>6 DEF Relabels
  <2>. QED
    BY <1>4, <2>1, Zenon DEF RelabelTo
<1>7. CASE Takes(s)
  <2>1. PICK va, n, new : TakesTo(s, va, n, new)
    BY <1>7 DEF Takes
  <2>. QED
    BY <1>4, <2>1, Zenon DEF TakesTo
<1>8. CASE \E c, p, k : ClonesTo(s, c, p, k)
  <2>1. PICK c, p, k : ClonesTo(s, c, p, k)
    BY <1>8
  <2>2. u # c /\ BrkTracks(space[s], p)
    BY <1>3, <2>1 DEF ClonesTo
  <2>3. space'[s] = p /\ \A v \in VmSpaces \ {s, c} : space'[v] = space[v]
    BY <2>1, CloneSpaces
  <2>. QED
    BY <1>1, <1>3, <2>2, <2>3
<1>9. CASE \E a \in space[s].areas, at \in Va \union {0} : CloneFails(s, a, at)
  <2>1. PICK n : TamesTo(s, n)
    BY <1>0, <1>9, CloneFailsShape
  <2>. QED
    BY <1>4, <2>1, Zenon DEF TamesTo
<1>10. CASE destroy(s)
  <2>1. space'[s] = NoPage /\ \A v \in VmSpaces \ {s} : space'[v] = space[v]
    BY <1>0, <1>10, DestroyKeeps
  <2>. QED
    BY <1>1, <1>3, <2>1
<1>. QED
  BY <1>2, <1>5, <1>6, <1>7, <1>8, <1>9, <1>10, Zenon

-----------------------------------------------------------------------------
(* The results.                                                            *)

(* The invariant gives what the run checks.                                *)
LEMMA VmInvExact == VmInv => SpacesExact
<1>. SUFFICES ASSUME VmInv PROVE SpacesExact
  OBVIOUS
<1>1. \A s \in Alive : SpaceOk(space[s]) /\ AreasOk(space[s].areas)
  BY AliveOk
<1>2. AreasDisjoint
  BY <1>1 DEF AreasDisjoint, AreasOk
<1>3. EntriesFollowAreas
  BY <1>1 DEF EntriesFollowAreas, SpaceOk, PageOk
<1>4. RefsAccounted
  BY UsersInUse DEF RefsAccounted, VmInv
<1>5. HeapPlaced
  BY <1>1 DEF HeapPlaced, SpaceOk
<1>6. FindsLowestGap
  <2>1. ASSUME NEW s \in Alive, NEW len \in 1 .. UserVaLimit
        PROVE  mm_find_free_va(space[s].areas, len)
                 = IF FreeAt(space[s].areas, len) = {} THEN 0 ELSE Min(FreeAt(space[s].areas, len))
    <3>1. len \in Nat /\ len >= 1
      BY LimitType
    <3>. QED
      BY <1>1, <3>1, LowestGap
  <2>. QED
    BY <2>1 DEF FindsLowestGap, FreeAt
<1>. QED
  BY <1>2, <1>3, <1>4, <1>5, <1>6 DEF SpacesExact, VmInv

(* Areas, page tables, frame counts and heap agree in every reachable      *)
(* state, for any number of spaces, pages and frames and any sequence of   *)
(* calls, faults, forks and exits, with memory short at any of them, up to *)
(* the first area that a page table cannot hold (past Span, or writable    *)
(* and not readable).                                                      *)
THEOREM SpacesSafety == VmSpec => []SpacesExact
<1>1. VmInit => VmInv
  BY VmInvInit
<1>2. VmInv /\ [VmNext]_vmVars => VmInv'
  BY VmInvNext
<1>3. VmInv => SpacesExact
  BY VmInvExact
<1>. QED
  BY <1>1, <1>2, <1>3, PTL DEF VmSpec

(* One step: only mprotect may make a shared frame writable.               *)
LEMMA UnshareStep ==
    ASSUME VmInv, VmNext, SharedNotWritable, ~SharedNotWritable'
    PROVE  \E x \in WritableAreas' \ WritableAreas : lookup(space[x[1]].pte, x[2])
<1>1. (SharedNotWritable <=> NotShared(space))'
  BY SharedForm, PTL
<1>2. NotShared(space) /\ ~NotShared(space')
  BY <1>1, SharedForm
<1>3. ~Fewer(space, space')
  BY <1>2, FewerShared
<1>0. ~Strayed
  BY StepShapes
<1>4. PICK s \in Alive :
          \/ Trims(s) \/ Relabels(s) \/ Takes(s)
          \/ \E c, p, k : ClonesTo(s, c, p, k)
          \/ \E a \in space[s].areas, at \in Va \union {0} : CloneFails(s, a, at)
          \/ destroy(s)
  BY StepShapes
<1>5. ~Trims(s) /\ ~destroy(s)
  BY <1>0, <1>3, TrimFewer, DestroyFewer
<1>6. ~\E a \in space[s].areas, at \in Va \union {0} : CloneFails(s, a, at)
  BY <1>0, <1>3, CloneFailsShape, TamesFewer
<1>7. ~Takes(s) /\ ~\E c, p, k : ClonesTo(s, c, p, k)
  BY <1>0, <1>2, TakesShared, CloneShared
<1>8. Relabels(s)
  BY <1>4, <1>5, <1>6, <1>7
<1>. QED
  BY <1>0, <1>2, <1>8, RelabelShared

(* In every step a frame that several entries map becomes writable only    *)
(* where mprotect made the area of a mapped page writable; and the break   *)
(* moves only together with the areas of the heap: again up to the first   *)
(* area that a page table cannot hold.                                     *)
THEOREM SpacesSteps == VmSpec => SpaceSteps
<1>1. VmInit => VmInv
  BY VmInvInit
<1>2. VmInv /\ [VmNext]_vmVars => VmInv'
  BY VmInvNext
<1>3. VmInv /\ [VmNext]_vmVars
        => [~SharedNotWritable' /\ SharedNotWritable =>
              \E x \in WritableAreas' \ WritableAreas : lookup(space[x[1]].pte, x[2])]_vmVars
  BY UnshareStep
<1>4. VmInv /\ [VmNext]_vmVars
        => [\A s \in Alive : space'[s] # NoPage => BrkTracks(space[s], space'[s])]_vmVars
  BY BrkAll
<1>5. VmSpec => OnlyProtectUnshares
  BY <1>1, <1>2, <1>3, PTL DEF VmSpec, OnlyProtectUnshares
<1>6. VmSpec => BrkEndTracksAreas
  BY <1>1, <1>2, <1>4, PTL DEF VmSpec, BrkEndTracksAreas
<1>. QED
  BY <1>5, <1>6, PTL DEF SpaceSteps

=============================================================================
