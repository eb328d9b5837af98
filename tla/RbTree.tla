-------------------------------- MODULE RbTree ------------------------------
(***************************************************************************)
(* The red-black tree that keeps the areas of an address space             *)
(* (na/lib/rbtree.cc, lume/rbtree.h, lume/rbtree_augmented.h), with a      *)
(* cached leftmost node and an augmented maximum.                          *)
(*                                                                         *)
(* The code writes every case of rebalancing twice, once per side; here    *)
(* the side is a parameter.  rb_link_node sets every field of a node, so a *)
(* node that left the tree is blank.                                       *)
(***************************************************************************)
EXTENDS Integers, Sequences, FiniteSets, FiniteSetsExt, SequencesExt

CONSTANTS
    RbKeys,         \* 1..RbKeys are the keys, node n has key n
    SpareKey,       \* the key of the one node more, for rb_replace_node
    RbVal           \* [key -> the value the augmented maximum is over]

ASSUME RbTreeAssumption == RbKeys \in Nat \ {0} /\ SpareKey \in 1..RbKeys /\ RbVal \in [1..RbKeys -> Nat]

VARIABLE tree       \* [root, leftmost, child, parent, black, max]

Nodes == 1..(RbKeys + 1)
nullptr == 0
KeyOf(n) == IF n > RbKeys THEN SpareKey ELSE n
Other(s) == IF s = "left" THEN "right" ELSE "left"

RbInit ==
    tree = [root |-> nullptr, leftmost |-> nullptr,
            child |-> [s \in {"left", "right"} |-> [n \in Nodes |-> nullptr]],
            parent |-> [n \in Nodes |-> nullptr], black |-> [n \in Nodes |-> FALSE], max |-> [n \in Nodes |-> 0]]

rb_set_parent_color(t, n, p, black) == [t EXCEPT !.parent[n] = p, !.black[n] = black]
IfNode(n, changed, t) == IF n = nullptr THEN t ELSE changed

__rb_change_child(t, old, new, parent) ==
    IF parent = nullptr THEN [t EXCEPT !.root = new]
    ELSE IF t.child.left[parent] = old THEN [t EXCEPT !.child.left[parent] = new]
    ELSE [t EXCEPT !.child.right[parent] = new]

__rb_rotate_set_parents(t, old, new, black) ==
    LET p == t.parent[old]
        a == rb_set_parent_color(t, new, p, t.black[old])
    IN  __rb_change_child(rb_set_parent_color(a, old, new, black), old, new, p)

(* RB_DECLARE_CALLBACKS_MAX: a node's value and those of its children.     *)
compute_max(t, n) ==
    Max({RbVal[KeyOf(n)]} \union {t.max[t.child[s][n]] : s \in {x \in {"left", "right"} : t.child[x][n] # nullptr}})

augment_rotate(t, old, new) == [t EXCEPT !.max[new] = t.max[old], !.max[old] = compute_max(t, old)]

RECURSIVE augment_propagate(_, _, _)
augment_propagate(t, n, stop) ==
    IF n = stop \/ t.max[n] = compute_max(t, n) THEN t
    ELSE augment_propagate([t EXCEPT !.max[n] = compute_max(t, n)], t.parent[n], stop)

(* A rotation at top: its child n on side s comes up.                      *)
Turn(t, top, n, s) ==
    LET moved == t.child[Other(s)][n] IN
    [t EXCEPT !.child[s][top] = moved, !.child[Other(s)][n] = top]

-----------------------------------------------------------------------------
(* Case 2: a node on the inside is rotated to the outside, below g.        *)
InsertCase2(t, node, parent, s) ==
    LET moved == t.child[s][node]
        a == Turn(t, parent, node, Other(s))
        b == IfNode(moved, rb_set_parent_color(a, moved, parent, TRUE), a)
    IN  augment_rotate(rb_set_parent_color(b, parent, node, FALSE), parent, node)

(* Case 3: the parent comes up in the place of the grandparent.            *)
InsertCase3(t, parent, g, s) ==
    LET moved == t.child[Other(s)][parent]
        a == Turn(t, g, parent, s)
        b == IfNode(moved, rb_set_parent_color(a, moved, g, TRUE), a)
    IN  augment_rotate(__rb_rotate_set_parents(b, g, parent, FALSE), g, parent)

(* Faulty variant: the uncle keeps its colour in case 1.                   *)
Flipped_ParentOnly(t, uncle, parent, g) == rb_set_parent_color(rb_set_parent_color(t, parent, g, TRUE), g, t.parent[g], FALSE)

(* Case 1: parent and uncle turn black, the grandparent red.               *)
Flipped(t, uncle, parent, g) ==
    rb_set_parent_color(
        rb_set_parent_color(rb_set_parent_color(t, uncle, g, TRUE), parent, g, TRUE), g, t.parent[g], FALSE)

RECURSIVE __rb_insert(_, _)
__rb_insert(t, node) ==
    LET parent == t.parent[node]
        g == t.parent[parent]
        s == IF parent # t.child.right[g] THEN "left" ELSE "right"
        uncle == t.child[Other(s)][g]
    IN  IF parent = nullptr THEN rb_set_parent_color(t, node, nullptr, TRUE)
        ELSE IF t.black[parent] THEN t
        ELSE IF uncle # nullptr /\ ~t.black[uncle] THEN __rb_insert(Flipped(t, uncle, parent, g), g)
        ELSE IF node = t.child[Other(s)][parent] THEN InsertCase3(InsertCase2(t, node, parent, s), node, g, s)
        ELSE InsertCase3(t, parent, g, s)

-----------------------------------------------------------------------------
RedNode(t, n) == n # nullptr /\ ~t.black[n]

(* Case 1: the red sibling comes up.                                       *)
EraseCase1(t, parent, sibling, s) ==
    LET moved == t.child[s][sibling]
        a == rb_set_parent_color(Turn(t, parent, sibling, Other(s)), moved, parent, TRUE)
    IN  augment_rotate(__rb_rotate_set_parents(a, parent, sibling, FALSE), parent, sibling)

(* Case 3: the sibling's inner child comes up in its place.                *)
EraseCase3(t, parent, sibling, s) ==
    LET inner == t.child[s][sibling]
        moved == t.child[Other(s)][inner]
        a == [Turn(t, sibling, inner, s) EXCEPT !.child[Other(s)][parent] = inner]
        b == IfNode(moved, rb_set_parent_color(a, moved, sibling, TRUE), a)
    IN  augment_rotate(b, sibling, inner)

(* Case 4: the sibling comes up; its outer child turns black.              *)
EraseCase4(t, parent, sibling, outer, s) ==
    LET moved == t.child[s][sibling]
        a == rb_set_parent_color(Turn(t, parent, sibling, Other(s)), outer, sibling, TRUE)
        b == IfNode(moved, [a EXCEPT !.parent[moved] = parent], a)
    IN  augment_rotate(__rb_rotate_set_parents(b, parent, sibling, TRUE), parent, sibling)

RECURSIVE __rb_erase_color(_, _, _)
__rb_erase_color(t0, parent, node) ==
    LET s == IF node # t0.child.right[parent] THEN "left" ELSE "right"
        red == ~t0.black[t0.child[Other(s)][parent]]
        t == IF red THEN EraseCase1(t0, parent, t0.child[Other(s)][parent], s) ELSE t0
        sibling == t.child[Other(s)][parent]
        outer == t.child[Other(s)][sibling]
        inner == t.child[s][sibling]
        flip == rb_set_parent_color(t, sibling, parent, FALSE)
    IN  IF RedNode(t, outer) THEN EraseCase4(t, parent, sibling, outer, s)
        ELSE IF RedNode(t, inner) THEN EraseCase4(EraseCase3(t, parent, sibling, s), parent, inner, sibling, s)
        ELSE IF ~t.black[parent] THEN [flip EXCEPT !.black[parent] = TRUE]
        ELSE IF t.parent[parent] = nullptr THEN flip
        ELSE __rb_erase_color(flip, t.parent[parent], parent)

RECURSIVE Descend(_, _, _)
Descend(t, n, s) == IF t.child[s][n] = nullptr THEN n ELSE Descend(t, t.child[s][n], s)

(* __rb_erase_augmented for a node with at most one child: it takes the    *)
(* node's place and colour.                                                *)
EraseOuter(t, node) ==
    LET c == IF t.child.left[node] = nullptr THEN t.child.right[node] ELSE t.child.left[node]
        parent == t.parent[node]
        a == __rb_change_child(t, node, c, parent)
        b == IfNode(c, rb_set_parent_color(a, c, parent, t.black[node]), a)
    IN  [t |-> augment_propagate(b, parent, nullptr), rebalance |-> IF c = nullptr /\ t.black[node] THEN parent ELSE nullptr]

(* With two children: the successor takes the node's place and colour.     *)
EraseInner(t, node) ==
    LET right == t.child.right[node]
        left == t.child.left[node]
        succ == Descend(t, right, "left")
        direct == succ = right
        hole == IF direct THEN succ ELSE t.parent[succ]
        c2 == t.child.right[succ]
        a == IF direct THEN [t EXCEPT !.max[succ] = t.max[node]]
             ELSE LET b == [t EXCEPT !.child.left[hole] = c2, !.child.right[succ] = right, !.parent[right] = succ,
                                     !.max[succ] = t.max[node]]
                  IN  augment_propagate(b, hole, succ)
        c == [a EXCEPT !.child.left[succ] = left, !.parent[left] = succ]
        d == __rb_change_child(c, node, succ, t.parent[node])
        e == IfNode(c2, rb_set_parent_color(d, c2, hole, TRUE), d)
        f == rb_set_parent_color(e, succ, t.parent[node], t.black[node])
    IN  [t |-> augment_propagate(f, succ, nullptr),
         rebalance |-> IF c2 = nullptr /\ t.black[succ] THEN hole ELSE nullptr]

__rb_erase_augmented(t, node) ==
    IF t.child.left[node] = nullptr \/ t.child.right[node] = nullptr THEN EraseOuter(t, node) ELSE EraseInner(t, node)

-----------------------------------------------------------------------------
RECURSIVE Climb(_, _, _)
Climb(t, n, s) == IF t.parent[n] # nullptr /\ n = t.child[s][t.parent[n]] THEN Climb(t, t.parent[n], s) ELSE t.parent[n]

(* rb_next for s = "right", rb_prev for s = "left".                        *)
rb_step(t, n, s) == IF t.child[s][n] # nullptr THEN Descend(t, t.child[s][n], Other(s)) ELSE Climb(t, n, s)

(* rb_first and rb_last.                                                   *)
rb_end(t, s) == IF t.root = nullptr THEN nullptr ELSE Descend(t, t.root, s)

RECURSIVE rb_left_deepest_node(_, _)
rb_left_deepest_node(t, n) ==
    IF t.child.left[n] # nullptr THEN rb_left_deepest_node(t, t.child.left[n])
    ELSE IF t.child.right[n] # nullptr THEN rb_left_deepest_node(t, t.child.right[n])
    ELSE n

rb_next_postorder(t, n) ==
    LET p == t.parent[n] IN
    IF p # nullptr /\ n = t.child.left[p] /\ t.child.right[p] # nullptr THEN rb_left_deepest_node(t, t.child.right[p]) ELSE p

RECURSIVE rb_find(_, _, _)
rb_find(t, n, key) ==
    IF n = nullptr \/ KeyOf(n) = key THEN n
    ELSE rb_find(t, t.child[IF key < KeyOf(n) THEN "left" ELSE "right"][n], key)

-----------------------------------------------------------------------------
RECURSIVE LinkAt(_, _, _, _)
(* The descent of rb_add_cached: parent, side, and whether it only ever    *)
(* went left.                                                              *)
LinkAt(t, at, key, leftmost) ==
    LET s == IF key < KeyOf(at) THEN "left" ELSE "right" IN
    IF t.child[s][at] = nullptr THEN [parent |-> at, side |-> s, leftmost |-> leftmost /\ s = "left"]
    ELSE LinkAt(t, t.child[s][at], key, leftmost /\ s = "left")

(* rb_add_cached with augmentation: link, tell the ancestors, rebalance.   *)
Added(t, n) ==
    LET top == t.root = nullptr
        at == IF top THEN [parent |-> nullptr, side |-> "left", leftmost |-> TRUE] ELSE LinkAt(t, t.root, KeyOf(n), TRUE)
        a == [t EXCEPT !.parent[n] = at.parent, !.black[n] = FALSE, !.max[n] = RbVal[KeyOf(n)]]
        b == IF top THEN [a EXCEPT !.root = n] ELSE [a EXCEPT !.child[at.side][at.parent] = n]
        c == augment_propagate(b, at.parent, nullptr)
    IN  __rb_insert([c EXCEPT !.leftmost = IF at.leftmost THEN n ELSE @], n)

Blanked(t, n) == [t EXCEPT !.child.left[n] = nullptr, !.child.right[n] = nullptr, !.parent[n] = nullptr,
                           !.black[n] = FALSE, !.max[n] = 0]

NewLeftmost(t, n) == IF t.leftmost = n THEN rb_step(t, n, "right") ELSE t.leftmost

(* rb_erase_augmented_cached.                                              *)
Erased1(t, n) ==
    LET e == __rb_erase_augmented([t EXCEPT !.leftmost = NewLeftmost(t, n)], n) IN
    Blanked(IF e.rebalance # nullptr THEN __rb_erase_color(e.t, e.rebalance, nullptr) ELSE e.t, n)

(* rb_replace_node_cached; the caller copies what it augments.             *)
Replaced(t, victim, n) ==
    LET a == [t EXCEPT !.child.left[n] = t.child.left[victim], !.child.right[n] = t.child.right[victim],
                       !.parent[n] = t.parent[victim], !.black[n] = t.black[victim], !.max[n] = t.max[victim]]
        b == IfNode(a.child.left[n], [a EXCEPT !.parent[a.child.left[n]] = n], a)
        c == IfNode(b.child.right[n], [b EXCEPT !.parent[b.child.right[n]] = n], b)
    IN  Blanked([__rb_change_child(c, victim, n, t.parent[victim]) EXCEPT !.leftmost = IF @ = victim THEN n ELSE @], victim)

RECURSIVE InOrder(_, _)
InOrder(t, n) == IF n = nullptr THEN <<>> ELSE InOrder(t, t.child.left[n]) \o <<n>> \o InOrder(t, t.child.right[n])
Members == ToSet(InOrder(tree, tree.root))
HasKey(k) == \E n \in Members : KeyOf(n) = k

rb_add(n) == ~HasKey(KeyOf(n)) /\ tree' = Added(tree, n)
rb_erase(n) == n \in Members /\ tree' = Erased1(tree, n)
rb_replace_node(v, n) == v \in Members /\ n \notin Members /\ KeyOf(n) = KeyOf(v) /\ tree' = Replaced(tree, v, n)

RbNext == \E n \in Nodes : rb_add(n) \/ rb_erase(n) \/ \E v \in Nodes : rb_replace_node(v, n)

-----------------------------------------------------------------------------
(* In order the keys ascend, and every child knows its parent: so a search *)
(* finds each key that is there and no other.                              *)
SearchTree ==
    LET s == InOrder(tree, tree.root) IN
    /\ \A i \in 1..(Len(s) - 1) : KeyOf(s[i]) < KeyOf(s[i + 1])
    /\ \A n \in Members : \A x \in {"left", "right"} : tree.child[x][n] # nullptr => tree.parent[tree.child[x][n]] = n
    /\ \A k \in 1..RbKeys : (rb_find(tree, tree.root, k) # nullptr) = HasKey(k)

RECURSIVE BlackHeight(_, _)
BlackHeight(t, n) ==
    IF n = nullptr THEN 0
    ELSE LET l == BlackHeight(t, t.child.left[n])
             r == BlackHeight(t, t.child.right[n])
         IN  IF l # r \/ l = -1 THEN -1 ELSE l + (IF t.black[n] THEN 1 ELSE 0)

(* The five properties at the top of rbtree.cc: the root is black, a red   *)
(* node has no red child, and all paths down pass as many black nodes.     *)
RedBlack ==
    /\ tree.root # nullptr => tree.black[tree.root] /\ tree.parent[tree.root] = nullptr
    /\ \A n \in Members : ~tree.black[n] => \A s \in {"left", "right"} : ~RedNode(tree, tree.child[s][n])
    /\ BlackHeight(tree, tree.root) # -1

RECURSIVE Walk1(_, _, _)
Walk1(t, n, s) == IF n = nullptr THEN <<>> ELSE <<n>> \o Walk1(t, rb_step(t, n, s), s)
RECURSIVE WalkPost(_, _)
WalkPost(t, n) == IF n = nullptr THEN <<>> ELSE <<n>> \o WalkPost(t, rb_next_postorder(t, n))
RECURSIVE PostOrder(_, _)
PostOrder(t, n) == IF n = nullptr THEN <<>> ELSE PostOrder(t, t.child.left[n]) \o PostOrder(t, t.child.right[n]) \o <<n>>

(* Walking with rb_next, rb_prev and rb_next_postorder passes every node   *)
(* once, in order, in reverse, and children first; and the cached leftmost *)
(* node is the first.                                                      *)
WalksComplete ==
    LET s == InOrder(tree, tree.root) IN
    /\ Walk1(tree, rb_end(tree, "left"), "right") = s
    /\ Walk1(tree, rb_end(tree, "right"), "left") = Reverse(s)
    /\ WalkPost(tree, IF tree.root = nullptr THEN nullptr ELSE rb_left_deepest_node(tree, tree.root)) = PostOrder(tree, tree.root)
    /\ tree.leftmost = rb_end(tree, "left")

(* The augmented value of every node is the maximum over its subtree.      *)
MaxOverSubtree ==
    \A n \in Members : tree.max[n] = Max({RbVal[KeyOf(m)] : m \in ToSet(InOrder(tree, n))})
=============================================================================
