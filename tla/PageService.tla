---------------------------- MODULE PageService ----------------------------
(***************************************************************************)
(* What the physical memory manager promises its clients, who own disjoint *)
(* blocks of pages: a new block has no page that somebody owns, and a      *)
(* block is given back as it was given out.                                *)
(***************************************************************************)
EXTENDS Integers

CONSTANTS Pages, Sizes

VARIABLE owned   \* a set of sets of pages

Runs == {p .. p + n - 1 : p \in Pages, n \in Sizes}

Init == owned = {}

Take(S) == S \subseteq Pages \ UNION owned /\ owned' = owned \union {S}

Give(S) == S \in owned /\ owned' = owned \ {S}

Next == \E S \in Runs : Take(S) \/ Give(S)

Spec == Init /\ [][Next]_owned
=============================================================================
