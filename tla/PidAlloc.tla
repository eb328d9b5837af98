------------------------------ MODULE PidAlloc ------------------------------
(***************************************************************************)
(* PidAllocator (na/kernel/pid.cc): a bitmap of kBitmapWords words and a   *)
(* hint at the word to look in first.  The allocator is a record: bitmap   *)
(* gives the set bits of each word.  Both operations run under lock_.      *)
(***************************************************************************)
EXTENDS Integers, FiniteSetsExt

CONSTANTS
    kWordBits,      \* the 64 bits of a word
    kBitmapWords    \* kMaxPid / 64

ASSUME BitmapAssumption ==
    /\ kWordBits \in Nat /\ kWordBits > 1
    /\ kBitmapWords \in Nat /\ kBitmapWords > 0
    /\ kWordBits * kBitmapWords > 2

kMaxPid == kWordBits * kBitmapWords
Words == 0 .. kBitmapWords - 1
Bits == 0 .. kWordBits - 1

PidAllocators == [bitmap : [Words -> SUBSET Bits], next_hint : 2 .. kMaxPid - 1]

(* The PIDs whose bit is set.                                              *)
Used(a) == {pid \in 0 .. kMaxPid - 1 : pid % kWordBits \in a.bitmap[pid \div kWordBits]}

(* PidAllocator::init: PID 0 and 1 are reserved.                           *)
FreshPids == [bitmap |-> [w \in Words |-> IF w = 0 THEN {0, 1} ELSE {}], next_hint |-> 2]

(* The words in the order alloc() visits them that have a free bit.        *)
Candidates(a) ==
    {i \in Words : Bits \ a.bitmap[(a.next_hint \div kWordBits + i) % kBitmapWords] # {}}

(* The PID alloc() returns: the lowest free bit of the first such word.    *)
alloc_result(a) ==
    IF Candidates(a) = {} THEN -1
    ELSE LET w == (a.next_hint \div kWordBits + Min(Candidates(a))) % kBitmapWords
         IN  w * kWordBits + Min(Bits \ a.bitmap[w])

Mark(a, pid) == [a.bitmap EXCEPT ![pid \div kWordBits] = @ \union {pid % kWordBits}]

(* What alloc() leaves: the bit set, the hint past it or wrapped to 2.     *)
alloc_update(a, pid) ==
    [bitmap |-> Mark(a, pid), next_hint |-> IF pid + 1 >= kMaxPid THEN 2 ELSE pid + 1]

(* PidAllocator::free ignores PIDs out of range; the hint stays.           *)
free(a, pid) ==
    IF pid < 0 \/ pid >= kMaxPid THEN a
    ELSE [a EXCEPT !.bitmap[pid \div kWordBits] = @ \ {pid % kWordBits}]
=============================================================================
