--------------------------- MODULE LockIrqProofs ---------------------------
(***************************************************************************)
(* The two things a CPU does with its interrupt flag: spinlocks, for any   *)
(* set of CPUs and any finite set of locks, and interrupt dispatch, for    *)
(* any set of CPUs, interrupt sources and drivers.                         *)
(*                                                                         *)
(* SpinlockInv is the spinlock's inductive invariant; one lemma per action *)
(* shows that the action preserves it.  IrqsServed is inductive as it      *)
(* stands; the conjunct that makes it so is ClaimIsExclusive.              *)
(***************************************************************************)
EXTENDS Spinlock, Irq, SeqFacts, FiniteSetTheorems

(* The sets of held locks are finite, so that their sizes can be added up. *)
LEMMA HeldFinite ==
    ASSUME TypeOK, NEW c \in Cpus, NEW v \in Levels
    PROVE  /\ IsFiniteSet(held[c][v])
           /\ Cardinality(held[c][v]) \in Nat
           /\ Cardinality(held[c][v]) = 0 <=> held[c][v] = {}
<1>1. held[c][v] \in SUBSET Locks
  BY DEF TypeOK
<1>2. IsFiniteSet(held[c][v])
  BY <1>1, LocksAssumption, FS_Subset
<1>. QED
  BY <1>2, FS_CardinalityType, FS_EmptySet

(* The same for every CPU and level at once, as the steps below use it.    *)
LEMMA HeldSizes ==
    TypeOK => \A d \in Cpus, w \in Levels :
                  /\ Cardinality(held[d][w]) \in Nat
                  /\ Cardinality(held[d][w]) = 0 <=> held[d][w] = {}
  BY HeldFinite

(* One lock more, as RecordOwner makes it.                                 *)
LEMMA OneMore ==
    ASSUME NEW S, NEW x, IsFiniteSet(S), x \notin S
    PROVE  Cardinality(S \union {x}) = Cardinality(S) + 1
  BY FS_AddElement

(* One lock less, as StoreZero makes it.                                   *)
LEMMA OneLess ==
    ASSUME NEW S, NEW x, IsFiniteSet(S), x \in S
    PROVE  Cardinality(S \ {x}) = Cardinality(S) - 1
  BY FS_RemoveElement

(* AcquireCall preserves the invariant. *)
LEMMA AcquireCallPreserves ==
    ASSUME SpinlockInv, NEW c \in Cpus, NEW v \in Levels, NEW l \in Locks, AcquireCall(c, v, l)
    PROVE  SpinlockInv'
<1>. USE DEF SpinlockInv, AcquireCall, Running, Goto, lockVars, intrVars
<1>1. TypeOK'
  BY DEF TypeOK, Labels, Levels
<1>2. NoPanic'
  BY DEF TypeOK, NoPanic
<1>3. LockWordGuards'
  BY DEF TypeOK, LockWordGuards, Won
<1>4. OwnerRecorded'
  BY DEF TypeOK, OwnerRecorded, CallsInOrder, LockWordGuards, Won, Levels
<1>5. CallsInOrder'
  BY LocksAssumption DEF TypeOK, CallsInOrder
<1>6. InterruptsNest'
  BY DEF TypeOK, InterruptsNest, Levels
<1>7. DepthCounts'
  <2>. SUFFICES ASSUME NEW d \in Cpus
       PROVE  /\ lock_depth'[d] = Cardinality(held'[d][at'[d]]) + Unmatched(d, at[d])'
              /\ lock_depth'[d] > 0 => intr_was_on'[d] = found'[d][at'[d]]
              /\ \A w \in Levels :
                    pc'[d][w] = "push" /\ held'[d][w] = {} => was_on'[d][w] = found'[d][w]
    BY DEF DepthCounts
  <2>8. CASE d # c
    BY <2>8 DEF TypeOK, DepthCounts, Unmatched
  <2>9. CASE d = c
    <3>1. at'[c] = v /\ lock_depth'[c] = lock_depth[c] /\ intr_was_on'[c] = intr_was_on[c]
      BY DEF TypeOK
    <3>2. Unmatched(c, v) = 0 /\ Unmatched(c, v)' = 0
      BY DEF TypeOK, Unmatched
    <3>3. lock_depth[c] = Cardinality(held[c][v]) + Unmatched(c, v)
      BY DEF DepthCounts
    <3>4. lock_depth'[c] = Cardinality(held'[c][v]) + Unmatched(c, v)'
      BY <3>1, <3>2, <3>3, HeldSizes
    <3>5. lock_depth'[c] > 0 => intr_was_on'[c] = found'[c][v]
      <4>1. CASE held[c][v] = {}
        <5>1. Cardinality(held[c][v]) = 0
          BY <4>1, FS_EmptySet
        <5>2. lock_depth'[c] = 0
          BY <5>1, <3>1, <3>2, <3>3
        <5>. QED
          BY <5>2
      <4>2. CASE held[c][v] # {}
        <5>1. found'[c][v] = found[c][v] /\ lock_depth[c] > 0
          BY <4>2, <3>2, <3>3, HeldSizes DEF TypeOK
        <5>. QED
          BY <5>1, <3>1 DEF DepthCounts
      <4>. QED
        BY <4>1, <4>2
    <3>6. \A w \in Levels : pc'[c][w] = "push" /\ held'[c][w] = {} => was_on'[c][w] = found'[c][w]
      <4>. SUFFICES ASSUME NEW w \in Levels, pc'[c][w] = "push", held'[c][w] = {}
           PROVE  was_on'[c][w] = found'[c][w]
        OBVIOUS
      <4>1. CASE w = v
        BY <4>1 DEF TypeOK
      <4>2. CASE w # v
        <5>1. /\ pc'[c][w] = pc[c][w] /\ held'[c][w] = held[c][w]
              /\ was_on'[c][w] = was_on[c][w] /\ found'[c][w] = found[c][w]
          BY <4>2 DEF TypeOK
        <5>. QED
          BY <5>1 DEF DepthCounts
      <4>. QED
        BY <4>1, <4>2
    <3>. QED
      BY <2>9, <3>1, <3>4, <3>5, <3>6
  <2>. QED
    BY <2>8, <2>9
<1>. QED
  BY <1>1, <1>2, <1>3, <1>4, <1>5, <1>6, <1>7

(* PushIntr preserves the invariant. *)
LEMMA PushIntrPreserves ==
    ASSUME SpinlockInv, NEW c \in Cpus, NEW v \in Levels, PushIntr(c, v)
    PROVE  SpinlockInv'
<1>. USE DEF SpinlockInv, PushIntr, Running, Goto, lockVars, intrVars
<1>1. TypeOK'
  BY DEF TypeOK, Labels, Levels
<1>2. NoPanic'
  BY DEF TypeOK, NoPanic
<1>3. LockWordGuards'
  BY DEF TypeOK, LockWordGuards, Won
<1>4. OwnerRecorded'
  BY DEF TypeOK, OwnerRecorded, CallsInOrder, LockWordGuards, Won, Levels
<1>5. CallsInOrder'
  BY DEF TypeOK, CallsInOrder
<1>6. InterruptsNest'
  BY DEF TypeOK, InterruptsNest, Levels
<1>7. DepthCounts'
  BY HeldSizes DEF TypeOK, DepthCounts, Unmatched, Levels, InterruptsNest
<1>. QED
  BY <1>1, <1>2, <1>3, <1>4, <1>5, <1>6, <1>7

(* CheckDouble preserves the invariant. *)
LEMMA CheckDoublePreserves ==
    ASSUME SpinlockInv, NEW c \in Cpus, NEW v \in Levels, CheckDouble(c, v)
    PROVE  SpinlockInv'
<1>. USE DEF SpinlockInv, CheckDouble, Running, Goto, lockVars, intrVars
<1>1. TypeOK'
  BY DEF TypeOK, Labels, Levels
<1>2. NoPanic'
  <2>1. cpu_id[lk[c][v]] # c
    BY DEF TypeOK, OwnerRecorded, CallsInOrder, InterruptsNest, Levels
  <2>. QED
    BY <2>1 DEF TypeOK, NoPanic
<1>3. LockWordGuards'
  BY DEF TypeOK, LockWordGuards, Won
<1>4. OwnerRecorded'
  BY DEF TypeOK, OwnerRecorded, CallsInOrder, LockWordGuards, Won, Levels
<1>5. CallsInOrder'
  BY DEF TypeOK, CallsInOrder
<1>6. InterruptsNest'
  BY DEF TypeOK, InterruptsNest, Levels
<1>7. DepthCounts'
  <2>. SUFFICES ASSUME NEW d \in Cpus
       PROVE  /\ lock_depth'[d] = Cardinality(held'[d][at'[d]]) + Unmatched(d, at[d])'
              /\ lock_depth'[d] > 0 => intr_was_on'[d] = found'[d][at'[d]]
              /\ \A w \in Levels :
                    pc'[d][w] = "push" /\ held'[d][w] = {} => was_on'[d][w] = found'[d][w]
    BY DEF DepthCounts
  <2>8. CASE d # c
    BY <2>8 DEF TypeOK, DepthCounts, Unmatched
  <2>9. CASE d = c
    <3>1. at'[c] = v /\ lock_depth'[c] = lock_depth[c] /\ intr_was_on'[c] = intr_was_on[c]
      BY DEF TypeOK
    <3>2. Unmatched(c, v) = 1 /\ Unmatched(c, v)' = 1
      BY <1>2 DEF TypeOK, NoPanic, Unmatched
    <3>3. lock_depth[c] = Cardinality(held[c][v]) + Unmatched(c, v)
      BY DEF DepthCounts
    <3>4. lock_depth'[c] = Cardinality(held'[c][v]) + Unmatched(c, v)'
      BY <3>1, <3>2, <3>3, HeldSizes
    <3>5. lock_depth'[c] > 0 => intr_was_on'[c] = found'[c][v]
      BY <3>1, <3>2, <3>3, HeldSizes DEF TypeOK, DepthCounts
    <3>6. \A w \in Levels : pc'[c][w] = "push" /\ held'[c][w] = {} => was_on'[c][w] = found'[c][w]
      BY <1>2 DEF TypeOK, DepthCounts, InterruptsNest, Levels
    <3>. QED
      BY <2>9, <3>1, <3>4, <3>5, <3>6
  <2>. QED
    BY <2>8, <2>9
<1>. QED
  BY <1>1, <1>2, <1>3, <1>4, <1>5, <1>6, <1>7

(* SpinRead preserves the invariant. *)
LEMMA SpinReadPreserves ==
    ASSUME SpinlockInv, NEW c \in Cpus, NEW v \in Levels, SpinRead(c, v)
    PROVE  SpinlockInv'
<1>. USE DEF SpinlockInv, SpinRead, Running, Goto, lockVars, intrVars
<1>1. TypeOK'
  BY DEF TypeOK, Labels, Levels
<1>2. NoPanic'
  BY DEF TypeOK, NoPanic
<1>3. LockWordGuards'
  BY DEF TypeOK, LockWordGuards, Won
<1>4. OwnerRecorded'
  BY DEF TypeOK, OwnerRecorded, CallsInOrder, LockWordGuards, Won, Levels
<1>5. CallsInOrder'
  BY DEF TypeOK, CallsInOrder
<1>6. InterruptsNest'
  BY DEF TypeOK, InterruptsNest, Levels
<1>7. DepthCounts'
  BY DEF TypeOK, DepthCounts, Unmatched, Levels, InterruptsNest
<1>. QED
  BY <1>1, <1>2, <1>3, <1>4, <1>5, <1>6, <1>7

(* Exchange preserves the invariant. *)
LEMMA ExchangePreserves ==
    ASSUME SpinlockInv, NEW c \in Cpus, NEW v \in Levels, Exchange(c, v)
    PROVE  SpinlockInv'
<1>. USE DEF SpinlockInv, Exchange, Running, Goto, lockVars, intrVars
<1>1. TypeOK'
  BY DEF TypeOK, Labels, Levels
<1>2. NoPanic'
  BY DEF TypeOK, NoPanic
<1>3. LockWordGuards'
  BY DEF TypeOK, LockWordGuards, Won
<1>4. OwnerRecorded'
  BY DEF TypeOK, OwnerRecorded, CallsInOrder, LockWordGuards, Won, Levels
<1>5. CallsInOrder'
  BY DEF TypeOK, CallsInOrder
<1>6. InterruptsNest'
  BY DEF TypeOK, InterruptsNest, Levels
<1>7. DepthCounts'
  BY DEF TypeOK, DepthCounts, Unmatched, Levels, InterruptsNest
<1>. QED
  BY <1>1, <1>2, <1>3, <1>4, <1>5, <1>6, <1>7

(* RecordOwner preserves the invariant. *)
LEMMA RecordOwnerPreserves ==
    ASSUME SpinlockInv, NEW c \in Cpus, NEW v \in Levels, RecordOwner(c, v)
    PROVE  SpinlockInv'
<1>. USE DEF SpinlockInv, RecordOwner, Running, Goto, lockVars, intrVars
<1>1. TypeOK'
  BY DEF TypeOK, Labels, Levels
<1>2. NoPanic'
  BY DEF TypeOK, NoPanic
<1>3. LockWordGuards'
  BY DEF TypeOK, LockWordGuards, Won
<1>4. OwnerRecorded'
  BY DEF TypeOK, OwnerRecorded, CallsInOrder, LockWordGuards, Won, Levels
<1>5. CallsInOrder'
  BY DEF TypeOK, CallsInOrder
<1>6. InterruptsNest'
  BY DEF TypeOK, InterruptsNest, Levels
<1>7. DepthCounts'
  <2>1. Cardinality(held'[c][v]) = Cardinality(held[c][v]) + 1
    <3>1. lk[c][v] \notin held[c][v] /\ held'[c][v] = held[c][v] \union {lk[c][v]}
      BY DEF TypeOK, CallsInOrder
    <3>2. IsFiniteSet(held[c][v])
      BY HeldFinite
    <3>3. Cardinality(held[c][v] \union {lk[c][v]}) = Cardinality(held[c][v]) + 1
      BY <3>1, <3>2, OneMore
    <3>. QED
      BY ONLY <3>1, <3>3
  <2>. SUFFICES ASSUME NEW d \in Cpus
       PROVE  /\ lock_depth'[d] = Cardinality(held'[d][at'[d]]) + Unmatched(d, at[d])'
              /\ lock_depth'[d] > 0 => intr_was_on'[d] = found'[d][at'[d]]
              /\ \A w \in Levels :
                    pc'[d][w] = "push" /\ held'[d][w] = {} => was_on'[d][w] = found'[d][w]
    BY Zenon DEF DepthCounts
  <2>8. CASE d # c
    BY <2>8 DEF TypeOK, DepthCounts, Unmatched
  <2>9. CASE d = c
    BY <2>9, <2>1, HeldSizes DEF TypeOK, DepthCounts, Unmatched, Levels, InterruptsNest
  <2>. QED
    BY <2>8, <2>9
<1>. QED
  BY <1>1, <1>2, <1>3, <1>4, <1>5, <1>6, <1>7

(* ReleaseCall preserves the invariant. *)
LEMMA ReleaseCallPreserves ==
    ASSUME SpinlockInv, NEW c \in Cpus, NEW v \in Levels, NEW l \in Locks, ReleaseCall(c, v, l)
    PROVE  SpinlockInv'
<1>. USE DEF SpinlockInv, ReleaseCall, Running, Goto, lockVars, intrVars
<1>0. cpu_id[l] = c
  BY DEF TypeOK, OwnerRecorded
<1>r. /\ pc' = [pc EXCEPT ![c][v] = "store"]
      /\ cpu_id' = [cpu_id EXCEPT ![l] = kInvalidCpuId]
  BY <1>0
<1>1. TypeOK'
  BY <1>r DEF TypeOK, Labels, Levels
<1>2. NoPanic'
  BY <1>r DEF TypeOK, NoPanic
<1>3. LockWordGuards'
  BY DEF TypeOK, LockWordGuards, Won
<1>4. OwnerRecorded'
  BY <1>0, CpusAssumption
     DEF TypeOK, OwnerRecorded, LockWordGuards, Won, InterruptsNest, Levels
<1>5. CallsInOrder'
  BY DEF TypeOK, CallsInOrder
<1>6. InterruptsNest'
  BY <1>0 DEF TypeOK, InterruptsNest, Levels
<1>7. DepthCounts'
  <2>. SUFFICES ASSUME NEW d \in Cpus
       PROVE  /\ lock_depth'[d] = Cardinality(held'[d][at'[d]]) + Unmatched(d, at[d])'
              /\ lock_depth'[d] > 0 => intr_was_on'[d] = found'[d][at'[d]]
              /\ \A w \in Levels :
                    pc'[d][w] = "push" /\ held'[d][w] = {} => was_on'[d][w] = found'[d][w]
    BY DEF DepthCounts
  <2>8. CASE d # c
    BY <2>8 DEF TypeOK, DepthCounts, Unmatched
  <2>9. CASE d = c
    <3>1. at'[c] = v /\ lock_depth'[c] = lock_depth[c] /\ intr_was_on'[c] = intr_was_on[c]
      BY DEF TypeOK
    <3>2. Unmatched(c, v) = 0 /\ Unmatched(c, v)' = 0
      BY <1>r DEF TypeOK, Unmatched
    <3>3. lock_depth[c] = Cardinality(held[c][v]) + Unmatched(c, v)
      BY DEF DepthCounts
    <3>4. lock_depth'[c] = Cardinality(held'[c][v]) + Unmatched(c, v)'
      BY <3>1, <3>2, <3>3, HeldSizes
    <3>5. lock_depth'[c] > 0 => intr_was_on'[c] = found'[c][v]
      BY <3>1, <3>2, <3>3, HeldSizes DEF TypeOK, DepthCounts
    <3>6. ASSUME NEW w \in Levels, pc'[c][w] = "push" /\ held'[c][w] = {}
          PROVE  was_on'[c][w] = found'[c][w]
      <4>1. pc[c][w] = "push" /\ held'[c][w] = held[c][w]
        BY <1>r, <3>6 DEF TypeOK
      <4>. QED
        BY <3>6, <4>1 DEF DepthCounts
    <3>. QED
      BY <2>9, <3>1, <3>4, <3>5, <3>6
  <2>. QED
    BY <2>8, <2>9
<1>. QED
  BY <1>1, <1>2, <1>3, <1>4, <1>5, <1>6, <1>7

(* StoreZero preserves the invariant. *)
LEMMA StoreZeroPreserves ==
    ASSUME SpinlockInv, NEW c \in Cpus, NEW v \in Levels, StoreZero(c, v)
    PROVE  SpinlockInv'
<1>. USE DEF SpinlockInv, StoreZero, Running, Goto, lockVars, intrVars
<1>1. TypeOK'
  BY DEF TypeOK, Labels, Levels
<1>2. NoPanic'
  BY DEF TypeOK, NoPanic
<1>3. LockWordGuards'
  <2>1. \A d \in Cpus, w \in Levels, m \in Locks : Won(d, w, m)' => Won(d, w, m)
    BY DEF TypeOK, Won
  <2>2. \A d \in Cpus, w \in Levels : ~Won(d, w, lk[c][v])'
    BY DEF TypeOK, LockWordGuards, CallsInOrder, Won
  <2>. QED
    BY <2>1, <2>2 DEF TypeOK, LockWordGuards
<1>4. OwnerRecorded'
  BY DEF TypeOK, OwnerRecorded, CallsInOrder, LockWordGuards, Won, Levels
<1>5. CallsInOrder'
  BY DEF TypeOK, CallsInOrder
<1>6. InterruptsNest'
  BY DEF TypeOK, InterruptsNest, Levels
<1>7. DepthCounts'
  <2>1. Cardinality(held'[c][v]) = Cardinality(held[c][v]) - 1
    <3>1. lk[c][v] \in held[c][v] /\ held'[c][v] = held[c][v] \ {lk[c][v]}
      BY DEF TypeOK, CallsInOrder
    <3>2. IsFiniteSet(held[c][v])
      BY HeldFinite
    <3>3. Cardinality(held[c][v] \ {lk[c][v]}) = Cardinality(held[c][v]) - 1
      BY <3>1, <3>2, OneLess
    <3>. QED
      BY ONLY <3>1, <3>3
  <2>. SUFFICES ASSUME NEW d \in Cpus
       PROVE  /\ lock_depth'[d] = Cardinality(held'[d][at'[d]]) + Unmatched(d, at[d])'
              /\ lock_depth'[d] > 0 => intr_was_on'[d] = found'[d][at'[d]]
              /\ \A w \in Levels :
                    pc'[d][w] = "push" /\ held'[d][w] = {} => was_on'[d][w] = found'[d][w]
    BY Zenon DEF DepthCounts
  <2>8. CASE d # c
    BY <2>8 DEF TypeOK, DepthCounts, Unmatched
  <2>9. CASE d = c
    <3>1. at'[c] = v /\ lock_depth'[c] = lock_depth[c] /\ intr_was_on'[c] = intr_was_on[c]
      BY DEF TypeOK
    <3>2. Unmatched(c, v) = 0 /\ Unmatched(c, v)' = 1
      BY DEF TypeOK, Unmatched
    <3>3. lock_depth[c] = Cardinality(held[c][v]) + Unmatched(c, v)
      BY DEF DepthCounts
    <3>4. lock_depth'[c] = Cardinality(held'[c][v]) + Unmatched(c, v)'
      BY <2>1, <3>1, <3>2, <3>3, HeldSizes
    <3>5. lock_depth'[c] > 0 => intr_was_on'[c] = found'[c][v]
      BY <3>1, <3>2, <3>3, HeldSizes DEF TypeOK, DepthCounts
    <3>6. \A w \in Levels : pc'[c][w] = "push" /\ held'[c][w] = {} => was_on'[c][w] = found'[c][w]
      <4>. SUFFICES ASSUME NEW w \in Levels, pc'[c][w] = "push", held'[c][w] = {}
           PROVE  was_on'[c][w] = found'[c][w]
        OBVIOUS
      <4>1. CASE w = v
        BY <4>1 DEF TypeOK
      <4>2. CASE w # v
        <5>1. /\ pc'[c][w] = pc[c][w] /\ held'[c][w] = held[c][w]
              /\ was_on'[c][w] = was_on[c][w] /\ found'[c][w] = found[c][w]
          BY <4>2 DEF TypeOK
        <5>. QED
          BY <5>1 DEF DepthCounts
      <4>. QED
        BY <4>1, <4>2
    <3>. QED
      BY <2>9, <3>1, <3>4, <3>5, <3>6, Zenon
  <2>. QED
    BY <2>8, <2>9
<1>. QED
  BY <1>1, <1>2, <1>3, <1>4, <1>5, <1>6, <1>7

(* PopIntr preserves the invariant. *)
LEMMA PopIntrPreserves ==
    ASSUME SpinlockInv, NEW c \in Cpus, NEW v \in Levels, PopIntr(c, v)
    PROVE  SpinlockInv'
<1>. USE DEF SpinlockInv, PopIntr, Running, Goto, lockVars, intrVars
<1>0. lock_depth[c] = Cardinality(held[c][v]) + 1 /\ Cardinality(held[c][v]) \in Nat
  BY HeldSizes DEF TypeOK, DepthCounts, Unmatched
<1>1. TypeOK'
  BY <1>0 DEF TypeOK, Labels, Levels
<1>2. NoPanic'
  BY DEF TypeOK, NoPanic
<1>3. LockWordGuards'
  BY DEF TypeOK, LockWordGuards, Won
<1>4. OwnerRecorded'
  BY DEF TypeOK, OwnerRecorded, CallsInOrder, LockWordGuards, Won, Levels
<1>5. CallsInOrder'
  BY DEF TypeOK, CallsInOrder
<1>6. InterruptsNest'
  BY <1>0, HeldSizes DEF TypeOK, InterruptsNest, DepthCounts, Levels
<1>7. DepthCounts'
  BY <1>0, HeldSizes DEF TypeOK, DepthCounts, Unmatched, Levels, InterruptsNest
<1>. QED
  BY <1>1, <1>2, <1>3, <1>4, <1>5, <1>6, <1>7

(* TakeInterrupt preserves the invariant. *)
LEMMA TakeInterruptPreserves ==
    ASSUME SpinlockInv, NEW c \in Cpus, TakeInterrupt(c)
    PROVE  SpinlockInv'
<1>. USE DEF SpinlockInv, TakeInterrupt, Running, Goto, lockVars, intrVars
<1>1. TypeOK'
  BY DEF TypeOK, Labels, Levels
<1>2. NoPanic'
  BY DEF TypeOK, NoPanic
<1>3. LockWordGuards'
  BY DEF TypeOK, LockWordGuards, Won
<1>4. OwnerRecorded'
  BY DEF TypeOK, OwnerRecorded, CallsInOrder, LockWordGuards, Won, Levels
<1>5. CallsInOrder'
  BY DEF TypeOK, CallsInOrder
<1>6. InterruptsNest'
  BY DEF TypeOK, InterruptsNest, Levels
<1>7. DepthCounts'
  BY HeldSizes, FS_EmptySet DEF TypeOK, DepthCounts, Unmatched, Levels, InterruptsNest
<1>. QED
  BY <1>1, <1>2, <1>3, <1>4, <1>5, <1>6, <1>7

(* ReturnInterrupt preserves the invariant. *)
LEMMA ReturnInterruptPreserves ==
    ASSUME SpinlockInv, NEW c \in Cpus, ReturnInterrupt(c)
    PROVE  SpinlockInv'
<1>. USE DEF SpinlockInv, ReturnInterrupt, Running, Goto, lockVars, intrVars
<1>1. TypeOK'
  BY DEF TypeOK, Labels, Levels
<1>2. NoPanic'
  BY DEF TypeOK, NoPanic
<1>3. LockWordGuards'
  BY DEF TypeOK, LockWordGuards, Won
<1>4. OwnerRecorded'
  BY DEF TypeOK, OwnerRecorded, CallsInOrder, LockWordGuards, Won, Levels
<1>5. CallsInOrder'
  BY DEF TypeOK, CallsInOrder
<1>6. InterruptsNest'
  BY DEF TypeOK, InterruptsNest, Levels
<1>7. DepthCounts'
  <2>. SUFFICES ASSUME NEW d \in Cpus
       PROVE  /\ lock_depth'[d] = Cardinality(held'[d][at'[d]]) + Unmatched(d, at[d])'
              /\ lock_depth'[d] > 0 => intr_was_on'[d] = found'[d][at'[d]]
              /\ \A w \in Levels :
                    pc'[d][w] = "push" /\ held'[d][w] = {} => was_on'[d][w] = found'[d][w]
    BY DEF DepthCounts
  <2>8. CASE d # c
    BY <2>8 DEF TypeOK, DepthCounts, Unmatched
  <2>9. CASE d = c
    BY <2>9, FS_EmptySet, HeldSizes DEF TypeOK, DepthCounts, Unmatched, Levels, InterruptsNest
  <2>. QED
    BY <2>8, <2>9
<1>. QED
  BY <1>1, <1>2, <1>3, <1>4, <1>5, <1>6, <1>7

(* SetIntr preserves the invariant. *)
LEMMA SetIntrPreserves ==
    ASSUME SpinlockInv, NEW c \in Cpus, SetIntr(c)
    PROVE  SpinlockInv'
<1>. USE DEF SpinlockInv, SetIntr, Running, Goto, lockVars, intrVars
<1>1. TypeOK'
  BY DEF TypeOK, Labels, Levels
<1>2. NoPanic'
  BY DEF TypeOK, NoPanic
<1>3. LockWordGuards'
  BY DEF TypeOK, LockWordGuards, Won
<1>4. OwnerRecorded'
  BY DEF TypeOK, OwnerRecorded, CallsInOrder, LockWordGuards, Won, Levels
<1>5. CallsInOrder'
  BY DEF TypeOK, CallsInOrder
<1>6. InterruptsNest'
  BY DEF TypeOK, InterruptsNest, Levels
<1>7. DepthCounts'
  BY DEF TypeOK, DepthCounts, Unmatched, Levels, InterruptsNest
<1>. QED
  BY <1>1, <1>2, <1>3, <1>4, <1>5, <1>6, <1>7

-----------------------------------------------------------------------------
(* After init every lock is free and every CPU outside the lock code.      *)
LEMMA InitEstablishes == Init => SpinlockInv
<1>. SUFFICES ASSUME Init PROVE SpinlockInv
  OBVIOUS
<1>. USE DEF Init
<1>1. TypeOK
  BY LocksAssumption DEF TypeOK, Labels, Levels
<1>2. NoPanic /\ LockWordGuards /\ CallsInOrder /\ InterruptsNest
  BY DEF NoPanic, LockWordGuards, Won, CallsInOrder, InterruptsNest, Levels
<1>3. OwnerRecorded
  BY CpusAssumption DEF OwnerRecorded
<1>4. DepthCounts
  BY FS_EmptySet DEF DepthCounts, Unmatched, Levels
<1>. QED
  BY <1>1, <1>2, <1>3, <1>4 DEF SpinlockInv

(* Every step of acquire, release, interrupt entry and return, and of      *)
(* threads that switch interrupts themselves, preserves the invariant.     *)
LEMMA NextPreserves == SpinlockInv /\ [Next]_vars => SpinlockInv'
<1>. SUFFICES ASSUME SpinlockInv, [Next]_vars PROVE SpinlockInv'
  OBVIOUS
<1>1. CASE Next
  BY <1>1, AcquireCallPreserves, PushIntrPreserves, CheckDoublePreserves,
     SpinReadPreserves, ExchangePreserves, RecordOwnerPreserves,
     ReleaseCallPreserves, StoreZeroPreserves, PopIntrPreserves,
     TakeInterruptPreserves, ReturnInterruptPreserves, SetIntrPreserves
     DEF Next, LockStep, Release
<1>2. CASE UNCHANGED vars
  BY <1>2 DEF vars, SpinlockInv, TypeOK, NoPanic, LockWordGuards, Won, OwnerRecorded,
              CallsInOrder, InterruptsNest, DepthCounts, Unmatched
<1>. QED
  BY <1>1, <1>2

(* Owners, lock words, nesting depths and interrupt states of              *)
(* Spinlock::acquire and release agree in every reachable state.           *)
THEOREM SpinlockInvariant == Spec => []SpinlockInv
  BY InitEstablishes, NextPreserves, PTL DEF Spec

(* Spinlock::acquire gives a lock to one level of one CPU at a time.       *)
THEOREM SpinlockMutualExclusion == Spec => []MutualExclusion
<1>1. SpinlockInv => MutualExclusion
  <2>. SUFFICES ASSUME SpinlockInv, NEW c \in Cpus, NEW d \in Cpus,
                       NEW v \in Levels, NEW w \in Levels,
                       held[c][v] \intersect held[d][w] # {}
       PROVE  c = d /\ v = w
    BY DEF MutualExclusion
  <2>1. PICK l \in Locks : l \in held[c][v] /\ l \in held[d][w]
    BY DEF SpinlockInv, TypeOK
  <2>. QED
    BY <2>1 DEF SpinlockInv, LockWordGuards, Won
<1>. QED
  BY <1>1, SpinlockInvariant, PTL

(* "spinlock: double lock" and "spinlock: invalid release" are never       *)
(* reached by callers that respect the lock order.                         *)
THEOREM SpinlockNoPanic == Spec => []NoPanic
<1>1. SpinlockInv => NoPanic
  BY DEF SpinlockInv
<1>. QED
  BY <1>1, SpinlockInvariant, PTL

(* push_intr and pop_intr keep interrupts off while a lock is held.        *)
THEOREM SpinlockIntrOff == Spec => []IntrOffWhileHeld
<1>1. SpinlockInv => IntrOffWhileHeld
  BY DEF SpinlockInv, InterruptsNest, IntrOffWhileHeld, Levels
<1>. QED
  BY <1>1, SpinlockInvariant, PTL

(* pop_intr restores SIE to what the outermost acquire found, and only at  *)
(* the outermost release.                                                  *)
THEOREM SpinlockIntrRestored == Spec => IntrRestored
<1>. DEFINE Restores ==
       \A c \in Cpus : \A v \in Levels :
          Running(c, v, "pop") /\ pc'[c][v] = "run" =>
              intr'[c] = (held[c][v] = {} /\ found[c][v])
<1>1. SpinlockInv /\ [Next]_vars => [Restores]_vars
  <2>. SUFFICES ASSUME SpinlockInv, Next, NEW c \in Cpus, NEW v \in Levels,
                       Running(c, v, "pop"), pc'[c][v] = "run"
       PROVE  intr'[c] = (held[c][v] = {} /\ found[c][v])
    OBVIOUS
  <2>1. PopIntr(c, v)
    <3>1. ASSUME NEW d \in Cpus, NEW w \in Levels, NEW l \in Locks,
                 LockStep(d, w) \/ ReleaseCall(d, w, l) \/ AcquireCall(d, w, l)
          PROVE  PopIntr(c, v)
      <4>1. \E label : pc' = [pc EXCEPT ![d][w] = label]
        BY <3>1 DEF LockStep, PushIntr, CheckDouble, SpinRead, Exchange, RecordOwner,
                    StoreZero, PopIntr, ReleaseCall, AcquireCall, Goto
      <4>2. d = c /\ w = v
        BY <4>1 DEF SpinlockInv, TypeOK, Running
      <4>. QED
        BY <3>1, <4>2 DEF LockStep, PushIntr, CheckDouble, SpinRead, Exchange, RecordOwner,
                          StoreZero, ReleaseCall, AcquireCall, Running
    <3>2. pc' # pc
      BY DEF Running
    <3>3. \E d \in Cpus, w \in Levels, l \in Locks :
             LockStep(d, w) \/ ReleaseCall(d, w, l) \/ AcquireCall(d, w, l)
      BY <3>2, LocksAssumption DEF Next, Release, TakeInterrupt, ReturnInterrupt, SetIntr
    <3>. QED
      BY <3>1, <3>3
  <2>2. lock_depth[c] = Cardinality(held[c][v]) + 1 /\ intr_was_on[c] = found[c][v]
    BY HeldSizes DEF SpinlockInv, DepthCounts, Unmatched, Running
  <2>3. intr'[c] = (intr[c] \/ (lock_depth[c] = 1 /\ intr_was_on[c]))
    BY <2>1 DEF PopIntr, SpinlockInv, TypeOK
  <2>4. ~intr[c]
    BY DEF SpinlockInv, InterruptsNest, Running, Levels
  <2>5. lock_depth[c] = 1 <=> held[c][v] = {}
    BY <2>2, HeldSizes DEF SpinlockInv
  <2>. QED
    BY <2>2, <2>3, <2>4, <2>5
<1>. QED
  BY <1>1, SpinlockInvariant, PTL DEF Spec, IntrRestored

(* cpu_id_ implements the abstract lock service: each step of the detailed *)
(* protocol takes a free lock, gives back an owned one, or stutters.       *)
THEOREM SpinlockImplementsService == Spec => ImplementsService
<1>1. Init => Service!Init
  BY DEF Init, Service!Init
<1>2. SpinlockInv /\ [Next]_vars => [Service!Next]_cpu_id
  <2>. SUFFICES ASSUME SpinlockInv, Next, cpu_id' # cpu_id
       PROVE  Service!Next
    BY DEF vars
  <2>1. PICK c \in Cpus, v \in Levels :
           RecordOwner(c, v) \/ \E l \in Locks : ReleaseCall(c, v, l)
    BY DEF Next, LockStep, Release, PushIntr, CheckDouble, SpinRead, Exchange,
           StoreZero, PopIntr, AcquireCall, TakeInterrupt, ReturnInterrupt, SetIntr, lockVars
  <2>2. CASE RecordOwner(c, v)
    <3>1. lk[c][v] \in Locks
      BY DEF SpinlockInv, TypeOK
    <3>2. cpu_id[lk[c][v]] = kInvalidCpuId
      <4>1. ASSUME NEW d \in Cpus, cpu_id[lk[c][v]] = d PROVE FALSE
        BY <2>2, <3>1, <4>1
           DEF RecordOwner, Running, SpinlockInv, OwnerRecorded, LockWordGuards, Won, CallsInOrder
      <4>. QED
        BY <4>1, <3>1 DEF SpinlockInv, TypeOK
    <3>3. Service!Take(c, lk[c][v])
      BY <2>2, <3>2 DEF Service!Take, RecordOwner
    <3>. QED
      BY <3>1, <3>3 DEF Service!Next
  <2>3. CASE \E l \in Locks : ReleaseCall(c, v, l)
    <3>1. PICK l \in Locks : ReleaseCall(c, v, l)
      BY <2>3
    <3>2. Service!Give(c, l)
      BY <3>1 DEF Service!Give, ReleaseCall
    <3>. QED
      BY <3>2 DEF Service!Next
  <2>. QED
    BY <2>1, <2>2, <2>3
<1>. QED
  BY <1>1, <1>2, SpinlockInvariant, PTL DEF Spec, ImplementsService, Service!Spec

-----------------------------------------------------------------------------
(* The boot state: nothing registered, nothing claimed.                    *)
LEMMA IrqInitServed == IrqInit => IrqsServed
  BY IrqAssumption DEF IrqInit, IrqsServed, IrqTypeOK, ClaimIsExclusive, HandlerAlone, ServiceHasCpu,
     OwnerIsPublished, Idle, NoRequest, Claimed

(* The handler's side of one claim: what a claim takes is a source that is *)
(* pending and in nobody's service.                                        *)
LEMMA ClaimsLowest ==
    ASSUME IrqTypeOK, NEW c \in IrqCpus, Signalled(c) # {}
    PROVE  LET i == Min(Signalled(c))
           IN  i \in Sources /\ i \in pending /\ service[i] = NoIrq /\ \A j \in Signalled(c) : i <= j
<1>1. Signalled(c) \in SUBSET Nat
  BY IrqAssumption, Zenon DEF IrqTypeOK, Signalled
<1>. QED
  BY <1>1, MinIsLeast, Zenon DEF Signalled, IrqTypeOK

(* Drivers registering and unregistering: only the table changes, and the  *)
(* compare-and-swap keeps it with the owner.                               *)
LEMMA DriverStep ==
    ASSUME IrqsServed, NEW d \in Drivers,
           \/ \E i \in Sources : RegisterArg(d, i) \/ UnregisterHandler(d, i)
           \/ RegisterPublish(d) \/ UnregisterArg(d)
    PROVE  IrqsServed'
<1>. USE IrqAssumption DEF IrqsServed
<1>0. \A e \in Drivers : request[e].at \in {"publish", "clear"} => request[e].irq \in Sources
  BY DEF IrqTypeOK, NoRequest
<1>1. ASSUME NEW i \in Sources, RegisterArg(d, i)
      PROVE  IrqsServed'
  <2>1. IrqTypeOK'
    BY <1>1 DEF RegisterArg, IrqTypeOK
  <2>2. ClaimIsExclusive' /\ HandlerAlone' /\ ServiceHasCpu' /\ OwnerIsPublished'
    BY <1>1 DEF RegisterArg, ClaimIsExclusive, HandlerAlone, ServiceHasCpu, OwnerIsPublished
  <2>. QED
    BY <2>1, <2>2
<1>2. ASSUME NEW i \in Sources, UnregisterHandler(d, i)
      PROVE  IrqsServed'
  <2>1. IrqTypeOK'
    BY <1>2 DEF UnregisterHandler, IrqTypeOK
  <2>2. ClaimIsExclusive' /\ HandlerAlone' /\ ServiceHasCpu'
    BY <1>2 DEF UnregisterHandler, ClaimIsExclusive, HandlerAlone, ServiceHasCpu
  <2>3. OwnerIsPublished'
    BY <1>2 DEF UnregisterHandler, OwnerIsPublished, IrqTypeOK
  <2>. QED
    BY <2>1, <2>2, <2>3
<1>3. CASE RegisterPublish(d)
  <2>1. request[d].irq \in Sources
    BY <1>0, <1>3 DEF RegisterPublish
  <2>2. IrqTypeOK'
    BY <1>3, <2>1 DEF RegisterPublish, CasHandler, IrqTypeOK
  <2>3. ClaimIsExclusive' /\ HandlerAlone' /\ ServiceHasCpu'
    BY <1>3 DEF RegisterPublish, ClaimIsExclusive, HandlerAlone, ServiceHasCpu
  <2>4. OwnerIsPublished'
    BY <1>3, <2>1 DEF RegisterPublish, CasHandler, OwnerIsPublished, IrqTypeOK
  <2>. QED
    BY <2>2, <2>3, <2>4
<1>4. CASE UnregisterArg(d)
  <2>1. request[d].irq \in Sources
    BY <1>0, <1>4 DEF UnregisterArg
  <2>2. IrqTypeOK'
    BY <1>4, <2>1 DEF UnregisterArg, IrqTypeOK
  <2>3. ClaimIsExclusive' /\ HandlerAlone' /\ ServiceHasCpu' /\ OwnerIsPublished'
    BY <1>4 DEF UnregisterArg, ClaimIsExclusive, HandlerAlone, ServiceHasCpu, OwnerIsPublished
  <2>. QED
    BY <2>2, <2>3
<1>. QED
  BY <1>1, <1>2, <1>3, <1>4

(* The claim: the CPU gets a source nobody services.                       *)
LEMMA ClaimStep ==
    ASSUME IrqsServed, NEW c \in IrqCpus, plic_claim(c)
    PROVE  IrqsServed'
<1>. USE DEF IrqsServed
<1>0. OwnerIsPublished'
  BY DEF plic_claim, OwnerIsPublished
<1>1. CASE Signalled(c) = {}
  <2>1. IrqTypeOK'
    BY <1>1 DEF plic_claim, IrqTypeOK, Idle
  <2>2. /\ cpu[c].at \notin Claimed /\ cpu'[c].at \notin Claimed
        /\ \A b \in IrqCpus \ {c} : cpu'[b] = cpu[b]
        /\ service' = service
    BY <1>1 DEF plic_claim, IrqTypeOK, Idle, Claimed
  <2>3. ClaimIsExclusive' /\ HandlerAlone'
    BY <2>2 DEF ClaimIsExclusive, HandlerAlone, Claimed
  <2>4. ServiceHasCpu'
    BY <2>2 DEF ServiceHasCpu, IrqTypeOK
  <2>. QED
    BY <1>0, <2>1, <2>2, <2>3, <2>4
<1>2. CASE Signalled(c) # {}
  <2>. DEFINE i == Min(Signalled(c))
  <2>1. i \in Sources /\ i \in pending /\ service[i] = NoIrq
    BY <1>2, ClaimsLowest
  <2>2. /\ cpu' = [cpu EXCEPT ![c].at = "load", ![c].irq = i]
        /\ pending' = pending \ {i} /\ service' = [service EXCEPT ![i] = c]
        /\ UNCHANGED <<handler_ptr, arg, owner, request, enabled>>
    BY <1>2 DEF plic_claim
  <2>. HIDE DEF i
  <2>3. IrqTypeOK'
    <3>. DEFINE R == [at : {"idle", "claim"} \union Claimed, irq : Sources \union {NoIrq},
                      h : Drivers \union {NoDriver}, a : Drivers \union {NoDriver}]
                r == [cpu[c] EXCEPT !.at = "load", !.irq = i]
    <3>1. cpu' \in [IrqCpus -> R]
      <4>1. i \in Sources \union {NoIrq} /\ "load" \in {"idle", "claim"} \union Claimed
        BY <2>1 DEF Claimed
      <4>2. cpu \in [IrqCpus -> R]
        BY DEF IrqTypeOK
      <4>3. r \in R
        BY <4>1, <4>2, Zenon
      <4>4. cpu' = [cpu EXCEPT ![c] = r]
        BY <2>2, Zenon
      <4>. HIDE DEF R, r
      <4>. QED
        BY <4>2, <4>3, <4>4
    <3>. QED
      BY <2>1, <2>2, <3>1 DEF IrqTypeOK
  <2>4. \A b \in IrqCpus : cpu[b].at \in Claimed => cpu[b].irq # i
    BY <2>1, IrqAssumption DEF ClaimIsExclusive
  <2>5. ClaimIsExclusive' /\ ServiceHasCpu'
    BY <2>1, <2>2, <2>4, IrqAssumption DEF ClaimIsExclusive, ServiceHasCpu, IrqTypeOK, Claimed
  <2>6. HandlerAlone'
    BY <2>5, <2>3 DEF ClaimIsExclusive, HandlerAlone, Claimed
  <2>. QED
    BY <1>0, <2>3, <2>5, <2>6
<1>. QED
  BY <1>1, <1>2

(* From the load of the handler to its return the CPU keeps its claim.     *)
LEMMA DispatchStep ==
    ASSUME IrqsServed, NEW c \in IrqCpus, DispatchLoad(c) \/ DispatchCall(c) \/ HandlerReturns(c)
    PROVE  IrqsServed'
<1>. USE IrqAssumption DEF IrqsServed, DispatchLoad, DispatchCall, HandlerReturns, ServiceInHandler
<1>0. cpu[c].at \in Claimed /\ cpu[c].irq \in Sources
  BY DEF ClaimIsExclusive, Claimed
<1>1. IrqTypeOK'
  <2>1. cpu' \in [IrqCpus -> [at : {"idle", "claim"} \union Claimed, irq : Sources \union {NoIrq},
                             h : Drivers \union {NoDriver}, a : Drivers \union {NoDriver}]]
    BY <1>0 DEF IrqTypeOK, Claimed
  <2>. QED
    BY <2>1 DEF IrqTypeOK
<1>2. ClaimIsExclusive' /\ ServiceHasCpu' /\ OwnerIsPublished'
  <2>1. /\ service' = service
        /\ cpu'[c].irq = cpu[c].irq /\ cpu'[c].at \in Claimed
        /\ \A b \in IrqCpus \ {c} : cpu'[b] = cpu[b]
    BY DEF IrqTypeOK, Claimed
  <2>2. ClaimIsExclusive'
    BY <1>0, <2>1 DEF ClaimIsExclusive
  <2>3. ServiceHasCpu'
    BY <1>0, <2>1 DEF ServiceHasCpu, IrqTypeOK
  <2>4. OwnerIsPublished'
    BY DEF OwnerIsPublished
  <2>. QED
    BY <2>2, <2>3, <2>4
<1>3. HandlerAlone'
  BY <1>1, <1>2 DEF ClaimIsExclusive, HandlerAlone, Claimed
<1>. QED
  BY <1>1, <1>2, <1>3

(* The completion gives the source back; no other CPU had it.              *)
LEMMA CompleteStep ==
    ASSUME IrqsServed, NEW c \in IrqCpus, plic_complete(c)
    PROVE  IrqsServed'
<1>. USE IrqAssumption DEF IrqsServed, plic_complete
<1>0. cpu[c].irq \in Sources /\ service[cpu[c].irq] = c
  BY DEF ClaimIsExclusive, Claimed
<1>1. IrqTypeOK'
  BY <1>0 DEF IrqTypeOK, Idle
<1>2. ClaimIsExclusive' /\ ServiceHasCpu' /\ OwnerIsPublished'
  BY <1>0 DEF IrqTypeOK, ClaimIsExclusive, ServiceHasCpu, OwnerIsPublished, Claimed, Idle
<1>3. HandlerAlone'
  BY <1>1, <1>2 DEF ClaimIsExclusive, HandlerAlone, Claimed
<1>. QED
  BY <1>1, <1>2, <1>3

(* The lines, the enable bits and the trap itself leave the claims alone.  *)
LEMMA LineStep ==
    ASSUME IrqsServed,
           \/ \E i \in Sources : Raise(i)
           \/ \E c \in IrqCpus : TakeTrap(c) \/ \E i \in Sources : plic_enable(c, i) \/ plic_disable(c, i)
    PROVE  IrqsServed'
<1>. USE IrqAssumption DEF IrqsServed
<1>1. ASSUME NEW i \in Sources, Raise(i)
      PROVE  IrqsServed'
  BY <1>1 DEF Raise, IrqTypeOK, ClaimIsExclusive, HandlerAlone, ServiceHasCpu, OwnerIsPublished
<1>2. ASSUME NEW c \in IrqCpus, TakeTrap(c)
      PROVE  IrqsServed'
  <2>1. IrqTypeOK'
    BY <1>2 DEF TakeTrap, IrqTypeOK, Claimed
  <2>2. ClaimIsExclusive' /\ HandlerAlone' /\ ServiceHasCpu' /\ OwnerIsPublished'
    <3>1. /\ cpu[c].at \notin Claimed /\ cpu'[c].at \notin Claimed
          /\ \A b \in IrqCpus \ {c} : cpu'[b] = cpu[b]
      BY <1>2 DEF TakeTrap, IrqTypeOK, Claimed
    <3>2. ClaimIsExclusive' /\ HandlerAlone'
      BY <1>2, <3>1 DEF TakeTrap, ClaimIsExclusive, HandlerAlone, Claimed
    <3>3. ServiceHasCpu' /\ OwnerIsPublished'
      BY <1>2, <3>1 DEF TakeTrap, ServiceHasCpu, IrqTypeOK, OwnerIsPublished
    <3>. QED
      BY <3>2, <3>3
  <2>. QED
    BY <2>1, <2>2
<1>3. ASSUME NEW c \in IrqCpus, NEW i \in Sources, plic_enable(c, i) \/ plic_disable(c, i)
      PROVE  IrqsServed'
  <2>1. enabled' \in [IrqCpus -> SUBSET Sources]
    BY <1>3 DEF plic_enable, plic_disable, IrqTypeOK
  <2>2. UNCHANGED <<handler_ptr, arg, owner, request, pending, service, cpu>>
    BY <1>3 DEF plic_enable, plic_disable
  <2>. QED
    BY <2>1, <2>2 DEF IrqTypeOK, ClaimIsExclusive, HandlerAlone, ServiceHasCpu, OwnerIsPublished
<1>. QED
  BY <1>1, <1>2, <1>3

(* Whatever CPUs, devices and drivers do: a handler runs on one CPU at a   *)
(* time for one source, every interrupt in service has the CPU that will   *)
(* complete it, and dispatch finds the handler whose registration won.     *)
THEOREM IrqSafety == IrqSpec => []IrqsServed
<1>1. IrqsServed /\ [IrqNext]_irqVars => IrqsServed'
  <2>. SUFFICES ASSUME IrqsServed, [IrqNext]_irqVars
       PROVE  IrqsServed'
    OBVIOUS
  <2>1. CASE UNCHANGED irqVars
    BY <2>1 DEF irqVars, IrqsServed, IrqTypeOK, ClaimIsExclusive, HandlerAlone, ServiceHasCpu, OwnerIsPublished
  <2>2. CASE IrqNext
    BY <2>2, DriverStep, ClaimStep, DispatchStep, CompleteStep, LineStep DEF IrqNext
  <2>. QED
    BY <2>1, <2>2
<1>. QED
  BY <1>1, IrqInitServed, PTL DEF IrqSpec
=============================================================================
