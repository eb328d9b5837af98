----------------------------- MODULE TaskLemmas -----------------------------
(***************************************************************************)
(* Proofs about PidAlloc and the first half of TaskLife, for any number of *)
(* CPUs, tasks and PIDs: the allocator's arithmetic, the inductive         *)
(* invariant of the task life cycle, and the steps that create and switch  *)
(* tasks.                                                                  *)
(***************************************************************************)
EXTENDS TaskLife, SeqFacts

(* A PID is a word and a bit of it.                                        *)
LEMMA WordAndBit ==
    ASSUME NEW p \in 0 .. kMaxPid - 1
    PROVE  /\ p \div kWordBits \in Words /\ p % kWordBits \in Bits
           /\ p = (p \div kWordBits) * kWordBits + (p % kWordBits)
<1>. DEFINE w == p \div kWordBits
<1>1. kWordBits \in Nat \ {0} /\ kBitmapWords \in Nat /\ p \in Nat /\ p < kWordBits * kBitmapWords
  BY BitmapAssumption DEF kMaxPid
<1>2. w \in Int /\ p % kWordBits \in 0 .. kWordBits - 1 /\ p = w * kWordBits + (p % kWordBits)
  BY <1>1
<1>. DEFINE b == p % kWordBits
<1>. HIDE DEF w, b
<1>3. w >= 0
  BY <1>1, <1>2 DEF b
<1>4. w < kBitmapWords
  <2>1. w * kWordBits < kBitmapWords * kWordBits
    BY <1>1, <1>2 DEF b
  <2>. QED
    BY <1>1, <1>2, <2>1
<1>. QED
  BY <1>1, <1>2, <1>3, <1>4 DEF Words, Bits, w

(* Each bit of each word is a PID, and a different one.                    *)
LEMMA PidOfBit ==
    ASSUME NEW w \in Words, NEW b \in Bits
    PROVE  LET p == w * kWordBits + b
           IN  p \in 0 .. kMaxPid - 1 /\ p \div kWordBits = w /\ p % kWordBits = b
<1>. DEFINE p == w * kWordBits + b
<1>1. /\ kWordBits \in Nat \ {0} /\ kBitmapWords \in Nat
      /\ w \in Nat /\ w <= kBitmapWords - 1 /\ b \in Nat /\ b < kWordBits
  BY BitmapAssumption DEF Words, Bits
<1>2. p \div kWordBits = w /\ p % kWordBits = b /\ p \in Nat
  BY <1>1
<1>3. w * kWordBits <= (kBitmapWords - 1) * kWordBits
  BY <1>1
<1>4. p < kWordBits * kBitmapWords
  BY <1>1, <1>3
<1>. QED
  BY <1>1, <1>2, <1>4 DEF kMaxPid

(* alloc()'s passes visit every word, from wherever the hint points.       *)
LEMMA EveryWordVisited ==
    ASSUME NEW h \in Words
    PROVE  /\ \A i \in Words : (h + i) % kBitmapWords \in Words
           /\ \A w \in Words : \E i \in Words : (h + i) % kBitmapWords = w
<1>1. kBitmapWords \in Nat \ {0} /\ h \in 0 .. kBitmapWords - 1
  BY BitmapAssumption DEF Words
<1>2. ASSUME NEW i \in Words
      PROVE  (h + i) % kBitmapWords \in Words
  BY <1>1, <1>2 DEF Words
<1>3. ASSUME NEW w \in Words
      PROVE  \E i \in Words : (h + i) % kBitmapWords = w
  <2>1. CASE w >= h
    <3>1. w - h \in Words /\ h + (w - h) = w /\ w % kBitmapWords = w
      BY <1>1, <1>3, <2>1 DEF Words
    <3>. QED
      BY <3>1
  <2>2. CASE w < h
    <3>1. /\ w - h + kBitmapWords \in Words
          /\ h + (w - h + kBitmapWords) = 1 * kBitmapWords + w
      BY <1>1, <1>3, <2>2 DEF Words
    <3>2. (1 * kBitmapWords + w) % kBitmapWords = w
      BY <1>1, <1>3 DEF Words
    <3>. QED
      BY <3>1, <3>2
  <2>. QED
    BY <1>1, <1>3, <2>1, <2>2 DEF Words
<1>. QED
  BY <1>2, <1>3

(* The fields of the allocator.                                            *)
LEMMA AllocatorFields ==
    ASSUME NEW a \in PidAllocators
    PROVE  /\ a.bitmap \in [Words -> SUBSET Bits] /\ a.next_hint \in 2 .. kMaxPid - 1
           /\ a.next_hint \div kWordBits \in Words
<1>1. a.bitmap \in [Words -> SUBSET Bits] /\ a.next_hint \in 2 .. kMaxPid - 1
  BY DEF PidAllocators
<1>2. kMaxPid \in Nat
  BY BitmapAssumption DEF kMaxPid
<1>. QED
  BY <1>1, <1>2, WordAndBit

(* alloc() finds a free PID if there is one, and takes it only.            *)
LEMMA AllocTakesFree ==
    ASSUME NEW a \in PidAllocators, {0, 1} \subseteq Used(a)
    PROVE  LET p == alloc_result(a)
           IN  \/ p = -1 /\ Used(a) = 0 .. kMaxPid - 1
               \/ /\ p \in (2 .. kMaxPid - 1) \ Used(a)
                  /\ alloc_update(a, p) \in PidAllocators
                  /\ Used(alloc_update(a, p)) = Used(a) \union {p}
<1>. DEFINE h == a.next_hint \div kWordBits
            V(i) == (h + i) % kBitmapWords
            p == alloc_result(a)
<1>1. a.bitmap \in [Words -> SUBSET Bits] /\ a.next_hint \in 2 .. kMaxPid - 1 /\ h \in Words
  BY AllocatorFields
<1>2. /\ \A i \in Words : V(i) \in Words
      /\ \A w \in Words : \E i \in Words : V(i) = w
  BY <1>1, EveryWordVisited, Zenon
<1>3. Candidates(a) = {i \in Words : Bits \ a.bitmap[V(i)] # {}}
  BY DEF Candidates
<1>4. Words \in SUBSET Nat /\ Bits \in SUBSET Nat /\ kMaxPid \in Nat
  BY BitmapAssumption DEF Words, Bits, kMaxPid
<1>5. p = IF Candidates(a) = {} THEN -1
          ELSE LET w == V(Min(Candidates(a))) IN w * kWordBits + Min(Bits \ a.bitmap[w])
  BY DEF alloc_result
<1>. HIDE DEF h, V, p
<1>6. CASE Candidates(a) = {}
  <2>1. ASSUME NEW w \in Words
        PROVE  a.bitmap[w] = Bits
    <3>1. PICK i \in Words : V(i) = w
      BY <1>2
    <3>2. Bits \ a.bitmap[V(i)] = {}
      BY <1>3, <1>6
    <3>3. a.bitmap[w] \in SUBSET Bits
      BY <1>1
    <3>. QED
      BY <3>1, <3>2, <3>3, Zenon
  <2>2. Used(a) = 0 .. kMaxPid - 1
    <3>1. \A x \in 0 .. kMaxPid - 1 : x % kWordBits \in a.bitmap[x \div kWordBits]
      BY <2>1, WordAndBit
    <3>. QED
      BY <3>1 DEF Used
  <2>. QED
    BY <1>5, <1>6, <2>2 DEF p
<1>7. CASE Candidates(a) # {}
  <2>1. PICK w \in Words : w = V(Min(Candidates(a))) /\ Bits \ a.bitmap[w] # {}
    <3>1. Min(Candidates(a)) \in Candidates(a)
      BY <1>3, <1>4, <1>7, MinIsLeast, Zenon
    <3>. QED
      BY <1>2, <1>3, <3>1, Zenon
  <2>2. PICK b \in Bits : b = Min(Bits \ a.bitmap[w]) /\ b \notin a.bitmap[w]
    BY <1>4, <2>1, MinIsLeast, Zenon
  <2>3. p = w * kWordBits + b
    BY <1>5, <1>7, <2>1, <2>2
  <2>4. p \in 0 .. kMaxPid - 1 /\ p \div kWordBits = w /\ p % kWordBits = b
    BY <2>3, PidOfBit
  <2>5. p \notin Used(a)
    BY <2>2, <2>4 DEF Used
  <2>6. p \in 2 .. kMaxPid - 1
    BY <1>4, <2>4, <2>5
  <2>. DEFINE m == [a.bitmap EXCEPT ![w] = @ \union {b}]
              n == IF p + 1 >= kMaxPid THEN 2 ELSE p + 1
  <2>7. alloc_update(a, p) = [bitmap |-> m, next_hint |-> n]
    BY <2>4, Zenon DEF alloc_update, Mark
  <2>8. m \in [Words -> SUBSET Bits] /\ n \in 2 .. kMaxPid - 1
    BY <1>1, <1>4, <2>6
  <2>9. alloc_update(a, p) \in PidAllocators
    BY <2>7, <2>8 DEF PidAllocators
  <2>10. ASSUME NEW x \in 0 .. kMaxPid - 1
         PROVE  x % kWordBits \in m[x \div kWordBits] <=> x % kWordBits \in a.bitmap[x \div kWordBits] \/ x = p
    <3>1. /\ x \div kWordBits \in Words /\ x % kWordBits \in Bits
          /\ x \div kWordBits = w /\ x % kWordBits = b => x = p
      BY <2>3, WordAndBit
    <3>. QED
      BY <1>1, <2>4, <3>1
  <2>11. Used(alloc_update(a, p)) = Used(a) \union {p}
    BY <2>4, <2>7, <2>10 DEF Used
  <2>. QED
    BY <2>5, <2>6, <2>9, <2>11 DEF p
<1>. QED
  BY <1>6, <1>7

(* free() gives back that PID and no other.                                *)
LEMMA FreeGivesBack ==
    ASSUME NEW a \in PidAllocators, NEW p \in 0 .. kMaxPid - 1
    PROVE  free(a, p) \in PidAllocators /\ Used(free(a, p)) = Used(a) \ {p}
<1>. DEFINE w == p \div kWordBits
            b == p % kWordBits
            m == [a.bitmap EXCEPT ![w] = @ \ {b}]
<1>1. a.bitmap \in [Words -> SUBSET Bits] /\ a.next_hint \in 2 .. kMaxPid - 1
  BY AllocatorFields
<1>2. w \in Words /\ b \in Bits /\ p = w * kWordBits + b
  BY WordAndBit
<1>3. free(a, p) = [a EXCEPT !.bitmap = m]
  <2>1. ~(p < 0 \/ p >= kMaxPid)
    BY BitmapAssumption DEF kMaxPid
  <2>. QED
    BY <2>1 DEF free
<1>. HIDE DEF w, b
<1>4. m \in [Words -> SUBSET Bits]
  BY <1>1, <1>2
<1>5. ASSUME NEW x \in 0 .. kMaxPid - 1
      PROVE  x % kWordBits \in m[x \div kWordBits] <=> x % kWordBits \in a.bitmap[x \div kWordBits] /\ x # p
  <2>1. /\ x \div kWordBits \in Words /\ x % kWordBits \in Bits
        /\ x \div kWordBits = w /\ x % kWordBits = b <=> x = p
    BY <1>2, WordAndBit DEF w, b
  <2>. QED
    BY <1>1, <1>2, <2>1
<1>. HIDE DEF m
<1>6. free(a, p) \in PidAllocators /\ free(a, p).bitmap = m
  BY <1>1, <1>3, <1>4 DEF PidAllocators
<1>. QED
  BY <1>5, <1>6 DEF Used

(* At boot PIDs 0 and 1 are taken.                                         *)
LEMMA FreshPidsUsed ==
    FreshPids \in PidAllocators /\ Used(FreshPids) = {0, 1}
<1>. DEFINE m == [w \in Words |-> IF w = 0 THEN {0, 1} ELSE {}]
<1>1. /\ kWordBits \in Nat /\ kWordBits > 1 /\ kBitmapWords \in Nat /\ kBitmapWords > 0
      /\ kMaxPid \in Nat /\ kMaxPid > 2 /\ 0 \in Words
  BY BitmapAssumption DEF kMaxPid, Words
<1>2. m \in [Words -> SUBSET Bits] /\ 2 \in 2 .. kMaxPid - 1
  BY <1>1 DEF Bits
<1>3. FreshPids \in PidAllocators /\ FreshPids.bitmap = m
  BY <1>2 DEF FreshPids, PidAllocators
<1>4. ASSUME NEW x \in 0 .. kMaxPid - 1
      PROVE  x % kWordBits \in m[x \div kWordBits] <=> x \in {0, 1}
  <2>1. /\ x \div kWordBits \in Words
        /\ x = (x \div kWordBits) * kWordBits + (x % kWordBits)
    BY WordAndBit
  <2>2. x \in {0, 1} => x \div kWordBits = 0 /\ x % kWordBits = x
    <3>1. 0 * kWordBits = 0 /\ 0 \in Bits /\ 1 \in Bits
      BY <1>1 DEF Bits
    <3>2. \A b \in Bits : (0 * kWordBits + b) \div kWordBits = 0 /\ (0 * kWordBits + b) % kWordBits = b
      BY <1>1, PidOfBit
    <3>. QED
      BY <3>1, <3>2
  <2>3. x \div kWordBits = 0 => x % kWordBits = x
    BY <1>1, <2>1
  <2>. QED
    BY <2>1, <2>2, <2>3
<1>. QED
  BY <1>1, <1>3, <1>4 DEF Used

-----------------------------------------------------------------------------
(* The inductive invariant of the task life cycle.  AllocComplete follows  *)
(* from it; the other parts of TasksExact need each other.                 *)
LifeInv ==
    /\ TypeOK /\ PidsConserved /\ TaskListExact
    /\ FamilyTree /\ FosteredOrphans /\ CallsFit /\ CurrentFits

(* A CPU in the middle of a call runs its caller, and no CPU runs a task   *)
(* that another one runs or that a call has in hand.                       *)
LEMMA Apart ==
    ASSUME TypeOK, CallsFit, CurrentFits, NEW c \in Cpus
    PROVE  /\ work[c] # None => /\ work[c] \in Tasks /\ current[c] \in Tasks
                                /\ state[work[c]] \in {"Runnable", "Zombie"} /\ state[current[c]] = "Running"
           /\ \A d \in Cpus : current[c] # None /\ current[c] = current[d] => c = d
           /\ \A d \in Cpus : work[c] # None /\ work[c] = work[d] => c = d
           /\ \A d \in Cpus : work[c] # None => work[c] # current[d]
           /\ current[c] # None => current[c] \in Tasks /\ state[current[c]] \notin {"free", "Zombie"}
<1>1. \A d \in Cpus : current[d] # None =>
         /\ current[d] \in Tasks /\ cpu_of[current[d]] = d
         /\ state[current[d]] \in IF pc[d] = "panic" THEN {"Sleeping", "Runnable"} ELSE {"Running"}
  BY DEF TypeOK, CurrentFits
<1>2. \A d \in Cpus : current[d] = None => pc[d] = "out"
  BY DEF CurrentFits
<1>3. CallFits(c)
  BY DEF CallsFit
<1>4. work[c] # None => /\ work[c] \in Tasks /\ pc[c] \notin {"out", "panic"}
                        /\ Making(c) \/ Reaping(c)
  BY <1>3 DEF TypeOK, CallFits, Making, Reaping, Labels
<1>5. work[c] # None => state[work[c]] \in {"Runnable", "Zombie"} /\ (state[work[c]] = "Runnable" => cpu_of[work[c]] = c)
  BY <1>3, <1>4 DEF CallFits
<1>6. work[c] # None => current[c] \in Tasks /\ state[current[c]] = "Running"
  BY <1>1, <1>2, <1>4
<1>7. ASSUME NEW d \in Cpus, work[c] # None, work[c] = current[d]
      PROVE  FALSE
  <2>1. current[d] # None /\ state[current[d]] \in {"Runnable", "Sleeping", "Running"}
    BY <1>1, <1>7
  <2>2. cpu_of[current[d]] = c
    BY <1>5, <1>7, <2>1
  <2>3. d = c
    BY <1>1, <2>1, <2>2
  <2>. QED
    BY <1>5, <1>6, <1>7, <2>3
<1>8. \A d \in Cpus : work[c] # None /\ work[c] = work[d] => c = d
  BY DEF CallsFit
<1>. QED
  BY <1>1, <1>4, <1>5, <1>6, <1>7, <1>8

(* A step of CPU c is the business of no task but the one in its hand.     *)
LEMMA BusyFrame ==
    ASSUME NEW c \in Cpus, \A d \in Cpus \ {c} : work'[d] = work[d] /\ pc'[d] = pc[d],
           NEW t, t # work[c], t # work'[c], NEW labels
    PROVE  Busy(t, labels)' <=> Busy(t, labels)
  BY DEF Busy

(* The task in hand is the business of that call alone, before the step    *)
(* and, if it stays in hand, after it.                                     *)
LEMMA BusyInHand ==
    ASSUME CallsFit, NEW c \in Cpus, work[c] # None,
           \A d \in Cpus \ {c} : work'[d] = work[d] /\ pc'[d] = pc[d], NEW labels
    PROVE  /\ Busy(work[c], labels) <=> pc[c] \in labels
           /\ work'[c] = work[c] => (Busy(work[c], labels)' <=> pc'[c] \in labels)
           /\ work'[c] = None => ~\E d \in Cpus : work'[d] = work[c]
<1>. PICK t : t = work[c]
  OBVIOUS
<1>1. \A d \in Cpus : work[d] = t => d = c
  BY DEF CallsFit
<1>2. \A d \in Cpus : work'[d] = t => d = c
  BY <1>1
<1>. QED
  BY <1>1, <1>2 DEF Busy

(* PidsConserved depends on the allocator, on who owns a PID and on which. *)
LEMMA PidsFrame ==
    ASSUME PidsConserved, pids' = pids, \A t \in Tasks : Owns(t)' <=> Owns(t),
           \A t \in Tasks : Owns(t) => pid'[t] = pid[t]
    PROVE  PidsConserved'
<1>1. {pid'[t] : t \in {u \in Tasks : Owns(u)'}} = {pid[t] : t \in {u \in Tasks : Owns(u)}}
  OBVIOUS
<1>2. Used(pids)' = {0, 1} \union {pid'[t] : t \in {u \in Tasks : Owns(u)'}}
  BY <1>1 DEF PidsConserved
<1>3. \A t, u \in Tasks : Owns(t)' /\ Owns(u)' /\ pid'[t] = pid'[u] => t = u
  BY DEF PidsConserved
<1>4. \A t \in Tasks : Owns(t)' => (pid'[t] = 1 <=> t = Root) /\ pid'[t] > 0
  BY DEF PidsConserved
<1>. QED
  BY <1>2, <1>3, <1>4 DEF PidsConserved

(* A PID that was free has one owner once it is taken.                     *)
LEMMA PidTaken ==
    ASSUME PidsConserved, NEW w \in Tasks \ {Root}, NEW p \in (2 .. kMaxPid - 1) \ Used(pids),
           Used(pids') = Used(pids) \union {p}, pid'[w] = p, Owns(w)', ~Owns(w),
           \A t \in Tasks \ {w} : (Owns(t)' <=> Owns(t)) /\ pid'[t] = pid[t]
    PROVE  PidsConserved'
<1>1. \A x : x \in Used(pids') <=> x \in {0, 1} \/ \E t \in Tasks : Owns(t)' /\ pid'[t] = x
  BY DEF PidsConserved
<1>2. \A t \in Tasks : Owns(t) => pid[t] \in Used(pids)
  BY DEF PidsConserved
<1>3. \A t, u \in Tasks : Owns(t)' /\ Owns(u)' /\ pid'[t] = pid'[u] => t = u
  BY <1>2 DEF PidsConserved
<1>4. \A t \in Tasks : Owns(t)' => (pid'[t] = 1 <=> t = Root) /\ pid'[t] > 0
  BY <1>2 DEF PidsConserved
<1>5. Used(pids)' = {0, 1} \union {pid'[t] : t \in {u \in Tasks : Owns(u)'}}
  BY <1>1
<1>. QED
  BY <1>3, <1>4, <1>5 DEF PidsConserved

(* A PID given back has no owner left.                                     *)
LEMMA PidReturned ==
    ASSUME PidsConserved, NEW w \in Tasks \ {Root}, Used(pids') = Used(pids) \ {pid[w]},
           Owns(w), ~Owns(w)', UNCHANGED pid, \A t \in Tasks \ {w} : Owns(t)' <=> Owns(t)
    PROVE  PidsConserved'
<1>0. pid[w] \notin {0, 1}
  BY DEF PidsConserved
<1>1. \A x : x \in Used(pids') <=> x \in {0, 1} \/ \E t \in Tasks : Owns(t)' /\ pid'[t] = x
  BY <1>0 DEF PidsConserved
<1>2. Used(pids)' = {0, 1} \union {pid'[t] : t \in {u \in Tasks : Owns(u)'}}
  BY <1>1
<1>3. \A t, u \in Tasks : Owns(t)' /\ Owns(u)' /\ pid'[t] = pid'[u] => t = u
  BY DEF PidsConserved
<1>4. \A t \in Tasks : Owns(t)' => (pid'[t] = 1 <=> t = Root) /\ pid'[t] > 0
  BY DEF PidsConserved
<1>. QED
  BY <1>2, <1>3, <1>4 DEF PidsConserved

(* TaskListExact depends on the list, its counter and who is to be on it.  *)
LEMMA ListFrame ==
    ASSUME TaskListExact, UNCHANGED listVars, \A t \in Tasks : Listed(t)' <=> Listed(t)
    PROVE  TaskListExact'
  BY DEF TaskListExact, listVars

(* Family lists that nobody touches stay right if no listed task is freed. *)
LEMMA FamilyFrame ==
    ASSUME FamilyTree, UNCHANGED <<parent, children>>,
           \A t \in Tasks : state'[t] # "free" => state[t] # "free",
           \A t, n \in Tasks : state'[t] # "free" /\ n \in Range(children[t]) /\ state[n] # "free" /\ parent[n] = t =>
                                  state'[n] # "free"
    PROVE  FamilyTree'
  BY DEF FamilyTree

(* A task keeps its place in its parent's list.                            *)
LEMMA FosteredFrame ==
    ASSUME TypeOK, FosteredOrphans, UNCHANGED <<g_init_task, parent>>,
           \A t \in Tasks : /\ state'[t] \notin {"free", "Zombie"} => state[t] \notin {"free", "Zombie"}
                            /\ state'[t] = "Zombie" => state[t] = "Zombie"
                            /\ children[t] = <<>> => children'[t] = <<>>,
           \A t, p \in Tasks : state'[t] \notin {"free", "Zombie"} /\ t \in Range(children[p]) /\ parent[t] = p =>
                                  (state[p] # "free" => state'[p] # "free") /\ t \in Range(children'[p])
    PROVE  FosteredOrphans'
<1>. SUFFICES ASSUME g_init_task # None, NEW t \in Tasks
     PROVE  Fostered(t)'
  BY DEF FosteredOrphans
<1>1. Fostered(t)
  BY DEF FosteredOrphans
<1>2. ASSUME state'[t] \notin {"free", "Zombie"}, parent[t] # None
      PROVE  state'[parent[t]] # "free" /\ t \in Range(children'[parent[t]])
  <2>1. parent[t] \in Tasks /\ state[parent[t]] # "free" /\ t \in Range(children[parent[t]])
    BY <1>1, <1>2 DEF TypeOK, Fostered
  <2>. QED
    BY <1>2, <2>1
<1>. QED
  BY <1>1, <1>2 DEF Fostered

(* Steps of a call do not change who runs where.                           *)
LEMMA CurrentFrame ==
    ASSUME TypeOK, CurrentFits, UNCHANGED <<current, cpu_of, parent>>,
           \A d \in Cpus : /\ pc'[d] = "panic" <=> pc[d] = "panic"
                           /\ current[d] = None => pc'[d] = pc[d]
                           /\ current[d] # None => state'[current[d]] = state[current[d]],
           \A t \in Boots \union {Root} : state'[t] # "free"
    PROVE  CurrentFits'
<1>1. ASSUME NEW d \in Cpus
      PROVE  IF current[d] = None THEN pc'[d] = "out"
             ELSE /\ cpu_of[current[d]] = d
                  /\ state'[current[d]] \in IF pc'[d] = "panic" THEN {"Sleeping", "Runnable"} ELSE {"Running"}
  BY DEF CurrentFits
<1>2. \A t \in Boots \union {Root} : state'[t] # "free" /\ parent[t] = None
  BY DEF CurrentFits
<1>. QED
  BY <1>1, <1>2 DEF CurrentFits

(* A call on another CPU keeps what it knows.                              *)
LEMMA CallFrame ==
    ASSUME NEW d \in Cpus, CallFits(d),
           pc'[d] = pc[d], work'[d] = work[d], current'[d] = current[d],
           work[d] # None =>
               /\ state'[work[d]] = state[work[d]] /\ parent'[work[d]] = parent[work[d]]
               /\ cpu_of'[work[d]] = cpu_of[work[d]]
               /\ children[work[d]] = <<>> => children'[work[d]] = <<>>
               /\ work[d] \in Range(children'[current[d]]) <=> work[d] \in Range(children[current[d]])
    PROVE  CallFits(d)'
<1>1. /\ work'[d] = None <=> pc'[d] \in {"out", "panic"}
      /\ Making(d)' <=> Making(d)
      /\ Reaping(d)' <=> Reaping(d)
  BY DEF CallFits, Making, Reaping
<1>2. Making(d) \/ Reaping(d) => work[d] # None
  BY DEF CallFits, Making, Reaping
<1>3. Making(d) =>
         /\ state'[work[d]] = "Runnable" /\ children'[work[d]] = <<>> /\ cpu_of'[work[d]] = d
         /\ work[d] \notin Boots \union {Root}
         /\ parent'[work[d]] = None \/ (pc[d] = "list_add" /\ parent'[work[d]] = current[d])
  BY <1>2 DEF CallFits
<1>4. Reaping(d) =>
         /\ state'[work[d]] = "Zombie" /\ parent'[work[d]] = current[d]
         /\ pc[d] \in {"list_remove", "unlink"} <=> work[d] \in Range(children'[current[d]])
  BY <1>2 DEF CallFits
<1>. QED
  BY <1>1, <1>3, <1>4 DEF CallFits

(* All calls fit if every CPU's does and no task comes into two hands.     *)
LEMMA CallsFrame ==
    ASSUME CallsFit, NEW c \in Cpus, \A d \in Cpus \ {c} : work'[d] = work[d],
           \A d \in Cpus : CallFits(d)',
           work'[c] \in {None, work[c]} \/ \A d \in Cpus \ {c} : work[d] # work'[c]
    PROVE  CallsFit'
<1>1. \A a, b \in Cpus : work[a] = work[b] /\ work[a] # None => a = b
  BY DEF CallsFit
<1>2. \A a, b \in Cpus : work'[a] = work'[b] /\ work'[a] # None => a = b
  BY <1>1
<1>. QED
  BY <1>2 DEF CallsFit

(* The task that makes a call.                                             *)
LEMMA Caller ==
    ASSUME LifeInv, NEW c \in Cpus, NEW l, Calls(c, l), l # "panic"
    PROVE  /\ current[c] \in Tasks /\ current[c] # None /\ state[current[c]] = "Running" /\ pc[c] = l
           /\ \A d \in Cpus : work[d] # None => work[d] # current[c]
           /\ \A d \in Cpus \ {c} : current[d] # current[c]
<1>1. TypeOK /\ CallsFit /\ CurrentFits
  BY DEF LifeInv
<1>2. pc[c] = l /\ current[c] # None
  BY DEF Calls
<1>3. current[c] \in Tasks /\ state[current[c]] = "Running"
  BY <1>1, <1>2 DEF TypeOK, CurrentFits
<1>. QED
  BY <1>1, <1>2, <1>3, Apart

(* The task that a creation has in hand.                                   *)
LEMMA InMaking ==
    ASSUME LifeInv, NEW c \in Cpus, pc[c] \in {"pid", "clone", "link", "list_add"}
    PROVE  /\ work[c] \in Tasks /\ work[c] # None /\ work[c] \notin Boots \union {Root}
           /\ state[work[c]] = "Runnable" /\ children[work[c]] = <<>> /\ cpu_of[work[c]] = c
           /\ pc[c] # "list_add" => parent[work[c]] = None
           /\ \A d \in Cpus : current[d] # work[c]
           /\ \A d \in Cpus \ {c} : work[d] # work[c]
<1>1. TypeOK /\ CallsFit /\ CurrentFits /\ CallFits(c)
  BY DEF LifeInv, CallsFit
<1>2. Making(c) /\ work[c] # None
  BY <1>1 DEF CallFits, Making
<1>3. /\ work[c] \in Tasks /\ \A d \in Cpus : current[d] # work[c]
      /\ \A d \in Cpus \ {c} : work[d] # work[c]
  BY <1>1, <1>2, Apart
<1>. QED
  BY <1>1, <1>2, <1>3 DEF CallFits

(* The task that task_destroy has in hand.                                 *)
LEMMA InReaping ==
    ASSUME LifeInv, NEW c \in Cpus, pc[c] \in {"list_remove", "unlink", "free_pid", "delete"}
    PROVE  /\ work[c] \in Tasks /\ work[c] # None /\ work[c] \notin Boots \union {Root}
           /\ state[work[c]] = "Zombie" /\ parent[work[c]] = current[c]
           /\ pc[c] \in {"list_remove", "unlink"} <=> work[c] \in Range(children[current[c]])
           /\ \A d \in Cpus : current[d] # work[c]
           /\ \A d \in Cpus \ {c} : work[d] # work[c]
<1>1. TypeOK /\ CallsFit /\ CurrentFits /\ CallFits(c)
  BY DEF LifeInv, CallsFit
<1>2. Reaping(c) /\ work[c] # None
  BY <1>1 DEF CallFits, Reaping
<1>3. /\ work[c] \in Tasks /\ current[c] \in Tasks /\ \A d \in Cpus : current[d] # work[c]
      /\ \A d \in Cpus \ {c} : work[d] # work[c]
  BY <1>1, <1>2, Apart
<1>4. /\ state[work[c]] = "Zombie" /\ parent[work[c]] = current[c]
      /\ pc[c] \in {"list_remove", "unlink"} <=> work[c] \in Range(children[current[c]])
  BY <1>1, <1>2 DEF CallFits
<1>5. work[c] \notin Boots \union {Root}
  BY <1>1, <1>3, <1>4, LifeAssumption DEF CurrentFits
<1>. QED
  BY <1>2, <1>3, <1>4, <1>5

-----------------------------------------------------------------------------
(* alloc_task: a free TCB is in no list, in nobody's hand and not running. *)
LEMMA alloc_taskKeeps ==
    ASSUME LifeInv, UNCHANGED g_init_task, NEW c \in Cpus, NEW n \in Tasks, alloc_task(c, n)
    PROVE  LifeInv'
<1>0. TypeOK /\ CallsFit /\ CurrentFits /\ FamilyTree /\ pc[c] = "out" /\ state[n] = "free"
  BY DEF LifeInv, alloc_task, Calls
<1>1. current[c] \in Tasks /\ work[c] = None
  <2>1. CallFits(c) /\ Calls(c, "out")
    BY <1>0 DEF CallsFit, alloc_task
  <2>. QED
    BY <1>0, <2>1, Caller DEF CallFits
<1>2. n # None /\ \A d \in Cpus : work[d] # n /\ current[d] # n
  BY <1>0, Apart, LifeAssumption
<1>3. /\ state'[n] = "Runnable" /\ cpu_of'[n] = c /\ parent'[n] = None /\ children'[n] = <<>>
      /\ work'[c] = n /\ pc'[c] = "pid"
      /\ \A t \in Tasks \ {n} : /\ state'[t] = state[t] /\ cpu_of'[t] = cpu_of[t] /\ parent'[t] = parent[t]
                                /\ children'[t] = children[t] /\ pid'[t] = pid[t]
      /\ \A d \in Cpus \ {c} : work'[d] = work[d] /\ pc'[d] = pc[d]
      /\ UNCHANGED <<g_init_task, pids, listVars, current>>
  BY <1>0 DEF TypeOK, alloc_task, Goto
<1>4. ASSUME NEW t \in Tasks
      PROVE  (Owns(t)' <=> Owns(t)) /\ (Listed(t)' <=> Listed(t)) /\ (Owns(t) => t # n)
  <2>1. CASE t = n
    <3>1. Busy(t, {"pid", "delete"})'
          /\ Busy(t, {"pid", "clone", "link", "list_add", "unlink", "free_pid", "delete"})'
      BY <1>3, <2>1 DEF Busy
    <3>. QED
      BY <1>0, <2>1, <3>1 DEF Owns, Listed
  <2>2. CASE t # n
    <3>1. \A labels : Busy(t, labels)' <=> Busy(t, labels)
      <4>1. t # work[c] /\ t # work'[c]
        BY <1>1, <1>3, <2>2, LifeAssumption
      <4>. QED
        BY <1>3, <4>1, BusyFrame
    <3>. QED
      BY <1>3, <2>2, <3>1 DEF Owns, Listed
  <2>. QED
    BY <2>1, <2>2
<1>5. TypeOK'
  BY <1>0, <1>1, <1>3, EmptyIsList, BitmapAssumption DEF TypeOK, alloc_task, Goto, Labels, listVars, kMaxPid
<1>6. PidsConserved' /\ TaskListExact'
  BY <1>3, <1>4, PidsFrame, ListFrame DEF LifeInv
<1>7. FamilyTree'
  BY <1>0, <1>3, EmptyList DEF FamilyTree
<1>8. FosteredOrphans'
  <2>1. ASSUME NEW t \in Tasks, Fostered(t)
        PROVE  Fostered(t)'
    <3>1. CASE t = n
      BY <1>3, <3>1 DEF Fostered
    <3>2. CASE t # n
      <4>1. state'[t] = state[t] /\ parent'[t] = parent[t] /\ children'[t] = children[t]
        BY <1>3, <3>2
      <4>2. ASSUME state[t] \notin {"free", "Zombie"}, parent[t] # None
            PROVE  state'[parent[t]] # "free" /\ t \in Range(children'[parent[t]])
        <5>1. parent[t] \in Tasks \ {n} /\ state[parent[t]] # "free" /\ t \in Range(children[parent[t]])
          BY <1>0, <2>1, <4>2 DEF TypeOK, Fostered
        <5>. QED
          BY <1>3, <5>1
      <4>. QED
        BY <1>3, <2>1, <4>1, <4>2 DEF Fostered
    <3>. QED
      BY <3>1, <3>2
  <2>. QED
    BY <1>3, <2>1 DEF LifeInv, FosteredOrphans
<1>9. CallsFit'
  <2>1. ASSUME NEW d \in Cpus \ {c}
        PROVE  CallFits(d)'
    <3>1. CallFits(d) /\ (work[d] # None => work[d] \in Tasks /\ current[d] \in Tasks)
      BY <1>0, Apart DEF CallsFit
    <3>. QED
      BY <1>2, <1>3, <3>1, CallFrame
  <2>2. CallFits(c)'
    BY <1>0, <1>2, <1>3 DEF CallFits, Making, Reaping, CurrentFits
  <2>. QED
    BY <1>0, <1>2, <1>3, <2>1, <2>2, CallsFrame
<1>10. CurrentFits'
  BY <1>0, <1>1, <1>2, <1>3, LifeAssumption DEF CurrentFits, TypeOK, Boots
<1>. QED
  BY <1>5, <1>6, <1>7, <1>8, <1>9, <1>10 DEF LifeInv

(* AllocPid: the new task's PID was nobody's; without one the task is gone *)
(* before anybody knew it.                                                 *)
LEMMA AllocPidKeeps ==
    ASSUME LifeInv, UNCHANGED g_init_task, NEW c \in Cpus, AllocPid(c)
    PROVE  LifeInv'
<1>. PICK w : w = work[c]
  OBVIOUS
<1>0. TypeOK /\ CallsFit /\ CurrentFits /\ FamilyTree /\ FosteredOrphans /\ PidsConserved /\ TaskListExact
  BY DEF LifeInv
<1>1. pc[c] = "pid" /\ current[c] \in Tasks
  BY Caller DEF AllocPid, Calls
<1>2. /\ w \in Tasks /\ w # None /\ w \notin Boots \union {Root}
      /\ state[w] = "Runnable" /\ children[w] = <<>> /\ cpu_of[w] = c /\ parent[w] = None
      /\ \A d \in Cpus : current[d] # w
      /\ \A d \in Cpus \ {c} : work[d] # w
  BY <1>1, InMaking
<1>3. UNCHANGED <<g_init_task, kthread, cpu_of, parent, children, listVars, current>>
  BY DEF AllocPid
<1>4. CASE alloc_result(pids) < 0
  <2>1. /\ state'[w] = "free" /\ work'[c] = None /\ pc'[c] = "out"
        /\ \A t \in Tasks \ {w} : state'[t] = state[t]
        /\ \A d \in Cpus \ {c} : work'[d] = work[d] /\ pc'[d] = pc[d]
        /\ UNCHANGED <<pids, pid>>
    BY <1>0, <1>2, <1>4 DEF TypeOK, AllocPid, Return, Goto
  <2>2. ASSUME NEW t \in Tasks
        PROVE  (Owns(t)' <=> Owns(t)) /\ (Listed(t)' <=> Listed(t))
    <3>1. CASE t = w
      <4>1. Busy(w, {"pid", "delete"}) /\ Busy(w, {"pid", "clone", "link", "list_add", "unlink", "free_pid", "delete"})
        BY <1>1 DEF Busy
      <4>. QED
        BY <2>1, <3>1, <4>1 DEF Owns, Listed
    <3>2. CASE t # w
      <4>1. \A labels : Busy(t, labels)' <=> Busy(t, labels)
        BY <2>1, <3>2, BusyFrame, LifeAssumption
      <4>. QED
        BY <2>1, <3>2, <4>1 DEF Owns, Listed
    <3>. QED
      BY <3>1, <3>2
  <2>3. TypeOK'
    BY <1>0, <1>2, <1>3, <1>4, Zenon DEF TypeOK, AllocPid, Return, Goto, Labels, listVars
  <2>4. PidsConserved' /\ TaskListExact'
    BY <1>0, <1>3, <2>1, <2>2, PidsFrame, ListFrame
  <2>5. FamilyTree'
    BY <1>0, <1>2, <1>3, <2>1, FamilyFrame, LifeAssumption
  <2>6. FosteredOrphans'
    BY <1>0, <1>2, <1>3, <2>1, FosteredFrame, EmptyList
  <2>7. CallsFit'
    <3>1. ASSUME NEW d \in Cpus \ {c}
          PROVE  CallFits(d)'
      <4>1. CallFits(d) /\ (work[d] # None => work[d] \in Tasks)
        BY <1>0, Apart DEF CallsFit
      <4>. QED
        BY <1>2, <1>3, <2>1, <4>1, CallFrame
    <3>2. CallFits(c)'
      BY <2>1 DEF CallFits, Making, Reaping
    <3>. QED
      BY <1>0, <2>1, <3>1, <3>2, CallsFrame
  <2>8. CurrentFits'
    BY <1>0, <1>1, <1>2, <1>3, <2>1, CurrentFrame, LifeAssumption DEF TypeOK, CurrentFits, Boots
  <2>. QED
    BY <2>3, <2>4, <2>5, <2>6, <2>7, <2>8 DEF LifeInv
<1>5. CASE ~(alloc_result(pids) < 0)
  <2>. PICK p : p = alloc_result(pids)
    OBVIOUS
  <2>1. /\ p \in (2 .. kMaxPid - 1) \ Used(pids) /\ alloc_update(pids, p) \in PidAllocators
        /\ Used(alloc_update(pids, p)) = Used(pids) \union {p}
    <3>1. pids \in PidAllocators /\ {0, 1} \subseteq Used(pids)
      BY <1>0 DEF TypeOK, PidsConserved
    <3>. QED
      BY <1>5, <3>1, AllocTakesFree
  <2>2. /\ pids' = alloc_update(pids, p) /\ pid'[w] = p /\ pc'[c] \in {"list_add", "clone"}
        /\ \A t \in Tasks \ {w} : pid'[t] = pid[t]
        /\ \A d \in Cpus \ {c} : pc'[d] = pc[d]
        /\ UNCHANGED <<state, work>>
    BY <1>0, <1>2, <1>5 DEF TypeOK, AllocPid, Goto
  <2>3. /\ Owns(w)' /\ ~Owns(w) /\ ~Listed(w) /\ ~Listed(w)'
        /\ \A t \in Tasks \ {w} : (Owns(t)' <=> Owns(t)) /\ (Listed(t)' <=> Listed(t))
    <3>1. \A labels : (Busy(w, labels) <=> pc[c] \in labels) /\ (Busy(w, labels)' <=> pc'[c] \in labels)
      BY <1>0, <1>2, <2>2, BusyInHand
    <3>2. \A t \in Tasks \ {w} : \A labels : Busy(t, labels)' <=> Busy(t, labels)
      BY <2>2, BusyFrame
    <3>. QED
      BY <1>1, <1>2, <2>2, <3>1, <3>2 DEF Owns, Listed
  <2>4. TypeOK'
    <3>1. p \in -1 .. kMaxPid - 1
      BY <2>1, BitmapAssumption DEF kMaxPid
    <3>2. pid' \in [Tasks -> -1 .. kMaxPid - 1] /\ pc' \in [Cpus -> Labels]
      BY <1>0, <1>5, <3>1, Zenon DEF TypeOK, AllocPid, Goto, Labels
    <3>. QED
      BY <1>0, <1>3, <2>1, <2>2, <3>2 DEF TypeOK, listVars
  <2>5. PidsConserved'
    BY <1>0, <1>2, <2>1, <2>2, <2>3, PidTaken
  <2>6. TaskListExact'
    BY <1>0, <1>3, <2>3, ListFrame
  <2>7. FamilyTree' /\ FosteredOrphans'
    BY <1>0, <1>3, <2>2, FamilyFrame, FosteredFrame
  <2>8. CallsFit'
    <3>1. ASSUME NEW d \in Cpus \ {c}
          PROVE  CallFits(d)'
      BY <1>0, <1>3, <2>2, CallFrame DEF CallsFit
    <3>2. CallFits(c)'
      BY <1>1, <1>2, <1>3, <2>2 DEF CallFits, Making, Reaping
    <3>. QED
      BY <1>0, <2>2, <3>1, <3>2, CallsFrame
  <2>9. CurrentFits'
    BY <1>0, <1>1, <1>3, <2>2, CurrentFrame, LifeAssumption DEF CurrentFits
  <2>. QED
    BY <2>4, <2>5, <2>6, <2>7, <2>8, <2>9 DEF LifeInv
<1>. QED
  BY <1>4, <1>5

(* CloneMm: a failed fork gives back its PID and its TCB.                  *)
LEMMA CloneMmKeeps ==
    ASSUME LifeInv, UNCHANGED g_init_task, NEW c \in Cpus, CloneMm(c)
    PROVE  LifeInv'
<1>. PICK w : w = work[c]
  OBVIOUS
<1>0. TypeOK /\ CallsFit /\ CurrentFits /\ FamilyTree /\ FosteredOrphans /\ PidsConserved /\ TaskListExact
  BY DEF LifeInv
<1>1. pc[c] = "clone" /\ current[c] \in Tasks
  BY Caller DEF CloneMm, Calls
<1>2. /\ w \in Tasks /\ w # None /\ w \notin Boots \union {Root}
      /\ state[w] = "Runnable" /\ children[w] = <<>> /\ cpu_of[w] = c /\ parent[w] = None
      /\ \A d \in Cpus : current[d] # w
      /\ \A d \in Cpus \ {c} : work[d] # w
  BY <1>1, InMaking
<1>3. /\ UNCHANGED <<g_init_task, kthread, pid, cpu_of, parent, children, listVars, current>>
      /\ \A d \in Cpus \ {c} : work'[d] = work[d] /\ pc'[d] = pc[d]
      /\ \A t \in Tasks \ {w} : state'[t] = state[t]
  BY <1>0 DEF CloneMm, tcbVars, TypeOK, Return, Goto
<1>4. /\ \A labels : Busy(w, labels) <=> pc[c] \in labels
      /\ work'[c] = w => \A labels : Busy(w, labels)' <=> pc'[c] \in labels
      /\ work'[c] \in {None, w} => \A t \in Tasks \ {w} : \A labels : Busy(t, labels)' <=> Busy(t, labels)
  <2>1. /\ \A labels : Busy(w, labels) <=> pc[c] \in labels
        /\ work'[c] = w => \A labels : Busy(w, labels)' <=> pc'[c] \in labels
    BY <1>0, <1>2, <1>3, BusyInHand
  <2>2. work'[c] \in {None, w} => \A t \in Tasks \ {w} : \A labels : Busy(t, labels)' <=> Busy(t, labels)
    BY <1>3, BusyFrame, LifeAssumption
  <2>. QED
    BY <2>1, <2>2
<1>5. Owns(w) /\ ~Listed(w)
  BY <1>1, <1>2, <1>4 DEF Owns, Listed
<1>6. ASSUME NEW d \in Cpus \ {c}
      PROVE  CallFits(d)'
  <2>1. CallFits(d) /\ (work[d] # None => work[d] \in Tasks)
    BY <1>0, Apart DEF CallsFit
  <2>. QED
    BY <1>2, <1>3, <2>1, CallFrame
<1>7. CASE Goto(c, "link") /\ UNCHANGED <<pids, state, work>>
  <2>1. pc'[c] = "link" /\ work'[c] = w
    BY <1>0, <1>7 DEF TypeOK, Goto
  <2>2. \A t \in Tasks : (Owns(t)' <=> Owns(t)) /\ (Listed(t)' <=> Listed(t))
    BY <1>1, <1>4, <1>7, <2>1 DEF Owns, Listed
  <2>3. TypeOK'
    BY <1>0, <1>3, <1>7 DEF TypeOK, Goto, Labels, listVars
  <2>4. PidsConserved' /\ TaskListExact'
    BY <1>0, <1>3, <1>7, <2>2, PidsFrame, ListFrame
  <2>5. FamilyTree' /\ FosteredOrphans'
    BY <1>0, <1>3, <1>7, FamilyFrame, FosteredFrame
  <2>6. CallFits(c)'
    BY <1>2, <1>3, <1>7, <2>1 DEF CallFits, Making, Reaping
  <2>7. CallsFit'
    BY <1>0, <1>3, <1>6, <2>1, <2>6, CallsFrame
  <2>8. CurrentFits'
    BY <1>0, <1>1, <1>3, <1>7, <2>1, CurrentFrame, LifeAssumption DEF CurrentFits
  <2>. QED
    BY <2>3, <2>4, <2>5, <2>7, <2>8 DEF LifeInv
<1>8. CASE pids' = free(pids, pid[w]) /\ state' = [state EXCEPT ![w] = "free"] /\ Return(c)
  <2>1. pc'[c] = "out" /\ work'[c] = None /\ state'[w] = "free"
    BY <1>0, <1>2, <1>8 DEF TypeOK, Return, Goto
  <2>2. /\ ~Owns(w)' /\ ~Listed(w)'
        /\ \A t \in Tasks \ {w} : (Owns(t)' <=> Owns(t)) /\ (Listed(t)' <=> Listed(t))
    BY <1>3, <1>4, <2>1 DEF Owns, Listed
  <2>3. pids' \in PidAllocators /\ Used(pids') = Used(pids) \ {pid[w]}
    <3>1. pids \in PidAllocators /\ pid[w] \in 0 .. kMaxPid - 1
      BY <1>0, <1>2, <1>5 DEF TypeOK, PidsConserved
    <3>. QED
      BY <1>8, <3>1, FreeGivesBack
  <2>4. TypeOK'
    BY <1>0, <1>3, <1>8, <2>3, Zenon DEF TypeOK, Return, Goto, Labels, listVars
  <2>5. PidsConserved'
    BY <1>0, <1>2, <1>3, <1>5, <2>2, <2>3, PidReturned
  <2>6. TaskListExact'
    BY <1>0, <1>3, <1>5, <2>2, ListFrame
  <2>7. FamilyTree'
    BY <1>0, <1>2, <1>3, <2>1, FamilyFrame, LifeAssumption
  <2>8. FosteredOrphans'
    BY <1>0, <1>2, <1>3, <2>1, FosteredFrame, EmptyList
  <2>9. CallFits(c)'
    BY <2>1 DEF CallFits, Making, Reaping
  <2>10. CallsFit'
    BY <1>0, <1>3, <1>6, <2>1, <2>9, CallsFrame
  <2>11. CurrentFits'
    BY <1>0, <1>1, <1>2, <1>3, <2>1, CurrentFrame, LifeAssumption DEF TypeOK, CurrentFits, Boots
  <2>. QED
    BY <2>4, <2>5, <2>6, <2>7, <2>8, <2>10, <2>11 DEF LifeInv
<1>. QED
  BY <1>7, <1>8 DEF CloneMm

(* LinkChild: the child enters the list of the task that forks, and that   *)
(* list is no other CPU's.                                                 *)
LEMMA LinkChildKeeps ==
    ASSUME LifeInv, UNCHANGED g_init_task, NEW c \in Cpus, LinkChild(c)
    PROVE  LifeInv'
<1>. PICK w, f : w = work[c] /\ f = current[c]
  OBVIOUS
<1>0. TypeOK /\ CallsFit /\ CurrentFits /\ FamilyTree /\ FosteredOrphans /\ PidsConserved /\ TaskListExact
  BY DEF LifeInv
<1>1. /\ pc[c] = "link" /\ f \in Tasks /\ f # None /\ state[f] = "Running"
      /\ \A d \in Cpus : work[d] # None => work[d] # f
      /\ \A d \in Cpus \ {c} : current[d] # f
  BY Caller DEF LinkChild, Calls
<1>2. /\ w \in Tasks /\ w # None /\ w \notin Boots \union {Root} /\ w # f
      /\ state[w] = "Runnable" /\ children[w] = <<>> /\ cpu_of[w] = c /\ parent[w] = None
      /\ \A d \in Cpus \ {c} : work[d] # w
  BY <1>1, InMaking, Zenon
<1>3. /\ UNCHANGED <<g_init_task, pids, state, kthread, pid, cpu_of, listVars, current, work>>
      /\ parent'[w] = f /\ children'[f] = Append(children[f], w) /\ pc'[c] = "list_add"
      /\ \A t \in Tasks \ {w} : parent'[t] = parent[t]
      /\ \A t \in Tasks \ {f} : children'[t] = children[t]
      /\ \A d \in Cpus \ {c} : pc'[d] = pc[d]
  BY <1>0, <1>1, <1>2 DEF LinkChild, tcbVars, TypeOK, Goto
<1>4. \A t \in Tasks : (Owns(t)' <=> Owns(t)) /\ (Listed(t)' <=> Listed(t))
  <2>1. \A labels : (Busy(w, labels) <=> pc[c] \in labels) /\ (Busy(w, labels)' <=> pc'[c] \in labels)
    BY <1>0, <1>2, <1>3, BusyInHand, Zenon
  <2>2. \A t \in Tasks \ {w} : \A labels : Busy(t, labels)' <=> Busy(t, labels)
    BY <1>3, BusyFrame, Zenon
  <2>. QED
    BY <1>1, <1>3, <2>1, <2>2, Zenon DEF Owns, Listed
<1>5. /\ children'[f] \in Seq(Tasks)
      /\ \A n : n \in Range(children'[f]) <=> n \in Range(children[f]) \/ n = w
      /\ IsInjective(children'[f])
  <2>1. children[f] \in Seq(Tasks) /\ IsInjective(children[f]) /\ w \notin Range(children[f])
    BY <1>0, <1>1, <1>2 DEF TypeOK, FamilyTree
  <2>2. w \in Tasks /\ children'[f] = Append(children[f], w)
    BY <1>2, <1>3, Zenon
  <2>3. /\ Append(children[f], w) \in Seq(Tasks) /\ IsInjective(Append(children[f], w))
        /\ \A n : n \in Range(Append(children[f], w)) <=> n \in Range(children[f]) \/ n = w
    BY <2>1, <2>2, AppendLinks, Zenon
  <2>. QED
    BY <2>2, <2>3, Zenon
<1>6. TypeOK'
  <2>1. parent' \in [Tasks -> Tasks \union {None}] /\ pc' \in [Cpus -> Labels]
    BY <1>0, <1>1, Zenon DEF TypeOK, LinkChild, Goto, Labels
  <2>2. children' \in [Tasks -> Seq(Tasks)]
    BY <1>0, <1>1, <1>3, <1>5 DEF TypeOK, LinkChild
  <2>. QED
    BY <1>0, <1>3, <2>1, <2>2, Zenon DEF TypeOK, listVars
<1>7. PidsConserved' /\ TaskListExact'
  BY <1>0, <1>3, <1>4, PidsFrame, ListFrame, Zenon
<1>8. FamilyTree'
  <2>. SUFFICES ASSUME NEW t \in Tasks, state[t] # "free"
       PROVE  /\ IsInjective(children'[t])
              /\ \A n \in Tasks : n \in Range(children'[t]) => state[n] # "free" /\ parent'[n] = t
    BY <1>3 DEF FamilyTree
  <2>1. IsInjective(children[t]) /\ \A n \in Tasks : n \in Range(children[t]) => state[n] # "free" /\ parent[n] = t
    BY <1>0 DEF FamilyTree
  <2>2. t # None
    BY LifeAssumption
  <2>3. CASE t = f
    <3>1. \A n \in Tasks \ {w} : n \in Range(children'[f]) => state[n] # "free" /\ parent'[n] = f
      BY <1>3, <1>5, <2>1, <2>3, Zenon
    <3>2. state[w] # "free" /\ parent'[w] = f
      BY <1>2, <1>3
    <3>. QED
      BY <1>5, <2>3, <3>1, <3>2, Zenon
  <2>4. CASE t # f
    BY <1>2, <1>3, <2>1, <2>2, <2>4
  <2>. QED
    BY <2>3, <2>4
<1>9. FosteredOrphans'
  <2>1. ASSUME NEW t \in Tasks, Fostered(t)
        PROVE  Fostered(t)'
    <3>1. ASSUME state[t] \notin {"free", "Zombie"}, parent'[t] # None
          PROVE  state[parent'[t]] # "free" /\ t \in Range(children'[parent'[t]])
      <4>1. CASE t = w
        BY <1>1, <1>3, <1>5, <4>1, Zenon
      <4>2. CASE t # w
        <5>1. /\ parent'[t] = parent[t] /\ parent[t] \in Tasks
              /\ state[parent[t]] # "free" /\ t \in Range(children[parent[t]])
          BY <1>0, <1>3, <2>1, <3>1, <4>2 DEF TypeOK, Fostered
        <5>. QED
          BY <1>3, <1>5, <5>1, Zenon
      <4>. QED
        BY <4>1, <4>2
    <3>2. state[t] = "Zombie" => t # g_init_task /\ children'[t] = <<>>
      BY <1>1, <1>3, <2>1, Zenon DEF Fostered
    <3>. QED
      BY <1>3, <3>1, <3>2 DEF Fostered
  <2>. QED
    BY <1>0, <1>3, <2>1, Zenon DEF FosteredOrphans
<1>10. CallsFit'
  <2>1. ASSUME NEW d \in Cpus \ {c}
        PROVE  CallFits(d)'
    <3>1. CallFits(d) /\ (work[d] # None => work[d] \in Tasks /\ current[d] \in Tasks)
      BY <1>0, Apart DEF CallsFit
    <3>. QED
      BY <1>1, <1>2, <1>3, <3>1, CallFrame, Zenon
  <2>2. CallFits(c)'
    BY <1>2, <1>3 DEF CallFits, Making, Reaping
  <2>. QED
    BY <1>0, <1>3, <2>1, <2>2, CallsFrame, Zenon
<1>11. CurrentFits'
  <2>1. \A d \in Cpus : current[d] = None => pc'[d] = "out"
    BY <1>0, <1>1, <1>3 DEF CurrentFits
  <2>2. \A d \in Cpus : pc'[d] = "panic" <=> pc[d] = "panic"
    BY <1>1, <1>3
  <2>3. \A t \in Boots \union {Root} : t \in Tasks
    BY LifeAssumption DEF Boots
  <2>. QED
    BY <1>0, <1>2, <1>3, <2>1, <2>2, <2>3 DEF CurrentFits
<1>. QED
  BY <1>6, <1>7, <1>8, <1>9, <1>10, <1>11 DEF LifeInv

(* task_list_add: the new task is on the list once it is done.             *)
LEMMA task_list_addKeeps ==
    ASSUME LifeInv, UNCHANGED g_init_task, NEW c \in Cpus, task_list_add(c)
    PROVE  LifeInv'
<1>. PICK w : w = work[c]
  OBVIOUS
<1>0. TypeOK /\ CallsFit /\ CurrentFits /\ FamilyTree /\ FosteredOrphans /\ PidsConserved /\ TaskListExact
  BY DEF LifeInv
<1>1. pc[c] = "list_add" /\ current[c] \in Tasks
  BY Caller DEF task_list_add, Calls
<1>2. /\ w \in Tasks /\ w # None /\ w \notin Boots \union {Root} /\ state[w] = "Runnable"
      /\ \A d \in Cpus \ {c} : work[d] # w
  BY <1>1, InMaking
<1>3. /\ UNCHANGED <<g_init_task, pids, state, kthread, pid, cpu_of, parent, children, current>>
      /\ g_all_tasks' = Append(g_all_tasks, w) /\ g_nr_tasks' = g_nr_tasks + 1
      /\ pc'[c] = "out" /\ work'[c] = None
      /\ \A d \in Cpus \ {c} : work'[d] = work[d] /\ pc'[d] = pc[d]
  BY <1>0 DEF task_list_add, tcbVars, TypeOK, Return, Goto
<1>4. /\ \A t \in Tasks : Owns(t)' <=> Owns(t)
      /\ Listed(w)' /\ ~Listed(w)
      /\ \A t \in Tasks \ {w} : Listed(t)' <=> Listed(t)
  <2>1. \A labels : (Busy(w, labels) <=> pc[c] \in labels) /\ ~Busy(w, labels)'
    <3>1. \A labels : Busy(w, labels) <=> pc[c] \in labels
      BY <1>0, <1>2, <1>3, BusyInHand
    <3>2. \A d \in Cpus : work'[d] # w
      BY <1>2, <1>3
    <3>. QED
      BY <3>1, <3>2 DEF Busy
  <2>2. \A t \in Tasks \ {w} : \A labels : Busy(t, labels)' <=> Busy(t, labels)
    BY <1>3, BusyFrame, LifeAssumption
  <2>. QED
    BY <1>1, <1>2, <1>3, <2>1, <2>2 DEF Owns, Listed
<1>5. TaskListExact' /\ g_all_tasks' \in Seq(Tasks) /\ g_nr_tasks' \in Nat
  <2>1. g_all_tasks \in Seq(Tasks) /\ IsInjective(g_all_tasks) /\ w \notin Range(g_all_tasks) /\ g_nr_tasks \in Nat
    BY <1>0, <1>2, <1>4 DEF TypeOK, TaskListExact
  <2>2. /\ g_all_tasks' \in Seq(Tasks) /\ Len(g_all_tasks') = Len(g_all_tasks) + 1
        /\ \A x : x \in Range(g_all_tasks') <=> x \in Range(g_all_tasks) \/ x = w
        /\ IsInjective(g_all_tasks')
    <3>1. w \in Tasks /\ g_all_tasks' = Append(g_all_tasks, w)
      BY <1>2, <1>3, Zenon
    <3>2. /\ Append(g_all_tasks, w) \in Seq(Tasks) /\ Len(Append(g_all_tasks, w)) = Len(g_all_tasks) + 1
          /\ \A x : x \in Range(Append(g_all_tasks, w)) <=> x \in Range(g_all_tasks) \/ x = w
          /\ IsInjective(Append(g_all_tasks, w))
      BY <2>1, <3>1, AppendLinks
    <3>. QED
      BY <3>1, <3>2, Zenon
  <2>3. \A t \in Tasks : t \in Range(g_all_tasks') <=> Listed(t)'
    BY <1>0, <1>4, <2>2 DEF TaskListExact
  <2>4. g_nr_tasks = Len(g_all_tasks)
    BY <1>0, Zenon DEF TaskListExact
  <2>5. g_nr_tasks' = Len(g_all_tasks') /\ g_nr_tasks' \in Nat
    BY <1>3, <2>1, <2>2, <2>4
  <2>. QED
    BY <2>2, <2>3, <2>5, Zenon DEF TaskListExact
<1>6. TypeOK'
  <2>1. pc' \in [Cpus -> Labels] /\ work' \in [Cpus -> Tasks \union {None}]
    BY <1>0 DEF TypeOK, task_list_add, Return, Goto, Labels
  <2>. QED
    BY <1>0, <1>3, <1>5, <2>1 DEF TypeOK
<1>7. PidsConserved'
  BY <1>0, <1>3, <1>4, PidsFrame
<1>8. FamilyTree' /\ FosteredOrphans'
  BY <1>0, <1>3, FamilyFrame, FosteredFrame
<1>9. CallsFit'
  <2>1. ASSUME NEW d \in Cpus \ {c}
        PROVE  CallFits(d)'
    BY <1>0, <1>3, CallFrame DEF CallsFit
  <2>2. CallFits(c)'
    BY <1>3 DEF CallFits, Making, Reaping
  <2>. QED
    BY <1>0, <1>3, <2>1, <2>2, CallsFrame
<1>10. CurrentFits'
  BY <1>0, <1>1, <1>3, CurrentFrame, LifeAssumption, Zenon DEF CurrentFits
<1>. QED
  BY <1>5, <1>6, <1>7, <1>8, <1>9, <1>10 DEF LifeInv

-----------------------------------------------------------------------------
(* A step that starts or ends no call, and frees no task, keeps PIDs and   *)
(* the task list.                                                          *)
LEMMA OwnersFrame ==
    ASSUME UNCHANGED <<pc, work>>, \A t \in Tasks : state'[t] = "free" <=> state[t] = "free"
    PROVE  \A t \in Tasks : (Owns(t)' <=> Owns(t)) /\ (Listed(t)' <=> Listed(t))
<1>1. \A t, labels : Busy(t, labels)' <=> Busy(t, labels)
  BY DEF Busy
<1>. QED
  BY <1>1 DEF Owns, Listed

(* Preempt: the task switched to is in nobody's hand and of this CPU.      *)
LEMMA PreemptKeeps ==
    ASSUME LifeInv, UNCHANGED g_init_task, NEW c \in Cpus, NEW t \in Tasks, Preempt(c, t)
    PROVE  LifeInv'
<1>. PICK u : u = current[c]
  OBVIOUS
<1>0. TypeOK /\ CallsFit /\ CurrentFits /\ FamilyTree /\ FosteredOrphans /\ PidsConserved /\ TaskListExact
  BY DEF LifeInv
<1>1. /\ pc[c] = "out" /\ u \in Tasks /\ u # None /\ state[u] = "Running"
      /\ \A d \in Cpus : work[d] # None => work[d] # u
      /\ \A d \in Cpus \ {c} : current[d] # u
  BY Caller DEF Preempt, Calls
<1>2. state[t] = "Runnable" /\ cpu_of[t] = c /\ t # u /\ \A d \in Cpus : work[d] # t
  BY <1>1 DEF Preempt, Ready
<1>3. /\ UNCHANGED <<g_init_task, pids, kthread, pid, cpu_of, parent, children, listVars, pc, work>>
      /\ state'[u] = "Runnable" /\ state'[t] = "Running" /\ \A n \in Tasks \ {t, u} : state'[n] = state[n]
      /\ current'[c] = t /\ \A d \in Cpus \ {c} : current'[d] = current[d]
  BY <1>0, <1>1, <1>2 DEF Preempt, tcbVars, TypeOK
<1>4. \A n \in Tasks : /\ state'[n] = "free" <=> state[n] = "free"
                       /\ state'[n] = "Zombie" <=> state[n] = "Zombie"
  BY <1>1, <1>2, <1>3
<1>5. TypeOK'
  BY <1>0, <1>3, Zenon DEF TypeOK, Preempt, listVars
<1>6. PidsConserved' /\ TaskListExact'
  BY <1>0, <1>3, <1>4, OwnersFrame, PidsFrame, ListFrame, Zenon
<1>7. FamilyTree' /\ FosteredOrphans'
  BY <1>0, <1>3, <1>4, FamilyFrame, FosteredFrame
<1>8. CallsFit'
  <2>1. ASSUME NEW d \in Cpus
        PROVE  CallFits(d)'
    <3>1. CallFits(d) /\ (work[d] # None => work[d] \in Tasks \ {t, u} /\ pc[d] # "out")
      BY <1>0, <1>1, <1>2, Apart DEF CallsFit, CallFits
    <3>2. CASE work[d] # None
      <4>1. d # c
        BY <1>1, <3>1, <3>2
      <4>. QED
        BY <1>3, <3>1, <4>1, CallFrame, Zenon
    <3>3. CASE work[d] = None
      BY <1>3, <3>1, <3>3, Zenon DEF CallFits, Making, Reaping
    <3>. QED
      BY <3>2, <3>3
  <2>. QED
    BY <1>0, <1>3, <2>1, CallsFrame
<1>9. CurrentFits'
  <2>1. ASSUME NEW d \in Cpus \ {c}, current[d] # None
        PROVE  cpu_of[current[d]] = d /\ state'[current[d]] = state[current[d]]
    <3>1. cpu_of[current[d]] = d /\ current[d] \in Tasks
      BY <1>0, <2>1 DEF TypeOK, CurrentFits
    <3>. QED
      BY <1>1, <1>2, <1>3, <3>1, Zenon
  <2>2. ASSUME NEW d \in Cpus
        PROVE  IF current'[d] = None THEN pc[d] = "out"
               ELSE /\ cpu_of[current'[d]] = d
                    /\ state'[current'[d]] \in IF pc[d] = "panic" THEN {"Sleeping", "Runnable"} ELSE {"Running"}
    <3>1. CASE d = c
      BY <1>1, <1>2, <1>3, <3>1, LifeAssumption
    <3>2. CASE d # c
      BY <1>0, <1>3, <2>1, <3>2 DEF CurrentFits
    <3>. QED
      BY <3>1, <3>2
  <2>3. \A n \in Boots \union {Root} : n \in Tasks
    BY LifeAssumption DEF Boots
  <2>. QED
    BY <1>0, <1>3, <1>4, <2>2, <2>3, Zenon DEF CurrentFits
<1>. QED
  BY <1>5, <1>6, <1>7, <1>8, <1>9 DEF LifeInv
=============================================================================
