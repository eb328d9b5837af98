------------------------------ MODULE SeqFacts ------------------------------
(***************************************************************************)
(* Facts about least numbers and about lists that the proofs of the        *)
(* components share.  The kernel's intrusive lists are sequences: a link   *)
(* at the tail is Append, taking the first node is Head and Tail, and      *)
(* module Lists has Unlink.                                                *)
(***************************************************************************)
EXTENDS Lists, WellFoundedInduction, TLAPS

(* The order of the naturals as the relation the induction theorems use.   *)
LEMMA LessThanPairs ==
    \A x, y \in Nat : x < y => <<x, y>> \in OpToRel(<, Nat)
  BY DEF OpToRel

(* Every inhabited set of naturals has a least element: what ctz of a      *)
(* bitmap, the lowest pending interrupt and the lowest free PID rely on.   *)
LEMMA LeastNatural ==
    ASSUME NEW S \in SUBSET Nat, S # {}
    PROVE  \E x \in S : \A y \in S : x <= y
<1>1. IsWellFoundedOn(OpToRel(<, Nat), Nat)
  BY NatLessThanWellFounded, Zenon
<1>2. PICK x \in S : \A y \in S : ~ (<<y, x>> \in OpToRel(<, Nat))
  BY <1>1, WFMin, Zenon
<1>3. \A y \in S : ~ (y < x)
  BY <1>2, LessThanPairs, Zenon
<1>. QED
  BY <1>3

(* Min of the community modules is that least element.                     *)
LEMMA MinIsLeast ==
    ASSUME NEW S \in SUBSET Nat, S # {}
    PROVE  Min(S) \in S /\ \A y \in S : Min(S) <= y
  BY LeastNatural, Zenon DEF Min

-----------------------------------------------------------------------------
(* Counting.  Nothing has no elements.                                     *)
LEMMA SizedEmpty == Sized({}, 0)
<1>. DEFINE f == [i \in 1 .. 0 |-> i]
<1>1. f \in Bijection(1 .. 0, {})
  BY DEF Bijection, Injection, Surjection, IsInjective
<1>. QED
  BY <1>1 DEF Sized, ExistsBijection

(* A counter and the set it counts grow together ...                       *)
LEMMA SizedMore ==
    ASSUME NEW S, NEW n, Sized(S, n), NEW x, x \notin S
    PROVE  Sized(S \union {x}, n + 1)
<1>1. n \in Nat /\ \E f : f \in Bijection(1 .. n, S)
  BY DEF Sized, ExistsBijection
<1>2. PICK f : f \in Bijection(1 .. n, S)
  BY <1>1
<1>3. f \in [1 .. n -> S] /\ (\A i, j \in 1 .. n : f[i] = f[j] => i = j) /\ \A s \in S : \E i \in 1 .. n : f[i] = s
  BY <1>2 DEF Bijection, Injection, Surjection, IsInjective
<1>. DEFINE g == [i \in 1 .. n + 1 |-> IF i = n + 1 THEN x ELSE f[i]]
<1>4. g \in [1 .. n + 1 -> S \union {x}] /\ (\A i \in 1 .. n : g[i] = f[i]) /\ g[n + 1] = x
  BY <1>1, <1>3
<1>5. \A i \in 1 .. n + 1 : i \in 1 .. n \/ i = n + 1
  BY <1>1
<1>. HIDE DEF g
<1>6. \A i, j \in 1 .. n + 1 : g[i] = g[j] => i = j
  BY <1>3, <1>4, <1>5
<1>7. \A s \in S \union {x} : \E i \in 1 .. n + 1 : g[i] = s
  BY <1>1, <1>3, <1>4
<1>8. g \in Bijection(1 .. n + 1, S \union {x})
  BY <1>4, <1>6, <1>7 DEF Bijection, Injection, Surjection, IsInjective
<1>. QED
  BY <1>1, <1>8 DEF Sized, ExistsBijection

(* ... and shrink together; a set with a member is not counted as empty.   *)
LEMMA SizedLess ==
    ASSUME NEW S, NEW n, Sized(S, n), NEW x \in S
    PROVE  n > 0 /\ Sized(S \ {x}, n - 1)
<1>1. n \in Nat /\ \E f : f \in Bijection(1 .. n, S)
  BY DEF Sized, ExistsBijection
<1>2. PICK f : f \in Bijection(1 .. n, S)
  BY <1>1
<1>3. f \in [1 .. n -> S] /\ (\A i, j \in 1 .. n : f[i] = f[j] => i = j) /\ \A s \in S : \E i \in 1 .. n : f[i] = s
  BY <1>2 DEF Bijection, Injection, Surjection, IsInjective
<1>4. PICK k \in 1 .. n : f[k] = x
  BY <1>3
<1>5. n > 0 /\ n \in 1 .. n /\ n - 1 \in Nat /\ \A i \in 1 .. n - 1 : i \in 1 .. n /\ i # n
  BY <1>1, <1>4
<1>6. \A i \in 1 .. n : i \in 1 .. n - 1 \/ i = n
  BY <1>1
<1>. DEFINE g == [i \in 1 .. n - 1 |-> IF i = k THEN f[n] ELSE f[i]]
<1>7. /\ g \in [1 .. n - 1 -> S \ {x}]
      /\ \A i \in 1 .. n - 1 : g[i] = IF i = k THEN f[n] ELSE f[i]
  <2>1. \A i \in 1 .. n - 1 : (IF i = k THEN f[n] ELSE f[i]) \in S \ {x}
    BY <1>3, <1>4, <1>5
  <2>. QED
    BY <2>1
<1>. HIDE DEF g
<1>8. \A i, j \in 1 .. n - 1 : g[i] = g[j] => i = j
  BY <1>3, <1>5, <1>7
<1>9. ASSUME NEW s \in S \ {x}
      PROVE  \E i \in 1 .. n - 1 : g[i] = s
  <2>1. PICK i \in 1 .. n : f[i] = s
    BY <1>3
  <2>2. i # k
    BY <1>4, <2>1
  <2>3. CASE i = n
    BY <1>4, <1>6, <1>7, <2>1, <2>2, <2>3
  <2>4. CASE i # n
    BY <1>6, <1>7, <2>1, <2>2, <2>4
  <2>. QED
    BY <2>3, <2>4
<1>10. g \in Bijection(1 .. n - 1, S \ {x})
  BY <1>7, <1>8, <1>9 DEF Bijection, Injection, Surjection, IsInjective
<1>. QED
  BY <1>5, <1>10 DEF Sized, ExistsBijection

-----------------------------------------------------------------------------
(* A position's element belongs to the list.                               *)
LEMMA MemberAt ==
    ASSUME NEW S, NEW s \in Seq(S), NEW i \in 1 .. Len(s)
    PROVE  s[i] \in Range(s) /\ s[i] \in S
  BY DEF Range

(* The empty list.                                                         *)
LEMMA EmptyList ==
    IsInjective(<<>>) /\ \A x : x \notin Range(<<>>)
  BY DEF IsInjective, Range

(* A list of anything may be empty.                                        *)
LEMMA EmptyIsList ==
    ASSUME NEW S
    PROVE  <<>> \in Seq(S)
  OBVIOUS

(* Only the empty list contains nothing.                                   *)
LEMMA InhabitedList ==
    ASSUME NEW S, NEW s \in Seq(S)
    PROVE  s # <<>> <=> \E x \in S : x \in Range(s)
  BY DEF Range

(* Linking at the tail: the list's old members and the new one.            *)
LEMMA AppendLinks ==
    ASSUME NEW S, NEW s \in Seq(S), NEW e \in S
    PROVE  /\ Append(s, e) \in Seq(S) /\ Append(s, e) # <<>> /\ Len(Append(s, e)) = Len(s) + 1
           /\ \A x : x \in Range(Append(s, e)) <=> x \in Range(s) \/ x = e
           /\ IsInjective(s) /\ e \notin Range(s) => IsInjective(Append(s, e))
<1>1. /\ Append(s, e) \in Seq(S) /\ Append(s, e) # <<>> /\ Len(Append(s, e)) = Len(s) + 1
      /\ \A i \in 1 .. Len(s) : Append(s, e)[i] = s[i]
      /\ Append(s, e)[Len(s) + 1] = e
  OBVIOUS
<1>2. ASSUME NEW x
      PROVE  x \in Range(Append(s, e)) <=> x \in Range(s) \/ x = e
  BY <1>1 DEF Range
<1>3. DOMAIN Append(s, e) = 1 .. Len(s) + 1 /\ DOMAIN s = 1 .. Len(s)
  BY <1>1
<1>4. IsInjective(s) /\ e \notin Range(s) => IsInjective(Append(s, e))
  BY <1>1, <1>3 DEF IsInjective, Range
<1>. QED
  BY <1>1, <1>2, <1>4

(* Linking one list behind another: the members of both.                   *)
LEMMA ConcatLinks ==
    ASSUME NEW S, NEW s \in Seq(S), NEW t \in Seq(S)
    PROVE  /\ s \o t \in Seq(S)
           /\ \A x : x \in Range(s \o t) <=> x \in Range(s) \/ x \in Range(t)
           /\ IsInjective(s) /\ IsInjective(t) /\ (\A x \in Range(s) : x \notin Range(t)) => IsInjective(s \o t)
<1>. DEFINE r == s \o t
            m == Len(s)
            n == Len(t)
<1>1. /\ r \in Seq(S) /\ Len(r) = m + n /\ m \in Nat /\ n \in Nat
      /\ \A i \in 1 .. m + n : r[i] = IF i <= m THEN s[i] ELSE t[i - m]
  OBVIOUS
<1>2. DOMAIN r = 1 .. m + n /\ DOMAIN s = 1 .. m /\ DOMAIN t = 1 .. n
  BY <1>1
<1>. HIDE DEF r, m, n
<1>3. \A i \in 1 .. m : i \in 1 .. m + n /\ r[i] = s[i]
  BY <1>1
<1>4. \A j \in 1 .. n : j + m \in 1 .. m + n /\ r[j + m] = t[j]
  BY <1>1
<1>5. \A i \in 1 .. m + n : i \in 1 .. m \/ i - m \in 1 .. n
  BY <1>1
<1>6. ASSUME NEW i \in 1 .. m + n
      PROVE  \/ i \in 1 .. m /\ r[i] = s[i]
             \/ i - m \in 1 .. n /\ r[i] = t[i - m]
  BY <1>1
<1>7. ASSUME NEW x
      PROVE  x \in Range(r) <=> x \in Range(s) \/ x \in Range(t)
  BY <1>2, <1>3, <1>4, <1>6 DEF Range
<1>8. ASSUME IsInjective(s), IsInjective(t), \A x \in Range(s) : x \notin Range(t)
      PROVE  IsInjective(r)
  <2>. SUFFICES ASSUME NEW i \in 1 .. m + n, NEW j \in 1 .. m + n, r[i] = r[j]
       PROVE  i = j
    BY <1>2 DEF IsInjective
  <2>1. \A a \in 1 .. m, b \in 1 .. n : s[a] # t[b]
    BY <1>2, <1>8, Zenon DEF Range
  <2>2. CASE i \in 1 .. m /\ j \in 1 .. m
    BY <1>2, <1>3, <1>8, <2>2 DEF IsInjective
  <2>3. CASE i - m \in 1 .. n /\ j - m \in 1 .. n
    <3>1. i - m = j - m
      <4>1. r[i] = t[i - m] /\ r[j] = t[j - m]
        BY <1>1, <2>3
      <4>. QED
        BY <1>2, <1>8, <2>3, <4>1, Zenon DEF IsInjective
    <3>. QED
      BY <1>1, <3>1
  <2>4. CASE i \in 1 .. m /\ j - m \in 1 .. n
    <3>1. r[i] = s[i] /\ r[j] = t[j - m]
      BY <1>1, <2>4
    <3>. QED
      BY <2>1, <2>4, <3>1, Zenon
  <2>5. CASE i - m \in 1 .. n /\ j \in 1 .. m
    <3>1. r[j] = s[j] /\ r[i] = t[i - m]
      BY <1>1, <2>5
    <3>. QED
      BY <2>1, <2>5, <3>1
  <2>. QED
    BY <1>5, <2>2, <2>3, <2>4, <2>5
<1>. QED
  BY <1>1, <1>7, <1>8 DEF r

(* Taking the first member of a list without duplicates.                   *)
LEMMA TailUnlinks ==
    ASSUME NEW S, NEW s \in Seq(S), s # <<>>
    PROVE  /\ Head(s) \in S /\ Tail(s) \in Seq(S) /\ Len(Tail(s)) = Len(s) - 1
           /\ Head(s) \in Range(s)
           /\ IsInjective(s) => /\ IsInjective(Tail(s))
                               /\ \A x : x \in Range(Tail(s)) <=> x \in Range(s) /\ x # Head(s)
<1>1. /\ Head(s) \in S /\ Tail(s) \in Seq(S) /\ Len(Tail(s)) = Len(s) - 1
      /\ \A i \in 1 .. Len(s) - 1 : Tail(s)[i] = s[i + 1]
      /\ Head(s) = s[1] /\ Len(s) \in Nat \ {0}
  OBVIOUS
<1>2. DOMAIN Tail(s) = 1 .. Len(s) - 1 /\ DOMAIN s = 1 .. Len(s)
  BY <1>1
<1>3. Head(s) \in Range(s)
  BY <1>1 DEF Range
<1>4. ASSUME IsInjective(s)
      PROVE  IsInjective(Tail(s))
  BY <1>1, <1>2, <1>4 DEF IsInjective
<1>5. ASSUME IsInjective(s), NEW x
      PROVE  x \in Range(Tail(s)) <=> x \in Range(s) /\ x # Head(s)
  <2>1. ASSUME NEW i \in 1 .. Len(s), s[i] = x, x # Head(s)
        PROVE  x \in Range(Tail(s))
    <3>1. i - 1 \in 1 .. Len(s) - 1 /\ Tail(s)[i - 1] = x
      BY <1>1, <2>1
    <3>. QED
      BY <1>1, <3>1 DEF Range
  <2>2. ASSUME NEW i \in 1 .. Len(s) - 1, Tail(s)[i] = x
        PROVE  x \in Range(s) /\ x # Head(s)
    <3>1. s[i + 1] = x /\ i + 1 \in 1 .. Len(s) /\ i + 1 # 1
      BY <1>1, <2>2
    <3>. QED
      BY <1>1, <1>2, <1>5, <3>1 DEF Range, IsInjective
  <2>. QED
    BY <1>1, <2>1, <2>2 DEF Range
<1>. QED
  BY <1>1, <1>3, <1>4, <1>5

(* Unlinking a member of a list without duplicates takes that member out   *)
(* and leaves the others linked.                                           *)
LEMMA UnlinkRemoves ==
    ASSUME NEW S, NEW s \in Seq(S), NEW e, e \in Range(s), IsInjective(s)
    PROVE  /\ Unlink(s, e) \in Seq(S) /\ Len(Unlink(s, e)) = Len(s) - 1
           /\ IsInjective(Unlink(s, e))
           /\ \A x : x \in Range(Unlink(s, e)) <=> x \in Range(s) /\ x # e
<1>. DEFINE k == CHOOSE i \in DOMAIN s : s[i] = e
            r == Unlink(s, e)
<1>1. DOMAIN s = 1 .. Len(s) /\ Len(s) \in Nat /\ \A i \in 1 .. Len(s) : s[i] \in S
  OBVIOUS
<1>2. k \in 1 .. Len(s) /\ s[k] = e
  BY <1>1 DEF Range
<1>3. r = [i \in 1 .. Len(s) - 1 |-> IF i < k THEN s[i] ELSE s[i + 1]]
  BY DEF Unlink
<1>. HIDE DEF k, r
<1>4. /\ r \in Seq(S) /\ Len(r) = Len(s) - 1
      /\ \A i \in 1 .. Len(s) - 1 : r[i] = IF i < k THEN s[i] ELSE s[i + 1]
  <2>1. Len(s) - 1 \in Nat /\ \A i \in 1 .. Len(s) - 1 : i + 1 \in 1 .. Len(s) /\ i \in 1 .. Len(s)
    BY <1>1, <1>2
  <2>. QED
    BY <1>1, <1>3, <2>1
<1>5. DOMAIN r = 1 .. Len(s) - 1 /\ DOMAIN s = 1 .. Len(s) /\ Len(s) \in Nat
  BY <1>4
<1>6. \A i, j \in 1 .. Len(s) : s[i] = s[j] => i = j
  BY <1>5 DEF IsInjective
<1>7. IsInjective(r)
  <2>. SUFFICES ASSUME NEW i \in 1 .. Len(s) - 1, NEW j \in 1 .. Len(s) - 1, r[i] = r[j]
       PROVE  i = j
    BY <1>5 DEF IsInjective
  <2>1. /\ i \in 1 .. Len(s) /\ i + 1 \in 1 .. Len(s)
        /\ j \in 1 .. Len(s) /\ j + 1 \in 1 .. Len(s)
    BY <1>5
  <2>. QED
    BY <1>2, <1>4, <1>6, <2>1
<1>8. ASSUME NEW x
      PROVE  x \in Range(r) <=> x \in Range(s) /\ x # e
  <2>1. ASSUME NEW i \in 1 .. Len(s), s[i] = x, x # e
        PROVE  x \in Range(r)
    <3>1. CASE i < k
      <4>1. i \in 1 .. Len(s) - 1 /\ r[i] = x
        BY <1>2, <1>4, <2>1, <3>1
      <4>. QED
        BY <1>4, <4>1 DEF Range
    <3>2. CASE i > k
      <4>1. i - 1 \in 1 .. Len(s) - 1 /\ r[i - 1] = x
        BY <1>2, <1>4, <2>1, <3>2
      <4>. QED
        BY <1>4, <4>1 DEF Range
    <3>. QED
      BY <1>2, <2>1, <3>1, <3>2
  <2>2. ASSUME NEW i \in 1 .. Len(s) - 1, r[i] = x
        PROVE  x \in Range(s) /\ x # e
    <3>1. CASE i < k
      <4>1. i \in 1 .. Len(s) /\ s[i] = x /\ i # k
        BY <1>2, <1>4, <1>5, <2>2, <3>1
      <4>. QED
        BY <1>2, <1>6, <4>1 DEF Range
    <3>2. CASE ~(i < k)
      <4>1. i + 1 \in 1 .. Len(s) /\ s[i + 1] = x /\ i + 1 # k
        BY <1>2, <1>4, <1>5, <2>2, <3>2
      <4>. QED
        BY <1>2, <1>6, <4>1 DEF Range
    <3>. QED
      BY <3>1, <3>2
  <2>. QED
    BY <1>4, <2>1, <2>2 DEF Range
<1>. QED
  BY <1>4, <1>7, <1>8 DEF r
=============================================================================
