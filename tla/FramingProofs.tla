------------------------------ MODULE FramingProofs ------------------------------
(***************************************************************************)
(* Proofs about Framing and Messages, for payloads of any length and any   *)
(* way of cutting the stream up.                                           *)
(*                                                                         *)
(* Writing and reading a payload are recursive over its layout.  Induction *)
(* is done on a set of numbers: NatSetInduction says that a set with 0 and *)
(* the successor of each of its members holds every number, and each use   *)
(* names the set of the numbers for which what is to be shown holds.       *)
(***************************************************************************)
EXTENDS Framing, WellFoundedInduction, SequenceTheorems, TLAPS

LEMMA NatSetInduction ==
  ASSUME NEW S, 0 \in S, \A n \in Nat : n \in S => n + 1 \in S
  PROVE  Nat \subseteq S
  <1> DEFINE T == Nat \ S
             R == OpToRel(<, Nat)
  <1>1. \A y, x \in Nat : y < x => <<y, x>> \in R
    BY DEF OpToRel
  <1>2. ASSUME T # {} PROVE FALSE
    <2>1. IsWellFoundedOn(R, Nat) /\ T \subseteq Nat
      BY NatLessThanWellFounded
    <2> HIDE DEF R
    <2>2. PICK x \in T : \A y \in T : ~(<<y, x>> \in R)
      BY <1>2, <2>1, WFMin
    <2>3. x \in Nat /\ x # 0
      BY <2>2
    <2>4. x - 1 \in Nat /\ x - 1 < x
      BY <2>3
    <2>5. <<x - 1, x>> \in R
      BY <1>1, <2>3, <2>4
    <2>6. x - 1 \notin T
      BY <2>2, <2>5
    <2> QED
      BY <2>2, <2>3, <2>4, <2>6
  <1> QED
    BY <1>2

\* Up to a bound it is enough to step below the bound.
LEMMA RangeInduction ==
  ASSUME NEW N \in Nat, NEW S, 0 \in S, \A n \in 0..N - 1 : n \in S => n + 1 \in S
  PROVE  0..N \subseteq S
  <1> DEFINE T == {n \in Nat : n <= N => n \in S}
  <1>1. 0 \in T
    OBVIOUS
  <1>2. ASSUME NEW n \in Nat, n \in T PROVE n + 1 \in T
    <2>1. CASE n + 1 <= N
      <3>1. n \in 0..N - 1 /\ n \in S
        BY <1>2, <2>1
      <3> QED
        BY <3>1
    <2> QED
      BY <2>1
  <1> HIDE DEF T
  <1>3. Nat \subseteq T
    BY <1>1, <1>2, NatSetInduction
  <1> QED
    BY <1>3 DEF T

--------------------------------------------------------------------------------
(* What the folds compute, step by step. *)

\* FlattenSeq is reached by adding one sequence after the other.
LEMMA FlattenSteps ==
  ASSUME NEW S, NEW w \in Seq(Seq(S))
  PROVE  \E F \in [0..Len(w) -> Seq(S)] :
           /\ F[0] = <<>> /\ F[Len(w)] = FlattenSeq(w)
           /\ \A k \in 1..Len(w) : F[k] = F[k - 1] \o w[k]
  <1> DEFINE N == Len(w)
             Grows(f, n) == f = [i \in 1..n |-> IF i = 1 THEN w[i] ELSE f[i - 1] \o w[i]]
             Some == {n \in Nat : n <= N => \E f : Grows(f, n)}
  <1>1. N \in Nat /\ \A k \in 1..N : w[k] \in Seq(S)
    BY ElementOfSeq
  <1>2. CASE w = <<>>
    <2>1. Len(w) = 0 /\ FlattenSeq(w) = <<>>
      BY <1>2 DEF FlattenSeq
    <2> DEFINE E == [k \in 0..Len(w) |-> <<>>]
    <2>2. E \in [0..Len(w) -> Seq(S)] /\ E[0] = <<>> /\ E[Len(w)] = <<>>
      BY <2>1, EmptySeq
    <2>3. \A k \in 1..Len(w) : E[k] = E[k - 1] \o w[k]
      BY <2>1
    <2> HIDE DEF E
    <2> QED
      BY <2>1, <2>2, <2>3
  <1>3. CASE w # <<>>
    <2>1. N # 0
      BY <1>3, EmptySeq
    <2>2. 0 \in Some
      <3>1. Grows([i \in 1..0 |-> <<>>], 0)
        OBVIOUS
      <3> QED
        BY <3>1
    <2>3. ASSUME NEW n \in Nat, n \in Some PROVE n + 1 \in Some
      <3>0. CASE ~(n + 1 <= N)
        <4> HIDE DEF Grows
        <4> QED
          BY <3>0
      <3>a. ASSUME n + 1 <= N PROVE \E f : Grows(f, n)
        <4>1. n <= N /\ N \in Nat
          BY <1>1, <3>a
        <4> HIDE DEF Grows
        <4> QED
          BY <2>3, <4>1
      <3> SUFFICES ASSUME n + 1 <= N PROVE n + 1 \in Some
        BY <3>0
      <3>1. PICK f : Grows(f, n)
        BY <3>a
      <3> DEFINE g == [i \in 1..n + 1 |-> IF i <= n THEN f[i]
                                         ELSE IF i = 1 THEN w[i] ELSE f[i - 1] \o w[i]]
      <3>2. Grows(g, n + 1)
        <4>1. ASSUME NEW i \in 1..n + 1
              PROVE  g[i] = IF i = 1 THEN w[i] ELSE g[i - 1] \o w[i]
          <5>1. CASE i <= n
            <6>1. i \in 1..n /\ g[i] = f[i]
              BY <5>1
            <6>2. f[i] = IF i = 1 THEN w[i] ELSE f[i - 1] \o w[i]
              BY <3>1, <6>1
            <6>3. i # 1 => i - 1 \in 1..n + 1 /\ i - 1 <= n /\ g[i - 1] = f[i - 1]
              BY <5>1
            <6> QED
              BY <6>1, <6>2, <6>3
          <5>2. CASE i = n + 1
            <6>1. i # 1 => i - 1 \in 1..n + 1 /\ i - 1 <= n /\ g[i - 1] = f[i - 1]
              BY <5>2
            <6>2. g[i] = IF i = 1 THEN w[i] ELSE f[i - 1] \o w[i]
              BY <5>2
            <6> QED
              BY <6>1, <6>2
          <5> QED
            BY <5>1, <5>2
        <4>2. g = [i \in 1..n + 1 |-> g[i]]
          OBVIOUS
        <4> HIDE DEF g
        <4>3. [i \in 1..n + 1 |-> g[i]] =
                [i \in 1..n + 1 |-> IF i = 1 THEN w[i] ELSE g[i - 1] \o w[i]]
          BY <4>1
        <4> QED
          BY <4>2, <4>3
      <3> HIDE DEF Grows, g
      <3> QED
        BY <3>2
    <2>4. Nat \subseteq Some
      <3> HIDE DEF Some
      <3> QED
        BY <2>2, <2>3, NatSetInduction
    <2>5. \E f : Grows(f, N)
      <3> HIDE DEF Grows
      <3> QED
        BY <1>1, <2>4
    <2> DEFINE f == CHOOSE f : Grows(f, N)
    <2>6. Grows(f, N)
      BY <2>5, Zenon
    <2>7. FlattenSeq(w) = f[N]
      BY <2>1, Zenon DEF FlattenSeq
    <2> HIDE DEF f
    <2> DEFINE F == [k \in 0..N |-> IF k = 0 THEN <<>> ELSE f[k]]
    <2>8. \A k \in 1..N : F[k] = F[k - 1] \o w[k]
      <3> SUFFICES ASSUME NEW k \in 1..N PROVE F[k] = F[k - 1] \o w[k]
        OBVIOUS
      <3>1. F[k] = f[k] /\ f[k] = IF k = 1 THEN w[k] ELSE f[k - 1] \o w[k]
        <4>1. f[k] = [i \in 1..N |-> IF i = 1 THEN w[i] ELSE f[i - 1] \o w[i]][k]
          BY <2>6
        <4> QED
          BY <1>1, <4>1
      <3>2. CASE k = 1
        <4>1. F[k - 1] = <<>> /\ F[k] = w[k]
          BY <1>1, <3>1, <3>2
        <4> QED
          BY <1>1, <4>1, ConcatEmptySeq
      <3>3. CASE k # 1
        <4>1. F[k - 1] = f[k - 1]
          BY <1>1, <3>3
        <4> QED
          BY <3>1, <3>3, <4>1
      <3> QED
        BY <3>2, <3>3
    <2>9. F[0] = <<>> /\ F[N] = FlattenSeq(w)
      BY <1>1, <2>1, <2>7
    <2>10. F \in [0..N -> Seq(S)]
      <3> DEFINE Typed == {n \in Nat : F[n] \in Seq(S)}
      <3>1. 0 \in Typed
        BY <2>9
      <3>2. ASSUME NEW n \in 0..N - 1, n \in Typed PROVE n + 1 \in Typed
        <4>1. n + 1 \in 1..N /\ (n + 1) - 1 = n
          BY <1>1
        <4>2. F[n + 1] = F[n] \o w[n + 1]
          BY <2>8, <4>1
        <4>3. F[n] \in Seq(S) /\ w[n + 1] \in Seq(S)
          BY <1>1, <3>2, <4>1
        <4>4. F[n + 1] \in Seq(S)
          <5> HIDE DEF F
          <5> QED
            BY <4>2, <4>3, ConcatProperties
        <4> HIDE DEF F
        <4> QED
          BY <4>1, <4>4
      <3>3. 0..N \subseteq Typed
        <4> HIDE DEF Typed
        <4> QED
          BY <1>1, <3>1, <3>2, RangeInduction
      <3> QED
        BY <3>3
    <2> QED
      <3> HIDE DEF F
      <3> QED
        BY <2>8, <2>9, <2>10
  <1> QED
    BY <1>2, <1>3


ReadAll(reader, kinds) == FoldLeft(ReadField, reader, kinds)

\* So is what FoldLeft reads: the reader after the first k kinds, one after the other.
LEMMA FoldSteps ==
  ASSUME NEW S, NEW s \in Seq(S), NEW b
  PROVE  \E R : /\ R[0] = b /\ R[Len(s)] = ReadAll(b, s)
                /\ \A k \in 1..Len(s) : R[k] = ReadField(R[k - 1], s[k])
  <1> DEFINE N == Len(s)
             One(g, t) == IF t = {} THEN b ELSE ReadField(g[t \ {Max(t)}], s[Max(t)])
             Reads(g, n) == g = [t \in SUBSET (1..n) |-> One(g, t)]
             Some == {n \in Nat : \E g : Reads(g, n)}
  <1>1. N \in Nat /\ DOMAIN s = 1..N
    OBVIOUS
  <1>2. ASSUME NEW n \in Nat, NEW t \in SUBSET (1..n), n \in t
        PROVE  Max(t) = n
    <2>1. \A m \in t : m \in 1..n
      BY <1>2
    <2>2. \A y \in t : n >= y
      BY <2>1
    <2>3. \A m \in t : (\A y \in t : m >= y) => m = n
      BY <1>2, <2>1
    <2>4. Max(t) \in t /\ \A y \in t : Max(t) >= y
      BY <1>2, <2>2, Zenon DEF Max
    <2> QED
      BY <2>3, <2>4
  <1>3. 0 \in Some
    <2> DEFINE g == [t \in SUBSET (1..0) |-> b]
    <2>1. \A t \in SUBSET (1..0) : t = {}
      OBVIOUS
    <2>2. \A t \in SUBSET (1..0) : One(g, t) = b
      BY <2>1
    <2>3. Reads(g, 0)
      <3> HIDE DEF One
      <3> QED
        BY <2>2
    <2> HIDE DEF g, Reads
    <2> QED
      BY <2>3
  <1>4. ASSUME NEW n \in Nat, n \in Some PROVE n + 1 \in Some
    <2>1. \E g : Reads(g, n)
      <3> HIDE DEF Reads
      <3> QED
        BY <1>4
    <2>2. PICK g : Reads(g, n)
      BY <2>1
    <2> DEFINE h == [t \in SUBSET (1..n + 1) |->
                       IF n + 1 \in t THEN ReadField(g[t \ {n + 1}], s[n + 1]) ELSE g[t]]
    <2>3. ASSUME NEW t \in SUBSET (1..n + 1), n + 1 \notin t
          PROVE  t \in SUBSET (1..n) /\ h[t] = g[t]
      <3>1. \A m \in t : m \in 1..n + 1 /\ m # n + 1
        BY <2>3
      <3>2. \A m \in t : m \in 1..n
        BY <3>1
      <3> QED
        BY <2>3, <3>2
    <2>4. ASSUME NEW t \in SUBSET (1..n + 1)
          PROVE  h[t] = One(h, t)
      <3>1. CASE n + 1 \in t
        <4>1. Max(t) = n + 1
          BY <1>2, <3>1
        <4>2. t \ {n + 1} \in SUBSET (1..n + 1) /\ n + 1 \notin t \ {n + 1} /\ t # {}
          BY <3>1
        <4>3. h[t \ {n + 1}] = g[t \ {n + 1}]
          BY <2>3, <4>2
        <4>4. h[t] = ReadField(g[t \ {n + 1}], s[n + 1])
          BY <3>1
        <4> HIDE DEF h
        <4> QED
          BY <4>1, <4>2, <4>3, <4>4
      <3>2. CASE n + 1 \notin t
        <4>1. t \in SUBSET (1..n) /\ h[t] = g[t]
          BY <2>3, <3>2
        <4>2. g[t] = One(g, t)
          <5>1. g[t] = [q \in SUBSET (1..n) |-> One(g, q)][t]
            BY <2>2
          <5> HIDE DEF One
          <5> QED
            BY <4>1, <5>1
        <4>3. t \ {Max(t)} \in SUBSET (1..n + 1) /\ n + 1 \notin t \ {Max(t)}
          BY <3>2
        <4>4. h[t \ {Max(t)}] = g[t \ {Max(t)}]
          BY <2>3, <4>3
        <4> HIDE DEF h
        <4> QED
          BY <4>1, <4>2, <4>4
      <3> QED
        BY <3>1, <3>2
    <2>5. Reads(h, n + 1)
      <3>1. h = [t \in SUBSET (1..n + 1) |-> h[t]]
        OBVIOUS
      <3> HIDE DEF h, One
      <3>2. [t \in SUBSET (1..n + 1) |-> h[t]] = [t \in SUBSET (1..n + 1) |-> One(h, t)]
        BY <2>4
      <3> QED
        BY <3>1, <3>2
    <2> HIDE DEF h, Reads
    <2> QED
      BY <2>5
  <1>5. \E g : Reads(g, N)
    <2>1. Nat \subseteq Some
      <3> HIDE DEF Some
      <3> QED
        BY <1>3, <1>4, NatSetInduction
    <2> HIDE DEF Reads
    <2> QED
      BY <1>1, <2>1
  <1> DEFINE g == CHOOSE g : Reads(g, N)
  <1>6. Reads(g, N)
    BY <1>5, Zenon
  <1>7. ReadAll(b, s) = g[1..N]
    <2>1. FoldLeft(ReadField, b, s) =
            (CHOOSE iter : iter = [t \in SUBSET DOMAIN s |->
                IF t = {} THEN b ELSE ReadField(iter[t \ {Max(t)}], s[Max(t)])])[DOMAIN s]
      BY Zenon DEF FoldLeft, MapThenFoldSet
    <2> QED
      BY <1>1, <2>1, Zenon DEF ReadAll
  <1> HIDE DEF g
  <1> DEFINE R == [k \in 0..N |-> g[1..k]]
  <1>8. ASSUME NEW k \in 0..N
        PROVE  g[1..k] = IF k = 0 THEN b ELSE ReadField(g[1..k - 1], s[k])
    <2>1. 1..k \in SUBSET (1..N)
      BY <1>1
    <2>2. g[1..k] = [q \in SUBSET (1..N) |-> One(g, q)][1..k]
      BY <1>6
    <2>3. g[1..k] = One(g, 1..k)
      <3> HIDE DEF One
      <3> QED
        BY <2>1, <2>2
    <2>4. CASE k = 0
      BY <2>3, <2>4
    <2>5. CASE k # 0
      <3>1. k \in Nat /\ 1..k \in SUBSET (1..k) /\ k \in 1..k
        BY <2>5
      <3>2. Max(1..k) = k
        BY <1>2, <3>1
      <3>3. (1..k) \ {k} = 1..k - 1 /\ 1..k # {}
        BY <2>5, SMTT(30)
      <3> QED
        BY <2>3, <2>5, <3>2, <3>3
    <2> QED
      BY <2>4, <2>5
  <1>9. R[0] = b /\ R[N] = ReadAll(b, s)
    BY <1>1, <1>7, <1>8
  <1>10. \A k \in 1..N : R[k] = ReadField(R[k - 1], s[k])
    <2> SUFFICES ASSUME NEW k \in 1..N PROVE R[k] = ReadField(R[k - 1], s[k])
      OBVIOUS
    <2>1. k \in 0..N /\ k - 1 \in 0..N /\ k # 0
      BY <1>1
    <2>2. R[k] = g[1..k] /\ R[k - 1] = g[1..k - 1]
      BY <2>1
    <2> QED
      BY <1>8, <2>1, <2>2
  <1> HIDE DEF R
  <1> QED
    BY <1>9, <1>10

LEMMA EmptyIsUnit ==
  \A S : \A x \in Seq(S) : x \o <<>> = x /\ <<>> \o x = x
  BY ConcatEmptySeq

LEMMA ConcatTyped ==
  \A S : \A x, y \in Seq(S) : x \o y \in Seq(S)
  BY ConcatProperties

LEMMA Cancel ==
  \A S : \A x, y, z \in Seq(S) : x \o y = x \o z => y = z
  BY ConcatSimplifications

\* What is left of a flattened sequence when its first k members have been taken off.
LEMMA FlattenSuffixes ==
  ASSUME NEW S, NEW w \in Seq(Seq(S))
  PROVE  \E T \in [0..Len(w) -> Seq(S)] :
           /\ T[0] = FlattenSeq(w) /\ T[Len(w)] = <<>>
           /\ \A k \in 1..Len(w) : T[k - 1] = w[k] \o T[k]
  <1> DEFINE N == Len(w)
             P == FlattenSeq(w)
  <1>1. N \in Nat /\ \A k \in 1..N : w[k] \in Seq(S)
    BY ElementOfSeq
  <1>2. PICK F \in [0..N -> Seq(S)] :
          F[0] = <<>> /\ F[N] = P /\ \A k \in 1..N : F[k] = F[k - 1] \o w[k]
    BY FlattenSteps
  <1> HIDE DEF N, P
  <1> DEFINE Fits(k) == \E x \in Seq(S) : P = F[k] \o x
             Left == {n \in Nat : n <= N => Fits(N - n)}
  <1>3. 0 \in Left
    <2>1. N - 0 = N /\ F[N] \in Seq(S) /\ <<>> \in Seq(S)
      BY <1>1, <1>2, EmptySeq
    <2>2. P = F[N] \o <<>>
      BY <1>2, <2>1, ConcatEmptySeq
    <2>3. Fits(N)
      BY <2>1, <2>2
    <2> HIDE DEF Fits
    <2> QED
      BY <2>1, <2>3
  <1>4. ASSUME NEW n \in Nat, n \in Left PROVE n + 1 \in Left
    <2>1. ASSUME n + 1 <= N PROVE Fits(N - (n + 1))
      <3>1. N - n \in 1..N /\ N - (n + 1) \in 0..N /\ (N - n) - 1 = N - (n + 1) /\ n <= N
        BY <1>1, <2>1
      <3>0. Fits(N - n)
        <4> HIDE DEF Fits
        <4> QED
          BY <1>4, <3>1
      <3>2. PICK x \in Seq(S) : P = F[N - n] \o x
        BY <3>0
      <3>3. F[N - n] = F[N - (n + 1)] \o w[N - n]
        BY <1>2, <3>1
      <3>4. F[N - (n + 1)] \in Seq(S) /\ w[N - n] \in Seq(S)
        BY <1>1, <1>2, <3>1
      <3>5. P = F[N - (n + 1)] \o (w[N - n] \o x)
        <4> DEFINE a == F[N - (n + 1)]
                   b == w[N - n]
                   c == x
        <4>1. a \in Seq(S) /\ b \in Seq(S) /\ c \in Seq(S)
          BY <3>2, <3>4
        <4> HIDE DEF a, b, c
        <4>2. (a \o b) \o c = a \o (b \o c)
          BY <4>1, SMTT(30)
        <4> QED
          BY <3>2, <3>3, <4>2 DEF a, b, c
      <3>6. w[N - n] \o x \in Seq(S)
        BY <3>2, <3>4, ConcatTyped
      <3> QED
        BY <3>5, <3>6, Zenon
    <2> HIDE DEF Fits
    <2> QED
      BY <2>1
  <1>5. \A k \in 0..N : Fits(k)
    <2>1. Nat \subseteq Left
      <3> HIDE DEF Left
      <3> QED
        BY <1>3, <1>4, NatSetInduction
    <2> HIDE DEF Fits
    <2> SUFFICES ASSUME NEW k \in 0..N PROVE Fits(k)
      OBVIOUS
    <2>2. N - k \in Nat /\ N - k <= N /\ N - (N - k) = k
      BY <1>1
    <2> QED
      BY <2>1, <2>2
  <1> DEFINE Rest(k) == CHOOSE x \in Seq(S) : P = F[k] \o x
             T == [k \in 0..N |-> Rest(k)]
  <1>6. \A k \in 0..N : Rest(k) \in Seq(S) /\ P = F[k] \o Rest(k)
    BY <1>5, Zenon
  <1> HIDE DEF Rest
  <1>7. \A k \in 0..N : T[k] \in Seq(S) /\ P = F[k] \o T[k]
    BY <1>6
  <1>8. T \in [0..N -> Seq(S)]
    BY <1>6
  <1> HIDE DEF T
  <1>9. T[0] = P
    <2>1. 0 \in 0..N
      BY <1>1
    <2>2. P = F[0] \o T[0] /\ T[0] \in Seq(S)
      BY <1>7, <2>1
    <2>3. P = <<>> \o T[0]
      BY <1>2, <2>2
    <2> QED
      BY <2>2, <2>3, EmptyIsUnit, Zenon
  <1>10. T[N] = <<>>
    <2>1. P = P \o T[N] /\ T[N] \in Seq(S) /\ P \in Seq(S)
      BY <1>1, <1>2, <1>7, SMTT(30)
    <2> QED
      BY <2>1, ConcatSimplifications
  <1>11. ASSUME NEW k \in 1..N PROVE T[k - 1] = w[k] \o T[k]
    <2>1. k \in 0..N /\ k - 1 \in 0..N
      BY <1>1
    <2>2. P = F[k - 1] \o T[k - 1] /\ P = F[k] \o T[k] /\ F[k] = F[k - 1] \o w[k]
      BY <1>2, <1>7, <2>1
    <2>3. /\ F[k - 1] \in Seq(S) /\ w[k] \in Seq(S)
          /\ T[k - 1] \in Seq(S) /\ T[k] \in Seq(S)
      BY <1>1, <1>2, <1>7, <2>1
    <2>4. F[k - 1] \o T[k - 1] = F[k - 1] \o (w[k] \o T[k])
      <3> DEFINE a == F[k - 1]
                 b == w[k]
                 c == T[k]
      <3>1. a \in Seq(S) /\ b \in Seq(S) /\ c \in Seq(S)
        BY <2>3
      <3> HIDE DEF a, b, c
      <3>2. (a \o b) \o c = a \o (b \o c)
        BY <3>1, SMTT(30)
      <3> QED
        BY <2>2, <3>2 DEF a, b, c
    <2>5. w[k] \o T[k] \in Seq(S)
      BY <2>3, ConcatTyped
    <2> QED
      BY <2>3, <2>4, <2>5, Cancel, Zenon
  <1> QED
    BY <1>8, <1>9, <1>10, <1>11 DEF N, P

Peels(w, T) ==
  /\ T \in [0..Len(w) -> Seq(Nat)] /\ T[0] = FlattenSeq(w) /\ T[Len(w)] = <<>>
  /\ \A k \in 1..Len(w) : T[k - 1] = w[k] \o T[k]

LEMMA Peeled ==
  \A w \in Seq(Seq(Nat)) : \E T : Peels(w, T)
  <1> SUFFICES ASSUME NEW w \in Seq(Seq(Nat)) PROVE \E T : Peels(w, T)
    OBVIOUS
  <1>1. PICK T \in [0..Len(w) -> Seq(Nat)] :
          /\ T[0] = FlattenSeq(w) /\ T[Len(w)] = <<>>
          /\ \A k \in 1..Len(w) : T[k - 1] = w[k] \o T[k]
    BY FlattenSuffixes
  <1>2. Peels(w, T)
    BY <1>1, Zenon DEF Peels
  <1> QED
    BY <1>2

LEMMA FlattenTyped ==
  \A w \in Seq(Seq(Nat)) : FlattenSeq(w) \in Seq(Nat)
  <1> SUFFICES ASSUME NEW w \in Seq(Seq(Nat)) PROVE FlattenSeq(w) \in Seq(Nat)
    OBVIOUS
  <1>1. Len(w) \in Nat
    OBVIOUS
  <1>2. PICK T : Peels(w, T)
    BY Peeled
  <1> QED
    BY <1>1, <1>2 DEF Peels

\* A chain of sequences that take one member off at a time starts with all of them.
LEMMA FlattenIs ==
  ASSUME NEW S, NEW w \in Seq(Seq(S)), NEW T \in [0..Len(w) -> Seq(S)],
         T[Len(w)] = <<>>, \A k \in 1..Len(w) : T[k - 1] = w[k] \o T[k]
  PROVE  T[0] = FlattenSeq(w)
  <1> DEFINE N == Len(w)
  <1>1. N \in Nat /\ \A k \in 1..N : w[k] \in Seq(S)
    BY ElementOfSeq
  <1>2. PICK F \in [0..N -> Seq(S)] :
          /\ F[0] = <<>> /\ F[N] = FlattenSeq(w)
          /\ \A k \in 1..N : F[k] = F[k - 1] \o w[k]
    BY FlattenSteps
  <1>3. T \in [0..N -> Seq(S)] /\ T[N] = <<>> /\ \A k \in 1..N : T[k - 1] = w[k] \o T[k]
    OBVIOUS
  <1> HIDE DEF N
  <1> DEFINE Same == {n \in 0..N : T[0] = F[n] \o T[n]}
  <1>4. 0 \in Same
    <2>1. 0 \in 0..N /\ T[0] \in Seq(S)
      BY <1>1, <1>3
    <2>2. T[0] = F[0] \o T[0]
      BY <1>2, <2>1, EmptyIsUnit, Zenon
    <2> QED
      BY <2>1, <2>2
  <1>5. ASSUME NEW n \in 0..N - 1, n \in Same PROVE n + 1 \in Same
    <2>1. n \in 0..N /\ n + 1 \in 0..N /\ n + 1 \in 1..N /\ (n + 1) - 1 = n
      BY <1>1
    <2>2. T[0] = F[n] \o T[n] /\ T[n] = w[n + 1] \o T[n + 1] /\ F[n + 1] = F[n] \o w[n + 1]
      BY <1>2, <1>3, <1>5, <2>1
    <2>3. F[n] \in Seq(S) /\ w[n + 1] \in Seq(S) /\ T[n + 1] \in Seq(S)
      BY <1>1, <1>2, <1>3, <2>1
    <2>4. T[0] = F[n + 1] \o T[n + 1]
      <3> DEFINE a == F[n]
                 b == w[n + 1]
                 c == T[n + 1]
      <3>1. a \in Seq(S) /\ b \in Seq(S) /\ c \in Seq(S)
        BY <2>3
      <3> HIDE DEF a, b, c
      <3>2. (a \o b) \o c = a \o (b \o c)
        BY <3>1, SMTT(30)
      <3> QED
        BY <2>2, <3>2 DEF a, b, c
    <2> QED
      BY <2>1, <2>4
  <1>6. N \in Same
    <2>1. 0..N \subseteq Same
      <3> HIDE DEF Same
      <3> QED
        BY <1>1, <1>4, <1>5, RangeInduction
    <2>2. N \in 0..N
      BY <1>1
    <2> HIDE DEF Same
    <2> QED
      BY <2>1, <2>2
  <1>7. T[0] = F[N] \o <<>> /\ F[N] \in Seq(S)
    BY <1>1, <1>2, <1>3, <1>6
  <1> QED
    BY <1>2, <1>7, ConcatEmptySeq

--------------------------------------------------------------------------------
(* One field. *)

\* A reader that has read these fields without an error and has this left.
Reader(rest, fields) == [rest |-> rest, fields |-> fields, error |-> "none"]

LEMMA DigestSizeNumber == DigestSize \in Nat
  BY MessagesAssumption

LEMMA WrittenType ==
  ASSUME NEW kind \in Kinds, NEW value \in ValueFor(kind)
  PROVE  WriteField(kind, value) \in Seq(Nat)
  <1>1. CASE kind \in Numbers
    <2>1. WriteField(kind, value) = <<value>> /\ value \in Nat
      BY <1>1 DEF WriteField, ValueFor, Numbers, Counted
    <2> QED
      BY <2>1
  <1>2. CASE kind \in Counted
    <2>1. WriteField(kind, value) = <<Len(value)>> \o value /\ value \in Seq(Nat)
      BY <1>2 DEF WriteField, ValueFor, Numbers, Counted
    <2>2. <<Len(value)>> \in Seq(Nat)
      BY <2>1
    <2> QED
      BY <2>1, <2>2, ConcatTyped
  <1>3. CASE kind \in {"data", "digest"}
    BY <1>3 DEF WriteField, ValueFor, Numbers, Counted
  <1> QED
    BY <1>1, <1>2, <1>3 DEF Kinds

\* What a field was written as is read back as its value, and no cell more is taken.
LEMMA ReadWritten ==
  ASSUME NEW kind \in Kinds, NEW value \in ValueFor(kind), Acceptable(kind, value),
         NEW rest \in Seq(Nat), kind = "data" => rest = <<>>, NEW fields
  PROVE  ReadField(Reader(WriteField(kind, value) \o rest, fields), kind) =
           Reader(rest, Append(fields, value))
  <1> DEFINE w == WriteField(kind, value)
             all == w \o rest
             n == Extent(kind, all)
             cells == SubSeq(all, 1, n)
  <1>1. w \in Seq(Nat)
    BY WrittenType
  <1>2. /\ all \in Seq(Nat) /\ Len(all) = Len(w) + Len(rest)
        /\ \A i \in 1..Len(w) : all[i] = w[i]
    <2> HIDE DEF w
    <2> QED
      BY <1>1
  <1>3. n = Len(w)
    <2>1. CASE kind \in Numbers
      BY <2>1 DEF Extent, WriteField, Numbers, Counted
    <2>2. CASE kind \in Counted
      <3>1. w = <<Len(value)>> \o value /\ value \in Seq(Nat)
        BY <2>2 DEF WriteField, ValueFor, Numbers, Counted
      <3>2. w # <<>> /\ Len(w) = 1 + Len(value) /\ w[1] = Len(value)
        <4> HIDE DEF w
        <4> QED
          BY <3>1
      <3>3. all # <<>> /\ all[1] = Len(value)
        <4> HIDE DEF w
        <4> QED
          BY <1>1, <1>2, <3>2
      <3>4. FirstOf(all) = Len(value)
        <4> HIDE DEF all
        <4> QED
          BY <3>3 DEF FirstOf
      <3>5. n = 1 + FirstOf(all)
        BY <2>2 DEF Extent, Numbers, Counted
      <3> QED
        BY <3>2, <3>4, <3>5
    <2>3. CASE kind = "data"
      <3>1. w = value /\ n = Len(all) /\ value \in Seq(Nat)
        BY <2>3 DEF Extent, WriteField, ValueFor, Numbers, Counted
      <3> QED
        BY <1>2, <2>3, <3>1
    <2>4. CASE kind = "digest"
      BY <2>4 DEF Extent, WriteField, Acceptable, Numbers, Counted
    <2> QED
      BY <2>1, <2>2, <2>3, <2>4 DEF Kinds
  <1> HIDE DEF n
  <1>4. cells = w
    <2>1. Len(cells) = Len(w) /\ cells \in Seq(Nat) /\ \A i \in 1..Len(w) : cells[i] = w[i]
      <3> HIDE DEF w
      <3>1. \A i \in 1..Len(w) : all[i] \in Nat
        BY <1>1, <1>2
      <3> HIDE DEF all
      <3> QED
        BY <1>1, <1>2, <1>3, <3>1
    <2> HIDE DEF w, cells
    <2> QED
      BY <1>1, <2>1, SeqEqual
  <1>5. SubSeq(all, n + 1, Len(all)) = rest
    <2> HIDE DEF w
    <2> QED
      BY <1>1, <1>2, <1>3
  <1>6. ValueOf(kind, cells) = value
    <2>1. CASE kind \in Numbers
      <3>1. ValueOf(kind, cells) = cells[1] /\ w = <<value>>
        BY <2>1 DEF ValueOf, WriteField, Numbers, Counted
      <3> HIDE DEF w, cells
      <3> QED
        BY <1>4, <3>1
    <2>2. CASE kind \in Counted
      <3>1. w = <<Len(value)>> \o value /\ value \in Seq(Nat)
        BY <2>2 DEF WriteField, ValueFor, Numbers, Counted
      <3>2. Tail(w) = value
        <4> HIDE DEF w
        <4> QED
          BY <3>1, SMTT(30)
      <3>3. ValueOf(kind, cells) = Tail(cells)
        BY <2>2 DEF ValueOf, Numbers, Counted
      <3> HIDE DEF w, cells
      <3> QED
        BY <1>4, <3>2, <3>3
    <2>3. CASE kind \in {"data", "digest"}
      <3>1. ValueOf(kind, cells) = cells /\ w = value
        BY <2>3 DEF ValueOf, WriteField, Numbers, Counted
      <3> HIDE DEF w, cells
      <3> QED
        BY <1>4, <3>1
    <2> QED
      BY <2>1, <2>2, <2>3 DEF Kinds
  <1>7. kind = "filename" => ValidFilename(value)
    BY DEF Acceptable
  <1>8. n <= Len(all)
    <2> HIDE DEF w
    <2> QED
      BY <1>1, <1>2, <1>3
  <1> HIDE DEF w, all, cells
  <1>9. ReadField(Reader(all, fields), kind) =
          [rest |-> SubSeq(all, n + 1, Len(all)), fields |-> Append(fields, ValueOf(kind, cells)),
           error |-> IF kind = "filename" /\ ~ValidFilename(ValueOf(kind, cells))
                     THEN "INVALID_FILENAME" ELSE "none"]
    BY <1>8 DEF ReadField, Reader, n, cells
  <1>10. ReadField(Reader(all, fields), kind) = Reader(rest, Append(fields, value))
    BY <1>5, <1>6, <1>7, <1>9 DEF Reader
  <1> QED
    BY <1>10 DEF w, all

RestOf(reader) == reader.rest
FieldsOf(reader) == reader.fields
ErrorOf(reader) == reader.error

LEMMA ReaderParts ==
  \A rest, fields : /\ RestOf(Reader(rest, fields)) = rest
                    /\ FieldsOf(Reader(rest, fields)) = fields
                    /\ ErrorOf(Reader(rest, fields)) = "none"
  BY DEF RestOf, FieldsOf, ErrorOf, Reader

LEMMA ErrorStays ==
  ASSUME NEW reader, NEW kind, ErrorOf(reader) # "none"
  PROVE  ReadField(reader, kind) = reader
  BY DEF ReadField, ErrorOf

LEMMA SplitAt ==
  ASSUME NEW S, NEW s \in Seq(S), NEW n \in 0..Len(s)
  PROVE  s = SubSeq(s, 1, n) \o SubSeq(s, n + 1, Len(s))
  <1> DEFINE a == SubSeq(s, 1, n)
             b == SubSeq(s, n + 1, Len(s))
  <1>1. a \in Seq(S) /\ Len(a) = n /\ \A i \in 1..n : a[i] = s[i]
    OBVIOUS
  <1>2. b \in Seq(S) /\ Len(b) = Len(s) - n /\ \A i \in 1..Len(s) - n : b[i] = s[n + i]
    OBVIOUS
  <1> HIDE DEF a, b
  <1>3. a \o b \in Seq(S) /\ Len(a \o b) = Len(s)
    BY <1>1, <1>2
  <1>4. ASSUME NEW i \in 1..Len(s) PROVE (a \o b)[i] = s[i]
    <2>1. CASE i <= n
      <3>1. (a \o b)[i] = a[i]
        BY <1>1, <1>2, <2>1
      <3> QED
        BY <1>1, <2>1, <3>1
    <2>2. CASE i > n
      <3>1. i - n \in 1..Len(s) - n /\ n + (i - n) = i
        BY <2>2
      <3>2. b[i - n] = s[i]
        BY <1>2, <3>1
      <3>3. (a \o b)[i] = b[i - n]
        BY <1>1, <1>2, <2>2
      <3> QED
        BY <3>2, <3>3
    <2>3. i <= n \/ i > n
      OBVIOUS
    <2> QED
      BY <2>1, <2>2, <2>3, Zenon
  <1>5. s = a \o b
    BY <1>3, <1>4, SeqEqual
  <1> QED
    BY <1>5 DEF a, b

\* A field read without an error is the only way to write its value.
LEMMA ReadBack ==
  ASSUME NEW kind \in Kinds, NEW rest \in Seq(Nat), NEW fields,
         ErrorOf(ReadField(Reader(rest, fields), kind)) = "none"
  PROVE  \E value \in ValueFor(kind), left \in Seq(Nat) :
           /\ ReadField(Reader(rest, fields), kind) = Reader(left, Append(fields, value))
           /\ rest = WriteField(kind, value) \o left
  <1> DEFINE n == Extent(kind, rest)
             cells == SubSeq(rest, 1, n)
             left == SubSeq(rest, n + 1, Len(rest))
             value == ValueOf(kind, cells)
             read == ReadField(Reader(rest, fields), kind)
  <1>1. n \in Nat /\ (kind \in Numbers => n = 1)
    <2>1. FirstOf(rest) \in Nat
      BY DEF FirstOf
    <2>2. CASE kind \in Numbers
      BY <2>2 DEF Extent, Numbers, Counted
    <2>3. CASE kind \in Counted
      <3>1. n = 1 + FirstOf(rest) /\ kind \notin Numbers
        BY <2>3 DEF Extent, Numbers, Counted
      <3> QED
        BY <2>1, <3>1
    <2>4. CASE kind = "data"
      BY <2>4 DEF Extent, Numbers, Counted
    <2>5. CASE kind = "digest"
      BY <2>5, DigestSizeNumber DEF Extent, Numbers, Counted
    <2> QED
      BY <2>2, <2>3, <2>4, <2>5 DEF Kinds, Numbers, Counted
  <1>2. n <= Len(rest)
    <2>1. ASSUME n > Len(rest) PROVE FALSE
      <3>1. ErrorOf(read) = "INVALID_PAYLOAD"
        BY <1>1, <2>1 DEF ReadField, Reader, ErrorOf
      <3> QED
        BY <3>1
    <2> HIDE DEF n
    <2> QED
      BY <1>1, <2>1
  <1>3. read = Reader(left, Append(fields, value))
    <2>1. read = [rest |-> left, fields |-> Append(fields, value),
                  error |-> IF kind = "filename" /\ ~ValidFilename(value)
                            THEN "INVALID_FILENAME" ELSE "none"]
      <3> HIDE DEF n, value
      <3> QED
        BY <1>2 DEF ReadField, Reader, n, value
    <2>2. read.error = "none"
      BY DEF ErrorOf
    <2> HIDE DEF left, value, read
    <2> QED
      BY <2>1, <2>2 DEF Reader
  <1>4. left \in Seq(Nat) /\ cells \in Seq(Nat) /\ Len(cells) = n
    <2> HIDE DEF n
    <2> QED
      BY <1>1, <1>2
  <1>5. rest = cells \o left
    <2> HIDE DEF n
    <2>1. n \in 0..Len(rest)
      BY <1>1, <1>2
    <2> QED
      BY <2>1, SplitAt
  <1>6. value \in ValueFor(kind) /\ WriteField(kind, value) = cells
    <2>1. CASE kind \in Numbers
      <3>1. value = cells[1]
        BY <2>1 DEF ValueOf, Numbers, Counted
      <3>a. Len(cells) = 1
        BY <1>1, <1>4, <2>1
      <3>2. cells[1] \in Nat /\ cells = <<cells[1]>>
        <4> HIDE DEF n, left, cells
        <4>0. cells \in Seq(Nat) /\ 1 \in 1..Len(cells)
          BY <1>4, <3>a
        <4>1. cells[1] \in Nat
          BY <4>0, ElementOfSeq
        <4>2. <<cells[1]>> \in Seq(Nat) /\ Len(<<cells[1]>>) = 1
          BY <4>1
        <4> QED
          BY <1>4, <3>a, <4>1, <4>2, SeqEqual
      <3>3. WriteField(kind, value) = <<value>> /\ ValueFor(kind) = Nat
        BY <2>1 DEF WriteField, ValueFor, Numbers, Counted
      <3> HIDE DEF cells, value
      <3> QED
        BY <3>1, <3>2, <3>3
    <2>2. CASE kind \in Counted
      <3>1. value = Tail(cells) /\ n = 1 + FirstOf(rest)
        BY <2>2 DEF ValueOf, Extent, Numbers, Counted
      <3>2. rest # <<>> /\ FirstOf(rest) = rest[1] /\ rest[1] \in Nat
        <4>1. FirstOf(rest) \in Nat
          BY DEF FirstOf
        <4>2. rest # <<>>
          <5> HIDE DEF n
          <5> QED
            BY <1>2, <3>1, <4>1
        <4> QED
          BY <4>2 DEF FirstOf
      <3>3. Len(cells) = 1 + rest[1] /\ cells[1] = rest[1]
        <4>1. n = 1 + rest[1]
          BY <3>1, <3>2
        <4> HIDE DEF n
        <4> QED
          BY <1>1, <1>2, <3>2, <4>1
      <3>4. Tail(cells) \in Seq(Nat) /\ cells = <<Len(Tail(cells))>> \o Tail(cells)
        <4> HIDE DEF cells
        <4> QED
          BY <1>4, <3>2, <3>3, SMTT(30)
      <3>5. WriteField(kind, value) = <<Len(value)>> \o value /\ ValueFor(kind) = Seq(Nat)
        BY <2>2 DEF WriteField, ValueFor, Numbers, Counted
      <3> HIDE DEF cells, value
      <3> QED
        BY <3>1, <3>4, <3>5
    <2>3. CASE kind \in {"data", "digest"}
      <3>1. value = cells /\ WriteField(kind, value) = value /\ ValueFor(kind) = Seq(Nat)
        BY <2>3 DEF ValueOf, WriteField, ValueFor, Numbers, Counted
      <3> HIDE DEF cells, value
      <3> QED
        BY <1>4, <3>1
    <2> QED
      BY <2>1, <2>2, <2>3 DEF Kinds
  <1> HIDE DEF n, cells, left, value
  <1> QED
    BY <1>3, <1>4, <1>5, <1>6

TookOne(kind, rest, fields, after) ==
  \E value \in ValueFor(kind), left \in Seq(Nat) :
    /\ after = Reader(left, Append(fields, value))
    /\ rest = WriteField(kind, value) \o left

LEMMA ReadBackAt ==
  \A kind \in Kinds : \A rest \in Seq(Nat) : \A fields, reader :
    reader = Reader(rest, fields) /\ ErrorOf(ReadField(reader, kind)) = "none"
      => TookOne(kind, rest, fields, ReadField(reader, kind))
  BY ReadBack, SMTT(30) DEF TookOne

--------------------------------------------------------------------------------
(* All fields of a payload. *)

Value == Nat \cup Seq(Nat)

Written(L, values) == [i \in 1..Len(L) |-> WriteField(L[i], values[i])]

LEMMA WrittenTyped ==
  ASSUME NEW L \in Seq(Kinds), NEW values,
         \A i \in 1..Len(L) : values[i] \in ValueFor(L[i])
  PROVE  /\ Written(L, values) \in Seq(Seq(Nat)) /\ Len(Written(L, values)) = Len(L)
         /\ \A i \in 1..Len(L) : Written(L, values)[i] = WriteField(L[i], values[i])
  <1>1. \A i \in 1..Len(L) : L[i] \in Kinds
    BY ElementOfSeq
  <1>2. \A i \in 1..Len(L) : WriteField(L[i], values[i]) \in Seq(Nat)
    BY <1>1, WrittenType
  <1>3. Len(L) \in Nat
    OBVIOUS
  <1> QED
    BY <1>2, <1>3 DEF Written

\* A payload that was written from acceptable values is read back as these values.
LEMMA WrittenReads ==
  ASSUME NEW L \in Seq(Kinds), \A i \in 1..Len(L) : L[i] = "data" => i = Len(L),
         NEW values \in Seq(Value), Len(values) = Len(L),
         \A i \in 1..Len(L) : values[i] \in ValueFor(L[i]) /\ Acceptable(L[i], values[i])
  PROVE  ReadAll(Reader(FlattenSeq(Written(L, values)), <<>>), L) =
           Reader(<<>>, values)
  <1> DEFINE N == Len(L)
             w == Written(L, values)
             P == FlattenSeq(w)
  <1>1. N \in Nat /\ Len(values) = N /\ \A i \in 1..N : L[i] \in Kinds /\ values[i] \in Value
    BY ElementOfSeq
  <1>2. /\ w \in Seq(Seq(Nat)) /\ Len(w) = N
        /\ \A i \in 1..N : w[i] = WriteField(L[i], values[i])
    BY WrittenTyped
  <1>3. PICK T \in [0..N -> Seq(Nat)] :
          T[0] = P /\ T[N] = <<>> /\ \A k \in 1..N : T[k - 1] = w[k] \o T[k]
    <2>1. w \in Seq(Seq(Nat)) /\ Len(w) = N
      BY <1>2
    <2> HIDE DEF w, N
    <2>2. \E T \in [0..Len(w) -> Seq(Nat)] :
            /\ T[0] = FlattenSeq(w) /\ T[Len(w)] = <<>>
            /\ \A k \in 1..Len(w) : T[k - 1] = w[k] \o T[k]
      BY <2>1, FlattenSuffixes
    <2> QED
      BY <2>1, <2>2
  <1>4. PICK R : /\ R[0] = Reader(P, <<>>) /\ R[N] = ReadAll(Reader(P, <<>>), L)
                 /\ \A k \in 1..N : R[k] = ReadField(R[k - 1], L[k])
    <2> DEFINE b == Reader(P, <<>>)
    <2> HIDE DEF b
    <2>1. \E R : /\ R[0] = b /\ R[Len(L)] = ReadAll(b, L)
                 /\ \A k \in 1..Len(L) : R[k] = ReadField(R[k - 1], L[k])
      BY FoldSteps, SMTT(30)
    <2> QED
      BY <2>1 DEF b
  <1>5. \A i \in 1..N : values[i] \in ValueFor(L[i]) /\ Acceptable(L[i], values[i])
    OBVIOUS
  <1>6. \A i \in 1..N : L[i] = "data" => i = N
    OBVIOUS
  <1> HIDE DEF N, w, P
  <1> DEFINE First(k) == SubSeq(values, 1, k)
             Read == {k \in 0..N : R[k] = Reader(T[k], First(k))}
  <1>7. 0 \in Read
    <2>1. First(0) = <<>>
      BY SubSeqEmpty
    <2> HIDE DEF First
    <2> QED
      BY <1>1, <1>3, <1>4, <2>1
  <1>8. ASSUME NEW n \in 0..N - 1, n \in Read PROVE n + 1 \in Read
    <2>1. n + 1 \in 1..N /\ n + 1 \in 0..N /\ (n + 1) - 1 = n
      BY <1>1
    <2>2. R[n] = Reader(T[n], First(n)) /\ R[n + 1] = ReadField(R[n], L[n + 1])
      BY <1>4, <1>8, <2>1
    <2>3. T[n] = WriteField(L[n + 1], values[n + 1]) \o T[n + 1]
      BY <1>2, <1>3, <2>1
    <2>4. T[n + 1] \in Seq(Nat) /\ (L[n + 1] = "data" => T[n + 1] = <<>>)
      BY <1>3, <1>6, <2>1
    <2>5. /\ L[n + 1] \in Kinds /\ values[n + 1] \in ValueFor(L[n + 1])
          /\ Acceptable(L[n + 1], values[n + 1])
      BY <1>1, <1>5, <2>1
    <2>6. First(n + 1) = Append(First(n), values[n + 1])
      BY <1>1, <2>1
    <2> HIDE DEF First
    <2>7. ReadField(Reader(WriteField(L[n + 1], values[n + 1]) \o T[n + 1], First(n)), L[n + 1]) =
            Reader(T[n + 1], Append(First(n), values[n + 1]))
      BY <2>4, <2>5, ReadWritten
    <2>8. R[n + 1] = Reader(T[n + 1], First(n + 1))
      BY <2>2, <2>3, <2>6, <2>7
    <2> QED
      BY <2>1, <2>8
  <1>9. N \in Read
    <2>1. 0..N \subseteq Read
      <3> HIDE DEF Read
      <3> QED
        BY <1>1, <1>7, <1>8, RangeInduction
    <2>2. N \in 0..N
      BY <1>1
    <2> HIDE DEF Read
    <2> QED
      BY <2>1, <2>2
  <1>10. R[N] = Reader(T[N], First(N)) /\ First(N) = values
    <2>1. First(N) = values
      BY <1>1, SubSeqFull
    <2> HIDE DEF First
    <2> QED
      BY <1>9, <2>1
  <1> QED
    BY <1>3, <1>4, <1>10 DEF N, w, P

\* A payload that is read to its end without an error is what its values are written as.
LEMMA ReadsWritten ==
  ASSUME NEW L \in Seq(Kinds), NEW p \in Seq(Nat), NEW read, NEW fields,
         read = ReadAll(Reader(p, <<>>), L),
         ErrorOf(read) = "none", RestOf(read) = <<>>, FieldsOf(read) = fields
  PROVE  /\ fields \in Seq(Value) /\ Len(fields) = Len(L)
         /\ \A i \in 1..Len(L) : fields[i] \in ValueFor(L[i])
         /\ p = FlattenSeq(Written(L, fields))
  <1> DEFINE N == Len(L)
  <1>1. N \in Nat /\ \A i \in 1..N : L[i] \in Kinds
    BY ElementOfSeq
  <1>2. PICK R : /\ R[0] = Reader(p, <<>>) /\ R[N] = read
                 /\ \A k \in 1..N : R[k] = ReadField(R[k - 1], L[k])
    <2> DEFINE b == Reader(p, <<>>)
    <2> HIDE DEF b
    <2>1. \E R : /\ R[0] = b /\ R[Len(L)] = ReadAll(b, L)
                 /\ \A k \in 1..Len(L) : R[k] = ReadField(R[k - 1], L[k])
      BY FoldSteps
    <2>2. ReadAll(b, L) = read
      BY DEF b
    <2> QED
      BY <2>1, <2>2 DEF b
  <1> HIDE DEF N
  \* An error would have stayed.
  <1>3. \A k \in 0..N : ErrorOf(R[k]) = "none"
    <2> DEFINE Fine == {n \in 0..N : ErrorOf(R[N - n]) = "none"}
    <2>1. 0 \in Fine
      <3>1. ErrorOf(R[N]) = "none" /\ N - 0 = N /\ 0 \in 0..N
        BY <1>1, <1>2
      <3> QED
        BY <3>1
    <2>2. ASSUME NEW n \in 0..N - 1, n \in Fine PROVE n + 1 \in Fine
      <3>1. N - n \in 1..N /\ (N - n) - 1 = N - (n + 1) /\ n + 1 \in 0..N
        BY <1>1
      <3>2. R[N - n] = ReadField(R[N - (n + 1)], L[N - n]) /\ ErrorOf(R[N - n]) = "none"
        BY <1>2, <2>2, <3>1
      <3>3. ErrorOf(R[N - (n + 1)]) = "none"
        BY <3>2, ErrorStays
      <3> QED
        BY <3>1, <3>3
    <2>3. 0..N \subseteq Fine
      <3> HIDE DEF Fine
      <3> QED
        BY <1>1, <2>1, <2>2, RangeInduction
    <2> SUFFICES ASSUME NEW k \in 0..N PROVE ErrorOf(R[k]) = "none"
      OBVIOUS
    <2>4. N - k \in 0..N /\ N - (N - k) = k
      BY <1>1
    <2>5. N - k \in Fine
      <3> HIDE DEF Fine
      <3> QED
        BY <2>3, <2>4
    <2>6. ErrorOf(R[N - (N - k)]) = "none"
      BY <2>5
    <2> QED
      BY <2>4, <2>6
  <1> DEFINE Chain(k) ==
               /\ R[k] = Reader(RestOf(R[k]), FieldsOf(R[k])) /\ RestOf(R[k]) \in Seq(Nat)
               /\ FieldsOf(R[k]) \in Seq(Value) /\ Len(FieldsOf(R[k])) = k
               /\ \A i \in 1..k : /\ FieldsOf(R[k])[i] \in ValueFor(L[i])
                                  /\ RestOf(R[i - 1]) = WriteField(L[i], FieldsOf(R[k])[i]) \o RestOf(R[i])
             Chained == {n \in 0..N : \A k \in 0..n : Chain(k)}
  <1>4. 0 \in Chained
    <2>1. R[0] = Reader(p, <<>>) /\ 0 \in 0..N
      BY <1>1, <1>2
    <2>2. RestOf(R[0]) = p /\ FieldsOf(R[0]) = <<>>
      BY <2>1, ReaderParts
    <2>3. Chain(0)
      <3>1. R[0] = Reader(RestOf(R[0]), FieldsOf(R[0]))
        BY <2>1, <2>2
      <3>2. RestOf(R[0]) \in Seq(Nat) /\ FieldsOf(R[0]) \in Seq(Value) /\ Len(FieldsOf(R[0])) = 0
        BY <2>2
      <3>3. \A i \in 1..0 : FALSE
        OBVIOUS
      <3> QED
        BY <3>1, <3>2, <3>3
    <2>4. \A k \in 0..0 : k = 0
      OBVIOUS
    <2> HIDE DEF Chain
    <2> QED
      BY <2>1, <2>3, <2>4
  <1>5. ASSUME NEW n \in 0..N - 1, n \in Chained PROVE n + 1 \in Chained
    <2>1. n + 1 \in 1..N /\ n + 1 \in 0..N /\ n \in 0..n /\ (n + 1) - 1 = n /\ n \in Nat
      BY <1>1
    <2>2. Chain(n)
      <3> HIDE DEF Chain
      <3> QED
        BY <1>5, <2>1
    <2>3. L[n + 1] \in Kinds /\ R[n + 1] = ReadField(R[n], L[n + 1]) /\ ErrorOf(R[n + 1]) = "none"
      BY <1>1, <1>2, <1>3, <2>1
    <2>4. PICK value \in ValueFor(L[n + 1]), left \in Seq(Nat) :
            /\ R[n + 1] = Reader(left, Append(FieldsOf(R[n]), value))
            /\ RestOf(R[n]) = WriteField(L[n + 1], value) \o left
      <3> DEFINE reader == R[n]
                 kind == L[n + 1]
                 rest == RestOf(R[n])
                 before == FieldsOf(R[n])
      <3>1. kind \in Kinds
        BY <2>3
      <3>5. rest \in Seq(Nat)
        BY <2>2
      <3>6. reader = Reader(rest, before)
        BY <2>2
      <3>2. R[n + 1] = ReadField(reader, kind) /\ ErrorOf(R[n + 1]) = "none"
        BY <2>3
      <3> HIDE DEF reader, kind, rest, before, Chain
      <3>3. ErrorOf(ReadField(reader, kind)) = "none"
        BY <3>2
      <3>4. TookOne(kind, rest, before, ReadField(reader, kind))
        BY <3>1, <3>3, <3>5, <3>6, ReadBackAt, Zenon
      <3> QED
        BY <3>2, <3>4 DEF rest, before, kind, TookOne
    <2>5. RestOf(R[n + 1]) = left /\ FieldsOf(R[n + 1]) = Append(FieldsOf(R[n]), value)
      BY <2>4, ReaderParts
    <2>6. value \in Value
      BY DEF ValueFor, Value
    <2>7. /\ FieldsOf(R[n + 1]) \in Seq(Value) /\ Len(FieldsOf(R[n + 1])) = n + 1
          /\ FieldsOf(R[n + 1])[n + 1] = value
          /\ \A i \in 1..n : FieldsOf(R[n + 1])[i] = FieldsOf(R[n])[i]
      <3> DEFINE before == FieldsOf(R[n])
      <3>1. before \in Seq(Value) /\ Len(before) = n
        BY <2>2
      <3> HIDE DEF before, Chain
      <3>2. FieldsOf(R[n + 1]) = Append(before, value)
        BY <2>5 DEF before
      <3>3. /\ Append(before, value) \in Seq(Value) /\ Len(Append(before, value)) = n + 1
            /\ Append(before, value)[n + 1] = value
            /\ \A i \in 1..n : Append(before, value)[i] = before[i]
        BY <2>6, <3>1, AppendProperties
      <3> QED
        BY <3>2, <3>3 DEF before
    <2>8. ASSUME NEW i \in 1..n + 1
          PROVE  /\ FieldsOf(R[n + 1])[i] \in ValueFor(L[i])
                 /\ RestOf(R[i - 1]) = WriteField(L[i], FieldsOf(R[n + 1])[i]) \o RestOf(R[i])
      <3>1. CASE i = n + 1
        BY <2>1, <2>4, <2>5, <2>7, <3>1
      <3>2. CASE i # n + 1
        <4>1. i \in 1..n
          BY <2>1, <3>2
        <4> QED
          BY <2>2, <2>7, <4>1
      <3> QED
        BY <3>1, <3>2
    <2>9. Chain(n + 1)
      <3>1. R[n + 1] = Reader(RestOf(R[n + 1]), FieldsOf(R[n + 1])) /\ RestOf(R[n + 1]) \in Seq(Nat)
        BY <2>4, <2>5
      <3> QED
        BY <2>7, <2>8, <3>1
    <2>10. \A k \in 0..n + 1 : k \in 0..n \/ k = n + 1
      BY <2>1
    <2> HIDE DEF Chain
    <2> QED
      BY <1>5, <2>1, <2>9, <2>10
  <1>6. Chain(N)
    <2>1. 0..N \subseteq Chained
      <3> HIDE DEF Chained
      <3> QED
        BY <1>1, <1>4, <1>5, RangeInduction
    <2>2. N \in 0..N
      BY <1>1
    <2> HIDE DEF Chain
    <2> QED
      BY <2>1, <2>2
  <1>7. \A k \in 0..N : RestOf(R[k]) \in Seq(Nat)
    <2>1. 0..N \subseteq Chained
      <3> HIDE DEF Chained
      <3> QED
        BY <1>1, <1>4, <1>5, RangeInduction
    <2>2. \A k \in 0..N : Chain(k)
      <3> HIDE DEF Chain
      <3> QED
        BY <1>1, <2>1
    <2> QED
      BY <2>2
  <1>8. RestOf(R[N]) = <<>> /\ FieldsOf(R[N]) = fields /\ RestOf(R[0]) = p
    BY <1>2, ReaderParts
  <1>9. /\ fields \in Seq(Value) /\ Len(fields) = N
        /\ \A i \in 1..N : /\ fields[i] \in ValueFor(L[i])
                           /\ RestOf(R[i - 1]) = WriteField(L[i], fields[i]) \o RestOf(R[i])
    BY <1>6, <1>8
  <1> HIDE DEF Chain, Chained
  <1>10. p = FlattenSeq(Written(L, fields))
    <2> DEFINE w == Written(L, fields)
               T == [k \in 0..N |-> RestOf(R[k])]
    <2>1. /\ w \in Seq(Seq(Nat)) /\ Len(w) = N
          /\ \A i \in 1..N : w[i] = WriteField(L[i], fields[i])
      BY <1>9, WrittenTyped DEF N
    <2> HIDE DEF w
    <2>2. T \in [0..N -> Seq(Nat)] /\ T[N] = <<>> /\ T[0] = p
      BY <1>1, <1>7, <1>8
    <2>3. \A k \in 1..N : T[k - 1] = w[k] \o T[k]
      <3> SUFFICES ASSUME NEW k \in 1..N PROVE T[k - 1] = w[k] \o T[k]
        OBVIOUS
      <3>1. k \in 0..N /\ k - 1 \in 0..N
        BY <1>1
      <3>2. T[k - 1] = RestOf(R[k - 1]) /\ T[k] = RestOf(R[k])
        BY <3>1
      <3> HIDE DEF T
      <3> QED
        BY <1>9, <2>1, <3>2
    <2> HIDE DEF T
    <2>4. Len(w) = N /\ w \in Seq(Seq(Nat))
      BY <2>1
    <2>5. T[0] = FlattenSeq(w)
      <3>1. T \in [0..Len(w) -> Seq(Nat)] /\ T[Len(w)] = <<>>
        BY <2>2, <2>4
      <3>2. \A k \in 1..Len(w) : T[k - 1] = w[k] \o T[k]
        BY <2>3, <2>4
      <3> QED
        BY <2>4, <3>1, <3>2, FlattenIs
    <2> QED
      BY <2>2, <2>5 DEF w
  <1> QED
    BY <1>9, <1>10 DEF N

--------------------------------------------------------------------------------
(* Layouts. *)

Received == Opcodes \ {Opcode.FILE_DELETE}

LEMMA OpcodeValues ==
  /\ Opcode.LOGIN = 1 /\ Opcode.DISCONNECT = 2 /\ Opcode.FILE_LIST = 16
  /\ Opcode.FILE_LIST_RESP = 17 /\ Opcode.FILE_UPLOAD = 18 /\ Opcode.FILE_DOWNLOAD = 19
  /\ Opcode.FILE_CHUNK = 20 /\ Opcode.FILE_DELETE = 21 /\ Opcode.FILE_INFO = 22
  /\ Opcode.FILE_CHECKSUM = 23 /\ Opcode.ACK = 32 /\ Opcode.ERROR = 255
  BY DEF Opcode

LEMMA ReceivedValues ==
  /\ Received \subseteq {1, 2, 16, 17, 18, 19, 20, 22, 23, 32, 255}
  /\ Opcodes \subseteq Nat
  <1>1. DOMAIN Opcode = {"LOGIN", "DISCONNECT", "FILE_LIST", "FILE_LIST_RESP", "FILE_UPLOAD",
                         "FILE_DOWNLOAD", "FILE_CHUNK", "FILE_DELETE", "FILE_INFO",
                         "FILE_CHECKSUM", "ACK", "ERROR"}
    BY DEF Opcode
  <1>2. Opcodes \subseteq {1, 2, 16, 17, 18, 19, 20, 21, 22, 23, 32, 255}
    BY <1>1, OpcodeValues DEF Opcodes
  <1> QED
    BY <1>2, OpcodeValues DEF Received

LEMMA OtherLayouts ==
  ASSUME NEW first
  PROVE  /\ Layout(1, first) = <<"username">>
         /\ Layout(2, first) = <<>> /\ Layout(16, first) = <<>>
         /\ Layout(18, first) = <<"filename", "uint", "uint">>
         /\ Layout(22, first) = <<"filename", "uint", "uint">>
         /\ Layout(19, first) = <<"filename", "uint">>
         /\ Layout(20, first) = <<"uint", "data">>
         /\ Layout(23, first) = <<"uint", "digest">>
         /\ Layout(32, first) = <<"opcode", "uint">>
         /\ Layout(255, first) = <<"raw opcode", "error code", "text">>
  <1>1. Layout(1, first) = <<"username">>
    BY OpcodeValues DEF Layout
  <1>2. Layout(2, first) = <<>>
    BY OpcodeValues DEF Layout
  <1>3. Layout(16, first) = <<>>
    BY OpcodeValues DEF Layout
  <1>4. Layout(18, first) = <<"filename", "uint", "uint">>
    BY OpcodeValues DEF Layout
  <1>5. Layout(22, first) = <<"filename", "uint", "uint">>
    BY OpcodeValues DEF Layout
  <1>6. Layout(19, first) = <<"filename", "uint">>
    BY OpcodeValues DEF Layout
  <1>7. Layout(20, first) = <<"uint", "data">>
    BY OpcodeValues DEF Layout
  <1>8. Layout(23, first) = <<"uint", "digest">>
    BY OpcodeValues DEF Layout
  <1>9. Layout(32, first) = <<"opcode", "uint">>
    BY OpcodeValues DEF Layout
  <1>10. Layout(255, first) = <<"raw opcode", "error code", "text">>
    <2>1. /\ 255 # Opcode.LOGIN /\ 255 \notin {Opcode.DISCONNECT, Opcode.FILE_LIST}
          /\ 255 # Opcode.FILE_LIST_RESP /\ 255 \notin {Opcode.FILE_UPLOAD, Opcode.FILE_INFO}
          /\ 255 # Opcode.FILE_DOWNLOAD /\ 255 # Opcode.FILE_CHUNK
          /\ 255 # Opcode.FILE_CHECKSUM /\ 255 # Opcode.ACK /\ 255 = Opcode.ERROR
      BY OpcodeValues
    <2> QED
      BY <2>1, Zenon DEF Layout
  <1> QED
    BY <1>1, <1>2, <1>3, <1>4, <1>5, <1>6, <1>7, <1>8, <1>9, <1>10

Ordered(L) == L \in Seq(Kinds) /\ \A i \in 1..Len(L) : L[i] = "data" => i = Len(L)

LEMMA OrderedShort ==
  \A a, b, c \in Kinds : /\ Ordered(<<>>) /\ Ordered(<<a>>)
                         /\ a # "data" => Ordered(<<a, b>>)
                         /\ a # "data" /\ b # "data" => Ordered(<<a, b, c>>)
  <1> SUFFICES ASSUME NEW a \in Kinds, NEW b \in Kinds, NEW c \in Kinds
               PROVE  /\ Ordered(<<>>) /\ Ordered(<<a>>)
                      /\ a # "data" => Ordered(<<a, b>>)
                      /\ a # "data" /\ b # "data" => Ordered(<<a, b, c>>)
    OBVIOUS
  <1>1. Ordered(<<>>)
    BY EmptySeq DEF Ordered
  <1>2. Ordered(<<a>>)
    <2>1. <<a>> \in Seq(Kinds) /\ Len(<<a>>) = 1
      OBVIOUS
    <2>2. \A i \in 1..1 : i = 1
      OBVIOUS
    <2> QED
      BY <2>1, <2>2 DEF Ordered
  <1>3. ASSUME a # "data" PROVE Ordered(<<a, b>>)
    <2>1. <<a, b>> \in Seq(Kinds) /\ Len(<<a, b>>) = 2 /\ <<a, b>>[1] = a
      OBVIOUS
    <2>2. \A i \in 1..2 : i = 1 \/ i = 2
      OBVIOUS
    <2> QED
      BY <1>3, <2>1, <2>2 DEF Ordered
  <1>4. ASSUME a # "data", b # "data" PROVE Ordered(<<a, b, c>>)
    <2>1. /\ <<a, b, c>> \in Seq(Kinds) /\ Len(<<a, b, c>>) = 3
          /\ <<a, b, c>>[1] = a /\ <<a, b, c>>[2] = b
      OBVIOUS
    <2>2. \A i \in 1..3 : i = 1 \/ i = 2 \/ i = 3
      OBVIOUS
    <2> QED
      BY <1>4, <2>1, <2>2 DEF Ordered
  <1> QED
    BY <1>1, <1>2, <1>3, <1>4

LEMMA OtherOrdered ==
  ASSUME NEW first
  PROVE  /\ Ordered(Layout(1, first)) /\ Ordered(Layout(2, first)) /\ Ordered(Layout(16, first))
         /\ Ordered(Layout(18, first)) /\ Ordered(Layout(22, first))
         /\ Ordered(Layout(19, first)) /\ Ordered(Layout(20, first))
         /\ Ordered(Layout(23, first)) /\ Ordered(Layout(32, first))
         /\ Ordered(Layout(255, first))
  <1>1. /\ "uint" \in Kinds /\ "opcode" \in Kinds /\ "raw opcode" \in Kinds
        /\ "error code" \in Kinds /\ "filename" \in Kinds /\ "username" \in Kinds
        /\ "text" \in Kinds /\ "data" \in Kinds /\ "digest" \in Kinds
    BY DEF Kinds, Numbers, Counted
  <1>2. Ordered(<<>>) /\ Ordered(<<"username">>)
    BY <1>1, OrderedShort
  <1>3. Ordered(<<"filename", "uint">>) /\ Ordered(<<"filename", "uint", "uint">>)
    BY <1>1, OrderedShort
  <1>4. Ordered(<<"uint", "data">>) /\ Ordered(<<"uint", "digest">>) /\ Ordered(<<"opcode", "uint">>)
    BY <1>1, OrderedShort
  <1>5. Ordered(<<"raw opcode", "error code", "text">>)
    BY <1>1, OrderedShort
  <1>6. /\ Ordered(Layout(1, first)) /\ Ordered(Layout(2, first)) /\ Ordered(Layout(16, first))
        /\ Ordered(Layout(18, first)) /\ Ordered(Layout(22, first))
    BY <1>2, <1>3, OtherLayouts
  <1>7. /\ Ordered(Layout(19, first)) /\ Ordered(Layout(20, first))
        /\ Ordered(Layout(23, first)) /\ Ordered(Layout(32, first))
        /\ Ordered(Layout(255, first))
    BY <1>3, <1>4, <1>5, OtherLayouts
  <1> QED
    BY <1>6, <1>7

LEMMA ListingLayout ==
  ASSUME NEW first \in Nat
  PROVE  /\ Layout(17, first) \in Seq({"uint", "filename"})
         /\ Layout(17, first) # <<>> /\ Layout(17, first)[1] = "uint"
  <1> DEFINE rest == [i \in 1..2 * first |-> IF i % 2 = 1 THEN "filename" ELSE "uint"]
  <1>1. Layout(17, first) = <<"uint">> \o rest
    BY OpcodeValues, SMTT(30) DEF Layout
  <1>2. rest \in Seq({"uint", "filename"})
    <2>1. 2 * first \in Nat
      OBVIOUS
    <2> DEFINE n == 2 * first
    <2> HIDE DEF n
    <2>2. [i \in 1..n |-> IF i % 2 = 1 THEN "filename" ELSE "uint"] \in Seq({"uint", "filename"})
      BY <2>1 DEF n
    <2> QED
      BY <2>2 DEF n
  <1> HIDE DEF rest
  <1>3. <<"uint">> \o rest \in Seq({"uint", "filename"})
    <2>1. <<"uint">> \in Seq({"uint", "filename"})
      OBVIOUS
    <2> QED
      BY <1>2, <2>1, ConcatTyped
  <1>4. (<<"uint">> \o rest)[1] = "uint" /\ <<"uint">> \o rest # <<>>
    BY <1>2
  <1> QED
    BY <1>1, <1>3, <1>4

LEMMA LayoutTyped ==
  ASSUME NEW op \in Received, NEW first, op = 17 => first \in Nat
  PROVE  Ordered(Layout(op, first))
  <1>1. {"uint", "filename"} \subseteq Kinds
    BY DEF Kinds, Numbers, Counted
  <1>2. CASE op = 17
    <2> DEFINE L == Layout(op, first)
    <2>1. L \in Seq({"uint", "filename"})
      BY <1>2, ListingLayout
    <2> HIDE DEF L
    <2>2. L \in Seq(Kinds)
      BY <1>1, <2>1, SeqMonotonic
    <2>3. \A i \in 1..Len(L) : L[i] \in {"uint", "filename"}
      BY <2>1, ElementOfSeq
    <2>4. Ordered(L)
      BY <2>2, <2>3 DEF Ordered
    <2> QED
      BY <2>4 DEF L
  <1>3. CASE op # 17
    <2>1. op \in {1, 2, 16, 18, 19, 20, 22, 23, 32, 255}
      BY <1>3, ReceivedValues
    <2> QED
      BY <2>1, OtherOrdered
  <1> QED
    BY <1>2, <1>3

\* Only a listing says in its first value what follows.
LEMMA LayoutFixed ==
  ASSUME NEW op \in Received, op # 17, NEW a, NEW b
  PROVE  Layout(op, a) = Layout(op, b)
  <1>1. op \in {1, 2, 16, 18, 19, 20, 22, 23, 32, 255}
    BY ReceivedValues
  <1> DEFINE Fixed(n) == Layout(n, a) = Layout(n, b)
  <1>2. Fixed(1) /\ Fixed(2) /\ Fixed(16)
    BY OtherLayouts, Zenon
  <1>3. Fixed(18) /\ Fixed(22) /\ Fixed(19)
    BY OtherLayouts, Zenon
  <1>4. Fixed(20) /\ Fixed(23)
    BY OtherLayouts, Zenon
  <1>5. Fixed(32) /\ Fixed(255)
    <2>1. Fixed(32)
      BY OtherLayouts, Zenon
    <2>2. \A first : Layout(255, first) = <<"raw opcode", "error code", "text">>
      BY OtherLayouts, Zenon
    <2>3. Fixed(255)
      BY <2>2, Zenon
    <2> QED
      BY <2>1, <2>3
  <1> HIDE DEF Fixed
  <1>6. Fixed(op)
    BY <1>1, <1>2, <1>3, <1>4, <1>5
  <1> QED
    BY <1>6 DEF Fixed

\* A listing says in its payload what it says in its first value.
LEMMA FirstWritten ==
  ASSUME NEW L \in Seq(Kinds), L # <<>>, L[1] = "uint", NEW values,
         \A i \in 1..Len(L) : values[i] \in ValueFor(L[i])
  PROVE  FirstOf(FlattenSeq(Written(L, values))) = values[1]
  <1> DEFINE w == Written(L, values)
             N == Len(L)
  <1>1. N \in Nat /\ 1 \in 1..N /\ 1 - 1 = 0
    BY EmptySeq
  <1>2. w \in Seq(Seq(Nat)) /\ Len(w) = N /\ w[1] = WriteField(L[1], values[1])
    BY <1>1, WrittenTyped
  <1>3. w[1] = <<values[1]>> /\ values[1] \in Nat
    <2>1. WriteField("uint", values[1]) = <<values[1]>> /\ ValueFor("uint") = Nat
      BY DEF WriteField, ValueFor, Numbers, Counted
    <2> QED
      BY <1>1, <1>2, <2>1
  <1> HIDE DEF w, N
  <1>4. PICK T : Peels(w, T)
    <2>1. w \in Seq(Seq(Nat))
      BY <1>2
    <2> QED
      BY <2>1, Peeled, Zenon
  <1>5. T[0] = FlattenSeq(w) /\ T[0] = w[1] \o T[1] /\ T[1] \in Seq(Nat)
    <2>1. Len(w) = N
      BY <1>2
    <2>2. T \in [0..N -> Seq(Nat)]
      BY <1>4, <2>1, Zenon DEF Peels
    <2>3. T[0] = FlattenSeq(w) /\ \A k \in 1..N : T[k - 1] = w[k] \o T[k]
      BY <1>4, <2>1, Zenon DEF Peels
    <2>4. T[1 - 1] = w[1] \o T[1]
      BY <1>1, <2>3
    <2> QED
      BY <1>1, <2>2, <2>3, <2>4
  <1> DEFINE v == values[1]
             rest == T[1]
  <1>6. v \in Nat /\ rest \in Seq(Nat) /\ FlattenSeq(w) = <<v>> \o rest
    BY <1>3, <1>5
  <1> HIDE DEF v, rest
  <1>7. <<v>> \o rest # <<>> /\ (<<v>> \o rest)[1] = v
    BY <1>6
  <1>8. FirstOf(FlattenSeq(w)) = v
    BY <1>6, <1>7 DEF FirstOf
  <1> QED
    BY <1>8 DEF w, v

LEMMA PayloadIsWritten ==
  ASSUME NEW m, NEW S, m.fields \in Seq(S), Len(m.fields) = Len(LayoutOf(m))
  PROVE  Payload(m) = FlattenSeq(Written(LayoutOf(m), m.fields))
  <1>1. DOMAIN m.fields = 1..Len(LayoutOf(m))
    OBVIOUS
  <1> QED
    BY <1>1, Zenon DEF Payload, Written

LEMMA CallTyped ==
  ASSUME NEW m, IsCall(m)
  PROVE  /\ m.op \in Received /\ m = Message(m.op, m.fields) /\ Ordered(LayoutOf(m))
         /\ m.op = 17 => FirstOf(m.fields) = m.fields[1] /\ FirstOf(m.fields) \in Nat
         /\ m.fields \in Seq(Value) /\ Len(m.fields) = Len(LayoutOf(m))
         /\ \A i \in 1..Len(LayoutOf(m)) : m.fields[i] \in ValueFor(LayoutOf(m)[i])
         /\ Payload(m) = FlattenSeq(Written(LayoutOf(m), m.fields))
         /\ Payload(m) \in Seq(Nat)
  <1> DEFINE op == m.op
             values == m.fields
             L == LayoutOf(m)
             P == Payload(m)
  <1>1. /\ m = Message(op, values) /\ op \in Received
        /\ op = 17 => values # <<>> /\ values[1] \in Nat
        /\ values = [i \in 1..Len(L) |-> values[i]]
        /\ \A i \in 1..Len(L) : values[i] \in ValueFor(L[i])
    <2>1. DOMAIN m.fields = 1..Len(LayoutOf(m))
      BY DEF IsCall
    <2> QED
      BY <2>1, OpcodeValues DEF IsCall, Received
  <1>2. L = Layout(op, FirstOf(values))
    BY DEF LayoutOf
  <1>3. values \in Seq(Value) /\ Len(values) = Len(L) => P = FlattenSeq(Written(L, values))
    BY PayloadIsWritten
  <1> HIDE DEF op, values, L, P
  <1>4. op = 17 => FirstOf(values) = values[1] /\ FirstOf(values) \in Nat
    <2>1. op = 17 => values # <<>> /\ values[1] \in Nat
      BY <1>1
    <2> QED
      BY ONLY <2>1 DEF FirstOf
  <1>5. Ordered(L)
    BY <1>1, <1>2, <1>4, LayoutTyped, Zenon
  <1>6. values \in Seq(Value) /\ Len(values) = Len(L) /\ P = FlattenSeq(Written(L, values))
    <2>1. \A i \in 1..Len(L) : values[i] \in Value
      BY <1>1 DEF ValueFor, Value
    <2>2. Len(L) \in Nat
      BY <1>5 DEF Ordered
    <2> DEFINE n == Len(L)
    <2> HIDE DEF n
    <2>3. [i \in 1..n |-> values[i]] \in Seq(Value) /\ Len([i \in 1..n |-> values[i]]) = n
      BY <2>1, <2>2 DEF n
    <2> QED
      BY <1>1, <1>3, <2>3 DEF n
  <1>7. P \in Seq(Nat)
    <2>1. Written(L, values) \in Seq(Seq(Nat))
      BY <1>1, <1>5, WrittenTyped DEF Ordered
    <2> QED
      BY <1>6, <2>1, FlattenTyped
  <1> QED
    BY <1>1, <1>4, <1>5, <1>6, <1>7 DEF op, values, L, P

\* What make_* writes, decode_message reads back as the same message.
THEOREM PayloadRoundTrip ==
  ASSUME NEW m, NEW user, IsCall(m), Makeable(m, user)
  PROVE  Decode(Frame(m.op, user, Payload(m))) = m
  <1> DEFINE op == m.op
             values == m.fields
             L == LayoutOf(m)
             P == Payload(m)
  <1>1. /\ m = Message(op, values) /\ op \in Received
        /\ op = 17 => FirstOf(values) = values[1] /\ FirstOf(values) \in Nat
        /\ \A i \in 1..Len(L) : values[i] \in ValueFor(L[i])
    BY CallTyped
  <1>2. L = Layout(op, FirstOf(values))
    BY DEF LayoutOf
  <1>3. Ordered(L)
    BY CallTyped
  <1>4. /\ values \in Seq(Value) /\ Len(values) = Len(L)
        /\ P = FlattenSeq(Written(L, values)) /\ P \in Seq(Nat)
    BY CallTyped
  <1>5. Len(P) <= MaxPayload /\ (op = Opcode.LOGIN => user = 0)
    BY DEF Makeable
  <1>6. \A i \in 1..Len(L) : Acceptable(L[i], values[i])
    <2>1. DOMAIN values = 1..Len(L)
      BY <1>4
    <2> QED
      BY <2>1 DEF Makeable
  <1> HIDE DEF op, values, L, P
  <1>8. Layout(op, FirstOf(P)) = L
    <2>1. CASE op # 17
      BY <1>1, <1>2, <2>1, LayoutFixed
    <2>2. CASE op = 17
      <3>1. L # <<>> /\ L[1] = "uint"
        BY <1>1, <1>2, <2>2, ListingLayout
      <3>2. FirstOf(P) = values[1]
        BY <1>1, <1>3, <1>4, <3>1, FirstWritten DEF Ordered
      <3> QED
        BY <1>1, <1>2, <2>2, <3>2
    <2> QED
      BY <2>1, <2>2
  <1>9. ReadAll(Reader(P, <<>>), L) = Reader(<<>>, values)
    BY <1>1, <1>3, <1>4, <1>6, WrittenReads DEF Ordered
  <1>10. ReadFields(op, P) = Reader(<<>>, values)
    BY <1>8, <1>9 DEF ReadFields, ReadAll, Reader
  <1>11. Parse(op, P) = m
    <2>1. Message(op, Reader(<<>>, values).fields) = m
      BY <1>1 DEF Reader
    <2>2. Reader(<<>>, values).error = "none" /\ Reader(<<>>, values).rest = <<>>
      BY DEF Reader
    <2>3. \A i \in DOMAIN m.fields : Acceptable(LayoutOf(m)[i], m.fields[i])
      BY DEF Makeable
    <2> QED
      BY <1>10, <2>1, <2>2, <2>3 DEF Parse
  <1>12. Decode(Frame(op, user, P)) = Parse(op, P)
    <2>1. ~(Len(P) > MaxPayload)
      <3>1. Len(P) \in Nat /\ MaxPayload \in Nat
        BY <1>4, MessagesAssumption
      <3> QED
        BY <1>5, <3>1
    <2> QED
      BY <1>1, <1>5, <2>1 DEF Decode, Frame, Received
  <1> QED
    BY <1>11, <1>12 DEF op, P

\* A payload that decode_message accepts is the one make_* writes for the message.
THEOREM PayloadCanonical ==
  ASSUME NEW op, NEW user, NEW p \in Seq(Nat), IsMessage(Decode(Frame(op, user, p)))
  PROVE  LET m == Decode(Frame(op, user, p))
         IN m.op = op /\ IsCall(m) /\ Makeable(m, user) /\ Payload(m) = p
  <1> DEFINE m == Decode(Frame(op, user, p))
             first == FirstOf(p)
             L == Layout(op, first)
             read == ReadFields(op, p)
             fields == FieldsOf(read)
             said == Message(op, fields)
  <1>1. first \in Nat
    BY DEF FirstOf
  <1>2. \A code : ~IsMessage(Refusal(code))
    BY DEF IsMessage, Refusal
  <1>3. IsMessage(m)
    OBVIOUS
  <1>4. Frame(op, user, p).op = op /\ Frame(op, user, p).user = user /\ Frame(op, user, p).payload = p
    BY DEF Frame
  <1>5. op \in Received
    <2> HIDE DEF m
    <2> QED
      BY <1>2, <1>3, <1>4, Zenon DEF m, Decode, Received
  <1>6. m = IF Len(p) > MaxPayload THEN Refusal("PAYLOAD_TOO_LARGE")
            ELSE IF op = Opcode.LOGIN /\ user # 0 THEN Refusal("INVALID_USER_ID")
            ELSE Parse(op, p)
    BY <1>4, <1>5 DEF Decode, Received
  <1>7. ~(Len(p) > MaxPayload) /\ ~(op = Opcode.LOGIN /\ user # 0) /\ m = Parse(op, p)
    <2> HIDE DEF m
    <2> QED
      BY <1>2, <1>3, <1>6
  <1>8. /\ ErrorOf(read) = "none" /\ RestOf(read) = <<>> /\ m = said
        /\ \A i \in DOMAIN fields : Acceptable(LayoutOf(said)[i], fields[i])
    <2>1. Parse(op, p) =
            CASE ErrorOf(read) # "none" -> Refusal(ErrorOf(read))
              [] ErrorOf(read) = "none" /\ RestOf(read) # <<>> -> Refusal("INVALID_PAYLOAD")
              [] ErrorOf(read) = "none" /\ RestOf(read) = <<>> ->
                   IF \A i \in DOMAIN said.fields : Acceptable(LayoutOf(said)[i], said.fields[i])
                   THEN said
                   ELSE Refusal(IF op = Opcode.LOGIN THEN "INVALID_USERNAME" ELSE "INVALID_PAYLOAD")
      BY Zenon DEF Parse, ErrorOf, RestOf, FieldsOf
    <2>2. said.fields = fields
      BY DEF Message
    <2> HIDE DEF m, read, fields, said
    <2> QED
      BY <1>2, <1>3, <1>7, <2>1, <2>2
  <1>9. Ordered(L)
    BY <1>1, <1>5, LayoutTyped
  <1>10. read = ReadAll(Reader(p, <<>>), L)
    BY DEF ReadFields, ReadAll, Reader
  <1> HIDE DEF m, first, L, read, fields
  <1>11. /\ fields \in Seq(Value) /\ Len(fields) = Len(L)
         /\ \A i \in 1..Len(L) : fields[i] \in ValueFor(L[i])
         /\ p = FlattenSeq(Written(L, fields))
    BY <1>8, <1>9, <1>10, ReadsWritten DEF Ordered, fields
  <1>12. said.op = op /\ said.fields = fields
    BY DEF Message
  <1>13. op = 17 => L # <<>> /\ L[1] = "uint" /\ fields # <<>> /\ fields[1] = first
    <2> SUFFICES ASSUME op = 17
                 PROVE  L # <<>> /\ L[1] = "uint" /\ fields # <<>> /\ fields[1] = first
      OBVIOUS
    <2>1. L # <<>> /\ L[1] = "uint"
      BY <1>1, ListingLayout DEF L
    <2>2. fields # <<>>
      BY <1>9, <1>11, <2>1 DEF Ordered
    <2>3. FirstOf(p) = fields[1]
      BY <1>9, <1>11, <2>1, FirstWritten DEF Ordered
    <2> QED
      BY <2>1, <2>2, <2>3 DEF first
  <1>14. LayoutOf(said) = L
    <2>1. LayoutOf(said) = Layout(op, FirstOf(fields))
      BY <1>12 DEF LayoutOf
    <2>2. CASE op # 17
      BY <1>5, <2>1, <2>2, LayoutFixed DEF L
    <2>3. CASE op = 17
      <3>1. FirstOf(fields) = first
        BY <1>13, <2>3 DEF FirstOf
      <3> QED
        BY <2>1, <3>1 DEF L
    <2> QED
      BY <2>2, <2>3
  <1>15. Payload(said) = p
    <2>1. Payload(said) = FlattenSeq(Written(LayoutOf(said), said.fields))
      BY <1>11, <1>12, <1>14, PayloadIsWritten
    <2> QED
      BY <1>11, <1>12, <1>14, <2>1
  <1>16. Makeable(said, user)
    <2>1. Len(p) <= MaxPayload
      BY <1>7, MessagesAssumption
    <2>2. \A i \in DOMAIN said.fields : Acceptable(LayoutOf(said)[i], said.fields[i])
      BY <1>8, <1>12
    <2> HIDE DEF said
    <2> QED
      BY <1>7, <1>12, <1>15, <2>1, <2>2 DEF Makeable
  <1>17. IsCall(said)
    <2>1. said = Message(said.op, said.fields)
      BY <1>12
    <2>2. said.op \in Opcodes \ {Opcode.FILE_DELETE}
      BY <1>5, <1>12 DEF Received
    <2> HIDE DEF said
    <2>3. said.fields = [i \in 1..Len(LayoutOf(said)) |-> said.fields[i]]
      BY <1>11, <1>12, <1>14
    <2>4. said.op = Opcode.FILE_LIST_RESP => said.fields # <<>> /\ said.fields[1] \in Nat
      BY <1>1, <1>12, <1>13, OpcodeValues
    <2>6. \A i \in DOMAIN said.fields : said.fields[i] \in ValueFor(LayoutOf(said)[i])
      <3>1. DOMAIN fields = 1..Len(L)
        BY <1>11
      <3> QED
        BY <1>11, <1>12, <1>14, <3>1
    <2> QED
      BY <1>12, <2>1, <2>2, <2>3, <2>4, <2>6 DEF IsCall
  <1> QED
    BY <1>8, <1>12, <1>15, <1>16, <1>17 DEF m

--------------------------------------------------------------------------------
(* Cutting sequences up. *)

LEMMA Associate ==
  \A x, y, z \in Seq(Nat) : (x \o y) \o z = x \o (y \o z)
  BY SMTT(30)

LEMMA Joined ==
  ASSUME NEW a \in Seq(Nat), NEW b \in Seq(Nat)
  PROVE  /\ a \o b \in Seq(Nat) /\ Len(a \o b) = Len(a) + Len(b)
         /\ \A i \in 1..Len(a) : (a \o b)[i] = a[i]
         /\ \A i \in 1..Len(b) : (a \o b)[Len(a) + i] = b[i]
  <1>1. \A i \in 1..Len(b) : Len(a) + i \in 1..Len(a) + Len(b) /\ ~(Len(a) + i <= Len(a))
    OBVIOUS
  <1>2. \A i \in 1..Len(b) : (a \o b)[Len(a) + i] = b[(Len(a) + i) - Len(a)]
    BY <1>1, ConcatProperties
  <1>3. \A i \in 1..Len(b) : (Len(a) + i) - Len(a) = i
    OBVIOUS
  <1> QED
    BY <1>2, <1>3

LEMMA SameBeginning ==
  ASSUME NEW a \in Seq(Nat), NEW b \in Seq(Nat), NEW c \in Seq(Nat), NEW d \in Seq(Nat),
         a \o b = c \o d
  PROVE  /\ \A i \in 1..Len(a) : i <= Len(c) => a[i] = c[i]
         /\ Len(a) = Len(c) => a = c /\ b = d
  <1>1. \A i \in 1..Len(a) : (a \o b)[i] = a[i]
    OBVIOUS
  <1>2. \A i \in 1..Len(c) : (c \o d)[i] = c[i]
    OBVIOUS
  <1>3. Len(a) \in Nat /\ Len(c) \in Nat
    OBVIOUS
  <1>4. \A i \in 1..Len(a) : i <= Len(c) => a[i] = c[i]
    BY <1>1, <1>2, <1>3
  <1>5. ASSUME Len(a) = Len(c) PROVE a = c /\ b = d
    <2>1. \A i \in 1..Len(a) : a[i] = c[i]
      BY <1>3, <1>4, <1>5
    <2>2. a = c
      BY <1>5, <2>1, SeqEqual
    <2>3. a \o b = a \o d
      BY <2>2
    <2>4. b = d
      BY <2>3, Cancel
    <2> QED
      BY <2>2, <2>4
  <1> QED
    BY <1>4, <1>5

LEMMA FlattenNone ==
  FlattenSeq(<<>>) = <<>>
  BY DEF FlattenSeq

LEMMA FlattenFirst ==
  ASSUME NEW w \in Seq(Seq(Nat)), w # <<>>
  PROVE  FlattenSeq(w) = w[1] \o FlattenSeq(Tail(w))
  <1> DEFINE t == Tail(w)
             N == Len(t)
  <1>1. t \in Seq(Seq(Nat)) /\ N \in Nat /\ Len(w) = N + 1 /\ w[1] \in Seq(Nat)
    BY EmptySeq, ElementOfSeq
  <1>2. \A k \in 1..N : t[k] = w[k + 1]
    BY HeadTailProperties
  <1> HIDE DEF t
  <1>3. PICK T : Peels(t, T)
    BY <1>1, Peeled
  <1>4. /\ T \in [0..N -> Seq(Nat)] /\ T[0] = FlattenSeq(t) /\ T[N] = <<>>
        /\ \A k \in 1..N : T[k - 1] = t[k] \o T[k]
    BY <1>3, Zenon DEF Peels
  <1> HIDE DEF N
  <1> DEFINE U == [k \in 0..N + 1 |-> IF k = 0 THEN w[1] \o T[0] ELSE T[k - 1]]
  <1>5. U \in [0..N + 1 -> Seq(Nat)] /\ U[N + 1] = <<>> /\ U[0] = w[1] \o FlattenSeq(t)
    <2>1. w[1] \o T[0] \in Seq(Nat)
      <3>1. T[0] \in Seq(Nat)
        BY <1>1, <1>4
      <3> QED
        BY <1>1, <3>1, ConcatTyped
    <2>2. \A k \in 0..N + 1 : k # 0 => T[k - 1] \in Seq(Nat)
      BY <1>1, <1>4
    <2>3. (N + 1) - 1 = N /\ N + 1 # 0 /\ N + 1 \in 0..N + 1 /\ 0 \in 0..N + 1
      BY <1>1
    <2> QED
      BY <1>4, <2>1, <2>2, <2>3
  <1>6. \A k \in 1..N + 1 : U[k - 1] = w[k] \o U[k]
    <2> SUFFICES ASSUME NEW k \in 1..N + 1 PROVE U[k - 1] = w[k] \o U[k]
      OBVIOUS
    <2>1. CASE k = 1
      <3>1. U[k - 1] = w[1] \o T[0] /\ U[k] = T[0]
        BY <1>1, <2>1
      <3> HIDE DEF U
      <3> QED
        BY <2>1, <3>1
    <2>2. CASE k # 1
      <3>1. k - 1 \in 1..N /\ k - 1 # 0 /\ k - 1 \in 0..N + 1 /\ k \in 0..N + 1 /\ k # 0
        BY <1>1, <2>2
      <3>2. U[k - 1] = T[(k - 1) - 1] /\ U[k] = T[k - 1]
        BY <3>1
      <3>3. t[k - 1] = w[k]
        <4>1. t[k - 1] = w[(k - 1) + 1] /\ (k - 1) + 1 = k
          BY <1>2, <3>1
        <4> QED
          BY <4>1
      <3>4. T[(k - 1) - 1] = t[k - 1] \o T[k - 1]
        BY <1>4, <3>1
      <3> HIDE DEF U
      <3> QED
        BY <3>2, <3>3, <3>4
    <2> QED
      BY <2>1, <2>2
  <1> HIDE DEF U
  <1>7. U \in [0..Len(w) -> Seq(Nat)] /\ U[Len(w)] = <<>>
    BY <1>1, <1>5
  <1>8. \A k \in 1..Len(w) : U[k - 1] = w[k] \o U[k]
    BY <1>1, <1>6
  <1>9. U[0] = FlattenSeq(w)
    BY <1>7, <1>8, FlattenIs
  <1> QED
    BY <1>5, <1>9 DEF t

LEMMA FlattenAppend ==
  ASSUME NEW w \in Seq(Seq(Nat)), NEW x \in Seq(Nat)
  PROVE  FlattenSeq(Append(w, x)) = FlattenSeq(w) \o x
  <1> DEFINE v == Append(w, x)
             N == Len(w)
  <1>1. /\ v \in Seq(Seq(Nat)) /\ N \in Nat /\ Len(v) = N + 1 /\ v[N + 1] = x
        /\ \A k \in 1..N : v[k] = w[k] /\ w[k] \in Seq(Nat)
    BY AppendProperties, ElementOfSeq
  <1> HIDE DEF v
  <1>2. PICK T : Peels(w, T)
    BY Peeled
  <1>3. /\ T \in [0..N -> Seq(Nat)] /\ T[0] = FlattenSeq(w) /\ T[N] = <<>>
        /\ \A k \in 1..N : T[k - 1] = w[k] \o T[k]
    BY <1>2, Zenon DEF Peels
  <1> HIDE DEF N
  <1> DEFINE U == [k \in 0..N + 1 |-> IF k = N + 1 THEN <<>> ELSE T[k] \o x]
  <1>4. \A k \in 0..N : T[k] \in Seq(Nat) /\ T[k] \o x \in Seq(Nat)
    <2> SUFFICES ASSUME NEW k \in 0..N PROVE T[k] \in Seq(Nat) /\ T[k] \o x \in Seq(Nat)
      OBVIOUS
    <2>1. T[k] \in Seq(Nat)
      BY <1>3
    <2> QED
      BY <2>1, ConcatTyped
  <1>5. U \in [0..N + 1 -> Seq(Nat)] /\ U[N + 1] = <<>> /\ U[0] = FlattenSeq(w) \o x
    <2>1. \A k \in 0..N + 1 : k # N + 1 => k \in 0..N
      BY <1>1
    <2>2. <<>> \in Seq(Nat) /\ N + 1 # 0 /\ N + 1 \in 0..N + 1 /\ 0 \in 0..N + 1
      BY <1>1
    <2> QED
      BY <1>3, <1>4, <2>1, <2>2
  <1>6. \A k \in 1..N + 1 : U[k - 1] = v[k] \o U[k]
    <2> SUFFICES ASSUME NEW k \in 1..N + 1 PROVE U[k - 1] = v[k] \o U[k]
      OBVIOUS
    <2>1. CASE k = N + 1
      <3>1. U[k - 1] = T[N] \o x /\ U[k] = <<>>
        BY <1>1, <2>1, SMTT(30)
      <3> HIDE DEF U
      <3>2. U[k - 1] = x /\ v[k] = x
        BY <1>1, <1>3, <2>1, <3>1, EmptyIsUnit
      <3> QED
        BY <3>1, <3>2, EmptyIsUnit
    <2>2. CASE k # N + 1
      <3>1. /\ k \in 1..N /\ k - 1 \in 0..N /\ k - 1 # N + 1 /\ k \in 0..N
            /\ k - 1 \in 0..N + 1 /\ k \in 0..N + 1
        BY <1>1, <2>2
      <3>2. U[k - 1] = T[k - 1] \o x /\ U[k] = T[k] \o x
        BY <1>1, <2>2, <3>1
      <3>3. T[k - 1] = w[k] \o T[k] /\ v[k] = w[k]
        BY <1>1, <1>3, <3>1
      <3> DEFINE a == w[k]
                 b == T[k]
      <3>4. a \in Seq(Nat) /\ b \in Seq(Nat)
        BY <1>1, <1>4, <3>1
      <3> HIDE DEF a, b
      <3>5. (a \o b) \o x = a \o (b \o x)
        BY <3>4, Associate
      <3> HIDE DEF U
      <3> QED
        BY <3>2, <3>3, <3>5 DEF a, b
    <2> QED
      BY <2>1, <2>2
  <1> HIDE DEF U
  <1>7. U \in [0..Len(v) -> Seq(Nat)] /\ U[Len(v)] = <<>>
    BY <1>1, <1>5
  <1>8. \A k \in 1..Len(v) : U[k - 1] = v[k] \o U[k]
    BY <1>1, <1>6
  <1>9. v \in Seq(Seq(Nat))
    BY <1>1
  <1>10. U[0] = FlattenSeq(v)
    BY <1>7, <1>8, <1>9, FlattenIs
  <1> QED
    BY <1>5, <1>10 DEF v

LEMMA LastFits ==
  ASSUME NEW w \in Seq(Seq(Nat)), w # <<>>
  PROVE  Len(FlattenSeq(w)) >= Len(w[Len(w)])
  <1>1. PICK front \in Seq(Seq(Nat)), last \in Seq(Nat) : w = Append(front, last)
    BY SequenceEmptyOrAppend
  <1>2. w[Len(w)] = last
    BY <1>1
  <1>3. FlattenSeq(w) = FlattenSeq(front) \o last /\ FlattenSeq(front) \in Seq(Nat)
    BY <1>1, FlattenAppend, FlattenTyped
  <1> DEFINE f == FlattenSeq(front)
  <1>4. f \in Seq(Nat)
    BY <1>3
  <1> HIDE DEF f
  <1>5. Len(f \o last) >= Len(last)
    BY <1>4
  <1> QED
    BY <1>2, <1>3, <1>5 DEF f

--------------------------------------------------------------------------------
(* LENGTH and frames. *)

LEMMA Sizes ==
  /\ Base \in Nat /\ Base > 1 /\ MaxPayload \in Nat /\ MaxPayload + 2 < Base * Base
  /\ BodyHeader = 2 /\ Len(Preface) = 3 /\ Preface # <<>>
  BY MessagesAssumption, FramingAssumption DEF BodyHeader, Preface

LEMMA Divided ==
  ASSUME NEW n \in Nat
  PROVE  /\ n \div Base \in Nat /\ (n % Base) \in 0..Base - 1
         /\ (n \div Base) * Base + (n % Base) = n
  <1>1. Base \in Nat /\ Base > 1
    BY Sizes
  <1> QED
    BY <1>1

LEMMA Larger ==
  ASSUME NEW a \in Nat, NEW b \in Nat, a < b
  PROVE  a * Base + Base <= b * Base
  <1>1. Base \in Nat
    BY Sizes
  <1>2. b = a + 1 + (b - (a + 1)) /\ b - (a + 1) \in Nat
    OBVIOUS
  <1> DEFINE d == b - (a + 1)
  <1> HIDE DEF d
  <1>3. b = a + 1 + d /\ d \in Nat
    BY <1>2 DEF d
  <1>4. (a + 1 + d) * Base = a * Base + Base + d * Base /\ d * Base \in Nat
    BY <1>1, <1>3
  <1>5. a * Base \in Nat
    BY <1>1
  <1> QED
    BY <1>1, <1>3, <1>4, <1>5

\* LENGTH is read back as it was written, and only one pair of cells says it.
LEMMA LengthRoundTrip ==
  ASSUME NEW n \in 0..MaxPayload + 2
  PROVE  /\ LengthCells(n) \in Seq(Nat) /\ Len(LengthCells(n)) = 2
         /\ LengthCells(n)[1] < Base /\ LengthCells(n)[2] < Base
         /\ LengthOf(LengthCells(n)) = n
  <1> DEFINE q == n \div Base
             r == n % Base
  <1>1. n \in Nat /\ Base \in Nat /\ n < Base * Base
    BY Sizes
  <1>2. q \in Nat /\ r \in 0..Base - 1 /\ q * Base + r = n
    BY <1>1, Divided
  <1>3. LengthCells(n) = <<q, r>>
    BY DEF LengthCells
  <1> HIDE DEF q, r
  <1>4. q < Base
    <2>1. ASSUME ~(q < Base) PROVE FALSE
      <3>1. q * Base >= Base * Base
        <4>1. CASE q = Base
          BY <1>1, <4>1
        <4>2. CASE Base < q
          <5>1. Base * Base + Base <= q * Base
            BY <1>1, <1>2, <4>2, Larger
          <5>2. Base * Base \in Nat /\ q * Base \in Nat
            BY <1>1, <1>2
          <5> QED
            BY <1>1, <5>1, <5>2
        <4> QED
          BY <1>1, <1>2, <2>1, <4>1, <4>2
      <3>2. q * Base \in Nat /\ Base * Base \in Nat
        BY <1>1, <1>2
      <3> QED
        BY <1>1, <1>2, <3>1, <3>2
    <2> QED
      BY <2>1
  <1>5. LengthOf(<<q, r>>) = q * Base + r
    BY DEF LengthOf
  <1> QED
    BY <1>1, <1>2, <1>3, <1>4, <1>5

LEMMA LengthDigits ==
  ASSUME NEW a \in Nat, NEW b \in Nat, a < Base, b < Base
  PROVE  LengthOf(<<a, b>>) \in Nat /\ LengthCells(LengthOf(<<a, b>>)) = <<a, b>>
  <1> DEFINE n == a * Base + b
             q == n \div Base
             r == n % Base
  <1>1. Base \in Nat /\ Base > 1
    BY Sizes
  <1>2. a * Base \in Nat
    BY <1>1
  <1>3. n \in Nat /\ LengthOf(<<a, b>>) = n
    BY <1>2 DEF LengthOf
  <1>4. LengthCells(n) = <<q, r>>
    BY DEF LengthCells
  <1>5. q \in Nat /\ r \in 0..Base - 1 /\ q * Base + r = n
    <2> HIDE DEF n
    <2> QED
      BY <1>3, Divided
  <1> HIDE DEF q, r
  <1>6. q * Base \in Nat
    BY <1>1, <1>5
  <1>7. q = a
    <2>1. ASSUME q < a PROVE FALSE
      <3>1. q * Base + Base <= a * Base
        BY <1>5, <2>1, Larger
      <3> QED
        BY <1>1, <1>2, <1>5, <1>6, <3>1
    <2>2. ASSUME a < q PROVE FALSE
      <3>1. a * Base + Base <= q * Base
        BY <1>5, <2>2, Larger
      <3> QED
        BY <1>1, <1>2, <1>5, <1>6, <3>1
    <2> QED
      BY <1>5, <2>1, <2>2
  <1>8. r = b
    BY <1>1, <1>2, <1>5, <1>7
  <1> HIDE DEF n
  <1> QED
    BY <1>3, <1>4, <1>7, <1>8

Frames == [op : Nat, user : Nat, payload : Seq(Nat)]

LEMMA SerializeParts ==
  ASSUME NEW frame \in Frames, Len(frame.payload) <= MaxPayload
  PROVE  /\ Serialize(frame) \in Seq(Nat) /\ Len(Serialize(frame)) = 4 + Len(frame.payload)
         /\ LengthOf(Serialize(frame)) = 2 + Len(frame.payload)
         /\ Serialize(frame)[1] < Base /\ Serialize(frame)[2] < Base
         /\ Serialize(frame)[3] = frame.op /\ Serialize(frame)[4] = frame.user
         /\ \A i \in 1..Len(frame.payload) : Serialize(frame)[4 + i] = frame.payload[i]
  <1> DEFINE p == frame.payload
             op == frame.op
             user == frame.user
             n == 2 + Len(p)
             h == LengthCells(n)
  <1>1. p \in Seq(Nat) /\ op \in Nat /\ user \in Nat /\ n \in 0..MaxPayload + 2
    BY Sizes DEF Frames
  <1>2. /\ h \in Seq(Nat) /\ Len(h) = 2 /\ h[1] < Base /\ h[2] < Base
        /\ LengthOf(h) = n
    BY <1>1, LengthRoundTrip
  <1>3. Serialize(frame) = (h \o <<op, user>>) \o p
    BY Sizes DEF Serialize
  <1>4. Len(p) \in Nat /\ n = 2 + Len(p)
    BY <1>1
  <1> HIDE DEF p, op, user, n, h
  <1> DEFINE a == h \o <<op, user>>
  <1>5. a \in Seq(Nat) /\ Len(a) = 4 /\ a[1] = h[1] /\ a[2] = h[2] /\ a[3] = op /\ a[4] = user
    <2> DEFINE u == <<op, user>>
    <2>1. u \in Seq(Nat) /\ Len(u) = 2 /\ u[1] = op /\ u[2] = user
      BY <1>1
    <2> HIDE DEF u
    <2>2. /\ h \o u \in Seq(Nat) /\ Len(h \o u) = Len(h) + Len(u)
          /\ \A i \in 1..Len(h) : (h \o u)[i] = h[i]
          /\ \A i \in 1..Len(u) : (h \o u)[Len(h) + i] = u[i]
      BY <1>2, <2>1, Joined
    <2>3. 1 \in 1..2 /\ 2 \in 1..2 /\ 2 + 1 = 3 /\ 2 + 2 = 4
      OBVIOUS
    <2>4. (h \o u)[1] = h[1] /\ (h \o u)[2] = h[2]
      BY <1>2, <2>2, <2>3
    <2>5. (h \o u)[3] = u[1] /\ (h \o u)[4] = u[2]
      BY <1>2, <2>1, <2>2, <2>3
    <2>6. Len(h \o u) = 4
      BY <1>2, <2>1, <2>2
    <2> QED
      BY <2>1, <2>2, <2>4, <2>5, <2>6 DEF u
  <1>6. Serialize(frame) = a \o p
    BY <1>3
  <1> HIDE DEF a
  <1> DEFINE s == a \o p
  <1>7. /\ s \in Seq(Nat) /\ Len(s) = Len(a) + Len(p)
        /\ \A i \in 1..Len(a) : s[i] = a[i]
        /\ \A i \in 1..Len(p) : s[Len(a) + i] = p[i]
    <2>1. a \in Seq(Nat)
      BY <1>5
    <2>2. p \in Seq(Nat)
      BY <1>1
    <2> QED
      BY <2>1, <2>2, Joined
  <1> HIDE DEF s
  <1>8. s \in Seq(Nat) /\ Len(s) = 4 + Len(p)
    BY <1>5, <1>7
  <1>9. s[1] = h[1] /\ s[2] = h[2] /\ s[3] = op /\ s[4] = user
    <2>1. 1 \in 1..4 /\ 2 \in 1..4 /\ 3 \in 1..4 /\ 4 \in 1..4
      OBVIOUS
    <2> QED
      BY <1>5, <1>7, <2>1
  <1>10. \A i \in 1..Len(p) : s[4 + i] = p[i]
    BY <1>5, <1>7
  <1>11. Serialize(frame) = s
    BY <1>6 DEF s
  <1>12. LengthOf(s) = n
    BY <1>2, <1>9 DEF LengthOf
  <1> QED
    BY <1>2, <1>4, <1>8, <1>9, <1>10, <1>11, <1>12 DEF p, op, user

LEMMA SerializeUnit ==
  ASSUME NEW frame \in Frames, Len(frame.payload) <= MaxPayload
  PROVE  IsUnit(Serialize(frame))
  <1>1. frame.payload \in Seq(Nat)
    BY DEF Frames
  <1> DEFINE n == Len(frame.payload)
             s == Serialize(frame)
  <1>2. n \in Nat
    BY <1>1
  <1>3. /\ s \in Seq(Nat) /\ Len(s) = 4 + n /\ LengthOf(s) = 2 + n
        /\ s[1] < Base /\ s[2] < Base
    BY SerializeParts
  <1> HIDE DEF n, s
  <1>4. IsUnit(s)
    BY <1>2, <1>3 DEF IsUnit
  <1> QED
    BY <1>4 DEF s

\* The cells of a frame say which frame it is.
LEMMA SerializeInjective ==
  ASSUME NEW f \in Frames, NEW g \in Frames,
         Len(f.payload) <= MaxPayload, Len(g.payload) <= MaxPayload,
         Serialize(f) = Serialize(g)
  PROVE  f = g
  <1> DEFINE p == f.payload
             q == g.payload
  <1>1. p \in Seq(Nat) /\ q \in Seq(Nat)
    BY DEF Frames
  <1>2. Len(Serialize(f)) = 4 + Len(p) /\ Len(Serialize(g)) = 4 + Len(q)
    BY SerializeParts
  <1>3. Len(p) \in Nat /\ Len(q) \in Nat
    BY <1>1
  <1>4. Len(p) = Len(q)
    BY <1>2, <1>3
  <1>5. \A i \in 1..Len(p) : p[i] = q[i]
    <2>1. \A i \in 1..Len(p) : Serialize(f)[4 + i] = p[i]
      BY SerializeParts
    <2>2. \A i \in 1..Len(q) : Serialize(g)[4 + i] = q[i]
      BY SerializeParts
    <2> HIDE DEF p, q
    <2> QED
      BY <1>4, <2>1, <2>2
  <1>6. p = q
    <2> HIDE DEF p, q
    <2> QED
      BY <1>1, <1>4, <1>5, SeqEqual
  <1>7. f.op = g.op /\ f.user = g.user
    BY SerializeParts
  <1> QED
    BY <1>6, <1>7 DEF Frames

\* What the items of a script are, once sent.
LEMMA OwnFrame ==
  ASSUME NEW m, NEW user \in Nat, IsCall(m)
  PROVE  Frame(m.op, user, Payload(m)) \in Frames
  <1>1. m.op \in Received /\ Payload(m) \in Seq(Nat)
    BY CallTyped
  <1>2. m.op \in Nat
    BY <1>1, ReceivedValues DEF Received
  <1> QED
    BY <1>1, <1>2 DEF Frame, Frames

LEMMA ScriptItems ==
  ASSUME NEW plan \in Scripts
  PROVE  /\ Len(plan) \in Nat /\ Len(plan) >= 1
         /\ ~IsOwn(plan[1]) /\ CellsOf(plan[1]) \in Seq(Nat) /\ Len(CellsOf(plan[1])) = 3
         /\ \A i \in 1..Len(plan) : IsOwn(plan[i]) => IsCall(plan[i].message) /\ plan[i].user \in Nat
         /\ \A i \in 1..Len(plan) :
              /\ i # 1
              /\ IsOwn(plan[i]) => Makeable(plan[i].message, plan[i].user)
              => IsUnit(CellsOf(plan[i]))
  <1>1. /\ Len(plan) \in Nat /\ Len(plan) >= 1 /\ DOMAIN plan = 1..Len(plan)
        /\ \A i \in 1..Len(plan) :
             IF IsOwn(plan[i])
             THEN i # 1 /\ IsCall(plan[i].message) /\ plan[i].user \in Nat
             ELSE /\ plan[i].cells \in Seq(Nat)
                  /\ IF i = 1 THEN Len(plan[i].cells) = Len(Preface) ELSE IsUnit(plan[i].cells)
    <2>1. plan \in Seq(Cells(plan)) /\ plan # <<>>
      BY ScriptsAssumption
    <2> DEFINE C == Cells(plan)
    <2>2. plan \in Seq(C)
      BY <2>1
    <2> HIDE DEF C
    <2>3. Len(plan) \in Nat /\ Len(plan) >= 1 /\ DOMAIN plan = 1..Len(plan)
      BY <2>1, <2>2
    <2> QED
      BY <2>3, ScriptsAssumption
  <1>2. ~IsOwn(plan[1]) /\ CellsOf(plan[1]) \in Seq(Nat) /\ Len(CellsOf(plan[1])) = 3
    BY <1>1, Sizes DEF CellsOf
  <1>3. ASSUME NEW i \in 1..Len(plan), i # 1,
               IsOwn(plan[i]) => Makeable(plan[i].message, plan[i].user)
        PROVE  IsUnit(CellsOf(plan[i]))
    <2>1. CASE ~IsOwn(plan[i])
      BY <1>1, <1>3, <2>1 DEF CellsOf
    <2>2. CASE IsOwn(plan[i])
      <3> DEFINE m == plan[i].message
                 user == plan[i].user
                 frame == Frame(m.op, user, Payload(m))
      <3>1. IsCall(m) /\ user \in Nat /\ Makeable(m, user)
        BY <1>1, <1>3, <2>2
      <3>2. frame \in Frames
        <4> HIDE DEF m, user
        <4> QED
          BY <3>1, OwnFrame
      <3>3. Len(frame.payload) <= MaxPayload
        BY <3>1 DEF Makeable, Frame
      <3>4. CellsOf(plan[i]) = Serialize(frame)
        BY <2>2 DEF CellsOf
      <3> HIDE DEF frame
      <3> QED
        BY <3>2, <3>3, <3>4, SerializeUnit
    <2> QED
      BY <2>1, <2>2
  <1> QED
    BY <1>1, <1>2, <1>3

--------------------------------------------------------------------------------
(* The stream. *)

\* What has been taken from the wire of the unit being read.
Before ==
  CASE stage \in {"preface", "length"} -> <<>>
    [] stage = "header" -> LengthCells(length)
    [] stage = "payload" -> LengthCells(length) \o header
Current == Before \o unit

\* The units of a history that come after the first n.
Remaining(s, n) == [i \in 1..Len(s) - n |-> s[n + i].cells]
Pending == Remaining(sent, Len(received))

Unsent == IF bytesSent = 0 THEN <<>> ELSE SubSeq(view, bytesSent + 1, Len(view))

DeliveryOf(frame) == [cells |-> Serialize(frame), result |-> Decode(frame)]
Greeting(cells) == [cells |-> cells, result |-> Refusal("preface")]
Deliveries == {DeliveryOf(f) : f \in Frames} \cup {Greeting(c) : c \in Seq(Nat)}

Sendings == [cells : Seq(Nat), by : Nat]

TypesInv ==
  /\ script \in Scripts /\ next \in 1..Len(script) + 1
  /\ view \in Seq(Nat) /\ bytesSent \in 0..Len(view) /\ sending \in BOOLEAN
  /\ wire \in Seq(Nat) /\ Len(wire) <= Window
  /\ sent \in Seq(Sendings) /\ received \in Seq(Deliveries)
  /\ unit \in Seq(Nat) /\ stage \in {"preface", "length", "header", "payload"}
  /\ Len(unit) < Need
  /\ length \in {0} \cup 2..2 + MaxPayload
  /\ stage \in {"header", "payload"} => length # 0
  /\ IF stage = "payload" THEN header \in Seq(Nat) /\ Len(header) = 2 /\ length > 2
                          ELSE header = <<>>
  /\ ended \in {"no", "closed", "invalid", "lost"}

\* What is on its way out is an item of the script.
ViewInv ==
  view # <<>> =>
    /\ next > 1 /\ view = CellsOf(script[next - 1])
    /\ IsOwn(script[next - 1]) => Makeable(script[next - 1].message, script[next - 1].user)
    /\ bytesSent = 0 => \A i \in 1..Len(sent) : sent[i].by < next - 1

\* So is what was sent, in the order of the script, and the preface comes first.
SentInv ==
  /\ \A i \in 1..Len(sent) :
       LET item == script[sent[i].by]
       IN /\ sent[i].by \in i..next - 1 /\ sent[i].cells = CellsOf(item)
          /\ IsOwn(item) => Makeable(item.message, item.user)
          /\ i = 1 => sent[i].by = 1
  /\ sending /\ sent = <<>> => \/ next = 1 /\ view = <<>>
                               \/ next = 2 /\ view # <<>> /\ bytesSent = 0

ReceivedInv ==
  /\ Len(received) <= Len(sent)
  /\ stage = "preface" <=> received = <<>>
  /\ \A i \in 1..Len(received) :
       /\ received[i].cells = sent[i].cells
       /\ IF i = 1 THEN received[i].result = Refusal("preface")
                   ELSE \E frame \in Frames : received[i] = DeliveryOf(frame)

\* What was read of the next unit, what is on the wire and what is missing are the units
\* that were sent and not delivered, and the last of these is not missing as a whole.
Cut(current, onWire, pending, missing) ==
  /\ missing \in Seq(Nat)
  /\ (current \o onWire) \o missing = FlattenSeq(pending)
  /\ pending # <<>> => Len(missing) < Len(pending[Len(pending)])

\* As long as the sender goes on, it still has what is missing.
Joins(current, onWire, pending) ==
  \E missing : /\ Cut(current, onWire, pending, missing)
               /\ sending => missing = Unsent
StreamInv == ended = "no" => Joins(Current, wire, Pending)

FramingInv == TypesInv /\ ViewInv /\ SentInv /\ ReceivedInv /\ StreamInv

--------------------------------------------------------------------------------
(* How the stream is cut. *)

LEMMA Split ==
  ASSUME NEW s \in Seq(Nat), NEW n \in 0..Len(s)
  PROVE  /\ SubSeq(s, 1, n) \in Seq(Nat) /\ Len(SubSeq(s, 1, n)) = n
         /\ SubSeq(s, n + 1, Len(s)) \in Seq(Nat) /\ Len(SubSeq(s, n + 1, Len(s))) = Len(s) - n
         /\ s = SubSeq(s, 1, n) \o SubSeq(s, n + 1, Len(s))
  <1>1. SubSeq(s, 1, n) \in Seq(Nat) /\ Len(SubSeq(s, 1, n)) = n
    OBVIOUS
  <1>2. /\ SubSeq(s, n + 1, Len(s)) \in Seq(Nat)
        /\ Len(SubSeq(s, n + 1, Len(s))) = Len(s) - n
    OBVIOUS
  <1>3. s = SubSeq(s, 1, n) \o SubSeq(s, n + 1, Len(s))
    BY SplitAt
  <1> QED
    BY <1>1, <1>2, <1>3

\* What was read is the beginning of the first unit that is not delivered.
TakesWhole(P, c, r) == Len(c) = Len(P[1]) => c = P[1] /\ r = FlattenSeq(Tail(P))

LEMMA TakeUnit ==
  ASSUME NEW P \in Seq(Seq(Nat)), NEW c \in Seq(Nat), NEW w \in Seq(Nat), NEW m \in Seq(Nat),
         (c \o w) \o m = FlattenSeq(P), c # <<>>
  PROVE  /\ P # <<>> /\ P[1] \in Seq(Nat) /\ Tail(P) \in Seq(Seq(Nat))
         /\ \A i \in 1..Len(c) : i <= Len(P[1]) => c[i] = P[1][i]
         /\ TakesWhole(P, c, w \o m)
  <1>1. P # <<>>
    <2>1. SUFFICES ASSUME P = <<>> PROVE FALSE
      OBVIOUS
    <2>2. (c \o w) \o m = <<>>
      BY <2>1, FlattenNone
    <2>3. c \o w \in Seq(Nat)
      OBVIOUS
    <2>4. c \o w = <<>>
      BY <2>2, <2>3, ConcatSimplifications
    <2>5. c = <<>>
      BY <2>4, ConcatSimplifications
    <2> QED
      BY <2>5
  <1> DEFINE p == P[1]
             t == FlattenSeq(Tail(P))
             r == w \o m
  <1>2. p \in Seq(Nat)
    BY <1>1, ElementOfSeq
  <1>3. Tail(P) \in Seq(Seq(Nat))
    BY <1>1
  <1>4. t \in Seq(Nat)
    BY <1>3, FlattenTyped
  <1>5. r \in Seq(Nat)
    OBVIOUS
  <1>6. (c \o w) \o m = c \o r
    BY Associate
  <1>7. FlattenSeq(P) = p \o t
    BY <1>1, FlattenFirst
  <1>8. c \o r = p \o t
    BY <1>6, <1>7
  <1> HIDE DEF p, t, r
  <1>9. /\ \A i \in 1..Len(c) : i <= Len(p) => c[i] = p[i]
        /\ Len(c) = Len(p) => c = p /\ r = t
    <2>1. c \in Seq(Nat)
      OBVIOUS
    <2>2. \A i \in 1..Len(c) : i <= Len(p) => c[i] = p[i]
      BY <1>2, <1>4, <1>5, <1>8, <2>1, SameBeginning
    <2>3. ASSUME Len(c) = Len(p) PROVE c = p /\ r = t
      BY <1>2, <1>4, <1>5, <1>8, <2>1, <2>3, SameBeginning
    <2> QED
      BY <2>2, <2>3
  <1>10. TakesWhole(P, c, r)
    BY <1>9, Zenon DEF TakesWhole, p, t
  <1> QED
    BY <1>1, <1>2, <1>3, <1>9, <1>10 DEF p, r

LEMMA RemainingTyped ==
  ASSUME NEW s \in Seq(Sendings), NEW n \in 0..Len(s)
  PROVE  /\ Remaining(s, n) \in Seq(Seq(Nat)) /\ Len(Remaining(s, n)) = Len(s) - n
         /\ \A i \in 1..Len(s) - n : Remaining(s, n)[i] = s[n + i].cells
  <1>1. Len(s) \in Nat /\ Len(s) - n \in Nat
    OBVIOUS
  <1>2. ASSUME NEW i \in 1..Len(s) - n PROVE s[n + i].cells \in Seq(Nat)
    <2>1. n + i \in 1..Len(s)
      BY <1>1
    <2>2. s[n + i] \in Sendings
      BY <2>1, ElementOfSeq
    <2> QED
      BY <2>2 DEF Sendings
  <1> DEFINE k == Len(s) - n
             R == Remaining(s, n)
  <1>3. R = [i \in 1..k |-> s[n + i].cells]
    BY DEF Remaining
  <1>4. k \in Nat /\ \A i \in 1..k : s[n + i].cells \in Seq(Nat)
    BY <1>1, <1>2
  <1> HIDE DEF R, k
  <1>5. R \in Seq(Seq(Nat)) /\ Len(R) = k /\ \A i \in 1..k : R[i] = s[n + i].cells
    BY <1>3, <1>4
  <1> QED
    BY <1>5 DEF R, k

LEMMA RemainingTail ==
  ASSUME NEW s \in Seq(Sendings), NEW n \in Nat, n < Len(s)
  PROVE  /\ Remaining(s, n) # <<>> /\ Remaining(s, n)[1] = s[n + 1].cells
         /\ Tail(Remaining(s, n)) = Remaining(s, n + 1)
         /\ Remaining(s, n + 1) # <<>> =>
              Remaining(s, n + 1)[Len(Remaining(s, n + 1))] = Remaining(s, n)[Len(Remaining(s, n))]
  <1> DEFINE R == Remaining(s, n)
             T == Remaining(s, n + 1)
             k == Len(s) - n
  <1>1. k \in Nat /\ k >= 1 /\ n \in 0..Len(s) /\ n + 1 \in 0..Len(s) /\ Len(s) - (n + 1) = k - 1
    OBVIOUS
  <1>2. R \in Seq(Seq(Nat)) /\ Len(R) = k /\ \A i \in 1..k : R[i] = s[n + i].cells
    BY <1>1, RemainingTyped, Zenon
  <1>3. T \in Seq(Seq(Nat)) /\ Len(T) = k - 1 /\ \A i \in 1..k - 1 : T[i] = s[n + 1 + i].cells
    BY <1>1, RemainingTyped, Zenon
  <1> HIDE DEF R, T, k
  <1>4. \A i \in 1..k - 1 : n + 1 + i = n + (i + 1) /\ i + 1 \in 1..k
    BY <1>1
  <1>5. \A i \in 1..k - 1 : T[i] = R[i + 1]
    BY <1>2, <1>3, <1>4, Zenon
  <1>6. R # <<>> /\ R[1] = s[n + 1].cells
    BY <1>1, <1>2
  <1>7. Tail(R) \in Seq(Seq(Nat)) /\ Len(Tail(R)) = k - 1 /\ \A i \in 1..k - 1 : Tail(R)[i] = R[i + 1]
    BY <1>1, <1>2, <1>6, HeadTailProperties
  <1>8. Tail(R) = T
    <2>1. \A i \in 1..k - 1 : Tail(R)[i] = T[i]
      BY <1>5, <1>7, Zenon
    <2> DEFINE U == Tail(R)
    <2>2. U \in Seq(Seq(Nat)) /\ Len(U) = k - 1 /\ \A i \in 1..k - 1 : U[i] = T[i]
      BY <1>7, <2>1
    <2> HIDE DEF U
    <2>3. U = T
      BY <1>3, <2>2, SeqEqual
    <2> QED
      BY <2>3 DEF U
  <1>9. T # <<>> => T[k - 1] = R[k]
    <2>1. SUFFICES ASSUME T # <<>> PROVE T[k - 1] = R[k]
      OBVIOUS
    <2>2. k - 1 # 0
      BY <1>3, <2>1
    <2>3. k - 1 \in 1..k - 1 /\ k = (k - 1) + 1
      BY <1>1, <2>2
    <2> QED
      BY <1>5, <2>3
  <1>10. T # <<>> => T[Len(T)] = R[Len(R)]
    BY <1>2, <1>3, <1>9
  <1> QED
    BY <1>6, <1>8, <1>10 DEF R, T

LEMMA RemainingAppend ==
  ASSUME NEW s \in Seq(Sendings), NEW e \in Sendings, NEW n \in 0..Len(s)
  PROVE  Remaining(Append(s, e), n) = Append(Remaining(s, n), e.cells)
  <1> DEFINE a == Append(s, e)
             R == Remaining(s, n)
             T == Remaining(a, n)
             k == Len(s) - n
             c == e.cells
             A == Append(R, c)
  <1>1. /\ a \in Seq(Sendings) /\ Len(a) = Len(s) + 1 /\ a[Len(s) + 1] = e
        /\ \A i \in 1..Len(s) : a[i] = s[i]
    BY AppendProperties
  <1>2. k \in Nat /\ Len(s) \in Nat /\ n + (k + 1) = Len(s) + 1 /\ c \in Seq(Nat)
    BY DEF Sendings
  <1> HIDE DEF a
  <1>3. n \in 0..Len(a) /\ Len(a) - n = k + 1
    BY <1>1, <1>2
  <1>4. R \in Seq(Seq(Nat)) /\ Len(R) = k /\ \A i \in 1..k : R[i] = s[n + i].cells
    BY RemainingTyped
  <1>5. T \in Seq(Seq(Nat)) /\ Len(T) = k + 1 /\ \A i \in 1..k + 1 : T[i] = a[n + i].cells
    BY <1>1, <1>3, RemainingTyped
  <1>6. \A i \in 1..k : n + i \in 1..Len(s)
    BY <1>2
  <1> HIDE DEF R, T, k
  <1>7. \A i \in 1..k : T[i] = R[i]
    <2>1. \A i \in 1..k : i \in 1..k + 1
      BY <1>2
    <2> QED
      BY <1>1, <1>4, <1>5, <1>6, <2>1, Zenon
  <1>8. T[k + 1] = c
    <2>1. k + 1 \in 1..k + 1
      BY <1>2
    <2>2. T[k + 1] = a[n + (k + 1)].cells
      BY <1>5, <2>1, Zenon
    <2> QED
      BY <1>1, <1>2, <2>2
  <1> HIDE DEF c
  <1>9. /\ A \in Seq(Seq(Nat)) /\ Len(A) = k + 1 /\ A[k + 1] = c
        /\ \A i \in 1..k : A[i] = R[i]
    BY <1>2, <1>4, AppendProperties
  <1> HIDE DEF A
  <1>10. \A i \in 1..k + 1 : T[i] = A[i]
    <2>1. \A i \in 1..k + 1 : i \in 1..k \/ i = k + 1
      BY <1>2
    <2> QED
      BY <1>7, <1>8, <1>9, <2>1, Zenon
  <1>11. T = A
    BY <1>5, <1>9, <1>10, SeqEqual
  <1> QED
    BY <1>11 DEF T, A, R, c, a

--------------------------------------------------------------------------------
(* Consequences of the invariant. *)

LEMMA Counts ==
  ASSUME FramingInv
  PROVE  /\ Len(sent) \in Nat /\ Len(received) \in Nat /\ Len(received) \in 0..Len(sent)
         /\ sent \in Seq(Sendings) /\ received \in Seq(Deliveries)
         /\ (received = <<>> <=> Len(received) = 0)
  <1>1. sent \in Seq(Sendings) /\ received \in Seq(Deliveries) /\ Len(received) <= Len(sent)
    BY DEF FramingInv, TypesInv, ReceivedInv
  <1> QED
    BY <1>1

LEMMA SentItem ==
  ASSUME FramingInv, NEW i \in 1..Len(sent)
  PROVE  /\ sent[i].by \in 1..Len(script) /\ sent[i].by >= i
         /\ sent[i].cells = CellsOf(script[sent[i].by]) /\ sent[i].cells \in Seq(Nat)
         /\ IsOwn(script[sent[i].by]) =>
              /\ Makeable(script[sent[i].by].message, script[sent[i].by].user)
              /\ IsCall(script[sent[i].by].message) /\ script[sent[i].by].user \in Nat
         /\ i = 1 => ~IsOwn(script[sent[i].by]) /\ Len(sent[i].cells) = 3
         /\ i # 1 => IsUnit(sent[i].cells)
  <1> DEFINE by == sent[i].by
  <1>1. script \in Scripts /\ next \in 1..Len(script) + 1
    BY DEF FramingInv, TypesInv
  <1>2. /\ Len(script) \in Nat /\ Len(script) >= 1
        /\ ~IsOwn(script[1]) /\ Len(CellsOf(script[1])) = 3
    BY <1>1, ScriptItems
  <1>3. /\ by \in i..next - 1 /\ sent[i].cells = CellsOf(script[by])
        /\ IsOwn(script[by]) => Makeable(script[by].message, script[by].user)
        /\ i = 1 => by = 1
    BY DEF FramingInv, SentInv
  <1>4. sent[i].cells \in Seq(Nat)
    <2>1. sent[i] \in Sendings
      BY Counts, ElementOfSeq
    <2> QED
      BY <2>1 DEF Sendings
  <1>5. i \in Nat /\ i >= 1
    BY Counts
  <1> HIDE DEF by
  <1>6. by \in 1..Len(script) /\ by >= i
    BY <1>1, <1>2, <1>3, <1>5
  <1>7. IsOwn(script[by]) => IsCall(script[by].message) /\ script[by].user \in Nat
    BY <1>1, <1>6, ScriptItems
  <1>8. i = 1 => ~IsOwn(script[by]) /\ Len(sent[i].cells) = 3
    BY <1>2, <1>3
  <1>9. ASSUME i # 1 PROVE IsUnit(sent[i].cells)
    <2>1. by # 1
      BY <1>5, <1>6, <1>9
    <2>2. IsUnit(CellsOf(script[by]))
      BY <1>1, <1>3, <1>6, <2>1, ScriptItems
    <2> QED
      BY <1>3, <2>2
  <1> QED
    BY <1>3, <1>4, <1>6, <1>7, <1>8, <1>9 DEF by

LEMMA PendingTyped ==
  ASSUME FramingInv
  PROVE  Pending \in Seq(Seq(Nat)) /\ Len(Pending) = Len(sent) - Len(received)
  BY Counts, RemainingTyped DEF Pending

LEMMA CurrentTyped ==
  ASSUME FramingInv
  PROVE  /\ Before \in Seq(Nat) /\ unit \in Seq(Nat) /\ wire \in Seq(Nat)
         /\ Current \in Seq(Nat) /\ Len(Current) = Len(Before) + Len(unit)
         /\ stage \in {"preface", "length"} => Before = <<>>
         /\ stage = "header" => Before = LengthCells(length) /\ Len(Before) = 2
         /\ stage = "payload" => Before = LengthCells(length) \o header /\ Len(Before) = 4
  <1>1. /\ stage \in {"preface", "length", "header", "payload"}
        /\ unit \in Seq(Nat) /\ wire \in Seq(Nat)
        /\ stage \in {"header", "payload"} => length \in 2..2 + MaxPayload
        /\ stage = "payload" => header \in Seq(Nat) /\ Len(header) = 2
    BY DEF FramingInv, TypesInv
  <1>2. stage \in {"header", "payload"} =>
          LengthCells(length) \in Seq(Nat) /\ Len(LengthCells(length)) = 2
    <2>1. SUFFICES ASSUME length \in 2..2 + MaxPayload
                   PROVE  LengthCells(length) \in Seq(Nat) /\ Len(LengthCells(length)) = 2
      BY <1>1
    <2>2. length \in 0..MaxPayload + 2
      BY <2>1, Sizes
    <2> QED
      BY <2>2, LengthRoundTrip
  <1> DEFINE L == LengthCells(length)
  <1>3. stage \in {"preface", "length"} => Before = <<>>
    BY DEF Before
  <1>4. stage = "header" => Before = L
    BY DEF Before
  <1>5. stage = "payload" => Before = L \o header
    BY DEF Before
  <1> HIDE DEF L
  <1>6. ASSUME stage = "payload" PROVE L \o header \in Seq(Nat) /\ Len(L \o header) = 4
    <2>1. L \in Seq(Nat) /\ Len(L) = 2 /\ header \in Seq(Nat) /\ Len(header) = 2
      BY <1>1, <1>2, <1>6 DEF L
    <2>2. header \in Seq(Nat)
      BY <2>1
    <2>3. L \in Seq(Nat)
      BY <2>1
    <2>4. L \o header \in Seq(Nat)
      BY <2>2, <2>3, ConcatTyped
    <2>5. Len(L \o header) = Len(L) + Len(header)
      BY <2>2, <2>3
    <2>6. Len(L) + Len(header) = 4
      BY <2>1
    <2> QED
      BY <2>4, <2>5, <2>6
  <1>7. /\ Before \in Seq(Nat) /\ (stage = "header" => Len(Before) = 2)
        /\ (stage = "payload" => Len(Before) = 4)
    <2>1. CASE stage \in {"preface", "length"}
      <3>1. Before = <<>>
        BY <1>3, <2>1
      <3>2. stage # "header" /\ stage # "payload"
        BY <2>1
      <3> QED
        BY <3>1, <3>2
    <2>2. CASE stage = "header"
      BY <1>2, <1>4, <2>2 DEF L
    <2>3. CASE stage = "payload"
      BY <1>5, <1>6, <2>3
    <2> QED
      BY <1>1, <2>1, <2>2, <2>3
  <1>8. Current \in Seq(Nat) /\ Len(Current) = Len(Before) + Len(unit)
    BY <1>1, <1>7 DEF Current
  <1> QED
    BY <1>1, <1>3, <1>4, <1>5, <1>7, <1>8 DEF L

LEMMA CutMoved ==
  ASSUME NEW b \in Seq(Nat), NEW u \in Seq(Nat), NEW a \in Seq(Nat), NEW w \in Seq(Nat),
         NEW P, NEW m, Cut(b \o u, a \o w, P, m)
  PROVE  Cut(b \o (u \o a), w, P, m)
  <1> DEFINE bu == b \o u
             ua == u \o a
             aw == a \o w
             bua == b \o ua
  <1>1. bu \in Seq(Nat)
    OBVIOUS
  <1>2. bua = bu \o a
    BY Associate
  <1>3. Cut(bu, aw, P, m)
    OBVIOUS
  <1> HIDE DEF bu, bua
  <1>4. bu \o aw = (bu \o a) \o w
    BY <1>1, Associate
  <1> HIDE DEF aw
  <1>5. bu \o aw = bua \o w
    BY <1>2, <1>4, Zenon
  <1>6. Cut(bua, w, P, m)
    BY <1>3, <1>5, Zenon DEF Cut
  <1> QED
    BY <1>6 DEF bua

LEMMA CutTaken ==
  ASSUME NEW s \in Seq(Sendings), NEW r \in 0..Len(s), NEW c \in Seq(Nat), NEW w \in Seq(Nat),
         NEW m, Cut(c, w, Remaining(s, r), m), c # <<>>
  PROVE  /\ r < Len(s) /\ s[r + 1].cells \in Seq(Nat)
         /\ \A i \in 1..Len(c) : i <= Len(s[r + 1].cells) => c[i] = s[r + 1].cells[i]
         /\ Len(c) = Len(s[r + 1].cells) =>
              c = s[r + 1].cells /\ Cut(<<>>, w, Remaining(s, r + 1), m)
  <1> DEFINE P == Remaining(s, r)
             T == Remaining(s, r + 1)
             f == s[r + 1].cells
  <1>1. P \in Seq(Seq(Nat)) /\ Len(P) = Len(s) - r
    BY RemainingTyped
  <1>2. m \in Seq(Nat) /\ (c \o w) \o m = FlattenSeq(P)
        /\ (P # <<>> => Len(m) < Len(P[Len(P)]))
    BY Zenon DEF Cut
  <1> HIDE DEF P
  <1>3. m \in Seq(Nat)
    BY <1>2
  <1>4. /\ P # <<>> /\ P[1] \in Seq(Nat)
        /\ \A i \in 1..Len(c) : i <= Len(P[1]) => c[i] = P[1][i]
        /\ Len(c) = Len(P[1]) => c = P[1] /\ w \o m = FlattenSeq(Tail(P))
    <2>1. c \in Seq(Nat)
      OBVIOUS
    <2>2. w \in Seq(Nat)
      OBVIOUS
    <2>3. /\ P # <<>> /\ P[1] \in Seq(Nat)
          /\ \A i \in 1..Len(c) : i <= Len(P[1]) => c[i] = P[1][i]
      BY <1>1, <1>2, <1>3, <2>1, <2>2, TakeUnit
    <2>4. TakesWhole(P, c, w \o m)
      BY <1>1, <1>2, <1>3, <2>1, <2>2, TakeUnit
    <2> QED
      BY <2>3, <2>4, Zenon DEF TakesWhole
  <1>5. r < Len(s) /\ r \in Nat
    BY <1>1, <1>4
  <1>6. P[1] = f /\ Tail(P) = T /\ (T # <<>> => T[Len(T)] = P[Len(P)])
    BY <1>5, RemainingTail DEF P
  <1> HIDE DEF T, f
  <1>7. ASSUME Len(c) = Len(f) PROVE c = f /\ Cut(<<>>, w, T, m)
    <2>1. c = f /\ w \o m = FlattenSeq(T)
      BY <1>4, <1>6, <1>7
    <2>2. <<>> \o w = w
      BY EmptyIsUnit
    <2>3. T # <<>> => Len(m) < Len(T[Len(T)])
      BY <1>2, <1>4, <1>6
    <2> QED
      BY <1>3, <2>1, <2>2, <2>3, Zenon DEF Cut
  <1>8. \A i \in 1..Len(c) : i <= Len(f) => c[i] = f[i]
    BY <1>4, <1>6, Zenon
  <1>9. f \in Seq(Nat)
    BY <1>4, <1>6
  <1> QED
    BY <1>5, <1>7, <1>8, <1>9 DEF f, T

LEMMA NeedIs ==
  ASSUME FramingInv
  PROVE  /\ Need \in Nat /\ Need > 0 /\ Len(unit) \in Nat /\ Len(unit) < Need
         /\ stage = "preface" => Need = 3
         /\ stage \in {"length", "header"} => Need = 2
         /\ stage = "payload" => Need = length - 2 /\ length \in 3..2 + MaxPayload
  <1>1. /\ stage \in {"preface", "length", "header", "payload"}
        /\ unit \in Seq(Nat) /\ Len(unit) < Need
        /\ stage = "payload" => length \in 2..2 + MaxPayload /\ length > 2
    BY DEF FramingInv, TypesInv
  <1>2. MaxPayload \in Nat /\ BodyHeader = 2
    BY Sizes
  <1>3. stage = "preface" => Need = 3
    BY Sizes DEF Need
  <1>4. stage = "length" => Need = 2
    BY DEF Need, LengthCells
  <1>5. stage = "header" => Need = 2
    BY <1>2 DEF Need
  <1>6. stage = "payload" => Need = length - 2
    BY <1>2 DEF Need
  <1> QED
    BY <1>1, <1>2, <1>3, <1>4, <1>5, <1>6

\* What a recv that takes n cells leads to.
Got(n) == unit \o SubSeq(wire, 1, n)
Left(n) == SubSeq(wire, n + 1, Len(wire))
Awaited == sent[Len(received) + 1].cells

LEMMA Taking ==
  ASSUME FramingInv, ended = "no", NEW n \in 1..Need - Len(unit), n <= Len(wire)
  PROVE  /\ Got(n) \in Seq(Nat) /\ Len(Got(n)) = Len(unit) + n /\ Len(Got(n)) \in 1..Need
         /\ Left(n) \in Seq(Nat) /\ Len(Left(n)) <= Window
         /\ Before \o Got(n) \in Seq(Nat) /\ Len(Before \o Got(n)) = Len(Before) + Len(Got(n))
         /\ Joins(Before \o Got(n), Left(n), Pending)
         /\ Len(received) < Len(sent) /\ Awaited \in Seq(Nat)
         /\ \A i \in 1..Len(Before \o Got(n)) :
              i <= Len(Awaited) => (Before \o Got(n))[i] = Awaited[i]
         /\ Len(Before \o Got(n)) = Len(Awaited) =>
              /\ Before \o Got(n) = Awaited
              /\ Joins(<<>>, Left(n), Remaining(sent, Len(received) + 1))
  <1> DEFINE a == SubSeq(wire, 1, n)
             w == Left(n)
             g == Got(n)
             c == Before \o g
  <1>1. Need \in Nat /\ Len(unit) \in Nat /\ Len(unit) < Need
    BY NeedIs
  <1>2. /\ Before \in Seq(Nat) /\ unit \in Seq(Nat) /\ wire \in Seq(Nat)
    BY CurrentTyped
  <1>3. n \in 0..Len(wire) /\ n \in Nat /\ n >= 1 /\ Len(wire) \in Nat
    BY <1>1, <1>2
  <1>4. /\ a \in Seq(Nat) /\ Len(a) = n /\ w \in Seq(Nat) /\ Len(w) = Len(wire) - n
        /\ wire = a \o w
    BY <1>2, <1>3, Split DEF Left
  <1>5. Len(wire) <= Window /\ Window \in Nat
    BY FramingAssumption DEF FramingInv, TypesInv
  <1>6. Len(w) <= Window
    BY <1>3, <1>4, <1>5
  <1> HIDE DEF a, w
  <1>7. g \in Seq(Nat) /\ Len(g) = Len(unit) + n
    <2>1. g = unit \o a
      BY DEF Got, a
    <2>2. a \in Seq(Nat)
      BY <1>4
    <2>3. unit \o a \in Seq(Nat) /\ Len(unit \o a) = Len(unit) + Len(a)
      BY <1>2, <2>2
    <2> QED
      BY <1>4, <2>1, <2>3
  <1>8. Len(g) \in 1..Need
    BY <1>1, <1>3, <1>7
  <1> HIDE DEF g
  <1>9. c \in Seq(Nat) /\ Len(c) = Len(Before) + Len(g)
    <2>1. g \in Seq(Nat)
      BY <1>7
    <2>2. Before \in Seq(Nat)
      BY <1>2
    <2>3. c \in Seq(Nat)
      BY <2>1, <2>2, ConcatTyped
    <2>4. Len(c) = Len(Before) + Len(g)
      BY <2>1, <2>2
    <2> QED
      BY <2>3, <2>4
  <1>10. Joins(Before \o unit, wire, Pending)
    BY DEF FramingInv, StreamInv, Current
  <1>11. PICK m : Cut(Before \o unit, wire, Pending, m) /\ (sending => m = Unsent)
    BY <1>10, Zenon DEF Joins
  <1>12. Cut(Before \o unit, a \o w, Pending, m)
    BY <1>4, <1>11, Zenon
  <1>13. Cut(Before \o (unit \o a), w, Pending, m)
    BY <1>2, <1>4, <1>12, CutMoved, Zenon
  <1>14. Cut(c, w, Pending, m)
    BY <1>13 DEF g, a, Got
  <1>15. Joins(c, w, Pending)
    BY <1>11, <1>14, Zenon DEF Joins
  <1>16. c # <<>>
    <2>1. Len(Before) \in Nat
      BY <1>2
    <2> QED
      BY <1>8, <1>9, <2>1
  <1> HIDE DEF c
  <1> DEFINE r == Len(received)
  <1>17. sent \in Seq(Sendings) /\ r \in 0..Len(sent) /\ Pending = Remaining(sent, r)
    BY Counts DEF Pending
  <1> HIDE DEF r
  <1>18. c \in Seq(Nat) /\ w \in Seq(Nat) /\ Cut(c, w, Remaining(sent, r), m)
    BY <1>4, <1>9, <1>14, <1>17
  <1>19. /\ r < Len(sent) /\ sent[r + 1].cells \in Seq(Nat)
         /\ \A i \in 1..Len(c) : i <= Len(sent[r + 1].cells) => c[i] = sent[r + 1].cells[i]
         /\ Len(c) = Len(sent[r + 1].cells) =>
              c = sent[r + 1].cells /\ Cut(<<>>, w, Remaining(sent, r + 1), m)
    BY <1>16, <1>17, <1>18, CutTaken
  <1>20. /\ r < Len(sent) /\ Awaited \in Seq(Nat)
         /\ \A i \in 1..Len(c) : i <= Len(Awaited) => c[i] = Awaited[i]
         /\ Len(c) = Len(Awaited) => c = Awaited /\ Cut(<<>>, w, Remaining(sent, r + 1), m)
    BY <1>19 DEF Awaited, r
  <1>21. Len(c) = Len(Awaited) => c = Awaited /\ Joins(<<>>, w, Remaining(sent, r + 1))
    BY <1>11, <1>20, Zenon DEF Joins
  <1> QED
    BY <1>4, <1>6, <1>7, <1>8, <1>9, <1>15, <1>20, <1>21 DEF c, g, w, r

--------------------------------------------------------------------------------
(* The invariant is inductive. *)

LEMMA InitKeeps ==
  ASSUME Init
  PROVE  FramingInv
  <1>1. /\ script \in Scripts /\ next = 1 /\ view = <<>> /\ bytesSent = 0 /\ sending = TRUE
        /\ wire = <<>> /\ sent = <<>> /\ unit = <<>> /\ stage = "preface"
        /\ received = <<>> /\ ended = "no" /\ length = 0 /\ header = <<>>
    BY DEF Init
  <1>2. Len(script) \in Nat
    BY <1>1, ScriptItems
  <1>3. Need = 3
    BY <1>1, Sizes DEF Need
  <1>4. TypesInv
    <2>1. Window \in Nat
      BY FramingAssumption
    <2> QED
      BY <1>1, <1>2, <1>3, <2>1 DEF TypesInv
  <1>5. ViewInv /\ SentInv /\ ReceivedInv
    BY <1>1 DEF ViewInv, SentInv, ReceivedInv
  <1>6. StreamInv
    <2>1. Pending = <<>>
      BY <1>1 DEF Pending, Remaining
    <2>2. Before = <<>> /\ Unsent = <<>>
      BY <1>1 DEF Before, Unsent
    <2>3. Current \o wire = <<>> /\ <<>> \o <<>> = <<>> /\ <<>> \in Seq(Nat)
      BY <1>1, <2>2 DEF Current
    <2>4. (Current \o wire) \o <<>> = FlattenSeq(Pending)
      BY <2>1, <2>3, FlattenNone
    <2>5. Cut(Current, wire, Pending, <<>>)
      BY <2>1, <2>3, <2>4 DEF Cut
    <2> QED
      BY <2>2, <2>5 DEF StreamInv, Joins
  <1> QED
    BY <1>4, <1>5, <1>6 DEF FramingInv

LEMMA SendFrameKeeps ==
  ASSUME FramingInv, SendFrame
  PROVE  FramingInv'
  <1> DEFINE item == script[next]
  <1>1. /\ sending /\ view = <<>> /\ next <= Len(script) /\ ended = "no"
        /\ view' = IF IsOwn(item) => Makeable(item.message, item.user)
                   THEN CellsOf(item) ELSE <<>>
        /\ next' = next + 1 /\ bytesSent' = 0
        /\ script' = script /\ sending' = sending /\ sent' = sent /\ wire' = wire
        /\ unit' = unit /\ stage' = stage /\ length' = length /\ header' = header
        /\ received' = received /\ ended' = ended
    BY DEF SendFrame, receiverVars
  <1>2. TypesInv /\ ViewInv /\ SentInv /\ ReceivedInv /\ StreamInv
    BY DEF FramingInv
  <1>3. script \in Scripts /\ next \in 1..Len(script) + 1 /\ Len(script) \in Nat
    BY <1>2, ScriptItems DEF TypesInv
  <1>4. next \in 1..Len(script)
    BY <1>1, <1>3
  <1>5. view' \in Seq(Nat)
    <2>1. CASE next = 1
      BY <1>1, <1>3, <2>1, ScriptItems
    <2>2. CASE next # 1 /\ (IsOwn(item) => Makeable(item.message, item.user))
      <3>1. IsUnit(CellsOf(item))
        BY <1>3, <1>4, <2>2, ScriptItems
      <3> QED
        BY <1>1, <2>2, <3>1 DEF IsUnit
    <2>3. CASE ~(IsOwn(item) => Makeable(item.message, item.user))
      BY <1>1, <2>3
    <2> QED
      BY <2>1, <2>2, <2>3
  <1>6. TypesInv'
    <2>1. /\ script' \in Scripts /\ next' \in 1..Len(script') + 1
          /\ view' \in Seq(Nat) /\ bytesSent' \in 0..Len(view')
      BY <1>1, <1>3, <1>4, <1>5
    <2>2. Need' = Need
      BY <1>1 DEF Need
    <2> QED
      BY <1>1, <1>2, <2>1, <2>2 DEF TypesInv
  <1>7. ASSUME NEW i \in 1..Len(sent) PROVE sent[i].by \in i..next - 1
    BY <1>2 DEF SentInv
  <1>8. ViewInv'
    <2>1. next' - 1 = next /\ next' > 1
      BY <1>1, <1>3
    <2>2. \A i \in 1..Len(sent) : sent[i].by < next
      BY <1>3, <1>7
    <2> QED
      BY <1>1, <2>1, <2>2 DEF ViewInv
  <1>9. SentInv'
    <2>1. \A i \in 1..Len(sent) : sent[i].by \in i..next' - 1
      BY <1>1, <1>3, <1>7
    <2>2. ASSUME sent = <<>> PROVE next' = 2 /\ view' # <<>> /\ bytesSent' = 0
      <3>1. next = 1
        BY <1>1, <1>2, <2>2 DEF SentInv
      <3>2. ~IsOwn(item) /\ Len(CellsOf(item)) = 3
        BY <1>3, <3>1, ScriptItems
      <3>3. view' = CellsOf(item)
        BY <1>1, <3>2
      <3> QED
        BY <1>1, <3>1, <3>2, <3>3
    <2> QED
      BY <1>1, <1>2, <2>1, <2>2 DEF SentInv
  <1>10. ReceivedInv'
    BY <1>1, <1>2 DEF ReceivedInv
  <1>11. StreamInv'
    <2>1. Unsent' = Unsent
      <3>1. bytesSent = 0
        BY <1>1, <1>2 DEF TypesInv
      <3> QED
        BY <1>1, <3>1 DEF Unsent
    <2>2. Current' = Current /\ Pending' = Pending
      BY <1>1 DEF Current, Before, Pending
    <2>3. Joins(Current, wire, Pending)
      BY <1>1, <1>2 DEF StreamInv
    <2>4. PICK m : Cut(Current, wire, Pending, m) /\ (sending => m = Unsent)
      BY <2>3, Zenon DEF Joins
    <2> QED
      BY <1>1, <2>1, <2>2, <2>4, Zenon DEF StreamInv, Joins
  <1> QED
    BY <1>6, <1>8, <1>9, <1>10, <1>11 DEF FramingInv

LEMMA CutSent ==
  ASSUME NEW c \in Seq(Nat), NEW w \in Seq(Nat), NEW P, NEW x \in Seq(Nat), NEW y \in Seq(Nat),
         Cut(c, w, P, x \o y), Len(y) <= Len(x \o y)
  PROVE  Cut(c, w \o x, P, y)
  <1> DEFINE wx == w \o x
             xy == x \o y
             cw == c \o w
  <1>1. c \in Seq(Nat) /\ w \in Seq(Nat)
    OBVIOUS
  <1>2. cw \in Seq(Nat) /\ Cut(c, w, P, xy) /\ Len(y) <= Len(xy)
    BY ConcatTyped
  <1>3. c \o wx = cw \o x
    BY Associate
  <1> HIDE DEF cw, wx
  <1>4. cw \o xy = (cw \o x) \o y
    <2>1. cw \in Seq(Nat)
      BY <1>2
    <2>2. x \in Seq(Nat) /\ y \in Seq(Nat)
      OBVIOUS
    <2> QED
      BY <2>1, <2>2, Associate
  <1> HIDE DEF xy
  <1>5. cw \o xy = (c \o wx) \o y
    BY <1>3, <1>4, Zenon
  <1>6. cw \o xy = FlattenSeq(P)
    BY <1>2, Zenon DEF Cut, cw
  <1>7. ASSUME P # <<>> PROVE Len(y) < Len(P[Len(P)])
    <2>1. xy \in Seq(Nat) /\ Len(xy) < Len(P[Len(P)])
      BY <1>2, <1>7, Zenon DEF Cut
    <2> DEFINE last == P[Len(P)]
    <2>2. Len(xy) < Len(last) /\ Len(y) <= Len(xy) /\ Len(y) \in Nat /\ Len(xy) \in Nat
      BY <1>2, <2>1
    <2> QED
      BY <2>2
  <1>8. (c \o wx) \o y = FlattenSeq(P)
    BY <1>5, <1>6, Zenon
  <1>9. Cut(c, wx, P, y)
    BY <1>7, <1>8, Zenon DEF Cut
  <1> QED
    BY <1>9 DEF wx

LEMMA CutStarted ==
  ASSUME NEW c \in Seq(Nat), NEW w \in Seq(Nat), NEW P \in Seq(Seq(Nat)),
         NEW x \in Seq(Nat), NEW y \in Seq(Nat), NEW v,
         Cut(c, w, P, <<>>), v = x \o y, Len(y) < Len(v)
  PROVE  Cut(c, w \o x, Append(P, v), y)
  <1> DEFINE wx == w \o x
             cw == c \o w
             A == Append(P, v)
  <1>1. cw \in Seq(Nat) /\ v \in Seq(Nat)
    BY ConcatTyped
  <1>2. c \o wx = cw \o x
    BY Associate
  <1>3. cw = FlattenSeq(P)
    <2>1. cw \o <<>> = FlattenSeq(P)
      BY Zenon DEF Cut
    <2> HIDE DEF cw
    <2>2. cw \o <<>> = cw
      BY <1>1, EmptyIsUnit
    <2> QED
      BY <2>1, <2>2, Zenon
  <1> HIDE DEF wx
  <1>4. FlattenSeq(A) = FlattenSeq(P) \o v
    BY <1>1, FlattenAppend
  <1>5. A[Len(A)] = v
    OBVIOUS
  <1> HIDE DEF cw, A
  <1>6. (cw \o x) \o y = cw \o (x \o y)
    <2>1. cw \in Seq(Nat)
      BY <1>1
    <2>2. x \in Seq(Nat) /\ y \in Seq(Nat)
      OBVIOUS
    <2> QED
      BY <2>1, <2>2, Associate
  <1>7. (c \o wx) \o y = FlattenSeq(A)
    BY <1>2, <1>3, <1>4, <1>6, Zenon
  <1>8. y \in Seq(Nat)
    OBVIOUS
  <1>9. Len(y) < Len(A[Len(A)])
    BY <1>5
  <1>10. Cut(c, wx, A, y)
    BY <1>7, <1>8, <1>9, Zenon DEF Cut
  <1> QED
    BY <1>10 DEF wx, A

LEMMA SendSomeKeeps ==
  ASSUME FramingInv, SendSome
  PROVE  FramingInv'
  <1>1. /\ sending /\ view # <<>> /\ ended = "no"
        /\ script' = script /\ next' = next /\ sending' = sending
        /\ unit' = unit /\ stage' = stage /\ length' = length /\ header' = header
        /\ received' = received /\ ended' = ended
    BY DEF SendSome, receiverVars
  <1>2. PICK n \in 1..Len(view) - bytesSent :
          /\ Len(wire) + n <= Window
          /\ wire' = wire \o SubSeq(view, bytesSent + 1, bytesSent + n)
          /\ sent' = IF bytesSent = 0 THEN Append(sent, [cells |-> view, by |-> next - 1])
                                      ELSE sent
          /\ IF bytesSent + n = Len(view) THEN view' = <<>> /\ bytesSent' = 0
                                          ELSE bytesSent' = bytesSent + n /\ view' = view
    BY DEF SendSome
  <1>3. TypesInv /\ ViewInv /\ SentInv /\ ReceivedInv /\ StreamInv
    BY DEF FramingInv
  <1> DEFINE entry == [cells |-> view, by |-> next - 1]
             x == SubSeq(view, bytesSent + 1, bytesSent + n)
             y == SubSeq(view, bytesSent + n + 1, Len(view))
             v == SubSeq(view, bytesSent + 1, Len(view))
  <1>4. /\ view \in Seq(Nat) /\ bytesSent \in 0..Len(view) /\ Len(view) \in Nat /\ n \in Nat
        /\ n >= 1 /\ bytesSent + n <= Len(view)
    <2>1. view \in Seq(Nat) /\ bytesSent \in 0..Len(view)
      BY <1>3 DEF TypesInv
    <2> QED
      BY <2>1
  <1>5. /\ v \in Seq(Nat) /\ Len(v) = Len(view) - bytesSent
        /\ x \in Seq(Nat) /\ Len(x) = n
        /\ y \in Seq(Nat) /\ Len(y) = Len(view) - bytesSent - n
        /\ v = x \o y
    <2>1. /\ v \in Seq(Nat) /\ Len(v) = Len(view) - bytesSent
          /\ \A i \in 1..Len(v) : v[i] = view[bytesSent + i]
      BY <1>4
    <2>2. /\ x \in Seq(Nat) /\ Len(x) = n
          /\ \A i \in 1..n : x[i] = view[bytesSent + i]
      BY <1>4
    <2>3. /\ y \in Seq(Nat) /\ Len(y) = Len(view) - bytesSent - n
          /\ \A i \in 1..Len(y) : y[i] = view[bytesSent + n + i]
      BY <1>4
    <2> DEFINE a == SubSeq(v, 1, n)
               b == SubSeq(v, n + 1, Len(v))
    <2>4. v \in Seq(Nat) /\ n \in 0..Len(v)
      BY <1>4, <2>1
    <2>5. a \in Seq(Nat) /\ Len(a) = n /\ \A i \in 1..n : a[i] = v[i]
      <3> HIDE DEF v
      <3> QED
        BY <2>4
    <2>6. b \in Seq(Nat) /\ Len(b) = Len(v) - n /\ \A i \in 1..Len(b) : b[i] = v[n + i]
      <3> HIDE DEF v
      <3> QED
        BY <2>4
    <2>7. v = a \o b
      <3> HIDE DEF v
      <3> QED
        BY <2>4, Split
    <2> HIDE DEF v, x, y, a, b
    <2>8. a = x
      <3>1. \A i \in 1..n : i \in 1..Len(v)
        BY <1>4, <2>1
      <3>2. \A i \in 1..n : a[i] = x[i]
        BY <2>1, <2>2, <2>5, <3>1, Zenon
      <3> QED
        BY <2>2, <2>5, <3>2, SeqEqual
    <2>9. b = y
      <3>1. Len(b) = Len(y)
        BY <1>4, <2>1, <2>3, <2>6
      <3>2. \A i \in 1..Len(y) : n + i \in 1..Len(v) /\ bytesSent + (n + i) = bytesSent + n + i
        BY <1>4, <2>1, <2>3
      <3>3. \A i \in 1..Len(y) : b[i] = y[i]
        BY <2>1, <2>3, <2>6, <3>1, <3>2, Zenon
      <3> QED
        BY <2>3, <2>6, <3>1, <3>3, SeqEqual
    <2> QED
      BY <2>1, <2>2, <2>3, <2>7, <2>8, <2>9
  <1>6. Unsent' = y
    <2>1. CASE bytesSent + n = Len(view)
      <3>1. y = <<>>
        BY <1>4, <2>1
      <3>2. bytesSent' = 0
        BY <1>2, <2>1
      <3> QED
        BY <3>1, <3>2 DEF Unsent
    <2>2. CASE bytesSent + n # Len(view)
      <3>1. bytesSent' = bytesSent + n /\ view' = view /\ bytesSent' # 0
        BY <1>2, <1>4, <2>2
      <3> QED
        BY <3>1 DEF Unsent
    <2> QED
      BY <2>1, <2>2
  <1>7. x \in Seq(Nat) /\ y \in Seq(Nat) /\ wire' = wire \o x
    BY <1>2, <1>5
  <1> HIDE DEF x, y
  <1>8. wire' \in Seq(Nat) /\ Len(wire') = Len(wire) + n
    <2>1. wire \in Seq(Nat)
      BY <1>3 DEF TypesInv
    <2>2. x \in Seq(Nat)
      BY <1>7
    <2>3. wire \o x \in Seq(Nat) /\ Len(wire \o x) = Len(wire) + Len(x)
      BY <2>1, <2>2
    <2> QED
      BY <1>5, <1>7, <2>3
  <1> HIDE DEF v
  <1>9. /\ next \in Nat /\ next > 1 /\ view = CellsOf(script[next - 1])
        /\ IsOwn(script[next - 1]) => Makeable(script[next - 1].message, script[next - 1].user)
        /\ bytesSent = 0 => \A i \in 1..Len(sent) : sent[i].by < next - 1
    <2>1. script \in Scripts /\ next \in 1..Len(script) + 1
      BY <1>3 DEF TypesInv
    <2>2. Len(script) \in Nat
      BY <2>1, ScriptItems
    <2> QED
      BY <1>1, <1>3, <2>1, <2>2 DEF ViewInv
  <1>10. sent \in Seq(Sendings) /\ entry \in Sendings /\ Len(sent) \in Nat
    <2>1. next - 1 \in Nat
      BY <1>9
    <2> QED
      BY <1>4, <2>1, Counts DEF Sendings
  <1>11. ViewInv'
    <2>1. CASE bytesSent + n = Len(view)
      BY <1>2, <2>1 DEF ViewInv
    <2>2. CASE bytesSent + n # Len(view)
      <3>1. view' = view /\ bytesSent' # 0
        BY <1>2, <1>4, <2>2
      <3> QED
        BY <1>1, <1>9, <3>1 DEF ViewInv
    <2> QED
      BY <2>1, <2>2
  <1>12. sent' \in Seq(Sendings)
    <2>1. Append(sent, entry) \in Seq(Sendings)
      BY <1>10, AppendProperties
    <2> QED
      BY <1>2, <1>10, <2>1
  <1>13. TypesInv'
    <2>1. view' \in Seq(Nat) /\ bytesSent' \in 0..Len(view')
      <3>1. CASE bytesSent + n = Len(view)
        BY <1>2, <3>1
      <3>2. CASE bytesSent + n # Len(view)
        <4>1. view' = view /\ bytesSent' = bytesSent + n
          BY <1>2, <3>2
        <4> QED
          BY <1>4, <4>1
      <3> QED
        BY <3>1, <3>2
    <2>2. wire' \in Seq(Nat) /\ Len(wire') <= Window
      BY <1>2, <1>8
    <2>3. Need' = Need
      BY <1>1 DEF Need
    <2> QED
      BY <1>1, <1>3, <1>12, <2>1, <2>2, <2>3 DEF TypesInv
  <1>14. Current' = Current /\ Joins(Current, wire, Pending)
    BY <1>1, <1>3 DEF Current, Before, StreamInv
  <1>15. Current \in Seq(Nat) /\ wire \in Seq(Nat) /\ Pending \in Seq(Seq(Nat))
    BY CurrentTyped, PendingTyped
  <1>16. CASE bytesSent = 0
    <2>1. /\ sent' = Append(sent, entry) /\ sent' \in Seq(Sendings) /\ Len(sent') = Len(sent) + 1
          /\ sent'[Len(sent) + 1] = entry /\ \A i \in 1..Len(sent) : sent'[i] = sent[i]
      BY <1>2, <1>10, <1>16, AppendProperties
    <2>2. view = v /\ Unsent = <<>>
      BY <1>4, <1>16 DEF v, Unsent
    <2>3. Pending' = Append(Pending, view)
      <3>1. Len(received) \in 0..Len(sent)
        BY Counts
      <3>2. entry.cells = view
        OBVIOUS
      <3> HIDE DEF entry
      <3>3. Remaining(Append(sent, entry), Len(received)) = Append(Remaining(sent, Len(received)), view)
        BY <1>10, <3>1, <3>2, RemainingAppend
      <3> QED
        BY <1>1, <2>1, <3>3 DEF Pending
    <2>4. StreamInv'
      <3>1. Cut(Current, wire, Pending, <<>>)
        BY <1>1, <1>14, <2>2, Zenon DEF Joins
      <3>2. view = x \o y /\ Len(y) < Len(view)
        BY <1>4, <1>5, <2>2
      <3> HIDE DEF v
      <3>3. Cut(Current, wire \o x, Append(Pending, view), y)
        BY <1>7, <1>15, <3>1, <3>2, CutStarted
      <3>4. Cut(Current', wire', Pending', y)
        BY <1>7, <1>14, <2>3, <3>3, Zenon
      <3> QED
        BY <1>6, <3>4, Zenon DEF StreamInv, Joins
    <2>5. SentInv'
      <3>1. \A i \in 1..Len(sent) : sent[i].by \in i..next - 1
        BY <1>3 DEF SentInv
      <3>2. next - 1 \in Len(sent) + 1..next - 1
        <4>1. CASE Len(sent) = 0
          BY <1>9, <4>1
        <4>2. CASE Len(sent) # 0
          <5>1. Len(sent) \in 1..Len(sent)
            BY <1>10, <4>2
          <5>2. sent[Len(sent)].by \in Len(sent)..next - 1 /\ sent[Len(sent)].by < next - 1
            BY <1>9, <1>16, <3>1, <5>1
          <5> QED
            BY <1>9, <1>10, <5>2
        <4> QED
          BY <4>1, <4>2
      <3>3. Len(sent) = 0 => next = 2
        BY <1>1, <1>3, <1>10 DEF SentInv
      <3>4. ASSUME NEW i \in 1..Len(sent')
            PROVE  /\ sent'[i].by \in i..next - 1 /\ sent'[i].cells = CellsOf(script[sent'[i].by])
                   /\ IsOwn(script[sent'[i].by]) =>
                        Makeable(script[sent'[i].by].message, script[sent'[i].by].user)
                   /\ i = 1 => sent'[i].by = 1
        <4>1. CASE i \in 1..Len(sent)
          <5>1. sent'[i] = sent[i]
            BY <2>1, <4>1
          <5> QED
            BY <1>3, <4>1, <5>1 DEF SentInv
        <4>2. CASE i = Len(sent) + 1
          <5>1. sent'[i].by = next - 1 /\ sent'[i].cells = view
            BY <2>1, <4>2
          <5>2. i = 1 => next - 1 = 1
            BY <1>10, <3>3, <4>2
          <5> QED
            BY <1>9, <3>2, <4>2, <5>1, <5>2
        <4> QED
          BY <1>10, <2>1, <4>1, <4>2
      <3>5. sent' # <<>>
        BY <1>10, <2>1
      <3> QED
        BY <1>1, <3>4, <3>5 DEF SentInv
    <2>6. ReceivedInv'
      <3>1. Len(received) <= Len(sent') /\ Len(received) \in 0..Len(sent)
        BY <1>10, <2>1, Counts
      <3>2. \A i \in 1..Len(received) : i \in 1..Len(sent)
        BY <1>10, <3>1
      <3>3. \A i \in 1..Len(received) : sent'[i] = sent[i]
        BY <2>1, <3>2
      <3> QED
        BY <1>1, <1>3, <3>1, <3>3 DEF ReceivedInv
    <2> QED
      BY <1>11, <1>13, <2>4, <2>5, <2>6 DEF FramingInv
  <1>17. CASE bytesSent # 0
    <2>1. sent' = sent
      BY <1>2, <1>17
    <2>2. StreamInv'
      <3>1. Unsent = v
        BY <1>17 DEF Unsent, v
      <3>2. Cut(Current, wire, Pending, x \o y)
        BY <1>1, <1>5, <1>14, <3>1, Zenon DEF Joins
      <3>3. Len(y) <= Len(x \o y)
        BY <1>4, <1>5
      <3>4. Cut(Current, wire \o x, Pending, y)
        BY <1>7, <1>15, <3>2, <3>3, CutSent
      <3>5. Pending' = Pending
        BY <1>1, <2>1 DEF Pending
      <3>6. Cut(Current', wire', Pending', y)
        BY <1>7, <1>14, <3>4, <3>5, Zenon
      <3> QED
        BY <1>6, <3>6, Zenon DEF StreamInv, Joins
    <2>3. SentInv'
      <3>1. sent # <<>>
        BY <1>1, <1>3, <1>17 DEF SentInv
      <3> QED
        BY <1>1, <1>3, <2>1, <3>1 DEF SentInv
    <2>4. ReceivedInv'
      BY <1>1, <1>3, <2>1 DEF ReceivedInv
    <2> QED
      BY <1>11, <1>13, <2>2, <2>3, <2>4 DEF FramingInv
  <1> QED
    BY <1>16, <1>17

LEMMA StopSendingKeeps ==
  ASSUME FramingInv, StopSending
  PROVE  FramingInv'
  <1>1. /\ sending' = FALSE /\ view' = <<>> /\ bytesSent' = 0
        /\ script' = script /\ next' = next /\ sent' = sent /\ wire' = wire
        /\ unit' = unit /\ stage' = stage /\ length' = length /\ header' = header
        /\ received' = received /\ ended' = ended
    BY DEF StopSending, receiverVars
  <1>2. TypesInv /\ SentInv /\ ReceivedInv /\ StreamInv
    BY DEF FramingInv
  <1>3. TypesInv'
    <2>1. Need' = Need
      BY <1>1 DEF Need
    <2>2. view' \in Seq(Nat) /\ bytesSent' \in 0..Len(view')
      <3>1. view' \in Seq(Nat) /\ Len(view') = 0
        BY <1>1
      <3> QED
        BY <1>1, <3>1
    <2> QED
      BY <1>1, <1>2, <2>1, <2>2 DEF TypesInv
  <1>4. ViewInv' /\ SentInv' /\ ReceivedInv'
    BY <1>1, <1>2 DEF ViewInv, SentInv, ReceivedInv
  <1>5. StreamInv'
    <2>1. Current' = Current /\ Pending' = Pending
      BY <1>1 DEF Current, Before, Pending
    <2>2. ended = "no" => \E m : Cut(Current, wire, Pending, m)
      BY <1>2, Zenon DEF StreamInv, Joins
    <2> QED
      BY <1>1, <2>1, <2>2, Zenon DEF StreamInv, Joins
  <1> QED
    BY <1>3, <1>4, <1>5 DEF FramingInv

\* An ended receiver asks nothing of the stream.
LEMMA EndKeeps ==
  ASSUME FramingInv, ended' \in {"closed", "invalid", "lost"},
         UNCHANGED <<unit, stage, length, header, received, wire, senderVars>>
  PROVE  FramingInv'
  <1>1. /\ script' = script /\ next' = next /\ view' = view /\ bytesSent' = bytesSent
        /\ sending' = sending /\ sent' = sent /\ wire' = wire /\ unit' = unit /\ stage' = stage
        /\ length' = length /\ header' = header /\ received' = received
    BY DEF senderVars
  <1>2. TypesInv /\ ViewInv /\ SentInv /\ ReceivedInv
    BY DEF FramingInv
  <1>3. TypesInv'
    <2>1. Need' = Need
      BY <1>1 DEF Need
    <2> QED
      BY <1>1, <1>2, <2>1 DEF TypesInv
  <1>4. ViewInv' /\ SentInv' /\ ReceivedInv'
    BY <1>1, <1>2 DEF ViewInv, SentInv, ReceivedInv
  <1>5. StreamInv'
    BY DEF StreamInv
  <1> QED
    BY <1>3, <1>4, <1>5 DEF FramingInv

LEMMA StutterKeeps ==
  ASSUME FramingInv, UNCHANGED vars
  PROVE  FramingInv'
  <1>1. /\ script' = script /\ next' = next /\ view' = view /\ bytesSent' = bytesSent
        /\ sending' = sending /\ sent' = sent /\ wire' = wire /\ unit' = unit /\ stage' = stage
        /\ length' = length /\ header' = header /\ received' = received /\ ended' = ended
    BY DEF vars, senderVars, receiverVars
  <1>2. TypesInv /\ ViewInv /\ SentInv /\ ReceivedInv /\ StreamInv
    BY DEF FramingInv
  <1>3. TypesInv'
    <2>1. Need' = Need
      BY <1>1 DEF Need
    <2> QED
      BY <1>1, <1>2, <2>1 DEF TypesInv
  <1>4. ViewInv' /\ SentInv' /\ ReceivedInv'
    BY <1>1, <1>2 DEF ViewInv, SentInv, ReceivedInv
  <1>5. StreamInv'
    <2>1. Current' = Current /\ Pending' = Pending /\ Unsent' = Unsent
      BY <1>1 DEF Current, Before, Pending, Unsent
    <2> QED
      BY <1>1, <1>2, <2>1, Zenon DEF StreamInv, Joins
  <1> QED
    BY <1>3, <1>4, <1>5 DEF FramingInv

\* What a receiver that goes on reading has to keep.
LEMMA ReadingKeeps ==
  ASSUME FramingInv, ended = "no", NEW n \in 1..Need - Len(unit), n <= Len(wire),
         wire' = Left(n), UNCHANGED <<senderVars, received>>,
         Current' = Before \o Got(n),
         unit' \in Seq(Nat), stage' \in {"preface", "length", "header", "payload"},
         Len(unit') < Need', stage' = "preface" <=> stage = "preface",
         length' \in {0} \cup 2..2 + MaxPayload,
         stage' \in {"header", "payload"} => length' # 0,
         IF stage' = "payload" THEN header' \in Seq(Nat) /\ Len(header') = 2 /\ length' > 2
                               ELSE header' = <<>>,
         ended' = ended
  PROVE  FramingInv'
  <1>1. /\ script' = script /\ next' = next /\ view' = view /\ bytesSent' = bytesSent
        /\ sending' = sending /\ sent' = sent /\ received' = received
    BY DEF senderVars
  <1>2. TypesInv /\ ViewInv /\ SentInv /\ ReceivedInv
    BY DEF FramingInv
  <1>3. TypesInv'
    <2>1. wire' \in Seq(Nat) /\ Len(wire') <= Window
      BY Taking
    <2> QED
      BY <1>1, <1>2, <2>1 DEF TypesInv
  <1>4. ViewInv' /\ SentInv' /\ ReceivedInv'
    BY <1>1, <1>2 DEF ViewInv, SentInv, ReceivedInv
  <1>5. StreamInv'
    <2>1. Joins(Before \o Got(n), Left(n), Pending)
      BY Taking
    <2>2. Pending' = Pending /\ Unsent' = Unsent
      BY <1>1 DEF Pending, Unsent
    <2> QED
      BY <1>1, <2>1, <2>2, Zenon DEF StreamInv, Joins
  <1> QED
    BY <1>3, <1>4, <1>5 DEF FramingInv

\* What a receiver that has read a unit to its end has to keep.
LEMMA DeliveredKeeps ==
  ASSUME FramingInv, ended = "no", NEW n \in 1..Need - Len(unit), n <= Len(wire),
         Len(Before \o Got(n)) = Len(Awaited),
         NEW entry \in Deliveries, entry.cells = Awaited,
         IF received = <<>> THEN entry.result = Refusal("preface")
                            ELSE \E frame \in Frames : entry = DeliveryOf(frame),
         received' = Append(received, entry), wire' = Left(n), UNCHANGED senderVars,
         unit' = <<>>, stage' = "length", length' \in {0} \cup 2..2 + MaxPayload,
         header' = <<>>, ended' = ended
  PROVE  FramingInv'
  <1>1. /\ script' = script /\ next' = next /\ view' = view /\ bytesSent' = bytesSent
        /\ sending' = sending /\ sent' = sent
    BY DEF senderVars
  <1>2. TypesInv /\ ViewInv /\ SentInv /\ ReceivedInv
    BY DEF FramingInv
  <1>3. /\ Len(received) \in Nat /\ received \in Seq(Deliveries) /\ Len(sent) \in Nat
        /\ received = <<>> <=> Len(received) = 0
    BY Counts
  <1>4. /\ received' \in Seq(Deliveries) /\ Len(received') = Len(received) + 1
        /\ received'[Len(received) + 1] = entry
        /\ \A i \in 1..Len(received) : received'[i] = received[i]
    BY <1>3, AppendProperties
  <1>5. Len(received) < Len(sent)
    BY Taking
  <1>6. TypesInv'
    <2>1. wire' \in Seq(Nat) /\ Len(wire') <= Window
      BY Taking
    <2>2. unit' \in Seq(Nat) /\ Len(unit') = 0 /\ Need' = 2
      BY DEF Need, LengthCells
    <2> QED
      BY <1>1, <1>2, <1>4, <2>1, <2>2 DEF TypesInv
  <1>7. ViewInv' /\ SentInv'
    BY <1>1, <1>2 DEF ViewInv, SentInv
  <1>8. ReceivedInv'
    <2>1. Len(received') <= Len(sent') /\ received' # <<>>
      BY <1>1, <1>3, <1>4, <1>5
    <2>2. ASSUME NEW i \in 1..Len(received')
          PROVE  /\ received'[i].cells = sent'[i].cells
                 /\ IF i = 1 THEN received'[i].result = Refusal("preface")
                             ELSE \E frame \in Frames : received'[i] = DeliveryOf(frame)
      <3>1. CASE i \in 1..Len(received)
        <4>1. received'[i] = received[i]
          BY <1>4, <3>1
        <4> QED
          BY <1>1, <1>2, <3>1, <4>1 DEF ReceivedInv
      <3>2. CASE i = Len(received) + 1
        <4>1. received'[i] = entry /\ entry.cells = sent'[i].cells
          BY <1>1, <1>4, <3>2 DEF Awaited
        <4>2. i = 1 <=> received = <<>>
          BY <1>3, <3>2
        <4> QED
          BY <4>1, <4>2
      <3> QED
        BY <1>3, <1>4, <3>1, <3>2
    <2> QED
      BY <2>1, <2>2 DEF ReceivedInv
  <1>9. StreamInv'
    <2>1. Joins(<<>>, Left(n), Remaining(sent, Len(received) + 1))
      BY Taking
    <2>2. Pending' = Remaining(sent, Len(received) + 1) /\ Unsent' = Unsent
      BY <1>1, <1>4 DEF Pending, Unsent
    <2>3. Current' = <<>>
      BY DEF Current, Before
    <2> QED
      BY <1>1, <2>1, <2>2, <2>3, Zenon DEF StreamInv, Joins
  <1> QED
    BY <1>6, <1>7, <1>8, <1>9 DEF FramingInv

\* The cells of LENGTH are read as what they were written from.
LEMMA LengthRead ==
  ASSUME FramingInv, ended = "no", NEW n \in 1..Need - Len(unit), n <= Len(wire),
         stage = "length", Len(Got(n)) = Need
  PROVE  LengthCells(LengthOf(Got(n))) = Got(n)
  <1> DEFINE g == Got(n)
  <1>1. g \in Seq(Nat) /\ Len(g) = 2
    BY Taking, NeedIs
  <1>2. Before \o g = g
    <2>1. Before = <<>>
      BY CurrentTyped
    <2> HIDE DEF g
    <2>2. <<>> \o g = g
      BY <1>1, EmptyIsUnit
    <2> QED
      BY <2>1, <2>2, Zenon
  <1>3. Len(received) < Len(sent) /\ \A i \in 1..Len(g) : i <= Len(Awaited) => g[i] = Awaited[i]
    <2>1. /\ Len(received) < Len(sent)
          /\ \A i \in 1..Len(Before \o g) : i <= Len(Awaited) => (Before \o g)[i] = Awaited[i]
      BY Taking
    <2> HIDE DEF g
    <2> QED
      BY <1>2, <2>1
  <1>4. IsUnit(Awaited)
    <2>1. received # <<>>
      BY DEF FramingInv, ReceivedInv
    <2>2. Len(received) + 1 \in 1..Len(sent) /\ Len(received) + 1 # 1
      BY <1>3, <2>1, Counts
    <2> QED
      BY <2>2, SentItem DEF Awaited
  <1> HIDE DEF g
  <1>5. /\ g[1] \in Nat /\ g[2] \in Nat /\ g[1] < Base /\ g[2] < Base /\ g = <<g[1], g[2]>>
    <2>1. g[1] = Awaited[1] /\ g[2] = Awaited[2]
      BY <1>1, <1>3, <1>4 DEF IsUnit
    <2>2. Awaited[1] < Base /\ Awaited[2] < Base
      BY <1>4 DEF IsUnit
    <2>3. g[1] \in Nat /\ g[2] \in Nat
      <3>1. 1 \in 1..Len(g) /\ 2 \in 1..Len(g)
        BY <1>1
      <3> QED
        BY <1>1, <3>1, ElementOfSeq
    <2>4. g = <<g[1], g[2]>>
      BY <1>1
    <2> QED
      BY <2>1, <2>2, <2>3, <2>4
  <1>6. LengthCells(LengthOf(<<g[1], g[2]>>)) = <<g[1], g[2]>>
    BY <1>5, LengthDigits
  <1>7. LengthCells(LengthOf(g)) = g
    BY <1>5, <1>6, Zenon
  <1> QED
    BY <1>7 DEF g

\* Taken apart and put together again, a frame has the cells that were read.
LEMMA FrameRead ==
  ASSUME FramingInv, ended = "no", NEW n \in 1..Need - Len(unit), n <= Len(wire),
         stage \in {"header", "payload"},
         NEW head \in Seq(Nat), Len(head) = 2, NEW payload \in Seq(Nat),
         Len(payload) = length - 2,
         Before \o Got(n) = (LengthCells(length) \o head) \o payload
  PROVE  /\ Frame(head[1], head[2], payload) \in Frames
         /\ Serialize(Frame(head[1], head[2], payload)) = Awaited
         /\ Len(Before \o Got(n)) = Len(Awaited)
  <1> DEFINE f == Frame(head[1], head[2], payload)
             c == Before \o Got(n)
             s == Serialize(f)
  <1>1. length \in 2..2 + MaxPayload /\ MaxPayload \in Nat
    BY Sizes DEF FramingInv, TypesInv
  <1>2. length \in 0..MaxPayload + 2 /\ length = BodyHeader + Len(payload)
    BY <1>1, Sizes
  <1>3. f \in Frames /\ f.payload = payload /\ f.op = head[1] /\ f.user = head[2]
    <2>1. 1 \in 1..Len(head) /\ 2 \in 1..Len(head)
      OBVIOUS
    <2>2. head[1] \in Nat /\ head[2] \in Nat
      BY <2>1, ElementOfSeq
    <2> QED
      BY <2>2 DEF Frame, Frames
  <1>4. head = <<head[1], head[2]>>
    OBVIOUS
  <1>5. s = c
    <2>1. s = (LengthCells(length) \o <<head[1], head[2]>>) \o payload
      <3> HIDE DEF f
      <3>1. s = LengthCells(BodyHeader + Len(payload)) \o <<head[1], head[2]>> \o payload
        BY <1>3, Zenon DEF Serialize
      <3> QED
        BY <1>2, <3>1, Zenon
    <2> HIDE DEF s, c
    <2>2. s = (LengthCells(length) \o head) \o payload
      BY <1>4, <2>1, Zenon
    <2> QED
      BY <2>2, Zenon DEF c
  <1> HIDE DEF f, s, c
  <1>6. /\ s \in Seq(Nat) /\ Len(s) = 4 + Len(payload) /\ LengthOf(s) = 2 + Len(payload)
    <2>1. Len(f.payload) <= MaxPayload
      BY <1>1, <1>3
    <2> QED
      BY <1>3, <2>1, SerializeParts DEF s
  <1>7. /\ Len(received) < Len(sent)
        /\ \A i \in 1..Len(c) : i <= Len(Awaited) => c[i] = Awaited[i]
        /\ Len(c) = Len(Awaited) => c = Awaited
    BY Taking DEF c
  <1>8. IsUnit(Awaited)
    <2>1. received # <<>>
      BY DEF FramingInv, ReceivedInv
    <2>2. Len(received) + 1 \in 1..Len(sent) /\ Len(received) + 1 # 1
      BY <1>7, <2>1, Counts
    <2> QED
      BY <2>2, SentItem DEF Awaited
  <1>9. Len(payload) \in Nat
    OBVIOUS
  <1>10. LengthOf(Awaited) = 2 + Len(payload)
    <2>1. 1 \in 1..Len(c) /\ 2 \in 1..Len(c)
      BY ONLY <1>5, <1>6, <1>9
    <2>2. 1 <= Len(Awaited) /\ 2 <= Len(Awaited)
      BY <1>8 DEF IsUnit
    <2>3. c[1] = Awaited[1] /\ c[2] = Awaited[2]
      BY <1>7, <2>1, <2>2
    <2> QED
      BY <1>5, <1>6, <2>3 DEF LengthOf
  <1>11. Len(Awaited) = Len(c)
    <2>1. LengthOf(Awaited) - BodyHeader \in 0..MaxPayload
      BY <1>1, <1>2, <1>9, <1>10, Sizes
    <2>2. Len(Awaited) = 2 + LengthOf(Awaited)
      BY <1>8, <2>1 DEF IsUnit
    <2> QED
      BY <1>5, <1>6, <1>9, <1>10, <2>2
  <1> QED
    BY <1>3, <1>5, <1>7, <1>11 DEF s, c, f

\* What a recv may show on the outside.
Outcome ==
  \/ received' = received /\ ended' \in {"no", "invalid"}
  \/ /\ Len(received) < Len(sent) /\ ended' = "no"
     /\ \E entry : entry.cells = Awaited /\ received' = Append(received, entry)

LEMMA ReceiveSomeKeeps ==
  ASSUME FramingInv, ReceiveSome
  PROVE  FramingInv' /\ Outcome
  <1>1. ended = "no" /\ UNCHANGED senderVars
    BY DEF ReceiveSome
  <1>2. PICK n \in 1..Need - Len(unit) :
          /\ n <= Len(wire) /\ wire' = Left(n)
          /\ IF Len(Got(n)) < Need
             THEN unit' = Got(n) /\ UNCHANGED <<stage, length, header, received, ended>>
             ELSE unit' = <<>> /\ Complete(Got(n))
    BY DEF ReceiveSome, Left, Got
  <1> DEFINE g == Got(n)
  <1>3. TypesInv /\ ReceivedInv
    BY DEF FramingInv
  <1>4. /\ stage \in {"preface", "length", "header", "payload"}
        /\ stage \in {"header", "payload"} => length \in 2..2 + MaxPayload
        /\ length \in {0} \cup 2..2 + MaxPayload
        /\ stage \in {"header", "payload"} => length # 0
        /\ IF stage = "payload" THEN header \in Seq(Nat) /\ Len(header) = 2 /\ length > 2
                                ELSE header = <<>>
        /\ stage = "preface" <=> received = <<>>
    BY <1>3 DEF TypesInv, ReceivedInv
  <1>5. /\ g \in Seq(Nat) /\ Len(g) \in 1..Need /\ Need \in Nat
        /\ Before \o g \in Seq(Nat) /\ Len(Before \o g) = Len(Before) + Len(g)
        /\ Len(received) < Len(sent)
    BY <1>1, <1>2, Taking, NeedIs
  <1>6. MaxPayload \in Nat /\ BodyHeader = 2
    BY Sizes
  <1>7. ASSUME Len(g) < Need,
               unit' = g /\ UNCHANGED <<stage, length, header, received, ended>>
        PROVE  FramingInv' /\ Outcome
    <2>1. Current' = Before \o g /\ Need' = Need
      BY <1>7 DEF Current, Before, Need
    <2> HIDE DEF g
    <2>2. FramingInv'
      BY <1>1, <1>2, <1>4, <1>5, <1>7, <2>1, ReadingKeeps DEF g
    <2> QED
      BY <1>1, <1>7, <2>2 DEF Outcome
  <1>8. ASSUME Len(g) = Need, unit' = <<>>, Complete(g)
        PROVE  FramingInv' /\ Outcome
    <2>1. CASE Refuse
      <3>1. /\ ended' = "invalid" /\ stage' = stage /\ length' = length /\ header' = header
            /\ received' = received
        BY <2>1 DEF Refuse
      <3>2. TypesInv'
        <4>1. wire' \in Seq(Nat) /\ Len(wire') <= Window
          BY <1>1, <1>2, Taking
        <4>2. unit' \in Seq(Nat) /\ Len(unit') < Need'
          <5>1. Need' = Need /\ Need > 0
            BY <3>1, NeedIs DEF Need
          <5> QED
            BY <1>5, <1>8, <5>1
        <4> QED
          BY <1>1, <1>3, <3>1, <4>1, <4>2 DEF TypesInv, senderVars
      <3>3. ViewInv' /\ SentInv' /\ ReceivedInv' /\ StreamInv'
        BY <1>1, <3>1 DEF ViewInv, SentInv, ReceivedInv, StreamInv, FramingInv, senderVars
      <3> QED
        BY <3>1, <3>2, <3>3 DEF FramingInv, Outcome
    <2>2. CASE /\ stage = "preface" /\ ValidPreface(g)
               /\ received' = Append(received, [cells |-> g, result |-> Refusal("preface")])
               /\ stage' = "length" /\ UNCHANGED <<length, header, ended>>
      <3> DEFINE entry == [cells |-> g, result |-> Refusal("preface")]
      <3>1. received = <<>> /\ Need = 3
        BY <1>4, <2>2, NeedIs
      <3>2. Before \o g = g
        <4>1. Before = <<>>
          BY <2>2, CurrentTyped
        <4>2. <<>> \o g = g
          <5>1. g \in Seq(Nat)
            BY <1>5
          <5> HIDE DEF g
          <5> QED
            BY <5>1, EmptyIsUnit
        <4> QED
          BY <4>1, <4>2, Zenon
      <3>3. Len(Awaited) = 3
        <4>1. Len(received) + 1 = 1 /\ 1 \in 1..Len(sent)
          BY <1>5, <3>1, Counts
        <4> QED
          BY <4>1, SentItem DEF Awaited
      <3>4. Len(Before \o g) = Len(Awaited)
        BY <1>8, <3>1, <3>2, <3>3
      <3>5. g = Awaited
        BY <1>1, <1>2, <3>2, <3>4, Taking
      <3>6. entry \in Deliveries /\ entry.cells = Awaited /\ entry.result = Refusal("preface")
        BY <1>5, <3>5 DEF Deliveries, Greeting
      <3>7. /\ received' = Append(received, entry) /\ stage' = "length" /\ ended' = ended
            /\ length' \in {0} \cup 2..2 + MaxPayload /\ header' = <<>>
        BY <1>4, <2>2
      <3> HIDE DEF entry, g
      <3>8. FramingInv'
        BY <1>1, <1>2, <1>8, <3>1, <3>4, <3>6, <3>7, DeliveredKeeps DEF g
      <3> QED
        BY <1>1, <1>5, <3>6, <3>7, <3>8 DEF Outcome
    <2>3. CASE /\ stage = "length" /\ LengthOf(g) - BodyHeader \in 0..MaxPayload
               /\ stage' = "header" /\ length' = LengthOf(g)
               /\ UNCHANGED <<header, received, ended>>
      <3>1. LengthCells(LengthOf(g)) = g
        BY <1>1, <1>2, <1>8, <2>3, LengthRead
      <3>2. Current' = Before \o g
        <4>1. Before = <<>>
          BY <2>3, CurrentTyped
        <4>2. Current' = g \o <<>>
          BY <1>8, <2>3, <3>1 DEF Current, Before
        <4>3. g \in Seq(Nat)
          BY <1>5
        <4> HIDE DEF g
        <4>4. g \o <<>> = g /\ <<>> \o g = g
          BY <4>3, EmptyIsUnit
        <4> QED
          BY <4>1, <4>2, <4>4, Zenon
      <3>3. LengthOf(g) \in 2..2 + MaxPayload
        <4>1. g[1] \in Nat /\ g[2] \in Nat
          <5>1. Len(g) = 2
            BY <1>8, <2>3, NeedIs
          <5>2. 1 \in 1..Len(g) /\ 2 \in 1..Len(g)
            BY <5>1
          <5> QED
            BY <1>5, <5>2, ElementOfSeq
        <4>2. LengthOf(g) \in Nat
          BY <4>1, Sizes DEF LengthOf
        <4> QED
          BY <1>6, <2>3, <4>2
      <3>4. unit' \in Seq(Nat) /\ Len(unit') < Need'
        BY <1>6, <1>8, <2>3 DEF Need
      <3> HIDE DEF g
      <3>5. FramingInv'
        <4>1. length' \in {0} \cup 2..2 + MaxPayload /\ length' # 0
          BY <1>6, <2>3, <3>3
        <4>2. header' = <<>> /\ stage # "preface" /\ stage' = "header"
          BY <1>4, <2>3
        <4> QED
          BY <1>1, <1>2, <2>3, <3>2, <3>4, <4>1, <4>2, ReadingKeeps DEF g
      <3> QED
        BY <1>1, <2>3, <3>5 DEF Outcome
    <2>4. CASE /\ stage = "header" /\ length > BodyHeader
               /\ stage' = "payload" /\ header' = g
               /\ UNCHANGED <<length, received, ended>>
      <3>1. Current' = Before \o g
        <4>1. Before = LengthCells(length)
          BY <2>4, CurrentTyped
        <4>2. Current' = (Before \o g) \o <<>>
          BY <1>8, <2>4, <4>1 DEF Current, Before
        <4> DEFINE c == Before \o g
        <4>3. c \in Seq(Nat)
          BY <1>5
        <4> HIDE DEF c
        <4>4. c \o <<>> = c
          BY <4>3, EmptyIsUnit
        <4> QED
          BY <4>2, <4>4, Zenon DEF c
      <3>2. Len(g) = 2
        BY <1>8, <2>4, NeedIs
      <3>3. unit' \in Seq(Nat) /\ Len(unit') < Need'
        BY <1>4, <1>6, <1>8, <2>4 DEF Need
      <3> HIDE DEF g
      <3>4. FramingInv'
        BY <1>1, <1>2, <1>4, <1>5, <1>6, <2>4, <3>1, <3>2, <3>3, ReadingKeeps DEF g
      <3> QED
        BY <1>1, <2>4, <3>4 DEF Outcome
    <2>5. ASSUME NEW head \in Seq(Nat), Len(head) = 2, NEW payload \in Seq(Nat),
                 Len(payload) = length - 2, stage \in {"header", "payload"},
                 Before \o g = (LengthCells(length) \o head) \o payload,
                 Deliver(head, payload)
          PROVE  FramingInv' /\ Outcome
      <3> DEFINE frame == Frame(head[1], head[2], payload)
                 entry == DeliveryOf(frame)
      <3>1. /\ received' = Append(received, entry) /\ stage' = "length" /\ ended' = ended
            /\ length' = 0 /\ header' = <<>>
        BY <2>5 DEF Deliver, DeliveryOf
      <3>2. frame \in Frames /\ Serialize(frame) = Awaited /\ Len(Before \o g) = Len(Awaited)
        BY <1>1, <1>2, <2>5, FrameRead
      <3> HIDE DEF frame
      <3>3. entry \in Deliveries /\ entry.cells = Awaited
        BY <3>2 DEF Deliveries, DeliveryOf
      <3>4. received # <<>>
        BY <1>4, <2>5
      <3>5. \E f \in Frames : entry = DeliveryOf(f)
        BY <3>2
      <3> HIDE DEF entry, g
      <3>6. FramingInv'
        BY <1>1, <1>2, <1>8, <3>1, <3>2, <3>3, <3>4, <3>5, DeliveredKeeps DEF g
      <3> QED
        BY <1>1, <1>5, <3>1, <3>3, <3>6 DEF Outcome
    <2>6. CASE stage = "header" /\ length = BodyHeader /\ Deliver(g, <<>>)
      <3>1. Before = LengthCells(length) /\ Len(g) = 2
        BY <1>8, <2>6, CurrentTyped, NeedIs
      <3> DEFINE c == Before \o g
      <3>2. c \in Seq(Nat)
        BY <1>5
      <3> HIDE DEF c
      <3>3. c \o <<>> = c
        BY <3>2, EmptyIsUnit
      <3>4. Before \o g = (LengthCells(length) \o g) \o <<>>
        BY <3>1, <3>3, Zenon DEF c
      <3>5. <<>> \in Seq(Nat) /\ Len(<<>>) = length - 2
        BY <1>6, <2>6
      <3> QED
        BY <1>5, <2>5, <2>6, <3>1, <3>4, <3>5
    <2>7. CASE stage = "payload" /\ Deliver(header, g)
      <3>1. Before = LengthCells(length) \o header /\ Len(g) = length - 2
        BY <1>8, <2>7, CurrentTyped, NeedIs
      <3> QED
        BY <1>4, <1>5, <2>5, <2>7, <3>1
    <2> QED
      BY <1>8, <2>1, <2>2, <2>3, <2>4, <2>6, <2>7 DEF Complete
  <1> QED
    BY <1>2, <1>5, <1>7, <1>8

\* At every moment of a connection that has not ended, the cells read of the next unit,
\* those on the wire and those the sender still has make up exactly the units that were
\* sent and not delivered: no step of send_all or recv_exact loses, repeats or moves one.
THEOREM FramingInvAlways ==
  Spec => []FramingInv
  <1>1. Init => FramingInv
    BY InitKeeps
  <1>2. FramingInv /\ [Next]_vars => FramingInv'
    <2> SUFFICES ASSUME FramingInv, [Next]_vars PROVE FramingInv'
      OBVIOUS
    <2>1. CASE SendFrame
      BY <2>1, SendFrameKeeps
    <2>2. CASE SendSome
      BY <2>2, SendSomeKeeps
    <2>3. CASE StopSending
      BY <2>3, StopSendingKeeps
    <2>4. CASE ReceiveSome
      BY <2>4, ReceiveSomeKeeps
    <2>5. CASE ReceiveEnd
      BY <2>5, EndKeeps DEF ReceiveEnd
    <2>6. CASE ReceiveFails
      BY <2>6, EndKeeps DEF ReceiveFails
    <2>7. CASE UNCHANGED vars
      BY <2>7, StutterKeeps
    <2> QED
      BY <2>1, <2>2, <2>3, <2>4, <2>5, <2>6, <2>7 DEF Next
  <1> QED
    BY <1>1, <1>2, PTL DEF Spec

--------------------------------------------------------------------------------
(* Theorems. *)

\* Every variable keeps its range: in particular no unit is ever held beyond its end, and
\* the body header is kept exactly while its payload is read.
THEOREM FramingTypesAlways ==
  Spec => []TypeOK
  <1>1. FramingInv => TypeOK
    <2> SUFFICES ASSUME FramingInv PROVE TypeOK
      OBVIOUS
    <2>1. TypesInv /\ MaxPayload \in Nat /\ BodyHeader = 2
      BY Sizes DEF FramingInv
    <2>2. length \in {0} \cup BodyHeader..BodyHeader + MaxPayload
      BY <2>1 DEF TypesInv
    <2>3. stage = "payload" <=> header # <<>>
      <3>1. CASE stage = "payload"
        <4>1. Len(header) = 2
          BY <2>1, <3>1 DEF TypesInv
        <4>2. Len(<<>>) = 0
          OBVIOUS
        <4> QED
          BY <3>1, <4>1, <4>2
      <3>2. CASE stage # "payload"
        BY <2>1, <3>2 DEF TypesInv
      <3> QED
        BY <3>1, <3>2
    <2> QED
      BY <2>1, <2>2, <2>3 DEF TypesInv, TypeOK
  <1> QED
    BY <1>1, FramingInvAlways, PTL

LEMMA SerializeSize ==
  ASSUME NEW frame \in Frames
  PROVE  frame.payload \in Seq(Nat) /\ Len(Serialize(frame)) = 4 + Len(frame.payload)
  <1> DEFINE p == frame.payload
             n == BodyHeader + Len(p)
             L == LengthCells(n)
             H == <<frame.op, frame.user>>
             LH == L \o H
  <1>1. p \in Seq(Nat) /\ frame.op \in Nat /\ frame.user \in Nat
    BY DEF Frames
  <1>2. n \in Nat
    BY <1>1, Sizes
  <1> HIDE DEF n
  <1>3. L \in Seq(Nat) /\ Len(L) = 2
    BY <1>2, Divided DEF LengthCells
  <1>4. H \in Seq(Nat) /\ Len(H) = 2
    BY <1>1
  <1> HIDE DEF L, H, p
  <1>5. LH \in Seq(Nat) /\ Len(LH) = 4
    <2>1. L \in Seq(Nat)
      BY <1>3
    <2>2. H \in Seq(Nat)
      BY <1>4
    <2>3. LH \in Seq(Nat) /\ Len(LH) = Len(L) + Len(H)
      BY <2>1, <2>2
    <2> QED
      BY <1>3, <1>4, <2>3
  <1> HIDE DEF LH
  <1>6. Len(LH \o p) = 4 + Len(p)
    <2>1. LH \in Seq(Nat)
      BY <1>5
    <2>2. p \in Seq(Nat)
      BY <1>1
    <2>3. Len(LH \o p) = Len(LH) + Len(p)
      BY <2>1, <2>2
    <2> QED
      BY <1>5, <2>3
  <1>7. Serialize(frame) = LH \o p
    BY DEF Serialize, LH, L, H, n, p
  <1> QED
    BY <1>1, <1>6, <1>7 DEF p

\* Whatever a sender's make_* function did not refuse is what the receiver's parser
\* returns for it, on every connection, however the stream was cut.
THEOREM MessagesSurviveAlways ==
  Spec => []MessagesSurvive
  <1>1. FramingInv => MessagesSurvive
    <2> SUFFICES ASSUME FramingInv, NEW i \in DOMAIN received, IsOwn(script[sent[i].by])
                 PROVE  received[i].result = script[sent[i].by].message
      BY DEF MessagesSurvive
    <2> DEFINE item == script[sent[i].by]
               m == item.message
               own == Frame(m.op, item.user, Payload(m))
    <2>1. i \in 1..Len(received) /\ i \in 1..Len(sent)
      BY Counts
    <2>2. /\ i # 1 /\ sent[i].cells = CellsOf(item)
          /\ Makeable(m, item.user) /\ IsCall(m) /\ item.user \in Nat
      BY <2>1, SentItem
    <2>3. PICK frame \in Frames : received[i] = DeliveryOf(frame)
      BY <2>1, <2>2 DEF FramingInv, ReceivedInv
    <2>4. received[i].cells = sent[i].cells
      BY <2>1 DEF FramingInv, ReceivedInv
    <2>5. Serialize(frame) = Serialize(own)
      <3>1. received[i].cells = Serialize(frame)
        BY <2>3 DEF DeliveryOf
      <3>2. CellsOf(item) = Serialize(own)
        BY DEF CellsOf
      <3> QED
        BY <2>2, <2>4, <3>1, <3>2
    <2>6. own \in Frames
      <3> DEFINE user == item.user
      <3>1. IsCall(m) /\ user \in Nat
        BY <2>2
      <3> HIDE DEF m, user
      <3> QED
        BY <3>1, OwnFrame DEF user
    <2>7. Len(own.payload) <= MaxPayload
      BY <2>2 DEF Makeable, Frame
    <2>8. received[i].result = Decode(frame)
      BY <2>3 DEF DeliveryOf
    <2> HIDE DEF own
    <2>9. Len(frame.payload) = Len(own.payload)
      <3>1. Len(Serialize(frame)) = 4 + Len(frame.payload) /\ frame.payload \in Seq(Nat)
        BY SerializeSize
      <3>2. Len(Serialize(own)) = 4 + Len(own.payload) /\ own.payload \in Seq(Nat)
        BY <2>6, SerializeSize
      <3> QED
        BY <2>5, <3>1, <3>2
    <2>10. frame = own
      BY <2>5, <2>6, <2>7, <2>9, SerializeInjective
    <2>11. Decode(own) = m
      BY <2>2, PayloadRoundTrip DEF own
    <2> QED
      BY <2>8, <2>10, <2>11
  <1> QED
    BY <1>1, FramingInvAlways, PTL

\* A payload that is accepted is, cell for cell, what make_* writes for the message it was
\* read as: nothing is cut off, left over or out of range, whoever the sender was.
THEOREM AcceptedIsCanonicalAlways ==
  Spec => []AcceptedIsCanonical
  <1>1. FramingInv => AcceptedIsCanonical
    <2> DEFINE result(i) == received[i].result
               user(i) == received[i].cells[4]
    <2> SUFFICES ASSUME FramingInv, NEW i \in DOMAIN received, IsMessage(result(i))
                 PROVE  /\ Makeable(result(i), user(i))
                        /\ received[i].cells =
                             Serialize(Frame(result(i).op, user(i), Payload(result(i))))
      BY DEF AcceptedIsCanonical
    <2> DEFINE m == received[i].result
    <2>1. i \in 1..Len(received)
      BY Counts
    <2>2. i # 1
      <3>1. SUFFICES ASSUME i = 1 PROVE FALSE
        OBVIOUS
      <3>2. m = Refusal("preface")
        BY <2>1, <3>1 DEF FramingInv, ReceivedInv
      <3> QED
        BY <3>2 DEF IsMessage, Refusal
    <2>3. PICK frame \in Frames : received[i] = DeliveryOf(frame)
      BY <2>1, <2>2 DEF FramingInv, ReceivedInv
    <2> DEFINE op == frame.op
               id == frame.user
               p == frame.payload
    <2>4. /\ frame = Frame(op, id, p) /\ op \in Nat /\ id \in Nat /\ p \in Seq(Nat)
      BY DEF Frames, Frame
    <2>5. received[i].cells = Serialize(frame) /\ m = Decode(frame) /\ IsMessage(m)
      BY <2>3 DEF DeliveryOf
    <2> HIDE DEF op, id, p, m
    <2>6. IsMessage(Decode(Frame(op, id, p))) /\ m = Decode(Frame(op, id, p))
      BY <2>4, <2>5
    <2>7. m.op = op /\ Makeable(m, id) /\ Payload(m) = p
      BY <2>4, <2>6, PayloadCanonical
    <2>8. Len(p) <= MaxPayload
      BY <2>7 DEF Makeable
    <2>9. Serialize(frame)[4] = id
      BY <2>8, SerializeParts DEF p, id
    <2> QED
      BY <2>4, <2>5, <2>7, <2>9 DEF m
  <1> QED
    BY <1>1, FramingInvAlways, PTL

\* An orderly end is only reported when nothing that was sent is missing.
LEMMA NothingMissing ==
  ASSUME FramingInv, ReceiveEnd, ended' = "closed"
  PROVE  Len(received) = Len(sent)
  <1>1. /\ ended = "no" /\ wire = <<>> /\ stage \in {"preface", "length"} /\ unit = <<>>
    BY DEF ReceiveEnd
  <1>2. Current = <<>> /\ Current \o wire = <<>>
    <2>1. Before = <<>>
      BY <1>1, CurrentTyped
    <2> QED
      BY <1>1, <2>1 DEF Current
  <1>3. PICK m : Cut(Current, wire, Pending, m)
    BY <1>1, Zenon DEF FramingInv, StreamInv, Joins
  <1>4. /\ m \in Seq(Nat) /\ (Current \o wire) \o m = FlattenSeq(Pending)
        /\ Pending # <<>> => Len(m) < Len(Pending[Len(Pending)])
    BY <1>3, Zenon DEF Cut
  <1>5. m = FlattenSeq(Pending)
    <2>1. m \in Seq(Nat)
      BY <1>4
    <2>2. <<>> \o m = m
      BY <2>1, EmptyIsUnit
    <2> QED
      BY <1>2, <1>4, <2>2, Zenon
  <1>6. Pending = <<>>
    <2> SUFFICES ASSUME Pending # <<>> PROVE FALSE
      OBVIOUS
    <2> DEFINE f == FlattenSeq(Pending)
               last == Pending[Len(Pending)]
    <2>1. Pending \in Seq(Seq(Nat))
      BY PendingTyped
    <2>2. Len(f) >= Len(last)
      BY <2>1, LastFits
    <2>3. Len(f) < Len(last) /\ f \in Seq(Nat)
      BY <1>4, <1>5
    <2>4. last \in Seq(Nat)
      <3>1. Len(Pending) \in 1..Len(Pending)
        BY <2>1
      <3> QED
        BY <2>1, <3>1, ElementOfSeq
    <2> HIDE DEF f, last
    <2>5. Len(f) \in Nat /\ Len(last) \in Nat
      BY <2>3, <2>4
    <2> QED
      BY <2>2, <2>3, <2>5
  <1>7. Len(Pending) = 0
    BY <1>6
  <1> QED
    BY <1>7, PendingTyped, Counts

CellsIn(s) == [i \in DOMAIN s |-> s[i].cells]

LEMMA CellsInTyped ==
  ASSUME NEW S, NEW s \in Seq(S)
  PROVE  /\ Len(CellsIn(s)) = Len(s) /\ CellsIn(s) \in Seq({s[i].cells : i \in DOMAIN s})
         /\ DOMAIN CellsIn(s) = 1..Len(s)
         /\ \A i \in 1..Len(s) : CellsIn(s)[i] = s[i].cells
  <1>1. DOMAIN s = 1..Len(s) /\ Len(s) \in Nat
    OBVIOUS
  <1> DEFINE C == {s[i].cells : i \in DOMAIN s}
             N == Len(s)
             c == CellsIn(s)
  <1>2. c = [i \in 1..N |-> s[i].cells] /\ \A i \in 1..N : s[i].cells \in C
    BY <1>1 DEF CellsIn
  <1>3. N \in Nat
    BY <1>1
  <1> HIDE DEF C, N, c
  <1>4. c \in Seq(C) /\ Len(c) = N /\ DOMAIN c = 1..N /\ \A i \in 1..N : c[i] = s[i].cells
    BY <1>2, <1>3
  <1> QED
    BY <1>4 DEF C, N, c

LEMMA CellsInAppend ==
  ASSUME NEW S, NEW s \in Seq(S), NEW e
  PROVE  CellsIn(Append(s, e)) = Append(CellsIn(s), e.cells)
  <1> DEFINE T == S \cup {e}
             a == Append(s, e)
             x == CellsIn(a)
             y == CellsIn(s)
             c == e.cells
             b == Append(y, c)
             N == Len(s)
  <1>1. s \in Seq(T) /\ e \in T /\ N \in Nat
    OBVIOUS
  <1> HIDE DEF T
  <1>2. /\ a \in Seq(T) /\ Len(a) = N + 1 /\ a[N + 1] = e
        /\ \A i \in 1..N : a[i] = s[i]
    BY <1>1, AppendProperties
  <1> HIDE DEF a
  <1>3. /\ Len(x) = N + 1 /\ x \in Seq({a[i].cells : i \in DOMAIN a})
        /\ \A i \in 1..N + 1 : x[i] = a[i].cells
    BY <1>2, CellsInTyped, Zenon
  <1>4. /\ Len(y) = N /\ y \in Seq({s[i].cells : i \in DOMAIN s})
        /\ \A i \in 1..N : y[i] = s[i].cells
    BY <1>1, CellsInTyped, Zenon
  <1> DEFINE C == {a[i].cells : i \in DOMAIN a} \cup {s[i].cells : i \in DOMAIN s} \cup {c}
  <1>5. x \in Seq(C) /\ y \in Seq(C) /\ c \in C
    <2>1. \A A, B : A \subseteq B => Seq(A) \subseteq Seq(B)
      OBVIOUS
    <2>2. {a[i].cells : i \in DOMAIN a} \subseteq C /\ {s[i].cells : i \in DOMAIN s} \subseteq C
      OBVIOUS
    <2> HIDE DEF C
    <2>3. c \in C
      BY DEF C
    <2> QED
      BY <1>3, <1>4, <2>1, <2>2, <2>3, Zenon
  <1> HIDE DEF C, x, y, c
  <1>6. /\ b \in Seq(C) /\ Len(b) = N + 1 /\ b[N + 1] = c /\ \A i \in 1..N : b[i] = y[i]
    BY <1>4, <1>5, AppendProperties
  <1> HIDE DEF b, N
  <1>7. \A i \in 1..N + 1 : x[i] = b[i]
    <2>1. \A i \in 1..N + 1 : i \in 1..N \/ i = N + 1
      BY <1>1
    <2>2. \A i \in 1..N : i \in 1..N + 1
      BY <1>1
    <2>3. ASSUME NEW i \in 1..N PROVE x[i] = b[i]
      <3>1. x[i] = a[i].cells /\ a[i] = s[i]
        BY <1>2, <1>3, <2>2
      <3>2. y[i] = s[i].cells /\ b[i] = y[i]
        BY <1>4, <1>6
      <3> QED
        BY ONLY <3>1, <3>2
    <2>4. x[N + 1] = b[N + 1]
      <3>1. N + 1 \in 1..N + 1
        BY <1>1
      <3>2. x[N + 1] = a[N + 1].cells
        BY <1>3, <3>1, Zenon
      <3> QED
        BY <1>2, <1>6, <3>2, Zenon DEF c
    <2> QED
      BY <2>1, <2>3, <2>4, Zenon
  <1>8. x = b
    BY <1>3, <1>5, <1>6, <1>7, SeqEqual
  <1> QED
    BY <1>8 DEF x, a, b, y, c

LEMMA ChannelSend ==
  ASSUME FramingInv, SendSome
  PROVE  Channel!Send \/ UNCHANGED <<CellsIn(sent), CellsIn(received), ended>>
  <1>1. received' = received /\ ended' = ended
    BY DEF SendSome, receiverVars
  <1>2. sent' = IF bytesSent = 0 THEN Append(sent, [cells |-> view, by |-> next - 1]) ELSE sent
    BY DEF SendSome
  <1>3. sent \in Seq(Sendings)
    BY Counts, Zenon
  <1> DEFINE s == CellsIn(sent)
             C == {sent[i].cells : i \in DOMAIN sent} \cup {view}
  <1>4. CASE bytesSent = 0
    <2> DEFINE entry == [cells |-> view, by |-> next - 1]
    <2>1. sent' = Append(sent, entry) /\ entry.cells = view
      BY <1>2, <1>4
    <2> HIDE DEF entry
    <2>2. CellsIn(sent') = Append(s, view)
      BY <1>3, <2>1, CellsInAppend
    <2>3. s \in Seq({sent[i].cells : i \in DOMAIN sent})
      BY <1>3, CellsInTyped
    <2>4. s \in Seq(C) /\ view \in C
      <3>1. \A A, B : A \subseteq B => Seq(A) \subseteq Seq(B)
        OBVIOUS
      <3>2. {sent[i].cells : i \in DOMAIN sent} \subseteq C /\ view \in C
        OBVIOUS
      <3> HIDE DEF C
      <3> QED
        BY <2>3, <3>1, <3>2, Zenon
    <2> HIDE DEF s, C
    <2>5. Len(Append(s, view)) = Len(s) + 1 /\ SubSeq(Append(s, view), 1, Len(s)) = s
      BY <2>4
    <2>6. Len(CellsIn(sent')) = Len(s) + 1 /\ SubSeq(CellsIn(sent'), 1, Len(s)) = s
      BY <2>2, <2>5, Zenon
    <2> QED
      BY <1>1, <2>6 DEF Channel!Send, CellsIn, s
  <1>5. CASE bytesSent # 0
    BY <1>1, <1>2, <1>5 DEF CellsIn
  <1> QED
    BY <1>4, <1>5

LEMMA ChannelReceive ==
  ASSUME FramingInv, ReceiveSome
  PROVE  \/ Channel!Receive \/ Channel!Fail
         \/ UNCHANGED <<CellsIn(sent), CellsIn(received), ended>>
  <1>1. sent' = sent /\ ended = "no"
    BY DEF ReceiveSome, senderVars
  <1>2. Outcome
    BY ReceiveSomeKeeps
  <1>3. CASE received' = received /\ ended' \in {"no", "invalid"}
    BY <1>1, <1>3 DEF Channel!Fail, CellsIn
  <1>4. ASSUME Len(received) < Len(sent), ended' = "no",
               NEW entry, entry.cells = Awaited, received' = Append(received, entry)
        PROVE  Channel!Receive
    <2>1. CellsIn(received') = Append(CellsIn(received), Awaited)
      BY <1>4, Counts, CellsInAppend
    <2>2. /\ Len(CellsIn(received)) = Len(received) /\ Len(CellsIn(sent)) = Len(sent)
          /\ \A i \in 1..Len(sent) : CellsIn(sent)[i] = sent[i].cells
      BY Counts, CellsInTyped
    <2>3. Len(received) + 1 \in 1..Len(sent)
      BY <1>4, Counts
    <2>4. CellsIn(sent)[Len(CellsIn(received)) + 1] = Awaited
      BY <2>2, <2>3 DEF Awaited
    <2> QED
      BY <1>1, <1>4, <2>1, <2>2, <2>4 DEF Channel!Receive, CellsIn
  <1> QED
    BY <1>2, <1>3, <1>4 DEF Outcome

LEMMA ChannelEnd ==
  ASSUME FramingInv, ReceiveEnd
  PROVE  Channel!End \/ Channel!Fail
  <1>1. /\ sent' = sent /\ received' = received /\ ended = "no"
        /\ ended' \in {"closed", "invalid"}
    BY DEF ReceiveEnd, senderVars
  <1>2. CASE ended' = "invalid"
    BY <1>1, <1>2 DEF Channel!Fail
  <1>3. CASE ended' = "closed"
    <2>1. Len(received) = Len(sent)
      BY <1>3, NothingMissing
    <2>2. /\ Len(sent) \in Nat /\ sent \in Seq(Sendings) /\ received \in Seq(Deliveries)
          /\ \A i \in 1..Len(received) : received[i].cells = sent[i].cells
      BY Counts DEF FramingInv, ReceivedInv
    <2>3. DOMAIN received = 1..Len(sent) /\ DOMAIN sent = 1..Len(sent)
      BY <2>1, <2>2
    <2>4. CellsIn(received) = CellsIn(sent)
      BY <2>1, <2>2, <2>3 DEF CellsIn
    <2> QED
      BY <1>1, <1>3, <2>4 DEF Channel!End, CellsIn
  <1> QED
    BY <1>1, <1>2, <1>3

\* However the kernel cuts the stream and wherever it breaks, units arrive whole, in order
\* and at most once, and an orderly end means that nothing sent is missing.
THEOREM FramingImplementsFrameChannel ==
  Spec => ImplementsFrameChannel
  <1>1. Init => Channel!Init
    BY DEF Init, Channel!Init
  <1>2. FramingInv /\ [Next]_vars =>
          [Channel!Next]_<<[i \in DOMAIN sent |-> sent[i].cells],
                           [i \in DOMAIN received |-> received[i].cells], ended>>
    <2> SUFFICES ASSUME FramingInv, [Next]_vars
                 PROVE  Channel!Next \/ UNCHANGED <<CellsIn(sent), CellsIn(received), ended>>
      BY DEF CellsIn
    <2>1. CASE SendFrame
      BY <2>1 DEF SendFrame, receiverVars, CellsIn
    <2>2. CASE SendSome
      BY <2>2, ChannelSend DEF Channel!Next
    <2>3. CASE StopSending
      BY <2>3 DEF StopSending, receiverVars, CellsIn
    <2>4. CASE ReceiveSome
      BY <2>4, ChannelReceive DEF Channel!Next
    <2>5. CASE ReceiveEnd
      BY <2>5, ChannelEnd DEF Channel!Next
    <2>6. CASE ReceiveFails
      BY <2>6 DEF ReceiveFails, senderVars, Channel!Next, Channel!Fail, CellsIn
    <2>7. CASE UNCHANGED vars
      BY <2>7 DEF vars, senderVars, receiverVars, CellsIn
    <2> QED
      BY <2>1, <2>2, <2>3, <2>4, <2>5, <2>6, <2>7 DEF Next
  <1> QED
    BY <1>1, <1>2, FramingInvAlways, PTL DEF Spec, ImplementsFrameChannel, Channel!Spec
================================================================================
