------------------------------- MODULE Lemmas -------------------------------
(***************************************************************************)
(* Lemmas several proofs rest on: what a list of things left to do holds   *)
(* (Games, Sessions), and induction on the naturals, stated of a set, with *)
(* the two kinds of recursive function it gives: the one a fold from the   *)
(* left is chosen by, and one on the length of a prefix (Match, Encoding). *)
(***************************************************************************)
EXTENDS Integers, Sequences, FiniteSetsExt, WellFoundedInduction, TLAPS

----------------------------------------------------------------------------
(* Lists.                                                                  *)

Holds(s, e) == \E i \in DOMAIN s : s[i] = e

LEMMA HeadOrTail ==
  ASSUME NEW S, NEW s \in Seq(S), s # <<>>, NEW e
  PROVE  Holds(s, e) <=> Head(s) = e \/ Holds(Tail(s), e)
<1>1. /\ Len(s) \in Nat /\ Len(s) > 0 /\ DOMAIN s = 1 .. Len(s)
      /\ DOMAIN Tail(s) = 1 .. Len(s) - 1
      /\ \A i \in 1 .. Len(s) - 1 : Tail(s)[i] = s[i + 1]
      /\ Head(s) = s[1]
  OBVIOUS
<1>2. ASSUME NEW i \in DOMAIN s, s[i] = e
      PROVE  Head(s) = e \/ Holds(Tail(s), e)
  <2>1. CASE i = 1
    BY <1>1, <1>2, <2>1
  <2>2. CASE i # 1
    <3>1. i - 1 \in 1 .. Len(s) - 1 /\ Tail(s)[i - 1] = s[i]
      BY <1>1, <1>2, <2>2
    <3> QED
      BY <1>1, <1>2, <3>1 DEF Holds
  <2> QED
    BY <2>1, <2>2
<1>3. ASSUME Head(s) = e PROVE Holds(s, e)
  BY <1>1, <1>3 DEF Holds
<1>4. ASSUME NEW i \in DOMAIN Tail(s), Tail(s)[i] = e PROVE Holds(s, e)
  <2>1. i + 1 \in DOMAIN s /\ s[i + 1] = e
    BY <1>1, <1>4
  <2> QED
    BY <2>1 DEF Holds
<1> QED
  BY <1>2, <1>3, <1>4 DEF Holds

LEMMA Prepended ==
  ASSUME NEW S, NEW s \in Seq(S), NEW h \in S, NEW e
  PROVE  Holds(<<h>> \o s, e) <=> h = e \/ Holds(s, e)
<1>1. <<h>> \o s \in Seq(S) /\ <<h>> \o s # <<>> /\ Head(<<h>> \o s) = h
      /\ Tail(<<h>> \o s) = s
  OBVIOUS
<1> QED
  BY <1>1, HeadOrTail

LEMMA Concatenated ==
  ASSUME NEW S, NEW r \in Seq(S), NEW s \in Seq(S), NEW e
  PROVE  /\ r \o s \in Seq(S)
         /\ Holds(r \o s, e) <=> Holds(r, e) \/ Holds(s, e)
<1>1. /\ Len(r) \in Nat /\ Len(s) \in Nat /\ Len(r \o s) = Len(r) + Len(s)
      /\ DOMAIN r = 1 .. Len(r) /\ DOMAIN s = 1 .. Len(s)
      /\ DOMAIN (r \o s) = 1 .. Len(r) + Len(s)
      /\ \A i \in 1 .. Len(r) + Len(s) :
           (r \o s)[i] = IF i <= Len(r) THEN r[i] ELSE s[i - Len(r)]
      /\ r \o s \in Seq(S)
  OBVIOUS
<1>2. ASSUME Holds(r \o s, e) PROVE Holds(r, e) \/ Holds(s, e)
  BY <1>1, <1>2 DEF Holds
<1>3. ASSUME Holds(r, e) PROVE Holds(r \o s, e)
  BY <1>1, <1>3 DEF Holds
<1>4. ASSUME NEW i \in DOMAIN s, s[i] = e PROVE Holds(r \o s, e)
  <2>1. Len(r) + i \in DOMAIN (r \o s) /\ (r \o s)[Len(r) + i] = e
    BY <1>1, <1>4
  <2> QED
    BY <2>1 DEF Holds
<1> QED
  BY <1>1, <1>2, <1>3, <1>4 DEF Holds

----------------------------------------------------------------------------
(* Induction.                                                              *)

(* Induction, stated of a set.  *)
LEMMA SetInduction ==
  ASSUME NEW S, 0 \in S, \A n \in Nat : n \in S => n + 1 \in S
  PROVE  \A n \in Nat : n \in S
<1> DEFINE T == {n \in Nat : n \notin S}
           less == OpToRel(<, Nat)
<1> SUFFICES ASSUME T # {} PROVE FALSE
  OBVIOUS
<1>1. IsWellFoundedOn(less, Nat)
  BY NatLessThanWellFounded
<1>2. \A x, y \in Nat : <<x, y>> \in less <=> x < y
  BY DEF OpToRel
<1>3. T \subseteq Nat
  OBVIOUS
<1> HIDE DEF less, T
<1>4. PICK n \in T : \A m \in T : ~(<<m, n>> \in less)
  BY <1>1, <1>3, WFMin
<1>5. n \in Nat /\ n \notin S /\ \A m \in Nat : m < n => m \in S
  BY <1>2, <1>3, <1>4 DEF T
<1>6. n # 0
  BY <1>5
<1>7. n - 1 \in Nat /\ n - 1 \in S /\ (n - 1) + 1 = n
  BY <1>5, <1>6
<1> QED
  BY <1>5, <1>7

LEMMA MaxOfSome ==
  ASSUME NEW k \in Nat, NEW s \in SUBSET (1 .. k), s # {}
  PROVE  Max(s) \in s /\ \A i \in s : i <= Max(s)
<1> DEFINE S == {n \in Nat : \A r \in SUBSET (1 .. n) : r # {} => \E x \in r : \A y \in r : x >= y}
<1>1. 0 \in S
  <2>1. 1 .. 0 = {}
    OBVIOUS
  <2> QED
    BY <2>1
<1>2. ASSUME NEW n \in Nat, n \in S PROVE n + 1 \in S
  <2> SUFFICES ASSUME NEW r \in SUBSET (1 .. n + 1), r # {}
               PROVE  \E x \in r : \A y \in r : x >= y
    OBVIOUS
  <2>1. CASE n + 1 \in r
    BY <2>1
  <2>2. CASE n + 1 \notin r
    <3>1. r \in SUBSET (1 .. n)
      BY <2>2
    <3> QED
      BY <1>2, <3>1
  <2> QED
    BY <2>1, <2>2
<1> HIDE DEF S
<1>3. k \in S
  BY <1>1, <1>2, SetInduction
<1>4. \E x \in s : \A y \in s : x >= y
  BY <1>3 DEF S
<1>5. Max(s) \in s /\ \A y \in s : Max(s) >= y
  BY <1>4 DEF Max
<1>6. s \subseteq Int
  OBVIOUS
<1> QED
  BY <1>5, <1>6

LEMMA MaxOfPrefix ==
  ASSUME NEW k \in Nat
  PROVE  Max(1 .. k + 1) = k + 1 /\ (1 .. k + 1) \ {k + 1} = 1 .. k
<1>1. 1 .. k + 1 # {}
  OBVIOUS
<1>2. Max(1 .. k + 1) \in 1 .. k + 1 /\ \A i \in 1 .. k + 1 : i <= Max(1 .. k + 1)
  <2>1. PICK n \in Nat : n = k + 1
    OBVIOUS
  <2>2. PICK s \in SUBSET (1 .. n) : s = 1 .. n
    OBVIOUS
  <2>3. Max(s) \in s /\ \A i \in s : i <= Max(s)
    BY <1>1, <2>1, <2>2, MaxOfSome
  <2> QED
    BY <2>1, <2>2, <2>3
<1>3. Max(1 .. k + 1) = k + 1
  <2> DEFINE m == Max(1 .. k + 1)
  <2>1. m \in 1 .. k + 1 /\ k + 1 <= m
    BY <1>2
  <2> HIDE DEF m
  <2>2. m = k + 1
    BY <2>1
  <2> QED
    BY <2>2 DEF m
<1>4. (1 .. k + 1) \ {k + 1} = 1 .. k
  OBVIOUS
<1> QED
  BY <1>3, <1>4

(* The function a fold from the left is defined by exists. *)
FoldRule(g, k, base, step) ==
  /\ g[{}] = base
  /\ \A s \in SUBSET (1 .. k) : s # {} => g[s] = step[Max(s)][g[s \ {Max(s)}]]

LEMMA FoldExtends ==
  ASSUME NEW T, NEW base \in T, NEW n \in Nat, NEW step \in [1 .. n -> [T -> T]],
         NEW k \in 0 .. n - 1, NEW g \in [SUBSET (1 .. k) -> T], FoldRule(g, k, base, step)
  PROVE  \E h \in [SUBSET (1 .. k + 1) -> T] : FoldRule(h, k + 1, base, step)
<1> DEFINE last == k + 1
           h == [s \in SUBSET (1 .. last) |->
                   IF last \in s THEN step[last][g[s \ {last}]] ELSE g[s]]
<1>1. /\ last \in 1 .. n
      /\ \A s \in SUBSET (1 .. last) :
           /\ s \ {last} \in SUBSET (1 .. k)
           /\ last \notin s => s \in SUBSET (1 .. k)
  OBVIOUS
<1>2. \A s \in SUBSET (1 .. last) :
        h[s] = IF last \in s THEN step[last][g[s \ {last}]] ELSE g[s]
  OBVIOUS
<1>3. h \in [SUBSET (1 .. last) -> T]
  <2>1. \A s \in SUBSET (1 .. last) : last \in s => step[last][g[s \ {last}]] \in T
    BY <1>1
  <2>2. \A s \in SUBSET (1 .. last) : last \notin s => g[s] \in T
    BY <1>1
  <2> QED
    BY <2>1, <2>2
<1>4. last \in Nat /\ \A s \in SUBSET (1 .. last) : \A i \in s : i <= last /\ i \in Int
  BY <1>1
<1> HIDE DEF h, last
<1>5. h[{}] = base
  BY <1>2 DEF FoldRule
<1>6. ASSUME NEW s \in SUBSET (1 .. last), s # {}
      PROVE  h[s] = step[Max(s)][h[s \ {Max(s)}]]
  <2>1. Max(s) \in s /\ \A i \in s : i <= Max(s)
    BY <1>4, <1>6, MaxOfSome
  <2>2. CASE last \in s
    <3>1. Max(s) = last
      <4> DEFINE m == Max(s)
      <4>1. m \in s /\ \A i \in s : i <= m
        BY <2>1
      <4> HIDE DEF m
      <4>2. m <= last /\ last <= m /\ m \in Int /\ last \in Int
        BY <1>4, <2>2, <4>1
      <4>3. m = last
        BY <4>2
      <4> QED
        BY <4>3 DEF m
    <3>2. s \ {last} \in SUBSET (1 .. last) /\ h[s \ {last}] = g[s \ {last}]
      BY <1>2
    <3> QED
      BY <1>2, <2>2, <3>1, <3>2
  <2>3. CASE last \notin s
    <3>1. /\ s \in SUBSET (1 .. k) /\ s \ {Max(s)} \in SUBSET (1 .. last)
          /\ last \notin s \ {Max(s)}
      BY <1>1, <2>3
    <3>2. h[s] = g[s] /\ h[s \ {Max(s)}] = g[s \ {Max(s)}]
      BY <1>2, <2>3, <3>1
    <3> QED
      BY <1>6, <3>1, <3>2 DEF FoldRule
  <2> QED
    BY <2>2, <2>3
<1>7. FoldRule(h, last, base, step)
  BY <1>5, <1>6 DEF FoldRule
<1> QED
  BY <1>3, <1>7 DEF last

FoldUpTo(T, k, base, step) == \E g \in [SUBSET (1 .. k) -> T] : FoldRule(g, k, base, step)

IsFold(g, n, base, step) ==
  g = [s \in SUBSET (1 .. n) |-> IF s = {} THEN base ELSE step[Max(s)][g[s \ {Max(s)}]]]

LEMMA FoldExists ==
  ASSUME NEW T, NEW base \in T, NEW n \in Nat, NEW step \in [1 .. n -> [T -> T]]
  PROVE  \E g \in [SUBSET (1 .. n) -> T] : IsFold(g, n, base, step)
<1> DEFINE S == {k \in Nat : k <= n => FoldUpTo(T, k, base, step)}
<1>1. 0 \in S
  <2>1. 1 .. 0 = {}
    OBVIOUS
  <2>2. [s \in SUBSET (1 .. 0) |-> base] \in [SUBSET (1 .. 0) -> T]
    OBVIOUS
  <2>3. FoldRule([s \in SUBSET (1 .. 0) |-> base], 0, base, step)
    BY <2>1 DEF FoldRule
  <2>4. FoldUpTo(T, 0, base, step)
    BY <2>2, <2>3 DEF FoldUpTo
  <2> QED
    BY <2>4
<1>2. ASSUME NEW k \in Nat, k \in S PROVE k + 1 \in S
  <2> SUFFICES ASSUME k + 1 <= n
               PROVE  FoldUpTo(T, k + 1, base, step)
    OBVIOUS
  <2>1. FoldUpTo(T, k, base, step)
    BY <1>2
  <2>2. PICK g \in [SUBSET (1 .. k) -> T] : FoldRule(g, k, base, step)
    BY <2>1 DEF FoldUpTo
  <2>3. k \in 0 .. n - 1
    OBVIOUS
  <2>4. \E h \in [SUBSET (1 .. k + 1) -> T] : FoldRule(h, k + 1, base, step)
    BY <2>2, <2>3, FoldExtends
  <2> QED
    BY <2>4 DEF FoldUpTo
<1> HIDE DEF S
<1>3. n \in S
  BY <1>1, <1>2, SetInduction
<1>4. PICK g \in [SUBSET (1 .. n) -> T] : FoldRule(g, n, base, step)
  <2>1. FoldUpTo(T, n, base, step)
    BY <1>3 DEF S
  <2> QED
    BY <2>1 DEF FoldUpTo
<1>5. g = [s \in SUBSET (1 .. n) |-> g[s]]
  OBVIOUS
<1>6. \A s \in SUBSET (1 .. n) : g[s] = IF s = {} THEN base ELSE step[Max(s)][g[s \ {Max(s)}]]
  BY <1>4 DEF FoldRule
<1>7. [s \in SUBSET (1 .. n) |-> g[s]] =
        [s \in SUBSET (1 .. n) |-> IF s = {} THEN base ELSE step[Max(s)][g[s \ {Max(s)}]]]
  BY <1>6
<1> QED
  BY <1>5, <1>7 DEF IsFold

(* So does a function given by its first value and each one from the last. *)
StepRule(g, lo, hi, base, step) ==
  g[lo] = base /\ \A i \in lo + 1 .. hi : g[i] = step[i][g[i - 1]]

StepsUpTo(T, lo, hi, base, step) == \E g \in [lo .. hi -> T] : StepRule(g, lo, hi, base, step)

IsRecursion(g, lo, hi, base, step) ==
  g = [i \in lo .. hi |-> IF i = lo THEN base ELSE step[i][g[i - 1]]]

LEMMA RecursionExists ==
  ASSUME NEW T, NEW base \in T, NEW lo \in Int, NEW hi \in Int, lo <= hi,
         NEW step \in [lo + 1 .. hi -> [T -> T]]
  PROVE  \E g \in [lo .. hi -> T] : IsRecursion(g, lo, hi, base, step)
<1> DEFINE S == {k \in Nat : lo + k <= hi => StepsUpTo(T, lo, lo + k, base, step)}
<1>1. 0 \in S
  <2>1. /\ [i \in lo .. lo |-> base] \in [lo .. lo -> T]
        /\ StepRule([i \in lo .. lo |-> base], lo, lo, base, step)
    BY DEF StepRule
  <2>2. StepsUpTo(T, lo, lo, base, step)
    BY <2>1 DEF StepsUpTo
  <2>3. lo + 0 = lo
    OBVIOUS
  <2> QED
    BY <2>2, <2>3
<1>2. ASSUME NEW k \in Nat, k \in S PROVE k + 1 \in S
  <2> SUFFICES ASSUME lo + (k + 1) <= hi
               PROVE  StepsUpTo(T, lo, lo + (k + 1), base, step)
    OBVIOUS
  <2>0. PICK j \in Int : j = lo + k
    OBVIOUS
  <2>1. StepsUpTo(T, lo, j, base, step)
    BY <1>2, <2>0
  <2>2. PICK g \in [lo .. j -> T] : StepRule(g, lo, j, base, step)
    BY <2>1 DEF StepsUpTo
  <2> DEFINE h == [i \in lo .. j + 1 |-> IF i = j + 1 THEN step[j + 1][g[j]] ELSE g[i]]
  <2>3. step[j + 1][g[j]] \in T
    BY <2>0
  <2>4. h \in [lo .. j + 1 -> T]
    BY <2>3
  <2>5. StepRule(h, lo, j + 1, base, step)
    <3>1. /\ lo \in lo .. j + 1 /\ j \in lo .. j + 1 /\ lo # j + 1 /\ j # j + 1
          /\ h[lo] = g[lo] /\ h[j] = g[j] /\ h[j + 1] = step[j + 1][g[j]]
      BY <2>0
    <3>2. ASSUME NEW i \in lo + 1 .. j + 1
          PROVE  h[i] = step[i][h[i - 1]]
      <4>1. CASE i = j + 1
        <5>1. i - 1 = j
          BY <2>0, <4>1
        <5> QED
          BY <3>1, <4>1, <5>1
      <4>2. CASE i # j + 1
        <5>1. /\ i \in lo + 1 .. j /\ i \in lo .. j + 1 /\ i - 1 \in lo .. j + 1
              /\ i - 1 # j + 1
          BY <2>0, <4>2
        <5>2. h[i] = g[i] /\ h[i - 1] = g[i - 1]
          BY <4>2, <5>1
        <5>3. g[i] = step[i][g[i - 1]]
          BY <2>2, <5>1 DEF StepRule
        <5> QED
          BY <5>2, <5>3
      <4> QED
        BY <4>1, <4>2
    <3>3. g[lo] = base
      BY <2>2 DEF StepRule
    <3> HIDE DEF h
    <3> QED
      BY <3>1, <3>2, <3>3 DEF StepRule
  <2>6. StepsUpTo(T, lo, j + 1, base, step)
    BY <2>4, <2>5 DEF StepsUpTo
  <2> QED
    BY <2>0, <2>6
<1> HIDE DEF S
<1>3. \A k \in Nat : k \in S
  BY <1>1, <1>2, SetInduction
<1>4. PICK k \in Nat : lo + k = hi
  <2>1. hi - lo \in Nat /\ lo + (hi - lo) = hi
    OBVIOUS
  <2> QED
    BY <2>1
<1>5. StepsUpTo(T, lo, hi, base, step)
  BY <1>3, <1>4 DEF S
<1>6. PICK g \in [lo .. hi -> T] : StepRule(g, lo, hi, base, step)
  BY <1>5 DEF StepsUpTo
<1>7. g = [i \in lo .. hi |-> g[i]]
  OBVIOUS
<1>8. \A i \in lo .. hi : g[i] = IF i = lo THEN base ELSE step[i][g[i - 1]]
  BY <1>6 DEF StepRule
<1>9. [i \in lo .. hi |-> g[i]] = [i \in lo .. hi |-> IF i = lo THEN base ELSE step[i][g[i - 1]]]
  BY <1>8
<1> QED
  BY <1>7, <1>9 DEF IsRecursion
=============================================================================
