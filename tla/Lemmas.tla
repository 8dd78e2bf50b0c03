------------------------------- MODULE Lemmas -------------------------------
(***************************************************************************)
(* What the proofs of several components rest on: induction and recursion  *)
(* over 0 .. N, and sequences that are used as stacks.                     *)
(*                                                                         *)
(* Induction is stated for a set of numbers and recursion for a function   *)
(* that takes the steps, for the provers do not instantiate a theorem that *)
(* has an operator for a parameter.                                        *)
(***************************************************************************)
EXTENDS Integers, SequenceTheorems, FiniteSetTheorems, WellFoundedInduction, TLAPS

-----------------------------------------------------------------------------
(* Induction and recursion. *)

(* The library's theorem on < as a set of pairs.                           *)
LEMMA LessIsWellFounded == IsWellFoundedOn({p \in Nat \X Nat : p[1] < p[2]}, Nat)
  BY NatLessThanWellFounded DEF OpToRel

(* A set of numbers that is not empty has a least one.                     *)
LEMMA LeastNatural ==
  ASSUME NEW T, T \subseteq Nat, T # {}
  PROVE  \E x \in T : \A y \in T : x <= y
<1> DEFINE R == {p \in Nat \X Nat : p[1] < p[2]}
<1>1. \E x \in T : \A y \in T : ~(<<y, x>> \in R)
  <2> HIDE DEF R
  <2> IsWellFoundedOn(R, Nat)
    BY LessIsWellFounded DEF R
  <2> QED
    BY WFMin
<1>2. PICK x \in T : \A y \in T : ~(<<y, x>> \in R)
  BY <1>1
<1>3. ASSUME NEW y \in T PROVE x <= y
  <2>1. x \in Nat /\ y \in Nat
    OBVIOUS
  <2>2. <<y, x>> \in Nat \X Nat
    BY <2>1
  <2> QED
    BY <1>2, <2>1, <2>2
<1> QED
  BY <1>3

(* A set that has 0, and with a number below N the next, has all up to N.  *)
LEMMA InductionUpTo ==
  ASSUME NEW N \in Nat, NEW S, 0 \in S, \A n \in 0 .. N - 1 : n \in S => n + 1 \in S
  PROVE  0 .. N \subseteq S
<1> DEFINE T == (0 .. N) \ S
<1> SUFFICES ASSUME T # {} PROVE FALSE
  OBVIOUS
<1>1. T \subseteq Nat
  OBVIOUS
<1>2. PICK x \in T : \A y \in T : x <= y
  <2> HIDE DEF T
  <2> QED
    BY <1>1, LeastNatural
<1>3. x \in 1 .. N
  OBVIOUS
<1>4. x - 1 \in 0 .. N - 1 /\ x - 1 \notin T /\ (x - 1) + 1 = x
  BY <1>2, <1>3
<1> QED
  BY <1>4

(* A function on 0 .. N is defined by where it starts and by its steps.    *)
Recursions(N, V, first, step) ==
  {g \in [0 .. N -> V] : g[0] = first /\ \A i \in 1 .. N : g[i] = step[i][g[i - 1]]}

(* There is such a function.                                               *)
LEMMA RecursionUpTo ==
  ASSUME NEW N \in Nat, NEW V, NEW first \in V, NEW step \in [1 .. N -> [V -> V]]
  PROVE  Recursions(N, V, first, step) # {}
<1> DEFINE Runs(n) == {g \in [0 .. n -> V] : g[0] = first /\ \A i \in 1 .. n : g[i] = step[i][g[i - 1]]}
           S == {n \in 0 .. N : Runs(n) # {}}
<1>1. 0 \in S
  <2>1. [i \in 0 .. 0 |-> first] \in Runs(0)
    OBVIOUS
  <2> QED
    BY <2>1
<1>2. ASSUME NEW n \in 0 .. N - 1, n \in S PROVE n + 1 \in S
  <2>1. PICK g \in [0 .. n -> V] : g[0] = first /\ \A i \in 1 .. n : g[i] = step[i][g[i - 1]]
    BY <1>2
  <2> DEFINE h == [i \in 0 .. n + 1 |-> IF i = n + 1 THEN step[n + 1][g[n]] ELSE g[i]]
  <2>2. h \in [0 .. n + 1 -> V]
    OBVIOUS
  <2>3. h[0] = first /\ \A i \in 1 .. n + 1 : h[i] = step[i][h[i - 1]]
    BY <2>1
  <2> HIDE DEF h
  <2>4. h \in Runs(n + 1)
    BY <2>2, <2>3
  <2> QED
    BY <2>4
<1>3. N \in S
  <2> HIDE DEF S
  <2>1. \A n \in 0 .. N - 1 : n \in S => n + 1 \in S
    BY <1>2
  <2>2. 0 .. N \subseteq S
    BY <1>1, <2>1, InductionUpTo
  <2> QED
    BY <2>2
<1> QED
  BY <1>3 DEF Recursions

-----------------------------------------------------------------------------
(* Finite sets. *)

(* A set of numbers that moved fits where it moved to.                     *)
LEMMA MovedFits ==
  ASSUME NEW S, S \subseteq Int, NEW T, T \subseteq Int, IsFiniteSet(T), NEW k \in Int,
         \A i \in S : i + k \in T
  PROVE  Cardinality(S) <= Cardinality(T)
<1> DEFINE f == [i \in S |-> i + k]
<1>1. f \in Injection(S, T)
  BY DEF Injection, IsInjective
<1> QED
  BY <1>1, FS_Injection

-----------------------------------------------------------------------------
(* Sequences whose first is replaced, added or dropped.                    *)

(* A stack whose first entry is replaced,                                  *)
LEMMA FirstReplaced ==
  ASSUME NEW S, NEW s \in Seq(S), s # <<>>, NEW x \in S
  PROVE  LET t == <<x>> \o Tail(s)
         IN /\ t \in Seq(S) /\ Len(t) = Len(s) /\ t[1] = x
            /\ \A i \in 2 .. Len(s) : t[i] = s[i]
            /\ t = [s EXCEPT ![1] = x]
<1> DEFINE t == <<x>> \o Tail(s)
<1>1. Len(s) \in Nat /\ Len(s) >= 1
  BY EmptySeq, LenProperties
<1>2. /\ Tail(s) \in Seq(S) /\ Len(Tail(s)) = Len(s) - 1
      /\ \A i \in 1 .. Len(s) - 1 : Tail(s)[i] = s[i + 1]
  BY <1>1, HeadTailProperties
<1>3. <<x>> \in Seq(S) /\ Len(<<x>>) = 1 /\ <<x>>[1] = x
  OBVIOUS
<1>4. /\ t \in Seq(S) /\ Len(t) = Len(s) /\ t[1] = x
      /\ \A i \in 2 .. Len(s) : t[i] = Tail(s)[i - 1]
  BY <1>1, <1>2, <1>3, ConcatProperties
<1>5. \A i \in 2 .. Len(s) : t[i] = s[i]
  BY <1>1, <1>2, <1>4
<1>6. t = [s EXCEPT ![1] = x]
  <2>1. DOMAIN t = 1 .. Len(s) /\ DOMAIN s = 1 .. Len(s) /\ t = [i \in DOMAIN t |-> t[i]]
    BY <1>4, LenProperties, SeqDef
  <2>2. \A i \in 1 .. Len(s) : t[i] = [s EXCEPT ![1] = x][i]
    BY <1>1, <1>4, <1>5, <2>1
  <2> QED BY <2>1, <2>2
<1> QED BY <1>4, <1>5, <1>6

(* one that has an entry more,                                             *)
LEMMA FirstAdded ==
  ASSUME NEW S, NEW s \in Seq(S), NEW x \in S
  PROVE  LET t == <<x>> \o s
         IN /\ t \in Seq(S) /\ Len(t) = Len(s) + 1 /\ t # <<>> /\ t[1] = x
            /\ \A i \in 2 .. Len(t) : t[i] = s[i - 1]
<1>1. <<x>> \in Seq(S) /\ Len(<<x>>) = 1 /\ <<x>>[1] = x /\ Len(s) \in Nat
  BY LenProperties
<1> QED BY <1>1, ConcatProperties

(* and one that has an entry less.                                         *)
LEMMA FirstDropped ==
  ASSUME NEW S, NEW s \in Seq(S), s # <<>>
  PROVE  /\ Tail(s) \in Seq(S) /\ Len(Tail(s)) = Len(s) - 1 /\ Len(s) >= 1
         /\ \A i \in 1 .. Len(Tail(s)) : Tail(s)[i] = s[i + 1]
BY EmptySeq, LenProperties, HeadTailProperties

(* A stack that grows at its end loses its last.                           *)
LEMMA LastDropped ==
  ASSUME NEW S, NEW s \in Seq(S), s # <<>>
  PROVE  LET t == SubSeq(s, 1, Len(s) - 1)
         IN t \in Seq(S) /\ Len(t) = Len(s) - 1 /\ \A i \in 1 .. Len(t) : t[i] = s[i]
<1> DEFINE n == Len(s) - 1
           t == SubSeq(s, 1, n)
<1>1. Len(s) \in Nat /\ n \in Nat /\ Len(s) = n + 1
  BY EmptySeq, LenProperties
<1>2. \A i \in 1 .. n : s[i] \in S
  BY <1>1, ElementOfSeq
<1> HIDE DEF n
<1>3. t \in Seq(S) /\ Len(t) = n /\ \A i \in 1 .. n : t[i] = s[1 + i - 1]
  BY <1>1, <1>2, SubSeqProperties
<1>4. \A i \in 1 .. n : t[i] = s[i]
  BY <1>1, <1>3
<1> QED
  BY <1>3, <1>4 DEF n

=============================================================================
