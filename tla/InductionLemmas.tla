-------------------------- MODULE InductionLemmas --------------------------
(***************************************************************************)
(* Induction over data.  The library's induction theorems take an operator *)
(* as a parameter; here induction is over the members of a set, from       *)
(* WFMin and NatLessThanWellFounded, which is first-order.  With it: what  *)
(* SumFunctionOnSet and Kept compute, for every argument, and that         *)
(* SetToSeq is an enumeration.                                             *)
(***************************************************************************)
EXTENDS Integers, Sequences, FiniteSets, SequencesExt, Queues,
        FiniteSetTheorems, SequenceTheorems, WellFoundedInduction, TLAPS

-----------------------------------------------------------------------------
(* Natural numbers. *)

LEMMA Least ==
    ASSUME NEW T, T \subseteq Nat, T # {}
    PROVE \E m \in T : \A k \in T : m <= k
<1> DEFINE R == {ss \in Nat \X Nat : ss[1] < ss[2]}
<1>1. IsWellFoundedOn(R, Nat) BY NatLessThanWellFounded DEF OpToRel
<1>2. \A x, y \in Nat : x < y => <<x, y>> \in R OBVIOUS
<1> HIDE DEF R
<1>3. PICK m \in T : \A k \in T : ~ (<<k, m>> \in R) BY <1>1, WFMin
<1>4. \A k \in T : k \in Nat /\ m \in Nat /\ ~ (k < m) BY <1>2, <1>3
<1>5. \A k \in T : m <= k BY <1>4
<1> QED BY <1>5


LEMMA NatInd ==
    ASSUME NEW T, 0 \in T, \A n \in Nat : n \in T => n + 1 \in T
    PROVE Nat \subseteq T
<1>1. SUFFICES ASSUME Nat \ T # {} PROVE FALSE OBVIOUS
<1>2. PICK m \in Nat \ T : \A k \in Nat \ T : m <= k BY <1>1, Least
<1>3. m # 0 BY <1>2
<1>4. m - 1 \in Nat /\ m - 1 \in T BY <1>2, <1>3
<1> QED BY <1>4, <1>2

-----------------------------------------------------------------------------
(* Sums. *)

\* One step of the recursion that defines SumFunctionOnSet.
SumStep(f, g, s) ==
    IF s = {} THEN 0 ELSE f[CHOOSE x \in s : TRUE] + g[s \ {CHOOSE x \in s : TRUE}]
Sums(f, D) == CHOOSE g : g = [s \in D |-> SumStep(f, g, s)]

LEMMA SumDef == ASSUME NEW f, NEW S PROVE SumFunctionOnSet(f, S) = Sums(f, SUBSET S)[S]
BY DEF SumFunctionOnSet, FoldFunctionOnSet, MapThenFoldSet, Sums, SumStep

LEMMA SumsExist ==
    ASSUME NEW f, NEW S, IsFiniteSet(S)
    PROVE Sums(f, SUBSET S) = [s \in SUBSET S |-> SumStep(f, Sums(f, SUBSET S), s)]
<1> DEFINE D(n) == {s \in SUBSET S : Cardinality(s) <= n}
           N == {n \in Nat : \E g : g = [s \in D(n) |-> SumStep(f, g, s)]}
<1>1. \A s \in SUBSET S : IsFiniteSet(s) /\ Cardinality(s) \in Nat
  BY FS_Subset, FS_CardinalityType
<1>2. ASSUME NEW s \in SUBSET S, s # {}, NEW x, x = CHOOSE y \in s : TRUE
      PROVE x \in s /\ s \ {x} \in SUBSET S /\ Cardinality(s \ {x}) = Cardinality(s) - 1
  <2>1. x \in s BY <1>2
  <2> QED BY <2>1, <1>1, FS_RemoveElement
<1>3. 0 \in N
  <2>1. ASSUME NEW s \in D(0) PROVE s = {} BY <1>1, FS_EmptySet
  <2> DEFINE g == [s \in D(0) |-> 0]
  <2>2. g = [s \in D(0) |-> SumStep(f, g, s)] BY <2>1 DEF SumStep
  <2> QED BY <2>2
<1>4. ASSUME NEW n \in Nat, n \in N PROVE n + 1 \in N
  <2>1. PICK g : g = [s \in D(n) |-> SumStep(f, g, s)] BY <1>4
  <2> DEFINE h == [s \in D(n + 1) |-> IF s \in D(n) THEN g[s] ELSE SumStep(f, g, s)]
  <2>2. ASSUME NEW s \in D(n + 1) PROVE h[s] = SumStep(f, h, s)
    <3>1. h[s] = SumStep(f, g, s) BY <2>1
    <3>2. CASE s = {} BY <3>1, <3>2 DEF SumStep
    <3>3. CASE s # {}
      <4>1. PICK x : x = CHOOSE y \in s : TRUE OBVIOUS
      <4>2. x \in s /\ s \ {x} \in SUBSET S /\ Cardinality(s \ {x}) = Cardinality(s) - 1
        BY <3>3, <4>1, <1>2
      <4>3. Cardinality(s) \in Nat /\ Cardinality(s) <= n + 1 BY <1>1
      <4>4. Cardinality(s \ {x}) <= n BY <4>2, <4>3
      <4>5. s \ {x} \in D(n) /\ s \ {x} \in D(n + 1) BY <4>2, <4>3, <4>4
      <4>6. h[s \ {x}] = g[s \ {x}] BY <4>5
      <4> HIDE DEF h, D
      <4> QED BY <3>1, <3>3, <4>1, <4>6 DEF SumStep
    <3> QED BY <3>2, <3>3
  <2>3. h = [s \in D(n + 1) |-> SumStep(f, h, s)]
    <3>1. h = [s \in D(n + 1) |-> h[s]] OBVIOUS
    <3> HIDE DEF h, D
    <3> QED BY <2>2, <3>1
  <2> HIDE DEF h
  <2> QED BY <2>3
<1>5. Nat \subseteq N
  <2> HIDE DEF N
  <2> QED BY <1>3, <1>4, NatInd
<1>6. PICK n : n = Cardinality(S) OBVIOUS
<1>7. D(n) = SUBSET S BY <1>6, <1>1, FS_Subset
<1>8. n \in Nat BY <1>6, <1>1
<1>9. \E g : g = [s \in SUBSET S |-> SumStep(f, g, s)] BY <1>5, <1>7, <1>8
<1> QED BY <1>9 DEF Sums

LEMMA SumsUnfold ==
    ASSUME NEW f, NEW S, IsFiniteSet(S), NEW s \in SUBSET S
    PROVE Sums(f, SUBSET S)[s] = SumStep(f, Sums(f, SUBSET S), s)
<1>1. PICK g : g = Sums(f, SUBSET S) OBVIOUS
<1>2. g = [t \in SUBSET S |-> SumStep(f, g, t)] BY <1>1, SumsExist
<1>3. g[s] = SumStep(f, g, s) BY <1>2
<1> QED BY <1>1, <1>3

LEMMA SumsRestrict ==
    ASSUME NEW f, NEW S, IsFiniteSet(S), NEW s \in SUBSET S
    PROVE Sums(f, SUBSET S)[s] = SumFunctionOnSet(f, s)
<1> DEFINE T == {t \in SUBSET s : Sums(f, SUBSET S)[t] = Sums(f, SUBSET s)[t]}
           N == {n \in Nat : \A t \in SUBSET s : Cardinality(t) = n => t \in T}
<1>1. IsFiniteSet(s) BY FS_Subset
<1>2. \A t \in SUBSET s : IsFiniteSet(t) /\ Cardinality(t) \in Nat
  BY <1>1, FS_Subset, FS_CardinalityType
<1>3. ASSUME NEW t \in SUBSET s
      PROVE /\ Sums(f, SUBSET S)[t] = SumStep(f, Sums(f, SUBSET S), t)
            /\ Sums(f, SUBSET s)[t] = SumStep(f, Sums(f, SUBSET s), t)
  <2>1. t \in SUBSET S OBVIOUS
  <2> HIDE DEF T
  <2>2. Sums(f, SUBSET S)[t] = SumStep(f, Sums(f, SUBSET S), t) BY <2>1, SumsUnfold, Zenon
  <2>3. Sums(f, SUBSET s)[t] = SumStep(f, Sums(f, SUBSET s), t) BY <1>1, SumsUnfold, Zenon
  <2> QED BY <2>2, <2>3
<1>4. 0 \in N
  <2>1. ASSUME NEW t \in SUBSET s, Cardinality(t) = 0 PROVE t \in T
    <3>1. t = {} BY <2>1, <1>2, FS_EmptySet
    <3> QED BY <3>1, <1>3 DEF SumStep
  <2> QED BY <2>1
<1>5. ASSUME NEW n \in Nat, n \in N PROVE n + 1 \in N
  <2>1. ASSUME NEW t \in SUBSET s, Cardinality(t) = n + 1 PROVE t \in T
    <3>1. t # {} BY <2>1, FS_EmptySet
    <3>2. PICK x : x = CHOOSE y \in t : TRUE OBVIOUS
    <3>3. x \in t BY <3>1, <3>2
    <3>4. Cardinality(t \ {x}) = Cardinality(t) - 1 BY <3>3, <1>2, FS_RemoveElement
    <3>5. Cardinality(t \ {x}) = n BY <3>4, <2>1
    <3>6. t \ {x} \in T BY <3>5, <1>5
    <3> QED BY <3>1, <3>2, <3>6, <1>3 DEF SumStep
  <2> HIDE DEF T
  <2> QED BY <2>1
<1>6. Nat \subseteq N
  <2> HIDE DEF N
  <2> QED BY <1>4, <1>5, NatInd
<1>7. s \in T BY <1>2, <1>6
<1> QED BY <1>7, SumDef

LEMMA SumEmpty == ASSUME NEW f PROVE SumFunctionOnSet(f, {}) = 0
<1>1. SumFunctionOnSet(f, {}) = Sums(f, SUBSET {})[{}] BY SumDef
<1>2. IsFiniteSet({}) BY FS_EmptySet
<1>3. {} \in SUBSET {} OBVIOUS
<1>4. Sums(f, SUBSET {})[{}] = SumStep(f, Sums(f, SUBSET {}), {}) BY <1>2, <1>3, SumsUnfold, Zenon
<1> QED BY <1>1, <1>4 DEF SumStep

Chosen(S) == CHOOSE x \in S : TRUE
LEMMA SumChosen ==
    ASSUME NEW f, NEW S, IsFiniteSet(S), S # {}
    PROVE /\ Chosen(S) \in S
          /\ SumFunctionOnSet(f, S) = f[Chosen(S)] + SumFunctionOnSet(f, S \ {Chosen(S)})
<1>1. PICK x : x = Chosen(S) OBVIOUS
<1>2. x \in S BY <1>1 DEF Chosen
<1>3. S \in SUBSET S OBVIOUS
<1>4. Sums(f, SUBSET S)[S] = SumStep(f, Sums(f, SUBSET S), S) BY <1>3, SumsUnfold, Zenon
<1>5. Sums(f, SUBSET S)[S] = f[x] + Sums(f, SUBSET S)[S \ {x}] BY <1>1, <1>4 DEF SumStep, Chosen
<1>6. Sums(f, SUBSET S)[S \ {x}] = SumFunctionOnSet(f, S \ {x}) BY SumsRestrict
<1> QED BY <1>1, <1>2, <1>5, <1>6, SumDef

LEMMA SumInt ==
    ASSUME NEW f, NEW S, IsFiniteSet(S), \A x \in S : f[x] \in Int
    PROVE SumFunctionOnSet(f, S) \in Int
<1> DEFINE T == {s \in SUBSET S : SumFunctionOnSet(f, s) \in Int}
           N == {n \in Nat : \A s \in SUBSET S : Cardinality(s) = n => s \in T}
<1>1. \A s \in SUBSET S : IsFiniteSet(s) /\ Cardinality(s) \in Nat
  BY FS_Subset, FS_CardinalityType
<1>2. 0 \in N
  <2>1. ASSUME NEW s \in SUBSET S, Cardinality(s) = 0 PROVE s \in T
    <3>1. s = {} BY <2>1, <1>1, FS_EmptySet
    <3> QED BY <3>1, SumEmpty
  <2> QED BY <2>1
<1>3. ASSUME NEW n \in Nat, n \in N PROVE n + 1 \in N
  <2>1. ASSUME NEW s \in SUBSET S, Cardinality(s) = n + 1 PROVE s \in T
    <3>1. s # {} BY <2>1, FS_EmptySet
    <3>2. PICK x : x = Chosen(s) OBVIOUS
    <3>3. x \in s /\ SumFunctionOnSet(f, s) = f[x] + SumFunctionOnSet(f, s \ {x})
      BY <3>1, <3>2, <1>1, SumChosen
    <3>4. Cardinality(s \ {x}) = Cardinality(s) - 1 BY <3>3, <1>1, FS_RemoveElement
    <3>5. Cardinality(s \ {x}) = n BY <3>4, <2>1
    <3>6. SumFunctionOnSet(f, s \ {x}) \in Int BY <3>5, <1>3
    <3>7. f[x] \in Int BY <3>3
    <3>8. SumFunctionOnSet(f, s) \in Int BY <3>3, <3>6, <3>7
    <3> QED BY <3>8
  <2> HIDE DEF T
  <2> QED BY <2>1
<1>4. Nat \subseteq N
  <2> HIDE DEF N
  <2> QED BY <1>2, <1>3, NatInd
<1>5. S \in T BY <1>1, <1>4
<1> QED BY <1>5

\* Whatever element is taken out first.
LEMMA SumRemove ==
    ASSUME NEW f, NEW S, IsFiniteSet(S), \A x \in S : f[x] \in Int, NEW a \in S
    PROVE SumFunctionOnSet(f, S) = f[a] + SumFunctionOnSet(f, S \ {a})
<1> DEFINE Sum(s) == SumFunctionOnSet(f, s)
           T == {s \in SUBSET S : \A b \in s : Sum(s) = f[b] + Sum(s \ {b})}
           N == {n \in Nat : \A s \in SUBSET S : Cardinality(s) = n => s \in T}
<1>1. \A s \in SUBSET S : IsFiniteSet(s) /\ Cardinality(s) \in Nat
  BY FS_Subset, FS_CardinalityType
<1>2. \A s \in SUBSET S : Sum(s) \in Int BY <1>1, SumInt
<1> HIDE DEF Sum
<1>3. 0 \in N
  <2>1. ASSUME NEW s \in SUBSET S, Cardinality(s) = 0 PROVE s \in T
    <3>1. s = {} BY <2>1, <1>1, FS_EmptySet
    <3> QED BY <3>1
  <2> QED BY <2>1
<1>4. ASSUME NEW n \in Nat, n \in N PROVE n + 1 \in N
  <2>1. ASSUME NEW s \in SUBSET S, Cardinality(s) = n + 1, NEW b \in s
        PROVE Sum(s) = f[b] + Sum(s \ {b})
    <3>1. PICK x : x = Chosen(s) OBVIOUS
    <3>2. x \in s /\ Sum(s) = f[x] + Sum(s \ {x})
      <4>1. s # {} OBVIOUS
      <4> QED BY <3>1, <4>1, <1>1, SumChosen DEF Sum
    <3>3. CASE b = x BY <3>2, <3>3
    <3>4. CASE b # x
      <4>1. Cardinality(s \ {x}) = n /\ Cardinality(s \ {b}) = n
        <5>1. Cardinality(s \ {x}) = Cardinality(s) - 1 BY <3>2, <1>1, FS_RemoveElement
        <5>2. Cardinality(s \ {b}) = Cardinality(s) - 1 BY <1>1, FS_RemoveElement
        <5> QED BY <5>1, <5>2, <2>1
      <4>2. s \ {x} \in T /\ s \ {b} \in T BY <4>1, <1>4
      <4>3. b \in s \ {x} /\ x \in s \ {b} BY <3>2, <3>4
      <4>4. Sum(s \ {x}) = f[b] + Sum((s \ {x}) \ {b}) BY <4>2, <4>3
      <4>5. Sum(s \ {b}) = f[x] + Sum((s \ {b}) \ {x}) BY <4>2, <4>3
      <4>6. (s \ {x}) \ {b} = (s \ {b}) \ {x} OBVIOUS
      <4>7. PICK u : u = Sum((s \ {b}) \ {x}) OBVIOUS
      <4>8. u \in Int /\ f[x] \in Int /\ f[b] \in Int
        <5>1. (s \ {b}) \ {x} \in SUBSET S OBVIOUS
        <5> QED BY <5>1, <4>7, <3>2, <1>2
      <4>9. Sum(s \ {x}) = f[b] + u /\ Sum(s \ {b}) = f[x] + u BY <4>4, <4>5, <4>6, <4>7
      <4> QED BY <3>2, <4>8, <4>9
    <3> QED BY <3>3, <3>4
  <2>2. ASSUME NEW s \in SUBSET S, Cardinality(s) = n + 1 PROVE s \in T BY <2>1, <2>2
  <2> HIDE DEF T
  <2> QED BY <2>2
<1>5. Nat \subseteq N
  <2> HIDE DEF N
  <2> QED BY <1>3, <1>4, NatInd
<1>6. S \in T BY <1>1, <1>5
<1> QED BY <1>6 DEF Sum

\* Only the values on the set count.
LEMMA SumSame ==
    ASSUME NEW f, NEW g, NEW S, IsFiniteSet(S), \A x \in S : f[x] = g[x]
    PROVE SumFunctionOnSet(f, S) = SumFunctionOnSet(g, S)
<1> DEFINE T == {s \in SUBSET S : SumFunctionOnSet(f, s) = SumFunctionOnSet(g, s)}
           N == {n \in Nat : \A s \in SUBSET S : Cardinality(s) = n => s \in T}
<1>1. \A s \in SUBSET S : IsFiniteSet(s) /\ Cardinality(s) \in Nat
  BY FS_Subset, FS_CardinalityType
<1>2. 0 \in N
  <2>1. ASSUME NEW s \in SUBSET S, Cardinality(s) = 0 PROVE s \in T
    <3>1. s = {} BY <2>1, <1>1, FS_EmptySet
    <3> QED BY <3>1, SumEmpty
  <2> QED BY <2>1
<1>3. ASSUME NEW n \in Nat, n \in N PROVE n + 1 \in N
  <2>1. ASSUME NEW s \in SUBSET S, Cardinality(s) = n + 1 PROVE s \in T
    <3>1. s # {} BY <2>1, FS_EmptySet
    <3>2. PICK x : x = Chosen(s) OBVIOUS
    <3>3. x \in s /\ SumFunctionOnSet(f, s) = f[x] + SumFunctionOnSet(f, s \ {x})
      BY <3>1, <3>2, <1>1, SumChosen
    <3>4. SumFunctionOnSet(g, s) = g[x] + SumFunctionOnSet(g, s \ {x})
      BY <3>1, <3>2, <1>1, SumChosen
    <3>5. Cardinality(s \ {x}) = Cardinality(s) - 1 BY <3>3, <1>1, FS_RemoveElement
    <3>6. Cardinality(s \ {x}) = n BY <3>5, <2>1
    <3>7. SumFunctionOnSet(f, s \ {x}) = SumFunctionOnSet(g, s \ {x}) BY <3>6, <1>3
    <3> QED BY <3>3, <3>4, <3>7
  <2> HIDE DEF T
  <2> QED BY <2>1
<1>4. Nat \subseteq N
  <2> HIDE DEF N
  <2> QED BY <1>2, <1>3, NatInd
<1>5. S \in T BY <1>1, <1>4
<1> QED BY <1>5

\* A sum changes by what one of its terms changes by.
LEMMA SumChange ==
    ASSUME NEW f, NEW g, NEW S, IsFiniteSet(S), \A x \in S : f[x] \in Int /\ g[x] \in Int,
           NEW a \in S, \A x \in S \ {a} : f[x] = g[x]
    PROVE SumFunctionOnSet(g, S) = SumFunctionOnSet(f, S) + (g[a] - f[a])
<1>1. IsFiniteSet(S \ {a}) BY FS_RemoveElement
<1>2. PICK u, v : u = SumFunctionOnSet(f, S \ {a}) /\ v = SumFunctionOnSet(g, S \ {a}) OBVIOUS
<1>3. u = v BY <1>1, <1>2, SumSame, Zenon
<1>4. u \in Int BY <1>1, <1>2, SumInt
<1>5. SumFunctionOnSet(f, S) = f[a] + u BY <1>2, SumRemove
<1>6. SumFunctionOnSet(g, S) = g[a] + v BY <1>2, SumRemove
<1> QED BY <1>3, <1>4, <1>5, <1>6
-----------------------------------------------------------------------------
(* SetToSeq and Kept. *)

\* The sets that the sequences of a queue are compared by.
LEMMA ToSetType == ASSUME NEW X, NEW s \in Seq(X) PROVE ToSet(s) \subseteq X
BY DEF ToSet

LEMMA ToSetTail ==
    ASSUME NEW X, NEW s \in Seq(X), s # << >>
    PROVE /\ Head(s) \in ToSet(s) /\ Head(s) \in X
          /\ Tail(s) \in Seq(X)
          /\ ToSet(s) = {Head(s)} \cup ToSet(Tail(s))
<1>1. Len(s) \in Nat \ {0} /\ Head(s) = s[1] BY EmptySeq
<1>2. Head(s) \in ToSet(s) BY <1>1 DEF ToSet
<1>3. /\ Tail(s) \in Seq(X) /\ Len(Tail(s)) = Len(s) - 1
      /\ \A i \in 1 .. Len(Tail(s)) : Tail(s)[i] = s[i + 1]
  BY HeadTailProperties
<1>4. ASSUME NEW c \in ToSet(s) PROVE c = Head(s) \/ c \in ToSet(Tail(s))
  <2>1. PICK i \in 1 .. Len(s) : c = s[i] BY DEF ToSet
  <2>2. CASE i = 1 BY <2>1, <2>2, <1>1
  <2>3. CASE i # 1
    <3>1. i - 1 \in 1 .. Len(Tail(s)) BY <2>3, <1>1, <1>3
    <3>2. Tail(s)[i - 1] = s[i] BY <3>1, <1>3
    <3>3. DOMAIN Tail(s) = 1 .. Len(Tail(s)) BY <1>3, LenProperties
    <3>4. PICK t : t = Tail(s) OBVIOUS
    <3>5. i - 1 \in DOMAIN t /\ c = t[i - 1] BY <3>1, <3>2, <3>3, <3>4, <2>1
    <3>6. c \in ToSet(t) BY <3>5 DEF ToSet
    <3> QED BY <3>4, <3>6
  <2> QED BY <2>2, <2>3
<1>5. ASSUME NEW c \in ToSet(Tail(s)) PROVE c \in ToSet(s)
  <2>1. PICK i \in 1 .. Len(Tail(s)) : c = Tail(s)[i] BY <1>3 DEF ToSet
  <2>2. i + 1 \in 1 .. Len(s) /\ c = s[i + 1] BY <2>1, <1>1, <1>3
  <2> QED BY <2>2 DEF ToSet
<1> QED BY <1>2, <1>3, <1>4, <1>5

LEMMA ToSetAppend ==
    ASSUME NEW X, NEW s \in Seq(X), NEW e \in X
    PROVE Append(s, e) \in Seq(X) /\ ToSet(Append(s, e)) = ToSet(s) \cup {e}
<1>1. /\ Append(s, e) \in Seq(X) /\ Len(Append(s, e)) = Len(s) + 1
      /\ \A i \in 1 .. Len(s) : Append(s, e)[i] = s[i]
      /\ Append(s, e)[Len(s) + 1] = e
  BY AppendProperties
<1>2. Len(s) \in Nat OBVIOUS
<1>3. \A i \in 1 .. Len(s) + 1 : i = Len(s) + 1 \/ i \in 1 .. Len(s) BY <1>2
<1>4. 1 .. Len(s) \subseteq 1 .. Len(s) + 1 /\ Len(s) + 1 \in 1 .. Len(s) + 1 BY <1>2
<1>5. DOMAIN Append(s, e) = 1 .. Len(s) + 1 /\ DOMAIN s = 1 .. Len(s) BY <1>1, LenProperties
<1>6. PICK t : t = Append(s, e) OBVIOUS
<1> QED BY <1>1, <1>3, <1>4, <1>5, <1>6 DEF ToSet

LEMMA ToSetConcat ==
    ASSUME NEW X, NEW s \in Seq(X), NEW t \in Seq(X)
    PROVE s \o t \in Seq(X) /\ ToSet(s \o t) = ToSet(s) \cup ToSet(t)
<1>1. PICK u : u = s \o t OBVIOUS
<1>2. /\ u \in Seq(X) /\ Len(u) = Len(s) + Len(t)
      /\ \A i \in 1 .. Len(s) + Len(t) : u[i] = IF i <= Len(s) THEN s[i] ELSE t[i - Len(s)]
  BY <1>1, ConcatProperties
<1>3. Len(s) \in Nat /\ Len(t) \in Nat OBVIOUS
<1>4. DOMAIN u = 1 .. Len(u) /\ DOMAIN s = 1 .. Len(s) /\ DOMAIN t = 1 .. Len(t)
  BY <1>2, LenProperties
<1>5. ASSUME NEW c \in ToSet(u) PROVE c \in ToSet(s) \cup ToSet(t)
  <2>1. PICK i \in 1 .. Len(u) : c = u[i] BY <1>4 DEF ToSet
  <2>2. CASE i <= Len(s)
    <3>1. i \in DOMAIN s /\ c = s[i] BY <2>1, <2>2, <1>2, <1>3, <1>4
    <3> QED BY <3>1 DEF ToSet
  <2>3. CASE ~ (i <= Len(s))
    <3>1. i - Len(s) \in DOMAIN t /\ c = t[i - Len(s)] BY <2>1, <2>3, <1>2, <1>3, <1>4
    <3> QED BY <3>1 DEF ToSet
  <2> QED BY <2>2, <2>3
<1>6. ASSUME NEW c \in ToSet(s) PROVE c \in ToSet(u)
  <2>1. PICK i \in 1 .. Len(s) : c = s[i] BY <1>4 DEF ToSet
  <2>2. i \in DOMAIN u /\ u[i] = c BY <2>1, <1>2, <1>3, <1>4
  <2> QED BY <2>2 DEF ToSet
<1>7. ASSUME NEW c \in ToSet(t) PROVE c \in ToSet(u)
  <2>1. PICK i \in 1 .. Len(t) : c = t[i] BY <1>4 DEF ToSet
  <2>2. i + Len(s) \in DOMAIN u /\ u[i + Len(s)] = t[(i + Len(s)) - Len(s)]
    BY <2>1, <1>2, <1>3, <1>4
  <2>3. (i + Len(s)) - Len(s) = i BY <2>1, <1>3
  <2> QED BY <2>1, <2>2, <2>3 DEF ToSet
<1> QED BY <1>1, <1>2, <1>5, <1>6, <1>7

LEMMA ConcatInjective ==
    ASSUME NEW X, NEW s \in Seq(X), NEW t \in Seq(X), IsInjective(s), IsInjective(t),
           ToSet(s) \cap ToSet(t) = {}
    PROVE IsInjective(s \o t)
<1>1. PICK u : u = s \o t OBVIOUS
<1>2. /\ u \in Seq(X) /\ Len(u) = Len(s) + Len(t)
      /\ \A i \in 1 .. Len(s) + Len(t) : u[i] = IF i <= Len(s) THEN s[i] ELSE t[i - Len(s)]
  BY <1>1, ConcatProperties
<1>3. Len(s) \in Nat /\ Len(t) \in Nat OBVIOUS
<1>4. DOMAIN u = 1 .. Len(u) /\ DOMAIN s = 1 .. Len(s) /\ DOMAIN t = 1 .. Len(t)
  BY <1>2, LenProperties
<1>5. ASSUME NEW i \in DOMAIN u, NEW j \in DOMAIN u, u[i] = u[j] PROVE i = j
  <2>1. \A k \in DOMAIN s, m \in DOMAIN t : s[k] # t[m] BY DEF ToSet
  <2>2. ASSUME NEW k \in DOMAIN u
        PROVE \/ k \in DOMAIN s /\ u[k] = s[k]
              \/ k - Len(s) \in DOMAIN t /\ u[k] = t[k - Len(s)] /\ k \in Int
    BY <1>2, <1>3, <1>4
  <2>3. CASE i \in DOMAIN s /\ u[i] = s[i]
    <3>1. j \in DOMAIN s /\ u[j] = s[j] BY <2>1, <2>2, <2>3, <1>5
    <3> QED BY <2>3, <3>1, <1>5 DEF IsInjective
  <2>4. CASE i - Len(s) \in DOMAIN t /\ u[i] = t[i - Len(s)] /\ i \in Int
    <3>1. j - Len(s) \in DOMAIN t /\ u[j] = t[j - Len(s)] /\ j \in Int BY <2>1, <2>2, <2>4, <1>5
    <3>2. i - Len(s) = j - Len(s) BY <2>4, <3>1, <1>5 DEF IsInjective
    <3> QED BY <2>4, <3>1, <3>2, <1>3
  <2> QED BY <2>2, <2>3, <2>4
<1> QED BY <1>1, <1>5 DEF IsInjective

\* SetToSeq enumerates a finite set.
LEMMA SetToSeqIs ==
    ASSUME NEW S, IsFiniteSet(S)
    PROVE /\ SetToSeq(S) \in Seq(S)
          /\ ToSet(SetToSeq(S)) = S
          /\ IsInjective(SetToSeq(S))
          /\ Len(SetToSeq(S)) = Cardinality(S)
<1>1. PICK n : n = Cardinality(S) OBVIOUS
<1>2. n \in Nat /\ ExistsBijection(1..n, S) BY <1>1, FS_CardinalityType
<1>3. PICK g \in [1..n -> S] : IsInjective(g)
  BY <1>2 DEF ExistsBijection, Bijection, Injection, IsInjective
<1>4. PICK f : f = SetToSeq(S) OBVIOUS
<1>5. f \in [1..n -> S] /\ IsInjective(f) BY <1>1, <1>3, <1>4 DEF SetToSeq
<1>6. f \in Injection(1..n, S) BY <1>5 DEF Injection
<1>7. Cardinality(1..n) = Cardinality(S) /\ IsFiniteSet(1..n) BY <1>1, <1>2, FS_Interval
<1>8. f \in Surjection(1..n, S) BY <1>6, <1>7, FS_Injection
<1>9. ToSet(f) = S BY <1>5, <1>8 DEF Surjection, ToSet
<1>10. f \in Seq(S) /\ Len(f) = n BY <1>2, <1>5
<1> QED BY <1>1, <1>4, <1>5, <1>9, <1>10

\* One step of the recursion that defines Kept.
KeptStep(s, S, g, i) ==
    IF i = 0 THEN << >> ELSE IF s[i] \in S THEN Append(g[i - 1], s[i]) ELSE g[i - 1]
KeptUpTo(s, S, n) == CHOOSE g : g = [i \in 0 .. n |-> KeptStep(s, S, g, i)]

LEMMA KeptDef == ASSUME NEW s, NEW S PROVE Kept(s, S) = KeptUpTo(s, S, Len(s))[Len(s)]
BY DEF Kept, KeptUpTo, KeptStep

LEMMA KeptExists ==
    ASSUME NEW s, NEW S, NEW n \in Nat
    PROVE KeptUpTo(s, S, n) = [i \in 0 .. n |-> KeptStep(s, S, KeptUpTo(s, S, n), i)]
<1> DEFINE N == {m \in Nat : \E g : g = [i \in 0 .. m |-> KeptStep(s, S, g, i)]}
<1>1. 0 \in N
  <2> DEFINE g == [i \in 0 .. 0 |-> << >>]
  <2>1. g = [i \in 0 .. 0 |-> KeptStep(s, S, g, i)] BY DEF KeptStep
  <2> QED BY <2>1
<1>2. ASSUME NEW m \in Nat, m \in N PROVE m + 1 \in N
  <2>1. PICK g : g = [i \in 0 .. m |-> KeptStep(s, S, g, i)] BY <1>2
  <2> DEFINE h == [i \in 0 .. m + 1 |-> IF i \in 0 .. m THEN g[i] ELSE KeptStep(s, S, g, i)]
  <2>2. ASSUME NEW i \in 0 .. m + 1 PROVE h[i] = KeptStep(s, S, h, i)
    <3>1. h[i] = KeptStep(s, S, g, i) BY <2>1
    <3>2. CASE i = 0 BY <3>1, <3>2 DEF KeptStep
    <3>3. CASE i # 0
      <4>1. i - 1 \in 0 .. m /\ i - 1 \in 0 .. m + 1 BY <3>3
      <4>2. h[i - 1] = g[i - 1] BY <4>1
      <4> HIDE DEF h
      <4> QED BY <3>1, <3>3, <4>2 DEF KeptStep
    <3> QED BY <3>2, <3>3
  <2>3. h = [i \in 0 .. m + 1 |-> KeptStep(s, S, h, i)]
    <3>1. h = [i \in 0 .. m + 1 |-> h[i]] OBVIOUS
    <3> HIDE DEF h
    <3> QED BY <2>2, <3>1
  <2> HIDE DEF h
  <2> QED BY <2>3
<1>3. Nat \subseteq N
  <2> HIDE DEF N
  <2> QED BY <1>1, <1>2, NatInd
<1>4. \E g : g = [i \in 0 .. n |-> KeptStep(s, S, g, i)] BY <1>3
<1> QED BY <1>4 DEF KeptUpTo

LEMMA KeptUnfold ==
    ASSUME NEW s, NEW S, NEW n \in Nat, NEW i \in 0 .. n
    PROVE KeptUpTo(s, S, n)[i] = KeptStep(s, S, KeptUpTo(s, S, n), i)
<1>1. PICK g : g = KeptUpTo(s, S, n) OBVIOUS
<1>2. g = [j \in 0 .. n |-> KeptStep(s, S, g, j)] BY <1>1, KeptExists
<1>3. g[i] = KeptStep(s, S, g, i) BY <1>2
<1> QED BY <1>1, <1>3

\* Kept keeps the entries that are in S, and repeats none that was not repeated.
LEMMA KeptIs ==
    ASSUME NEW X, NEW s \in Seq(X), NEW S
    PROVE /\ Kept(s, S) \in Seq(X)
          /\ ToSet(Kept(s, S)) = ToSet(s) \cap S
          /\ IsInjective(s) => IsInjective(Kept(s, S))
<1>1. PICK n : n = Len(s) OBVIOUS
<1>2. n \in Nat BY <1>1
<1>3. PICK g : g = KeptUpTo(s, S, n) OBVIOUS
<1>4. \A i \in 0 .. n : g[i] = KeptStep(s, S, g, i) BY <1>2, <1>3, KeptUnfold
<1> DEFINE Upto(i) == {s[j] : j \in 1 .. i}
           Good(i) == /\ g[i] \in Seq(X) /\ ToSet(g[i]) = Upto(i) \cap S
                      /\ IsInjective(s) => IsInjective(g[i])
           N == {i \in Nat : i <= n => Good(i)}
<1>5. 0 \in N
  <2>1. g[0] = << >> BY <1>2, <1>4 DEF KeptStep
  <2>2. Upto(0) = {} OBVIOUS
  <2>3. << >> \in Seq(X) /\ ToSet(<< >>) = {} /\ IsInjective(<< >>) BY DEF ToSet, IsInjective
  <2>4. Good(0) BY <2>1, <2>2, <2>3
  <2> QED BY <2>4
<1>6. ASSUME NEW i \in Nat, i \in N PROVE i + 1 \in N
  <2> SUFFICES ASSUME i + 1 <= n PROVE Good(i + 1) BY <1>6
  <2>1. Good(i) BY <1>2, <1>6
  <2>2. i \in 0 .. n /\ i + 1 \in 0 .. n /\ i + 1 \in 1 .. n /\ (i + 1) - 1 = i /\ i + 1 # 0 BY <1>2
  <2>3. s[i + 1] \in X BY <1>1, <2>2
  <2>4. Upto(i + 1) = Upto(i) \cup {s[i + 1]}
    <3>1. \A j \in 1 .. i + 1 : j \in 1 .. i \/ j = i + 1 OBVIOUS
    <3>2. \A j \in 1 .. i : j \in 1 .. i + 1 OBVIOUS
    <3>3. i + 1 \in 1 .. i + 1 OBVIOUS
    <3> QED BY <3>1, <3>2, <3>3
  <2>5. CASE s[i + 1] \notin S
    <3>1. g[i + 1] = g[i] BY <1>4, <2>2, <2>5 DEF KeptStep
    <3>2. Upto(i + 1) \cap S = Upto(i) \cap S BY <2>4, <2>5
    <3> HIDE DEF Upto
    <3> QED BY <2>1, <3>1, <3>2
  <2>6. CASE s[i + 1] \in S
    <3>1. g[i + 1] = Append(g[i], s[i + 1]) BY <1>4, <2>2, <2>6 DEF KeptStep
    <3>2. Upto(i + 1) \cap S = (Upto(i) \cap S) \cup {s[i + 1]} BY <2>4, <2>6
    <3>3. PICK a, e : a = g[i] /\ e = s[i + 1] OBVIOUS
    <3>4. a \in Seq(X) /\ e \in X BY <2>1, <2>3, <3>3
    <3>5. Append(a, e) \in Seq(X) /\ ToSet(Append(a, e)) = ToSet(a) \cup {e} BY <3>4, ToSetAppend
    <3>6. ASSUME IsInjective(s) PROVE IsInjective(Append(a, e))
      <4>1. \A j \in 1 .. i : s[j] # e
        <5>1. DOMAIN s = 1 .. n BY <1>1, LenProperties
        <5>2. \A j \in 1 .. i : j \in 1 .. n /\ j # i + 1 BY <1>2
        <5> QED BY <3>6, <3>3, <2>2, <5>1, <5>2 DEF IsInjective
      <4>2. e \notin ToSet(a) BY <4>1, <2>1, <3>3
      <4>3. IsInjective(a) BY <3>6, <2>1, <3>3
      <4>4. /\ Len(Append(a, e)) = Len(a) + 1 /\ Len(a) \in Nat
            /\ \A j \in 1 .. Len(a) : Append(a, e)[j] = a[j]
            /\ Append(a, e)[Len(a) + 1] = e
            /\ DOMAIN a = 1 .. Len(a) /\ DOMAIN Append(a, e) = 1 .. Len(a) + 1
        BY <3>4, <3>5, AppendProperties, LenProperties
      <4>5. \A j \in 1 .. Len(a) + 1 : j \in 1 .. Len(a) \/ j = Len(a) + 1 BY <4>4
      <4>6. \A j \in 1 .. Len(a) : a[j] # e BY <4>2, <4>4 DEF ToSet
      <4>7. PICK b, m : b = Append(a, e) /\ m = Len(a) OBVIOUS
      <4>8. \A j, k \in 1 .. m + 1 : b[j] = b[k] => j = k
        BY <4>3, <4>4, <4>5, <4>6, <4>7 DEF IsInjective
      <4> QED BY <4>4, <4>7, <4>8 DEF IsInjective
    <3> HIDE DEF Upto
    <3> QED BY <2>1, <3>1, <3>2, <3>3, <3>5, <3>6
  <2> QED BY <2>5, <2>6
<1>7. Nat \subseteq N
  <2> HIDE DEF N
  <2> QED BY <1>5, <1>6, NatInd
<1>8. Good(n)
  <2>1. n \in N BY <1>2, <1>7
  <2>2. n <= n BY <1>2
  <2> HIDE DEF Good
  <2> QED BY <2>1, <2>2
<1>9. Upto(n) = ToSet(s)
  <2>1. DOMAIN s = 1 .. n BY <1>1, LenProperties
  <2> QED BY <2>1 DEF ToSet
<1>10. Kept(s, S) = g[n] BY <1>1, <1>3, KeptDef
<1> QED BY <1>8, <1>9, <1>10

-----------------------------------------------------------------------------
(* Sums of natural numbers, of differences, and of sequences. *)

LEMMA SumNat ==
    ASSUME NEW f, NEW S, IsFiniteSet(S), \A x \in S : f[x] \in Nat
    PROVE SumFunctionOnSet(f, S) \in Nat
<1> DEFINE T == {s \in SUBSET S : SumFunctionOnSet(f, s) \in Nat}
           N == {n \in Nat : \A s \in SUBSET S : Cardinality(s) = n => s \in T}
<1>1. \A s \in SUBSET S : IsFiniteSet(s) /\ Cardinality(s) \in Nat
  BY FS_Subset, FS_CardinalityType
<1>2. 0 \in N
  <2>1. ASSUME NEW s \in SUBSET S, Cardinality(s) = 0 PROVE s \in T
    <3>1. s = {} BY <2>1, <1>1, FS_EmptySet
    <3> QED BY <3>1, SumEmpty
  <2> QED BY <2>1
<1>3. ASSUME NEW n \in Nat, n \in N PROVE n + 1 \in N
  <2>1. ASSUME NEW s \in SUBSET S, Cardinality(s) = n + 1 PROVE s \in T
    <3>1. s # {} BY <2>1, FS_EmptySet
    <3>2. PICK x : x = Chosen(s) OBVIOUS
    <3>3. x \in s /\ SumFunctionOnSet(f, s) = f[x] + SumFunctionOnSet(f, s \ {x})
      BY <3>1, <3>2, <1>1, SumChosen
    <3>4. Cardinality(s \ {x}) = Cardinality(s) - 1 BY <3>3, <1>1, FS_RemoveElement
    <3>5. Cardinality(s \ {x}) = n BY <3>4, <2>1
    <3>6. SumFunctionOnSet(f, s \ {x}) \in Nat BY <3>5, <1>3
    <3>7. f[x] \in Nat BY <3>3
    <3>8. SumFunctionOnSet(f, s) \in Nat BY <3>3, <3>6, <3>7
    <3> QED BY <3>8
  <2> HIDE DEF T
  <2> QED BY <2>1
<1>4. Nat \subseteq N
  <2> HIDE DEF N
  <2> QED BY <1>2, <1>3, NatInd
<1>5. S \in T BY <1>1, <1>4
<1> QED BY <1>5

\* A term is at most the sum.
LEMMA SumTerm ==
    ASSUME NEW f, NEW S, IsFiniteSet(S), \A x \in S : f[x] \in Nat, NEW a \in S
    PROVE f[a] <= SumFunctionOnSet(f, S)
<1>1. IsFiniteSet(S \ {a}) BY FS_RemoveElement
<1>2. PICK u : u = SumFunctionOnSet(f, S \ {a}) OBVIOUS
<1>3. u \in Nat BY <1>1, <1>2, SumNat
<1>4. SumFunctionOnSet(f, S) = f[a] + u BY <1>2, SumRemove
<1> QED BY <1>3, <1>4

\* The sum of differences is the difference of the sums.
LEMMA SumMinus ==
    ASSUME NEW f, NEW g, NEW h, NEW S, IsFiniteSet(S),
           \A x \in S : f[x] \in Int /\ g[x] \in Int /\ h[x] = f[x] - g[x]
    PROVE SumFunctionOnSet(h, S) = SumFunctionOnSet(f, S) - SumFunctionOnSet(g, S)
<1> DEFINE T == {s \in SUBSET S : SumFunctionOnSet(h, s) = SumFunctionOnSet(f, s) - SumFunctionOnSet(g, s)}
           N == {n \in Nat : \A s \in SUBSET S : Cardinality(s) = n => s \in T}
<1>1. \A s \in SUBSET S : IsFiniteSet(s) /\ Cardinality(s) \in Nat
  BY FS_Subset, FS_CardinalityType
<1>2. 0 \in N
  <2>1. ASSUME NEW s \in SUBSET S, Cardinality(s) = 0 PROVE s \in T
    <3>1. s = {} BY <2>1, <1>1, FS_EmptySet
    <3>2. /\ SumFunctionOnSet(f, {}) = 0 /\ SumFunctionOnSet(g, {}) = 0
          /\ SumFunctionOnSet(h, {}) = 0
      BY SumEmpty
    <3>3. SumFunctionOnSet(h, {}) = SumFunctionOnSet(f, {}) - SumFunctionOnSet(g, {}) BY <3>2
    <3>4. {} \in SUBSET S OBVIOUS
    <3>5. {} \in T BY <3>3, <3>4
    <3> HIDE DEF T
    <3> QED BY <3>1, <3>5
  <2> QED BY <2>1
<1>3. ASSUME NEW n \in Nat, n \in N PROVE n + 1 \in N
  <2>1. ASSUME NEW s \in SUBSET S, Cardinality(s) = n + 1 PROVE s \in T
    <3>1. s # {}
      <4>1. Cardinality({}) = 0 BY FS_EmptySet
      <4>2. Cardinality(s) # 0 BY <2>1
      <4> QED BY <4>1, <4>2
    <3>2. PICK x : x = Chosen(s) OBVIOUS
    <3>3. PICK a, b, c : /\ a = SumFunctionOnSet(f, s \ {x}) /\ b = SumFunctionOnSet(g, s \ {x})
                         /\ c = SumFunctionOnSet(h, s \ {x})
      OBVIOUS
    <3>4. /\ x \in s /\ SumFunctionOnSet(f, s) = f[x] + a
          /\ SumFunctionOnSet(g, s) = g[x] + b /\ SumFunctionOnSet(h, s) = h[x] + c
      BY <3>1, <3>2, <3>3, <1>1, SumChosen
    <3>5. Cardinality(s \ {x}) = Cardinality(s) - 1 /\ IsFiniteSet(s \ {x})
      BY <3>4, <1>1, FS_RemoveElement
    <3>6. Cardinality(s \ {x}) = n BY <3>5, <2>1
    <3>7. c = a - b BY <3>3, <3>6, <1>3
    <3>8. a \in Int
      <4>1. \A y \in s \ {x} : f[y] \in Int OBVIOUS
      <4> QED BY <3>3, <3>5, <4>1, SumInt
    <3>9. b \in Int
      <4>1. \A y \in s \ {x} : g[y] \in Int OBVIOUS
      <4> QED BY <3>3, <3>5, <4>1, SumInt
    <3>10. h[x] = f[x] - g[x] /\ f[x] \in Int /\ g[x] \in Int BY <3>4
    <3> QED BY <3>4, <3>7, <3>8, <3>9, <3>10
  <2> HIDE DEF T
  <2> QED BY <2>1
<1>4. Nat \subseteq N
  <2> HIDE DEF N
  <2> QED BY <1>2, <1>3, NatInd
<1>5. S \in T BY <1>1, <1>4
<1> QED BY <1>5

\* The sum over an interval, its last term apart.
LEMMA SumNext ==
    ASSUME NEW f, NEW n \in Nat, \A i \in 1 .. n + 1 : f[i] \in Int
    PROVE SumFunctionOnSet(f, 1 .. n + 1) = f[n + 1] + SumFunctionOnSet(f, 1 .. n)
<1>1. PICK S : S = 1 .. n + 1 OBVIOUS
<1>2. IsFiniteSet(S) /\ n + 1 \in S /\ S \ {n + 1} = 1 .. n
  <2>1. 1 \in Int /\ n + 1 \in Int OBVIOUS
  <2>2. IsFiniteSet(1 .. n + 1) BY <2>1, FS_Interval
  <2>3. n + 1 \in 1 .. n + 1 OBVIOUS
  <2>4. (1 .. n + 1) \ {n + 1} = 1 .. n OBVIOUS
  <2> QED BY <1>1, <2>2, <2>3, <2>4
<1>3. SumFunctionOnSet(f, S) = f[n + 1] + SumFunctionOnSet(f, S \ {n + 1})
  <2>1. \A i \in S : f[i] \in Int BY <1>1
  <2> QED BY <1>2, <2>1, SumRemove
<1> QED BY <1>1, <1>2, <1>3

LEMMA SumAppend ==
    ASSUME NEW s \in Seq(Nat), NEW e \in Nat
    PROVE SumFunction(Append(s, e)) = SumFunction(s) + e
<1>1. PICK n \in Nat : n = Len(s) OBVIOUS
<1>2. PICK t : t = Append(s, e) OBVIOUS
<1>3. /\ t \in Seq(Nat) /\ Len(t) = n + 1 /\ t[n + 1] = e
      /\ \A i \in 1 .. n : t[i] = s[i]
  BY <1>1, <1>2, AppendProperties
<1>4. DOMAIN t = 1 .. n + 1 /\ DOMAIN s = 1 .. n BY <1>1, <1>3, LenProperties
<1>5. \A i \in 1 .. n + 1 : t[i] \in Int BY <1>3, <1>4
<1>6. SumFunctionOnSet(t, 1 .. n + 1) = t[n + 1] + SumFunctionOnSet(t, 1 .. n)
  BY <1>5, SumNext
<1>7. IsFiniteSet(1 .. n) BY FS_Interval
<1>8. SumFunctionOnSet(t, 1 .. n) = SumFunctionOnSet(s, 1 .. n) BY <1>3, <1>7, SumSame
<1>9. SumFunctionOnSet(s, 1 .. n) \in Int
  <2>1. \A i \in 1 .. n : s[i] \in Int BY <1>4
  <2> QED BY <1>7, <2>1, SumInt
<1>10. SumFunction(t) = SumFunctionOnSet(t, 1 .. n + 1) /\ SumFunction(s) = SumFunctionOnSet(s, 1 .. n)
  BY <1>4 DEF SumFunction
<1> QED BY <1>2, <1>3, <1>6, <1>8, <1>9, <1>10

\* The sum of a sequence is that of its first k entries and that of the others.
LEMMA SumSplit ==
    ASSUME NEW s \in Seq(Nat), NEW k \in 0 .. Len(s)
    PROVE /\ SubSeq(s, k + 1, Len(s)) \in Seq(Nat)
          /\ SumFunction(s) = SumFunctionOnSet(s, 1 .. k) + SumFunction(SubSeq(s, k + 1, Len(s)))
<1>1. PICK n \in Nat : n = Len(s) OBVIOUS
<1>2. PICK t : t = SubSeq(s, k + 1, n) OBVIOUS
<1>3. t \in Seq(Nat) /\ Len(t) = n - k /\ \A i \in 1 .. n - k : t[i] = s[k + i]
  BY <1>1, <1>2
<1>4. DOMAIN t = 1 .. n - k /\ DOMAIN s = 1 .. n BY <1>1, <1>3, LenProperties
<1>5. \A i \in 1 .. n : s[i] \in Int BY <1>4
<1> DEFINE N == {m \in Nat : m <= n - k =>
                    SumFunctionOnSet(s, 1 .. k + m) = SumFunctionOnSet(s, 1 .. k) + SumFunctionOnSet(t, 1 .. m)}
<1>6. ASSUME NEW m \in 0 .. n PROVE SumFunctionOnSet(s, 1 .. m) \in Int
  <2>1. IsFiniteSet(1 .. m) BY FS_Interval
  <2>2. \A i \in 1 .. m : s[i] \in Int BY <1>5
  <2> QED BY <2>1, <2>2, SumInt
<1>7. ASSUME NEW m \in Nat, m <= n - k PROVE SumFunctionOnSet(t, 1 .. m) \in Int
  <2>1. IsFiniteSet(1 .. m) BY FS_Interval
  <2>2. \A i \in 1 .. m : t[i] \in Int BY <1>1, <1>3, <1>4, <1>7
  <2> QED BY <2>1, <2>2, SumInt
<1>8. 0 \in N
  <2>1. 1 .. 0 = {} /\ k + 0 = k OBVIOUS
  <2>2. SumFunctionOnSet(t, 1 .. 0) = 0 BY <2>1, SumEmpty
  <2>3. SumFunctionOnSet(s, 1 .. k) \in Int BY <1>1, <1>6
  <2> QED BY <2>1, <2>2, <2>3
<1>9. ASSUME NEW m \in Nat, m \in N PROVE m + 1 \in N
  <2> SUFFICES ASSUME m + 1 <= n - k
               PROVE SumFunctionOnSet(s, 1 .. k + (m + 1)) =
                         SumFunctionOnSet(s, 1 .. k) + SumFunctionOnSet(t, 1 .. m + 1)
    OBVIOUS
  <2>1. PICK a, b, c : /\ a = SumFunctionOnSet(s, 1 .. k) /\ b = SumFunctionOnSet(t, 1 .. m)
                       /\ c = SumFunctionOnSet(s, 1 .. k + m)
    OBVIOUS
  <2>2. m <= n - k /\ k + m \in 0 .. n /\ k \in 0 .. n /\ m + 1 \in 1 .. n - k BY <1>1
  <2>3. c = a + b BY <1>9, <2>1, <2>2
  <2>4. a \in Int /\ b \in Int BY <1>6, <1>7, <2>1, <2>2
  <2>5. SumFunctionOnSet(s, 1 .. (k + m) + 1) = s[(k + m) + 1] + c
    <3>1. k + m \in Nat /\ \A i \in 1 .. (k + m) + 1 : s[i] \in Int BY <1>1, <1>5
    <3> QED BY <2>1, <3>1, SumNext
  <2>6. SumFunctionOnSet(t, 1 .. m + 1) = t[m + 1] + b
    <3>1. \A i \in 1 .. m + 1 : t[i] \in Int BY <1>1, <1>3, <1>4
    <3> QED BY <2>1, <3>1, SumNext
  <2>7. t[m + 1] = s[k + (m + 1)] BY <1>3, <2>2
  <2>8. k + (m + 1) = (k + m) + 1 /\ (k + m) + 1 \in 1 .. n BY <1>1
  <2>9. s[(k + m) + 1] \in Int BY <1>5, <2>8
  <2> QED BY <2>1, <2>3, <2>4, <2>5, <2>6, <2>7, <2>8, <2>9
<1>10. Nat \subseteq N
  <2> HIDE DEF N
  <2> QED BY <1>8, <1>9, NatInd
<1>11. n - k \in Nat /\ n - k <= n - k /\ k + (n - k) = n BY <1>1
<1>12. SumFunctionOnSet(s, 1 .. n) = SumFunctionOnSet(s, 1 .. k) + SumFunctionOnSet(t, 1 .. n - k)
  BY <1>10, <1>11
<1>13. SumFunction(s) = SumFunctionOnSet(s, 1 .. n) /\ SumFunction(t) = SumFunctionOnSet(t, 1 .. n - k)
  BY <1>4 DEF SumFunction
<1> QED BY <1>1, <1>2, <1>3, <1>12, <1>13

\* An initial part of the positive numbers is an interval.
LEMMA Initial ==
    ASSUME NEW n \in Nat, NEW F, F \subseteq 1 .. n, \A i \in F : \A j \in 1 .. i : j \in F
    PROVE Cardinality(F) \in 0 .. n /\ F = 1 .. Cardinality(F)
<1>1. (n + 1) \in Nat \ {0} /\ n + 1 \notin F OBVIOUS
<1>2. PICK m \in (Nat \ {0}) \ F : \A k \in (Nat \ {0}) \ F : m <= k
  <2>1. (Nat \ {0}) \ F \subseteq Nat /\ (Nat \ {0}) \ F # {} BY <1>1
  <2> QED BY <2>1, Least
<1>3. m <= n + 1 BY <1>1, <1>2
<1>4. ASSUME NEW j \in 1 .. m - 1 PROVE j \in F
  <2>1. j \in Nat \ {0} /\ ~(m <= j) BY <1>2
  <2> QED BY <1>2, <2>1
<1>5. ASSUME NEW i \in F PROVE i \in 1 .. m - 1
  <2>1. i \in Nat \ {0} OBVIOUS
  <2>2. ASSUME m <= i PROVE FALSE
    <3>1. m \in 1 .. i BY <1>2, <2>1, <2>2
    <3> QED BY <1>2, <3>1
  <2> QED BY <1>2, <2>1, <2>2
<1>6. F = 1 .. m - 1 BY <1>4, <1>5
<1>7. Cardinality(F) = m - 1
  <2>1. m - 1 \in Nat BY <1>2
  <2>2. Cardinality(1 .. m - 1) = IF 1 <= m - 1 THEN (m - 1) - 1 + 1 ELSE 0 BY <2>1, FS_Interval
  <2> QED BY <1>2, <1>6, <2>1, <2>2
<1> QED BY <1>2, <1>3, <1>6, <1>7

\* The entries whose ends are within a bound are the first ones.
LEMMA SumPrefix ==
    ASSUME NEW s \in Seq(Nat), NEW first \in Int, NEW bound \in Int, NEW F,
           F \subseteq DOMAIN s,
           \A i \in DOMAIN s : i \in F <=> first + SumFunctionOnSet(s, 1 .. i) <= bound
    PROVE Cardinality(F) \in 0 .. Len(s) /\ F = 1 .. Cardinality(F)
<1>1. PICK n \in Nat : n = Len(s) /\ DOMAIN s = 1 .. n BY LenProperties
<1>2. \A i \in 1 .. n : s[i] \in Nat BY <1>1
<1>3. \A i \in 0 .. n : SumFunctionOnSet(s, 1 .. i) \in Int
  <2>1. ASSUME NEW i \in 0 .. n PROVE SumFunctionOnSet(s, 1 .. i) \in Int
    <3>1. IsFiniteSet(1 .. i) /\ \A j \in 1 .. i : s[j] \in Int BY <1>2, FS_Interval
    <3> QED BY <3>1, SumInt
  <2> QED BY <2>1
<1> DEFINE N == {m \in Nat : \A i \in 0 .. n : i + m <= n =>
                     SumFunctionOnSet(s, 1 .. i) <= SumFunctionOnSet(s, 1 .. i + m)}
<1>4. 0 \in N
  <2>1. \A i \in 0 .. n : i + 0 = i /\ SumFunctionOnSet(s, 1 .. i) <= SumFunctionOnSet(s, 1 .. i)
    BY <1>3
  <2> QED BY <2>1
<1>5. ASSUME NEW m \in Nat, m \in N PROVE m + 1 \in N
  <2>1. ASSUME NEW i \in 0 .. n, i + (m + 1) <= n
        PROVE SumFunctionOnSet(s, 1 .. i) <= SumFunctionOnSet(s, 1 .. i + (m + 1))
    <3>1. i + m \in 0 .. n /\ i + m <= n /\ i + (m + 1) = (i + m) + 1 /\ (i + m) + 1 \in 1 .. n BY <2>1
    <3>2. PICK a, b : a = SumFunctionOnSet(s, 1 .. i) /\ b = SumFunctionOnSet(s, 1 .. i + m) OBVIOUS
    <3>3. a <= b BY <1>5, <3>1, <3>2
    <3>4. SumFunctionOnSet(s, 1 .. (i + m) + 1) = s[(i + m) + 1] + b
      <4>1. \A j \in 1 .. (i + m) + 1 : s[j] \in Int BY <1>2, <3>1
      <4>2. i + m \in Nat OBVIOUS
      <4> QED BY <3>2, <4>1, <4>2, SumNext
    <3>5. a \in Int /\ b \in Int /\ s[(i + m) + 1] \in Nat BY <1>2, <1>3, <3>1, <3>2
    <3> QED BY <3>1, <3>2, <3>3, <3>4, <3>5
  <2> QED BY <2>1
<1>6. Nat \subseteq N
  <2> HIDE DEF N
  <2> QED BY <1>4, <1>5, NatInd
<1>7. ASSUME NEW i \in F, NEW j \in 1 .. i PROVE j \in F
  <2>1. i \in 1 .. n /\ first + SumFunctionOnSet(s, 1 .. i) <= bound BY <1>1
  <2>2. j \in 1 .. n /\ j \in 0 .. n /\ i - j \in Nat /\ j + (i - j) = i BY <2>1
  <2>3. SumFunctionOnSet(s, 1 .. j) <= SumFunctionOnSet(s, 1 .. i)
    <3>1. PICK m \in Nat : m = i - j /\ j + m = i BY <2>2
    <3>2. m \in N BY <1>6
    <3>3. j + m <= n BY <2>1, <3>1
    <3>4. SumFunctionOnSet(s, 1 .. j) <= SumFunctionOnSet(s, 1 .. j + m) BY <2>2, <3>2, <3>3
    <3> QED BY <3>1, <3>4
  <2>4. PICK a, b : a = SumFunctionOnSet(s, 1 .. j) /\ b = SumFunctionOnSet(s, 1 .. i) OBVIOUS
  <2>5. a \in Int /\ b \in Int /\ a <= b /\ first + b <= bound BY <1>3, <2>1, <2>2, <2>3, <2>4
  <2>6. first + a <= bound BY <2>5
  <2> QED BY <1>1, <2>2, <2>4, <2>6
<1>8. F \subseteq 1 .. n BY <1>1
<1> QED BY <1>1, <1>7, <1>8, Initial

\* A set of numbers that is bounded has a greatest one.
LEMMA Greatest ==
    ASSUME NEW n \in Nat, NEW T, T \subseteq 1 .. n, T # {}
    PROVE \E m \in T : \A k \in T : k <= m
<1> DEFINE R == {k \in 0 .. n : n - k \in T}
<1>1. R \subseteq Nat OBVIOUS
<1>2. R # {}
  <2>1. PICK j : j \in T OBVIOUS
  <2>2. n - j \in 0 .. n /\ n - (n - j) = j BY <2>1
  <2> QED BY <2>1, <2>2
<1>3. PICK k \in R : \A l \in R : k <= l BY <1>1, <1>2, Least
<1>4. n - k \in T BY <1>3
<1>5. ASSUME NEW j \in T PROVE j <= n - k
  <2>1. n - j \in 0 .. n /\ n - (n - j) = j OBVIOUS
  <2>2. n - j \in R BY <2>1
  <2>3. k <= n - j /\ k \in 0 .. n BY <1>3, <2>2
  <2> QED BY <2>1, <2>3
<1> QED BY <1>4, <1>5
=============================================================================
