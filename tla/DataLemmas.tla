--------------------------- MODULE DataLemmas -----------------------------
(***************************************************************************)
(* What the proofs of several components need of sequences, sets and sums. *)
(***************************************************************************)
EXTENDS Integers, Sequences, FiniteSets, Functions, FiniteSetTheorems, SequenceTheorems,
        NaturalsInduction, WellFoundedInduction, TLAPS

\* A row written in place.
LEMMA SequenceChanged ==
  ASSUME NEW S, NEW s \in Seq(S), NEW k, NEW v, k \in DOMAIN s => v \in S
  PROVE  /\ [s EXCEPT ![k] = v] \in Seq(S)
         /\ DOMAIN [s EXCEPT ![k] = v] = DOMAIN s
         /\ \A j \in DOMAIN s : [s EXCEPT ![k] = v][j] = IF j = k THEN v ELSE s[j]
<1> DEFINE t == [s EXCEPT ![k] = v]
<1>1. Len(s) \in Nat /\ DOMAIN s = 1 .. Len(s) /\ \A j \in DOMAIN s : s[j] \in S
  OBVIOUS
<1>2. DOMAIN t = DOMAIN s /\ \A j \in DOMAIN s : t[j] = IF j = k THEN v ELSE s[j]
  OBVIOUS
<1>3. t \in [1 .. Len(s) -> S]
  BY <1>1, <1>2
<1>4. t \in Seq(S)
  BY <1>1, <1>3, SeqDef
<1> QED BY <1>2, <1>4

\* A row inserted.
LEMMA SequenceAppended ==
  ASSUME NEW S, NEW s \in Seq(S), NEW v \in S
  PROVE  /\ Append(s, v) \in Seq(S)
         /\ Len(s) \in Nat /\ DOMAIN s = 1 .. Len(s)
         /\ DOMAIN Append(s, v) = DOMAIN s \cup {Len(s) + 1}
         /\ Len(s) + 1 \notin DOMAIN s
         /\ \A j \in DOMAIN s : Append(s, v)[j] = s[j]
         /\ Append(s, v)[Len(s) + 1] = v
OBVIOUS

\* Every row rewritten, as by one UPDATE.
LEMMA SequenceRewritten ==
  ASSUME NEW S, NEW s \in Seq(S), NEW t, DOMAIN t = DOMAIN s,
         t = [i \in DOMAIN t |-> t[i]], \A i \in DOMAIN s : t[i] \in S
  PROVE  t \in Seq(S) /\ Len(t) = Len(s)
<1>1. Len(s) \in Nat /\ DOMAIN s = 1 .. Len(s)
  OBVIOUS
<1>2. t \in [1 .. Len(s) -> S]
  BY <1>1
<1>3. t \in Seq(S)
  BY <1>1, <1>2, SeqDef
<1>4. Len(t) = Len(s)
  BY <1>1, <1>3
<1> QED BY <1>3, <1>4

\* At most one: a set whose members are all the same.
LEMMA OneAtMost ==
  ASSUME NEW S, \A x, y \in S : x = y
  PROVE  Cardinality(S) <= 1
<1>1. CASE S = {}
  BY <1>1, FS_EmptySet
<1>2. CASE S # {}
  <2>1. PICK x \in S : TRUE
    BY <1>2
  <2>2. S = {x}
    BY <2>1
  <2>3. Cardinality(S) = 1
    BY <2>2, FS_Singleton
  <2> QED BY <2>3
<1> QED BY <1>1, <1>2

\* The members of a finite set of numbers are ranked from one to their number.
LEMMA Ranked ==
  ASSUME NEW S, S \subseteq Nat, IsFiniteSet(S), NEW k \in 1 .. Cardinality(S)
  PROVE  \E n \in S : Cardinality({m \in S : m <= n}) = k
<1> DEFINE Upto(n) == {m \in S : m <= n}
           rank == [n \in S |-> Cardinality(Upto(n))]
           C == Cardinality(S)
<1>1. C \in Nat /\ IsFiniteSet(1 .. C) /\ Cardinality(1 .. C) = C
  BY FS_CardinalityType, FS_Interval
<1>2. ASSUME NEW n \in S PROVE IsFiniteSet(Upto(n)) /\ rank[n] \in 1 .. C
  <2>1. IsFiniteSet(Upto(n)) /\ Cardinality(Upto(n)) <= C
    BY FS_Subset
  <2>2. Cardinality(Upto(n)) \in Nat
    BY <2>1, FS_CardinalityType
  <2>3. n \in Upto(n)
    OBVIOUS
  <2>4. Cardinality(Upto(n)) # 0
    BY <2>1, <2>3, FS_EmptySet
  <2> QED BY <1>1, <2>1, <2>2, <2>4
<1>3. ASSUME NEW n \in S, NEW m \in S, m < n PROVE rank[m] # rank[n]
  <2>1. n \in Upto(n) /\ n \notin Upto(m)
    BY <1>3
  <2>2. Upto(m) \subseteq Upto(n)
    <3>1. \A x \in S : x <= m => x <= n
      BY <1>3
    <3> QED BY <3>1
  <2>3. IsFiniteSet(Upto(n))
    BY <1>2
  <2>4. Cardinality(Upto(n)) # Cardinality(Upto(m))
    <3> HIDE DEF Upto
    <3> QED BY <2>1, <2>2, <2>3, FS_Subset
  <2> QED BY <2>4
<1>4. rank \in Injection(S, 1 .. C)
  <2>1. rank \in [S -> 1 .. C]
    BY <1>2
  <2>2. \A m, n \in S : rank[m] = rank[n] => m = n
    <3> HIDE DEF rank
    <3>1. \A m, n \in S : m < n \/ n < m \/ m = n
      OBVIOUS
    <3> QED BY <1>3, <3>1
  <2> QED BY <2>1, <2>2 DEF Injection, IsInjective
<1>5. rank \in Surjection(S, 1 .. C)
  <2> HIDE DEF rank
  <2> QED BY <1>1, <1>4, FS_Injection
<1>6. \E n \in S : rank[n] = k
  BY <1>5 DEF Surjection
<1> QED BY <1>6

\* The head of a queue moved to the end of what was taken from it before.
LEMMA HeadMoved ==
  ASSUME NEW S, NEW a \in Seq(S), NEW b \in Seq(S), b # <<>>
  PROVE  Append(a, Head(b)) \o Tail(b) = a \o b
<1>1. PICK h \in S, t \in Seq(S) : h = Head(b) /\ t = Tail(b)
  BY HeadTailProperties
<1>2. <<h>> \in Seq(S)
  OBVIOUS
<1>3. Append(a, h) = a \o <<h>>
  BY AppendIsConcat
<1>4. (a \o <<h>>) \o t = a \o (<<h>> \o t)
  BY <1>2, ConcatAssociative
<1>5. <<h>> \o t = b
  <2>1. Len(<<h>>) = 1 /\ <<h>>[1] = h /\ Len(b) \in Nat /\ Len(b) >= 1 /\ b[1] = h
        /\ Len(t) = Len(b) - 1 /\ \A i \in 1 .. Len(t) : t[i] = b[i + 1]
    BY <1>1, HeadTailProperties
  <2>2. /\ <<h>> \o t \in Seq(S) /\ Len(<<h>> \o t) = Len(b)
        /\ \A i \in 1 .. Len(b) :
             (<<h>> \o t)[i] = IF i <= 1 THEN <<h>>[i] ELSE t[i - 1]
    BY <1>2, <2>1, ConcatProperties
  <2>3. \A i \in 1 .. Len(b) : (<<h>> \o t)[i] = b[i]
    BY <2>1, <2>2
  <2> QED BY <2>2, <2>3, SeqEqual
<1> QED BY <1>1, <1>3, <1>4, <1>5

---------------------------------------------------------------------------
(* Sums.  SumFunctionOnSet(f, S) takes the members of S one after another, *)
(* in an order of its own; the lemmas say that the order does not matter.  *)

\* A set of natural numbers has a least one.
LEMMA LeastNatural ==
  ASSUME NEW T \in SUBSET Nat, T # {}
  PROVE  \E x \in T : \A y \in T : x <= y
<1>1. PICK x \in T : \A y \in T : <<y, x>> \notin OpToRel(<, Nat)
  BY NatLessThanWellFounded, WFMin
<1>2. \A y \in T : ~(y < x)
  BY <1>1 DEF OpToRel
<1> QED BY <1>2

First(s) == CHOOSE x \in s : TRUE

Small(S, n) == {s \in SUBSET S : Cardinality(s) <= n}

\* g is the sum of f over each set of D.
Sums(g, f, D) ==
  \A s \in D : g[s] = IF s = {} THEN 0 ELSE f[First(s)] + g[s \ {First(s)}]

NumbersOn(f, S) == \A x \in S : f[x] \in Int
SameOn(f, e, S) == \A x \in S : f[x] = e[x]

LEMMA FirstRemoved ==
  ASSUME NEW S, IsFiniteSet(S), NEW s \in SUBSET S, s # {}
  PROVE  /\ First(s) \in s /\ s \ {First(s)} \in SUBSET S
         /\ Cardinality(s) \in Nat \ {0}
         /\ Cardinality(s \ {First(s)}) = Cardinality(s) - 1
<1>1. First(s) \in s
  BY DEF First
<1>2. IsFiniteSet(s)
  BY FS_Subset
<1>3. Cardinality(s) \in Nat /\ Cardinality(s) # 0
  BY <1>2, FS_CardinalityType, FS_EmptySet
<1>4. Cardinality(s \ {First(s)}) = Cardinality(s) - 1
  BY <1>1, <1>2, FS_RemoveElement
<1> QED BY <1>1, <1>3, <1>4

LEMMA SumsOfSmall ==
  ASSUME NEW S, IsFiniteSet(S), NEW f, NumbersOn(f, S), NEW n \in Nat
  PROVE  \E g \in [Small(S, n) -> Int] : Sums(g, f, Small(S, n))
<1> DEFINE Exists(m) == \E g \in [Small(S, m) -> Int] : Sums(g, f, Small(S, m))
           bad == {m \in Nat : ~Exists(m)}
<1>1. Exists(0)
  <2> DEFINE g == [s \in Small(S, 0) |-> 0]
  <2>1. \A s \in Small(S, 0) : s = {}
    <3> SUFFICES ASSUME NEW s \in SUBSET S, Cardinality(s) <= 0, s # {} PROVE FALSE
      BY DEF Small
    <3>1. Cardinality(s) \in Nat \ {0}
      BY FirstRemoved
    <3> QED BY <3>1
  <2>2. g \in [Small(S, 0) -> Int] /\ Sums(g, f, Small(S, 0))
    BY <2>1 DEF Sums
  <2> QED BY <2>2
<1>2. ASSUME NEW m \in Nat, Exists(m) PROVE Exists(m + 1)
  <2>1. PICK g \in [Small(S, m) -> Int] : Sums(g, f, Small(S, m))
    BY <1>2
  <2> DEFINE D == Small(S, m + 1)
             h == [s \in D |-> IF s = {} THEN 0 ELSE f[First(s)] + g[s \ {First(s)}]]
  <2>2. ASSUME NEW s \in D, s # {}
        PROVE  First(s) \in S /\ s \ {First(s)} \in Small(S, m) /\ s \ {First(s)} \in D
    BY <2>2, FirstRemoved DEF Small
  <2>3. h \in [D -> Int]
    BY <2>1, <2>2 DEF NumbersOn
  <2>4. \A s \in Small(S, m) : s \in D /\ h[s] = g[s]
    <3>1. \A s \in Small(S, m) : s \in D
      <4> SUFFICES ASSUME NEW s \in SUBSET S, Cardinality(s) <= m PROVE Cardinality(s) <= m + 1
        BY DEF Small
      <4>1. Cardinality(s) \in Nat
        BY FS_Subset, FS_CardinalityType
      <4> QED BY <4>1
    <3> QED BY <2>1, <3>1 DEF Sums
  <2> HIDE DEF D
  <2>5. Sums(h, f, D)
    BY <2>2, <2>4 DEF Sums
  <2> HIDE DEF h
  <2> QED BY <2>3, <2>5 DEF D
<1> HIDE DEF Exists
<1>3. bad = {}
  <2> SUFFICES ASSUME bad # {} PROVE FALSE
    OBVIOUS
  <2>1. PICK m \in bad : \A k \in bad : m <= k
    BY LeastNatural
  <2>2. m \in Nat /\ m # 0
    BY <1>1
  <2>3. m - 1 \in Nat /\ m - 1 \notin bad
    BY <2>1, <2>2
  <2>4. Exists(m - 1 + 1)
    BY <1>2, <2>3
  <2> QED BY <2>1, <2>2, <2>4
<1>4. Exists(n)
  BY <1>3
<1> QED BY <1>4 DEF Exists

\* Two such sums agree on the sets that both are of.
LEMMA SumsAgree ==
  ASSUME NEW S, IsFiniteSet(S), NEW T, NEW f, NEW e, SameOn(f, e, S \cap T),
         NEW g, Sums(g, f, SUBSET S), NEW h, Sums(h, e, SUBSET T)
  PROVE  SameOn(g, h, SUBSET (S \cap T))
<1> DEFINE bad == {s \in SUBSET (S \cap T) : g[s] # h[s]}
           cards == {Cardinality(s) : s \in bad}
<1>1. \A s \in SUBSET (S \cap T) : s \in SUBSET S /\ s \in SUBSET T
  OBVIOUS
<1>2. cards \in SUBSET Nat
  BY <1>1, FS_Subset, FS_CardinalityType
<1>3. ASSUME cards # {} PROVE FALSE
  <2>1. PICK m \in cards : \A k \in cards : m <= k
    BY <1>2, <1>3, LeastNatural
  <2>2. PICK s \in bad : m = Cardinality(s)
    BY <2>1
  <2>3. s # {}
    BY <2>2 DEF Sums
  <2>4. /\ First(s) \in s /\ Cardinality(s) \in Nat
        /\ Cardinality(s \ {First(s)}) = Cardinality(s) - 1
    BY <1>1, <2>2, <2>3, FirstRemoved
  <2>5. s \ {First(s)} \notin bad
    <3>1. Cardinality(s \ {First(s)}) \notin cards
      BY <2>1, <2>2, <2>4
    <3> QED BY <3>1
  <2>6. g[s \ {First(s)}] = h[s \ {First(s)}]
    BY <2>2, <2>5
  <2>7. f[First(s)] = e[First(s)]
    BY <2>2, <2>4 DEF SameOn
  <2>8. g[s] = h[s]
    BY <1>1, <2>2, <2>3, <2>6, <2>7 DEF Sums
  <2> QED BY <2>2, <2>8
<1>4. \A s \in SUBSET (S \cap T) : g[s] = h[s]
  BY <1>3
<1> QED BY <1>4 DEF SameOn

\* g is the sum of f over S and over each subset.
IsSum(g, f, S) == /\ g \in [SUBSET S -> Int]
                  /\ Sums(g, f, SUBSET S)
                  /\ SumFunctionOnSet(f, S) = g[S]

\* The sum is what it is meant to be, for the subsets too.
LEMMA SumDefined ==
  ASSUME NEW S, IsFiniteSet(S), NEW f, NumbersOn(f, S)
  PROVE  \E g : IsSum(g, f, S)
<1> DEFINE C == Cardinality(S)
           P(g) == g = [s \in SUBSET S |->
                          IF s = {} THEN 0
                          ELSE f[CHOOSE x \in s : TRUE] + g[s \ {CHOOSE x \in s : TRUE}]]
<1>1. Small(S, C) = SUBSET S /\ C \in Nat
  BY FS_Subset, FS_CardinalityType DEF Small
<1>2. PICK g \in [SUBSET S -> Int] : Sums(g, f, SUBSET S)
  <2>1. \E g \in [Small(S, C) -> Int] : Sums(g, f, Small(S, C))
    <3> HIDE DEF C
    <3> QED BY <1>1, SumsOfSmall
  <2> QED BY <1>1, <2>1
<1>3. P(g)
  BY <1>2 DEF Sums, First
<1>4. SumFunctionOnSet(f, S) = (CHOOSE h : P(h))[S]
  BY Zenon DEF SumFunctionOnSet, FoldFunctionOnSet, MapThenFoldSet
<1> DEFINE h == CHOOSE h : P(h)
<1>5. P(h)
  <2> HIDE DEF P
  <2> QED BY <1>3
<1>6. Sums(h, f, SUBSET S) /\ h = [s \in SUBSET S |-> h[s]]
  <2> HIDE DEF h
  <2> QED BY <1>5 DEF Sums, First
<1> HIDE DEF h, P
<1>7. SameOn(h, g, SUBSET (S \cap S))
  <2>1. SameOn(f, f, S \cap S)
    BY DEF SameOn
  <2> QED BY <1>2, <1>6, <2>1, SumsAgree
<1>8. h[S] = g[S]
  BY <1>7 DEF SameOn
<1> QED BY <1>2, <1>4, <1>8 DEF h, IsSum

\* Any member may be taken first.
LEMMA AnyFirst ==
  ASSUME NEW S, IsFiniteSet(S), NEW f, NumbersOn(f, S),
         NEW g, IsSum(g, f, S), NEW s \in SUBSET S, NEW x \in s
  PROVE  g[s] = f[x] + g[s \ {x}]
<1>0. g \in [SUBSET S -> Int] /\ Sums(g, f, SUBSET S)
  BY DEF IsSum
<1> DEFINE bad == {t \in SUBSET S : \E y \in t : g[t] # f[y] + g[t \ {y}]}
           cards == {Cardinality(t) : t \in bad}
<1>1. cards \in SUBSET Nat
  BY FS_Subset, FS_CardinalityType
<1>2. ASSUME cards # {} PROVE FALSE
  <2>1. PICK m \in cards : \A k \in cards : m <= k
    BY <1>1, <1>2, LeastNatural
  <2>2. PICK t \in bad : m = Cardinality(t)
    BY <2>1
  <2>3. PICK y \in t : g[t] # f[y] + g[t \ {y}]
    BY <2>2
  <2> DEFINE z == First(t)
  <2>4. /\ t \in SUBSET S /\ y \in S /\ z \in t /\ z \in S /\ IsFiniteSet(t)
        /\ Cardinality(t) \in Nat
    BY <2>2, <2>3, FirstRemoved, FS_Subset
  <2>5. g[t] = f[z] + g[t \ {z}]
    BY <1>0, <2>3, <2>4 DEF Sums
  <2> HIDE DEF z
  <2>6. y # z
    BY <2>3, <2>5
  <2>7. /\ Cardinality(t \ {z}) = Cardinality(t) - 1
        /\ Cardinality(t \ {y}) = Cardinality(t) - 1
    BY <2>4, FS_RemoveElement
  <2>8. t \ {z} \notin bad /\ t \ {y} \notin bad
    <3>1. Cardinality(t) - 1 < m
      BY <2>2, <2>4
    <3>2. Cardinality(t) - 1 \notin cards
      <4> HIDE DEF cards
      <4> QED BY <1>1, <2>1, <2>4, <3>1
    <3> QED BY <2>7, <3>2
  <2>9. /\ t \ {z} \in SUBSET S /\ t \ {y} \in SUBSET S
        /\ y \in t \ {z} /\ z \in t \ {y}
    BY <2>4, <2>6
  <2>10. g[t \ {z}] = f[y] + g[(t \ {z}) \ {y}]
    BY <2>8, <2>9
  <2>11. g[t \ {y}] = f[z] + g[(t \ {y}) \ {z}]
    BY <2>8, <2>9
  <2>12. (t \ {z}) \ {y} = (t \ {y}) \ {z} /\ (t \ {z}) \ {y} \in SUBSET S
    BY <2>4
  <2>13. f[y] \in Int /\ f[z] \in Int /\ g[(t \ {z}) \ {y}] \in Int
    BY <1>0, <2>4, <2>12 DEF NumbersOn
  <2>14. \A a, b, c \in Int : a + (b + c) = b + (a + c)
    OBVIOUS
  <2>15. g[t] = f[y] + (f[z] + g[(t \ {z}) \ {y}])
    BY <2>5, <2>10, <2>13, <2>14
  <2> QED BY <2>3, <2>11, <2>12, <2>15
<1> QED BY <1>2

LEMMA SumTyped ==
  ASSUME NEW S, IsFiniteSet(S), NEW f, NumbersOn(f, S)
  PROVE  SumFunctionOnSet(f, S) \in Int
<1>1. \E g : IsSum(g, f, S)
  BY SumDefined
<1>2. S \in SUBSET S
  OBVIOUS
<1> QED BY <1>1, <1>2 DEF IsSum

LEMMA SumOfNone == ASSUME NEW f PROVE SumFunctionOnSet(f, {}) = 0
<1>1. NumbersOn(f, {})
  BY DEF NumbersOn
<1>2. \E g : IsSum(g, f, {})
  BY <1>1, SumDefined, FS_EmptySet
<1> QED BY <1>2 DEF IsSum, Sums

\* The sum depends on the values only.
LEMMA SumOfSame ==
  ASSUME NEW S, IsFiniteSet(S), NEW f, NEW e, NumbersOn(f, S), SameOn(f, e, S)
  PROVE  SumFunctionOnSet(f, S) = SumFunctionOnSet(e, S)
<1>1. PICK g : IsSum(g, f, S)
  BY SumDefined
<1>2. PICK h : IsSum(h, e, S)
  <2>1. NumbersOn(e, S)
    BY DEF NumbersOn, SameOn
  <2> QED BY <2>1, SumDefined
<1>3. SameOn(g, h, SUBSET (S \cap S))
  <2>1. SameOn(f, e, S \cap S)
    BY DEF SameOn
  <2> QED BY <1>1, <1>2, <2>1, SumsAgree DEF IsSum
<1> QED BY <1>1, <1>2, <1>3 DEF IsSum, SameOn

\* One member more.
LEMMA SumOfMore ==
  ASSUME NEW S, IsFiniteSet(S), NEW x, x \notin S, NEW f, NumbersOn(f, S \cup {x})
  PROVE  SumFunctionOnSet(f, S \cup {x}) = SumFunctionOnSet(f, S) + f[x]
<1> DEFINE T == S \cup {x}
<1>1. IsFiniteSet(T) /\ T \ {x} = S /\ S \in SUBSET T /\ T \in SUBSET T /\ x \in T
  BY FS_AddElement
<1>2. NumbersOn(f, S) /\ f[x] \in Int
  BY DEF NumbersOn
<1>3. SumFunctionOnSet(f, T) = SumFunctionOnSet(f, S) + f[x]
  <2>1. NumbersOn(f, T)
    OBVIOUS
  <2> HIDE DEF T
  <2>2. PICK g : IsSum(g, f, T)
    BY <1>1, <2>1, SumDefined
  <2>3. PICK h : IsSum(h, f, S)
    BY <1>2, SumDefined
  <2>4. g[T] = f[x] + g[T \ {x}]
    BY <1>1, <2>1, <2>2, AnyFirst
  <2>5. SameOn(g, h, SUBSET (T \cap S))
    <3>1. SameOn(f, f, T \cap S)
      BY DEF SameOn
    <3> QED BY <1>1, <2>2, <2>3, <3>1, SumsAgree DEF IsSum
  <2>6. S \in SUBSET (T \cap S) /\ h[S] \in Int
    BY <1>1, <2>3 DEF IsSum
  <2>7. g[S] = h[S]
    BY <2>5, <2>6 DEF SameOn
  <2>8. g[T] = f[x] + h[S]
    BY <1>1, <2>4, <2>7
  <2>9. SumFunctionOnSet(f, T) = g[T] /\ SumFunctionOnSet(f, S) = h[S]
    BY <2>2, <2>3 DEF IsSum
  <2> QED BY <1>2, <2>6, <2>8, <2>9
<1> QED BY <1>3

\* A term added to those summed over, for the sums it belongs to and for the others.
LEMMA SumGrown ==
  ASSUME NEW S, IsFiniteSet(S), NEW x, x \notin S, NEW f, NEW e,
         NumbersOn(f, S), SameOn(f, e, S), e[x] \in Int, NEW D \in SUBSET S
  PROVE  /\ SumFunctionOnSet(f, D) \in Int
         /\ SumFunctionOnSet(e, D) = SumFunctionOnSet(f, D)
         /\ SumFunctionOnSet(e, D \cup {x}) = SumFunctionOnSet(f, D) + e[x]
<1>1. IsFiniteSet(D) /\ x \notin D
  BY FS_Subset
<1>2. \A i \in D : f[i] \in Int /\ f[i] = e[i]
  BY DEF NumbersOn, SameOn
<1>3. NumbersOn(f, D) /\ SameOn(f, e, D)
  BY <1>2 DEF NumbersOn, SameOn
<1>4. \A i \in D \cup {x} : e[i] \in Int
  <2> SUFFICES ASSUME NEW i \in D \cup {x} PROVE e[i] \in Int
    OBVIOUS
  <2>1. CASE i \in D
    BY <1>2, <2>1
  <2>2. CASE i = x
    BY <2>2
  <2> QED BY <2>1, <2>2
<1>5. NumbersOn(e, D \cup {x})
  BY <1>4 DEF NumbersOn
<1>6. SumFunctionOnSet(f, D) \in Int /\ SumFunctionOnSet(f, D) = SumFunctionOnSet(e, D)
  BY <1>1, <1>3, SumTyped, SumOfSame
<1>7. SumFunctionOnSet(e, D \cup {x}) = SumFunctionOnSet(e, D) + e[x]
  BY <1>1, <1>5, SumOfMore
<1> QED BY <1>6, <1>7

\* What is true of the members of a concatenation is true of those of its parts.
LEMMA PartsOfWhole ==
  ASSUME NEW S, NEW a \in Seq(S), NEW b \in Seq(S), NEW D,
         \A k \in DOMAIN (a \o b) : (a \o b)[k] \in D
  PROVE  a \in Seq(D) /\ b \in Seq(D)
<1>1. /\ Len(a) \in Nat /\ Len(b) \in Nat /\ Len(a \o b) = Len(a) + Len(b)
      /\ DOMAIN a = 1 .. Len(a) /\ DOMAIN b = 1 .. Len(b) /\ DOMAIN (a \o b) = 1 .. Len(a \o b)
      /\ \A i \in 1 .. Len(a \o b) : (a \o b)[i] = IF i <= Len(a) THEN a[i] ELSE b[i - Len(a)]
  BY ConcatProperties
<1>2. \A i \in 1 .. Len(a) : a[i] \in D
  <2> SUFFICES ASSUME NEW i \in 1 .. Len(a) PROVE a[i] \in D
    OBVIOUS
  <2>1. i \in DOMAIN (a \o b) /\ (a \o b)[i] = a[i]
    BY <1>1
  <2> QED BY <2>1
<1>3. \A i \in 1 .. Len(b) : b[i] \in D
  <2> SUFFICES ASSUME NEW i \in 1 .. Len(b) PROVE b[i] \in D
    OBVIOUS
  <2>1. Len(a) + i \in DOMAIN (a \o b) /\ (a \o b)[Len(a) + i] = b[i]
    BY <1>1
  <2> QED BY <2>1
<1>4. a \in [1 .. Len(a) -> D] /\ b \in [1 .. Len(b) -> D]
  BY <1>1, <1>2, <1>3
<1> QED BY <1>1, <1>4, SeqDef

\* A sum of natural numbers is one: a smallest set whose sum is not would have one less.
LEMMA SumNat ==
  ASSUME NEW S, IsFiniteSet(S), NEW f, \A x \in S : f[x] \in Nat
  PROVE  SumFunctionOnSet(f, S) \in Nat
<1>1. NumbersOn(f, S)
  BY DEF NumbersOn
<1>2. PICK g : IsSum(g, f, S)
  BY <1>1, SumDefined
<1> DEFINE bad == {s \in SUBSET S : g[s] \notin Nat}
           cards == {Cardinality(s) : s \in bad}
<1>3. cards \in SUBSET Nat
  BY FS_Subset, FS_CardinalityType
<1>4. ASSUME cards # {} PROVE FALSE
  <2>1. PICK m \in cards : \A k \in cards : m <= k
    BY <1>3, <1>4, LeastNatural
  <2>2. PICK s \in bad : m = Cardinality(s)
    BY <2>1
  <2>3. s # {}
    <3>1. {} \in SUBSET S
      OBVIOUS
    <3>2. g[{}] = 0
      BY <1>2, <3>1 DEF IsSum, Sums
    <3> QED BY <2>2, <3>2
  <2>4. /\ First(s) \in s /\ s \ {First(s)} \in SUBSET S /\ Cardinality(s) \in Nat
        /\ Cardinality(s \ {First(s)}) = Cardinality(s) - 1
    BY <2>2, <2>3, FirstRemoved
  <2>5. s \ {First(s)} \notin bad
    <3>1. Cardinality(s \ {First(s)}) < m /\ m \in Nat
      BY <1>3, <2>2, <2>4
    <3>2. Cardinality(s \ {First(s)}) \notin cards
      <4>1. \A k \in cards : k \in Nat /\ m <= k
        BY <1>3, <2>1
      <4> DEFINE k == Cardinality(s \ {First(s)})
      <4> HIDE DEF cards, k
      <4>2. k < m /\ m \in Nat
        BY <3>1 DEF k
      <4>3. k \notin cards
        BY <4>1, <4>2
      <4> QED BY <4>3 DEF k
    <3> QED BY <3>2
  <2>6. g[s \ {First(s)}] \in Nat /\ f[First(s)] \in Nat
    BY <2>2, <2>4, <2>5
  <2>7. g[s] = f[First(s)] + g[s \ {First(s)}]
    BY <1>2, <2>2, <2>3 DEF IsSum, Sums
  <2> QED BY <2>2, <2>6, <2>7
<1>5. g[S] \in Nat
  BY <1>4
<1> QED BY <1>2, <1>5 DEF IsSum

\* Multiples sum to the multiple: likewise.
LEMMA SumScaled ==
  ASSUME NEW S, IsFiniteSet(S), NEW f, NEW e, NEW k \in Int, NumbersOn(f, S),
         \A x \in S : e[x] = k * f[x]
  PROVE  SumFunctionOnSet(e, S) = k * SumFunctionOnSet(f, S)
<1>1. NumbersOn(e, S)
  <2> SUFFICES ASSUME NEW x \in S PROVE e[x] \in Int
    BY DEF NumbersOn
  <2>1. f[x] \in Int
    BY DEF NumbersOn
  <2> QED BY <2>1
<1>2. PICK g : IsSum(g, f, S)
  BY SumDefined
<1>3. PICK h : IsSum(h, e, S)
  BY <1>1, SumDefined
<1> DEFINE bad == {s \in SUBSET S : h[s] # k * g[s]}
           cards == {Cardinality(s) : s \in bad}
<1>4. cards \in SUBSET Nat
  BY FS_Subset, FS_CardinalityType
<1>5. ASSUME cards # {} PROVE FALSE
  <2>1. PICK m \in cards : \A n \in cards : m <= n
    BY <1>4, <1>5, LeastNatural
  <2>2. PICK s \in bad : m = Cardinality(s)
    BY <2>1
  <2>3. s # {}
    <3>1. {} \in SUBSET S
      OBVIOUS
    <3>2. g[{}] = 0 /\ h[{}] = 0
      BY <1>2, <1>3, <3>1 DEF IsSum, Sums
    <3>3. k * 0 = 0
      OBVIOUS
    <3>4. h[{}] = k * g[{}]
      BY <3>2, <3>3
    <3> QED BY <2>2, <3>4
  <2> DEFINE x == First(s)
             rest == s \ {x}
  <2>4. /\ x \in s /\ rest \in SUBSET S /\ Cardinality(s) \in Nat
        /\ Cardinality(rest) = Cardinality(s) - 1
    BY <2>2, <2>3, FirstRemoved
  <2>5. g[s] = f[x] + g[rest] /\ h[s] = e[x] + h[rest]
    BY <1>2, <1>3, <2>2, <2>3 DEF IsSum, Sums
  <2> HIDE DEF x, rest
  <2>6. h[rest] = k * g[rest]
    <3>1. Cardinality(rest) < m /\ m \in Nat
      BY <1>4, <2>2, <2>4
    <3>2. Cardinality(rest) \notin cards
      <4>1. \A n \in cards : n \in Nat /\ m <= n
        BY <1>4, <2>1
      <4> DEFINE c == Cardinality(rest)
      <4> HIDE DEF cards, c
      <4>2. c < m /\ m \in Nat
        BY <3>1 DEF c
      <4>3. c \notin cards
        <5> SUFFICES ASSUME c \in cards PROVE FALSE
          OBVIOUS
        <5>1. c \in Nat /\ m <= c
          BY <4>1
        <5> QED BY <4>2, <5>1
      <4> QED BY <4>3 DEF c
    <3> QED BY <2>4, <3>2
  <2>7. e[x] = k * f[x] /\ f[x] \in Int /\ g[rest] \in Int
    BY <1>2, <2>2, <2>4 DEF NumbersOn, IsSum
  <2>8. k * f[x] + k * g[rest] = k * (f[x] + g[rest])
    BY <2>7
  <2>9. h[s] = k * g[s]
    BY <2>5, <2>6, <2>7, <2>8
  <2> QED BY <2>2, <2>9
<1>6. h[S] = k * g[S]
  BY <1>5
<1> QED BY <1>2, <1>3, <1>6 DEF IsSum

\* The same for SumFunction, which sums over the whole domain.
LEMMA TotalTyped ==
  ASSUME NEW f, IsFiniteSet(DOMAIN f), \A x \in DOMAIN f : f[x] \in Int
  PROVE  /\ SumFunction(f) \in Int
         /\ (\A x \in DOMAIN f : f[x] \in Nat) => SumFunction(f) \in Nat
<1> DEFINE S == DOMAIN f
<1>1. NumbersOn(f, S)
  BY DEF NumbersOn
<1>2. SumFunction(f) = SumFunctionOnSet(f, S)
  BY DEF SumFunction
<1>3. IsFiniteSet(S)
  OBVIOUS
<1>4. SumFunctionOnSet(f, S) \in Int
  BY <1>1, <1>3, SumTyped
<1>5. (\A x \in S : f[x] \in Nat) => SumFunctionOnSet(f, S) \in Nat
  BY <1>3, SumNat
<1> QED BY <1>2, <1>4, <1>5

LEMMA TotalOfNone == ASSUME NEW f, DOMAIN f = {} PROVE SumFunction(f) = 0
BY SumOfNone DEF SumFunction

LEMMA TotalOfOne ==
  ASSUME NEW f, NEW a, DOMAIN f = {a}, f[a] \in Int
  PROVE  SumFunction(f) = f[a]
<1> DEFINE S == {}
           T == S \cup {a}
<1>1. T = {a}
  OBVIOUS
<1>2. IsFiniteSet(S) /\ a \notin S
  BY FS_EmptySet
<1>3. NumbersOn(f, T)
  BY <1>1 DEF NumbersOn
<1>4. SumFunctionOnSet(f, S) = 0
  BY SumOfNone
<1> HIDE DEF S
<1>5. SumFunctionOnSet(f, T) = SumFunctionOnSet(f, S) + f[a]
  BY <1>2, <1>3, SumOfMore
<1> HIDE DEF T
<1> QED BY <1>1, <1>4, <1>5 DEF SumFunction

LEMMA TotalGrown ==
  ASSUME NEW S, IsFiniteSet(S), NEW x, x \notin S, NEW f, NEW e,
         DOMAIN f = S, DOMAIN e = S \cup {x}, NumbersOn(f, S), SameOn(f, e, S), e[x] \in Int
  PROVE  SumFunction(e) = SumFunction(f) + e[x]
<1>1. S \in SUBSET S
  OBVIOUS
<1>2. SumFunctionOnSet(e, S \cup {x}) = SumFunctionOnSet(f, S) + e[x]
  BY <1>1, SumGrown
<1> QED BY <1>2 DEF SumFunction

\* What holds of the empty set and of one member more holds of a finite set: P is the
\* set of the parts it holds of.
LEMMA PartsInduction ==
  ASSUME NEW S, IsFiniteSet(S), NEW P, {} \in P,
         \A s \in SUBSET S : \A x \in S \ s : s \in P => s \cup {x} \in P
  PROVE  S \in P
<1> DEFINE bad == {s \in SUBSET S : s \notin P}
           cards == {Cardinality(s) : s \in bad}
<1>1. cards \in SUBSET Nat
  BY FS_Subset, FS_CardinalityType
<1>2. ASSUME cards # {} PROVE FALSE
  <2>1. PICK m \in cards : \A k \in cards : m <= k
    BY <1>1, <1>2, LeastNatural
  <2>2. PICK s \in bad : m = Cardinality(s)
    BY <2>1
  <2>3. PICK x \in s : TRUE
    BY <2>2
  <2>4. /\ IsFiniteSet(s) /\ Cardinality(s) \in Nat /\ s \ {x} \in SUBSET S /\ x \in S \ (s \ {x})
        /\ Cardinality(s \ {x}) = Cardinality(s) - 1 /\ (s \ {x}) \cup {x} = s
    <3>1. s \in SUBSET S /\ x \in s
      BY <2>2, <2>3
    <3>2. IsFiniteSet(s)
      BY <3>1, FS_Subset
    <3>3. Cardinality(s) \in Nat /\ Cardinality(s \ {x}) = Cardinality(s) - 1
      BY <3>1, <3>2, FS_CardinalityType, FS_RemoveElement
    <3> HIDE DEF bad, cards
    <3> QED BY <3>1, <3>2, <3>3
  <2>5. s \ {x} \notin bad
    <3>1. Cardinality(s) - 1 < m
      BY <2>2, <2>4
    <3>2. Cardinality(s) - 1 \notin cards
      <4> HIDE DEF cards
      <4> QED BY <1>1, <2>1, <2>4, <3>1
    <3> QED BY <2>4, <3>2
  <2>6. (s \ {x}) \cup {x} \in P
    <3>1. s \ {x} \in P
      BY <2>4, <2>5
    <3> HIDE DEF bad, cards
    <3> QED BY <2>4, <3>1
  <2> QED BY <2>2, <2>4, <2>6
<1> QED BY <1>2

\* The sum over two sets apart.
LEMMA SumOfBoth ==
  ASSUME NEW A, IsFiniteSet(A), NEW B, IsFiniteSet(B), A \cap B = {},
         NEW f, NumbersOn(f, A \cup B)
  PROVE  SumFunctionOnSet(f, A \cup B) = SumFunctionOnSet(f, A) + SumFunctionOnSet(f, B)
<1> DEFINE P == {s \in SUBSET B :
                   SumFunctionOnSet(f, A \cup s) = SumFunctionOnSet(f, A) + SumFunctionOnSet(f, s)}
<1>1. {} \in P
  <2>1. A \cup {} = A /\ NumbersOn(f, A)
    BY DEF NumbersOn
  <2>2. SumFunctionOnSet(f, {}) = 0 /\ SumFunctionOnSet(f, A) \in Int
    BY <2>1, SumOfNone, SumTyped
  <2>3. SumFunctionOnSet(f, A \cup {}) = SumFunctionOnSet(f, A)
    BY <2>1
  <2> QED BY <2>2, <2>3
<1>2. ASSUME NEW s \in SUBSET B, NEW x \in B \ s, s \in P PROVE s \cup {x} \in P
  <2>1. /\ IsFiniteSet(s) /\ IsFiniteSet(A \cup s) /\ x \notin A \cup s /\ x \notin s
        /\ NumbersOn(f, s) /\ NumbersOn(f, A) /\ NumbersOn(f, s \cup {x})
        /\ NumbersOn(f, (A \cup s) \cup {x}) /\ f[x] \in Int
    BY <1>2, FS_Subset, FS_Union DEF NumbersOn
  <2> DEFINE As == A \cup s
  <2>2. IsFiniteSet(As) /\ x \notin As /\ NumbersOn(f, As \cup {x}) /\ A \cup (s \cup {x}) = As \cup {x}
    BY <2>1
  <2>3. SumFunctionOnSet(f, As) = SumFunctionOnSet(f, A) + SumFunctionOnSet(f, s)
    BY <1>2
  <2> HIDE DEF As
  <2>4. SumFunctionOnSet(f, As \cup {x}) = SumFunctionOnSet(f, As) + f[x]
    BY <2>2, SumOfMore
  <2>5. SumFunctionOnSet(f, s \cup {x}) = SumFunctionOnSet(f, s) + f[x]
    BY <2>1, SumOfMore
  <2>6. SumFunctionOnSet(f, s) \in Int /\ SumFunctionOnSet(f, A) \in Int
    BY <2>1, SumTyped
  <2>7. SumFunctionOnSet(f, As \cup {x}) = SumFunctionOnSet(f, A) + SumFunctionOnSet(f, s \cup {x})
    BY <2>1, <2>3, <2>4, <2>5, <2>6
  <2>8. SumFunctionOnSet(f, A \cup (s \cup {x}))
          = SumFunctionOnSet(f, A) + SumFunctionOnSet(f, s \cup {x})
    BY <2>2, <2>7
  <2> QED BY <2>8
<1>3. B \in P
  <2>1. \A s \in SUBSET B : \A x \in B \ s : s \in P => s \cup {x} \in P
    BY <1>2
  <2> HIDE DEF P
  <2> QED BY <1>1, <2>1, PartsInduction
<1> QED BY <1>3

\* The sum of a sum.
LEMMA SumAdded ==
  ASSUME NEW S, IsFiniteSet(S), NEW f, NEW e, NEW g, NumbersOn(f, S), NumbersOn(e, S),
         \A x \in S : g[x] = f[x] + e[x]
  PROVE  SumFunctionOnSet(g, S) = SumFunctionOnSet(f, S) + SumFunctionOnSet(e, S)
<1> DEFINE P == {s \in SUBSET S :
                   SumFunctionOnSet(g, s) = SumFunctionOnSet(f, s) + SumFunctionOnSet(e, s)}
<1>0. NumbersOn(g, S)
  BY DEF NumbersOn
<1>1. {} \in P
  BY SumOfNone
<1>2. ASSUME NEW s \in SUBSET S, NEW x \in S \ s, s \in P PROVE s \cup {x} \in P
  <2>1. /\ IsFiniteSet(s) /\ x \notin s
        /\ NumbersOn(f, s) /\ NumbersOn(e, s) /\ NumbersOn(g, s)
        /\ NumbersOn(f, s \cup {x}) /\ NumbersOn(e, s \cup {x}) /\ NumbersOn(g, s \cup {x})
        /\ f[x] \in Int /\ e[x] \in Int /\ g[x] = f[x] + e[x]
    BY <1>0, <1>2, FS_Subset DEF NumbersOn
  <2>2. /\ SumFunctionOnSet(f, s \cup {x}) = SumFunctionOnSet(f, s) + f[x]
        /\ SumFunctionOnSet(e, s \cup {x}) = SumFunctionOnSet(e, s) + e[x]
        /\ SumFunctionOnSet(g, s \cup {x}) = SumFunctionOnSet(g, s) + g[x]
    BY <2>1, SumOfMore
  <2>3. SumFunctionOnSet(f, s) \in Int /\ SumFunctionOnSet(e, s) \in Int
    BY <2>1, SumTyped
  <2>4. SumFunctionOnSet(g, s) = SumFunctionOnSet(f, s) + SumFunctionOnSet(e, s)
    BY <1>2
  <2>5. SumFunctionOnSet(g, s \cup {x}) = SumFunctionOnSet(f, s \cup {x}) + SumFunctionOnSet(e, s \cup {x})
    BY <2>1, <2>2, <2>3, <2>4
  <2> QED BY <2>5
<1>3. S \in P
  <2>1. \A s \in SUBSET S : \A x \in S \ s : s \in P => s \cup {x} \in P
    BY <1>2
  <2> HIDE DEF P
  <2> QED BY <1>1, <2>1, PartsInduction
<1> QED BY <1>3


LEMMA SumOfZeros ==
  ASSUME NEW T, IsFiniteSet(T), NEW f, \A y \in T : f[y] = 0
  PROVE  SumFunctionOnSet(f, T) = 0
<1>1. NumbersOn(f, T) /\ \A y \in T : f[y] = f[y] + f[y]
  BY DEF NumbersOn
<1>2. SumFunctionOnSet(f, T) = SumFunctionOnSet(f, T) + SumFunctionOnSet(f, T)
  BY <1>1, SumAdded
<1>3. SumFunctionOnSet(f, T) \in Int
  BY <1>1, SumTyped
<1>4. \A k \in Int : k + k = k => k = 0
  OBVIOUS
<1>5. SumFunctionOnSet(f, T) + SumFunctionOnSet(f, T) = SumFunctionOnSet(f, T)
  BY <1>2, Zenon
<1> QED BY <1>3, <1>4, <1>5, Zenon

\* A table of numbers, by its rows f[x], and its sums.
Column(f, S, y) == [x \in S |-> f[x][y]]
IsTable(f, S, T) == \A x \in S : \A y \in T : f[x][y] \in Int
RowSums(f, S, T) == [x \in S |-> SumFunctionOnSet(f[x], T)]
ColumnSums(f, S, s, T) == [y \in T |-> SumFunctionOnSet(Column(f, S, y), s)]

LEMMA ColumnsGrown ==
  ASSUME NEW S, NEW s \in SUBSET S, IsFiniteSet(s), NEW x \in S \ s, NEW f, NEW T,
         IsTable(f, S, T)
  PROVE  \A y \in T : /\ ColumnSums(f, S, s, T)[y] \in Int
                      /\ ColumnSums(f, S, s \cup {x}, T)[y] = ColumnSums(f, S, s, T)[y] + f[x][y]
<1> SUFFICES ASSUME NEW y \in T
             PROVE  /\ SumFunctionOnSet(Column(f, S, y), s) \in Int
                    /\ SumFunctionOnSet(Column(f, S, y), s \cup {x})
                         = SumFunctionOnSet(Column(f, S, y), s) + f[x][y]
  BY DEF ColumnSums
<1>1. PICK g : g = Column(f, S, y)
  OBVIOUS
<1>2. \A z \in S : g[z] \in Int /\ g[z] = f[z][y]
  BY <1>1 DEF Column, IsTable
<1>3. NumbersOn(g, s) /\ NumbersOn(g, s \cup {x}) /\ g[x] = f[x][y]
  BY <1>2 DEF NumbersOn
<1>4. x \notin s
  OBVIOUS
<1>5. SumFunctionOnSet(g, s \cup {x}) = SumFunctionOnSet(g, s) + g[x]
  BY <1>3, <1>4, SumOfMore
<1>6. SumFunctionOnSet(g, s) \in Int
  BY <1>3, SumTyped
<1> QED BY <1>1, <1>3, <1>5, <1>6

\* Summed by rows or by columns.
LEMMA SumsExchanged ==
  ASSUME NEW S, IsFiniteSet(S), NEW T, IsFiniteSet(T), NEW f,
         IsTable(f, S, T)
  PROVE  SumFunctionOnSet(ColumnSums(f, S, S, T), T) = SumFunctionOnSet(RowSums(f, S, T), S)
<1> DEFINE P == {s \in SUBSET S : SumFunctionOnSet(ColumnSums(f, S, s, T), T)
                                    = SumFunctionOnSet(RowSums(f, S, T), s)}
<1>0. NumbersOn(RowSums(f, S, T), S)
  <2> SUFFICES ASSUME NEW x \in S PROVE SumFunctionOnSet(f[x], T) \in Int
    BY DEF NumbersOn, RowSums
  <2>1. NumbersOn(f[x], T)
    BY DEF NumbersOn, IsTable
  <2> QED BY <2>1, SumTyped
<1>1. {} \in P
  <2>1. PICK zero : zero = ColumnSums(f, S, {}, T)
    OBVIOUS
  <2>2. \A y \in T : zero[y] = 0
    BY <2>1, SumOfNone DEF ColumnSums
  <2>3. SumFunctionOnSet(zero, T) = 0
    BY <2>2, SumOfZeros
  <2> QED BY <2>1, <2>3, SumOfNone
<1>2. ASSUME NEW s \in SUBSET S, NEW x \in S \ s, s \in P PROVE s \cup {x} \in P
  <2>1. PICK rows : rows = RowSums(f, S, T)
    OBVIOUS
  <2>2. PICK before : before = ColumnSums(f, S, s, T)
    OBVIOUS
  <2>3. PICK after : after = ColumnSums(f, S, s \cup {x}, T)
    OBVIOUS
  <2>4. IsFiniteSet(s) /\ x \notin s /\ x \in S
    BY FS_Subset
  <2>5. NumbersOn(rows, s \cup {x}) /\ NumbersOn(rows, s)
    BY <1>0, <2>1, <2>4 DEF NumbersOn
  <2>6. SumFunctionOnSet(rows, s \cup {x}) = SumFunctionOnSet(rows, s) + rows[x]
    BY <2>4, <2>5, SumOfMore
  <2>7. \A y \in T : before[y] \in Int /\ after[y] = before[y] + f[x][y]
    <3> HIDE DEF P
    <3>1. IsFiniteSet(s)
      BY <2>4
    <3>2. \A y \in T : /\ ColumnSums(f, S, s, T)[y] \in Int
                      /\ ColumnSums(f, S, s \cup {x}, T)[y] = ColumnSums(f, S, s, T)[y] + f[x][y]
      BY <3>1, ColumnsGrown
    <3> QED BY <2>2, <2>3, <3>2
  <2>8. NumbersOn(before, T) /\ NumbersOn(f[x], T)
    BY <2>4, <2>7 DEF NumbersOn, IsTable
  <2>9. SumFunctionOnSet(after, T) = SumFunctionOnSet(before, T) + SumFunctionOnSet(f[x], T)
    BY <2>7, <2>8, SumAdded
  <2>10. rows[x] = SumFunctionOnSet(f[x], T)
    BY <2>1, <2>4 DEF RowSums
  <2>11. SumFunctionOnSet(before, T) = SumFunctionOnSet(rows, s)
    BY <1>2, <2>1, <2>2
  <2>12. SumFunctionOnSet(after, T) = SumFunctionOnSet(rows, s \cup {x})
    BY <2>6, <2>9, <2>10, <2>11
  <2> QED BY <2>1, <2>3, <2>4, <2>12
<1>3. S \in P
  <2>1. \A s \in SUBSET S : \A x \in S \ s : s \in P => s \cup {x} \in P
    BY <1>2
  <2> HIDE DEF P
  <2> QED BY <1>1, <2>1, PartsInduction
<1> QED BY <1>3
=============================================================================
