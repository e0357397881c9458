----------------------------- MODULE SumTheorems -----------------------------
(***************************************************************************)
(* What a sum over a finite set does: it is empty, it splits off any       *)
(* element, it depends on its terms alone, it is monotone, and two sums    *)
(* may be exchanged.  And what two sequences laid end to end hold.         *)
(*                                                                         *)
(* Total is a fold, a function CHOSEN to satisfy a recursive equation over *)
(* the subsets of S.  That one exists (FoldExists), and only one           *)
(* (FoldUnique), is proved by induction on finite sets, which is stated    *)
(* with a set of subsets for its predicate (SetInduction).                 *)
(***************************************************************************)
EXTENDS Sums, FiniteSets, Sequences, FiniteSetTheorems, WellFoundedInduction, TLAPS

\* Every nonempty set of natural numbers has a least one.
LEMMA LeastNumber ==
  ASSUME NEW T \in SUBSET Nat, T # {}
  PROVE  \E m \in T : \A n \in T : m <= n
<1>1. PICK m \in T : \A n \in T : ~ (<<n, m>> \in OpToRel(<, Nat))
  BY NatLessThanWellFounded, WFMin
<1>2. \A n \in T : ~ (n < m)
  BY <1>1 DEF OpToRel
<1> QED BY <1>2

\* A set of subsets that has every T of which it has all T \ {x} has them all.
LEMMA SetInduction ==
  ASSUME NEW S, IsFiniteSet(S), NEW P,
         \A T \in SUBSET S : (\A x \in T : T \ {x} \in P) => T \in P
  PROVE  \A T \in SUBSET S : T \in P
<1> SUFFICES ASSUME NEW U \in SUBSET S, U \notin P
             PROVE  FALSE
  OBVIOUS
<1> DEFINE bad == {T \in SUBSET S : T \notin P}
           sizes == {Cardinality(T) : T \in bad}
<1>1. \A T \in SUBSET S : IsFiniteSet(T) /\ Cardinality(T) \in Nat
  BY FS_Subset, FS_CardinalityType
<1>2. PICK m \in sizes : \A n \in sizes : m <= n
  <2>1. sizes \in SUBSET Nat /\ sizes # {}
    BY <1>1
  <2> HIDE DEF sizes
  <2> QED BY <2>1, LeastNumber
<1>3. PICK T \in bad : Cardinality(T) = m
  OBVIOUS
<1>4. ASSUME NEW x \in T
      PROVE  T \ {x} \in P
  <2>1. Cardinality(T \ {x}) = Cardinality(T) - 1
    BY <1>1, FS_RemoveElement
  <2>2. ~ (m <= Cardinality(T \ {x}))
    BY <1>1, <1>3, <2>1
  <2>3. T \ {x} \in SUBSET S
    OBVIOUS
  <2> QED BY <1>2, <2>2, <2>3
<1> QED BY <1>3, <1>4

-----------------------------------------------------------------------------
(* The fold.                                                               *)

Some(s) == CHOOSE x \in s : TRUE
\* g is the fold of f over the subsets of S.
IsFold(g, f, S) ==
    g = [s \in SUBSET S |-> IF s = {} THEN 0 ELSE f[Some(s)] + g[s \ {Some(s)}]]

\* A sum is a value of the fold that was chosen.
LEMMA TotalIsFold ==
  ASSUME NEW f, NEW S
  PROVE  Total(f, S) = (CHOOSE g : IsFold(g, f, S))[S]
BY DEF Total, MapThenSumSet, MapThenFoldSet, IsFold, Some

\* What the equation says of one subset.
LEMMA FoldStep ==
  ASSUME NEW g, NEW f, NEW S, IsFold(g, f, S), NEW s \in SUBSET S
  PROVE  /\ s = {} => g[s] = 0
         /\ s # {} => /\ Some(s) \in s
                      /\ g[s] = f[Some(s)] + g[s \ {Some(s)}]
<1>1. g[s] = IF s = {} THEN 0 ELSE f[Some(s)] + g[s \ {Some(s)}]
  BY DEF IsFold
<1> QED BY <1>1 DEF Some

\* Two folds of f agree where both are defined.
LEMMA FoldUnique ==
  ASSUME NEW f, NEW S, NEW T, NEW g, NEW h, IsFold(g, f, S), IsFold(h, f, T),
         NEW U, IsFiniteSet(U), U \subseteq S, U \subseteq T
  PROVE  g[U] = h[U]
<1> DEFINE P == {s \in SUBSET U : g[s] = h[s]}
<1>1. ASSUME NEW s \in SUBSET U, \A x \in s : s \ {x} \in P
      PROVE  s \in P
  <2>1. s \in SUBSET S /\ s \in SUBSET T
    OBVIOUS
  <2>2. s = {} => g[s] = 0 /\ h[s] = 0
    BY <2>1, FoldStep
  <2>3. s # {} => /\ Some(s) \in s
                  /\ g[s] = f[Some(s)] + g[s \ {Some(s)}]
                  /\ h[s] = f[Some(s)] + h[s \ {Some(s)}]
    <3>1. s # {} => Some(s) \in s /\ g[s] = f[Some(s)] + g[s \ {Some(s)}]
      BY ONLY <2>1, IsFold(g, f, S), FoldStep
    <3>2. h[s] = IF s = {} THEN 0 ELSE f[Some(s)] + h[s \ {Some(s)}]
      BY ONLY <2>1, IsFold(h, f, T) DEF IsFold
    <3> QED BY ONLY <3>1, <3>2
  <2>4. CASE s = {}
    BY ONLY <2>2, <2>4
  <2>5. CASE s # {}
    <3>1. s \ {Some(s)} \in P
      BY <1>1, <2>3, <2>5
    <3>2. g[s \ {Some(s)}] = h[s \ {Some(s)}]
      BY ONLY <3>1
    <3>3. g[s] = h[s]
      BY ONLY <2>3, <2>5, <3>2
    <3> QED BY ONLY <1>1, <3>3
  <2> QED BY ONLY <1>1, <2>4, <2>5
<1>2. \A s \in SUBSET U : s \in P
  <2> HIDE DEF P
  <2> QED BY <1>1, SetInduction
<1> QED BY <1>2

\* The equation has a solution over any finite set: those over T without an
\* element agree, and together they are one over T.
LEMMA FoldExists ==
  ASSUME NEW f, NEW S, IsFiniteSet(S)
  PROVE  \E g : IsFold(g, f, S)
<1> DEFINE P == {T \in SUBSET S : \E g : IsFold(g, f, T)}
<1>1. ASSUME NEW T \in SUBSET S, \A x \in T : T \ {x} \in P
      PROVE  T \in P
  <2>0. CASE T = {}
    <3>1. IsFold([s \in SUBSET T |-> 0], f, T)
      BY <2>0 DEF IsFold
    <3> QED BY <3>1
  <2>1. CASE T # {}
    <3> DEFINE G(x) == CHOOSE g : IsFold(g, f, T \ {x})
               v(s) == G(Some(T \ s))[s]
               g == [s \in SUBSET T |->
                       IF s = T THEN f[Some(T)] + v(T \ {Some(T)}) ELSE v(s)]
    <3>1. \A x \in T : IsFold(G(x), f, T \ {x})
      BY <1>1
    <3>2. \A s \in SUBSET T : s # {} => Some(s) \in s
      BY DEF Some
    <3>3. ASSUME NEW x \in T, NEW s \in SUBSET (T \ {x})
          PROVE  v(s) = G(x)[s]
      <4> DEFINE y == Some(T \ s)
      <4>1. y \in T /\ s \subseteq T \ {y} /\ IsFiniteSet(s)
        BY <3>2, FS_Subset
      <4>2. IsFold(G(x), f, T \ {x}) /\ IsFold(G(y), f, T \ {y})
        BY <3>1, <4>1
      <4> HIDE DEF G, y
      <4>3. G(y)[s] = G(x)[s]
        BY <4>1, <4>2, FoldUnique
      <4> QED BY <4>3 DEF y
    <3>4. ASSUME NEW s \in SUBSET T
          PROVE  g[s] = IF s = {} THEN 0 ELSE f[Some(s)] + g[s \ {Some(s)}]
      <4>1. CASE s = T
        BY <4>1, <2>1, <3>2
      <4>2. CASE s # T
        <5>1. PICK x \in T : s \subseteq T \ {x}
          BY <4>2
        <5>2. g[s] = G(x)[s]
          BY <4>2, <5>1, <3>3
        <5>3. s # {} => g[s \ {Some(s)}] = G(x)[s \ {Some(s)}]
          <6>1. s \ {Some(s)} \in SUBSET (T \ {x}) /\ s \ {Some(s)} # T
            BY <5>1
          <6>2. g[s \ {Some(s)}] = v(s \ {Some(s)})
            BY <6>1
          <6> QED BY <6>1, <6>2, <3>3
        <5>4. IsFold(G(x), f, T \ {x})
          BY <3>1
        <5> HIDE DEF g, G
        <5> QED BY <5>1, <5>2, <5>3, <5>4, FoldStep
      <4> QED BY <4>1, <4>2
    <3>5. IsFold(g, f, T)
      <4>1. g = [s \in SUBSET T |-> g[s]]
        OBVIOUS
      <4> HIDE DEF g
      <4> QED BY <4>1, <3>4 DEF IsFold
    <3> QED BY <3>5
  <2> QED BY <2>0, <2>1
<1>2. \A T \in SUBSET S : T \in P
  <2> HIDE DEF P
  <2> QED BY <1>1, SetInduction
<1> QED BY <1>2

-----------------------------------------------------------------------------
(* Sums.                                                                   *)

\* The empty sum, and the element a sum takes first.
LEMMA TotalStep ==
  ASSUME NEW f, NEW S, IsFiniteSet(S)
  PROVE  /\ S = {} => Total(f, S) = 0
         /\ S # {} => /\ Some(S) \in S
                      /\ Total(f, S) = f[Some(S)] + Total(f, S \ {Some(S)})
<1> DEFINE g == CHOOSE g : IsFold(g, f, S)
           T == S \ {Some(S)}
           h == CHOOSE h : IsFold(h, f, T)
<1>1. IsFiniteSet(T)
  BY FS_RemoveElement
<1>2. IsFold(g, f, S) /\ IsFold(h, f, T)
  BY <1>1, FoldExists
<1>3. Total(f, S) = g[S] /\ Total(f, T) = h[T]
  BY TotalIsFold
<1> HIDE DEF g, h
<1>4. g[T] = h[T]
  BY <1>1, <1>2, FoldUnique
<1> QED BY <1>2, <1>3, <1>4, FoldStep

\* A sum of nothing.
LEMMA TotalEmpty == \A f : Total(f, {}) = 0
BY TotalStep, FS_EmptySet

\* Integers add up to an integer.
LEMMA TotalInt ==
  ASSUME NEW S, IsFiniteSet(S), NEW f, \A x \in S : f[x] \in Int
  PROVE  Total(f, S) \in Int
<1> DEFINE P == {s \in SUBSET S : Total(f, s) \in Int}
<1>1. ASSUME NEW s \in SUBSET S, \A x \in s : s \ {x} \in P
      PROVE  s \in P
  <2>1. IsFiniteSet(s)
    BY FS_Subset
  <2>2. s # {} => /\ Some(s) \in s
                  /\ Total(f, s) = f[Some(s)] + Total(f, s \ {Some(s)})
    BY <2>1, TotalStep
  <2>3. s = {} => Total(f, s) = 0
    BY <2>1, TotalStep
  <2> QED BY <1>1, <2>2, <2>3
<1>2. \A s \in SUBSET S : s \in P
  <2> HIDE DEF P
  <2> QED BY <1>1, SetInduction
<1> QED BY <1>2

\* A sum splits off any of its elements.
LEMMA TotalRemove ==
  ASSUME NEW S, IsFiniteSet(S), NEW f, \A x \in S : f[x] \in Int, NEW y \in S
  PROVE  Total(f, S) = f[y] + Total(f, S \ {y})
<1> DEFINE P == {s \in SUBSET S : \A x \in s : Total(f, s) = f[x] + Total(f, s \ {x})}
<1>1. ASSUME NEW s \in SUBSET S, \A x \in s : s \ {x} \in P
      PROVE  s \in P
  <2> SUFFICES ASSUME NEW x \in s
               PROVE  Total(f, s) = f[x] + Total(f, s \ {x})
    OBVIOUS
  <2> DEFINE c == Some(s)
             b == (s \ {c}) \ {x}
  <2>1. c \in s /\ Total(f, s) = f[c] + Total(f, s \ {c})
    BY TotalStep, FS_Subset
  <2>2. CASE x = c
    BY <2>1, <2>2
  <2>3. CASE x # c
    <3>1. Total(f, s \ {c}) = f[x] + Total(f, b)
      BY <1>1, <2>1, <2>3
    <3>2. Total(f, s \ {x}) = f[c] + Total(f, b)
      <4>1. b = (s \ {x}) \ {c}
        OBVIOUS
      <4> QED BY <1>1, <2>1, <2>3, <4>1
    <3>3. f[c] \in Int /\ f[x] \in Int /\ Total(f, b) \in Int
      <4>1. IsFiniteSet(b) /\ b \subseteq S
        BY FS_Subset
      <4> QED BY <2>1, <4>1, TotalInt
    <3> QED BY <2>1, <3>1, <3>2, <3>3
  <2> QED BY <2>2, <2>3
<1>2. \A s \in SUBSET S : s \in P
  <2> HIDE DEF P
  <2> QED BY <1>1, SetInduction
<1> QED BY <1>2

\* An element added to a sum.
LEMMA TotalAdd ==
  ASSUME NEW S, IsFiniteSet(S), NEW f, NEW y, y \notin S,
         \A x \in S \cup {y} : f[x] \in Int
  PROVE  Total(f, S \cup {y}) = f[y] + Total(f, S)
<1>1. IsFiniteSet(S \cup {y}) /\ (S \cup {y}) \ {y} = S
  BY FS_AddElement
<1> QED BY <1>1, TotalRemove

\* A sum depends on its terms alone.
LEMMA TotalCongruence ==
  ASSUME NEW S, IsFiniteSet(S), NEW f, NEW g, \A x \in S : f[x] = g[x]
  PROVE  Total(f, S) = Total(g, S)
<1> DEFINE P == {s \in SUBSET S : Total(f, s) = Total(g, s)}
<1>1. ASSUME NEW s \in SUBSET S, \A x \in s : s \ {x} \in P
      PROVE  s \in P
  <2>1. IsFiniteSet(s)
    BY FS_Subset
  <2>2. s # {} => /\ Some(s) \in s
                  /\ Total(f, s) = f[Some(s)] + Total(f, s \ {Some(s)})
                  /\ Total(g, s) = g[Some(s)] + Total(g, s \ {Some(s)})
    BY <2>1, TotalStep
  <2>3. s = {} => Total(f, s) = 0 /\ Total(g, s) = 0
    BY <2>1, TotalStep
  <2> QED BY <1>1, <2>2, <2>3
<1>2. \A s \in SUBSET S : s \in P
  <2> HIDE DEF P
  <2> QED BY <1>1, SetInduction
<1> QED BY <1>2

\* Natural numbers add up to one.
LEMMA TotalNat ==
  ASSUME NEW S, IsFiniteSet(S), NEW f, \A x \in S : f[x] \in Nat
  PROVE  Total(f, S) \in Nat
<1> DEFINE P == {s \in SUBSET S : Total(f, s) \in Nat}
<1>1. ASSUME NEW s \in SUBSET S, \A x \in s : s \ {x} \in P
      PROVE  s \in P
  <2>1. IsFiniteSet(s)
    BY FS_Subset
  <2>2. s # {} => /\ Some(s) \in s
                  /\ Total(f, s) = f[Some(s)] + Total(f, s \ {Some(s)})
    BY <2>1, TotalStep
  <2>3. s = {} => Total(f, s) = 0
    BY <2>1, TotalStep
  <2> QED BY <1>1, <2>2, <2>3
<1>2. \A s \in SUBSET S : s \in P
  <2> HIDE DEF P
  <2> QED BY <1>1, SetInduction
<1> QED BY <1>2

\* Disjoint sets.
LEMMA TotalUnion ==
  ASSUME NEW S, IsFiniteSet(S), NEW T, IsFiniteSet(T), S \cap T = {}, NEW f,
         \A x \in S \cup T : f[x] \in Int
  PROVE  Total(f, S \cup T) = Total(f, S) + Total(f, T)
<1> DEFINE P == {s \in SUBSET T : Total(f, S \cup s) = Total(f, S) + Total(f, s)}
<1>1. ASSUME NEW s \in SUBSET T, \A x \in s : s \ {x} \in P
      PROVE  s \in P
  <2>1. Total(f, S) \in Int
    BY TotalInt
  <2>2. CASE s = {}
    BY <2>1, <2>2, TotalEmpty
  <2>3. CASE s # {}
    <3>1. PICK x \in s : TRUE
      BY <2>3
    <3>2. /\ IsFiniteSet(s) /\ IsFiniteSet(S \cup s)
          /\ (S \cup s) \ {x} = S \cup (s \ {x})
          /\ s \subseteq S \cup T
      <4>1. IsFiniteSet(S \cup T)
        BY FS_Union
      <4> QED BY <3>1, <4>1, FS_Subset
    <3>3. Total(f, S \cup s) = f[x] + Total(f, S \cup (s \ {x}))
      BY <3>1, <3>2, TotalRemove
    <3>4. Total(f, s) = f[x] + Total(f, s \ {x})
      BY <3>1, <3>2, TotalRemove
    <3>5. f[x] \in Int /\ Total(f, s \ {x}) \in Int
      <4>1. IsFiniteSet(s \ {x})
        BY <3>2, FS_RemoveElement
      <4> QED BY <3>1, <4>1, TotalInt
    <3> QED BY <1>1, <2>1, <3>1, <3>3, <3>4, <3>5
  <2> QED BY <2>2, <2>3
<1>2. \A s \in SUBSET T : s \in P
  <2> HIDE DEF P
  <2> QED BY <1>1, SetInduction
<1> QED BY <1>2

\* A part and the rest.
LEMMA TotalSplit ==
  ASSUME NEW S, IsFiniteSet(S), NEW T \in SUBSET S, NEW f, \A x \in S : f[x] \in Int
  PROVE  Total(f, S) = Total(f, T) + Total(f, S \ T)
<1>1. IsFiniteSet(T) /\ IsFiniteSet(S \ T) /\ S = T \cup (S \ T)
  BY FS_Subset
<1>2. Total(f, T \cup (S \ T)) = Total(f, T) + Total(f, S \ T)
  BY <1>1, TotalUnion
<1> QED BY <1>1, <1>2

\* Zeroes add up to zero.
LEMMA TotalZero ==
  ASSUME NEW S, IsFiniteSet(S), NEW f, \A x \in S : f[x] = 0
  PROVE  Total(f, S) = 0
<1> DEFINE P == {s \in SUBSET S : Total(f, s) = 0}
<1>1. ASSUME NEW s \in SUBSET S, \A x \in s : s \ {x} \in P
      PROVE  s \in P
  <2>1. IsFiniteSet(s)
    BY FS_Subset
  <2>2. s # {} => /\ Some(s) \in s
                  /\ Total(f, s) = f[Some(s)] + Total(f, s \ {Some(s)})
    BY <2>1, TotalStep
  <2>3. s = {} => Total(f, s) = 0
    BY <2>1, TotalStep
  <2> QED BY <1>1, <2>2, <2>3
<1>2. \A s \in SUBSET S : s \in P
  <2> HIDE DEF P
  <2> QED BY <1>1, SetInduction
<1> QED BY <1>2

\* One term that is not zero.
LEMMA TotalSingle ==
  ASSUME NEW S, IsFiniteSet(S), NEW f, NEW y \in S, f[y] \in Int,
         \A x \in S \ {y} : f[x] = 0
  PROVE  Total(f, S) = f[y]
<1>1. Total(f, S) = f[y] + Total(f, S \ {y})
  BY TotalRemove
<1>2. Total(f, S \ {y}) = 0
  BY FS_RemoveElement, TotalZero
<1> QED BY <1>1, <1>2

\* A set counted under other names.
LEMMA TotalImage ==
  ASSUME NEW S, IsFiniteSet(S), NEW h, NEW f, NEW g,
         \A x \in S : f[h[x]] \in Int /\ g[x] = f[h[x]],
         \A x, y \in S : h[x] = h[y] => x = y
  PROVE  Total(f, {h[x] : x \in S}) = Total(g, S)
<1> DEFINE image(s) == {h[x] : x \in s}
           P == {s \in SUBSET S : /\ IsFiniteSet(image(s))
                                 /\ Total(f, image(s)) = Total(g, s)}
<1>1. ASSUME NEW s \in SUBSET S, \A x \in s : s \ {x} \in P
      PROVE  s \in P
  <2>1. IsFiniteSet(s)
    BY FS_Subset
  <2>2. CASE s = {}
    BY <2>2, TotalEmpty, FS_EmptySet
  <2>3. CASE s # {}
    <3>1. PICK y \in s : TRUE
      BY <2>3
    <3>2. image(s) \ {h[y]} = image(s \ {y}) /\ h[y] \in image(s)
      BY <3>1
    <3>0. IsFiniteSet(image(s))
      <4>1. image(s) = image(s \ {y}) \cup {h[y]}
        BY <3>1
      <4>2. IsFiniteSet(image(s \ {y}))
        BY <1>1, <3>1
      <4> HIDE DEF image
      <4>3. IsFiniteSet(image(s \ {y}) \cup {h[y]})
        BY <4>2, FS_AddElement
      <4> QED BY <4>1, <4>3
    <3>3. \A z \in image(s) : f[z] \in Int
      OBVIOUS
    <3>4. Total(f, image(s)) = f[h[y]] + Total(f, image(s) \ {h[y]})
      <4> HIDE DEF image
      <4> QED BY <3>0, <3>2, <3>3, TotalRemove
    <3>5. Total(g, s) = g[y] + Total(g, s \ {y})
      BY <2>1, <3>1, TotalRemove
    <3>6. Total(f, image(s \ {y})) = Total(g, s \ {y})
      BY <1>1, <3>1
    <3> QED BY <3>0, <3>1, <3>2, <3>4, <3>5, <3>6
  <2> QED BY <2>2, <2>3
<1>2. \A s \in SUBSET S : s \in P
  <2> HIDE DEF P
  <2> QED BY <1>1, SetInduction
<1> QED BY <1>2

\* Sums added term by term.
LEMMA TotalPlus ==
  ASSUME NEW S, IsFiniteSet(S), NEW f, NEW g, NEW h,
         \A x \in S : f[x] \in Int /\ g[x] \in Int /\ h[x] = f[x] + g[x]
  PROVE  Total(h, S) = Total(f, S) + Total(g, S)
<1> DEFINE P == {s \in SUBSET S : Total(h, s) = Total(f, s) + Total(g, s)}
<1>1. ASSUME NEW s \in SUBSET S, \A x \in s : s \ {x} \in P
      PROVE  s \in P
  <2>1. IsFiniteSet(s)
    BY FS_Subset
  <2>2. CASE s = {}
    BY <2>2, TotalEmpty
  <2>3. CASE s # {}
    <3> DEFINE c == Some(s)
    <3>1. /\ c \in s
          /\ Total(f, s) = f[c] + Total(f, s \ {c})
          /\ Total(g, s) = g[c] + Total(g, s \ {c})
          /\ Total(h, s) = h[c] + Total(h, s \ {c})
      BY <2>1, <2>3, TotalStep
    <3>2. Total(f, s \ {c}) \in Int /\ Total(g, s \ {c}) \in Int
      <4>1. IsFiniteSet(s \ {c})
        BY <2>1, FS_RemoveElement
      <4> QED BY <4>1, TotalInt
    <3>3. h[c] = f[c] + g[c] /\ f[c] \in Int /\ g[c] \in Int
      BY <3>1
    <3>4. Total(h, s \ {c}) = Total(f, s \ {c}) + Total(g, s \ {c})
      BY <1>1, <3>1
    <3> QED BY <3>1, <3>2, <3>3, <3>4
  <2> QED BY <2>2, <2>3
<1>2. \A s \in SUBSET S : s \in P
  <2> HIDE DEF P
  <2> QED BY <1>1, SetInduction
<1> QED BY <1>2

\* Greater terms, greater sum.
LEMMA TotalMonotone ==
  ASSUME NEW S, IsFiniteSet(S), NEW f, NEW g,
         \A x \in S : f[x] \in Int /\ g[x] \in Int /\ f[x] <= g[x]
  PROVE  Total(f, S) <= Total(g, S)
<1> DEFINE d == [x \in S |-> g[x] - f[x]]
<1>1. Total(g, S) = Total(f, S) + Total(d, S)
  BY TotalPlus
<1>2. Total(d, S) \in Nat /\ Total(f, S) \in Int
  BY TotalNat, TotalInt
<1> QED BY <1>1, <1>2

\* Of terms that are not negative, a part adds up to at most the whole.
LEMMA TotalPart ==
  ASSUME NEW S, IsFiniteSet(S), NEW T \in SUBSET S, NEW f, \A x \in S : f[x] \in Nat
  PROVE  Total(f, T) <= Total(f, S)
<1>1. IsFiniteSet(T) /\ IsFiniteSet(S \ T)
  BY FS_Subset
<1>2. Total(f, T) \in Nat /\ Total(f, S \ T) \in Nat
  BY <1>1, TotalNat
<1>3. Total(f, S) = Total(f, T) + Total(f, S \ T)
  BY TotalSplit
<1> QED BY <1>2, <1>3

\* Two sums whose terms agree all over a set, absent ones counting as zero.
LEMMA TotalAgree ==
  ASSUME NEW S, IsFiniteSet(S), NEW A \in SUBSET S, NEW B \in SUBSET S, NEW f, NEW g,
         \A x \in S : /\ x \in A => f[x] \in Int
                      /\ x \in B => g[x] \in Int
                      /\ x \in A /\ x \in B => f[x] = g[x]
                      /\ x \in A /\ x \notin B => f[x] = 0
                      /\ x \in B /\ x \notin A => g[x] = 0
  PROVE  Total(f, A) = Total(g, B)
<1> DEFINE C == A \cap B
<1>1. /\ IsFiniteSet(A) /\ IsFiniteSet(B) /\ IsFiniteSet(C)
      /\ IsFiniteSet(A \ C) /\ IsFiniteSet(B \ C)
      /\ C \in SUBSET A /\ C \in SUBSET B
  BY FS_Subset
<1>2. Total(f, A) = Total(f, C) + Total(f, A \ C)
  BY <1>1, TotalSplit
<1>3. Total(g, B) = Total(g, C) + Total(g, B \ C)
  BY <1>1, TotalSplit
<1>4. Total(f, A \ C) = 0 /\ Total(g, B \ C) = 0
  BY <1>1, TotalZero
<1>5. Total(f, C) = Total(g, C)
  BY <1>1, TotalCongruence
<1>6. Total(f, C) \in Int
  BY <1>1, TotalInt
<1> QED BY <1>2, <1>3, <1>4, <1>5, <1>6

\* A term is at most a sum of terms that are not negative.
LEMMA TotalTerm ==
  ASSUME NEW S, IsFiniteSet(S), NEW f, \A x \in S : f[x] \in Nat, NEW y \in S
  PROVE  f[y] <= Total(f, S)
<1>1. Total(f, S) = f[y] + Total(f, S \ {y})
  BY TotalRemove
<1>2. Total(f, S \ {y}) \in Nat
  BY FS_RemoveElement, TotalNat
<1> QED BY <1>1, <1>2

\* One term changes.
LEMMA TotalUpdate ==
  ASSUME NEW S, IsFiniteSet(S), NEW y \in S, NEW f, NEW g,
         \A x \in S : f[x] \in Int /\ g[x] \in Int,
         \A x \in S \ {y} : g[x] = f[x]
  PROVE  Total(g, S) = Total(f, S) + (g[y] - f[y])
<1>1. Total(f, S) = f[y] + Total(f, S \ {y}) /\ Total(g, S) = g[y] + Total(g, S \ {y})
  BY TotalRemove
<1>2. IsFiniteSet(S \ {y})
  BY FS_RemoveElement
<1>3. Total(g, S \ {y}) = Total(f, S \ {y})
  BY <1>2, TotalCongruence
<1>4. Total(f, S \ {y}) \in Int
  BY <1>2, TotalInt
<1> QED BY <1>1, <1>3, <1>4

\* What one term loses another gains: the sum stands.
LEMMA TotalTransfer ==
  ASSUME NEW S, IsFiniteSet(S), NEW y \in S, NEW z \in S, y # z, NEW f, NEW g,
         \A x \in S : f[x] \in Int /\ g[x] \in Int,
         \A x \in S \ {y, z} : g[x] = f[x],
         g[y] + g[z] = f[y] + f[z]
  PROVE  Total(g, S) = Total(f, S)
<1> DEFINE h == [x \in S |-> IF x = y THEN g[y] ELSE f[x]]
<1>1. /\ \A x \in S : h[x] \in Int
      /\ \A x \in S \ {y} : h[x] = f[x]
      /\ \A x \in S \ {z} : g[x] = h[x]
      /\ h[y] = g[y] /\ h[z] = f[z]
  OBVIOUS
<1> HIDE DEF h
<1>2. Total(h, S) = Total(f, S) + (h[y] - f[y])
  BY <1>1, TotalUpdate
<1>3. Total(g, S) = Total(h, S) + (g[z] - h[z])
  BY <1>1, TotalUpdate
<1>4. Total(f, S) \in Int
  BY TotalInt
<1> QED BY <1>1, <1>2, <1>3, <1>4

\* Rows, then columns.
LEMMA TotalExchange ==
  ASSUME NEW S, IsFiniteSet(S), NEW T, IsFiniteSet(T), NEW F,
         \A x \in S, y \in T : F[x][y] \in Int
  PROVE  Total([x \in S |-> Total(F[x], T)], S)
           = Total([y \in T |-> Total([x \in S |-> F[x][y]], S)], T)
<1> DEFINE row == [x \in S |-> Total(F[x], T)]
           col(y) == [x \in S |-> F[x][y]]
           cols(s) == [y \in T |-> Total(col(y), s)]
           P == {s \in SUBSET S : Total(row, s) = Total(cols(s), T)}
<1>1. ASSUME NEW s \in SUBSET S, \A x \in s : s \ {x} \in P
      PROVE  s \in P
  <2>1. IsFiniteSet(s)
    BY FS_Subset
  <2>2. CASE s = {}
    <3>1. \A y \in T : cols(s)[y] = 0
      BY <2>2, TotalEmpty
    <3>2. Total(cols(s), T) = 0
      <4> HIDE DEF cols
      <4> QED BY <3>1, TotalZero
    <3> QED BY <2>2, <3>2, TotalEmpty
  <2>3. CASE s # {}
    <3> DEFINE c == Some(s)
               b == s \ {c}
    <3>1. c \in s /\ Total(row, s) = row[c] + Total(row, b)
      <4> HIDE DEF row
      <4> QED BY <2>1, <2>3, TotalStep
    <3>2. row[c] = Total(F[c], T)
      BY <3>1
    <3>3. Total(row, b) = Total(cols(b), T)
      BY <1>1, <3>1
    <3>4. ASSUME NEW y \in T
          PROVE  /\ cols(s)[y] = F[c][y] + cols(b)[y]
                 /\ F[c][y] \in Int /\ cols(b)[y] \in Int
      <4>1. col(y)[c] = F[c][y] /\ \A x \in S : col(y)[x] \in Int
        BY <3>1
      <4>2. Total(col(y), s) = col(y)[c] + Total(col(y), b)
        <5> HIDE DEF col
        <5> QED BY <2>1, <2>3, TotalStep
      <4>3. Total(col(y), b) \in Int
        <5>1. IsFiniteSet(b)
          BY <2>1, FS_RemoveElement
        <5> HIDE DEF col
        <5> QED BY <4>1, <5>1, TotalInt
      <4> HIDE DEF col
      <4> QED BY <3>1, <4>1, <4>2, <4>3
    <3>5. Total(cols(s), T) = Total(F[c], T) + Total(cols(b), T)
      <4> HIDE DEF cols, c, b
      <4> QED BY <3>4, TotalPlus
    <3> HIDE DEF row, cols, c, b
    <3> QED BY <3>1, <3>2, <3>3, <3>5
  <2> QED BY <2>2, <2>3
<1>2. \A s \in SUBSET S : s \in P
  <2> HIDE DEF P
  <2> QED BY <1>1, SetInduction
<1>3. S \in P
  BY <1>2
<1> QED BY <1>3

\* A sum of multiples.
LEMMA TotalScale ==
  ASSUME NEW S, IsFiniteSet(S), NEW c \in Int, NEW f, NEW g,
         \A x \in S : f[x] \in Int /\ g[x] = c * f[x]
  PROVE  Total(g, S) = c * Total(f, S)
<1> DEFINE P == {s \in SUBSET S : Total(g, s) = c * Total(f, s)}
<1>1. ASSUME NEW s \in SUBSET S, \A x \in s : s \ {x} \in P
      PROVE  s \in P
  <2>1. IsFiniteSet(s)
    BY FS_Subset
  <2>2. CASE s = {}
    BY <2>2, TotalEmpty
  <2>3. CASE s # {}
    <3> DEFINE y == Some(s)
               b == Total(f, s \ {y})
    <3>1. /\ y \in s
          /\ Total(f, s) = f[y] + b
          /\ Total(g, s) = g[y] + Total(g, s \ {y})
      BY <2>1, <2>3, TotalStep
    <3>2. b \in Int
      BY <2>1, FS_RemoveElement, TotalInt
    <3>3. g[y] = c * f[y] /\ f[y] \in Int /\ Total(g, s \ {y}) = c * b
      BY <1>1, <3>1
    <3> HIDE DEF b, y
    <3>4. c * (f[y] + b) = c * f[y] + c * b
      BY <3>2, <3>3
    <3> QED BY <3>1, <3>3, <3>4
  <2> QED BY <2>2, <2>3
<1>2. \A s \in SUBSET S : s \in P
  <2> HIDE DEF P
  <2> QED BY <1>1, SetInduction
<1> QED BY <1>2

\* A sum of equal terms.
LEMMA TotalConstant ==
  ASSUME NEW S, IsFiniteSet(S), NEW c \in Int, NEW f, \A x \in S : f[x] = c
  PROVE  Total(f, S) = c * Cardinality(S)
<1> DEFINE P == {s \in SUBSET S : Total(f, s) = c * Cardinality(s)}
<1>1. ASSUME NEW s \in SUBSET S, \A x \in s : s \ {x} \in P
      PROVE  s \in P
  <2>1. IsFiniteSet(s)
    BY FS_Subset
  <2>2. CASE s = {}
    BY <2>2, TotalEmpty, FS_EmptySet
  <2>3. CASE s # {}
    <3> DEFINE y == Some(s)
               n == Cardinality(s \ {y})
    <3>1. y \in s /\ Total(f, s) = f[y] + Total(f, s \ {y})
      BY <2>1, <2>3, TotalStep
    <3>2. n \in Nat /\ Cardinality(s) = n + 1
      <4>1. n \in Nat /\ Cardinality(s) \in Nat
        BY <2>1, FS_RemoveElement, FS_CardinalityType
      <4>2. n = Cardinality(s) - 1
        BY <2>1, <3>1, FS_RemoveElement
      <4> HIDE DEF n
      <4> QED BY <4>1, <4>2
    <3>3. f[y] = c /\ Total(f, s \ {y}) = c * n
      BY <1>1, <3>1
    <3> HIDE DEF n, y
    <3>4. c * (n + 1) = c * n + c
      BY <3>2
    <3> QED BY <3>1, <3>2, <3>3, <3>4
  <2> QED BY <2>2, <2>3
<1>2. \A s \in SUBSET S : s \in P
  <2> HIDE DEF P
  <2> QED BY <1>1, SetInduction
<1> QED BY <1>2

\* A sum taken class by class.
LEMMA TotalPartition ==
  ASSUME NEW S, IsFiniteSet(S), NEW T, IsFiniteSet(T), NEW h, \A x \in S : h[x] \in T,
         NEW f, \A x \in S : f[x] \in Int
  PROVE  Total(f, S) = Total([y \in T |-> Total(f, {x \in S : h[x] = y})], T)
<1> DEFINE F == [x \in S |-> [y \in T |-> IF h[x] = y THEN f[x] ELSE 0]]
           col(y) == [x \in S |-> F[x][y]]
           class(y) == {x \in S : h[x] = y}
<1>1. \A x \in S, y \in T : F[x][y] = (IF h[x] = y THEN f[x] ELSE 0) /\ F[x][y] \in Int
  OBVIOUS
<1>2. ASSUME NEW x \in S PROVE Total(F[x], T) = f[x]
  <2>1. \A y \in T \ {h[x]} : F[x][y] = 0
    OBVIOUS
  <2>2. F[x][h[x]] = f[x] /\ f[x] \in Int /\ h[x] \in T
    OBVIOUS
  <2> HIDE DEF F
  <2> QED BY <2>1, <2>2, TotalSingle
<1>3. ASSUME NEW y \in T PROVE Total(col(y), S) = Total(f, class(y))
  <2>1. \A x \in S : col(y)[x] = F[x][y]
    OBVIOUS
  <2> HIDE DEF F, col
  <2>2. class(y) \in SUBSET S /\ S \in SUBSET S
    OBVIOUS
  <2>3. \A x \in S : /\ x \in S => col(y)[x] \in Int
                     /\ x \in class(y) => f[x] \in Int
                     /\ x \in S /\ x \in class(y) => col(y)[x] = f[x]
                     /\ x \in S /\ x \notin class(y) => col(y)[x] = 0
                     /\ x \in class(y) /\ x \notin S => f[x] = 0
    BY <1>1, <2>1
  <2> HIDE DEF class
  <2> QED BY <2>2, <2>3, TotalAgree
<1>4. Total([x \in S |-> Total(F[x], T)], S) = Total([y \in T |-> Total(col(y), S)], T)
  <2> HIDE DEF F
  <2> QED BY <1>1, TotalExchange
<1>5. Total([x \in S |-> Total(F[x], T)], S) = Total(f, S)
  <2> DEFINE g == [x \in S |-> Total(F[x], T)]
  <2>1. \A x \in S : g[x] = f[x]
    BY <1>2
  <2> HIDE DEF g
  <2>2. Total(g, S) = Total(f, S)
    BY <2>1, TotalCongruence
  <2> QED BY <2>2 DEF g
<1>6. [y \in T |-> Total(col(y), S)] = [y \in T |-> Total(f, class(y))]
  <2> HIDE DEF F, col, class
  <2> QED BY <1>3
<1> QED BY <1>4, <1>5, <1>6

\* A table F, and the same table G by columns, whose entries lie in the rows R
\* and the columns C or in neither; row[x] is the sum of F[x], column[y] of G[y].
Rectangle(S, T, F, G, R, C, row, column) ==
    /\ R \subseteq S /\ C \subseteq T
    /\ \A x \in S, y \in T :
          /\ F[x][y] \in Int /\ G[y][x] = F[x][y]
          /\ F[x][y] # 0 => (x \in R <=> y \in C)
    /\ \A x \in R : row[x] = Total(F[x], T)
    /\ \A y \in C : column[y] = Total(G[y], S)

\* The whole rows add up to the whole columns.
LEMMA TotalRectangle ==
  ASSUME NEW S, IsFiniteSet(S), NEW T, IsFiniteSet(T), NEW F, NEW G, NEW R, NEW C,
         NEW row, NEW column, Rectangle(S, T, F, G, R, C, row, column)
  PROVE  Total(row, R) = Total(column, C)
<1> DEFINE cut == [x \in R |-> [y \in C |-> F[x][y]]]
           cutCol(y) == [x \in R |-> cut[x][y]]
<1>0. /\ R \in SUBSET S /\ C \in SUBSET T
      /\ \A x \in S, y \in T : F[x][y] \in Int
      /\ \A x \in S, y \in T : F[x][y] # 0 => (x \in R <=> y \in C)
      /\ \A x \in S, y \in T : G[y][x] = F[x][y]
      /\ \A x \in R : row[x] = Total(F[x], T)
      /\ \A y \in C : column[y] = Total(G[y], S)
  BY DEF Rectangle
<1>1. IsFiniteSet(R) /\ IsFiniteSet(C) /\ IsFiniteSet(S \ R) /\ IsFiniteSet(T \ C)
  BY <1>0, FS_Subset
<1>2. ASSUME NEW x \in R
      PROVE  row[x] = Total(cut[x], C)
  <2>0. /\ \A y \in T : F[x][y] \in Int
        /\ \A y \in T \ C : F[x][y] = 0
        /\ \A y \in C : F[x][y] = cut[x][y] /\ F[x][y] \in Int
    BY <1>0
  <2>1. Total(F[x], T) = Total(F[x], C) + Total(F[x], T \ C)
    BY <1>0, <2>0, TotalSplit
  <2>2. Total(F[x], T \ C) = 0
    BY <1>1, <2>0, TotalZero
  <2>3. Total(F[x], C) \in Int
    BY <1>1, <2>0, TotalInt
  <2>4. Total(F[x], C) = Total(cut[x], C)
    BY <1>1, <2>0, TotalCongruence
  <2> QED BY <1>0, <2>1, <2>2, <2>3, <2>4
<1>3. ASSUME NEW y \in C
      PROVE  column[y] = Total(cutCol(y), R)
  <2> DEFINE f == G[y]
             g == cutCol(y)
  <2>0. /\ \A x \in S : f[x] \in Int
        /\ \A x \in S \ R : f[x] = 0
        /\ \A x \in R : f[x] = g[x] /\ f[x] \in Int
    BY <1>0
  <2>5. column[y] = Total(f, S)
    BY <1>0
  <2> HIDE DEF f, g
  <2>1. Total(f, S) = Total(f, R) + Total(f, S \ R)
    BY <1>0, <2>0, TotalSplit
  <2>2. Total(f, S \ R) = 0
    BY <1>1, <2>0, TotalZero
  <2>3. Total(f, R) \in Int
    BY <1>1, <2>0, TotalInt
  <2>4. Total(f, R) = Total(g, R)
    BY <1>1, <2>0, TotalCongruence
  <2>6. column[y] = Total(g, R)
    BY <2>1, <2>2, <2>3, <2>4, <2>5
  <2> QED BY <2>6 DEF g
<1>4. Total([x \in R |-> Total(cut[x], C)], R)
        = Total([y \in C |-> Total(cutCol(y), R)], C)
  <2>1. \A x \in R, y \in C : cut[x][y] \in Int
    BY <1>0
  <2> HIDE DEF cut
  <2> QED BY <1>1, <2>1, TotalExchange
<1>5. Total(row, R) = Total([x \in R |-> Total(cut[x], C)], R)
  <2>1. \A x \in R : row[x] = [z \in R |-> Total(cut[z], C)][x]
    BY <1>2
  <2> HIDE DEF cut
  <2> QED BY <1>1, <2>1, TotalCongruence
<1>6. Total(column, C) = Total([y \in C |-> Total(cutCol(y), R)], C)
  <2> DEFINE g == [y \in C |-> Total(cutCol(y), R)]
  <2>1. \A y \in C : column[y] = g[y]
    BY <1>3
  <2> HIDE DEF g
  <2>2. Total(column, C) = Total(g, C)
    BY <1>1, <2>1, TotalCongruence
  <2> QED BY <2>2 DEF g
<1> QED BY <1>4, <1>5, <1>6
-----------------------------------------------------------------------------
(* Sequences.                                                              *)

\* The elements of two sequences laid end to end.
LEMMA JoinParts ==
  ASSUME NEW S, NEW p \in Seq(S), NEW q \in Seq(S)
  PROVE  /\ p \o q \in Seq(S) /\ Len(p \o q) = Len(p) + Len(q)
         /\ \A n \in 1..Len(p) : n \in 1..(Len(p) + Len(q)) /\ (p \o q)[n] = p[n]
         /\ \A n \in 1..Len(q) : Len(p) + n \in 1..(Len(p) + Len(q)) /\ (p \o q)[Len(p) + n] = q[n]
         /\ \A n \in 1..(Len(p) + Len(q)) :
               n \notin 1..Len(p) => n - Len(p) \in 1..Len(q) /\ (p \o q)[n] = q[n - Len(p)]
         /\ Len(p) \in Nat /\ Len(q) \in Nat
         /\ DOMAIN (p \o q) = 1..(Len(p) + Len(q)) /\ DOMAIN p = 1..Len(p)
<1>1. Len(p) \in Nat /\ Len(q) \in Nat /\ DOMAIN p = 1..Len(p)
  OBVIOUS
<1>2. p \o q \in Seq(S)
  OBVIOUS
<1>3. Len(p \o q) = Len(p) + Len(q)
  OBVIOUS
<1>4. DOMAIN (p \o q) = 1..(Len(p) + Len(q))
  BY <1>2, <1>3
<1>5. ASSUME NEW n \in 1..Len(p) PROVE n \in 1..(Len(p) + Len(q)) /\ (p \o q)[n] = p[n]
  <2>1. n \in 1..(Len(p) + Len(q))
    BY <1>1
  <2> QED BY <1>1, <2>1
<1>6. ASSUME NEW n \in 1..(Len(p) + Len(q)), n \notin 1..Len(p)
      PROVE  n - Len(p) \in 1..Len(q) /\ (p \o q)[n] = q[n - Len(p)]
  <2>1. n - Len(p) \in 1..Len(q)
    BY <1>1, <1>6
  <2> QED BY <1>1, <1>6, <2>1
<1>7. ASSUME NEW n \in 1..Len(q) PROVE Len(p) + n \in 1..(Len(p) + Len(q)) /\ (p \o q)[Len(p) + n] = q[n]
  <2>1. Len(p) + n \in 1..(Len(p) + Len(q)) /\ Len(p) + n \notin 1..Len(p) /\ (Len(p) + n) - Len(p) = n
    BY <1>1
  <2> QED BY <1>6, <2>1
<1> QED BY <1>1, <1>2, <1>3, <1>4, <1>5, <1>6, <1>7
=============================================================================
