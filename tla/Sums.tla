------------------------------- MODULE Sums -------------------------------
(***************************************************************************)
(* Facts about SumFunctionOnSet(f, S), the sum of f[x] for x in S, which   *)
(* the models use for every total of stakes, bonds, shares and claims.     *)
(* The community module defines it by recursion over the subsets of S;     *)
(* the lemmas below give what the invariants need: one element taken out,  *)
(* one value changed, a set split in two, a sum bounded by another.  Each  *)
(* goes by the smallest subset of S that could be a counterexample.        *)
(***************************************************************************)
EXTENDS Integers, FiniteSets, Functions, FiniteSetTheorems, WellFoundedInduction, TLAPS

\* f is defined on S and every value there is an integer, or a natural number
IntOn(f, S) == \A x \in S : f[x] \in Int
NatOn(f, S) == \A x \in S : f[x] \in Nat

\* g gives the sum of f on every subset of S, by the recursion of the fold.
Totals(g, f, S) ==
  g = [s \in SUBSET S |-> IF s = {} THEN 0
                          ELSE LET x == CHOOSE y \in s : TRUE IN f[x] + g[s \ {x}]]

---------------------------------------------------------------------------
(* A property of sets is given as the set C of the subsets of S where it   *)
(* fails: if C is not empty it has a member none of whose strict subsets   *)
(* is in C.                                                                *)
LEMMA SmallestSubset ==
  ASSUME NEW S, IsFiniteSet(S), NEW C, C \subseteq SUBSET S, C # {}
  PROVE  \E T \in C : \A U \in C : ~ (U \subseteq T /\ U # T)
<1>1. IsWellFoundedOn(StrictSubsetOrdering(S), SUBSET S)
  BY FS_StrictSubsetOrderingWellFounded, FS_FiniteSubsetsOfFinite
<1>2. PICK T \in C : \A U \in C : ~ (<<U, T>> \in StrictSubsetOrdering(S))
  BY <1>1, WFMin
<1> QED BY <1>2 DEF StrictSubsetOrdering

LEMMA TotalsAgree ==
  ASSUME NEW S, IsFiniteSet(S), NEW f, NEW A \in SUBSET S, NEW B \in SUBSET S
  PROVE  \A g, h : Totals(g, f, A) /\ Totals(h, f, B) =>
           \A T \in SUBSET A : T \subseteq B => g[T] = h[T]
<1> SUFFICES ASSUME NEW g, NEW h, Totals(g, f, A), Totals(h, f, B),
                    NEW T \in SUBSET A, T \subseteq B
             PROVE  g[T] = h[T]
  OBVIOUS
<1> DEFINE C == {U \in SUBSET S : U \subseteq A /\ U \subseteq B /\ g[U] # h[U]}
<1>1. SUFFICES ASSUME C # {} PROVE FALSE BY DEF Totals
<1>2. C \subseteq SUBSET S OBVIOUS
<1>3. PICK U \in C : \A V \in C : ~ (V \subseteq U /\ V # U)
  <2> HIDE DEF C
  <2> QED BY <1>1, <1>2, SmallestSubset
<1>4. U # {} BY <1>3 DEF Totals
<1> DEFINE x == CHOOSE y \in U : TRUE
<1>5. x \in U BY <1>4
<1>6. g[U] = f[x] + g[U \ {x}] /\ h[U] = f[x] + h[U \ {x}] BY <1>3, <1>4 DEF Totals
<1>7. g[U \ {x}] = h[U \ {x}] BY <1>3, <1>5
<1> QED BY <1>3, <1>6, <1>7

(* On every finite set there is such a g: the smallest set without one     *)
(* would get it from those of its strict subsets.                          *)
LEMMA TotalsExist ==
  ASSUME NEW S, IsFiniteSet(S), NEW f
  PROVE  \E g : Totals(g, f, S)
<1> DEFINE C == {U \in SUBSET S : ~ \E g : Totals(g, f, U)}
<1>1. SUFFICES ASSUME C # {} PROVE FALSE OBVIOUS
<1>2. C \subseteq SUBSET S OBVIOUS
<1>3. PICK U \in C : \A V \in C : ~ (V \subseteq U /\ V # U)
  <2> HIDE DEF C
  <2> QED BY <1>1, <1>2, SmallestSubset
<1> DEFINE of(V) == CHOOSE g : Totals(g, f, V)
           pick(s) == CHOOSE y \in s : TRUE
           h == [s \in SUBSET U |-> IF s = {} THEN 0 ELSE f[pick(s)] + of(s \ {pick(s)})[s \ {pick(s)}]]
<1>4. \A V \in SUBSET U : V # U => Totals(of(V), f, V)
  BY <1>3
<1>5. ASSUME NEW s \in SUBSET U, s # {}
      PROVE  h[s \ {pick(s)}] = of(s \ {pick(s)})[s \ {pick(s)}]
  <2> DEFINE V == s \ {pick(s)}
             W == V \ {pick(V)}
  <2>1. pick(s) \in s BY <1>5
  <2>2. V \in SUBSET U /\ V # U BY <2>1
  <2>3. Totals(of(V), f, V) BY <1>4, <2>2
  <2>4. CASE V = {} BY <2>2, <2>3, <2>4 DEF Totals
  <2>5. CASE V # {}
    <3>1. W \in SUBSET V /\ W # U BY <2>2
    <3>2. Totals(of(W), f, W) BY <1>4, <3>1, <2>2
    <3> HIDE DEF of
    <3>3. of(V)[W] = of(W)[W]
      <4>1. U \in SUBSET S /\ V \in SUBSET S /\ W \in SUBSET S BY <2>2, <3>1
      <4> HIDE DEF V, W, C, h
      <4> QED BY <2>3, <3>1, <3>2, <4>1, TotalsAgree
    <3>4. of(V)[V] = f[pick(V)] + of(V)[W]
      BY <2>3, <2>5 DEF Totals
    <3>5. h[V] = f[pick(V)] + of(W)[W]
      BY <2>2, <2>5
    <3> QED BY <3>3, <3>4, <3>5
  <2> QED BY <2>4, <2>5
<1>6. Totals(h, f, U)
  <2> HIDE DEF of
  <2>1. ASSUME NEW s \in SUBSET U
        PROVE  h[s] = IF s = {} THEN 0 ELSE f[pick(s)] + h[s \ {pick(s)}]
    <3>1. h[s] = IF s = {} THEN 0 ELSE f[pick(s)] + of(s \ {pick(s)})[s \ {pick(s)}] OBVIOUS
    <3> HIDE DEF h, pick
    <3> QED BY <1>5, <3>1
  <2>2. h = [s \in SUBSET U |-> h[s]] OBVIOUS
  <2> HIDE DEF h
  <2> QED BY <2>1, <2>2 DEF Totals
<1> QED BY <1>3, <1>6

(* The sum is the value of that g on the whole set: zero on the empty set, *)
(* and else the value of one element added to the sum of the others.       *)
LEMMA SumIsTotal ==
  ASSUME NEW S, IsFiniteSet(S), NEW f, NEW A \in SUBSET S, NEW g, Totals(g, f, S)
  PROVE  SumFunctionOnSet(f, A) = g[A]
<1> DEFINE h == CHOOSE k : Totals(k, f, A)
<1>1. IsFiniteSet(A) BY FS_Subset
<1>2. Totals(h, f, A) BY <1>1, TotalsExist
<1>3. SumFunctionOnSet(f, A) = h[A]
  BY DEF SumFunctionOnSet, FoldFunctionOnSet, MapThenFoldSet, Totals
<1> HIDE DEF h
<1>4. A \in SUBSET A /\ S \in SUBSET S OBVIOUS
<1>5. h[A] = g[A] BY <1>2, <1>4, TotalsAgree
<1> QED BY <1>3, <1>5

LEMMA SumEmpty == ASSUME NEW f, NEW S, S = {} PROVE SumFunctionOnSet(f, S) = 0
<1> SUFFICES SumFunctionOnSet(f, {}) = 0 BY Zenon
<1>1. PICK g : Totals(g, f, {}) BY TotalsExist, FS_EmptySet
<1>2. g[{}] = 0 BY <1>1 DEF Totals
<1>3. SumFunctionOnSet(f, {}) = g[{}] BY <1>1, SumIsTotal, FS_EmptySet
<1> QED BY <1>2, <1>3

LEMMA SumChosen ==
  ASSUME NEW S, IsFiniteSet(S), S # {}, NEW f
  PROVE  \E x \in S : SumFunctionOnSet(f, S) = f[x] + SumFunctionOnSet(f, S \ {x})
<1>1. PICK g : Totals(g, f, S) BY TotalsExist
<1> DEFINE x == CHOOSE y \in S : TRUE
<1>2. x \in S OBVIOUS
<1>3. g[S] = f[x] + g[S \ {x}] BY <1>1 DEF Totals
<1>4. g[S] = SumFunctionOnSet(f, S) BY <1>1, SumIsTotal
<1>5. g[S \ {x}] = SumFunctionOnSet(f, S \ {x}) BY <1>1, SumIsTotal
<1> QED BY <1>2, <1>3, <1>4, <1>5

LEMMA SumInt ==
  ASSUME NEW S, IsFiniteSet(S), NEW f, IntOn(f, S)
  PROVE  SumFunctionOnSet(f, S) \in Int
<1> DEFINE C == {U \in SUBSET S : SumFunctionOnSet(f, U) \notin Int}
<1>1. SUFFICES ASSUME C # {} PROVE FALSE OBVIOUS
<1>2. C \subseteq SUBSET S OBVIOUS
<1>3. PICK U \in C : \A V \in C : ~ (V \subseteq U /\ V # U)
  <2> HIDE DEF C
  <2> QED BY <1>1, <1>2, SmallestSubset
<1>4. U # {} /\ IsFiniteSet(U)
  <2>1. U = {} => SumFunctionOnSet(f, U) = 0 BY SumEmpty
  <2>2. U # {} BY <1>3, <2>1
  <2> QED BY <2>2, FS_Subset
<1>5. PICK x \in U : SumFunctionOnSet(f, U) = f[x] + SumFunctionOnSet(f, U \ {x})
  BY <1>4, SumChosen
<1>6. SumFunctionOnSet(f, U \ {x}) \in Int BY <1>3
<1> QED BY <1>3, <1>5, <1>6 DEF IntOn

(* Any element may be taken out first.                                     *)
LEMMA SumElement ==
  ASSUME NEW S, IsFiniteSet(S), NEW f, IntOn(f, S), NEW x \in S
  PROVE  SumFunctionOnSet(f, S) = f[x] + SumFunctionOnSet(f, S \ {x})
<1> DEFINE Takes(U, y) == SumFunctionOnSet(f, U) = f[y] + SumFunctionOnSet(f, U \ {y})
           C == {U \in SUBSET S : ~ \A y \in U : Takes(U, y)}
<1>1. SUFFICES ASSUME C # {} PROVE FALSE OBVIOUS
<1>2. C \subseteq SUBSET S OBVIOUS
<1>3. PICK U \in C : \A V \in C : ~ (V \subseteq U /\ V # U)
  <2> HIDE DEF C
  <2> QED BY <1>1, <1>2, SmallestSubset
<1>4. PICK y \in U : ~ Takes(U, y) BY <1>3
<1>5. IsFiniteSet(U) BY FS_Subset
<1>6. PICK z \in U : Takes(U, z) BY <1>4, <1>5, SumChosen
<1>7. y # z BY <1>4, <1>6
<1>8. Takes(U \ {z}, y) /\ Takes(U \ {y}, z) BY <1>3, <1>7
<1>9. (U \ {z}) \ {y} = (U \ {y}) \ {z} OBVIOUS
<1>10. f[y] \in Int /\ f[z] \in Int BY DEF IntOn
<1>11. SumFunctionOnSet(f, (U \ {y}) \ {z}) \in Int
  <2>1. IsFiniteSet((U \ {y}) \ {z}) BY <1>5, FS_Subset
  <2> QED BY <2>1, SumInt DEF IntOn
<1> DEFINE r == SumFunctionOnSet(f, (U \ {y}) \ {z})
<1>12. SumFunctionOnSet(f, U \ {z}) = f[y] + r BY <1>8, <1>9
<1>13. SumFunctionOnSet(f, U \ {y}) = f[z] + r BY <1>8
<1>14. SumFunctionOnSet(f, U) = f[z] + (f[y] + r) BY <1>6, <1>12
<1>15. SumFunctionOnSet(f, U) # f[y] + (f[z] + r) BY <1>4, <1>13
<1>16. f[z] + (f[y] + r) = f[y] + (f[z] + r)
  <2> HIDE DEF r
  <2> QED BY <1>10, <1>11 DEF r
<1> QED BY <1>14, <1>15, <1>16

LEMMA SumAdd ==
  ASSUME NEW S, IsFiniteSet(S), NEW x, x \notin S, NEW f, IntOn(f, S \cup {x})
  PROVE  SumFunctionOnSet(f, S \cup {x}) = f[x] + SumFunctionOnSet(f, S)
<1>1. IsFiniteSet(S \cup {x}) BY FS_AddElement
<1>2. (S \cup {x}) \ {x} = S OBVIOUS
<1> QED BY <1>1, <1>2, SumElement

(* A sum is fixed by the values on its set.                                *)
LEMMA SumCongruence ==
  ASSUME NEW S, IsFiniteSet(S), NEW f, NEW g, \A x \in S : f[x] = g[x]
  PROVE  SumFunctionOnSet(f, S) = SumFunctionOnSet(g, S)
<1>1. PICK t : Totals(t, f, S) BY TotalsExist
<1>2. ASSUME NEW s \in SUBSET S, s # {} PROVE (CHOOSE y \in s : TRUE) \in S
  <2>1. (CHOOSE y \in s : TRUE) \in s BY <1>2
  <2> QED BY <2>1
<1>3. Totals(t, g, S) BY <1>1, <1>2 DEF Totals
<1> QED BY <1>1, <1>3, SumIsTotal

(* One value changed changes the sum by the difference.                    *)
LEMMA SumUpdate ==
  ASSUME NEW S, IsFiniteSet(S), NEW f, IntOn(f, S), NEW g, NEW x \in S, g[x] \in Int,
         \A y \in S \ {x} : g[y] = f[y]
  PROVE  SumFunctionOnSet(g, S) = SumFunctionOnSet(f, S) - f[x] + g[x]
<1>1. IsFiniteSet(S \ {x}) BY FS_Subset
<1>2. IntOn(g, S) /\ IntOn(f, S \ {x}) BY DEF IntOn
<1>3. SumFunctionOnSet(g, S) = g[x] + SumFunctionOnSet(g, S \ {x}) BY <1>2, SumElement
<1>4. SumFunctionOnSet(f, S) = f[x] + SumFunctionOnSet(f, S \ {x}) BY SumElement
<1>5. SumFunctionOnSet(g, S \ {x}) = SumFunctionOnSet(f, S \ {x}) BY <1>1, SumCongruence
<1>6. SumFunctionOnSet(f, S \ {x}) \in Int BY <1>1, <1>2, SumInt
<1> QED BY <1>3, <1>4, <1>5, <1>6 DEF IntOn

(* A credit to x, which may be new, adds to the sum what it adds to x; an  *)
(* element that leaves takes its own value.                                *)
LEMMA SumCredit ==
  ASSUME NEW S, IsFiniteSet(S), NEW f, IntOn(f, S), NEW x, NEW v \in Int, NEW g,
         \A y \in S \ {x} : g[y] = f[y],
         x \in S => g[x] = f[x] + v, x \notin S => g[x] = v
  PROVE  SumFunctionOnSet(g, S \cup {x}) = SumFunctionOnSet(f, S) + v
<1>1. SumFunctionOnSet(f, S) \in Int BY SumInt
<1>2. CASE x \in S
  <2>1. SumFunctionOnSet(g, S \cup {x}) = SumFunctionOnSet(g, S)
    <3>1. S \cup {x} = S BY <1>2
    <3> QED BY <3>1, Zenon
  <2>2. f[x] \in Int /\ g[x] = f[x] + v BY <1>2 DEF IntOn
  <2>3. SumFunctionOnSet(g, S) = SumFunctionOnSet(f, S) - f[x] + g[x]
    BY <1>2, <2>2, SumUpdate
  <2> QED BY <1>1, <2>1, <2>2, <2>3
<1>3. CASE x \notin S
  <2>1. \A y \in S : g[y] = f[y] BY <1>3
  <2>2. IntOn(g, S \cup {x}) BY <1>3, <2>1 DEF IntOn
  <2>3. SumFunctionOnSet(g, S \cup {x}) = g[x] + SumFunctionOnSet(g, S)
    BY <1>3, <2>2, SumAdd
  <2>4. SumFunctionOnSet(g, S) = SumFunctionOnSet(f, S) BY <2>1, SumCongruence
  <2> QED BY <1>1, <1>3, <2>3, <2>4
<1> QED BY <1>2, <1>3

LEMMA SumLeave ==
  ASSUME NEW S, IsFiniteSet(S), NEW f, IntOn(f, S), NEW x \in S, NEW g,
         \A y \in S \ {x} : g[y] = f[y]
  PROVE  SumFunctionOnSet(g, S \ {x}) = SumFunctionOnSet(f, S) - f[x]
<1>1. IsFiniteSet(S \ {x}) /\ IntOn(f, S \ {x}) BY FS_Subset DEF IntOn
<1>2. SumFunctionOnSet(g, S \ {x}) = SumFunctionOnSet(f, S \ {x}) BY <1>1, SumCongruence
<1>3. SumFunctionOnSet(f, S) = f[x] + SumFunctionOnSet(f, S \ {x}) BY SumElement
<1>4. SumFunctionOnSet(f, S \ {x}) \in Int BY <1>1, SumInt
<1> QED BY <1>2, <1>3, <1>4 DEF IntOn

(* A sum of smaller values is smaller; the set of the smaller one may be   *)
(* smaller too where nothing is negative.                                  *)
LEMMA SumMonotone ==
  ASSUME NEW S, IsFiniteSet(S), NEW f, IntOn(f, S), NEW g, IntOn(g, S),
         \A x \in S : f[x] <= g[x]
  PROVE  SumFunctionOnSet(f, S) <= SumFunctionOnSet(g, S)
<1> DEFINE C == {U \in SUBSET S : ~ (SumFunctionOnSet(f, U) <= SumFunctionOnSet(g, U))}
<1>1. SUFFICES ASSUME C # {} PROVE FALSE OBVIOUS
<1>2. C \subseteq SUBSET S OBVIOUS
<1>3. PICK U \in C : \A V \in C : ~ (V \subseteq U /\ V # U)
  <2> HIDE DEF C
  <2> QED BY <1>1, <1>2, SmallestSubset
<1>4. IsFiniteSet(U) /\ IntOn(f, U) /\ IntOn(g, U) BY FS_Subset DEF IntOn
<1>5. PICK x : x \in U
  <2>1. U = {} => SumFunctionOnSet(f, U) = 0 /\ SumFunctionOnSet(g, U) = 0 BY SumEmpty
  <2> QED BY <1>3, <2>1
<1>6. SumFunctionOnSet(f, U) = f[x] + SumFunctionOnSet(f, U \ {x}) BY <1>4, <1>5, SumElement
<1>7. SumFunctionOnSet(g, U) = g[x] + SumFunctionOnSet(g, U \ {x}) BY <1>4, <1>5, SumElement
<1>8. SumFunctionOnSet(f, U \ {x}) <= SumFunctionOnSet(g, U \ {x}) BY <1>3, <1>5
<1>9. SumFunctionOnSet(f, U \ {x}) \in Int /\ SumFunctionOnSet(g, U \ {x}) \in Int
  <2>1. IsFiniteSet(U \ {x}) BY <1>4, FS_Subset
  <2>2. IntOn(f, U \ {x}) /\ IntOn(g, U \ {x}) BY DEF IntOn
  <2> QED BY <2>1, <2>2, SumInt
<1>10. f[x] \in Int /\ g[x] \in Int /\ f[x] <= g[x] BY <1>5 DEF IntOn
<1> QED BY <1>3, <1>6, <1>7, <1>8, <1>9, <1>10

LEMMA SumZero ==
  ASSUME NEW S, IsFiniteSet(S), NEW f, \A x \in S : f[x] = 0
  PROVE  SumFunctionOnSet(f, S) = 0
<1> DEFINE C == {U \in SUBSET S : SumFunctionOnSet(f, U) # 0}
<1>1. SUFFICES ASSUME C # {} PROVE FALSE OBVIOUS
<1>2. C \subseteq SUBSET S OBVIOUS
<1>3. PICK U \in C : \A V \in C : ~ (V \subseteq U /\ V # U)
  <2> HIDE DEF C
  <2> QED BY <1>1, <1>2, SmallestSubset
<1>4. U # {} /\ IsFiniteSet(U)
  <2>1. U = {} => SumFunctionOnSet(f, U) = 0 BY SumEmpty
  <2>2. U # {} BY <1>3, <2>1
  <2> QED BY <2>2, FS_Subset
<1>5. PICK x \in U : SumFunctionOnSet(f, U) = f[x] + SumFunctionOnSet(f, U \ {x})
  BY <1>4, SumChosen
<1>6. SumFunctionOnSet(f, U \ {x}) = 0 BY <1>3
<1> QED BY <1>3, <1>5, <1>6

LEMMA SumNat ==
  ASSUME NEW S, IsFiniteSet(S), NEW f, NatOn(f, S)
  PROVE  SumFunctionOnSet(f, S) \in Nat
<1> DEFINE z == [x \in S |-> 0]
<1>1. IntOn(f, S) /\ IntOn(z, S) /\ \A x \in S : z[x] <= f[x] BY DEF IntOn, NatOn
<1>2. \A x \in S : z[x] = 0 OBVIOUS
<1> HIDE DEF z
<1>3. SumFunctionOnSet(z, S) = 0 BY <1>2, SumZero
<1>4. SumFunctionOnSet(z, S) <= SumFunctionOnSet(f, S) BY <1>1, SumMonotone
<1>5. SumFunctionOnSet(f, S) \in Int BY <1>1, SumInt
<1> QED BY <1>3, <1>4, <1>5

(* The sum over a set is the sum over its two parts.                       *)
LEMMA SumSplit ==
  ASSUME NEW S, IsFiniteSet(S), NEW f, IntOn(f, S), NEW T \in SUBSET S
  PROVE  SumFunctionOnSet(f, S) = SumFunctionOnSet(f, T) + SumFunctionOnSet(f, S \ T)
<1> DEFINE Splits(U) == SumFunctionOnSet(f, U \cup T) = SumFunctionOnSet(f, T) + SumFunctionOnSet(f, U)
           C == {U \in SUBSET (S \ T) : ~ Splits(U)}
<1>1. SUFFICES C = {}
  <2>1. Splits(S \ T) BY <1>1
  <2>2. (S \ T) \cup T = S OBVIOUS
  <2> QED BY <2>1, <2>2
<1>2. SUFFICES ASSUME C # {} PROVE FALSE OBVIOUS
<1>3. C \subseteq SUBSET S OBVIOUS
<1>4. PICK U \in C : \A V \in C : ~ (V \subseteq U /\ V # U)
  <2> HIDE DEF C
  <2> QED BY <1>2, <1>3, SmallestSubset
<1>5. IsFiniteSet(U) /\ IsFiniteSet(T) /\ IntOn(f, U) /\ IntOn(f, T)
  BY FS_Subset DEF IntOn
<1>6. SumFunctionOnSet(f, T) \in Int BY <1>5, SumInt
<1>7. PICK x : x \in U
  <2>1. SUFFICES ASSUME U = {} PROVE FALSE OBVIOUS
  <2>2. SumFunctionOnSet(f, U) = 0 BY <2>1, SumEmpty
  <2>3. SumFunctionOnSet(f, U \cup T) = SumFunctionOnSet(f, T)
    <3>1. U \cup T = T BY <2>1
    <3> QED BY <3>1, Zenon
  <2> QED BY <1>4, <1>6, <2>2, <2>3
<1> DEFINE V == U \ {x}
<1>8. V \in SUBSET (S \ T) /\ V # U /\ IsFiniteSet(V) /\ IntOn(f, V) /\ f[x] \in Int
  BY <1>5, <1>7, FS_Subset DEF IntOn
<1>9. SumFunctionOnSet(f, U) = f[x] + SumFunctionOnSet(f, V) BY <1>5, <1>7, SumElement
<1>10. SumFunctionOnSet(f, U \cup T) = f[x] + SumFunctionOnSet(f, V \cup T)
  <2>1. IsFiniteSet(V \cup T) BY <1>5, <1>8, FS_Union
  <2>2. x \notin V \cup T /\ U \cup T = (V \cup T) \cup {x} BY <1>7
  <2>3. IntOn(f, (V \cup T) \cup {x}) BY <1>7 DEF IntOn
  <2> HIDE DEF V
  <2> QED BY <2>1, <2>2, <2>3, SumAdd
<1>11. Splits(V) BY <1>4, <1>8
<1>12. SumFunctionOnSet(f, V) \in Int BY <1>8, SumInt
<1> QED BY <1>4, <1>6, <1>8, <1>9, <1>10, <1>11, <1>12

LEMMA SumSubset ==
  ASSUME NEW S, IsFiniteSet(S), NEW f, NatOn(f, S), NEW T \in SUBSET S
  PROVE  SumFunctionOnSet(f, T) <= SumFunctionOnSet(f, S)
<1>1. IsFiniteSet(T) /\ IsFiniteSet(S \ T) BY FS_Subset
<1>2. NatOn(f, T) /\ NatOn(f, S \ T) /\ IntOn(f, S) BY DEF NatOn, IntOn
<1>3. SumFunctionOnSet(f, T) \in Nat /\ SumFunctionOnSet(f, S \ T) \in Nat BY <1>1, <1>2, SumNat
<1>4. SumFunctionOnSet(f, S) = SumFunctionOnSet(f, T) + SumFunctionOnSet(f, S \ T)
  BY <1>2, SumSplit
<1> QED BY <1>3, <1>4

LEMMA SumOneOf ==
  ASSUME NEW S, IsFiniteSet(S), NEW f, NatOn(f, S), NEW x \in S
  PROVE  f[x] <= SumFunctionOnSet(f, S)
<1>1. IsFiniteSet(S \ {x}) BY FS_Subset
<1>2. NatOn(f, S \ {x}) /\ IntOn(f, S) BY DEF NatOn, IntOn
<1>3. SumFunctionOnSet(f, S \ {x}) \in Nat BY <1>1, <1>2, SumNat
<1>4. SumFunctionOnSet(f, S) = f[x] + SumFunctionOnSet(f, S \ {x}) BY <1>2, SumElement
<1> QED BY <1>3, <1>4 DEF NatOn

(* A common factor comes out; sums of two functions add up.                *)
LEMMA SumScale ==
  ASSUME NEW S, IsFiniteSet(S), NEW f, IntOn(f, S), NEW k \in Int, NEW g,
         \A x \in S : g[x] = k * f[x]
  PROVE  SumFunctionOnSet(g, S) = k * SumFunctionOnSet(f, S)
<1> DEFINE C == {U \in SUBSET S : SumFunctionOnSet(g, U) # k * SumFunctionOnSet(f, U)}
<1>1. SUFFICES ASSUME C # {} PROVE FALSE OBVIOUS
<1>2. C \subseteq SUBSET S OBVIOUS
<1>3. PICK U \in C : \A V \in C : ~ (V \subseteq U /\ V # U)
  <2> HIDE DEF C
  <2> QED BY <1>1, <1>2, SmallestSubset
<1>4. IsFiniteSet(U) /\ IntOn(f, U) BY FS_Subset DEF IntOn
<1>5. \A x \in U : k * f[x] \in Int BY DEF IntOn
<1>6. IntOn(g, U) BY <1>5 DEF IntOn
<1>7. PICK x : x \in U
  <2>1. U = {} => SumFunctionOnSet(f, U) = 0 /\ SumFunctionOnSet(g, U) = 0 BY SumEmpty
  <2> QED BY <1>3, <2>1
<1> DEFINE a == SumFunctionOnSet(f, U \ {x})
           b == SumFunctionOnSet(g, U \ {x})
<1>8. SumFunctionOnSet(f, U) = f[x] + a BY <1>4, <1>7, SumElement
<1>9. SumFunctionOnSet(g, U) = k * f[x] + b BY <1>4, <1>6, <1>7, SumElement
<1>10. b = k * a BY <1>3, <1>7
<1>11. a \in Int
  <2>1. IsFiniteSet(U \ {x}) /\ IntOn(f, U \ {x}) BY <1>4, FS_Subset DEF IntOn
  <2> QED BY <2>1, SumInt
<1>12. f[x] \in Int BY <1>7 DEF IntOn
<1>13. SumFunctionOnSet(g, U) # k * (f[x] + a) BY <1>3, <1>8
<1> HIDE DEF a, b
<1>14. k * (f[x] + a) = k * f[x] + k * a BY <1>11, <1>12
<1> QED BY <1>9, <1>10, <1>13, <1>14

LEMMA SumPlus ==
  ASSUME NEW S, IsFiniteSet(S), NEW f, IntOn(f, S), NEW g, IntOn(g, S), NEW h,
         \A x \in S : h[x] = f[x] + g[x]
  PROVE  SumFunctionOnSet(h, S) = SumFunctionOnSet(f, S) + SumFunctionOnSet(g, S)
<1> DEFINE C == {U \in SUBSET S :
                   SumFunctionOnSet(h, U) # SumFunctionOnSet(f, U) + SumFunctionOnSet(g, U)}
<1>1. SUFFICES ASSUME C # {} PROVE FALSE OBVIOUS
<1>2. C \subseteq SUBSET S OBVIOUS
<1>3. PICK U \in C : \A V \in C : ~ (V \subseteq U /\ V # U)
  <2> HIDE DEF C
  <2> QED BY <1>1, <1>2, SmallestSubset
<1>4. IsFiniteSet(U) /\ IntOn(f, U) /\ IntOn(g, U) /\ IntOn(h, U) BY FS_Subset DEF IntOn
<1>5. PICK x : x \in U
  <2>1. U = {} => /\ SumFunctionOnSet(f, U) = 0
                  /\ SumFunctionOnSet(g, U) = 0
                  /\ SumFunctionOnSet(h, U) = 0
    BY SumEmpty
  <2> QED BY <1>3, <2>1
<1>6. SumFunctionOnSet(f, U) = f[x] + SumFunctionOnSet(f, U \ {x}) BY <1>4, <1>5, SumElement
<1>7. SumFunctionOnSet(g, U) = g[x] + SumFunctionOnSet(g, U \ {x}) BY <1>4, <1>5, SumElement
<1>8. SumFunctionOnSet(h, U) = h[x] + SumFunctionOnSet(h, U \ {x}) BY <1>4, <1>5, SumElement
<1>9. SumFunctionOnSet(h, U \ {x}) = SumFunctionOnSet(f, U \ {x}) + SumFunctionOnSet(g, U \ {x})
  BY <1>3, <1>5
<1>10. SumFunctionOnSet(f, U \ {x}) \in Int /\ SumFunctionOnSet(g, U \ {x}) \in Int
  <2>1. IsFiniteSet(U \ {x}) BY <1>4, FS_Subset
  <2>2. IntOn(f, U \ {x}) /\ IntOn(g, U \ {x}) BY DEF IntOn
  <2> QED BY <2>1, <2>2, SumInt
<1>11. f[x] \in Int /\ g[x] \in Int /\ h[x] = f[x] + g[x] BY <1>5 DEF IntOn
<1> QED BY <1>3, <1>6, <1>7, <1>8, <1>9, <1>10, <1>11

(* Values changed on a part T of S change the sum by what they change; and *)
(* what is zero off T need not be added.                                   *)
LEMMA SumBatch ==
  ASSUME NEW S, IsFiniteSet(S), NEW f, IntOn(f, S), NEW T \in SUBSET S,
         NEW d, IntOn(d, T), NEW g,
         \A x \in T : g[x] = f[x] + d[x], \A x \in S \ T : g[x] = f[x]
  PROVE  SumFunctionOnSet(g, S) = SumFunctionOnSet(f, S) + SumFunctionOnSet(d, T)
<1>1. IsFiniteSet(T) /\ IsFiniteSet(S \ T) BY FS_Subset
<1>2. IntOn(f, T) /\ IntOn(f, S \ T) /\ IntOn(g, S) BY DEF IntOn
<1>3. SumFunctionOnSet(f, S) = SumFunctionOnSet(f, T) + SumFunctionOnSet(f, S \ T) BY SumSplit
<1>4. SumFunctionOnSet(g, S) = SumFunctionOnSet(g, T) + SumFunctionOnSet(g, S \ T)
  BY <1>2, SumSplit
<1>5. SumFunctionOnSet(g, S \ T) = SumFunctionOnSet(f, S \ T) BY <1>1, SumCongruence
<1>6. SumFunctionOnSet(g, T) = SumFunctionOnSet(f, T) + SumFunctionOnSet(d, T)
  BY <1>1, <1>2, SumPlus
<1>7. /\ SumFunctionOnSet(f, T) \in Int /\ SumFunctionOnSet(f, S \ T) \in Int
      /\ SumFunctionOnSet(d, T) \in Int
  BY <1>1, <1>2, SumInt
<1> QED BY <1>3, <1>4, <1>5, <1>6, <1>7

LEMMA SumSupport ==
  ASSUME NEW S, IsFiniteSet(S), NEW f, IntOn(f, S), NEW T \in SUBSET S,
         \A x \in S \ T : f[x] = 0
  PROVE  SumFunctionOnSet(f, S) = SumFunctionOnSet(f, T)
<1>1. IsFiniteSet(T) /\ IsFiniteSet(S \ T) /\ IntOn(f, T) BY FS_Subset DEF IntOn
<1>2. SumFunctionOnSet(f, S) = SumFunctionOnSet(f, T) + SumFunctionOnSet(f, S \ T) BY SumSplit
<1>3. SumFunctionOnSet(f, S \ T) = 0 BY <1>1, SumZero
<1>4. SumFunctionOnSet(f, T) \in Int BY <1>1, SumInt
<1> QED BY <1>2, <1>3, <1>4

LEMMA SumSingle ==
  ASSUME NEW x, NEW f, f[x] \in Int
  PROVE  SumFunctionOnSet(f, {x}) = f[x]
<1>1. IsFiniteSet({x}) /\ IntOn(f, {x}) BY FS_Singleton DEF IntOn
<1>2. SumFunctionOnSet(f, {x}) = f[x] + SumFunctionOnSet(f, {x} \ {x}) BY <1>1, SumElement
<1>3. SumFunctionOnSet(f, {x} \ {x}) = 0 BY SumEmpty
<1> QED BY <1>2, <1>3

LEMMA SumOnes ==
  ASSUME NEW S, IsFiniteSet(S), NEW f, \A x \in S : f[x] = 1
  PROVE  SumFunctionOnSet(f, S) = Cardinality(S)
<1> DEFINE C == {U \in SUBSET S : SumFunctionOnSet(f, U) # Cardinality(U)}
<1>1. SUFFICES ASSUME C # {} PROVE FALSE OBVIOUS
<1>2. C \subseteq SUBSET S OBVIOUS
<1>3. PICK U \in C : \A V \in C : ~ (V \subseteq U /\ V # U)
  <2> HIDE DEF C
  <2> QED BY <1>1, <1>2, SmallestSubset
<1>4. IsFiniteSet(U) /\ IntOn(f, U) BY FS_Subset DEF IntOn
<1>5. PICK x : x \in U
  <2>1. U = {} => SumFunctionOnSet(f, U) = 0 /\ Cardinality(U) = 0 BY SumEmpty, FS_EmptySet
  <2> QED BY <1>3, <2>1
<1>6. SumFunctionOnSet(f, U) = 1 + SumFunctionOnSet(f, U \ {x}) BY <1>4, <1>5, SumElement
<1>7. SumFunctionOnSet(f, U \ {x}) = Cardinality(U \ {x}) BY <1>3, <1>5
<1>8. Cardinality(U \ {x}) = Cardinality(U) - 1 /\ Cardinality(U) \in Nat
  BY <1>4, <1>5, FS_RemoveElement, FS_CardinalityType
<1> QED BY <1>3, <1>6, <1>7, <1>8

(* What is shared out by rounding down the part of each: never more than   *)
(* there is, and less than one unit each below it.                         *)
LEMMA FloorBounds ==
  ASSUME NEW x \in Nat, NEW d \in Nat, d > 0
  PROVE  /\ x \div d \in Nat
         /\ d * (x \div d) <= x
         /\ x < d * (x \div d + 1)
<1> DEFINE q == x \div d
<1>1. q \in Int /\ d * q <= x /\ x < d * q + d OBVIOUS
<1>2. q >= 0 OBVIOUS
<1>3. d * (q + 1) = d * q + d BY <1>1
<1> QED BY <1>1, <1>2, <1>3

LEMMA SharesFit ==
  ASSUME NEW S, IsFiniteSet(S), NEW a, NatOn(a, S), NEW total \in Nat, NEW part \in Nat,
         total > 0, NEW g, \A x \in S : g[x] = (part * a[x]) \div total
  PROVE  /\ NatOn(g, S)
         /\ total * SumFunctionOnSet(g, S) <= part * SumFunctionOnSet(a, S)
         /\ part * SumFunctionOnSet(a, S)
              <= total * (SumFunctionOnSet(g, S) + Cardinality(S))
<1> DEFINE low == [x \in S |-> total * g[x]]
           mid == [x \in S |-> part * a[x]]
           one == [x \in S |-> 1]
           up == [x \in S |-> g[x] + one[x]]
           high == [x \in S |-> total * up[x]]
<1>1. ASSUME NEW x \in S
      PROVE  /\ g[x] \in Nat
             /\ part * a[x] \in Nat
             /\ total * g[x] <= part * a[x]
             /\ part * a[x] <= total * (g[x] + 1)
             /\ total * g[x] \in Int /\ total * (g[x] + 1) \in Int
  <2> DEFINE y == part * a[x]
  <2>1. y \in Nat BY DEF NatOn
  <2> HIDE DEF y
  <2>2. /\ y \div total \in Nat
        /\ total * (y \div total) <= y
        /\ y < total * (y \div total + 1)
    BY <2>1, FloorBounds
  <2>3. g[x] = y \div total BY DEF y
  <2> DEFINE z == y \div total
  <2>4. z \in Nat /\ total * z <= y /\ y < total * (z + 1) BY <2>2
  <2> HIDE DEF z
  <2>5. total * z \in Int /\ total * (z + 1) \in Int BY <2>4
  <2> QED BY <2>1, <2>3, <2>4, <2>5 DEF y, z
<1>2. NatOn(g, S) /\ IntOn(g, S) /\ IntOn(a, S) BY <1>1 DEF NatOn, IntOn
<1>3. IntOn(one, S) /\ IntOn(up, S) /\ IntOn(low, S) /\ IntOn(mid, S) /\ IntOn(high, S)
  BY <1>1 DEF IntOn
<1>4. SumFunctionOnSet(low, S) = total * SumFunctionOnSet(g, S)
  <2>1. \A x \in S : low[x] = total * g[x] OBVIOUS
  <2> HIDE DEF low
  <2> QED BY <1>2, <2>1, SumScale
<1>5. SumFunctionOnSet(mid, S) = part * SumFunctionOnSet(a, S)
  <2>1. \A x \in S : mid[x] = part * a[x] OBVIOUS
  <2> HIDE DEF mid
  <2> QED BY <1>2, <2>1, SumScale
<1>6. SumFunctionOnSet(up, S) = SumFunctionOnSet(g, S) + Cardinality(S)
  <2>1. SumFunctionOnSet(one, S) = Cardinality(S)
    <3>1. \A x \in S : one[x] = 1 OBVIOUS
    <3> HIDE DEF one
    <3> QED BY <3>1, SumOnes
  <2>2. \A x \in S : up[x] = g[x] + one[x] OBVIOUS
  <2> HIDE DEF up, one
  <2> QED BY <1>2, <1>3, <2>1, <2>2, SumPlus
<1>7. SumFunctionOnSet(high, S) = total * SumFunctionOnSet(up, S)
  <2>1. \A x \in S : high[x] = total * up[x] OBVIOUS
  <2> HIDE DEF high, up
  <2> QED BY <1>3, <2>1, SumScale
<1>8. /\ \A x \in S : low[x] <= mid[x]
      /\ \A x \in S : mid[x] <= high[x]
  BY <1>1
<1> HIDE DEF low, mid, high, up, one
<1>9. SumFunctionOnSet(low, S) <= SumFunctionOnSet(mid, S) BY <1>3, <1>8, SumMonotone
<1>10. SumFunctionOnSet(mid, S) <= SumFunctionOnSet(high, S) BY <1>3, <1>8, SumMonotone
<1> QED BY <1>2, <1>4, <1>5, <1>6, <1>7, <1>9, <1>10

(* Parts that are each at most one unit above their due are so together.   *)
LEMMA SharesAbove ==
  ASSUME NEW S, IsFiniteSet(S), NEW a, NatOn(a, S), NEW total \in Nat, NEW part \in Nat,
         NEW g, NatOn(g, S),
         \A x \in S : /\ part * a[x] <= total * g[x]
                      /\ total * g[x] <= part * a[x] + total
  PROVE  /\ part * SumFunctionOnSet(a, S) <= total * SumFunctionOnSet(g, S)
         /\ total * SumFunctionOnSet(g, S)
              <= part * SumFunctionOnSet(a, S) + total * Cardinality(S)
<1> DEFINE low == [x \in S |-> part * a[x]]
           mid == [x \in S |-> total * g[x]]
           one == [x \in S |-> 1]
           unit == [x \in S |-> total * one[x]]
           high == [x \in S |-> low[x] + unit[x]]
<1>1. ASSUME NEW x \in S
      PROVE  part * a[x] \in Nat /\ total * g[x] \in Nat /\ total * 1 = total
  BY DEF NatOn
<1>2. IntOn(g, S) /\ IntOn(a, S) BY <1>1 DEF NatOn, IntOn
<1>3. IntOn(one, S) /\ IntOn(unit, S) /\ IntOn(low, S) /\ IntOn(mid, S) /\ IntOn(high, S)
  BY <1>1 DEF IntOn
<1>4. SumFunctionOnSet(low, S) = part * SumFunctionOnSet(a, S)
  <2>1. \A x \in S : low[x] = part * a[x] OBVIOUS
  <2> HIDE DEF low, mid, high, unit, one
  <2> QED BY <1>2, <2>1, SumScale
<1>5. SumFunctionOnSet(mid, S) = total * SumFunctionOnSet(g, S)
  <2>1. \A x \in S : mid[x] = total * g[x] OBVIOUS
  <2> HIDE DEF low, mid, high, unit, one
  <2> QED BY <1>2, <2>1, SumScale
<1>6. SumFunctionOnSet(unit, S) = total * Cardinality(S)
  <2>1. \A x \in S : one[x] = 1 OBVIOUS
  <2>2. \A x \in S : unit[x] = total * one[x] OBVIOUS
  <2> HIDE DEF one, unit
  <2>3. SumFunctionOnSet(one, S) = Cardinality(S) BY <2>1, SumOnes
  <2> QED BY <1>3, <2>2, <2>3, SumScale
<1>7. SumFunctionOnSet(high, S) = SumFunctionOnSet(low, S) + SumFunctionOnSet(unit, S)
  <2>1. \A x \in S : high[x] = low[x] + unit[x] OBVIOUS
  <2> HIDE DEF high, low, unit
  <2> QED BY <1>3, <2>1, SumPlus
<1>8. /\ \A x \in S : low[x] <= mid[x]
      /\ \A x \in S : mid[x] <= high[x]
  BY <1>1
<1> HIDE DEF low, mid, high, unit, one
<1>9. SumFunctionOnSet(low, S) <= SumFunctionOnSet(mid, S) BY <1>3, <1>8, SumMonotone
<1>10. SumFunctionOnSet(mid, S) <= SumFunctionOnSet(high, S) BY <1>3, <1>8, SumMonotone
<1> QED BY <1>2, <1>4, <1>5, <1>6, <1>7, <1>9, <1>10

(* What is taken from each by rounding up its part: never less than the    *)
(* part of all of them, and at most one unit each above it.                *)
LEMMA SharesUp ==
  ASSUME NEW S, IsFiniteSet(S), NEW a, NatOn(a, S), NEW total \in Nat, NEW part \in Nat,
         total > 0, NEW g, \A x \in S : g[x] = (part * a[x] + total - 1) \div total
  PROVE  /\ NatOn(g, S)
         /\ part * SumFunctionOnSet(a, S) <= total * SumFunctionOnSet(g, S)
         /\ total * SumFunctionOnSet(g, S)
              <= part * SumFunctionOnSet(a, S) + total * Cardinality(S)
<1>1. NatOn(g, S) /\ \A x \in S : /\ part * a[x] <= total * g[x]
                                /\ total * g[x] <= part * a[x] + total
  <2> SUFFICES ASSUME NEW x \in S
               PROVE  /\ g[x] \in Nat
                      /\ part * a[x] <= total * g[x]
                      /\ total * g[x] <= part * a[x] + total
    BY DEF NatOn
  <2> DEFINE y == part * a[x]
  <2>1. y \in Nat BY DEF NatOn
  <2> HIDE DEF y
  <2> DEFINE u == y + total - 1
  <2>2. u \in Nat BY <2>1
  <2>3. g[x] = u \div total BY DEF y
  <2> HIDE DEF u
  <2>4. /\ u \div total \in Nat
        /\ total * (u \div total) <= u
        /\ u < total * (u \div total + 1)
    BY <2>2, FloorBounds
  <2> DEFINE z == u \div total
  <2>5. z \in Nat /\ total * z <= u /\ u < total * (z + 1) BY <2>4
  <2> HIDE DEF z
  <2>6. total * (z + 1) = total * z + total /\ total * z \in Nat BY <2>5
  <2>7. y <= total * z /\ total * z <= y + total BY <2>1, <2>5, <2>6 DEF u
  <2> QED BY <2>1, <2>3, <2>5, <2>6, <2>7 DEF y, z
<1>2. /\ part * SumFunctionOnSet(a, S) <= total * SumFunctionOnSet(g, S)
      /\ total * SumFunctionOnSet(g, S)
           <= part * SumFunctionOnSet(a, S) + total * Cardinality(S)
  BY <1>1, SharesAbove
<1> QED BY <1>1, <1>2

(* A positive factor may be taken off both sides.                          *)
LEMMA CancelFactor ==
  ASSUME NEW k \in Nat, k > 0, NEW x \in Int, NEW y \in Int, k * x <= k * y
  PROVE  x <= y
<1> SUFFICES ASSUME x > y PROVE FALSE OBVIOUS
<1>1. x - y \in Nat /\ x - y >= 1 OBVIOUS
<1>2. k * (x - y) >= k BY <1>1
<1>3. k * (x - y) = k * x - k * y OBVIOUS
<1> QED BY <1>2, <1>3

(* Sums over the groups of V, by the group k[v] of each, add up to the sum *)
(* over V.                                                                 *)
LEMMA SumGroups ==
  ASSUME NEW V, IsFiniteSet(V), NEW F, IsFiniteSet(F), NEW k, \A v \in V : k[v] \in F,
         NEW a, IntOn(a, V), NEW g,
         \A f \in F : g[f] = SumFunctionOnSet(a, {v \in V : k[v] = f})
  PROVE  SumFunctionOnSet(g, F) = SumFunctionOnSet(a, V)
<1> DEFINE In(U) == {v \in V : k[v] \in U}
           C == {U \in SUBSET F : SumFunctionOnSet(g, U) # SumFunctionOnSet(a, In(U))}
<1>1. SUFFICES C = {}
  <2>1. SumFunctionOnSet(g, F) = SumFunctionOnSet(a, In(F)) BY <1>1
  <2>2. In(F) = V OBVIOUS
  <2> QED BY <2>1, <2>2
<1>2. SUFFICES ASSUME C # {} PROVE FALSE OBVIOUS
<1>3. C \subseteq SUBSET F OBVIOUS
<1>4. PICK U \in C : \A W \in C : ~ (W \subseteq U /\ W # U)
  <2> HIDE DEF C
  <2> QED BY <1>2, <1>3, SmallestSubset
<1>5. PICK x : x \in U
  <2>1. ASSUME U = {} PROVE SumFunctionOnSet(g, U) = SumFunctionOnSet(a, In(U))
    <3>1. In(U) = {} BY <2>1
    <3> QED BY <2>1, <3>1, SumEmpty
  <2> QED BY <1>4, <2>1
<1> DEFINE W == U \ {x}
           G == {v \in V : k[v] = x}
<1>6. U \subseteq F /\ IsFiniteSet(U) BY <1>4, FS_Subset
<1>7. W \in SUBSET F /\ W \subseteq U /\ W # U BY <1>5, <1>6
<1>8. SumFunctionOnSet(g, W) = SumFunctionOnSet(a, In(W)) BY <1>4, <1>7
<1>9. IsFiniteSet(In(U)) /\ IntOn(a, In(U)) /\ G \in SUBSET In(U) /\ In(U) \ G = In(W)
  <2>1. IsFiniteSet(In(U)) BY FS_Subset
  <2>2. IntOn(a, In(U)) BY DEF IntOn
  <2> QED BY <1>5, <2>1, <2>2
<1>10. SumFunctionOnSet(a, In(U)) = SumFunctionOnSet(a, G) + SumFunctionOnSet(a, In(U) \ G)
  <2> HIDE DEF In, G
  <2> QED BY <1>9, SumSplit
<1>11. IntOn(g, U)
  <2> SUFFICES ASSUME NEW f \in U PROVE g[f] \in Int BY DEF IntOn
  <2> DEFINE H == {v \in V : k[v] = f}
  <2>1. IsFiniteSet(H) /\ IntOn(a, H) BY FS_Subset DEF IntOn
  <2>2. g[f] = SumFunctionOnSet(a, H) BY <1>6
  <2> HIDE DEF H
  <2> QED BY <2>1, <2>2, SumInt
<1>12. SumFunctionOnSet(g, U) = g[x] + SumFunctionOnSet(g, W) BY <1>5, <1>6, <1>11, SumElement
<1>13. g[x] = SumFunctionOnSet(a, G) BY <1>5, <1>6
<1>14. SumFunctionOnSet(g, U) = SumFunctionOnSet(a, In(U))
  <2> HIDE DEF In, G, W, C
  <2> QED BY <1>8, <1>9, <1>10, <1>12, <1>13
<1> QED BY <1>4, <1>14

============================================================================
