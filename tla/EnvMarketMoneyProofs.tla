------------------------- MODULE EnvMarketMoneyProofs -------------------------
(***************************************************************************)
(* What EnvMarket holds and owes, for every value of its constants: the    *)
(* accounting identity, what each bucket and each hold is made of, that    *)
(* none of them ever falls below what is taken from it, and that the       *)
(* reputation records count the purchases they are about.                  *)
(***************************************************************************)
EXTENDS EnvMarketCaseProofs, WellFoundedInduction

---------------------------------------------------------------------------
(* Sums of a function over a finite domain: SumFunction of the community   *)
(* modules, which the market's buckets and holds are compared with.        *)
(*                                                                         *)
(* SumFunction folds: it is defined by recursion over subsets, taking out  *)
(* some element each time.  Each fact about it holds of the empty set and  *)
(* survives one more element; it is proved by looking at a smallest subset *)
(* it would fail for, which the strict subset ordering has because it is   *)
(* well founded on the subsets of a finite set.                            *)

\* The element a sum takes out first.
First(s) == CHOOSE x \in s : TRUE

\* g is the running sum of f over the subsets of S.
SumsUp(g, f, S) ==
  g = [s \in SUBSET S |-> IF s = {} THEN 0 ELSE f[First(s)] + g[s \ {First(s)}]]

\* The solution of that recursion, if there is one.
running(f, S) == CHOOSE g : SumsUp(g, f, S)

\* SumFunctionOnSet is that solution at the whole set.
LEMMA SumRuns ==
  ASSUME NEW f, NEW S PROVE SumFunctionOnSet(f, S) = running(f, S)[S]
BY DEF SumFunctionOnSet, FoldFunctionOnSet, MapThenFoldSet, SumsUp, First, running

\* A set of numbers has a least one.
LEMMA LeastExists ==
  ASSUME NEW T \in SUBSET Nat, T # {}
  PROVE  \E n \in T : \A m \in T : n <= m
<1> DEFINE R == OpToRel(<, Nat)
<1>1. IsWellFoundedOn(R, Nat) BY NatLessThanWellFounded
<1>2. \A m, n \in Nat : <<m, n>> \in R <=> m < n BY DEF OpToRel
<1> HIDE DEF R
<1>3. T \subseteq Nat OBVIOUS
<1>4. \E x \in T : \A y \in T : ~ (<<y, x>> \in R) BY <1>1, <1>3, WFMin
<1>5. PICK n \in T : \A m \in T : ~ (<<m, n>> \in R) BY <1>4
<1>6. \A m \in T : ~ (m < n) BY <1>2, <1>3, <1>5
<1> QED BY <1>3, <1>5, <1>6

\* A collection of subsets of a finite set has a smallest one.
LEMMA SmallestSubset ==
  ASSUME NEW S, IsFiniteSet(S), NEW C \in SUBSET (SUBSET S), C # {}
  PROVE  \E s \in C : \A x \in s : s \ {x} \notin C
<1> DEFINE R == StrictSubsetOrdering(S)
<1>1. IsWellFoundedOn(R, SUBSET S)
  BY FS_StrictSubsetOrderingWellFounded, FS_FiniteSubsetsOfFinite
<1>2. \A s \in SUBSET S : \A x \in s : <<s \ {x}, s>> \in R BY DEF StrictSubsetOrdering
<1> HIDE DEF R
<1>3. C \subseteq SUBSET S OBVIOUS
<1>4. \E s \in C : \A t \in C : ~ (<<t, s>> \in R) BY <1>1, <1>3, WFMin
<1>5. PICK s \in C : \A t \in C : ~ (<<t, s>> \in R) BY <1>4
<1>6. s \in SUBSET S BY <1>3
<1> QED BY <1>2, <1>5, <1>6

\* The recursion has a solution: one for the subsets of at most n elements, for every n.
LEMMA RunningExists == ASSUME NEW f, NEW S, IsFiniteSet(S) PROVE SumsUp(running(f, S), f, S)
<1> DEFINE small(n) == {t \in SUBSET S : Cardinality(t) <= n}
           next(g, s) == IF s = {} THEN 0 ELSE f[First(s)] + g[s \ {First(s)}]
           upto(g, n) == g = [s \in small(n) |-> next(g, s)]
           none == {n \in Nat : ~ \E g : upto(g, n)}
<1>1. \A s \in SUBSET S : /\ IsFiniteSet(s) /\ Cardinality(s) \in Nat
                          /\ Cardinality(s) = 0 <=> s = {}
  BY FS_Subset, FS_CardinalityType, FS_EmptySet
<1>2. \A s \in SUBSET S : s # {} => /\ First(s) \in s /\ s \ {First(s)} \in SUBSET S
                                    /\ Cardinality(s \ {First(s)}) = Cardinality(s) - 1
  <2> SUFFICES ASSUME NEW s \in SUBSET S, s # {}
               PROVE  /\ First(s) \in s /\ s \ {First(s)} \in SUBSET S
                      /\ Cardinality(s \ {First(s)}) = Cardinality(s) - 1
    OBVIOUS
  <2>1. First(s) \in s BY DEF First
  <2>2. Cardinality(s \ {First(s)}) = Cardinality(s) - 1 BY <1>1, <2>1, FS_RemoveElement
  <2> QED BY <2>1, <2>2
<1>3. none = {}
  <2> SUFFICES ASSUME none # {} PROVE FALSE OBVIOUS
  <2>1. none \in SUBSET Nat OBVIOUS
  <2>2. \E n \in none : \A m \in none : n <= m BY <2>1, LeastExists
  <2>3. PICK n \in none : \A m \in none : n <= m BY <2>2
  <2>4. n \in Nat /\ ~ \E g : upto(g, n) BY <2>3
  <2>5. CASE n = 0
    <3> DEFINE g == [s \in small(0) |-> 0]
    <3>1. \A s \in small(0) : s = {} BY <1>1
    <3>2. \A s \in small(0) : next(g, s) = 0 BY <3>1
    <3>3. g = [s \in small(0) |-> next(g, s)] BY <3>2
    <3> QED BY <2>4, <2>5, <3>3
  <2>6. CASE n # 0
    <3>1. n - 1 \in Nat /\ n - 1 \notin none
      <4> HIDE DEF none
      <4> QED BY <2>3, <2>4, <2>6
    <3>2. PICK g : upto(g, n - 1) BY <3>1
    <3> DEFINE h == [s \in small(n) |-> next(g, s)]
    <3>3. ASSUME NEW s \in small(n), s # {}
          PROVE  h[s \ {First(s)}] = g[s \ {First(s)}]
      <4> DEFINE t == s \ {First(s)}
      <4>1. Cardinality(s) \in Nat /\ Cardinality(s) <= n /\ s \in SUBSET S BY <1>1
      <4>2. t \in SUBSET S /\ Cardinality(t) = Cardinality(s) - 1 BY <1>2, <3>3, <4>1
      <4> HIDE DEF t
      <4>3. t \in small(n) /\ t \in small(n - 1) BY <2>4, <4>1, <4>2
      <4>4. g[t] = next(g, t) BY <3>2, <4>3
      <4>5. h[t] = next(g, t) BY <4>3
      <4> QED BY <4>4, <4>5 DEF t
    <3>4. \A s \in small(n) : next(g, s) = next(h, s) BY <3>3
    <3> HIDE DEF next, small
    <3>5. h = [s \in small(n) |-> next(h, s)] BY <3>4
    <3>6. upto(h, n) BY <3>5
    <3> QED BY <2>4, <3>6
  <2> QED BY <2>5, <2>6
<1>4. Cardinality(S) \in Nat BY FS_CardinalityType
<1>5. PICK g : upto(g, Cardinality(S)) BY <1>3, <1>4
<1>6. small(Cardinality(S)) = SUBSET S BY FS_Subset
<1>7. SumsUp(g, f, S) BY <1>5, <1>6 DEF SumsUp
<1> QED BY <1>7 DEF running

\* The running sum of the empty set, and of any other.
StepsUp(g, f, S) ==
  /\ g[{}] = 0
  /\ \A s \in SUBSET S : s # {} => First(s) \in s /\ g[s] = f[First(s)] + g[s \ {First(s)}]

LEMMA RunningStep == ASSUME NEW f, NEW S, IsFiniteSet(S) PROVE StepsUp(running(f, S), f, S)
<1> DEFINE g == running(f, S)
<1>0. SumsUp(g, f, S) BY RunningExists
<1> HIDE DEF g
<1>1. g = [s \in SUBSET S |-> IF s = {} THEN 0 ELSE f[First(s)] + g[s \ {First(s)}]]
  BY <1>0 DEF SumsUp
<1>2. g[{}] = 0 BY <1>1, {} \in SUBSET S
<1>3. \A s \in SUBSET S : s # {} => g[s] = f[First(s)] + g[s \ {First(s)}] BY <1>1
<1>4. \A s : s # {} => First(s) \in s BY DEF First
<1> QED BY <1>2, <1>3, <1>4 DEF g, StepsUp

\* A sum of integers is an integer.
LEMMA RunningInt ==
  ASSUME NEW f, NEW S, IsFiniteSet(S), \A x \in S : f[x] \in Int
  PROVE  \A s \in SUBSET S : running(f, S)[s] \in Int
<1> DEFINE g == running(f, S)
           C == {s \in SUBSET S : g[s] \notin Int}
<1>1. StepsUp(g, f, S) BY RunningStep
<1> HIDE DEF g
<1> SUFFICES ASSUME C # {} PROVE FALSE BY DEF g
<1>2. \E s \in C : \A x \in s : s \ {x} \notin C BY SmallestSubset
<1>3. PICK s \in C : \A x \in s : s \ {x} \notin C BY <1>2
<1>4. s \in SUBSET S /\ g[s] \notin Int /\ s # {}
  <2>1. s \in SUBSET S /\ g[s] \notin Int BY <1>3
  <2>2. s = {} => g[s] = 0 BY <1>1 DEF StepsUp
  <2> QED BY <2>1, <2>2
<1>5. First(s) \in s /\ g[s] = f[First(s)] + g[s \ {First(s)}] BY <1>1, <1>4 DEF StepsUp
<1>6. g[s \ {First(s)}] \in Int BY <1>3, <1>4, <1>5
<1>7. f[First(s)] \in Int BY <1>4, <1>5
<1> QED BY <1>4, <1>5, <1>6, <1>7

\* The order in which elements are taken makes no difference.
LEMMA RunningAny ==
  ASSUME NEW f, NEW S, IsFiniteSet(S), \A x \in S : f[x] \in Int
  PROVE  \A s \in SUBSET S : \A x \in s : running(f, S)[s] = f[x] + running(f, S)[s \ {x}]
<1> DEFINE g == running(f, S)
           C == {s \in SUBSET S : \E x \in s : g[s] # f[x] + g[s \ {x}]}
<1>1. StepsUp(g, f, S) BY RunningStep
<1>2. \A s \in SUBSET S : g[s] \in Int BY RunningInt
<1> HIDE DEF g
<1> SUFFICES ASSUME C # {} PROVE FALSE BY DEF g
<1>3. \E s \in C : \A x \in s : s \ {x} \notin C BY SmallestSubset
<1>4. PICK s \in C : \A x \in s : s \ {x} \notin C BY <1>3
<1>5. s \in SUBSET S BY <1>4
<1>6. PICK x \in s : g[s] # f[x] + g[s \ {x}] BY <1>4
<1> DEFINE y == First(s)
<1>7. y \in s /\ g[s] = f[y] + g[s \ {y}] BY <1>1, <1>5 DEF StepsUp
<1> HIDE DEF y
<1>8. x # y BY <1>6, <1>7
<1>9. s \ {y} \in SUBSET S /\ x \in s \ {y} /\ s \ {x} \in SUBSET S /\ y \in s \ {x} BY <1>5, <1>7, <1>8
<1>10. g[s \ {y}] = f[x] + g[(s \ {y}) \ {x}] BY <1>4, <1>7, <1>9
<1>11. g[s \ {x}] = f[y] + g[(s \ {x}) \ {y}] BY <1>4, <1>9
<1>12. (s \ {x}) \ {y} = (s \ {y}) \ {x} OBVIOUS
<1>13. f[x] \in Int /\ f[y] \in Int BY <1>5, <1>7
<1> DEFINE rest == g[(s \ {y}) \ {x}]
<1>14. rest \in Int BY <1>2, <1>9
<1>15. g[s \ {y}] = f[x] + rest /\ g[s \ {x}] = f[y] + rest BY <1>10, <1>11, <1>12
<1> HIDE DEF rest, C
<1> QED BY <1>6, <1>7, <1>13, <1>14, <1>15

\* Only the elements of the subset count.
LEMMA RunningLocal ==
  ASSUME NEW f, NEW h, NEW S, IsFiniteSet(S), NEW T \in SUBSET S, \A x \in T : f[x] = h[x]
  PROVE  \A s \in SUBSET T : running(f, S)[s] = running(h, T)[s]
<1> DEFINE g == running(f, S)
           k == running(h, T)
           C == {s \in SUBSET T : g[s] # k[s]}
<1>1. IsFiniteSet(T) BY FS_Subset
<1>2. StepsUp(g, f, S) BY RunningStep
<1>3. StepsUp(k, h, T) BY <1>1, RunningStep
<1> HIDE DEF g, k
<1> SUFFICES ASSUME C # {} PROVE FALSE BY DEF g, k
<1>4. \E s \in C : \A x \in s : s \ {x} \notin C BY <1>1, SmallestSubset
<1>5. PICK s \in C : \A x \in s : s \ {x} \notin C BY <1>4
<1>6. s \in SUBSET T /\ s \in SUBSET S /\ s # {} /\ g[s] # k[s] BY <1>2, <1>3, <1>5 DEF StepsUp
<1> DEFINE y == First(s)
<1>7. y \in s /\ g[s] = f[y] + g[s \ {y}] /\ k[s] = h[y] + k[s \ {y}] BY <1>2, <1>3, <1>6 DEF StepsUp
<1> HIDE DEF y
<1>8. g[s \ {y}] = k[s \ {y}] /\ f[y] = h[y] BY <1>5, <1>6, <1>7
<1> QED BY <1>6, <1>7, <1>8

---------------------------------------------------------------------------
(* What the proofs about the market use. *)

\* The empty sum.
LEMMA SumEmpty == ASSUME NEW f PROVE SumFunctionOnSet(f, {}) = 0
BY SumRuns, RunningStep, FS_EmptySet DEF StepsUp

\* A sum of integers is an integer.
LEMMA SumInt ==
  ASSUME NEW f, NEW S, IsFiniteSet(S), \A x \in S : f[x] \in Int
  PROVE  SumFunctionOnSet(f, S) \in Int
BY SumRuns, RunningInt, S \in SUBSET S

\* Functions that agree have the same sum.
LEMMA SumEqual ==
  ASSUME NEW f, NEW h, NEW S, IsFiniteSet(S), \A x \in S : f[x] = h[x]
  PROVE  SumFunctionOnSet(f, S) = SumFunctionOnSet(h, S)
BY SumRuns, RunningLocal, S \in SUBSET S

\* Any element may be taken out first.
LEMMA SumTake ==
  ASSUME NEW f, NEW S, IsFiniteSet(S), \A x \in S : f[x] \in Int, NEW x \in S
  PROVE  SumFunctionOnSet(f, S) = f[x] + SumFunctionOnSet(f, S \ {x})
<1>1. running(f, S)[S] = f[x] + running(f, S)[S \ {x}] BY RunningAny, S \in SUBSET S
<1>2. S \ {x} \in SUBSET S OBVIOUS
<1>3. \A s \in SUBSET (S \ {x}) : running(f, S)[s] = running(f, S \ {x})[s] BY <1>2, RunningLocal
<1> QED BY <1>1, <1>3, SumRuns, S \ {x} \in SUBSET (S \ {x})

\* The sum of a function, as a sum over its domain, is an integer.
LEMMA SumTyped ==
  ASSUME NEW S, IsFiniteSet(S), NEW f \in [S -> Int]
  PROVE  SumFunction(f) \in Int /\ SumFunction(f) = SumFunctionOnSet(f, S)
<1>1. SumFunction(f) = SumFunctionOnSet(f, S) BY DEF SumFunction
<1>2. \A x \in S : f[x] \in Int OBVIOUS
<1> QED BY <1>1, <1>2, SumInt

\* One entry changes.
LEMMA SumChange ==
  ASSUME NEW S, IsFiniteSet(S), NEW f \in [S -> Int], NEW h \in [S -> Int], NEW x \in S,
         \A y \in S \ {x} : h[y] = f[y]
  PROVE  SumFunction(h) = SumFunction(f) + h[x] - f[x]
<1>1. (\A y \in S : f[y] \in Int) /\ (\A y \in S : h[y] \in Int) OBVIOUS
<1>2. SumFunctionOnSet(f, S) = f[x] + SumFunctionOnSet(f, S \ {x}) BY <1>1, SumTake
<1>3. SumFunctionOnSet(h, S) = h[x] + SumFunctionOnSet(h, S \ {x}) BY <1>1, SumTake
<1>4. IsFiniteSet(S \ {x}) BY FS_RemoveElement
<1>5. SumFunctionOnSet(h, S \ {x}) = SumFunctionOnSet(f, S \ {x}) BY <1>4, SumEqual
<1>6. SumFunctionOnSet(f, S \ {x}) \in Int BY <1>1, <1>4, SumInt
<1> DEFINE rest == SumFunctionOnSet(f, S \ {x})
<1>7. rest \in Int /\ f[x] \in Int /\ h[x] \in Int BY <1>1, <1>6
<1>8. SumFunction(f) = f[x] + rest /\ SumFunction(h) = h[x] + rest BY <1>2, <1>3, <1>5, SumTyped
<1> HIDE DEF rest
<1> QED BY <1>7, <1>8

\* Sums add up pointwise.
LEMMA SumPlus ==
  ASSUME NEW S, IsFiniteSet(S), NEW f \in [S -> Int], NEW g \in [S -> Int], NEW h \in [S -> Int],
         \A x \in S : h[x] = f[x] + g[x]
  PROVE  SumFunction(h) = SumFunction(f) + SumFunction(g)
<1> DEFINE F(s) == SumFunctionOnSet(f, s)
           G(s) == SumFunctionOnSet(g, s)
           H(s) == SumFunctionOnSet(h, s)
           C == {s \in SUBSET S : H(s) # F(s) + G(s)}
<1>1. \A s \in SUBSET S : IsFiniteSet(s) BY FS_Subset
<1>2. F({}) = 0 /\ G({}) = 0 /\ H({}) = 0 BY SumEmpty
<1>3. \A s \in SUBSET S : F(s) \in Int /\ G(s) \in Int /\ H(s) \in Int
  <2> SUFFICES ASSUME NEW s \in SUBSET S PROVE F(s) \in Int /\ G(s) \in Int /\ H(s) \in Int
    OBVIOUS
  <2>1. \A x \in s : f[x] \in Int /\ g[x] \in Int /\ h[x] \in Int OBVIOUS
  <2> QED BY <1>1, <2>1, SumInt
<1>4. \A s \in SUBSET S : \A x \in s : /\ F(s) = f[x] + F(s \ {x}) /\ G(s) = g[x] + G(s \ {x})
                                      /\ H(s) = h[x] + H(s \ {x})
  <2> SUFFICES ASSUME NEW s \in SUBSET S, NEW x \in s
               PROVE  /\ F(s) = f[x] + F(s \ {x}) /\ G(s) = g[x] + G(s \ {x})
                      /\ H(s) = h[x] + H(s \ {x})
    OBVIOUS
  <2>1. \A y \in s : f[y] \in Int /\ g[y] \in Int /\ h[y] \in Int OBVIOUS
  <2> QED BY <1>1, <2>1, SumTake
<1> HIDE DEF F, G, H
<1>5. C = {}
  <2> SUFFICES ASSUME C # {} PROVE FALSE OBVIOUS
  <2>1. \E s \in C : \A x \in s : s \ {x} \notin C BY SmallestSubset
  <2>2. PICK s \in C : \A x \in s : s \ {x} \notin C BY <2>1
  <2>3. s \in SUBSET S /\ H(s) # F(s) + G(s) /\ s # {} BY <1>2, <2>2
  <2>4. PICK x \in s : TRUE BY <2>3
  <2>5. x \in S /\ s \ {x} \in SUBSET S BY <2>3
  <2>6. H(s \ {x}) = F(s \ {x}) + G(s \ {x}) BY <2>2, <2>5
  <2>7. /\ F(s) = f[x] + F(s \ {x}) /\ G(s) = g[x] + G(s \ {x}) /\ H(s) = h[x] + H(s \ {x})
    BY <1>4, <2>3
  <2>8. f[x] \in Int /\ g[x] \in Int /\ h[x] = f[x] + g[x] BY <2>5
  <2>9. F(s \ {x}) \in Int /\ G(s \ {x}) \in Int BY <1>3, <2>5
  <2> HIDE DEF C
  <2> QED BY <2>3, <2>6, <2>7, <2>8, <2>9
<1>6. H(S) = F(S) + G(S) BY <1>5, S \in SUBSET S
<1> QED BY <1>6, SumTyped DEF F, G, H

\* Amounts that are not negative have a sum that is not, and that covers each of them.
LEMMA SumNat ==
  ASSUME NEW S, IsFiniteSet(S), NEW f \in [S -> Int], \A x \in S : f[x] >= 0
  PROVE  SumFunction(f) >= 0 /\ \A x \in S : f[x] <= SumFunction(f)
<1> DEFINE F(s) == SumFunctionOnSet(f, s)
           C == {s \in SUBSET S : ~ (F(s) >= 0)}
<1>1. \A s \in SUBSET S : IsFiniteSet(s) BY FS_Subset
<1>2. F({}) = 0 BY SumEmpty
<1>3. \A s \in SUBSET S : F(s) \in Int
  <2> SUFFICES ASSUME NEW s \in SUBSET S PROVE F(s) \in Int OBVIOUS
  <2>1. \A x \in s : f[x] \in Int OBVIOUS
  <2> QED BY <1>1, <2>1, SumInt
<1>4. \A s \in SUBSET S : \A x \in s : F(s) = f[x] + F(s \ {x})
  <2> SUFFICES ASSUME NEW s \in SUBSET S, NEW x \in s PROVE F(s) = f[x] + F(s \ {x}) OBVIOUS
  <2>1. \A y \in s : f[y] \in Int OBVIOUS
  <2> QED BY <1>1, <2>1, SumTake
<1> HIDE DEF F
<1>5. C = {}
  <2> SUFFICES ASSUME C # {} PROVE FALSE OBVIOUS
  <2>1. \E s \in C : \A x \in s : s \ {x} \notin C BY SmallestSubset
  <2>2. PICK s \in C : \A x \in s : s \ {x} \notin C BY <2>1
  <2>3. s \in SUBSET S /\ ~ (F(s) >= 0) /\ s # {} BY <1>2, <2>2
  <2>4. PICK x \in s : TRUE BY <2>3
  <2>5. x \in S /\ s \ {x} \in SUBSET S BY <2>3
  <2>6. F(s \ {x}) >= 0 BY <2>2, <2>5
  <2>7. F(s) = f[x] + F(s \ {x}) BY <1>4, <2>3
  <2>8. f[x] \in Int /\ f[x] >= 0 /\ F(s \ {x}) \in Int BY <1>3, <2>5
  <2> HIDE DEF C
  <2> QED BY <2>3, <2>6, <2>7, <2>8
<1>6. \A s \in SUBSET S : F(s) >= 0 BY <1>5
<1>7. ASSUME NEW x \in S PROVE f[x] <= F(S)
  <2>1. S \ {x} \in SUBSET S /\ S \in SUBSET S OBVIOUS
  <2>2. F(S) = f[x] + F(S \ {x}) BY <1>4, <2>1
  <2>3. F(S \ {x}) >= 0 /\ F(S \ {x}) \in Int /\ f[x] \in Int BY <1>3, <1>6, <2>1
  <2> QED BY <2>2, <2>3
<1>8. SumFunction(f) = F(S) BY SumTyped DEF F
<1> QED BY <1>6, <1>7, <1>8, S \in SUBSET S

\* The same amount for each element of T, nothing for the others.
LEMMA SumSame ==
  ASSUME NEW S, IsFiniteSet(S), NEW T \in SUBSET S, NEW c \in Int, NEW f \in [S -> Int],
         \A x \in S : f[x] = IF x \in T THEN c ELSE 0
  PROVE  SumFunction(f) = Cardinality(T) * c
<1> DEFINE F(s) == SumFunctionOnSet(f, s)
           N(s) == Cardinality(s \cap T)
           C == {s \in SUBSET S : F(s) # N(s) * c}
<1>1. \A s \in SUBSET S : IsFiniteSet(s) BY FS_Subset
<1>2. F({}) = 0 /\ N({}) = 0 BY SumEmpty, FS_EmptySet
<1>3. \A s \in SUBSET S : F(s) \in Int /\ N(s) \in Nat
  <2> SUFFICES ASSUME NEW s \in SUBSET S PROVE F(s) \in Int /\ N(s) \in Nat OBVIOUS
  <2>1. \A x \in s : f[x] \in Int OBVIOUS
  <2>2. s \cap T \in SUBSET S OBVIOUS
  <2> QED BY <1>1, <2>1, <2>2, SumInt, FS_CardinalityType
<1>4. \A s \in SUBSET S : \A x \in s : F(s) = f[x] + F(s \ {x})
  <2> SUFFICES ASSUME NEW s \in SUBSET S, NEW x \in s PROVE F(s) = f[x] + F(s \ {x}) OBVIOUS
  <2>1. \A y \in s : f[y] \in Int OBVIOUS
  <2> QED BY <1>1, <2>1, SumTake
<1>5. \A s \in SUBSET S : \A x \in s : N(s) = N(s \ {x}) + IF x \in T THEN 1 ELSE 0
  <2> SUFFICES ASSUME NEW s \in SUBSET S, NEW x \in s
               PROVE  N(s) = N(s \ {x}) + IF x \in T THEN 1 ELSE 0
    OBVIOUS
  <2>1. s \cap T \in SUBSET S OBVIOUS
  <2>2. IsFiniteSet(s \cap T) /\ Cardinality(s \cap T) \in Nat BY <1>1, <2>1, FS_CardinalityType
  <2>3. (s \ {x}) \cap T = (s \cap T) \ {x} OBVIOUS
  <2>4. CASE x \in T
    <3>1. x \in s \cap T BY <2>4
    <3>2. Cardinality((s \cap T) \ {x}) = Cardinality(s \cap T) - 1
      BY <2>2, <3>1, FS_RemoveElement
    <3> QED BY <2>2, <2>3, <2>4, <3>2
  <2>5. CASE x \notin T
    <3>1. (s \ {x}) \cap T = s \cap T BY <2>5
    <3> QED BY <2>2, <2>5, <3>1
  <2> QED BY <2>4, <2>5
<1> HIDE DEF F, N
<1>6. C = {}
  <2> SUFFICES ASSUME C # {} PROVE FALSE OBVIOUS
  <2>1. \E s \in C : \A x \in s : s \ {x} \notin C BY SmallestSubset
  <2>2. PICK s \in C : \A x \in s : s \ {x} \notin C BY <2>1
  <2>3. s \in SUBSET S /\ F(s) # N(s) * c /\ s # {} BY <1>2, <2>2
  <2>4. PICK x \in s : TRUE BY <2>3
  <2>5. x \in S /\ s \ {x} \in SUBSET S BY <2>3
  <2>6. F(s \ {x}) = N(s \ {x}) * c BY <2>2, <2>5
  <2>7. F(s) = f[x] + F(s \ {x}) /\ N(s) = N(s \ {x}) + (IF x \in T THEN 1 ELSE 0)
    BY <1>4, <1>5, <2>3
  <2>8. f[x] = (IF x \in T THEN c ELSE 0) /\ N(s \ {x}) \in Nat BY <1>3, <2>5
  <2> DEFINE k == N(s \ {x})
  <2> HIDE DEF C, k
  <2>9. k \in Nat /\ F(s \ {x}) = k * c BY <2>6, <2>8 DEF k
  <2>10. (k + 1) * c = k * c + c /\ (k + 0) * c = k * c /\ k * c \in Int BY <2>9
  <2>11. F(s) = N(s) * c BY <2>7, <2>8, <2>9, <2>10 DEF k
  <2> QED BY <2>3, <2>11
<1>7. F(S) = N(S) * c BY <1>6, S \in SUBSET S
<1>8. S \cap T = T OBVIOUS
<1> QED BY <1>7, <1>8, SumTyped DEF F, N

\* What is zero outside T may be summed over T alone.
LEMMA SumRestricted ==
  ASSUME NEW S, IsFiniteSet(S), NEW T \in SUBSET S, NEW f \in [S -> Int],
         NEW h \in [T -> Int], \A x \in T : h[x] = f[x], \A x \in S \ T : f[x] = 0
  PROVE  SumFunction(h) = SumFunction(f)
<1> DEFINE F(s) == SumFunctionOnSet(f, s)
           C == {s \in SUBSET S : T \subseteq s /\ F(s) # F(T)}
<1>1. \A s \in SUBSET S : IsFiniteSet(s) BY FS_Subset
<1>2. \A s \in SUBSET S : \A x \in s : F(s) = f[x] + F(s \ {x}) /\ F(s \ {x}) \in Int
  <2> SUFFICES ASSUME NEW s \in SUBSET S, NEW x \in s
               PROVE  F(s) = f[x] + F(s \ {x}) /\ F(s \ {x}) \in Int
    OBVIOUS
  <2>1. \A y \in s : f[y] \in Int OBVIOUS
  <2>2. s \ {x} \in SUBSET S /\ \A y \in s \ {x} : f[y] \in Int BY <2>1
  <2>3. F(s) = f[x] + F(s \ {x}) BY <1>1, <2>1, SumTake
  <2>4. F(s \ {x}) \in Int BY <1>1, <2>2, SumInt
  <2> QED BY <2>3, <2>4
<1> HIDE DEF F
<1>3. C = {}
  <2> SUFFICES ASSUME C # {} PROVE FALSE OBVIOUS
  <2>0. C \in SUBSET (SUBSET S) OBVIOUS
  <2>1. \E s \in C : \A x \in s : s \ {x} \notin C
    <3> HIDE DEF C
    <3> QED BY <2>0, SmallestSubset
  <2>2. PICK s \in C : \A x \in s : s \ {x} \notin C BY <2>1
  <2>3. s \in SUBSET S /\ T \subseteq s /\ F(s) # F(T) BY <2>2
  <2>4. PICK x \in s : x \notin T BY <2>3
  <2>5. s \ {x} \in SUBSET S /\ T \subseteq s \ {x} BY <2>3, <2>4
  <2>6. F(s \ {x}) = F(T) BY <2>2, <2>5
  <2>7. F(s) = f[x] + F(s \ {x}) /\ F(s \ {x}) \in Int /\ f[x] = 0 BY <1>2, <2>3, <2>4
  <2> HIDE DEF C
  <2> QED BY <2>3, <2>6, <2>7
<1>4. F(S) = F(T) BY <1>3, S \in SUBSET S
<1>5. SumFunctionOnSet(h, T) = F(T)
  <2>1. IsFiniteSet(T) BY <1>1
  <2> QED BY <2>1, SumEqual DEF F
<1>6. SumFunction(h) = SumFunctionOnSet(h, T) /\ SumFunction(f) = F(S)
  <2>1. IsFiniteSet(T) BY <1>1
  <2> QED BY <2>1, SumTyped DEF F
<1> QED BY <1>4, <1>5, <1>6

\* Two functions on S differ in at most one entry, by as much as the number n beside them
\* differs from m.
OneMoves(S, f, g, n, m) ==
  \/ g = f /\ m = n
  \/ \E x \in S : (\A y \in S \ {x} : g[y] = f[y]) /\ m = n + g[x] - f[x]

\* A total that moves with its entries stays their sum.
LEMMA SumMoves ==
  ASSUME NEW S, IsFiniteSet(S), NEW f \in [S -> Int], NEW g \in [S -> Int], NEW n, NEW m,
         n = SumFunction(f), OneMoves(S, f, g, n, m)
  PROVE  m = SumFunction(g)
<1>1. CASE g = f /\ m = n BY <1>1
<1>2. ASSUME NEW x \in S, \A y \in S \ {x} : g[y] = f[y], m = n + g[x] - f[x]
      PROVE  m = SumFunction(g)
  BY <1>2, SumChange
<1> QED BY <1>1, <1>2 DEF OneMoves

---------------------------------------------------------------------------
(* The accounting identity *)

\* The sum of the buckets.
Held(b) == b.escrow + b.collateral + b.bonds + b.jurorStake + b.treasury + b.reserve
           + b.claimable + b.previewFees

\* An outcome gives out what it takes: refund, bond and seller's charge, of which the
\* caller still has to route the case fee.
Balanced(out, dd) ==
  out.toBuyer + out.toReserve + out.caseFee = out.refund + dd.bond + out.fromSeller

\* The caller routes the case fee and the juror stake it slashes.
Routed(out, extra) ==
  extra.treasury + extra.reserve + extra.claimable = out.caseFee + extra.jurorStake

\* All three outcomes are balanced.
LEMMA OutcomesBalanced ==
  ASSUME NEW p \in Purchase, WellMade(p), p.state # "None", NEW dd \in Dispute,
         NEW mask \in SUBSET (1..p.terms.taskCount)
  PROVE  /\ Balanced(upholdOutcome(p, dd, mask), dd)
         /\ Balanced(rejectOutcome(dd), dd) /\ Balanced(fallbackOutcome(dd), dd)
<1>1. dd.bond \in Int /\ dd.caseFee \in Int BY DEF Dispute
<1>2. Least(dd.caseFee, dd.bond) \in Int BY <1>1, LeastInt
<1>3. /\ upholdOutcome(p, dd, mask).refund \in Int /\ upholdOutcome(p, dd, mask).caseFee \in Int
      /\ upholdOutcome(p, dd, mask).penalty \in Int
  BY UpholdTyped DEF Outcome
<1>4. /\ upheldRefund(p, mask) \in Int /\ upheldCaseFee(p) \in Int /\ upheldPenalty(p, mask) \in Int
  BY <1>3 DEF upholdOutcome
<1>5. Balanced(upholdOutcome(p, dd, mask), dd) BY <1>1, <1>4 DEF Balanced, upholdOutcome
<1>6. Balanced(rejectOutcome(dd), dd) BY <1>1, <1>2 DEF Balanced, rejectOutcome
<1>7. Balanced(fallbackOutcome(dd), dd) BY <1>1 DEF Balanced, fallbackOutcome
<1> QED BY <1>5, <1>6, <1>7

\* Settling a dispute moves tokens between buckets and keeps their sum.
LEMMA ResolveSolvent ==
  ASSUME Linked, Solvent, NEW d \in DisputeId, disputes[d].status # "None",
         NEW out \in Outcome, NEW extra \in Extra, resolve(d, out, extra),
         Balanced(out, disputes[d]), Routed(out, extra)
  PROVE  Solvent'
<1> DEFINE dd == disputes[d]
           p == purchases[dd.purchase]
           fee == closeFee(p, out.refund)
           proceeds == closeProceeds(p, out.refund)
<1>1. p \in Purchase /\ WellMade(p) /\ p.state # "None" /\ dd \in Dispute BY DisputedPurchase
<1>2. /\ out.refund \in Int /\ out.toBuyer \in Int /\ out.fromSeller \in Int
      /\ out.toReserve \in Int /\ out.caseFee \in Int
  BY DEF Outcome
<1>3. /\ extra.treasury \in Int /\ extra.reserve \in Int /\ extra.jurorStake \in Int
      /\ extra.claimable \in Int
  BY DEF Extra
<1>4. /\ p.terms.price \in Int /\ dd.bond \in Int /\ fee \in Int /\ proceeds \in Int
      /\ fee + proceeds = p.terms.price - out.refund
  <2>1. p.terms.price \in Int /\ dd.bond \in Int /\ fee \in Int
    BY <1>1, <1>2, PurchaseNat, CloseInt DEF Dispute
  <2>2. proceeds = p.terms.price - out.refund - fee BY DEF closeProceeds
  <2> HIDE DEF fee, proceeds, p
  <2> QED BY <1>2, <2>1, <2>2
<1>5. bucket \in Buckets /\ balance' = balance
  BY ResolveFrame DEF Linked, TypeFunds
<1>6. bucket' = [bucket EXCEPT
       !.escrow = @ - p.terms.price,
       !.bonds = @ - dd.bond,
       !.collateral = @ - out.fromSeller,
       !.jurorStake = @ - extra.jurorStake,
       !.treasury = @ + fee + extra.treasury,
       !.reserve = @ + out.toReserve + extra.reserve,
       !.claimable = @ + proceeds + out.toBuyer + extra.claimable]
  BY DEF resolve
<1>7. out.toBuyer + out.toReserve + out.caseFee = out.refund + dd.bond + out.fromSeller
  BY DEF Balanced
<1>8. extra.treasury + extra.reserve + extra.claimable = out.caseFee + extra.jurorStake
  BY DEF Routed
<1> HIDE DEF fee, proceeds, p, dd
<1>9. Held(bucket') = Held(bucket)
  BY <1>2, <1>3, <1>4, <1>5, <1>6, <1>7, <1>8 DEF Held, Buckets
<1> QED BY <1>5, <1>9 DEF Solvent, Held

\* The participation fees, the bonus and its dust are the pot and the minority's slashes.
LEMMA PanelRouted ==
  ASSUME NEW dd \in Dispute, ValidParams(dd.par), NEW pot \in Int,
         NEW reveals \in Nat, reveals > 0, NEW majority \in Nat, majority > 0,
         NEW missing \in Int
  PROVE  LET per == participationPay(dd, pot, reveals)
             share == bonusShare(dd, pot, reveals, majority)
             dust == bonusPool(dd, pot, reveals, majority) - share * majority
         IN 0 + (missing + dust) + (per * reveals + share * majority)
            = pot + (missing + (reveals - majority) * minoritySlash(dd))
<1> DEFINE per == participationPay(dd, pot, reveals)
           share == bonusShare(dd, pot, reveals, majority)
           pool == bonusPool(dd, pot, reveals, majority)
           slash == minoritySlash(dd)
           a == per * reveals
           b == share * majority
           c == (reveals - majority) * slash
<1>1. per \in Int /\ pool \in Int /\ share \in Int BY PayTyped
<1>2. slash \in Int BY SlashInt
<1>3. pool = pot - per * reveals + slash * (reveals - majority) BY DEF bonusPool
<1> HIDE DEF per, share, pool, slash
<1>4. a \in Int /\ b \in Int /\ c \in Int BY <1>1, <1>2
<1>5. slash * (reveals - majority) = c BY <1>2
<1>6. pool = pot - a + c BY <1>3, <1>5
<1> HIDE DEF a, b, c
<1>7. 0 + (missing + (pool - b)) + (a + b) = pot + (missing + c) BY <1>1, <1>4, <1>6
<1> QED BY <1>7 DEF a, b, c, per, share, pool, slash

\* A tally pays the panel out of the case fee and the slashes.
LEMMA TallySolvent ==
  ASSUME Linked, Solvent, NEW d \in DisputeId, tallyDispute(d) PROVE Solvent'
<1> DEFINE dd == disputes[d]
           p  == purchases[dd.purchase]
           pn == panel(d)
           reveals == Cardinality(revealers(pn))
           missing == (SEATS - reveals) * nonRevealSlash(dd)
<1>1. /\ Jury(d, "Voting") /\ dd.status # "None" /\ "Voting" \in DisputeStatus
  BY DEF tallyDispute, tallyDecided, tallyFailed, TallyReady, Jury, DisputeStatus
<1>2. /\ dd \in Dispute /\ p \in Purchase /\ WellMade(p) /\ p.state # "None"
      /\ dd.taskMask \in SUBSET (1..p.terms.taskCount) /\ ValidParams(dd.par)
  BY <1>1, DisputedPurchase
<1>3. /\ dd.round \in Rounds /\ DOMAIN pn \in SUBSET Accounts /\ pn \in [DOMAIN pn -> Seat]
      /\ reveals \in Nat
  BY <1>1, PanelTyped
<1>4. \A a \in DOMAIN pn : pn[a].revealed => pn[a].commitment # "None"
  BY <1>3 DEF panel, Linked, SeatInv, RevealsCommitted
<1>5. nonRevealSlash(dd) \in Int /\ minoritySlash(dd) \in Int BY <1>2, SlashInt
<1>6. missing \in Int BY <1>3, <1>5 DEF SEATS
<1>7. CASE tallyDecided(d)
  <2> DEFINE verdict == panelVerdict(pn)
             out == IF verdict = "Uphold" THEN upholdOutcome(p, dd, dd.taskMask)
                    ELSE rejectOutcome(dd)
             majority == Cardinality(votersFor(pn, verdict))
             per == participationPay(dd, out.caseFee, reveals)
             share == bonusShare(dd, out.caseFee, reveals, majority)
             dust == bonusPool(dd, out.caseFee, reveals, majority) - share * majority
             slashes == (reveals - majority) * minoritySlash(dd)
             extra == [treasury |-> 0, reserve |-> missing + dust,
                       jurorStake |-> missing + slashes,
                       claimable |-> per * reveals + share * majority,
                       pay |-> [a \in Accounts |-> IF a \in DOMAIN pn
                                  THEN seatReward(dd, pn[a], verdict, per, share) ELSE 0]]
  <2>1. resolve(d, out, extra) /\ verdict # "None" BY <1>7 DEF tallyDecided
  <2>2. majority \in Nat /\ majority > 0 /\ reveals > 0
    BY <1>3, <1>4, <2>1, MajorityPositive
  <2>3. out \in Outcome /\ Balanced(out, dd)
    BY <1>2, UpholdTyped, RejectTyped, OutcomesBalanced
  <2> HIDE DEF out, verdict, majority, missing, reveals, dd
  <2>4. out.caseFee \in Int BY <2>3 DEF Outcome
  <2>5. 0 + (missing + dust) + (per * reveals + share * majority)
        = out.caseFee + (missing + slashes)
    BY <1>2, <1>3, <1>6, <2>2, <2>4, PanelRouted
  <2>6. per \in Int /\ share \in Int /\ bonusPool(dd, out.caseFee, reveals, majority) \in Int
    BY <1>2, <1>3, <2>2, <2>4, PayTyped
  <2>7. slashes \in Int BY <1>3, <1>5, <2>2
  <2>8. share * majority \in Int /\ per * reveals \in Int BY <1>3, <2>2, <2>6
  <2>9. missing + dust \in Int /\ missing + slashes \in Int
        /\ per * reveals + share * majority \in Int
    BY <1>6, <2>6, <2>7, <2>8
  <2> HIDE DEF slashes, dust
  <2>10. \A seat : seatReward(dd, seat, verdict, per, share) \in Int BY <2>6 DEF seatReward
  <2> HIDE DEF per, share
  <2>11. extra \in Extra BY <2>9, <2>10 DEF Extra
  <2>12. Routed(out, extra) BY <2>5 DEF Routed
  <2> HIDE DEF extra
  <2> QED BY <1>1, <2>1, <2>3, <2>11, <2>12, ResolveSolvent DEF dd
<1>8. CASE tallyFailed(d)
  <2>1. CASE dd.round = 1
    <3>1. /\ bucket' = [bucket EXCEPT !.jurorStake = @ - missing, !.reserve = @ + missing]
          /\ balance' = balance
      BY <1>8, <2>1 DEF tallyFailed
    <3>2. bucket \in Buckets /\ balance \in Int BY DEF Linked, TypeFunds
    <3> HIDE DEF missing
    <3> QED BY <1>6, <3>1, <3>2 DEF Solvent, Buckets
  <2>2. CASE dd.round # 1
    <3> DEFINE extra == [NoExtra EXCEPT !.reserve = missing, !.jurorStake = missing]
               out == fallbackOutcome(dd)
    <3>1. resolve(d, out, extra) BY <1>8, <2>2 DEF tallyFailed
    <3>2. extra \in Extra BY <1>6, NoExtraTyped DEF Extra
    <3>3. out \in Outcome /\ Balanced(out, dd) BY <1>2, RejectTyped, OutcomesBalanced
    <3>4. Routed(out, extra) BY <1>6 DEF Routed, NoExtra, fallbackOutcome
    <3> HIDE DEF extra, out
    <3> QED BY <1>1, <3>1, <3>2, <3>3, <3>4, ResolveSolvent
  <2> QED BY <2>1, <2>2
<1> QED BY <1>7, <1>8 DEF tallyDispute

\* The verifier's finding, or its silence.
LEMMA MechanicalSolvent ==
  ASSUME Linked, Solvent, NEW d \in DisputeId, NEW u \in BOOLEAN,
         NEW m \in SUBSET disputes[d].taskMask, NEW s,
         resolveMechanical(d, u, m, s) \/ timeoutMechanical(d)
  PROVE  Solvent'
<1> DEFINE dd == disputes[d]
           p  == purchases[dd.purchase]
<1>1. dd.status # "None" BY DEF resolveMechanical, timeoutMechanical
<1>2. /\ dd \in Dispute /\ p \in Purchase /\ WellMade(p) /\ p.state # "None"
      /\ dd.taskMask \in SUBSET (1..p.terms.taskCount)
  BY <1>1, DisputedPurchase
<1>3. m \in SUBSET (1..p.terms.taskCount) BY <1>2
<1>4. CASE resolveMechanical(d, u, m, s)
  <2> DEFINE out == IF u THEN upholdOutcome(p, dd, m) ELSE rejectOutcome(dd)
             extra == [NoExtra EXCEPT !.treasury = out.caseFee]
  <2>1. out \in Outcome /\ Balanced(out, dd)
    BY <1>2, <1>3, UpholdTyped, RejectTyped, OutcomesBalanced
  <2>2. resolve(d, out, extra) BY <1>4 DEF resolveMechanical
  <2> HIDE DEF out
  <2>3. out.caseFee \in Int BY <2>1 DEF Outcome
  <2>4. extra \in Extra BY <2>3, NoExtraTyped
  <2>5. Routed(out, extra) BY <2>3 DEF Routed, NoExtra
  <2> HIDE DEF extra
  <2> QED BY <1>1, <2>1, <2>2, <2>4, <2>5, ResolveSolvent
<1>5. CASE timeoutMechanical(d)
  <2> DEFINE out == fallbackOutcome(dd)
  <2>1. out \in Outcome /\ Balanced(out, dd) BY <1>2, RejectTyped, OutcomesBalanced
  <2>2. resolve(d, out, NoExtra) BY <1>5 DEF timeoutMechanical
  <2>3. Routed(out, NoExtra) BY DEF Routed, NoExtra, fallbackOutcome
  <2> HIDE DEF out
  <2> QED BY <1>1, <2>1, <2>2, <2>3, NoExtraTyped, ResolveSolvent
<1> QED BY <1>4, <1>5

\* Drawing a panel moves no money, unless it ends the dispute by the fallback.
LEMMA SelectSolvent ==
  ASSUME Linked, Solvent, NEW d \in DisputeId, selectJurors(d) PROVE Solvent'
<1> DEFINE dd == disputes[d]
<1>1. ASSUME UNCHANGED <<balance, bucket>> PROVE Solvent' BY <1>1 DEF Solvent
<1>2. CASE rearmSelection(d) BY <1>1, <1>2 DEF rearmSelection
<1>3. ASSUME NEW c, seatPanel(d, c) PROVE Solvent' BY <1>1, <1>3 DEF seatPanel
<1>4. CASE panelUnfillable(d)
  <2>1. CASE dd.round = 1 BY <1>1, <1>4, <2>1 DEF panelUnfillable
  <2>2. CASE dd.round # 1
    <3> DEFINE out == fallbackOutcome(dd)
    <3>1. dd.status # "None" BY DEF selectJurors, SelectionOpen, Jury
    <3>2. dd \in Dispute /\ purchases[dd.purchase] \in Purchase /\ WellMade(purchases[dd.purchase])
          /\ purchases[dd.purchase].state # "None"
      BY <3>1, DisputedPurchase
    <3>3. out \in Outcome /\ Balanced(out, dd)
      BY <3>2, RejectTyped, OutcomesBalanced, {} \in SUBSET (1..purchases[dd.purchase].terms.taskCount)
    <3>4. resolve(d, out, NoExtra) BY <1>4, <2>2 DEF panelUnfillable
    <3>5. Routed(out, NoExtra) BY DEF Routed, NoExtra, fallbackOutcome
    <3> HIDE DEF out
    <3> QED BY <3>1, <3>3, <3>4, <3>5, NoExtraTyped, ResolveSolvent
  <2> QED BY <2>1, <2>2
<1> QED BY <1>2, <1>3, <1>4 DEF selectJurors

\* Every step keeps the identity.
LEMMA SolventPreserved == ASSUME Linked, Solvent, [Next]_vars PROVE Solvent'
<1>1. /\ bucket \in Buckets /\ balance \in Int /\ claimable \in [Accounts -> Int]
      /\ Amounts \subseteq Nat /\ OwnerAmounts \subseteq Nat /\ PreviewFees \subseteq Nat
  BY ConstantsOK DEF ConstantsOK, Linked, TypeFunds
<1>2. ASSUME UNCHANGED <<balance, bucket>> PROVE Solvent' BY <1>2 DEF Solvent
<1>3. CASE UNCHANGED vars BY <1>2, <1>3 DEF vars
<1>4. CASE NewBlock BY <1>2, <1>4 DEF NewBlock
<1>5. CASE Admin
  <2>1. ASSUME NEW q, setParams(q) PROVE Solvent' BY <1>2, <2>1 DEF setParams
  <2>2. ASSUME NEW r, NEW f, NEW t, setPreviewConfig(r, f, t) PROVE Solvent'
    BY <1>2, <2>2 DEF setPreviewConfig
  <2>3. ASSUME NEW s, NEW b, setRunner(s, b) \/ setRelay(s, b) \/ setVerifier(s, b) PROVE Solvent'
    BY <1>2, <2>3 DEF setRunner, setRelay, setVerifier
  <2>4. ASSUME NEW a, NEW b, approveJuror(a, b) PROVE Solvent' BY <1>2, <2>4 DEF approveJuror
  <2>5. ASSUME NEW n \in OwnerAmounts, withdrawTreasury(n) \/ withdrawReserve(n) PROVE Solvent'
    <3>1. n \in Int BY <1>1
    <3> QED BY <1>1, <2>5, <3>1 DEF withdrawTreasury, withdrawReserve, Solvent, Buckets
  <2> QED
    BY <1>5, <2>1, <2>2, <2>3, <2>4, <2>5
    DEF Admin, setPreviewFeeRecipient, setMinPreviewFee, setPreviewTimeout
<1>6. CASE Selling
  <2>1. ASSUME NEW a, NEW l, NEW t, addVersion(a, l, t) PROVE Solvent' BY <1>2, <2>1 DEF addVersion
  <2>2. ASSUME NEW v, NEW b, setVersionActive(v, b) PROVE Solvent' BY <1>2, <2>2 DEF setVersionActive
  <2>3. ASSUME NEW v, NEW f \in PreviewFees, requestPreview(v, f) PROVE Solvent'
    <3>1. f \in Int BY <1>1
    <3> QED BY <1>1, <2>3, <3>1 DEF requestPreview, Solvent, Buckets
  <2>4. ASSUME NEW v \in VersionId, NEW s, reclaimPreviewFee(v) \/ attachReport(v, s) PROVE Solvent'
    <3>1. previews[v].fee \in Int BY DEF Linked, CatalogInv, TypeCatalog, Preview
    <3>2. /\ bucket' = [bucket EXCEPT !.previewFees = @ - previews[v].fee,
                                      !.claimable = @ + previews[v].fee]
          /\ balance' = balance
      BY <2>4 DEF reclaimPreviewFee, attachReport
    <3> QED BY <1>1, <3>1, <3>2 DEF Solvent, Buckets
  <2>5. ASSUME NEW a, NEW n \in Amounts, depositCollateral(a, n) \/ withdrawCollateral(a, n)
        PROVE  Solvent'
    <3>1. n \in Int BY <1>1
    <3> QED BY <1>1, <2>5, <3>1 DEF depositCollateral, withdrawCollateral, Solvent, Buckets
  <2> QED BY <1>6, <2>1, <2>2, <2>3, <2>4, <2>5 DEF Selling, createListing, newVersion
<1>7. CASE Purchasing
  <2>1. ASSUME NEW a, NEW v \in VersionId, buy(a, v) PROVE Solvent'
    <3>1. versions[v].terms.price \in Int BY DEF Linked, CatalogInv, TypeCatalog, Version, Terms
    <3> QED BY <1>1, <2>1, <3>1 DEF buy, Solvent, Buckets
  <2>2. ASSUME NEW i \in PurchaseId, NEW s, recordDelivery(i, s) PROVE Solvent'
    BY <1>2, <2>2 DEF recordDelivery
  <2>3. ASSUME NEW i \in PurchaseId, refundUndelivered(i) PROVE Solvent'
    <3>1. purchases[i].terms.price \in Int
      BY <2>3, OpenPurchase, PurchaseNat DEF refundUndelivered
    <3> QED BY <1>1, <2>3, <3>1 DEF refundUndelivered, Solvent, Buckets
  <2>4. ASSUME NEW i \in PurchaseId, finalize(i) PROVE Solvent'
    <3> DEFINE p == purchases[i]
               fee == closeFee(p, 0)
               proceeds == closeProceeds(p, 0)
    <3>1. p \in Purchase /\ WellMade(p) /\ p.state # "None" BY <2>4, OpenPurchase DEF finalize
    <3>2. p.terms.price \in Int /\ fee \in Int BY <3>1, PurchaseNat, CloseInt
    <3>3. proceeds = p.terms.price - 0 - fee BY DEF closeProceeds
    <3>4. /\ bucket' = [bucket EXCEPT !.escrow = @ - p.terms.price, !.treasury = @ + fee,
                                      !.claimable = @ + proceeds]
          /\ balance' = balance
      BY <2>4 DEF finalize
    <3> HIDE DEF fee, proceeds, p
    <3> QED BY <1>1, <3>2, <3>3, <3>4 DEF Solvent, Buckets
  <2>5. ASSUME NEW i \in PurchaseId, NEW g, NEW m \in SUBSET (1..purchases[i].terms.taskCount),
               openDispute(i, g, m)
        PROVE  Solvent'
    <3>1. bondFor(purchases[i], m) \in Int BY <2>5, OpenPurchase, BondInt DEF openDispute
    <3>2. /\ bucket' = [bucket EXCEPT !.bonds = @ + bondFor(purchases[i], m)]
          /\ balance' = balance + bondFor(purchases[i], m)
      BY <2>5 DEF openDispute
    <3> QED BY <1>1, <3>1, <3>2 DEF Solvent, Buckets
  <2>6. ASSUME NEW i, NEW n, rate(i, n) PROVE Solvent' BY <1>2, <2>6 DEF rate
  <2>7. ASSUME NEW a \in Withdrawers, withdraw(a) PROVE Solvent'
    <3>1. claimable[a] \in Int BY <1>1, ConstantsOK DEF ConstantsOK
    <3> QED BY <1>1, <2>7, <3>1 DEF withdraw, Solvent, Buckets
  <2> QED BY <1>7, <2>1, <2>2, <2>3, <2>4, <2>5, <2>6, <2>7 DEF Purchasing
<1>8. CASE Judging
  <2>1. ASSUME NEW d \in DisputeId, NEW u \in BOOLEAN, NEW m \in SUBSET disputes[d].taskMask, NEW s,
               resolveMechanical(d, u, m, s)
        PROVE  Solvent'
    BY <2>1, MechanicalSolvent
  <2>2. ASSUME NEW d \in DisputeId, timeoutMechanical(d) PROVE Solvent'
    BY <2>2, MechanicalSolvent, {} \in SUBSET disputes[d].taskMask, TRUE \in BOOLEAN
  <2>3. ASSUME NEW d \in DisputeId, selectJurors(d) \/ tallyDispute(d) PROVE Solvent'
    BY <2>3, SelectSolvent, TallySolvent
  <2>4. ASSUME NEW d, NEW a, NEW v, commitVote(d, a, v) \/ revealVote(d, a) PROVE Solvent'
    BY <1>2, <2>4 DEF commitVote, revealVote
  <2>5. ASSUME NEW a, NEW n \in Amounts, depositJurorStake(a, n) \/ withdrawJurorStake(a, n)
        PROVE  Solvent'
    <3>1. n \in Int BY <1>1
    <3> QED BY <1>1, <2>5, <3>1 DEF depositJurorStake, withdrawJurorStake, Solvent, Buckets
  <2> QED BY <1>8, <2>1, <2>2, <2>3, <2>4, <2>5 DEF Judging, Deciding
<1> QED BY <1>3, <1>4, <1>5, <1>6, <1>7, <1>8 DEF Next

\* The market always holds exactly the sum of its buckets: no settlement, timeout or
\* withdrawal, in any order, pays out a token that is not accounted for.
THEOREM AlwaysSolvent == Spec => []Solvent
<1>1. Init => Solvent BY DEF Init, InitFunds, Solvent, NoBuckets
<1>2. Linked /\ Solvent /\ [Next]_vars => Solvent' BY SolventPreserved
<1> QED BY <1>1, <1>2, LinkedHolds, PTL DEF Spec

---------------------------------------------------------------------------
(* What buckets and holds are made of *)

\* What one purchase, dispute or version has in a bucket or in a hold.
OpenSale(p)    == p.state \in {"Funded", "Delivered", "Disputed"}
priceIn(p)     == IF OpenSale(p) THEN p.terms.price ELSE 0
shareIn(p, a)  == IF OpenSale(p) /\ p.seller = a THEN p.terms.collateral ELSE 0
OpenCase(dd)   == dd.status \in {"AwaitingSelection", "Voting"}
bondIn(dd)     == IF OpenCase(dd) THEN dd.bond ELSE 0
Sits(dd, sd, a) ==
  dd.ground = "FalseDescription" /\ dd.status = "Voting" /\ a \in DOMAIN sd[dd.round]
stakeIn(dd, sd, a) == IF Sits(dd, sd, a) THEN dd.par.jurorStake ELSE 0
feeIn(vn, pv)  == IF pv.paidAt # 0 /\ ~pv.reclaimed /\ ~vn.report THEN pv.fee ELSE 0

stakeTotals == [a \in Accounts |-> stakes[a].total]
jurorTotals == [a \in Accounts |-> jurors[a].total]

\* The sums range over what one record at a time says it holds.
LEMMA Entries ==
  /\ escrowed = [i \in PurchaseId |-> priceIn(purchases[i])]
  /\ bonded = [d \in DisputeId |-> bondIn(disputes[d])]
  /\ feeHeld = [v \in VersionId |-> feeIn(versions[v], previews[v])]
  /\ \A a : reservedFor(a) = [i \in PurchaseId |-> shareIn(purchases[i], a)]
  /\ \A a : lockedFor(a) = [d \in DisputeId |-> stakeIn(disputes[d], seats[d], a)]
<1>1. escrowed = [i \in PurchaseId |-> priceIn(purchases[i])]
  BY DEF escrowed, Open, priceIn, OpenSale
<1>2. bonded = [d \in DisputeId |-> bondIn(disputes[d])]
  BY DEF bonded, OpenDispute, bondIn, OpenCase
<1>3. feeHeld = [v \in VersionId |-> feeIn(versions[v], previews[v])]
  BY DEF feeHeld, feeIn, outstanding
<1>4. ASSUME NEW a PROVE reservedFor(a) = [i \in PurchaseId |-> shareIn(purchases[i], a)]
  BY DEF reservedFor, Open, shareIn, OpenSale
<1>5. ASSUME NEW a PROVE lockedFor(a) = [d \in DisputeId |-> stakeIn(disputes[d], seats[d], a)]
  <2>1. \A d \in DisputeId : a \in Seated(d) <=> Sits(disputes[d], seats[d], a)
    BY DEF Seated, Jury, panel, Sits
  <2> QED BY <2>1 DEF lockedFor, stakeIn
<1> QED BY <1>1, <1>2, <1>3, <1>4, <1>5

\* A version not yet listed has no seller and no preview.
Unlisted == \A v \in VersionId :
  v >= nextVersionId => versions[v].seller = NoAccount /\ previews[v].paidAt = 0

\* Nothing is owed below zero, and no hold exceeds the stake it is part of.
Covered ==
  /\ bucket.treasury >= 0 /\ bucket.reserve >= 0
  /\ \A a \in Accounts : /\ claimable[a] >= 0
                         /\ stakes[a].reserved <= stakes[a].total
                         /\ jurors[a].locked <= jurors[a].total

\* The entries are amounts.
Amounted ==
  /\ escrowed \in [PurchaseId -> Nat] /\ bonded \in [DisputeId -> Nat]
  /\ feeHeld \in [VersionId -> Nat]
  /\ \A a : reservedFor(a) \in [PurchaseId -> Nat] /\ lockedFor(a) \in [DisputeId -> Nat]
  /\ stakeTotals \in [Accounts -> Int] /\ jurorTotals \in [Accounts -> Int]
  /\ claimable \in [Accounts -> Int] /\ bucket \in Buckets
  /\ \A a \in Accounts : stakes[a].reserved \in Int /\ jurors[a].locked \in Int

\* Every amount that is summed is a natural number.
LEMMA EntriesTyped == Linked /\ CaseInv => Amounted
<1> SUFFICES ASSUME Linked, CaseInv PROVE Amounted OBVIOUS
<1>1. ASSUME NEW i \in PurchaseId
      PROVE  priceIn(purchases[i]) \in Nat /\ \A a : shareIn(purchases[i], a) \in Nat
  <2>1. purchases[i] \in Purchase BY DEF Linked, PurchaseInv, TypePurchases
  <2> QED BY <2>1 DEF Purchase, Terms, priceIn, shareIn
<1>2. ASSUME NEW d \in DisputeId
      PROVE  bondIn(disputes[d]) \in Nat /\ \A a : stakeIn(disputes[d], seats[d], a) \in Nat
  <2>1. disputes[d] \in Dispute BY DEF Linked, DisputeInv, TypeDisputes
  <2>2. OpenCase(disputes[d]) => disputes[d].status # "None" BY DEF OpenCase
  <2>3. disputes[d].status # "None" => disputes[d].bond >= 0 BY DEF CaseInv, Links, CaseSound
  <2> QED BY <2>1, <2>2, <2>3 DEF Dispute, Params, bondIn, stakeIn
<1>3. ASSUME NEW v \in VersionId PROVE feeIn(versions[v], previews[v]) \in Nat
  BY DEF Linked, CatalogInv, TypeCatalog, Preview, feeIn
<1>4. /\ stakes \in [Accounts -> Stake] /\ jurors \in [Accounts -> JurorInfo]
      /\ claimable \in [Accounts -> Int] /\ bucket \in Buckets
  BY DEF Linked, TypeFunds
<1>5. stakeTotals \in [Accounts -> Int] /\ jurorTotals \in [Accounts -> Int]
  BY <1>4 DEF stakeTotals, jurorTotals, Stake, JurorInfo
<1>6. \A a \in Accounts : stakes[a].reserved \in Int /\ jurors[a].locked \in Int
  BY <1>4 DEF Stake, JurorInfo
<1>7. escrowed \in [PurchaseId -> Nat] /\ \A a : reservedFor(a) \in [PurchaseId -> Nat]
  BY <1>1, Entries
<1>8. bonded \in [DisputeId -> Nat] /\ \A a : lockedFor(a) \in [DisputeId -> Nat]
  BY <1>2, Entries
<1>9. feeHeld \in [VersionId -> Nat] BY <1>3, Entries
<1> QED BY <1>4, <1>5, <1>6, <1>7, <1>8, <1>9 DEF Amounted

\* The same after a step.
LEMMA EntriesTypedNext == ASSUME Linked', CaseInv' PROVE Amounted'
BY EntriesTyped, PTL

\* The inductive invariant, next to Linked and CaseInv.
MoneyInv == BucketsAccounted /\ HoldsAccounted /\ Covered /\ Unlisted

\* Sums range over finite sets of ids and accounts.
LEMMA IdsFinite ==
  IsFiniteSet(PurchaseId) /\ IsFiniteSet(DisputeId) /\ IsFiniteSet(VersionId) /\ IsFiniteSet(Accounts)
<1>1. MaxPurchases \in Int /\ MaxVersions \in Int /\ 1 \in Int BY ConstantsOK DEF ConstantsOK
<1> QED BY <1>1, FS_Interval, ConstantsOK DEF ConstantsOK, PurchaseId, DisputeId, VersionId

\* Every bucket and every hold is a sum of amounts, so none is negative.
LEMMA SumsNatural == ASSUME Linked, CaseInv, MoneyInv PROVE NoUnderflow
<1>1. Amounted BY EntriesTyped
<1>2. ASSUME NEW S, IsFiniteSet(S), NEW f \in [S -> Nat] PROVE SumFunction(f) >= 0
  <2>1. f \in [S -> Int] /\ \A x \in S : f[x] >= 0 OBVIOUS
  <2> QED BY <1>2, <2>1, SumNat
<1>3. ASSUME NEW a \in Accounts
      PROVE  stakes[a].reserved >= 0 /\ jurors[a].locked >= 0
  <2>1. stakes[a].reserved = SumFunction(reservedFor(a)) /\ jurors[a].locked = SumFunction(lockedFor(a))
    BY DEF MoneyInv, HoldsAccounted
  <2> QED BY <1>1, <1>2, <2>1, IdsFinite DEF Amounted
<1>4. stakeTotals \in [Accounts -> Nat] /\ jurorTotals \in [Accounts -> Nat]
  <2>1. ASSUME NEW a \in Accounts PROVE stakes[a].total >= 0 /\ jurors[a].total >= 0
    <3>1. stakes[a].reserved <= stakes[a].total /\ jurors[a].locked <= jurors[a].total
      BY DEF MoneyInv, Covered
    <3>2. /\ stakes[a].reserved \in Int /\ stakes[a].total \in Int
          /\ jurors[a].locked \in Int /\ jurors[a].total \in Int
      BY <1>1 DEF Amounted, stakeTotals, jurorTotals
    <3> QED BY <1>3, <3>1, <3>2
  <2>2. ASSUME NEW a \in Accounts PROVE stakeTotals[a] \in Nat /\ jurorTotals[a] \in Nat
    BY <1>1, <2>1 DEF Amounted, stakeTotals, jurorTotals
  <2> QED BY <2>2 DEF stakeTotals, jurorTotals
<1>5. claimable \in [Accounts -> Nat] BY <1>1 DEF Amounted, MoneyInv, Covered
<1>6. /\ bucket.escrow >= 0 /\ bucket.bonds >= 0 /\ bucket.collateral >= 0
      /\ bucket.jurorStake >= 0 /\ bucket.claimable >= 0 /\ bucket.previewFees >= 0
  <2>1. bucket.escrow >= 0 /\ bucket.bonds >= 0 /\ bucket.previewFees >= 0
    BY <1>1, <1>2, IdsFinite DEF Amounted, MoneyInv, BucketsAccounted
  <2>2. bucket.collateral = SumFunction(stakeTotals) /\ bucket.jurorStake = SumFunction(jurorTotals)
    BY DEF MoneyInv, BucketsAccounted, stakeTotals, jurorTotals
  <2>3. bucket.claimable = SumFunction(claimable) BY DEF MoneyInv, BucketsAccounted
  <2> QED BY <1>2, <1>4, <1>5, <2>1, <2>2, <2>3, IdsFinite
<1>7. ASSUME NEW b \in DOMAIN bucket PROVE bucket[b] >= 0
  <2>1. bucket.treasury >= 0 /\ bucket.reserve >= 0 BY DEF MoneyInv, Covered
  <2>2. b \in {"escrow", "collateral", "bonds", "jurorStake", "treasury", "reserve",
               "claimable", "previewFees"}
    BY <1>1 DEF Amounted, Buckets
  <2> QED BY <1>6, <2>1, <2>2
<1> QED BY <1>3, <1>5, <1>7 DEF NoUnderflow

---------------------------------------------------------------------------
(* A step moves a bucket with one of its entries. *)

EscrowMoves  == OneMoves(PurchaseId, escrowed, escrowed', bucket.escrow, bucket'.escrow)
BondMoves    == OneMoves(DisputeId, bonded, bonded', bucket.bonds, bucket'.bonds)
FeeMoves     == OneMoves(VersionId, feeHeld, feeHeld', bucket.previewFees, bucket'.previewFees)
StakeMoves   == OneMoves(Accounts, stakeTotals, stakeTotals', bucket.collateral, bucket'.collateral)
ReserveMoves == \A a \in Accounts :
  OneMoves(PurchaseId, reservedFor(a), reservedFor(a)', stakes[a].reserved, stakes'[a].reserved)
LockMoves    == \A a \in Accounts :
  OneMoves(DisputeId, lockedFor(a), lockedFor(a)', jurors[a].locked, jurors'[a].locked)

\* The two buckets a tally moves with several entries.
JurorSum == bucket.jurorStake = SumFunction(jurorTotals)
ClaimSum == bucket.claimable = SumFunction(claimable)

\* The amounts after a step, one record at a time.
LEMMA EntriesNext ==
  /\ escrowed' = [i \in PurchaseId |-> priceIn(purchases'[i])]
  /\ bonded' = [d \in DisputeId |-> bondIn(disputes'[d])]
  /\ feeHeld' = [v \in VersionId |-> feeIn(versions'[v], previews'[v])]
  /\ \A a : reservedFor(a)' = [i \in PurchaseId |-> shareIn(purchases'[i], a)]
  /\ \A a : lockedFor(a)' = [d \in DisputeId |-> stakeIn(disputes'[d], seats'[d], a)]
<1>1. escrowed' = [i \in PurchaseId |-> priceIn(purchases'[i])]
  BY DEF escrowed, Open, priceIn, OpenSale
<1>2. bonded' = [d \in DisputeId |-> bondIn(disputes'[d])]
  BY DEF bonded, OpenDispute, bondIn, OpenCase
<1>3. feeHeld' = [v \in VersionId |-> feeIn(versions'[v], previews'[v])]
  BY DEF feeHeld, feeIn, outstanding
<1>4. ASSUME NEW a PROVE reservedFor(a)' = [i \in PurchaseId |-> shareIn(purchases'[i], a)]
  BY DEF reservedFor, Open, shareIn, OpenSale
<1>5. ASSUME NEW a PROVE lockedFor(a)' = [d \in DisputeId |-> stakeIn(disputes'[d], seats'[d], a)]
  <2>1. \A d \in DisputeId : a \in Seated(d)' <=> Sits(disputes'[d], seats'[d], a)
    BY DEF Seated, Jury, panel, Sits
  <2> QED BY <2>1 DEF lockedFor, stakeIn
<1> QED BY <1>1, <1>2, <1>3, <1>4, <1>5

\* If all of them do, the sums stay right.
LEMMA SumsFollow ==
  ASSUME Linked, CaseInv, MoneyInv, Linked', CaseInv',
         EscrowMoves, BondMoves, FeeMoves, StakeMoves, ReserveMoves, LockMoves,
         JurorSum', ClaimSum', Covered', Unlisted'
  PROVE  MoneyInv'
<1>1. Amounted /\ Amounted' BY EntriesTyped, EntriesTypedNext
<1>2. ASSUME NEW S, IsFiniteSet(S), NEW f \in [S -> Nat], NEW g \in [S -> Nat], NEW n, NEW m,
             n = SumFunction(f), OneMoves(S, f, g, n, m)
      PROVE  m = SumFunction(g)
  <2>1. f \in [S -> Int] /\ g \in [S -> Int] OBVIOUS
  <2> QED BY <1>2, <2>1, SumMoves
<1>3. bucket'.escrow = SumFunction(escrowed')
  BY <1>1, <1>2, IdsFinite DEF Amounted, MoneyInv, BucketsAccounted, EscrowMoves
<1>4. bucket'.bonds = SumFunction(bonded')
  BY <1>1, <1>2, IdsFinite DEF Amounted, MoneyInv, BucketsAccounted, BondMoves
<1>5. bucket'.previewFees = SumFunction(feeHeld')
  BY <1>1, <1>2, IdsFinite DEF Amounted, MoneyInv, BucketsAccounted, FeeMoves
<1>6. bucket'.collateral = SumFunction(stakeTotals')
  <2>1. bucket.collateral = SumFunction(stakeTotals)
    BY DEF MoneyInv, BucketsAccounted, stakeTotals
  <2>2. stakeTotals \in [Accounts -> Int] /\ stakeTotals' \in [Accounts -> Int]
    BY <1>1 DEF Amounted
  <2> QED BY <2>1, <2>2, SumMoves, IdsFinite DEF StakeMoves
<1>7. ASSUME NEW a \in Accounts
      PROVE  /\ stakes'[a].reserved = SumFunction(reservedFor(a)')
             /\ jurors'[a].locked = SumFunction(lockedFor(a)')
  <2>1. /\ reservedFor(a) \in [PurchaseId -> Nat] /\ lockedFor(a) \in [DisputeId -> Nat]
        /\ reservedFor(a)' \in [PurchaseId -> Nat] /\ lockedFor(a)' \in [DisputeId -> Nat]
    BY <1>1 DEF Amounted
  <2>2. stakes[a].reserved = SumFunction(reservedFor(a)) /\ jurors[a].locked = SumFunction(lockedFor(a))
    BY DEF MoneyInv, HoldsAccounted
  <2>3. stakes'[a].reserved = SumFunction(reservedFor(a)')
    BY <1>2, <2>1, <2>2, IdsFinite DEF ReserveMoves
  <2>4. jurors'[a].locked = SumFunction(lockedFor(a)')
    BY <1>2, <2>1, <2>2, IdsFinite DEF LockMoves
  <2> QED BY <2>3, <2>4
<1>8. BucketsAccounted'
  BY <1>3, <1>4, <1>5, <1>6 DEF BucketsAccounted, stakeTotals, jurorTotals, JurorSum, ClaimSum
<1>9. HoldsAccounted' BY <1>7 DEF HoldsAccounted, Covered
<1> QED BY <1>8, <1>9 DEF MoneyInv

\* What a step leaves alone.
LEMMA Unmoved ==
  ASSUME MoneyInv
  PROVE  /\ purchases' = purchases /\ bucket'.escrow = bucket.escrow => EscrowMoves
         /\ purchases' = purchases /\ (\A a \in Accounts : stakes'[a].reserved = stakes[a].reserved)
              => ReserveMoves
         /\ disputes' = disputes /\ bucket'.bonds = bucket.bonds => BondMoves
         /\ UNCHANGED <<disputes, seats>> /\ (\A a \in Accounts : jurors'[a].locked = jurors[a].locked)
              => LockMoves
         /\ UNCHANGED <<versions, previews>> /\ bucket'.previewFees = bucket.previewFees => FeeMoves
         /\ bucket'.collateral = bucket.collateral /\ (\A a \in Accounts : stakes'[a].total = stakes[a].total)
              => StakeMoves
         /\ bucket'.jurorStake = bucket.jurorStake /\ (\A a \in Accounts : jurors'[a].total = jurors[a].total)
              => JurorSum'
         /\ bucket'.claimable = bucket.claimable /\ claimable' = claimable => ClaimSum'
         /\ UNCHANGED <<versions, nextVersionId, previews>> => Unlisted'
<1>1. purchases' = purchases /\ bucket'.escrow = bucket.escrow => EscrowMoves
  BY Entries, EntriesNext DEF EscrowMoves, OneMoves
<1>2. purchases' = purchases /\ (\A a \in Accounts : stakes'[a].reserved = stakes[a].reserved)
        => ReserveMoves
  <2> SUFFICES ASSUME purchases' = purchases, NEW a \in Accounts, stakes'[a].reserved = stakes[a].reserved
               PROVE  OneMoves(PurchaseId, reservedFor(a), reservedFor(a)',
                               stakes[a].reserved, stakes'[a].reserved)
    BY DEF ReserveMoves
  <2>1. reservedFor(a)' = reservedFor(a) BY Entries, EntriesNext
  <2> QED BY <2>1 DEF OneMoves
<1>3. disputes' = disputes /\ bucket'.bonds = bucket.bonds => BondMoves
  BY Entries, EntriesNext DEF BondMoves, OneMoves
<1>4. UNCHANGED <<disputes, seats>> /\ (\A a \in Accounts : jurors'[a].locked = jurors[a].locked)
        => LockMoves
  <2> SUFFICES ASSUME UNCHANGED <<disputes, seats>>, NEW a \in Accounts, jurors'[a].locked = jurors[a].locked
               PROVE  OneMoves(DisputeId, lockedFor(a), lockedFor(a)',
                               jurors[a].locked, jurors'[a].locked)
    BY DEF LockMoves
  <2>1. lockedFor(a)' = lockedFor(a) BY Entries, EntriesNext
  <2> QED BY <2>1 DEF OneMoves
<1>5. UNCHANGED <<versions, previews>> /\ bucket'.previewFees = bucket.previewFees => FeeMoves
  BY Entries, EntriesNext DEF FeeMoves, OneMoves
<1>6. bucket'.collateral = bucket.collateral /\ (\A a \in Accounts : stakes'[a].total = stakes[a].total)
        => StakeMoves
  BY DEF StakeMoves, OneMoves, stakeTotals
<1>7. bucket'.jurorStake = bucket.jurorStake /\ (\A a \in Accounts : jurors'[a].total = jurors[a].total)
        => JurorSum'
  <2>1. bucket.jurorStake = SumFunction(jurorTotals) BY DEF MoneyInv, BucketsAccounted, jurorTotals
  <2>2. (\A a \in Accounts : jurors'[a].total = jurors[a].total) => jurorTotals' = jurorTotals
    BY DEF jurorTotals
  <2> QED BY <2>1, <2>2 DEF JurorSum
<1>8. bucket'.claimable = bucket.claimable /\ claimable' = claimable => ClaimSum'
  BY DEF ClaimSum, MoneyInv, BucketsAccounted
<1>9. UNCHANGED <<versions, nextVersionId, previews>> => Unlisted' BY DEF MoneyInv, Unlisted
<1> QED BY <1>1, <1>2, <1>3, <1>4, <1>5, <1>6, <1>7, <1>8, <1>9

---------------------------------------------------------------------------
(* Calls about neither purchases nor disputes *)

OutsideCall ==
  \/ UNCHANGED vars \/ NewBlock \/ Admin \/ Selling
  \/ \E a \in Withdrawers : withdraw(a)
  \/ \E a \in JurorPool, n \in Amounts : depositJurorStake(a, n) \/ withdrawJurorStake(a, n)

\* Every step is one of those or moves a purchase or a dispute.
LEMMA MoneyCalls == ASSUME [Next]_vars PROVE OutsideCall \/ CaseCall
BY DEF Next, Purchasing, Judging, Deciding, OutsideCall, CaseCall

\* A payment to one account.
LEMMA CreditMoves ==
  ASSUME NEW c \in [Accounts -> Int], NEW a \in Accounts, NEW n \in Int
  PROVE  /\ credit(c, a, n) \in [Accounts -> Int]
         /\ SumFunction(credit(c, a, n)) = SumFunction(c) + n
         /\ n >= 0 /\ (\A b \in Accounts : c[b] >= 0) => \A b \in Accounts : credit(c, a, n)[b] >= 0
<1> DEFINE k == credit(c, a, n)
<1>1. k \in [Accounts -> Int] /\ k[a] = c[a] + n /\ \A b \in Accounts \ {a} : k[b] = c[b]
  BY DEF credit
<1> HIDE DEF k
<1>2. SumFunction(k) = SumFunction(c) + k[a] - c[a] BY <1>1, SumChange, IdsFinite
<1>3. SumFunction(c) \in Int BY SumTyped, IdsFinite
<1>4. SumFunction(k) = SumFunction(c) + n BY <1>1, <1>2, <1>3
<1>5. n >= 0 /\ (\A b \in Accounts : c[b] >= 0) => \A b \in Accounts : k[b] >= 0
  <2> SUFFICES ASSUME n >= 0, \A b \in Accounts : c[b] >= 0, NEW b \in Accounts PROVE k[b] >= 0
    OBVIOUS
  <2> QED BY <1>1
<1> QED BY <1>1, <1>4, <1>5 DEF k

\* What it leaves of the market's accounts.
OutsideSales ==
  /\ UNCHANGED <<purchases, disputes, seats>>
  /\ bucket'.escrow = bucket.escrow /\ bucket'.bonds = bucket.bonds
  /\ \A a \in Accounts : /\ stakes'[a].reserved = stakes[a].reserved
                         /\ jurors'[a].locked = jurors[a].locked

\* Calls of the owner, of sellers and blocks that move no money of a purchase: the rest
\* follows from what they do with versions, stakes and balances.
LEMMA OutsideFollows ==
  ASSUME Linked, CaseInv, MoneyInv, Linked', CaseInv', OutsideSales,
         FeeMoves, StakeMoves, JurorSum', ClaimSum', Covered', Unlisted'
  PROVE  MoneyInv'
BY Unmoved, SumsFollow DEF OutsideSales

\* No money moves.
LEMMA IdleMoney ==
  ASSUME Linked, CaseInv, MoneyInv, Linked', CaseInv',
         UNCHANGED <<purchases, disputes, seats, stakes, claimable>>,
         \A b \in DOMAIN bucket \ {"treasury", "reserve"} : bucket'[b] = bucket[b],
         bucket'.treasury >= 0, bucket'.reserve >= 0,
         \A a \in Accounts : jurors'[a].locked = jurors[a].locked /\ jurors'[a].total = jurors[a].total,
         FeeMoves, Unlisted'
  PROVE  MoneyInv'
<1>1. /\ bucket'.escrow = bucket.escrow /\ bucket'.bonds = bucket.bonds
      /\ bucket'.collateral = bucket.collateral /\ bucket'.jurorStake = bucket.jurorStake
      /\ bucket'.claimable = bucket.claimable
  BY DEF Linked, TypeFunds, Buckets
<1>2. OutsideSales BY <1>1 DEF OutsideSales
<1>3. StakeMoves /\ JurorSum' /\ ClaimSum' BY <1>1, Unmoved
<1>4. Covered' BY DEF Covered, MoneyInv
<1> QED BY <1>2, <1>3, <1>4, OutsideFollows

\* The owner takes from treasury and reserve what is there.
LEMMA AdminMoney ==
  ASSUME Linked, CaseInv, MoneyInv, Linked', CaseInv', Admin PROVE MoneyInv'
<1>1. /\ bucket \in Buckets /\ jurors \in [Accounts -> JurorInfo] /\ OwnerAmounts \subseteq Nat
      /\ ApprovalPool \subseteq Accounts
  BY ConstantsOK DEF ConstantsOK, Linked, TypeFunds
<1>2. /\ UNCHANGED <<purchases, disputes, seats, stakes, claimable>>
      /\ UNCHANGED <<versions, nextVersionId, previews>>
  BY AdminFrame DEF catalog, cases
<1>3. bucket.treasury >= 0 /\ bucket.reserve >= 0 BY DEF MoneyInv, Covered
<1>4. ASSUME NEW n \in OwnerAmounts, withdrawTreasury(n) \/ withdrawReserve(n)
      PROVE  /\ \A b \in DOMAIN bucket \ {"treasury", "reserve"} : bucket'[b] = bucket[b]
             /\ bucket'.treasury >= 0 /\ bucket'.reserve >= 0 /\ jurors' = jurors
  <2>1. n \in Nat BY <1>1
  <2>2. CASE withdrawTreasury(n) BY <1>1, <1>3, <2>1, <2>2 DEF withdrawTreasury, Buckets
  <2>3. CASE withdrawReserve(n) BY <1>1, <1>3, <2>1, <2>3 DEF withdrawReserve, Buckets
  <2> QED BY <1>4, <2>2, <2>3
<1>5. ASSUME NEW a \in ApprovalPool, NEW b, approveJuror(a, b)
      PROVE  /\ bucket' = bucket
             /\ \A c \in Accounts : jurors'[c].locked = jurors[c].locked /\ jurors'[c].total = jurors[c].total
  <2> DEFINE k == [jurors[a] EXCEPT !.listed = TRUE, !.approved = b]
  <2>1. a \in Accounts BY <1>1
  <2>2. k.locked = jurors[a].locked /\ k.total = jurors[a].total BY <1>1, <2>1 DEF JurorInfo
  <2>3. bucket' = bucket /\ jurors' = [jurors EXCEPT ![a] = k] BY <1>5 DEF approveJuror
  <2> HIDE DEF k
  <2> QED BY <1>1, <2>1, <2>2, <2>3
<1>6. \/ bucket' = bucket /\ jurors' = jurors
      \/ \E n \in OwnerAmounts : withdrawTreasury(n) \/ withdrawReserve(n)
      \/ \E a \in ApprovalPool : \E b : approveJuror(a, b)
  BY DEF Admin, setParams, setPreviewFeeRecipient, setMinPreviewFee, setPreviewTimeout,
         setPreviewConfig, setRunner, setRelay, setVerifier
<1>7. FeeMoves
  <2>1. bucket'.previewFees = bucket.previewFees BY <1>1, <1>4, <1>5, <1>6 DEF Buckets
  <2> QED BY <1>2, <2>1, Unmoved
<1>8. Unlisted' BY <1>2, Unmoved
<1>9. \A c \in Accounts : jurors'[c].locked = jurors[c].locked /\ jurors'[c].total = jurors[c].total
  BY <1>4, <1>5, <1>6
<1>10. /\ \A b \in DOMAIN bucket \ {"treasury", "reserve"} : bucket'[b] = bucket[b]
       /\ bucket'.treasury >= 0 /\ bucket'.reserve >= 0
  BY <1>3, <1>4, <1>5, <1>6
<1> QED BY <1>2, <1>7, <1>8, <1>9, <1>10, IdleMoney

\* Listing a version, or taking it off sale, moves no fee: a new version has no preview.
LEMMA ListingMoney ==
  ASSUME Linked, CaseInv, MoneyInv, Linked', CaseInv',
         \/ \E a \in Sellers : \E l : \E t : addVersion(a, l, t)
         \/ \E v \in VersionId, b \in ActiveChoices : setVersionActive(v, b)
  PROVE  MoneyInv'
<1>1. /\ versions \in [VersionId -> Version] /\ previews \in [VersionId -> Preview]
      /\ nextVersionId \in Nat /\ NoAccount \notin Accounts /\ Sellers \subseteq Accounts
  BY CatalogConstants DEF Linked, CatalogInv, TypeCatalog
<1>2. /\ UNCHANGED <<purchases, disputes, seats, stakes, claimable, bucket, jurors, previews>>
      /\ nextVersionId' \in Nat /\ nextVersionId' >= nextVersionId
  <2>1. ASSUME NEW a, NEW l, NEW t, addVersion(a, l, t)
        PROVE  /\ UNCHANGED <<purchases, disputes, seats, stakes, claimable, bucket, jurors, previews>>
               /\ nextVersionId' = nextVersionId + 1
    BY <2>1 DEF addVersion, cases
  <2>2. ASSUME NEW v, NEW b, setVersionActive(v, b)
        PROVE  /\ UNCHANGED <<purchases, disputes, seats, stakes, claimable, bucket, jurors, previews>>
               /\ nextVersionId' = nextVersionId
    BY <2>2 DEF setVersionActive, cases
  <2> QED BY <1>1, <2>1, <2>2
<1>3. \A v \in VersionId :
        \/ versions'[v].report = versions[v].report /\ versions'[v].seller = versions[v].seller
        \/ v = nextVersionId /\ nextVersionId' = nextVersionId + 1
  <2>1. ASSUME NEW a, NEW l, NEW t, addVersion(a, l, t), NEW v \in VersionId
        PROVE  versions'[v] = versions[v] \/ (v = nextVersionId /\ nextVersionId' = nextVersionId + 1)
    <3> DEFINE r == [seller |-> a, listing |-> l, terms |-> effectiveTerms(t),
                     report |-> FALSE, active |-> TRUE]
    <3>1. versions' = [versions EXCEPT ![nextVersionId] = r] /\ nextVersionId' = nextVersionId + 1
      BY <2>1 DEF addVersion
    <3> HIDE DEF r
    <3> QED BY <1>1, <3>1
  <2>2. ASSUME NEW w \in VersionId, NEW b, setVersionActive(w, b), NEW v \in VersionId
        PROVE  versions'[v].report = versions[v].report /\ versions'[v].seller = versions[v].seller
    <3> DEFINE r == [versions[w] EXCEPT !.active = b]
    <3>1. r.report = versions[w].report /\ r.seller = versions[w].seller BY <1>1 DEF Version
    <3>2. versions' = [versions EXCEPT ![w] = r] BY <2>2 DEF setVersionActive
    <3> HIDE DEF r
    <3> QED BY <1>1, <3>1, <3>2
  <2> QED BY <2>1, <2>2
<1>4. Unlisted BY DEF MoneyInv
<1>5. \A v \in VersionId : feeIn(versions'[v], previews[v]) = feeIn(versions[v], previews[v])
  BY <1>1, <1>3, <1>4 DEF feeIn, Unlisted
<1>6. FeeMoves
  <2>1. feeHeld' = feeHeld BY <1>2, <1>5, Entries, EntriesNext
  <2> QED BY <1>2, <2>1 DEF FeeMoves, OneMoves
<1>7. Unlisted'
  <2> SUFFICES ASSUME NEW v \in VersionId, v >= nextVersionId'
               PROVE  versions'[v].seller = NoAccount /\ previews'[v].paidAt = 0
    BY DEF Unlisted
  <2>1. v \in Nat BY DEF VersionId
  <2>2. v >= nextVersionId /\ ~(v = nextVersionId /\ nextVersionId' = nextVersionId + 1)
    BY <1>1, <1>2, <2>1
  <2>3. versions[v].seller = NoAccount /\ previews[v].paidAt = 0 BY <1>4, <2>2 DEF Unlisted
  <2> QED BY <1>2, <1>3, <2>2, <2>3
<1>8. /\ bucket'.treasury >= 0 /\ bucket'.reserve >= 0
  BY <1>2 DEF MoneyInv, Covered
<1> QED BY <1>2, <1>6, <1>7, <1>8, IdleMoney

\* A preview fee goes in with the request and out, to the runner or back, with the report
\* or the reclaim.
LEMMA PreviewMoney ==
  ASSUME Linked, CaseInv, FeesDated, MoneyInv, Linked', CaseInv', NEW v \in VersionId,
         \/ \E f \in PreviewFees : requestPreview(v, f)
         \/ reclaimPreviewFee(v) \/ \E s \in Signers : attachReport(v, s)
  PROVE  MoneyInv'
<1> DEFINE pv == previews[v]
<1>1. /\ versions \in [VersionId -> Version] /\ previews \in [VersionId -> Preview]
      /\ bucket \in Buckets /\ claimable \in [Accounts -> Int] /\ PreviewFees \subseteq Nat
      /\ pv.fee \in Nat /\ versions[v].seller \in Accounts \cup {NoAccount}
      /\ previewConfig.recipient \in Accounts
  BY ConstantsOK DEF ConstantsOK, Linked, CatalogInv, TypeCatalog, TypeFunds, TypeAdmin, Version, Preview
<1>2. Unlisted /\ v \in Nat /\ nextVersionId \in Nat
  BY DEF MoneyInv, VersionId, Linked, CatalogInv, TypeCatalog
<1>3. /\ UNCHANGED <<purchases, disputes, seats, stakes, jurors, nextVersionId>>
      /\ versions[v].seller # NoAccount /\ ~versions[v].report
  BY DEF requestPreview, reclaimPreviewFee, attachReport, cases, catalog
<1>4. ~ (v >= nextVersionId) BY <1>2, <1>3 DEF Unlisted
<1>5. OutsideSales /\ StakeMoves /\ JurorSum' /\ bucket'.treasury = bucket.treasury
      /\ bucket'.reserve = bucket.reserve
  <2>1. /\ bucket'.escrow = bucket.escrow /\ bucket'.bonds = bucket.bonds
        /\ bucket'.collateral = bucket.collateral /\ bucket'.jurorStake = bucket.jurorStake
        /\ bucket'.treasury = bucket.treasury /\ bucket'.reserve = bucket.reserve
    BY <1>1 DEF requestPreview, reclaimPreviewFee, attachReport, Buckets
  <2> QED BY <1>3, <2>1, Unmoved DEF OutsideSales
<1>6. \E q \in Preview : previews' = [previews EXCEPT ![v] = q]
  <2>1. previews' \in [VersionId -> Preview] BY DEF Linked, CatalogInv, TypeCatalog
  <2>2. \E q : previews' = [previews EXCEPT ![v] = q]
    BY DEF requestPreview, reclaimPreviewFee, attachReport
  <2>3. PICK q : previews' = [previews EXCEPT ![v] = q] BY <2>2
  <2>4. q = previews'[v] BY <1>1, <2>3
  <2> QED BY <2>1, <2>3, <2>4
<1>7. /\ \A w \in VersionId \ {v} : previews'[w] = previews[w] /\ versions'[w] = versions[w]
  <2>1. \A w \in VersionId \ {v} : previews'[w] = previews[w] BY <1>1, <1>6
  <2>2. versions' = versions \/ versions' = [versions EXCEPT ![v].report = TRUE]
    BY DEF requestPreview, reclaimPreviewFee, attachReport, catalog
  <2>3. \A w \in VersionId \ {v} : versions'[w] = versions[w] BY <1>1, <2>2
  <2> QED BY <2>1, <2>3
<1>8. Unlisted'
  <2> SUFFICES ASSUME NEW w \in VersionId, w >= nextVersionId'
               PROVE  versions'[w].seller = NoAccount /\ previews'[w].paidAt = 0
    BY DEF Unlisted
  <2>1. w # v BY <1>3, <1>4
  <2> QED BY <1>2, <1>3, <1>7, <2>1 DEF Unlisted
<1>9. \A w \in VersionId \ {v} : feeHeld'[w] = feeHeld[w] BY <1>7, Entries, EntriesNext
<1>10. feeHeld[v] = feeIn(versions[v], pv) /\ feeHeld'[v] = feeIn(versions'[v], previews'[v])
  BY Entries, EntriesNext
<1>11. ASSUME NEW f \in PreviewFees, requestPreview(v, f) PROVE FeeMoves /\ ClaimSum' /\ claimable' = claimable
  <2> DEFINE q == [pv EXCEPT !.fee = f, !.paidAt = timestamp, !.timeout = previewConfig.timeout,
                             !.reclaimed = FALSE]
  <2>1. /\ previews' = [previews EXCEPT ![v] = q] /\ ~outstanding(v)
        /\ bucket' = [bucket EXCEPT !.previewFees = @ + f] /\ claimable' = claimable
        /\ versions' = versions
    BY <1>11 DEF requestPreview, catalog
  <2>2. q.fee = f /\ q.paidAt = timestamp /\ q.reclaimed = FALSE BY <1>1 DEF Preview
  <2> HIDE DEF q
  <2>3. previews'[v] = q BY <1>1, <2>1
  <2>4. feeHeld[v] = 0 BY <1>10, <2>1 DEF feeIn, outstanding
  <2>5. feeHeld'[v] \in {0, f} BY <1>10, <2>2, <2>3 DEF feeIn
  <2>6. timestamp # 0 => feeHeld'[v] = f BY <1>3, <1>10, <2>1, <2>2, <2>3 DEF feeIn
  <2>7. timestamp # 0 BY DEF FeesDated
  <2>8. f \in Nat /\ bucket'.previewFees = bucket.previewFees + f /\ bucket.previewFees \in Int
        /\ bucket'.claimable = bucket.claimable
    BY <1>1, <2>1 DEF Buckets
  <2>9. FeeMoves BY <1>9, <2>4, <2>6, <2>7, <2>8 DEF FeeMoves, OneMoves
  <2> QED BY <2>1, <2>8, <2>9, Unmoved
<1>12. ASSUME NEW a \in Accounts, claimable' = credit(claimable, a, pv.fee),
              bucket' = [bucket EXCEPT !.previewFees = @ - pv.fee, !.claimable = @ + pv.fee],
              outstanding(v), feeHeld'[v] = 0
       PROVE  FeeMoves /\ ClaimSum' /\ \A b \in Accounts : claimable'[b] >= 0
  <2>1. feeHeld[v] = pv.fee BY <1>3, <1>10, <1>12 DEF feeIn, outstanding
  <2>2. /\ bucket'.previewFees = bucket.previewFees - pv.fee /\ bucket.previewFees \in Int
        /\ bucket'.claimable = bucket.claimable + pv.fee
    BY <1>1, <1>12 DEF Buckets
  <2>3. FeeMoves BY <1>1, <1>9, <1>12, <2>1, <2>2 DEF FeeMoves, OneMoves
  <2>4. bucket.claimable = SumFunction(claimable) /\ \A b \in Accounts : claimable[b] >= 0
    BY DEF MoneyInv, BucketsAccounted, Covered
  <2> DEFINE n == pv.fee
  <2>5. n \in Int /\ n >= 0 /\ claimable' = credit(claimable, a, n) BY <1>1, <1>12
  <2> HIDE DEF n
  <2>6. /\ SumFunction(credit(claimable, a, n)) = SumFunction(claimable) + n
        /\ \A b \in Accounts : credit(claimable, a, n)[b] >= 0
    BY <1>1, <2>4, <2>5, CreditMoves
  <2> QED BY <2>2, <2>3, <2>4, <2>5, <2>6 DEF ClaimSum, n
<1>13. ASSUME reclaimPreviewFee(v) PROVE FeeMoves /\ ClaimSum' /\ \A b \in Accounts : claimable'[b] >= 0
  <2> DEFINE q == [pv EXCEPT !.reclaimed = TRUE]
  <2>1. previews' = [previews EXCEPT ![v] = q] BY <1>13 DEF reclaimPreviewFee
  <2>2. q.reclaimed BY <1>1 DEF Preview
  <2> HIDE DEF q
  <2>3. feeHeld'[v] = 0 BY <1>1, <1>10, <2>1, <2>2 DEF feeIn
  <2> QED BY <1>1, <1>3, <1>12, <1>13, <2>3 DEF reclaimPreviewFee
<1>14. ASSUME NEW s, attachReport(v, s) PROVE FeeMoves /\ ClaimSum' /\ \A b \in Accounts : claimable'[b] >= 0
  <2> DEFINE r == [versions[v] EXCEPT !.report = TRUE]
  <2>1. versions' = [versions EXCEPT ![v] = r] BY <1>14 DEF attachReport
  <2>2. r.report BY <1>1 DEF Version
  <2> HIDE DEF r
  <2>3. feeHeld'[v] = 0 BY <1>1, <1>10, <2>1, <2>2 DEF feeIn
  <2> QED BY <1>1, <1>12, <1>14, <2>3 DEF attachReport
<1>15. FeeMoves /\ ClaimSum' /\ \A b \in Accounts : claimable'[b] >= 0
  BY <1>11, <1>13, <1>14 DEF MoneyInv, Covered
<1>16. Covered' BY <1>3, <1>5, <1>15 DEF Covered, MoneyInv
<1> QED BY <1>5, <1>8, <1>15, <1>16, OutsideFollows

\* Collateral moved by its owner; what is reserved stays.
LEMMA CollateralMoney ==
  ASSUME Linked, CaseInv, MoneyInv, Linked', CaseInv', NEW a \in Accounts, NEW n \in Nat,
         depositCollateral(a, n) \/ withdrawCollateral(a, n)
  PROVE  MoneyInv'
<1> DEFINE sa == stakes[a]
<1>1. /\ stakes \in [Accounts -> Stake] /\ bucket \in Buckets
      /\ sa.total \in Int /\ sa.reserved \in Int /\ sa.reserved <= sa.total
  BY DEF Linked, TypeFunds, Stake, MoneyInv, Covered
<1>2. PICK k \in {n, -n} :
        /\ stakes' = [stakes EXCEPT ![a].total = @ + k]
        /\ bucket' = [bucket EXCEPT !.collateral = @ + k]
        /\ k = n \/ n <= sa.total - sa.reserved
  <2>1. CASE depositCollateral(a, n) BY <2>1 DEF depositCollateral
  <2>2. CASE withdrawCollateral(a, n)
    <3> DEFINE j == - n
    <3>1. /\ stakes' = [stakes EXCEPT ![a].total = @ - n] /\ n <= sa.total - sa.reserved
          /\ bucket' = [bucket EXCEPT !.collateral = @ - n]
      BY <2>2 DEF withdrawCollateral, freeCollateral
    <3>2. sa.total + j = sa.total - n /\ bucket.collateral + j = bucket.collateral - n
      BY <1>1 DEF Buckets
    <3>3. j \in {n, -n} OBVIOUS
    <3> HIDE DEF j
    <3>4. /\ stakes' = [stakes EXCEPT ![a].total = @ + j]
          /\ bucket' = [bucket EXCEPT !.collateral = @ + j]
      BY <3>1, <3>2
    <3> QED BY <3>1, <3>3, <3>4
  <2> QED BY <2>1, <2>2
<1> DEFINE r == [sa EXCEPT !.total = @ + k]
<1>3. k \in Int /\ r.total = sa.total + k /\ r.reserved = sa.reserved BY <1>1 DEF Stake
<1>4. stakes' = [stakes EXCEPT ![a] = r] BY <1>2
<1> HIDE DEF r
<1>5. stakes'[a] = r /\ \A b \in Accounts \ {a} : stakes'[b] = stakes[b] BY <1>1, <1>4
<1>6. /\ UNCHANGED <<purchases, disputes, seats, claimable, jurors, versions, previews, nextVersionId>>
      /\ bucket'.escrow = bucket.escrow /\ bucket'.bonds = bucket.bonds
      /\ bucket'.jurorStake = bucket.jurorStake /\ bucket'.claimable = bucket.claimable
      /\ bucket'.treasury = bucket.treasury /\ bucket'.reserve = bucket.reserve
      /\ bucket'.previewFees = bucket.previewFees /\ bucket'.collateral = bucket.collateral + k
  BY <1>1, <1>2 DEF depositCollateral, withdrawCollateral, cases, catalog, Buckets
<1>7. OutsideSales BY <1>3, <1>5, <1>6 DEF OutsideSales
<1>8. StakeMoves
  <2>1. \A b \in Accounts \ {a} : stakeTotals'[b] = stakeTotals[b] BY <1>5 DEF stakeTotals
  <2>2. stakeTotals'[a] = sa.total + k /\ stakeTotals[a] = sa.total BY <1>3, <1>5 DEF stakeTotals
  <2>3. bucket'.collateral = bucket.collateral + stakeTotals'[a] - stakeTotals[a]
    BY <1>1, <1>3, <1>6, <2>2 DEF Buckets
  <2> QED BY <2>1, <2>3 DEF StakeMoves, OneMoves
<1>9. FeeMoves /\ JurorSum' /\ ClaimSum' /\ Unlisted' BY <1>6, Unmoved
<1>10. r.reserved <= r.total BY <1>1, <1>2, <1>3
<1>11. Covered'
  <2>1. \A b \in Accounts : stakes'[b].reserved <= stakes'[b].total
    BY <1>5, <1>10 DEF MoneyInv, Covered
  <2> QED BY <1>6, <2>1 DEF MoneyInv, Covered
<1> QED BY <1>7, <1>8, <1>9, <1>11, OutsideFollows

\* The same for a juror's stake, of which a panel's part is locked.
LEMMA JurorStakeMoney ==
  ASSUME Linked, CaseInv, MoneyInv, Linked', CaseInv', NEW a \in Accounts, NEW n \in Nat,
         depositJurorStake(a, n) \/ withdrawJurorStake(a, n)
  PROVE  MoneyInv'
<1> DEFINE ja == jurors[a]
<1>1. /\ jurors \in [Accounts -> JurorInfo] /\ bucket \in Buckets
      /\ ja.total \in Int /\ ja.locked \in Int /\ ja.locked <= ja.total
  BY DEF Linked, TypeFunds, JurorInfo, MoneyInv, Covered
<1>2. \E r, k : /\ jurors' = [jurors EXCEPT ![a] = r] /\ k \in Int
                /\ r.total = ja.total + k /\ r.locked = ja.locked /\ r.locked <= r.total
                /\ bucket'.jurorStake = bucket.jurorStake + k
  <2>1. CASE depositJurorStake(a, n)
    <3> DEFINE r == [ja EXCEPT !.total = @ + n, !.stakeBlock = blockNumber]
    <3>1. r.total = ja.total + n /\ r.locked = ja.locked BY <1>1 DEF JurorInfo
    <3>2. jurors' = [jurors EXCEPT ![a] = r] /\ bucket' = [bucket EXCEPT !.jurorStake = @ + n]
      BY <2>1 DEF depositJurorStake
    <3> HIDE DEF r
    <3>3. bucket'.jurorStake = bucket.jurorStake + n BY <1>1, <3>2 DEF Buckets
    <3>4. r.locked <= r.total BY <1>1, <3>1
    <3>5. n \in Int OBVIOUS
    <3> QED BY <3>1, <3>2, <3>3, <3>4, <3>5
  <2>2. CASE withdrawJurorStake(a, n)
    <3> DEFINE r == [ja EXCEPT !.total = @ - n]
               j == - n
    <3>1. r.total = ja.total - n /\ r.locked = ja.locked BY <1>1 DEF JurorInfo
    <3>2. /\ jurors' = [jurors EXCEPT ![a] = r] /\ bucket' = [bucket EXCEPT !.jurorStake = @ - n]
          /\ n <= ja.total - ja.locked
      BY <2>2 DEF withdrawJurorStake
    <3> HIDE DEF r
    <3>3. bucket'.jurorStake = bucket.jurorStake - n /\ bucket.jurorStake \in Int
      BY <1>1, <3>2 DEF Buckets
    <3>4. j \in Int /\ r.total = ja.total + j /\ bucket'.jurorStake = bucket.jurorStake + j
      BY <1>1, <3>1, <3>3
    <3>5. r.locked <= r.total BY <1>1, <3>1, <3>2
    <3> HIDE DEF j
    <3> QED BY <3>1, <3>2, <3>4, <3>5
  <2> QED BY <2>1, <2>2
<1>3. PICK r, k : /\ jurors' = [jurors EXCEPT ![a] = r] /\ k \in Int
                  /\ r.total = ja.total + k /\ r.locked = ja.locked /\ r.locked <= r.total
                  /\ bucket'.jurorStake = bucket.jurorStake + k
  BY <1>2
<1>4. jurors'[a] = r /\ \A b \in Accounts \ {a} : jurors'[b] = jurors[b] BY <1>1, <1>3
<1>5. /\ UNCHANGED <<purchases, disputes, seats, claimable, stakes, versions, previews, nextVersionId>>
      /\ bucket'.escrow = bucket.escrow /\ bucket'.bonds = bucket.bonds
      /\ bucket'.collateral = bucket.collateral /\ bucket'.claimable = bucket.claimable
      /\ bucket'.treasury = bucket.treasury /\ bucket'.reserve = bucket.reserve
      /\ bucket'.previewFees = bucket.previewFees
  BY <1>1 DEF depositJurorStake, withdrawJurorStake, cases, catalog, Buckets
<1>6. OutsideSales BY <1>3, <1>4, <1>5 DEF OutsideSales
<1>7. JurorSum'
  <2>1. \A b \in Accounts \ {a} : jurorTotals'[b] = jurorTotals[b] BY <1>4 DEF jurorTotals
  <2>2. jurorTotals'[a] = ja.total + k /\ jurorTotals[a] = ja.total BY <1>3, <1>4 DEF jurorTotals
  <2>3. bucket'.jurorStake = bucket.jurorStake + jurorTotals'[a] - jurorTotals[a]
    BY <1>1, <1>3, <2>2 DEF Buckets
  <2>4. OneMoves(Accounts, jurorTotals, jurorTotals', bucket.jurorStake, bucket'.jurorStake)
    BY <2>1, <2>3 DEF OneMoves
  <2>5. bucket.jurorStake = SumFunction(jurorTotals) BY DEF MoneyInv, BucketsAccounted, jurorTotals
  <2>6. Amounted /\ Amounted' BY EntriesTyped, EntriesTypedNext
  <2>7. jurorTotals \in [Accounts -> Int] /\ jurorTotals' \in [Accounts -> Int]
    BY <2>6 DEF Amounted
  <2> QED BY <2>4, <2>5, <2>7, SumMoves, IdsFinite DEF JurorSum
<1>8. FeeMoves /\ StakeMoves /\ ClaimSum' /\ Unlisted' BY <1>5, Unmoved
<1>9. Covered'
  <2>1. \A b \in Accounts : jurors'[b].locked <= jurors'[b].total
    BY <1>3, <1>4 DEF MoneyInv, Covered
  <2> QED BY <1>5, <2>1 DEF MoneyInv, Covered
<1> QED BY <1>6, <1>7, <1>8, <1>9, OutsideFollows

\* An account collects its whole balance.
LEMMA WithdrawMoney ==
  ASSUME Linked, CaseInv, MoneyInv, Linked', CaseInv', NEW a \in Accounts, withdraw(a)
  PROVE  MoneyInv'
<1>1. /\ claimable \in [Accounts -> Int] /\ bucket \in Buckets /\ claimable[a] \in Int
      /\ \A b \in Accounts : claimable[b] >= 0
  BY DEF Linked, TypeFunds, MoneyInv, Covered
<1>2. /\ UNCHANGED <<purchases, disputes, seats, jurors, stakes, versions, previews, nextVersionId>>
      /\ bucket'.escrow = bucket.escrow /\ bucket'.bonds = bucket.bonds
      /\ bucket'.collateral = bucket.collateral /\ bucket'.jurorStake = bucket.jurorStake
      /\ bucket'.treasury = bucket.treasury /\ bucket'.reserve = bucket.reserve
      /\ bucket'.previewFees = bucket.previewFees
      /\ bucket'.claimable = bucket.claimable - claimable[a]
      /\ claimable' = [claimable EXCEPT ![a] = 0]
  BY <1>1 DEF withdraw, cases, catalog, Buckets
<1>3. /\ claimable'[a] = 0 /\ \A b \in Accounts \ {a} : claimable'[b] = claimable[b]
      /\ claimable' \in [Accounts -> Int]
  BY <1>1, <1>2
<1>4. ClaimSum'
  <2>1. bucket'.claimable = bucket.claimable + claimable'[a] - claimable[a] BY <1>1, <1>2, <1>3 DEF Buckets
  <2>2. OneMoves(Accounts, claimable, claimable', bucket.claimable, bucket'.claimable)
    BY <1>3, <2>1 DEF OneMoves
  <2>3. bucket.claimable = SumFunction(claimable) BY DEF MoneyInv, BucketsAccounted
  <2> QED BY <1>1, <1>3, <2>2, <2>3, SumMoves, IdsFinite DEF ClaimSum
<1>5. OutsideSales BY <1>2 DEF OutsideSales
<1>6. FeeMoves /\ StakeMoves /\ JurorSum' /\ Unlisted' BY <1>2, Unmoved
<1>7. Covered'
  <2>1. \A b \in Accounts : claimable'[b] >= 0 BY <1>1, <1>3
  <2> QED BY <1>2, <2>1 DEF MoneyInv, Covered
<1> QED BY <1>4, <1>5, <1>6, <1>7, OutsideFollows

\* None of the calls outside purchases and disputes breaks the accounting.
LEMMA OutsideKeepsMoney ==
  ASSUME Linked, CaseInv, FeesDated, MoneyInv, Linked', CaseInv', OutsideCall
  PROVE  MoneyInv'
<1>1. /\ Sellers \subseteq Accounts /\ Withdrawers \subseteq Accounts /\ JurorPool \subseteq Accounts
      /\ Amounts \subseteq Nat
  BY ConstantsOK DEF ConstantsOK
<1>2. CASE UNCHANGED vars \/ NewBlock
  <2>1. /\ UNCHANGED <<purchases, disputes, seats, stakes, claimable, bucket, jurors>>
        /\ UNCHANGED <<versions, previews, nextVersionId>>
    BY <1>2, BlockFrame DEF vars, catalog, cases
  <2>2. FeeMoves /\ Unlisted' BY <2>1, Unmoved
  <2>3. bucket'.treasury >= 0 /\ bucket'.reserve >= 0 BY <2>1 DEF MoneyInv, Covered
  <2> QED BY <2>1, <2>2, <2>3, IdleMoney
<1>3. CASE Admin BY <1>3, AdminMoney
<1>4. CASE Selling
  <2>1. ASSUME NEW a \in Sellers, NEW n \in Amounts, depositCollateral(a, n) \/ withdrawCollateral(a, n)
        PROVE  MoneyInv'
    <3>1. a \in Accounts /\ n \in Nat BY <1>1
    <3> QED BY <2>1, <3>1, CollateralMoney
  <2>2. ASSUME NEW a \in Sellers, NEW l, NEW t, addVersion(a, l, t) PROVE MoneyInv'
    BY <2>2, ListingMoney
  <2> QED BY <1>4, <2>1, <2>2, ListingMoney, PreviewMoney DEF Selling, createListing, newVersion
<1>5. ASSUME NEW a \in Withdrawers, withdraw(a) PROVE MoneyInv' BY <1>1, <1>5, WithdrawMoney
<1>6. ASSUME NEW a \in JurorPool, NEW n \in Amounts, depositJurorStake(a, n) \/ withdrawJurorStake(a, n)
      PROVE  MoneyInv'
  <2>1. a \in Accounts /\ n \in Nat BY <1>1
  <2> QED BY <1>6, <2>1, JurorStakeMoney
<1> QED BY <1>2, <1>3, <1>4, <1>5, <1>6 DEF OutsideCall

---------------------------------------------------------------------------
(* Calls about one purchase *)

\* One purchase moves escrow and its seller's reservation.
LEMMA OneSale ==
  ASSUME NEW i \in PurchaseId, OnlyPurchase(i)
  PROVE  /\ bucket'.escrow = bucket.escrow + priceIn(purchases'[i]) - priceIn(purchases[i])
              => EscrowMoves
         /\ (\A a \in Accounts : stakes'[a].reserved
               = stakes[a].reserved + shareIn(purchases'[i], a) - shareIn(purchases[i], a))
              => ReserveMoves
<1>1. /\ \A j \in PurchaseId \ {i} : escrowed'[j] = escrowed[j]
      /\ escrowed[i] = priceIn(purchases[i]) /\ escrowed'[i] = priceIn(purchases'[i])
  BY Entries, EntriesNext DEF OnlyPurchase
<1>2. ASSUME NEW a
      PROVE  /\ \A j \in PurchaseId \ {i} : reservedFor(a)'[j] = reservedFor(a)[j]
             /\ reservedFor(a)[i] = shareIn(purchases[i], a)
             /\ reservedFor(a)'[i] = shareIn(purchases'[i], a)
  BY Entries, EntriesNext DEF OnlyPurchase
<1>3. bucket'.escrow = bucket.escrow + priceIn(purchases'[i]) - priceIn(purchases[i]) => EscrowMoves
  BY <1>1 DEF EscrowMoves, OneMoves
<1>4. (\A a \in Accounts : stakes'[a].reserved
         = stakes[a].reserved + shareIn(purchases'[i], a) - shareIn(purchases[i], a)) => ReserveMoves
  <2> SUFFICES ASSUME NEW a \in Accounts, stakes'[a].reserved
                        = stakes[a].reserved + shareIn(purchases'[i], a) - shareIn(purchases[i], a)
               PROVE  OneMoves(PurchaseId, reservedFor(a), reservedFor(a)',
                               stakes[a].reserved, stakes'[a].reserved)
    BY DEF ReserveMoves
  <2> QED BY <1>2 DEF OneMoves
<1> QED BY <1>3, <1>4

\* The end of a purchase: escrow is paid out and the reservation given back, of which
\* the seller loses n.
Releases(p, n) ==
  /\ stakes'[p.seller].reserved = stakes[p.seller].reserved - p.terms.collateral
  /\ stakes'[p.seller].total = stakes[p.seller].total - n
  /\ \A a \in Accounts \ {p.seller} : stakes'[a] = stakes[a]

\* Escrow, reservations and seller stakes follow the purchase that ends.
LEMMA ReleaseMoves ==
  ASSUME Linked, CaseInv, MoneyInv, NEW i \in PurchaseId, OnlyPurchase(i),
         OpenSale(purchases[i]), ~OpenSale(purchases'[i]),
         NEW n \in Int, n <= purchases[i].terms.collateral, Releases(purchases[i], n),
         bucket'.escrow = bucket.escrow - purchases[i].terms.price,
         bucket'.collateral = bucket.collateral - n
  PROVE  /\ EscrowMoves /\ ReserveMoves /\ StakeMoves
         /\ \A a \in Accounts : stakes'[a].reserved <= stakes'[a].total
<1> DEFINE p == purchases[i]
           q == purchases'[i]
<1>1. p \in Purchase /\ WellMade(p) /\ p.state # "None"
  BY OpenPurchase DEF OpenSale, Linked, PurchaseInv, TypePurchases
<1>2. p.terms.price \in Nat /\ p.terms.collateral \in Nat /\ p.seller \in Accounts
  BY <1>1, PurchaseNat
<1>3. stakes \in [Accounts -> Stake] /\ bucket \in Buckets BY DEF Linked, TypeFunds
<1>4. \A a \in Accounts : /\ stakes[a].reserved \in Int /\ stakes[a].total \in Int
                          /\ stakes[a].reserved <= stakes[a].total
  BY <1>3 DEF Stake, MoneyInv, Covered
<1>5. priceIn(q) = 0 /\ priceIn(p) = p.terms.price BY DEF priceIn
<1>6. \A a : shareIn(q, a) = 0 /\ shareIn(p, a) = IF p.seller = a THEN p.terms.collateral ELSE 0
  BY DEF shareIn
<1> HIDE DEF p, q
<1>7. bucket'.escrow = bucket.escrow + priceIn(q) - priceIn(p) BY <1>2, <1>3, <1>5 DEF Buckets, p
<1>8. ASSUME NEW a \in Accounts
      PROVE  /\ stakes'[a].reserved = stakes[a].reserved + shareIn(q, a) - shareIn(p, a)
             /\ stakes'[a].reserved <= stakes'[a].total
  <2>1. CASE a = p.seller
    <3>1. shareIn(q, a) = 0 /\ shareIn(p, a) = p.terms.collateral BY <1>6, <2>1
    <3>2. /\ stakes'[a].reserved = stakes[a].reserved - p.terms.collateral
          /\ stakes'[a].total = stakes[a].total - n
      BY <2>1 DEF Releases, p
    <3>3. n <= p.terms.collateral BY DEF p
    <3> QED BY <1>2, <1>4, <3>1, <3>2, <3>3
  <2>2. CASE a # p.seller
    <3>1. shareIn(q, a) = 0 /\ shareIn(p, a) = 0 BY <1>6, <2>2
    <3>2. stakes'[a] = stakes[a] BY <2>2 DEF Releases, p
    <3> QED BY <1>4, <3>1, <3>2
  <2> QED BY <2>1, <2>2
<1>9. StakeMoves
  <2>1. \A a \in Accounts \ {p.seller} : stakeTotals'[a] = stakeTotals[a]
    BY DEF stakeTotals, Releases, p
  <2>2. stakeTotals'[p.seller] = stakes[p.seller].total - n /\ stakeTotals[p.seller] = stakes[p.seller].total
    BY <1>2 DEF stakeTotals, Releases, p
  <2>3. bucket'.collateral = bucket.collateral + stakeTotals'[p.seller] - stakeTotals[p.seller]
    BY <1>2, <1>3, <1>4, <2>2 DEF Buckets
  <2> QED BY <1>2, <2>1, <2>3 DEF StakeMoves, OneMoves
<1> QED BY <1>7, <1>8, <1>9, OneSale DEF p, q

\* Delivery and rating move no money.
LEMMA RecordMoney ==
  ASSUME Linked, CaseInv, MoneyInv, Linked', CaseInv', NEW i \in PurchaseId,
         \/ \E s \in Signers : recordDelivery(i, s)
         \/ \E n \in StarChoices : rate(i, n)
  PROVE  MoneyInv'
<1> DEFINE p == purchases[i]
           q == purchases'[i]
<1>1. /\ UNCHANGED <<disputes, seats, jurors, stakes, claimable, bucket, versions, previews, nextVersionId>>
      /\ p.state \in {"Funded", "Settled"}
  BY DEF recordDelivery, rate, cases, catalog
<1>2. OnlyPurchase(i) /\ Kept(p, q) /\ (OpenSale(q) <=> OpenSale(p))
  <2>1. DeliverStep(p, q) \/ RefundStep(p, q) \/ CloseStep(p, q) \/ RateStep(p, q)
    BY SaleMoves
  <2>2. ~ RefundStep(p, q)
    <3>1. purchases \in [PurchaseId -> Purchase] BY DEF Linked, PurchaseInv, TypePurchases
    <3>2. ASSUME NEW s, recordDelivery(i, s) PROVE q.state = "Delivered"
      <4> DEFINE r == [p EXCEPT !.state = "Delivered", !.deliveredAt = timestamp,
                                !.challengeDeadline = timestamp + p.terms.challengeWindow]
      <4>1. purchases' = [purchases EXCEPT ![i] = r] BY <3>2 DEF recordDelivery
      <4>2. r.state = "Delivered" BY <3>1 DEF Purchase
      <4> HIDE DEF r
      <4> QED BY <3>1, <4>1, <4>2
    <3>3. ASSUME NEW n, rate(i, n) PROVE p.state = "Settled" BY <3>3 DEF rate
    <3> QED BY <3>2, <3>3 DEF RefundStep
  <2>3. OnlyPurchase(i) BY SaleMoves
  <2> QED BY <1>1, <2>1, <2>2, <2>3 DEF DeliverStep, CloseStep, RateStep, OpenSale
<1>3. priceIn(q) = priceIn(p) /\ \A a : shareIn(q, a) = shareIn(p, a)
  BY <1>2 DEF Kept, priceIn, shareIn
<1>4. \A a \in Accounts : stakes[a].reserved \in Int /\ shareIn(p, a) \in Int
  <2>1. p \in Purchase BY DEF Linked, PurchaseInv, TypePurchases
  <2> QED BY <2>1 DEF Linked, TypeFunds, Stake, Purchase, Terms, shareIn
<1>5. bucket.escrow \in Int /\ priceIn(p) \in Int
  <2>1. p \in Purchase BY DEF Linked, PurchaseInv, TypePurchases
  <2> QED BY <2>1 DEF Linked, TypeFunds, Buckets, Purchase, Terms, priceIn
<1> HIDE DEF p, q
<1>6. bucket'.escrow = bucket.escrow + priceIn(q) - priceIn(p) BY <1>1, <1>3, <1>5
<1>7. \A a \in Accounts : stakes'[a].reserved = stakes[a].reserved + shareIn(q, a) - shareIn(p, a)
  BY <1>1, <1>3, <1>4
<1>8. EscrowMoves /\ ReserveMoves BY <1>2, <1>6, <1>7, OneSale DEF p, q
<1>9. BondMoves /\ LockMoves /\ FeeMoves /\ StakeMoves /\ JurorSum' /\ ClaimSum' /\ Unlisted'
  BY <1>1, Unmoved
<1>10. Covered' BY <1>1 DEF Covered, MoneyInv
<1> QED BY <1>8, <1>9, <1>10, SumsFollow

\* buy reserves collateral the seller has free.
LEMMA BuyMoney ==
  ASSUME Linked, CaseInv, MoneyInv, Linked', CaseInv', NEW a \in Buyers, NEW v \in VersionId, buy(a, v)
  PROVE  MoneyInv'
<1> DEFINE i == nextPurchaseId
           p == purchases[i]
           q == purchases'[i]
           t == versions[v].terms
           s == versions[v].seller
           r == [stakes[s] EXCEPT !.reserved = @ + t.collateral]
<1>1. /\ stakes \in [Accounts -> Stake] /\ bucket \in Buckets /\ versions[v] \in Version
      /\ s \in Accounts /\ t.price \in Nat /\ t.collateral \in Nat
  BY DEF Linked, TypeFunds, CatalogInv, TypeCatalog, Version, Terms, buy
<1>2. /\ i \in PurchaseId /\ OnlyPurchase(i) /\ p = NoPurchase /\ q.state = "Funded"
      /\ q.terms = t /\ q.seller = s
  BY BuyMoves DEF BuyStep, Bought
<1>3. /\ UNCHANGED <<disputes, seats, jurors, claimable, versions, previews, nextVersionId>>
      /\ stakes' = [stakes EXCEPT ![s] = r]
      /\ stakes[s].total - stakes[s].reserved >= t.collateral
      /\ bucket' = [bucket EXCEPT !.escrow = @ + t.price]
  BY DEF buy, freeCollateral, cases, catalog
<1>4. /\ bucket'.escrow = bucket.escrow + t.price /\ bucket'.bonds = bucket.bonds
      /\ bucket'.collateral = bucket.collateral /\ bucket'.jurorStake = bucket.jurorStake
      /\ bucket'.claimable = bucket.claimable /\ bucket'.previewFees = bucket.previewFees
      /\ bucket'.treasury = bucket.treasury /\ bucket'.reserve = bucket.reserve
  BY <1>1, <1>3 DEF Buckets
<1>5. priceIn(p) = 0 /\ priceIn(q) = t.price BY <1>2 DEF NoPurchase, priceIn, OpenSale
<1>6. \A b : shareIn(p, b) = 0 /\ shareIn(q, b) = IF s = b THEN t.collateral ELSE 0
  BY <1>2 DEF NoPurchase, shareIn, OpenSale
<1>7. /\ r.reserved = stakes[s].reserved + t.collateral /\ r.total = stakes[s].total
  BY <1>1 DEF Stake
<1>8. \A b \in Accounts : /\ stakes[b].reserved \in Int /\ stakes[b].total \in Int
                          /\ stakes[b].reserved <= stakes[b].total
  BY <1>1 DEF Stake, MoneyInv, Covered
<1> HIDE DEF p, q, r, s, t, i
<1>9. stakes'[s] = r /\ \A b \in Accounts \ {s} : stakes'[b] = stakes[b] BY <1>1, <1>3
<1>10. bucket'.escrow = bucket.escrow + priceIn(q) - priceIn(p)
  BY <1>1, <1>4, <1>5 DEF Buckets
<1>11. ASSUME NEW b \in Accounts
       PROVE  /\ stakes'[b].reserved = stakes[b].reserved + shareIn(q, b) - shareIn(p, b)
              /\ stakes'[b].reserved <= stakes'[b].total /\ stakes'[b].total = stakes[b].total
  <2>1. CASE b = s
    <3>1. shareIn(q, b) = t.collateral /\ shareIn(p, b) = 0 BY <1>6, <2>1
    <3> QED BY <1>1, <1>3, <1>7, <1>8, <1>9, <2>1, <3>1
  <2>2. CASE b # s
    <3>1. shareIn(q, b) = 0 /\ shareIn(p, b) = 0 BY <1>6, <2>2
    <3> QED BY <1>8, <1>9, <2>2, <3>1
  <2> QED BY <2>1, <2>2
<1>12. EscrowMoves /\ ReserveMoves BY <1>2, <1>10, <1>11, OneSale DEF p, q
<1>13. BondMoves /\ LockMoves /\ FeeMoves /\ StakeMoves /\ JurorSum' /\ ClaimSum' /\ Unlisted'
  BY <1>3, <1>4, <1>11, Unmoved
<1>14. Covered' BY <1>3, <1>4, <1>11 DEF Covered, MoneyInv
<1> QED BY <1>12, <1>13, <1>14, SumsFollow

\* An undelivered purchase is refunded, an undisputed one is paid out.
LEMMA CloseMoney ==
  ASSUME Linked, CaseInv, MoneyInv, Linked', CaseInv', NEW i \in PurchaseId,
         refundUndelivered(i) \/ finalize(i)
  PROVE  MoneyInv'
<1> DEFINE p == purchases[i]
           q == purchases'[i]
           r == [stakes[p.seller] EXCEPT !.reserved = @ - p.terms.collateral]
           Paid(n, k) ==
             /\ bucket'.escrow = bucket.escrow - p.terms.price /\ bucket'.bonds = bucket.bonds
             /\ bucket'.collateral = bucket.collateral /\ bucket'.jurorStake = bucket.jurorStake
             /\ bucket'.claimable = bucket.claimable + n /\ bucket'.previewFees = bucket.previewFees
             /\ bucket'.treasury = bucket.treasury + k /\ bucket'.reserve = bucket.reserve
<1>0. p.state \in {"Funded", "Delivered"} BY DEF refundUndelivered, finalize
<1>1. p \in Purchase /\ WellMade(p) /\ p.state # "None" BY <1>0, OpenPurchase
<1>2. /\ p.terms.price \in Nat /\ p.terms.collateral \in Nat
      /\ p.seller \in Accounts /\ p.buyer \in Accounts
  BY <1>1, PurchaseNat
<1>3. /\ stakes \in [Accounts -> Stake] /\ bucket \in Buckets /\ claimable \in [Accounts -> Int]
      /\ bucket.claimable = SumFunction(claimable) /\ bucket.treasury >= 0
      /\ \A a \in Accounts : claimable[a] >= 0
  BY DEF Linked, TypeFunds, MoneyInv, BucketsAccounted, Covered
<1>4. /\ UNCHANGED <<disputes, seats, jurors, versions, previews, nextVersionId>>
      /\ stakes' = [stakes EXCEPT ![p.seller] = r]
  BY DEF refundUndelivered, finalize, releaseCollateral, cases, catalog
<1>5. OnlyPurchase(i) /\ Kept(p, q) /\ OpenSale(p) /\ ~OpenSale(q)
  <2>1. /\ DeliverStep(p, q) \/ RefundStep(p, q) \/ CloseStep(p, q) \/ RateStep(p, q)
        /\ OnlyPurchase(i)
    BY SaleMoves
  <2>2. q.state \in {"Refunded", "Settled"}
    <3>1. purchases \in [PurchaseId -> Purchase] BY DEF Linked, PurchaseInv, TypePurchases
    <3>2. CASE refundUndelivered(i)
      <4> DEFINE k == [p EXCEPT !.state = "Refunded", !.refunded = p.terms.price]
      <4>1. purchases' = [purchases EXCEPT ![i] = k] BY <3>2 DEF refundUndelivered
      <4>2. k.state = "Refunded" BY <1>1 DEF Purchase
      <4> HIDE DEF k
      <4> QED BY <3>1, <4>1, <4>2
    <3>3. CASE finalize(i)
      <4>1. purchases' = [purchases EXCEPT ![i] = closed(p, 0)] BY <3>3 DEF finalize
      <4>2. closed(p, 0).state = "Settled" BY <1>1, ClosedTyped
      <4> QED BY <3>1, <4>1, <4>2
    <3> QED BY <3>2, <3>3
  <2> QED BY <1>0, <2>1, <2>2 DEF DeliverStep, RefundStep, CloseStep, RateStep, OpenSale
<1>6. \E a \in Accounts, n \in Nat, k \in Nat :
        claimable' = credit(claimable, a, n) /\ Paid(n, k)
  <2>1. CASE refundUndelivered(i)
    <3>1. /\ bucket' = [bucket EXCEPT !.escrow = @ - p.terms.price, !.claimable = @ + p.terms.price]
          /\ claimable' = credit(claimable, p.buyer, p.terms.price)
      BY <2>1 DEF refundUndelivered
    <3> HIDE DEF p
    <3>2. Paid(p.terms.price, 0) BY <1>3, <3>1 DEF Buckets
    <3> HIDE DEF Paid
    <3> QED BY <1>2, <3>1, <3>2
  <2>2. CASE finalize(i)
    <3>1. /\ closeFee(p, 0) >= 0 /\ closeProceeds(p, 0) >= 0
          /\ closeFee(p, 0) \in Int /\ closeProceeds(p, 0) \in Int
      BY <1>1, <1>2, CloseBounded, CloseInt
    <3>2. closeFee(p, 0) \in Nat /\ closeProceeds(p, 0) \in Nat BY <3>1
    <3>3. /\ claimable' = credit(claimable, p.seller, closeProceeds(p, 0))
          /\ bucket' = [bucket EXCEPT !.escrow = @ - p.terms.price,
                                      !.treasury = @ + closeFee(p, 0),
                                      !.claimable = @ + closeProceeds(p, 0)]
      BY <2>2 DEF finalize
    <3> HIDE DEF p
    <3>4. Paid(closeProceeds(p, 0), closeFee(p, 0)) BY <1>3, <3>3 DEF Buckets
    <3> HIDE DEF Paid
    <3> QED BY <1>2, <3>2, <3>3, <3>4
  <2> QED BY <2>1, <2>2
<1>7. PICK a \in Accounts, n \in Nat, k \in Nat :
        claimable' = credit(claimable, a, n) /\ Paid(n, k)
  BY <1>6
<1>8. /\ r.reserved = stakes[p.seller].reserved - p.terms.collateral
      /\ r.total = stakes[p.seller].total - 0
  BY <1>2, <1>3 DEF Stake
<1> HIDE DEF p, q, r, Paid
<1>9. Releases(p, 0) BY <1>2, <1>3, <1>4, <1>8 DEF Releases
<1>10. /\ bucket'.escrow = bucket.escrow - p.terms.price /\ bucket'.bonds = bucket.bonds
       /\ bucket'.collateral = bucket.collateral - 0 /\ bucket'.jurorStake = bucket.jurorStake
       /\ bucket'.claimable = bucket.claimable + n /\ bucket'.previewFees = bucket.previewFees
       /\ bucket'.treasury = bucket.treasury + k /\ bucket'.reserve = bucket.reserve
  BY <1>3, <1>7 DEF Buckets, Paid
<1>11. /\ EscrowMoves /\ ReserveMoves /\ StakeMoves
       /\ \A b \in Accounts : stakes'[b].reserved <= stakes'[b].total
  <2>1. 0 <= p.terms.collateral /\ 0 \in Int BY <1>2
  <2> QED BY <1>5, <1>9, <1>10, <2>1, ReleaseMoves DEF p, q
<1>12. /\ SumFunction(claimable') = SumFunction(claimable) + n
       /\ \A b \in Accounts : claimable'[b] >= 0
  <2>1. n \in Int /\ n >= 0 OBVIOUS
  <2> QED BY <1>3, <1>7, <2>1, CreditMoves
<1>13. ClaimSum' BY <1>3, <1>10, <1>12 DEF ClaimSum
<1>14. BondMoves /\ LockMoves /\ FeeMoves /\ JurorSum' /\ Unlisted' BY <1>4, <1>10, Unmoved
<1>15. Covered'
  <2>1. bucket'.treasury >= 0 BY <1>3, <1>10 DEF Buckets
  <2> QED BY <1>4, <1>10, <1>11, <1>12, <2>1 DEF Covered, MoneyInv
<1> QED BY <1>11, <1>13, <1>14, <1>15, SumsFollow

---------------------------------------------------------------------------
(* Calls about one dispute *)

\* One dispute moves bonds and its jurors' locks.
LEMMA OneCase ==
  ASSUME NEW d \in DisputeId, OnlyDispute(d)
  PROVE  /\ bucket'.bonds = bucket.bonds + bondIn(disputes'[d]) - bondIn(disputes[d]) => BondMoves
         /\ (\A c \in DisputeId : c # d => seats'[c] = seats[c]) /\
            (\A a \in Accounts : jurors'[a].locked = jurors[a].locked
               + stakeIn(disputes'[d], seats'[d], a) - stakeIn(disputes[d], seats[d], a))
              => LockMoves
<1>1. /\ \A c \in DisputeId \ {d} : bonded'[c] = bonded[c]
      /\ bonded[d] = bondIn(disputes[d]) /\ bonded'[d] = bondIn(disputes'[d])
  BY Entries, EntriesNext DEF OnlyDispute
<1>2. bucket'.bonds = bucket.bonds + bondIn(disputes'[d]) - bondIn(disputes[d]) => BondMoves
  BY <1>1 DEF BondMoves, OneMoves
<1>3. ASSUME \A c \in DisputeId : c # d => seats'[c] = seats[c],
             NEW a \in Accounts, jurors'[a].locked = jurors[a].locked
               + stakeIn(disputes'[d], seats'[d], a) - stakeIn(disputes[d], seats[d], a)
      PROVE  OneMoves(DisputeId, lockedFor(a), lockedFor(a)', jurors[a].locked, jurors'[a].locked)
  <2>1. /\ \A c \in DisputeId \ {d} : lockedFor(a)'[c] = lockedFor(a)[c]
        /\ lockedFor(a)[d] = stakeIn(disputes[d], seats[d], a)
        /\ lockedFor(a)'[d] = stakeIn(disputes'[d], seats'[d], a)
    BY <1>3, Entries, EntriesNext DEF OnlyDispute
  <2> QED BY <1>3, <2>1 DEF OneMoves
<1> QED BY <1>2, <1>3 DEF LockMoves

\* Opening a dispute takes its bond; no panel sits yet.
LEMMA OpenMoney ==
  ASSUME Linked, CaseInv, MoneyInv, Linked', CaseInv', NEW i \in PurchaseId, NEW g \in Grounds,
         NEW m \in SUBSET (1..purchases[i].terms.taskCount), openDispute(i, g, m),
         NEW d, d = nextDisputeId
  PROVE  MoneyInv'
<1> DEFINE p == purchases[i]
           q == purchases'[i]
           dd == disputes[d]
           e == disputes'[d]
           bond == bondFor(p, m)
<1>1. /\ d \in DisputeId /\ OnlyPurchase(i) /\ OnlyDispute(d) /\ DisputeStep(p, q)
      /\ e.bond = bond /\ e.ground = g /\ seats' = seats /\ jurors' = jurors /\ stakes' = stakes
      /\ IF g = "FalseDescription" THEN e.status = "AwaitingSelection" ELSE e.status = "Voting"
  BY OpenMoves
<1>2. dd = NoDispute
  <2>1. d \in Nat BY <1>1 DEF DisputeId
  <2>2. d >= nextDisputeId BY <2>1
  <2> QED BY <1>1, <2>2 DEF CaseInv, Links
<1>3. bucket \in Buckets /\ p \in Purchase
  BY DEF Linked, TypeFunds, PurchaseInv, TypePurchases
<1>4. UNCHANGED <<claimable, versions, previews, nextVersionId>>
      /\ bucket' = [bucket EXCEPT !.bonds = @ + bond]
  BY DEF openDispute, catalog
<1>5. bond \in Int
  <2>1. p.state # "None" /\ WellMade(p) BY OpenPurchase DEF openDispute
  <2> QED BY <1>3, <2>1, BondInt
<1>6. bondIn(dd) = 0 /\ bondIn(e) = bond BY <1>1, <1>2 DEF bondIn, OpenCase, NoDispute
<1>7. \A a : stakeIn(dd, seats[d], a) = 0 /\ stakeIn(e, seats'[d], a) = 0
  BY <1>1, <1>2 DEF stakeIn, Sits, NoDispute
<1>8. \A a \in Accounts : jurors[a].locked \in Int /\ stakes[a].reserved \in Int /\ shareIn(p, a) \in Int
  BY <1>3 DEF Linked, TypeFunds, JurorInfo, Stake, Purchase, Terms, shareIn
<1>9. priceIn(q) = priceIn(p) /\ priceIn(p) \in Int /\ \A a : shareIn(q, a) = shareIn(p, a)
  BY <1>1, <1>3 DEF DisputeStep, Kept, OpenSale, priceIn, shareIn, Purchase, Terms
<1> HIDE DEF p, q, dd, e, bond
<1>10. /\ bucket'.escrow = bucket.escrow + priceIn(q) - priceIn(p)
       /\ bucket'.bonds = bucket.bonds + bondIn(e) - bondIn(dd)
       /\ bucket'.collateral = bucket.collateral /\ bucket'.jurorStake = bucket.jurorStake
       /\ bucket'.claimable = bucket.claimable /\ bucket'.previewFees = bucket.previewFees
       /\ bucket'.treasury = bucket.treasury /\ bucket'.reserve = bucket.reserve
  BY <1>3, <1>4, <1>5, <1>6, <1>9 DEF Buckets
<1>11. ASSUME NEW a \in Accounts
       PROVE  /\ stakes'[a].reserved = stakes[a].reserved + shareIn(q, a) - shareIn(p, a)
              /\ jurors'[a].locked = jurors[a].locked + stakeIn(e, seats'[d], a) - stakeIn(dd, seats[d], a)
  BY <1>1, <1>7, <1>8, <1>9
<1>12. EscrowMoves /\ ReserveMoves BY <1>1, <1>10, <1>11, OneSale DEF p, q
<1>13. BondMoves /\ LockMoves BY <1>1, <1>10, <1>11, OneCase DEF dd, e
<1>14. FeeMoves /\ StakeMoves /\ JurorSum' /\ ClaimSum' /\ Unlisted' BY <1>1, <1>4, <1>10, Unmoved
<1>15. Covered' BY <1>1, <1>4, <1>10 DEF Covered, MoneyInv
<1> QED BY <1>12, <1>13, <1>14, <1>15, SumsFollow

\* A resolution can be paid: the refund out of the price, the seller's charge out of its
\* collateral, and nobody is paid a negative amount.
Affordable(out, p) ==
  /\ out.refund \in 0..p.terms.price
  /\ out.fromSeller <= p.terms.collateral
  /\ out.toBuyer >= 0 /\ out.toReserve >= 0 /\ out.caseFee >= 0

\* All three outcomes can.
LEMMA OutcomesAffordable ==
  ASSUME NEW p \in Purchase, WellMade(p), p.state # "None", p.refunded = 0, NEW dd \in Dispute,
         dd.bond >= 0, NEW mask \in SUBSET (1..p.terms.taskCount)
  PROVE  /\ Affordable(upholdOutcome(p, dd, mask), p)
         /\ Affordable(rejectOutcome(dd), p) /\ Affordable(fallbackOutcome(dd), p)
<1> DEFINE up == upholdOutcome(p, dd, mask)
           re == rejectOutcome(dd)
           fb == fallbackOutcome(dd)
           fee == upheldCaseFee(p)
           pen == upheldPenalty(p, mask)
           ref == upheldRefund(p, mask)
<1>1. /\ p.terms.price \in Nat /\ p.terms.collateral \in Nat /\ p.par.caseFee \in Nat
      /\ p.par.penaltyBps \in Nat /\ dd.bond \in Nat /\ dd.caseFee \in Nat
  BY PurchaseNat DEF Dispute
<1>2. up.refund \in 0..p.terms.price /\ re.refund \in 0..p.terms.price /\ fb.refund \in 0..p.terms.price
  <2>1. up.refund \in 0..refundCap(p) /\ re.refund \in 0..refundCap(p) /\ fb.refund \in 0..refundCap(p)
    BY RefundBounded
  <2>2. refundCap(p) \in 0..p.terms.price BY RefundCapBounded
  <2> HIDE DEF up, re, fb
  <2> QED BY <1>1, <2>1, <2>2
<1>3. fee \in 0..p.terms.collateral BY <1>1 DEF upheldCaseFee, Least
<1>4. PerBps(p.terms.price, p.par.penaltyBps) \in Nat
  <2>1. p.par.penaltyBps <= BPS BY DEF WellMade, ValidParams
  <2>2. PerBps(p.terms.price, p.par.penaltyBps) \in 0..p.terms.price BY <1>1, <2>1, PerBpsBounded
  <2> QED BY <1>1, <2>2
<1>5. pen \in 0..p.terms.collateral - fee
  BY <1>1, <1>3, <1>4 DEF upheldPenalty, Least
<1>6. /\ up.refund = ref /\ up.fromSeller = fee + pen /\ up.toBuyer = ref + dd.bond
      /\ up.toReserve = pen /\ up.caseFee = fee
  BY DEF upholdOutcome
<1> DEFINE k == Least(dd.caseFee, dd.bond)
<1>7. k \in 0..dd.bond BY <1>1 DEF Least
<1>8. /\ re.fromSeller = 0 /\ re.toBuyer = 0 /\ re.toReserve = dd.bond - k /\ re.caseFee = k
      /\ fb.fromSeller = 0 /\ fb.toBuyer = dd.bond /\ fb.toReserve = 0 /\ fb.caseFee = 0
  BY DEF rejectOutcome, fallbackOutcome
<1> HIDE DEF up, re, fb, fee, pen, ref, k
<1>9. Affordable(up, p)
  <2>1. ref \in Nat BY <1>1, <1>2, <1>6
  <2> QED BY <1>1, <1>2, <1>3, <1>5, <1>6, <2>1 DEF Affordable
<1>10. Affordable(re, p) BY <1>1, <1>2, <1>7, <1>8 DEF Affordable
<1>11. Affordable(fb, p) BY <1>1, <1>2, <1>8 DEF Affordable
<1> QED BY <1>9, <1>10, <1>11 DEF up, re, fb

\* What a resolution takes from each bucket and gives to it.
LEMMA ResolveBucket ==
  ASSUME Linked, NEW d \in DisputeId, disputes[d].status # "None",
         NEW out \in Outcome, NEW extra \in Extra, resolve(d, out, extra)
  PROVE  LET dd == disputes[d]
             p  == purchases[dd.purchase]
         IN /\ bucket'.escrow = bucket.escrow - p.terms.price
            /\ bucket'.bonds = bucket.bonds - dd.bond
            /\ bucket'.collateral = bucket.collateral - out.fromSeller
            /\ bucket'.jurorStake = bucket.jurorStake - extra.jurorStake
            /\ bucket'.treasury = bucket.treasury + closeFee(p, out.refund) + extra.treasury
            /\ bucket'.reserve = bucket.reserve + out.toReserve + extra.reserve
            /\ bucket'.claimable = bucket.claimable + closeProceeds(p, out.refund) + out.toBuyer
                                   + extra.claimable
            /\ bucket'.previewFees = bucket.previewFees
<1> DEFINE dd == disputes[d]
           p  == purchases[dd.purchase]
           fee == closeFee(p, out.refund)
           proceeds == closeProceeds(p, out.refund)
<1>1. bucket' = [bucket EXCEPT
       !.escrow = @ - p.terms.price,
       !.bonds = @ - dd.bond,
       !.collateral = @ - out.fromSeller,
       !.jurorStake = @ - extra.jurorStake,
       !.treasury = @ + fee + extra.treasury,
       !.reserve = @ + out.toReserve + extra.reserve,
       !.claimable = @ + proceeds + out.toBuyer + extra.claimable]
  BY DEF resolve
<1>2. bucket \in Buckets BY DEF Linked, TypeFunds
<1> HIDE DEF dd, p, fee, proceeds
<1>3. /\ bucket'.escrow = bucket.escrow - p.terms.price
      /\ bucket'.bonds = bucket.bonds - dd.bond
      /\ bucket'.collateral = bucket.collateral - out.fromSeller
      /\ bucket'.jurorStake = bucket.jurorStake - extra.jurorStake
      /\ bucket'.treasury = bucket.treasury + fee + extra.treasury
      /\ bucket'.reserve = bucket.reserve + out.toReserve + extra.reserve
      /\ bucket'.claimable = bucket.claimable + proceeds + out.toBuyer + extra.claimable
      /\ bucket'.previewFees = bucket.previewFees
  BY <1>1, <1>2 DEF Buckets
<1> QED BY <1>3 DEF dd, p, fee, proceeds

\* A resolution pays seller, buyer and jurors what it says, out of funds that are there.
LEMMA ResolvePays ==
  ASSUME Linked, MoneyInv, NEW d \in DisputeId, disputes[d].status # "None",
         NEW out \in Outcome, NEW extra \in Extra, resolve(d, out, extra),
         Affordable(out, purchases[disputes[d].purchase]),
         extra.treasury >= 0, extra.reserve >= 0,
         extra.claimable = SumFunction(extra.pay), \A a \in Accounts : extra.pay[a] >= 0
  PROVE  /\ ClaimSum' /\ \A a \in Accounts : claimable'[a] >= 0
         /\ bucket'.treasury >= 0 /\ bucket'.reserve >= 0
<1> DEFINE dd == disputes[d]
           p  == purchases[dd.purchase]
           fee == closeFee(p, out.refund)
           proceeds == closeProceeds(p, out.refund)
           paid == credit(claimable, p.seller, proceeds)
           made == credit(paid, p.buyer, out.toBuyer)
<1>1. p \in Purchase /\ WellMade(p) /\ p.state # "None" BY DisputedPurchase
<1>2. p.buyer \in Accounts /\ p.seller \in Accounts BY <1>1, PurchaseNat
<1>3. /\ out.toBuyer \in Int /\ out.toReserve \in Int /\ out.toBuyer >= 0 /\ out.toReserve >= 0
      /\ extra.treasury \in Int /\ extra.reserve \in Int /\ extra.pay \in [Accounts -> Int]
  BY DEF Outcome, Extra, Affordable
<1>4. fee \in Int /\ proceeds \in Int /\ fee >= 0 /\ proceeds >= 0
  <2>1. out.refund \in Int /\ out.refund \in 0..p.terms.price BY DEF Outcome, Affordable
  <2> HIDE DEF p
  <2> QED BY <1>1, <2>1, CloseInt, CloseBounded
<1>5. /\ bucket \in Buckets /\ claimable \in [Accounts -> Int]
      /\ bucket.claimable = SumFunction(claimable) /\ bucket.treasury >= 0 /\ bucket.reserve >= 0
      /\ \A a \in Accounts : claimable[a] >= 0
  BY DEF Linked, TypeFunds, MoneyInv, BucketsAccounted, Covered
<1>6. /\ bucket'.treasury = bucket.treasury + fee + extra.treasury
      /\ bucket'.reserve = bucket.reserve + out.toReserve + extra.reserve
      /\ bucket'.claimable = bucket.claimable + proceeds + out.toBuyer + extra.claimable
  BY ResolveBucket
<1>7. claimable' = [a \in Accounts |-> made[a] + extra.pay[a]] BY DEF resolve
<1> HIDE DEF p, fee, proceeds
<1>8. /\ paid \in [Accounts -> Int] /\ SumFunction(paid) = SumFunction(claimable) + proceeds
      /\ \A a \in Accounts : paid[a] >= 0
  BY <1>2, <1>4, <1>5, CreditMoves
<1> HIDE DEF paid
<1>9. /\ made \in [Accounts -> Int] /\ SumFunction(made) = SumFunction(paid) + out.toBuyer
      /\ \A a \in Accounts : made[a] >= 0
  BY <1>2, <1>3, <1>8, CreditMoves
<1> HIDE DEF made
<1>10. /\ claimable' \in [Accounts -> Int]
       /\ \A a \in Accounts : claimable'[a] = made[a] + extra.pay[a] /\ claimable'[a] >= 0
  <2>1. \A a \in Accounts : made[a] \in Int /\ extra.pay[a] \in Int /\ made[a] >= 0 /\ extra.pay[a] >= 0
    BY <1>3, <1>9
  <2> QED BY <1>7, <2>1
<1>11. SumFunction(claimable') = SumFunction(made) + SumFunction(extra.pay)
  BY <1>3, <1>9, <1>10, SumPlus, IdsFinite
<1>12. /\ SumFunction(claimable) \in Int /\ SumFunction(made) \in Int /\ SumFunction(paid) \in Int
       /\ SumFunction(extra.pay) \in Int
  BY <1>3, <1>5, <1>8, <1>9, SumTyped, IdsFinite
<1>13. ClaimSum' BY <1>3, <1>4, <1>5, <1>6, <1>8, <1>9, <1>11, <1>12 DEF ClaimSum
<1>14. bucket'.treasury >= 0 /\ bucket'.reserve >= 0 BY <1>3, <1>4, <1>5, <1>6 DEF Buckets
<1> QED BY <1>10, <1>13, <1>14

\* A resolution closes its dispute and its purchase; what is left to show is what it does
\* to the jurors.
LEMMA ResolveMoney ==
  ASSUME Linked, CaseInv, MoneyInv, Linked', CaseInv', NEW d \in DisputeId, OpenDispute(d),
         NEW out \in Outcome, NEW extra \in Extra, resolve(d, out, extra),
         Affordable(out, purchases[disputes[d].purchase]),
         extra.treasury >= 0, extra.reserve >= 0,
         extra.claimable = SumFunction(extra.pay), \A a \in Accounts : extra.pay[a] >= 0,
         LockMoves, JurorSum', \A a \in Accounts : jurors'[a].locked <= jurors'[a].total
  PROVE  MoneyInv'
<1> DEFINE dd == disputes[d]
           e == disputes'[d]
           i == dd.purchase
           p == purchases[i]
           q == purchases'[i]
           r == [stakes[p.seller] EXCEPT !.reserved = @ - p.terms.collateral]
           u == [r EXCEPT !.total = @ - out.fromSeller]
<1>1. dd.status # "None" /\ i \in PurchaseId /\ p.state = "Disputed"
  BY OpenDisputed DEF CaseInv
<1>2. /\ OnlyPurchase(i) /\ OnlyDispute(d) /\ q.state = "Settled"
      /\ e.bond = dd.bond /\ e.status = "Resolved"
  BY <1>1, ResolveMoves DEF Closes, SameCase
<1>3. OpenSale(p) /\ ~OpenSale(q) BY <1>1, <1>2 DEF OpenSale
<1>4. p \in Purchase /\ WellMade(p) /\ p.state # "None" /\ dd \in Dispute
  BY <1>1, DisputedPurchase
<1>5. /\ p.terms.price \in Nat /\ p.terms.collateral \in Nat /\ p.seller \in Accounts
      /\ out.fromSeller \in Int /\ dd.bond \in Int /\ out.fromSeller <= p.terms.collateral
  BY <1>4, PurchaseNat DEF Outcome, Dispute, Affordable
<1>6. /\ stakes \in [Accounts -> Stake] /\ bucket \in Buckets BY DEF Linked, TypeFunds
<1>7. /\ bucket'.escrow = bucket.escrow - p.terms.price
      /\ bucket'.bonds = bucket.bonds - dd.bond
      /\ bucket'.collateral = bucket.collateral - out.fromSeller
      /\ bucket'.previewFees = bucket.previewFees
  BY <1>1, ResolveBucket
<1>8. UNCHANGED <<versions, previews, nextVersionId>> BY DEF resolve, catalog
<1>9. stakes' = [releaseCollateral(p) EXCEPT ![p.seller].total = @ - out.fromSeller] BY DEF resolve
<1>10. Releases(p, out.fromSeller)
  <2>1. /\ r \in Stake /\ r.reserved = stakes[p.seller].reserved - p.terms.collateral
        /\ r.total = stakes[p.seller].total
    BY <1>5, <1>6 DEF Stake
  <2>2. releaseCollateral(p) = [stakes EXCEPT ![p.seller] = r] BY DEF releaseCollateral
  <2> HIDE DEF r
  <2>3. /\ u.reserved = r.reserved /\ u.total = r.total - out.fromSeller BY <2>1 DEF Stake
  <2> DEFINE s == p.seller
             R == releaseCollateral(p)
             w == [R[s] EXCEPT !.total = @ - out.fromSeller]
  <2>4. R[s] = r /\ (\A a \in Accounts \ {s} : R[a] = stakes[a]) /\ DOMAIN R = Accounts
    BY <1>5, <1>6, <2>2
  <2>6. stakes' = [R EXCEPT ![s] = w] BY <1>9
  <2>7. w = u BY <2>4
  <2> HIDE DEF R, w, u
  <2>5. stakes'[s] = u /\ \A a \in Accounts \ {s} : stakes'[a] = stakes[a]
    BY <1>5, <2>4, <2>6, <2>7
  <2> QED BY <2>1, <2>3, <2>5 DEF Releases
<1>11. bondIn(e) = 0 /\ bondIn(dd) = dd.bond BY <1>2 DEF bondIn, OpenCase, OpenDispute
<1> HIDE DEF p, q, r, u, dd, e, i
<1>12. /\ EscrowMoves /\ ReserveMoves /\ StakeMoves
       /\ \A b \in Accounts : stakes'[b].reserved <= stakes'[b].total
  BY <1>1, <1>2, <1>3, <1>5, <1>7, <1>10, ReleaseMoves DEF p, q
<1>13. BondMoves
  <2>1. bucket'.bonds = bucket.bonds + bondIn(e) - bondIn(dd) BY <1>5, <1>6, <1>7, <1>11 DEF Buckets
  <2> QED BY <1>2, <2>1, OneCase DEF dd, e
<1>14. FeeMoves /\ Unlisted' BY <1>7, <1>8, Unmoved
<1>15. /\ ClaimSum' /\ \A a \in Accounts : claimable'[a] >= 0
       /\ bucket'.treasury >= 0 /\ bucket'.reserve >= 0
  <2>1. dd.status # "None" BY <1>1
  <2> QED BY <2>1, ResolvePays DEF dd
<1>16. Covered' BY <1>12, <1>15 DEF Covered
<1> QED BY <1>12, <1>13, <1>14, <1>15, <1>16, SumsFollow

\* Without a panel: nobody of the jury is paid, locked or slashed.
LEMMA PlainPay == NoPay \in [Accounts -> Int] /\ SumFunction(NoPay) = 0 /\ \A a \in Accounts : NoPay[a] = 0
<1>1. NoPay \in [Accounts -> Int] /\ \A a \in Accounts : NoPay[a] = IF a \in {} THEN 0 ELSE 0
  BY DEF NoPay
<1>2. {} \in SUBSET Accounts /\ 0 \in Int OBVIOUS
<1>3. SumFunction(NoPay) = Cardinality({}) * 0 BY <1>1, <1>2, SumSame, IdsFinite
<1> QED BY <1>1, <1>3, FS_EmptySet

\* A settlement that touches no juror, of a dispute no panel is voting on.
LEMMA PlainMoney ==
  ASSUME Linked, CaseInv, MoneyInv, Linked', CaseInv', NEW d \in DisputeId, OpenDispute(d),
         ~Jury(d, "Voting"), NEW out \in Outcome,
         Affordable(out, purchases[disputes[d].purchase]),
         NEW extra \in Extra, resolve(d, out, extra), UNCHANGED <<seats, jurors>>,
         extra.treasury >= 0, extra.reserve = 0, extra.jurorStake = 0, extra.claimable = 0,
         extra.pay = NoPay
  PROVE  MoneyInv'
<1>1. extra.claimable = SumFunction(extra.pay) /\ \A a \in Accounts : extra.pay[a] >= 0
  BY PlainPay
<1>2. disputes[d].status # "None" BY OpenDisputed DEF CaseInv
<1>3. OnlyDispute(d) /\ disputes'[d].status = "Resolved" BY <1>2, ResolveMoves
<1>4. /\ jurors \in [Accounts -> JurorInfo] /\ bucket \in Buckets BY DEF Linked, TypeFunds
<1>5. LockMoves
  <2>1. \A a : stakeIn(disputes'[d], seats'[d], a) = 0 /\ stakeIn(disputes[d], seats[d], a) = 0
    BY <1>3 DEF stakeIn, Sits, Jury
  <2>2. \A a \in Accounts : jurors'[a].locked = jurors[a].locked
          + stakeIn(disputes'[d], seats'[d], a) - stakeIn(disputes[d], seats[d], a)
    BY <1>4, <2>1 DEF JurorInfo
  <2> QED BY <1>3, <2>2, OneCase
<1>6. JurorSum'
  <2>1. bucket'.jurorStake = bucket.jurorStake - extra.jurorStake BY <1>2, ResolveBucket
  <2>2. bucket'.jurorStake = bucket.jurorStake BY <1>4, <2>1 DEF Buckets
  <2> QED BY <2>2, Unmoved
<1>7. \A a \in Accounts : jurors'[a].locked <= jurors'[a].total BY DEF MoneyInv, Covered
<1>8. extra.reserve >= 0 OBVIOUS
<1> QED BY <1>1, <1>5, <1>6, <1>7, <1>8, ResolveMoney

\* The verifier's finding, or its silence.
LEMMA MechanicalMoney ==
  ASSUME Linked, CaseInv, MoneyInv, Linked', CaseInv', NEW d \in DisputeId, NEW u \in BOOLEAN,
         NEW m \in SUBSET disputes[d].taskMask, NEW s,
         resolveMechanical(d, u, m, s) \/ timeoutMechanical(d)
  PROVE  MoneyInv'
<1> DEFINE dd == disputes[d]
           p  == purchases[dd.purchase]
<1>1. OpenDispute(d) /\ dd.status # "None" /\ ~Jury(d, "Voting")
  BY DEF resolveMechanical, timeoutMechanical, OpenDispute, Jury, Mechanical
<1>2. /\ dd \in Dispute /\ p \in Purchase /\ WellMade(p) /\ p.state # "None"
      /\ dd.taskMask \in SUBSET (1..p.terms.taskCount) /\ p.refunded = 0 /\ dd.bond >= 0
  BY <1>1, DisputedPurchase, OpenDisputed DEF CaseInv, Links, CaseSound
<1>3. m \in SUBSET (1..p.terms.taskCount) BY <1>2
<1>4. CASE resolveMechanical(d, u, m, s)
  <2> DEFINE out == IF u THEN upholdOutcome(p, dd, m) ELSE rejectOutcome(dd)
             extra == [NoExtra EXCEPT !.treasury = out.caseFee]
  <2>1. out \in Outcome /\ Affordable(out, p)
    BY <1>2, <1>3, UpholdTyped, RejectTyped, OutcomesAffordable
  <2>2. resolve(d, out, extra) /\ UNCHANGED <<seats, jurors>> BY <1>4 DEF resolveMechanical
  <2> HIDE DEF out
  <2>3. out.caseFee \in Int /\ out.caseFee >= 0 BY <2>1 DEF Outcome, Affordable
  <2>4. extra \in Extra BY <2>3, NoExtraTyped
  <2>5. /\ extra.treasury >= 0 /\ extra.reserve = 0 /\ extra.jurorStake = 0 /\ extra.claimable = 0
        /\ extra.pay = NoPay
    BY <2>3 DEF NoExtra
  <2> HIDE DEF extra
  <2> QED BY <1>1, <2>1, <2>2, <2>4, <2>5, PlainMoney
<1>5. CASE timeoutMechanical(d)
  <2> DEFINE out == fallbackOutcome(dd)
  <2>1. out \in Outcome /\ Affordable(out, p) BY <1>2, <1>3, RejectTyped, OutcomesAffordable
  <2>2. resolve(d, out, NoExtra) /\ UNCHANGED <<seats, jurors>> BY <1>5 DEF timeoutMechanical
  <2> HIDE DEF out
  <2>3. /\ NoExtra.treasury >= 0 /\ NoExtra.reserve = 0 /\ NoExtra.jurorStake = 0
        /\ NoExtra.claimable = 0 /\ NoExtra.pay = NoPay
    BY DEF NoExtra
  <2> QED BY <1>1, <2>1, <2>2, <2>3, NoExtraTyped, PlainMoney
<1> QED BY <1>4, <1>5

\* A call about a dispute that leaves it open moves no money of a purchase.
LEMMA PanelMoney ==
  ASSUME Linked, CaseInv, MoneyInv, Linked', CaseInv', NEW d \in DisputeId,
         OnlyDispute(d), bondIn(disputes'[d]) = bondIn(disputes[d]),
         UNCHANGED <<purchases, stakes, claimable, versions, previews, nextVersionId>>,
         bucket'.escrow = bucket.escrow, bucket'.bonds = bucket.bonds,
         bucket'.collateral = bucket.collateral, bucket'.claimable = bucket.claimable,
         bucket'.previewFees = bucket.previewFees, bucket'.treasury >= 0, bucket'.reserve >= 0,
         LockMoves, JurorSum', \A a \in Accounts : jurors'[a].locked <= jurors'[a].total
  PROVE  MoneyInv'
<1>1. EscrowMoves /\ ReserveMoves /\ FeeMoves /\ StakeMoves /\ ClaimSum' /\ Unlisted' BY Unmoved
<1>2. BondMoves
  <2>1. Amounted BY EntriesTyped
  <2>2. bonded[d] \in Nat /\ bucket.bonds \in Int BY <2>1 DEF Amounted, Buckets
  <2>3. bonded[d] = bondIn(disputes[d]) BY Entries
  <2>4. bucket'.bonds = bucket.bonds + bondIn(disputes'[d]) - bondIn(disputes[d])
    BY <2>2, <2>3
  <2> QED BY <2>4, OneCase
<1>3. Covered' BY DEF Covered, MoneyInv
<1> QED BY <1>1, <1>2, <1>3, SumsFollow

\* No juror is locked by a dispute awaiting its draw.
LEMMA IdlePanel ==
  ASSUME Linked, CaseInv, MoneyInv, Linked', CaseInv', NEW d \in DisputeId,
         disputes[d].status = "AwaitingSelection",
         OnlyDispute(d), SameCase(disputes[d], disputes'[d]),
         disputes'[d].status = "AwaitingSelection",
         UNCHANGED <<purchases, stakes, claimable, versions, previews, nextVersionId>>,
         UNCHANGED <<seats, jurors, bucket>>
  PROVE  MoneyInv'
<1>1. bondIn(disputes'[d]) = bondIn(disputes[d]) BY DEF bondIn, OpenCase, SameCase
<1>2. jurors \in [Accounts -> JurorInfo] BY DEF Linked, TypeFunds
<1>3. LockMoves
  <2>1. \A a : stakeIn(disputes'[d], seats'[d], a) = 0 /\ stakeIn(disputes[d], seats[d], a) = 0
    BY DEF stakeIn, Sits
  <2>2. \A a \in Accounts : jurors'[a].locked = jurors[a].locked
          + stakeIn(disputes'[d], seats'[d], a) - stakeIn(disputes[d], seats[d], a)
    BY <1>2, <2>1 DEF JurorInfo
  <2> QED BY <2>2, OneCase
<1>4. JurorSum' BY Unmoved
<1>5. /\ \A a \in Accounts : jurors'[a].locked <= jurors'[a].total
      /\ bucket'.treasury >= 0 /\ bucket'.reserve >= 0
  BY DEF MoneyInv, Covered
<1> QED BY <1>1, <1>3, <1>4, <1>5, PanelMoney

\* The draw locks the stake of jurors who have it free.
LEMMA DrawMoney ==
  ASSUME Linked, CaseInv, MoneyInv, Linked', CaseInv', NEW d \in DisputeId,
         Jury(d, "AwaitingSelection"), NEW chosen, seatPanel(d, chosen)
  PROVE  MoneyInv'
<1> DEFINE dd == disputes[d]
           e == disputes'[d]
           r == dd.round
           stake == dd.par.jurorStake
<1>1. /\ OnlyDispute(d) /\ SameCase(dd, e) /\ e.status = "Voting" /\ e.round = r
      /\ OnlyPanel(d, r) /\ DOMAIN seats'[d][r] = chosen
  BY DrawMoves
<1>2. /\ UNCHANGED <<purchases, stakes, claimable, versions, previews, nextVersionId, bucket>>
      /\ chosen \subseteq eligible(d)
      /\ jurors' = [a \in Accounts |->
           IF a \in chosen THEN [jurors[a] EXCEPT !.locked = @ + stake] ELSE jurors[a]]
  BY DEF seatPanel, catalog, seatStake
<1>3. /\ jurors \in [Accounts -> JurorInfo] /\ stake \in Nat
      /\ \A a \in Accounts : jurors[a].locked <= jurors[a].total
  BY DisputedPurchase, ParamsNat DEF Linked, TypeFunds, MoneyInv, Covered, Jury
<1>4. \A a \in chosen : a \in Accounts /\ jurors[a].total - jurors[a].locked >= stake
  BY <1>2 DEF eligible, jurorList, seatStake
<1>5. \A a : /\ stakeIn(dd, seats[d], a) = 0
             /\ stakeIn(e, seats'[d], a) = IF a \in chosen THEN stake ELSE 0
  BY <1>1 DEF stakeIn, Sits, Jury, SameCase
<1>6. bondIn(e) = bondIn(dd) BY <1>1 DEF bondIn, OpenCase, SameCase, Jury
<1> HIDE DEF dd, e, r, stake
<1>7. ASSUME NEW a \in Accounts
      PROVE  /\ jurors'[a].locked = jurors[a].locked + stakeIn(e, seats'[d], a) - stakeIn(dd, seats[d], a)
             /\ jurors'[a].locked <= jurors'[a].total /\ jurors'[a].total = jurors[a].total
  <2>1. jurors[a].locked \in Int /\ jurors[a].total \in Int BY <1>3 DEF JurorInfo
  <2>2. CASE a \in chosen
    <3> DEFINE new == [jurors[a] EXCEPT !.locked = @ + stake]
    <3>1. jurors'[a] = new BY <1>2, <2>2
    <3>2. new.locked = jurors[a].locked + stake /\ new.total = jurors[a].total
      BY <1>3 DEF JurorInfo
    <3> HIDE DEF new
    <3>3. stakeIn(dd, seats[d], a) = 0 /\ stakeIn(e, seats'[d], a) = stake BY <1>5, <2>2
    <3> QED BY <1>3, <1>4, <2>1, <2>2, <3>1, <3>2, <3>3
  <2>3. CASE a \notin chosen
    <3>1. jurors'[a] = jurors[a] BY <1>2, <2>3
    <3>2. stakeIn(dd, seats[d], a) = 0 /\ stakeIn(e, seats'[d], a) = 0 BY <1>5, <2>3
    <3> QED BY <1>3, <2>1, <3>1, <3>2
  <2> QED BY <2>2, <2>3
<1>8. LockMoves BY <1>1, <1>7, OneCase DEF OnlyPanel, dd, e
<1>9. JurorSum' BY <1>2, <1>7, Unmoved
<1>10. bucket'.treasury >= 0 /\ bucket'.reserve >= 0 BY <1>2 DEF MoneyInv, Covered
<1> QED BY <1>1, <1>2, <1>6, <1>7, <1>8, <1>9, <1>10, PanelMoney DEF dd, e

\* Choosing a panel, or giving up on it.
LEMMA SelectMoney ==
  ASSUME Linked, CaseInv, MoneyInv, Linked', CaseInv', NEW d \in DisputeId, selectJurors(d)
  PROVE  MoneyInv'
<1> DEFINE dd == disputes[d]
           p  == purchases[dd.purchase]
<1>1. /\ Jury(d, "AwaitingSelection") /\ dd.status = "AwaitingSelection" /\ OpenDispute(d)
      /\ ~Jury(d, "Voting") /\ dd.status # "None"
  BY DEF selectJurors, SelectionOpen, Jury, OpenDispute
<1>2. CASE rearmSelection(d)
  <2>1. UNCHANGED <<purchases, stakes, claimable, versions, previews, nextVersionId, seats, jurors, bucket>>
    BY <1>2 DEF rearmSelection, catalog
  <2>2. OnlyDispute(d) /\ SameCase(dd, disputes'[d]) /\ disputes'[d].status = dd.status
    BY <1>1, <1>2, RearmMoves
  <2> QED BY <1>1, <2>1, <2>2, IdlePanel
<1>3. ASSUME NEW c, seatPanel(d, c) PROVE MoneyInv' BY <1>1, <1>3, DrawMoney
<1>4. CASE panelUnfillable(d)
  <2>1. CASE dd.round = 1
    <3>1. /\ disputes' = [disputes EXCEPT ![d] = secondRound(@)]
          /\ UNCHANGED <<purchases, stakes, claimable, versions, previews, nextVersionId, seats, jurors, bucket>>
      BY <1>4, <2>1 DEF panelUnfillable, catalog
    <3>2. OnlyDispute(d) /\ SameCase(dd, disputes'[d]) /\ disputes'[d].status = "AwaitingSelection"
      BY <1>1, <3>1, AdvanceMoves
    <3> QED BY <1>1, <3>1, <3>2, IdlePanel
  <2>2. CASE dd.round # 1
    <3> DEFINE out == fallbackOutcome(dd)
    <3>1. resolve(d, out, NoExtra) /\ UNCHANGED <<seats, jurors>>
      BY <1>4, <2>2 DEF panelUnfillable
    <3>2. /\ dd \in Dispute /\ p \in Purchase /\ WellMade(p) /\ p.state # "None"
          /\ p.refunded = 0 /\ dd.bond >= 0
      BY <1>1, DisputedPurchase, OpenDisputed DEF CaseInv, Links, CaseSound
    <3>3. out \in Outcome /\ Affordable(out, p)
      BY <3>2, {} \in SUBSET (1..p.terms.taskCount), RejectTyped, OutcomesAffordable
    <3> HIDE DEF out
    <3>4. /\ NoExtra.treasury >= 0 /\ NoExtra.reserve = 0 /\ NoExtra.jurorStake = 0
          /\ NoExtra.claimable = 0 /\ NoExtra.pay = NoPay
      BY DEF NoExtra
    <3> QED BY <1>1, <3>1, <3>3, <3>4, NoExtraTyped, PlainMoney
  <2> QED BY <2>1, <2>2
<1> QED BY <1>2, <1>3, <1>4 DEF selectJurors

\* A commitment or a reveal moves no money.
LEMMA VoteMoney ==
  ASSUME Linked, CaseInv, MoneyInv, Linked', CaseInv', NEW d \in DisputeId, NEW a,
         NEW v \in {"Uphold", "Reject"}, commitVote(d, a, v) \/ revealVote(d, a)
  PROVE  MoneyInv'
<1> DEFINE r == disputes[d].round
<1>1. /\ OnlyPanel(d, r) /\ DOMAIN seats'[d][r] = DOMAIN seats[d][r] BY VoteMoves
<1>2. UNCHANGED <<disputes, purchases, stakes, jurors, claimable, versions, previews, nextVersionId, bucket>>
  BY DEF commitVote, revealVote, catalog
<1>3. OnlyDispute(d) BY <1>2 DEF OnlyDispute
<1>4. jurors \in [Accounts -> JurorInfo] BY DEF Linked, TypeFunds
<1>5. LockMoves
  <2>1. Amounted BY EntriesTyped
  <2>2. ASSUME NEW b \in Accounts
        PROVE  jurors'[b].locked = jurors[b].locked
                 + stakeIn(disputes'[d], seats'[d], b) - stakeIn(disputes[d], seats[d], b)
    <3>1. stakeIn(disputes'[d], seats'[d], b) = stakeIn(disputes[d], seats[d], b)
      BY <1>1, <1>2 DEF stakeIn, Sits
    <3>2. stakeIn(disputes[d], seats[d], b) \in Nat
      <4>1. lockedFor(b)[d] = stakeIn(disputes[d], seats[d], b) BY Entries
      <4>2. lockedFor(b) \in [DisputeId -> Nat] BY <2>1 DEF Amounted
      <4> QED BY <4>1, <4>2
    <3>3. jurors[b].locked \in Int BY <1>4 DEF JurorInfo
    <3> QED BY <1>2, <3>1, <3>2, <3>3
  <2>3. \A c \in DisputeId : c # d => seats'[c] = seats[c] BY <1>1 DEF OnlyPanel
  <2> QED BY <1>3, <2>2, <2>3, OneCase
<1>6. JurorSum' BY <1>2, Unmoved
<1>7. /\ \A b \in Accounts : jurors'[b].locked <= jurors'[b].total
      /\ bucket'.treasury >= 0 /\ bucket'.reserve >= 0
  BY <1>2 DEF MoneyInv, Covered
<1> QED BY <1>2, <1>3, <1>5, <1>6, <1>7, PanelMoney

---------------------------------------------------------------------------
(* The tally *)

\* What a tally takes from and pays to each account.
slashesOf(dd, pn, v) == [a \in Accounts |-> IF a \in DOMAIN pn THEN seatSlash(dd, pn[a], v) ELSE 0]
rewardsOf(dd, pn, v, per, share) ==
  [a \in Accounts |-> IF a \in DOMAIN pn THEN seatReward(dd, pn[a], v, per, share) ELSE 0]

\* Slashes are part of the stake locked for the seat.
LEMMA SlashBounded ==
  ASSUME NEW dd \in Dispute, ValidParams(dd.par)
  PROVE  /\ seatStake(dd) \in Nat
         /\ nonRevealSlash(dd) \in 0..seatStake(dd) /\ minoritySlash(dd) \in 0..seatStake(dd)
         /\ \A seat, v : seatSlash(dd, seat, v) \in 0..seatStake(dd)
<1>1. /\ dd.par.jurorStake \in Nat
      /\ dd.par.nonRevealSlashBps \in Nat /\ dd.par.minoritySlashBps \in Nat
      /\ dd.par.nonRevealSlashBps <= BPS /\ dd.par.minoritySlashBps <= BPS
  BY ParamsNat DEF ValidParams
<1>2. nonRevealSlash(dd) \in 0..seatStake(dd) BY <1>1, PerBpsBounded DEF nonRevealSlash, seatStake
<1>3. minoritySlash(dd) \in 0..seatStake(dd) BY <1>1, PerBpsBounded DEF minoritySlash, seatStake
<1>4. seatStake(dd) \in Nat /\ 0 \in 0..seatStake(dd) BY <1>1 DEF seatStake
<1> QED BY <1>2, <1>3, <1>4 DEF seatSlash

\* What a panel of three pays out of a pot: nothing negative, and no more than it has.
LEMMA PayBounded ==
  ASSUME NEW dd \in Dispute, ValidParams(dd.par), NEW pot \in Nat,
         NEW reveals \in {2, 3}, NEW majority \in {2, 3}, majority <= reveals
  PROVE  /\ participationPay(dd, pot, reveals) >= 0
         /\ bonusShare(dd, pot, reveals, majority) >= 0
         /\ bonusPool(dd, pot, reveals, majority)
              - bonusShare(dd, pot, reveals, majority) * majority >= 0
<1> DEFINE fee == dd.par.participationFee
           per == participationPay(dd, pot, reveals)
           pool == bonusPool(dd, pot, reveals, majority)
           ms == minoritySlash(dd)
<1>1. fee \in Nat /\ ms \in Nat
  <2>1. fee \in Nat BY ParamsNat
  <2>2. seatStake(dd) \in Nat /\ ms \in 0..seatStake(dd) BY SlashBounded
  <2> QED BY <2>1, <2>2
<1>2. per = IF fee * reveals > pot THEN pot \div reveals ELSE fee BY DEF participationPay
<1>3. pool = pot - per * reveals + ms * (reveals - majority) BY DEF bonusPool
<1>4. bonusShare(dd, pot, reveals, majority) = pool \div majority BY DEF bonusShare
<1> HIDE DEF fee, per, pool, ms
<1>5. per \in Nat /\ per * reveals <= pot
  <2>1. CASE reveals = 2 BY <1>1, <1>2, <2>1
  <2>2. CASE reveals = 3 BY <1>1, <1>2, <2>2
  <2> QED BY <2>1, <2>2
<1>6. pool \in Nat
  <2>1. CASE reveals = 2
    <3>1. majority = 2 /\ reveals - majority = 0 BY <2>1
    <3> QED BY <1>1, <1>3, <1>5, <2>1, <3>1
  <2>2. CASE reveals = 3 /\ majority = 3 BY <1>1, <1>3, <1>5, <2>2
  <2>3. CASE reveals = 3 /\ majority = 2 BY <1>1, <1>3, <1>5, <2>3
  <2> QED BY <2>1, <2>2, <2>3
<1>7. pool \div majority \in Nat /\ pool - (pool \div majority) * majority >= 0
  <2>1. CASE majority = 2 BY <1>6, <2>1
  <2>2. CASE majority = 3 BY <1>6, <2>2
  <2> QED BY <2>1, <2>2
<1> QED BY <1>4, <1>5, <1>7 DEF per, pool

\* The slashes add up to what the tally takes from the jurors' bucket, the rewards to what
\* it adds to the claimable one.
LEMMA PanelSums ==
  ASSUME NEW dd \in Dispute, ValidParams(dd.par), NEW pn, NEW D \in SUBSET Accounts,
         pn \in [D -> Seat], Cardinality(D) = SEATS, NEW v,
         NEW per \in Int, NEW share \in Int
  PROVE  LET reveals == Cardinality(revealers(pn))
             majority == Cardinality(votersFor(pn, v))
             missing == (SEATS - reveals) * nonRevealSlash(dd)
         IN /\ slashesOf(dd, pn, v) \in [Accounts -> Int]
            /\ rewardsOf(dd, pn, v, per, share) \in [Accounts -> Int]
            /\ v = "None" => SumFunction(slashesOf(dd, pn, v)) = missing
            /\ v # "None" =>
                 /\ SumFunction(slashesOf(dd, pn, v))
                      = missing + (reveals - majority) * minoritySlash(dd)
                 /\ SumFunction(rewardsOf(dd, pn, v, per, share)) = per * reveals + share * majority
<1> DEFINE R == revealers(pn)
           M == votersFor(pn, v)
           n == nonRevealSlash(dd)
           m == minoritySlash(dd)
           f == [a \in Accounts |-> IF a \in D \ R THEN n ELSE 0]
           g == [a \in Accounts |-> IF a \in R \ M THEN m ELSE 0]
           s == slashesOf(dd, pn, v)
           w == rewardsOf(dd, pn, v, per, share)
           k == [a \in Accounts |-> IF a \in R THEN per ELSE 0]
           h == [a \in Accounts |-> IF a \in M THEN share ELSE 0]
<1>1. R \subseteq D /\ M \subseteq R /\ D \subseteq Accounts /\ DOMAIN pn = D
  BY DEF revealers, votersFor
<1>2. n \in Int /\ m \in Int
  <2>1. seatStake(dd) \in Nat /\ n \in 0..seatStake(dd) /\ m \in 0..seatStake(dd) BY SlashBounded
  <2> QED BY <2>1
<1>3. \A a \in D : /\ a \in R <=> pn[a].revealed
                   /\ a \in M <=> pn[a].revealed /\ pn[a].commitment = v
  BY <1>1 DEF revealers, votersFor
<1>4. \A a \in Accounts : s[a] = IF a \in D THEN seatSlash(dd, pn[a], v) ELSE 0
  BY <1>1 DEF slashesOf
<1>5. \A a \in Accounts : w[a] = IF a \in D THEN seatReward(dd, pn[a], v, per, share) ELSE 0
  BY <1>1 DEF rewardsOf
<1>6. /\ \A a \in D : seatSlash(dd, pn[a], v) =
           IF ~pn[a].revealed THEN n ELSE IF v # "None" /\ pn[a].commitment # v THEN m ELSE 0
      /\ \A a \in D : seatReward(dd, pn[a], v, per, share) =
           IF ~pn[a].revealed \/ v = "None" THEN 0
           ELSE per + (IF pn[a].commitment = v THEN share ELSE 0)
  BY DEF seatSlash, seatReward
<1>7. IsFiniteSet(Accounts) /\ IsFiniteSet(D) /\ IsFiniteSet(R) /\ IsFiniteSet(M)
  BY <1>1, IdsFinite, FS_Subset
<1>8. /\ Cardinality(D \ R) = SEATS - Cardinality(R)
      /\ Cardinality(R \ M) = Cardinality(R) - Cardinality(M)
      /\ Cardinality(R) \in Nat /\ Cardinality(M) \in Nat
  <2>1. D \cap R = R /\ R \cap M = M BY <1>1
  <2> HIDE DEF R, M
  <2>2. Cardinality(R) \in Nat /\ Cardinality(M) \in Nat BY <1>7, FS_CardinalityType
  <2>3. Cardinality(D \ R) = Cardinality(D) - Cardinality(D \cap R) BY <1>7, FS_Difference
  <2>4. Cardinality(R \ M) = Cardinality(R) - Cardinality(R \cap M) BY <1>7, FS_Difference
  <2> QED BY <2>1, <2>2, <2>3, <2>4
<1>9. /\ f \in [Accounts -> Int] /\ g \in [Accounts -> Int] /\ k \in [Accounts -> Int]
      /\ h \in [Accounts -> Int]
  BY <1>2
<1>10. s \in [Accounts -> Int]
  <2>1. \A a \in D : seatSlash(dd, pn[a], v) \in Int BY <1>2, <1>6
  <2> QED BY <1>1, <2>1 DEF slashesOf
<1>11. w \in [Accounts -> Int]
  <2>1. \A a \in D : seatReward(dd, pn[a], v, per, share) \in Int BY <1>6
  <2> QED BY <1>1, <2>1 DEF rewardsOf
<1>12. /\ D \ R \in SUBSET Accounts /\ R \ M \in SUBSET Accounts /\ R \in SUBSET Accounts
       /\ M \in SUBSET Accounts
  BY <1>1
<1>13. /\ \A a \in Accounts : f[a] = IF a \in D \ R THEN n ELSE 0
       /\ \A a \in Accounts : g[a] = IF a \in R \ M THEN m ELSE 0
       /\ \A a \in Accounts : k[a] = IF a \in R THEN per ELSE 0
       /\ \A a \in Accounts : h[a] = IF a \in M THEN share ELSE 0
  OBVIOUS
<1> HIDE DEF R, M, n, m, f, g, k, h, s, w
<1>14. SumFunction(f) = Cardinality(D \ R) * n BY <1>2, <1>7, <1>9, <1>12, <1>13, SumSame
<1>15. SumFunction(g) = Cardinality(R \ M) * m BY <1>2, <1>7, <1>9, <1>12, <1>13, SumSame
<1>16. SumFunction(k) = Cardinality(R) * per BY <1>7, <1>9, <1>12, <1>13, SumSame
<1>17. SumFunction(h) = Cardinality(M) * share BY <1>7, <1>9, <1>12, <1>13, SumSame
<1>18. ASSUME v = "None" PROVE SumFunction(s) = (SEATS - Cardinality(R)) * n
  <2>1. \A a \in Accounts : s[a] = IF a \in D \ R THEN n ELSE 0
    BY <1>1, <1>3, <1>4, <1>6, <1>18
  <2> QED BY <1>2, <1>7, <1>8, <1>10, <1>12, <2>1, SumSame
<1>19. ASSUME v # "None"
       PROVE  SumFunction(s) = (SEATS - Cardinality(R)) * n + (Cardinality(R) - Cardinality(M)) * m
  <2>1. ASSUME NEW a \in Accounts PROVE s[a] = f[a] + g[a]
    <3>1. CASE a \notin D BY <1>1, <1>4, <1>13, <3>1
    <3>2. CASE a \in D \ R
      <4>1. s[a] = n /\ f[a] = n /\ g[a] = 0 BY <1>3, <1>4, <1>6, <1>13, <3>2
      <4> QED BY <1>2, <4>1
    <3>3. CASE a \in R \ M
      <4>1. s[a] = m /\ f[a] = 0 /\ g[a] = m BY <1>1, <1>3, <1>4, <1>6, <1>13, <1>19, <3>3
      <4> QED BY <1>2, <4>1
    <3>4. CASE a \in M
      <4>1. s[a] = 0 /\ f[a] = 0 /\ g[a] = 0 BY <1>1, <1>3, <1>4, <1>6, <1>13, <1>19, <3>4
      <4> QED BY <4>1
    <3> QED BY <1>1, <3>1, <3>2, <3>3, <3>4
  <2>2. SumFunction(s) = SumFunction(f) + SumFunction(g) BY <1>7, <1>9, <1>10, <2>1, SumPlus
  <2> QED BY <1>8, <1>14, <1>15, <2>2
<1>20. ASSUME v # "None"
       PROVE  SumFunction(w) = per * Cardinality(R) + share * Cardinality(M)
  <2>1. ASSUME NEW a \in Accounts PROVE w[a] = k[a] + h[a]
    <3>1. CASE a \notin D BY <1>1, <1>5, <1>13, <3>1
    <3>2. CASE a \in D \ R
      <4>1. w[a] = 0 /\ k[a] = 0 /\ h[a] = 0 BY <1>1, <1>3, <1>5, <1>6, <1>13, <3>2
      <4> QED BY <4>1
    <3>3. CASE a \in R \ M
      <4>1. w[a] = per + 0 /\ k[a] = per /\ h[a] = 0
        BY <1>1, <1>3, <1>5, <1>6, <1>13, <1>20, <3>3
      <4> QED BY <4>1
    <3>4. CASE a \in M
      <4>1. w[a] = per + share /\ k[a] = per /\ h[a] = share
        BY <1>1, <1>3, <1>5, <1>6, <1>13, <1>20, <3>4
      <4> QED BY <4>1
    <3> QED BY <1>1, <3>1, <3>2, <3>3, <3>4
  <2>2. SumFunction(w) = SumFunction(k) + SumFunction(h) BY <1>7, <1>9, <1>11, <2>1, SumPlus
  <2>3. Cardinality(R) * per = per * Cardinality(R) /\ Cardinality(M) * share = share * Cardinality(M)
    BY <1>8
  <2> QED BY <1>16, <1>17, <2>2, <2>3
<1> QED BY <1>10, <1>11, <1>18, <1>19, <1>20 DEF R, M, n, m, s, w

\* A tally gives the panel its lock back and takes the slashes from its stake.
LEMMA SettleMoney ==
  ASSUME Linked, CaseInv, MoneyInv, NEW d \in DisputeId, Jury(d, "Voting"), NEW v,
         NEW per \in Int, NEW share \in Int, settleSeats(d, v, per, share),
         OnlyDispute(d), disputes'[d].status # "Voting",
         bucket'.jurorStake = bucket.jurorStake - SumFunction(slashesOf(disputes[d], panel(d), v))
  PROVE  LockMoves /\ JurorSum' /\ \A a \in Accounts : jurors'[a].locked <= jurors'[a].total
<1> DEFINE dd == disputes[d]
           e  == disputes'[d]
           pn == panel(d)
           stake == seatStake(dd)
           s == slashesOf(dd, pn, v)
<1>1. /\ dd.status # "None" /\ JuryCase(dd) /\ dd.status = "Voting" /\ "Voting" \in DisputeStatus
      /\ dd.ground = "FalseDescription"
  BY DEF Jury, JuryCase, DisputeStatus
<1>2. dd \in Dispute /\ ValidParams(dd.par) BY <1>1, DisputedPurchase
<1>3. /\ dd.round \in Rounds /\ DOMAIN pn \in SUBSET Accounts /\ pn \in [DOMAIN pn -> Seat]
      /\ pn = seats[d][dd.round]
  BY <1>1, PanelTyped DEF panel
<1>4. Cardinality(DOMAIN pn) = SEATS BY <1>1, <1>3 DEF CaseInv, PanelsSound, PanelSound, Drawn
<1>5. stake \in Nat /\ \A seat : seatSlash(dd, seat, v) \in 0..stake BY <1>2, SlashBounded
<1>6. jurors' = [a \in Accounts |->
        IF a \in DOMAIN pn
        THEN [jurors[a] EXCEPT !.locked = @ - stake, !.total = @ - seatSlash(dd, pn[a], v)]
        ELSE jurors[a]]
  BY DEF settleSeats
<1>7. /\ jurors \in [Accounts -> JurorInfo] /\ bucket \in Buckets
      /\ bucket.jurorStake = SumFunction(jurorTotals)
      /\ \A a \in Accounts : jurors[a].locked <= jurors[a].total
  BY DEF Linked, TypeFunds, MoneyInv, Covered, BucketsAccounted, jurorTotals
<1>8. \A a \in Accounts : s[a] = IF a \in DOMAIN pn THEN seatSlash(dd, pn[a], v) ELSE 0
  BY DEF slashesOf
<1>9. \A a : /\ stakeIn(dd, seats[d], a) = IF a \in DOMAIN pn THEN stake ELSE 0
             /\ stakeIn(e, seats'[d], a) = 0
  BY <1>1, <1>3 DEF stakeIn, Sits, seatStake
<1>10. s \in [Accounts -> Int] BY <1>2, <1>3, <1>4, PanelSums
<1>11. \A c \in DisputeId : c # d => seats'[c] = seats[c] BY SettleMoves DEF OnlyPanel
<1> HIDE DEF dd, e, pn, stake, s
<1>12. ASSUME NEW a \in Accounts
       PROVE  /\ jurors'[a].locked = jurors[a].locked + stakeIn(e, seats'[d], a) - stakeIn(dd, seats[d], a)
              /\ jurors'[a].total = jurors[a].total - s[a] /\ jurors'[a].total \in Int
              /\ jurors'[a].locked <= jurors'[a].total
  <2>1. jurors[a].locked \in Int /\ jurors[a].total \in Int BY <1>7 DEF JurorInfo
  <2>2. CASE a \in DOMAIN pn
    <3> DEFINE x == seatSlash(dd, pn[a], v)
               new == [jurors[a] EXCEPT !.locked = @ - stake, !.total = @ - x]
    <3>1. jurors'[a] = new BY <1>6, <2>2
    <3>2. x \in 0..stake /\ s[a] = x BY <1>5, <1>8, <2>2
    <3> HIDE DEF x
    <3>3. new.locked = jurors[a].locked - stake /\ new.total = jurors[a].total - x
      BY <1>7 DEF JurorInfo
    <3> HIDE DEF new
    <3>4. stakeIn(dd, seats[d], a) = stake /\ stakeIn(e, seats'[d], a) = 0 BY <1>9, <2>2
    <3>5. x \in Int /\ x <= stake BY <1>5, <3>2
    <3> QED BY <1>5, <1>7, <2>1, <3>1, <3>2, <3>3, <3>4, <3>5
  <2>3. CASE a \notin DOMAIN pn
    <3>1. jurors'[a] = jurors[a] /\ s[a] = 0 BY <1>6, <1>8, <2>3
    <3>2. stakeIn(dd, seats[d], a) = 0 /\ stakeIn(e, seats'[d], a) = 0 BY <1>9, <2>3
    <3> QED BY <1>7, <2>1, <3>1, <3>2
  <2> QED BY <2>2, <2>3
<1>13. LockMoves BY <1>11, <1>12, OneCase DEF dd, e
<1>14. JurorSum'
  <2>1. jurorTotals \in [Accounts -> Int] /\ jurorTotals' \in [Accounts -> Int]
    BY <1>7, <1>12 DEF jurorTotals, JurorInfo
  <2>2. \A a \in Accounts : jurorTotals[a] = jurorTotals'[a] + s[a]
    <3> SUFFICES ASSUME NEW a \in Accounts PROVE jurorTotals[a] = jurorTotals'[a] + s[a] OBVIOUS
    <3>1. jurorTotals[a] = jurors[a].total /\ jurorTotals'[a] = jurors'[a].total BY DEF jurorTotals
    <3>2. jurorTotals[a] \in Int /\ s[a] \in Int BY <1>10, <2>1
    <3> QED BY <1>12, <3>1, <3>2
  <2>3. SumFunction(jurorTotals) = SumFunction(jurorTotals') + SumFunction(s)
    BY <1>10, <2>1, <2>2, SumPlus, IdsFinite
  <2>4. /\ SumFunction(jurorTotals) \in Int /\ SumFunction(jurorTotals') \in Int
        /\ SumFunction(s) \in Int
    BY <1>10, <2>1, SumTyped, IdsFinite
  <2>5. bucket'.jurorStake = bucket.jurorStake - SumFunction(s) BY DEF s, dd, pn
  <2> QED BY <1>7, <2>3, <2>4, <2>5 DEF JurorSum
<1> QED BY <1>12, <1>13, <1>14

\* A tally pays the panel out of the case fee and the slashes, or fails at the expense of
\* those who did not reveal.
LEMMA TallyMoney ==
  ASSUME Linked, CaseInv, MoneyInv, Linked', CaseInv', NEW d \in DisputeId, tallyDispute(d)
  PROVE  MoneyInv'
<1> DEFINE dd == disputes[d]
           p  == purchases[dd.purchase]
           pn == panel(d)
           D  == DOMAIN pn
           reveals == Cardinality(revealers(pn))
           missing == (SEATS - reveals) * nonRevealSlash(dd)
<1>1. /\ Jury(d, "Voting") /\ dd.status # "None" /\ "Voting" \in DisputeStatus
      /\ OpenDispute(d) /\ JuryCase(dd) /\ dd.status = "Voting"
  BY DEF tallyDispute, tallyDecided, tallyFailed, TallyReady, Jury, DisputeStatus, OpenDispute, JuryCase
<1>2. /\ dd \in Dispute /\ p \in Purchase /\ WellMade(p) /\ p.state # "None"
      /\ dd.taskMask \in SUBSET (1..p.terms.taskCount) /\ ValidParams(dd.par)
      /\ p.refunded = 0 /\ dd.bond >= 0
  BY <1>1, DisputedPurchase, OpenDisputed DEF CaseInv, Links, CaseSound
<1>3. /\ dd.round \in Rounds /\ D \in SUBSET Accounts /\ pn \in [D -> Seat] /\ reveals \in Nat
      /\ revealers(pn) \subseteq D /\ pn = seats[d][dd.round]
  BY <1>1, PanelTyped DEF panel
<1>4. \A a \in D : pn[a].revealed => pn[a].commitment # "None"
  BY <1>3 DEF Linked, SeatInv, RevealsCommitted
<1>5. Cardinality(D) = SEATS BY <1>1, <1>3 DEF CaseInv, PanelsSound, PanelSound, Drawn
<1>6. reveals <= 3
  <2>1. IsFiniteSet(D) BY <1>3, SeatsFinite
  <2> QED BY <1>3, <1>5, <2>1, FS_Subset DEF SEATS
<1>7. missing \in Int /\ missing >= 0
  <2>1. nonRevealSlash(dd) \in Nat
    <3>1. seatStake(dd) \in Nat /\ nonRevealSlash(dd) \in 0..seatStake(dd) BY <1>2, SlashBounded
    <3> QED BY <3>1
  <2> DEFINE n == nonRevealSlash(dd)
             k == SEATS - reveals
  <2>2. k \in Nat BY <1>3, <1>6 DEF SEATS
  <2> HIDE DEF n, k
  <2>3. k * n \in Nat BY <2>1, <2>2 DEF n
  <2> QED BY <2>3 DEF n, k
<1>8. CASE tallyDecided(d)
  <2> DEFINE verdict == panelVerdict(pn)
             out == IF verdict = "Uphold" THEN upholdOutcome(p, dd, dd.taskMask)
                    ELSE rejectOutcome(dd)
             majority == Cardinality(votersFor(pn, verdict))
             per == participationPay(dd, out.caseFee, reveals)
             share == bonusShare(dd, out.caseFee, reveals, majority)
             dust == bonusPool(dd, out.caseFee, reveals, majority) - share * majority
             slashes == (reveals - majority) * minoritySlash(dd)
             extra == [treasury |-> 0, reserve |-> missing + dust,
                       jurorStake |-> missing + slashes,
                       claimable |-> per * reveals + share * majority,
                       pay |-> [a \in Accounts |-> IF a \in DOMAIN pn
                                  THEN seatReward(dd, pn[a], verdict, per, share) ELSE 0]]
  <2>1. resolve(d, out, extra) /\ verdict # "None" /\ settleSeats(d, verdict, per, share)
    BY <1>8 DEF tallyDecided
  <2>2. majority \in {2, 3} /\ reveals \in {2, 3} /\ majority <= reveals
    <3>1. majority \in Nat /\ majority >= 2 /\ reveals >= 2 /\ majority <= reveals
      BY <1>3, <1>4, <2>1, MajorityPositive
    <3> HIDE DEF majority, reveals
    <3> QED BY <1>3, <1>6, <3>1
  <2>3. out \in Outcome /\ Affordable(out, p)
    BY <1>2, UpholdTyped, RejectTyped, OutcomesAffordable
  <2> HIDE DEF out, verdict, majority, missing, reveals
  <2>4. out.caseFee \in Nat BY <2>3 DEF Outcome, Affordable
  <2>5. per >= 0 /\ share >= 0 /\ dust >= 0 BY <1>2, <2>2, <2>4, PayBounded
  <2>6. per \in Int /\ share \in Int /\ bonusPool(dd, out.caseFee, reveals, majority) \in Int
    <3>1. /\ reveals \in Nat /\ reveals > 0 /\ majority \in Nat /\ majority > 0
          /\ out.caseFee \in Int
      BY <2>2, <2>4
    <3> QED BY <1>2, <3>1, PayTyped
  <2>7. slashes \in Int
    <3>1. minoritySlash(dd) \in Int BY <1>2, SlashInt
    <3> QED BY <2>2, <3>1
  <2>8. share * majority \in Int /\ per * reveals \in Int BY <2>2, <2>6
  <2>9. /\ missing + dust \in Int /\ missing + slashes \in Int
        /\ per * reveals + share * majority \in Int /\ missing + dust >= 0
    BY <1>7, <2>5, <2>6, <2>7, <2>8
  <2> HIDE DEF dust
  <2>10. /\ \A seat : seatReward(dd, seat, verdict, per, share) \in Int
         /\ \A seat : seatReward(dd, seat, verdict, per, share) >= 0
    BY <2>5, <2>6 DEF seatReward
  <2> HIDE DEF per, share
  <2>11. /\ rewardsOf(dd, pn, verdict, per, share) \in [Accounts -> Int]
         /\ SumFunction(slashesOf(dd, pn, verdict)) = missing + slashes
         /\ SumFunction(rewardsOf(dd, pn, verdict, per, share)) = per * reveals + share * majority
    BY <1>2, <1>3, <1>5, <2>1, <2>6, PanelSums DEF missing, reveals, majority
  <2>12. \A a \in Accounts : rewardsOf(dd, pn, verdict, per, share)[a] >= 0
    BY <2>10 DEF rewardsOf
  <2> HIDE DEF slashes
  <2>13. /\ extra.treasury = 0 /\ extra.reserve = missing + dust
         /\ extra.jurorStake = missing + slashes
         /\ extra.claimable = per * reveals + share * majority
         /\ extra.pay = rewardsOf(dd, pn, verdict, per, share)
    BY DEF rewardsOf
  <2>14. extra \in Extra BY <2>9, <2>10 DEF Extra
  <2> HIDE DEF extra
  <2>15. OnlyDispute(d) /\ disputes'[d].status # "Voting"
    <3>1. OnlyDispute(d) /\ disputes'[d].status = "Resolved" BY <1>1, <2>1, <2>3, ResolveMoves
    <3> QED BY <3>1
  <2>16. bucket'.jurorStake = bucket.jurorStake - SumFunction(slashesOf(dd, pn, verdict))
    BY <1>1, <2>1, <2>3, <2>11, <2>13, <2>14, ResolveBucket
  <2>17. LockMoves /\ JurorSum' /\ \A a \in Accounts : jurors'[a].locked <= jurors'[a].total
    BY <1>1, <2>1, <2>6, <2>15, <2>16, SettleMoney
  <2>18. /\ extra.treasury >= 0 /\ extra.reserve >= 0
         /\ extra.claimable = SumFunction(extra.pay) /\ \A a \in Accounts : extra.pay[a] >= 0
    BY <2>9, <2>11, <2>12, <2>13
  <2> QED BY <1>1, <2>1, <2>3, <2>14, <2>17, <2>18, ResolveMoney
<1>9. CASE tallyFailed(d)
  <2>0. settleSeats(d, "None", 0, 0) BY <1>9 DEF tallyFailed
  <2>1. SumFunction(slashesOf(dd, pn, "None")) = missing
    BY <1>2, <1>3, <1>5, 0 \in Int, PanelSums
  <2>2. CASE dd.round = 1
    <3>1. /\ disputes' = [disputes EXCEPT ![d] = secondRound(@)]
          /\ bucket' = [bucket EXCEPT !.jurorStake = @ - missing, !.reserve = @ + missing]
          /\ UNCHANGED <<purchases, stakes, claimable, versions, previews, nextVersionId>>
      BY <1>9, <2>2 DEF tallyFailed, catalog
    <3>2. OnlyDispute(d) /\ SameCase(dd, disputes'[d]) /\ disputes'[d].status = "AwaitingSelection"
      BY <1>1, <3>1, AdvanceMoves
    <3>3. bondIn(disputes'[d]) = bondIn(dd) BY <1>1, <3>2 DEF bondIn, OpenCase, SameCase
    <3>4. bucket \in Buckets /\ bucket.treasury >= 0 /\ bucket.reserve >= 0
      BY DEF Linked, TypeFunds, MoneyInv, Covered
    <3> HIDE DEF missing
    <3>5. /\ bucket'.jurorStake = bucket.jurorStake - missing
          /\ bucket'.escrow = bucket.escrow /\ bucket'.bonds = bucket.bonds
          /\ bucket'.collateral = bucket.collateral /\ bucket'.claimable = bucket.claimable
          /\ bucket'.previewFees = bucket.previewFees /\ bucket'.treasury = bucket.treasury
          /\ bucket'.reserve = bucket.reserve + missing
      BY <3>1, <3>4 DEF Buckets
    <3>6. bucket'.treasury >= 0 /\ bucket'.reserve >= 0 BY <1>7, <3>4, <3>5 DEF Buckets
    <3>7. LockMoves /\ JurorSum' /\ \A a \in Accounts : jurors'[a].locked <= jurors'[a].total
      BY <1>1, <2>0, <2>1, <3>2, <3>5, 0 \in Int, SettleMoney
    <3> QED BY <3>1, <3>2, <3>3, <3>5, <3>6, <3>7, PanelMoney
  <2>3. CASE dd.round # 1
    <3> DEFINE extra == [NoExtra EXCEPT !.reserve = missing, !.jurorStake = missing]
               out == fallbackOutcome(dd)
    <3>1. resolve(d, out, extra) BY <1>9, <2>3 DEF tallyFailed
    <3>2. out \in Outcome /\ Affordable(out, p)
      BY <1>2, RejectTyped, OutcomesAffordable
    <3> HIDE DEF missing, out
    <3>3. extra \in Extra BY <1>7, NoExtraTyped DEF Extra
    <3>4. /\ extra.treasury = 0 /\ extra.reserve = missing /\ extra.jurorStake = missing
          /\ extra.claimable = 0 /\ extra.pay = NoPay
      BY DEF NoExtra
    <3> HIDE DEF extra
    <3>5. OnlyDispute(d) /\ disputes'[d].status # "Voting"
      <4>1. OnlyDispute(d) /\ disputes'[d].status = "Resolved" BY <1>1, <3>1, <3>2, ResolveMoves
      <4> QED BY <4>1
    <3>6. bucket'.jurorStake = bucket.jurorStake - SumFunction(slashesOf(dd, pn, "None"))
      BY <1>1, <2>1, <3>1, <3>2, <3>3, <3>4, ResolveBucket
    <3>7. LockMoves /\ JurorSum' /\ \A a \in Accounts : jurors'[a].locked <= jurors'[a].total
      BY <1>1, <2>0, <3>5, <3>6, 0 \in Int, SettleMoney
    <3>8. /\ extra.treasury >= 0 /\ extra.reserve >= 0
          /\ extra.claimable = SumFunction(extra.pay) /\ \A a \in Accounts : extra.pay[a] >= 0
      BY <1>7, <3>4, PlainPay
    <3> QED BY <1>1, <3>1, <3>2, <3>3, <3>7, <3>8, ResolveMoney
  <2> QED BY <2>2, <2>3
<1> QED BY <1>8, <1>9 DEF tallyDispute

\* Every call about purchases or disputes.
LEMMA CasesKeepMoney ==
  ASSUME Linked, CaseInv, MoneyInv, Linked', CaseInv', CaseCall PROVE MoneyInv'
<1>1. ASSUME NEW a \in Buyers, NEW v \in VersionId, buy(a, v) PROVE MoneyInv' BY <1>1, BuyMoney
<1>2. ASSUME NEW i \in PurchaseId,
             \/ \E s \in Signers : recordDelivery(i, s)
             \/ refundUndelivered(i) \/ finalize(i) \/ \E n \in StarChoices : rate(i, n)
      PROVE  MoneyInv'
  <2>1. CASE (\E s \in Signers : recordDelivery(i, s)) \/ \E n \in StarChoices : rate(i, n)
    BY <2>1, RecordMoney
  <2>2. CASE refundUndelivered(i) \/ finalize(i) BY <2>2, CloseMoney
  <2> QED BY <1>2, <2>1, <2>2
<1>3. ASSUME NEW i \in PurchaseId, NEW g \in Grounds,
             NEW m \in SUBSET (1..purchases[i].terms.taskCount), openDispute(i, g, m)
      PROVE  MoneyInv'
  BY <1>3, OpenMoney
<1>4. ASSUME NEW d \in DisputeId,
             \/ \E u \in BOOLEAN, m \in SUBSET disputes[d].taskMask, s \in Signers :
                  resolveMechanical(d, u, m, s)
             \/ timeoutMechanical(d) \/ selectJurors(d) \/ tallyDispute(d)
             \/ \E a \in JurorPool : revealVote(d, a) \/ \E v \in {"Uphold", "Reject"} : commitVote(d, a, v)
      PROVE  MoneyInv'
  <2>1. ASSUME NEW u \in BOOLEAN, NEW m \in SUBSET disputes[d].taskMask, NEW s \in Signers,
               resolveMechanical(d, u, m, s)
        PROVE  MoneyInv'
    BY <2>1, MechanicalMoney
  <2>2. CASE timeoutMechanical(d)
    <3>1. TRUE \in BOOLEAN /\ {} \in SUBSET disputes[d].taskMask OBVIOUS
    <3> QED BY <2>2, <3>1, MechanicalMoney
  <2>3. CASE selectJurors(d) BY <2>3, SelectMoney
  <2>4. CASE tallyDispute(d) BY <2>4, TallyMoney
  <2>5. ASSUME NEW a \in JurorPool, revealVote(d, a) \/ \E v \in {"Uphold", "Reject"} : commitVote(d, a, v)
        PROVE  MoneyInv'
    <3>1. "Uphold" \in {"Uphold", "Reject"} OBVIOUS
    <3> QED BY <2>5, <3>1, VoteMoney
  <2> QED BY <1>4, <2>1, <2>2, <2>3, <2>4, <2>5
<1> QED BY <1>1, <1>2, <1>3, <1>4 DEF CaseCall

---------------------------------------------------------------------------
(* The invariant *)

\* A sum of nothing.
LEMMA SumZero ==
  ASSUME NEW S, IsFiniteSet(S) PROVE SumFunction([x \in S |-> 0]) = 0
<1> DEFINE f == [x \in S |-> 0]
<1>1. f \in [S -> Int] /\ \A x \in S : f[x] = IF x \in {} THEN 0 ELSE 0 OBVIOUS
<1>2. {} \in SUBSET S /\ 0 \in Int OBVIOUS
<1> HIDE DEF f
<1>3. SumFunction(f) = Cardinality({}) * 0 BY <1>1, <1>2, SumSame
<1> QED BY <1>3, FS_EmptySet DEF f

\* The constructor's market holds nothing.
LEMMA InitMoney == Init => MoneyInv /\ FeesDated
<1> SUFFICES ASSUME Init PROVE MoneyInv /\ FeesDated OBVIOUS
<1>1. /\ \A i \in PurchaseId : priceIn(purchases[i]) = 0 /\ \A a : shareIn(purchases[i], a) = 0
      /\ \A d \in DisputeId : bondIn(disputes[d]) = 0 /\ \A a : stakeIn(disputes[d], seats[d], a) = 0
      /\ \A v \in VersionId : feeIn(versions[v], previews[v]) = 0
  BY DEF Init, InitPurchases, InitCases, InitCatalog, NoPurchase, NoDispute, NoVersion, NoPreview,
     priceIn, shareIn, OpenSale, bondIn, OpenCase, stakeIn, Sits, feeIn
<1>2. /\ escrowed = [i \in PurchaseId |-> 0] /\ bonded = [d \in DisputeId |-> 0]
      /\ feeHeld = [v \in VersionId |-> 0]
      /\ \A a : reservedFor(a) = [i \in PurchaseId |-> 0] /\ lockedFor(a) = [d \in DisputeId |-> 0]
  BY <1>1, Entries
<1>3. \A a \in Accounts : /\ stakes[a].total = 0 /\ stakes[a].reserved = 0
                          /\ jurors[a].total = 0 /\ jurors[a].locked = 0 /\ claimable[a] = 0
  BY DEF Init, InitFunds, InitRecords, NoJuror
<1>4. /\ stakeTotals = [a \in Accounts |-> 0] /\ jurorTotals = [a \in Accounts |-> 0]
      /\ claimable = [a \in Accounts |-> 0]
  BY <1>3 DEF Init, InitRecords, stakeTotals, jurorTotals
<1>5. /\ bucket.escrow = 0 /\ bucket.bonds = 0 /\ bucket.collateral = 0 /\ bucket.jurorStake = 0
      /\ bucket.claimable = 0 /\ bucket.previewFees = 0 /\ bucket.treasury = 0 /\ bucket.reserve = 0
  BY DEF Init, InitFunds, NoBuckets
<1>6. /\ SumFunction([i \in PurchaseId |-> 0]) = 0 /\ SumFunction([d \in DisputeId |-> 0]) = 0
      /\ SumFunction([v \in VersionId |-> 0]) = 0 /\ SumFunction([a \in Accounts |-> 0]) = 0
  BY SumZero, IdsFinite
<1>7. BucketsAccounted
  BY <1>2, <1>4, <1>5, <1>6 DEF BucketsAccounted, stakeTotals, jurorTotals
<1>8. HoldsAccounted BY <1>2, <1>3, <1>6 DEF HoldsAccounted
<1>9. Covered BY <1>3, <1>5 DEF Covered
<1>10. Unlisted BY DEF Init, InitCatalog, NoVersion, NoPreview, Unlisted
<1>11. FeesDated
  BY ConstantsOK DEF ConstantsOK, Init, InitChain, InitCatalog, NoPreview, FeesDated
<1> QED BY <1>7, <1>8, <1>9, <1>10, <1>11 DEF MoneyInv

\* Every step keeps every bucket and every hold.
LEMMA NextMoney ==
  Linked /\ CaseInv /\ FeesDated /\ MoneyInv /\ [Next]_vars => MoneyInv' /\ FeesDated'
<1> SUFFICES ASSUME Linked, CaseInv, FeesDated, MoneyInv, [Next]_vars PROVE MoneyInv' /\ FeesDated'
  OBVIOUS
<1>1. Linked' /\ CaseInv' BY NextLinked, NextCase
<1>2. ASSUME OutsideCall PROVE MoneyInv' BY <1>1, <1>2, OutsideKeepsMoney
<1>3. ASSUME CaseCall PROVE MoneyInv' BY <1>1, <1>3, CasesKeepMoney
<1>4. FeesDated' BY FeeSteps
<1> QED BY <1>2, <1>3, <1>4, MoneyCalls

\* In every reachable state, buckets and holds are what purchases, disputes, versions and
\* accounts say they are.
THEOREM MoneyHolds == Spec => [](Linked /\ CaseInv /\ MoneyInv)
<1>1. Init => MoneyInv /\ FeesDated BY InitMoney
<1>2. Linked /\ CaseInv /\ FeesDated /\ MoneyInv /\ [Next]_vars => MoneyInv' /\ FeesDated'
  BY NextMoney
<1> QED BY <1>1, <1>2, CaseHolds, PTL DEF Spec

\* Each bucket is the sum of what it is said to hold: escrow of the prices of the open
\* purchases, bonds of those of the open disputes, and so on.  No call, in any order, moves
\* one without the other.
THEOREM BucketsAlwaysAccounted == Spec => []BucketsAccounted
<1>1. MoneyInv => BucketsAccounted BY DEF MoneyInv
<1> QED BY <1>1, MoneyHolds, PTL

\* Reserved collateral and locked stake are exactly what open purchases and voting panels
\* hold of an account, and never more than it has, however many disputes slash it.
THEOREM HoldsAlwaysAccounted == Spec => []HoldsAccounted
<1>1. MoneyInv => HoldsAccounted BY DEF MoneyInv
<1> QED BY <1>1, MoneyHolds, PTL

\* No checked subtraction of the contract underflows: no call is ever blocked by one.
THEOREM NeverUnderflows == Spec => []NoUnderflow
<1>1. Linked /\ CaseInv /\ MoneyInv => NoUnderflow BY SumsNatural
<1> QED BY <1>1, MoneyHolds, PTL

---------------------------------------------------------------------------
(* What the statistics count.  A step adds to the figures of one version   *)
(* and of its seller exactly what it adds to the worth of one purchase.    *)
(* For this a dispute must be named by its purchase alone, and a purchase  *)
(* be of a version of its seller; RepInv says so.                          *)

VersionFields == {"ratingSum", "ratingCount", "settledCount", "disputesOpened", "disputesUpheld",
                  "retainedVolume"}
SellerFields  == {"qualifyingTx", "disputesOpened", "disputesUpheld", "fullRefunds",
                  "retainedVolume", "weightedRatingSum", "ratedRetained"}
SharedFields  == {"disputesOpened", "disputesUpheld", "retainedVolume"}

\* What the record p of a purchase has added, given the disputes ds.
upheldIn(p, ds) ==
  p.dispute # 0 /\ ds[p.dispute].status = "Resolved" /\ ds[p.dispute].verdict = "Uphold"
gainsOf(p, ds)    == counted(p, upheldIn(p, ds))
keptOf(p)       == IF p.state = "Settled" THEN p.terms.price - p.refunded ELSE 0
starsOf(p)      == IF p.rated THEN p.stars ELSE 0

\* Tables over all ids, zero for those ReputationConsistent leaves out.
ofVersion(v, k) == [i \in PurchaseId |-> IF purchases[i].version = v THEN worth(i)[k] ELSE 0]
ofSeller(a, k)  == [i \in PurchaseId |-> IF purchases[i].seller = a THEN worth(i)[k] ELSE 0]
ofCatalog(a, k) == [v \in VersionId |-> IF versions[v].seller = a THEN versionStats[v][k] ELSE 0]

\* Their entries.
inVersion(p, ds, v, k)  == IF p.version = v THEN gainsOf(p, ds)[k] ELSE 0
inSeller(p, ds, a, k)   == IF p.seller = a THEN gainsOf(p, ds)[k] ELSE 0
inCatalog(vn, st, a, k) == IF vn.seller = a THEN st[k] ELSE 0

LEMMA RepEntries ==
  /\ \A v, k : ofVersion(v, k) = [i \in PurchaseId |-> inVersion(purchases[i], disputes, v, k)]
  /\ \A a, k : ofSeller(a, k) = [i \in PurchaseId |-> inSeller(purchases[i], disputes, a, k)]
  /\ \A a, k : ofCatalog(a, k) = [v \in VersionId |-> inCatalog(versions[v], versionStats[v], a, k)]
<1>1. \A i \in PurchaseId : worth(i) = gainsOf(purchases[i], disputes)
  BY DEF worth, gainsOf, upheldFor, upheldIn
<1>2. ASSUME NEW v, NEW k
      PROVE  ofVersion(v, k) = [i \in PurchaseId |-> inVersion(purchases[i], disputes, v, k)]
  BY <1>1 DEF ofVersion, inVersion
<1>3. ASSUME NEW a, NEW k
      PROVE  ofSeller(a, k) = [i \in PurchaseId |-> inSeller(purchases[i], disputes, a, k)]
  BY <1>1 DEF ofSeller, inSeller
<1> QED BY <1>2, <1>3 DEF ofCatalog, inCatalog

\* The tables after a step.
LEMMA RepEntriesNext ==
  /\ \A v, k : ofVersion(v, k)' = [i \in PurchaseId |-> inVersion(purchases'[i], disputes', v, k)]
  /\ \A a, k : ofSeller(a, k)' = [i \in PurchaseId |-> inSeller(purchases'[i], disputes', a, k)]
  /\ \A a, k : ofCatalog(a, k)'
                 = [v \in VersionId |-> inCatalog(versions'[v], versionStats'[v], a, k)]
<1>1. \A i \in PurchaseId : worth(i)' = gainsOf(purchases'[i], disputes')
  BY DEF worth, gainsOf, upheldFor, upheldIn
<1>2. ASSUME NEW v, NEW k
      PROVE  ofVersion(v, k)' = [i \in PurchaseId |-> inVersion(purchases'[i], disputes', v, k)]
  BY <1>1 DEF ofVersion, inVersion
<1>3. ASSUME NEW a, NEW k
      PROVE  ofSeller(a, k)' = [i \in PurchaseId |-> inSeller(purchases'[i], disputes', a, k)]
  BY <1>1 DEF ofSeller, inSeller
<1>4. ASSUME NEW a, NEW k
      PROVE  ofCatalog(a, k)' = [v \in VersionId |-> inCatalog(versions'[v], versionStats'[v], a, k)]
  BY DEF ofCatalog, inCatalog
<1> QED BY <1>2, <1>3, <1>4

VersionsCount == \A v \in VersionId : \A k \in VersionFields :
  versionStats[v][k] = SumFunction(ofVersion(v, k))
SellersCount == \A a \in Accounts : \A k \in SellerFields :
  sellerStats[a][k] = SumFunction(ofSeller(a, k))
CatalogCount == \A a \in Accounts : \A k \in SharedFields :
  sellerStats[a][k] = SumFunction(ofCatalog(a, k))

\* A purchase that was made is of a version of its seller.
OfSeller(p, vns) == p.state # "None" /\ vns[p.version].seller = p.seller
SellersMatch == \A i \in PurchaseId : purchases[i] = NoPurchase \/ OfSeller(purchases[i], versions)

RepInv == VersionsCount /\ SellersCount /\ CatalogCount /\ SellersMatch /\ DisputeNamed

\* The figures of one purchase.
LEMMA CountedFields ==
  ASSUME NEW p, NEW u
  PROVE  LET x == counted(p, u) IN
         /\ x.settledCount = one(p.state = "Settled") /\ x.fullRefunds = one(p.state = "Refunded")
         /\ x.retainedVolume = keptOf(p) /\ x.qualifyingTx = one(keptOf(p) > 0)
         /\ x.disputesOpened = one(p.dispute # 0) /\ x.disputesUpheld = one(u)
         /\ x.ratingCount = one(p.rated) /\ x.ratingSum = starsOf(p)
         /\ x.ratedRetained = (IF p.rated THEN keptOf(p) ELSE 0)
         /\ x.weightedRatingSum = keptOf(p) * starsOf(p)
BY DEF counted, keptOf, starsOf

LEMMA KeptTyped ==
  ASSUME NEW p \in Purchase
  PROVE  keptOf(p) \in Int /\ starsOf(p) \in Int /\ keptOf(p) * starsOf(p) \in Int
<1>1. p.terms.price \in Int /\ p.refunded \in Int /\ p.stars \in 0..5 BY DEF Purchase, Terms
<1>2. keptOf(p) \in Int /\ starsOf(p) \in Int BY <1>1 DEF keptOf, starsOf
<1> QED BY <1>2

LEMMA GainsTyped ==
  ASSUME NEW p \in Purchase, NEW ds, NEW k \in VersionFields \cup SellerFields
  PROVE  gainsOf(p, ds)[k] \in Int
<1> DEFINE x == gainsOf(p, ds)
<1>1. /\ x.settledCount \in Int /\ x.fullRefunds \in Int /\ x.retainedVolume \in Int
      /\ x.qualifyingTx \in Int /\ x.disputesOpened \in Int /\ x.disputesUpheld \in Int
      /\ x.ratingCount \in Int /\ x.ratingSum \in Int /\ x.ratedRetained \in Int
      /\ x.weightedRatingSum \in Int
  BY CountedFields, KeptTyped DEF gainsOf, one
<1> HIDE DEF x
<1>2. x[k] \in Int BY <1>1 DEF VersionFields, SellerFields
<1> QED BY <1>2 DEF x

\* The tables hold numbers.
RepNumbers ==
  /\ \A v, k : k \in VersionFields => ofVersion(v, k) \in [PurchaseId -> Int]
  /\ \A a, k : k \in SellerFields => ofSeller(a, k) \in [PurchaseId -> Int]
  /\ \A a, k : k \in SharedFields => ofCatalog(a, k) \in [VersionId -> Int]

LEMMA RepTyped == Linked => RepNumbers
<1> SUFFICES ASSUME Linked PROVE RepNumbers OBVIOUS
<1>1. \A i \in PurchaseId : purchases[i] \in Purchase BY DEF Linked, PurchaseInv, TypePurchases
<1>2. ASSUME NEW v, NEW k \in VersionFields PROVE ofVersion(v, k) \in [PurchaseId -> Int]
  <2>1. \A i \in PurchaseId : inVersion(purchases[i], disputes, v, k) \in Int
    BY <1>1, GainsTyped DEF inVersion
  <2> QED BY <2>1, RepEntries
<1>3. ASSUME NEW a, NEW k \in SellerFields PROVE ofSeller(a, k) \in [PurchaseId -> Int]
  <2>1. \A i \in PurchaseId : inSeller(purchases[i], disputes, a, k) \in Int
    BY <1>1, GainsTyped DEF inSeller
  <2> QED BY <2>1, RepEntries
<1>4. ASSUME NEW a, NEW k \in SharedFields PROVE ofCatalog(a, k) \in [VersionId -> Int]
  <2>1. \A v \in VersionId : versionStats[v] \in VersionStats BY DEF Linked, TypeRecords
  <2>2. \A v \in VersionId : versionStats[v][k] \in Int BY <2>1 DEF VersionStats, SharedFields
  <2>3. \A v \in VersionId : inCatalog(versions[v], versionStats[v], a, k) \in Int
    BY <2>2 DEF inCatalog
  <2> QED BY <2>3, RepEntries
<1> QED BY <1>2, <1>3, <1>4 DEF RepNumbers

LEMMA RepTypedNext == ASSUME Linked' PROVE RepNumbers'
BY RepTyped, PTL

\* A call about purchase i moves the figures of its version and seller by what it adds to
\* the purchase's, and no others.
Follows(s, t, x, y, fields) == \A k \in fields : t[k] = s[k] + y[k] - x[k]

StatsFollow(i) ==
  LET p == purchases[i]
      q == purchases'[i]
      x == gainsOf(p, disputes)
      y == gainsOf(q, disputes')
  IN /\ OnlyPurchase(i) /\ p.state # "None" /\ q.state # "None" /\ UNCHANGED versions
     /\ q.version = p.version /\ q.seller = p.seller
     /\ Follows(versionStats[p.version], versionStats'[p.version], x, y, VersionFields)
     /\ Follows(sellerStats[p.seller], sellerStats'[p.seller], x, y, SellerFields)
     /\ \A v \in VersionId \ {p.version} : versionStats'[v] = versionStats[v]
     /\ \A a \in Accounts \ {p.seller} : sellerStats'[a] = sellerStats[a]

OthersStay(i) == \A j \in PurchaseId \ {i} :
  gainsOf(purchases'[j], disputes') = gainsOf(purchases[j], disputes)

\* Then the figures keep counting every purchase.
LEMMA VersionsFollow ==
  ASSUME Linked, Linked', VersionsCount, NEW i \in PurchaseId, StatsFollow(i), OthersStay(i)
  PROVE  VersionsCount'
<1> DEFINE p == purchases[i]
           q == purchases'[i]
           x == gainsOf(p, disputes)
           y == gainsOf(q, disputes')
<1> SUFFICES ASSUME NEW v \in VersionId, NEW k \in VersionFields
             PROVE  versionStats'[v][k] = SumFunction(ofVersion(v, k)')
  BY DEF VersionsCount
<1> DEFINE f == ofVersion(v, k)
           h == ofVersion(v, k)'
<1>1. f \in [PurchaseId -> Int] /\ h \in [PurchaseId -> Int]
  BY RepTyped, RepTypedNext DEF RepNumbers
<1>2. /\ \A j \in PurchaseId : f[j] = inVersion(purchases[j], disputes, v, k)
      /\ \A j \in PurchaseId : h[j] = inVersion(purchases'[j], disputes', v, k)
  BY RepEntries, RepEntriesNext
<1>3. \A j \in PurchaseId \ {i} : h[j] = f[j]
  BY <1>2 DEF StatsFollow, OthersStay, OnlyPurchase, inVersion
<1> HIDE DEF f, h
<1>4. SumFunction(h) = SumFunction(f) + h[i] - f[i] BY <1>1, <1>3, SumChange, IdsFinite
<1>5. SumFunction(f) \in Int /\ h[i] \in Int /\ f[i] \in Int BY <1>1, SumTyped, IdsFinite
<1>6. versionStats[v][k] = SumFunction(f) BY DEF VersionsCount, f
<1>7. q.version = p.version BY DEF StatsFollow
<1>8. CASE v = p.version
  <2>1. h[i] = y[k] /\ f[i] = x[k] BY <1>2, <1>7, <1>8 DEF inVersion
  <2>2. versionStats'[v][k] = versionStats[v][k] + y[k] - x[k]
    BY <1>8 DEF StatsFollow, Follows
  <2> HIDE DEF x, y
  <2> QED BY <1>4, <1>5, <1>6, <2>1, <2>2 DEF h
<1>9. CASE v # p.version
  <2>1. h[i] = 0 /\ f[i] = 0 BY <1>2, <1>7, <1>9 DEF inVersion
  <2>2. versionStats'[v] = versionStats[v] BY <1>9 DEF StatsFollow
  <2> QED BY <1>4, <1>5, <1>6, <2>1, <2>2 DEF h
<1> QED BY <1>8, <1>9

LEMMA SellersFollow ==
  ASSUME Linked, Linked', SellersCount, NEW i \in PurchaseId, StatsFollow(i), OthersStay(i)
  PROVE  SellersCount'
<1> DEFINE p == purchases[i]
           q == purchases'[i]
           x == gainsOf(p, disputes)
           y == gainsOf(q, disputes')
<1> SUFFICES ASSUME NEW a \in Accounts, NEW k \in SellerFields
             PROVE  sellerStats'[a][k] = SumFunction(ofSeller(a, k)')
  BY DEF SellersCount
<1> DEFINE f == ofSeller(a, k)
           h == ofSeller(a, k)'
<1>1. f \in [PurchaseId -> Int] /\ h \in [PurchaseId -> Int]
  BY RepTyped, RepTypedNext DEF RepNumbers
<1>2. /\ \A j \in PurchaseId : f[j] = inSeller(purchases[j], disputes, a, k)
      /\ \A j \in PurchaseId : h[j] = inSeller(purchases'[j], disputes', a, k)
  BY RepEntries, RepEntriesNext
<1>3. \A j \in PurchaseId \ {i} : h[j] = f[j]
  BY <1>2 DEF StatsFollow, OthersStay, OnlyPurchase, inSeller
<1> HIDE DEF f, h
<1>4. SumFunction(h) = SumFunction(f) + h[i] - f[i] BY <1>1, <1>3, SumChange, IdsFinite
<1>5. SumFunction(f) \in Int /\ h[i] \in Int /\ f[i] \in Int BY <1>1, SumTyped, IdsFinite
<1>6. sellerStats[a][k] = SumFunction(f) BY DEF SellersCount, f
<1>7. q.seller = p.seller BY DEF StatsFollow
<1>8. CASE a = p.seller
  <2>1. h[i] = y[k] /\ f[i] = x[k] BY <1>2, <1>7, <1>8 DEF inSeller
  <2>2. sellerStats'[a][k] = sellerStats[a][k] + y[k] - x[k]
    BY <1>8 DEF StatsFollow, Follows
  <2> HIDE DEF x, y
  <2> QED BY <1>4, <1>5, <1>6, <2>1, <2>2 DEF h
<1>9. CASE a # p.seller
  <2>1. h[i] = 0 /\ f[i] = 0 BY <1>2, <1>7, <1>9 DEF inSeller
  <2>2. sellerStats'[a] = sellerStats[a] BY <1>9 DEF StatsFollow
  <2> QED BY <1>4, <1>5, <1>6, <2>1, <2>2 DEF h
<1> QED BY <1>8, <1>9

LEMMA CatalogFollows ==
  ASSUME Linked, Linked', CatalogCount, SellersMatch, NEW i \in PurchaseId, StatsFollow(i)
  PROVE  CatalogCount'
<1> DEFINE p == purchases[i]
           v == p.version
           x == gainsOf(p, disputes)
           y == gainsOf(purchases'[i], disputes')
<1> SUFFICES ASSUME NEW a \in Accounts, NEW k \in SharedFields
             PROVE  sellerStats'[a][k] = SumFunction(ofCatalog(a, k)')
  BY DEF CatalogCount
<1> DEFINE f == ofCatalog(a, k)
           h == ofCatalog(a, k)'
<1>0. k \in VersionFields /\ k \in SellerFields BY DEF SharedFields, VersionFields, SellerFields
<1>1. f \in [VersionId -> Int] /\ h \in [VersionId -> Int]
  BY RepTyped, RepTypedNext DEF RepNumbers
<1>2. /\ \A w \in VersionId : f[w] = inCatalog(versions[w], versionStats[w], a, k)
      /\ \A w \in VersionId : h[w] = inCatalog(versions'[w], versionStats'[w], a, k)
  BY RepEntries, RepEntriesNext
<1>3. p.state # "None" /\ versions' = versions BY DEF StatsFollow
<1>4. v \in VersionId /\ versions[v].seller = p.seller
  BY <1>3, OpenPurchase DEF SellersMatch, OfSeller, WellMade, NoPurchase
<1>5. \A w \in VersionId \ {v} : h[w] = f[w] BY <1>2, <1>3 DEF StatsFollow, inCatalog
<1> HIDE DEF f, h
<1>6. SumFunction(h) = SumFunction(f) + h[v] - f[v] BY <1>1, <1>4, <1>5, SumChange, IdsFinite
<1>7. SumFunction(f) \in Int /\ h[v] \in Int /\ f[v] \in Int BY <1>1, <1>4, SumTyped, IdsFinite
<1>8. sellerStats[a][k] = SumFunction(f) BY DEF CatalogCount, f
<1>9. CASE a = p.seller
  <2>1. h[v] = versionStats'[v][k] /\ f[v] = versionStats[v][k]
    BY <1>2, <1>3, <1>4, <1>9 DEF inCatalog
  <2>2. versionStats'[v][k] = versionStats[v][k] + y[k] - x[k]
    BY <1>0 DEF StatsFollow, Follows
  <2>3. sellerStats'[a][k] = sellerStats[a][k] + y[k] - x[k]
    BY <1>0, <1>9 DEF StatsFollow, Follows
  <2>4. x[k] \in Int /\ y[k] \in Int
    <3>1. p \in Purchase /\ purchases'[i] \in Purchase BY DEF Linked, PurchaseInv, TypePurchases
    <3> QED BY <1>0, <3>1, GainsTyped
  <2> HIDE DEF x, y
  <2> QED BY <1>6, <1>7, <1>8, <2>1, <2>2, <2>3, <2>4 DEF h
<1>10. CASE a # p.seller
  <2>1. h[v] = 0 /\ f[v] = 0 BY <1>2, <1>3, <1>4, <1>10 DEF inCatalog
  <2>2. sellerStats'[a] = sellerStats[a] BY <1>10 DEF StatsFollow
  <2> QED BY <1>6, <1>7, <1>8, <2>1, <2>2 DEF h
<1> QED BY <1>9, <1>10

LEMMA RepFollows ==
  ASSUME Linked, Linked', RepInv, DisputeNamed', NEW i \in PurchaseId, StatsFollow(i), OthersStay(i)
  PROVE  RepInv'
<1>1. SellersMatch'
  <2> SUFFICES ASSUME NEW j \in PurchaseId
               PROVE  purchases'[j] = NoPurchase \/ OfSeller(purchases'[j], versions')
    BY DEF SellersMatch
  <2>0. purchases[j] = NoPurchase \/ OfSeller(purchases[j], versions) BY DEF RepInv, SellersMatch
  <2>1. CASE j = i BY <2>0, <2>1 DEF StatsFollow, OfSeller, NoPurchase
  <2>2. CASE j # i BY <2>0, <2>2 DEF StatsFollow, OnlyPurchase
  <2> QED BY <2>1, <2>2
<1>2. VersionsCount' /\ SellersCount' /\ CatalogCount'
  BY VersionsFollow, SellersFollow, CatalogFollows DEF RepInv
<1> QED BY <1>1, <1>2 DEF RepInv

\* A version without a seller was never sold, so its figures are zero.
LEMMA UnsoldVersion ==
  ASSUME Linked, RepInv, NEW v \in VersionId, versions[v].seller = NoAccount,
         NEW k \in VersionFields
  PROVE  versionStats[v][k] = 0
<1>1. ASSUME NEW i \in PurchaseId PROVE inVersion(purchases[i], disputes, v, k) = 0
  <2>1. CASE purchases[i] = NoPurchase
    <3>1. NoPurchase.version \notin VersionId BY DEF NoPurchase, VersionId
    <3> QED BY <2>1, <3>1 DEF inVersion
  <2>2. CASE OfSeller(purchases[i], versions)
    <3>1. purchases[i].seller # NoAccount
      BY <2>2, OpenPurchase, ConstantsOK DEF ConstantsOK, OfSeller, WellMade
    <3>2. purchases[i].version # v BY <2>2, <3>1 DEF OfSeller
    <3> QED BY <3>2 DEF inVersion
  <2> QED BY <2>1, <2>2 DEF RepInv, SellersMatch
<1>2. ofVersion(v, k) = [i \in PurchaseId |-> 0] BY <1>1, RepEntries
<1> QED BY <1>2, SumZero, IdsFinite DEF RepInv, VersionsCount

\* A step that counts nothing: every purchase keeps its figures, or has none yet.
Uncounted(p, ds) == \A k \in VersionFields \cup SellerFields : gainsOf(p, ds)[k] = 0
SameGains(j) ==
  \/ /\ purchases'[j].version = purchases[j].version /\ purchases'[j].seller = purchases[j].seller
     /\ gainsOf(purchases'[j], disputes') = gainsOf(purchases[j], disputes)
  \/ Uncounted(purchases[j], disputes) /\ Uncounted(purchases'[j], disputes')

LEMMA RepIdle ==
  ASSUME Linked, RepInv, UNCHANGED stats, \A j \in PurchaseId : SameGains(j),
         \A v \in VersionId : versions[v].seller = NoAccount
                              \/ versions'[v].seller = versions[v].seller,
         SellersMatch', DisputeNamed'
  PROVE  RepInv'
<1>1. versionStats' = versionStats /\ sellerStats' = sellerStats BY DEF stats
<1>2. ASSUME NEW v \in VersionId, NEW k \in VersionFields PROVE ofVersion(v, k)' = ofVersion(v, k)
  <2>1. \A j \in PurchaseId :
          inVersion(purchases'[j], disputes', v, k) = inVersion(purchases[j], disputes, v, k)
    BY DEF SameGains, Uncounted, inVersion
  <2> QED BY <2>1, RepEntries, RepEntriesNext
<1>3. ASSUME NEW a \in Accounts, NEW k \in SellerFields PROVE ofSeller(a, k)' = ofSeller(a, k)
  <2>1. \A j \in PurchaseId :
          inSeller(purchases'[j], disputes', a, k) = inSeller(purchases[j], disputes, a, k)
    BY DEF SameGains, Uncounted, inSeller
  <2> QED BY <2>1, RepEntries, RepEntriesNext
<1>4. ASSUME NEW a \in Accounts, NEW k \in SharedFields PROVE ofCatalog(a, k)' = ofCatalog(a, k)
  <2>1. k \in VersionFields BY DEF SharedFields, VersionFields
  <2>2. \A v \in VersionId : inCatalog(versions'[v], versionStats'[v], a, k)
                               = inCatalog(versions[v], versionStats[v], a, k)
    BY <1>1, <2>1, UnsoldVersion DEF inCatalog
  <2> QED BY <2>2, RepEntries, RepEntriesNext
<1>5. VersionsCount' BY <1>1, <1>2 DEF VersionsCount, RepInv
<1>6. SellersCount' BY <1>1, <1>3 DEF SellersCount, RepInv
<1>7. CatalogCount' BY <1>1, <1>4 DEF CatalogCount, RepInv
<1> QED BY <1>5, <1>6, <1>7 DEF RepInv

\* A listing keeps its seller: only the next version gets one.
LEMMA SellersStay ==
  ASSUME Linked, MoneyInv, OutsideCall, NEW v \in VersionId
  PROVE  versions[v].seller = NoAccount \/ versions'[v].seller = versions[v].seller
<1> DEFINE Stays == versions[v].seller = NoAccount \/ versions'[v].seller = versions[v].seller
<1>0. versions \in [VersionId -> Version] /\ nextVersionId \in Int
  BY DEF Linked, CatalogInv, TypeCatalog
<1>1. ASSUME NEW a, NEW l, NEW t, addVersion(a, l, t) PROVE Stays
  <2>1. CASE v = nextVersionId
    <3>1. v >= nextVersionId BY <1>0, <2>1
    <3> QED BY <3>1 DEF MoneyInv, Unlisted
  <2>2. CASE v # nextVersionId
    <3> DEFINE r == [seller |-> a, listing |-> l, terms |-> effectiveTerms(t),
                     report |-> FALSE, active |-> TRUE]
    <3>1. versions' = [versions EXCEPT ![nextVersionId] = r] BY <1>1 DEF addVersion
    <3> HIDE DEF r
    <3> QED BY <1>0, <2>2, <3>1
  <2> QED BY <2>1, <2>2
<1>2. ASSUME NEW w \in VersionId, NEW r, versions' = [versions EXCEPT ![w] = r],
             r.seller = versions[w].seller
      PROVE  Stays
  BY <1>0, <1>2
<1>3. ASSUME NEW w \in VersionId, NEW b, setVersionActive(w, b) PROVE Stays
  <2> DEFINE r == [versions[w] EXCEPT !.active = b]
  <2>1. versions' = [versions EXCEPT ![w] = r] BY <1>3 DEF setVersionActive
  <2>2. r.seller = versions[w].seller BY <1>0 DEF Version
  <2> HIDE DEF r
  <2> QED BY <1>2, <2>1, <2>2
<1>4. ASSUME NEW w \in VersionId, NEW s, attachReport(w, s) PROVE Stays
  <2> DEFINE r == [versions[w] EXCEPT !.report = TRUE]
  <2>1. versions' = [versions EXCEPT ![w] = r] BY <1>4 DEF attachReport
  <2>2. r.seller = versions[w].seller BY <1>0 DEF Version
  <2> HIDE DEF r
  <2> QED BY <1>2, <2>1, <2>2
<1>5. ASSUME UNCHANGED catalog PROVE Stays BY <1>5 DEF catalog
<1>6. ASSUME NEW w, NEW f, requestPreview(w, f) PROVE Stays BY <1>5, <1>6 DEF requestPreview
<1>7. ASSUME NEW w, reclaimPreviewFee(w) PROVE Stays BY <1>5, <1>7 DEF reclaimPreviewFee
<1>8. ASSUME NEW a, NEW n, depositCollateral(a, n) \/ withdrawCollateral(a, n) PROVE Stays
  BY <1>5, <1>8 DEF depositCollateral, withdrawCollateral
<1> HIDE DEF Stays
<1>9. Selling => Stays
  BY <1>1, <1>3, <1>4, <1>6, <1>7, <1>8 DEF Selling, createListing, newVersion
<1>10. ASSUME NEW a, withdraw(a) PROVE Stays BY <1>5, <1>10 DEF withdraw
<1>11. ASSUME NEW a, NEW n, depositJurorStake(a, n) \/ withdrawJurorStake(a, n) PROVE Stays
  BY <1>5, <1>11 DEF depositJurorStake, withdrawJurorStake
<1>12. NewBlock \/ Admin \/ UNCHANGED vars => Stays
  BY <1>5, BlockFrame, AdminFrame DEF vars
<1>13. Stays BY <1>9, <1>10, <1>11, <1>12 DEF OutsideCall
<1> QED BY <1>13 DEF Stays

\* Before delivery is settled or disputed a purchase has added nothing.
LEMMA NothingCounted ==
  ASSUME NEW p, p.state \in {"None", "Funded", "Delivered"}, p.dispute = 0, ~p.rated, NEW ds
  PROVE  Uncounted(p, ds)
<1> DEFINE x == gainsOf(p, ds)
<1>1. ~upheldIn(p, ds) /\ keptOf(p) = 0 /\ starsOf(p) = 0 BY DEF upheldIn, keptOf, starsOf
<1>2. /\ x.settledCount = 0 /\ x.fullRefunds = 0 /\ x.retainedVolume = 0 /\ x.qualifyingTx = 0
      /\ x.disputesOpened = 0 /\ x.disputesUpheld = 0 /\ x.ratingCount = 0 /\ x.ratingSum = 0
      /\ x.ratedRetained = 0 /\ x.weightedRatingSum = 0
  BY <1>1, CountedFields DEF gainsOf, one
<1> HIDE DEF x
<1>3. \A k \in VersionFields \cup SellerFields : x[k] = 0
  BY <1>2 DEF VersionFields, SellerFields
<1> QED BY <1>3 DEF x, Uncounted

LEMMA UncountedFields ==
  ASSUME NEW p, NEW ds, Uncounted(p, ds)
  PROVE  LET x == gainsOf(p, ds) IN
         /\ x.settledCount = 0 /\ x.fullRefunds = 0 /\ x.retainedVolume = 0 /\ x.qualifyingTx = 0
         /\ x.disputesOpened = 0 /\ x.disputesUpheld = 0 /\ x.ratingCount = 0 /\ x.ratingSum = 0
         /\ x.ratedRetained = 0 /\ x.weightedRatingSum = 0
BY DEF Uncounted, VersionFields, SellerFields

LEMMA NotCountedYet ==
  ASSUME Linked, CaseInv, DisputeNamed, NEW i \in PurchaseId,
         purchases[i].state \in {"Funded", "Delivered"}
  PROVE  /\ purchases[i].dispute = 0 /\ ~purchases[i].rated /\ purchases[i].refunded = 0
         /\ Uncounted(purchases[i], disputes)
<1> DEFINE p == purchases[i]
<1>1. ~p.rated /\ p.refunded = 0 BY DEF CaseInv, Sales, SaleSound
<1>2. p.dispute = 0
  <2> SUFFICES ASSUME p.dispute # 0 PROVE FALSE OBVIOUS
  <2>1. /\ p.dispute \in DisputeId /\ disputes[p.dispute].status # "None"
        /\ disputes[p.dispute].purchase = i
    BY DEF DisputeNamed
  <2>2. p.state = "Settled" \/ p.state = "Disputed" BY <2>1 DEF CaseInv, Links, CaseSound
  <2> QED BY <2>2
<1> QED BY <1>1, <1>2, NothingCounted

\* Field by field.
LEMMA VersionFollows ==
  ASSUME NEW s, NEW t, NEW x, NEW y,
         t.ratingSum = s.ratingSum + y.ratingSum - x.ratingSum,
         t.ratingCount = s.ratingCount + y.ratingCount - x.ratingCount,
         t.settledCount = s.settledCount + y.settledCount - x.settledCount,
         t.disputesOpened = s.disputesOpened + y.disputesOpened - x.disputesOpened,
         t.disputesUpheld = s.disputesUpheld + y.disputesUpheld - x.disputesUpheld,
         t.retainedVolume = s.retainedVolume + y.retainedVolume - x.retainedVolume
  PROVE  Follows(s, t, x, y, VersionFields)
BY DEF Follows, VersionFields

LEMMA SellerFollows ==
  ASSUME NEW s, NEW t, NEW x, NEW y,
         t.qualifyingTx = s.qualifyingTx + y.qualifyingTx - x.qualifyingTx,
         t.disputesOpened = s.disputesOpened + y.disputesOpened - x.disputesOpened,
         t.disputesUpheld = s.disputesUpheld + y.disputesUpheld - x.disputesUpheld,
         t.fullRefunds = s.fullRefunds + y.fullRefunds - x.fullRefunds,
         t.retainedVolume = s.retainedVolume + y.retainedVolume - x.retainedVolume,
         t.weightedRatingSum = s.weightedRatingSum + y.weightedRatingSum - x.weightedRatingSum,
         t.ratedRetained = s.ratedRetained + y.ratedRetained - x.ratedRetained
  PROVE  Follows(s, t, x, y, SellerFields)
BY DEF Follows, SellerFields

LEMMA StatsInt ==
  ASSUME Linked, NEW i \in PurchaseId, purchases[i].state # "None"
  PROVE  LET p == purchases[i]
             s == versionStats[p.version]
             t == sellerStats[p.seller]
         IN /\ p.version \in VersionId /\ p.seller \in Accounts
            /\ versionStats \in [VersionId -> VersionStats] /\ s \in VersionStats
            /\ sellerStats \in [Accounts -> SellerStats] /\ t \in SellerStats
            /\ s.ratingSum \in Int /\ s.ratingCount \in Int /\ s.settledCount \in Int
            /\ s.disputesOpened \in Int /\ s.disputesUpheld \in Int /\ s.retainedVolume \in Int
            /\ t.qualifyingTx \in Int /\ t.disputesOpened \in Int /\ t.disputesUpheld \in Int
            /\ t.fullRefunds \in Int /\ t.retainedVolume \in Int
            /\ t.weightedRatingSum \in Int /\ t.ratedRetained \in Int
<1> DEFINE p == purchases[i]
           s == versionStats[p.version]
           t == sellerStats[p.seller]
<1>1. p.version \in VersionId /\ p.seller \in Accounts BY OpenPurchase DEF WellMade
<1>2. versionStats \in [VersionId -> VersionStats] /\ sellerStats \in [Accounts -> SellerStats]
  BY DEF Linked, TypeRecords
<1>3. s \in VersionStats /\ t \in SellerStats BY <1>1, <1>2
<1> HIDE DEF s, t
<1>4. /\ s.ratingSum \in Int /\ s.ratingCount \in Int /\ s.settledCount \in Int
      /\ s.disputesOpened \in Int /\ s.disputesUpheld \in Int /\ s.retainedVolume \in Int
  BY <1>3 DEF VersionStats
<1>5. /\ t.qualifyingTx \in Int /\ t.disputesOpened \in Int /\ t.disputesUpheld \in Int
      /\ t.fullRefunds \in Int /\ t.retainedVolume \in Int
      /\ t.weightedRatingSum \in Int /\ t.ratedRetained \in Int
  BY <1>3 DEF SellerStats
<1> QED BY <1>1, <1>2, <1>3, <1>4, <1>5 DEF s, t

\* Writing one record of each table.
LEMMA OwnStats ==
  ASSUME Linked, NEW i \in PurchaseId, OnlyPurchase(i), Kept(purchases[i], purchases'[i]),
         purchases[i].state # "None", purchases'[i].state # "None", UNCHANGED versions,
         NEW vs, NEW ss,
         versionStats' = [versionStats EXCEPT ![purchases[i].version] = vs],
         sellerStats' = [sellerStats EXCEPT ![purchases[i].seller] = ss],
         Follows(versionStats[purchases[i].version], vs, gainsOf(purchases[i], disputes),
                 gainsOf(purchases'[i], disputes'), VersionFields),
         Follows(sellerStats[purchases[i].seller], ss, gainsOf(purchases[i], disputes),
                 gainsOf(purchases'[i], disputes'), SellerFields)
  PROVE  StatsFollow(i)
<1> DEFINE p == purchases[i]
<1>1. /\ p.version \in VersionId /\ p.seller \in Accounts
      /\ versionStats \in [VersionId -> VersionStats] /\ sellerStats \in [Accounts -> SellerStats]
  BY StatsInt
<1>2. /\ versionStats'[p.version] = vs /\ sellerStats'[p.seller] = ss
      /\ \A v \in VersionId \ {p.version} : versionStats'[v] = versionStats[v]
      /\ \A a \in Accounts \ {p.seller} : sellerStats'[a] = sellerStats[a]
  BY <1>1
<1> QED BY <1>2 DEF StatsFollow, Kept

\* A dispute is named by one purchase, so what happens to it leaves the others' figures.
LEMMA OtherCases ==
  ASSUME DisputeNamed', NEW i \in PurchaseId, OnlyPurchase(i), NEW d, OnlyDispute(d),
         disputes'[d].purchase = i
  PROVE  OthersStay(i)
<1> SUFFICES ASSUME NEW j \in PurchaseId \ {i}
             PROVE  gainsOf(purchases'[j], disputes') = gainsOf(purchases[j], disputes)
  BY DEF OthersStay
<1>1. purchases'[j] = purchases[j] BY DEF OnlyPurchase
<1>2. purchases'[j].dispute # 0 =>
        purchases'[j].dispute \in DisputeId /\ disputes'[purchases'[j].dispute].purchase = j
  BY DEF DisputeNamed
<1>3. purchases[j].dispute # 0 =>
        disputes'[purchases[j].dispute] = disputes[purchases[j].dispute]
  BY <1>1, <1>2 DEF OnlyDispute
<1>4. upheldIn(purchases'[j], disputes') = upheldIn(purchases[j], disputes)
  BY <1>1, <1>3 DEF upheldIn
<1> QED BY <1>1, <1>4 DEF gainsOf

\* A refund for want of delivery is one of the seller's full refunds.
LEMMA RefundStats ==
  ASSUME Linked, CaseInv, DisputeNamed, NEW i \in PurchaseId, refundUndelivered(i)
  PROVE  StatsFollow(i) /\ OthersStay(i)
<1> DEFINE p == purchases[i]
           q == purchases'[i]
           s == sellerStats[p.seller]
           ss == [s EXCEPT !.fullRefunds = @ + 1]
           x == gainsOf(p, disputes)
           y == gainsOf(q, disputes')
<1>1. p.state = "Funded" BY DEF refundUndelivered
<1>2. OnlyPurchase(i) /\ RefundStep(p, q) /\ UNCHANGED disputes
  <2>1. /\ OnlyPurchase(i) /\ UNCHANGED disputes
        /\ DeliverStep(p, q) \/ RefundStep(p, q) \/ CloseStep(p, q) \/ RateStep(p, q)
    BY SaleMoves
  <2>2. purchases \in [PurchaseId -> Purchase] BY DEF Linked, PurchaseInv, TypePurchases
  <2>3. q.state = "Refunded" BY <2>2 DEF refundUndelivered, Purchase
  <2> QED BY <2>1, <2>3 DEF DeliverStep, CloseStep, Closes, RateStep
<1>3. p.dispute = 0 /\ ~p.rated /\ Uncounted(p, disputes) BY <1>1, NotCountedYet
<1>4. q.state = "Refunded" /\ Kept(p, q) /\ q.dispute = 0 /\ ~q.rated
  BY <1>2, <1>3 DEF RefundStep
<1>5. /\ versionStats' = [versionStats EXCEPT ![p.version] = versionStats[p.version]]
      /\ sellerStats' = [sellerStats EXCEPT ![p.seller] = ss] /\ versions' = versions
  <2>1. versionStats' = versionStats BY DEF refundUndelivered
  <2>2. versionStats \in [VersionId -> VersionStats] BY DEF Linked, TypeRecords
  <2> QED BY <2>1, <2>2 DEF refundUndelivered, catalog
<1>6. /\ x.settledCount = 0 /\ x.fullRefunds = 0 /\ x.retainedVolume = 0 /\ x.qualifyingTx = 0
      /\ x.disputesOpened = 0 /\ x.disputesUpheld = 0 /\ x.ratingCount = 0 /\ x.ratingSum = 0
      /\ x.ratedRetained = 0 /\ x.weightedRatingSum = 0
  BY <1>3, UncountedFields
<1>7. /\ y.settledCount = 0 /\ y.fullRefunds = 1 /\ y.retainedVolume = 0 /\ y.qualifyingTx = 0
      /\ y.disputesOpened = 0 /\ y.disputesUpheld = 0 /\ y.ratingCount = 0 /\ y.ratingSum = 0
      /\ y.ratedRetained = 0 /\ y.weightedRatingSum = 0
  <2> HIDE DEF q
  <2>1. ~upheldIn(q, disputes') /\ keptOf(q) = 0 /\ starsOf(q) = 0
    BY <1>4 DEF upheldIn, keptOf, starsOf
  <2> QED BY <1>4, <2>1, CountedFields DEF gainsOf, one
<1>8. /\ s \in SellerStats /\ versionStats[p.version] \in VersionStats
      /\ versionStats[p.version].ratingSum \in Int /\ versionStats[p.version].ratingCount \in Int
      /\ versionStats[p.version].settledCount \in Int
      /\ versionStats[p.version].disputesOpened \in Int
      /\ versionStats[p.version].disputesUpheld \in Int
      /\ versionStats[p.version].retainedVolume \in Int
      /\ s.qualifyingTx \in Int /\ s.disputesOpened \in Int /\ s.disputesUpheld \in Int
      /\ s.fullRefunds \in Int /\ s.retainedVolume \in Int
      /\ s.weightedRatingSum \in Int /\ s.ratedRetained \in Int
  BY <1>1, StatsInt
<1> HIDE DEF x, y, s
<1>9. /\ ss.qualifyingTx = s.qualifyingTx /\ ss.disputesOpened = s.disputesOpened
      /\ ss.disputesUpheld = s.disputesUpheld /\ ss.fullRefunds = s.fullRefunds + 1
      /\ ss.retainedVolume = s.retainedVolume
      /\ ss.weightedRatingSum = s.weightedRatingSum /\ ss.ratedRetained = s.ratedRetained
  BY <1>8 DEF SellerStats
<1> HIDE DEF ss
<1>10. Follows(versionStats[p.version], versionStats[p.version], x, y, VersionFields)
  BY <1>6, <1>7, <1>8, VersionFollows
<1>11. Follows(s, ss, x, y, SellerFields) BY <1>6, <1>7, <1>8, <1>9, SellerFollows
<1>12. StatsFollow(i)
  BY <1>1, <1>2, <1>4, <1>5, <1>10, <1>11, OwnStats DEF x, y, s
<1> QED BY <1>2, <1>12 DEF OthersStay, OnlyPurchase

\* A dispute counts when it is opened, and not yet as upheld.
LEMMA OpenStats ==
  ASSUME Linked, CaseInv, DisputeNamed, DisputeNamed', NEW i \in PurchaseId, NEW g \in Grounds,
         NEW m \in SUBSET (1..purchases[i].terms.taskCount), openDispute(i, g, m)
  PROVE  StatsFollow(i) /\ OthersStay(i)
<1> DEFINE p == purchases[i]
           q == purchases'[i]
           d == nextDisputeId
           w == versionStats[p.version]
           s == sellerStats[p.seller]
           vs == [w EXCEPT !.disputesOpened = @ + 1]
           ss == [s EXCEPT !.disputesOpened = @ + 1]
           x == gainsOf(p, disputes)
           y == gainsOf(q, disputes')
<1>1. p.state = "Delivered" BY DEF openDispute
<1>2. /\ OnlyPurchase(i) /\ OnlyDispute(d) /\ DisputeStep(p, q) /\ q.dispute = d
      /\ d \in DisputeId /\ disputes'[d].purchase = i
      /\ disputes'[d].status \in {"AwaitingSelection", "Voting"}
  BY OpenMoves
<1>3. p.dispute = 0 /\ ~p.rated /\ Uncounted(p, disputes) BY <1>1, NotCountedYet
<1>4. q.state = "Disputed" /\ Kept(p, q) /\ ~q.rated BY <1>2, <1>3 DEF DisputeStep
<1>5. /\ versionStats' = [versionStats EXCEPT ![p.version] = vs]
      /\ sellerStats' = [sellerStats EXCEPT ![p.seller] = ss] /\ versions' = versions
  BY DEF openDispute, catalog
<1>6. /\ x.settledCount = 0 /\ x.fullRefunds = 0 /\ x.retainedVolume = 0 /\ x.qualifyingTx = 0
      /\ x.disputesOpened = 0 /\ x.disputesUpheld = 0 /\ x.ratingCount = 0 /\ x.ratingSum = 0
      /\ x.ratedRetained = 0 /\ x.weightedRatingSum = 0
  BY <1>3, UncountedFields
<1>7. /\ y.settledCount = 0 /\ y.fullRefunds = 0 /\ y.retainedVolume = 0 /\ y.qualifyingTx = 0
      /\ y.disputesOpened = 1 /\ y.disputesUpheld = 0 /\ y.ratingCount = 0 /\ y.ratingSum = 0
      /\ y.ratedRetained = 0 /\ y.weightedRatingSum = 0
  <2> HIDE DEF q, d
  <2>1. q.dispute # 0 BY <1>2 DEF DisputeId, PurchaseId
  <2>2. ~upheldIn(q, disputes') /\ keptOf(q) = 0 /\ starsOf(q) = 0
    BY <1>2, <1>4 DEF upheldIn, keptOf, starsOf
  <2> QED BY <1>4, <2>1, <2>2, CountedFields DEF gainsOf, one
<1>8. /\ s \in SellerStats /\ w \in VersionStats
      /\ w.ratingSum \in Int /\ w.ratingCount \in Int /\ w.settledCount \in Int
      /\ w.disputesOpened \in Int /\ w.disputesUpheld \in Int /\ w.retainedVolume \in Int
      /\ s.qualifyingTx \in Int /\ s.disputesOpened \in Int /\ s.disputesUpheld \in Int
      /\ s.fullRefunds \in Int /\ s.retainedVolume \in Int
      /\ s.weightedRatingSum \in Int /\ s.ratedRetained \in Int
  BY <1>1, StatsInt
<1> HIDE DEF x, y, s, w
<1>9. /\ ss.qualifyingTx = s.qualifyingTx /\ ss.disputesOpened = s.disputesOpened + 1
      /\ ss.disputesUpheld = s.disputesUpheld /\ ss.fullRefunds = s.fullRefunds
      /\ ss.retainedVolume = s.retainedVolume
      /\ ss.weightedRatingSum = s.weightedRatingSum /\ ss.ratedRetained = s.ratedRetained
  BY <1>8 DEF SellerStats
<1>10. /\ vs.ratingSum = w.ratingSum /\ vs.ratingCount = w.ratingCount
       /\ vs.settledCount = w.settledCount /\ vs.disputesOpened = w.disputesOpened + 1
       /\ vs.disputesUpheld = w.disputesUpheld /\ vs.retainedVolume = w.retainedVolume
  BY <1>8 DEF VersionStats
<1> HIDE DEF ss, vs
<1>11. Follows(w, vs, x, y, VersionFields) BY <1>6, <1>7, <1>8, <1>10, VersionFollows
<1>12. Follows(s, ss, x, y, SellerFields) BY <1>6, <1>7, <1>8, <1>9, SellerFollows
<1>13. StatsFollow(i)
  BY <1>1, <1>2, <1>4, <1>5, <1>11, <1>12, OwnStats DEF x, y, s, w
<1>14. OthersStay(i) BY <1>2, OtherCases
<1> QED BY <1>13, <1>14

\* What closing adds to the statistics.
LEMMA ClosedCounts ==
  ASSUME NEW w \in VersionStats, NEW s \in SellerStats, NEW p, NEW refund, NEW upheld \in BOOLEAN
  PROVE  LET vs == closedVersionStats(w, p, refund, upheld)
             ss == closedSellerStats(s, p, refund, upheld)
             kept == p.terms.price - refund
         IN /\ vs.ratingSum = w.ratingSum /\ vs.ratingCount = w.ratingCount
            /\ vs.settledCount = w.settledCount + 1 /\ vs.disputesOpened = w.disputesOpened
            /\ vs.disputesUpheld = w.disputesUpheld + one(upheld)
            /\ vs.retainedVolume = w.retainedVolume + kept
            /\ ss.qualifyingTx = s.qualifyingTx + one(kept > 0)
            /\ ss.disputesOpened = s.disputesOpened
            /\ ss.disputesUpheld = s.disputesUpheld + one(upheld)
            /\ ss.fullRefunds = s.fullRefunds /\ ss.retainedVolume = s.retainedVolume + kept
            /\ ss.weightedRatingSum = s.weightedRatingSum /\ ss.ratedRetained = s.ratedRetained
<1>1. /\ w.disputesUpheld \in Int /\ s.disputesUpheld \in Int /\ s.qualifyingTx \in Int
  BY DEF VersionStats, SellerStats
<1> QED BY <1>1 DEF VersionStats, SellerStats, closedVersionStats, closedSellerStats, one

\* A purchase that closes counts as sold at what it kept, and its dispute as upheld or not.
LEMMA ClosedStats ==
  ASSUME Linked, NEW i \in PurchaseId, OnlyPurchase(i),
         purchases[i].state \in {"Delivered", "Disputed"}, Kept(purchases[i], purchases'[i]),
         purchases[i].refunded = 0, ~purchases[i].rated, ~purchases'[i].rated,
         purchases'[i].dispute = purchases[i].dispute,
         NEW refund \in Int, Closes(purchases[i], purchases'[i], refund),
         NEW upheld \in BOOLEAN, ~upheldIn(purchases[i], disputes),
         upheldIn(purchases'[i], disputes') <=> upheld, UNCHANGED versions,
         versionStats' = [versionStats EXCEPT ![purchases[i].version] =
           closedVersionStats(@, purchases[i], refund, upheld)],
         sellerStats' = [sellerStats EXCEPT ![purchases[i].seller] =
           closedSellerStats(@, purchases[i], refund, upheld)]
  PROVE  StatsFollow(i)
<1> DEFINE p == purchases[i]
           q == purchases'[i]
           w == versionStats[p.version]
           s == sellerStats[p.seller]
           vs == closedVersionStats(w, p, refund, upheld)
           ss == closedSellerStats(s, p, refund, upheld)
           x == gainsOf(p, disputes)
           y == gainsOf(q, disputes')
           kept == p.terms.price - refund
<1>1. p.state # "None" /\ p.state # "Settled" /\ p.state # "Refunded" OBVIOUS
<1>2. q.state = "Settled" /\ q.terms = p.terms /\ q.refunded = refund BY DEF Closes, Kept
<1>3. p \in Purchase /\ p.terms.price \in Int BY <1>1, OpenPurchase, PurchaseNat
<1>4. kept \in Int BY <1>3
<1>5. /\ versionStats' = [versionStats EXCEPT ![p.version] = vs]
      /\ sellerStats' = [sellerStats EXCEPT ![p.seller] = ss]
  OBVIOUS
<1>6. /\ x.settledCount = 0 /\ x.fullRefunds = 0 /\ x.retainedVolume = 0 /\ x.qualifyingTx = 0
      /\ x.disputesOpened = one(p.dispute # 0) /\ x.disputesUpheld = 0
      /\ x.ratingCount = 0 /\ x.ratingSum = 0 /\ x.ratedRetained = 0 /\ x.weightedRatingSum = 0
  <2>1. keptOf(p) = 0 /\ starsOf(p) = 0 BY <1>1 DEF keptOf, starsOf
  <2> QED BY <1>1, <2>1, CountedFields DEF gainsOf, one
<1>7. /\ y.settledCount = 1 /\ y.fullRefunds = 0 /\ y.retainedVolume = kept
      /\ y.qualifyingTx = one(kept > 0)
      /\ y.disputesOpened = one(p.dispute # 0) /\ y.disputesUpheld = one(upheld)
      /\ y.ratingCount = 0 /\ y.ratingSum = 0 /\ y.ratedRetained = 0 /\ y.weightedRatingSum = 0
  <2>1. keptOf(q) = kept /\ starsOf(q) = 0 BY <1>2 DEF keptOf, starsOf
  <2>2. kept * 0 = 0 BY <1>4
  <2>3. q.dispute = p.dispute /\ ~q.rated /\ (upheldIn(q, disputes') <=> upheld) OBVIOUS
  <2> HIDE DEF q, kept
  <2> QED BY <1>2, <2>1, <2>2, <2>3, CountedFields DEF gainsOf, one
<1>8. /\ s \in SellerStats /\ w \in VersionStats
      /\ w.ratingSum \in Int /\ w.ratingCount \in Int /\ w.settledCount \in Int
      /\ w.disputesOpened \in Int /\ w.disputesUpheld \in Int /\ w.retainedVolume \in Int
      /\ s.qualifyingTx \in Int /\ s.disputesOpened \in Int /\ s.disputesUpheld \in Int
      /\ s.fullRefunds \in Int /\ s.retainedVolume \in Int
      /\ s.weightedRatingSum \in Int /\ s.ratedRetained \in Int
  BY <1>1, StatsInt
<1>9. one(p.dispute # 0) \in Int /\ one(upheld) \in Int /\ one(kept > 0) \in Int BY DEF one
<1> HIDE DEF x, y, s, w
<1>10. /\ vs.ratingSum = w.ratingSum /\ vs.ratingCount = w.ratingCount
       /\ vs.settledCount = w.settledCount + 1 /\ vs.disputesOpened = w.disputesOpened
       /\ vs.disputesUpheld = w.disputesUpheld + one(upheld)
       /\ vs.retainedVolume = w.retainedVolume + kept
       /\ ss.qualifyingTx = s.qualifyingTx + one(kept > 0)
       /\ ss.disputesOpened = s.disputesOpened
       /\ ss.disputesUpheld = s.disputesUpheld + one(upheld)
       /\ ss.fullRefunds = s.fullRefunds /\ ss.retainedVolume = s.retainedVolume + kept
       /\ ss.weightedRatingSum = s.weightedRatingSum /\ ss.ratedRetained = s.ratedRetained
  BY <1>8, ClosedCounts
<1> HIDE DEF ss, vs, kept
<1>11. Follows(w, vs, x, y, VersionFields)
  BY <1>4, <1>6, <1>7, <1>8, <1>9, <1>10, VersionFollows
<1>12. Follows(s, ss, x, y, SellerFields)
  BY <1>4, <1>6, <1>7, <1>8, <1>9, <1>10, SellerFollows
<1> QED BY <1>1, <1>2, <1>5, <1>11, <1>12, OwnStats DEF x, y, s, w

\* A rating counts once, and weighs what its sale kept.
LEMMA RateStats ==
  ASSUME Linked, NEW i \in PurchaseId, NEW n \in StarChoices, rate(i, n)
  PROVE  StatsFollow(i) /\ OthersStay(i)
<1> DEFINE p == purchases[i]
           q == purchases'[i]
           w == versionStats[p.version]
           s == sellerStats[p.seller]
           kept == p.terms.price - p.refunded
           vs == [w EXCEPT !.ratingSum = @ + n, !.ratingCount = @ + 1]
           ss == [s EXCEPT !.weightedRatingSum = @ + kept * n, !.ratedRetained = @ + kept]
           x == gainsOf(p, disputes)
           y == gainsOf(q, disputes')
<1>1. p.state = "Settled" /\ ~p.rated /\ n \in Int BY DEF rate
<1>2. p \in Purchase /\ kept \in Int /\ kept * n \in Int
  <2>1. p \in Purchase /\ p.terms.price \in Int /\ p.refunded \in Int
    BY <1>1, OpenPurchase, PurchaseNat
  <2> QED BY <1>1, <2>1
<1>3. /\ OnlyPurchase(i) /\ Kept(p, q) /\ q.refunded = p.refunded /\ q.state = "Settled"
      /\ q.rated /\ q.stars = n /\ q.dispute = p.dispute /\ UNCHANGED disputes
  <2> DEFINE r == [p EXCEPT !.rated = TRUE, !.stars = n]
  <2>1. purchases' = [purchases EXCEPT ![i] = r] /\ UNCHANGED disputes BY DEF rate, cases
  <2>2. /\ r.rated /\ r.state = p.state /\ r.refunded = p.refunded /\ Kept(p, r) /\ r.stars = n
        /\ r.dispute = p.dispute
    BY <1>2 DEF Purchase, Kept
  <2>3. purchases \in [PurchaseId -> Purchase] BY DEF Linked, PurchaseInv, TypePurchases
  <2> HIDE DEF r
  <2>4. q = r /\ OnlyPurchase(i) BY <2>1, <2>3 DEF OnlyPurchase
  <2> QED BY <1>1, <2>1, <2>2, <2>4
<1>4. /\ versionStats' = [versionStats EXCEPT ![p.version] = vs]
      /\ sellerStats' = [sellerStats EXCEPT ![p.seller] = ss] /\ versions' = versions
  BY DEF rate, catalog
<1>5. upheldIn(q, disputes') <=> upheldIn(p, disputes) BY <1>3 DEF upheldIn
<1>6. /\ keptOf(p) = kept /\ starsOf(p) = 0 /\ keptOf(q) = kept /\ starsOf(q) = n
      /\ kept * 0 = 0
  BY <1>1, <1>2, <1>3 DEF keptOf, starsOf, Kept
<1> HIDE DEF kept, q
<1>7. /\ x.ratingCount = 0 /\ x.ratingSum = 0 /\ x.ratedRetained = 0 /\ x.weightedRatingSum = 0
  BY <1>1, <1>6, CountedFields DEF gainsOf, one
<1>8. /\ y.settledCount = x.settledCount /\ y.fullRefunds = x.fullRefunds
      /\ y.retainedVolume = x.retainedVolume /\ y.qualifyingTx = x.qualifyingTx
      /\ y.disputesOpened = x.disputesOpened /\ y.disputesUpheld = x.disputesUpheld
      /\ y.ratingCount = 1 /\ y.ratingSum = n /\ y.ratedRetained = kept
      /\ y.weightedRatingSum = kept * n
  BY <1>1, <1>3, <1>5, <1>6, CountedFields DEF gainsOf, one
<1>9. /\ x.settledCount \in Int /\ x.fullRefunds \in Int /\ x.retainedVolume \in Int
      /\ x.qualifyingTx \in Int /\ x.disputesOpened \in Int /\ x.disputesUpheld \in Int
  BY <1>2, GainsTyped DEF VersionFields, SellerFields
<1>10. /\ s \in SellerStats /\ w \in VersionStats
       /\ w.ratingSum \in Int /\ w.ratingCount \in Int /\ w.settledCount \in Int
       /\ w.disputesOpened \in Int /\ w.disputesUpheld \in Int /\ w.retainedVolume \in Int
       /\ s.qualifyingTx \in Int /\ s.disputesOpened \in Int /\ s.disputesUpheld \in Int
       /\ s.fullRefunds \in Int /\ s.retainedVolume \in Int
       /\ s.weightedRatingSum \in Int /\ s.ratedRetained \in Int
  BY <1>1, StatsInt
<1> DEFINE kn == kept * n
<1>11. kn \in Int BY <1>2 DEF kept
<1> HIDE DEF x, y, s, w, kn
<1>12. /\ vs.ratingSum = w.ratingSum + n /\ vs.ratingCount = w.ratingCount + 1
       /\ vs.settledCount = w.settledCount /\ vs.disputesOpened = w.disputesOpened
       /\ vs.disputesUpheld = w.disputesUpheld /\ vs.retainedVolume = w.retainedVolume
  BY <1>10 DEF VersionStats
<1>13. /\ ss.qualifyingTx = s.qualifyingTx /\ ss.disputesOpened = s.disputesOpened
       /\ ss.disputesUpheld = s.disputesUpheld /\ ss.fullRefunds = s.fullRefunds
       /\ ss.retainedVolume = s.retainedVolume
       /\ ss.weightedRatingSum = s.weightedRatingSum + kn
       /\ ss.ratedRetained = s.ratedRetained + kept
  BY <1>10 DEF SellerStats, kn
<1> HIDE DEF ss, vs
<1>14. y.weightedRatingSum = kn BY <1>8 DEF kn
<1>15. Follows(w, vs, x, y, VersionFields)
  BY <1>1, <1>7, <1>8, <1>9, <1>10, <1>12, VersionFollows
<1>16. kept \in Int BY <1>2 DEF kept
<1>17. Follows(s, ss, x, y, SellerFields)
  BY <1>7, <1>8, <1>9, <1>10, <1>11, <1>13, <1>14, <1>16, SellerFollows
<1>18. StatsFollow(i)
  BY <1>1, <1>3, <1>4, <1>15, <1>17, OwnStats DEF x, y, s, w, q
<1> QED BY <1>3, <1>18 DEF OthersStay, OnlyPurchase

\* Calls that settle nothing leave the statistics alone; calls about purchases and disputes
\* leave the catalog alone.
LEMMA StatsFrame ==
  /\ OutsideCall => UNCHANGED <<purchases, disputes, stats>>
  /\ \A a, v : buy(a, v) => UNCHANGED stats
  /\ \A i, s : recordDelivery(i, s) => UNCHANGED stats
  /\ CaseCall => UNCHANGED versions
<1> DEFINE Same == UNCHANGED <<purchases, disputes, stats>>
<1>1. ASSUME NEW a, withdraw(a) PROVE Same BY <1>1 DEF withdraw, cases
<1>2. ASSUME NEW a, NEW n, depositJurorStake(a, n) \/ withdrawJurorStake(a, n) PROVE Same
  BY <1>2 DEF depositJurorStake, withdrawJurorStake, cases
<1>3. UNCHANGED vars => Same BY DEF vars, cases
<1>4. OutsideCall => Same
  BY <1>1, <1>2, <1>3, BlockFrame, AdminFrame, SellingFrame DEF OutsideCall, cases
<1>5. ASSUME NEW a, NEW v, buy(a, v) PROVE UNCHANGED stats BY <1>5 DEF buy
<1>6. ASSUME NEW i, NEW s, recordDelivery(i, s) PROVE UNCHANGED stats BY <1>6 DEF recordDelivery
<1>7. CaseCall => Purchasing \/ Judging BY DEF CaseCall, Purchasing, Judging, Deciding
<1>8. CaseCall => UNCHANGED versions BY <1>7, PurchasingFrame, JudgingFrame DEF catalog
<1> QED BY <1>4, <1>5, <1>6, <1>8

\* A call about a dispute moves the statistics only if it closes the dispute.
LEMMA JudgeFrame ==
  ASSUME NEW d,
         \/ \E u, m, s : resolveMechanical(d, u, m, s)
         \/ timeoutMechanical(d) \/ selectJurors(d) \/ tallyDispute(d)
         \/ \E a : revealVote(d, a) \/ \E v : commitVote(d, a, v)
  PROVE  UNCHANGED <<purchases, stats>> \/ \E out, extra : resolve(d, out, extra)
<1> DEFINE Ends == UNCHANGED <<purchases, stats>> \/ \E out, extra : resolve(d, out, extra)
<1>0. ASSUME NEW out, NEW extra, resolve(d, out, extra) PROVE Ends BY <1>0
<1>1. ASSUME NEW u, NEW m, NEW s, resolveMechanical(d, u, m, s) PROVE Ends
  BY <1>0, <1>1 DEF resolveMechanical
<1>2. ASSUME timeoutMechanical(d) PROVE Ends BY <1>0, <1>2 DEF timeoutMechanical
<1>3. ASSUME rearmSelection(d) PROVE Ends BY <1>3 DEF rearmSelection
<1>4. ASSUME NEW c, seatPanel(d, c) PROVE Ends BY <1>4 DEF seatPanel
<1>5. ASSUME panelUnfillable(d) PROVE Ends BY <1>0, <1>5 DEF panelUnfillable
<1>6. ASSUME tallyDecided(d) PROVE Ends BY <1>0, <1>6 DEF tallyDecided
<1>7. ASSUME tallyFailed(d) PROVE Ends BY <1>0, <1>7 DEF tallyFailed
<1>8. ASSUME NEW a, revealVote(d, a) PROVE Ends BY <1>8 DEF revealVote
<1>9. ASSUME NEW a, NEW v, commitVote(d, a, v) PROVE Ends BY <1>9 DEF commitVote
<1> HIDE DEF Ends
<1>10. selectJurors(d) => Ends BY <1>3, <1>4, <1>5 DEF selectJurors
<1>11. tallyDispute(d) => Ends BY <1>6, <1>7 DEF tallyDispute
<1>12. Ends BY <1>1, <1>2, <1>8, <1>9, <1>10, <1>11
<1> QED BY <1>12 DEF Ends

\* A settled dispute closes its purchase, upheld or not.
LEMMA ResolveStats ==
  ASSUME Linked, CaseInv, DisputeNamed', NEW d \in DisputeId, OpenDispute(d),
         NEW out \in Outcome, NEW extra, resolve(d, out, extra)
  PROVE  /\ disputes[d].purchase \in PurchaseId
         /\ StatsFollow(disputes[d].purchase) /\ OthersStay(disputes[d].purchase)
<1> DEFINE i == disputes[d].purchase
           p == purchases[i]
           q == purchases'[i]
           upheld == out.verdict = "Uphold"
<1>0. Links /\ Sales BY DEF CaseInv
<1>1. /\ disputes[d].status # "None" /\ i \in PurchaseId /\ p.state = "Disputed"
      /\ p.dispute = d /\ p.refunded = 0
  BY <1>0, OpenDisputed
<1>2. ~p.rated BY <1>0, <1>1 DEF Sales, SaleSound
<1>3. /\ OnlyPurchase(i) /\ OnlyDispute(d) /\ Kept(p, q) /\ q.dispute = p.dispute
      /\ q.rated = p.rated /\ Closes(p, q, out.refund)
      /\ disputes'[d].purchase = i
      /\ disputes'[d].status = "Resolved" /\ disputes'[d].verdict = out.verdict
  BY <1>1, ResolveMoves DEF SameCase
<1>4. /\ versionStats' = [versionStats EXCEPT
           ![p.version] = closedVersionStats(@, p, out.refund, upheld)]
      /\ sellerStats' = [sellerStats EXCEPT
           ![p.seller] = closedSellerStats(@, p, out.refund, upheld)]
      /\ UNCHANGED versions
  BY DEF resolve, catalog
<1>5. out.refund \in Int /\ upheld \in BOOLEAN BY DEF Outcome
<1>6. ~upheldIn(p, disputes) BY <1>1 DEF upheldIn, OpenDispute
<1>7. upheldIn(q, disputes') <=> upheld
  <2>1. d # 0 BY DEF DisputeId, PurchaseId
  <2> QED BY <1>1, <1>3, <2>1 DEF upheldIn
<1>8. p.state \in {"Delivered", "Disputed"} /\ ~q.rated BY <1>1, <1>2, <1>3
<1> HIDE DEF i, upheld
<1>9. StatsFollow(i) BY <1>1, <1>2, <1>3, <1>4, <1>5, <1>6, <1>7, <1>8, ClosedStats
<1>10. OthersStay(i) BY <1>1, <1>3, OtherCases
<1> QED BY <1>1, <1>9, <1>10 DEF i

LEMMA FinalizeStats ==
  ASSUME Linked, CaseInv, DisputeNamed, NEW i \in PurchaseId, finalize(i)
  PROVE  StatsFollow(i) /\ OthersStay(i)
<1> DEFINE p == purchases[i]
           q == purchases'[i]
<1>1. p.state = "Delivered" BY DEF finalize
<1>2. OnlyPurchase(i) /\ CloseStep(p, q) /\ UNCHANGED disputes
  BY <1>1, SaleMoves DEF DeliverStep, RefundStep, RateStep
<1>3. p.dispute = 0 /\ ~p.rated /\ p.refunded = 0 BY <1>1, NotCountedYet
<1>4. /\ Kept(p, q) /\ ~q.rated /\ q.dispute = p.dispute /\ Closes(p, q, 0)
  BY <1>2, <1>3 DEF CloseStep
<1>5. /\ versionStats' = [versionStats EXCEPT ![p.version] = closedVersionStats(@, p, 0, FALSE)]
      /\ sellerStats' = [sellerStats EXCEPT ![p.seller] = closedSellerStats(@, p, 0, FALSE)]
      /\ UNCHANGED versions
  BY DEF finalize, catalog
<1>6. ~upheldIn(p, disputes) /\ (upheldIn(q, disputes') <=> FALSE) BY <1>3, <1>4 DEF upheldIn
<1>7. p.state \in {"Delivered", "Disputed"} /\ 0 \in Int /\ FALSE \in BOOLEAN BY <1>1
<1>8. StatsFollow(i) BY <1>2, <1>3, <1>4, <1>5, <1>6, <1>7, ClosedStats
<1> QED BY <1>2, <1>8 DEF OthersStay, OnlyPurchase

\* A purchase and its delivery count nothing yet.
LEMMA BuyRep ==
  ASSUME Linked, RepInv, DisputeNamed', NEW a \in Buyers, NEW v \in VersionId, buy(a, v)
  PROVE  RepInv'
<1> DEFINE i == nextPurchaseId
           q == purchases'[i]
<1>1. /\ i \in PurchaseId /\ OnlyPurchase(i) /\ BuyStep(purchases[i], q)
      /\ q.seller = versions[v].seller /\ q.version = v /\ UNCHANGED disputes
  BY BuyMoves
<1>2. UNCHANGED stats /\ versions' = versions BY StatsFrame DEF buy, catalog
<1>3. purchases[i] = NoPurchase /\ q.state = "Funded" /\ q.dispute = 0 /\ ~q.rated
  BY <1>1 DEF BuyStep, Bought
<1>4. Uncounted(q, disputes') BY <1>3, NothingCounted
<1>5. Uncounted(purchases[i], disputes)
  <2>1. /\ NoPurchase.state \in {"None", "Funded", "Delivered"} /\ NoPurchase.dispute = 0
        /\ ~NoPurchase.rated
    BY DEF NoPurchase
  <2> QED BY <1>3, <2>1, NothingCounted
<1>6. SellersMatch'
  BY <1>1, <1>2, <1>3 DEF RepInv, SellersMatch, OfSeller, OnlyPurchase
<1>7. \A j \in PurchaseId : SameGains(j) BY <1>1, <1>4, <1>5 DEF SameGains, OnlyPurchase
<1> QED BY <1>2, <1>6, <1>7, RepIdle

LEMMA DeliveryRep ==
  ASSUME Linked, CaseInv, RepInv, DisputeNamed', NEW i \in PurchaseId, NEW s \in Signers,
         recordDelivery(i, s)
  PROVE  RepInv'
<1> DEFINE p == purchases[i]
           q == purchases'[i]
<1>1. p.state = "Funded" BY DEF recordDelivery
<1>2. OnlyPurchase(i) /\ DeliverStep(p, q) /\ UNCHANGED disputes
  <2>1. /\ OnlyPurchase(i) /\ UNCHANGED disputes
        /\ DeliverStep(p, q) \/ RefundStep(p, q) \/ CloseStep(p, q) \/ RateStep(p, q)
    BY SaleMoves
  <2>2. purchases \in [PurchaseId -> Purchase] BY DEF Linked, PurchaseInv, TypePurchases
  <2>3. q.state = "Delivered" BY <2>2 DEF recordDelivery, Purchase
  <2> QED BY <2>1, <2>3 DEF RefundStep, CloseStep, Closes, RateStep
<1>3. UNCHANGED stats /\ versions' = versions BY StatsFrame DEF recordDelivery, catalog
<1>4. p.dispute = 0 /\ ~p.rated /\ Uncounted(p, disputes)
  BY <1>1, NotCountedYet DEF RepInv
<1>5. /\ q.state = "Delivered" /\ q.dispute = 0 /\ ~q.rated
      /\ q.version = p.version /\ q.seller = p.seller
  BY <1>2, <1>4 DEF DeliverStep, Kept
<1>6. Uncounted(q, disputes') BY <1>5, NothingCounted
<1>7. SellersMatch'
  <2>1. p # NoPurchase BY <1>1 DEF NoPurchase
  <2> QED BY <1>2, <1>3, <1>5, <2>1 DEF RepInv, SellersMatch, OfSeller, OnlyPurchase
<1>8. \A j \in PurchaseId : SameGains(j) BY <1>2, <1>4, <1>6 DEF SameGains, OnlyPurchase
<1> QED BY <1>3, <1>7, <1>8, RepIdle

\* A step that leaves purchases and statistics alone, and closes no dispute.
LEMMA StandingRep ==
  ASSUME Linked, RepInv, DisputeNamed', UNCHANGED <<purchases, stats>>,
         \A v \in VersionId : versions[v].seller = NoAccount
                              \/ versions'[v].seller = versions[v].seller,
         \A j \in PurchaseId : upheldIn(purchases[j], disputes') = upheldIn(purchases[j], disputes)
  PROVE  RepInv'
<1>1. \A j \in PurchaseId : SameGains(j) BY DEF SameGains, gainsOf
<1>2. SellersMatch'
  <2> SUFFICES ASSUME NEW j \in PurchaseId
               PROVE  purchases[j] = NoPurchase \/ OfSeller(purchases[j], versions')
    BY DEF SellersMatch
  <2>1. CASE OfSeller(purchases[j], versions)
    <3>1. purchases[j].seller # NoAccount /\ purchases[j].version \in VersionId
      BY <2>1, OpenPurchase, ConstantsOK DEF ConstantsOK, OfSeller, WellMade
    <3> QED BY <2>1, <3>1 DEF OfSeller
  <2> QED BY <2>1 DEF RepInv, SellersMatch
<1> QED BY <1>1, <1>2, RepIdle

\* Every call about a dispute.
LEMMA JudgingRep ==
  ASSUME Linked, CaseInv, RepInv, Linked', DisputeNamed', UNCHANGED versions,
         NEW d \in DisputeId,
         \/ \E u \in BOOLEAN, m \in SUBSET disputes[d].taskMask, s \in Signers :
              resolveMechanical(d, u, m, s)
         \/ timeoutMechanical(d) \/ selectJurors(d) \/ tallyDispute(d)
         \/ \E a \in JurorPool : revealVote(d, a) \/ \E v \in {"Uphold", "Reject"} : commitVote(d, a, v)
  PROVE  RepInv'
<1>0. Links /\ Sales BY DEF CaseInv
<1>1. OpenDispute(d) BY RulingsOpen
<1>2. /\ disputes[d].status # "None" /\ purchases[disputes[d].purchase].state = "Disputed"
      /\ purchases[disputes[d].purchase].refunded = 0 /\ disputes[d].purchase \in PurchaseId
  BY <1>0, <1>1, OpenDisputed
<1>3. \/ UNCHANGED purchases /\ OnlyDispute(d) /\ CaseStep(disputes[d], disputes'[d])
      \/ UNCHANGED <<purchases, disputes>>
      \/ \E out \in Outcome : \E extra : resolve(d, out, extra)
  BY <1>2, DisputeSteps
<1>4. UNCHANGED <<purchases, stats>> \/ \E out, extra : resolve(d, out, extra)
  BY JudgeFrame
<1>5. ASSUME NEW out, NEW extra, resolve(d, out, extra) PROVE purchases' # purchases
  <2> DEFINE i == disputes[d].purchase
             c == closed(purchases[i], out.refund)
             q == [c EXCEPT !.remediedMask = @ \cup out.remedied, !.penalties = out.penalty]
  <2>1. purchases' = [purchases EXCEPT ![i] = q] BY <1>5 DEF resolve
  <2>2. purchases \in [PurchaseId -> Purchase] BY DEF Linked, PurchaseInv, TypePurchases
  <2>3. q.state = "Settled"
    <3>1. purchases[i] \in Purchase BY <1>2, <2>2
    <3> QED BY <3>1 DEF closed, Purchase
  <2> HIDE DEF q
  <2>4. purchases'[i] = q
    <3> HIDE DEF i
    <3>1. i \in PurchaseId BY <1>2 DEF i
    <3> QED BY <2>1, <2>2, <3>1
  <2> QED BY <1>2, <2>3, <2>4
<1>6. ASSUME NEW out \in Outcome, NEW extra, resolve(d, out, extra) PROVE RepInv'
  <2>1. /\ disputes[d].purchase \in PurchaseId
        /\ StatsFollow(disputes[d].purchase) /\ OthersStay(disputes[d].purchase)
    BY <1>1, <1>6, ResolveStats
  <2> QED BY <2>1, RepFollows
<1>7. ASSUME UNCHANGED <<purchases, stats>>,
             UNCHANGED disputes \/ (OnlyDispute(d) /\ CaseStep(disputes[d], disputes'[d]))
      PROVE  RepInv'
  <2>1. ASSUME NEW j \in PurchaseId
        PROVE  upheldIn(purchases[j], disputes') = upheldIn(purchases[j], disputes)
    <3>1. purchases[j].dispute # 0 => purchases[j].dispute \in DisputeId
      BY DEF RepInv, DisputeNamed
    <3>2. CASE UNCHANGED disputes BY <3>2
    <3>3. CASE OnlyDispute(d) /\ CaseStep(disputes[d], disputes'[d])
      <4>1. disputes[d].status # "Resolved" /\ disputes'[d].status # "Resolved"
        BY <1>1, <3>3 DEF OpenDispute, CaseStep
      <4> QED BY <3>1, <3>3, <4>1 DEF OnlyDispute, upheldIn
    <3> QED BY <1>7, <3>2, <3>3
  <2> QED BY <1>7, <2>1, StandingRep
<1> QED BY <1>3, <1>4, <1>5, <1>6, <1>7

\* Every step keeps the statistics right.
LEMMA NextRep == Linked /\ CaseInv /\ MoneyInv /\ RepInv /\ [Next]_vars => RepInv'
<1> SUFFICES ASSUME Linked, CaseInv, MoneyInv, RepInv, [Next]_vars PROVE RepInv' OBVIOUS
<1>1. Linked' /\ DisputeNamed /\ DisputeNamed' BY NextLinked, NamesPreserved DEF RepInv
<1>2. ASSUME OutsideCall PROVE RepInv'
  <2>1. UNCHANGED <<purchases, disputes, stats>> BY <1>2, StatsFrame
  <2>2. \A v \in VersionId : versions[v].seller = NoAccount
                             \/ versions'[v].seller = versions[v].seller
    BY <1>2, SellersStay
  <2> QED BY <1>1, <2>1, <2>2, StandingRep
<1>3. ASSUME NEW i \in PurchaseId, StatsFollow(i), OthersStay(i) PROVE RepInv'
  BY <1>1, <1>3, RepFollows
<1>4. ASSUME CaseCall PROVE RepInv'
  <2>1. UNCHANGED versions BY <1>4, StatsFrame
  <2>2. ASSUME NEW a \in Buyers, NEW v \in VersionId, buy(a, v) PROVE RepInv'
    BY <1>1, <2>2, BuyRep
  <2>3. ASSUME NEW i \in PurchaseId, NEW s \in Signers, recordDelivery(i, s) PROVE RepInv'
    BY <1>1, <2>3, DeliveryRep
  <2>4. ASSUME NEW i \in PurchaseId, refundUndelivered(i) PROVE RepInv'
    BY <1>1, <1>3, <2>4, RefundStats
  <2>5. ASSUME NEW i \in PurchaseId, finalize(i) PROVE RepInv'
    BY <1>1, <1>3, <2>5, FinalizeStats
  <2>6. ASSUME NEW i \in PurchaseId, NEW n \in StarChoices, rate(i, n) PROVE RepInv'
    BY <1>3, <2>6, RateStats
  <2>7. ASSUME NEW i \in PurchaseId, NEW g \in Grounds,
               NEW m \in SUBSET (1..purchases[i].terms.taskCount), openDispute(i, g, m)
        PROVE  RepInv'
    BY <1>1, <1>3, <2>7, OpenStats
  <2>8. ASSUME NEW d \in DisputeId,
               \/ \E u \in BOOLEAN, m \in SUBSET disputes[d].taskMask, s \in Signers :
                    resolveMechanical(d, u, m, s)
               \/ timeoutMechanical(d) \/ selectJurors(d) \/ tallyDispute(d)
               \/ \E a \in JurorPool : revealVote(d, a) \/ \E v \in {"Uphold", "Reject"} : commitVote(d, a, v)
        PROVE  RepInv'
    BY <1>1, <2>1, <2>8, JudgingRep
  <2> QED BY <1>4, <2>2, <2>3, <2>4, <2>5, <2>6, <2>7, <2>8 DEF CaseCall
<1> QED BY <1>2, <1>4, MoneyCalls

\* Nothing is counted yet.
LEMMA InitRep == Init => RepInv
<1> SUFFICES ASSUME Init PROVE RepInv OBVIOUS
<1>1. \A i \in PurchaseId : purchases[i] = NoPurchase BY DEF Init, InitPurchases
<1>2. /\ \A v \in VersionId : versionStats[v] = NoVersionStats
      /\ \A a \in Accounts : sellerStats[a] = NoSellerStats
  BY DEF Init, InitRecords
<1>3. /\ \A k \in VersionFields : NoVersionStats[k] = 0
      /\ \A k \in SellerFields : NoSellerStats[k] = 0 /\ SharedFields \subseteq VersionFields
      /\ SharedFields \subseteq SellerFields
  BY DEF VersionFields, SellerFields, SharedFields, NoVersionStats, NoSellerStats
<1>4. /\ NoPurchase.version \notin VersionId /\ NoPurchase.seller \notin Accounts
      /\ NoPurchase.dispute = 0
  BY ConstantsOK DEF ConstantsOK, NoPurchase, VersionId
<1>5. VersionsCount
  <2> SUFFICES ASSUME NEW v \in VersionId, NEW k \in VersionFields
               PROVE  versionStats[v][k] = SumFunction(ofVersion(v, k))
    BY DEF VersionsCount
  <2>1. ofVersion(v, k) = [i \in PurchaseId |-> 0] BY <1>1, <1>4, RepEntries DEF inVersion
  <2> QED BY <1>2, <1>3, <2>1, SumZero, IdsFinite
<1>6. SellersCount
  <2> SUFFICES ASSUME NEW a \in Accounts, NEW k \in SellerFields
               PROVE  sellerStats[a][k] = SumFunction(ofSeller(a, k))
    BY DEF SellersCount
  <2>1. ofSeller(a, k) = [i \in PurchaseId |-> 0] BY <1>1, <1>4, RepEntries DEF inSeller
  <2> QED BY <1>2, <1>3, <2>1, SumZero, IdsFinite
<1>7. CatalogCount
  <2> SUFFICES ASSUME NEW a \in Accounts, NEW k \in SharedFields
               PROVE  sellerStats[a][k] = SumFunction(ofCatalog(a, k))
    BY DEF CatalogCount
  <2>1. ofCatalog(a, k) = [v \in VersionId |-> 0] BY <1>2, <1>3, RepEntries DEF inCatalog
  <2> QED BY <1>2, <1>3, <2>1, SumZero, IdsFinite
<1>8. SellersMatch /\ DisputeNamed BY <1>1, <1>4 DEF SellersMatch, DisputeNamed
<1> QED BY <1>5, <1>6, <1>7, <1>8 DEF RepInv

\* A table of ones counts the purchases that have one.
LEMMA CountIsSum ==
  ASSUME NEW T \in SUBSET PurchaseId, NEW f \in [PurchaseId -> Int],
         \A i \in PurchaseId : f[i] = IF i \in T THEN 1 ELSE 0
  PROVE  SumFunction(f) = Cardinality(T)
<1>1. SumFunction(f) = Cardinality(T) * 1 BY SumSame, IdsFinite, 1 \in Int
<1>2. Cardinality(T) \in Nat BY FS_Subset, FS_CardinalityType, IdsFinite
<1> QED BY <1>1, <1>2

\* The entries left out are zero.
LEMMA TablesSum ==
  ASSUME Linked
  PROVE  /\ \A v \in VersionId : \A k \in VersionFields :
              SumFunction([i \in copiesOf(v) |-> worth(i)[k]]) = SumFunction(ofVersion(v, k))
         /\ \A a \in Accounts : \A k \in SellerFields :
              SumFunction([i \in salesBy(a) |-> worth(i)[k]]) = SumFunction(ofSeller(a, k))
         /\ \A a \in Accounts : \A k \in SharedFields :
              SumFunction([v \in catalogOf(a) |-> versionStats[v][k]]) = SumFunction(ofCatalog(a, k))
<1>1. ASSUME NEW v \in VersionId, NEW k \in VersionFields
      PROVE  SumFunction([i \in copiesOf(v) |-> worth(i)[k]]) = SumFunction(ofVersion(v, k))
  <2> DEFINE f == ofVersion(v, k)
             h == [i \in copiesOf(v) |-> worth(i)[k]]
  <2>1. f \in [PurchaseId -> Int] BY RepTyped DEF RepNumbers
  <2>2. copiesOf(v) \in SUBSET PurchaseId BY DEF copiesOf
  <2>3. \A i \in copiesOf(v) : h[i] = f[i] BY DEF copiesOf, ofVersion
  <2>4. \A i \in PurchaseId \ copiesOf(v) : f[i] = 0 BY DEF copiesOf, ofVersion
  <2>5. h = [i \in copiesOf(v) |-> h[i]] OBVIOUS
  <2> HIDE DEF f, h
  <2>6. h \in [copiesOf(v) -> Int] BY <2>1, <2>2, <2>3, <2>5
  <2>7. SumFunction(h) = SumFunction(f) BY <2>1, <2>2, <2>3, <2>4, <2>6, SumRestricted, IdsFinite
  <2> QED BY <2>7 DEF f, h
<1>2. ASSUME NEW a \in Accounts, NEW k \in SellerFields
      PROVE  SumFunction([i \in salesBy(a) |-> worth(i)[k]]) = SumFunction(ofSeller(a, k))
  <2> DEFINE f == ofSeller(a, k)
             h == [i \in salesBy(a) |-> worth(i)[k]]
  <2>1. f \in [PurchaseId -> Int] BY RepTyped DEF RepNumbers
  <2>2. salesBy(a) \in SUBSET PurchaseId BY DEF salesBy
  <2>3. \A i \in salesBy(a) : h[i] = f[i] BY DEF salesBy, ofSeller
  <2>4. \A i \in PurchaseId \ salesBy(a) : f[i] = 0 BY DEF salesBy, ofSeller
  <2>5. h = [i \in salesBy(a) |-> h[i]] OBVIOUS
  <2> HIDE DEF f, h
  <2>6. h \in [salesBy(a) -> Int] BY <2>1, <2>2, <2>3, <2>5
  <2>7. SumFunction(h) = SumFunction(f) BY <2>1, <2>2, <2>3, <2>4, <2>6, SumRestricted, IdsFinite
  <2> QED BY <2>7 DEF f, h
<1>3. ASSUME NEW a \in Accounts, NEW k \in SharedFields
      PROVE  SumFunction([v \in catalogOf(a) |-> versionStats[v][k]]) = SumFunction(ofCatalog(a, k))
  <2> DEFINE f == ofCatalog(a, k)
             h == [v \in catalogOf(a) |-> versionStats[v][k]]
  <2>1. f \in [VersionId -> Int] BY RepTyped DEF RepNumbers
  <2>2. catalogOf(a) \in SUBSET VersionId BY DEF catalogOf
  <2>3. \A v \in catalogOf(a) : h[v] = f[v] BY DEF catalogOf, ofCatalog
  <2>4. \A v \in VersionId \ catalogOf(a) : f[v] = 0 BY DEF catalogOf, ofCatalog
  <2>5. h = [v \in catalogOf(a) |-> h[v]] OBVIOUS
  <2> HIDE DEF f, h
  <2>6. h \in [catalogOf(a) -> Int] BY <2>1, <2>2, <2>3, <2>5
  <2>7. SumFunction(h) = SumFunction(f) BY <2>1, <2>2, <2>3, <2>4, <2>6, SumRestricted, IdsFinite
  <2> QED BY <2>7 DEF f, h
<1> QED BY <1>1, <1>2, <1>3

\* The invariant says what the statistics promise.
LEMMA RepIsConsistent == Linked /\ RepInv => ReputationConsistent
<1> SUFFICES ASSUME Linked, RepInv PROVE ReputationConsistent OBVIOUS
<1>1. \A v \in VersionId : DOMAIN versionStats[v] = VersionFields
  BY DEF Linked, TypeRecords, VersionStats, VersionFields
<1>2. \A a \in Accounts : DOMAIN sellerStats[a] = SellerFields
  BY DEF Linked, TypeRecords, SellerStats, SellerFields
<1>3. /\ \A v \in VersionId : \A k \in VersionFields :
           versionStats[v][k] = SumFunction([i \in copiesOf(v) |-> worth(i)[k]])
      /\ \A a \in Accounts : \A k \in SellerFields :
           sellerStats[a][k] = SumFunction([i \in salesBy(a) |-> worth(i)[k]])
      /\ \A a \in Accounts : \A k \in SharedFields :
           sellerStats[a][k] = SumFunction([v \in catalogOf(a) |-> versionStats[v][k]])
  BY TablesSum DEF RepInv, VersionsCount, SellersCount, CatalogCount
<1> QED BY <1>1, <1>2, <1>3 DEF SharedFields, ReputationConsistent

\* In every reachable state of the statistics.
LEMMA RepHolds == Spec => [](Linked /\ CaseInv /\ RepInv)
<1>1. Init => RepInv BY InitRep
<1>2. Linked /\ CaseInv /\ MoneyInv /\ RepInv /\ [Next]_vars => RepInv' BY NextRep
<1> QED BY <1>1, <1>2, MoneyHolds, PTL DEF Spec

\* Reputation can always be re-derived: every figure of a version and of a seller is the
\* sum over the purchases of what each has added by its present state, dispute and rating,
\* and a seller's disputes and volume are those of its versions.  No order of settlements,
\* refunds, disputes and ratings counts one twice, or for another version.
THEOREM ReputationAlwaysConsistent == Spec => []ReputationConsistent
<1>1. Linked /\ RepInv => ReputationConsistent BY RepIsConsistent
<1> QED BY <1>1, RepHolds, PTL
=============================================================================
