----------------------------- MODULE DeskProofs -----------------------------
(***************************************************************************)
(* What the operators of Ladder and RiskPlan compute, for all numbers, and *)
(* what the plan of any book and the orders of any request promise.        *)
(*                                                                         *)
(* A sum over a finite set is defined by choosing its elements one after   *)
(* another; the first section derives what the rest needs of it, by        *)
(* induction over the parts of the set (SmallestPart).                     *)
(***************************************************************************)
EXTENDS Desk, TLAPS, SequenceTheorems, FiniteSetTheorems

(* Sums.                                                                   *)

\* Induction over the parts of a finite set: if some part is bad, one is without a bad
\* part of its own.
LEMMA SmallestPart ==
  ASSUME NEW S, IsFiniteSet(S), NEW bad \in SUBSET SUBSET S, bad # {}
  PROVE  \E s \in bad : \A t \in SUBSET s : t \in bad => t = s
<1>1. IsWellFoundedOn(StrictSubsetOrdering(S), SUBSET S)
  BY FS_StrictSubsetOrderingWellFounded, FS_FiniteSubsetsOfFinite
<1>2. PICK s \in bad : \A t \in bad : <<t, s>> \notin StrictSubsetOrdering(S)
  BY <1>1, WFMin
<1> QED BY <1>2 DEF StrictSubsetOrdering

\* g holds the sum of f over every part of S, taken element by element.
Pick(s) == CHOOSE x \in s : TRUE
Term(f, g, s) == IF s = {} THEN 0 ELSE f[Pick(s)] + g[s \ {Pick(s)}]
Adds(f, g, S) == g = [s \in SUBSET S |-> Term(f, g, s)]

LEMMA PickIn == ASSUME NEW s, s # {} PROVE Pick(s) \in s
BY DEF Pick

LEMMA AddsAt ==
  ASSUME NEW f, NEW g, NEW S, Adds(f, g, S), NEW s \in SUBSET S
  PROVE  g[s] = Term(f, g, s)
<1>1. g = [u \in SUBSET S |-> Term(f, g, u)]
  BY DEF Adds
<1> DEFINE h == [u \in SUBSET S |-> Term(f, g, u)]
<1>2. h[s] = Term(f, g, s)
  OBVIOUS
<1> QED BY <1>1, <1>2

LEMMA OneSum ==
  ASSUME NEW S, IsFiniteSet(S), NEW f1, NEW g1, Adds(f1, g1, S),
         NEW T, NEW f2, NEW g2, Adds(f2, g2, T), S \subseteq T, \A x \in S : f1[x] = f2[x]
  PROVE  \A s \in SUBSET S : g1[s] = g2[s]
<1> DEFINE bad == {s \in SUBSET S : g1[s] # g2[s]}
<1> SUFFICES ASSUME bad # {} PROVE FALSE
  OBVIOUS
<1>0. bad \in SUBSET SUBSET S
  OBVIOUS
<1> HIDE DEF bad
<1>1. PICK s \in bad : \A t \in SUBSET s : t \in bad => t = s
  BY <1>0, SmallestPart
<1> USE DEF bad
<1>2. g1[s] = Term(f1, g1, s) /\ g2[s] = Term(f2, g2, s)
  BY AddsAt
<1>3. CASE s = {}
  BY <1>2, <1>3 DEF Term
<1>4. CASE s # {}
  <2>1. Pick(s) \in s
    BY <1>4, PickIn
  <2>2. g1[s \ {Pick(s)}] = g2[s \ {Pick(s)}]
    BY <1>1, <2>1
  <2> QED BY <1>2, <1>4, <2>1, <2>2 DEF Term
<1> QED BY <1>3, <1>4

LEMMA SumExists ==
  ASSUME NEW S, IsFiniteSet(S), NEW f
  PROVE  \E g : Adds(f, g, S)
<1> DEFINE bad == {T \in SUBSET S : ~ \E g : Adds(f, g, T)}
<1> SUFFICES ASSUME bad # {} PROVE FALSE
  OBVIOUS
<1>0. bad \in SUBSET SUBSET S
  OBVIOUS
<1> HIDE DEF bad
<1>1. PICK T \in bad : \A t \in SUBSET T : t \in bad => t = T
  BY <1>0, SmallestPart
<1> USE DEF bad
<1> DEFINE of(s) == CHOOSE g : Adds(f, g, s)
<1>2. \A s \in SUBSET T : s # T => Adds(f, of(s), s)
  BY <1>1
<1> DEFINE g == [s \in SUBSET T |-> IF s = T THEN Term(f, [t \in SUBSET T |-> of(t)[t]], T)
                                    ELSE of(s)[s]]
<1> HIDE DEF of
<1>3. ASSUME NEW s \in SUBSET T PROVE g[s] = Term(f, g, s)
  <2>1. CASE s = {} /\ s # T
    BY <1>2, <2>1, AddsAt DEF Term
  <2>2. CASE s = T
    <3>1. T # {} => g[T \ {Pick(T)}] = of(T \ {Pick(T)})[T \ {Pick(T)}]
      BY PickIn
    <3> QED BY <2>2, <3>1, PickIn DEF Term
  <2>3. CASE s # {} /\ s # T
    <3> DEFINE t == s \ {Pick(s)}
    <3>1. Pick(s) \in s /\ t \in SUBSET T /\ t # T /\ t \in SUBSET s
      BY <2>3, PickIn
    <3>2. IsFiniteSet(t)
      BY <3>1, FS_Subset
    <3>3. Adds(f, of(s), s) /\ Adds(f, of(t), t)
      BY <1>2, <2>3, <3>1
    <3>4. of(t)[t] = of(s)[t]
      BY <3>1, <3>2, <3>3, OneSum
    <3>5. of(s)[s] = f[Pick(s)] + of(s)[t]
      BY <2>3, <3>3, AddsAt DEF Term
    <3>6. g[s] = of(s)[s] /\ g[t] = of(t)[t]
      BY <2>3, <3>1
    <3> QED BY <2>3, <3>4, <3>5, <3>6 DEF Term
  <2> QED BY <2>1, <2>2, <2>3
<1>4. Adds(f, g, T)
  BY <1>3 DEF Adds
<1> QED BY <1>1, <1>4

LEMMA SumIsAdded ==
  ASSUME NEW S, IsFiniteSet(S), NEW f
  PROVE  \E g : Adds(f, g, S) /\ SumFunctionOnSet(f, S) = g[S]
<1> DEFINE g == CHOOSE iter : iter = [s \in SUBSET S |-> Term(f, iter, s)]
<1>1. SumFunctionOnSet(f, S) = g[S]
  BY DEF SumFunctionOnSet, FoldFunctionOnSet, MapThenFoldSet, Term, Pick
<1>2. Adds(f, g, S)
  BY SumExists DEF Adds
<1> QED BY <1>1, <1>2

\* How a sum over a part of S comes about.
LEMMA SumUnfolds ==
  ASSUME NEW S, IsFiniteSet(S), NEW f, NEW s \in SUBSET S
  PROVE  SumFunctionOnSet(f, s) =
           IF s = {} THEN 0 ELSE f[Pick(s)] + SumFunctionOnSet(f, s \ {Pick(s)})
<1>1. ASSUME NEW t \in SUBSET s
      PROVE  \A g : Adds(f, g, s) => SumFunctionOnSet(f, t) = g[t]
  <2>1. IsFiniteSet(t) /\ IsFiniteSet(s) /\ t \subseteq s /\ t \in SUBSET t
    BY <1>1, FS_Subset
  <2>2. PICK h : Adds(f, h, t) /\ SumFunctionOnSet(f, t) = h[t]
    BY <2>1, SumIsAdded
  <2>3. ASSUME NEW g, Adds(f, g, s) PROVE h[t] = g[t]
    BY <2>1, <2>2, <2>3, OneSum
  <2> QED BY <2>2, <2>3
<1>2. IsFiniteSet(s)
  BY FS_Subset
<1>3. PICK g : Adds(f, g, s)
  BY <1>2, SumExists
<1>4. SumFunctionOnSet(f, s) = g[s] /\ SumFunctionOnSet(f, s \ {Pick(s)}) = g[s \ {Pick(s)}]
  BY <1>1, <1>3
<1> QED BY <1>3, <1>4, AddsAt DEF Term

LEMMA SumOfEqual ==
  ASSUME NEW S, IsFiniteSet(S), NEW f1, NEW f2, \A x \in S : f1[x] = f2[x]
  PROVE  SumFunctionOnSet(f1, S) = SumFunctionOnSet(f2, S)
<1>1. PICK g1 : Adds(f1, g1, S) /\ SumFunctionOnSet(f1, S) = g1[S]
  BY SumIsAdded
<1>2. PICK g2 : Adds(f2, g2, S) /\ SumFunctionOnSet(f2, S) = g2[S]
  BY SumIsAdded
<1> QED BY <1>1, <1>2, OneSum

LEMMA SumIsInt ==
  ASSUME NEW S, IsFiniteSet(S), NEW f, \A x \in S : f[x] \in Int
  PROVE  SumFunctionOnSet(f, S) \in Int
<1> DEFINE bad == {s \in SUBSET S : SumFunctionOnSet(f, s) \notin Int}
<1> SUFFICES ASSUME bad # {} PROVE FALSE
  OBVIOUS
<1>0. bad \in SUBSET SUBSET S
  OBVIOUS
<1> HIDE DEF bad
<1>1. PICK s \in bad : \A t \in SUBSET s : t \in bad => t = s
  BY <1>0, SmallestPart
<1> USE DEF bad
<1>2. CASE s = {}
  <2>1. SumFunctionOnSet(f, s) = 0
    BY <1>2, SumUnfolds
  <2> QED BY <2>1
<1>3. CASE s # {}
  <2>1. Pick(s) \in s
    BY <1>3, PickIn
  <2>2. SumFunctionOnSet(f, s \ {Pick(s)}) \in Int
    BY <1>1, <2>1
  <2>3. SumFunctionOnSet(f, s) = f[Pick(s)] + SumFunctionOnSet(f, s \ {Pick(s)})
    BY <1>3, SumUnfolds
  <2> QED BY <2>1, <2>2, <2>3
<1> QED BY <1>2, <1>3

\* The sum of integers does not depend on the order: any element may be taken first.
LEMMA SumTakes ==
  ASSUME NEW S, IsFiniteSet(S), NEW f, \A x \in S : f[x] \in Int, NEW a \in S
  PROVE  SumFunctionOnSet(f, S) = f[a] + SumFunctionOnSet(f, S \ {a})
<1> DEFINE sum(s) == SumFunctionOnSet(f, s)
           bad == {s \in SUBSET S : \E x \in s : sum(s) # f[x] + sum(s \ {x})}
<1> SUFFICES ASSUME bad # {} PROVE FALSE
  OBVIOUS
<1>0. bad \in SUBSET SUBSET S
  OBVIOUS
<1>1. \A s \in SUBSET S : sum(s) \in Int
  BY SumIsInt, FS_Subset
<1>2. \A s \in SUBSET S : s # {} => sum(s) = f[Pick(s)] + sum(s \ {Pick(s)})
  BY SumUnfolds
<1> HIDE DEF bad, sum
<1>3. PICK s \in bad : \A t \in SUBSET s : t \in bad => t = s
  BY <1>0, SmallestPart
<1>4. s \in SUBSET S /\ \E x \in s : sum(s) # f[x] + sum(s \ {x})
  BY DEF bad
<1>5. ASSUME NEW t \in SUBSET s, t # s, NEW x \in t PROVE sum(t) = f[x] + sum(t \ {x})
  BY <1>3, <1>4, <1>5 DEF bad
<1>6. PICK x \in s : sum(s) # f[x] + sum(s \ {x})
  BY <1>4
<1> DEFINE y == Pick(s)
           rest == (s \ {x}) \ {y}
<1>7. y \in s /\ y # x
  BY <1>2, <1>4, <1>6, PickIn
<1>8. sum(s) = f[y] + sum(s \ {y})
  BY <1>2, <1>4, <1>7
<1>9. rest = (s \ {y}) \ {x} /\ rest \in SUBSET S
  BY <1>4
<1> HIDE DEF y, rest
<1>10. sum(s \ {y}) = f[x] + sum(rest)
  BY <1>5, <1>7, <1>9
<1>11. sum(s \ {x}) = f[y] + sum(rest)
  BY <1>5, <1>7 DEF rest
<1>12. f[x] \in Int /\ f[y] \in Int /\ sum(rest) \in Int
  BY <1>1, <1>4, <1>7, <1>9
<1>13. f[y] + (f[x] + sum(rest)) = f[x] + (f[y] + sum(rest))
  BY <1>12
<1> QED BY <1>6, <1>8, <1>10, <1>11, <1>13

LEMMA SumOfNaturals ==
  ASSUME NEW S, IsFiniteSet(S), NEW f, \A x \in S : f[x] \in Nat
  PROVE  /\ SumFunctionOnSet(f, S) \in Nat
         /\ \A x \in S : f[x] <= SumFunctionOnSet(f, S)
<1>1. ASSUME NEW T \in SUBSET S PROVE SumFunctionOnSet(f, T) \in Nat
  <2> DEFINE bad == {s \in SUBSET T : SumFunctionOnSet(f, s) \notin Nat}
  <2>1. bad \in SUBSET SUBSET T /\ IsFiniteSet(T)
    BY FS_Subset
  <2> HIDE DEF bad
  <2>2. ASSUME bad # {} PROVE FALSE
    <3>1. PICK s \in bad : \A t \in SUBSET s : t \in bad => t = s
      BY <2>1, <2>2, SmallestPart
    <3>2. SumFunctionOnSet(f, s) \notin Nat /\ s \in SUBSET S /\ s \in SUBSET T
      BY <2>1 DEF bad
    <3>3. SumFunctionOnSet(f, s) =
            IF s = {} THEN 0 ELSE f[Pick(s)] + SumFunctionOnSet(f, s \ {Pick(s)})
      BY <3>2, SumUnfolds
    <3>4. s # {}
      BY <3>2, <3>3
    <3>5. SumFunctionOnSet(f, s \ {Pick(s)}) \in Nat /\ f[Pick(s)] \in Nat
      BY <3>1, <3>2, <3>4, PickIn DEF bad
    <3> QED BY <3>2, <3>3, <3>4, <3>5
  <2> QED BY <2>2 DEF bad
<1>2. ASSUME NEW x \in S PROVE f[x] <= SumFunctionOnSet(f, S)
  <2>1. SumFunctionOnSet(f, S) = f[x] + SumFunctionOnSet(f, S \ {x})
    BY SumTakes
  <2>2. SumFunctionOnSet(f, S \ {x}) \in Nat /\ f[x] \in Nat
    BY <1>1
  <2> QED BY <2>1, <2>2
<1> QED BY <1>1, <1>2

LEMMA SumUnion ==
  ASSUME NEW A, IsFiniteSet(A), NEW B, IsFiniteSet(B), A \cap B = {},
         NEW f, \A x \in A \cup B : f[x] \in Int
  PROVE  SumFunctionOnSet(f, A \cup B) = SumFunctionOnSet(f, A) + SumFunctionOnSet(f, B)
<1> DEFINE sum(s) == SumFunctionOnSet(f, s)
           bad == {s \in SUBSET B : sum(A \cup s) # sum(A) + sum(s)}
<1> SUFFICES ASSUME bad # {} PROVE FALSE
  OBVIOUS
<1>1. bad \in SUBSET SUBSET B
  OBVIOUS
<1>2. \A s \in SUBSET B : IsFiniteSet(s) /\ IsFiniteSet(A \cup s)
  BY FS_Subset, FS_Union
<1>3. \A s \in SUBSET B : sum(s) \in Int /\ sum(A \cup s) \in Int
  BY <1>2, SumIsInt
<1>4. ASSUME NEW s \in SUBSET B, NEW x \in s PROVE sum(s) = f[x] + sum(s \ {x})
  BY <1>2, <1>4, SumTakes
<1>5. ASSUME NEW s \in SUBSET B, NEW x \in s PROVE sum(A \cup s) = f[x] + sum((A \cup s) \ {x})
  BY <1>2, <1>5, SumTakes
<1>6. sum({}) = 0
  BY <1>2, SumUnfolds
<1> HIDE DEF bad, sum
<1>7. PICK s \in bad : \A t \in SUBSET s : t \in bad => t = s
  BY <1>1, SmallestPart
<1>8. s \in SUBSET B /\ sum(A \cup s) # sum(A) + sum(s)
  BY <1>1 DEF bad
<1>9. sum(A) \in Int /\ A \cup {} = A
  BY <1>3
<1>10. s # {}
  BY <1>6, <1>8, <1>9
<1>11. PICK x \in s : TRUE
  BY <1>10
<1>12. (A \cup s) \ {x} = A \cup (s \ {x})
  BY <1>8
<1>13. sum(A \cup (s \ {x})) = sum(A) + sum(s \ {x})
  BY <1>7, <1>8 DEF bad
<1>14. sum(s) = f[x] + sum(s \ {x}) /\ sum(A \cup s) = f[x] + sum(A \cup (s \ {x}))
  <2>1. sum(s) = f[x] + sum(s \ {x})
    BY <1>4, <1>8
  <2>2. sum(A \cup s) = f[x] + sum((A \cup s) \ {x})
    BY <1>5, <1>8
  <2> QED BY <2>1, <2>2, <1>12
<1>15. f[x] \in Int /\ sum(s \ {x}) \in Int
  BY <1>3, <1>8
<1> QED BY <1>8, <1>9, <1>13, <1>14, <1>15

Image(b, J) == {b[j] : j \in J}

\* Renaming the elements changes no sum.
LEMMA SumMoves ==
  ASSUME NEW J, IsFiniteSet(J), NEW b, \A i, j \in J : b[i] = b[j] => i = j,
         NEW f, NEW g, \A j \in J : f[j] \in Int /\ g[b[j]] = f[j]
  PROVE  SumFunctionOnSet(g, Image(b, J)) = SumFunctionOnSet(f, J)
<1> DEFINE bad == {s \in SUBSET J : SumFunctionOnSet(g, Image(b, s)) # SumFunctionOnSet(f, s)}
<1> USE DEF Image
<1> SUFFICES ASSUME bad # {} PROVE FALSE
  OBVIOUS
<1>1. bad \in SUBSET SUBSET J
  OBVIOUS
<1>2. ASSUME NEW s \in SUBSET J PROVE IsFiniteSet(s) /\ IsFiniteSet(Image(b, s))
  <2>1. IsFiniteSet(s)
    BY FS_Subset
  <2>2. [j \in s |-> b[j]] \in Surjection(s, Image(b, s))
    BY DEF Surjection
  <2> QED BY <2>1, <2>2, FS_Surjection
<1>3. \A s \in SUBSET J : \A x \in Image(b, s) : g[x] \in Int
  OBVIOUS
<1>4. \A s \in SUBSET J : \A j \in s : Image(b, s) \ {b[j]} = Image(b, s \ {j}) /\ b[j] \in Image(b, s)
  OBVIOUS
<1>5. Image(b, {}) = {}
  OBVIOUS
<1> HIDE DEF bad, Image
<1>6. PICK s \in bad : \A t \in SUBSET s : t \in bad => t = s
  BY <1>1, SmallestPart
<1>7. s \in SUBSET J /\ SumFunctionOnSet(g, Image(b, s)) # SumFunctionOnSet(f, s)
  BY <1>1 DEF bad
<1>8. SumFunctionOnSet(f, {}) = 0 /\ SumFunctionOnSet(g, {}) = 0
  BY SumUnfolds
<1>9. PICK j \in s : TRUE
  BY <1>5, <1>7, <1>8
<1>10. SumFunctionOnSet(f, s) = f[j] + SumFunctionOnSet(f, s \ {j})
  BY <1>2, <1>7, SumTakes
<1>11. SumFunctionOnSet(g, Image(b, s)) = g[b[j]] + SumFunctionOnSet(g, Image(b, s) \ {b[j]})
  <2>1. IsFiniteSet(Image(b, s)) /\ b[j] \in Image(b, s) /\ \A x \in Image(b, s) : g[x] \in Int
    BY <1>2, <1>3, <1>4, <1>7
  <2> QED BY <2>1, SumTakes
<1>12. SumFunctionOnSet(g, Image(b, s \ {j})) = SumFunctionOnSet(f, s \ {j})
  BY <1>6, <1>7 DEF bad
<1> QED BY <1>4, <1>7, <1>10, <1>11, <1>12

\* A weighted sum lies between the bounds of what is weighted.
LEMMA SumBetween ==
  ASSUME NEW S, IsFiniteSet(S), NEW w, NEW v, NEW low \in Int, NEW high \in Int,
         \A x \in S : /\ w[x] \in Int /\ v[x] \in Int
                      /\ low * w[x] <= v[x] /\ v[x] <= high * w[x]
  PROVE  /\ low * SumFunctionOnSet(w, S) <= SumFunctionOnSet(v, S)
         /\ SumFunctionOnSet(v, S) <= high * SumFunctionOnSet(w, S)
<1> DEFINE weight(s) == SumFunctionOnSet(w, s)
           value(s) == SumFunctionOnSet(v, s)
           bad == {s \in SUBSET S : ~ (low * weight(s) <= value(s) /\ value(s) <= high * weight(s))}
<1> SUFFICES ASSUME bad # {} PROVE FALSE
  OBVIOUS
<1>1. bad \in SUBSET SUBSET S
  OBVIOUS
<1>2. \A s \in SUBSET S : weight(s) \in Int /\ value(s) \in Int
  BY SumIsInt, FS_Subset
<1>3. ASSUME NEW s \in SUBSET S, NEW x \in s PROVE weight(s) = w[x] + weight(s \ {x})
  BY <1>3, SumTakes, FS_Subset
<1>4. ASSUME NEW s \in SUBSET S, NEW x \in s PROVE value(s) = v[x] + value(s \ {x})
  BY <1>4, SumTakes, FS_Subset
<1>5. weight({}) = 0 /\ value({}) = 0
  BY SumUnfolds
<1> HIDE DEF bad, weight, value
<1>6. PICK s \in bad : \A t \in SUBSET s : t \in bad => t = s
  BY <1>1, SmallestPart
<1>7. s \in SUBSET S /\ ~ (low * weight(s) <= value(s) /\ value(s) <= high * weight(s))
  BY <1>1 DEF bad
<1>8. s # {}
  <2>1. low * 0 <= 0 /\ 0 <= high * 0
    OBVIOUS
  <2> QED BY <1>5, <1>7, <2>1, Zenon
<1>9. PICK x \in s : TRUE
  BY <1>8
<1> DEFINE a == weight(s \ {x})
           b == value(s \ {x})
<1>10. a \in Int /\ b \in Int /\ w[x] \in Int /\ v[x] \in Int
  BY <1>2, <1>7
<1>11. low * a <= b /\ b <= high * a
  BY <1>6, <1>7 DEF bad
<1>12. weight(s) = w[x] + a /\ value(s) = v[x] + b
  BY <1>3, <1>4, <1>7
<1>13. low * w[x] <= v[x] /\ v[x] <= high * w[x]
  BY <1>7
<1> HIDE DEF a, b
<1>14. low * (w[x] + a) = low * w[x] + low * a /\ high * (w[x] + a) = high * w[x] + high * a
  BY <1>10
<1>15. low * w[x] \in Int /\ low * a \in Int /\ high * w[x] \in Int /\ high * a \in Int
  BY <1>10
<1>16. low * w[x] + low * a <= v[x] + b /\ v[x] + b <= high * w[x] + high * a
  BY <1>10, <1>11, <1>13, <1>15
<1> QED BY <1>7, <1>12, <1>14, <1>16

LEMMA Extremes ==
  ASSUME NEW S, IsFiniteSet(S), S # {}, NEW d, \A x \in S : d[x] \in Int
  PROVE  \E i, j \in S : \A x \in S : d[i] <= d[x] /\ d[x] <= d[j]
<1> DEFINE bad == {s \in SUBSET S : s # {} /\ ~ \E i, j \in s : \A x \in s : d[i] <= d[x] /\ d[x] <= d[j]}
<1> SUFFICES ASSUME bad # {} PROVE FALSE
  OBVIOUS
<1>1. bad \in SUBSET SUBSET S
  OBVIOUS
<1> HIDE DEF bad
<1>2. PICK s \in bad : \A t \in SUBSET s : t \in bad => t = s
  BY <1>1, SmallestPart
<1>3. s \in SUBSET S /\ s # {} /\ ~ \E i, j \in s : \A x \in s : d[i] <= d[x] /\ d[x] <= d[j]
  BY <1>1 DEF bad
<1>4. PICK y \in s : TRUE
  BY <1>3
<1> DEFINE t == s \ {y}
<1>5. t # {}
  BY <1>3, <1>4
<1>6. t \in SUBSET s /\ t # s /\ t \in SUBSET S
  BY <1>3, <1>4
<1> HIDE DEF t
<1>7. PICK i, j \in t : \A x \in t : d[i] <= d[x] /\ d[x] <= d[j]
  BY <1>2, <1>5, <1>6 DEF bad
<1>8. d[y] \in Int /\ d[i] \in Int /\ d[j] \in Int /\ \A x \in t : d[x] \in Int
  BY <1>3, <1>6
<1> DEFINE i2 == IF d[y] < d[i] THEN y ELSE i
           j2 == IF d[y] > d[j] THEN y ELSE j
<1>9. i2 \in s /\ j2 \in s /\ s = t \cup {y}
  BY <1>6 DEF t
<1>10. \A x \in t \cup {y} : d[i2] <= d[x] /\ d[x] <= d[j2]
  BY <1>7, <1>8
<1> QED BY <1>3, <1>9, <1>10

\* A sum over one set and over another that is moved out of the way of the first.
LEMMA SumOfTwo ==
  ASSUME NEW A, IsFiniteSet(A), NEW B, IsFiniteSet(B),
         NEW b, \A i, j \in B : b[i] = b[j] => i = j, A \cap Image(b, B) = {},
         NEW f, NEW fa, NEW fb,
         \A i \in A : fa[i] \in Int /\ f[i] = fa[i],
         \A j \in B : fb[j] \in Int /\ f[b[j]] = fb[j]
  PROVE  SumFunctionOnSet(f, A \cup Image(b, B)) =
           SumFunctionOnSet(fa, A) + SumFunctionOnSet(fb, B)
<1>1. SumFunctionOnSet(f, Image(b, B)) = SumFunctionOnSet(fb, B)
  BY SumMoves
<1>2. SumFunctionOnSet(f, A) = SumFunctionOnSet(fa, A)
  BY SumOfEqual
<1>3. IsFiniteSet(Image(b, B))
  <2>1. [j \in B |-> b[j]] \in Surjection(B, Image(b, B))
    BY DEF Surjection, Image
  <2> QED BY <2>1, FS_Surjection
<1>4. \A x \in A \cup Image(b, B) : f[x] \in Int
  BY DEF Image
<1>5. SumFunctionOnSet(f, A \cup Image(b, B)) =
        SumFunctionOnSet(f, A) + SumFunctionOnSet(f, Image(b, B))
  BY <1>3, <1>4, SumUnion
<1> QED BY <1>1, <1>2, <1>5

LEMMA SumOfOne ==
  ASSUME NEW x, NEW f, f[x] \in Int
  PROVE  SumFunctionOnSet(f, {x}) = f[x]
<1>1. IsFiniteSet({x}) /\ IsFiniteSet({})
  BY FS_Singleton, FS_EmptySet
<1>2. SumFunctionOnSet(f, {}) = 0
  BY <1>1, SumUnfolds
<1>3. SumFunctionOnSet(f, {x}) = f[x] + SumFunctionOnSet(f, {x} \ {x})
  BY <1>1, SumTakes
<1>4. {x} \ {x} = {}
  OBVIOUS
<1> QED BY <1>2, <1>3, <1>4

AddUp(x, y, z) == x \in Int /\ y \in Int /\ x + y = z

\* A sum in which one element is replaced by two that add up to it.
LEMMA SumOfSplit ==
  ASSUME NEW R, IsFiniteSet(R), NEW i, i \notin R,
         NEW b, \A x, y \in R : b[x] = b[y] => x = y,
         NEW u, NEW v, u # v, {u, v} \cap Image(b, R) = {},
         NEW f1, NEW f2, \A x \in R : f1[x] \in Int /\ f2[b[x]] = f1[x],
         AddUp(f2[u], f2[v], f1[i])
  PROVE  SumFunctionOnSet(f2, {u, v} \cup Image(b, R)) = SumFunctionOnSet(f1, R \cup {i})
<1>1. IsFiniteSet({u, v}) /\ IsFiniteSet(R \cup {i})
  <2>1. IsFiniteSet({u})
    BY FS_Singleton
  <2>2. IsFiniteSet({u} \cup {v}) /\ {u} \cup {v} = {u, v}
    BY <2>1, FS_AddElement
  <2> QED BY <2>2, FS_AddElement
<1>2. \A x \in {u, v} : f2[x] \in Int
  BY DEF AddUp
<1>3. SumFunctionOnSet(f2, {u, v} \cup Image(b, R)) =
        SumFunctionOnSet(f2, {u, v}) + SumFunctionOnSet(f1, R)
  BY <1>1, <1>2, SumOfTwo
<1>4. SumFunctionOnSet(f1, R \cup {i}) = f1[i] + SumFunctionOnSet(f1, R)
  <2>1. \A x \in R \cup {i} : f1[x] \in Int
    BY DEF AddUp
  <2>2. (R \cup {i}) \ {i} = R /\ i \in R \cup {i}
    OBVIOUS
  <2>3. SumFunctionOnSet(f1, R \cup {i}) = f1[i] + SumFunctionOnSet(f1, (R \cup {i}) \ {i})
    BY <1>1, <2>1, <2>2, SumTakes
  <2> QED BY <2>2, <2>3
<1>5. SumFunctionOnSet(f2, {u, v}) = f1[i]
  <2>1. {u, v} \ {u} = {v}
    OBVIOUS
  <2>2. SumFunctionOnSet(f2, {u, v}) = f2[u] + SumFunctionOnSet(f2, {u, v} \ {u})
    BY <1>1, <1>2, SumTakes
  <2>3. SumFunctionOnSet(f2, {v}) = f2[v]
    BY <1>2, SumOfOne
  <2> QED BY <2>1, <2>2, <2>3 DEF AddUp
<1> QED BY <1>3, <1>4, <1>5

-----------------------------------------------------------------------------
(* Arithmetic.                                                             *)

LEMMA Division ==
  ASSUME NEW n \in Nat, NEW d \in Nat \ {0}
  PROVE  /\ n \div d \in Nat /\ n % d \in 0..(d - 1)
         /\ n = d * (n \div d) + (n % d)
<1>1. n \div d \in Nat /\ n % d \in 0..(d - 1)
  OBVIOUS
<1>2. n = d * (n \div d) + (n % d)
  OBVIOUS
<1> QED BY <1>1, <1>2

LEMMA MultiplyKeepsOrder ==
  ASSUME NEW a \in Int, NEW b \in Int, NEW d \in Nat \ {0}
  PROVE  /\ a <= b <=> d * a <= d * b
         /\ a < b <=> d * a < d * b
OBVIOUS

-----------------------------------------------------------------------------
(* Ladder.                                                                 *)

LEMMA OrdinalIsInt ==
  ASSUME NEW year \in Int, NEW month \in Int, NEW day \in Int
  PROVE  Ordinal(year, month, day) \in Int
<1> DEFINE before == 1..(month - 1)
           days == [m \in before |-> DaysIn(year, m)]
<1>1. IsFiniteSet(before)
  BY FS_Interval
<1>2. \A m \in before : days[m] \in Int
  BY DEF DaysIn
<1>3. SumFunction(days) = SumFunctionOnSet(days, before)
  BY DEF SumFunction
<1> HIDE DEF before, days
<1>4. SumFunction(days) \in Int
  BY <1>1, <1>2, <1>3, SumIsInt
<1>5. (year - 1) \div 4 \in Int /\ (year - 1) \div 100 \in Int /\ (year - 1) \div 400 \in Int
  OBVIOUS
<1> QED BY <1>4, <1>5 DEF Ordinal, days, before

\* third_wednesday of execution_sync/utils.py, whatever day the month begins on: a
\* Wednesday, from the 15th to the 21st.
THEOREM ThirdWednesdayFound ==
  ASSUME NEW year \in Int, NEW month \in Int
  PROVE  /\ Weekday(ThirdWednesday(year, month)) = 2
         /\ ThirdWednesday(year, month) - Ordinal(year, month, 1) \in 14..20
<1> DEFINE first == Ordinal(year, month, 1)
<1> HIDE DEF first
<1>1. ThirdWednesday(year, month) = first + ((2 - Weekday(first)) % 7) + 14
  BY DEF ThirdWednesday, first
<1>2. first \in Int
  BY OrdinalIsInt DEF first
<1>3. Weekday(first + ((2 - Weekday(first)) % 7) + 14) = 2
  BY <1>2 DEF Weekday
<1>4. (2 - Weekday(first)) % 7 \in 0..6
  BY <1>2 DEF Weekday
<1> QED BY <1>1, <1>2, <1>3, <1>4 DEF first

\* allocate_quantity: the shares are natural, differ by at most one, the larger come
\* first, and those left with nothing are the ones beyond the quantity; with q the
\* smaller share and big the number of larger ones, buckets * q + big is the quantity.
THEOREM SharesAreEven ==
  ASSUME NEW total \in Nat, NEW buckets \in Nat \ {0}
  PROVE  LET share == AllocateQuantity(total, buckets) IN
         /\ share \in [1..buckets -> Nat]
         /\ \A i, j \in 1..buckets : i <= j => share[i] - share[j] \in {0, 1}
         /\ \A i \in 1..buckets : share[i] # 0 <=> i <= total
         /\ \E big \in 0..(buckets - 1) :
              /\ total = buckets * (total \div buckets) + big
              /\ \A i \in 1..buckets :
                   share[i] = (total \div buckets) + (IF i <= big THEN 1 ELSE 0)
<1> DEFINE q == total \div buckets
           big == total % buckets
           share == AllocateQuantity(total, buckets)
<1>1. q \in Nat /\ big \in 0..(buckets - 1) /\ total = buckets * q + big
  OBVIOUS
<1>2. share = [i \in 1..buckets |-> q + (IF i <= big THEN 1 ELSE 0)]
  BY DEF AllocateQuantity
<1> HIDE DEF q, big, share
<1>3. share \in [1..buckets -> Nat]
  BY <1>1, <1>2
<1>4. \A i, j \in 1..buckets : i <= j => share[i] - share[j] \in {0, 1}
  BY <1>1, <1>2
<1>5. q = 0 => total = big
  BY <1>1
<1>6. q > 0 => total >= buckets
  BY <1>1
<1>7. \A i \in 1..buckets : share[i] # 0 <=> i <= total
  BY <1>1, <1>2, <1>5, <1>6
<1> QED BY <1>1, <1>2, <1>3, <1>4, <1>7 DEF q, share

LEMMA Mirror ==
  ASSUME NEW base \in Int, NEW step \in Int, NEW a \in Int, NEW b \in Int, a + b = 0
  PROVE  (base + a * step) + (base + b * step) = 2 * base
<1>1. b = -a
  OBVIOUS
<1>2. (-a) * step = -(a * step)
  OBVIOUS
<1> QED BY <1>1, <1>2

\* ladder_strikes: as many strikes as layers, ascending, and in pairs at the same
\* distance below and above the base strike, also when that one is left out.
THEOREM LadderCentred ==
  ASSUME NEW base \in Int, NEW layers \in Nat \ {0}, NEW step \in Nat \ {0}
  PROVE  LET strikes == LadderStrikes(base, layers, step) IN
         /\ strikes \in Seq(Int) /\ Len(strikes) = layers
         /\ \A i, j \in 1..layers : i < j => strikes[i] < strikes[j]
         /\ \A i \in 1..layers : strikes[i] + strikes[layers + 1 - i] = 2 * base
<1> DEFINE half == layers \div 2
           all == [i \in 1..(2 * half + 1) |-> base + (i - half - 1) * step]
           strikes == LadderStrikes(base, layers, step)
           \* How many steps the i-th strike is above the base.
           at == [i \in 1..layers |->
                    IF layers % 2 = 0 /\ i > half THEN i - half ELSE i - half - 1]
<1>1. half \in Nat /\ 2 * half <= layers /\ layers <= 2 * half + 1
  OBVIOUS
<1>2. layers % 2 = 0 => layers = 2 * half
  OBVIOUS
<1>3. layers % 2 # 0 => layers = 2 * half + 1
  OBVIOUS
<1>4. all \in Seq(Int) /\ Len(all) = 2 * half + 1
  <2>1. \A i \in 1..(2 * half + 1) : base + (i - half - 1) * step \in Int
    BY <1>1
  <2> HIDE DEF half
  <2> QED BY <1>1, <2>1
<1>5. strikes \in Seq(Int) /\ Len(strikes) = layers
      /\ \A i \in 1..layers : strikes[i] = base + at[i] * step
  <2>1. CASE layers = 1
    <3>1. strikes = <<base>>
      BY <2>1 DEF LadderStrikes
    <3>2. at[1] = 0
      BY <2>1
    <3>3. at[1] * step = 0
      BY <3>2
    <3> HIDE DEF at, strikes
    <3> QED BY <2>1, <3>1, <3>3
  <2>2. CASE layers # 1 /\ layers % 2 = 0
    <3>1. strikes = SubSeq(all, 1, half) \o SubSeq(all, half + 2, 2 * half + 1)
      <4>1. strikes = RemoveAt(all, half + 1)
        BY <2>2 DEF LadderStrikes
      <4>2. (half + 1) - 1 = half /\ (half + 1) + 1 = half + 2
        BY <1>1
      <4> HIDE DEF half, all, strikes
      <4>3. RemoveAt(all, half + 1)
              = SubSeq(all, 1, (half + 1) - 1) \o SubSeq(all, (half + 1) + 1, Len(all))
        BY DEF RemoveAt
      <4>4. Len(all) = 2 * half + 1
        BY <1>4
      <4> QED BY <4>1, <4>2, <4>3, <4>4, Zenon
    <3>2. half >= 1
      BY <1>1, <1>2, <2>2
    <3> DEFINE low == SubSeq(all, 1, half)
               high == SubSeq(all, half + 2, 2 * half + 1)
    <3>3. /\ low \in Seq(Int) /\ Len(low) = half
          /\ \A i \in 1..half : low[i] = all[i]
      <4> HIDE DEF half, all
      <4> QED BY <1>1, <1>4, <3>2, SubSeqProperties
    <3>4. /\ high \in Seq(Int) /\ Len(high) = half
          /\ \A i \in 1..half : high[i] = all[half + 1 + i]
      <4> HIDE DEF half, all
      <4> QED BY <1>1, <1>4, <3>2, SubSeqProperties
    <3>5. /\ strikes \in Seq(Int) /\ Len(strikes) = 2 * half
          /\ \A i \in 1..(2 * half) : strikes[i] = IF i <= half THEN low[i] ELSE high[i - half]
      <4> HIDE DEF half, all, low, high, strikes
      <4>1. strikes = low \o high
        BY <3>1 DEF low, high
      <4>2. /\ low \o high \in Seq(Int) /\ Len(low \o high) = Len(low) + Len(high)
            /\ \A i \in 1..(Len(low) + Len(high)) :
                 (low \o high)[i] = IF i <= Len(low) THEN low[i] ELSE high[i - Len(low)]
        <5>1. low \in Seq(Int) /\ high \in Seq(Int)
          BY <3>3, <3>4
        <5> QED BY ONLY <5>1, ConcatProperties
      <4>3. Len(low) + Len(high) = 2 * half
        BY <1>1, <3>3, <3>4
      <4> QED BY <3>3, <4>1, <4>2, <4>3
    <3>6. ASSUME NEW i \in 1..layers PROVE strikes[i] = base + at[i] * step
      <4>1. CASE i <= half
        <5>1. at[i] = i - half - 1
          BY <1>1, <1>2, <2>2, <4>1
        <5>2. strikes[i] = all[i] /\ i \in 1..(2 * half + 1)
          <6> HIDE DEF all, strikes, low, high
          <6> QED BY <1>1, <1>2, <2>2, <3>3, <3>5, <4>1
        <5> QED BY <5>1, <5>2
      <4>2. CASE i > half
        <5>0. at[i] = i - half
          BY <1>1, <1>2, <2>2, <4>2
        <5>1. strikes[i] = all[i + 1] /\ i + 1 \in 1..(2 * half + 1)
          <6> DEFINE k == i - half
          <6>1. k \in 1..half /\ half + 1 + k = i + 1 /\ i \in 1..(2 * half)
            BY <1>1, <1>2, <2>2, <4>2
          <6> HIDE DEF all, strikes, low, high
          <6>2. strikes[i] = high[k]
            BY <3>5, <4>2, <6>1
          <6>3. high[k] = all[i + 1]
            BY <3>4, <6>1
          <6> QED BY <1>1, <6>1, <6>2, <6>3
        <5>2. all[i + 1] = base + (i + 1 - half - 1) * step
          BY <5>1
        <5>3. i + 1 - half - 1 = i - half
          BY <1>1
        <5> QED BY <5>0, <5>1, <5>2, <5>3
      <4> QED BY <1>1, <4>1, <4>2
    <3> QED BY <1>2, <2>2, <3>5, <3>6
  <2>3. CASE layers # 1 /\ layers % 2 # 0
    <3>1. strikes = all
      BY <2>3 DEF LadderStrikes
    <3>2. \A i \in 1..layers : all[i] = base + at[i] * step
      BY <1>3, <2>3
    <3> HIDE DEF all, at, strikes
    <3> QED BY <1>3, <1>4, <2>3, <3>1, <3>2
  <2> QED BY <2>1, <2>2, <2>3
<1>6. \A i \in 1..layers : at[i] \in Int
  BY <1>1
<1>7. \A i, j \in 1..layers : i < j => at[i] < at[j]
  BY <1>1
<1>8. \A i \in 1..layers : at[i] + at[layers + 1 - i] = 0 /\ layers + 1 - i \in 1..layers
  BY <1>1, <1>2, <1>3
<1> HIDE DEF at, strikes
<1>9. ASSUME NEW i \in 1..layers, NEW j \in 1..layers, i < j PROVE strikes[i] < strikes[j]
  <2>1. step * at[i] < step * at[j]
    BY <1>6, <1>7, <1>9, MultiplyKeepsOrder
  <2>2. strikes[i] = base + at[i] * step /\ strikes[j] = base + at[j] * step
    BY <1>5
  <2>3. \A n \in Int : n * step = step * n /\ step * n \in Int
    OBVIOUS
  <2> QED BY <1>6, <2>1, <2>2, <2>3
<1>10. ASSUME NEW i \in 1..layers PROVE strikes[i] + strikes[layers + 1 - i] = 2 * base
  <2>1. (base + at[i] * step) + (base + at[layers + 1 - i] * step) = 2 * base
    BY <1>6, <1>8, Mirror
  <2> QED BY <1>5, <1>8, <2>1
<1> QED BY <1>5, <1>9, <1>10 DEF strikes

LEMMA GreaterOf ==
  ASSUME NEW a \in Int, NEW b \in Int
  PROVE  Max({a, b}) = IF a >= b THEN a ELSE b
BY DEF Max

\* adjusted_limit_price and _apply_slippage: a buyer pays up to the slippage more, a
\* seller gets up to the slippage less, never the other way; only the second price
\* stops at zero.
THEOREM LimitsTolerate ==
  ASSUME NEW base \in Nat, NEW slippage \in Nat
  PROVE  /\ AdjustedLimitPrice("BUY", base, slippage) = base + slippage
         /\ AdjustedLimitPrice("SELL", base, slippage) = base - slippage
         /\ ApplySlippage("BUY", base, slippage) = base + slippage
         /\ ApplySlippage("SELL", base, slippage) \in 0..base
         /\ ApplySlippage("SELL", base, slippage) >= base - slippage
<1>1. Max({slippage, 0}) = slippage
  BY GreaterOf
<1>2. Max({base - slippage, 0}) = IF base >= slippage THEN base - slippage ELSE 0
  BY GreaterOf
<1>3. /\ ApplySlippage("BUY", base, slippage) = base + slippage
      /\ ApplySlippage("SELL", base, slippage) = Max({base - slippage, 0})
  BY <1>1 DEF ApplySlippage
<1> QED BY <1>2, <1>3 DEF AdjustedLimitPrice

-----------------------------------------------------------------------------
(* RiskPlan.                                                               *)

\* round of risk/bucketing.py: no integer is nearer, and a half goes to the even one.
THEOREM RoundIsNearest ==
  ASSUME NEW n \in Nat, NEW d \in Nat \ {0}
  PROVE  /\ Round(n, d) \in Nat
         /\ 2 * n - d <= d * (2 * Round(n, d)) /\ d * (2 * Round(n, d)) <= 2 * n + d
         /\ d * (2 * Round(n, d)) \in {2 * n - d, 2 * n + d} => Round(n, d) % 2 = 0
<1> DEFINE q == n \div d
           m == n % d
<1>1. q \in Nat /\ m \in 0..(d - 1) /\ n = d * q + m
  BY Division
<1>2. Round(n, d) = IF 2 * m > d \/ (2 * m = d /\ q % 2 = 1) THEN q + 1 ELSE q
  BY DEF Round
<1> HIDE DEF q, m
<1>3. d * (2 * q) = 2 * (d * q) /\ d * (2 * (q + 1)) = 2 * (d * q) + 2 * d
  BY <1>1
<1>4. d * q \in Nat /\ q % 2 \in {0, 1} /\ (q % 2 = 1 => (q + 1) % 2 = 0)
  BY <1>1
<1>5. CASE 2 * m > d \/ (2 * m = d /\ q % 2 = 1)
  <2>1. Round(n, d) = q + 1
    BY <1>2, <1>5
  <2>2. d * (2 * Round(n, d)) = 2 * n + 2 * (d - m)
    BY <1>1, <1>3, <1>4, <2>1
  <2>3. 2 * m > d => d * (2 * Round(n, d)) \notin {2 * n - d, 2 * n + d}
    BY <1>1, <2>2
  <2> QED BY <1>1, <1>4, <1>5, <2>1, <2>2, <2>3
<1>6. CASE ~(2 * m > d \/ (2 * m = d /\ q % 2 = 1))
  <2>1. Round(n, d) = q
    BY <1>2, <1>6
  <2>2. d * (2 * Round(n, d)) = 2 * n - 2 * m
    BY <1>1, <1>3, <1>4, <2>1
  <2>3. 2 * m # d => d * (2 * Round(n, d)) \notin {2 * n - d, 2 * n + d}
    BY <1>1, <1>6, <2>2
  <2> QED BY <1>1, <1>4, <1>6, <2>1, <2>2, <2>3
<1> QED BY <1>5, <1>6

\* Rounding does not leave a range of integers.
LEMMA RoundInRange ==
  ASSUME NEW n \in Nat, NEW d \in Nat \ {0}, NEW low \in Nat, NEW high \in Nat,
         d * low <= n, n <= d * high
  PROVE  Round(n, d) \in low..high
<1> DEFINE q == n \div d
           m == n % d
<1>1. q \in Nat /\ m \in 0..(d - 1) /\ n = d * q + m
  BY Division
<1>2. Round(n, d) = IF 2 * m > d \/ (2 * m = d /\ q % 2 = 1) THEN q + 1 ELSE q
  BY DEF Round
<1> HIDE DEF q, m
<1>3. low <= q
  <2>1. d * low < d * (q + 1)
    <3>1. d * (q + 1) = d * q + d /\ d * q \in Nat /\ d * low \in Nat
      BY <1>1
    <3> QED BY <1>1, <3>1
  <2> QED BY <1>1, <2>1, MultiplyKeepsOrder
<1>4. q <= high
  <2>1. d * q <= d * high
    BY <1>1
  <2> QED BY <1>1, <2>1, MultiplyKeepsOrder
<1>5. m > 0 => q < high
  <2>1. ASSUME m > 0 PROVE d * q < d * high
    <3>1. d * q \in Nat /\ d * high \in Nat
      BY <1>1
    <3> QED BY <1>1, <2>1, <3>1
  <2> QED BY <1>1, <2>1, MultiplyKeepsOrder
<1> QED BY <1>1, <1>2, <1>3, <1>4, <1>5

\* _blended_average_days: as long as the days of the exposures and of the hedges of a
\* bucket, weighted by delta, lie in a range, so does the tenor of both together; a
\* bucket without delta gets the default.
THEOREM BlendStaysInRange ==
  ASSUME NEW e, e.weight \in Nat, e.weightedDays \in Nat,
         NEW h, h.weight \in Nat, h.weightedDays \in Nat,
         NEW low \in Nat, NEW high \in Nat,
         e.weight * low <= e.weightedDays, e.weightedDays <= e.weight * high,
         h.weight * low <= h.weightedDays, h.weightedDays <= h.weight * high
  PROVE  IF e.weight + h.weight = 0 THEN BlendedDays(e, h) = DefaultDays
         ELSE BlendedDays(e, h) \in low..high
<1> DEFINE w == e.weight + h.weight
           n == e.weightedDays + h.weightedDays
<1>1. w \in Nat /\ n \in Nat
  OBVIOUS
<1>2. w * low <= n /\ n <= w * high
  <2>1. w * low = e.weight * low + h.weight * low /\ w * high = e.weight * high + h.weight * high
    OBVIOUS
  <2>2. /\ e.weight * low \in Nat /\ h.weight * low \in Nat
        /\ e.weight * high \in Nat /\ h.weight * high \in Nat
    OBVIOUS
  <2> QED BY <2>1, <2>2
<1>3. BlendedDays(e, h) = IF w = 0 THEN DefaultDays ELSE Round(n, w)
  BY DEF BlendedDays, AverageDays
<1> HIDE DEF w, n
<1>4. w # 0 => Round(n, w) \in low..high
  BY <1>1, <1>2, RoundInRange
<1> QED BY <1>3, <1>4 DEF w

\* week_bounds: the Monday on or before a day and the Sunday after it, which is in
\* the same week.
THEOREM WeekBounds ==
  ASSUME NEW day \in Int
  PROVE  LET start == WeekStart(day) IN
         /\ start \in Int /\ Weekday(start) = 0 /\ Weekday(WeekEnd(start)) = 6
         /\ start <= day /\ day <= WeekEnd(start)
         /\ WeekStart(WeekEnd(start)) = start
<1>1. WeekStart(day) = day - ((day + 6) % 7) /\ (day + 6) % 7 \in 0..6
  BY DEF WeekStart
<1>2. (WeekStart(day) + 6) % 7 = 0 /\ (WeekStart(day) + 6 + 6) % 7 = 6
  BY <1>1
<1> QED BY <1>1, <1>2 DEF WeekStart, WeekEnd, Weekday

\* What the buckets of a plan are: a pair and a Monday, and a delta after hedging.
Bucketed(metrics) ==
  \A key \in DOMAIN metrics :
    /\ key = <<key[1], key[2]>> /\ key[2] \in Int /\ WeekStart(key[2]) = key[2]
    /\ metrics[key].postDelta \in Int

\* _build_execution_list against the side of a position (Position.signed_delta) and
\* week_bounds: a recommendation, read back as a hedge, falls into the bucket it was made
\* for and has the opposite of its delta; every bucket with a delta has one, and no other.
THEOREM RecommendationsClose ==
  ASSUME NEW metrics, Bucketed(metrics)
  PROVE  /\ \A rec \in ExecutionList(metrics) :
              /\ Key(Coerce(rec)) \in DOMAIN metrics
              /\ metrics[Key(Coerce(rec))].postDelta + Signed(Coerce(rec)) = 0
              /\ Weight(Coerce(rec)) > 0
         /\ \A key \in DOMAIN metrics : metrics[key].postDelta # 0 =>
              \E rec \in ExecutionList(metrics) : Key(Coerce(rec)) = key
         /\ \A r1, r2 \in ExecutionList(metrics) :
              Key(Coerce(r1)) = Key(Coerce(r2)) => r1 = r2
<1> DEFINE Recommend(key) ==
             [pair |-> key[1], expiry |-> WeekEnd(key[2]),
              side |-> SideOf(metrics[key].postDelta), delta |-> Unset,
              qty |-> AbsValue(metrics[key].postDelta), mix |-> metrics[key].mix]
           Open == {k \in DOMAIN metrics : metrics[k].postDelta # 0}
<1>1. ExecutionList(metrics) = {Recommend(key) : key \in Open}
  BY DEF ExecutionList
<1>2. ASSUME NEW key \in Open
      PROVE  LET p == Coerce(Recommend(key)) IN
             /\ Key(p) = key /\ metrics[key].postDelta + Signed(p) = 0 /\ Weight(p) > 0
  <2> DEFINE p == Coerce(Recommend(key))
             post == metrics[key].postDelta
  <2>1. /\ post \in Int /\ post # 0
        /\ key = <<key[1], key[2]>> /\ key[2] \in Int /\ WeekStart(key[2]) = key[2]
    BY <1>2 DEF Bucketed
  <2>2. AbsValue(post) \in Nat \ {0} /\ (post > 0 => AbsValue(post) = post)
        /\ (post < 0 => AbsValue(post) = -post)
    BY <2>1 DEF AbsValue
  <2>3. /\ p.pair = key[1] /\ p.expiry = WeekEnd(key[2]) /\ p.side = SideOf(post)
        /\ p.delta = AbsValue(post)
    BY <2>2, UnsetAssumption DEF Coerce
  <2>4. Key(p) = key
    BY <2>1, <2>3, WeekBounds DEF Key
  <2>5. Signed(p) = -post
    BY <2>1, <2>2, <2>3 DEF Signed, SideOf
  <2>6. Weight(p) > 0
    BY <2>1, <2>5 DEF Weight, AbsValue
  <2>7. post + Signed(p) = 0
    BY <2>1, <2>5
  <2> HIDE DEF p
  <2> QED BY <2>4, <2>6, <2>7 DEF p
<1> HIDE DEF Recommend
<1>3. \A key \in Open : key \in DOMAIN metrics
  OBVIOUS
<1> QED BY <1>1, <1>2, <1>3

-----------------------------------------------------------------------------
(* From a book to its plan.                                                *)

\* Positions of which everything but the mix is known.
HasNumbers(p) == p.expiry \in Int /\ p.delta \in Int \cup {Unset} /\ p.qty \in Int \cup {Unset}
Numbered(ps) == ps \in Seq(Range(ps)) /\ \A p \in Range(ps) : HasNumbers(p)

LEMMA Coerced ==
  ASSUME NEW p, HasNumbers(p)
  PROVE  /\ Key(Coerce(p)) = Key(p) /\ Days(Coerce(p)) = Days(p) /\ Days(p) \in Nat
         /\ Signed(Coerce(p)) \in Int /\ Weight(Coerce(p)) \in Nat
<1>1. /\ Coerce(p).pair = p.pair /\ Coerce(p).expiry = p.expiry
      /\ Coerce(p).delta \in Int /\ p.expiry \in Int /\ Valuation \in Int
  BY ValuesAssumption DEF HasNumbers, Coerce
<1>2. Signed(Coerce(p)) \in Int
  BY <1>1 DEF Signed
<1>3. Weight(Coerce(p)) \in Nat
  BY <1>2 DEF Weight, AbsValue
<1> QED BY <1>1, <1>2, <1>3 DEF Key, Days

LEMMA BucketIsFinite ==
  ASSUME NEW ps, Len(ps) \in Nat, NEW key
  PROVE  IsFiniteSet(In(ps, key)) /\ In(ps, key) \subseteq 1..Len(ps)
<1>1. IsFiniteSet(1..Len(ps)) /\ In(ps, key) \in SUBSET (1..Len(ps))
  BY FS_Interval DEF In
<1> QED BY <1>1, FS_Subset

\* What _Aggregate.add_position makes of the positions of one bucket.
LEMMA AggregateInRange ==
  ASSUME NEW ps, Len(ps) \in Nat, NEW key, NEW low \in Nat, NEW high \in Nat,
         \A i \in In(ps, key) :
           /\ Weight(ps[i]) \in Nat /\ Days(ps[i]) \in Nat
           /\ Weight(ps[i]) # 0 => low <= Days(ps[i]) /\ Days(ps[i]) <= high
  PROVE  LET a == Aggregate(ps, key) IN
         /\ a.weight \in Nat /\ a.weightedDays \in Nat
         /\ a.weight * low <= a.weightedDays /\ a.weightedDays <= a.weight * high
         /\ \A i \in In(ps, key) : Weight(ps[i]) <= a.weight
<1> DEFINE here == In(ps, key)
           w == [i \in here |-> Weight(ps[i])]
           v == [i \in here |-> Weight(ps[i]) * Days(ps[i])]
           a == Aggregate(ps, key)
<1>1. IsFiniteSet(here)
  BY BucketIsFinite
<1>2. a.weight = SumFunctionOnSet(w, here) /\ a.weightedDays = SumFunctionOnSet(v, here)
  BY DEF Aggregate, SumFunction
<1>3. \A i \in here : w[i] = Weight(ps[i]) /\ v[i] = Weight(ps[i]) * Days(ps[i])
  OBVIOUS
<1> HIDE DEF w, v, here, a
<1>4. ASSUME NEW i \in here
      PROVE  w[i] \in Nat /\ v[i] \in Nat /\ low * w[i] <= v[i] /\ v[i] <= high * w[i]
  <2>1. w[i] \in Nat /\ Days(ps[i]) \in Nat /\ v[i] = w[i] * Days(ps[i])
    BY <1>3, <1>4 DEF here
  <2>2. CASE w[i] = 0
    BY <2>1, <2>2
  <2>3. CASE w[i] # 0
    <3>1. low <= Days(ps[i]) /\ Days(ps[i]) <= high /\ w[i] \in Nat \ {0}
      BY <1>3, <1>4, <2>1, <2>3 DEF here
    <3>2. w[i] * low <= w[i] * Days(ps[i]) /\ w[i] * Days(ps[i]) <= w[i] * high
      <4>1. \A x, y \in Int : x <= y => w[i] * x <= w[i] * y
        BY <3>1, MultiplyKeepsOrder
      <4>2. low \in Int /\ high \in Int /\ Days(ps[i]) \in Int
        BY <2>1
      <4> QED BY <3>1, <4>1, <4>2
    <3>3. w[i] * low = low * w[i] /\ w[i] * high = high * w[i] /\ w[i] * Days(ps[i]) \in Nat
      BY <2>1
    <3> QED BY <2>1, <3>2, <3>3
  <2> QED BY <2>2, <2>3
<1>5. /\ a.weight \in Nat /\ a.weightedDays \in Nat
      /\ \A i \in here : w[i] <= a.weight
  BY <1>1, <1>2, <1>4, SumOfNaturals
<1>6. low * a.weight <= a.weightedDays /\ a.weightedDays <= high * a.weight
  <2>1. low \in Int /\ high \in Int
    OBVIOUS
  <2>2. \A i \in here : /\ w[i] \in Int /\ v[i] \in Int
                       /\ low * w[i] <= v[i] /\ v[i] <= high * w[i]
    BY <1>4
  <2> QED BY <1>1, <1>2, <2>1, <2>2, SumBetween
<1>7. low * a.weight = a.weight * low /\ high * a.weight = a.weight * high
  BY <1>5
<1> QED BY <1>3, <1>5, <1>6, <1>7 DEF a, here

LEMMA BooksNumbered ==
  ASSUME NEW ps, IsBook(ps)
  PROVE  Numbered(ps)
BY DEF IsBook, IsPosition, Numbered, HasNumbers

LEMMA BookIs ==
  ASSUME NEW ps, Numbered(ps)
  PROVE  /\ Len(ps) \in Nat /\ ps \in Seq(Range(ps))
         /\ \A i \in 1..Len(ps) : ps[i] \in Range(ps) /\ HasNumbers(ps[i])
<1>1. ps \in Seq(Range(ps)) /\ \A p \in Range(ps) : HasNumbers(p)
  BY DEF Numbered
<1>2. DOMAIN ps = 1..Len(ps) /\ Len(ps) \in Nat
  BY <1>1
<1>3. \A i \in DOMAIN ps : ps[i] \in Range(ps)
  BY DEF Range
<1> QED BY <1>1, <1>2, <1>3

LEMMA CoercedBook ==
  ASSUME NEW ps, Numbered(ps), NEW key
  PROVE  /\ Len(CoerceAll(ps)) = Len(ps) /\ Len(ps) \in Nat
         /\ In(CoerceAll(ps), key) = In(ps, key)
         /\ \A i \in 1..Len(ps) :
              /\ CoerceAll(ps)[i] = Coerce(ps[i])
              /\ Days(Coerce(ps[i])) = Days(ps[i]) /\ Days(ps[i]) \in Nat
              /\ Signed(Coerce(ps[i])) \in Int /\ Weight(Coerce(ps[i])) \in Nat
<1>1. Len(ps) \in Nat /\ \A i \in 1..Len(ps) : HasNumbers(ps[i])
  BY BookIs
<1>2. \A i \in 1..Len(ps) : CoerceAll(ps)[i] = Coerce(ps[i])
  BY DEF CoerceAll
<1>3. Len(CoerceAll(ps)) = Len(ps)
  BY <1>1 DEF CoerceAll
<1>4. \A i \in 1..Len(ps) :
        /\ Key(Coerce(ps[i])) = Key(ps[i])
        /\ Days(Coerce(ps[i])) = Days(ps[i]) /\ Days(ps[i]) \in Nat
        /\ Signed(Coerce(ps[i])) \in Int /\ Weight(Coerce(ps[i])) \in Nat
  BY <1>1, Coerced
<1>5. In(CoerceAll(ps), key) = In(ps, key)
  BY <1>2, <1>3, <1>4 DEF In
<1> QED BY <1>1, <1>2, <1>3, <1>4, <1>5

\* The places of a bucket in two books taken one after the other.
Joined(a, b) == a \o b

LEMMA InBoth ==
  ASSUME NEW a, Numbered(a), NEW b, Numbered(b), NEW key
  PROVE  /\ \A i \in In(a, key) : i \in In(Joined(a, b), key) /\ Joined(a, b)[i] = a[i]
         /\ \A j \in In(b, key) : Len(a) + j \in In(Joined(a, b), key) /\ Joined(a, b)[Len(a) + j] = b[j]
         /\ \A k \in In(Joined(a, b), key) :
              \/ k \in In(a, key) /\ Joined(a, b)[k] = a[k]
              \/ \E j \in In(b, key) : k = Len(a) + j /\ Joined(a, b)[k] = b[j]
<1> DEFINE R == Range(a) \cup Range(b)
<1>1. a \in Seq(R) /\ b \in Seq(R) /\ Len(a) \in Nat /\ Len(b) \in Nat
  BY BookIs
<1>2. /\ Len(Joined(a, b)) = Len(a) + Len(b)
      /\ \A i \in 1..Len(a) : Joined(a, b)[i] = a[i]
      /\ \A j \in 1..Len(b) : Joined(a, b)[Len(a) + j] = b[j]
  BY <1>1 DEF Joined
<1>3. \A k \in 1..(Len(a) + Len(b)) : k \in 1..Len(a) \/ \E j \in 1..Len(b) : k = Len(a) + j
  <2> SUFFICES ASSUME NEW k \in 1..(Len(a) + Len(b)), k \notin 1..Len(a)
               PROVE  k - Len(a) \in 1..Len(b) /\ k = Len(a) + (k - Len(a))
    OBVIOUS
  <2> QED BY <1>1
<1>4. \A j \in 1..Len(b) : Len(a) + j \in 1..(Len(a) + Len(b))
  BY <1>1
<1>5. \A i \in 1..Len(a) : i \in 1..(Len(a) + Len(b))
  BY <1>1
<1> HIDE DEF R
<1>6. \A i \in In(a, key) : i \in In(Joined(a, b), key) /\ Joined(a, b)[i] = a[i]
  BY <1>2, <1>5 DEF In
<1>7. \A j \in In(b, key) : Len(a) + j \in In(Joined(a, b), key) /\ Joined(a, b)[Len(a) + j] = b[j]
  BY <1>2, <1>4 DEF In
<1>8. ASSUME NEW k \in In(Joined(a, b), key)
      PROVE  \/ k \in In(a, key) /\ Joined(a, b)[k] = a[k]
             \/ \E j \in In(b, key) : k = Len(a) + j /\ Joined(a, b)[k] = b[j]
  <2>1. k \in 1..(Len(a) + Len(b)) /\ Key(Joined(a, b)[k]) = key
    BY <1>2, <1>8 DEF In
  <2>2. CASE k \in 1..Len(a)
    BY <1>2, <2>1, <2>2 DEF In
  <2>3. CASE \E j \in 1..Len(b) : k = Len(a) + j
    <3>1. PICK j \in 1..Len(b) : k = Len(a) + j
      BY <2>3
    <3>2. Joined(a, b)[k] = b[j]
      BY <1>2, <3>1
    <3> QED BY <2>1, <3>1, <3>2 DEF In
  <2> QED BY <1>3, <2>1, <2>2, <2>3
<1> QED BY <1>6, <1>7, <1>8

BookInv ==
  book # NoRequest =>
    /\ book \in Books
    /\ plan = GeneratePlan(book.exposures, book.hedges)

LEMMA BookInvariant == DeskSpec => []BookInv
<1>1. DeskInit => BookInv
  BY DEF DeskInit, BookInv
<1>2. BookInv /\ [DeskNext]_allVars => BookInv'
  <2> SUFFICES ASSUME BookInv, [DeskNext]_allVars PROVE BookInv'
    OBVIOUS
  <2>1. CASE AskPlan
    BY <2>1 DEF AskPlan, BookInv
  <2>2. CASE UNCHANGED <<book, plan>>
    BY <2>2 DEF BookInv
  <2>3. AskPlan \/ UNCHANGED <<book, plan>>
    BY DEF DeskNext, Hedge, deskVars, allVars
  <2> QED BY <2>1, <2>2, <2>3
<1> QED BY <1>1, <1>2, PTL DEF DeskSpec

LEMMA PlanParts ==
  ASSUME NEW exposures, NEW hedges
  PROVE  LET m == Metrics(CoerceAll(exposures), CoerceAll(hedges))
             p == GeneratePlan(exposures, hedges)
         IN /\ p = PlanOf(m)
            /\ p.buckets = m /\ p.executionPlan = ExecutionList(m) /\ p.deltaSavings = DeltaSavings(m)
BY DEF GeneratePlan, PlanOf

\* build_bucket_metrics and _blended_average_days: the average tenor of every bucket of
\* every plan is between the shortest and the longest of its positions with a delta.
THEOREM TenorsInRange == DeskSpec => []TenorInRange
<1>1. ASSUME BookInv PROVE TenorInRange
  <2> SUFFICES ASSUME Answered, NEW key \in DOMAIN plan.buckets
               PROVE  LET all   == Joined(book.exposures, book.hedges)
                          live  == {i \in In(all, key) : Weight(Coerce(all[i])) # 0}
                          tenor == plan.buckets[key].averageDays
                      IN live # {} => \E i, j \in live : Days(all[i]) <= tenor /\ tenor <= Days(all[j])
    BY DEF TenorInRange, Joined
  <2> DEFINE es == book.exposures
             hs == book.hedges
             all == Joined(es, hs)
             live == {i \in In(all, key) : Weight(Coerce(all[i])) # 0}
             tenor == plan.buckets[key].averageDays
             e == Aggregate(CoerceAll(es), key)
             h == Aggregate(CoerceAll(hs), key)
  <2>1. Numbered(es) /\ Numbered(hs)
    BY <1>1, BooksAssumption, BooksNumbered DEF BookInv, Answered
  <2>2. tenor = BlendedDays(e, h)
    <3>1. plan.buckets = Metrics(CoerceAll(es), CoerceAll(hs))
      BY <1>1, PlanParts DEF BookInv, Answered
    <3> QED BY <3>1 DEF Metrics, Bucket, Net
  <2> SUFFICES ASSUME live # {}
               PROVE  \E i, j \in live : Days(all[i]) <= tenor /\ tenor <= Days(all[j])
    OBVIOUS
  <2> HIDE DEF es, hs, e, h, tenor
  <2>3. /\ \A i \in In(es, key) : i \in In(all, key) /\ all[i] = es[i]
        /\ \A j \in In(hs, key) : Len(es) + j \in In(all, key) /\ all[Len(es) + j] = hs[j]
        /\ \A k \in In(all, key) : \/ k \in In(es, key) /\ all[k] = es[k]
                                   \/ \E j \in In(hs, key) : k = Len(es) + j /\ all[k] = hs[j]
    BY <2>1, InBoth
  <2>4. /\ \A i \in In(es, key) : /\ CoerceAll(es)[i] = Coerce(es[i])
                                  /\ Days(Coerce(es[i])) = Days(es[i]) /\ Days(es[i]) \in Nat
                                  /\ Weight(Coerce(es[i])) \in Nat
        /\ \A j \in In(hs, key) : /\ CoerceAll(hs)[j] = Coerce(hs[j])
                                  /\ Days(Coerce(hs[j])) = Days(hs[j]) /\ Days(hs[j]) \in Nat
                                  /\ Weight(Coerce(hs[j])) \in Nat
    BY <2>1, CoercedBook DEF In
  <2>5. IsFiniteSet(live) /\ \A k \in live : Days(all[k]) \in Nat
    <3>1. IsFiniteSet(In(all, key))
      <4>1. IsFiniteSet(In(es, key)) /\ IsFiniteSet(In(hs, key))
        BY <2>1, CoercedBook, BucketIsFinite
      <4>2. Len(all) \in Nat
        BY <2>1, BookIs DEF Joined
      <4> HIDE DEF all
      <4> QED BY <4>2, BucketIsFinite
    <3>2. IsFiniteSet(live)
      BY <3>1, FS_Subset
    <3>3. \A k \in In(all, key) : Days(all[k]) \in Nat
      BY <2>3, <2>4
    <3> QED BY <3>2, <3>3
  <2> HIDE DEF all
  <2>6. PICK i, j \in live : \A k \in live : Days(all[i]) <= Days(all[k]) /\ Days(all[k]) <= Days(all[j])
    <3> DEFINE days == [k \in live |-> Days(all[k])]
    <3>1. \A k \in live : days[k] = Days(all[k]) /\ days[k] \in Int
      BY <2>5
    <3> HIDE DEF days, live
    <3>2. \E i, j \in live : \A k \in live : days[i] <= days[k] /\ days[k] <= days[j]
      BY <2>5, <3>1, Extremes
    <3> QED BY <3>1, <3>2
  <2> DEFINE low == Days(all[i])
             high == Days(all[j])
  <2>7. low \in Nat /\ high \in Nat
    BY <2>5
  <2>8. \A k \in live : low <= Days(all[k]) /\ Days(all[k]) <= high
    BY <2>6
  <2> HIDE DEF low, high
  <2>9. \A k \in In(es, key) :
          /\ Weight(CoerceAll(es)[k]) \in Nat /\ Days(CoerceAll(es)[k]) \in Nat
          /\ Weight(CoerceAll(es)[k]) # 0 =>
               low <= Days(CoerceAll(es)[k]) /\ Days(CoerceAll(es)[k]) <= high
    BY <2>3, <2>4, <2>8
  <2>10. \A k \in In(hs, key) :
          /\ Weight(CoerceAll(hs)[k]) \in Nat /\ Days(CoerceAll(hs)[k]) \in Nat
          /\ Weight(CoerceAll(hs)[k]) # 0 =>
               low <= Days(CoerceAll(hs)[k]) /\ Days(CoerceAll(hs)[k]) <= high
    BY <2>3, <2>4, <2>8
  <2>11. /\ In(CoerceAll(es), key) = In(es, key) /\ Len(CoerceAll(es)) \in Nat
         /\ In(CoerceAll(hs), key) = In(hs, key) /\ Len(CoerceAll(hs)) \in Nat
    BY <2>1, CoercedBook
  <2>12. /\ e.weight \in Nat /\ e.weightedDays \in Nat
         /\ e.weight * low <= e.weightedDays /\ e.weightedDays <= e.weight * high
         /\ \A k \in In(es, key) : Weight(CoerceAll(es)[k]) <= e.weight
    BY <2>7, <2>9, <2>11, AggregateInRange DEF e
  <2>13. /\ h.weight \in Nat /\ h.weightedDays \in Nat
         /\ h.weight * low <= h.weightedDays /\ h.weightedDays <= h.weight * high
         /\ \A k \in In(hs, key) : Weight(CoerceAll(hs)[k]) <= h.weight
    BY <2>7, <2>10, <2>11, AggregateInRange DEF h
  <2>14. e.weight + h.weight # 0
    BY <2>3, <2>4, <2>12, <2>13
  <2>15. BlendedDays(e, h) \in low..high
    BY <2>7, <2>12, <2>13, <2>14, BlendStaysInRange
  <2>16. low <= tenor /\ tenor <= high
    BY <2>2, <2>7, <2>15
  <2> QED BY <2>16 DEF low, high
<1> QED BY <1>1, BookInvariant, PTL

-----------------------------------------------------------------------------
(* Hedging what a plan recommends.                                         *)

\* The fields of an aggregate as sums over the places of its bucket in the book.
Deltas(ps, key) == [i \in In(ps, key) |-> Signed(Coerce(ps[i]))]

LEMMA AggregateTyped ==
  ASSUME NEW ps, Numbered(ps), NEW key
  PROVE  LET a == Aggregate(CoerceAll(ps), key) IN
         /\ a.delta = SumFunctionOnSet(Deltas(ps, key), In(ps, key)) /\ a.delta \in Int
         /\ a.weight \in Nat /\ a.weightedDays \in Nat
<1> DEFINE cs == CoerceAll(ps)
           here == In(cs, key)
           s == [i \in here |-> Signed(cs[i])]
           w == [i \in here |-> Weight(cs[i])]
           v == [i \in here |-> Weight(cs[i]) * Days(cs[i])]
           a == Aggregate(cs, key)
<1>1. here = In(ps, key) /\ here \subseteq 1..Len(ps) /\ IsFiniteSet(here) /\ Len(cs) \in Nat
  BY CoercedBook, BucketIsFinite
<1>2. /\ a.delta = SumFunctionOnSet(s, here)
      /\ a.weight = SumFunctionOnSet(w, here) /\ a.weightedDays = SumFunctionOnSet(v, here)
  BY DEF Aggregate, SumFunction
<1>3. \A i \in 1..Len(ps) :
        /\ cs[i] = Coerce(ps[i]) /\ Signed(cs[i]) \in Int
        /\ Weight(cs[i]) \in Nat /\ Days(cs[i]) \in Nat
  BY CoercedBook
<1>4. \A i \in here : s[i] = Signed(Coerce(ps[i])) /\ s[i] \in Int
  BY <1>1, <1>3
<1>5. \A i \in here : w[i] \in Nat
  BY <1>1, <1>3
<1>6. \A i \in here : v[i] \in Nat
  BY <1>1, <1>3
<1>7. s = Deltas(ps, key)
  BY <1>1, <1>4 DEF Deltas
<1> HIDE DEF s, w, v, here, a
<1>8. a.delta \in Int
  BY <1>1, <1>2, <1>4, SumIsInt
<1>9. a.weight \in Nat /\ a.weightedDays \in Nat
  BY <1>1, <1>2, <1>5, <1>6, SumOfNaturals
<1> QED BY <1>1, <1>2, <1>7, <1>8, <1>9 DEF a

\* The place of the j-th element of a list that follows a.
Place(a, j) == Len(a) + j

\* A sum over a bucket of two books is the sum over the one and that over the other.
LEMMA SumOfBoth ==
  ASSUME NEW a, Numbered(a), NEW b, Numbered(b), NEW key, NEW f, NEW fa, NEW fb,
         \A i \in In(a, key) : fa[i] \in Int /\ f[i] = fa[i],
         \A j \in In(b, key) : fb[j] \in Int /\ f[Place(a, j)] = fb[j]
  PROVE  SumFunctionOnSet(f, In(Joined(a, b), key)) =
           SumFunctionOnSet(fa, In(a, key)) + SumFunctionOnSet(fb, In(b, key))
<1> DEFINE A == In(a, key)
           B == In(b, key)
           shift == [j \in B |-> Place(a, j)]
           moved == Image(shift, B)
<1>1. /\ Len(a) \in Nat /\ A \subseteq 1..Len(a) /\ IsFiniteSet(A)
      /\ Len(b) \in Nat /\ B \subseteq 1..Len(b) /\ IsFiniteSet(B)
  BY BookIs, BucketIsFinite
<1>2. In(Joined(a, b), key) = A \cup moved
  <2>1. \A j \in B : shift[j] = Len(a) + j
    BY DEF Place
  <2>2. A \cup moved \subseteq In(Joined(a, b), key)
    BY <2>1, InBoth DEF Image
  <2>3. In(Joined(a, b), key) \subseteq A \cup moved
    BY <2>1, InBoth DEF Image
  <2> QED BY <2>2, <2>3
<1>3. \A j \in B : shift[j] = Len(a) + j /\ j \in Nat /\ j > 0
  BY <1>1 DEF Place
<1>4. \A i, j \in B : shift[i] = shift[j] => i = j
  BY <1>1, <1>3
<1>5. A \cap moved = {}
  BY <1>1, <1>3 DEF Image
<1>6. \A j \in B : fb[j] \in Int /\ f[shift[j]] = fb[j]
  OBVIOUS
<1>7. \A i \in A : fa[i] \in Int /\ f[i] = fa[i]
  OBVIOUS
<1> HIDE DEF A, B, shift
<1>8. SumFunctionOnSet(f, A \cup moved) =
        SumFunctionOnSet(fa, A) + SumFunctionOnSet(fb, B)
  <2>1. IsFiniteSet(A) /\ IsFiniteSet(B)
    BY <1>1
  <2> QED BY <1>4, <1>5, <1>6, <1>7, <2>1, SumOfTwo
<1> QED BY <1>2, <1>8 DEF A, B

LEMMA DeltaOfBoth ==
  ASSUME NEW a, Numbered(a), NEW b, Numbered(b), Numbered(Joined(a, b)), NEW key
  PROVE  Aggregate(CoerceAll(Joined(a, b)), key).delta =
           Aggregate(CoerceAll(a), key).delta + Aggregate(CoerceAll(b), key).delta
<1> DEFINE f == Deltas(Joined(a, b), key)
           fa == Deltas(a, key)
           fb == Deltas(b, key)
<1>1. \A i \in In(a, key) : fa[i] \in Int /\ f[i] = fa[i]
  <2> SUFFICES ASSUME NEW i \in In(a, key) PROVE fa[i] \in Int /\ f[i] = fa[i]
    OBVIOUS
  <2>1. i \in In(Joined(a, b), key) /\ Joined(a, b)[i] = a[i]
    BY InBoth
  <2>2. Signed(Coerce(a[i])) \in Int
    BY CoercedBook DEF In
  <2> QED BY <2>1, <2>2 DEF Deltas
<1>2. \A j \in In(b, key) : fb[j] \in Int /\ f[Place(a, j)] = fb[j]
  <2> SUFFICES ASSUME NEW j \in In(b, key) PROVE fb[j] \in Int /\ f[Place(a, j)] = fb[j]
    OBVIOUS
  <2>1. Len(a) + j \in In(Joined(a, b), key) /\ Joined(a, b)[Len(a) + j] = b[j]
    BY InBoth
  <2>2. Signed(Coerce(b[j])) \in Int
    BY CoercedBook DEF In
  <2> QED BY <2>1, <2>2 DEF Deltas, Place
<1> HIDE DEF f, fa, fb
<1>3. SumFunctionOnSet(f, In(Joined(a, b), key)) =
        SumFunctionOnSet(fa, In(a, key)) + SumFunctionOnSet(fb, In(b, key))
  BY <1>1, <1>2, SumOfBoth
<1> QED BY <1>3, AggregateTyped DEF f, fa, fb

LEMMA JoinedNumbered ==
  ASSUME NEW a, Numbered(a), NEW b, Numbered(b)
  PROVE  Numbered(Joined(a, b))
<1> DEFINE R == Range(a) \cup Range(b)
           c == a \o b
<1>1. a \in Seq(R) /\ b \in Seq(R) /\ Len(a) \in Nat /\ Len(b) \in Nat
  BY BookIs
<1>2. c \in Seq(R)
  BY <1>1
<1>3. \A p \in R : HasNumbers(p)
  BY DEF Numbered
<1> HIDE DEF R, c
<1>4. DOMAIN c = 1..Len(c) /\ Len(c) \in Nat /\ \A i \in 1..Len(c) : c[i] \in R
  BY <1>2
<1>5. Range(c) \subseteq R
  BY <1>4 DEF Range
<1>6. \A i \in 1..Len(c) : c[i] \in Range(c)
  BY <1>4 DEF Range
<1>7. c \in Seq(Range(c))
  <2>1. c = [i \in 1..Len(c) |-> c[i]]
    BY <1>2
  <2> QED BY <1>4, <1>6, <2>1
<1> QED BY <1>3, <1>5, <1>7 DEF Numbered, Joined, c

\* SetToSeq lists every element once.
LEMMA Listed ==
  ASSUME NEW S, IsFiniteSet(S)
  PROVE  LET s == SetToSeq(S) IN
         /\ s \in Seq(S) /\ Len(s) \in Nat
         /\ \A i \in 1..Len(s) : s[i] \in S
         /\ \A i, j \in 1..Len(s) : s[i] = s[j] => i = j
         /\ \A x \in S : \E i \in 1..Len(s) : s[i] = x
<1> DEFINE n == Cardinality(S)
           s == SetToSeq(S)
<1>1. n \in Nat /\ ExistsBijection(1..n, S)
  BY FS_CardinalityType
<1>2. \E f \in [1..n -> S] : IsInjective(f)
  BY <1>1 DEF ExistsBijection, Bijection, Injection, Surjection
<1>3. s \in [1..n -> S] /\ IsInjective(s)
  BY <1>2 DEF SetToSeq
<1> HIDE DEF n, s
<1>4. s \in Injection(1..n, S)
  BY <1>3 DEF Injection
<1>5. Cardinality(1..n) = n
  <2>1. 1 > n => n = 0
    BY <1>1
  <2>2. Cardinality(1..n) = IF 1 > n THEN 0 ELSE n - 1 + 1
    BY <1>1, FS_Interval
  <2> QED BY <1>1, <2>1, <2>2
<1>6. s \in Surjection(1..n, S)
  BY <1>4, <1>5, FS_Injection DEF n
<1>7. s \in Seq(S) /\ Len(s) = n
  BY <1>1, <1>3
<1>8. \A x \in S : \E i \in 1..n : s[i] = x
  BY <1>6 DEF Surjection
<1>9. \A i, j \in 1..n : s[i] = s[j] => i = j
  BY <1>3 DEF IsInjective
<1>10. \A i \in 1..n : s[i] \in S
  BY <1>3
<1> QED BY <1>1, <1>7, <1>8, <1>9, <1>10 DEF s

LEMMA BucketOf ==
  ASSUME NEW es, Numbered(es), NEW hs, Numbered(hs),
         NEW key \in Keys(CoerceAll(es)) \cup Keys(CoerceAll(hs))
  PROVE  LET m == Metrics(CoerceAll(es), CoerceAll(hs))
             e == Aggregate(CoerceAll(es), key)
             h == Aggregate(CoerceAll(hs), key)
         IN /\ m[key].preDelta = e.delta /\ m[key].postDelta = e.delta + h.delta
            /\ e.delta \in Int /\ h.delta \in Int
            /\ m[key].postVar =
                 ValueAtRisk(key[1], m[key].postDelta, m[key].averageDays)
            /\ m[key].averageDays \in Int
<1> DEFINE m == Metrics(CoerceAll(es), CoerceAll(hs))
           e == Aggregate(CoerceAll(es), key)
           h == Aggregate(CoerceAll(hs), key)
<1>1. m[key] = Bucket(CoerceAll(es), CoerceAll(hs), key)
  BY DEF Metrics
<1>2. /\ m[key].preDelta = e.delta /\ m[key].postDelta = e.delta + h.delta
      /\ m[key].averageDays = BlendedDays(e, h)
      /\ m[key].postVar = ValueAtRisk(key[1], m[key].postDelta, m[key].averageDays)
  BY <1>1 DEF Bucket, Net
<1>3. /\ e.delta \in Int /\ e.weight \in Nat /\ e.weightedDays \in Nat
      /\ h.delta \in Int /\ h.weight \in Nat /\ h.weightedDays \in Nat
  BY AggregateTyped
<1>4. BlendedDays(e, h) \in Int
  <2> HIDE DEF e, h
  <2>1. e.weight + h.weight \in Nat /\ e.weightedDays + h.weightedDays \in Nat
    BY <1>3
  <2>2. e.weight + h.weight # 0 =>
          Round(e.weightedDays + h.weightedDays, e.weight + h.weight) \in Nat
    BY <2>1, RoundIsNearest
  <2> QED BY <2>1, <2>2 DEF BlendedDays, AverageDays, DefaultDays
<1> QED BY <1>2, <1>3, <1>4

\* A key is a pair and the Monday of a week, and has a position.
LEMMA KeysAre ==
  ASSUME NEW ps, Numbered(ps)
  PROVE  /\ IsFiniteSet(Keys(CoerceAll(ps)))
         /\ \A key \in Keys(CoerceAll(ps)) :
              key = <<key[1], key[2]>> /\ key[2] \in Int /\ WeekStart(key[2]) = key[2]
         /\ \A key : key \in Keys(CoerceAll(ps)) <=> In(ps, key) # {}
<1> DEFINE cs == CoerceAll(ps)
<1>1. /\ Len(cs) = Len(ps) /\ Len(ps) \in Nat
      /\ \A i \in 1..Len(ps) : ps[i].expiry \in Int
  BY CoercedBook, BookIs DEF HasNumbers
<1>2. \A i \in 1..Len(ps) : Key(cs[i]) = Key(ps[i])
  <2>1. \A i \in 1..Len(ps) : cs[i] = Coerce(ps[i]) /\ HasNumbers(ps[i])
    BY CoercedBook, BookIs
  <2> QED BY <2>1, Coerced
<1> HIDE DEF cs
<1>3. IsFiniteSet(Keys(cs))
  <2>1. [i \in 1..Len(ps) |-> Key(cs[i])] \in Surjection(1..Len(ps), Keys(cs))
    BY <1>1 DEF Keys, Surjection
  <2>2. IsFiniteSet(1..Len(ps))
    <3>1. Len(ps) \in Int /\ 1 \in Int
      BY <1>1
    <3> QED BY <3>1, FS_Interval
  <2> QED BY <2>1, <2>2, FS_Surjection
<1>4. ASSUME NEW key \in Keys(cs)
      PROVE  key = <<key[1], key[2]>> /\ key[2] \in Int /\ WeekStart(key[2]) = key[2]
  <2>1. PICK i \in 1..Len(ps) : key = Key(ps[i])
    BY <1>1, <1>2 DEF Keys
  <2>2. key = <<key[1], key[2]>> /\ key[2] = WeekStart(ps[i].expiry)
    BY <2>1 DEF Key
  <2>3. key[2] \in Int /\ Weekday(key[2]) = 0
    BY <1>1, <2>2, WeekBounds
  <2>4. WeekStart(key[2]) = key[2]
    BY <2>3 DEF WeekStart, Weekday
  <2> QED BY <2>2, <2>3, <2>4
<1>5. ASSUME NEW key PROVE key \in Keys(cs) <=> In(ps, key) # {}
  BY <1>1, <1>2 DEF Keys, In
<1> QED BY <1>3, <1>4, <1>5 DEF cs

\* The recommendations as a list of hedges.
LEMMA RecommendedBook ==
  ASSUME NEW metrics, Bucketed(metrics), IsFiniteSet(DOMAIN metrics)
  PROVE  LET recs == SetToSeq(ExecutionList(metrics)) IN
         /\ Numbered(recs)
         /\ \A key : In(recs, key) # {} => key \in DOMAIN metrics
         /\ \A key \in DOMAIN metrics :
              Aggregate(CoerceAll(recs), key).delta = -metrics[key].postDelta
<1> DEFINE list == ExecutionList(metrics)
           recs == SetToSeq(list)
           Open == {k \in DOMAIN metrics : metrics[k].postDelta # 0}
           Recommend(key) ==
             [pair |-> key[1], expiry |-> WeekEnd(key[2]),
              side |-> SideOf(metrics[key].postDelta), delta |-> Unset,
              qty |-> AbsValue(metrics[key].postDelta), mix |-> metrics[key].mix]
<1>1. list = {Recommend(key) : key \in Open}
  BY DEF ExecutionList
<1>2. IsFiniteSet(list)
  <2>1. [key \in Open |-> Recommend(key)] \in Surjection(Open, list)
    BY <1>1 DEF Surjection
  <2>2. IsFiniteSet(Open)
    BY FS_Subset
  <2> QED BY <2>1, <2>2, FS_Surjection
<1>3. \A rec \in list : HasNumbers(rec)
  <2> SUFFICES ASSUME NEW key \in Open PROVE HasNumbers(Recommend(key))
    BY <1>1
  <2>1. key[2] \in Int /\ metrics[key].postDelta \in Int
    BY DEF Bucketed
  <2> QED BY <2>1 DEF HasNumbers, WeekEnd, AbsValue
<1> HIDE DEF list, recs
<1>4. /\ recs \in Seq(list) /\ Len(recs) \in Nat
      /\ \A i \in 1..Len(recs) : recs[i] \in list
      /\ \A i, j \in 1..Len(recs) : recs[i] = recs[j] => i = j
      /\ \A rec \in list : \E i \in 1..Len(recs) : recs[i] = rec
  BY <1>2, Listed DEF recs
<1>5. Numbered(recs)
  <2>1. DOMAIN recs = 1..Len(recs) /\ recs = [i \in 1..Len(recs) |-> recs[i]]
    BY <1>4
  <2>2. Range(recs) \subseteq list /\ \A i \in 1..Len(recs) : recs[i] \in Range(recs)
    BY <1>4, <2>1 DEF Range
  <2>3. recs \in Seq(Range(recs))
    BY <1>4, <2>1, <2>2
  <2> QED BY <1>3, <2>2, <2>3 DEF Numbered
<1>6. /\ \A rec \in list :
           /\ Key(Coerce(rec)) \in DOMAIN metrics
           /\ metrics[Key(Coerce(rec))].postDelta + Signed(Coerce(rec)) = 0
           /\ Weight(Coerce(rec)) > 0
      /\ \A key \in DOMAIN metrics : metrics[key].postDelta # 0 =>
           \E rec \in list : Key(Coerce(rec)) = key
      /\ \A r1, r2 \in list : Key(Coerce(r1)) = Key(Coerce(r2)) => r1 = r2
  BY RecommendationsClose DEF list
<1>7. \A rec \in list : Key(Coerce(rec)) = Key(rec) /\ Signed(Coerce(rec)) \in Int
  BY <1>3, Coerced
<1>8. \A key : In(recs, key) # {} => key \in DOMAIN metrics
  <2> SUFFICES ASSUME NEW key, NEW i \in In(recs, key) PROVE key \in DOMAIN metrics
    OBVIOUS
  <2>1. i \in 1..Len(recs) /\ Key(recs[i]) = key
    BY DEF In
  <2>2. recs[i] \in list
    BY <1>4, <2>1
  <2> QED BY <1>6, <1>7, <2>1, <2>2
<1>9. ASSUME NEW key \in DOMAIN metrics
      PROVE  Aggregate(CoerceAll(recs), key).delta = -metrics[key].postDelta
  <2>1. Aggregate(CoerceAll(recs), key).delta =
          SumFunctionOnSet(Deltas(recs, key), In(recs, key))
    BY <1>5, AggregateTyped
  <2>2. metrics[key].postDelta \in Int
    BY DEF Bucketed
  <2>3. CASE In(recs, key) = {}
    <3>1. metrics[key].postDelta = 0
      <4> SUFFICES ASSUME metrics[key].postDelta # 0 PROVE FALSE
        OBVIOUS
      <4>1. PICK rec \in list : Key(Coerce(rec)) = key
        BY <1>6
      <4>2. PICK i \in 1..Len(recs) : recs[i] = rec
        BY <1>4
      <4> QED BY <1>7, <2>3, <4>1, <4>2 DEF In
    <3>2. SumFunctionOnSet(Deltas(recs, key), {}) = 0
      BY SumUnfolds, FS_EmptySet
    <3> QED BY <2>1, <2>3, <3>1, <3>2
  <2>4. CASE In(recs, key) # {}
    <3>1. PICK i \in In(recs, key) : TRUE
      BY <2>4
    <3>2. i \in 1..Len(recs) /\ recs[i] \in list /\ Key(Coerce(recs[i])) = key
      BY <1>4, <1>7, <3>1 DEF In
    <3>3. \A j \in In(recs, key) : j = i
      <4> SUFFICES ASSUME NEW j \in In(recs, key) PROVE j = i
        OBVIOUS
      <4>1. j \in 1..Len(recs) /\ recs[j] \in list /\ Key(Coerce(recs[j])) = key
        BY <1>4, <1>7 DEF In
      <4>2. recs[i] = recs[j]
        BY <1>6, <3>2, <4>1
      <4> QED BY <1>4, <3>2, <4>1, <4>2
    <3>4. In(recs, key) = {i}
      BY <3>1, <3>3
    <3>5. Deltas(recs, key)[i] = Signed(Coerce(recs[i])) /\ Signed(Coerce(recs[i])) \in Int
      BY <1>7, <3>1, <3>2 DEF Deltas
    <3>6. SumFunctionOnSet(Deltas(recs, key), {i}) = Signed(Coerce(recs[i]))
      BY <3>5, SumOfOne
    <3>7. metrics[key].postDelta + Signed(Coerce(recs[i])) = 0
      BY <1>6, <3>2
    <3> QED BY <2>1, <2>2, <3>4, <3>5, <3>6, <3>7
  <2> QED BY <2>3, <2>4
<1> QED BY <1>5, <1>8, <1>9 DEF recs, list

LEMMA PlanBucketed ==
  ASSUME NEW es, Numbered(es), NEW hs, Numbered(hs)
  PROVE  Bucketed(Metrics(CoerceAll(es), CoerceAll(hs)))
<1> DEFINE m == Metrics(CoerceAll(es), CoerceAll(hs))
<1>1. DOMAIN m = Keys(CoerceAll(es)) \cup Keys(CoerceAll(hs))
  BY DEF Metrics
<1> SUFFICES ASSUME NEW key \in DOMAIN m
             PROVE  /\ key = <<key[1], key[2]>> /\ key[2] \in Int /\ WeekStart(key[2]) = key[2]
                    /\ m[key].postDelta \in Int
  BY DEF Bucketed
<1>2. key = <<key[1], key[2]>> /\ key[2] \in Int /\ WeekStart(key[2]) = key[2]
  BY <1>1, KeysAre
<1>3. m[key].postDelta \in Int
  BY <1>1, BucketOf
<1> QED BY <1>2, <1>3

\* After the recommendations of a plan are hedged, the buckets are the same and none
\* has a delta.
LEMMA Flattened ==
  ASSUME NEW es, Numbered(es), NEW hs, Numbered(hs)
  PROVE  LET m == Metrics(CoerceAll(es), CoerceAll(hs))
             recs == SetToSeq(ExecutionList(m))
             after == Metrics(CoerceAll(es), CoerceAll(Joined(hs, recs)))
         IN /\ DOMAIN after = DOMAIN m
            /\ \A key \in DOMAIN after :
                 /\ after[key].preDelta \in Int /\ after[key].postDelta = 0
                 /\ after[key].postVar = ValueAtRisk(key[1], 0, after[key].averageDays)
                 /\ after[key].averageDays \in Int
<1> DEFINE m == Metrics(CoerceAll(es), CoerceAll(hs))
           recs == SetToSeq(ExecutionList(m))
           both == Joined(hs, recs)
           after == Metrics(CoerceAll(es), CoerceAll(both))
<1>1. /\ DOMAIN m = Keys(CoerceAll(es)) \cup Keys(CoerceAll(hs))
      /\ DOMAIN after = Keys(CoerceAll(es)) \cup Keys(CoerceAll(both))
  BY DEF Metrics
<1>2. Bucketed(m)
  BY PlanBucketed
<1>3. IsFiniteSet(DOMAIN m)
  <2>1. IsFiniteSet(Keys(CoerceAll(es))) /\ IsFiniteSet(Keys(CoerceAll(hs)))
    BY KeysAre
  <2>2. IsFiniteSet(Keys(CoerceAll(es)) \cup Keys(CoerceAll(hs)))
    BY <2>1, FS_Union
  <2> QED BY <1>1, <2>2
<1>10. ASSUME NEW key \in Keys(CoerceAll(es)) \cup Keys(CoerceAll(hs))
       PROVE  /\ m[key].postDelta =
                   Aggregate(CoerceAll(es), key).delta + Aggregate(CoerceAll(hs), key).delta
              /\ Aggregate(CoerceAll(es), key).delta \in Int
              /\ Aggregate(CoerceAll(hs), key).delta \in Int
  BY BucketOf
<1> HIDE DEF m
<1>4. /\ Numbered(recs)
      /\ \A key : In(recs, key) # {} => key \in DOMAIN m
      /\ \A key \in DOMAIN m : Aggregate(CoerceAll(recs), key).delta = -m[key].postDelta
  BY <1>2, <1>3, RecommendedBook
<1> HIDE DEF recs
<1>5. Numbered(both)
  BY <1>4, JoinedNumbered
<1>6. \A key : In(both, key) # {} <=> In(hs, key) # {} \/ In(recs, key) # {}
  BY <1>4, InBoth
<1> HIDE DEF both
<1>7. DOMAIN after = DOMAIN m
  <2>1. \A key : key \in Keys(CoerceAll(both)) => key \in DOMAIN m
    BY <1>1, <1>4, <1>5, <1>6, KeysAre
  <2>2. \A key : key \in Keys(CoerceAll(hs)) => key \in Keys(CoerceAll(both))
    BY <1>5, <1>6, KeysAre
  <2> QED BY <1>1, <2>1, <2>2
<1>8. ASSUME NEW key \in DOMAIN after
      PROVE  /\ after[key].preDelta \in Int /\ after[key].postDelta = 0
             /\ after[key].postVar = ValueAtRisk(key[1], 0, after[key].averageDays)
             /\ after[key].averageDays \in Int
  <2> DEFINE e == Aggregate(CoerceAll(es), key).delta
             h == Aggregate(CoerceAll(hs), key).delta
             r == Aggregate(CoerceAll(recs), key).delta
             b == Aggregate(CoerceAll(both), key).delta
  <2>1. m[key].postDelta = e + h /\ e \in Int /\ h \in Int
    BY <1>1, <1>7, <1>10
  <2>2. /\ after[key].preDelta = e /\ after[key].postDelta = e + b
        /\ after[key].postVar = ValueAtRisk(key[1], after[key].postDelta, after[key].averageDays)
        /\ after[key].averageDays \in Int
    BY <1>1, <1>5, BucketOf
  <2>3. b = h + r
    BY <1>4, <1>5, DeltaOfBoth DEF both
  <2>4. r = -m[key].postDelta
    BY <1>4, <1>7
  <2> HIDE DEF e, h, r, b, after
  <2>5. e + b = 0
    BY <2>1, <2>3, <2>4
  <2> QED BY <2>1, <2>2, <2>5
<1> QED BY <1>7, <1>8 DEF after, both, recs, m

\* generate_plan, applied to its own answer: whatever the book, hedging what it
\* recommends leaves nothing to recommend and nothing at risk, and saves all the delta.
THEOREM HedgedPlanIsFlat == DeskSpec => []PlanFlattens
<1>1. ASSUME BookInv PROVE PlanFlattens
  <2> SUFFICES ASSUME Answered
               PROVE  Flat(Netted(SetToSeq(plan.executionPlan)))
    BY DEF PlanFlattens
  <2> DEFINE es == book.exposures
             hs == book.hedges
             m == Metrics(CoerceAll(es), CoerceAll(hs))
             m2 == Metrics(CoerceAll(es), CoerceAll(Joined(hs, SetToSeq(ExecutionList(m)))))
             after == Netted(SetToSeq(plan.executionPlan))
  <2>1. Numbered(es) /\ Numbered(hs)
    BY <1>1, BooksAssumption, BooksNumbered DEF BookInv, Answered
  <2>2. plan.buckets = m /\ plan.executionPlan = ExecutionList(m)
    BY <1>1, PlanParts DEF BookInv, Answered
  <2>3. /\ after.buckets = m2 /\ after.executionPlan = ExecutionList(m2)
        /\ after.deltaSavings = DeltaSavings(m2)
    BY <2>2, PlanParts DEF Netted, Joined
  <2>4. /\ DOMAIN m2 = DOMAIN m
        /\ \A key \in DOMAIN m2 :
             /\ m2[key].preDelta \in Int /\ m2[key].postDelta = 0
             /\ m2[key].postVar = ValueAtRisk(key[1], 0, m2[key].averageDays)
             /\ m2[key].averageDays \in Int
    BY <2>1, Flattened
  <2> HIDE DEF es, hs, m, m2, after
  <2>5. ExecutionList(m2) = {}
    BY <2>4 DEF ExecutionList
  <2>6. \A key \in DOMAIN m2 : m2[key].postVar = 0
    <3> SUFFICES ASSUME NEW pair, NEW days \in Int PROVE ValueAtRisk(pair, 0, days) = 0
      BY <2>4
    <3>1. pair \in DOMAIN Vol => Vol[pair] \in Int
      BY ValuesAssumption
    <3> QED BY <3>1 DEF ValueAtRisk
  <2>7. DeltaSavings(m2) = SumFunction([key \in DOMAIN m2 |-> AbsValue(m2[key].preDelta)])
    <3>1. \A key \in DOMAIN m2 :
            AbsValue(m2[key].preDelta) - AbsValue(m2[key].postDelta) = AbsValue(m2[key].preDelta)
      BY <2>4 DEF AbsValue
    <3>2. [key \in DOMAIN m2 |-> AbsValue(m2[key].preDelta) - AbsValue(m2[key].postDelta)] =
            [key \in DOMAIN m2 |-> AbsValue(m2[key].preDelta)]
      BY <3>1
    <3> QED BY <3>2 DEF DeltaSavings
  <2> QED BY <2>2, <2>3, <2>4, <2>5, <2>6, <2>7 DEF after, Flat
<1> QED BY <1>1, BookInvariant, PTL

-----------------------------------------------------------------------------
(* A position booked as two.                                               *)

\* A list in which two elements stand at the front for one that is removed.
LEMMA TwoForOne ==
  ASSUME NEW R, NEW es \in Seq(R), NEW i \in 1..Len(es), NEW h1 \in R, NEW h2 \in R
  PROVE  LET new == <<h1, h2>> \o RemoveAt(es, i) IN
         /\ new \in Seq(R) /\ Len(new) = Len(es) + 1
         /\ new[1] = h1 /\ new[2] = h2
         /\ \A x \in 1..(i - 1) : new[x + 2] = es[x]
         /\ \A x \in (i + 1)..Len(es) : new[x + 1] = es[x]
<1> DEFINE a == SubSeq(es, 1, i - 1)
           b == SubSeq(es, i + 1, Len(es))
           c == a \o b
           new == <<h1, h2>> \o c
<1>1. /\ a \in Seq(R) /\ Len(a) = i - 1 /\ \A x \in 1..(i - 1) : a[x] = es[x]
  OBVIOUS
<1>2. b \in Seq(R) /\ Len(b) = Len(es) - i
  OBVIOUS
<1>3. \A x \in 1..(Len(es) - i) : b[x] = es[x + i]
  OBVIOUS
<1>4. RemoveAt(es, i) = c /\ Len(es) \in Nat
  BY DEF RemoveAt
<1> HIDE DEF a, b
<1>5. /\ c \in Seq(R) /\ Len(c) = Len(a) + Len(b)
      /\ \A x \in 1..(Len(a) + Len(b)) : c[x] = IF x <= Len(a) THEN a[x] ELSE b[x - Len(a)]
  BY <1>1, <1>2, ConcatProperties
<1>6. \A x \in 1..Len(a) : c[x] = a[x]
  BY <1>1, <1>2, <1>4, <1>5
<1>7. ASSUME NEW x \in 1..Len(b) PROVE c[Len(a) + x] = b[x]
  <2>1. Len(a) \in Nat /\ Len(b) \in Nat
    BY <1>1, <1>2, <1>4
  <2>2. Len(a) + x \in 1..(Len(a) + Len(b)) /\ ~(Len(a) + x <= Len(a)) /\ (Len(a) + x) - Len(a) = x
    BY <2>1
  <2>3. c[Len(a) + x] = b[(Len(a) + x) - Len(a)]
    BY <1>5, <2>2
  <2> QED BY <2>2, <2>3
<1> HIDE DEF c
<1>8. <<h1, h2>> \in Seq(R) /\ Len(<<h1, h2>>) = 2
  OBVIOUS
<1>9. new \in Seq(R) /\ Len(new) = 2 + Len(c) /\ new[1] = h1 /\ new[2] = h2
  BY <1>5, <1>8
<1>10. \A x \in 1..Len(c) : new[2 + x] = c[x]
  BY <1>5, <1>8
<1> HIDE DEF new
<1>11. Len(c) = Len(es) - 1
  BY <1>1, <1>2, <1>4, <1>5
<1>12. Len(new) = Len(es) + 1
  BY <1>4, <1>9, <1>11
<1>13. ASSUME NEW x \in 1..(i - 1) PROVE new[x + 2] = es[x]
  <2>1. x \in 1..Len(c) /\ x \in 1..Len(a) /\ 2 + x = x + 2
    BY <1>1, <1>4, <1>11
  <2> QED BY <1>1, <1>6, <1>10, <2>1
<1>14. ASSUME NEW x \in (i + 1)..Len(es) PROVE new[x + 1] = es[x]
  <2> DEFINE y == x - i
  <2>1. y \in 1..Len(b) /\ Len(a) + y = x - 1 /\ x - 1 \in 1..Len(c) /\ 2 + (x - 1) = x + 1
    BY <1>1, <1>2, <1>4, <1>11
  <2>2. new[x + 1] = c[x - 1]
    BY <1>10, <2>1
  <2>3. c[x - 1] = b[y]
    BY <1>7, <2>1
  <2>4. b[y] = es[y + i] /\ y + i = x
    BY <1>2, <1>3, <1>4, <2>1
  <2> QED BY <2>2, <2>3, <2>4
<1> QED BY <1>4, <1>9, <1>12, <1>13, <1>14 DEF new

LEMMA RatiosTyped ==
  ASSUME NEW p, IsPosition(p), NEW strike
  PROVE  Share(Ratios(Coerce(p)), strike) \in Int
<1> DEFINE mix == Coerce(p).mix
           total == MixTotal(mix)
<1>1. Unit \in Nat \ {0}
  BY ValuesAssumption
<1>2. IsFiniteSet(DOMAIN mix) /\ \A s \in DOMAIN mix : mix[s] \in Int
  <2>1. CASE p.mix = Unset
    <3>1. mix = <<>>
      BY <2>1 DEF Coerce
    <3>2. DOMAIN mix = {}
      BY <3>1
    <3> QED BY <3>2, FS_EmptySet
  <2>2. CASE p.mix # Unset
    <3>1. mix = p.mix
      BY <2>2 DEF Coerce
    <3> QED BY <2>2, <3>1 DEF IsPosition
  <2> QED BY <2>1, <2>2
<1> HIDE DEF mix
<1>3. total \in Int
  BY <1>2, SumIsInt DEF MixTotal, SumFunction
<1>4. Ratios(Coerce(p)) = IF total <= 0 THEN AtTheMoney
                          ELSE [s \in DOMAIN mix |-> (mix[s] * Unit) \div total]
  BY DEF Ratios, mix
<1> HIDE DEF total
<1>5. CASE total <= 0
  <2>1. Ratios(Coerce(p)) = [ATM |-> Unit]
    BY <1>4, <1>5 DEF AtTheMoney
  <2> QED BY <1>1, <2>1 DEF Share
<1>6. CASE ~(total <= 0)
  <2>1. \A s \in DOMAIN mix : (mix[s] * Unit) \div total \in Int
    <3> SUFFICES ASSUME NEW s \in DOMAIN mix PROVE (mix[s] * Unit) \div total \in Int
      OBVIOUS
    <3>1. mix[s] * Unit \in Int /\ total > 0
      BY <1>1, <1>2, <1>3, <1>6
    <3> QED BY <1>3, <3>1
  <2> QED BY <1>4, <1>6, <2>1 DEF Share
<1> QED BY <1>5, <1>6

\* What the two halves of a position are in a plan.
LEMMA HalvesAre ==
  ASSUME NEW p, IsPosition(p), p.delta \in Nat \ {0, 1}
  PROVE  LET c == Coerce(p)
             u == Coerce(Halves(p)[1])
             v == Coerce(Halves(p)[2])
         IN /\ Key(u) = Key(c) /\ Key(v) = Key(c) /\ Days(u) = Days(c) /\ Days(v) = Days(c)
            /\ Ratios(u) = Ratios(c) /\ Ratios(v) = Ratios(c)
            /\ Signed(u) \in Int /\ Signed(v) \in Int /\ Signed(u) + Signed(v) = Signed(c)
            /\ Weight(u) \in Nat /\ Weight(v) \in Nat /\ Weight(u) + Weight(v) = Weight(c)
<1> DEFINE c == Coerce(p)
           u == Coerce(Halves(p)[1])
           v == Coerce(Halves(p)[2])
           a == [p EXCEPT !.delta = p.delta - 1]
           b == [p EXCEPT !.delta = 1]
<1>1. Halves(p)[1] = a /\ Halves(p)[2] = b
  BY DEF Halves
<1>2. p \in [pair : {p.pair}, side : {p.side}, mix : {p.mix}, expiry : Int,
             delta : Int \cup {Unset}, qty : Int \cup {Unset}]
  BY DEF IsPosition
<1>3. /\ a.pair = p.pair /\ a.side = p.side /\ a.mix = p.mix /\ a.expiry = p.expiry
      /\ b.pair = p.pair /\ b.side = p.side /\ b.mix = p.mix /\ b.expiry = p.expiry
      /\ a.delta = p.delta - 1 /\ b.delta = 1
  BY <1>2
<1> HIDE DEF a, b
<1>4. /\ c.pair = p.pair /\ c.side = p.side /\ c.expiry = p.expiry
      /\ u.pair = p.pair /\ u.side = p.side /\ u.expiry = p.expiry
      /\ v.pair = p.pair /\ v.side = p.side /\ v.expiry = p.expiry
      /\ u.mix = c.mix /\ v.mix = c.mix
  BY <1>1, <1>3 DEF Coerce
<1>5. c.delta = p.delta /\ u.delta = p.delta - 1 /\ v.delta = 1
  BY <1>1, <1>3, UnsetAssumption DEF Coerce
<1> HIDE DEF c, u, v
<1>6. Key(u) = Key(c) /\ Key(v) = Key(c) /\ Days(u) = Days(c) /\ Days(v) = Days(c)
  BY <1>4 DEF Key, Days
<1>7. Ratios(u) = Ratios(c) /\ Ratios(v) = Ratios(c)
  BY <1>4 DEF Ratios
<1>8. Signed(u) \in Int /\ Signed(v) \in Int /\ Signed(u) + Signed(v) = Signed(c)
  BY <1>4, <1>5 DEF Signed
<1>9. Weight(u) = p.delta - 1 /\ Weight(v) = 1 /\ Weight(c) = p.delta
  <2>1. CASE p.side \in {"buy", "long"}
    <3>1. Signed(u) = p.delta - 1 /\ Signed(v) = 1 /\ Signed(c) = p.delta
      BY <1>4, <1>5, <2>1 DEF Signed
    <3> QED BY <3>1 DEF Weight, AbsValue
  <2>2. CASE p.side \notin {"buy", "long"}
    <3>1. Signed(u) = -(p.delta - 1) /\ Signed(v) = -1 /\ Signed(c) = -p.delta
      BY <1>4, <1>5, <2>2 DEF Signed
    <3>2. \A n \in Nat \ {0} : -n < 0 /\ -(-n) = n
      OBVIOUS
    <3>3. p.delta \in Nat \ {0} /\ p.delta - 1 \in Nat \ {0} /\ 1 \in Nat \ {0}
      OBVIOUS
    <3> QED BY <3>1, <3>2, <3>3 DEF Weight, AbsValue
  <2> QED BY <2>1, <2>2
<1> QED BY <1>6, <1>7, <1>8, <1>9 DEF c, u, v

\* ns is cs with the i-th position replaced by two, at the front, that add up to it;
\* move says where the others have gone.
Rest(cs, i) == 1..Len(cs) \ {i}
Replaces(ns, cs, i, move) ==
  /\ Len(cs) \in Nat /\ Len(ns) \in Nat /\ i \in 1..Len(cs) /\ {1, 2} \subseteq 1..Len(ns)
  /\ \A x \in Rest(cs, i) : move[x] \in 1..Len(ns) /\ move[x] \notin {1, 2} /\ ns[move[x]] = cs[x]
  /\ \A x, y \in Rest(cs, i) : move[x] = move[y] => x = y
  /\ \A z \in 1..Len(ns) : z \in {1, 2} \/ \E x \in Rest(cs, i) : z = move[x]

Halved(ns, cs, i) ==
  /\ \A h \in {1, 2} : /\ Key(ns[h]) = Key(cs[i]) /\ Days(ns[h]) = Days(cs[i])
                       /\ Ratios(ns[h]) = Ratios(cs[i])
  /\ AddUp(Signed(ns[1]), Signed(ns[2]), Signed(cs[i]))
  /\ AddUp(Weight(ns[1]), Weight(ns[2]), Weight(cs[i]))

Typed(cs) ==
  \A x \in 1..Len(cs) :
    /\ Signed(cs[x]) \in Int /\ Weight(cs[x]) \in Int /\ Days(cs[x]) \in Int
    /\ \A strike : Share(Ratios(cs[x]), strike) \in Int

LEMMA SplitBook ==
  ASSUME NEW es, IsBook(es), NEW i \in 1..Len(es), es[i].delta \in Nat \ {0, 1}
  PROVE  LET cs   == CoerceAll(es)
             ns   == CoerceAll(Halves(es[i]) \o RemoveAt(es, i))
             move == [x \in 1..Len(es) |-> IF x < i THEN x + 2 ELSE x + 1]
         IN Replaces(ns, cs, i, move) /\ Halved(ns, cs, i) /\ Typed(cs)
<1> DEFINE p == es[i]
           a == Halves(p)[1]
           b == Halves(p)[2]
           R == Range(es) \cup {a, b}
           new == <<a, b>> \o RemoveAt(es, i)
           cs == CoerceAll(es)
           ns == CoerceAll(new)
           move == [x \in 1..Len(es) |-> IF x < i THEN x + 2 ELSE x + 1]
<1>1. /\ es \in Seq(R) /\ Len(es) \in Nat /\ a \in R /\ b \in R /\ i \in Nat \ {0}
      /\ \A x \in 1..Len(es) : es[x] \in Range(es) /\ IsPosition(es[x])
  BY BooksNumbered, BookIs DEF IsBook
<1>2. Halves(p) = <<a, b>>
  BY DEF Halves
<1> HIDE DEF a, b, R
<1>3. /\ new \in Seq(R) /\ Len(new) = Len(es) + 1 /\ new[1] = a /\ new[2] = b
      /\ \A x \in 1..(i - 1) : new[x + 2] = es[x]
      /\ \A x \in (i + 1)..Len(es) : new[x + 1] = es[x]
  BY <1>1, TwoForOne
<1> HIDE DEF new
<1>4. /\ Len(cs) = Len(es) /\ Len(ns) = Len(es) + 1
      /\ \A x \in 1..Len(es) : cs[x] = Coerce(es[x])
      /\ \A z \in 1..(Len(es) + 1) : ns[z] = Coerce(new[z])
  BY <1>1, <1>3 DEF CoerceAll
<1> HIDE DEF cs, ns
<1>5. ASSUME NEW x \in 1..Len(es), x # i
      PROVE  move[x] \in 1..(Len(es) + 1) /\ move[x] \notin {1, 2} /\ new[move[x]] = es[x]
  <2>1. CASE x < i
    <3>1. move[x] = x + 2 /\ x \in 1..(i - 1) /\ x + 2 \in 1..(Len(es) + 1) /\ x + 2 \notin {1, 2}
      BY <1>1, <2>1
    <3> QED BY <1>3, <3>1
  <2>2. CASE x > i
    <3>1. move[x] = x + 1 /\ x \in (i + 1)..Len(es)
      BY <1>1, <2>2
    <3>2. x + 1 \in 1..(Len(es) + 1) /\ x + 1 \notin {1, 2}
      BY <1>1, <2>2
    <3> QED BY <1>3, <3>1, <3>2
  <2> QED BY <1>1, <1>5, <2>1, <2>2
<1>6. \A x, y \in 1..Len(es) : x # i /\ y # i /\ move[x] = move[y] => x = y
  BY <1>1
<1>7. ASSUME NEW z \in 1..(Len(es) + 1), z \notin {1, 2}
      PROVE  \E x \in 1..Len(es) : x # i /\ z = move[x]
  <2>1. CASE z <= i + 1
    <3>1. z - 2 \in 1..Len(es) /\ z - 2 # i /\ move[z - 2] = z
      BY <1>1, <1>7, <2>1
    <3> QED BY <3>1
  <2>2. CASE z > i + 1
    <3>1. z - 1 \in 1..Len(es) /\ z - 1 # i /\ move[z - 1] = z
      BY <1>1, <1>7, <2>2
    <3> QED BY <3>1
  <2> QED BY <1>1, <2>1, <2>2
<1> HIDE DEF move
<1>8. Replaces(ns, cs, i, move)
  <2>1. \A x \in Rest(cs, i) : x \in 1..Len(es) /\ x # i
    BY <1>4 DEF Rest
  <2>2. \A x \in 1..Len(es) : x # i => x \in Rest(cs, i)
    BY <1>4 DEF Rest
  <2>3. Len(cs) \in Nat /\ Len(ns) \in Nat /\ i \in 1..Len(cs) /\ {1, 2} \subseteq 1..Len(ns)
    BY <1>1, <1>4
  <2>4. ASSUME NEW x \in Rest(cs, i)
        PROVE  move[x] \in 1..Len(ns) /\ move[x] \notin {1, 2} /\ ns[move[x]] = cs[x]
    BY <1>4, <1>5, <2>1
  <2>5. \A x, y \in Rest(cs, i) : move[x] = move[y] => x = y
    BY <1>6, <2>1
  <2>6. \A z \in 1..Len(ns) : z \in {1, 2} \/ \E x \in Rest(cs, i) : z = move[x]
    BY <1>4, <1>7, <2>2
  <2> QED BY <2>3, <2>4, <2>5, <2>6 DEF Replaces
<1>9. Halved(ns, cs, i)
  <2>1. 1 \in 1..(Len(es) + 1) /\ 2 \in 1..(Len(es) + 1)
    BY <1>1
  <2>2. cs[i] = Coerce(p) /\ ns[1] = Coerce(a) /\ ns[2] = Coerce(b)
    BY <1>3, <1>4, <2>1
  <2>3. IsPosition(p)
    BY <1>1
  <2> HIDE DEF p
  <2>4. p.delta \in Nat \ {0, 1}
    BY DEF p
  <2>5. /\ Key(Coerce(a)) = Key(Coerce(p)) /\ Key(Coerce(b)) = Key(Coerce(p))
        /\ Days(Coerce(a)) = Days(Coerce(p)) /\ Days(Coerce(b)) = Days(Coerce(p))
        /\ Ratios(Coerce(a)) = Ratios(Coerce(p)) /\ Ratios(Coerce(b)) = Ratios(Coerce(p))
        /\ AddUp(Signed(Coerce(a)), Signed(Coerce(b)), Signed(Coerce(p)))
        /\ AddUp(Weight(Coerce(a)), Weight(Coerce(b)), Weight(Coerce(p)))
    BY <2>3, <2>4, HalvesAre DEF a, b, AddUp
  <2> QED BY <2>2, <2>5 DEF Halved
<1>10. Typed(cs)
  <2> SUFFICES ASSUME NEW x \in 1..Len(es)
               PROVE  /\ Signed(cs[x]) \in Int /\ Weight(cs[x]) \in Int /\ Days(cs[x]) \in Int
                      /\ \A strike : Share(Ratios(cs[x]), strike) \in Int
    BY <1>4 DEF Typed
  <2>1. cs[x] = Coerce(es[x]) /\ IsPosition(es[x]) /\ HasNumbers(es[x])
    BY <1>1, <1>4 DEF IsPosition, HasNumbers
  <2>2. Signed(cs[x]) \in Int /\ Weight(cs[x]) \in Nat /\ Days(cs[x]) \in Nat
    BY <2>1, Coerced
  <2> QED BY <2>1, <2>2, RatiosTyped
<1> QED BY <1>2, <1>8, <1>9, <1>10 DEF ns, cs, new, move

LEMMA SplitMembers ==
  ASSUME NEW ns, NEW cs, NEW i, NEW move, Replaces(ns, cs, i, move), Halved(ns, cs, i), NEW key
  PROVE  /\ \A x \in In(cs, key) \ {i} : move[x] \in In(ns, key) /\ ns[move[x]] = cs[x]
         /\ i \in In(cs, key) => 1 \in In(ns, key) /\ 2 \in In(ns, key)
         /\ \A z \in In(ns, key) :
              \/ z \in {1, 2} /\ i \in In(cs, key)
              \/ \E x \in In(cs, key) \ {i} : z = move[x]
<1>1. \A x \in In(cs, key) \ {i} : x \in Rest(cs, i)
  BY DEF In, Rest
<1>2. \A x \in Rest(cs, i) : Key(cs[x]) = key => x \in In(cs, key) \ {i}
  BY DEF In, Rest
<1>3. ASSUME NEW x \in In(cs, key) \ {i} PROVE move[x] \in In(ns, key) /\ ns[move[x]] = cs[x]
  BY <1>1 DEF Replaces, In
<1>4. ASSUME i \in In(cs, key) PROVE 1 \in In(ns, key) /\ 2 \in In(ns, key)
  BY <1>4 DEF Replaces, Halved, In
<1>5. ASSUME NEW z \in In(ns, key)
      PROVE  \/ z \in {1, 2} /\ i \in In(cs, key)
             \/ \E x \in In(cs, key) \ {i} : z = move[x]
  <2>1. z \in 1..Len(ns) /\ Key(ns[z]) = key
    BY DEF In
  <2>2. CASE z \in {1, 2}
    BY <2>1, <2>2 DEF Replaces, Halved, In
  <2>3. CASE \E x \in Rest(cs, i) : z = move[x]
    <3>1. PICK x \in Rest(cs, i) : z = move[x]
      BY <2>3
    <3>2. Key(cs[x]) = key
      BY <2>1, <3>1 DEF Replaces
    <3> QED BY <1>2, <3>1, <3>2
  <2> QED BY <2>1, <2>2, <2>3 DEF Replaces
<1> QED BY <1>3, <1>4, <1>5

\* A sum over a bucket in which the two add up to the one.
LEMMA SplitSum ==
  ASSUME NEW ns, NEW cs, NEW i, NEW move, Replaces(ns, cs, i, move), Halved(ns, cs, i),
         NEW key, NEW f1, NEW f2, \A x \in In(cs, key) : f1[x] \in Int,
         \A x \in In(cs, key) \ {i} : f2[move[x]] = f1[x],
         i \in In(cs, key) => AddUp(f2[1], f2[2], f1[i])
  PROVE  SumFunctionOnSet(f2, In(ns, key)) = SumFunctionOnSet(f1, In(cs, key))
<1> DEFINE E == In(cs, key)
           R == E \ {i}
           N == In(ns, key)
<1>1. /\ \A x \in R : move[x] \in N
      /\ i \in E => 1 \in N /\ 2 \in N
      /\ \A z \in N : (z \in {1, 2} /\ i \in E) \/ \E x \in R : z = move[x]
  BY SplitMembers
<1>2. /\ \A x, y \in R : move[x] = move[y] => x = y
      /\ \A x \in R : move[x] \notin {1, 2}
  BY DEF Replaces, Rest, In
<1>3. IsFiniteSet(E) /\ IsFiniteSet(R)
  <2>1. Len(cs) \in Nat
    BY DEF Replaces
  <2> QED BY <2>1, BucketIsFinite, FS_Subset
<1>4. \A x \in R : f1[x] \in Int /\ f2[move[x]] = f1[x]
  OBVIOUS
<1>5. i \notin R /\ (i \in E => R \cup {i} = E) /\ (i \notin E => R = E)
  OBVIOUS
<1>6. i \in E => AddUp(f2[1], f2[2], f1[i])
  OBVIOUS
<1> HIDE DEF E, R, N
<1>7. CASE i \in E
  <2>1. N = {1, 2} \cup Image(move, R)
    BY <1>1, <1>7 DEF Image
  <2>2. {1, 2} \cap Image(move, R) = {} /\ 1 # 2
    BY <1>2 DEF Image
  <2>3. ASSUME NEW u, NEW v, u # v, {u, v} \cap Image(move, R) = {}, AddUp(f2[u], f2[v], f1[i])
        PROVE  SumFunctionOnSet(f2, {u, v} \cup Image(move, R)) = SumFunctionOnSet(f1, R \cup {i})
    <3>1. IsFiniteSet(R) /\ i \notin R
      BY <1>3, <1>5
    <3>2. \A x \in R : f1[x] \in Int /\ f2[move[x]] = f1[x]
      BY <1>4
    <3>3. \A x, y \in R : move[x] = move[y] => x = y
      BY <1>2
    <3> QED BY <2>3, <3>1, <3>2, <3>3, SumOfSplit
  <2>4. SumFunctionOnSet(f2, {1, 2} \cup Image(move, R)) = SumFunctionOnSet(f1, R \cup {i})
    BY <1>6, <1>7, <2>2, <2>3
  <2> QED BY <1>5, <1>7, <2>1, <2>4 DEF E, N
<1>8. CASE i \notin E
  <2>1. N = Image(move, R)
    BY <1>1, <1>8 DEF Image
  <2>2. SumFunctionOnSet(f2, Image(move, R)) = SumFunctionOnSet(f1, R)
    BY <1>2, <1>3, <1>4, SumMoves
  <2> QED BY <1>5, <1>8, <2>1, <2>2 DEF E, N
<1> QED BY <1>7, <1>8

LEMMA Distributes ==
  ASSUME NEW x, NEW y, NEW z, AddUp(x, y, z), NEW n \in Int
  PROVE  AddUp(x * n, y * n, z * n)
<1>1. x \in Int /\ y \in Int /\ x + y = z
  BY DEF AddUp
<1>2. (x + y) * n = x * n + y * n /\ x * n \in Int /\ y * n \in Int
  BY <1>1
<1> QED BY <1>1, <1>2 DEF AddUp

Strikes(ps, key) == UNION {DOMAIN Ratios(ps[x]) : x \in In(ps, key)}
Weighted(ps, key, strike) == [x \in In(ps, key) |-> Weight(ps[x]) * Share(Ratios(ps[x]), strike)]

LEMMA AggregateIs ==
  ASSUME NEW ps, NEW key
  PROVE  LET here == In(ps, key) IN
         Aggregate(ps, key) =
           [delta        |-> SumFunctionOnSet([x \in here |-> Signed(ps[x])], here),
            weight       |-> SumFunctionOnSet([x \in here |-> Weight(ps[x])], here),
            weightedDays |-> SumFunctionOnSet([x \in here |-> Weight(ps[x]) * Days(ps[x])], here),
            mix          |-> [strike \in Strikes(ps, key) |->
                                SumFunctionOnSet(Weighted(ps, key, strike), here)]]
BY DEF Aggregate, SumFunction, Strikes, Weighted

LEMMA SplitAggregate ==
  ASSUME NEW ns, NEW cs, NEW i, NEW move, Replaces(ns, cs, i, move), Halved(ns, cs, i),
         Typed(cs), NEW key
  PROVE  Aggregate(ns, key) = Aggregate(cs, key)
<1> DEFINE E == In(cs, key)
           N == In(ns, key)
<1>1. /\ \A x \in E \ {i} : move[x] \in N /\ ns[move[x]] = cs[x]
      /\ i \in E => 1 \in N /\ 2 \in N
      /\ \A z \in N : (z \in {1, 2} /\ i \in E) \/ \E x \in E \ {i} : z = move[x]
  BY SplitMembers
<1>2. ASSUME NEW x \in E
      PROVE  /\ Signed(cs[x]) \in Int /\ Weight(cs[x]) \in Int /\ Days(cs[x]) \in Int
             /\ \A strike : Share(Ratios(cs[x]), strike) \in Int
  BY DEF Typed, In
<1>3. /\ Days(ns[1]) = Days(cs[i]) /\ Ratios(ns[1]) = Ratios(cs[i])
      /\ Days(ns[2]) = Days(cs[i]) /\ Ratios(ns[2]) = Ratios(cs[i])
      /\ AddUp(Signed(ns[1]), Signed(ns[2]), Signed(cs[i]))
      /\ AddUp(Weight(ns[1]), Weight(ns[2]), Weight(cs[i]))
  BY DEF Halved
<1>4. SumFunctionOnSet([x \in N |-> Signed(ns[x])], N) =
        SumFunctionOnSet([x \in E |-> Signed(cs[x])], E)
  <2> DEFINE f1 == [x \in E |-> Signed(cs[x])]
             f2 == [x \in N |-> Signed(ns[x])]
  <2>1. \A x \in E : f1[x] \in Int
    BY <1>2
  <2>2. \A x \in E \ {i} : f2[move[x]] = f1[x]
    BY <1>1
  <2>3. i \in E => AddUp(f2[1], f2[2], f1[i])
    BY <1>1, <1>3
  <2> HIDE DEF f1, f2
  <2> QED BY <2>1, <2>2, <2>3, SplitSum DEF f1, f2
<1>5. SumFunctionOnSet([x \in N |-> Weight(ns[x])], N) =
        SumFunctionOnSet([x \in E |-> Weight(cs[x])], E)
  <2> DEFINE f1 == [x \in E |-> Weight(cs[x])]
             f2 == [x \in N |-> Weight(ns[x])]
  <2>1. \A x \in E : f1[x] \in Int
    BY <1>2
  <2>2. \A x \in E \ {i} : f2[move[x]] = f1[x]
    BY <1>1
  <2>3. i \in E => AddUp(f2[1], f2[2], f1[i])
    BY <1>1, <1>3
  <2> HIDE DEF f1, f2
  <2> QED BY <2>1, <2>2, <2>3, SplitSum DEF f1, f2
<1>6. SumFunctionOnSet([x \in N |-> Weight(ns[x]) * Days(ns[x])], N) =
        SumFunctionOnSet([x \in E |-> Weight(cs[x]) * Days(cs[x])], E)
  <2> DEFINE f1 == [x \in E |-> Weight(cs[x]) * Days(cs[x])]
             f2 == [x \in N |-> Weight(ns[x]) * Days(ns[x])]
  <2>1. \A x \in E : f1[x] \in Int
    BY <1>2
  <2>2. \A x \in E \ {i} : f2[move[x]] = f1[x]
    BY <1>1
  <2>3. ASSUME i \in E PROVE AddUp(f2[1], f2[2], f1[i])
    <3>1. AddUp(Weight(ns[1]) * Days(cs[i]), Weight(ns[2]) * Days(cs[i]), Weight(cs[i]) * Days(cs[i]))
      BY <1>2, <1>3, <2>3, Distributes
    <3>2. /\ f2[1] = Weight(ns[1]) * Days(ns[1]) /\ f2[2] = Weight(ns[2]) * Days(ns[2])
          /\ f1[i] = Weight(cs[i]) * Days(cs[i])
      BY <1>1, <2>3
    <3> QED BY <1>3, <3>1, <3>2
  <2> HIDE DEF f1, f2
  <2> QED BY <2>1, <2>2, <2>3, SplitSum DEF f1, f2
<1>7. ASSUME NEW strike
      PROVE  SumFunctionOnSet(Weighted(ns, key, strike), N) =
               SumFunctionOnSet(Weighted(cs, key, strike), E)
  <2> DEFINE f1 == Weighted(cs, key, strike)
             f2 == Weighted(ns, key, strike)
             share == Share(Ratios(cs[i]), strike)
  <2>1. \A x \in E : f1[x] = Weight(cs[x]) * Share(Ratios(cs[x]), strike)
    BY DEF Weighted
  <2>2. \A z \in N : f2[z] = Weight(ns[z]) * Share(Ratios(ns[z]), strike)
    BY DEF Weighted
  <2>3. ASSUME NEW x \in E PROVE f1[x] \in Int
    <3>1. Weight(cs[x]) \in Int /\ Share(Ratios(cs[x]), strike) \in Int
      BY <1>2
    <3> QED BY <2>1, <3>1
  <2>4. \A x \in E \ {i} : f2[move[x]] = f1[x]
    BY <1>1, <2>1, <2>2
  <2>5. ASSUME i \in E PROVE AddUp(f2[1], f2[2], f1[i])
    <3>1. AddUp(Weight(ns[1]) * share, Weight(ns[2]) * share, Weight(cs[i]) * share)
      BY <1>2, <1>3, <2>5, Distributes
    <3>2. /\ f2[1] = Weight(ns[1]) * share /\ f2[2] = Weight(ns[2]) * share
          /\ f1[i] = Weight(cs[i]) * share
      BY <1>1, <1>3, <2>1, <2>2, <2>5
    <3> QED BY <3>1, <3>2
  <2> HIDE DEF f1, f2
  <2> QED BY <2>3, <2>4, <2>5, SplitSum DEF f1, f2
<1>8. Strikes(ns, key) = Strikes(cs, key)
  <2>1. \A s : s \in Strikes(ns, key) <=> \E z \in N : s \in DOMAIN Ratios(ns[z])
    BY DEF Strikes
  <2>2. \A s : s \in Strikes(cs, key) <=> \E x \in E : s \in DOMAIN Ratios(cs[x])
    BY DEF Strikes
  <2>3. ASSUME NEW z \in N PROVE \E x \in E : Ratios(ns[z]) = Ratios(cs[x])
    BY <1>1, <1>3
  <2>4. ASSUME NEW x \in E PROVE \E z \in N : Ratios(ns[z]) = Ratios(cs[x])
    BY <1>1, <1>3
  <2> HIDE DEF E, N
  <2> QED BY <2>1, <2>2, <2>3, <2>4
<1>9. [strike \in Strikes(ns, key) |-> SumFunctionOnSet(Weighted(ns, key, strike), N)] =
        [strike \in Strikes(cs, key) |-> SumFunctionOnSet(Weighted(cs, key, strike), E)]
  BY <1>7, <1>8
<1> QED BY <1>4, <1>5, <1>6, <1>9, AggregateIs

LEMMA SplitKeys ==
  ASSUME NEW ns, NEW cs, NEW i, NEW move, Replaces(ns, cs, i, move), Halved(ns, cs, i)
  PROVE  Keys(ns) = Keys(cs)
<1>1. \A key : key \in Keys(ns) <=> \E z \in In(ns, key) : TRUE
  BY DEF Keys, In
<1>2. \A key : key \in Keys(cs) <=> \E x \in In(cs, key) : TRUE
  BY DEF Keys, In
<1>3. ASSUME NEW key PROVE key \in Keys(ns) <=> key \in Keys(cs)
  <2>1. /\ \A x \in In(cs, key) \ {i} : move[x] \in In(ns, key)
        /\ i \in In(cs, key) => 1 \in In(ns, key)
        /\ \A z \in In(ns, key) : i \in In(cs, key) \/ \E x \in In(cs, key) \ {i} : z = move[x]
    BY SplitMembers
  <2> QED BY <1>1, <1>2, <2>1
<1> QED BY <1>3

\* generate_plan nets deltas, and weighs tenors and mixes by delta: a position booked as
\* two that add up to it, whatever else the book holds, leads to the same plan.
THEOREM SplitNetsTheSame == DeskSpec => []SplitChangesNothing
<1>1. ASSUME BookInv PROVE SplitChangesNothing
  <2> SUFFICES ASSUME Answered, NEW i \in 1..Len(book.exposures),
                      book.exposures[i].delta \in Nat \ {0, 1}
               PROVE  GeneratePlan(Halves(book.exposures[i]) \o RemoveAt(book.exposures, i),
                                   book.hedges) = plan
    BY DEF SplitChangesNothing
  <2> DEFINE es == book.exposures
             new == Halves(es[i]) \o RemoveAt(es, i)
             cs == CoerceAll(es)
             ns == CoerceAll(new)
             hs == CoerceAll(book.hedges)
             move == [x \in 1..Len(es) |-> IF x < i THEN x + 2 ELSE x + 1]
  <2>1. IsBook(es) /\ plan = GeneratePlan(es, book.hedges)
    BY <1>1, BooksAssumption DEF BookInv, Answered
  <2>2. Replaces(ns, cs, i, move) /\ Halved(ns, cs, i) /\ Typed(cs)
    BY <2>1, SplitBook
  <2>3. /\ GeneratePlan(new, book.hedges) = PlanOf(Metrics(ns, hs))
        /\ GeneratePlan(es, book.hedges) = PlanOf(Metrics(cs, hs))
    BY DEF GeneratePlan
  <2> HIDE DEF es, new, cs, ns, hs, move
  <2>4. Keys(ns) = Keys(cs)
    BY <2>2, SplitKeys
  <2>5. \A key : Aggregate(ns, key) = Aggregate(cs, key)
    BY <2>2, SplitAggregate
  <2>6. \A key : Bucket(ns, hs, key) = Bucket(cs, hs, key)
    BY <2>5 DEF Bucket
  <2>7. Metrics(ns, hs) = Metrics(cs, hs)
    BY <2>4, <2>6 DEF Metrics
  <2>8. GeneratePlan(new, book.hedges) = plan
    BY <2>1, <2>3, <2>7
  <2> QED BY <2>8 DEF new, es
<1> QED BY <1>1, BookInvariant, PTL


-----------------------------------------------------------------------------
(* Lists that a loop keeps a run of.                                       *)

LEMMA SmallestOf ==
  ASSUME NEW S \in SUBSET Nat, S # {}
  PROVE  \E n \in S : \A m \in S : n <= m
<1>1. PICK k \in S : TRUE
  OBVIOUS
<1> DEFINE T == {n \in S : n <= k}
           d == [n \in T |-> n]
<1>2. T \in SUBSET (0..k) /\ k \in T
  <2>1. k \in Nat /\ \A n \in T : n \in Nat /\ n <= k
    OBVIOUS
  <2> HIDE DEF T
  <2>2. \A n \in T : n \in 0..k
    BY <2>1
  <2>3. k \in T
    BY <2>1 DEF T
  <2> QED BY <2>2, <2>3
<1>3. IsFiniteSet(0..k)
  BY FS_Interval
<1>4. IsFiniteSet(T)
  BY <1>2, <1>3, FS_Subset
<1>5. \A n \in T : d[n] \in Int
  OBVIOUS
<1> HIDE DEF d
<1>6. PICK n \in T : \A m \in T : d[n] <= d[m]
  BY <1>2, <1>4, <1>5, Extremes
<1>7. \A m \in T : n <= m
  BY <1>6 DEF d
<1>8. \A m \in S : n <= m
  BY <1>7
<1> QED BY <1>8

Stretch(s, lo, hi) == [i \in 1..(hi - lo + 1) |-> s[lo + i - 1]]

IsStretch(part, s, lo, hi, R) ==
  /\ part \in Seq(R) /\ Len(part) = hi - lo + 1
  /\ \A i \in 1..(hi - lo + 1) : part[i] = s[lo + i - 1]

LEMMA StretchIs ==
  ASSUME NEW R, NEW s \in Seq(R), NEW lo \in Nat \ {0}, NEW hi \in Nat, hi <= Len(s), lo <= hi + 1
  PROVE  IsStretch(Stretch(s, lo, hi), s, lo, hi, R)
<1>1. hi - lo + 1 \in Nat
  OBVIOUS
<1>2. \A i \in 1..(hi - lo + 1) : s[lo + i - 1] \in R
  OBVIOUS
<1> QED BY <1>1, <1>2 DEF Stretch, IsStretch

LEMMA StretchGrows ==
  ASSUME NEW R, NEW s \in Seq(R), NEW lo \in Nat \ {0}, NEW n \in 1..Len(s), lo <= n
  PROVE  Append(Stretch(s, lo, n - 1), s[n]) = Stretch(s, lo, n)
<1> DEFINE a == Stretch(s, lo, n - 1)
           b == Stretch(s, lo, n)
<1>1. /\ a \in Seq(R) /\ Len(a) = n - lo
      /\ \A i \in 1..(n - lo) : a[i] = s[lo + i - 1]
  <2> DEFINE k == n - 1
  <2>1. k \in Nat /\ k <= Len(s) /\ lo <= k + 1 /\ k - lo + 1 = n - lo
    OBVIOUS
  <2> HIDE DEF k
  <2>2. IsStretch(Stretch(s, lo, k), s, lo, k, R)
    BY <2>1, StretchIs
  <2> QED BY <2>1, <2>2 DEF k, IsStretch
<1>2. /\ b \in Seq(R) /\ Len(b) = n - lo + 1
      /\ \A i \in 1..(n - lo + 1) : b[i] = s[lo + i - 1]
  <2>1. n \in Nat /\ n <= Len(s) /\ lo <= n + 1
    OBVIOUS
  <2>2. IsStretch(b, s, lo, n, R)
    BY <2>1, StretchIs
  <2> QED BY <2>2 DEF IsStretch
<1>3. s[n] \in R
  OBVIOUS
<1> HIDE DEF a, b
<1>4. /\ Append(a, s[n]) \in Seq(R) /\ Len(Append(a, s[n])) = Len(a) + 1
      /\ \A i \in 1..Len(a) : Append(a, s[n])[i] = a[i]
      /\ Append(a, s[n])[Len(a) + 1] = s[n]
  BY <1>1, <1>3, AppendProperties
<1>5. \A i \in 1..(n - lo + 1) : Append(a, s[n])[i] = b[i]
  <2>1. lo + (n - lo + 1) - 1 = n
    OBVIOUS
  <2> QED BY <1>1, <1>2, <1>4, <2>1
<1>6. Append(a, s[n]) = b
  <2> DEFINE c == Append(a, s[n])
  <2>1. c \in Seq(R) /\ b \in Seq(R) /\ Len(c) = n - lo + 1 /\ Len(b) = n - lo + 1
    <3>1. Len(a) + 1 = n - lo + 1
      BY <1>1
    <3> QED BY <1>2, <1>4, <3>1
  <2>2. \A i \in 1..(n - lo + 1) : c[i] = b[i]
    BY <1>5
  <2> HIDE DEF c
  <2>3. Len(c) = Len(b) /\ \A i \in 1..Len(c) : c[i] = b[i]
    BY <2>1, <2>2
  <2>4. c = b
    BY ONLY <2>1, <2>3, SeqEqual
  <2> QED BY <2>4 DEF c
<1> QED BY <1>6 DEF a, b

\* What a loop keeps when it keeps what lies between two places.
LEMMA KeepsStretch ==
  ASSUME NEW R, NEW s \in Seq(R), NEW lo \in Nat \ {0}, NEW hi \in Nat, hi <= Len(s), lo <= hi + 1,
         NEW keep, \A i \in 1..Len(s) : i \in keep <=> lo <= i /\ i <= hi
  PROVE  Those(s, keep) = Stretch(s, lo, hi)
<1> DEFINE N == Len(s)
           to(n) == IF n < lo THEN lo - 1 ELSE IF n < hi THEN n ELSE hi
           g == [n \in 0..N |-> Stretch(s, lo, to(n))]
           turn(f, n) == IF n = 0 THEN <<>>
                         ELSE IF n \in keep THEN Append(f[n - 1], s[n]) ELSE f[n - 1]
           loop(f) == [n \in 0..N |-> turn(f, n)]
<1>0. N \in Nat
  OBVIOUS
<1>1. ASSUME NEW n \in 0..N PROVE g[n] = turn(g, n)
  <2>1. CASE n = 0
    <3>1. g[n] = Stretch(s, lo, lo - 1)
      BY <2>1
    <3>2. 1..((lo - 1) - lo + 1) = {}
      OBVIOUS
    <3> QED BY <2>1, <3>1, <3>2 DEF Stretch
  <2>2. CASE n # 0 /\ n \in keep
    <3>1. lo <= n /\ n <= hi /\ n \in 1..N /\ n - 1 \in 0..N
      BY <1>0, <2>2
    <3>2. to(n) = n /\ to(n - 1) = n - 1
      BY <3>1
    <3>3. g[n] = Stretch(s, lo, n) /\ g[n - 1] = Stretch(s, lo, n - 1)
      BY <3>1, <3>2
    <3> HIDE DEF g
    <3> QED BY <2>2, <3>1, <3>3, StretchGrows
  <2>3. CASE n # 0 /\ n \notin keep
    <3>1. (n < lo \/ n > hi) /\ n - 1 \in 0..N
      BY <1>0, <2>3
    <3>2. to(n) = to(n - 1)
      BY <1>0, <2>3, <3>1
    <3> QED BY <2>3, <3>1, <3>2
  <2> QED BY <2>1, <2>2, <2>3
<1> HIDE DEF g
<1>2. g = loop(g)
  <2>1. g = [n \in 0..N |-> g[n]]
    BY DEF g
  <2> QED BY <1>1, <2>1
<1>3. ASSUME NEW f, f = loop(f) PROVE f[N] = g[N]
  <2> DEFINE bad == {n \in 0..N : f[n] # g[n]}
  <2> SUFFICES ASSUME bad # {} PROVE FALSE
    BY <1>0
  <2>0. bad \in SUBSET Nat
    BY <1>0
  <2> HIDE DEF bad
  <2>1. PICK n \in bad : \A m \in bad : n <= m
    BY <2>0, SmallestOf
  <2> USE DEF bad
  <2>2. \A m \in 0..N : f[m] = turn(f, m)
    <3>1. \A m \in 0..N : loop(f)[m] = turn(f, m)
      OBVIOUS
    <3> QED BY <1>3, <3>1
  <2>3. f[n] = turn(f, n) /\ g[n] = turn(g, n)
    BY <1>1, <2>2
  <2>4. n # 0 => f[n - 1] = g[n - 1]
    BY <1>0, <2>1
  <2> QED BY <2>1, <2>3, <2>4
<1>4. Those(s, keep) = g[N]
  <2> DEFINE kept == CHOOSE f : f = loop(f)
  <2>1. Those(s, keep) = kept[N]
    BY DEF Those
  <2>2. kept = loop(kept)
    BY <1>2
  <2> QED BY <1>3, <2>1, <2>2
<1>5. to(N) = hi
  BY <1>0
<1>6. g[N] = Stretch(s, lo, hi)
  BY <1>0, <1>5 DEF g
<1> QED BY <1>4, <1>6

-----------------------------------------------------------------------------
(* Shares of a quantity.                                                   *)

Lesser(a, b) == IF a <= b THEN a ELSE b

\* The first n shares: n times the smaller, and one more for each larger.
LEMMA SharesAddUp ==
  ASSUME NEW total \in Nat, NEW buckets \in Nat \ {0}, NEW n \in 0..buckets
  PROVE  LET share == AllocateQuantity(total, buckets) IN
         SumFunctionOnSet(share, 1..n)
           = n * (total \div buckets) + Lesser(n, total % buckets)
<1> DEFINE share == AllocateQuantity(total, buckets)
           q == total \div buckets
           big == total % buckets
           sum(k) == SumFunctionOnSet(share, 1..k)
           bad == {k \in 0..buckets : sum(k) # k * q + Lesser(k, big)}
<1>1. q \in Nat /\ big \in 0..(buckets - 1)
  BY Division
<1>2. \A k \in 1..buckets : share[k] = q + (IF k <= big THEN 1 ELSE 0)
  BY DEF AllocateQuantity
<1> HIDE DEF share, q, big
<1>3. ASSUME NEW k \in 1..buckets PROVE sum(k) = share[k] + sum(k - 1)
  <2>1. IsFiniteSet(1..k) /\ k \in 1..k /\ (1..k) \ {k} = 1..(k - 1)
    BY FS_Interval
  <2>2. \A x \in 1..k : share[x] \in Int
    BY <1>1, <1>2
  <2>3. sum(k) = share[k] + SumFunctionOnSet(share, (1..k) \ {k})
    BY <2>1, <2>2, SumTakes
  <2> QED BY <2>1, <2>3
<1>4. sum(0) = 0
  <2>1. 1..0 = {}
    OBVIOUS
  <2>2. SumFunctionOnSet(share, {}) = 0
    BY FS_EmptySet, SumUnfolds
  <2> QED BY <2>1, <2>2
<1>5. ASSUME NEW k \in 1..buckets
      PROVE  k * q + Lesser(k, big) = share[k] + ((k - 1) * q + Lesser(k - 1, big))
  <2>1. k * q = (k - 1) * q + q /\ (k - 1) * q \in Int
    BY <1>1
  <2>2. Lesser(k, big) = (IF k <= big THEN 1 ELSE 0) + Lesser(k - 1, big)
        /\ Lesser(k - 1, big) \in Int
    BY <1>1 DEF Lesser
  <2>3. share[k] = q + (IF k <= big THEN 1 ELSE 0)
    BY <1>2
  <2> DEFINE one == IF k <= big THEN 1 ELSE 0
             rest == Lesser(k - 1, big)
             less == (k - 1) * q
  <2>4. one \in Int /\ rest \in Int /\ less \in Int /\ q \in Int
    BY <1>1, <2>1, <2>2
  <2>5. k * q = less + q /\ Lesser(k, big) = one + rest /\ share[k] = q + one
    BY <2>1, <2>2, <2>3
  <2> HIDE DEF one, rest, less
  <2>6. (less + q) + (one + rest) = (q + one) + (less + rest)
    BY <2>4
  <2> QED BY <2>5, <2>6 DEF rest, less
<1>6. 0 * q + Lesser(0, big) = 0
  BY <1>1 DEF Lesser
<1> HIDE DEF sum
<1> SUFFICES ASSUME bad # {} PROVE FALSE
  BY DEF sum, q, big, share
<1>7. bad \in SUBSET Nat
  OBVIOUS
<1> HIDE DEF bad
<1>8. PICK k \in bad : \A m \in bad : k <= m
  BY <1>7, SmallestOf
<1>9. k \in 0..buckets /\ sum(k) # k * q + Lesser(k, big)
  BY DEF bad
<1>10. k \in 1..buckets
  BY <1>4, <1>6, <1>9
<1>11. sum(k - 1) = (k - 1) * q + Lesser(k - 1, big)
  <2>1. k - 1 \in 0..buckets /\ ~(k <= k - 1)
    BY <1>10
  <2> QED BY <1>8, <2>1 DEF bad
<1> QED BY <1>3, <1>5, <1>9, <1>10, <1>11

LEMMA SharesAdded ==
  ASSUME NEW total \in Nat \ {0}, NEW n \in Nat \ {0}
  PROVE  SumFunctionOnSet(AllocateQuantity(total, n), 1..Lesser(n, total)) = total
<1> DEFINE m == Lesser(n, total)
           q == total \div n
           r == total % n
<1>1. total \in Nat /\ m \in 0..n
  BY DEF Lesser
<1>2. q \in Nat /\ r \in 0..(n - 1) /\ total = n * q + r
  BY <1>1, Division
<1>3. SumFunctionOnSet(AllocateQuantity(total, n), 1..m) = m * q + Lesser(m, r)
  <2> HIDE DEF m
  <2> QED BY <1>1, SharesAddUp
<1>4. CASE n <= total
  <2>1. m = n /\ Lesser(m, r) = r
    BY <1>2, <1>4 DEF Lesser
  <2> QED BY <1>2, <1>3, <2>1
<1>5. CASE ~(n <= total)
  <2>1. m = total /\ q = 0 /\ r = total
    BY <1>5 DEF Lesser
  <2>2. m * q = 0 /\ Lesser(m, r) = total
    BY <2>1 DEF Lesser
  <2> QED BY <1>1, <1>3, <2>2
<1> QED BY <1>4, <1>5

\* Which of the shares are something, and that they differ by one at most.
Even(share, n, total) ==
  /\ share \in [1..n -> Nat]
  /\ \A i, j \in 1..n : share[i] - share[j] <= 1
  /\ \A i \in 1..n : share[i] # 0 <=> i <= total

LEMMA SharesEven ==
  ASSUME NEW total \in Nat, NEW n \in Nat \ {0}
  PROVE  Even(AllocateQuantity(total, n), n, total)
<1> DEFINE share == AllocateQuantity(total, n)
<1>1. /\ share \in [1..n -> Nat]
      /\ \A i, j \in 1..n : i <= j => share[i] - share[j] \in {0, 1}
      /\ \A i \in 1..n : share[i] # 0 <=> i <= total
  BY SharesAreEven
<1> HIDE DEF share
<1>2. ASSUME NEW i \in 1..n, NEW j \in 1..n PROVE share[i] - share[j] <= 1
  <2>1. share[i] \in Nat /\ share[j] \in Nat
    BY <1>1
  <2>2. i <= j \/ j <= i
    OBVIOUS
  <2>3. CASE i <= j
    <3>1. share[i] - share[j] \in {0, 1}
      BY <1>1, <2>3
    <3> QED BY <3>1
  <2>4. CASE j <= i
    <3>1. share[j] - share[i] \in {0, 1}
      BY <1>1, <2>4
    <3> QED BY <2>1, <3>1
  <2> QED BY <2>2, <2>3, <2>4
<1> QED BY <1>1, <1>2 DEF Even, share

\* The orders or legs that are left when those without a quantity are dropped.
Dealt(kept, all, n, total) ==
  /\ Len(kept) \in 1..n
  /\ \A i \in 1..Len(kept) : kept[i] = all[i]
  /\ Total(kept) = total
  /\ \A i, j \in 1..Len(kept) : kept[i].quantity - kept[j].quantity <= 1

\* A list of n orders with the given shares.
Shared(all, n, share) == Len(all) = n /\ \A i \in 1..n : all[i].quantity = share[i]

LEMMA QuantityDealt ==
  ASSUME NEW total \in Nat \ {0}, NEW n \in Nat \ {0}, NEW R, NEW all \in Seq(R),
         NEW share, share = AllocateQuantity(total, n), Shared(all, n, share)
  PROVE  Filled(all) \in Seq(R) /\ Dealt(Filled(all), all, n, total)
<1> DEFINE m == Lesser(n, total)
           keep == {i \in 1..Len(all) : all[i].quantity # 0}
           kept == Those(all, keep)
<1>0. total \in Nat
  OBVIOUS
<1> HIDE DEF keep, kept, m
<1>1. Even(share, n, total)
  BY <1>0, SharesEven
<1>2. SumFunctionOnSet(share, 1..m) = total
  BY SharesAdded DEF m
<1>3. m \in 1..n /\ \A i \in 1..n : i <= m <=> i <= total
  BY DEF Lesser, m
<1>4. Len(all) = n /\ \A i \in 1..n : all[i].quantity = share[i]
  BY DEF Shared
<1>5. \A i \in 1..Len(all) : i \in keep <=> 1 <= i /\ i <= m
  <2>1. keep = {i \in 1..n : all[i].quantity # 0}
    BY <1>4 DEF keep
  <2>2. \A i \in 1..n : i \in keep <=> i <= m
    BY <1>1, <1>3, <1>4, <2>1 DEF Even
  <2>3. 1..Len(all) = 1..n
    BY <1>4
  <2> QED BY <2>2, <2>3
<1>6. 1 \in Nat \ {0} /\ m \in Nat /\ m <= Len(all) /\ 1 <= m + 1
  BY <1>3, <1>4
<1>7. kept = Stretch(all, 1, m)
  BY <1>5, <1>6, KeepsStretch DEF kept
<1>8. /\ kept \in Seq(R) /\ Len(kept) = m
      /\ \A i \in 1..m : kept[i] = all[i]
  <2> DEFINE part == Stretch(all, 1, m)
  <2>2. /\ part \in Seq(R) /\ Len(part) = m - 1 + 1
        /\ \A i \in 1..(m - 1 + 1) : part[i] = all[1 + i - 1]
    <3> DEFINE lo == 1
    <3>1. lo \in Nat \ {0} /\ m \in Nat /\ m <= Len(all) /\ lo <= m + 1
      BY <1>6
    <3> HIDE DEF lo
    <3>2. all \in Seq(R)
      OBVIOUS
    <3>3. IsStretch(Stretch(all, lo, m), all, lo, m, R)
      BY <3>1, <3>2, StretchIs
    <3> QED BY <3>3 DEF lo, IsStretch
  <2> HIDE DEF part
  <2>3. m - 1 + 1 = m /\ \A i \in 1..m : 1 + i - 1 = i
    BY <1>6
  <2> QED BY <1>7, <2>2, <2>3 DEF part
<1>9. \A i \in 1..m : kept[i].quantity = share[i]
  BY <1>3, <1>4, <1>8
<1>10. Total(kept) = total
  <2> DEFINE f == [i \in 1..m |-> kept[i].quantity]
  <2>1. Total(kept) = SumFunctionOnSet(f, 1..m)
    BY <1>8 DEF Total, SumFunction
  <2>2. \A i \in 1..m : f[i] = share[i]
    BY <1>9
  <2>3. IsFiniteSet(1..m)
    BY <1>3, FS_Interval
  <2> HIDE DEF f
  <2> QED BY <1>2, <2>1, <2>2, <2>3, SumOfEqual
<1>11. \A i, j \in 1..m : kept[i].quantity - kept[j].quantity <= 1
  <2>1. \A i, j \in 1..m : i \in 1..n /\ j \in 1..n
    BY <1>3
  <2>2. \A i, j \in 1..n : share[i] - share[j] <= 1
    BY <1>1 DEF Even
  <2> QED BY <1>9, <2>1, <2>2
<1>12. Filled(all) = kept
  BY DEF Filled, kept, keep
<1> QED BY <1>3, <1>8, <1>10, <1>11, <1>12 DEF Dealt

-----------------------------------------------------------------------------
(* The months of a year.                                                   *)

\* Days of a year before a month, and days before a year.
Before(year, month) == SumFunction([m \in 1..(month - 1) |-> DaysIn(year, m)])
YearsBefore(year) ==
  365 * (year - 1) + ((year - 1) \div 4) - ((year - 1) \div 100) + ((year - 1) \div 400)

LEMMA OrdinalOf ==
  ASSUME NEW year \in Int, NEW month \in Int, NEW day \in Int
  PROVE  /\ YearsBefore(year) \in Int /\ Before(year, month) \in Int
         /\ Ordinal(year, month, day) = YearsBefore(year) + Before(year, month) + day
<1>1. IsFiniteSet(1..(month - 1))
  BY FS_Interval
<1> DEFINE f == [m \in 1..(month - 1) |-> DaysIn(year, m)]
<1>2. \A m \in 1..(month - 1) : f[m] \in Int
  BY DEF DaysIn
<1>3. Before(year, month) = SumFunctionOnSet(f, 1..(month - 1))
  BY DEF Before, SumFunction
<1> HIDE DEF f
<1>4. Before(year, month) \in Int
  BY <1>1, <1>2, <1>3, SumIsInt
<1>5. YearsBefore(year) \in Int
  BY DEF YearsBefore
<1>6. Ordinal(year, month, day) = YearsBefore(year) + Before(year, month) + day
  BY DEF Ordinal, YearsBefore, Before
<1> QED BY <1>4, <1>5, <1>6

LEMMA MonthAdds ==
  ASSUME NEW year \in Int, NEW month \in Nat \ {0}
  PROVE  Before(year, month + 1) = DaysIn(year, month) + Before(year, month)
<1> DEFINE f == [m \in 1..month |-> DaysIn(year, m)]
           g == [m \in 1..(month - 1) |-> DaysIn(year, m)]
<1>1. IsFiniteSet(1..month) /\ IsFiniteSet(1..(month - 1)) /\ month \in 1..month
  BY FS_Interval
<1>2. (1..month) \ {month} = 1..(month - 1) /\ (month + 1) - 1 = month
  OBVIOUS
<1>3. \A m \in 1..month : f[m] \in Int
  BY DEF DaysIn
<1>4. \A m \in 1..(month - 1) : f[m] = g[m]
  OBVIOUS
<1>5. f[month] = DaysIn(year, month)
  OBVIOUS
<1>6. Before(year, month + 1) = SumFunctionOnSet(f, 1..month)
  BY <1>2 DEF Before, SumFunction
<1>7. Before(year, month) = SumFunctionOnSet(g, 1..(month - 1))
  BY DEF Before, SumFunction
<1> HIDE DEF f, g
<1>8. SumFunctionOnSet(f, 1..month) = f[month] + SumFunctionOnSet(f, (1..month) \ {month})
  BY <1>1, <1>3, SumTakes
<1>9. SumFunctionOnSet(f, 1..(month - 1)) = SumFunctionOnSet(g, 1..(month - 1))
  BY <1>1, <1>4, SumOfEqual
<1> QED BY <1>2, <1>5, <1>6, <1>7, <1>8, <1>9

LEMMA ElevenMonths ==
  ASSUME NEW year \in Int
  PROVE  Before(year, 1) = 0 /\ Before(year, 12) = IF Leap(year) THEN 335 ELSE 334
<1> DEFINE b(m) == Before(year, m)
           leap == IF Leap(year) THEN 1 ELSE 0
<1>1. b(1) = 0
  <2> DEFINE g == [m \in 1..0 |-> DaysIn(year, m)]
  <2>1. b(1) = SumFunctionOnSet(g, {})
    BY DEF Before, SumFunction
  <2>2. SumFunctionOnSet(g, {}) = 0
    BY FS_EmptySet, SumUnfolds
  <2> QED BY <2>1, <2>2
<1>2. \A m \in 1..11 : b(m + 1) = DaysIn(year, m) + b(m)
  BY MonthAdds
<1>3. leap \in Int
  OBVIOUS
<1>4. /\ DaysIn(year, 1) = 31 /\ DaysIn(year, 2) = 28 + leap /\ DaysIn(year, 3) = 31
      /\ DaysIn(year, 4) = 30 /\ DaysIn(year, 5) = 31 /\ DaysIn(year, 6) = 30
      /\ DaysIn(year, 7) = 31 /\ DaysIn(year, 8) = 31 /\ DaysIn(year, 9) = 30
      /\ DaysIn(year, 10) = 31 /\ DaysIn(year, 11) = 30
  BY DEF DaysIn
<1> HIDE DEF b, leap
<1>5. /\ b(2) = DaysIn(year, 1) + b(1) /\ b(3) = DaysIn(year, 2) + b(2)
      /\ b(4) = DaysIn(year, 3) + b(3) /\ b(5) = DaysIn(year, 4) + b(4)
      /\ b(6) = DaysIn(year, 5) + b(5) /\ b(7) = DaysIn(year, 6) + b(6)
      /\ b(8) = DaysIn(year, 7) + b(7) /\ b(9) = DaysIn(year, 8) + b(8)
      /\ b(10) = DaysIn(year, 9) + b(9) /\ b(11) = DaysIn(year, 10) + b(10)
      /\ b(12) = DaysIn(year, 11) + b(11)
  BY <1>2
<1>6. b(12) = 334 + leap
  BY <1>1, <1>3, <1>4, <1>5
<1> QED BY <1>1, <1>6 DEF b, leap

LEMMA YearAdds ==
  ASSUME NEW year \in Int
  PROVE  YearsBefore(year + 1) = YearsBefore(year) + 365 + (IF Leap(year) THEN 1 ELSE 0)
<1>1. ASSUME NEW d \in {4, 100, 400}
      PROVE  (year \div d) - ((year - 1) \div d) = (IF year % d = 0 THEN 1 ELSE 0)
  <2>1. CASE d = 4
    BY <2>1
  <2>2. CASE d = 100
    BY <2>2
  <2>3. CASE d = 400
    BY <2>3
  <2> QED BY <2>1, <2>2, <2>3
<1>2. (year % 400 = 0 => year % 100 = 0) /\ (year % 100 = 0 => year % 4 = 0)
  OBVIOUS
<1>3. year + 1 - 1 = year
  OBVIOUS
<1> DEFINE a == (year - 1) \div 4
           b == (year - 1) \div 100
           c == (year - 1) \div 400
           i(d) == IF year % d = 0 THEN 1 ELSE 0
<1>4. a \in Int /\ b \in Int /\ c \in Int /\ i(4) \in Int /\ i(100) \in Int /\ i(400) \in Int
  OBVIOUS
<1>5. year \div 4 = a + i(4) /\ year \div 100 = b + i(100) /\ year \div 400 = c + i(400)
  <2>1. year \div 4 \in Int /\ year \div 100 \in Int /\ year \div 400 \in Int
    OBVIOUS
  <2>2. (year \div 4) - a = i(4) /\ (year \div 100) - b = i(100) /\ (year \div 400) - c = i(400)
    BY <1>1
  <2> HIDE DEF a, b, c, i
  <2> QED BY <1>4, <2>1, <2>2
<1>6. i(4) - i(100) + i(400) = IF Leap(year) THEN 1 ELSE 0
  BY <1>2 DEF Leap
<1>7. YearsBefore(year) = 365 * (year - 1) + a - b + c
  BY DEF YearsBefore
<1>8. YearsBefore(year + 1) = 365 * year + (a + i(4)) - (b + i(100)) + (c + i(400))
  BY <1>3, <1>5 DEF YearsBefore
<1> HIDE DEF a, b, c, i
<1> QED BY <1>4, <1>6, <1>7, <1>8


LEMMA MonthFollows ==
  ASSUME NEW m \in Int
  PROVE  /\ First(m) \in Int
         /\ First(m + 1) = First(m) + DaysIn(m \div 12, (m % 12) + 1)
         /\ DaysIn(m \div 12, (m % 12) + 1) \in 28..31
<1> DEFINE year == m \div 12
           month == (m % 12) + 1
<1>1. year \in Int /\ month \in 1..12
  OBVIOUS
<1>2. First(m) = Ordinal(year, month, 1)
  BY DEF First
<1>3. \/ month \in 1..11 /\ (m + 1) \div 12 = year /\ ((m + 1) % 12) + 1 = month + 1
      \/ month = 12 /\ (m + 1) \div 12 = year + 1 /\ ((m + 1) % 12) + 1 = 1
  OBVIOUS
<1> HIDE DEF year, month
<1>4. /\ YearsBefore(year) \in Int /\ Before(year, month) \in Int
      /\ First(m) = YearsBefore(year) + Before(year, month) + 1
  BY <1>1, <1>2, OrdinalOf
<1>5. DaysIn(year, month) \in 28..31
  BY DEF DaysIn
<1>6. CASE month \in 1..11 /\ (m + 1) \div 12 = year /\ ((m + 1) % 12) + 1 = month + 1
  <2>1. First(m + 1) = Ordinal(year, month + 1, 1)
    BY <1>6 DEF First
  <2>2. First(m + 1) = YearsBefore(year) + Before(year, month + 1) + 1
    BY <1>1, <2>1, OrdinalOf
  <2>3. Before(year, month + 1) = DaysIn(year, month) + Before(year, month)
    BY <1>1, MonthAdds
  <2> QED BY <1>4, <1>5, <2>2, <2>3 DEF year, month
<1>7. CASE month = 12 /\ (m + 1) \div 12 = year + 1 /\ ((m + 1) % 12) + 1 = 1
  <2>1. First(m + 1) = Ordinal(year + 1, 1, 1)
    BY <1>7 DEF First
  <2>2. First(m + 1) = YearsBefore(year + 1) + Before(year + 1, 1) + 1
    BY <1>1, <2>1, OrdinalOf
  <2>3. YearsBefore(year + 1) = YearsBefore(year) + 365 + (IF Leap(year) THEN 1 ELSE 0)
    BY <1>1, YearAdds
  <2>4. Before(year + 1, 1) = 0 /\ Before(year, month) = IF Leap(year) THEN 335 ELSE 334
    BY <1>1, <1>7, ElevenMonths
  <2>5. DaysIn(year, month) = 31
    BY <1>7 DEF DaysIn
  <2>6. First(m + 1) = First(m) + 31
    BY <1>4, <2>2, <2>3, <2>4
  <2> QED BY <1>4, <1>5, <2>5, <2>6 DEF year, month
<1> QED BY <1>3, <1>6, <1>7

LEMMA DueInMonth ==
  ASSUME NEW d, IsDate(d)
  PROVE  LET due == Ordinal(d[1], d[2], d[3]) IN
         /\ due \in Int /\ MonthAfter(d, 0) \in Int
         /\ First(MonthAfter(d, 0)) <= due /\ due < First(MonthAfter(d, 0) + 1)
<1> DEFINE year == d[1]
           month == d[2]
           day == d[3]
           m == MonthAfter(d, 0)
<1>1. year \in Int /\ month \in 1..12 /\ day \in 1..DaysIn(year, month)
  BY DEF IsDate
<1>2. DaysIn(year, month) \in 28..31
  BY <1>1 DEF DaysIn
<1>3. m = 12 * year + (month - 1) + 0
  BY DEF MonthAfter
<1> HIDE DEF year, month, day, m
<1>4. m \in Int /\ m \div 12 = year /\ (m % 12) + 1 = month
  BY <1>1, <1>3
<1>5. /\ YearsBefore(year) \in Int /\ Before(year, month) \in Int
      /\ Ordinal(year, month, 1) = YearsBefore(year) + Before(year, month) + 1
  BY <1>1, OrdinalOf
<1>6. Ordinal(year, month, day) = YearsBefore(year) + Before(year, month) + day
  BY <1>1, <1>2, OrdinalOf
<1>7. First(m) = Ordinal(year, month, 1)
  BY <1>4 DEF First
<1>8. First(m + 1) = First(m) + DaysIn(year, month)
  BY <1>4, MonthFollows
<1>9. /\ Ordinal(year, month, day) \in Int
      /\ First(m) <= Ordinal(year, month, day) /\ Ordinal(year, month, day) < First(m + 1)
  BY <1>1, <1>2, <1>5, <1>6, <1>7, <1>8
<1> QED BY <1>4, <1>9 DEF year, month, day, m

\* The third Wednesdays of the months from m on.
Wednesdays(list, m) ==
  /\ list \in [1..12 -> Int]
  /\ \A i \in 1..12 : list[i] - First(m + i - 1) \in 14..20 /\ Weekday(list[i]) = 2
  /\ \A i, j \in 1..12 : i < j => list[i] < list[j]

LEMMA MonthlyAre ==
  ASSUME NEW d, IsDate(d)
  PROVE  Wednesdays(MonthlyExpiries(d, 12), MonthAfter(d, 0))
<1> DEFINE m == MonthAfter(d, 0)
           list == MonthlyExpiries(d, 12)
<1>1. m \in Int
  BY DueInMonth
<1>2. ASSUME NEW i \in 1..12
      PROVE  LET n == m + i - 1 IN list[i] = ThirdWednesday(n \div 12, (n % 12) + 1)
  <2>1. MonthAfter(d, i - 1) = m + i - 1
    <3>1. d[1] \in Int /\ d[2] \in Int
      BY DEF IsDate
    <3> QED BY <3>1 DEF MonthAfter
  <2> HIDE DEF m
  <2> QED BY <2>1 DEF MonthlyExpiries
<1>3. list = [i \in 1..12 |-> list[i]]
  BY DEF MonthlyExpiries
<1> HIDE DEF m, list
<1>4. ASSUME NEW i \in 1..12
      PROVE  /\ list[i] \in Int /\ Weekday(list[i]) = 2
             /\ First(m + i - 1) \in Int /\ list[i] - First(m + i - 1) \in 14..20
  <2> DEFINE n == m + i - 1
             year == n \div 12
             month == (n % 12) + 1
  <2>1. n \in Int /\ year \in Int /\ month \in Int
    BY <1>1
  <2>2. list[i] = ThirdWednesday(year, month) /\ First(n) = Ordinal(year, month, 1)
    BY <1>2 DEF First
  <2> HIDE DEF n, year, month
  <2>3. First(n) \in Int
    BY <2>1, MonthFollows
  <2>4. /\ Weekday(ThirdWednesday(year, month)) = 2
        /\ ThirdWednesday(year, month) - Ordinal(year, month, 1) \in 14..20
    BY <2>1, ThirdWednesdayFound
  <2>5. ThirdWednesday(year, month) \in Int
    <3> DEFINE first == Ordinal(year, month, 1)
    <3>1. first \in Int
      BY <2>2, <2>3
    <3>2. ThirdWednesday(year, month) = first + ((2 - Weekday(first)) % 7) + 14
      BY DEF ThirdWednesday
    <3> HIDE DEF first
    <3> QED BY <3>1, <3>2 DEF Weekday
  <2> QED BY <2>2, <2>3, <2>4, <2>5 DEF n
<1>5. ASSUME NEW i \in 1..11 PROVE list[i] < list[i + 1]
  <2> DEFINE n == m + i - 1
  <2>1. n \in Int /\ i \in 1..12 /\ i + 1 \in 1..12 /\ m + (i + 1) - 1 = n + 1
    BY <1>1
  <2>2. First(n + 1) = First(n) + DaysIn(n \div 12, (n % 12) + 1)
        /\ DaysIn(n \div 12, (n % 12) + 1) \in 28..31
    BY <2>1, MonthFollows
  <2>3. list[i] \in Int /\ First(n) \in Int /\ list[i] - First(n) \in 14..20
    BY <1>4, <2>1
  <2>4. list[i + 1] \in Int /\ First(n + 1) \in Int /\ list[i + 1] - First(n + 1) \in 14..20
    <3>1. /\ list[i + 1] \in Int /\ First(m + (i + 1) - 1) \in Int
          /\ list[i + 1] - First(m + (i + 1) - 1) \in 14..20
      BY <1>4, <2>1
    <3> QED BY <2>1, <3>1
  <2> HIDE DEF n
  <2> QED BY <2>2, <2>3, <2>4
<1>6. ASSUME NEW i \in 1..12, NEW j \in 1..12, i < j PROVE list[i] < list[j]
  <2> DEFINE bad == {n \in 1..12 : i < n /\ ~(list[i] < list[n])}
  <2> SUFFICES ASSUME bad # {} PROVE FALSE
    BY <1>6
  <2>1. bad \in SUBSET Nat
    OBVIOUS
  <2> HIDE DEF bad
  <2>2. PICK n \in bad : \A k \in bad : n <= k
    BY <2>1, SmallestOf
  <2>3. n \in 1..12 /\ i < n /\ ~(list[i] < list[n])
    BY DEF bad
  <2> DEFINE k == n - 1
  <2>4. k \in 1..11 /\ k + 1 = n /\ (k = i \/ i < k) /\ ~(n <= k) /\ k \in 1..12
    BY <2>3
  <2> HIDE DEF k
  <2>5. list[k] < list[n]
    BY <1>5, <2>4
  <2>6. k = i \/ list[i] < list[k]
    BY <2>2, <2>4 DEF bad
  <2> QED BY <1>4, <2>3, <2>4, <2>5, <2>6
<1> QED BY <1>3, <1>4, <1>6 DEF Wednesdays, m, list

\* A month has one Wednesday from the 15th to the 21st.
LEMMA MonthlyAreAll ==
  ASSUME NEW d, IsDate(d), NEW list, Wednesdays(list, MonthAfter(d, 0))
  PROVE  \A day : day \in ThirdWednesdays(d) <=> \E i \in 1..12 : list[i] = day
<1> DEFINE m == MonthAfter(d, 0)
<1>1. m \in Int /\ MonthAfter(d, 11) = m + 11
  <2>1. d[1] \in Int /\ d[2] \in Int
    BY DEF IsDate
  <2> QED BY <2>1 DEF MonthAfter
<1>2. Wednesdays(list, m)
  OBVIOUS
<1>3. ThirdWednesdays(d) =
        UNION {{day \in (First(k) + 14)..(First(k) + 20) : Weekday(day) = 2} : k \in m..(m + 11)}
  BY <1>1 DEF ThirdWednesdays
<1> HIDE DEF m
<1>4. ASSUME NEW i \in 1..12
      PROVE  /\ list[i] \in Int /\ First(m + i - 1) \in Int
             /\ list[i] \in (First(m + i - 1) + 14)..(First(m + i - 1) + 20)
             /\ Weekday(list[i]) = 2
  <2>1. list[i] \in Int /\ list[i] - First(m + i - 1) \in 14..20 /\ Weekday(list[i]) = 2
    BY <1>2 DEF Wednesdays
  <2>2. m + i - 1 \in Int
    BY <1>1
  <2>3. First(m + i - 1) \in Int
    BY <2>2, MonthFollows
  <2> QED BY <2>1, <2>3
<1>5. ASSUME NEW i \in 1..12 PROVE list[i] \in ThirdWednesdays(d)
  <2>1. m + i - 1 \in m..(m + 11)
    BY <1>1
  <2> QED BY <1>3, <1>4, <2>1
<1>6. ASSUME NEW day \in ThirdWednesdays(d) PROVE \E i \in 1..12 : list[i] = day
  <2>1. PICK k \in m..(m + 11) :
          day \in (First(k) + 14)..(First(k) + 20) /\ Weekday(day) = 2
    BY <1>3
  <2> DEFINE i == k - m + 1
  <2>2. i \in 1..12 /\ m + i - 1 = k
    BY <1>1
  <2> HIDE DEF i
  <2>3. /\ list[i] \in Int /\ First(k) \in Int
        /\ list[i] \in (First(k) + 14)..(First(k) + 20) /\ Weekday(list[i]) = 2
    BY <1>4, <2>2
  <2>4. list[i] = day
    BY <2>1, <2>3 DEF Weekday
  <2> QED BY <2>2, <2>4
<1> QED BY <1>5, <1>6

\* Expiries that cover a due date: from it on, days of a set, and all of them.
Covering(list, W, due) ==
  /\ list \in Seq(Int) /\ Len(list) \in Nat \ {0}
  /\ \A i \in 1..Len(list) : list[i] >= due /\ list[i] \in W
  /\ \A i, j \in 1..Len(list) : i < j => list[i] < list[j]
  /\ list[1] < due + 35
  /\ \A day \in W : \A i \in 1..Len(list) :
       due <= day /\ day <= list[i] => \E a \in 1..i : list[a] = day

LEMMA FirstOf ==
  ASSUME NEW list, NEW W, NEW due, Covering(list, W, due), NEW count \in Nat \ {0}
  PROVE  Covering(FirstN(list, count), W, due)
<1> DEFINE n == IF count <= Len(list) THEN count ELSE Len(list)
           first == FirstN(list, count)
<1>1. list \in Seq(Int) /\ Len(list) \in Nat \ {0}
  BY DEF Covering
<1>2. Min({count, Len(list)}) = n
  BY <1>1 DEF Min
<1>3. n \in 1..Len(list)
  BY <1>1
<1>4. first = SubSeq(list, 1, n)
  BY <1>2 DEF FirstN
<1> HIDE DEF n, first
<1>5. /\ first \in Seq(Int) /\ Len(first) = n
      /\ \A i \in 1..n : first[i] = list[i]
  BY <1>1, <1>3, <1>4
<1>6. \A i \in 1..n : i \in 1..Len(list)
  BY <1>1, <1>3
<1>7. 1 \in 1..n
  BY <1>1, <1>3
<1>8. \A i \in 1..n : first[i] >= due /\ first[i] \in W
  BY <1>5, <1>6 DEF Covering
<1>9. \A i, j \in 1..n : i < j => first[i] < first[j]
  BY <1>5, <1>6 DEF Covering
<1>10. first[1] < due + 35
  BY <1>5, <1>7 DEF Covering
<1>11. n \in Nat \ {0}
  BY <1>3
<1>12. ASSUME NEW day \in W, NEW i \in 1..n, due <= day, day <= first[i]
       PROVE  \E a \in 1..i : first[a] = day
  <2>1. i \in 1..Len(list) /\ day <= list[i]
    BY <1>5, <1>6, <1>12
  <2>2. PICK a \in 1..i : list[a] = day
    BY <1>12, <2>1 DEF Covering
  <2>3. a \in 1..n
    BY <1>11
  <2> QED BY <1>5, <2>2, <2>3
<1> QED BY <1>5, <1>8, <1>9, <1>10, <1>11, <1>12 DEF Covering, first

LEMMA ExpiriesCover ==
  ASSUME NEW d, IsDate(d), NEW count \in Nat \ {0}
  PROVE  LET due == Ordinal(d[1], d[2], d[3]) IN
         Covering(NearestExpiries(due, MonthlyExpiries(d, 12), count), ThirdWednesdays(d), due)
<1> DEFINE due == Ordinal(d[1], d[2], d[3])
           m == MonthAfter(d, 0)
           list == MonthlyExpiries(d, 12)
           W == ThirdWednesdays(d)
           keep == {i \in 1..Len(list) : NotExpired(list[i], due)}
           eligible == Those(list, keep)
           lo == IF list[1] >= due THEN 1 ELSE 2
<1>1. due \in Int /\ m \in Int /\ First(m) <= due /\ due < First(m + 1)
  BY DueInMonth
<1>2. Wednesdays(list, m) /\ \A day : day \in W <=> \E i \in 1..12 : list[i] = day
  BY MonthlyAre, MonthlyAreAll
<1>3. NearestExpiries(due, list, count) =
        IF eligible = <<>> THEN FirstN(LastN(list, count), count) ELSE FirstN(eligible, count)
  BY DEF NearestExpiries
<1> HIDE DEF due, m, list, W, eligible
<1>4. list \in Seq(Int) /\ Len(list) = 12
  <2> DEFINE n == 12
  <2>1. list \in [1..n -> Int] /\ n \in Nat
    BY <1>2 DEF Wednesdays
  <2> HIDE DEF n
  <2>2. list = [i \in 1..n |-> list[i]] /\ \A i \in 1..n : list[i] \in Int
    BY <2>1
  <2>3. list \in Seq(Int) /\ Len(list) = n
    BY <2>1, <2>2, SeqDef, LenProperties
  <2> QED BY <2>3 DEF n
<1>5. First(m + 1) = First(m) + DaysIn(m \div 12, (m % 12) + 1)
      /\ DaysIn(m \div 12, (m % 12) + 1) \in 28..31 /\ First(m) \in Int
  BY <1>1, MonthFollows
<1>6. list[1] \in Int /\ list[1] - First(m) \in 14..20
  <2>1. m + 1 - 1 = m
    BY <1>1
  <2>2. list[1] \in Int /\ list[1] - First(m + 1 - 1) \in 14..20
    BY <1>2 DEF Wednesdays
  <2> QED BY <2>1, <2>2
<1>7. list[2] \in Int /\ list[2] - First(m + 1) \in 14..20
  <2>1. m + 2 - 1 = m + 1
    BY <1>1
  <2>2. list[2] \in Int /\ list[2] - First(m + 2 - 1) \in 14..20
    BY <1>2 DEF Wednesdays
  <2> QED BY <2>1, <2>2
<1> DEFINE days == DaysIn(m \div 12, (m % 12) + 1)
<1>8. days \in 28..31 /\ First(m + 1) = First(m) + days
  BY <1>5
<1> HIDE DEF days
<1>9. First(m + 1) \in Int
  BY <1>5, <1>8
<1>10. list[2] >= due /\ list[2] <= list[1] + 35
  <2>1. Weekday(list[1]) = 2 /\ Weekday(list[2]) = 2
    BY <1>2 DEF Wednesdays
  <2>2. list[2] - list[1] \in 22..37
    BY <1>5, <1>6, <1>7, <1>8, <1>9
  <2>3. list[2] <= list[1] + 35
    BY <1>6, <1>7, <2>1, <2>2 DEF Weekday
  <2> QED BY <1>1, <1>5, <1>7, <1>8, <1>9, <2>3
<1>11. lo \in 1..2 /\ list[lo] >= due /\ list[lo] < due + 35
  <2>1. CASE list[1] >= due
    BY <1>1, <1>5, <1>6, <2>1
  <2>2. CASE ~(list[1] >= due)
    BY <1>1, <1>6, <1>7, <1>10, <2>2
  <2> QED BY <2>1, <2>2
<1>12. lo = 2 => ~(list[1] >= due)
  OBVIOUS
<1> HIDE DEF lo
<1>13. \A i, j \in 1..12 : i < j => list[i] < list[j]
  BY <1>2 DEF Wednesdays
<1>14. \A i \in 1..12 : list[i] \in Int /\ list[i] \in W
  <2>1. \A i \in 1..12 : list[i] \in Int
    BY <1>2 DEF Wednesdays
  <2> QED BY <1>2, <2>1
<1>15. ASSUME NEW i \in 1..12 PROVE list[i] >= due <=> lo <= i
  <2>1. list[lo] \in Int /\ list[i] \in Int /\ lo \in 1..12
    BY <1>11, <1>14
  <2>2. CASE lo <= i
    <3>1. lo = i \/ list[lo] < list[i]
      BY <1>11, <1>13, <2>1, <2>2
    <3> QED BY <1>1, <1>11, <2>1, <2>2, <3>1
  <2>3. CASE ~(lo <= i)
    <3>1. lo = 2 /\ i = 1
      BY <1>11, <2>3
    <3> QED BY <1>12, <2>3, <3>1
  <2> QED BY <2>2, <2>3
<1>16. \A i \in 1..Len(list) : i \in keep <=> lo <= i /\ i <= 12
  <2>1. 1..Len(list) = 1..12 /\ keep = {i \in 1..12 : NotExpired(list[i], due)}
    BY <1>4
  <2>2. \A i \in 1..12 : i \in keep <=> list[i] >= due
    BY <2>1 DEF NotExpired
  <2>3. \A i \in 1..12 : i <= 12
    OBVIOUS
  <2> HIDE DEF keep
  <2> QED BY <1>15, <2>1, <2>2, <2>3
<1> HIDE DEF keep
<1>17. eligible = Stretch(list, lo, 12)
  <2> DEFINE hi == 12
  <2>1. lo \in Nat \ {0} /\ hi \in Nat /\ hi <= Len(list) /\ lo <= hi + 1
    BY <1>4, <1>11
  <2>2. \A i \in 1..Len(list) : i \in keep <=> lo <= i /\ i <= hi
    BY <1>16
  <2> HIDE DEF hi
  <2>3. Those(list, keep) = Stretch(list, lo, hi)
    BY <1>4, <2>1, <2>2, KeepsStretch
  <2> QED BY <2>3 DEF hi, eligible
<1>18. /\ eligible \in Seq(Int) /\ Len(eligible) = 13 - lo
       /\ \A i \in 1..(13 - lo) : eligible[i] = list[lo + i - 1]
  <2> DEFINE hi == 12
  <2>1. lo \in Nat \ {0} /\ hi \in Nat /\ hi <= Len(list) /\ lo <= hi + 1
    BY <1>4, <1>11
  <2> HIDE DEF hi
  <2>2. IsStretch(Stretch(list, lo, hi), list, lo, hi, Int)
    BY <1>4, <2>1, StretchIs
  <2>3. 12 - lo + 1 = 13 - lo
    BY <1>11
  <2> QED BY <1>17, <2>2, <2>3 DEF hi, IsStretch
<1>19. Covering(eligible, W, due)
  <2> DEFINE n == 13 - lo
             at(i) == lo + i - 1
  <2>1. n \in 11..12 /\ \A i \in 1..n : at(i) \in 1..12 /\ lo <= at(i)
    BY <1>11
  <2>2. \A i, j \in 1..n : i < j => at(i) < at(j)
    BY <1>11
  <2>3. at(1) = lo /\ 1 \in 1..n
    BY <1>11
  <2> HIDE DEF n, at
  <2>4. eligible \in Seq(Int) /\ Len(eligible) = n /\ \A i \in 1..n : eligible[i] = list[at(i)]
    BY <1>18 DEF n, at
  <2>5. \A i \in 1..n : eligible[i] >= due /\ eligible[i] \in W
    <3> SUFFICES ASSUME NEW i \in 1..n PROVE eligible[i] >= due /\ eligible[i] \in W
      OBVIOUS
    <3>1. at(i) \in 1..12 /\ lo <= at(i) /\ eligible[i] = list[at(i)]
      BY <2>1, <2>4
    <3>2. list[at(i)] >= due
      BY <1>15, <3>1
    <3>3. list[at(i)] \in W
      BY <1>14, <3>1
    <3> QED BY <3>1, <3>2, <3>3
  <2>6. \A i, j \in 1..n : i < j => eligible[i] < eligible[j]
    BY <1>13, <2>1, <2>2, <2>4
  <2>7. eligible[1] < due + 35
    BY <1>11, <2>3, <2>4
  <2>8. ASSUME NEW day \in W, NEW i \in 1..n, due <= day, day <= eligible[i]
        PROVE  \E a \in 1..i : eligible[a] = day
    <3>1. PICK k \in 1..12 : list[k] = day
      BY <1>2
    <3>2. lo <= k
      BY <1>1, <1>14, <1>15, <2>8, <3>1
    <3>3. at(i) \in 1..12 /\ list[k] <= list[at(i)]
      BY <2>1, <2>4, <2>8, <3>1
    <3>4. ~(at(i) < k)
      BY <1>13, <1>14, <3>3
    <3> DEFINE a == k - lo + 1
    <3>5. a \in 1..i /\ a \in 1..n /\ at(a) = k
      BY <1>11, <3>2, <3>4 DEF at, n
    <3> HIDE DEF a
    <3> QED BY <2>4, <3>1, <3>5
  <2>9. Len(eligible) \in Nat \ {0}
    BY <2>1, <2>4
  <2> QED BY <2>4, <2>5, <2>6, <2>7, <2>8, <2>9 DEF Covering
<1>20. eligible # <<>>
  BY <1>19 DEF Covering
<1>21. Covering(FirstN(eligible, count), W, due)
  BY <1>19, FirstOf
<1> QED BY <1>3, <1>20, <1>21 DEF due, list, W

-----------------------------------------------------------------------------
(* The orders of a request.                                                *)

\* What a list of orders, or of legs, is for its request.
AddsUp(list, r) == Len(list) \in Nat \ {0} /\ Total(list) = r.quantity
Evenly(list) == \A i, j \in 1..Len(list) : list[i].quantity - list[j].quantity <= 1
Apart(list) ==
  \A i, j \in 1..Len(list) :
    i # j => list[i].expiry # list[j].expiry \/ list[i].strike # list[j].strike
At(list, limit) == DOMAIN list = 1..Len(list) /\ \A i \in 1..Len(list) : list[i].limit = limit
Expires(list, W, due) ==
  /\ \A i \in 1..Len(list) : list[i].expiry >= due /\ list[i].expiry \in W
  /\ list[1].expiry < due + 35
  /\ \A day \in W : \A i \in 1..Len(list) :
       due <= day /\ day <= list[i].expiry => \E j \in 1..Len(list) : list[j].expiry = day

\* Counting through n rows of m: the row and the place in it.
LEMMA RowAndPlace ==
  ASSUME NEW n \in Nat \ {0}, NEW m \in Nat \ {0}, NEW i \in 1..(n * m)
  PROVE  /\ ((i - 1) \div m) + 1 \in 1..n /\ ((i - 1) % m) + 1 \in 1..m
         /\ i - 1 = m * ((i - 1) \div m) + ((i - 1) % m)
<1> DEFINE k == i - 1
           q == k \div m
           r == k % m
<1>1. n * m \in Nat
  OBVIOUS
<1>2. k \in Nat /\ k < n * m
  BY <1>1
<1> HIDE DEF k
<1>3. q \in Nat /\ r \in 0..(m - 1) /\ k = m * q + r
  BY <1>2, Division
<1> HIDE DEF q, r
<1>4. m * q < m * n
  <2>1. m * q \in Int /\ m * n = n * m
    BY <1>3
  <2> QED BY <1>1, <1>2, <1>3, <2>1
<1>5. q < n
  BY <1>3, <1>4, MultiplyKeepsOrder
<1>6. q + 1 \in 1..n /\ r + 1 \in 1..m
  BY <1>3, <1>5
<1> QED BY <1>3, <1>6 DEF k, q, r

\* Before a place in some row come the beginnings of that row and of those before it.
LEMMA RowBegins ==
  ASSUME NEW m \in Nat \ {0}, NEW i \in Nat \ {0}, NEW b \in Nat \ {0}, NEW p \in 1..m,
         i - 1 = m * (b - 1) + (p - 1), NEW a \in 1..b
  PROVE  /\ m * (a - 1) + 1 \in 1..i
         /\ \A c \in Nat \ {0} : \A q \in 1..m :
              m * (a - 1) = m * (c - 1) + (q - 1) => c = a
<1> DEFINE u == a - 1
           v == b - 1
<1>1. u \in Nat /\ v \in Nat /\ u <= v
  OBVIOUS
<1> HIDE DEF u, v
<1>2. m * u \in Nat /\ m * v \in Nat /\ m * u <= m * v
  BY <1>1, MultiplyKeepsOrder
<1>3. m * u + 1 \in 1..i
  BY <1>2 DEF v
<1>4. ASSUME NEW c \in Nat \ {0}, NEW q \in 1..m, m * u = m * (c - 1) + (q - 1)
      PROVE  c = a
  <2> DEFINE w == c - 1
  <2>1. w \in Nat /\ w + 1 \in Nat /\ u + 1 \in Nat
    BY <1>1
  <2>2. m * u = m * w + (q - 1)
    BY <1>4
  <2> HIDE DEF w
  <2>3. m * w \in Nat /\ m * (w + 1) = m * w + m
    BY <2>1
  <2>4. m * w <= m * u /\ m * u < m * (w + 1)
    BY <1>2, <2>2, <2>3
  <2>5. w <= u /\ u < w + 1
    BY <1>1, <2>1, <2>4, MultiplyKeepsOrder
  <2>6. w = u
    BY <1>1, <2>1, <2>5
  <2> QED BY <2>6 DEF u, w
<1> QED BY <1>3, <1>4 DEF u

LEMMA Ascending ==
  ASSUME NEW s \in Seq(Int), \A a, b \in 1..Len(s) : a < b => s[a] < s[b],
         NEW i \in 1..Len(s), NEW j \in 1..Len(s), s[i] = s[j]
  PROVE  i = j
<1>1. i < j \/ j < i \/ i = j
  OBVIOUS
<1>2. s[i] \in Int
  OBVIOUS
<1> QED BY <1>1, <1>2

LEMMA OrdersFilled ==
  ASSUME NEW r, IsRequest(r)
  PROVE  LET list == BuildOrders(r) IN
         /\ AddsUp(list, r) /\ Evenly(list) /\ Apart(list)
         /\ At(list, AdjustedLimitPrice(r.side, LimitPrice, r.slippage))
         /\ Expires(list, ThirdWednesdays(r.due), Ordinal(r.due[1], r.due[2], r.due[3]))
<1> DEFINE W        == ThirdWednesdays(r.due)
           due      == Ordinal(r.due[1], r.due[2], r.due[3])
           expiries == NearestExpiries(due, MonthlyExpiries(r.due, 12), r.count)
           strikes  == LadderStrikes(Strike, r.layers, r.step)
           m        == Len(strikes)
           n        == Len(expiries)
           N        == n * m
           share    == AllocateQuantity(r.quantity, N)
           limit    == AdjustedLimitPrice(r.side, LimitPrice, r.slippage)
           row(i)   == ((i - 1) \div m) + 1
           place(i) == ((i - 1) % m) + 1
           all      == [i \in 1..N |->
                          [expiry |-> expiries[row(i)], strike |-> strikes[place(i)],
                           quantity |-> share[i], limit |-> limit]]
           list     == BuildOrders(r)
<1>1. /\ IsDate(r.due) /\ r.quantity \in Nat \ {0} /\ r.layers \in Nat \ {0}
      /\ r.count \in Nat \ {0} /\ r.step \in Nat \ {0}
  BY DEF IsRequest
<1>2. Covering(expiries, W, due)
  BY <1>1, ExpiriesCover
<1>3. /\ strikes \in Seq(Int) /\ m = r.layers
      /\ \A i, j \in 1..r.layers : i < j => strikes[i] < strikes[j]
  BY <1>1, PricesAssumption, LadderCentred
<1>4. list = Filled(all)
  BY DEF BuildOrders
<1> HIDE DEF W, due, expiries, strikes, share, limit, list
<1>5. n \in Nat \ {0} /\ m \in Nat \ {0} /\ n * m \in Nat \ {0}
  BY <1>1, <1>2, <1>3 DEF Covering
<1>5a. N \in Nat \ {0}
  BY <1>5
<1> HIDE DEF N
<1> DEFINE R == {all[i] : i \in 1..N}
<1>6. all \in Seq(R) /\ Len(all) = N /\ \A i \in 1..N : all[i].quantity = share[i]
  BY <1>5a
<1>7. \A i \in 1..N : /\ all[i].expiry = expiries[row(i)] /\ all[i].strike = strikes[place(i)]
                      /\ all[i].limit = limit
  OBVIOUS
<1>8. N \in Nat \ {0} /\ share = AllocateQuantity(r.quantity, N)
  BY <1>5a DEF share
<1>9. \A i \in 1..N : row(i) \in 1..n /\ place(i) \in 1..m /\ i - 1 = m * (row(i) - 1) + (place(i) - 1)
  <2> SUFFICES ASSUME NEW i \in 1..N
               PROVE  row(i) \in 1..n /\ place(i) \in 1..m
                      /\ i - 1 = m * (row(i) - 1) + (place(i) - 1)
    OBVIOUS
  <2>1. /\ ((i - 1) \div m) + 1 \in 1..n /\ ((i - 1) % m) + 1 \in 1..m
        /\ i - 1 = m * ((i - 1) \div m) + ((i - 1) % m)
    BY <1>5, RowAndPlace DEF N
  <2>2. row(i) - 1 = (i - 1) \div m /\ place(i) - 1 = (i - 1) % m
    BY <1>5
  <2> QED BY <2>1, <2>2
<1>10. row(1) = 1
  BY <1>5
<1> HIDE DEF row, place, all, R
<1>11. list \in Seq(R) /\ Dealt(list, all, N, r.quantity)
  <2>1. r.quantity \in Nat \ {0} /\ N \in Nat \ {0}
    BY <1>1, <1>8
  <2>2. share = AllocateQuantity(r.quantity, N)
    BY <1>8
  <2>3. all \in Seq(R) /\ Shared(all, N, share)
    BY <1>6 DEF Shared
  <2>4. Filled(all) \in Seq(R) /\ Dealt(Filled(all), all, N, r.quantity)
    BY ONLY <2>1, <2>2, <2>3, QuantityDealt
  <2> QED BY <1>4, <2>4
<1>12. /\ Len(list) \in 1..N /\ Total(list) = r.quantity
       /\ \A i \in 1..Len(list) : i \in 1..N /\ list[i] = all[i]
       /\ \A i, j \in 1..Len(list) : list[i].quantity - list[j].quantity <= 1
  BY <1>8, <1>11 DEF Dealt
<1>13. AddsUp(list, r) /\ Evenly(list)
  BY <1>12 DEF AddsUp, Evenly
<1>14. At(list, limit)
  BY <1>7, <1>11, <1>12 DEF At
<1>15. Apart(list)
  <2> SUFFICES ASSUME NEW i \in 1..Len(list), NEW j \in 1..Len(list), i # j,
                      list[i].expiry = list[j].expiry, list[i].strike = list[j].strike
               PROVE  FALSE
    BY DEF Apart
  <2>1. /\ row(i) \in 1..n /\ place(i) \in 1..m /\ i - 1 = m * (row(i) - 1) + (place(i) - 1)
        /\ row(j) \in 1..n /\ place(j) \in 1..m /\ j - 1 = m * (row(j) - 1) + (place(j) - 1)
    BY <1>9, <1>12
  <2>2. expiries[row(i)] = expiries[row(j)] /\ strikes[place(i)] = strikes[place(j)]
    BY <1>7, <1>12
  <2>3. row(i) = row(j)
    <3>1. expiries \in Seq(Int) /\ \A a, b \in 1..Len(expiries) : a < b => expiries[a] < expiries[b]
      BY <1>2 DEF Covering
    <3> QED BY <2>1, <2>2, <3>1, Ascending
  <2>4. place(i) = place(j)
    <3>1. strikes \in Seq(Int) /\ \A a, b \in 1..Len(strikes) : a < b => strikes[a] < strikes[b]
      BY <1>3
    <3> QED BY <2>1, <2>2, <3>1, Ascending
  <2>5. i - 1 = j - 1 /\ i \in Int /\ j \in Int
    BY <2>1, <2>3, <2>4
  <2> QED BY <2>5
<1>16. Expires(list, W, due)
  <2>1. \A i \in 1..Len(list) : list[i].expiry = expiries[row(i)] /\ row(i) \in 1..n
    BY <1>7, <1>9, <1>12
  <2>2. \A i \in 1..Len(list) : list[i].expiry >= due /\ list[i].expiry \in W
    BY <1>2, <2>1 DEF Covering
  <2>3. 1 \in 1..Len(list)
    BY <1>12
  <2>4. list[1].expiry < due + 35
    BY <1>2, <1>10, <2>1, <2>3 DEF Covering
  <2>5. ASSUME NEW day \in W, NEW i \in 1..Len(list), due <= day, day <= list[i].expiry
        PROVE  \E j \in 1..Len(list) : list[j].expiry = day
    <3>1. row(i) \in 1..n /\ day <= expiries[row(i)]
      BY <2>1, <2>5
    <3>2. PICK a \in 1..row(i) : expiries[a] = day
      BY <1>2, <2>5, <3>1 DEF Covering
    <3> DEFINE j == m * (a - 1) + 1
               b == row(i)
               p == place(i)
    <3>3. /\ b \in Nat \ {0} /\ p \in 1..m /\ i - 1 = m * (b - 1) + (p - 1)
          /\ a \in 1..b /\ i \in Nat \ {0}
      <4>1. i \in 1..N /\ i \in Nat \ {0}
        BY <1>12
      <4>2. b \in 1..n /\ p \in 1..m /\ i - 1 = m * (b - 1) + (p - 1)
        BY <1>9, <4>1
      <4>3. b \in Nat \ {0}
        BY <3>1
      <4> QED BY <4>1, <4>2, <4>3
    <3> HIDE DEF b, p
    <3>4. /\ j \in 1..i
          /\ \A c \in Nat \ {0} : \A q \in 1..m :
               m * (a - 1) = m * (c - 1) + (q - 1) => c = a
      <4>1. m \in Nat \ {0}
        BY <1>5
      <4> QED BY ONLY <3>3, <4>1, RowBegins
    <3>5. j \in 1..Len(list) /\ j - 1 = m * (a - 1)
      BY <1>5, <3>3, <3>4
    <3> HIDE DEF j
    <3>6. j \in 1..N /\ row(j) \in 1..n /\ place(j) \in 1..m
          /\ j - 1 = m * (row(j) - 1) + (place(j) - 1)
      BY <1>9, <1>12, <3>5
    <3>7. row(j) = a
      <4>1. row(j) \in Nat \ {0} /\ place(j) \in 1..m
        BY <3>6
      <4>2. m * (a - 1) = m * (row(j) - 1) + (place(j) - 1)
        BY <3>5, <3>6
      <4> QED BY ONLY <3>4, <4>1, <4>2
    <3> QED BY <2>1, <3>2, <3>5, <3>7
  <2> QED BY <2>2, <2>4, <2>5 DEF Expires
<1> QED BY <1>13, <1>14, <1>15, <1>16 DEF list, limit, due, W

LEMMA LegsFilled ==
  ASSUME NEW r, IsRequest(r)
  PROVE  LET list == BuildLegs(r) IN
         /\ AddsUp(list, r) /\ Evenly(list)
         /\ At(list, ApplySlippage(r.side, LimitPrice, MaxSlippage(r.slippage)))
<1> DEFINE months == ContractMonths(r.due, r.today, r.count)
           n      == Len(months)
           share  == AllocateQuantity(r.quantity, n)
           limit  == ApplySlippage(r.side, LimitPrice, MaxSlippage(r.slippage))
           all    == [i \in 1..n |-> [expiry |-> months[i], quantity |-> share[i], limit |-> limit]]
           list   == BuildLegs(r)
           R      == {all[i] : i \in 1..n}
<1>1. r.quantity \in Nat \ {0} /\ r.count \in Nat \ {0}
  BY DEF IsRequest
<1>2. n \in Nat \ {0}
  BY <1>1 DEF ContractMonths
<1>3. list = Filled(all)
  BY DEF BuildLegs
<1> HIDE DEF months, share, limit, list
<1>4. all \in Seq(R) /\ Len(all) = n /\ \A i \in 1..n : all[i].quantity = share[i]
  BY <1>2
<1>5. \A i \in 1..n : all[i].limit = limit
  OBVIOUS
<1>6. share = AllocateQuantity(r.quantity, n)
  BY DEF share
<1> HIDE DEF n, all, R
<1>7. list \in Seq(R) /\ Dealt(list, all, n, r.quantity)
  <2>1. r.quantity \in Nat \ {0} /\ n \in Nat \ {0}
    BY <1>1, <1>2
  <2>2. all \in Seq(R) /\ Shared(all, n, share)
    BY <1>4 DEF Shared
  <2>3. Filled(all) \in Seq(R) /\ Dealt(Filled(all), all, n, r.quantity)
    BY ONLY <1>6, <2>1, <2>2, QuantityDealt
  <2> QED BY <1>3, <2>3
<1>8. /\ Len(list) \in 1..n /\ Total(list) = r.quantity
      /\ \A i \in 1..Len(list) : i \in 1..n /\ list[i] = all[i]
      /\ \A i, j \in 1..Len(list) : list[i].quantity - list[j].quantity <= 1
  BY <1>2, <1>7 DEF Dealt
<1> QED BY <1>2, <1>5, <1>7, <1>8 DEF AddsUp, Evenly, At, list, limit

-----------------------------------------------------------------------------
(* The orders of the desk.                                                 *)

\* The week of a bucket ends at most six days after each of its positions expires.
LEMMA WeekOfPosition ==
  ASSUME NEW ps, Numbered(ps), NEW key \in Keys(CoerceAll(ps))
  PROVE  \E p \in Range(ps) : \E n \in 0..6 : WeekEnd(key[2]) = p.expiry + n
<1>1. PICK i \in In(ps, key) : TRUE
  BY KeysAre
<1>2. i \in 1..Len(ps) /\ Key(ps[i]) = key
  BY DEF In
<1>3. ps[i] \in Range(ps) /\ ps[i].expiry \in Int
  BY <1>2, BookIs DEF HasNumbers
<1> DEFINE e == ps[i].expiry
           n == 6 - ((e + 6) % 7)
<1>4. key[2] = e - ((e + 6) % 7)
  BY <1>2 DEF Key, WeekStart
<1>5. WeekEnd(key[2]) = e + n /\ n \in 0..6
  BY <1>3, <1>4 DEF WeekEnd
<1> QED BY <1>3, <1>5

\* What a recommendation is made of, and the date on which its week ends.
LEMMA Recommended ==
  ASSUME NEW b \in Books, NEW rec \in GeneratePlan(b.exposures, b.hedges).executionPlan
  PROVE  LET m == GeneratePlan(b.exposures, b.hedges).buckets IN
         /\ rec = [pair |-> rec.pair, expiry |-> rec.expiry, side |-> rec.side,
                   delta |-> Unset, qty |-> rec.qty, mix |-> rec.mix]
         /\ rec.side \in {"buy", "sell"} /\ rec.qty \in Nat \ {0} /\ HasNumbers(rec)
         /\ Key(rec) \in DOMAIN m /\ m[Key(rec)].postDelta + Signed(Coerce(rec)) = 0
         /\ DateOf(rec.expiry) \in Calendar
         /\ LET due == DateOf(rec.expiry) IN Ordinal(due[1], due[2], due[3]) = rec.expiry
<1> DEFINE es == b.exposures
           hs == b.hedges
           m == Metrics(CoerceAll(es), CoerceAll(hs))
<1>1. Numbered(es) /\ Numbered(hs)
  BY BooksAssumption, BooksNumbered
<1>2. /\ GeneratePlan(es, hs).buckets = m
      /\ GeneratePlan(es, hs).executionPlan = ExecutionList(m)
  BY PlanParts
<1>3. Bucketed(m) /\ DOMAIN m = Keys(CoerceAll(es)) \cup Keys(CoerceAll(hs))
  BY <1>1, PlanBucketed DEF Metrics
<1> HIDE DEF m
<1>4. PICK key \in DOMAIN m :
        /\ m[key].postDelta # 0
        /\ rec = [pair |-> key[1], expiry |-> WeekEnd(key[2]),
                  side |-> SideOf(m[key].postDelta), delta |-> Unset,
                  qty |-> AbsValue(m[key].postDelta), mix |-> m[key].mix]
  BY <1>2 DEF ExecutionList
<1>5. m[key].postDelta \in Int /\ key[2] \in Int
  BY <1>3 DEF Bucketed
<1>6. /\ rec = [pair |-> rec.pair, expiry |-> rec.expiry, side |-> rec.side,
                delta |-> Unset, qty |-> rec.qty, mix |-> rec.mix]
      /\ rec.expiry = WeekEnd(key[2]) /\ rec.delta = Unset
      /\ rec.side = SideOf(m[key].postDelta) /\ rec.qty = AbsValue(m[key].postDelta)
  BY <1>4
<1>7. rec.side \in {"buy", "sell"} /\ rec.qty \in Nat \ {0} /\ rec.expiry \in Int
  BY <1>4, <1>5, <1>6 DEF SideOf, AbsValue, WeekEnd
<1>8. HasNumbers(rec)
  BY <1>6, <1>7 DEF HasNumbers
<1>9. /\ Key(Coerce(rec)) \in DOMAIN m
       /\ m[Key(Coerce(rec))].postDelta + Signed(Coerce(rec)) = 0
  BY <1>2, <1>3, RecommendationsClose
<1>10. Key(Coerce(rec)) = Key(rec)
  BY <1>8, Coerced
<1>11. \E d \in Calendar : Ordinal(d[1], d[2], d[3]) = rec.expiry
  <2>1. \E p \in Range(es) \cup Range(hs) : \E n \in 0..6 : WeekEnd(key[2]) = p.expiry + n
    BY <1>1, <1>3, WeekOfPosition
  <2>2. \A p \in Range(es) \cup Range(hs) : \A n \in 0..6 :
          \E d \in Calendar : Ordinal(d[1], d[2], d[3]) = p.expiry + n
    BY CalendarAssumption
  <2> QED BY <1>6, <2>1, <2>2
<1>12. /\ DateOf(rec.expiry) \in Calendar
       /\ LET due == DateOf(rec.expiry) IN Ordinal(due[1], due[2], due[3]) = rec.expiry
  BY <1>11 DEF DateOf
<1> QED BY <1>2, <1>6, <1>7, <1>8, <1>9, <1>10, <1>12

OrderInv ==
  /\ request # NoRequest => IsRequest(request)
  /\ orders # <<>> => request # NoRequest /\ orders = BuildOrders(request)
  /\ legs # <<>> => request # NoRequest /\ legs = BuildLegs(request)

ItemInv ==
  /\ book = NoRequest => plan = NoRequest /\ item = NoRequest
  /\ request # NoRequest /\ item # NoRequest =>
       book # NoRequest /\ item \in plan.executionPlan
       /\ \E t \in Terms : request = RequestFor(item, t)

LEMMA RecommendedRequest ==
  ASSUME NEW b \in Books, NEW rec \in GeneratePlan(b.exposures, b.hedges).executionPlan,
         NEW t \in Terms
  PROVE  IsRequest(RequestFor(rec, t))
<1> DEFINE r == RequestFor(rec, t)
<1>1. /\ r.due = DateOf(rec.expiry) /\ r.today = Today /\ r.quantity = rec.qty
      /\ r.layers = t.layers /\ r.count = t.count /\ r.step = t.step
      /\ r.slippage = t.slippage /\ r.side = OrderSide(rec.side)
  BY DEF RequestFor
<1> HIDE DEF r
<1>2. DateOf(rec.expiry) \in Calendar /\ rec.qty \in Nat \ {0}
  BY Recommended
<1>3. IsDate(r.due) /\ IsDate(r.today)
  BY <1>1, <1>2, CalendarAssumption, TermsAssumption
<1>4. r.side \in {"BUY", "SELL"}
  BY <1>1 DEF OrderSide
<1>5. r.layers \in Nat \ {0} /\ r.count \in Nat \ {0} /\ r.step \in Nat \ {0} /\ r.slippage \in Nat
  BY <1>1, TermsAssumption
<1> QED BY <1>1, <1>2, <1>3, <1>4, <1>5 DEF IsRequest, r

LEMMA DeskInvariant == DeskSpec => [](BookInv /\ OrderInv /\ ItemInv)
<1> DEFINE Inv == OrderInv /\ ItemInv
<1>1. DeskInit => Inv
  BY DEF DeskInit, Init, OrderInv, ItemInv
<1>2. BookInv /\ Inv /\ [DeskNext]_allVars => Inv'
  <2> SUFFICES ASSUME BookInv, OrderInv, ItemInv, [DeskNext]_allVars PROVE Inv'
    OBVIOUS
  <2>1. CASE AskPlan
    <3>1. book' \in Books /\ request = NoRequest /\ UNCHANGED <<request, orders, legs, item>>
      BY <2>1 DEF AskPlan, vars
    <3>2. book' # NoRequest
      BY <3>1, BooksAssumption
    <3> QED BY <3>1, <3>2 DEF OrderInv, ItemInv
  <2>2. CASE Hedge
    <3>1. PICK t \in Terms : request' = RequestFor(item', t)
      BY <2>2 DEF Hedge
    <3>2. /\ request = NoRequest /\ plan # NoRequest /\ item' \in plan.executionPlan
          /\ UNCHANGED <<book, plan, orders, legs>>
      BY <2>2 DEF Hedge
    <3>3. book # NoRequest
      BY <3>2 DEF ItemInv
    <3>4. book \in Books /\ plan = GeneratePlan(book.exposures, book.hedges)
      BY <3>3 DEF BookInv
    <3>5. IsRequest(request')
      BY <3>1, <3>2, <3>4, RecommendedRequest
    <3>6. orders = <<>> /\ legs = <<>>
      BY <3>2 DEF OrderInv
    <3>7. OrderInv'
      BY <3>2, <3>5, <3>6 DEF OrderInv
    <3>8. ItemInv'
      BY <3>1, <3>2, <3>3 DEF ItemInv
    <3> QED BY <3>7, <3>8
  <2>3. CASE book = NoRequest /\ Ask /\ UNCHANGED deskVars
    <3>1. request = NoRequest /\ request' \in HedgeRequests /\ UNCHANGED <<orders, legs, book, plan, item>>
      BY <2>3 DEF Ask, deskVars
    <3>2. IsRequest(request')
      BY <3>1, RequestsAssumption
    <3>3. orders = <<>> /\ legs = <<>> /\ item = NoRequest
      BY <2>3, <3>1 DEF OrderInv, ItemInv
    <3> QED BY <3>1, <3>2, <3>3 DEF OrderInv, ItemInv
  <2>4. CASE BuildSync /\ UNCHANGED deskVars
    <3>1. /\ request # NoRequest /\ orders' = BuildOrders(request)
          /\ UNCHANGED <<request, legs, book, plan, item>>
      BY <2>4 DEF BuildSync, deskVars
    <3> QED BY <3>1 DEF OrderInv, ItemInv
  <2>5. CASE BuildAsync /\ UNCHANGED deskVars
    <3>1. /\ request # NoRequest /\ legs' = BuildLegs(request)
          /\ UNCHANGED <<request, orders, book, plan, item>>
      BY <2>5 DEF BuildAsync, deskVars
    <3> QED BY <3>1 DEF OrderInv, ItemInv
  <2>6. CASE UNCHANGED allVars
    <3>1. UNCHANGED <<request, orders, legs, book, plan, item>>
      BY <2>6 DEF allVars, vars, deskVars
    <3> QED BY <3>1 DEF OrderInv, ItemInv
  <2> QED BY <2>1, <2>2, <2>3, <2>4, <2>5, <2>6 DEF DeskNext
<1> HIDE DEF Inv
<1>3. DeskSpec => []Inv
  BY <1>1, <1>2, BookInvariant, PTL DEF DeskSpec
<1>4. Inv => OrderInv /\ ItemInv
  BY DEF Inv
<1> QED BY <1>3, <1>4, BookInvariant, PTL

\* _build_orders of execution_sync and place_hedge of execution: whatever the numbers of
\* layers and expiries, the orders of either add up to the quantity, differ by one at most
\* and keep to the slippage; those of _build_orders lie on a centred ladder, no two for the
\* same expiry and strike.
THEOREM OrdersAsRequested == DeskSpec => []OrdersAsAsked
<1>1. ASSUME OrderInv PROVE OrdersAsAsked
  <2>1. orders # <<>> => /\ orders = BuildOrders(request) /\ IsRequest(request)
    BY <1>1 DEF OrderInv
  <2>2. legs # <<>> => /\ legs = BuildLegs(request) /\ IsRequest(request)
    BY <1>1 DEF OrderInv
  <2> DEFINE limit == AdjustedLimitPrice(request.side, LimitPrice, request.slippage)
             legLimit == ApplySlippage(request.side, LimitPrice, MaxSlippage(request.slippage))
  <2>3. orders # <<>> => AddsUp(orders, request) /\ Evenly(orders) /\ Apart(orders) /\ At(orders, limit)
    BY <2>1, OrdersFilled
  <2>4. legs # <<>> => AddsUp(legs, request) /\ Evenly(legs) /\ At(legs, legLimit)
    BY <2>2, LegsFilled
  <2> HIDE DEF limit, legLimit
  <2>5. QuantityIsSplit
    BY <2>3, <2>4 DEF QuantityIsSplit, AddsUp, Evenly
  <2>6. LadderIsCentred
    <3>1. ASSUME orders # <<>>
          PROVE  LET strikes == LadderStrikes(Strike, request.layers, request.step) IN
                 /\ Len(strikes) = request.layers
                 /\ \A i \in 1..Len(strikes) : strikes[i] + strikes[Len(strikes) + 1 - i] = 2 * Strike
      <4>1. request.layers \in Nat \ {0} /\ request.step \in Nat \ {0} /\ Strike \in Int
        BY <2>1, <3>1, PricesAssumption DEF IsRequest
      <4> DEFINE strikes == LadderStrikes(Strike, request.layers, request.step)
                 n == request.layers
      <4>2. /\ Len(strikes) = n
            /\ \A i \in 1..n : strikes[i] + strikes[n + 1 - i] = 2 * Strike
        BY <4>1, LadderCentred
      <4> HIDE DEF strikes, n
      <4>3. \A i \in 1..Len(strikes) : strikes[i] + strikes[Len(strikes) + 1 - i] = 2 * Strike
        BY <4>2
      <4> QED BY <4>2, <4>3 DEF strikes, n
    <3>2. CASE orders # <<>>
      BY <2>3, <3>1, <3>2 DEF LadderIsCentred, Apart
    <3>3. CASE orders = <<>>
      <4>1. 1..Len(orders) = {}
        BY <3>3
      <4> QED BY <3>3, <4>1 DEF LadderIsCentred
    <3> QED BY <3>2, <3>3
  <2>7. SlippageIsTolerance
    <3> DEFINE Within(at, slippage) ==
                 IF request.side = "BUY" THEN at \in LimitPrice..(LimitPrice + slippage)
                                         ELSE at \in (LimitPrice - slippage)..LimitPrice
    <3>1. ASSUME NEW o \in Range(orders) PROVE Within(o.limit, request.slippage)
      <4>1. orders # <<>>
        BY DEF Range
      <4>2. o.limit = limit
        BY <2>3, <4>1 DEF At, Range
      <4>3. request.side \in {"BUY", "SELL"} /\ request.slippage \in Nat /\ LimitPrice \in Nat
        BY <2>1, <4>1, PricesAssumption DEF IsRequest
      <4> DEFINE slip == request.slippage
      <4>4. /\ AdjustedLimitPrice("BUY", LimitPrice, slip) = LimitPrice + slip
            /\ AdjustedLimitPrice("SELL", LimitPrice, slip) = LimitPrice - slip
        BY <4>3, LimitsTolerate
      <4>5. o.limit = AdjustedLimitPrice(request.side, LimitPrice, slip) /\ slip \in Nat
        BY <4>2, <4>3 DEF limit
      <4> HIDE DEF slip
      <4>6. Within(o.limit, slip)
        BY <4>3, <4>4, <4>5
      <4> QED BY <4>6 DEF slip
    <3>2. ASSUME NEW o \in Range(legs) PROVE Within(o.limit, MaxSlippage(request.slippage))
      <4>1. legs # <<>>
        BY DEF Range
      <4>2. o.limit = legLimit
        BY <2>4, <4>1 DEF At, Range
      <4>3. request.side \in {"BUY", "SELL"} /\ request.slippage \in Nat /\ LimitPrice \in Nat
        BY <2>2, <4>1, PricesAssumption DEF IsRequest
      <4>4. MaxSlippage(request.slippage) \in Nat
        BY <4>3, PricesAssumption DEF MaxSlippage
      <4> DEFINE slip == MaxSlippage(request.slippage)
      <4>5. /\ ApplySlippage("BUY", LimitPrice, slip) = LimitPrice + slip
            /\ ApplySlippage("SELL", LimitPrice, slip) \in 0..LimitPrice
            /\ ApplySlippage("SELL", LimitPrice, slip) >= LimitPrice - slip
        BY <4>3, <4>4, LimitsTolerate
      <4>6. o.limit = ApplySlippage(request.side, LimitPrice, slip) /\ slip \in Nat
        BY <4>2, <4>4 DEF legLimit
      <4> HIDE DEF slip
      <4>7. Within(o.limit, slip)
        BY <4>3, <4>5, <4>6
      <4> QED BY <4>7 DEF slip
    <3> QED BY <3>1, <3>2 DEF SlippageIsTolerance
  <2> QED BY <2>5, <2>6, <2>7 DEF OrdersAsAsked
<1> QED BY <1>1, DeskInvariant, PTL

\* nearest_expiries over monthly_expiries: whatever the due date, the orders expire on
\* third Wednesdays, all of those from it to the last, the first within five weeks.
THEOREM DueDateCovered == DeskSpec => []HedgeCoversDueDate
<1>1. ASSUME OrderInv, orders # <<>>
      PROVE  LET due      == Ordinal(request.due[1], request.due[2], request.due[3])
                 expiries == {o.expiry : o \in Range(orders)}
             IN /\ expiries = {day \in ThirdWednesdays(request.due) :
                                 due <= day /\ \E expiry \in expiries : day <= expiry}
                /\ orders[1].expiry < due + 7 * 5
  <2> DEFINE due == Ordinal(request.due[1], request.due[2], request.due[3])
             expiries == {o.expiry : o \in Range(orders)}
             W == ThirdWednesdays(request.due)
  <2>1. orders = BuildOrders(request) /\ IsRequest(request)
    BY <1>1 DEF OrderInv
  <2>2. Expires(orders, W, due) /\ DOMAIN orders = 1..Len(orders)
    BY <2>1, OrdersFilled DEF At
  <2>3. \A day : day \in expiries <=> \E i \in 1..Len(orders) : orders[i].expiry = day
    BY <2>2 DEF Range
  <2>4. W \subseteq Int /\ due \in Int
    <3>1. IsDate(request.due)
      BY <2>1 DEF IsRequest
    <3>2. LET list == MonthlyExpiries(request.due, 12) IN
          /\ Wednesdays(list, MonthAfter(request.due, 0))
          /\ \A day : day \in W <=> \E i \in 1..12 : list[i] = day
      BY <3>1, MonthlyAre, MonthlyAreAll
    <3>3. due \in Int
      BY <3>1, DueInMonth
    <3> DEFINE list == MonthlyExpiries(request.due, 12)
               m == MonthAfter(request.due, 0)
    <3>4. Wednesdays(list, m) /\ \A day : day \in W <=> \E i \in 1..12 : list[i] = day
      BY <3>2
    <3> HIDE DEF list, m, W, due
    <3>5. \A i \in 1..12 : list[i] \in Int
      BY <3>4 DEF Wednesdays
    <3> QED BY <3>3, <3>4, <3>5
  <2> HIDE DEF W, due, expiries
  <2>5. ASSUME NEW day \in expiries
        PROVE  day \in W /\ due <= day /\ \E expiry \in expiries : day <= expiry
    <3>1. day >= due /\ day \in W
      BY <2>2, <2>3 DEF Expires
    <3> QED BY <2>4, <3>1
  <2>6. ASSUME NEW day \in W, due <= day, NEW expiry \in expiries, day <= expiry
        PROVE  day \in expiries
    <3>1. PICK i \in 1..Len(orders) : orders[i].expiry = expiry
      BY <2>3
    <3> QED BY <2>2, <2>3, <2>6, <3>1 DEF Expires
  <2>7. expiries = {day \in W : due <= day /\ \E expiry \in expiries : day <= expiry}
    BY <2>5, <2>6
  <2>8. orders[1].expiry < due + 35
    BY <2>2 DEF Expires
  <2> QED BY <2>7, <2>8 DEF W, due, expiries
<1>2. OrderInv => HedgeCoversDueDate
  BY <1>1 DEF HedgeCoversDueDate
<1> QED BY <1>2, DeskInvariant, PTL

\* The delta of one position alone.
LEMMA DeltaOfOne ==
  ASSUME NEW p, HasNumbers(p)
  PROVE  /\ Numbered(<<p>>)
         /\ Aggregate(CoerceAll(<<p>>), Key(p)).delta = Signed(Coerce(p))
<1> DEFINE s == <<p>>
<1>1. Len(s) = 1 /\ s[1] = p /\ DOMAIN s = 1..1
  OBVIOUS
<1>2. Range(s) = {p} /\ s \in Seq({p})
  BY <1>1 DEF Range
<1>3. Numbered(s)
  BY <1>2 DEF Numbered
<1> HIDE DEF s
<1>4. In(s, Key(p)) = {1}
  BY <1>1 DEF In
<1>5. Aggregate(CoerceAll(s), Key(p)).delta = SumFunctionOnSet(Deltas(s, Key(p)), In(s, Key(p)))
  BY <1>3, AggregateTyped
<1>6. Deltas(s, Key(p))[1] = Signed(Coerce(p)) /\ Signed(Coerce(p)) \in Int
  BY <1>1, <1>4, Coerced DEF Deltas
<1>7. SumFunctionOnSet(Deltas(s, Key(p)), {1}) = Signed(Coerce(p))
  BY <1>6, SumOfOne
<1> QED BY <1>3, <1>4, <1>5, <1>7 DEF s

\* generate_plan and _build_orders together: the orders for a recommendation leave the
\* delta of its bucket at zero, and none expires before its week ends.
THEOREM BucketsClosed == DeskSpec => []OrdersCloseBucket
<1>1. ASSUME BookInv, OrderInv, ItemInv PROVE OrdersCloseBucket
  <2> DEFINE placed == [item EXCEPT !.side = IF request.side = "BUY" THEN "buy" ELSE "sell",
                                    !.qty = Total(orders)]
  <2> SUFFICES ASSUME item # NoRequest, orders # <<>>
               PROVE  /\ Netted(<<placed>>).buckets[Key(item)].postDelta = 0
                      /\ \A o \in Range(orders) : o.expiry >= item.expiry
    BY DEF OrdersCloseBucket
  <2>1. request # NoRequest /\ orders = BuildOrders(request) /\ IsRequest(request)
    BY <1>1 DEF OrderInv
  <2>2. book # NoRequest /\ item \in plan.executionPlan
    BY <1>1, <2>1 DEF ItemInv
  <2>3. PICK t \in Terms : request = RequestFor(item, t)
    BY <1>1, <2>1 DEF ItemInv
  <2>4. book \in Books /\ plan = GeneratePlan(book.exposures, book.hedges)
    BY <1>1, <2>2 DEF BookInv
  <2> DEFINE es == book.exposures
             hs == book.hedges
             m == Metrics(CoerceAll(es), CoerceAll(hs))
             due == Ordinal(request.due[1], request.due[2], request.due[3])
             key == Key(item)
  <2>5. /\ item = [pair |-> item.pair, expiry |-> item.expiry, side |-> item.side,
                   delta |-> Unset, qty |-> item.qty, mix |-> item.mix]
        /\ item.side \in {"buy", "sell"} /\ item.qty \in Nat \ {0} /\ HasNumbers(item)
        /\ key \in DOMAIN m /\ m[key].postDelta + Signed(Coerce(item)) = 0
    BY <2>2, <2>4, Recommended, PlanParts
  <2>6. due = item.expiry
    <3>1. request.due = DateOf(item.expiry)
      BY <2>3 DEF RequestFor
    <3>2. LET d == DateOf(item.expiry) IN Ordinal(d[1], d[2], d[3]) = item.expiry
      BY <2>2, <2>4, Recommended
    <3> QED BY <3>1, <3>2
  <2>7. AddsUp(orders, request) /\ Expires(orders, ThirdWednesdays(request.due), due)
    BY <2>1, OrdersFilled
  <2>8. request.quantity = item.qty /\ request.side = OrderSide(item.side)
    BY <2>3 DEF RequestFor
  <2>9. placed = item
    <3>1. Total(orders) = item.qty
      BY <2>7, <2>8 DEF AddsUp
    <3>2. (IF request.side = "BUY" THEN "buy" ELSE "sell") = item.side
      BY <2>5, <2>8 DEF OrderSide
    <3> QED BY <2>5, <3>1, <3>2
  <2> HIDE DEF placed, due
  <2>10. \A o \in Range(orders) : o.expiry >= item.expiry
    <3>1. DOMAIN orders = 1..Len(orders)
      BY <2>1, OrdersFilled DEF At
    <3> QED BY <2>6, <2>7, <3>1 DEF Expires, Range
  <2>11. Netted(<<placed>>).buckets[key].postDelta = 0
    <3> DEFINE both == Joined(hs, <<item>>)
               after == Metrics(CoerceAll(es), CoerceAll(both))
    <3>1. Netted(<<placed>>).buckets = after
      BY <2>9, PlanParts DEF Netted, Joined
    <3>2. Numbered(es) /\ Numbered(hs)
      BY <2>4, BooksAssumption, BooksNumbered
    <3>3. Numbered(<<item>>) /\ Aggregate(CoerceAll(<<item>>), key).delta = Signed(Coerce(item))
      BY <2>5, DeltaOfOne
    <3>4. Numbered(both)
      BY <3>2, <3>3, JoinedNumbered
    <3>5. Aggregate(CoerceAll(both), key).delta =
            Aggregate(CoerceAll(hs), key).delta + Aggregate(CoerceAll(<<item>>), key).delta
      BY <3>2, <3>3, <3>4, DeltaOfBoth
    <3>6. key \in Keys(CoerceAll(es)) \cup Keys(CoerceAll(hs))
      BY <2>5 DEF Metrics
    <3>7. \A k \in In(hs, key) : k \in In(both, key)
      BY <3>2, <3>3, InBoth
    <3>8. key \in Keys(CoerceAll(hs)) => key \in Keys(CoerceAll(both))
      BY <3>2, <3>4, <3>7, KeysAre
    <3>9. /\ m[key].postDelta =
               Aggregate(CoerceAll(es), key).delta + Aggregate(CoerceAll(hs), key).delta
          /\ Aggregate(CoerceAll(es), key).delta \in Int
          /\ Aggregate(CoerceAll(hs), key).delta \in Int
      BY <3>2, <3>6, BucketOf
    <3> HIDE DEF both
    <3>10. after[key].postDelta =
             Aggregate(CoerceAll(es), key).delta + Aggregate(CoerceAll(both), key).delta
      BY <3>2, <3>4, <3>6, <3>8, BucketOf
    <3>11. Signed(Coerce(item)) \in Int
      BY <2>5, Coerced
    <3> HIDE DEF after, es, hs, m, key
    <3>12. after[key].postDelta = 0
      BY <2>5, <3>3, <3>5, <3>9, <3>10, <3>11
    <3> QED BY <3>1, <3>12
  <2> QED BY <2>10, <2>11
<1> QED BY <1>1, DeskInvariant, PTL
=============================================================================
