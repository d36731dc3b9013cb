-------------------------- MODULE SumFunctionLemmas ---------------------------
(***************************************************************************)
(* Sums.  SumFunction folds over the domain in an order CHOOSE picks; what *)
(* is proved about it goes by the smallest set that would be an exception. *)
(***************************************************************************)
EXTENDS Integers, Functions, FiniteSetTheorems, TLAPS

\* A family of subsets of a finite set has a smallest one.
LEMMA SmallestSet ==
  ASSUME NEW S, IsFiniteSet(S), NEW T, T \subseteq SUBSET S, T # {}
  PROVE  \E s \in T : \A r \in T : r \subseteq s => r = s
<1>1. IsWellFoundedOn(StrictSubsetOrdering(S), SUBSET S)
  BY FS_StrictSubsetOrderingWellFounded, FS_FiniteSubsetsOfFinite
<1>2. PICK s \in T : \A r \in T : ~ (<<r, s>> \in StrictSubsetOrdering(S))
  BY <1>1, WFMin
<1>. QED
  BY <1>2 DEF StrictSubsetOrdering

\* A finite set of numbers has a greatest one.
LEMMA GreatestNumber ==
  ASSUME NEW S, IsFiniteSet(S), S # {}, \A x \in S : x \in Nat
  PROVE  \E x \in S : \A y \in S : x >= y
<1>. DEFINE Above(x) == {y \in S : y > x}
<1>1. PICK T : T = {Above(x) : x \in S}
  OBVIOUS
<1>2. T \subseteq SUBSET S
  BY <1>1
<1>3. T # {}
  BY <1>1
<1>4. IsFiniteSet(S)
  OBVIOUS
<1>5. PICK s \in T : \A r \in T : r \subseteq s => r = s
  BY ONLY <1>2, <1>3, <1>4, SmallestSet
<1>6. PICK x \in S : s = Above(x)
  BY <1>1
<1>7. ASSUME NEW y \in S, y > x PROVE FALSE
  <2>1. ~(y > y) /\ \A z \in S : z > y => z > x
    BY <1>7
  <2>2. Above(y) \subseteq Above(x) /\ y \in Above(x) /\ y \notin Above(y)
    BY <1>7, <2>1, Zenon
  <2>3. Above(y) \in T
    BY <1>1
  <2>. HIDE DEF Above
  <2>. QED
    BY <1>5, <1>6, <2>2, <2>3
<1>8. \A y \in S : x >= y
  BY <1>7
<1>. QED
  BY <1>8

\* The element the fold takes first.
Chosen(s) == CHOOSE x \in s : TRUE

\* g sums f over the subsets of D, in the order of SumFunction.
Sums(f, D, g) ==
  g = [s \in SUBSET D |-> IF s = {} THEN 0 ELSE f[Chosen(s)] + g[s \ {Chosen(s)}]]

\* The equation of such a function, and that it has one solution.
LEMMA SumsEmpty ==
  ASSUME NEW f, NEW D, NEW g, Sums(f, D, g)
  PROVE  g[{}] = 0
<1>1. {} \in SUBSET D
  OBVIOUS
<1>2. g[{}] = IF {} = {} THEN 0 ELSE f[Chosen({})] + g[{} \ {Chosen({})}]
  BY <1>1, Zenon DEF Sums
<1>. QED
  BY <1>2

LEMMA SumsAt ==
  ASSUME NEW f, NEW D, NEW g, Sums(f, D, g), NEW s \in SUBSET D, s # {}
  PROVE  Chosen(s) \in s /\ g[s] = f[Chosen(s)] + g[s \ {Chosen(s)}]
<1>1. Chosen(s) \in s
  BY DEF Chosen
<1>2. g[s] = IF s = {} THEN 0 ELSE f[Chosen(s)] + g[s \ {Chosen(s)}]
  BY Zenon DEF Sums
<1>. QED
  BY <1>1, <1>2

LEMMA SumsAgree ==
  ASSUME NEW f, NEW e, NEW C, NEW D, IsFiniteSet(D), NEW g, Sums(f, C, g), NEW h, Sums(e, D, h),
         NEW s \in SUBSET C, s \in SUBSET D, \A x \in s : f[x] = e[x]
  PROVE  g[s] = h[s]
<1>. DEFINE T == {r \in SUBSET D : r \in SUBSET C /\ (\A x \in r : f[x] = e[x]) /\ g[r] # h[r]}
<1>. SUFFICES T = {}
  OBVIOUS
<1>1. CASE T # {}
  <2>1. PICK r \in T : \A q \in T : q \subseteq r => q = r
    <3>1. T \subseteq SUBSET D
      OBVIOUS
    <3>. HIDE DEF T
    <3>. QED
      BY <1>1, <3>1, SmallestSet
  <2>2. r # {}
    BY <2>1, SumsEmpty
  <2>3. Chosen(r) \in r
    BY <2>2 DEF Chosen
  <2>4. r \ {Chosen(r)} \notin T
    BY <2>1, <2>3
  <2>5. g[r \ {Chosen(r)}] = h[r \ {Chosen(r)}]
    BY <2>1, <2>4
  <2>6. r \in SUBSET C /\ r \in SUBSET D /\ g[r] # h[r] /\ f[Chosen(r)] = e[Chosen(r)]
    BY <2>1, <2>3
  <2>7. g[r] = f[Chosen(r)] + g[r \ {Chosen(r)}]
    BY <2>2, <2>6, SumsAt
  <2>8. h[r] = e[Chosen(r)] + h[r \ {Chosen(r)}]
    <3>1. r \in SUBSET D /\ r # {} /\ Sums(e, D, h)
      BY <2>2, <2>6
    <3>2. ASSUME NEW q \in SUBSET D, q # {}
          PROVE  h[q] = e[Chosen(q)] + h[q \ {Chosen(q)}]
      BY <3>1, <3>2, SumsAt
    <3>. HIDE DEF T
    <3>. QED
      BY <3>1, <3>2
  <2>. QED
    BY <2>5, <2>6, <2>7, <2>8
<1>. QED
  BY <1>1

LEMMA SumsUnique ==
  ASSUME NEW f, NEW C, NEW D, IsFiniteSet(D), NEW g, Sums(f, C, g), NEW h, Sums(f, D, h),
         NEW s \in SUBSET C, s \in SUBSET D
  PROVE  g[s] = h[s]
BY SumsAgree

LEMMA SumsExist ==
  ASSUME NEW f, NEW S, IsFiniteSet(S)
  PROVE  \E g : Sums(f, S, g)
<1>. DEFINE T == {D \in SUBSET S : ~ \E g : Sums(f, D, g)}
<1>. SUFFICES ASSUME T # {} PROVE FALSE
  OBVIOUS
<1>1. PICK D \in T : \A r \in T : r \subseteq D => r = D
  <2>1. T \subseteq SUBSET S
    OBVIOUS
  <2>. HIDE DEF T
  <2>. QED
    BY <2>1, SmallestSet
<1>. DEFINE G(r) == CHOOSE g : Sums(f, r, g)
            Rest(s) == s \ {Chosen(s)}
            h == [s \in SUBSET D |->
                    IF s = {} THEN 0 ELSE f[Chosen(s)] + G(Rest(s))[Rest(s)]]
<1>2. ASSUME NEW r \in SUBSET D, r # D
      PROVE  Sums(f, r, G(r))
  <2>1. \E g : Sums(f, r, g)
    BY <1>1, <1>2
  <2>. QED
    BY <2>1
<1>3. ASSUME NEW s \in SUBSET D
      PROVE  h[s] = IF s = {} THEN 0 ELSE f[Chosen(s)] + G(Rest(s))[Rest(s)]
  OBVIOUS
<1>4. D \in SUBSET S /\ ~ \E g : Sums(f, D, g)
  BY <1>1
<1>5. \A s : s # {} => Chosen(s) \in s
  BY DEF Chosen
<1>6. \A s \in SUBSET D : s # {} => Rest(s) \in SUBSET D /\ Rest(s) # D
  BY <1>5
<1>. HIDE DEF T, G
<1>7. ASSUME NEW s \in SUBSET D, s # {}
      PROVE  h[Rest(s)] = G(Rest(s))[Rest(s)]
  <2>. DEFINE r == Rest(s)
  <2>1. r \in SUBSET D /\ r # D
    BY <1>6, <1>7
  <2>2. Sums(f, r, G(r))
    BY <1>2, <2>1
  <2>3. h[r] = IF r = {} THEN 0 ELSE f[Chosen(r)] + G(Rest(r))[Rest(r)]
    BY <1>3, <2>1
  <2>. SUFFICES h[r] = G(r)[r]
    OBVIOUS
  <2>. HIDE DEF r, h
  <2>4. CASE r = {}
    <3>1. G(r)[r] = 0
      BY <2>2, <2>4, SumsEmpty
    <3>. QED
      BY <2>3, <2>4, <3>1
  <2>5. CASE r # {}
    <3>1. Rest(r) \in SUBSET D /\ Rest(r) # D /\ Rest(r) \in SUBSET r
      BY <1>6, <2>1, <2>5
    <3>2. G(r)[r] = f[Chosen(r)] + G(r)[Rest(r)]
      BY <2>2, <2>5, SumsAt
    <3>3. Sums(f, Rest(r), G(Rest(r))) /\ IsFiniteSet(Rest(r))
      BY <1>2, <1>4, <3>1, FS_Subset
    <3>4. G(r)[Rest(r)] = G(Rest(r))[Rest(r)]
      <4>. DEFINE q == Rest(r)
      <4>1. q \in SUBSET r /\ q \in SUBSET q /\ Sums(f, q, G(q)) /\ IsFiniteSet(q)
        BY <3>1, <3>3
      <4>. HIDE DEF q
      <4>2. G(r)[q] = G(q)[q]
        BY <2>2, <4>1, SumsUnique
      <4>. QED
        BY <4>2 DEF q
    <3>. QED
      BY <2>3, <2>5, <3>2, <3>4
  <2>. QED
    BY <2>4, <2>5
<1>8. h = [s \in SUBSET D |-> IF s = {} THEN 0 ELSE f[Chosen(s)] + h[Rest(s)]]
  <2>. DEFINE k == [s \in SUBSET D |-> IF s = {} THEN 0 ELSE f[Chosen(s)] + h[Rest(s)]]
  <2>1. ASSUME NEW s \in SUBSET D
        PROVE  h[s] = k[s]
    <3>1. k[s] = IF s = {} THEN 0 ELSE f[Chosen(s)] + h[Rest(s)]
      OBVIOUS
    <3>. HIDE DEF h, k, Rest
    <3>. QED
      BY <1>3, <1>7, <3>1
  <2>2. h = [s \in SUBSET D |-> h[s]] /\ k = [s \in SUBSET D |-> k[s]]
    OBVIOUS
  <2>. HIDE DEF h, k
  <2>3. h = k
    BY <2>1, <2>2
  <2>. QED
    BY <2>3 DEF k
<1>9. Sums(f, D, h)
  <2>. HIDE DEF h
  <2>. QED
    BY <1>8, Zenon DEF Sums
<1>. QED
  BY <1>4, <1>9

\* SumFunction is that solution.
LEMMA SumFunctionSums ==
  ASSUME NEW f, IsFiniteSet(DOMAIN f)
  PROVE  \E g : Sums(f, DOMAIN f, g) /\ SumFunction(f) = g[DOMAIN f]
<1>. DEFINE g == CHOOSE iter : Sums(f, DOMAIN f, iter)
<1>1. SumFunction(f) = g[DOMAIN f]
  BY Zenon DEF SumFunction, SumFunctionOnSet, FoldFunctionOnSet, MapThenFoldSet, Chosen, Sums
<1>2. Sums(f, DOMAIN f, g)
  BY SumsExist
<1>. QED
  BY <1>1, <1>2

\* Sums of natural numbers.
LEMMA SumNat ==
  ASSUME NEW S, IsFiniteSet(S), NEW f \in [S -> Nat], NEW g, Sums(f, S, g)
  PROVE  \A s \in SUBSET S : g[s] \in Nat
<1>. DEFINE T == {s \in SUBSET S : g[s] \notin Nat}
<1>1. ASSUME T # {} PROVE FALSE
  <2>1. PICK s \in T : \A r \in T : r \subseteq s => r = s
    <3>1. T \subseteq SUBSET S
      OBVIOUS
    <3>. HIDE DEF T
    <3>. QED
      BY <1>1, <3>1, SmallestSet
  <2>2. s # {} /\ Chosen(s) \in s
    <3>1. g[{}] = 0
      BY SumsEmpty
    <3>2. g[s] \notin Nat
      BY <2>1
    <3>3. g[{}] \in Nat
      BY <3>1
    <3>4. s # {}
      BY <3>2, <3>3, Zenon
    <3>. QED
      BY <3>4 DEF Chosen
  <2>3. g[s \ {Chosen(s)}] \in Nat /\ f[Chosen(s)] \in Nat
    BY <2>1, <2>2
  <2>4. g[s] = f[Chosen(s)] + g[s \ {Chosen(s)}]
    BY <2>1, <2>2, SumsAt
  <2>. QED
    BY <2>1, <2>3, <2>4
<1>. QED
  BY <1>1

\* What is at least as large everywhere, and larger by d at one index, has a
\* sum larger by d.
LEMMA SumShift ==
  ASSUME NEW S, IsFiniteSet(S), NEW f \in [S -> Nat], NEW g \in [S -> Nat],
         NEW i \in S, NEW d \in Int,
         \A j \in S : f[j] + (IF j = i THEN d ELSE 0) <= g[j]
  PROVE  SumFunction(f) + d <= SumFunction(g)
<1>1. PICK a : Sums(f, S, a) /\ SumFunction(f) = a[S]
  BY SumFunctionSums
<1>2. PICK b : Sums(g, S, b) /\ SumFunction(g) = b[S]
  BY SumFunctionSums
<1>3. \A s \in SUBSET S : a[s] \in Nat /\ b[s] \in Nat
  BY <1>1, <1>2, SumNat
<1>. DEFINE T == {s \in SUBSET S : ~(a[s] + (IF i \in s THEN d ELSE 0) <= b[s])}
<1>4. ASSUME T # {} PROVE FALSE
  <2>1. PICK s \in T : \A r \in T : r \subseteq s => r = s
    <3>1. T \subseteq SUBSET S
      OBVIOUS
    <3>. HIDE DEF T
    <3>. QED
      BY <1>4, <3>1, SmallestSet
  <2>. DEFINE c == Chosen(s)
              r == s \ {c}
  <2>2. s # {} /\ c \in s
    <3>1. a[{}] = 0 /\ b[{}] = 0
      BY <1>1, <1>2, SumsEmpty
    <3>2. a[{}] + (IF i \in {} THEN d ELSE 0) <= b[{}]
      BY <3>1
    <3>3. ~(a[s] + (IF i \in s THEN d ELSE 0) <= b[s])
      BY <2>1
    <3>4. s # {}
      BY <3>2, <3>3, Zenon
    <3>. QED
      BY <3>4 DEF Chosen
  <2>3. r \in SUBSET S /\ r \notin T
    BY <2>1, <2>2
  <2>4. a[s] = f[c] + a[r] /\ b[s] = g[c] + b[r]
    <3>1. s \in SUBSET S
      BY <2>1
    <3>2. s # {} /\ Sums(f, S, a) /\ Sums(g, S, b)
      BY <1>1, <1>2, <2>2
    <3>3. a[s] = f[Chosen(s)] + a[s \ {Chosen(s)}]
      BY ONLY <3>1, <3>2, SumsAt
    <3>4. b[s] = g[Chosen(s)] + b[s \ {Chosen(s)}]
      BY ONLY <3>1, <3>2, SumsAt
    <3>. QED
      BY <3>3, <3>4
  <2>5. a[r] \in Nat /\ b[r] \in Nat /\ f[c] \in Nat /\ g[c] \in Nat
    BY <1>3, <2>1, <2>2, <2>3
  <2>6. i \in s <=> i \in r \/ i = c
    BY <2>2
  <2>7. a[r] + (IF i \in r THEN d ELSE 0) <= b[r]
    BY <2>3
  <2>8. i = c => i \notin r
    OBVIOUS
  <2>9. f[c] + (IF c = i THEN d ELSE 0) <= g[c]
    BY <2>1, <2>2
  <2>10. ~(a[s] + (IF i \in s THEN d ELSE 0) <= b[s])
    BY <2>1
  <2>. HIDE DEF c, r
  <2>. QED
    BY <2>4, <2>5, <2>6, <2>7, <2>8, <2>9, <2>10
<1>. QED
  BY <1>1, <1>2, <1>4

LEMMA SumType ==
  ASSUME NEW S, IsFiniteSet(S), NEW f \in [S -> Nat]
  PROVE  SumFunction(f) \in Nat
BY SumFunctionSums, SumNat

LEMMA SumZero ==
  ASSUME NEW S, IsFiniteSet(S), NEW f \in [S -> Nat], \A i \in S : f[i] = 0
  PROVE  SumFunction(f) = 0
<1>1. PICK a : Sums(f, S, a) /\ SumFunction(f) = a[S]
  BY SumFunctionSums
<1>. DEFINE T == {s \in SUBSET S : a[s] # 0}
<1>2. ASSUME T # {} PROVE FALSE
  <2>1. PICK s \in T : \A r \in T : r \subseteq s => r = s
    <3>1. T \subseteq SUBSET S
      OBVIOUS
    <3>. HIDE DEF T
    <3>. QED
      BY <1>2, <3>1, SmallestSet
  <2>2. s # {} /\ Chosen(s) \in s
    <3>1. a[{}] = 0
      BY <1>1, SumsEmpty
    <3>2. s # {}
      BY <2>1, <3>1
    <3>. QED
      BY <3>2 DEF Chosen
  <2>3. a[s \ {Chosen(s)}] = 0 /\ f[Chosen(s)] = 0
    BY <2>1, <2>2
  <2>4. a[s] = f[Chosen(s)] + a[s \ {Chosen(s)}]
    BY <1>1, <2>1, <2>2, SumsAt
  <2>. QED
    BY <2>1, <2>3, <2>4
<1>. QED
  BY <1>1, <1>2

LEMMA SumMonotone ==
  ASSUME NEW S, IsFiniteSet(S), NEW f \in [S -> Nat], NEW g \in [S -> Nat],
         \A j \in S : f[j] <= g[j]
  PROVE  SumFunction(f) <= SumFunction(g)
<1>1. CASE S = {}
  <2>1. SumFunction(f) = 0 /\ SumFunction(g) = 0
    BY <1>1, SumZero
  <2>. QED
    BY <2>1
<1>2. CASE S # {}
  <2>. DEFINE d == 0
  <2>1. PICK i : i \in S
    BY <1>2
  <2>2. d \in Int /\ \A j \in S : f[j] + (IF j = i THEN d ELSE 0) <= g[j]
    OBVIOUS
  <2>3. SumFunction(f) + d <= SumFunction(g)
    <3>. HIDE DEF d
    <3>. QED
      BY <2>1, <2>2, SumShift
  <2>. QED
    BY <2>3, SumType
<1>. QED
  BY <1>1, <1>2

\* One more at one index is one more in the sum.
LEMMA SumBump ==
  ASSUME NEW S, IsFiniteSet(S), NEW f \in [S -> Nat], NEW g \in [S -> Nat], NEW i \in S,
         \A j \in S : g[j] = IF j = i THEN f[j] + 1 ELSE f[j]
  PROVE  SumFunction(g) = SumFunction(f) + 1
<1>. DEFINE up == 1
            down == -1
<1>1. up \in Int /\ down \in Int
  OBVIOUS
<1>2. /\ \A j \in S : f[j] + (IF j = i THEN up ELSE 0) <= g[j]
      /\ \A j \in S : g[j] + (IF j = i THEN down ELSE 0) <= f[j]
  OBVIOUS
<1>3. SumFunction(f) + up <= SumFunction(g) /\ SumFunction(g) + down <= SumFunction(f)
  <2>. HIDE DEF up, down
  <2>1. SumFunction(f) + up <= SumFunction(g)
    BY <1>1, <1>2, SumShift
  <2>2. SumFunction(g) + down <= SumFunction(f)
    BY <1>1, <1>2, SumShift
  <2>. QED
    BY <2>1, <2>2
<1>4. SumFunction(f) \in Nat /\ SumFunction(g) \in Nat
  BY SumType
<1>. QED
  BY <1>3, <1>4

\* Whichever element is taken from a set, the rest makes up the sum.
LEMMA SumsWithout ==
  ASSUME NEW S, IsFiniteSet(S), NEW f \in [S -> Nat], NEW g, Sums(f, S, g),
         NEW s \in SUBSET S, NEW c \in s
  PROVE  g[s] = f[c] + g[s \ {c}]
<1>. DEFINE T == {r \in SUBSET S : \E d \in r : g[r] # f[d] + g[r \ {d}]}
<1>1. ASSUME T # {} PROVE FALSE
  <2>1. PICK r \in T : \A q \in T : q \subseteq r => q = r
    <3>1. T \subseteq SUBSET S
      OBVIOUS
    <3>. HIDE DEF T
    <3>. QED
      BY <1>1, <3>1, SmallestSet
  <2>2. PICK d \in r : g[r] # f[d] + g[r \ {d}]
    BY <2>1
  <2>3. r \in SUBSET S
    BY <2>1
  <2>4. PICK e : e = Chosen(r)
    OBVIOUS
  <2>5. e \in r /\ g[r] = f[e] + g[r \ {e}]
    BY <2>2, <2>3, <2>4, SumsAt
  <2>6. e # d
    BY <2>2, <2>5
  <2>7. r \ {e} \notin T /\ r \ {d} \notin T
    <3>. HIDE DEF T
    <3>. QED
      BY <2>1, <2>2, <2>5
  <2>8. g[r \ {e}] = f[d] + g[(r \ {e}) \ {d}]
    BY <2>2, <2>3, <2>6, <2>7
  <2>9. g[r \ {d}] = f[e] + g[(r \ {d}) \ {e}]
    BY <2>3, <2>5, <2>6, <2>7
  <2>10. (r \ {e}) \ {d} = (r \ {d}) \ {e}
    OBVIOUS
  <2>11. f[d] \in Nat /\ f[e] \in Nat /\ g[(r \ {d}) \ {e}] \in Nat
    <3>1. (r \ {d}) \ {e} \in SUBSET S /\ d \in S /\ e \in S
      BY <2>2, <2>3, <2>5
    <3>. QED
      BY <3>1, SumNat
  <2>12. g[r \ {e}] = f[d] + g[(r \ {d}) \ {e}]
    BY <2>8, <2>10
  <2>. QED
    BY <2>2, <2>5, <2>9, <2>11, <2>12
<1>. QED
  BY <1>1

\* A set covered by two has at most the sum of both.
LEMMA SumsCovered ==
  ASSUME NEW S, IsFiniteSet(S), NEW f \in [S -> Nat], NEW g, Sums(f, S, g),
         NEW X \in SUBSET S, NEW A \in SUBSET S, NEW B \in SUBSET S, X \subseteq A \cup B
  PROVE  g[X] <= g[A] + g[B]
<1>. DEFINE T == {x \in SUBSET S : \E a, b \in SUBSET S : x \subseteq a \cup b /\ ~(g[x] <= g[a] + g[b])}
<1>1. \A s \in SUBSET S : g[s] \in Nat
  BY SumNat
<1>2. ASSUME NEW s \in SUBSET S, NEW c \in s
      PROVE  g[s] = f[c] + g[s \ {c}] /\ f[c] \in Nat
  <2>1. g[s] = f[c] + g[s \ {c}]
    BY SumsWithout
  <2>2. c \in S
    OBVIOUS
  <2>. QED
    BY <2>1, <2>2
<1>3. ASSUME T # {} PROVE FALSE
  <2>1. PICK x \in T : \A q \in T : q \subseteq x => q = x
    <3>1. T \subseteq SUBSET S
      OBVIOUS
    <3>. HIDE DEF T
    <3>. QED
      BY <1>3, <3>1, SmallestSet
  <2>2. x \in SUBSET S
    BY <2>1
  <2>3. PICK a \in SUBSET S, b \in SUBSET S : x \subseteq a \cup b /\ ~(g[x] <= g[a] + g[b])
    BY <2>1
  <2>4. x # {}
    <3>1. g[{}] = 0
      BY SumsEmpty
    <3>2. g[{}] <= g[a] + g[b]
      BY <1>1, <3>1
    <3>. QED
      BY <2>3, <3>2
  <2>5. PICK c \in x : TRUE
    BY <2>4
  <2>6. x \ {c} \notin T
    <3>. HIDE DEF T
    <3>. QED
      BY <2>1, <2>5
  <2>7. ASSUME NEW y \in SUBSET S, NEW z \in SUBSET S, x \subseteq y \cup z, c \in y
        PROVE  g[x] <= g[y] + g[z]
    <3>1. x \ {c} \subseteq (y \ {c}) \cup z
      BY <2>7
    <3>2. g[x \ {c}] <= g[y \ {c}] + g[z]
      BY <2>2, <2>6, <3>1
    <3>3. g[x] = f[c] + g[x \ {c}] /\ g[y] = f[c] + g[y \ {c}] /\ f[c] \in Nat
      BY <1>2, <2>2, <2>5, <2>7
    <3>4. g[x \ {c}] \in Nat /\ g[y \ {c}] \in Nat /\ g[z] \in Nat
      BY <1>1, <2>2
    <3>. QED
      BY <3>2, <3>3, <3>4
  <2>8. CASE c \in a
    BY <2>3, <2>7, <2>8
  <2>9. CASE c \in b
    <3>1. g[x] <= g[b] + g[a]
      BY <2>3, <2>7, <2>9
    <3>. QED
      BY <1>1, <2>3, <3>1
  <2>. QED
    BY <2>3, <2>5, <2>8, <2>9
<1>. QED
  BY <1>3

\* The same of the sums of a function over the parts of its domain.
LEMMA SumPart ==
  ASSUME NEW S, IsFiniteSet(S), NEW f \in [S -> Nat], NEW g, Sums(f, S, g), NEW A \in SUBSET S
  PROVE  SumFunction([x \in A |-> f[x]]) = g[A]
<1>. DEFINE e == [x \in A |-> f[x]]
<1>1. DOMAIN e = A /\ IsFiniteSet(A) /\ \A x \in A : f[x] = e[x]
  BY FS_Subset
<1>. HIDE DEF e
<1>2. PICK h : Sums(e, A, h) /\ SumFunction(e) = h[A]
  BY <1>1, SumFunctionSums
<1>3. g[A] = h[A]
  BY <1>1, <1>2, SumsAgree
<1>. QED
  BY <1>2, <1>3 DEF e

LEMMA SumCovered ==
  ASSUME NEW S, IsFiniteSet(S), NEW f \in [S -> Nat],
         NEW X \in SUBSET S, NEW A \in SUBSET S, NEW B \in SUBSET S, X \subseteq A \cup B
  PROVE  /\ SumFunction([x \in X |-> f[x]])
              <= SumFunction([x \in A |-> f[x]]) + SumFunction([x \in B |-> f[x]])
         /\ SumFunction([x \in X |-> f[x]]) \in Nat
<1>1. DOMAIN f = S
  OBVIOUS
<1>2. PICK g : Sums(f, S, g)
  BY SumsExist
<1>3. g[X] <= g[A] + g[B] /\ g[X] \in Nat
  BY <1>2, SumsCovered, SumNat
<1>. QED
  BY <1>2, <1>3, SumPart
=============================================================================
