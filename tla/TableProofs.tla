----------------------------- MODULE TableProofs -----------------------------
(***************************************************************************)
(* What the proofs about expense splits share, whether requests come one   *)
(* at a time (Splits) or overlap (SplitRaces): sums, and what each handler *)
(* writes, for any database it read and any database it finds.             *)
(*                                                                         *)
(* Total(f, S) is MapThenSumSet for a function f: the sum of f[x] for the  *)
(* x in S.  The library sums by a recursive function on the subsets of S.  *)
(* What is said of all sets is shown here by looking at a smallest subset  *)
(* for which it fails (Smallest), not by an induction rule.                *)
(***************************************************************************)
EXTENDS LedgerHandlers, FiniteSetTheorems, WellFoundedInduction, TLAPS

Total(f, S) == MapThenSumSet(LAMBDA x : f[x], S)

\* The element the library takes from a set first.
Picked(s) == CHOOSE x \in s : TRUE

\* g sums f over the subsets of S, as the library does it.
IsSum(g, f, S) == g = [s \in SUBSET S |-> IF s = {} THEN 0 ELSE f[Picked(s)] + g[s \ {Picked(s)}]]

Whole(f, S) == \A x \in S : f[x] \in Int

\* A set of finite sets has one without a smaller one.
LEMMA Smallest ==
    ASSUME NEW S, IsFiniteSet(S), NEW bad, bad \subseteq SUBSET S, bad # {}
    PROVE  \E s \in bad : \A r \in SUBSET s : r # s => r \notin bad
<1>1. IsWellFoundedOn(StrictSubsetOrdering(S), SUBSET S)
  BY FS_StrictSubsetOrderingWellFounded, FS_FiniteSubsetsOfFinite
<1>2. PICK s \in bad : \A r \in bad : ~(<<r, s>> \in StrictSubsetOrdering(S))
  BY <1>1, WFMin
<1>3. ASSUME NEW r \in SUBSET s, r # s PROVE r \notin bad
  BY <1>2, <1>3 DEF StrictSubsetOrdering
<1> QED  BY <1>3

\* The element picked from a set is in it.
LEMMA PickedIsIn == ASSUME NEW s, s # {} PROVE Picked(s) \in s
BY DEF Picked

\* Two sums of one function agree.
LEMMA SumsAgree ==
    ASSUME NEW S, NEW T, IsFiniteSet(S), NEW f, NEW g, NEW h,
           IsSum(g, f, S), IsSum(h, f, T), NEW s, s \subseteq S, s \subseteq T
    PROVE  g[s] = h[s]
<1> DEFINE bad == {r \in SUBSET (S \cap T) : g[r] # h[r]}
<1>1. SUFFICES ASSUME bad # {} PROVE FALSE
  OBVIOUS
<1>2. PICK m \in bad : \A r \in SUBSET m : r # m => r \notin bad
  <2>1. bad \subseteq SUBSET S
    OBVIOUS
  <2> HIDE DEF bad
  <2> QED  BY <1>1, <2>1, Smallest
<1>3. /\ g[m] = IF m = {} THEN 0 ELSE f[Picked(m)] + g[m \ {Picked(m)}]
      /\ h[m] = IF m = {} THEN 0 ELSE f[Picked(m)] + h[m \ {Picked(m)}]
  BY DEF IsSum
<1>4. m # {} => g[m \ {Picked(m)}] = h[m \ {Picked(m)}]
  BY <1>2, PickedIsIn
<1> QED  BY <1>3, <1>4

\* Every function has one over every finite set.
LEMMA SumExists == ASSUME NEW S, IsFiniteSet(S), NEW f PROVE \E g : IsSum(g, f, S)
<1> DEFINE bad == {s \in SUBSET S : ~\E g : IsSum(g, f, s)}
           sum(s) == CHOOSE g : IsSum(g, f, s)
<1>1. SUFFICES ASSUME bad # {} PROVE FALSE
  OBVIOUS
<1>2. PICK m \in bad : \A r \in SUBSET m : r # m => r \notin bad
  <2>1. bad \subseteq SUBSET S
    OBVIOUS
  <2> HIDE DEF bad
  <2> QED  BY <1>1, <2>1, Smallest
<1>3. \A r \in SUBSET m : r # m => IsSum(sum(r), f, r)
  BY <1>2
<1> DEFINE up(s) == IF s = {} THEN 0 ELSE f[Picked(s)] + sum(s \ {Picked(s)})[s \ {Picked(s)}]
           g == [s \in SUBSET m |-> up(s)]
<1>4. ASSUME NEW r \in SUBSET m, r # m PROVE sum(r)[r] = up(r)
  <2>1. IsSum(sum(r), f, r)
    BY <1>3, <1>4
  <2>2. sum(r)[r] = IF r = {} THEN 0 ELSE f[Picked(r)] + sum(r)[r \ {Picked(r)}]
    BY <2>1 DEF IsSum
  <2>3. ASSUME r # {} PROVE sum(r)[r \ {Picked(r)}] = sum(r \ {Picked(r)})[r \ {Picked(r)}]
    <3>1. Picked(r) \in r
      BY <2>3, PickedIsIn
    <3>2. IsSum(sum(r \ {Picked(r)}), f, r \ {Picked(r)})
      BY <1>3, <1>4, <3>1
    <3>3. IsFiniteSet(r)
      BY FS_Subset
    <3> DEFINE rest == r \ {Picked(r)}
    <3>4. IsSum(sum(rest), f, rest) /\ rest \subseteq r
      BY <3>2
    <3> HIDE DEF rest, sum
    <3>5. sum(r)[rest] = sum(rest)[rest]
      BY <2>1, <3>3, <3>4, SumsAgree
    <3> QED  BY <3>5 DEF rest
  <2> QED  BY <2>2, <2>3
<1>5. g = [s \in SUBSET m |-> IF s = {} THEN 0 ELSE f[Picked(s)] + g[s \ {Picked(s)}]]
  <2>1. ASSUME NEW s \in SUBSET m, s # {}
        PROVE  g[s \ {Picked(s)}] = sum(s \ {Picked(s)})[s \ {Picked(s)}]
    <3>1. Picked(s) \in s
      BY <2>1, PickedIsIn
    <3>2. s \ {Picked(s)} \in SUBSET m /\ s \ {Picked(s)} # m
      BY <3>1
    <3>3. g[s \ {Picked(s)}] = up(s \ {Picked(s)})
      BY <3>2
    <3> QED  BY <1>4, <3>2, <3>3
  <2> HIDE DEF sum
  <2>2. \A s \in SUBSET m : up(s) = IF s = {} THEN 0 ELSE f[Picked(s)] + g[s \ {Picked(s)}]
    BY <2>1
  <2> QED  BY <2>2
<1> QED  BY <1>5 DEF IsSum

-----------------------------------------------------------------------------
(***************************************************************************)
(* What sums are.                                                          *)
(***************************************************************************)

\* A total is what the summing function has at the whole set.
LEMMA TotalIsSum == ASSUME NEW S, IsFiniteSet(S), NEW f
                    PROVE  \E g : IsSum(g, f, S) /\ Total(f, S) = g[S]
<1>1. \E g : IsSum(g, f, S)
  BY SumExists
<1>2. Total(f, S) = (CHOOSE g : IsSum(g, f, S))[S]
  BY DEF Total, MapThenSumSet, MapThenFoldSet, IsSum, Picked
<1> QED  BY <1>1, <1>2

\* Nothing adds up to 0.
LEMMA TotalEmpty == ASSUME NEW f PROVE Total(f, {}) = 0
BY TotalIsSum, FS_EmptySet DEF IsSum

\* A total is the picked element's value and the total of the rest.
LEMMA TotalStep ==
    ASSUME NEW S, IsFiniteSet(S), S # {}, NEW f
    PROVE  Picked(S) \in S /\ Total(f, S) = f[Picked(S)] + Total(f, S \ {Picked(S)})
<1> DEFINE rest == S \ {Picked(S)}
<1>1. Picked(S) \in S
  BY PickedIsIn
<1>2. PICK g : IsSum(g, f, S) /\ Total(f, S) = g[S]
  BY TotalIsSum
<1>3. IsFiniteSet(rest)
  BY FS_Subset
<1>4. PICK h : IsSum(h, f, rest) /\ Total(f, rest) = h[rest]
  BY <1>3, TotalIsSum
<1>5. g[rest] = h[rest]
  BY <1>2, <1>4, SumsAgree
<1>6. g[S] = f[Picked(S)] + g[rest]
  BY <1>2 DEF IsSum
<1> QED  BY <1>1, <1>2, <1>4, <1>5, <1>6

\* A sum depends on its addends only,
LEMMA TotalSame ==
    ASSUME NEW S, IsFiniteSet(S), NEW f, NEW g, \A x \in S : f[x] = g[x]
    PROVE  Total(f, S) = Total(g, S)
<1> DEFINE bad == {s \in SUBSET S : Total(f, s) # Total(g, s)}
<1>1. SUFFICES ASSUME bad # {} PROVE FALSE
  OBVIOUS
<1>2. bad \subseteq SUBSET S
  OBVIOUS
<1>3. PICK m \in bad : \A r \in SUBSET m : r # m => r \notin bad
  <2> HIDE DEF bad
  <2> QED  BY <1>1, <1>2, Smallest
<1>4. m # {}
  BY TotalEmpty
<1>5. /\ Picked(m) \in m
      /\ Total(f, m) = f[Picked(m)] + Total(f, m \ {Picked(m)})
      /\ Total(g, m) = g[Picked(m)] + Total(g, m \ {Picked(m)})
  BY <1>2, <1>4, FS_Subset, TotalStep
<1>6. m \ {Picked(m)} \notin bad
  BY <1>3, <1>5
<1> QED  BY <1>5, <1>6

\* and is whole if they are.
LEMMA TotalWhole ==
    ASSUME NEW S, IsFiniteSet(S), NEW f, Whole(f, S)
    PROVE  Total(f, S) \in Int
<1> DEFINE bad == {s \in SUBSET S : Total(f, s) \notin Int}
<1>1. SUFFICES ASSUME bad # {} PROVE FALSE
  OBVIOUS
<1>2. bad \subseteq SUBSET S
  OBVIOUS
<1>3. PICK m \in bad : \A r \in SUBSET m : r # m => r \notin bad
  <2> HIDE DEF bad
  <2> QED  BY <1>1, <1>2, Smallest
<1>4. m # {}
  BY TotalEmpty
<1>5. /\ Picked(m) \in m
      /\ Total(f, m) = f[Picked(m)] + Total(f, m \ {Picked(m)})
  BY <1>2, <1>4, FS_Subset, TotalStep
<1>6. m \ {Picked(m)} \notin bad
  BY <1>3, <1>5
<1> QED  BY <1>5, <1>6 DEF Whole

\* Any element may be taken first.
LEMMA TotalTake ==
    ASSUME NEW S, IsFiniteSet(S), NEW f, Whole(f, S), NEW x \in S
    PROVE  Total(f, S) = f[x] + Total(f, S \ {x})
<1> DEFINE bad == {s \in SUBSET S : \E y \in s : Total(f, s) # f[y] + Total(f, s \ {y})}
<1>1. SUFFICES ASSUME bad # {} PROVE FALSE
  OBVIOUS
<1>2. bad \subseteq SUBSET S
  OBVIOUS
<1>3. PICK m \in bad : \A r \in SUBSET m : r # m => r \notin bad
  <2> HIDE DEF bad
  <2> QED  BY <1>1, <1>2, Smallest
<1>4. PICK y \in m : Total(f, m) # f[y] + Total(f, m \ {y})
  OBVIOUS
<1> DEFINE p == Picked(m)
           both == m \ {p, y}
<1>5. p \in m /\ Total(f, m) = f[p] + Total(f, m \ {p})
  BY <1>2, <1>4, FS_Subset, TotalStep
<1>6. y # p
  BY <1>4, <1>5
<1>7. m \ {p} \notin bad /\ y \in m \ {p} /\ m \ {p} \in SUBSET S
  BY <1>2, <1>3, <1>5, <1>6
<1>8. m \ {y} \notin bad /\ p \in m \ {y} /\ m \ {y} \in SUBSET S
  BY <1>2, <1>3, <1>4, <1>5, <1>6
<1>9. /\ (m \ {p}) \ {y} = both /\ (m \ {y}) \ {p} = both
  OBVIOUS
<1>10. Total(f, m \ {p}) = f[y] + Total(f, both)
  BY <1>7, <1>9
<1>11. Total(f, m \ {y}) = f[p] + Total(f, both)
  BY <1>8, <1>9
<1>12. f[p] \in Int /\ f[y] \in Int /\ Total(f, both) \in Int
  <2>1. IsFiniteSet(both) /\ Whole(f, both)
    BY <1>2, FS_Subset DEF Whole
  <2> QED  BY <1>2, <1>4, <1>5, <2>1, TotalWhole DEF Whole
<1> QED  BY <1>4, <1>5, <1>10, <1>11, <1>12

\* One element more adds its value.
LEMMA TotalAdd ==
    ASSUME NEW S, IsFiniteSet(S), NEW f, NEW x, x \notin S, Whole(f, S \cup {x})
    PROVE  Total(f, S \cup {x}) = f[x] + Total(f, S)
<1>1. IsFiniteSet(S \cup {x}) /\ (S \cup {x}) \ {x} = S
  BY FS_AddElement
<1> QED  BY <1>1, TotalTake

\* The total of one value is that value.
LEMMA TotalOne == ASSUME NEW f, NEW x, f[x] \in Int PROVE Total(f, {x}) = f[x]
<1>1. Total(f, {x}) = f[x] + Total(f, {x} \ {x})
  BY FS_Singleton, TotalTake DEF Whole
<1>2. {x} \ {x} = {}
  OBVIOUS
<1> QED  BY <1>1, <1>2, TotalEmpty

\* A sum falls apart into those of a subset and the rest,
LEMMA TotalSplit ==
    ASSUME NEW S, IsFiniteSet(S), NEW f, Whole(f, S), NEW T \in SUBSET S
    PROVE  Total(f, S) = Total(f, T) + Total(f, S \ T)
<1> DEFINE bad == {s \in SUBSET T : Total(f, S) # Total(f, s) + Total(f, S \ s)}
<1>1. SUFFICES ASSUME bad # {} PROVE FALSE
  OBVIOUS
<1>2. IsFiniteSet(T) /\ bad \subseteq SUBSET T
  BY FS_Subset
<1>3. PICK m \in bad : \A r \in SUBSET m : r # m => r \notin bad
  <2> HIDE DEF bad
  <2> QED  BY <1>1, <1>2, Smallest
<1>4. Total(f, S) \in Int
  BY TotalWhole
<1>5. m # {}
  <2>1. S \ {} = S
    OBVIOUS
  <2> QED  BY <1>4, <2>1, TotalEmpty
<1> DEFINE p == Picked(m)
<1>6. IsFiniteSet(m) /\ IsFiniteSet(m \ {p}) /\ IsFiniteSet(S \ m)
  BY <1>2, FS_Subset
<1>7. p \in m /\ Total(f, m) = f[p] + Total(f, m \ {p})
  BY <1>5, <1>6, TotalStep
<1>8. Total(f, S) = Total(f, m \ {p}) + Total(f, S \ (m \ {p}))
  BY <1>2, <1>3, <1>7
<1>9. Total(f, S \ (m \ {p})) = f[p] + Total(f, S \ m)
  <2>1. S \ (m \ {p}) = (S \ m) \cup {p} /\ p \notin S \ m
    BY <1>2, <1>7
  <2>2. Whole(f, (S \ m) \cup {p})
    BY <1>2, <1>7 DEF Whole
  <2> QED  BY <1>6, <2>1, <2>2, TotalAdd
<1>10. f[p] \in Int /\ Total(f, m \ {p}) \in Int /\ Total(f, S \ m) \in Int
  BY <1>2, <1>6, <1>7, TotalWhole DEF Whole
<1> QED  BY <1>7, <1>8, <1>9, <1>10

\* Sums follow their addends: if each is at most another, so is the sum,
LEMMA TotalAtMost ==
    ASSUME NEW S, IsFiniteSet(S), NEW f, NEW g, Whole(f, S), Whole(g, S), \A x \in S : f[x] <= g[x]
    PROVE  Total(f, S) <= Total(g, S)
<1> DEFINE bad == {s \in SUBSET S : ~(Total(f, s) <= Total(g, s))}
<1>1. SUFFICES ASSUME bad # {} PROVE FALSE
  OBVIOUS
<1>2. bad \subseteq SUBSET S
  OBVIOUS
<1>3. PICK m \in bad : \A r \in SUBSET m : r # m => r \notin bad
  <2> HIDE DEF bad
  <2> QED  BY <1>1, <1>2, Smallest
<1>4. m # {}
  BY TotalEmpty
<1> DEFINE p == Picked(m)
<1>5. p \in m /\ Total(f, m) = f[p] + Total(f, m \ {p}) /\ Total(g, m) = g[p] + Total(g, m \ {p})
  BY <1>2, <1>4, FS_Subset, TotalStep
<1>6. Total(f, m \ {p}) <= Total(g, m \ {p})
  BY <1>2, <1>3, <1>5
<1>7. /\ f[p] \in Int /\ g[p] \in Int /\ f[p] <= g[p]
      /\ Total(f, m \ {p}) \in Int /\ Total(g, m \ {p}) \in Int
  <2>1. IsFiniteSet(m \ {p}) /\ Whole(f, m \ {p}) /\ Whole(g, m \ {p})
    BY <1>2, FS_Subset DEF Whole
  <2> QED  BY <1>2, <1>5, <2>1, TotalWhole DEF Whole
<1> QED  BY <1>5, <1>6, <1>7

\* the sum of tenfold values is ten times the sum,
LEMMA TotalTenfold ==
    ASSUME NEW S, IsFiniteSet(S), NEW f, NEW g, Whole(g, S), \A x \in S : f[x] = 10 * g[x]
    PROVE  Total(f, S) = 10 * Total(g, S)
<1> DEFINE bad == {s \in SUBSET S : Total(f, s) # 10 * Total(g, s)}
<1>1. SUFFICES ASSUME bad # {} PROVE FALSE
  OBVIOUS
<1>2. bad \subseteq SUBSET S
  OBVIOUS
<1>3. PICK m \in bad : \A r \in SUBSET m : r # m => r \notin bad
  <2> HIDE DEF bad
  <2> QED  BY <1>1, <1>2, Smallest
<1>4. m # {}
  BY TotalEmpty
<1> DEFINE p == Picked(m)
<1>5. p \in m /\ Total(f, m) = f[p] + Total(f, m \ {p}) /\ Total(g, m) = g[p] + Total(g, m \ {p})
  BY <1>2, <1>4, FS_Subset, TotalStep
<1>6. Total(f, m \ {p}) = 10 * Total(g, m \ {p})
  BY <1>2, <1>3, <1>5
<1>7. g[p] \in Int /\ f[p] = 10 * g[p] /\ Total(g, m \ {p}) \in Int
  <2>1. IsFiniteSet(m \ {p}) /\ Whole(g, m \ {p})
    BY <1>2, FS_Subset DEF Whole
  <2> QED  BY <1>2, <1>5, <2>1, TotalWhole DEF Whole
<1> QED  BY <1>5, <1>6, <1>7

\* the sum of sums is the sum,
LEMMA TotalPlus ==
    ASSUME NEW S, IsFiniteSet(S), NEW f, NEW g, NEW h, Whole(f, S), Whole(g, S),
           \A x \in S : h[x] = f[x] + g[x]
    PROVE  Total(h, S) = Total(f, S) + Total(g, S)
<1> DEFINE bad == {s \in SUBSET S : Total(h, s) # Total(f, s) + Total(g, s)}
<1>1. SUFFICES ASSUME bad # {} PROVE FALSE
  OBVIOUS
<1>2. bad \subseteq SUBSET S
  OBVIOUS
<1>3. PICK m \in bad : \A r \in SUBSET m : r # m => r \notin bad
  <2> HIDE DEF bad
  <2> QED  BY <1>1, <1>2, Smallest
<1>4. m # {}
  BY TotalEmpty
<1> DEFINE p == Picked(m)
<1>5. /\ p \in m /\ Total(f, m) = f[p] + Total(f, m \ {p}) /\ Total(g, m) = g[p] + Total(g, m \ {p})
      /\ Total(h, m) = h[p] + Total(h, m \ {p})
  BY <1>2, <1>4, FS_Subset, TotalStep
<1>6. Total(h, m \ {p}) = Total(f, m \ {p}) + Total(g, m \ {p})
  BY <1>2, <1>3, <1>5
<1>7. /\ f[p] \in Int /\ g[p] \in Int /\ h[p] = f[p] + g[p]
      /\ Total(f, m \ {p}) \in Int /\ Total(g, m \ {p}) \in Int
  <2>1. IsFiniteSet(m \ {p}) /\ Whole(f, m \ {p}) /\ Whole(g, m \ {p})
    BY <1>2, FS_Subset DEF Whole
  <2> QED  BY <1>2, <1>5, <2>1, TotalWhole DEF Whole
<1> QED  BY <1>5, <1>6, <1>7

\* and what is not negative adds up to what is not.
LEMMA TotalNat ==
    ASSUME NEW S, IsFiniteSet(S), NEW f, \A x \in S : f[x] \in Nat
    PROVE  Total(f, S) \in Nat
<1> DEFINE zero == [x \in S |-> 0]
<1>1. Whole(zero, S) /\ Whole(f, S) /\ \A x \in S : zero[x] + zero[x] = zero[x] /\ zero[x] <= f[x]
  BY DEF Whole
<1> HIDE DEF zero
<1>2. Total(zero, S) = Total(zero, S) + Total(zero, S) /\ Total(zero, S) \in Int
  BY <1>1, TotalPlus, TotalWhole
<1>3. Total(zero, S) <= Total(f, S) /\ Total(f, S) \in Int
  BY <1>1, TotalAtMost, TotalWhole
<1> QED  BY <1>2, <1>3

\* of natural numbers, a part adds up to no more than the whole,
LEMMA TotalOfPart ==
    ASSUME NEW S, IsFiniteSet(S), NEW f, \A x \in S : f[x] \in Nat, NEW T \in SUBSET S
    PROVE  Total(f, T) \in Nat /\ Total(f, T) <= Total(f, S)
<1>1. IsFiniteSet(T) /\ IsFiniteSet(S \ T) /\ Whole(f, S)
  BY FS_Subset DEF Whole
<1>2. Total(f, T) \in Nat /\ Total(f, S \ T) \in Nat
  BY <1>1, TotalNat
<1>3. Total(f, S) = Total(f, T) + Total(f, S \ T)
  BY <1>1, TotalSplit
<1> QED  BY <1>2, <1>3

\* and with a positive one among them to more than 0.
LEMMA TotalPositive ==
    ASSUME NEW S, IsFiniteSet(S), NEW f, \A x \in S : f[x] \in Nat, NEW x \in S, f[x] > 0
    PROVE  Total(f, S) > 0
<1>1. Total(f, {x}) = f[x]
  BY TotalOne
<1>2. {x} \in SUBSET S
  OBVIOUS
<1>3. Total(f, {x}) <= Total(f, S)
  BY <1>2, TotalOfPart
<1>4. Total(f, S) \in Nat
  BY TotalNat
<1> QED  BY <1>1, <1>3, <1>4

\* Renaming the elements one to one keeps the sum.
LEMMA TotalRenamed ==
    ASSUME NEW S, IsFiniteSet(S), NEW f, NEW g, NEW m,
           \A x \in S : f[x] = g[m[x]] /\ f[x] \in Int,
           \A x, y \in S : m[x] = m[y] => x = y
    PROVE  Total(f, S) = Total(g, {m[x] : x \in S})
<1> DEFINE img(s) == {m[x] : x \in s}
           bad == {s \in SUBSET S : Total(f, s) # Total(g, img(s))}
<1>1. SUFFICES ASSUME bad # {} PROVE FALSE
  OBVIOUS
<1>2. bad \subseteq SUBSET S
  OBVIOUS
<1>3. PICK q \in bad : \A r \in SUBSET q : r # q => r \notin bad
  <2> HIDE DEF bad
  <2> QED  BY <1>1, <1>2, Smallest
<1>4. q # {}
  <2>1. img({}) = {}
    OBVIOUS
  <2> QED  BY <2>1, TotalEmpty
<1> DEFINE p == Picked(q)
           rest == q \ {p}
<1>5. p \in q /\ Total(f, q) = f[p] + Total(f, rest)
  BY <1>2, <1>4, FS_Subset, TotalStep
<1>6. Total(f, rest) = Total(g, img(rest))
  BY <1>2, <1>3, <1>5
<1>7. IsFiniteSet(img(rest))
  <2>1. IsFiniteSet(rest)
    BY <1>2, FS_Subset
  <2> DEFINE h == [x \in rest |-> m[x]]
  <2>2. h \in Surjection(rest, img(rest))
    BY DEF Surjection
  <2> QED  BY <2>1, <2>2, FS_Surjection
<1>8. img(q) = img(rest) \cup {m[p]} /\ m[p] \notin img(rest)
  BY <1>2, <1>5
<1>9. Whole(g, img(rest) \cup {m[p]})
  BY <1>2, <1>5 DEF Whole
<1>10. Total(g, img(q)) = g[m[p]] + Total(g, img(rest))
  <2> HIDE DEF img
  <2> QED  BY <1>7, <1>8, <1>9, TotalAdd
<1> QED  BY <1>2, <1>5, <1>6, <1>10

\* Whatever sums f is Total.
LEMMA TotalOfSum ==
    ASSUME NEW S, IsFiniteSet(S), NEW f, NEW g, IsSum(g, f, S)
    PROVE  Total(f, S) = g[S]
BY TotalIsSum, SumsAgree

-----------------------------------------------------------------------------
(***************************************************************************)
(* The sums of the tables are Totals.                                      *)
(***************************************************************************)

\* The columns that are added up.
Credit == [x \in Settlement |-> x.amount]
ShareAmount(d) == [h \in DOMAIN d.share |-> d.share[h].amount]

\* There are finitely many rows, for keys are unique.
LEMMA FiniteRows ==
    ASSUME NEW d, IsDatabase(d), Constraints(d)
    PROVE  IsFiniteSet(d.paid) /\ IsFiniteSet(DOMAIN d.share) /\ IsFiniteSet(DOMAIN d.txn)
<1>1. IsFiniteSet(DOMAIN d.share) /\ IsFiniteSet(DOMAIN d.txn)
  BY FiniteIds, FS_Subset DEF IsDatabase, IsTable
<1>2. IsFiniteSet(ShareIds \X TxnIds)
  BY FiniteIds, FS_Product
<1> DEFINE key == [x \in d.paid |-> <<x.share, x.txn>>]
<1>3. key \in Injection(d.paid, ShareIds \X TxnIds)
  <2>1. \A x \in d.paid : x.share \in ShareIds /\ x.txn \in TxnIds
    BY DEF IsDatabase, Settlement
  <2>2. \A x, y \in d.paid : key[x] = key[y] => x = y
    BY DEF Constraints, OneLinkPerShareAndIncome
  <2> QED  BY <2>1, <2>2 DEF Injection, IsInjective
<1> QED  BY <1>1, <1>2, <1>3, FS_Injection

\* What was received on a share is the Total of its credits,
LEMMA PaidTotal ==
    ASSUME NEW d, NEW h, IsDatabase(d), IsFiniteSet(SettlementsOf(d, h))
    PROVE  Paid(d, h) = Total(Credit, SettlementsOf(d, h))
<1> DEFINE S == SettlementsOf(d, h)
           sum(g) == g = [s \in SUBSET S |->
                            IF s = {} THEN 0 ELSE Picked(s).amount + g[s \ {Picked(s)}]]
<1>1. S \subseteq Settlement /\ IsFiniteSet(S)
  BY DEF IsDatabase, SettlementsOf
<1>2. Paid(d, h) = (CHOOSE g : sum(g))[S]
  BY DEF Paid, MapThenSumSet, MapThenFoldSet, Picked
<1> HIDE DEF S
<1>3. \A s \in SUBSET S : s # {} => Credit[Picked(s)] = Picked(s).amount
  BY <1>1, PickedIsIn DEF Credit
<1>4. \A g : IsSum(g, Credit, S) <=> sum(g)
  BY <1>3 DEF IsSum
<1> HIDE DEF sum
<1>5. sum(CHOOSE g : sum(g))
  BY <1>1, <1>4, SumExists
<1> QED  BY <1>1, <1>2, <1>4, <1>5, TotalOfSum DEF S

\* that of a set of transactions the Total of their amounts,
LEMMA TxnTotalTotal ==
    ASSUME NEW d, NEW T, T \subseteq DOMAIN d.txn, IsFiniteSet(T)
    PROVE  TxnTotal(d, T) = Total(FullCredit(d), T)
<1> DEFINE sum(g) == g = [s \in SUBSET T |->
                            IF s = {} THEN 0 ELSE d.txn[Picked(s)].amount + g[s \ {Picked(s)}]]
<1>1. TxnTotal(d, T) = (CHOOSE g : sum(g))[T]
  BY DEF TxnTotal, MapThenSumSet, MapThenFoldSet, Picked
<1>2. \A s \in SUBSET T : s # {} => FullCredit(d)[Picked(s)] = d.txn[Picked(s)].amount
  BY PickedIsIn DEF FullCredit
<1>3. \A g : IsSum(g, FullCredit(d), T) <=> sum(g)
  BY <1>2 DEF IsSum
<1> HIDE DEF sum
<1>4. sum(CHOOSE g : sum(g))
  BY <1>3, SumExists
<1> QED  BY <1>1, <1>3, <1>4, TotalOfSum

\* that of a split's shares the Total of theirs,
LEMMA ShareTotalTotal ==
    ASSUME NEW d, NEW s, IsFiniteSet(SharesOf(d, s))
    PROVE  ShareTotal(d, s) = Total(ShareAmount(d), SharesOf(d, s))
<1> DEFINE S == SharesOf(d, s)
           sum(g) == g = [r \in SUBSET S |->
                            IF r = {} THEN 0 ELSE d.share[Picked(r)].amount + g[r \ {Picked(r)}]]
<1>1. ShareTotal(d, s) = (CHOOSE g : sum(g))[S]
  BY DEF ShareTotal, MapThenSumSet, MapThenFoldSet, Picked
<1>2. \A r \in SUBSET S : r # {} => ShareAmount(d)[Picked(r)] = d.share[Picked(r)].amount
  BY PickedIsIn DEF ShareAmount, SharesOf
<1> HIDE DEF S
<1>3. \A g : IsSum(g, ShareAmount(d), S) <=> sum(g)
  BY <1>2 DEF IsSum
<1> HIDE DEF sum
<1>4. sum(CHOOSE g : sum(g))
  BY <1>3, SumExists DEF S
<1> QED  BY <1>1, <1>3, <1>4, TotalOfSum DEF S

\* and that of its parents the Total of those still in the table.
LEMMA LinkedTotalTotal ==
    ASSUME NEW d, NEW s, IsDatabase(d)
    PROVE  LinkedTotal(d, s) = Total(FullCredit(d), ExpensesOf(d, s) \cap DOMAIN d.txn)
<1>1. IsFiniteSet(ExpensesOf(d, s) \cap DOMAIN d.txn)
  BY FiniteIds, FS_Subset DEF IsDatabase, IsTable
<1> QED  BY <1>1, TxnTotalTotal DEF LinkedTotal

\* Amounts of transactions are positive.
LEMMA FullCreditPositive ==
    ASSUME NEW d, IsDatabase(d), NEW t \in DOMAIN d.txn
    PROVE  FullCredit(d)[t] = d.txn[t].amount /\ FullCredit(d)[t] \in Nat /\ FullCredit(d)[t] > 0
<1>1. d.txn[t] \in TxnRow
  BY DEF IsDatabase, IsTable
<1> QED  BY <1>1, TablesAssumption DEF FullCredit, TxnRow

\* A split with a parent has a total, so that the trigger does not look away.
LEMMA LinkedTotalPositive ==
    ASSUME NEW d, NEW s, IsDatabase(d), Constraints(d), LinksOf(d, s) # {}
    PROVE  LinkedTotal(d, s) # 0
<1> DEFINE T == ExpensesOf(d, s) \cap DOMAIN d.txn
<1>1. PICK t \in T : TRUE
  BY DEF ExpensesOf, LinksOf, Constraints, ForeignKeys
<1>2. IsFiniteSet(T)
  BY FiniteRows, FS_Subset
<1>3. \A u \in T : FullCredit(d)[u] \in Nat /\ FullCredit(d)[u] > 0
  BY FullCreditPositive
<1>4. LinkedTotal(d, s) = Total(FullCredit(d), T)
  BY LinkedTotalTotal
<1> HIDE DEF T
<1>5. Total(FullCredit(d), T) > 0
  BY <1>1, <1>2, <1>3, TotalPositive
<1> QED  BY <1>4, <1>5

\* An untouched split whose parents are what they were is balanced if it was.
LEMMA UntouchedBalanced ==
    ASSUME NEW d, NEW n, NEW s, IsDatabase(d), Constraints(d), IsDatabase(n), Constraints(n),
           SharesOf(n, s) = SharesOf(d, s), LinksOf(n, s) = LinksOf(d, s),
           \A h \in SharesOf(d, s) : n.share[h].amount = d.share[h].amount,
           \A t \in ExpensesOf(d, s) : t \in DOMAIN n.txn /\ n.txn[t].amount = d.txn[t].amount,
           Balanced(d, s)
    PROVE  Balanced(n, s)
<1>1. ShareTotal(n, s) = ShareTotal(d, s)
  <2>1. IsFiniteSet(SharesOf(d, s))
    BY FiniteRows, FS_Subset DEF SharesOf
  <2>2. \A h \in SharesOf(d, s) : ShareAmount(n)[h] = ShareAmount(d)[h]
    BY DEF ShareAmount, SharesOf
  <2>3. Total(ShareAmount(n), SharesOf(d, s)) = Total(ShareAmount(d), SharesOf(d, s))
    BY <2>1, <2>2, TotalSame
  <2> QED  BY <2>1, <2>3, ShareTotalTotal
<1>2. LinkedTotal(n, s) = LinkedTotal(d, s)
  <2> DEFINE T == ExpensesOf(d, s)
  <2>1. ExpensesOf(n, s) = T /\ T \subseteq DOMAIN d.txn /\ T \subseteq DOMAIN n.txn
    BY DEF ExpensesOf, LinksOf, Constraints, ForeignKeys
  <2>2. IsFiniteSet(T)
    BY <2>1, FiniteRows, FS_Subset
  <2>3. \A t \in T : FullCredit(n)[t] = FullCredit(d)[t]
    BY <2>1 DEF FullCredit
  <2> HIDE DEF T
  <2>4. Total(FullCredit(n), T) = Total(FullCredit(d), T)
    BY <2>2, <2>3, TotalSame
  <2>5. T \cap DOMAIN n.txn = T /\ T \cap DOMAIN d.txn = T
    BY <2>1
  <2>6. LinkedTotal(n, s) = Total(FullCredit(n), T)
    BY <2>1, <2>5, LinkedTotalTotal
  <2>7. LinkedTotal(d, s) = Total(FullCredit(d), T)
    BY <2>5, LinkedTotalTotal DEF T
  <2> QED  BY <2>4, <2>6, <2>7
<1> QED  BY <1>1, <1>2 DEF Balanced
\* A live split has a parent and a share.
Populated(d) ==
    \A s \in DOMAIN d.split : d.split[s] = "live" => LinksOf(d, s) # {} /\ SharesOf(d, s) # {}

\* A split that passes validate_invariant does: parents cost something, and the
\* shares cost the same.
LEMMA ValidSplitPopulated ==
    ASSUME NEW d, NEW s, IsDatabase(d), Constraints(d), ValidSplit(d, s)
    PROVE  LinksOf(d, s) # {} /\ SharesOf(d, s) # {}
<1>1. LinksOf(d, s) # {} /\ ShareTotal(d, s) # 0
  BY LinkedTotalPositive DEF ValidSplit, Balanced
<1>2. SharesOf(d, s) = {} => ShareTotal(d, s) = 0
  BY ShareTotalTotal, TotalEmpty, FS_EmptySet
<1> QED  BY <1>1, <1>2

\* A split whose shares were not written is there before, with the same shares and
\* parents.
Untouched(d, n, touched) ==
    \A s \in DOMAIN n.split \ touched :
        /\ s \in DOMAIN d.split
        /\ n.split[s] = "live" =>
              /\ SharesOf(n, s) = SharesOf(d, s) /\ LinksOf(n, s) = LinksOf(d, s)
              /\ \A h \in SharesOf(d, s) : n.share[h].amount = d.share[h].amount

-----------------------------------------------------------------------------
(***************************************************************************)
(* What a handler that read v writes into the database d it finds.         *)
(***************************************************************************)

\* A derived status is one of the three, whatever the amounts.
LEMMA DeriveStatusType ==
    \A amount, paid, forgiven : DeriveStatus(amount, paid, forgiven) \in Statuses
BY DEF DeriveStatus, Statuses

\* What no share handler changes: the other tables, and the split of each share.
SharesUpdated(d, n) ==
    /\ DOMAIN n = DOMAIN d
    /\ n.txn = d.txn /\ n.payee = d.payee /\ n.split = d.split /\ n.links = d.links
    /\ n.share \in [DOMAIN d.share -> ShareRow]
    /\ \A g \in DOMAIN d.share : n.share[g].split = d.share[g].split

\* Saving one share leaves its split, and every other share, as they were,
\* whatever was read of it.
LEMMA UpdateShareFacts ==
    ASSUME NEW v, NEW d, NEW h, NEW new, IsDatabase(d),
           new.payee \in PayeeRef, new.status \in Statuses,
           ColumnDomains(UpdateShare(v, d, h, new))
    PROVE  /\ SharesUpdated(d, UpdateShare(v, d, h, new))
           /\ UpdateShare(v, d, h, new).paid = d.paid
<1> DEFINE n == UpdateShare(v, d, h, new)
           row == MergeShare(v.share[h], new, d.share[h])
<1>1. /\ DOMAIN n = DOMAIN d
      /\ n.txn = d.txn /\ n.payee = d.payee /\ n.split = d.split /\ n.links = d.links
      /\ n.share = [g \in DOMAIN d.share |-> IF g = h THEN row ELSE d.share[g]]
      /\ n.paid = d.paid
  BY DEF UpdateShare, IsDatabase
<1>2. \A g \in DOMAIN d.share : d.share[g] \in ShareRow
  BY DEF IsDatabase, IsTable
<1>3. ASSUME h \in DOMAIN d.share PROVE row \in ShareRow /\ row.split = d.share[h].split
  <2>1. /\ row = [split |-> d.share[h].split, payee |-> row.payee, amount |-> row.amount,
                  forgiven |-> row.forgiven, status |-> row.status]
        /\ row.payee \in PayeeRef /\ row.status \in Statuses
        /\ row.split = d.share[h].split
    BY <1>2, <1>3 DEF MergeShare, Column, ShareRow
  <2>2. row.amount \in Money /\ row.forgiven \in Money
    <3>1. n.share[h] = row /\ h \in DOMAIN n.share
      BY <1>1, <1>3
    <3> QED  BY <3>1 DEF ColumnDomains
  <2>3. d.share[h].split \in SplitIds
    BY <1>2, <1>3 DEF ShareRow
  <2> HIDE DEF row
  <2> QED  BY <2>1, <2>2, <2>3 DEF ShareRow
<1> HIDE DEF n, row
<1>4. SharesUpdated(d, n) /\ n.paid = d.paid
  BY <1>1, <1>2, <1>3 DEF SharesUpdated
<1> QED  BY <1>4 DEF n

\* It writes the columns the request changed, of that share.
LEMMA UpdateShareColumns ==
    ASSUME NEW v, NEW d, NEW h, NEW new, IsDatabase(d), NEW g \in DOMAIN d.share
    PROVE  LET n == UpdateShare(v, d, h, new)
           IN  /\ g # h => n.share[g] = d.share[g]
               /\ new.payee = v.share[h].payee => n.share[g].payee = d.share[g].payee
               /\ new.amount = v.share[h].amount => n.share[g].amount = d.share[g].amount
               /\ new.forgiven = v.share[h].forgiven => n.share[g].forgiven = d.share[g].forgiven
               /\ new.status = v.share[h].status => n.share[g].status = d.share[g].status
<1>1. UpdateShare(v, d, h, new).share[g]
      = IF g = h THEN MergeShare(v.share[h], new, d.share[h]) ELSE d.share[g]
  BY DEF UpdateShare, IsDatabase
<1> QED  BY <1>1 DEF MergeShare, Column

\* Chosen share ids are new, and differ from row to row.
LEMMA NewShareIdsFacts ==
    ASSUME NEW taken, NEW rows, HasShareIds(taken, rows)
    PROVE  /\ NewShareIds(taken, rows) \in [DOMAIN rows -> ShareIds \ taken]
           /\ IsInjective(NewShareIds(taken, rows))
BY DEF HasShareIds, NewShareIds

NewPaid(rows, ids, credit) ==
    UNION {{[share |-> ids[k], txn |-> t, amount |-> credit[t]] : t \in rows[k].incomes} :
              k \in DOMAIN rows}

\* n is d with split s as the rows say.
Inserted(d, n, s, exps, rows, ids, credit) ==
    /\ n.txn = d.txn
    /\ DOMAIN n.split = DOMAIN d.split \cup {s}
    /\ \A z \in DOMAIN d.split : n.split[z] = d.split[z]
    /\ n.links = d.links \cup {[split |-> s, txn |-> t] : t \in exps}
    /\ DOMAIN n.share = DOMAIN d.share \cup {ids[k] : k \in DOMAIN rows}
    /\ \A h \in DOMAIN d.share : n.share[h] = d.share[h]
    /\ \A k \in DOMAIN rows :
          /\ ids[k] \in ShareIds \ DOMAIN d.share
          /\ n.share[ids[k]].split = s
          /\ n.share[ids[k]].payee = rows[k].payee
          /\ n.share[ids[k]].amount = rows[k].amount
          /\ n.share[ids[k]].forgiven = rows[k].forgiven
          /\ n.share[ids[k]].status = rows[k].status
    /\ \A k, l \in DOMAIN rows : ids[k] = ids[l] => k = l
    /\ n.paid = d.paid \cup NewPaid(rows, ids, credit)

\* InsertRows writes the rows of a split into a database where their ids are new.
LEMMA InsertRowsFacts ==
    ASSUME NEW d, NEW s, NEW exps, NEW rows, NEW taken, NEW ids, NEW credit, IsDatabase(d),
           DOMAIN d.share \subseteq taken,
           ids \in [DOMAIN rows -> ShareIds \ taken], IsInjective(ids)
    PROVE  Inserted(d, InsertRows(d, s, exps, rows, ids, credit), s, exps, rows, ids, credit)
<1> DEFINE n == InsertRows(d, s, exps, rows, ids, credit)
           RowOf(h) == rows[CHOOSE k \in DOMAIN rows : ids[k] = h]
           NewRow(h) == [split |-> s, payee |-> RowOf(h).payee, amount |-> RowOf(h).amount,
                         forgiven |-> RowOf(h).forgiven, status |-> RowOf(h).status]
<1>1. /\ n.txn = d.txn
      /\ n.split = [z \in DOMAIN d.split \cup {s} |->
                       IF z \in DOMAIN d.split THEN d.split[z] ELSE "live"]
      /\ n.links = d.links \cup {[split |-> s, txn |-> t] : t \in exps}
      /\ n.share = [h \in DOMAIN d.share \cup {ids[k] : k \in DOMAIN rows} |->
                       IF h \in DOMAIN d.share THEN d.share[h] ELSE NewRow(h)]
      /\ n.paid = d.paid \cup NewPaid(rows, ids, credit)
  BY DEF InsertRows, IsDatabase, NewPaid
<1> HIDE DEF n
<1>2. \A k \in DOMAIN rows : ids[k] \in ShareIds \ DOMAIN d.share
  OBVIOUS
<1>3. \A k, l \in DOMAIN rows : ids[k] = ids[l] => k = l
  BY DEF IsInjective
<1>4. \A k \in DOMAIN rows : RowOf(ids[k]) = rows[k]
  BY <1>3
<1> HIDE DEF RowOf
<1>5. \A k \in DOMAIN rows :
          /\ n.share[ids[k]].split = s
          /\ n.share[ids[k]].payee = rows[k].payee
          /\ n.share[ids[k]].amount = rows[k].amount
          /\ n.share[ids[k]].forgiven = rows[k].forgiven
          /\ n.share[ids[k]].status = rows[k].status
  BY <1>1, <1>2, <1>4
<1> QED  BY <1>1, <1>2, <1>3, <1>5 DEF Inserted, n

\* Inserted rows have the types of their columns, and what the database checks.
LEMMA InsertRowsType ==
    ASSUME NEW d, NEW s \in SplitIds, NEW exps \in SUBSET TxnIds,
           NEW rows, NEW taken, NEW ids, NEW credit,
           IsDatabase(d), DOMAIN d.share \subseteq taken,
           ids \in [DOMAIN rows -> ShareIds \ taken],
           \A k \in DOMAIN rows : rows[k].payee \in PayeeRef /\ rows[k].status \in Statuses,
           Constraints(InsertRows(d, s, exps, rows, ids, credit))
    PROVE  IsDatabase(InsertRows(d, s, exps, rows, ids, credit))
<1> DEFINE n == InsertRows(d, s, exps, rows, ids, credit)
           RowOf(h) == rows[CHOOSE k \in DOMAIN rows : ids[k] = h]
           NewIds == {ids[k] : k \in DOMAIN rows}
           NewRow(h) == [split |-> s, payee |-> RowOf(h).payee, amount |-> RowOf(h).amount,
                         forgiven |-> RowOf(h).forgiven, status |-> RowOf(h).status]
<1>1. /\ DOMAIN n = DOMAIN d
      /\ n.txn = d.txn /\ n.payee = d.payee
      /\ n.split = [z \in DOMAIN d.split \cup {s} |->
                       IF z \in DOMAIN d.split THEN d.split[z] ELSE "live"]
      /\ n.links = d.links \cup {[split |-> s, txn |-> t] : t \in exps}
      /\ n.share = [h \in DOMAIN d.share \cup NewIds |->
                       IF h \in DOMAIN d.share THEN d.share[h] ELSE NewRow(h)]
      /\ n.paid = d.paid \cup NewPaid(rows, ids, credit)
  BY DEF InsertRows, IsDatabase, NewPaid
<1>2. ColumnDomains(n) /\ ForeignKeys(n)
  BY DEF Constraints
<1> HIDE DEF n
<1>3. IsTable(n.split, SplitIds, {"live", "deleted"}) /\ n.links \subseteq Link
  BY <1>1 DEF IsDatabase, IsTable, Link
<1>4. \A h \in NewIds : h \in ShareIds \ DOMAIN d.share /\ n.share[h] = NewRow(h)
  BY <1>1
<1>5. \A h \in NewIds : n.share[h] \in ShareRow
  <2> TAKE h \in NewIds
  <2>1. RowOf(h).payee \in PayeeRef /\ RowOf(h).status \in Statuses
    <3>1. (CHOOSE j \in DOMAIN rows : ids[j] = h) \in DOMAIN rows
      OBVIOUS
    <3> QED  BY <3>1
  <2>2. n.share[h].amount \in Money /\ n.share[h].forgiven \in Money
    BY <1>1, <1>2 DEF ColumnDomains
  <2>3. n.share[h] = NewRow(h)
    BY <1>4
  <2>4. RowOf(h).amount \in Money /\ RowOf(h).forgiven \in Money
    BY <2>2, <2>3
  <2> HIDE DEF RowOf
  <2> QED  BY <2>1, <2>3, <2>4 DEF ShareRow
<1>6. IsTable(n.share, ShareIds, ShareRow)
  <2>1. DOMAIN n.share = DOMAIN d.share \cup NewIds
    BY <1>1
  <2>2. \A h \in DOMAIN d.share : h \in ShareIds /\ n.share[h] \in ShareRow
    BY <1>1 DEF IsDatabase, IsTable
  <2>3. n.share = [h \in DOMAIN n.share |-> n.share[h]]
    BY <1>1
  <2> HIDE DEF NewIds
  <2> QED  BY <2>1, <2>2, <2>3, <1>4, <1>5 DEF IsTable
<1>7. n.paid \subseteq Settlement
  <2>1. ASSUME NEW x \in NewPaid(rows, ids, credit) PROVE x \in Settlement
    <3>1. PICK k \in DOMAIN rows :
             x \in {[share |-> ids[k], txn |-> t, amount |-> credit[t]] : t \in rows[k].incomes}
      BY DEF NewPaid
    <3>2. PICK t : x = [share |-> ids[k], txn |-> t, amount |-> credit[t]]
      BY <3>1
    <3>3. x.amount \in Money /\ x.txn \in DOMAIN d.txn
      BY <1>1, <1>2 DEF ColumnDomains, ForeignKeys
    <3>4. ids[k] \in ShareIds /\ t \in TxnIds
      BY <3>2, <3>3 DEF IsDatabase, IsTable
    <3> QED  BY <3>2, <3>3, <3>4 DEF Settlement
  <2> QED  BY <2>1, <1>1 DEF IsDatabase
<1>8. IsDatabase(n)
  BY <1>1, <1>3, <1>6, <1>7 DEF IsDatabase
<1> QED  BY <1>8 DEF n

\* The rows of a body have the types of their columns.
LEMMA BodyRowsType ==
    ASSUME NEW body, NEW credit, ValidBody(body)
    PROVE  /\ DOMAIN BodyRows(body, credit) = DOMAIN body
           /\ \A p \in DOMAIN body : /\ BodyRows(body, credit)[p].payee = p
                                     /\ BodyRows(body, credit)[p].payee \in PayeeRef
                                     /\ BodyRows(body, credit)[p].status \in Statuses
                                     /\ BodyRows(body, credit)[p].incomes = body[p].incomes
BY DeriveStatusType DEF BodyRows, ValidBody

\* A new split id is one no split has.
LEMMA NewSplitIdFacts ==
    ASSUME NEW d, HasSplitId(d)
    PROVE  NewSplitId(d) \in SplitIds /\ NewSplitId(d) \notin DOMAIN d.split
BY DEF HasSplitId, NewSplitId

\* e is d without the rows of split s.
Emptied(d, e, s) ==
    /\ e.split = d.split /\ e.txn = d.txn /\ e.paid \subseteq d.paid
    /\ \A l : l.split # s => (l \in e.links <=> l \in d.links)
    /\ \A h : h \in DOMAIN e.share <=> h \in DOMAIN d.share /\ d.share[h].split # s
    /\ \A h \in DOMAIN e.share : e.share[h] = d.share[h] /\ SettlementsOf(e, h) = SettlementsOf(d, h)

\* What an update first takes away leaves the other splits as they are.
LEMMA ClearSplitFacts ==
    ASSUME NEW d, NEW s, IsDatabase(d)
    PROVE  LET e == ClearSplit(d, s)
           IN  /\ IsDatabase(e) /\ Emptied(d, e, s)
               /\ Constraints(d) => Constraints(e)
               /\ e.links = d.links \ LinksOf(d, s)
               /\ e.paid = {x \in d.paid : x.share \notin SharesOf(d, s)}
<1> DEFINE e == ClearSplit(d, s)
<1>1. /\ DOMAIN e = DOMAIN d
      /\ e.txn = d.txn /\ e.payee = d.payee /\ e.split = d.split
      /\ e.links = d.links \ LinksOf(d, s)
      /\ e.share = [h \in DOMAIN d.share \ SharesOf(d, s) |-> d.share[h]]
      /\ e.paid = {x \in d.paid : x.share \notin SharesOf(d, s)}
  BY DEF ClearSplit, IsDatabase
<1> HIDE DEF e
<1>2. IsDatabase(e)
  <2>1. IsTable(e.share, ShareIds, ShareRow)
    BY <1>1 DEF IsDatabase, IsTable
  <2> QED  BY <1>1, <2>1 DEF IsDatabase
<1>3. ASSUME Constraints(d) PROVE Constraints(e)
  <2> USE <1>3 DEF Constraints
  <2>1. ForeignKeys(e)
    BY <1>1 DEF ForeignKeys
  <2>2. OneParentPerExpense(e)
    BY <1>1 DEF OneParentPerExpense
  <2>3. OneSharePerPayee(e)
    BY <1>1 DEF OneSharePerPayee
  <2>4. OneLinkPerShareAndIncome(e) /\ ColumnDomains(e)
    BY <1>1 DEF OneLinkPerShareAndIncome, ColumnDomains
  <2> QED  BY <2>1, <2>2, <2>3, <2>4
<1>4. \A h : h \in DOMAIN e.share <=> h \in DOMAIN d.share /\ d.share[h].split # s
  BY <1>1 DEF SharesOf
<1>5. \A h \in DOMAIN e.share : e.share[h] = d.share[h] /\ SettlementsOf(e, h) = SettlementsOf(d, h)
  BY <1>1 DEF SettlementsOf
<1>6. Emptied(d, e, s)
  BY <1>1, <1>4, <1>5 DEF Emptied, LinksOf
<1> QED  BY <1>1, <1>2, <1>3, <1>6 DEF e

\* Rows inserted after emptying a split leave the others as they are.
LEMMA OthersStay ==
    ASSUME NEW d, NEW e, NEW n, NEW s, NEW exps, NEW rows, NEW ids, NEW credit,
           Emptied(d, e, s), Inserted(e, n, s, exps, rows, ids, credit),
           NEW z \in DOMAIN n.split \ {s}
    PROVE  /\ z \in DOMAIN d.split /\ n.split[z] = d.split[z]
           /\ SharesOf(n, z) = SharesOf(d, z) /\ LinksOf(n, z) = LinksOf(d, z)
           /\ \A h \in SharesOf(d, z) : n.share[h] = d.share[h]
<1>1. z \in DOMAIN d.split /\ n.split[z] = d.split[z]
  BY DEF Inserted, Emptied
<1>2. SharesOf(n, z) = SharesOf(d, z)
  BY DEF SharesOf, Inserted, Emptied
<1>3. LinksOf(n, z) = LinksOf(d, z)
  BY DEF LinksOf, Inserted, Emptied
<1>4. \A h \in SharesOf(d, z) : n.share[h] = d.share[h]
  BY DEF SharesOf, Inserted, Emptied
<1> QED  BY <1>1, <1>2, <1>3, <1>4

\* Deleting a split takes its rows and leaves the others.
LEMMA DeleteSplitRows ==
    ASSUME NEW v, NEW d, NEW s, IsDatabase(d)
    PROVE  LET n == DeleteSplitWrite(v, d, s).db
           IN  /\ IsDatabase(n)
               /\ n.txn = d.txn /\ n.payee = d.payee /\ n.share = d.share
               /\ n.links = d.links \ LinksOf(d, s)
               /\ n.paid = {x \in d.paid : x.share \notin SharesOf(d, s)}
               /\ n.split = [z \in DOMAIN d.split |-> IF z = s THEN "deleted" ELSE d.split[z]]
<1> DEFINE n == DeleteSplitWrite(v, d, s).db
<1>1. /\ DOMAIN n = DOMAIN d
      /\ n.txn = d.txn /\ n.payee = d.payee /\ n.share = d.share
      /\ n.links = d.links \ LinksOf(d, s)
      /\ n.paid = {x \in d.paid : x.share \notin SharesOf(d, s)}
      /\ n.split = [z \in DOMAIN d.split |-> IF z = s THEN "deleted" ELSE d.split[z]]
  BY DEF DeleteSplitWrite, Result, IsDatabase
<1> HIDE DEF n
<1>2. IsDatabase(n)
  BY <1>1 DEF IsDatabase, IsTable
<1> QED  BY <1>1, <1>2 DEF n

\* Setting the retention state of transactions leaves well-typed rows.
LEMMA SetTxnStateType ==
    ASSUME NEW d, NEW T, NEW state \in Retention, IsTable(d.txn, TxnIds, TxnRow)
    PROVE  IsTable(SetTxnState(d, T, state), TxnIds, TxnRow)
<1>1. \A t \in DOMAIN d.txn : d.txn[t] \in TxnRow /\ [d.txn[t] EXCEPT !.state = state] \in TxnRow
  BY DEF IsTable, TxnRow
<1> QED  BY <1>1 DEF SetTxnState, IsTable

\* Inserting a transaction leaves well-typed rows.
LEMMA InsertTxnType ==
    ASSUME NEW d, NEW t \in TxnIds, NEW type \in TxnTypes, NEW amount \in 1..MaxMoney,
           IsTable(d.txn, TxnIds, TxnRow)
    PROVE  IsTable(InsertTxn(d, t, type, amount), TxnIds, TxnRow)
<1>1. [type |-> type, amount |-> amount, state |-> "live"] \in TxnRow
  BY DEF TxnRow, Retention
<1> QED  BY <1>1 DEF InsertTxn, IsTable

\* Rewriting the transactions leaves the other tables.
LEMMA TxnTableType ==
    ASSUME NEW d, NEW table, IsDatabase(d), IsTable(table, TxnIds, TxnRow)
    PROVE  LET n == [d EXCEPT !.txn = table]
           IN  /\ IsDatabase(n)
               /\ n.txn = table /\ n.payee = d.payee /\ n.split = d.split
               /\ n.share = d.share /\ n.links = d.links /\ n.paid = d.paid
BY DEF IsDatabase

\* A patched transaction has the types of its columns.
LEMMA PatchTxnType ==
    ASSUME NEW v, NEW d, NEW t, NEW type \in TxnTypes, NEW amount \in 1..MaxMoney, IsDatabase(d)
    PROVE  \E table : /\ IsTable(table, TxnIds, TxnRow)
                      /\ PatchTxnWrite(v, d, t, type, amount).db = [d EXCEPT !.txn = table]
<1> DEFINE Patched(row) == [row EXCEPT !.type = Column(v.txn[t].type, type, @),
                                       !.amount = Column(v.txn[t].amount, amount, @)]
           table == [z \in DOMAIN d.txn |-> IF z = t THEN Patched(d.txn[z]) ELSE d.txn[z]]
<1>1. DOMAIN d.txn \subseteq TxnIds /\ \A z \in DOMAIN d.txn : d.txn[z] \in TxnRow
  BY DEF IsDatabase, IsTable
<1>2. \A z \in DOMAIN d.txn : Patched(d.txn[z]) \in TxnRow
  <2> TAKE z \in DOMAIN d.txn
  <2>1. Column(v.txn[t].type, type, d.txn[z].type) \in TxnTypes
    BY <1>1 DEF Column, TxnRow
  <2>2. Column(v.txn[t].amount, amount, d.txn[z].amount) \in 1..MaxMoney
    BY <1>1 DEF Column, TxnRow
  <2> QED  BY <1>1, <2>1, <2>2 DEF TxnRow
<1>3. IsTable(table, TxnIds, TxnRow)
  <2> HIDE DEF Patched
  <2> QED  BY <1>1, <1>2 DEF IsTable
<1>4. PatchTxnWrite(v, d, t, type, amount).db = [d EXCEPT !.txn = table]
  BY DEF PatchTxnWrite, Result
<1> HIDE DEF table
<1> QED  BY <1>3, <1>4

\* The purge removes rows, and payees from shares; it adds nothing.
LEMMA PurgeRows ==
    ASSUME NEW d, IsDatabase(d)
    PROVE  LET n == PurgeWrite(d).db
           IN  /\ IsDatabase(n)
               /\ n.split = d.split /\ n.links = d.links
               /\ DOMAIN n.txn = DOMAIN d.txn \ ExpiredTxns(d)
               /\ \A t \in DOMAIN n.txn : n.txn[t] = d.txn[t]
               /\ n.paid = {x \in d.paid : x.txn \notin ExpiredTxns(d)}
               /\ DOMAIN n.share = DOMAIN d.share
               /\ \A h \in DOMAIN d.share :
                     /\ n.share[h].split = d.share[h].split
                     /\ n.share[h].amount = d.share[h].amount
                     /\ n.share[h].forgiven = d.share[h].forgiven
                     /\ n.share[h].status = d.share[h].status
<1> DEFINE n == PurgeWrite(d).db
           payees == ExpiredPayees(d)
           hit == {h \in DOMAIN d.share : d.share[h].payee \in payees}
<1>1. /\ DOMAIN n = DOMAIN d
      /\ n.split = d.split /\ n.links = d.links
      /\ n.txn = [t \in DOMAIN d.txn \ ExpiredTxns(d) |-> d.txn[t]]
      /\ n.payee = [p \in DOMAIN d.payee \ payees |-> d.payee[p]]
      /\ n.paid = {x \in d.paid : x.txn \notin ExpiredTxns(d)}
      /\ n.share = [h \in DOMAIN d.share |->
                       IF h \in hit THEN [d.share[h] EXCEPT !.payee = NoPayee] ELSE d.share[h]]
  BY DEF PurgeWrite, Result, IsDatabase
<1> HIDE DEF n
<1>2. IsTable(n.txn, TxnIds, TxnRow) /\ IsTable(n.payee, Payees, Retention)
  BY <1>1 DEF IsDatabase, IsTable
<1>3. \A h \in DOMAIN d.share :
         LET row == [d.share[h] EXCEPT !.payee = NoPayee]
         IN  /\ d.share[h] \in ShareRow /\ row \in ShareRow
             /\ row.split = d.share[h].split /\ row.amount = d.share[h].amount
             /\ row.forgiven = d.share[h].forgiven /\ row.status = d.share[h].status
  BY DEF IsDatabase, IsTable, ShareRow, PayeeRef
<1>4. /\ IsTable(n.share, ShareIds, ShareRow)
      /\ DOMAIN n.share = DOMAIN d.share
      /\ \A h \in DOMAIN d.share :
            /\ n.share[h].split = d.share[h].split /\ n.share[h].amount = d.share[h].amount
            /\ n.share[h].forgiven = d.share[h].forgiven /\ n.share[h].status = d.share[h].status
  <2> HIDE DEF hit
  <2> QED  BY <1>1, <1>3 DEF IsDatabase, IsTable
<1>5. IsDatabase(n)
  BY <1>1, <1>2, <1>4 DEF IsDatabase
<1> QED  BY <1>1, <1>4, <1>5 DEF n
=============================================================================
