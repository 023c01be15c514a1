----------------------------- MODULE PlanningProofs -----------------------------
(***************************************************************************)
(* Proofs about what is added up when orders are planned: about            *)
(* SalesHistory, for any branches, histories and calendars with months     *)
(* like ours, and about Sourcing, for any finite set of branches and any   *)
(* velocities, lead times and stock.                                       *)
(* Sums over finite sets come first; then the greedy allocation, followed  *)
(* source by source, and the state machine of Sourcing, whose argument is  *)
(* local to one branch: a branch that is short has no excess, and what is  *)
(* taken from a branch was read as its excess; then the calendar, the      *)
(* rows an import leaves, and what velocity and classification make of     *)
(* them.                                                                   *)
(***************************************************************************)
EXTENDS SalesHistory, Sourcing, FiniteSetTheorems, SequenceTheorems, WellFoundedInduction, TLAPS

--------------------------------------------------------------------------------
(* Sums over finite sets. *)

(* A family of subsets of a finite set has a smallest member. *)
LEMMA SmallestSet ==
  ASSUME NEW S, IsFiniteSet(S), NEW C \in SUBSET SUBSET S, C # {}
  PROVE  \E T \in C : \A U \in C : U \subseteq T => U = T
<1>1. C \subseteq FiniteSubsetsOf(S)
  BY FS_FiniteSubsetsOfFinite
<1>2. IsWellFoundedOn(StrictSubsetOrdering(S), FiniteSubsetsOf(S))
  BY FS_StrictSubsetOrderingWellFounded
<1>3. PICK T \in C : \A U \in C : ~ (<<U, T>> \in StrictSubsetOrdering(S))
  <2> DEFINE R == StrictSubsetOrdering(S)
  <2>1. IsWellFoundedOn(R, FiniteSubsetsOf(S))
    BY <1>2
  <2> HIDE DEF R
  <2>2. \E T \in C : \A U \in C : ~ (<<U, T>> \in R)
    BY <1>1, <2>1, WFMin
  <2> QED BY <2>2 DEF R
<1>4. \A U \in C : U \subseteq T /\ U # T => <<U, T>> \in StrictSubsetOrdering(S)
  BY DEF StrictSubsetOrdering
<1>5. \A U \in C : U \subseteq T => U = T
  BY <1>3, <1>4
<1> QED BY <1>5

(* The element the fold of MapThenSumSet takes out first. *)
Pick(s) == CHOOSE x \in s : TRUE

LEMMA PickIn == ASSUME NEW s, s # {} PROVE Pick(s) \in s
BY DEF Pick

(* F sums f over every subset of S. *)
Sums(f, S, F) ==
  F = [s \in SUBSET S |-> IF s = {} THEN 0 ELSE f[Pick(s)] + F[s \ {Pick(s)}]]

LEMMA SumUnfold ==
  ASSUME NEW S, NEW f
  PROVE  SumOver(S, f) = (CHOOSE F : Sums(f, S, F))[S]
BY DEF SumOver, MapThenSumSet, MapThenFoldSet, Sums, Pick

(* Two such functions agree wherever both are defined. *)
LEMMA SumsAgree ==
  ASSUME NEW f, NEW S, IsFiniteSet(S), NEW T, T \subseteq S, NEW F, NEW G, Sums(f, S, F), Sums(f, T, G)
  PROVE  F[T] = G[T]
<1> DEFINE C == {s \in SUBSET T : F[s] # G[s]}
<1>0. C \in SUBSET SUBSET T
  OBVIOUS
<1>1. IsFiniteSet(T)
  BY FS_Subset
<1>2. SUFFICES ASSUME C # {} PROVE FALSE
  OBVIOUS
<1>3. PICK s \in C : \A U \in C : U \subseteq s => U = s
  <2> HIDE DEF C
  <2> QED BY <1>0, <1>1, <1>2, SmallestSet
<1>4. F[s] = IF s = {} THEN 0 ELSE f[Pick(s)] + F[s \ {Pick(s)}]
  BY <1>3 DEF Sums
<1>5. G[s] = IF s = {} THEN 0 ELSE f[Pick(s)] + G[s \ {Pick(s)}]
  BY <1>3 DEF Sums
<1>6. s # {}
  BY <1>3, <1>4, <1>5
<1>7. s \ {Pick(s)} \notin C
  BY <1>3, <1>6, PickIn
<1> QED BY <1>3, <1>4, <1>5, <1>7

LEMMA SumsExist ==
  ASSUME NEW f, NEW S, IsFiniteSet(S)
  PROVE  \E F : Sums(f, S, F)
<1> DEFINE Has(T) == \E F : Sums(f, T, F)
           C == {T \in SUBSET S : ~Has(T)}
           v(T) == (CHOOSE F : Sums(f, T, F))[T]
<1>1. SUFFICES ASSUME C # {} PROVE FALSE
  OBVIOUS
<1>2. PICK T \in C : \A U \in C : U \subseteq T => U = T
  <2>1. C \in SUBSET SUBSET S
    OBVIOUS
  <2> HIDE DEF C
  <2> QED BY <1>1, <2>1, SmallestSet
<1>3. ASSUME NEW s \in SUBSET T, s # T PROVE Has(s)
  BY <1>2, <1>3
<1>4. ASSUME NEW s \in SUBSET T, s # T
      PROVE  v(s) = IF s = {} THEN 0 ELSE f[Pick(s)] + v(s \ {Pick(s)})
  <2>1. PICK F : Sums(f, s, F) /\ v(s) = F[s]
    BY <1>3, <1>4
  <2>2. F[s] = IF s = {} THEN 0 ELSE f[Pick(s)] + F[s \ {Pick(s)}]
    BY <2>1 DEF Sums
  <2>3. CASE s # {}
    <3> DEFINE t == s \ {Pick(s)}
    <3>1. t \in SUBSET T /\ t # T /\ t \subseteq s /\ IsFiniteSet(s)
      BY <2>3, <1>4, PickIn, <1>2, FS_Subset
    <3>2. PICK G : Sums(f, t, G) /\ v(t) = G[t]
      BY <1>3, <3>1
    <3>3. F[t] = G[t]
      BY <2>1, <3>1, <3>2, SumsAgree
    <3> QED BY <2>1, <2>2, <2>3, <3>2, <3>3
  <2> QED BY <2>1, <2>2, <2>3
<1> DEFINE F == [s \in SUBSET T |-> IF s = {} THEN 0 ELSE f[Pick(s)] + v(s \ {Pick(s)})]
<1>5. ASSUME NEW s \in SUBSET T, s # {}
      PROVE  F[s \ {Pick(s)}] = v(s \ {Pick(s)})
  <2>1. s \ {Pick(s)} \in SUBSET T /\ s \ {Pick(s)} # T
    BY <1>5, PickIn
  <2> QED BY <2>1, <1>4
<1>6. F = [s \in SUBSET T |-> IF s = {} THEN 0 ELSE f[Pick(s)] + F[s \ {Pick(s)}]]
  <2> HIDE DEF v
  <2> QED BY <1>5
<1>7. Has(T)
  BY <1>6 DEF Sums
<1> QED BY <1>2, <1>7

(* A sum over a finite set, by the definition of the fold. *)
LEMMA SumEmpty == ASSUME NEW f PROVE SumOver({}, f) = 0
<1>1. PICK F : Sums(f, {}, F) /\ SumOver({}, f) = F[{}]
  BY SumsExist, SumUnfold, FS_EmptySet
<1> QED BY <1>1 DEF Sums

LEMMA SumPicked ==
  ASSUME NEW f, NEW S, IsFiniteSet(S), S # {}
  PROVE  SumOver(S, f) = f[Pick(S)] + SumOver(S \ {Pick(S)}, f)
<1> DEFINE T == S \ {Pick(S)}
<1>1. IsFiniteSet(T) /\ T \subseteq S
  BY FS_Subset
<1>2. PICK F : Sums(f, S, F) /\ SumOver(S, f) = F[S]
  BY SumsExist, SumUnfold
<1>3. PICK G : Sums(f, T, G) /\ SumOver(T, f) = G[T]
  BY <1>1, SumsExist, SumUnfold
<1>4. F[T] = G[T]
  BY <1>1, <1>2, <1>3, SumsAgree
<1>5. F[S] = f[Pick(S)] + F[S \ {Pick(S)}]
  BY <1>2 DEF Sums
<1> QED BY <1>2, <1>3, <1>4, <1>5

LEMMA SumInt ==
  ASSUME NEW S, IsFiniteSet(S), NEW f, \A x \in S : f[x] \in Int
  PROVE  SumOver(S, f) \in Int
<1> DEFINE C == {T \in SUBSET S : SumOver(T, f) \notin Int}
<1>1. SUFFICES ASSUME C # {} PROVE FALSE
  OBVIOUS
<1>2. PICK T \in C : \A U \in C : U \subseteq T => U = T
  <2>1. C \in SUBSET SUBSET S
    OBVIOUS
  <2> HIDE DEF C
  <2> QED BY <1>1, <2>1, SmallestSet
<1>3. T # {} /\ IsFiniteSet(T) /\ T \subseteq S
  <2>1. SumOver({}, f) = 0
    BY SumEmpty
  <2>2. SumOver(T, f) \notin Int
    BY <1>2
  <2>3. IsFiniteSet(T)
    BY <1>2, FS_Subset
  <2>4. T # {}
    BY <2>1, <2>2
  <2> QED BY <1>2, <2>3, <2>4
<1>4. T \ {Pick(T)} \notin C /\ Pick(T) \in S
  BY <1>2, <1>3, PickIn
<1>5. SumOver(T \ {Pick(T)}, f) \in Int /\ f[Pick(T)] \in Int
  BY <1>3, <1>4
<1>6. SumOver(T, f) = f[Pick(T)] + SumOver(T \ {Pick(T)}, f)
  BY <1>3, SumPicked
<1> QED BY <1>2, <1>5, <1>6

LEMMA SumNat ==
  ASSUME NEW S, IsFiniteSet(S), NEW f, \A x \in S : f[x] \in Nat
  PROVE  SumOver(S, f) \in Nat
<1> DEFINE C == {T \in SUBSET S : SumOver(T, f) \notin Nat}
<1>1. SUFFICES ASSUME C # {} PROVE FALSE
  OBVIOUS
<1>2. PICK T \in C : \A U \in C : U \subseteq T => U = T
  <2>1. C \in SUBSET SUBSET S
    OBVIOUS
  <2> HIDE DEF C
  <2> QED BY <1>1, <2>1, SmallestSet
<1>3. T # {} /\ IsFiniteSet(T) /\ T \subseteq S
  <2>1. SumOver({}, f) = 0
    BY SumEmpty
  <2>2. SumOver(T, f) \notin Nat
    BY <1>2
  <2>3. IsFiniteSet(T)
    BY <1>2, FS_Subset
  <2>4. T # {}
    BY <2>1, <2>2
  <2> QED BY <1>2, <2>3, <2>4
<1>4. T \ {Pick(T)} \notin C /\ Pick(T) \in S
  BY <1>2, <1>3, PickIn
<1>5. SumOver(T \ {Pick(T)}, f) \in Nat /\ f[Pick(T)] \in Nat
  BY <1>3, <1>4
<1>6. SumOver(T, f) = f[Pick(T)] + SumOver(T \ {Pick(T)}, f)
  BY <1>3, SumPicked
<1> QED BY <1>2, <1>5, <1>6

(* Any element may be taken out first. *)
LEMMA SumElement ==
  ASSUME NEW S, IsFiniteSet(S), NEW f, \A x \in S : f[x] \in Int, NEW e \in S
  PROVE  SumOver(S, f) = f[e] + SumOver(S \ {e}, f)
<1> DEFINE Holds(T) == \A x \in T : SumOver(T, f) = f[x] + SumOver(T \ {x}, f)
           C == {T \in SUBSET S : ~Holds(T)}
<1>1. SUFFICES ASSUME C # {} PROVE FALSE
  OBVIOUS
<1>2. PICK T \in C : \A U \in C : U \subseteq T => U = T
  <2>1. C \in SUBSET SUBSET S
    OBVIOUS
  <2> HIDE DEF C
  <2> QED BY <1>1, <2>1, SmallestSet
<1>3. PICK x \in T : SumOver(T, f) # f[x] + SumOver(T \ {x}, f)
  BY <1>2
<1> DEFINE p == Pick(T)
<1>4. p \in T /\ IsFiniteSet(T) /\ T # {} /\ T \subseteq S
  BY <1>3, PickIn, <1>2, FS_Subset
<1> HIDE DEF p
<1>5. SumOver(T, f) = f[p] + SumOver(T \ {p}, f)
  BY <1>4, SumPicked DEF p
<1>6. x # p
  BY <1>3, <1>5
<1> DEFINE rest == (T \ {x}) \ {p}
<1>7. /\ SumOver(T \ {p}, f) = f[x] + SumOver(rest, f)
      /\ SumOver(T \ {x}, f) = f[p] + SumOver(rest, f)
  <2>1. T \ {p} \notin C /\ T \ {x} \notin C
    BY <1>2, <1>3, <1>4
  <2>2. Holds(T \ {p}) /\ Holds(T \ {x})
    BY <2>1, <1>4
  <2>3. (T \ {p}) \ {x} = rest
    OBVIOUS
  <2> QED BY <2>2, <2>3, <1>3, <1>4, <1>6
<1>9. SumOver(rest, f) \in Int /\ f[x] \in Int /\ f[p] \in Int
  <2>1. IsFiniteSet(rest) /\ rest \subseteq S
    BY <1>4, FS_Subset
  <2> QED BY <2>1, <1>3, <1>4, SumInt
<1> HIDE DEF C, Holds, rest
<1> QED BY <1>3, <1>5, <1>7, <1>9

LEMMA SumAdd ==
  ASSUME NEW S, IsFiniteSet(S), NEW e, e \notin S, NEW f, \A x \in S \cup {e} : f[x] \in Int
  PROVE  SumOver(S \cup {e}, f) = f[e] + SumOver(S, f)
<1>1. IsFiniteSet(S \cup {e})
  BY FS_AddElement
<1>2. (S \cup {e}) \ {e} = S
  OBVIOUS
<1> QED BY <1>1, <1>2, SumElement

(* The sum over a part is no more than the sum of the whole, and as much if *)
(* the rest is zero.                                                        *)
LEMMA SumPart ==
  ASSUME NEW S, IsFiniteSet(S), NEW f, \A x \in S : f[x] \in Nat, NEW P \in SUBSET S
  PROVE  /\ SumOver(P, f) <= SumOver(S, f)
         /\ (\A x \in S \ P : f[x] = 0) => SumOver(P, f) = SumOver(S, f)
<1> DEFINE sum(R) == SumOver(P \cup R, f)
           Holds(R) == sum({}) <= sum(R) /\ ((\A x \in R : f[x] = 0) => sum({}) = sum(R))
           C == {R \in SUBSET (S \ P) : ~Holds(R)}
<1>1. ASSUME NEW R \in SUBSET S PROVE sum(R) \in Nat
  <2>1. P \cup R \subseteq S
    OBVIOUS
  <2> QED BY <2>1, FS_Subset, SumNat
<1>2. ASSUME C # {} PROVE FALSE
  <2>1. PICK R \in C : \A U \in C : U \subseteq R => U = R
    <3>1. C \in SUBSET SUBSET S
      OBVIOUS
    <3> HIDE DEF C
    <3> QED BY <1>2, <3>1, SmallestSet
  <2>2. R # {}
    <3>1. Holds({})
      <4>1. sum({}) \in Nat
        BY <1>1
      <4> HIDE DEF sum
      <4> QED BY <4>1
    <3> HIDE DEF Holds
    <3> QED BY <2>1, <3>1
  <2>3. PICK x \in R : TRUE
    BY <2>2
  <2>4. Holds(R \ {x})
    <3>1. R \ {x} \notin C
      BY <2>1, <2>3
    <3> HIDE DEF Holds
    <3> QED BY <2>1, <3>1
  <2>5. sum(R) = f[x] + sum(R \ {x})
    <3> DEFINE T == P \cup (R \ {x})
    <3>1. P \cup R = T \cup {x} /\ x \notin T /\ T \in SUBSET S /\ x \in S
      BY <2>1, <2>3
    <3> HIDE DEF T
    <3>2. IsFiniteSet(T) /\ \A y \in T \cup {x} : f[y] \in Int
      BY <3>1, FS_Subset
    <3>3. SumOver(T \cup {x}, f) = f[x] + SumOver(T, f)
      BY <3>1, <3>2, SumAdd
    <3> QED BY <3>1, <3>3 DEF T
  <2>6. sum({}) \in Nat /\ sum(R \ {x}) \in Nat /\ f[x] \in Nat
    BY <1>1, <2>1, <2>3
  <2> HIDE DEF sum
  <2>7. Holds(R)
    BY <2>3, <2>4, <2>5, <2>6
  <2> QED BY <2>1, <2>7
<1>3. Holds(S \ P)
  <2> HIDE DEF Holds
  <2> QED BY <1>2
<1>4. P \cup (S \ P) = S /\ P \cup {} = P
  OBVIOUS
<1> QED BY <1>3, <1>4

(* A nonempty set of natural numbers has a least one. *)
LEMMA LeastNumber ==
  ASSUME NEW K \in SUBSET Nat, K # {}
  PROVE  \E k \in K : \A j \in K : k <= j
<1> DEFINE R == OpToRel(<, Nat)
<1>1. IsWellFoundedOn(R, Nat)
  BY NatLessThanWellFounded
<1>2. \E k \in K : \A j \in K : ~ (<<j, k>> \in R)
  <2> HIDE DEF R
  <2> QED BY <1>1, WFMin
<1>3. R = {ss \in Nat \X Nat : ss[1] < ss[2]}
  BY DEF OpToRel
<1> HIDE DEF R
<1>4. PICK k \in K : \A j \in K : ~ (<<j, k>> \in R)
  BY <1>2
<1>5. ASSUME NEW j \in K PROVE k <= j
  <2>1. j \in Nat /\ k \in Nat
    OBVIOUS
  <2>2. ~ (<<j, k>> \in R)
    BY <1>4
  <2>3. ~ (j < k)
    <3>1. <<j, k>> \in Nat \X Nat
      BY <2>1
    <3>2. <<j, k>>[1] = j /\ <<j, k>>[2] = k
      OBVIOUS
    <3> QED BY <1>3, <2>2, <3>1, <3>2
  <2> QED BY <2>1, <2>3
<1> QED BY <1>5

(* What holds of {} and of one element more holds of a finite set. *)
LEMMA SetInduction ==
  ASSUME NEW S, IsFiniteSet(S), NEW G \in SUBSET SUBSET S, {} \in G,
         \A T \in G : \A x \in S \ T : T \cup {x} \in G
  PROVE  S \in G
<1> SUFFICES ASSUME S \notin G PROVE FALSE
  OBVIOUS
<1>1. PICK T \in (SUBSET S) \ G : \A U \in (SUBSET S) \ G : U \subseteq T => U = T
  <2> DEFINE C == (SUBSET S) \ G
  <2>1. C \in SUBSET SUBSET S /\ C # {}
    OBVIOUS
  <2> HIDE DEF C
  <2>2. \E T \in C : \A U \in C : U \subseteq T => U = T
    BY <2>1, SmallestSet
  <2> QED BY <2>2 DEF C
<1>2. PICK x \in T : TRUE
  BY <1>1
<1>3. T \ {x} \in G
  BY <1>1, <1>2
<1>4. (T \ {x}) \cup {x} = T /\ x \in S \ (T \ {x})
  BY <1>1, <1>2
<1> QED BY <1>1, <1>3, <1>4

(* Sums are linear: h = a * f + g. *)
LEMMA SumLinear ==
  ASSUME NEW S, IsFiniteSet(S), NEW a \in Int, NEW f, NEW g, NEW h,
         \A x \in S : f[x] \in Int /\ g[x] \in Int /\ h[x] = a * f[x] + g[x]
  PROVE  SumOver(S, h) = a * SumOver(S, f) + SumOver(S, g)
<1> DEFINE G == {T \in SUBSET S : SumOver(T, h) = a * SumOver(T, f) + SumOver(T, g)}
<1>1. {} \in G
  <2>1. SumOver({}, h) = 0 /\ SumOver({}, f) = 0 /\ SumOver({}, g) = 0
    BY SumEmpty
  <2> QED BY <2>1
<1>2. ASSUME NEW T \in G, NEW x \in S \ T
      PROVE  T \cup {x} \in G
  <2>1. IsFiniteSet(T) /\ T \subseteq S
    BY FS_Subset
  <2>2. \A y \in S : f[y] \in Int /\ g[y] \in Int /\ h[y] \in Int
    OBVIOUS
  <2>3. /\ SumOver(T \cup {x}, f) = f[x] + SumOver(T, f)
        /\ SumOver(T \cup {x}, g) = g[x] + SumOver(T, g)
        /\ SumOver(T \cup {x}, h) = h[x] + SumOver(T, h)
    BY <2>1, <2>2, SumAdd
  <2>4. SumOver(T, f) \in Int /\ SumOver(T, g) \in Int
    BY <2>1, <2>2, SumInt
  <2>5. SumOver(T, h) = a * SumOver(T, f) + SumOver(T, g)
    OBVIOUS
  <2>6. f[x] \in Int /\ g[x] \in Int /\ h[x] = a * f[x] + g[x]
    OBVIOUS
  <2>7. SumOver(T \cup {x}, h) = a * SumOver(T \cup {x}, f) + SumOver(T \cup {x}, g)
    <3> DEFINE p == SumOver(T, f)
               q == SumOver(T, g)
    <3>1. p \in Int /\ q \in Int
      BY <2>4
    <3> HIDE DEF p, q
    <3>2. (a * f[x] + g[x]) + (a * p + q) = a * (f[x] + p) + (g[x] + q)
      BY <2>6, <3>1
    <3> QED BY <2>3, <2>5, <2>6, <3>2 DEF p, q
  <2> QED BY <2>1, <2>7
<1>3. S \in G
  <2>1. G \in SUBSET SUBSET S
    OBVIOUS
  <2> HIDE DEF G
  <2> QED BY <1>1, <1>2, <2>1, SetInduction
<1> QED BY <1>3

LEMMA SumSame ==
  ASSUME NEW S, IsFiniteSet(S), NEW f, NEW g, \A x \in S : f[x] \in Int /\ g[x] = f[x]
  PROVE  SumOver(S, g) = SumOver(S, f)
<1> DEFINE zero == [x \in S |-> 0]
<1>1. \A x \in S : f[x] \in Int /\ g[x] \in Int /\ zero[x] \in Int /\ f[x] = 0 * g[x] + f[x]
                   /\ g[x] = 0 * g[x] + f[x]
  OBVIOUS
<1> HIDE DEF zero
<1>2. /\ SumOver(S, g) = 0 * SumOver(S, g) + SumOver(S, f)
      /\ SumOver(S, g) \in Int /\ SumOver(S, f) \in Int
  BY <1>1, SumLinear, SumInt
<1> QED BY <1>2

(* Sums grow with what is added up. *)
LEMMA SumMonotone ==
  ASSUME NEW S, IsFiniteSet(S), NEW f, NEW g,
         \A x \in S : f[x] \in Int /\ g[x] \in Int /\ f[x] <= g[x]
  PROVE  /\ SumOver(S, f) <= SumOver(S, g)
         /\ (\E x \in S : f[x] < g[x]) => SumOver(S, f) < SumOver(S, g)
<1> DEFINE d == [x \in S |-> g[x] - f[x]]
<1>1. \A x \in S : d[x] \in Nat /\ d[x] \in Int /\ g[x] = 1 * d[x] + f[x]
  OBVIOUS
<1>2. \A x \in S : f[x] < g[x] => d[x] > 0
  OBVIOUS
<1> HIDE DEF d
<1>3. /\ SumOver(S, g) = 1 * SumOver(S, d) + SumOver(S, f)
      /\ SumOver(S, d) \in Nat /\ SumOver(S, f) \in Int
  BY <1>1, SumLinear, SumNat, SumInt
<1>4. ASSUME NEW x \in S, f[x] < g[x] PROVE SumOver(S, d) > 0
  <2>1. SumOver(S, d) = d[x] + SumOver(S \ {x}, d)
    BY <1>1, SumElement
  <2>2. SumOver(S \ {x}, d) \in Nat
    BY <1>1, FS_Subset, SumNat
  <2> QED BY <1>1, <1>2, <1>4, <2>1, <2>2
<1> QED BY <1>3, <1>4

(* The sum of a constant. *)
LEMMA SumConstant ==
  ASSUME NEW S, IsFiniteSet(S), NEW c \in Int, NEW f, \A x \in S : f[x] = c
  PROVE  SumOver(S, f) = Cardinality(S) * c
<1> DEFINE G == {T \in SUBSET S : SumOver(T, f) = Cardinality(T) * c}
<1>1. {} \in G
  <2>1. SumOver({}, f) = 0 /\ Cardinality({}) = 0
    BY SumEmpty, FS_EmptySet
  <2> QED BY <2>1
<1>2. ASSUME NEW T \in G, NEW x \in S \ T
      PROVE  T \cup {x} \in G
  <2>1. IsFiniteSet(T) /\ T \subseteq S
    BY FS_Subset
  <2>2. SumOver(T \cup {x}, f) = f[x] + SumOver(T, f)
    <3>1. \A y \in T \cup {x} : f[y] \in Int
      BY <2>1
    <3> QED BY <2>1, <3>1, SumAdd
  <2>3. Cardinality(T \cup {x}) = Cardinality(T) + 1 /\ Cardinality(T) \in Nat
    BY <2>1, FS_AddElement, FS_CardinalityType
  <2>4. SumOver(T \cup {x}, f) = Cardinality(T \cup {x}) * c
    <3>1. SumOver(T, f) = Cardinality(T) * c /\ f[x] = c
      OBVIOUS
    <3> DEFINE n == Cardinality(T)
    <3>2. n \in Nat
      BY <2>3
    <3> HIDE DEF n
    <3>3. c + n * c = (n + 1) * c
      BY <3>2
    <3> QED BY <2>2, <2>3, <3>1, <3>3 DEF n
  <2> QED BY <2>1, <2>4
<1>3. S \in G
  <2>1. G \in SUBSET SUBSET S
    OBVIOUS
  <2> HIDE DEF G
  <2> QED BY <1>1, <1>2, <2>1, SetInduction
<1> QED BY <1>3

(* The order in which a table is added up does not matter. *)
LEMMA SumSwap ==
  ASSUME NEW B, IsFiniteSet(B), NEW K, IsFiniteSet(K), NEW M,
         \A b \in B, k \in K : M[b][k] \in Int
  PROVE  SumOver(B, [b \in B |-> SumOver(K, M[b])])
           = SumOver(K, [k \in K |-> SumOver(B, [b \in B |-> M[b][k]])])
<1> DEFINE line == [b \in B |-> SumOver(K, M[b])]
           col(k) == [b \in B |-> M[b][k]]
           cols(T) == [k \in K |-> SumOver(T, col(k))]
           G == {T \in SUBSET B : SumOver(T, line) = SumOver(K, cols(T))}
<1>1. \A b \in B : line[b] \in Int
  BY SumInt
<1>2. \A k \in K : \A b \in B : col(k)[b] \in Int /\ col(k)[b] = M[b][k]
  OBVIOUS
<1>3. {} \in G
  <2>1. SumOver({}, line) = 0 /\ \A k \in K : cols({})[k] = 0
    BY SumEmpty
  <2> DEFINE c == cols({})
  <2>2. SumOver(K, c) = 0
    <3>1. \A k \in K : c[k] = 0
      BY <2>1
    <3> HIDE DEF c
    <3>2. SumOver(K, c) = Cardinality(K) * 0
      BY <3>1, SumConstant
    <3>3. Cardinality(K) \in Nat
      BY FS_CardinalityType
    <3> QED BY <3>2, <3>3
  <2> QED BY <2>1, <2>2
<1>4. ASSUME NEW T \in G, NEW x \in B \ T
      PROVE  T \cup {x} \in G
  <2>1. IsFiniteSet(T) /\ T \subseteq B
    BY FS_Subset
  <2>2. SumOver(T \cup {x}, line) = SumOver(K, M[x]) + SumOver(T, line)
    <3>1. line[x] = SumOver(K, M[x])
      OBVIOUS
    <3>2. \A y \in T \cup {x} : line[y] \in Int
      BY <1>1, <2>1
    <3> HIDE DEF line
    <3>3. SumOver(T \cup {x}, line) = line[x] + SumOver(T, line)
      BY <2>1, <3>2, SumAdd
    <3> QED BY <3>1, <3>3
  <2>3. \A k \in K : /\ cols(T \cup {x})[k] = 1 * M[x][k] + cols(T)[k]
                     /\ cols(T)[k] \in Int /\ M[x][k] \in Int
    <3> SUFFICES ASSUME NEW k \in K
                 PROVE  /\ SumOver(T \cup {x}, col(k)) = 1 * M[x][k] + SumOver(T, col(k))
                        /\ SumOver(T, col(k)) \in Int /\ M[x][k] \in Int
      OBVIOUS
    <3> DEFINE c == col(k)
    <3>1. \A b \in B : c[b] \in Int /\ c[b] = M[b][k]
      BY <1>2
    <3> HIDE DEF c
    <3>2. SumOver(T \cup {x}, c) = c[x] + SumOver(T, c) /\ SumOver(T, c) \in Int
      BY <2>1, <3>1, SumAdd, SumInt
    <3> QED BY <3>1, <3>2 DEF c
  <2>4. SumOver(K, cols(T \cup {x})) = 1 * SumOver(K, M[x]) + SumOver(K, cols(T))
    <3> DEFINE h == cols(T \cup {x})
               g == cols(T)
    <3>1. \A k \in K : M[x][k] \in Int /\ g[k] \in Int /\ h[k] = 1 * M[x][k] + g[k]
      BY <2>3
    <3> HIDE DEF h, g
    <3>2. SumOver(K, h) = 1 * SumOver(K, M[x]) + SumOver(K, g)
      BY <3>1, SumLinear
    <3> QED BY <3>2 DEF h, g
  <2>5. SumOver(K, M[x]) \in Int /\ SumOver(T, line) \in Int
    <3>1. SumOver(K, M[x]) \in Int
      BY SumInt
    <3> HIDE DEF line
    <3> QED BY <1>1, <2>1, <3>1, SumInt
  <2>6. SumOver(T, line) = SumOver(K, cols(T))
    OBVIOUS
  <2> HIDE DEF line, cols
  <2>7. SumOver(T \cup {x}, line) = SumOver(K, cols(T \cup {x}))
    BY <2>2, <2>4, <2>5, <2>6
  <2> QED BY <2>1, <2>7
<1>5. B \in G
  <2>1. G \in SUBSET SUBSET B
    OBVIOUS
  <2> HIDE DEF G
  <2> QED BY <1>3, <1>4, <2>1, SetInduction
<1> QED BY <1>5

(* What does not fall from one to the next does not fall. *)
LEMMA RisesThroughout ==
  ASSUME NEW n \in Nat, NEW s, \A k \in 1 .. n : s[k] \in Int,
         \A k \in 2 .. n : s[k - 1] <= s[k]
  PROVE  \A i, j \in 1 .. n : i <= j => s[i] <= s[j]
<1> SUFFICES ASSUME NEW i \in 1 .. n, NEW j \in 1 .. n, i <= j, ~(s[i] <= s[j]) PROVE FALSE
  OBVIOUS
<1> DEFINE K == {k \in i .. n : ~(s[i] <= s[k])}
<1>1. K \in SUBSET Nat /\ j \in K
  OBVIOUS
<1>2. PICK k \in K : \A l \in K : k <= l
  <2> HIDE DEF K
  <2> QED BY <1>1, LeastNumber
<1>3. k # i /\ k \in 2 .. n /\ k - 1 \in i .. n
  OBVIOUS
<1>4. k - 1 \notin K
  BY <1>2, <1>3
<1>5. s[i] <= s[k - 1] /\ s[k - 1] <= s[k]
  BY <1>3, <1>4
<1>6. s[i] \in Int /\ s[k - 1] \in Int /\ s[k] \in Int
  BY <1>3
<1> QED BY <1>5, <1>6

(* Numbers that rise, weighed with weights that rise, come out above their  *)
(* mean: the weights below and above the mean weight balance, and the lower *)
(* ones meet the lower numbers.                                             *)
LEMMA RisingWeighsMore ==
  ASSUME NEW n \in Nat, n >= 2,
         NEW s, \A k \in 1 .. n : s[k] \in Int,
         NEW w, \A k \in 1 .. n : w[k] \in Int,
         \A k \in 2 .. n : s[k - 1] <= s[k],
         \A k \in 2 .. n : w[k - 1] < w[k],
         s[1] < s[n]
  PROVE  SumOver(1 .. n, [k \in 1 .. n |-> s[k] * w[k]]) * n
           > SumOver(1 .. n, s) * SumOver(1 .. n, w)
<1> DEFINE K == 1 .. n
           W == SumOver(K, w)
           S == SumOver(K, s)
           sw == [k \in K |-> s[k] * w[k]]
           c == [k \in K |-> n * w[k] - W]
           zero == [k \in K |-> 0]
<1>1. IsFiniteSet(K) /\ Cardinality(K) = n
  BY FS_Interval
<1>2. W \in Int /\ S \in Int
  BY <1>1, SumInt
<1>3. \A i, j \in K : i <= j => s[i] <= s[j]
  BY RisesThroughout
<1>4. \A i, j \in K : i < j => w[i] < w[j]
  <2> SUFFICES ASSUME NEW i \in K, NEW j \in K, i < j PROVE w[i] < w[j]
    OBVIOUS
  <2>1. \A k \in 2 .. n : w[k - 1] <= w[k]
    <3> SUFFICES ASSUME NEW k \in 2 .. n PROVE w[k - 1] <= w[k]
      OBVIOUS
    <3>1. k - 1 \in 1 .. n /\ k \in 1 .. n
      OBVIOUS
    <3> QED BY <3>1
  <2>2. w[i] <= w[j - 1]
    <3>1. \A p, q \in 1 .. n : p <= q => w[p] <= w[q]
      BY <2>1, RisesThroughout
    <3> QED BY <3>1
  <2>3. w[j - 1] < w[j] /\ w[i] \in Int /\ w[j - 1] \in Int /\ w[j] \in Int
    <3>1. j \in 2 .. n /\ j - 1 \in 1 .. n
      OBVIOUS
    <3> QED BY <3>1
  <2> QED BY <2>2, <2>3
<1>5. \A k \in K : c[k] \in Int /\ c[k] = n * w[k] - W /\ zero[k] = 0 /\ sw[k] = s[k] * w[k]
  <2> HIDE DEF W
  <2> QED BY <1>2
<1>6. \A i, j \in K : i < j => c[i] < c[j]
  <2> SUFFICES ASSUME NEW i \in K, NEW j \in K, i < j PROVE c[i] < c[j]
    OBVIOUS
  <2>1. w[i] < w[j] /\ w[i] \in Int /\ w[j] \in Int
    BY <1>4
  <2>2. n * w[i] < n * w[j]
    <3>1. PICK d \in Nat : w[j] = w[i] + d /\ d > 0
      <4>1. w[j] - w[i] \in Nat /\ w[j] - w[i] > 0
        BY <2>1
      <4> QED BY <2>1, <4>1
    <3>2. n * w[j] = n * w[i] + n * d /\ n * d > 0
      BY <2>1, <3>1
    <3> QED BY <2>1, <3>2
  <2> HIDE DEF c, W, K
  <2> QED BY <1>2, <1>5, <2>1, <2>2
<1>7. SumOver(K, c) = 0
  <2> DEFINE minus == [k \in K |-> -W]
  <2>1. \A k \in K : /\ w[k] \in Int /\ minus[k] \in Int /\ minus[k] = -W
                     /\ c[k] = n * w[k] + minus[k]
    BY <1>2, <1>5
  <2>2. SumOver(K, c) = n * W + SumOver(K, minus)
    <3> HIDE DEF c, minus, K
    <3>1. SumOver(K, c) = n * SumOver(K, w) + SumOver(K, minus)
      BY <1>1, <2>1, SumLinear
    <3> QED BY <3>1
  <2>3. SumOver(K, minus) = n * (-W)
    <3>1. -W \in Int
      BY <1>2
    <3> HIDE DEF minus, W
    <3> QED BY <1>1, <2>1, <3>1, SumConstant
  <2> HIDE DEF minus, W, c
  <2>4. n * W + n * (-W) = 0
    BY <1>2
  <2> QED BY <2>2, <2>3, <2>4
<1>8. SumOver(K, zero) = 0
  <2>1. SumOver(K, zero) = Cardinality(K) * 0
    BY <1>1, SumConstant
  <2> QED BY <1>1, <2>1
<1>9. 1 \in K /\ n \in K
  OBVIOUS
<1> HIDE DEF K, c, zero, W, S, sw
<1>10. c[1] < 0
  <2> SUFFICES ASSUME ~(c[1] < 0) PROVE FALSE
    OBVIOUS
  <2>1. \A k \in K : zero[k] \in Int /\ c[k] \in Int /\ zero[k] <= c[k]
    <3> SUFFICES ASSUME NEW k \in K PROVE zero[k] <= c[k]
      BY <1>5
    <3>1. k = 1 \/ c[1] < c[k]
      BY <1>6, <1>9 DEF K
    <3> QED BY <1>5, <1>9, <3>1
  <2>2. zero[n] < c[n]
    BY <1>5, <1>6, <1>9
  <2>3. SumOver(K, zero) < SumOver(K, c)
    BY <1>1, <1>9, <2>1, <2>2, SumMonotone
  <2> QED BY <1>7, <1>8, <2>3
<1>11. c[n] > 0
  <2> SUFFICES ASSUME ~(c[n] > 0) PROVE FALSE
    OBVIOUS
  <2>1. \A k \in K : zero[k] \in Int /\ c[k] \in Int /\ c[k] <= zero[k]
    <3> SUFFICES ASSUME NEW k \in K PROVE c[k] <= zero[k]
      BY <1>5
    <3>1. k = n \/ c[k] < c[n]
      BY <1>6, <1>9 DEF K
    <3> QED BY <1>5, <1>9, <3>1
  <2>2. c[1] < zero[1]
    BY <1>5, <1>9, <1>10
  <2>3. SumOver(K, c) < SumOver(K, zero)
    BY <1>1, <1>9, <2>1, <2>2, SumMonotone
  <2> QED BY <1>7, <1>8, <2>3
<1>12. PICK j \in K : /\ \A k \in K : k < j => c[k] < 0
                      /\ \A k \in K : j <= k => c[k] >= 0
  <2> DEFINE P == {k \in K : c[k] >= 0}
  <2>1. P \in SUBSET Nat /\ n \in P
    BY <1>5, <1>9, <1>11 DEF K
  <2>2. PICK j \in P : \A k \in P : j <= k
    <3> HIDE DEF P
    <3> QED BY <2>1, LeastNumber
  <2>3. \A k \in K : k < j => c[k] < 0
    BY <1>5, <2>2 DEF K
  <2>4. \A k \in K : j <= k => c[k] >= 0
    <3> SUFFICES ASSUME NEW k \in K, j <= k PROVE c[k] >= 0
      OBVIOUS
    <3>1. j = k \/ c[j] < c[k]
      BY <1>6, <2>2 DEF K
    <3> QED BY <1>5, <2>2, <3>1
  <2> QED BY <2>2, <2>3, <2>4
<1> DEFINE lower == [k \in K |-> s[j] * c[k]]
           sc == [k \in K |-> s[k] * c[k]]
<1>13. \A k \in K : /\ lower[k] \in Int /\ sc[k] \in Int
                    /\ lower[k] = s[j] * c[k] /\ sc[k] = s[k] * c[k]
                    /\ s[k] \in Int /\ c[k] \in Int /\ s[j] \in Int
  BY <1>5 DEF K
<1> HIDE DEF lower, sc
<1>14. ASSUME NEW x \in Int, NEW y \in Int, NEW z \in Int,
              (x <= y /\ z >= 0) \/ (y <= x /\ z <= 0)
       PROVE  x * z <= y * z /\ (x # y /\ z # 0 => x * z < y * z)
  <2>1. CASE x <= y /\ z >= 0
    <3>1. PICK d \in Nat : y = x + d
      <4>1. y - x \in Nat
        BY <2>1
      <4> QED BY <4>1
    <3>2. y * z = x * z + d * z /\ d * z >= 0 /\ (d # 0 /\ z # 0 => d * z > 0)
      BY <2>1, <3>1
    <3>3. x * z \in Int /\ d * z \in Int /\ (x # y => d # 0)
      BY <3>1
    <3> QED BY <3>2, <3>3
  <2>2. CASE y <= x /\ z <= 0
    <3>1. PICK d \in Nat : x = y + d
      <4>1. x - y \in Nat
        BY <2>2
      <4> QED BY <4>1
    <3>2. PICK e \in Nat : z = -e
      <4>1. -z \in Nat /\ z = -(-z)
        BY <2>2
      <4> QED BY <4>1
    <3>3. x * z = y * z + d * z /\ d * z = -(d * e) /\ d * e >= 0 /\ (d # 0 /\ e # 0 => d * e > 0)
      BY <3>1, <3>2
    <3>4. y * z \in Int /\ d * z \in Int /\ d * e \in Int /\ (x # y => d # 0) /\ (z # 0 => e # 0)
      BY <3>1, <3>2
    <3> QED BY <3>3, <3>4
  <2> QED BY <1>14, <2>1, <2>2
<1>15. \A k \in K : (s[j] <= s[k] /\ c[k] >= 0) \/ (s[k] <= s[j] /\ c[k] <= 0)
  <2> SUFFICES ASSUME NEW k \in K PROVE (s[j] <= s[k] /\ c[k] >= 0) \/ (s[k] <= s[j] /\ c[k] <= 0)
    OBVIOUS
  <2>1. CASE j <= k
    BY <1>3, <1>12, <2>1
  <2>2. CASE k < j
    BY <1>3, <1>5, <1>12, <2>2 DEF K
  <2>3. j <= k \/ k < j
    BY DEF K
  <2> QED BY <2>1, <2>2, <2>3
<1>16. \A k \in K : lower[k] <= sc[k] /\ (s[j] # s[k] /\ c[k] # 0 => lower[k] < sc[k])
  BY <1>13, <1>14, <1>15
<1>17. \E k \in K : lower[k] < sc[k]
  <2>1. s[j] # s[1] \/ s[j] # s[n]
    BY <1>9, <1>13
  <2>2. c[1] # 0 /\ c[n] # 0
    BY <1>9, <1>10, <1>11, <1>13
  <2> QED BY <1>9, <1>16, <2>1, <2>2
<1>18. SumOver(K, lower) < SumOver(K, sc)
  BY <1>1, <1>13, <1>16, <1>17, SumMonotone
<1>19. SumOver(K, lower) = 0
  <2>1. \A k \in K : c[k] \in Int /\ zero[k] \in Int /\ lower[k] = s[j] * c[k] + zero[k]
    BY <1>5, <1>13
  <2>2. SumOver(K, lower) = s[j] * SumOver(K, c) + SumOver(K, zero)
    BY <1>1, <1>13, <2>1, SumLinear
  <2>3. s[j] * 0 + 0 = 0
    BY <1>13
  <2> QED BY <1>7, <1>8, <2>2, <2>3
<1>20. SumOver(K, sc) = n * SumOver(K, sw) - W * S
  <2> DEFINE ws == [k \in K |-> (-W) * s[k]]
  <2>1. \A k \in K : /\ ws[k] \in Int /\ sw[k] \in Int /\ zero[k] \in Int
                     /\ sc[k] = n * sw[k] + ws[k] /\ ws[k] = (-W) * s[k] + zero[k]
    <3> SUFFICES ASSUME NEW k \in K
                 PROVE  /\ ws[k] \in Int /\ sw[k] \in Int /\ zero[k] \in Int
                        /\ sc[k] = n * sw[k] + ws[k] /\ ws[k] = (-W) * s[k] + zero[k]
      OBVIOUS
    <3>1. s[k] \in Int /\ w[k] \in Int /\ zero[k] = 0 /\ sw[k] = s[k] * w[k] /\ ws[k] = (-W) * s[k]
      BY <1>5 DEF K
    <3>2. sc[k] = s[k] * (n * w[k] - W)
      BY <1>5, <1>13
    <3>3. s[k] * (n * w[k] - W) = n * (s[k] * w[k]) + (-W) * s[k]
      BY <1>2, <3>1
    <3> HIDE DEF ws
    <3> QED BY <1>2, <3>1, <3>2, <3>3
  <2> HIDE DEF ws
  <2>2. SumOver(K, sc) = n * SumOver(K, sw) + SumOver(K, ws)
    BY <1>1, <1>13, <2>1, SumLinear
  <2>3. SumOver(K, ws) = (-W) * S + SumOver(K, zero)
    <3>1. -W \in Int
      BY <1>2
    <3> QED BY <1>1, <1>13, <2>1, <3>1, SumLinear DEF S
  <2>4. SumOver(K, sw) \in Int
    BY <1>1, <2>1, SumInt
  <2> QED BY <1>2, <1>8, <2>2, <2>3, <2>4
<1>21. SumOver(K, sw) \in Int
  <2>1. \A k \in K : sw[k] \in Int
    BY <1>5 DEF K
  <2> QED BY <1>1, <2>1, SumInt
<1>22. SumOver(K, sw) * n > S * W
  BY <1>2, <1>18, <1>19, <1>20, <1>21
<1> QED BY <1>22 DEF K, sw, S, W

(* A sum over two sets that have nothing in common. *)
LEMMA SumUnion ==
  ASSUME NEW P, IsFiniteSet(P), NEW Q, IsFiniteSet(Q), P \cap Q = {},
         NEW f, \A x \in P \cup Q : f[x] \in Int
  PROVE  SumOver(P \cup Q, f) = SumOver(P, f) + SumOver(Q, f)
<1> DEFINE G == {T \in SUBSET Q : SumOver(P \cup T, f) = SumOver(P, f) + SumOver(T, f)}
<1>1. {} \in G
  <2>1. SumOver({}, f) = 0 /\ P \cup {} = P /\ SumOver(P, f) \in Int
    BY SumEmpty, SumInt
  <2> QED BY <2>1
<1>2. ASSUME NEW T \in G, NEW x \in Q \ T
      PROVE  T \cup {x} \in G
  <2> DEFINE U == P \cup T
  <2>1. /\ IsFiniteSet(U) /\ IsFiniteSet(T) /\ T \subseteq Q
        /\ x \notin U /\ P \cup (T \cup {x}) = U \cup {x}
        /\ \A y \in U \cup {x} : f[y] \in Int
    BY FS_Subset, FS_Union
  <2>2. SumOver(U, f) = SumOver(P, f) + SumOver(T, f)
    OBVIOUS
  <2> HIDE DEF U
  <2>3. SumOver(U \cup {x}, f) = f[x] + SumOver(U, f) /\ SumOver(T \cup {x}, f) = f[x] + SumOver(T, f)
    BY <2>1, SumAdd
  <2>4. SumOver(P, f) \in Int /\ SumOver(T, f) \in Int /\ f[x] \in Int
    BY <2>1, SumInt
  <2>5. SumOver(P \cup (T \cup {x}), f) = SumOver(P, f) + SumOver(T \cup {x}, f)
    <3>1. SumOver(P \cup (T \cup {x}), f) = SumOver(U \cup {x}, f)
      BY <2>1
    <3> DEFINE u == SumOver(U, f)
               v == SumOver(U \cup {x}, f)
               t == SumOver(T, f)
               tx == SumOver(T \cup {x}, f)
               p == SumOver(P, f)
    <3>2. p \in Int /\ t \in Int /\ f[x] \in Int /\ u = p + t /\ v = f[x] + u /\ tx = f[x] + t
      BY <2>2, <2>3, <2>4
    <3> HIDE DEF u, v, t, tx, p
    <3>3. v = p + tx
      BY <3>2
    <3> QED BY <3>1, <3>3 DEF v, p, tx
  <2> QED BY <2>1, <2>5
<1>3. Q \in G
  <2>1. G \in SUBSET SUBSET Q
    OBVIOUS
  <2> HIDE DEF G
  <2> QED BY <1>1, <1>2, <2>1, SetInduction
<1> QED BY <1>3

(* Parts that have nothing in common add up to no more than the whole. *)
LEMMA SumParts ==
  ASSUME NEW K, IsFiniteSet(K), NEW A, IsFiniteSet(A), NEW f, \A x \in A : f[x] \in Nat,
         NEW D, \A k \in K : D[k] \subseteq A,
         \A i, j \in K : i # j => D[i] \cap D[j] = {}
  PROVE  SumOver(K, [k \in K |-> SumOver(D[k], f)]) <= SumOver(A, f)
<1> DEFINE c == [k \in K |-> SumOver(D[k], f)]
           All(T) == UNION {D[k] : k \in T}
           G == {T \in SUBSET K : SumOver(T, c) = SumOver(All(T), f)}
<1>1. \A S \in SUBSET A : IsFiniteSet(S) /\ SumOver(S, f) \in Nat
  <2> SUFFICES ASSUME NEW S \in SUBSET A PROVE IsFiniteSet(S) /\ SumOver(S, f) \in Nat
    OBVIOUS
  <2>1. IsFiniteSet(S) /\ \A x \in S : f[x] \in Nat
    BY FS_Subset
  <2> QED BY <2>1, SumNat
<1>2. \A k \in K : c[k] = SumOver(D[k], f) /\ c[k] \in Int
  BY <1>1
<1>3. {} \in G
  <2>1. All({}) = {}
    OBVIOUS
  <2>2. SumOver({}, c) = 0 /\ SumOver({}, f) = 0
    <3> HIDE DEF c
    <3> QED BY SumEmpty
  <2> HIDE DEF c, All
  <2> QED BY <2>1, <2>2
<1>4. ASSUME NEW T \in G, NEW x \in K \ T
      PROVE  T \cup {x} \in G
  <2>1. /\ All(T) \in SUBSET A /\ D[x] \in SUBSET A /\ All(T) \cap D[x] = {}
        /\ All(T \cup {x}) = All(T) \cup D[x]
    OBVIOUS
  <2>2. SumOver(T, c) = SumOver(All(T), f) /\ T \subseteq K /\ IsFiniteSet(T)
    BY FS_Subset
  <2>3. c[x] = SumOver(D[x], f) /\ \A k \in T \cup {x} : c[k] \in Int
    BY <1>2, <2>2
  <2> DEFINE S == All(T)
  <2> HIDE DEF c, S
  <2>4. SumOver(T \cup {x}, c) = c[x] + SumOver(T, c)
    BY <2>2, <2>3, SumAdd
  <2>5. SumOver(S \cup D[x], f) = SumOver(S, f) + SumOver(D[x], f)
    <3> DEFINE R == D[x]
    <3>1. /\ S \in SUBSET A /\ R \in SUBSET A /\ S \cap R = {} /\ IsFiniteSet(S) /\ IsFiniteSet(R)
          /\ \A y \in S \cup R : f[y] \in Int
      BY <1>1, <2>1 DEF S
    <3> HIDE DEF R
    <3>2. SumOver(S \cup R, f) = SumOver(S, f) + SumOver(R, f)
      BY <3>1, SumUnion
    <3> QED BY <3>2 DEF R
  <2>6. SumOver(S, f) \in Nat /\ SumOver(D[x], f) \in Nat
    BY <1>1, <2>1 DEF S
  <2>7. SumOver(T \cup {x}, c) = SumOver(All(T \cup {x}), f)
    <3>1. SumOver(All(T \cup {x}), f) = SumOver(S \cup D[x], f)
      BY <2>1 DEF S
    <3>2. SumOver(T, c) = SumOver(S, f)
      BY <2>2 DEF S
    <3> HIDE DEF All
    <3> DEFINE u == SumOver(S \cup D[x], f)
               v == SumOver(T \cup {x}, c)
    <3>3. v = u
      BY <2>3, <2>4, <2>5, <2>6, <3>2
    <3> QED BY <3>1, <3>3 DEF u, v
  <2> HIDE DEF All
  <2> QED BY <2>2, <2>7
<1>5. K \in G
  <2>1. G \in SUBSET SUBSET K
    OBVIOUS
  <2> HIDE DEF G
  <2> QED BY <1>3, <1>4, <2>1, SetInduction
<1>6. SumOver(All(K), f) <= SumOver(A, f)
  <2>1. All(K) \in SUBSET A
    OBVIOUS
  <2> HIDE DEF All
  <2> QED BY <2>1, SumPart
<1> QED BY <1>5, <1>6

(* A sum over one. *)
LEMMA SumOfOne ==
  ASSUME NEW e, NEW f, f[e] \in Int
  PROVE  SumOver({e}, f) = f[e]
<1>1. {} \cup {e} = {e} /\ e \notin {} /\ IsFiniteSet({}) /\ \A x \in {} \cup {e} : f[x] \in Int
  BY FS_EmptySet
<1>2. SumOver({} \cup {e}, f) = f[e] + SumOver({}, f) /\ SumOver({}, f) = 0
  BY <1>1, SumAdd, SumEmpty
<1> QED BY <1>1, <1>2

(* A factor may be taken out of a sum. *)
LEMMA SumScale ==
  ASSUME NEW S, IsFiniteSet(S), NEW a \in Int, NEW f, NEW g,
         \A x \in S : f[x] \in Int /\ g[x] = f[x] * a
  PROVE  SumOver(S, g) = SumOver(S, f) * a
<1> DEFINE zero == [x \in S |-> 0]
<1>1. \A x \in S : zero[x] = 0
  OBVIOUS
<1> HIDE DEF zero
<1>2. SumOver(S, zero) = 0
  <2>1. Cardinality(S) \in Nat
    BY FS_CardinalityType
  <2>2. SumOver(S, zero) = Cardinality(S) * 0
    BY <1>1, SumConstant
  <2> QED BY <2>1, <2>2
<1>3. \A x \in S : f[x] \in Int /\ zero[x] \in Int /\ g[x] = a * f[x] + zero[x]
  <2> SUFFICES ASSUME NEW x \in S PROVE g[x] = a * f[x] + 0
    BY <1>1
  <2>1. f[x] \in Int /\ g[x] = f[x] * a
    OBVIOUS
  <2> QED BY <2>1
<1>4. SumOver(S, g) = a * SumOver(S, f) + SumOver(S, zero)
  BY <1>3, SumLinear
<1>5. SumOver(S, f) \in Int
  BY SumInt
<1> QED BY <1>2, <1>4, <1>5

--------------------------------------------------------------------------------
(* The planning figures of a branch are natural numbers. *)
LEMMA PlanIsNat ==
  ASSUME NEW v \in Nat, NEW cover \in Nat, NEW lead \in Nat,
         NEW available \in Int, NEW transit \in Int
  PROVE  /\ Plan(v, cover, lead, available, transit).order \in Nat
         /\ Plan(v, cover, lead, available, transit).excess \in Nat
<1> DEFINE days == cover + lead
           target == PlanningTarget(v, days)
<1>1. target \in Nat
  <2>1. days \in Nat
    OBVIOUS
  <2> HIDE DEF days
  <2> QED BY <2>1 DEF PlanningTarget, AtLeastZero
<1> HIDE DEF target
<1>2. /\ AtLeastZero(available) \in Nat
      /\ AtLeastZero(transit) \in Nat
  BY DEF AtLeastZero
<1>3. OrderQuantity(target, AtLeastZero(available), AtLeastZero(transit)) \in Nat
  BY <1>1, <1>2 DEF OrderQuantity, AtLeastZero
<1>4. ExcessStock(AtLeastZero(available) + AtLeastZero(transit), ReorderPoint(target, lead)) \in Nat
  BY <1>1, <1>2 DEF ExcessStock, ReorderPoint, AtLeastZero
<1> QED BY <1>3, <1>4 DEF Plan, target, days

(* A branch the generator orders for has nothing to give away: order        *)
(* quantity and excess exclude one another, whatever the lead time.         *)
THEOREM ShortHasNoExcess ==
  ASSUME NEW v \in Nat, NEW cover \in Nat, NEW lead \in Nat,
         NEW available \in Int, NEW transit \in Int,
         IsShort(Plan(v, cover, lead, available, transit))
  PROVE  Plan(v, cover, lead, available, transit).excess = 0
<1> DEFINE target == PlanningTarget(v, cover + lead)
           onHand == AtLeastZero(available)
           coming == AtLeastZero(transit)
<1>1. target \in Nat
  <2> DEFINE days == cover + lead
  <2>1. days \in Nat
    OBVIOUS
  <2> HIDE DEF days
  <2>2. PlanningTarget(v, days) \in Nat
    BY <2>1 DEF PlanningTarget, AtLeastZero
  <2> QED BY <2>2 DEF days
<1>2. onHand \in Nat /\ coming \in Nat
  BY DEF AtLeastZero
<1>3. OrderQuantity(target, onHand, coming) > 0
  BY DEF IsShort, Plan
<1> HIDE DEF target, onHand, coming
<1>4. onHand + coming < target
  BY <1>1, <1>2, <1>3 DEF OrderQuantity, AtLeastZero
<1>5. ExcessStock(onHand + coming, ReorderPoint(target, lead)) = 0
  BY <1>1, <1>2, <1>4 DEF ExcessStock, ReorderPoint, AtLeastZero
<1> QED BY <1>5 DEF Plan, target, onHand, coming

--------------------------------------------------------------------------------
(* The greedy loop of _greedy_allocate, source after source.                *)
Served(seen, rank, k) == {d \in Givers(seen) : rank[d] < k}

(* What the loop works with: natural figures, a ranking without ties. *)
LEMMA RankingFacts ==
  ASSUME NEW b, NEW need \in Nat, NEW seen \in [Branches -> Nat],
         NEW rank \in Rankings(b, seen)
  PROVE  /\ IsFiniteSet(Givers(seen)) /\ Givers(seen) \subseteq Branches
         /\ Cardinality(Givers(seen)) \in Nat
         /\ \A c \in Givers(seen) : rank[c] \in 1 .. Cardinality(Givers(seen))
         /\ \A c, d \in Givers(seen) : c # d => rank[c] # rank[d]
         /\ \A c, d \in Givers(seen) : GoesBefore(b, seen, c, d) => rank[c] < rank[d]
         /\ \A c \in Branches \ Givers(seen) : seen[c] = 0
<1>1. IsFiniteSet(Givers(seen)) /\ Givers(seen) \subseteq Branches
  BY PlanningAssumption, FS_Subset DEF Givers
<1>2. Cardinality(Givers(seen)) \in Nat
  BY <1>1, FS_CardinalityType
<1>3. ASSUME NEW c \in Givers(seen), NEW d \in Givers(seen), GoesBefore(b, seen, c, d)
      PROVE  rank[c] < rank[d]
  <2>1. seen[c] \in Nat /\ seen[d] \in Nat
    BY <1>1
  <2>2. c # d
    BY <1>3, <2>1 DEF GoesBefore
  <2> QED BY <1>3, <2>2 DEF Rankings
<1>4. \A c \in Branches \ Givers(seen) : seen[c] = 0
  BY DEF Givers
<1> QED BY <1>1, <1>2, <1>3, <1>4 DEF Rankings

(* Sums of what was read, and of what is given, are natural numbers. *)
LEMMA AllocationIsNat ==
  ASSUME NEW b, NEW need \in Nat, NEW seen \in [Branches -> Nat],
         NEW rank \in Rankings(b, seen)
  PROVE  /\ \A S \in SUBSET Branches : SumOver(S, seen) \in Nat
         /\ \A c \in Branches : LeftFor(need, seen, rank, c) \in Nat
         /\ Allocation(need, seen, rank) \in [Branches -> Nat]
         /\ \A c \in Branches : Allocation(need, seen, rank)[c] <= seen[c]
         /\ \A S \in SUBSET Branches : SumOver(S, Allocation(need, seen, rank)) \in Nat
<1>1. ASSUME NEW S \in SUBSET Branches PROVE SumOver(S, seen) \in Nat
  BY PlanningAssumption, FS_Subset, SumNat
<1>2. ASSUME NEW c \in Branches PROVE LeftFor(need, seen, rank, c) \in Nat
  <2>1. SumOver({d \in Givers(seen) : rank[d] < rank[c]}, seen) \in Nat
    BY <1>1 DEF Givers
  <2> QED BY <2>1 DEF LeftFor, AtLeastZero
<1>3. ASSUME NEW c \in Branches
      PROVE  /\ Allocation(need, seen, rank)[c] \in Nat
             /\ Allocation(need, seen, rank)[c] <= seen[c]
  <2>1. seen[c] \in Nat
    OBVIOUS
  <2> QED BY <1>2, <2>1 DEF Allocation, Least
<1>4. Allocation(need, seen, rank) \in [Branches -> Nat]
  BY <1>3 DEF Allocation
<1>5. ASSUME NEW S \in SUBSET Branches
      PROVE  SumOver(S, Allocation(need, seen, rank)) \in Nat
  BY <1>4, PlanningAssumption, FS_Subset, SumNat
<1> QED BY <1>1, <1>2, <1>3, <1>4, <1>5

(* Up to any source, the loop has given what it could, and no more than is  *)
(* needed.                                                                  *)
LEMMA GreedyPrefix ==
  ASSUME NEW b, NEW need \in Nat, NEW seen \in [Branches -> Nat],
         NEW rank \in Rankings(b, seen), NEW k \in Nat
  PROVE  SumOver(Served(seen, rank, k), Allocation(need, seen, rank))
           = Least(need, SumOver(Served(seen, rank, k), seen))
<1> DEFINE G == Givers(seen)
           A == Allocation(need, seen, rank)
           Upto(i) == Served(seen, rank, i)
           Holds(i) == SumOver(Upto(i), A) = Least(need, SumOver(Upto(i), seen))
           K == {i \in Nat : ~Holds(i)}
<1>1. SUFFICES ASSUME K # {} PROVE FALSE
  OBVIOUS
<1>2. PICK i \in K : \A j \in K : i <= j
  <2> HIDE DEF K
  <2>1. K \in SUBSET Nat
    BY DEF K
  <2> QED BY <1>1, <2>1, LeastNumber
<1>3. i # 0
  <2>1. Upto(0) = {}
    BY RankingFacts DEF Served
  <2>2. Holds(0)
    BY <2>1, SumEmpty DEF Least
  <2> QED BY <1>2, <2>2
<1>4. i - 1 \in Nat /\ ~(i <= i - 1)
  BY <1>2, <1>3
<1>5. Holds(i - 1)
  <2> HIDE DEF Holds
  <2> QED BY <1>2, <1>4
<1>6. \A S \in SUBSET Branches : SumOver(S, A) \in Nat /\ SumOver(S, seen) \in Nat
  BY AllocationIsNat
<1>7. Upto(i - 1) \in SUBSET Branches /\ IsFiniteSet(Upto(i - 1))
  BY PlanningAssumption, FS_Subset DEF Served, Givers
<1>8. CASE \E c \in G : rank[c] = i - 1
  <2>1. PICK c \in G : rank[c] = i - 1
    BY <1>8
  <2>2. c \in Branches /\ c \notin Upto(i - 1) /\ Upto(i) = Upto(i - 1) \cup {c}
    <3>1. \A d \in G : rank[d] \in Nat
      BY RankingFacts
    <3>2. \A d \in G : rank[d] < i <=> rank[d] < i - 1 \/ d = c
      BY <1>4, <2>1, <3>1, RankingFacts
    <3> QED BY <2>1, <3>1, <3>2 DEF Served, Givers
  <2>3. SumOver(Upto(i), A) = A[c] + SumOver(Upto(i - 1), A)
    <3>0. A \in [Branches -> Nat]
      BY AllocationIsNat
    <3> HIDE DEF A, Upto
    <3>1. \A x \in Upto(i - 1) \cup {c} : A[x] \in Int
      BY <3>0, <1>7, <2>2
    <3> QED BY <1>7, <2>2, <3>1, SumAdd
  <2>4. SumOver(Upto(i), seen) = seen[c] + SumOver(Upto(i - 1), seen)
    <3>1. \A x \in Upto(i - 1) \cup {c} : seen[x] \in Nat
      BY <1>7, <2>2
    <3> HIDE DEF Upto
    <3> QED BY <1>7, <2>2, <3>1, SumAdd
  <2>5. A[c] = Least(seen[c], AtLeastZero(need - SumOver(Upto(i - 1), seen)))
    BY <2>1, <2>2 DEF Allocation, LeftFor, Served
  <2>6. seen[c] \in Nat /\ SumOver(Upto(i - 1), seen) \in Nat
    BY <1>6, <1>7, <2>2
  <2> HIDE DEF A, Upto
  <2>7. Holds(i)
    BY <1>5, <2>3, <2>4, <2>5, <2>6 DEF Least, AtLeastZero
  <2> QED BY <1>2, <2>7
<1>9. CASE ~(\E c \in G : rank[c] = i - 1)
  <2>1. Upto(i) = Upto(i - 1)
    <3>1. \A d \in G : rank[d] \in Nat
      BY RankingFacts
    <3>2. \A d \in G : rank[d] < i <=> rank[d] < i - 1
      BY <1>4, <1>9, <3>1
    <3> QED BY <3>2 DEF Served
  <2>2. Holds(i)
    BY <1>5, <2>1
  <2> QED BY <1>2, <2>2
<1> QED BY <1>8, <1>9

(* All sources together give the need, or all that was read. *)
LEMMA GreedyTotal ==
  ASSUME NEW b, NEW need \in Nat, NEW seen \in [Branches -> Nat],
         NEW rank \in Rankings(b, seen)
  PROVE  SumOver(Branches, Allocation(need, seen, rank)) = Least(need, SumOver(Branches, seen))
<1> DEFINE G == Givers(seen)
           A == Allocation(need, seen, rank)
<1>1. Served(seen, rank, Cardinality(G) + 1) = G
  BY RankingFacts DEF Served
<1>2. SumOver(G, A) = Least(need, SumOver(G, seen))
  BY <1>1, GreedyPrefix, RankingFacts
<1>3. SumOver(G, seen) = SumOver(Branches, seen)
  BY RankingFacts, SumPart, PlanningAssumption
<1>4. SumOver(G, A) = SumOver(Branches, A)
  <2>1. \A c \in Branches : A[c] \in Nat
    BY AllocationIsNat
  <2>2. \A c \in Branches \ G : A[c] = 0
    BY DEF Allocation
  <2>3. G \in SUBSET Branches
    BY RankingFacts
  <2> HIDE DEF A, G
  <2> QED BY <2>1, <2>2, <2>3, SumPart, PlanningAssumption
<1> QED BY <1>2, <1>3, <1>4

(* A source is used up to what was read of it if the sources up to it and   *)
(* including it have no more than the need.                                 *)
LEMMA DrainedUpTo ==
  ASSUME NEW b, NEW need \in Nat, NEW seen \in [Branches -> Nat],
         NEW rank \in Rankings(b, seen), NEW c \in Givers(seen),
         NEW S \in SUBSET Givers(seen), c \in S, Served(seen, rank, rank[c]) \subseteq S,
         SumOver(S, seen) <= need
  PROVE  Allocation(need, seen, rank)[c] = seen[c]
<1> DEFINE U == Served(seen, rank, rank[c])
<1>1. U \cup {c} \in SUBSET S /\ c \notin U /\ S \in SUBSET Branches /\ c \in Branches
      /\ U \in SUBSET Branches
  BY RankingFacts DEF Served
<1>2. SumOver(U \cup {c}, seen) <= SumOver(S, seen)
  <2>1. IsFiniteSet(S) /\ \A x \in S : seen[x] \in Nat
    BY <1>1, PlanningAssumption, FS_Subset
  <2> QED BY <1>1, <2>1, SumPart
<1>3. SumOver(U \cup {c}, seen) = seen[c] + SumOver(U, seen)
  <2>1. IsFiniteSet(U) /\ \A x \in U \cup {c} : seen[x] \in Nat
    BY <1>1, PlanningAssumption, FS_Subset
  <2> HIDE DEF U
  <2> QED BY <1>1, <2>1, SumAdd
<1>4. SumOver(U, seen) \in Nat /\ SumOver(S, seen) \in Nat /\ seen[c] \in Nat
  BY <1>1, AllocationIsNat
<1>5. LeftFor(need, seen, rank, c) = AtLeastZero(need - SumOver(U, seen))
  BY DEF LeftFor, Served
<1>6. Least(seen[c], AtLeastZero(need - SumOver(U, seen))) = seen[c]
  <2> HIDE DEF U
  <2> QED BY <1>2, <1>3, <1>4 DEF Least, AtLeastZero
<1> QED BY <1>1, <1>5, <1>6 DEF Allocation

(* REQ-RE-002 of one resolution, for every need, candidate set and ranking: *)
(* the parts add up, the supplier comes last, and sources are drained in    *)
(* the order of their priority.                                             *)
THEOREM GreedyIsComplete ==
  ASSUME NEW b, NEW need \in Nat, NEW seen \in [Branches -> Nat],
         NEW rank \in Rankings(b, seen)
  PROVE  LET new == Resolved(need, seen, rank)
         IN  /\ SumOver(Branches, new.taken) + new.external = need
             /\ new.external > 0 => new.taken = seen
             /\ \A c, d \in Givers(seen) :
                  GoesBefore(b, seen, c, d) /\ new.taken[d] > 0 => new.taken[c] = seen[c]
<1> DEFINE A == Allocation(need, seen, rank)
           total == SumOver(Branches, A)
<1>1. /\ A = Resolved(need, seen, rank).taken
      /\ AtLeastZero(need - total) = Resolved(need, seen, rank).external
  BY DEF Resolved
<1>2. total = Least(need, SumOver(Branches, seen))
  BY GreedyTotal
<1>3. SumOver(Branches, seen) \in Nat
  BY AllocationIsNat
<1>4. total + AtLeastZero(need - total) = need
  <2> HIDE DEF total
  <2> QED BY <1>2, <1>3 DEF Least, AtLeastZero
<1>5. ASSUME AtLeastZero(need - total) > 0
      PROVE  A = seen
  <2>1. SumOver(Branches, seen) <= need
    <3> HIDE DEF total
    <3> QED BY <1>2, <1>3, <1>5 DEF Least, AtLeastZero
  <2>2. SumOver(Givers(seen), seen) = SumOver(Branches, seen)
    BY RankingFacts, SumPart, PlanningAssumption
  <2>3. \A c \in Givers(seen) : A[c] = seen[c]
    <3>1. \A c \in Givers(seen) : Served(seen, rank, rank[c]) \subseteq Givers(seen)
      BY DEF Served
    <3> HIDE DEF A
    <3> QED BY <2>1, <2>2, <3>1, DrainedUpTo DEF A
  <2>4. \A c \in Branches \ Givers(seen) : A[c] = seen[c]
    BY RankingFacts DEF Allocation
  <2> QED BY <2>3, <2>4 DEF Allocation
<1>6. ASSUME NEW c \in Givers(seen), NEW d \in Givers(seen),
             GoesBefore(b, seen, c, d), A[d] > 0
      PROVE  A[c] = seen[c]
  <2> DEFINE S == Served(seen, rank, rank[d])
  <2>1. rank[c] < rank[d] /\ \A e \in Givers(seen) : rank[e] \in Nat
    BY <1>6, RankingFacts
  <2>2. c \in S /\ Served(seen, rank, rank[c]) \subseteq S /\ S \in SUBSET Givers(seen)
    BY <2>1 DEF Served
  <2>3. SumOver(S, seen) <= need
    <3>1. A[d] = Least(seen[d], AtLeastZero(need - SumOver(S, seen)))
      BY RankingFacts DEF Allocation, LeftFor, Served
    <3>2. SumOver(S, seen) \in Nat /\ seen[d] \in Nat
      BY <2>2, RankingFacts, AllocationIsNat
    <3> HIDE DEF S, A
    <3> QED BY <1>6, <3>1, <3>2 DEF Least, AtLeastZero
  <2> HIDE DEF S
  <2> QED BY <2>2, <2>3, DrainedUpTo
<1> QED BY <1>1, <1>4, <1>5, <1>6

--------------------------------------------------------------------------------
(* Rows, resolvers and recommendations are well formed, and source_branch   *)
(* names a branch that does give something, or none does.                   *)
PrimaryGives(o) ==
  IF Givers(o.taken) = {} THEN o.primary = NoBranch ELSE o.primary \in Givers(o.taken)

Shape ==
  /\ stock \in [Branches -> StockLevel]
  /\ syncs \in 0 .. MaxSyncs
  /\ job \in [Branches -> Job \cup {NoJob}]
  /\ order \in [Branches -> Order \cup {NoOrder}]
  /\ \A b \in Branches : order[b] # NoOrder => PrimaryGives(order[b])

(* The part of this that tells updated rows from the others. *)
JobRecord(j) ==
  j \in [need : {j.need}, phase : {"find", "read"}, todo : SUBSET Branches,
         seen : [Branches -> Nat]]

Rows ==
  /\ job = [b \in Branches |-> job[b]]
  /\ order = [b \in Branches |-> order[b]]
  /\ \A b \in Branches : job[b] # NoJob => JobRecord(job[b])
  /\ \A b \in Branches : order[b] # NoOrder =>
       order[b] = [quantity |-> order[b].quantity, taken |-> order[b].taken,
                   external |-> order[b].external, primary |-> order[b].primary]

LEMMA ShapeHasRows ==
  Shape => Rows
BY DEF Shape, Rows, JobRecord, Job, Order

(* Nobody reads the excess of the branch it orders for. *)
OwnExcessUnseen ==
  \A b \in Branches :
    /\ job[b] # NoJob => b \notin job[b].todo /\ ~(job[b].seen[b] > 0)
    /\ order[b] # NoOrder => ~(order[b].taken[b] > 0)

(* As long as no stock changed: who is planned, or has a recommendation,    *)
(* has no excess; what was read or taken is some branch's excess.           *)
ShortOnesKeep ==
  \A c \in Branches \ Centers : job[c] # NoJob \/ order[c] # NoOrder => ExcessAt(c) = 0

SeenIsExcess ==
  \A b, c \in Branches : job[b] # NoJob /\ job[b].seen[c] > 0 => ExcessAt(c) > 0

TakenIsExcess ==
  \A b, c \in Branches : order[b] # NoOrder /\ order[b].taken[c] > 0 => ExcessAt(c) > 0

SourceInv ==
  /\ Shape
  /\ OwnExcessUnseen
  /\ syncs = 0 => ShortOnesKeep /\ SeenIsExcess /\ TakenIsExcess

(* Stock figures are integers, so the figures of every plan are numbers. *)
LEMMA StockIsInt ==
  ASSUME Shape, NEW c \in Branches
  PROVE  stock[c].available \in Int /\ stock[c].transit \in Int
<1>1. stock[c] \in StockLevel
  BY DEF Shape
<1>2. stock[c].available \in Quantities
      /\ stock[c].transit \in {AtLeastZero(q) : q \in Quantities}
  BY <1>1 DEF StockLevel
<1>3. stock[c].available \in Int
  BY <1>2, PlanningAssumption
<1>4. PICK q \in Quantities : stock[c].transit = AtLeastZero(q)
  BY <1>2
<1>5. q \in Int
  BY PlanningAssumption
<1> QED BY <1>3, <1>4, <1>5 DEF AtLeastZero

LEMMA ExcessIsNat ==
  ASSUME Shape, NEW c \in Branches
  PROVE  ExcessAt(c) \in Nat
<1>1. stock[c].available \in Int /\ stock[c].transit \in Int
  BY StockIsInt
<1>2. Velocity[c] \in Nat
  BY PlanningAssumption
<1> QED BY <1>1, <1>2, PlanIsNat, PlanningAssumption DEF ExcessAt, PlanAt

(* A branch planned with its own velocity is short only without excess. *)
LEMMA PlannedKeeps ==
  ASSUME Shape, NEW c \in Branches, IsShort(PlanAt(c, Velocity[c]))
  PROVE  ExcessAt(c) = 0
<1>1. stock[c].available \in Int /\ stock[c].transit \in Int
  BY StockIsInt
<1>2. Velocity[c] \in Nat /\ Cover \in Nat /\ Lead \in Nat
  BY PlanningAssumption
<1>3. IsShort(Plan(Velocity[c], Cover, Lead, stock[c].available, stock[c].transit))
  BY DEF PlanAt
<1>4. Plan(Velocity[c], Cover, Lead, stock[c].available, stock[c].transit).excess = 0
  BY <1>1, <1>2, <1>3, ShortHasNoExcess
<1> QED BY <1>4 DEF ExcessAt, PlanAt

(* ExcessAt depends on nothing but the stock. *)
LEMMA ExcessFollowsStock ==
  ASSUME stock' = stock, NEW c \in Branches
  PROVE  ExcessAt(c)' = ExcessAt(c)
BY DEF ExcessAt, PlanAt

(* Invariant => property: a giver has excess, a short branch has none. *)
LEMMA SourceInvSuffices ==
  SourceInv => SourceIsNotShort
<1> SUFFICES ASSUME SourceInv, syncs = 0, NEW b \in Branches, order[b] # NoOrder,
                    NEW c \in Givers(order[b].taken) \ Centers
             PROVE  order[c] = NoOrder /\ job[c] = NoJob
  BY DEF SourceIsNotShort
<1>1. c \in Branches /\ order[b].taken[c] > 0
  BY DEF Givers
<1>2. ExcessAt(c) > 0
  BY <1>1 DEF SourceInv, TakenIsExcess
<1>3. ~(ExcessAt(c) = 0)
  BY <1>2
<1> QED BY <1>1, <1>3 DEF SourceInv, ShortOnesKeep

LEMMA SourceInit ==
  Init => SourceInv
<1> SUFFICES ASSUME Init PROVE SourceInv
  OBVIOUS
<1>1. Shape
  BY PlanningAssumption DEF Init, Shape
<1>2. OwnExcessUnseen
  BY DEF Init, OwnExcessUnseen
<1>3. ShortOnesKeep /\ SeenIsExcess /\ TakenIsExcess
  BY DEF Init, ShortOnesKeep, SeenIsExcess, TakenIsExcess
<1> QED BY <1>1, <1>2, <1>3 DEF SourceInv

(* What a branch, or a center with its dependents, needs is a number. *)
LEMMA NeedIsNat ==
  ASSUME Shape, NEW b \in Branches
  PROVE  /\ PlanAt(b, Velocity[b]).order \in Nat
         /\ PlanAt(b, CenterVelocity(b)).order \in Nat
<1>1. stock[b].available \in Int /\ stock[b].transit \in Int
  BY StockIsInt
<1>2. Velocity[b] \in Nat
  BY PlanningAssumption
<1>3. CenterVelocity(b) \in Nat
  <2> DEFINE D == {d \in Branches : Parent[d] = b}
  <2>1. IsFiniteSet(D) /\ \A d \in D : Velocity[d] \in Nat
    BY PlanningAssumption, FS_Subset
  <2>2. SumOver(D, Velocity) \in Nat
    BY <2>1, SumNat
  <2> QED BY <1>2, <2>2 DEF CenterVelocity
<1> QED BY <1>1, <1>2, <1>3, PlanIsNat, PlanningAssumption DEF PlanAt

LEMMA NewJobType ==
  ASSUME NEW need \in Nat
  PROVE  NewJob(need) \in Job
BY DEF NewJob, Job

(* The first source of a ranking exists when any does, and gives if any     *)
(* gives: it is asked for the whole need.                                   *)
LEMMA FirstSourceGives ==
  ASSUME NEW b, NEW need \in Nat, NEW seen \in [Branches -> Nat],
         NEW rank \in Rankings(b, seen), Givers(Allocation(need, seen, rank)) # {}
  PROVE  \E c \in Givers(Allocation(need, seen, rank)) : rank[c] = 1
<1> DEFINE G == Givers(seen)
           A == Allocation(need, seen, rank)
<1>1. PICK d \in Branches : A[d] > 0
  BY DEF Givers
<1>2. d \in G
  BY <1>1 DEF Allocation
<1>3. IsFiniteSet(G) /\ Cardinality(G) \in Nat /\ Cardinality(G) # 0
  BY <1>2, RankingFacts, FS_EmptySet
<1>4. PICK c \in G : rank[c] = 1
  <2> DEFINE n == Cardinality(G)
  <2>1. rank \in Injection(G, 1 .. n)
    BY RankingFacts DEF Rankings, Injection, IsInjective
  <2>2. IsFiniteSet(1 .. n) /\ Cardinality(1 .. n) = n
    BY <1>3, FS_Interval
  <2> HIDE DEF n, G
  <2>3. rank \in Surjection(G, 1 .. n)
    BY <2>1, <2>2, FS_Injection DEF n
  <2>4. 1 \in 1 .. n
    BY <1>3 DEF n
  <2> QED BY <2>3, <2>4 DEF Surjection
<1>5. need > 0
  <2>1. A[d] = Least(seen[d], LeftFor(need, seen, rank, d))
    BY <1>2 DEF Allocation
  <2>2. seen[d] \in Nat /\ LeftFor(need, seen, rank, d) \in Nat
    BY AllocationIsNat
  <2>3. LeftFor(need, seen, rank, d) > 0
    <3> HIDE DEF A
    <3> QED BY <1>1, <2>1, <2>2 DEF Least
  <2>4. SumOver({e \in Givers(seen) : rank[e] < rank[d]}, seen) \in Nat
    BY AllocationIsNat DEF Givers
  <2> QED BY <2>3, <2>4 DEF LeftFor, AtLeastZero
<1>6. LeftFor(need, seen, rank, c) = need
  <2>1. {e \in Givers(seen) : rank[e] < rank[c]} = {}
    BY <1>4, RankingFacts
  <2>2. SumOver({e \in Givers(seen) : rank[e] < rank[c]}, seen) = 0
    BY <2>1, SumEmpty
  <2>3. AtLeastZero(need - 0) = need
    BY DEF AtLeastZero
  <2> QED BY <2>2, <2>3 DEF LeftFor
<1>7. c \in Branches /\ A[c] > 0
  <2>1. c \in Branches /\ seen[c] > 0 /\ seen[c] \in Nat
    BY DEF Givers
  <2> QED BY <1>4, <1>5, <1>6, <2>1 DEF Allocation, Least
<1> QED BY <1>4, <1>7 DEF Givers

(* A resolution saves a well-formed recommendation. *)
LEMMA ResolvedType ==
  ASSUME NEW b, NEW need \in Nat, NEW seen \in [Branches -> Nat],
         NEW rank \in Rankings(b, seen)
  PROVE  /\ Resolved(need, seen, rank) \in Order
         /\ PrimaryGives(Resolved(need, seen, rank))
<1> DEFINE A == Allocation(need, seen, rank)
           first == CHOOSE c \in Givers(A) : rank[c] = 1
<1>1. A \in [Branches -> Nat] /\ SumOver(Branches, A) \in Nat
  BY AllocationIsNat
<1>2. AtLeastZero(need - SumOver(Branches, A)) \in Nat
  <2> HIDE DEF A
  <2> QED BY <1>1 DEF AtLeastZero
<1>3. Givers(A) # {} => first \in Givers(A)
  BY FirstSourceGives
<1>4. Givers(A) \subseteq Branches
  BY DEF Givers
<1> HIDE DEF A, first
<1>5. Resolved(need, seen, rank) =
        [quantity |-> need, taken |-> A, external |-> AtLeastZero(need - SumOver(Branches, A)),
         primary |-> IF Givers(A) = {} THEN NoBranch ELSE first]
  BY DEF Resolved, A, first
<1> QED BY <1>1, <1>2, <1>3, <1>4, <1>5 DEF Order, PrimaryGives

(* Every step keeps the shape. *)
LEMMA ShapeStep ==
  ASSUME SourceInv, Next
  PROVE  Shape'
<1> USE DEF SourceInv, Shape
<1>1. ASSUME NEW b \in Branches, NEW q \in Quantities, SyncStock(b, q)
      PROVE  Shape'
  BY <1>1, PlanningAssumption DEF SyncStock, StockLevel
<1>2. ASSUME NEW b \in Branches, NEW q \in Quantities, SyncPurchaseOrders(b, q)
      PROVE  Shape'
  <2>1. AtLeastZero(q) = q
    BY <1>2, PlanningAssumption DEF SyncPurchaseOrders, AtLeastZero
  <2> QED BY <1>2, <2>1, PlanningAssumption DEF SyncPurchaseOrders, StockLevel
<1>4. ASSUME NEW b \in Branches, PlanBranch(b)
      PROVE  Shape'
  BY <1>4, NeedIsNat, NewJobType DEF PlanBranch
<1>5. ASSUME NEW c \in Centers, PlanCenter(c)
      PROVE  Shape'
  BY <1>5, PlanningAssumption, NeedIsNat, NewJobType DEF PlanCenter
<1>6. ASSUME NEW b \in Branches, Recalculate(b)
      PROVE  Shape'
  <2> DEFINE v == IF b \in Centers THEN CenterVelocity(b) ELSE Velocity[b]
  <2>1. PlanAt(b, v).order \in Nat
    BY NeedIsNat
  <2>2. CASE v > 0 /\ IsShort(PlanAt(b, v))
    <3> DEFINE new == [order[b] EXCEPT !.quantity = PlanAt(b, v).order]
    <3>1. order' = [order EXCEPT ![b] = new] /\ job' = [job EXCEPT ![b] = NewJob(PlanAt(b, v).order)]
          /\ UNCHANGED <<stock, syncs>>
      BY <1>6, <2>2 DEF Recalculate
    <3>2. new \in Order /\ PrimaryGives(new)
      <4>1. order[b] \in Order /\ PrimaryGives(order[b])
        BY <1>6 DEF Recalculate
      <4> QED BY <2>1, <4>1 DEF Order, PrimaryGives
    <3> QED BY <2>1, <3>1, <3>2, NewJobType
  <2>3. CASE ~(v > 0 /\ IsShort(PlanAt(b, v)))
    BY <1>6, <2>3 DEF Recalculate
  <2> QED BY <2>2, <2>3
<1>7. ASSUME NEW b \in Branches, FindCandidates(b)
      PROVE  Shape'
  BY <1>7 DEF FindCandidates, Candidates, Job
<1>8. ASSUME NEW b \in Branches, NEW c \in Branches, ReadExcess(b, c)
      PROVE  Shape'
  BY <1>8, ExcessIsNat DEF ReadExcess, Job
<1>9. ASSUME NEW b \in Branches, Resolve(b)
      PROVE  Shape'
  <2>1. PICK rank \in Rankings(b, job[b].seen) :
          order' = [order EXCEPT ![b] = Resolved(job[b].need, job[b].seen, rank)]
    BY <1>9 DEF Resolve
  <2>2. job[b].need \in Nat /\ job[b].seen \in [Branches -> Nat]
    BY <1>9 DEF Resolve, Job
  <2>3. /\ Resolved(job[b].need, job[b].seen, rank) \in Order
        /\ PrimaryGives(Resolved(job[b].need, job[b].seen, rank))
    BY <2>2, ResolvedType
  <2> QED BY <1>9, <2>1, <2>3 DEF Resolve
<1>10. ASSUME NEW b \in Branches, Abandon(b) \/ Decide(b)
      PROVE  Shape'
  BY <1>10 DEF Abandon, Decide
<1> QED BY <1>1, <1>2, <1>4, <1>5, <1>6, <1>7, <1>8, <1>9, <1>10 DEF Next, Sync

(* An allocation takes only from a branch whose excess was read as positive. *)
LEMMA TakenWasSeen ==
  ASSUME NEW need, NEW seen, NEW rank, NEW c \in Branches,
         Resolved(need, seen, rank).taken[c] > 0
  PROVE  seen[c] > 0
BY DEF Resolved, Allocation, Givers

(* A branch never reads, hence never takes, its own excess. *)
LEMMA OwnStep ==
  ASSUME SourceInv, Next
  PROVE  OwnExcessUnseen'
<1>0. Rows /\ OwnExcessUnseen
  BY ShapeHasRows DEF SourceInv
<1> USE <1>0 DEF Rows, OwnExcessUnseen
<1>1. CASE Sync
  BY <1>1 DEF Sync, SyncStock, SyncPurchaseOrders
<1>2. ASSUME NEW b \in Branches, PlanBranch(b) \/ (b \in Centers /\ PlanCenter(b))
      PROVE  OwnExcessUnseen'
  BY <1>2 DEF PlanBranch, PlanCenter, NewJob
<1>3. ASSUME NEW b \in Branches, Recalculate(b)
      PROVE  OwnExcessUnseen'
  BY <1>3 DEF Recalculate, NewJob
<1>4. ASSUME NEW b \in Branches, FindCandidates(b)
      PROVE  OwnExcessUnseen'
  BY <1>4 DEF FindCandidates, Candidates, JobRecord
<1>5. ASSUME NEW b \in Branches, NEW c \in Branches, ReadExcess(b, c)
      PROVE  OwnExcessUnseen'
  BY <1>5 DEF ReadExcess, JobRecord
<1>6. ASSUME NEW b \in Branches, Resolve(b)
      PROVE  OwnExcessUnseen'
  <2>1. PICK rank \in Rankings(b, job[b].seen) :
          order' = [order EXCEPT ![b] = Resolved(job[b].need, job[b].seen, rank)]
    BY <1>6 DEF Resolve
  <2>2. ~(Resolved(job[b].need, job[b].seen, rank).taken[b] > 0)
    BY <1>6, TakenWasSeen DEF Resolve
  <2> QED BY <1>6, <2>1, <2>2 DEF Resolve
<1>7. ASSUME NEW b \in Branches, Abandon(b) \/ Decide(b)
      PROVE  OwnExcessUnseen'
  BY <1>7 DEF Abandon, Decide
<1> QED BY <1>1, <1>2, <1>3, <1>4, <1>5, <1>6, <1>7, PlanningAssumption DEF Next

(* With the stock as it was, the other three facts are kept as well. *)
LEMMA ExcessStep ==
  ASSUME SourceInv, Next, syncs' = 0
  PROVE  (ShortOnesKeep /\ SeenIsExcess /\ TakenIsExcess)'
<1>1. ~Sync
  BY DEF Sync, SyncStock, SyncPurchaseOrders, Shape, SourceInv
<1>2. syncs = 0 /\ UNCHANGED stock
  <2>1. ASSUME NEW b \in Branches,
               PlanBranch(b) \/ Decide(b) \/ Abandon(b) \/ FindCandidates(b) \/ Resolve(b)
                 \/ PlanCenter(b)
        PROVE  UNCHANGED <<stock, syncs>>
    BY <2>1 DEF PlanBranch, PlanCenter, FindCandidates, Resolve, Abandon, Decide
  <2>2. ASSUME NEW b \in Branches, Recalculate(b)
        PROVE  UNCHANGED <<stock, syncs>>
    BY <2>2 DEF Recalculate
  <2>3. ASSUME NEW b \in Branches, NEW c \in Branches, ReadExcess(b, c)
        PROVE  UNCHANGED <<stock, syncs>>
    BY <2>3 DEF ReadExcess
  <2> QED BY <1>1, <2>1, <2>2, <2>3, PlanningAssumption DEF Next
<1>3. \A c \in Branches : ExcessAt(c)' = ExcessAt(c)
  BY <1>2, ExcessFollowsStock
<1>4. /\ ShortOnesKeep /\ SeenIsExcess /\ TakenIsExcess
      /\ Shape /\ Rows
  BY <1>2, ShapeHasRows DEF SourceInv
<1> USE DEF Rows, ShortOnesKeep, SeenIsExcess, TakenIsExcess
<1>5. ASSUME NEW b \in Branches, PlanBranch(b)
      PROVE  (ShortOnesKeep /\ SeenIsExcess /\ TakenIsExcess)'
  <2>1. ExcessAt(b) = 0
    BY <1>4, <1>5, PlannedKeeps DEF PlanBranch
  <2> QED BY <1>3, <1>4, <1>5, <2>1 DEF PlanBranch, NewJob
<1>6. ASSUME NEW b \in Centers, PlanCenter(b)
      PROVE  (ShortOnesKeep /\ SeenIsExcess /\ TakenIsExcess)'
  BY <1>3, <1>4, <1>6, PlanningAssumption DEF PlanCenter, NewJob
<1>7. ASSUME NEW b \in Branches, Recalculate(b)
      PROVE  (ShortOnesKeep /\ SeenIsExcess /\ TakenIsExcess)'
  BY <1>3, <1>4, <1>7 DEF Recalculate, NewJob
<1>8. ASSUME NEW b \in Branches, FindCandidates(b)
      PROVE  (ShortOnesKeep /\ SeenIsExcess /\ TakenIsExcess)'
  BY <1>3, <1>4, <1>8 DEF FindCandidates, JobRecord
<1>9. ASSUME NEW b \in Branches, NEW c \in Branches, ReadExcess(b, c)
      PROVE  (ShortOnesKeep /\ SeenIsExcess /\ TakenIsExcess)'
  BY <1>3, <1>4, <1>9 DEF ReadExcess, JobRecord
<1>10. ASSUME NEW b \in Branches, Resolve(b)
      PROVE  (ShortOnesKeep /\ SeenIsExcess /\ TakenIsExcess)'
  <2>1. PICK rank \in Rankings(b, job[b].seen) :
          order' = [order EXCEPT ![b] = Resolved(job[b].need, job[b].seen, rank)]
    BY <1>10 DEF Resolve
  <2>2. \A c \in Branches :
          Resolved(job[b].need, job[b].seen, rank).taken[c] > 0 => ExcessAt(c) > 0
    BY <1>4, <1>10, TakenWasSeen DEF Resolve
  <2> QED BY <1>3, <1>4, <1>10, <2>1, <2>2 DEF Resolve
<1>11. ASSUME NEW b \in Branches, Abandon(b) \/ Decide(b)
      PROVE  (ShortOnesKeep /\ SeenIsExcess /\ TakenIsExcess)'
  BY <1>3, <1>4, <1>11 DEF Abandon, Decide
<1> QED BY <1>5, <1>6, <1>7, <1>8, <1>9, <1>10, <1>11, <1>1 DEF Next

LEMMA SourceStep ==
  SourceInv /\ [Next]_vars => SourceInv'
<1>1. ASSUME SourceInv, Next PROVE SourceInv'
  BY <1>1, ShapeStep, OwnStep, ExcessStep DEF SourceInv
<1>2. ASSUME SourceInv, UNCHANGED vars PROVE SourceInv'
  BY <1>2 DEF vars, SourceInv, Shape, OwnExcessUnseen, ShortOnesKeep, SeenIsExcess,
              TakenIsExcess, ExcessAt, PlanAt, Job
<1> QED BY <1>1, <1>2

(* No circular transfers: while the stock does not change, no branch gives  *)
(* parts away that it has itself a recommendation for, or is planned to     *)
(* have, whatever recalculations and generations overlap.                   *)
THEOREM GiversAreNotShort == Spec => []SourceIsNotShort
BY SourceInit, SourceStep, SourceInvSuffices, PTL DEF Spec

(* Recommendations and resolvers are well formed: the parts taken are       *)
(* natural numbers and source_branch is a branch that gives, or nobody      *)
(* gives, for any branches, velocities, stock and lost processes.           *)
THEOREM SourcingTypeCorrect == Spec => []Shape
<1>1. SourceInv => Shape
  BY DEF SourceInv
<1> QED BY SourceInit, SourceStep, <1>1, PTL DEF Spec

(* Every resolution that is saved meets REQ-RE-002, whatever stock changed  *)
(* while its candidates were read.                                          *)
THEOREM TransfersComeFirst == Spec => TransferBeforeSupplier
<1>1. ASSUME SourceInv, NEW b \in Branches, Resolve(b)
      PROVE  LET seen == job[b].seen
                 taken == order'[b].taken
             IN /\ SumOver(Branches, taken) + order'[b].external = job[b].need
                /\ order'[b].external > 0 => taken = seen
                /\ \A c, d \in Givers(seen) :
                     GoesBefore(b, seen, c, d) /\ taken[d] > 0 => taken[c] = seen[c]
  <2>1. PICK rank \in Rankings(b, job[b].seen) :
          order' = [order EXCEPT ![b] = Resolved(job[b].need, job[b].seen, rank)]
    BY <1>1 DEF Resolve
  <2>2. job[b].need \in Nat /\ job[b].seen \in [Branches -> Nat]
    BY <1>1 DEF Resolve, Job, SourceInv, Shape
  <2>3. order'[b] = Resolved(job[b].need, job[b].seen, rank)
    BY <1>1, <2>1 DEF SourceInv, Shape
  <2> DEFINE new == Resolved(job[b].need, job[b].seen, rank)
  <2>4. /\ SumOver(Branches, new.taken) + new.external = job[b].need
        /\ new.external > 0 => new.taken = job[b].seen
        /\ \A c, d \in Givers(job[b].seen) :
             GoesBefore(b, job[b].seen, c, d) /\ new.taken[d] > 0
               => new.taken[c] = job[b].seen[c]
    BY <2>2, GreedyIsComplete
  <2> HIDE DEF new
  <2> QED BY <2>3, <2>4 DEF new
<1>2. SourceInv /\ [Next]_vars =>
        [\A b \in Branches :
           Resolve(b) =>
             LET seen == job[b].seen
                 taken == order'[b].taken
             IN /\ SumOver(Branches, taken) + order'[b].external = job[b].need
                /\ order'[b].external > 0 => taken = seen
                /\ \A c, d \in Givers(seen) :
                     GoesBefore(b, seen, c, d) /\ taken[d] > 0 => taken[c] = seen[c]]_vars
  BY <1>1
<1> QED BY SourceInit, SourceStep, <1>2, PTL DEF Spec, TransferBeforeSupplier

(* A recommendation never sources from the branch it is for. *)
THEOREM NeverItsOwnSource == Spec => []OwnExcessUnseen
<1>1. SourceInv => OwnExcessUnseen
  BY DEF SourceInv
<1> QED BY SourceInit, SourceStep, <1>1, PTL DEF Spec

--------------------------------------------------------------------------------
(* The calendar. *)

LEMMA CalendarShape ==
  /\ Len(FirstDay) \in Nat /\ Len(FirstDay) > 1 /\ FirstDay[1] = 0
  /\ \A m \in 1 .. Len(FirstDay) : FirstDay[m] \in Nat
  /\ \A m \in Months : m \in Nat /\ m >= 1 /\ m \in 1 .. Len(FirstDay) /\ m + 1 \in 1 .. Len(FirstDay)
  /\ LastDay \in Int /\ Days = 0 .. LastDay
BY CalendarAssumption DEF Months, LastDay, Days

(* How long n months last. *)
LEMMA MonthsLast ==
  ASSUME NEW n \in 1 .. 12, NEW m \in Nat, m >= 1, m + n <= Len(FirstDay)
  PROVE  /\ FirstDay[m + n] - FirstDay[m] >= 30 * n - 2
         /\ n = 11 => FirstDay[m + n] - FirstDay[m] <= 337
         /\ n # 11 => FirstDay[m + n] - FirstDay[m] <= 30 * n + 6
<1>1. m \in 1 .. Len(FirstDay) - n
  BY CalendarShape
<1>2. FirstDay[m + n] - FirstDay[m] \in 30 * n - 2 .. IF n = 11 THEN 337 ELSE 30 * n + 6
  BY <1>1, CalendarAssumption
<1>3. CASE n = 11
  BY <1>2, <1>3
<1>4. CASE n # 11
  BY <1>2, <1>4
<1> QED BY <1>3, <1>4

(* No month begins before the one before it. *)
LEMMA MonthsRise ==
  ASSUME NEW i \in 1 .. Len(FirstDay), NEW j \in 1 .. Len(FirstDay), i <= j
  PROVE  FirstDay[i] <= FirstDay[j]
<1> DEFINE n == Len(FirstDay)
<1>1. n \in Nat /\ \A k \in 1 .. n : FirstDay[k] \in Int
  BY CalendarShape
<1>2. \A k \in 2 .. n : FirstDay[k - 1] <= FirstDay[k]
  <2> SUFFICES ASSUME NEW k \in 2 .. n PROVE FirstDay[k - 1] <= FirstDay[k]
    OBVIOUS
  <2>1. k - 1 \in 1 .. n - 1 /\ (k - 1) + 1 = k /\ k \in 1 .. n /\ k - 1 \in 1 .. n
    BY <1>1
  <2>2. FirstDay[k] - FirstDay[k - 1] \in 28 .. 36
    BY <2>1, CalendarAssumption
  <2> QED BY <1>1, <2>1, <2>2
<1> HIDE DEF n
<1>3. \A p, q \in 1 .. n : p <= q => FirstDay[p] <= FirstDay[q]
  BY <1>1, <1>2, RisesThroughout
<1> QED BY <1>3 DEF n

(* Every day falls into a month. *)
LEMMA MonthOfDay ==
  ASSUME NEW d \in Days
  PROVE  MonthOf[d] \in Months /\ FirstDay[MonthOf[d]] <= d /\ d < FirstDay[MonthOf[d] + 1]
<1> DEFINE n == Len(FirstDay)
           K == {m \in 1 .. n : d < FirstDay[m]}
<1>1. d \in Nat /\ d < FirstDay[n] /\ n \in 1 .. n
  BY CalendarShape DEF LastDay
<1>2. PICK k \in K : \A j \in K : k <= j
  <2>1. K \in SUBSET Nat /\ K # {}
    BY <1>1
  <2> HIDE DEF K
  <2> QED BY <2>1, LeastNumber
<1>3. k # 1
  BY <1>1, CalendarShape
<1>4. k - 1 \in Months /\ k - 1 \in 1 .. n /\ (k - 1) + 1 = k
  BY <1>3, CalendarShape DEF Months
<1>5. ~ (d < FirstDay[k - 1])
  BY <1>2, <1>4
<1>6. FirstDay[k - 1] \in Nat
  BY <1>4, CalendarShape
<1>7. FirstDay[k - 1] <= d /\ d < FirstDay[(k - 1) + 1]
  BY <1>1, <1>4, <1>5, <1>6
<1> HIDE DEF K, n
<1>8. \E m \in Months : FirstDay[m] <= d /\ d < FirstDay[m + 1]
  BY <1>4, <1>7
<1> QED BY <1>8 DEF MonthOf

(* ... and into one only. *)
LEMMA MonthOfIs ==
  ASSUME NEW d \in Days, NEW m \in Months, FirstDay[m] <= d, d < FirstDay[m + 1]
  PROVE  MonthOf[d] = m
<1> DEFINE k == MonthOf[d]
<1>1. k \in Months /\ FirstDay[k] <= d /\ d < FirstDay[k + 1]
  BY MonthOfDay
<1> HIDE DEF k
<1>2. /\ d \in Int /\ m \in Nat /\ k \in Nat
      /\ m \in 1 .. Len(FirstDay) /\ m + 1 \in 1 .. Len(FirstDay)
      /\ k \in 1 .. Len(FirstDay) /\ k + 1 \in 1 .. Len(FirstDay)
      /\ FirstDay[m] \in Nat /\ FirstDay[k] \in Nat
      /\ FirstDay[m + 1] \in Nat /\ FirstDay[k + 1] \in Nat
  BY <1>1, CalendarShape
<1>3. ~ (m < k)
  <2> SUFFICES ASSUME m < k PROVE FALSE
    OBVIOUS
  <2>1. FirstDay[m + 1] <= FirstDay[k]
    BY <1>2, MonthsRise
  <2> QED BY <1>1, <1>2, <2>1
<1>4. ~ (k < m)
  <2> SUFFICES ASSUME k < m PROVE FALSE
    OBVIOUS
  <2>1. FirstDay[k + 1] <= FirstDay[m]
    BY <1>2, MonthsRise
  <2> QED BY <1>1, <1>2, <2>1
<1>5. k = m
  BY <1>2, <1>3, <1>4
<1> QED BY <1>5 DEF k

(* A later day is in no earlier month. *)
LEMMA MonthOfRises ==
  ASSUME NEW d \in Days, NEW e \in Days, d <= e
  PROVE  MonthOf[d] <= MonthOf[e]
<1> DEFINE k == MonthOf[d]
           m == MonthOf[e]
<1>1. k \in Months /\ m \in Months /\ FirstDay[k] <= d /\ e < FirstDay[m + 1]
  BY MonthOfDay
<1> HIDE DEF k, m
<1>2. /\ d \in Int /\ e \in Int /\ m \in Nat /\ k \in Nat
      /\ m + 1 \in 1 .. Len(FirstDay) /\ k \in 1 .. Len(FirstDay)
      /\ FirstDay[k] \in Nat /\ FirstDay[m + 1] \in Nat
  BY <1>1, CalendarShape
<1>3. ~ (m < k)
  <2> SUFFICES ASSUME m < k PROVE FALSE
    OBVIOUS
  <2>1. FirstDay[m + 1] <= FirstDay[k]
    BY <1>2, MonthsRise
  <2> QED BY <1>1, <1>2, <2>1
<1>4. k <= m
  BY <1>2, <1>3
<1> QED BY <1>4 DEF k, m

LEMMA SafeDays ==
  ASSUME NEW d \in Days, IsSafe(d)
  PROVE  /\ d - FirstDay[MonthOf[d]] + 1 \in 3 .. 24
         /\ Entries > 12 => d - FirstDay[MonthOf[d]] + 1 \in 3 .. 23
<1>1. CASE Entries > 12
  BY <1>1 DEF IsSafe, DayOfMonth
<1>2. CASE ~(Entries > 12)
  BY <1>2 DEF IsSafe, DayOfMonth
<1> QED BY <1>1, <1>2

(* Thirty days at a time from a safe day, month by month. *)
LEMMA SafeDayStepsBack ==
  ASSUME NEW d \in Days, IsSafe(d), NEW i \in 0 .. 11, MonthOf[d] - i \in Months, d - 30 * i \in Days
  PROVE  MonthOf[d - 30 * i] = MonthOf[d] - i
<1> DEFINE m == MonthOf[d]
           k == m - i
<1>1. m \in Months /\ FirstDay[m] <= d /\ d < FirstDay[m + 1]
  BY MonthOfDay
<1>2. d - FirstDay[m] >= 2 /\ d - FirstDay[m] <= 23
  <2>1. d - FirstDay[m] + 1 \in 3 .. 24
    BY SafeDays
  <2>2. d \in Int /\ FirstDay[m] \in Int
    BY <1>1, CalendarShape
  <2> HIDE DEF m
  <2> QED BY <2>1, <2>2
<1>3. k \in Months
  OBVIOUS
<1> HIDE DEF m, k
<1>4. /\ d \in Int /\ m \in Nat /\ k \in Nat /\ m = k + i /\ k = m - i /\ k >= 1
      /\ m <= Len(FirstDay) /\ Len(FirstDay) \in Nat
      /\ FirstDay[m] \in Nat /\ FirstDay[k] \in Nat /\ FirstDay[k + 1] \in Nat
  <2>1. /\ d \in Int /\ m \in Nat /\ k \in Nat /\ k >= 1 /\ m <= Len(FirstDay) /\ Len(FirstDay) \in Nat
        /\ FirstDay[m] \in Nat /\ FirstDay[k] \in Nat /\ FirstDay[k + 1] \in Nat
    BY <1>1, <1>3, CalendarShape
  <2>2. k = m - i
    BY DEF k
  <2> QED BY <2>1, <2>2
<1>5. CASE i = 0
  <2>1. k = m /\ d - 30 * i = d
    BY <1>4, <1>5
  <2> QED BY <2>1 DEF m, k
<1>6. CASE i = 1
  <2>1. k + 1 = m
    BY <1>4, <1>6
  <2>2. FirstDay[m] - FirstDay[k] >= 28
    <3>1. FirstDay[k + 1] - FirstDay[k] >= 30 * 1 - 2
      BY <1>4, <2>1, MonthsLast
    <3> QED BY <1>4, <2>1, <3>1
  <2>3. FirstDay[k] <= d - 30 * i /\ d - 30 * i < FirstDay[k + 1]
    BY <1>2, <1>4, <1>6, <2>1, <2>2
  <2>4. MonthOf[d - 30 * i] = k
    BY <1>3, <2>3, MonthOfIs
  <2> QED BY <2>4 DEF k, m
<1>7. CASE i \in 2 .. 11
  <2>2. FirstDay[m] - FirstDay[k] >= 30 * i - 2
    <3>1. FirstDay[k + i] - FirstDay[k] >= 30 * i - 2
      BY <1>4, <1>7, MonthsLast
    <3> QED BY <1>4, <3>1
  <2>3. FirstDay[m] - FirstDay[k + 1] <= 30 * (i - 1) + 6
    <3> DEFINE n == i - 1
               j == k + 1
    <3>1. n \in 1 .. 12 /\ n # 11 /\ j \in Nat /\ j >= 1 /\ j + n = m
      BY <1>4, <1>7
    <3> HIDE DEF n, j
    <3>2. FirstDay[j + n] - FirstDay[j] <= 30 * n + 6
      BY <1>4, <3>1, MonthsLast
    <3>3. FirstDay[m] - FirstDay[j] <= 30 * n + 6
      BY <3>1, <3>2
    <3> QED BY <3>3 DEF n, j
  <2>4. FirstDay[k] <= d - 30 * i /\ d - 30 * i < FirstDay[k + 1]
    <3> DEFINE p == FirstDay[m]
               q == FirstDay[k]
               r == FirstDay[k + 1]
    <3>1. p \in Int /\ q \in Int /\ r \in Int /\ d \in Int /\ i \in Int
      BY <1>4
    <3>2. /\ d - p >= 2 /\ d - p <= 23
          /\ p - q >= 30 * i - 2 /\ p - r <= 30 * (i - 1) + 6
      BY <1>2, <2>2, <2>3
    <3> HIDE DEF p, q, r
    <3>3. q <= d - 30 * i
      BY <3>1, <3>2
    <3>4. d - 30 * i < r
      BY <3>1, <3>2
    <3> QED BY <3>3, <3>4 DEF p, q, r
  <2>5. MonthOf[d - 30 * i] = k
    BY <1>3, <2>4, MonthOfIs
  <2> QED BY <2>5 DEF k, m
<1> QED BY <1>5, <1>6, <1>7

--------------------------------------------------------------------------------
(* The invariant of the sales history. *)

SalesTypeOK ==
  /\ today \in Days /\ waits \in 0 .. MaxWaits
  /\ sold \in [Months -> Nat]
  /\ created \in 0 .. today
  /\ rows = [b \in Sellers |-> rows[b]]
  /\ \A b \in Sellers : rows[b] \in [DOMAIN rows[b] -> Nat]
  /\ imports \in [Sellers -> SUBSET [day : 0 .. today, written : 1 .. Entries]]

(* The calendar reaches back as far as a list and the window do. *)
FarEnough(d) == d \in Days /\ MonthOf[d] > Entries /\ MonthOf[d] > Window /\ d >= 30 * Entries

(* The entries that import x wrote. *)
EntriesOf(x) == {i \in 0 .. x.written - 1 : sold[MonthOf[x.day] - i] # 0}

(* The rows of a branch are those of import x alone. *)
RowsAre(b, x) ==
  /\ DOMAIN rows[b] = {x.day - 30 * i : i \in EntriesOf(x)}
  /\ \A i \in EntriesOf(x) : rows[b][x.day - 30 * i] = sold[MonthOf[x.day] - i]

(* No movement is dated in the future, no branch has rows without an        *)
(* import, and one import alone accounts for the rows.                      *)
SalesInv ==
  /\ SalesTypeOK
  /\ FarEnough(today)
  /\ \A b \in Sellers :
       /\ DOMAIN rows[b] \subseteq 0 .. today
       /\ imports[b] = {} => DOMAIN rows[b] = {}
       /\ \A x \in imports[b] : FarEnough(x.day)
       /\ \A x \in imports[b] : imports[b] = {x} => RowsAre(b, x)

(* Entries from the 13th on are older than any window.                      *)
LEMMA LongListsReachBack ==
  ASSUME NEW d \in Days, IsSafe(d), Entries > 12, NEW j \in Nat, j >= 12,
         NEW n \in 0 .. 11, MonthOf[d] - n \in Months
  PROVE  d - 30 * j < FirstDay[MonthOf[d] - n]
<1> DEFINE m == MonthOf[d]
           k == m - n
<1>1. /\ m \in Months /\ m \in Nat /\ k \in Nat /\ k >= 1 /\ m <= Len(FirstDay)
      /\ FirstDay[m] \in Nat /\ FirstDay[k] \in Nat /\ d \in Int
  BY MonthOfDay, CalendarShape
<1>2. d - FirstDay[m] <= 22
  <2>1. d - FirstDay[m] + 1 \in 3 .. 23
    BY SafeDays
  <2>2. d \in Int /\ FirstDay[m] \in Int
    BY <1>1
  <2> HIDE DEF m, k
  <2> QED BY <2>1, <2>2
<1>3. FirstDay[m] - FirstDay[k] <= 337
  <2>1. CASE n = 0
    <3>1. k = m
      BY <1>1, <2>1
    <3> HIDE DEF m, k
    <3> QED BY <1>1, <3>1
  <2>2. CASE n \in 1 .. 11
    <3>1. k + n = m
      BY <1>1
    <3> HIDE DEF m, k
    <3>2. /\ n = 11 => FirstDay[k + n] - FirstDay[k] <= 337
          /\ n # 11 => FirstDay[k + n] - FirstDay[k] <= 30 * n + 6
      BY <1>1, <2>2, <3>1, MonthsLast
    <3>3. CASE n = 11
      BY <3>1, <3>2, <3>3
    <3>4. CASE n \in 1 .. 10
      <4>1. FirstDay[m] - FirstDay[k] <= 30 * n + 6
        BY <3>1, <3>2, <3>4
      <4>2. 30 * n + 6 <= 306
        BY <3>4
      <4> QED BY <1>1, <3>4, <4>1, <4>2
    <3> QED BY <2>2, <3>3, <3>4
  <2> QED BY <2>1, <2>2
<1> DEFINE p == FirstDay[m]
           q == FirstDay[k]
<1>4. p \in Int /\ q \in Int /\ d \in Int /\ d - p <= 22 /\ p - q <= 337
  BY <1>1, <1>2, <1>3
<1> HIDE DEF p, q
<1>5. d - 30 * j < q
  BY <1>4
<1> QED BY <1>5 DEF q

LEMMA SalesConstants ==
  /\ IsFiniteSet(Sellers)
  /\ Entries \in Nat /\ Entries >= 1 /\ Window \in 1 .. 12
  /\ Profiles \subseteq [Months -> Nat]
  /\ Waits \subseteq Nat /\ \A n \in Waits : n > 0
  /\ Partial \cup {Entries} \subseteq 1 .. Entries
  /\ \A d \in FirstDays : FarEnough(d)
  /\ \A d \in FirstDays, a \in Ages : d - a \in 0 .. d
  /\ MaxWaits \in Nat
<1>1. \A d \in FirstDays, a \in Ages : d - a \in 0 .. d
  <2> SUFFICES ASSUME NEW d \in FirstDays, NEW a \in Ages PROVE d - a \in 0 .. d
    OBVIOUS
  <2>1. d \in Days /\ a \in Nat /\ a <= d
    BY SalesHistoryAssumption
  <2>2. d \in Int
    BY <2>1, CalendarShape
  <2> QED BY <2>1, <2>2
<1>2. Partial \cup {Entries} \subseteq 1 .. Entries
  BY SalesHistoryAssumption
<1>3. \A d \in FirstDays : FarEnough(d)
  BY SalesHistoryAssumption DEF FarEnough
<1> QED BY <1>1, <1>2, <1>3, SalesHistoryAssumption

LEMMA FarEnoughStays ==
  ASSUME NEW d \in Days, NEW e \in Days, d <= e, FarEnough(d)
  PROVE  FarEnough(e)
<1>1. MonthOf[d] <= MonthOf[e]
  BY MonthOfRises
<1>2. /\ d \in Int /\ e \in Int /\ MonthOf[d] \in Int /\ MonthOf[e] \in Int
      /\ Entries \in Int /\ Window \in Int
  BY MonthOfDay, CalendarShape, SalesConstants
<1> QED BY <1>1, <1>2 DEF FarEnough

(* The entries of a list have dates of their own, between the first day of  *)
(* the calendar and today, and months of the calendar.                      *)
LEMMA EntriesAreApart ==
  ASSUME NEW d, FarEnough(d), NEW i \in 0 .. Entries - 1
  PROVE  /\ d \in Int /\ i \in Int /\ d - 30 * i \in Days /\ d - 30 * i \in 0 .. d
         /\ MonthOf[d] - i \in Months
         /\ \A j \in 0 .. Entries - 1 : d - 30 * j = d - 30 * i => j = i
<1>1. d \in Days /\ d \in Int /\ d >= 30 * Entries /\ Entries \in Nat /\ LastDay \in Int /\ d <= LastDay
  BY CalendarShape, SalesConstants DEF FarEnough
<1>2. d - 30 * i \in 0 .. d /\ d - 30 * i \in 0 .. LastDay
  BY <1>1
<1>3. MonthOf[d] \in Months /\ MonthOf[d] > Entries
  BY MonthOfDay DEF FarEnough
<1>4. MonthOf[d] - i \in Months
  BY <1>1, <1>3, CalendarShape DEF Months
<1> QED BY <1>1, <1>2, <1>4, CalendarShape

(* What an import leaves of the rows. *)
NonZero(n) == {i \in 0 .. n - 1 : Listed(i) # 0}

LEMMA ImportedRows ==
  ASSUME SalesTypeOK, FarEnough(today), NEW n \in 1 .. Entries, NEW old, old \in [DOMAIN old -> Nat]
  PROVE  /\ DOMAIN Imported(old, n) = DOMAIN old \cup {today - 30 * i : i \in NonZero(n)}
         /\ Imported(old, n) \in [DOMAIN Imported(old, n) -> Nat]
         /\ \A i \in NonZero(n) : Imported(old, n)[today - 30 * i] = Listed(i)
<1> DEFINE W == NonZero(n)
           r == Imported(old, n)
           dates == {EntryDate(i) : i \in W}
           entry == [d \in dates |-> CHOOSE i \in W : EntryDate(i) = d]
<1>1. r = [d \in DOMAIN old \cup dates |-> IF d \in dates THEN Listed(entry[d]) ELSE old[d]]
  BY DEF Imported, Overwritten, NonZero
<1>2. \A i \in W : i \in 0 .. Entries - 1
  BY SalesConstants DEF NonZero
<1> HIDE DEF W, r
<1>3. \A i \in W : EntryDate(i) \in dates /\ entry[EntryDate(i)] = i
  <2> SUFFICES ASSUME NEW i \in W PROVE entry[EntryDate(i)] = i
    OBVIOUS
  <2>1. EntryDate(i) \in dates
    OBVIOUS
  <2>2. entry[EntryDate(i)] = CHOOSE j \in W : EntryDate(j) = EntryDate(i)
    BY <2>1
  <2>3. \A j \in W : EntryDate(j) = EntryDate(i) => j = i
    BY <1>2, EntriesAreApart DEF EntryDate
  <2> HIDE DEF entry, dates
  <2> QED BY <2>2, <2>3
<1>4. \A i \in W : Listed(i) \in Nat
  BY <1>2, EntriesAreApart DEF Listed, ThisMonth, SalesTypeOK
<1> HIDE DEF entry
<1>5. \A d \in dates : \E i \in W : d = EntryDate(i) /\ r[d] = Listed(i) /\ r[d] \in Nat
  <2> SUFFICES ASSUME NEW i \in W PROVE r[EntryDate(i)] = Listed(i) /\ r[EntryDate(i)] \in Nat
    OBVIOUS
  <2> HIDE DEF dates
  <2> QED BY <1>1, <1>3, <1>4
<1>6. DOMAIN r = DOMAIN old \cup dates
  BY <1>1
<1>7. \A d \in DOMAIN r : r[d] \in Nat
  <2> SUFFICES ASSUME NEW d \in DOMAIN r PROVE r[d] \in Nat
    OBVIOUS
  <2>1. CASE d \in dates
    BY <1>5, <2>1
  <2>2. CASE d \notin dates
    <3>1. d \in DOMAIN old /\ r[d] = old[d]
      BY <1>1, <1>6, <2>2
    <3> QED BY <3>1
  <2> QED BY <2>1, <2>2
<1>8. r \in [DOMAIN r -> Nat]
  <2>1. r = [d \in DOMAIN r |-> r[d]]
    BY <1>1
  <2> QED BY <1>7, <2>1
<1>9. \A i \in W : r[EntryDate(i)] = Listed(i)
  <2> HIDE DEF dates
  <2> QED BY <1>1, <1>3
<1>10. \A i \in W : r[today - 30 * i] = Listed(i)
  BY <1>9 DEF EntryDate
<1>11. dates = {today - 30 * i : i \in W}
  BY DEF EntryDate
<1> HIDE DEF dates
<1> QED BY <1>6, <1>8, <1>10, <1>11 DEF W, r

LEMMA SalesInitInv == SalesInit => SalesInv
<1> SUFFICES ASSUME SalesInit PROVE SalesInv
  OBVIOUS
<1> USE DEF SalesInit
<1>1. PICK age \in Ages : created = today - age
  OBVIOUS
<1>2. created \in 0 .. today /\ FarEnough(today)
  BY <1>1, SalesConstants
<1>3. \A b \in Sellers : rows[b] = [d \in {} |-> 0] /\ DOMAIN rows[b] = {} /\ imports[b] = {}
  OBVIOUS
<1>4. \A b \in Sellers : rows[b] \in [DOMAIN rows[b] -> Nat]
  BY <1>3
<1>5. SalesTypeOK
  BY <1>2, <1>3, <1>4, SalesConstants DEF SalesTypeOK, FarEnough
<1> QED BY <1>2, <1>3, <1>5 DEF SalesInv

LEMMA LaterKeepsInv ==
  ASSUME SalesInv, NEW days \in Waits, Later(days)
  PROVE  SalesInv'
<1>1. /\ today \in Days /\ today \in Int /\ days \in Nat /\ LastDay \in Int
      /\ today' = today + days /\ today + days <= LastDay
  BY SalesConstants, CalendarShape DEF Later, SalesInv, SalesTypeOK
<1>2. today' \in Days /\ today <= today' /\ today' \in Int
  BY <1>1, CalendarShape
<1>3. FarEnough(today')
  BY <1>1, <1>2, FarEnoughStays DEF SalesInv
<1>4. 0 .. today \subseteq 0 .. today'
  BY <1>1, <1>2
<1>5. UNCHANGED <<rows, sold, created, imports>>
  BY DEF Later
<1>6. waits' \in 0 .. MaxWaits
  BY SalesConstants DEF Later, SalesInv, SalesTypeOK
<1>7. SalesTypeOK'
  <2>1. imports' \in [Sellers -> SUBSET [day : 0 .. today', written : 1 .. Entries]]
    BY <1>4, <1>5 DEF SalesInv, SalesTypeOK
  <2>2. created' \in 0 .. today'
    BY <1>4, <1>5 DEF SalesInv, SalesTypeOK
  <2>3. /\ sold' \in [Months -> Nat] /\ rows' = [b \in Sellers |-> rows'[b]]
        /\ \A b \in Sellers : rows'[b] \in [DOMAIN rows'[b] -> Nat]
    <3>1. rows' = rows /\ sold' = sold
      BY <1>5
    <3> QED BY <3>1 DEF SalesInv, SalesTypeOK
  <2> QED BY <1>2, <1>6, <2>1, <2>2, <2>3 DEF SalesTypeOK
<1>8. \A b \in Sellers : \A x \in imports[b] : RowsAre(b, x) => RowsAre(b, x)'
  BY <1>5 DEF RowsAre, EntriesOf
<1>9. ASSUME NEW b \in Sellers
      PROVE  /\ DOMAIN rows'[b] \subseteq 0 .. today'
             /\ imports'[b] = {} => DOMAIN rows'[b] = {}
             /\ \A x \in imports'[b] : FarEnough(x.day)
             /\ \A x \in imports'[b] : imports'[b] = {x} => RowsAre(b, x)'
  BY <1>4, <1>5, <1>8 DEF SalesInv
<1> QED BY <1>3, <1>7, <1>9 DEF SalesInv

LEMMA ImportKeepsInv ==
  ASSUME SalesInv, NEW b \in Sellers, Import(b)
  PROVE  SalesInv'
<1>1. PICK n \in Partial \cup {Entries} :
        /\ rows' = [rows EXCEPT ![b] = Imported(@, n)]
        /\ imports' = [imports EXCEPT ![b] = @ \cup {[day |-> today, written |-> n]}]
  BY DEF Import
<1>2. UNCHANGED <<today, sold, created, waits>>
  BY DEF Import
<1> DEFINE x0 == [day |-> today, written |-> n]
           W == NonZero(n)
           r == Imported(rows[b], n)
<1>3. n \in 1 .. Entries /\ Entries \in Nat /\ SalesTypeOK /\ FarEnough(today) /\ today \in Nat
  BY SalesConstants, CalendarShape DEF SalesInv, SalesTypeOK
<1>4. rows[b] \in [DOMAIN rows[b] -> Nat]
  BY DEF SalesInv, SalesTypeOK
<1>5. /\ DOMAIN r = DOMAIN rows[b] \cup {today - 30 * i : i \in W}
      /\ r \in [DOMAIN r -> Nat]
      /\ \A i \in W : r[today - 30 * i] = Listed(i)
  BY <1>3, <1>4, ImportedRows
<1> HIDE DEF r
<1>6. /\ DOMAIN rows' = Sellers /\ rows' = [c \in Sellers |-> rows'[c]] /\ rows'[b] = r
      /\ \A c \in Sellers \ {b} : rows'[c] = rows[c]
  BY <1>1 DEF SalesInv, SalesTypeOK, r
<1>7. /\ imports'[b] = imports[b] \cup {x0} /\ \A c \in Sellers \ {b} : imports'[c] = imports[c]
      /\ x0 \in [day : 0 .. today, written : 1 .. Entries]
      /\ imports' \in [Sellers -> SUBSET [day : 0 .. today, written : 1 .. Entries]]
  <2>1. x0 \in [day : 0 .. today, written : 1 .. Entries]
    BY <1>3
  <2> HIDE DEF x0
  <2>2. imports' = [imports EXCEPT ![b] = @ \cup {x0}]
    BY <1>1 DEF x0
  <2> QED BY <2>1, <2>2 DEF SalesInv, SalesTypeOK
<1>8. \A c \in Sellers : rows'[c] \in [DOMAIN rows'[c] -> Nat]
  BY <1>5, <1>6 DEF SalesInv, SalesTypeOK
<1>9. SalesTypeOK'
  BY <1>2, <1>6, <1>7, <1>8 DEF SalesInv, SalesTypeOK
<1>10. EntriesOf(x0) = W /\ x0.day = today
  BY DEF EntriesOf, Listed, ThisMonth, NonZero
<1>11. DOMAIN rows'[b] \subseteq 0 .. today
  <2>1. \A i \in W : today - 30 * i \in 0 .. today
    <3>1. \A i \in W : i \in 0 .. Entries - 1
      BY <1>3 DEF NonZero
    <3> QED BY <1>3, <3>1, EntriesAreApart
  <2> QED BY <1>5, <1>6, <2>1 DEF SalesInv
<1>12. ASSUME NEW x \in imports'[b], imports'[b] = {x} PROVE RowsAre(b, x)'
  <2>1. x = x0 /\ (imports[b] = {} \/ imports[b] = {x0})
    BY <1>7, <1>12
  <2>2. DOMAIN rows[b] = {} \/ DOMAIN rows[b] = {today - 30 * i : i \in W}
    <3>1. CASE imports[b] = {}
      BY <3>1 DEF SalesInv
    <3>2. CASE imports[b] = {x0}
      <4>1. RowsAre(b, x0)
        BY <3>2 DEF SalesInv
      <4> HIDE DEF x0, W
      <4> QED BY <4>1, <1>10 DEF RowsAre
    <3> QED BY <2>1, <3>1, <3>2
  <2>3. DOMAIN rows'[b] = {today - 30 * i : i \in W}
    BY <1>5, <1>6, <2>2
  <2>4. EntriesOf(x)' = EntriesOf(x0) /\ x.day = today
    BY <1>2, <1>10, <2>1 DEF EntriesOf
  <2>5. \A i \in W : rows'[b][today - 30 * i] = sold[MonthOf[today] - i]
    BY <1>5, <1>6 DEF Listed, ThisMonth
  <2> HIDE DEF x0, W
  <2> QED BY <1>2, <1>10, <2>3, <2>4, <2>5 DEF RowsAre
<1>13. \A c \in Sellers \ {b} : \A x \in imports[c] : RowsAre(c, x) => RowsAre(c, x)'
  BY <1>2, <1>6 DEF RowsAre, EntriesOf
<1>14. ASSUME NEW c \in Sellers
       PROVE  /\ DOMAIN rows'[c] \subseteq 0 .. today'
              /\ imports'[c] = {} => DOMAIN rows'[c] = {}
              /\ \A x \in imports'[c] : FarEnough(x.day)
              /\ \A x \in imports'[c] : imports'[c] = {x} => RowsAre(c, x)'
  <2>1. CASE c = b
    <3>1. \A x \in imports'[b] : FarEnough(x.day)
      BY <1>3, <1>7, <1>10 DEF SalesInv
    <3> QED BY <1>2, <1>7, <1>11, <1>12, <2>1, <3>1
  <2>2. CASE c # b
    <3>1. c \in Sellers \ {b} /\ rows'[c] = rows[c] /\ imports'[c] = imports[c]
      BY <1>6, <1>7, <2>2
    <3> QED BY <1>2, <1>13, <3>1 DEF SalesInv
  <2> QED BY <2>1, <2>2
<1> QED BY <1>2, <1>3, <1>9, <1>14 DEF SalesInv

LEMMA SalesStepInv == SalesInv /\ [SalesNext]_salesVars => SalesInv'
<1> SUFFICES ASSUME SalesInv, [SalesNext]_salesVars PROVE SalesInv'
  OBVIOUS
<1>1. CASE \E days \in Waits : Later(days)
  BY <1>1, LaterKeepsInv
<1>2. CASE \E b \in Sellers : Import(b)
  BY <1>2, ImportKeepsInv
<1>3. CASE UNCHANGED salesVars
  BY <1>3 DEF salesVars, SalesInv, SalesTypeOK, RowsAre, EntriesOf
<1> QED BY <1>1, <1>2, <1>3 DEF SalesNext

LEMMA SalesInvariant == SalesSpec => []SalesInv
BY SalesInitInv, SalesStepInv, PTL DEF SalesSpec

(* Whatever is imported and whenever, the movements are never dated in the  *)
(* future and are quantities of days.                                       *)
THEOREM SalesTypeCorrect == SalesSpec => []SalesTypeOK
<1>1. SalesInv => SalesTypeOK
  BY DEF SalesInv
<1> QED BY <1>1, SalesInvariant, PTL

--------------------------------------------------------------------------------
(* Stages. *)

LEMMA GreatestIn ==
  ASSUME NEW n \in Nat, NEW S \in SUBSET (0 .. n), S # {}
  PROVE  Max(S) \in S /\ \A x \in S : x <= Max(S)
<1> DEFINE K == {n - x : x \in S}
<1>1. K \in SUBSET Nat /\ K # {}
  <2>1. \A x \in S : n - x \in Nat
    OBVIOUS
  <2>2. PICK x \in S : TRUE
    OBVIOUS
  <2> QED BY <2>1, <2>2
<1>2. PICK k \in K : \A j \in K : k <= j
  <2> HIDE DEF K
  <2> QED BY <1>1, LeastNumber
<1>3. PICK x \in S : k = n - x
  OBVIOUS
<1>4. \A y \in S : x >= y
  <2> SUFFICES ASSUME NEW y \in S PROVE x >= y
    OBVIOUS
  <2>1. n - x <= n - y
    BY <1>2, <1>3
  <2> QED BY <2>1
<1>5. \E z \in S : \A y \in S : z >= y
  BY <1>4
<1>6. Max(S) \in S /\ \A y \in S : Max(S) >= y
  <2> HIDE DEF K
  <2> QED BY <1>5 DEF Max
<1> QED BY <1>6

(* The last sale is the latest of the movements. *)
LEMMA LastSaleIs ==
  ASSUME SalesInv, NEW b \in Sellers
  PROVE  /\ SaleDates(b) = DOMAIN rows[b] /\ today \in Nat
         /\ \A d \in DOMAIN rows[b] : d \in Nat /\ d <= today
         /\ SaleDates(b) # {} =>
              LastSale(b) \in DOMAIN rows[b] /\ \A d \in DOMAIN rows[b] : d <= LastSale(b)
<1>1. DOMAIN rows[b] \in SUBSET (0 .. today) /\ today \in Nat
  BY CalendarShape DEF SalesInv, SalesTypeOK
<1>2. SaleDates(b) = DOMAIN rows[b]
  BY <1>1 DEF SaleDates
<1>3. SaleDates(b) # {} =>
        LastSale(b) \in DOMAIN rows[b] /\ \A d \in DOMAIN rows[b] : d <= LastSale(b)
  BY <1>1, <1>2, GreatestIn DEF LastSale
<1> QED BY <1>1, <1>2, <1>3

(* How old a part is that has been seen this long and idle this long. *)
RankFor(unsold, young, idle, dead, hasStock) ==
  IF unsold THEN (IF young THEN 0 ELSE IF hasStock THEN 1 ELSE 2)
  ELSE IF dead THEN 3 ELSE IF idle THEN 2 ELSE IF young THEN 0 ELSE 1

LEMMA StageGrows ==
  ASSUME SalesInv, SalesInv', SalesNext, rows' = rows, NEW b \in Sellers, NEW hasStock \in BOOLEAN
  PROVE  Rank(Stage(b, hasStock)) <= Rank(Stage(b, hasStock)')
<1> DEFINE unsold == SaleDates(b) = {}
           young == MonthsSinceFirstSeen(created) <= 6
           idle == IdleFor(b, 365)
           dead == IdleFor(b, 730)
<1>1. today' >= today /\ created' = created /\ today \in Days /\ today' \in Days
  <2>1. today \in Int /\ today \in Days /\ today' \in Days
    BY CalendarShape DEF SalesInv, SalesTypeOK
  <2>2. CASE \E days \in Waits : Later(days)
    BY <2>1, <2>2, SalesConstants DEF Later
  <2>3. CASE \E c \in Sellers : Import(c)
    BY <2>1, <2>3 DEF Import
  <2> QED BY <2>1, <2>2, <2>3 DEF SalesNext
<1>2. today \in Nat /\ today' \in Nat /\ created \in Days
  <2>1. created \in 0 .. today
    BY DEF SalesInv, SalesTypeOK
  <2> QED BY <1>1, <2>1, CalendarShape
<1>3. young' => young
  <2>1. /\ MonthOf[today] <= MonthOf[today']
        /\ MonthOf[today] \in Nat /\ MonthOf[today'] \in Nat /\ MonthOf[created] \in Nat
    BY <1>1, <1>2, MonthOfRises, MonthOfDay, CalendarShape
  <2> QED BY <1>1, <2>1 DEF MonthsSinceFirstSeen, ThisMonth
<1>4. SaleDates(b) = DOMAIN rows[b] /\ SaleDates(b)' = DOMAIN rows[b]
  <2>1. /\ DOMAIN rows[b] \subseteq 0 .. today
        /\ DOMAIN rows[b] \subseteq 0 .. today'
    BY DEF SalesInv
  <2> QED BY <1>2, <2>1 DEF SaleDates
<1>5. LastSale(b)' = LastSale(b)
  BY <1>4 DEF LastSale
<1>6. ~unsold => LastSale(b) \in Nat
  BY <1>4, LastSaleIs
<1>7. ~unsold => (idle => idle') /\ (dead => dead') /\ (dead => idle) /\ (dead' => idle')
  BY <1>1, <1>2, <1>5, <1>6 DEF IdleFor
<1>8. unsold' <=> unsold
  BY <1>4
<1>9. Rank(Stage(b, hasStock)) = RankFor(unsold, young, idle, dead, hasStock)
  BY DEF Rank, RankFor, Stage
<1>10. Rank(Stage(b, hasStock)') = RankFor(unsold', young', idle', dead', hasStock)
  BY DEF Rank, RankFor, Stage
<1> HIDE DEF unsold, young, idle, dead
<1> QED BY <1>3, <1>7, <1>8, <1>9, <1>10 DEF RankFor

(* The property of the same name: a part that does not sell only grows      *)
(* older, on every calendar and whatever was imported before.               *)
THEOREM StagesNeverComeBack == SalesSpec => StageOnlyAges
<1>1. SalesInv /\ SalesInv' /\ [SalesNext]_salesVars
        => [rows' = rows =>
              \A b \in Sellers, hasStock \in BOOLEAN :
                Rank(Stage(b, hasStock)) <= Rank(Stage(b, hasStock)')]_salesVars
  BY StageGrows
<1> QED BY <1>1, SalesInvariant, PTL DEF SalesSpec, StageOnlyAges

--------------------------------------------------------------------------------
(* What was sold. *)

(* A seller's rows add up, whatever dates are asked for. *)
LEMMA SoldIsNat ==
  ASSUME SalesInv, NEW b \in Sellers, NEW dates
  PROVE  /\ SoldOn(b, dates) \in Nat
         /\ IsFiniteSet({d \in DOMAIN rows[b] : d \in dates})
         /\ \A d \in DOMAIN rows[b] : rows[b][d] \in Nat
<1> DEFINE P == {d \in DOMAIN rows[b] : d \in dates}
<1>1. DOMAIN rows[b] \subseteq 0 .. today /\ today \in Nat
  BY CalendarShape DEF SalesInv, SalesTypeOK
<1>2. IsFiniteSet(0 .. today)
  BY <1>1, FS_Interval
<1>3. IsFiniteSet(P)
  BY <1>1, <1>2, FS_Subset
<1>4. \A d \in DOMAIN rows[b] : rows[b][d] \in Nat
  BY DEF SalesInv, SalesTypeOK
<1>5. \A d \in P : rows[b][d] \in Nat
  BY <1>4
<1> HIDE DEF P
<1>6. SumOver(P, rows[b]) \in Nat
  BY <1>3, <1>5, SumNat
<1> QED BY <1>3, <1>4, <1>6 DEF P, SoldOn

(* The sales of one branch are the sum over one. *)
LEMMA OneSeller ==
  ASSUME SalesInv, NEW b \in Sellers
  PROVE  MonthlySales({b}) = [k \in 1 .. Window |-> SoldOn(b, DaysOf(MonthAt(k)))]
<1> SUFFICES ASSUME NEW k \in 1 .. Window
             PROVE  SumOver({b}, [c \in {b} |-> SoldOn(c, DaysOf(MonthAt(k)))])
                      = SoldOn(b, DaysOf(MonthAt(k)))
  BY DEF MonthlySales
<1> DEFINE g == [c \in {b} |-> SoldOn(c, DaysOf(MonthAt(k)))]
<1>1. g[b] = SoldOn(b, DaysOf(MonthAt(k))) /\ g[b] \in Nat
  BY SoldIsNat
<1> HIDE DEF g
<1>2. IsFiniteSet({}) /\ \A x \in {} \cup {b} : g[x] \in Int
  BY <1>1, FS_EmptySet
<1>3. SumOver({} \cup {b}, g) = g[b] + SumOver({}, g) /\ SumOver({}, g) = 0
  BY <1>2, SumAdd, SumEmpty
<1>4. {} \cup {b} = {b}
  OBVIOUS
<1>5. SumOver({b}, g) = g[b]
  BY <1>1, <1>3, <1>4
<1> QED BY <1>1, <1>5 DEF g

(* The months of the window. *)
LEMMA WindowMonths ==
  ASSUME SalesInv, NEW k \in 1 .. Window
  PROVE  /\ MonthAt(k) \in Months /\ MonthAt(k) \in Nat /\ Window \in 1 .. 12
         /\ ThisMonth \in Months /\ ThisMonth \in Nat /\ ThisMonth > Window
         /\ MonthAt(k) = ThisMonth - Window + k
<1>1. /\ ThisMonth \in Months /\ ThisMonth \in Nat /\ ThisMonth > Window /\ Window \in 1 .. 12
      /\ ThisMonth <= Len(FirstDay) - 1 /\ Len(FirstDay) \in Nat
  BY MonthOfDay, CalendarShape, SalesConstants DEF SalesInv, SalesTypeOK, FarEnough, ThisMonth, Months
<1>2. MonthAt(k) = ThisMonth - Window + k
  BY DEF MonthAt
<1>3. MonthAt(k) \in 1 .. Len(FirstDay) - 1
  BY <1>1, <1>2
<1> QED BY <1>1, <1>2, <1>3 DEF Months

(* Twelve months that end with this one reach no further back than 365     *)
(* days, and have no day in common.                                        *)
LEMMA WindowIsInTheYear ==
  ASSUME SalesInv, NEW k \in 1 .. Window, NEW d \in DaysOf(MonthAt(k)), d <= today
  PROVE  d + 365 >= today
<1> DEFINE m == MonthAt(k)
           n == Window - k + 1
           e == FirstDay[m]
           f == FirstDay[m + n]
<1>1. /\ m \in Months /\ m \in Nat /\ Window \in 1 .. 12 /\ ThisMonth \in Months /\ ThisMonth \in Nat
      /\ m = ThisMonth - Window + k
  BY WindowMonths
<1> HIDE DEF m
<1>2. n \in 1 .. 12 /\ m + n = ThisMonth + 1 /\ m >= 1 /\ m + n <= Len(FirstDay)
  BY <1>1, CalendarShape
<1> HIDE DEF n
<1>3. f - e <= 366
  <2>1. e \in Nat /\ f \in Nat
    BY <1>1, <1>2, CalendarShape
  <2>2. CASE n = 11
    <3>1. f - e <= 337
      BY <1>1, <1>2, <2>2, MonthsLast
    <3> HIDE DEF e, f
    <3> QED BY <2>1, <3>1
  <2>3. CASE n # 11
    <3>1. f - e <= 30 * n + 6
      BY <1>1, <1>2, <2>3, MonthsLast
    <3> HIDE DEF e, f
    <3> QED BY <1>2, <2>1, <3>1
  <2> QED BY <2>2, <2>3
<1>4. today \in Int /\ today < f
  <2>1. today \in Days /\ today \in Int
    BY CalendarShape DEF SalesInv, SalesTypeOK
  <2>2. today < FirstDay[ThisMonth + 1]
    BY <2>1, MonthOfDay DEF ThisMonth
  <2> QED BY <1>2, <2>1, <2>2
<1>5. e \in Int /\ f \in Int /\ d \in Int /\ e <= d
  <2>1. e \in Nat /\ f \in Nat /\ FirstDay[m + 1] \in Nat
    BY <1>1, <1>2, CalendarShape
  <2>2. d \in FirstDay[m] .. FirstDay[m + 1] - 1
    BY DEF DaysOf, m
  <2> QED BY <2>1, <2>2
<1> HIDE DEF e, f
<1> QED BY <1>3, <1>4, <1>5

LEMMA WindowMonthsApart ==
  ASSUME SalesInv, NEW i \in 1 .. Window, NEW j \in 1 .. Window, i # j
  PROVE  DaysOf(MonthAt(i)) \cap DaysOf(MonthAt(j)) = {}
<1> SUFFICES ASSUME NEW p \in 1 .. Window, NEW q \in 1 .. Window, p < q,
                    NEW d \in DaysOf(MonthAt(p)), d \in DaysOf(MonthAt(q))
             PROVE  FALSE
  <2>1. i < j \/ j < i
    BY SalesConstants
  <2> QED BY <2>1
<1> DEFINE m == MonthAt(p)
           n == MonthAt(q)
<1>1. m \in Months /\ n \in Months /\ m \in Nat /\ n \in Nat /\ m + 1 <= n
  BY WindowMonths
<1>2. d \in FirstDay[m] .. FirstDay[m + 1] - 1 /\ d \in FirstDay[n] .. FirstDay[n + 1] - 1
  BY DEF DaysOf
<1> HIDE DEF m, n
<1>3. FirstDay[m + 1] <= FirstDay[n]
  <2>1. m + 1 \in 1 .. Len(FirstDay) /\ n \in 1 .. Len(FirstDay)
    BY <1>1, CalendarShape
  <2> QED BY <1>1, <2>1, MonthsRise
<1>4. FirstDay[m + 1] \in Nat /\ FirstDay[n] \in Nat /\ FirstDay[m] \in Nat /\ FirstDay[n + 1] \in Nat
  BY <1>1, CalendarShape
<1> QED BY <1>2, <1>3, <1>4

LEMMA YearCoversWindow ==
  ASSUME SalesInv, NEW b \in Sellers
  PROVE  /\ Total(MonthlySales({b})) \in Nat /\ AnnualSales(b) \in Nat
         /\ Total(MonthlySales({b})) <= AnnualSales(b)
<1> DEFINE K == 1 .. Window
           D == [k \in K |-> {d \in DOMAIN rows[b] : d \in DaysOf(MonthAt(k))}]
           year == {d \in SaleDates(b) : d + 365 >= today}
           A == {d \in DOMAIN rows[b] : d \in year}
<1>1. IsFiniteSet(K)
  BY SalesConstants, FS_Interval
<1>2. IsFiniteSet(A) /\ (\A d \in DOMAIN rows[b] : rows[b][d] \in Nat) /\ AnnualSales(b) \in Nat
  BY SoldIsNat DEF AnnualSales
<1>3. MonthlySales({b}) = [k \in K |-> SumOver(D[k], rows[b])]
  BY OneSeller DEF SoldOn
<1>4. AnnualSales(b) = SumOver(A, rows[b])
  BY DEF AnnualSales, SoldOn
<1>5. \A k \in K : D[k] \subseteq A
  BY LastSaleIs, WindowIsInTheYear
<1>6. \A i, j \in K : i # j => D[i] \cap D[j] = {}
  BY WindowMonthsApart
<1>7. \A d \in A : rows[b][d] \in Nat
  BY <1>2
<1> DEFINE f == rows[b]
<1> HIDE DEF A, D, f, K
<1>8. SumOver(K, [k \in K |-> SumOver(D[k], f)]) <= SumOver(A, f)
  <2>1. \A d \in A : f[d] \in Nat
    BY <1>7 DEF f
  <2> QED BY <1>1, <1>2, <1>5, <1>6, <2>1, SumParts
<1>9. Total(MonthlySales({b})) <= AnnualSales(b)
  BY <1>3, <1>4, <1>8 DEF Total, f, K
<1>10. Total(MonthlySales({b})) \in Nat
  <2> DEFINE g == MonthlySales({b})
  <2>1. \A k \in K : g[k] \in Nat
    BY OneSeller, SoldIsNat DEF K
  <2> HIDE DEF g
  <2>2. SumOver(K, g) \in Nat
    BY <1>1, <2>1, SumNat
  <2> QED BY <2>2 DEF Total, K, g
<1> QED BY <1>2, <1>9, <1>10

(* A branch that has sold nothing for a year has no velocity. *)
LEMMA IdleIsCold ==
  ASSUME SalesInv, NEW b \in Sellers, SaleDates(b) = {} \/ IdleFor(b, 365)
  PROVE  IsColdStart(b)
<1>1. {d \in SaleDates(b) : d + 365 >= today} = {}
  <2> SUFFICES ASSUME NEW d \in SaleDates(b), d + 365 >= today PROVE FALSE
    OBVIOUS
  <2>1. /\ d \in Nat /\ LastSale(b) \in Nat /\ today \in Nat /\ d <= LastSale(b)
        /\ today - LastSale(b) > 365
    BY LastSaleIs DEF IdleFor
  <2> QED BY <2>1
<1>2. AnnualSales(b) = 0
  <2>1. AnnualSales(b) = SumOver({d \in DOMAIN rows[b] : d \in {}}, rows[b])
    BY <1>1 DEF AnnualSales, SoldOn
  <2>2. {d \in DOMAIN rows[b] : d \in {}} = {}
    OBVIOUS
  <2> QED BY <2>1, <2>2, SumEmpty
<1>3. Total(MonthlySales({b})) = 0
  BY <1>2, YearCoversWindow
<1> QED BY <1>3 DEF IsColdStart

(* The property of the same name: the annual sales of the classification    *)
(* cover the window of the velocity, and what it calls dead has no velocity. *)
THEOREM YearCoversVelocity == SalesSpec => []AnnualCovers
<1>1. SalesInv => AnnualCovers
  <2> SUFFICES ASSUME SalesInv, NEW b \in Sellers
               PROVE  /\ Total(MonthlySales({b})) <= AnnualSales(b)
                      /\ \A hasStock \in BOOLEAN :
                           Stage(b, hasStock) \in {"OBSOLETE", "PRE_OBSOLETE", "INACTIVE"} => IsColdStart(b)
    BY DEF AnnualCovers
  <2>1. Total(MonthlySales({b})) <= AnnualSales(b)
    BY YearCoversWindow
  <2>2. ASSUME NEW hasStock \in BOOLEAN, Stage(b, hasStock) \in {"OBSOLETE", "PRE_OBSOLETE", "INACTIVE"}
        PROVE  IsColdStart(b)
    <3>1. SaleDates(b) # {} /\ IdleFor(b, 730) => IdleFor(b, 365)
      BY LastSaleIs DEF IdleFor
    <3>2. SaleDates(b) = {} \/ IdleFor(b, 365)
      BY <2>2, <3>1 DEF Stage
    <3> QED BY <3>2, IdleIsCold
  <2> QED BY <2>1, <2>2
<1> QED BY <1>1, SalesInvariant, PTL

--------------------------------------------------------------------------------
(* One complete import on a safe day. *)

LEMMA SafeImportIsListed ==
  ASSUME SalesInv, NEW b \in Sellers, NEW x \in Complete(b),
         imports[b] = {x}, IsSafe(x.day), MonthOf[x.day] = ThisMonth, NEW k \in 1 .. Window
  PROVE  SoldOn(b, DaysOf(MonthAt(k))) = IF k + Entries > Window THEN sold[MonthAt(k)] ELSE 0
<1> DEFINE day == x.day
           m == MonthAt(k)
           i == Window - k
           P == {d \in DOMAIN rows[b] : d \in DaysOf(m)}
<1>1. x \in imports[b] /\ x.written = Entries /\ FarEnough(day) /\ RowsAre(b, x) /\ day \in Days
  BY DEF SalesInv, Complete, FarEnough
<1>2. /\ m \in Months /\ m \in Nat /\ ThisMonth \in Nat /\ Window \in 1 .. 12 /\ Entries \in Nat
      /\ m = ThisMonth - i /\ i \in 0 .. Window - 1
      /\ (k + Entries > Window <=> i <= Entries - 1)
  BY WindowMonths, SalesConstants
<1>3. \A j \in EntriesOf(x) : j \in 0 .. Entries - 1 /\ sold[ThisMonth - j] # 0
  BY <1>1 DEF EntriesOf
<1>4. ASSUME NEW j \in 0 .. Entries - 1, j <= 11
      PROVE  MonthOf[day - 30 * j] = ThisMonth - j /\ day - 30 * j \in Days /\ j \in Int
  <2>1. day - 30 * j \in Days /\ MonthOf[day] - j \in Months
    BY <1>1, EntriesAreApart
  <2>2. j \in 0 .. 11 /\ j \in Int
    BY <1>2, <1>4
  <2> HIDE DEF day
  <2>3. MonthOf[day - 30 * j] = MonthOf[day] - j
    BY <1>1, <2>1, <2>2, SafeDayStepsBack DEF day
  <2> QED BY <2>1, <2>2, <2>3 DEF day
<1>5. DOMAIN rows[b] = {day - 30 * j : j \in EntriesOf(x)}
  BY <1>1 DEF RowsAre
<1> HIDE DEF m, i
<1>6. ASSUME NEW d \in P PROVE i \in EntriesOf(x) /\ d = day - 30 * i
  <2>1. PICK j \in EntriesOf(x) : d = day - 30 * j
    BY <1>5
  <2>2. FirstDay[m] <= d /\ d < FirstDay[m + 1] /\ FirstDay[m] \in Nat
    <3>1. d \in FirstDay[m] .. FirstDay[m + 1] - 1
      BY DEF DaysOf
    <3>2. FirstDay[m] \in Nat /\ FirstDay[m + 1] \in Nat
      BY <1>2, CalendarShape
    <3> QED BY <3>1, <3>2
  <2>3. j <= 11
    <3> SUFFICES ASSUME ~(j <= 11) PROVE FALSE
      OBVIOUS
    <3>1. j \in Nat /\ j >= 12 /\ Entries > 12 /\ i \in 0 .. 11 /\ MonthOf[day] - i = m
      BY <1>2, <1>3
    <3> HIDE DEF day
    <3>2. day - 30 * j < FirstDay[MonthOf[day] - i]
      BY <1>1, <1>2, <3>1, LongListsReachBack DEF day
    <3>3. d < FirstDay[m] /\ d \in Int
      <4>1. day - 30 * j \in Days
        BY <1>1, <1>3, EntriesAreApart
      <4> QED BY <2>1, <3>1, <3>2, <4>1, CalendarShape DEF day
    <3> QED BY <2>2, <3>3
  <2>6. MonthOf[d] = ThisMonth - j /\ d \in Days /\ j \in Int
    BY <1>3, <1>4, <2>1, <2>3
  <2>4. MonthOf[d] = m
    BY <1>2, <2>2, <2>6, MonthOfIs
  <2>5. i = j
    BY <1>2, <2>4, <2>6
  <2> QED BY <2>1, <2>5
<1>7. ASSUME i \in EntriesOf(x)
      PROVE  /\ P = {day - 30 * i}
             /\ rows[b][day - 30 * i] = sold[m]
  <2> DEFINE e == day - 30 * i
  <2>1. MonthOf[e] = m /\ e \in Days
    BY <1>2, <1>3, <1>4, <1>7
  <2>2. e \in DaysOf(m)
    <3>1. FirstDay[m] <= e /\ e < FirstDay[m + 1]
      BY <2>1, MonthOfDay
    <3>2. FirstDay[m] \in Nat /\ FirstDay[m + 1] \in Nat /\ e \in Int
      BY <1>2, <2>1, CalendarShape
    <3> HIDE DEF e
    <3> QED BY <3>1, <3>2 DEF DaysOf
  <2>3. e \in DOMAIN rows[b]
    BY <1>5, <1>7
  <2>4. rows[b][e] = sold[MonthOf[day] - i]
    BY <1>1, <1>7 DEF RowsAre
  <2>5. P = {e}
    BY <1>6, <2>2, <2>3
  <2> QED BY <1>2, <2>4, <2>5
<1>8. sold[m] \in Nat
  BY <1>2 DEF SalesInv, SalesTypeOK
<1>9. CASE i \in EntriesOf(x)
  <2> DEFINE e == day - 30 * i
             f == rows[b]
  <2>1. P = {e} /\ f[e] = sold[m]
    BY <1>7, <1>9
  <2> HIDE DEF e, f, P
  <2>2. SumOver(P, f) = sold[m]
    <3>1. f[e] \in Int
      BY <1>8, <2>1
    <3>2. SumOver({e}, f) = f[e]
      BY <3>1, SumOfOne
    <3> QED BY <2>1, <3>2
  <2>3. k + Entries > Window
    BY <1>2, <1>3, <1>9
  <2> QED BY <2>2, <2>3 DEF SoldOn, P, f, m
<1>10. CASE i \notin EntriesOf(x)
  <2>1. P = {}
    BY <1>6, <1>10
  <2>2. SumOver(P, rows[b]) = 0
    BY <2>1, SumEmpty
  <2>3. k + Entries > Window => sold[m] = 0
    <3> SUFFICES ASSUME k + Entries > Window, sold[m] # 0 PROVE FALSE
      OBVIOUS
    <3>1. i \in 0 .. Entries - 1
      BY <1>2
    <3>2. sold[MonthOf[day] - i] # 0
      BY <1>2
    <3> QED BY <1>1, <1>10, <3>1, <3>2 DEF EntriesOf
  <2> QED BY <2>2, <2>3 DEF SoldOn, m
<1> QED BY <1>9, <1>10

(* The property of the same name, on every calendar with the month lengths  *)
(* of ours: one complete import on a safe day gives the velocity the sales  *)
(* of each month.                                                           *)
THEOREM OneSafeImportIsExact == SalesSpec => []SafeImportIsExact
<1>1. SalesInv => SafeImportIsExact
  <2> SUFFICES ASSUME SalesInv, NEW b \in Sellers, NEW x \in Complete(b),
                      imports[b] = {x}, IsSafe(x.day), MonthOf[x.day] = ThisMonth
               PROVE  MonthlySales({b})
                        = [k \in 1 .. Window |-> IF k + Entries > Window THEN sold[MonthAt(k)] ELSE 0]
    BY DEF SafeImportIsExact
  <2>1. MonthlySales({b}) = [k \in 1 .. Window |-> SoldOn(b, DaysOf(MonthAt(k)))]
    BY OneSeller
  <2>2. \A k \in 1 .. Window : SoldOn(b, DaysOf(MonthAt(k)))
                                 = IF k + Entries > Window THEN sold[MonthAt(k)] ELSE 0
    BY SafeImportIsListed
  <2> QED BY <2>1, <2>2
<1> QED BY <1>1, SalesInvariant, PTL

--------------------------------------------------------------------------------
(* Rising sales. *)

LEMMA WeightsRise ==
  /\ \A k \in 1 .. Window : Weight(k) \in Int
  /\ \A k \in 2 .. Window : Weight(k - 1) < Weight(k)
<1>1. Window \in 1 .. 12 /\ AtLeastOne(Window - 1) \in Int
  BY SalesConstants DEF AtLeastOne
<1> QED BY <1>1 DEF Weight

(* The velocities of the branches add up to the velocity of the center.     *)
LEMMA VelocitiesAddUp ==
  ASSUME SalesInv, NEW dc \in Sellers
  PROVE  DcVelocity(dc) = WeightedSum(AggregateSales(dc))
<1> DEFINE K == 1 .. Window
           at == [b \in Sellers |-> [k \in K |-> SoldOn(b, DaysOf(MonthAt(k)))]]
           M == [b \in Sellers |-> [k \in K |-> at[b][k] * Weight(k)]]
           L == [b \in Sellers |-> SumOver(K, M[b])]
           R == [k \in K |-> SumOver(Sellers, [b \in Sellers |-> M[b][k]])]
           others == Sellers \ {dc}
           rest == [b \in others |-> WeightedSum(MonthlySales({b}))]
<1>1. IsFiniteSet(K) /\ IsFiniteSet(Sellers) /\ IsFiniteSet(others)
  BY SalesConstants, FS_Interval, FS_Subset
<1>2. \A b \in Sellers, k \in K : at[b][k] \in Int /\ at[b][k] = SoldOn(b, DaysOf(MonthAt(k)))
  <2> SUFFICES ASSUME NEW b \in Sellers, NEW k \in K PROVE SoldOn(b, DaysOf(MonthAt(k))) \in Int
    OBVIOUS
  <2>1. SoldOn(b, DaysOf(MonthAt(k))) \in Nat
    BY SoldIsNat
  <2> QED BY <2>1
<1>3. \A b \in Sellers, k \in K : M[b][k] = at[b][k] * Weight(k) /\ M[b][k] \in Int
  <2> SUFFICES ASSUME NEW b \in Sellers, NEW k \in K
               PROVE  M[b][k] = at[b][k] * Weight(k) /\ M[b][k] \in Int
    OBVIOUS
  <2>1. M[b][k] = at[b][k] * Weight(k)
    OBVIOUS
  <2>2. at[b][k] \in Int /\ Weight(k) \in Int
    BY <1>2, WeightsRise
  <2> HIDE DEF M, at
  <2> QED BY <2>1, <2>2
<1>4. \A b \in Sellers : WeightedSum(MonthlySales({b})) = L[b]
  <2> SUFFICES ASSUME NEW b \in Sellers PROVE WeightedSum(MonthlySales({b})) = L[b]
    OBVIOUS
  <2>1. MonthlySales({b}) = at[b]
    BY OneSeller
  <2>2. WeightedSum(at[b]) = SumOver(K, [k \in K |-> at[b][k] * Weight(k)])
    BY DEF WeightedSum
  <2>3. M[b] = [k \in K |-> at[b][k] * Weight(k)] /\ L[b] = SumOver(K, M[b])
    OBVIOUS
  <2> HIDE DEF at, M, L
  <2> QED BY <2>1, <2>2, <2>3
<1>5. \A b \in Sellers : L[b] \in Int
  <2> SUFFICES ASSUME NEW b \in Sellers PROVE SumOver(K, M[b]) \in Int
    OBVIOUS
  <2> DEFINE f == M[b]
  <2>1. \A k \in K : f[k] \in Int
    <3> HIDE DEF M, K
    <3> QED BY <1>3
  <2> HIDE DEF f, K
  <2>2. SumOver(K, f) \in Int
    BY <1>1, <2>1, SumInt
  <2> QED BY <2>2 DEF f
<1>6. DcVelocity(dc) = SumOver(Sellers, L)
  <2>1. \A b \in others : L[b] \in Int /\ rest[b] = L[b]
    BY <1>4, <1>5
  <2>2. DcVelocity(dc) = WeightedSum(MonthlySales({dc})) + SumOver(others, rest)
    BY DEF DcVelocity
  <2> HIDE DEF L, rest
  <2>3. SumOver(others, rest) = SumOver(others, L)
    BY <1>1, <2>1, SumSame
  <2>4. SumOver(Sellers, L) = L[dc] + SumOver(Sellers \ {dc}, L)
    BY <1>1, <1>5, SumElement
  <2> QED BY <1>4, <2>2, <2>3, <2>4
<1>7. SumOver(Sellers, L) = SumOver(K, R)
  <2> HIDE DEF M, K
  <2> QED BY <1>1, <1>3, SumSwap
<1>8. WeightedSum(AggregateSales(dc)) = SumOver(K, R)
  <2> DEFINE s == AggregateSales(dc)
             col(k) == [b \in Sellers |-> at[b][k]]
             wcol(k) == [b \in Sellers |-> M[b][k]]
  <2>1. \A k \in K : s[k] = SumOver(Sellers, col(k))
    <3> SUFFICES ASSUME NEW k \in K PROVE s[k] = SumOver(Sellers, col(k))
      OBVIOUS
    <3>1. s[k] = SumOver(Sellers, [b \in Sellers |-> SoldOn(b, DaysOf(MonthAt(k)))])
      BY DEF AggregateSales, MonthlySales
    <3>2. col(k) = [b \in Sellers |-> SoldOn(b, DaysOf(MonthAt(k)))]
      BY <1>2
    <3> QED BY <3>1, <3>2
  <2>2. \A k \in K : SumOver(Sellers, wcol(k)) = SumOver(Sellers, col(k)) * Weight(k)
    <3> SUFFICES ASSUME NEW k \in K
                 PROVE  SumOver(Sellers, wcol(k)) = SumOver(Sellers, col(k)) * Weight(k)
      OBVIOUS
    <3> DEFINE f == col(k)
               g == wcol(k)
               a == Weight(k)
    <3>1. a \in Int /\ \A b \in Sellers : f[b] \in Int /\ g[b] = f[b] * a
      BY <1>2, <1>3, WeightsRise
    <3> HIDE DEF f, g, a
    <3>2. SumOver(Sellers, g) = SumOver(Sellers, f) * a
      BY <1>1, <3>1, SumScale
    <3> QED BY <3>2 DEF f, g, a
  <2>3. \A k \in K : R[k] = SumOver(Sellers, wcol(k))
    OBVIOUS
  <2>4. R = [k \in K |-> s[k] * Weight(k)]
    <3> HIDE DEF s, col, wcol, M, at
    <3> QED BY <2>1, <2>2, <2>3
  <2> HIDE DEF R
  <2> QED BY <2>4 DEF WeightedSum
<1> QED BY <1>6, <1>7, <1>8

(* The demand of a distribution center is computed twice in the code, by    *)
(* adding velocities up and as the velocity of what was added up.           *)
CenterVelocitiesAgree ==
  \A dc \in Sellers : DcVelocity(dc) = WeightedSum(AggregateSales(dc))

(* AC-5 of the velocity specification: the two never differ, whatever each  *)
(* branch has imported and lost.                                            *)
THEOREM CenterVelocityIsOne == SalesSpec => []CenterVelocitiesAgree
<1>1. SalesInv => CenterVelocitiesAgree
  BY VelocitiesAddUp DEF CenterVelocitiesAgree
<1> QED BY <1>1, SalesInvariant, PTL

(* The property of the same name: when sales rise, weighing the months puts *)
(* the demand of a distribution center above the mean of the sales.         *)
THEOREM RisingSalesAreAboveMean == SalesSpec => []RisingIsAboveMean
<1>1. SalesInv => RisingIsAboveMean
  <2> SUFFICES ASSUME SalesInv, NEW dc \in Sellers,
                      \A k \in 2 .. Window : AggregateSales(dc)[k - 1] <= AggregateSales(dc)[k],
                      AggregateSales(dc)[1] < AggregateSales(dc)[Window]
               PROVE  DcVelocity(dc) * Window > Total(AggregateSales(dc)) * WeightTotal
    BY DEF RisingIsAboveMean
  <2> DEFINE s == AggregateSales(dc)
             w == [k \in 1 .. Window |-> Weight(k)]
             n == Window
  <2>1. \A k \in 1 .. n : s[k] \in Int
    <3> SUFFICES ASSUME NEW k \in 1 .. n PROVE s[k] \in Int
      OBVIOUS
    <3> DEFINE f == [b \in Sellers |-> SoldOn(b, DaysOf(MonthAt(k)))]
    <3>1. s[k] = SumOver(Sellers, f)
      BY DEF AggregateSales, MonthlySales
    <3>2. \A b \in Sellers : f[b] \in Int
      <4> SUFFICES ASSUME NEW b \in Sellers PROVE SoldOn(b, DaysOf(MonthAt(k))) \in Int
        OBVIOUS
      <4>1. SoldOn(b, DaysOf(MonthAt(k))) \in Nat
        BY SoldIsNat
      <4> QED BY <4>1
    <3> HIDE DEF f
    <3> QED BY <3>1, <3>2, SalesConstants, SumInt
  <2>2. /\ \A k \in 1 .. n : w[k] \in Int /\ w[k] = Weight(k)
        /\ \A k \in 2 .. n : w[k - 1] < w[k]
    <3>1. \A k \in 2 .. n : k \in 1 .. n /\ k - 1 \in 1 .. n
      BY SalesConstants
    <3> QED BY <3>1, WeightsRise
  <2>3. n \in Nat /\ n >= 2
    <3>1. n \in 1 .. 12 /\ s[1] \in Int
      BY <2>1, SalesConstants
    <3>2. n # 1
      BY <3>1
    <3> QED BY <3>1, <3>2
  <2>4. /\ \A k \in 2 .. n : s[k - 1] <= s[k]
        /\ s[1] < s[n]
    OBVIOUS
  <2> HIDE DEF s, w
  <2>5. SumOver(1 .. n, [k \in 1 .. n |-> s[k] * w[k]]) * n > SumOver(1 .. n, s) * SumOver(1 .. n, w)
    <3> HIDE DEF n
    <3> QED BY <2>1, <2>2, <2>3, <2>4, RisingWeighsMore
  <2>6. WeightedSum(s) = SumOver(1 .. n, [k \in 1 .. n |-> s[k] * w[k]])
    <3>1. [k \in 1 .. n |-> s[k] * w[k]] = [k \in 1 .. n |-> s[k] * Weight(k)]
      BY <2>2
    <3> QED BY <3>1 DEF WeightedSum
  <2>7. WeightTotal = SumOver(1 .. n, w) /\ Total(s) = SumOver(1 .. n, s)
    BY DEF WeightTotal, Total, w
  <2>8. DcVelocity(dc) = WeightedSum(s)
    BY VelocitiesAddUp DEF s
  <2> QED BY <2>5, <2>6, <2>7, <2>8 DEF s
<1> QED BY <1>1, SalesInvariant, PTL

(* AC-1 of the velocity specification, where it does hold: of one complete  *)
(* import on a safe day that reaches back as far as the window, the         *)
(* velocity of a flat history is what was sold in each month.               *)
FlatImportIsExact ==
  \A b \in Sellers : \A x \in Complete(b) :
    /\ imports[b] = {x} /\ IsSafe(x.day) /\ MonthOf[x.day] = ThisMonth
    /\ Entries >= Window /\ \A m \in Months : sold[m] = sold[1]
    => WeightedSum(MonthlySales({b})) = sold[1] * WeightTotal

(* Every history with one import: a flat one gives exactly its monthly      *)
(* quantity, whatever the window and however long the list is.              *)
THEOREM FlatSalesAreExact == SalesSpec => []FlatImportIsExact
<1>1. SalesInv => FlatImportIsExact
  <2> SUFFICES ASSUME SalesInv, NEW b \in Sellers, NEW x \in Complete(b),
                      imports[b] = {x}, IsSafe(x.day), MonthOf[x.day] = ThisMonth,
                      Entries >= Window, \A m \in Months : sold[m] = sold[1]
               PROVE  WeightedSum(MonthlySales({b})) = sold[1] * WeightTotal
    BY DEF FlatImportIsExact
  <2> DEFINE K == 1 .. Window
             s == MonthlySales({b})
             w == [k \in K |-> Weight(k)]
             g == [k \in K |-> s[k] * Weight(k)]
             a == sold[1]
  <2>1. a \in Int
    <3>1. 1 \in Months
      BY CalendarShape DEF Months
    <3> QED BY <3>1 DEF SalesInv, SalesTypeOK
  <2>2. \A k \in K : s[k] = a
    <3> SUFFICES ASSUME NEW k \in K PROVE s[k] = a
      OBVIOUS
    <3>1. s[k] = SoldOn(b, DaysOf(MonthAt(k)))
      BY OneSeller
    <3>2. SoldOn(b, DaysOf(MonthAt(k))) = IF k + Entries > Window THEN sold[MonthAt(k)] ELSE 0
      BY SafeImportIsListed
    <3>3. k + Entries > Window
      BY SalesConstants
    <3>4. MonthAt(k) \in Months
      BY WindowMonths
    <3> QED BY <3>1, <3>2, <3>3, <3>4
  <2>3. IsFiniteSet(K)
    BY SalesConstants, FS_Interval
  <2>4. \A k \in K : w[k] \in Int /\ w[k] = Weight(k) /\ g[k] = s[k] * Weight(k)
    BY WeightsRise
  <2>5. WeightedSum(s) = SumOver(K, g) /\ WeightTotal = SumOver(K, w)
    BY DEF WeightedSum, WeightTotal
  <2> HIDE DEF K, s, w, g, a
  <2>6. \A k \in K : w[k] \in Int /\ g[k] = w[k] * a
    BY <2>1, <2>2, <2>4
  <2>7. SumOver(K, g) = SumOver(K, w) * a
    BY <2>1, <2>3, <2>6, SumScale
  <2>8. SumOver(K, w) \in Int
    BY <2>3, <2>6, SumInt
  <2>9. WeightedSum(s) = a * WeightTotal
    BY <2>1, <2>5, <2>7, <2>8
  <2> QED BY <2>9 DEF s, a
<1> QED BY <1>1, SalesInvariant, PTL
================================================================================
