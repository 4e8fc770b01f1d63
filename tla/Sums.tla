---------------------------------- MODULE Sums ---------------------------------
(***************************************************************************)
(* What the proofs share: induction over numbers and finite sets, as a     *)
(* least counterexample, and sums over finite sets (balances, invoices,    *)
(* the price of a stay).                                                   *)
(***************************************************************************)
EXTENDS FiniteSetsExt, FiniteSetTheorems, WellFoundedInduction, TLAPS

--------------------------------------------------------------------------------
(* Least counterexamples.                                                  *)

LEMMA NatLeast ==
  ASSUME NEW S \in SUBSET Nat, S # {}
  PROVE  \E m \in S : \A n \in S : m <= n
<1> DEFINE R == {ss \in Nat \X Nat : ss[1] < ss[2]}
<1>1. IsWellFoundedOn(R, Nat)
  BY NatLessThanWellFounded, Zenon DEF OpToRel
<1>2. PICK m \in S : \A n \in S : ~(<<n, m>> \in R)
  BY <1>1, WFMin, Zenon
<1>3. ASSUME NEW n \in S PROVE m <= n
  <2>1. <<n, m>> \in R <=> n < m
    OBVIOUS
  <2> HIDE DEF R
  <2> QED BY <1>2, <2>1
<1> QED BY <1>3

(* A smallest set among some of the subsets of a finite set.               *)
LEMMA SetLeast ==
  ASSUME NEW N, IsFiniteSet(N), NEW B \in SUBSET SUBSET N, B # {}
  PROVE  \E s \in B : IsFiniteSet(s) /\ \A x \in s : s \ {x} \notin B
<1> DEFINE Sizes == {Cardinality(s) : s \in B}
<1>1. \A s \in B : IsFiniteSet(s) /\ Cardinality(s) \in Nat
  BY FS_Subset, FS_CardinalityType
<1>2. PICK n \in Sizes : \A k \in Sizes : n <= k
  <2>1. Sizes \in SUBSET Nat /\ Sizes # {}
    BY <1>1
  <2> HIDE DEF Sizes
  <2> QED BY <2>1, NatLeast
<1>3. PICK s \in B : n = Cardinality(s)
  OBVIOUS
<1>4. ASSUME NEW x \in s, s \ {x} \in B PROVE FALSE
  <2>1. Cardinality(s \ {x}) = Cardinality(s) - 1
    BY <1>1, FS_RemoveElement
  <2>2. Cardinality(s) <= Cardinality(s \ {x})
    BY <1>2, <1>3, <1>4
  <2> QED BY <1>1, <2>1, <2>2
<1> QED BY <1>1, <1>4

--------------------------------------------------------------------------------
(* The sum of a function's values.                                         *)
Total(A) == MapThenSumSet(LAMBDA i : A[i], DOMAIN A)

Pick(s) == CHOOSE x \in s : TRUE

(* g[s] is the sum over s, for the sets s of at most m elements of S.      *)
Summed(g, A, S, m) ==
  g = [s \in SUBSET S |->
         IF s = {} \/ Cardinality(s) > m THEN 0 ELSE A[Pick(s)] + g[s \ {Pick(s)}]]

LEMMA SumsFollow ==
  ASSUME NEW A, IsFiniteSet(DOMAIN A)
  PROVE  \E g : /\ g = [s \in SUBSET DOMAIN A |->
                          IF s = {} THEN 0 ELSE A[Pick(s)] + g[s \ {Pick(s)}]]
                /\ Total(A) = g[DOMAIN A]
<1> DEFINE S == DOMAIN A
           n == Cardinality(S)
           Bad == {m \in 0..n : ~\E g : Summed(g, A, S, m)}
<1>1. n \in Nat /\ \A s \in SUBSET S : Cardinality(s) \in Nat /\ Cardinality(s) <= n
  BY FS_CardinalityType, FS_Subset
<1>2. ASSUME NEW s \in SUBSET S, s # {}
      PROVE  /\ s \ {Pick(s)} \in SUBSET S
             /\ Cardinality(s \ {Pick(s)}) = Cardinality(s) - 1
  <2>1. Pick(s) \in s /\ IsFiniteSet(s)
    BY <1>2, FS_Subset DEF Pick
  <2> QED BY <2>1, FS_RemoveElement
<1> HIDE DEF S, n
<1>3. Bad = {}
  <2> SUFFICES ASSUME Bad # {} PROVE FALSE
    OBVIOUS
  <2>1. PICK m \in Bad : \A k \in Bad : m <= k
    <3>1. Bad \in SUBSET Nat
      BY <1>1
    <3> HIDE DEF Bad
    <3> QED BY <3>1, NatLeast
  <2>2. m # 0
    <3> DEFINE none == [s \in SUBSET S |-> 0]
    <3>1. \A s \in SUBSET S : s = {} \/ Cardinality(s) > 0
      <4> SUFFICES ASSUME NEW s \in SUBSET S, s # {} PROVE Cardinality(s) > 0
        OBVIOUS
      <4>1. Cardinality(s \ {Pick(s)}) \in Nat
        BY <1>1, <1>2
      <4> QED BY <1>1, <1>2, <4>1
    <3>2. Summed(none, A, S, 0)
      BY <3>1 DEF Summed
    <3> QED BY <2>1, <3>2
  <2>3. m \in 0..n /\ m - 1 \in 0..n /\ m - 1 \notin Bad
    BY <1>1, <2>1, <2>2
  <2>4. PICK g : Summed(g, A, S, m - 1)
    BY <2>3
  <2> DEFINE h == [s \in SUBSET S |-> IF Cardinality(s) = m THEN A[Pick(s)] + g[s \ {Pick(s)}]
                                      ELSE g[s]]
  <2>5. ASSUME NEW s \in SUBSET S
        PROVE  h[s] = IF s = {} \/ Cardinality(s) > m THEN 0 ELSE A[Pick(s)] + h[s \ {Pick(s)}]
    <3>1. /\ g[s] = IF s = {} \/ Cardinality(s) > m - 1 THEN 0
                    ELSE A[Pick(s)] + g[s \ {Pick(s)}]
          /\ h[s] = IF Cardinality(s) = m THEN A[Pick(s)] + g[s \ {Pick(s)}] ELSE g[s]
      BY <2>4 DEF Summed
    <3>2. s # {} => s \ {Pick(s)} \in SUBSET S /\ Cardinality(s \ {Pick(s)}) = Cardinality(s) - 1
      BY <1>2
    <3>3. s # {} /\ Cardinality(s) <= m => h[s \ {Pick(s)}] = g[s \ {Pick(s)}]
      BY <1>1, <2>3, <3>2
    <3>4. s = {} => Cardinality(s) = 0
      BY FS_EmptySet
    <3>5. Cardinality(s) \in Nat /\ m \in Nat
      BY <1>1, <2>3
    <3> HIDE DEF h
    <3> QED BY <2>2, <3>1, <3>3, <3>4, <3>5
  <2>6. Summed(h, A, S, m)
    <3>1. h = [s \in SUBSET S |-> h[s]]
      OBVIOUS
    <3> HIDE DEF h
    <3> QED BY <2>5, <3>1 DEF Summed
  <2> QED BY <2>1, <2>6
<1>4. PICK f : Summed(f, A, S, n)
  <2>1. n \in 0..n
    BY <1>1
  <2>2. n \notin Bad
    <3> HIDE DEF Bad
    <3> QED BY <1>3
  <2> QED BY <2>1, <2>2
<1> DEFINE There(g) == [s \in SUBSET S |->
                          IF s = {} THEN 0 ELSE A[Pick(s)] + g[s \ {Pick(s)}]]
<1>5. f = There(f)
  <2>1. \A s \in SUBSET S : ~(Cardinality(s) > n)
    BY <1>1
  <2> QED BY <1>4, <2>1 DEF Summed
<1>6. Total(A) = (CHOOSE g : g = There(g))[S]
  BY DEF Total, MapThenSumSet, MapThenFoldSet, S, Pick
<1> HIDE DEF There
<1>7. PICK g : g = There(g) /\ Total(A) = g[S]
  <2>1. (CHOOSE g : g = There(g)) = There(CHOOSE g : g = There(g))
    BY <1>5, Zenon
  <2> QED BY <1>6, <2>1
<1> QED BY <1>7 DEF There, S

(* Sums compare as their terms do.                                         *)
LEMMA SumsCompare ==
  ASSUME NEW N, IsFiniteSet(N), NEW U \in [N -> Int], NEW A \in [N -> Int], NEW B \in [N -> Int],
         \A i \in N : U[i] >= B[i] - A[i]
  PROVE  Total(U) >= Total(B) - Total(A)
<1>1. PICK u : /\ u = [s \in SUBSET N |-> IF s = {} THEN 0 ELSE U[Pick(s)] + u[s \ {Pick(s)}]]
               /\ Total(U) = u[N]
  <2>1. DOMAIN U = N
    OBVIOUS
  <2> QED BY <2>1, SumsFollow
<1>2. PICK a : /\ a = [s \in SUBSET N |-> IF s = {} THEN 0 ELSE A[Pick(s)] + a[s \ {Pick(s)}]]
               /\ Total(A) = a[N]
  <2>1. DOMAIN A = N
    OBVIOUS
  <2> QED BY <2>1, SumsFollow
<1>3. PICK b : /\ b = [s \in SUBSET N |-> IF s = {} THEN 0 ELSE B[Pick(s)] + b[s \ {Pick(s)}]]
               /\ Total(B) = b[N]
  <2>1. DOMAIN B = N
    OBVIOUS
  <2> QED BY <2>1, SumsFollow
<1> DEFINE Right(s) == /\ u[s] \in Int /\ a[s] \in Int /\ b[s] \in Int
                       /\ u[s] >= b[s] - a[s]
           Bad == {m \in Nat : \E s \in SUBSET N : Cardinality(s) = m /\ ~Right(s)}
<1>4. Bad = {}
  <2> SUFFICES ASSUME Bad # {} PROVE FALSE
    OBVIOUS
  <2>1. PICK m \in Bad : \A k \in Bad : m <= k
    <3>1. Bad \in SUBSET Nat
      OBVIOUS
    <3> HIDE DEF Bad
    <3> QED BY <3>1, NatLeast
  <2>2. PICK s \in SUBSET N : Cardinality(s) = m /\ ~Right(s)
    BY <2>1
  <2>3. CASE s = {}
    BY <1>1, <1>2, <1>3, <2>2, <2>3
  <2>4. CASE s # {}
    <3> DEFINE x == Pick(s)
               r == s \ {x}
    <3>1. x \in s /\ x \in N /\ IsFiniteSet(s)
      BY <2>4, FS_Subset DEF Pick
    <3>2. r \in SUBSET N /\ Cardinality(r) = m - 1 /\ IsFiniteSet(r)
      BY <2>2, <3>1, FS_RemoveElement
    <3>3. Cardinality(r) \in Nat
      BY <3>2, FS_CardinalityType
    <3>4. u[s] = U[x] + u[r] /\ a[s] = A[x] + a[r] /\ b[s] = B[x] + b[r]
      BY <1>1, <1>2, <1>3, <2>4
    <3> HIDE DEF x, r
    <3>5. Right(r)
      <4>1. m - 1 \in Nat /\ ~(m <= m - 1) /\ m - 1 \notin Bad
        <5>1. m \in Nat /\ m - 1 \in Nat
          BY <3>2, <3>3
        <5> HIDE DEF Bad
        <5> QED BY <2>1, <5>1
      <4> HIDE DEF Right
      <4> QED BY <3>2, <4>1
    <3>6. U[x] \in Int /\ A[x] \in Int /\ B[x] \in Int /\ U[x] >= B[x] - A[x]
      BY <3>1
    <3>7. Right(s)
      BY <3>4, <3>5, <3>6
    <3> QED BY <2>2, <3>7
  <2> QED BY <2>3, <2>4
<1>5. Right(N)
  <2>1. Cardinality(N) \in Nat
    BY FS_CardinalityType
  <2>2. Cardinality(N) \notin Bad
    <3> HIDE DEF Bad
    <3> QED BY <1>4
  <2> HIDE DEF Right
  <2> QED BY <2>1, <2>2
<1> QED BY <1>1, <1>2, <1>3, <1>5

--------------------------------------------------------------------------------
(* Sums of parts.                                                          *)

(* g[s] is the sum of A over s, for every set s of terms.                  *)
SumsOf(g, A) ==
  g = [s \in SUBSET DOMAIN A |-> IF s = {} THEN 0 ELSE A[Pick(s)] + g[s \ {Pick(s)}]]

(* What a recursion step says of the sum over s.                           *)
Stepwise(g, A, s) ==
  /\ s = {} => g[s] = 0
  /\ s # {} => Pick(s) \in s /\ g[s] = A[Pick(s)] + g[s \ {Pick(s)}]

LEMMA SumsStep ==
  ASSUME NEW N, NEW A \in [N -> Int], NEW g, SumsOf(g, A)
  PROVE  \A s \in SUBSET N : Stepwise(g, A, s)
<1> SUFFICES ASSUME NEW s \in SUBSET N PROVE Stepwise(g, A, s)
  OBVIOUS
<1>1. g[s] = IF s = {} THEN 0 ELSE A[Pick(s)] + g[s \ {Pick(s)}]
  BY DEF SumsOf
<1>2. s # {} => Pick(s) \in s
  BY DEF Pick
<1> QED BY <1>1, <1>2 DEF Stepwise

LEMMA SumsInt ==
  ASSUME NEW N, IsFiniteSet(N), NEW A \in [N -> Int], NEW g, SumsOf(g, A)
  PROVE  \A s \in SUBSET N : g[s] \in Int
<1> DEFINE Bad == {s \in SUBSET N : g[s] \notin Int}
<1>1. Bad \in SUBSET SUBSET N
  OBVIOUS
<1>2. ASSUME Bad # {} PROVE FALSE
  <2>1. PICK s \in Bad : \A x \in s : s \ {x} \notin Bad
    <3> HIDE DEF Bad
    <3> QED BY <1>1, <1>2, SetLeast
  <2>2. s \in SUBSET N /\ g[s] \notin Int /\ \A x \in s : g[s \ {x}] \in Int
    BY <2>1
  <2>3. Stepwise(g, A, s)
    BY <2>2, SumsStep
  <2> DEFINE x == Pick(s)
  <2>4. s # {} => x \in s /\ A[x] \in Int
    BY <2>2, <2>3 DEF Stepwise
  <2> QED BY <2>2, <2>3, <2>4 DEF Stepwise
<1> QED BY <1>2

(* Whichever term is taken first.                                          *)
LEMMA SumsOfAnyOrder ==
  ASSUME NEW N, IsFiniteSet(N), NEW A \in [N -> Int], NEW g, SumsOf(g, A)
  PROVE  \A s \in SUBSET N : \A x \in s : g[s] = A[x] + g[s \ {x}]
<1> DEFINE Right(s) == \A x \in s : g[s] = A[x] + g[s \ {x}]
           Bad == {s \in SUBSET N : ~Right(s)}
<1>1. Bad \in SUBSET SUBSET N
  OBVIOUS
<1>2. ASSUME Bad # {} PROVE FALSE
  <2>1. PICK s \in Bad : \A x \in s : s \ {x} \notin Bad
    <3> HIDE DEF Bad
    <3> QED BY <1>1, <1>2, SetLeast
  <2>2. s \in SUBSET N /\ ~Right(s) /\ \A x \in s : Right(s \ {x})
    BY <2>1
  <2> DEFINE y == Pick(s)
             r == s \ {y}
  <2>3. y \in s /\ A[y] \in Int /\ g[s] = A[y] + g[r]
    <3>1. Stepwise(g, A, s)
      BY <2>2, SumsStep
    <3>2. s # {}
      BY <2>2
    <3>3. y \in s /\ g[s] = A[y] + g[r]
      BY <3>1, <3>2 DEF Stepwise
    <3> HIDE DEF y
    <3> QED BY <2>2, <3>3
  <2> HIDE DEF y
  <2>4. \A x \in r : g[r] = A[x] + g[r \ {x}]
    BY <2>2, <2>3
  <2>5. ASSUME NEW x \in s, x # y PROVE g[s] = A[x] + g[s \ {x}]
    <3>1. g[r] = A[x] + g[r \ {x}]
      BY <2>4, <2>5
    <3>2. g[s \ {x}] = A[y] + g[(s \ {x}) \ {y}]
      BY <2>2, <2>3, <2>5
    <3>3. (s \ {x}) \ {y} = r \ {x}
      OBVIOUS
    <3> DEFINE rest == g[r \ {x}]
               p == A[x]
               q == A[y]
    <3>4. p \in Int /\ q \in Int /\ rest \in Int
      BY <2>2, <2>3, SumsInt
    <3>5. g[s \ {x}] = q + rest /\ g[s] = q + g[r] /\ g[r] = p + rest
      BY <2>3, <3>1, <3>2, <3>3
    <3> HIDE DEF r, rest, p, q
    <3>6. g[s] = p + g[s \ {x}]
      BY <3>4, <3>5
    <3> QED BY <3>6 DEF p
  <2> QED BY <2>2, <2>3, <2>5
<1> QED BY <1>2

Splits(g, N, P) == \A s \in SUBSET N : g[s] = g[s \ P] + g[s \cap P]

(* The sum over a set is the sum over what is in P and what is not.        *)
LEMMA SumsSplit ==
  ASSUME NEW N, IsFiniteSet(N), NEW A \in [N -> Int], NEW g, SumsOf(g, A), NEW P \in SUBSET N
  PROVE  Splits(g, N, P)
<1> DEFINE Right(s) == g[s] = g[s \ P] + g[s \cap P]
           Bad == {s \in SUBSET N : ~Right(s)}
<1>1. Bad \in SUBSET SUBSET N
  OBVIOUS
<1>2. ASSUME Bad # {} PROVE FALSE
  <2>1. PICK s \in Bad : \A x \in s : s \ {x} \notin Bad
    <3> HIDE DEF Bad
    <3> QED BY <1>1, <1>2, SetLeast
  <2>2. s \in SUBSET N /\ ~Right(s) /\ \A x \in s : Right(s \ {x})
    BY <2>1
  <2>3. \A t \in SUBSET N : g[t] \in Int /\ \A x \in t : g[t] = A[x] + g[t \ {x}]
    BY SumsInt, SumsOfAnyOrder
  <2>4. CASE s = {}
    <3>1. g[{}] = 0 /\ s \ P = {} /\ s \cap P = {}
      <4>1. Stepwise(g, A, {})
        BY SumsStep
      <4> QED BY <2>4, <4>1 DEF Stepwise
    <3> QED BY <2>2, <2>4, <3>1
  <2>5. ASSUME NEW x \in s PROVE FALSE
    <3> DEFINE r == s \ {x}
               out == g[r \ P]
               in == g[r \cap P]
    <3>1. A[x] \in Int /\ g[r] \in Int /\ out \in Int /\ in \in Int
      BY <2>2, <2>3
    <3>2. g[s] = A[x] + g[r] /\ g[r] = out + in
      BY <2>2, <2>3
    <3>3. CASE x \in P
      <4>1. s \ P = r \ P /\ (s \cap P) \ {x} = r \cap P
        BY <3>3
      <4>2. g[s \cap P] = A[x] + in
        <5>1. s \cap P \in SUBSET N /\ x \in s \cap P
          BY <2>2, <3>3
        <5>2. g[s \cap P] = A[x] + g[(s \cap P) \ {x}]
          BY <2>3, <5>1
        <5> QED BY <4>1, <5>2
      <4> HIDE DEF r, in, out
      <4>3. g[s] = out + (A[x] + in)
        BY <3>1, <3>2
      <4> QED BY <2>2, <4>1, <4>2, <4>3 DEF out
    <3>4. CASE x \notin P
      <4>1. s \cap P = r \cap P /\ (s \ P) \ {x} = r \ P
        BY <3>4
      <4>2. g[s \ P] = A[x] + out
        BY <2>2, <2>3, <3>4, <4>1
      <4> HIDE DEF r, in, out
      <4>3. g[s] = (A[x] + out) + in
        BY <3>1, <3>2
      <4> QED BY <2>2, <4>1, <4>2, <4>3 DEF in
    <3> QED BY <3>3, <3>4
  <2> QED BY <2>4, <2>5
<1> QED BY <1>2 DEF Splits

Part(A, T) == [i \in T |-> A[i]]

(* The sum of some of the terms.                                           *)
LEMMA TotalOfPart ==
  ASSUME NEW N, IsFiniteSet(N), NEW A \in [N -> Int], NEW g, SumsOf(g, A), NEW T \in SUBSET N
  PROVE  Total(Part(A, T)) = g[T]
<1> DEFINE B == Part(A, T)
<1>1. B \in [T -> Int] /\ DOMAIN B = T /\ IsFiniteSet(T)
  BY FS_Subset DEF Part
<1>2. \A i \in T : B[i] = A[i]
  BY DEF Part
<1> HIDE DEF B
<1>3. PICK h : SumsOf(h, B) /\ Total(B) = h[T]
  BY <1>1, SumsFollow DEF SumsOf
<1> DEFINE Bad == {s \in SUBSET T : h[s] # g[s]}
<1>4. Bad \in SUBSET SUBSET T
  OBVIOUS
<1>5. ASSUME Bad # {} PROVE FALSE
  <2>1. PICK s \in Bad : \A x \in s : s \ {x} \notin Bad
    <3> HIDE DEF Bad
    <3> QED BY <1>1, <1>4, <1>5, SetLeast
  <2>2. s \in SUBSET T /\ s \in SUBSET N /\ h[s] # g[s] /\ \A x \in s : h[s \ {x}] = g[s \ {x}]
    BY <2>1
  <2>3. Stepwise(h, B, s)
    BY <1>1, <1>3, <2>2, SumsStep
  <2>4. Stepwise(g, A, s)
    BY <2>2, SumsStep
  <2> DEFINE x == Pick(s)
  <2>5. s = {} \/ (x \in s /\ h[s] = B[x] + h[s \ {x}] /\ g[s] = A[x] + g[s \ {x}])
    BY <2>3, <2>4 DEF Stepwise
  <2> HIDE DEF x
  <2> QED BY <1>2, <2>2, <2>3, <2>4, <2>5 DEF Stepwise
<1> QED BY <1>3, <1>5 DEF B

(* A sum is the sum of two parts of it.                                    *)
LEMMA TotalSplits ==
  ASSUME NEW N, IsFiniteSet(N), NEW A \in [N -> Int], NEW P \in SUBSET N
  PROVE  /\ Total(A) = Total(Part(A, N \ P)) + Total(Part(A, P))
         /\ Total(Part(A, N \ P)) \in Int /\ Total(Part(A, P)) \in Int
<1>1. DOMAIN A = N
  OBVIOUS
<1>2. PICK g : SumsOf(g, A) /\ Total(A) = g[N]
  BY <1>1, SumsFollow DEF SumsOf
<1>3. Total(Part(A, N \ P)) = g[N \ P] /\ Total(Part(A, P)) = g[P]
  BY <1>2, TotalOfPart
<1>4. g[N] = g[N \ P] + g[P]
  <2>1. \A s \in SUBSET N : g[s] = g[s \ P] + g[s \cap P]
    <3>1. Splits(g, N, P)
      BY <1>2, SumsSplit
    <3> QED BY <3>1 DEF Splits
  <2>2. N \cap P = P
    OBVIOUS
  <2> QED BY <2>1, <2>2
<1>5. g[N \ P] \in Int /\ g[P] \in Int
  BY <1>2, SumsInt
<1> QED BY <1>2, <1>3, <1>4, <1>5

================================================================================
