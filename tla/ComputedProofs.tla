---------------------------- MODULE ComputedProofs -----------------------------
(***************************************************************************)
(* Proofs about what is computed from data: which passages a retrieval     *)
(* shows, what the correlation of answers finds and how a job is scored,   *)
(* for any number of candidates, answers and findings.  The folds these    *)
(* computations are written with come first.                               *)
(***************************************************************************)
EXTENDS AnalysisProofs, Correlation, RiskScoring

-----------------------------------------------------------------------------
(* Induction on numbers and on finite sets; the set P has what is known to hold. *)

LEMMA Upwards ==
  ASSUME NEW N \in Nat, NEW P, 0 \in P, \A n \in Nat : n < N /\ n \in P => n + 1 \in P
  PROVE  \A n \in 0..N : n \in P
<1> DEFINE T == {n \in 0..N : n \notin P}
<1>1. SUFFICES ASSUME T # {} PROVE FALSE
  OBVIOUS
<1>6. T \in SUBSET Nat
  OBVIOUS
<1>2. PICK n \in T : \A m \in T : n <= m
  BY <1>1, <1>6, LeastNat
<1>3. n # 0 /\ n - 1 \in 0..N /\ n - 1 < N /\ n - 1 \notin T
  BY <1>2
<1>4. n - 1 \in P
  BY <1>3
<1>5. QED
  BY <1>2, <1>3, <1>4

\* What every finite set has if it has it whenever its sets with one element less do.
LEMMA BySize ==
  ASSUME NEW T, IsFiniteSet(T), NEW P,
         \A s \in SUBSET T : (\A x \in s : s \ {x} \in P) => s \in P
  PROVE  \A s \in SUBSET T : s \in P
<1> DEFINE bad == {s \in SUBSET T : s \notin P}
           sizes == {Cardinality(s) : s \in bad}
<1>1. SUFFICES ASSUME bad # {} PROVE FALSE
  OBVIOUS
<1>2. \A s \in SUBSET T : IsFiniteSet(s) /\ Cardinality(s) \in Nat
  BY FS_Subset, FS_CardinalityType
<1>3. sizes \in SUBSET Nat /\ sizes # {}
  BY <1>1, <1>2
<1>4. PICK n \in sizes : \A m \in sizes : n <= m
  BY <1>3, LeastNat
<1>5. PICK s \in bad : n = Cardinality(s)
  BY <1>4
<1>6. PICK x \in s : s \ {x} \notin P
  BY <1>5
<1>7. Cardinality(s \ {x}) = Cardinality(s) - 1
  BY <1>2, <1>6, FS_RemoveElement
<1>8. Cardinality(s) <= Cardinality(s \ {x})
  BY <1>4, <1>5, <1>6
<1>9. QED
  BY <1>2, <1>5, <1>7, <1>8

-----------------------------------------------------------------------------
(* A fold takes one element after the other out of a finite set. *)

Picks(pick, T) == \A s \in SUBSET T : s # {} => pick[s] \in s

Folds(g, T, base, pick, op) ==
  \A s \in SUBSET T :
    g[s] = IF s = {} THEN base ELSE op[<<pick[s], g[s \ {pick[s]}]>>]

\* The recursive function a fold is defined with exists; only then does CHOOSE find one.
LEMMA FoldExists ==
  ASSUME NEW T, IsFiniteSet(T), NEW V, NEW base \in V, NEW op \in [T \X V -> V],
         NEW pick, Picks(pick, T)
  PROVE  \E g \in [SUBSET T -> V] : Folds(g, T, base, pick, op)
<1> DEFINE Small(n) == {s \in SUBSET T : Cardinality(s) <= n}
           Next1(g, s) == IF s = {} THEN base ELSE op[<<pick[s], g[s \ {pick[s]}]>>]
           P == {n \in Nat : \E g \in [Small(n) -> V] : \A s \in Small(n) : g[s] = Next1(g, s)}
<1>1. \A s \in SUBSET T : IsFiniteSet(s) /\ Cardinality(s) \in Nat
  BY FS_Subset, FS_CardinalityType
<1>2. \A s \in SUBSET T : s # {} =>
        pick[s] \in T /\ s \ {pick[s]} \in SUBSET T
          /\ Cardinality(s \ {pick[s]}) = Cardinality(s) - 1
  BY <1>1, FS_RemoveElement DEF Picks
<1>3. 0 \in P
  <2>1. Small(0) = {{}}
    BY <1>1, FS_EmptySet
  <2>2. [s \in Small(0) |-> base] \in [Small(0) -> V]
    OBVIOUS
  <2>3. \A s \in Small(0) : [t \in Small(0) |-> base][s] = Next1([t \in Small(0) |-> base], s)
    BY <2>1
  <2>4. QED
    BY <2>2, <2>3
<1>4. ASSUME NEW n \in Nat, n \in P
      PROVE  n + 1 \in P
  <2>1. PICK g \in [Small(n) -> V] : \A s \in Small(n) : g[s] = Next1(g, s)
    BY <1>4
  <2> DEFINE h == [s \in Small(n + 1) |-> IF s \in Small(n) THEN g[s] ELSE Next1(g, s)]
  <2>2. \A s \in Small(n + 1) : s # {} => s \ {pick[s]} \in Small(n)
    BY <1>1, <1>2
  <2>3. \A s \in Small(n + 1) : Next1(g, s) \in V
    BY <1>2, <2>2
  <2>4. h \in [Small(n + 1) -> V]
    BY <2>3
  <2>5. \A s \in Small(n) : s \in Small(n + 1)
    BY <1>1
  <2>6. \A s \in Small(n + 1) : h[s] = Next1(g, s)
    BY <2>1
  <2>7. \A s \in Small(n + 1) : s # {} => h[s \ {pick[s]}] = g[s \ {pick[s]}]
    BY <2>2, <2>5
  <2> HIDE DEF h
  <2>8. \A s \in Small(n + 1) : h[s] = Next1(h, s)
    BY <2>6, <2>7
  <2>9. \E f \in [Small(n + 1) -> V] : \A s \in Small(n + 1) : f[s] = Next1(f, s)
    <3> HIDE DEF Small, Next1
    <3>1. QED
      BY <2>4, <2>8
  <2>10. QED
    <3> HIDE DEF Small, Next1
    <3>1. QED
      BY <2>9
<1>5. Cardinality(T) \in Nat /\ \A s \in SUBSET T : s \in Small(Cardinality(T))
  BY <1>1, FS_Subset
<1>6. Cardinality(T) \in P
  <2> HIDE DEF P
  <2>1. QED
    BY <1>3, <1>4, <1>5, Upwards
<1>7. PICK g \in [Small(Cardinality(T)) -> V] :
        \A s \in Small(Cardinality(T)) : g[s] = Next1(g, s)
  BY <1>6
<1>8. Small(Cardinality(T)) = SUBSET T
  BY <1>5
<1>9. QED
  BY <1>7, <1>8 DEF Folds

-----------------------------------------------------------------------------
(* Sums: MapThenSumSet adds up the values of a finite set. *)

Sum(f, T) == MapThenSumSet(LAMBDA x : f[x], T)

Pick(s) == CHOOSE x \in s : TRUE

Adds(g, f, T) ==
  g = [s \in SUBSET T |-> IF s = {} THEN 0 ELSE f[Pick(s)] + g[s \ {Pick(s)}]]

LEMMA PickIs == \A s : s # {} => Pick(s) \in s
BY DEF Pick

LEMMA AddsExists ==
  ASSUME NEW T, IsFiniteSet(T), NEW f, \A x \in T : f[x] \in Nat
  PROVE  \E g : Adds(g, f, T)
<1> DEFINE op == [p \in T \X Nat |-> f[p[1]] + p[2]]
           pick == [s \in SUBSET T |-> Pick(s)]
<1>1. op \in [T \X Nat -> Nat]
  OBVIOUS
<1>2. Picks(pick, T)
  BY PickIs DEF Picks
<1>3. PICK g \in [SUBSET T -> Nat] : Folds(g, T, 0, pick, op)
  <2> HIDE DEF op, pick
  <2>1. QED
    BY <1>1, <1>2, FoldExists
<1>4. \A s \in SUBSET T : s # {} =>
        op[<<pick[s], g[s \ {pick[s]}]>>] = f[Pick(s)] + g[s \ {Pick(s)}]
  BY PickIs
<1>5. \A s \in SUBSET T : g[s] = IF s = {} THEN 0 ELSE f[Pick(s)] + g[s \ {Pick(s)}]
  <2> HIDE DEF op, pick
  <2>1. QED
    BY <1>3, <1>4 DEF Folds
<1>6. Adds(g, f, T)
  BY <1>5 DEF Adds
<1>7. QED
  BY <1>6

LEMMA AddsType ==
  ASSUME NEW T, IsFiniteSet(T), NEW f, \A x \in T : f[x] \in Nat, NEW g, Adds(g, f, T)
  PROVE  g \in [SUBSET T -> Nat]
<1> DEFINE P == {s \in SUBSET T : g[s] \in Nat}
<1>1. ASSUME NEW s \in SUBSET T, \A x \in s : s \ {x} \in P
      PROVE  s \in P
  <2>1. g[s] = IF s = {} THEN 0 ELSE f[Pick(s)] + g[s \ {Pick(s)}]
    BY DEF Adds
  <2>2. s # {} => f[Pick(s)] \in Nat /\ g[s \ {Pick(s)}] \in Nat
    BY <1>1, PickIs
  <2>3. QED
    BY <2>1, <2>2
<1>2. \A s \in SUBSET T : s \in P
  <2> HIDE DEF P
  <2>1. QED
    BY <1>1, BySize
<1>3. QED
  BY <1>2 DEF Adds

\* A partial sum depends on the values of its own names alone.
LEMMA AddsSame ==
  ASSUME NEW T, IsFiniteSet(T), NEW U \in SUBSET T, NEW f, NEW e, \A x \in U : f[x] = e[x],
         NEW g, NEW h, Adds(g, f, T), Adds(h, e, U)
  PROVE  \A s \in SUBSET U : g[s] = h[s]
<1> DEFINE P == {s \in SUBSET U : g[s] = h[s]}
<1>1. ASSUME NEW s \in SUBSET U, \A x \in s : s \ {x} \in P
      PROVE  s \in P
  <2>1. /\ g[s] = IF s = {} THEN 0 ELSE f[Pick(s)] + g[s \ {Pick(s)}]
        /\ h[s] = IF s = {} THEN 0 ELSE e[Pick(s)] + h[s \ {Pick(s)}]
    BY DEF Adds
  <2>2. s # {} => f[Pick(s)] = e[Pick(s)] /\ g[s \ {Pick(s)}] = h[s \ {Pick(s)}]
    BY <1>1, PickIs
  <2>3. QED
    BY <2>1, <2>2
<1>2. IsFiniteSet(U)
  BY FS_Subset
<1>3. \A s \in SUBSET U : s \in P
  <2> HIDE DEF P
  <2>1. QED
    BY <1>1, <1>2, BySize
<1>4. QED
  BY <1>3

\* A sum is what a function that adds up one element after the other ends with.
LEMMA SumAdds ==
  ASSUME NEW T, IsFiniteSet(T), NEW f, \A x \in T : f[x] \in Nat
  PROVE  \E g : Adds(g, f, T) /\ Sum(f, T) = g[T]
<1> DEFINE g == CHOOSE h : Adds(h, f, T)
<1>1. Adds(g, f, T)
  <2> HIDE DEF g
  <2>1. \E h : Adds(h, f, T)
    BY AddsExists
  <2>2. QED
    BY <2>1 DEF g
<1>2. Sum(f, T) = g[T]
  BY DEF Sum, MapThenSumSet, MapThenFoldSet, Adds, Pick
<1>3. QED
  BY <1>1, <1>2

\* Whatever function a sum is computed with has the sums of all subsets.
LEMMA SumIs ==
  ASSUME NEW T, IsFiniteSet(T), NEW f, \A x \in T : f[x] \in Nat, NEW g, Adds(g, f, T)
  PROVE  \A s \in SUBSET T : g[s] = Sum(f, s) /\ Sum(f, s) \in Nat
<1>1. g \in [SUBSET T -> Nat]
  BY AddsType
<1>2. ASSUME NEW s \in SUBSET T
      PROVE  g[s] = Sum(f, s)
  <2>1. IsFiniteSet(s)
    BY FS_Subset
  <2>2. PICK h : Adds(h, f, s) /\ Sum(f, s) = h[s]
    BY <2>1, SumAdds
  <2>3. g[s] = h[s]
    BY <2>2, AddsSame
  <2>4. QED
    BY <2>2, <2>3
<1>3. QED
  BY <1>1, <1>2

LEMMA SumSame ==
  ASSUME NEW T, IsFiniteSet(T), NEW f, NEW e, \A x \in T : f[x] \in Nat /\ f[x] = e[x]
  PROVE  Sum(f, T) = Sum(e, T)
<1>1. PICK g : Adds(g, f, T) /\ Sum(f, T) = g[T]
  BY SumAdds
<1>2. PICK h : Adds(h, e, T) /\ Sum(e, T) = h[T]
  BY SumAdds
<1>3. g[T] = h[T]
  BY <1>1, <1>2, AddsSame
<1>4. QED
  BY <1>1, <1>2, <1>3

LEMMA SumEmpty == ASSUME NEW f PROVE Sum(f, {}) = 0
<1>1. PICK g : Adds(g, f, {}) /\ Sum(f, {}) = g[{}]
  BY SumAdds, FS_EmptySet
<1>2. QED
  BY <1>1 DEF Adds

\* In whatever order the elements are taken.
LEMMA SumRemove ==
  ASSUME NEW T, IsFiniteSet(T), NEW f, \A x \in T : f[x] \in Nat, NEW x \in T
  PROVE  /\ Sum(f, T) = f[x] + Sum(f, T \ {x})
         /\ Sum(f, T) \in Nat /\ Sum(f, T \ {x}) \in Nat
<1>1. PICK g : Adds(g, f, T) /\ Sum(f, T) = g[T]
  BY SumAdds
<1>2. \A s \in SUBSET T : g[s] = Sum(f, s) /\ g[s] \in Nat
  BY <1>1, SumIs
<1> DEFINE P == {s \in SUBSET T : \A y \in s : g[s] = f[y] + g[s \ {y}]}
<1>3. ASSUME NEW s \in SUBSET T, \A y \in s : s \ {y} \in P
      PROVE  s \in P
  <2>1. SUFFICES ASSUME NEW y \in s PROVE g[s] = f[y] + g[s \ {y}]
    OBVIOUS
  <2>2. Pick(s) \in s /\ g[s] = f[Pick(s)] + g[s \ {Pick(s)}]
    BY <1>1, PickIs DEF Adds
  <2>3. CASE y = Pick(s)
    BY <2>2, <2>3
  <2>4. CASE y # Pick(s)
    <3> DEFINE z == Pick(s)
    <3>1. z \in s /\ z \in T /\ y \in T /\ y # z
      BY <2>2, <2>4
    <3> HIDE DEF z
    <3>2. g[s \ {z}] = f[y] + g[(s \ {z}) \ {y}]
      BY <1>3, <3>1
    <3>3. g[s \ {y}] = f[z] + g[(s \ {y}) \ {z}]
      BY <1>3, <3>1
    <3>4. (s \ {z}) \ {y} = (s \ {y}) \ {z}
      OBVIOUS
    <3>5. g[s \ {y}] = f[z] + g[(s \ {z}) \ {y}]
      BY <3>3, <3>4, Zenon
    <3>6. g[s] = f[z] + g[s \ {z}]
      BY <2>2 DEF z
    <3>7. f[y] \in Nat /\ f[z] \in Nat /\ g[(s \ {z}) \ {y}] \in Nat
      BY <1>2, <3>1
    <3>8. QED
      <4> DEFINE r == g[(s \ {z}) \ {y}]
      <4>1. /\ g[s] = f[z] + (f[y] + r) /\ g[s \ {y}] = f[z] + r
            /\ f[y] \in Nat /\ f[z] \in Nat /\ r \in Nat
        BY <3>2, <3>5, <3>6, <3>7
      <4> HIDE DEF r
      <4>2. QED
        BY <4>1
  <2>5. QED
    BY <2>3, <2>4
<1>4. \A s \in SUBSET T : s \in P
  <2> HIDE DEF P
  <2>1. QED
    BY <1>3, BySize
<1>5. g[T] = f[x] + g[T \ {x}]
  BY <1>4
<1>6. QED
  BY <1>1, <1>2, <1>5

LEMMA ImageFinite ==
  ASSUME NEW T, IsFiniteSet(T), NEW m
  PROVE  IsFiniteSet({m[x] : x \in T})
<1> DEFINE f == [x \in T |-> m[x]]
<1>1. f \in Surjection(T, {m[x] : x \in T})
  BY DEF Surjection
<1>2. QED
  <2> HIDE DEF f
  <2>1. QED
    BY <1>1, FS_Surjection

\* The sum of values that are moved to other names.
LEMMA SumMoved ==
  ASSUME NEW T, IsFiniteSet(T), NEW f, \A x \in T : f[x] \in Nat,
         NEW e, NEW m, \A x \in T : f[x] = e[m[x]],
         \A x, y \in T : m[x] = m[y] => x = y
  PROVE  Sum(f, T) = Sum(e, {m[x] : x \in T}) /\ Sum(f, T) \in Nat
<1> DEFINE to(s) == {m[x] : x \in s}
           P == {s \in SUBSET T : Sum(f, s) = Sum(e, to(s)) /\ Sum(f, s) \in Nat}
<1>1. \A s \in SUBSET T : IsFiniteSet(s) /\ IsFiniteSet(to(s))
  BY FS_Subset, ImageFinite
<1>2. ASSUME NEW s \in SUBSET T, \A x \in s : s \ {x} \in P
      PROVE  s \in P
  <2>1. CASE s = {}
    <3>1. to({}) = {}
      OBVIOUS
    <3>2. Sum(f, {}) = 0 /\ Sum(e, {}) = 0
      BY SumEmpty
    <3> HIDE DEF to
    <3>3. QED
      BY <2>1, <3>1, <3>2
  <2>2. CASE s # {}
    <3>1. PICK x \in s : TRUE
      BY <2>2
    <3>2. to(s) \ {m[x]} = to(s \ {x}) /\ m[x] \in to(s)
      BY <3>1
    <3>3. \A y \in to(s) : e[y] \in Nat
      OBVIOUS
    <3>4. \A y \in s : f[y] \in Nat
      OBVIOUS
    <3>5. Sum(f, s \ {x}) = Sum(e, to(s \ {x})) /\ Sum(f, s \ {x}) \in Nat
      BY <1>2, <3>1
    <3> HIDE DEF to
    <3>6. Sum(f, s) = f[x] + Sum(f, s \ {x}) /\ Sum(f, s) \in Nat
      BY <1>1, <3>1, <3>4, SumRemove
    <3>7. Sum(e, to(s)) = e[m[x]] + Sum(e, to(s) \ {m[x]})
      BY <1>1, <3>2, <3>3, SumRemove
    <3>8. f[x] = e[m[x]]
      BY <3>1
    <3>9. Sum(f, s) = Sum(e, to(s))
      BY <3>2, <3>5, <3>6, <3>7, <3>8
    <3>10. QED
      BY <3>6, <3>9
  <2>3. QED
    BY <2>1, <2>2
<1>3. \A s \in SUBSET T : s \in P
  <2> HIDE DEF P
  <2>1. QED
    BY <1>2, BySize
<1>4. QED
  BY <1>3

\* What two sets without a common element add up to.
LEMMA SumUnion ==
  ASSUME NEW A, NEW B, IsFiniteSet(A), IsFiniteSet(B), A \cap B = {},
         NEW f, \A x \in A \cup B : f[x] \in Nat
  PROVE  /\ Sum(f, A \cup B) = Sum(f, A) + Sum(f, B)
         /\ Sum(f, A \cup B) \in Nat /\ Sum(f, A) \in Nat /\ Sum(f, B) \in Nat
<1> DEFINE P == {s \in SUBSET B : Sum(f, A \cup s) = Sum(f, A) + Sum(f, s) /\ Sum(f, s) \in Nat}
<1>1. \A s \in SUBSET B : IsFiniteSet(s) /\ IsFiniteSet(A \cup s)
  BY FS_Subset, FS_Union
<1>2. Sum(f, A) \in Nat
  <2>1. PICK g : Adds(g, f, A) /\ Sum(f, A) = g[A]
    BY SumAdds
  <2>2. QED
    BY <2>1, SumIs
<1>3. ASSUME NEW s \in SUBSET B, \A x \in s : s \ {x} \in P
      PROVE  s \in P
  <2>1. CASE s = {}
    <3>1. A \cup {} = A
      OBVIOUS
    <3>2. Sum(f, {}) = 0
      BY SumEmpty
    <3>3. QED
      BY <1>2, <2>1, <3>1, <3>2
  <2>2. CASE s # {}
    <3>1. PICK x \in s : TRUE
      BY <2>2
    <3>2. (A \cup s) \ {x} = A \cup (s \ {x}) /\ x \in A \cup s
      BY <3>1
    <3>3. Sum(f, A \cup (s \ {x})) = Sum(f, A) + Sum(f, s \ {x}) /\ Sum(f, s \ {x}) \in Nat
      BY <1>3, <3>1
    <3>4. Sum(f, s) = f[x] + Sum(f, s \ {x}) /\ Sum(f, s) \in Nat
      BY <1>1, <3>1, SumRemove
    <3>5. \A y \in A \cup s : f[y] \in Nat
      OBVIOUS
    <3>6. Sum(f, A \cup s) = f[x] + Sum(f, (A \cup s) \ {x})
      <4> DEFINE U == A \cup s
      <4>1. IsFiniteSet(U) /\ x \in U /\ \A y \in U : f[y] \in Nat
        BY <1>1, <3>2, <3>5
      <4> HIDE DEF U
      <4>2. Sum(f, U) = f[x] + Sum(f, U \ {x})
        BY <4>1, SumRemove
      <4>3. QED
        BY <4>2 DEF U
    <3>7. f[x] \in Nat
      BY <3>1
    <3>8. Sum(f, A \cup s) = f[x] + Sum(f, A \cup (s \ {x}))
      BY <3>2, <3>6
    <3>9. Sum(f, A \cup s) = Sum(f, A) + Sum(f, s)
      BY <1>2, <3>3, <3>4, <3>7, <3>8
    <3>10. QED
      BY <3>4, <3>9
  <2>3. QED
    BY <2>1, <2>2
<1>4. \A s \in SUBSET B : s \in P
  <2> HIDE DEF P
  <2>1. QED
    BY <1>3, BySize
<1>5. Sum(f, A \cup B) = Sum(f, A) + Sum(f, B) /\ Sum(f, B) \in Nat
  BY <1>4
<1>6. QED
  BY <1>2, <1>5

\* More names, and no value smaller.
LEMMA SumGrows ==
  ASSUME NEW U, IsFiniteSet(U), NEW T \in SUBSET U,
         NEW f, NEW e, \A x \in U : e[x] \in Nat,
         \A x \in T : f[x] \in Nat /\ f[x] <= e[x]
  PROVE  Sum(f, T) <= Sum(e, U) /\ Sum(f, T) \in Nat /\ Sum(e, U) \in Nat
<1> DEFINE P == {s \in SUBSET T : /\ Sum(f, s) <= Sum(e, s)
                                  /\ Sum(f, s) \in Nat /\ Sum(e, s) \in Nat}
<1>1. /\ IsFiniteSet(T) /\ IsFiniteSet(U \ T)
      /\ \A s \in SUBSET T : IsFiniteSet(s)
  BY FS_Subset
<1>2. ASSUME NEW s \in SUBSET T, \A x \in s : s \ {x} \in P
      PROVE  s \in P
  <2>1. CASE s = {}
    <3>1. Sum(f, {}) = 0 /\ Sum(e, {}) = 0
      BY SumEmpty
    <3>2. QED
      BY <2>1, <3>1
  <2>2. CASE s # {}
    <3>1. PICK x \in s : TRUE
      BY <2>2
    <3>2. \A y \in s : f[y] \in Nat /\ e[y] \in Nat /\ f[y] <= e[y]
      OBVIOUS
    <3>3. Sum(f, s) = f[x] + Sum(f, s \ {x}) /\ Sum(f, s) \in Nat
      BY <1>1, <3>1, <3>2, SumRemove
    <3>4. Sum(e, s) = e[x] + Sum(e, s \ {x}) /\ Sum(e, s) \in Nat
      BY <1>1, <3>1, <3>2, SumRemove
    <3>5. /\ Sum(f, s \ {x}) <= Sum(e, s \ {x})
          /\ Sum(f, s \ {x}) \in Nat /\ Sum(e, s \ {x}) \in Nat
      BY <1>2, <3>1
    <3>6. Sum(f, s) <= Sum(e, s)
      BY <3>1, <3>2, <3>3, <3>4, <3>5
    <3>7. QED
      BY <3>3, <3>4, <3>6
  <2>3. QED
    BY <2>1, <2>2
<1>3. \A s \in SUBSET T : s \in P
  <2> HIDE DEF P
  <2>1. QED
    BY <1>1, <1>2, BySize
<1>4. Sum(f, T) <= Sum(e, T) /\ Sum(f, T) \in Nat /\ Sum(e, T) \in Nat
  BY <1>3
<1>5. Sum(e, T \cup (U \ T)) = Sum(e, T) + Sum(e, U \ T) /\ Sum(e, U \ T) \in Nat
  BY <1>1, SumUnion
<1>6. T \cup (U \ T) = U
  OBVIOUS
<1>7. Sum(e, U) = Sum(e, T) + Sum(e, U \ T)
  BY <1>5, <1>6
<1>8. QED
  BY <1>4, <1>5, <1>7

-----------------------------------------------------------------------------
(* A left fold takes a sequence's elements from the first to the last.     *)

LEMMA LastOfInterval ==
  \A k \in Nat \ {0} : Max(1..k) = k /\ (1..k) \ {k} = 1..(k - 1) /\ 1..k # {}
<1> SUFFICES ASSUME NEW k \in Nat \ {0}
             PROVE  Max(1..k) = k /\ (1..k) \ {k} = 1..(k - 1) /\ 1..k # {}
  OBVIOUS
<1>1. k \in 1..k /\ \A y \in 1..k : k >= y
  OBVIOUS
<1>2. Max(1..k) \in 1..k /\ \A y \in 1..k : Max(1..k) >= y
  BY <1>1 DEF Max
<1>3. Max(1..k) = k
  <2>1. Max(1..k) >= k /\ Max(1..k) \in Nat /\ k >= Max(1..k)
    BY <1>1, <1>2
  <2>2. QED
    BY <2>1
<1>4. ASSUME NEW y
      PROVE  y \in (1..k) \ {k} <=> y \in 1..(k - 1)
  OBVIOUS
<1>5. QED
  BY <1>1, <1>3, <1>4

\* The greatest of some places of a sequence.
LEMMA MaxIs ==
  ASSUME NEW N \in Nat, NEW s \in SUBSET (1..N), s # {}
  PROVE  Max(s) \in s /\ \A y \in s : Max(s) >= y
<1> DEFINE T == {n \in Nat : N - n \in s}
<1>1. PICK x \in s : TRUE
  OBVIOUS
<1>2. x \in 1..N /\ N - (N - x) = x /\ N - x \in Nat
  BY <1>1
<1>3. N - x \in T
  BY <1>1, <1>2
<1>4. PICK n \in T : \A m \in T : n <= m
  <2>1. T \in SUBSET Nat /\ T # {}
    BY <1>3
  <2> HIDE DEF T
  <2>2. QED
    BY <2>1, LeastNat
<1>5. ASSUME NEW y \in s
      PROVE  N - n >= y
  <2>1. y \in 1..N /\ N - (N - y) = y /\ N - y \in Nat
    BY <1>5
  <2>2. N - y \in T
    BY <1>5, <2>1
  <2>3. n <= N - y
    BY <1>4, <2>2
  <2>4. QED
    BY <2>1, <2>3
<1>6. QED
  BY <1>4, <1>5 DEF Max

\* A fold that takes the greatest index last.
Lefts(g, N, base, seq, step) ==
  g = [s \in SUBSET (1..N) |->
         IF s = {} THEN base ELSE step[<<seq[Max(s)], g[s \ {Max(s)}]>>]]

\* The function a left fold is computed with exists too.
LEMMA LeftsExists ==
  ASSUME NEW N \in Nat, NEW V, NEW X, NEW base \in V, NEW seq \in [1..N -> X],
         NEW step \in [X \X V -> V]
  PROVE  \E g \in [SUBSET (1..N) -> V] : Lefts(g, N, base, seq, step)
<1> DEFINE T == 1..N
           pick == [s \in SUBSET T |-> Max(s)]
           op == [p \in T \X V |-> step[<<seq[p[1]], p[2]>>]]
<1>1. IsFiniteSet(T)
  BY FS_Interval
<1>2. op \in [T \X V -> V]
  OBVIOUS
<1>3. Picks(pick, T)
  BY MaxIs DEF Picks
<1>4. PICK g \in [SUBSET T -> V] : Folds(g, T, base, pick, op)
  <2> HIDE DEF T, pick, op
  <2>1. QED
    BY <1>1, <1>2, <1>3, FoldExists
<1>5. ASSUME NEW s \in SUBSET T, s # {}
      PROVE  op[<<pick[s], g[s \ {pick[s]}]>>] = step[<<seq[Max(s)], g[s \ {Max(s)}]>>]
  <2>1. pick[s] = Max(s) /\ Max(s) \in T /\ g[s \ {Max(s)}] \in V
    BY <1>5, MaxIs
  <2>2. QED
    BY <2>1
<1>6. \A s \in SUBSET T :
        g[s] = IF s = {} THEN base ELSE step[<<seq[Max(s)], g[s \ {Max(s)}]>>]
  <2> HIDE DEF T, pick, op
  <2>1. QED
    BY <1>4, <1>5 DEF Folds
<1>7. Lefts(g, N, base, seq, step)
  BY <1>6 DEF Lefts
<1>8. QED
  BY <1>7

-----------------------------------------------------------------------------
(* What a retrieval shows.  A set of chunks with one chunk to an id is in a strict order. *)

Queries == {BuildQuery(a, f) : a \in Agents, f \in Families}

OneToAnId(cs) == \A c, e \in cs : Id(c) = Id(e) => c = e

Retrievable(cs) == IsFiniteSet(cs) /\ cs \subseteq Passages /\ OneToAnId(cs)

\* Why a chunk that comes after those of the set ahead is left out.
LeftOut(q, ahead, c) ==
  \/ Score(q, c) < MinScore
  \/ Cardinality(ahead) = TopK
  \/ Cardinality({e \in ahead : e.doc = c.doc}) = MaxPerDoc
  \/ Tokens(ahead) + Cost(c) > MaxTokens

Within(shown) ==
  /\ Cardinality(shown) <= TopK /\ Tokens(shown) <= MaxTokens
  /\ \A c \in shown : Cardinality({e \in shown : e.doc = c.doc}) <= MaxPerDoc

BestOf(q, cands, shown) ==
  /\ Within(shown)
  /\ \A c \in cands \ shown : LeftOut(q, {e \in shown : Better(q, e, c)}, c)

StoreInv ==
  /\ IsFiniteSet(stored) /\ stored \subseteq Passages
  /\ \A c, e \in stored : c.at = e.at /\ Id(c) = Id(e) => c = e

\* A passage has what its order and its length are read from.
LEMMA PassageIs ==
  ASSUME NEW c \in Passages
  PROVE  /\ IdRank(Id(c)) \in Nat /\ Cost(c) \in Nat
         /\ \A q \in Queries : Score(q, c) \in Int
BY MeasureAssumption DEF Queries

\* Better passages come first, and no two are as good: chunk ids differ.
LEMMA StrictOrder ==
  ASSUME NEW cs, Retrievable(cs), NEW q \in Queries, NEW c \in cs, NEW d \in cs, NEW e \in cs
  PROVE  /\ ~Better(q, c, c)
         /\ Better(q, c, d) /\ Better(q, d, e) => Better(q, c, e)
         /\ c # d => Better(q, c, d) \/ Better(q, d, c)
<1>1. /\ c \in Passages /\ d \in Passages /\ e \in Passages
  BY DEF Retrievable
<1>2. /\ Score(q, c) \in Int /\ Score(q, d) \in Int /\ Score(q, e) \in Int
      /\ IdRank(Id(c)) \in Nat /\ IdRank(Id(d)) \in Nat /\ IdRank(Id(e)) \in Nat
  BY <1>1, PassageIs
<1>3. IdRank(Id(c)) = IdRank(Id(d)) => c = d
  BY <1>1, MeasureAssumption DEF Retrievable, OneToAnId
<1>4. QED
  BY <1>2, <1>3 DEF Better

\* A place among the candidates, and a better one's before it.
LEMMA PositionIs ==
  ASSUME NEW cs, Retrievable(cs), NEW q \in Queries
  PROVE  /\ \A c \in cs : Position(q, cs, c) \in 0..(Cardinality(cs) - 1)
         /\ \A c, d \in cs : Better(q, c, d) => Position(q, cs, c) < Position(q, cs, d)
<1>0. IsFiniteSet(cs) /\ Cardinality(cs) \in Nat
  BY FS_CardinalityType DEF Retrievable
<1> DEFINE before(c) == {e \in cs : Better(q, e, c)}
<1>1. \A c \in cs : /\ IsFiniteSet(before(c)) /\ Cardinality(before(c)) \in Nat
                    /\ Position(q, cs, c) = Cardinality(before(c))
  BY <1>0, FS_Subset, FS_CardinalityType DEF Position
<1>2. ASSUME NEW c \in cs
      PROVE  Position(q, cs, c) < Cardinality(cs)
  <2>1. before(c) \in SUBSET cs /\ c \notin before(c)
    BY StrictOrder
  <2>2. Cardinality(before(c)) <= Cardinality(cs) /\ Cardinality(before(c)) # Cardinality(cs)
    <3> HIDE DEF before
    <3>1. QED
      BY <1>0, <2>1, FS_Subset
  <2>3. QED
    BY <1>0, <1>1, <2>2
<1>3. ASSUME NEW c \in cs, NEW d \in cs, Better(q, c, d)
      PROVE  Position(q, cs, c) < Position(q, cs, d)
  <2>1. before(c) \in SUBSET before(d) /\ c \in before(d) /\ c \notin before(c)
    BY <1>3, StrictOrder
  <2>2. /\ Cardinality(before(c)) <= Cardinality(before(d))
        /\ Cardinality(before(c)) # Cardinality(before(d))
    <3> HIDE DEF before
    <3>1. QED
      BY <1>1, <2>1, FS_Subset
  <2>3. QED
    BY <1>1, <2>2
<1>4. \A c \in cs : Position(q, cs, c) \in Nat
  BY <1>1
<1>5. QED
  <2> HIDE DEF before
  <2>1. QED
    BY <1>0, <1>2, <1>3, <1>4

\* The sorted sequence has every candidate once, each after all better ones.
LEMMA RankedIs ==
  ASSUME NEW cs, Retrievable(cs), NEW q \in Queries
  PROVE  LET N == Cardinality(cs)  r == Ranked(q, cs) IN
         /\ N \in Nat /\ DOMAIN r = 1..N /\ r \in [1..N -> cs]
         /\ \A c \in cs : \E k \in 1..N : r[k] = c
         /\ \A i, k \in 1..N : i < k <=> Better(q, r[i], r[k])
<1> DEFINE N == Cardinality(cs)
           r == Ranked(q, cs)
           pos == [c \in cs |-> Position(q, cs, c)]
           T == 0..(N - 1)
<1>1. IsFiniteSet(cs) /\ N \in Nat
  BY FS_CardinalityType DEF Retrievable
<1>2. pos \in [cs -> T]
  BY PositionIs
<1>3. \A c, d \in cs : pos[c] = pos[d] => c = d
  <2>1. SUFFICES ASSUME NEW c \in cs, NEW d \in cs, c # d PROVE pos[c] # pos[d]
    OBVIOUS
  <2>2. Better(q, c, d) \/ Better(q, d, c)
    BY <2>1, StrictOrder
  <2>3. pos[c] \in Int /\ pos[d] \in Int
    BY <1>2
  <2>4. pos[c] < pos[d] \/ pos[d] < pos[c]
    BY <2>2, PositionIs
  <2>5. QED
    BY <2>3, <2>4
<1>4. IsFiniteSet(T) /\ Cardinality(T) = N
  <2>1. 0 \in Int /\ N - 1 \in Int
    BY <1>1
  <2>2. Cardinality(T) = IF 0 > N - 1 THEN 0 ELSE (N - 1) - 0 + 1
    BY <2>1, FS_Interval
  <2>3. QED
    BY <1>1, <2>1, <2>2, FS_Interval
<1>5. pos \in Surjection(cs, T)
  <2>1. pos \in Injection(cs, T)
    <3> HIDE DEF pos, T
    <3>1. QED
      BY <1>2, <1>3 DEF Injection, IsInjective
  <2>2. QED
    <3> HIDE DEF pos, T
    <3>1. QED
      BY <1>1, <1>4, <2>1, FS_Injection
<1>6. \A n \in T : \E c \in cs : pos[c] = n
  <2> HIDE DEF pos, T
  <2>1. QED
    BY <1>5 DEF Surjection
<1>7. ASSUME NEW k \in 1..N
      PROVE  r[k] \in cs /\ pos[r[k]] = k - 1
  <2>1. k - 1 \in T
    BY <1>1
  <2>2. \E c \in cs : Position(q, cs, c) = k - 1
    BY <1>6, <2>1
  <2>3. r[k] = CHOOSE c \in cs : Position(q, cs, c) = k - 1
    BY DEF Ranked
  <2>4. r[k] \in cs /\ Position(q, cs, r[k]) = k - 1
    <3> HIDE DEF r
    <3>1. QED
      BY <2>2, <2>3
  <2>5. QED
    <3> HIDE DEF r
    <3>1. QED
      BY <2>4
<1>8. DOMAIN r = 1..N /\ r \in [1..N -> cs]
  <2>1. r = [n \in 1..N |-> CHOOSE c \in cs : Position(q, cs, c) = n - 1]
    BY DEF Ranked
  <2> HIDE DEF r, N
  <2>2. QED
    BY <1>7, <2>1
<1>9. ASSUME NEW c \in cs
      PROVE  \E k \in 1..N : r[k] = c
  <2>1. pos[c] \in T /\ pos[c] + 1 \in 1..N /\ (pos[c] + 1) - 1 = pos[c]
    BY <1>1, <1>2
  <2>2. pos[r[pos[c] + 1]] = pos[c] /\ r[pos[c] + 1] \in cs
    <3> HIDE DEF pos, r, N
    <3>1. QED
      BY <1>7, <2>1
  <2>3. QED
    <3> HIDE DEF pos, r, N
    <3>1. QED
      BY <1>3, <2>1, <2>2
<1>10. ASSUME NEW i \in 1..N, NEW k \in 1..N
       PROVE  i < k <=> Better(q, r[i], r[k])
  <2> DEFINE c == r[i]
             d == r[k]
  <2>1. /\ c \in cs /\ d \in cs
        /\ Position(q, cs, c) = i - 1 /\ Position(q, cs, d) = k - 1
    BY <1>7
  <2> HIDE DEF c, d
  <2>2. Better(q, c, d) => i - 1 < k - 1
    BY <2>1, PositionIs
  <2>3. Better(q, d, c) => k - 1 < i - 1
    BY <2>1, PositionIs
  <2>4. c # d => Better(q, c, d) \/ Better(q, d, c)
    BY <2>1, StrictOrder
  <2>5. i # k => c # d
    BY <2>1
  <2>6. i \in Int /\ k \in Int
    OBVIOUS
  <2>7. i < k <=> Better(q, c, d)
    BY <2>2, <2>3, <2>4, <2>5, <2>6
  <2>8. QED
    BY <2>7 DEF c, d
<1>11. QED
  BY <1>1, <1>8, <1>9, <1>10

LEMMA TokensAre ==
  ASSUME NEW T, IsFiniteSet(T), T \subseteq Passages
  PROVE  Tokens(T) = Sum([c \in T |-> Cost(c)], T)
<1> DEFINE f == [c \in T |-> Cost(c)]
           Spends(h) ==
             h = [s \in SUBSET T |-> IF s = {} THEN 0 ELSE Cost(Pick(s)) + h[s \ {Pick(s)}]]
           g == CHOOSE h : Spends(h)
<1>1. \A c \in T : f[c] \in Nat /\ f[c] = Cost(c)
  BY PassageIs
<1>2. ASSUME NEW h
      PROVE  Spends(h) <=> Adds(h, f, T)
  <2>1. \A s \in SUBSET T : s # {} => f[Pick(s)] = Cost(Pick(s))
    BY PickIs
  <2>2. [s \in SUBSET T |-> IF s = {} THEN 0 ELSE Cost(Pick(s)) + h[s \ {Pick(s)}]]
          = [s \in SUBSET T |-> IF s = {} THEN 0 ELSE f[Pick(s)] + h[s \ {Pick(s)}]]
    <3> HIDE DEF f
    <3>1. QED
      BY <2>1
  <2>3. QED
    <3> HIDE DEF f
    <3>1. QED
      BY <2>2 DEF Adds
<1>3. Adds(g, f, T)
  <2> HIDE DEF f, Spends
  <2>1. \E h : Spends(h)
    BY <1>1, <1>2, AddsExists
  <2>2. QED
    BY <1>2, <2>1
<1>4. Tokens(T) = g[T]
  BY DEF Tokens, MapThenSumSet, MapThenFoldSet, Pick
<1>5. g[T] = Sum(f, T)
  <2> HIDE DEF f, g
  <2>1. QED
    BY <1>1, <1>3, SumIs
<1>6. QED
  BY <1>4, <1>5

\* A passage adds its length to the length of those before it.
LEMMA TokensOf ==
  /\ Tokens({}) = 0
  /\ \A T, c : IsFiniteSet(T) /\ T \subseteq Passages /\ c \in Passages =>
       /\ Tokens(T) \in Nat /\ Cost(c) \in Nat
       /\ c \notin T => Tokens(T \cup {c}) = Tokens(T) + Cost(c)
<1>1. Tokens({}) = 0
  BY TokensAre, SumEmpty, FS_EmptySet
<1>2. ASSUME NEW T, NEW c, IsFiniteSet(T), T \subseteq Passages, c \in Passages
      PROVE  /\ Tokens(T) \in Nat /\ Cost(c) \in Nat
             /\ c \notin T => Tokens(T \cup {c}) = Tokens(T) + Cost(c)
  <2> DEFINE U == T \cup {c}
             f == [x \in T |-> Cost(x)]
             e == [x \in U |-> Cost(x)]
  <2>1. IsFiniteSet(U) /\ U \subseteq Passages
    BY <1>2, FS_AddElement
  <2>2. (\A x \in T : f[x] \in Nat /\ e[x] \in Nat /\ f[x] = e[x])
           /\ \A x \in U : e[x] \in Nat /\ e[x] = Cost(x)
    BY <1>2, <2>1, PassageIs
  <2>3. Tokens(U) = Sum(e, U) /\ Tokens(T) = Sum(f, T)
    BY <1>2, <2>1, TokensAre
  <2>4. Sum(f, T) = Sum(e, T)
    <3> HIDE DEF f, e
    <3>1. QED
      BY <1>2, <2>2, SumSame
  <2>5. Sum(e, U) = e[c] + Sum(e, U \ {c}) /\ Sum(e, U \ {c}) \in Nat
    <3>1. c \in U
      OBVIOUS
    <3> HIDE DEF e, U
    <3>2. QED
      BY <2>1, <2>2, <3>1, SumRemove
  <2>6. Sum(e, T) \in Nat
    <3>1. PICK g : Adds(g, e, T) /\ Sum(e, T) = g[T]
      <4> HIDE DEF e
      <4>1. QED
        BY <1>2, <2>2, SumAdds
    <3>2. QED
      <4> HIDE DEF e
      <4>1. QED
        BY <1>2, <2>2, <3>1, SumIs
  <2>7. c \notin T => U \ {c} = T
    OBVIOUS
  <2>8. e[c] = Cost(c) /\ Cost(c) \in Nat
    BY <2>2
  <2>9. Tokens(T) \in Nat /\ Cost(c) \in Nat
    <3> HIDE DEF e, f, U
    <3>1. QED
      BY <2>3, <2>4, <2>6, <2>8
  <2>10. c \notin T => Tokens(U) = Tokens(T) + Cost(c)
    <3> HIDE DEF e, f, U
    <3>1. c \notin T => Tokens(U) = Cost(c) + Tokens(T)
      BY <2>3, <2>4, <2>5, <2>7, <2>8
    <3>2. QED
      BY <2>9, <3>1
  <2>11. QED
    BY <2>9, <2>10
<1>3. QED
  BY <1>1, <1>2

\* Whoever admits the candidates one by one sees these sets of chosen ones.
LEMMA SelectSteps ==
  ASSUME NEW cs, Retrievable(cs), NEW q \in Queries
  PROVE  \E h : /\ h[0] = {} /\ Select(q, cs) = h[Cardinality(cs)]
                /\ \A k \in 1..Cardinality(cs) : h[k] = Admit(q, h[k - 1], Ranked(q, cs)[k])
                /\ \A k \in 0..Cardinality(cs) : h[k] \in SUBSET cs
<1> DEFINE N == Cardinality(cs)
           r == Ranked(q, cs)
           step == [p \in cs \X SUBSET cs |-> Admit(q, p[2], p[1])]
           Takes(g) == g = [s \in SUBSET (1..N) |->
                              IF s = {} THEN {} ELSE Admit(q, g[s \ {Max(s)}], r[Max(s)])]
           g == CHOOSE f : Takes(f)
           h == [k \in 0..N |-> g[1..k]]
<1>1. N \in Nat /\ DOMAIN r = 1..N /\ r \in [1..N -> cs]
  BY RankedIs
<1>2. step \in [cs \X SUBSET cs -> SUBSET cs]
  <2>1. \A p \in cs \X SUBSET cs : Admit(q, p[2], p[1]) \in SUBSET cs
    BY DEF Admit
  <2>2. QED
    BY <2>1
<1>3. PICK f \in [SUBSET (1..N) -> SUBSET cs] : Lefts(f, N, {}, r, step)
  <2> HIDE DEF N, r, step
  <2>1. {} \in SUBSET cs
    OBVIOUS
  <2>2. QED
    BY <1>1, <1>2, <2>1, LeftsExists
<1>4. Takes(f)
  <2>1. ASSUME NEW s \in SUBSET (1..N), s # {}
        PROVE  step[<<r[Max(s)], f[s \ {Max(s)}]>>] = Admit(q, f[s \ {Max(s)}], r[Max(s)])
    <3>1. Max(s) \in 1..N /\ s \ {Max(s)} \in SUBSET (1..N)
      <4> HIDE DEF N
      <4>1. QED
        BY <1>1, <2>1, MaxIs
    <3>2. r[Max(s)] \in cs /\ f[s \ {Max(s)}] \in SUBSET cs
      <4> HIDE DEF N, r
      <4>1. QED
        BY <1>1, <3>1
    <3>3. QED
      <4> HIDE DEF r, N
      <4>1. QED
        BY <3>2
  <2>2. QED
    <3> HIDE DEF r, N, step
    <3>1. QED
      BY <1>3, <2>1 DEF Lefts
<1>5. Takes(g)
  <2> HIDE DEF Takes
  <2>1. QED
    BY <1>4
<1>6. Select(q, cs) = g[1..N]
  <2>1. Select(q, cs) = g[DOMAIN r]
    BY <1>1 DEF Select, FoldLeft, MapThenFoldSet
  <2>2. QED
    <3> HIDE DEF r, g
    <3>1. QED
      BY <1>1, <2>1
<1>7. ASSUME NEW k \in 0..N
      PROVE  1..k \in SUBSET (1..N)
  BY <1>1
<1>8. h[0] = {}
  <2>1. 1..0 = {} /\ 0 \in 0..N /\ {} \in SUBSET (1..N)
    <3> HIDE DEF N
    <3>1. QED
      BY <1>1
  <2>2. g[{}] = {}
    <3> HIDE DEF g, N
    <3>1. QED
      BY <1>5
  <2>3. QED
    <3> HIDE DEF g, N
    <3>1. QED
      BY <2>1, <2>2
<1>9. ASSUME NEW k \in 1..N
      PROVE  h[k] = Admit(q, h[k - 1], r[k])
  <2>1. k \in Nat \ {0} /\ k \in 0..N /\ k - 1 \in 0..N
    <3> HIDE DEF N
    <3>1. QED
      BY <1>1
  <2>2. Max(1..k) = k /\ (1..k) \ {k} = 1..(k - 1) /\ 1..k # {}
    BY <2>1, LastOfInterval
  <2>3. g[1..k] = IF 1..k = {} THEN {}
                  ELSE Admit(q, g[(1..k) \ {Max(1..k)}], r[Max(1..k)])
    <3>1. 1..k \in SUBSET (1..N)
      BY <1>7, <2>1
    <3> HIDE DEF g, N, r
    <3>2. QED
      BY <1>5, <3>1
  <2>4. g[1..k] = Admit(q, g[1..(k - 1)], r[k])
    <3> HIDE DEF g, N, r
    <3>1. QED
      BY <2>2, <2>3
  <2>5. h[k] = g[1..k] /\ h[k - 1] = g[1..(k - 1)]
    <3> HIDE DEF g, N, r
    <3>1. QED
      BY <2>1
  <2>6. QED
    <3> HIDE DEF g, h, N, r
    <3>1. QED
      BY <2>4, <2>5
<1>10. \A k \in 0..N : h[k] \in SUBSET cs
  <2> DEFINE P == {k \in 0..N : h[k] \in SUBSET cs}
  <2>1. 0 \in P
    <3> HIDE DEF h, N
    <3>1. QED
      BY <1>1, <1>8
  <2>2. ASSUME NEW k \in Nat, k < N, k \in P
        PROVE  k + 1 \in P
    <3>1. k + 1 \in 1..N /\ (k + 1) - 1 = k /\ k + 1 \in 0..N
      <4> HIDE DEF N
      <4>1. QED
        BY <1>1, <2>2
    <3>2. h[k + 1] = Admit(q, h[k], r[k + 1])
      <4> HIDE DEF h, N, r
      <4>1. QED
        BY <1>9, <3>1
    <3>3. r[k + 1] \in cs /\ h[k] \in SUBSET cs
      <4> HIDE DEF h, N, r
      <4>1. QED
        BY <1>1, <2>2, <3>1
    <3>4. Admit(q, h[k], r[k + 1]) \in SUBSET cs
      <4> HIDE DEF h, r
      <4>1. QED
        BY <3>3 DEF Admit
    <3>5. QED
      <4> HIDE DEF h, N, r
      <4>1. QED
        BY <3>1, <3>2, <3>4
  <2>3. \A k \in 0..N : k \in P
    <3> HIDE DEF P, N
    <3>1. QED
      BY <1>1, <2>1, <2>2, Upwards
  <2>4. QED
    BY <2>3
<1>11. h[N] = g[1..N]
  <2>1. N \in 0..N
    <3> HIDE DEF N
    <3>1. QED
      BY <1>1
  <2> HIDE DEF g, N
  <2>2. QED
    BY <2>1
<1>12. QED
  <2> HIDE DEF h, g
  <2>1. QED
    BY <1>6, <1>8, <1>9, <1>10, <1>11

\* A chunk that fits is added, and one that does not has a reason in those already chosen.
LEMMA AdmitsWithin ==
  ASSUME NEW cs, Retrievable(cs), NEW chosen \in SUBSET cs, Within(chosen),
         NEW q \in Queries, NEW c \in cs, c \notin chosen
  PROVE  /\ Within(Admit(q, chosen, c))
         /\ Admit(q, chosen, c) \in {chosen, chosen \cup {c}}
         /\ c \notin Admit(q, chosen, c) => LeftOut(q, chosen, c)
<1> DEFINE share(cc, d) == {e \in cc : e.doc = d}
           more == chosen \cup {c}
<1>1. /\ IsFiniteSet(chosen) /\ Cardinality(chosen) \in Nat /\ chosen \subseteq Passages
      /\ c \in Passages
  BY FS_Subset, FS_CardinalityType DEF Retrievable
<1>2. /\ Score(q, c) \in Int /\ Cost(c) \in Nat /\ Tokens(chosen) \in Nat
      /\ Tokens(more) = Tokens(chosen) + Cost(c)
  BY <1>1, PassageIs, TokensOf
<1>3. Cardinality(more) = Cardinality(chosen) + 1
  BY <1>1, FS_AddElement
<1>4. /\ IsFiniteSet(share(chosen, c.doc)) /\ Cardinality(share(chosen, c.doc)) \in Nat
      /\ Cardinality(share(more, c.doc)) = Cardinality(share(chosen, c.doc)) + 1
  <2>1. share(chosen, c.doc) \in SUBSET chosen /\ c \notin share(chosen, c.doc)
        /\ share(more, c.doc) = share(chosen, c.doc) \cup {c}
    OBVIOUS
  <2> HIDE DEF share, more
  <2>2. QED
    BY <1>1, <2>1, FS_Subset, FS_CardinalityType, FS_AddElement
<1>5. \A d : d # c.doc => share(more, d) = share(chosen, d)
  OBVIOUS
<1>6. /\ TopK \in Nat /\ MaxPerDoc \in Nat /\ MaxTokens \in Nat /\ MinScore \in Int
  BY KnowledgeAssumption, MeasureAssumption
<1>7. CASE /\ Cardinality(chosen) < TopK
           /\ Score(q, c) >= MinScore
           /\ Cardinality(share(chosen, c.doc)) < MaxPerDoc
           /\ Tokens(chosen) + Cost(c) <= MaxTokens
  <2>1. Admit(q, chosen, c) = more
    BY <1>7 DEF Admit
  <2>2. Cardinality(more) <= TopK /\ Tokens(more) <= MaxTokens
    <3> HIDE DEF more
    <3>1. QED
      BY <1>1, <1>2, <1>3, <1>6, <1>7
  <2>3. ASSUME NEW e \in more
        PROVE  Cardinality(share(more, e.doc)) <= MaxPerDoc
    <3>1. CASE e.doc = c.doc
      <4>1. Cardinality(share(more, c.doc)) <= MaxPerDoc
        <5> HIDE DEF share, more
        <5>1. QED
          BY <1>4, <1>6, <1>7
      <4>2. QED
        <5> HIDE DEF share, more
        <5>1. QED
          BY <3>1, <4>1
    <3>2. CASE e.doc # c.doc
      <4>1. e \in chosen
        BY <3>2
      <4>2. Cardinality(share(chosen, e.doc)) <= MaxPerDoc
        BY <4>1 DEF Within
      <4>3. QED
        <5> HIDE DEF share, more
        <5>1. QED
          BY <1>5, <3>2, <4>2
    <3>3. QED
      BY <3>1, <3>2
  <2>4. Within(more)
    <3>1. \A e \in more : Cardinality(share(more, e.doc)) <= MaxPerDoc
      BY <2>3
    <3> HIDE DEF more
    <3>2. QED
      BY <2>2, <3>1 DEF Within
  <2>5. QED
    BY <2>1, <2>4
<1>8. CASE ~(/\ Cardinality(chosen) < TopK
             /\ Score(q, c) >= MinScore
             /\ Cardinality(share(chosen, c.doc)) < MaxPerDoc
             /\ Tokens(chosen) + Cost(c) <= MaxTokens)
  <2>1. Admit(q, chosen, c) = chosen
    BY <1>8 DEF Admit
  <2>2. Cardinality(chosen) <= TopK
    BY DEF Within
  <2>3. Cardinality(share(chosen, c.doc)) <= MaxPerDoc
    <3>1. CASE share(chosen, c.doc) = {}
      <4>1. Cardinality(share(chosen, c.doc)) = 0
        <5> HIDE DEF share
        <5>1. QED
          BY <3>1, FS_EmptySet
      <4>2. QED
        <5> HIDE DEF share
        <5>1. QED
          BY <1>6, <4>1
    <3>2. CASE share(chosen, c.doc) # {}
      <4>1. PICK e \in chosen : e.doc = c.doc
        BY <3>2
      <4>2. QED
        BY <4>1 DEF Within
    <3>3. QED
      BY <3>1, <3>2
  <2>4. \/ Cardinality(chosen) = TopK \/ Score(q, c) < MinScore
        \/ Cardinality(share(chosen, c.doc)) = MaxPerDoc
        \/ Tokens(chosen) + Cost(c) > MaxTokens
    <3> HIDE DEF share
    <3>1. QED
      BY <1>1, <1>2, <1>4, <1>6, <1>8, <2>2, <2>3
  <2>5. LeftOut(q, chosen, c)
    BY <2>4 DEF LeftOut
  <2>6. QED
    BY <2>1, <2>5
<1>9. QED
  BY <1>7, <1>8

\* What is selected keeps the limits and leaves nothing out without a reason.
LEMMA SelectsBest ==
  ASSUME NEW cs, Retrievable(cs), NEW q \in Queries
  PROVE  BestOf(q, cs, Select(q, cs))
<1> DEFINE N == Cardinality(cs)
           r == Ranked(q, cs)
           ahead(cc, c) == {e \in cc : Better(q, e, c)}
<1>1. /\ N \in Nat /\ DOMAIN r = 1..N /\ r \in [1..N -> cs]
      /\ \A c \in cs : \E k \in 1..N : r[k] = c
      /\ \A i, k \in 1..N : i < k <=> Better(q, r[i], r[k])
  BY RankedIs
<1>2. PICK h : /\ h[0] = {} /\ Select(q, cs) = h[N]
               /\ \A k \in 1..N : h[k] = Admit(q, h[k - 1], r[k])
               /\ \A k \in 0..N : h[k] \in SUBSET cs
  <2> HIDE DEF N, r
  <2>1. QED
    BY SelectSteps DEF N, r
<1> DEFINE Good(k) ==
      /\ Within(h[k]) /\ \A e \in h[k] : \E i \in 1..k : e = r[i]
      /\ \A i \in 1..k : r[i] \notin h[k] => LeftOut(q, ahead(h[k], r[i]), r[i])
           P == {k \in 0..N : Good(k)}
<1>3. 0 \in P
  <2>1. h[0] = {} /\ 1..0 = {} /\ 0 \in 0..N
    <3> HIDE DEF N
    <3>1. QED
      BY <1>1, <1>2
  <2>2. Within({})
    BY TokensOf, FS_EmptySet, KnowledgeAssumption DEF Within
  <2>3. QED
    <3> HIDE DEF N, r
    <3>1. QED
      BY <2>1, <2>2
<1>4. ASSUME NEW k \in Nat, k < N, k \in P
      PROVE  k + 1 \in P
  <2>1. /\ k + 1 \in 1..N /\ k + 1 \in 0..N /\ (k + 1) - 1 = k /\ k \in 0..N
        /\ \A i \in 1..k : i \in 1..N /\ i < k + 1 /\ i \in 1..(k + 1) /\ ~(k + 1 < i)
        /\ \A i \in 1..(k + 1) : i = k + 1 \/ i \in 1..k
        /\ k + 1 \in 1..(k + 1)
    <3> HIDE DEF N, r, P
    <3>1. QED
      BY <1>1, <1>4
  <2> DEFINE c == r[k + 1]
  <2>2. h[k + 1] = Admit(q, h[k], c) /\ h[k] \in SUBSET cs /\ c \in cs
    <3> HIDE DEF N, r, P
    <3>1. QED
      BY <1>1, <1>2, <2>1
  <2>3. Good(k)
    BY <1>4
  <2>4. \A i \in 1..k : r[i] # c /\ Better(q, r[i], c) /\ ~Better(q, c, r[i])
    <3>1. \A i \in 1..k : Better(q, r[i], c) /\ ~Better(q, c, r[i])
      <4> HIDE DEF N, r, P
      <4>1. QED
        BY <1>1, <2>1 DEF c
    <3>2. QED
      <4> HIDE DEF r, c
      <4>1. QED
        BY <3>1
  <2>5. c \notin h[k] /\ ahead(h[k], c) = h[k]
    <3> HIDE DEF r, c
    <3>1. QED
      BY <2>3, <2>4
  <2>6. /\ Within(h[k + 1]) /\ h[k + 1] \in {h[k], h[k] \cup {c}}
        /\ c \notin h[k + 1] => LeftOut(q, h[k], c)
    <3> HIDE DEF r, c, ahead
    <3>1. Within(h[k])
      BY <2>3
    <3>2. QED
      BY <2>2, <2>5, <3>1, AdmitsWithin
  <2>7. \A e \in h[k + 1] : \E i \in 1..(k + 1) : e = r[i]
    <3> HIDE DEF ahead, N
    <3>1. QED
      BY <2>1, <2>3, <2>6
  <2>8. ASSUME NEW i \in 1..(k + 1), r[i] \notin h[k + 1]
        PROVE  LeftOut(q, ahead(h[k + 1], r[i]), r[i])
    <3>1. CASE i = k + 1
      <4>1. LeftOut(q, h[k], c) /\ h[k + 1] = h[k]
        <5> HIDE DEF r, ahead
        <5>1. QED
          BY <2>6, <2>8, <3>1 DEF c
      <4>2. QED
        <5> HIDE DEF r, ahead
        <5>1. QED
          BY <2>5, <3>1, <4>1
    <3>2. CASE i \in 1..k
      <4>1. ahead(h[k + 1], r[i]) = ahead(h[k], r[i])
        <5> HIDE DEF r, c
        <5>1. QED
          BY <2>4, <2>6, <3>2
      <4>2. r[i] \notin h[k]
        <5> HIDE DEF r, c
        <5>1. QED
          BY <2>6, <2>8
      <4>3. LeftOut(q, ahead(h[k], r[i]), r[i])
        <5> HIDE DEF r, c, ahead
        <5>1. QED
          BY <2>3, <3>2, <4>2
      <4>4. QED
        <5> HIDE DEF r, c, ahead
        <5>1. QED
          BY <4>1, <4>3
    <3>3. QED
      <4> HIDE DEF r, c, ahead, N
      <4>1. QED
        BY <2>1, <3>1, <3>2
  <2>9. Good(k + 1)
    <3> HIDE DEF r, c, ahead, N
    <3>1. QED
      BY <2>6, <2>7, <2>8
  <2>10. QED
    <3> HIDE DEF Good, N
    <3>1. QED
      BY <2>1, <2>9
<1>5. \A k \in 0..N : k \in P
  <2> HIDE DEF P, N
  <2>1. QED
    BY <1>1, <1>3, <1>4, Upwards
<1>6. Good(N)
  <2>1. N \in 0..N
    <3> HIDE DEF N
    <3>1. QED
      BY <1>1
  <2> HIDE DEF N, Good
  <2>2. QED
    BY <1>5, <2>1
<1>7. ASSUME NEW c \in cs \ h[N]
      PROVE  LeftOut(q, ahead(h[N], c), c)
  <2>1. PICK k \in 1..N : r[k] = c
    <3> HIDE DEF N, r
    <3>1. QED
      BY <1>1
  <2>2. QED
    <3> HIDE DEF N, r, ahead
    <3>1. QED
      BY <1>6, <2>1
<1>8. QED
  <2> HIDE DEF N, r
  <2>1. QED
    BY <1>2, <1>6, <1>7 DEF BestOf

\* What a search finds can be ranked: it is finite and of one chunk to an id.
LEMMA SearchFinds ==
  ASSUME StoreInv, NEW w, NEW q, NEW families
  PROVE  Retrievable(SearchStore(w, q, families))
<1> DEFINE hits == SearchStore(w, q, families)
<1>1. hits \in SUBSET stored /\ \A c \in hits : c.at = Home(w)
  BY DEF SearchStore
<1>2. IsFiniteSet(hits) /\ hits \subseteq Passages
  <2> HIDE DEF hits
  <2>1. QED
    BY <1>1, FS_Subset DEF StoreInv
<1>3. OneToAnId(hits)
  <2> HIDE DEF hits
  <2>1. QED
    BY <1>1 DEF StoreInv, OneToAnId
<1>4. QED
  BY <1>2, <1>3 DEF Retrievable

\* So can what two searches find together.
LEMMA MergeFinds ==
  ASSUME NEW a, NEW b, Retrievable(a), Retrievable(b), NEW q \in Queries
  PROVE  Retrievable(Merge(q, a, b))
<1> DEFINE A == {c \in a : \A e \in b : Id(e) = Id(c) => Score(q, e) <= Score(q, c)}
           B == {c \in b : \A e \in a : Id(e) = Id(c) => Score(q, e) < Score(q, c) \/ e = c}
<1>1. Merge(q, a, b) = A \cup B /\ A \in SUBSET a /\ B \in SUBSET b
  BY DEF Merge
<1>2. \A c \in a \cup b : Score(q, c) \in Int
  BY PassageIs DEF Retrievable
<1>3. ASSUME NEW c \in A, NEW e \in B, Id(c) = Id(e)
      PROVE  c = e
  <2>1. Score(q, e) <= Score(q, c) /\ (Score(q, c) < Score(q, e) \/ c = e)
    BY <1>3
  <2>2. Score(q, c) \in Int /\ Score(q, e) \in Int
    BY <1>2
  <2>3. QED
    BY <2>1, <2>2
<1>4. OneToAnId(A \cup B)
  <2> HIDE DEF A, B
  <2>1. QED
    BY <1>1, <1>3 DEF Retrievable, OneToAnId
<1>5. IsFiniteSet(A \cup B) /\ A \cup B \subseteq Passages
  <2>1. IsFiniteSet(a \cup b) /\ A \cup B \in SUBSET (a \cup b)
    BY FS_Union DEF Retrievable
  <2> HIDE DEF A, B
  <2>2. QED
    BY <2>1, FS_Subset DEF Retrievable
<1>6. QED
  <2> HIDE DEF A, B
  <2>1. QED
    BY <1>1, <1>4, <1>5 DEF Retrievable

LEMMA ChunksStore ==
  ASSUME NEW p \in Workers \cup {"shared"}, NEW d \in Docs, NEW v \in Versions
  PROVE  /\ IsFiniteSet(Chunks(p, d, v)) /\ Chunks(p, d, v) \subseteq Passages
         /\ \A c, e \in Chunks(p, d, v) : Id(c) = Id(e) => c = e
<1> DEFINE S == 0..(Length[d][v] - 1)
           f == [o \in S |-> [at |-> p, doc |-> d, ord |-> o, text |-> v]]
           T == Chunks(p, d, v)
<1>1. IsFiniteSet(S)
  <2>1. 0 \in Int /\ Length[d][v] - 1 \in Int
    BY KnowledgeAssumption
  <2>2. QED
    BY <2>1, FS_Interval
<1>2. f \in Surjection(S, T)
  BY DEF Chunks, Surjection
<1>3. IsFiniteSet(T)
  <2> HIDE DEF S, f, T
  <2>1. QED
    BY <1>1, <1>2, FS_Surjection
<1>4. T \subseteq Passages
  BY DEF Passages
<1>5. \A c, e \in T : Id(c) = Id(e) => c = e
  BY DEF Chunks, Id
<1>6. QED
  BY <1>3, <1>4, <1>5

\* No step of an ingestion leaves two chunks of one id in one store.
LEMMA KeepsStore ==
  ASSUME KnowledgeType, KnowledgeInv, StoreInv, NEW w \in Workers, ServiceStep(w)
  PROVE  StoreInv'
<1>1. ASSUME stored' \in SUBSET stored
      PROVE  StoreInv'
  <2>1. IsFiniteSet(stored')
    BY <1>1, FS_Subset DEF StoreInv
  <2>2. stored' \subseteq Passages
    BY <1>1 DEF StoreInv
  <2>3. QED
    BY <1>1, <2>1, <2>2 DEF StoreInv
<1>2. CASE Upsert(w) /\ stored' = Rewritten(w) /\ ~(backend = "qdrant" /\ ~collection)
  <2> DEFINE d == Current(w)
             v == proc[w].loaded[d]
             new == Chunks(Home(w), d, v)
             old == {c \in stored : ~\E n \in new : n.at = c.at /\ Id(n) = Id(c)}
  <2>1. d \in Docs /\ v \in Versions
    <3>1. proc[w].phase \in Replacing
      BY <1>2 DEF Upsert, Replacing
    <3>2. HasWork(w) /\ proc[w].phase \in Updating
      BY <3>1 DEF KnowledgeInv, Replacing, Updating
    <3>3. proc[w].todo # {} /\ \A x \in proc[w].todo : proc[w].loaded[x] # 0
      BY <3>1, <3>2 DEF HasWork
    <3>4. d \in proc[w].todo /\ d \in Docs
      BY <3>3, CurrentIs
    <3>5. v \in Versions \cup {0} /\ v # 0
      <4> HIDE DEF d
      <4>1. QED
        BY <3>3, <3>4 DEF KnowledgeType
    <3>6. QED
      BY <3>4, <3>5
  <2>2. Home(w) \in Workers \cup {"shared"}
    BY DEF Home
  <2>3. /\ IsFiniteSet(new) /\ new \subseteq Passages
        /\ \A c, e \in new : Id(c) = Id(e) => c = e
    <3> HIDE DEF d, v
    <3>1. QED
      BY <2>1, <2>2, ChunksStore
  <2>4. stored' = old \cup new
    BY <1>2 DEF Rewritten
  <2>5. old \in SUBSET stored /\ \A c \in old, n \in new : ~(n.at = c.at /\ Id(n) = Id(c))
    OBVIOUS
  <2>6. IsFiniteSet(old \cup new)
    <3> HIDE DEF old, new
    <3>1. QED
      BY <2>3, <2>5, FS_Subset, FS_Union DEF StoreInv
  <2>7. QED
    <3> HIDE DEF old, new
    <3>1. QED
      BY <2>3, <2>4, <2>5, <2>6 DEF StoreInv
<1>3. CASE Upsert(w) /\ ~(stored' = Rewritten(w) /\ ~(backend = "qdrant" /\ ~collection))
  <2>1. stored' \in {stored, Rewritten(w)}
    BY <1>3, UpsertStep
  <2>2. stored' = stored
    BY <1>3, <2>1 DEF Rewritten
  <2>3. QED
    BY <1>1, <2>2
<1>4. CASE DeleteDocument(w)
  <2>1. stored' \in SUBSET stored
    BY <1>4 DEF DeleteDocument
  <2>2. QED
    BY <1>1, <2>1
<1>5. CASE EndService(w) \/ CrashService(w)
  <2>1. stored' \in SUBSET stored
    BY <1>5 DEF EndService, CrashService, Gone
  <2>2. QED
    BY <1>1, <2>1
<1>6. CASE ~DeleteDocument(w) /\ ~Upsert(w) /\ ~EndService(w) /\ ~CrashService(w)
  <2>1. stored' = stored
    BY <1>6 DEF ServiceStep, StartService, CheckCollection, CreateCollection, Load, Probe, Embed,
                Report, Ask, Answer
  <2>2. QED
    BY <1>1, <2>1
<1>7. QED
  BY <1>2, <1>3, <1>4, <1>5, <1>6

\* What a client may hold of an answer, and what leaves it as it is.
Holds(w) ==
  /\ proc[w].phase # "answered" => proc[w].shown = {}
  /\ proc[w].phase \in {"asking", "answered"} => proc[w].query \in Queries
  /\ proc[w].phase = "asking" => Retrievable(proc[w].found)
  /\ proc[w].phase = "answered" => BestOf(proc[w].query, proc[w].found, proc[w].shown)

SameView(v) ==
  /\ proc'[v].query = proc[v].query /\ proc'[v].found = proc[v].found
  /\ proc'[v].shown = proc[v].shown

\* Only an answer changes what a process was shown.
LEMMA ViewsStay ==
  ASSUME KnowledgeType, NEW w \in Workers, ServiceStep(w)
  PROVE  /\ \A v \in Workers \ {w} : SameView(v)
         /\ \/ StartService(w) \/ Ask(w) \/ Answer(w) \/ EndService(w) \/ CrashService(w)
            \/ SameView(w) /\ proc[w].phase # "answered"
                 /\ proc'[w].phase \notin {"asking", "answered"}
<1>1. ASSUME NEW p, Go(w, p)
      PROVE  (\A v \in Workers : SameView(v)) /\ proc'[w].phase = p
  BY <1>1 DEF Go, SameView, KnowledgeType, ServiceFields
<1>2. ASSUME Abort(w)
      PROVE  (\A v \in Workers : SameView(v)) /\ proc'[w].phase = "serving"
  BY <1>2 DEF Abort, SameView, KnowledgeType, ServiceFields
<1>3. CASE CheckCollection(w) \/ CreateCollection(w) \/ Report(w)
  BY <1>1, <1>3 DEF CheckCollection, CreateCollection, Report, Complete
<1>4. CASE Load(w)
  <2>1. \E l, h : proc' = [proc EXCEPT ![w].phase = "probe", ![w].loaded = l, ![w].home = h]
    BY <1>4 DEF Load
  <2>2. proc[w].phase = "load"
    BY <1>4 DEF Load
  <2>3. QED
    BY <2>1, <2>2 DEF SameView, KnowledgeType, ServiceFields
<1>5. CASE Probe(w)
  <2>1. \E t : proc' = [proc EXCEPT ![w].phase = "replace", ![w].todo = t]
    BY <1>5 DEF Probe
  <2>2. proc[w].phase = "probe"
    BY <1>5 DEF Probe
  <2>3. QED
    BY <2>1, <2>2 DEF SameView, KnowledgeType, ServiceFields
<1>6. CASE DeleteDocument(w) \/ Embed(w)
  BY <1>1, <1>2, <1>6 DEF DeleteDocument, Embed
<1>7. CASE Upsert(w)
  <2>1. \/ Abort(w)
        \/ \E t : proc' = [proc EXCEPT ![w].phase = "replace", ![w].todo = t]
    BY <1>7 DEF Upsert
  <2>2. proc[w].phase = "upsert"
    BY <1>7 DEF Upsert
  <2>3. CASE \E t : proc' = [proc EXCEPT ![w].phase = "replace", ![w].todo = t]
    BY <2>2, <2>3 DEF SameView, KnowledgeType, ServiceFields
  <2>4. QED
    BY <1>2, <2>1, <2>2, <2>3
<1>8. CASE EndService(w) \/ CrashService(w)
  <2>1. Gone(w)
    BY <1>8 DEF EndService, CrashService
  <2>2. QED
    BY <1>8, <2>1 DEF Gone, SameView, KnowledgeType, ServiceFields
<1>9. CASE StartService(w)
  <2>1. \E new : proc' = [proc EXCEPT ![w] = new]
    BY <1>9 DEF StartService
  <2>2. QED
    BY <1>9, <2>1 DEF SameView, KnowledgeType
<1>10. CASE Ask(w)
  <2>1. \E q, f : proc' = [proc EXCEPT ![w].phase = "asking", ![w].query = q, ![w].found = f]
    BY <1>10 DEF Ask
  <2>2. QED
    BY <1>10, <2>1 DEF SameView, KnowledgeType
<1>11. CASE Answer(w)
  <2>1. \/ \E c, s : proc' = [proc EXCEPT ![w].phase = "answered", ![w].found = c, ![w].shown = s]
        \/ proc' = [proc EXCEPT ![w].phase = "answered", ![w].found = {}]
    BY <1>11 DEF Answer, Degrade
  <2>2. QED
    BY <1>11, <2>1 DEF SameView, KnowledgeType
<1>12. QED
  BY <1>3, <1>4, <1>5, <1>6, <1>7, <1>8, <1>9, <1>10, <1>11 DEF ServiceStep

\* What was shown stays as sound as it was when it was selected.
LEMMA HoldsStep ==
  ASSUME KnowledgeType, CorpusType, StoreInv, NEW w \in Workers, ServiceStep(w),
         \A v \in Workers : Holds(v)
  PROVE  \A v \in Workers : Holds(v)'
<1>1. ASSUME NEW v \in Workers \ {w}
      PROVE  Holds(v)'
  <2>1. Unmoved(v) /\ SameView(v)
    BY <1>1, ServiceShape, ViewsStay
  <2>2. QED
    BY <2>1 DEF Holds, Unmoved, SameView
<1> SUFFICES Holds(w)'
  BY <1>1
<1>2. CASE SameView(w) /\ proc[w].phase # "answered"
             /\ proc'[w].phase \notin {"asking", "answered"}
  BY <1>2 DEF Holds, SameView
<1>3. CASE StartService(w)
  <2>1. \E new : /\ proc' = [proc EXCEPT ![w] = new] /\ new.phase \in {"check", "load"}
                 /\ new.shown = {}
    <3>1. PICK f \in BOOLEAN :
            proc' = [proc EXCEPT ![w] =
              [Down EXCEPT !.phase = IF backend = "qdrant" THEN "check" ELSE "load", !.force = f]]
      BY <1>3 DEF StartService
    <3> DEFINE new ==
          [Down EXCEPT !.phase = IF backend = "qdrant" THEN "check" ELSE "load", !.force = f]
    <3>2. new.phase \in {"check", "load"} /\ new.shown = {}
      BY DEF Down
    <3>3. proc' = [proc EXCEPT ![w] = new]
      BY <3>1
    <3> HIDE DEF new
    <3>4. QED
      BY <3>2, <3>3
  <2>2. QED
    BY <2>1 DEF Holds, KnowledgeType
<1>4. CASE EndService(w) \/ CrashService(w)
  <2>1. proc'[w] = Down
    BY <1>4, Left DEF EndService, CrashService
  <2>2. Down.phase = "down" /\ Down.shown = {}
    BY DEF Down
  <2>3. QED
    BY <2>1, <2>2 DEF Holds
<1>5. CASE Ask(w)
  <2>1. PICK a \in Agents, f \in Families :
          proc' = [proc EXCEPT ![w].phase = "asking", ![w].query = BuildQuery(a, f),
                               ![w].found = SearchStore(w, BuildQuery(a, f), {})]
    BY <1>5 DEF Ask
  <2> DEFINE q == BuildQuery(a, f)
             hits == SearchStore(w, q, {})
  <2>2. q \in Queries /\ Retrievable(hits)
    BY SearchFinds DEF Queries
  <2>3. proc[w].phase = "serving" /\ proc[w].shown = {}
    BY <1>5 DEF Ask, Holds
  <2>4. /\ proc'[w].phase = "asking" /\ proc'[w].query = q /\ proc'[w].found = hits
        /\ proc'[w].shown = proc[w].shown
    <3> HIDE DEF q, hits
    <3>1. proc' = [proc EXCEPT ![w].phase = "asking", ![w].query = q, ![w].found = hits]
      BY <2>1 DEF q, hits
    <3>2. QED
      BY <3>1 DEF KnowledgeType, ServiceFields
  <2>5. QED
    <3> HIDE DEF q, hits
    <3>1. QED
      BY <2>2, <2>3, <2>4 DEF Holds
<1>6. CASE Answer(w)
  <2> DEFINE q == proc[w].query
             family == IF q.family = "none" THEN {} ELSE SearchStore(w, q, {q.family})
             cands == Merge(q, family, proc[w].found)
             shown == Select(q, cands)
  <2>1. /\ proc[w].phase = "asking"
        /\ \/ proc' = [proc EXCEPT ![w].phase = "answered", ![w].found = cands, ![w].shown = shown]
           \/ proc' = [proc EXCEPT ![w].phase = "answered", ![w].found = {}]
    BY <1>6 DEF Answer, Degrade
  <2>2. q \in Queries /\ Retrievable(proc[w].found) /\ proc[w].shown = {}
    BY <2>1 DEF Holds
  <2>3. Retrievable({})
    BY FS_EmptySet DEF Retrievable, OneToAnId
  <2>4. Retrievable(family)
    <3> HIDE DEF q
    <3>1. QED
      BY <2>3, SearchFinds
  <2>5. Retrievable(cands)
    <3> HIDE DEF q, family
    <3>1. QED
      BY <2>2, <2>4, MergeFinds
  <2>6. BestOf(q, cands, shown)
    <3> HIDE DEF q, cands
    <3>1. QED
      BY <2>2, <2>5, SelectsBest
  <2>7. BestOf(q, {}, {})
    <3> HIDE DEF q
    <3>1. QED
      BY TokensOf, FS_EmptySet, KnowledgeAssumption DEF BestOf, Within
  <2>8. CASE proc' = [proc EXCEPT ![w].phase = "answered", ![w].found = cands,
                                  ![w].shown = shown]
    <3>0. proc[w].query = q
      OBVIOUS
    <3> HIDE DEF q, cands, shown
    <3>1. /\ proc'[w].phase = "answered" /\ proc'[w].found = cands /\ proc'[w].shown = shown
          /\ proc'[w].query = q
      BY <2>8, <3>0 DEF KnowledgeType, ServiceFields
    <3>2. QED
      BY <2>2, <2>6, <3>1 DEF Holds
  <2>9. CASE proc' = [proc EXCEPT ![w].phase = "answered", ![w].found = {}]
    <3>0. proc[w].query = q
      OBVIOUS
    <3> HIDE DEF q
    <3>1. /\ proc'[w].phase = "answered" /\ proc'[w].found = {} /\ proc'[w].shown = {}
          /\ proc'[w].query = q
      BY <2>2, <2>9, <3>0 DEF KnowledgeType, ServiceFields
    <3>2. QED
      BY <2>2, <2>7, <3>1 DEF Holds
  <2>10. QED
    BY <2>1, <2>8, <2>9
<1>7. QED
  BY <1>2, <1>3, <1>4, <1>5, <1>6, ViewsStay

\* Of any number of candidates the best that fit are shown, and each one left out has its
\* reason in better ones that are.
THEOREM SelectsSoundly == KSpec => []SelectionSound
<1> DEFINE Inv == StoreInv /\ \A w \in Workers : Holds(w)
<1>1. KInit => Inv
  <2> SUFFICES ASSUME KInit PROVE Inv
    OBVIOUS
  <2>1. stored = {} /\ proc = [w \in Workers |-> Down]
    BY DEF KInit
  <2>2. Down.phase = "down" /\ Down.shown = {}
    BY DEF Down
  <2>3. QED
    BY <2>1, <2>2, FS_EmptySet DEF StoreInv, Holds
<1>2. ASSUME KnowledgeType, CorpusType, KnowledgeInv, Inv, [KNext]_kvars
      PROVE  Inv'
  <2>1. ASSUME UNCHANGED <<stored, proc>>
        PROVE  Inv'
    BY <1>2, <2>1 DEF StoreInv, Holds
  <2>2. CASE UNCHANGED kvars
    BY <2>1, <2>2 DEF kvars
  <2>3. CASE \E d \in Docs : EditCorpus(d)
    BY <2>1, <2>3 DEF EditCorpus
  <2>4. CASE \E w \in Workers : ServiceStep(w)
    BY <1>2, <2>4, KeepsStore, HoldsStep
  <2>5. QED
    BY <1>2, <2>2, <2>3, <2>4 DEF KNext, ServiceStep
<1>3. Inv => SelectionSound
  BY DEF Holds, BestOf, Within, LeftOut, SelectionSound
<1>4. QED
  BY <1>1, <1>2, <1>3, KnowledgeHolds, PTL DEF KSpec

-----------------------------------------------------------------------------
(* Sequences that are folded.                                              *)

\* As long as it has values a fold can have, a function goes on as the fold does.
GoesOn(g, N, V, base, seq, step) ==
  /\ g[{}] = base
  /\ \A s \in SUBSET (1..N) : s # {} /\ g[s \ {Max(s)}] \in V =>
       g[s] = step[<<seq[Max(s)], g[s \ {Max(s)}]>>]

\* The values a left fold goes through.
Stages(h, g, N, V, base, seq, step) ==
  /\ h \in [0..N -> V] /\ h[0] = base /\ h[N] = g[1..N]
  /\ \A k \in 1..N : h[k] = step[<<seq[k], h[k - 1]>>]

\* Every function that computes a left fold goes through these values.
LEMMA LeftsRun ==
  ASSUME NEW N \in Nat, NEW V, NEW X, NEW base \in V, NEW seq \in [1..N -> X],
         NEW step \in [X \X V -> V], NEW g, GoesOn(g, N, V, base, seq, step)
  PROVE  \E h : Stages(h, g, N, V, base, seq, step)
<1> DEFINE h == [k \in 0..N |-> g[1..k]]
           P == {k \in 0..N : g[1..k] \in V}
<1>1. g[1..0] = base
  <2>1. 1..0 = {}
    OBVIOUS
  <2>2. QED
    BY <2>1 DEF GoesOn
<1>2. ASSUME NEW k \in 1..N, g[1..(k - 1)] \in V
      PROVE  g[1..k] = step[<<seq[k], g[1..(k - 1)]>>]
  <2>1. Max(1..k) = k /\ (1..k) \ {k} = 1..(k - 1) /\ 1..k # {}
    <3>1. k \in Nat \ {0}
      OBVIOUS
    <3>2. QED
      BY <3>1, LastOfInterval
  <2>2. 1..k \in SUBSET (1..N)
    OBVIOUS
  <2>3. QED
    BY <1>2, <2>1, <2>2 DEF GoesOn
<1>3. 0 \in P
  BY <1>1
<1>4. ASSUME NEW k \in Nat, k < N, k \in P
      PROVE  k + 1 \in P
  <2>1. k + 1 \in 1..N /\ (k + 1) - 1 = k /\ g[1..k] \in V
    BY <1>4
  <2>2. g[1..(k + 1)] = step[<<seq[k + 1], g[1..k]>>]
    BY <1>2, <2>1
  <2>3. QED
    BY <2>1, <2>2
<1>5. \A k \in 0..N : k \in P
  <2> HIDE DEF P
  <2>1. QED
    BY <1>3, <1>4, Upwards
<1>6. h \in [0..N -> V] /\ h[0] = base /\ h[N] = g[1..N]
  BY <1>1, <1>5
<1>7. \A k \in 1..N : h[k] = step[<<seq[k], h[k - 1]>>]
  BY <1>2, <1>5
<1>8. QED
  <2> HIDE DEF h
  <2>1. QED
    BY <1>6, <1>7 DEF Stages

\* Sequences that are appended and joined, place by place.
LEMMA AppendIs ==
  ASSUME NEW X, NEW s \in Seq(X), NEW x \in X
  PROVE  /\ Append(s, x) \in Seq(X) /\ ToSet(Append(s, x)) = ToSet(s) \cup {x}
         /\ Len(Append(s, x)) = Len(s) + 1 /\ Append(s, x)[Len(s) + 1] = x
         /\ \A k \in 1..Len(s) : Append(s, x)[k] = s[k]
<1> DEFINE t == Append(s, x)
<1>1. /\ t \in Seq(X) /\ Len(t) = Len(s) + 1 /\ t[Len(s) + 1] = x
      /\ \A k \in 1..Len(s) : t[k] = s[k]
  OBVIOUS
<1>2. DOMAIN t = 1..(Len(s) + 1) /\ DOMAIN s = 1..Len(s) /\ Len(s) \in Nat
  OBVIOUS
<1> HIDE DEF t
<1>3. \A k \in DOMAIN t : k = Len(s) + 1 \/ k \in DOMAIN s
  BY <1>2
<1>4. ToSet(t) \subseteq ToSet(s) \cup {x}
  BY <1>1, <1>2, <1>3 DEF ToSet
<1>5. x \in ToSet(t)
  <2>1. Len(s) + 1 \in DOMAIN t
    BY <1>2
  <2>2. QED
    BY <1>1, <2>1 DEF ToSet
<1>6. ToSet(s) \subseteq ToSet(t)
  <2>1. \A k \in DOMAIN s : k \in DOMAIN t /\ t[k] = s[k]
    BY <1>1, <1>2
  <2>2. QED
    BY <2>1 DEF ToSet
<1>7. t \in Seq(X) /\ ToSet(t) = ToSet(s) \cup {x}
  BY <1>1, <1>4, <1>5, <1>6
<1>8. QED
  BY <1>1, <1>7 DEF t

LEMMA ConcatIs ==
  ASSUME NEW X, NEW s \in Seq(X), NEW t \in Seq(X)
  PROVE  /\ s \o t \in Seq(X) /\ ToSet(s \o t) = ToSet(s) \cup ToSet(t)
         /\ Len(s \o t) = Len(s) + Len(t)
         /\ \A k \in 1..Len(s) : (s \o t)[k] = s[k]
         /\ \A k \in 1..Len(t) : (s \o t)[Len(s) + k] = t[k]
<1> DEFINE u == s \o t
<1>1. /\ u \in Seq(X) /\ Len(u) = Len(s) + Len(t)
      /\ \A k \in 1..Len(s) : u[k] = s[k]
      /\ \A k \in 1..Len(t) : u[Len(s) + k] = t[k]
  OBVIOUS
<1>2. /\ DOMAIN u = 1..(Len(s) + Len(t)) /\ DOMAIN s = 1..Len(s) /\ DOMAIN t = 1..Len(t)
      /\ Len(s) \in Nat /\ Len(t) \in Nat
  OBVIOUS
<1> HIDE DEF u
<1>3. ASSUME NEW k \in DOMAIN u
      PROVE  u[k] \in ToSet(s) \cup ToSet(t)
  <2>1. CASE k \in 1..Len(s)
    BY <1>1, <1>2, <2>1 DEF ToSet
  <2>2. CASE k \notin 1..Len(s)
    <3>1. k - Len(s) \in DOMAIN t /\ k = Len(s) + (k - Len(s))
      BY <1>2, <1>3, <2>2
    <3>2. u[k] = t[k - Len(s)]
      BY <1>1, <1>2, <3>1
    <3>3. QED
      BY <3>1, <3>2 DEF ToSet
  <2>3. QED
    BY <2>1, <2>2
<1>4. \A k \in DOMAIN s : k \in DOMAIN u /\ u[k] = s[k]
  BY <1>1, <1>2
<1>5. \A k \in DOMAIN t : Len(s) + k \in DOMAIN u /\ u[Len(s) + k] = t[k]
  BY <1>1, <1>2
<1>6. ToSet(u) = ToSet(s) \cup ToSet(t)
  <2>1. ToSet(u) \subseteq ToSet(s) \cup ToSet(t)
    BY <1>3 DEF ToSet
  <2>2. ToSet(s) \subseteq ToSet(u)
    BY <1>4 DEF ToSet
  <2>3. ToSet(t) \subseteq ToSet(u)
    BY <1>5 DEF ToSet
  <2>4. QED
    BY <2>1, <2>2, <2>3
<1>7. QED
  BY <1>1, <1>6 DEF u

Distinct(s) == \A i, j \in DOMAIN s : s[i] = s[j] => i = j

\* The names that are wanted, none of them twice.
LEMMA FirstsIs ==
  ASSUME NEW X, NEW names \in Seq(X), NEW wanted
  PROVE  /\ Firsts(names, wanted) \in Seq(X)
         /\ ToSet(Firsts(names, wanted)) = ToSet(names) \cap wanted
         /\ Distinct(Firsts(names, wanted))
<1> DEFINE N == Len(names)
           V == Seq(X)
           next(kept, n) == IF n \in wanted \ ToSet(kept) THEN Append(kept, n) ELSE kept
           step == [p \in X \X V |-> next(p[2], p[1])]
           Takes(g) == g = [s \in SUBSET (1..N) |->
                              IF s = {} THEN <<>> ELSE next(g[s \ {Max(s)}], names[Max(s)])]
           g == CHOOSE f : Takes(f)
<1>1. N \in Nat /\ DOMAIN names = 1..N /\ names \in [1..N -> X] /\ <<>> \in V
  OBVIOUS
<1>2. step \in [X \X V -> V]
  <2>1. \A p \in X \X V : next(p[2], p[1]) \in V
    BY AppendIs
  <2>2. QED
    <3> HIDE DEF V, next
    <3>1. QED
      BY <2>1
<1>3. PICK f \in [SUBSET (1..N) -> V] : Lefts(f, N, <<>>, names, step)
  <2> HIDE DEF N, V, step
  <2>1. QED
    BY <1>1, <1>2, LeftsExists
<1>4. ASSUME NEW k, NEW s \in SUBSET (1..N), s # {}, k[s \ {Max(s)}] \in V
      PROVE  step[<<names[Max(s)], k[s \ {Max(s)}]>>] = next(k[s \ {Max(s)}], names[Max(s)])
  <2>1. Max(s) \in 1..N
    <3> HIDE DEF N
    <3>1. QED
      BY <1>1, <1>4, MaxIs
  <2>2. names[Max(s)] \in X
    <3> HIDE DEF N
    <3>1. QED
      BY <1>1, <2>1
  <2>3. QED
    <3> HIDE DEF N, V, next
    <3>1. QED
      BY <1>4, <2>2
<1>5. Takes(f)
  <2>1. \A s \in SUBSET (1..N) : f[s \ {Max(s)}] \in V
    <3> HIDE DEF N, V
    <3>1. QED
      BY <1>3
  <2>2. QED
    <3> HIDE DEF N, V, next, step
    <3>1. QED
      BY <1>3, <1>4, <2>1 DEF Lefts
<1>6. Takes(g)
  <2> HIDE DEF Takes
  <2>1. QED
    BY <1>5
<1>7. Firsts(names, wanted) = g[1..N]
  BY <1>1 DEF Firsts, FoldLeft, MapThenFoldSet
<1>8. g[{}] = <<>>
  <2> HIDE DEF g, N
  <2>1. QED
    BY <1>6
<1>9. GoesOn(g, N, V, <<>>, names, step)
  <2> HIDE DEF g, N, V, step, next
  <2>1. QED
    BY <1>4, <1>6, <1>8 DEF GoesOn
<1>10. PICK h : Stages(h, g, N, V, <<>>, names, step)
  <2> HIDE DEF g, N, V, step, next, Takes
  <2>1. QED
    BY <1>1, <1>2, <1>9, LeftsRun
<1> DEFINE P == {k \in 0..N : ToSet(h[k]) = {names[i] : i \in 1..k} \cap wanted /\ Distinct(h[k])}
<1>11. 0 \in P
  <2>1. ToSet(<<>>) = {} /\ Distinct(<<>>) /\ 1..0 = {}
    BY DEF ToSet, Distinct
  <2>2. 0 \in 0..N
    <3> HIDE DEF N
    <3>1. QED
      BY <1>1
  <2>3. QED
    <3> HIDE DEF N
    <3>1. QED
      BY <1>10, <2>1, <2>2 DEF Stages
<1>12. ASSUME NEW k \in Nat, k < N, k \in P
       PROVE  k + 1 \in P
  <2> DEFINE n == names[k + 1]
             kept == h[k]
  <2>1. k + 1 \in 1..N /\ (k + 1) - 1 = k /\ k + 1 \in 0..N /\ k \in 0..N
    <3> HIDE DEF N
    <3>1. QED
      BY <1>1, <1>12
  <2>2. kept \in Seq(X) /\ n \in X
    <3> HIDE DEF N
    <3>1. QED
      BY <1>1, <1>10, <2>1 DEF Stages
  <2>3. h[k + 1] = next(kept, n)
    <3>1. h[k + 1] = step[<<n, kept>>]
      <4> HIDE DEF N, V, step
      <4>1. QED
        BY <1>10, <2>1 DEF Stages
    <3>2. QED
      <4> HIDE DEF N, n, kept
      <4>1. QED
        BY <2>2, <3>1
  <2>4. ToSet(kept) = {names[i] : i \in 1..k} \cap wanted /\ Distinct(kept)
    BY <1>12
  <2>5. {names[i] : i \in 1..(k + 1)} = {names[i] : i \in 1..k} \cup {n}
    <3>1. \A i \in 1..(k + 1) : i = k + 1 \/ i \in 1..k
      OBVIOUS
    <3>2. k + 1 \in 1..(k + 1) /\ \A i \in 1..k : i \in 1..(k + 1)
      OBVIOUS
    <3>3. QED
      BY <3>1, <3>2
  <2>6. CASE n \in wanted \ ToSet(kept)
    <3>1. h[k + 1] = Append(kept, n)
      BY <2>3, <2>6
    <3>2. /\ ToSet(h[k + 1]) = ToSet(kept) \cup {n}
          /\ Len(h[k + 1]) = Len(kept) + 1 /\ h[k + 1][Len(kept) + 1] = n
          /\ \A i \in 1..Len(kept) : h[k + 1][i] = kept[i]
      <4> HIDE DEF n, kept
      <4>1. QED
        BY <2>2, <3>1, AppendIs
    <3>3. DOMAIN h[k + 1] = 1..(Len(kept) + 1) /\ DOMAIN kept = 1..Len(kept)
          /\ Len(kept) \in Nat
      <4> HIDE DEF n, kept
      <4>1. QED
        BY <2>2, <3>1
    <3>4. Distinct(h[k + 1])
      <4>1. \A i \in 1..Len(kept) : kept[i] \in ToSet(kept)
        <5> HIDE DEF kept
        <5>1. QED
          BY <3>3 DEF ToSet
      <4>2. \A i \in 1..(Len(kept) + 1) : i = Len(kept) + 1 \/ i \in 1..Len(kept)
        <5> HIDE DEF kept
        <5>1. QED
          BY <3>3
      <4>3. QED
        <5> HIDE DEF kept, n
        <5>1. QED
          BY <2>4, <2>6, <3>2, <3>3, <4>1, <4>2 DEF Distinct
    <3>5. ToSet(h[k + 1]) = {names[i] : i \in 1..(k + 1)} \cap wanted
      <4> HIDE DEF kept, n
      <4>1. QED
        BY <2>4, <2>5, <2>6, <3>2
    <3>6. QED
      <4> HIDE DEF N, kept, n
      <4>1. QED
        BY <2>1, <3>4, <3>5
  <2>7. CASE n \notin wanted \ ToSet(kept)
    <3>1. h[k + 1] = kept
      BY <2>3, <2>7
    <3>2. ToSet(kept) = {names[i] : i \in 1..(k + 1)} \cap wanted
      <4> HIDE DEF kept, n
      <4>1. QED
        BY <2>4, <2>5, <2>7
    <3>3. QED
      <4> HIDE DEF N, kept, n
      <4>1. QED
        BY <2>1, <2>4, <3>1, <3>2
  <2>8. QED
    BY <2>6, <2>7
<1>13. \A k \in 0..N : k \in P
  <2> HIDE DEF P, N
  <2>1. QED
    BY <1>1, <1>11, <1>12, Upwards
<1>14. N \in 0..N /\ ToSet(names) = {names[i] : i \in 1..N}
  BY <1>1 DEF ToSet
<1>15. h[N] \in Seq(X) /\ ToSet(h[N]) = ToSet(names) \cap wanted /\ Distinct(h[N])
  <2> HIDE DEF N
  <2>1. QED
    BY <1>10, <1>13, <1>14 DEF Stages
<1>16. QED
  <2> HIDE DEF g, N
  <2>1. QED
    BY <1>7, <1>10, <1>15 DEF Stages

\* What is flattened, one sequence after the other.
LEMMA FlattenSteps ==
  ASSUME NEW X, NEW seqs \in Seq(Seq(X))
  PROVE  \E h \in [0..Len(seqs) -> Seq(X)] :
           /\ h[0] = <<>> /\ FlattenSeq(seqs) = h[Len(seqs)]
           /\ \A k \in 1..Len(seqs) : h[k] = h[k - 1] \o seqs[k]
<1> DEFINE N == Len(seqs)
           V == Seq(X)
           step == [p \in V \X V |-> p[2] \o p[1]]
           Flattens(g) == g = [i \in 1..N |-> IF i = 1 THEN seqs[i] ELSE g[i - 1] \o seqs[i]]
           g == CHOOSE f : Flattens(f)
<1>1. N \in Nat /\ DOMAIN seqs = 1..N /\ seqs \in [1..N -> V] /\ <<>> \in V
  OBVIOUS
<1>2. step \in [V \X V -> V]
  <2>1. \A p \in V \X V : p[2] \o p[1] \in V
    BY ConcatIs
  <2>2. QED
    <3> HIDE DEF V
    <3>1. QED
      BY <2>1
<1>3. PICK f \in [SUBSET (1..N) -> V] : Lefts(f, N, <<>>, seqs, step)
  <2> HIDE DEF N, V, step
  <2>1. QED
    BY <1>1, <1>2, LeftsExists
<1>4. PICK h : Stages(h, f, N, V, <<>>, seqs, step)
  <2>1. GoesOn(f, N, V, <<>>, seqs, step)
    <3> HIDE DEF N, V, step
    <3>1. QED
      BY <1>3 DEF Lefts, GoesOn
  <2> HIDE DEF N, V, step, Flattens, g
  <2>2. QED
    BY <1>1, <1>2, <2>1, LeftsRun
<1>5. \A k \in 1..N : h[k] = h[k - 1] \o seqs[k] /\ h[k - 1] \in V /\ h[k] \in V
  <2>1. \A k \in 1..N : /\ h[k] = step[<<seqs[k], h[k - 1]>>]
                        /\ h[k] \in V /\ h[k - 1] \in V /\ seqs[k] \in V
    <3> HIDE DEF N, V, step
    <3>1. \A k \in 1..N : k \in 0..N /\ k - 1 \in 0..N
      BY <1>1
    <3>2. QED
      BY <1>1, <1>4, <3>1 DEF Stages
  <2> HIDE DEF N, V
  <2>2. QED
    BY <2>1
<1>6. Flattens([k \in 1..N |-> h[k]])
  <2>1. 1 \in 1..N => h[1] = seqs[1]
    <3>1. h[0] = <<>>
      BY <1>4 DEF Stages
    <3>2. \A s \in Seq(X) : <<>> \o s = s
      OBVIOUS
    <3>3. 1 \in 1..N => h[1] = h[1 - 1] \o seqs[1] /\ seqs[1] \in Seq(X) /\ 1 - 1 = 0
      <4> HIDE DEF N
      <4>1. QED
        BY <1>1, <1>5
    <3>4. QED
      <4> HIDE DEF N
      <4>1. QED
        BY <3>1, <3>2, <3>3
  <2>2. \A k \in 1..N : k # 1 => k - 1 \in 1..N
    <3> HIDE DEF N
    <3>1. QED
      BY <1>1
  <2>3. QED
    <3> HIDE DEF N
    <3>1. QED
      BY <1>5, <2>1, <2>2
<1>7. Flattens(g)
  <2> HIDE DEF Flattens
  <2>1. QED
    BY <1>6
<1>8. h \in [0..N -> V] /\ h[0] = <<>>
  BY <1>4 DEF Stages
<1>9. CASE N = 0
  <2>1. FlattenSeq(seqs) = seqs /\ seqs = <<>>
    BY <1>9 DEF FlattenSeq
  <2>2. QED
    <3> HIDE DEF N, V, step, Flattens, g
    <3>1. FlattenSeq(seqs) = h[N]
      BY <1>8, <1>9, <2>1
    <3>2. \E f2 \in [0..N -> V] : /\ f2[0] = <<>> /\ FlattenSeq(seqs) = f2[N]
                                  /\ \A k \in 1..N : f2[k] = f2[k - 1] \o seqs[k]
      BY <1>5, <1>8, <3>1
    <3>3. QED
      BY <3>2 DEF N, V
<1>10. CASE N # 0
  <2>1. FlattenSeq(seqs) = g[N]
    BY <1>10 DEF FlattenSeq
  <2>2. /\ g[1] = seqs[1]
        /\ \A k \in 1..N : k # 1 => g[k] = g[k - 1] \o seqs[k]
    <3> HIDE DEF g, N
    <3>1. 1 \in 1..N
      BY <1>1, <1>10
    <3>2. QED
      BY <1>7, <3>1
  <2> DEFINE P == {k \in 0..(N - 1) : g[k + 1] = h[k + 1]}
  <2>3. 0 \in P
    <3>1. 0 \in 0..(N - 1) /\ 1 \in 1..N /\ 0 + 1 = 1
      <4> HIDE DEF N
      <4>1. QED
        BY <1>1, <1>10
    <3>2. h[1] = seqs[1]
      <4>1. h[1] = h[1 - 1] \o seqs[1] /\ seqs[1] \in Seq(X) /\ 1 - 1 = 0
        <5> HIDE DEF N
        <5>1. QED
          BY <1>1, <1>5, <3>1
      <4>2. \A t \in Seq(X) : <<>> \o t = t
        OBVIOUS
      <4>3. QED
        BY <1>8, <4>1, <4>2
    <3>3. QED
      <4> HIDE DEF g, N
      <4>1. QED
        BY <2>2, <3>1, <3>2
  <2>4. ASSUME NEW k \in Nat, k < N - 1, k \in P
        PROVE  k + 1 \in P
    <3> DEFINE m == (k + 1) + 1
    <3>1. m \in 1..N /\ m # 1 /\ m - 1 = k + 1 /\ k + 1 \in 0..(N - 1)
      <4> HIDE DEF g, N, P
      <4>1. QED
        BY <1>1, <2>4
    <3>2. g[m] = g[k + 1] \o seqs[m] /\ h[m] = h[k + 1] \o seqs[m]
      <4> HIDE DEF g, N, m, P
      <4>1. QED
        BY <1>5, <2>2, <3>1
    <3>3. g[k + 1] = h[k + 1]
      <4> HIDE DEF g, N
      <4>1. QED
        BY <2>4
    <3>4. g[m] = h[m]
      <4> HIDE DEF g, N, m
      <4>1. QED
        BY <3>2, <3>3
    <3>5. QED
      <4> HIDE DEF g, N
      <4>1. QED
        BY <3>1, <3>4
  <2>5. \A k \in 0..(N - 1) : k \in P
    <3>1. N - 1 \in Nat
      <4> HIDE DEF N
      <4>1. QED
        BY <1>1, <1>10
    <3> HIDE DEF P, N
    <3>2. QED
      BY <2>3, <2>4, <3>1, Upwards
  <2>6. N - 1 \in 0..(N - 1) /\ (N - 1) + 1 = N
    <3> HIDE DEF N
    <3>1. QED
      BY <1>1, <1>10
  <2>7. g[N] = h[N]
    <3> HIDE DEF N, g
    <3>1. QED
      BY <2>5, <2>6
  <2>8. QED
    <3> HIDE DEF N, V, step, Flattens, g
    <3>1. \E f2 \in [0..N -> V] : /\ f2[0] = <<>> /\ FlattenSeq(seqs) = f2[N]
                                  /\ \A k \in 1..N : f2[k] = f2[k - 1] \o seqs[k]
      BY <1>5, <1>8, <2>1, <2>7
    <3>2. QED
      BY <3>1 DEF N, V
<1>11. QED
  BY <1>9, <1>10

\* What is in the sequences that are flattened, no more and no less.
LEMMA FlattenIs ==
  ASSUME NEW X, NEW seqs \in Seq(Seq(X))
  PROVE  /\ FlattenSeq(seqs) \in Seq(X)
         /\ ToSet(FlattenSeq(seqs)) = UNION {ToSet(seqs[k]) : k \in DOMAIN seqs}
<1> DEFINE N == Len(seqs)
           all(k) == UNION {ToSet(seqs[i]) : i \in 1..k}
<1>1. N \in Nat /\ DOMAIN seqs = 1..N /\ seqs \in [1..N -> Seq(X)]
  OBVIOUS
<1>2. PICK h \in [0..N -> Seq(X)] :
        /\ h[0] = <<>> /\ FlattenSeq(seqs) = h[N]
        /\ \A k \in 1..N : h[k] = h[k - 1] \o seqs[k]
  BY FlattenSteps
<1> DEFINE P == {k \in 0..N : ToSet(h[k]) = all(k)}
<1>3. 0 \in P
  <2>1. all(0) = {}
    OBVIOUS
  <2>2. ToSet(h[0]) = {}
    BY <1>2 DEF ToSet
  <2>3. 0 \in 0..N
    BY <1>1
  <2>4. QED
    <3> HIDE DEF N, all
    <3>1. QED
      BY <2>1, <2>2, <2>3
<1>4. ASSUME NEW k \in Nat, k < N, k \in P
      PROVE  k + 1 \in P
  <2>1. k + 1 \in 1..N /\ (k + 1) - 1 = k /\ k \in 0..N /\ k + 1 \in 0..N
    <3> HIDE DEF N, P
    <3>1. QED
      BY <1>1, <1>4
  <2>2. h[k + 1] = h[k] \o seqs[k + 1] /\ h[k] \in Seq(X) /\ seqs[k + 1] \in Seq(X)
    <3> HIDE DEF N
    <3>1. h[k + 1] = h[(k + 1) - 1] \o seqs[k + 1]
      BY <1>2, <2>1
    <3> DEFINE V == Seq(X)
    <3>2. h \in [0..N -> V] /\ seqs \in [1..N -> V]
      BY <1>1, <1>2
    <3> HIDE DEF V
    <3>3. h[k] \in V /\ seqs[k + 1] \in V
      BY <2>1, <3>2
    <3>4. h[k] \in Seq(X) /\ seqs[k + 1] \in Seq(X)
      BY <3>3 DEF V
    <3>5. QED
      BY <2>1, <3>1, <3>4
  <2>3. ToSet(h[k + 1]) = ToSet(h[k]) \cup ToSet(seqs[k + 1])
    BY <2>2, ConcatIs
  <2>4. all(k + 1) = all(k) \cup ToSet(seqs[k + 1])
    <3>1. 1..(k + 1) = 1..k \cup {k + 1}
      OBVIOUS
    <3>2. QED
      BY <3>1
  <2>5. QED
    <3> HIDE DEF N, all
    <3>1. QED
      BY <1>4, <2>1, <2>3, <2>4
<1>5. \A k \in 0..N : k \in P
  <2> HIDE DEF P, N
  <2>1. QED
    BY <1>1, <1>3, <1>4, Upwards
<1>6. N \in 0..N /\ all(N) = UNION {ToSet(seqs[k]) : k \in DOMAIN seqs}
  BY <1>1
<1>7. QED
  <2> HIDE DEF N, all
  <2>1. QED
    BY <1>2, <1>5, <1>6

Mapped(s, m) == [k \in DOMAIN s |-> m[s[k]]]

LEMMA MapIs ==
  ASSUME NEW X, NEW Y, NEW s \in Seq(X), NEW m \in [X -> Y]
  PROVE  Mapped(s, m) \in Seq(Y) /\ ToSet(Mapped(s, m)) = {m[x] : x \in ToSet(s)}
<1> DEFINE t == [k \in DOMAIN s |-> m[s[k]]]
<1>1. DOMAIN s = 1..Len(s) /\ Len(s) \in Nat /\ \A k \in DOMAIN s : s[k] \in X
  OBVIOUS
<1>2. t \in [1..Len(s) -> Y]
  BY <1>1
<1>3. t \in Seq(Y)
  <2> HIDE DEF t
  <2>1. QED
    BY <1>1, <1>2
<1>4. ToSet(t) = {m[x] : x \in ToSet(s)}
  BY DEF ToSet
<1>5. QED
  BY <1>3, <1>4 DEF Mapped

\* Of every id there is a row, and if no two findings share one, there is a row for each.
LEMMA RowsAre ==
  ASSUME NEW Y, NEW fs \in Seq(Y)
  PROVE  /\ RowsOf(fs) \subseteq ToSet(fs)
         /\ \A x \in ToSet(fs) : \E r \in RowsOf(fs) : r.id = x.id
         /\ (\A x, y \in ToSet(fs) : x.id = y.id => x = y) => RowsOf(fs) = ToSet(fs)
<1>1. DOMAIN fs = 1..Len(fs) /\ Len(fs) \in Nat
  OBVIOUS
<1>2. RowsOf(fs) \subseteq ToSet(fs)
  BY DEF RowsOf, ToSet
<1>3. ASSUME NEW x \in ToSet(fs)
      PROVE  \E r \in RowsOf(fs) : r.id = x.id
  <2> DEFINE T == {k \in DOMAIN fs : fs[k].id = x.id}
  <2>1. T # {} /\ T \in SUBSET Nat
    BY <1>1, <1>3 DEF ToSet
  <2>2. PICK n \in T : \A k \in T : n <= k
    <3> HIDE DEF T
    <3>1. QED
      BY <2>1, LeastNat
  <2>3. \A j \in 1..n - 1 : fs[j].id # fs[n].id
    <3>1. \A j \in 1..n - 1 : j \in DOMAIN fs /\ ~(n <= j)
      BY <1>1
    <3>2. QED
      BY <2>2, <3>1
  <2>4. fs[n] \in RowsOf(fs) /\ fs[n].id = x.id
    BY <2>3 DEF RowsOf
  <2>5. QED
    BY <2>4
<1>4. ASSUME \A x, y \in ToSet(fs) : x.id = y.id => x = y
      PROVE  RowsOf(fs) = ToSet(fs)
  <2>1. ASSUME NEW x \in ToSet(fs)
        PROVE  x \in RowsOf(fs)
    <3>1. PICK r \in RowsOf(fs) : r.id = x.id
      BY <1>3
    <3>2. r = x
      BY <1>2, <1>4, <3>1
    <3>3. QED
      BY <3>1, <3>2
  <2>2. QED
    BY <1>2, <2>1
<1>5. QED
  BY <1>2, <1>3, <1>4

-----------------------------------------------------------------------------
(* What the answers of a run are, and what is made of each.                *)

Verdicts == {"malicious", "suspicious", "benign", "unknown"}
Labels == DOMAIN Slug

Legible(a) ==
  /\ a.ioc \in Iocs /\ a.verdict \in Verdicts
  /\ a.families \in Seq(Labels) /\ a.actors \in Seq(Labels)

\* One answer to an indicator.
IsRun(said) ==
  /\ said \in Seq(ToSet(said)) /\ \A a \in ToSet(said) : Legible(a)
  /\ \A j, k \in DOMAIN said : said[j].ioc = said[k].ioc => j = k

\* Names are listed once each, and none is lost.
LEMMA OnceIs ==
  ASSUME NEW X, NEW names \in Seq(X)
  PROVE  Once(names) \in Seq(X) /\ ToSet(Once(names)) = ToSet(names)
<1>1. /\ Firsts(names, ToSet(names)) \in Seq(X)
      /\ ToSet(Firsts(names, ToSet(names))) = ToSet(names) \cap ToSet(names)
  BY FirstsIs
<1>2. QED
  BY <1>1 DEF Once

\* What a provider makes of a reply: a verdict, and labels that have a token.
LEMMA ReadIs ==
  ASSUME NEW feed \in ToSet(Feeds), NEW type \in Handles[feed], NEW r \in Says[feed][type]
  PROVE  LET read == Read(feed, type, r)
         IN  /\ read.verdict \in Verdicts
             /\ read.families \in Seq(Labels) /\ read.actors \in Seq(Labels)
<1> DEFINE read == Read(feed, type, r)
<1>0. <<>> \in Seq(Labels) /\ \A s, t \in Seq(Labels) : Once(s) \in Seq(Labels) /\ s \o t \in Seq(Labels)
  BY OnceIs, ConcatIs
<1>1. CASE feed = "virustotal"
  <2>1. r.label \in Seq(Labels) /\ r.threats \in Seq(Labels)
    BY <1>1, SaysAssumption DEF Labels
  <2>2. Once(r.label \o r.threats) \in Seq(Labels)
    BY <1>0, <2>1
  <2>3. read = ReadVirusTotal(r)
    BY <1>1 DEF Read
  <2>4. /\ read.verdict \in Verdicts /\ read.families = Once(r.label \o r.threats)
        /\ read.actors = <<>>
    BY <2>3 DEF ReadVirusTotal, Reading, Verdicts
  <2>5. QED
    BY <1>0, <2>2, <2>4
<1>2. CASE feed = "otx"
  <2>1. r.families \in Seq(Labels) /\ r.adversaries \in Seq(Labels)
    BY <1>2, SaysAssumption DEF Labels
  <2>2. read = ReadOtx(r)
    BY <1>2 DEF Read
  <2>3. /\ read.verdict \in Verdicts /\ read.families = Once(r.families)
        /\ read.actors = Once(r.adversaries)
    BY <2>2 DEF ReadOtx, Reading, Verdicts
  <2>4. QED
    BY <1>0, <2>1, <2>3
<1>3. CASE feed = "urlhaus"
  <2>1. r.threat \in Seq(Labels)
    BY <1>3, SaysAssumption DEF Labels
  <2>2. read = ReadUrlHaus(type, r)
    BY <1>3 DEF Read
  <2>3. read.verdict \in Verdicts /\ read.families = r.threat /\ read.actors = <<>>
    BY <2>2 DEF ReadUrlHaus, Reading, Verdicts
  <2>4. QED
    BY <1>0, <2>1, <2>3
<1>4. CASE feed = "bazaar"
  <2>1. r.family \in Seq(Labels)
    BY <1>4, SaysAssumption DEF Labels
  <2>2. read = ReadBazaar(r)
    BY <1>4 DEF Read
  <2>3. read.verdict \in Verdicts /\ read.families = r.family /\ read.actors = <<>>
    BY <2>2 DEF ReadBazaar, Reading, Verdicts
  <2>4. QED
    BY <1>0, <2>1, <2>3
<1>5. CASE feed = "abuseipdb"
  <2>1. read = ReadAbuseIpDb(r)
    BY <1>5 DEF Read
  <2>2. read.verdict \in Verdicts /\ read.families = <<>> /\ read.actors = <<>>
    BY <2>1 DEF ReadAbuseIpDb, Reading, Verdicts
  <2>3. QED
    BY <1>0, <2>2
<1>6. feed \in {"abuseipdb", "bazaar", "otx", "urlhaus", "virustotal"}
  BY DEF ToSet, Feeds
<1>7. QED
  BY <1>1, <1>2, <1>3, <1>4, <1>5, <1>6

Weight(a) ==
  IF IsHit(a) THEN Min({1000, Max({a.score}) + 150 * (1 - 1)}) ELSE Min({900, 400 + 100 * 1})

MatchOf(a) ==
  Finding(<<"ioc", a.ioc>>, "ioc_match", SeverityOf(Type[a.ioc], a.verdict), Weight(a), a.feed)

SignatureOf(a) == Finding(<<"sig", a.ioc>>, "signature", "medium", Weight(a), a.feed)

\* In one run an indicator has one answer, so a consensus is that answer.
LEMMA GroupIs ==
  ASSUME NEW said, IsRun(said), NEW k \in DOMAIN said
  PROVE  LET a == said[k] IN
         /\ About(said, a.ioc) = {k} /\ Signature(said, a.ioc) = SignatureOf(a)
         /\ IsHit(a) => Match(said, a.ioc) = MatchOf(a)
<1> DEFINE a == said[k]
<1>1. About(said, a.ioc) = {k}
  BY DEF About, IsRun
<1>2. k \in Nat
  BY DEF IsRun
<1>3. Min({k}) = k
  BY <1>2 DEF Min
<1>4. HitsOf(said, {k}) = IF IsHit(a) THEN {k} ELSE {}
  BY DEF HitsOf
<1>5. Worst(said, {k}) = a.verdict
  <2>1. VerdictRank(a.verdict) \in Int
    BY DEF VerdictRank
  <2>2. VerdictRank(a.verdict) >= VerdictRank(a.verdict)
    BY <2>1
  <2>3. (CHOOSE j \in {k} : \A i \in {k} :
            VerdictRank(said[j].verdict) >= VerdictRank(said[i].verdict)) = k
    BY <2>2
  <2>4. QED
    BY <2>3 DEF Worst
<1>6. Cardinality({k}) = 1
  BY FS_Singleton
<1>7. Confidence(said, {k}) = Weight(a)
  <2>1. CASE IsHit(a)
    <3>1. HitsOf(said, {k}) = {k} /\ {said[j].score : j \in {k}} = {a.score}
      BY <1>4, <2>1
    <3> DEFINE rates == {said[j].score : j \in HitsOf(said, {k})}
               n == Cardinality(HitsOf(said, {k}))
    <3>2. Confidence(said, {k}) = Min({1000, Max(rates) + 150 * (n - 1)})
      BY <3>1 DEF Confidence
    <3>3. rates = {a.score} /\ n = 1
      BY <1>6, <3>1
    <3>4. Confidence(said, {k}) = Min({1000, Max({a.score}) + 150 * (1 - 1)})
      <4> HIDE DEF rates, n, a
      <4>1. QED
        BY <3>2, <3>3
    <3>5. QED
      BY <2>1, <3>4 DEF Weight
  <2>2. CASE ~IsHit(a)
    <3>1. HitsOf(said, {k}) = {}
      BY <1>4, <2>2
    <3>2. QED
      BY <1>6, <2>2, <3>1 DEF Confidence, Weight
  <2>3. QED
    BY <2>1, <2>2
<1>8. Signature(said, a.ioc) = SignatureOf(a)
  <2> HIDE DEF a
  <2>1. QED
    BY <1>1, <1>3, <1>7 DEF Signature, SignatureOf, a
<1>9. ASSUME IsHit(a)
      PROVE  Match(said, a.ioc) = MatchOf(a)
  <2>1. HitsOf(said, {k}) = {k}
    BY <1>4, <1>9
  <2>2. QED
    BY <1>1, <1>3, <1>5, <1>7, <2>1 DEF Match, MatchOf
<1>10. QED
  BY <1>1, <1>8, <1>9

FamiliesIn(A) == UNION {ToSet(a.families) : a \in A}
ActorsIn(A) == UNION {ToSet(a.actors) : a \in A}

HitsIn(A) == {a \in A : IsHit(a)}
Signed(A) == {a \in A : a.signatures # <<>>}

\* The findings, in no order.
FindingsOn(said) ==
  {MatchOf(a) : a \in HitsIn(ToSet(said))}
    \cup {Family(said, f) : f \in FamiliesIn(ToSet(said))}
    \cup {Actor(said, n) : n \in ActorsIn(ToSet(said))}
    \cup {SignatureOf(a) : a \in Signed(ToSet(said))}

\* The indicators of some answers.
LEMMA GroupedIs ==
  ASSUME NEW said, IsRun(said), NEW some \in SUBSET DOMAIN said
  PROVE  /\ Grouped(said, some) \in Seq(Iocs)
         /\ ToSet(Grouped(said, some)) = {said[k].ioc : k \in some}
<1> DEFINE names == [k \in DOMAIN said |-> said[k].ioc]
           wanted == {said[k].ioc : k \in some}
<1>1. DOMAIN said = 1..Len(said) /\ Len(said) \in Nat
  BY DEF IsRun
<1>2. \A k \in DOMAIN said : said[k].ioc \in Iocs
  BY DEF IsRun, ToSet, Legible
<1>3. names \in Seq(Iocs)
  <2>1. names \in [1..Len(said) -> Iocs]
    BY <1>1, <1>2
  <2> HIDE DEF names
  <2>2. QED
    BY <1>1, <2>1
<1>4. ToSet(names) \cap wanted = wanted
  BY DEF ToSet
<1>5. Grouped(said, some) = Firsts(names, wanted)
  BY DEF Grouped
<1>6. QED
  <2> HIDE DEF names, wanted
  <2>1. Grouped(said, some) \in Seq(Iocs) /\ ToSet(Grouped(said, some)) = wanted
    <3>1. /\ Firsts(names, wanted) \in Seq(Iocs)
          /\ ToSet(Firsts(names, wanted)) = ToSet(names) \cap wanted
      BY <1>3, FirstsIs
    <3>2. QED
      BY <1>4, <1>5, <3>1
  <2>2. QED
    BY <2>1 DEF wanted

\* The findings of each kind, one for each answer or label that calls for it.
LEMMA MatchesAre ==
  ASSUME NEW said, IsRun(said)
  PROVE  \E Y : /\ IocMatches(said) \in Seq(Y)
                /\ ToSet(IocMatches(said)) = {MatchOf(a) : a \in HitsIn(ToSet(said))}
<1> DEFINE some == HitsOf(said, DOMAIN said)
           hit == Grouped(said, some)
           m == [i \in Iocs |-> Match(said, i)]
           Y == {Match(said, i) : i \in Iocs}
<1>1. some \in SUBSET DOMAIN said
  BY DEF HitsOf
<1>2. hit \in Seq(Iocs) /\ ToSet(hit) = {said[k].ioc : k \in some}
  <2> HIDE DEF some
  <2>1. QED
    BY <1>1, GroupedIs
<1>3. m \in [Iocs -> Y]
  OBVIOUS
<1>4. Mapped(hit, m) \in Seq(Y) /\ ToSet(Mapped(hit, m)) = {m[x] : x \in ToSet(hit)}
  <2> HIDE DEF hit, m, Y
  <2>1. QED
    BY <1>2, <1>3, MapIs
<1>5. IocMatches(said) = Mapped(hit, m)
  <2>1. IocMatches(said) = [k \in DOMAIN hit |-> Match(said, hit[k])]
    BY DEF IocMatches
  <2>2. \A k \in DOMAIN hit : hit[k] \in Iocs
    <3> HIDE DEF hit
    <3>1. QED
      BY <1>2
  <2>3. \A k \in DOMAIN hit : m[hit[k]] = Match(said, hit[k])
    <3> HIDE DEF hit
    <3>1. QED
      BY <2>2
  <2>4. QED
    <3> HIDE DEF hit, m
    <3>1. QED
      BY <2>1, <2>3 DEF Mapped
<1>6. {m[x] : x \in ToSet(hit)} = {MatchOf(a) : a \in HitsIn(ToSet(said))}
  <2>1. \A k \in some : said[k].ioc \in Iocs /\ m[said[k].ioc] = MatchOf(said[k])
    <3>1. \A k \in some : k \in DOMAIN said /\ IsHit(said[k]) /\ said[k].ioc \in Iocs
      BY DEF HitsOf, IsRun, ToSet, Legible
    <3> HIDE DEF some
    <3>2. \A k \in some : Match(said, said[k].ioc) = MatchOf(said[k])
      BY <3>1, GroupIs
    <3>3. QED
      BY <3>1, <3>2
  <2>2. {said[k] : k \in some} = HitsIn(ToSet(said))
    BY DEF HitsOf, HitsIn, ToSet
  <2>3. {m[x] : x \in ToSet(hit)} = {m[said[k].ioc] : k \in some}
    <3> HIDE DEF m, hit, some
    <3>1. QED
      BY <1>2
  <2>4. {m[said[k].ioc] : k \in some} = {MatchOf(said[k]) : k \in some}
    <3> HIDE DEF m, some
    <3>1. QED
      BY <2>1
  <2>5. {MatchOf(said[k]) : k \in some} = {MatchOf(a) : a \in {said[k] : k \in some}}
    OBVIOUS
  <2>6. QED
    <3> HIDE DEF m, hit, some
    <3>1. QED
      BY <2>2, <2>3, <2>4, <2>5
<1>7. QED
  <2> HIDE DEF hit, m, Y
  <2>1. QED
    BY <1>4, <1>5, <1>6

LEMMA SignaturesAre ==
  ASSUME NEW said, IsRun(said)
  PROVE  \E Y : /\ Signatures(said) \in Seq(Y)
                /\ ToSet(Signatures(said)) = {SignatureOf(a) : a \in Signed(ToSet(said))}
<1> DEFINE some == {k \in DOMAIN said : said[k].signatures # <<>>}
           named == Grouped(said, some)
           m == [i \in Iocs |-> Signature(said, i)]
           Y == {Signature(said, i) : i \in Iocs}
<1>1. some \in SUBSET DOMAIN said
  OBVIOUS
<1>2. named \in Seq(Iocs) /\ ToSet(named) = {said[k].ioc : k \in some}
  <2> HIDE DEF some
  <2>1. QED
    BY <1>1, GroupedIs
<1>3. m \in [Iocs -> Y]
  OBVIOUS
<1>4. Mapped(named, m) \in Seq(Y) /\ ToSet(Mapped(named, m)) = {m[x] : x \in ToSet(named)}
  <2> HIDE DEF named, m, Y
  <2>1. QED
    BY <1>2, <1>3, MapIs
<1>5. Signatures(said) = Mapped(named, m)
  <2>1. Signatures(said) = [k \in DOMAIN named |-> Signature(said, named[k])]
    BY DEF Signatures
  <2>2. \A k \in DOMAIN named : named[k] \in Iocs
    <3> HIDE DEF named
    <3>1. QED
      BY <1>2
  <2>3. \A k \in DOMAIN named : m[named[k]] = Signature(said, named[k])
    <3> HIDE DEF named
    <3>1. QED
      BY <2>2
  <2>4. QED
    <3> HIDE DEF named, m
    <3>1. QED
      BY <2>1, <2>3 DEF Mapped
<1>6. {m[x] : x \in ToSet(named)} = {SignatureOf(a) : a \in Signed(ToSet(said))}
  <2>1. \A k \in some : said[k].ioc \in Iocs /\ m[said[k].ioc] = SignatureOf(said[k])
    <3>1. \A k \in some : k \in DOMAIN said /\ said[k].ioc \in Iocs
      BY DEF IsRun, ToSet, Legible
    <3> HIDE DEF some
    <3>2. \A k \in some : Signature(said, said[k].ioc) = SignatureOf(said[k])
      BY <3>1, GroupIs
    <3>3. QED
      BY <3>1, <3>2
  <2>2. {said[k] : k \in some} = Signed(ToSet(said))
    BY DEF Signed, ToSet
  <2>3. {m[x] : x \in ToSet(named)} = {m[said[k].ioc] : k \in some}
    <3> HIDE DEF m, named, some
    <3>1. QED
      BY <1>2
  <2>4. {m[said[k].ioc] : k \in some} = {SignatureOf(said[k]) : k \in some}
    <3> HIDE DEF m, some
    <3>1. QED
      BY <2>1
  <2>5. {SignatureOf(said[k]) : k \in some} = {SignatureOf(a) : a \in {said[k] : k \in some}}
    OBVIOUS
  <2>6. QED
    <3> HIDE DEF m, named, some
    <3>1. QED
      BY <2>2, <2>3, <2>4, <2>5
<1>7. QED
  <2> HIDE DEF named, m, Y
  <2>1. QED
    BY <1>4, <1>5, <1>6

\* All labels of a run.
LEMMA LabelsAre ==
  ASSUME NEW said, IsRun(said)
  PROVE  /\ Once(FlattenSeq([k \in DOMAIN said |-> said[k].families])) \in Seq(Labels)
         /\ ToSet(Once(FlattenSeq([k \in DOMAIN said |-> said[k].families])))
              = FamiliesIn(ToSet(said))
         /\ Once(FlattenSeq([k \in DOMAIN said |-> said[k].actors])) \in Seq(Labels)
         /\ ToSet(Once(FlattenSeq([k \in DOMAIN said |-> said[k].actors])))
              = ActorsIn(ToSet(said))
         /\ FamiliesIn(ToSet(said)) \subseteq Labels /\ ActorsIn(ToSet(said)) \subseteq Labels
<1> DEFINE fs == [k \in DOMAIN said |-> said[k].families]
           ns == [k \in DOMAIN said |-> said[k].actors]
<1>1. DOMAIN said = 1..Len(said) /\ Len(said) \in Nat
  BY DEF IsRun
<1>2. \A k \in DOMAIN said : said[k].families \in Seq(Labels) /\ said[k].actors \in Seq(Labels)
  BY DEF IsRun, ToSet, Legible
<1>3. fs \in Seq(Seq(Labels)) /\ ns \in Seq(Seq(Labels))
  <2>1. fs \in [1..Len(said) -> Seq(Labels)] /\ ns \in [1..Len(said) -> Seq(Labels)]
    BY <1>1, <1>2
  <2> HIDE DEF fs, ns
  <2>2. QED
    BY <1>1, <2>1
<1>4. /\ UNION {ToSet(fs[k]) : k \in DOMAIN fs} = FamiliesIn(ToSet(said))
      /\ UNION {ToSet(ns[k]) : k \in DOMAIN ns} = ActorsIn(ToSet(said))
  <2>1. {ToSet(fs[k]) : k \in DOMAIN fs} = {ToSet(a.families) : a \in ToSet(said)}
    BY DEF ToSet
  <2>2. {ToSet(ns[k]) : k \in DOMAIN ns} = {ToSet(a.actors) : a \in ToSet(said)}
    BY DEF ToSet
  <2>3. QED
    BY <2>1, <2>2 DEF FamiliesIn, ActorsIn
<1>5. /\ FlattenSeq(fs) \in Seq(Labels) /\ ToSet(FlattenSeq(fs)) = FamiliesIn(ToSet(said))
      /\ FlattenSeq(ns) \in Seq(Labels) /\ ToSet(FlattenSeq(ns)) = ActorsIn(ToSet(said))
  <2> HIDE DEF fs, ns
  <2>1. QED
    BY <1>3, <1>4, FlattenIs
<1>6. /\ Once(FlattenSeq(fs)) \in Seq(Labels)
      /\ ToSet(Once(FlattenSeq(fs))) = FamiliesIn(ToSet(said))
      /\ Once(FlattenSeq(ns)) \in Seq(Labels)
      /\ ToSet(Once(FlattenSeq(ns))) = ActorsIn(ToSet(said))
  <2> HIDE DEF fs, ns
  <2>1. QED
    BY <1>5, OnceIs
<1>7. \A s \in Seq(Labels) : ToSet(s) \subseteq Labels
  BY DEF ToSet
<1>8. FamiliesIn(ToSet(said)) \subseteq Labels /\ ActorsIn(ToSet(said)) \subseteq Labels
  <2> HIDE DEF fs, ns
  <2>1. QED
    BY <1>6, <1>7
<1>9. QED
  BY <1>6, <1>8

LEMMA AttributionsAre ==
  ASSUME NEW said, IsRun(said)
  PROVE  \E Y : /\ Attributions(said) \in Seq(Y)
                /\ ToSet(Attributions(said))
                     = {Family(said, f) : f \in FamiliesIn(ToSet(said))}
                         \cup {Actor(said, n) : n \in ActorsIn(ToSet(said))}
<1> DEFINE families == Once(FlattenSeq([k \in DOMAIN said |-> said[k].families]))
           actors == Once(FlattenSeq([k \in DOMAIN said |-> said[k].actors]))
           fm == [f \in Labels |-> Family(said, f)]
           nm == [n \in Labels |-> Actor(said, n)]
           Y == {Family(said, f) : f \in Labels} \cup {Actor(said, n) : n \in Labels}
<1>1. /\ families \in Seq(Labels) /\ ToSet(families) = FamiliesIn(ToSet(said))
      /\ actors \in Seq(Labels) /\ ToSet(actors) = ActorsIn(ToSet(said))
      /\ FamiliesIn(ToSet(said)) \subseteq Labels /\ ActorsIn(ToSet(said)) \subseteq Labels
  BY LabelsAre
<1>2. fm \in [Labels -> Y] /\ nm \in [Labels -> Y]
  OBVIOUS
<1>3. /\ Mapped(families, fm) \in Seq(Y)
      /\ ToSet(Mapped(families, fm)) = {fm[x] : x \in ToSet(families)}
      /\ Mapped(actors, nm) \in Seq(Y)
      /\ ToSet(Mapped(actors, nm)) = {nm[x] : x \in ToSet(actors)}
  <2> HIDE DEF families, actors, fm, nm, Y
  <2>1. /\ Mapped(families, fm) \in Seq(Y)
        /\ ToSet(Mapped(families, fm)) = {fm[x] : x \in ToSet(families)}
    BY <1>1, <1>2, MapIs
  <2>2. /\ Mapped(actors, nm) \in Seq(Y)
        /\ ToSet(Mapped(actors, nm)) = {nm[x] : x \in ToSet(actors)}
    BY <1>1, <1>2, MapIs
  <2>3. QED
    BY <2>1, <2>2
<1>4. Attributions(said) = Mapped(families, fm) \o Mapped(actors, nm)
  <2>1. Attributions(said) = [k \in DOMAIN families |-> Family(said, families[k])]
                               \o [k \in DOMAIN actors |-> Actor(said, actors[k])]
    BY DEF Attributions
  <2> HIDE DEF families, actors
  <2>2. /\ \A k \in DOMAIN families : fm[families[k]] = Family(said, families[k])
        /\ \A k \in DOMAIN actors : nm[actors[k]] = Actor(said, actors[k])
    BY <1>1
  <2> HIDE DEF fm, nm
  <2>3. /\ [k \in DOMAIN families |-> Family(said, families[k])] = Mapped(families, fm)
        /\ [k \in DOMAIN actors |-> Actor(said, actors[k])] = Mapped(actors, nm)
    BY <2>2 DEF Mapped
  <2>4. QED
    BY <2>1, <2>3
<1>5. /\ {fm[x] : x \in ToSet(families)} = {Family(said, f) : f \in FamiliesIn(ToSet(said))}
      /\ {nm[x] : x \in ToSet(actors)} = {Actor(said, n) : n \in ActorsIn(ToSet(said))}
  <2> HIDE DEF families, actors
  <2>1. (\A f \in ToSet(families) : fm[f] = Family(said, f))
           /\ \A n \in ToSet(actors) : nm[n] = Actor(said, n)
    BY <1>1
  <2> HIDE DEF fm, nm
  <2>2. QED
    BY <1>1, <2>1
<1>6. /\ Attributions(said) \in Seq(Y)
      /\ ToSet(Attributions(said))
           = ToSet(Mapped(families, fm)) \cup ToSet(Mapped(actors, nm))
  <2> HIDE DEF families, actors, fm, nm, Y
  <2>1. QED
    BY <1>3, <1>4, ConcatIs
<1>7. QED
  <2> HIDE DEF families, actors, fm, nm, Y
  <2>1. QED
    BY <1>3, <1>5, <1>6

LEMMA WiderSeq ==
  ASSUME NEW Y, NEW Z, Y \subseteq Z, NEW s \in Seq(Y)
  PROVE  s \in Seq(Z)
<1>1. Len(s) \in Nat /\ s \in [1..Len(s) -> Z]
  OBVIOUS
<1>2. QED
  BY <1>1

\* The findings of a run are those its set of answers calls for.
LEMMA FindingsAre ==
  ASSUME NEW said, IsRun(said)
  PROVE  \E Y : BuildFindings(said) \in Seq(Y) /\ ToSet(BuildFindings(said)) = FindingsOn(said)
<1>1. PICK Y1 : /\ IocMatches(said) \in Seq(Y1)
                /\ ToSet(IocMatches(said)) = {MatchOf(a) : a \in HitsIn(ToSet(said))}
  BY MatchesAre
<1>2. PICK Y2 : /\ Attributions(said) \in Seq(Y2)
                /\ ToSet(Attributions(said))
                     = {Family(said, f) : f \in FamiliesIn(ToSet(said))}
                         \cup {Actor(said, n) : n \in ActorsIn(ToSet(said))}
  BY AttributionsAre
<1>3. PICK Y3 : /\ Signatures(said) \in Seq(Y3)
                /\ ToSet(Signatures(said)) = {SignatureOf(a) : a \in Signed(ToSet(said))}
  BY SignaturesAre
<1> DEFINE Y == Y1 \cup Y2 \cup Y3
           s == IocMatches(said)
           t == Attributions(said)
           u == Signatures(said)
<1>4. s \in Seq(Y) /\ t \in Seq(Y) /\ u \in Seq(Y)
  <2>1. Y1 \subseteq Y /\ Y2 \subseteq Y /\ Y3 \subseteq Y
    OBVIOUS
  <2> HIDE DEF Y
  <2>2. QED
    BY <1>1, <1>2, <1>3, <2>1, WiderSeq
<1>5. s \o t \in Seq(Y) /\ ToSet(s \o t) = ToSet(s) \cup ToSet(t)
  <2> HIDE DEF s, t, Y
  <2>1. QED
    BY <1>4, ConcatIs
<1>6. s \o t \o u \in Seq(Y) /\ ToSet(s \o t \o u) = ToSet(s \o t) \cup ToSet(u)
  <2> DEFINE st == s \o t
  <2>1. st \in Seq(Y) /\ u \in Seq(Y)
    BY <1>4, <1>5
  <2> HIDE DEF s, t, u, st, Y
  <2>2. st \o u \in Seq(Y) /\ ToSet(st \o u) = ToSet(st) \cup ToSet(u)
    BY <2>1, ConcatIs
  <2>3. QED
    BY <2>2 DEF st
<1>7. ToSet(s \o t \o u) = FindingsOn(said)
  <2>1. ToSet(s \o t \o u) = ToSet(s) \cup ToSet(t) \cup ToSet(u)
    <3> HIDE DEF s, t, u
    <3>1. QED
      BY <1>5, <1>6
  <2>2. QED
    BY <1>1, <1>2, <1>3, <2>1 DEF FindingsOn
<1>8. BuildFindings(said) = s \o t \o u
  BY DEF BuildFindings
<1>9. QED
  <2> HIDE DEF s, t, u, Y
  <2>1. QED
    BY <1>6, <1>7, <1>8

-----------------------------------------------------------------------------
(* The rows of a run.                                                      *)

NamingIn(A, f) == {a.feed : a \in {b \in A : f \in ToSet(b.families)}}

Twice(A) == \E l, m \in FamiliesIn(A) \cup ActorsIn(A) : l # m /\ Slug[l] = Slug[m]

\* When a match is critical, and when it is no mere information.
LEMMA SeverityIs ==
  /\ \A type, v : SeverityOf(type, v) = "critical" <=> v = "malicious" /\ type = "hash"
  /\ \A type, v : v \in {"malicious", "suspicious"} => SeverityOf(type, v) # "info"
BY DEF SeverityOf

\* Of which id, type and severity a finding is.
LEMMA FieldsAre ==
  /\ \A a : /\ MatchOf(a).id = <<"ioc", a.ioc>> /\ MatchOf(a).type = "ioc_match"
            /\ MatchOf(a).severity = SeverityOf(Type[a.ioc], a.verdict)
            /\ SignatureOf(a).id = <<"sig", a.ioc>> /\ SignatureOf(a).severity = "medium"
  /\ \A said, f : /\ Family(said, f).id = <<"family", Slug[f]>>
                  /\ Family(said, f).type = "family_attribution"
                  /\ Family(said, f).severity = "critical" <=>
                       Cardinality(NamingIn(ToSet(said), f)) > 1
                  /\ Actor(said, f).id = <<"actor", Slug[f]>>
                  /\ Actor(said, f).severity = "high"
BY DEF MatchOf, SignatureOf, Family, Actor, Finding, NamingIn

\* Ids of different kinds differ.
LEMMA IdsAre ==
  /\ \A i, j : <<"ioc", i>> = <<"ioc", j>> => i = j
  /\ \A i, j : <<"family", i>> = <<"family", j>> => i = j
  /\ \A i, j : <<"actor", i>> = <<"actor", j>> => i = j
  /\ \A i, j : <<"sig", i>> = <<"sig", j>> => i = j
  /\ \A i, j : /\ <<"ioc", i>> # <<"family", j>> /\ <<"ioc", i>> # <<"actor", j>>
               /\ <<"ioc", i>> # <<"sig", j>> /\ <<"family", i>> # <<"actor", j>>
               /\ <<"family", i>> # <<"sig", j>> /\ <<"actor", i>> # <<"sig", j>>
OBVIOUS

\* Findings with one id are of one kind, and about one indicator or one token.
LEMMA ApartAre ==
  /\ \A a, b : MatchOf(a).id = MatchOf(b).id => a.ioc = b.ioc
  /\ \A a, b : SignatureOf(a).id = SignatureOf(b).id => a.ioc = b.ioc
  /\ \A said, f, g : Family(said, f).id = Family(said, g).id => Slug[f] = Slug[g]
  /\ \A said, f, g : Actor(said, f).id = Actor(said, g).id => Slug[f] = Slug[g]
  /\ \A said, a, f : MatchOf(a).id # Family(said, f).id
  /\ \A said, a, f : MatchOf(a).id # Actor(said, f).id
  /\ \A said, a, f : SignatureOf(a).id # Family(said, f).id
  /\ \A said, a, f : SignatureOf(a).id # Actor(said, f).id
  /\ \A a, b : MatchOf(a).id # SignatureOf(b).id
  /\ \A said, f, g : Family(said, f).id # Actor(said, g).id
<1>1. \A a : MatchOf(a).id = <<"ioc", a.ioc>> /\ SignatureOf(a).id = <<"sig", a.ioc>>
  BY FieldsAre
<1>2. \A said, f : /\ Family(said, f).id = <<"family", Slug[f]>>
                   /\ Actor(said, f).id = <<"actor", Slug[f]>>
  BY FieldsAre
<1>3. /\ \A a, b : MatchOf(a).id = MatchOf(b).id => a.ioc = b.ioc
      /\ \A a, b : SignatureOf(a).id = SignatureOf(b).id => a.ioc = b.ioc
  BY <1>1, IdsAre
<1>4. /\ \A said, f, g : Family(said, f).id = Family(said, g).id => Slug[f] = Slug[g]
      /\ \A said, f, g : Actor(said, f).id = Actor(said, g).id => Slug[f] = Slug[g]
  BY <1>2, IdsAre
<1>5. \A said, a, f : MatchOf(a).id # Family(said, f).id
  BY <1>1, <1>2, IdsAre
<1>6. \A said, a, f : MatchOf(a).id # Actor(said, f).id
  BY <1>1, <1>2, IdsAre
<1>7. \A said, a, f : SignatureOf(a).id # Family(said, f).id
  <2>1. \A a, f : <<"family", Slug[f]>> # <<"sig", a.ioc>>
    BY IdsAre
  <2>2. QED
    BY <1>1, <1>2, <2>1
<1>8. \A said, a, f : SignatureOf(a).id # Actor(said, f).id
  <2>1. \A a, f : <<"actor", Slug[f]>> # <<"sig", a.ioc>>
    BY IdsAre
  <2>2. QED
    BY <1>1, <1>2, <2>1
<1>9. \A a, b : MatchOf(a).id # SignatureOf(b).id
  BY <1>1, IdsAre
<1>10. \A said, f, g : Family(said, f).id # Actor(said, g).id
  BY <1>2, IdsAre
<1>11. QED
  BY <1>3, <1>4, <1>5, <1>6, <1>7, <1>8, <1>9, <1>10

\* Of an indicator, a family and an actor there is one finding, and each has an id of its kind.
LEMMA RowsOn ==
  ASSUME NEW said, IsRun(said)
  PROVE  LET filings == RowsOf(BuildFindings(said))
         IN  /\ filings \subseteq FindingsOn(said)
             /\ \A x \in FindingsOn(said) : \E r \in filings : r.id = x.id
             /\ (\A x, y \in FindingsOn(said) : x.id = y.id => x = y) => filings = FindingsOn(said)
<1>1. PICK Y : BuildFindings(said) \in Seq(Y) /\ ToSet(BuildFindings(said)) = FindingsOn(said)
  BY FindingsAre
<1>2. QED
  BY <1>1, RowsAre

Origin(said, x) ==
  \/ \E a \in HitsIn(ToSet(said)) : x = MatchOf(a)
  \/ \E f \in FamiliesIn(ToSet(said)) : x = Family(said, f)
  \/ \E n \in ActorsIn(ToSet(said)) : x = Actor(said, n)
  \/ \E a \in Signed(ToSet(said)) : x = SignatureOf(a)

LEMMA OriginIs == \A said, x : x \in FindingsOn(said) => Origin(said, x)
BY DEF FindingsOn, Origin

\* An id that starts with "ioc" or "family" comes from nothing else.
LEMMA MatchesOnly ==
  ASSUME NEW said, IsRun(said), NEW a \in ToSet(said),
         NEW x \in FindingsOn(said), x.id = <<"ioc", a.ioc>>
  PROVE  x = MatchOf(a) /\ IsHit(a)
<1>1. Origin(said, x)
  BY OriginIs
<1>2. MatchOf(a).id = x.id
  BY FieldsAre
<1>3. PICK b \in HitsIn(ToSet(said)) : x = MatchOf(b)
  <2>1. ASSUME NEW f PROVE x # Family(said, f)
    <3>1. MatchOf(a).id # Family(said, f).id
      BY ApartAre
    <3>2. QED
      BY <1>2, <3>1
  <2>2. ASSUME NEW n PROVE x # Actor(said, n)
    <3>1. MatchOf(a).id # Actor(said, n).id
      BY ApartAre
    <3>2. QED
      BY <1>2, <3>1
  <2>3. ASSUME NEW b PROVE x # SignatureOf(b)
    <3>1. MatchOf(a).id # SignatureOf(b).id
      BY ApartAre
    <3>2. QED
      BY <1>2, <3>1
  <2>4. QED
    BY <1>1, <2>1, <2>2, <2>3 DEF Origin
<1>4. b \in ToSet(said) /\ IsHit(b) /\ b.ioc = a.ioc
  BY <1>2, <1>3, ApartAre DEF HitsIn
<1>5. b = a
  BY <1>4 DEF IsRun, ToSet
<1>6. QED
  BY <1>3, <1>4, <1>5

\* Unless a label is spelled in two ways, no two findings share an id.
LEMMA IdsApart ==
  ASSUME NEW said, IsRun(said), ~Twice(ToSet(said)),
         NEW x \in FindingsOn(said), NEW y \in FindingsOn(said), x.id = y.id
  PROVE  x = y
<1>0. Origin(said, x) /\ Origin(said, y)
  BY OriginIs
<1>1. \A a, b \in ToSet(said) : a.ioc = b.ioc => a = b
  BY DEF IsRun, ToSet
<1>2. \A l, m \in FamiliesIn(ToSet(said)) \cup ActorsIn(ToSet(said)) : Slug[l] = Slug[m] => l = m
  BY DEF Twice
<1>3. CASE \E a \in HitsIn(ToSet(said)) : x = MatchOf(a)
  <2>1. PICK a \in HitsIn(ToSet(said)) : x = MatchOf(a)
    BY <1>3
  <2>2. a \in ToSet(said) /\ y.id = <<"ioc", a.ioc>>
    BY <2>1, FieldsAre DEF HitsIn
  <2>3. QED
    BY <2>1, <2>2, MatchesOnly
<1>4. CASE \E f \in FamiliesIn(ToSet(said)) : x = Family(said, f)
  <2>1. PICK f \in FamiliesIn(ToSet(said)) : x = Family(said, f)
    BY <1>4
  <2>2. PICK g \in FamiliesIn(ToSet(said)) : y = Family(said, g)
    BY <1>0, <2>1, ApartAre DEF Origin
  <2>3. Slug[f] = Slug[g]
    BY <2>1, <2>2, ApartAre
  <2>4. QED
    BY <1>2, <2>1, <2>2, <2>3
<1>5. CASE \E n \in ActorsIn(ToSet(said)) : x = Actor(said, n)
  <2>1. PICK n \in ActorsIn(ToSet(said)) : x = Actor(said, n)
    BY <1>5
  <2>2. PICK m \in ActorsIn(ToSet(said)) : y = Actor(said, m)
    BY <1>0, <2>1, ApartAre DEF Origin
  <2>3. Slug[n] = Slug[m]
    BY <2>1, <2>2, ApartAre
  <2>4. QED
    BY <1>2, <2>1, <2>2, <2>3
<1>6. CASE \E a \in Signed(ToSet(said)) : x = SignatureOf(a)
  <2>1. PICK a \in Signed(ToSet(said)) : x = SignatureOf(a)
    BY <1>6
  <2>2. PICK b \in Signed(ToSet(said)) : y = SignatureOf(b)
    BY <1>0, <2>1, ApartAre DEF Origin
  <2>3. a \in ToSet(said) /\ b \in ToSet(said) /\ a.ioc = b.ioc
    BY <2>1, <2>2, ApartAre DEF Signed
  <2>4. QED
    BY <1>1, <2>1, <2>2, <2>3
<1>7. QED
  BY <1>0, <1>3, <1>4, <1>5, <1>6 DEF Origin

\* The same answers in another order are a run with the same findings.
LEMMA Reordered ==
  ASSUME NEW said, IsRun(said), NEW order \in Bijection(DOMAIN said, DOMAIN said)
  PROVE  LET other == [k \in DOMAIN said |-> said[order[k]]]
         IN  /\ IsRun(other) /\ ToSet(other) = ToSet(said)
             /\ FindingsOn(other) = FindingsOn(said)
<1> DEFINE other == [k \in DOMAIN said |-> said[order[k]]]
<1>1. /\ order \in [DOMAIN said -> DOMAIN said]
      /\ \A j, k \in DOMAIN said : order[j] = order[k] => j = k
      /\ \A k \in DOMAIN said : \E j \in DOMAIN said : order[j] = k
  BY DEF Bijection, Injection, Surjection, IsInjective
<1>2. DOMAIN said = 1..Len(said) /\ Len(said) \in Nat
  BY DEF IsRun
<1>3. ToSet(other) = ToSet(said)
  <2>1. DOMAIN other = DOMAIN said
    OBVIOUS
  <2>2. \A k \in DOMAIN said : other[k] = said[order[k]]
    OBVIOUS
  <2> HIDE DEF other
  <2>3. \A x \in ToSet(said) : \E j \in DOMAIN other : other[j] = x
    BY <1>1, <2>1, <2>2 DEF ToSet
  <2>4. \A j \in DOMAIN other : other[j] \in ToSet(said)
    BY <1>1, <2>1, <2>2 DEF ToSet
  <2>5. QED
    BY <2>3, <2>4 DEF ToSet
<1>4. IsRun(other)
  <2>1. other \in [1..Len(said) -> ToSet(said)]
    BY <1>1, <1>2 DEF ToSet
  <2>2. \A j, k \in DOMAIN other : other[j].ioc = other[k].ioc => j = k
    BY <1>1 DEF IsRun
  <2> HIDE DEF other
  <2>3. other \in Seq(ToSet(other))
    BY <1>2, <1>3, <2>1
  <2>4. QED
    BY <1>3, <2>2, <2>3 DEF IsRun
<1>5. FindingsOn(other) = FindingsOn(said)
  <2> HIDE DEF other
  <2>1. \A f : Family(other, f) = Family(said, f) /\ Actor(other, f) = Actor(said, f)
    BY <1>3 DEF Family, Actor
  <2>2. QED
    BY <1>3, <2>1 DEF FindingsOn
<1>6. QED
  BY <1>3, <1>4, <1>5

\* The rows of a run follow its answers.
LEMMA RowsTell ==
  ASSUME IsRun(answers), filed = RowsOf(BuildFindings(answers))
  PROVE  FindingsFollowAnswers
<1> DEFINE A == ToSet(answers)
           Known == \E a \in A : Type[a.ioc] = "hash" /\ a.verdict = "malicious"
           Agreed(slug) == \E f \in DOMAIN Slug : Slug[f] = slug
                                                    /\ Cardinality(NamingIn(A, f)) > 1
<1>1. /\ filed \subseteq FindingsOn(answers)
      /\ \A x \in FindingsOn(answers) : \E r \in filed : r.id = x.id
  BY RowsOn
<1>2. ASSUME NEW a \in A, IsHit(a)
      PROVE  \E r \in filed : /\ r.id = <<"ioc", a.ioc>> /\ r.type = "ioc_match"
                              /\ r.severity = SeverityOf(Type[a.ioc], a.verdict)
  <2>1. MatchOf(a) \in FindingsOn(answers)
    BY <1>2 DEF FindingsOn, HitsIn
  <2>2. PICK r \in filed : r.id = MatchOf(a).id
    BY <1>1, <2>1
  <2>3. r \in FindingsOn(answers) /\ r.id = <<"ioc", a.ioc>>
    <3>1. MatchOf(a).id = <<"ioc", a.ioc>>
      BY FieldsAre
    <3>2. QED
      BY <1>1, <2>2, <3>1
  <2>4. r = MatchOf(a)
    BY <2>3, MatchesOnly
  <2>5. MatchOf(a).type = "ioc_match" /\ MatchOf(a).severity = SeverityOf(Type[a.ioc], a.verdict)
    BY FieldsAre
  <2>6. QED
    BY <2>3, <2>4, <2>5
<1>3. ASSUME NEW a \in A
      PROVE  /\ IsHit(a) => \E r \in filed : r.id = <<"ioc", a.ioc>> /\ r.severity # "info"
             /\ \A f \in ToSet(a.families) : \E r \in filed : r.id = <<"family", Slug[f]>>
             /\ \A n \in ToSet(a.actors) : \E r \in filed : r.id = <<"actor", Slug[n]>>
  <2>1. IsHit(a) => SeverityOf(Type[a.ioc], a.verdict) # "info"
    BY SeverityIs DEF IsHit
  <2>2. ASSUME NEW f \in ToSet(a.families)
        PROVE  \E r \in filed : r.id = <<"family", Slug[f]>>
    <3>1. f \in FamiliesIn(A)
      BY DEF FamiliesIn
    <3>2. Family(answers, f) \in FindingsOn(answers)
      BY <3>1 DEF FindingsOn
    <3>3. Family(answers, f).id = <<"family", Slug[f]>>
      BY FieldsAre
    <3>4. QED
      BY <1>1, <3>2, <3>3
  <2>3. ASSUME NEW n \in ToSet(a.actors)
        PROVE  \E r \in filed : r.id = <<"actor", Slug[n]>>
    <3>1. n \in ActorsIn(A)
      BY DEF ActorsIn
    <3>2. Actor(answers, n) \in FindingsOn(answers)
      BY <3>1 DEF FindingsOn
    <3>3. Actor(answers, n).id = <<"actor", Slug[n]>>
      BY FieldsAre
    <3>4. QED
      BY <1>1, <3>2, <3>3
  <2>4. QED
    BY <1>2, <2>1, <2>2, <2>3
<1>4. ASSUME NEW r \in filed, r.severity = "critical"
      PROVE  \/ r.type = "ioc_match" /\ Type[r.id[2]] = "hash" /\ Known
             \/ r.type = "family_attribution" /\ Agreed(r.id[2])
  <2>1. Origin(answers, r)
    BY <1>1, OriginIs
  <2>2. ASSUME NEW a \in HitsIn(A), r = MatchOf(a)
        PROVE  r.type = "ioc_match" /\ Type[r.id[2]] = "hash" /\ Known
    <3>1. /\ MatchOf(a).id = <<"ioc", a.ioc>> /\ MatchOf(a).type = "ioc_match"
          /\ MatchOf(a).severity = SeverityOf(Type[a.ioc], a.verdict)
      BY FieldsAre
    <3>2. r.id[2] = a.ioc /\ r.type = "ioc_match"
      BY <2>2, <3>1
    <3>3. a.verdict = "malicious" /\ Type[a.ioc] = "hash"
      BY <1>4, <2>2, <3>1, SeverityIs
    <3>4. a \in A
      BY DEF HitsIn
    <3>5. QED
      BY <3>2, <3>3, <3>4
  <2>3. ASSUME NEW f \in FamiliesIn(A), r = Family(answers, f)
        PROVE  r.type = "family_attribution" /\ Agreed(r.id[2])
    <3>1. /\ Family(answers, f).id = <<"family", Slug[f]>>
          /\ Family(answers, f).type = "family_attribution"
          /\ Family(answers, f).severity = "critical" <=> Cardinality(NamingIn(A, f)) > 1
      BY FieldsAre
    <3>2. r.id[2] = Slug[f] /\ r.type = "family_attribution"
      BY <2>3, <3>1
    <3>3. Cardinality(NamingIn(A, f)) > 1
      BY <1>4, <2>3, <3>1
    <3>4. f \in DOMAIN Slug
      BY LabelsAre DEF Labels
    <3>5. QED
      BY <3>2, <3>3, <3>4
  <2>4. ASSUME NEW n, r = Actor(answers, n) PROVE FALSE
    <3>1. Actor(answers, n).severity = "high"
      BY FieldsAre
    <3>2. QED
      BY <1>4, <2>4, <3>1
  <2>5. ASSUME NEW a, r = SignatureOf(a) PROVE FALSE
    <3>1. SignatureOf(a).severity = "medium"
      BY FieldsAre
    <3>2. QED
      BY <1>4, <2>5, <3>1
  <2> HIDE DEF Known, Agreed
  <2>6. QED
    BY <2>1, <2>2, <2>3, <2>4, <2>5 DEF Origin
<1>5. Known => \E r \in filed : r.type = "ioc_match" /\ r.severity = "critical"
  <2>1. SUFFICES ASSUME NEW a \in A, Type[a.ioc] = "hash", a.verdict = "malicious"
                 PROVE  \E r \in filed : r.type = "ioc_match" /\ r.severity = "critical"
    OBVIOUS
  <2>2. IsHit(a) /\ SeverityOf(Type[a.ioc], a.verdict) = "critical"
    BY <2>1, SeverityIs DEF IsHit
  <2>3. QED
    BY <1>2, <2>2
<1>6. ASSUME ~SpelledTwice
      PROVE  /\ \A f \in DOMAIN Slug : Cardinality(NamingIn(A, f)) > 1 =>
                  \E r \in filed : r.id = <<"family", Slug[f]>> /\ r.severity = "critical"
             /\ \A order \in Bijection(DOMAIN answers, DOMAIN answers) :
                  filed = RowsOf(BuildFindings([k \in DOMAIN answers |-> answers[order[k]]]))
  <2>1. ~Twice(A)
    <3>1. UNION {ToSet(a.families) \cup ToSet(a.actors) : a \in A} = FamiliesIn(A) \cup ActorsIn(A)
      BY DEF FamiliesIn, ActorsIn
    <3>2. QED
      BY <1>6, <3>1 DEF SpelledTwice, Twice
  <2>2. filed = FindingsOn(answers)
    <3>1. \A x, y \in FindingsOn(answers) : x.id = y.id => x = y
      BY <2>1, IdsApart
    <3>2. QED
      BY <3>1, RowsOn
  <2>3. ASSUME NEW f \in DOMAIN Slug, Cardinality(NamingIn(A, f)) > 1
        PROVE  \E r \in filed : r.id = <<"family", Slug[f]>> /\ r.severity = "critical"
    <3>1. NamingIn(A, f) # {}
      BY <2>3, FS_EmptySet
    <3>2. f \in FamiliesIn(A)
      BY <3>1 DEF NamingIn, FamiliesIn
    <3>3. Family(answers, f) \in filed
      BY <2>2, <3>2 DEF FindingsOn
    <3>4. /\ Family(answers, f).id = <<"family", Slug[f]>>
          /\ Family(answers, f).severity = "critical" <=> Cardinality(NamingIn(A, f)) > 1
      BY FieldsAre
    <3>5. QED
      BY <2>3, <3>3, <3>4
  <2>4. ASSUME NEW order \in Bijection(DOMAIN answers, DOMAIN answers)
        PROVE  filed = RowsOf(BuildFindings([k \in DOMAIN answers |-> answers[order[k]]]))
    <3> DEFINE other == [k \in DOMAIN answers |-> answers[order[k]]]
    <3>1. IsRun(other) /\ ToSet(other) = A /\ FindingsOn(other) = FindingsOn(answers)
      BY Reordered
    <3> HIDE DEF other
    <3>2. \A x, y \in FindingsOn(other) : x.id = y.id => x = y
      BY <2>1, <3>1, IdsApart
    <3>3. RowsOf(BuildFindings(other)) = FindingsOn(other)
      BY <3>1, <3>2, RowsOn
    <3>4. QED
      BY <2>2, <3>1, <3>3 DEF other
  <2>5. QED
    BY <2>3, <2>4
<1>7. \A f : {a.feed : a \in {b \in A : f \in ToSet(b.families)}} = NamingIn(A, f)
  BY DEF NamingIn
<1> HIDE DEF A
<1>8. QED
  BY <1>3, <1>4, <1>5, <1>6, <1>7 DEF FindingsFollowAnswers, A

CInv == IsRun(answers) /\ (correlated => filed = RowsOf(BuildFindings(answers)))

\* What is heard is an answer to an indicator nobody was asked about.
LEMMA Heard ==
  ASSUME CInv, NEW i \in Iocs, Hear(i)
  PROVE  IsRun(answers')
<1>1. PICK feed \in ToSet(Feeds) :
        /\ Type[i] \in Handles[feed]
        /\ \E read \in {NoRecord} \cup {Read(feed, Type[i], r) : r \in Says[feed][Type[i]]} :
             answers' = Append(answers, Answered(i, feed, read))
  BY DEF Hear
<1>2. PICK read \in {NoRecord} \cup {Read(feed, Type[i], r) : r \in Says[feed][Type[i]]} :
        answers' = Append(answers, Answered(i, feed, read))
  BY <1>1
<1>3. /\ read.verdict \in Verdicts
      /\ read.families \in Seq(Labels) /\ read.actors \in Seq(Labels)
  <2>1. CASE read = NoRecord
    BY <2>1 DEF NoRecord, Reading, Verdicts
  <2>2. CASE \E r \in Says[feed][Type[i]] : read = Read(feed, Type[i], r)
    BY <1>1, <2>2, ReadIs
  <2>3. QED
    BY <2>1, <2>2
<1> DEFINE x == Answered(i, feed, read)
           X == ToSet(answers) \cup {x}
<1>4. Legible(x) /\ x.ioc = i
  BY <1>3 DEF Legible, Answered
<1>5. answers \in Seq(X) /\ x \in X
  <2>1. answers \in Seq(ToSet(answers)) /\ ToSet(answers) \subseteq X
    BY DEF CInv, IsRun
  <2> HIDE DEF X
  <2>2. answers \in Seq(X)
    BY <2>1, WiderSeq
  <2>3. QED
    BY <2>2 DEF X
<1>6. /\ answers' \in Seq(X) /\ ToSet(answers') = X
      /\ Len(answers') = Len(answers) + 1 /\ answers'[Len(answers) + 1] = x
      /\ \A k \in 1..Len(answers) : answers'[k] = answers[k]
  <2>1. /\ Append(answers, x) \in Seq(X) /\ ToSet(Append(answers, x)) = ToSet(answers) \cup {x}
        /\ Len(Append(answers, x)) = Len(answers) + 1
        /\ Append(answers, x)[Len(answers) + 1] = x
        /\ \A k \in 1..Len(answers) : Append(answers, x)[k] = answers[k]
    <3> HIDE DEF x, X
    <3>1. QED
      BY <1>5, AppendIs
  <2>2. QED
    BY <1>2, <2>1
<1>7. \A a \in X : Legible(a)
  BY <1>4 DEF CInv, IsRun
<1>8. \A j, k \in DOMAIN answers' : answers'[j].ioc = answers'[k].ioc => j = k
  <2>1. /\ DOMAIN answers = 1..Len(answers) /\ Len(answers) \in Nat
        /\ DOMAIN answers' = 1..Len(answers')
    BY <1>6 DEF CInv, IsRun
  <2>2. \A k \in DOMAIN answers : answers[k].ioc # i
    BY DEF Hear, ToSet
  <2>3. \A k \in DOMAIN answers' : k \in DOMAIN answers \/ k = Len(answers) + 1
    BY <1>6, <2>1
  <2>4. \A k \in DOMAIN answers : answers'[k] = answers[k]
    BY <1>6, <2>1
  <2>5. answers'[Len(answers) + 1].ioc = i
    BY <1>4, <1>6
  <2> HIDE DEF x, X
  <2>6. SUFFICES ASSUME NEW j \in DOMAIN answers', NEW k \in DOMAIN answers',
                        answers'[j].ioc = answers'[k].ioc
                 PROVE  j = k
    OBVIOUS
  <2>7. CASE j \in DOMAIN answers /\ k \in DOMAIN answers
    BY <2>4, <2>6, <2>7 DEF CInv, IsRun
  <2>8. QED
    BY <2>2, <2>3, <2>4, <2>5, <2>6, <2>7
<1>9. QED
  <2> HIDE DEF x, X
  <2>1. QED
    BY <1>6, <1>7, <1>8 DEF IsRun

\* The rows of a job say what its feeds answered, in whatever order the answers stand: an
\* adverse answer and a label are behind a row, a critical row has the sample known to be
\* malicious or two feeds that name one family behind it, and only labels that are spelled
\* in two ways leave the choice of a row to the order.
THEOREM RowsFollowAnswers == CSpec => []FindingsFollowAnswers
<1>1. CInit => CInv
  <2>1. SUFFICES ASSUME CInit PROVE CInv
    OBVIOUS
  <2>2. answers = <<>> /\ ToSet(answers) = {} /\ DOMAIN answers = {} /\ ~correlated
    BY <2>1 DEF CInit, ToSet
  <2>3. answers \in Seq(ToSet(answers))
    BY <2>2
  <2>4. QED
    BY <2>2, <2>3 DEF CInv, IsRun
<1>2. CInv /\ [CNext]_cvars => CInv'
  <2>1. SUFFICES ASSUME CInv, [CNext]_cvars PROVE CInv'
    OBVIOUS
  <2>2. ASSUME NEW i \in Iocs, Hear(i) PROVE CInv'
    <3>1. IsRun(answers')
      BY <2>1, <2>2, Heard
    <3>2. ~correlated'
      BY <2>2 DEF Hear
    <3>3. QED
      BY <3>1, <3>2 DEF CInv
  <2>3. CASE Correlate
    <3>1. answers' = answers /\ filed' = RowsOf(BuildFindings(answers))
      BY <2>3 DEF Correlate
    <3>2. QED
      BY <2>1, <3>1 DEF CInv
  <2>4. CASE UNCHANGED cvars
    <3>1. answers' = answers /\ filed' = filed /\ correlated' = correlated
      BY <2>4 DEF cvars
    <3>2. QED
      BY <2>1, <3>1 DEF CInv
  <2>5. QED
    BY <2>1, <2>2, <2>3, <2>4 DEF CNext
<1>3. CInv => FindingsFollowAnswers
  <2>1. CASE correlated
    BY <2>1, RowsTell DEF CInv
  <2>2. CASE ~correlated
    BY <2>2 DEF FindingsFollowAnswers
  <2>3. QED
    BY <2>1, <2>2
<1>4. QED
  BY <1>1, <1>2, <1>3, PTL DEF CSpec

-----------------------------------------------------------------------------
(* Scores: what a job is scored with is a set of findings.                 *)

LEMMA Least == \A a, b \in Nat : Min({a, b}) = IF a <= b THEN a ELSE b
<1> SUFFICES ASSUME NEW a \in Nat, NEW b \in Nat
             PROVE  Min({a, b}) = IF a <= b THEN a ELSE b
  OBVIOUS
<1> DEFINE m == IF a <= b THEN a ELSE b
<1>1. m \in {a, b} /\ \A y \in {a, b} : m <= y
  OBVIOUS
<1>2. \A x \in {a, b} : (\A y \in {a, b} : x <= y) => x = m
  OBVIOUS
<1>3. QED
  <2> HIDE DEF m
  <2>1. QED
    BY <1>1, <1>2 DEF Min, m

\* Rounding half to even, and the tiers, never turn an order around.
LEMMA HalvedGrows ==
  \A m, n \in Nat : m <= n => /\ Halved(m) \in Nat /\ Halved(n) \in Nat
                              /\ Halved(m) <= Halved(n)
<1> SUFFICES ASSUME NEW m \in Nat, NEW n \in Nat, m <= n
             PROVE  Halved(m) \in Nat /\ Halved(n) \in Nat /\ Halved(m) <= Halved(n)
  OBVIOUS
<1>1. /\ Halved(m) \in {m \div 100, m \div 100 + 1} /\ m \div 100 \in Nat
      /\ Halved(n) \in {n \div 100, n \div 100 + 1} /\ n \div 100 \in Nat
  BY DEF Halved
<1>2. m \div 100 <= n \div 100
  OBVIOUS
<1>3. CASE m \div 100 < n \div 100
  BY <1>1, <1>3
<1>4. CASE m \div 100 = n \div 100
  <2>1. m % 100 <= n % 100 /\ m % 100 \in Nat /\ n % 100 \in Nat
    BY <1>4
  <2>2. Halved(m) <= Halved(n)
    BY <1>1, <1>4, <2>1 DEF Halved
  <2>3. QED
    BY <1>1, <2>2
<1>5. QED
  BY <1>1, <1>2, <1>3, <1>4

LEMMA TierGrows ==
  \A a, b \in Nat : a <= b => /\ Rank(Tier(a)) \in Nat /\ Rank(Tier(b)) \in Nat
                              /\ Rank(Tier(a)) <= Rank(Tier(b))
<1>1. /\ Rank("benign") = 1 /\ Rank("suspicious") = 2
      /\ Rank("malicious") = 3 /\ Rank("critical") = 4
  <2>1. /\ DOMAIN Tiers = 1..4 /\ Tiers[1] = "benign" /\ Tiers[2] = "suspicious"
        /\ Tiers[3] = "malicious" /\ Tiers[4] = "critical"
    BY DEF Tiers
  <2>2. \A i \in DOMAIN Tiers : i = 1 \/ i = 2 \/ i = 3 \/ i = 4
    BY <2>1
  <2>3. QED
    BY <2>1, <2>2 DEF Rank
<1>2. ASSUME NEW a \in Nat, NEW b \in Nat, a <= b
      PROVE  /\ Rank(Tier(a)) \in Nat /\ Rank(Tier(b)) \in Nat
             /\ Rank(Tier(a)) <= Rank(Tier(b))
  <2>0. \A c \in Nat : /\ c \in 7000..8999 <=> c >= 7000 /\ ~(c >= 9000)
                       /\ c \in 4000..6999 <=> c >= 4000 /\ ~(c >= 7000)
                       /\ c < 9000 <=> ~(c >= 9000)
                       /\ c < 7000 <=> ~(c >= 7000)
                       /\ c < 4000 <=> ~(c >= 4000)
                       /\ c >= 9000 => c >= 7000
                       /\ c >= 7000 => c >= 4000
    OBVIOUS
  <2>1. ASSUME NEW c \in Nat
        PROVE  /\ c >= 9000 => Rank(Tier(c)) = 4
               /\ c < 9000 /\ c >= 7000 => Rank(Tier(c)) = 3
               /\ c < 7000 /\ c >= 4000 => Rank(Tier(c)) = 2
               /\ c < 4000 => Rank(Tier(c)) = 1
    <3>1. CASE c >= 9000
      <4>1. Tier(c) = "critical"
        BY <2>0, <3>1 DEF Tier
      <4>2. QED
        BY <1>1, <3>1, <4>1
    <3>2. CASE c < 9000 /\ c >= 7000
      <4>1. Tier(c) = "malicious"
        BY <2>0, <3>2 DEF Tier
      <4>2. QED
        BY <1>1, <3>2, <4>1
    <3>3. CASE c < 7000 /\ c >= 4000
      <4>1. Tier(c) = "suspicious"
        BY <2>0, <3>3 DEF Tier
      <4>2. QED
        BY <1>1, <3>3, <4>1
    <3>4. CASE c < 4000
      <4>1. Tier(c) = "benign"
        BY <2>0, <3>4 DEF Tier
      <4>2. QED
        BY <1>1, <3>4, <4>1
    <3>5. QED
      BY <3>1, <3>2, <3>3, <3>4
  <2>2. QED
    BY <1>2, <2>1
<1>3. QED
  BY <1>2

PointRange == 1..10000

\* What a finding is worth at most.
LEMMA PointsRange == \A f \in Pool : ToScoring(f).points \in PointRange
<1> SUFFICES ASSUME NEW f \in Pool PROVE ToScoring(f).points \in PointRange
  OBVIOUS
<1> DEFINE a == SeverityScore(f.severity)
           b == Multiplier(ConfidenceLabel(f.confidence))
<1>1. a \in {100, 75, 50, 25, 10}
  BY DEF SeverityScore
<1>2. ConfidenceLabel(f.confidence) \in {"very_high", "high", "medium", "low"}
  BY DEF ConfidenceLabel
<1>3. b \in {100, 85, 60, 30}
  BY <1>2 DEF Multiplier
<1>4. ToScoring(f).points = a * b
  BY DEF ToScoring
<1> HIDE DEF a, b
<1>5. CASE b = 100
  BY <1>1, <1>4, <1>5 DEF PointRange
<1>6. CASE b = 85
  BY <1>1, <1>4, <1>6 DEF PointRange
<1>7. CASE b = 60
  BY <1>1, <1>4, <1>7 DEF PointRange
<1>8. CASE b = 30
  BY <1>1, <1>4, <1>8 DEF PointRange
<1>9. QED
  BY <1>3, <1>5, <1>6, <1>7, <1>8

\* The findings that are read, and what the scoring makes of them.
Shown(s) == {s[i].finding : i \in DOMAIN s}
Translated(s) == [i \in DOMAIN s |-> ToScoring(s[i].finding)]

\* What is read has one row of a finding.
Scorable(s) ==
  /\ \E n \in Nat : DOMAIN s = 1..n
  /\ Shown(s) \subseteq Pool
  /\ \A i, j \in DOMAIN s : s[i].finding = s[j].finding => i = j

LEMMA ShownFinite ==
  ASSUME NEW s, Scorable(s)
  PROVE  IsFiniteSet(Shown(s)) /\ IsFiniteSet(DOMAIN s)
<1> DEFINE m == [i \in DOMAIN s |-> s[i].finding]
<1>1. IsFiniteSet(DOMAIN s)
  BY FS_Interval DEF Scorable
<1>2. {m[i] : i \in DOMAIN s} = Shown(s)
  BY DEF Shown
<1>3. IsFiniteSet({m[i] : i \in DOMAIN s})
  <2> HIDE DEF m
  <2>1. QED
    BY <1>1, ImageFinite
<1>4. QED
  BY <1>1, <1>2, <1>3

LEMMA Greatest ==
  ASSUME NEW s \in SUBSET PointRange, s # {}
  PROVE  Max(s) \in s /\ Max(s) \in PointRange /\ \A y \in s : Max(s) >= y
<1> DEFINE N == 10000
<1>1. N \in Nat /\ 1..N = PointRange
  BY DEF PointRange
<1> HIDE DEF N
<1>2. Max(s) \in s /\ \A y \in s : Max(s) >= y
  BY <1>1, MaxIs
<1>3. QED
  BY <1>2

\* A weight keeps the order of what it weighs.
LEMMA WeightsAre ==
  ASSUME NEW d \in Domains, NEW m \in Nat, NEW n \in Nat, m <= n
  PROVE  m * Weights[d] \in Nat /\ n * Weights[d] \in Nat /\ m * Weights[d] <= n * Weights[d]
<1>1. Weights[d] \in {10, 15, 20}
  BY DEF Domains, Weights
<1>2. CASE Weights[d] = 10
  BY <1>2
<1>3. CASE Weights[d] = 15
  BY <1>3
<1>4. CASE Weights[d] = 20
  BY <1>4
<1>5. QED
  BY <1>1, <1>2, <1>3, <1>4

PointsOf(R, d) == {ToScoring(f).points : f \in {g \in R : DomainOf(ToScoring(g).type) = d}}

ScoreOf(R, d) ==
  IF PointsOf(R, d) = {} THEN 0 ELSE Halved(Max(PointsOf(R, d)) * Weights[d])

\* A domain's score depends on the findings, not on the order of their rows.
LEMMA DomainIs == \A s, d : DomainScore(Translated(s), d) = ScoreOf(Shown(s), d)
<1> SUFFICES ASSUME NEW s, NEW d
             PROVE  DomainScore(Translated(s), d) = ScoreOf(Shown(s), d)
  OBVIOUS
<1>1. Points(Translated(s), d) = PointsOf(Shown(s), d)
  BY DEF Points, PointsOf, Translated, Shown
<1>2. QED
  BY <1>1 DEF DomainScore, ScoreOf

\* More findings never lower the score of a domain.
LEMMA DomainGrows ==
  ASSUME NEW Q \in SUBSET Pool, NEW R \in SUBSET Q, NEW d \in Domains
  PROVE  ScoreOf(R, d) \in Nat /\ ScoreOf(Q, d) \in Nat /\ ScoreOf(R, d) <= ScoreOf(Q, d)
<1> DEFINE p == PointsOf(R, d)
           q == PointsOf(Q, d)
<1>1. p \subseteq q /\ q \in SUBSET PointRange /\ p \in SUBSET PointRange
  BY PointsRange DEF PointsOf
<1>0. PointRange \subseteq Nat
  BY DEF PointRange
<1> HIDE DEF p, q
<1>2. CASE q = {}
  BY <1>1, <1>2 DEF ScoreOf, p, q
<1>3. CASE q # {}
  <2>1. Max(q) \in PointRange /\ \A y \in q : Max(q) >= y
    BY <1>1, <1>3, Greatest
  <2>2. Halved(Max(q) * Weights[d]) \in Nat
    <3>0. Max(q) \in Nat /\ Max(q) <= Max(q)
      <4>1. Max(q) \in Nat
        BY <1>0, <2>1
      <4>2. \A n \in Nat : n <= n
        OBVIOUS
      <4>3. QED
        BY <4>1, <4>2
    <3>1. Max(q) * Weights[d] \in Nat
      BY <3>0, WeightsAre
    <3>2. QED
      BY <3>1, HalvedGrows
  <2>3. ScoreOf(Q, d) = Halved(Max(q) * Weights[d])
    BY <1>3 DEF ScoreOf, q
  <2>4. CASE p = {}
    <3>1. ScoreOf(R, d) = 0
      BY <2>4 DEF ScoreOf, p
    <3>2. QED
      BY <2>2, <2>3, <3>1
  <2>5. CASE p # {}
    <3>1. Max(p) \in PointRange /\ Max(p) \in p
      BY <1>1, <2>5, Greatest
    <3>2. Max(p) <= Max(q) /\ Max(p) \in Nat /\ Max(q) \in Nat
      BY <1>0, <1>1, <2>1, <3>1
    <3>3. /\ Max(p) * Weights[d] <= Max(q) * Weights[d]
          /\ Max(p) * Weights[d] \in Nat /\ Max(q) * Weights[d] \in Nat
      BY <3>2, WeightsAre
    <3>4. ScoreOf(R, d) = Halved(Max(p) * Weights[d])
      BY <2>5 DEF ScoreOf, p
    <3>5. QED
      BY <2>3, <3>3, <3>4, HalvedGrows
  <2>6. QED
    BY <2>4, <2>5
<1>4. QED
  BY <1>2, <1>3

LEMMA TenFinite ==
  ASSUME NEW a, NEW b, NEW c, NEW d, NEW e, NEW f, NEW g, NEW h, NEW i, NEW j
  PROVE  IsFiniteSet({a, b, c, d, e, f, g, h, i, j})
<1> DEFINE five == {a} \cup {b} \cup {c} \cup {d} \cup {e}
           more == {f} \cup {g} \cup {h} \cup {i} \cup {j}
<1>1. \A x : IsFiniteSet({x})
  BY FS_Singleton
<1>2. \A s, t : IsFiniteSet(s) /\ IsFiniteSet(t) => IsFiniteSet(s \cup t)
  BY FS_Union
<1>3. IsFiniteSet(five) /\ IsFiniteSet(more)
  BY <1>1, <1>2
<1>4. {a, b, c, d, e, f, g, h, i, j} = five \cup more
  OBVIOUS
<1>5. QED
  <2> HIDE DEF five, more
  <2>1. QED
    BY <1>2, <1>3, <1>4

LEMMA DomainsFinite == IsFiniteSet(Domains)
<1>1. Domains = {"manifest", "permissions", "code", "api", "network",
                 "threat_intel", "dynamic", "dynamic", "dynamic", "dynamic"}
  BY DEF Domains, Weights
<1>2. QED
  BY <1>1, TenFinite

LEMMA RulesFinite == IsFiniteSet(SynergyRules) /\ \A r \in SynergyRules : r.bonus \in Nat
<1>1. IsFiniteSet(SynergyRules)
  BY TenFinite DEF SynergyRules
<1>2. \A n, s, t, u : Rule(n, s, t, u).bonus = 100 * n
  BY DEF Rule
<1>3. \A r \in SynergyRules : r.bonus \in Nat
  BY <1>2 DEF SynergyRules
<1>4. QED
  BY <1>1, <1>3

\* The base score adds up the domains.
LEMMA BaseIs ==
  ASSUME NEW s, Scorable(s)
  PROVE  BaseScore(Translated(s)) = Sum([d \in Domains |-> ScoreOf(Shown(s), d)], Domains)
<1> DEFINE T == Domains
           fs == Translated(s)
           f == [d \in T |-> ScoreOf(Shown(s), d)]
           Spends(h) == h = [u \in SUBSET T |->
                               IF u = {} THEN 0 ELSE DomainScore(fs, Pick(u)) + h[u \ {Pick(u)}]]
           g == CHOOSE h : Spends(h)
<1>1. \A d \in T : f[d] \in Nat /\ f[d] = DomainScore(fs, d)
  <2>1. \A d \in T : ScoreOf(Shown(s), d) \in Nat
    BY DomainGrows DEF Scorable
  <2>2. \A d \in T : ScoreOf(Shown(s), d) = DomainScore(fs, d)
    BY DomainIs
  <2>3. QED
    BY <2>1, <2>2
<1>2. ASSUME NEW h
      PROVE  Spends(h) <=> Adds(h, f, T)
  <2>1. \A u \in SUBSET T : u # {} => f[Pick(u)] = DomainScore(fs, Pick(u))
    <3> HIDE DEF f, T, fs
    <3>1. QED
      BY <1>1, PickIs
  <2>2. [u \in SUBSET T |-> IF u = {} THEN 0 ELSE DomainScore(fs, Pick(u)) + h[u \ {Pick(u)}]]
          = [u \in SUBSET T |-> IF u = {} THEN 0 ELSE f[Pick(u)] + h[u \ {Pick(u)}]]
    <3> HIDE DEF f, T, fs
    <3>1. QED
      BY <2>1
  <2>3. QED
    <3> HIDE DEF f, T, fs
    <3>1. QED
      BY <2>2 DEF Adds
<1>3. Adds(g, f, T)
  <2> HIDE DEF f, fs, Spends
  <2>1. \E h : Spends(h)
    BY <1>1, <1>2, AddsExists, DomainsFinite
  <2>2. QED
    BY <1>2, <2>1
<1>4. BaseScore(fs) = g[T]
  BY DEF BaseScore, MapThenSumSet, MapThenFoldSet, Pick
<1>5. g[T] = Sum(f, T)
  <2> HIDE DEF f, g
  <2>1. QED
    BY <1>1, <1>3, SumIs, DomainsFinite
<1>6. QED
  BY <1>4, <1>5

\* The bonus adds up the rules that fire.
LEMMA SynergyIs ==
  ASSUME NEW fs
  PROVE  Synergy(fs) = Sum([r \in SynergyRules |-> r.bonus], EvaluateSynergy(fs))
<1> DEFINE T == EvaluateSynergy(fs)
           f == [r \in SynergyRules |-> r.bonus]
           Spends(h) == h = [u \in SUBSET T |->
                               IF u = {} THEN 0 ELSE Pick(u).bonus + h[u \ {Pick(u)}]]
           g == CHOOSE h : Spends(h)
<1>1. T \subseteq SynergyRules /\ IsFiniteSet(T)
  BY RulesFinite, FS_Subset DEF EvaluateSynergy
<1>2. \A r \in T : f[r] \in Nat /\ f[r] = r.bonus
  BY <1>1, RulesFinite
<1>3. ASSUME NEW h
      PROVE  Spends(h) <=> Adds(h, f, T)
  <2>1. \A u \in SUBSET T : u # {} => f[Pick(u)] = Pick(u).bonus
    <3> HIDE DEF f, T
    <3>1. QED
      BY <1>2, PickIs
  <2>2. [u \in SUBSET T |-> IF u = {} THEN 0 ELSE Pick(u).bonus + h[u \ {Pick(u)}]]
          = [u \in SUBSET T |-> IF u = {} THEN 0 ELSE f[Pick(u)] + h[u \ {Pick(u)}]]
    <3> HIDE DEF f, T
    <3>1. QED
      BY <2>1
  <2>3. QED
    <3> HIDE DEF f, T
    <3>1. QED
      BY <2>2 DEF Adds
<1>4. Adds(g, f, T)
  <2> HIDE DEF f, T, Spends
  <2>1. \E h : Spends(h)
    BY <1>1, <1>2, <1>3, AddsExists
  <2>2. QED
    BY <1>3, <2>1
<1>5. Synergy(fs) = g[T]
  BY DEF Synergy, MapThenSumSet, MapThenFoldSet, Pick
<1>6. g[T] = Sum(f, T)
  <2> HIDE DEF f, g, T
  <2>1. QED
    BY <1>1, <1>2, <1>4, SumIs
<1>7. QED
  BY <1>5, <1>6

\* What is active is active whatever the order, and stays active when more is read.
LEMMA ActiveGrows ==
  ASSUME NEW s, NEW t, Shown(s) \subseteq Shown(t)
  PROVE  EvaluateSynergy(Translated(s)) \subseteq EvaluateSynergy(Translated(t))
<1>1. \A i \in DOMAIN s : \E j \in DOMAIN t : s[i].finding = t[j].finding
  BY DEF Shown
<1>2. \A i \in DOMAIN s : \E j \in DOMAIN t : Translated(s)[i] = Translated(t)[j]
  BY <1>1 DEF Translated
<1>3. DOMAIN Translated(s) = DOMAIN s /\ DOMAIN Translated(t) = DOMAIN t
  BY DEF Translated
<1>4. ActiveDomains(Translated(s)) \subseteq ActiveDomains(Translated(t))
  BY <1>2, <1>3 DEF ActiveDomains
<1>5. ActiveTypes(Translated(s)) \subseteq ActiveTypes(Translated(t))
  BY <1>2, <1>3 DEF ActiveTypes
<1>6. ActiveMitre(Translated(s)) \subseteq ActiveMitre(Translated(t))
  BY <1>2, <1>3 DEF ActiveMitre
<1>7. QED
  BY <1>4, <1>5, <1>6 DEF EvaluateSynergy

\* More findings never score less.
LEMMA FinalGrows ==
  ASSUME NEW s, NEW t, Scorable(s), Scorable(t), Shown(s) \subseteq Shown(t)
  PROVE  /\ FinalScore(Translated(s)) \in Nat /\ FinalScore(Translated(t)) \in Nat
         /\ FinalScore(Translated(s)) <= FinalScore(Translated(t))
<1> DEFINE f == [d \in Domains |-> ScoreOf(Shown(s), d)]
           e == [d \in Domains |-> ScoreOf(Shown(t), d)]
           b == [r \in SynergyRules |-> r.bonus]
           S == EvaluateSynergy(Translated(s))
           T == EvaluateSynergy(Translated(t))
<1>1. \A d \in Domains : f[d] \in Nat /\ e[d] \in Nat /\ f[d] <= e[d]
  BY DomainGrows DEF Scorable
<1>2. /\ BaseScore(Translated(s)) = Sum(f, Domains)
      /\ BaseScore(Translated(t)) = Sum(e, Domains)
  BY BaseIs
<1>3. Sum(f, Domains) <= Sum(e, Domains) /\ Sum(f, Domains) \in Nat /\ Sum(e, Domains) \in Nat
  <2> HIDE DEF f, e
  <2>1. QED
    BY <1>1, SumGrows, DomainsFinite
<1>4. Synergy(Translated(s)) = Sum(b, S) /\ Synergy(Translated(t)) = Sum(b, T)
  BY SynergyIs
<1>5. /\ S \subseteq T /\ IsFiniteSet(T) /\ T \subseteq SynergyRules
      /\ \A r \in T : b[r] \in Nat
  <2>1. S \subseteq T
    BY ActiveGrows
  <2>2. T \subseteq SynergyRules
    BY DEF EvaluateSynergy
  <2>3. IsFiniteSet(T)
    BY <2>2, RulesFinite, FS_Subset
  <2>4. \A r \in T : b[r] \in Nat
    BY <2>2, RulesFinite
  <2>5. QED
    BY <2>1, <2>2, <2>3, <2>4
<1>6. Sum(b, S) <= Sum(b, T) /\ Sum(b, S) \in Nat /\ Sum(b, T) \in Nat
  <2> HIDE DEF b, S, T
  <2>1. S \in SUBSET T /\ \A r \in S : b[r] \in Nat /\ b[r] <= b[r]
    BY <1>5
  <2>2. QED
    BY <1>5, <2>1, SumGrows
<1> DEFINE x == BaseScore(Translated(s)) + Synergy(Translated(s))
           y == BaseScore(Translated(t)) + Synergy(Translated(t))
<1>7. x \in Nat /\ y \in Nat /\ x <= y
  <2> HIDE DEF f, e, b, S, T
  <2>1. QED
    BY <1>2, <1>3, <1>4, <1>6
<1>8. FinalScore(Translated(s)) = Min({10000, x}) /\ FinalScore(Translated(t)) = Min({10000, y})
  BY DEF FinalScore
<1>9. QED
  <2> HIDE DEF x, y
  <2>1. /\ Min({10000, x}) = IF 10000 <= x THEN 10000 ELSE x
        /\ Min({10000, y}) = IF 10000 <= y THEN 10000 ELSE y
    <3>1. 10000 \in Nat
      OBVIOUS
    <3>2. QED
      BY <1>7, <3>1, Least
  <2>2. QED
    BY <1>7, <1>8, <2>1

-----------------------------------------------------------------------------
(* Categories: the votes of a ballot do not depend on its order.           *)

Categories == {"banking_trojan", "spyware", "rootkit", "dropper", "ransomware", "riskware"}
Slips == {Vote(c, n) : c \in Categories, n \in Nat}

\* The votes that can be cast.
LEMMA SlipIs == \A v \in Slips : v.for \in Categories /\ v.weight \in Nat
BY DEF Slips, Vote

LEMMA SlipSeqs ==
  /\ <<>> \in Seq(Slips)
  /\ \A c \in Categories, n \in Nat : <<Vote(c, n)>> \in Seq(Slips)
  /\ \A c, d \in Categories, m, n \in Nat : <<Vote(c, m), Vote(d, n)>> \in Seq(Slips)
<1>1. \A c \in Categories, n \in Nat : Vote(c, n) \in Slips
  BY DEF Slips
<1>2. \A v, w \in Slips : <<v>> \in Seq(Slips) /\ <<v, w>> \in Seq(Slips)
  OBVIOUS
<1>3. <<>> \in Seq(Slips)
  OBVIOUS
<1>4. QED
  BY <1>1, <1>2, <1>3

LEMMA VotesAre == \A t : MitreVotes(t) \in Seq(Slips) /\ TypeVotes(t) \in Seq(Slips)
<1> DEFINE S == Seq(Slips)
<1>1. /\ <<>> \in S
      /\ \A c \in Categories, n \in Nat : <<Vote(c, n)>> \in S
      /\ \A c, d \in Categories, m, n \in Nat : <<Vote(c, m), Vote(d, n)>> \in S
  BY SlipSeqs
<1>2. 1 \in Nat /\ 2 \in Nat /\ 3 \in Nat /\ 5 \in Nat
  OBVIOUS
<1>3. /\ "banking_trojan" \in Categories /\ "spyware" \in Categories
      /\ "rootkit" \in Categories /\ "dropper" \in Categories
      /\ "ransomware" \in Categories /\ "riskware" \in Categories
  BY DEF Categories
<1> HIDE DEF S
<1>4. ASSUME NEW t PROVE MitreVotes(t) \in S
  BY <1>1, <1>2, <1>3 DEF MitreVotes
<1>5. ASSUME NEW t PROVE TypeVotes(t) \in S
  BY <1>1, <1>2, <1>3 DEF TypeVotes
<1>6. QED
  BY <1>4, <1>5 DEF S

Weighed(b) == [i \in DOMAIN b |-> b[i].weight]
Cast(b, c) == {i \in DOMAIN b : b[i].for = c}

LEMMA CastIs ==
  ASSUME NEW b \in Seq(Slips), NEW c
  PROVE  IsFiniteSet(Cast(b, c)) /\ \A i \in DOMAIN b : Weighed(b)[i] \in Nat
<1>1. \A i \in DOMAIN b : b[i] \in Slips
  OBVIOUS
<1>2. \A i \in DOMAIN b : Weighed(b)[i] \in Nat
  BY <1>1, SlipIs DEF Weighed
<1>3. DOMAIN b = 1..Len(b) /\ Len(b) \in Nat
  OBVIOUS
<1>4. IsFiniteSet(DOMAIN b) /\ Cast(b, c) \subseteq DOMAIN b
  BY <1>3, FS_Interval DEF Cast
<1>5. QED
  BY <1>2, <1>4, FS_Subset

\* A category's total adds up the votes cast for it.
LEMMA TotalIs ==
  ASSUME NEW b \in Seq(Slips), NEW c
  PROVE  Total(b, c) = Sum(Weighed(b), Cast(b, c)) /\ Total(b, c) \in Nat
<1> DEFINE T == Cast(b, c)
           f == Weighed(b)
           Spends(h) == h = [u \in SUBSET T |->
                               IF u = {} THEN 0 ELSE b[Pick(u)].weight + h[u \ {Pick(u)}]]
           g == CHOOSE h : Spends(h)
<1>1. IsFiniteSet(T)
  BY CastIs
<1>2. \A i \in T : f[i] \in Nat /\ f[i] = b[i].weight
  <2>1. \A i \in T : f[i] \in Nat
    BY CastIs DEF Cast
  <2>2. \A i \in T : f[i] = b[i].weight
    BY DEF Cast, Weighed
  <2>3. QED
    BY <2>1, <2>2
<1>3. ASSUME NEW h
      PROVE  Spends(h) <=> Adds(h, f, T)
  <2>1. \A u \in SUBSET T : u # {} => f[Pick(u)] = b[Pick(u)].weight
    <3> HIDE DEF f, T
    <3>1. QED
      BY <1>2, PickIs
  <2>2. [u \in SUBSET T |-> IF u = {} THEN 0 ELSE b[Pick(u)].weight + h[u \ {Pick(u)}]]
          = [u \in SUBSET T |-> IF u = {} THEN 0 ELSE f[Pick(u)] + h[u \ {Pick(u)}]]
    <3> HIDE DEF f, T
    <3>1. QED
      BY <2>1
  <2>3. QED
    <3> HIDE DEF f, T
    <3>1. QED
      BY <2>2 DEF Adds
<1>4. Adds(g, f, T)
  <2> HIDE DEF f, T, Spends
  <2>1. \E h : Spends(h)
    BY <1>1, <1>2, <1>3, AddsExists
  <2>2. QED
    BY <1>3, <2>1
<1>5. Total(b, c) = g[T]
  BY DEF Total, MapThenSumSet, MapThenFoldSet, Pick, Cast
<1>6. g[T] = Sum(f, T) /\ Sum(f, T) \in Nat
  <2> HIDE DEF f, g, T
  <2>1. QED
    BY <1>1, <1>2, <1>4, SumIs
<1>7. QED
  BY <1>5, <1>6

\* Two ballots together have the votes of both.
LEMMA TotalConcat ==
  ASSUME NEW s \in Seq(Slips), NEW t \in Seq(Slips), NEW c
  PROVE  Total(s \o t, c) = Total(s, c) + Total(t, c)
<1> DEFINE u == s \o t
           n == Len(s)
           m == [j \in DOMAIN t |-> n + j]
           B == {m[j] : j \in Cast(t, c)}
<1>1. /\ u \in Seq(Slips) /\ Len(u) = n + Len(t)
      /\ \A k \in 1..n : u[k] = s[k]
      /\ \A k \in 1..Len(t) : u[n + k] = t[k]
  BY ConcatIs
<1>2. /\ DOMAIN s = 1..n /\ DOMAIN t = 1..Len(t) /\ DOMAIN u = 1..(n + Len(t))
      /\ n \in Nat /\ Len(t) \in Nat
  BY <1>1
<1> HIDE DEF u, n
<1>3. \A j \in DOMAIN t : m[j] = n + j /\ m[j] \in DOMAIN u /\ m[j] \notin DOMAIN s
  BY <1>2
<1>4. \A i \in DOMAIN u : i \in DOMAIN s \/ (i - n \in DOMAIN t /\ m[i - n] = i)
  BY <1>2
<1> HIDE DEF m
<1>5. /\ \A i \in DOMAIN s : i \in DOMAIN u /\ u[i] = s[i]
      /\ \A j \in DOMAIN t : u[m[j]] = t[j]
  BY <1>1, <1>2, <1>3
<1>6. Cast(u, c) = Cast(s, c) \cup B
  <2>1. ASSUME NEW i \in Cast(u, c) PROVE i \in Cast(s, c) \cup B
    <3>1. CASE i \in DOMAIN s
      BY <1>5, <2>1, <3>1 DEF Cast
    <3>2. CASE i \notin DOMAIN s
      <4>1. i - n \in DOMAIN t /\ m[i - n] = i
        BY <1>4, <2>1, <3>2 DEF Cast
      <4>2. t[i - n].for = c
        BY <1>5, <2>1, <4>1 DEF Cast
      <4>3. QED
        BY <4>1, <4>2 DEF Cast
    <3>3. QED
      BY <3>1, <3>2
  <2>2. \A i \in Cast(s, c) : i \in Cast(u, c)
    BY <1>5 DEF Cast
  <2>3. \A i \in B : i \in Cast(u, c)
    BY <1>3, <1>5 DEF Cast
  <2>4. QED
    BY <2>1, <2>2, <2>3
<1>7. /\ IsFiniteSet(Cast(s, c)) /\ IsFiniteSet(Cast(t, c)) /\ IsFiniteSet(Cast(u, c))
      /\ \A i \in DOMAIN s : Weighed(s)[i] \in Nat
      /\ \A i \in DOMAIN t : Weighed(t)[i] \in Nat
      /\ \A i \in DOMAIN u : Weighed(u)[i] \in Nat
  BY <1>1, CastIs
<1>8. Cast(s, c) \cap B = {}
  BY <1>3 DEF Cast
<1>9. IsFiniteSet(B) /\ \A i \in Cast(s, c) \cup B : Weighed(u)[i] \in Nat
  <2>1. B \subseteq Cast(u, c)
    BY <1>6
  <2>2. \A i \in Cast(u, c) : i \in DOMAIN u
    BY DEF Cast
  <2>3. QED
    BY <1>6, <1>7, <2>1, <2>2, FS_Subset
<1>10. Sum(Weighed(u), Cast(s, c)) = Sum(Weighed(s), Cast(s, c))
  <2>1. \A i \in Cast(s, c) : Weighed(s)[i] \in Nat /\ Weighed(s)[i] = Weighed(u)[i]
    BY <1>5, <1>7 DEF Cast, Weighed
  <2>2. QED
    BY <1>7, <2>1, SumSame
<1>11. Sum(Weighed(t), Cast(t, c)) = Sum(Weighed(u), B)
  <2>1. /\ \A j \in Cast(t, c) : Weighed(t)[j] \in Nat /\ Weighed(t)[j] = Weighed(u)[m[j]]
        /\ \A j, k \in Cast(t, c) : m[j] = m[k] => j = k
    <3>1. \A j \in Cast(t, c) : j \in DOMAIN t
      BY DEF Cast
    <3>2. \A j \in DOMAIN t : Weighed(t)[j] = Weighed(u)[m[j]]
      BY <1>3, <1>5 DEF Weighed
    <3>3. \A j, k \in DOMAIN t : m[j] = m[k] => j = k
      BY <1>2, <1>3
    <3>4. QED
      BY <1>7, <3>1, <3>2, <3>3
  <2>2. QED
    BY <1>7, <2>1, SumMoved
<1>12. Sum(Weighed(u), Cast(s, c) \cup B) = Sum(Weighed(u), Cast(s, c)) + Sum(Weighed(u), B)
  <2> HIDE DEF B
  <2>1. QED
    BY <1>7, <1>8, <1>9, SumUnion
<1>13. /\ Total(u, c) = Sum(Weighed(u), Cast(u, c)) /\ Total(s, c) = Sum(Weighed(s), Cast(s, c))
       /\ Total(t, c) = Sum(Weighed(t), Cast(t, c))
  BY <1>1, TotalIs
<1>14. Total(u, c) = Total(s, c) + Total(t, c)
  BY <1>6, <1>10, <1>11, <1>12, <1>13
<1>15. QED
  BY <1>14 DEF u

\* Of flattened ballots the totals add up.
LEMMA FlattenTotals ==
  ASSUME NEW seqs \in Seq(Seq(Slips)), NEW c
  PROVE  /\ Total(FlattenSeq(seqs), c) = Sum([k \in DOMAIN seqs |-> Total(seqs[k], c)], DOMAIN seqs)
         /\ \A k \in DOMAIN seqs : Total(seqs[k], c) \in Nat
<1> DEFINE N == Len(seqs)
           V == Seq(Slips)
           e == [k \in DOMAIN seqs |-> Total(seqs[k], c)]
<1>1. N \in Nat /\ DOMAIN seqs = 1..N /\ seqs \in [1..N -> V]
  OBVIOUS
<1>2. PICK h \in [0..N -> V] :
        /\ h[0] = <<>> /\ FlattenSeq(seqs) = h[N]
        /\ \A k \in 1..N : h[k] = h[k - 1] \o seqs[k]
  BY FlattenSteps
<1>3. \A b \in V : Total(b, c) \in Nat
  BY TotalIs
<1>4. \A k \in 1..N : e[k] = Total(seqs[k], c) /\ e[k] \in Nat /\ seqs[k] \in V
  <2> HIDE DEF N, V
  <2>1. QED
    BY <1>1, <1>3
<1> DEFINE P == {k \in 0..N : Total(h[k], c) = Sum(e, 1..k)}
<1>5. 0 \in P
  <2>1. Cast(<<>>, c) = {} /\ <<>> \in Seq(Slips)
    BY DEF Cast
  <2>2. Total(<<>>, c) = 0
    BY <2>1, TotalIs, SumEmpty
  <2>3. 1..0 = {} /\ 0 \in 0..N
    BY <1>1
  <2>4. Sum(e, 1..0) = 0
    BY <2>3, SumEmpty
  <2> HIDE DEF N, e
  <2>5. QED
    BY <1>2, <2>2, <2>3, <2>4
<1>6. ASSUME NEW k \in Nat, k < N, k \in P
      PROVE  k + 1 \in P
  <2> HIDE DEF N, V, e
  <2>1. k + 1 \in 1..N /\ (k + 1) - 1 = k /\ k \in 0..N /\ k + 1 \in 0..N
    BY <1>1, <1>6
  <2>2. h[k + 1] = h[k] \o seqs[k + 1]
    BY <1>2, <2>1
  <2>3. h[k] \in V /\ seqs[k + 1] \in V
    BY <1>2, <1>4, <2>1
  <2>4. Total(h[k + 1], c) = Total(h[k], c) + Total(seqs[k + 1], c)
    BY <2>2, <2>3, TotalConcat DEF V
  <2>5. /\ (1..(k + 1)) \ {k + 1} = 1..k /\ k + 1 \in 1..(k + 1)
        /\ \A i \in 1..(k + 1) : i \in 1..N
    <3>1. (1..(k + 1)) \ {k + 1} = 1..k
      <4>1. k + 1 \in Nat \ {0} /\ (k + 1) - 1 = k
        OBVIOUS
      <4>2. QED
        BY <4>1, LastOfInterval
    <3>2. k + 1 \in 1..(k + 1)
      OBVIOUS
    <3>3. \A i \in 1..(k + 1) : i \in 1..N
      BY <1>1, <1>6
    <3>4. QED
      BY <3>1, <3>2, <3>3
  <2>6. IsFiniteSet(1..(k + 1)) /\ \A i \in 1..(k + 1) : e[i] \in Nat
    BY <1>4, <2>5, FS_Interval
  <2>7. Sum(e, 1..(k + 1)) = e[k + 1] + Sum(e, 1..k) /\ Sum(e, 1..k) \in Nat
    <3> DEFINE T == 1..(k + 1)
               x == k + 1
    <3>1. IsFiniteSet(T) /\ x \in T /\ T \ {x} = 1..k /\ \A i \in T : e[i] \in Nat
      BY <2>5, <2>6
    <3> HIDE DEF T, x
    <3>2. Sum(e, T) = e[x] + Sum(e, T \ {x}) /\ Sum(e, T \ {x}) \in Nat
      BY <3>1, SumRemove
    <3>3. QED
      BY <3>1, <3>2 DEF T, x
  <2>8. e[k + 1] = Total(seqs[k + 1], c) /\ e[k + 1] \in Nat
    BY <1>4, <2>1
  <2>9. Total(h[k], c) = Sum(e, 1..k)
    BY <1>6
  <2>10. Total(h[k + 1], c) = Sum(e, 1..(k + 1))
    BY <2>4, <2>7, <2>8, <2>9
  <2>11. QED
    BY <2>1, <2>10
<1>7. \A k \in 0..N : k \in P
  <2> HIDE DEF P, N
  <2>1. QED
    BY <1>1, <1>5, <1>6, Upwards
<1>8. Total(h[N], c) = Sum(e, 1..N)
  <2>1. N \in 0..N
    BY <1>1
  <2> HIDE DEF N, e
  <2>2. QED
    BY <1>7, <2>1
<1>9. QED
  <2> HIDE DEF N, V
  <2>1. QED
    BY <1>1, <1>2, <1>4, <1>8

\* What each finding that is read adds to a ballot.
LEMMA SlipsGathered ==
  ASSUME NEW s, Scorable(s), NEW of \in [Pool -> Seq(Slips)], NEW c
  PROVE  LET b == FlattenSeq([i \in DOMAIN s |-> of[s[i].finding]])
         IN  /\ b \in Seq(Slips)
             /\ ToSet(b) = UNION {ToSet(of[f]) : f \in Shown(s)}
             /\ Total(b, c) = Sum([f \in Pool |-> Total(of[f], c)], Shown(s))
<1> DEFINE seqs == [i \in DOMAIN s |-> of[s[i].finding]]
           V == Seq(Slips)
           m == [i \in DOMAIN s |-> s[i].finding]
           e == [f \in Pool |-> Total(of[f], c)]
           g == [k \in DOMAIN seqs |-> Total(seqs[k], c)]
<1>1. PICK n \in Nat : DOMAIN s = 1..n
  BY DEF Scorable
<1>2. \A i \in DOMAIN s : s[i].finding \in Pool /\ s[i].finding \in Shown(s)
  BY DEF Scorable, Shown
<1>3. seqs \in Seq(V)
  <2>1. seqs \in [1..n -> V]
    BY <1>1, <1>2
  <2> HIDE DEF seqs, V
  <2>2. QED
    BY <1>1, <2>1
<1>4. DOMAIN seqs = DOMAIN s /\ \A i \in DOMAIN s : seqs[i] = of[m[i]] /\ m[i] = s[i].finding
  OBVIOUS
<1>5. {m[i] : i \in DOMAIN s} = Shown(s)
  BY DEF Shown
<1> HIDE DEF seqs, m
<1>6. /\ FlattenSeq(seqs) \in V
      /\ ToSet(FlattenSeq(seqs)) = UNION {ToSet(seqs[k]) : k \in DOMAIN seqs}
  BY <1>3, FlattenIs
<1>7. UNION {ToSet(seqs[k]) : k \in DOMAIN seqs} = UNION {ToSet(of[f]) : f \in Shown(s)}
  <2>1. {ToSet(seqs[k]) : k \in DOMAIN seqs} = {ToSet(of[f]) : f \in Shown(s)}
    <3>1. {ToSet(seqs[k]) : k \in DOMAIN seqs} = {ToSet(of[m[k]]) : k \in DOMAIN s}
      BY <1>4
    <3>2. {ToSet(of[m[k]]) : k \in DOMAIN s} = {ToSet(of[f]) : f \in {m[i] : i \in DOMAIN s}}
      OBVIOUS
    <3>3. QED
      BY <1>5, <3>1, <3>2
  <2>2. QED
    BY <2>1
<1>8. /\ Total(FlattenSeq(seqs), c) = Sum(g, DOMAIN seqs)
      /\ \A k \in DOMAIN seqs : Total(seqs[k], c) \in Nat
  BY <1>3, FlattenTotals
<1>9. /\ \A k \in DOMAIN s : g[k] \in Nat /\ g[k] = e[m[k]]
      /\ \A j, k \in DOMAIN s : m[j] = m[k] => j = k
  <2>1. \A k \in DOMAIN s : g[k] = Total(seqs[k], c) /\ m[k] \in Pool
    BY <1>2, <1>4
  <2>2. \A k \in DOMAIN s : e[m[k]] = Total(of[m[k]], c)
    BY <2>1
  <2>3. \A j, k \in DOMAIN s : m[j] = m[k] => j = k
    BY <1>4 DEF Scorable
  <2> HIDE DEF g, e
  <2>4. QED
    BY <1>4, <1>8, <2>1, <2>2, <2>3
<1>10. Sum(g, DOMAIN s) = Sum(e, Shown(s))
  <2>1. IsFiniteSet(DOMAIN s)
    BY ShownFinite
  <2> HIDE DEF g, e
  <2>2. Sum(g, DOMAIN s) = Sum(e, {m[i] : i \in DOMAIN s})
    BY <1>9, <2>1, SumMoved
  <2>3. QED
    BY <1>5, <2>2
<1>11. Total(FlattenSeq(seqs), c) = Sum(e, Shown(s))
  <2> HIDE DEF g, e
  <2>1. QED
    BY <1>4, <1>8, <1>10
<1>12. QED
  <2> HIDE DEF g, e
  <2>1. QED
    BY <1>6, <1>7, <1>11 DEF seqs, e

TechniqueSlips(x) == FlattenSeq([i \in DOMAIN x.mitre |-> MitreVotes(x.mitre[i])])

LEMMA TechniquesAre == \A f \in Pool : TechniqueSlips(ToScoring(f)) \in Seq(Slips)
<1> SUFFICES ASSUME NEW f \in Pool PROVE TechniqueSlips(ToScoring(f)) \in Seq(Slips)
  OBVIOUS
<1> DEFINE t == f.mitre
           V == Seq(Slips)
           seqs == [i \in DOMAIN t |-> MitreVotes(t[i])]
<1>1. ToScoring(f).mitre = t
  BY DEF ToScoring
<1>2. DOMAIN t = 1..Len(t) /\ Len(t) \in Nat
  <2> DEFINE Z == STRING \ {""}
  <2>1. t \in Seq(Z)
    BY ScoringAssumption
  <2> HIDE DEF t, Z
  <2>2. QED
    BY <2>1
<1> HIDE DEF t
<1>3. seqs \in Seq(V)
  <2>1. seqs \in [1..Len(t) -> V]
    BY <1>2, VotesAre
  <2> HIDE DEF seqs, V
  <2>2. QED
    BY <1>2, <2>1
<1>4. FlattenSeq(seqs) \in V
  <2> HIDE DEF seqs
  <2>1. QED
    BY <1>3, FlattenIs
<1>5. TechniqueSlips(ToScoring(f)) = FlattenSeq(seqs)
  BY <1>1 DEF TechniqueSlips
<1>6. QED
  BY <1>4, <1>5

ByTechnique == [f \in Pool |-> TechniqueSlips(ToScoring(f))]
ByType == [f \in Pool |-> TypeVotes(ToScoring(f).type)]

\* The votes of a set of findings, and what they add up to.
SlipsOn(R) ==
  (UNION {ToSet(ByTechnique[f]) : f \in R}) \cup (UNION {ToSet(ByType[f]) : f \in R})

TotalOn(R, c) == Sum([f \in Pool |-> Total(ByTechnique[f], c)], R)
                   + Sum([f \in Pool |-> Total(ByType[f], c)], R)

\* The ballot, and every total, depends on the findings alone.
LEMMA BallotIs ==
  ASSUME NEW s, Scorable(s), NEW c
  PROVE  LET b == Ballot(Translated(s))
         IN  /\ b \in Seq(Slips) /\ ToSet(b) = SlipsOn(Shown(s))
             /\ Total(b, c) = TotalOn(Shown(s), c)
<1> DEFINE ts == [i \in DOMAIN s |-> ByTechnique[s[i].finding]]
           us == [i \in DOMAIN s |-> ByType[s[i].finding]]
           t == FlattenSeq(ts)
           u == FlattenSeq(us)
<1>1. ByTechnique \in [Pool -> Seq(Slips)] /\ ByType \in [Pool -> Seq(Slips)]
  BY TechniquesAre, VotesAre DEF ByTechnique, ByType
<1>2. /\ t \in Seq(Slips) /\ ToSet(t) = UNION {ToSet(ByTechnique[f]) : f \in Shown(s)}
      /\ Total(t, c) = Sum([f \in Pool |-> Total(ByTechnique[f], c)], Shown(s))
  BY <1>1, SlipsGathered
<1>3. /\ u \in Seq(Slips) /\ ToSet(u) = UNION {ToSet(ByType[f]) : f \in Shown(s)}
      /\ Total(u, c) = Sum([f \in Pool |-> Total(ByType[f], c)], Shown(s))
  BY <1>1, SlipsGathered
<1>4. Ballot(Translated(s)) = t \o u
  <2>1. \A i \in DOMAIN s : s[i].finding \in Pool
    BY DEF Scorable, Shown
  <2>2. ts = [i \in DOMAIN s |-> TechniqueSlips(Translated(s)[i])]
    BY <2>1 DEF ByTechnique, Translated
  <2>3. us = [i \in DOMAIN s |-> TypeVotes(Translated(s)[i].type)]
    BY <2>1 DEF ByType, Translated
  <2>4. DOMAIN Translated(s) = DOMAIN s
    BY DEF Translated
  <2>5. Ballot(Translated(s))
          = FlattenSeq([i \in DOMAIN Translated(s) |-> TechniqueSlips(Translated(s)[i])])
              \o FlattenSeq([i \in DOMAIN Translated(s) |-> TypeVotes(Translated(s)[i].type)])
    BY DEF Ballot, Each, TechniqueSlips
  <2>6. QED
    BY <2>2, <2>3, <2>4, <2>5
<1> HIDE DEF t, u
<1>5. /\ t \o u \in Seq(Slips) /\ ToSet(t \o u) = ToSet(t) \cup ToSet(u)
      /\ Total(t \o u, c) = Total(t, c) + Total(u, c)
  BY <1>2, <1>3, ConcatIs, TotalConcat
<1>6. ToSet(t \o u) = SlipsOn(Shown(s))
  BY <1>2, <1>3, <1>5 DEF SlipsOn
<1>7. Total(t \o u, c) = TotalOn(Shown(s), c)
  BY <1>2, <1>3, <1>5 DEF TotalOn
<1>8. QED
  BY <1>4, <1>5, <1>6, <1>7

\* Of finitely many, one has as much as any.
LEMMA LeaderExists ==
  ASSUME NEW T, IsFiniteSet(T), T # {}, NEW f, \A x \in T : f[x] \in Nat
  PROVE  \E x \in T : \A y \in T : f[y] <= f[x]
<1> DEFINE P == {s \in SUBSET T : s = {} \/ \E x \in s : \A y \in s : f[y] <= f[x]}
<1>1. ASSUME NEW s \in SUBSET T, \A x \in s : s \ {x} \in P
      PROVE  s \in P
  <2>1. SUFFICES ASSUME s # {} PROVE \E x \in s : \A y \in s : f[y] <= f[x]
    OBVIOUS
  <2>2. PICK z \in s : TRUE
    BY <2>1
  <2>3. \A y \in s : f[y] \in Nat /\ (y = z \/ y \in s \ {z})
    OBVIOUS
  <2>4. CASE s \ {z} = {}
    <3>1. \A y \in s : f[y] <= f[z]
      BY <2>2, <2>3, <2>4
    <3>2. QED
      BY <2>2, <3>1
  <2>5. CASE s \ {z} # {}
    <3>1. PICK x \in s \ {z} : \A y \in s \ {z} : f[y] <= f[x]
      BY <1>1, <2>2, <2>5
    <3>2. CASE f[z] <= f[x]
      <4>1. \A y \in s : f[y] <= f[x]
        BY <2>3, <3>1, <3>2
      <4>2. QED
        BY <3>1, <4>1
    <3>3. CASE ~(f[z] <= f[x])
      <4>1. f[x] \in Nat /\ f[z] \in Nat /\ f[x] <= f[z]
        BY <2>2, <2>3, <3>1, <3>3
      <4>2. \A y \in s : f[y] <= f[z]
        BY <2>3, <3>1, <4>1
      <4>3. QED
        BY <2>2, <4>2
    <3>4. QED
      BY <3>2, <3>3
  <2>6. QED
    BY <2>4, <2>5
<1>2. \A s \in SUBSET T : s \in P
  <2> HIDE DEF P
  <2>1. QED
    BY <1>1, BySize
<1>3. QED
  BY <1>2

\* Who leads is a matter of what is read, not of its order.
LeadersOn(R) ==
  LET named == {v.for : v \in SlipsOn(R)}
  IN  {c \in named : \A d \in named : TotalOn(R, d) <= TotalOn(R, c)}

\* So do the leading categories; somebody leads when votes were cast.
LEMMA LeadersAre ==
  ASSUME NEW s, Scorable(s)
  PROVE  LET b == Ballot(Translated(s))
         IN  /\ Leaders(b) = LeadersOn(Shown(s)) /\ IsFiniteSet(Leaders(b))
             /\ b # <<>> => Leaders(b) # {}
             /\ b = <<>> <=> SlipsOn(Shown(s)) = {}
<1> DEFINE b == Ballot(Translated(s))
           named == {b[i].for : i \in DOMAIN b}
           f == [c \in named |-> Total(b, c)]
<1>1. /\ b \in Seq(Slips) /\ ToSet(b) = SlipsOn(Shown(s))
      /\ \A c : Total(b, c) = TotalOn(Shown(s), c)
  BY BallotIs
<1> HIDE DEF b
<1>2. named = {v.for : v \in SlipsOn(Shown(s))}
  BY <1>1 DEF ToSet
<1>3. Leaders(b) = LeadersOn(Shown(s))
  <2>1. Leaders(b) = {c \in named : \A d \in named : Total(b, d) <= Total(b, c)}
    BY DEF Leaders
  <2>2. LeadersOn(Shown(s))
          = {c \in named : \A d \in named : TotalOn(Shown(s), d) <= TotalOn(Shown(s), c)}
    BY <1>2 DEF LeadersOn
  <2> HIDE DEF named
  <2>3. QED
    BY <1>1, <2>1, <2>2
<1>4. DOMAIN b = 1..Len(b) /\ Len(b) \in Nat
  BY <1>1
<1>5. IsFiniteSet(named)
  <2> DEFINE m == [i \in DOMAIN b |-> b[i].for]
  <2>1. IsFiniteSet(DOMAIN b)
    BY <1>4, FS_Interval
  <2>2. named = {m[i] : i \in DOMAIN b}
    OBVIOUS
  <2> HIDE DEF m
  <2>3. QED
    BY <2>1, <2>2, ImageFinite
<1>6. IsFiniteSet(Leaders(b))
  <2>1. Leaders(b) \subseteq named
    BY DEF Leaders
  <2>2. QED
    BY <1>5, <2>1, FS_Subset
<1>7. b # <<>> => Leaders(b) # {}
  <2>1. SUFFICES ASSUME b # <<>> PROVE Leaders(b) # {}
    OBVIOUS
  <2>2. 1 \in DOMAIN b
    BY <1>1, <1>4, <2>1
  <2>3. named # {}
    BY <2>2
  <2>4. \A c \in named : f[c] \in Nat /\ f[c] = Total(b, c)
    BY <1>1, TotalIs
  <2>5. Leaders(b) = {c \in named : \A d \in named : Total(b, d) <= Total(b, c)}
    BY DEF Leaders
  <2> HIDE DEF named, f
  <2>6. PICK c \in named : \A d \in named : f[d] <= f[c]
    BY <1>5, <2>3, <2>4, LeaderExists
  <2>7. QED
    BY <2>4, <2>5, <2>6
<1>8. b = <<>> <=> SlipsOn(Shown(s)) = {}
  <2>1. b = <<>> => ToSet(b) = {}
    BY DEF ToSet
  <2>2. b # <<>> => ToSet(b) # {}
    <3>1. SUFFICES ASSUME b # <<>> PROVE ToSet(b) # {}
      OBVIOUS
    <3>2. 1 \in DOMAIN b
      BY <1>1, <1>4, <3>1
    <3>3. QED
      BY <3>2 DEF ToSet
  <2>3. QED
    BY <1>1, <2>1, <2>2
<1>9. QED
  BY <1>3, <1>6, <1>7, <1>8 DEF b

\* The category is one that leads.
LEMMA ClassifyIs ==
  ASSUME NEW b \in Seq(Slips)
  PROVE  /\ b = <<>> => Classify(b) = "unknown"
         /\ b # <<>> /\ Leaders(b) # {} => Classify(b) \in Leaders(b)
<1> DEFINE I == {i \in DOMAIN b : b[i].for \in Leaders(b)}
<1>1. b = <<>> => Classify(b) = "unknown"
  BY DEF Classify
<1>2. ASSUME b # <<>>, Leaders(b) # {}
      PROVE  Classify(b) \in Leaders(b)
  <2>1. Leaders(b) \subseteq {b[i].for : i \in DOMAIN b}
    BY DEF Leaders
  <2>2. I # {}
    BY <1>2, <2>1
  <2>3. I \in SUBSET Nat
    OBVIOUS
  <2>4. Min(I) \in I
    <3> HIDE DEF I
    <3>1. PICK i \in I : \A j \in I : i <= j
      BY <2>2, <2>3, LeastNat
    <3>2. QED
      BY <3>1 DEF Min
  <2>5. Classify(b) = b[Min(I)].for
    BY <1>2 DEF Classify
  <2>6. QED
    BY <2>4, <2>5
<1>3. QED
  BY <1>1, <1>2

LEMMA OneOf ==
  ASSUME NEW L, IsFiniteSet(L), Cardinality(L) <= 1, NEW x \in L, NEW y \in L
  PROVE  x = y
<1>1. Cardinality(L \ {x}) = Cardinality(L) - 1 /\ IsFiniteSet(L \ {x})
  BY FS_RemoveElement
<1>2. Cardinality(L) \in Nat /\ Cardinality(L \ {x}) \in Nat
  BY <1>1, FS_CardinalityType
<1>3. Cardinality(L \ {x}) = 0
  BY <1>1, <1>2
<1>4. L \ {x} = {}
  BY <1>1, <1>3, FS_EmptySet
<1>5. QED
  BY <1>4

\* With one leader the order of what is read does not matter.
LEMMA SameCategory ==
  ASSUME NEW s, NEW t, Scorable(s), Scorable(t), Shown(s) = Shown(t),
         Cardinality(Leaders(Ballot(Translated(s)))) <= 1
  PROVE  Classify(Ballot(Translated(t))) = Classify(Ballot(Translated(s)))
<1> DEFINE a == Ballot(Translated(s))
           b == Ballot(Translated(t))
<1>1. /\ Leaders(a) = LeadersOn(Shown(s)) /\ IsFiniteSet(Leaders(a))
      /\ a # <<>> => Leaders(a) # {}
      /\ a = <<>> <=> SlipsOn(Shown(s)) = {}
  BY LeadersAre
<1>2. /\ Leaders(b) = LeadersOn(Shown(t)) /\ IsFiniteSet(Leaders(b))
      /\ b # <<>> => Leaders(b) # {}
      /\ b = <<>> <=> SlipsOn(Shown(t)) = {}
  BY LeadersAre
<1>3. a \in Seq(Slips) /\ b \in Seq(Slips)
  BY BallotIs
<1>4. Cardinality(Leaders(a)) <= 1
  OBVIOUS
<1> HIDE DEF a, b
<1>5. CASE a = <<>>
  <2>1. b = <<>>
    BY <1>1, <1>2, <1>5
  <2>2. QED
    BY <1>5, <2>1 DEF a, b
<1>6. CASE a # <<>>
  <2>1. b # <<>> /\ Leaders(b) = Leaders(a)
    BY <1>1, <1>2, <1>6
  <2>2. Classify(a) \in Leaders(a) /\ Classify(b) \in Leaders(a)
    BY <1>1, <1>3, <1>6, <2>1, ClassifyIs
  <2>3. Classify(b) = Classify(a)
    BY <1>1, <1>4, <2>2, OneOf
  <2>4. QED
    BY <2>3 DEF a, b
<1>7. QED
  BY <1>5, <1>6

\* A finding has one row, and what was scored last was read from rows like these.
ScoringInv ==
  /\ IsFiniteSet(rows)
  /\ \A r \in rows : r.finding \in Pool
  /\ \A q, r \in rows : q.finding = r.finding => q = r
  /\ verdict = NoVerdict \/ \E s : Scorable(s) /\ verdict = Verdict(s)

LEMMA VerdictIs ==
  \A s : /\ Verdict(s).read = Shown(s) /\ Verdict(s).score = FinalScore(Translated(s))
         /\ Verdict(s).tier = Tier(FinalScore(Translated(s)))
         /\ Verdict(s).category = Classify(Ballot(Translated(s)))
         /\ Verdict(s).clear = (Cardinality(Leaders(Ballot(Translated(s)))) <= 1)
BY DEF Verdict, Shown, Translated

\* What a scoring run reads of a job is finite, and not empty if its job has rows.
LEMMA ReadsAre ==
  ASSUME ScoringInv, rows # {}, NEW t \in Reads
  PROVE  Scorable(t) /\ Shown(t) # {}
<1> DEFINE n == Min({MaxFindings, Cardinality(rows)})
<1>1. Cardinality(rows) \in Nat /\ Cardinality(rows) # 0
  BY FS_CardinalityType, FS_EmptySet DEF ScoringInv
<1>2. MaxFindings \in Nat /\ MaxFindings # 0
  BY ScoringAssumption
<1>3. n \in Nat /\ n # 0
  <2>1. n = IF MaxFindings <= Cardinality(rows) THEN MaxFindings ELSE Cardinality(rows)
    BY <1>1, <1>2, Least
  <2>2. QED
    BY <1>1, <1>2, <2>1
<1>4. /\ t \in [1..n -> rows]
      /\ \A i, j \in DOMAIN t : i < j => t[i] # t[j]
  BY DEF Reads
<1> HIDE DEF n
<1>5. DOMAIN t = 1..n /\ \A i \in DOMAIN t : t[i] \in rows
  BY <1>4
<1>6. \A i, j \in DOMAIN t : t[i].finding = t[j].finding => i = j
  <2>1. SUFFICES ASSUME NEW i \in DOMAIN t, NEW j \in DOMAIN t, t[i].finding = t[j].finding
                 PROVE  i = j
    OBVIOUS
  <2>2. t[i] = t[j]
    BY <1>5, <2>1 DEF ScoringInv
  <2>3. i \in Nat /\ j \in Nat
    BY <1>5
  <2>4. ~(i < j) /\ ~(j < i)
    BY <1>4, <2>2
  <2>5. QED
    BY <2>3, <2>4
<1>7. Shown(t) \subseteq Pool
  BY <1>5 DEF Shown, ScoringInv
<1>8. Scorable(t)
  BY <1>3, <1>5, <1>6, <1>7 DEF Scorable
<1>9. Shown(t) # {}
  <2>1. 1 \in DOMAIN t
    BY <1>3, <1>5
  <2>2. QED
    BY <2>1 DEF Shown
<1>10. QED
  BY <1>8, <1>9

\* Every row stays one of a finite delivery, every verdict one of findings that were read.
LEMMA ScoringStep ==
  ASSUME ScoringInv, [SNext]_svars
  PROVE  ScoringInv'
<1>1. ASSUME NEW e \in Engines, Deliver(e)
      PROVE  ScoringInv'
  <2>1. PICK fs \in SUBSET {f \in Pool : f.engine = e} :
          /\ IsFiniteSet(fs)
          /\ rows' = {r \in rows : r.finding.engine # e}
                       \cup {[finding |-> f, at |-> batch + 1] : f \in fs}
    BY <1>1 DEF Deliver
  <2> DEFINE old == {r \in rows : r.finding.engine # e}
             m == [f \in fs |-> [finding |-> f, at |-> batch + 1]]
             new == {m[f] : f \in fs}
  <2>2. rows' = old \cup new
    BY <2>1
  <2>3. IsFiniteSet(old)
    BY FS_Subset DEF ScoringInv
  <2>4. IsFiniteSet(new)
    <3> HIDE DEF m
    <3>1. QED
      BY <2>1, ImageFinite
  <2>5. IsFiniteSet(rows')
    <3> HIDE DEF old, new
    <3>1. QED
      BY <2>2, <2>3, <2>4, FS_Union
  <2>6. /\ \A r \in new : r.finding \in Pool /\ r.finding.engine = e
        /\ \A q, r \in new : q.finding = r.finding => q = r
    BY <2>1
  <2>7. /\ \A r \in old : r.finding \in Pool /\ r.finding.engine # e
        /\ \A q, r \in old : q.finding = r.finding => q = r
    BY DEF ScoringInv
  <2>8. /\ \A r \in rows' : r.finding \in Pool
        /\ \A q, r \in rows' : q.finding = r.finding => q = r
    <3> HIDE DEF old, new
    <3>1. QED
      BY <2>2, <2>6, <2>7
  <2>9. verdict' = verdict
    BY <1>1 DEF Deliver
  <2>10. QED
    BY <2>5, <2>8, <2>9 DEF ScoringInv
<1>2. CASE ScoreJob
  <2>1. PICK t \in Reads : verdict' = Verdict(t)
    BY <1>2 DEF ScoreJob
  <2>2. rows # {} /\ rows' = rows
    BY <1>2 DEF ScoreJob
  <2>3. Scorable(t)
    BY <2>2, ReadsAre
  <2>4. QED
    BY <2>1, <2>2, <2>3 DEF ScoringInv
<1>3. CASE UNCHANGED svars
  <2>1. rows' = rows /\ verdict' = verdict
    BY <1>3 DEF svars
  <2>2. QED
    BY <2>1 DEF ScoringInv
<1>4. QED
  BY <1>1, <1>2, <1>3 DEF SNext

\* Scoring a job again after evidence was added never lowers its score or its tier, and the
\* same evidence, in whatever order its rows are returned, gets the same score, and the
\* same category if one category leads.
THEOREM RescoringNeverLess == SSpec => MoreNeverLess
<1>1. SInit => ScoringInv
  BY FS_EmptySet DEF SInit, ScoringInv
<1>2. ScoringInv /\ [SNext]_svars => ScoringInv'
  BY ScoringStep
<1>3. ScoringInv /\ [SNext]_svars =>
        [verdict.read \subseteq verdict'.read =>
           /\ verdict'.score >= verdict.score /\ Rank(verdict'.tier) >= Rank(verdict.tier)
           /\ verdict.read = verdict'.read => /\ verdict'.score = verdict.score
                                              /\ verdict.clear => verdict'.category = verdict.category
        ]_svars
  <2>1. SUFFICES ASSUME ScoringInv, SNext, verdict.read \subseteq verdict'.read
                 PROVE  /\ verdict'.score >= verdict.score
                        /\ Rank(verdict'.tier) >= Rank(verdict.tier)
                        /\ verdict.read = verdict'.read =>
                             /\ verdict'.score = verdict.score
                             /\ verdict.clear => verdict'.category = verdict.category
    OBVIOUS
  <2>2. /\ NoVerdict.read = {} /\ NoVerdict.score = 0 /\ NoVerdict.tier = Tier(0)
    BY DEF NoVerdict, Tier
  <2>3. ASSUME NEW t, Scorable(t)
        PROVE  /\ Verdict(t).score \in Nat /\ Verdict(t).tier = Tier(Verdict(t).score)
    <3>1. FinalScore(Translated(t)) \in Nat
      BY <2>3, FinalGrows
    <3>2. QED
      BY <3>1, VerdictIs
  <2>4. verdict.score \in Nat /\ verdict.tier = Tier(verdict.score)
    BY <2>1, <2>2, <2>3 DEF ScoringInv
  <2>5. CASE UNCHANGED verdict
    <3>1. verdict.score >= verdict.score /\ Rank(verdict.tier) >= Rank(verdict.tier)
      <4>1. verdict.score <= verdict.score
        BY <2>4
      <4>2. QED
        BY <2>4, <4>1, TierGrows
    <3>2. QED
      BY <2>5, <3>1
  <2>6. CASE ScoreJob
    <3>1. PICK t \in Reads : verdict' = Verdict(t)
      BY <2>6 DEF ScoreJob
    <3>2. Scorable(t) /\ Shown(t) # {}
      BY <2>1, <2>6, ReadsAre DEF ScoreJob
    <3>3. verdict'.score \in Nat /\ verdict'.tier = Tier(verdict'.score) /\ verdict'.read = Shown(t)
      BY <2>3, <3>1, <3>2, VerdictIs
    <3>4. verdict.score <= verdict'.score /\ (verdict.read = verdict'.read =>
            /\ verdict'.score = verdict.score
            /\ verdict.clear => verdict'.category = verdict.category)
      <4>1. CASE verdict = NoVerdict
        BY <2>2, <3>2, <3>3, <4>1
      <4>2. CASE \E s : Scorable(s) /\ verdict = Verdict(s)
        <5>1. PICK s : Scorable(s) /\ verdict = Verdict(s)
          BY <4>2
        <5>2. Shown(s) \subseteq Shown(t)
          BY <2>1, <3>1, <5>1, VerdictIs
        <5>3. FinalScore(Translated(s)) <= FinalScore(Translated(t))
          BY <3>2, <5>1, <5>2, FinalGrows
        <5>4. verdict.score <= verdict'.score
          BY <3>1, <5>1, <5>3, VerdictIs
        <5>5. ASSUME verdict.read = verdict'.read
              PROVE  /\ verdict'.score = verdict.score
                     /\ verdict.clear => verdict'.category = verdict.category
          <6>1. Shown(s) = Shown(t)
            BY <3>1, <5>1, <5>5, VerdictIs
          <6>2. FinalScore(Translated(t)) <= FinalScore(Translated(s))
            BY <3>2, <5>1, <6>1, FinalGrows
          <6>3. FinalScore(Translated(t)) \in Nat /\ FinalScore(Translated(s)) \in Nat
            BY <3>2, <5>1, <6>1, FinalGrows
          <6>4. verdict'.score = verdict.score
            BY <3>1, <5>1, <5>3, <6>2, <6>3, VerdictIs
          <6>5. ASSUME verdict.clear PROVE verdict'.category = verdict.category
            <7>1. Cardinality(Leaders(Ballot(Translated(s)))) <= 1
              BY <5>1, <6>5, VerdictIs
            <7>2. Classify(Ballot(Translated(t))) = Classify(Ballot(Translated(s)))
              BY <3>2, <5>1, <6>1, <7>1, SameCategory
            <7>3. QED
              BY <3>1, <5>1, <7>2, VerdictIs
          <6>6. QED
            BY <6>4, <6>5
        <5>6. QED
          BY <5>4, <5>5
      <4>3. QED
        BY <2>1, <4>1, <4>2 DEF ScoringInv
    <3>5. Rank(verdict.tier) <= Rank(verdict'.tier)
          /\ Rank(verdict.tier) \in Nat /\ Rank(verdict'.tier) \in Nat
      BY <2>4, <3>3, <3>4, TierGrows
    <3>6. QED
      BY <2>4, <3>3, <3>4, <3>5
  <2>7. QED
    BY <2>1, <2>5, <2>6 DEF SNext, Deliver
<1>4. QED
  BY <1>1, <1>2, <1>3, PTL DEF SSpec, MoreNeverLess
=============================================================================
