---------------------------- MODULE AnalysisProofs ----------------------------
(***************************************************************************)
(* Proofs about what Analysis computes, for any set of stored events:      *)
(* sessions are separated by more than the gap, the graph invents no flow, *)
(* every event is used or reported, times count each instant once, and all *)
(* results count the same population.                                      *)
(***************************************************************************)
EXTENDS Analysis, Sequences, FiniteSetTheorems, TLAPS

(* Any subsets of a finite set have a least one among them.                *)
Least(B, T) == T \in B /\ \A U \in B : U \subseteq T => U = T

LEMMA LeastSubset ==
  ASSUME NEW S, IsFiniteSet(S), NEW B, B \subseteq SUBSET S, B # {}
  PROVE  \E T : Least(B, T)
<1>1. IsWellFoundedOn(StrictSubsetOrdering(S), SUBSET S)
  BY FS_StrictSubsetOrderingWellFounded, FS_FiniteSubsetsOfFinite
<1>2. PICK T \in B : \A U \in B : <<U, T>> \notin StrictSubsetOrdering(S)
  BY <1>1, WFMin
<1>3. ASSUME NEW U \in B, U \subseteq T
      PROVE  U = T
  BY <1>2, <1>3 DEF StrictSubsetOrdering
<1>4. QED BY <1>3 DEF Least

LEMMA FiniteMax ==
  ASSUME NEW S, IsFiniteSet(S), S \subseteq Int, S # {}
  PROVE  Max(S) \in S /\ \A x \in S : Max(S) >= x
<1> DEFINE Greatest(T, m) == m \in T /\ \A x \in T : m >= x
           B == {T \in SUBSET S : T # {} /\ ~\E m \in T : Greatest(T, m)}
<1>1. B \subseteq SUBSET S
  OBVIOUS
<1>2. B = {}
  <2> SUFFICES ASSUME B # {}
               PROVE  FALSE
    OBVIOUS
  <2> HIDE DEF B
  <2>1. PICK T : Least(B, T)
    BY <1>1, LeastSubset
  <2> USE DEF B, Least
  <2>2. PICK x \in T : TRUE
    BY <2>1
  <2>3. CASE T = {x}
    BY <2>1, <2>3
  <2>4. CASE T # {x}
    <3>1. T \ {x} \in SUBSET S /\ T \ {x} # {} /\ T \ {x} # T
      BY <2>1, <2>2, <2>4
    <3>2. PICK m \in T \ {x} : Greatest(T \ {x}, m)
      BY <2>1, <3>1
    <3>3. m \in Int /\ x \in Int
      BY <2>1, <2>2, <3>2
    <3>4. Greatest(T, m) \/ Greatest(T, x)
      <4>1. \A y \in T : y \in Int
        BY <2>1
      <4>2. CASE m >= x
        BY <3>2, <4>2
      <4>3. CASE x > m
        BY <2>2, <3>2, <3>3, <4>1, <4>3
      <4>4. QED BY <3>3, <4>2, <4>3
    <3>5. QED BY <2>1, <2>2, <3>2, <3>4
  <2>5. QED BY <2>3, <2>4
<1>3. \E m \in S : \A x \in S : m >= x
  BY <1>2
<1>4. QED BY <1>3 DEF Max

LEMMA FiniteMin ==
  ASSUME NEW S, IsFiniteSet(S), S \subseteq Int, S # {}
  PROVE  Min(S) \in S /\ \A x \in S : Min(S) =< x
<1> DEFINE f == [x \in S |-> -x]
           N == {-x : x \in S}
<1>1. f \in Surjection(S, N)
  BY DEF Surjection
<1> HIDE DEF f
<1>2. IsFiniteSet(N)
  BY <1>1, FS_Surjection
<1>3. N \subseteq Int /\ N # {}
  OBVIOUS
<1>4. Max(N) \in N /\ \A x \in N : Max(N) >= x
  <2> HIDE DEF N
  <2>1. QED BY <1>2, <1>3, FiniteMax
<1>5. PICK m \in S : Max(N) = -m
  BY <1>4
<1>6. \A x \in S : m =< x
  BY <1>4, <1>5
<1>7. QED BY <1>6 DEF Min
-----------------------------------------------------------------------------
(* Sums.  SumFunction adds the values of a function in an order of its     *)
(* own: that it is defined, and that the order does not matter.            *)

Some(s) == CHOOSE x \in s : TRUE

(* The recursion behind SumFunction, over the subsets of S.                *)
Adds(g, S, m) ==
    g = [s \in SUBSET S |-> IF s = {} THEN 0 ELSE m[Some(s)] + g[s \ {Some(s)}]]

LEMMA SumIs ==
  ASSUME NEW f
  PROVE  SumFunction(f) = (CHOOSE g : Adds(g, DOMAIN f, f))[DOMAIN f]
BY DEF SumFunction, SumFunctionOnSet, FoldFunctionOnSet, MapThenFoldSet, Adds, Some

LEMMA SomeIn ==
  ASSUME NEW s, s # {}
  PROVE  Some(s) \in s
BY DEF Some

LEMMA AddsAt ==
  ASSUME NEW g, NEW S, NEW m, Adds(g, S, m), NEW s \in SUBSET S
  PROVE  g[s] = IF s = {} THEN 0 ELSE m[Some(s)] + g[s \ {Some(s)}]
BY DEF Adds

(* Two such functions agree where both are defined.                        *)
LEMMA AddsAgree ==
  ASSUME NEW g, NEW S, NEW m, Adds(g, S, m),
         NEW h, NEW T, NEW n, Adds(h, T, n),
         NEW R, IsFiniteSet(R), R \subseteq S, R \subseteq T,
         \A x \in R : m[x] = n[x]
  PROVE  g[R] = h[R]
<1> DEFINE B == {s \in SUBSET R : g[s] # h[s]}
<1> SUFFICES ASSUME B # {}
             PROVE  FALSE
  OBVIOUS
<1>1. B \subseteq SUBSET R
  OBVIOUS
<1> HIDE DEF B
<1>2. PICK s : Least(B, s)
  BY <1>1, LeastSubset
<1>3. s \in SUBSET R /\ g[s] # h[s]
      /\ \A t \in SUBSET R : t \subseteq s /\ t # s => g[t] = h[t]
  BY <1>2 DEF Least, B
<1>4. /\ g[s] = IF s = {} THEN 0 ELSE m[Some(s)] + g[s \ {Some(s)}]
      /\ h[s] = IF s = {} THEN 0 ELSE n[Some(s)] + h[s \ {Some(s)}]
  <2>1. s \in SUBSET S /\ s \in SUBSET T
    BY <1>3
  <2>2. QED BY <2>1, AddsAt
<1>5. s # {}
  BY <1>3, <1>4
<1>6. Some(s) \in s
  BY <1>5, SomeIn
<1>7. g[s \ {Some(s)}] = h[s \ {Some(s)}] /\ m[Some(s)] = n[Some(s)]
  BY <1>3, <1>6
<1>8. QED BY <1>3, <1>4, <1>7

LEMMA AddsExists ==
  ASSUME NEW S, IsFiniteSet(S), NEW m
  PROVE  \E g : Adds(g, S, m)
<1> DEFINE B == {T \in SUBSET S : ~\E g : Adds(g, T, m)}
<1> SUFFICES ASSUME B # {}
             PROVE  FALSE
  OBVIOUS
<1>1. B \subseteq SUBSET S
  OBVIOUS
<1> HIDE DEF B
<1>2. PICK T : Least(B, T)
  BY <1>1, LeastSubset
<1> DEFINE Best(u) == CHOOSE h : Adds(h, u, m)
           g == [s \in SUBSET T |-> IF s = {} THEN 0
                    ELSE m[Some(s)] + Best(s \ {Some(s)})[s \ {Some(s)}]]
<1>3. /\ T \in SUBSET S
      /\ ~\E h : Adds(h, T, m)
      /\ \A u \in SUBSET T : u # T => \E h : Adds(h, u, m)
  BY <1>2 DEF Least, B
<1>4. ASSUME NEW u \in SUBSET T, u # T
      PROVE  Adds(Best(u), u, m)
  <2>1. \E h : Adds(h, u, m)
    BY <1>3, <1>4
  <2>2. QED BY <2>1, Zenon
<1>5. ASSUME NEW u \in SUBSET T
      PROVE  g[u] = IF u = {} THEN 0
                    ELSE m[Some(u)] + Best(u \ {Some(u)})[u \ {Some(u)}]
  OBVIOUS
<1>6. \A s : s \in SUBSET T /\ s # {} => Some(s) \in s
  BY SomeIn
<1> HIDE DEF Best
<1>7. ASSUME NEW u \in SUBSET T, u # T
      PROVE  g[u] = Best(u)[u]
  <2>1. Best(u)[u] = IF u = {} THEN 0 ELSE m[Some(u)] + Best(u)[u \ {Some(u)}]
    BY <1>4, <1>7, AddsAt
  <2>2. ASSUME u # {}
        PROVE  Best(u)[u \ {Some(u)}] = Best(u \ {Some(u)})[u \ {Some(u)}]
    <3> DEFINE w == u \ {Some(u)}
    <3>1. Some(u) \in u /\ w \in SUBSET T /\ w # T /\ w \subseteq u
      BY <1>6, <1>7, <2>2
    <3>2. Adds(Best(u), u, m) /\ Adds(Best(w), w, m)
      BY <1>4, <1>7, <3>1
    <3>3. IsFiniteSet(w)
      <4>1. w \in SUBSET S
        BY <1>3, <3>1
      <4>2. QED BY <4>1, FS_Subset
    <3> HIDE DEF w
    <3>4. Best(u)[w] = Best(w)[w]
      BY <3>1, <3>2, <3>3, AddsAgree
    <3>5. QED BY <3>4 DEF w
  <2>3. QED BY <1>5, <2>1, <2>2
<1>8. Adds(g, T, m)
  <2>1. ASSUME NEW s \in SUBSET T, s # {}
        PROVE  Best(s \ {Some(s)})[s \ {Some(s)}] = g[s \ {Some(s)}]
    <3>1. s \ {Some(s)} \in SUBSET T /\ s \ {Some(s)} # T
      BY <1>6, <2>1
    <3>2. QED BY <1>7, <3>1
  <2>2. g = [s \in SUBSET T |-> IF s = {} THEN 0 ELSE m[Some(s)] + g[s \ {Some(s)}]]
    <3> DEFINE k == [s \in SUBSET T |-> IF s = {} THEN 0 ELSE m[Some(s)] + g[s \ {Some(s)}]]
    <3>1. \A s \in SUBSET T : k[s] = g[s]
      BY <1>5, <2>1
    <3>2. DOMAIN g = SUBSET T /\ DOMAIN k = SUBSET T
      OBVIOUS
    <3>3. g = [s \in SUBSET T |-> g[s]] /\ k = [s \in SUBSET T |-> k[s]]
      OBVIOUS
    <3> HIDE DEF g, k
    <3>4. g = k
      BY <3>1, <3>3
    <3>5. QED BY <3>4 DEF k
  <2> HIDE DEF g
  <2>3. QED BY <2>2 DEF Adds
<1> HIDE DEF g
<1>9. QED BY <1>3, <1>8

(* The sum of the measures m over S.                                       *)
Sum(S, m) == SumFunction([x \in S |-> m[x]])

(* Finitely many, and their measures are whole.                            *)
Weighed(S, m) == IsFiniteSet(S) /\ \A x \in S : m[x] \in Int

LEMMA WeighedPart ==
  ASSUME NEW S, NEW m, Weighed(S, m), NEW T \in SUBSET S
  PROVE  Weighed(T, m)
<1>1. IsFiniteSet(T)
  BY FS_Subset DEF Weighed
<1>2. QED BY <1>1 DEF Weighed

LEMMA SumSame ==
  ASSUME NEW S, NEW m, NEW n, \A x \in S : m[x] = n[x]
  PROVE  Sum(S, m) = Sum(S, n)
<1>1. [x \in S |-> m[x]] = [x \in S |-> n[x]]
  OBVIOUS
<1>2. QED BY <1>1 DEF Sum

LEMMA SumFirst ==
  ASSUME NEW S, IsFiniteSet(S), NEW m
  PROVE  /\ S = {} => Sum(S, m) = 0
         /\ S # {} => Sum(S, m) = m[Some(S)] + Sum(S \ {Some(S)}, m)
<1> DEFINE f(T) == [x \in T |-> m[x]]
           g(T) == CHOOSE h : Adds(h, T, f(T))
<1>1. ASSUME NEW T, IsFiniteSet(T)
      PROVE  Adds(g(T), T, f(T)) /\ Sum(T, m) = g(T)[T]
  <2> HIDE DEF f
  <2>1. \E h : Adds(h, T, f(T))
    BY <1>1, AddsExists
  <2>2. Adds(g(T), T, f(T))
    BY <2>1, Zenon
  <2>3. DOMAIN f(T) = T
    BY DEF f
  <2>4. SumFunction(f(T)) = g(T)[T]
    BY <2>3, SumIs
  <2>5. Sum(T, m) = SumFunction(f(T))
    BY DEF f, Sum
  <2>6. QED BY <2>2, <2>4, <2>5
<1>2. \A T : \A x \in T : f(T)[x] = m[x]
  OBVIOUS
<1> HIDE DEF f, g
<1>3. S = {} => Sum(S, m) = 0
  <2>1. S \in SUBSET S /\ Adds(g(S), S, f(S)) /\ Sum(S, m) = g(S)[S]
    BY <1>1
  <2>2. QED BY <2>1, AddsAt
<1>4. ASSUME S # {}
      PROVE  Sum(S, m) = m[Some(S)] + Sum(S \ {Some(S)}, m)
  <2> DEFINE R == S \ {Some(S)}
  <2>1. Some(S) \in S
    BY <1>4, SomeIn
  <2>2. R \in SUBSET S /\ IsFiniteSet(R)
    BY FS_Subset
  <2>3. S \in SUBSET S /\ Adds(g(S), S, f(S)) /\ Sum(S, m) = g(S)[S]
    BY <1>1
  <2>4. g(S)[S] = f(S)[Some(S)] + g(S)[R]
    BY <1>4, <2>3, AddsAt
  <2> HIDE DEF R
  <2>5. Adds(g(R), R, f(R)) /\ Sum(R, m) = g(R)[R]
    BY <1>1, <2>2
  <2>6. g(R)[R] = g(S)[R]
    <3>1. \A x \in R : f(R)[x] = f(S)[x]
      BY <1>2, <2>2
    <3>2. QED BY <2>2, <2>3, <2>5, <3>1, AddsAgree
  <2>7. f(S)[Some(S)] = m[Some(S)]
    BY <1>2, <2>1
  <2>8. QED BY <2>3, <2>4, <2>5, <2>6, <2>7 DEF R
<1>5. QED BY <1>3, <1>4

LEMMA SumWhole ==
  ASSUME NEW S, NEW m, Weighed(S, m)
  PROVE  Sum(S, m) \in Int
<1> DEFINE B == {T \in SUBSET S : Sum(T, m) \notin Int}
<1> SUFFICES ASSUME B # {}
             PROVE  FALSE
  OBVIOUS
<1>1. B \subseteq SUBSET S
  OBVIOUS
<1> HIDE DEF B
<1>2. PICK T : Least(B, T)
  BY <1>1, LeastSubset DEF Weighed
<1>3. /\ T \in SUBSET S /\ Sum(T, m) \notin Int
      /\ \A U \in SUBSET T : U # T => Sum(U, m) \in Int
  BY <1>2 DEF Least, B
<1>4. Weighed(T, m)
  BY <1>3, WeighedPart
<1>5. CASE T = {}
  BY <1>3, <1>4, <1>5, SumFirst DEF Weighed
<1>6. CASE T # {}
  <2>1. Some(T) \in T
    BY <1>6, SomeIn
  <2>2. T \ {Some(T)} \in SUBSET T /\ T \ {Some(T)} # T
    BY <2>1
  <2>3. Sum(T \ {Some(T)}, m) \in Int /\ m[Some(T)] \in Int
    BY <1>3, <1>4, <2>1, <2>2 DEF Weighed
  <2>4. Sum(T, m) = m[Some(T)] + Sum(T \ {Some(T)}, m)
    BY <1>4, <1>6, SumFirst DEF Weighed
  <2>5. QED BY <1>3, <2>3, <2>4
<1>7. QED BY <1>5, <1>6

(* The order does not matter: any member may be added last.                *)
LEMMA SumWithout ==
  ASSUME NEW S, NEW m, Weighed(S, m), NEW x \in S
  PROVE  Sum(S, m) = m[x] + Sum(S \ {x}, m)
<1> DEFINE Fits(T) == \A y \in T : Sum(T, m) = m[y] + Sum(T \ {y}, m)
           B == {T \in SUBSET S : ~Fits(T)}
<1> SUFFICES ASSUME B # {}
             PROVE  FALSE
  OBVIOUS
<1>1. B \subseteq SUBSET S
  OBVIOUS
<1> HIDE DEF B
<1>2. PICK T : Least(B, T)
  BY <1>1, LeastSubset DEF Weighed
<1>3. /\ T \in SUBSET S /\ ~Fits(T)
      /\ \A U \in SUBSET T : U # T => Fits(U)
  BY <1>2 DEF Least, B
<1>4. PICK y \in T : Sum(T, m) # m[y] + Sum(T \ {y}, m)
  BY <1>3
<1> DEFINE z == Some(T)
<1>5. z \in T
  BY <1>4, SomeIn
<1>6. Weighed(T, m)
  BY <1>3, WeighedPart
<1>7. Sum(T, m) = m[z] + Sum(T \ {z}, m)
  BY <1>4, <1>6, SumFirst DEF Weighed
<1> HIDE DEF z
<1>8. z # y
  BY <1>4, <1>7
<1>9. Fits(T \ {y}) /\ Fits(T \ {z})
  <2>1. /\ T \ {y} \in SUBSET T /\ T \ {y} # T
        /\ T \ {z} \in SUBSET T /\ T \ {z} # T
    BY <1>4, <1>5
  <2> HIDE DEF Fits
  <2>2. QED BY <1>3, <2>1
<1>10. /\ Sum(T \ {y}, m) = m[z] + Sum((T \ {y}) \ {z}, m)
       /\ Sum(T \ {z}, m) = m[y] + Sum((T \ {z}) \ {y}, m)
  BY <1>4, <1>5, <1>8, <1>9
<1>11. (T \ {y}) \ {z} = (T \ {z}) \ {y} /\ (T \ {y}) \ {z} \in SUBSET T
  OBVIOUS
<1>12. m[y] \in Int /\ m[z] \in Int /\ Sum((T \ {y}) \ {z}, m) \in Int
  BY <1>4, <1>5, <1>6, <1>11, WeighedPart, SumWhole DEF Weighed
<1>13. \E r \in Int : Sum(T \ {y}, m) = m[z] + r /\ Sum(T \ {z}, m) = m[y] + r
  BY <1>10, <1>11, <1>12
<1>14. PICK r \in Int : Sum(T \ {y}, m) = m[z] + r /\ Sum(T \ {z}, m) = m[y] + r
  BY <1>13
<1>15. Sum(T, m) = m[y] + Sum(T \ {y}, m)
  BY <1>7, <1>12, <1>14
<1>16. QED BY <1>4, <1>15

LEMMA SumNone ==
  ASSUME NEW m
  PROVE  Sum({}, m) = 0
BY SumFirst, FS_EmptySet

LEMMA SumInsert ==
  ASSUME NEW S, NEW m, Weighed(S, m), NEW x, x \notin S, m[x] \in Int
  PROVE  Weighed(S \cup {x}, m) /\ Sum(S \cup {x}, m) = m[x] + Sum(S, m)
<1>1. IsFiniteSet(S \cup {x})
  BY FS_AddElement DEF Weighed
<1>2. Weighed(S \cup {x}, m)
  BY <1>1 DEF Weighed
<1>3. (S \cup {x}) \ {x} = S
  OBVIOUS
<1> DEFINE T == S \cup {x}
<1>4. x \in T
  OBVIOUS
<1> HIDE DEF T
<1>5. Sum(T, m) = m[x] + Sum(T \ {x}, m)
  BY <1>2, <1>4, SumWithout DEF T
<1>6. QED BY <1>2, <1>3, <1>5 DEF T

(* Induction over a finite set, one member at a time.                      *)
LEMMA Growing ==
  ASSUME NEW S, IsFiniteSet(S), NEW G, {} \in G,
         \A T \in SUBSET S : \A x \in S \ T : T \in G => T \cup {x} \in G
  PROVE  S \in G
<1> DEFINE B == {T \in SUBSET S : T \notin G}
<1> SUFFICES ASSUME B # {}
             PROVE  FALSE
  OBVIOUS
<1>1. B \subseteq SUBSET S
  OBVIOUS
<1> HIDE DEF B
<1>2. PICK T : Least(B, T)
  BY <1>1, LeastSubset
<1>3. /\ T \in SUBSET S /\ T \notin G
      /\ \A U \in SUBSET T : U # T => U \in G
  BY <1>2 DEF Least, B
<1>4. PICK x \in T : TRUE
  BY <1>3
<1>5. T \ {x} \in SUBSET T /\ T \ {x} # T /\ T \ {x} \in SUBSET S /\ x \in S \ (T \ {x})
      /\ (T \ {x}) \cup {x} = T
  BY <1>3, <1>4
<1>6. QED BY <1>3, <1>5

LEMMA SumUnion ==
  ASSUME NEW A, NEW B, NEW m, Weighed(A, m), Weighed(B, m), A \cap B = {}
  PROVE  Sum(A \cup B, m) = Sum(A, m) + Sum(B, m) /\ Weighed(A \cup B, m)
<1> DEFINE G == {T \in SUBSET B : /\ Weighed(A \cup T, m)
                                  /\ Sum(A \cup T, m) = Sum(A, m) + Sum(T, m)}
<1>1. {} \in G
  <2>1. A \cup {} = A /\ Sum(A, m) \in Int /\ Sum({}, m) = 0
    BY SumNone, SumWhole
  <2>2. QED BY <2>1
<1>2. ASSUME NEW T \in SUBSET B, NEW x \in B \ T, T \in G
      PROVE  T \cup {x} \in G
  <2>1. x \notin A /\ x \notin T /\ m[x] \in Int
    BY <1>2 DEF Weighed
  <2>2. Weighed(T, m) /\ Weighed(A \cup T, m)
        /\ Sum(A \cup T, m) = Sum(A, m) + Sum(T, m)
    BY <1>2, WeighedPart
  <2>3. Sum(T \cup {x}, m) = m[x] + Sum(T, m)
    BY <2>1, <2>2, SumInsert
  <2>4. Weighed((A \cup T) \cup {x}, m) /\ Sum((A \cup T) \cup {x}, m) = m[x] + Sum(A \cup T, m)
    BY <2>1, <2>2, SumInsert
  <2>5. Sum(A, m) \in Int /\ Sum(T, m) \in Int
    BY <2>2, SumWhole
  <2>6. (A \cup T) \cup {x} = A \cup (T \cup {x}) /\ T \cup {x} \in SUBSET B
    OBVIOUS
  <2>7. Sum(A, m) + (m[x] + Sum(T, m)) = m[x] + (Sum(A, m) + Sum(T, m))
    BY <2>1, <2>5
  <2>8. QED BY <2>2, <2>3, <2>4, <2>6, <2>7
<1> HIDE DEF G
<1>3. B \in G
  BY <1>1, <1>2, Growing DEF Weighed
<1>4. QED BY <1>3 DEF G

(* What belongs to a key.                                                  *)
Keyed(S, h, t) == {x \in S : h[x] = t}

(* A sum may be taken key by key.                                          *)
LEMMA SumByKey ==
  ASSUME NEW S, NEW m, Weighed(S, m), NEW K, IsFiniteSet(K),
         NEW h, \A x \in S : h[x] \in K
  PROVE  /\ Weighed(K, [t \in K |-> Sum(Keyed(S, h, t), m)])
         /\ Sum(S, m) = Sum(K, [t \in K |-> Sum(Keyed(S, h, t), m)])
<1> DEFINE p == [t \in K |-> Sum(Keyed(S, h, t), m)]
           Over(U) == {x \in S : h[x] \in U}
           G == {U \in SUBSET K : Sum(Over(U), m) = Sum(U, p)}
<1>1. \A t : Keyed(S, h, t) \in SUBSET S
  BY DEF Keyed
<1>2. \A t \in K : p[t] = Sum(Keyed(S, h, t), m) /\ p[t] \in Int
  BY <1>1, WeighedPart, SumWhole
<1>3. {} \in G
  <2>1. Over({}) = {}
    OBVIOUS
  <2>2. Sum({}, m) = 0 /\ Sum({}, p) = 0
    BY SumNone
  <2>3. QED BY <2>1, <2>2
<1> HIDE DEF p
<1>4. Weighed(K, p)
  BY <1>2 DEF Weighed
<1>5. ASSUME NEW U \in SUBSET K, NEW t \in K \ U, U \in G
      PROVE  U \cup {t} \in G
  <2>1. Over(U \cup {t}) = Over(U) \cup Keyed(S, h, t) /\ Over(U) \cap Keyed(S, h, t) = {}
    BY DEF Keyed
  <2>2. Over(U) \in SUBSET S
    OBVIOUS
  <2>3. Sum(Over(U), m) = Sum(U, p)
    BY <1>5
  <2> HIDE DEF Over
  <2>4. Weighed(Over(U), m) /\ Weighed(Keyed(S, h, t), m)
    BY <1>1, <2>2, WeighedPart
  <2>5. Sum(Over(U \cup {t}), m) = Sum(Over(U), m) + Sum(Keyed(S, h, t), m)
    BY <2>1, <2>4, SumUnion
  <2>6. Weighed(U, p) /\ p[t] \in Int /\ t \notin U
    BY <1>2, <1>4, WeighedPart
  <2>7. Sum(U \cup {t}, p) = p[t] + Sum(U, p)
    BY <2>6, SumInsert
  <2>8. Sum(U, p) \in Int
    BY <2>6, SumWhole
  <2>9. Sum(Over(U \cup {t}), m) = Sum(U \cup {t}, p)
    BY <1>2, <2>3, <2>5, <2>6, <2>7, <2>8
  <2>10. QED BY <2>9
<1>6. K \in G
  <2> HIDE DEF G
  <2>1. QED BY <1>3, <1>5, Growing
<1>7. Over(K) = S
  OBVIOUS
<1>8. QED BY <1>4, <1>6, <1>7 DEF p

(* Equal measures.                                                         *)
LEMMA SumEqual ==
  ASSUME NEW S, NEW m, IsFiniteSet(S), NEW c \in Int, \A x \in S : m[x] = c
  PROVE  Sum(S, m) = Cardinality(S) * c
<1> DEFINE G == {T \in SUBSET S : Sum(T, m) = Cardinality(T) * c}
<1>1. {} \in G
  BY SumNone, FS_EmptySet
<1>2. Weighed(S, m)
  BY DEF Weighed
<1>3. ASSUME NEW T \in SUBSET S, NEW x \in S \ T, T \in G
      PROVE  T \cup {x} \in G
  <2>1. Weighed(T, m) /\ m[x] = c /\ x \notin T /\ m[x] \in Int /\ IsFiniteSet(T)
    BY <1>2, WeighedPart DEF Weighed
  <2>2. Sum(T \cup {x}, m) = m[x] + Sum(T, m)
    BY <2>1, SumInsert
  <2>3. Cardinality(T \cup {x}) = Cardinality(T) + 1 /\ Cardinality(T) \in Nat
    BY <2>1, FS_AddElement, FS_CardinalityType
  <2>4. \A k \in Nat : (k + 1) * c = c + k * c
    OBVIOUS
  <2>5. Cardinality(T \cup {x}) * c = c + Cardinality(T) * c
    BY <2>3, <2>4
  <2>6. QED BY <1>3, <2>1, <2>2, <2>5
<1> HIDE DEF G
<1>4. S \in G
  BY <1>1, <1>3, Growing
<1>5. QED BY <1>4 DEF G

(* An element in the place of two that weigh as much.                      *)
Exchange(U, m, V, l, r) ==
    m \in U /\ l \in V /\ r \in V /\ l # r /\ U \ {m} = V \ {l, r}

LEMMA SumExchange ==
  ASSUME NEW U, NEW V, NEW n, Weighed(U, n), Weighed(V, n),
         NEW m, NEW l, NEW r, Exchange(U, m, V, l, r), n[m] = n[l] + n[r]
  PROVE  Sum(U, n) = Sum(V, n)
<1>0. m \in U /\ l \in V /\ r \in V /\ l # r /\ U \ {m} = V \ {l, r}
  BY DEF Exchange
<1>3. Sum(U, n) = n[m] + Sum(U \ {m}, n) /\ Sum(V, n) = n[l] + Sum(V \ {l}, n)
  BY <1>0, SumWithout
<1>4. Sum(V \ {l}, n) = n[r] + Sum((V \ {l}) \ {r}, n)
  <2>1. V \ {l} \in SUBSET V /\ r \in V \ {l}
    BY <1>0
  <2>2. Weighed(V \ {l}, n)
    BY <2>1, WeighedPart
  <2>3. QED BY <2>1, <2>2, SumWithout
<1>5. (V \ {l}) \ {r} = U \ {m}
  BY <1>0
<1>6. n[l] \in Int /\ n[r] \in Int /\ Sum(U \ {m}, n) \in Int
  <2>1. U \ {m} \in SUBSET U
    OBVIOUS
  <2>2. Weighed(U \ {m}, n)
    BY <2>1, WeighedPart
  <2>3. QED BY <1>0, <2>2, SumWhole DEF Weighed
<1>7. Sum(V, n) = n[l] + (n[r] + Sum(U \ {m}, n))
  BY <1>3, <1>4, <1>5
<1>8. Sum(U, n) = (n[l] + n[r]) + Sum(U \ {m}, n)
  BY <1>3
<1> DEFINE x == n[l]
           y == n[r]
           z == Sum(U \ {m}, n)
<1> HIDE DEF x, y, z
<1>9. x \in Int /\ y \in Int /\ z \in Int
  BY <1>6 DEF x, y, z
<1>10. x + (y + z) = (x + y) + z
  BY <1>9
<1>11. QED BY <1>7, <1>8, <1>10 DEF x, y, z

(* Counting: how many there are is how many have each key.                 *)
LEMMA CountByKey ==
  ASSUME NEW S, IsFiniteSet(S), NEW K, IsFiniteSet(K), NEW h, \A x \in S : h[x] \in K
  PROVE  Cardinality(S) = Sum(K, [t \in K |-> Cardinality(Keyed(S, h, t))])
<1> DEFINE one == [x \in S |-> 1]
<1>1. \A x \in S : one[x] = 1
  OBVIOUS
<1> HIDE DEF one
<1>2. Weighed(S, one)
  BY <1>1 DEF Weighed
<1>3. \A T \in SUBSET S : Sum(T, one) = Cardinality(T)
  <2>1. ASSUME NEW T \in SUBSET S
        PROVE  Sum(T, one) = Cardinality(T)
    <3>1. IsFiniteSet(T) /\ (\A x \in T : one[x] = 1) /\ Cardinality(T) \in Nat
      BY <1>1, FS_Subset, FS_CardinalityType
    <3>2. Sum(T, one) = Cardinality(T) * 1
      BY <3>1, SumEqual
    <3>3. QED BY <3>1, <3>2
  <2>2. QED BY <2>1
<1>4. Sum(S, one) = Sum(K, [t \in K |-> Sum(Keyed(S, h, t), one)])
  BY <1>2, SumByKey
<1>5. [t \in K |-> Sum(Keyed(S, h, t), one)] = [t \in K |-> Cardinality(Keyed(S, h, t))]
  <2>1. \A t \in K : Keyed(S, h, t) \in SUBSET S
    BY DEF Keyed
  <2>2. QED BY <1>3, <2>1
<1>6. QED BY <1>3, <1>4, <1>5
-----------------------------------------------------------------------------
(* Sessions.                                                               *)

(* Events with usable intervals.                                           *)
Timed(S) ==
    /\ IsFiniteSet(S)
    /\ \A e \in S : e.start \in Nat /\ e.end \in Nat /\ e.start < e.end

(* Where the session of an event begins.                                   *)
Began(S, gap, f) == Max({t \in Opens(S, gap) : t =< f.start})

LEMMA BeganSound ==
  ASSUME NEW S, Timed(S), NEW gap, NEW f \in S
  PROVE  /\ Began(S, gap, f) \in Opens(S, gap) /\ Began(S, gap, f) \in Nat
         /\ Began(S, gap, f) =< f.start
         /\ \A t \in Opens(S, gap) : t =< f.start => t =< Began(S, gap, f)
<1> DEFINE starts == {e.start : e \in S}
           T == {t \in Opens(S, gap) : t =< f.start}
<1>1. IsFiniteSet(starts) /\ starts \subseteq Nat /\ f.start \in starts
  <2> DEFINE g == [e \in S |-> e.start]
  <2>1. g \in Surjection(S, starts)
    BY DEF Surjection
  <2> HIDE DEF g
  <2>2. IsFiniteSet(starts)
    BY <2>1, FS_Surjection DEF Timed
  <2>3. QED BY <2>2 DEF Timed
<1>2. Opens(S, gap) \subseteq starts
  BY DEF Opens
<1>3. Min(starts) \in T
  <2>1. starts \subseteq Int /\ starts # {}
    BY <1>1
  <2>2. Min(starts) \in starts /\ \A x \in starts : Min(starts) =< x
    <3> HIDE DEF starts
    <3>1. QED BY <1>1, <2>1, FiniteMin
  <2>3. \A g \in S : ~(g.start < Min(starts))
    <3> DEFINE m == Min(starts)
    <3>1. m \in Nat /\ \A g \in S : m =< g.start
      BY <1>1, <2>2
    <3>2. \A g \in S : g.start \in Nat
      BY DEF Timed
    <3> HIDE DEF m
    <3>3. \A g \in S : ~(g.start < m)
      BY <3>1, <3>2
    <3>4. QED BY <3>3 DEF m
  <2>4. Min(starts) \in Opens(S, gap)
    BY <2>2, <2>3 DEF Opens
  <2>5. QED BY <1>1, <2>2, <2>4
<1>4. IsFiniteSet(T) /\ T \subseteq Int /\ T # {}
  <2>1. T \in SUBSET starts
    BY <1>2
  <2> HIDE DEF T, starts
  <2>2. IsFiniteSet(T)
    BY <1>1, <2>1, FS_Subset
  <2>3. QED BY <1>1, <1>3, <2>1, <2>2
<1>5. Max(T) \in T /\ \A x \in T : Max(T) >= x
  <2> HIDE DEF T
  <2>1. QED BY <1>4, FiniteMax
<1>6. \A x \in T : x =< Max(T)
  <2> HIDE DEF T
  <2>1. QED BY <1>4, <1>5
<1>7. QED BY <1>1, <1>2, <1>5, <1>6 DEF Began

LEMMA SessionIs ==
  ASSUME NEW S, NEW gap, NEW e
  PROVE  Session(S, gap, e) = {f \in S : Began(S, gap, f) = Began(S, gap, e)}
BY DEF Session, Began

(* What began in an earlier session ends more than the gap before the      *)
(* later one begins.                                                       *)
LEMMA SessionsApart ==
  ASSUME NEW S, Timed(S), NEW gap \in Nat, NEW e \in S, NEW f \in S,
         Began(S, gap, e) < Began(S, gap, f)
  PROVE  /\ e.start < Began(S, gap, f) /\ Began(S, gap, f) =< f.start
         /\ Began(S, gap, f) - e.end > gap
<1>1. /\ Began(S, gap, f) \in Opens(S, gap) /\ Began(S, gap, f) =< f.start
      /\ Began(S, gap, f) \in Nat /\ Began(S, gap, e) \in Nat
      /\ \A t \in Opens(S, gap) : t =< e.start => t =< Began(S, gap, e)
  BY BeganSound
<1>2. e.start \in Nat
  BY DEF Timed
<1>3. e.start < Began(S, gap, f)
  BY <1>1, <1>2
<1>4. QED BY <1>1, <1>3 DEF Opens
-----------------------------------------------------------------------------
(* Cases of the analysis.                                                  *)

(* Stored events, as far as their intervals go.                            *)
Whole(E) ==
    /\ IsFiniteSet(E)
    /\ \A e \in E : {e.start, e.end, e.dur} \subseteq Nat
    /\ \A e, f \in E : e.id = f.id => e = f

LEMMA EligibleTimed ==
  ASSUME NEW E, Whole(E)
  PROVE  Timed(Eligible(E)) /\ Eligible(E) \subseteq E
<1>1. Eligible(E) \subseteq E
  BY DEF Eligible, Deduplicated
<1>2. IsFiniteSet(Eligible(E))
  BY <1>1, FS_Subset DEF Whole
<1>3. ASSUME NEW e \in Eligible(E)
      PROVE  e.start \in Nat /\ e.end \in Nat /\ e.start < e.end
  <2>1. e.start \in Nat /\ e.end \in Nat
    BY <1>1 DEF Whole
  <2>2. Flaw(e) = ""
    BY DEF Eligible
  <2>3. ~(e.end < e.start) /\ e.end # e.start
    <3>1. CASE ~e.timed
      BY <2>2, <3>1 DEF Flaw
    <3>2. CASE e.timed /\ e.end < e.start
      BY <2>1, <2>2, <3>2 DEF Flaw
    <3>3. CASE e.timed /\ e.end = e.start
      BY <2>1, <2>2, <3>3 DEF Flaw
    <3>4. QED BY <3>1, <3>2, <3>3
  <2>4. QED BY <2>1, <2>3
<1>4. QED BY <1>1, <1>2, <1>3 DEF Timed

(* The base case of an event, as a set.                                    *)
Companions(E, e) == {f \in Eligible(E) : BaseCase(f) = BaseCase(e)}

LEMMA BaseCaseTimed ==
  ASSUME NEW E, Whole(E), NEW e
  PROVE  Timed(Companions(E, e)) /\ Companions(E, e) \subseteq Eligible(E)
<1>1. Companions(E, e) \subseteq Eligible(E)
  BY DEF Companions
<1>2. Timed(Eligible(E))
  BY EligibleTimed
<1>3. IsFiniteSet(Companions(E, e))
  BY <1>1, <1>2, FS_Subset DEF Timed
<1>4. QED BY <1>1, <1>2, <1>3 DEF Timed

LEMMA SessionsAre ==
  ASSUME NEW E, NEW gap
  PROVE  /\ BaseCases(E) = {Companions(E, e) : e \in Eligible(E)}
         /\ \A s \in Sessions(E, gap) : \E e \in Eligible(E) : \E f \in Companions(E, e) :
               s = Session(Companions(E, e), gap, f)
         /\ \A e \in Eligible(E) : Session(Companions(E, e), gap, e) \in Sessions(E, gap)
<1>1. BaseCases(E) = {Companions(E, e) : e \in Eligible(E)}
  BY DEF BaseCases, Companions
<1>2. ASSUME NEW s \in Sessions(E, gap)
      PROVE  \E e \in Eligible(E) : \E f \in Companions(E, e) :
               s = Session(Companions(E, e), gap, f)
  <2>1. PICK S \in BaseCases(E) : s \in SplitSessions(S, gap)
    BY DEF Sessions
  <2>2. PICK e \in Eligible(E) : S = Companions(E, e)
    BY <1>1, <2>1
  <2>3. QED BY <2>1, <2>2 DEF SplitSessions
<1>3. ASSUME NEW e \in Eligible(E)
      PROVE  Session(Companions(E, e), gap, e) \in Sessions(E, gap)
  <2>1. e \in Companions(E, e) /\ Companions(E, e) \in BaseCases(E)
    BY <1>1 DEF Companions
  <2>2. Session(Companions(E, e), gap, e) \in SplitSessions(Companions(E, e), gap)
    BY <2>1 DEF SplitSessions
  <2>3. QED BY <2>1, <2>2 DEF Sessions
<1>4. QED BY <1>1, <1>2, <1>3

(* What a session is, seen from any of its events.                         *)
LEMMA SessionOf ==
  ASSUME NEW E, NEW gap, NEW s \in Sessions(E, gap), NEW e \in s
  PROVE  /\ e \in Eligible(E) /\ e \in Companions(E, e)
         /\ s = Session(Companions(E, e), gap, e)
         /\ s \subseteq Companions(E, e)
<1>1. PICK c \in Eligible(E) : \E f \in Companions(E, c) : s = Session(Companions(E, c), gap, f)
  BY SessionsAre
<1>2. PICK f \in Companions(E, c) : s = Session(Companions(E, c), gap, f)
  BY <1>1
<1>3. s = {g \in Companions(E, c) : Began(Companions(E, c), gap, g)
                                    = Began(Companions(E, c), gap, f)}
  BY <1>2, SessionIs
<1>4. e \in Eligible(E) /\ BaseCase(e) = BaseCase(c)
  BY <1>3 DEF Companions
<1>5. Companions(E, e) = Companions(E, c) /\ e \in Companions(E, e)
  BY <1>4 DEF Companions
<1>6. s = {g \in Companions(E, e) : Began(Companions(E, e), gap, g)
                                    = Began(Companions(E, e), gap, e)}
  BY <1>3, <1>5
<1>7. s = Session(Companions(E, e), gap, e)
  BY <1>6, SessionIs
<1>8. QED BY <1>4, <1>5, <1>6, <1>7

(* Every usable event is in one session.                                   *)
LEMMA OneSession ==
  ASSUME NEW E, NEW gap, NEW s \in Sessions(E, gap), NEW t \in Sessions(E, gap),
         NEW e \in s, e \in t
  PROVE  s = t
BY SessionOf
-----------------------------------------------------------------------------
(* The directly-follows graph.                                             *)

(* Two events of a session without overlap follow each other in time.      *)
LEMMA InOrder ==
  ASSUME NEW s, ~Overlaps(s), NEW e \in s, NEW f \in s, e # f,
         e.start \in Nat, e.end \in Nat, f.start \in Nat, f.end \in Nat
  PROVE  e.end =< f.start \/ f.end =< e.start
BY DEF Overlaps

(* A step of the graph: two events of one case, the first of which ends    *)
(* before the second begins, no more than the gap apart, and nothing of    *)
(* the case in between.                                                    *)
LEMMA RealSteps ==
  ASSUME NEW E, Whole(E), NEW gap \in Nat, NEW p \in Steps(Cases(E, gap))
  PROVE  /\ p[1].case = p[2].case
         /\ "unassigned" \notin {p[1].origin, p[2].origin}
         /\ p[2].start - p[1].end \in 0 .. gap
         /\ \A e \in Eligible(E) \ {p[1], p[2]} :
               BaseCase(e) = BaseCase(p[1]) => e.end =< p[1].start \/ p[2].end =< e.start
<1>1. PICK s \in Cases(E, gap) : p \in Adjacent(s)
  BY DEF Steps
<1>2. s \in Sessions(E, gap) /\ ~Overlaps(s)
  BY <1>1 DEF Cases
<1> DEFINE a == p[1]
           b == p[2]
           S == Companions(E, a)
<1>3. a \in s /\ b \in s /\ Precedes(a, b)
      /\ \A f \in s : ~(Precedes(a, f) /\ Precedes(f, b))
  BY <1>1 DEF Adjacent
<1> HIDE DEF a, b
<1>4. /\ Timed(S) /\ S \subseteq Eligible(E) /\ a \in S /\ b \in S
      /\ s = Session(S, gap, a) /\ s \subseteq S
  BY <1>2, <1>3, SessionOf, BaseCaseTimed
<1> DEFINE L == Began(S, gap, a)
           B(f) == Began(S, gap, f)
<1> HIDE DEF S
<1>5. s = {f \in S : B(f) = L} /\ B(b) = L
  <2>1. s = {f \in S : B(f) = L}
    BY <1>4, SessionIs
  <2>2. QED BY <1>3, <2>1
<1>6. \A f \in S : f.start \in Nat /\ f.end \in Nat /\ f.start < f.end
  BY <1>4 DEF Timed
<1>7. /\ L \in Opens(S, gap) /\ L \in Nat /\ L =< a.start /\ L =< b.start
      /\ \A t \in Opens(S, gap) : (t =< a.start => t =< L) /\ (t =< b.start => t =< L)
  BY <1>4, <1>5, BeganSound
<1>8. \A f \in S : B(f) \in Nat
  BY <1>4, BeganSound
<1>9. a # b /\ a.end =< b.start
  <2>1. a # b /\ a.start =< b.start
    BY <1>3, <1>4, <1>6 DEF Precedes
  <2>2. a.end =< b.start \/ b.end =< a.start
    BY <1>2, <1>3, <1>4, <1>6, <2>1, InOrder
  <2>3. QED BY <1>4, <1>6, <2>1, <2>2
<1>10. \A f \in S : f.start < b.start /\ f # a => f.end =< a.start \/ f.end < L
  <2> SUFFICES ASSUME NEW f \in S, f.start < b.start, f # a
               PROVE  f.end =< a.start \/ f.end < L
    OBVIOUS
  <2>1. CASE f \in s
    <3>1. f.end =< a.start \/ a.end =< f.start
      BY <1>2, <1>3, <1>4, <1>6, <2>1, InOrder
    <3>2. ~(a.end =< f.start)
      BY <1>3, <1>4, <1>6, <2>1 DEF Precedes
    <3>3. QED BY <3>1, <3>2
  <2>2. CASE f \notin s
    <3>1. B(f) # L
      BY <1>5, <2>2
    <3>2. CASE B(f) < L
      <4>1. L - f.end > gap
        BY <1>4, <3>2, SessionsApart
      <4>2. QED BY <1>6, <1>7, <4>1
    <3>3. CASE L < B(f)
      <4>1. b.start < B(f) /\ B(f) =< f.start
        BY <1>4, <1>5, <3>3, SessionsApart
      <4>2. QED BY <1>4, <1>6, <1>8, <4>1
    <3>4. QED BY <1>7, <1>8, <3>1, <3>2, <3>3
  <2>3. QED BY <2>1, <2>2
<1>11. b.start - a.end =< gap
  <2> SUFFICES ASSUME b.start - a.end > gap
               PROVE  FALSE
    BY <1>4, <1>6
  <2>1. \A f \in S : f.start < b.start => b.start - f.end > gap
    <3> SUFFICES ASSUME NEW f \in S, f.start < b.start
                 PROVE  b.start - f.end > gap
      OBVIOUS
    <3>1. f.end =< a.end
      BY <1>4, <1>6, <1>7, <1>10
    <3>2. QED BY <1>4, <1>6, <3>1
  <2>2. b.start \in Opens(S, gap)
    BY <1>4, <2>1 DEF Opens
  <2>3. QED BY <1>4, <1>6, <1>7, <2>2
<1>12. ASSUME NEW e \in Eligible(E) \ {a, b}, BaseCase(e) = BaseCase(a)
       PROVE  e.end =< a.start \/ b.end =< e.start
  <2>1. e \in S
    BY <1>12 DEF S, Companions
  <2>2. CASE e.start < b.start
    BY <1>4, <1>6, <1>7, <1>10, <2>1, <2>2
  <2>3. CASE ~(e.start < b.start)
    <3>1. CASE e \in s
      <4>1. e.end =< b.start \/ b.end =< e.start
        BY <1>2, <1>3, <1>4, <1>6, <1>12, <2>1, <3>1, InOrder
      <4>2. QED BY <1>4, <1>6, <2>1, <2>3, <4>1
    <3>2. CASE e \notin s
      <4>1. L < B(e)
        <5>1. B(e) # L
          BY <1>5, <2>1, <3>2
        <5>2. ~(B(e) < L)
          <6>1. B(e) < L => e.start < L
            BY <1>4, <2>1, SessionsApart
          <6>2. QED BY <1>4, <1>6, <1>7, <2>1, <2>3, <6>1
        <5>3. QED BY <1>7, <1>8, <2>1, <5>1, <5>2
      <4>2. B(e) - b.end > gap /\ B(e) =< e.start
        BY <1>4, <1>5, <2>1, <4>1, SessionsApart
      <4>3. QED BY <1>4, <1>6, <1>8, <2>1, <4>2
    <3>3. QED BY <3>1, <3>2
  <2>4. QED BY <1>4, <1>6, <2>1, <2>2, <2>3
<1>13. a.case = b.case /\ a.origin # "unassigned" /\ b.origin # "unassigned"
  <2>1. BaseCase(b) = BaseCase(a) /\ a \in E /\ b \in E
    <3>1. Eligible(E) \subseteq E
      BY EligibleTimed
    <3>2. QED BY <1>4, <3>1 DEF S, Companions
  <2>2. a.id # b.id
    BY <1>9, <2>1 DEF Whole
  <2>3. a.origin \in {"observed", "manual"} /\ b.origin \in {"observed", "manual"}
    BY <2>1, <2>2 DEF BaseCase
  <2>4. QED BY <2>1, <2>3 DEF BaseCase
<1>14. b.start - a.end \in 0 .. gap
  BY <1>4, <1>6, <1>9, <1>11
<1>15. QED BY <1>12, <1>13, <1>14 DEF a, b
-----------------------------------------------------------------------------
(* Sessions are what the gaps leave together.                              *)

Instants(S) == UNION {g.start .. (g.end - 1) : g \in S}

(* A stretch longer than the gap in which nothing of S happens.            *)
Quiet(S, gap, a, b) ==
    /\ a \in {g.end : g \in S} /\ b \in {g.start : g \in S}
    /\ b - a > gap
    /\ Instants(S) \cap (a .. (b - 1)) = {}

LEMMA InstantOf ==
  ASSUME NEW S, Timed(S), NEW x
  PROVE  x \in Instants(S) <=> \E g \in S : x \in Int /\ g.start =< x /\ x < g.end
<1>1. ASSUME NEW g \in S
      PROVE  x \in g.start .. (g.end - 1) <=> x \in Int /\ g.start =< x /\ x < g.end
  <2>1. g.start \in Nat /\ g.end \in Nat
    BY DEF Timed
  <2>2. QED BY <2>1
<1>2. QED BY <1>1 DEF Instants

(* After a quiet stretch a new session begins.                             *)
LEMMA QuietOpens ==
  ASSUME NEW S, Timed(S), NEW gap \in Nat, NEW a, NEW b, Quiet(S, gap, a, b)
  PROVE  b \in Opens(S, gap)
<1>1. a \in Nat /\ b \in Nat /\ b - a > gap
  BY DEF Quiet, Timed
<1>2. ASSUME NEW g \in S, g.start < b
      PROVE  b - g.end > gap
  <2>1. g.start \in Nat /\ g.end \in Nat /\ g.start < g.end
    BY DEF Timed
  <2>2. g.end =< a
    <3> SUFFICES ASSUME a < g.end
                 PROVE  FALSE
      BY <1>1, <2>1
    <3> DEFINE x == IF a < g.start THEN g.start ELSE a
    <3>1. x \in Int /\ g.start =< x /\ x < g.end /\ a =< x /\ x < b
      BY <1>1, <1>2, <2>1
    <3> HIDE DEF x
    <3>2. x \in Instants(S)
      BY <3>1, InstantOf
    <3>3. x \in a .. (b - 1)
      BY <1>1, <3>1
    <3>4. QED BY <3>2, <3>3 DEF Quiet
  <2>3. QED BY <1>1, <2>1, <2>2
<1>3. QED BY <1>2 DEF Quiet, Opens

(* Before a session begins nothing happens for longer than the gap.        *)
LEMMA OpensQuiet ==
  ASSUME NEW S, Timed(S), NEW gap \in Nat, NEW b \in Opens(S, gap),
         NEW e \in S, e.start < b
  PROVE  \E a : Quiet(S, gap, a, b) /\ e.end =< a
<1> DEFINE before == {g \in S : g.start < b}
           ends == {g.end : g \in before}
           a == Max(ends)
<1>1. IsFiniteSet(ends) /\ ends \subseteq Int /\ ends # {}
  <2> DEFINE f == [g \in before |-> g.end]
  <2>1. f \in Surjection(before, ends)
    BY DEF Surjection
  <2>2. IsFiniteSet(before)
    BY FS_Subset DEF Timed
  <2>3. ends \subseteq Int /\ ends # {}
    BY DEF Timed
  <2> HIDE DEF f, before, ends
  <2>4. IsFiniteSet(ends)
    BY <2>1, <2>2, FS_Surjection
  <2>5. QED BY <2>3, <2>4
<1>2. a \in ends /\ \A x \in ends : a >= x
  <2> HIDE DEF ends
  <2>1. QED BY <1>1, FiniteMax
<1> HIDE DEF a
<1>3. PICK h \in S : a = h.end /\ h.start < b
  BY <1>2
<1>4. /\ b \in Nat /\ a \in Nat /\ b - a > gap /\ b \in {g.start : g \in S}
  <2>1. b - h.end > gap /\ b \in {g.start : g \in S}
    BY <1>3 DEF Opens
  <2>2. QED BY <1>3, <2>1 DEF Timed
<1>5. \A g \in S : g.start < b => g.end =< a
  <2>1. \A g \in S : g.start < b => a >= g.end
    BY <1>2
  <2>2. QED BY <1>4, <2>1 DEF Timed
<1>6. Instants(S) \cap (a .. (b - 1)) = {}
  <2> SUFFICES ASSUME NEW x \in Instants(S), x \in a .. (b - 1)
               PROVE  FALSE
    OBVIOUS
  <2>1. PICK g \in S : x \in Int /\ g.start =< x /\ x < g.end
    BY InstantOf
  <2>2. g.start \in Nat /\ g.end \in Nat
    BY DEF Timed
  <2>3. QED BY <1>4, <1>5, <2>1, <2>2
<1>7. QED BY <1>3, <1>4, <1>5, <1>6 DEF Quiet

LEMMA QuietBetween ==
  ASSUME NEW S, Timed(S), NEW gap \in Nat, NEW e \in S, NEW f \in S,
         Began(S, gap, e) # Began(S, gap, f)
  PROVE  \E a, b : Quiet(S, gap, a, b) /\ ((e.end =< a /\ b =< f.start)
                                           \/ (f.end =< a /\ b =< e.start))
<1>1. Began(S, gap, e) \in Nat /\ Began(S, gap, f) \in Nat
  BY BeganSound
<1>2. ASSUME NEW x \in S, NEW y \in S, Began(S, gap, x) < Began(S, gap, y)
      PROVE  \E a, b : Quiet(S, gap, a, b) /\ x.end =< a /\ b =< y.start
  <2>1. x.start < Began(S, gap, y) /\ Began(S, gap, y) =< y.start
        /\ Began(S, gap, y) \in Opens(S, gap)
    BY <1>2, SessionsApart, BeganSound
  <2>2. \E a : Quiet(S, gap, a, Began(S, gap, y)) /\ x.end =< a
    BY <2>1, OpensQuiet
  <2>3. QED BY <2>1, <2>2
<1>3. CASE Began(S, gap, e) < Began(S, gap, f)
  BY <1>2, <1>3
<1>4. CASE Began(S, gap, f) < Began(S, gap, e)
  BY <1>2, <1>4
<1>5. QED BY <1>1, <1>3, <1>4

LEMMA QuietSeparates ==
  ASSUME NEW S, Timed(S), NEW gap \in Nat, NEW e \in S, NEW f \in S,
         NEW a, NEW b, Quiet(S, gap, a, b), e.end =< a, b =< f.start
  PROVE  Began(S, gap, e) # Began(S, gap, f)
<1>1. b \in Opens(S, gap)
  BY QuietOpens
<1>2. /\ b =< Began(S, gap, f) /\ Began(S, gap, f) \in Nat
      /\ Began(S, gap, e) =< e.start /\ Began(S, gap, e) \in Nat
  BY <1>1, BeganSound
<1>3. e.start \in Nat /\ e.end \in Nat /\ e.start < e.end
  BY DEF Timed
<1>4. a \in Nat /\ b \in Nat /\ a < b
  BY DEF Quiet, Timed
<1>5. QED BY <1>2, <1>3, <1>4

LEMMA SessionsConnected ==
  ASSUME NEW S, Timed(S), NEW gap \in Nat, NEW e \in S, NEW f \in S
  PROVE  f \in Session(S, gap, e) <=>
            ~\E a, b : Quiet(S, gap, a, b) /\ ((e.end =< a /\ b =< f.start)
                                               \/ (f.end =< a /\ b =< e.start))
<1>1. f \in Session(S, gap, e) <=> Began(S, gap, f) = Began(S, gap, e)
  BY SessionIs
<1>2. QED BY <1>1, QuietBetween, QuietSeparates
-----------------------------------------------------------------------------
(* Every event is used or reported.                                        *)

LEMMA UsedOrExcluded ==
  ASSUME NEW E, NEW gap, NEW e \in E
  PROVE  e \in Used(E, gap) <=> ~\E x \in Excluded(E, gap) : x[1] = e
<1>1. e \notin Deduplicated(E) => <<e, Reason(E, e)>> \in Excluded(E, gap)
  BY DEF Excluded
<1>2. e \in Deduplicated(E) \ Eligible(E) => <<e, Flaw(e)>> \in Excluded(E, gap)
  BY DEF Excluded
<1>3. \A s \in Sessions(E, gap) : Overlaps(s) /\ e \in s => <<e, Reason(E, e)>> \in Excluded(E, gap)
  BY DEF Excluded
<1>4. ASSUME e \in Eligible(E)
      PROVE  \E s \in Sessions(E, gap) : e \in s
  <2>1. Session(Companions(E, e), gap, e) \in Sessions(E, gap)
    BY <1>4, SessionsAre
  <2>2. e \in Session(Companions(E, e), gap, e)
    BY <1>4, SessionIs DEF Companions
  <2>3. QED BY <2>1, <2>2
<1>5. \A s \in Sessions(E, gap) : e \in s /\ ~Overlaps(s) => e \in Used(E, gap)
  BY DEF Used, Cases
<1>6. ASSUME e \in Used(E, gap), NEW x \in Excluded(E, gap), x[1] = e
      PROVE  FALSE
  <2>1. PICK s \in Sessions(E, gap) : e \in s /\ ~Overlaps(s)
    BY <1>6 DEF Used, Cases
  <2>2. e \in Eligible(E) /\ e \in Deduplicated(E)
    BY <2>1, SessionOf DEF Eligible
  <2>3. e \in UNION {t \in Sessions(E, gap) : Overlaps(t)}
    BY <1>6, <2>2 DEF Excluded
  <2>4. PICK t \in Sessions(E, gap) : Overlaps(t) /\ e \in t
    BY <2>3
  <2>5. s = t
    BY <2>1, <2>4, OneSession
  <2>6. QED BY <2>1, <2>4, <2>5
<1>7. QED BY <1>1, <1>2, <1>3, <1>4, <1>5, <1>6

(* The quality report: what it says of each event.                         *)
LEMMA ReportedOnce ==
  ASSUME NEW E, NEW gap
  PROVE  /\ \A i \in QualityItems(E, gap) :
               /\ i.event \in E
               /\ (i.reasons = {}) <=> (i.event \in Used(E, gap))
               /\ i.status = IF i.event \in Used(E, gap) THEN QualityStatus(i.event)
                             ELSE "requires_correction"
         /\ \A e \in E \ Used(E, gap) : \E i \in QualityItems(E, gap) : i.event = e
<1> DEFINE out == Excluded(E, gap)
           reasons(e) == {x[2] : x \in {y \in out : y[1] = e}}
           item(e) == [event |-> e, issues |-> QualityIssues(e), reasons |-> reasons(e),
                       status |-> IF reasons(e) # {} THEN "requires_correction"
                                  ELSE QualityStatus(e)]
<1>1. QualityItems(E, gap) =
        {item(e) : e \in {f \in E : QualityIssues(f) # {} \/ reasons(f) # {}}}
  BY DEF QualityItems
<1>2. \A e \in E : reasons(e) = {} <=> e \in Used(E, gap)
  <2>1. ASSUME NEW e \in E
        PROVE  reasons(e) = {} <=> ~\E x \in out : x[1] = e
    OBVIOUS
  <2> HIDE DEF out, reasons
  <2>2. QED BY <2>1, UsedOrExcluded DEF out
<1> HIDE DEF reasons, out
<1>3. \A i \in QualityItems(E, gap) : \E e \in E : i = item(e)
  BY <1>1
<1>4. \A e \in E \ Used(E, gap) : item(e) \in QualityItems(E, gap)
  BY <1>1, <1>2
<1>5. \A e : item(e).event = e /\ item(e).reasons = reasons(e)
             /\ item(e).status = IF reasons(e) # {} THEN "requires_correction"
                                 ELSE QualityStatus(e)
  OBVIOUS
<1> HIDE DEF item
<1>6. ASSUME NEW i \in QualityItems(E, gap)
      PROVE  /\ i.event \in E
             /\ (i.reasons = {}) <=> (i.event \in Used(E, gap))
             /\ i.status = IF i.event \in Used(E, gap) THEN QualityStatus(i.event)
                           ELSE "requires_correction"
  <2>1. PICK e \in E : i = item(e)
    BY <1>3
  <2>2. i.event = e /\ i.reasons = reasons(e)
        /\ i.status = IF reasons(e) # {} THEN "requires_correction" ELSE QualityStatus(e)
    BY <1>5, <2>1
  <2>3. QED BY <1>2, <2>2
<1>7. \A e \in E \ Used(E, gap) : \E i \in QualityItems(E, gap) : i.event = e
  BY <1>4, <1>5
<1>8. QED BY <1>6, <1>7

LEMMA ApprovedCount ==
  ASSUME NEW E, NEW gap
  PROVE  QualitySummary(E, gap).approved =
           Cardinality({e \in E \cap Used(E, gap) : QualityStatus(e) = "approved"})
<1> DEFINE out == {x[1] : x \in Excluded(E, gap)}
<1>1. E \ out = E \cap Used(E, gap)
  BY UsedOrExcluded
<1>2. QualitySummary(E, gap).approved =
        Cardinality({e \in E \ out : QualityStatus(e) = "approved"})
  BY DEF QualitySummary
<1>3. {e \in E \ out : QualityStatus(e) = "approved"}
        = {e \in E \cap Used(E, gap) : QualityStatus(e) = "approved"}
  BY <1>1
<1>4. QED BY <1>2, <1>3
-----------------------------------------------------------------------------
(* Counting what is used and what is reported.                             *)

LEMMA SameCount ==
  ASSUME NEW S, NEW T, IsFiniteSet(T), NEW f \in [S -> T],
         \A x, y \in S : f[x] = f[y] => x = y, \A t \in T : \E x \in S : f[x] = t
  PROVE  IsFiniteSet(S) /\ Cardinality(S) = Cardinality(T)
<1>1. f \in Injection(S, T) /\ f \in Surjection(S, T)
  BY DEF Injection, Surjection, IsInjective
<1>2. QED BY <1>1, FS_Injection

LEMMA TwoParts ==
  ASSUME NEW S, NEW T, IsFiniteSet(S), IsFiniteSet(T), S \cap T = {}
  PROVE  /\ IsFiniteSet(S \cup T)
         /\ Cardinality(S) \in Nat /\ Cardinality(T) \in Nat
         /\ Cardinality(S \cup T) = Cardinality(S) + Cardinality(T)
<1>1. Cardinality(S \cap T) = 0
  BY FS_EmptySet
<1>2. Cardinality(S) \in Nat /\ Cardinality(T) \in Nat
  BY FS_CardinalityType
<1>3. IsFiniteSet(S \cup T)
      /\ Cardinality(S \cup T) = Cardinality(S) + Cardinality(T) - Cardinality(S \cap T)
  BY FS_Union
<1>4. QED BY <1>1, <1>2, <1>3

(* Sets that share no member.                                              *)
Disjoint(F) == \A A, B \in F : A # B => A \cap B = {}

LEMMA CountParts ==
  ASSUME NEW F, Disjoint(F), IsFiniteSet(UNION F)
  PROVE  /\ IsFiniteSet(F)
         /\ SumFunction([A \in F |-> Cardinality(A)]) = Cardinality(UNION F)
<1> DEFINE U == UNION F
           Home(x) == CHOOSE A \in F : x \in A
           h == [x \in U |-> Home(x)]
<1>1. F \subseteq SUBSET U
  OBVIOUS
<1>2. IsFiniteSet(F)
  <2>1. IsFiniteSet(SUBSET U)
    BY FS_SUBSET
  <2>2. QED BY <1>1, <2>1, FS_Subset
<1>3. ASSUME NEW x \in U
      PROVE  h[x] \in F /\ x \in h[x]
  <2>1. \E A \in F : x \in A
    OBVIOUS
  <2>2. Home(x) \in F /\ x \in Home(x)
    BY <2>1
  <2>3. QED BY <2>2
<1> HIDE DEF h, Home
<1>4. ASSUME NEW A \in F
      PROVE  Keyed(U, h, A) = A
  <2>1. \A x \in A : x \in U /\ h[x] = A
    BY <1>3 DEF Disjoint
  <2>2. \A x \in U : h[x] = A => x \in A
    BY <1>3
  <2>3. QED BY <2>1, <2>2 DEF Keyed
<1> HIDE DEF U
<1>5. Cardinality(U) = Sum(F, [A \in F |-> Cardinality(Keyed(U, h, A))])
  BY <1>2, <1>3, CountByKey DEF U
<1>6. [A \in F |-> Cardinality(Keyed(U, h, A))] = [A \in F |-> Cardinality(A)]
  BY <1>4
<1>7. Sum(F, [A \in F |-> Cardinality(A)]) = SumFunction([A \in F |-> Cardinality(A)])
  <2> DEFINE c == [A \in F |-> Cardinality(A)]
  <2>1. c = [A \in F |-> c[A]]
    OBVIOUS
  <2> HIDE DEF c
  <2>2. Sum(F, c) = SumFunction(c)
    BY <2>1 DEF Sum
  <2>3. QED BY <2>2 DEF c
<1>8. QED BY <1>2, <1>5, <1>6, <1>7 DEF U

LEMMA CasesApart ==
  ASSUME NEW E, Whole(E), NEW gap
  PROVE  /\ Disjoint(Cases(E, gap)) /\ Cases(E, gap) \subseteq Sessions(E, gap)
         /\ Used(E, gap) \subseteq Eligible(E) /\ Used(E, gap) \subseteq E
         /\ IsFiniteSet(Used(E, gap)) /\ IsFiniteSet(Cases(E, gap))
<1>1. Cases(E, gap) \subseteq Sessions(E, gap)
  BY DEF Cases
<1>2. Disjoint(Cases(E, gap))
  <2>1. ASSUME NEW s \in Cases(E, gap), NEW t \in Cases(E, gap), s # t
        PROVE  s \cap t = {}
    BY <1>1, <2>1, OneSession
  <2>2. QED BY <2>1 DEF Disjoint
<1>3. Used(E, gap) \subseteq Eligible(E)
  <2>1. \A s \in Sessions(E, gap) : s \subseteq Eligible(E)
    BY SessionOf
  <2>2. QED BY <1>1, <2>1 DEF Used
<1>4. Eligible(E) \subseteq E
  BY EligibleTimed
<1>5. IsFiniteSet(Used(E, gap))
  BY <1>3, <1>4, FS_Subset DEF Whole
<1>6. IsFiniteSet(Cases(E, gap))
  BY <1>2, <1>5, CountParts DEF Used
<1>7. QED BY <1>1, <1>2, <1>3, <1>4, <1>5, <1>6

(* One reason for each event left out.                                     *)
LEMMA OneReason ==
  ASSUME NEW E, NEW gap, NEW x \in Excluded(E, gap), NEW y \in Excluded(E, gap), x[1] = y[1]
  PROVE  x = y /\ x[1] \in E
<1> DEFINE late == UNION {s \in Sessions(E, gap) : Overlaps(s)}
<1>1. late \subseteq Eligible(E)
  BY SessionOf
<1>2. Eligible(E) \subseteq Deduplicated(E) /\ Deduplicated(E) \subseteq E
  BY DEF Eligible, Deduplicated
<1>3. \A z \in Excluded(E, gap) :
         \/ z[1] \in E \ Deduplicated(E) /\ z = <<z[1], Reason(E, z[1])>>
         \/ z[1] \in Deduplicated(E) \ Eligible(E) /\ z = <<z[1], Flaw(z[1])>>
         \/ z[1] \in late /\ z = <<z[1], Reason(E, z[1])>>
  BY DEF Excluded
<1> HIDE DEF late
<1>4. QED BY <1>1, <1>2, <1>3

(* The receipt accounts for every event.                                   *)
LEMMA EveryEventCounts ==
  ASSUME NEW E, Whole(E), NEW gap
  PROVE  LET r == Receipt(E, gap)
         IN  r.used + r.excluded = r.input /\ r.used = Cardinality(Used(E, gap))
<1> DEFINE out == Excluded(E, gap)
           rest == E \ Used(E, gap)
           f == [x \in out |-> x[1]]
<1>1. Total(Cases(E, gap), Cardinality) = Cardinality(Used(E, gap))
  BY CasesApart, CountParts DEF Total, Used
<1>2. \A e \in E : e \in rest <=> \E x \in out : x[1] = e
  BY UsedOrExcluded
<1>3. IsFiniteSet(rest) /\ Cardinality(rest) \in Nat
  BY FS_Subset, FS_CardinalityType DEF Whole
<1>4. Cardinality(rest) = Cardinality(out)
  <2>1. f \in [out -> rest]
    BY <1>2, OneReason DEF out
  <2>2. \A x, y \in out : f[x] = f[y] => x = y
    BY OneReason DEF out
  <2>3. \A e \in rest : \E x \in out : f[x] = e
    BY <1>2 DEF rest
  <2> HIDE DEF out, rest, f
  <2>4. QED BY <1>3, <2>1, <2>2, <2>3, SameCount
<1>5. Cardinality(E) = Cardinality(Used(E, gap)) + Cardinality(rest)
  <2>1. Used(E, gap) \cup rest = E /\ Used(E, gap) \cap rest = {}
    BY CasesApart
  <2> HIDE DEF rest
  <2>2. Cardinality(Used(E, gap) \cup rest) = Cardinality(Used(E, gap)) + Cardinality(rest)
    BY <1>3, <2>1, CasesApart, TwoParts
  <2>3. QED BY <2>1, <2>2
<1>6. QED BY <1>1, <1>4, <1>5 DEF Receipt
-----------------------------------------------------------------------------
(* Events in a line: what a case of the analysis looks like.               *)

LEMMA Extremes ==
  ASSUME NEW S, Timed(S), S # {}
  PROVE  /\ \E e \in S : e.start = Min({g.start : g \in S}) /\ \A f \in S : e.start =< f.start
         /\ \E e \in S : e.start = Max({g.start : g \in S}) /\ \A f \in S : f.start =< e.start
         /\ \E e \in S : e.end = Max({g.end : g \in S}) /\ \A f \in S : f.end =< e.end
<1> DEFINE starts == {e.start : e \in S}
           ends == {e.end : e \in S}
<1>1. IsFiniteSet(starts) /\ starts \subseteq Int /\ starts # {}
  <2> DEFINE g == [e \in S |-> e.start]
  <2>1. g \in Surjection(S, starts)
    BY DEF Surjection
  <2> HIDE DEF g
  <2>2. IsFiniteSet(starts)
    BY <2>1, FS_Surjection DEF Timed
  <2>3. QED BY <2>2 DEF Timed
<1>2. IsFiniteSet(ends) /\ ends \subseteq Int /\ ends # {}
  <2> DEFINE g == [e \in S |-> e.end]
  <2>1. g \in Surjection(S, ends)
    BY DEF Surjection
  <2> HIDE DEF g
  <2>2. IsFiniteSet(ends)
    BY <2>1, FS_Surjection DEF Timed
  <2>3. QED BY <2>2 DEF Timed
<1>3. /\ Min(starts) \in starts /\ \A x \in starts : Min(starts) =< x
      /\ Max(starts) \in starts /\ \A x \in starts : Max(starts) >= x
      /\ Max(ends) \in ends /\ \A x \in ends : Max(ends) >= x
  <2> HIDE DEF starts, ends
  <2>1. QED BY <1>1, <1>2, FiniteMin, FiniteMax
<1>4. /\ \E e \in S : e.start = Min(starts)
      /\ \E e \in S : e.start = Max(starts)
      /\ \E e \in S : e.end = Max(ends)
  BY <1>3
<1>5. \A f \in S : Min(starts) =< f.start /\ Max(starts) >= f.start /\ Max(ends) >= f.end
  BY <1>3
<1>6. \A f \in S : f.start \in Nat /\ f.end \in Nat
  BY DEF Timed
<1>7. \E e \in S : e.start = Min(starts) /\ \A f \in S : e.start =< f.start
  BY <1>4, <1>5
<1>8. \E e \in S : e.start = Max(starts) /\ \A f \in S : f.start =< e.start
  <2>1. PICK e \in S : e.start = Max(starts)
    BY <1>4
  <2>2. \A f \in S : e.start >= f.start
    BY <1>5, <2>1
  <2> HIDE DEF starts
  <2>3. \A f \in S : f.start =< e.start
    BY <1>6, <2>2
  <2>4. QED BY <2>1, <2>3
<1>9. \E e \in S : e.end = Max(ends) /\ \A f \in S : f.end =< e.end
  <2>1. PICK e \in S : e.end = Max(ends)
    BY <1>4
  <2>2. \A f \in S : e.end >= f.end
    BY <1>5, <2>1
  <2> HIDE DEF ends
  <2>3. \A f \in S : f.end =< e.end
    BY <1>6, <2>2
  <2>4. QED BY <2>1, <2>3
<1>10. QED BY <1>7, <1>8, <1>9

(* Events with usable intervals that do not overlap.                       *)
Line(s) == Timed(s) /\ s # {} /\ ~Overlaps(s)

LEMMA CaseIsLine ==
  ASSUME NEW E, Whole(E), NEW gap, NEW s \in Cases(E, gap)
  PROVE  Line(s)
<1>1. s \in Sessions(E, gap) /\ ~Overlaps(s)
  BY DEF Cases
<1>2. PICK e \in Eligible(E) : \E f \in Companions(E, e) : s = Session(Companions(E, e), gap, f)
  BY <1>1, SessionsAre
<1>3. PICK f \in Companions(E, e) : s = Session(Companions(E, e), gap, f)
  BY <1>2
<1>4. f \in s /\ s \subseteq Companions(E, e)
  BY <1>3, SessionIs
<1>5. Timed(Companions(E, e))
  BY BaseCaseTimed
<1>6. IsFiniteSet(s)
  BY <1>4, <1>5, FS_Subset DEF Timed
<1>7. Timed(s)
  BY <1>4, <1>5, <1>6 DEF Timed
<1>8. QED BY <1>1, <1>4, <1>7 DEF Line

LEMMA LineOrder ==
  ASSUME NEW s, Line(s), NEW e \in s, NEW f \in s
  PROVE  /\ e.start \in Nat /\ e.end \in Nat /\ e.start < e.end
         /\ Precedes(e, f) <=> e.end =< f.start
         /\ e = f \/ Precedes(e, f) \/ Precedes(f, e)
<1>1. /\ e.start \in Nat /\ e.end \in Nat /\ e.start < e.end
      /\ f.start \in Nat /\ f.end \in Nat /\ f.start < f.end
  BY DEF Line, Timed
<1>2. e = f \/ e.end =< f.start \/ f.end =< e.start
  BY <1>1, InOrder DEF Line
<1>3. QED BY <1>1, <1>2 DEF Precedes

LEMMA FirstIs ==
  ASSUME NEW s, Line(s)
  PROVE  /\ First(s) \in s /\ \A f \in s : f = First(s) \/ Precedes(First(s), f)
         /\ First(s).start = Min({e.start : e \in s})
<1>1. PICK e \in s : e.start = Min({g.start : g \in s}) /\ \A f \in s : e.start =< f.start
  BY Extremes DEF Line
<1>2. \A f \in s : ~Precedes(f, e)
  <2>1. ASSUME NEW f \in s, Precedes(f, e)
        PROVE  FALSE
    <3>1. f.end =< e.start /\ f.start < f.end
          /\ f.start \in Nat /\ f.end \in Nat /\ e.start \in Nat
      BY <2>1, LineOrder
    <3>2. e.start =< f.start
      BY <1>1
    <3>3. QED BY <3>1, <3>2
  <2>2. QED BY <2>1
<1>3. First(s) \in s /\ \A f \in s : ~Precedes(f, First(s))
  BY <1>2 DEF First
<1>4. \A f \in s : f = First(s) \/ Precedes(First(s), f)
  BY <1>3, LineOrder
<1>5. First(s) = e
  BY <1>2, <1>3, LineOrder
<1>6. QED BY <1>1, <1>3, <1>4, <1>5

LEMMA LastIs ==
  ASSUME NEW s, Line(s)
  PROVE  /\ Last(s) \in s /\ \A f \in s : f = Last(s) \/ Precedes(f, Last(s))
         /\ Last(s).end = Max({e.end : e \in s})
<1>1. PICK e \in s : e.end = Max({g.end : g \in s}) /\ \A f \in s : f.end =< e.end
  BY Extremes DEF Line
<1>2. \A f \in s : ~Precedes(e, f)
  <2>1. ASSUME NEW f \in s, Precedes(e, f)
        PROVE  FALSE
    <3>1. e.end =< f.start /\ f.start < f.end
          /\ f.start \in Nat /\ f.end \in Nat /\ e.end \in Nat
      BY <2>1, LineOrder
    <3>2. f.end =< e.end
      BY <1>1
    <3>3. QED BY <3>1, <3>2
  <2>2. QED BY <2>1
<1>3. Last(s) \in s /\ \A f \in s : ~Precedes(Last(s), f)
  BY <1>2 DEF Last
<1>4. \A f \in s : f = Last(s) \/ Precedes(f, Last(s))
  BY <1>3, LineOrder
<1>5. Last(s) = e
  BY <1>2, <1>3, LineOrder
<1>6. QED BY <1>1, <1>3, <1>4, <1>5
-----------------------------------------------------------------------------
(* Times: instants counted one by one.                                     *)

LEMMA SumOf ==
  ASSUME NEW S, NEW n, n = [x \in S |-> n[x]]
  PROVE  SumFunction(n) = Sum(S, n)
BY DEF Sum

(* A set cut into pieces q[k] that do not overlap.                         *)
LEMMA CountPieces ==
  ASSUME NEW S, IsFiniteSet(S), NEW K, IsFiniteSet(K), NEW q,
         \A k \in K : q[k] \subseteq S, \A x \in S : \E k \in K : x \in q[k],
         \A k, l \in K : k # l => q[k] \cap q[l] = {},
         NEW n, n = [k \in K |-> n[k]], \A k \in K : n[k] = Cardinality(q[k])
  PROVE  Cardinality(S) = SumFunction(n)
<1> DEFINE Home(x) == CHOOSE k \in K : x \in q[k]
           h == [x \in S |-> Home(x)]
<1>1. ASSUME NEW x \in S
      PROVE  h[x] \in K /\ x \in q[h[x]]
  <2>1. Home(x) \in K /\ x \in q[Home(x)]
    OBVIOUS
  <2>2. QED BY <2>1
<1> HIDE DEF h, Home
<1>2. ASSUME NEW k \in K
      PROVE  Keyed(S, h, k) = q[k]
  <2>1. \A x \in q[k] : x \in S /\ h[x] = k
    BY <1>1
  <2>2. \A x \in S : h[x] = k => x \in q[k]
    BY <1>1
  <2>3. QED BY <2>1, <2>2 DEF Keyed
<1>3. Cardinality(S) = Sum(K, [k \in K |-> Cardinality(Keyed(S, h, k))])
  BY <1>1, CountByKey
<1>4. [k \in K |-> Cardinality(Keyed(S, h, k))] = n
  <2>1. \A k \in K : Cardinality(Keyed(S, h, k)) = n[k]
    BY <1>2
  <2>2. [k \in K |-> Cardinality(Keyed(S, h, k))] = [k \in K |-> n[k]]
    BY <2>1
  <2>3. QED BY <2>2
<1>5. QED BY <1>3, <1>4, SumOf

LEMMA SpanOf ==
  ASSUME NEW s, Line(s), NEW x \in Instants(s)
  PROVE  x \in First(s).start .. (Last(s).end - 1)
<1>1. PICK g \in s : x \in Int /\ g.start =< x /\ x < g.end
  BY InstantOf DEF Line
<1>2. First(s) \in s /\ Last(s) \in s
  BY FirstIs, LastIs
<1>3. First(s).start =< g.start
  <2>1. g = First(s) \/ Precedes(First(s), g)
    BY FirstIs
  <2>2. QED BY <1>2, <2>1, LineOrder DEF Precedes
<1>4. g.end =< Last(s).end
  <2>1. g = Last(s) \/ Precedes(g, Last(s))
    BY LastIs
  <2>2. g = Last(s) \/ g.end =< Last(s).start
    BY <1>2, <2>1, LineOrder
  <2>3. Last(s).start < Last(s).end /\ Last(s).start \in Nat /\ Last(s).end \in Nat
        /\ g.end \in Nat
    BY <1>2, LineOrder
  <2>4. QED BY <2>2, <2>3
<1>5. /\ First(s).start \in Nat /\ Last(s).end \in Nat /\ g.start \in Nat /\ g.end \in Nat
  BY <1>2, LineOrder
<1>6. QED BY <1>1, <1>3, <1>4, <1>5

LEMMA LineFinite ==
  ASSUME NEW s, Line(s)
  PROVE  /\ IsFiniteSet(First(s).start .. (Last(s).end - 1)) /\ IsFiniteSet(Instants(s))
         /\ Cardinality(First(s).start .. (Last(s).end - 1)) = ElapsedSeconds(s)
         /\ First(s).start < Last(s).end /\ First(s).start \in Nat /\ Last(s).end \in Nat
<1>1. First(s) \in s /\ Last(s) \in s /\ (Last(s) = First(s) \/ Precedes(First(s), Last(s)))
  BY FirstIs, LastIs
<1>2. /\ First(s).start \in Nat /\ First(s).end \in Nat /\ First(s).start < First(s).end
      /\ Last(s).start \in Nat /\ Last(s).end \in Nat /\ Last(s).start < Last(s).end
  BY <1>1, LineOrder
<1>3. First(s).start < Last(s).end
  <2>1. CASE Last(s) = First(s)
    BY <1>2, <2>1
  <2>2. CASE Precedes(First(s), Last(s))
    <3>1. First(s).end =< Last(s).start
      BY <1>1, <2>2, LineOrder
    <3>2. QED BY <1>2, <3>1
  <2>3. QED BY <1>1, <2>1, <2>2
<1>4. IsFiniteSet(First(s).start .. (Last(s).end - 1))
      /\ Cardinality(First(s).start .. (Last(s).end - 1)) = Last(s).end - First(s).start
  <2> DEFINE a == First(s).start
             b == Last(s).end - 1
  <2>1. a \in Int /\ b \in Int /\ a =< b /\ b - a + 1 = Last(s).end - First(s).start
    BY <1>2, <1>3
  <2> HIDE DEF a, b
  <2>2. IsFiniteSet(a .. b) /\ Cardinality(a .. b) = b - a + 1
    BY <2>1, FS_Interval
  <2>3. QED BY <2>1, <2>2 DEF a, b
<1>5. IsFiniteSet(Instants(s))
  <2>1. Instants(s) \in SUBSET (First(s).start .. (Last(s).end - 1))
    BY SpanOf
  <2>2. QED BY <1>4, <2>1, FS_Subset
<1>6. QED BY <1>2, <1>3, <1>4, <1>5 DEF ElapsedSeconds

(* Active time counts every instant once.                                  *)
LEMMA ActiveTime ==
  ASSUME NEW s, Line(s)
  PROVE  Total(s, Interval) = Cardinality(Instants(s))
<1> DEFINE q == [e \in s |-> e.start .. (e.end - 1)]
           n == [e \in s |-> Interval(e)]
<1>1. \A e \in s : q[e] \subseteq Instants(s)
  BY DEF Instants
<1>2. \A x \in Instants(s) : \E e \in s : x \in q[e]
  BY DEF Instants
<1>3. ASSUME NEW e \in s, NEW f \in s, e # f
      PROVE  q[e] \cap q[f] = {}
  <2>1. e.end =< f.start \/ f.end =< e.start
    BY <1>3, LineOrder
  <2>2. /\ e.start \in Nat /\ e.end \in Nat /\ f.start \in Nat /\ f.end \in Nat
    BY LineOrder
  <2>3. q[e] = e.start .. (e.end - 1) /\ q[f] = f.start .. (f.end - 1)
    OBVIOUS
  <2> HIDE DEF q
  <2>4. QED BY <2>1, <2>2, <2>3
<1>4. ASSUME NEW e \in s
      PROVE  n[e] = Cardinality(q[e])
  <2> DEFINE a == e.start
             b == e.end - 1
  <2>1. a \in Int /\ b \in Int /\ a =< b /\ b - a + 1 = Interval(e)
    BY LineOrder DEF Interval
  <2>2. q[e] = a .. b /\ n[e] = Interval(e)
    OBVIOUS
  <2> HIDE DEF a, b, q, n
  <2>3. QED BY <2>1, <2>2, FS_Interval
<1>5. n = [e \in s |-> n[e]]
  OBVIOUS
<1>6. IsFiniteSet(s) /\ IsFiniteSet(Instants(s))
  BY LineFinite DEF Line, Timed
<1> HIDE DEF q, n
<1>7. Cardinality(Instants(s)) = SumFunction(n)
  BY <1>1, <1>2, <1>3, <1>4, <1>5, <1>6, CountPieces
<1>8. QED BY <1>7 DEF n, Total

LEMMA BeganMonotone ==
  ASSUME NEW S, Timed(S), NEW gap, NEW e \in S, NEW f \in S, e.start =< f.start
  PROVE  Began(S, gap, e) =< Began(S, gap, f)
<1>1. Began(S, gap, e) \in Opens(S, gap) /\ Began(S, gap, e) =< e.start
      /\ Began(S, gap, e) \in Nat
  BY BeganSound
<1>2. Began(S, gap, e) =< f.start
  BY <1>1 DEF Timed
<1>3. QED BY <1>1, <1>2, BeganSound

(* Events without a pause between them are active from the first start to  *)
(* the last end.                                                           *)
LEMMA BlockIsSolid ==
  ASSUME NEW s, Line(s), NEW c \in s
  PROVE  LET i == Session(s, 0, c)
         IN  /\ Line(i) /\ i \subseteq s
             /\ Instants(i) = First(i).start .. (Last(i).end - 1)
<1> DEFINE i == Session(s, 0, c)
<1>1. i = {f \in s : Began(s, 0, f) = Began(s, 0, c)}
  BY SessionIs
<1> HIDE DEF i
<1>2. c \in i /\ i \in SUBSET s
  BY <1>1
<1>3. Line(i)
  <2>1. IsFiniteSet(i)
    BY <1>2, FS_Subset DEF Line, Timed
  <2>2. Timed(i)
    BY <1>2, <2>1 DEF Line, Timed
  <2>3. ~Overlaps(i)
    BY <1>2 DEF Line, Overlaps
  <2>4. QED BY <1>2, <2>2, <2>3 DEF Line
<1> DEFINE a == First(i)
           z == Last(i)
<1>4. a \in i /\ z \in i /\ a \in s /\ z \in s
  BY <1>2, <1>3, FirstIs, LastIs
<1>5. Instants(i) \subseteq a.start .. (z.end - 1)
  BY <1>3, SpanOf
<1>6. Timed(s) /\ Began(s, 0, a) = Began(s, 0, z) /\ a.start \in Nat /\ a.end \in Nat
      /\ z.start \in Nat /\ z.end \in Nat
  BY <1>1, <1>4, LineOrder DEF Line
<1> HIDE DEF a, z
<1>7. ASSUME NEW x \in a.start .. (z.end - 1), x \notin Instants(i)
      PROVE  FALSE
  <2>1. x \in Int /\ a.start =< x /\ x < z.end
    BY <1>6, <1>7
  <2>2. \A g \in i : ~(g.start =< x /\ x < g.end)
    BY <1>3, <1>7, <2>1, InstantOf DEF Line
  <2>3. a.end =< x /\ x < z.start
    BY <1>4, <1>6, <2>1, <2>2
  <2>4. ASSUME NEW f \in s, f.start =< x
        PROVE  f.end =< x
    <3> SUFFICES ASSUME x < f.end
                 PROVE  FALSE
      BY <2>1, LineOrder
    <3>1. f \notin i
      BY <2>2, <2>4
    <3>2. f.start \in Nat /\ f.end \in Nat
      BY LineOrder
    <3>3. a.end =< f.start \/ f.end =< a.start
      BY <1>4, <3>1, LineOrder
    <3>4. a.start =< f.start /\ f.start =< z.start
      <4>1. a.start < a.end
        BY <1>4, LineOrder
      <4>2. QED BY <1>6, <2>1, <2>3, <2>4, <3>2, <3>3, <4>1
    <3>5. Began(s, 0, a) =< Began(s, 0, f) /\ Began(s, 0, f) =< Began(s, 0, z)
      BY <1>4, <1>6, <3>4, BeganMonotone
    <3>6. Began(s, 0, a) \in Nat /\ Began(s, 0, f) \in Nat
      BY <1>4, <1>6, BeganSound
    <3>7. Began(s, 0, f) = Began(s, 0, a)
      BY <1>6, <3>5, <3>6
    <3>8. Began(s, 0, a) = Began(s, 0, c)
      BY <1>1, <1>4
    <3>9. QED BY <1>1, <3>1, <3>7, <3>8
  <2> DEFINE later == {g \in s : x < g.start}
  <2>5. Timed(later) /\ z \in later
    <3>1. IsFiniteSet(later)
      BY FS_Subset DEF Line, Timed
    <3>2. QED BY <1>4, <1>6, <2>3, <3>1 DEF Timed
  <2>6. PICK m \in later : \A g \in later : m.start =< g.start
    <3> HIDE DEF later
    <3>1. QED BY <2>5, Extremes
  <2>7. m \in s /\ x < m.start /\ m.start \in Nat
    BY LineOrder
  <2>8. ASSUME NEW f \in s, f.start < m.start
        PROVE  m.start - f.end > 0
    <3>1. f.start \in Nat /\ f.end \in Nat
      BY LineOrder
    <3>2. ~(x < f.start)
      BY <2>6, <2>7, <2>8, <3>1
    <3>3. f.end =< x
      BY <2>1, <2>4, <3>1, <3>2
    <3>4. QED BY <2>1, <2>7, <3>1, <3>3
  <2>9. m.start \in Opens(s, 0) /\ m.start =< z.start
    BY <2>5, <2>6, <2>7, <2>8 DEF Opens
  <2>10. m.start =< Began(s, 0, z) /\ Began(s, 0, a) =< a.start
         /\ Began(s, 0, z) \in Nat /\ Began(s, 0, a) \in Nat
    BY <1>4, <1>6, <2>9, BeganSound
  <2>11. QED BY <1>6, <2>1, <2>7, <2>10
<1>8. Instants(i) = a.start .. (z.end - 1)
  BY <1>5, <1>7
<1>9. QED BY <1>2, <1>3, <1>8 DEF i, a, z

LEMMA UnionTime ==
  ASSUME NEW s, Line(s)
  PROVE  UnionSeconds(s) = Cardinality(Instants(s))
<1> DEFINE K == SplitSessions(s, 0)
           Span(i) == Max({e.end : e \in i}) - Min({e.start : e \in i})
           n == [i \in K |-> Span(i)]
           q == [i \in K |-> Instants(i)]
<1>1. UnionSeconds(s) = SumFunction(n)
  BY DEF UnionSeconds, Total
<1>2. ASSUME NEW i \in K
      PROVE  \E c \in s : i = Session(s, 0, c)
  BY DEF SplitSessions
<1>3. ASSUME NEW i \in K
      PROVE  Line(i) /\ i \subseteq s /\ Instants(i) = First(i).start .. (Last(i).end - 1)
  BY <1>2, BlockIsSolid
<1>4. \A c \in s : Session(s, 0, c) \in K /\ c \in Session(s, 0, c)
  BY SessionIs DEF SplitSessions
<1>5. IsFiniteSet(K)
  <2>1. K \in SUBSET (SUBSET s)
    BY <1>3
  <2> HIDE DEF K
  <2>2. IsFiniteSet(SUBSET s)
    BY FS_SUBSET DEF Line, Timed
  <2>3. QED BY <2>1, <2>2, FS_Subset
<1> HIDE DEF K
<1>6. ASSUME NEW i \in K
      PROVE  n[i] = Cardinality(q[i])
  <2>1. Line(i) /\ Instants(i) = First(i).start .. (Last(i).end - 1)
    BY <1>3
  <2>2. Cardinality(Instants(i)) = ElapsedSeconds(i)
    BY <2>1, LineFinite
  <2>3. Span(i) = ElapsedSeconds(i)
    BY <2>1, FirstIs, LastIs DEF ElapsedSeconds
  <2>4. n[i] = Span(i) /\ q[i] = Instants(i)
    OBVIOUS
  <2>5. QED BY <2>2, <2>3, <2>4
<1>7. \A i \in K : q[i] \subseteq Instants(s)
  BY <1>3 DEF Instants
<1>8. \A x \in Instants(s) : \E i \in K : x \in q[i]
  BY <1>4 DEF Instants
<1>9. ASSUME NEW i \in K, NEW j \in K, i # j
      PROVE  q[i] \cap q[j] = {}
  <2> SUFFICES ASSUME NEW x, x \in Instants(i), x \in Instants(j)
               PROVE  FALSE
    OBVIOUS
  <2>1. PICK e \in i : x \in Int /\ e.start =< x /\ x < e.end
    BY <1>3, InstantOf DEF Line
  <2>2. PICK f \in j : x \in Int /\ f.start =< x /\ x < f.end
    BY <1>3, InstantOf DEF Line
  <2>3. e \in s /\ f \in s
    BY <1>3
  <2>4. e = f
    BY <2>1, <2>2, <2>3, LineOrder
  <2>5. PICK c \in s : i = Session(s, 0, c)
    BY <1>2
  <2>6. PICK d \in s : j = Session(s, 0, d)
    BY <1>2
  <2>7. Began(s, 0, c) = Began(s, 0, e) /\ Began(s, 0, d) = Began(s, 0, e)
    BY <2>4, <2>5, <2>6, SessionIs
  <2>8. i = j
    BY <2>5, <2>6, <2>7, SessionIs
  <2>9. QED BY <1>9, <2>8
<1>10. n = [i \in K |-> n[i]] /\ IsFiniteSet(Instants(s))
  BY LineFinite
<1> HIDE DEF n, q
<1>11. Cardinality(Instants(s)) = SumFunction(n)
  BY <1>5, <1>6, <1>7, <1>8, <1>9, <1>10, CountPieces
<1>12. QED BY <1>1, <1>11

LEMMA MaxOfTwo ==
  ASSUME NEW x \in Int, NEW y \in Int
  PROVE  Max({x, y}) \in {x, y} /\ Max({x, y}) >= x /\ Max({x, y}) >= y
<1>1. \E m \in {x, y} : \A z \in {x, y} : m >= z
  OBVIOUS
<1>2. QED BY <1>1 DEF Max
-----------------------------------------------------------------------------
(* Steps of a line.                                                        *)

LEMMA StepsIn ==
  ASSUME NEW s, NEW p \in Adjacent(s)
  PROVE  /\ p[1] \in s /\ p[2] \in s /\ Precedes(p[1], p[2])
         /\ \A f \in s : ~(Precedes(p[1], f) /\ Precedes(f, p[2]))
         /\ p = <<p[1], p[2]>>
BY DEF Adjacent

LEMMA StepInto ==
  ASSUME NEW s, Line(s), NEW e \in s, e # First(s)
  PROVE  \E p \in Adjacent(s) : p[2] = e
<1> DEFINE earlier == {f \in s : Precedes(f, e)}
<1>1. First(s) \in earlier
  BY FirstIs
<1>2. Timed(earlier)
  <2>1. IsFiniteSet(earlier)
    BY FS_Subset DEF Line, Timed
  <2>2. QED BY <2>1 DEF Line, Timed
<1>3. PICK m \in earlier : \A f \in earlier : f.start =< m.start
  <2> HIDE DEF earlier
  <2>1. QED BY <1>1, <1>2, Extremes
<1>4. ASSUME NEW f \in s, Precedes(m, f), Precedes(f, e)
      PROVE  FALSE
  <2>1. f.start =< m.start
    BY <1>3, <1>4
  <2>2. m.end =< f.start /\ m.start < m.end /\ m.start \in Nat /\ m.end \in Nat /\ f.start \in Nat
    BY <1>4, LineOrder
  <2>3. QED BY <2>1, <2>2
<1>5. <<m, e>> \in Adjacent(s)
  BY <1>4 DEF Adjacent
<1>6. QED BY <1>5

LEMMA StepOut ==
  ASSUME NEW s, Line(s), NEW e \in s, e # Last(s)
  PROVE  \E p \in Adjacent(s) : p[1] = e
<1> DEFINE later == {f \in s : Precedes(e, f)}
<1>1. Last(s) \in later
  BY LastIs
<1>2. Timed(later)
  <2>1. IsFiniteSet(later)
    BY FS_Subset DEF Line, Timed
  <2>2. QED BY <2>1 DEF Line, Timed
<1>3. PICK m \in later : \A f \in later : m.start =< f.start
  <2> HIDE DEF later
  <2>1. QED BY <1>1, <1>2, Extremes
<1>4. ASSUME NEW f \in s, Precedes(e, f), Precedes(f, m)
      PROVE  FALSE
  <2>1. m.start =< f.start
    BY <1>3, <1>4
  <2>2. f.end =< m.start /\ f.start < f.end /\ m.start \in Nat /\ f.end \in Nat /\ f.start \in Nat
    BY <1>4, LineOrder
  <2>3. QED BY <2>1, <2>2
<1>5. <<e, m>> \in Adjacent(s)
  BY <1>4 DEF Adjacent
<1>6. QED BY <1>5

(* An event has at most one step before and one after it; the first has    *)
(* none before it, the last none after it.                                 *)
LEMMA OneStep ==
  ASSUME NEW s, Line(s), NEW p \in Adjacent(s), NEW q \in Adjacent(s)
  PROVE  /\ p[2] = q[2] => p = q
         /\ p[1] = q[1] => p = q
         /\ p[2] # First(s) /\ p[1] # Last(s)
<1>1. p[2] = q[2] => p = q
  <2> SUFFICES ASSUME p[2] = q[2], p[1] # q[1]
               PROVE  FALSE
    BY StepsIn
  <2>1. Precedes(p[1], q[1]) \/ Precedes(q[1], p[1])
    BY StepsIn, LineOrder
  <2>2. QED BY <2>1, StepsIn
<1>2. p[1] = q[1] => p = q
  <2> SUFFICES ASSUME p[1] = q[1], p[2] # q[2]
               PROVE  FALSE
    BY StepsIn
  <2>1. Precedes(p[2], q[2]) \/ Precedes(q[2], p[2])
    BY StepsIn, LineOrder
  <2>2. QED BY <2>1, StepsIn
<1>3. ASSUME NEW e \in s, NEW f \in s, Precedes(e, f), Precedes(f, e)
      PROVE  FALSE
  BY <1>3, LineOrder
<1>4. /\ p[1] \in s /\ p[2] \in s /\ Precedes(p[1], p[2])
  BY StepsIn
<1>5. p[2] # First(s)
  BY <1>3, <1>4, FirstIs
<1>6. p[1] # Last(s)
  BY <1>3, <1>4, LastIs
<1>7. QED BY <1>1, <1>2, <1>5, <1>6

LEMMA StepsFinite ==
  ASSUME NEW s, Line(s)
  PROVE  IsFiniteSet(Adjacent(s)) /\ Cardinality(Adjacent(s)) = Cardinality(s) - 1
<1> DEFINE f == [p \in Adjacent(s) |-> p[2]]
           rest == s \ {First(s)}
<1>1. IsFiniteSet(s) /\ First(s) \in s
  BY FirstIs DEF Line, Timed
<1>2. IsFiniteSet(rest) /\ Cardinality(rest) = Cardinality(s) - 1
  BY <1>1, FS_RemoveElement
<1>3. f \in [Adjacent(s) -> rest]
  BY StepsIn, OneStep
<1>4. \A p, q \in Adjacent(s) : f[p] = f[q] => p = q
  BY OneStep
<1>5. \A e \in rest : \E p \in Adjacent(s) : f[p] = e
  BY StepInto
<1> HIDE DEF f, rest
<1>6. QED BY <1>2, <1>3, <1>4, <1>5, SameCount

(* Elapsed time is active time and the pauses between the steps.           *)
LEMMA ElapsedTime ==
  ASSUME NEW s, Line(s)
  PROVE  ElapsedSeconds(s) = Cardinality(Instants(s)) + WaitingSeconds(s)
<1> DEFINE K == Adjacent(s)
           all == First(s).start .. (Last(s).end - 1)
           pauses == all \ Instants(s)
           q == [p \in K |-> p[1].end .. (p[2].start - 1)]
           n == [p \in K |-> Between(p)]
<1>1. /\ IsFiniteSet(all) /\ IsFiniteSet(Instants(s)) /\ Cardinality(all) = ElapsedSeconds(s)
      /\ First(s).start \in Nat /\ Last(s).end \in Nat
  BY LineFinite
<1>2. Instants(s) \subseteq all
  BY SpanOf
<1>3. IsFiniteSet(pauses)
  BY <1>1, FS_Subset
<1>4. Cardinality(all) = Cardinality(Instants(s)) + Cardinality(pauses)
  <2>1. Instants(s) \cup pauses = all /\ Instants(s) \cap pauses = {}
    BY <1>2
  <2> HIDE DEF pauses, all
  <2>2. QED BY <1>1, <1>3, <2>1, TwoParts
<1>5. ASSUME NEW p \in K
      PROVE  /\ p[1] \in s /\ p[2] \in s /\ p[1].end =< p[2].start
             /\ p[1].start \in Nat /\ p[1].end \in Nat /\ p[1].start < p[1].end
             /\ p[2].start \in Nat /\ p[2].end \in Nat /\ p[2].start < p[2].end
             /\ n[p] = Cardinality(q[p])
             /\ \A x : x \in q[p] <=> x \in Int /\ p[1].end =< x /\ x < p[2].start
  <2>1. p[1] \in s /\ p[2] \in s /\ Precedes(p[1], p[2])
    BY StepsIn
  <2>2. /\ p[1].end =< p[2].start
        /\ p[1].start \in Nat /\ p[1].end \in Nat /\ p[1].start < p[1].end
        /\ p[2].start \in Nat /\ p[2].end \in Nat /\ p[2].start < p[2].end
    BY <2>1, LineOrder
  <2>3. n[p] = Between(p) /\ q[p] = p[1].end .. (p[2].start - 1)
    OBVIOUS
  <2>4. Between(p) = p[2].start - p[1].end
    <3> DEFINE d == p[2].start - p[1].end
    <3>1. d \in Int /\ d >= 0
      BY <2>2
    <3> HIDE DEF d
    <3>2. Max({d, 0}) = d
      <4>1. d \in Int /\ 0 \in Int
        BY <3>1
      <4>2. Max({d, 0}) \in {d, 0} /\ Max({d, 0}) >= d
        BY ONLY <4>1, MaxOfTwo
      <4>3. QED BY <3>1, <4>2
    <3>3. QED BY <3>2 DEF Between, d
  <2>5. Cardinality(p[1].end .. (p[2].start - 1)) = p[2].start - p[1].end
    <3> DEFINE b == p[2].start - 1
    <3>1. p[1].end \in Int /\ b \in Int /\ p[1].end =< b + 1 /\ b + 1 = p[2].start
      BY <2>2
    <3> HIDE DEF b
    <3>2. Cardinality(p[1].end .. b) = IF p[1].end > b THEN 0 ELSE b - p[1].end + 1
      BY <3>1, FS_Interval
    <3>3. Cardinality(p[1].end .. b) = (b + 1) - p[1].end
      BY <2>2, <3>1, <3>2
    <3>4. QED BY <3>1, <3>3 DEF b
  <2> HIDE DEF n, q
  <2>6. \A x : x \in q[p] <=> x \in Int /\ p[1].end =< x /\ x < p[2].start
    BY <2>2, <2>3
  <2>7. QED BY <2>1, <2>2, <2>3, <2>4, <2>5, <2>6
<1>6. n = [p \in K |-> n[p]]
  OBVIOUS
<1> HIDE DEF n, q
<1>7. ASSUME NEW x
      PROVE  x \in pauses <=> /\ x \in Int /\ First(s).start =< x /\ x < Last(s).end
                              /\ \A g \in s : ~(g.start =< x /\ x < g.end)
  <2>1. x \in all <=> x \in Int /\ First(s).start =< x /\ x < Last(s).end
    BY <1>1
  <2>2. x \in Instants(s) <=> \E g \in s : x \in Int /\ g.start =< x /\ x < g.end
    BY InstantOf DEF Line
  <2>3. QED BY <2>1, <2>2
<1> HIDE DEF pauses
<1>8. ASSUME NEW p \in K, NEW x \in q[p]
      PROVE  x \in pauses
  <2>1. x \in Int /\ p[1].end =< x /\ x < p[2].start
    BY <1>5
  <2>2. First(s).start =< p[1].start /\ p[2].end =< Last(s).end
    <3>1. p[1] = First(s) \/ Precedes(First(s), p[1])
      BY <1>5, FirstIs
    <3>2. p[2] = Last(s) \/ p[2].end =< Last(s).start
      BY <1>5, LastIs, LineOrder
    <3>3. /\ First(s).start \in Nat /\ Last(s).start \in Nat /\ Last(s).end \in Nat
          /\ Last(s).start < Last(s).end
      BY FirstIs, LastIs, LineOrder
    <3>4. First(s).start =< p[1].start
      BY <1>5, <3>1, <3>3 DEF Precedes
    <3>5. p[2].end =< Last(s).end
      BY <1>5, <3>2, <3>3
    <3>6. QED BY <3>4, <3>5
  <2>3. ASSUME NEW g \in s, g.start =< x, x < g.end
        PROVE  FALSE
    <3>1. g.start \in Nat /\ g.end \in Nat
      BY LineOrder
    <3>2. g # p[1] /\ g # p[2]
      BY <1>5, <2>1, <2>3, <3>1
    <3>3. p[1].end =< g.start
      <4>1. p[1].end =< g.start \/ g.end =< p[1].start
        BY <1>5, <3>2, LineOrder
      <4>2. QED BY <1>5, <2>1, <2>3, <3>1, <4>1
    <3>4. g.end =< p[2].start
      <4>1. p[2].end =< g.start \/ g.end =< p[2].start
        BY <1>5, <3>2, LineOrder
      <4>2. QED BY <1>5, <2>1, <2>3, <3>1, <4>1
    <3>5. Precedes(p[1], g) /\ Precedes(g, p[2])
      BY <1>5, <3>3, <3>4, LineOrder
    <3>6. QED BY <3>5, StepsIn
  <2>4. First(s).start =< x /\ x < Last(s).end
    BY <1>1, <1>5, <2>1, <2>2
  <2>5. QED BY <1>7, <2>1, <2>3, <2>4
<1>9. ASSUME NEW x \in pauses
      PROVE  \E p \in K : x \in q[p]
  <2>1. /\ x \in Int /\ First(s).start =< x /\ x < Last(s).end
        /\ \A g \in s : ~(g.start =< x /\ x < g.end)
    BY <1>7
  <2> DEFINE later == {g \in s : x < g.start}
  <2>2. Last(s) \in later
    <3>1. Last(s) \in s /\ Last(s).start \in Nat
      BY LastIs, LineOrder
    <3>2. QED BY <2>1, <3>1
  <2>3. Timed(later)
    <3>1. IsFiniteSet(later)
      BY FS_Subset DEF Line, Timed
    <3>2. QED BY <3>1 DEF Line, Timed
  <2>4. PICK m \in later : \A g \in later : m.start =< g.start
    <3> HIDE DEF later
    <3>1. QED BY <2>2, <2>3, Extremes
  <2>5. m \in s /\ x < m.start /\ m.start \in Nat
    BY LineOrder
  <2>6. m # First(s)
    BY <1>1, <2>1, <2>5
  <2>7. PICK p \in K : p[2] = m
    BY <2>5, <2>6, StepInto
  <2>8. ~(x < p[1].start)
    <3> SUFFICES ASSUME x < p[1].start
                 PROVE  FALSE
      OBVIOUS
    <3>1. m.start =< p[1].start
      BY <1>5, <2>4
    <3>2. QED BY <1>5, <2>7, <3>1
  <2>9. p[1].end =< x
    BY <1>5, <2>1, <2>8
  <2>10. QED BY <1>5, <2>1, <2>5, <2>7, <2>9
<1>10. ASSUME NEW p \in K, NEW r \in K, p # r
       PROVE  q[p] \cap q[r] = {}
  <2> SUFFICES ASSUME NEW x \in q[p], x \in q[r]
               PROVE  FALSE
    OBVIOUS
  <2>1. x \in Int /\ p[1].end =< x /\ x < p[2].start /\ r[1].end =< x /\ x < r[2].start
    BY <1>5
  <2>2. ~Precedes(p[1], r[1])
    <3> SUFFICES ASSUME Precedes(p[1], r[1])
                 PROVE  FALSE
      OBVIOUS
    <3>1. r[1].end =< p[2].start
      BY <1>5, <2>1
    <3>2. Precedes(r[1], p[2])
      BY <1>5, <3>1, LineOrder
    <3>3. QED BY <1>5, <3>2, StepsIn
  <2>3. ~Precedes(r[1], p[1])
    <3> SUFFICES ASSUME Precedes(r[1], p[1])
                 PROVE  FALSE
      OBVIOUS
    <3>1. p[1].end =< r[2].start
      BY <1>5, <2>1
    <3>2. Precedes(p[1], r[2])
      BY <1>5, <3>1, LineOrder
    <3>3. QED BY <1>5, <3>2, StepsIn
  <2>4. p[1] = r[1]
    BY <1>5, <2>2, <2>3, LineOrder
  <2>5. QED BY <1>10, <2>4, OneStep
<1>11. IsFiniteSet(K)
  BY StepsFinite
<1>12. Cardinality(pauses) = SumFunction(n)
  <2>1. \A p \in K : q[p] \subseteq pauses
    BY <1>8
  <2>2. \A p \in K : n[p] = Cardinality(q[p])
    BY <1>5
  <2> HIDE DEF K
  <2>3. QED BY <1>3, <1>6, <1>9, <1>10, <1>11, <2>1, <2>2, CountPieces
<1>13. WaitingSeconds(s) = SumFunction(n)
  BY DEF WaitingSeconds, Total, n
<1>14. QED BY <1>1, <1>4, <1>12, <1>13
-----------------------------------------------------------------------------
(* Results over one population.                                            *)

(* Cases that share no event.                                              *)
Population(C) == /\ Disjoint(C) /\ IsFiniteSet(C) /\ IsFiniteSet(Events(C))
                 /\ \A s \in C : Line(s)

LEMMA CasesArePopulation ==
  ASSUME NEW E, Whole(E), NEW gap
  PROVE  Population(Cases(E, gap)) /\ Events(Cases(E, gap)) = Used(E, gap)
<1>1. Events(Cases(E, gap)) = Used(E, gap)
  BY DEF Events, Used
<1>2. QED BY <1>1, CasesApart, CaseIsLine DEF Population

LEMMA ActivitiesFinite ==
  ASSUME NEW C, Population(C)
  PROVE  /\ IsFiniteSet(Activities(C))
         /\ \A a : IsFiniteSet(Of(C, a)) /\ Frequency(C, a) \in Nat
         /\ \A e \in Events(C) : e.act \in Activities(C)
<1> DEFINE f == [e \in Events(C) |-> e.act]
<1>1. f \in Surjection(Events(C), Activities(C))
  BY DEF Surjection, Activities
<1> HIDE DEF f
<1>2. IsFiniteSet(Activities(C))
  BY <1>1, FS_Surjection DEF Population
<1>3. \A a : Of(C, a) \in SUBSET Events(C)
  BY DEF Of
<1>4. \A a : IsFiniteSet(Of(C, a))
  BY <1>3, FS_Subset DEF Population
<1>5. QED BY <1>2, <1>4, FS_CardinalityType DEF Frequency, Activities

(* A step belongs to one case.                                             *)
LEMMA StepsApart ==
  ASSUME NEW C, Population(C), NEW s \in C, NEW t \in C,
         NEW p \in Adjacent(s), NEW q \in Adjacent(t),
         p[1] = q[1] \/ p[2] = q[2]
  PROVE  s = t /\ p = q
<1>1. s = t
  BY StepsIn DEF Population, Disjoint
<1>2. QED BY <1>1, OneStep DEF Population

LEMMA GraphFinite ==
  ASSUME NEW C, Population(C)
  PROVE  /\ IsFiniteSet(Steps(C))
         /\ \A p \in Steps(C) : p[1] \in Events(C) /\ p[2] \in Events(C)
<1>1. \A p \in Steps(C) : p[1] \in Events(C) /\ p[2] \in Events(C) /\ p = <<p[1], p[2]>>
  BY StepsIn DEF Steps, Events
<1>2. Steps(C) \in SUBSET (Events(C) \X Events(C))
  BY <1>1
<1>3. IsFiniteSet(Events(C) \X Events(C))
  BY FS_Product DEF Population
<1>4. QED BY <1>1, <1>2, <1>3, FS_Subset

(* What begins a case, and what ends one.                                  *)
Heads(C, a) == {e \in Of(C, a) : \E s \in C : e = First(s)}
Tails(C, a) == {e \in Of(C, a) : \E s \in C : e = Last(s)}

LEMMA HeadsCount ==
  ASSUME NEW C, Population(C), NEW a
  PROVE  Starts(C, a) = Cardinality(Heads(C, a)) /\ Ends(C, a) = Cardinality(Tails(C, a))
<1>1. \A s \in C : First(s) \in s /\ Last(s) \in s
  BY FirstIs, LastIs DEF Population
<1>2. \A s, t \in C : (First(s) = First(t) \/ Last(s) = Last(t)) => s = t
  BY <1>1 DEF Population, Disjoint
<1>3. \A s \in C : First(s) \in Events(C) /\ Last(s) \in Events(C)
  BY <1>1 DEF Events
<1>4. IsFiniteSet(Heads(C, a)) /\ IsFiniteSet(Tails(C, a))
  <2>1. Heads(C, a) \in SUBSET Of(C, a) /\ Tails(C, a) \in SUBSET Of(C, a)
    BY DEF Heads, Tails
  <2>2. QED BY <2>1, ActivitiesFinite, FS_Subset
<1>5. Starts(C, a) = Cardinality(Heads(C, a))
  <2> DEFINE S == {s \in C : First(s).act = a}
             f == [s \in S |-> First(s)]
  <2>1. f \in [S -> Heads(C, a)]
    BY <1>3 DEF Heads, Of
  <2>2. \A s, t \in S : f[s] = f[t] => s = t
    BY <1>2
  <2>3. \A e \in Heads(C, a) : \E s \in S : f[s] = e
    BY DEF Heads, Of
  <2> HIDE DEF f, S
  <2>4. Cardinality(S) = Cardinality(Heads(C, a))
    BY <1>4, <2>1, <2>2, <2>3, SameCount
  <2>5. QED BY <2>4 DEF S, Starts
<1>6. Ends(C, a) = Cardinality(Tails(C, a))
  <2> DEFINE S == {s \in C : Last(s).act = a}
             f == [s \in S |-> Last(s)]
  <2>1. f \in [S -> Tails(C, a)]
    BY <1>3 DEF Tails, Of
  <2>2. \A s, t \in S : f[s] = f[t] => s = t
    BY <1>2
  <2>3. \A e \in Tails(C, a) : \E s \in S : f[s] = e
    BY DEF Tails, Of
  <2> HIDE DEF f, S
  <2>4. Cardinality(S) = Cardinality(Tails(C, a))
    BY <1>4, <2>1, <2>2, <2>3, SameCount
  <2>5. QED BY <2>4 DEF S, Ends
<1>7. QED BY <1>5, <1>6

(* Every other event of an activity is entered, or left, by one step.      *)
LEMMA StepsCount ==
  ASSUME NEW C, Population(C), NEW a
  PROVE  /\ Cardinality({p \in Steps(C) : p[2].act = a}) = Cardinality(Of(C, a) \ Heads(C, a))
         /\ Cardinality({p \in Steps(C) : p[1].act = a}) = Cardinality(Of(C, a) \ Tails(C, a))
<1>1. ASSUME NEW p \in Steps(C)
      PROVE  \E s \in C : p \in Adjacent(s)
  BY DEF Steps
<1>2. \A p, q \in Steps(C) : p[2] = q[2] \/ p[1] = q[1] => p = q
  BY <1>1, StepsApart
<1>3. ASSUME NEW p \in Steps(C), NEW t \in C
      PROVE  p[2] # First(t) /\ p[1] # Last(t)
  <2>1. PICK s \in C : p \in Adjacent(s)
    BY <1>1
  <2>2. p[1] \in s /\ p[2] \in s /\ p[2] # First(s) /\ p[1] # Last(s)
    BY <2>1, StepsIn, OneStep DEF Population
  <2>3. First(t) \in t /\ Last(t) \in t
    BY FirstIs, LastIs DEF Population
  <2>4. QED BY <2>2, <2>3 DEF Population, Disjoint
<1>4. ASSUME NEW e \in Events(C)
      PROVE  /\ (\A s \in C : e # First(s)) => \E p \in Steps(C) : p[2] = e
             /\ (\A s \in C : e # Last(s)) => \E p \in Steps(C) : p[1] = e
  <2>1. PICK s \in C : e \in s
    BY DEF Events
  <2>2. e # First(s) => \E p \in Adjacent(s) : p[2] = e
    BY <2>1, StepInto DEF Population
  <2>3. e # Last(s) => \E p \in Adjacent(s) : p[1] = e
    BY <2>1, StepOut DEF Population
  <2>4. QED BY <2>1, <2>2, <2>3 DEF Steps
<1>5. IsFiniteSet(Of(C, a) \ Heads(C, a)) /\ IsFiniteSet(Of(C, a) \ Tails(C, a))
  BY ActivitiesFinite, FS_Difference
<1>6. Cardinality({p \in Steps(C) : p[2].act = a}) = Cardinality(Of(C, a) \ Heads(C, a))
  <2> DEFINE S == {p \in Steps(C) : p[2].act = a}
             T == Of(C, a) \ Heads(C, a)
             f == [p \in S |-> p[2]]
  <2>1. f \in [S -> T]
    BY <1>3, GraphFinite DEF Heads, Of
  <2>2. \A p, q \in S : f[p] = f[q] => p = q
    BY <1>2
  <2>3. \A e \in T : \E p \in S : f[p] = e
    BY <1>4 DEF Heads, Of
  <2> HIDE DEF f, S, T
  <2>4. Cardinality(S) = Cardinality(T)
    BY <1>5, <2>1, <2>2, <2>3, SameCount DEF T
  <2>5. QED BY <2>4 DEF S, T
<1>7. Cardinality({p \in Steps(C) : p[1].act = a}) = Cardinality(Of(C, a) \ Tails(C, a))
  <2> DEFINE S == {p \in Steps(C) : p[1].act = a}
             T == Of(C, a) \ Tails(C, a)
             f == [p \in S |-> p[1]]
  <2>1. f \in [S -> T]
    BY <1>3, GraphFinite DEF Tails, Of
  <2>2. \A p, q \in S : f[p] = f[q] => p = q
    BY <1>2
  <2>3. \A e \in T : \E p \in S : f[p] = e
    BY <1>4 DEF Tails, Of
  <2> HIDE DEF f, S, T
  <2>4. Cardinality(S) = Cardinality(T)
    BY <1>5, <2>1, <2>2, <2>3, SameCount DEF T
  <2>5. QED BY <2>4 DEF S, T
<1>8. QED BY <1>6, <1>7

(* Kirchhoff's law of the graph: what enters an activity leaves it.        *)
LEMMA InIsOut ==
  ASSUME NEW C, Population(C), NEW a
  PROVE  /\ Starts(C, a) + SumFunction([b \in Activities(C) |-> Cardinality(Edge(C, b, a))])
              = Frequency(C, a)
         /\ Ends(C, a) + SumFunction([b \in Activities(C) |-> Cardinality(Edge(C, a, b))])
              = Frequency(C, a)
<1> DEFINE into == {p \in Steps(C) : p[2].act = a}
           outof == {p \in Steps(C) : p[1].act = a}
           h == [p \in into |-> p[1].act]
           g == [p \in outof |-> p[2].act]
           K == Activities(C)
<1>1. IsFiniteSet(into) /\ IsFiniteSet(outof) /\ IsFiniteSet(K)
  BY GraphFinite, ActivitiesFinite, FS_Subset
<1>2. (\A p \in into : h[p] \in K) /\ (\A p \in outof : g[p] \in K)
  BY GraphFinite, ActivitiesFinite
<1>3. \A b : Keyed(into, h, b) = Edge(C, b, a) /\ Keyed(outof, g, b) = Edge(C, a, b)
  BY DEF Keyed, Edge
<1> HIDE DEF h, g, into, outof, K
<1>4. /\ Cardinality(into) = Sum(K, [b \in K |-> Cardinality(Keyed(into, h, b))])
      /\ Cardinality(outof) = Sum(K, [b \in K |-> Cardinality(Keyed(outof, g, b))])
  BY <1>1, <1>2, CountByKey
<1>5. /\ Cardinality(into) = SumFunction([b \in K |-> Cardinality(Edge(C, b, a))])
      /\ Cardinality(outof) = SumFunction([b \in K |-> Cardinality(Edge(C, a, b))])
  <2> DEFINE m == [b \in K |-> Cardinality(Edge(C, b, a))]
             n == [b \in K |-> Cardinality(Edge(C, a, b))]
  <2>1. m = [b \in K |-> m[b]] /\ n = [b \in K |-> n[b]]
    OBVIOUS
  <2>2. /\ [b \in K |-> Cardinality(Keyed(into, h, b))] = m
        /\ [b \in K |-> Cardinality(Keyed(outof, g, b))] = n
    BY <1>3
  <2> HIDE DEF m, n
  <2>3. Cardinality(into) = SumFunction(m) /\ Cardinality(outof) = SumFunction(n)
    BY <1>4, <2>1, <2>2, SumOf
  <2>4. QED BY <2>3 DEF m, n
<1>6. /\ Cardinality(into) = Cardinality(Of(C, a) \ Heads(C, a))
      /\ Cardinality(outof) = Cardinality(Of(C, a) \ Tails(C, a))
  BY StepsCount DEF into, outof
<1>7. ASSUME NEW H \in SUBSET Of(C, a)
      PROVE  Cardinality(H) + Cardinality(Of(C, a) \ H) = Frequency(C, a)
  <2>1. IsFiniteSet(H) /\ IsFiniteSet(Of(C, a) \ H)
    BY ActivitiesFinite, FS_Subset, FS_Difference
  <2>2. H \cup (Of(C, a) \ H) = Of(C, a) /\ H \cap (Of(C, a) \ H) = {}
    OBVIOUS
  <2>3. Cardinality(H \cup (Of(C, a) \ H)) = Cardinality(H) + Cardinality(Of(C, a) \ H)
    BY <2>1, <2>2, TwoParts
  <2>4. QED BY <2>2, <2>3 DEF Frequency
<1>8. Heads(C, a) \in SUBSET Of(C, a) /\ Tails(C, a) \in SUBSET Of(C, a)
  BY DEF Heads, Tails
<1>9. QED BY <1>5, <1>6, <1>7, <1>8, HeadsCount DEF K

LEMMA FrequenciesAddUp ==
  ASSUME NEW C, Population(C)
  PROVE  SumFunction([a \in Activities(C) |-> Frequency(C, a)]) = Cardinality(Events(C))
<1> DEFINE S == Events(C)
           K == Activities(C)
           h == [e \in S |-> e.act]
           n == [a \in K |-> Frequency(C, a)]
<1>1. IsFiniteSet(S) /\ IsFiniteSet(K) /\ \A e \in S : h[e] \in K
  BY ActivitiesFinite DEF Population
<1>2. \A a \in K : Cardinality(Keyed(S, h, a)) = Frequency(C, a)
  <2>1. \A a \in K : Keyed(S, h, a) = Of(C, a)
    BY DEF Keyed, Of
  <2>2. QED BY <2>1 DEF Frequency
<1>3. [a \in K |-> Cardinality(Keyed(S, h, a))] = n /\ n = [a \in K |-> n[a]]
  BY <1>2
<1> HIDE DEF S, K, h, n
<1>4. Cardinality(S) = Sum(K, n)
  BY <1>1, <1>3, CountByKey
<1>5. QED BY <1>3, <1>4, SumOf DEF S, K, n

LEMMA VariantsFinite ==
  ASSUME NEW C, Population(C)
  PROVE  IsFiniteSet(Variants(C)) /\ \A s \in C : Variant(s) \in Variants(C)
<1> DEFINE f == [s \in C |-> Variant(s)]
<1>1. f \in Surjection(C, Variants(C))
  BY DEF Surjection, Variants
<1> HIDE DEF f
<1>2. IsFiniteSet(Variants(C))
  BY <1>1, FS_Surjection DEF Population
<1>3. QED BY <1>2 DEF Variants

LEMMA VariantsAddUp ==
  ASSUME NEW C, Population(C)
  PROVE  SumFunction([v \in Variants(C) |-> VariantCount(C, v)]) = Cardinality(C)
<1> DEFINE K == Variants(C)
           h == [s \in C |-> Variant(s)]
           n == [v \in K |-> VariantCount(C, v)]
<1>1. IsFiniteSet(C) /\ IsFiniteSet(K) /\ \A s \in C : h[s] \in K
  BY VariantsFinite DEF Population
<1>2. \A v \in K : Cardinality(Keyed(C, h, v)) = VariantCount(C, v)
  <2>1. \A v \in K : Keyed(C, h, v) = {s \in C : Variant(s) = v}
    BY DEF Keyed
  <2>2. QED BY <2>1 DEF VariantCount
<1>3. [v \in K |-> Cardinality(Keyed(C, h, v))] = n /\ n = [v \in K |-> n[v]]
  BY <1>2
<1> HIDE DEF K, h, n
<1>4. Cardinality(C) = Sum(K, n)
  BY <1>1, <1>3, CountByKey
<1>5. QED BY <1>3, <1>4, SumOf DEF K, n

(* A variant of k activities is k - 1 steps, each time it occurs.          *)
LEMMA VariantLength ==
  ASSUME NEW s, Line(s)
  PROVE  Len(Variant(s)) = Cardinality(s) /\ Cardinality(s) \in Nat
<1> DEFINE k == Cardinality(s)
           A == {Nth(s, n).act : n \in 1 .. k}
<1>1. k \in Nat
  BY FS_CardinalityType DEF Line, Timed
<1>2. Variant(s) \in [1 .. k -> A]
  BY DEF Variant
<1> HIDE DEF k, A
<1>3. Variant(s) \in Seq(A) /\ DOMAIN Variant(s) = 1 .. k
  BY <1>1, <1>2
<1>4. QED BY <1>1, <1>3 DEF k

LEMMA StepsAddUp ==
  ASSUME NEW C, Population(C)
  PROVE  SumFunction([v \in Variants(C) |-> VariantCount(C, v) * (Len(v) - 1)])
           = Cardinality(Steps(C))
<1> DEFINE K == Variants(C)
           h == [s \in C |-> Variant(s)]
           n == [s \in C |-> Cardinality(s) - 1]
           q == [s \in C |-> Adjacent(s)]
           w == [v \in K |-> VariantCount(C, v) * (Len(v) - 1)]
<1>1. \A s \in C : Line(s) /\ n[s] = Cardinality(q[s])
  BY StepsFinite DEF Population
<1>2. /\ \A s \in C : q[s] \subseteq Steps(C)
      /\ \A p \in Steps(C) : \E s \in C : p \in q[s]
      /\ \A s, t \in C : s # t => q[s] \cap q[t] = {}
  <2>1. \A s, t \in C : s # t => Adjacent(s) \cap Adjacent(t) = {}
    BY StepsApart
  <2>2. QED BY <2>1 DEF Steps
<1>3. IsFiniteSet(Steps(C)) /\ IsFiniteSet(C) /\ IsFiniteSet(K) /\ \A s \in C : h[s] \in K
  BY GraphFinite, VariantsFinite DEF Population
<1>4. \A s \in C : /\ Cardinality(s) \in Nat /\ h[s] = Variant(s)
                   /\ n[s] = Len(Variant(s)) - 1 /\ n[s] \in Int
  BY <1>1, VariantLength
<1>5. n = [s \in C |-> n[s]] /\ w = [v \in K |-> w[v]]
  OBVIOUS
<1>6. \A v \in K : w[v] = VariantCount(C, v) * (Len(v) - 1)
  OBVIOUS
<1>7. \A v \in K : Keyed(C, h, v) = {s \in C : Variant(s) = v}
  BY DEF Keyed
<1>8. K = {Variant(s) : s \in C}
  BY DEF Variants
<1> HIDE DEF K, h, n, q, w
<1>9. Cardinality(Steps(C)) = Sum(C, n)
  <2>1. Cardinality(Steps(C)) = SumFunction(n)
    BY <1>1, <1>2, <1>3, <1>5, CountPieces
  <2>2. QED BY <1>5, <2>1, SumOf
<1>10. Weighed(C, n)
  BY <1>3, <1>4 DEF Weighed
<1>11. Sum(C, n) = Sum(K, [v \in K |-> Sum(Keyed(C, h, v), n)])
  BY <1>3, <1>10, SumByKey
<1>12. ASSUME NEW v \in K
       PROVE  Sum(Keyed(C, h, v), n) = w[v]
  <2> DEFINE P == Keyed(C, h, v)
             c == Len(v) - 1
  <2>1. P \in SUBSET C
    BY DEF Keyed
  <2>2. IsFiniteSet(P)
    BY <1>3, <2>1, FS_Subset
  <2>3. \A s \in P : n[s] = c
    BY <1>4, <1>7
  <2>4. c \in Int
    BY <1>4, <1>8
  <2>5. w[v] = Cardinality(P) * c
    BY <1>6, <1>7 DEF VariantCount
  <2> HIDE DEF P, c
  <2>6. Sum(P, n) = Cardinality(P) * c
    BY <2>2, <2>3, <2>4, SumEqual
  <2>7. QED BY <2>5, <2>6 DEF P
<1>13. [v \in K |-> Sum(Keyed(C, h, v), n)] = w
  BY <1>5, <1>12
<1>14. QED BY <1>5, <1>9, <1>11, <1>13, SumOf DEF K, w

(* Time by application adds up to all time.                                *)
LEMMA UsageAddsUp ==
  ASSUME NEW C, Population(C)
  PROVE  /\ Total({e.app : e \in Events(C)}, LAMBDA x : AppUsage(C, x))
              = Total(Events(C), Interval)
         /\ Total(Events(C), Interval) \in Int
<1> DEFINE S == Events(C)
           K == {e.app : e \in S}
           h == [e \in S |-> e.app]
           m == [e \in S |-> Interval(e)]
           w == [x \in K |-> AppUsage(C, x)]
<1>1. IsFiniteSet(K)
  <2>1. h \in Surjection(S, K)
    BY DEF Surjection
  <2> HIDE DEF h, K
  <2>2. QED BY <2>1, FS_Surjection DEF Population
<1>2. \A e \in S : h[e] \in K
  OBVIOUS
<1>3. Weighed(S, m)
  <2>1. \A e \in S : Interval(e) \in Int
    <3> SUFFICES ASSUME NEW e \in S
                 PROVE  Interval(e) \in Int
      OBVIOUS
    <3>1. PICK s \in C : e \in s
      BY DEF Events
    <3>2. e.start \in Nat /\ e.end \in Nat
      BY <3>1, LineOrder DEF Population
    <3>3. QED BY <3>2 DEF Interval
  <2>2. QED BY <2>1 DEF Weighed, Population
<1>4. ASSUME NEW x \in K
      PROVE  Sum(Keyed(S, h, x), m) = AppUsage(C, x)
  <2>1. Keyed(S, h, x) = {e \in Events(C) : e.app = x}
    BY DEF Keyed
  <2>2. [e \in Keyed(S, h, x) |-> m[e]] = [e \in {f \in Events(C) : f.app = x} |-> Interval(e)]
    BY <2>1
  <2>3. QED BY <2>2 DEF Sum, AppUsage, Total
<1>5. [x \in K |-> Sum(Keyed(S, h, x), m)] = w
  BY <1>4
<1>6. w = [x \in K |-> w[x]] /\ m = [e \in S |-> m[e]]
  OBVIOUS
<1> HIDE DEF K, h, m, w, S
<1>7. Sum(S, m) = Sum(K, w) /\ Sum(S, m) \in Int
  BY <1>1, <1>2, <1>3, <1>5, SumByKey, SumWhole
<1>8. SumFunction(m) = SumFunction(w) /\ SumFunction(m) \in Int
  BY <1>6, <1>7, SumOf
<1>9. QED BY <1>8 DEF K, m, w, S, Total

(* What is repeated is frequent.                                           *)
LEMMA RepeatedIsFrequent ==
  ASSUME NEW C, Population(C), NEW a, NEW b
  PROVE  /\ Cardinality(Edge(C, a, b)) =< Frequency(C, a)
         /\ Cardinality(Edge(C, a, b)) =< Frequency(C, b)
         /\ Cardinality(Edge(C, a, b)) \in Nat
<1> DEFINE S == Edge(C, a, b)
           f == [p \in S |-> p[1]]
           g == [p \in S |-> p[2]]
<1>1. \A p, q \in Steps(C) : p[1] = q[1] \/ p[2] = q[2] => p = q
  BY StepsApart DEF Steps
<1>2. S \in SUBSET Steps(C)
  BY DEF Edge
<1>3. IsFiniteSet(S)
  BY <1>2, GraphFinite, FS_Subset
<1>4. f \in [S -> Of(C, a)] /\ g \in [S -> Of(C, b)]
  BY GraphFinite DEF Edge, Of
<1>5. \A p, q \in S : (f[p] = f[q] => p = q) /\ (g[p] = g[q] => p = q)
  BY <1>1, <1>2
<1> HIDE DEF f, g, S
<1>6. f \in Injection(S, Of(C, a)) /\ g \in Injection(S, Of(C, b))
  BY <1>4, <1>5 DEF Injection, IsInjective
<1>7. Cardinality(S) =< Cardinality(Of(C, a)) /\ Cardinality(S) =< Cardinality(Of(C, b))
  BY <1>6, ActivitiesFinite, FS_Injection
<1>8. QED BY <1>3, <1>7, FS_CardinalityType DEF S, Frequency

LEMMA MostFrequent ==
  ASSUME NEW C, Population(C), NEW a \in Activities(C)
  PROVE  LET most == Max({Frequency(C, b) : b \in Activities(C)})
         IN  most \in Nat /\ Frequency(C, a) =< most
<1> DEFINE F == {Frequency(C, b) : b \in Activities(C)}
           f == [b \in Activities(C) |-> Frequency(C, b)]
<1>1. f \in Surjection(Activities(C), F)
  BY DEF Surjection
<1>2. F \subseteq Nat /\ Frequency(C, a) \in F
  BY ActivitiesFinite
<1> HIDE DEF f, F
<1>3. IsFiniteSet(F)
  BY <1>1, ActivitiesFinite, FS_Surjection
<1>4. F \subseteq Int /\ F # {}
  BY <1>2
<1>5. Max(F) \in F /\ \A x \in F : Max(F) >= x
  BY <1>3, <1>4, FiniteMax
<1>6. Max(F) \in Nat /\ Frequency(C, a) =< Max(F)
  BY <1>2, <1>5
<1>7. QED BY <1>6 DEF F

LEMMA MinOfTwo ==
  ASSUME NEW x \in Int, NEW y \in Int
  PROVE  Min({x, y}) \in {x, y} /\ Min({x, y}) =< x /\ Min({x, y}) =< y
<1>1. \E m \in {x, y} : \A z \in {x, y} : m =< z
  OBVIOUS
<1>2. QED BY <1>1 DEF Min

(* The automation score is at most a hundred.                              *)
LEMMA ScoreBounded ==
  ASSUME NEW C, Population(C), NEW a \in Activities(C), NEW words
  PROVE  AutomationScore(C, a, words) =<
           200 * Max({Frequency(C, b) : b \in Activities(C)})
<1> DEFINE most == Max({Frequency(C, b) : b \in Activities(C)})
           n == Frequency(C, a)
           k == Min({n, 3})
           rule == IF a \in words.rule THEN 40 ELSE 16
           hand == IF a \in Handovers(C) THEN 30 ELSE 9
           move == IF a \in words.transfer THEN 30 ELSE 9
<1>1. most \in Nat /\ n \in Nat /\ n =< most
  BY MostFrequent, ActivitiesFinite
<1>2. /\ rule \in {16, 40} /\ hand \in {9, 30} /\ move \in {9, 30}
  OBVIOUS
<1>3. AutomationScore(C, a, words) =
        20 * k * most + 40 * n + rule * most + hand * most + move * most
  BY DEF AutomationScore
<1> HIDE DEF most, n, rule, hand, move
<1>4. k \in {0, 1, 2, 3}
  <2>1. n \in Int /\ 3 \in Int
    BY <1>1
  <2>2. k \in {n, 3} /\ k =< n /\ k =< 3
    BY <2>1, MinOfTwo
  <2> HIDE DEF k
  <2>3. QED BY <1>1, <2>2
<1> HIDE DEF k
<1>5. 20 * k * most =< 60 * most
  BY <1>1, <1>4
<1>6. rule * most =< 40 * most /\ hand * most =< 30 * most /\ move * most =< 30 * most
  BY <1>1, <1>2
<1>7. /\ 20 * k * most \in Int /\ rule * most \in Int
      /\ hand * most \in Int /\ move * most \in Int
  BY <1>1, <1>2, <1>4
<1>8. 20 * k * most + 40 * n + rule * most + hand * most + move * most =< 200 * most
  BY <1>1, <1>5, <1>6, <1>7
<1>9. QED BY <1>3, <1>8 DEF most

(* With one activity, all that is ranked is whether it is slow.            *)
LEMMA OneBottleneck ==
  ASSUME NEW C, Population(C), Cardinality(Activities(C)) = 1
  PROVE  Bottlenecks(C) = {} <=>
           Total(Events(C), Interval) < Slow * Cardinality(Events(C))
<1>1. PICK a : Activities(C) = {a}
  BY ActivitiesFinite, FS_Singleton
<1>2. Of(C, a) = Events(C) /\ Frequency(C, a) = Cardinality(Events(C))
  BY <1>1 DEF Of, Activities, Frequency
<1> DEFINE all == Total(Events(C), Interval)
           k == Cardinality(Events(C))
<1>3. all \in Int /\ k \in Nat /\ Slow \in Nat
  BY UsageAddsUp, FS_CardinalityType, AnalysisAssumption DEF Population
<1>4. Bottlenecks(C) = {b \in {a} : /\ Total(Of(C, b), Interval) * k >= all * Frequency(C, b)
                                    /\ Total(Of(C, b), Interval) >= Slow * Frequency(C, b)}
  BY <1>1 DEF Bottlenecks
<1>5. Total(Of(C, a), Interval) = all
  BY <1>2
<1> HIDE DEF all, k
<1>6. Bottlenecks(C) = {b \in {a} : all * k >= all * k /\ all >= Slow * k}
  BY <1>2, <1>4, <1>5 DEF k
<1>7. all * k \in Int /\ Slow * k \in Int
  BY <1>3
<1>8. Bottlenecks(C) = {} <=> ~(all >= Slow * k)
  BY <1>6, <1>7
<1>9. QED BY <1>3, <1>7, <1>8 DEF all, k
-----------------------------------------------------------------------------
(* One event in the place of two that follow each other within the gap.    *)

Joins(m, l, r, gap) ==
    /\ {m.start, m.end, l.start, l.end, r.start, r.end} \subseteq Nat
    /\ m.start = l.start /\ m.end = r.end
    /\ l.start < l.end /\ l.end =< r.start /\ r.start < r.end
    /\ r.start - l.end =< gap

LEMMA JoinedOpens ==
  ASSUME NEW A, \A f \in A : f.start \in Nat /\ f.end \in Nat,
         NEW gap \in Nat, NEW m, NEW l, NEW r, Joins(m, l, r, gap)
  PROVE  /\ Opens(A \cup {m}, gap) = Opens(A \cup {l, r}, gap)
         /\ \A t \in Opens(A \cup {m}, gap) : t =< r.start => t =< l.start
<1> DEFINE S == A \cup {m}
           T == A \cup {l, r}
           After(t, f) == f.start < t => t - f.end > gap
<1>1. /\ Opens(S, gap) = {t \in {e.start : e \in S} : \A f \in S : After(t, f)}
      /\ Opens(T, gap) = {t \in {e.start : e \in T} : \A f \in T : After(t, f)}
  BY DEF Opens
<1>2. \A t \in Nat : After(t, m) => After(t, l) /\ After(t, r)
  BY DEF Joins
<1>3. \A t \in Nat : After(t, l) /\ After(t, r) => After(t, m)
  BY DEF Joins
<1>4. \A t \in Nat : After(t, m) /\ t =< r.start => t =< l.start
  BY DEF Joins
<1>5. {e.start : e \in S} \subseteq Nat /\ {e.start : e \in T} \subseteq Nat
  BY DEF Joins
<1>6. m \in S /\ l \in T /\ r \in T /\ m.start = l.start
      /\ l.start \in Nat /\ r.start \in Nat /\ l.start < r.start
  BY DEF Joins
<1> HIDE DEF After
<1>7. ASSUME NEW t \in Opens(S, gap)
      PROVE  t \in Opens(T, gap)
  <2>1. t \in {e.start : e \in T}
    BY <1>1, <1>6
  <2>2. t \in Nat /\ After(t, m) /\ \A f \in A : After(t, f)
    BY <1>1, <1>5
  <2>3. \A f \in T : After(t, f)
    BY <1>2, <2>2
  <2> HIDE DEF S, T
  <2>4. QED BY <1>1, <2>1, <2>3
<1>8. ASSUME NEW t \in Opens(T, gap)
      PROVE  t \in Opens(S, gap)
  <2>1. t \in Nat /\ After(t, l) /\ After(t, r) /\ \A f \in A : After(t, f)
    BY <1>1, <1>5
  <2>2. After(t, m)
    BY <1>3, <2>1
  <2>3. t # r.start
    BY <1>4, <1>6, <2>2
  <2>4. t \in {e.start : e \in S}
    BY <1>1, <1>6, <2>3
  <2>5. \A f \in S : After(t, f)
    BY <2>1, <2>2
  <2> HIDE DEF S, T
  <2>6. QED BY <1>1, <2>4, <2>5
<1>9. \A t \in Opens(S, gap) : t =< r.start => t =< l.start
  BY <1>1, <1>4, <1>5
<1>10. QED BY <1>7, <1>8, <1>9

(* Nothing overlaps the joined event unless it overlaps a part, as long as *)
(* nothing lies between the parts.                                         *)
LEMMA JoinedOverlaps ==
  ASSUME NEW A, Timed(A), NEW gap, NEW m, NEW l, NEW r, Joins(m, l, r, gap),
         {m, l, r} \cap A = {},
         \A f \in A : ~(l.end =< f.start /\ f.end =< r.start)
  PROVE  Overlaps(A \cup {m}) <=> Overlaps(A \cup {l, r})
<1> DEFINE Meet(e, f) == e.start < f.end /\ f.start < e.end
<1>1. \A f \in A : f.start \in Nat /\ f.end \in Nat /\ f.start < f.end
  BY DEF Timed
<1>2. \A f \in A : Meet(f, m) <=> Meet(f, l) \/ Meet(f, r)
  BY <1>1 DEF Joins
<1>3. ~Meet(l, r)
  BY DEF Joins
<1>4. Meet(m, m) /\ Meet(l, l) /\ Meet(r, r)
  BY DEF Joins
<1>5. \A s : Overlaps(s) <=> \E e, f \in s : e # f /\ Meet(e, f)
  BY DEF Overlaps
<1>6. \A e, f : Meet(e, f) <=> Meet(f, e)
  OBVIOUS
<1> HIDE DEF Meet
<1> DEFINE Apart == ~\E e, f \in A : e # f /\ Meet(e, f)
<1>7. Overlaps(A \cup {m}) <=> ~Apart \/ \E f \in A : Meet(f, m)
  BY <1>5, <1>6
<1>8. Overlaps(A \cup {l, r}) <=> ~Apart \/ \E f \in A : Meet(f, l) \/ Meet(f, r)
  BY <1>3, <1>5, <1>6
<1>9. QED BY <1>2, <1>7, <1>8

(* Events X of a case make way for events Y, and no session begins at      *)
(* another instant: every other session stays.                             *)
Yields(E, X, x, F, Y, y, gap) ==
    /\ x \in X /\ y \in Y /\ X \subseteq Eligible(E) /\ Y \subseteq Eligible(F)
    /\ Eligible(E) \ X = Eligible(F) \ Y
    /\ \A z \in X \cup Y : /\ BaseCase(z) = BaseCase(x)
                          /\ Began(Companions(E, x), gap, z) = Began(Companions(E, x), gap, x)
    /\ Opens(Companions(E, x), gap) = Opens(Companions(F, y), gap)

LEMMA OthersStay ==
  ASSUME NEW E, NEW X, NEW x, NEW F, NEW Y, NEW y, NEW gap, Yields(E, X, x, F, Y, y, gap),
         NEW S, S = Companions(E, x), NEW T, T = Companions(F, y)
  PROVE  /\ X \subseteq Session(S, gap, x) /\ Y \subseteq Session(T, gap, y)
         /\ Session(S, gap, x) \ X = Session(T, gap, y) \ Y
         /\ \A s \in Sessions(E, gap) : s # Session(S, gap, x) =>
               s \in Sessions(F, gap) /\ s # Session(T, gap, y)
<1>0. /\ x \in X /\ y \in Y /\ X \subseteq Eligible(E) /\ Y \subseteq Eligible(F)
      /\ Eligible(E) \ X = Eligible(F) \ Y
      /\ \A z \in X \cup Y : BaseCase(z) = BaseCase(x) /\ Began(S, gap, z) = Began(S, gap, x)
      /\ Opens(S, gap) = Opens(T, gap)
  BY DEF Yields
<1> DEFINE s1 == Session(S, gap, x)
           s2 == Session(T, gap, y)
           B(f) == Began(S, gap, f)
<1>1. \A f : Began(T, gap, f) = B(f)
  BY <1>0 DEF Began
<1>2. X \subseteq S /\ Y \subseteq T /\ S \ X = T \ Y
  BY <1>0 DEF Companions
<1>3. s1 = {f \in S : B(f) = B(x)} /\ s2 = {f \in T : B(f) = B(x)}
  <2>1. s1 = {f \in S : Began(S, gap, f) = Began(S, gap, x)}
    BY SessionIs
  <2>2. s2 = {f \in T : Began(T, gap, f) = Began(T, gap, y)}
    BY SessionIs
  <2>3. QED BY <1>0, <1>1, <2>1, <2>2
<1>4. \A z \in X \cup Y : B(z) = B(x)
  BY <1>0
<1>5. \A f \in Eligible(E) : BaseCase(f) = BaseCase(x) => Companions(E, f) = S
  BY DEF Companions
<1>6. \A f \in Eligible(F) : BaseCase(f) = BaseCase(x) => Companions(F, f) = T
  BY <1>0 DEF Companions
<1> HIDE DEF B, s1, s2
<1>7. X \subseteq s1 /\ Y \subseteq s2 /\ s1 \ X = s2 \ Y
  BY <1>2, <1>3, <1>4
<1>8. ASSUME NEW s \in Sessions(E, gap), s # s1
      PROVE  s \in Sessions(F, gap) /\ s # s2
  <2>1. PICK c \in Eligible(E) : \E f \in Companions(E, c) : s = Session(Companions(E, c), gap, f)
    BY SessionsAre
  <2>2. PICK f \in Companions(E, c) : s = Session(Companions(E, c), gap, f)
    BY <2>1
  <2>3. f \in Eligible(E) /\ f \in s /\ BaseCase(f) = BaseCase(c)
        /\ Companions(E, f) = Companions(E, c)
    BY <2>2, SessionIs DEF Companions
  <2>4. s = Session(Companions(E, f), gap, f)
    BY <2>2, <2>3
  <2>5. CASE BaseCase(f) = BaseCase(x)
    <3>1. Companions(E, f) = S /\ f \in S
      BY <1>0, <1>5, <2>2, <2>3, <2>5
    <3>2. s = {g \in S : B(g) = B(f)}
      BY <2>4, <3>1, SessionIs DEF B
    <3>3. B(f) # B(x)
      BY <1>3, <1>8, <3>2
    <3>4. s = {g \in T : B(g) = B(f)} /\ f \in T
      BY <1>0, <1>2, <1>4, <3>1, <3>2, <3>3
    <3>5. f \in Eligible(F) /\ Companions(F, f) = T
      <4>1. T \subseteq Eligible(F)
        BY DEF Companions
      <4>2. QED BY <1>6, <2>5, <3>4, <4>1
    <3>6. s = Session(Companions(F, f), gap, f)
      <4>1. Session(T, gap, f) = {g \in T : Began(T, gap, g) = Began(T, gap, f)}
        BY SessionIs
      <4>2. QED BY <1>1, <3>4, <3>5, <4>1
    <3>7. s \in Sessions(F, gap)
      BY <3>5, <3>6, SessionsAre
    <3>8. s # s2
      BY <1>0, <1>4, <1>7, <3>2, <3>3
    <3>9. QED BY <3>7, <3>8
  <2>6. CASE BaseCase(f) # BaseCase(x)
    <3>1. Companions(F, f) = Companions(E, f)
      <4>1. \A g : g \in X \cup Y => BaseCase(g) # BaseCase(f)
        BY <1>0, <2>6
      <4>2. QED BY <1>0, <4>1 DEF Companions
    <3>2. f \in Eligible(F)
      BY <1>0, <2>3, <2>6
    <3>3. s \in Sessions(F, gap)
      BY <2>4, <3>1, <3>2, SessionsAre
    <3>4. y \notin s
      <4>1. s \subseteq Companions(E, f)
        BY <2>4, SessionIs
      <4>2. QED BY <1>0, <2>6, <4>1 DEF Companions
    <3>5. QED BY <1>0, <1>7, <3>3, <3>4
  <2>7. QED BY <2>5, <2>6
<1>9. QED BY <1>7, <1>8 DEF s1, s2

Joined(E, m, F, l, r, gap) ==
    /\ m \in Eligible(E) /\ l \in Eligible(F) /\ r \in Eligible(F)
    /\ Joins(m, l, r, gap)
    /\ Eligible(E) \ {m} = Eligible(F) \ {l, r}
    /\ BaseCase(l) = BaseCase(m) /\ BaseCase(r) = BaseCase(m)
    /\ \A f \in Eligible(E) \ {m} : BaseCase(f) = BaseCase(m) =>
          ~(l.end =< f.start /\ f.end =< r.start)

(* The session of the joined event and that of the two: the same but for   *)
(* them, and one is a case of the analysis if the other is.                *)
LEMMA JoinedCases ==
  ASSUME NEW E, Whole(E), NEW F, Whole(F), NEW gap \in Nat,
         NEW m, NEW l, NEW r, Joined(E, m, F, l, r, gap)
  PROVE  \E s \in Sessions(E, gap), t \in Sessions(F, gap) :
            /\ m \in s /\ l \in t /\ r \in t /\ s \ {m} = t \ {l, r}
            /\ s \in Cases(E, gap) <=> t \in Cases(F, gap)
            /\ Cases(E, gap) \ {s} = Cases(F, gap) \ {t}
<1> DEFINE S == Companions(E, m)
           T == Companions(F, l)
           A == S \ {m}
           s == Session(S, gap, m)
           t == Session(T, gap, l)
           X == {m}
           Y == {l, r}
<1>0. /\ m \in Eligible(E) /\ l \in Eligible(F) /\ r \in Eligible(F)
      /\ Joins(m, l, r, gap)
      /\ Eligible(E) \ {m} = Eligible(F) \ {l, r}
      /\ BaseCase(l) = BaseCase(m) /\ BaseCase(r) = BaseCase(m)
      /\ \A f \in Eligible(E) \ {m} : BaseCase(f) = BaseCase(m) =>
            ~(l.end =< f.start /\ f.end =< r.start)
  BY DEF Joined
<1>1. S = A \cup {m} /\ T = A \cup {l, r} /\ m \in S /\ l \in T /\ r \in T
  BY <1>0 DEF Companions
<1>2. Timed(S) /\ Timed(T)
  BY BaseCaseTimed
<1>3. \A f \in A : f.start \in Nat /\ f.end \in Nat
  BY <1>2 DEF Timed
<1>4. /\ Opens(S, gap) = Opens(T, gap)
      /\ \A o \in Opens(S, gap) : o =< r.start => o =< l.start
  <2>1. S = A \cup {m} /\ T = A \cup {l, r}
    BY <1>1
  <2> HIDE DEF S, T, A
  <2>2. /\ Opens(A \cup {m}, gap) = Opens(A \cup {l, r}, gap)
        /\ \A o \in Opens(A \cup {m}, gap) : o =< r.start => o =< l.start
    BY <1>0, <1>3, JoinedOpens
  <2>3. QED BY <2>1, <2>2
<1>5. Began(S, gap, l) = Began(S, gap, m) /\ Began(S, gap, r) = Began(S, gap, m)
  <2>1. l.start = m.start /\ l.start \in Nat /\ r.start \in Nat /\ l.start =< r.start
    BY <1>0 DEF Joins
  <2>2. Opens(S, gap) \subseteq Nat
    BY <1>2 DEF Opens, Timed
  <2>3. {o \in Opens(S, gap) : o =< r.start} = {o \in Opens(S, gap) : o =< l.start}
    <3> HIDE DEF S
    <3>1. \A o \in Opens(S, gap) : o =< l.start => o =< r.start
      BY <2>1, <2>2
    <3>2. QED BY <1>4, <3>1
  <2>4. QED BY <2>1, <2>3 DEF Began
<1>6. Yields(E, X, m, F, Y, l, gap) /\ Yields(F, Y, l, E, X, m, gap)
  <2>1. \A z : Began(T, gap, z) = Began(S, gap, z)
    BY <1>4 DEF Began
  <2>2. \A z \in X \cup Y : /\ BaseCase(z) = BaseCase(m) /\ BaseCase(z) = BaseCase(l)
                            /\ Began(S, gap, z) = Began(S, gap, m)
                            /\ Began(T, gap, z) = Began(T, gap, l)
    BY <1>0, <1>5, <2>1
  <2>3. /\ m \in X /\ l \in Y /\ X \subseteq Eligible(E) /\ Y \subseteq Eligible(F)
        /\ Eligible(E) \ X = Eligible(F) \ Y
    BY <1>0
  <2> HIDE DEF X, Y
  <2>4. QED BY <1>4, <2>2, <2>3 DEF Yields
<1> HIDE DEF X, Y
<1>8. /\ X \subseteq s /\ Y \subseteq t /\ s \ X = t \ Y
      /\ \A c \in Sessions(E, gap) : c # s => c \in Sessions(F, gap) /\ c # t
  BY <1>6, OthersStay
<1>9. \A c \in Sessions(F, gap) : c # t => c \in Sessions(E, gap) /\ c # s
  BY <1>6, OthersStay
<1>10. s \in Sessions(E, gap) /\ t \in Sessions(F, gap)
  BY <1>0, SessionsAre
<1>11. Overlaps(s) <=> Overlaps(t)
  <2> DEFINE R == s \ {m}
  <2>1. R \subseteq A /\ s = R \cup {m} /\ t = R \cup {l, r}
    <3>1. R \subseteq A
      BY SessionIs
    <3>2. QED BY <1>8, <3>1 DEF X, Y
  <2>2. Timed(R)
    <3>1. R \in SUBSET S
      BY <2>1
    <3>2. IsFiniteSet(R)
      BY <1>2, <3>1, FS_Subset DEF Timed
    <3>3. QED BY <1>2, <3>1, <3>2 DEF Timed
  <2>3. {m, l, r} \cap R = {}
    BY <1>8 DEF X, Y
  <2>4. \A f \in R : ~(l.end =< f.start /\ f.end =< r.start)
    BY <1>0, <2>1 DEF Companions
  <2> HIDE DEF R, s, t
  <2>5. QED BY <1>0, <2>1, <2>2, <2>3, <2>4, JoinedOverlaps
<1> HIDE DEF s, t
<1>12. s \in Cases(E, gap) <=> t \in Cases(F, gap)
  BY <1>10, <1>11 DEF Cases
<1>13. Cases(E, gap) \ {s} = Cases(F, gap) \ {t}
  BY <1>8, <1>9 DEF Cases, s, t
<1>14. m \in s /\ l \in t /\ r \in t /\ s \ {m} = t \ {l, r}
  BY <1>8 DEF X, Y, s, t
<1>15. QED BY <1>10, <1>12, <1>13, <1>14

(* The case lasts as long.                                                 *)
LEMMA JoinedLasts ==
  ASSUME NEW s, Line(s), NEW t, Line(t), NEW gap, NEW m \in s, NEW l \in t, NEW r \in t,
         Joins(m, l, r, gap), s \ {m} = t \ {l, r}
  PROVE  ElapsedSeconds(s) = ElapsedSeconds(t)
<1>1. \A f \in s : f.start \in Nat /\ f.end \in Nat
  BY DEF Line, Timed
<1>2. \A f \in t : f.start \in Nat /\ f.end \in Nat
  BY DEF Line, Timed
<1>3. First(s) \in s /\ First(t) \in t /\ Last(s) \in s /\ Last(t) \in t
  BY FirstIs, LastIs
<1>4. /\ \A f \in s : First(s).start =< f.start
      /\ \A f \in t : First(t).start =< f.start
  <2>1. \A f \in s : \/ f = First(s)
                     \/ First(s).end =< f.start /\ First(s).start < First(s).end
    BY <1>3, FirstIs, LineOrder
  <2>2. \A f \in t : \/ f = First(t)
                     \/ First(t).end =< f.start /\ First(t).start < First(t).end
    BY <1>3, FirstIs, LineOrder
  <2>3. QED BY <1>1, <1>2, <1>3, <2>1, <2>2
<1>5. /\ \A f \in s : f.end =< Last(s).end
      /\ \A f \in t : f.end =< Last(t).end
  <2>1. \A f \in s : \/ f = Last(s)
                     \/ f.end =< Last(s).start /\ Last(s).start < Last(s).end
    BY <1>3, LastIs, LineOrder
  <2>2. \A f \in t : \/ f = Last(t)
                     \/ f.end =< Last(t).start /\ Last(t).start < Last(t).end
    BY <1>3, LastIs, LineOrder
  <2>3. QED BY <1>1, <1>2, <1>3, <2>1, <2>2
<1>6. /\ \A f \in s : \E g \in t : g.start = f.start
      /\ \A f \in s : \E g \in t : g.end = f.end
  BY DEF Joins
<1>7. /\ \A g \in t : \E f \in s : f.start =< g.start
      /\ \A g \in t : \E f \in s : g.end =< f.end
  <2>1. m.start =< l.start /\ m.start =< r.start /\ l.end =< m.end /\ r.end =< m.end
    BY DEF Joins
  <2>2. \A g \in t : g \in s \/ g = l \/ g = r
    OBVIOUS
  <2>3. \A g \in t : g.start =< g.start /\ g.end =< g.end
    BY <1>2
  <2>4. QED BY <2>1, <2>2, <2>3
<1>8. First(s).start = First(t).start
  <2>1. First(t).start =< First(s).start
    BY <1>3, <1>4, <1>6
  <2>2. PICK f \in s : f.start =< First(t).start
    BY <1>3, <1>7
  <2>3. First(s).start =< f.start
    BY <1>4
  <2>4. QED BY <1>1, <1>2, <1>3, <2>1, <2>2, <2>3
<1>9. Last(s).end = Last(t).end
  <2>1. Last(s).end =< Last(t).end
    BY <1>3, <1>5, <1>6
  <2>2. PICK f \in s : Last(t).end =< f.end
    BY <1>3, <1>7
  <2>3. f.end =< Last(s).end
    BY <1>5
  <2>4. QED BY <1>1, <1>2, <1>3, <2>1, <2>2, <2>3
<1>10. QED BY <1>8, <1>9 DEF ElapsedSeconds

(* What the receipt says of either.                                        *)
LEMMA JoinedUse ==
  ASSUME NEW E, Whole(E), NEW F, Whole(F), NEW gap \in Nat,
         NEW m, NEW l, NEW r, Joined(E, m, F, l, r, gap),
         m \in Used(E, gap) \/ l \in Used(F, gap)
  PROVE  /\ m \in Used(E, gap) /\ l \in Used(F, gap) /\ r \in Used(F, gap)
         /\ Used(E, gap) \ {m} = Used(F, gap) \ {l, r}
         /\ Receipt(E, gap).elapsed = Receipt(F, gap).elapsed
<1> DEFINE C == Cases(E, gap)
           D == Cases(F, gap)
<1>1. PICK s \in Sessions(E, gap), t \in Sessions(F, gap) :
            /\ m \in s /\ l \in t /\ r \in t /\ s \ {m} = t \ {l, r}
            /\ s \in C <=> t \in D
            /\ C \ {s} = D \ {t}
  BY JoinedCases
<1>0. Joins(m, l, r, gap)
  BY DEF Joined
<1>2. C \subseteq Sessions(E, gap) /\ D \subseteq Sessions(F, gap)
  BY DEF Cases
<1>3. s \in C /\ t \in D
  <2>1. CASE m \in Used(E, gap)
    <3>1. PICK c \in C : m \in c
      BY <2>1 DEF Used
    <3>2. c = s
      BY <1>1, <1>2, <3>1, OneSession
    <3>3. QED BY <1>1, <3>1, <3>2
  <2>2. CASE l \in Used(F, gap)
    <3>1. PICK c \in D : l \in c
      BY <2>2 DEF Used
    <3>2. c = t
      BY <1>1, <1>2, <3>1, OneSession
    <3>3. QED BY <1>1, <3>1, <3>2
  <2>3. QED BY <2>1, <2>2
<1>4. /\ Population(C) /\ Population(D)
  BY CasesArePopulation
<1>5. Used(E, gap) = UNION C /\ Used(F, gap) = UNION D
  BY DEF Used
<1> HIDE DEF C, D
<1>6. UNION C = s \cup UNION (C \ {s}) /\ UNION D = t \cup UNION (C \ {s})
  BY <1>1, <1>3
<1>7. /\ s \cap UNION (C \ {s}) = {} /\ t \cap UNION (C \ {s}) = {}
  BY <1>1, <1>3, <1>4 DEF Population, Disjoint
<1>8. Used(E, gap) \ {m} = Used(F, gap) \ {l, r}
  BY <1>1, <1>5, <1>6, <1>7
<1>9. m \in Used(E, gap) /\ l \in Used(F, gap) /\ r \in Used(F, gap)
  BY <1>1, <1>5, <1>6
<1>10. ElapsedSeconds(s) = ElapsedSeconds(t)
  <2>1. Line(s) /\ Line(t)
    BY <1>3, <1>4 DEF Population
  <2>2. QED BY <1>0, <1>1, <2>1, JoinedLasts
<1>11. Total(C, ElapsedSeconds) = Total(D, ElapsedSeconds)
  <2> DEFINE n == [c \in C \cup D |-> ElapsedSeconds(c)]
  <2>1. Total(C, ElapsedSeconds) = Sum(C, n) /\ Total(D, ElapsedSeconds) = Sum(D, n)
    <3>1. [c \in C |-> n[c]] = [c \in C |-> ElapsedSeconds(c)]
          /\ [c \in D |-> n[c]] = [c \in D |-> ElapsedSeconds(c)]
      OBVIOUS
    <3>2. QED BY <3>1 DEF Total, Sum
  <2>2. \A c \in C \cup D : n[c] \in Int
    BY <1>4, LineFinite DEF Population, ElapsedSeconds
  <2>3. Weighed(C, n) /\ Weighed(D, n)
    BY <1>4, <2>2 DEF Weighed, Population
  <2>4. n[s] = n[t]
    BY <1>3, <1>10
  <2> HIDE DEF n
  <2>5. Sum(C, n) = n[s] + Sum(C \ {s}, n) /\ Sum(D, n) = n[t] + Sum(D \ {t}, n)
    BY <1>3, <2>3, SumWithout
  <2>6. QED BY <1>1, <2>1, <2>4, <2>5
<1>12. QED BY <1>8, <1>9, <1>11 DEF Receipt, C, D

(* Two events that meet are active as long as the joined one.              *)
LEMMA JoinedRaw ==
  ASSUME NEW U, IsFiniteSet(U), NEW V, IsFiniteSet(V), \A e \in U \cup V : Interval(e) \in Int,
         NEW m, NEW l, NEW r, Exchange(U, m, V, l, r),
         Interval(m) = Interval(l) + Interval(r)
  PROVE  Total(U, Interval) = Total(V, Interval)
<1> DEFINE n == [e \in U \cup V |-> Interval(e)]
<1>1. Total(U, Interval) = Sum(U, n) /\ Total(V, Interval) = Sum(V, n)
  <2>1. [e \in U |-> n[e]] = [e \in U |-> Interval(e)]
        /\ [e \in V |-> n[e]] = [e \in V |-> Interval(e)]
    OBVIOUS
  <2>2. QED BY <2>1 DEF Total, Sum
<1>2. Weighed(U, n) /\ Weighed(V, n) /\ n[m] = n[l] + n[r]
  BY DEF Weighed, Exchange
<1> HIDE DEF n
<1>3. QED BY <1>1, <1>2, SumExchange

(* Events that are a case each make way for others of that kind.           *)
Alone(E, X, F, Y) ==
    /\ X \subseteq Eligible(E) /\ Y \subseteq Eligible(F) /\ Eligible(E) \ X = Eligible(F) \ Y
    /\ \A x \in X : Companions(E, x) = {x}
    /\ \A y \in Y : Companions(F, y) = {y}

LEMMA AloneStay ==
  ASSUME NEW E, NEW X, NEW F, NEW Y, NEW gap, Alone(E, X, F, Y)
  PROVE  /\ \A x \in X : {x} \in Sessions(E, gap)
         /\ \A s \in Sessions(E, gap) : (\A x \in X : s # {x}) =>
               s \in Sessions(F, gap) /\ \A y \in Y : s # {y}
<1>0. /\ X \subseteq Eligible(E) /\ Y \subseteq Eligible(F) /\ Eligible(E) \ X = Eligible(F) \ Y
      /\ \A x \in X : Companions(E, x) = {x}
      /\ \A y \in Y : Companions(F, y) = {y}
  BY DEF Alone
<1>1. \A f : Session({f}, gap, f) = {f}
  <2>1. \A f : Session({f}, gap, f) = {g \in {f} : Began({f}, gap, g) = Began({f}, gap, f)}
    BY SessionIs
  <2>2. QED BY <2>1
<1>2. ASSUME NEW x \in X
      PROVE  {x} \in Sessions(E, gap)
  <2>1. Companions(E, x) = {x} /\ x \in Eligible(E)
    BY <1>0
  <2>2. Session(Companions(E, x), gap, x) \in Sessions(E, gap)
    BY <2>1, SessionsAre
  <2>3. QED BY <1>1, <2>1, <2>2
<1>3. ASSUME NEW s \in Sessions(E, gap), \A x \in X : s # {x}
      PROVE  s \in Sessions(F, gap) /\ \A y \in Y : s # {y}
  <2>1. PICK c \in Eligible(E) : \E f \in Companions(E, c) : s = Session(Companions(E, c), gap, f)
    BY SessionsAre
  <2>2. PICK f \in Companions(E, c) : s = Session(Companions(E, c), gap, f)
    BY <2>1
  <2>3. f \in Eligible(E) /\ f \in s /\ Companions(E, f) = Companions(E, c)
    BY <2>2, SessionIs DEF Companions
  <2>4. f \notin X
    <3>1. f \in X => Companions(E, c) = {f}
      BY <1>0, <2>3
    <3>2. f \in X => s = {f}
      BY <1>1, <2>2, <3>1
    <3>3. QED BY <1>3, <3>2
  <2>5. f \in Eligible(F) /\ f \notin Y
    BY <1>0, <2>3, <2>4
  <2>6. Companions(E, f) = Companions(F, f)
    <3>1. ASSUME NEW x \in X
          PROVE  BaseCase(x) # BaseCase(f)
      <4>1. BaseCase(x) = BaseCase(f) => f \in Companions(E, x)
        BY <2>3 DEF Companions
      <4>2. Companions(E, x) = {x}
        BY <1>0
      <4>3. QED BY <2>4, <4>1, <4>2
    <3>2. ASSUME NEW y \in Y
          PROVE  BaseCase(y) # BaseCase(f)
      <4>1. BaseCase(y) = BaseCase(f) => f \in Companions(F, y)
        BY <2>5 DEF Companions
      <4>2. Companions(F, y) = {y}
        BY <1>0
      <4>3. QED BY <2>5, <4>1, <4>2
    <3>3. QED BY <1>0, <3>1, <3>2 DEF Companions
  <2>7. s \in Sessions(F, gap)
    <3>1. s = Session(Companions(F, f), gap, f)
      BY <2>2, <2>3, <2>6
    <3>2. QED BY <2>5, <3>1, SessionsAre
  <2>8. QED BY <2>3, <2>5, <2>7
<1>4. QED BY <1>2, <1>3

LEMMA AloneUse ==
  ASSUME NEW E, Whole(E), NEW F, Whole(F), NEW gap \in Nat, NEW m, NEW l, NEW r,
         Joins(m, l, r, gap), l.end = r.start, Alone(E, {m}, F, {l, r})
  PROVE  /\ m \in Used(E, gap) /\ l \in Used(F, gap) /\ r \in Used(F, gap)
         /\ Used(E, gap) \ {m} = Used(F, gap) \ {l, r}
         /\ Receipt(E, gap).elapsed = Receipt(F, gap).elapsed
<1> DEFINE C == Cases(E, gap)
           D == Cases(F, gap)
<1>1. Alone(F, {l, r}, E, {m})
  BY DEF Alone
<1>2. /\ {m} \in Sessions(E, gap)
      /\ \A s \in Sessions(E, gap) : s # {m} => s \in Sessions(F, gap) /\ s # {l} /\ s # {r}
  <2>1. /\ \A x \in {m} : {x} \in Sessions(E, gap)
        /\ \A s \in Sessions(E, gap) : (\A x \in {m} : s # {x}) =>
               s \in Sessions(F, gap) /\ \A y \in {l, r} : s # {y}
    BY AloneStay
  <2>2. QED BY <2>1
<1>3. /\ {l} \in Sessions(F, gap) /\ {r} \in Sessions(F, gap)
      /\ \A s \in Sessions(F, gap) : s # {l} /\ s # {r} => s \in Sessions(E, gap) /\ s # {m}
  <2>1. /\ \A x \in {l, r} : {x} \in Sessions(F, gap)
        /\ \A s \in Sessions(F, gap) : (\A x \in {l, r} : s # {x}) =>
               s \in Sessions(E, gap) /\ \A y \in {m} : s # {y}
    BY <1>1, AloneStay
  <2>2. QED BY <2>1
<1>4. \A x : ~Overlaps({x})
  BY DEF Overlaps
<1>5. {m} \in C /\ {l} \in D /\ {r} \in D /\ C \ {{m}} = D \ {{l}, {r}}
  BY <1>2, <1>3, <1>4 DEF Cases
<1>6. Population(C) /\ Population(D)
  BY CasesArePopulation
<1>7. Used(E, gap) = UNION C /\ Used(F, gap) = UNION D
  BY DEF Used
<1>8. l # r /\ {l} # {r}
  BY DEF Joins
<1> HIDE DEF C, D
<1>9. m \in UNION C /\ l \in UNION D /\ r \in UNION D
  BY <1>5
<1>10. (UNION C) \ {m} = (UNION D) \ {l, r}
  <2>1. (UNION C) \ {m} = UNION (C \ {{m}})
    <3>1. ASSUME NEW s \in C \ {{m}}
          PROVE  m \notin s
      <4>1. s \cap {m} = {}
        BY <1>5, <1>6 DEF Population, Disjoint
      <4>2. QED BY <4>1
    <3>2. \A s \in C : s = {m} \/ s \in C \ {{m}}
      OBVIOUS
    <3>3. \A x \in (UNION C) \ {m} : x \in UNION (C \ {{m}})
      BY <3>2
    <3>4. \A x \in UNION (C \ {{m}}) : x \in (UNION C) \ {m}
      BY <3>1
    <3>5. QED BY <3>3, <3>4
  <2>2. (UNION D) \ {l, r} = UNION (D \ {{l}, {r}})
    <3>1. ASSUME NEW s \in D \ {{l}, {r}}
          PROVE  l \notin s /\ r \notin s
      <4>1. s \cap {l} = {} /\ s \cap {r} = {}
        BY <1>5, <1>6 DEF Population, Disjoint
      <4>2. QED BY <4>1
    <3>2. \A s \in D : s = {l} \/ s = {r} \/ s \in D \ {{l}, {r}}
      OBVIOUS
    <3>3. \A x \in (UNION D) \ {l, r} : x \in UNION (D \ {{l}, {r}})
      BY <3>2
    <3>4. \A x \in UNION (D \ {{l}, {r}}) : x \in (UNION D) \ {l, r}
      BY <3>1
    <3>5. QED BY <3>3, <3>4
  <2>3. QED BY <1>5, <2>1, <2>2
<1>11. ASSUME NEW x, Line({x})
       PROVE  ElapsedSeconds({x}) = x.end - x.start
  BY <1>11, FirstIs, LastIs DEF ElapsedSeconds
<1>12. ElapsedSeconds({m}) = ElapsedSeconds({l}) + ElapsedSeconds({r})
  <2>1. Line({m}) /\ Line({l}) /\ Line({r})
    BY <1>5, <1>6 DEF Population
  <2>2. /\ ElapsedSeconds({m}) = m.end - m.start /\ ElapsedSeconds({l}) = l.end - l.start
        /\ ElapsedSeconds({r}) = r.end - r.start
    BY <1>11, <2>1
  <2>3. QED BY <2>2 DEF Joins
<1>13. Total(C, ElapsedSeconds) = Total(D, ElapsedSeconds)
  <2> DEFINE n == [c \in C \cup D |-> ElapsedSeconds(c)]
  <2>1. Total(C, ElapsedSeconds) = Sum(C, n) /\ Total(D, ElapsedSeconds) = Sum(D, n)
    <3>1. [c \in C |-> n[c]] = [c \in C |-> ElapsedSeconds(c)]
          /\ [c \in D |-> n[c]] = [c \in D |-> ElapsedSeconds(c)]
      OBVIOUS
    <3>2. QED BY <3>1 DEF Total, Sum
  <2>2. \A c \in C \cup D : n[c] \in Int
    BY <1>6, LineFinite DEF Population, ElapsedSeconds
  <2>3. Weighed(C, n) /\ Weighed(D, n)
    BY <1>6, <2>2 DEF Weighed, Population
  <2>4. n[{m}] = n[{l}] + n[{r}]
    BY <1>5, <1>12
  <2> HIDE DEF n
  <2>5. Exchange(C, {m}, D, {l}, {r})
    BY <1>5, <1>8 DEF Exchange
  <2>6. Sum(C, n) = Sum(D, n)
    BY <2>3, <2>4, <2>5, SumExchange
  <2>7. QED BY <2>1, <2>6
<1>14. QED BY <1>7, <1>9, <1>10, <1>13 DEF Receipt, C, D
=============================================================================
