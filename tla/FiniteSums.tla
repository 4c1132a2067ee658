----------------------------- MODULE FiniteSums -----------------------------
(***************************************************************************)
(* Folds over finite sets, as MapThenFoldSet computes them: sums, and what *)
(* an operator, Step, makes of a value when it is applied to the elements  *)
(* one after the other, Final telling which comes last.  The proofs about  *)
(* caps, budgets and replays need these facts.                             *)
(*                                                                         *)
(* A fold is a recursive function; that one exists, that the order of its  *)
(* choices does not matter to a sum, and what a fold keeps, is proved by   *)
(* induction over the subsets of the set.  That a set allows the induction *)
(* is a hypothesis here, AllowsInduction; the modules that cite these      *)
(* lemmas prove it of every finite set.  The induction is stated with a    *)
(* set, Good, in the place of a predicate.                                 *)
(*                                                                         *)
(* Step, Final and Keeps are parameters: a module takes an instance for an *)
(* operator of its own, and one that needs only the sums leaves them open. *)
(***************************************************************************)
EXTENDS Integers, Folds, TLAPS

CONSTANTS Step(_, _), Final(_), Keeps(_, _, _)

First(s) == CHOOSE x \in s : TRUE

(* w[x] summed over the elements x of S *)
Total(w, S) == MapThenFoldSet(+, 0, LAMBDA x : w[x], First, S)

(* h is the function the fold recurs on. *)
IsRunningSum(h, w, S) ==
    h = [s \in SUBSET S |-> IF s = {} THEN 0 ELSE w[First(s)] + h[s \ {First(s)}]]

-----------------------------------------------------------------------------
(* What a part of S has whenever all smaller parts of that part have it,   *)
(* all parts of S have.                                                    *)
AllowsInduction(S) ==
    \A Good : (\A T \in SUBSET S : (\A U \in SUBSET T : U # T => U \in Good) => T \in Good)
                 => SUBSET S \subseteq Good

LEMMA SubsetInduction ==
  ASSUME NEW S, AllowsInduction(S), NEW Good,
         \A T \in SUBSET S :
            (\A U \in SUBSET T : U # T => U \in Good) => T \in Good
  PROVE  SUBSET S \subseteq Good
  BY DEF AllowsInduction

LEMMA InductivePart ==
  ASSUME NEW S, AllowsInduction(S), NEW R \in SUBSET S
  PROVE  AllowsInduction(R)
<1> SUFFICES ASSUME NEW Good,
                    \A T \in SUBSET R :
                       (\A U \in SUBSET T : U # T => U \in Good) => T \in Good
             PROVE  SUBSET R \subseteq Good
  BY DEF AllowsInduction
<1> DEFINE Fine == {T \in SUBSET S : T \subseteq R => T \in Good}
<1>1. ASSUME NEW T \in SUBSET S, \A U \in SUBSET T : U # T => U \in Fine
      PROVE  T \in Fine
  <2> SUFFICES ASSUME T \subseteq R PROVE T \in Good
    OBVIOUS
  <2>1. \A U \in SUBSET T : U # T => U \in Good
    BY <1>1
  <2> QED BY <2>1
<1>2. SUBSET S \subseteq Fine
  <2> HIDE DEF Fine
  <2> QED BY <1>1, SubsetInduction
<1> QED BY <1>2

LEMMA InductiveEmpty == AllowsInduction({})
<1> SUFFICES ASSUME NEW Good,
                    \A T \in SUBSET {} :
                       (\A U \in SUBSET T : U # T => U \in Good) => T \in Good
             PROVE  {} \in Good
  BY DEF AllowsInduction
<1>1. {} \in SUBSET {}
  OBVIOUS
<1>2. \A U \in SUBSET {} : U # {} => U \in Good
  OBVIOUS
<1> QED BY <1>1, <1>2

LEMMA InductiveAdd ==
  ASSUME NEW S, AllowsInduction(S), NEW y
  PROVE  AllowsInduction(S \union {y})
<1> SUFFICES ASSUME NEW Good,
                    \A T \in SUBSET (S \union {y}) :
                       (\A U \in SUBSET T : U # T => U \in Good) => T \in Good
             PROVE  SUBSET (S \union {y}) \subseteq Good
  BY DEF AllowsInduction
<1>1. SUBSET S \subseteq Good
  <2>1. \A T \in SUBSET S : (\A U \in SUBSET T : U # T => U \in Good) => T \in Good
    OBVIOUS
  <2> QED BY <2>1, SubsetInduction
<1> DEFINE Fine == {T \in SUBSET S : T \union {y} \in Good}
<1>2. ASSUME NEW T \in SUBSET S, \A U \in SUBSET T : U # T => U \in Fine
      PROVE  T \in Fine
  <2>1. ASSUME NEW U \in SUBSET (T \union {y}), U # T \union {y}
        PROVE  U \in Good
    <3>1. CASE y \notin U
      <4>1. U \in SUBSET S
        BY <3>1
      <4> QED BY <1>1, <4>1
    <3>2. CASE y \in U
      <4>1. U \ {y} \in SUBSET T /\ U \ {y} # T /\ (U \ {y}) \union {y} = U
        BY <2>1, <3>2
      <4>2. U \ {y} \in Fine
        BY <1>2, <4>1
      <4>3. (U \ {y}) \union {y} \in Good
        BY <4>2
      <4> QED BY <4>1, <4>3, Zenon
    <3> QED BY <3>1, <3>2
  <2>2. T \union {y} \in SUBSET (S \union {y})
    OBVIOUS
  <2>3. T \union {y} \in Good
    BY <2>1, <2>2
  <2> QED BY <2>3
<1>3. SUBSET S \subseteq Fine
  <2> HIDE DEF Fine
  <2> QED BY <1>2, SubsetInduction
<1> SUFFICES ASSUME NEW T \in SUBSET (S \union {y}) PROVE T \in Good
  OBVIOUS
<1>4. CASE y \notin T
  BY <1>1, <1>4
<1>5. CASE y \in T
  <2>1. T \ {y} \in SUBSET S /\ (T \ {y}) \union {y} = T
    BY <1>5
  <2>2. (T \ {y}) \union {y} \in Good
    BY <1>3, <2>1
  <2> QED BY <2>1, <2>2, Zenon
<1> QED BY <1>4, <1>5

(* Two of these functions agree where both are defined. *)
LEMMA RunningSumsAgree ==
  ASSUME NEW w, NEW g, NEW U, IsRunningSum(g, w, U),
         NEW h, NEW V, IsRunningSum(h, w, V),
         NEW S, S \subseteq U, S \subseteq V, AllowsInduction(S)
  PROVE  g[S] = h[S]
<1> DEFINE Good == {T \in SUBSET S : g[T] = h[T]}
<1>1. ASSUME NEW T \in SUBSET S, \A R \in SUBSET T : R # T => R \in Good
      PROVE  T \in Good
  <2>1. /\ g[T] = IF T = {} THEN 0 ELSE w[First(T)] + g[T \ {First(T)}]
        /\ h[T] = IF T = {} THEN 0 ELSE w[First(T)] + h[T \ {First(T)}]
    BY DEF IsRunningSum
  <2>2. CASE T = {}
    BY <2>1, <2>2
  <2>3. CASE T # {}
    <3>1. First(T) \in T
      BY <2>3 DEF First
    <3>2. T \ {First(T)} \in Good
      BY <1>1, <3>1
    <3> QED BY <2>1, <2>3, <3>2
  <2> QED BY <2>2, <2>3
<1>2. SUBSET S \subseteq Good
  <2> HIDE DEF Good
  <2> QED BY <1>1, SubsetInduction
<1> QED BY <1>2

LEMMA TotalOfRunningSum ==
  ASSUME NEW w, NEW S, NEW h, IsRunningSum(h, w, S), AllowsInduction(S)
  PROVE  Total(w, S) = h[S]
<1> DEFINE g == CHOOSE f : IsRunningSum(f, w, S)
<1>1. Total(w, S) = g[S]
  BY Zenon DEF Total, MapThenFoldSet, IsRunningSum
<1>2. IsRunningSum(g, w, S)
  BY Zenon
<1>3. g[S] = h[S]
  <2> HIDE DEF g
  <2> QED BY <1>2, RunningSumsAgree
<1> QED BY <1>1, <1>3

(* Where the function exists, the sum obeys its equation. *)
LEMMA TotalUnfolds ==
  ASSUME NEW w, NEW S, NEW h, IsRunningSum(h, w, S), AllowsInduction(S)
  PROVE  Total(w, S) = IF S = {} THEN 0 ELSE w[First(S)] + Total(w, S \ {First(S)})
<1>1. Total(w, S) = h[S]
  BY TotalOfRunningSum
<1>2. h[S] = IF S = {} THEN 0 ELSE w[First(S)] + h[S \ {First(S)}]
  BY DEF IsRunningSum
<1>3. CASE S = {}
  BY <1>1, <1>2, <1>3
<1>4. CASE S # {}
  <2> DEFINE R == S \ {First(S)}
             k == [s \in SUBSET R |-> h[s]]
  <2>1. \A s \in SUBSET R :
           k[s] = IF s = {} THEN 0 ELSE w[First(s)] + k[s \ {First(s)}]
    BY DEF IsRunningSum
  <2>2. IsRunningSum(k, w, R)
    BY <2>1 DEF IsRunningSum
  <2>3. AllowsInduction(R)
    BY InductivePart
  <2>4. Total(w, R) = k[R]
    <3> HIDE DEF k, R
    <3> QED BY <2>2, <2>3, TotalOfRunningSum
  <2>5. k[R] = h[R]
    OBVIOUS
  <2> QED BY <1>1, <1>2, <1>4, <2>4, <2>5
<1> QED BY <1>3, <1>4

LEMMA RunningSumExists ==
  ASSUME NEW w, NEW S, AllowsInduction(S)
  PROVE  \E h : IsRunningSum(h, w, S)
<1> DEFINE Good == {T \in SUBSET S : \E h : IsRunningSum(h, w, T)}
<1>1. ASSUME NEW T \in SUBSET S, \A R \in SUBSET T : R # T => R \in Good
      PROVE  T \in Good
  <2> DEFINE h == [s \in SUBSET T |->
                     IF s = {} THEN 0 ELSE w[First(s)] + Total(w, s \ {First(s)})]
  <2>1. \A s \in SUBSET T : s # {} => h[s \ {First(s)}] = Total(w, s \ {First(s)})
    <3> SUFFICES ASSUME NEW s \in SUBSET T, s # {}
                 PROVE  h[s \ {First(s)}] = Total(w, s \ {First(s)})
      OBVIOUS
    <3> DEFINE R == s \ {First(s)}
    <3>1. First(s) \in s
      BY DEF First
    <3>2. R \in SUBSET T /\ R # T
      BY <3>1
    <3>3. PICK k : IsRunningSum(k, w, R)
      BY <1>1, <3>2
    <3>4. AllowsInduction(R)
      BY InductivePart, <3>2
    <3>5. Total(w, R) = IF R = {} THEN 0 ELSE w[First(R)] + Total(w, R \ {First(R)})
      <4> HIDE DEF R
      <4> QED BY <3>3, <3>4, TotalUnfolds
    <3> QED BY <3>2, <3>5
  <2>2. h = [s \in SUBSET T |-> IF s = {} THEN 0 ELSE w[First(s)] + h[s \ {First(s)}]]
    BY <2>1
  <2>3. IsRunningSum(h, w, T)
    BY <2>2 DEF IsRunningSum
  <2> QED BY <2>3
<1>2. SUBSET S \subseteq Good
  <2> HIDE DEF Good
  <2> QED BY <1>1, SubsetInduction
<1> QED BY <1>2

(* The empty sum, and what the first element adds. *)
LEMMA TotalEmpty == \A w : Total(w, {}) = 0
  BY RunningSumExists, TotalUnfolds, InductiveEmpty

LEMMA TotalFirst ==
  ASSUME NEW w, NEW S, AllowsInduction(S), S # {}
  PROVE  Total(w, S) = w[First(S)] + Total(w, S \ {First(S)})
  BY RunningSumExists, TotalUnfolds

(* A sum of integers is an integer, whatever element is taken off first. *)
LEMMA TotalInt ==
  ASSUME NEW w, NEW S, AllowsInduction(S), \A x \in S : w[x] \in Int
  PROVE  Total(w, S) \in Int
<1> DEFINE Good == {T \in SUBSET S : Total(w, T) \in Int}
<1>1. ASSUME NEW T \in SUBSET S, \A R \in SUBSET T : R # T => R \in Good
      PROVE  T \in Good
  <2>1. CASE T = {}
    BY <2>1, TotalEmpty
  <2>2. CASE T # {}
    <3>1. First(T) \in T
      BY <2>2 DEF First
    <3>2. Total(w, T \ {First(T)}) \in Int
      BY <1>1, <3>1
    <3>3. AllowsInduction(T)
      BY InductivePart
    <3>4. Total(w, T) = w[First(T)] + Total(w, T \ {First(T)})
      BY <2>2, <3>3, TotalFirst
    <3> QED BY <3>1, <3>2, <3>4
  <2> QED BY <2>1, <2>2
<1>2. SUBSET S \subseteq Good
  <2> HIDE DEF Good
  <2> QED BY <1>1, SubsetInduction
<1> QED BY <1>2

LEMMA TotalRemove ==
  ASSUME NEW w, NEW S, AllowsInduction(S), \A x \in S : w[x] \in Int, NEW y \in S
  PROVE  Total(w, S) = w[y] + Total(w, S \ {y})
<1> DEFINE Good == {T \in SUBSET S : \A x \in T : Total(w, T) = w[x] + Total(w, T \ {x})}
<1>1. ASSUME NEW T \in SUBSET S, \A R \in SUBSET T : R # T => R \in Good
      PROVE  T \in Good
  <2> SUFFICES ASSUME NEW x \in T
               PROVE  Total(w, T) = w[x] + Total(w, T \ {x})
    OBVIOUS
  <2> DEFINE f == First(T)
  <2>1. f \in T
    BY DEF First
  <2>2. AllowsInduction(T) /\ AllowsInduction(T \ {f}) /\ AllowsInduction(T \ {x})
        /\ AllowsInduction((T \ {f}) \ {x})
    BY InductivePart
  <2>3. Total(w, T) = w[f] + Total(w, T \ {f})
    BY <2>2, TotalFirst
  <2>4. CASE x = f
    BY <2>3, <2>4
  <2>5. CASE x # f
    <3>1. T \ {f} \in Good /\ T \ {x} \in Good
      BY <1>1, <2>1
    <3>2. Total(w, T \ {f}) = w[x] + Total(w, (T \ {f}) \ {x})
      BY <2>5, <3>1
    <3>3. Total(w, T \ {x}) = w[f] + Total(w, (T \ {x}) \ {f})
      BY <2>1, <2>5, <3>1
    <3>4. Total(w, (T \ {f}) \ {x}) = Total(w, (T \ {x}) \ {f})
      <4>1. (T \ {f}) \ {x} = (T \ {x}) \ {f}
        OBVIOUS
      <4> QED BY <4>1
    <3>5. /\ Total(w, T) \in Int /\ Total(w, T \ {f}) \in Int /\ Total(w, T \ {x}) \in Int
          /\ Total(w, (T \ {f}) \ {x}) \in Int
      BY <2>2, TotalInt
    <3>6. w[f] \in Int /\ w[x] \in Int
      BY <2>1
    <3> HIDE DEF f
    <3> QED BY <2>3, <3>2, <3>3, <3>4, <3>5, <3>6
  <2> QED BY <2>4, <2>5
<1>2. SUBSET S \subseteq Good
  <2> HIDE DEF Good
  <2> QED BY <1>1, SubsetInduction
<1> QED BY <1>2

LEMMA TotalAdd ==
  ASSUME NEW w, NEW S, AllowsInduction(S), NEW y, y \notin S, \A x \in S \union {y} : w[x] \in Int
  PROVE  Total(w, S \union {y}) = w[y] + Total(w, S)
<1>1. AllowsInduction(S \union {y})
  BY InductiveAdd
<1>2. (S \union {y}) \ {y} = S
  OBVIOUS
<1> QED BY <1>1, <1>2, TotalRemove

(* What is summed over a set that maps into another, with no more at each  *)
(* element and no two elements mapped to the same, is no more.             *)
LEMMA TotalInto ==
  ASSUME NEW v, NEW S, AllowsInduction(S), \A x \in S : v[x] \in Int,
         NEW w, NEW R, AllowsInduction(R), \A y \in R : w[y] \in Nat,
         NEW j \in [S -> R],
         \A x, y \in S : j[x] = j[y] => x = y,
         \A x \in S : v[x] <= w[j[x]]
  PROVE  Total(v, S) <= Total(w, R)
<1> DEFINE Image(T) == {j[x] : x \in T}
           Good == {T \in SUBSET S : \A Q \in SUBSET R :
                       Image(T) \subseteq Q => Total(v, T) <= Total(w, Q)}
<1>1. ASSUME NEW T \in SUBSET S, \A U \in SUBSET T : U # T => U \in Good
      PROVE  T \in Good
  <2> SUFFICES ASSUME NEW Q \in SUBSET R, Image(T) \subseteq Q
               PROVE  Total(v, T) <= Total(w, Q)
    OBVIOUS
  <2>1. AllowsInduction(Q) /\ AllowsInduction(T)
    BY InductivePart
  <2>2. CASE T = {}
    <3> DEFINE Fine == {P \in SUBSET Q : Total(w, P) >= 0}
    <3>1. ASSUME NEW P \in SUBSET Q, \A U \in SUBSET P : U # P => U \in Fine
          PROVE  P \in Fine
      <4>1. CASE P = {}
        BY <4>1, TotalEmpty
      <4>2. CASE P # {}
        <5>1. First(P) \in P
          BY <4>2 DEF First
        <5>2. AllowsInduction(P)
          BY <2>1, InductivePart
        <5>3. Total(w, P) = w[First(P)] + Total(w, P \ {First(P)})
          BY <4>2, <5>2, TotalFirst
        <5>4. Total(w, P \ {First(P)}) >= 0
          BY <3>1, <5>1
        <5>5. Total(w, P \ {First(P)}) \in Int
          BY <5>2, InductivePart, TotalInt
        <5>6. w[First(P)] \in Nat
          BY <5>1
        <5> QED BY <5>3, <5>4, <5>5, <5>6
      <4> QED BY <4>1, <4>2
    <3>2. SUBSET Q \subseteq Fine
      <4> HIDE DEF Fine
      <4> QED BY <3>1, <2>1, SubsetInduction
    <3>3. Total(w, Q) >= 0
      BY <3>2
    <3> QED BY <2>2, <3>3, TotalEmpty
  <2>3. CASE T # {}
    <3> DEFINE f == First(T)
               g == j[f]
    <3>1. f \in T /\ g \in Q
      BY <2>3 DEF First
    <3>2. Image(T \ {f}) \subseteq Q \ {g}
      <4> SUFFICES ASSUME NEW x \in T \ {f} PROVE j[x] \in Q \ {g}
        OBVIOUS
      <4>1. j[x] \in Q
        OBVIOUS
      <4>2. x \in S /\ f \in S /\ x # f
        BY <3>1
      <4> QED BY <4>1, <4>2
    <3>3. T \ {f} \in Good
      BY <1>1, <3>1
    <3>4. Total(v, T \ {f}) <= Total(w, Q \ {g})
      BY <3>2, <3>3
    <3>5. Total(v, T) = v[f] + Total(v, T \ {f})
      BY <2>1, <3>1, TotalRemove
    <3>6. Total(w, Q) = w[g] + Total(w, Q \ {g})
      BY <2>1, <3>1, TotalRemove
    <3>7. AllowsInduction(T \ {f}) /\ AllowsInduction(Q \ {g})
      BY <2>1, InductivePart
    <3>8. Total(v, T \ {f}) \in Int /\ Total(w, Q \ {g}) \in Int
      BY <3>7, TotalInt
    <3>9. v[f] \in Int /\ w[g] \in Int /\ v[f] <= w[g]
      BY <3>1
    <3> HIDE DEF f, g
    <3> QED BY <3>4, <3>5, <3>6, <3>8, <3>9
  <2> QED BY <2>2, <2>3
<1>2. SUBSET S \subseteq Good
  <2> HIDE DEF Good
  <2> QED BY <1>1, SubsetInduction
<1>3. Image(S) \subseteq R
  OBVIOUS
<1> QED BY <1>2, <1>3

(* A part sums up to no more than the whole. *)
LEMMA TotalOfPart ==
  ASSUME NEW w, NEW R, AllowsInduction(R), \A y \in R : w[y] \in Nat,
         NEW S \in SUBSET R
  PROVE  Total(w, S) <= Total(w, R)
<1> DEFINE j == [x \in S |-> x]
<1>1. /\ j \in [S -> R]
      /\ \A x, y \in S : j[x] = j[y] => x = y
      /\ \A x \in S : w[x] <= w[j[x]]
  OBVIOUS
<1>2. AllowsInduction(S) /\ \A x \in S : w[x] \in Int
  BY InductivePart
<1> HIDE DEF j
<1> QED BY <1>1, <1>2, TotalInto

LEMMA TotalNat ==
  ASSUME NEW w, NEW R, AllowsInduction(R), \A y \in R : w[y] \in Nat
  PROVE  Total(w, R) \in Nat
<1>1. Total(w, {}) <= Total(w, R)
  BY TotalOfPart
<1>2. Total(w, R) \in Int
  BY TotalInt
<1> QED BY <1>1, <1>2, TotalEmpty

(* Equal weights, equal sums. *)
LEMMA TotalSame ==
  ASSUME NEW v, NEW w, NEW S, AllowsInduction(S), \A x \in S : v[x] = w[x]
  PROVE  Total(v, S) = Total(w, S)
<1> DEFINE Good == {T \in SUBSET S : Total(v, T) = Total(w, T)}
<1>1. ASSUME NEW T \in SUBSET S, \A R \in SUBSET T : R # T => R \in Good
      PROVE  T \in Good
  <2>1. CASE T = {}
    BY <2>1, TotalEmpty
  <2>2. CASE T # {}
    <3>1. First(T) \in T
      BY <2>2 DEF First
    <3>2. Total(v, T \ {First(T)}) = Total(w, T \ {First(T)})
      BY <1>1, <3>1
    <3>3. AllowsInduction(T)
      BY InductivePart
    <3> QED BY <2>2, <3>1, <3>2, <3>3, TotalFirst
  <2> QED BY <2>1, <2>2
<1>2. SUBSET S \subseteq Good
  <2> HIDE DEF Good
  <2> QED BY <1>1, SubsetInduction
<1> QED BY <1>2

LEMMA TotalSplit ==
  ASSUME NEW w, NEW S, AllowsInduction(S), \A x \in S : w[x] \in Int, NEW R \in SUBSET S
  PROVE  Total(w, S) = Total(w, R) + Total(w, S \ R)
<1> DEFINE Good == {T \in SUBSET S : Total(w, S) = Total(w, T) + Total(w, S \ T)}
<1>1. ASSUME NEW T \in SUBSET S, \A U \in SUBSET T : U # T => U \in Good
      PROVE  T \in Good
  <2>1. CASE T = {}
    <3>1. Total(w, T) = 0 /\ S \ T = S /\ Total(w, S) \in Int
      BY <2>1, TotalEmpty, TotalInt
    <3> QED BY <3>1
  <2>2. CASE T # {}
    <3>1. PICK x \in T : TRUE
      BY <2>2
    <3> DEFINE U == T \ {x}
               V == S \ T
    <3>2. Total(w, S) = Total(w, U) + Total(w, S \ U)
      BY <1>1, <3>1
    <3>3. S \ U = V \union {x} /\ x \notin V /\ x \in S
      BY <3>1
    <3>4. AllowsInduction(T) /\ AllowsInduction(U) /\ AllowsInduction(V)
      BY InductivePart
    <3>5. Total(w, V \union {x}) = w[x] + Total(w, V)
      BY <3>3, <3>4, TotalAdd
    <3>6. Total(w, T) = w[x] + Total(w, U)
      BY <3>1, <3>4, TotalRemove
    <3>7. w[x] \in Int /\ Total(w, U) \in Int /\ Total(w, V) \in Int
      BY <3>3, <3>4, TotalInt
    <3>8. Total(w, S \ U) = w[x] + Total(w, V)
      BY <3>3, <3>5
    <3> HIDE DEF U, V
    <3>9. Total(w, S) = Total(w, T) + Total(w, V)
      BY <3>2, <3>6, <3>7, <3>8
    <3> QED BY <3>9 DEF V
  <2> QED BY <2>1, <2>2
<1>2. SUBSET S \subseteq Good
  <2> HIDE DEF Good
  <2> QED BY <1>1, SubsetInduction
<1> QED BY <1>2

(* Sums of sums. *)
LEMMA TotalPlus ==
  ASSUME NEW v, NEW w, NEW u, NEW S, AllowsInduction(S),
         \A x \in S : v[x] \in Int /\ w[x] \in Int /\ u[x] = v[x] + w[x]
  PROVE  Total(u, S) = Total(v, S) + Total(w, S)
<1> DEFINE Good == {T \in SUBSET S : Total(u, T) = Total(v, T) + Total(w, T)}
<1>1. ASSUME NEW T \in SUBSET S, \A R \in SUBSET T : R # T => R \in Good
      PROVE  T \in Good
  <2>1. CASE T = {}
    <3>1. Total(u, T) = 0 /\ Total(v, T) = 0 /\ Total(w, T) = 0
      BY <2>1, TotalEmpty
    <3> QED BY <3>1
  <2>2. CASE T # {}
    <3> DEFINE f == First(T)
               R == T \ {f}
    <3>1. f \in T /\ R \in SUBSET T /\ R # T
      BY <2>2 DEF First
    <3>2. AllowsInduction(T) /\ AllowsInduction(R)
      BY InductivePart
    <3>3. /\ Total(u, T) = u[f] + Total(u, R)
          /\ Total(v, T) = v[f] + Total(v, R)
          /\ Total(w, T) = w[f] + Total(w, R)
      BY <2>2, <3>2, TotalFirst
    <3>4. Total(u, R) = Total(v, R) + Total(w, R)
      BY <1>1, <3>1
    <3>5. /\ Total(v, R) \in Int /\ Total(w, R) \in Int
          /\ v[f] \in Int /\ w[f] \in Int /\ u[f] = v[f] + w[f]
      BY <3>1, <3>2, TotalInt
    <3> HIDE DEF f, R
    <3>6. Total(u, T) = Total(v, T) + Total(w, T)
      BY <3>3, <3>4, <3>5
    <3> QED BY <3>6
  <2> QED BY <2>1, <2>2
<1>2. SUBSET S \subseteq Good
  <2> HIDE DEF Good
  <2> QED BY <1>1, SubsetInduction
<1> QED BY <1>2

(* No more at any element, no more in all. *)
LEMMA TotalAtMost ==
  ASSUME NEW v, NEW w, NEW S, AllowsInduction(S),
         \A x \in S : v[x] \in Int /\ w[x] \in Nat /\ v[x] <= w[x]
  PROVE  Total(v, S) <= Total(w, S)
<1> DEFINE j == [x \in S |-> x]
<1>1. /\ j \in [S -> S]
      /\ \A x, y \in S : j[x] = j[y] => x = y
      /\ \A x \in S : v[x] <= w[j[x]]
  OBVIOUS
<1> HIDE DEF j
<1> QED BY <1>1, TotalInto

(* Only a part weighs anything. *)
LEMMA TotalOfWeighed ==
  ASSUME NEW w, NEW S, AllowsInduction(S), \A x \in S : w[x] \in Nat,
         NEW R \in SUBSET S, \A x \in S \ R : w[x] = 0
  PROVE  Total(w, S) = Total(w, R)
<1> DEFINE Q == S \ R
           v == [x \in Q |-> 0]
<1>1. AllowsInduction(Q)
  BY InductivePart
<1>2. Total(w, Q) = Total(v, Q)
  <2>1. \A x \in Q : w[x] = v[x]
    OBVIOUS
  <2> HIDE DEF v, Q
  <2> QED BY <1>1, <2>1, TotalSame
<1>3. Total(v, Q) = Total(v, Q) + Total(v, Q)
  <2>1. \A x \in Q : v[x] \in Int /\ v[x] = v[x] + v[x]
    OBVIOUS
  <2> HIDE DEF v, Q
  <2> QED BY <1>1, <2>1, TotalPlus
<1>4. Total(v, Q) \in Int
  <2>1. \A x \in Q : v[x] \in Int
    OBVIOUS
  <2> HIDE DEF v, Q
  <2> QED BY <1>1, <2>1, TotalInt
<1>5. Total(w, S) = Total(w, R) + Total(w, Q)
  BY TotalSplit
<1>6. Total(w, R) \in Int
  BY InductivePart, TotalInt
<1> HIDE DEF v, Q
<1>7. Total(v, Q) = 0
  <2>1. \A z \in Int : z = z + z => z = 0
    OBVIOUS
  <2> QED BY <1>3, <1>4, <2>1
<1> QED BY <1>2, <1>5, <1>6, <1>7

-----------------------------------------------------------------------------
(* Step(e, w) for the elements e of S one after the other. *)
Fold(w, S) == MapThenFoldSet(Step, w, LAMBDA e : e, Final, S)

IsFold(h, w, S) ==
    h = [s \in SUBSET S |-> IF s = {} THEN w ELSE Step(Final(s), h[s \ {Final(s)}])]

(* Final names an element of each set of these finitely many. *)
IsFoldable(S) == AllowsInduction(S) /\ \A T \in SUBSET S : T # {} => Final(T) \in T

LEMMA FoldsAgree ==
  ASSUME NEW w, NEW g, NEW U, IsFold(g, w, U),
         NEW h, NEW V, IsFold(h, w, V),
         NEW S, S \subseteq U, S \subseteq V, IsFoldable(S)
  PROVE  g[S] = h[S]
<1> DEFINE Good == {T \in SUBSET S : g[T] = h[T]}
<1>1. ASSUME NEW T \in SUBSET S, \A R \in SUBSET T : R # T => R \in Good
      PROVE  T \in Good
  <2>1. /\ g[T] = IF T = {} THEN w ELSE Step(Final(T), g[T \ {Final(T)}])
        /\ h[T] = IF T = {} THEN w ELSE Step(Final(T), h[T \ {Final(T)}])
    BY DEF IsFold
  <2>2. CASE T = {}
    BY <2>1, <2>2
  <2>3. CASE T # {}
    <3>1. Final(T) \in T
      BY <2>3 DEF IsFoldable
    <3>2. T \ {Final(T)} \in Good
      BY <1>1, <3>1
    <3> QED BY <2>1, <2>3, <3>2
  <2> QED BY <2>2, <2>3
<1>2. SUBSET S \subseteq Good
  <2> HIDE DEF Good
  <2> QED BY <1>1, SubsetInduction DEF IsFoldable
<1> QED BY <1>2

LEMMA FoldOfFunction ==
  ASSUME NEW w, NEW S, NEW h, IsFold(h, w, S), IsFoldable(S)
  PROVE  Fold(w, S) = h[S]
<1> DEFINE g == CHOOSE f : IsFold(f, w, S)
<1>1. Fold(w, S) = g[S]
  BY Zenon DEF Fold, MapThenFoldSet, IsFold
<1>2. IsFold(g, w, S)
  BY Zenon
<1>3. g[S] = h[S]
  <2> HIDE DEF g
  <2> QED BY <1>2, FoldsAgree
<1> QED BY <1>1, <1>3

LEMMA FoldUnfolds ==
  ASSUME NEW w, NEW S, NEW h, IsFold(h, w, S), IsFoldable(S)
  PROVE  Fold(w, S) = IF S = {} THEN w ELSE Step(Final(S), Fold(w, S \ {Final(S)}))
<1>1. Fold(w, S) = h[S]
  BY FoldOfFunction
<1>2. h[S] = IF S = {} THEN w ELSE Step(Final(S), h[S \ {Final(S)}])
  BY DEF IsFold
<1>3. CASE S = {}
  BY <1>1, <1>2, <1>3
<1>4. CASE S # {}
  <2> DEFINE R == S \ {Final(S)}
             k == [s \in SUBSET R |-> h[s]]
  <2>1. \A s \in SUBSET R :
           k[s] = IF s = {} THEN w ELSE Step(Final(s), k[s \ {Final(s)}])
    BY DEF IsFold
  <2>2. IsFold(k, w, R)
    BY <2>1 DEF IsFold
  <2>3. IsFoldable(R)
    BY InductivePart DEF IsFoldable
  <2>4. Fold(w, R) = k[R]
    <3> HIDE DEF k, R
    <3> QED BY <2>2, <2>3, FoldOfFunction
  <2>5. k[R] = h[R]
    OBVIOUS
  <2> QED BY <1>1, <1>2, <1>4, <2>4, <2>5
<1> QED BY <1>3, <1>4

LEMMA FoldExists ==
  ASSUME NEW w, NEW S, IsFoldable(S)
  PROVE  \E h : IsFold(h, w, S)
<1> DEFINE Good == {T \in SUBSET S : \E h : IsFold(h, w, T)}
<1>1. ASSUME NEW T \in SUBSET S, \A R \in SUBSET T : R # T => R \in Good
      PROVE  T \in Good
  <2> DEFINE h == [s \in SUBSET T |->
                     IF s = {} THEN w ELSE Step(Final(s), Fold(w, s \ {Final(s)}))]
  <2>1. \A s \in SUBSET T : s # {} => h[s \ {Final(s)}] = Fold(w, s \ {Final(s)})
    <3> SUFFICES ASSUME NEW s \in SUBSET T, s # {}
                 PROVE  h[s \ {Final(s)}] = Fold(w, s \ {Final(s)})
      OBVIOUS
    <3> DEFINE R == s \ {Final(s)}
    <3>1. Final(s) \in s
      BY DEF IsFoldable
    <3>2. R \in SUBSET T /\ R # T
      BY <3>1
    <3>3. PICK k : IsFold(k, w, R)
      BY <1>1, <3>2
    <3>4. IsFoldable(R)
      BY InductivePart, <3>2 DEF IsFoldable
    <3>5. Fold(w, R) = IF R = {} THEN w ELSE Step(Final(R), Fold(w, R \ {Final(R)}))
      <4> HIDE DEF R
      <4> QED BY <3>3, <3>4, FoldUnfolds
    <3> QED BY <3>2, <3>5
  <2>2. h = [s \in SUBSET T |-> IF s = {} THEN w ELSE Step(Final(s), h[s \ {Final(s)}])]
    BY <2>1
  <2>3. IsFold(h, w, T)
    BY <2>2 DEF IsFold
  <2> QED BY <2>3
<1>2. SUBSET S \subseteq Good
  <2> HIDE DEF Good
  <2> QED BY <1>1, SubsetInduction DEF IsFoldable
<1> QED BY <1>2

(* The equation of a fold. *)
LEMMA FoldEmpty == \A w : Fold(w, {}) = w
<1>1. IsFoldable({})
  BY InductiveEmpty DEF IsFoldable
<1> QED BY <1>1, FoldExists, FoldUnfolds

LEMMA FoldFinal ==
  ASSUME NEW w, NEW S, IsFoldable(S), S # {}
  PROVE  Fold(w, S) = Step(Final(S), Fold(w, S \ {Final(S)}))
  BY FoldExists, FoldUnfolds

(* What a fold keeps: Keeps(p, D, w) says of w that D is done, and p is    *)
(* what the statement needs to know of the beginning.                      *)
LEMMA FoldKeeps ==
  ASSUME NEW w, NEW S, IsFoldable(S), NEW p, Keeps(p, {}, w),
         \A D \in SUBSET S, e \in S : \A v :
            (e \notin D /\ Final(D \union {e}) = e /\ Keeps(p, D, v))
               => Keeps(p, D \union {e}, Step(e, v))
  PROVE  Keeps(p, S, Fold(w, S))
<1> DEFINE Good == {T \in SUBSET S : Keeps(p, T, Fold(w, T))}
<1>1. ASSUME NEW T \in SUBSET S, \A R \in SUBSET T : R # T => R \in Good
      PROVE  T \in Good
  <2>1. CASE T = {}
    BY <2>1, FoldEmpty
  <2>2. CASE T # {}
    <3> DEFINE e == Final(T)
               D == T \ {e}
    <3>1. e \in T /\ D \in SUBSET S /\ e \notin D /\ D \union {e} = T
      BY <2>2 DEF IsFoldable
    <3>2. Keeps(p, D, Fold(w, D))
      BY <1>1, <3>1
    <3>3. IsFoldable(T)
      BY InductivePart DEF IsFoldable
    <3>4. Fold(w, T) = Step(e, Fold(w, D))
      BY <2>2, <3>3, FoldFinal
    <3>5. Keeps(p, D \union {e}, Step(e, Fold(w, D)))
      <4> HIDE DEF D
      <4>1. Final(D \union {e}) = e /\ e \in S
        BY <3>1
      <4> HIDE DEF e
      <4> QED BY <3>1, <3>2, <4>1
    <3> QED BY <3>1, <3>4, <3>5
  <2> QED BY <2>1, <2>2
<1>2. SUBSET S \subseteq Good
  <2> HIDE DEF Good
  <2> QED BY <1>1, SubsetInduction DEF IsFoldable
<1> QED BY <1>2

-----------------------------------------------------------------------------
(* Of finitely many integers there is a greatest. *)
LEMMA HasGreatest ==
  ASSUME NEW v, NEW S, AllowsInduction(S), S # {}, \A e \in S : v[e] \in Int
  PROVE  \E e \in S : \A f \in S : v[f] <= v[e]
<1> DEFINE Good == {T \in SUBSET S : T # {} => \E e \in T : \A f \in T : v[f] <= v[e]}
<1>1. ASSUME NEW T \in SUBSET S, \A R \in SUBSET T : R # T => R \in Good
      PROVE  T \in Good
  <2> SUFFICES ASSUME NEW x \in T
               PROVE  \E e \in T : \A f \in T : v[f] <= v[e]
    OBVIOUS
  <2>1. T \ {x} \in Good
    BY <1>1
  <2>2. CASE T \ {x} = {}
    BY <2>2
  <2>3. CASE T \ {x} # {}
    <3>1. PICK e \in T \ {x} : \A f \in T \ {x} : v[f] <= v[e]
      BY <2>1, <2>3
    <3>2. CASE v[x] <= v[e]
      BY <3>1, <3>2
    <3>3. CASE ~ (v[x] <= v[e])
      BY <3>1, <3>3
    <3> QED BY <3>2, <3>3
  <2> QED BY <2>2, <2>3
<1>2. SUBSET S \subseteq Good
  <2> HIDE DEF Good
  <2> QED BY <1>1, SubsetInduction
<1> QED BY <1>2

=============================================================================
