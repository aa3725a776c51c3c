------------------------------ MODULE Recursion ------------------------------
(***************************************************************************)
(* The function that a recursive definition f[n \in ...] == ... names      *)
(* exists.  Start and Body are what an INSTANCE of this module is about; p *)
(* stands for what else the definition depends on.                         *)
(***************************************************************************)
EXTENDS Induction

CONSTANTS Start(_), Body(_, _, _)

\* f is the recursive function up to n, or for all numbers.
FitsTo(p, f, n) == f = [i \in 0..n |-> IF i = 0 THEN Start(p) ELSE Body(p, i, f[i - 1])]
FitsAll(p, f) == f = [i \in Nat |-> IF i = 0 THEN Start(p) ELSE Body(p, i, f[i - 1])]

\* A recursive function of the numbers up to n exists, whatever its values.
THEOREM ExistsTo == ASSUME NEW p PROVE \A n \in Nat : \E f : FitsTo(p, f, n)
  <1> DEFINE T == {n \in Nat : \E f : FitsTo(p, f, n)}
  <1>1. 0 \in T
    <2>1. FitsTo(p, [i \in 0..0 |-> Start(p)], 0)
      BY DEF FitsTo
    <2> QED
      BY <2>1
  <1>2. ASSUME NEW n \in Nat, n \in T PROVE n + 1 \in T
    <2>1. PICK f : FitsTo(p, f, n)
      BY <1>2
    <2>2. PICK next : next = Body(p, n + 1, f[n])
      OBVIOUS
    <2> DEFINE g == [i \in 0..(n + 1) |-> IF i = n + 1 THEN next ELSE f[i]]
    <2>3. \A i \in 0..n : g[i] = f[i]
      OBVIOUS
    <2>4. g[n + 1] = next
      OBVIOUS
    <2>5. g = [i \in 0..(n + 1) |-> g[i]]
      OBVIOUS
    <2> HIDE DEF g
    <2>6. ASSUME NEW i \in 0..(n + 1) PROVE g[i] = IF i = 0 THEN Start(p) ELSE Body(p, i, g[i - 1])
      <3>1. CASE i = n + 1
        <4>1. i - 1 = n /\ n \in 0..n
          BY <3>1
        <4> QED
          BY <2>2, <2>3, <2>4, <3>1, <4>1
      <3>2. CASE i # n + 1
        <4>1. i \in 0..n /\ (i # 0 => i - 1 \in 0..n)
          BY <3>2
        <4>2. f[i] = IF i = 0 THEN Start(p) ELSE Body(p, i, f[i - 1])
          BY <2>1, <4>1 DEF FitsTo
        <4> QED
          BY <2>3, <4>1, <4>2
      <3> QED
        BY <3>1, <3>2
    <2>7. FitsTo(p, g, n + 1)
      <3> DEFINE r == [i \in 0..(n + 1) |-> IF i = 0 THEN Start(p) ELSE Body(p, i, g[i - 1])]
      <3>1. \A i \in 0..(n + 1) : r[i] = g[i]
        BY <2>6
      <3>2. r = [i \in 0..(n + 1) |-> r[i]]
        OBVIOUS
      <3> HIDE DEF r
      <3>3. g = r
        BY <2>5, <3>1, <3>2
      <3> QED
        BY <3>3 DEF FitsTo, r
    <2> QED
      BY <2>7
  <1> QED
    <2> HIDE DEF T
    <2>1. Nat \subseteq T
      BY <1>1, <1>2, Induction
    <2> QED
      BY <2>1 DEF T

\* It is the same function, as far as both go.
LEMMA SameTo ==
    ASSUME NEW p, NEW m \in Nat, NEW n \in Nat, m <= n, NEW f, NEW g,
           FitsTo(p, f, m), FitsTo(p, g, n)
    PROVE  \A i \in 0..m : f[i] = g[i]
  <1> DEFINE E == {i \in Nat : i <= m => f[i] = g[i]}
  <1>1. \A i \in 0..m : f[i] = IF i = 0 THEN Start(p) ELSE Body(p, i, f[i - 1])
    BY DEF FitsTo
  <1>2. \A i \in 0..n : g[i] = IF i = 0 THEN Start(p) ELSE Body(p, i, g[i - 1])
    BY DEF FitsTo
  <1>3. 0 \in E
    BY <1>1, <1>2
  <1>4. ASSUME NEW i \in Nat, i \in E PROVE i + 1 \in E
    <2> SUFFICES ASSUME i + 1 <= m PROVE f[i + 1] = g[i + 1]
      OBVIOUS
    <2>1. i + 1 \in 0..m /\ i + 1 \in 0..n /\ (i + 1) - 1 = i /\ i + 1 # 0 /\ f[i] = g[i]
      BY <1>4
    <2>2. f[i + 1] = Body(p, i + 1, f[i]) /\ g[i + 1] = Body(p, i + 1, g[i])
      BY <1>1, <1>2, <2>1
    <2> QED
      BY <2>1, <2>2
  <1> HIDE DEF E
  <1>5. Nat \subseteq E
    BY <1>3, <1>4, Induction
  <1> QED
    BY <1>5 DEF E

\* A recursive function of all the numbers exists, whatever its values.
THEOREM ExistsAll == ASSUME NEW p PROVE \E f : FitsAll(p, f)
  <1> DEFINE at(n) == CHOOSE h : FitsTo(p, h, n)
             f == [n \in Nat |-> at(n)[n]]
  <1>1. \A n \in Nat : FitsTo(p, at(n), n)
    BY ExistsTo
  <1> HIDE DEF at
  <1>2. \A n \in Nat : f[n] = at(n)[n]
    OBVIOUS
  <1>3. f = [n \in Nat |-> f[n]]
    OBVIOUS
  <1> HIDE DEF f
  <1>4. ASSUME NEW n \in Nat PROVE f[n] = IF n = 0 THEN Start(p) ELSE Body(p, n, f[n - 1])
    <2>1. at(n)[n] = IF n = 0 THEN Start(p) ELSE Body(p, n, at(n)[n - 1])
      BY <1>1 DEF FitsTo
    <2>2. n # 0 => at(n)[n - 1] = f[n - 1]
      <3> SUFFICES ASSUME n # 0 PROVE at(n)[n - 1] = f[n - 1]
        OBVIOUS
      <3>1. PICK m \in Nat : m = n - 1
        OBVIOUS
      <3>2. FitsTo(p, at(m), m) /\ FitsTo(p, at(n), n) /\ m <= n
        BY <1>1, <3>1
      <3>3. at(m)[m] = at(n)[m]
        BY <3>2, SameTo
      <3> QED
        BY <1>2, <3>1, <3>3
    <2> QED
      BY <1>2, <2>1, <2>2
  <1>5. FitsAll(p, f)
    <2> DEFINE r == [n \in Nat |-> IF n = 0 THEN Start(p) ELSE Body(p, n, f[n - 1])]
    <2>1. \A n \in Nat : r[n] = f[n]
      BY <1>4
    <2>2. r = [n \in Nat |-> r[n]]
      OBVIOUS
    <2> HIDE DEF r
    <2>3. f = r
      BY <1>3, <2>1, <2>2
    <2> QED
      BY <2>3 DEF FitsAll, r
  <1> QED
    BY <1>5
=============================================================================
