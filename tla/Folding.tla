------------------------------- MODULE Folding -------------------------------
(***************************************************************************)
(* A method that calls itself for the elements of an array: the recursive  *)
(* function over the levels of nesting exists, has what the method makes   *)
(* of a value and of the results for its elements, and does not depend on  *)
(* the level at which it is looked at.                                     *)
(***************************************************************************)
EXTENDS Sequences, Induction

CONSTANTS Level, Method(_, _)

\* What the values of each level are made of.
Levels ==
    /\ Level[0] = {}
    /\ \A d \in Nat : Level[d] \subseteq Level[d + 1]
    /\ \A d \in Nat : \A v \in Level[d + 1] : v.array \in Seq(Level[d])

To ==
    LET to[levels \in Nat] ==
            IF levels = 0 THEN <<>>
            ELSE [v \in Level[levels] |->
                     Method(v, [i \in DOMAIN v.array |-> to[levels - 1][v.array[i]]])]
    IN  to

Nothing(p) == <<>>
OneMore(p, levels, below) ==
    [v \in Level[levels] |-> Method(v, [i \in DOMAIN v.array |-> below[v.array[i]]])]
Rec == INSTANCE Recursion WITH Start <- Nothing, Body <- OneMore

\* The equation that defines the function.
LEMMA ToEquation ==
    To = [levels \in Nat |->
             IF levels = 0 THEN <<>>
             ELSE [v \in Level[levels] |->
                      Method(v, [i \in DOMAIN v.array |-> To[levels - 1][v.array[i]]])]]
  <1>1. \E f : Rec!FitsAll(0, f)
    BY Rec!ExistsAll
  <1>2. \E f : f = [levels \in Nat |->
             IF levels = 0 THEN <<>>
             ELSE [v \in Level[levels] |->
                      Method(v, [i \in DOMAIN v.array |-> f[levels - 1][v.array[i]]])]]
    BY <1>1 DEF Rec!FitsAll, Nothing, OneMore
  <1> QED
    BY <1>2 DEF To

\* One level of it.
LEMMA ToLevel ==
    ASSUME NEW d \in Nat, NEW v \in Level[d + 1]
    PROVE  To[d + 1][v] = Method(v, [i \in DOMAIN v.array |-> To[d][v.array[i]]])
  <1>1. d + 1 \in Nat /\ d + 1 # 0 /\ (d + 1) - 1 = d
    OBVIOUS
  <1>2. To[d + 1] = [w \in Level[d + 1] |->
                        Method(w, [i \in DOMAIN w.array |-> To[(d + 1) - 1][w.array[i]]])]
    BY <1>1, ToEquation
  <1>3. To[d + 1][v] = Method(v, [i \in DOMAIN v.array |-> To[(d + 1) - 1][v.array[i]]])
    BY <1>2
  <1> QED
    BY <1>1, <1>3

\* A value has the same result at the next level.
LEMMA ToNext ==
    ASSUME Levels
    PROVE  \A d \in Nat : \A v \in Level[d] : To[d + 1][v] = To[d][v]
  <1> DEFINE T == {d \in Nat : \A v \in Level[d] : To[d + 1][v] = To[d][v]}
  <1>1. 0 \in T
    BY DEF Levels
  <1>2. ASSUME NEW d \in Nat, d \in T PROVE d + 1 \in T
    <2> SUFFICES ASSUME NEW v \in Level[d + 1] PROVE To[(d + 1) + 1][v] = To[d + 1][v]
      OBVIOUS
    <2>1. v.array \in Seq(Level[d]) /\ v \in Level[(d + 1) + 1]
      BY DEF Levels
    <2>2. \A i \in DOMAIN v.array : To[d + 1][v.array[i]] = To[d][v.array[i]]
      <3>1. \A i \in DOMAIN v.array : v.array[i] \in Level[d]
        BY <2>1
      <3> QED
        BY <1>2, <3>1
    <2>3. [i \in DOMAIN v.array |-> To[d + 1][v.array[i]]]
              = [i \in DOMAIN v.array |-> To[d][v.array[i]]]
      BY <2>2
    <2>4. To[(d + 1) + 1][v] = Method(v, [i \in DOMAIN v.array |-> To[d + 1][v.array[i]]])
      BY <2>1, ToLevel
    <2>5. To[d + 1][v] = Method(v, [i \in DOMAIN v.array |-> To[d][v.array[i]]])
      BY ToLevel
    <2> QED
      BY <2>3, <2>4, <2>5
  <1> HIDE DEF T
  <1>3. Nat \subseteq T
    BY <1>1, <1>2, Induction
  <1> QED
    BY <1>3 DEF T

\* The method at one level, in terms of itself.
THEOREM MethodAt ==
    ASSUME Levels, NEW m \in Nat, NEW v \in Level[m]
    PROVE  To[m][v] = Method(v, [i \in DOMAIN v.array |-> To[m][v.array[i]]])
  <1>1. PICK d \in Nat : m = d + 1
    <2>1. m # 0
      BY DEF Levels
    <2> QED
      BY <2>1
  <1>2. v.array \in Seq(Level[d])
    BY <1>1 DEF Levels
  <1>3. \A i \in DOMAIN v.array : To[d + 1][v.array[i]] = To[d][v.array[i]]
    BY <1>2, ToNext
  <1>4. [i \in DOMAIN v.array |-> To[d + 1][v.array[i]]]
            = [i \in DOMAIN v.array |-> To[d][v.array[i]]]
    BY <1>3
  <1> QED
    BY <1>1, <1>4, ToLevel
=============================================================================
