------------------------- MODULE WellFoundedRecursion -------------------------
(***************************************************************************)
(* Recursive functions that call themselves once, and what is needed to     *)
(* prove about them: the theorems of the library that do this take          *)
(* operators as parameters, these take sets and functions.                  *)
(***************************************************************************)
EXTENDS Integers, WellFoundedInduction, TLAPS

(* A set of numbers has a least one.                                        *)
LEMMA LeastNumber ==
    ASSUME NEW S \in SUBSET Nat, S # {}
    PROVE  \E n \in S : \A m \in S : n <= m
<1> DEFINE R == {ss \in Nat \X Nat : ss[1] < ss[2]}
<1>1. IsWellFoundedOn(R, Nat)
  BY NatLessThanWellFounded DEF OpToRel
<1> HIDE DEF R
<1>2. PICK n \in S : \A m \in S : <<m, n>> \notin R
  BY <1>1, WFMin
<1>3. \A m \in S : m < n => <<m, n>> \in R
  BY DEF R
<1>4. \A m \in S : ~(m < n)
  BY <1>2, <1>3
<1>5. \A m \in S : n <= m
  BY <1>4
<1>6. QED
  BY <1>5

(* next leads out of every set of arguments outside B.                      *)
Descends(D, B, next) == \A S \in SUBSET (D \ B) : S # {} => \E x \in S : next[x] \notin S

(* It does if it makes a number smaller.                                    *)
LEMMA MeasureDescends ==
    ASSUME NEW D, NEW B, NEW next \in [D -> D], NEW size \in [D -> Nat],
           \A x \in D \ B : size[next[x]] < size[x]
    PROVE  Descends(D, B, next)
<1> SUFFICES ASSUME NEW S \in SUBSET (D \ B), S # {}
             PROVE  \E x \in S : next[x] \notin S
  BY DEF Descends
<1> DEFINE N == {size[x] : x \in S}
<1>1. PICK n \in N : \A m \in N : n <= m
  <2>1. N \in SUBSET Nat /\ N # {}
    OBVIOUS
  <2>2. QED
    BY <2>1, LeastNumber
<1>2. PICK x \in S : n = size[x]
  OBVIOUS
<1>3. size[next[x]] < size[x] /\ size[next[x]] \in Nat /\ size[x] \in Nat
  OBVIOUS
<1>4. next[x] \in S => size[x] <= size[next[x]]
  BY <1>1, <1>2
<1>5. next[x] \notin S
  BY <1>3, <1>4
<1>6. QED
  BY <1>5

(* What holds where next stops, and of x when of next[x], holds of all.     *)
LEMMA DescentInduction ==
    ASSUME NEW D, NEW B, NEW next \in [D -> D], Descends(D, B, next),
           NEW S, D \cap B \subseteq S, \A x \in D \ B : next[x] \in S => x \in S
    PROVE  D \subseteq S
<1>1. D \ S \in SUBSET (D \ B)
  OBVIOUS
<1>2. \A x \in D \ S : next[x] \in D \ S
  OBVIOUS
<1>3. D \ S = {}
  BY <1>1, <1>2 DEF Descends
<1>4. QED
  BY <1>3

(* f is the recursive function that answers base on B, and elsewhere makes  *)
(* its answer of the one it gets for next.                                  *)
Solves(f, D, B, base, next, step) ==
    f = [x \in D |-> IF x \in B THEN base[x] ELSE step[x][f[next[x]]]]

(* Recursion along next has a solution: the least relation that holds what  *)
(* it must is a function.  So the CHOOSE that a recursive definition stands *)
(* for (Walk in ConversationStore, Longest and Packets in AnswerStream)     *)
(* chooses a function that satisfies its equation.                          *)
THEOREM RecursionHasSolution ==
    ASSUME NEW D, NEW T, NEW B, NEW base \in [D -> T], NEW next \in [D -> D],
           NEW step \in [D -> [T -> T]], Descends(D, B, next)
    PROVE  \E f \in [D -> T] : Solves(f, D, B, base, next, step)
<1> DEFINE Closed(Z) == \A x \in D :
             IF x \in B THEN <<x, base[x]>> \in Z
             ELSE \A v \in T : <<next[x], v>> \in Z => <<x, step[x][v]>> \in Z
           G == {p \in D \X T : \A Z \in SUBSET (D \X T) : Closed(Z) => p \in Z}
<1>1. Closed(G)
  OBVIOUS
<1>2. \A Z \in SUBSET (D \X T) : Closed(Z) => G \subseteq Z
  OBVIOUS
<1>3. G \in SUBSET (D \X T)
  OBVIOUS
<1> HIDE DEF G
<1>4. ASSUME NEW x \in D, NEW v \in T, NEW w \in T, <<x, v>> \in G, v # w,
             IF x \in B THEN w = base[x]
             ELSE \A u \in T : <<next[x], u>> \in G => w = step[x][u]
      PROVE  FALSE
  <2>1. G \ {<<x, v>>} \in SUBSET (D \X T)
    BY <1>3
  <2>2. Closed(G \ {<<x, v>>})
    <3> SUFFICES ASSUME NEW y \in D
                 PROVE  IF y \in B THEN <<y, base[y]>> \in G \ {<<x, v>>}
                        ELSE \A u \in T : <<next[y], u>> \in G \ {<<x, v>>} =>
                               <<y, step[y][u]>> \in G \ {<<x, v>>}
      OBVIOUS
    <3>1. CASE y \in B
      BY <1>1, <1>4, <3>1
    <3>2. CASE y \notin B
      BY <1>1, <1>4, <3>2
    <3>3. QED
      BY <3>1, <3>2
  <2>3. QED
    BY <1>2, <1>4, <2>1, <2>2
<1> DEFINE Value(x) == \E w \in T : <<x, w>> \in G /\ \A v \in T : <<x, v>> \in G => v = w
           Bad == {x \in D : ~Value(x)}
<1>5. \A x \in D \cap B : Value(x)
  BY <1>1, <1>4
<1>6. \A x \in D \ B : Value(next[x]) => Value(x)
  <2> SUFFICES ASSUME NEW x \in D \ B, NEW u \in T, <<next[x], u>> \in G,
                      \A v \in T : <<next[x], v>> \in G => v = u
               PROVE  Value(x)
    OBVIOUS
  <2>1. step[x][u] \in T /\ <<x, step[x][u]>> \in G
    BY <1>1, ZenonT(30)
  <2>2. \A v \in T : <<x, v>> \in G => v = step[x][u]
    BY <1>4, <2>1
  <2>3. QED
    BY <2>1, <2>2
<1>7. Bad = {}
  <2>1. Bad \in SUBSET (D \ B)
    BY <1>5
  <2>2. \A x \in Bad : next[x] \in Bad
    BY <1>6, <2>1
  <2> HIDE DEF Bad
  <2>3. QED
    BY <2>1, <2>2 DEF Descends
<1>8. \A x \in D : Value(x)
  BY <1>7
<1> DEFINE f == [x \in D |-> CHOOSE w \in T : <<x, w>> \in G]
<1>9. \A x \in D : f[x] \in T /\ <<x, f[x]>> \in G /\ \A v \in T : <<x, v>> \in G => v = f[x]
  BY <1>8
<1>10. f \in [D -> T]
  BY <1>9
<1> HIDE DEF f
<1>11. \A x \in D : f[x] = IF x \in B THEN base[x] ELSE step[x][f[next[x]]]
  <2> SUFFICES ASSUME NEW x \in D
               PROVE  f[x] = IF x \in B THEN base[x] ELSE step[x][f[next[x]]]
    OBVIOUS
  <2>1. CASE x \in B
    BY <1>1, <1>9, <2>1
  <2>2. CASE x \notin B
    <3>1. f[next[x]] \in T /\ <<next[x], f[next[x]]>> \in G
      BY <1>9
    <3>2. step[x][f[next[x]]] \in T /\ <<x, step[x][f[next[x]]]>> \in G
      BY <1>1, <2>2, <3>1
    <3>3. QED
      BY <1>9, <2>2, <3>2
  <2>3. QED
    BY <2>1, <2>2
<1>12. Solves(f, D, B, base, next, step)
  BY <1>10, <1>11 DEF Solves
<1>13. QED
  BY <1>10, <1>12
===============================================================================
