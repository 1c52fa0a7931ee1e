-------------------------- MODULE AnswerStreamProofs --------------------------
(***************************************************************************)
(* Theorems about a worker of the daemon, for answers, packets and batches  *)
(* of any size and a provider that may send what it likes: first what the   *)
(* two loops of _emit_delta compute, by induction on their measure, then    *)
(* the places of the worker, then the preview it has sent.                  *)
(***************************************************************************)
EXTENDS AnswerStream, WellFoundedRecursion, SequenceTheorems

(* The bytes of one character.                                              *)
LEMMA OneCharacter ==
    ASSUME NEW f \in 1..MaxText, width \in [1..MaxText -> Nat]
    PROVE  Bytes(f, f) = width[f]
<1> DEFINE Sums(g) == g = [s \in SUBSET {f} |-> IF s = {} THEN 0
                             ELSE width[CHOOSE x \in s : TRUE] + g[s \ {CHOOSE x \in s : TRUE}]]
<1>1. f..f = {f}
  OBVIOUS
<1>2. Bytes(f, f) = (CHOOSE g : Sums(g))[{f}]
  BY <1>1 DEF Bytes, SumFunctionOnSet, FoldFunctionOnSet, MapThenFoldSet
<1>3. (CHOOSE x \in {f} : TRUE) = f
  OBVIOUS
<1>4. \E g : Sums(g)
  <2> DEFINE h == [s \in SUBSET {f} |-> IF s = {} THEN 0 ELSE width[f]]
  <2>1. \A s \in SUBSET {f} : s = {} \/ s = {f}
    OBVIOUS
  <2>2. h[{}] = 0 /\ h[{f}] = width[f] /\ width[f] + 0 = width[f]
    OBVIOUS
  <2>3. {f} \ {CHOOSE x \in {f} : TRUE} = {}
    BY <1>3
  <2>4. \A s \in SUBSET {f} : h[s] = IF s = {} THEN 0
           ELSE width[CHOOSE x \in s : TRUE] + h[s \ {CHOOSE x \in s : TRUE}]
    BY <1>3, <2>1, <2>2, <2>3
  <2>5. Sums(h)
    BY <2>4
  <2>6. QED
    BY <2>5
<1>5. Sums(CHOOSE g : Sums(g))
  <2> HIDE DEF Sums
  <2>1. QED
    BY <1>4
<1>6. QED
  <2> DEFINE g == CHOOSE h : Sums(h)
  <2>0. g = [s \in SUBSET {f} |-> IF s = {} THEN 0
               ELSE width[CHOOSE x \in s : TRUE] + g[s \ {CHOOSE x \in s : TRUE}]]
    BY <1>5
  <2> HIDE DEF g
  <2>1. g[{f}] = width[CHOOSE x \in {f} : TRUE] + g[{f} \ {CHOOSE x \in {f} : TRUE}]
    BY <2>0, {f} \in SUBSET {f}, {f} # {}
  <2>2. g[{}] = 0
    BY <2>0, {} \in SUBSET {f}
  <2>3. {f} \ {CHOOSE x \in {f} : TRUE} = {}
    BY <1>3
  <2>4. g[{f}] = width[f] + g[{}]
    BY <1>3, <2>1, <2>3, Zenon
  <2>5. width[f] + 0 = width[f]
    OBVIOUS
  <2>6. QED
    BY <1>2, <2>2, <2>4, <2>5 DEF g

-----------------------------------------------------------------------------
(* One turn of the bisection: the middle is in the window and leaves it.    *)
LEMMA NarrowedWindow ==
    ASSUME NEW first, NEW w \in Window, w.low <= w.high
    PROVE  LET n == Narrowed(first, w) IN
           /\ n \in Window
           /\ \E middle \in w.low..w.high :
                IF Fits(first, middle) THEN n.low = middle + 1 /\ n.high = w.high /\ n.best = middle
                ELSE n.low = w.low /\ n.high = middle - 1 /\ n.best = w.best
<1> DEFINE middle == (w.low + w.high) \div 2
<1>1. w.low \in 1..MaxText + 1 /\ w.high \in 0..MaxText /\ w.best \in 0..MaxText /\ MaxText \in Nat
  BY StreamAssumption DEF Window
<1>2. middle \in w.low..w.high
  BY <1>1
<1>3. Narrowed(first, w) = IF Fits(first, middle) THEN [w EXCEPT !.low = middle + 1, !.best = middle]
                           ELSE [w EXCEPT !.high = middle - 1]
  BY DEF Narrowed
<1> HIDE DEF middle
<1>4. CASE Fits(first, middle)
  <2>1. Narrowed(first, w) = [low |-> middle + 1, high |-> w.high, best |-> middle]
    BY <1>3, <1>4 DEF Window
  <2>2. QED
    BY <1>1, <1>2, <1>4, <2>1 DEF Window
<1>5. CASE ~Fits(first, middle)
  <2>1. Narrowed(first, w) = [low |-> w.low, high |-> middle - 1, best |-> w.best]
    BY <1>3, <1>5 DEF Window
  <2>2. QED
    BY <1>1, <1>2, <1>5, <2>1 DEF Window
<1>6. QED
  BY <1>4, <1>5

(* The longest prefix of first..last that fits: nothing longer by one does. *)
Exact(n, first, last) ==
    /\ n \in 0..last - first + 1
    /\ n = 0 \/ Fits(first, n)
    /\ n < last - first + 1 => ~Fits(first, n + 1)

(* The bisection keeps a window that no longer prefix fits beyond, whose    *)
(* best is the prefix before it.                                            *)
LEMMA LongestIsExact ==
    ASSUME NEW first \in 1..MaxText, NEW last \in first..MaxText
    PROVE  Exact(Longest(first, last), first, last)
<1> DEFINE D == Window
           T == 0..MaxText
           B == {w \in D : w.low > w.high}
           base == [w \in D |-> w.best]
           next == [w \in D |-> IF w \in B THEN w ELSE Narrowed(first, w)]
           step == [w \in D |-> [v \in T |-> v]]
           size == [w \in D |-> IF w \in B THEN 0 ELSE w.high - w.low + 1]
           Searches(g) == g = [w \in Window |-> IF w.low > w.high THEN w.best ELSE g[Narrowed(first, w)]]
           search == CHOOSE g : Searches(g)
<1>1. \A w \in D : w.low \in Nat /\ w.high \in Nat /\ w.best \in T /\ (w \in B <=> w.low > w.high)
  BY StreamAssumption DEF Window
<1>2. \A w \in D \ B : w.low <= w.high
  BY <1>1
<1>3. next \in [D -> D]
  BY <1>2, NarrowedWindow
<1>4. size \in [D -> Nat]
  BY <1>1, <1>2
<1>5. \A w \in D \ B : size[next[w]] < size[w]
  <2> SUFFICES ASSUME NEW w \in D \ B PROVE size[next[w]] < size[w]
    OBVIOUS
  <2>1. next[w] = Narrowed(first, w) /\ next[w] \in D
    BY <1>3
  <2>2. size[w] = w.high - w.low + 1
    OBVIOUS
  <2>3. size[next[w]] = IF next[w].low > next[w].high THEN 0 ELSE next[w].high - next[w].low + 1
    BY <2>1
  <2> HIDE DEF size, next
  <2>4. QED
    BY <1>1, <1>2, <2>1, <2>2, <2>3, NarrowedWindow
<1>6. Descends(D, B, next)
  <2> HIDE DEF D, B, next, size
  <2>1. QED
    BY <1>3, <1>4, <1>5, MeasureDescends
<1>7. Searches(search)
  <2>1. base \in [D -> T] /\ step \in [D -> [T -> T]]
    BY <1>1
  <2>2. \E f \in [D -> T] : Solves(f, D, B, base, next, step)
    <3> HIDE DEF D, T, B, base, next, step
    <3>1. QED
      BY <1>3, <1>6, <2>1, RecursionHasSolution
  <2>3. PICK f \in [D -> T] : Solves(f, D, B, base, next, step)
    BY <2>2
  <2>4. \A w \in D : f[w] = IF w \in B THEN base[w] ELSE step[w][f[next[w]]]
    BY <2>3 DEF Solves
  <2>5. \A w \in D : f[w] = IF w.low > w.high THEN w.best ELSE f[Narrowed(first, w)]
    BY <1>1, <1>3, <2>4
  <2>6. f = [w \in D |-> f[w]]
    OBVIOUS
  <2>7. Searches(f)
    BY <2>5, <2>6, Zenon
  <2> HIDE DEF Searches
  <2>8. QED
    BY <2>7
<1> DEFINE length == last - first + 1
           Sound(w) == /\ w.high <= length /\ w.low <= w.high + 1 /\ w.best = w.low - 1
                       /\ w.best = 0 \/ Fits(first, w.best)
                       /\ w.high < length => ~Fits(first, w.high + 1)
           Good == {w \in D : Sound(w) => Exact(search[w], first, last)}
<1>8. ASSUME NEW w \in D \cap B
      PROVE  w \in Good
  <2>1. search[w] = w.best
    BY <1>1, <1>7
  <2>2. Sound(w) => w.best = w.high
    BY <1>1
  <2> HIDE DEF search
  <2>3. QED
    BY <1>1, <2>1, <2>2 DEF Exact
<1>9. ASSUME NEW w \in D \ B, next[w] \in Good
      PROVE  w \in Good
  <2>1. search[w] = search[next[w]] /\ next[w] = Narrowed(first, w) /\ next[w] \in D
    BY <1>1, <1>3, <1>7
  <2> HIDE DEF search
  <2>2. Sound(w) => Sound(next[w])
    BY <1>1, <1>2, <2>1, NarrowedWindow
  <2>3. QED
    BY <1>9, <2>1, <2>2
<1>10. D \subseteq Good
  <2> HIDE DEF D, B, next, Good
  <2>1. D \cap B \subseteq Good /\ \A w \in D \ B : next[w] \in Good => w \in Good
    BY <1>8, <1>9
  <2>2. QED
    BY <1>3, <1>6, <2>1, DescentInduction
<1> DEFINE start == [low |-> 1, high |-> last - first + 1, best |-> 0]
<1>11. start \in D /\ Sound(start)
  BY StreamAssumption DEF Window
<1>12. Longest(first, last) = search[start]
  BY DEF Longest
<1> HIDE DEF search, start
<1>13. QED
  BY <1>10, <1>11, <1>12

(* The characters that packets carry.                                       *)
Covered(ps) == UNION {ps[i].first..ps[i].last : i \in DOMAIN ps}
Piece == [first : 1..MaxText, last : 1..MaxText]

(* Packets of the text from f to last: in order, none too large, and with   *)
(* nothing left out unless a character fits no packet.                      *)
Cut(ps, f, last) ==
    /\ ps \in Seq(Piece)
    /\ \A i \in 1..Len(ps) :
         /\ f <= ps[i].first /\ ps[i].first <= ps[i].last /\ ps[i].last <= last
         /\ Bytes(ps[i].first, ps[i].last) <= DeltaBudget
         /\ i > 1 => ps[i].first > ps[i - 1].last
    /\ (\A c \in f..last : width[c] <= DeltaBudget) => Covered(ps) = f..last

(* Packets sent after others add their characters.                          *)
LEMMA CoveredByBoth ==
    ASSUME NEW S, NEW a \in Seq(S), NEW b \in Seq(S)
    PROVE  Covered(a \o b) = Covered(a) \cup Covered(b)
<1>1. Len(a) \in Nat /\ Len(b) \in Nat /\ DOMAIN a = 1..Len(a) /\ DOMAIN b = 1..Len(b)
  BY LenProperties
<1>2. a \o b \in Seq(S) /\ Len(a \o b) = Len(a) + Len(b) /\ DOMAIN (a \o b) = 1..Len(a) + Len(b)
  BY ConcatProperties, LenProperties
<1>3. \A i \in 1..Len(a) + Len(b) : (a \o b)[i] = IF i <= Len(a) THEN a[i] ELSE b[i - Len(a)]
  BY ConcatProperties
<1>4. ASSUME NEW i \in 1..Len(a) + Len(b)
      PROVE  \/ i \in 1..Len(a) /\ (a \o b)[i] = a[i]
             \/ i - Len(a) \in 1..Len(b) /\ (a \o b)[i] = b[i - Len(a)]
  BY <1>1, <1>3
<1>5. \A i \in 1..Len(a) : i \in 1..Len(a) + Len(b) /\ (a \o b)[i] = a[i]
  BY <1>1, <1>3
<1>6. \A i \in 1..Len(b) : Len(a) + i \in 1..Len(a) + Len(b) /\ (a \o b)[Len(a) + i] = b[i]
  BY <1>1, <1>3
<1> DEFINE c == a \o b
<1> HIDE DEF c
<1>7. \A x : x \in Covered(c) <=> x \in Covered(a) \/ x \in Covered(b)
  <2>1. ASSUME NEW x, x \in Covered(c) PROVE x \in Covered(a) \/ x \in Covered(b)
    BY <1>1, <1>2, <1>4, <2>1 DEF Covered, c
  <2>2. ASSUME NEW x, x \in Covered(a) PROVE x \in Covered(c)
    BY <1>1, <1>2, <1>5, <2>2 DEF Covered, c
  <2>3. ASSUME NEW x, x \in Covered(b) PROVE x \in Covered(c)
    BY <1>1, <1>2, <1>6, <2>3 DEF Covered, c
  <2>4. QED
    BY <2>1, <2>2, <2>3
<1>8. QED
  BY <1>7 DEF c

(* A packet that fits, before the packets of the rest.                      *)
LEMMA PacketGoesFirst ==
    ASSUME width \in [1..MaxText -> Nat], NEW f \in 1..MaxText, NEW last \in f..MaxText,
           NEW n \in 1..last - f + 1, Fits(f, n), NEW rest, Cut(rest, f + n, last)
    PROVE  Cut(<<[first |-> f, last |-> f + n - 1]>> \o rest, f, last)
<1> DEFINE p == [first |-> f, last |-> f + n - 1]
           ps == <<p>> \o rest
<1>1. f \in Nat /\ n \in Nat /\ last \in Nat /\ f + n - 1 \in f..last /\ f + n - 1 \in 1..MaxText
  BY StreamAssumption
<1>2. p \in Piece /\ p.first = f /\ p.last = f + n - 1 /\ <<p>> \in Seq(Piece)
  BY <1>1 DEF Piece
<1>3. Len(rest) \in Nat /\ rest \in Seq(Piece)
  BY DEF Cut
<1>4. Bytes(p.first, p.last) <= DeltaBudget
  BY <1>2 DEF Fits
<1> HIDE DEF p
<1>5. ps \in Seq(Piece) /\ Len(ps) = Len(rest) + 1 /\ ps[1] = p /\ \A i \in 1..Len(rest) : ps[i + 1] = rest[i]
  BY <1>2, <1>3
<1>6. Covered(ps) = (f..f + n - 1) \cup Covered(rest)
  <2>1. Covered(<<p>>) = f..f + n - 1
    <3>1. DOMAIN <<p>> = {1} /\ <<p>>[1] = p
      OBVIOUS
    <3> DEFINE s == <<p>>
    <3> HIDE DEF s
    <3>2. DOMAIN s = {1} /\ s[1] = p => Covered(s) = p.first..p.last
      BY DEF Covered
    <3>3. QED
      BY <1>2, <3>1, <3>2 DEF s
  <2>2. QED
    BY <1>2, <1>3, <2>1, CoveredByBoth, ZenonT(30)
<1> HIDE DEF ps
<1>7. ASSUME NEW i \in 1..Len(ps)
      PROVE  /\ f <= ps[i].first /\ ps[i].first <= ps[i].last /\ ps[i].last <= last
             /\ Bytes(ps[i].first, ps[i].last) <= DeltaBudget
             /\ i > 1 => ps[i].first > ps[i - 1].last
  <2>1. CASE i = 1
    BY <1>1, <1>2, <1>4, <1>5, <2>1
  <2>2. CASE i # 1
    <3>1. i - 1 \in 1..Len(rest) /\ ps[i] = rest[i - 1]
      BY <1>3, <1>5, <2>2
    <3>2. /\ f + n <= ps[i].first /\ ps[i].first <= ps[i].last /\ ps[i].last <= last
          /\ Bytes(ps[i].first, ps[i].last) <= DeltaBudget
      BY <3>1 DEF Cut
    <3>3. ps[i].first \in Nat /\ ps[i].last \in Nat
      <4>1. ps[i] \in Piece
        BY <1>5, ElementOfSeq
      <4>2. QED
        BY <4>1 DEF Piece
    <3>4. CASE i = 2
      BY <1>1, <1>2, <1>5, <3>2, <3>3, <3>4
    <3>5. CASE i # 2
      <4>1. i - 2 \in 1..Len(rest) /\ ps[i - 1] = rest[i - 2]
        BY <1>3, <1>5, <2>2, <3>5
      <4>2. rest[i - 1].first > rest[i - 2].last
        BY <3>1, <3>5, <4>1 DEF Cut
      <4>3. QED
        BY <1>1, <3>1, <3>2, <3>3, <4>1, <4>2
    <3>6. QED
      BY <3>4, <3>5
  <2>3. QED
    BY <2>1, <2>2
<1>8. ASSUME \A c \in f..last : width[c] <= DeltaBudget
      PROVE  Covered(ps) = f..last
  <2>1. Covered(rest) = f + n..last
    BY <1>1, <1>8 DEF Cut
  <2>2. QED
    BY <1>1, <1>6, <2>1
<1>9. Cut(ps, f, last)
  BY <1>5, <1>7, <1>8 DEF Cut
<1>10. QED
  BY <1>9 DEF ps, p

(* What _emit_delta makes of a text: by induction from its end.             *)
LEMMA PacketsAreCut ==
    ASSUME width \in [1..MaxText -> Nat], NEW first \in 1..MaxText, NEW last \in first..MaxText
    PROVE  Cut(Packets(first, last), first, last)
<1> DEFINE D == 1..MaxText + 1
           T == Seq(Piece)
           n(f) == IF f > last THEN 0 ELSE Longest(f, last)
           B == {f \in D : n(f) = 0}
           base == [f \in D |-> << >>]
           next == [f \in D |-> IF f \in B THEN f ELSE f + n(f)]
           step == [f \in D |-> [v \in T |-> IF f \in B THEN v
                                             ELSE <<[first |-> f, last |-> f + n(f) - 1]>> \o v]]
           size == [f \in D |-> MaxText + 1 - f]
           Cuts(g) == g = [f \in 1..MaxText + 1 |->
                             IF n(f) = 0 THEN << >>
                             ELSE <<[first |-> f, last |-> f + n(f) - 1]>> \o g[f + n(f)]]
           from == CHOOSE g : Cuts(g)
<1>1. MaxText \in Nat /\ last \in 1..MaxText
  BY StreamAssumption
<1>2. ASSUME NEW f \in D, n(f) # 0
      PROVE  /\ f \in 1..MaxText /\ last \in f..MaxText /\ n(f) = Longest(f, last)
             /\ n(f) \in 1..last - f + 1 /\ Fits(f, n(f))
             /\ f + n(f) \in D /\ f + n(f) - 1 \in 1..MaxText
  <2>1. f \in 1..MaxText /\ last \in f..MaxText /\ n(f) = Longest(f, last)
    BY <1>1, <1>2
  <2>2. Exact(n(f), f, last)
    BY <2>1, LongestIsExact
  <2> HIDE DEF n
  <2>3. QED
    BY <1>1, <1>2, <2>1, <2>2 DEF Exact
<1>3. ASSUME NEW f \in D, n(f) = 0, f <= last
      PROVE  ~(\A c \in f..last : width[c] <= DeltaBudget)
  <2>1. f \in 1..MaxText /\ last \in f..MaxText /\ n(f) = Longest(f, last)
    BY <1>1, <1>3
  <2>2. Exact(n(f), f, last)
    BY <2>1, LongestIsExact
  <2> HIDE DEF n
  <2>3. 0 < last - f + 1
    BY <1>1, <1>3
  <2>4. ~Fits(f, 1) /\ f + 1 - 1 = f /\ f \in f..last
    BY <1>1, <1>3, <2>1, <2>2, <2>3 DEF Exact
  <2>5. QED
    BY <2>1, <2>4, OneCharacter DEF Fits
<1> HIDE DEF n
<1>4. next \in [D -> D] /\ size \in [D -> Nat]
  BY <1>1, <1>2
<1>5. \A f \in D \ B : size[next[f]] < size[f]
  <2>1. ASSUME NEW f \in D \ B
        PROVE  size[next[f]] < size[f]
    <3>1. n(f) # 0 /\ next[f] = f + n(f) /\ f \in 1..MaxText
      BY <1>2
    <3>2. f + n(f) \in D /\ n(f) \in 1..last - f + 1
      BY <1>2, <3>1
    <3>3. size[f] = MaxText + 1 - f /\ size[next[f]] = MaxText + 1 - (f + n(f))
      BY <3>1, <3>2
    <3> HIDE DEF D, B, next, size
    <3>4. n(f) \in Nat /\ n(f) >= 1
      BY <1>1, <3>1, <3>2
    <3>5. QED
      BY <1>1, <3>1, <3>3, <3>4
  <2>2. QED
    BY <2>1
<1>6. Descends(D, B, next)
  <2> HIDE DEF D, B, next, size
  <2>1. QED
    BY <1>4, <1>5, MeasureDescends
<1>7. Cuts(from)
  <2>1. base \in [D -> T]
    OBVIOUS
  <2>2. step \in [D -> [T -> T]]
    <3>1. ASSUME NEW f \in D \ B, NEW v \in T
          PROVE  <<[first |-> f, last |-> f + n(f) - 1]>> \o v \in T
      <4>1. [first |-> f, last |-> f + n(f) - 1] \in Piece
        BY <1>2 DEF Piece
      <4>2. <<[first |-> f, last |-> f + n(f) - 1]>> \in Seq(Piece)
        BY <4>1
      <4>3. QED
        BY <4>2, ConcatProperties
    <3>2. QED
      BY <3>1
  <2>3. \E f \in [D -> T] : Solves(f, D, B, base, next, step)
    <3> HIDE DEF D, T, B, base, next, step
    <3>1. QED
      BY <1>4, <1>6, <2>1, <2>2, RecursionHasSolution
  <2>4. PICK g \in [D -> T] : Solves(g, D, B, base, next, step)
    BY <2>3
  <2>5. \A f \in D : g[f] = IF f \in B THEN base[f] ELSE step[f][g[next[f]]]
    BY <2>4 DEF Solves
  <2>6. ASSUME NEW f \in D
        PROVE  g[f] = IF n(f) = 0 THEN << >>
                      ELSE <<[first |-> f, last |-> f + n(f) - 1]>> \o g[f + n(f)]
    <3>1. CASE n(f) = 0
      BY <2>5, <3>1
    <3>2. CASE n(f) # 0
      <4>1. f \notin B /\ next[f] = f + n(f) /\ g[f + n(f)] \in T
        BY <1>2, <3>2
      <4>2. step[f][g[f + n(f)]] = <<[first |-> f, last |-> f + n(f) - 1]>> \o g[f + n(f)]
        BY <4>1
      <4>3. QED
        BY <2>5, <3>2, <4>1, <4>2
    <3>3. QED
      BY <3>1, <3>2
  <2>7. g = [f \in D |-> g[f]]
    OBVIOUS
  <2>8. Cuts(g)
    BY <2>6, <2>7, Zenon
  <2> HIDE DEF Cuts
  <2>9. QED
    BY <2>8
<1> DEFINE Good == {f \in D : f <= last + 1 => Cut(from[f], f, last)}
<1> HIDE DEF from
<1>8. ASSUME NEW f \in D \cap B
      PROVE  f \in Good
  <2>1. from[f] = << >> /\ n(f) = 0
    BY <1>7
  <2>2. << >> \in Seq(Piece) /\ Len(<< >>) = 0 /\ Covered(<< >>) = {}
    BY DEF Covered
  <2> DEFINE e == << >>
  <2> HIDE DEF e
  <2>3. CASE f <= last
    <3>1. ~(\A c \in f..last : width[c] <= DeltaBudget)
      BY <1>3, <2>1, <2>3
    <3>2. e \in Seq(Piece) /\ Len(e) = 0 => Cut(e, f, last)
      BY <3>1 DEF Cut
    <3>3. QED
      BY <2>1, <2>2, <3>2 DEF e
  <2>4. CASE f = last + 1
    <3>1. f..last = {}
      BY <1>1, <2>4
    <3>2. e \in Seq(Piece) /\ Len(e) = 0 /\ Covered(e) = {} => Cut(e, f, last)
      BY <3>1 DEF Cut
    <3>3. QED
      BY <2>1, <2>2, <3>2 DEF e
  <2>5. QED
    BY <1>1, <2>3, <2>4
<1>9. ASSUME NEW f \in D \ B, next[f] \in Good
      PROVE  f \in Good
  <2>1. n(f) # 0 /\ next[f] = f + n(f)
    OBVIOUS
  <2>2. from[f] = <<[first |-> f, last |-> f + n(f) - 1]>> \o from[f + n(f)]
    BY <1>7, <2>1
  <2>3. f + n(f) <= last + 1
    BY <1>1, <1>2, <2>1
  <2>4. Cut(from[f + n(f)], f + n(f), last)
    BY <1>9, <2>1, <2>3
  <2>5. Cut(from[f], f, last)
    BY <1>2, <2>1, <2>2, <2>4, PacketGoesFirst
  <2>6. QED
    BY <2>5
<1>10. D \subseteq Good
  <2> HIDE DEF D, B, next, Good
  <2>1. D \cap B \subseteq Good /\ \A f \in D \ B : next[f] \in Good => f \in Good
    BY <1>8, <1>9
  <2>2. QED
    BY <1>4, <1>6, <2>1, DescentInduction
<1>11. Packets(first, last) = from[first]
  BY DEF Packets, from, n
<1>12. QED
  BY <1>1, <1>10, <1>11

-----------------------------------------------------------------------------
(* The packets s, sent under numbers below q, are cut from the first e      *)
(* characters of an answer whose characters are as wide as w says.          *)
Packet == [first : 1..MaxText, last : 1..MaxText, seq : Nat]
CutUpTo(w, s, q, e) ==
    /\ s \in Seq(Packet) /\ q \in Nat /\ q >= Len(s) + 2
    /\ \A i \in 1..Len(s) :
         /\ s[i].first <= s[i].last /\ s[i].last <= e
         /\ SumFunctionOnSet(w, s[i].first..s[i].last) <= DeltaBudget
         /\ s[i].last - s[i].first < MaxChars
         /\ i > 1 => s[i].first > s[i - 1].last /\ s[i].seq > s[i - 1].seq
         /\ s[i].seq < q

(* They carry all of these characters, if every number was sent and no      *)
(* character is too wide.                                                   *)
WholeUpTo(w, s, q, e) ==
    q = Len(s) + 2 /\ (\A c \in 1..e : w[c] <= DeltaBudget) => Covered(s) = 1..e

(* What Numbered makes of the first k packets.                              *)
LEMMA NumberedPackets ==
    ASSUME NEW ps \in Seq(Piece), NEW k \in 0..Len(ps), seq \in Nat
    PROVE  /\ Numbered(ps, k) \in Seq(Packet) /\ Len(Numbered(ps, k)) = k
           /\ \A i \in 1..k : /\ Numbered(ps, k)[i].first = ps[i].first
                              /\ Numbered(ps, k)[i].last = ps[i].last
                              /\ Numbered(ps, k)[i].seq = seq + i - 1
           /\ k = Len(ps) => Covered(Numbered(ps, k)) = Covered(ps)
<1> DEFINE ns == Numbered(ps, k)
<1>1. Len(ps) \in Nat /\ DOMAIN ps = 1..Len(ps) /\ \A i \in 1..Len(ps) : ps[i] \in Piece
  BY LenProperties, ElementOfSeq
<1>2. ns = [i \in 1..k |-> [first |-> ps[i].first, last |-> ps[i].last, seq |-> seq + i - 1]]
  BY DEF Numbered
<1>3. \A i \in 1..k : [first |-> ps[i].first, last |-> ps[i].last, seq |-> seq + i - 1] \in Packet
  BY <1>1 DEF Piece, Packet
<1>4. ns \in [1..k -> Packet]
  BY <1>2, <1>3
<1>5. ns \in Seq(Packet) /\ Len(ns) = k /\ DOMAIN ns = 1..k
  BY <1>4
<1>6. \A i \in 1..k : ns[i].first = ps[i].first /\ ns[i].last = ps[i].last /\ ns[i].seq = seq + i - 1
  BY <1>2
<1> HIDE DEF ns
<1>7. ASSUME k = Len(ps) PROVE Covered(ns) = Covered(ps)
  BY <1>1, <1>5, <1>6, <1>7 DEF Covered
<1>8. QED
  BY <1>5, <1>6, <1>7 DEF ns

(* Sending some of the packets of the characters after e.                   *)
LEMMA PacketsFollow ==
    ASSUME width \in [1..MaxText -> Nat], NEW e \in 0..MaxText, NEW n \in 1..MaxChars, e + n <= MaxText,
           CutUpTo(width, sent, seq, e),
           NEW ps, ps = Packets(e + 1, e + n), NEW k \in 0..Len(ps),
           NEW q \in Nat, q >= seq + k
    PROVE  CutUpTo(width, sent \o Numbered(ps, k), q, e + n)
<1> DEFINE ns == Numbered(ps, k)
           s == sent \o ns
           L == Len(sent)
           Fine(i) == /\ s[i].first <= s[i].last /\ s[i].last <= e + n
                      /\ SumFunctionOnSet(width, s[i].first..s[i].last) <= DeltaBudget
                      /\ s[i].last - s[i].first < MaxChars
                      /\ i > 1 => s[i].first > s[i - 1].last /\ s[i].seq > s[i - 1].seq
                      /\ s[i].seq < q
<1>1. MaxText \in Nat /\ MaxChars \in Nat /\ e \in Nat /\ n \in Nat /\ e + 1 \in 1..MaxText /\ e + n \in e + 1..MaxText
  BY StreamAssumption
<1>2. Cut(ps, e + 1, e + n)
  BY <1>1, PacketsAreCut
<1>3. sent \in Seq(Packet) /\ L \in Nat /\ seq \in Nat /\ seq >= L + 2
  BY DEF CutUpTo
<1>4. ps \in Seq(Piece) /\ Len(ps) \in Nat /\ k \in Nat /\ \A i \in 1..Len(ps) : ps[i] \in Piece
  BY <1>2, ElementOfSeq DEF Cut
<1>5. /\ ns \in Seq(Packet) /\ Len(ns) = k
      /\ \A i \in 1..k : ns[i].first = ps[i].first /\ ns[i].last = ps[i].last /\ ns[i].seq = seq + i - 1
  BY <1>3, <1>4, NumberedPackets
<1> HIDE DEF ns
<1>6. /\ s \in Seq(Packet) /\ Len(s) = L + k
      /\ \A i \in 1..L : s[i] = sent[i]
      /\ \A i \in Nat, j \in 1..k : i = L + j => s[i] = ns[j]
  <2>0. s \in Seq(Packet) /\ Len(s) = L + k
    BY <1>3, <1>5, ConcatProperties
  <2>1. \A i \in 1..L + k : s[i] = IF i <= L THEN sent[i] ELSE ns[i - L]
    BY <1>3, <1>5, ConcatProperties
  <2> HIDE DEF s, L
  <2>2. \A i \in 1..L : s[i] = sent[i]
    BY <1>3, <1>4, <2>1, SMTT(30)
  <2>3. ASSUME NEW i \in Nat, NEW j \in 1..k, i = L + j PROVE s[i] = ns[j]
    <3>1. i \in 1..L + k /\ ~(i <= L) /\ i - L = j
      BY <1>3, <1>4, <2>3
    <3>2. s[i] = ns[i - L]
      BY <2>1, <3>1
    <3>3. QED
      BY <3>1, <3>2, Zenon
  <2>4. QED
    BY <2>0, <2>2, <2>3
<1>7. \A i \in 1..L : /\ sent[i].last \in Nat /\ sent[i].seq \in Nat /\ sent[i].last <= e
                      /\ sent[i].seq < seq
  <2> SUFFICES ASSUME NEW i \in 1..L
               PROVE  /\ sent[i].last \in Nat /\ sent[i].seq \in Nat /\ sent[i].last <= e
                      /\ sent[i].seq < seq
    OBVIOUS
  <2>1. sent[i] \in Packet
    BY <1>3, ElementOfSeq
  <2>2. sent[i].last \in Nat /\ sent[i].seq \in Nat
    BY <2>1 DEF Packet
  <2>3. QED
    BY <2>2 DEF CutUpTo
<1>8. ASSUME NEW i \in 1..L
      PROVE  Fine(i)
  <2>1. /\ sent[i].first <= sent[i].last /\ sent[i].last <= e
        /\ SumFunctionOnSet(width, sent[i].first..sent[i].last) <= DeltaBudget
        /\ sent[i].last - sent[i].first < MaxChars
        /\ i > 1 => sent[i].first > sent[i - 1].last /\ sent[i].seq > sent[i - 1].seq
        /\ sent[i].seq < seq
    BY DEF CutUpTo
  <2> HIDE DEF s, L
  <2>2. s[i] = sent[i] /\ (i > 1 => s[i - 1] = sent[i - 1])
    <3>1. i > 1 => i - 1 \in 1..L
      BY <1>3
    <3>2. QED
      BY <1>6, <3>1
  <2>3. sent[i].last <= e + n /\ sent[i].seq < q
    <3>1. sent[i].last \in Nat /\ sent[i].seq \in Nat
      BY <1>7
    <3>2. \A a, b \in Nat : a <= e /\ b < seq => a <= e + n /\ b < q
      BY <1>1, <1>3, <1>4
    <3>3. QED
      BY <2>1, <3>1, <3>2
  <2>4. QED
    BY <2>1, <2>2, <2>3
<1>9. ASSUME NEW i \in Nat, NEW j \in 1..k, i = L + j
      PROVE  Fine(i)
  <2>1. j \in 1..Len(ps) /\ j \in Nat /\ k \in Nat /\ i >= j
    BY <1>3, <1>4, <1>9
  <2>2. s[i].first = ps[j].first /\ s[i].last = ps[j].last /\ s[i].seq = seq + j - 1
    BY <1>5, <1>6, <1>9
  <2>3. ps[j].first \in Nat /\ ps[j].last \in Nat
    <3>1. ps[j] \in Piece
      BY <1>4, <2>1
    <3>2. QED
      BY <3>1 DEF Piece
  <2>4. /\ e + 1 <= ps[j].first /\ ps[j].first <= ps[j].last /\ ps[j].last <= e + n
        /\ SumFunctionOnSet(width, ps[j].first..ps[j].last) <= DeltaBudget
        /\ j > 1 => ps[j].first > ps[j - 1].last
    BY <1>2, <2>1 DEF Cut, Bytes
  <2>5. \A a, b \in Nat : e + 1 <= a /\ b <= e + n => b - a < MaxChars
    BY <1>1
  <2>6. ps[j].last - ps[j].first < MaxChars
    BY <2>3, <2>4, <2>5
  <2>7. seq + j - 1 < q
    BY <1>3, <1>4, <2>1
  <2> HIDE DEF s, L
  <2>8. ASSUME i > 1
        PROVE  s[i].first > s[i - 1].last /\ s[i].seq > s[i - 1].seq
    <3>1. CASE j = 1
      <4>1. i - 1 = L /\ L \in 1..L
        BY <1>3, <1>9, <2>8, <3>1
      <4>2. s[L].last \in Nat /\ s[L].seq \in Nat /\ s[L].last <= e /\ s[L].seq < seq
        BY <1>6, <1>7, <4>1
      <4>3. \A a, b, c \in Nat : a <= e /\ e + 1 <= b /\ c < seq => b > a /\ seq + 1 - 1 > c
        BY <1>1, <1>3
      <4>4. QED
        BY <2>2, <2>3, <2>4, <3>1, <4>1, <4>2, <4>3
    <3>2. CASE j # 1
      <4>1. j > 1 /\ j - 1 \in 1..k /\ i - 1 \in Nat /\ i - 1 = L + (j - 1)
        BY <1>3, <1>9, <2>1, <3>2
      <4>2. s[i - 1].last = ps[j - 1].last /\ s[i - 1].seq = seq + (j - 1) - 1
        BY <1>5, <1>6, <4>1
      <4>3. seq + j - 1 > seq + (j - 1) - 1
        BY <1>3, <2>1
      <4>4. QED
        BY <2>2, <2>4, <4>1, <4>2, <4>3
    <3>3. QED
      BY <3>1, <3>2
  <2>9. SumFunctionOnSet(width, s[i].first..s[i].last) <= DeltaBudget
    BY <2>2, <2>4, Zenon
  <2>10. /\ s[i].first <= s[i].last /\ s[i].last <= e + n
         /\ s[i].last - s[i].first < MaxChars /\ s[i].seq < q
    BY <2>2, <2>4, <2>6, <2>7
  <2>11. i > 1 => s[i].first > s[i - 1].last /\ s[i].seq > s[i - 1].seq
    BY <2>8
  <2>12. QED
    BY <2>9, <2>10, <2>11, Zenon
<1>10. CutUpTo(width, s, q, e + n)
  <2>1. Len(s) = L + k /\ q >= Len(s) + 2
    BY <1>3, <1>4, <1>6
  <2>2. ASSUME NEW i \in 1..Len(s) PROVE Fine(i)
    <3>1. i \in Nat /\ (i \in 1..L \/ \E j \in 1..k : i = L + j)
      <4> HIDE DEF s, L
      <4>1. i \in Nat /\ (i \in 1..L \/ (i - L \in 1..k /\ i = L + (i - L)))
        BY <1>3, <1>4, <2>1
      <4>2. QED
        BY <4>1
    <3> HIDE DEF Fine
    <3>2. QED
      BY <1>8, <1>9, <3>1
  <2>3. QED
    BY <1>6, <2>1, <2>2 DEF CutUpTo
<1>11. QED
  BY <1>10 DEF ns

(* Sending all of them leaves nothing out.                                  *)
LEMMA PacketsComplete ==
    ASSUME width \in [1..MaxText -> Nat], NEW e \in 0..MaxText, NEW n \in 1..MaxChars, e + n <= MaxText,
           CutUpTo(width, sent, seq, e), WholeUpTo(width, sent, seq, e),
           NEW ps, ps = Packets(e + 1, e + n), NEW k \in 0..Len(ps),
           NEW q \in Nat, q = seq + (IF k < Len(ps) THEN k + 1 ELSE k)
    PROVE  WholeUpTo(width, sent \o Numbered(ps, k), q, e + n)
<1>1. MaxText \in Nat /\ e \in Nat /\ n \in Nat /\ e + 1 \in 1..MaxText /\ e + n \in e + 1..MaxText
  BY StreamAssumption
<1>2. Cut(ps, e + 1, e + n)
  BY <1>1, PacketsAreCut
<1>3. sent \in Seq(Packet) /\ Len(sent) \in Nat /\ seq \in Nat /\ seq >= Len(sent) + 2
  BY DEF CutUpTo
<1>4. ps \in Seq(Piece) /\ Len(ps) \in Nat /\ k \in Nat
  BY <1>2 DEF Cut
<1> DEFINE ns == Numbered(ps, k)
           s == sent \o ns
<1>5. ns \in Seq(Packet) /\ Len(ns) = k /\ (k = Len(ps) => Covered(ns) = Covered(ps))
  BY <1>3, <1>4, NumberedPackets
<1> HIDE DEF ns
<1>6. Len(s) = Len(sent) + k /\ Covered(s) = Covered(sent) \cup Covered(ns)
  BY <1>3, <1>5, CoveredByBoth, SMTT(30)
<1> HIDE DEF s
<1>7. ASSUME q = Len(s) + 2, \A c \in 1..e + n : width[c] <= DeltaBudget
      PROVE  Covered(s) = 1..e + n
  <2>1. k = Len(ps) /\ seq = Len(sent) + 2
    BY <1>3, <1>4, <1>6, <1>7
  <2>2. (\A c \in 1..e : width[c] <= DeltaBudget) /\ (\A c \in e + 1..e + n : width[c] <= DeltaBudget)
    BY <1>1, <1>7
  <2>3. Covered(sent) = 1..e
    BY <2>1, <2>2 DEF WholeUpTo
  <2>4. Covered(ns) = e + 1..e + n
    BY <1>2, <1>5, <2>1, <2>2 DEF Cut
  <2>5. QED
    BY <1>1, <1>6, <2>3, <2>4
<1>8. QED
  BY <1>7 DEF WholeUpTo, s, ns

(* What is cut from the first e characters is cut from more of them.        *)
LEMMA CutFromMore ==
    ASSUME NEW e \in Nat, NEW f \in Nat, e <= f, NEW q \in Nat, seq <= q,
           CutUpTo(width, sent, seq, e)
    PROVE  CutUpTo(width, sent, q, f)
<1>1. sent \in Seq(Packet) /\ Len(sent) \in Nat /\ seq \in Nat /\ seq >= Len(sent) + 2
  BY DEF CutUpTo
<1>2. q >= Len(sent) + 2
  BY <1>1
<1>3. ASSUME NEW i \in 1..Len(sent)
      PROVE  sent[i].last <= f /\ sent[i].seq < q
  <2>1. sent[i].last <= e /\ sent[i].seq < seq
    BY DEF CutUpTo
  <2>2. sent[i] \in Packet
    BY <1>1, ElementOfSeq
  <2>3. sent[i].last \in Nat /\ sent[i].seq \in Nat
    BY <2>2 DEF Packet
  <2>4. QED
    BY <1>1, <2>1, <2>3
<1>4. QED
  BY <1>1, <1>2, <1>3 DEF CutUpTo

(* What Flushed does to the preview.  A packet that was tried and not sent  *)
(* leaves its number out; one that could not be encoded does not.           *)
Shown(n, last, encoded) ==
    IF n = 0 \/ ~current THEN UNCHANGED <<seq, sent>>
    ELSE LET ps == Packets(last - n + 1, last)
         IN  \E k \in 0..Len(ps) \cup {Len(ps)} :
               /\ sent' = sent \o Numbered(ps, k)
               /\ seq' = seq + (IF encoded /\ k < Len(ps) THEN k + 1 ELSE k)

LEMMA FlushedIsShown ==
    ASSUME NEW n, NEW last, NEW next, NEW c, Flushed(n, last, next, c)
    PROVE  \/ Shown(n, last, TRUE) /\ at' = next /\ code' = code
           \/ Shown(n, last, FALSE) /\ at' = "failing" /\ code' = c
<1>1. CASE n = 0
  BY <1>1 DEF Flushed, Shown
<1>2. CASE n # 0 /\ ~current
  BY <1>2 DEF Flushed, Emit, Shown
<1>3. CASE n # 0 /\ current
  <2> DEFINE ps == Packets(last - n + 1, last)
  <2>1. EmitFrom(ps, next) \/ EmitRaises(ps, last, c)
    BY <1>3 DEF Flushed, Emit
  <2> HIDE DEF ps
  <2>2. CASE EmitFrom(ps, next)
    <3>1. PICK k \in IF SendMayFail THEN 0..Len(ps) ELSE {Len(ps)} :
             /\ sent' = sent \o Numbered(ps, k)
             /\ seq' = seq + (IF k < Len(ps) THEN k + 1 ELSE k)
             /\ at' = next /\ code' = code
      BY <2>2 DEF EmitFrom
    <3>2. k \in 0..Len(ps) \cup {Len(ps)}
      BY <3>1
    <3>3. Shown(n, last, TRUE)
      BY <1>3, <3>1, <3>2 DEF Shown, ps
    <3>4. QED
      BY <3>1, <3>3
  <2>3. CASE EmitRaises(ps, last, c)
    <3>1. PICK k \in 0..Len(ps) : /\ sent' = sent \o Numbered(ps, k) /\ seq' = seq + k
                                  /\ at' = "failing" /\ code' = c
      BY <2>3 DEF EmitRaises
    <3>2. Shown(n, last, FALSE)
      BY <1>3, <3>1 DEF Shown, ps
    <3>3. QED
      BY <3>1, <3>2
  <2>4. QED
    BY <2>1, <2>2, <2>3
<1>4. QED
  BY <1>1, <1>2, <1>3

(* The batcher gives up the n characters it holds after the first e.        *)
LEMMA FlushedText ==
    ASSUME width \in [1..MaxText -> Nat], NEW e \in 0..MaxText, NEW n \in 0..MaxChars, e + n <= MaxText,
           NEW encoded \in BOOLEAN,
           CutUpTo(width, sent, seq, e), Shown(n, e + n, encoded)
    PROVE  /\ CutUpTo(width, sent', seq', e + n)
           /\ encoded /\ current /\ WholeUpTo(width, sent, seq, e) => WholeUpTo(width, sent', seq', e + n)
<1>1. MaxText \in Nat /\ MaxChars \in Nat /\ e \in Nat /\ n \in Nat /\ seq \in Nat
  BY StreamAssumption DEF CutUpTo
<1>2. CASE n = 0
  <2>1. sent' = sent /\ seq' = seq /\ e + n = e
    BY <1>1, <1>2 DEF Shown
  <2>2. QED
    BY <2>1
<1>3. CASE n # 0 /\ ~current
  <2>1. sent' = sent /\ seq' = seq
    BY <1>3 DEF Shown
  <2>2. e + n \in Nat /\ e <= e + n /\ seq <= seq
    BY <1>1
  <2>3. CutUpTo(width, sent, seq, e + n)
    BY <1>1, <2>2, CutFromMore
  <2>4. QED
    BY <1>3, <2>1, <2>3
<1>4. CASE n # 0 /\ current
  <2> DEFINE ps == Packets(e + 1, e + n)
  <2>0. (e + n) - n + 1 = e + 1 /\ n \in 1..MaxChars
    BY <1>1, <1>4
  <2>1. PICK k \in 0..Len(ps) \cup {Len(ps)} :
           /\ sent' = sent \o Numbered(ps, k)
           /\ seq' = seq + (IF encoded /\ k < Len(ps) THEN k + 1 ELSE k)
    BY <1>4, <2>0 DEF Shown
  <2>2. Len(ps) \in Nat
    <3>1. e + 1 \in 1..MaxText /\ e + n \in e + 1..MaxText
      BY <1>1, <2>0
    <3>2. ps \in Seq(Piece)
      BY <3>1, PacketsAreCut DEF Cut
    <3>3. QED
      BY <3>2
  <2> HIDE DEF ps
  <2>3. k \in 0..Len(ps)
    BY <2>1, <2>2
  <2> DEFINE q == seq + (IF encoded /\ k < Len(ps) THEN k + 1 ELSE k)
  <2>4. q \in Nat /\ q >= seq + k
    BY <1>1, <2>2, <2>3
  <2>5. CutUpTo(width, sent \o Numbered(ps, k), q, e + n)
    <3> HIDE DEF q
    <3>1. QED
      BY <2>0, <2>3, <2>4, PacketsFollow DEF ps
  <2>6. encoded /\ WholeUpTo(width, sent, seq, e) => WholeUpTo(width, sent \o Numbered(ps, k), q, e + n)
    BY <2>0, <2>3, <2>4, PacketsComplete DEF ps
  <2>7. QED
    BY <2>1, <2>5, <2>6
<1>5. QED
  BY <1>2, <1>3, <1>4

-----------------------------------------------------------------------------
(* What is known at each place of the worker: a place is reached without a  *)
(* failure, and what it stands for has been done by then.                   *)
WorkerInv ==
    /\ at \in {"reading", "returned", "checking", "ended"} => code = ""
    /\ at \in {"returned", "checking", "ended"} => done /\ todo = 0
    /\ at \in {"checking", "ended"} => batch = 0
    /\ at = "ended" => ink /\ current /\ Bytes(1, parts) <= EndBudget

LEMMA StartInv == StreamInit => WorkerInv
BY DEF StreamInit, WorkerInv

LEMMA SameBytes ==
    ASSUME width' = width, parts' = parts
    PROVE  Bytes(1, parts)' = Bytes(1, parts)
BY DEF Bytes

(* A failure leads to no place anything is known of.                        *)
LEMMA FailKeeps == ASSUME NEW c, Fail(c) PROVE WorkerInv'
BY DEF Fail, WorkerInv

LEMMA HandleKeeps ==
    ASSUME WorkerInv, Reading, NEW e, Handle(e)
    PROVE  WorkerInv'
<1>1. CASE \E c : Fail(c)
  BY <1>1, FailKeeps
<1>2. CASE \/ at' = "reading" /\ code' = code
           \/ at' = "failing"
           \/ at' = "returned" /\ done' /\ todo' = 0 /\ code' = code
  BY <1>2 DEF Reading, WorkerInv
<1>3. CASE \E due \in BOOLEAN, black \in BOOLEAN :
             /\ ink' = (ink \/ black)
             /\ IF due THEN batch' = 0 /\ Flushed(batch, parts, at, "MODEL_ERROR")
                ELSE UNCHANGED <<batch, seq, sent, at, code>>
  <2>1. (at' = at /\ code' = code) \/ at' = "failing"
    BY <1>3, FlushedIsShown
  <2>2. QED
    BY <1>2, <2>1 DEF Reading
<1>4. QED
  BY <1>1, <1>2, <1>3 DEF Handle, Reading

LEMMA WorkerStepKeeps == ASSUME WorkerInv, [StreamNext]_vars PROVE WorkerInv'
<1>1. CASE UNCHANGED vars
  <2>1. Bytes(1, parts)' = Bytes(1, parts)
    BY <1>1, SameBytes DEF vars, provider, client
  <2>2. QED
    BY <1>1, <2>1 DEF vars, provider, client, WorkerInv
<1>2. CASE \E d \in Data : Line(d)
  BY <1>2 DEF Line, Reading, WorkerInv
<1>3. CASE EventEnds
  BY <1>3, HandleKeeps DEF EventEnds
<1>4. CASE ResponseEnds \/ RequestFails
  BY <1>4, FailKeeps DEF ResponseEnds, RequestFails
<1>5. CASE Gather
  <2>1. at = "reading" /\ ((at' = at /\ code' = code) \/ at' = "failing")
    <3> DEFINE piece == Min({todo, MaxChars - batch})
    <3>1. at = "reading" /\ \/ UNCHANGED <<at, code>>
                            \/ Flushed(MaxChars, parts - todo + piece, at, "MODEL_ERROR")
      BY <1>5 DEF Gather
    <3> HIDE DEF piece
    <3>2. QED
      BY <3>1, FlushedIsShown
  <2>2. QED
    BY <2>1 DEF WorkerInv
<1>6. CASE Return
  <2>1. CASE \E c : Fail(c)
    BY <2>1, FailKeeps
  <2>2. CASE /\ batch' = 0 /\ Flushed(batch, parts, "checking", "DAEMON_ERROR")
             /\ UNCHANGED <<done, parts, ink, todo>>
    <3>1. (at' = "checking" /\ code' = code) \/ at' = "failing"
      BY <2>2, FlushedIsShown
    <3>2. QED
      BY <1>6, <2>2, <3>1 DEF Return, WorkerInv
  <2>3. QED
    BY <1>6, <2>1, <2>2 DEF Return
<1>7. CASE Finish
  <2>1. CASE \E c : Fail(c)
    BY <2>1, FailKeeps
  <2>2. CASE /\ ink /\ UNCHANGED <<width, done, parts, ink, todo, batch, current, code>>
             /\ \/ at' = "dropped"
                \/ at' = "ended" /\ current /\ Bytes(1, parts) <= EndBudget
    <3>1. done /\ todo = 0 /\ batch = 0 /\ code = ""
      BY <1>7 DEF Finish, WorkerInv
    <3>2. CASE at' = "dropped"
      BY <3>2 DEF WorkerInv
    <3>3. CASE at' = "ended" /\ current /\ Bytes(1, parts) <= EndBudget
      <4>1. Bytes(1, parts)' = Bytes(1, parts)
        BY <2>2, SameBytes
      <4>2. (Bytes(1, parts) <= EndBudget)'
        BY <3>3, <4>1
      <4>3. QED
        BY <2>2, <3>1, <3>3, <4>2 DEF WorkerInv
    <3>4. QED
      BY <2>2, <3>2, <3>3
  <2>3. QED
    BY <1>7, <2>1, <2>2 DEF Finish, provider
<1>8. CASE Report
  BY <1>8 DEF Report, WorkerInv
<1>9. CASE Supersede
  BY <1>9 DEF Supersede, WorkerInv, client
<1>10. QED
  BY <1>1, <1>2, <1>3, <1>4, <1>5, <1>6, <1>7, <1>8, <1>9 DEF StreamNext, Work

LEMMA WorkerInvariant == StreamSpec => []WorkerInv
BY StartInv, WorkerStepKeeps, PTL DEF StreamSpec

(* However a provider stops, an answer it did not declare complete, or that *)
(* is blank, too long, partly held back or no longer wanted, is not         *)
(* committed (openai.py:216-218, daemon.py:1163-1245).                      *)
THEOREM AnswersAreWhole == StreamSpec => []OnlyWholeAnswers
<1>1. WorkerInv => OnlyWholeAnswers
  BY DEF WorkerInv, OnlyWholeAnswers
<1>2. QED
  BY <1>1, WorkerInvariant, PTL

(* A worker whose game reconnected, moved or went away says nothing more,   *)
(* in whatever it was interrupted (daemon.py:1094-1100).                    *)
THEOREM SupersededStaysSilent == StreamSpec => SupersededIsSilent
<1> DEFINE Silent == ~current => seq' = seq /\ sent' = sent /\ at' # "ended"
<1>1. WorkerInv /\ [StreamNext]_vars => [Silent]_vars
  <2> SUFFICES ASSUME WorkerInv, StreamNext, ~current PROVE Silent
    OBVIOUS
  <2>1. at # "ended"
    BY DEF WorkerInv
  <2>2. CASE \E d \in Data : Line(d)
    BY <2>1, <2>2 DEF Line
  <2>3. CASE EventEnds
    BY <2>1, <2>3 DEF EventEnds, Reading, Handle, Fail, Flushed, Emit
  <2>4. CASE ResponseEnds \/ RequestFails
    BY <2>4 DEF ResponseEnds, RequestFails, Fail
  <2>5. CASE Gather
    BY <2>1, <2>5 DEF Gather, Flushed, Emit
  <2>6. CASE Return \/ Finish \/ Report
    BY <2>6 DEF Return, Finish, Report, Fail, Flushed, Emit
  <2>7. CASE Supersede
    BY <2>7 DEF Supersede
  <2>8. QED
    BY <2>2, <2>3, <2>4, <2>5, <2>6, <2>7 DEF StreamNext, Work
<1>2. QED
  BY <1>1, WorkerInvariant, PTL DEF StreamSpec, SupersededIsSilent

-----------------------------------------------------------------------------
(* The characters the batcher has let go of.                                *)
LetGo == parts - todo - batch

(* The worker's own variables, and how its counters of text are related.    *)
Counts ==
    /\ width \in [1..MaxText -> Widths] /\ lines \in 0..MaxLines /\ closed \in BOOLEAN
    /\ event \in Seq(Data) /\ done \in BOOLEAN /\ ink \in BOOLEAN
    /\ parts \in 0..MaxText /\ todo \in 0..parts /\ batch \in 0..MaxChars - 1
    /\ batch + todo <= parts
    /\ current \in BOOLEAN /\ at \in Place /\ code \in Code

(* What a step does to the preview: either the batcher lets n more          *)
(* characters go, or a number is taken for the packet that ends the         *)
(* exchange.                                                                *)
Preview ==
    /\ width' = width
    /\ current' => current
    /\ at \notin {"ended", "failed"}
    /\ at = "failing" /\ current' => at' \in {"failing", "failed"}
    /\ \/ \E n \in 0..MaxChars : /\ LetGo' = LetGo + n /\ LetGo + n <= MaxText
                                 /\ Shown(n, LetGo + n, at' # "failing")
       \/ LetGo' = LetGo /\ sent' = sent /\ seq' = seq + 1 /\ at' \in {"ended", "failed"}

LEMMA EmptyOfData == << >> \in Seq(Data)
OBVIOUS

LEMMA NothingFlushed ==
    ASSUME Counts, UNCHANGED <<parts, todo, batch, seq, sent>>
    PROVE  \E n \in 0..MaxChars : /\ LetGo' = LetGo + n /\ LetGo + n <= MaxText
                                  /\ Shown(n, LetGo + n, at' # "failing")
<1>1. 0 \in 0..MaxChars /\ LetGo' = LetGo + 0 /\ LetGo + 0 <= MaxText
  BY StreamAssumption DEF Counts, LetGo
<1>2. Shown(0, LetGo + 0, at' # "failing")
  BY DEF Shown
<1>3. QED
  BY <1>1, <1>2

LEMMA BatchFlushed ==
    ASSUME Counts, NEW n \in 0..MaxChars, LetGo' = LetGo + n, LetGo + n <= MaxText,
           NEW next, next # "failing", NEW c, Flushed(n, LetGo + n, next, c)
    PROVE  \E m \in 0..MaxChars : /\ LetGo' = LetGo + m /\ LetGo + m <= MaxText
                                  /\ Shown(m, LetGo + m, at' # "failing")
<1>1. \/ Shown(n, LetGo + n, TRUE) /\ at' # "failing"
      \/ Shown(n, LetGo + n, FALSE) /\ at' = "failing"
  <2> DEFINE last == LetGo + n
  <2> HIDE DEF last
  <2>1. Flushed(n, last, next, c)
    BY DEF last
  <2>2. \/ Shown(n, last, TRUE) /\ at' = next
        \/ Shown(n, last, FALSE) /\ at' = "failing"
    BY <2>1, FlushedIsShown
  <2>3. QED
    BY <2>2 DEF last
<1>2. Shown(n, LetGo + n, at' # "failing")
  BY <1>1 DEF Shown
<1>3. QED
  BY <1>2

(* Per part of a step: the counters stay related, and the preview moves.    *)
LEMMA FailCounts ==
    ASSUME Counts, NEW c \in Code, Fail(c), UNCHANGED <<width, lines, current>>,
           event' \in Seq(Data), closed' \in BOOLEAN, at \notin {"ended", "failed"}
    PROVE  Counts' /\ Preview
<1>1. UNCHANGED <<parts, todo, batch, seq, sent>>
  BY DEF Fail
<1>2. Preview
  BY <1>1, NothingFlushed DEF Preview, Fail
<1>3. Counts'
  BY DEF Fail, Counts, Place
<1>4. QED
  BY <1>2, <1>3

LEMMA HandleCounts ==
    ASSUME Counts, Reading, NEW e, Handle(e), UNCHANGED <<width, lines, current>>,
           event' \in Seq(Data), closed' \in BOOLEAN
    PROVE  Counts' /\ Preview
<1>0. at \notin {"ended", "failed"} /\ todo = 0
  BY DEF Reading
<1>1. CASE \E c \in {"MODEL_ERROR", "MODEL_PROTOCOL"} : Fail(c)
  BY <1>0, <1>1, FailCounts DEF Code
<1>2. CASE /\ UNCHANGED <<parts, ink, todo, batch, seq, sent, code>>
           /\ \/ done' = TRUE /\ at' = "returned"
              \/ UNCHANGED <<done, at>>
  <2>1. Preview
    BY <1>0, <1>2, NothingFlushed DEF Preview, Reading
  <2>2. Counts'
    BY <1>2 DEF Counts, Place
  <2>3. QED
    BY <2>1, <2>2
<1>3. CASE /\ e.chars \in 1..MaxText - parts
           /\ \E due \in BOOLEAN, black \in BOOLEAN :
                /\ ink' = (ink \/ black)
                /\ IF due THEN batch' = 0 /\ Flushed(batch, parts, at, "MODEL_ERROR")
                   ELSE UNCHANGED <<batch, seq, sent, at, code>>
           /\ parts' = parts + e.chars /\ todo' = e.chars
           /\ UNCHANGED done
  <2>1. PICK due \in BOOLEAN, black \in BOOLEAN :
                /\ ink' = (ink \/ black)
                /\ IF due THEN batch' = 0 /\ Flushed(batch, parts, at, "MODEL_ERROR")
                   ELSE UNCHANGED <<batch, seq, sent, at, code>>
    BY <1>3
  <2> DEFINE x == e.chars
  <2>2. /\ x \in Nat /\ x <= MaxText - parts /\ parts \in Nat /\ parts <= MaxText /\ MaxText \in Nat
        /\ batch \in Nat /\ batch <= MaxChars - 1 /\ MaxChars \in Nat /\ batch <= parts
        /\ parts' = parts + x /\ todo' = x /\ todo = 0
    BY <1>0, <1>3, StreamAssumption DEF Counts
  <2>3. batch' \in {0, batch}
    BY <2>1
  <2> HIDE DEF x
  <2>4. Counts'
    <3>0. batch' \in Nat /\ batch' <= batch
      BY <2>2, <2>3
    <3>1. /\ parts' \in 0..MaxText /\ todo' \in 0..parts'
          /\ batch' \in 0..MaxChars - 1 /\ batch' + todo' <= parts'
      <4>1. \A b, c \in Nat : b <= c /\ c <= MaxChars - 1 /\ c <= parts =>
              b \in 0..MaxChars - 1 /\ b + x <= parts + x
        BY <2>2
      <4>2. parts + x \in 0..MaxText /\ x \in 0..parts + x
        BY <2>2
      <4>3. batch' \in 0..MaxChars - 1 /\ batch' + x <= parts + x
        BY <2>2, <3>0, <4>1
      <4>4. QED
        BY <2>2, <4>2, <4>3, Zenon
    <3>2. ink' \in BOOLEAN
      BY <2>1 DEF Counts
    <3>3. (at' = at /\ code' = code) \/ (at' = "failing" /\ code' = "MODEL_ERROR")
      BY <2>1, FlushedIsShown
    <3>4. at' \in Place /\ code' \in Code
      BY <3>3 DEF Counts, Place, Code
    <3>5. QED
      BY <1>3, <3>1, <3>2, <3>4 DEF Counts
  <2>5. \E n \in 0..MaxChars : /\ LetGo' = LetGo + n /\ LetGo + n <= MaxText
                               /\ Shown(n, LetGo + n, at' # "failing")
    <3>1. CASE due
      <4>1. batch \in 0..MaxChars /\ LetGo' = LetGo + batch /\ LetGo + batch = parts
        BY <2>1, <2>2, <3>1 DEF LetGo
      <4>2. Flushed(batch, LetGo + batch, at, "MODEL_ERROR") /\ at # "failing"
        BY <2>1, <3>1, <4>1 DEF Reading
      <4>3. QED
        BY <2>2, <4>1, <4>2, BatchFlushed
    <3>2. CASE ~due
      <4>1. 0 \in 0..MaxChars /\ LetGo' = LetGo + 0 /\ LetGo + 0 <= MaxText
        BY <2>1, <2>2, <3>2 DEF LetGo
      <4>2. Shown(0, LetGo + 0, at' # "failing")
        BY <2>1, <3>2 DEF Shown
      <4>3. QED
        BY <4>1, <4>2
    <3>3. QED
      BY <3>1, <3>2
  <2>6. QED
    BY <1>0, <2>4, <2>5 DEF Preview, Reading
<1>4. QED
  BY <1>1, <1>2, <1>3 DEF Handle

LEMMA GatherCounts == ASSUME Counts, Gather PROVE Counts' /\ Preview
<1> DEFINE piece == Min({todo, MaxChars - batch})
<1>1. /\ todo \in Nat /\ todo > 0 /\ parts \in Nat /\ parts <= MaxText /\ MaxText \in Nat
      /\ batch \in Nat /\ batch < MaxChars /\ MaxChars \in Nat /\ batch + todo <= parts
  BY StreamAssumption DEF Counts, Gather
<1>2. /\ piece \in Nat /\ piece > 0 /\ piece <= todo /\ piece <= MaxChars - batch
  <2>1. \A a, b \in Nat : Min({a, b}) = IF a <= b THEN a ELSE b
    BY DEF Min
  <2>2. MaxChars - batch \in Nat /\ MaxChars - batch > 0
    BY <1>1
  <2>3. piece = IF todo <= MaxChars - batch THEN todo ELSE MaxChars - batch
    BY <1>1, <2>1, <2>2
  <2> HIDE DEF piece
  <2>4. QED
    BY <1>1, <2>3
<1>3. /\ todo' = todo - piece
      /\ IF batch + piece < MaxChars
         THEN batch' = batch + piece /\ UNCHANGED <<seq, sent, at, code>>
         ELSE batch' = 0 /\ Flushed(MaxChars, parts - todo + piece, at, "MODEL_ERROR")
      /\ UNCHANGED <<provider, client, current>> /\ at = "reading"
  BY DEF Gather
<1> HIDE DEF piece
<1>4. parts' = parts
  BY <1>3 DEF client
<1>5. Counts'
  <2>1. todo' \in 0..parts' /\ batch' \in 0..MaxChars - 1 /\ batch' + todo' <= parts'
    BY <1>1, <1>2, <1>3, <1>4
  <2>2. (at' = at /\ code' = code) \/ (at' = "failing" /\ code' = "MODEL_ERROR")
    BY <1>3, FlushedIsShown
  <2>3. at' \in Place /\ code' \in Code
    BY <2>2 DEF Counts, Place, Code
  <2>4. QED
    BY <1>3, <2>1, <2>3 DEF Counts, provider, client
<1>6. \E n \in 0..MaxChars : /\ LetGo' = LetGo + n /\ LetGo + n <= MaxText
                             /\ Shown(n, LetGo + n, at' # "failing")
  <2>1. CASE batch + piece < MaxChars
    <3>1. 0 \in 0..MaxChars /\ LetGo' = LetGo + 0 /\ LetGo + 0 <= MaxText
      BY <1>1, <1>2, <1>3, <1>4, <2>1 DEF LetGo
    <3>2. Shown(0, LetGo + 0, at' # "failing")
      BY <1>3, <2>1 DEF Shown
    <3>3. QED
      BY <3>1, <3>2
  <2>2. CASE ~(batch + piece < MaxChars)
    <3>1. /\ MaxChars \in 0..MaxChars /\ LetGo' = LetGo + MaxChars
          /\ LetGo + MaxChars <= MaxText /\ LetGo + MaxChars = parts - todo + piece
      BY <1>1, <1>2, <1>3, <1>4, <2>2 DEF LetGo
    <3>2. Flushed(MaxChars, LetGo + MaxChars, at, "MODEL_ERROR") /\ at # "failing"
      BY <1>3, <2>2, <3>1
    <3>3. QED
      BY <3>1, <3>2, BatchFlushed
  <2>3. QED
    BY <2>1, <2>2
<1>7. QED
  BY <1>3, <1>5, <1>6 DEF Preview, provider

LEMMA ReturnCounts == ASSUME Counts, WorkerInv, Return PROVE Counts' /\ Preview
<1>1. at = "returned" /\ todo = 0 /\ UNCHANGED <<provider, event, current>>
  BY DEF Return, WorkerInv
<1>2. UNCHANGED <<width, lines, current>> /\ event' \in Seq(Data) /\ closed' \in BOOLEAN
  BY <1>1 DEF Counts, provider
<1>3. CASE \E c \in {"MODEL_EMPTY", "REQUEST_STALE"} : Fail(c)
  BY <1>1, <1>2, <1>3, FailCounts DEF Code
<1>4. CASE /\ batch' = 0 /\ Flushed(batch, parts, "checking", "DAEMON_ERROR")
           /\ UNCHANGED <<done, parts, ink, todo>>
  <2>1. /\ parts \in Nat /\ parts <= MaxText /\ MaxText \in Nat /\ todo = 0 /\ batch <= parts
        /\ batch \in Nat /\ batch <= MaxChars - 1 /\ MaxChars \in Nat /\ MaxChars > 0
    BY <1>1, StreamAssumption DEF Counts
  <2>2. Counts'
    <3>1. batch' \in 0..MaxChars - 1 /\ batch' + todo' <= parts'
      BY <1>4, <2>1
    <3>2. (at' = "checking" /\ code' = code) \/ (at' = "failing" /\ code' = "DAEMON_ERROR")
      BY <1>4, FlushedIsShown
    <3>3. at' \in Place /\ code' \in Code
      BY <3>2 DEF Counts, Place, Code
    <3>4. QED
      BY <1>2, <1>4, <3>1, <3>3 DEF Counts
  <2>3. batch \in 0..MaxChars /\ LetGo' = LetGo + batch /\ LetGo + batch = parts
    BY <1>4, <2>1 DEF LetGo
  <2>4. Flushed(batch, LetGo + batch, "checking", "DAEMON_ERROR")
    BY <1>4, <2>3
  <2>5. \E n \in 0..MaxChars : /\ LetGo' = LetGo + n /\ LetGo + n <= MaxText
                               /\ Shown(n, LetGo + n, at' # "failing")
    BY <2>1, <2>3, <2>4, BatchFlushed
  <2>6. QED
    BY <1>1, <1>2, <2>2, <2>5 DEF Preview
<1>5. QED
  BY <1>3, <1>4 DEF Return

(* The step that takes the number of the packet that ends the exchange.     *)
LEMMA LastNumber ==
    ASSUME Counts, UNCHANGED <<provider, client, todo, batch, sent, current>>,
           at \notin {"ended", "failed"}, at' \in {"ended", "failed"},
           at = "failing" => at' = "failed", seq' = seq + 1, code' = code
    PROVE  Counts' /\ Preview
<1>1. Counts'
  BY DEF Counts, provider, client, Place
<1>2. QED
  BY <1>1 DEF Preview, provider, client, LetGo

LEMMA CountsStep == ASSUME Counts, WorkerInv, StreamNext PROVE Counts' /\ Preview
<1>1. ASSUME NEW d \in Data, Line(d) PROVE Counts' /\ Preview
  <2>1. UNCHANGED <<width, parts, todo, batch, seq, sent, current>> /\ at = "reading"
    BY <1>1 DEF Line, Reading
  <2>2. Preview
    BY <2>1, NothingFlushed DEF Preview
  <2>3. lines' \in 0..MaxLines /\ event' \in Seq(Data)
    BY <1>1, StreamAssumption DEF Line, Counts
  <2>4. QED
    BY <1>1, <2>2, <2>3 DEF Line, Counts
<1>2. CASE EventEnds
  <2>1. closed' \in BOOLEAN
    BY <1>2 DEF EventEnds, Counts
  <2>2. event' \in Seq(Data)
    BY <1>2, EmptyOfData DEF EventEnds
  <2>3. QED
    BY <1>2, <2>1, <2>2, HandleCounts DEF EventEnds
<1>3. CASE ResponseEnds \/ RequestFails
  <2>1. closed' \in BOOLEAN /\ event' \in Seq(Data) /\ at = "reading" /\ UNCHANGED <<width, lines, current>>
    BY <1>3 DEF ResponseEnds, RequestFails, Reading, Counts
  <2>2. \E c \in Code : Fail(c)
    BY <1>3 DEF ResponseEnds, RequestFails, Code
  <2>3. QED
    BY <2>1, <2>2, FailCounts
<1>4. CASE Finish
  <2>1. at = "checking" /\ UNCHANGED <<provider, event, current>>
    BY <1>4 DEF Finish
  <2>2. CASE \E c \in {"MODEL_EMPTY", "MODEL_TOO_LARGE", "DAEMON_ERROR"} : Fail(c)
    <3>1. event' \in Seq(Data) /\ closed' \in BOOLEAN /\ UNCHANGED <<width, lines, current>>
      BY <2>1 DEF Counts, provider
    <3>2. QED
      BY <2>1, <2>2, <3>1, FailCounts DEF Code
  <2>3. CASE at' = "dropped" /\ UNCHANGED <<seq, done, parts, ink, todo, batch, sent, code>>
    <3>1. Preview
      BY <2>1, <2>3, NothingFlushed DEF Preview, provider
    <3>2. QED
      BY <2>1, <2>3, <3>1 DEF Counts, provider, Place
  <2>4. CASE at' = "ended" /\ seq' = seq + 1 /\ UNCHANGED <<done, parts, ink, todo, batch, sent, code>>
    BY <2>1, <2>4, LastNumber DEF client
  <2>5. QED
    BY <1>4, <2>2, <2>3, <2>4 DEF Finish
<1>5. CASE Report
  <2>1. CASE at' = "failed" /\ seq' = seq + 1
    BY <1>5, <2>1, LastNumber DEF Report
  <2>2. CASE at' = "dropped" /\ seq' = seq
    <3>1. Preview
      BY <1>5, <2>2, NothingFlushed DEF Report, Preview, provider, client
    <3>2. QED
      BY <1>5, <2>2, <3>1 DEF Report, Counts, provider, client, Place
  <2>3. QED
    BY <1>5, <2>1, <2>2 DEF Report
<1>6. CASE Supersede
  <2>1. Preview
    BY <1>6, NothingFlushed DEF Supersede, Preview, provider, client
  <2>2. QED
    BY <1>6, <2>1 DEF Supersede, Counts, provider, client
<1>7. QED
  BY <1>1, <1>2, <1>3, <1>4, <1>5, <1>6, GatherCounts, ReturnCounts DEF StreamNext, Work

(* What has been sent is cut from what the batcher let go of, and while the *)
(* request is current and has not failed nothing of that is missing.        *)
StreamInv ==
    /\ Counts
    /\ CutUpTo(width, sent, seq, LetGo)
    /\ current /\ at \notin {"ended", "failing", "failed"} => WholeUpTo(width, sent, seq, LetGo)

LEMMA StreamStarts == StreamInit => StreamInv
<1> SUFFICES ASSUME StreamInit PROVE StreamInv
  OBVIOUS
<1>0. parts = 0 /\ todo = 0 /\ batch = 0 /\ lines = 0 /\ seq = 2
  BY DEF StreamInit
<1>1. LetGo = 0 /\ sent = << >> /\ seq = 2
  <2>1. sent = << >>
    BY DEF StreamInit
  <2>2. LetGo = 0
    BY <1>0 DEF LetGo
  <2>3. QED
    BY <1>0, <2>1, <2>2
<1>2. Len(<< >>) = 0 /\ << >> \in Seq(Packet) /\ Covered(<< >>) = {}
  <2>1. Covered(<< >>) = {}
    BY DEF Covered
  <2>2. Len(<< >>) = 0 /\ << >> \in Seq(Packet)
    OBVIOUS
  <2>3. QED
    BY <2>1, <2>2, Zenon
<1> DEFINE e == << >>
<1> HIDE DEF e
<1>3. Len(e) = 0 /\ e \in Seq(Packet) /\ Covered(e) = {} =>
        CutUpTo(width, e, 2, 0) /\ WholeUpTo(width, e, 2, 0)
  BY DEF CutUpTo, WholeUpTo
<1>4. Counts
  <2>1. event \in Seq(Data)
    BY EmptyOfData DEF StreamInit
  <2>2. 0 \in 0..MaxLines /\ 0 \in 0..MaxText /\ 0 \in 0..0 /\ 0 \in 0..MaxChars - 1 /\ 0 + 0 <= 0
    BY StreamAssumption
  <2>3. /\ width \in [1..MaxText -> Widths] /\ closed \in BOOLEAN /\ done \in BOOLEAN
        /\ ink \in BOOLEAN /\ current \in BOOLEAN /\ at \in Place /\ code \in Code
    BY DEF StreamInit, Place, Code
  <2>4. QED
    BY <1>0, <2>1, <2>2, <2>3, Zenon DEF Counts
<1>5. QED
  BY <1>1, <1>2, <1>3, <1>4 DEF StreamInv, e

LEMMA LetGoIsSome == ASSUME Counts PROVE LetGo \in 0..MaxText
BY StreamAssumption DEF Counts, LetGo

LEMMA StreamStepKeeps == ASSUME StreamInv, WorkerInv, [StreamNext]_vars PROVE StreamInv'
<1>1. CASE UNCHANGED vars
  BY <1>1 DEF vars, provider, client, StreamInv, Counts, LetGo
<1>2. CASE StreamNext
  <2>1. Counts' /\ Preview
    BY <1>2, CountsStep DEF StreamInv
  <2> DEFINE e == LetGo
  <2>2. /\ width \in [1..MaxText -> Nat] /\ e \in 0..MaxText /\ CutUpTo(width, sent, seq, e)
        /\ width' = width /\ (current' => current)
        /\ current /\ at # "failing" => WholeUpTo(width, sent, seq, e)
    BY <2>1, LetGoIsSome, StreamAssumption DEF StreamInv, Counts, Preview
  <2> HIDE DEF e
  <2>3. CASE \E n \in 0..MaxChars : /\ LetGo' = e + n /\ e + n <= MaxText
                                    /\ Shown(n, e + n, at' # "failing")
    <3>1. PICK n \in 0..MaxChars : /\ LetGo' = e + n /\ e + n <= MaxText
                                   /\ Shown(n, e + n, at' # "failing")
      BY <2>3
    <3>2. /\ CutUpTo(width, sent', seq', e + n)
          /\ at' # "failing" /\ current /\ WholeUpTo(width, sent, seq, e) => WholeUpTo(width, sent', seq', e + n)
      BY <2>2, <3>1, FlushedText
    <3>3. /\ CutUpTo(width', sent', seq', LetGo')
          /\ current' /\ at' \notin {"failing", "failed"} => WholeUpTo(width', sent', seq', LetGo')
      BY <2>1, <2>2, <3>1, <3>2 DEF Preview
    <3>4. QED
      BY <2>1, <3>3 DEF StreamInv
  <2>4. CASE LetGo' = e /\ sent' = sent /\ seq' = seq + 1 /\ at' \in {"ended", "failed"}
    <3>1. e \in Nat /\ seq \in Nat /\ seq + 1 \in Nat /\ seq <= seq + 1 /\ e <= e
      BY <2>2, StreamAssumption DEF CutUpTo
    <3>2. CutUpTo(width, sent, seq + 1, e)
      BY <2>2, <3>1, CutFromMore
    <3>3. CutUpTo(width', sent', seq', LetGo')
      BY <2>2, <2>4, <3>2
    <3>4. QED
      BY <2>1, <2>4, <3>3 DEF StreamInv
  <2>5. QED
    BY <2>1, <2>3, <2>4 DEF Preview, e
<1>3. QED
  BY <1>1, <1>2

LEMMA StreamInvariant == StreamSpec => []StreamInv
BY StreamStarts, StreamStepKeeps, WorkerInvariant, PTL DEF StreamSpec

(* Every variable of the worker keeps its type: no counter of characters    *)
(* leaves its range, whatever the sizes.                                    *)
THEOREM StreamTypeCorrect == StreamSpec => []StreamTypeOK
<1>1. StreamInv => StreamTypeOK
  <2> SUFFICES ASSUME StreamInv PROVE StreamTypeOK
    OBVIOUS
  <2>1. seq \in Nat /\ sent \in Seq([first : 1..MaxText, last : 1..MaxText, seq : Nat])
    BY DEF StreamInv, CutUpTo, Packet
  <2>2. event \in Seq(Data \cup {Other("half")})
    <3>1. Data \cup {Other("half")} = Data
      BY DEF Data
    <3>2. QED
      BY <3>1 DEF StreamInv, Counts
  <2>3. batch \in 0..MaxChars
    BY StreamAssumption DEF StreamInv, Counts
  <2>4. QED
    BY <2>1, <2>2, <2>3 DEF StreamInv, Counts, StreamTypeOK
<1>2. QED
  BY <1>1, StreamInvariant, PTL

(* The bisection of _emit_delta finds the longest prefix that fits a        *)
(* packet, however wide the characters are (daemon.py:1119-1141).           *)
THEOREM BisectionFindsLongest == StreamSpec => []BisectionIsExact
<1>1. ASSUME NEW f \in 1..MaxText, NEW l \in 1..MaxText, f <= l, NEW n, n = Longest(f, l)
      PROVE  (n = 0 \/ Fits(f, n)) /\ (n < l - f + 1 => ~Fits(f, n + 1))
  <2>1. l \in f..MaxText
    BY <1>1, StreamAssumption
  <2>2. QED
    BY <1>1, <2>1, LongestIsExact DEF Exact
<1>2. BisectionIsExact
  BY <1>1 DEF BisectionIsExact
<1>3. QED
  BY <1>2, PTL

(* However the answer is cut into events, batches and packets, and whatever *)
(* send fails, the preview is cut from the answer in its order, within the  *)
(* limits of packet and batch (daemon.py:240-286, 1102-1161).               *)
THEOREM PreviewsAreCut == StreamSpec => []PreviewIsCut
<1>1. StreamInv => PreviewIsCut
  <2> SUFFICES ASSUME StreamInv PROVE PreviewIsCut
    OBVIOUS
  <2>1. CutUpTo(width, sent, seq, parts - todo - batch)
    BY DEF StreamInv, LetGo
  <2>2. DOMAIN sent = 1..Len(sent)
    BY <2>1 DEF CutUpTo
  <2>3. QED
    BY <2>1, <2>2 DEF CutUpTo, PreviewIsCut, Bytes
<1>2. QED
  BY <1>1, StreamInvariant, PTL

(* As long as every packet was sent, and the request is current, the player *)
(* has read all the batcher let go of: the two halves of every cut meet     *)
(* (daemon.py:1102-1161).                                                   *)
THEOREM PreviewsAreWhole == StreamSpec => []PreviewIsWhole
<1>1. StreamInv => PreviewIsWhole
  <2> SUFFICES ASSUME StreamInv, Lossless PROVE Covered(sent) = 1..LetGo
    BY DEF PreviewIsWhole, Covered, LetGo
  <2>1. WholeUpTo(width, sent, seq, LetGo) /\ seq = Len(sent) + 2
    BY DEF StreamInv, Lossless
  <2>2. \A c \in 1..LetGo : c \in 1..parts
    BY StreamAssumption DEF StreamInv, Counts, LetGo
  <2>3. \A c \in 1..LetGo : width[c] <= DeltaBudget
    BY <2>2 DEF Lossless
  <2>4. QED
    BY <2>1, <2>3 DEF WholeUpTo
<1>2. QED
  BY <1>1, StreamInvariant, PTL
=============================================================================
