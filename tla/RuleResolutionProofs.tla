------------------------- MODULE RuleResolutionProofs -------------------------
(***************************************************************************)
(* The compiled matcher chooses the first rule that matches, for every     *)
(* list of gateway rules and every name; HAProxy chooses the same one for  *)
(* every name without outer dots; whatever reads of one address overlap,   *)
(* each returns what its server had meanwhile; and for every file the list *)
(* Normalize makes is in the order of the page, so that the first rule of  *)
(* the page decides and smartdns and the gateways agree.                   *)
(***************************************************************************)
EXTENDS RuleResolution, TLAPS, WellFoundedInduction

Chars == Labels \cup {Dot}

(* What it means for a rule to match a name without dots at its ends.      *)
Matches(r, h) ==
    \/ h \in ExactNames(r)
    \/ \E n \in SuffixNames(r) : Starts(n, h)
    \/ \E p \in r.pattern : h \in p

(* What Compile has refused is not in force.                               *)
NamesAreThere(g) ==
    \A k \in DOMAIN g : <<>> \notin ExactNames(g[k]) \cup SuffixNames(g[k])

-----------------------------------------------------------------------------
(* Every set of ranks has a least element, and Least is it.                *)
LEMMA LeastIsLeast ==
    ASSUME NEW S, S \subseteq Nat, S # {}
    PROVE  Least(S) \in S /\ \A j \in S : Least(S) <= j
<1>1. PICK x \in S : \A y \in S : <<y, x>> \notin OpToRel(<, Nat)
  BY NatLessThanWellFounded, WFMin
<1>2. \A y \in S : x <= y
  <2>1. TAKE y \in S
  <2>2. ~(y < x)
    BY <1>1 DEF OpToRel
  <2> QED BY <2>2
<1> QED BY <1>2 DEF Least

(* The least rank is told by these two facts.                              *)
LEMMA LeastIs ==
    ASSUME NEW S, S \subseteq Nat, NEW k \in S, \A j \in S : k <= j
    PROVE  Least(S) = k
<1>1. Least(S) \in S /\ \A j \in S : Least(S) <= j
  BY LeastIsLeast
<1>2. Least(S) <= k /\ k <= Least(S)
  BY <1>1
<1>3. Least(S) \in Nat /\ k \in Nat
  BY <1>1
<1> QED BY <1>2, <1>3

-----------------------------------------------------------------------------
(* Recursion over the ranks of a list, and the two lists made by it.       *)

(* Counting up from 0 to n.                                                *)
LEMMA CountingUp ==
    ASSUME NEW n \in Nat, NEW T, 0 \in T, \A k \in 1 .. n : k - 1 \in T => k \in T
    PROVE  0 .. n \subseteq T
<1> DEFINE missed == (0 .. n) \ T
<1> SUFFICES ASSUME missed # {} PROVE FALSE
  OBVIOUS
<1>1. missed \subseteq Nat
  OBVIOUS
<1>2. Least(missed) \in missed /\ \A j \in missed : Least(missed) <= j
  BY <1>1, LeastIsLeast
<1> DEFINE k == Least(missed)
<1>3. k \in 1 .. n /\ k - 1 \in 0 .. n /\ k \notin T
  BY <1>2
<1>4. k - 1 \notin missed
  BY <1>2, <1>3
<1> HIDE DEF k
<1> QED BY <1>3, <1>4

(* f is what the loop computes that starts with x and takes each step.     *)
IsRecursion(f, n, X, x, step) ==
    f \in [0 .. n -> X] /\ f[0] = x /\ \A k \in 1 .. n : f[k] = step[k][f[k - 1]]

(* What a recursion from 0 up to n computes exists.                        *)
LEMMA RecursionExists ==
    ASSUME NEW n \in Nat, NEW X, NEW x \in X, NEW step \in [1 .. n -> [X -> X]]
    PROVE  \E f : IsRecursion(f, n, X, x, step)
<1> DEFINE Computes(f, k) == /\ f \in [0 .. k -> X] /\ f[0] = x
                             /\ \A j \in 1 .. k : f[j] = step[j][f[j - 1]]
           T == {k \in 0 .. n : \E f : Computes(f, k)}
<1>1. 0 \in T
  <2> DEFINE g == [j \in 0 .. 0 |-> x]
  <2>1. Computes(g, 0)
    OBVIOUS
  <2> HIDE DEF Computes, g
  <2> QED BY <2>1
<1>2. ASSUME NEW k \in 1 .. n, k - 1 \in T
      PROVE  k \in T
  <2>1. PICK f : Computes(f, k - 1)
    BY <1>2
  <2> DEFINE g == [j \in 0 .. k |-> IF j = k THEN step[k][f[k - 1]] ELSE f[j]]
  <2>2. f[k - 1] \in X /\ step[k] \in [X -> X]
    BY <2>1
  <2>3. step[k][f[k - 1]] \in X
    BY <2>2
  <2>4. g \in [0 .. k -> X] /\ g[0] = x
    BY <2>1, <2>3
  <2>5. ASSUME NEW j \in 1 .. k
        PROVE  g[j] = step[j][g[j - 1]]
    <3>1. CASE j = k
      <4>1. g[j] = step[k][f[k - 1]] /\ g[k - 1] = f[k - 1]
        BY <3>1
      <4> QED BY <3>1, <4>1
    <3>2. CASE j # k
      <4>1. j \in 1 .. k - 1 /\ j - 1 \in 0 .. k - 1
        BY <3>2
      <4>2. g[j] = f[j] /\ g[j - 1] = f[j - 1]
        BY <4>1
      <4>3. f[j] = step[j][f[j - 1]]
        BY <2>1, <4>1
      <4> QED BY <4>2, <4>3
    <3> QED BY <3>1, <3>2
  <2>6. Computes(g, k)
    BY <2>4, <2>5
  <2> HIDE DEF Computes
  <2> QED BY <2>6
<1> HIDE DEF T
<1>3. 0 .. n \subseteq T
  BY <1>1, <1>2, CountingUp
<1>4. n \in T
  BY <1>3
<1> QED BY <1>4 DEF T, IsRecursion

(* Filter keeps the elements at the places it is given, in their order.    *)
LEMMA FilterKeeps ==
    ASSUME NEW R, NEW s \in Seq(R), NEW at \in SUBSET DOMAIN s
    PROVE  LET t == Filter(s, at)
           IN  /\ t \in Seq(R)
               /\ \E from \in [DOMAIN t -> at] :
                     /\ \A i \in DOMAIN t : t[i] = s[from[i]]
                     /\ \A i, j \in DOMAIN t : i < j => from[i] < from[j]
                     /\ \A k \in at : \E i \in DOMAIN t : from[i] = k
<1> DEFINE n == Len(s)
           Loop(f) == [k \in 0 .. n |->
                          IF k = 0 THEN <<>>
                          ELSE IF k \in at THEN Append(f[k - 1], s[k]) ELSE f[k - 1]]
           kept == CHOOSE f : f = Loop(f)
           step == [k \in 1 .. n |-> [x \in Seq(R) |->
                       IF k \in at THEN Append(x, s[k]) ELSE x]]
<1>1. n \in Nat /\ DOMAIN s = 1 .. n /\ \A k \in 1 .. n : s[k] \in R
  OBVIOUS
<1> HIDE DEF n
<1>2. step \in [1 .. n -> [Seq(R) -> Seq(R)]] /\ <<>> \in Seq(R)
  BY <1>1
<1>3. PICK f : IsRecursion(f, n, Seq(R), <<>>, step)
  <2> HIDE DEF step
  <2> QED BY <1>1, <1>2, RecursionExists
<1>4. \A k \in 1 .. n : f[k] = IF k \in at THEN Append(f[k - 1], s[k]) ELSE f[k - 1]
  <2> TAKE k \in 1 .. n
  <2>1. f[k - 1] \in Seq(R)
    BY <1>1, <1>3 DEF IsRecursion
  <2> QED BY <1>3, <2>1 DEF IsRecursion
<1>5. f = Loop(f)
  <2>1. \A k \in 0 .. n : k = 0 \/ k \in 1 .. n
    BY <1>1
  <2>2. \A k \in 0 .. n : f[k] = IF k = 0 THEN <<>>
                                 ELSE IF k \in at THEN Append(f[k - 1], s[k]) ELSE f[k - 1]
    BY <1>1, <1>3, <1>4, <2>1 DEF IsRecursion
  <2> QED BY <1>3, <2>2 DEF IsRecursion
<1>6. kept = Loop(kept)
  BY <1>5
<1>7. kept[0] = <<>> /\ \A k \in 1 .. n :
         kept[k] = IF k \in at THEN Append(kept[k - 1], s[k]) ELSE kept[k - 1]
  <2> HIDE DEF kept
  <2>1. \A k \in 0 .. n : kept[k] = IF k = 0 THEN <<>>
                                    ELSE IF k \in at THEN Append(kept[k - 1], s[k])
                                                     ELSE kept[k - 1]
    BY <1>6
  <2>2. 0 \in 0 .. n /\ \A k \in 1 .. n : k \in 0 .. n /\ k # 0
    BY <1>1
  <2> HIDE DEF Loop
  <2> QED BY <2>1, <2>2
<1>8. Filter(s, at) = kept[n]
  BY DEF Filter, n
<1> HIDE DEF kept, Loop, step
<1> DEFINE Sure(k, from) ==
              /\ kept[k] \in Seq(R)
              /\ from \in [DOMAIN kept[k] -> at \cap (1 .. k)]
              /\ \A i \in DOMAIN kept[k] : kept[k][i] = s[from[i]]
              /\ \A i, j \in DOMAIN kept[k] : i < j => from[i] < from[j]
              /\ \A m \in at \cap (1 .. k) : \E i \in DOMAIN kept[k] : from[i] = m
           T == {k \in 0 .. n : \E from : Sure(k, from)}
<1>9. 0 \in T
  <2>1. Sure(0, <<>>)
    BY <1>7
  <2> HIDE DEF Sure
  <2> QED BY <1>1, <2>1
<1>10. ASSUME NEW k \in 1 .. n, k - 1 \in T
       PROVE  k \in T
  <2>1. PICK from : Sure(k - 1, from)
    BY <1>10
  <2> DEFINE t == kept[k - 1]
             u == kept[k]
  <2>2. k \in Nat /\ k - 1 \in Nat /\ 1 .. k = (1 .. k - 1) \cup {k} /\ k \notin 1 .. k - 1
    BY <1>1
  <2>3. CASE k \notin at
    <3>1. u = t
      BY <1>7, <2>3
    <3>2. at \cap (1 .. k) = at \cap (1 .. k - 1)
      BY <2>2, <2>3
    <3>3. Sure(k, from)
      BY <2>1, <3>1, <3>2
    <3> HIDE DEF Sure
    <3> QED BY <3>3
  <2>4. CASE k \in at
    <3>1. u = Append(t, s[k]) /\ t \in Seq(R) /\ s[k] \in R
      BY <1>1, <1>7, <2>1, <2>4
    <3> DEFINE len == Len(t)
               to == [i \in 1 .. len + 1 |-> IF i = len + 1 THEN k ELSE from[i]]
    <3>2. len \in Nat /\ DOMAIN t = 1 .. len /\ DOMAIN u = 1 .. len + 1 /\ u \in Seq(R)
      BY <3>1
    <3>3. u[len + 1] = s[k] /\ \A i \in 1 .. len : u[i] = t[i]
      BY <3>1
    <3> HIDE DEF t, u, len
    <3>4. from \in [1 .. len -> at \cap (1 .. k - 1)]
      BY <2>1, <3>2 DEF t
    <3>5. to \in [1 .. len + 1 -> at \cap (1 .. k)]
      BY <2>2, <2>4, <3>2, <3>4
    <3>6. to[len + 1] = k /\ \A i \in 1 .. len : to[i] = from[i] /\ from[i] < k
      BY <2>2, <3>2, <3>4
    <3>7. \A i \in 1 .. len + 1 : i \in 1 .. len \/ i = len + 1
      BY <3>2
    <3> HIDE DEF to
    <3>8. \A i \in 1 .. len + 1 : u[i] = s[to[i]]
      BY <2>1, <3>2, <3>3, <3>6, <3>7 DEF t
    <3>9. \A i, j \in 1 .. len + 1 : i < j => to[i] < to[j]
      <4> SUFFICES ASSUME NEW i \in 1 .. len + 1, NEW j \in 1 .. len + 1, i < j
                   PROVE  to[i] < to[j]
        OBVIOUS
      <4>1. i \in 1 .. len
        BY <3>2
      <4>2. CASE j = len + 1
        BY <3>6, <4>1, <4>2
      <4>3. CASE j \in 1 .. len
        <5>1. from[i] < from[j]
          BY <2>1, <3>2, <4>1, <4>3 DEF t
        <5> QED BY <3>6, <4>1, <4>3, <5>1
      <4> QED BY <3>7, <4>2, <4>3
    <3>10. \A m \in at \cap (1 .. k) : \E i \in 1 .. len + 1 : to[i] = m
      <4> SUFFICES ASSUME NEW m \in at \cap (1 .. k)
                   PROVE  \E i \in 1 .. len + 1 : to[i] = m
        OBVIOUS
      <4>1. CASE m = k
        BY <3>2, <3>6, <4>1
      <4>2. CASE m \in at \cap (1 .. k - 1)
        <5>1. PICK i \in 1 .. len : from[i] = m
          BY <2>1, <3>2, <4>2 DEF t
        <5>2. i \in 1 .. len + 1 /\ to[i] = m
          BY <3>2, <3>6, <5>1
        <5> QED BY <5>2
      <4> QED BY <2>2, <4>1, <4>2
    <3>11. Sure(k, to)
      BY <3>2, <3>5, <3>8, <3>9, <3>10 DEF u
    <3> HIDE DEF Sure
    <3> QED BY <3>11
  <2> QED BY <2>3, <2>4
<1> HIDE DEF Sure, T
<1>11. n \in T
  <2>1. 0 .. n \subseteq T
    BY <1>1, <1>9, <1>10, CountingUp
  <2> QED BY <1>1, <2>1
<1>12. PICK from : Sure(n, from)
  BY <1>11 DEF T
<1>13. at \cap (1 .. n) = at
  BY <1>1
<1> QED BY <1>8, <1>12, <1>13 DEF Sure

(* What stands at a place of two sequences joined.                         *)
LEMMA ConcatAt ==
    ASSUME NEW R, NEW s \in Seq(R), NEW t \in Seq(R)
    PROVE  /\ s \o t \in Seq(R) /\ DOMAIN (s \o t) = 1 .. Len(s) + Len(t)
           /\ \A i \in 1 .. Len(s) : (s \o t)[i] = s[i]
           /\ \A i \in 1 .. Len(s) + Len(t) : ~(i <= Len(s)) => (s \o t)[i] = t[i - Len(s)]
  OBVIOUS

(* t is the sequences of ss one after the other: t[i] is the element of    *)
(* ss[src[i]] at pos[i].                                                   *)
Joins(t, ss, src, pos) ==
    /\ src \in [DOMAIN t -> DOMAIN ss] /\ pos \in [DOMAIN t -> Nat]
    /\ \A i \in DOMAIN t : pos[i] \in DOMAIN ss[src[i]] /\ t[i] = ss[src[i]][pos[i]]
    /\ \A i, j \in DOMAIN t : i < j => src[i] < src[j] \/ (src[i] = src[j] /\ pos[i] < pos[j])
    /\ \A q \in DOMAIN ss : \A m \in DOMAIN ss[q] : \E i \in DOMAIN t : src[i] = q /\ pos[i] = m

(* Joined to nothing, a sequence is itself.                                *)
LEMMA NothingBefore ==
    ASSUME NEW R, NEW s \in Seq(R)
    PROVE  <<>> \o s = s
OBVIOUS

(* FlattenSeq of SequencesExt puts the sequences one after another.        *)
LEMMA FlattenJoins ==
    ASSUME NEW R, NEW ss \in Seq(Seq(R))
    PROVE  FlattenSeq(ss) \in Seq(R) /\ \E src, pos : Joins(FlattenSeq(ss), ss, src, pos)
<1> DEFINE n == Len(ss)
           Loop(f) == [k \in 1 .. n |-> IF k = 1 THEN ss[k] ELSE f[k - 1] \o ss[k]]
           flatten == CHOOSE f : f = Loop(f)
           flat(k) == IF k = 0 THEN <<>> ELSE flatten[k]
           step == [k \in 1 .. n |-> [x \in Seq(R) |-> x \o ss[k]]]
<1>1. n \in Nat /\ DOMAIN ss = 1 .. n /\ \A k \in 1 .. n : ss[k] \in Seq(R)
  OBVIOUS
<1> HIDE DEF n
<1>2. step \in [1 .. n -> [Seq(R) -> Seq(R)]] /\ <<>> \in Seq(R)
  BY <1>1
<1>3. PICK f : IsRecursion(f, n, Seq(R), <<>>, step)
  <2> HIDE DEF step
  <2> QED BY <1>1, <1>2, RecursionExists
<1>4. \A k \in 1 .. n : f[k] = f[k - 1] \o ss[k] /\ f[k - 1] \in Seq(R)
  <2> TAKE k \in 1 .. n
  <2>1. f[k - 1] \in Seq(R)
    BY <1>1, <1>3 DEF IsRecursion
  <2> QED BY <1>3, <2>1 DEF IsRecursion
<1> DEFINE g == [k \in 1 .. n |-> f[k]]
<1>5. g = Loop(g)
  <2> SUFFICES \A k \in 1 .. n : f[k] = IF k = 1 THEN ss[k] ELSE g[k - 1] \o ss[k]
    OBVIOUS
  <2> TAKE k \in 1 .. n
  <2>1. CASE k = 1
    <3>1. f[0] = <<>>
      BY <1>3 DEF IsRecursion
    <3>2. k - 1 = 0
      BY <2>1
    <3>3. f[k] = <<>> \o ss[k]
      BY <1>4, <3>1, <3>2
    <3> QED BY <1>1, <2>1, <3>3
  <2>2. CASE k # 1
    <3>1. k - 1 \in 1 .. n
      BY <1>1, <2>2
    <3>2. g[k - 1] = f[k - 1]
      BY <3>1
    <3> QED BY <1>4, <2>2, <3>2
  <2> QED BY <2>1, <2>2
<1>6. flatten = Loop(flatten)
  <2> HIDE DEF g, Loop
  <2> QED BY <1>5
<1>7. \A k \in 1 .. n : flatten[k] = IF k = 1 THEN ss[k] ELSE flatten[k - 1] \o ss[k]
  <2> HIDE DEF flatten
  <2> QED BY <1>6
<1>8. FlattenSeq(ss) = flat(n)
  <2>1. CASE n = 0
    <3>1. ss = <<>>
      BY <2>1 DEF n
    <3>2. FlattenSeq(ss) = ss
      BY <2>1 DEF FlattenSeq, n
    <3> QED BY <2>1, <3>1, <3>2
  <2>2. CASE n # 0
    <3>1. FlattenSeq(ss) = flatten[n]
      BY <2>2 DEF FlattenSeq, n
    <3> QED BY <2>2, <3>1
  <2> QED BY <2>1, <2>2
<1> HIDE DEF flatten, Loop, step
<1>9. flat(0) = <<>> /\ \A k \in 1 .. n : flat(k - 1) \in Seq(R) => flat(k) = flat(k - 1) \o ss[k]
  <2>1. ASSUME NEW k \in 1 .. n, flat(k - 1) \in Seq(R)
        PROVE  flat(k) = flat(k - 1) \o ss[k]
    <3>1. CASE k = 1
      <4>1. flat(k) = ss[k] /\ flat(k - 1) = <<>>
        BY <1>7, <3>1
      <4>2. ss[k] \in Seq(R)
        BY <1>1
      <4> HIDE DEF flat
      <4> QED BY <4>1, <4>2, NothingBefore
    <3>2. CASE k # 1
      <4>1. k # 0 /\ k - 1 # 0
        BY <1>1, <3>2
      <4>2. flat(k) = flatten[k] /\ flat(k - 1) = flatten[k - 1]
        BY <4>1
      <4> QED BY <1>7, <3>2, <4>2
    <3> QED BY <3>1, <3>2
  <2> QED BY <2>1
<1> HIDE DEF flat
<1> DEFINE Sure(t, k, src, pos) ==
              /\ t \in Seq(R)
              /\ src \in [DOMAIN t -> 1 .. k] /\ pos \in [DOMAIN t -> Nat]
              /\ \A i \in DOMAIN t : pos[i] \in DOMAIN ss[src[i]] /\ t[i] = ss[src[i]][pos[i]]
              /\ \A i, j \in DOMAIN t :
                    i < j => src[i] < src[j] \/ (src[i] = src[j] /\ pos[i] < pos[j])
              /\ \A q \in 1 .. k : \A m \in DOMAIN ss[q] :
                    \E i \in DOMAIN t : src[i] = q /\ pos[i] = m
           T == {k \in 0 .. n : \E src, pos : Sure(flat(k), k, src, pos)}
<1>10. 0 \in T
  <2>1. Sure(<<>>, 0, <<>>, <<>>)
    OBVIOUS
  <2> HIDE DEF Sure
  <2> QED BY <1>1, <1>9, <2>1
<1>11. ASSUME NEW k \in 1 .. n, k - 1 \in T
       PROVE  k \in T
  <2>1. PICK src, pos : Sure(flat(k - 1), k - 1, src, pos)
    BY <1>11
  <2> DEFINE t == flat(k - 1)
             u == flat(k)
             a == Len(t)
             b == Len(ss[k])
             to == [i \in 1 .. a + b |-> IF i <= a THEN src[i] ELSE k]
             ps == [i \in 1 .. a + b |-> IF i <= a THEN pos[i] ELSE i - a]
  <2>2. k \in Nat /\ k - 1 \in Nat /\ ss[k] \in Seq(R)
    BY <1>1
  <2>3. t \in Seq(R) /\ u = t \o ss[k]
    BY <1>9, <2>1
  <2>4. a \in Nat /\ b \in Nat /\ DOMAIN t = 1 .. a /\ DOMAIN ss[k] = 1 .. b
    BY <2>2, <2>3
  <2>5. u \in Seq(R) /\ DOMAIN u = 1 .. a + b
    BY <2>2, <2>3
  <2>6. /\ \A i \in 1 .. a : u[i] = t[i]
        /\ \A i \in 1 .. a + b : ~(i <= a) => u[i] = ss[k][i - a]
    <3> HIDE DEF t, u
    <3> QED BY <2>2, <2>3, ConcatAt
  <2>7. Sure(t, k - 1, src, pos)
    BY <2>1
  <2> HIDE DEF t, u, a, b
  <2>8. src \in [1 .. a -> 1 .. k - 1] /\ pos \in [1 .. a -> Nat]
    BY <2>4, <2>7
  <2>9. \A i \in 1 .. a : pos[i] \in DOMAIN ss[src[i]] /\ t[i] = ss[src[i]][pos[i]]
    BY <2>4, <2>7
  <2>10. \A i, j \in 1 .. a : i < j => src[i] < src[j] \/ (src[i] = src[j] /\ pos[i] < pos[j])
    BY <2>4, <2>7
  <2>11. \A q \in 1 .. k - 1 : \A m \in DOMAIN ss[q] : \E i \in 1 .. a : src[i] = q /\ pos[i] = m
    <3>1. \A q \in 1 .. k - 1 : \A m \in DOMAIN ss[q] :
             \E i \in DOMAIN t : src[i] = q /\ pos[i] = m
      BY <2>7
    <3> QED BY <2>4, <3>1
  <2> HIDE DEF Sure
  <2>12. \A i \in 1 .. a + b : ~(i <= a) => i - a \in 1 .. b
    BY <2>4
  <2>13. \A i \in 1 .. a : i \in 1 .. a + b /\ i <= a
    BY <2>4
  <2>14. \A i \in 1 .. a + b : i <= a => i \in 1 .. a
    BY <2>4
  <2>15. to \in [1 .. a + b -> 1 .. k] /\ ps \in [1 .. a + b -> Nat]
    <3>1. \A i \in 1 .. a : src[i] \in 1 .. k /\ pos[i] \in Nat
      BY <2>2, <2>8
    <3>2. k \in 1 .. k /\ 1 .. b \subseteq Nat
      BY <2>2, <2>4
    <3> QED BY <2>12, <2>14, <3>1, <3>2
  <2>16. /\ \A i \in 1 .. a + b : i <= a => to[i] = src[i] /\ ps[i] = pos[i]
         /\ \A i \in 1 .. a + b : ~(i <= a) => to[i] = k /\ ps[i] = i - a
    OBVIOUS
  <2> HIDE DEF to, ps
  <2>17. \A i \in 1 .. a + b : ps[i] \in DOMAIN ss[to[i]] /\ u[i] = ss[to[i]][ps[i]]
    <3> SUFFICES ASSUME NEW i \in 1 .. a + b
                 PROVE  ps[i] \in DOMAIN ss[to[i]] /\ u[i] = ss[to[i]][ps[i]]
      OBVIOUS
    <3>1. CASE i <= a
      <4>1. i \in 1 .. a /\ to[i] = src[i] /\ ps[i] = pos[i]
        BY <2>14, <2>16, <3>1
      <4> QED BY <2>6, <2>9, <4>1
    <3>2. CASE ~(i <= a)
      <4>1. i - a \in 1 .. b /\ to[i] = k /\ ps[i] = i - a
        BY <2>12, <2>16, <3>2
      <4> QED BY <2>4, <2>6, <3>2, <4>1
    <3> QED BY <3>1, <3>2
  <2>18. \A i, j \in 1 .. a + b : i < j => to[i] < to[j] \/ (to[i] = to[j] /\ ps[i] < ps[j])
    <3> SUFFICES ASSUME NEW i \in 1 .. a + b, NEW j \in 1 .. a + b, i < j
                 PROVE  to[i] < to[j] \/ (to[i] = to[j] /\ ps[i] < ps[j])
      OBVIOUS
    <3>1. CASE j <= a
      <4>1. i <= a
        BY <2>4, <3>1
      <4>2. src[i] < src[j] \/ (src[i] = src[j] /\ pos[i] < pos[j])
        BY <2>10, <2>14, <3>1, <4>1
      <4> QED BY <2>16, <3>1, <4>1, <4>2
    <3>2. CASE ~(j <= a) /\ i <= a
      <4>1. src[i] \in 1 .. k - 1
        BY <2>8, <2>14, <3>2
      <4> QED BY <2>2, <2>16, <3>2, <4>1
    <3>3. CASE ~(j <= a) /\ ~(i <= a)
      <4>1. to[i] = k /\ to[j] = k /\ ps[i] = i - a /\ ps[j] = j - a
        BY <2>16, <3>3
      <4> QED BY <2>4, <4>1
    <3> QED BY <3>1, <3>2, <3>3
  <2>19. \A q \in 1 .. k : \A m \in DOMAIN ss[q] : \E i \in 1 .. a + b : to[i] = q /\ ps[i] = m
    <3> SUFFICES ASSUME NEW q \in 1 .. k, NEW m \in DOMAIN ss[q]
                 PROVE  \E i \in 1 .. a + b : to[i] = q /\ ps[i] = m
      OBVIOUS
    <3>1. CASE q = k
      <4>1. m \in 1 .. b
        BY <2>4, <3>1
      <4>2. a + m \in 1 .. a + b /\ ~(a + m <= a) /\ (a + m) - a = m
        BY <2>4, <4>1
      <4>3. to[a + m] = k /\ ps[a + m] = m
        BY <2>16, <4>2
      <4> QED BY <3>1, <4>2, <4>3
    <3>2. CASE q # k
      <4>1. q \in 1 .. k - 1
        BY <2>2, <3>2
      <4>2. PICK i \in 1 .. a : src[i] = q /\ pos[i] = m
        BY <2>11, <4>1
      <4> QED BY <2>13, <2>16, <4>2
    <3> QED BY <3>1, <3>2
  <2>20. Sure(u, k, to, ps)
    <3>1. to \in [DOMAIN u -> 1 .. k] /\ ps \in [DOMAIN u -> Nat]
      BY <2>5, <2>15
    <3>2. \A i \in DOMAIN u : ps[i] \in DOMAIN ss[to[i]] /\ u[i] = ss[to[i]][ps[i]]
      BY <2>5, <2>17
    <3>3. \A i, j \in DOMAIN u : i < j => to[i] < to[j] \/ (to[i] = to[j] /\ ps[i] < ps[j])
      BY <2>5, <2>18
    <3>4. \A q \in 1 .. k : \A m \in DOMAIN ss[q] : \E i \in DOMAIN u : to[i] = q /\ ps[i] = m
      <4> SUFFICES ASSUME NEW q \in 1 .. k, NEW m \in DOMAIN ss[q]
                   PROVE  \E i \in DOMAIN u : to[i] = q /\ ps[i] = m
        OBVIOUS
      <4>1. PICK i \in 1 .. a + b : to[i] = q /\ ps[i] = m
        BY <2>19
      <4> QED BY <2>5, <4>1
    <3> QED BY <2>5, <3>1, <3>2, <3>3, <3>4, Zenon DEF Sure
  <2> QED BY <2>20 DEF u
<1> HIDE DEF Sure, T
<1>12. n \in T
  <2>1. 0 .. n \subseteq T
    BY <1>1, <1>10, <1>11, CountingUp
  <2> QED BY <1>1, <2>1
<1>13. PICK src, pos : Sure(flat(n), n, src, pos)
  BY <1>12 DEF T
<1> DEFINE t == FlattenSeq(ss)
<1>14. t = flat(n)
  BY <1>8
<1> HIDE DEF t
<1>15. t \in Seq(R) /\ Joins(t, ss, src, pos)
  BY <1>1, <1>13, <1>14 DEF Sure, Joins
<1> QED BY <1>15 DEF t

-----------------------------------------------------------------------------
(* Names.                                                                  *)

(* Trimming a name leaves a name.                                          *)
LEMMA NormalizedIsName ==
    ASSUME NEW n \in Written
    PROVE  normalizeMatchHost(n) \in Written
<1> DEFINE inner == {i \in 1 .. Len(n) : n[i] # Dot}
           gaps == {Len(n) - i : i \in inner}
<1>1. CASE inner = {}
  <2>1. normalizeMatchHost(n) = <<>>
    BY <1>1 DEF normalizeMatchHost
  <2> QED BY <2>1 DEF Written
<1>2. CASE inner # {}
  <2>1. Len(n) \in Nat
    BY DEF Written
  <2>2. gaps \subseteq Nat /\ gaps # {}
    BY <1>2, <2>1
  <2>3. PICK last \in inner : \A j \in inner : j <= last
    <3> HIDE DEF gaps
    <3>1. Least(gaps) \in gaps /\ \A j \in gaps : Least(gaps) <= j
      BY <2>2, LeastIsLeast
    <3>2. PICK i \in inner : Least(gaps) = Len(n) - i
      BY <3>1 DEF gaps
    <3>3. \A j \in inner : Len(n) - j \in gaps
      BY DEF gaps
    <3>4. \A j \in inner : j <= i
      BY <2>1, <3>1, <3>2, <3>3
    <3> QED BY <3>4
  <2>4. Least(inner) \in inner
    BY <1>2, <2>1, LeastIsLeast
  <2> DEFINE z == CHOOSE i \in inner : \A j \in inner : j <= i
  <2>5. z \in inner
    BY <2>3
  <2>6. normalizeMatchHost(n) = SubSeq(n, Least(inner), z)
    BY <1>2 DEF normalizeMatchHost
  <2>7. Least(inner) \in 1 .. Len(n) /\ z \in 1 .. Len(n)
    BY <2>4, <2>5
  <2>8. \A a, b \in 1 .. Len(n) : SubSeq(n, a, b) \in Seq(Chars)
    BY <2>1 DEF Written, Chars
  <2> QED BY <2>6, <2>7, <2>8 DEF Written, Chars
<1> QED BY <1>1, <1>2

(* A prefix is what SubSeq cuts off.                                       *)
LEMMA PrefixIsCut ==
    ASSUME NEW n \in Seq(Chars), NEW h \in Seq(Chars), Starts(n, h)
    PROVE  /\ n = SubSeq(h, 1, Len(n))
           /\ \A j \in 1 .. Len(n) : SubSeq(n, 1, j) = SubSeq(h, 1, j)
<1>1. Len(n) \in Nat /\ Len(h) \in Nat /\ Len(n) <= Len(h)
  BY DEF Starts
<1>2. \A i \in 1 .. Len(n) : n[i] = h[i]
  BY DEF Starts
<1>3. n = SubSeq(h, 1, Len(n))
  BY <1>1, <1>2
<1>4. ASSUME NEW j \in 1 .. Len(n)
      PROVE  SubSeq(n, 1, j) = SubSeq(h, 1, j)
  BY <1>1, <1>2
<1> QED BY <1>3, <1>4

(* A name cut short is a prefix of it.                                     *)
LEMMA CutIsPrefix ==
    ASSUME NEW h \in Seq(Chars), NEW i \in 1 .. Len(h)
    PROVE  /\ SubSeq(h, 1, i) \in Seq(Chars) /\ Len(SubSeq(h, 1, i)) = i
           /\ Starts(SubSeq(h, 1, i), h)
BY DEF Starts

(* The names of a rule are names.                                          *)
LEMMA NamesAreNames ==
    ASSUME NEW r \in Rule
    PROVE  ExactNames(r) \subseteq Seq(Chars) /\ SuffixNames(r) \subseteq Seq(Chars)
<1>1. r.domain \subseteq Written /\ r.suffix \subseteq Written
  BY DEF Rule
<1> QED BY <1>1, NormalizedIsName DEF ExactNames, SuffixNames, Written, Chars

-----------------------------------------------------------------------------
(* The table of exact names keeps the lowest rank of each.                 *)
LEMMA ExactRank ==
    ASSUME NEW g \in Seq(Rule), NEW h
    PROVE  LET exact == CompileRules(g).exact
           IN  /\ h \in DOMAIN exact <=> \E k \in DOMAIN g : h \in ExactNames(g[k])
               /\ h \in DOMAIN exact =>
                     /\ exact[h] \in DOMAIN g /\ h \in ExactNames(g[exact[h]])
                     /\ \A k \in DOMAIN g : h \in ExactNames(g[k]) => exact[h] <= k
<1> DEFINE exact == CompileRules(g).exact
           owners == {k \in DOMAIN g : h \in ExactNames(g[k])}
<1>1. h \in DOMAIN exact <=> owners # {}
  BY DEF CompileRules
<1>2. h \in DOMAIN exact => exact[h] = Least(owners)
  BY DEF CompileRules
<1>3. owners \subseteq Nat
  OBVIOUS
<1>4. owners # {} => Least(owners) \in owners /\ \A j \in owners : Least(owners) <= j
  BY <1>3, LeastIsLeast
<1> QED BY <1>1, <1>2, <1>4

(* What the walk collects: ranks of rules with a matching suffix, among    *)
(* them one as low as that of any such rule.                               *)
LEMMA WalkRanks ==
    ASSUME NEW g \in Seq(Rule), NamesAreThere(g), NEW h \in Seq(Chars)
    PROVE  LET ranks == SuffixRanks(CompileRules(g).suffix, h)
           IN  /\ \A r \in ranks : r \in DOMAIN g /\ \E n \in SuffixNames(g[r]) : Starts(n, h)
               /\ \A k \in DOMAIN g : \A n \in SuffixNames(g[k]) :
                     Starts(n, h) => \E r \in ranks : r <= k
<1> DEFINE trie == CompileRules(g).suffix
           ranks == SuffixRanks(trie, h)
           suffix == UNION {SuffixNames(g[k]) : k \in DOMAIN g}
           nodes == UNION {{SubSeq(n, 1, i) : i \in 1 .. Len(n)} : n \in suffix}
           owners(n) == {k \in DOMAIN g : n \in SuffixNames(g[k])}
<1>1. trie = [n \in nodes |-> IF n \in suffix THEN Least(owners(n)) ELSE NoRank]
  BY DEF CompileRules
<1>2. \A n \in suffix : Least(owners(n)) \in owners(n) /\ \A j \in owners(n) : Least(owners(n)) <= j
  <2>1. TAKE n \in suffix
  <2>2. owners(n) \subseteq Nat /\ owners(n) # {}
    OBVIOUS
  <2> QED BY <2>2, LeastIsLeast
<1>3. suffix \subseteq Seq(Chars) /\ <<>> \notin suffix
  <2>1. \A k \in DOMAIN g : g[k] \in Rule
    OBVIOUS
  <2> QED BY <2>1, NamesAreNames DEF NamesAreThere
<1> HIDE DEF suffix, nodes
<1>4. ASSUME NEW r \in ranks
      PROVE  r \in DOMAIN g /\ \E n \in SuffixNames(g[r]) : Starts(n, h)
  <2>1. PICK m \in Walk(trie, h) : r = trie[m] /\ r # NoRank
    BY <1>4 DEF SuffixRanks
  <2>2. PICK i \in 1 .. Len(h) : m = SubSeq(h, 1, i) /\ m \in DOMAIN trie
    <3>1. PICK i \in 1 .. Len(h) :
            m = SubSeq(h, 1, i) /\ \A j \in 1 .. i : SubSeq(h, 1, j) \in DOMAIN trie
      BY DEF Walk
    <3>2. i \in 1 .. i
      OBVIOUS
    <3> QED BY <3>1, <3>2
  <2>3. m \in suffix /\ r = Least(owners(m))
    BY <1>1, <2>1, <2>2
  <2>4. r \in owners(m)
    BY <1>2, <2>3
  <2>5. Starts(m, h)
    BY <2>2, CutIsPrefix
  <2> QED BY <2>4, <2>5
<1>5. ASSUME NEW k \in DOMAIN g, NEW n \in SuffixNames(g[k]), Starts(n, h)
      PROVE  \E r \in ranks : r <= k
  <2>1. n \in suffix /\ k \in owners(n)
    BY DEF suffix
  <2>2. n \in Seq(Chars) /\ n # <<>>
    BY <1>3, <2>1
  <2>3. Len(n) \in 1 .. Len(h)
    BY <1>5, <2>2 DEF Starts
  <2>4. n = SubSeq(h, 1, Len(n)) /\ \A j \in 1 .. Len(n) : SubSeq(n, 1, j) = SubSeq(h, 1, j)
    BY <1>5, <2>2, PrefixIsCut
  <2>5. \A j \in 1 .. Len(n) : SubSeq(n, 1, j) \in nodes
    BY <2>1 DEF nodes
  <2>6. \A j \in 1 .. Len(n) : SubSeq(h, 1, j) \in DOMAIN trie
    BY <1>1, <2>4, <2>5
  <2>7. n \in Walk(trie, h)
    BY <2>3, <2>4, <2>6 DEF Walk
  <2>8. n \in nodes
    <3>1. Len(n) \in 1 .. Len(n)
      BY <2>3
    <3>2. SubSeq(n, 1, Len(n)) = n
      BY <2>4, <3>1
    <3> QED BY <2>5, <3>1, <3>2
  <2>9. trie[n] = Least(owners(n))
    BY <1>1, <2>1, <2>8
  <2>10. Least(owners(n)) \in owners(n) /\ Least(owners(n)) <= k
    BY <1>2, <2>1
  <2>11. trie[n] \in ranks
    <3>1. trie[n] \in Nat
      BY <2>9, <2>10
    <3>2. trie[n] # NoRank
      BY <3>1 DEF NoRank
    <3> QED BY <2>7, <3>2 DEF SuffixRanks
  <2> QED BY <2>9, <2>10, <2>11
<1> QED BY <1>4, <1>5

-----------------------------------------------------------------------------
(* For every list of gateway rules that Compile accepts and every name,    *)
(* the compiled matcher (compiled.go:69) returns the first rule that       *)
(* matches, or none if none does: neither the lowest ranks in the table    *)
(* and the trie nor the early break below the best rank lose one.          *)
THEOREM CompiledIsFirst ==
    ASSUME NEW g \in Seq(Rule), NamesAreThere(g), NEW host \in Written
    PROVE  LET h == normalizeMatchHost(host)
               hits == {k \in DOMAIN g : Matches(g[k], h)}
           IN  MatchGatewayDomain(CompileRules(g), host) =
                  IF hits = {} THEN 0 ELSE Least(hits)
<1> DEFINE h == normalizeMatchHost(host)
           hits == {k \in DOMAIN g : Matches(g[k], h)}
           c == CompileRules(g)
           direct == IF h \in DOMAIN c.exact THEN {c.exact[h]} ELSE {}
           ranks == SuffixRanks(c.suffix, h)
           found == direct \cup ranks
           named == {k \in DOMAIN g : \/ h \in ExactNames(g[k])
                                     \/ \E n \in SuffixNames(g[k]) : Starts(n, h)}
           patterned == {k \in DOMAIN g : \E p \in g[k].pattern : h \in p}
           best == IF found = {} THEN Len(g) + 1 ELSE Least(found)
           early == {k \in patterned : k < best}
           first == IF hits = {} THEN 0 ELSE Least(hits)
<1> SUFFICES MatchGatewayDomain(c, host) = first
  OBVIOUS
<1>1. h \in Seq(Chars)
  BY NormalizedIsName DEF Written, Chars
<1>2. hits = named \cup patterned
  BY DEF Matches
<1>3. c.rules = g /\ c.complex = {k \in DOMAIN g : g[k].pattern # {}}
  BY DEF CompileRules
<1>4. MatchGatewayDomain(c, host) =
         IF early # {} THEN Least(early) ELSE IF best = Len(g) + 1 THEN 0 ELSE best
  <2> DEFINE bound == IF found = {} THEN Len(c.rules) + 1 ELSE Least(found)
             below == {k \in c.complex : k < bound /\ \E p \in c.rules[k].pattern : h \in p}
  <2>1. MatchGatewayDomain(c, host) =
           IF below # {} THEN Least(below) ELSE IF bound = Len(c.rules) + 1 THEN 0 ELSE bound
    BY DEF MatchGatewayDomain
  <2>2. bound = best
    BY <1>3
  <2> HIDE DEF bound, best, c
  <2>3. below = early
    BY <1>3, <2>2
  <2> HIDE DEF below, early
  <2> QED BY <1>3, <2>1, <2>2, <2>3
<1>5. found \subseteq named /\ \A k \in named : \E r \in found : r <= k
  <2>1. /\ \A r \in ranks : r \in DOMAIN g /\ \E n \in SuffixNames(g[r]) : Starts(n, h)
        /\ \A k \in DOMAIN g : \A n \in SuffixNames(g[k]) :
              Starts(n, h) => \E r \in ranks : r <= k
    BY <1>1, WalkRanks
  <2>2. /\ h \in DOMAIN c.exact <=> \E k \in DOMAIN g : h \in ExactNames(g[k])
        /\ h \in DOMAIN c.exact =>
              /\ c.exact[h] \in DOMAIN g /\ h \in ExactNames(g[c.exact[h]])
              /\ \A k \in DOMAIN g : h \in ExactNames(g[k]) => c.exact[h] <= k
    BY ExactRank
  <2> HIDE DEF h, c, ranks
  <2> QED BY <2>1, <2>2
<1>6. DOMAIN g = 1 .. Len(g) /\ Len(g) \in Nat
  OBVIOUS
<1> HIDE DEF h, c, ranks, found, direct
<1>7. found \subseteq Nat /\ named \subseteq Nat /\ patterned \subseteq Nat /\ hits \subseteq Nat
  BY <1>5, <1>6
<1>8. found # {} => Least(found) \in found /\ \A r \in found : Least(found) <= r
  BY <1>7, LeastIsLeast
<1>9. best \in Nat /\ (best = Len(g) + 1 <=> found = {}) /\ \A k \in named : best <= k
  <2> HIDE DEF named
  <2>1. CASE found = {}
    <3>1. best = Len(g) + 1
      BY <2>1
    <3>2. named = {}
      BY <1>5, <2>1
    <3> QED BY <1>6, <2>1, <3>1, <3>2
  <2>2. CASE found # {}
    <3>1. best \in found /\ \A r \in found : best <= r
      BY <1>8, <2>2
    <3>2. best \in Nat /\ best <= Len(g)
      <4>1. best \in DOMAIN g
        BY <1>5, <3>1 DEF named
      <4> QED BY <1>6, <4>1
    <3> HIDE DEF best
    <3>3. ASSUME NEW k \in named
          PROVE  best <= k
      <4>1. PICK r \in found : r <= k
        BY <1>5
      <4>2. best <= r /\ r \in Nat /\ k \in Nat
        BY <1>7, <3>1, <4>1
      <4> QED BY <3>2, <4>1, <4>2
    <3> QED BY <1>6, <2>2, <3>2, <3>3
  <2> QED BY <2>1, <2>2
<1> HIDE DEF best, hits, named
<1>10. CASE early # {}
  <2>1. early \subseteq Nat
    BY <1>7
  <2>2. Least(early) \in early /\ \A k \in early : Least(early) <= k
    BY <1>10, <2>1, LeastIsLeast
  <2>3. Least(early) \in hits /\ \A k \in hits : Least(early) <= k
    <3>1. Least(early) \in patterned /\ Least(early) < best
      BY <2>2
    <3>2. ASSUME NEW k \in hits
          PROVE  Least(early) <= k
      <4>1. k \in Nat /\ best \in Nat /\ Least(early) \in Nat
        BY <1>7, <1>9, <2>1, <2>2
      <4>2. CASE k < best
        <5>1. k \in patterned
          BY <1>2, <1>9, <4>1, <4>2
        <5> QED BY <2>2, <4>2, <5>1
      <4>3. CASE best <= k
        BY <3>1, <4>1, <4>3
      <4> QED BY <4>1, <4>2, <4>3
    <3> QED BY <1>2, <3>1, <3>2
  <2>4. Least(hits) = Least(early)
    BY <1>7, <2>3, LeastIs
  <2> QED BY <1>4, <1>10, <2>3, <2>4
<1>11. CASE early = {} /\ found = {}
  <2>1. named = {} /\ patterned = {}
    BY <1>5, <1>6, <1>9, <1>11
  <2>2. hits = {}
    BY <1>2, <2>1
  <2> QED BY <1>4, <1>9, <1>11, <2>2
<1>12. CASE early = {} /\ found # {}
  <2>1. best \in named
    BY <1>5, <1>8, <1>12 DEF best
  <2>2. \A k \in hits : best <= k
    BY <1>2, <1>7, <1>9, <1>12
  <2>3. best \in hits
    BY <1>2, <2>1
  <2>4. Least(hits) = best
    BY <1>7, <2>2, <2>3, LeastIs
  <2> QED BY <1>4, <1>9, <1>12, <2>3, <2>4
<1> QED BY <1>10, <1>11, <1>12

(* Dots as people write them: one after a name, one before a suffix.       *)
PlainDots(g, host) ==
    /\ normalizeMatchHost(host) = DropTrailingDot(host)
    /\ \A k \in DOMAIN g :
          /\ \A v \in g[k].domain : normalizeMatchHost(v) = DropTrailingDot(v)
          /\ \A v \in g[k].suffix : normalizeMatchHost(v) = normalizeDomain(v)

(* Compiling changes nothing: it answers every name as the linear search   *)
(* of rules.go:100 does, which it has replaced in the gateways.            *)
THEOREM CompiledIsLinear ==
    ASSUME NEW g \in Seq(Rule), NamesAreThere(g), NEW host \in Written, PlainDots(g, host)
    PROVE  MatchGatewayDomain(CompileRules(g), host) = FirstMatch(g, host)
<1> DEFINE h == normalizeMatchHost(host)
           hits == {k \in DOMAIN g : Matches(g[k], h)}
           linear == {k \in DOMAIN g : matchRuleDomain(g[k], DropTrailingDot(host))}
<1>1. ASSUME NEW k \in DOMAIN g
      PROVE  Matches(g[k], h) <=> matchRuleDomain(g[k], DropTrailingDot(host))
  <2> DEFINE r == g[k]
             d == DropTrailingDot(host)
  <2>1. h = d
    BY DEF PlainDots
  <2>2. h \in ExactNames(r) <=> \E v \in r.domain : DropTrailingDot(v) = d
    BY <2>1 DEF PlainDots, ExactNames
  <2>3. (\E n \in SuffixNames(r) : Starts(n, h)) <=> \E v \in r.suffix : Starts(normalizeDomain(v), d)
    BY <2>1 DEF PlainDots, SuffixNames
  <2> QED BY <2>1, <2>2, <2>3 DEF Matches, matchRuleDomain
<1>2. hits = linear
  BY <1>1
<1>3. MatchGatewayDomain(CompileRules(g), host) = IF hits = {} THEN 0 ELSE Least(hits)
  BY CompiledIsFirst
<1>4. FirstMatch(g, host) = IF linear = {} THEN 0 ELSE Least(linear)
  BY DEF FirstMatch
<1> QED BY <1>2, <1>3, <1>4

-----------------------------------------------------------------------------
(* Names written without outer dots.                                       *)
NoOuterDots(g, host) ==
    /\ host \in Seq(Labels)
    /\ \A k \in DOMAIN g : g[k].domain \cup g[k].suffix \subseteq Seq(Labels)

(* Of a name without outer dots nothing is dropped.                        *)
LEMMA NothingTrimmed ==
    ASSUME NEW n \in Seq(Labels)
    PROVE  /\ DropTrailingDot(n) = n /\ normalizeDomain(n) = n /\ normalizeMatchHost(n) = n
           /\ n \in Written
<1>1. \A i \in 1 .. Len(n) : n[i] \in Labels /\ n[i] # Dot
    BY LabelsAssumption
<1>2. DropTrailingDot(n) = n /\ DropLeadingDot(n) = n
    BY <1>1 DEF DropTrailingDot, DropLeadingDot
<1>3. n \in Written
    BY DEF Written
<1> DEFINE inner == {i \in 1 .. Len(n) : n[i] # Dot}
           last == CHOOSE i \in inner : \A j \in inner : j <= i
<1>4. normalizeMatchHost(n) = IF inner = {} THEN <<>> ELSE SubSeq(n, Least(inner), last)
    BY DEF normalizeMatchHost
<1>5. inner = 1 .. Len(n)
    BY <1>1
<1>6. normalizeMatchHost(n) = n
    <2>1. CASE Len(n) = 0
        <3>1. n = <<>> /\ inner = {}
            BY <1>5, <2>1
        <3> QED BY <1>4, <3>1
    <2>2. CASE Len(n) # 0
        <3>1. Len(n) \in inner /\ \A j \in inner : j <= Len(n)
            BY <1>5, <2>2
        <3>2. last \in inner /\ \A j \in inner : j <= last
            BY <3>1
        <3>3. last = Len(n)
            BY <1>5, <3>1, <3>2
        <3>4. Least(inner) = 1
            BY <1>5, <2>2, LeastIs
        <3>5. SubSeq(n, 1, Len(n)) = n
            OBVIOUS
        <3>6. inner # {}
            BY <3>1
        <3> HIDE DEF inner, last
        <3> QED BY <1>4, <3>3, <3>4, <3>5, <3>6
    <2> QED BY <2>1, <2>2
<1> QED BY <1>2, <1>3, <1>6 DEF normalizeDomain

(* A name ends with "." and a suffix if it is longer and ends with it.     *)
LEMMA EndsWithDotted ==
    ASSUME NEW v \in Seq(Labels), NEW h \in Seq(Labels)
    PROVE  EndsWith(h, v \o <<Dot>>) <=> Starts(v, h) /\ v # h
<1> DEFINE s == v \o <<Dot>>
<1>1. Len(s) = Len(v) + 1 /\ \A i \in 1 .. Len(v) : s[i] = v[i]
    OBVIOUS
<1>2. SubSeq(s, 1, Len(s) - 1) = v
    BY <1>1
<1>3. Starts(v, h) => (v # h <=> Len(v) + 1 <= Len(h))
    BY DEF Starts
<1> QED BY <1>1, <1>2, <1>3 DEF EndsWith, Starts

(* The lists of names and the conditions on them come to what the linear   *)
(* search asks of a rule.                                                  *)
LEMMA ListsSelectRule ==
    ASSUME NEW g \in Seq(Rule), NEW h, NoOuterDots(g, h), NEW k \in DOMAIN g
    PROVE  aclAny(buildRuleViews(g)[k], h) <=> matchRuleDomain(g[k], DropTrailingDot(h))
<1> DEFINE r == g[k]
           view == buildRuleViews(g)[k]
<1>1. h \in Seq(Labels) /\ r.domain \subseteq Seq(Labels) /\ r.suffix \subseteq Seq(Labels)
    BY DEF NoOuterDots
<1>2. /\ view.exact = r.domain /\ view.root = r.suffix /\ view.pattern = r.pattern
      /\ view.suffix = {v \o <<Dot>> : v \in r.suffix}
    BY DEF buildRuleViews
<1>3. DropTrailingDot(h) = h
    BY <1>1, NothingTrimmed
<1>4. h \in view.exact <=> \E v \in r.domain : DropTrailingDot(v) = h
    BY <1>1, <1>2, NothingTrimmed
<1>5. (\E s \in view.suffix : EndsWith(h, s)) <=> \E v \in r.suffix : Starts(v, h) /\ v # h
    BY <1>1, <1>2, EndsWithDotted
<1>6. Starts(h, h)
    BY <1>1 DEF Starts
<1>7. h \in view.root \/ (\E s \in view.suffix : EndsWith(h, s))
          <=> \E v \in r.suffix : Starts(v, h)
    BY <1>2, <1>5, <1>6
<1>8. (\E v \in r.suffix : Starts(v, h)) <=> \E v \in r.suffix : Starts(normalizeDomain(v), h)
    BY <1>1, NothingTrimmed
<1>9. (\E p \in view.pattern : h \in p) <=> \E p \in r.pattern : h \in p
    BY <1>2
<1> QED BY <1>3, <1>4, <1>7, <1>8, <1>9 DEF aclAny, matchRuleDomain

(* render.go and compiled.go agree: a name goes to the exit of the same    *)
(* rule whether HAProxy or a gateway of 5gws takes the connection.         *)
THEOREM HAProxyIsCompiled ==
    ASSUME NEW g \in Seq(Rule), NamesAreThere(g), NEW h, NoOuterDots(g, h)
    PROVE  UseBackend(g, h) = MatchGatewayDomain(CompileRules(g), h)
<1> DEFINE views == buildRuleViews(g)
           listed == {k \in DOMAIN g : aclAny(views[k], h)}
           linear == {k \in DOMAIN g : matchRuleDomain(g[k], DropTrailingDot(h))}
<1>1. listed = linear
    BY ListsSelectRule
<1>2. UseBackend(g, h) = FirstMatch(g, h)
    BY <1>1 DEF UseBackend, FirstMatch
<1>3. \A k \in DOMAIN g : g[k].domain \subseteq Seq(Labels) /\ g[k].suffix \subseteq Seq(Labels)
    BY DEF NoOuterDots
<1>4. h \in Written /\ PlainDots(g, h)
    BY <1>3, NothingTrimmed DEF NoOuterDots, PlainDots
<1> QED BY <1>2, <1>4, CompiledIsLinear

-----------------------------------------------------------------------------
(* One read goes on, and nothing is published.                             *)
LEMMA OneReadKeeps ==
    ASSUME Reads, UNCHANGED published, cache' \in [Urls -> Nat],
           NEW i \in DOMAIN reads, NEW to \in Read, reads' = [reads EXCEPT ![i] = to],
           to.url = reads[i].url, to.since = reads[i].since,
           to.at = "failed" \/ reads[i].at \in {"look", "ask", "store"},
           to.at \in {"store", "returned"} => to.body \in to.since .. published[to.url]
    PROVE  Reads'
<1>1. DOMAIN reads' = DOMAIN reads
    OBVIOUS
<1>2. reads'[i] = to /\ \A j \in DOMAIN reads \ {i} : reads'[j] = reads[j]
    OBVIOUS
<1>3. to.at # "failed" => to.url \in Urls /\ to.since <= published[to.url]
    BY DEF Reads
<1> QED BY <1>1, <1>2, <1>3 DEF Reads

(* Every step of the cache keeps the invariant of the reads.               *)
LEMMA CacheStepKeeps ==
    ASSUME Reads, CacheStep
    PROVE  Reads'
<1>1. ASSUME NEW i \in DOMAIN reads, reads[i].at \in {"look", "ask", "store"}
      PROVE  /\ reads[i] \in Read /\ reads[i].url \in Urls
             /\ published[reads[i].url] \in Nat /\ cache[reads[i].url] \in Nat
             /\ reads[i].since \in Nat /\ reads[i].since <= published[reads[i].url]
    BY <1>1 DEF Reads, Read
<1>2. ASSUME NEW i \in DOMAIN reads, Look(i) PROVE Reads'
    <2> DEFINE to == [reads[i] EXCEPT !.at = "ask", !.cached = cache[reads[i].url]]
    <2>1. /\ to \in Read /\ to.at = "ask"
          /\ to.url = reads[i].url /\ to.since = reads[i].since
        BY <1>1, <1>2 DEF Look, Read
    <2>2. /\ reads' = [reads EXCEPT ![i] = to] /\ UNCHANGED <<published, cache>>
          /\ reads[i].at = "look" /\ cache \in [Urls -> Nat]
        BY <1>2 DEF Look, Reads
    <2> QED BY <2>1, <2>2, OneReadKeeps
<1>3. ASSUME NEW i \in DOMAIN reads, NotModified(i) PROVE Reads'
    <2> DEFINE to == [reads[i] EXCEPT !.at = "returned", !.cached = 0, !.body = reads[i].cached]
    <2>1. /\ to \in Read /\ to.at = "returned" /\ to.body = reads[i].cached
          /\ to.url = reads[i].url /\ to.since = reads[i].since
        BY <1>1, <1>3 DEF NotModified, Read
    <2>2. /\ reads' = [reads EXCEPT ![i] = to] /\ UNCHANGED <<published, cache>>
          /\ reads[i].at = "ask" /\ cache \in [Urls -> Nat]
          /\ reads[i].cached = published[reads[i].url]
        BY <1>3 DEF NotModified, Reads
    <2>3. to.body \in to.since .. published[to.url]
        BY <1>1, <2>1, <2>2
    <2> QED BY <2>1, <2>2, <2>3, OneReadKeeps
<1>4. ASSUME NEW i \in DOMAIN reads, Modified(i) PROVE Reads'
    <2> DEFINE to == [reads[i] EXCEPT !.at = "store", !.cached = 0,
                                      !.body = published[reads[i].url]]
    <2>1. /\ to \in Read /\ to.at = "store" /\ to.body = published[reads[i].url]
          /\ to.url = reads[i].url /\ to.since = reads[i].since
        BY <1>1, <1>4 DEF Modified, Read
    <2>2. /\ reads' = [reads EXCEPT ![i] = to] /\ UNCHANGED <<published, cache>>
          /\ reads[i].at = "ask" /\ cache \in [Urls -> Nat]
        BY <1>4 DEF Modified, Reads
    <2>3. to.body \in to.since .. published[to.url]
        BY <1>1, <2>1, <2>2
    <2> QED BY <2>1, <2>2, <2>3, OneReadKeeps
<1>5. ASSUME NEW i \in DOMAIN reads, PutImportCache(i) PROVE Reads'
    <2> DEFINE to == [reads[i] EXCEPT !.at = "returned"]
    <2>1. reads[i].at = "store"
        BY <1>5 DEF PutImportCache
    <2>2. /\ to \in Read /\ to.at = "returned" /\ to.body = reads[i].body
          /\ to.url = reads[i].url /\ to.since = reads[i].since
        BY <1>1, <2>1 DEF Read
    <2>3. reads[i].body \in reads[i].since .. published[reads[i].url] /\ reads[i].body \in Nat
        BY <1>1, <2>1 DEF Reads, Read
    <2>4. reads' = [reads EXCEPT ![i] = to] /\ UNCHANGED published
        BY <1>5 DEF PutImportCache
    <2>5. cache' \in [Urls -> Nat]
        BY <1>1, <1>5, <2>1, <2>3 DEF PutImportCache, Reads
    <2> QED BY <2>1, <2>2, <2>3, <2>4, <2>5, OneReadKeeps
<1>6. ASSUME NEW i \in DOMAIN reads, ReadFails(i) PROVE Reads'
    <2> DEFINE to == [reads[i] EXCEPT !.at = "failed", !.cached = 0, !.body = 0]
    <2>1. /\ to \in Read /\ to.at = "failed"
          /\ to.url = reads[i].url /\ to.since = reads[i].since
        BY <1>1, <1>6 DEF ReadFails, Read
    <2>2. /\ reads' = [reads EXCEPT ![i] = to] /\ UNCHANGED <<published, cache>>
          /\ cache \in [Urls -> Nat]
        BY <1>6 DEF ReadFails, Reads
    <2> QED BY <2>1, <2>2, OneReadKeeps
<1>7. ASSUME NEW u \in Urls, Publish(u) PROVE Reads'
    <2>1. published \in [Urls -> Nat] /\ published' = [published EXCEPT ![u] = published[u] + 1]
        BY <1>7 DEF Publish, Reads
    <2>2. published' \in [Urls -> Nat] /\ \A v \in Urls : published[v] <= published'[v]
        BY <2>1
    <2>3. UNCHANGED <<cache, reads>>
        BY <1>7 DEF Publish
    <2>4. ASSUME NEW i \in DOMAIN reads, reads[i].at \in {"look", "ask", "store", "returned"}
          PROVE  /\ reads[i].url \in Urls
                 /\ reads[i].since <= published'[reads[i].url]
                 /\ reads[i].at \in {"store", "returned"} =>
                       reads[i].body \in reads[i].since .. published'[reads[i].url]
        <3>1. /\ reads[i].url \in Urls /\ reads[i].since \in Nat
              /\ reads[i].since <= published[reads[i].url]
              /\ reads[i].at \in {"store", "returned"} =>
                    reads[i].body \in reads[i].since .. published[reads[i].url]
            BY <2>4 DEF Reads, Read
        <3> QED BY <2>1, <2>2, <3>1
    <2> QED BY <2>2, <2>3, <2>4 DEF Reads
<1>8. ASSUME NEW u \in Urls, OthersStore(u) PROVE Reads'
    <2>1. cache' \in [Urls -> Nat]
        BY <1>8 DEF OthersStore, Reads
    <2> QED BY <1>8, <2>1 DEF OthersStore, Reads
<1> QED BY <1>2, <1>3, <1>4, <1>5, <1>6, <1>7, <1>8 DEF CacheStep

(* A read begins with what its server has published by then.               *)
LEMMA BeginReadsKeeps ==
    ASSUME Reads, NEW urls, \A i \in DOMAIN urls : urls[i] \in Urls \cup {NoUrl}, BeginReads(urls)
    PROVE  Reads'
<1>1. published' \in [Urls -> Nat] /\ cache' \in [Urls -> Nat]
    BY ImportCacheAssumption DEF BeginReads, Reads
<1>2. /\ DOMAIN reads' = DOMAIN urls
      /\ \A i \in DOMAIN urls : reads'[i] =
            [at |-> IF urls[i] = NoUrl THEN "path" ELSE "look", url |-> urls[i],
             cached |-> 0, body |-> 0,
             since |-> IF urls[i] = NoUrl THEN 0 ELSE published'[urls[i]]]
    BY DEF BeginReads
<1>3. ASSUME NEW i \in DOMAIN urls
      PROVE  /\ reads'[i] \in Read /\ reads'[i].at \in {"path", "look"}
             /\ reads'[i].at = "look" => /\ reads'[i].url \in Urls
                                         /\ reads'[i].since <= published'[reads'[i].url]
    <2>1. CASE urls[i] = NoUrl
        BY <1>2, <2>1 DEF Read
    <2>2. CASE urls[i] \in Urls /\ urls[i] # NoUrl
        BY <1>1, <1>2, <2>2 DEF Read
    <2> QED BY <2>1, <2>2
<1> QED BY <1>1, <1>2, <1>3 DEF Reads

(* For any number of imports of any addresses, and whatever other files'   *)
(* reads store meanwhile: a 304 is never answered with a row other than    *)
(* the one whose validators were sent.                                     *)
THEOREM ReadsAreFresh == Spec => []FreshBody
<1> DEFINE Typed == /\ file \in [rules : Seq(LocalRules), imports : Seq(Imports)]
                    /\ Reads
<1>1. Init => Typed
    BY DEF Init, CacheInit, Reads
<1>2. Typed /\ [Next]_vars => Typed'
    <2> SUFFICES ASSUME Typed, [Next]_vars PROVE Typed'
        OBVIOUS
    <2>1. CASE UNCHANGED <<file, cacheVars>>
        BY <2>1 DEF cacheVars, Reads, Read
    <2>2. ASSUME UNCHANGED cacheVars PROVE Reads'
        BY <2>2 DEF cacheVars, Reads
    <2>3. ASSUME NEW r \in LocalRules, AddRule(r) PROVE Typed'
        <3>1. file' = [file EXCEPT !.rules = Append(file.rules, r)] /\ UNCHANGED cacheVars
            BY <2>3 DEF AddRule
        <3>2. Append(file.rules, r) \in Seq(LocalRules)
            OBVIOUS
        <3>3. file' \in [rules : Seq(LocalRules), imports : Seq(Imports)]
            BY <3>1, <3>2
        <3> QED BY <2>2, <3>1, <3>3
    <2>4. ASSUME NEW m \in Imports, AddImport(m) PROVE Typed'
        <3>1. file' = [file EXCEPT !.imports = Append(file.imports, m)] /\ UNCHANGED cacheVars
            BY <2>4 DEF AddImport
        <3>2. Append(file.imports, m) \in Seq(Imports)
            OBVIOUS
        <3>3. file' \in [rules : Seq(LocalRules), imports : Seq(Imports)]
            BY <3>1, <3>2
        <3> QED BY <2>2, <3>1, <3>3
    <2>5. CASE Fetch
        <3> DEFINE urls == [i \in DOMAIN file.imports |-> file.imports[i].url]
        <3>1. \A i \in DOMAIN urls : urls[i] \in Urls \cup {NoUrl}
            BY SourcesAssumption
        <3>2. BeginReads(urls) /\ UNCHANGED file
            BY <2>5 DEF Fetch
        <3> QED BY <3>1, <3>2, BeginReadsKeeps
    <2>6. CASE Reading
        BY <2>6, CacheStepKeeps DEF Reading
    <2>7. CASE Normalize
        BY <2>1, <2>7 DEF Normalize
    <2>8. ASSUME NEW i, Receive(i) \/ FetchFails(i) PROVE Typed'
        BY <2>1, <2>8 DEF Receive, FetchFails
    <2>9. CASE UNCHANGED vars
        BY <2>1, <2>9 DEF vars
    <2> QED BY <2>3, <2>4, <2>5, <2>6, <2>7, <2>8, <2>9 DEF Next
<1>3. Typed => FreshBody
    BY DEF Reads, FreshBody
<1> QED BY <1>1, <1>2, <1>3, PTL DEF Spec

-----------------------------------------------------------------------------
(* A name without the dots around it is the same however they are cut off. *)
LEMMA TrimIs ==
    ASSUME NEW n \in Written, NEW a \in 1 .. Len(n), NEW b \in 1 .. Len(n),
           a <= b, n[a] # Dot, n[b] # Dot,
           \A i \in 1 .. Len(n) : i < a \/ b < i => n[i] = Dot
    PROVE  normalizeMatchHost(n) = SubSeq(n, a, b)
<1> DEFINE inner == {i \in 1 .. Len(n) : n[i] # Dot}
           last == CHOOSE i \in inner : \A j \in inner : j <= i
<1>1. Len(n) \in Nat
  BY DEF Written
<1>2. a \in inner /\ b \in inner /\ \A j \in inner : a <= j /\ j <= b
  BY <1>1
<1>3. Least(inner) = a
  <2>1. inner \subseteq Nat
    BY <1>1
  <2> HIDE DEF inner
  <2> QED BY <1>2, <2>1, LeastIs
<1>4. last \in inner /\ \A j \in inner : j <= last
  BY <1>2
<1>5. last = b
  BY <1>1, <1>2, <1>4
<1>6. normalizeMatchHost(n) = IF inner = {} THEN <<>> ELSE SubSeq(n, Least(inner), last)
  BY DEF normalizeMatchHost
<1> HIDE DEF inner, last
<1> QED BY <1>2, <1>3, <1>5, <1>6

(* A name is dots alone, or there is a first and a last other label.       *)
LEMMA TrimCases ==
    ASSUME NEW n \in Written
    PROVE  \/ normalizeMatchHost(n) = <<>> /\ \A i \in 1 .. Len(n) : n[i] = Dot
           \/ \E a, b \in 1 .. Len(n) :
                 /\ a <= b /\ n[a] # Dot /\ n[b] # Dot
                 /\ \A i \in 1 .. Len(n) : i < a \/ b < i => n[i] = Dot
<1> DEFINE inner == {i \in 1 .. Len(n) : n[i] # Dot}
           gaps == {Len(n) - i : i \in inner}
<1>1. Len(n) \in Nat
  BY DEF Written
<1>2. CASE inner = {}
  <2>1. normalizeMatchHost(n) = <<>>
    BY <1>2 DEF normalizeMatchHost
  <2> QED BY <1>2, <2>1
<1>3. CASE inner # {}
  <2>1. inner \subseteq Nat /\ gaps \subseteq Nat /\ gaps # {}
    BY <1>1, <1>3
  <2>2. Least(inner) \in inner /\ \A j \in inner : Least(inner) <= j
    BY <1>3, <2>1, LeastIsLeast
  <2> HIDE DEF gaps
  <2>3. Least(gaps) \in gaps /\ \A j \in gaps : Least(gaps) <= j
    BY <2>1, LeastIsLeast
  <2>4. PICK b \in inner : Least(gaps) = Len(n) - b
    BY <2>3 DEF gaps
  <2>5. \A j \in inner : Len(n) - j \in gaps
    BY DEF gaps
  <2>6. \A j \in inner : j <= b
    BY <1>1, <2>3, <2>4, <2>5
  <2> DEFINE a == Least(inner)
  <2>7. a \in inner /\ \A j \in inner : a <= j
    BY <2>2
  <2> HIDE DEF a
  <2>8. \A i \in 1 .. Len(n) : i < a \/ b < i => n[i] = Dot
    <3> SUFFICES ASSUME NEW i \in 1 .. Len(n), n[i] # Dot PROVE a <= i /\ i <= b
      BY <1>1, <2>7
    <3> QED BY <2>6, <2>7
  <2>9. a \in 1 .. Len(n) /\ b \in 1 .. Len(n) /\ a <= b /\ n[a] # Dot /\ n[b] # Dot
    BY <2>6, <2>7
  <2> QED BY <2>8, <2>9
<1> QED BY <1>2, <1>3

(* A dropped trailing dot does not change what trimming leaves.            *)
LEMMA DropTrailingKeeps ==
    ASSUME NEW n \in Written
    PROVE  /\ DropTrailingDot(n) \in Written
           /\ normalizeMatchHost(DropTrailingDot(n)) = normalizeMatchHost(n)
<1>1. CASE ~(n # <<>> /\ n[1] = Dot)
  BY <1>1 DEF DropTrailingDot
<1>2. CASE n # <<>> /\ n[1] = Dot
  <2> DEFINE t == Tail(n)
  <2>1. t = DropTrailingDot(n)
    BY <1>2 DEF DropTrailingDot
  <2>2. t \in Written /\ Len(n) \in Nat \ {0} /\ Len(t) = Len(n) - 1
    BY <1>2 DEF Written
  <2>3. \A i \in 1 .. Len(t) : t[i] = n[i + 1]
    BY <1>2, <2>2 DEF Written
  <2> HIDE DEF t
  <2>4. CASE \A i \in 1 .. Len(n) : n[i] = Dot
    <3>1. \A i \in 1 .. Len(t) : t[i] = Dot
      <4> TAKE i \in 1 .. Len(t)
      <4>1. i + 1 \in 1 .. Len(n)
        BY <2>2
      <4> QED BY <2>3, <2>4, <4>1
    <3>2. normalizeMatchHost(n) = <<>> /\ normalizeMatchHost(t) = <<>>
      BY <2>2, <2>4, <3>1, TrimCases
    <3> QED BY <2>1, <2>2, <3>2
  <2>5. ASSUME NEW a \in 1 .. Len(n), NEW b \in 1 .. Len(n),
               a <= b, n[a] # Dot, n[b] # Dot,
               \A i \in 1 .. Len(n) : i < a \/ b < i => n[i] = Dot
        PROVE  normalizeMatchHost(t) = normalizeMatchHost(n)
    <3>1. a # 1 /\ b # 1
      BY <1>2, <2>5
    <3> DEFINE c == a - 1
               d == b - 1
    <3>2. c \in 1 .. Len(t) /\ d \in 1 .. Len(t) /\ c <= d /\ c + 1 = a /\ d + 1 = b
      BY <2>2, <2>5, <3>1
    <3> HIDE DEF c, d
    <3>3. t[c] # Dot /\ t[d] # Dot
      BY <2>3, <2>5, <3>2
    <3>4. ASSUME NEW i \in 1 .. Len(t), i < c \/ d < i
          PROVE  t[i] = Dot
      <4>1. i + 1 \in 1 .. Len(n) /\ (i + 1 < a \/ b < i + 1)
        BY <2>2, <3>2, <3>4
      <4> QED BY <2>3, <2>5, <4>1
    <3>5. normalizeMatchHost(t) = SubSeq(t, c, d)
      BY <2>2, <3>2, <3>3, <3>4, TrimIs
    <3>6. normalizeMatchHost(n) = SubSeq(n, a, b)
      BY <2>5, TrimIs
    <3>7. SubSeq(t, c, d) = SubSeq(n, a, b)
      <4>1. /\ SubSeq(t, c, d) \in Seq(Labels \cup {Dot}) /\ Len(SubSeq(t, c, d)) = d - c + 1
            /\ \A i \in 1 .. d - c + 1 : SubSeq(t, c, d)[i] = t[c + i - 1]
        BY <2>2, <3>2 DEF Written
      <4>2. /\ SubSeq(n, a, b) \in Seq(Labels \cup {Dot}) /\ Len(SubSeq(n, a, b)) = b - a + 1
            /\ \A i \in 1 .. b - a + 1 : SubSeq(n, a, b)[i] = n[a + i - 1]
        BY <2>2, <2>5 DEF Written
      <4>3. b - a + 1 = d - c + 1
        BY <2>2, <3>2
      <4>4. ASSUME NEW i \in 1 .. d - c + 1
            PROVE  t[c + i - 1] = n[a + i - 1]
        <5>1. c + i - 1 \in 1 .. Len(t) /\ (c + i - 1) + 1 = a + i - 1
          BY <2>2, <3>2
        <5> QED BY <2>3, <5>1
      <4> HIDE DEF t
      <4> DEFINE u == SubSeq(t, c, d)
                 v == SubSeq(n, a, b)
      <4>5. u \in Seq(Labels \cup {Dot}) /\ v \in Seq(Labels \cup {Dot}) /\ Len(u) = Len(v)
        BY <4>1, <4>2, <4>3
      <4>6. \A i \in 1 .. Len(u) : u[i] = v[i]
        BY <4>1, <4>2, <4>3, <4>4
      <4> HIDE DEF u, v
      <4>7. u = v
        BY <4>5, <4>6
      <4> QED BY <4>7 DEF u, v
    <3> QED BY <3>5, <3>6, <3>7
  <2>6. normalizeMatchHost(t) = normalizeMatchHost(n)
    BY <2>1, <2>4, <2>5, TrimCases
  <2> QED BY <2>1, <2>2, <2>6
<1> QED BY <1>1, <1>2

(* A sequence cut after m elements.                                        *)
LEMMA CutShort ==
    ASSUME NEW S, NEW n \in Seq(S), NEW m \in 0 .. Len(n)
    PROVE  SubSeq(n, 1, m) \in Seq(S) /\ Len(SubSeq(n, 1, m)) = m
<1>1. \A i \in 1 .. m : n[i] \in S
  OBVIOUS
<1> QED BY <1>1

(* A piece of a sequence.                                                  *)
LEMMA PieceIs ==
    ASSUME NEW S, NEW n \in Seq(S), NEW a \in 1 .. Len(n), NEW b \in 1 .. Len(n), a <= b
    PROVE  /\ SubSeq(n, a, b) \in Seq(S) /\ Len(SubSeq(n, a, b)) = b - a + 1
           /\ \A i \in 1 .. b - a + 1 : SubSeq(n, a, b)[i] = n[a + i - 1]
OBVIOUS

(* Nor does a dropped leading dot.                                         *)
LEMMA DropLeadingKeeps ==
    ASSUME NEW n \in Written
    PROVE  /\ DropLeadingDot(n) \in Written
           /\ normalizeMatchHost(DropLeadingDot(n)) = normalizeMatchHost(n)
<1>1. CASE ~(n # <<>> /\ n[Len(n)] = Dot)
  BY <1>1 DEF DropLeadingDot
<1>2. CASE n # <<>> /\ n[Len(n)] = Dot
  <2> DEFINE t == SubSeq(n, 1, Len(n) - 1)
  <2>1. t = DropLeadingDot(n)
    BY <1>2 DEF DropLeadingDot
  <2>2. t \in Written /\ Len(n) \in Nat \ {0} /\ Len(t) = Len(n) - 1
    <3>1. n \in Seq(Labels \cup {Dot}) /\ Len(n) \in Nat
      BY DEF Written
    <3>2. Len(n) # 0
      BY <1>2, <3>1
    <3>3. Len(n) - 1 \in 0 .. Len(n)
      BY <3>1, <3>2
    <3>4. t \in Seq(Labels \cup {Dot}) /\ Len(t) = Len(n) - 1
      BY <3>1, <3>3, CutShort
    <3> HIDE DEF t
    <3> QED BY <3>1, <3>2, <3>4 DEF Written
  <2>3. \A i \in 1 .. Len(t) : t[i] = n[i] /\ i \in 1 .. Len(n)
    BY <1>2, <2>2 DEF Written
  <2> HIDE DEF t
  <2>4. CASE \A i \in 1 .. Len(n) : n[i] = Dot
    <3>1. \A i \in 1 .. Len(t) : t[i] = Dot
      BY <2>3, <2>4
    <3>2. normalizeMatchHost(n) = <<>> /\ normalizeMatchHost(t) = <<>>
      BY <2>2, <2>4, <3>1, TrimCases
    <3> QED BY <2>1, <2>2, <3>2
  <2>5. ASSUME NEW a \in 1 .. Len(n), NEW b \in 1 .. Len(n),
               a <= b, n[a] # Dot, n[b] # Dot,
               \A i \in 1 .. Len(n) : i < a \/ b < i => n[i] = Dot
        PROVE  normalizeMatchHost(t) = normalizeMatchHost(n)
    <3>1. b # Len(n)
      BY <1>2, <2>5
    <3>2. a \in 1 .. Len(t) /\ b \in 1 .. Len(t)
      BY <2>2, <2>5, <3>1
    <3>3. t[a] # Dot /\ t[b] # Dot /\ \A i \in 1 .. Len(t) : i < a \/ b < i => t[i] = Dot
      BY <2>3, <2>5, <3>2
    <3>4. normalizeMatchHost(t) = SubSeq(t, a, b)
      BY <2>2, <2>5, <3>2, <3>3, TrimIs
    <3>5. normalizeMatchHost(n) = SubSeq(n, a, b)
      BY <2>5, TrimIs
    <3> DEFINE u == SubSeq(t, a, b)
               v == SubSeq(n, a, b)
    <3>6. /\ u \in Seq(Labels \cup {Dot}) /\ Len(u) = b - a + 1
          /\ \A i \in 1 .. b - a + 1 : u[i] = t[a + i - 1]
      BY <2>2, <2>5, <3>2, PieceIs DEF Written
    <3>7. /\ v \in Seq(Labels \cup {Dot}) /\ Len(v) = b - a + 1
          /\ \A i \in 1 .. b - a + 1 : v[i] = n[a + i - 1]
      BY <2>2, <2>5, PieceIs DEF Written
    <3>8. \A i \in 1 .. b - a + 1 : a + i - 1 \in 1 .. Len(t)
      BY <2>2, <2>5, <3>2
    <3> HIDE DEF u, v
    <3>9. \A i \in 1 .. b - a + 1 : u[i] = v[i]
      BY <2>3, <3>6, <3>7, <3>8
    <3>10. u = v
      BY <3>6, <3>7, <3>9
    <3> QED BY <3>4, <3>5, <3>10 DEF u, v
  <2>6. normalizeMatchHost(t) = normalizeMatchHost(n)
    BY <2>1, <2>4, <2>5, TrimCases
  <2> QED BY <2>1, <2>2, <2>6
<1> QED BY <1>1, <1>2

(* smartdns's name of a rule is one the matcher has, once it is trimmed.   *)
LEMMA NamedIsMatched ==
    ASSUME NEW r \in Rule, NEW n \in Named(r)
    PROVE  n \in Written /\ Matches(r, normalizeMatchHost(n))
<1>1. PICK v \in r.domain \cup r.suffix : n = normalizeDomain(v)
  BY DEF Named
<1>2. v \in Written
  BY DEF Rule
<1>3. n \in Written /\ normalizeMatchHost(n) = normalizeMatchHost(v)
  BY <1>1, <1>2, DropTrailingKeeps, DropLeadingKeeps DEF normalizeDomain
<1> DEFINE h == normalizeMatchHost(v)
<1>4. h \in ExactNames(r) \cup SuffixNames(r)
  BY DEF ExactNames, SuffixNames
<1>5. Starts(h, h)
  <2>1. h \in Seq(Chars)
    BY <1>2, NormalizedIsName DEF Written, Chars
  <2> HIDE DEF h
  <2> QED BY <2>1 DEF Starts
<1> HIDE DEF h
<1>6. Matches(r, h)
  BY <1>4, <1>5 DEF Matches
<1> QED BY <1>3, <1>6 DEF h

-----------------------------------------------------------------------------
(* The DNS plan.                                                           *)

(* The k-th rule is the first that names n.                                *)
FirstNamer(list, n, k) ==
    n \in Named(list[k]) /\ \A j \in 1 .. k - 1 : n \notin Named(list[j])

(* What buildPlan has made of the first k rules.                           *)
PlanOf(plan, list, k) ==
    /\ \A n : n \in plan.decided <=> \E j \in 1 .. k : n \in Named(list[j])
    /\ \A n : n \in plan.gateway <=> \E j \in 1 .. k : FirstNamer(list, n, j) /\ Gateway(list[j])
    /\ \A n, p : <<n, p>> \in plan.pool <=>
          \E j \in 1 .. k : FirstNamer(list, n, j) /\ DNSOnly(list[j]) /\ p = list[j].pool

(* One rule more: the plan before it, and what it decides.                 *)
LEMMA PlanGrows ==
    ASSUME NEW list, NEW k \in Nat \ {0}, NEW plan, PlanOf(plan, list, k - 1)
    PROVE  PlanOf(addDomainRule(plan, list[k]), list, k)
<1> DEFINE r == list[k]
           fresh == Named(r) \ plan.decided
           next == addDomainRule(plan, r)
<1>1. /\ next.decided = plan.decided \cup fresh
      /\ next.gateway = plan.gateway \cup IF Gateway(r) THEN fresh ELSE {}
      /\ next.pool = plan.pool \cup IF DNSOnly(r) THEN fresh \X {r.pool} ELSE {}
  BY DEF addDomainRule
<1>2. \A j \in 1 .. k : j \in 1 .. k - 1 \/ j = k
  OBVIOUS
<1>3. k \in 1 .. k /\ \A j \in 1 .. k - 1 : j \in 1 .. k
  OBVIOUS
<1>4. /\ \A n : n \in plan.decided <=> \E j \in 1 .. k - 1 : n \in Named(list[j])
      /\ \A n : n \in plan.gateway <=>
            \E j \in 1 .. k - 1 : FirstNamer(list, n, j) /\ Gateway(list[j])
      /\ \A n, p : <<n, p>> \in plan.pool <=>
            \E j \in 1 .. k - 1 : FirstNamer(list, n, j) /\ DNSOnly(list[j]) /\ p = list[j].pool
  BY DEF PlanOf
<1>5. \A n : n \in fresh <=> FirstNamer(list, n, k)
  BY <1>4 DEF FirstNamer
<1> HIDE DEF next, fresh
<1>6. \A n : n \in next.decided <=> \E j \in 1 .. k : n \in Named(list[j])
  <2> TAKE n
  <2>1. n \in next.decided <=> n \in plan.decided \/ n \in Named(r)
    BY <1>1 DEF fresh
  <2> QED BY <1>2, <1>3, <1>4, <2>1
<1>7. \A n : n \in next.gateway <=> \E j \in 1 .. k : FirstNamer(list, n, j) /\ Gateway(list[j])
  <2> TAKE n
  <2>1. n \in next.gateway <=> n \in plan.gateway \/ (n \in fresh /\ Gateway(r))
    BY <1>1
  <2> QED BY <1>2, <1>3, <1>4, <1>5, <2>1
<1>8. \A n, p : <<n, p>> \in next.pool <=>
         \E j \in 1 .. k : FirstNamer(list, n, j) /\ DNSOnly(list[j]) /\ p = list[j].pool
  <2> TAKE n, p
  <2>1. <<n, p>> \in next.pool <=>
           <<n, p>> \in plan.pool \/ (n \in fresh /\ DNSOnly(r) /\ p = r.pool)
    BY <1>1
  <2> QED BY <1>2, <1>3, <1>4, <1>5, <2>1
<1> QED BY <1>6, <1>7, <1>8 DEF PlanOf, next

(* The plan after k rules, by the first rule that names each name.         *)
LEMMA PlanIs ==
    ASSUME NEW list \in Seq(Rule)
    PROVE  PlanOf(buildPlan(list), list, Len(list))
<1> DEFINE n == Len(list)
           Loop(f) == [k \in 0 .. n |->
                          IF k = 0 THEN NoPlan ELSE addDomainRule(f[k - 1], list[k])]
           plan == CHOOSE f : f = Loop(f)
           names == UNION {Named(list[k]) : k \in 1 .. n}
           Plans == [decided : SUBSET names, gateway : SUBSET names,
                     pool : SUBSET (names \X (Pools \cup {NoPool}))]
           step == [k \in 1 .. n |-> [x \in Plans |-> addDomainRule(x, list[k])]]
<1>1. n \in Nat /\ \A k \in 1 .. n : list[k] \in Rule
  OBVIOUS
<1>2. buildPlan(list) = plan[n]
  BY DEF buildPlan
<1> HIDE DEF n
<1>3. NoPlan \in Plans
  BY DEF NoPlan
<1>4. ASSUME NEW k \in 1 .. n, NEW x \in Plans
      PROVE  addDomainRule(x, list[k]) \in Plans
  <2>1. Named(list[k]) \subseteq names /\ list[k].pool \in Pools \cup {NoPool}
    BY <1>1 DEF Rule
  <2> HIDE DEF names
  <2>2. x.decided \subseteq names /\ x.gateway \subseteq names
        /\ x.pool \subseteq names \X (Pools \cup {NoPool})
    OBVIOUS
  <2> QED BY <2>1, <2>2 DEF addDomainRule
<1> HIDE DEF Plans
<1>5. step \in [1 .. n -> [Plans -> Plans]]
  BY <1>4
<1>6. PICK f : IsRecursion(f, n, Plans, NoPlan, step)
  <2> HIDE DEF step
  <2> QED BY <1>1, <1>3, <1>5, RecursionExists
<1>7. \A k \in 1 .. n : f[k] = addDomainRule(f[k - 1], list[k])
  <2> TAKE k \in 1 .. n
  <2>1. f[k - 1] \in Plans
    BY <1>1, <1>6 DEF IsRecursion
  <2> QED BY <1>6, <2>1 DEF IsRecursion
<1>8. f = Loop(f)
  <2>1. \A k \in 0 .. n : k = 0 \/ k \in 1 .. n
    BY <1>1
  <2>2. \A k \in 0 .. n : f[k] = IF k = 0 THEN NoPlan ELSE addDomainRule(f[k - 1], list[k])
    BY <1>6, <1>7, <2>1 DEF IsRecursion
  <2> QED BY <1>6, <2>2 DEF IsRecursion
<1>9. plan = Loop(plan)
  BY <1>8
<1>10. plan[0] = NoPlan /\ \A k \in 1 .. n : plan[k] = addDomainRule(plan[k - 1], list[k])
  <2> HIDE DEF plan
  <2>1. \A k \in 0 .. n : plan[k] = IF k = 0 THEN NoPlan ELSE addDomainRule(plan[k - 1], list[k])
    BY <1>9
  <2>2. 0 \in 0 .. n /\ \A k \in 1 .. n : k \in 0 .. n /\ k # 0
    BY <1>1
  <2> HIDE DEF Loop
  <2> QED BY <2>1, <2>2
<1> HIDE DEF plan, Loop, step
<1> DEFINE T == {k \in 0 .. n : PlanOf(plan[k], list, k)}
<1>11. 0 \in T
  <2>1. PlanOf(NoPlan, list, 0)
    BY DEF PlanOf, NoPlan
  <2> QED BY <1>1, <1>10, <2>1
<1>12. ASSUME NEW k \in 1 .. n, k - 1 \in T PROVE k \in T
  <2>1. k \in Nat \ {0} /\ k \in 0 .. n
    BY <1>1
  <2>2. PlanOf(addDomainRule(plan[k - 1], list[k]), list, k)
    BY <1>12, <2>1, PlanGrows
  <2> QED BY <1>10, <2>1, <2>2
<1> HIDE DEF T
<1>13. n \in T
  <2>1. 0 .. n \subseteq T
    BY <1>1, <1>11, <1>12, CountingUp
  <2> QED BY <1>1, <2>1
<1> QED BY <1>2, <1>13 DEF T, n

(* The gateway's rules, by their ranks in the list they are taken from.    *)
LEMMA GatewayRanks ==
    ASSUME NEW list \in Seq(Rule)
    PROVE  /\ GatewayRules(list) \in Seq(Rule)
           /\ \E from \in [DOMAIN GatewayRules(list) -> DOMAIN list] :
                 /\ \A i \in DOMAIN GatewayRules(list) :
                       GatewayRules(list)[i] = list[from[i]] /\ Gateway(list[from[i]])
                 /\ \A i, j \in DOMAIN GatewayRules(list) : i < j => from[i] < from[j]
                 /\ \A k \in DOMAIN list :
                       Gateway(list[k]) => \E i \in DOMAIN GatewayRules(list) : from[i] = k
<1> DEFINE at == {k \in DOMAIN list : Gateway(list[k])}
           t == GatewayRules(list)
<1>1. t = Filter(list, at) /\ at \in SUBSET DOMAIN list
  BY DEF GatewayRules
<1>2. \A k \in at : k \in DOMAIN list /\ Gateway(list[k])
  OBVIOUS
<1>3. \A k \in DOMAIN list : Gateway(list[k]) => k \in at
  OBVIOUS
<1> HIDE DEF at, t
<1>4. /\ t \in Seq(Rule)
      /\ \E from \in [DOMAIN t -> at] :
            /\ \A i \in DOMAIN t : t[i] = list[from[i]]
            /\ \A i, j \in DOMAIN t : i < j => from[i] < from[j]
            /\ \A k \in at : \E i \in DOMAIN t : from[i] = k
  BY <1>1, FilterKeeps
<1>5. PICK from \in [DOMAIN t -> at] :
            /\ \A i \in DOMAIN t : t[i] = list[from[i]]
            /\ \A i, j \in DOMAIN t : i < j => from[i] < from[j]
            /\ \A k \in at : \E i \in DOMAIN t : from[i] = k
  BY <1>4
<1>6. from \in [DOMAIN t -> DOMAIN list] /\ \A i \in DOMAIN t : Gateway(list[from[i]])
  BY <1>2
<1>7. \A k \in DOMAIN list : Gateway(list[k]) => \E i \in DOMAIN t : from[i] = k
  BY <1>3, <1>5
<1>8. \E fr \in [DOMAIN t -> DOMAIN list] :
            /\ \A i \in DOMAIN t : t[i] = list[fr[i]] /\ Gateway(list[fr[i]])
            /\ \A i, j \in DOMAIN t : i < j => fr[i] < fr[j]
            /\ \A k \in DOMAIN list : Gateway(list[k]) => \E i \in DOMAIN t : fr[i] = k
  BY <1>5, <1>6, <1>7
<1> QED BY <1>4, <1>8 DEF t

(* The body of PlanAgrees, for any list of rules.                          *)
LEMMA PlanFollows ==
    ASSUME NEW list \in Seq(Rule), ~CompileFails(list),
           NEW n \in UNION {Named(list[k]) : k \in DOMAIN list}
    PROVE  LET plan == buildPlan(list)
               c == Compile(list)
               first == Least({k \in DOMAIN list : n \in Named(list[k])})
           IN  /\ n \in plan.gateway <=> Gateway(list[first])
               /\ {p \in Pools : <<n, p>> \in plan.pool} = {list[first].pool} \ {NoPool}
               /\ n \in plan.gateway =>
                     LET k == MatchGatewayDomain(c, n)
                     IN  k # 0 /\ \E i \in 1 .. first : list[i].name = c.rules[k].name
<1> DEFINE plan == buildPlan(list)
           c == Compile(list)
           namers == {k \in DOMAIN list : n \in Named(list[k])}
           first == Least(namers)
           g == GatewayRules(list)
<1>1. DOMAIN list = 1 .. Len(list) /\ Len(list) \in Nat
  OBVIOUS
<1>2. namers \subseteq Nat /\ namers # {}
  BY <1>1
<1>3. first \in namers /\ \A j \in namers : first <= j
  BY <1>2, LeastIsLeast
<1>4. first \in 1 .. Len(list) /\ first \in DOMAIN list /\ n \in Named(list[first])
  BY <1>1, <1>3
<1>5. \A j \in 1 .. Len(list) : FirstNamer(list, n, j) <=> j = first
  <2> SUFFICES ASSUME NEW j \in 1 .. Len(list)
               PROVE  FirstNamer(list, n, j) <=> j = first
    OBVIOUS
  <2>1. CASE j = first
    <3>1. \A i \in 1 .. j - 1 : i \in DOMAIN list /\ ~(first <= i)
      BY <1>1, <1>4, <2>1
    <3>2. \A i \in 1 .. j - 1 : n \notin Named(list[i])
      BY <1>3, <3>1
    <3> QED BY <1>4, <2>1, <3>2 DEF FirstNamer
  <2>2. CASE j # first
    <3> SUFFICES ASSUME FirstNamer(list, n, j) PROVE FALSE
      BY <2>2
    <3>1. j \in namers
      BY <1>1 DEF FirstNamer
    <3>2. first <= j
      BY <1>3, <3>1
    <3>3. first \in 1 .. j - 1
      BY <1>1, <1>4, <2>2, <3>2
    <3> QED BY <1>4, <3>3 DEF FirstNamer
  <2> QED BY <2>1, <2>2
<1> HIDE DEF first, namers
<1>6. PlanOf(plan, list, Len(list))
  BY PlanIs
<1> HIDE DEF plan
<1>7. n \in plan.gateway <=> Gateway(list[first])
  BY <1>4, <1>5, <1>6 DEF PlanOf
<1>8. {p \in Pools : <<n, p>> \in plan.pool} = {list[first].pool} \ {NoPool}
  <2>1. \A p : <<n, p>> \in plan.pool <=> DNSOnly(list[first]) /\ p = list[first].pool
    BY <1>4, <1>5, <1>6 DEF PlanOf
  <2>2. list[first].pool \in Pools \cup {NoPool}
    <3>1. list[first] \in Rule
      BY <1>4
    <3> QED BY <3>1 DEF Rule
  <2> QED BY <2>1, <2>2, PoolsAssumption DEF DNSOnly
<1> DEFINE k == MatchGatewayDomain(c, n)
<1>9. ASSUME Gateway(list[first])
      PROVE  k # 0 /\ \E i \in 1 .. first : list[i].name = c.rules[k].name
  <2> DEFINE h == normalizeMatchHost(n)
             hits == {i \in DOMAIN g : Matches(g[i], h)}
  <2>1. list[first] \in Rule
    BY <1>4
  <2>2. n \in Written /\ Matches(list[first], h)
    BY <1>4, <2>1, NamedIsMatched
  <2> HIDE DEF h, g
  <2>3. g \in Seq(Rule)
    BY GatewayRanks DEF g
  <2>4. PICK from \in [DOMAIN g -> DOMAIN list] :
            /\ \A i \in DOMAIN g : g[i] = list[from[i]] /\ Gateway(list[from[i]])
            /\ \A i, j \in DOMAIN g : i < j => from[i] < from[j]
            /\ \A m \in DOMAIN list : Gateway(list[m]) => \E i \in DOMAIN g : from[i] = m
    BY GatewayRanks DEF g
  <2>5. NamesAreThere(g)
    BY <2>4 DEF NamesAreThere, CompileFails
  <2>6. c = CompileRules(g) /\ c.rules = g
    BY DEF Compile, CompileRules, g
  <2>7. k = IF hits = {} THEN 0 ELSE Least(hits)
    BY <2>2, <2>3, <2>5, <2>6, CompiledIsFirst DEF h
  <2>8. PICK m \in DOMAIN g : from[m] = first
    BY <1>4, <1>9, <2>4
  <2>9. m \in hits
    BY <2>2, <2>4, <2>8
  <2>10. hits \subseteq Nat /\ DOMAIN g \subseteq Nat \ {0}
    BY <2>3
  <2>11. Least(hits) \in hits /\ Least(hits) <= m
    BY <2>9, <2>10, LeastIsLeast
  <2>12. k \in DOMAIN g /\ k # 0 /\ k <= m
    BY <2>7, <2>9, <2>10, <2>11
  <2> HIDE DEF k, hits
  <2>13. from[k] <= first /\ from[k] \in 1 .. Len(list)
    <3>1. from[k] \in 1 .. Len(list) /\ from[m] \in 1 .. Len(list)
      BY <1>1, <2>4, <2>8, <2>12
    <3>2. CASE k = m
      BY <2>8, <3>1, <3>2
    <3>3. CASE k # m
      <4>1. k < m
        BY <2>8, <2>10, <2>12, <3>3
      <4>2. from[k] < from[m]
        BY <2>4, <2>8, <2>12, <4>1
      <4> QED BY <2>8, <3>1, <4>2
    <3> QED BY <3>2, <3>3
  <2>14. from[k] \in 1 .. first
    BY <1>4, <2>13
  <2>15. list[from[k]].name = c.rules[k].name
    BY <2>4, <2>6, <2>12
  <2> QED BY <2>12, <2>14, <2>15
<1> QED BY <1>7, <1>8, <1>9 DEF plan, first, namers

-----------------------------------------------------------------------------
(* The sort.                                                               *)

(* What sortNormalizedSources compares.                                    *)
Source(s) == s.priority \in Nat /\ s.defaulted \in BOOLEAN /\ s.index \in Nat

(* Less orders sources: of two with different indexes one comes first.     *)
LEMMA LessIsOrder ==
    ASSUME NEW s, NEW t, NEW u, Source(s), Source(t), Source(u)
    PROVE  /\ s.index # t.index => Less(s, t) \/ Less(t, s)
           /\ Less(s, t) /\ Less(t, u) => Less(s, u)
           /\ ~Less(s, s)
BY DEF Less, Source

(* p is the order of the first k of the sources.                           *)
Arranges(p, sources, k) ==
    /\ p \in [1 .. k -> 1 .. k]
    /\ \A q \in 1 .. k : \E i \in 1 .. k : p[i] = q
    /\ \A i, j \in 1 .. k : i < j => Less(sources[p[i]], sources[p[j]])

(* One more source finds its place among those that are in order.          *)
LEMMA InsertSource ==
    ASSUME NEW k \in Nat \ {0}, NEW sources,
           \A q \in 1 .. k : Source(sources[q]) /\ sources[q].index = q,
           NEW p, Arranges(p, sources, k - 1)
    PROVE  \E o : Arranges(o, sources, k)
<1> DEFINE before == {0} \cup {i \in 1 .. k - 1 : Less(sources[p[i]], sources[k])}
           gaps == {k - i : i \in before}
<1>1. /\ p \in [1 .. k - 1 -> 1 .. k - 1]
      /\ \A q \in 1 .. k - 1 : \E i \in 1 .. k - 1 : p[i] = q
      /\ \A i, j \in 1 .. k - 1 : i < j => Less(sources[p[i]], sources[p[j]])
  BY DEF Arranges
<1>2. \A i \in 1 .. k - 1 : p[i] \in 1 .. k /\ p[i] # k
  <2>1. \A m \in 1 .. k - 1 : m \in 1 .. k /\ m # k
    OBVIOUS
  <2>2. \A i \in 1 .. k - 1 : p[i] \in 1 .. k - 1
    BY <1>1
  <2> QED BY <2>1, <2>2
<1>3. PICK c \in before : \A i \in before : i <= c
  <2>1. gaps \subseteq Nat /\ gaps # {}
    OBVIOUS
  <2> HIDE DEF gaps
  <2>2. Least(gaps) \in gaps /\ \A j \in gaps : Least(gaps) <= j
    BY <2>1, LeastIsLeast
  <2>3. PICK c \in before : Least(gaps) = k - c
    BY <2>2 DEF gaps
  <2>4. \A i \in before : k - i \in gaps
    BY DEF gaps
  <2>5. \A i \in before : k - c <= k - i
    BY <2>2, <2>3, <2>4
  <2>6. \A i \in before : i \in Nat
    OBVIOUS
  <2> HIDE DEF before
  <2>7. \A i \in before : i <= c
    BY <2>5, <2>6
  <2> QED BY <2>7
<1>4. c \in 0 .. k - 1
  OBVIOUS
<1>5. \A i \in 1 .. k - 1 : i <= c => Less(sources[p[i]], sources[k])
  <2> SUFFICES ASSUME NEW i \in 1 .. k - 1, i <= c PROVE Less(sources[p[i]], sources[k])
    OBVIOUS
  <2>1. c \in 1 .. k - 1 /\ Less(sources[p[c]], sources[k])
    BY <1>4
  <2>2. CASE i = c
    BY <2>1, <2>2
  <2>3. CASE i # c
    <3>1. Less(sources[p[i]], sources[p[c]])
      BY <1>1, <1>4, <2>1, <2>3
    <3>2. Source(sources[p[i]]) /\ Source(sources[p[c]]) /\ Source(sources[k])
      BY <1>2, <2>1
    <3> QED BY <2>1, <3>1, <3>2, LessIsOrder
  <2> QED BY <2>2, <2>3
<1>6. \A i \in 1 .. k - 1 : c < i => Less(sources[k], sources[p[i]])
  <2> SUFFICES ASSUME NEW i \in 1 .. k - 1, c < i PROVE Less(sources[k], sources[p[i]])
    OBVIOUS
  <2>1. i \notin before
    BY <1>3, <1>4
  <2>2. ~Less(sources[p[i]], sources[k])
    BY <2>1
  <2>3. /\ Source(sources[p[i]]) /\ sources[p[i]].index = p[i]
        /\ Source(sources[k]) /\ sources[k].index = k
    BY <1>2
  <2> QED BY <1>2, <2>2, <2>3, LessIsOrder
<1> HIDE DEF before
<1> DEFINE o == [i \in 1 .. k |-> IF i <= c THEN p[i] ELSE IF i = c + 1 THEN k ELSE p[i - 1]]
<1>7. \A i \in 1 .. k : \/ i <= c /\ i \in 1 .. k - 1 /\ o[i] = p[i]
                        \/ i = c + 1 /\ o[i] = k
                        \/ c + 1 < i /\ i - 1 \in 1 .. k - 1 /\ o[i] = p[i - 1]
  BY <1>4
<1>8. o[c + 1] = k /\ c + 1 \in 1 .. k
  BY <1>4
<1>9. \A i \in 1 .. k - 1 : \/ i \in 1 .. k /\ o[i] = p[i]
                            \/ i + 1 \in 1 .. k /\ o[i + 1] = p[i]
  <2> TAKE i \in 1 .. k - 1
  <2>1. CASE i <= c
    BY <2>1
  <2>2. CASE c < i
    <3>1. i + 1 \in 1 .. k /\ ~(i + 1 <= c) /\ i + 1 # c + 1 /\ (i + 1) - 1 = i
      BY <1>4, <2>2
    <3> QED BY <3>1
  <2> QED BY <1>4, <2>1, <2>2
<1>10. o \in [1 .. k -> 1 .. k]
  <2>1. \A i \in 1 .. k : o[i] \in 1 .. k
    <3> HIDE DEF o
    <3>1. k \in 1 .. k
      OBVIOUS
    <3> QED BY <1>2, <1>7, <3>1
  <2> QED BY <2>1
<1> HIDE DEF o
<1>11. \A q \in 1 .. k : \E i \in 1 .. k : o[i] = q
  <2> TAKE q \in 1 .. k
  <2>1. CASE q = k
    BY <1>8, <2>1
  <2>2. CASE q # k
    <3>1. q \in 1 .. k - 1
      BY <2>2
    <3>2. PICK i \in 1 .. k - 1 : p[i] = q
      BY <1>1, <3>1
    <3> QED BY <1>9, <3>2
  <2> QED BY <2>1, <2>2
<1>12. ASSUME NEW i \in 1 .. k, NEW j \in 1 .. k, i < j
       PROVE  Less(sources[o[i]], sources[o[j]])
  <2>1. CASE i = c + 1
    <3>1. c + 1 < j
      BY <1>12, <2>1
    <3>2. ~(j <= c) /\ j # c + 1
      BY <1>4, <3>1
    <3>3. j - 1 \in 1 .. k - 1 /\ o[j] = p[j - 1] /\ c < j - 1
      BY <1>4, <1>7, <3>1, <3>2
    <3> QED BY <1>6, <1>8, <2>1, <3>3
  <2>2. CASE j = c + 1
    <3>1. i <= c /\ i # c + 1 /\ ~(c + 1 < i)
      BY <1>4, <1>12, <2>2
    <3>2. i \in 1 .. k - 1 /\ o[i] = p[i]
      BY <1>7, <3>1
    <3> QED BY <1>5, <1>8, <2>2, <3>1, <3>2
  <2>3. CASE i # c + 1 /\ j # c + 1
    <3> DEFINE x == IF i <= c THEN i ELSE i - 1
               y == IF j <= c THEN j ELSE j - 1
    <3>1. x \in 1 .. k - 1 /\ o[i] = p[x]
      BY <1>4, <1>7, <2>3
    <3>2. y \in 1 .. k - 1 /\ o[j] = p[y]
      BY <1>4, <1>7, <2>3
    <3>3. x < y
      BY <1>4, <1>12, <2>3
    <3> HIDE DEF x, y
    <3> QED BY <1>1, <3>1, <3>2, <3>3
  <2> QED BY <2>1, <2>2, <2>3
<1>13. Arranges(o, sources, k)
  BY <1>10, <1>11, <1>12 DEF Arranges
<1> QED BY <1>13

(* There is one arrangement, and Sorted is it.                             *)
LEMMA SortedArranges ==
    ASSUME NEW n \in Nat, NEW sources, DOMAIN sources = 1 .. n,
           \A q \in 1 .. n : Source(sources[q]) /\ sources[q].index = q
    PROVE  \E p : Arranges(p, sources, n) /\ Sorted(sources) = [i \in 1 .. n |-> sources[p[i]]]
<1> DEFINE T == {k \in 0 .. n : \E p : Arranges(p, sources, k)}
<1>1. 0 \in T
  <2>1. Arranges(<<>>, sources, 0)
    BY DEF Arranges
  <2> QED BY <2>1
<1>2. ASSUME NEW k \in 1 .. n, k - 1 \in T PROVE k \in T
  <2>1. PICK p : Arranges(p, sources, k - 1)
    BY <1>2
  <2>2. k \in Nat \ {0} /\ \A q \in 1 .. k : q \in 1 .. n
    OBVIOUS
  <2>3. \E o : Arranges(o, sources, k)
    BY <2>1, <2>2, InsertSource
  <2> QED BY <2>3
<1> HIDE DEF T
<1>3. n \in T
  <2>1. 0 .. n \subseteq T
    BY <1>1, <1>2, CountingUp
  <2> QED BY <2>1
<1>4. PICK a : Arranges(a, sources, n)
  BY <1>3 DEF T
<1> DEFINE all == DOMAIN sources
           Fits(p) == /\ Range(p) = all
                      /\ \A i, j \in all : i < j => Less(sources[p[i]], sources[p[j]])
           order == CHOOSE p \in [all -> all] : Fits(p)
<1>5. ASSUME NEW p \in [1 .. n -> 1 .. n]
      PROVE  Fits(p) <=> Arranges(p, sources, n)
  <2>1. Range(p) = 1 .. n <=> \A q \in 1 .. n : \E i \in 1 .. n : p[i] = q
    BY DEF Range
  <2> QED BY <2>1 DEF Arranges
<1>6. a \in [all -> all] /\ Fits(a)
  <2> HIDE DEF Fits
  <2> QED BY <1>4, <1>5 DEF Arranges
<1>7. order \in [all -> all] /\ Fits(order)
  <2> HIDE DEF Fits
  <2> QED BY <1>6
<1>8. Sorted(sources) = [i \in all |-> sources[order[i]]]
  BY DEF Sorted
<1> HIDE DEF order, Fits
<1>9. Arranges(order, sources, n)
  BY <1>5, <1>7
<1> QED BY <1>8, <1>9

-----------------------------------------------------------------------------
(* What the resolved list is made of: the rules of the file by their place *)
(* among its sources and their number there.                               *)

Places == 1 .. Len(file.rules) + Len(file.imports)

EntryAt(q) ==
    IF q <= Len(file.rules)
    THEN [place |-> q, priority |-> file.rules[q].priority, defaulted |-> file.rules[q].defaulted]
    ELSE LET m == file.imports[q - Len(file.rules)]
         IN  [place |-> q, priority |-> m.priority, defaulted |-> m.defaulted]

WrittenAt(q) == AsWritten(EntryAt(q))

(* r is the j-th rule at q, but for the name it is given.                  *)
IsRuleAt(r, q, j) ==
    /\ q \in Places /\ j \in DOMAIN WrittenAt(q) /\ r.name = <<q, j>>
    /\ LET w == WrittenAt(q)[j]
       IN  r.pool = w.pool /\ r.domain = w.domain /\ r.suffix = w.suffix /\ r.pattern = w.pattern

(* The one with name a comes before the one with name b.                   *)
ItemAhead(a, b) ==
    Less(Sources[a[1]], Sources[b[1]]) \/ (a[1] = b[1] /\ a[2] < b[2])

InOrder(t) ==
    /\ t \in Seq(Rule)
    /\ \A k \in DOMAIN t : \E q, j : IsRuleAt(t[k], q, j)
    /\ \A k, l \in DOMAIN t : k < l => ItemAhead(t[k].name, t[l].name)

Has(t, q, j) == \E k \in DOMAIN t : IsRuleAt(t[k], q, j)

(* The file as it is when its imports have been read.                      *)
FileRead ==
    /\ file \in [rules : Seq(LocalRules), imports : Seq(Imports)]
    /\ \A i \in DOMAIN file.rules : ~Empty(file.rules[i].rule)
    /\ \A i \in DOMAIN file.imports : results[i] = i

(* A function on 1 .. n is a sequence.                                     *)
LEMMA FunctionIsSeq ==
    ASSUME NEW n \in Nat, NEW R, NEW s \in [1 .. n -> R]
    PROVE  s \in Seq(R) /\ Len(s) = n
OBVIOUS

(* The sources are the rules, then the imports.                            *)
LEMMA SourcesAre ==
    ASSUME FileRead
    PROVE  /\ DOMAIN Sources = Places
           /\ \A q \in Places : Sources[q] = IF q <= Len(file.rules) THEN LocalSource(q)
                                             ELSE ImportSource(q - Len(file.rules))
<1> DEFINE a == Len(file.rules)
           b == Len(file.imports)
           s == [i \in DOMAIN file.rules |-> LocalSource(i)]
           t == [i \in DOMAIN file.imports |-> ImportSource(i)]
           R == {LocalSource(i) : i \in 1 .. a} \cup {ImportSource(i) : i \in 1 .. b}
<1>1. a \in Nat /\ b \in Nat /\ DOMAIN file.rules = 1 .. a /\ DOMAIN file.imports = 1 .. b
  BY DEF FileRead
<1> HIDE DEF a, b
<1>2. /\ s = [i \in 1 .. a |-> LocalSource(i)] /\ t = [i \in 1 .. b |-> ImportSource(i)]
  BY <1>1
<1>3. \A i \in 1 .. a : s[i] = LocalSource(i) /\ s[i] \in R
  BY <1>2
<1>4. \A i \in 1 .. b : t[i] = ImportSource(i) /\ t[i] \in R
  BY <1>2
<1>5. DOMAIN s = 1 .. a /\ DOMAIN t = 1 .. b
  BY <1>2
<1>6. Sources = s \o t
  BY DEF Sources
<1>7. s \in [1 .. a -> R] /\ t \in [1 .. b -> R]
  <2> HIDE DEF R
  <2> QED BY <1>2, <1>3, <1>4
<1> HIDE DEF s, t, R
<1>8. s \in Seq(R) /\ Len(s) = a /\ t \in Seq(R) /\ Len(t) = b
  BY <1>1, <1>7, FunctionIsSeq
<1>9. DOMAIN Sources = 1 .. a + b
  BY <1>6, <1>8, ConcatAt
<1>10. \A i \in 1 .. a : Sources[i] = s[i]
  BY <1>6, <1>8, ConcatAt
<1>11. \A i \in 1 .. a + b : ~(i <= a) => Sources[i] = t[i - a]
  BY <1>6, <1>8, ConcatAt
<1>12. Places = 1 .. a + b
  BY DEF Places, a, b
<1>13. ASSUME NEW q \in 1 .. a + b
       PROVE  Sources[q] = IF q <= a THEN LocalSource(q) ELSE ImportSource(q - a)
  <2>1. CASE q <= a
    <3>1. q \in 1 .. a
      BY <1>1, <2>1
    <3> QED BY <1>3, <1>10, <2>1, <3>1
  <2>2. CASE ~(q <= a)
    <3>1. q - a \in 1 .. b
      BY <1>1, <2>2
    <3> QED BY <1>4, <1>11, <2>2, <3>1
  <2> QED BY <2>1, <2>2
<1> QED BY <1>9, <1>12, <1>13 DEF a

(* The entries of the page are those at the places.                        *)
LEMMA EntriesAre ==
    ASSUME FileRead
    PROVE  /\ Entries = {EntryAt(q) : q \in Places}
           /\ \A q \in Places : EntryAt(q).place = q
           /\ \A e \in Entries : e.place \in Places /\ e = EntryAt(e.place)
<1> DEFINE a == Len(file.rules)
           b == Len(file.imports)
<1>1. a \in Nat /\ b \in Nat /\ DOMAIN file.rules = 1 .. a /\ DOMAIN file.imports = 1 .. b
  BY DEF FileRead
<1>2. Places = 1 .. a + b
  BY DEF Places
<1>3. \A q : EntryAt(q) =
          IF q <= a
          THEN [place |-> q, priority |-> file.rules[q].priority,
                defaulted |-> file.rules[q].defaulted]
          ELSE [place |-> q, priority |-> file.imports[q - a].priority,
                defaulted |-> file.imports[q - a].defaulted]
  BY DEF EntryAt
<1> HIDE DEF a, b
<1>4. ASSUME NEW i \in 1 .. a
      PROVE  /\ i \in Places
             /\ EntryAt(i) = [place |-> i, priority |-> file.rules[i].priority,
                              defaulted |-> file.rules[i].defaulted]
  BY <1>1, <1>2, <1>3
<1>5. ASSUME NEW i \in 1 .. b
      PROVE  /\ a + i \in Places
             /\ EntryAt(a + i) = [place |-> a + i, priority |-> file.imports[i].priority,
                                  defaulted |-> file.imports[i].defaulted]
  <2>1. ~(a + i <= a) /\ (a + i) - a = i /\ a + i \in 1 .. a + b
    BY <1>1
  <2> QED BY <1>2, <1>3, <2>1
<1>6. \A q \in Places : q \in 1 .. a \/ \E i \in 1 .. b : q = a + i
  <2> SUFFICES ASSUME NEW q \in 1 .. a + b, q \notin 1 .. a PROVE \E i \in 1 .. b : q = a + i
    BY <1>2
  <2>1. q - a \in 1 .. b /\ q = a + (q - a)
    BY <1>1
  <2> QED BY <2>1
<1>7. Entries = {[place |-> i, priority |-> file.rules[i].priority,
                  defaulted |-> file.rules[i].defaulted] : i \in 1 .. a}
                \cup {[place |-> a + i, priority |-> file.imports[i].priority,
                       defaulted |-> file.imports[i].defaulted] : i \in 1 .. b}
  BY <1>1 DEF Entries, a, b
<1>8. Entries = {EntryAt(i) : i \in 1 .. a} \cup {EntryAt(a + i) : i \in 1 .. b}
  BY <1>4, <1>5, <1>7
<1>9. \A q \in Places : EntryAt(q).place = q
  <2> TAKE q \in Places
  <2>1. CASE q <= a
    BY <1>3, <2>1
  <2>2. CASE ~(q <= a)
    BY <1>3, <2>2
  <2> QED BY <2>1, <2>2
<1>10. Entries = {EntryAt(q) : q \in Places}
  <2>1. ASSUME NEW e \in Entries PROVE e \in {EntryAt(q) : q \in Places}
    BY <1>4, <1>5, <1>8
  <2>2. ASSUME NEW q \in Places PROVE EntryAt(q) \in Entries
    BY <1>6, <1>8
  <2> QED BY <2>1, <2>2
<1> QED BY <1>9, <1>10

(* What a place holds, as it is written and as Normalize is given it.      *)
LEMMA PlaceHolds ==
    ASSUME FileRead, NEW q \in Places
    PROVE  /\ Source(Sources[q]) /\ Sources[q].index = q
           /\ Sources[q].priority = EntryAt(q).priority
           /\ Sources[q].defaulted = EntryAt(q).defaulted
           /\ \/ \E r \in Rule : /\ ~Empty(r) /\ WrittenAt(q) = <<r>>
                                 /\ Sources[q].rules = <<[r EXCEPT !.name = <<q, 1>>]>>
              \/ \E m \in Imports : /\ WrittenAt(q) = Stripped(m, q)
                                    /\ Sources[q].rules = Parsed(m, q)
<1> DEFINE a == Len(file.rules)
           b == Len(file.imports)
<1>1. a \in Nat /\ b \in Nat /\ DOMAIN file.rules = 1 .. a /\ DOMAIN file.imports = 1 .. b
  BY DEF FileRead
<1>2. q \in 1 .. a + b
  BY DEF Places
<1>3. Sources[q] = IF q <= a THEN LocalSource(q) ELSE ImportSource(q - a)
  BY SourcesAre
<1>4. EntryAt(q) =
          IF q <= a
          THEN [place |-> q, priority |-> file.rules[q].priority,
                defaulted |-> file.rules[q].defaulted]
          ELSE [place |-> q, priority |-> file.imports[q - a].priority,
                defaulted |-> file.imports[q - a].defaulted]
  BY DEF EntryAt
<1>5. WrittenAt(q) = IF EntryAt(q).place <= a THEN <<file.rules[EntryAt(q).place].rule>>
                     ELSE Stripped(file.imports[EntryAt(q).place - a], EntryAt(q).place)
  BY DEF WrittenAt, AsWritten
<1>6. EntryAt(q).place = q
  BY EntriesAre
<1>7. \A i \in 1 .. b : ImportSource(i) =
         [priority |-> file.imports[i].priority, defaulted |-> file.imports[i].defaulted,
          index |-> a + i,
          rules |-> Parsed([file.imports[results[i]] EXCEPT !.pool = file.imports[i].pool],
                           a + results[i])]
  BY DEF ImportSource
<1>8. \A i \in 1 .. a : LocalSource(i) =
         [priority |-> file.rules[i].priority, defaulted |-> file.rules[i].defaulted,
          index |-> i, rules |-> <<[file.rules[i].rule EXCEPT !.name = <<i, 1>>]>>]
  BY DEF LocalSource
<1>9. /\ \A i \in 1 .. a : file.rules[i] \in LocalRules /\ ~Empty(file.rules[i].rule)
      /\ \A i \in 1 .. b : file.imports[i] \in Imports /\ results[i] = i
  <2>1. file.rules \in Seq(LocalRules) /\ file.imports \in Seq(Imports)
    BY DEF FileRead
  <2>2. /\ \A i \in 1 .. a : file.rules[i] \in LocalRules
        /\ \A i \in 1 .. b : file.imports[i] \in Imports
    BY <2>1
  <2> QED BY <1>1, <2>2 DEF FileRead
<1> HIDE DEF a, b
<1>10. CASE q <= a
  <2>1. q \in 1 .. a
    BY <1>1, <1>2, <1>10
  <2> DEFINE l == file.rules[q]
  <2>2. l \in LocalRules /\ ~Empty(l.rule)
    BY <1>9, <2>1
  <2>3. l.priority \in Nat /\ l.defaulted \in BOOLEAN /\ l.rule \in Rule
    BY <2>2, SourcesAssumption
  <2>4. Sources[q] = [priority |-> l.priority, defaulted |-> l.defaulted,
                      index |-> q, rules |-> <<[l.rule EXCEPT !.name = <<q, 1>>]>>]
    BY <1>3, <1>8, <1>10, <2>1
  <2>5. EntryAt(q) = [place |-> q, priority |-> l.priority, defaulted |-> l.defaulted]
    BY <1>4, <1>10
  <2>6. WrittenAt(q) = <<l.rule>>
    BY <1>5, <1>6, <1>10
  <2> HIDE DEF l
  <2>7. /\ Sources[q].priority = l.priority /\ Sources[q].defaulted = l.defaulted
        /\ Sources[q].index = q /\ Sources[q].rules = <<[l.rule EXCEPT !.name = <<q, 1>>]>>
    BY <2>4
  <2>8. EntryAt(q).priority = l.priority /\ EntryAt(q).defaulted = l.defaulted
    BY <2>5
  <2>9. q \in Nat
    BY <1>2
  <2> QED BY <2>2, <2>3, <2>6, <2>7, <2>8, <2>9 DEF Source
<1>11. CASE ~(q <= a)
  <2> DEFINE i == q - a
  <2>1. i \in 1 .. b /\ a + i = q
    BY <1>1, <1>2, <1>11
  <2> DEFINE m == file.imports[i]
  <2>2. m \in Imports /\ results[i] = i
    BY <1>9, <2>1
  <2>3. m.priority \in Nat /\ m.defaulted \in BOOLEAN
    BY <2>2, SourcesAssumption
  <2>4. [m EXCEPT !.pool = m.pool] = m
    BY <2>2, SourcesAssumption
  <2>5. Sources[q] = ImportSource(i)
    BY <1>3, <1>11
  <2>6. WrittenAt(q) = Stripped(m, q)
    BY <1>5, <1>6, <1>11
  <2>7. EntryAt(q) = [place |-> q, priority |-> m.priority, defaulted |-> m.defaulted]
    BY <1>4, <1>11
  <2>8. ImportSource(i) = [priority |-> m.priority, defaulted |-> m.defaulted,
                           index |-> q, rules |-> Parsed(m, q)]
    <3>1. ImportSource(i) =
             [priority |-> file.imports[i].priority, defaulted |-> file.imports[i].defaulted,
              index |-> a + i,
              rules |-> Parsed([file.imports[results[i]] EXCEPT !.pool = file.imports[i].pool],
                               a + results[i])]
      BY <1>7, <2>1
    <3> HIDE DEF i
    <3> QED BY <2>1, <2>2, <2>4, <3>1
  <2> HIDE DEF i, m
  <2>9. /\ Sources[q].priority = m.priority /\ Sources[q].defaulted = m.defaulted
        /\ Sources[q].index = q /\ Sources[q].rules = Parsed(m, q)
    BY <2>5, <2>8
  <2>10. EntryAt(q).priority = m.priority /\ EntryAt(q).defaulted = m.defaulted
    BY <2>7
  <2>11. q \in Nat
    BY <1>2
  <2> QED BY <2>2, <2>3, <2>6, <2>9, <2>10, <2>11 DEF Source
<1> QED BY <1>10, <1>11

(* The rules of an import are rules, named by their place.                 *)
LEMMA StrippedRules ==
    ASSUME NEW m \in Imports, NEW q \in Nat
    PROVE  /\ Stripped(m, q) \in Seq(Rule)
           /\ \A j \in DOMAIN Stripped(m, q) : Stripped(m, q)[j].name = <<q, j>>
<1> DEFINE n == Len(m.rules)
           t == Stripped(m, q)
           w(j) == [m.rules[j] EXCEPT !.pattern = {}, !.name = <<q, j>>, !.pool = m.pool]
<1>1. m.rules \in Seq(Rule) /\ m.pool \in Pools \cup {NoPool}
  BY SourcesAssumption
<1>2. n \in Nat /\ DOMAIN m.rules = 1 .. n /\ \A j \in 1 .. n : m.rules[j] \in Rule
  BY <1>1
<1> HIDE DEF n
<1>3. t = [j \in 1 .. n |-> w(j)]
  BY <1>2 DEF Stripped
<1>4. ASSUME NEW j \in 1 .. n
      PROVE  w(j) \in Rule /\ w(j).name = <<q, j>>
  <2>1. j \in Nat /\ <<q, j>> \in Nat \X Nat /\ m.rules[j] \in Rule
    BY <1>2
  <2> QED BY <1>1, <2>1 DEF Rule
<1> HIDE DEF w, t
<1>5. t \in [1 .. n -> Rule] /\ \A j \in 1 .. n : t[j].name = <<q, j>>
  BY <1>3, <1>4
<1>6. t \in Seq(Rule)
  BY <1>2, <1>5, FunctionIsSeq
<1>7. DOMAIN t = 1 .. n
  BY <1>3
<1> QED BY <1>5, <1>6, <1>7 DEF t

(* The rules of a source: those of its place that have anything to match.  *)
LEMMA SourceRules ==
    ASSUME FileRead, NEW q \in Places
    PROVE  LET t == Sources[q].rules
           IN  /\ t \in Seq(Rule)
               /\ \A k \in DOMAIN t : \E j : IsRuleAt(t[k], q, j)
               /\ \A k, l \in DOMAIN t : k < l => t[k].name[2] < t[l].name[2]
               /\ \A j \in DOMAIN WrittenAt(q) : ~Empty(WrittenAt(q)[j]) => Has(t, q, j)
<1> DEFINE t == Sources[q].rules
<1>1. q \in Nat
  <2>1. Len(file.rules) + Len(file.imports) \in Nat
    BY DEF FileRead
  <2> QED BY <2>1 DEF Places
<1>2. ASSUME NEW r \in Rule, ~Empty(r), WrittenAt(q) = <<r>>,
             t = <<[r EXCEPT !.name = <<q, 1>>]>>
      PROVE  /\ t \in Seq(Rule)
             /\ \A k \in DOMAIN t : \E j : IsRuleAt(t[k], q, j)
             /\ \A k, l \in DOMAIN t : k < l => t[k].name[2] < t[l].name[2]
             /\ \A j \in DOMAIN WrittenAt(q) : ~Empty(WrittenAt(q)[j]) => Has(t, q, j)
  <2> DEFINE s == [r EXCEPT !.name = <<q, 1>>]
  <2>1. /\ s \in Rule /\ s.name = <<q, 1>> /\ s.pool = r.pool /\ s.domain = r.domain
        /\ s.suffix = r.suffix /\ s.pattern = r.pattern
    BY <1>1 DEF Rule
  <2>2. t = <<s>>
    BY <1>2
  <2> HIDE DEF s, t
  <2>3. DOMAIN t = {1} /\ t[1] = s /\ t \in Seq(Rule)
    BY <2>1, <2>2
  <2>4. DOMAIN WrittenAt(q) = {1} /\ WrittenAt(q)[1] = r
    BY <1>2
  <2>5. IsRuleAt(t[1], q, 1)
    BY <2>1, <2>3, <2>4 DEF IsRuleAt
  <2> QED BY <2>3, <2>4, <2>5 DEF Has
<1>3. ASSUME NEW m \in Imports, WrittenAt(q) = Stripped(m, q), t = Parsed(m, q)
      PROVE  /\ t \in Seq(Rule)
             /\ \A k \in DOMAIN t : \E j : IsRuleAt(t[k], q, j)
             /\ \A k, l \in DOMAIN t : k < l => t[k].name[2] < t[l].name[2]
             /\ \A j \in DOMAIN WrittenAt(q) : ~Empty(WrittenAt(q)[j]) => Has(t, q, j)
  <2> DEFINE all == Stripped(m, q)
             at == {j \in DOMAIN all : ~Empty(all[j])}
  <2>1. all \in Seq(Rule) /\ \A j \in DOMAIN all : all[j].name = <<q, j>>
    BY <1>1, StrippedRules
  <2>2. t = Filter(all, at) /\ at \in SUBSET DOMAIN all
    BY <1>3 DEF Parsed
  <2> HIDE DEF all, at, t
  <2>3. t \in Seq(Rule)
    BY <2>1, <2>2, FilterKeeps
  <2>4. PICK from \in [DOMAIN t -> at] :
            /\ \A i \in DOMAIN t : t[i] = all[from[i]]
            /\ \A i, j \in DOMAIN t : i < j => from[i] < from[j]
            /\ \A k \in at : \E i \in DOMAIN t : from[i] = k
    BY <2>1, <2>2, FilterKeeps
  <2>5. WrittenAt(q) = all
    BY <1>3 DEF all
  <2>6. \A k \in DOMAIN t : from[k] \in DOMAIN all /\ t[k].name = <<q, from[k]>>
    BY <2>1, <2>2, <2>4
  <2>7. ASSUME NEW k \in DOMAIN t PROVE IsRuleAt(t[k], q, from[k])
    BY <2>4, <2>5, <2>6 DEF IsRuleAt
  <2>8. \A k, l \in DOMAIN t : k < l => t[k].name[2] < t[l].name[2]
    BY <2>4, <2>6
  <2>9. ASSUME NEW j \in DOMAIN WrittenAt(q), ~Empty(WrittenAt(q)[j]) PROVE Has(t, q, j)
    <3>1. j \in at
      BY <2>5, <2>9 DEF at
    <3> QED BY <2>4, <2>7, <3>1 DEF Has
  <2> QED BY <2>3, <2>7, <2>8, <2>9
<1> QED BY <1>2, <1>3, PlaceHolds

(* A rule has one place.                                                   *)
LEMMA PlaceOf ==
    ASSUME NEW r, NEW q, NEW j, IsRuleAt(r, q, j)
    PROVE  r.name[1] = q /\ r.name[2] = j
BY DEF IsRuleAt

(* Normalize puts all rules that have anything to match in order.          *)
LEMMA ResolvedInOrder ==
    ASSUME FileRead
    PROVE  /\ InOrder(Resolved)
           /\ \A q \in Places : \A j \in DOMAIN WrittenAt(q) :
                 ~Empty(WrittenAt(q)[j]) => Has(Resolved, q, j)
<1> DEFINE n == Len(file.rules) + Len(file.imports)
           S == Sources
           ss == [i \in DOMAIN Sorted(S) |-> Sorted(S)[i].rules]
           t == Resolved
<1>1. n \in Nat
  BY DEF FileRead
<1>2. Places = 1 .. n /\ DOMAIN S = 1 .. n
  BY SourcesAre DEF Places
<1>3. \A q \in 1 .. n : Source(S[q]) /\ S[q].index = q
  BY <1>2, PlaceHolds
<1>4. t = FlattenSeq(ss)
  BY DEF Resolved
<1> HIDE DEF n, S, t
<1>5. PICK p : Arranges(p, S, n) /\ Sorted(S) = [i \in 1 .. n |-> S[p[i]]]
  BY <1>1, <1>2, <1>3, SortedArranges
<1>6. ss = [i \in 1 .. n |-> S[p[i]].rules]
  BY <1>5
<1>7. /\ \A i \in 1 .. n : p[i] \in 1 .. n
      /\ \A q \in 1 .. n : \E i \in 1 .. n : p[i] = q
      /\ \A i, j \in 1 .. n : i < j => Less(S[p[i]], S[p[j]])
  BY <1>5 DEF Arranges
<1> HIDE DEF ss
<1>8. \A q \in 1 .. n :
         /\ S[q].rules \in Seq(Rule)
         /\ \A k \in DOMAIN S[q].rules : \E j : IsRuleAt(S[q].rules[k], q, j)
         /\ \A k, l \in DOMAIN S[q].rules :
               k < l => S[q].rules[k].name[2] < S[q].rules[l].name[2]
         /\ \A j \in DOMAIN WrittenAt(q) : ~Empty(WrittenAt(q)[j]) => Has(S[q].rules, q, j)
  BY <1>2, SourceRules DEF S
<1>9. ss \in Seq(Seq(Rule)) /\ DOMAIN ss = 1 .. n /\ \A i \in 1 .. n : ss[i] = S[p[i]].rules
  <2>1. ss \in [1 .. n -> Seq(Rule)]
    BY <1>6, <1>7, <1>8
  <2>2. ss \in Seq(Seq(Rule))
    BY <1>1, <2>1, FunctionIsSeq
  <2> QED BY <1>6, <2>2
<1>10. t \in Seq(Rule)
  BY <1>4, <1>9, FlattenJoins
<1>11. PICK src, pos : Joins(t, ss, src, pos)
  BY <1>4, <1>9, FlattenJoins
<1>12. ASSUME NEW k \in DOMAIN t
       PROVE  /\ src[k] \in 1 .. n /\ p[src[k]] \in 1 .. n
              /\ pos[k] \in DOMAIN S[p[src[k]]].rules
              /\ t[k] = S[p[src[k]]].rules[pos[k]]
              /\ \E j : IsRuleAt(t[k], p[src[k]], j)
              /\ t[k].name[1] = p[src[k]]
  <2>1. src[k] \in 1 .. n /\ p[src[k]] \in 1 .. n
    BY <1>7, <1>9, <1>11 DEF Joins
  <2>2. ss[src[k]] = S[p[src[k]]].rules
    BY <1>9, <2>1
  <2>3. pos[k] \in DOMAIN S[p[src[k]]].rules /\ t[k] = S[p[src[k]]].rules[pos[k]]
    BY <1>11, <2>2 DEF Joins
  <2>4. PICK j : IsRuleAt(t[k], p[src[k]], j)
    BY <1>8, <2>1, <2>3
  <2> QED BY <2>1, <2>3, <2>4, PlaceOf
<1>13. ASSUME NEW k \in DOMAIN t, NEW l \in DOMAIN t, k < l
       PROVE  ItemAhead(t[k].name, t[l].name)
  <2>1. src[k] < src[l] \/ (src[k] = src[l] /\ pos[k] < pos[l])
    BY <1>11, <1>13 DEF Joins
  <2>2. CASE src[k] < src[l]
    <3>1. Less(S[p[src[k]]], S[p[src[l]]])
      BY <1>7, <1>12, <2>2
    <3> QED BY <1>12, <3>1 DEF ItemAhead, S
  <2>3. CASE src[k] = src[l] /\ pos[k] < pos[l]
    <3> DEFINE q == p[src[k]]
               u == S[q].rules
    <3>1. /\ q \in 1 .. n /\ pos[k] \in DOMAIN u /\ t[k] = u[pos[k]]
          /\ pos[l] \in DOMAIN u /\ t[l] = u[pos[l]]
      BY <1>12, <2>3
    <3>2. \A a, b \in DOMAIN u : a < b => u[a].name[2] < u[b].name[2]
      BY <1>8, <3>1
    <3> HIDE DEF q, u
    <3>3. t[k].name[2] < t[l].name[2]
      BY <2>3, <3>1, <3>2
    <3> QED BY <1>12, <2>3, <3>3 DEF ItemAhead
  <2> QED BY <2>1, <2>2, <2>3
<1>14. ASSUME NEW q \in 1 .. n, NEW j \in DOMAIN WrittenAt(q), ~Empty(WrittenAt(q)[j])
       PROVE  Has(t, q, j)
  <2>1. PICK i \in 1 .. n : p[i] = q
    BY <1>7
  <2>2. PICK k \in DOMAIN ss[i] : IsRuleAt(ss[i][k], q, j)
    BY <1>8, <1>9, <1>14, <2>1 DEF Has
  <2>3. PICK l \in DOMAIN t : src[l] = i /\ pos[l] = k
    BY <1>9, <1>11, <2>1, <2>2 DEF Joins
  <2> QED BY <1>11, <2>2, <2>3 DEF Has, Joins
<1>15. InOrder(t)
  BY <1>10, <1>12, <1>13 DEF InOrder
<1> QED BY <1>2, <1>14, <1>15 DEF t

-----------------------------------------------------------------------------
(* Choosing the rules of the gateways leaves them in order.                *)
LEMMA GatewayInOrder ==
    ASSUME NEW list, InOrder(list)
    PROVE  /\ InOrder(GatewayRules(list))
           /\ \A k \in DOMAIN GatewayRules(list) : Gateway(GatewayRules(list)[k])
           /\ \A q, j : Has(list, q, j) /\ Gateway(WrittenAt(q)[j]) => Has(GatewayRules(list), q, j)
           /\ ~CompileFails(list) => NamesAreThere(GatewayRules(list))
<1> DEFINE g == GatewayRules(list)
<1>1. list \in Seq(Rule)
  BY DEF InOrder
<1> HIDE DEF g
<1>2. g \in Seq(Rule)
  BY <1>1, GatewayRanks DEF g
<1>3. PICK from \in [DOMAIN g -> DOMAIN list] :
          /\ \A i \in DOMAIN g : g[i] = list[from[i]] /\ Gateway(list[from[i]])
          /\ \A i, j \in DOMAIN g : i < j => from[i] < from[j]
          /\ \A m \in DOMAIN list : Gateway(list[m]) => \E i \in DOMAIN g : from[i] = m
  BY <1>1, GatewayRanks DEF g
<1>4. \A k \in DOMAIN g : from[k] \in DOMAIN list
  BY <1>3
<1>5. InOrder(g)
  <2>1. \A k \in DOMAIN g : \E q, j : IsRuleAt(g[k], q, j)
    BY <1>3, <1>4 DEF InOrder
  <2>2. \A k, l \in DOMAIN g : k < l => ItemAhead(g[k].name, g[l].name)
    <3> SUFFICES ASSUME NEW k \in DOMAIN g, NEW l \in DOMAIN g, k < l
                 PROVE  ItemAhead(g[k].name, g[l].name)
      OBVIOUS
    <3>1. from[k] < from[l]
      BY <1>3
    <3>2. ItemAhead(list[from[k]].name, list[from[l]].name)
      BY <1>4, <3>1 DEF InOrder
    <3> QED BY <1>3, <3>2
  <2> QED BY <1>2, <2>1, <2>2 DEF InOrder
<1>6. ASSUME NEW q, NEW j, Has(list, q, j), Gateway(WrittenAt(q)[j])
      PROVE  Has(g, q, j)
  <2>1. PICK k \in DOMAIN list : IsRuleAt(list[k], q, j)
    BY <1>6 DEF Has
  <2>2. Gateway(list[k])
    BY <1>6, <2>1 DEF IsRuleAt, Gateway
  <2> QED BY <1>3, <2>1, <2>2 DEF Has
<1>7. ~CompileFails(list) => NamesAreThere(g)
  BY <1>3, <1>4 DEF CompileFails, NamesAreThere
<1>8. \A k \in DOMAIN g : Gateway(g[k])
  BY <1>3
<1> QED BY <1>5, <1>6, <1>7, <1>8 DEF g

(* Names as people write them: a dot after a name, or before a suffix.     *)
UsualDots ==
    /\ \A h \in Hosts : h \in Written /\ normalizeMatchHost(h) = DropTrailingDot(h)
    /\ \A r \in {l.rule : l \in LocalRules} \cup UNION {Range(m.rules) : m \in Imports} :
          /\ \A v \in r.domain : normalizeMatchHost(v) = DropTrailingDot(v)
          /\ \A v \in r.suffix : normalizeMatchHost(v) = normalizeDomain(v)

(* The rules of a file are written with the usual dots.                    *)
LEMMA DotsAtPlace ==
    ASSUME FileRead, UsualDots, NEW r, NEW q, NEW j, IsRuleAt(r, q, j)
    PROVE  /\ \A v \in r.domain : normalizeMatchHost(v) = DropTrailingDot(v)
           /\ \A v \in r.suffix : normalizeMatchHost(v) = normalizeDomain(v)
<1> DEFINE a == Len(file.rules)
           b == Len(file.imports)
           Usual(w) == /\ \A v \in w.domain : normalizeMatchHost(v) = DropTrailingDot(v)
                       /\ \A v \in w.suffix : normalizeMatchHost(v) = normalizeDomain(v)
<1>1. a \in Nat /\ b \in Nat /\ q \in 1 .. a + b
  BY DEF FileRead, IsRuleAt, Places
<1>2. /\ \A i \in 1 .. a : file.rules[i] \in LocalRules
      /\ \A i \in 1 .. b : file.imports[i] \in Imports
  <2>1. file.rules \in Seq(LocalRules) /\ file.imports \in Seq(Imports)
    BY DEF FileRead
  <2> QED BY <2>1
<1>3. q \in Places /\ EntryAt(q).place = q
  BY EntriesAre DEF IsRuleAt
<1>4. WrittenAt(q) = IF q <= a THEN <<file.rules[q].rule>> ELSE Stripped(file.imports[q - a], q)
  BY <1>3 DEF WrittenAt, AsWritten
<1> HIDE DEF a, b
<1>5. j \in DOMAIN WrittenAt(q) /\ r.domain = WrittenAt(q)[j].domain
      /\ r.suffix = WrittenAt(q)[j].suffix
  BY DEF IsRuleAt
<1>6. CASE q <= a
  <2>1. q \in 1 .. a
    BY <1>1, <1>6
  <2>2. file.rules[q] \in LocalRules
    BY <1>2, <2>1
  <2>3. Usual(file.rules[q].rule)
    BY <2>2 DEF UsualDots
  <2>4. j = 1 /\ WrittenAt(q)[j] = file.rules[q].rule
    BY <1>4, <1>5, <1>6
  <2> QED BY <1>5, <2>3, <2>4
<1>7. CASE ~(q <= a)
  <2> DEFINE m == file.imports[q - a]
  <2>1. q - a \in 1 .. b
    BY <1>1, <1>7
  <2>2. m \in Imports /\ WrittenAt(q) = Stripped(m, q)
    BY <1>2, <1>4, <1>7, <2>1
  <2> HIDE DEF m
  <2>3. /\ j \in DOMAIN m.rules
        /\ WrittenAt(q)[j] = [m.rules[j] EXCEPT !.pattern = {}, !.name = <<q, j>>, !.pool = m.pool]
    BY <1>5, <2>2 DEF Stripped
  <2>4. m.rules \in Seq(Rule)
    BY <2>2, SourcesAssumption
  <2>5. m.rules[j] \in Rule /\ m.rules[j] \in Range(m.rules)
    BY <2>3, <2>4 DEF Range
  <2>6. Usual(m.rules[j])
    BY <2>2, <2>5 DEF UsualDots
  <2>7. /\ WrittenAt(q)[j].domain = m.rules[j].domain
        /\ WrittenAt(q)[j].suffix = m.rules[j].suffix
    BY <2>3, <2>5 DEF Rule
  <2> QED BY <1>5, <2>6, <2>7
<1> QED BY <1>6, <1>7

(* Matching does not look at a rule's name.                                *)
LEMMA MatchAtPlace ==
    ASSUME NEW r, NEW q, NEW j, IsRuleAt(r, q, j), NEW h
    PROVE  /\ matchRuleDomain(r, h) <=> matchRuleDomain(WrittenAt(q)[j], h)
           /\ Gateway(r) <=> Gateway(WrittenAt(q)[j])
BY DEF IsRuleAt, matchRuleDomain, Gateway

(* The comparison of the sort is the order of the page.                    *)
LEMMA AheadOfEntry ==
    ASSUME FileRead, NEW q \in Places, NEW s \in Places, Less(Sources[q], Sources[s])
    PROVE  Ahead(EntryAt(q), EntryAt(s))
<1>1. /\ Source(Sources[q]) /\ Sources[q].index = q
      /\ Sources[q].priority = EntryAt(q).priority
      /\ Sources[q].defaulted = EntryAt(q).defaulted
  BY PlaceHolds
<1>2. /\ Source(Sources[s]) /\ Sources[s].index = s
      /\ Sources[s].priority = EntryAt(s).priority
      /\ Sources[s].defaulted = EntryAt(s).defaulted
  BY PlaceHolds
<1>3. EntryAt(q).place = q /\ EntryAt(s).place = s
  BY EntriesAre
<1> QED BY <1>1, <1>2, <1>3 DEF Less, Ahead, Source

(* A plain name is made of labels.                                         *)
LEMMA PlainIsLabels ==
    ASSUME NEW v \in Written, Plain(v)
    PROVE  v \in Seq(Labels)
<1>1. Len(v) \in Nat /\ v \in [1 .. Len(v) -> Labels \cup {Dot}]
  BY DEF Written
<1>2. \A i \in 1 .. Len(v) : v[i] # Dot
  BY <1>1 DEF Plain, Range
<1>3. v \in [1 .. Len(v) -> Labels]
  BY <1>1, <1>2
<1> QED BY <1>1, <1>3, FunctionIsSeq

(* The rules of the file that match h, as FirstRuleWins counts them.       *)
Owners(h) ==
    {o \in UNION {{e} \X DOMAIN AsWritten(e) : e \in Entries} :
        LET r == AsWritten(o[1])[o[2]]
        IN  Gateway(r) /\ matchRuleDomain(r, DropTrailingDot(h))}

(* They are found by place and number.                                     *)
LEMMA OwnersAre ==
    ASSUME FileRead, NEW h
    PROVE  /\ \A o \in Owners(h) :
                 \E q \in Places : \E j \in DOMAIN WrittenAt(q) :
                    /\ o = <<EntryAt(q), j>>
                    /\ Gateway(WrittenAt(q)[j])
                    /\ matchRuleDomain(WrittenAt(q)[j], DropTrailingDot(h))
           /\ \A q \in Places : \A j \in DOMAIN WrittenAt(q) :
                 /\ Gateway(WrittenAt(q)[j])
                 /\ matchRuleDomain(WrittenAt(q)[j], DropTrailingDot(h))
                 => <<EntryAt(q), j>> \in Owners(h)
<1>1. ASSUME NEW o \in Owners(h)
      PROVE  \E q \in Places : \E j \in DOMAIN WrittenAt(q) :
                    /\ o = <<EntryAt(q), j>>
                    /\ Gateway(WrittenAt(q)[j])
                    /\ matchRuleDomain(WrittenAt(q)[j], DropTrailingDot(h))
  <2>1. PICK e \in Entries : o \in {e} \X DOMAIN AsWritten(e)
    BY DEF Owners
  <2>2. PICK q \in Places : e = EntryAt(q)
    BY EntriesAre
  <2>3. o = <<e, o[2]>> /\ o[1] = e /\ o[2] \in DOMAIN WrittenAt(q)
    BY <2>1, <2>2 DEF WrittenAt
  <2>4. /\ Gateway(WrittenAt(q)[o[2]])
        /\ matchRuleDomain(WrittenAt(q)[o[2]], DropTrailingDot(h))
    BY <2>2, <2>3 DEF Owners, WrittenAt
  <2> QED BY <2>2, <2>3, <2>4
<1>2. ASSUME NEW q \in Places, NEW j \in DOMAIN WrittenAt(q), Gateway(WrittenAt(q)[j]),
             matchRuleDomain(WrittenAt(q)[j], DropTrailingDot(h))
      PROVE  <<EntryAt(q), j>> \in Owners(h)
  <2> DEFINE e == EntryAt(q)
             o == <<e, j>>
  <2>1. e \in Entries
    BY EntriesAre
  <2>2. j \in DOMAIN AsWritten(e) /\ WrittenAt(q) = AsWritten(e)
    BY DEF WrittenAt
  <2> HIDE DEF e
  <2>3. o \in UNION {{f} \X DOMAIN AsWritten(f) : f \in Entries}
    BY <2>1, <2>2
  <2>4. o[1] = e /\ o[2] = j
    OBVIOUS
  <2>5. Gateway(AsWritten(o[1])[o[2]]) /\ matchRuleDomain(AsWritten(o[1])[o[2]], DropTrailingDot(h))
    BY <1>2, <2>2, <2>4
  <2> HIDE DEF o
  <2>6. o \in Owners(h)
    BY <2>3, <2>5 DEF Owners
  <2> QED BY <2>6 DEF o, e
<1> QED BY <1>1, <1>2

(* A rule without matchers matches nothing.                                *)
LEMMA MatchedIsThere ==
    ASSUME NEW r, NEW h, matchRuleDomain(r, h)
    PROVE  ~Empty(r)
BY DEF matchRuleDomain, Empty

(* The body of FirstRuleWins, for one name.                                *)
LEMMA FirstOfFile ==
    ASSUME FileRead, UsualDots, norm = Resolved, ~CompileFails(norm), NEW h \in Hosts
    PROVE  LET c == Compile(norm)
               plain == \A r \in Range(c.rules) : \A v \in r.domain \cup r.suffix : Plain(v)
               k == MatchGatewayDomain(c, h)
           IN  /\ IF Owners(h) = {} THEN k = 0
                  ELSE \E o \in Owners(h) :
                          /\ c.rules[k].name = <<o[1].place, o[2]>>
                          /\ \A p \in Owners(h) \ {o} :
                                Ahead(o[1], p[1]) \/ (o[1] = p[1] /\ o[2] < p[2])
               /\ plain /\ h \in PlainHosts => UseBackend(c.rules, h) = k
<1> DEFINE c == Compile(norm)
           g == GatewayRules(norm)
           d == DropTrailingDot(h)
           k == MatchGatewayDomain(c, h)
           hits == {l \in DOMAIN g : matchRuleDomain(g[l], d)}
           plain == \A r \in Range(c.rules) : \A v \in r.domain \cup r.suffix : Plain(v)
<1>1. /\ InOrder(norm)
      /\ \A q \in Places : \A j \in DOMAIN WrittenAt(q) :
            ~Empty(WrittenAt(q)[j]) => Has(norm, q, j)
  BY ResolvedInOrder
<1>2. /\ InOrder(g)
      /\ \A l \in DOMAIN g : Gateway(g[l])
      /\ \A q, j : Has(norm, q, j) /\ Gateway(WrittenAt(q)[j]) => Has(g, q, j)
      /\ NamesAreThere(g)
  BY <1>1, GatewayInOrder
<1>3. c = CompileRules(g) /\ c.rules = g
  BY DEF Compile, CompileRules
<1> HIDE DEF g, c
<1>4. g \in Seq(Rule) /\ DOMAIN g \subseteq Nat \ {0}
  BY <1>2 DEF InOrder
<1>5. h \in Written /\ PlainDots(g, h)
  <2>1. h \in Written /\ normalizeMatchHost(h) = DropTrailingDot(h)
    BY DEF UsualDots
  <2>2. ASSUME NEW l \in DOMAIN g
        PROVE  /\ \A v \in g[l].domain : normalizeMatchHost(v) = DropTrailingDot(v)
               /\ \A v \in g[l].suffix : normalizeMatchHost(v) = normalizeDomain(v)
    <3>1. PICK q, j : IsRuleAt(g[l], q, j)
      BY <1>2 DEF InOrder
    <3> QED BY <3>1, DotsAtPlace
  <2> QED BY <2>1, <2>2 DEF PlainDots
<1>6. k = IF hits = {} THEN 0 ELSE Least(hits)
  BY <1>2, <1>3, <1>4, <1>5, CompiledIsLinear DEF FirstMatch
<1> HIDE DEF k, d
<1>7. ASSUME NEW o \in Owners(h)
      PROVE  \E l \in hits : \E q \in Places :
                /\ o[1] = EntryAt(q) /\ o[1].place = q /\ g[l].name = <<q, o[2]>>
  <2>1. PICK q \in Places : \E i \in DOMAIN WrittenAt(q) :
            /\ o = <<EntryAt(q), i>>
            /\ Gateway(WrittenAt(q)[i]) /\ matchRuleDomain(WrittenAt(q)[i], d)
    BY OwnersAre DEF d
  <2>2. PICK j \in DOMAIN WrittenAt(q) :
            /\ o = <<EntryAt(q), j>>
            /\ Gateway(WrittenAt(q)[j]) /\ matchRuleDomain(WrittenAt(q)[j], d)
    BY <2>1
  <2>3. Has(g, q, j)
    BY <1>1, <1>2, <2>2, MatchedIsThere
  <2>4. PICK l \in DOMAIN g : IsRuleAt(g[l], q, j)
    BY <2>3 DEF Has
  <2>5. l \in hits
    BY <2>2, <2>4, MatchAtPlace
  <2>6. g[l].name = <<q, j>> /\ EntryAt(q).place = q
    BY <2>4, EntriesAre DEF IsRuleAt
  <2> QED BY <2>2, <2>5, <2>6
<1>8. ASSUME NEW l \in hits
      PROVE  \E q \in Places : \E j :
                /\ <<EntryAt(q), j>> \in Owners(h) /\ EntryAt(q).place = q
                /\ g[l].name = <<q, j>>
  <2>1. l \in DOMAIN g /\ matchRuleDomain(g[l], d)
    OBVIOUS
  <2>2. PICK q, j : IsRuleAt(g[l], q, j)
    BY <1>2, <2>1 DEF InOrder
  <2>3. q \in Places /\ j \in DOMAIN WrittenAt(q) /\ g[l].name = <<q, j>>
    BY <2>2 DEF IsRuleAt
  <2>4. Gateway(WrittenAt(q)[j]) /\ matchRuleDomain(WrittenAt(q)[j], d)
    BY <1>2, <2>1, <2>2, MatchAtPlace
  <2>5. <<EntryAt(q), j>> \in Owners(h) /\ EntryAt(q).place = q
    BY <2>3, <2>4, OwnersAre, EntriesAre DEF d
  <2> QED BY <2>3, <2>5
<1>9. Owners(h) = {} => k = 0
  BY <1>6, <1>8
<1>10. ASSUME Owners(h) # {}
       PROVE  \E o \in Owners(h) :
                 /\ c.rules[k].name = <<o[1].place, o[2]>>
                 /\ \A p \in Owners(h) \ {o} :
                       Ahead(o[1], p[1]) \/ (o[1] = p[1] /\ o[2] < p[2])
  <2>1. hits # {} /\ hits \subseteq Nat
    BY <1>4, <1>7, <1>10
  <2>2. k \in hits /\ \A l \in hits : k <= l
    BY <1>6, <2>1, LeastIsLeast
  <2>3. PICK q \in Places : \E i :
            /\ <<EntryAt(q), i>> \in Owners(h) /\ EntryAt(q).place = q
            /\ g[k].name = <<q, i>>
    BY <1>8, <2>2
  <2>4. PICK j :
            /\ <<EntryAt(q), j>> \in Owners(h) /\ EntryAt(q).place = q
            /\ g[k].name = <<q, j>>
    BY <2>3
  <2> DEFINE o == <<EntryAt(q), j>>
  <2>5. o \in Owners(h) /\ o[1] = EntryAt(q) /\ o[2] = j
    BY <2>4
  <2>6. c.rules[k].name = <<o[1].place, o[2]>>
    BY <1>3, <2>4, <2>5
  <2>7. ASSUME NEW p \in Owners(h), p # o
        PROVE  Ahead(o[1], p[1]) \/ (o[1] = p[1] /\ o[2] < p[2])
    <3>1. PICK l \in hits, s \in Places :
              p[1] = EntryAt(s) /\ p[1].place = s /\ g[l].name = <<s, p[2]>>
      BY <1>7
    <3>2. \E z \in Places : \E y : p = <<EntryAt(z), y>>
      BY OwnersAre
    <3>3. p = <<EntryAt(s), p[2]>>
      BY <3>1, <3>2
    <3>4. l # k
      <4> SUFFICES ASSUME l = k PROVE FALSE
        OBVIOUS
      <4>1. <<q, j>> = <<s, p[2]>>
        BY <2>4, <3>1
      <4>2. q = s /\ j = p[2]
        BY <4>1
      <4> QED BY <2>7, <3>3, <4>2
    <3>5. k < l /\ k \in DOMAIN g /\ l \in DOMAIN g
      BY <2>1, <2>2, <3>1, <3>4
    <3>6. ItemAhead(g[k].name, g[l].name)
      BY <1>2, <3>5 DEF InOrder
    <3>7. Less(Sources[q], Sources[s]) \/ (q = s /\ j < p[2])
      <4>1. g[k].name[1] = q /\ g[k].name[2] = j /\ g[l].name[1] = s /\ g[l].name[2] = p[2]
        BY <2>4, <3>1
      <4> QED BY <3>6, <4>1 DEF ItemAhead
    <3>8. CASE Less(Sources[q], Sources[s])
      BY <2>5, <3>1, <3>8, AheadOfEntry
    <3>9. CASE q = s /\ j < p[2]
      BY <2>5, <3>1, <3>9
    <3> QED BY <3>7, <3>8, <3>9
  <2> HIDE DEF o
  <2> QED BY <2>5, <2>6, <2>7
<1>11. ASSUME plain, h \in PlainHosts
       PROVE  UseBackend(c.rules, h) = k
  <2>1. Plain(h) /\ h \in Seq(Labels)
    BY <1>5, <1>11, PlainIsLabels DEF PlainHosts
  <2>2. ASSUME NEW l \in DOMAIN g
        PROVE  g[l].domain \cup g[l].suffix \subseteq Seq(Labels)
    <3>1. g[l] \in Rule /\ g[l] \in Range(g)
      BY <1>4 DEF Range
    <3>2. \A v \in g[l].domain \cup g[l].suffix : v \in Written /\ Plain(v)
      BY <1>3, <1>11, <3>1 DEF Rule
    <3> QED BY <3>2, PlainIsLabels
  <2>3. NoOuterDots(g, h)
    BY <2>1, <2>2 DEF NoOuterDots
  <2> QED BY <1>2, <1>3, <1>4, <2>3, HAProxyIsCompiled DEF k
<1> QED BY <1>9, <1>10, <1>11 DEF c, k

-----------------------------------------------------------------------------
(* What holds of a file while it is resolved: an answer is kept under the  *)
(* index of its import, and what is done was done with all of them.        *)
ResolveInv ==
    /\ file \in [rules : Seq(LocalRules), imports : Seq(Imports)]
    /\ \A i \in DOMAIN file.rules : ~Empty(file.rules[i].rule)
    /\ stage # "edit" =>
          DOMAIN results = DOMAIN file.imports
          /\ \A i \in DOMAIN results : results[i] \in {0, Failed, i}
    /\ stage = "done" => FileRead /\ norm = Resolved

(* Steps of the cache leave it alone.                                      *)
LEMMA ResolveKept ==
    ASSUME ResolveInv, UNCHANGED <<file, stage, results, norm>>
    PROVE  ResolveInv'
<1>1. Resolved' = Resolved
  BY DEF Resolved, Sources, LocalSource, ImportSource
<1> QED BY <1>1 DEF ResolveInv, FileRead

(* All edits and answers keep it, in whatever order the answers come.      *)
LEMMA ResolveHolds == Spec => []ResolveInv
<1>1. Init => ResolveInv
  BY DEF Init, ResolveInv
<1>2. ResolveInv /\ [Next]_vars => ResolveInv'
  <2> SUFFICES ASSUME ResolveInv, [Next]_vars PROVE ResolveInv'
    OBVIOUS
  <2>1. ASSUME NEW r \in LocalRules, AddRule(r) PROVE ResolveInv'
    <3>1. /\ file' = [file EXCEPT !.rules = Append(file.rules, r)] /\ ~Empty(r.rule)
          /\ stage = "edit" /\ stage' = "edit"
      BY <2>1 DEF AddRule
    <3> DEFINE s == file.rules
               t == Append(s, r)
    <3>2. s \in Seq(LocalRules) /\ file.imports \in Seq(Imports)
      BY DEF ResolveInv
    <3>3. file'.rules = t /\ file'.imports = file.imports
      BY <3>1 DEF ResolveInv
    <3>4. \A i \in DOMAIN s : ~Empty(s[i].rule)
      BY DEF ResolveInv
    <3> HIDE DEF s
    <3>5. /\ t \in Seq(LocalRules)
          /\ \A i \in DOMAIN t : (i \in DOMAIN s /\ t[i] = s[i]) \/ t[i] = r
      BY <3>2
    <3>6. \A i \in DOMAIN t : ~Empty(t[i].rule)
      BY <3>1, <3>4, <3>5
    <3>7. file' \in [rules : Seq(LocalRules), imports : Seq(Imports)]
      BY <3>1, <3>2, <3>5 DEF ResolveInv, s
    <3> QED BY <3>1, <3>3, <3>6, <3>7 DEF ResolveInv
  <2>2. ASSUME NEW m \in Imports, AddImport(m) PROVE ResolveInv'
    <3>1. /\ file' = [file EXCEPT !.imports = Append(file.imports, m)]
          /\ stage = "edit" /\ stage' = "edit"
      BY <2>2 DEF AddImport
    <3>2. file.rules \in Seq(LocalRules) /\ Append(file.imports, m) \in Seq(Imports)
      BY DEF ResolveInv
    <3>3. file'.rules = file.rules
      BY <3>1 DEF ResolveInv
    <3>4. file' \in [rules : Seq(LocalRules), imports : Seq(Imports)]
      BY <3>1, <3>2 DEF ResolveInv
    <3> QED BY <3>1, <3>3, <3>4 DEF ResolveInv
  <2>3. CASE Fetch
    <3>1. /\ file' = file /\ stage' = "fetch"
          /\ results' = [i \in DOMAIN file.imports |-> 0]
      BY <2>3 DEF Fetch
    <3> QED BY <3>1 DEF ResolveInv
  <2>4. CASE Reading
    BY <2>4, ResolveKept DEF Reading
  <2>5. CASE Normalize
    <3>1. /\ stage = "fetch" /\ file' = file /\ results' = results /\ 0 \notin Range(results)
          /\ DOMAIN results = DOMAIN file.imports
          /\ \A i \in DOMAIN results : results[i] \in {0, Failed, i}
      BY <2>5 DEF Normalize, ResolveInv
    <3>2. CASE stage' = "failed"
      BY <3>1, <3>2 DEF ResolveInv
    <3>3. CASE stage' # "failed"
      <4>1. stage' = "done" /\ norm' = Resolved /\ Failed \notin Range(results)
        BY <2>5, <3>3 DEF Normalize
      <4>2. \A i \in DOMAIN results : results[i] \in Range(results)
        BY DEF Range
      <4>3. \A i \in DOMAIN file.imports : results[i] = i
        BY <3>1, <4>1, <4>2
      <4>4. FileRead
        BY <4>3 DEF FileRead, ResolveInv
      <4>5. FileRead'
        BY <3>1, <4>4 DEF FileRead
      <4>6. Resolved' = Resolved
        BY <3>1 DEF Resolved, Sources, LocalSource, ImportSource
      <4> QED BY <3>1, <4>1, <4>5, <4>6 DEF ResolveInv
    <3> QED BY <3>2, <3>3
  <2>6. ASSUME NEW i \in DOMAIN results, Receive(i) \/ FetchFails(i) PROVE ResolveInv'
    <3>1. PICK v \in {Failed, i} : results' = [results EXCEPT ![i] = v]
      BY <2>6 DEF Receive, FetchFails
    <3>2. /\ stage = "fetch" /\ stage' = "fetch" /\ file' = file
      BY <2>6 DEF Receive, FetchFails
    <3>3. DOMAIN results' = DOMAIN results
          /\ \A l \in DOMAIN results : results'[l] = results[l] \/ (l = i /\ results'[l] = v)
      BY <3>1
    <3> QED BY <3>1, <3>2, <3>3 DEF ResolveInv
  <2>7. CASE UNCHANGED vars
    BY <2>7, ResolveKept DEF vars
  <2> QED BY <2>1, <2>2, <2>3, <2>4, <2>5, <2>6, <2>7 DEF Next
<1> QED BY <1>1, <1>2, PTL DEF Spec

(* Every file and every order in which its downloads end: the gateways     *)
(* take the first rule of the page that matches a name, and HAProxy does   *)
(* where names carry no outer dots, if dots are written as UsualDots says; *)
(* resolver.go:41, compiled.go:69, render.go:199.                          *)
THEOREM FirstRuleDecides ==
    ASSUME UsualDots
    PROVE  Spec => []FirstRuleWins
<1>1. ResolveInv => FirstRuleWins
  <2> SUFFICES ASSUME ResolveInv, stage = "done", ~CompileFails(norm) PROVE FirstRuleWins
    BY DEF FirstRuleWins
  <2>1. FileRead /\ norm = Resolved
    BY DEF ResolveInv
  <2> QED BY <2>1, FirstOfFile DEF FirstRuleWins, Owners
<1> QED BY <1>1, ResolveHolds, PTL

(* The lists smartdns is given and the matcher of the gateways agree on    *)
(* every name, for every file; smartdns.go:111, compiled.go:69.            *)
THEOREM PlanIsFollowed == Spec => []PlanAgrees
<1>1. ResolveInv => PlanAgrees
  <2> SUFFICES ASSUME ResolveInv, stage = "done", ~CompileFails(norm) PROVE PlanAgrees
    BY DEF PlanAgrees
  <2>1. InOrder(norm)
    BY ResolvedInOrder DEF ResolveInv
  <2>2. norm \in Seq(Rule)
    BY <2>1 DEF InOrder
  <2> QED BY <2>2, PlanFollows DEF PlanAgrees
<1> QED BY <1>1, ResolveHolds, PTL

=============================================================================
