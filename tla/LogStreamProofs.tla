--------------------------- MODULE LogStreamProofs ---------------------------
(***************************************************************************)
(* No browser misses the newest log line, however many there are and       *)
(* however writes, snapshots and timers interleave: StreamInv is about     *)
(* signals and sequence numbers.  And a snapshot shows the last lines of   *)
(* all that was written, whatever the size of the ring: RingInv is about   *)
(* where each byte is.                                                     *)
(***************************************************************************)
EXTENDS LogStream, FiniteSetTheorems, TLAPS

(* A handler that runs is subscribed to an open channel.                   *)
StreamInv ==
    /\ sequence \in Nat
    /\ subs \subseteq Streams
    /\ DOMAIN updates = Streams /\ DOMAIN batch = Streams /\ DOMAIN open = Streams
    /\ DOMAIN at = Streams /\ DOMAIN text = Streams /\ DOMAIN shown = Streams
    /\ \A s \in Streams : text[s] \in Nat /\ shown[s] \in Nat
    /\ \A s \in Streams : at[s] # "off" <=> s \in subs
    /\ SendsOnOpenChannels
    /\ NoLostWakeUp

LEMMA InitInv == Init => StreamInv
BY LimitAssumption DEF Init, StreamInv, SendsOnOpenChannels, NoLostWakeUp

(* A write signals every subscription whose channel is empty.              *)
LEMMA WriteInv ==
    ASSUME StreamInv, NEW p, Write(p)
    PROVE  StreamInv'
<1> USE DEF StreamInv, Write, Signal
<1>1. sequence' \in Nat /\ sequence + 1 # NoSignal
    BY LimitAssumption
<1>2. NoLostWakeUp'
    <2> SUFFICES ASSUME NEW s \in Streams, at[s] \in {"select", "send"}
                 PROVE  updates'[s] # NoSignal
        BY DEF NoLostWakeUp
    <2> QED BY <1>1
<1> QED BY <1>1, <1>2 DEF SendsOnOpenChannels

(* A handler comes and goes.                                               *)
LEMMA ConnectionInv ==
    ASSUME StreamInv, NEW s \in Streams, Subscribe(s) \/ Lost(s) \/ Unsubscribe(s)
    PROVE  StreamInv'
<1> USE DEF StreamInv, ringVars, SendsOnOpenChannels, NoLostWakeUp
<1>1. CASE Subscribe(s)
    BY <1>1 DEF Subscribe
<1>2. CASE Lost(s)
    BY <1>2 DEF Lost
<1>3. CASE Unsubscribe(s)
    BY <1>3 DEF Unsubscribe
<1> QED BY <1>1, <1>2, <1>3

(* What a handler has not shown when it waits again has come since its     *)
(* snapshot, and has left a signal.                                        *)
LEMMA HandlerInv ==
    ASSUME StreamInv, NEW s \in Streams,
           Snapshot(s) \/ Send(s) \/ TakeSignal(s) \/ BatchFires(s)
    PROVE  StreamInv'
<1> USE DEF StreamInv, ringVars, SendsOnOpenChannels, NoLostWakeUp
<1>1. CASE Snapshot(s)
    BY <1>1 DEF Snapshot
<1>2. CASE Send(s)
    BY <1>2 DEF Send
<1>3. CASE TakeSignal(s)
    BY <1>3 DEF TakeSignal
<1>4. CASE BatchFires(s)
    BY <1>4 DEF BatchFires
<1> QED BY <1>1, <1>2, <1>3, <1>4

-----------------------------------------------------------------------------
(* The invariant from which the theorems below follow.                     *)
THEOREM StreamCorrect == Spec => []StreamInv
<1>1. StreamInv /\ [Next]_vars => StreamInv'
    <2> SUFFICES ASSUME StreamInv, [Next]_vars PROVE StreamInv'
        OBVIOUS
    <2>1. CASE Next
        BY <2>1, WriteInv, ConnectionInv, HandlerInv DEF Next, HandlerStep
    <2>2. CASE UNCHANGED vars
        BY <2>2 DEF vars, ringVars, streamVars, StreamInv, SendsOnOpenChannels, NoLostWakeUp
    <2> QED BY <2>1, <2>2
<1> QED BY InitInv, <1>1, PTL DEF Spec

(* logsStream never waits with an unshown write and nothing to wake it.    *)
THEOREM WakesUp == Spec => []NoLostWakeUp
BY StreamCorrect, PTL DEF StreamInv

(* LogBuffer.Write never sends on a closed channel.                        *)
THEOREM ChannelsOpen == Spec => []SendsOnOpenChannels
BY StreamCorrect, PTL DEF StreamInv

-----------------------------------------------------------------------------
(* The ring.  The i-th byte of the content is at index At(i) of data, and  *)
(* each is the byte of `written` that is as far from its end.              *)
Mod(a, n) == a % n

At(i) == Mod(start + i - 1, Limit)

Place(i) == Mod(i - Mod(start + size, Limit), Limit)

RingInv ==
    /\ start \in 0 .. Limit - 1 /\ size \in 0 .. Limit
    /\ written \in Seq(Bytes)
    /\ size = Least(Limit, Len(written))
    /\ \A i \in 1 .. size : data[At(i)] = written[Len(written) - size + i]

(* No index is further than twice the size of the ring from it.            *)
LEMMA Remainder ==
    ASSUME NEW n \in Nat \ {0}, NEW a \in Int
    PROVE  /\ a >= 0 /\ a < n => Mod(a, n) = a
           /\ a >= n /\ a < 2 * n => Mod(a, n) = a - n
           /\ a >= 2 * n /\ a < 3 * n => Mod(a, n) = a - 2 * n
           /\ a < 0 /\ a >= -n => Mod(a, n) = a + n
<1>1. ASSUME a \in 0 .. n - 1 PROVE a % n = a
    BY <1>1
<1>2. ASSUME a \in n .. 2 * n - 1 PROVE a % n = a - n
    BY <1>2
<1>3. ASSUME a \in 2 * n .. 3 * n - 1 PROVE a % n = a - 2 * n
    BY <1>3
<1>4. ASSUME a \in (-n) .. -1 PROVE a % n = a + n
    BY <1>4
<1> QED BY <1>1, <1>2, <1>3, <1>4 DEF Mod

(* The bytes from the end of the ring on are places 0, 1, ...; those that  *)
(* are not overwritten come after the places of a short write.             *)
LEMMA PlaceAfter ==
    ASSUME NEW n \in Nat \ {0}, NEW s \in 0 .. n - 1, NEW z \in 0 .. n, NEW m \in 1 .. n - 1,
           NEW j \in 1 .. z + m, z + m - n < j
    PROVE  /\ Mod(s + j - 1, n) \in 0 .. n - 1
           /\ Mod(Mod(s + j - 1, n) - Mod(s + z, n), n) =
                 IF j > z THEN j - z - 1 ELSE n + j - z - 1
<1>1. PICK end \in Int : end = Mod(s + z, n) /\ end = IF s + z < n THEN s + z ELSE s + z - n
    <2>1. s + z \in Int /\ s + z >= 0 /\ s + z < 2 * n
        OBVIOUS
    <2> QED BY <2>1, Remainder
<1>2. PICK pos \in Int :
         /\ pos = Mod(s + j - 1, n)
         /\ \/ pos = s + j - 1 /\ s + j - 1 < n
            \/ pos = s + j - 1 - n /\ s + j - 1 >= n /\ s + j - 1 < 2 * n
            \/ pos = s + j - 1 - 2 * n /\ s + j - 1 >= 2 * n
    <2>1. s + j - 1 \in Int /\ s + j - 1 >= 0 /\ s + j - 1 < 3 * n
        OBVIOUS
    <2> QED BY <2>1, Remainder
<1>3. /\ pos \in 0 .. n - 1
      /\ pos >= end => pos - end = IF j > z THEN j - z - 1 ELSE n + j - z - 1
      /\ pos < end => pos - end + n = IF j > z THEN j - z - 1 ELSE n + j - z - 1
      /\ pos - end \in Int /\ pos - end < n /\ pos - end >= -n
    BY <1>1, <1>2
<1>4. Mod(pos - end, n) = IF pos >= end THEN pos - end ELSE pos - end + n
    BY <1>3, Remainder
<1> QED BY <1>1, <1>2, <1>3, <1>4

LEMMA Places ==
    ASSUME start \in 0 .. Limit - 1, size \in 0 .. Limit, NEW m \in 1 .. Limit - 1,
           NEW j \in 1 .. size + m, size + m - Limit < j
    PROVE  /\ At(j) \in 0 .. Limit - 1 /\ Place(At(j)) \in Int
           /\ j <= size => Place(At(j)) >= m
           /\ j > size => Place(At(j)) = j - size - 1
<1>1. Place(At(j)) = IF j > size THEN j - size - 1 ELSE Limit + j - size - 1
    BY LimitAssumption, PlaceAfter, ZenonT(60) DEF At, Place
<1>2. At(j) \in 0 .. Limit - 1
    BY LimitAssumption, PlaceAfter DEF At
<1>3. Limit \in Nat /\ size \in Nat /\ j \in Nat /\ m \in Nat
    BY LimitAssumption
<1> QED BY <1>1, <1>2, <1>3

(* Moving start on by k moves every index by k.                            *)
LEMMA SameIndex ==
    ASSUME NEW n \in Nat \ {0}, NEW s \in 0 .. n - 1, NEW k \in 0 .. n - 1
    PROVE  /\ Mod(s + k, n) \in 0 .. n - 1
           /\ \A i \in 1 .. n : Mod(Mod(s + k, n) + i - 1, n) = Mod(s + (i + k) - 1, n)
<1>1. PICK t \in Int : t = Mod(s + k, n) /\ t = IF s + k < n THEN s + k ELSE s + k - n
    <2>1. s + k \in Int /\ s + k >= 0 /\ s + k < 2 * n
        OBVIOUS
    <2> QED BY <2>1, Remainder
<1>2. ASSUME NEW i \in 1 .. n
      PROVE  Mod(t + i - 1, n) = Mod(s + (i + k) - 1, n)
    <2>1. PICK a \in Int : a = t + i - 1 /\ a >= 0 /\ a < 2 * n
        BY <1>1
    <2>2. PICK b \in Int : b = s + (i + k) - 1 /\ b >= 0 /\ b < 3 * n
        OBVIOUS
    <2>3. b = a \/ b = a + n
        BY <1>1, <2>1, <2>2
    <2>4. /\ Mod(a, n) = IF a < n THEN a ELSE a - n
          /\ Mod(b, n) = IF b < n THEN b ELSE IF b < 2 * n THEN b - n ELSE b - 2 * n
        BY <2>1, <2>2, Remainder
    <2>5. Mod(a, n) = Mod(b, n)
        BY <2>1, <2>2, <2>3, <2>4
    <2> QED BY <2>1, <2>2, <2>5
<1> QED BY <1>1, <1>2

(* A write of the whole ring or more leaves its own last bytes.            *)
LEMMA FillInv ==
    ASSUME RingInv, NEW p \in Seq(Bytes), Len(p) >= Limit, Fill(p), written' = written \o p
    PROVE  RingInv'
<1>1. /\ Limit \in Nat \ {0} /\ Len(p) \in Nat /\ Len(written) \in Nat
      /\ written \in Seq(Bytes)
    BY LimitAssumption DEF RingInv
<1>2. /\ start' = 0 /\ size' = Limit
      /\ data' = [i \in 0 .. Limit - 1 |-> p[Len(p) - Limit + i + 1]]
    BY DEF Fill
<1>3. written' \in Seq(Bytes) /\ Len(written') = Len(written) + Len(p)
    BY <1>1
<1>4. size' = Least(Limit, Len(written'))
    BY <1>1, <1>2, <1>3 DEF Least
<1>5. start' \in 0 .. Limit - 1 /\ size' \in 0 .. Limit
    BY <1>1, <1>2
<1>6. ASSUME NEW i \in 1 .. Limit
      PROVE  data'[At(i)'] = written'[Len(written') - Limit + i]
    <2>1. i - 1 \in 0 .. Limit - 1 /\ 0 + i - 1 = i - 1
        BY <1>1
    <2>2. At(i)' = i - 1
        BY <1>1, <1>2, <2>1, Remainder DEF At
    <2>3. data'[i - 1] = p[Len(p) - Limit + i]
        <3>1. Len(p) - Limit + (i - 1) + 1 = Len(p) - Limit + i
            BY <1>1
        <3> QED BY <1>2, <2>1, <3>1
    <2>4. /\ Len(written') - Limit + i = Len(written) + (Len(p) - Limit + i)
          /\ Len(p) - Limit + i \in 1 .. Len(p)
        BY <1>1, <1>3
    <2>5. \A k \in 1 .. Len(p) : (written \o p)[Len(written) + k] = p[k]
        BY <1>1
    <2> QED BY <2>2, <2>3, <2>4, <2>5
<1> QED BY <1>2, <1>3, <1>4, <1>5, <1>6 DEF RingInv

(* A shorter write goes behind what is there and overwrites the oldest.    *)
LEMMA WrapInv ==
    ASSUME RingInv, NEW p \in Seq(Bytes), Len(p) > 0, Len(p) < Limit, WrapAround(p),
           written' = written \o p
    PROVE  RingInv'
<1> DEFINE m == Len(p)
           overflow == size + m - Limit
<1>1. /\ Limit \in Nat \ {0} /\ m \in 1 .. Limit - 1 /\ Len(written) \in Nat
      /\ written \in Seq(Bytes) /\ start \in 0 .. Limit - 1 /\ size \in 0 .. Limit
      /\ size <= Len(written)
    BY LimitAssumption DEF RingInv, Least
<1>2. /\ data' = [i \in 0 .. Limit - 1 |-> IF Place(i) < m THEN p[Place(i) + 1] ELSE data[i]]
      /\ start' = IF overflow > 0 THEN Mod(start + overflow, Limit) ELSE start
      /\ size' = Least(Limit, size + m)
    BY Zenon DEF WrapAround, Place, Mod
<1>3. written' \in Seq(Bytes) /\ Len(written') = Len(written) + m
    BY <1>1
<1>4. size' = Least(Limit, Len(written')) /\ size' \in 0 .. Limit
    BY <1>1, <1>2, <1>3 DEF RingInv, Least
<1>5. ASSUME NEW j \in 1 .. size + m, overflow < j
      PROVE  data'[At(j)] = written'[Len(written) - size + j]
    <2>1. /\ At(j) \in 0 .. Limit - 1 /\ Place(At(j)) \in Int
          /\ j <= size => Place(At(j)) >= m
          /\ j > size => Place(At(j)) = j - size - 1
        BY <1>1, <1>5, Places
    <2>2. CASE j <= size
        <3>1. j \in 1 .. size /\ ~(j - size - 1 >= 0)
            BY <1>1, <2>2
        <3>2. ~(Place(At(j)) < m)
            BY <1>1, <2>1, <2>2
        <3>3. data'[At(j)] = data[At(j)]
            BY <1>2, <2>1, <3>2
        <3>4. data[At(j)] = written[Len(written) - size + j]
            BY <3>1 DEF RingInv
        <3>5. Len(written) - size + j \in 1 .. Len(written)
            BY <1>1, <3>1
        <3>6. \A k \in 1 .. Len(written) : (written \o p)[k] = written[k]
            BY <1>1
        <3> QED BY <3>3, <3>4, <3>5, <3>6
    <2>3. CASE j > size
        <3>1. j - size \in 1 .. m /\ j - size - 1 < m /\ j - size - 1 + 1 = j - size
            BY <1>1, <2>3
        <3>2. data'[At(j)] = p[j - size]
            BY <1>2, <2>1, <2>3, <3>1
        <3>3. Len(written) - size + j = Len(written) + (j - size)
            BY <1>1
        <3>4. \A k \in 1 .. Len(p) : (written \o p)[Len(written) + k] = p[k]
            BY <1>1
        <3> QED BY <3>1, <3>2, <3>3, <3>4
    <2> QED BY <1>1, <2>2, <2>3
<1>6. CASE overflow <= 0
    <2>1. start' = start /\ size' = size + m
        BY <1>1, <1>2, <1>6 DEF Least
    <2>2. ASSUME NEW i \in 1 .. size'
          PROVE  data'[At(i)'] = written'[Len(written') - size' + i]
        <3>1. i \in 1 .. size + m /\ overflow < i
            BY <1>1, <1>6, <2>1
        <3>2. At(i)' = At(i)
            BY <2>1 DEF At
        <3>3. Len(written') - size' + i = Len(written) - size + i
            BY <1>1, <1>3, <2>1
        <3> QED BY <1>5, <3>1, <3>2, <3>3
    <2> QED BY <1>1, <1>3, <1>4, <2>1, <2>2 DEF RingInv
<1>7. CASE overflow > 0
    <2>1. overflow \in 0 .. Limit - 1
        BY <1>1, <1>7
    <2>2. start' = Mod(start + overflow, Limit) /\ size' = Limit
        BY <1>1, <1>2, <1>7 DEF Least
    <2>3. start' \in 0 .. Limit - 1
        <3> HIDE DEF overflow
        <3> QED BY <1>1, <2>1, <2>2, SameIndex
    <2>4. ASSUME NEW i \in 1 .. Limit
          PROVE  data'[At(i)'] = written'[Len(written') - Limit + i]
        <3>1. /\ i + overflow \in 1 .. size + m /\ overflow < i + overflow
              /\ Len(written') - Limit + i = Len(written) - size + (i + overflow)
            BY <1>1, <1>3, <2>1
        <3>2. At(i)' = At(i + overflow)
            <4>1. Mod(start' + i - 1, Limit) = Mod(start + (i + overflow) - 1, Limit)
                <5> HIDE DEF overflow
                <5> QED BY <1>1, <2>1, <2>2, SameIndex
            <4> QED BY <4>1, Zenon DEF At
        <3> QED BY <1>5, <3>1, <3>2
    <2> QED BY <1>3, <1>4, <2>2, <2>3, <2>4 DEF RingInv
<1> QED BY <1>1, <1>6, <1>7

-----------------------------------------------------------------------------
(* The lines of a text c: what LastLines leaves of it.                     *)
LEMMA LeastOf ==
    ASSUME NEW T \in SUBSET Nat, T # {}
    PROVE  \E x \in T : \A y \in T : x <= y
<1>1. PICK x \in T : \A y \in T : <<y, x>> \notin OpToRel(<, Nat)
    BY NatLessThanWellFounded, WFMin
<1>2. ASSUME NEW y \in T PROVE x <= y
    <2>1. ~(y < x)
        BY <1>1 DEF OpToRel
    <2> QED BY <2>1
<1> QED BY <1>2

LEMMA GreatestOf ==
    ASSUME NEW n \in Nat, NEW T \in SUBSET (1 .. n), T # {}
    PROVE  \E x \in T : \A y \in T : y <= x
<1> DEFINE U == {n - x : x \in T}
<1>1. U \in SUBSET Nat /\ U # {}
    <2>1. \A x \in T : x \in 1 .. n
        OBVIOUS
    <2>2. \A x \in 1 .. n : n - x \in Nat
        OBVIOUS
    <2> QED BY <2>1, <2>2
<1>2. PICK u \in U : \A v \in U : u <= v
    BY <1>1, LeastOf
<1>3. PICK x \in T : u = n - x
    OBVIOUS
<1>4. ASSUME NEW y \in T PROVE y <= x
    <2>1. n - x <= n - y
        BY <1>2, <1>3
    <2>2. x \in 1 .. n /\ y \in 1 .. n
        OBVIOUS
    <2> HIDE DEF U
    <2> QED BY <2>1, <2>2
<1> QED BY <1>4

(* The line breaks of c from the i-th byte on.                             *)
From(c, i) == {j \in 1 .. Len(c) : c[j] = NewLine /\ j >= i}

LEMMA FromIsFinite ==
    ASSUME NEW S, NEW c \in Seq(S), NEW i
    PROVE  IsFiniteSet(From(c, i)) /\ Cardinality(From(c, i)) \in Nat
<1>1. IsFiniteSet(1 .. Len(c))
    BY FS_Interval
<1>2. From(c, i) \in SUBSET (1 .. Len(c))
    BY DEF From
<1> QED BY <1>1, <1>2, FS_Subset, FS_CardinalityType

(* What is cut off in front shifts the line breaks.                        *)
LEMMA BreaksOfRest ==
    ASSUME NEW S, NEW c \in Seq(S), NEW e \in 1 .. Len(c) + 1
    PROVE  LET t == SubSeq(c, e, Len(c))
           IN  /\ t \in Seq(S) /\ Len(t) = Len(c) - e + 1
               /\ \A i \in 1 .. Len(t) : t[i] = c[i + (e - 1)]
               /\ Breaks(t) = Cardinality(From(c, e))
<1> DEFINE t == SubSeq(c, e, Len(c))
           B == {i \in 1 .. Len(t) : t[i] = NewLine}
           f == [j \in From(c, e) |-> j - (e - 1)]
<1>1. /\ t \in Seq(S) /\ Len(t) = Len(c) - e + 1
      /\ \A i \in 1 .. Len(t) : t[i] = c[e + i - 1]
    OBVIOUS
<1>2. \A i \in 1 .. Len(t) : t[i] = c[i + (e - 1)]
    <2>1. \A i \in Int : e + i - 1 = i + (e - 1)
        OBVIOUS
    <2> QED BY <1>1, <2>1
<1>3. Len(t) \in Nat
    BY <1>1
<1> HIDE DEF t
<1>4. \A j \in From(c, e) : j - (e - 1) \in B
    <2> SUFFICES ASSUME NEW j \in From(c, e) PROVE j - (e - 1) \in B
        OBVIOUS
    <2>1. j \in 1 .. Len(c) /\ c[j] = NewLine /\ j >= e
        BY DEF From
    <2>2. j - (e - 1) \in 1 .. Len(t) /\ (j - (e - 1)) + (e - 1) = j
        BY <1>1, <2>1
    <2> QED BY <1>2, <2>1, <2>2
<1>5. \A i \in B : i + (e - 1) \in From(c, e) /\ i = (i + (e - 1)) - (e - 1)
    <2> SUFFICES ASSUME NEW i \in B
                 PROVE  i + (e - 1) \in From(c, e) /\ i = (i + (e - 1)) - (e - 1)
        OBVIOUS
    <2>1. i \in 1 .. Len(t) /\ t[i] = NewLine
        OBVIOUS
    <2>2. i + (e - 1) \in 1 .. Len(c) /\ i + (e - 1) >= e /\ i = (i + (e - 1)) - (e - 1)
        BY <1>1, <2>1
    <2> QED BY <1>2, <2>1, <2>2 DEF From
<1>6. From(c, e) \in SUBSET Int
    BY DEF From
<1> HIDE DEF B
<1>7. f \in Bijection(From(c, e), B)
    <2>1. f \in [From(c, e) -> B]
        BY <1>4
    <2>2. \A x, y \in From(c, e) : f[x] = f[y] => x = y
        BY <1>6
    <2>3. \A i \in B : \E x \in From(c, e) : f[x] = i
        BY <1>5
    <2> QED BY <2>1, <2>2, <2>3 DEF Bijection, Injection, Surjection, IsInjective
<1>8. Cardinality(B) = Cardinality(From(c, e))
    BY <1>7, FromIsFinite, FS_Bijection DEF ExistsBijection
<1> QED BY <1>1, <1>2, <1>8 DEF Breaks, B, t

(* A text that is cut at a line break with more than `lines` from there    *)
(* on, and behind it with no more.                                         *)
LEMMA CutText ==
    ASSUME NEW S, NEW c \in Seq(S), NEW lines \in Nat, LastLines(c, lines) # c
    PROVE  \E cut \in 1 .. Len(c), e \in 1 .. Len(c) + 1 :
              /\ LastLines(c, lines) = SubSeq(c, e, Len(c))
              /\ cut < e
              /\ \A j \in cut .. e - 1 : c[j] = NewLine
              /\ Cardinality(From(c, cut)) > lines
              /\ \A j \in From(c, cut + 1) : ~(Cardinality(From(c, j)) > lines)
<1> DEFINE breaks == {i \in 1 .. Len(c) : c[i] = NewLine}
           cuts == {i \in breaks : Cardinality({j \in breaks : j >= i}) > lines}
           after(i) == {j \in i + 1 .. Len(c) : c[j] # NewLine}
           cut == CHOOSE i \in cuts : \A j \in cuts : j <= i
           from == CHOOSE i \in after(cut) : \A j \in after(cut) : i <= j
<1>1. /\ cuts # {}
      /\ LastLines(c, lines) = IF after(cut) = {} THEN <<>> ELSE SubSeq(c, from, Len(c))
    BY Zenon DEF LastLines
<1>2. \A i \in 1 .. Len(c) : {j \in breaks : j >= i} = From(c, i)
    BY DEF From
<1>3. /\ cut \in 1 .. Len(c) /\ c[cut] = NewLine
      /\ Cardinality(From(c, cut)) > lines
      /\ \A j \in cuts : j <= cut
    <2>1. \E i \in cuts : \A j \in cuts : j <= i
        <3>1. cuts \in SUBSET (1 .. Len(c)) /\ Len(c) \in Nat
            OBVIOUS
        <3> HIDE DEF cuts
        <3> QED BY <1>1, <3>1, GreatestOf
    <2>2. cut \in cuts /\ \A j \in cuts : j <= cut
        BY <2>1
    <2> QED BY <1>2, <2>2
<1> HIDE DEF cut
<1>4. ASSUME NEW j \in From(c, cut + 1)
      PROVE  ~(Cardinality(From(c, j)) > lines)
    <2>1. j \in 1 .. Len(c) /\ c[j] = NewLine /\ j >= cut + 1
        BY <1>4 DEF From
    <2>2. j \notin cuts
        BY <1>3, <2>1
    <2>3. j \in breaks
        BY <2>1
    <2> QED BY <1>2, <2>1, <2>2, <2>3
<1>5. CASE after(cut) = {}
    <2>1. LastLines(c, lines) = SubSeq(c, Len(c) + 1, Len(c))
        <3>1. SubSeq(c, Len(c) + 1, Len(c)) = <<>>
            OBVIOUS
        <3> QED BY <1>1, <1>5, <3>1
    <2>2. \A j \in cut .. Len(c) : c[j] = NewLine
        BY <1>3, <1>5
    <2>3. Len(c) + 1 \in 1 .. Len(c) + 1 /\ cut < Len(c) + 1 /\ Len(c) + 1 - 1 = Len(c)
        BY <1>3
    <2> QED BY <1>3, <1>4, <2>1, <2>2, <2>3
<1>6. CASE after(cut) # {}
    <2>1. from \in after(cut) /\ \A j \in after(cut) : from <= j
        <3>1. after(cut) \in SUBSET Nat
            BY <1>3
        <3>2. \E i \in after(cut) : \A j \in after(cut) : i <= j
            BY <1>6, <3>1, LeastOf
        <3> QED BY <3>2
    <2> HIDE DEF from
    <2>2. from \in 1 .. Len(c) + 1 /\ from \in cut + 1 .. Len(c)
        BY <1>3, <2>1
    <2>3. ASSUME NEW j \in cut .. from - 1 PROVE c[j] = NewLine
        <3>1. j = cut \/ (j \in cut + 1 .. Len(c) /\ ~(from <= j))
            BY <1>3, <2>2
        <3> QED BY <1>3, <2>1, <3>1
    <2>4. cut < from
        BY <1>3, <2>2
    <2> QED BY <1>1, <1>3, <1>4, <1>6, <2>2, <2>3, <2>4
<1> QED BY <1>5, <1>6

(* Behind the cut are no more line breaks than asked for, and what is cut  *)
(* off ends in line breaks that would be too many with them.               *)
LEMMA LinesShown ==
    ASSUME NEW S, NEW c \in Seq(S), NEW lines \in Nat
    PROVE  LET t == LastLines(c, lines)
               cut == Len(c) - Len(t)
               blank == {i \in 1 .. cut : \A j \in i .. cut : c[j] = NewLine}
           IN  /\ t = SubSeq(c, cut + 1, Len(c))
               /\ cut = 0 \/ Breaks(t) <= lines
               /\ cut > 0 => blank # {} /\ Breaks(t) + Cardinality(blank) > lines
<1>1. CASE LastLines(c, lines) = c
    <2>1. Len(c) - Len(c) = 0 /\ 0 + 1 = 1 /\ ~(0 > 0) /\ SubSeq(c, 1, Len(c)) = c
        OBVIOUS
    <2> QED BY <1>1, <2>1
<1>2. CASE LastLines(c, lines) # c
    <2> DEFINE t == LastLines(c, lines)
    <2>1. PICK x \in 1 .. Len(c), e \in 1 .. Len(c) + 1 :
              /\ t = SubSeq(c, e, Len(c))
              /\ x < e
              /\ \A j \in x .. e - 1 : c[j] = NewLine
              /\ Cardinality(From(c, x)) > lines
              /\ \A j \in From(c, x + 1) : ~(Cardinality(From(c, j)) > lines)
        BY <1>2, CutText
    <2>2. Len(t) = Len(c) - e + 1 /\ Breaks(t) = Cardinality(From(c, e))
        BY <2>1, BreaksOfRest
    <2> HIDE DEF t
    <2> DEFINE blank == {i \in 1 .. e - 1 : \A j \in i .. e - 1 : c[j] = NewLine}
    <2>3. Len(c) - Len(t) = e - 1 /\ e - 1 + 1 = e /\ e - 1 > 0
        BY <2>1, <2>2
    <2>4. Cardinality(From(c, e)) <= lines
        <3>1. From(c, e) \subseteq From(c, x + 1) /\ From(c, x + 1) \in SUBSET Nat
            BY <2>1 DEF From
        <3>2. CASE From(c, x + 1) = {}
            <4>1. From(c, e) = {}
                BY <3>1, <3>2
            <4>2. Cardinality(From(c, e)) = 0
                BY <4>1, FS_EmptySet
            <4> QED BY <4>2
        <3>3. CASE From(c, x + 1) # {}
            <4>1. PICK b \in From(c, x + 1) : \A j \in From(c, x + 1) : b <= j
                BY <3>1, <3>3, LeastOf
            <4>2. From(c, x + 1) \subseteq From(c, b)
                BY <4>1 DEF From
            <4>3. From(c, e) \in SUBSET From(c, b)
                BY <3>1, <4>2
            <4>4. Cardinality(From(c, e)) <= Cardinality(From(c, b))
                BY <4>3, FromIsFinite, FS_Subset
            <4>5. ~(Cardinality(From(c, b)) > lines)
                BY <2>1
            <4>6. Cardinality(From(c, e)) \in Nat /\ Cardinality(From(c, b)) \in Nat
                BY FromIsFinite
            <4> QED BY <4>4, <4>5, <4>6
        <3> QED BY <3>2, <3>3
    <2>5. blank # {} /\ Cardinality(From(c, e)) + Cardinality(blank) > lines
        <3>1. x \in blank
            BY <2>1
        <3>2. From(c, x) \in SUBSET (From(c, e) \cup blank)
            <4> SUFFICES ASSUME NEW j \in From(c, x), ~(j >= e) PROVE j \in blank
                BY DEF From
            <4>1. j \in 1 .. e - 1 /\ \A k \in j .. e - 1 : k \in x .. e - 1
                BY DEF From
            <4> QED BY <2>1, <4>1
        <3>3. IsFiniteSet(blank) /\ Cardinality(blank) \in Nat
            <4>1. blank \in SUBSET (1 .. e - 1)
                OBVIOUS
            <4> HIDE DEF blank
            <4>2. IsFiniteSet(1 .. e - 1)
                BY FS_Interval
            <4> QED BY <4>1, <4>2, FS_Subset, FS_CardinalityType
        <3> HIDE DEF blank
        <3>4. /\ Cardinality(From(c, x)) <= Cardinality(From(c, e) \cup blank)
              /\ Cardinality(From(c, e) \cup blank)
                     = Cardinality(From(c, e)) + Cardinality(blank)
                       - Cardinality(From(c, e) \cap blank)
            BY <3>2, <3>3, FromIsFinite, FS_Union, FS_Subset
        <3>5. /\ Cardinality(From(c, e) \cap blank) \in Nat
              /\ Cardinality(From(c, e)) \in Nat /\ Cardinality(From(c, x)) \in Nat
            <4>1. From(c, e) \cap blank \in SUBSET From(c, e)
                OBVIOUS
            <4> QED BY <4>1, FromIsFinite, FS_Subset, FS_CardinalityType
        <3>6. Cardinality(From(c, x)) > lines
            BY <2>1
        <3> QED BY <3>1, <3>3, <3>4, <3>5, <3>6
    <2> QED BY <2>1, <2>2, <2>3, <2>4, <2>5 DEF t
<1> QED BY <1>1, <1>2

(* The content of the ring is a text.                                      *)
LEMMA ContentIsTail ==
    ASSUME RingInv
    PROVE  RingIsTail /\ Content \in Seq(Bytes) /\ Len(Content) = size
<1> DEFINE n == Len(written)
<1>1. /\ n \in Nat /\ size \in Nat /\ size <= n /\ written \in Seq(Bytes)
    BY LimitAssumption DEF RingInv, Least
<1>2. /\ Content = [i \in 1 .. size |-> data[At(i)]]
    BY DEF Content, At, Mod
<1>3. ASSUME NEW i \in 1 .. size
      PROVE  /\ data[At(i)] = written[n - size + i]
             /\ n - size + 1 + i - 1 = n - size + i
             /\ written[n - size + i] \in Bytes
    <2>1. n - size + i \in 1 .. n /\ n - size + 1 + i - 1 = n - size + i
        BY <1>1
    <2> QED BY <1>1, <2>1 DEF RingInv
<1>4. Content \in [1 .. size -> Bytes]
    BY <1>2, <1>3
<1>5. Content \in Seq(Bytes) /\ Len(Content) = size
    BY <1>1, <1>4
<1>6. Content = SubSeq(written, n - size + 1, n)
    <2>1. /\ SubSeq(written, n - size + 1, n) \in Seq(Bytes)
          /\ Len(SubSeq(written, n - size + 1, n)) = size
          /\ \A i \in 1 .. size :
                SubSeq(written, n - size + 1, n)[i] = written[n - size + 1 + i - 1]
        BY <1>1
    <2>2. \A i \in 1 .. size : Content[i] = SubSeq(written, n - size + 1, n)[i]
        BY <1>2, <1>3, <2>1
    <2>3. \A s \in Seq(Bytes) : s = [i \in 1 .. Len(s) |-> s[i]]
        OBVIOUS
    <2> HIDE DEF n
    <2>4. Content = [i \in 1 .. size |-> Content[i]]
        BY <1>5, <2>3
    <2>5. SubSeq(written, n - size + 1, n)
              = [i \in 1 .. size |-> SubSeq(written, n - size + 1, n)[i]]
        BY <2>1, <2>3
    <2> QED BY <2>2, <2>4, <2>5
<1> QED BY <1>5, <1>6 DEF RingIsTail, RingInv

(* LogBuffer.Write and Snapshot, for a ring of any size and any writes:    *)
(* what is shown of the log are its newest bytes, from the start of a      *)
(* line, no more lines than asked for and none left out.                   *)
THEOREM ShowsLastLines == Spec => []SnapshotShowsLastLines
<1>1. Init => RingInv
    <2> SUFFICES ASSUME Init PROVE RingInv
        OBVIOUS
    <2>1. written = <<>> /\ start = 0 /\ size = 0 /\ Limit \in Nat \ {0}
        BY LimitAssumption DEF Init
    <2>2. written \in Seq(Bytes) /\ Len(written) = 0
        BY <2>1
    <2> QED BY <2>1, <2>2 DEF RingInv, Least
<1>2. RingInv /\ [Next]_vars => RingInv'
    <2> SUFFICES ASSUME RingInv, [Next]_vars PROVE RingInv'
        OBVIOUS
    <2>1. CASE UNCHANGED ringVars
        <3>1. UNCHANGED <<data, start, size, written>>
            BY <2>1 DEF ringVars
        <3> QED BY <3>1 DEF RingInv, At, Mod
    <2>2. ASSUME NEW p \in Writes, Write(p) PROVE RingInv'
        <3>1. p \in Seq(Bytes) /\ Len(p) > 0 /\ written' = written \o p
            BY <2>2, LimitAssumption DEF Write
        <3>2. CASE Len(p) >= Limit
            BY <2>2, <3>1, <3>2, FillInv DEF Write
        <3>3. CASE ~(Len(p) >= Limit)
            <4>1. Len(p) < Limit
                BY <3>1, <3>3, LimitAssumption
            <4> QED BY <2>2, <3>1, <3>3, <4>1, WrapInv DEF Write
        <3> QED BY <3>2, <3>3
    <2>3. ASSUME NEW s \in Streams, Subscribe(s) \/ HandlerStep(s) \/ Lost(s)
          PROVE  RingInv'
        BY <2>1, <2>3 DEF Subscribe, HandlerStep, Snapshot, Send, TakeSignal, BatchFires,
           Unsubscribe, Lost
    <2> QED BY <2>1, <2>2, <2>3 DEF Next, vars
<1>3. RingInv => SnapshotShowsLastLines
    <2> SUFFICES ASSUME RingInv, NEW lines \in 1 .. Limit
                 PROVE  LET t == LastLines(Content, lines)
                            cut == Len(Content) - Len(t)
                            blank == {i \in 1 .. cut : \A j \in i .. cut : Content[j] = NewLine}
                        IN  /\ t = SubSeq(Content, cut + 1, Len(Content))
                            /\ cut = 0 \/ Breaks(t) <= lines
                            /\ cut > 0 => blank # {} /\ Breaks(t) + Cardinality(blank) > lines
        BY ContentIsTail DEF SnapshotShowsLastLines
    <2>1. lines \in Nat /\ Content \in Seq(Bytes)
        BY ContentIsTail
    <2> QED BY <2>1, LinesShown
<1> QED BY <1>1, <1>2, <1>3, PTL DEF Spec

=============================================================================
