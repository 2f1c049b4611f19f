------------------------------ MODULE LogStream ------------------------------
(***************************************************************************)
(* The live log: LogBuffer (internal/engine/logs.go), a ring of bytes that *)
(* every managed process writes to, and logsStream                         *)
(* (internal/api/ops_handlers.go), which sends each browser the newest     *)
(* lines whenever they have changed.                                       *)
(***************************************************************************)
EXTENDS Integers, Sequences, FiniteSets

CONSTANTS
    Streams,            \* browsers
    Limit,              \* size of the ring
    Writes,             \* what processes write
    NewLine,
    NoSignal,           \* an empty channel
    MaxWrites,          \* bound: writes
    MaxLosses           \* bound: connections lost

Bytes == UNION {{p[i] : i \in DOMAIN p} : p \in Writes}

ASSUME LimitAssumption ==
    /\ Limit \in Nat \ {0}
    /\ Writes \subseteq Seq(Bytes)
    /\ NoSignal \notin Nat
    /\ MaxWrites \in Nat /\ MaxLosses \in Nat

VARIABLES
    data, start, size,  \* the ring
    sequence,           \* writes so far
    subs,               \* subscriptions: streams in LogBuffer.subs
    updates,            \* the channel of each subscription, of capacity one
    open,               \* it has not been closed
    at,                 \* where each stream's handler is
    batch,              \* the 250 ms timer is set
    text,               \* the sequence number of the snapshot being sent
    shown,              \* the sequence number of the last event the browser got
    written,            \* history: everything written
    losses              \* counter of the bound

ringVars   == <<data, start, size, sequence, written>>
streamVars == <<subs, updates, open, at, batch, text, shown>>
vars == <<ringVars, streamVars, losses>>

Least(a, b) == IF a < b THEN a ELSE b

Init ==
    /\ data = [i \in 0 .. Limit - 1 |-> NewLine] /\ start = 0 /\ size = 0
    /\ sequence = 0 /\ written = <<>>
    /\ subs = {}
    /\ updates = [s \in Streams |-> NoSignal]
    /\ open = [s \in Streams |-> FALSE]
    /\ at = [s \in Streams |-> "off"]
    /\ batch = [s \in Streams |-> FALSE]
    /\ text = [s \in Streams |-> 0] /\ shown = [s \in Streams |-> 0]
    /\ losses = 0

-----------------------------------------------------------------------------
(* LogBuffer.Write.                                                        *)

Fill(p) ==
    /\ data' = [i \in 0 .. Limit - 1 |-> p[Len(p) - Limit + i + 1]]
    /\ start' = 0 /\ size' = Limit

(* Mutant: start does not move when old bytes are overwritten.             *)
WrapKeepingStart(p) ==
    LET end == (start + size) % Limit
        Place(i) == (i - end) % Limit
    IN  /\ data' = [i \in 0 .. Limit - 1 |->
                       IF Place(i) < Len(p) THEN p[Place(i) + 1] ELSE data[i]]
        /\ size' = Least(Limit, size + Len(p))
        /\ UNCHANGED start

(* The two copies write p from the end of the ring on, around its edge.    *)
WrapAround(p) ==
    LET end == (start + size) % Limit
        Place(i) == (i - end) % Limit
        overflow == size + Len(p) - Limit
    IN  /\ data' = [i \in 0 .. Limit - 1 |->
                       IF Place(i) < Len(p) THEN p[Place(i) + 1] ELSE data[i]]
        /\ start' = IF overflow > 0 THEN (start + overflow) % Limit ELSE start
        /\ size' = Least(Limit, size + Len(p))

(* Mutant: a signal goes only to a stream that waits for one.              *)
SignalWaiting ==
    [s \in Streams |->
        IF s \in subs /\ updates[s] = NoSignal /\ at[s] = "select" THEN sequence + 1
                                                                  ELSE updates[s]]

(* A full channel keeps the signal it has.                                 *)
Signal ==
    [s \in Streams |->
        IF s \in subs /\ updates[s] = NoSignal THEN sequence + 1 ELSE updates[s]]

Write(p) ==
    /\ sequence < MaxWrites
    /\ Len(p) > 0
    /\ IF Len(p) >= Limit THEN Fill(p) ELSE WrapAround(p)
    /\ sequence' = sequence + 1
    /\ written' = written \o p
    /\ updates' = Signal
    /\ UNCHANGED <<subs, open, at, batch, text, shown, losses>>

-----------------------------------------------------------------------------
(* LogBuffer.Snapshot.                                                     *)

Content == [i \in 1 .. size |-> data[(start + i - 1) % Limit]]

(* Mutant: one line break too few.                                         *)
LastLinesShort(t, lines) ==
    LET breaks == {i \in 1 .. Len(t) : t[i] = NewLine}
        cuts == {i \in breaks : Cardinality({j \in breaks : j >= i}) >= lines}
        after(i) == {j \in i + 1 .. Len(t) : t[j] # NewLine}
        cut == CHOOSE i \in cuts : \A j \in cuts : j <= i
        from == CHOOSE i \in after(cut) : \A j \in after(cut) : i <= j
    IN  IF cuts = {} \/ lines <= 0 THEN t
        ELSE IF after(cut) = {} THEN <<>> ELSE SubSeq(t, from, Len(t))

(* What follows the first line break, from the end, that has `lines` more  *)
(* behind it; TrimLeft drops empty lines in front.                         *)
LastLines(t, lines) ==
    LET breaks == {i \in 1 .. Len(t) : t[i] = NewLine}
        cuts == {i \in breaks : Cardinality({j \in breaks : j >= i}) > lines}
        after(i) == {j \in i + 1 .. Len(t) : t[j] # NewLine}
        cut == CHOOSE i \in cuts : \A j \in cuts : j <= i
        from == CHOOSE i \in after(cut) : \A j \in after(cut) : i <= j
    IN  IF cuts = {} \/ lines <= 0 THEN t
        ELSE IF after(cut) = {} THEN <<>> ELSE SubSeq(t, from, Len(t))

-----------------------------------------------------------------------------
(* logsStream.                                                             *)

(* Mutant: the first snapshot is taken before the subscription.            *)
SubscribeAfterSnapshot(s) ==
    \/ /\ at[s] = "off"
       /\ at' = [at EXCEPT ![s] = "early"] /\ text' = [text EXCEPT ![s] = sequence]
       /\ UNCHANGED <<ringVars, subs, updates, open, batch, shown, losses>>
    \/ /\ at[s] = "early"
       /\ subs' = subs \cup {s}
       /\ updates' = [updates EXCEPT ![s] = NoSignal]
       /\ open' = [open EXCEPT ![s] = TRUE]
       /\ batch' = [batch EXCEPT ![s] = FALSE]
       /\ at' = [at EXCEPT ![s] = "send"]
       /\ shown' = [shown EXCEPT ![s] = 0]
       /\ UNCHANGED <<ringVars, text, losses>>

(* A browser connects, for the first time or again.                        *)
Subscribe(s) ==
    /\ at[s] = "off"
    /\ subs' = subs \cup {s}
    /\ updates' = [updates EXCEPT ![s] = NoSignal]
    /\ open' = [open EXCEPT ![s] = TRUE]
    /\ batch' = [batch EXCEPT ![s] = FALSE]
    /\ at' = [at EXCEPT ![s] = "snapshot"]
    /\ shown' = [shown EXCEPT ![s] = 0]
    /\ UNCHANGED <<ringVars, text, losses>>

Snapshot(s) ==
    /\ at[s] = "snapshot"
    /\ text' = [text EXCEPT ![s] = sequence]
    /\ at' = [at EXCEPT ![s] = "send"]
    /\ UNCHANGED <<ringVars, subs, updates, open, batch, shown, losses>>

Send(s) ==
    /\ at[s] = "send"
    /\ shown' = [shown EXCEPT ![s] = text[s]]
    /\ at' = [at EXCEPT ![s] = "select"]
    /\ UNCHANGED <<ringVars, subs, updates, open, batch, text, losses>>

(* case <-updates.                                                         *)
TakeSignal(s) ==
    /\ at[s] = "select" /\ updates[s] # NoSignal
    /\ updates' = [updates EXCEPT ![s] = NoSignal]
    /\ batch' = [batch EXCEPT ![s] = TRUE]
    /\ UNCHANGED <<ringVars, subs, open, at, text, shown, losses>>

(* case <-batchC; batch is nil again after the write.                      *)
BatchFires(s) ==
    /\ at[s] = "select" /\ batch[s]
    /\ batch' = [batch EXCEPT ![s] = FALSE]
    /\ at' = [at EXCEPT ![s] = "snapshot"]
    /\ UNCHANGED <<ringVars, subs, updates, open, text, shown, losses>>

(* The request's context ends, or a write fails.                           *)
Lost(s) ==
    /\ at[s] \in {"snapshot", "send", "select"} /\ losses < MaxLosses
    /\ losses' = losses + 1
    /\ at' = [at EXCEPT ![s] = "leave"]
    /\ UNCHANGED <<ringVars, subs, updates, open, batch, text, shown>>

(* Mutant: the channel is closed while it is still subscribed.             *)
UnsubscribeInTwo(s) ==
    /\ at[s] = "leave"
    /\ \/ open[s] /\ open' = [open EXCEPT ![s] = FALSE] /\ UNCHANGED <<subs, at>>
       \/ ~open[s] /\ subs' = subs \ {s} /\ at' = [at EXCEPT ![s] = "off"] /\ UNCHANGED open
    /\ UNCHANGED <<ringVars, updates, batch, text, shown, losses>>

(* The deferred unsubscribe: both under mu.                                *)
Unsubscribe(s) ==
    /\ at[s] = "leave"
    /\ subs' = subs \ {s} /\ open' = [open EXCEPT ![s] = FALSE]
    /\ at' = [at EXCEPT ![s] = "off"]
    /\ UNCHANGED <<ringVars, updates, batch, text, shown, losses>>

-----------------------------------------------------------------------------
HandlerStep(s) ==
    Snapshot(s) \/ Send(s) \/ TakeSignal(s) \/ BatchFires(s) \/ Unsubscribe(s)

Next ==
    \/ \E p \in Writes : Write(p)
    \/ \E s \in Streams : Subscribe(s) \/ HandlerStep(s) \/ Lost(s)

Spec == Init /\ [][Next]_vars

(* A select takes each ready case in time (Go chooses among them at        *)
(* random), a write to the browser returns or fails.                       *)
Fairness ==
    \A s \in Streams :
        /\ WF_vars(HandlerStep(s))
        /\ WF_vars(BatchFires(s))

FairSpec == Spec /\ Fairness

-----------------------------------------------------------------------------
TypeOK ==
    /\ start \in 0 .. Limit - 1 /\ size \in 0 .. Limit /\ DOMAIN data = 0 .. Limit - 1
    /\ sequence \in 0 .. MaxWrites
    /\ subs \subseteq Streams
    /\ updates \in [Streams -> 1 .. MaxWrites \cup {NoSignal}]
    /\ open \in [Streams -> BOOLEAN] /\ batch \in [Streams -> BOOLEAN]
    /\ at \in [Streams -> {"off", "snapshot", "send", "select", "leave"}]
    /\ text \in [Streams -> 0 .. MaxWrites] /\ shown \in [Streams -> 0 .. MaxWrites]
    /\ losses \in 0 .. MaxLosses

RingIsTail ==
    /\ size = Least(Limit, Len(written))
    /\ Content = SubSeq(written, Len(written) - size + 1, Len(written))

Breaks(t) == Cardinality({i \in 1 .. Len(t) : t[i] = NewLine})

(* The ring holds the newest bytes of everything written, in order, as     *)
(* many as fit, whatever the lengths of the writes and wherever they wrap; *)
(* a snapshot of so many lines begins at the start of a line of it, leaves *)
(* out none that it should show and shows no more.                         *)
SnapshotShowsLastLines ==
    /\ RingIsTail
    /\ \A lines \in 1 .. Limit :
        LET t == LastLines(Content, lines)
            cut == Len(Content) - Len(t)
            blank == {i \in 1 .. cut : \A j \in i .. cut : Content[j] = NewLine}
        IN  /\ t = SubSeq(Content, cut + 1, Len(Content))
            /\ cut = 0 \/ Breaks(t) <= lines
            /\ cut > 0 => blank # {} /\ Breaks(t) + Cardinality(blank) > lines

(* No wake-up is lost: a stream that waits has shown the newest write, or  *)
(* a signal is in its channel, or its timer is set; and so it will be when *)
(* it has sent what it has read.                                           *)
NoLostWakeUp ==
    \A s \in Streams :
        (\/ at[s] = "select" /\ shown[s] < sequence
         \/ at[s] = "send" /\ text[s] < sequence) => updates[s] # NoSignal \/ batch[s]

(* Write never sends on a channel that unsubscribe has closed.             *)
SendsOnOpenChannels == \A s \in subs : open[s]

(* README.md:112, the log page follows the log: every write is shown by    *)
(* an event, unless the connection is lost.                                *)
NewestIsShown ==
    \A s \in Streams, n \in 1 .. MaxWrites :
        (at[s] = "select" /\ sequence >= n) ~> (shown[s] >= n \/ at[s] \in {"leave", "off"})

=============================================================================
