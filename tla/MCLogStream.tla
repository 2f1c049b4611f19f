----------------------------- MODULE MCLogStream -----------------------------
EXTENDS LogStream, TLC

CONSTANT Letter

(* Writes shorter than the ring, as long and longer.                       *)
Strings(n) == [1 .. n -> {Letter, NewLine}]
ManyWrites ==
    UNION {Strings(n) : n \in 1 .. Limit}
        \cup {<<Letter>> \o p : p \in Strings(Limit)}

=============================================================================
