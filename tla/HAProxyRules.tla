----------------------------- MODULE HAProxyRules -----------------------------
(***************************************************************************)
(* The rules as HAProxy is given them (internal/render): lists of names    *)
(* and, for each rule, a condition and a backend.  The gateways of         *)
(* DomainMatcher take QUIC and other TCP ports, HAProxy HTTP and TLS.      *)
(*                                                                         *)
(* HAProxy compares texts as they stand: no dot is dropped.                *)
(***************************************************************************)
EXTENDS DomainMatcher

(* Mutant: the list of the suffixes themselves is not written.             *)
buildRuleViewsRootless(g) ==
    [k \in DOMAIN g |->
        [exact |-> g[k].domain, root |-> {}, suffix |-> {v \o <<Dot>> : v \in g[k].suffix},
         pattern |-> g[k].pattern]]

(* "." + v is v with a dot at its left end.                                *)
buildRuleViews(g) ==
    [k \in DOMAIN g |->
        [exact |-> g[k].domain, root |-> g[k].suffix,
         suffix |-> {v \o <<Dot>> : v \in g[k].suffix},
         pattern |-> g[k].pattern]]

(* -m end: the text has v at its right end, and a dot before it.  Dots     *)
(* alone are left out: Compile refuses them.                               *)
EndsWith(h, s) == Starts(SubSeq(s, 1, Len(s) - 1), h) /\ Len(s) <= Len(h)

(* aclAny: the conditions of one rule, joined by ||; the lists are matched *)
(* with -m str and -m end, keywords and expressions one by one.            *)
aclAny(view, h) ==
    \/ h \in view.exact \cup view.root
    \/ \E s \in view.suffix : EndsWith(h, s)
    \/ \E p \in view.pattern : h \in p

(* The use_backend lines of a frontend, in the order of the rules: the     *)
(* rank of the rule whose exit HAProxy uses, 0 for the default backend.    *)
UseBackend(g, h) ==
    LET views == buildRuleViews(g)
        hits == {k \in DOMAIN g : aclAny(views[k], h)}
    IN  IF hits = {} THEN 0 ELSE Least(hits)

=============================================================================
