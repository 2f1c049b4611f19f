---------------------------- MODULE DomainMatcher ----------------------------
(***************************************************************************)
(* Which rule a name belongs to: the matcher that the gateways compile     *)
(* from the resolved rules (internal/rules/compiled.go), the linear one it *)
(* replaces (internal/rules/rules.go), and the lists that smartdns is      *)
(* given (buildPlan of internal/smartdns/smartdns.go).                     *)
(*                                                                         *)
(* A name is the sequence of its labels from the right, in lower case:     *)
(* www.example.com is <<"com", "example", "www">>.  A dot at either end of *)
(* the text is a label Dot at that end of the sequence.  A keyword or      *)
(* regular expression is the set of names it is found in.                  *)
(***************************************************************************)
EXTENDS Integers, Sequences

CONSTANTS
    Labels,
    Dot,                \* a dot at the end of a name as it is written
    Pools               \* DNS pools

ASSUME LabelsAssumption == Dot \notin Labels

NoPool == "none"        \* the rule names an exit

ASSUME PoolsAssumption == NoPool \notin Pools

Written == Seq(Labels \cup {Dot})

(* What the code looks at; which exit a gateway rule names is told by its  *)
(* own name.  Addresses and rule sets name no domain and are left out.     *)
Rule == [name : Nat \X Nat, pool : Pools \cup {NoPool},
         domain : SUBSET Written, suffix : SUBSET Written,
         pattern : SUBSET SUBSET Seq(Labels)]

Gateway(r) == r.pool = NoPool
DNSOnly(r) == r.pool # NoPool
Empty(r) == r.domain = {} /\ r.suffix = {} /\ r.pattern = {}

Least(S) == CHOOSE k \in S : \A j \in S : k <= j

Starts(n, h) == Len(n) <= Len(h) /\ \A i \in 1 .. Len(n) : n[i] = h[i]

(* strings.TrimSuffix(s, ".") and strings.TrimPrefix(s, ".").              *)
DropTrailingDot(n) == IF n # <<>> /\ n[1] = Dot THEN Tail(n) ELSE n
DropLeadingDot(n) ==
    IF n # <<>> /\ n[Len(n)] = Dot THEN SubSeq(n, 1, Len(n) - 1) ELSE n

(* strings.Trim(s, ".").                                                   *)
normalizeMatchHost(n) ==
    LET inner == {i \in 1 .. Len(n) : n[i] # Dot}
        last == CHOOSE i \in inner : \A j \in inner : j <= i
    IN  IF inner = {} THEN <<>> ELSE SubSeq(n, Least(inner), last)

normalizeDomain(n) == DropLeadingDot(DropTrailingDot(n))

-----------------------------------------------------------------------------
(* Normalized.MatchGatewayDomain: rule after rule.                         *)

(* The elements of s at the places in `at`, in their order.                *)
Filter(s, at) ==
    LET kept[k \in 0 .. Len(s)] ==
            IF k = 0 THEN <<>>
            ELSE IF k \in at THEN Append(kept[k - 1], s[k]) ELSE kept[k - 1]
    IN  kept[Len(s)]

GatewayRules(norm) == Filter(norm, {k \in DOMAIN norm : Gateway(norm[k])})

matchRuleDomain(r, h) ==
    \/ \E v \in r.domain : DropTrailingDot(v) = h
    \/ \E v \in r.suffix : Starts(normalizeDomain(v), h)
    \/ \E p \in r.pattern : h \in p

(* The rank of the first of the gateway rules that matches, 0 if none does.*)
FirstMatch(g, host) ==
    LET hits == {k \in DOMAIN g : matchRuleDomain(g[k], DropTrailingDot(host))}
    IN  IF hits = {} THEN 0 ELSE Least(hits)

-----------------------------------------------------------------------------
(* Compile: a table of exact names and a trie of suffixes, which keep the  *)
(* lowest rank that was inserted, and the rules with patterns by rank.     *)

ExactNames(r) == {normalizeMatchHost(v) : v \in r.domain}
SuffixNames(r) == {normalizeMatchHost(v) : v \in r.suffix}

CompileFails(norm) ==
    \E k \in DOMAIN norm : Gateway(norm[k]) /\ <<>> \in ExactNames(norm[k]) \cup SuffixNames(norm[k])

NoRank == -1

CompileRules(g) ==
    LET exact == UNION {ExactNames(g[k]) : k \in DOMAIN g}
        suffix == UNION {SuffixNames(g[k]) : k \in DOMAIN g}
        nodes == UNION {{SubSeq(n, 1, i) : i \in 1 .. Len(n)} : n \in suffix}
    IN  [rules |-> g,
         exact |-> [n \in exact |-> Least({k \in DOMAIN g : n \in ExactNames(g[k])})],
         suffix |-> [n \in nodes |->
                        IF n \in suffix THEN Least({k \in DOMAIN g : n \in SuffixNames(g[k])})
                                        ELSE NoRank],
         complex |-> {k \in DOMAIN g : g[k].pattern # {}}]

Compile(norm) == CompileRules(GatewayRules(norm))

(* The nodes the walk from the right passes before it finds no child.      *)
Walk(trie, h) ==
    {SubSeq(h, 1, i) : i \in {l \in 1 .. Len(h) :
                                 \A j \in 1 .. l : SubSeq(h, 1, j) \in DOMAIN trie}}

(* Mutant: the walk keeps the most specific suffix.                        *)
DeepestRank(trie, h) ==
    LET deep == {n \in Walk(trie, h) : trie[n] # NoRank}
    IN  {trie[n] : n \in {m \in deep : \A o \in deep : Len(o) <= Len(m)}}

SuffixRanks(trie, h) == {trie[n] : n \in Walk(trie, h)} \ {NoRank}

(* Compiled.MatchGatewayDomain: the rank, 0 if no rule matches.  The rules *)
(* with patterns are looked at in order and only below the best rank yet.  *)
MatchGatewayDomain(c, host) ==
    LET h == normalizeMatchHost(host)
        direct == IF h \in DOMAIN c.exact THEN {c.exact[h]} ELSE {}
        found == direct \cup SuffixRanks(c.suffix, h)
        best == IF found = {} THEN Len(c.rules) + 1 ELSE Least(found)
        hits == {k \in c.complex : k < best /\ \E p \in c.rules[k].pattern : h \in p}
    IN  IF hits # {} THEN Least(hits)
        ELSE IF best = Len(c.rules) + 1 THEN 0 ELSE best

-----------------------------------------------------------------------------
(* buildPlan: the names smartdns answers with the gateway's address, and   *)
(* those it resolves in a pool.                                            *)

NoPlan == [decided |-> {}, gateway |-> {}, pool |-> {}]

Named(r) == {normalizeDomain(v) : v \in r.domain \cup r.suffix}

PlanFails(norm) ==
    \E k \in DOMAIN norm : norm[k].pattern # {} \/ <<>> \in Named(norm[k])

(* Mutant: only pool rules ask whether the name is decided.                *)
addGatewayAlways(plan, r) ==
    LET fresh == IF Gateway(r) THEN Named(r) ELSE Named(r) \ plan.decided
    IN  [decided |-> plan.decided \cup fresh,
         gateway |-> plan.gateway \cup IF Gateway(r) THEN fresh ELSE {},
         pool    |-> plan.pool \cup IF DNSOnly(r) THEN fresh \X {r.pool} ELSE {}]

(* addDomainRule, for every name of a rule: the first rule decides.        *)
addDomainRule(plan, r) ==
    LET fresh == Named(r) \ plan.decided
    IN  [decided |-> plan.decided \cup fresh,
         gateway |-> plan.gateway \cup IF Gateway(r) THEN fresh ELSE {},
         pool    |-> plan.pool \cup IF DNSOnly(r) THEN fresh \X {r.pool} ELSE {}]

buildPlan(norm) ==
    LET plan[k \in 0 .. Len(norm)] ==
            IF k = 0 THEN NoPlan ELSE addDomainRule(plan[k - 1], norm[k])
    IN  plan[Len(norm)]

=============================================================================
