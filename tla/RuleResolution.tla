---------------------------- MODULE RuleResolution ----------------------------
(***************************************************************************)
(* From the rules an administrator edits to the one list that decides:     *)
(* Resolver.Normalize (internal/rules/resolver.go) fetches the imports     *)
(* concurrently and puts all rules in order; DomainMatcher says what the   *)
(* gateways and smartdns make of the list, HAProxyRules what HAProxy does. *)
(***************************************************************************)
EXTENDS HAProxyRules, ImportCache, FiniteSets, SequencesExt

CONSTANTS
    LocalRules,         \* what an administrator writes: [priority, defaulted, rule]
    Imports,            \* [priority, defaulted, pool, url, rules], rules as downloaded
    Hosts,              \* names clients ask for
    MaxSources          \* bound: rules and imports of a file

(* What decoding a file and validateRule leave.                            *)
ASSUME SourcesAssumption ==
    /\ LocalRules \subseteq [priority : Nat, defaulted : BOOLEAN, rule : Rule]
    /\ Imports \subseteq [priority : Nat, defaulted : BOOLEAN, pool : Pools \cup {NoPool},
                          url : Urls \cup {NoUrl}, rules : Seq(Rule)]

VARIABLES
    file,               \* [rules, imports]
    stage,              \* "edit", "fetch", "done", "failed"
    results,            \* what each import's goroutine has sent: 0 nothing yet,
                        \* Failed, or the import whose body it is
    norm                \* Normalized.Rules

vars == <<file, stage, results, norm, cacheVars>>

Size == Len(file.rules) + Len(file.imports)

Init ==
    /\ file = [rules |-> <<>>, imports |-> <<>>]
    /\ stage = "edit" /\ results = <<>> /\ norm = <<>>
    /\ CacheInit

-----------------------------------------------------------------------------
(* validateRule refuses a rule without matchers.                           *)
AddRule(r) ==
    /\ stage = "edit" /\ Size < MaxSources
    /\ ~Empty(r.rule)
    /\ file' = [file EXCEPT !.rules = Append(@, r)]
    /\ UNCHANGED <<stage, results, norm, cacheVars>>

AddImport(m) ==
    /\ stage = "edit" /\ Size < MaxSources
    /\ file' = [file EXCEPT !.imports = Append(@, m)]
    /\ UNCHANGED <<stage, results, norm, cacheVars>>

(* One goroutine per import.                                               *)
Fetch ==
    /\ stage = "edit" /\ Size > 0
    /\ stage' = "fetch"
    /\ results' = [i \in DOMAIN file.imports |-> 0]
    /\ BeginReads([i \in DOMAIN file.imports |-> file.imports[i].url])
    /\ UNCHANGED <<file, norm>>

Reading ==
    /\ stage = "fetch" /\ CacheStep
    /\ UNCHANGED <<file, stage, results, norm>>

(* Mutant: results are kept in the order in which they arrive.             *)
ReceiveNext(i) ==
    /\ stage = "fetch" /\ i \notin Range(results) /\ reads[i].at \in {"path", "returned"}
    /\ \E slot \in DOMAIN results :
          /\ results[slot] = 0 /\ \A s \in 1 .. slot - 1 : results[s] # 0
          /\ results' = [results EXCEPT ![slot] = i]
    /\ UNCHANGED <<file, stage, norm, cacheVars>>

(* A body arrives, in any order, and is kept under its import's index.     *)
Receive(i) ==
    /\ stage = "fetch" /\ results[i] = 0 /\ reads[i].at \in {"path", "returned"}
    /\ results' = [results EXCEPT ![i] = i]
    /\ UNCHANGED <<file, stage, norm, cacheVars>>

Failed == -1

(* A download or a body that cannot be read is an answer, too.             *)
FetchFails(i) ==
    /\ stage = "fetch" /\ results[i] = 0 /\ reads[i].at \in {"path", "returned", "failed"}
    /\ results' = [results EXCEPT ![i] = Failed]
    /\ UNCHANGED <<file, stage, norm, cacheVars>>

-----------------------------------------------------------------------------
(* parseSingBox and parseMihomo: matchers smartdns cannot represent are    *)
(* stripped, rules with nothing left are dropped.                          *)
Stripped(m, place) ==
    [j \in DOMAIN m.rules |->
        [m.rules[j] EXCEPT !.pattern = {}, !.name = <<place, j>>, !.pool = m.pool]]

Parsed(m, place) ==
    LET all == Stripped(m, place)
    IN  Filter(all, {j \in DOMAIN all : ~Empty(all[j])})

(* normalizedSource; place stands for the name a source has.               *)
LocalSource(i) ==
    [priority |-> file.rules[i].priority, defaulted |-> file.rules[i].defaulted,
     index |-> i, rules |-> <<[file.rules[i].rule EXCEPT !.name = <<i, 1>>]>>]

ImportSource(i) ==
    LET m == file.imports[i]
        body == file.imports[results[i]]
        index == Len(file.rules) + i
    IN  [priority |-> m.priority, defaulted |-> m.defaulted, index |-> index,
         rules |-> Parsed([body EXCEPT !.pool = m.pool], Len(file.rules) + results[i])]

Sources ==
    [i \in DOMAIN file.rules |-> LocalSource(i)]
        \o [i \in DOMAIN file.imports |-> ImportSource(i)]

(* Mutant: a rule without a priority comes first.                          *)
LessByNumber(left, right) ==
    IF left.defaulted # right.defaulted THEN ~left.defaulted
    ELSE IF left.defaulted \/ left.priority = right.priority
         THEN left.index < right.index
    ELSE left.priority < right.priority

(* The comparison of sortNormalizedSources.                                *)
Less(left, right) ==
    IF left.defaulted # right.defaulted THEN ~left.defaulted
    ELSE IF left.defaulted \/ left.priority = right.priority
         THEN left.index < right.index
    ELSE left.priority # 0 /\ (right.priority = 0 \/ left.priority < right.priority)

(* Every source once, each before those it is Less than.                   *)
Sorted(sources) ==
    LET all == DOMAIN sources
        order == CHOOSE p \in [all -> all] :
                    /\ Range(p) = all
                    /\ \A i, j \in all : i < j => Less(sources[p[i]], sources[p[j]])
    IN  [i \in all |-> sources[order[i]]]

Resolved ==
    LET sorted == Sorted(Sources)
    IN  FlattenSeq([i \in DOMAIN sorted |-> sorted[i].rules])

(* Once every import has answered; one that failed fails them all.         *)
Normalize ==
    /\ stage = "fetch" /\ 0 \notin Range(results)
    /\ IF Failed \in Range(results)
       THEN stage' = "failed" /\ norm' = norm
       ELSE stage' = "done" /\ norm' = Resolved
    /\ UNCHANGED <<file, results, cacheVars>>

Next ==
    \/ \E r \in LocalRules : AddRule(r)
    \/ \E m \in Imports : AddImport(m)
    \/ Fetch \/ Reading \/ Normalize
    \/ \E i \in DOMAIN results : Receive(i) \/ FetchFails(i)

Spec == Init /\ [][Next]_vars

-----------------------------------------------------------------------------
(* README.md:106, custom rules match before the defaults, each in the      *)
(* order the page shows: by its number, those without one after them.      *)
Entries ==
    {[place |-> i, priority |-> file.rules[i].priority,
      defaulted |-> file.rules[i].defaulted] : i \in DOMAIN file.rules}
    \cup {[place |-> Len(file.rules) + i, priority |-> file.imports[i].priority,
           defaulted |-> file.imports[i].defaulted] : i \in DOMAIN file.imports}

Ahead(a, b) ==
    \/ ~a.defaulted /\ b.defaulted
    \/ ~a.defaulted /\ ~b.defaulted /\ a.priority > 0
         /\ (b.priority = 0 \/ a.priority < b.priority)
    \/ /\ a.defaulted = b.defaulted /\ (a.defaulted \/ a.priority = b.priority)
       /\ a.place < b.place

(* The rules of an entry as the administrator sees them.                   *)
AsWritten(e) ==
    IF e.place <= Len(file.rules) THEN <<file.rules[e.place].rule>>
    ELSE Stripped(file.imports[e.place - Len(file.rules)], e.place)

Plain(n) == Dot \notin Range(n)

PlainHosts == {h \in Hosts : Plain(h)}

(* Everything a name can come in by takes the first rule that matches, in  *)
(* the order of the page and in whatever order the downloads end: the      *)
(* sort, the table, the trie and the early break of the compiled matcher   *)
(* together do what the linear search over the file would, and so do the   *)
(* lists HAProxy is given, of names that are written without outer dots.   *)
FirstRuleWins ==
    stage = "done" /\ ~CompileFails(norm) =>
        LET c == Compile(norm)
            plain == \A r \in Range(c.rules) : \A v \in r.domain \cup r.suffix : Plain(v)
        IN  \A h \in Hosts :
            LET k == MatchGatewayDomain(c, h)
                owners == {o \in UNION {{e} \X DOMAIN AsWritten(e) : e \in Entries} :
                              LET r == AsWritten(o[1])[o[2]]
                              IN  Gateway(r) /\ matchRuleDomain(r, DropTrailingDot(h))}
            IN  /\ IF owners = {} THEN k = 0
                   ELSE \E o \in owners :
                           /\ c.rules[k].name = <<o[1].place, o[2]>>
                           /\ \A p \in owners \ {o} :
                                 Ahead(o[1], p[1]) \/ (o[1] = p[1] /\ o[2] < p[2])
                /\ plain /\ h \in PlainHosts => UseBackend(c.rules, h) = k

(* README.md:5, 5gws chooses the exit by the rules and brings the TCP and  *)
(* QUIC traffic of the gateway to that exit: HAProxy, which takes TCP 80   *)
(* and 443, and the gateways send a name to the exit of the same rule.     *)
OneExitForAName ==
    stage = "done" /\ ~CompileFails(norm) =>
        LET c == Compile(norm)
        IN  \A h \in PlainHosts : UseBackend(c.rules, h) = MatchGatewayDomain(c, h)

(* smartdns and the gateways agree: a name goes where the first rule that  *)
(* names it sends it, to one place only, and a name that is sent to the    *)
(* gateway is matched there, by that rule or one ahead of it.              *)
PlanAgrees ==
    stage = "done" /\ ~PlanFails(norm) /\ ~CompileFails(norm) =>
        LET plan == buildPlan(norm)
            c == Compile(norm)
            first(n) == Least({k \in DOMAIN norm : n \in Named(norm[k])})
        IN  \A n \in UNION {Named(norm[k]) : k \in DOMAIN norm} :
                /\ n \in plan.gateway <=> Gateway(norm[first(n)])
                /\ {p \in Pools : <<n, p>> \in plan.pool} = {norm[first(n)].pool} \ {NoPool}
                /\ n \in plan.gateway =>
                      LET k == MatchGatewayDomain(c, n)
                      IN  k # 0 /\ \E i \in 1 .. first(n) : norm[i].name = c.rules[k].name

=============================================================================
