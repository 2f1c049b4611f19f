-------------------------- MODULE MCRuleResolution --------------------------
(* The names com, example.com and www.example.com, a keyword, and files of *)
(* up to three rules and imports.                                          *)
EXTENDS RuleResolution, TLC

CONSTANTS com, example, www, net, cn, list

com1 == <<com>>
com2 == <<com, example>>
com3 == <<com, example, www>>

MCLabels == {com, example, www, net}
MCHosts == {com1, com2, com3, <<net>>, <<Dot, com, example>>}

(* domain, suffix and pattern of a rule; suffixes may begin with a dot,      *)
(* and a lone dot names nothing.                                           *)
Matchers ==
    { <<{com1}, {}, {}>>, <<{com2}, {}, {}>>, <<{<<Dot>>}, {}, {}>>,
      <<{}, {com1}, {}>>, <<{}, {com2 \o <<Dot>>}, {}>>,
      <<{}, {}, {{com2, com3}}>>,
      <<{com1}, {com3}, {}>>, <<{}, {com3}, {{com1}}>> }

Body(m, p) == [name |-> <<0, 0>>, pool |-> p, domain |-> m[1], suffix |-> m[2], pattern |-> m[3]]

(* A default rule's number is not looked at.                               *)
Places == {<<0, FALSE>>, <<1, FALSE>>, <<2, FALSE>>, <<1, TRUE>>}

MCLocalRules ==
    {[priority |-> w[1], defaulted |-> w[2], rule |-> Body(m, p)] :
        w \in Places, m \in Matchers, p \in {NoPool, cn}}

MCImports ==
    {[priority |-> 0, defaulted |-> FALSE, pool |-> NoPool, url |-> list,
      rules |-> <<Body(<<{}, {com2}, {}>>, NoPool)>>]}
    \cup
    {[priority |-> w[1], defaulted |-> w[2], pool |-> p, url |-> NoUrl,
      rules |-> <<Body(m[1], NoPool), Body(m[2], NoPool)>>] :
        w \in Places, p \in {NoPool, cn},
        m \in { <<<<{}, {com1}, {{com3}}>>, <<{com2}, {}, {}>>>>,
                <<<<{}, {}, {{com3}}>>, <<{}, {com3, com2}, {}>>>> }}

=============================================================================
