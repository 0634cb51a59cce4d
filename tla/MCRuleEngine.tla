---------------------------- MODULE MCRuleEngine ----------------------------
(***************************************************************************)
(* RuleEngine on 4-bit IPv4 addresses and IPv6 addresses of two 2-bit      *)
(* groups: every address, every shift and every block size is covered.     *)
(***************************************************************************)
EXTENDS RuleEngine

MCTable4 == << [base |-> 0, prefix |-> 4], [base |-> 2, prefix |-> 3],
               [base |-> 4, prefix |-> 2], [base |-> 4, prefix |-> 4],
               [base |-> 15, prefix |-> 4] >>
MCTable6 == << [groups |-> <<0, 2>>, prefix |-> 4], [groups |-> <<1, 0>>, prefix |-> 2],
               [groups |-> <<2, 2>>, prefix |-> 3] >>

MCLabels == {"a", "b", "cn", "com", "w", "www", "x", "y", "z"}
MCDomains == {<<"a", "com">>, <<"www", "a", "com">>, <<"b", "com", "cn">>,
              <<"x", "b", "com", "cn">>, <<"com">>}
MCMultiLabelCn == {<<"com", "cn">>}

HostLine(type, param, tgt) == [type |-> type, param |-> param, prefix |-> 0, target |-> tgt]
IpLine(type, base, prefix, tgt) == [type |-> type, param |-> base, prefix |-> prefix, target |-> tgt]

MCLines == {
    HostLine("DOMAIN", <<"a", "com">>, "REJECT"),
    HostLine("DOMAIN-SUFFIX", <<"com">>, "PROXY"),
    HostLine("DOMAIN-KEYWORD", <<"b">>, "DIRECT"),
    HostLine("DOMAIN-SUFFIX", <<"com">>, "GROUP"),
    HostLine("GEOIP", <<"cn">>, "DIRECT"),
    HostLine("MATCH", <<>>, "PROXY"),
    IpLine("IP-CIDR", 5, 2, "REJECT_DROP"),
    IpLine("IP-CIDR", 6, 0, "PROXY"),
    IpLine("IP-CIDR", 9, 4, "DIRECT"),
    IpLine("IP-CIDR6", <<1, 3>>, 3, "REJECT"),
    IpLine("IP-CIDR6", <<0, 1>>, 1, "DIRECT") }

MCTargets ==
    {[kind |-> "ip4", is |-> n] : n \in Addresses4}
    \cup {[kind |-> "ip6", is |-> g] : g \in Addresses6}
    \cup {[kind |-> "host", is |-> h] :
            h \in {<<"a", "com">>, <<"w", "a", "com">>, <<"y", "www", "a", "com">>, <<"b", "com", "cn">>,
                   <<"cn">>, <<"com">>, <<"z", "com", "cn">>}}
=============================================================================
