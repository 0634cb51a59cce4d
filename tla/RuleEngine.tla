----------------------------- MODULE RuleEngine -----------------------------
(***************************************************************************)
(* lib/core/rules.js: how one target is decided direct, proxy or reject by *)
(* the user's rules, the subscription's rules and the embedded CN tables,  *)
(* and the part of scripts/build-cn-data.mjs that makes the suffix table.  *)
(*                                                                         *)
(* A host name is the sequence of its labels.  An address is a number of   *)
(* Width bits (IPv4) or a sequence of Groups numbers of GroupBits bits     *)
(* (IPv6).  A rule line is a record of what compileRule reads from it.     *)
(***************************************************************************)
EXTENDS Naturals, Sequences, SequencesExt

CONSTANTS
    Width, Groups, GroupBits,   \* 32, 8 and 16 in the code
    CnTable4, CnTable6,         \* CN_CIDRS4 and CN_CIDRS6, as loaded
    Labels,                     \* what names are made of
    Domains,                    \* the names an upstream CN list may hold
    MultiLabelCn,               \* MULTI_LABEL_CN
    Lines,                      \* the rule lines in use
    Targets,                    \* the targets in use
    MaxExtra, MaxSubscription   \* bounds on the number of lines

ASSUME WidthsAssumption == Width \in Nat /\ Groups \in Nat \ {0} /\ GroupBits \in Nat \ {0}

\* A block of addresses with n bits free has 2 ^ n of them.
BlockSize[n \in 0 .. (Width + Groups * GroupBits)] ==
    IF n = 0 THEN 1 ELSE 2 * BlockSize[n - 1]

Addresses4 == 0 .. (BlockSize[Width] - 1)
Addresses6 == [1 .. Groups -> 0 .. (BlockSize[GroupBits] - 1)]

\* Rows are sorted by base, as packCidrs writes them, and start where their
\* block does, as every row of cn-cidrs.json.gz does.
ASSUME Table4Assumption ==
    /\ CnTable4 \in Seq([base : Addresses4, prefix : 0 .. Width])
    /\ \A i \in DOMAIN CnTable4 :
          CnTable4[i].base % BlockSize[Width - CnTable4[i].prefix] = 0
    /\ \A i, j \in DOMAIN CnTable4 : i < j => CnTable4[i].base <= CnTable4[j].base

ASSUME NamesAssumption == Domains \subseteq Seq(Labels)

\* compileRule checks only that a prefix is an integer: lines beyond the width are
\* not modelled.
ASSUME LinesAssumption ==
    \A line \in Lines :
        /\ line.type = "IP-CIDR" => line.param \in Addresses4 /\ line.prefix \in 0 .. Width
        /\ line.type = "IP-CIDR6" =>
              line.param \in Addresses6 /\ line.prefix \in 0 .. (Groups * GroupBits)

ASSUME TargetsAssumption ==
    \A t \in Targets :
        /\ t.kind \in {"host", "ip4", "ip6"}
        /\ t.kind = "host" => t.is \in Seq(Labels)
        /\ t.kind = "ip4" => t.is \in Addresses4
        /\ t.kind = "ip6" => t.is \in Addresses6

VARIABLES
    extra, subscription,    \* extraRules and the subscription's rules
    excluded,               \* the lines some excludeRules entry occurs in
    listed,                 \* the upstream list the suffix table was built from
    target, verdict         \* the host asked about, and decide()'s answer

vars == <<extra, subscription, excluded, listed, target, verdict>>

-----------------------------------------------------------------------------
(* The suffix table.                                                       *)

\* host === suffix || host.endsWith("." + suffix)
Under(host, suffix) == IsSuffix(suffix, host)

LastLabels(name, n) == SubSeq(name, Len(name) - n + 1, Len(name))

\* The two last labels, three under a multi-label CN domain.
Compact(name) ==
    IF LastLabels(name, 2) \in MultiLabelCn /\ Len(name) >= 3
    THEN LastLabels(name, 3) ELSE LastLabels(name, 2)

\* Longer entries are dropped when a shorter one that stays covers them.
ExtractSuffixes(names) ==
    LET suffixes == {Compact(name) : name \in {n \in names : Len(n) >= 2}}
    IN  {s \in suffixes : ~\E t \in suffixes \ {s} : Under(s, t)}

\* Mutant: the walk over the dots starts at the second one.
CnHostPastFirstDot(host, suffixes) ==
    \/ host \in suffixes
    \/ Len(host) > 1 /\ Last(host) = "cn"
    \/ \E dot \in 2 .. (Len(host) - 1) : SubSeq(host, dot + 1, Len(host)) \in suffixes

\* CN_SUFFIXES.has(host), then every part of host after a dot; ".cn" always.
CnHost(host, suffixes) ==
    \/ host \in suffixes
    \/ Len(host) > 1 /\ Last(host) = "cn"
    \/ \E dot \in 1 .. (Len(host) - 1) : SubSeq(host, dot + 1, Len(host)) \in suffixes

-----------------------------------------------------------------------------
(* The CIDR tables.                                                        *)

\* x & ((-1 << (Width - prefix)) >>> 0).  A shift by the whole width would be
\* a shift by none, hence the case of prefix 0.
Masked(x, prefix) ==
    IF prefix = 0 THEN 0 ELSE x - (x % BlockSize[Width - prefix])

SameNetwork4(x, base, prefix) == Masked(x, prefix) = Masked(base, prefix)

\* Mutant: the early exit also gives up on the row that starts at ip.
InCnCidr4Strict(ip) ==
    \E i \in DOMAIN CnTable4 :
        /\ SameNetwork4(ip, CnTable4[i].base, CnTable4[i].prefix)
        /\ \A j \in 1 .. i : CnTable4[j].base < ip

\* The scan stops at the first row whose base is beyond ip.
InCnCidr4(ip) ==
    \E i \in DOMAIN CnTable4 :
        /\ SameNetwork4(ip, CnTable4[i].base, CnTable4[i].prefix)
        /\ \A j \in 1 .. i : CnTable4[j].base <= ip

Bit(groups, bit) ==
    (groups[bit \div GroupBits + 1] \div BlockSize[GroupBits - 1 - (bit % GroupBits)]) % 2

SameNetwork6(x, network, prefix) ==
    \A bit \in 0 .. (prefix - 1) : Bit(x, bit) = Bit(network, bit)

\* The first group that differs decides which comes first.
Before(x, y) ==
    \E i \in 1 .. Groups : x[i] < y[i] /\ \A j \in 1 .. (i - 1) : x[j] = y[j]

\* The scan goes past every row that is not equal in all groups.
InCnCidr6(groups) ==
    \E i \in DOMAIN CnTable6 :
        /\ groups = CnTable6[i].groups
        /\ SameNetwork6(groups, CnTable6[i].groups, CnTable6[i].prefix)
        /\ \A j \in 1 .. i : ~Before(groups, CnTable6[j].groups)

-----------------------------------------------------------------------------
(* Rules.                                                                  *)

HostTypes == {"DOMAIN", "DOMAIN-SUFFIX", "DOMAIN-KEYWORD", "MATCH"}

\* The targets a rule may have, REJECT_DROP for REJECT-DROP, and their actions.
Actions   == [DIRECT |-> "direct", PROXY |-> "proxy", REJECT |-> "reject",
              REJECT_DROP |-> "reject"]

\* compileRule(line) # null.  The target is the last part of the line, so one
\* that ends in ",no-resolve" does not compile; nor does a GEOIP line.
Compiles(line) ==
    /\ line.target \in DOMAIN Actions
    /\ line.type \in HostTypes \cup {"IP-CIDR", "IP-CIDR6"}

MatchesHost(line, host) ==
    CASE line.type = "DOMAIN"         -> host = line.param
      [] line.type = "DOMAIN-SUFFIX"  -> Under(host, line.param)
      [] line.type = "DOMAIN-KEYWORD" ->
            \E i, j \in 1 .. Len(host) : SubSeq(host, i, j) = line.param
      [] line.type = "MATCH"          -> TRUE

Matches(line, t) ==
    CASE t.kind = "host" -> line.type \in HostTypes /\ MatchesHost(line, t.is)
      [] t.kind = "ip4"  -> line.type = "IP-CIDR" /\ SameNetwork4(t.is, line.param, line.prefix)
      [] t.kind = "ip6"  -> line.type = "IP-CIDR6" /\ SameNetwork6(t.is, line.param, line.prefix)

\* The constructor: user rules first, then the subscription's.
Composed == extra \o subscription

\* Mutant: excludeRules drops the user's rules too.
DroppedAnywhere(i) == Composed[i] \in excluded

\* excludeRules drops rules of the subscription.
Dropped(i) == i > Len(extra) /\ Composed[i] \in excluded

\* The action of the first compiled rule of the target's family that matches.
FirstMatch(t) ==
    LET matching == {i \in DOMAIN Composed : /\ ~Dropped(i) /\ Compiles(Composed[i])
                                             /\ Matches(Composed[i], t)}
        first    == CHOOSE i \in matching : \A j \in matching : i <= j
    IN  IF matching = {} THEN "none" ELSE Actions[Composed[first].target]

InCnTables(t) ==
    CASE t.kind = "host" -> CnHost(t.is, ExtractSuffixes(listed))
      [] t.kind = "ip4"  -> InCnCidr4(t.is)
      [] t.kind = "ip6"  -> InCnCidr6(t.is)

Decision(t) ==
    IF FirstMatch(t) # "none" THEN FirstMatch(t)
    ELSE IF InCnTables(t) THEN "direct" ELSE "proxy"

-----------------------------------------------------------------------------

\* excludeRules is a list of substrings: here none, or ",PROXY".
Init ==
    /\ target \in Targets
    /\ extra \in BoundedSeq(Lines, MaxExtra)
    /\ subscription \in BoundedSeq(Lines, MaxSubscription)
    /\ excluded \in {{}, {line \in Lines : line.target = "PROXY"}}
    /\ listed \in (IF target.kind = "host" THEN SUBSET Domains ELSE {{}})
    /\ verdict = "none"

Decide ==
    /\ verdict = "none"
    /\ verdict' = Decision(target)
    /\ UNCHANGED <<extra, subscription, excluded, listed, target>>

Next == Decide

Spec == Init /\ [][Next]_vars

-----------------------------------------------------------------------------
(* Properties: the decision against definitions that do not scan, shift or *)
(* mask.                                                                   *)

\* x is one of the 2^(Width - prefix) addresses of the block base is in.
Contains4(base, prefix, x) ==
    LET size == BlockSize[Width - prefix] IN base \div size = x \div size

\* The number that the first groups of an address write.
AsNumber(groups) ==
    LET upTo[g \in 0 .. Groups] ==
            IF g = 0 THEN 0 ELSE upTo[g - 1] * BlockSize[GroupBits] + groups[g]
    IN  upTo[Groups]

Contains6(base, prefix, x) ==
    LET size == BlockSize[Groups * GroupBits - prefix]
    IN  AsNumber(base) \div size = AsNumber(x) \div size

InRule(line, t) ==
    \/ line.type = "IP-CIDR" /\ t.kind = "ip4" /\ Contains4(line.param, line.prefix, t.is)
    \/ line.type = "IP-CIDR6" /\ t.kind = "ip6" /\ Contains6(line.param, line.prefix, t.is)
    \/ t.kind = "host" /\ line.type \in HostTypes /\ MatchesHost(line, t.is)

\* The user's rules decide whatever they cover: a later rule, the subscription
\* and the CN tables are asked only about targets no extra rule covers, and a
\* covered address is one inside the rule's block.
ExtraRulesWin ==
    verdict # "none" =>
        \A i \in DOMAIN extra :
            /\ Compiles(extra[i]) /\ InRule(extra[i], target)
            /\ \A j \in 1 .. (i - 1) : ~(Compiles(extra[j]) /\ InRule(extra[j], target))
            => verdict = Actions[extra[i].target]

NoRuleCovers(t) ==
    \A line \in ToSet(extra) \cup (ToSet(subscription) \ excluded) :
        ~(Compiles(line) /\ InRule(line, t))

\* An IPv4 address no rule covers is direct exactly if a row of the embedded
\* table contains it: the sorted scan gives up no row too early.
Cn4Complete ==
    verdict # "none" /\ target.kind = "ip4" /\ NoRuleCovers(target) =>
        (verdict = "direct") <=>
            \E i \in DOMAIN CnTable4 : Contains4(CnTable4[i].base, CnTable4[i].prefix, target.is)

\* A host no rule covers is direct if the upstream list holds it or a domain it
\* is under: compacting the list and dropping covered suffixes loses nothing.
ListedHostsDirect ==
    verdict # "none" /\ target.kind = "host" /\ NoRuleCovers(target) =>
        \A name \in listed : Len(name) >= 2 /\ Under(target.is, name) => verdict = "direct"

\* rules.js:91 says of inCnCidr6: "True when the IPv6 groups fall inside any
\* embedded CN CIDR".
Cn6Complete ==
    verdict # "none" /\ target.kind = "ip6" /\ NoRuleCovers(target) =>
        \A i \in DOMAIN CnTable6 :
            Contains6(CnTable6[i].groups, CnTable6[i].prefix, target.is) => verdict = "direct"

=============================================================================
