---------------------------- MODULE NetworkPolicy ----------------------------
(***************************************************************************)
(* policy/url-policy.ts: which hosts and addresses a destination may have. *)
(* An IPv4 address is its four octets, an IPv6 address its eight groups of *)
(* 16 bits, a host the sequence of its characters.                         *)
(***************************************************************************)
EXTENDS PureInput, FiniteSets, SequencesExt

CONSTANTS
    Octets,       \* octets at and around the edges of the ranges
    Groups,       \* 16-bit groups likewise
    HostLength    \* the longest host

-----------------------------------------------------------------------------
(* Addresses *)

MetadataIpv4 == {<<169, 254, 169, 254>>, <<169, 254, 170, 2>>, <<169, 254, 170, 23>>,
                 <<100, 100, 100, 200>>, <<168, 63, 129, 16>>}

ClassifyIpv4(a) ==
    IF a \in MetadataIpv4 THEN "metadata"
    ELSE IF a[1] = 127 THEN "loopback"
    ELSE IF a[1] = 10 \/ (a[1] = 172 /\ a[2] >= 16 /\ a[2] <= 31) \/ (a[1] = 192 /\ a[2] = 168) THEN "private"
    ELSE IF a[1] = 169 /\ a[2] = 254 THEN "link-local"
    ELSE IF a[1] >= 224 THEN (IF a[1] >= 240 THEN "reserved" ELSE "multicast")
    ELSE IF \/ a[1] = 0
            \/ a[1] = 100 /\ a[2] >= 64 /\ a[2] <= 127
            \/ a[1] = 192 /\ a[2] = 0 /\ a[3] \in {0, 2}
            \/ a[1] = 192 /\ a[2] = 88 /\ a[3] = 99
            \/ a[1] = 198 /\ a[2] >= 18 /\ a[2] <= 19
            \/ a[1] = 198 /\ a[2] = 51 /\ a[3] = 100
            \/ a[1] = 203 /\ a[2] = 0 /\ a[3] = 113 THEN "reserved"
    ELSE "public"

\* Mutant: the bits of a group that is only partly in the prefix are all compared.
HasPrefixWhole(groups, prefix, bits) ==
    \A i \in 1..((bits + 15) \div 16) :
        groups[i] = (IF i <= Len(prefix) THEN prefix[i] ELSE 0)

\* hasIpv6Prefix: group by group, the last one under a mask.
HasPrefix(groups, prefix, bits) ==
    \A i \in 1..((bits + 15) \div 16) :
        LET take == IF bits - 16 * (i - 1) > 16 THEN 16 ELSE bits - 16 * (i - 1)
            expected == IF i <= Len(prefix) THEN prefix[i] ELSE 0 IN
        groups[i] \div 2^(16 - take) = expected \div 2^(16 - take)

\* The ranges of classifyAddress, first match first.
Ipv6Ranges ==
    <<[prefix |-> <<64512>>, bits |-> 7, reason |-> "private"],
      [prefix |-> <<65152>>, bits |-> 10, reason |-> "link-local"],
      [prefix |-> <<65280>>, bits |-> 8, reason |-> "multicast"],
      [prefix |-> <<8193, 3512>>, bits |-> 32, reason |-> "reserved"],
      [prefix |-> <<8193, 0>>, bits |-> 32, reason |-> "reserved"],
      [prefix |-> <<8193, 2, 0>>, bits |-> 48, reason |-> "reserved"],
      [prefix |-> <<256, 0>>, bits |-> 32, reason |-> "reserved"],
      [prefix |-> << >>, bits |-> 96, reason |-> "reserved"]>>

ToIpv4(groups) == <<groups[7] \div 256, groups[7] % 256, groups[8] \div 256, groups[8] % 256>>

ClassifyIpv6(groups) ==
    LET zeros(n) == \A i \in 1..n : groups[i] = 0
        hits == {i \in DOMAIN Ipv6Ranges : HasPrefix(groups, Ipv6Ranges[i].prefix, Ipv6Ranges[i].bits)} IN
    IF zeros(5) /\ groups[6] = 65535 THEN ClassifyIpv4(ToIpv4(groups))
    ELSE IF groups \in {<<64768, 3778, 0, 0, 0, 0, 0, 596>>, <<65152, 0, 0, 0, 0, 0, 43518, 43518>>} THEN "metadata"
    ELSE IF zeros(7) /\ groups[8] = 1 THEN "loopback"
    ELSE IF hits = {} THEN "public"
    ELSE Ipv6Ranges[CHOOSE i \in hits : \A j \in hits : i <= j].reason

-----------------------------------------------------------------------------
(* Hosts: a rule is an exact name, or *. and the name one label above. *)

EndsWith(s, t) == Len(t) <= Len(s) /\ SubSeq(s, Len(s) - Len(t) + 1, Len(s)) = t
Labels(host) == 1 + Cardinality({i \in DOMAIN host : host[i] = "."})

MatchesRule(host, rule) ==
    IF rule.wildcard
    THEN /\ host # rule.name
         /\ EndsWith(host, <<".">> \o rule.name)
         /\ Labels(host) = Labels(rule.name) + 1
    ELSE host = rule.name

-----------------------------------------------------------------------------
\* The characters of a host make labels that are not empty (normalizeHost).
IsHost(s) == /\ s # << >> /\ s[1] # "." /\ s[Len(s)] # "."
             /\ \A i \in 1..(Len(s) - 1) : ~(s[i] = "." /\ s[i + 1] = ".")
HostNames == {s \in BoundedSeq({"a", "b", "."}, HostLength) : IsHost(s)}
\* A wildcard stands before a name of two labels at least (normalizeHostPattern).
Rules == {r \in [wildcard : BOOLEAN, name : {s \in HostNames : Len(s) <= 4}] :
             r.wildcard => Labels(r.name) >= 2}

NetworkGiven ==
    \/ Given("ipv4", Octets \X Octets \X {0, 1, 2, 3, 99, 100, 113, 129} \X {16})
    \/ Given("ipv6", {<<a, b, c, 0, 0, d, e, f>> : a \in Groups, b \in {0, 2, 3512, 3778}, c \in {0, 1},
                      d \in {0, 65535}, e \in {0, 43518, 49320}, f \in {0, 1, 596, 43518}})
    \/ Given("host", [host : HostNames, rule : Rules])
NetworkAnswers ==
    \/ Answers("ipv4", ClassifyIpv4(input.value))
    \/ Answers("ipv6", ClassifyIpv6(input.value))
    \/ Answers("host", MatchesRule(input.value.host, input.value.rule))

\* The special-purpose blocks in prefix notation, as <<octets, bits>>.
Ipv4Blocks ==
    {<<<<10, 0, 0, 0>>, 8>>, <<<<172, 16, 0, 0>>, 12>>, <<<<192, 168, 0, 0>>, 16>>, <<<<127, 0, 0, 0>>, 8>>,
     <<<<169, 254, 0, 0>>, 16>>, <<<<224, 0, 0, 0>>, 3>>, <<<<0, 0, 0, 0>>, 8>>, <<<<100, 64, 0, 0>>, 10>>,
     <<<<192, 0, 0, 0>>, 24>>, <<<<192, 0, 2, 0>>, 24>>, <<<<192, 88, 99, 0>>, 24>>, <<<<198, 18, 0, 0>>, 15>>,
     <<<<198, 51, 100, 0>>, 24>>, <<<<203, 0, 113, 0>>, 24>>, <<<<168, 63, 129, 16>>, 32>>}
InBlock(a, block) ==
    \A i \in 1..4 :
        LET take == IF block[2] >= 8 * i THEN 8 ELSE IF block[2] > 8 * (i - 1) THEN block[2] - 8 * (i - 1) ELSE 0 IN
        a[i] \div 2^(8 - take) = block[1][i] \div 2^(8 - take)

\* The comparisons of octets denote the published special-purpose blocks, at every edge.
Ipv4BlocksExact ==
    Evaluated("ipv4") => (answer[1] # "public" <=> \E block \in Ipv4Blocks : InBlock(input.value, block))

BitOf(group, b) == (group \div 2^(15 - b)) % 2
SharesBits(groups, range) ==
    \A b \in 0..(range.bits - 1) :
        BitOf(groups[(b \div 16) + 1], b % 16) =
            (IF (b \div 16) + 1 <= Len(range.prefix) THEN BitOf(range.prefix[(b \div 16) + 1], b % 16) ELSE 0)

\* The masked comparison of groups is the comparison of the first bits of the address,
\* and an address that carries an IPv4 address is judged as that address.
Ipv6PrefixExact ==
    Evaluated("ipv6") =>
       IF SubSeq(input.value, 1, 6) = <<0, 0, 0, 0, 0, 65535>> THEN answer[1] = ClassifyIpv4(ToIpv4(input.value))
       ELSE answer[1] = "public" <=> \A i \in DOMAIN Ipv6Ranges : ~SharesBits(input.value, Ipv6Ranges[i])

\* Comparing suffixes of characters and counting dots is comparing labels: a wildcard
\* takes exactly one more label, and never part of one.
WildcardIsOneLabel ==
    Evaluated("host") =>
       LET h == input.value.host
           r == input.value.rule
           under == \E i \in DOMAIN h : /\ h[i] = "." /\ SubSeq(h, i + 1, Len(h)) = r.name
                                        /\ \A j \in 1..(i - 1) : h[j] # "." IN
       answer[1] = IF r.wildcard THEN under ELSE h = r.name

\* Addresses and hosts are classified by their definition, at every edge of every
\* block, prefix and label.
RulesExact == Ipv4BlocksExact /\ Ipv6PrefixExact /\ WildcardIsOneLabel
=============================================================================
