----------------------------- MODULE MCAlgorithms -----------------------------
(***************************************************************************)
(* TLC instance of Algorithms: all inputs of a small set for each.         *)
(***************************************************************************)
EXTENDS Algorithms, TLC

\* Texts of up to four characters.  A line is one that load_tag_files accepts; a
\* name as it comes off the wire has no empty label.
MCChar == {"a", "b", Dot, Plus}
Texts(n) == UNION {[1 .. k -> MCChar] : k \in 1 .. n}
Lines == {t \in Texts(3) : Normalize(t) # <<>> /\ Normalize(Normalize(t)) # <<>>}
Names == {t \in Texts(4) : /\ t[1] # Dot /\ Normalize(t) # <<>>
                           /\ \A i \in 1 .. Len(t) - 1 : ~(t[i] = Dot /\ t[i + 1] = Dot)}
MCTagCases ==
  {[files |-> "t1" :> {line} @@ "t2" :> {<<"a">>}, name |-> name, alias |-> <<"a">>,
    request |-> {"r"}] : line \in Lines, name \in Names}

\* All ways three groups can refer to each other and to an upstream; two groups,
\* an upstream, a default and a rule with names that are free, taken or unknown.
Group(n, targets) == [name |-> n, targets |-> SetToSeq(targets)]
TargetSets == (SUBSET {"g1", "g2", "g3", "u1"}) \ {{}}
ARule(group) == [name |-> "r", enabled |-> TRUE, match |-> {"t"}, exclude |-> {},
                 qtypes |-> {}, group |-> group]
AConfig(groups, upstream, default, group) ==
  [nameservers |-> <<[name |-> "n1"]>>,
   upstreams |-> <<[name |-> upstream, nameservers |-> <<"n1">>]>>,
   groups |-> groups, default |-> default, rules |-> <<ARule(group)>>]
Configs ==
  {AConfig(<<Group("g1", t1), Group("g2", t2), Group("g3", t3)>>, "u1", "g1", "") :
     t1, t2, t3 \in TargetSets}
  \cup {AConfig(<<Group(n1, t1), Group(n2, t2)>>, u, d, r) :
     n1, n2 \in {"g1", "g2"}, u \in {"u1", "g2"}, d \in {"g1", "g3"}, r \in {"", "g2", "g3"},
     t1, t2 \in {{"u1"}, {"g2"}, {"g1", "u1"}}}
MCConfigCases == [cfg : Configs, tags : SUBSET {"t"}, type : {"A"}]

MCModules == {"m1", "m2"}
MCShipped == <<"m1", "m2">>
MCRegisters == "m1" :> {"speed"} @@ "m2" :> {}
Plugins == [name : MCModules \X {1, 2}, module : MCModules, enabled : BOOLEAN]
MCPluginCases == {s \in UNION {[1 .. k -> Plugins] : k \in 0 .. 2} : UniqueNames(s)}

\* Addresses above 100 are IPv6.
MCV4 == 1 .. 100
FallbackRules ==
  {r \in [match : {{"t"}}, exclude : {{}, {"x"}}, v4 : {<<>>, <<7>>}, v6 : {<<>>, <<107>>}] :
     r.v4 # <<>> \/ r.v6 # <<>>}
SpeedConfigs ==
  [tolerance : {0, 1, 4}, gap : {0, 1, 4}, limit : 1 .. 2, fallback : {<<>>}]
  \cup [tolerance : {0}, gap : {0}, limit : {2}, fallback : {<<r1, r2>> : r1, r2 \in FallbackRules}]
MCSpeedCases ==
  {[candidates |-> candidates, tags |-> {"t", "x"}, cfg |-> cfg,
    list |-> [i \in DOMAIN candidates |-> [ip |-> candidates[i], best |-> best[candidates[i]]]]] :
     candidates \in {<<1>>, <<1, 2>>, <<2, 1, 3>>}, cfg \in SpeedConfigs,
     best \in [1 .. 3 -> {1, 2, 5, Inf, NoRtt}]}

MCReplaceCases ==
  [ips : {Dedup(<<a, b>>) : a, b \in Ips}, targets : UNION {[1 .. k -> Networks] : k \in 1 .. 2}]

RRsets == {[name |-> "q", type |-> "CNAME", data |-> "c"],
           [name |-> "c", type |-> "CNAME", data |-> "d"],
           [name |-> "q", type |-> "A", data |-> <<1, 2>>],
           [name |-> "c", type |-> "A", data |-> <<1>>],
           [name |-> "d", type |-> "A", data |-> <<2, 3>>],
           [name |-> "c", type |-> "AAAA", data |-> <<1>>]}
Sections == {s \in UNION {[1 .. k -> RRsets] : k \in 0 .. 3} : IsInjective(s)}
IpTag(ip) == IF ip = 2 THEN {"w"} ELSE {"b"}
MCSectionCases ==
  [qname : {"q"}, type : {"A"}, tagsOf : {[ip \in 1 .. 3 |-> IpTag(ip)]}, tags : SUBSET {"t", "x"},
   section : {s \in Sections : Cardinality({i \in DOMAIN s : s[i].type = "A"}) <= 1},
   cfg : [match : {{}, {"t"}}, exclude : {{}, {"x"}}, whitelist : {{}, {"w"}}, blacklist : {{"b"}}]]
MCRedirectCases == [source : {"s"}, target : {"q"}, type : {"A"}, section : Sections]

StaticRules ==
  [match : {{"t"}, {"x"}}, exclude : {{}, {"x"}}, v4 : {<<>>, <<1>>}, v6 : {<<>>, <<2>>}, other : BOOLEAN]
MCStaticCases ==
  [qname : {"q"}, type : {"A", "AAAA", "TXT"}, tags : SUBSET {"t", "x"},
   rules : {<<r1, r2>> : r1, r2 \in StaticRules}]

Alpns == {<<>>, <<"h2">>, <<"h3">>, <<"h3", "h2">>}
OptionalKeys == {"no-default-alpn", "ipv4hint", "ech"}
ServiceParams ==
  {[k \in (IF alpn = <<>> THEN {} ELSE {"alpn"}) \cup (IF mandatory = {} THEN {} ELSE {"mandatory"}) \cup others |->
      CASE k = "alpn" -> alpn [] k = "mandatory" -> mandatory [] OTHER -> "value"] :
     alpn \in Alpns, others \in SUBSET OptionalKeys,
     mandatory \in SUBSET {"alpn", "ipv4hint", "no-default-alpn"}}
Services == {r \in {[priority |-> 1, params |-> p] : p \in ServiceParams} : WellFormed(r)}
Alias == [priority |-> 0, params |-> <<>>]
MCHttpsCases ==
  [cfg : {[skip |-> {"s"}, match |-> {"cf"}, exclude |-> {"x"}]}, requestTags : {{}},
   baseTags : {{}, {"cf"}, {"has_hint"}}, subqueryTags : {{}, {"cf"}, {"cf", "x"}},
   cloudflare : {<<>>, <<[priority |-> 1, params |-> "ech" :> "key"]>>},
   rrset : {<<>>, <<Alias>>} \cup {<<r>> : r \in Services} \cup {<<r, q>> : r, q \in Services}]

MCByte == {Marker, Zero} \cup 1 .. 36
MCMessages == UNION {[1 .. k -> {1, Marker, Zero}] : k \in 0 .. MinimumSize}
MCWrites == {[what |-> [i \in 1 .. n |-> i], tricks |-> tricks] : n \in 30 .. 36, tricks \in BOOLEAN}

\* Certificates of a header only, with a byte less than the fields take, with just
\* the fields and with an extension; a header cannot be signed.
Certs ==
  {x \in [understood : BOOLEAN, signed : BOOLEAN, length : {8, 123, 124, 125},
          start : {0, 2}, expire : {1, 3}, serial : {1, 2}] :
     x.signed => x.length # 8}
MCCertCases ==
  [certs : {<<>>} \cup {<<a>> : a \in Certs} \cup {<<a, b>> : a, b \in Certs}
           \cup {<<a, b, c>> : a, b, c \in {x \in Certs : x.understood /\ x.length \in {124, 125} /\ x.signed}},
   now : {1, 2}]
=============================================================================
