------------------------------ MODULE Algorithms ------------------------------
(***************************************************************************)
(* The parts of the forwarder that compute rather than interact.  A state  *)
(* is one input of one algorithm, chosen by an action per algorithm, and   *)
(* an invariant compares what the algorithm makes of it with what it is    *)
(* for.  The inputs are parameters: small sets for TLC, any sets of inputs *)
(* of the right form for the proofs.                                       *)
(***************************************************************************)
EXTENDS ConfigModel, HttpsRecords, TagRules, SpeedChoice, Transports

CONSTANTS
  Char,           \* what names are written with, Dot and Plus among it
  TagCases,       \* [files, name, alias, request]
  ConfigCases,    \* [cfg, tags, type]
  Modules,        \* plugin modules
  Shipped,        \* the modules that come with the forwarder, in order
  Registers,      \* what the setup of each module registers
  PluginCases,    \* lists of configured plugins
  V4,             \* IPv4 addresses
  SpeedCases,     \* [candidates, list, cfg, tags]
  ReplaceCases,   \* [ips, targets]
  SectionCases,   \* [qname, type, section, cfg, tags, tagsOf]
  RedirectCases,  \* [source, target, type, section]
  StaticCases,    \* [qname, type, rules, tags]
  HttpsCases,     \* [cfg, requestTags, baseTags, subqueryTags, cloudflare, rrset]
  Messages, Writes,
  CertCases       \* [certs, now]

VARIABLE case

Start == [kind |-> "start"]
AlgorithmsInit == case = Start
Is(kind) == case.kind = kind
Pick(kind, Cases) == case = Start /\ \E c \in Cases : case' = [kind |-> kind, of |-> c]
-----------------------------------------------------------------------------
(***************************************************************************)
(* Tags                                                                    *)
(***************************************************************************)
\* An answer to a query for c.name through one alias.
ReplyTo(c) == [type |-> "A", chain |-> {c.name, c.alias}, hinted |-> FALSE, ips |-> {}]

ASSUME TagCasesAssumption == \A c \in TagCases :
  /\ c.name \in Seq(Char) /\ c.alias \in Seq(Char)
  /\ \A tag \in DOMAIN c.files : \A line \in c.files[tag] : line \in Seq(Char)
  /\ ReplyTo(c) # NoAnswer

PickName == Pick("name", TagCases)

\* A tag file's line tags the name it stands for and every name below it, whole
\* labels only, and nothing else: the byte trie over reversed names
\* (DomainSet.lookup) agrees with label-wise suffixes, for names of a request
\* and for the names on an answer's alias chain.
TagsFollowLabels ==
  Is("name") =>
    LET c == case.of IN
    /\ DomainTags(c.files, c.name) = CoveringTags(c.files, c.name)
    /\ ResultTags(c.files, {}, c.request, {}, ReplyTo(c))
         = c.request \cup CoveringTags(c.files, c.name) \cup CoveringTags(c.files, c.alias)
-----------------------------------------------------------------------------
(***************************************************************************)
(* Configurations                                                          *)
(***************************************************************************)
ASSUME ConfigCasesAssumption == \A c \in ConfigCases :
  /\ c.cfg.groups \in Seq(Range(c.cfg.groups)) /\ c.cfg.rules \in Seq(Range(c.cfg.rules))
  /\ \A g \in Range(c.cfg.groups) : g.targets \in Seq(Range(g.targets))

PickConfig == Pick("config", ConfigCases)

\* The depth-first search finds a cycle exactly when there is one
\* (AppConfig._validate_group_cycles), so that in an accepted configuration
\* following groups always ends, at upstreams that exist.
AcceptedGroupsEnd ==
  Is("config") =>
    LET cfg == case.of.cfg
        names == NamesOf(cfg.groups)
    IN  /\ UniqueNames(cfg.groups) => (HasCycle(cfg.groups) <=> ~WellFounded(cfg.groups))
        /\ Accepted(cfg) =>
             \A S \in (SUBSET names) \ {{}} :
               \E g \in Range(cfg.groups) :
                 g.name \in S /\ Range(g.targets) \subseteq NamesOf(cfg.upstreams) \cup (names \ S)

\* Whatever tags and type a query has, in an accepted configuration the rules
\* send it to a group that exists (RuleEngine.select with validate_references).
SelectedGroupExists ==
  Is("config") /\ Accepted(case.of.cfg) =>
    SelectGroup(case.of.cfg.rules, case.of.cfg.default, case.of.tags, case.of.type)
      \in NamesOf(case.of.cfg.groups)

PluginItems == [name : Modules \X (Nat \ {0}), module : Modules, enabled : BOOLEAN]

ASSUME PluginCasesAssumption ==
  /\ Shipped \in Seq(Modules)
  /\ \A plugins \in PluginCases : plugins \in Seq(PluginItems) /\ UniqueNames(plugins)

PickPlugins == Pick("plugins", PluginCases)

\* Completing a configuration with the shipped plugins it lacks never makes it
\* unacceptable: names stay unique though a user may have given a shipped name to
\* another module, what is there is kept, a second completion adds nothing, and
\* whether the plugins can be built does not change (materialize_plugin_configs).
CompletionIsHarmless ==
  Is("plugins") =>
    LET full == Materialize(case.of, Shipped) IN
    /\ UniqueNames(full) /\ IsPrefix(case.of, full)
    /\ {p.module : p \in Range(full)} = {p.module : p \in Range(case.of)} \cup Range(Shipped)
    /\ Materialize(full, Shipped) = full
    /\ CanBuild(full, Registers) <=> CanBuild(case.of, Registers)

\* A configuration that is accepted works: groups end at upstreams, rules lead to
\* groups, and completing it with the shipped plugins changes neither.
ConfigsWork == AcceptedGroupsEnd /\ SelectedGroupExists /\ CompletionIsHarmless
-----------------------------------------------------------------------------
(***************************************************************************)
(* Speed test                                                              *)
(***************************************************************************)
\* The candidates of an IPv4 answer are its addresses and differ; a result is for
\* one of them; limits are positive and fallback addresses of their family.
ASSUME SpeedCasesAssumption == \A c \in SpeedCases :
  /\ c.candidates \in Seq(V4) /\ c.candidates # <<>> /\ IsInjective(c.candidates)
  /\ c.list \in Seq([ip: V4, best: (0 .. Inf) \cup {NoRtt}])
  /\ c.cfg.tolerance \in Nat /\ c.cfg.gap \in Nat /\ c.cfg.limit \in Nat \ {0}
  /\ c.cfg.fallback \in Seq(Range(c.cfg.fallback))
  /\ \A rule \in Range(c.cfg.fallback) : rule["v4"] \in Seq(V4)

PickSpeed == Pick("speed", SpeedCases)

\* The addresses the speed test returns are the fastest ones: none left out is
\* faster, they come in order, and with a finite best one all are within the
\* tolerance (SpeedTestPlugin.on_response, where inf - inf is not a number).
\* Where nothing could be measured the answer is not left empty, nor filled with
\* addresses of the other family.
FastestAreChosen ==
  Is("speed") =>
    LET c == case.of
        reply == Respond(c.list, c.candidates, c.candidates, c.cfg, c.tags, "v4")
    IN  IF \E ip \in Range(c.candidates) : HasDuration(c.list, ip)
        THEN AreFastest(reply, c.list, c.candidates, c.cfg)
        ELSE reply # <<>> /\ Range(reply) \subseteq V4
-----------------------------------------------------------------------------
(***************************************************************************)
(* Answers                                                                 *)
(***************************************************************************)
Ips == [1 .. Width -> {0, 1}]
Inside(ip, n) == \A b \in 1 .. n.len : ip[b] = n.net[b]
Addresses(ips) == MakeAnswer("q", "A", "NOERROR", <<[name |-> "q", type |-> "A", data |-> ips]>>)
ReplaceBy(targets) ==
  [skip |-> {}, rules |-> <<[match |-> {"t"}, exclude |-> {}, targets |-> [A |-> targets, AAAA |-> <<>>]]>>]

Networks == {n \in [net : Ips, len : 0 .. Width] : \A b \in n.len + 1 .. Width : n.net[b] = 0}

ASSUME ReplaceCasesAssumption == Width \in Nat /\ \A c \in ReplaceCases :
  /\ c.ips \in Seq(Ips) /\ c.ips # <<>> /\ IsInjective(c.ips)
  /\ c.targets \in Seq(Networks) /\ c.targets # <<>>

PickReplace == Pick("replace", ReplaceCases)

\* An address is replaced into the target networks however often the plugin runs:
\* it runs on the upstream's result and again on the response, and the second run
\* finds the first one's addresses.  Nothing it produced first is lost, and with
\* targets of one prefix length the second run changes nothing.
ReplacedTwiceStaysInside ==
  Is("replace") =>
    LET c == case.of
        once == Replace(Addresses(c.ips), {"t"}, ReplaceBy(c.targets))
        twice == Replace(once, {"t"}, ReplaceBy(c.targets))
    IN  /\ \A ip \in Range(twice.rrset.data) : \E i \in DOMAIN c.targets : Inside(ip, c.targets[i])
        /\ Range(once.rrset.data) \subseteq Range(twice.rrset.data)
        /\ (\A i, j \in DOMAIN c.targets : c.targets[i].len = c.targets[j].len) => twice = once
        /\ once.section = <<once.rrset>>

IsRRset(r) == r = [name |-> r.name, type |-> r.type, data |-> r.data]

ASSUME SectionCasesAssumption == \A c \in SectionCases :
  /\ c.section \in Seq(Range(c.section)) /\ \A r \in Range(c.section) : IsRRset(r)
  /\ c.type \in AddressTypes
  /\ \A i, j \in DOMAIN c.section : c.section[i].type = c.type /\ c.section[j].type = c.type => i = j
  /\ \A r \in Range(c.section) : r.type = c.type => r.data \in Seq(Range(r.data))

PickSection == Pick("section", SectionCases)

\* What the plugins leave in an answer is what is sent: writing the answer back
\* into its message (sync_answer_response) and reading it from there gives the
\* same RRset, none where all addresses were filtered away, provided the message
\* has a single RRset of the type asked for.
SentIsWhatPluginsLeft ==
  Is("section") =>
    LET c == case.of
        answer == MakeAnswer(c.qname, c.type, "NOERROR", c.section)
        left == Filter(answer, c.tags, c.cfg, c.tagsOf)
    IN  /\ CanSync(left)
        /\ SyncAnswer(left).rrset = left.rrset
        /\ \A i \in DOMAIN c.section : c.section[i].type # c.type =>
             c.section[i] \in Range(SyncAnswer(left).section)

\* The subquery is for the redirect's target; a name that is redirected is not one
\* its answer leads through.
ASSUME RedirectCasesAssumption == \A c \in RedirectCases :
  /\ c.section \in Seq(Range(c.section)) /\ \A r \in Range(c.section) : IsRRset(r)
  /\ c.type # "CNAME" /\ \A r \in Range(c.section) : r.name # c.source

PickRedirect == Pick("redirect", RedirectCases)

\* A redirect whose subquery found addresses is answered with them: the reply
\* built from an alias and the subquery's section leads to the subquery's RRset,
\* and the end of the pipeline can write it back (RedirectPlugin.on_request).
RedirectCanBeSent ==
  Is("redirect") =>
    LET c == case.of
        sub == MakeAnswer(c.target, c.type, "NOERROR", c.section)
        answer == Redirect(c.source, c.type, c.target, sub)
    IN  sub.rrset # NoRRset => answer.rrset = sub.rrset /\ CanSync(answer)

ASSUME StaticCasesAssumption == \A c \in StaticCases : c.rules \in Seq(Range(c.rules))

PickStatic == Pick("static", StaticCases)

\* A static reply to an address query carries addresses, though another rule that
\* has none of the family may match first; only queries of other types are
\* answered with nothing (BlockPlugin._resolve_rule and _apply_static_response).
StaticRepliesCarryAddresses ==
  Is("static") =>
    LET c == case.of
        rule == ResolveRule(c.rules, c.tags, c.type)
        section == StaticSection(rule, c.qname, c.type)
        answer == BuildAnswer(c.qname, c.type, "NOERROR", section)
    IN  rule # NoRule =>
          /\ CanSync(answer)
          /\ c.type \in AddressTypes <=> answer.rrset # NoRRset

\* Whatever plugin made or changed an answer (filter, redirect or block), the end
\* of the pipeline can write it into its message, and what is sent is the answer.
RewritesCanBeSent == SentIsWhatPluginsLeft /\ RedirectCanBeSent /\ StaticRepliesCarryAddresses
-----------------------------------------------------------------------------
(***************************************************************************)
(* HTTPS records                                                           *)
(***************************************************************************)
\* What parses: params is a function, alpn a sequence, an alias has no parameter.
IsRecord(r) ==
  /\ r = [priority |-> r.priority, params |-> [k \in DOMAIN r.params |-> r.params[k]]]
  /\ WellFormed(r)
  /\ "alpn" \in DOMAIN r.params => r.params["alpn"] \in Seq(Range(r.params["alpn"]))
  /\ r.priority = 0 => DOMAIN r.params = {}

ASSUME HttpsCasesAssumption == \A c \in HttpsCases :
  c.rrset \in Seq(Range(c.rrset)) /\ \A r \in Range(c.rrset) : IsRecord(r)

PickHttps == Pick("https", HttpsCases)

HttpsReply(c) ==
  OnHttpsResponse(c.cfg, c.requestTags, c.baseTags, c.subqueryTags, c.cloudflare, c.rrset)

\* After the ECH and the HTTPS plugin no record advertises h3 or an address, and
\* no record that a client could use before has become one it must ignore: what a
\* record calls mandatory is there (HttpsPlugin._sanitize_https_rdata).
SanitisedRecordsStayUsable ==
  Is("https") =>
    \A r \in Range(HttpsReply(case.of)) :
      /\ WellFormed(r) /\ DOMAIN r.params \cap Hints = {}
      /\ "alpn" \in DOMAIN r.params => "h3" \notin Range(r.params["alpn"])

\* Either every service record of the reply has the ECH parameter or the plugin
\* added none, alias records never get one, and one that the upstream sent is kept
\* (CloudflareEchPlugin._inject_ech with its conditions).
EchIsAllOrNothing ==
  Is("https") =>
    LET c == case.of
        reply == Range(HttpsReply(c))
        services == {r \in reply : r.priority # 0}
        with == {r \in services : "ech" \in DOMAIN r.params}
    IN  /\ \A r \in reply : r.priority = 0 => DOMAIN r.params = {}
        /\ HasAnyEch(c.rrset)
           \/ with = {} \/ (with = services /\ \A r \in with : r.params["ech"] = ExtractEch(c.cloudflare))
        /\ HasAnyEch(c.rrset) =>
             {r.params["ech"] : r \in with} =
               {r.params["ech"] : r \in {r \in Range(c.rrset) : "ech" \in DOMAIN r.params}}

\* The ECH and the HTTPS plugin, one after the other, leave HTTPS records that
\* clients can use and that agree on ECH.
HttpsRecordsStayUsable == SanitisedRecordsStayUsable /\ EchIsAllOrNothing
-----------------------------------------------------------------------------
(***************************************************************************)
(* Transports                                                              *)
(***************************************************************************)
ASSUME MessagesAssumption ==
  (\A m \in Messages : m \in Seq(Byte)) /\ (\A w \in Writes : w.what \in Seq(Byte))

PickMessage == Pick("message", Messages)

\* A padded DNSCrypt query can be told from its padding whatever bytes it ends in,
\* also when it fills a block exactly, and has a legal size (_pad_query).
PaddingCanBeUndone ==
  Is("message") =>
    LET padded == PadQuery(case.of)
    IN  /\ Unpad(padded) = case.of
        /\ Len(padded) >= MinimumSize /\ Len(padded) % ModuloSize = 0

\* What the provider signed has its signature in it.
ASSUME CertCasesAssumption == \A c \in CertCases :
  /\ c.certs \in Seq(Range(c.certs))
  /\ \A x \in Range(c.certs) :
       /\ x # NoCert /\ x.serial \in Nat /\ x.length \in Nat
       /\ x.signed => x.length >= HeaderSize + SignatureSize

PickCerts == Pick("certs", CertCases)

\* The certificates a client of the protocol can use now: complete, understood,
\* signed by the provider and in force.  Extensions are optional.
WholeCertificate == HeaderSize + SignatureSize + FieldsSize
ValidCertificates(c) ==
  {x \in Range(c.certs) : /\ x.length >= WholeCertificate /\ x.understood /\ x.signed
                          /\ x.start <= c.now /\ c.now <= x.expire}

\* The DNSCrypt certificate in use is the newest, in whatever order the server
\* lists them, of the valid ones that carry extensions; those that end with their
\* fields are passed over, also when there is no other (_fetch_server_key).
NewestValidCertificate ==
  Is("certs") =>
    LET chosen == SelectCertificate(case.of.certs, case.of.now)
        extended == {x \in ValidCertificates(case.of) : x.length > WholeCertificate}
    IN  IF extended = {} THEN chosen = NoCert
        ELSE chosen \in extended /\ \A x \in extended : x.serial <= chosen.serial

PickStream == Pick("stream", Writes)

\* The byte sent out of band to confuse middle boxes is not data: the server's
\* stream is the message (TrickyStreamSocket.sendall).
StreamIsTheMessage ==
  Is("stream") => InBand(StreamWrites(case.of.what, case.of.tricks)) = case.of.what

\* The transports deliver the query as it is, to the key in force: through
\* DNSCrypt's padding and certificates and through the tricks of the TCP socket.
ServerGetsTheQuery == PaddingCanBeUndone /\ NewestValidCertificate /\ StreamIsTheMessage
-----------------------------------------------------------------------------
Return == case # Start /\ case' = Start

AlgorithmsNext ==
  \/ PickName \/ PickConfig \/ PickPlugins \/ PickSpeed \/ PickReplace \/ PickSection \/ PickRedirect \/ PickStatic
  \/ PickHttps \/ PickMessage \/ PickCerts \/ PickStream \/ Return

AlgorithmsSpec == AlgorithmsInit /\ [][AlgorithmsNext]_case
=============================================================================
