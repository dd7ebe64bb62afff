--------------------------- MODULE AnswerRewriting ---------------------------
(***************************************************************************)
(* What the shipped plugins do to an answer, as functions: the redirect,   *)
(* static answer, IP filter and IP replace plugins, and how an answer is   *)
(* written back into the message that is sent.                             *)
(*                                                                         *)
(* An RRset is [name, type, data]; the data of a CNAME is its target.  An  *)
(* answer is [qname, type, rcode, rrset, section]: dnspython's Answer with *)
(* the answer section of its response.  An address is its Width bits, from *)
(* the highest one, a network its first address and its prefix length.     *)
(***************************************************************************)
EXTENDS Integers, FiniteSets, SequencesExt, Lists

CONSTANTS Width, NoRule

NoRRset == [type |-> "no RRset"]

AddressTypes == {"A", "AAAA"}
-----------------------------------------------------------------------------
(***************************************************************************)
(* Answers and messages (pipeline/context.py)                              *)
(***************************************************************************)
\* dnspython's Answer: the RRset of the type asked for at the end of the chain
\* of aliases that starts at qname.
MakeAnswer(qname, type, rcode, section) ==
  LET Find(n, t) == SelectInSeq(section, LAMBDA r : r.name = n /\ r.type = t)
      at[k \in 0 .. Len(section)] ==
        IF k = 0 THEN qname
        ELSE IF Find(at[k - 1], type) = 0 /\ Find(at[k - 1], "CNAME") # 0
             THEN section[Find(at[k - 1], "CNAME")].data
             ELSE at[k - 1]
      i == Find(at[Len(section)], type)
  IN  [qname |-> qname, type |-> type, rcode |-> rcode, section |-> section,
       rrset |-> IF i = 0 THEN NoRRset ELSE section[i]]

\* build_answer_from_response: where the chain leads nowhere, the first RRset of
\* the section, whatever its type.
BuildAnswer(qname, type, rcode, section) ==
  LET answer == MakeAnswer(qname, type, rcode, section)
  IN  IF answer.rrset = NoRRset /\ section # <<>>
      THEN [answer EXCEPT !.rrset = section[1]] ELSE answer

\* sync_answer_rrset_to_response raises otherwise.
CanSync(answer) == answer.rrset # NoRRset => answer.rrset.type = answer.type

\* Mutant of SyncRRset: an RRset that was taken away stays in the section.
SyncRRsetKeeping(answer) ==
  LET i == SelectLastInSeq(answer.section, LAMBDA r : r.type = answer.type)
  IN  IF answer.rrset = NoRRset THEN answer.section
      ELSE IF i # 0 THEN ReplaceAt(answer.section, i, answer.rrset)
      ELSE Append(answer.section, answer.rrset)

\* The last RRset of the type is the one that is replaced or deleted.
SyncRRset(answer) ==
  LET i == SelectLastInSeq(answer.section, LAMBDA r : r.type = answer.type)
  IN  IF answer.rrset = NoRRset
      THEN IF i = 0 THEN answer.section ELSE RemoveAt(answer.section, i)
      ELSE IF i # 0 THEN ReplaceAt(answer.section, i, answer.rrset)
      ELSE Append(answer.section, answer.rrset)

\* sync_answer_response
SyncAnswer(answer) ==
  MakeAnswer(answer.qname, answer.type, answer.rcode, SyncRRset(answer))

\* RedirectPlugin._build_redirect_response: an alias to the target, then all that
\* the subquery for the target brought.
RedirectSection(qname, target, sub) ==
  <<[name |-> qname, type |-> "CNAME", data |-> target]>> \o sub.section

\* RedirectPlugin.on_request, for a redirect whose subquery gave sub; the query
\* goes on to its upstreams where that has no RRset.
Redirect(qname, type, target, sub) ==
  BuildAnswer(qname, type, sub.rcode, RedirectSection(qname, target, sub))
-----------------------------------------------------------------------------
(***************************************************************************)
(* The static answer plugin                                                *)
(***************************************************************************)
RuleAddresses(rule, qtype) ==
  CASE qtype = "A" -> rule.v4 [] qtype = "AAAA" -> rule.v6 [] OTHER -> <<>>

\* _resolve_rule: a rule has something to say about the type, or is passed over.
ResolveRule(rules, tags, qtype) ==
  LET Speaks(r) == IF qtype \in AddressTypes THEN RuleAddresses(r, qtype) # <<>> ELSE r.other
      i == SelectInSeq(rules, LAMBDA r :
             r.exclude \cap tags = {} /\ r.match \cap tags # {} /\ Speaks(r))
  IN  IF i = 0 THEN NoRule ELSE rules[i]

\* _apply_static_response: the answer section, when a rule applies.
StaticSection(rule, qname, qtype) ==
  IF RuleAddresses(rule, qtype) = <<>> THEN <<>>
  ELSE <<[name |-> qname, type |-> qtype, data |-> RuleAddresses(rule, qtype)]>>
-----------------------------------------------------------------------------
(***************************************************************************)
(* The IP filter and IP replace plugins                                    *)
(***************************************************************************)
IsAddressAnswer(answer) ==
  answer.rrset # NoRRset /\ answer.rcode = "NOERROR" /\ answer.type \in AddressTypes

\* _should_keep_ip_tags
KeepsIp(cfg, ipTags) ==
  /\ cfg.whitelist = {} \/ ipTags \cap cfg.whitelist # {}
  /\ ipTags \cap cfg.blacklist = {}

\* IpFilterPlugin.on_upstream_response
Filter(answer, tags, cfg, TagsOf) ==
  LET Skips == tags \cap cfg.exclude # {} \/ (cfg.match # {} /\ tags \cap cfg.match = {})
      data == answer.rrset.data
      kept == Kept(data, {i \in DOMAIN data : KeepsIp(cfg, TagsOf[data[i]])})
  IN  IF Skips \/ ~IsAddressAnswer(answer) \/ answer.rrset.type # answer.type THEN answer
      ELSE IF kept = <<>> THEN [answer EXCEPT !.rrset = NoRRset]
      ELSE [answer EXCEPT !.rrset.data = kept]

\* Mutant of MapIp: the mask is a bit too wide.
MapIpWide(ip, target) ==
  [b \in 1 .. Width |-> IF b >= target.len /\ ip[b] = 1 THEN 1 ELSE target.net[b]]

\* _map_ip_to_network: the bits of the target's first address or, behind its
\* prefix, of the address.
MapIp(ip, target) ==
  [b \in 1 .. Width |-> IF b > target.len /\ ip[b] = 1 THEN 1 ELSE target.net[b]]

\* _expand_addresses
Expand(ips, targets) ==
  Dedup(FlattenSeq([i \in DOMAIN ips |-> [j \in DOMAIN targets |-> MapIp(ips[i], targets[j])]]))

\* IpReplaceService.replace_answer
Replace(answer, tags, cfg) ==
  LET i == SelectInSeq(cfg.rules, LAMBDA r :
             r.match \cap tags # {} /\ r.exclude \cap tags = {} /\ r.targets[answer.type] # <<>>)
      new == [answer EXCEPT !.rrset.data = Expand(@, cfg.rules[i].targets[answer.type])]
  IN  IF tags = {} \/ tags \cap cfg.skip # {} \/ ~IsAddressAnswer(answer) \/ i = 0
         \/ new.rrset = answer.rrset
      THEN answer
      ELSE [new EXCEPT !.section = SyncRRset(new)]
=============================================================================
