------------------------------- MODULE TagRules -------------------------------
(***************************************************************************)
(* How a query gets its tags and its upstream group: the domain set, the   *)
(* IP set, the tag plugin's hooks and the rule engine.                     *)
(*                                                                         *)
(* A name is the text the code works on, a sequence of characters; Dot and *)
(* Plus are the two that matter, case and blanks are left out.  An address *)
(* is a sequence of bits, a network the bits of its prefix.                *)
(***************************************************************************)
EXTENDS Integers, FiniteSets, SequencesExt, Lists

CONSTANTS Dot, Plus, NoAnswer

\* normalize_domain; the empty result is a ValueError.
Normalize(text) ==
  LET bare == SubSeq(text, 1, SelectLastInSeq(text, LAMBDA ch : ch # Dot))
  IN  IF IsPrefix(<<Plus, Dot>>, bare) THEN SubSeq(bare, 3, Len(bare)) ELSE bare

\* split(".")
Labels(text) ==
  LET places == [i \in 1 .. Len(text) + 2 |-> i - 1]
      cuts == Kept(places, {i \in DOMAIN places : i - 1 \in DOMAIN text => text[i - 1] = Dot})
  IN  [i \in 1 .. Len(cuts) - 1 |-> SubSeq(text, cuts[i] + 1, cuts[i + 1] - 1)]

\* Mutant of ReverseDomain: no dot after the last label.
ReverseDomainOpen(text) ==
  LET labels == Reverse(Labels(Normalize(text)))
  IN  FlattenSeq([i \in DOMAIN labels |->
        IF i = 1 THEN labels[i] ELSE <<Dot>> \o labels[i]])

ReverseDomain(text) ==
  LET labels == Reverse(Labels(Normalize(text)))
  IN  FlattenSeq([i \in DOMAIN labels |-> labels[i] \o <<Dot>>])

\* The trie: every line of every tag file, with the file's tag.  load_tag_files
\* normalises a line, and reverse_domain once more.
DomainEntries(files) ==
  UNION {{[key |-> ReverseDomain(Normalize(line)), tag |-> tag] : line \in files[tag]} :
           tag \in DOMAIN files}

\* DomainSet.lookup: the tags of all keys that are prefixes of the reversed name.
DomainTags(files, qname) ==
  {e.tag : e \in {e \in DomainEntries(files) : IsPrefix(e.key, ReverseDomain(qname))}}

\* What the set means: a line covers the name itself and every name below it.
CoveringTags(files, qname) ==
  {tag \in DOMAIN files : \E line \in files[tag] :
     IsSuffix(Labels(Normalize(Normalize(line))), Labels(Normalize(qname)))}

\* normalize_network with strict=False drops the host bits; lookup takes the tags
\* of all networks that cover the address.
NormalizeNetwork(bits, len) == SubSeq(bits, 1, len)
IpTags(networks, address) ==
  {n.tag : n \in {n \in networks : IsPrefix(NormalizeNetwork(n.bits, n.len), address)}}
-----------------------------------------------------------------------------
\* TagPlugin.on_upstream_response: the request's tags, those of the names on the
\* CNAME chain, then those of the addresses or of the HTTPS hints.
ResultTags(files, networks, requestTags, resultTags, answer) ==
  LET chain == IF answer = NoAnswer THEN {}
               ELSE UNION {DomainTags(files, name) : name \in answer.chain}
      hints == IF answer # NoAnswer /\ answer.type = "HTTPS" /\ answer.hinted
               THEN {"has_hint"} ELSE {}
      addresses == IF answer = NoAnswer THEN {}
                   ELSE UNION {IpTags(networks, ip) : ip \in answer.ips}
  IN  resultTags \cup requestTags \cup chain \cup hints \cup addresses

\* RuleEngine._matches: an empty list does not restrict.
Matches(rule, tags, qtype) ==
  /\ rule.exclude \cap tags = {}
  /\ rule.match = {} \/ rule.match \cap tags # {}
  /\ rule.qtypes = {} \/ qtype \in rule.qtypes

\* RuleEngine.select: the first enabled rule that matches; a rule that names no
\* group changes the dispatcher only.
SelectGroup(rules, default, tags, qtype) ==
  LET i == SelectInSeq(rules, LAMBDA r : r.enabled /\ Matches(r, tags, qtype))
  IN  IF i = 0 \/ rules[i].group = "" THEN default ELSE rules[i].group
=============================================================================
