----------------------------- MODULE HttpsRecords -----------------------------
(***************************************************************************)
(* What the ECH and HTTPS plugins do to HTTPS records.  A record is        *)
(* [priority, params]; params maps the parameter keys it has to their      *)
(* values: alpn to a sequence of protocol ids, mandatory to a set of keys. *)
(***************************************************************************)
EXTENDS AnswerRewriting, Functions

CONSTANTS NoEch

Hints == {"ipv4hint", "ipv6hint"}
Without(params, keys) == Restrict(params, DOMAIN params \ keys)

\* Mutant of MandatoryLeft: the mandatory list is left as it is.
MandatoryLeftAsIs(keys, gone) == keys

\* The keys that went leave the mandatory list.
MandatoryLeft(keys, gone) == keys \ gone

WithoutH3(ids) == Kept(ids, {i \in DOMAIN ids : ids[i] # "h3"})

\* _sanitize_https_rdata: h3 and the hints go, an alpn that is left empty goes
\* with its companion, and so does a mandatory list that is left empty.
Sanitize(rdata) ==
  LET p == rdata.params
      ids == IF "alpn" \in DOMAIN p THEN WithoutH3(p["alpn"]) ELSE <<>>
      gone == (DOMAIN p \cap Hints)
              \cup (IF "alpn" \in DOMAIN p /\ ids = <<>> /\ p["alpn"] # <<>>
                    THEN DOMAIN p \cap {"alpn", "no-default-alpn"} ELSE {})
      kept == [k \in DOMAIN p \ gone |->
                CASE k = "alpn" -> ids
                  [] k = "mandatory" -> MandatoryLeft(p[k], gone)
                  [] OTHER -> p[k]]
      emptied == {k \in DOMAIN kept \cap {"mandatory"} : kept[k] = {} /\ p[k] # {}}
  IN  [rdata EXCEPT !.params = Without(kept, emptied)]

\* What a record must satisfy to be usable: the parameters it calls mandatory are
\* there, and no-default-alpn comes with alpn.
WellFormed(rdata) ==
  LET p == rdata.params IN
  /\ "mandatory" \in DOMAIN p => p["mandatory"] # {} /\ p["mandatory"] \subseteq DOMAIN p
  /\ "no-default-alpn" \in DOMAIN p => "alpn" \in DOMAIN p
  /\ "alpn" \in DOMAIN p => p["alpn"] # <<>>
-----------------------------------------------------------------------------
(***************************************************************************)
(* The Cloudflare ECH plugin                                               *)
(***************************************************************************)
HasAnyEch(rrset) == \E r \in Range(rrset) : "ech" \in DOMAIN r.params

\* _extract_ech_bytes: of the first service-mode record that has the parameter.
ExtractEch(rrset) ==
  LET i == SelectInSeq(rrset, LAMBDA r : r.priority # 0 /\ "ech" \in DOMAIN r.params)
  IN  IF i = 0 THEN NoEch ELSE rrset[i].params["ech"]

WithEch(params, ech) ==
  [k \in {"ech"} \cup DOMAIN params |-> IF k = "ech" THEN ech ELSE params[k]]

\* _inject_ech: an answer without records gets one, otherwise every service-mode
\* record that has none.
InjectEch(rrset, ech) ==
  IF rrset = <<>> THEN <<[priority |-> 1, params |-> WithEch(<<>>, ech)]>>
  ELSE [i \in DOMAIN rrset |->
         IF rrset[i].priority = 0 \/ "ech" \in DOMAIN rrset[i].params THEN rrset[i]
         ELSE [rrset[i] EXCEPT !.params = WithEch(@, ech)]]

\* on_response up to the load: whether this answer is one to extend.  A subquery
\* for the name's addresses decides where the result's tags do not and it had no
\* hints; one that fails brings no tags.
WantsEch(cfg, requestTags, baseTags, subqueryTags, rrset) ==
  /\ requestTags \cap cfg.skip = {}
  /\ ~HasAnyEch(rrset)
  /\ baseTags \cap cfg.exclude = {}
  /\ \/ baseTags \cap cfg.match # {}
     \/ /\ "has_hint" \notin baseTags
        /\ subqueryTags \cap cfg.exclude = {}
        /\ subqueryTags \cap cfg.match # {}

\* The ECH plugin (order 700), which takes the parameter from the answer to its own
\* subquery, then the HTTPS plugin (order 800).
OnHttpsResponse(cfg, requestTags, baseTags, subqueryTags, cloudflare, rrset) ==
  LET ech == ExtractEch(cloudflare)
      extended == IF WantsEch(cfg, requestTags, baseTags, subqueryTags, rrset) /\ ech # NoEch
                  THEN InjectEch(rrset, ech) ELSE rrset
  IN  Dedup([i \in DOMAIN extended |-> Sanitize(extended[i])])
=============================================================================
