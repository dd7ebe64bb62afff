------------------------------ MODULE SpeedChoice ------------------------------
(***************************************************************************)
(* Which of the measured addresses the speed test plugin returns.  Results *)
(* are records [ip, best]; best is a duration, Inf for an address that is  *)
(* not to be measured, or NoRtt for one that no probe reached.             *)
(***************************************************************************)
EXTENDS Integers, FiniteSets, SequencesExt, Lists

CONSTANTS Inf, NoRtt

ASSUME SpeedChoiceAssumption == Inf \in Nat /\ NoRtt \notin Int

\* The duration an address is judged by: its last result that has one.
HasDuration(list, ip) == \E x \in Range(list) : x.ip = ip /\ x.best # NoRtt
Best(list, ip) ==
  list[SelectLastInSeq(list, LAMBDA x : x.ip = ip /\ x.best # NoRtt)].best

\* The candidates that have one, in their order.
Measured(list, candidates) ==
  Kept(candidates, {i \in DOMAIN candidates : HasDuration(list, candidates[i])})

\* A loop that breaks: the longest prefix of s whose every place is good.
KeepWhile(s, good) == SubSeq(s, 1, Cardinality({i \in DOMAIN s : 1 .. i \subseteq good}))

\* Differences of floats: inf - inf is NaN, and no comparison with NaN holds.
Within(a, b, tolerance) == a # Inf /\ a - b <= tolerance
GapAfter(a, b, gap) == b # Inf /\ (a = Inf \/ a - b > gap)

\* Mutant of Choose: results are taken in the order they were found.
ChooseUnsorted(list, candidates, cfg) ==
  LET known == Measured(list, candidates)
  IN  SubSeq(known, 1, IF Len(known) < cfg.limit THEN Len(known) ELSE cfg.limit)

\* The part of on_response that orders the addresses: sort, drop what is too
\* slow, cut at the first gap, keep response_ip_limit.
Choose(list, candidates, cfg) ==
  LET known == Measured(list, candidates)
      best == [i \in DOMAIN known |-> Best(list, known[i])]
      rank == [i \in DOMAIN known |->
                 Cardinality({j \in DOMAIN known :
                   best[j] < best[i] \/ (best[j] = best[i] /\ j <= i)})]
      sorted == [n \in DOMAIN known |-> CHOOSE i \in DOMAIN known : rank[i] = n]
      near == KeepWhile(sorted, {n \in DOMAIN sorted :
                Within(best[sorted[n]], best[sorted[1]], cfg.tolerance)})
      kept == IF near = <<>> THEN sorted ELSE near
      cut == KeepWhile(kept, {n \in DOMAIN kept :
               n = 1 \/ ~GapAfter(best[kept[n]], best[kept[n - 1]], cfg.gap)})
  IN  [n \in 1 .. (IF Len(cut) < cfg.limit THEN Len(cut) ELSE cfg.limit) |-> known[cut[n]]]

\* _select_fallback_ips: the first rule that applies and has an address of the
\* family asked for.
SelectFallback(rules, tags, family) ==
  LET Applies(rule) == /\ tags \cap rule.exclude = {} /\ tags \cap rule.match # {}
                       /\ rule[family] # <<>>
      i == SelectInSeq(rules, Applies)
  IN  IF i = 0 THEN <<>> ELSE rules[i][family]

\* The addresses the answer is left with.
Respond(list, candidates, current, cfg, tags, family) ==
  LET fallback == SelectFallback(cfg.fallback, tags, family)
  IN  IF \E ip \in Range(candidates) : HasDuration(list, ip) THEN Choose(list, candidates, cfg)
      ELSE IF fallback # <<>> THEN fallback ELSE current
-----------------------------------------------------------------------------
\* What choosing must achieve: the addresses are candidates, no candidate left
\* out is faster, there are at most limit, and if any was really measured all of
\* them are within the tolerance of the fastest.
AreFastest(chosen, list, candidates, cfg) ==
  LET known == {ip \in Range(candidates) : HasDuration(list, ip)}
      best(ip) == Best(list, ip)
  IN  /\ chosen # <<>> /\ Range(chosen) \subseteq known
      /\ Len(chosen) <= cfg.limit /\ IsInjective(chosen)
      /\ \A i \in 1 .. Len(chosen) - 1 : best(chosen[i]) <= best(chosen[i + 1])
      /\ \A a \in Range(chosen), b \in known \ Range(chosen) : best(a) <= best(b)
      /\ (\E b \in known : best(b) # Inf) =>
           \A a \in Range(chosen), b \in known : best(a) - best(b) <= cfg.tolerance
=============================================================================
