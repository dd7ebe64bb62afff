--------------------------- MODULE SpeedTestProofs ---------------------------
(***************************************************************************)
(* Proofs about SpeedTest, for any number of requests, upstreams and       *)
(* addresses, of probes per measurement and of permits.                    *)
(***************************************************************************)
EXTENDS SpeedTest, FiniteSetTheorems, SequenceTheorems, TLAPS

(***************************************************************************)
(* The inductive invariant                                                 *)
(***************************************************************************)
IdsOf(m) == UNION {{ip} \X (1 .. Len(m[ip])) : ip \in IPs}
Measurement ==
  [pc : {"running", "ending", "done", "cancelled"}, best : Rtts \cup {NoRtt, Raised},
   waiting : Nat, probing : Nat, found : SUBSET {"rtt", "raised"}]

InputTypes == exempt \subseteq Upstreams /\ ips \in [Upstreams -> SUBSET IPs]
HookTypes ==
  /\ hook \in [Hooks -> {"idle", "measuring"} \cup HookOver]
  /\ waits \in [Hooks -> SUBSET Ids]
  /\ seen \in [Requests -> SUBSET IPs] /\ cand \in [Requests -> SUBSET IPs]
  /\ results \in [Requests -> [IPs -> Rtts \cup {Inf, NoRtt, Missing}]]
MeasTypes ==
  /\ meas \in [IPs -> Seq(Measurement)]
  /\ \A id \in Ids : Pending(id) <= ProbeCount /\ (M(id).pc = "done" => Pending(id) = 0)
CacheTypes ==
  /\ cache \in [IPs -> Nat] /\ \A ip \in IPs : cache[ip] <= Len(meas[ip])
  /\ expiries \in 0 .. MaxExpiries

\* The probes that hold a permit, each with its measurement's name and a number.
Holders ==
  {t \in Ids \X Nat : t[2] \in 1 .. M(t[1]).probing}
PermitInv ==
  /\ permits \in Nat /\ IsFiniteSet(Holders)
  /\ permits + Cardinality(Holders) = MaxConcurrency

\* What the cache holds was not cancelled, so what hooks join was not.
CacheInv ==
  /\ \A ip \in IPs : cache[ip] # 0 => M(<<ip, cache[ip]>>).pc # "cancelled"
  /\ NoWaitOnCancelled

\* The measurements of an address for a request.
MineIn(w, r, ip) == {id \in UNION {w[h] : h \in {r} \cup Asked(r)} : id[1] = ip}
Mine(r, ip) == MineIn(waits, r, ip)

\* The hooks of a request: what they measure is reserved, one that has not begun
\* waits for nothing, they are cancelled together, and the response hook is last.
OrderInv ==
  /\ \A h \in Hooks : \A id \in waits[h] : id[1] \in seen[RequestOf(h)]
  /\ \A h \in Hooks : hook[h] \in {"idle", "failed"} => waits[h] = {}
  /\ \A h \in Hooks : hook[h] = "aborted" => hook[RequestOf(h)] = "aborted"
  /\ \A r \in Requests : hook[r] \in {"measuring", "done"} => HooksEnded(r) /\ cand[r] \subseteq seen[r]
  /\ MeasuredOnce

\* Where durations come from, and why a reserved address has one.
FoundInv ==
  /\ \A h \in Hooks : hook[h] = "done" => \A id \in waits[h] :
       M(id).pc = "done" /\ (M(id).best = Raised \/ results[RequestOf(h)][id[1]] # Missing)
  /\ \A r \in Requests : \A ip \in seen[r] : results[r][ip] # Missing \/ Mine(r, ip) # {}
  /\ \A r \in Requests : hook[r] # "aborted" => \A ip \in IPs : results[r][ip] = Inf =>
       \E u \in Answered(r) \cap exempt : ip \in ips[u]
  /\ \A r \in Requests : \A ip \in IPs : results[r][ip] \notin {Inf, Missing} =>
       \E id \in Mine(r, ip) : M(id).pc = "done" /\ M(id).best = results[r][ip]

IInv ==
  /\ InputTypes /\ HookTypes /\ MeasTypes /\ CacheTypes
  /\ PermitInv /\ CacheInv /\ OrderInv /\ FoundInv
-----------------------------------------------------------------------------
(***************************************************************************)
(* Names of measurements, hooks and probes                                 *)
(***************************************************************************)
LEMMA IdParts ==
  ASSUME NEW m, NEW id
  PROVE  id \in IdsOf(m) <=>
           id = <<id[1], id[2]>> /\ id[1] \in IPs /\ id[2] \in 1 .. Len(m[id[1]])
BY DEF IdsOf

LEMMA IdsAre == Ids = IdsOf(meas) /\ Ids' = IdsOf(meas')
BY DEF Ids, IdsOf

LEMMA MineIs ==
  ASSUME NEW w, NEW r \in Requests, NEW ip, NEW id
  PROVE  id \in MineIn(w, r, ip) <=>
           \E h \in Hooks : RequestOf(h) = r /\ id \in w[h] /\ id[1] = ip
<1>1. \A h \in Hooks : RequestOf(h) = r <=> h \in {r} \cup Asked(r)
  BY SpeedTestAssumption DEF Hooks, RequestOf, Asked
<1>2. {r} \cup Asked(r) \subseteq Hooks BY DEF Hooks, Asked
<1> QED BY <1>1, <1>2 DEF MineIn

LEMMA RequestFacts ==
  /\ \A h \in Hooks : RequestOf(h) \in Requests /\ RequestOf(h) \in Hooks
  /\ \A h \in Hooks : RequestOf(RequestOf(h)) = RequestOf(h)
  /\ \A r \in Requests : r \in Hooks /\ RequestOf(r) = r
  /\ \A u \in Upstreams : u \in Hooks /\ u \notin Requests /\ RequestOf(u) = Owner[u] /\ Owner[u] \in Requests
  /\ \A r : \A u : u \in Asked(r) <=> u \in Upstreams /\ Owner[u] = r
BY SpeedTestAssumption DEF Hooks, RequestOf, Asked

LEMMA Numbered ==
  ASSUME NEW x, NEW n \in Nat
  PROVE  IsFiniteSet({x} \X (1 .. n)) /\ Cardinality({x} \X (1 .. n)) = n
<1> DEFINE f == [k \in 1 .. n |-> <<x, k>>]
<1>1. f \in Bijection(1 .. n, {x} \X (1 .. n))
  <2>1. f \in [1 .. n -> {x} \X (1 .. n)] OBVIOUS
  <2>2. \A a, b \in 1 .. n : f[a] = f[b] => a = b OBVIOUS
  <2>3. \A t \in {x} \X (1 .. n) : \E k \in 1 .. n : f[k] = t OBVIOUS
  <2> QED BY <2>1, <2>2, <2>3 DEF Bijection, Injection, Surjection, IsInjective
<1>2. ExistsBijection(1 .. n, {x} \X (1 .. n)) BY <1>1 DEF ExistsBijection
<1>3. IsFiniteSet(1 .. n) /\ Cardinality(1 .. n) = n BY FS_Interval
<1> HIDE DEF f
<1> QED BY <1>2, <1>3, FS_Bijection

LEMMA SumOfParts ==
  ASSUME NEW S, IsFiniteSet(S), NEW T, IsFiniteSet(T), S \cap T = {}
  PROVE  IsFiniteSet(S \cup T) /\ Cardinality(S \cup T) = Cardinality(S) + Cardinality(T)
<1>1. Cardinality(S) \in Nat /\ Cardinality(T) \in Nat BY FS_CardinalityType
<1>2. Cardinality(S \cap T) = 0 BY FS_EmptySet
<1>3. /\ IsFiniteSet(S \cup T)
      /\ Cardinality(S \cup T) = Cardinality(S) + Cardinality(T) - Cardinality(S \cap T)
  BY FS_Union
<1>4. \A a, b, c, d \in Nat : d = 0 /\ c = a + b - d => c = a + b OBVIOUS
<1>5. Cardinality(S \cup T) \in Nat BY <1>3, FS_CardinalityType
<1> QED BY <1>1, <1>2, <1>3, <1>4, <1>5

LEMMA Regrouped ==
  ASSUME NEW a \in Nat, NEW b \in Nat, NEW v \in Nat, NEW w \in Nat, NEW o \in Nat, a + v = b + w
  PROVE  a + (o + v) = b + (o + w)
OBVIOUS

LEMMA MeasurementOf ==
  ASSUME NEW m \in [IPs -> Seq(Measurement)], NEW id \in IdsOf(m)
  PROVE  m[id[1]][id[2]] \in Measurement
<1>1. id[1] \in IPs /\ id[2] \in 1 .. Len(m[id[1]]) BY IdParts
<1>2. m[id[1]] \in Seq(Measurement) BY <1>1
<1> QED BY <1>1, <1>2, ElementOfSeq

\* A measurement moves on: the others stay.
LEMMA UpdateIs ==
  ASSUME meas \in [IPs -> Seq(Measurement)], NEW id \in Ids, NEW m \in Measurement, Update(id, m)
  PROVE  /\ meas' \in [IPs -> Seq(Measurement)] /\ Ids' = Ids
         /\ \A ip \in IPs : Len(meas'[ip]) = Len(meas[ip])
         /\ M(id)' = m /\ \A j \in Ids : j # id => M(j)' = M(j)
<1> DEFINE ip == id[1]
           n == id[2]
           s == [meas[ip] EXCEPT ![n] = m]
<1>1. id = <<ip, n>> /\ ip \in IPs /\ n \in 1 .. Len(meas[ip]) BY IdParts, IdsAre
<1>2. meas[ip] \in Seq(Measurement) BY <1>1
<1>3. meas' = [meas EXCEPT ![ip] = s] BY DEF Update
<1>4. s \in Seq(Measurement) /\ Len(s) = Len(meas[ip]) BY <1>1, <1>2, ExceptSeq
<1>5. s[n] = m /\ \A k \in 1 .. Len(meas[ip]) : k # n => s[k] = meas[ip][k]
  BY <1>1, <1>2, LenProperties
<1> HIDE DEF s
<1>6. meas' \in [IPs -> Seq(Measurement)] BY <1>1, <1>3, <1>4
<1>7. meas'[ip] = s /\ \A q \in IPs : q # ip => meas'[q] = meas[q] BY <1>1, <1>3
<1>8. \A q \in IPs : Len(meas'[q]) = Len(meas[q]) BY <1>4, <1>7
<1>9. Ids' = Ids
  <2>1. \A j : j \in IdsOf(meas') <=> j \in IdsOf(meas) BY <1>8, IdParts
  <2> QED BY <2>1, IdsAre
<1>10. M(id)' = m BY <1>5, <1>7 DEF M
<1>11. ASSUME NEW j \in Ids, j # id PROVE M(j)' = M(j)
  <2>1. j = <<j[1], j[2]>> /\ j[1] \in IPs /\ j[2] \in 1 .. Len(meas[j[1]]) BY IdParts, IdsAre
  <2>2. CASE j[1] = ip
    <3>1. j[2] # n BY <1>1, <1>11, <2>1, <2>2
    <3> QED BY <1>5, <1>7, <2>1, <2>2, <3>1 DEF M
  <2>3. CASE j[1] # ip BY <1>7, <2>1, <2>3 DEF M
  <2> QED BY <2>2, <2>3
<1> QED BY <1>6, <1>8, <1>9, <1>10, <1>11
-----------------------------------------------------------------------------
(***************************************************************************)
(* Steps of the service                                                    *)
(***************************************************************************)
USE DEF vars, inputs, service, HookOver

\* The hooks' parts of the invariant outlive what the service does.
LEMMA HooksKeep ==
  ASSUME IInv, UNCHANGED <<inputs, hook, waits, seen, results, cand>>, Ids' = Ids,
         \A id \in Ids : M(id).pc = "done" => M(id)'.pc = "done" /\ M(id)'.best = M(id).best
  PROVE  InputTypes' /\ HookTypes' /\ OrderInv' /\ FoundInv'
<1>1. InputTypes' /\ HookTypes' BY DEF IInv, InputTypes, HookTypes
<1>2. OrderInv' BY DEF IInv, OrderInv, HooksEnded, MeasuredOnce
<1>3. \A h \in Hooks : \A id \in waits[h] : id \in Ids BY DEF IInv, HookTypes
<1>4. FoundInv'
  <2>1. ASSUME NEW h \in Hooks, hook[h] = "done", NEW id \in waits[h]
        PROVE  M(id)'.pc = "done" /\ (M(id)'.best = Raised \/ results[RequestOf(h)][id[1]] # Missing)
    BY <1>3, <2>1 DEF IInv, FoundInv
  <2>2. ASSUME NEW r \in Requests, NEW ip \in IPs, results[r][ip] \notin {Inf, Missing}
        PROVE  \E id \in Mine(r, ip) : M(id)'.pc = "done" /\ M(id)'.best = results[r][ip]
    <3>1. PICK id \in Mine(r, ip) : M(id).pc = "done" /\ M(id).best = results[r][ip]
      BY <2>2 DEF IInv, FoundInv
    <3>2. id \in Ids BY <1>3, MineIs DEF Mine
    <3> QED BY <3>1, <3>2
  <2>3. \A r, ip : Mine(r, ip)' = Mine(r, ip) BY DEF Mine
  <2>4. \A r : Answered(r)' = Answered(r) BY DEF Answered
  <2>5. \A r \in Requests : \A ip \in seen[r] : results[r][ip] # Missing \/ Mine(r, ip) # {}
    BY DEF IInv, FoundInv
  <2>6. \A r \in Requests : hook[r] # "aborted" => \A ip \in IPs : results[r][ip] = Inf =>
          \E u \in Answered(r) \cap exempt : ip \in ips[u]
    BY DEF IInv, FoundInv
  <2> QED BY <2>1, <2>2, <2>3, <2>4, <2>5, <2>6 DEF FoundInv
<1> QED BY <1>1, <1>2, <1>4

\* A measurement moves on and its probes take or return permits.
LEMMA PermitsMove ==
  ASSUME IInv, NEW id \in Ids, NEW m \in Measurement, Ids' = Ids, M(id)' = m,
         \A j \in Ids : j # id => M(j)' = M(j),
         permits' \in Nat, permits' + m.probing = permits + M(id).probing
  PROVE  PermitInv'
<1> DEFINE Others == {t \in Holders : t[1] # id}
           Own(n) == {id} \X (1 .. n)
           p == M(id).probing
           q == m.probing
<1>1. p \in Nat /\ q \in Nat /\ permits \in Nat
  <2>1. M(id) \in Measurement BY MeasurementOf, IdsAre DEF IInv, MeasTypes, M
  <2> QED BY <2>1 DEF Measurement, IInv, PermitInv
<1>2. Holders = Others \cup Own(p)
  <2>1. \A t \in Holders : t \in Others \cup Own(p) BY DEF Holders
  <2>2. \A t \in Own(p) : t \in Holders BY <1>1 DEF Holders
  <2> QED BY <2>1, <2>2
<1>3. Holders' = Others \cup Own(q)
  <2>1. \A t \in Ids \X Nat : t \in Holders' <=> t[2] \in 1 .. M(t[1])'.probing BY DEF Holders
  <2>2. \A t \in Holders' : t \in Ids \X Nat BY DEF Holders
  <2>3. ASSUME NEW t \in Ids \X Nat PROVE t \in Holders' <=> t \in Others \cup Own(q)
    <3>1. CASE t[1] = id
      <4>1. t \in Holders' <=> t[2] \in 1 .. q BY <2>1, <3>1
      <4>2. t \in Own(q) <=> t[2] \in 1 .. q BY <3>1
      <4> QED BY <3>1, <4>1, <4>2
    <3>2. CASE t[1] # id
      <4>1. t \in Holders' <=> t[2] \in 1 .. M(t[1]).probing BY <2>1, <3>2
      <4>2. t \in Holders <=> t[2] \in 1 .. M(t[1]).probing BY DEF Holders
      <4> QED BY <3>2, <4>1, <4>2
    <3> QED BY <3>1, <3>2
  <2>4. \A t \in Others \cup Own(q) : t \in Ids \X Nat BY <1>1 DEF Holders
  <2> HIDE DEF Others, Own
  <2> QED BY <2>2, <2>3, <2>4
<1>4. IsFiniteSet(Holders) /\ permits + Cardinality(Holders) = MaxConcurrency
  BY DEF IInv, PermitInv
<1>5. IsFiniteSet(Others)
  <2>1. Others \in SUBSET Holders OBVIOUS
  <2> HIDE DEF Others
  <2> QED BY <1>4, <2>1, FS_Subset
<1>6. /\ IsFiniteSet(Own(p)) /\ Cardinality(Own(p)) = p
      /\ IsFiniteSet(Own(q)) /\ Cardinality(Own(q)) = q
  <2> HIDE DEF p, q
  <2> QED BY <1>1, Numbered
<1>7. Others \cap Own(p) = {} /\ Others \cap Own(q) = {} OBVIOUS
<1> HIDE DEF Others, Own, p, q
<1>8. Cardinality(Others) \in Nat BY <1>5, FS_CardinalityType
<1>9. Cardinality(Holders) = Cardinality(Others) + p
  BY <1>1, <1>2, <1>5, <1>6, <1>7, SumOfParts
<1>10. IsFiniteSet(Holders') /\ Cardinality(Holders') = Cardinality(Others) + q
  BY <1>1, <1>3, <1>5, <1>6, <1>7, SumOfParts
<1>11. permits' + Cardinality(Holders') = MaxConcurrency
  <2>1. permits' + q = permits + p BY DEF p, q
  <2>2. PICK o \in Nat : o = Cardinality(Others) BY <1>8
  <2>3. PICK a \in Nat : a = permits' OBVIOUS
  <2>4. PICK b \in Nat : b = permits BY <1>1
  <2>5. PICK v \in Nat, w \in Nat : v = q /\ w = p BY <1>1
  <2>6. a + v = b + w BY <2>1, <2>3, <2>4, <2>5
  <2>7. a + (o + v) = b + (o + w) BY <2>6, Regrouped
  <2> QED BY <1>4, <1>9, <1>10, <2>2, <2>3, <2>4, <2>5, <2>7
<1> QED BY <1>10, <1>11 DEF PermitInv

LEMMA MeasurementStep ==
  ASSUME IInv, NEW id \in Ids, NEW m \in Measurement, Update(id, m), M(id).pc # "done",
         m.pc = "cancelled" <=> M(id).pc = "cancelled",
         m.waiting + m.probing <= ProbeCount, m.pc = "done" => m.waiting + m.probing = 0,
         permits' \in Nat, permits' + m.probing = permits + M(id).probing,
         cache' \in [IPs -> Nat], \A ip \in IPs : cache'[ip] \in {0, cache[ip]},
         UNCHANGED <<inputs, hook, waits, seen, results, cand, expiries>>
  PROVE  IInv'
<1>1. /\ meas' \in [IPs -> Seq(Measurement)] /\ Ids' = Ids
      /\ \A ip \in IPs : Len(meas'[ip]) = Len(meas[ip])
      /\ M(id)' = m /\ \A j \in Ids : j # id => M(j)' = M(j)
  BY UpdateIs DEF IInv, MeasTypes
<1>2. InputTypes' /\ HookTypes' /\ OrderInv' /\ FoundInv'
  <2>1. \A j \in Ids : M(j).pc = "done" => M(j)' = M(j) BY <1>1
  <2> QED BY <1>1, <2>1, HooksKeep
<1>3. MeasTypes'
  <2>1. \A j \in Ids : Pending(j)' = M(j)'.waiting + M(j)'.probing BY DEF Pending
  <2>2. ASSUME NEW j \in Ids
        PROVE  Pending(j)' <= ProbeCount /\ (M(j)'.pc = "done" => Pending(j)' = 0)
    <3>1. CASE j = id BY <1>1, <2>1, <3>1
    <3>2. CASE j # id
      <4>1. Pending(j)' = Pending(j) BY <1>1, <3>2 DEF Pending
      <4> QED BY <1>1, <3>2, <4>1 DEF IInv, MeasTypes
    <3> QED BY <3>1, <3>2
  <2> QED BY <1>1, <2>2 DEF MeasTypes
<1>4. CacheTypes'
  <2>1. \A ip \in IPs : Len(meas[ip]) \in Nat BY LenProperties DEF IInv, MeasTypes
  <2>2. \A ip \in IPs : cache[ip] <= Len(meas[ip]) BY DEF IInv, CacheTypes
  <2>3. \A ip \in IPs : cache'[ip] <= Len(meas'[ip]) BY <1>1, <2>1, <2>2
  <2> QED BY <2>3 DEF IInv, CacheTypes
<1>5. PermitInv' BY <1>1, PermitsMove
<1>6. \A j \in Ids : M(j)'.pc = "cancelled" <=> M(j).pc = "cancelled" BY <1>1
<1>7. CacheInv'
  <2>1. ASSUME NEW ip \in IPs, cache'[ip] # 0 PROVE M(<<ip, cache[ip]>>)'.pc # "cancelled"
    <3>1. cache'[ip] = cache[ip] /\ cache[ip] # 0 BY <2>1
    <3>2. cache[ip] \in Nat /\ cache[ip] <= Len(meas[ip]) /\ Len(meas[ip]) \in Nat
      BY LenProperties DEF IInv, CacheTypes, MeasTypes
    <3>3. cache[ip] \in 1 .. Len(meas[ip]) BY <3>1, <3>2
    <3>4. <<ip, cache[ip]>> \in Ids BY <3>3, IdParts, IdsAre
    <3>5. M(<<ip, cache[ip]>>).pc # "cancelled" BY <3>1 DEF IInv, CacheInv
    <3>6. PICK j \in Ids : j = <<ip, cache[ip]>> BY <3>4
    <3>7. M(j)'.pc # "cancelled" BY <1>6, <3>5, <3>6
    <3> QED BY <3>1, <3>6, <3>7 DEF M
  <2>2. NoWaitOnCancelled'
    <3>1. \A j : Waiters(j)' = Waiters(j) BY DEF Waiters
    <3> QED BY <1>1, <1>6, <3>1 DEF IInv, CacheInv, NoWaitOnCancelled
  <2> QED BY <2>1, <2>2 DEF CacheInv
<1> QED BY <1>2, <1>3, <1>4, <1>5, <1>7 DEF IInv

\* What is known of a measurement.
LEMMA MeasurementFacts ==
  ASSUME IInv, NEW id \in Ids
  PROVE  /\ M(id) \in Measurement /\ M(id).waiting \in Nat /\ M(id).probing \in Nat
         /\ M(id).waiting + M(id).probing <= ProbeCount
         /\ ProbeCount \in Nat /\ permits \in Nat /\ MaxConcurrency \in Nat
         /\ M(id).found \subseteq {"rtt", "raised"} /\ M(id).best \in Rtts \cup {NoRtt, Raised}
<1>1. M(id) \in Measurement BY MeasurementOf, IdsAre DEF IInv, MeasTypes, M
<1>2. Pending(id) <= ProbeCount BY DEF IInv, MeasTypes
<1> QED BY <1>1, <1>2, SpeedTestAssumption DEF Measurement, Pending, IInv, PermitInv

LEMMA ServiceSteps ==
  ASSUME IInv, NEW id \in Ids,
         Acquire(id) \/ EndProbe(id) \/ Decide(id) \/ CancelProbes(id) \/ Settle(id)
  PROVE  IInv'
<1> DEFINE c == M(id)
<1>1. /\ c \in Measurement /\ c.waiting \in Nat /\ c.probing \in Nat
      /\ c.waiting + c.probing <= ProbeCount /\ ProbeCount \in Nat /\ permits \in Nat
      /\ c.found \subseteq {"rtt", "raised"} /\ c.best \in Rtts \cup {NoRtt, Raised}
  BY MeasurementFacts
<1>2. cache \in [IPs -> Nat] BY DEF IInv, CacheTypes
<1>3. Pending(id) = c.waiting + c.probing BY DEF Pending
<1>4. id[1] \in IPs BY IdParts, IdsAre
<1>5. CASE Acquire(id)
  <2>1. PICK m : m = [c EXCEPT !.waiting = @ - 1, !.probing = @ + 1] OBVIOUS
  <2>2. /\ c.pc = "running" /\ c.waiting > 0 /\ permits > 0 /\ Update(id, m)
        /\ permits' = permits - 1
        /\ UNCHANGED <<inputs, hook, waits, seen, results, cand, cache, expiries>>
    BY <1>5, <2>1 DEF Acquire
  <2> HIDE DEF c
  <2>5. c.waiting - 1 \in Nat /\ c.probing + 1 \in Nat BY <1>1, <2>2
  <2>3. /\ m \in Measurement /\ m.pc = "running"
        /\ m.waiting = c.waiting - 1 /\ m.probing = c.probing + 1
    BY <1>1, <2>1, <2>2, <2>5 DEF Measurement
  <2>4. /\ m.waiting + m.probing <= ProbeCount /\ permits' \in Nat
        /\ permits' + m.probing = permits + c.probing
    BY <1>1, <2>2, <2>3
  <2> QED BY <1>2, <2>2, <2>3, <2>4, MeasurementStep DEF c
<1>6. CASE EndProbe(id)
  <2>1. PICK o \in {{"rtt"}, {"raised"}, {}} :
          Update(id, [c EXCEPT !.probing = @ - 1, !.found = @ \cup o])
    BY <1>6 DEF EndProbe
  <2>2. PICK m : m = [c EXCEPT !.probing = @ - 1, !.found = @ \cup o] OBVIOUS
  <2>3. /\ c.pc = "running" /\ c.probing > 0 /\ Update(id, m)
        /\ permits' = permits + 1
        /\ UNCHANGED <<inputs, hook, waits, seen, results, cand, cache, expiries>>
    BY <1>6, <2>1, <2>2 DEF EndProbe
  <2> HIDE DEF c
  <2>6. c.probing - 1 \in Nat BY <1>1, <2>3
  <2>4. /\ m \in Measurement /\ m.pc = "running"
        /\ m.waiting = c.waiting /\ m.probing = c.probing - 1
    BY <1>1, <2>2, <2>3, <2>6 DEF Measurement
  <2>5. /\ m.waiting + m.probing <= ProbeCount /\ permits' \in Nat
        /\ permits' + m.probing = permits + c.probing
    BY <1>1, <2>3, <2>4
  <2> QED BY <1>2, <2>3, <2>4, <2>5, MeasurementStep DEF c
<1>7. CASE Decide(id)
  <2>1. PICK v \in Rtts \cup {Raised, NoRtt} : Update(id, [c EXCEPT !.pc = "ending", !.best = v])
    BY <1>7 DEF Decide
  <2>2. PICK m : m = [c EXCEPT !.pc = "ending", !.best = v] OBVIOUS
  <2>3. /\ c.pc = "running" /\ Update(id, m)
        /\ UNCHANGED <<inputs, hook, waits, seen, results, cand, cache, permits, expiries>>
    BY <1>7, <2>1, <2>2 DEF Decide
  <2> HIDE DEF c
  <2>4. /\ m \in Measurement /\ m.pc = "ending"
        /\ m.waiting = c.waiting /\ m.probing = c.probing
    BY <1>1, <2>2, <2>3 DEF Measurement
  <2> QED BY <1>1, <1>2, <2>3, <2>4, MeasurementStep DEF c
<1>8. CASE CancelProbes(id)
  <2>1. PICK m : m = [c EXCEPT !.waiting = 0, !.probing = 0] OBVIOUS
  <2>2. /\ c.pc \in {"ending", "cancelled"} /\ Update(id, m) /\ permits' = permits + c.probing
        /\ UNCHANGED <<inputs, hook, waits, seen, results, cand, cache, expiries>>
    BY <1>8, <2>1 DEF CancelProbes
  <2> HIDE DEF c
  <2>3. m \in Measurement /\ m.pc = c.pc /\ m.waiting = 0 /\ m.probing = 0
    BY <1>1, <2>1 DEF Measurement
  <2>4. /\ m.waiting + m.probing <= ProbeCount /\ permits' \in Nat
        /\ permits' + m.probing = permits + c.probing
    BY <1>1, <2>2, <2>3
  <2>5. m.pc # "done" /\ c.pc # "done" BY <2>2, <2>3
  <2> QED BY <1>2, <2>2, <2>3, <2>4, <2>5, MeasurementStep DEF c
<1>9. CASE Settle(id)
  <2>1. PICK m : m = [c EXCEPT !.pc = "done", !.found = {}] OBVIOUS
  <2>2. /\ c.pc = "ending" /\ c.waiting + c.probing = 0 /\ Update(id, m)
        /\ cache' = [cache EXCEPT ![id[1]] = IF @ = id[2] /\ c.best = Raised THEN 0 ELSE @]
        /\ UNCHANGED <<inputs, hook, waits, seen, results, cand, permits, expiries>>
    BY <1>3, <1>9, <2>1 DEF Settle
  <2> HIDE DEF c
  <2>3. /\ m \in Measurement /\ m.pc = "done"
        /\ m.waiting = c.waiting /\ m.probing = c.probing
    BY <1>1, <2>1 DEF Measurement
  <2>4. cache' \in [IPs -> Nat] /\ \A ip \in IPs : cache'[ip] \in {0, cache[ip]} BY <1>2, <1>4, <2>2
  <2> QED BY <1>1, <2>2, <2>3, <2>4, MeasurementStep DEF c
<1> QED BY <1>5, <1>6, <1>7, <1>8, <1>9

\* The cache entry of an address is dropped.
LEMMA ExpireStep ==
  ASSUME IInv, NEW ip \in IPs, Expire(ip)
  PROVE  IInv'
<1>1. /\ cache' = [cache EXCEPT ![ip] = 0] /\ expiries < MaxExpiries /\ expiries' = expiries + 1
      /\ UNCHANGED <<inputs, hook, waits, seen, results, cand, meas, permits>>
  BY DEF Expire
<1>2. Ids' = Ids /\ \A id : M(id)' = M(id) BY <1>1 DEF Ids, M
<1>3. InputTypes' /\ HookTypes' /\ OrderInv' /\ FoundInv' BY <1>1, <1>2, HooksKeep
<1>4. MeasTypes' BY <1>1, <1>2 DEF IInv, MeasTypes, Pending
<1>5. cache' \in [IPs -> Nat] /\ \A q \in IPs : cache'[q] \in {0, cache[q]}
  BY <1>1 DEF IInv, CacheTypes
<1>6. CacheTypes'
  <2>1. \A q \in IPs : Len(meas[q]) \in Nat BY LenProperties DEF IInv, MeasTypes
  <2>2. \A q \in IPs : cache'[q] <= Len(meas[q]) BY <1>5, <2>1 DEF IInv, CacheTypes
  <2>3. expiries' \in 0 .. MaxExpiries BY <1>1, SpeedTestAssumption DEF IInv, CacheTypes
  <2> QED BY <1>1, <1>5, <2>2, <2>3 DEF CacheTypes
<1>7. PermitInv'
  <2>1. Holders' = Holders BY <1>1, <1>2 DEF Holders
  <2> QED BY <1>1, <2>1 DEF IInv, PermitInv
<1>8. CacheInv'
  <2>1. \A q \in IPs : cache'[q] # 0 => meas'[q][cache'[q]].pc # "cancelled"
    BY <1>1, <1>5 DEF IInv, CacheInv, M
  <2>2. NoWaitOnCancelled'
    <3>1. \A j : Waiters(j)' = Waiters(j) BY <1>1 DEF Waiters
    <3> QED BY <1>2, <3>1 DEF IInv, CacheInv, NoWaitOnCancelled
  <2> QED BY <2>1, <2>2 DEF CacheInv, M
<1> QED BY <1>3, <1>4, <1>6, <1>7, <1>8 DEF IInv
-----------------------------------------------------------------------------
(***************************************************************************)
(* Hooks begin                                                             *)
(***************************************************************************)
LEMMA FreshIs ==
  Fresh \in Measurement /\ Fresh.pc = "running" /\ Fresh.waiting = ProbeCount /\ Fresh.probing = 0
BY SpeedTestAssumption DEF Fresh, Measurement

\* What a hook does to the measurements of its addresses: those that are cached
\* are joined, the others are started, and none of them was cancelled.
LEMMA Measured ==
  ASSUME IInv, NEW h \in Hooks, NEW list \in SUBSET IPs, Measure(h, list),
         UNCHANGED <<permits, expiries>>
  PROVE  /\ \A id \in Ids : id \in Ids' /\ M(id)' = M(id)
         /\ \A id \in Ids' : id \in Ids \/ M(id)' = Fresh
         /\ MeasTypes' /\ CacheTypes' /\ PermitInv'
         /\ \A ip \in IPs : cache'[ip] # 0 => meas'[ip][cache'[ip]].pc # "cancelled"
         /\ waits' \in [Hooks -> SUBSET (Ids')]
         /\ \A g \in Hooks : g # h => waits'[g] = waits[g]
         /\ \A ip \in list : \E id \in waits'[h] : id[1] = ip
         /\ \A id \in waits'[h] : id[1] \in list /\ M(id)'.pc # "cancelled"
<1> DEFINE Started(ip) == ip \in list /\ cache[ip] = 0
<1>1. /\ meas' = [ip \in IPs |-> IF Started(ip) THEN Append(meas[ip], Fresh) ELSE meas[ip]]
      /\ cache' = [ip \in IPs |-> IF Started(ip) THEN Len(meas[ip]) + 1 ELSE cache[ip]]
      /\ waits' = [waits EXCEPT ![h] = {<<ip, cache'[ip]>> : ip \in list}]
  BY DEF Measure
<1>2. /\ meas \in [IPs -> Seq(Measurement)] /\ cache \in [IPs -> Nat]
      /\ \A ip \in IPs : cache[ip] <= Len(meas[ip])
  BY DEF IInv, MeasTypes, CacheTypes
<1>3. ASSUME NEW ip \in IPs
      PROVE  /\ meas'[ip] \in Seq(Measurement) /\ Len(meas[ip]) \in Nat /\ Len(meas'[ip]) \in Nat
             /\ Len(meas[ip]) <= Len(meas'[ip])
             /\ \A k \in 1 .. Len(meas[ip]) : meas'[ip][k] = meas[ip][k]
             /\ \A k \in 1 .. Len(meas'[ip]) : k \in 1 .. Len(meas[ip]) \/ meas'[ip][k] = Fresh
             /\ Started(ip) => /\ cache'[ip] = Len(meas[ip]) + 1 /\ cache'[ip] = Len(meas'[ip])
                               /\ meas'[ip][cache'[ip]] = Fresh
             /\ ~Started(ip) => meas'[ip] = meas[ip] /\ cache'[ip] = cache[ip]
  <2>1. meas[ip] \in Seq(Measurement) /\ Len(meas[ip]) \in Nat BY <1>2, LenProperties
  <2>2. CASE Started(ip)
    <3>1. meas'[ip] = Append(meas[ip], Fresh) /\ cache'[ip] = Len(meas[ip]) + 1 BY <1>1, <2>2
    <3>2. /\ Append(meas[ip], Fresh) \in Seq(Measurement)
          /\ Len(Append(meas[ip], Fresh)) = Len(meas[ip]) + 1
          /\ \A k \in 1 .. Len(meas[ip]) : Append(meas[ip], Fresh)[k] = meas[ip][k]
          /\ Append(meas[ip], Fresh)[Len(meas[ip]) + 1] = Fresh
      BY <2>1, FreshIs, AppendProperties
    <3>3. \A k \in 1 .. Len(meas[ip]) + 1 : k \in 1 .. Len(meas[ip]) \/ k = Len(meas[ip]) + 1
      BY <2>1
    <3> QED BY <2>1, <2>2, <3>1, <3>2, <3>3
  <2>3. CASE ~Started(ip)
    <3>1. meas'[ip] = meas[ip] /\ cache'[ip] = cache[ip] BY <1>1, <2>3
    <3> QED BY <2>1, <2>3, <3>1
  <2> QED BY <2>2, <2>3
<1>4. \A id \in Ids : id \in Ids' /\ M(id)' = M(id)
  <2> SUFFICES ASSUME NEW id \in Ids PROVE id \in Ids' /\ M(id)' = M(id) OBVIOUS
  <2>1. id = <<id[1], id[2]>> /\ id[1] \in IPs /\ id[2] \in 1 .. Len(meas[id[1]]) BY IdParts, IdsAre
  <2>2. id[2] \in 1 .. Len(meas'[id[1]]) BY <1>3, <2>1
  <2> QED BY <1>3, <2>1, <2>2, IdParts, IdsAre DEF M
<1>5. \A id \in Ids' : id \in Ids \/ M(id)' = Fresh
  <2> SUFFICES ASSUME NEW id \in Ids' PROVE id \in Ids \/ M(id)' = Fresh OBVIOUS
  <2>1. id = <<id[1], id[2]>> /\ id[1] \in IPs /\ id[2] \in 1 .. Len(meas'[id[1]]) BY IdParts, IdsAre
  <2> QED BY <1>3, <2>1, IdParts, IdsAre DEF M
<1>6. MeasTypes'
  <2>1. meas' \in [IPs -> Seq(Measurement)] BY <1>1, <1>3
  <2>2. ASSUME NEW id \in Ids'
        PROVE  Pending(id)' <= ProbeCount /\ (M(id)'.pc = "done" => Pending(id)' = 0)
    <3>1. Pending(id)' = M(id)'.waiting + M(id)'.probing BY DEF Pending
    <3>2. CASE id \in Ids
      <4>1. Pending(id)' = Pending(id) BY <1>4, <3>1, <3>2 DEF Pending
      <4> QED BY <1>4, <3>2, <4>1 DEF IInv, MeasTypes
    <3>3. CASE M(id)' = Fresh
      <4>1. Pending(id)' = ProbeCount + 0 /\ M(id)'.pc = "running" BY <3>1, <3>3, FreshIs
      <4> QED BY <4>1, SpeedTestAssumption
    <3> QED BY <1>5, <3>2, <3>3
  <2> QED BY <2>1, <2>2 DEF MeasTypes
<1>7. CacheTypes'
  <2>1. ASSUME NEW ip \in IPs PROVE cache'[ip] \in Nat /\ cache'[ip] <= Len(meas'[ip])
    <3>1. CASE Started(ip) BY <1>3, <3>1
    <3>2. CASE ~Started(ip) BY <1>2, <1>3, <3>2
    <3> QED BY <3>1, <3>2
  <2> QED BY <1>1, <2>1 DEF IInv, CacheTypes
<1>8. PermitInv'
  <2>1. \A t : t \in Holders <=> t \in Ids \X Nat /\ t[2] \in 1 .. M(t[1]).probing BY DEF Holders
  <2>2. \A t : t \in Holders' <=> t \in Ids' \X Nat /\ t[2] \in 1 .. M(t[1])'.probing BY DEF Holders
  <2>3. ASSUME NEW t \in Holders' PROVE t \in Holders
    <3>1. t \in Ids' \X Nat /\ t[2] \in 1 .. M(t[1])'.probing /\ t[1] \in Ids' BY <2>2
    <3>2. M(t[1])' # Fresh BY <3>1, FreshIs
    <3>3. t[1] \in Ids BY <1>5, <3>1, <3>2
    <3> QED BY <1>4, <2>1, <3>1, <3>3
  <2>4. ASSUME NEW t \in Holders PROVE t \in Holders'
    <3>1. t \in Ids \X Nat /\ t[2] \in 1 .. M(t[1]).probing /\ t[1] \in Ids BY <2>1
    <3> QED BY <1>4, <2>2, <3>1
  <2>5. Holders' = Holders BY <2>3, <2>4
  <2> QED BY <2>5 DEF IInv, PermitInv
<1>9. \A ip \in IPs : cache'[ip] # 0 => meas'[ip][cache'[ip]].pc # "cancelled"
  <2> SUFFICES ASSUME NEW ip \in IPs, cache'[ip] # 0 PROVE meas'[ip][cache'[ip]].pc # "cancelled"
    OBVIOUS
  <2>1. CASE Started(ip) BY <1>3, <2>1, FreshIs
  <2>2. CASE ~Started(ip)
    <3>1. cache[ip] # 0 /\ meas'[ip] = meas[ip] /\ cache'[ip] = cache[ip] BY <1>3, <2>2
    <3>2. meas[ip][cache[ip]].pc # "cancelled" BY <3>1 DEF IInv, CacheInv, M
    <3> QED BY <3>1, <3>2
  <2> QED BY <2>1, <2>2
<1>10. waits \in [Hooks -> SUBSET Ids] BY DEF IInv, HookTypes
<1>11. waits'[h] = {<<ip, cache'[ip]>> : ip \in list} /\ \A g \in Hooks : g # h => waits'[g] = waits[g]
  BY <1>1, <1>10
<1>12. ASSUME NEW ip \in list
       PROVE  <<ip, cache'[ip]>> \in Ids' /\ meas'[ip][cache'[ip]].pc # "cancelled"
  <2>1. ip \in IPs OBVIOUS
  <2>2. cache'[ip] # 0
    <3>1. CASE Started(ip) BY <1>3, <2>1, <3>1
    <3>2. CASE ~Started(ip) BY <1>3, <2>1, <3>2
    <3> QED BY <3>1, <3>2
  <2>3. cache'[ip] \in 1 .. Len(meas'[ip])
    <3>1. cache'[ip] \in Nat /\ cache'[ip] <= Len(meas'[ip]) BY <1>7, <2>1 DEF CacheTypes
    <3> QED BY <1>3, <2>1, <2>2, <3>1
  <2>4. PICK n : n = cache'[ip] OBVIOUS
  <2>5. <<ip, n>> \in Ids' BY <2>1, <2>3, <2>4, IdParts, IdsAre
  <2> QED BY <1>9, <2>1, <2>2, <2>4, <2>5
<1>13. \A id \in waits'[h] : id \in Ids' /\ id[1] \in list /\ M(id)'.pc # "cancelled"
  <2> SUFFICES ASSUME NEW id \in waits'[h]
               PROVE  id \in Ids' /\ id[1] \in list /\ M(id)'.pc # "cancelled"
    OBVIOUS
  <2>1. PICK ip \in list : id = <<ip, cache'[ip]>> BY <1>11
  <2>2. id[1] = ip /\ id[2] = cache'[ip] BY <2>1
  <2> QED BY <1>12, <2>1, <2>2 DEF M
<1>14. \A ip \in list : \E id \in waits'[h] : id[1] = ip
  <2> SUFFICES ASSUME NEW ip \in list PROVE \E id \in waits'[h] : id[1] = ip OBVIOUS
  <2>1. PICK n : n = cache'[ip] OBVIOUS
  <2>2. <<ip, n>> \in waits'[h] BY <1>11, <2>1
  <2>3. <<ip, n>>[1] = ip OBVIOUS
  <2> QED BY <2>2, <2>3
<1>15. waits' \in [Hooks -> SUBSET (Ids')]
  <2>1. \A g \in Hooks : waits'[g] \in SUBSET (Ids')
    <3>1. ASSUME NEW g \in Hooks, NEW id \in waits'[g] PROVE id \in Ids'
      <4>1. CASE g = h BY <1>13, <3>1, <4>1
      <4>2. CASE g # h BY <1>4, <1>10, <1>11, <3>1, <4>2
      <4> QED BY <4>1, <4>2
    <3> QED BY <3>1
  <2>2. waits' = [g \in Hooks |-> waits'[g]] BY <1>1, <1>10
  <2> QED BY <2>1, <2>2
<1> HIDE DEF Started
<1> QED BY <1>4, <1>5, <1>6, <1>7, <1>8, <1>9, <1>11, <1>13, <1>14, <1>15

\* A hook reserves addresses and begins to measure them; the response hook may
\* give addresses of an exempt result the duration inf.
LEMMA EnterStep ==
  ASSUME IInv, NEW h \in Hooks, hook[h] = "idle",
         NEW new \in SUBSET IPs, new \cap seen[RequestOf(h)] = {}, EnterHook(h, new),
         UNCHANGED <<inputs, permits, expiries>>,
         cand' \in [Requests -> SUBSET IPs], \A r \in Requests : r # h => cand'[r] = cand[r],
         h \in Requests => HooksEnded(h) /\ cand'[h] \subseteq seen[h] \cup new,
         results' \in [Requests -> [IPs -> Rtts \cup {Inf, NoRtt, Missing}]],
         \A r \in Requests : \A ip \in IPs : results'[r][ip] # results[r][ip] =>
           results'[r][ip] = Inf /\ \E u \in Answered(r) \cap exempt : ip \in ips[u]
  PROVE  IInv'
<1> DEFINE q == RequestOf(h)
<1>1. /\ Measure(h, new) /\ seen' = [seen EXCEPT ![q] = @ \cup new]
      /\ hook' = [hook EXCEPT ![h] = IF new = {} THEN "done" ELSE "measuring"]
  BY DEF EnterHook
<1>2. /\ \A id \in Ids : id \in Ids' /\ M(id)' = M(id)
      /\ \A id \in Ids' : id \in Ids \/ M(id)' = Fresh
      /\ MeasTypes' /\ CacheTypes' /\ PermitInv'
      /\ \A ip \in IPs : cache'[ip] # 0 => meas'[ip][cache'[ip]].pc # "cancelled"
      /\ waits' \in [Hooks -> SUBSET (Ids')]
      /\ \A g \in Hooks : g # h => waits'[g] = waits[g]
      /\ \A ip \in new : \E id \in waits'[h] : id[1] = ip
      /\ \A id \in waits'[h] : id[1] \in new /\ M(id)'.pc # "cancelled"
  BY <1>1, Measured
<1>3. /\ hook \in [Hooks -> {"idle", "measuring"} \cup HookOver] /\ waits \in [Hooks -> SUBSET Ids]
      /\ seen \in [Requests -> SUBSET IPs]
  BY DEF IInv, HookTypes
<1>4. q \in Requests BY RequestFacts
<1>5. /\ seen' \in [Requests -> SUBSET IPs] /\ seen'[q] = seen[q] \cup new
      /\ \A r \in Requests : seen[r] \subseteq seen'[r]
      /\ \A r \in Requests : r # q => seen'[r] = seen[r]
  BY <1>1, <1>3, <1>4
<1>6. /\ hook' \in [Hooks -> {"idle", "measuring"} \cup HookOver]
      /\ hook'[h] \in {"done", "measuring"} /\ (hook'[h] = "done" => new = {})
      /\ \A g \in Hooks : g # h => hook'[g] = hook[g]
  BY <1>1, <1>3
<1>7. InputTypes' /\ HookTypes' BY <1>2, <1>5, <1>6 DEF IInv, InputTypes, HookTypes
<1>8. waits[h] = {} BY DEF IInv, OrderInv
<1>9. \A g \in Hooks : \A id \in waits[g] : id \in waits'[g] BY <1>2, <1>8
<1>10. OrderInv'
  <2>1. ASSUME NEW g \in Hooks, NEW id \in waits'[g] PROVE id[1] \in seen'[RequestOf(g)]
    <3>1. CASE g = h BY <1>2, <1>5, <2>1, <3>1
    <3>2. CASE g # h
      <4>1. id[1] \in seen[RequestOf(g)] BY <1>2, <2>1, <3>2 DEF IInv, OrderInv
      <4> QED BY <1>5, <4>1, RequestFacts
    <3> QED BY <3>1, <3>2
  <2>2. \A g \in Hooks : hook'[g] \in {"idle", "failed"} => waits'[g] = {}
    BY <1>2, <1>6 DEF IInv, OrderInv
  <2>3. ASSUME NEW g \in Hooks, hook'[g] = "aborted" PROVE hook'[RequestOf(g)] = "aborted"
    <3>1. hook[g] = "aborted" BY <1>6, <2>3
    <3>2. hook[RequestOf(g)] = "aborted" BY <3>1 DEF IInv, OrderInv
    <3> QED BY <1>6, <3>2, RequestFacts
  <2>4. ASSUME NEW r \in Requests, hook'[r] \in {"measuring", "done"}
        PROVE  (\A u \in Asked(r) : hook'[u] \in HookOver) /\ cand'[r] \subseteq seen'[r]
    <3>1. CASE r = h
      <4>1. q = h /\ \A u \in Asked(h) : u \in Hooks /\ u # h BY <3>1, RequestFacts
      <4> QED BY <1>5, <1>6, <3>1, <4>1 DEF HooksEnded
    <3>2. CASE r # h
      <4>1. hook[r] \in {"measuring", "done"} BY <1>6, <2>4, <3>2, RequestFacts
      <4>2. (\A u \in Asked(r) : hook[u] \in HookOver) /\ cand[r] \subseteq seen[r]
        BY <4>1 DEF IInv, OrderInv, HooksEnded
      <4>3. \A u \in Asked(r) : u \in Hooks /\ u # h BY <4>2, RequestFacts
      <4> QED BY <1>5, <1>6, <3>2, <4>2, <4>3
    <3> QED BY <3>1, <3>2
  <2>5. ASSUME NEW f \in Hooks, NEW g \in Hooks, f # g, RequestOf(f) = RequestOf(g)
        PROVE  {id[1] : id \in waits'[f]} \cap {id[1] : id \in waits'[g]} = {}
    <3>1. \A e \in Hooks : e # h => \A id \in waits'[e] : id[1] \in seen[RequestOf(e)]
      BY <1>2 DEF IInv, OrderInv
    <3>2. \A id \in waits'[h] : id[1] \notin seen[q] BY <1>2
    <3>3. CASE f = h
      <4>1. \A id \in waits'[g] : id[1] \in seen[q] BY <2>5, <3>1, <3>3
      <4> QED BY <3>2, <3>3, <4>1
    <3>4. CASE g = h
      <4>1. \A id \in waits'[f] : id[1] \in seen[q] BY <2>5, <3>1, <3>4
      <4> QED BY <3>2, <3>4, <4>1
    <3>5. CASE f # h /\ g # h
      <4>1. waits'[f] = waits[f] /\ waits'[g] = waits[g] BY <1>2, <3>5
      <4> QED BY <2>5, <4>1 DEF IInv, OrderInv, MeasuredOnce
    <3> QED BY <3>3, <3>4, <3>5
  <2>6. MeasuredOnce' BY <2>5 DEF MeasuredOnce
  <2> QED BY <2>1, <2>2, <2>3, <2>4, <2>6 DEF OrderInv, HooksEnded
<1>11. CacheInv'
  <2>1. ASSUME NEW id \in Ids', M(id)'.pc = "cancelled", NEW g \in Hooks,
               hook'[g] = "measuring", id \in waits'[g]
        PROVE  FALSE
    <3>1. id \in Ids /\ M(id).pc = "cancelled" BY <1>2, <2>1, FreshIs
    <3>2. g # h BY <1>2, <2>1
    <3>3. hook[g] = "measuring" /\ id \in waits[g] BY <1>2, <1>6, <2>1, <3>2
    <3> QED BY <3>1, <3>3 DEF IInv, CacheInv, NoWaitOnCancelled, Waiters
  <2>2. NoWaitOnCancelled' BY <2>1 DEF NoWaitOnCancelled, Waiters
  <2> QED BY <1>2, <2>2 DEF CacheInv, M
<1>12. \A r \in Requests : \A ip, id : id \in Mine(r, ip) => id \in MineIn(waits', r, ip) /\ id \in Ids
  BY <1>3, <1>9, MineIs DEF Mine
<1>13. \A r \in Requests : \A ip \in IPs : results[r][ip] # Missing => results'[r][ip] # Missing
  BY SpeedTestAssumption
<1>14. FoundInv'
  <2>1. ASSUME NEW g \in Hooks, hook'[g] = "done", NEW id \in waits'[g]
        PROVE  M(id)'.pc = "done" /\ (M(id)'.best = Raised \/ results'[RequestOf(g)][id[1]] # Missing)
    <3>1. g # h BY <1>2, <1>6, <2>1
    <3>2. hook[g] = "done" /\ id \in waits[g] /\ id \in Ids BY <1>2, <1>3, <1>6, <2>1, <3>1
    <3>3. M(id).pc = "done" /\ (M(id).best = Raised \/ results[RequestOf(g)][id[1]] # Missing)
      BY <3>2 DEF IInv, FoundInv
    <3>4. id[1] \in IPs BY <3>2, IdParts, IdsAre
    <3> QED BY <1>2, <1>13, <3>2, <3>3, <3>4, RequestFacts
  <2>2. ASSUME NEW r \in Requests, NEW ip \in seen'[r]
        PROVE  results'[r][ip] # Missing \/ MineIn(waits', r, ip) # {}
    <3>1. ip \in IPs BY <1>5
    <3>2. CASE ip \in seen[r]
      <4>1. results[r][ip] # Missing \/ Mine(r, ip) # {} BY <3>2 DEF IInv, FoundInv
      <4> QED BY <1>12, <1>13, <3>1, <4>1
    <3>3. CASE ip \notin seen[r]
      <4>1. r = q /\ ip \in new BY <1>5, <3>3
      <4>2. PICK id \in waits'[h] : id[1] = ip BY <1>2, <4>1
      <4>3. id \in MineIn(waits', r, ip) BY <4>1, <4>2, MineIs
      <4> QED BY <4>3
    <3> QED BY <3>2, <3>3
  <2>3. \A r \in Requests : \A u \in Answered(r) : hook'[u] = "done" /\ u \in Asked(r)
    BY <1>6, RequestFacts DEF Answered
  <2>4. ASSUME NEW r \in Requests, hook'[r] # "aborted", NEW ip \in IPs, results'[r][ip] = Inf
        PROVE  \E u \in Asked(r) : hook'[u] = "done" /\ u \in exempt /\ ip \in ips[u]
    <3>1. hook[r] # "aborted" BY <1>6, <2>4, RequestFacts
    <3>2. \E u \in Answered(r) \cap exempt : ip \in ips[u] BY <2>4, <3>1 DEF IInv, FoundInv
    <3> QED BY <2>3, <3>2
  <2>5. ASSUME NEW r \in Requests, NEW ip \in IPs, results'[r][ip] \notin {Inf, Missing}
        PROVE  \E id \in MineIn(waits', r, ip) : M(id)'.pc = "done" /\ M(id)'.best = results'[r][ip]
    <3>1. results'[r][ip] = results[r][ip] BY <2>5
    <3>2. PICK id \in Mine(r, ip) : M(id).pc = "done" /\ M(id).best = results[r][ip]
      BY <2>5, <3>1 DEF IInv, FoundInv
    <3> QED BY <1>2, <1>12, <3>1, <3>2
  <2> QED BY <2>1, <2>2, <2>4, <2>5 DEF FoundInv, Mine, Answered
<1> QED BY <1>2, <1>7, <1>10, <1>11, <1>14 DEF IInv

LEMMA UpstreamHookStep ==
  ASSUME IInv, NEW u \in Upstreams, UpstreamHook(u)
  PROVE  IInv'
<1> DEFINE new == Reserve(Owner[u], ips[u])
<1>1. u \in Hooks /\ RequestOf(u) = Owner[u] /\ u \notin Requests BY RequestFacts
<1>2. /\ hook[u] = "idle" /\ EnterHook(u, new)
      /\ UNCHANGED <<inputs, results, cand, permits, expiries>>
  BY DEF UpstreamHook
<1>3. new \in SUBSET IPs /\ new \cap seen[RequestOf(u)] = {}
  BY <1>1 DEF Reserve, IInv, InputTypes
<1>4. /\ cand \in [Requests -> SUBSET IPs]
      /\ results \in [Requests -> [IPs -> Rtts \cup {Inf, NoRtt, Missing}]]
  BY DEF IInv, HookTypes
<1> HIDE DEF new
<1> QED BY <1>1, <1>2, <1>3, <1>4, EnterStep

LEMMA BeginResponseStep ==
  ASSUME IInv, NEW r \in Requests, BeginResponse(r)
  PROVE  IInv'
<1>0. PICK order \in SetToSeqs(Answered(r)) :
        /\ order # <<>>
        /\ \E answer \in {ips[order[1]]} \cup Rewrites[r] :
             /\ cand' = [cand EXCEPT ![r] = Candidates(r, answer)]
             /\ results' = MarkInf(r, FoundExempt(r, answer, order))
             /\ EnterHook(r, Reserve(r, Candidates(r, answer)))
  BY DEF BeginResponse
<1>1. PICK answer \in {ips[order[1]]} \cup Rewrites[r] :
        /\ order # <<>>
        /\ cand' = [cand EXCEPT ![r] = Candidates(r, answer)]
        /\ results' = MarkInf(r, FoundExempt(r, answer, order))
        /\ EnterHook(r, Reserve(r, Candidates(r, answer)))
  BY <1>0
<1>2. /\ hook[r] = "idle" /\ HooksEnded(r) /\ UNCHANGED <<inputs, permits, expiries>>
  BY DEF BeginResponse
<1>3. r \in Hooks /\ RequestOf(r) = r BY RequestFacts
<1>4. Answered(r) \subseteq Upstreams BY RequestFacts DEF Answered
<1>5. IsFiniteSet(Answered(r)) /\ Cardinality(Answered(r)) \in Nat
  BY <1>4, FS_Subset, FS_CardinalityType, SpeedTestAssumption
<1>6. PICK n : n = Cardinality(Answered(r)) OBVIOUS
<1>7. order \in [1 .. n -> Answered(r)] BY <1>6 DEF SetToSeqs
<1>8. \A k \in DOMAIN order : order[k] \in Answered(r) BY <1>7
<1>9. order[1] \in Answered(r)
  <2>1. n # 0
    <3>1. SUFFICES ASSUME n = 0 PROVE FALSE OBVIOUS
    <3>2. DOMAIN order = {} BY <1>7, <3>1
    <3>3. order \in [{} -> Answered(r)] BY <1>7, <3>1
    <3>4. order = <<>> BY <3>3
    <3> QED BY <1>1, <3>4
  <2> QED BY <1>5, <1>6, <1>7, <2>1
<1>10. ips \in [Upstreams -> SUBSET IPs] BY DEF IInv, InputTypes
<1>11. answer \in SUBSET IPs
  <2>1. ips[order[1]] \in SUBSET IPs BY <1>4, <1>9, <1>10
  <2>2. Rewrites[r] \subseteq SUBSET IPs BY SpeedTestAssumption
  <2> QED BY <2>1, <2>2
<1>12. Candidates(r, answer) \in SUBSET IPs
  <2>1. \A u \in Answered(r) : ips[u] \subseteq IPs BY <1>4, <1>10
  <2>2. UNION {ips[u] : u \in Answered(r)} \subseteq IPs BY <2>1
  <2> QED BY <1>11, <2>2 DEF Candidates
<1>13. PICK all : all = Candidates(r, answer) OBVIOUS
<1>14. PICK new : new = all \ seen[r] OBVIOUS
<1>15. new \in SUBSET IPs /\ new \cap seen[RequestOf(r)] = {} BY <1>3, <1>12, <1>13, <1>14
<1>16. EnterHook(r, new) BY <1>1, <1>13, <1>14 DEF Reserve
<1>17. PICK inf : inf = FoundExempt(r, answer, order) OBVIOUS
<1>18. \A ip \in inf : \E u \in Answered(r) \cap exempt : ip \in ips[u]
  BY <1>8, <1>17 DEF FoundExempt
<1>19. /\ cand \in [Requests -> SUBSET IPs]
       /\ results \in [Requests -> [IPs -> Rtts \cup {Inf, NoRtt, Missing}]]
  BY DEF IInv, HookTypes
<1>20. /\ cand' \in [Requests -> SUBSET IPs] /\ cand'[r] = all
       /\ \A p \in Requests : p # r => cand'[p] = cand[p]
  BY <1>1, <1>12, <1>13, <1>19
<1>21. results' = [results EXCEPT ![r] = [ip \in IPs |-> IF ip \in inf THEN Inf ELSE results[r][ip]]]
  BY <1>1, <1>17 DEF MarkInf
<1>22. results' \in [Requests -> [IPs -> Rtts \cup {Inf, NoRtt, Missing}]] BY <1>19, <1>21
<1>23. \A p \in Requests : \A ip \in IPs : results'[p][ip] # results[p][ip] =>
         results'[p][ip] = Inf /\ \E u \in Answered(p) \cap exempt : ip \in ips[u]
  <2> SUFFICES ASSUME NEW p \in Requests, NEW ip \in IPs, results'[p][ip] # results[p][ip]
               PROVE  results'[p][ip] = Inf /\ \E u \in Answered(p) \cap exempt : ip \in ips[u]
    OBVIOUS
  <2>1. p = r BY <1>19, <1>21
  <2>2. ip \in inf /\ results'[p][ip] = Inf BY <1>19, <1>21, <2>1
  <2> QED BY <1>18, <2>1, <2>2
<1>24. cand'[r] \subseteq seen[r] \cup new BY <1>14, <1>20
<1> QED BY <1>2, <1>3, <1>15, <1>16, <1>20, <1>22, <1>23, <1>24, EnterStep
-----------------------------------------------------------------------------
(***************************************************************************)
(* Hooks end                                                               *)
(***************************************************************************)
\* The service goes on as it was.
LEMMA ServiceKeeps ==
  ASSUME IInv, UNCHANGED <<inputs, waits, service>>,
         \A g \in Hooks : hook'[g] = "measuring" => hook[g] = "measuring"
  PROVE  /\ Ids' = Ids /\ \A id : M(id)' = M(id)
         /\ MeasTypes' /\ CacheTypes' /\ PermitInv' /\ CacheInv'
<1>1. Ids' = Ids /\ \A id : M(id)' = M(id) BY DEF Ids, M
<1>2. MeasTypes' BY <1>1 DEF IInv, MeasTypes, Pending
<1>3. CacheTypes' BY DEF IInv, CacheTypes
<1>4. PermitInv'
  <2>1. Holders' = Holders BY <1>1 DEF Holders
  <2> QED BY <2>1 DEF IInv, PermitInv
<1>5. CacheInv'
  <2>1. \A id : Waiters(id)' \subseteq Waiters(id) BY DEF Waiters
  <2>2. NoWaitOnCancelled' BY <1>1, <2>1 DEF IInv, CacheInv, NoWaitOnCancelled
  <2>3. \A ip \in IPs : cache'[ip] # 0 => meas'[ip][cache'[ip]].pc # "cancelled"
    BY DEF IInv, CacheInv, M
  <2> QED BY <2>2, <2>3 DEF CacheInv, M
<1> QED BY <1>1, <1>2, <1>3, <1>4, <1>5

\* A hook ends, with what it may have reserved and found.
LEMMA HookEnds ==
  ASSUME IInv, NEW h \in Hooks, NEW v \in {"done", "failed"}, hook[h] \in {"idle", "measuring"},
         hook' = [hook EXCEPT ![h] = v], v = "failed" => hook[h] = "idle",
         h \in Requests /\ v = "done" => hook[h] = "measuring",
         UNCHANGED <<inputs, waits, cand, service>>,
         seen' \in [Requests -> SUBSET IPs], \A r \in Requests : seen[r] \subseteq seen'[r],
         results' \in [Requests -> [IPs -> Rtts \cup {Inf, NoRtt, Missing}]],
         \A r \in Requests : \A ip \in IPs : results[r][ip] # Missing => results'[r][ip] # Missing,
         v = "done" => \A id \in waits[h] :
           M(id).pc = "done" /\ (M(id).best = Raised \/ results'[RequestOf(h)][id[1]] # Missing),
         \A r \in Requests : \A ip \in seen'[r] : ip \notin seen[r] => results'[r][ip] # Missing,
         \A r \in Requests : \A ip \in IPs : results'[r][ip] = Inf =>
           results[r][ip] = Inf \/ (v = "done" /\ h \in Asked(r) /\ h \in exempt /\ ip \in ips[h]),
         \A r \in Requests : \A ip \in IPs : results'[r][ip] \notin {Inf, Missing} =>
           \/ results'[r][ip] = results[r][ip]
           \/ \E id \in Mine(r, ip) : M(id).pc = "done" /\ M(id).best = results'[r][ip]
  PROVE  IInv'
<1>1. hook \in [Hooks -> {"idle", "measuring"} \cup HookOver] BY DEF IInv, HookTypes
<1>2. /\ hook' \in [Hooks -> {"idle", "measuring"} \cup HookOver]
      /\ hook'[h] = v /\ \A g \in Hooks : g # h => hook'[g] = hook[g]
  BY <1>1
<1>3. /\ Ids' = Ids /\ \A id : M(id)' = M(id)
      /\ MeasTypes' /\ CacheTypes' /\ PermitInv' /\ CacheInv'
  <2>1. \A g \in Hooks : hook'[g] = "measuring" => hook[g] = "measuring" BY <1>2
  <2> QED BY <2>1, ServiceKeeps
<1>4. InputTypes' /\ HookTypes' BY <1>2, <1>3 DEF IInv, InputTypes, HookTypes
<1>5. OrderInv'
  <2>1. \A g \in Hooks : \A id \in waits[g] : id[1] \in seen'[RequestOf(g)]
    BY RequestFacts DEF IInv, OrderInv
  <2>2. \A g \in Hooks : hook'[g] \in {"idle", "failed"} => waits[g] = {}
    BY <1>2 DEF IInv, OrderInv
  <2>3. ASSUME NEW g \in Hooks, hook'[g] = "aborted" PROVE hook'[RequestOf(g)] = "aborted"
    <3>1. hook[g] = "aborted" BY <1>2, <2>3
    <3>2. hook[RequestOf(g)] = "aborted" BY <3>1 DEF IInv, OrderInv
    <3> QED BY <1>2, <3>2, RequestFacts
  <2>4. ASSUME NEW r \in Requests, hook'[r] \in {"measuring", "done"}
        PROVE  (\A u \in Asked(r) : hook'[u] \in HookOver) /\ cand[r] \subseteq seen'[r]
    <3>1. hook[r] \in {"measuring", "done"} BY <1>2, <2>4, RequestFacts
    <3>2. (\A u \in Asked(r) : hook[u] \in HookOver) /\ cand[r] \subseteq seen[r]
      BY <3>1 DEF IInv, OrderInv, HooksEnded
    <3> QED BY <1>2, <3>2, RequestFacts
  <2>5. MeasuredOnce' BY DEF IInv, OrderInv, MeasuredOnce
  <2> QED BY <2>1, <2>2, <2>3, <2>4, <2>5 DEF OrderInv, HooksEnded
<1>6. FoundInv'
  <2>1. ASSUME NEW g \in Hooks, hook'[g] = "done", NEW id \in waits[g]
        PROVE  M(id).pc = "done" /\ (M(id).best = Raised \/ results'[RequestOf(g)][id[1]] # Missing)
    <3>1. CASE g = h BY <1>2, <2>1, <3>1
    <3>2. CASE g # h
      <4>1. M(id).pc = "done" /\ (M(id).best = Raised \/ results[RequestOf(g)][id[1]] # Missing)
        BY <1>2, <2>1, <3>2 DEF IInv, FoundInv
      <4>2. id \in Ids BY <2>1 DEF IInv, HookTypes
      <4>3. id[1] \in IPs BY <4>2, IdParts, IdsAre
      <4> QED BY <4>1, <4>3, RequestFacts
    <3> QED BY <3>1, <3>2
  <2>2. \A r \in Requests : \A ip \in seen'[r] : results'[r][ip] # Missing \/ Mine(r, ip) # {}
    BY DEF IInv, FoundInv
  <2>3. ASSUME NEW r \in Requests, hook'[r] # "aborted", NEW ip \in IPs, results'[r][ip] = Inf
        PROVE  \E u \in Asked(r) : hook'[u] = "done" /\ u \in exempt /\ ip \in ips[u]
    <3>1. CASE results[r][ip] = Inf
      <4>1. hook[r] # "aborted" BY <1>2, <2>3, RequestFacts
      <4>2. PICK u \in Answered(r) \cap exempt : ip \in ips[u] BY <3>1, <4>1 DEF IInv, FoundInv
      <4>3. u \in Asked(r) /\ hook[u] = "done" /\ u \in Hooks BY RequestFacts DEF Answered
      <4> QED BY <1>2, <4>2, <4>3
    <3>2. CASE v = "done" /\ h \in Asked(r) /\ h \in exempt /\ ip \in ips[h] BY <1>2, <3>2
    <3> QED BY <2>3, <3>1, <3>2
  <2>4. ASSUME NEW r \in Requests, NEW ip \in IPs, results'[r][ip] \notin {Inf, Missing}
        PROVE  \E id \in Mine(r, ip) : M(id).pc = "done" /\ M(id).best = results'[r][ip]
    BY <2>4 DEF IInv, FoundInv
  <2>5. \A r, ip : Mine(r, ip)' = Mine(r, ip) BY DEF Mine
  <2> QED BY <1>3, <2>1, <2>2, <2>3, <2>4, <2>5 DEF FoundInv, Answered
<1> QED BY <1>3, <1>4, <1>5, <1>6 DEF IInv

LEMMA Silent ==
  ASSUME IInv, NEW h \in Hooks, hook[h] = "idle", hook' = [hook EXCEPT ![h] = "failed"],
         UNCHANGED <<inputs, waits, seen, results, cand, service>>
  PROVE  IInv'
<1>1. /\ seen \in [Requests -> SUBSET IPs]
      /\ results \in [Requests -> [IPs -> Rtts \cup {Inf, NoRtt, Missing}]]
  BY DEF IInv, HookTypes
<1> QED BY <1>1, HookEnds

LEMMA ExemptHookStep ==
  ASSUME IInv, NEW u \in Upstreams, ExemptHook(u)
  PROVE  IInv'
<1> DEFINE r == Owner[u]
<1>1. u \in Hooks /\ u \notin Requests /\ RequestOf(u) = r /\ r \in Requests /\ u \in Asked(r)
  BY RequestFacts
<1>2. /\ hook[u] = "idle" /\ u \in exempt /\ seen' = [seen EXCEPT ![r] = @ \cup ips[u]]
      /\ results' = [results EXCEPT ![r] = [ip \in IPs |-> IF ip \in ips[u] THEN Inf ELSE results[r][ip]]]
      /\ hook' = [hook EXCEPT ![u] = "done"] /\ UNCHANGED <<inputs, waits, cand, service>>
  BY DEF ExemptHook, MarkInf
<1>3. /\ seen \in [Requests -> SUBSET IPs] /\ ips[u] \in SUBSET IPs
      /\ results \in [Requests -> [IPs -> Rtts \cup {Inf, NoRtt, Missing}]]
  BY DEF IInv, HookTypes, InputTypes
<1>4. waits[u] = {} BY <1>1, <1>2 DEF IInv, OrderInv
<1> HIDE DEF r
<1>5. /\ seen' \in [Requests -> SUBSET IPs] /\ \A q \in Requests : seen[q] \subseteq seen'[q]
      /\ \A q \in Requests : \A ip \in seen'[q] : ip \notin seen[q] => q = r /\ ip \in ips[u] /\ ip \in IPs
  BY <1>1, <1>2, <1>3
<1>6. /\ results' \in [Requests -> [IPs -> Rtts \cup {Inf, NoRtt, Missing}]]
      /\ \A ip \in ips[u] : results'[r][ip] = Inf
      /\ \A q \in Requests : \A ip \in IPs : q # r \/ ip \notin ips[u] => results'[q][ip] = results[q][ip]
  BY <1>1, <1>2, <1>3
<1>7. \A q \in Requests : \A ip \in IPs : results[q][ip] # Missing => results'[q][ip] # Missing
  BY <1>6, SpeedTestAssumption
<1>8. \A q \in Requests : \A ip \in seen'[q] : ip \notin seen[q] => results'[q][ip] # Missing
  BY <1>5, <1>6, SpeedTestAssumption
<1>9. \A q \in Requests : \A ip \in IPs : results'[q][ip] = Inf =>
        results[q][ip] = Inf \/ (u \in Asked(q) /\ u \in exempt /\ ip \in ips[u])
  BY <1>1, <1>2, <1>6
<1>10. \A q \in Requests : \A ip \in IPs :
         results'[q][ip] \notin {Inf, Missing} => results'[q][ip] = results[q][ip]
  BY <1>6
<1> QED BY <1>1, <1>2, <1>4, <1>5, <1>6, <1>7, <1>8, <1>9, <1>10, HookEnds

LEMMA EndHookStep ==
  ASSUME IInv, NEW h \in Hooks, EndHook(h)
  PROVE  IInv'
<1> DEFINE r == RequestOf(h)
           best(ip) == {M(id).best : id \in {i \in Found(h) : i[1] = ip}}
           Old(ip) == best(ip) = {} \/ (NoRtt \in best(ip) /\ results[r][ip] # Missing)
<1>1. /\ hook[h] = "measuring" /\ \A id \in waits[h] : M(id).pc = "done"
      /\ results' = [results EXCEPT ![r] = [ip \in IPs |->
           IF Old(ip) THEN results[r][ip] ELSE CHOOSE v \in best(ip) : TRUE]]
      /\ hook' = [hook EXCEPT ![h] = "done"] /\ UNCHANGED <<inputs, waits, seen, cand, service>>
  BY DEF EndHook
<1>2. /\ r \in Requests /\ seen \in [Requests -> SUBSET IPs] /\ waits \in [Hooks -> SUBSET Ids]
      /\ results \in [Requests -> [IPs -> Rtts \cup {Inf, NoRtt, Missing}]]
  BY RequestFacts DEF IInv, HookTypes
<1>3. ASSUME NEW ip \in IPs, NEW v \in best(ip)
      PROVE  /\ v \in Rtts \cup {NoRtt} /\ v # Inf /\ v # Missing
             /\ \E id \in Mine(r, ip) : M(id).pc = "done" /\ M(id).best = v
  <2>1. PICK id \in Found(h) : id[1] = ip /\ M(id).best = v BY <1>3
  <2>2. id \in waits[h] /\ id \in Ids /\ M(id).best # Raised BY <1>2, <2>1 DEF Found
  <2>3. M(id).best \in Rtts \cup {NoRtt, Raised} BY <2>2, MeasurementFacts
  <2>4. id \in Mine(r, ip) BY <1>2, <2>1, <2>2, MineIs DEF Mine
  <2>5. M(id).pc = "done" BY <1>1, <2>2
  <2>6. v \in Rtts \cup {NoRtt} BY <2>1, <2>2, <2>3
  <2> QED BY <2>1, <2>4, <2>5, <2>6, SpeedTestAssumption
<1>4. \A ip \in IPs : ~Old(ip) => (CHOOSE v \in best(ip) : TRUE) \in best(ip)
  <2> SUFFICES ASSUME NEW ip \in IPs, ~Old(ip) PROVE (CHOOSE v \in best(ip) : TRUE) \in best(ip)
    OBVIOUS
  <2>1. best(ip) # {} OBVIOUS
  <2> HIDE DEF best
  <2> QED BY <2>1
<1>5. \A id \in waits[h] : M(id).best # Raised => M(id).best \in best(id[1]) BY DEF Found
<1>6. \A ip \in IPs : Old(ip) => best(ip) = {} \/ results[r][ip] # Missing OBVIOUS
<1> DEFINE New(ip) == CHOOSE v \in best(ip) : TRUE
<1>7. results' = [results EXCEPT ![r] = [ip \in IPs |-> IF Old(ip) THEN results[r][ip] ELSE New(ip)]]
  BY <1>1
<1>8. \A ip \in IPs : ~Old(ip) => New(ip) \in best(ip) BY <1>4
<1> HIDE DEF best, Old, New, r
<1>9. /\ results' \in [Requests -> [IPs -> Rtts \cup {Inf, NoRtt, Missing}]]
      /\ \A q \in Requests : \A ip \in IPs : q # r \/ Old(ip) => results'[q][ip] = results[q][ip]
      /\ \A ip \in IPs : ~Old(ip) => results'[r][ip] \in best(ip)
  <2>1. [ip \in IPs |-> IF Old(ip) THEN results[r][ip] ELSE New(ip)]
          \in [IPs -> Rtts \cup {Inf, NoRtt, Missing}]
    <3>1. \A ip \in IPs : ~Old(ip) => New(ip) \in Rtts \cup {NoRtt} BY <1>3, <1>8
    <3>2. \A ip \in IPs : results[r][ip] \in Rtts \cup {Inf, NoRtt, Missing} BY <1>2
    <3> QED BY <3>1, <3>2
  <2>2. results' \in [Requests -> [IPs -> Rtts \cup {Inf, NoRtt, Missing}]] BY <1>2, <1>7, <2>1
  <2>3. \A q \in Requests : q # r => results'[q] = results[q] BY <1>2, <1>7
  <2>4. \A ip \in IPs : results'[r][ip] = IF Old(ip) THEN results[r][ip] ELSE New(ip)
    BY <1>2, <1>7
  <2> QED BY <1>8, <2>2, <2>3, <2>4
<1>10. \A q \in Requests : \A ip \in IPs : results[q][ip] # Missing => results'[q][ip] # Missing
  BY <1>3, <1>9
<1>11. ASSUME NEW id \in waits[h]
       PROVE  M(id).pc = "done" /\ (M(id).best = Raised \/ results'[r][id[1]] # Missing)
  <2>1. M(id).pc = "done" BY <1>1
  <2>2. id \in Ids BY <1>2
  <2>3. PICK ip \in IPs : ip = id[1] BY <2>2, IdParts, IdsAre
  <2>4. ASSUME M(id).best # Raised PROVE results'[r][ip] # Missing
    <3>1. best(ip) # {} BY <1>5, <2>3, <2>4
    <3>2. CASE Old(ip) BY <1>2, <1>6, <1>9, <3>1, <3>2
    <3>3. CASE ~Old(ip) BY <1>3, <1>9, <3>3
    <3> QED BY <3>2, <3>3
  <2> QED BY <2>1, <2>3, <2>4
<1>12. \A q \in Requests : \A ip \in IPs : results'[q][ip] = Inf => results[q][ip] = Inf
  BY <1>3, <1>9
<1>13. \A q \in Requests : \A ip \in IPs : results'[q][ip] \notin {Inf, Missing} =>
         \/ results'[q][ip] = results[q][ip]
         \/ \E id \in Mine(q, ip) : M(id).pc = "done" /\ M(id).best = results'[q][ip]
  BY <1>3, <1>9
<1>14. /\ hook[h] \in {"idle", "measuring"} /\ hook[h] = "measuring"
       /\ hook' = [hook EXCEPT ![h] = "done"] /\ UNCHANGED <<inputs, waits, cand, service>>
       /\ seen' \in [Requests -> SUBSET IPs] /\ \A q \in Requests : seen[q] \subseteq seen'[q]
       /\ \A q \in Requests : \A ip \in seen'[q] : ip \notin seen[q] => results'[q][ip] # Missing
  BY <1>1, <1>2
<1>15. results' \in [Requests -> [IPs -> Rtts \cup {Inf, NoRtt, Missing}]] BY <1>9
<1>16. \A id \in waits[h] :
         M(id).pc = "done" /\ (M(id).best = Raised \/ results'[RequestOf(h)][id[1]] # Missing)
  BY <1>11 DEF r
<1>17. PICK v \in {"done", "failed"} : v = "done" OBVIOUS
<1>18. /\ hook' = [hook EXCEPT ![h] = v] /\ (v = "failed" => hook[h] = "idle")
       /\ (h \in Requests /\ v = "done" => hook[h] = "measuring")
  BY <1>14, <1>17
<1>19. \A q \in Requests : \A ip \in IPs : results'[q][ip] = Inf =>
         results[q][ip] = Inf \/ (v = "done" /\ h \in Asked(q) /\ h \in exempt /\ ip \in ips[h])
  BY <1>12
<1> QED BY <1>10, <1>13, <1>14, <1>15, <1>16, <1>18, <1>19, HookEnds
-----------------------------------------------------------------------------
(***************************************************************************)
(* A query is cancelled                                                    *)
(***************************************************************************)
LEMMA AbortStep ==
  ASSUME IInv, NEW r \in Requests, Abort(r)
  PROVE  IInv'
<1> DEFINE Lost == LostWith(r)
           Moved(ip, n) ==
             IF <<ip, n>> \in Lost THEN [meas[ip][n] EXCEPT !.pc = "cancelled"] ELSE meas[ip][n]
<1>1. /\ hook' = [h \in Hooks |-> IF RequestOf(h) = r THEN "aborted" ELSE hook[h]]
      /\ meas' = [ip \in IPs |-> [n \in DOMAIN meas[ip] |-> Moved(ip, n)]]
      /\ cache' = [ip \in IPs |-> IF <<ip, cache[ip]>> \in Lost THEN 0 ELSE cache[ip]]
      /\ UNCHANGED <<inputs, waits, seen, results, cand, permits, expiries>>
  BY DEF Abort, Forget
<1>2. meas \in [IPs -> Seq(Measurement)] BY DEF IInv, MeasTypes
<1>3. \A id \in Lost : /\ id \in Ids /\ M(id).pc \in {"running", "ending"}
                       /\ \A h \in Waiters(id) : RequestOf(h) = r
  BY DEF LostWith
<1> HIDE DEF Lost
<1>4. ASSUME NEW ip \in IPs
      PROVE  /\ meas'[ip] \in Seq(Measurement) /\ Len(meas'[ip]) = Len(meas[ip])
             /\ \A n \in 1 .. Len(meas[ip]) : meas'[ip][n] = Moved(ip, n)
  <2>1. meas[ip] \in Seq(Measurement) /\ Len(meas[ip]) \in Nat /\ DOMAIN meas[ip] = 1 .. Len(meas[ip])
    BY <1>2, LenProperties
  <2>2. meas'[ip] = [n \in 1 .. Len(meas[ip]) |-> Moved(ip, n)] BY <1>1, <2>1
  <2>3. ASSUME NEW n \in 1 .. Len(meas[ip]) PROVE Moved(ip, n) \in Measurement
    <3>1. meas[ip][n] \in Measurement BY <2>1, ElementOfSeq
    <3>2. [meas[ip][n] EXCEPT !.pc = "cancelled"] \in Measurement BY <3>1 DEF Measurement
    <3> QED BY <3>1, <3>2
  <2> HIDE DEF Moved
  <2>4. [n \in 1 .. Len(meas[ip]) |-> Moved(ip, n)] \in [1 .. Len(meas[ip]) -> Measurement] BY <2>3
  <2>5. meas'[ip] \in Seq(Measurement) BY <2>1, <2>2, <2>4
  <2>6. DOMAIN meas'[ip] = 1 .. Len(meas'[ip]) /\ Len(meas'[ip]) \in Nat BY <2>5, LenProperties
  <2>7. DOMAIN meas'[ip] = 1 .. Len(meas[ip]) BY <2>2
  <2>8. Len(meas'[ip]) = Len(meas[ip])
    <3>1. \A a, b \in Nat : 1 .. a = 1 .. b => a = b
      <4> SUFFICES ASSUME NEW a \in Nat, NEW b \in Nat, 1 .. a = 1 .. b, a # b PROVE FALSE OBVIOUS
      <4>1. CASE a < b BY <4>1
      <4>2. CASE b < a BY <4>2
      <4> QED BY <4>1, <4>2
    <3> QED BY <2>1, <2>6, <2>7, <3>1
  <2> QED BY <2>2, <2>5, <2>8
<1>5. Ids' = Ids
  <2>1. \A j : j \in IdsOf(meas') <=> j \in IdsOf(meas) BY <1>4, IdParts
  <2> QED BY <2>1, IdsAre
<1>6. ASSUME NEW id \in Ids
      PROVE  M(id)' = IF id \in Lost THEN [M(id) EXCEPT !.pc = "cancelled"] ELSE M(id)
  <2>1. id = <<id[1], id[2]>> /\ id[1] \in IPs /\ id[2] \in 1 .. Len(meas[id[1]]) BY IdParts, IdsAre
  <2>2. meas'[id[1]][id[2]] = Moved(id[1], id[2]) BY <1>4, <2>1
  <2> QED BY <2>1, <2>2 DEF M
<1> HIDE DEF Moved
<1>7. ASSUME NEW id \in Ids
      PROVE  /\ M(id)'.waiting = M(id).waiting /\ M(id)'.probing = M(id).probing
             /\ M(id)'.best = M(id).best
             /\ M(id)'.pc = IF id \in Lost THEN "cancelled" ELSE M(id).pc
  <2>1. M(id) \in Measurement BY MeasurementFacts
  <2>2. CASE id \in Lost BY <1>6, <2>1, <2>2 DEF Measurement
  <2>3. CASE id \notin Lost BY <1>6, <2>3
  <2> QED BY <2>2, <2>3
<1>8. MeasTypes'
  <2>1. meas' \in [IPs -> Seq(Measurement)] BY <1>1, <1>4
  <2>2. ASSUME NEW id \in Ids
        PROVE  Pending(id)' <= ProbeCount /\ (M(id)'.pc = "done" => Pending(id)' = 0)
    <3>1. Pending(id)' = Pending(id) BY <1>7 DEF Pending
    <3>2. M(id)'.pc = "done" => M(id).pc = "done" BY <1>7
    <3> QED BY <3>1, <3>2 DEF IInv, MeasTypes
  <2> QED BY <1>5, <2>1, <2>2 DEF MeasTypes
<1>9. cache \in [IPs -> Nat] /\ \A ip \in IPs : cache[ip] <= Len(meas[ip])
  BY DEF IInv, CacheTypes
<1>10. CacheTypes'
  <2>1. \A ip \in IPs : Len(meas[ip]) \in Nat BY <1>2, LenProperties
  <2>2. \A ip \in IPs : cache'[ip] \in {0, cache[ip]} BY <1>1
  <2>3. cache' \in [IPs -> Nat] BY <1>1, <1>9
  <2>4. \A ip \in IPs : cache'[ip] <= Len(meas'[ip]) BY <1>4, <1>9, <2>1, <2>2
  <2> QED BY <1>1, <2>3, <2>4 DEF IInv, CacheTypes
<1>11. PermitInv'
  <2>1. Holders' = Holders
    <3>1. \A t : t \in Holders <=> t \in Ids \X Nat /\ t[2] \in 1 .. M(t[1]).probing BY DEF Holders
    <3>2. \A t : t \in Holders' <=> t \in Ids \X Nat /\ t[2] \in 1 .. M(t[1])'.probing
      BY <1>5 DEF Holders
    <3>3. \A t \in Ids \X Nat : M(t[1])'.probing = M(t[1]).probing BY <1>7
    <3>4. \A t : t \in Holders <=> t \in Holders' BY <3>1, <3>2, <3>3
    <3> QED BY <3>4
  <2> QED BY <1>1, <2>1 DEF IInv, PermitInv
<1>12. /\ hook \in [Hooks -> {"idle", "measuring"} \cup HookOver] /\ waits \in [Hooks -> SUBSET Ids]
  BY DEF IInv, HookTypes
<1>13. /\ hook' \in [Hooks -> {"idle", "measuring"} \cup HookOver]
       /\ \A h \in Hooks : RequestOf(h) = r => hook'[h] = "aborted"
       /\ \A h \in Hooks : RequestOf(h) # r => hook'[h] = hook[h]
  BY <1>1, <1>12
<1>14. CacheInv'
  <2>1. ASSUME NEW ip \in IPs, cache'[ip] # 0 PROVE meas'[ip][cache'[ip]].pc # "cancelled"
    <3>1. cache'[ip] = cache[ip] /\ cache[ip] # 0 /\ <<ip, cache[ip]>> \notin Lost BY <1>1, <2>1
    <3>2. cache[ip] \in 1 .. Len(meas[ip]) BY <1>2, <1>9, <3>1, LenProperties
    <3>3. PICK j : j = <<ip, cache[ip]>> OBVIOUS
    <3>4. j \in Ids BY <3>2, <3>3, IdParts, IdsAre
    <3>5. M(j).pc # "cancelled" BY <3>1, <3>3 DEF IInv, CacheInv
    <3>6. M(j)'.pc # "cancelled" BY <1>7, <3>1, <3>3, <3>4, <3>5
    <3> QED BY <3>1, <3>3, <3>6 DEF M
  <2>2. ASSUME NEW id \in Ids, M(id)'.pc = "cancelled", NEW h \in Hooks,
               hook'[h] = "measuring", id \in waits[h]
        PROVE  FALSE
    <3>1. RequestOf(h) # r /\ hook[h] = "measuring" BY <1>13, <2>2
    <3>2. h \in Waiters(id) BY <2>2, <3>1 DEF Waiters
    <3>3. CASE id \in Lost BY <1>3, <3>1, <3>2, <3>3
    <3>4. CASE id \notin Lost
      <4>1. M(id).pc = "cancelled" BY <1>7, <2>2, <3>4
      <4> QED BY <3>2, <4>1 DEF IInv, CacheInv, NoWaitOnCancelled
    <3> QED BY <3>3, <3>4
  <2>3. NoWaitOnCancelled' BY <1>1, <1>5, <2>2 DEF NoWaitOnCancelled, Waiters
  <2> QED BY <2>1, <2>3 DEF CacheInv, M
<1>15. InputTypes' /\ HookTypes' BY <1>1, <1>5, <1>13 DEF IInv, InputTypes, HookTypes
<1>16. OrderInv'
  <2>1. \A h \in Hooks : \A id \in waits[h] : id[1] \in seen[RequestOf(h)] BY DEF IInv, OrderInv
  <2>2. \A h \in Hooks : hook'[h] \in {"idle", "failed"} => waits[h] = {}
    BY <1>13 DEF IInv, OrderInv
  <2>3. ASSUME NEW h \in Hooks, hook'[h] = "aborted" PROVE hook'[RequestOf(h)] = "aborted"
    <3>1. CASE RequestOf(h) = r BY <1>13, <3>1, RequestFacts
    <3>2. CASE RequestOf(h) # r
      <4>1. hook[RequestOf(h)] = "aborted" BY <1>13, <2>3, <3>2 DEF IInv, OrderInv
      <4> QED BY <1>13, <3>2, <4>1, RequestFacts
    <3> QED BY <3>1, <3>2
  <2>4. ASSUME NEW q \in Requests, hook'[q] \in {"measuring", "done"}
        PROVE  (\A u \in Asked(q) : hook'[u] \in HookOver) /\ cand[q] \subseteq seen[q]
    <3>1. q # r /\ hook[q] \in {"measuring", "done"} BY <1>13, <2>4, RequestFacts
    <3>2. (\A u \in Asked(q) : hook[u] \in HookOver) /\ cand[q] \subseteq seen[q]
      BY <3>1 DEF IInv, OrderInv, HooksEnded
    <3>3. \A u \in Asked(q) : u \in Hooks /\ RequestOf(u) = q BY RequestFacts
    <3> QED BY <1>13, <3>1, <3>2, <3>3
  <2>5. MeasuredOnce' BY <1>1 DEF IInv, OrderInv, MeasuredOnce
  <2> QED BY <1>1, <2>1, <2>2, <2>3, <2>4, <2>5 DEF OrderInv, HooksEnded
<1>17. \A id \in Ids : M(id).pc = "done" => M(id)'.pc = "done" /\ M(id)'.best = M(id).best
  BY <1>3, <1>7
<1>18. FoundInv'
  <2>1. ASSUME NEW h \in Hooks, hook'[h] = "done", NEW id \in waits[h]
        PROVE  M(id)'.pc = "done" /\ (M(id)'.best = Raised \/ results[RequestOf(h)][id[1]] # Missing)
    <3>1. hook[h] = "done" /\ id \in Ids BY <1>12, <1>13, <2>1
    <3> QED BY <1>17, <2>1, <3>1 DEF IInv, FoundInv
  <2>2. \A q \in Requests : \A ip \in seen[q] : results[q][ip] # Missing \/ Mine(q, ip) # {}
    BY DEF IInv, FoundInv
  <2>3. ASSUME NEW q \in Requests, hook'[q] # "aborted", NEW ip \in IPs, results[q][ip] = Inf
        PROVE  \E u \in Asked(q) : hook'[u] = "done" /\ u \in exempt /\ ip \in ips[u]
    <3>1. q # r /\ hook[q] # "aborted" BY <1>13, <2>3, RequestFacts
    <3>2. PICK u \in Answered(q) \cap exempt : ip \in ips[u] BY <2>3, <3>1 DEF IInv, FoundInv
    <3>3. u \in Asked(q) /\ hook[u] = "done" /\ u \in Hooks /\ RequestOf(u) = q
      BY RequestFacts DEF Answered
    <3> QED BY <1>13, <3>1, <3>2, <3>3
  <2>4. ASSUME NEW q \in Requests, NEW ip \in IPs, results[q][ip] \notin {Inf, Missing}
        PROVE  \E id \in Mine(q, ip) : M(id)'.pc = "done" /\ M(id)'.best = results[q][ip]
    <3>1. PICK id \in Mine(q, ip) : M(id).pc = "done" /\ M(id).best = results[q][ip]
      BY <2>4 DEF IInv, FoundInv
    <3>2. id \in Ids BY <1>12, MineIs DEF Mine
    <3> QED BY <1>17, <3>1, <3>2
  <2>5. \A q, ip : Mine(q, ip)' = Mine(q, ip) BY <1>1 DEF Mine
  <2> QED BY <1>1, <2>1, <2>2, <2>3, <2>4, <2>5 DEF FoundInv, Answered
<1> QED BY <1>8, <1>10, <1>11, <1>14, <1>15, <1>16, <1>18 DEF IInv
-----------------------------------------------------------------------------
(***************************************************************************)
(* The theorems                                                            *)
(***************************************************************************)
LEMMA InitIInv == Init => IInv
<1> SUFFICES ASSUME Init PROVE IInv OBVIOUS
<1>1. /\ hook = [h \in Hooks |-> "idle"] /\ waits = [h \in Hooks |-> {}]
      /\ seen = [r \in Requests |-> {}] /\ cand = [r \in Requests |-> {}]
      /\ results = [r \in Requests |-> [ip \in IPs |-> Missing]]
      /\ meas = [ip \in IPs |-> <<>>] /\ cache = [ip \in IPs |-> 0]
      /\ permits = MaxConcurrency /\ expiries = 0
  BY DEF Init
<1>2. InputTypes BY SpeedTestAssumption DEF Init, InputTypes
<1>3. Ids = {}
  <2>1. \A j : j \notin IdsOf(meas) BY <1>1, IdParts
  <2> QED BY <2>1, IdsAre
<1>4. HookTypes BY <1>1 DEF HookTypes
<1>5. MeasTypes BY <1>1, <1>3 DEF MeasTypes
<1>6. CacheTypes BY <1>1, SpeedTestAssumption DEF CacheTypes
<1>7. PermitInv
  <2>1. Holders = {} BY <1>3 DEF Holders
  <2>2. IsFiniteSet(Holders) /\ Cardinality(Holders) = 0 BY <2>1, FS_EmptySet
  <2> QED BY <1>1, <2>2, SpeedTestAssumption DEF PermitInv
<1>8. CacheInv BY <1>1, <1>3 DEF CacheInv, NoWaitOnCancelled
<1>9. OrderInv
  <2>1. \A h \in Hooks : hook[h] = "idle" /\ waits[h] = {} BY <1>1
  <2>2. \A r \in Requests : hook[r] = "idle" BY <2>1, RequestFacts
  <2>3. MeasuredOnce BY <2>1 DEF MeasuredOnce
  <2> QED BY <2>1, <2>2, <2>3 DEF OrderInv
<1>10. FoundInv
  <2>1. \A h \in Hooks : hook[h] # "done" BY <1>1
  <2>2. \A r \in Requests : seen[r] = {} BY <1>1
  <2>3. \A r \in Requests : \A ip \in IPs : results[r][ip] = Missing BY <1>1
  <2>4. Missing # Inf BY SpeedTestAssumption
  <2> QED BY <2>1, <2>2, <2>3, <2>4 DEF FoundInv
<1> QED BY <1>2, <1>4, <1>5, <1>6, <1>7, <1>8, <1>9, <1>10 DEF IInv

LEMMA StutterIInv ==
  ASSUME IInv, UNCHANGED vars
  PROVE  IInv'
<1>1. Ids' = Ids /\ \A id : M(id)' = M(id) BY DEF Ids, M
<1>2. InputTypes' /\ HookTypes' /\ OrderInv' /\ FoundInv' BY <1>1, HooksKeep
<1>3. MeasTypes' /\ CacheTypes' /\ PermitInv' /\ CacheInv' BY ServiceKeeps
<1> QED BY <1>2, <1>3 DEF IInv

LEMMA NextIInv == IInv /\ [Next]_vars => IInv'
<1> SUFFICES ASSUME IInv, [Next]_vars PROVE IInv' OBVIOUS
<1>1. CASE ServiceStep BY <1>1, ServiceSteps DEF ServiceStep
<1>2. ASSUME NEW h \in Hooks, EndHook(h) PROVE IInv' BY <1>2, EndHookStep
<1>3. ASSUME NEW r \in Requests, BeginResponse(r) PROVE IInv' BY <1>3, BeginResponseStep
<1>4. ASSUME NEW r \in Requests, NoFinalAnswer(r) PROVE IInv'
  BY <1>4, Silent, RequestFacts DEF NoFinalAnswer
<1>5. ASSUME NEW u \in Upstreams, UpstreamHook(u) PROVE IInv' BY <1>5, UpstreamHookStep
<1>6. ASSUME NEW u \in Upstreams, ExemptHook(u) PROVE IInv' BY <1>6, ExemptHookStep
<1>7. ASSUME NEW u \in Upstreams, NoAnswer(u) PROVE IInv'
  BY <1>7, Silent, RequestFacts DEF NoAnswer
<1>8. ASSUME NEW r \in Requests, Abort(r) PROVE IInv' BY <1>8, AbortStep
<1>9. ASSUME NEW ip \in IPs, Expire(ip) PROVE IInv' BY <1>9, ExpireStep
<1>10. CASE UNCHANGED vars BY <1>10, StutterIInv
<1> QED BY <1>1, <1>2, <1>3, <1>4, <1>5, <1>6, <1>7, <1>8, <1>9, <1>10 DEF Next, HookStep

\* The state is well formed, permits and the probes that hold them add up,
\* and durations, reservations and hooks agree, whatever the hooks of all
\* requests, the probes, expiries and cancelled queries do.
THEOREM SpeedTestInvariant == Spec => []IInv
BY InitIInv, NextIInv, PTL DEF Spec

\* A measurement that is over has no probe left, and when no probe is pending
\* every permit of the semaphore is back (_probe and _run_probe).
THEOREM ProbesCleanUp == Spec => []ProbeInv
<1>1. IInv => ProbeInv
  <2> SUFFICES ASSUME IInv PROVE ProbeInv OBVIOUS
  <2>1. ASSUME NEW id \in Ids
        PROVE  /\ M(id).pc \in {"running", "ending", "done", "cancelled"}
               /\ M(id).best \in Rtts \cup {NoRtt, Raised}
               /\ M(id).found \subseteq {"rtt", "raised"} /\ Pending(id) \in 0 .. ProbeCount
    <3>1. /\ M(id) \in Measurement /\ M(id).waiting \in Nat /\ M(id).probing \in Nat
          /\ M(id).waiting + M(id).probing <= ProbeCount /\ ProbeCount \in Nat
      BY MeasurementFacts
    <3>2. Pending(id) \in 0 .. ProbeCount BY <3>1 DEF Pending
    <3> QED BY <3>1, <3>2 DEF Measurement
  <2>2. \A ip \in IPs : cache[ip] \in 0 .. Len(meas[ip])
    <3>1. \A ip \in IPs : Len(meas[ip]) \in Nat BY LenProperties DEF IInv, MeasTypes
    <3> QED BY <3>1 DEF IInv, CacheTypes
  <2>3. Cardinality(Holders) \in Nat BY FS_CardinalityType DEF IInv, PermitInv
  <2>4. permits \in 0 .. MaxConcurrency BY <2>3, SpeedTestAssumption DEF IInv, PermitInv
  <2>5. TypeOK BY <2>1, <2>2, <2>4 DEF TypeOK, IInv, InputTypes, HookTypes, CacheTypes
  <2>6. ASSUME \A id \in Ids : Pending(id) = 0 PROVE permits = MaxConcurrency
    <3>1. ASSUME NEW t \in Holders PROVE FALSE
      <4>1. t[1] \in Ids /\ t[2] \in 1 .. M(t[1]).probing BY DEF Holders
      <4>2. M(t[1]).waiting \in Nat /\ M(t[1]).probing \in Nat BY <4>1, MeasurementFacts
      <4>3. M(t[1]).waiting + M(t[1]).probing = 0 BY <2>6, <4>1 DEF Pending
      <4>4. M(t[1]).probing = 0 BY <4>2, <4>3
      <4> QED BY <4>1, <4>4
    <3>2. Holders = {} BY <3>1
    <3>3. Cardinality(Holders) = 0 BY <3>2, FS_EmptySet
    <3> QED BY <3>3 DEF IInv, PermitInv
  <2>7. NoProbeOutlives BY <2>6 DEF NoProbeOutlives, IInv, MeasTypes
  <2> QED BY <2>5, <2>7 DEF ProbeInv
<1> QED BY <1>1, SpeedTestInvariant, PTL

\* Nobody waits for a measurement that another request's end cancelled: what a
\* hook joins through the cache will end (SpeedTestService.measure).
THEOREM JoinedMeasurementsEnd == Spec => []NoWaitOnCancelled
<1>1. IInv => NoWaitOnCancelled BY DEF IInv, CacheInv
<1> QED BY <1>1, SpeedTestInvariant, PTL

\* When a response hook has ended every candidate is judged by a measurement of
\* its own request, by inf if an exempt result names it, and no two hooks of the
\* request measured it (reserve_ips and add_results).
THEOREM ChoicesAreFounded == Spec => []DurationsAreFounded
<1>1. IInv => DurationsAreFounded
  <2> SUFFICES ASSUME IInv PROVE DurationsAreFounded OBVIOUS
  <2>1. MeasuredOnce BY DEF IInv, OrderInv
  <2>2. ASSUME NEW r \in Requests, hook[r] = "done", NEW ip \in cand[r]
        PROVE  CASE results[r][ip] = Inf -> \E u \in Answered(r) \cap exempt : ip \in ips[u]
                 [] results[r][ip] = Missing ->
                      Mine(r, ip) # {} /\ \A id \in Mine(r, ip) : M(id).best = Raised
                 [] OTHER -> \E id \in Mine(r, ip) : M(id).pc = "done" /\ M(id).best = results[r][ip]
    <3>1. ip \in seen[r] /\ ip \in IPs BY <2>2 DEF IInv, OrderInv, HookTypes
    <3>2. \A u \in Asked(r) : hook[u] \in HookOver BY <2>2 DEF IInv, OrderInv, HooksEnded
    <3>3. Inf # Missing BY SpeedTestAssumption
    <3>4. CASE results[r][ip] = Inf
      <4>1. \E u \in Answered(r) \cap exempt : ip \in ips[u]
        BY <2>2, <3>1, <3>4 DEF IInv, FoundInv
      <4> QED BY <3>3, <3>4, <4>1
    <3>5. CASE results[r][ip] = Missing
      <4>1. Mine(r, ip) # {} BY <3>1, <3>5 DEF IInv, FoundInv
      <4>2. ASSUME NEW id \in Mine(r, ip) PROVE M(id).best = Raised
        <5>1. PICK h \in Hooks : RequestOf(h) = r /\ id \in waits[h] /\ id[1] = ip
          BY <4>2, MineIs DEF Mine
        <5>2. hook[h] = "done"
          <6>1. CASE h \in Requests BY <2>2, <5>1, <6>1, RequestFacts
          <6>2. CASE h \in Upstreams
            <7>1. hook[h] \in HookOver BY <3>2, <5>1, <6>2, RequestFacts
            <7>2. hook[h] # "failed" BY <5>1 DEF IInv, OrderInv
            <7>3. hook[h] # "aborted" BY <2>2, <5>1 DEF IInv, OrderInv
            <7> QED BY <7>1, <7>2, <7>3
          <6> QED BY <6>1, <6>2 DEF Hooks
        <5> QED BY <3>5, <5>1, <5>2 DEF IInv, FoundInv
      <4> QED BY <3>3, <3>5, <4>1, <4>2
    <3>6. CASE results[r][ip] \notin {Inf, Missing}
      <4>1. \E id \in Mine(r, ip) : M(id).pc = "done" /\ M(id).best = results[r][ip]
        BY <3>1, <3>6 DEF IInv, FoundInv
      <4> QED BY <3>6, <4>1
    <3> QED BY <3>4, <3>5, <3>6
  <2> QED BY <2>1, <2>2 DEF DurationsAreFounded, Mine, MineIn
<1> QED BY <1>1, SpeedTestInvariant, PTL
==============================================================================
