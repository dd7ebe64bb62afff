----------------------------- MODULE SingleFlight -----------------------------
(***************************************************************************)
(* What a coalescing front end promises, without saying how: a query       *)
(* waits, may be the one that flies to the backend, and returns with a     *)
(* response for its own key; two queries with one key never fly together.  *)
(* A query that its server gave up on is gone.                             *)
(***************************************************************************)
CONSTANTS Requests, Keys, NoKey, KeyOf

VARIABLES status, answered

vars == <<status, answered>>

Init ==
  /\ status = [r \in Requests |-> "new"]
  /\ answered = [r \in Requests |-> NoKey]

Free(r) == \A q \in Requests :
             status[q] = "flying" => KeyOf[q] # KeyOf[r] \/ KeyOf[r] = NoKey

Queue(r) ==
  /\ status[r] = "new"
  /\ status' = [status EXCEPT ![r] = "open"]
  /\ UNCHANGED answered

Launch(r) ==
  /\ status[r] \in {"new", "open"}
  /\ Free(r)
  /\ status' = [status EXCEPT ![r] = "flying"]
  /\ UNCHANGED answered

\* Some flights are over; those without a key return at once.
Land(S) ==
  /\ \A r \in S : status[r] = "flying"
  /\ status' = [r \in Requests |-> IF r \notin S THEN status[r]
                                   ELSE IF KeyOf[r] = NoKey THEN "done" ELSE "open"]
  /\ UNCHANGED answered

GiveAnswer(r) ==
  /\ status[r] \in {"new", "open", "flying"}
  /\ status' = [status EXCEPT ![r] = "done"]
  /\ answered' \in {answered, [answered EXCEPT ![r] = KeyOf[r]]}

Abandon(r) ==
  /\ status[r] \in {"new", "open", "flying"}
  /\ status' = [status EXCEPT ![r] = "gone"]
  /\ UNCHANGED answered

Next ==
  \/ \E r \in Requests : Queue(r) \/ Launch(r) \/ GiveAnswer(r) \/ Abandon(r)
  \/ \E S \in SUBSET Requests : Land(S)

Spec == Init /\ [][Next]_vars
=============================================================================
