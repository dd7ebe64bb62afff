-------------------------------- MODULE Lists --------------------------------
(***************************************************************************)
(* The loops over a list that the forwarder's algorithms share.            *)
(***************************************************************************)
EXTENDS Naturals, Sequences

\* A loop or comprehension that keeps some of a list's items: those whose places
\* are good, in order.
Kept(s, good) ==
  LET kept[n \in 0 .. Len(s)] ==
        IF n = 0 THEN <<>>
        ELSE IF n \in good THEN Append(kept[n - 1], s[n])
        ELSE kept[n - 1]
  IN  kept[Len(s)]

\* A seen-and-append loop: the first occurrence of each item.
Dedup(s) == Kept(s, {i \in DOMAIN s : \A j \in 1 .. i - 1 : s[j] # s[i]})

\* A loop over a list that takes a result along; step gives the next one for the
\* result so far and an item.
Folded(step, base, s) ==
  LET result[n \in 0 .. Len(s)] ==
        IF n = 0 THEN base ELSE step[<<result[n - 1], s[n]>>]
  IN  result[Len(s)]
=============================================================================
