--------------------------- MODULE MCQueryLogStore ---------------------------
(* TLC instance of QueryLogStore: two appending threads and one stream;    *)
(* streams share nothing but the store.                                    *)
EXTENDS QueryLogStore, TLC

CONSTANTS a1, a2, s1

MCAppenders == {a1, a2}
MCSubscribers == {s1}
=============================================================================
