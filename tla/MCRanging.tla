------------------------------ MODULE MCRanging ------------------------------
(* Instances of Ranging for TLC. *)
EXTENDS Ranging, TLC

\* The counters of the chips are not synchronised: some wrap during a call, and
\* what leaves on the grid of one chip arrives off the grid of another.
PairOffset == [n \in Node |-> IF n = "a" THEN 0 ELSE 11]
TrioOffset == [n \in Node |-> (CASE n = "a" -> 0 [] n = "b" -> 11 [] OTHER -> 13)]

\* Two nodes, each in either role.
PairScript == [n \in Node |-> {"initiate", "respond"} \X (Node \ {n})]
PairBudget == [n \in Node |-> (IF n = "a" THEN 2 ELSE 1)]

\* An initiator that calls twice, a responder, and a third node in the way.
TrioScript == [n \in Node |->
  CASE n = "a" -> {<<"initiate", "b">>}
    [] n = "b" -> {<<"respond", "a">>}
    [] OTHER   -> {<<"initiate", "b">>, <<"ping", "b">>, <<"ping_rx", "a">>}]
TrioBudget == [n \in Node |-> IF n = "a" THEN 2 ELSE 1]
=============================================================================
