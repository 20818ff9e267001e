----------------------------- MODULE MCBalance -----------------------------
(* Conditions for Balance's run. *)
EXTENDS Balance

Good == [reality |-> "clean", hy2 |-> "clean", linkBad |-> FALSE, flood |-> FALSE, flaky |-> FALSE]

\* Everything well, one thing wrong at a time, and all of it: no leg answers, UDP writes
\* are refused and sing-box fails.
Weather ==
  {Good, [Good EXCEPT !.reality = "dead"], [Good EXCEPT !.hy2 = "slow"],
   [Good EXCEPT !.linkBad = TRUE],
   [reality |-> "dead", hy2 |-> "dead", linkBad |-> FALSE, flood |-> TRUE, flaky |-> TRUE]}

=============================================================================
