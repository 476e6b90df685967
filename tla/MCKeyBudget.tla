---------------------------- MODULE MCKeyBudget ----------------------------
(* A lifetime budget of three requests, and a budget whose windows roll    *)
(* over in trouble for two.                                                *)
EXTENDS KeyBudget

CONSTANTS r1, r2, r3

Both == {[requests |-> {r1, r2, r3}, limit |-> 3, cost |-> 2, period |-> 0, trouble |-> FALSE],
         [requests |-> {r1, r2}, limit |-> 1, cost |-> 1, period |-> 2, trouble |-> TRUE]}

Windows == {[requests |-> {r1, r2}, limit |-> 9, cost |-> 1, period |-> 3, trouble |-> FALSE]}

\* Redis may be lost any number of times in one tick, and each loss may admit
\* one more request: the runs stop at one cent above the budget.
SpendBound == row.spend <= setting.limit + 1
=============================================================================
