--------------------------- MODULE MCConfiguration ---------------------------
EXTENDS Configuration

\* The parts a behaviour is not of begin in one state of theirs.  Deployments are
\* interchangeable: they begin in the order of their models.
CONSTANTS d1, d2, d3

Three == {d1, d2, d3}
Order(d) == IF model[d] = None THEN 0 ELSE model[d]
Few ==
    /\ Init
    /\ Order(d1) <= Order(d2) /\ Order(d2) <= Order(d3)
    /\ kind # "deployments" => model = [d \in Deployments |-> None]

FewSpec == Few /\ [][Next]_vars /\ Fairness
=============================================================================
