---- MODULE MCAcmeOrders ----
EXTENDS AcmeOrders, TLC

CONSTANTS n1, n2

Plain(n) == [name |-> n, wildcard |-> FALSE]
Wild(n) == [name |-> n, wildcard |-> TRUE]

\* A name, a name with its wildcard, and a name that needs no proof.
MCAsked == {{Plain(n1)}, {Plain(n1), Wild(n1)}, {Plain(n2)}}
Symmetry == Permutations(Orders) \cup Permutations(Handlers)
====
