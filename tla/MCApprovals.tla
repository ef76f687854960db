----------------------------- MODULE MCApprovals -----------------------------
EXTENDS Approvals, TLC

Symmetry == Permutations(Requests) \cup Permutations(Admins) \cup Permutations(Handlers)

\* Of a request that was closed without being performed, what a later step reads.
Read(q) ==
    CASE q.status = "rejected" -> [q EXCEPT !.votes = {}]
      [] q.status \in {"expired", "cancelled"} ->
            [Blank EXCEPT !.status = q.status, !.target = q.target, !.linked = q.linked]
      [] OTHER -> q
View == <<[r \in Requests |-> Read(request[r])], target, policy, handler, done, faults>>
=============================================================================
