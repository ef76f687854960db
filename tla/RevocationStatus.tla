-------------------------- MODULE RevocationStatus --------------------------
(***************************************************************************)
(* What UCM promises about the revocation status of a serial number,      *)
(* whatever tables, CRLs and caches the answer is assembled from.          *)
(*                                                                         *)
(* A serial is good once issued.  A good serial may be put on hold or      *)
(* revoked; a hold may be lifted; a revocation is final.  UCM may forget   *)
(* a serial only once it is forgettable.                                   *)
(***************************************************************************)
CONSTANT Serials

VARIABLES
    status,     \* [Serials -> Statuses]
    forgettable \* serials that may be forgotten, now and from now on

vars == <<status, forgettable>>

Statuses == {"unissued", "good", "held", "revoked", "unknown"}

\* The changes of status the operators can cause.
Moves == {<<"unissued", "good">>, <<"good", "held">>,
          <<"good", "revoked">>, <<"held", "good">>}

MayBecome(s, new) ==
    \/ new = status[s]
    \/ <<status[s], new>> \in Moves
    \/ s \in forgettable' /\ status[s] # "unissued" /\ new = "unknown"

Init ==
    /\ status = [s \in Serials |-> "unissued"]
    /\ forgettable = {}

\* One database transaction may change several serials (a renewal revokes
\* one serial and issues another, a purge forgets many).
Next ==
    /\ status' \in [Serials -> Statuses]
    /\ \A s \in Serials : MayBecome(s, status'[s])
    /\ forgettable \subseteq forgettable'
    /\ forgettable' \subseteq Serials

Spec == Init /\ [][Next]_vars
=============================================================================
