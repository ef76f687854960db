------------------------------ MODULE ScepRequests ------------------------------
(***************************************************************************)
(* Enrolment over SCEP (services/scep/scep_service.py, api/v2/scep.py): a  *)
(* device sends a request under a transaction id, which is issued at once, *)
(* or waits for an operator while the device polls.  Issuing waits on the  *)
(* certificate transparency logs; an Intune profile also asks Intune first *)
(* and tells it before the certificate is committed.                       *)
(*                                                                         *)
(* One CA and one profile.  A request that waits on no network is one      *)
(* step.  What another transaction has inserted or claimed and not         *)
(* committed is waited for, as PostgreSQL does.                            *)
(***************************************************************************)
EXTENDS Integers, FiniteSets

CONSTANTS
    Txns,           \* transaction ids
    NoTxn,
    Handlers,       \* requests that wait on the network
    MaxCert,        \* bound on certificates
    MaxFaults       \* bound on crashes, failed commits and lost answers of Intune

ASSUME ScepAssumption ==
    /\ NoTxn \notin Txns
    /\ {MaxCert, MaxFaults} \subseteq Nat

VARIABLES
    request,        \* scep_requests, by transaction id
    cert,           \* the certificates issued, numbered from 1
    mode,           \* of the profile: its auto_approve and intune_enabled
    profile,        \* the profile exists
    handler,        \* what each waiting request is doing
    notified,       \* transactions of which Intune was told that they succeeded
    crossed,        \* transactions decided while an approval of them was waiting
    faults

vars == <<request, cert, mode, profile, handler, notified, crossed, faults>>

Modes == {"manual", "auto", "intune"}
NoCert == 0
Certs == 1..MaxCert
Request == [status : {"none", "pending", "approved", "rejected"},
            renews : {NoCert} \cup Certs,   \* renewal_of
            cert : {NoCert} \cup Certs]     \* cert_refid
Cert == [txn : Txns, renews : {NoCert} \cup Certs, intune : BOOLEAN,
         status : {"valid", "revoked", "gone"}, archived : BOOLEAN]
Handler == [pc : {"idle", "validate", "sign", "notify", "approve"},
            txn : Txns \cup {NoTxn},
            renews : {NoCert} \cup Certs,
            intune : BOOLEAN]

NoRequest == [status |-> "none", renews |-> NoCert, cert |-> NoCert]
Idle == [pc |-> "idle", txn |-> NoTxn, renews |-> NoCert, intune |-> FALSE]

Issued == DOMAIN cert

TypeOK ==
    /\ request \in [Txns -> Request]
    /\ Issued = 1..Cardinality(Issued)
    /\ cert \in [Issued -> Cert]
    /\ mode \in Modes
    /\ profile \in BOOLEAN
    /\ handler \in [Handlers -> Handler]
    /\ notified \subseteq Txns
    /\ crossed \subseteq Txns
    /\ faults \in 0..MaxFaults

Init ==
    /\ request = [t \in Txns |-> NoRequest]
    /\ cert = << >>
    /\ mode \in Modes
    /\ profile = TRUE
    /\ handler = [h \in Handlers |-> Idle]
    /\ notified = {}
    /\ crossed = {}
    /\ faults = 0

-----------------------------------------------------------------------------
Fault == faults < MaxFaults /\ faults' = faults + 1
Busy == {h \in Handlers : handler[h].pc # "idle"}

\* The model has numbers left for this certificate and for those being issued.
Room == Cardinality(Issued) + Cardinality(Busy) < MaxCert

\* A row of the transaction is inserted but not committed.
Inserting(t) == \E h \in Handlers : handler[h].pc \in {"sign", "notify"} /\ handler[h].txn = t
\* The certificate is archived but that is not committed.
Claiming(c) == c # NoCert /\ \E h \in Handlers : handler[h].pc = "notify" /\ handler[h].renews = c
Approving(t) == \E h \in Handlers : handler[h].pc = "approve" /\ handler[h].txn = t

\* issued_certificate_status; a revocation outlives the row
CertStatus(c) ==
    IF cert[c].status # "valid" THEN "revoked"
    ELSE IF cert[c].archived THEN "superseded" ELSE "ok"

\* Fault: the row is archived whether or not somebody did so before.
Claims_Always(c) == TRUE
\* _claim_superseded; nothing is claimed of a row that is gone
Claims(c) == c # NoCert => (cert[c].status # "gone" => ~cert[c].archived)

\* _auto_approve_request from the logs on: the certificate of the handler's transaction is
\* stored and the one it renews is archived,
Store(h) ==
    LET x == handler[h]
        n == Cardinality(Issued) + 1
        new == [txn |-> x.txn, renews |-> x.renews, intune |-> x.intune,
                status |-> "valid", archived |-> FALSE]
    IN cert' = [c \in Issued \cup {n} |->
                  IF c = n THEN new
                  ELSE IF c = x.renews THEN [cert[c] EXCEPT !.archived = TRUE] ELSE cert[c]]

\* and both are committed with the request.
Issue(h) ==
    /\ Store(h)
    /\ request' = [request EXCEPT ![handler[h].txn] =
                    [status |-> "approved", renews |-> handler[h].renews, cert |-> Cardinality(Issued) + 1]]

Step(h, x) == handler' = [handler EXCEPT ![h] = x]

-----------------------------------------------------------------------------
(* The device: PKCSReq, and RenewalReq of certificate c *)

\* process_pkcs_req from the renewal check on.  A transaction that is known is answered with
\* its status, or refused when the key is another: no certificate either way.
Enrolling(h, t, c, m) ==
    /\ c # NoCert => CertStatus(c) = "ok"
    /\ request[t].status = "none"
    /\ ~Inserting(t)
    /\ IF m = "manual"
       THEN /\ request' = [request EXCEPT ![t] = [@ EXCEPT !.status = "pending", !.renews = c]]
            /\ Step(h, Idle)
       ELSE /\ Step(h, [pc |-> "sign", txn |-> t, renews |-> c, intune |-> m = "intune"])
            /\ UNCHANGED request

Enrol(h, t, c) ==
    /\ handler[h] = Idle
    /\ profile
    /\ Room
    /\ mode # "intune"
    /\ Enrolling(h, t, c, mode)
    /\ UNCHANGED <<cert, mode, profile, notified, crossed, faults>>

\* An Intune profile asks Intune first, with the profile as it was read.
Validate(h, t, c) ==
    /\ handler[h] = Idle
    /\ profile
    /\ Room
    /\ mode = "intune"
    /\ Step(h, [pc |-> "validate", txn |-> t, renews |-> c, intune |-> TRUE])
    /\ UNCHANGED <<request, cert, mode, profile, notified, crossed, faults>>

Validated(h) ==
    LET x == handler[h] IN
    /\ x.pc = "validate"
    /\ \/ Enrolling(h, x.txn, x.renews, "intune")
       \/ Step(h, Idle) /\ UNCHANGED request
    /\ UNCHANGED <<cert, mode, profile, notified, crossed, faults>>

\* The logs have answered: committed, or Intune is told first.
Signed(h) ==
    LET x == handler[h] IN
    /\ x.pc = "sign"
    /\ ~Claiming(x.renews)
    /\ Claims(x.renews)
    /\ IF x.intune THEN Step(h, [x EXCEPT !.pc = "notify"]) /\ UNCHANGED <<request, cert>>
                   ELSE Issue(h) /\ Step(h, Idle)
    /\ UNCHANGED <<mode, profile, notified, crossed, faults>>

\* The logs or the CA refuse, the renewed certificate was superseded, or the commit fails:
\* everything is rolled back, the request too.
NotSigned(h) ==
    /\ handler[h].pc \in {"sign", "approve"}
    /\ Step(h, Idle)
    /\ UNCHANGED <<request, cert, mode, profile, notified, crossed, faults>>

Notified(h) ==
    /\ handler[h].pc = "notify"
    /\ Issue(h)
    /\ notified' = notified \cup {handler[h].txn}
    /\ Step(h, Idle)
    /\ UNCHANGED <<mode, profile, crossed, faults>>

\* Fault: the failure is only logged.
NotNotified_Logged(h) ==
    /\ handler[h].pc = "notify"
    /\ Issue(h)
    /\ Step(h, Idle)
    /\ UNCHANGED <<mode, profile, notified, crossed, faults>>

\* Intune refuses, and the certificate is not issued; or it was told but its answer is lost,
\* or the commit fails.
NotNotified(h) ==
    /\ handler[h].pc = "notify"
    /\ \/ UNCHANGED <<notified, faults>>
       \/ Fault /\ notified' = notified \cup {handler[h].txn}
    /\ Step(h, Idle)
    /\ UNCHANGED <<request, cert, mode, profile, crossed>>

-----------------------------------------------------------------------------
(* The operators *)

\* approve_scep_request: a pending request whose profile is still there
Approvable(t) == request[t].status = "pending" /\ profile

\* approve_request up to the logs
Approve(h, t) ==
    LET r == request[t] IN
    /\ handler[h] = Idle
    /\ Room
    /\ Approvable(t)
    /\ r.renews # NoCert => CertStatus(r.renews) # "revoked"
    /\ Step(h, [pc |-> "approve", txn |-> t, renews |-> r.renews, intune |-> FALSE])
    /\ crossed' = IF Approving(t) THEN crossed \cup {t} ELSE crossed
    /\ UNCHANGED <<request, cert, mode, profile, notified, faults>>

\* Fault: two commits, of which the second may fail.
Approved_TwoCommits(h) ==
    /\ handler[h].pc = "approve"
    /\ ~Claiming(handler[h].renews)
    /\ Claims(handler[h].renews)
    /\ Store(h)
    /\ UNCHANGED request \/ Issue(h)
    /\ Step(h, Idle)
    /\ UNCHANGED <<mode, profile, notified, crossed, faults>>

\* The certificate and the status are committed, whatever the status is by now.
Approved(h) ==
    /\ handler[h].pc = "approve"
    /\ ~Claiming(handler[h].renews)
    /\ Claims(handler[h].renews)
    /\ Issue(h)
    /\ Step(h, Idle)
    /\ UNCHANGED <<mode, profile, notified, crossed, faults>>

\* Fault: the status is not looked at.
Reject_Blind(t) ==
    /\ request[t].status # "none"
    /\ request' = [request EXCEPT ![t].status = "rejected"]
    /\ crossed' = IF Approving(t) THEN crossed \cup {t} ELSE crossed
    /\ UNCHANGED <<cert, mode, profile, handler, notified, faults>>

\* Fault: a status nobody else knows.
Reject_Misspelt(t) ==
    /\ request[t].status = "pending"
    /\ request' = [request EXCEPT ![t].status = "denied"]
    /\ UNCHANGED <<cert, mode, profile, handler, notified, crossed, faults>>

\* reject_scep_request
Reject(t) ==
    /\ request[t].status = "pending"
    /\ request' = [request EXCEPT ![t].status = "rejected"]
    /\ crossed' = IF Approving(t) THEN crossed \cup {t} ELSE crossed
    /\ UNCHANGED <<cert, mode, profile, handler, notified, faults>>

\* update_scep_profile: Intune goes with auto_approve only
UpdateProfile(m) ==
    /\ profile
    /\ m # mode
    /\ mode' = m
    /\ UNCHANGED <<request, cert, profile, handler, notified, crossed, faults>>

\* delete_scep_profile
DeleteProfile ==
    /\ profile
    /\ \A t \in Txns : request[t].status # "pending"
    /\ profile' = FALSE
    /\ UNCHANGED <<request, cert, mode, handler, notified, crossed, faults>>

\* A certificate is revoked, and a revoked one deleted; both wait for who has claimed it.
Revoke(c) ==
    /\ cert[c].status = "valid"
    /\ ~Claiming(c)
    /\ cert' = [cert EXCEPT ![c].status = "revoked"]
    /\ UNCHANGED <<request, mode, profile, handler, notified, crossed, faults>>

Delete(c) ==
    /\ cert[c].status = "revoked"
    /\ ~Claiming(c)
    /\ cert' = [cert EXCEPT ![c].status = "gone"]
    /\ UNCHANGED <<request, mode, profile, handler, notified, crossed, faults>>

\* The process dies: nothing that waited was committed.  Intune may have been told.
Crash ==
    /\ Busy # {}
    /\ Fault
    /\ handler' = [h \in Handlers |-> Idle]
    /\ \E told \in SUBSET {handler[h].txn : h \in {g \in Handlers : handler[g].pc = "notify"}} :
          notified' = notified \cup told
    /\ UNCHANGED <<request, cert, mode, profile, crossed>>

Next ==
    \/ \E h \in Handlers, t \in Txns :
          \/ \E c \in {NoCert} \cup Issued : Enrol(h, t, c) \/ Validate(h, t, c)
          \/ Approve(h, t)
    \/ \E h \in Handlers :
          Validated(h) \/ Signed(h) \/ NotSigned(h) \/ Notified(h) \/ NotNotified(h) \/ Approved(h)
    \/ \E t \in Txns : Reject(t)
    \/ \E m \in Modes : UpdateProfile(m)
    \/ DeleteProfile
    \/ \E c \in Issued : Revoke(c) \/ Delete(c)
    \/ Crash

Spec == Init /\ [][Next]_vars

-----------------------------------------------------------------------------
\* _status_for_existing, _handle_get_cert_initial: what the device is answered
Answer(t) ==
    LET r == request[t] IN
    IF r.status = "approved" /\ r.cert # NoCert /\ cert[r.cert].status # "gone"
    THEN [kind |-> "success", cert |-> r.cert]
    ELSE IF r.status = "rejected" THEN [kind |-> "failure", cert |-> NoCert]
    ELSE [kind |-> "pending", cert |-> NoCert]

\* A certificate is replaced once, however many transactions and approvals ask to renew it at
\* a time, and the one replaced is archived; a row deleted in between cannot be claimed.
RenewedOnce ==
    \A c \in Issued : cert[c].renews # NoCert /\ cert[cert[c].renews].status # "gone" =>
        /\ cert[cert[c].renews].archived
        /\ \A d \in Issued : cert[d].renews = cert[c].renews => d = c

\* A transaction yields one certificate, however it is retried, polled, refused and approved
\* again, unless two approvals of it were waiting at a time.
OneCertificate ==
    \A c, d \in Issued : c # d /\ cert[c].txn = cert[d].txn => cert[c].txn \in crossed

\* What goes out through Intune was told to Intune before, and what Intune was told is issued,
\* unless an answer was lost, a commit failed or the process died in between.
IntuneAgrees ==
    /\ \A c \in Issued : cert[c].intune => cert[c].txn \in notified
    /\ faults = 0 => \A t \in notified : request[t].status = "approved"

\* Once a device can be told that it failed or succeeded, it is told nothing else, unless the
\* request was decided while an approval of it waited, or its certificate is deleted.
AnswerIsFinal ==
    [][\A t \in Txns \ crossed : Answer(t).kind # "pending" =>
          Answer(t)' = Answer(t) \/ (request[t].cert # NoCert /\ cert'[request[t].cert].status = "gone")]_vars
=============================================================================
