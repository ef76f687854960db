----------------------------- MODULE Revocation -----------------------------
(***************************************************************************)
(* The revocation state of one certificate authority of UCM: certificate  *)
(* rows, the persistent revocation records (RevokedSerial), the full CRLs  *)
(* and the OCSP response cache, and the request handlers and scheduled     *)
(* tasks that share them.                                                  *)
(*                                                                         *)
(* A handler is a sequence of steps.  A step ends where the code commits a *)
(* database transaction and, when Interruptible, also where the code signs *)
(* or contacts a log between reading the tables and committing what it     *)
(* computed from them: with the key on an HSM or with certificate          *)
(* transparency enabled that call yields the greenlet, and a scheduler     *)
(* running in another process interleaves there in any deployment.  Any    *)
(* other handler may run between two steps.                                *)
(***************************************************************************)
EXTENDS Naturals, FiniteSets

CONSTANTS
    Certs,          \* ids of certificate rows; an id is handed out once
    NoCert,         \* no certificate row
    MaxSerial,      \* bound: serials 1..MaxSerial are issued, in order
    Workers,        \* handlers that can be in progress at the same time
    MaxCrl,         \* bound on the CRL number
    Cdp,            \* ca.cdp_enabled
    Delta,          \* ca.delta_crl_enabled
    PurgeSerials,   \* setting crl_auto_purge_stale_serials
    AutoDelete,     \* setting crl_auto_delete_expired_revoked
    Interruptible,  \* a handler can be overtaken between reading and committing
    EffectsFail,    \* purges, CRL generation and cache clearing may fail (tolerated)
    CommitFails,    \* the commit of a revocation or of an unhold may fail
    Crashes         \* the process may die between two steps

ASSUME RevocationAssumption ==
    /\ MaxSerial \in Nat
    /\ MaxCrl \in Nat
    /\ NoCert \notin Certs
    /\ IsFiniteSet(Workers)
    /\ {Cdp, Delta, PurgeSerials, AutoDelete, Interruptible, EffectsFail, CommitFails, Crashes}
          \subseteq BOOLEAN

VARIABLES
    row,        \* Certificate table
    unused,     \* row ids not handed out yet
    issued,     \* the last serial issued
    record,     \* RevokedSerial table, by serial
    expired,    \* serials past their notAfter
    crl,        \* crl_metadata: highest number, and the full CRLs carrying the
                \* highest full number (what get_latest_crl may return)
    cache,      \* OCSPResponse table: status cached for a serial
    worker,     \* the handler each worker is in
    swept       \* history: valid serials that an outdated list of rows deleted

vars == <<row, unused, issued, record, expired, crl, cache, worker, swept>>

Serials == 1..MaxSerial
NoSerial == 0

Reasons == {"none", "certificateHold", "removeFromCRL", "keyCompromise", "superseded"}
Ops == {"none", "revoke", "unhold", "renew", "publish", "ocsp"}
Answers == {"none", "good", "revoked", "unknown"}

Row == [serial : 0..MaxSerial, revoked : BOOLEAN, reason : Reasons]
NoRow == [serial |-> NoSerial, revoked |-> FALSE, reason |-> "none"]

\* A record with reason "none" is an absent row of the table.
Record == [reason : Reasons, holder : Certs \cup {NoCert}]
NoRecord == [reason |-> "none", holder |-> NoCert]

FullCrl == [number : Nat, listed : SUBSET Serials]
NoCrl == [number |-> 0, listed |-> {}]

Pcs == {"idle", "restore", "delta", "clear", "restore_hold", "purge_serials", "auto_delete",
        "delete", "crl", "crl_commit", "invalidate", "renew_commit", "ocsp_cache"}

Worker == [pc : Pcs,
           op : Ops,
           cert : Certs \cup {NoCert},
           serial : 0..MaxSerial,
           draft : FullCrl,
           answer : Answers,
           doomed : SUBSET Certs]

\* A handler at step pc, for row c and serial s; a CRL being signed, an OCSP
\* answer being signed and rows to delete come later.
Handler(pc, op, c, s) ==
    [pc |-> pc, op |-> op, cert |-> c, serial |-> s, draft |-> NoCrl, answer |-> "none",
     doomed |-> {}]
Idle == Handler("idle", "none", NoCert, NoSerial)

TypeOK ==
    /\ row \in [Certs -> Row]
    /\ unused \subseteq Certs
    /\ issued \in 0..MaxSerial
    /\ record \in [Serials -> Record]
    /\ expired \subseteq Serials
    /\ crl \in [number : Nat, latest : SUBSET FullCrl]
    /\ cache \in [Serials -> Answers]
    /\ worker \in [Workers -> Worker]
    /\ swept \subseteq Serials

-----------------------------------------------------------------------------
(* Reading the tables *)

HoldReasons == {"certificateHold"}

Present(c) == row[c].serial # NoSerial
Recorded(s) == record[s].reason # "none"

\* The record's certificate row is still there, carries the same serial and is
\* not revoked: a lifted revocation the record outlived.
Lifted(s) ==
    /\ record[s].holder # NoCert
    /\ row[record[s].holder].serial = s
    /\ ~row[record[s].holder].revoked

\* Live revoked rows, then the records no live row lists.
RevokedRows == {s \in Serials \ expired : \E c \in Certs : row[c].serial = s /\ row[c].revoked}
FilterOrphanSerials_Empty == {}   \* fault: the records are not consulted
FilterOrphanSerials ==
    {s \in Serials \ expired : Recorded(s) /\ s \notin RevokedRows /\ ~Lifted(s)}
GetRevokedCertificates == RevokedRows \cup FilterOrphanSerials

\* Fault: the record's reason is answered in place of the status.
StatusForSerial_Reason(s) ==
    IF \E c \in Certs : row[c].serial = s
    THEN IF \E c \in Certs : row[c].serial = s /\ row[c].revoked THEN "revoked" ELSE "good"
    ELSE IF Recorded(s) THEN record[s].reason ELSE "unknown"

\* The responder's answer: a row with the serial decides, a record otherwise.
StatusForSerial(s) ==
    IF \E c \in Certs : row[c].serial = s
    THEN IF \E c \in Certs : row[c].serial = s /\ row[c].revoked THEN "revoked" ELSE "good"
    ELSE IF Recorded(s) THEN "revoked" ELSE "unknown"

-----------------------------------------------------------------------------
(* Bookkeeping shared by the handlers *)

Busy == {w \in Workers : worker[w].pc # "idle"}

\* Every handler in progress may still take two CRL numbers (an unhold signs a
\* delta and a full CRL).
CrlBudget == crl.number + 2 * (Cardinality(Busy) + 1) <= MaxCrl

Free(w) == worker[w].pc = "idle"
At(w, pc) == worker[w].pc = pc
Goto(w, pc) == worker' = [worker EXCEPT ![w].pc = pc]
Finish(w) == worker' = [worker EXCEPT ![w] = Idle]
Begin(w, handler) == worker' = [worker EXCEPT ![w] = handler]

\* Row c keeps its serial and gets these revocation columns.
Mark(c, revoked, reason) ==
    row' = [row EXCEPT ![c] = [serial |-> row[c].serial, revoked |-> revoked, reason |-> reason]]

\* generate_crl starts with its housekeeping, each purge on its own.
AfterPurge == IF AutoDelete THEN "auto_delete" ELSE "crl"
CrlStart == IF PurgeSerials THEN "purge_serials" ELSE AfterPurge

\* Fault: lifting a hold leaves the cached answers alone.
AfterCrl_UnholdEnds(w) ==
    IF worker[w].op = "revoke" THEN Goto(w, "invalidate") ELSE Finish(w)

\* Where the handler of w goes once its CRL is out, or could not be generated.
AfterCrl(w) ==
    IF worker[w].op \in {"revoke", "unhold"} THEN Goto(w, "invalidate") ELSE Finish(w)

\* crl_metadata after the full CRL f is inserted: CRLs with the same number stay
\* candidates for the latest, which is chosen by number.
Published(f) ==
    [number |-> IF f.number > crl.number THEN f.number ELSE crl.number,
     latest |-> IF \E g \in crl.latest : g.number > f.number THEN crl.latest
                ELSE {g \in crl.latest : g.number = f.number} \cup {f}]

-----------------------------------------------------------------------------
Init ==
    /\ row = [c \in Certs |-> NoRow]
    /\ unused = Certs
    /\ issued = 0
    /\ record = [s \in Serials |-> NoRecord]
    /\ expired = {}
    /\ crl = [number |-> 0, latest |-> {}]
    /\ cache = [s \in Serials |-> "none"]
    /\ worker = [w \in Workers |-> Idle]
    /\ swept = {}

-----------------------------------------------------------------------------
(* Issuing, expiring and deleting certificates *)

CreateCertificate(c) ==
    /\ c \in unused
    /\ issued < MaxSerial
    /\ issued' = issued + 1
    /\ unused' = unused \ {c}
    /\ row' = [row EXCEPT ![c] = [serial |-> issued + 1, revoked |-> FALSE, reason |-> "none"]]
    /\ UNCHANGED <<record, expired, crl, cache, worker, swept>>

\* The clock passes the notAfter of the certificate with serial s.
Expire(s) ==
    /\ s <= issued
    /\ s \notin expired
    /\ expired' = expired \cup {s}
    /\ UNCHANGED <<row, unused, issued, record, crl, cache, worker, swept>>

\* A certificate that is valid and not revoked may not be deleted.
DeletionBlocked(c) == ~row[c].revoked /\ row[c].serial \notin expired

\* Fault: the records naming the row are deleted with it.
RemoveRow_DropsRecords(c) ==
    /\ row' = [row EXCEPT ![c] = NoRow]
    /\ record' = [s \in Serials |-> IF record[s].holder = c THEN NoRecord ELSE record[s]]

\* The row goes; the revocation records naming it are unlinked, never deleted.
RemoveRow(c) ==
    /\ row' = [row EXCEPT ![c] = NoRow]
    /\ record' = [s \in Serials |-> [reason |-> record[s].reason,
                                     holder |-> IF record[s].holder = c THEN NoCert
                                                ELSE record[s].holder]]

DeleteCertificate(c) ==
    /\ Present(c)
    /\ ~DeletionBlocked(c)
    /\ RemoveRow(c)
    /\ UNCHANGED <<unused, issued, expired, crl, cache, worker, swept>>

-----------------------------------------------------------------------------
(* revoke_certificate *)

\* First transaction: the row and its revocation record, together.
RevokeCertificate(w, c, reason) ==
    /\ Free(w)
    /\ CrlBudget
    /\ Present(c)
    /\ ~row[c].revoked
    /\ Mark(c, TRUE, reason)
    /\ record' = [record EXCEPT ![row[c].serial] = [reason |-> reason, holder |-> c]]
    /\ Begin(w, Handler(IF Cdp THEN CrlStart ELSE "invalidate", "revoke", c, row[c].serial))
    /\ UNCHANGED <<unused, issued, expired, crl, cache, swept>>

\* The commit fails: the transaction is rolled back ...
RevocationNotCommitted(w, c) ==
    /\ CommitFails
    /\ Free(w)
    /\ Present(c)
    /\ ~row[c].revoked
    /\ Begin(w, Handler("restore", "revoke", c, row[c].serial))
    /\ UNCHANGED <<row, unused, issued, record, expired, crl, cache, swept>>

\* ... and the columns read before it are written back in another one, which may
\* fail as well.
RestoreRevocationState(w) ==
    /\ At(w, "restore")
    /\ \/ Present(worker[w].cert) /\ Mark(worker[w].cert, FALSE, "none")
       \/ (~Present(worker[w].cert) \/ CommitFails) /\ UNCHANGED row
    /\ Finish(w)
    /\ UNCHANGED <<unused, issued, record, expired, crl, cache, swept>>

-----------------------------------------------------------------------------
(* generate_crl, by a handler or on its own *)

PublishCrl(w) ==
    /\ Free(w)
    /\ CrlBudget
    /\ Begin(w, Handler(CrlStart, "publish", NoCert, NoSerial))
    /\ UNCHANGED <<row, unused, issued, record, expired, crl, cache, swept>>

\* The scheduled delta CRL; without a base CRL there is none.
PublishDelta ==
    /\ Delta /\ Cdp
    /\ CrlBudget
    /\ crl.latest # {}
    /\ crl' = [crl EXCEPT !.number = @ + 1]
    /\ UNCHANGED <<row, unused, issued, record, expired, cache, worker, swept>>

\* Housekeeping: the records of expired certificates are dropped ...
PurgeStaleRevokedSerials(w) ==
    /\ At(w, "purge_serials")
    /\ \/ record' = [s \in Serials |-> IF s \in expired THEN NoRecord ELSE record[s]]
       \/ EffectsFail /\ UNCHANGED record
    /\ Goto(w, AfterPurge)
    /\ UNCHANGED <<row, unused, issued, expired, crl, cache, swept>>

\* ... and the revoked rows past their expiry are listed, once, ...
ExpiredRevokedRows == {c \in Certs : row[c].revoked /\ row[c].serial \in expired}

\* Handler w still has these listed rows to delete.
Sweep(w, rows) ==
    worker' = [worker EXCEPT ![w].doomed = rows,
                             ![w].pc = IF rows = {} THEN "crl" ELSE "delete"]

PurgeExpiredRevokedCertificates(w) ==
    /\ At(w, "auto_delete")
    /\ \/ Sweep(w, ExpiredRevokedRows)
       \/ EffectsFail /\ Goto(w, "crl")
    /\ UNCHANGED <<row, unused, issued, record, expired, crl, cache, swept>>

\* ... and deleted by id, one transaction each, whatever became of them since:
\* a row that was unheld and renewed in between goes with its valid serial.
DeleteListed(w) ==
    /\ At(w, "delete")
    /\ \E c \in worker[w].doomed :
          /\ Sweep(w, worker[w].doomed \ {c})
          /\ \/ /\ Present(c)
                /\ RemoveRow(c)
                /\ swept' = swept \cup {s \in Serials : DeletionBlocked(c) /\ s = row[c].serial}
             \/ (~Present(c) \/ EffectsFail) /\ UNCHANGED <<row, record, swept>>
    /\ UNCHANGED <<unused, issued, expired, crl, cache>>

\* The list and the next number are read; the row is inserted after signing.
NextCrl == [number |-> crl.number + 1, listed |-> GetRevokedCertificates]

GenerateCrl(w) ==
    /\ At(w, "crl")
    /\ IF Interruptible
       THEN /\ Begin(w, [pc |-> "crl_commit", op |-> worker[w].op, cert |-> worker[w].cert,
                         serial |-> worker[w].serial, draft |-> NextCrl, answer |-> "none",
                         doomed |-> {}])
            /\ UNCHANGED crl
       ELSE /\ crl' = Published(NextCrl)
            /\ AfterCrl(w)
    /\ UNCHANGED <<row, unused, issued, record, expired, cache, swept>>

CommitCrl(w) ==
    /\ At(w, "crl_commit")
    /\ crl' = Published(worker[w].draft)
    /\ AfterCrl(w)
    /\ UNCHANGED <<row, unused, issued, record, expired, cache, swept>>

\* A CRL that cannot be generated is logged; the handler goes on.
CrlNotGenerated(w) ==
    /\ EffectsFail
    /\ worker[w].pc \in {"crl", "crl_commit"}
    /\ AfterCrl(w)
    /\ UNCHANGED <<row, unused, issued, record, expired, crl, cache, swept>>

-----------------------------------------------------------------------------
(* invalidate_cached_responses, the last state change of revoke and unhold and
   the first effect of a renewal *)

AfterInvalidate(w) ==
    IF worker[w].op = "renew" /\ Cdp THEN Goto(w, CrlStart) ELSE Finish(w)

InvalidateCachedResponses(w) ==
    /\ At(w, "invalidate")
    /\ \/ cache' = [cache EXCEPT ![worker[w].serial] = "none"]
       \/ EffectsFail /\ UNCHANGED cache
    /\ AfterInvalidate(w)
    /\ UNCHANGED <<row, unused, issued, record, expired, crl, swept>>
-----------------------------------------------------------------------------
(* unhold_certificate *)

\* With delta CRLs the hold is first staged as removeFromCRL and committed;
\* without them the hold and its record are cleared at once, if that commits.
UnholdCertificate(w, c) ==
    /\ Free(w)
    /\ CrlBudget
    /\ Present(c)
    /\ row[c].revoked
    /\ row[c].reason \in HoldReasons
    /\ \/ /\ Delta /\ Cdp
          /\ Mark(c, TRUE, "removeFromCRL")
          /\ Begin(w, Handler("delta", "unhold", c, row[c].serial))
          /\ UNCHANGED record
       \/ /\ ~(Delta /\ Cdp)
          /\ Mark(c, FALSE, "none")
          /\ record' = [record EXCEPT ![row[c].serial] = NoRecord]
          /\ Begin(w, Handler(CrlStart, "unhold", c, row[c].serial))
       \/ /\ ~(Delta /\ Cdp)
          /\ CommitFails
          /\ Begin(w, Handler("restore_hold", "unhold", c, row[c].serial))
          /\ UNCHANGED <<row, record>>
    /\ UNCHANGED <<unused, issued, expired, crl, cache, swept>>

\* Fault: without a delta the unhold is abandoned after its staging.
EmitRemoveFromCrl_Abandons(w) ==
    /\ At(w, "delta")
    /\ \/ /\ crl.latest # {}
          /\ crl' = [crl EXCEPT !.number = @ + 1]
          /\ Goto(w, "clear")
       \/ crl.latest = {} /\ Finish(w) /\ UNCHANGED crl
    /\ UNCHANGED <<row, unused, issued, record, expired, cache, swept>>

\* A delta CRL takes the next number of the CA; its failure is tolerated, and
\* without a base CRL there is none to generate.
EmitRemoveFromCrl(w) ==
    /\ At(w, "delta")
    /\ \/ crl.latest # {} /\ crl' = [crl EXCEPT !.number = @ + 1]
       \/ (crl.latest = {} \/ EffectsFail) /\ UNCHANGED crl
    /\ Goto(w, "clear")
    /\ UNCHANGED <<row, unused, issued, record, expired, cache, swept>>

\* The lifted hold and its record go in one transaction, which fails when the
\* row was deleted meanwhile.
ClearHold(w) ==
    LET c == worker[w].cert IN
    /\ At(w, "clear")
    /\ \/ /\ Present(c)
          /\ Mark(c, FALSE, "none")
          /\ record' = [record EXCEPT ![worker[w].serial] = NoRecord]
          /\ Goto(w, CrlStart)
       \/ /\ ~Present(c)
          /\ Finish(w)
          /\ UNCHANGED <<row, record>>
       \/ /\ CommitFails
          /\ Goto(w, "restore_hold")
          /\ UNCHANGED <<row, record>>
    /\ UNCHANGED <<unused, issued, expired, crl, cache, swept>>

\* Fault: the certificate is restored as if its hold were gone.
RestoreHold_AsGood(w) ==
    /\ At(w, "restore_hold")
    /\ IF Present(worker[w].cert) THEN Mark(worker[w].cert, FALSE, "none") ELSE UNCHANGED row
    /\ Finish(w)
    /\ UNCHANGED <<unused, issued, record, expired, crl, cache, swept>>

\* The hold is put back as it was; when that commit fails too, a staged hold
\* stays staged.
RestoreHold(w) ==
    /\ At(w, "restore_hold")
    /\ \/ Present(worker[w].cert) /\ Mark(worker[w].cert, TRUE, "certificateHold")
       \/ (~Present(worker[w].cert) \/ CommitFails) /\ UNCHANGED row
    /\ Finish(w)
    /\ UNCHANGED <<unused, issued, record, expired, crl, cache, swept>>

-----------------------------------------------------------------------------
(* renew_certificate_in_place *)

\* Fault: the superseded serial is not recorded.
TakeSerial_NoRecord(c, old) ==
    /\ issued < MaxSerial
    /\ issued' = issued + 1
    /\ row' = [row EXCEPT ![c].serial = issued + 1]
    /\ UNCHANGED record

\* The transaction of a renewal of row c that read serial old: the serial is
\* swapped only if the row still carries old, and old is recorded as superseded.
\* The columns _write_row resets to their unrevoked values were read as such by
\* check_renewable, so the ORM leaves them out of the UPDATE: a revocation
\* committed since then stays on the row.
TakeSerial(c, old) ==
    /\ issued < MaxSerial
    /\ issued' = issued + 1
    /\ row' = [row EXCEPT ![c].serial = issued + 1]
    /\ record' = [record EXCEPT ![old] = [reason |-> "superseded", holder |-> c]]

\* The row is read again before it is judged.  PostgreSQL keeps it locked until
\* the commit; SQLite, modelled here, ignores the lock and lets others write.
RenewCertificate(w, c) ==
    /\ Free(w)
    /\ CrlBudget
    /\ Present(c)
    /\ ~row[c].revoked
    /\ issued < MaxSerial
    /\ Begin(w, Handler(IF Interruptible THEN "renew_commit" ELSE "invalidate",
                        "renew", c, row[c].serial))
    /\ IF Interruptible
       THEN UNCHANGED <<row, record, issued>>
       ELSE TakeSerial(c, row[c].serial)
    /\ UNCHANGED <<unused, expired, crl, cache, swept>>

\* The signed certificate is written, or refused because another renewal or a
\* deletion took the row (409).
CommitRenewal(w) ==
    /\ At(w, "renew_commit")
    /\ \/ /\ row[worker[w].cert].serial = worker[w].serial
          /\ TakeSerial(worker[w].cert, worker[w].serial)
          /\ Goto(w, "invalidate")
       \/ /\ row[worker[w].cert].serial # worker[w].serial \/ issued = MaxSerial
          /\ Finish(w)
          /\ UNCHANGED <<row, record, issued>>
    /\ UNCHANGED <<unused, expired, crl, cache, swept>>

-----------------------------------------------------------------------------
(* The OCSP responder *)

\* No usable cached response: the status is read, signed and cached.
OcspRequest(w, s) ==
    /\ Free(w)
    /\ cache[s] = "none"
    /\ IF Interruptible
       THEN /\ Begin(w, [pc |-> "ocsp_cache", op |-> "ocsp", cert |-> NoCert, serial |-> s,
                         draft |-> NoCrl, answer |-> StatusForSerial(s), doomed |-> {}])
            /\ UNCHANGED cache
       ELSE /\ cache' = [cache EXCEPT ![s] = StatusForSerial(s)]
            /\ UNCHANGED worker
    /\ UNCHANGED <<row, unused, issued, record, expired, crl, swept>>

CacheResponse(w) ==
    /\ At(w, "ocsp_cache")
    /\ cache' = [cache EXCEPT ![worker[w].serial] = worker[w].answer]
    /\ Finish(w)
    /\ UNCHANGED <<row, unused, issued, record, expired, crl, swept>>

\* Fault: responses are served whatever their next_update.
ResponseExpires_Never(s) == FALSE /\ UNCHANGED vars

\* next_update passes: the response is no longer served (and is cleaned up).
ResponseExpires(s) ==
    /\ cache[s] # "none"
    /\ cache' = [cache EXCEPT ![s] = "none"]
    /\ UNCHANGED <<row, unused, issued, record, expired, crl, worker, swept>>
-----------------------------------------------------------------------------
\* The process dies: every handler in progress is gone, the database stays.
Crash ==
    /\ Crashes
    /\ Busy # {}
    /\ worker' = [w \in Workers |-> Idle]
    /\ UNCHANGED <<row, unused, issued, record, expired, crl, cache, swept>>

\* The steps of a handler already in progress.
Continue(w) ==
    \/ RestoreRevocationState(w)
    \/ PurgeStaleRevokedSerials(w)
    \/ PurgeExpiredRevokedCertificates(w)
    \/ DeleteListed(w)
    \/ GenerateCrl(w)
    \/ CommitCrl(w)
    \/ CrlNotGenerated(w)
    \/ InvalidateCachedResponses(w)
    \/ EmitRemoveFromCrl(w)
    \/ ClearHold(w)
    \/ RestoreHold(w)
    \/ CommitRenewal(w)
    \/ CacheResponse(w)

\* The requests and scheduled tasks a free worker may take up.
Start(w) ==
    \/ \E c \in Certs, reason \in {"certificateHold", "keyCompromise"} :
          RevokeCertificate(w, c, reason)
    \/ \E c \in Certs : RevocationNotCommitted(w, c)
    \/ \E c \in Certs : UnholdCertificate(w, c)
    \/ \E c \in Certs : RenewCertificate(w, c)
    \/ \E s \in Serials : OcspRequest(w, s)
    \/ PublishCrl(w)

Next ==
    \/ \E w \in Workers : Start(w)
    \/ \E w \in Workers : Continue(w)
    \/ \E c \in Certs : CreateCertificate(c)
    \/ \E c \in Certs : DeleteCertificate(c)
    \/ \E s \in Serials : Expire(s)
    \/ \E s \in Serials : ResponseExpires(s)
    \/ PublishDelta
    \/ Crash

Spec == Init /\ [][Next]_vars

\* A handler that started runs to its end (the greenlet is scheduled again) and
\* the clock moves on, so every cached response reaches its next_update.
Fairness ==
    /\ \A w \in Workers : WF_vars(Continue(w))
    /\ \A s \in Serials : WF_vars(ResponseExpires(s))

FairSpec == Spec /\ Fairness

-----------------------------------------------------------------------------
(* What the tables say of a serial, in the terms of RevocationStatus *)

SuspensionReasons == HoldReasons \cup {"removeFromCRL"}

OnGoodRow(s) == \E c \in Certs : row[c].serial = s /\ ~row[c].revoked
OnRevokedRow(s, reasons) ==
    \E c \in Certs : row[c].serial = s /\ row[c].revoked /\ row[c].reason \in reasons

AbstractStatus ==
    [s \in Serials |->
        IF s > issued THEN "unissued"
        ELSE IF OnGoodRow(s) THEN "good"
        ELSE IF OnRevokedRow(s, SuspensionReasons) THEN "held"
        ELSE IF OnRevokedRow(s, Reasons) THEN "revoked"
        ELSE IF ~Recorded(s) THEN "unknown"
        ELSE IF record[s].reason \in SuspensionReasons THEN "held" ELSE "revoked"]

Promise == INSTANCE RevocationStatus WITH status <- AbstractStatus,
                                          forgettable <- expired \cup swept

\* UCM keeps its promise about the status of serials: revoked is final, a hold
\* can only be lifted, and nothing is forgotten before it expires, although the
\* answer moves from the certificate row to the revocation record when the row
\* is renewed (lifecycle.py, renewal.py) or deleted.  The one exception is a good
\* serial whose row the auto-delete had listed as expired and revoked before it
\* was unheld and renewed (swept).
StatusPromise == Promise!Spec

Quiescent == Busy = {}

\* Once no handler is in progress the CRL that the distribution point serves
\* lists exactly the unexpired revoked serials: the trailing generate_crl of
\* every handler left no revocation out and no lifted hold in.
ServedCrlExact ==
    Cdp /\ Quiescent =>
        /\ \A f \in crl.latest : \A s \in Serials \ expired :
              s \in f.listed <=> StatusForSerial(s) = "revoked"
        /\ crl.latest = {} => \A s \in Serials \ expired : StatusForSerial(s) # "revoked"

\* Once no handler is in progress no cached OCSP response contradicts the
\* tables: a revocation and the lifting of a hold cleared what they changed.
CacheCoherent ==
    Quiescent => \A s \in Serials :
        /\ StatusForSerial(s) = "revoked" => cache[s] \in {"none", "revoked"}
        /\ StatusForSerial(s) = "good" => cache[s] # "revoked"

\* A hold staged as removeFromCRL can no longer be lifted by a request, so the
\* unhold that staged it must still be there to clear it or put it back.
StagedHoldIsOwned ==
    \A c \in Certs : row[c].reason = "removeFromCRL" =>
        \E w \in Workers : worker[w].cert = c
                           /\ worker[w].pc \in {"delta", "clear", "restore_hold"}

\* A revoked serial is not answered good for ever: whatever was overtaken or
\* failed, the cached good response reaches its next_update and none follows it.
StaleGoodEnds ==
    \A s \in Serials :
        <>[](StatusForSerial(s) = "revoked") => <>[](cache[s] # "good")

-----------------------------------------------------------------------------
(* Inductive invariant *)

\* A serial is on one row at most.
SerialsDistinct ==
    \A c, d \in Certs : row[c].serial = row[d].serial /\ Present(c) => c = d

SerialsIssued == \A c \in Certs : row[c].serial <= issued
RecordsIssued == \A s \in Serials : Recorded(s) => s <= issued

UnusedAbsent == \A c \in unused : ~Present(c)

\* A revoked row has its record until it may be purged, and never one with the
\* other kind of reason; a row that is not revoked has no record.
RowsMatchRecords ==
    \A c \in Certs : Present(c) =>
        LET s == row[c].serial IN
        /\ row[c].revoked /\ s \notin expired => Recorded(s)
        /\ row[c].revoked /\ Recorded(s) =>
              (record[s].reason \in SuspensionReasons <=> row[c].reason \in SuspensionReasons)
        /\ ~row[c].revoked => ~Recorded(s)

\* A hold being lifted is still the one that was staged, or its row is gone for
\* good, and no two handlers are lifting it.
Lifting(w) == worker[w].pc \in {"delta", "clear"}

StagedHoldUntouched ==
    \A w \in Workers : Lifting(w) =>
        LET c == worker[w].cert IN
        /\ c \in Certs \ unused
        /\ Present(c) => /\ row[c].serial = worker[w].serial
                         /\ row[c].revoked
                         /\ row[c].reason = "removeFromCRL"
                         /\ \A v \in Workers : Lifting(v) /\ worker[v].cert = c => v = w

\* Handlers are where a failed commit or a wait for a signature puts them only if
\* those are possible.
StepsTaken ==
    \A w \in Workers :
        /\ worker[w].pc \in {"restore", "restore_hold"} => CommitFails
        /\ worker[w].pc = "renew_commit" => Interruptible

\* Rows are listed for deletion by a handler that is deleting them.  With one
\* handler at a time they stay expired and revoked until then, and no valid serial
\* goes with them.
Alone == \A v, w \in Workers : v = w

ListedRows ==
    \A w \in Workers : /\ worker[w].pc # "delete" => worker[w].doomed = {}
                       /\ worker[w].doomed \cap unused = {}

ListedStayExpired ==
    Alone => /\ swept = {}
             /\ \A w \in Workers : \A c \in worker[w].doomed :
                   Present(c) => row[c].revoked /\ row[c].serial \in expired

\* What ties the rows, the records and the handlers together.  The status of a
\* serial survives the renewal and the deletion of its row because of it.
TiedInv ==
    /\ SerialsDistinct
    /\ SerialsIssued
    /\ RecordsIssued
    /\ UnusedAbsent
    /\ RowsMatchRecords
    /\ StagedHoldUntouched
    /\ StepsTaken

StatusInv == TiedInv /\ ListedRows /\ ListedStayExpired
=============================================================================
