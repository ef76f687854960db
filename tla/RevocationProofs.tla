-------------------------- MODULE RevocationProofs --------------------------
(***************************************************************************)
(* Proofs about Revocation, for any number of rows, serials and workers:   *)
(* types; the invariant that ties rows, revocation records and handlers    *)
(* together; and, with it, that Revocation implements RevocationStatus.    *)
(* The last two hold with tolerated failures and with crashes, if no       *)
(* handler has to write what it read before it was overtaken               *)
(* (NotOvertaken): it is not overtaken while it signs and commits do not   *)
(* fail, or else handlers run one at a time.                               *)
(***************************************************************************)
EXTENDS Revocation, TLAPS

-----------------------------------------------------------------------------
(* Types *)

LEMMA HandlerIsWorker ==
  ASSUME NEW pc \in Pcs, NEW op \in Ops, NEW c \in Certs \cup {NoCert}, NEW s \in 0..MaxSerial
  PROVE  Handler(pc, op, c, s) \in Worker
  BY DEF Handler, Worker, Answers, FullCrl, NoCrl

LEMMA IdleIsWorker == Idle \in Worker
  BY RevocationAssumption, HandlerIsWorker DEF Idle, Pcs, Ops, NoSerial

\* Starting one handler, moving it to another step or ending it keeps the
\* handlers typed.
LEMMA WorkerMoves ==
  ASSUME NEW w \in Workers, worker \in [Workers -> Worker]
  PROVE  /\ \A pc \in Pcs : Goto(w, pc) => worker' \in [Workers -> Worker]
         /\ Finish(w) => worker' \in [Workers -> Worker]
         /\ \A x \in Worker : Begin(w, x) => worker' \in [Workers -> Worker]
  <1>1. ASSUME NEW pc \in Pcs, Goto(w, pc) PROVE worker' \in [Workers -> Worker]
    BY <1>1 DEF Goto, Worker, Pcs
  <1>2. ASSUME Finish(w) PROVE worker' \in [Workers -> Worker]
    BY <1>2, IdleIsWorker DEF Finish
  <1>3. ASSUME NEW x \in Worker, Begin(w, x) PROVE worker' \in [Workers -> Worker]
    BY <1>3 DEF Begin
  <1> QED
    BY <1>1, <1>2, <1>3

\* Deleting listed rows keeps the handlers typed and takes w to the next step.
LEMMA SweepFrame ==
  ASSUME worker \in [Workers -> Worker], NEW w \in Workers, NEW rows \in SUBSET Certs, Sweep(w, rows)
  PROVE  /\ worker' \in [Workers -> Worker]
         /\ worker'[w].pc = (IF rows = {} THEN "crl" ELSE "delete")
         /\ worker'[w].doomed = rows
         /\ worker'[w].op = worker[w].op /\ worker'[w].cert = worker[w].cert
         /\ worker'[w].serial = worker[w].serial
         /\ \A v \in Workers \ {w} : worker'[v] = worker[v]
  <1> DEFINE pc == IF rows = {} THEN "crl" ELSE "delete"
             h == [worker[w] EXCEPT !.doomed = rows, !.pc = pc]
  <1>1. worker' = [worker EXCEPT ![w] = h]
    BY DEF Sweep
  <1>2. pc \in Pcs
    BY DEF Pcs
  <1>3. /\ h \in Worker /\ h.pc = pc /\ h.doomed = rows /\ h.op = worker[w].op
        /\ h.cert = worker[w].cert /\ h.serial = worker[w].serial
    BY <1>2 DEF Worker
  <1> HIDE DEF h
  <1> QED
    BY <1>1, <1>3

LEMMA MarkTyped ==
  ASSUME row \in [Certs -> Row], NEW c, NEW b \in BOOLEAN, NEW r \in Reasons, Mark(c, b, r)
  PROVE  row' \in [Certs -> Row]
  BY DEF Mark, Row

LEMMA TakeSerialTyped ==
  ASSUME TypeOK, NEW c \in Certs \cup {NoCert}, NEW old, TakeSerial(c, old)
  PROVE  /\ row' \in [Certs -> Row]
         /\ record' \in [Serials -> Record]
         /\ issued' \in 0..MaxSerial
  <1>1. issued' \in 0..MaxSerial /\ issued + 1 \in 0..MaxSerial
    BY RevocationAssumption DEF TypeOK, TakeSerial
  <1>2. row' \in [Certs -> Row]
    BY <1>1 DEF TypeOK, TakeSerial, Row
  <1>3. record' \in [Serials -> Record]
    BY DEF TypeOK, TakeSerial, Record, Reasons
  <1> QED
    BY <1>1, <1>2, <1>3

LEMMA AfterPurgeIsPc == AfterPurge \in Pcs
  BY RevocationAssumption DEF AfterPurge, Pcs

LEMMA CrlStartIsPc == CrlStart \in Pcs
  BY RevocationAssumption, AfterPurgeIsPc DEF CrlStart, Pcs

LEMMA AfterCrlTyped ==
  ASSUME NEW w \in Workers, worker \in [Workers -> Worker], AfterCrl(w)
  PROVE  worker' \in [Workers -> Worker]
  BY WorkerMoves DEF AfterCrl, Pcs

LEMMA AfterInvalidateTyped ==
  ASSUME NEW w \in Workers, worker \in [Workers -> Worker], AfterInvalidate(w)
  PROVE  worker' \in [Workers -> Worker]
  BY WorkerMoves, CrlStartIsPc DEF AfterInvalidate, Pcs

LEMMA PublishedTyped ==
  ASSUME NEW f \in FullCrl, crl \in [number : Nat, latest : SUBSET FullCrl]
  PROVE  Published(f) \in [number : Nat, latest : SUBSET FullCrl]
  BY DEF Published, FullCrl

LEMMA NextCrlTyped ==
  ASSUME crl \in [number : Nat, latest : SUBSET FullCrl]
  PROVE  NextCrl \in FullCrl
  BY DEF NextCrl, FullCrl, GetRevokedCertificates, RevokedRows, FilterOrphanSerials

LEMMA AnswerTyped == \A s \in Serials : StatusForSerial(s) \in Answers
  BY DEF StatusForSerial, Answers

LEMMA Blanks == NoRow \in Row /\ NoRecord \in Record
  BY RevocationAssumption DEF NoRow, Row, NoRecord, Record, Reasons, NoSerial

LEMMA RemoveRowTyped ==
  ASSUME row \in [Certs -> Row], record \in [Serials -> Record], NEW c, RemoveRow(c)
  PROVE  row' \in [Certs -> Row] /\ record' \in [Serials -> Record]
  BY Blanks DEF RemoveRow, Record

\* Every step of every handler leaves the tables and the handlers' local state
\* well typed, whatever fails and whoever is overtaken.
THEOREM TypeCorrect == Spec => []TypeOK
  <1> USE RevocationAssumption DEF TypeOK, Serials
  <1>1. Init => TypeOK
    BY IdleIsWorker, Blanks DEF Init, FullCrl, Answers
  <1>2. TypeOK /\ [Next]_vars => TypeOK'
    <2> SUFFICES ASSUME TypeOK, [Next]_vars PROVE TypeOK'
      OBVIOUS
    <2>1. ASSUME NEW c \in Certs, CreateCertificate(c) PROVE TypeOK'
      BY <2>1 DEF CreateCertificate, Row, Reasons
    <2>2. ASSUME NEW c \in Certs, DeleteCertificate(c) PROVE TypeOK'
      BY <2>2, RemoveRowTyped DEF DeleteCertificate
    <2>3. ASSUME NEW s \in Serials, Expire(s) PROVE TypeOK'
      BY <2>3 DEF Expire
    <2>4. ASSUME NEW s \in Serials, ResponseExpires(s) PROVE TypeOK'
      BY <2>4 DEF ResponseExpires, Answers
    <2>5. ASSUME Crash PROVE TypeOK'
      BY <2>5, IdleIsWorker DEF Crash
    <2>6. ASSUME NEW w \in Workers, NEW c \in Certs,
                 NEW reason \in {"certificateHold", "keyCompromise"},
                 RevokeCertificate(w, c, reason)
          PROVE TypeOK'
      <3>1. /\ (IF Cdp THEN CrlStart ELSE "invalidate") \in Pcs
            /\ "revoke" \in Ops
            /\ row[c].serial \in 0..MaxSerial
            /\ reason \in Reasons
        BY CrlStartIsPc DEF Pcs, Ops, Row, Reasons
      <3>2. row' \in [Certs -> Row] /\ record' \in [Serials -> Record]
        BY <2>6, <3>1, MarkTyped DEF RevokeCertificate, Record
      <3>3. worker' \in [Workers -> Worker]
        BY <2>6, <3>1, HandlerIsWorker, WorkerMoves DEF RevokeCertificate
      <3> QED
        BY <2>6, <3>2, <3>3 DEF RevokeCertificate
    <2>7. ASSUME NEW w \in Workers, NEW c \in Certs, RevocationNotCommitted(w, c) PROVE TypeOK'
      <3>1. "restore" \in Pcs /\ "revoke" \in Ops /\ row[c].serial \in 0..MaxSerial
        BY DEF Pcs, Ops, Row
      <3> QED
        BY <3>1, <2>7, HandlerIsWorker, WorkerMoves DEF RevocationNotCommitted
    <2>8. ASSUME NEW w \in Workers, NEW c \in Certs, UnholdCertificate(w, c) PROVE TypeOK'
      <3>1. /\ row[c].serial \in 0..MaxSerial
            /\ "delta" \in Pcs /\ "restore_hold" \in Pcs
            /\ "unhold" \in Ops
            /\ {"none", "removeFromCRL"} \subseteq Reasons
        BY DEF Row, Pcs, Ops, Reasons
      <3>2. row' \in [Certs -> Row] /\ record' \in [Serials -> Record]
        BY <2>8, <3>1, MarkTyped, Blanks, ZenonT(60) DEF UnholdCertificate
      <3>3. worker' \in [Workers -> Worker]
        BY <3>1, <2>8, HandlerIsWorker, CrlStartIsPc, WorkerMoves DEF UnholdCertificate
      <3> QED
        BY <2>8, <3>2, <3>3 DEF UnholdCertificate
    <2>9. ASSUME NEW w \in Workers, NEW c \in Certs, RenewCertificate(w, c) PROVE TypeOK'
      <3>1. /\ row' \in [Certs -> Row]
            /\ record' \in [Serials -> Record]
            /\ issued' \in 0..MaxSerial
        BY <2>9, TakeSerialTyped DEF RenewCertificate
      <3>2. worker' \in [Workers -> Worker]
        <4>1. /\ (IF Interruptible THEN "renew_commit" ELSE "invalidate") \in Pcs
              /\ "renew" \in Ops
              /\ row[c].serial \in 0..MaxSerial
          BY DEF Pcs, Ops, Row
        <4> QED
          BY <4>1, <2>9, HandlerIsWorker, WorkerMoves DEF RenewCertificate
      <3> QED
        BY <2>9, <3>1, <3>2 DEF RenewCertificate
    <2>10. ASSUME NEW w \in Workers, NEW s \in Serials, OcspRequest(w, s) PROVE TypeOK'
      <3>1. StatusForSerial(s) \in Answers /\ s \in 0..MaxSerial
        BY AnswerTyped
      <3>2. [pc |-> "ocsp_cache", op |-> "ocsp", cert |-> NoCert, serial |-> s,
             draft |-> NoCrl, answer |-> StatusForSerial(s), doomed |-> {}] \in Worker
        BY <3>1 DEF Worker, Pcs, Ops, NoCrl, FullCrl
      <3>3. worker' \in [Workers -> Worker] /\ cache' \in [Serials -> Answers]
        BY <3>1, <3>2, <2>10, WorkerMoves DEF OcspRequest
      <3> QED
        BY <3>3, <2>10 DEF OcspRequest
    <2>11. ASSUME NEW w \in Workers, PublishCrl(w) PROVE TypeOK'
      <3>1. "publish" \in Ops /\ NoSerial \in 0..MaxSerial
        BY DEF Ops, NoSerial
      <3> QED
        BY <3>1, <2>11, HandlerIsWorker, CrlStartIsPc, WorkerMoves DEF PublishCrl
    <2>12. ASSUME NEW w \in Workers, RestoreRevocationState(w) PROVE TypeOK'
      <3>1. "none" \in Reasons
        BY DEF Reasons
      <3> QED
        BY <3>1, <2>12, WorkerMoves, MarkTyped DEF RestoreRevocationState
    <2>13. ASSUME NEW w \in Workers, PurgeStaleRevokedSerials(w) PROVE TypeOK'
      BY <2>13, WorkerMoves, AfterPurgeIsPc, Blanks DEF PurgeStaleRevokedSerials
    <2>24. ASSUME NEW w \in Workers, PurgeExpiredRevokedCertificates(w) PROVE TypeOK'
      <3>1. ExpiredRevokedRows \in SUBSET Certs /\ "crl" \in Pcs
        BY DEF ExpiredRevokedRows, Pcs
      <3>2. worker' \in [Workers -> Worker]
        BY <2>24, <3>1, SweepFrame, WorkerMoves DEF PurgeExpiredRevokedCertificates
      <3> QED
        BY <3>2, <2>24 DEF PurgeExpiredRevokedCertificates
    <2>25. ASSUME NEW w \in Workers, DeleteListed(w) PROVE TypeOK'
      <3>1. PICK c \in worker[w].doomed :
               /\ Sweep(w, worker[w].doomed \ {c})
               /\ \/ RemoveRow(c) /\ swept' = swept \cup {s \in Serials : DeletionBlocked(c) /\ s = row[c].serial}
                  \/ UNCHANGED <<row, record, swept>>
        BY <2>25 DEF DeleteListed
      <3>2. worker[w].doomed \ {c} \in SUBSET Certs
        BY DEF Worker
      <3>3. worker' \in [Workers -> Worker]
        BY <3>1, <3>2, SweepFrame
      <3>4. row' \in [Certs -> Row] /\ record' \in [Serials -> Record] /\ swept' \subseteq Serials
        BY <3>1, RemoveRowTyped
      <3> QED
        BY <3>3, <3>4, <2>25 DEF DeleteListed
    <2>26. ASSUME PublishDelta PROVE TypeOK'
      BY <2>26 DEF PublishDelta
    <2>14. ASSUME NEW w \in Workers, GenerateCrl(w) PROVE TypeOK'
      <3>1. NextCrl \in FullCrl
        BY NextCrlTyped
      <3>2. Published(NextCrl) \in [number : Nat, latest : SUBSET FullCrl]
        BY <3>1, PublishedTyped
      <3>3. [pc |-> "crl_commit", op |-> worker[w].op, cert |-> worker[w].cert,
             serial |-> worker[w].serial, draft |-> NextCrl, answer |-> "none",
             doomed |-> {}] \in Worker
        BY <3>1 DEF Worker, Pcs, Answers
      <3>4. worker' \in [Workers -> Worker]
        BY <3>3, <2>14, AfterCrlTyped, WorkerMoves DEF GenerateCrl
      <3> QED
        BY <3>2, <3>4, <2>14 DEF GenerateCrl
    <2>15. ASSUME NEW w \in Workers, CommitCrl(w) PROVE TypeOK'
      <3>1. worker[w].draft \in FullCrl
        BY DEF Worker
      <3>2. crl' \in [number : Nat, latest : SUBSET FullCrl]
        BY <3>1, <2>15, PublishedTyped DEF CommitCrl
      <3> QED
        BY <3>2, <2>15, AfterCrlTyped DEF CommitCrl
    <2>16. ASSUME NEW w \in Workers, CrlNotGenerated(w) PROVE TypeOK'
      BY <2>16, AfterCrlTyped DEF CrlNotGenerated
    <2>17. ASSUME NEW w \in Workers, InvalidateCachedResponses(w) PROVE TypeOK'
      BY <2>17, AfterInvalidateTyped DEF InvalidateCachedResponses, Answers
    <2>18. ASSUME NEW w \in Workers, EmitRemoveFromCrl(w) PROVE TypeOK'
      <3>1. crl' \in [number : Nat, latest : SUBSET FullCrl]
        BY <2>18 DEF EmitRemoveFromCrl
      <3>2. worker' \in [Workers -> Worker]
        BY <2>18, WorkerMoves DEF EmitRemoveFromCrl, Pcs
      <3> QED
        BY <3>1, <3>2, <2>18 DEF EmitRemoveFromCrl
    <2>19. ASSUME NEW w \in Workers, ClearHold(w) PROVE TypeOK'
      <3>1. "none" \in Reasons /\ "restore_hold" \in Pcs
        BY DEF Reasons, Pcs
      <3>2. row' \in [Certs -> Row] /\ record' \in [Serials -> Record]
        BY <3>1, <2>19, MarkTyped, Blanks, ZenonT(60) DEF ClearHold
      <3>3. worker' \in [Workers -> Worker]
        BY <3>1, <2>19, WorkerMoves, CrlStartIsPc DEF ClearHold
      <3> QED
        BY <3>2, <3>3, <2>19 DEF ClearHold
    <2>20. ASSUME NEW w \in Workers, RestoreHold(w) PROVE TypeOK'
      <3>1. "certificateHold" \in Reasons
        BY DEF Reasons
      <3> QED
        BY <3>1, <2>20, WorkerMoves, MarkTyped DEF RestoreHold
    <2>21. ASSUME NEW w \in Workers, CommitRenewal(w) PROVE TypeOK'
      <3>1. worker[w].cert \in Certs \cup {NoCert}
        BY DEF Worker
      <3>2. /\ row' \in [Certs -> Row]
            /\ record' \in [Serials -> Record]
            /\ issued' \in 0..MaxSerial
        BY <3>1, <2>21, TakeSerialTyped DEF CommitRenewal
      <3>3. worker' \in [Workers -> Worker]
        BY <2>21, WorkerMoves DEF CommitRenewal, Pcs
      <3> QED
        BY <3>2, <3>3, <2>21 DEF CommitRenewal
    <2>22. ASSUME NEW w \in Workers, CacheResponse(w) PROVE TypeOK'
      <3>1. worker[w].answer \in Answers
        BY DEF Worker
      <3> QED
        BY <3>1, <2>22, WorkerMoves DEF CacheResponse
    <2>23. ASSUME UNCHANGED vars PROVE TypeOK'
      BY <2>23 DEF vars
    <2> HIDE DEF TypeOK
    <2> QED
      BY <2>1, <2>2, <2>3, <2>4, <2>5, <2>6, <2>7, <2>8, <2>9, <2>10, <2>11, <2>12, <2>13,
         <2>14, <2>15, <2>16, <2>17, <2>18, <2>19, <2>20, <2>21, <2>22, <2>23, <2>24, <2>25, <2>26
      DEF Next, Start, Continue
  <1> QED
    BY <1>1, <1>2, PTL DEF Spec

-----------------------------------------------------------------------------
(* The tables keep the status of every serial *)

LiftingPcs == {"delta", "clear"}
RarePcs == {"restore", "restore_hold", "renew_commit"}

\* The handlers lifting a hold after a step were lifting it before.
LiftersKept ==
    \A v \in Workers : Lifting(v)' =>
        /\ Lifting(v)
        /\ worker'[v].cert = worker[v].cert
        /\ worker'[v].serial = worker[v].serial

\* No step took a handler to where a failure or a signature would put it.
StepsKept == \A v \in Workers : worker'[v].pc \in RarePcs => worker'[v].pc = worker[v].pc

LEMMA GotoKeeps ==
  ASSUME NEW w \in Workers, worker \in [Workers -> Worker], NEW pc, Goto(w, pc), pc \notin RarePcs
  PROVE  /\ StepsKept
         /\ pc \notin LiftingPcs => LiftersKept
         /\ Lifting(w) => LiftersKept
  BY DEF Goto, StepsKept, LiftersKept, Lifting, LiftingPcs, Worker

LEMMA BeginKeeps ==
  ASSUME NEW w \in Workers, worker \in [Workers -> Worker], NEW h, Begin(w, h),
         h.pc \notin RarePcs
  PROVE  /\ StepsKept
         /\ h.pc \notin LiftingPcs => LiftersKept
  BY DEF Begin, StepsKept, LiftersKept, Lifting, LiftingPcs

LEMMA FinishKeeps ==
  ASSUME NEW w \in Workers, worker \in [Workers -> Worker], Finish(w)
  PROVE  StepsKept /\ LiftersKept
  BY DEF Finish, Idle, Handler, StepsKept, LiftersKept, Lifting, RarePcs

LEMMA SweepKeeps ==
  ASSUME NEW w \in Workers, worker \in [Workers -> Worker], NEW rows \in SUBSET Certs, Sweep(w, rows)
  PROVE  StepsKept /\ LiftersKept
  BY SweepFrame DEF StepsKept, LiftersKept, Lifting, RarePcs

LEMMA SameKeeps ==
  ASSUME UNCHANGED worker
  PROVE  StepsKept /\ LiftersKept
  BY DEF StepsKept, LiftersKept, Lifting

LEMMA PlainPcs ==
  /\ CrlStart \notin RarePcs \cup LiftingPcs
  /\ AfterPurge \notin RarePcs \cup LiftingPcs
  /\ "invalidate" \notin RarePcs \cup LiftingPcs
  /\ "crl" \notin RarePcs \cup LiftingPcs
  BY RevocationAssumption DEF CrlStart, AfterPurge, RarePcs, LiftingPcs

LEMMA AfterCrlKeeps ==
  ASSUME NEW w \in Workers, worker \in [Workers -> Worker], AfterCrl(w)
  PROVE  StepsKept /\ LiftersKept
  BY GotoKeeps, FinishKeeps, PlainPcs DEF AfterCrl

LEMMA AfterInvalidateKeeps ==
  ASSUME NEW w \in Workers, worker \in [Workers -> Worker], AfterInvalidate(w)
  PROVE  StepsKept /\ LiftersKept
  BY GotoKeeps, FinishKeeps, PlainPcs DEF AfterInvalidate

\* The part of the invariant that is about the tables.
TablesInv ==
    /\ SerialsDistinct
    /\ SerialsIssued
    /\ RecordsIssued
    /\ UnusedAbsent
    /\ RowsMatchRecords

LEMMA StepsFrame ==
  ASSUME StepsTaken, StepsKept
  PROVE  StepsTaken'
  BY DEF StepsTaken, StepsKept, RarePcs

\* A staged hold stays staged if every step leaves its row alone or removes it.
LEMMA StagedFrame ==
  ASSUME StagedHoldUntouched, LiftersKept, unused' \subseteq unused,
         \A v \in Workers : Lifting(v) =>
            row'[worker[v].cert] \in {row[worker[v].cert], NoRow}
  PROVE  StagedHoldUntouched'
  BY DEF StagedHoldUntouched, LiftersKept, Present, NoRow, NoSerial, Lifting

LEMMA TablesFrame ==
  ASSUME TablesInv, UNCHANGED <<row, record, unused, issued>>, expired \subseteq expired'
  PROVE  TablesInv'
  BY DEF TablesInv, SerialsDistinct, SerialsIssued, RecordsIssued, UnusedAbsent,
         RowsMatchRecords, Present, Recorded

\* A step that changes none of the tables the invariant is about.
LEMMA QuietStep ==
  ASSUME TiedInv, UNCHANGED <<row, record, unused, issued>>, expired \subseteq expired',
         StepsKept, LiftersKept
  PROVE  TiedInv'
  <1>1. TablesInv'
    BY TablesFrame DEF TiedInv, TablesInv
  <1>2. StagedHoldUntouched'
    BY StagedFrame DEF TiedInv
  <1> QED
    BY <1>1, <1>2, StepsFrame DEF TiedInv, TablesInv

\* Revocation columns and revocation record of one serial change together.
LEMMA MarkTables ==
  ASSUME TypeOK, TablesInv, NEW c \in Certs, Present(c), UNCHANGED <<unused, issued, expired>>,
         NEW b \in BOOLEAN, NEW r \in Reasons, Mark(c, b, r),
         NEW rec \in Record, record' = [record EXCEPT ![row[c].serial] = rec],
         b /\ row[c].serial \notin expired => rec.reason # "none",
         b /\ rec.reason # "none" =>
            (rec.reason \in SuspensionReasons <=> r \in SuspensionReasons),
         ~b => rec.reason = "none"
  PROVE  TablesInv'
  <1> DEFINE s == row[c].serial
  <1>1. s \in Serials /\ s <= issued
    BY RevocationAssumption DEF TablesInv, SerialsIssued, TypeOK, Row, Present, NoSerial, Serials
  <1>2. \A d \in Certs : /\ row'[d].serial = row[d].serial
                         /\ d # c => row'[d] = row[d]
    BY DEF Mark, TypeOK
  <1>3. row'[c].revoked = b /\ row'[c].reason = r
    BY DEF Mark, TypeOK
  <1>4. record'[s] = rec /\ \A x \in Serials : x # s => record'[x] = record[x]
    BY <1>1 DEF TypeOK
  <1>5. SerialsDistinct' /\ SerialsIssued' /\ UnusedAbsent'
    BY <1>2 DEF TablesInv, SerialsDistinct, SerialsIssued, UnusedAbsent, Present, TypeOK
  <1>6. RecordsIssued'
    BY <1>1, <1>4 DEF TablesInv, RecordsIssued, Recorded
  <1>7. RowsMatchRecords'
    <2> SUFFICES ASSUME NEW d \in Certs, Present(d)'
                 PROVE  /\ row'[d].revoked /\ row'[d].serial \notin expired
                             => record'[row'[d].serial].reason # "none"
                        /\ row'[d].revoked /\ record'[row'[d].serial].reason # "none" =>
                             (record'[row'[d].serial].reason \in SuspensionReasons
                                <=> row'[d].reason \in SuspensionReasons)
                        /\ ~row'[d].revoked => record'[row'[d].serial].reason = "none"
      BY DEF RowsMatchRecords, Recorded, Present
    <2>1. CASE d = c
      BY <2>1, <1>2, <1>3, <1>4
    <2>2. CASE d # c
      <3>1. row'[d] = row[d] /\ Present(d) /\ row[d].serial # s
        BY <2>2, <1>2 DEF TablesInv, SerialsDistinct, Present
      <3>2. row[d].serial \in Serials
        BY <3>1, RevocationAssumption DEF TypeOK, Row, Present, NoSerial, Serials
      <3>3. record'[row[d].serial] = record[row[d].serial]
        BY <3>1, <3>2, <1>4
      <3> QED
        BY <3>1, <3>3 DEF TablesInv, RowsMatchRecords, Recorded
    <2> QED
      BY <2>1, <2>2
  <1> QED
    BY <1>5, <1>6, <1>7 DEF TablesInv

LEMMA RemoveRowTables ==
  ASSUME TypeOK, TablesInv, NEW c \in Certs, RemoveRow(c), UNCHANGED <<unused, issued, expired>>
  PROVE  TablesInv'
  <1>1. \A d \in Certs : d # c => row'[d] = row[d]
    BY DEF RemoveRow, TypeOK
  <1>2. row'[c].serial = 0
    BY DEF RemoveRow, NoRow, NoSerial, TypeOK
  <1>3. \A s \in Serials : record'[s].reason = record[s].reason
    BY DEF RemoveRow
  <1>4. SerialsDistinct' /\ SerialsIssued' /\ UnusedAbsent'
    BY <1>1, <1>2 DEF TablesInv, SerialsDistinct, SerialsIssued, UnusedAbsent, Present, NoSerial,
                      TypeOK
  <1>5. RecordsIssued'
    BY <1>3 DEF TablesInv, RecordsIssued, Recorded
  <1>6. RowsMatchRecords'
    <2>1. \A d \in Certs : Present(d)' => d # c /\ row'[d] = row[d] /\ row[d].serial \in Serials
      BY <1>1, <1>2, RevocationAssumption DEF Present, NoSerial, TypeOK, Row, Serials
    <2> QED
      BY <2>1, <1>3 DEF TablesInv, RowsMatchRecords, Recorded, Present
  <1> QED
    BY <1>4, <1>5, <1>6 DEF TablesInv

\* A renewal: the superseded serial gets its record, the row a serial that
\* was never used.
LEMMA TakeSerialTables ==
  ASSUME TypeOK, TablesInv, NEW c \in Certs, Present(c), ~row[c].revoked,
         TakeSerial(c, row[c].serial), UNCHANGED <<unused, expired>>
  PROVE  TablesInv'
  <1> DEFINE s == row[c].serial
  <1>1. /\ s \in Serials /\ s <= issued
        /\ issued \in Nat /\ issued' = issued + 1 /\ issued + 1 \in Serials
    BY RevocationAssumption
       DEF TablesInv, SerialsIssued, TypeOK, Row, Present, NoSerial, Serials, TakeSerial
  <1>2. \A d \in Certs : d # c => row'[d] = row[d]
    BY DEF TakeSerial, TypeOK
  <1>3. row'[c].serial = issued + 1 /\ row'[c].revoked = row[c].revoked
    BY DEF TakeSerial, TypeOK, Row
  <1>4. \A x \in Serials : x # s => record'[x] = record[x]
    BY DEF TakeSerial, TypeOK
  <1>5. \A d \in Certs : row[d].serial \in Nat /\ row[d].serial <= issued
    BY DEF TablesInv, SerialsIssued, TypeOK, Row
  <1>6. SerialsDistinct' /\ SerialsIssued' /\ UnusedAbsent'
    BY <1>1, <1>2, <1>3, <1>5 DEF TablesInv, SerialsDistinct, SerialsIssued, UnusedAbsent, Present,
                                  NoSerial, TypeOK
  <1>7. RecordsIssued'
    BY <1>1, <1>4, RevocationAssumption DEF TablesInv, RecordsIssued, Recorded, Serials
  <1>8. RowsMatchRecords'
    <2> SUFFICES ASSUME NEW d \in Certs, Present(d)'
                 PROVE  /\ row'[d].revoked /\ row'[d].serial \notin expired
                             => record'[row'[d].serial].reason # "none"
                        /\ row'[d].revoked /\ record'[row'[d].serial].reason # "none" =>
                             (record'[row'[d].serial].reason \in SuspensionReasons
                                <=> row'[d].reason \in SuspensionReasons)
                        /\ ~row'[d].revoked => record'[row'[d].serial].reason = "none"
      BY DEF RowsMatchRecords, Recorded, Present
    <2>1. CASE d = c
      <3>1. record'[issued + 1].reason = "none"
        BY <1>1, <1>4 DEF TablesInv, RecordsIssued, Recorded
      <3> QED
        BY <2>1, <3>1, <1>3
    <2>2. CASE d # c
      <3>1. row'[d] = row[d] /\ Present(d) /\ row[d].serial # s
        BY <2>2, <1>2 DEF TablesInv, SerialsDistinct, Present
      <3>2. row[d].serial \in Serials
        BY <3>1, RevocationAssumption DEF TypeOK, Row, Present, NoSerial, Serials
      <3>3. record'[row[d].serial] = record[row[d].serial]
        BY <3>1, <3>2, <1>4
      <3> QED
        BY <3>1, <3>3 DEF TablesInv, RowsMatchRecords, Recorded
    <2> QED
      BY <2>1, <2>2
  <1> QED
    BY <1>6, <1>7, <1>8 DEF TablesInv

LEMMA PurgeTables ==
  ASSUME TypeOK, TablesInv, UNCHANGED <<row, unused, issued, expired>>,
         record' = [s \in Serials |-> IF s \in expired THEN NoRecord ELSE record[s]]
  PROVE  TablesInv'
  <1>1. \A s \in Serials : \/ s \notin expired /\ record'[s] = record[s]
                           \/ s \in expired /\ record'[s].reason = "none"
    BY DEF NoRecord
  <1>2. RecordsIssued'
    BY <1>1 DEF TablesInv, RecordsIssued, Recorded
  <1>3. RowsMatchRecords'
    <2>1. \A d \in Certs : Present(d) => row[d].serial \in Serials
      BY RevocationAssumption DEF Present, NoSerial, TypeOK, Row, Serials
    <2> QED
      BY <2>1, <1>1 DEF TablesInv, RowsMatchRecords, Recorded, Present
  <1> QED
    BY <1>2, <1>3 DEF TablesInv, SerialsDistinct, SerialsIssued, UnusedAbsent, Present

LEMMA CreateTables ==
  ASSUME TypeOK, TablesInv, NEW c \in Certs, CreateCertificate(c)
  PROVE  TablesInv'
  <1>1. issued \in Nat /\ issued' = issued + 1 /\ issued + 1 \in Serials
    BY RevocationAssumption DEF TypeOK, CreateCertificate, Serials
  <1>2. /\ \A d \in Certs : d # c => row'[d] = row[d]
        /\ row'[c].serial = issued + 1 /\ row'[c].revoked = FALSE
    BY DEF CreateCertificate, TypeOK
  <1>3. \A d \in Certs : row[d].serial \in Nat /\ row[d].serial <= issued
    BY DEF TablesInv, SerialsIssued, TypeOK, Row
  <1>4. SerialsDistinct' /\ SerialsIssued' /\ UnusedAbsent'
    BY <1>1, <1>2, <1>3 DEF TablesInv, SerialsDistinct, SerialsIssued, UnusedAbsent, Present,
                            NoSerial, TypeOK, CreateCertificate
  <1>5. RecordsIssued'
    BY <1>1, RevocationAssumption
       DEF TablesInv, RecordsIssued, Recorded, Serials, CreateCertificate
  <1>6. RowsMatchRecords'
    <2>1. record' = record /\ expired' = expired
      BY DEF CreateCertificate
    <2>2. record[issued + 1].reason = "none"
      BY <1>1 DEF TablesInv, RecordsIssued, Recorded
    <2> QED
      BY <2>1, <2>2, <1>1, <1>2 DEF TablesInv, RowsMatchRecords, Recorded, Present
  <1> QED
    BY <1>4, <1>5, <1>6 DEF TablesInv

\* The handlers that write what they read in an earlier step: a revocation or an
\* unhold whose commit failed and a renewal whose certificate was being signed.
PendingPcs == {"restore", "restore_hold", "renew_commit"}

\* The row such a handler read is still as it was, or gone for good.
PendingUntouched ==
    \A w \in Workers : worker[w].pc \in PendingPcs =>
        LET c == worker[w].cert IN
        /\ c \in Certs \ unused
        /\ worker[w].pc # "restore_hold" =>
              /\ worker[w].serial # NoSerial
              /\ Present(c) => row[c].serial = worker[w].serial /\ ~row[c].revoked
        /\ worker[w].pc = "restore_hold" /\ Present(c) =>
              row[c].revoked /\ row[c].reason \in SuspensionReasons

\* Handlers that never have to write what they read in an earlier step, or a
\* single one, which nothing but deletions and the clock can overtake.
NotOvertaken ==
    \/ ~Interruptible /\ ~CommitFails
    \/ Alone

\* A handler becomes one of those.
LEMMA BeginPending ==
  ASSUME NEW w \in Workers, worker \in [Workers -> Worker], NEW h, Begin(w, h), StepsTaken,
         \/ h.pc \in {"restore", "restore_hold"} /\ CommitFails
         \/ h.pc = "renew_commit" /\ Interruptible
  PROVE  LiftersKept /\ StepsTaken'
  BY DEF Begin, LiftersKept, Lifting, StepsTaken

LEMMA InitInv == Init => TiedInv
  BY RevocationAssumption
     DEF Init, TiedInv, SerialsDistinct, SerialsIssued, RecordsIssued, UnusedAbsent,
         RowsMatchRecords, StagedHoldUntouched, StepsTaken, Lifting, Present, Recorded,
         NoRow, NoRecord, NoSerial, Idle, Handler

LEMMA StepInv ==
  ASSUME NotOvertaken, PendingUntouched, TypeOK, TiedInv, [Next]_vars
  PROVE  TiedInv'
  <1> USE RevocationAssumption
  <1>0. TablesInv /\ StagedHoldUntouched /\ StepsTaken /\ worker \in [Workers -> Worker]
    BY DEF TiedInv, TablesInv, TypeOK
  <1>a. ASSUME TablesInv', StagedHoldUntouched', StepsKept PROVE TiedInv'
    BY <1>0, <1>a, StepsFrame DEF TiedInv, TablesInv
  <1>d. ASSUME TablesInv', StagedHoldUntouched', StepsTaken' PROVE TiedInv'
    BY <1>d DEF TiedInv, TablesInv
  <1>e. ASSUME UNCHANGED <<row, record, unused, issued, expired>>, LiftersKept, StepsTaken'
        PROVE  TiedInv'
    <2>1. TablesInv' /\ StagedHoldUntouched'
      BY <1>0, <1>e, TablesFrame, StagedFrame
    <2> QED
      BY <2>1, <1>d, <1>e
  <1>b. ASSUME NEW c \in Certs, Present(c), row[c].reason # "removeFromCRL",
               LiftersKept, unused' \subseteq unused,
               \A d \in Certs : d # c => row'[d] = row[d]
        PROVE  StagedHoldUntouched'
    <2>1. \A v \in Workers : Lifting(v) => worker[v].cert \in Certs /\ worker[v].cert # c
      BY <1>0, <1>b DEF StagedHoldUntouched
    <2> QED
      BY <2>1, <1>0, <1>b, StagedFrame
  <1>c. ASSUME NEW c \in Certs, RemoveRow(c), LiftersKept, unused' \subseteq unused
        PROVE  StagedHoldUntouched'
    <2>1. \A d \in Certs : row'[d] \in {row[d], NoRow}
      BY <1>c DEF RemoveRow, TypeOK
    <2>2. \A v \in Workers : Lifting(v) => worker[v].cert \in Certs
      BY <1>0 DEF StagedHoldUntouched
    <2> QED
      BY <2>1, <2>2, <1>0, <1>c, StagedFrame
  <1>f. ASSUME NEW c \in Certs, Present(c), ~row[c].revoked, TakeSerial(c, row[c].serial),
               UNCHANGED <<unused, expired>>, LiftersKept, StepsTaken'
        PROVE  TiedInv'
    <2>1. TablesInv'
      BY <1>0, <1>f, TakeSerialTables
    <2>2. \A v \in Workers : Lifting(v) => worker[v].cert \in Certs /\ worker[v].cert # c
      BY <1>0, <1>f DEF StagedHoldUntouched
    <2>3. \A d \in Certs : d # c => row'[d] = row[d]
      BY <1>f DEF TakeSerial, TypeOK
    <2>4. StagedHoldUntouched'
      BY <2>2, <2>3, <1>f, <1>0, StagedFrame
    <2> QED
      BY <2>1, <2>4, <1>d, <1>f
  <1>1. ASSUME NEW c \in Certs, CreateCertificate(c) PROVE TiedInv'
    <2>1. TablesInv'
      BY <1>0, <1>1, CreateTables
    <2>2. StepsKept /\ LiftersKept
      BY <1>1, SameKeeps DEF CreateCertificate
    <2>3. \A v \in Workers : Lifting(v) =>
             worker[v].cert \in Certs /\ row'[worker[v].cert] = row[worker[v].cert]
      BY <1>0, <1>1 DEF StagedHoldUntouched, CreateCertificate, TypeOK
    <2>4. unused' \subseteq unused
      BY <1>1 DEF CreateCertificate
    <2>5. StagedHoldUntouched'
      BY <2>2, <2>3, <2>4, <1>0, StagedFrame
    <2> QED
      BY <2>1, <2>2, <2>5, <1>a
  <1>2. ASSUME NEW c \in Certs, DeleteCertificate(c) PROVE TiedInv'
    <2>1. RemoveRow(c) /\ UNCHANGED <<unused, issued, expired, worker>>
      BY <1>2 DEF DeleteCertificate
    <2>2. TablesInv'
      BY <1>0, <2>1, RemoveRowTables
    <2>3. StepsKept /\ LiftersKept
      BY <2>1, SameKeeps
    <2> QED
      BY <1>a, <1>c, <2>1, <2>2, <2>3
  <1>3. ASSUME NEW s \in Serials, Expire(s) PROVE TiedInv'
    <2>1. UNCHANGED <<row, record, unused, issued, worker>> /\ expired \subseteq expired'
      BY <1>3 DEF Expire
    <2> QED
      BY <2>1, SameKeeps, QuietStep
  <1>4. ASSUME NEW s \in Serials, ResponseExpires(s) PROVE TiedInv'
    <2>1. UNCHANGED <<row, record, unused, issued, worker>> /\ expired \subseteq expired'
      BY <1>4 DEF ResponseExpires
    <2> QED
      BY <2>1, SameKeeps, QuietStep
  <1>5. ASSUME Crash PROVE TiedInv'
    <2>1. UNCHANGED <<row, record, unused, issued>> /\ expired \subseteq expired'
      BY <1>5 DEF Crash
    <2>2. StepsKept /\ LiftersKept
      BY <1>5 DEF Crash, Idle, Handler, StepsKept, LiftersKept, Lifting, RarePcs
    <2> QED
      BY <2>1, <2>2, QuietStep
  <1>6. ASSUME NEW w \in Workers, NEW c \in Certs,
               NEW reason \in {"certificateHold", "keyCompromise"},
               RevokeCertificate(w, c, reason)
        PROVE TiedInv'
    <2> DEFINE rec == [reason |-> reason, holder |-> c]
               pc == IF Cdp THEN CrlStart ELSE "invalidate"
    <2>1. /\ Present(c) /\ ~row[c].revoked
          /\ Mark(c, TRUE, reason)
          /\ record' = [record EXCEPT ![row[c].serial] = rec]
          /\ Begin(w, Handler(pc, "revoke", c, row[c].serial))
          /\ UNCHANGED <<unused, issued, expired>>
      BY <1>6 DEF RevokeCertificate
    <2>2. rec \in Record /\ rec.reason = reason /\ reason \in Reasons /\ reason # "none"
      BY DEF Record, Reasons
    <2>3. TablesInv'
      <3> HIDE DEF rec
      <3> QED
        BY <1>0, <2>1, <2>2, MarkTables
    <2>4. StepsKept /\ LiftersKept
      <3>1. Handler(pc, "revoke", c, row[c].serial).pc \notin RarePcs \cup LiftingPcs
        BY PlainPcs DEF Handler
      <3> QED
        BY <3>1, <2>1, <1>0, BeginKeeps
    <2>5. StagedHoldUntouched'
      <3>1. \A v \in Workers : Lifting(v) => worker[v].cert \in Certs /\ worker[v].cert # c
        BY <1>0, <2>1 DEF StagedHoldUntouched
      <3>2. \A d \in Certs : d # c => row'[d] = row[d]
        BY <2>1 DEF Mark, TypeOK
      <3> QED
        BY <3>1, <3>2, <2>1, <2>4, <1>0, StagedFrame
    <2> QED
      BY <2>3, <2>4, <2>5, <1>a
  <1>7. ASSUME NEW w \in Workers, NEW c \in Certs, RevocationNotCommitted(w, c) PROVE TiedInv'
    <2>1. /\ UNCHANGED <<row, record, unused, issued, expired>> /\ CommitFails
          /\ Begin(w, Handler("restore", "revoke", c, row[c].serial))
      BY <1>7 DEF RevocationNotCommitted
    <2>2. Handler("restore", "revoke", c, row[c].serial).pc = "restore"
      BY DEF Handler
    <2>3. LiftersKept /\ StepsTaken'
      BY <2>1, <2>2, <1>0, BeginPending
    <2> QED
      BY <2>1, <2>3, <1>e
  <1>8. ASSUME NEW w \in Workers, NEW c \in Certs, UnholdCertificate(w, c) PROVE TiedInv'
    <2>1. /\ Present(c) /\ row[c].revoked /\ row[c].reason = "certificateHold"
          /\ UNCHANGED <<unused, issued, expired>>
      BY <1>8 DEF UnholdCertificate, HoldReasons
    <2>2. row[c].serial \in Serials /\ {"none", "removeFromCRL"} \subseteq Reasons
      BY <2>1 DEF Present, NoSerial, TypeOK, Row, Serials, Reasons
    <2>3. CASE Delta /\ Cdp
      <3> DEFINE rec == record[row[c].serial]
      <3>1. /\ Mark(c, TRUE, "removeFromCRL")
            /\ record' = record
            /\ Begin(w, Handler("delta", "unhold", c, row[c].serial))
        BY <1>8, <2>3 DEF UnholdCertificate
      <3>2. record' = [record EXCEPT ![row[c].serial] = rec] /\ rec \in Record
        BY <3>1, <2>2 DEF TypeOK
      <3>3. /\ row[c].serial \notin expired => rec.reason # "none"
            /\ rec.reason # "none" => rec.reason \in SuspensionReasons
            /\ "removeFromCRL" \in SuspensionReasons
        BY <1>0, <2>1 DEF TablesInv, RowsMatchRecords, Recorded, SuspensionReasons, HoldReasons
      <3>4. TablesInv'
        <4> HIDE DEF rec
        <4> QED
          BY <1>0, <2>1, <2>2, <3>1, <3>2, <3>3, MarkTables
      <3>5. Handler("delta", "unhold", c, row[c].serial).pc = "delta"
        BY DEF Handler
      <3>6. StepsKept
        BY <3>1, <3>5, <1>0, BeginKeeps DEF RarePcs
      <3>7. /\ \A d \in Certs : d # c => row'[d] = row[d]
            /\ row'[c] = [serial |-> row[c].serial, revoked |-> TRUE, reason |-> "removeFromCRL"]
        BY <3>1 DEF Mark, TypeOK
      <3>8. /\ \A v \in Workers : v # w => worker'[v] = worker[v]
            /\ worker'[w].cert = c /\ worker'[w].serial = row[c].serial
        BY <3>1, <1>0 DEF Begin, Handler
      <3>9. \A v \in Workers : Lifting(v) => worker[v].cert \in Certs /\ worker[v].cert # c
        BY <1>0, <2>1 DEF StagedHoldUntouched
      <3>10. StagedHoldUntouched'
        <4> SUFFICES ASSUME NEW v \in Workers, Lifting(v)'
                     PROVE  LET e == worker'[v].cert IN
                            /\ e \in Certs \ unused
                            /\ row'[e].serial # NoSerial =>
                                  /\ row'[e].serial = worker'[v].serial
                                  /\ row'[e].revoked
                                  /\ row'[e].reason = "removeFromCRL"
                                  /\ \A u \in Workers :
                                        Lifting(u)' /\ worker'[u].cert = e => u = v
          BY <2>1 DEF StagedHoldUntouched, Present
        <4>1. CASE v = w
          <5>1. c \notin unused
            BY <1>0, <2>1 DEF TablesInv, UnusedAbsent
          <5> QED
            BY <4>1, <5>1, <3>7, <3>8, <3>9 DEF Lifting
        <4>2. CASE v # w
          <5>1. Lifting(v) /\ worker'[v] = worker[v]
            BY <4>2, <3>8 DEF Lifting
          <5> QED
            BY <5>1, <3>7, <3>8, <3>9, <1>0 DEF StagedHoldUntouched, Lifting, Present
        <4> QED
          BY <4>1, <4>2
      <3> QED
        BY <3>4, <3>6, <3>10, <1>a
    <2>4. CASE /\ Mark(c, FALSE, "none")
               /\ record' = [record EXCEPT ![row[c].serial] = NoRecord]
               /\ Begin(w, Handler(CrlStart, "unhold", c, row[c].serial))
      <3>1. /\ Mark(c, FALSE, "none")
            /\ record' = [record EXCEPT ![row[c].serial] = NoRecord]
            /\ Begin(w, Handler(CrlStart, "unhold", c, row[c].serial))
        BY <2>4
      <3>2. TablesInv'
        <4>1. NoRecord.reason = "none"
          BY DEF NoRecord
        <4> QED
          BY <4>1, <1>0, <2>1, <2>2, <3>1, MarkTables, Blanks
      <3>3. StepsKept /\ LiftersKept
        <4>1. Handler(CrlStart, "unhold", c, row[c].serial).pc \notin RarePcs \cup LiftingPcs
          BY PlainPcs DEF Handler
        <4> QED
          BY <4>1, <3>1, <1>0, BeginKeeps
      <3>4. \A d \in Certs : d # c => row'[d] = row[d]
        BY <3>1 DEF Mark, TypeOK
      <3>5. StagedHoldUntouched'
        BY <1>b, <2>1, <3>3, <3>4
      <3> QED
        BY <3>2, <3>3, <3>5, <1>a
    <2>5. CASE /\ CommitFails /\ UNCHANGED <<row, record>>
               /\ Begin(w, Handler("restore_hold", "unhold", c, row[c].serial))
      <3>1. Handler("restore_hold", "unhold", c, row[c].serial).pc = "restore_hold"
        BY DEF Handler
      <3>2. LiftersKept /\ StepsTaken'
        BY <2>5, <3>1, <1>0, BeginPending
      <3> QED
        BY <2>1, <2>5, <3>2, <1>e
    <2> QED
      BY <1>8, <2>3, <2>4, <2>5 DEF UnholdCertificate
  <1>9. ASSUME NEW w \in Workers, NEW c \in Certs, RenewCertificate(w, c) PROVE TiedInv'
    <2>1. CASE ~Interruptible
      <3>1. /\ Present(c) /\ ~row[c].revoked
            /\ TakeSerial(c, row[c].serial)
            /\ Begin(w, Handler("invalidate", "renew", c, row[c].serial))
            /\ UNCHANGED <<unused, expired>>
        BY <1>9, <2>1 DEF RenewCertificate
      <3>2. StepsKept /\ LiftersKept
        <4>1. Handler("invalidate", "renew", c, row[c].serial).pc \notin RarePcs \cup LiftingPcs
          BY PlainPcs DEF Handler
        <4> QED
          BY <4>1, <3>1, <1>0, BeginKeeps
      <3> QED
        BY <3>1, <3>2, <1>f, StepsFrame, <1>0
    <2>2. CASE Interruptible
      <3>1. /\ UNCHANGED <<row, record, unused, issued, expired>>
            /\ Begin(w, Handler("renew_commit", "renew", c, row[c].serial))
        BY <1>9, <2>2 DEF RenewCertificate
      <3>2. Handler("renew_commit", "renew", c, row[c].serial).pc = "renew_commit"
        BY DEF Handler
      <3>3. LiftersKept /\ StepsTaken'
        BY <2>2, <3>1, <3>2, <1>0, BeginPending
      <3> QED
        BY <3>1, <3>3, <1>e
    <2> QED
      BY <2>1, <2>2
  <1>10. ASSUME NEW w \in Workers, NEW s \in Serials, OcspRequest(w, s) PROVE TiedInv'
    <2> DEFINE h == [pc |-> "ocsp_cache", op |-> "ocsp", cert |-> NoCert, serial |-> s,
                     draft |-> NoCrl, answer |-> StatusForSerial(s), doomed |-> {}]
    <2>1. /\ UNCHANGED <<row, record, unused, issued>> /\ expired \subseteq expired'
          /\ UNCHANGED worker \/ Begin(w, h)
      BY <1>10 DEF OcspRequest
    <2>2. h.pc \notin RarePcs \cup LiftingPcs
      BY DEF RarePcs, LiftingPcs
    <2> HIDE DEF h
    <2> QED
      BY <2>1, <2>2, <1>0, BeginKeeps, SameKeeps, QuietStep
  <1>11. ASSUME NEW w \in Workers, PublishCrl(w) PROVE TiedInv'
    <2>1. /\ UNCHANGED <<row, record, unused, issued>> /\ expired \subseteq expired'
          /\ Begin(w, Handler(CrlStart, "publish", NoCert, NoSerial))
      BY <1>11 DEF PublishCrl
    <2>2. Handler(CrlStart, "publish", NoCert, NoSerial).pc \notin RarePcs \cup LiftingPcs
      BY PlainPcs DEF Handler
    <2> QED
      BY <2>1, <2>2, <1>0, BeginKeeps, QuietStep
  <1>12. ASSUME NEW w \in Workers, RestoreRevocationState(w) PROVE TiedInv'
    <2> DEFINE c == worker[w].cert
    <2>1. Finish(w) /\ UNCHANGED <<record, unused, issued, expired>>
      BY <1>12 DEF RestoreRevocationState
    <2>2. CASE UNCHANGED row
      BY <2>1, <2>2, <1>0, FinishKeeps, QuietStep
    <2>3. CASE Present(c) /\ Mark(c, FALSE, "none")
      <3>1. c \in Certs /\ ~row[c].revoked /\ Mark(c, FALSE, "none")
        BY <1>12, <2>3 DEF RestoreRevocationState, At, PendingUntouched, PendingPcs
      <3> DEFINE rec == record[row[c].serial]
      <3>2. row[c].serial \in Serials /\ "none" \in Reasons
        BY <3>1, <2>3 DEF Present, NoSerial, TypeOK, Row, Serials, Reasons
      <3>3. record' = [record EXCEPT ![row[c].serial] = rec] /\ rec \in Record
        BY <2>1, <3>2 DEF TypeOK
      <3>4. rec.reason = "none"
        BY <1>0, <2>3, <3>1 DEF TablesInv, RowsMatchRecords, Recorded
      <3>5. TablesInv'
        <4> HIDE DEF rec
        <4> QED
          BY <1>0, <2>1, <2>3, <3>1, <3>2, <3>3, <3>4, MarkTables
      <3>6. \A v \in Workers : Lifting(v) => worker[v].cert \in Certs /\ worker[v].cert # c
        BY <1>0, <2>3, <3>1 DEF StagedHoldUntouched
      <3>7. \A d \in Certs : d # c => row'[d] = row[d]
        BY <3>1 DEF Mark, TypeOK
      <3>8. StagedHoldUntouched'
        BY <2>1, <3>6, <3>7, <1>0, FinishKeeps, StagedFrame
      <3> QED
        BY <2>1, <3>5, <3>8, <1>0, <1>a, FinishKeeps
    <2> QED
      BY <1>12, <2>2, <2>3 DEF RestoreRevocationState
  <1>13. ASSUME NEW w \in Workers, PurgeStaleRevokedSerials(w) PROVE TiedInv'
    <2>1. UNCHANGED <<row, unused, issued, expired>> /\ Goto(w, AfterPurge)
      BY <1>13 DEF PurgeStaleRevokedSerials
    <2>2. TablesInv'
      BY <1>13, <1>0, <2>1, PurgeTables, TablesFrame DEF PurgeStaleRevokedSerials
    <2>3. StepsKept /\ LiftersKept
      BY <2>1, <1>0, GotoKeeps, PlainPcs
    <2>4. StagedHoldUntouched'
      BY <2>1, <2>3, <1>0, StagedFrame
    <2> QED
      BY <2>2, <2>3, <2>4, <1>a
  <1>14. ASSUME NEW w \in Workers, PurgeExpiredRevokedCertificates(w) PROVE TiedInv'
    <2>1. UNCHANGED <<row, record, unused, issued, expired>> /\ expired \subseteq expired'
      BY <1>14 DEF PurgeExpiredRevokedCertificates
    <2>2. ExpiredRevokedRows \in SUBSET Certs
      BY DEF ExpiredRevokedRows
    <2>3. StepsKept /\ LiftersKept
      BY <1>14, <2>2, <1>0, SweepKeeps, GotoKeeps, PlainPcs DEF PurgeExpiredRevokedCertificates
    <2> QED
      BY <2>1, <2>3, QuietStep
  <1>25. ASSUME NEW w \in Workers, DeleteListed(w) PROVE TiedInv'
    <2>1. PICK c \in worker[w].doomed :
             /\ Sweep(w, worker[w].doomed \ {c})
             /\ RemoveRow(c) \/ UNCHANGED <<row, record>>
      BY <1>25 DEF DeleteListed
    <2>2. c \in Certs /\ worker[w].doomed \ {c} \in SUBSET Certs
      BY <1>0 DEF Worker
    <2>3. UNCHANGED <<unused, issued, expired>> /\ expired \subseteq expired'
      BY <1>25 DEF DeleteListed
    <2>4. StepsKept /\ LiftersKept
      BY <2>1, <2>2, <1>0, SweepKeeps
    <2>5. CASE UNCHANGED <<row, record>>
      BY <2>3, <2>4, <2>5, QuietStep
    <2>6. CASE RemoveRow(c)
      <3>1. TablesInv'
        BY <1>0, <2>2, <2>3, <2>6, RemoveRowTables
      <3> QED
        BY <1>a, <1>c, <2>2, <2>3, <2>4, <2>6, <3>1
    <2> QED
      BY <2>1, <2>5, <2>6
  <1>26. ASSUME PublishDelta PROVE TiedInv'
    <2>1. UNCHANGED <<row, record, unused, issued, worker>> /\ expired \subseteq expired'
      BY <1>26 DEF PublishDelta
    <2> QED
      BY <2>1, SameKeeps, QuietStep
  <1>15. ASSUME NEW w \in Workers, GenerateCrl(w) PROVE TiedInv'
    <2> DEFINE h == [pc |-> "crl_commit", op |-> worker[w].op, cert |-> worker[w].cert,
                     serial |-> worker[w].serial, draft |-> NextCrl, answer |-> "none",
             doomed |-> {}]
    <2>1. /\ UNCHANGED <<row, record, unused, issued>> /\ expired \subseteq expired'
          /\ AfterCrl(w) \/ Begin(w, h)
      BY <1>15 DEF GenerateCrl
    <2>2. h.pc \notin RarePcs \cup LiftingPcs
      BY DEF RarePcs, LiftingPcs
    <2> HIDE DEF h
    <2> QED
      BY <2>1, <2>2, <1>0, AfterCrlKeeps, BeginKeeps, QuietStep
  <1>16. ASSUME NEW w \in Workers, CommitCrl(w) PROVE TiedInv'
    <2>1. UNCHANGED <<row, record, unused, issued>> /\ expired \subseteq expired' /\ AfterCrl(w)
      BY <1>16 DEF CommitCrl
    <2> QED
      BY <2>1, <1>0, AfterCrlKeeps, QuietStep
  <1>17. ASSUME NEW w \in Workers, CrlNotGenerated(w) PROVE TiedInv'
    <2>1. UNCHANGED <<row, record, unused, issued>> /\ expired \subseteq expired' /\ AfterCrl(w)
      BY <1>17 DEF CrlNotGenerated
    <2> QED
      BY <2>1, <1>0, AfterCrlKeeps, QuietStep
  <1>18. ASSUME NEW w \in Workers, InvalidateCachedResponses(w) PROVE TiedInv'
    <2>1. /\ UNCHANGED <<row, record, unused, issued>> /\ expired \subseteq expired'
          /\ AfterInvalidate(w)
      BY <1>18 DEF InvalidateCachedResponses
    <2> QED
      BY <2>1, <1>0, AfterInvalidateKeeps, QuietStep
  <1>19. ASSUME NEW w \in Workers, EmitRemoveFromCrl(w) PROVE TiedInv'
    <2>1. /\ UNCHANGED <<row, record, unused, issued>> /\ expired \subseteq expired'
          /\ Goto(w, "clear") /\ Lifting(w)
      BY <1>19 DEF EmitRemoveFromCrl, At, Lifting
    <2>2. "clear" \notin RarePcs
      BY DEF RarePcs
    <2> QED
      BY <2>1, <2>2, <1>0, GotoKeeps, QuietStep
  <1>20. ASSUME NEW w \in Workers, ClearHold(w) PROVE TiedInv'
    <2> DEFINE c == worker[w].cert
    <2>1. /\ UNCHANGED <<unused, issued, expired>>
          /\ Lifting(w) /\ c \in Certs
          /\ \A v \in Workers : Lifting(v) => worker[v].cert \in Certs
      BY <1>20, <1>0 DEF ClearHold, At, Lifting, StagedHoldUntouched
    <2>2. CASE /\ Present(c) /\ Mark(c, FALSE, "none") /\ Goto(w, CrlStart)
               /\ record' = [record EXCEPT ![worker[w].serial] = NoRecord]
      <3>1. worker[w].serial = row[c].serial
        BY <2>1, <2>2, <1>0 DEF StagedHoldUntouched
      <3>2. NoRecord.reason = "none" /\ "none" \in Reasons
        BY DEF NoRecord, Reasons
      <3>3. TablesInv'
        BY <1>0, <2>1, <2>2, <3>1, <3>2, MarkTables, Blanks
      <3>4. StepsKept /\ LiftersKept
        BY <2>2, <1>0, GotoKeeps, PlainPcs
      <3>5. \A v \in Workers : Lifting(v)' => Lifting(v) /\ v # w
        BY <2>2, <3>4, <1>0, PlainPcs DEF Goto, Lifting, LiftersKept, LiftingPcs
      <3>6. \A v \in Workers : Lifting(v) /\ v # w => worker[v].cert # c
        BY <2>1, <2>2, <1>0 DEF StagedHoldUntouched
      <3>7. \A d \in Certs : d # c => row'[d] = row[d]
        BY <2>2 DEF Mark, TypeOK
      <3>8. StagedHoldUntouched'
        BY <2>1, <3>4, <3>5, <3>6, <3>7, <1>0 DEF StagedHoldUntouched, LiftersKept, Present
      <3> QED
        BY <3>3, <3>4, <3>8, <1>a
    <2>3. CASE Finish(w) /\ UNCHANGED <<row, record>>
      BY <2>1, <2>3, <1>0, FinishKeeps, QuietStep
    <2>4. CASE CommitFails /\ Goto(w, "restore_hold") /\ UNCHANGED <<row, record>>
      <3>1. LiftersKept /\ StepsTaken'
        BY <2>1, <2>4, <1>0 DEF Goto, LiftersKept, Lifting, StepsTaken, Worker
      <3> QED
        BY <2>1, <2>4, <3>1, <1>e
    <2> QED
      BY <1>20, <2>2, <2>3, <2>4 DEF ClearHold
  <1>21. ASSUME NEW w \in Workers, RestoreHold(w) PROVE TiedInv'
    <2> DEFINE c == worker[w].cert
    <2>1. Finish(w) /\ UNCHANGED <<record, unused, issued, expired>> /\ worker[w].pc = "restore_hold"
      BY <1>21 DEF RestoreHold, At
    <2>2. CASE UNCHANGED row
      BY <2>1, <2>2, <1>0, FinishKeeps, QuietStep
    <2>3. CASE Present(c) /\ Mark(c, TRUE, "certificateHold")
      <3>1. c \in Certs /\ row[c].revoked /\ row[c].reason \in SuspensionReasons
        BY <2>1, <2>3 DEF PendingUntouched, PendingPcs
      <3>a. \A v \in Workers : ~Lifting(v)
        BY <2>1, <1>0 DEF NotOvertaken, Alone, StepsTaken, Lifting
      <3> DEFINE rec == record[row[c].serial]
      <3>2. row[c].serial \in Serials /\ "certificateHold" \in Reasons
        BY <2>3, <3>1 DEF Present, NoSerial, TypeOK, Row, Serials, Reasons
      <3>3. record' = [record EXCEPT ![row[c].serial] = rec] /\ rec \in Record
        BY <2>1, <3>2 DEF TypeOK
      <3>4. /\ row[c].serial \notin expired => rec.reason # "none"
            /\ rec.reason # "none" => rec.reason \in SuspensionReasons
            /\ "certificateHold" \in SuspensionReasons
        BY <1>0, <2>3, <3>1
           DEF TablesInv, RowsMatchRecords, Recorded, SuspensionReasons, HoldReasons
      <3>5. TablesInv'
        <4> HIDE DEF rec
        <4> QED
          BY <1>0, <2>1, <2>3, <3>1, <3>2, <3>3, <3>4, MarkTables
      <3>6. StepsKept /\ LiftersKept
        BY <2>1, <1>0, FinishKeeps
      <3>7. StagedHoldUntouched'
        BY <3>a, <3>6 DEF StagedHoldUntouched, LiftersKept
      <3> QED
        BY <3>5, <3>6, <3>7, <1>a
    <2> QED
      BY <1>21, <2>2, <2>3 DEF RestoreHold
  <1>22. ASSUME NEW w \in Workers, CommitRenewal(w) PROVE TiedInv'
    <2> DEFINE c == worker[w].cert
    <2>1. CASE Finish(w) /\ UNCHANGED <<row, record, issued>>
      <3>1. UNCHANGED <<row, record, unused, issued>> /\ expired \subseteq expired'
        BY <1>22, <2>1 DEF CommitRenewal
      <3> QED
        BY <2>1, <3>1, <1>0, FinishKeeps, QuietStep
    <2>2. CASE /\ row[c].serial = worker[w].serial
               /\ TakeSerial(c, worker[w].serial) /\ Goto(w, "invalidate")
      <3>1. /\ c \in Certs /\ Present(c) /\ ~row[c].revoked
            /\ TakeSerial(c, row[c].serial) /\ UNCHANGED <<unused, expired>>
        BY <1>22, <2>2 DEF CommitRenewal, At, PendingUntouched, PendingPcs, Present
      <3>2. LiftersKept /\ StepsTaken'
        BY <2>2, <1>0, GotoKeeps, PlainPcs, StepsFrame
      <3> QED
        BY <3>1, <3>2, <1>f
    <2> QED
      BY <1>22, <2>1, <2>2 DEF CommitRenewal
  <1>23. ASSUME NEW w \in Workers, CacheResponse(w) PROVE TiedInv'
    <2>1. UNCHANGED <<row, record, unused, issued>> /\ expired \subseteq expired' /\ Finish(w)
      BY <1>23 DEF CacheResponse
    <2> QED
      BY <2>1, <1>0, FinishKeeps, QuietStep
  <1>24. ASSUME UNCHANGED vars PROVE TiedInv'
    <2>1. UNCHANGED <<row, record, unused, issued, worker>> /\ expired \subseteq expired'
      BY <1>24 DEF vars
    <2> QED
      BY <2>1, SameKeeps, QuietStep
  <1> QED
    BY <1>1, <1>2, <1>3, <1>4, <1>5, <1>6, <1>7, <1>8, <1>9, <1>10, <1>11, <1>12, <1>13, <1>14,
       <1>15, <1>16, <1>17, <1>18, <1>19, <1>20, <1>21, <1>22, <1>23, <1>24, <1>25, <1>26
    DEF Next, Start, Continue

LEMMA InitPending == Init => PendingUntouched
  BY DEF Init, PendingUntouched, PendingPcs, Idle, Handler

\* Only deletions and the clock come between the two steps of a handler that
\* is alone, and neither gives it another row to write to.
LEMMA StepPending ==
  ASSUME NotOvertaken, TypeOK, TiedInv, TiedInv', PendingUntouched, [Next]_vars
  PROVE  PendingUntouched'
  <1> USE RevocationAssumption
  <1>1. CASE ~Interruptible /\ ~CommitFails
    BY <1>1 DEF TiedInv, StepsTaken, PendingUntouched, PendingPcs
  <1>2. CASE Alone
    <2>0. worker \in [Workers -> Worker]
      BY DEF TypeOK
    <2>a. ASSUME UNCHANGED worker, unused' \subseteq unused,
                 \A c \in Certs \ unused : row'[c] \in {row[c], NoRow}
          PROVE  PendingUntouched'
      BY <2>a DEF PendingUntouched, Present, NoRow, NoSerial
    <2>b. ASSUME NEW w \in Workers, worker'[w].pc \notin PendingPcs PROVE PendingUntouched'
      BY <1>2, <2>b DEF PendingUntouched, Alone
    <2>c. ASSUME NEW w \in Workers, NEW c \in Certs, Present(c), UNCHANGED <<row, unused>>,
                 NEW h, Begin(w, h), h.cert = c, h.serial = row[c].serial,
                 IF h.pc = "restore_hold"
                 THEN row[c].revoked /\ row[c].reason \in SuspensionReasons
                 ELSE ~row[c].revoked
          PROVE  PendingUntouched'
      <3>1. c \notin unused
        BY <2>c DEF TiedInv, UnusedAbsent
      <3>2. worker'[w] = h
        BY <2>0, <2>c DEF Begin
      <3> QED
        BY <1>2, <2>c, <3>1, <3>2 DEF PendingUntouched, Present, Alone
    <2>d. ASSUME NEW w \in Workers, NEW h, Begin(w, h), h.pc \notin PendingPcs
          PROVE  PendingUntouched'
      BY <2>0, <2>b, <2>d DEF Begin
    <2>e. ASSUME NEW w \in Workers, NEW pc, Goto(w, pc), pc \notin PendingPcs
          PROVE  PendingUntouched'
      BY <2>0, <2>b, <2>e DEF Goto, Worker
    <2>f. ASSUME NEW w \in Workers, Finish(w) PROVE PendingUntouched'
      BY <2>0, <2>b, <2>f DEF Finish, Idle, Handler, PendingPcs
    <2>g. /\ CrlStart \notin PendingPcs /\ AfterPurge \notin PendingPcs
          /\ "invalidate" \notin PendingPcs /\ "crl" \notin PendingPcs
      BY PlainPcs DEF RarePcs, PendingPcs
    <2>h. ASSUME NEW w \in Workers, AfterCrl(w) \/ AfterInvalidate(w) PROVE PendingUntouched'
      BY <2>e, <2>f, <2>g, <2>h DEF AfterCrl, AfterInvalidate
    <2>1. ASSUME NEW c \in Certs, CreateCertificate(c) PROVE PendingUntouched'
      <3>1. /\ UNCHANGED worker /\ unused' \subseteq unused
            /\ \A d \in Certs \ unused : row'[d] = row[d]
        BY <2>1 DEF CreateCertificate, TypeOK
      <3> QED
        BY <3>1, <2>a
    <2>2. ASSUME NEW c \in Certs, DeleteCertificate(c) PROVE PendingUntouched'
      <3>1. /\ UNCHANGED <<worker, unused>>
            /\ \A d \in Certs : row'[d] \in {row[d], NoRow}
        BY <2>2 DEF DeleteCertificate, RemoveRow, TypeOK
      <3> QED
        BY <3>1, <2>a
    <2>3. ASSUME NEW s \in Serials, Expire(s) \/ ResponseExpires(s) PROVE PendingUntouched'
      BY <2>3, <2>a DEF Expire, ResponseExpires
    <2>4. ASSUME Crash PROVE PendingUntouched'
      BY <2>4 DEF Crash, Idle, Handler, PendingUntouched, PendingPcs
    <2>5. ASSUME NEW w \in Workers, Start(w) PROVE PendingUntouched'
      <3>1. ASSUME NEW c \in Certs, NEW reason \in {"certificateHold", "keyCompromise"},
                   RevokeCertificate(w, c, reason)
            PROVE  PendingUntouched'
        <4> DEFINE h == Handler(IF Cdp THEN CrlStart ELSE "invalidate", "revoke", c, row[c].serial)
        <4>1. Begin(w, h) /\ h.pc \notin PendingPcs
          BY <3>1, <2>g DEF RevokeCertificate, Handler
        <4> QED
          BY <4>1, <2>d
      <3>2. ASSUME NEW c \in Certs, RevocationNotCommitted(w, c) PROVE PendingUntouched'
        <4> DEFINE h == Handler("restore", "revoke", c, row[c].serial)
        <4>1. /\ Begin(w, h) /\ h.cert = c /\ h.serial = row[c].serial /\ h.pc = "restore"
              /\ Present(c) /\ ~row[c].revoked /\ UNCHANGED <<row, unused>>
          BY <3>2 DEF RevocationNotCommitted, Handler
        <4> HIDE DEF h
        <4> QED
          BY <4>1, <2>c
      <3>3. ASSUME NEW c \in Certs, UnholdCertificate(w, c) PROVE PendingUntouched'
        <4>1. CASE Delta /\ Cdp
          <5> DEFINE h == Handler("delta", "unhold", c, row[c].serial)
          <5>1. Begin(w, h) /\ h.pc \notin PendingPcs
            BY <3>3, <4>1 DEF UnholdCertificate, Handler, PendingPcs
          <5> QED
            BY <5>1, <2>d
        <4>2. CASE Begin(w, Handler(CrlStart, "unhold", c, row[c].serial))
          <5> DEFINE h == Handler(CrlStart, "unhold", c, row[c].serial)
          <5>1. Begin(w, h) /\ h.pc \notin PendingPcs
            BY <4>2, <2>g DEF Handler
          <5> QED
            BY <5>1, <2>d
        <4>3. CASE /\ Begin(w, Handler("restore_hold", "unhold", c, row[c].serial))
                   /\ UNCHANGED <<row, record>>
          <5> DEFINE h == Handler("restore_hold", "unhold", c, row[c].serial)
          <5>1. /\ Begin(w, h) /\ h.cert = c /\ h.serial = row[c].serial /\ h.pc = "restore_hold"
                /\ Present(c) /\ row[c].revoked /\ row[c].reason \in SuspensionReasons
                /\ UNCHANGED <<row, unused>>
            BY <3>3, <4>3 DEF UnholdCertificate, Handler, SuspensionReasons
          <5> HIDE DEF h
          <5> QED
            BY <5>1, <2>c
        <4> QED
          BY <3>3, <4>1, <4>2, <4>3 DEF UnholdCertificate
      <3>4. ASSUME NEW c \in Certs, RenewCertificate(w, c) PROVE PendingUntouched'
        <4>1. CASE Interruptible
          <5> DEFINE h == Handler("renew_commit", "renew", c, row[c].serial)
          <5>1. /\ Begin(w, h) /\ h.cert = c /\ h.serial = row[c].serial /\ h.pc = "renew_commit"
                /\ Present(c) /\ ~row[c].revoked /\ UNCHANGED <<row, unused>>
            BY <3>4, <4>1 DEF RenewCertificate, Handler
          <5> HIDE DEF h
          <5> QED
            BY <5>1, <2>c
        <4>2. CASE ~Interruptible
          <5> DEFINE h == Handler("invalidate", "renew", c, row[c].serial)
          <5>1. Begin(w, h) /\ h.pc \notin PendingPcs
            BY <3>4, <4>2 DEF RenewCertificate, Handler, PendingPcs
          <5> QED
            BY <5>1, <2>d
        <4> QED
          BY <4>1, <4>2
      <3>5. ASSUME NEW s \in Serials, OcspRequest(w, s) PROVE PendingUntouched'
        <4> DEFINE h == [pc |-> "ocsp_cache", op |-> "ocsp", cert |-> NoCert, serial |-> s,
                         draft |-> NoCrl, answer |-> StatusForSerial(s), doomed |-> {}]
        <4>1. UNCHANGED <<row, unused>> /\ (UNCHANGED worker \/ Begin(w, h))
          BY <3>5 DEF OcspRequest
        <4>2. h.pc \notin PendingPcs
          BY DEF PendingPcs
        <4> HIDE DEF h
        <4> QED
          BY <4>1, <4>2, <2>a, <2>d
      <3>6. ASSUME PublishCrl(w) PROVE PendingUntouched'
        <4> DEFINE h == Handler(CrlStart, "publish", NoCert, NoSerial)
        <4>1. Begin(w, h) /\ h.pc \notin PendingPcs
          BY <3>6, <2>g DEF PublishCrl, Handler
        <4> QED
          BY <4>1, <2>d
      <3> QED
        BY <2>5, <3>1, <3>2, <3>3, <3>4, <3>5, <3>6 DEF Start
    <2>6. ASSUME NEW w \in Workers, Continue(w) PROVE PendingUntouched'
      <3>1. CASE RestoreRevocationState(w) \/ RestoreHold(w) \/ CacheResponse(w)
        BY <3>1, <2>f DEF RestoreRevocationState, RestoreHold, CacheResponse
      <3>2. CASE PurgeStaleRevokedSerials(w)
        BY <3>2, <2>e, <2>g DEF PurgeStaleRevokedSerials
      <3>3. CASE PurgeExpiredRevokedCertificates(w)
        <4>1. CASE Sweep(w, ExpiredRevokedRows)
          <5>1. ExpiredRevokedRows \in SUBSET Certs
            BY DEF ExpiredRevokedRows
          <5>2. worker'[w].pc \notin PendingPcs
            BY <2>0, <4>1, <5>1, SweepFrame DEF PendingPcs
          <5> QED
            BY <5>2, <2>b
        <4> QED
          BY <3>3, <4>1, <2>e, <2>g DEF PurgeExpiredRevokedCertificates
      <3>9. CASE DeleteListed(w)
        <4>1. PICK c \in worker[w].doomed : Sweep(w, worker[w].doomed \ {c})
          BY <3>9 DEF DeleteListed
        <4>2. worker[w].doomed \ {c} \in SUBSET Certs
          BY <2>0 DEF Worker
        <4>3. worker'[w].pc \notin PendingPcs
          BY <2>0, <4>1, <4>2, SweepFrame DEF PendingPcs
        <4> QED
          BY <4>3, <2>b
      <3>4. CASE GenerateCrl(w)
        <4> DEFINE h == [pc |-> "crl_commit", op |-> worker[w].op, cert |-> worker[w].cert,
                         serial |-> worker[w].serial, draft |-> NextCrl, answer |-> "none",
             doomed |-> {}]
        <4>1. AfterCrl(w) \/ Begin(w, h)
          BY <3>4 DEF GenerateCrl
        <4>2. h.pc \notin PendingPcs
          BY DEF PendingPcs
        <4> HIDE DEF h
        <4> QED
          BY <4>1, <4>2, <2>d, <2>h
      <3>5. CASE CommitCrl(w) \/ CrlNotGenerated(w) \/ InvalidateCachedResponses(w)
        BY <3>5, <2>h DEF CommitCrl, CrlNotGenerated, InvalidateCachedResponses
      <3>6. CASE EmitRemoveFromCrl(w)
        BY <3>6, <2>e DEF EmitRemoveFromCrl, PendingPcs
      <3>7. CASE ClearHold(w)
        <4>1. CASE Goto(w, "restore_hold") /\ UNCHANGED <<row, record>>
          <5>1. /\ worker[w].cert \in Certs \ unused
                /\ Present(worker[w].cert) => /\ row[worker[w].cert].revoked
                                              /\ row[worker[w].cert].reason = "removeFromCRL"
            BY <3>7 DEF ClearHold, At, Lifting, TiedInv, StagedHoldUntouched
          <5>2. worker'[w].pc = "restore_hold" /\ worker'[w].cert = worker[w].cert
            BY <2>0, <4>1 DEF Goto, Worker
          <5>3. UNCHANGED <<row, unused>>
            BY <3>7, <4>1 DEF ClearHold
          <5> QED
            BY <1>2, <5>1, <5>2, <5>3 DEF PendingUntouched, Present, Alone, SuspensionReasons
        <4> QED
          BY <3>7, <4>1, <2>e, <2>f, <2>g DEF ClearHold
      <3>8. CASE CommitRenewal(w)
        BY <3>8, <2>e, <2>f, <2>g DEF CommitRenewal
      <3> QED
        BY <2>6, <3>1, <3>2, <3>3, <3>4, <3>5, <3>6, <3>7, <3>8, <3>9 DEF Continue
    <2>7. ASSUME UNCHANGED vars \/ PublishDelta PROVE PendingUntouched'
      BY <2>7, <2>a DEF vars, PublishDelta
    <2> QED
      BY <2>1, <2>2, <2>3, <2>4, <2>5, <2>6, <2>7 DEF Next
  <1> QED
    BY <1>1, <1>2 DEF NotOvertaken

\* Types, tables and the handlers that write what they read earlier, together.
LEMMA StatusAlways ==
  ASSUME NotOvertaken
  PROVE  Spec => [](TypeOK /\ TiedInv /\ PendingUntouched)
  <1>1. Spec => []TypeOK
    BY TypeCorrect
  <1>2. TypeOK /\ TiedInv /\ PendingUntouched /\ [Next]_vars => TiedInv' /\ PendingUntouched'
    BY StepInv, StepPending
  <1> QED
    BY <1>1, <1>2, InitInv, InitPending, PTL DEF Spec

-----------------------------------------------------------------------------
(* Rows that are listed for deletion *)

\* Nothing is listed anew, and the rows that are listed keep what they had or go.
LEMMA ListedFrame ==
  ASSUME ListedRows, ListedStayExpired, UNCHANGED swept, unused' \subseteq unused,
         expired \subseteq expired',
         \A v \in Workers : /\ worker'[v].doomed \subseteq worker[v].doomed
                            /\ worker'[v].pc # "delete" => worker'[v].doomed = {},
         \A v \in Workers : \A c \in worker[v].doomed : row'[c] \in {row[c], NoRow}
  PROVE  ListedRows' /\ ListedStayExpired'
  <1>1. ListedRows'
    BY DEF ListedRows
  <1>2. ListedStayExpired'
    BY DEF ListedStayExpired, Alone, Present, NoRow, NoSerial
  <1> QED
    BY <1>1, <1>2

\* A handler that has listed nothing moves: if it is alone, nothing is listed.
LEMMA ListedMoves ==
  ASSUME TypeOK, ListedRows, ListedStayExpired, UNCHANGED <<swept, unused>>,
         NEW w \in Workers, worker[w].pc # "delete", worker'[w].doomed = {},
         \A v \in Workers \ {w} : worker'[v] = worker[v]
  PROVE  ListedRows' /\ ListedStayExpired'
  <1>1. ListedRows'
    BY DEF ListedRows
  <1>2. ListedStayExpired'
    BY DEF ListedStayExpired, Alone
  <1> QED
    BY <1>1, <1>2

LEMMA StepListed ==
  ASSUME TypeOK, TiedInv, ListedRows, ListedStayExpired, [Next]_vars
  PROVE  ListedRows' /\ ListedStayExpired'
  <1> DEFINE Goal == ListedRows' /\ ListedStayExpired'
  <1>0. worker \in [Workers -> Worker]
    BY DEF TypeOK
  <1>a. ASSUME NEW w \in Workers, worker[w].pc # "delete", UNCHANGED <<swept, unused>>,
               \/ \E h \in Worker : Begin(w, h) /\ h.doomed = {}
               \/ \E pc \in Pcs : Goto(w, pc)
               \/ Finish(w)
        PROVE  Goal
    <2>1. worker[w].doomed = {}
      BY <1>a DEF ListedRows
    <2>2. worker'[w].doomed = {} /\ \A v \in Workers \ {w} : worker'[v] = worker[v]
      BY <1>0, <1>a, <2>1 DEF Begin, Goto, Finish, Idle, Handler, Worker
    <2> QED
      BY <1>a, <2>2, ListedMoves
  <1>b. ASSUME UNCHANGED <<worker, swept>>, unused' \subseteq unused, expired \subseteq expired',
               \A c \in Certs \ unused : row'[c] \in {row[c], NoRow}
        PROVE  Goal
    <2>1. \A v \in Workers : worker[v].doomed \subseteq Certs \ unused
      BY <1>0 DEF ListedRows, Worker
    <2> QED
      BY <1>b, <2>1, ListedFrame DEF ListedRows
  <1>c. \A pc \in Pcs, op \in Ops, c \in Certs \cup {NoCert}, s \in 0..MaxSerial :
           Handler(pc, op, c, s) \in Worker /\ Handler(pc, op, c, s).doomed = {}
    BY HandlerIsWorker DEF Handler
  <1>d. /\ {CrlStart, AfterPurge, "restore", "delta", "clear", "restore_hold", "crl", "invalidate",
             "renew_commit"} \subseteq Pcs
        /\ Ops = {"none", "revoke", "unhold", "renew", "publish", "ocsp"}
        /\ \A c \in Certs : row[c].serial \in 0..MaxSerial
        /\ NoSerial \in 0..MaxSerial
    BY CrlStartIsPc, AfterPurgeIsPc, RevocationAssumption DEF Pcs, Ops, TypeOK, Row, NoSerial
  <1>e. ASSUME NEW w \in Workers, worker[w].pc # "delete", UNCHANGED <<swept, unused>>,
               NEW pc \in Pcs, NEW op \in Ops, NEW c \in Certs \cup {NoCert}, NEW s \in 0..MaxSerial,
               Begin(w, Handler(pc, op, c, s))
        PROVE  Goal
    BY <1>a, <1>c, <1>e
  <1>1. ASSUME NEW c \in Certs, CreateCertificate(c) PROVE Goal
    <2>1. \A d \in Certs \ unused : row'[d] = row[d]
      BY <1>1 DEF CreateCertificate, TypeOK
    <2> QED
      BY <1>1, <1>b, <2>1 DEF CreateCertificate
  <1>2. ASSUME NEW c \in Certs, DeleteCertificate(c) PROVE Goal
    <2>1. \A d \in Certs : row'[d] \in {row[d], NoRow}
      BY <1>2 DEF DeleteCertificate, RemoveRow, TypeOK
    <2> QED
      BY <1>2, <1>b, <2>1 DEF DeleteCertificate
  <1>3. ASSUME \/ \E s \in Serials : Expire(s) \/ ResponseExpires(s)
               \/ PublishDelta \/ UNCHANGED vars
        PROVE  Goal
    BY <1>3, <1>b DEF Expire, ResponseExpires, PublishDelta, vars
  <1>4. ASSUME Crash PROVE Goal
    <2>1. \A v \in Workers : worker'[v].doomed = {}
      BY <1>4 DEF Crash, Idle, Handler
    <2> QED
      BY <1>4, <2>1, ListedFrame DEF Crash
  <1>5. ASSUME NEW w \in Workers, Start(w) PROVE Goal
    <2>0. worker[w].pc # "delete" /\ UNCHANGED <<swept, unused>>
      BY <1>5 DEF Start, RevokeCertificate, RevocationNotCommitted, UnholdCertificate,
                  RenewCertificate, OcspRequest, PublishCrl, Free
    <2>1. ASSUME NEW c \in Certs, NEW reason \in {"certificateHold", "keyCompromise"},
                 RevokeCertificate(w, c, reason)
          PROVE  Goal
      BY <2>0, <2>1, <1>d, <1>e DEF RevokeCertificate
    <2>2. ASSUME NEW c \in Certs, RevocationNotCommitted(w, c) PROVE Goal
      BY <2>0, <2>2, <1>d, <1>e DEF RevocationNotCommitted
    <2>3. ASSUME NEW c \in Certs, UnholdCertificate(w, c) PROVE Goal
      <3>1. \E pc \in {"delta", CrlStart, "restore_hold"} :
               Begin(w, Handler(pc, "unhold", c, row[c].serial))
        BY <2>3 DEF UnholdCertificate
      <3> QED
        BY <2>0, <3>1, <1>d, <1>e
    <2>4. ASSUME NEW c \in Certs, RenewCertificate(w, c) PROVE Goal
      BY <2>0, <2>4, <1>d, <1>e DEF RenewCertificate
    <2>5. ASSUME NEW s \in Serials, OcspRequest(w, s) PROVE Goal
      <3> DEFINE h == [pc |-> "ocsp_cache", op |-> "ocsp", cert |-> NoCert, serial |-> s,
                       draft |-> NoCrl, answer |-> StatusForSerial(s), doomed |-> {}]
      <3>1. UNCHANGED <<row, worker, expired>> \/ Begin(w, h)
        BY <2>5 DEF OcspRequest
      <3>2. h \in Worker /\ h.doomed = {}
        BY AnswerTyped, RevocationAssumption DEF Worker, Pcs, Ops, NoCrl, FullCrl, Serials
      <3> HIDE DEF h
      <3> QED
        BY <2>0, <3>1, <3>2, <1>a, <1>b
    <2>6. ASSUME PublishCrl(w) PROVE Goal
      BY <2>0, <2>6, <1>d, <1>e DEF PublishCrl
    <2> QED
      BY <1>5, <2>1, <2>2, <2>3, <2>4, <2>5, <2>6 DEF Start
  <1>6. ASSUME NEW w \in Workers, Continue(w) PROVE Goal
    <2>1. CASE \/ RestoreRevocationState(w) \/ RestoreHold(w) \/ CacheResponse(w) \/ CommitRenewal(w)
               \/ ClearHold(w) \/ EmitRemoveFromCrl(w) \/ PurgeStaleRevokedSerials(w)
      <3>1. worker[w].pc # "delete" /\ UNCHANGED <<swept, unused>>
        BY <2>1 DEF RestoreRevocationState, RestoreHold, CacheResponse, CommitRenewal, ClearHold,
                    EmitRemoveFromCrl, PurgeStaleRevokedSerials, At
      <3>2. \/ Finish(w)
            \/ \E pc \in {"invalidate", CrlStart, "restore_hold", "clear", AfterPurge} : Goto(w, pc)
        BY <2>1 DEF RestoreRevocationState, RestoreHold, CacheResponse, CommitRenewal, ClearHold,
                    EmitRemoveFromCrl, PurgeStaleRevokedSerials
      <3> QED
        BY <3>1, <3>2, <1>a, <1>d
    <2>2. CASE CommitCrl(w) \/ CrlNotGenerated(w) \/ InvalidateCachedResponses(w)
      <3>1. worker[w].pc # "delete" /\ UNCHANGED <<swept, unused>>
        BY <2>2 DEF CommitCrl, CrlNotGenerated, InvalidateCachedResponses, At
      <3>2. Finish(w) \/ Goto(w, "invalidate") \/ Goto(w, CrlStart)
        BY <2>2 DEF CommitCrl, CrlNotGenerated, InvalidateCachedResponses, AfterCrl, AfterInvalidate
      <3> QED
        BY <3>1, <3>2, <1>a, <1>d
    <2>3. CASE GenerateCrl(w)
      <3> DEFINE h == [pc |-> "crl_commit", op |-> worker[w].op, cert |-> worker[w].cert,
                       serial |-> worker[w].serial, draft |-> NextCrl, answer |-> "none",
                       doomed |-> {}]
      <3>1. worker[w].pc # "delete" /\ UNCHANGED <<swept, unused>>
        BY <2>3 DEF GenerateCrl, At
      <3>2. Finish(w) \/ Goto(w, "invalidate") \/ Begin(w, h)
        BY <2>3 DEF GenerateCrl, AfterCrl
      <3>3. h \in Worker /\ h.doomed = {}
        BY <1>0, NextCrlTyped DEF Worker, Pcs, Answers, TypeOK
      <3> HIDE DEF h
      <3> QED
        BY <3>1, <3>2, <3>3, <1>a, <1>d
    <2>4. CASE PurgeExpiredRevokedCertificates(w)
      <3>0. /\ worker[w].pc # "delete" /\ UNCHANGED <<row, expired, swept, unused>>
            /\ Sweep(w, ExpiredRevokedRows) \/ Goto(w, "crl")
        BY <2>4 DEF PurgeExpiredRevokedCertificates, At
      <3>1. CASE Goto(w, "crl")
        BY <3>0, <3>1, <1>a, <1>d
      <3>2. CASE Sweep(w, ExpiredRevokedRows)
        <4>1. ExpiredRevokedRows \in SUBSET Certs
          BY DEF ExpiredRevokedRows
        <4>2. /\ worker'[w].pc = (IF ExpiredRevokedRows = {} THEN "crl" ELSE "delete")
              /\ worker'[w].doomed = ExpiredRevokedRows
              /\ \A v \in Workers \ {w} : worker'[v] = worker[v]
          BY <1>0, <3>2, <4>1, SweepFrame
        <4>3. ASSUME NEW c \in ExpiredRevokedRows
              PROVE  c \notin unused /\ row[c].revoked /\ row[c].serial \in expired
          <5>1. c \in Certs /\ row[c].revoked /\ row[c].serial \in expired
            BY <4>3 DEF ExpiredRevokedRows
          <5>2. Present(c)
            BY <5>1 DEF TypeOK, Serials, Present, NoSerial
          <5> QED
            BY <5>1, <5>2 DEF TiedInv, UnusedAbsent
        <4>4. ListedRows'
          BY <3>0, <4>2, <4>3 DEF ListedRows
        <4>5. ListedStayExpired'
          BY <3>0, <4>2, <4>3 DEF ListedStayExpired, Alone
        <4> QED
          BY <4>4, <4>5
      <3> QED
        BY <3>0, <3>1, <3>2
    <2>5. CASE DeleteListed(w)
      <3>1. PICK c \in worker[w].doomed :
               /\ Sweep(w, worker[w].doomed \ {c})
               /\ \/ /\ Present(c) /\ RemoveRow(c)
                     /\ swept' = swept \cup {s \in Serials : DeletionBlocked(c) /\ s = row[c].serial}
                  \/ UNCHANGED <<row, record, swept>>
        BY <2>5 DEF DeleteListed
      <3>2. c \in Certs /\ worker[w].doomed \ {c} \in SUBSET Certs
        BY <1>0 DEF Worker
      <3>3. /\ worker'[w].doomed = worker[w].doomed \ {c}
            /\ worker'[w].pc # "delete" => worker'[w].doomed = {}
            /\ \A v \in Workers \ {w} : worker'[v] = worker[v]
        BY <1>0, <3>1, <3>2, SweepFrame
      <3>4. UNCHANGED <<unused, expired>>
        BY <2>5 DEF DeleteListed
      <3>5. ListedRows'
        BY <3>3, <3>4 DEF ListedRows
      <3>6. \A d \in Certs : row'[d] \in {row[d], NoRow}
        BY <3>1, <3>2 DEF RemoveRow, TypeOK
      <3>7. ASSUME Alone PROVE swept' = {}
        <4>1. swept = {} /\ (Present(c) => row[c].revoked /\ row[c].serial \in expired)
          BY <3>1, <3>7 DEF ListedStayExpired
        <4> QED
          BY <3>1, <4>1 DEF DeletionBlocked
      <3>8. \A v \in Workers : worker[v].doomed \subseteq Certs /\ worker'[v].doomed \subseteq worker[v].doomed
        BY <1>0, <3>3 DEF Worker
      <3>9. ListedStayExpired'
        BY <3>4, <3>6, <3>7, <3>8 DEF ListedStayExpired, Alone, Present, NoRow, NoSerial
      <3> QED
        BY <3>5, <3>9
    <2> QED
      BY <1>6, <2>1, <2>2, <2>3, <2>4, <2>5 DEF Continue
  <1> QED
    BY <1>1, <1>2, <1>3, <1>4, <1>5, <1>6 DEF Next

\* The rows, the revocation records and the handlers stay tied together: a
\* revoked row has its record until it expires, an unrevoked row has none, and
\* a hold being lifted is lifted by one handler (lifecycle.py, renewal.py,
\* cert_lifecycle.py), through crashes and tolerated failures; and through
\* failed commits and waits for a signature if handlers run one at a time.  With
\* one handler at a time the auto-delete (services/crl/query.py) never removes a
\* valid certificate.
THEOREM StatusInvariant ==
  ASSUME NotOvertaken
  PROVE  Spec => []StatusInv
  <1>1. Init => ListedRows /\ ListedStayExpired
    BY DEF Init, ListedRows, ListedStayExpired, Idle, Handler
  <1>2. TypeOK /\ TiedInv /\ ListedRows /\ ListedStayExpired /\ [Next]_vars
           => ListedRows' /\ ListedStayExpired'
    BY StepListed
  <1>3. Spec => [](TypeOK /\ TiedInv)
    BY StatusAlways, PTL
  <1>4. TiedInv /\ ListedRows /\ ListedStayExpired => StatusInv
    BY DEF StatusInv
  <1> QED
    BY <1>1, <1>2, <1>3, <1>4, PTL DEF Spec

-----------------------------------------------------------------------------
(* Refinement: every step of a handler maps to a permitted change of status of
   some serials, or to none *)

StatusOnRow(r) ==
    IF ~r.revoked THEN "good" ELSE IF r.reason \in SuspensionReasons THEN "held" ELSE "revoked"

StatusOnRecord(x) ==
    IF x.reason = "none" THEN "unknown"
    ELSE IF x.reason \in SuspensionReasons THEN "held" ELSE "revoked"

\* Where the status of a serial is read: on the one row that carries it, else
\* in its record.
Reads ==
    \A s \in Serials :
        /\ s > issued => AbstractStatus[s] = "unissued"
        /\ s <= issued =>
              /\ \A c \in Certs : row[c].serial = s => AbstractStatus[s] = StatusOnRow(row[c])
              /\ (\A c \in Certs : row[c].serial # s)
                    => AbstractStatus[s] = StatusOnRecord(record[s])

LEMMA StatusRead == TypeOK /\ TiedInv => Reads
  <1> SUFFICES ASSUME TypeOK, TiedInv, NEW s \in Serials
               PROVE  /\ s > issued => AbstractStatus[s] = "unissued"
                      /\ s <= issued =>
                            /\ \A c \in Certs :
                                  row[c].serial = s => AbstractStatus[s] = StatusOnRow(row[c])
                            /\ (\A c \in Certs : row[c].serial # s)
                                  => AbstractStatus[s] = StatusOnRecord(record[s])
    BY DEF Reads
  <1>1. s \in Nat /\ s # 0 /\ issued \in Nat
    BY RevocationAssumption DEF Serials, TypeOK
  <1>2. s > issued => AbstractStatus[s] = "unissued"
    BY DEF AbstractStatus
  <1>3. ASSUME s <= issued, NEW c \in Certs, row[c].serial = s
        PROVE  AbstractStatus[s] = StatusOnRow(row[c])
    <2>1. \A d \in Certs : row[d].serial = s => d = c
      BY <1>1, <1>3 DEF TiedInv, SerialsDistinct, Present, NoSerial
    <2>2. row[c].revoked \in BOOLEAN /\ row[c].reason \in Reasons
      BY DEF TypeOK, Row
    <2>3. CASE ~row[c].revoked
      BY <1>1, <1>3, <2>2, <2>3 DEF AbstractStatus, OnGoodRow, StatusOnRow
    <2>4. CASE row[c].revoked
      <3>1. ~OnGoodRow(s)
        BY <2>1, <2>4 DEF OnGoodRow, OnRevokedRow
      <3>2. OnRevokedRow(s, SuspensionReasons) <=> row[c].reason \in SuspensionReasons
        BY <1>3, <2>1, <2>4 DEF OnRevokedRow
      <3>3. OnRevokedRow(s, Reasons)
        BY <1>3, <2>2, <2>4 DEF OnGoodRow, OnRevokedRow
      <3>4. AbstractStatus[s] = IF OnRevokedRow(s, SuspensionReasons) THEN "held" ELSE "revoked"
        BY <1>1, <1>3, <3>1, <3>3 DEF AbstractStatus
      <3> QED
        BY <2>4, <3>2, <3>4 DEF StatusOnRow
    <2> QED
      BY <2>3, <2>4
  <1>4. ASSUME s <= issued, \A c \in Certs : row[c].serial # s
        PROVE  AbstractStatus[s] = StatusOnRecord(record[s])
    <2>1. /\ ~OnGoodRow(s)
          /\ ~OnRevokedRow(s, SuspensionReasons)
          /\ ~OnRevokedRow(s, Reasons)
      BY <1>4 DEF OnGoodRow, OnRevokedRow
    <2> QED
      BY <1>1, <1>4, <2>1 DEF AbstractStatus, StatusOnRecord, Recorded
  <1> QED
    BY <1>2, <1>3, <1>4

\* The status of s does not change if neither its row nor its record does.
LEMMA SameAt ==
  ASSUME Reads, Reads', NEW s \in Serials,
         issued \in Nat, issued' \in Nat, s <= issued <=> s <= issued',
         \A c \in Certs : row'[c].serial = s <=> row[c].serial = s,
         \A c \in Certs : row[c].serial = s =>
            /\ row'[c].revoked = row[c].revoked
            /\ row'[c].reason = row[c].reason,
         record'[s].reason = record[s].reason
  PROVE  AbstractStatus'[s] = AbstractStatus[s]
  <1>0. s \in Nat
    BY RevocationAssumption DEF Serials
  <1>1. CASE s > issued
    BY <1>0, <1>1 DEF Reads
  <1>2. CASE s <= issued /\ \E c \in Certs : row[c].serial = s
    <2>1. PICK c \in Certs : row[c].serial = s
      BY <1>2
    <2>2. AbstractStatus[s] = StatusOnRow(row[c]) /\ AbstractStatus'[s] = StatusOnRow(row'[c])
      BY <1>2, <2>1 DEF Reads, StatusOnRow
    <2> QED
      BY <2>1, <2>2 DEF StatusOnRow
  <1>3. CASE s <= issued /\ \A c \in Certs : row[c].serial # s
    <2>1. /\ AbstractStatus[s] = StatusOnRecord(record[s])
          /\ AbstractStatus'[s] = StatusOnRecord(record'[s])
      BY <1>3 DEF Reads, StatusOnRecord
    <2> QED
      BY <2>1 DEF StatusOnRecord
  <1> QED
    BY <1>0, <1>1, <1>2, <1>3

\* What is left to show of a step: where every serial may go.
Moved == \A s \in Serials : Promise!MayBecome(s, AbstractStatus'[s])

LEMMA QuietMoved ==
  ASSUME TypeOK, TypeOK', Reads, Reads', UNCHANGED <<row, record, issued>>
  PROVE  Moved
  <1>1. ASSUME NEW s \in Serials PROVE AbstractStatus'[s] = AbstractStatus[s]
    BY SameAt DEF TypeOK
  <1> QED
    BY <1>1 DEF Moved, Promise!MayBecome

LEMMA MarkMoved ==
  ASSUME TypeOK, TypeOK', TiedInv, Reads, Reads', UNCHANGED issued,
         NEW c \in Certs, Present(c),
         NEW b \in BOOLEAN, NEW r \in Reasons, Mark(c, b, r),
         NEW rec \in Record, record' = [record EXCEPT ![row[c].serial] = rec],
         LET new == StatusOnRow([revoked |-> b, reason |-> r]) IN
            \/ new = StatusOnRow(row[c])
            \/ <<StatusOnRow(row[c]), new>> \in Promise!Moves
  PROVE  Moved
  <1> SUFFICES ASSUME NEW s \in Serials PROVE Promise!MayBecome(s, AbstractStatus'[s])
    BY DEF Moved
  <1>1. /\ \A d \in Certs : d # c => row'[d] = row[d]
        /\ row'[c] = [serial |-> row[c].serial, revoked |-> b, reason |-> r]
    BY DEF Mark, TypeOK
  <1>2. \A d \in Certs : row'[d].serial = row[d].serial
    BY <1>1
  <1>3. CASE s = row[c].serial
    <2>1. s <= issued
      BY <1>3 DEF TiedInv, SerialsIssued
    <2>2. AbstractStatus[s] = StatusOnRow(row[c])
      BY <1>3, <2>1 DEF Reads
    <2>3. AbstractStatus'[s] = StatusOnRow([revoked |-> b, reason |-> r])
      BY <1>1, <1>3, <2>1 DEF Reads, StatusOnRow
    <2> QED
      BY <2>2, <2>3 DEF Promise!MayBecome
  <1>4. CASE s # row[c].serial
    <2>1. record'[s] = record[s]
      BY <1>4 DEF TypeOK
    <2>2. \A d \in Certs : row[d].serial = s => row'[d] = row[d]
      BY <1>1, <1>4
    <2>3. AbstractStatus'[s] = AbstractStatus[s]
      BY <1>2, <2>1, <2>2, SameAt DEF TypeOK
    <2> QED
      BY <2>3 DEF Promise!MayBecome
  <1> QED
    BY <1>3, <1>4

\* The row of a revoked or expired certificate goes, or one that was listed when
\* it was both; its record answers.
LEMMA RemoveRowMoved ==
  ASSUME TypeOK, TypeOK', TiedInv, Reads, Reads', UNCHANGED <<issued, expired>>,
         NEW c \in Certs, Present(c), RemoveRow(c),
         row[c].revoked \/ row[c].serial \in expired \cup swept'
  PROVE  Moved
  <1> SUFFICES ASSUME NEW s \in Serials PROVE Promise!MayBecome(s, AbstractStatus'[s])
    BY DEF Moved
  <1>1. /\ \A d \in Certs : d # c => row'[d] = row[d]
        /\ row'[c].serial = 0
    BY DEF RemoveRow, NoRow, NoSerial, TypeOK
  <1>2. record'[s].reason = record[s].reason /\ s # 0
    BY RevocationAssumption DEF RemoveRow, Serials
  <1>3. CASE s = row[c].serial
    <2>1. s <= issued
      BY <1>3 DEF TiedInv, SerialsIssued
    <2>2. AbstractStatus[s] = StatusOnRow(row[c])
      BY <1>3, <2>1 DEF Reads
    <2>3. \A d \in Certs : row'[d].serial # s
      BY <1>1, <1>2, <1>3 DEF TiedInv, SerialsDistinct, Present, NoSerial
    <2>4. AbstractStatus'[s] = StatusOnRecord(record[s])
      BY <1>2, <2>1, <2>3 DEF Reads, StatusOnRecord
    <2>5. /\ row[c].revoked /\ s \notin expired => Recorded(s)
          /\ row[c].revoked /\ Recorded(s) =>
                (record[s].reason \in SuspensionReasons <=> row[c].reason \in SuspensionReasons)
          /\ ~row[c].revoked => ~Recorded(s)
      BY <1>3 DEF TiedInv, RowsMatchRecords
    <2>6. \/ AbstractStatus'[s] = AbstractStatus[s]
          \/ s \in expired \cup swept' /\ AbstractStatus'[s] = "unknown"
      BY <1>3, <2>2, <2>4, <2>5 DEF StatusOnRow, StatusOnRecord, Recorded
    <2> QED
      BY <2>2, <2>6 DEF Promise!MayBecome, StatusOnRow
  <1>4. CASE s # row[c].serial
    <2>1. \A d \in Certs : /\ row'[d].serial = s <=> row[d].serial = s
                           /\ row[d].serial = s => row'[d] = row[d]
      BY <1>1, <1>2, <1>4
    <2>2. AbstractStatus'[s] = AbstractStatus[s]
      BY <1>2, <2>1, SameAt DEF TypeOK
    <2> QED
      BY <2>2 DEF Promise!MayBecome
  <1> QED
    BY <1>3, <1>4

\* A renewal revokes the serial it supersedes and issues the next one.
LEMMA TakeSerialMoved ==
  ASSUME TypeOK, TypeOK', TiedInv, Reads, Reads',
         NEW c \in Certs, Present(c), ~row[c].revoked, TakeSerial(c, row[c].serial)
  PROVE  Moved
  <1> SUFFICES ASSUME NEW s \in Serials PROVE Promise!MayBecome(s, AbstractStatus'[s])
    BY DEF Moved
  <1>0. s \in Nat /\ issued \in Nat /\ issued' = issued + 1
    BY RevocationAssumption DEF TypeOK, Serials, TakeSerial
  <1>1. /\ \A d \in Certs : d # c => row'[d] = row[d]
        /\ row'[c].serial = issued + 1 /\ row'[c].revoked = row[c].revoked
    BY DEF TakeSerial, TypeOK, Row
  <1>2. \A d \in Certs : row[d].serial \in Nat /\ row[d].serial <= issued
    BY DEF TiedInv, SerialsIssued, TypeOK, Row
  <1>3. CASE s = row[c].serial
    <2>1. s <= issued /\ s <= issued'
      BY <1>0, <1>2, <1>3
    <2>2. AbstractStatus[s] = "good"
      BY <1>3, <2>1 DEF Reads, StatusOnRow
    <2>3. \A d \in Certs : row'[d].serial # s
      BY <1>0, <1>1, <1>2, <1>3 DEF TiedInv, SerialsDistinct, Present
    <2>4. record'[s].reason = "superseded"
      BY <1>3 DEF TakeSerial, TypeOK
    <2>5. AbstractStatus'[s] = "revoked"
      BY <2>1, <2>3, <2>4 DEF Reads, StatusOnRecord, SuspensionReasons, HoldReasons
    <2> QED
      BY <2>2, <2>5 DEF Promise!MayBecome, Promise!Moves
  <1>4. CASE s = issued + 1
    <2>1. AbstractStatus[s] = "unissued"
      BY <1>0, <1>4 DEF Reads
    <2>2. AbstractStatus'[s] = "good"
      BY <1>0, <1>1, <1>4 DEF Reads, StatusOnRow
    <2> QED
      BY <2>1, <2>2 DEF Promise!MayBecome, Promise!Moves
  <1>5. CASE s # row[c].serial /\ s # issued + 1
    <2>1. record'[s] = record[s]
      BY <1>5 DEF TakeSerial, TypeOK
    <2>2. \A d \in Certs : /\ row'[d].serial = s <=> row[d].serial = s
                           /\ row[d].serial = s => row'[d] = row[d]
      BY <1>1, <1>5
    <2>3. AbstractStatus'[s] = AbstractStatus[s]
      BY <1>0, <1>5, <2>1, <2>2, SameAt
    <2> QED
      BY <2>3 DEF Promise!MayBecome
  <1> QED
    BY <1>3, <1>4, <1>5

LEMMA CreateMoved ==
  ASSUME TypeOK, TypeOK', TiedInv, Reads, Reads', NEW c \in Certs, CreateCertificate(c)
  PROVE  Moved
  <1> SUFFICES ASSUME NEW s \in Serials PROVE Promise!MayBecome(s, AbstractStatus'[s])
    BY DEF Moved
  <1>0. s \in Nat /\ s # 0 /\ issued \in Nat /\ issued' = issued + 1 /\ record' = record
    BY RevocationAssumption DEF TypeOK, Serials, CreateCertificate
  <1>1. /\ \A d \in Certs : d # c => row'[d] = row[d]
        /\ row'[c].serial = issued + 1 /\ row'[c].revoked = FALSE
    BY DEF CreateCertificate, TypeOK
  <1>2. row[c].serial = 0
    BY DEF TiedInv, UnusedAbsent, CreateCertificate, Present, NoSerial
  <1>3. CASE s = issued + 1
    <2>1. AbstractStatus[s] = "unissued"
      BY <1>0, <1>3 DEF Reads
    <2>2. AbstractStatus'[s] = "good"
      BY <1>0, <1>1, <1>3 DEF Reads, StatusOnRow
    <2> QED
      BY <2>1, <2>2 DEF Promise!MayBecome, Promise!Moves
  <1>4. CASE s # issued + 1
    <2>1. \A d \in Certs : /\ row'[d].serial = s <=> row[d].serial = s
                           /\ row[d].serial = s => row'[d] = row[d]
      BY <1>0, <1>1, <1>2, <1>4
    <2>2. AbstractStatus'[s] = AbstractStatus[s]
      BY <1>0, <1>4, <2>1, SameAt
    <2> QED
      BY <2>2 DEF Promise!MayBecome
  <1> QED
    BY <1>3, <1>4

LEMMA PurgeMoved ==
  ASSUME TypeOK, TypeOK', Reads, Reads', UNCHANGED <<row, issued, expired>>,
         record' = [s \in Serials |-> IF s \in expired THEN NoRecord ELSE record[s]]
  PROVE  Moved
  <1> SUFFICES ASSUME NEW s \in Serials PROVE Promise!MayBecome(s, AbstractStatus'[s])
    BY DEF Moved
  <1>0. s \in Nat /\ issued \in Nat
    BY RevocationAssumption DEF Serials, TypeOK
  <1>1. CASE s \notin expired
    <2>1. record'[s] = record[s]
      BY <1>1
    <2>2. AbstractStatus'[s] = AbstractStatus[s]
      BY <1>0, <2>1, SameAt
    <2> QED
      BY <2>2 DEF Promise!MayBecome
  <1>2. CASE s \in expired /\ s > issued
    BY <1>2 DEF Reads, Promise!MayBecome
  <1>3. CASE s <= issued /\ \E c \in Certs : row[c].serial = s
    BY <1>3 DEF Reads, StatusOnRow, Promise!MayBecome
  <1>4. CASE s \in expired /\ s <= issued /\ \A c \in Certs : row[c].serial # s
    <2>1. AbstractStatus[s] = StatusOnRecord(record[s])
      BY <1>4 DEF Reads
    <2>2. AbstractStatus'[s] = "unknown"
      BY <1>4 DEF Reads, StatusOnRecord, NoRecord
    <2> QED
      BY <1>4, <2>1, <2>2 DEF Promise!MayBecome, StatusOnRecord
  <1> QED
    BY <1>0, <1>1, <1>2, <1>3, <1>4

\* Every step of a handler is a step of the promise.
LEMMA StepMoved ==
  ASSUME PendingUntouched, TypeOK, TypeOK', TiedInv, TiedInv', [Next]_vars
  PROVE  Moved
  <1> USE RevocationAssumption
  <1>0. Reads /\ Reads'
    <2>1. Reads
      BY StatusRead
    <2>2. Reads'
      BY StatusRead, PTL
    <2> QED
      BY <2>1, <2>2
  <1>1. ASSUME UNCHANGED <<row, record, issued>> PROVE Moved
    BY <1>0, <1>1, QuietMoved
  <1>2. ASSUME NEW c \in Certs, DeleteCertificate(c) PROVE Moved
    BY <1>0, <1>2, RemoveRowMoved DEF DeleteCertificate, DeletionBlocked
  <1>3. ASSUME NEW w \in Workers, NEW c \in Certs,
               NEW reason \in {"certificateHold", "keyCompromise"},
               RevokeCertificate(w, c, reason)
        PROVE Moved
    <2> DEFINE rec == [reason |-> reason, holder |-> c]
    <2>1. /\ Present(c) /\ ~row[c].revoked
          /\ Mark(c, TRUE, reason)
          /\ record' = [record EXCEPT ![row[c].serial] = rec]
          /\ UNCHANGED issued
      BY <1>3 DEF RevokeCertificate
    <2>2. rec \in Record /\ reason \in Reasons
      BY DEF Record, Reasons
    <2>3. <<StatusOnRow(row[c]), StatusOnRow([revoked |-> TRUE, reason |-> reason])>>
             \in Promise!Moves
      BY <2>1 DEF StatusOnRow, Promise!Moves, SuspensionReasons, HoldReasons
    <2> HIDE DEF rec
    <2> QED
      BY <1>0, <2>1, <2>2, <2>3, MarkMoved
  <1>4. ASSUME NEW w \in Workers, NEW c \in Certs, UnholdCertificate(w, c) PROVE Moved
    <2>1. /\ Present(c) /\ row[c].revoked /\ row[c].reason = "certificateHold"
          /\ UNCHANGED issued
      BY <1>4 DEF UnholdCertificate, HoldReasons
    <2>2. row[c].serial \in Serials /\ {"none", "removeFromCRL"} \subseteq Reasons
      BY <2>1 DEF Present, NoSerial, TypeOK, Row, Serials, Reasons
    <2>3. CASE Delta /\ Cdp
      <3> DEFINE rec == record[row[c].serial]
      <3>1. Mark(c, TRUE, "removeFromCRL") /\ record' = record
        BY <1>4, <2>3 DEF UnholdCertificate
      <3>2. record' = [record EXCEPT ![row[c].serial] = rec] /\ rec \in Record
        BY <3>1, <2>2 DEF TypeOK
      <3>3. StatusOnRow(row[c]) = StatusOnRow([revoked |-> TRUE, reason |-> "removeFromCRL"])
        BY <2>1 DEF StatusOnRow, SuspensionReasons, HoldReasons
      <3> HIDE DEF rec
      <3> QED
        BY <1>0, <2>1, <2>2, <3>1, <3>2, <3>3, MarkMoved
    <2>4. CASE /\ Mark(c, FALSE, "none")
               /\ record' = [record EXCEPT ![row[c].serial] = NoRecord]
      <3>1. /\ Mark(c, FALSE, "none")
            /\ record' = [record EXCEPT ![row[c].serial] = NoRecord]
        BY <2>4
      <3>2. <<StatusOnRow(row[c]), StatusOnRow([revoked |-> FALSE, reason |-> "none"])>>
               \in Promise!Moves
        BY <2>1 DEF StatusOnRow, Promise!Moves, SuspensionReasons, HoldReasons
      <3> QED
        BY <1>0, <2>1, <2>2, <3>1, <3>2, MarkMoved, Blanks
    <2>5. CASE UNCHANGED <<row, record>>
      BY <1>1, <2>1, <2>5
    <2> QED
      BY <1>4, <2>3, <2>4, <2>5 DEF UnholdCertificate
  <1>5. ASSUME NEW w \in Workers, NEW c \in Certs, RenewCertificate(w, c) PROVE Moved
    BY <1>0, <1>1, <1>5, TakeSerialMoved DEF RenewCertificate
  <1>6. ASSUME NEW w \in Workers, PurgeStaleRevokedSerials(w) PROVE Moved
    BY <1>0, <1>1, <1>6, PurgeMoved DEF PurgeStaleRevokedSerials
  <1>7. ASSUME NEW w \in Workers, PurgeExpiredRevokedCertificates(w) PROVE Moved
    BY <1>1, <1>7 DEF PurgeExpiredRevokedCertificates
  <1>14. ASSUME NEW w \in Workers, DeleteListed(w) PROVE Moved
    <2>1. PICK c \in worker[w].doomed :
             \/ /\ Present(c) /\ RemoveRow(c)
                /\ swept' = swept \cup {s \in Serials : DeletionBlocked(c) /\ s = row[c].serial}
             \/ UNCHANGED <<row, record>>
      BY <1>14 DEF DeleteListed
    <2>2. c \in Certs /\ UNCHANGED <<issued, expired>>
      BY <1>14 DEF TypeOK, Worker, DeleteListed
    <2>3. CASE UNCHANGED <<row, record>>
      BY <1>1, <2>2, <2>3
    <2>4. CASE /\ Present(c) /\ RemoveRow(c)
               /\ swept' = swept \cup {s \in Serials : DeletionBlocked(c) /\ s = row[c].serial}
      <3>1. row[c].serial \in Serials
        BY <2>2, <2>4 DEF Present, NoSerial, TypeOK, Row, Serials
      <3>2. row[c].revoked \/ row[c].serial \in expired \cup swept'
        BY <2>4, <3>1 DEF DeletionBlocked
      <3> QED
        BY <1>0, <2>2, <2>4, <3>2, RemoveRowMoved
    <2> QED
      BY <2>1, <2>3, <2>4
  <1>8. ASSUME NEW w \in Workers, ClearHold(w) PROVE Moved
    <2> DEFINE c == worker[w].cert
    <2>1. UNCHANGED issued /\ c \in Certs /\ Lifting(w)
      BY <1>8 DEF ClearHold, At, Lifting, TiedInv, StagedHoldUntouched
    <2>2. CASE /\ Present(c) /\ Mark(c, FALSE, "none")
               /\ record' = [record EXCEPT ![worker[w].serial] = NoRecord]
      <3>1. /\ worker[w].serial = row[c].serial
            /\ row[c].revoked /\ row[c].reason = "removeFromCRL"
        BY <2>1, <2>2 DEF TiedInv, StagedHoldUntouched
      <3>2. "none" \in Reasons
        BY DEF Reasons
      <3>3. <<StatusOnRow(row[c]), StatusOnRow([revoked |-> FALSE, reason |-> "none"])>>
               \in Promise!Moves
        BY <3>1 DEF StatusOnRow, Promise!Moves, SuspensionReasons, HoldReasons
      <3> QED
        BY <1>0, <2>1, <2>2, <3>1, <3>2, <3>3, MarkMoved, Blanks
    <2>3. CASE UNCHANGED <<row, record>>
      BY <1>1, <2>1, <2>3
    <2> QED
      BY <1>8, <2>2, <2>3 DEF ClearHold
  <1>9. ASSUME NEW w \in Workers, Start(w) PROVE Moved
    <2>1. ASSUME NEW s \in Serials, OcspRequest(w, s) PROVE Moved
      BY <1>1, <2>1 DEF OcspRequest
    <2>2. ASSUME PublishCrl(w) PROVE Moved
      BY <1>1, <2>2 DEF PublishCrl
    <2>3. ASSUME NEW c \in Certs, RevocationNotCommitted(w, c) PROVE Moved
      BY <1>1, <2>3 DEF RevocationNotCommitted
    <2> QED
      BY <1>3, <1>4, <1>5, <1>9, <2>1, <2>2, <2>3 DEF Start
  <1>10. ASSUME NEW w \in Workers, Continue(w) PROVE Moved
    <2>1. ASSUME RestoreRevocationState(w) PROVE Moved
      <3> DEFINE c == worker[w].cert
      <3>1. CASE UNCHANGED row
        BY <1>1, <2>1, <3>1 DEF RestoreRevocationState
      <3>2. CASE Present(c) /\ Mark(c, FALSE, "none")
        <4> DEFINE rec == record[row[c].serial]
        <4>1. /\ c \in Certs /\ ~row[c].revoked /\ Mark(c, FALSE, "none")
              /\ UNCHANGED <<record, issued>>
          BY <2>1, <3>2 DEF RestoreRevocationState, At, PendingUntouched, PendingPcs
        <4>2. row[c].serial \in Serials /\ "none" \in Reasons
          BY <3>2, <4>1 DEF Present, NoSerial, TypeOK, Row, Serials, Reasons
        <4>3. record' = [record EXCEPT ![row[c].serial] = rec] /\ rec \in Record
          BY <4>1, <4>2 DEF TypeOK
        <4>4. StatusOnRow(row[c]) = StatusOnRow([revoked |-> FALSE, reason |-> "none"])
          BY <4>1 DEF StatusOnRow
        <4> HIDE DEF rec, c
        <4> QED
          BY <1>0, <3>2, <4>1, <4>2, <4>3, <4>4, MarkMoved
      <3> QED
        BY <2>1, <3>1, <3>2 DEF RestoreRevocationState
    <2>2. ASSUME \/ GenerateCrl(w) \/ CommitCrl(w) \/ CrlNotGenerated(w)
                 \/ InvalidateCachedResponses(w) \/ EmitRemoveFromCrl(w) \/ CacheResponse(w)
          PROVE  Moved
      BY <1>1, <2>2 DEF GenerateCrl, CommitCrl, CrlNotGenerated, InvalidateCachedResponses,
                        EmitRemoveFromCrl, CacheResponse
    <2>3. ASSUME RestoreHold(w) PROVE Moved
      <3> DEFINE c == worker[w].cert
      <3>1. CASE UNCHANGED row
        BY <1>1, <2>3, <3>1 DEF RestoreHold
      <3>2. CASE Present(c) /\ Mark(c, TRUE, "certificateHold")
        <4> DEFINE rec == record[row[c].serial]
        <4>1. /\ c \in Certs /\ row[c].revoked /\ row[c].reason \in SuspensionReasons
              /\ Mark(c, TRUE, "certificateHold") /\ UNCHANGED <<record, issued>>
          BY <2>3, <3>2 DEF RestoreHold, At, PendingUntouched, PendingPcs
        <4>2. row[c].serial \in Serials /\ "certificateHold" \in Reasons
          BY <3>2, <4>1 DEF Present, NoSerial, TypeOK, Row, Serials, Reasons
        <4>3. record' = [record EXCEPT ![row[c].serial] = rec] /\ rec \in Record
          BY <4>1, <4>2 DEF TypeOK
        <4>4. StatusOnRow(row[c]) = StatusOnRow([revoked |-> TRUE, reason |-> "certificateHold"])
          BY <4>1 DEF StatusOnRow, SuspensionReasons, HoldReasons
        <4> HIDE DEF rec, c
        <4> QED
          BY <1>0, <3>2, <4>1, <4>2, <4>3, <4>4, MarkMoved
      <3> QED
        BY <2>3, <3>1, <3>2 DEF RestoreHold
    <2>4. ASSUME CommitRenewal(w) PROVE Moved
      <3> DEFINE c == worker[w].cert
      <3>1. CASE UNCHANGED <<row, record, issued>>
        BY <1>1, <3>1
      <3>2. CASE row[c].serial = worker[w].serial /\ TakeSerial(c, worker[w].serial)
        <4>1. c \in Certs /\ Present(c) /\ ~row[c].revoked /\ TakeSerial(c, row[c].serial)
          BY <2>4, <3>2 DEF CommitRenewal, At, PendingUntouched, PendingPcs, Present
        <4> QED
          BY <1>0, <4>1, TakeSerialMoved
      <3> QED
        BY <2>4, <3>1, <3>2 DEF CommitRenewal
    <2> QED
      BY <1>6, <1>7, <1>8, <1>10, <1>14, <2>1, <2>2, <2>3, <2>4 DEF Continue
  <1>11. ASSUME NEW c \in Certs, CreateCertificate(c) PROVE Moved
    BY <1>0, <1>11, CreateMoved
  <1>12. ASSUME NEW s \in Serials, Expire(s) \/ ResponseExpires(s) PROVE Moved
    BY <1>1, <1>12 DEF Expire, ResponseExpires
  <1>13. ASSUME Crash \/ PublishDelta \/ UNCHANGED vars PROVE Moved
    BY <1>1, <1>13 DEF Crash, PublishDelta, vars
  <1> QED
    BY <1>2, <1>9, <1>10, <1>11, <1>12, <1>13 DEF Next

\* What may be forgotten stays so.
LEMMA ForgettableGrows ==
  ASSUME TypeOK', [Next]_vars
  PROVE  /\ expired \cup swept \subseteq expired' \cup swept'
         /\ expired' \cup swept' \subseteq Serials
  <1>1. expired' \subseteq Serials /\ swept' \subseteq Serials
    BY DEF TypeOK
  <1>2. ASSUME NEW w \in Workers, Start(w) \/ Continue(w) PROVE expired' = expired /\ swept \subseteq swept'
    <2>1. CASE DeleteListed(w)
      BY <2>1 DEF DeleteListed
    <2> QED
      BY <1>2, <2>1 DEF Start, Continue, RevokeCertificate, RevocationNotCommitted, UnholdCertificate,
                RenewCertificate, OcspRequest, PublishCrl, RestoreRevocationState,
                PurgeStaleRevokedSerials, PurgeExpiredRevokedCertificates, GenerateCrl, CommitCrl,
                CrlNotGenerated, InvalidateCachedResponses, EmitRemoveFromCrl, ClearHold,
                RestoreHold, CommitRenewal, CacheResponse
  <1>3. ASSUME \/ \E c \in Certs : CreateCertificate(c) \/ DeleteCertificate(c)
               \/ \E s \in Serials : Expire(s) \/ ResponseExpires(s)
               \/ Crash \/ PublishDelta
               \/ UNCHANGED vars
        PROVE  expired \subseteq expired' /\ swept' = swept
    BY <1>3 DEF CreateCertificate, DeleteCertificate, Expire, ResponseExpires, Crash, PublishDelta, vars
  <1> QED
    BY <1>1, <1>2, <1>3 DEF Next

\* Whatever handlers interleave between their transactions, whatever tolerated
\* failure or crash cuts them short, a revocation is final, a hold can only be
\* lifted and no serial is forgotten before it expires (lifecycle.py,
\* renewal.py, cert_lifecycle.py, services/crl/query.py), but for a valid serial
\* whose row was deleted by an outdated list of expired revoked rows (swept).  If
\* handlers run one at a time there is none of those (StatusInvariant), and the
\* promise also holds when commits fail and when certificates are deleted and
\* expire while a handler signs.
THEOREM KeepsPromise ==
  ASSUME NotOvertaken
  PROVE  Spec => StatusPromise
  <1>1. Init => Promise!Init
    BY RevocationAssumption DEF Init, Promise!Init, AbstractStatus, Serials
  <1>2. TypeOK /\ TypeOK' /\ TiedInv /\ TiedInv' /\ PendingUntouched /\ [Next]_vars
           => [Promise!Next]_(Promise!vars)
    <2>1. AbstractStatus' \in [Serials -> Promise!Statuses]
      BY DEF AbstractStatus, Promise!Statuses
    <2> QED
      BY <2>1, StepMoved, ForgettableGrows DEF Moved, Promise!Next
  <1>3. Spec => [](TypeOK /\ TiedInv /\ PendingUntouched)
    BY StatusAlways
  <1> QED
    BY <1>1, <1>2, <1>3, PTL DEF Spec, StatusPromise, Promise!Spec

-----------------------------------------------------------------------------
(***************************************************************************)
(* What the CA serves follows the tables: a staged hold has its owner and, *)
(* once no handler is in progress, the served CRL and the cached OCSP      *)
(* responses say what the tables say.  For any number of rows, serials and *)
(* handlers, under the assumption each theorem names.                      *)
(***************************************************************************)

\* What lies ahead of a handler: a CRL, or the clearing of the answers cached for s.
CrlPcs == {"purge_serials", "auto_delete", "delete", "crl"}
CrlOwed(w) ==
    \/ worker[w].pc \in CrlPcs
    \/ worker[w].pc = "invalidate" /\ worker[w].op = "renew"
ClearingOwed(w, s) ==
    /\ worker[w].serial = s
    /\ \/ worker[w].pc = "invalidate"
       \/ worker[w].pc \in CrlPcs /\ worker[w].op \in {"revoke", "unhold"}

\* Nobody waits for a signature, and a hold is lifted by an unhold.
StepsInv ==
    \A w \in Workers : /\ worker[w].pc \notin {"crl_commit", "ocsp_cache", "renew_commit"}
                       /\ Lifting(w) => worker[w].op = "unhold"

\* What a latest CRL says of s, or none does, is not what the tables say.
CrlWrong(s) ==
    \/ \E f \in crl.latest : ~(s \in f.listed <=> StatusForSerial(s) = "revoked")
    \/ crl.latest = {} /\ StatusForSerial(s) = "revoked"

\* A CRL that is wrong will be replaced by a handler that is in progress.
CrlInv ==
    /\ \A f \in crl.latest : f.number <= crl.number /\ \A s \in f.listed : s <= issued
    /\ \A s \in Serials \ expired : CrlWrong(s) => \E w \in Workers : CrlOwed(w)

\* The answer cached for s contradicts the tables.
CacheWrong(s) ==
    \/ StatusForSerial(s) = "revoked" /\ cache[s] \notin {"none", "revoked"}
    \/ StatusForSerial(s) = "good" /\ cache[s] = "revoked"

\* An answer that is wrong will be cleared by a handler that is in progress.
CacheInv ==
    \A s \in Serials :
        /\ s > issued => cache[s] # "revoked"
        /\ CacheWrong(s) => \E w \in Workers : ClearingOwed(w, s)

\* Only a row that is there is staged, and whoever stages or clears it is there.
StagedPresent == \A c \in Certs : row[c].reason = "removeFromCRL" => Present(c)

-----------------------------------------------------------------------------
(* What a step does to its handler *)

LEMMA GotoFrame ==
  ASSUME TypeOK, NEW w \in Workers, NEW pc, Goto(w, pc)
  PROVE  /\ worker'[w].pc = pc
         /\ worker'[w].op = worker[w].op /\ worker'[w].cert = worker[w].cert
         /\ worker'[w].serial = worker[w].serial
         /\ \A v \in Workers \ {w} : worker'[v] = worker[v]
  BY DEF TypeOK, Goto, Worker

LEMMA BeginFrame ==
  ASSUME TypeOK, NEW w \in Workers, NEW h, Begin(w, h)
  PROVE  worker'[w] = h /\ \A v \in Workers \ {w} : worker'[v] = worker[v]
  BY DEF TypeOK, Begin

LEMMA FinishFrame ==
  ASSUME TypeOK, NEW w \in Workers, Finish(w)
  PROVE  worker'[w] = Idle /\ \A v \in Workers \ {w} : worker'[v] = worker[v]
  BY DEF TypeOK, Finish

LEMMA Handlers ==
  /\ \A pc, op, c, s : /\ Handler(pc, op, c, s).pc = pc /\ Handler(pc, op, c, s).op = op
                       /\ Handler(pc, op, c, s).cert = c /\ Handler(pc, op, c, s).serial = s
  /\ Idle.pc = "idle" /\ Idle.op = "none"
  BY DEF Handler, Idle

LEMMA CrlStarts == {CrlStart, AfterPurge} \subseteq CrlPcs
  BY DEF CrlStart, AfterPurge, CrlPcs

-----------------------------------------------------------------------------
(* A staged hold has its owner *)

OwnedInv == StagedPresent /\ StagedHoldIsOwned

Staging(w) == worker[w].pc \in {"delta", "clear", "restore_hold"}

\* The rows keep their reasons, or lose them, and those who lift a hold go on.
LEMMA OwnedFrame ==
  ASSUME OwnedInv,
         \A c \in Certs : row'[c].reason = "removeFromCRL" =>
            row[c].reason = "removeFromCRL" /\ row'[c].serial # NoSerial,
         \A c \in Certs, v \in Workers : row'[c].reason = "removeFromCRL" /\ Staging(v) /\ worker[v].cert = c =>
            worker'[v].cert = c /\ worker'[v].pc \in {"delta", "clear", "restore_hold"}
  PROVE  OwnedInv'
  <1>1. StagedPresent'
    BY DEF StagedPresent, Present
  <1>2. StagedHoldIsOwned'
    <2> SUFFICES ASSUME NEW c \in Certs, row'[c].reason = "removeFromCRL"
                 PROVE  \E v \in Workers : worker'[v].cert = c
                                           /\ worker'[v].pc \in {"delta", "clear", "restore_hold"}
      BY DEF StagedHoldIsOwned
    <2>1. PICK v \in Workers : worker[v].cert = c /\ worker[v].pc \in {"delta", "clear", "restore_hold"}
      BY DEF OwnedInv, StagedHoldIsOwned
    <2> QED
      BY <2>1 DEF Staging
  <1> QED
    BY <1>1, <1>2 DEF OwnedInv

\* A handler that lifts no hold moves, and no row does.
LEMMA OwnedQuiet ==
  ASSUME OwnedInv, NEW w \in Workers, ~Staging(w), UNCHANGED row,
         \A v \in Workers \ {w} : worker'[v] = worker[v]
  PROVE  OwnedInv'
  <1>1. \A c \in Certs : row'[c].reason = "removeFromCRL" => row'[c].serial # NoSerial
    BY DEF OwnedInv, StagedPresent, Present
  <1>2. \A v \in Workers : Staging(v) => v # w
    OBVIOUS
  <1>3. \A v \in Workers : Staging(v) =>
           worker'[v].cert = worker[v].cert /\ worker'[v].pc \in {"delta", "clear", "restore_hold"}
    BY <1>2 DEF Staging
  <1> QED
    BY <1>1, <1>3, OwnedFrame

\* A row is marked by a handler that stages nothing.
LEMMA OwnedMark ==
  ASSUME TypeOK, OwnedInv, NEW w \in Workers, NEW c \in Certs, NEW b, NEW r, Mark(c, b, r),
         r # "removeFromCRL", Staging(w) => worker[w].cert = c,
         \A v \in Workers \ {w} : worker'[v] = worker[v]
  PROVE  OwnedInv'
  <1>1. row'[c].reason = r /\ \A d \in Certs \ {c} : row'[d] = row[d]
    BY DEF Mark, TypeOK
  <1>2. \A d \in Certs : row'[d].reason = "removeFromCRL" => d # c
    BY <1>1
  <1>3. \A d \in Certs : row'[d].reason = "removeFromCRL" =>
           row[d].reason = "removeFromCRL" /\ row'[d].serial # NoSerial
    BY <1>1, <1>2 DEF OwnedInv, StagedPresent, Present
  <1>4. \A d \in Certs, v \in Workers : row'[d].reason = "removeFromCRL" /\ Staging(v) /\ worker[v].cert = d =>
           worker'[v].cert = d /\ worker'[v].pc \in {"delta", "clear", "restore_hold"}
    BY <1>2 DEF Staging
  <1> QED
    BY <1>3, <1>4, OwnedFrame

\* A row is removed, or gets another serial, by no handler or by one that lifts no hold.
LEMMA OwnedRow ==
  ASSUME TypeOK, OwnedInv, NEW c \in Certs,
         row'[c].reason = "removeFromCRL" => row[c].reason = "removeFromCRL" /\ row'[c].serial # NoSerial,
         \A d \in Certs \ {c} : row'[d] = row[d],
         \A v \in Workers : Staging(v) => worker'[v] = worker[v]
  PROVE  OwnedInv'
  <1>1. \A d \in Certs : row'[d].reason = "removeFromCRL" =>
           row[d].reason = "removeFromCRL" /\ row'[d].serial # NoSerial
    BY DEF OwnedInv, StagedPresent, Present
  <1>2. \A d \in Certs, v \in Workers : row'[d].reason = "removeFromCRL" /\ Staging(v) /\ worker[v].cert = d =>
           worker'[v].cert = d /\ worker'[v].pc \in {"delta", "clear", "restore_hold"}
    BY DEF Staging
  <1> QED
    BY <1>1, <1>2, OwnedFrame

LEMMA TakeSerialRow ==
  ASSUME TypeOK, NEW c \in Certs, NEW old, TakeSerial(c, old)
  PROVE  /\ row'[c].serial = issued + 1 /\ row'[c].serial # NoSerial
         /\ row'[c].revoked = row[c].revoked /\ row'[c].reason = row[c].reason
         /\ \A d \in Certs \ {c} : row'[d] = row[d]
  BY RevocationAssumption DEF TypeOK, TakeSerial, Row, NoSerial

LEMMA RemoveRowRow ==
  ASSUME TypeOK, NEW c \in Certs, RemoveRow(c)
  PROVE  row'[c] = NoRow /\ NoRow.reason = "none" /\ \A d \in Certs \ {c} : row'[d] = row[d]
  BY DEF TypeOK, RemoveRow, NoRow

LEMMA StepOwned ==
  ASSUME ~Crashes, ~CommitFails, TypeOK, OwnedInv, [Next]_vars
  PROVE  OwnedInv'
  <1>1. ASSUME UNCHANGED <<row, worker>> PROVE OwnedInv'
    BY <1>1 DEF OwnedInv, StagedPresent, StagedHoldIsOwned, Present
  <1>2. ASSUME NEW c \in Certs, CreateCertificate(c) PROVE OwnedInv'
    <2>1. row'[c].reason = "none" /\ (\A d \in Certs \ {c} : row'[d] = row[d]) /\ worker' = worker
      BY <1>2 DEF CreateCertificate, TypeOK
    <2> QED
      BY <2>1, OwnedRow
  <1>3. ASSUME NEW c \in Certs, DeleteCertificate(c) PROVE OwnedInv'
    BY <1>3, RemoveRowRow, OwnedRow DEF DeleteCertificate
  <1>4. ASSUME NEW w \in Workers, NEW h, Free(w), Begin(w, h), UNCHANGED row PROVE OwnedInv'
    <2>1. ~Staging(w)
      BY <1>4 DEF Free, Staging
    <2> QED
      BY <1>4, <2>1, BeginFrame, OwnedQuiet
  <1>5. ASSUME NEW w \in Workers, NEW c \in Certs, NEW reason \in {"certificateHold", "keyCompromise"},
               RevokeCertificate(w, c, reason)
        PROVE  OwnedInv'
    <2>1. ~Staging(w) /\ Mark(c, TRUE, reason) /\ reason # "removeFromCRL"
      BY <1>5 DEF RevokeCertificate, Free, Staging
    <2>2. \A v \in Workers \ {w} : worker'[v] = worker[v]
      BY <1>5, BeginFrame DEF RevokeCertificate
    <2> QED
      BY <2>1, <2>2, OwnedMark
  <1>6. ASSUME NEW w \in Workers, NEW c \in Certs, RevocationNotCommitted(w, c) PROVE OwnedInv'
    BY <1>4, <1>6 DEF RevocationNotCommitted
  <1>7. ASSUME NEW w \in Workers, NEW c \in Certs, UnholdCertificate(w, c) PROVE OwnedInv'
    <2>1. ~Staging(w) /\ Present(c)
      BY <1>7 DEF UnholdCertificate, Free, Staging
    <2>2. CASE Delta /\ Cdp
      <3>1. Mark(c, TRUE, "removeFromCRL") /\ Begin(w, Handler("delta", "unhold", c, row[c].serial))
        BY <1>7, <2>2 DEF UnholdCertificate
      <3>2. row'[c].serial = row[c].serial /\ \A d \in Certs \ {c} : row'[d] = row[d]
        BY <3>1 DEF Mark, TypeOK
      <3>3. worker'[w].pc = "delta" /\ worker'[w].cert = c /\ \A v \in Workers \ {w} : worker'[v] = worker[v]
        BY <3>1, BeginFrame, Handlers
      <3>4. StagedPresent'
        BY <2>1, <3>2 DEF OwnedInv, StagedPresent, Present
      <3>5. StagedHoldIsOwned'
        BY <2>1, <3>2, <3>3 DEF OwnedInv, StagedHoldIsOwned, Staging
      <3> QED
        BY <3>4, <3>5 DEF OwnedInv
    <2>3. CASE ~(Delta /\ Cdp)
      <3>1. Mark(c, FALSE, "none") /\ \A v \in Workers \ {w} : worker'[v] = worker[v]
        BY <1>7, <2>3, BeginFrame DEF UnholdCertificate
      <3> QED
        BY <2>1, <3>1, OwnedMark
    <2> QED
      BY <2>2, <2>3
  <1>8. ASSUME NEW w \in Workers, NEW c \in Certs, RenewCertificate(w, c) PROVE OwnedInv'
    <2>1. ~Staging(w)
      BY <1>8 DEF RenewCertificate, Free, Staging
    <2>2. \A v \in Workers \ {w} : worker'[v] = worker[v]
      BY <1>8, BeginFrame DEF RenewCertificate
    <2>3. \A v \in Workers : Staging(v) => worker'[v] = worker[v]
      BY <2>1, <2>2
    <2>4. CASE Interruptible
      BY <1>8, <2>1, <2>2, <2>4, OwnedQuiet DEF RenewCertificate
    <2>5. CASE ~Interruptible
      BY <1>8, <2>3, <2>5, TakeSerialRow, OwnedRow DEF RenewCertificate
    <2> QED
      BY <2>4, <2>5
  <1>9. ASSUME NEW w \in Workers, NEW s \in Serials, OcspRequest(w, s) PROVE OwnedInv'
    BY <1>1, <1>4, <1>9 DEF OcspRequest
  <1>10. ASSUME NEW w \in Workers, PublishCrl(w) PROVE OwnedInv'
    BY <1>4, <1>10 DEF PublishCrl
  <1>11. ASSUME NEW w \in Workers, ~Staging(w), UNCHANGED row, \A v \in Workers \ {w} : worker'[v] = worker[v]
         PROVE  OwnedInv'
    BY <1>11, OwnedQuiet
  <1>12. ASSUME NEW w \in Workers, RestoreRevocationState(w) PROVE OwnedInv'
    <2>1. ~Staging(w) /\ \A v \in Workers \ {w} : worker'[v] = worker[v]
      BY <1>12, FinishFrame DEF RestoreRevocationState, At, Staging
    <2>2. CASE Present(worker[w].cert) /\ worker[w].cert \in Certs
      <3>1. Mark(worker[w].cert, FALSE, "none")
        BY <1>12, <2>2 DEF RestoreRevocationState
      <3> QED
        BY <2>1, <2>2, <3>1, OwnedMark
    <2>3. CASE ~(Present(worker[w].cert) /\ worker[w].cert \in Certs)
      <3>1. row' = row
        BY <1>12, <2>3 DEF RestoreRevocationState, Mark, TypeOK
      <3> QED
        BY <1>11, <2>1, <3>1
    <2> QED
      BY <2>2, <2>3
  <1>13. ASSUME NEW w \in Workers, PurgeStaleRevokedSerials(w) PROVE OwnedInv'
    BY <1>11, <1>13, GotoFrame DEF PurgeStaleRevokedSerials, At, Staging
  <1>14. ASSUME NEW w \in Workers, PurgeExpiredRevokedCertificates(w) PROVE OwnedInv'
    <2>1. ~Staging(w) /\ UNCHANGED row
      BY <1>14 DEF PurgeExpiredRevokedCertificates, At, Staging
    <2>2. ExpiredRevokedRows \in SUBSET Certs /\ worker \in [Workers -> Worker]
      BY DEF ExpiredRevokedRows, TypeOK
    <2>3. \A v \in Workers \ {w} : worker'[v] = worker[v]
      BY <1>14, <2>2, SweepFrame, GotoFrame DEF PurgeExpiredRevokedCertificates
    <2> QED
      BY <1>11, <2>1, <2>3
  <1>30. ASSUME NEW w \in Workers, DeleteListed(w) PROVE OwnedInv'
    <2>1. ~Staging(w) /\ worker \in [Workers -> Worker]
      BY <1>30 DEF DeleteListed, At, Staging, TypeOK
    <2>2. PICK c \in worker[w].doomed :
             Sweep(w, worker[w].doomed \ {c}) /\ (RemoveRow(c) \/ UNCHANGED row)
      BY <1>30 DEF DeleteListed
    <2>3. c \in Certs /\ worker[w].doomed \ {c} \in SUBSET Certs
      BY <2>1 DEF Worker
    <2>4. \A v \in Workers \ {w} : worker'[v] = worker[v]
      BY <2>1, <2>2, <2>3, SweepFrame
    <2>5. CASE UNCHANGED row
      BY <1>11, <2>1, <2>4, <2>5
    <2>6. CASE RemoveRow(c)
      <3>1. \A v \in Workers : Staging(v) => worker'[v] = worker[v]
        BY <2>1, <2>4
      <3> QED
        BY <2>3, <2>6, <3>1, RemoveRowRow, OwnedRow
    <2> QED
      BY <2>2, <2>5, <2>6
  <1>15. ASSUME NEW w \in Workers, AfterCrl(w) PROVE \A v \in Workers \ {w} : worker'[v] = worker[v]
    BY <1>15, GotoFrame, FinishFrame DEF AfterCrl
  <1>16. ASSUME NEW w \in Workers, GenerateCrl(w) \/ CommitCrl(w) \/ CrlNotGenerated(w) PROVE OwnedInv'
    <2>1. ~Staging(w) /\ UNCHANGED row
      BY <1>16 DEF GenerateCrl, CommitCrl, CrlNotGenerated, At, Staging
    <2>2. \A v \in Workers \ {w} : worker'[v] = worker[v]
      BY <1>15, <1>16, BeginFrame DEF GenerateCrl, CommitCrl, CrlNotGenerated
    <2> QED
      BY <1>11, <2>1, <2>2
  <1>17. ASSUME NEW w \in Workers, InvalidateCachedResponses(w) PROVE OwnedInv'
    <2>1. ~Staging(w) /\ UNCHANGED row
      BY <1>17 DEF InvalidateCachedResponses, At, Staging
    <2>2. \A v \in Workers \ {w} : worker'[v] = worker[v]
      BY <1>17, GotoFrame, FinishFrame DEF InvalidateCachedResponses, AfterInvalidate
    <2> QED
      BY <1>11, <2>1, <2>2
  <1>18. ASSUME NEW w \in Workers, Staging(w), NEW pc \in {"clear", "restore_hold"}, Goto(w, pc), UNCHANGED row
         PROVE  OwnedInv'
    <2>1. /\ worker'[w].pc = pc /\ worker'[w].cert = worker[w].cert
          /\ \A v \in Workers \ {w} : worker'[v] = worker[v]
      BY <1>18, GotoFrame
    <2>2. \A v \in Workers : Staging(v) =>
             worker'[v].cert = worker[v].cert /\ worker'[v].pc \in {"delta", "clear", "restore_hold"}
      BY <2>1 DEF Staging
    <2>3. \A c \in Certs : row'[c].reason = "removeFromCRL" => row'[c].serial # NoSerial
      BY <1>18 DEF OwnedInv, StagedPresent, Present
    <2> QED
      BY <1>18, <2>2, <2>3, OwnedFrame
  <1>19. ASSUME NEW w \in Workers, EmitRemoveFromCrl(w) PROVE OwnedInv'
    BY <1>18, <1>19 DEF EmitRemoveFromCrl, At, Staging
  <1>20. ASSUME NEW w \in Workers, Finish(w), UNCHANGED row,
                worker[w].cert \in Certs => row[worker[w].cert].reason # "removeFromCRL"
         PROVE  OwnedInv'
    <2>1. \A v \in Workers \ {w} : worker'[v] = worker[v]
      BY <1>20, FinishFrame
    <2>2. \A c \in Certs : row'[c].reason = "removeFromCRL" => row'[c].serial # NoSerial
      BY <1>20 DEF OwnedInv, StagedPresent, Present
    <2>3. \A c \in Certs, v \in Workers : row'[c].reason = "removeFromCRL" /\ Staging(v) /\ worker[v].cert = c =>
             worker'[v].cert = c /\ worker'[v].pc \in {"delta", "clear", "restore_hold"}
      BY <1>20, <2>1 DEF Staging
    <2> QED
      BY <1>20, <2>2, <2>3, OwnedFrame
  <1>21. ASSUME NEW w \in Workers, ClearHold(w) PROVE OwnedInv'
    <2>1. Staging(w)
      BY <1>21 DEF ClearHold, At, Staging
    <2>2. CASE Present(worker[w].cert) /\ Mark(worker[w].cert, FALSE, "none") /\ Goto(w, CrlStart)
      <3>1. CASE worker[w].cert \in Certs
        BY <2>2, <3>1, GotoFrame, OwnedMark
      <3>2. CASE worker[w].cert \notin Certs
        <4>1. row' = row
          BY <2>2, <3>2 DEF Mark, TypeOK
        <4>2. \A c \in Certs : row'[c].reason = "removeFromCRL" => row'[c].serial # NoSerial
          BY <4>1 DEF OwnedInv, StagedPresent, Present
        <4>3. \A v \in Workers \ {w} : worker'[v] = worker[v]
          BY <2>2, GotoFrame
        <4>4. \A c \in Certs, v \in Workers : row'[c].reason = "removeFromCRL" /\ Staging(v) /\ worker[v].cert = c =>
                 worker'[v].cert = c /\ worker'[v].pc \in {"delta", "clear", "restore_hold"}
          BY <3>2, <4>3 DEF Staging
        <4> QED
          BY <4>1, <4>2, <4>4, OwnedFrame
      <3> QED
        BY <3>1, <3>2
    <2>3. CASE ~Present(worker[w].cert) /\ Finish(w) /\ UNCHANGED row
      <3>1. worker[w].cert \in Certs => row[worker[w].cert].reason # "removeFromCRL"
        BY <2>3 DEF OwnedInv, StagedPresent
      <3> QED
        BY <1>20, <2>3, <3>1
    <2>4. CASE Goto(w, "restore_hold") /\ UNCHANGED row
      BY <1>18, <2>1, <2>4
    <2> QED
      BY <1>21, <2>2, <2>3, <2>4 DEF ClearHold
  <1>22. ASSUME NEW w \in Workers, RestoreHold(w) PROVE OwnedInv'
    <2>1. \A v \in Workers \ {w} : worker'[v] = worker[v]
      BY <1>22, FinishFrame DEF RestoreHold
    <2>2. CASE Present(worker[w].cert) /\ worker[w].cert \in Certs
      BY <1>22, <2>1, <2>2, OwnedMark DEF RestoreHold
    <2>3. CASE ~(Present(worker[w].cert) /\ worker[w].cert \in Certs)
      <3>1. row' = row
        BY <1>22, <2>3 DEF RestoreHold, Mark, TypeOK
      <3>2. worker[w].cert \in Certs => row[worker[w].cert].reason # "removeFromCRL"
        BY <2>3 DEF OwnedInv, StagedPresent
      <3> QED
        BY <1>20, <1>22, <3>1, <3>2 DEF RestoreHold
    <2> QED
      BY <2>2, <2>3
  <1>23. ASSUME NEW w \in Workers, CommitRenewal(w) PROVE OwnedInv'
    <2>1. ~Staging(w) /\ \A v \in Workers \ {w} : worker'[v] = worker[v]
      BY <1>23, GotoFrame, FinishFrame DEF CommitRenewal, At, Staging
    <2>2. CASE UNCHANGED row
      BY <1>11, <2>1, <2>2
    <2>3. CASE TakeSerial(worker[w].cert, worker[w].serial) /\ worker[w].cert \in Certs
      BY <2>1, <2>3, TakeSerialRow, OwnedRow
    <2>4. CASE TakeSerial(worker[w].cert, worker[w].serial) /\ worker[w].cert \notin Certs
      <3>1. row' = row
        BY <2>4 DEF TakeSerial, TypeOK
      <3> QED
        BY <2>2, <3>1
    <2> QED
      BY <1>23, <2>2, <2>3, <2>4 DEF CommitRenewal
  <1>24. ASSUME NEW w \in Workers, CacheResponse(w) PROVE OwnedInv'
    BY <1>11, <1>24, FinishFrame DEF CacheResponse, At, Staging
  <1>25. CASE UNCHANGED vars
    BY <1>1, <1>25 DEF vars
  <1>26. ASSUME NEW s \in Serials, Expire(s) \/ ResponseExpires(s) PROVE OwnedInv'
    BY <1>1, <1>26 DEF Expire, ResponseExpires
  <1>31. ASSUME PublishDelta PROVE OwnedInv'
    BY <1>1, <1>31 DEF PublishDelta
  <1>27. ~Crash
    BY DEF Crash
  <1>28. ASSUME NEW w \in Workers, Start(w) PROVE OwnedInv'
    BY <1>5, <1>6, <1>7, <1>8, <1>9, <1>10, <1>28 DEF Start
  <1>29. ASSUME NEW w \in Workers, Continue(w) PROVE OwnedInv'
    BY <1>12, <1>13, <1>14, <1>16, <1>17, <1>19, <1>21, <1>22, <1>23, <1>24, <1>29, <1>30 DEF Continue
  <1> QED
    BY <1>2, <1>3, <1>25, <1>26, <1>27, <1>28, <1>29, <1>31 DEF Next

\* As long as the process does not die and commits do not fail, a hold staged as removeFromCRL
\* has the unhold_certificate that staged it, which will clear it: whatever is overtaken or
\* deleted and whatever effect fails.  (When the commit that clears it and the one that puts it
\* back both fail, the hold stays staged and no request can lift it.)
THEOREM StagedHoldsAreOwned ==
  ASSUME ~Crashes, ~CommitFails
  PROVE  Spec => []StagedHoldIsOwned
  <1>1. Init => OwnedInv
    BY DEF Init, OwnedInv, StagedPresent, StagedHoldIsOwned, NoRow
  <1>2. TypeOK /\ OwnedInv /\ [Next]_vars => OwnedInv'
    BY StepOwned
  <1>3. OwnedInv => StagedHoldIsOwned
    BY DEF OwnedInv
  <1> QED
    BY <1>1, <1>2, <1>3, TypeCorrect, PTL DEF Spec

-----------------------------------------------------------------------------
(* Where handlers can be *)

LEMMA StepSteps ==
  ASSUME ~Interruptible, TypeOK, StepsInv, [Next]_vars
  PROVE  StepsInv'
  <1> DEFINE Drafting == {"crl_commit", "ocsp_cache", "renew_commit"}
  <1>a. ASSUME NEW w \in Workers, \A v \in Workers \ {w} : worker'[v] = worker[v], worker'[w].pc \notin Drafting,
               worker'[w].pc \in LiftingPcs => worker'[w].op = "unhold"
        PROVE  StepsInv'
    BY <1>a DEF StepsInv, Lifting, LiftingPcs
  <1>b. ASSUME NEW w \in Workers, NEW pc, Goto(w, pc), pc \notin Drafting, pc \in LiftingPcs => Lifting(w)
        PROVE  StepsInv'
    BY <1>a, <1>b, GotoFrame DEF StepsInv
  <1>c. ASSUME NEW w \in Workers, Finish(w) PROVE StepsInv'
    BY <1>a, <1>c, FinishFrame, Handlers DEF LiftingPcs
  <1>d. ASSUME NEW w \in Workers, NEW pc, NEW op, NEW c, NEW s, Begin(w, Handler(pc, op, c, s)), pc \notin Drafting,
               pc \in LiftingPcs => op = "unhold"
        PROVE  StepsInv'
    <2>1. Handler(pc, op, c, s).pc = pc /\ Handler(pc, op, c, s).op = op
      BY DEF Handler
    <2> QED
      BY <1>a, <1>d, <2>1, BeginFrame
  <1>e. ASSUME UNCHANGED worker PROVE StepsInv'
    BY <1>e DEF StepsInv, Lifting
  <1>f. /\ {CrlStart, AfterPurge, "invalidate", "crl", "restore"} \cap LiftingPcs = {}
        /\ CrlStart \notin Drafting /\ AfterPurge \notin Drafting
    BY CrlStarts DEF CrlPcs, LiftingPcs
  <1>1. ASSUME NEW w \in Workers, Start(w) PROVE StepsInv'
    <2>1. ASSUME NEW c \in Certs, NEW reason \in {"certificateHold", "keyCompromise"},
                 RevokeCertificate(w, c, reason)
          PROVE  StepsInv'
      <3>2. \/ Begin(w, Handler(CrlStart, "revoke", c, row[c].serial))
            \/ Begin(w, Handler("invalidate", "revoke", c, row[c].serial))
        BY <2>1 DEF RevokeCertificate
      <3> QED
        BY <1>d, <1>f, <3>2
    <2>2. ASSUME NEW c \in Certs, RevocationNotCommitted(w, c) PROVE StepsInv'
      BY <1>d, <1>f, <2>2 DEF RevocationNotCommitted
    <2>3. ASSUME NEW c \in Certs, UnholdCertificate(w, c) PROVE StepsInv'
      <3>2. \/ Begin(w, Handler("delta", "unhold", c, row[c].serial))
            \/ Begin(w, Handler(CrlStart, "unhold", c, row[c].serial))
            \/ Begin(w, Handler("restore_hold", "unhold", c, row[c].serial))
        BY <2>3 DEF UnholdCertificate
      <3> QED
        BY <1>d, <1>f, <3>2
    <2>4. ASSUME NEW c \in Certs, RenewCertificate(w, c) PROVE StepsInv'
      <3>1. Begin(w, Handler("invalidate", "renew", c, row[c].serial))
        BY <2>4 DEF RenewCertificate
      <3> QED
        BY <1>d, <1>f, <3>1
    <2>5. ASSUME NEW s \in Serials, OcspRequest(w, s) PROVE StepsInv'
      BY <1>e, <2>5 DEF OcspRequest
    <2>6. CASE PublishCrl(w)
      BY <1>d, <1>f, <2>6 DEF PublishCrl
    <2> QED
      BY <1>1, <2>1, <2>2, <2>3, <2>4, <2>5, <2>6 DEF Start
  <1>2. ASSUME NEW w \in Workers, AfterCrl(w) PROVE StepsInv'
    BY <1>b, <1>c, <1>f, <1>2 DEF AfterCrl
  <1>3. ASSUME NEW w \in Workers, GenerateCrl(w) PROVE StepsInv'
    BY <1>2, <1>3 DEF GenerateCrl
  <1>4. ASSUME NEW w \in Workers, EmitRemoveFromCrl(w)
        PROVE  StepsInv'
    BY <1>b, <1>4 DEF EmitRemoveFromCrl, At, Lifting
  <1>5. ASSUME NEW w \in Workers, Continue(w)
        PROVE  StepsInv'
    <2>1. ASSUME RestoreRevocationState(w) \/ RestoreHold(w) PROVE StepsInv'
      BY <1>c, <2>1 DEF RestoreRevocationState, RestoreHold
    <2>0. ASSUME NEW rows \in SUBSET Certs, Sweep(w, rows) PROVE StepsInv'
      <3>1. /\ worker'[w].pc \in {"crl", "delete"}
            /\ \A v \in Workers \ {w} : worker'[v] = worker[v]
        BY <2>0, SweepFrame DEF TypeOK
      <3> QED
        BY <1>a, <3>1 DEF LiftingPcs
    <2>2. ASSUME PurgeStaleRevokedSerials(w) \/ PurgeExpiredRevokedCertificates(w)
          PROVE  StepsInv'
      <3>1. ExpiredRevokedRows \in SUBSET Certs
        BY DEF ExpiredRevokedRows
      <3> QED
        BY <1>b, <1>f, <2>0, <2>2, <3>1 DEF PurgeStaleRevokedSerials, PurgeExpiredRevokedCertificates
    <2>7. ASSUME DeleteListed(w) PROVE StepsInv'
      <3>1. \A c : worker[w].doomed \ {c} \in SUBSET Certs
        BY DEF TypeOK, Worker
      <3> QED
        BY <2>0, <2>7, <3>1 DEF DeleteListed
    <2>3. CASE CrlNotGenerated(w)
      BY <1>2, <2>3 DEF CrlNotGenerated
    <2>4. CASE InvalidateCachedResponses(w)
      BY <1>b, <1>c, <1>f, <2>4 DEF InvalidateCachedResponses, AfterInvalidate
    <2>5. CASE ClearHold(w)
      <3>1. Lifting(w) /\ (Goto(w, CrlStart) \/ Finish(w) \/ Goto(w, "restore_hold"))
        BY <2>5 DEF ClearHold, At, Lifting
      <3> QED
        BY <1>b, <1>c, <1>f, <3>1
    <2>6. ~CommitCrl(w) /\ ~CommitRenewal(w) /\ ~CacheResponse(w)
      BY DEF CommitCrl, CommitRenewal, CacheResponse, At, StepsInv
    <2> QED
      BY <1>3, <1>4, <1>5, <2>1, <2>2, <2>3, <2>4, <2>5, <2>6, <2>7 DEF Continue
  <1>6. CASE Crash
    BY <1>6, Handlers DEF Crash, StepsInv, Lifting
  <1>7. CASE \/ UNCHANGED vars \/ PublishDelta
             \/ \E c \in Certs : CreateCertificate(c) \/ DeleteCertificate(c)
             \/ \E s \in Serials : Expire(s) \/ ResponseExpires(s)
    <2>1. UNCHANGED worker
      BY <1>7 DEF vars, PublishDelta, CreateCertificate, DeleteCertificate, Expire, ResponseExpires
    <2> QED
      BY <1>e, <2>1
  <1> QED
    BY <1>1, <1>5, <1>6, <1>7 DEF Next

LEMMA StepsAlways ==
  ASSUME ~Interruptible
  PROVE  Spec => []StepsInv
  <1>1. Init => StepsInv
    BY Handlers DEF Init, StepsInv, Lifting
  <1>2. TypeOK /\ StepsInv /\ [Next]_vars => StepsInv'
    BY StepSteps
  <1> QED
    BY <1>1, <1>2, TypeCorrect, PTL DEF Spec

-----------------------------------------------------------------------------
(* What the responder reads after a step *)

LEMMA SameAnswer ==
  ASSUME NEW s \in Serials,
         \A c \in Certs : row'[c].serial = s <=> row[c].serial = s,
         \A c \in Certs : row[c].serial = s => row'[c].revoked = row[c].revoked,
         record'[s].reason = record[s].reason
  PROVE  StatusForSerial(s)' = StatusForSerial(s)
  BY DEF StatusForSerial, Recorded

\* Where the answer about a serial is read, as Reads says of its abstract status.
LEMMA AnswerRead ==
  ASSUME TypeOK, TiedInv, NEW s \in Serials
  PROVE  /\ \A c \in Certs : row[c].serial = s =>
              StatusForSerial(s) = IF row[c].revoked THEN "revoked" ELSE "good"
         /\ (\A c \in Certs : row[c].serial # s) =>
              StatusForSerial(s) = IF Recorded(s) THEN "revoked" ELSE "unknown"
         /\ s > issued => StatusForSerial(s) = "unknown"
  <1>1. s # NoSerial /\ s \in Nat /\ issued \in Nat
    BY RevocationAssumption DEF Serials, NoSerial, TypeOK
  <1>2. ASSUME NEW c \in Certs, row[c].serial = s
        PROVE  StatusForSerial(s) = IF row[c].revoked THEN "revoked" ELSE "good"
    <2>1. \A d \in Certs : row[d].serial = s => d = c
      BY <1>1, <1>2 DEF TiedInv, SerialsDistinct, Present
    <2> QED
      BY <1>2, <2>1 DEF StatusForSerial
  <1>3. (\A c \in Certs : row[c].serial # s) =>
           StatusForSerial(s) = IF Recorded(s) THEN "revoked" ELSE "unknown"
    BY DEF StatusForSerial
  <1>4. s > issued => (\A c \in Certs : row[c].serial # s) /\ ~Recorded(s)
    <2>1. \A c \in Certs : row[c].serial <= issued /\ row[c].serial \in Nat
      BY RevocationAssumption DEF TiedInv, SerialsIssued, TypeOK, Row
    <2> QED
      BY <1>1, <2>1 DEF TiedInv, RecordsIssued
  <1> QED
    BY <1>2, <1>3, <1>4

\* The columns and the record of one serial change.
LEMMA MarkAnswer ==
  ASSUME TypeOK, TiedInv, NEW c \in Certs, Present(c), NEW b, NEW r, Mark(c, b, r),
         \A x \in Serials \ {row[c].serial} : record'[x] = record[x],
         NEW s \in Serials \ {row[c].serial}
  PROVE  StatusForSerial(s)' = StatusForSerial(s)
  <1>1. \A d \in Certs : row'[d].serial = row[d].serial /\ (d # c => row'[d] = row[d])
    BY DEF Mark, TypeOK
  <1> QED
    BY <1>1, SameAnswer

\* A staged hold is still a revocation.
LEMMA StageAnswer ==
  ASSUME TypeOK, NEW c \in Certs, row[c].revoked, NEW r, Mark(c, TRUE, r), UNCHANGED record,
         NEW s \in Serials
  PROVE  StatusForSerial(s)' = StatusForSerial(s)
  <1>1. /\ \A d \in Certs : row'[d].serial = row[d].serial /\ (d # c => row'[d] = row[d])
        /\ row'[c].revoked = TRUE
    BY DEF Mark, TypeOK
  <1>2. row[c].revoked = TRUE
    BY DEF TypeOK, Row
  <1> QED
    BY <1>1, <1>2, SameAnswer

\* A row goes: revoked serials stay revoked by their record, others are unknown.
LEMMA RemoveRowAnswer ==
  ASSUME TypeOK, TiedInv, TiedInv', TypeOK', NEW c \in Certs, RemoveRow(c), NEW s \in Serials
  PROVE  /\ StatusForSerial(s)' \in {StatusForSerial(s), "unknown"}
         /\ s # row[c].serial \/ (row[c].revoked /\ s \notin expired) =>
              StatusForSerial(s)' = StatusForSerial(s)
  <1>0. s # NoSerial
    BY DEF Serials, NoSerial
  <1>1. row'[c].serial = NoSerial /\ \A d \in Certs \ {c} : row'[d] = row[d]
    BY DEF RemoveRow, NoRow, TypeOK
  <1>2. record'[s].reason = record[s].reason
    BY DEF RemoveRow
  <1>3. CASE s # row[c].serial
    BY <1>0, <1>1, <1>2, <1>3, SameAnswer
  <1>4. CASE s = row[c].serial
    <2>1. \A d \in Certs : row'[d].serial # s
      BY <1>0, <1>1, <1>4 DEF TiedInv, SerialsDistinct, Present
    <2>2. StatusForSerial(s)' = IF Recorded(s) THEN "revoked" ELSE "unknown"
      BY <1>2, <2>1 DEF StatusForSerial, Recorded
    <2>3. StatusForSerial(s) = IF row[c].revoked THEN "revoked" ELSE "good"
      BY <1>4, AnswerRead
    <2>4. /\ ~row[c].revoked => ~Recorded(s)
          /\ row[c].revoked /\ s \notin expired => Recorded(s)
      BY <1>0, <1>4 DEF TiedInv, RowsMatchRecords, Present
    <2> QED
      BY <1>4, <2>2, <2>3, <2>4
  <1> QED
    BY <1>3, <1>4

\* A renewal gives the row a serial that is good and leaves all but two alone.
LEMMA TakeSerialAnswer ==
  ASSUME TypeOK, TiedInv, NEW c \in Certs, Present(c), ~row[c].revoked, TakeSerial(c, row[c].serial),
         NEW s \in Serials \ {row[c].serial}
  PROVE  StatusForSerial(s)' = IF s = issued + 1 THEN "good" ELSE StatusForSerial(s)
  <1>0. issued \in Nat /\ s \in Nat
    BY RevocationAssumption DEF TypeOK, Serials
  <1>1. /\ row'[c].serial = issued + 1 /\ row'[c].revoked = row[c].revoked
        /\ \A d \in Certs \ {c} : row'[d] = row[d]
    BY TakeSerialRow
  <1>2. record'[s] = record[s]
    BY DEF TakeSerial, TypeOK
  <1>3. CASE s # issued + 1
    BY <1>1, <1>2, <1>3, SameAnswer
  <1>4. CASE s = issued + 1
    <2>1. \A d \in Certs : row[d].serial # s
      BY <1>0, <1>4 DEF TiedInv, SerialsIssued, TypeOK, Row
    <2>2. \A d \in Certs : row'[d].serial = s => d = c
      BY <1>1, <2>1
    <2> QED
      BY <1>1, <1>4, <2>2 DEF StatusForSerial
  <1> QED
    BY <1>3, <1>4

LEMMA CreateAnswer ==
  ASSUME TypeOK, TiedInv, NEW c \in Certs, CreateCertificate(c), NEW s \in Serials
  PROVE  StatusForSerial(s)' = IF s = issued + 1 THEN "good" ELSE StatusForSerial(s)
  <1>0. issued \in Nat /\ s \in Nat /\ s # NoSerial
    BY RevocationAssumption DEF TypeOK, Serials, NoSerial
  <1>1. /\ row'[c].serial = issued + 1 /\ row'[c].revoked = FALSE /\ row[c].serial = NoSerial
        /\ \A d \in Certs \ {c} : row'[d] = row[d]
    BY DEF CreateCertificate, TypeOK, TiedInv, UnusedAbsent, Present
  <1>2. record' = record
    BY DEF CreateCertificate
  <1>3. CASE s # issued + 1
    BY <1>0, <1>1, <1>2, <1>3, SameAnswer
  <1>4. CASE s = issued + 1
    <2>1. \A d \in Certs : row[d].serial # s
      BY <1>0, <1>4 DEF TiedInv, SerialsIssued, TypeOK, Row
    <2>2. \A d \in Certs : row'[d].serial = s => d = c
      BY <1>1, <2>1
    <2> QED
      BY <1>1, <1>4, <2>2 DEF StatusForSerial
  <1> QED
    BY <1>3, <1>4

LEMMA PurgeAnswer ==
  ASSUME TypeOK, NEW w \in Workers, PurgeStaleRevokedSerials(w), NEW s \in Serials
  PROVE  StatusForSerial(s)' \in {StatusForSerial(s), "unknown"}
  <1>1. row' = row /\ (record'[s] = record[s] \/ record'[s] = NoRecord)
    BY DEF PurgeStaleRevokedSerials
  <1>2. NoRecord.reason = "none"
    BY DEF NoRecord
  <1> QED
    BY <1>1, <1>2 DEF StatusForSerial, Recorded

-----------------------------------------------------------------------------
(* The cached responses *)

\* Handlers are not overtaken while they sign, nothing fails and the process does not die.
Undisturbed == ~Interruptible /\ ~EffectsFail /\ ~CommitFails /\ ~Crashes

\* Whoever had answers to clear still has.
ClearingKept == \A v \in Workers, s \in Serials : ClearingOwed(v, s) => ClearingOwed(v, s)'

LEMMA ClearingFrame ==
  ASSUME NEW w \in Workers, worker[w].pc \notin CrlPcs \cup {"invalidate"},
         \A v \in Workers \ {w} : worker'[v] = worker[v]
  PROVE  ClearingKept
  BY DEF ClearingKept, ClearingOwed

LEMMA ClearingMoves ==
  ASSUME TypeOK, NEW w \in Workers, worker[w].pc \in CrlPcs, NEW pc \in CrlPcs, Goto(w, pc)
  PROVE  ClearingKept
  <1>1. /\ worker'[w].pc = pc
        /\ worker'[w].op = worker[w].op /\ worker'[w].serial = worker[w].serial
        /\ \A v \in Workers \ {w} : worker'[v] = worker[v]
    BY GotoFrame
  <1>2. worker[w].pc # "invalidate"
    BY DEF CrlPcs
  <1> QED
    BY <1>1, <1>2 DEF ClearingKept, ClearingOwed

LEMMA ClearingSweeps ==
  ASSUME TypeOK, NEW w \in Workers, worker[w].pc \in CrlPcs, NEW rows \in SUBSET Certs, Sweep(w, rows)
  PROVE  ClearingKept
  <1>1. /\ worker'[w].pc \in CrlPcs
        /\ worker'[w].op = worker[w].op /\ worker'[w].serial = worker[w].serial
        /\ \A v \in Workers \ {w} : worker'[v] = worker[v]
    BY SweepFrame DEF TypeOK, CrlPcs
  <1>2. worker[w].pc # "invalidate"
    BY DEF CrlPcs
  <1> QED
    BY <1>1, <1>2 DEF ClearingKept, ClearingOwed

\* The cache stays, and an answer that is wrong afterwards was wrong before or is being cleared.
LEMMA CacheKept ==
  ASSUME TypeOK, TypeOK', CacheInv, UNCHANGED cache, issued <= issued',
         \A s \in Serials :
            \/ \E w \in Workers : ClearingOwed(w, s)'
            \/ /\ \A v \in Workers : ClearingOwed(v, s) => ClearingOwed(v, s)'
               /\ \/ StatusForSerial(s)' \in {StatusForSerial(s), "unknown"}
                  \/ s > issued /\ StatusForSerial(s)' = "good"
  PROVE  CacheInv'
  <1> SUFFICES ASSUME NEW s \in Serials
               PROVE  /\ s > issued' => cache'[s] # "revoked"
                      /\ CacheWrong(s)' => \E w \in Workers : ClearingOwed(w, s)'
    BY DEF CacheInv
  <1>0. s \in Nat /\ issued \in Nat /\ issued' \in Nat
    BY RevocationAssumption DEF TypeOK, Serials
  <1>1. s > issued' => cache'[s] # "revoked"
    BY <1>0 DEF CacheInv
  <1>2. ASSUME CacheWrong(s)', ~\E w \in Workers : ClearingOwed(w, s)'
        PROVE  FALSE
    <2>1. StatusForSerial(s)' # "unknown"
      BY <1>2 DEF CacheWrong
    <2>2. ~(s > issued /\ StatusForSerial(s)' = "good")
      BY <1>2 DEF CacheInv, CacheWrong
    <2>3. StatusForSerial(s)' = StatusForSerial(s) /\ \A v \in Workers : ~ClearingOwed(v, s)
      BY <1>2, <2>1, <2>2
    <2>4. CacheWrong(s)
      BY <1>2, <2>3 DEF CacheWrong
    <2> QED
      BY <2>3, <2>4 DEF CacheInv
  <1> QED
    BY <1>1, <1>2

\* Neither the tables nor the cache change.
LEMMA CacheQuiet ==
  ASSUME TypeOK, TypeOK', CacheInv, UNCHANGED <<row, record, issued, cache>>, ClearingKept
  PROVE  CacheInv'
  <1>1. \A s \in Serials : StatusForSerial(s)' = StatusForSerial(s)
    BY DEF StatusForSerial, Recorded
  <1>2. issued <= issued'
    BY RevocationAssumption DEF TypeOK
  <1> QED
    BY <1>1, <1>2, CacheKept DEF ClearingKept

\* Answers are cleared, or one is cached as the tables give it.
LEMMA CacheWritten ==
  ASSUME TypeOK, TiedInv, CacheInv, UNCHANGED <<row, record, issued>>, NEW t \in Serials,
         cache'[t] \in {"none", StatusForSerial(t)},
         \A s \in Serials \ {t} : cache'[s] = cache[s],
         \A s \in Serials \ {t}, v \in Workers : ClearingOwed(v, s) => ClearingOwed(v, s)'
  PROVE  CacheInv'
  <1> SUFFICES ASSUME NEW s \in Serials
               PROVE  /\ s > issued' => cache'[s] # "revoked"
                      /\ CacheWrong(s)' => \E w \in Workers : ClearingOwed(w, s)'
    BY DEF CacheInv
  <1>1. StatusForSerial(s)' = StatusForSerial(s)
    BY DEF StatusForSerial, Recorded
  <1>2. CASE s = t
    <2>1. s > issued => StatusForSerial(s) = "unknown"
      BY AnswerRead
    <2>2. ~CacheWrong(s)'
      BY <1>1, <1>2 DEF CacheWrong
    <2> QED
      BY <1>2, <2>1, <2>2
  <1>3. CASE s # t
    BY <1>1, <1>3 DEF CacheInv, CacheWrong
  <1> QED
    BY <1>2, <1>3

LEMMA StepCache ==
  ASSUME Undisturbed, TypeOK, TypeOK', TiedInv, TiedInv', StepsInv, CacheInv, [Next]_vars
  PROVE  CacheInv'
  <1>0. issued \in Nat /\ issued' \in Nat
    BY RevocationAssumption DEF TypeOK
  <1>a. ASSUME UNCHANGED worker PROVE ClearingKept
    BY <1>a DEF ClearingKept, ClearingOwed
  <1>c. ASSUME NEW c \in Certs, Present(c) PROVE \E t \in Serials : t = row[c].serial
    BY <1>c, RevocationAssumption DEF Present, TypeOK, Row, Serials, NoSerial
  <1>b. ASSUME NEW w \in Workers, Free(w) PROVE worker[w].pc \notin CrlPcs \cup {"invalidate"}
    BY <1>b DEF Free, CrlPcs
  <1>1. ASSUME NEW c \in Certs, CreateCertificate(c) PROVE CacheInv'
    <2>1. \A s \in Serials : StatusForSerial(s)' = IF s = issued + 1 THEN "good" ELSE StatusForSerial(s)
      BY <1>1, CreateAnswer
    <2>2. ClearingKept /\ UNCHANGED cache /\ issued' = issued + 1
      BY <1>1, <1>a DEF CreateCertificate
    <2>3. \A s \in Serials : \/ StatusForSerial(s)' \in {StatusForSerial(s), "unknown"}
                             \/ s > issued /\ StatusForSerial(s)' = "good"
      BY <1>0, <2>1
    <2> QED
      BY <1>0, <2>2, <2>3, CacheKept DEF ClearingKept
  <1>2. ASSUME NEW c \in Certs, RemoveRow(c), ClearingKept, UNCHANGED <<issued, cache>> PROVE CacheInv'
    <2>1. \A s \in Serials : StatusForSerial(s)' \in {StatusForSerial(s), "unknown"}
      BY <1>2, RemoveRowAnswer
    <2> QED
      BY <1>0, <1>2, <2>1, CacheKept DEF ClearingKept
  <1>3. ASSUME NEW c \in Certs, DeleteCertificate(c) PROVE CacheInv'
    BY <1>2, <1>3, <1>a DEF DeleteCertificate
  <1>4. ASSUME NEW s \in Serials, Expire(s) PROVE CacheInv'
    BY <1>4, <1>a, CacheQuiet DEF Expire
  <1>5. ASSUME NEW s \in Serials, ResponseExpires(s) PROVE CacheInv'
    <2>1. ClearingKept /\ UNCHANGED <<row, record, issued>>
      BY <1>5, <1>a DEF ResponseExpires
    <2>2. cache'[s] = "none" /\ \A t \in Serials \ {s} : cache'[t] = cache[t]
      BY <1>5 DEF ResponseExpires, TypeOK
    <2> QED
      BY <2>1, <2>2, CacheWritten DEF ClearingKept
  \* a handler begins by changing the status of its serial
  <1>6. ASSUME NEW w \in Workers, NEW c \in Certs, Present(c), NEW b, NEW r, Mark(c, b, r),
               NEW t \in Serials, t = row[c].serial, \A x \in Serials \ {t} : record'[x] = record[x],
               UNCHANGED <<issued, cache>>, ClearingKept, ClearingOwed(w, t)'
        PROVE  CacheInv'
    <2>1. \A s \in Serials \ {t} : StatusForSerial(s)' = StatusForSerial(s)
      BY <1>6, MarkAnswer
    <2> QED
      BY <1>0, <1>6, <2>1, CacheKept DEF ClearingKept
  <1>7. ASSUME NEW w \in Workers, NEW c \in Certs, NEW reason \in {"certificateHold", "keyCompromise"},
               RevokeCertificate(w, c, reason)
        PROVE  CacheInv'
    <2> DEFINE pc == IF Cdp THEN CrlStart ELSE "invalidate"
    <2>0. PICK t \in Serials : t = row[c].serial
      BY <1>7, <1>c DEF RevokeCertificate
    <2>1. Begin(w, Handler(pc, "revoke", c, row[c].serial)) /\ Free(w)
      BY <1>7 DEF RevokeCertificate
    <2>2. /\ worker'[w].pc = pc /\ worker'[w].op = "revoke" /\ worker'[w].serial = row[c].serial
          /\ \A v \in Workers \ {w} : worker'[v] = worker[v]
      BY <2>1, BeginFrame, Handlers
    <2>3. ClearingKept
      BY <1>b, <2>1, <2>2, ClearingFrame
    <2>4. ClearingOwed(w, t)'
      BY <2>0, <2>2, CrlStarts DEF ClearingOwed
    <2>5. \A x \in Serials \ {t} : record'[x] = record[x]
      BY <1>7, <2>0 DEF RevokeCertificate, TypeOK
    <2> QED
      BY <1>6, <1>7, <2>0, <2>3, <2>4, <2>5 DEF RevokeCertificate
  <1>8. ASSUME NEW w \in Workers, NEW c \in Certs, UnholdCertificate(w, c) PROVE CacheInv'
    <2>1. Free(w) /\ Present(c) /\ row[c].revoked /\ UNCHANGED <<issued, cache>>
      BY <1>8 DEF UnholdCertificate
    <2>0. PICK t \in Serials : t = row[c].serial
      BY <1>c, <2>1
    <2>2. CASE Delta /\ Cdp
      <3>1. /\ Mark(c, TRUE, "removeFromCRL") /\ UNCHANGED record
            /\ Begin(w, Handler("delta", "unhold", c, row[c].serial))
        BY <1>8, <2>2 DEF UnholdCertificate
      <3>2. \A s \in Serials : StatusForSerial(s)' = StatusForSerial(s)
        BY <2>1, <3>1, StageAnswer
      <3>3. ClearingKept
        BY <1>b, <2>1, <3>1, BeginFrame, ClearingFrame
      <3> QED
        BY <1>0, <2>1, <3>2, <3>3, CacheKept DEF ClearingKept
    <2>3. CASE ~(Delta /\ Cdp)
      <3>1. /\ Mark(c, FALSE, "none")
            /\ record' = [record EXCEPT ![row[c].serial] = NoRecord]
            /\ Begin(w, Handler(CrlStart, "unhold", c, row[c].serial))
        BY <1>8, <2>3 DEF UnholdCertificate, Undisturbed
      <3>2. /\ worker'[w].pc = CrlStart /\ worker'[w].op = "unhold" /\ worker'[w].serial = row[c].serial
            /\ \A v \in Workers \ {w} : worker'[v] = worker[v]
        BY <3>1, BeginFrame, Handlers
      <3>3. ClearingKept
        BY <1>b, <2>1, <3>2, ClearingFrame
      <3>4. ClearingOwed(w, t)'
        BY <2>0, <3>2, CrlStarts DEF ClearingOwed
      <3>5. \A x \in Serials \ {t} : record'[x] = record[x]
        BY <2>0, <3>1 DEF TypeOK
      <3> QED
        BY <1>6, <2>0, <2>1, <3>1, <3>3, <3>4, <3>5
    <2> QED
      BY <2>2, <2>3
  <1>9. ASSUME NEW w \in Workers, NEW c \in Certs, RenewCertificate(w, c) PROVE CacheInv'
    <2>1. /\ Free(w) /\ Present(c) /\ ~row[c].revoked /\ UNCHANGED cache
          /\ TakeSerial(c, row[c].serial)
          /\ Begin(w, Handler("invalidate", "renew", c, row[c].serial))
      BY <1>9 DEF RenewCertificate, Undisturbed
    <2>2. /\ worker'[w].pc = "invalidate" /\ worker'[w].serial = row[c].serial
          /\ \A v \in Workers \ {w} : worker'[v] = worker[v]
      BY <2>1, BeginFrame, Handlers
    <2>0. PICK t \in Serials : t = row[c].serial
      BY <1>c, <2>1
    <2>3. ClearingKept
      BY <1>b, <2>1, <2>2, ClearingFrame
    <2>7. ClearingOwed(w, t)'
      BY <2>0, <2>2 DEF ClearingOwed
    <2>4. \A s \in Serials \ {row[c].serial} :
             StatusForSerial(s)' = IF s = issued + 1 THEN "good" ELSE StatusForSerial(s)
      BY <2>1, TakeSerialAnswer
    <2>5. issued' = issued + 1
      BY <2>1 DEF TakeSerial
    <2>6. \A s \in Serials :
             \/ \E v \in Workers : ClearingOwed(v, s)'
             \/ StatusForSerial(s)' \in {StatusForSerial(s), "unknown"}
             \/ s > issued /\ StatusForSerial(s)' = "good"
      <3> SUFFICES ASSUME NEW s \in Serials, s # t
                   PROVE  \/ StatusForSerial(s)' \in {StatusForSerial(s), "unknown"}
                          \/ s > issued /\ StatusForSerial(s)' = "good"
        BY <2>7
      <3> QED
        BY <1>0, <2>0, <2>4
    <2> QED
      BY <1>0, <2>1, <2>3, <2>5, <2>6, CacheKept DEF ClearingKept
  <1>10. ASSUME NEW w \in Workers, NEW s \in Serials, OcspRequest(w, s) PROVE CacheInv'
    <2>1. UNCHANGED <<row, record, issued, worker>> /\ cache' = [cache EXCEPT ![s] = StatusForSerial(s)]
      BY <1>10 DEF OcspRequest, Undisturbed
    <2>2. cache'[s] = StatusForSerial(s) /\ \A t \in Serials \ {s} : cache'[t] = cache[t]
      BY <2>1 DEF TypeOK
    <2>3. ClearingKept
      BY <1>a, <2>1
    <2> QED
      BY <2>1, <2>2, <2>3, CacheWritten DEF ClearingKept
  <1>11. ASSUME NEW w \in Workers, PublishCrl(w) PROVE CacheInv'
    <2>1. ClearingKept
      BY <1>11, <1>b, BeginFrame, ClearingFrame DEF PublishCrl
    <2> QED
      BY <1>11, <2>1, CacheQuiet DEF PublishCrl
  <1>12. ASSUME NEW w \in Workers, PurgeStaleRevokedSerials(w) PROVE CacheInv'
    <2>1. ClearingKept
      BY <1>12, CrlStarts, ClearingMoves DEF PurgeStaleRevokedSerials, At, CrlPcs
    <2>2. \A s \in Serials : StatusForSerial(s)' \in {StatusForSerial(s), "unknown"}
      BY <1>12, PurgeAnswer
    <2> QED
      BY <1>0, <1>12, <2>1, <2>2, CacheKept DEF ClearingKept, PurgeStaleRevokedSerials
  <1>13. ASSUME NEW w \in Workers, PurgeExpiredRevokedCertificates(w) PROVE CacheInv'
    <2>1. Sweep(w, ExpiredRevokedRows) /\ worker[w].pc \in CrlPcs /\ UNCHANGED <<row, record, issued, cache>>
      BY <1>13 DEF PurgeExpiredRevokedCertificates, Undisturbed, At, CrlPcs
    <2>2. ExpiredRevokedRows \in SUBSET Certs
      BY DEF ExpiredRevokedRows
    <2> QED
      BY <2>1, <2>2, ClearingSweeps, CacheQuiet
  <1>22. ASSUME NEW w \in Workers, DeleteListed(w) PROVE CacheInv'
    <2>1. PICK c \in worker[w].doomed :
             Sweep(w, worker[w].doomed \ {c}) /\ (RemoveRow(c) \/ UNCHANGED <<row, record>>)
      BY <1>22 DEF DeleteListed
    <2>2. c \in Certs /\ worker[w].doomed \ {c} \in SUBSET Certs
      BY DEF TypeOK, Worker
    <2>3. worker[w].pc \in CrlPcs /\ UNCHANGED <<issued, cache>>
      BY <1>22 DEF DeleteListed, At, CrlPcs
    <2>4. ClearingKept
      BY <2>1, <2>2, <2>3, ClearingSweeps
    <2> QED
      BY <1>2, <2>1, <2>2, <2>3, <2>4, CacheQuiet
  <1>14. ASSUME NEW w \in Workers, GenerateCrl(w) PROVE CacheInv'
    <2>1. AfterCrl(w) /\ worker[w].pc = "crl"
      BY <1>14 DEF GenerateCrl, Undisturbed, At
    <2>2. CASE worker[w].op \in {"revoke", "unhold"}
      <3>1. Goto(w, "invalidate")
        BY <2>1, <2>2 DEF AfterCrl
      <3>2. ClearingKept
        BY <2>2, <3>1, GotoFrame DEF ClearingKept, ClearingOwed
      <3> QED
        BY <1>14, <3>2, CacheQuiet DEF GenerateCrl
    <2>3. CASE worker[w].op \notin {"revoke", "unhold"}
      <3>1. Finish(w)
        BY <2>1, <2>3 DEF AfterCrl
      <3>2. ClearingKept
        BY <2>1, <2>3, <3>1, FinishFrame DEF ClearingKept, ClearingOwed
      <3> QED
        BY <1>14, <3>2, CacheQuiet DEF GenerateCrl
    <2> QED
      BY <2>2, <2>3
  <1>15. ASSUME NEW w \in Workers, InvalidateCachedResponses(w) PROVE CacheInv'
    <2>1. /\ UNCHANGED <<row, record, issued>> /\ AfterInvalidate(w)
          /\ cache' = [cache EXCEPT ![worker[w].serial] = "none"]
      BY <1>15 DEF InvalidateCachedResponses, Undisturbed
    <2>2. \A v \in Workers \ {w} : worker'[v] = worker[v]
      BY <2>1, GotoFrame, FinishFrame DEF AfterInvalidate
    <2>3. \A s \in Serials \ {worker[w].serial}, v \in Workers : ClearingOwed(v, s) => ClearingOwed(v, s)'
      BY <2>2 DEF ClearingOwed
    <2>4. CASE worker[w].serial \in Serials
      <3>1. cache'[worker[w].serial] = "none" /\ \A s \in Serials \ {worker[w].serial} : cache'[s] = cache[s]
        BY <2>1, <2>4 DEF TypeOK
      <3> QED
        BY <2>1, <2>3, <2>4, <3>1, CacheWritten
    <2>5. CASE worker[w].serial \notin Serials
      <3>1. cache' = cache
        BY <2>1, <2>5 DEF TypeOK
      <3>2. ClearingKept
        BY <2>3, <2>5 DEF ClearingKept
      <3> QED
        BY <2>1, <3>1, <3>2, CacheQuiet
    <2> QED
      BY <2>4, <2>5
  <1>16. ASSUME NEW w \in Workers, EmitRemoveFromCrl(w) PROVE CacheInv'
    <2>1. ClearingKept
      BY <1>16, GotoFrame, ClearingFrame DEF EmitRemoveFromCrl, At, CrlPcs
    <2> QED
      BY <1>16, <2>1, CacheQuiet DEF EmitRemoveFromCrl
  <1>17. ASSUME NEW w \in Workers, ClearHold(w) PROVE CacheInv'
    <2> DEFINE c == worker[w].cert
    <2>1. worker[w].pc = "clear" /\ Lifting(w) /\ UNCHANGED <<issued, cache>>
      BY <1>17 DEF ClearHold, At, Lifting
    <2>2. c \in Certs /\ worker[w].op = "unhold"
      BY <2>1 DEF TiedInv, StagedHoldUntouched, StepsInv
    <2>3. CASE Present(c) /\ Mark(c, FALSE, "none") /\ Goto(w, CrlStart)
               /\ record' = [record EXCEPT ![worker[w].serial] = NoRecord]
      <3>1. worker[w].serial = row[c].serial
        BY <2>1, <2>3 DEF TiedInv, StagedHoldUntouched
      <3>2. /\ worker'[w].pc = CrlStart /\ worker'[w].op = "unhold" /\ worker'[w].serial = row[c].serial
            /\ \A v \in Workers \ {w} : worker'[v] = worker[v]
        BY <2>2, <2>3, <3>1, GotoFrame
      <3>0. PICK t \in Serials : t = row[c].serial
        BY <1>c, <2>2, <2>3
      <3>3. ClearingKept
        BY <2>1, <3>2, ClearingFrame DEF CrlPcs
      <3>4. ClearingOwed(w, t)'
        BY <3>0, <3>2, CrlStarts DEF ClearingOwed
      <3>5. \A x \in Serials \ {t} : record'[x] = record[x]
        BY <2>3, <3>0, <3>1 DEF TypeOK
      <3> HIDE DEF c
      <3> QED
        BY <1>6, <2>1, <2>2, <2>3, <3>0, <3>3, <3>4, <3>5
    <2>4. CASE Finish(w) /\ UNCHANGED <<row, record>>
      <3>1. ClearingKept
        BY <2>1, <2>4, FinishFrame, ClearingFrame DEF CrlPcs
      <3> QED
        BY <2>1, <2>4, <3>1, CacheQuiet
    <2> QED
      BY <1>17, <2>3, <2>4 DEF ClearHold, Undisturbed
  <1>18. ASSUME NEW w \in Workers, Start(w) PROVE CacheInv'
    <2>1. \A c \in Certs : ~RevocationNotCommitted(w, c)
      BY DEF RevocationNotCommitted, Undisturbed
    <2> QED
      BY <1>7, <1>8, <1>9, <1>10, <1>11, <1>18, <2>1 DEF Start
  <1>19. ASSUME NEW w \in Workers, Continue(w) PROVE CacheInv'
    <2>1. ~RestoreRevocationState(w) /\ ~RestoreHold(w)
      BY DEF RestoreRevocationState, RestoreHold, At, TiedInv, StepsTaken, Undisturbed
    <2>2. ~CommitCrl(w) /\ ~CommitRenewal(w) /\ ~CacheResponse(w) /\ ~CrlNotGenerated(w)
      BY DEF CommitCrl, CommitRenewal, CacheResponse, CrlNotGenerated, At, StepsInv, Undisturbed
    <2> QED
      BY <1>12, <1>13, <1>14, <1>15, <1>16, <1>17, <1>19, <1>22, <2>1, <2>2 DEF Continue
  <1>20. CASE UNCHANGED vars \/ PublishDelta
    BY <1>20, <1>a, CacheQuiet DEF vars, PublishDelta
  <1>21. ~Crash
    BY DEF Crash, Undisturbed
  <1> QED
    BY <1>1, <1>3, <1>4, <1>5, <1>18, <1>19, <1>20, <1>21 DEF Next

\* While handlers are not overtaken, do not fail and do not die, no cached OCSP response
\* contradicts the tables once they are done: invalidate_cached_responses runs last in a
\* revocation and an unhold and before the CRL in a renewal, with the serial the row had.
THEOREM CachedResponsesAgree ==
  ASSUME Undisturbed
  PROVE  Spec => []CacheCoherent
  <1>1. Init => CacheInv
    <2> SUFFICES ASSUME Init, NEW s \in Serials PROVE cache[s] = "none" /\ ~CacheWrong(s)
      BY DEF CacheInv
    <2>1. cache[s] = "none"
      BY DEF Init
    <2> QED
      BY <2>1 DEF CacheWrong
  <1>2. TypeOK /\ TypeOK' /\ TiedInv /\ TiedInv' /\ StepsInv /\ CacheInv /\ [Next]_vars => CacheInv'
    BY StepCache
  <1>3. CacheInv => CacheCoherent
    <2>1. ASSUME Quiescent PROVE \A w \in Workers, s \in Serials : ~ClearingOwed(w, s)
      BY <2>1 DEF Quiescent, Busy, ClearingOwed, CrlPcs
    <2> QED
      BY <2>1 DEF CacheInv, CacheCoherent, CacheWrong
  <1>4. Spec => []TiedInv
    <2>1. NotOvertaken
      BY DEF Undisturbed, NotOvertaken
    <2> QED
      BY <2>1, StatusAlways, PTL
  <1>5. Spec => []StepsInv
    BY StepsAlways DEF Undisturbed
  <1> QED
    BY <1>1, <1>2, <1>3, <1>4, <1>5, TypeCorrect, PTL DEF Spec

-----------------------------------------------------------------------------
(* The served CRL *)

\* The CRL lists what the responder answers revoked.
LEMMA ListedAreRevoked ==
  ASSUME TypeOK, TiedInv, NEW s \in Serials
  PROVE  s \in GetRevokedCertificates <=> s \notin expired /\ StatusForSerial(s) = "revoked"
  <1>0. s # NoSerial
    BY DEF Serials, NoSerial
  <1>1. CASE \E c \in Certs : row[c].serial = s
    <2>1. PICK c \in Certs : row[c].serial = s
      BY <1>1
    <2>2. ~row[c].revoked => ~Recorded(s)
      BY <1>0, <2>1 DEF TiedInv, RowsMatchRecords, Present
    <2>3. \A d \in Certs : row[d].serial = s => d = c
      BY <1>0, <2>1 DEF TiedInv, SerialsDistinct, Present
    <2>4. s \in RevokedRows <=> s \notin expired /\ row[c].revoked
      BY <2>1, <2>3 DEF RevokedRows
    <2>5. StatusForSerial(s) = "revoked" <=> row[c].revoked
      BY <2>1, <2>3 DEF StatusForSerial
    <2> QED
      BY <2>2, <2>4, <2>5 DEF GetRevokedCertificates, FilterOrphanSerials
  <1>2. CASE ~\E c \in Certs : row[c].serial = s
    <2>1. StatusForSerial(s) = "revoked" <=> Recorded(s)
      BY <1>2 DEF StatusForSerial
    <2>2. s \notin RevokedRows
      BY <1>2 DEF RevokedRows
    <2>3. ~Lifted(s)
      BY <1>2 DEF Lifted, TypeOK, Record
    <2> QED
      BY <2>1, <2>2, <2>3 DEF GetRevokedCertificates, FilterOrphanSerials
  <1> QED
    BY <1>1, <1>2

CrlKnown == \A f \in crl.latest : f.number <= crl.number /\ \A s \in f.listed : s <= issued
CrlDue == \E w \in Workers : CrlOwed(w)

\* The CRL stays, and what it lists is still right, or another one is due.
LEMMA CrlKept ==
  ASSUME TypeOK, TypeOK', CrlInv, crl'.latest = crl.latest, crl.number <= crl'.number,
         issued <= issued', expired \subseteq expired',
         \/ CrlDue'
         \/ /\ CrlDue => CrlDue'
            /\ \A s \in Serials \ expired' :
                  \/ StatusForSerial(s)' = StatusForSerial(s)
                  \/ s > issued /\ StatusForSerial(s)' = "good"
  PROVE  CrlInv'
  <1>0. issued \in Nat /\ issued' \in Nat /\ crl.number \in Nat /\ crl'.number \in Nat
    BY RevocationAssumption DEF TypeOK
  <1>a. \A f \in crl.latest : f.number \in Nat /\ f.listed \subseteq Serials
    BY DEF TypeOK, FullCrl
  <1>b. Serials \subseteq Nat
    BY DEF Serials
  <1>1. CrlKnown'
    <2> SUFFICES ASSUME NEW f \in crl.latest
                 PROVE  f.number <= crl'.number /\ \A s \in f.listed : s <= issued'
      BY DEF CrlKnown
    <2>1. f.number <= crl.number /\ \A s \in f.listed : s <= issued
      BY DEF CrlInv
    <2>2. f.number \in Nat /\ \A s \in f.listed : s \in Nat
      BY <1>a, <1>b
    <2>3. f.number <= crl'.number
      BY <1>0, <2>1, <2>2
    <2>4. \A s \in f.listed : s <= issued'
      BY <1>0, <2>1, <2>2
    <2> QED
      BY <2>3, <2>4
  <1>2. ASSUME NEW s \in Serials \ expired', CrlWrong(s)', ~CrlDue' PROVE FALSE
    <2>1. ~CrlDue
      BY <1>2
    <2>2. CASE StatusForSerial(s)' = StatusForSerial(s)
      <3>1. CrlWrong(s)
        BY <1>2, <2>2 DEF CrlWrong
      <3> QED
        BY <2>1, <3>1 DEF CrlInv, CrlDue
    <2>3. CASE s > issued /\ StatusForSerial(s)' = "good"
      <3>1. PICK f \in crl.latest : s \in f.listed
        BY <1>2, <2>3 DEF CrlWrong
      <3>2. s <= issued
        BY <3>1 DEF CrlInv
      <3> QED
        BY <1>0, <1>b, <2>3, <3>2
    <2> QED
      BY <1>2, <2>2, <2>3
  <1> QED
    BY <1>1, <1>2 DEF CrlInv, CrlKnown, CrlDue

\* A CRL is generated: it is the only latest one and lists what is revoked.
LEMMA CrlReplaced ==
  ASSUME TypeOK, TiedInv, CrlInv, crl' = Published(NextCrl), UNCHANGED <<row, issued, record, expired>>
  PROVE  CrlInv'
  <1>0. crl.number \in Nat /\ issued \in Nat
    BY RevocationAssumption DEF TypeOK
  <1>1. \A g \in crl.latest : g.number \in Nat /\ g.number <= crl.number
    BY DEF TypeOK, FullCrl, CrlInv
  <1>2. NextCrl.number = crl.number + 1 /\ NextCrl.listed = GetRevokedCertificates
    BY DEF NextCrl
  <1>3. ~\E g \in crl.latest : g.number > NextCrl.number
    BY <1>0, <1>1, <1>2
  <1>4. {g \in crl.latest : g.number = NextCrl.number} = {}
    BY <1>0, <1>1, <1>2
  <1>5. crl'.latest = {NextCrl} /\ crl'.number = crl.number + 1
    BY <1>0, <1>2, <1>3, <1>4 DEF Published
  <1>6. GetRevokedCertificates \subseteq Serials
    BY DEF GetRevokedCertificates, RevokedRows, FilterOrphanSerials
  <1>7. \A s \in GetRevokedCertificates : s <= issued
    <2> SUFFICES ASSUME NEW s \in Serials, s \in GetRevokedCertificates PROVE s <= issued
      BY <1>6
    <2>1. StatusForSerial(s) = "revoked"
      BY ListedAreRevoked
    <2>2. s > issued => StatusForSerial(s) = "unknown"
      BY AnswerRead
    <2> QED
      BY <1>0, <2>1, <2>2 DEF Serials
  <1>8. ASSUME NEW s \in Serials \ expired PROVE ~CrlWrong(s)'
    <2>1. StatusForSerial(s)' = StatusForSerial(s)
      BY DEF StatusForSerial, Recorded
    <2>2. s \in GetRevokedCertificates <=> StatusForSerial(s) = "revoked"
      BY <1>8, ListedAreRevoked
    <2> QED
      BY <1>2, <1>5, <2>1, <2>2 DEF CrlWrong
  <1> QED
    BY <1>0, <1>2, <1>5, <1>7, <1>8 DEF CrlInv

\* A handler that owes no CRL moves on.
LEMMA CrlDueFrame ==
  ASSUME NEW w \in Workers, ~CrlOwed(w), \A v \in Workers \ {w} : worker'[v] = worker[v]
  PROVE  CrlDue => CrlDue'
  BY DEF CrlDue, CrlOwed

LEMMA StepCrl ==
  ASSUME Undisturbed, Cdp, TypeOK, TypeOK', TiedInv, TiedInv', StepsInv, CrlInv, [Next]_vars
  PROVE  CrlInv'
  <1>0. issued \in Nat /\ issued' \in Nat /\ crl.number \in Nat
    BY RevocationAssumption DEF TypeOK
  <1>a. ASSUME UNCHANGED worker PROVE CrlDue => CrlDue'
    BY <1>a DEF CrlDue, CrlOwed
  <1>b. ASSUME NEW w \in Workers, Free(w) PROVE ~CrlOwed(w)
    BY <1>b DEF Free, CrlOwed, CrlPcs
  \* a CRL becomes or stays due
  <1>c. ASSUME NEW w \in Workers, CrlOwed(w)', UNCHANGED <<crl, expired>>, issued <= issued' PROVE CrlInv'
    <2>1. CrlDue'
      BY <1>c DEF CrlDue
    <2> QED
      BY <1>0, <1>c, <2>1, CrlKept
  \* nothing the CRL depends on changes
  <1>d. ASSUME UNCHANGED <<row, record, issued, crl>>, expired \subseteq expired', CrlDue => CrlDue'
        PROVE  CrlInv'
    <2>1. \A s \in Serials : StatusForSerial(s)' = StatusForSerial(s)
      BY <1>d DEF StatusForSerial, Recorded
    <2> QED
      BY <1>0, <1>d, <2>1, CrlKept
  <1>1. ASSUME NEW c \in Certs, CreateCertificate(c) PROVE CrlInv'
    <2>1. \A s \in Serials : StatusForSerial(s)' = IF s = issued + 1 THEN "good" ELSE StatusForSerial(s)
      BY <1>1, CreateAnswer
    <2>2. (CrlDue => CrlDue') /\ UNCHANGED <<crl, expired>> /\ issued' = issued + 1
      BY <1>1, <1>a DEF CreateCertificate
    <2>3. \A s \in Serials : \/ StatusForSerial(s)' = StatusForSerial(s)
                             \/ s > issued /\ StatusForSerial(s)' = "good"
      BY <1>0, <2>1
    <2> QED
      BY <1>0, <2>2, <2>3, CrlKept
  <1>2. ASSUME NEW c \in Certs, DeleteCertificate(c) PROVE CrlInv'
    <2>1. /\ RemoveRow(c) /\ UNCHANGED <<issued, expired, crl, worker>>
          /\ row[c].revoked \/ row[c].serial \in expired
      BY <1>2 DEF DeleteCertificate, DeletionBlocked
    <2>2. \A s \in Serials \ expired : StatusForSerial(s)' = StatusForSerial(s)
      BY <2>1, RemoveRowAnswer
    <2> QED
      BY <1>0, <1>a, <2>1, <2>2, CrlKept
  <1>3. ASSUME NEW s \in Serials, Expire(s) PROVE CrlInv'
    BY <1>3, <1>a, <1>d DEF Expire
  <1>4. ASSUME NEW s \in Serials, ResponseExpires(s) PROVE CrlInv'
    BY <1>4, <1>a, <1>d DEF ResponseExpires
  <1>5. ASSUME NEW w \in Workers, NEW c \in Certs, NEW reason \in {"certificateHold", "keyCompromise"},
               RevokeCertificate(w, c, reason)
        PROVE  CrlInv'
    <2>1. Begin(w, Handler(CrlStart, "revoke", c, row[c].serial)) /\ UNCHANGED <<issued, expired, crl>>
      BY <1>5 DEF RevokeCertificate
    <2>2. worker'[w].pc = CrlStart
      BY <2>1, BeginFrame, Handlers
    <2>3. CrlOwed(w)'
      BY <2>2, CrlStarts DEF CrlOwed
    <2> QED
      BY <1>0, <1>c, <2>1, <2>3
  <1>6. ASSUME NEW w \in Workers, NEW c \in Certs, UnholdCertificate(w, c) PROVE CrlInv'
    <2>1. Free(w) /\ row[c].revoked /\ UNCHANGED <<issued, expired, crl>>
      BY <1>6 DEF UnholdCertificate
    <2>2. CASE Delta
      <3>1. /\ Mark(c, TRUE, "removeFromCRL") /\ UNCHANGED record
            /\ Begin(w, Handler("delta", "unhold", c, row[c].serial))
        BY <1>6, <2>2 DEF UnholdCertificate
      <3>2. \A s \in Serials : StatusForSerial(s)' = StatusForSerial(s)
        BY <2>1, <3>1, StageAnswer
      <3>3. \A v \in Workers \ {w} : worker'[v] = worker[v]
        BY <3>1, BeginFrame
      <3>4. CrlDue => CrlDue'
        BY <1>b, <2>1, <3>3, CrlDueFrame
      <3> QED
        BY <1>0, <2>1, <3>2, <3>4, CrlKept
    <2>3. CASE ~Delta
      <3>1. Begin(w, Handler(CrlStart, "unhold", c, row[c].serial))
        BY <1>6, <2>3 DEF UnholdCertificate, Undisturbed
      <3>2. worker'[w].pc = CrlStart
        BY <3>1, BeginFrame, Handlers
      <3>3. CrlOwed(w)'
        BY <3>2, CrlStarts DEF CrlOwed
      <3> QED
        BY <1>0, <1>c, <2>1, <3>3
    <2> QED
      BY <2>2, <2>3
  <1>7. ASSUME NEW w \in Workers, NEW c \in Certs, RenewCertificate(w, c) PROVE CrlInv'
    <2>1. /\ UNCHANGED <<expired, crl>> /\ TakeSerial(c, row[c].serial)
          /\ Begin(w, Handler("invalidate", "renew", c, row[c].serial))
      BY <1>7 DEF RenewCertificate, Undisturbed
    <2>2. worker'[w].pc = "invalidate" /\ worker'[w].op = "renew"
      BY <2>1, BeginFrame, Handlers
    <2>3. CrlOwed(w)'
      BY <2>2 DEF CrlOwed
    <2>4. issued <= issued'
      BY <1>0, <2>1 DEF TakeSerial
    <2> QED
      BY <1>c, <2>1, <2>3, <2>4
  <1>8. ASSUME NEW w \in Workers, NEW s \in Serials, OcspRequest(w, s) PROVE CrlInv'
    BY <1>8, <1>a, <1>d DEF OcspRequest, Undisturbed
  <1>9. ASSUME NEW w \in Workers, PublishCrl(w) PROVE CrlInv'
    <2>1. Begin(w, Handler(CrlStart, "publish", NoCert, NoSerial)) /\ UNCHANGED <<issued, expired, crl>>
      BY <1>9 DEF PublishCrl
    <2>2. worker'[w].pc = CrlStart
      BY <2>1, BeginFrame, Handlers
    <2>3. CrlOwed(w)'
      BY <2>2, CrlStarts DEF CrlOwed
    <2> QED
      BY <1>0, <1>c, <2>1, <2>3
  <1>10. ASSUME NEW w \in Workers, PurgeStaleRevokedSerials(w) PROVE CrlInv'
    <2>1. Goto(w, AfterPurge) /\ UNCHANGED <<issued, expired, crl>>
      BY <1>10 DEF PurgeStaleRevokedSerials
    <2>2. CrlOwed(w)'
      BY <2>1, GotoFrame, CrlStarts DEF CrlOwed
    <2> QED
      BY <1>0, <1>c, <2>1, <2>2
  <1>11. ASSUME NEW w \in Workers, PurgeExpiredRevokedCertificates(w) PROVE CrlInv'
    <2>1. UNCHANGED <<issued, expired, crl>> /\ Sweep(w, ExpiredRevokedRows)
      BY <1>11 DEF PurgeExpiredRevokedCertificates, Undisturbed
    <2>2. ExpiredRevokedRows \in SUBSET Certs
      BY DEF ExpiredRevokedRows
    <2>3. CrlOwed(w)'
      BY <2>1, <2>2, SweepFrame DEF CrlOwed, CrlPcs, TypeOK
    <2> QED
      BY <1>0, <1>c, <2>1, <2>3
  <1>20. ASSUME NEW w \in Workers, DeleteListed(w) PROVE CrlInv'
    <2>1. UNCHANGED <<issued, expired, crl>> /\ \E c : Sweep(w, worker[w].doomed \ {c})
      BY <1>20 DEF DeleteListed
    <2>2. \A c : worker[w].doomed \ {c} \in SUBSET Certs
      BY DEF TypeOK, Worker
    <2>3. CrlOwed(w)'
      BY <2>1, <2>2, SweepFrame DEF CrlOwed, CrlPcs, TypeOK
    <2> QED
      BY <1>0, <1>c, <2>1, <2>3
  <1>21. ASSUME PublishDelta PROVE CrlInv'
    <2>1. UNCHANGED <<row, record, issued, expired, worker>> /\ crl' = [crl EXCEPT !.number = @ + 1]
      BY <1>21 DEF PublishDelta
    <2>2. crl'.latest = crl.latest /\ crl'.number = crl.number + 1
      BY <2>1 DEF TypeOK
    <2>3. \A s \in Serials : StatusForSerial(s)' = StatusForSerial(s)
      BY <2>1 DEF StatusForSerial, Recorded
    <2>4. crl.number <= crl'.number /\ issued <= issued' /\ expired \subseteq expired'
      BY <1>0, <2>1, <2>2
    <2> QED
      BY <1>a, <2>1, <2>2, <2>3, <2>4, CrlKept
  <1>12. ASSUME NEW w \in Workers, GenerateCrl(w) PROVE CrlInv'
    BY <1>12, CrlReplaced DEF GenerateCrl, Undisturbed
  <1>13. ASSUME NEW w \in Workers, InvalidateCachedResponses(w) PROVE CrlInv'
    <2>1. worker[w].pc = "invalidate" /\ AfterInvalidate(w) /\ UNCHANGED <<row, record, issued, expired, crl>>
      BY <1>13 DEF InvalidateCachedResponses, At
    <2>2. CASE worker[w].op = "renew"
      <3>1. Goto(w, CrlStart)
        BY <2>1, <2>2 DEF AfterInvalidate
      <3>2. CrlOwed(w)'
        BY <3>1, GotoFrame, CrlStarts DEF CrlOwed
      <3> QED
        BY <1>0, <1>c, <2>1, <3>2
    <2>3. CASE worker[w].op # "renew"
      <3>1. Finish(w)
        BY <2>1, <2>3 DEF AfterInvalidate
      <3>2. ~CrlOwed(w)
        BY <2>1, <2>3 DEF CrlOwed, CrlPcs
      <3>3. CrlDue => CrlDue'
        BY <3>1, <3>2, FinishFrame, CrlDueFrame
      <3> QED
        BY <1>d, <2>1, <3>3
    <2> QED
      BY <2>2, <2>3
  <1>14. ASSUME NEW w \in Workers, EmitRemoveFromCrl(w) PROVE CrlInv'
    <2>1. /\ worker[w].pc = "delta" /\ Goto(w, "clear") /\ UNCHANGED <<row, record, issued, expired>>
          /\ UNCHANGED crl \/ crl' = [crl EXCEPT !.number = @ + 1]
      BY <1>14 DEF EmitRemoveFromCrl, At
    <2>2. crl'.latest = crl.latest /\ crl'.number \in {crl.number, crl.number + 1}
      BY <2>1 DEF TypeOK
    <2>3. ~CrlOwed(w)
      BY <2>1 DEF CrlOwed, CrlPcs
    <2>4. CrlDue => CrlDue'
      BY <2>1, <2>3, GotoFrame, CrlDueFrame
    <2>5. \A s \in Serials : StatusForSerial(s)' = StatusForSerial(s)
      BY <2>1 DEF StatusForSerial, Recorded
    <2>6. crl.number <= crl'.number /\ issued <= issued' /\ expired \subseteq expired'
      BY <1>0, <2>1, <2>2
    <2> QED
      BY <2>2, <2>4, <2>5, <2>6, CrlKept
  <1>15. ASSUME NEW w \in Workers, ClearHold(w) PROVE CrlInv'
    <2>1. worker[w].pc = "clear" /\ UNCHANGED <<issued, expired, crl>>
      BY <1>15 DEF ClearHold, At
    <2>2. CASE Goto(w, CrlStart)
      <3>1. CrlOwed(w)'
        BY <2>2, GotoFrame, CrlStarts DEF CrlOwed
      <3> QED
        BY <1>0, <1>c, <2>1, <3>1
    <2>3. CASE Finish(w) /\ UNCHANGED <<row, record>>
      <3>1. ~CrlOwed(w)
        BY <2>1 DEF CrlOwed, CrlPcs
      <3>2. CrlDue => CrlDue'
        BY <2>3, <3>1, FinishFrame, CrlDueFrame
      <3> QED
        BY <1>d, <2>1, <2>3, <3>2
    <2> QED
      BY <1>15, <2>2, <2>3 DEF ClearHold, Undisturbed
  <1>16. ASSUME NEW w \in Workers, Start(w) PROVE CrlInv'
    <2>1. \A c \in Certs : ~RevocationNotCommitted(w, c)
      BY DEF RevocationNotCommitted, Undisturbed
    <2> QED
      BY <1>5, <1>6, <1>7, <1>8, <1>9, <1>16, <2>1 DEF Start
  <1>17. ASSUME NEW w \in Workers, Continue(w) PROVE CrlInv'
    <2>1. ~RestoreRevocationState(w) /\ ~RestoreHold(w)
      BY DEF RestoreRevocationState, RestoreHold, At, TiedInv, StepsTaken, Undisturbed
    <2>2. ~CommitCrl(w) /\ ~CommitRenewal(w) /\ ~CacheResponse(w) /\ ~CrlNotGenerated(w)
      BY DEF CommitCrl, CommitRenewal, CacheResponse, CrlNotGenerated, At, StepsInv, Undisturbed
    <2> QED
      BY <1>10, <1>11, <1>12, <1>13, <1>14, <1>15, <1>17, <1>20, <2>1, <2>2 DEF Continue
  <1>18. CASE UNCHANGED vars
    BY <1>18, <1>a, <1>d DEF vars
  <1>19. ~Crash
    BY DEF Crash, Undisturbed
  <1> QED
    BY <1>1, <1>2, <1>3, <1>4, <1>16, <1>17, <1>18, <1>19, <1>21 DEF Next

\* While handlers are not overtaken, do not fail and do not die, the CRL the distribution point
\* serves once they are done lists exactly the unexpired serials that are revoked: every change
\* of a status is followed by a generate_crl that reads the tables after it, and the last of
\* several concurrent ones has the highest number.
THEOREM ServedCrlIsExact ==
  ASSUME Undisturbed
  PROVE  Spec => []ServedCrlExact
  <1>1. CASE Cdp
    <2>1. Init => CrlInv
      <3> SUFFICES ASSUME Init PROVE CrlInv
        OBVIOUS
      <3>1. crl.latest = {} /\ \A c \in Certs : row[c].serial = NoSerial
        BY DEF Init, NoRow
      <3>2. ASSUME NEW s \in Serials PROVE ~CrlWrong(s)
        <4>1. ~Recorded(s) /\ s # NoSerial
          BY DEF Init, NoRecord, Recorded, Serials, NoSerial
        <4>2. StatusForSerial(s) = "unknown"
          BY <3>1, <4>1 DEF StatusForSerial
        <4> QED
          BY <3>1, <4>2 DEF CrlWrong
      <3> QED
        BY <3>1, <3>2 DEF CrlInv
    <2>2. TypeOK /\ TypeOK' /\ TiedInv /\ TiedInv' /\ StepsInv /\ CrlInv /\ [Next]_vars => CrlInv'
      BY <1>1, StepCrl
    <2>3. CrlInv => ServedCrlExact
      <3>1. ASSUME Quiescent PROVE \A w \in Workers : ~CrlOwed(w)
        BY <3>1 DEF Quiescent, Busy, CrlOwed, CrlPcs
      <3> QED
        BY <3>1 DEF CrlInv, ServedCrlExact, CrlWrong
    <2>4. Spec => []TiedInv
      <3>1. NotOvertaken
        BY DEF Undisturbed, NotOvertaken
      <3> QED
        BY <3>1, StatusAlways, PTL
    <2>5. Spec => []StepsInv
      BY StepsAlways DEF Undisturbed
    <2> QED
      BY <2>1, <2>2, <2>3, <2>4, <2>5, TypeCorrect, PTL DEF Spec
  <1>2. CASE ~Cdp
    <2>1. ServedCrlExact
      BY <1>2 DEF ServedCrlExact
    <2> QED
      BY <2>1, PTL
  <1> QED
    BY <1>1, <1>2
=============================================================================
