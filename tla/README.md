# Formal model of Ultimate CA Manager (UCM)

TLA+ specifications of the parts of UCM where the order of events decides whether the
program is right, the TLC configurations that check them on small instances, and
TLAPS proofs of the most important results for every value of the constants.

UCM is a certificate authority manager: a Flask application (`backend/`) run by
gunicorn with one gevent worker, an SQLite or PostgreSQL database, a scheduler thread,
public endpoints for CRLs, OCSP, ACME, SCEP, EST, and a web interface. Requests are
greenlets: one runs until it waits (network, HSM, a database server), then any other
may run. The scheduler runs in the process that owns a pidfile; tasks can also be run
on request. Several components are correct only if these interleave well.

## Inventory

| component | state | operations | talks to | hard behaviour | what makes it correct |
|---|---|---|---|---|---|
| certificate life cycle (`services/cert`, `api/v2/certificates`) | certificate rows, `RevokedSerial` records | issue, revoke, hold, unhold, renew in place, delete, expire | CRL, OCSP, approvals, webhooks, audit | a handler is several transactions; renewals wait for a signature; crash between two commits | a revocation is final, a hold can only be lifted, nothing is forgotten before expiry |
| CRL generation (`services/crl`, `crl_scheduler_task.py`) | `crl_metadata` rows, numbers | full CRL, delta CRL, purge of records, deletion of expired rows | certificate tables, deploy queue | list read before signing, stored after | the served CRL lists exactly the revoked serials |
| OCSP responder (`ocsp_service.py`) | cached responses | answer, cache, invalidate, expire | certificate tables | a read that is cached after an invalidation | no cached answer contradicts the tables for long |
| scheduler (`scheduler_service.py`) | pidfile, task table | start, stop, loop, run now, fork, exit | all periodic tasks | processes race on a file; pids are reused; forks inherit memory | one background loop |
| webhook queue (`webhook_service.py`, `delivery_retention.py`) | delivery rows, endpoints | queue, claim, post, record, retry, toggle, delete, purge | event bus, receivers | leases, lost replies, crashes, several senders | each delivery is taken once unless something failed or outlived its lease, and is settled in the end |
| deploy queue (`services/deploy`) | delivery rows, bindings | queue, coalesce, claim, execute | CRL generation, targets | new content during a push, leases, partial pushes, requests that push beside the batches | what was queued for a binding reaches its target, or is on record as failed |
| approvals (`approval_gate.py`, `policies.py`) | requests, votes | queue, vote, expire, cancel, perform | issuance, renewal, revocation | votes, expiry and direct actions race with issuance | performed once, only with enough votes of distinct people |
| audit chain (`services/audit`) | sealed entries, key history file | append, rotate key, purge, verify | everything | two writers, purges in batches, a key in each process, crash before the key history is written | an untouched ledger verifies, one with removed rows does not |
| ACME server (`api/acme`, `services/acme/mixins`) | orders, authorizations, challenges | order, validate, finalize, purge | issuance | validation races with expiry and deactivation | one certificate per order, only for validated names |
| SCEP (`services/scep`, `api/v2/scep.py`) | requests by transaction, profiles | enrol, renew, poll, approve, reject | issuance, Intune | retries, approvals and rejections that cross, Intune told before the commit | one certificate per transaction, one renewal per certificate, one answer |
| EST, XCEP, WSTEP | none of their own | enrol, renew | issuance | one request and one response | the requester's key is certified |
| auto-renewal | attempt bookkeeping | select, renew or queue | renewal, approvals | overlap with manual renewal | no renewal is repeated or overrides a pending decision |
| key encryption (`security`) | key file, its copy in the memory of each process, sealed columns | enable, complete, disable, restart, re-fork | all stored keys | several places and no transaction across them | what is sealed can be read after a restart |
| backup, database administration, imports, HSM drivers, Microsoft CA connector, SSH CA, timestamping, notifications, SSO, discovery, reports, updates, frontend | data | | | mostly conversion and I/O | |

`PROJECT.json` lists every component with its status, and under `hazards` each place in
the code that a test would hardly reach.

## Modules

| module | models | role |
|---|---|---|
| `RevocationStatus` | | abstract promise about the status of serials |
| `Revocation` | certificate life cycle, CRL generation, OCSP cache | the core |
| `RevocationProofs` | | its theorems: types, status invariant, refinement, then what is served |
| `SchedulerLock` | the scheduler's pidfile | |
| `WebhookDeliveries`, `WebhookDeliveriesProofs` | webhook queue and delivery retention | |
| `DeployQueue`, `DeployQueueProofs` | deploy queue and the requests that push | |
| `Approvals`, `ApprovalsProofs` | approval requests and the operations they hold back | |
| `AuditChain`, `AuditChainProofs` | audit ledger, its purge and its verification | |
| `MasterKey` | encryption of stored keys | |
| `ProcessFilesProofs` | | the theorems of the two small modules, `MasterKey` and `SchedulerLock`; it extends both, so the formulas of the latter are named `LockInit`, `LockNext`, `LockSpec` |
| `AcmeOrders`, `AcmeOrdersProofs` | orders, authorizations and challenges of the ACME server | |
| `ScepRequests`, `ScepRequestsProofs` | SCEP requests, their approval and Intune | |
| `MCx` for each module `x` with a run | | symmetry for TLC; the sets of names that `MCAcmeOrders` orders |

The components meet in the tables. `Approvals` sees a certificate as its state and its
serial, which `Revocation` models in full; the CRL that `Revocation` publishes is the
event that `DeployQueue` stores; the key that `MasterKey` changes is the key under which
`AuditChain` seals.

Definitions named `X_Something` and introduced with "Fault:" are variants of `X` with a
plausible mistake. No specification uses them; `PROJECT.json` (`mutants`) pairs each
with the property that notices it.

### Revocation

One certificate authority. `row` is the certificate table, `record` the table of
revocation records by serial, `crl` the CRL table reduced to the highest number and the
full CRLs that carry the highest full number, `cache` the cached OCSP status of a
serial, `worker` the handler each worker is in. Serials are issued in order; serial 0
is no serial.

A handler is a sequence of steps and any other handler may run between two of them. A
step ends where the code commits: `revoke_certificate` is one transaction (row and
record) followed by the purges, the CRL and the cache clearing; `unhold_certificate`
with delta CRLs is a staging transaction (`removeFromCRL`), a delta CRL and a clearing
transaction; a renewal is one transaction followed by the cache and the CRL. With
`Interruptible`, `generate_crl`, `generate_response` and the renewal are also divided
between what they read and what they commit, because they sign in between: the key may
be on an HSM, certificate transparency logs may have to answer, and the scheduler may
run in another process. Reads and writes with no such call between them are one step.

The auto-delete of `generate_crl` lists the expired revoked rows once and then deletes them
by id, one transaction each, without looking at them again (`PurgeExpiredRevokedCertificates`,
`DeleteListed`; `doomed` is the list). A listed row that was unheld and renewed in between
goes although its serial is valid: such serials are remembered in `swept`, and the promise
excepts them.

Switches state what may go wrong: `EffectsFail` (a purge, a CRL or a cache clearing
fails; the code logs and goes on), `CommitFails` (the commit of a revocation or of an
unhold fails, and the code writes the old columns back in another one, which may fail as
well: `_restore_revocation_state` and `_restore_hold` only log that), `Crashes` (the process dies
between two steps). `Cdp`, `Delta`, `PurgeSerials` and `AutoDelete` are settings.

Two details of the code that the model keeps. `_write_row` assigns the unrevoked values
to a renewed row, but the row was read as unrevoked, so the ORM has no change to write
and a revocation committed meanwhile stays on the row. And `_reread` locks the row on
PostgreSQL only; `Interruptible` renewals are those of SQLite.

Abstractions: reasons are reduced to the ones the code tells apart; a delta CRL, of
an unhold or of the scheduler (`PublishDelta`), only takes a number (its entries are not
modelled); row ids are not reused (SQLite may reuse
the id of the last row); related pairs, delegated responders, child CAs, cross
certificates and external CRLs are left out; a cached response has one form, not one
per hash algorithm (the code clears all of them).

The abstract specification `RevocationStatus` says what a relying party may rely on:
unissued, then good; good may become held or revoked; held may become good; nothing
else, except that an expired serial, or one in `swept`, may be forgotten. `AbstractStatus` reads it off the
tables (row first, then record) and `StatusPromise` is the refinement.

### SchedulerLock

Each system call of `_acquire_singleton_lock` on the pidfile is a step. The file
remembers which process created it, because a process writes its pid to the file it
opened even when that file was unlinked and replaced. A process may exit (its `atexit`
handler releases the lock only if it is the owner), be killed, stop its scheduler, or
be forked from the owner with the loop and the ownership flag copied. Pids are reused,
as in a container. `Overlap` allows several processes to be acquiring at once.

### WebhookDeliveries

Rows, endpoints, senders (each run of `process_pending_deliveries`) and the retention
task. Time is relative: `due` counts down to `next_attempt_at`, `age` is the time since
a sender read its `now`, which it uses for its whole batch. A claim succeeds if
`due <= -age` and leases the row for `Lease - age`. Older times than `MaxAge` need not
be told apart, so the state space is finite although time is not bounded. A batch may be as old as the lease
or older (50 posts of up to 10 s against 120 s), and then another sender claims a row that the
first still has in hand: `takeovers` counts those claims, and `contested` are the rows claimed
or redelivered by hand while a sender had them. `accepted`
counts what the receiver took. Crashes, failed commits and lost replies are counted in
`faults`, manual redeliveries in `requeues`; both are bounded. A refused POST is not a
fault and may happen for ever. The order of rows within a batch is left open: it only
decides who waits. Headers, signatures, failure statistics and the filter of an
endpoint's events are data.

### DeployQueue

One SSH target with certificate and CRL bindings. `row` is the delivery table, `version`
the content the database holds for a binding, `remote` what is on the target (0 when only
some files of a push arrived), for each host the target may have, `event` what is committed and not yet queued, `job` the
batches and the requests that push synchronously. A row names a binding, not a content:
what is pushed is resolved when the row is executed, and the push waits on the network
between `Resolve` and `Record`.

Time is reduced to `due`. The claim compares `next_attempt_at` with the time of the batch,
so whoever reschedules a row takes it out of the batches that were read before; `batch` is
what a batch could still claim. A lease may run out at any moment (`Wait`).

`owed` is the newest content that was queued for the host of the target; a change of the host
(`UpdateTarget`) queues nothing, so what had been deployed is not owed to the new one. Four
things are excepted in `disturbed`,
because the code lets go of them: two pushes of one binding that cross (the one that began
first may end last), a CRL coalesced into the row that is being pushed
(`enqueue_crl_for_event` resets it, the push then marks it delivered), a push by a request
that could not record it, and a host that changes under a push. Left out: the test of a target, the retention of old
rows (the mechanism is in `WebhookDeliveries`), the validation of paths, bundles of parent
CRLs.

### Approvals

`request` is the request table, `target` the rows they are about (a signing request, then
a certificate with a serial that renewals count up), `handler` the HTTP requests that
span several transactions. A user who is no administrator asks (`Queue`); administrators and,
without a policy, everyone act directly. `approve_request` records the completing vote, performs
the operation and commits both together; signing and renewing wait in between with the row
and its duplicates locked (`Locked`), revoking does not. A failure rolls everything back,
the vote too, and reads the request again (`Relock`). Readers expire what is late, with
`SKIP LOCKED` (`ExpireStale`) or, in `get_approval`, without a lock: there the read and the
write are two steps. A revocation closes the requests it makes moot in its own transaction, a
signing and a renewal in a later one (`ResolveMoot`). `done` remembers what was performed, for
which request, with which votes.

A renewal reads its row again, takes the time, signs and claims the serial it read (`Stage`,
`Claims`); the time, as `renewed_at`, decides whether a request made before it is already
served (`AlreadyDone`). Times are only ever compared with the `created_at` of requests to renew
the row, so a time is modelled as the set of those made before it (`Now`). Two gaps follow from
the code, and `amid` notes for each request to renew whether it was made in one of them: a request
made while another renewal of the row is being signed is older than its commit but younger than
its `renewed_at`, and renews again (`PerformedAsAsked` excepts it); one made after that commit
and before `ResolveMoot` is closed as approved by a renewal it did not ask for
(`ApprovedMeansPerformed` excepts it).

Row locks are those of PostgreSQL. SQLite has none; its single writer gives the same
order for what commits at once, and the compare-and-swap of `sign_csr` and `_take_serial`
(`Claims`) decides for what does not. A waiter lets others run; with a driver that blocks
the process under gevent, it would not. Left out: requests for certificates that have no
row yet, revocations that find the certificate on hold, requests of CAs and cross certificates, groups of approvers, editing
policies, and scheduled selection by dates.

### AuditChain

`ledger` is the table by id. A row is its links: the row before it, the key it is sealed
under, where it says the ledger begins, the last row of each retired key it lists. A seal
is taken for unforgeable, so rows are removed and never edited. `Free` is the lock that an
insert holds to the end of its transaction; `WriteKeyring` writes the key history file
after the commit and may fail. A purge writes its record with its first batch and deletes
the rest batch by batch. `Valid` and `Intact` are `verify_chain` over the whole table.

Each process has its own key (`key`): `chain_key` reads a singleton that the worker reloads
when encryption is enabled or disabled and the scheduler's process never does. Rows written by
scheduled tasks (`Scheduled`) are sealed under the key of the master, the others and the
verification use the worker's. A key may be given up and return.

`missing` are the rows removed by hand that the ledger still shows: not a tail (nothing
after it) and nothing before the start that a later purge record or rotation names anew.
`RemovalIsSeen` makes no exception. `UntouchedVerifies` says without exception that no link
is broken. That the verification accepts the ledger is said where it is `Settled`: no row
under another key, or under none, follows one under the worker's. Otherwise `verify_chain`
reports the rows in between although nobody touched them, which
`tests/test_audit_chain_keyed.py:564-577` asks for when a process returns to a key, and which
also happens when the scheduler goes on under the key that the worker gave up. Excepted too are
a key history that was lost (`lost`) and a key that takes over during a purge (`crossed`,
`CutAtNewKey`): the first row under it names as start a row that the purge is about to delete.
The history file is taken to be written before the next row is sealed. Left out: verification of
a range of rows, rows older than the chain, the export of checkpoints.

### MasterKey

`file`, `memory` and `stored` are the places of the key and of what it seals. `memory` is per
process: gunicorn preloads the application, so the master, which runs the scheduled tasks, has
the key as of its start, and a worker that dies is forked again with what the master has
(`Refork`); only a full restart reads the file (`Restart`). Requests and scheduled tasks seal
under the key of their own process (`Store`). None of the steps of a request waits on the
network, so no other request comes between them, but a crash, an exception or a scheduled task
may.

The code loses a key in three ways, which `lost` remembers and `Recoverable` excepts: the error
path of `enable_encryption` removes the key file and leaves the key in memory, which goes on
sealing; a worker that was forked again since encryption was enabled finds it disabled and
enables it over the key in the file; and `disable_encryption` removes the key while the
scheduler's process has it. Left out: the key in an environment variable,
`UCM_REQUIRE_KEY_ENCRYPTION`, plaintext files beside the database, the download of the key.

### AcmeOrders

One account. `order` and `authz` (with its challenges) are the tables, `handler` the
requests that wait on the network: a validation between reading the challenge and settling
it, a finalization between taking the order and storing the certificate. `ticks` numbers
creations, and everything created at `past` or before has expired. `proof` names the
answer that validated an authorization; copies in other orders carry it along. Excepted
in the properties: orders whose creation failed after a first commit (`partial`), which
have fewer authorizations than names, and orders that a late answer made ready again
(`reopened`), which may be issued twice. Left out: accounts and external
binding, signatures and nonces, checks of the CSR, profiles, renewal information, key
change, revocation, superseding of older certificates, the deletion of orders by an operator
(`api/v2/acme/orders.py:105-133`), the proxy. The certificate and the order are committed one
after the other; `FinalizeIssue` is both, and a failure in between is a fault action.

### ScepRequests

One CA, one profile. `request` is the table of transactions, `cert` the certificates that
came of them, `handler` the requests that wait: an enrolment for Intune's validation, for
the certificate transparency logs and for Intune's acknowledgement, an approval for the
logs. Everything until the commit is rolled back together, so a row inserted or archived by
a waiting request is not in the tables, and others wait for it (`Inserting`, `Claiming`). A
known transaction only yields its answer (`Answer`), which a device gets by a retry or a poll.
Whether its key is the stored one decides between that answer and a refusal, so keys are left
out. `notified` is what Intune was told. Excepted in the properties: transactions
approved twice, or rejected, while an approval of them waits (`crossed`). Left out: message
formats, challenge passwords, policies and templates, `GetCert` and `GetCRL`, the global
endpoint, expiry, and the approval of a request whose stored `renewal_of` cannot be read, which
the code takes for an initial enrolment.

## Runs

| run | instance | shows |
|---|---|---|
| `revocation` | 2 certificates, 2 serials, 2 handlers, all settings on, no faults | `StatusPromise`; after the last handler `ServedCrlExact` and `CacheCoherent`; `StagedHoldIsOwned` |
| `revocation_faults` | 2 certificates, 2 serials, 1 handler, interruptible, every fault | `StatusInv` and `StatusPromise` survive failed commits, failed effects and crashes |
| `revocation_stale_answer` | 1 certificate, 2 serials, 2 handlers, interruptible, every fault, fairness | `StaleGoodEnds`: a stale good answer runs out |
| `scheduler_lock` | 3 processes, starting one at a time | `OneScheduler`, `LockInv` |
| `webhook` | 2 rows, 2 senders, batches of 2 that may be as old as the lease, 1 fault, 1 redelivery | `LeaseInv`, `DeliveredIsFinal`, `LeaseRespected` |
| `webhook_settles` | 1 row, 2 senders, 2 attempts, batches that outlive the lease, 1 fault, 1 redelivery, fairness | `ExactlyOnceButFaults`, `EverySettles` |
| `deploy` | 2 rows, a certificate and a CRL binding, 2 hosts, 1 batch, 1 request, 2 contents, 1 fault, 2 acts of operators | `OwedUntilDeployed` |
| `approvals` | 2 requests on 1 row, 3 users, 2 of them administrators, 2 approvals required, 2 handlers, 2 operations, 1 fault | `ApprovedMeansPerformed`, `PerformedAsAsked`, `FourEyes`, `DecidedOnce` |
| `audit` | a writer of the worker and one of the scheduler, 4 ids, 2 keys, batches of 1, 1 fault, 1 row removed | `UntouchedVerifies`, `RemovalIsSeen` |
| `master_key` | 3 values, 4 keys, 2 processes, 4 faults | `Recoverable` |
| `acme` | 2 orders, 3 authorizations, 2 handlers, 2 answers, plain, wildcard and auto-approved names, 1 fault | `IssuedMeansProved`, `IssuedOnce`, `RelinquishedIsUnused`, `DeactivatedIsFinal` |
| `scep` | 3 transactions, 3 certificates, 2 handlers, every mode of the profile, 1 fault | `RenewedOnce`, `OneCertificate`, `IntuneAgrees`, `AnswerIsFinal` |

### Where the assumptions are needed

Several properties hold under an assumption that a constant or an exception states. To see
what happens without it, change it in the configuration or drop the exception; TLC then
finds a behaviour of the code that a comment or a document rules out.

| change | TLC finds |
|---|---|
| `revocation.cfg`: `Interruptible = TRUE` | `CacheCoherent`: a good answer read before a revocation is cached after it. `ServedCrlExact`: a CRL signed from an older list is stored with the same number as the newer one. `StatusPromise`: a revocation committed during a renewal has no record for the new serial and is forgotten with the row |
| `Revocation`: without `swept` | `StatusPromise`: a held row that the auto-delete has listed is unheld and renewed, and its valid serial is forgotten with it |
| `revocation.cfg`: `Crashes = TRUE`, or `CommitFails = TRUE` | `StagedHoldIsOwned`: a hold staged for removal can no longer be lifted by a request |
| `scheduler_lock.cfg`: `Overlap = TRUE` | `OneScheduler`: a process takes a pidfile that is not yet written for a stale one |
| `WebhookDeliveries`: without `takeovers` | `ExactlyOnceButFaults`: two senders post one row, because the lease is counted from the start of the batch |
| `WebhookDeliveries`: without `contested` | `DeliveredIsFinal`: the late failure of a sender that lost its row is written over the success of the other |
| `WebhookDeliveries`: a property that no pending row is deleted by `DeleteHistory` | a delivery requeued between the SELECT and the DELETE of the retention task is deleted (`delivery_retention.py:19`: "is never touched") |
| `DeployQueue`: without `disturbed` | `OwedUntilDeployed`: a CRL coalesced into a row in flight is never pushed |
| `DeployQueue`: an invariant `target.key \in {NoKey, target.host}` | the key of a host is pinned for another when the target is edited during a push |
| `Approvals`: `DecidedOnce` without `"expired"` | a reader writes "expired" over a request that was approved since |
| `Approvals`: without `amid` | `ApprovedMeansPerformed`: a renewal asked for between the two transactions of another is closed as approved and was not performed. `PerformedAsAsked`: one asked for while another is being signed renews the new serial again |
| `AuditChain`: without `Settled` | `UntouchedVerifies`: the scheduler seals a row under the key that the worker gave up, or a key returns, and the untouched ledger is reported as broken |
| `AuditChain`: without `crossed` and `CutAtNewKey` | `UntouchedVerifies`: a purge during which the key changes leaves a ledger that is reported as truncated |
| `MasterKey`: without `lost` | `Recoverable`: an error after the values were sealed removes the only copy of their key; so do enabling again in a worker that was forked again, and disabling while the scheduler has the key |
| `AcmeOrders`: without `partial` | `IssuedMeansProved`: an order whose creation broke off becomes ready without a proof for each name |
| `AcmeOrders`: without `reopened` | `IssuedOnce`: of two answers to one authorization the second ends after the order was finalized and makes it ready again (`_update_authorization_status` does not look at the order's status); a second certificate is issued, where `begin_order_processing` says "only the one that flips `ready` to `processing` may finalize it" |
| `ScepRequests`: without `crossed` | `OneCertificate`: two approvals that wait on the logs together issue two certificates. `AnswerIsFinal`: a request rejected while its approval waits is answered as a failure and then as a success |

**Bounds.** Two serials are a certificate and its renewal, or two certificates; the
properties relate at most two serials (old and new) and two handlers (one overtaking
another). `MaxCrl` bounds CRL numbers and is consumed in the guards that start a
handler, never inside one, so no handler is cut short. For the lock, three processes
are an owner, one that takes over and one that interferes. For the webhook queue, two
senders suffice for a conflict over a row, two rows make a batch of more than one, and
`MaxAge >= Lease` lets a batch outlive its leases. In the deploy queue the two actors are a batch and a request; two acts of
operators create a binding and disturb it once. Two approval requests are a request and
its duplicate, or a request and its successor; three users are a requester and the two
approvers that the policy asks for; `MaxDone` bounds the operations that are performed and is
consumed where one begins, so that two of them, a renewal and one that overtakes it, run to
their end. `MCApprovals!View` leaves out of a closed request what no later step reads (its votes,
what it asked for); statuses, and all that the properties look at, are kept. Four ids are enough
for a ledger under two keys with a purge record and a row to remove in the middle; batches of one
make every purge take several. Four keys are an enabling, a failed one, one of a worker forked
again, and another. Two orders with three
authorizations are an order that reuses the proof of another, with a wildcard beside it;
two answers are the duplicates that reopen an order. Three SCEP transactions and certificates are
a certificate and two renewals of it that compete.

**Deadlock.** The models stop when ids, numbers or versions are used up, so their runs do
not check for deadlock; the scheduler, webhook and master key runs do.

**Fairness.** `Revocation!FairSpec`: a handler in progress goes on (its greenlet is
scheduled again once the call it waits for ends) and the clock moves, so a cached
response reaches its `next_update`. Nothing is assumed of operators, of clients or of
the scheduler. `WebhookDeliveries!FairSpec`: time passes, a batch in progress goes on
(a POST has a timeout of 10 s) and the scheduler runs its task at every interval; no
fairness for the run-now request, for endpoints or for operators. The other modules state
safety only: an order, an approval or a push that nobody continues simply waits, and the
code promises no more (a crash leaves an ACME order in `processing` until the purge).

## Proofs

All proofs are checked by TLAPS with SMT, Zenon and LS4, for every value of the constants
that satisfies the assumptions of its module (the bounds are numbers, names that stand for
"nothing" are not among the things they stand for). Each module proves one inductive
invariant and reads the listed theorems off it. Its step lemma has one case per action;
the lemmas before it say what an action does to the part of the state that the invariant
relates, so that actions that do the same share a proof.

### Revocation

- `TypeCorrect`: `Spec => []TypeOK`, no further assumption.
- `StatusInvariant`: `Spec => []StatusInv` if `NotOvertaken`: either `~Interruptible` and
  `~CommitFails`, with any number of handlers, or any of the faults and interruptions with
  handlers that run one at a time. Effects may fail and the process may die in both cases,
  so that the instances of `revocation` and `revocation_faults` are covered. `StatusInv` is
  `TiedInv` with `ListedRows` (only a handler that is deleting has rows listed for it) and
  `ListedStayExpired` (when handlers run one at a time what they listed stays expired and
  revoked, and `swept` is empty). The parts of `TiedInv`, which is inductive together with
  `TypeOK`: a serial is on one row at most and was issued
  (`SerialsDistinct`, `SerialsIssued`, `RecordsIssued`); rows and records agree
  (`RowsMatchRecords`: an unexpired revoked row has its record, a good row has none, and
  both are a suspension or neither is), which is what lets a deletion hand the status
  over to the record; a hold being lifted is still the staged one and only one handler
  is lifting it (`StagedHoldUntouched`), without which the second transaction of an
  unhold could lift a revocation that came in between; `StepsTaken` says which steps need
  a failed commit or a wait for a signature. With those it is inductive only
  together with `PendingUntouched`: the row that a revocation whose commit failed is about
  to restore, or that a renewal read before its certificate was signed, is still good and
  carries the serial that was read, or is gone. A second handler breaks that (it may revoke
  the row in between), deletions and the clock do not.
- `KeepsPromise`: `Spec => StatusPromise` under the same assumption: initial states map
  to initial states and each step, action by action, to a step of `RevocationStatus` or
  to a stutter. The serials in `swept` are excepted; by `StatusInvariant` there are none when
  handlers run one at a time.
- `StagedHoldsAreOwned`: `Spec => []StagedHoldIsOwned` if `~Crashes` and `~CommitFails`;
  overtaking and failed effects are allowed. A failed commit leaves the hold to `_restore_hold`,
  whose own commit may fail. Inductive with the fact that a staged row is
  present in the table (`StagedPresent`).
- `CachedResponsesAgree`, `ServedCrlIsExact`: `Spec => []CacheCoherent` and
  `[]ServedCrlExact` if `Undisturbed` (`~Interruptible`, no faults). The properties speak
  of moments when no handler is in progress and say nothing about the others. The
  invariants `CacheInv` and `CrlInv` do: what is served about a serial is wrong only while
  a handler is in progress that is yet to clear it or to publish (`ClearingOwed`,
  `CrlOwed`). Every action that changes a status leaves its handler owing both, and every
  step that stops owing does what it owed. `CrlInv` also needs that the latest CRL lists
  issued serials only, or a new certificate could be born revoked.

### SchedulerLock

In `ProcessFilesProofs`.

- `LockTyped`: `LockSpec => []LockTypeOK`, races included.
- `LockIsHeld`, `OneSchedulerRuns`: `LockSpec => []LockInv` and `[]OneScheduler` if
  `~Overlap`. `LockInv` is inductive: the file names its holder, a process that is about to
  remove or write the file was preceded by no holder, and one process acquires at a time.

### WebhookDeliveries

- `QueueTyped`: `Spec => []TypeOK`; inductive with the fact that a sender that posts or
  records has a row (`RowHeld`).
- `LeasesHold`: `Spec => []LeaseInv`, with no assumption on the length of a batch; any number
  of rows, senders, redeliveries and endpoints, any backoff, crashes at any step. `LeaseInv` is
  inductive with the types: a row in hand that was not contested is pending, or deleted, and comes
  due exactly `Lease - age` from now (`Leased`) and is in one hand only (`OneSender`); what is or
  will be recorded as delivered was accepted (`DeliveredAccepted`).
- `LeasesAreRespected`: `Spec => LeaseRespected`, from it: a claim matches a row that is due, and
  an uncontested row in hand is due only when the batch of its sender is as old as the lease.
- `DeliversOnce`: `Spec => []ExactlyOnceButFaults`, with no assumption. `LeaseInv` is of no use
  here: a redelivery of a row in flight and a takeover put it into a second hand, and what one
  sender records moves the lease of the other. The invariant is `Budget`: how often a row was
  accepted, plus the senders that have it in hand and were not told that it was (`Hands`), plus
  one if it is to be claimed and in nobody's hand (`Open`), is at most one more than the faults,
  the redeliveries and the takeovers. A claim of an open row turns the last term into a hand, one
  of a row in hand pays for the new hand as a takeover, an acceptance turns a hand into an
  acceptance, an attempt that failed a hand into the last term; a fault and a redelivery pay for
  what they open.
- `DeliveredRowsStay`: `Spec => DeliveredIsFinal`, from `LeaseInv`: an uncontested row in hand is
  pending, so a late outcome cannot overwrite a settled row.

### DeployQueue

- `DeploymentsTyped`, `QueuedIsDeployed`: `Spec => []TypeOK` and `[]OwedUntilDeployed`, with
  no assumption; the exceptions are in the property (`disturbed`). Two parts are proved one
  after the other. `Sound`: types; rows and jobs belong to bindings that were created, and a
  job whose row is gone works for a binding that is gone (`Linked`); nothing is owed that
  was not stored, and there is no binding without a target (`Ordered`). Then, for each
  binding that is there and was not disturbed, `Tended`: one job pushes it at a time and a
  row in hand is pending and in one hand (`Alone`), so a push that ends cannot overwrite the
  outcome of another; what is being pushed goes to the host of the target and is
  all that is owed, or another row answers for the rest, and what arrived is still there
  (`Carried`), so that a row marked delivered
  lets go of nothing; and `Kept`, the property itself. A step concerns one binding; all
  others are `Quiet`, and one lemma (`StillBinding`) settles them for every action.

### Approvals

- `ApprovalsTyped`, `ApprovedWasPerformed`, `PerformedOnceAsAsked`, `FourEyesSaw`:
  `Spec => []TypeOK`, `[]ApprovedMeansPerformed`, `[]PerformedAsAsked`, `[]FourEyes`, and
  `DecisionsStand`: `Spec => DecidedOnce`; no assumption, the two exceptions (`amid`) are in the
  properties. `ApprovalInv` adds what lies between. A requester is not among the voters
  (`Voted`); where a row shows that the operation of a request was performed, some performance
  accounts for it, and a row renewed since an open request was made has a `renewed_at` later than
  it unless it was made during the renewal (`Asked`, `Stamped`); what was performed shows on its
  row (`Performed`), so the row decides whether it may be performed again. A handler in the
  middle of an operation has a pending request with enough votes, to itself together with its
  duplicates (`Held`, `Exclusive`), which is why two completing votes cannot both perform; the
  time it took is later than every open request but those made since (`Fresh`), and what is left
  to close after its commit was performed or was asked for in between (`Sees`). Each action is
  first shown to change requests, rows, performances and handlers only in the ways listed in
  `Changes`, `Acts`, `Does` and `Moves`, and the parts of the invariant are proved of those.

### AcmeOrders

- `OrdersTyped`, `IdentifiersWereProved`, `OrdersIssueOnce`, `GivenUpProofsAreUnused`:
  `Spec => []TypeOK`, `[]IssuedMeansProved`, `[]IssuedOnce`, `[]RelinquishedIsUnused`, and
  `DeactivationStands`: `Spec => DeactivatedIsFinal`; no assumption, the exceptions
  (`partial`, `reopened`) are in the properties. `ProofInv`: a valid authorization rests on
  a proof of its identifier that was not given up (`Backed`), the copies of one proof agree
  on identifier and expiry (`Alike`), by which deactivation finds them, and an answer that
  is being validated has a number of its own (`Validating`, `Distinct`). `OrderInv`: an
  order has an authorization for each of its identifiers (`Covered`) and what is being
  finalized was ready (`Finalizing`). `OnceInv`: an order is finalized by one request at a
  time, and as long as it can still be finalized every certificate it has is paid for by a
  fault (`Once`).

### ScepRequests

- `RequestsTyped`, `RenewalsAreExclusive`, `TransactionsIssueOnce`, `IntuneIsTold`:
  `Spec => []TypeOK`, `[]RenewedOnce`, `[]OneCertificate`, `[]IntuneAgrees`, and
  `AnswersStay`: `Spec => AnswerIsFinal`; no assumption, the exception (`crossed`) is in the
  properties. `TypeOK` is not inductive: the number of certificates issued and being issued
  must be within the bound (`Counted`, by cardinalities). Who waits for Intune has the
  certificate it renews to itself (`Claimed`); who inserts a row is alone with it
  (`Inserted`); who approves is alone and the request is pending (`Approval`), and a
  transaction that has a certificate is approved (`Decided`), unless it was crossed.

### AuditChain

- `AuditTyped`, `RemovalsAreSeen`, `UntouchedLedgerVerifies`: `Spec => []TypeOK`,
  `[]RemovalIsSeen` and `[]UntouchedVerifies`; no assumption, the exceptions (`Settled`, `lost`,
  `crossed`, `CutAtNewKey`) are in the last property.

`TypeOK` is inductive as part of `Base`: rows are numbered in the order in which they are
sealed, the uncommitted one last (`Numbered`), one transaction at a time seals (`Turns`),
and the history that is due after a commit extends the one there is (`RingDue`).

What the other two need is said of two ledgers, the table and the table with the row about
to be committed (`With`), so that a commit turns one into the other and a batch of a purge
only cuts a prefix off (`Cut`). `Order`: a row names as its predecessor an earlier row,
none earlier than a row that is there. `Missed`, for `RemovalIsSeen`: every missing row is
gone for good, no row says that the ledger begins after it, and either every later row
names it or a row after it as its predecessor (`Shown`), or every row left is later and
without a key (`Unkeyed`). The first breaks a link or leaves the
first row later than every start that the keyed rows name, and the second does not verify
under a key. It is preserved by any number of further removals and without any exception
for purges that a change of key crosses: the property was stated with that exception
before the proof showed that nothing uses it.

`UntouchedVerifies` needs what the ledger looks like as long as nobody removed a row (`Whole`).
Keys return and the processes differ, so it is said of every key, not of one in use
(`Untouched(k)`). `Linked`: the predecessor of every row but the first is there. `InHistory`: the
key that the history has as the current one was used after every other, but for lost ones.
`Opened`: a row with which the rows under a key at the end of the ledger begin attests the keys of
the rows since the last one under it, other than lost ones, and names a start. `Begins`: some row
says that the ledger begins at its first row or later, under the key if the last row is under it
(`Ends`). That last fact is not inductive by itself: a purge deletes rows over several
transactions, among them those that say where the ledger begins. `Says` therefore holds, for the
boundary of each purge in progress, that a row at or after the boundary names a start at or after
it; the record of the purge is that row and no batch of another purge deletes it unless the record
of that one says as much. `KeysInv` adds that the history has every key of a row, unless it was
lost. Where the ledger is settled the rows under the worker's key are those at its end, and
`Opened` and `Begins` for that key are what the verification asks for.

The properties speak of least and greatest ids. That they exist is taken from the
well-foundedness of `<` on the naturals (`WFMin` of the library), whose statement has no
operator parameter; no induction over data is needed. The cardinality that bounds a batch
is used once, to show that a batch is a prefix (`BatchIsPrefix`).

### MasterKey

In `ProcessFilesProofs`.

- `KeysStayRecoverable`, `KeyTypes`: `Spec => []Recoverable` and `[]TypeOK`, with no
  assumption; the three ways to lose a key (`lost`) are in the property. `Recoverable` is not
  inductive. `KeyInv` adds that the key in the memory of a process is the one in the file or a
  lost one (`MemoryKept`), without which a value could be sealed under a key that no restart
  finds; that an enabling in progress has its file and the worker the key in it (`EnableHolds`),
  so that the error path removes the key it generated and no other; and that when
  `disable_encryption` is about to remove the file only a scheduled task can have sealed anything
  (`DisableHolds`).

The assumptions are needed, as the table above shows; with `CommitFails` and two handlers
`_restore_revocation_state` can, besides, undo a revocation committed meanwhile.

### Only model-checked

All liveness (`StaleGoodEnds`, `EverySettles`), which the prover does not support. The
modules use no recursion, so nothing rests on induction over data.

## Plan

Done: `Revocation`, `SchedulerLock`, `WebhookDeliveries`, `DeployQueue`, `Approvals`,
`AcmeOrders`, `ScepRequests`, `MasterKey` and `AuditChain`, each with its runs and proofs:
every safety property that a run checks is also proved, under the assumptions given there.

Next, in this order:

1. `StagedHoldsAreOwned` with crashes, if the code comes to finish a staged hold at start.
2. Entries of delta CRLs against their base, as an extension of `Revocation`.

## Not modelled

UCM has about 170,000 lines in its implementation, half of them the web interface, and
most of the rest converts, validates or formats data, or talks to external systems one
request at a time: certificate contents, imports, backup, migrations, reports, templates,
drivers and connectors (HSM, Microsoft CA, DNS providers, SSO, e-mail), stateless signing
(timestamps). The modules cover the parts in which several actors change shared state
over several steps, which is a small share of the lines and the part that tests reach
least. `PROJECT.json` gives the reason for each component that is left out.
