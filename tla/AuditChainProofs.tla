--------------------------- MODULE AuditChainProofs ---------------------------
(***************************************************************************)
(* The audit ledger verifies as long as nobody touches it, and under a key *)
(* a row removed by hand is noticed: for any number of writers, rows, keys,*)
(* crashes and removals.                                                   *)
(***************************************************************************)
EXTENDS AuditChain, FiniteSetTheorems, WellFoundedInduction, TLAPS

-----------------------------------------------------------------------------
(* First, Last and Batch *)

\* A set of numbers has a least element, and one below a bound a greatest.
LEMMA LeastExists ==
  ASSUME NEW S, S \subseteq Nat, S # {}
  PROVE  \E x \in S : \A y \in S : x <= y
  <1> DEFINE R == OpToRel(<, Nat)
  <1>1. IsWellFoundedOn(R, Nat)
    BY NatLessThanWellFounded
  <1>2. PICK x \in S : \A y \in S : ~(<<y, x>> \in R)
    BY <1>1, WFMin
  <1>3. \A y \in S : ~ (y < x)
    BY <1>2 DEF OpToRel
  <1> QED
    BY <1>3

LEMMA GreatestExists ==
  ASSUME NEW N \in Nat, NEW S, S \subseteq 0..N, S # {}
  PROVE  \E x \in S : \A y \in S : x >= y
  <1> DEFINE T == {y \in 0..N : N - y \in S}
  <1>1. PICK s \in S : s \in 0..N
    OBVIOUS
  <1>2. N - s \in 0..N /\ N - (N - s) = s
    BY <1>1
  <1>3. T # {} /\ T \subseteq Nat
    BY <1>1, <1>2
  <1>4. PICK t \in T : \A y \in T : t <= y
    BY <1>3, LeastExists
  <1>5. ASSUME NEW y \in S PROVE N - t >= y
    <2>1. y \in 0..N /\ N - y \in 0..N /\ N - (N - y) = y
      OBVIOUS
    <2>2. N - y \in T
      BY <2>1
    <2>3. t <= N - y /\ t \in 0..N
      BY <1>4, <2>2
    <2> QED
      BY <2>1, <2>3
  <1> QED
    BY <1>4, <1>5

\* First and Last are what they are meant to be.
LEMMA FirstIsLeast ==
  ASSUME NEW S, S \subseteq Nat
  PROVE  /\ S = {} => First(S) = 0
         /\ S # {} => First(S) \in S /\ \A y \in S : First(S) <= y
  BY LeastExists DEF First, Min

LEMMA LastIsGreatest ==
  ASSUME NEW N \in Nat, NEW S, S \subseteq 0..N
  PROVE  /\ S = {} => Last(S) = 0
         /\ S # {} => Last(S) \in S /\ \A y \in S : Last(S) >= y
  BY GreatestExists DEF Last, Max

\* The bounds of the model, and the ids under them.
LEMMA Bounds == /\ MaxId \in Nat /\ MaxKey \in Nat /\ MaxFaults \in Nat /\ MaxRemoved \in Nat
                /\ BatchSize \in Nat
  BY ChainAssumption

LEMMA IdsTyped == Ids \subseteq Nat /\ Ids \subseteq 0..MaxId /\ 0 \notin Ids /\ IsFiniteSet(Ids)
  <1>1. IsFiniteSet(1..MaxId)
    BY Bounds, FS_Interval
  <1> QED
    BY <1>1, Bounds DEF Ids

LEMMA IdOrNone == \A x \in {0} \cup Ids : x \in Nat /\ x \in 0..MaxId
  BY Bounds DEF Ids

\* A batch is the beginning of the ledger.
LEMMA BatchIsPrefix ==
  ASSUME Rows \subseteq Ids, NEW w
  PROVE  /\ Batch(w) \subseteq Rows
         /\ \A i \in Batch(w) : i < writer[w].boundary
         /\ \A i \in Batch(w), j \in Rows : writer[w].boundary \in Int /\ j < i => j \in Batch(w)
  <1> DEFINE b == writer[w].boundary
             old == {i \in Rows : i < b}
             before(i) == {j \in old : j < i}
  <1>1. Batch(w) = {i \in old : Cardinality(before(i)) < BatchSize}
    BY DEF Batch
  <1>2. SUFFICES ASSUME NEW i \in Batch(w), NEW j \in Rows, b \in Int, j < i
                 PROVE  j \in Batch(w)
    BY <1>1
  <1>a. i \in old
    BY <1>1
  <1>b. i \in Nat /\ j \in Nat
    BY <1>a, IdsTyped
  <1>3. j \in old
    <2> j < b
      BY <1>a, <1>b, <1>2
    <2> QED
      OBVIOUS
  <1>4. before(j) \subseteq before(i)
    <2> SUFFICES ASSUME NEW x \in old, x < j PROVE x < i
      OBVIOUS
    <2> x \in Nat
      BY IdsTyped
    <2> QED
      BY <1>b, <1>2
  <1>5. IsFiniteSet(before(i))
    <2>1. before(i) \subseteq Ids
      OBVIOUS
    <2> QED
      BY <2>1, IdsTyped, FS_Subset
  <1>6. Cardinality(before(j)) <= Cardinality(before(i)) /\ Cardinality(before(j)) \in Nat
        /\ Cardinality(before(i)) \in Nat
    BY <1>4, <1>5, FS_Subset, FS_CardinalityType
  <1>7. Cardinality(before(i)) < BatchSize
    BY <1>1, <1>2
  <1>8. Cardinality(before(j)) < BatchSize
    <2> HIDE DEF before
    <2> QED BY <1>6, <1>7, Bounds
  <1> QED
    BY <1>1, <1>3, <1>8

-----------------------------------------------------------------------------
(* Types, ids and turns *)

\* Writer w has a row inserted and not committed, and the lock with it.
Sealing(w) == writer[w].pc \in {"staged", "record"}

\* Rows are numbered in the order in which they are sealed, the one that is not
\* committed last; a purge leaves its record and what follows it alone.
Numbered ==
    /\ \A i \in Rows : i < nextId
    /\ \A w \in Writers : Sealing(w) =>
          writer[w].id \in Ids /\ writer[w].id < nextId /\ \A i \in Rows : i < writer[w].id
    /\ \A w \in Writers : writer[w].pc = "purge" => writer[w].boundary \in 1..nextId
    /\ \A w \in Writers : writer[w].pc = "record" => writer[w].boundary \in 1..writer[w].id

\* The lock of the insert lets one transaction at a time add a row.
Turns == \A v, w \in Writers : Sealing(v) /\ Sealing(w) => v = w

\* The history to be written after the commit is the one there is, with the key of the
\* row in front; when none is to be written the key is there.
RingDue == \A w \in Writers : Sealing(w) =>
    LET new == writer[w].ring  k == writer[w].entry.key IN
    IF new = NoRing THEN k \in {NoKey, ring.current}
    ELSE k # NoKey /\ new.current = k /\ ring.history \cup {k} \subseteq new.history

\* What a transaction and a row are made of has its type.
LEMMA BlankTyped == Blank \in Entry /\ NoRing \in Ring
  BY DEF Blank, Entry, Unlisted, NoRing, Ring, NoKey, Genesis

LEMMA WriterTyped ==
  ASSUME NEW pc \in {"idle", "staged", "purge", "record", "batch"}, NEW i \in {0} \cup Ids,
         NEW e \in Entry, NEW r \in Ring, NEW b \in 0..(MaxId + 1)
  PROVE  [pc |-> pc, id |-> i, entry |-> e, ring |-> r, boundary |-> b] \in Writer
  BY DEF Writer

LEMMA AtTyped ==
  ASSUME NEW pc \in {"idle", "purge", "batch"}, NEW b \in 0..(MaxId + 1)
  PROVE  /\ At(pc, b) \in Writer
         /\ At(pc, b).pc = pc /\ At(pc, b).boundary = b /\ At(pc, b).entry = Blank
  BY BlankTyped, WriterTyped DEF At

LEMMA IdleTyped == Idle \in Writer /\ Idle.pc = "idle" /\ Idle.entry = Blank
  BY AtTyped, Bounds DEF Idle

\* Every process has a key or none.
LEMMA KeyOfTyped ==
  ASSUME TypeOK, NEW w
  PROVE  KeyOf(w) \in {NoKey} \cup Keys
  BY DEF KeyOf, TypeOK, Processes

LEMMA ReconciledTyped ==
  ASSUME TypeOK, NEW k \in {NoKey} \cup Keys
  PROVE  Reconciled(k) \in Ring
  <1>1. ring.current \in {NoKey} \cup Keys /\ ring.history \subseteq Keys
    BY DEF TypeOK, Ring
  <1> QED
    BY <1>1, BlankTyped DEF Reconciled, Ring

\* The greatest and the least of a set of rows is one of them or 0.
LEMMA RowOrNone ==
  ASSUME NEW S, S \subseteq Ids
  PROVE  First(S) \in {0} \cup S /\ Last(S) \in {0} \cup S
  <1>1. S \subseteq Nat /\ S \subseteq 0..MaxId
    BY IdsTyped
  <1> QED
    BY <1>1, FirstIsLeast, LastIsGreatest, Bounds

\* append_entry seals a row.
LEMMA SealedTyped ==
  ASSUME TypeOK, nextId <= MaxId, NEW k \in {NoKey} \cup Keys, NEW b
  PROVE  Sealed(k, b) \in Entry
  <1>1. Rows \subseteq Ids /\ nextId \in Ids
    BY Bounds DEF TypeOK, Ids
  <1>2. Last(Rows) \in {Genesis} \cup Ids
    BY <1>1, RowOrNone DEF Genesis
  <1>3. Start(k, b) \in {0} \cup Ids
    <2>1. {i \in Rows \cup {nextId} : i >= b} \subseteq Ids /\ Rows \cup {nextId} \subseteq Ids
      BY <1>1
    <2>2. First({i \in Rows \cup {nextId} : i >= b}) \in {0} \cup Ids
      BY <2>1, RowOrNone
    <2>3. First(Rows \cup {nextId}) \in {0} \cup Ids
      BY <2>1, RowOrNone
    <2> QED
      BY <2>2, <2>3 DEF Start
  <1>4. Rotation(k) \in [Keys -> {0} \cup Ids]
    <2> SUFFICES ASSUME NEW old \in Keys PROVE Last({i \in Rows : ledger[i].key = old}) \in {0} \cup Ids
      BY DEF Rotation
    <2>1. {i \in Rows : ledger[i].key = old} \subseteq Ids
      BY <1>1
    <2> QED
      BY <2>1, RowOrNone
  <1>5. (IF OpensKey(k) THEN Rotation(k) ELSE Unlisted) \in [Keys -> {0} \cup Ids]
    BY <1>4 DEF Unlisted
  <1>6. (OpensKey(k) /\ ring.current # NoKey /\ Rotation(k) # Unlisted) \in BOOLEAN /\ (b > 0) \in BOOLEAN
    OBVIOUS
  <1> HIDE DEF Start, Rotation
  <1> QED
    BY <1>1, <1>2, <1>3, <1>5, <1>6 DEF Sealed, Entry

Base == TypeOK /\ Numbered /\ Turns /\ RingDue

\* What a writer's step does to the writers: w goes to r, the others stay.
Moves(w, r) == writer'[w] = r /\ \A v \in Writers \ {w} : writer'[v] = writer[v]

LEMMA MoveTyped ==
  ASSUME TypeOK, NEW w \in Writers, NEW r \in Writer, writer' = [writer EXCEPT ![w] = r]
  PROVE  writer' \in [Writers -> Writer] /\ Moves(w, r)
  BY DEF TypeOK, Moves

\* What a writer is before it has the lock and after it gave it back.
LEMMA FreeMoves ==
  ASSUME Base, NEW w \in Writers, NEW r \in Writer, Moves(w, r),
         r.pc \notin {"staged", "record"}, r.pc = "purge" => r.boundary \in 1..nextId,
         Rows' \subseteq Ids, \A i \in Rows' : i < nextId,
         \A v \in Writers \ {w} : Sealing(v) => \A i \in Rows' : i < writer[v].id,
         nextId' = nextId, ring' = ring \/ Sealing(w)
  PROVE  Numbered' /\ Turns' /\ RingDue'
  <1>1. Numbered' /\ Turns'
    BY DEF Base, Numbered, Turns, Sealing, Moves
  <1>2. ASSUME NEW v \in Writers, Sealing(v)'
        PROVE  v # w /\ writer'[v] = writer[v] /\ Sealing(v) /\ ring' = ring
    BY <1>2 DEF Sealing, Moves, Base, Turns
  <1> QED
    BY <1>1, <1>2 DEF Base, RingDue

LEMMA AppendMoves ==
  ASSUME Base, NEW w \in Writers, NEW pc \in {"staged", "record"}, NEW b \in 0..(MaxId + 1),
         b <= nextId, pc = "record" => b >= 1, Append(w, pc, b), Rows' = Rows,
         ring' = ring
  PROVE  /\ nextId \in Ids /\ nextId' = nextId + 1
         /\ writer' \in [Writers -> Writer]
         /\ \E r \in Writer : /\ Moves(w, r)
                              /\ r.pc = pc /\ r.id = nextId /\ r.entry = Sealed(KeyOf(w), b)
                              /\ r.ring = Reconciled(KeyOf(w)) /\ r.boundary = b
         /\ \A v \in Writers : ~Sealing(v)
         /\ Numbered' /\ Turns' /\ RingDue'
         /\ crossed' \in BOOLEAN /\ (crossed => crossed')
         /\ OpensKey(KeyOf(w)) /\ (\E p \in Writers : writer[p].pc = "batch") => crossed'
  <1>0. TypeOK /\ Numbered /\ Turns
    BY DEF Base
  <1>1. nextId \in Ids /\ nextId' = nextId + 1 /\ nextId <= MaxId
    BY <1>0, Bounds DEF TypeOK, Append, Ids
  <1>2. PICK r : r = [pc |-> pc, id |-> nextId, entry |-> Sealed(KeyOf(w), b), ring |-> Reconciled(KeyOf(w)),
                      boundary |-> b]
    OBVIOUS
  <1>3. Sealed(KeyOf(w), b) \in Entry /\ Reconciled(KeyOf(w)) \in Ring
    BY <1>0, <1>1, KeyOfTyped, SealedTyped, ReconciledTyped
  <1>4. /\ r \in Writer
        /\ r.pc = pc /\ r.id = nextId /\ r.entry = Sealed(KeyOf(w), b) /\ r.ring = Reconciled(KeyOf(w)) /\ r.boundary = b
    BY <1>1, <1>2, <1>3, WriterTyped
  <1>5. writer' = [writer EXCEPT ![w] = r]
    BY <1>2 DEF Append
  <1>6. writer' \in [Writers -> Writer] /\ Moves(w, r)
    BY <1>0, <1>4, <1>5, MoveTyped
  <1>7. \A v \in Writers : ~Sealing(v)
    BY DEF Append, Free, Sealing
  <1>8. Turns'
    BY <1>6, <1>7 DEF Turns, Sealing, Moves
  <1>9. Numbered'
    <2>1. \A i \in Rows' : i < nextId /\ i < nextId'
      BY <1>0, <1>1, IdsTyped DEF Numbered, TypeOK
    <2>2. \A v \in Writers : Sealing(v)' =>
             writer'[v].id \in Ids /\ writer'[v].id < nextId' /\ \A i \in Rows' : i < writer'[v].id
      BY <1>1, <1>4, <1>6, <1>7, <2>1, IdsTyped DEF Moves, Sealing
    <2>3. \A v \in Writers : writer'[v].pc = "purge" => writer'[v].boundary \in 1..nextId'
      BY <1>0, <1>1, <1>4, <1>6, IdsTyped DEF Moves, Numbered
    <2>4. \A v \in Writers : writer'[v].pc = "record" => writer'[v].boundary \in 1..writer'[v].id
      BY <1>1, <1>4, <1>6, <1>7, IdsTyped DEF Moves, Sealing
    <2> QED
      BY <2>1, <2>2, <2>3, <2>4 DEF Numbered
  <1>11. RingDue'
    <2> SUFFICES ASSUME NEW v \in Writers, Sealing(v)'
                 PROVE  LET new == writer'[v].ring  k == writer'[v].entry.key IN
                        IF new = NoRing THEN k \in {NoKey, ring.current}
                        ELSE k # NoKey /\ new.current = k /\ ring.history \cup {k} \subseteq new.history
      BY DEF RingDue
    <2>1. v = w
      BY <1>6, <1>7 DEF Moves, Sealing
    <2>2. writer'[v].ring = Reconciled(KeyOf(w)) /\ writer'[v].entry.key = KeyOf(w)
      BY <2>1, <1>4, <1>6 DEF Moves, Sealed
    <2>3. Reconciled(KeyOf(w)) = NoRing => KeyOf(w) \in {NoKey, ring.current}
      BY DEF Reconciled, NoRing
    <2>4. Reconciled(KeyOf(w)) # NoRing =>
            KeyOf(w) # NoKey /\ Reconciled(KeyOf(w)).current = KeyOf(w)
            /\ ring.history \cup {KeyOf(w)} \subseteq Reconciled(KeyOf(w)).history
      BY DEF Reconciled
    <2> QED
      BY <2>2, <2>3, <2>4
  <1>10. crossed' \in BOOLEAN /\ (crossed => crossed')
         /\ (OpensKey(KeyOf(w)) /\ (\E p \in Writers : writer[p].pc = "batch") => crossed')
    BY <1>0 DEF Append, TypeOK
  <1> QED
    BY <1>1, <1>4, <1>6, <1>7, <1>8, <1>9, <1>10, <1>11

\* A ledger without the rows of D, and the ledger once the row of w is committed.
Cut(L, D) == [i \in DOMAIN L \ D |-> L[i]]
With(w) == [i \in Rows \cup {writer[w].id} |->
              IF i = writer[w].id THEN writer[w].entry ELSE ledger[i]]

IsLedger(L) == DOMAIN L \subseteq Ids /\ \A i \in DOMAIN L : L[i] \in Entry

LEMMA CutRows ==
  ASSUME NEW L, NEW D
  PROVE  /\ DOMAIN Cut(L, D) = DOMAIN L \ D
         /\ \A i \in DOMAIN L \ D : Cut(L, D)[i] = L[i]
         /\ IsLedger(L) => IsLedger(Cut(L, D))
  BY DEF Cut, IsLedger

LEMMA WithRows ==
  ASSUME Base, NEW w \in Writers, Sealing(w)
  PROVE  /\ DOMAIN With(w) = Rows \cup {writer[w].id}
         /\ With(w)[writer[w].id] = writer[w].entry
         /\ \A i \in Rows : With(w)[i] = ledger[i] /\ i < writer[w].id
         /\ IsLedger(ledger) /\ IsLedger(With(w))
  <1>1. writer[w].id \in Ids /\ writer[w].entry \in Entry
    BY DEF Base, TypeOK, Numbered, Writer
  <1>2. \A i \in Rows : i < writer[w].id
    BY DEF Base, Numbered
  <1>3. \A i \in Rows : i # writer[w].id
    <2>1. writer[w].id \in Nat
      BY <1>1, IdsTyped
    <2> QED
      BY <1>2, <2>1
  <1>4. Rows \subseteq Ids /\ \A i \in Rows : ledger[i] \in Entry
    BY DEF Base, TypeOK
  <1> QED
    BY <1>1, <1>2, <1>3, <1>4 DEF With, IsLedger, Rows

\* The variables that no action but a few touches.
KeyringTyped == ring \in Ring /\ lost \subseteq Keys /\ faults \in 0..MaxFaults

\* _write_keyring leaves a history and loses keys only.
LEMMA WriteKeyringTyped ==
  ASSUME Base, NEW w \in Writers, Sealing(w), WriteKeyring(w)
  PROVE  KeyringTyped'
  <1>1. writer[w] \in Writer /\ KeyringTyped
    BY DEF Base, TypeOK, KeyringTyped
  <1>2. writer[w].ring \in Ring /\ writer[w].ring.current \in {NoKey} \cup Keys
    BY <1>1 DEF Writer, Ring
  <1>3. writer[w].ring # NoRing => writer[w].ring.current \in Keys
    BY <1>2 DEF Base, RingDue
  <1>4. CASE UNCHANGED faults
    BY <1>1, <1>2, <1>3, <1>4 DEF WriteKeyring, KeyringTyped
  <1>5. CASE Fault
    BY <1>1, <1>2, <1>3, <1>5, Bounds DEF WriteKeyring, KeyringTyped, Fault
  <1> QED
    BY <1>4, <1>5 DEF WriteKeyring

\* The rows are there once the transaction is committed, the batch is gone.
LEMMA CommitMoves ==
  ASSUME Base, NEW w \in Writers, Commit(w)
  PROVE  ledger' = With(w) /\ Sealing(w) /\ Moves(w, Idle) /\ Base'
  <1>1. Sealing(w) /\ ledger' = With(w)
    BY DEF Commit, Sealing, With
  <1>2. Moves(w, Idle) /\ writer' \in [Writers -> Writer]
    BY IdleTyped, MoveTyped DEF Commit, Base
  <1>3. Rows' = Rows \cup {writer[w].id} /\ IsLedger(ledger')
    BY <1>1, WithRows DEF Rows
  <1>4. KeyringTyped'
    BY <1>1, WriteKeyringTyped DEF Commit
  <1>5. TypeOK'
    BY <1>2, <1>3, <1>4 DEF Commit, StillMissing, Base, TypeOK, KeyringTyped, IsLedger, Rows
  <1>6. \A v \in Writers \ {w} : ~Sealing(v)
    BY <1>1 DEF Base, Turns
  <1>7. Rows' \subseteq Ids /\ \A i \in Rows' : i < nextId
    BY <1>1, <1>3, <1>5 DEF TypeOK, Base, Numbered
  <1>8. Numbered' /\ Turns' /\ RingDue'
    BY <1>1, <1>2, <1>6, <1>7, IdleTyped, FreeMoves DEF Commit
  <1> QED
    BY <1>1, <1>2, <1>5, <1>8 DEF Base

\* What each action does to the ledger, the history and the transactions.
LEMMA AfterBatchMoves ==
  ASSUME Base, NEW w \in Writers, writer' = [writer EXCEPT ![w] = AfterBatch(w)]
  PROVE  /\ Moves(w, AfterBatch(w)) /\ writer' \in [Writers -> Writer] /\ AfterBatch(w) \in Writer
         /\ \/ AfterBatch(w).pc = "idle"
            \/ AfterBatch(w).pc = "batch" /\ AfterBatch(w).boundary = writer[w].boundary
         /\ AfterBatch(w).entry = Blank
  <1>1. writer[w].boundary \in 0..(MaxId + 1)
    BY DEF Base, TypeOK, Writer
  <1>2. At("batch", writer[w].boundary) \in Writer /\ At("batch", writer[w].boundary).pc = "batch"
        /\ At("batch", writer[w].boundary).boundary = writer[w].boundary
        /\ At("batch", writer[w].boundary).entry = Blank
    BY <1>1, AtTyped
  <1>3. AfterBatch(w) = Idle \/ AfterBatch(w) = At("batch", writer[w].boundary)
    BY DEF AfterBatch
  <1>4. /\ AfterBatch(w) \in Writer
        /\ \/ AfterBatch(w).pc = "idle"
           \/ AfterBatch(w).pc = "batch" /\ AfterBatch(w).boundary = writer[w].boundary
        /\ AfterBatch(w).entry = Blank
    BY <1>2, <1>3, IdleTyped
  <1> QED
    BY <1>4, MoveTyped DEF Base

LEMMA FirstBatchMoves ==
  ASSUME Base, NEW w \in Writers, FirstBatch(w)
  PROVE  /\ ledger' = Cut(With(w), Batch(w)) /\ writer[w].pc = "record" /\ Sealing(w)
         /\ Moves(w, AfterBatch(w)) /\ Base'
  <1>1. Sealing(w) /\ writer[w].pc = "record"
    BY DEF FirstBatch, Sealing
  <1>2. Rows \subseteq Ids /\ Batch(w) \subseteq Rows
    BY BatchIsPrefix DEF Base, TypeOK
  <1>3. writer[w].id \notin Batch(w)
    <2>1. writer[w].id \in Nat
      BY <1>1, IdsTyped DEF Base, Numbered
    <2> QED
      BY <1>1, <1>2, <2>1 DEF Base, Numbered
  <1>4. ledger' = Cut(With(w), Batch(w))
    <2>1. ledger' = [i \in (Rows \ Batch(w)) \cup {writer[w].id} |->
                       IF i = writer[w].id THEN writer[w].entry ELSE ledger[i]]
      BY DEF FirstBatch
    <2>2. DOMAIN With(w) \ Batch(w) = (Rows \ Batch(w)) \cup {writer[w].id}
      BY <1>3 DEF With
    <2> QED
      BY <2>1, <2>2 DEF Cut, With
  <1>5. Moves(w, AfterBatch(w)) /\ writer' \in [Writers -> Writer] /\ AfterBatch(w) \in Writer
        /\ AfterBatch(w).pc \in {"idle", "batch"}
    BY AfterBatchMoves DEF FirstBatch
  <1>6. Rows' \subseteq Rows \cup {writer[w].id} /\ IsLedger(ledger')
    <2>1. DOMAIN With(w) = Rows \cup {writer[w].id} /\ IsLedger(With(w))
      BY <1>1, WithRows
    <2>2. DOMAIN Cut(With(w), Batch(w)) = DOMAIN With(w) \ Batch(w) /\ IsLedger(Cut(With(w), Batch(w)))
      BY <2>1, CutRows
    <2> QED
      BY <1>4, <2>1, <2>2 DEF Rows
  <1>7. KeyringTyped'
    BY <1>1, WriteKeyringTyped DEF FirstBatch
  <1>8. TypeOK'
    BY <1>5, <1>6, <1>7 DEF FirstBatch, StillMissing, Base, TypeOK, KeyringTyped, IsLedger, Rows
  <1>9. \A v \in Writers \ {w} : ~Sealing(v)
    BY <1>1 DEF Base, Turns
  <1>10. Rows' \subseteq Ids /\ \A i \in Rows' : i < nextId
    BY <1>1, <1>6, <1>8 DEF TypeOK, Base, Numbered
  <1>11. Numbered' /\ Turns' /\ RingDue'
    BY <1>1, <1>5, <1>9, <1>10, FreeMoves DEF FirstBatch
  <1> QED
    BY <1>1, <1>4, <1>5, <1>8, <1>11 DEF Base

LEMMA NextBatchMoves ==
  ASSUME Base, NEW w \in Writers, NextBatch(w)
  PROVE  /\ ledger' = Cut(ledger, Batch(w)) /\ writer[w].pc = "batch"
         /\ Moves(w, AfterBatch(w)) /\ Base'
  <1>1. ledger' = Cut(ledger, Batch(w)) /\ writer[w].pc = "batch"
    BY DEF NextBatch, Without, Cut, Rows
  <1>2. Moves(w, AfterBatch(w)) /\ writer' \in [Writers -> Writer] /\ AfterBatch(w) \in Writer
        /\ AfterBatch(w).pc \in {"idle", "batch"}
    BY AfterBatchMoves DEF NextBatch
  <1>3. IsLedger(ledger)
    BY DEF Base, TypeOK, IsLedger, Rows
  <1>4. Rows' \subseteq Rows /\ IsLedger(ledger')
    <2>1. DOMAIN Cut(ledger, Batch(w)) = DOMAIN ledger \ Batch(w) /\ IsLedger(Cut(ledger, Batch(w)))
      BY <1>3, CutRows
    <2> QED
      BY <1>1, <2>1 DEF Rows
  <1>5. TypeOK'
    BY <1>2, <1>4 DEF NextBatch, Base, TypeOK, IsLedger, Rows
  <1>6. Rows' \subseteq Ids /\ \A i \in Rows' : i < nextId
    BY <1>4, <1>5 DEF TypeOK, Base, Numbered
  <1>7. \A v \in Writers \ {w} : Sealing(v) => \A i \in Rows' : i < writer[v].id
    BY <1>4 DEF Base, Numbered
  <1>8. Numbered' /\ Turns' /\ RingDue'
    BY <1>2, <1>6, <1>7, FreeMoves DEF NextBatch
  <1> QED
    BY <1>1, <1>2, <1>5, <1>8 DEF Base

\* Steps that leave the ledger and the history alone and end without a row.
LEMMA RollbackMoves ==
  ASSUME Base, NEW w \in Writers, Rollback(w)
  PROVE  Moves(w, Idle) /\ Base'
  <1>1. Moves(w, Idle) /\ writer' \in [Writers -> Writer]
    BY IdleTyped, MoveTyped DEF Rollback, Base
  <1>2. TypeOK'
    BY <1>1 DEF Rollback, Base, TypeOK, Rows
  <1>3. Rows' = Rows
    BY DEF Rollback, Rows
  <1>4. Numbered' /\ Turns' /\ RingDue'
    BY <1>1, <1>3, IdleTyped, FreeMoves DEF Rollback, Base, TypeOK, Numbered
  <1> QED
    BY <1>1, <1>2, <1>4 DEF Base

LEMMA StartPurgeMoves ==
  ASSUME Base, NEW w \in Writers, NEW b \in 1..(MaxId + 1), StartPurge(w, b)
  PROVE  Moves(w, At("purge", b)) /\ At("purge", b).pc = "purge" /\ Base'
  <1>0. b \in 0..(MaxId + 1)
    BY Bounds
  <1>1. At("purge", b) \in Writer /\ At("purge", b).pc = "purge" /\ At("purge", b).boundary = b
    BY <1>0, AtTyped
  <1>2. Moves(w, At("purge", b)) /\ writer' \in [Writers -> Writer]
    BY <1>1, MoveTyped DEF StartPurge, Base
  <1>3. TypeOK'
    BY <1>2 DEF StartPurge, Base, TypeOK, Rows
  <1>4. b \in 1..nextId
    <2>1. Rows \subseteq Ids /\ Rows # {} /\ nextId \in Nat
      BY Bounds DEF StartPurge, Base, TypeOK
    <2>2. Last(Rows) \in Rows
      <3>1. Rows \subseteq 0..MaxId
        BY <2>1, IdsTyped
      <3> QED
        BY <2>1, <3>1, LastIsGreatest, Bounds
    <2>3. \A i \in Rows : i < nextId /\ i \in Nat
      BY <2>1, IdsTyped DEF Base, Numbered
    <2>4. b \in Rows \cup {Last(Rows) + 1}
      BY DEF StartPurge
    <2>5. b <= nextId
      <3>1. CASE b \in Rows
        BY <3>1, <2>3, <2>1
      <3>2. CASE b = Last(Rows) + 1
        <4>1. Last(Rows) < nextId /\ Last(Rows) \in Nat
          BY <2>2, <2>3
        <4> QED
          BY <3>2, <4>1, <2>1
      <3> QED
        BY <2>4, <3>1, <3>2
    <2> QED
      BY <2>1, <2>5
  <1>5. Rows' = Rows
    BY DEF StartPurge, Rows
  <1>6. Numbered' /\ Turns' /\ RingDue'
    BY <1>1, <1>2, <1>4, <1>5, FreeMoves DEF StartPurge, Base, TypeOK, Numbered
  <1> QED
    BY <1>1, <1>2, <1>3, <1>6 DEF Base

\* A row is added to a transaction: Stage and RecordPurge.
Adds(w, b) ==
    \/ Stage(w) /\ b = 0
    \/ RecordPurge(w) /\ b = writer[w].boundary

LEMMA AddMoves ==
  ASSUME Base, NEW w \in Writers, NEW b, Adds(w, b)
  PROVE  /\ b \in 0..nextId /\ nextId \in Ids
         /\ \E r \in Writer : /\ Moves(w, r) /\ r.pc \in {"staged", "record"}
                              /\ r.id = nextId /\ r.entry = Sealed(KeyOf(w), b) /\ r.boundary = b
                              /\ r.pc = "record" => b >= 1
         /\ \A v \in Writers : ~Sealing(v)
         /\ crossed => crossed'
         /\ OpensKey(KeyOf(w)) /\ (\E p \in Writers : writer[p].pc = "batch") => crossed'
         /\ UNCHANGED <<ledger, key, ring, removed, missing, lost, faults>>
         /\ nextId' = nextId + 1
         /\ Base'
  <1>1. UNCHANGED <<ledger, key, ring, removed, missing, lost, faults>> /\ Rows' = Rows
    BY DEF Adds, Stage, RecordPurge, Rows
  <1>2. nextId \in 1..(MaxId + 1)
    BY DEF Base, TypeOK
  <1>3. \E pc \in {"staged", "record"} :
           /\ Append(w, pc, b) /\ b \in 0..nextId /\ (pc = "record" => b >= 1)
    <2>1. CASE Stage(w) /\ b = 0
      <3>1. Append(w, "staged", b)
        BY <2>1 DEF Stage
      <3>2. b \in 0..nextId
        BY <2>1, <1>2, Bounds
      <3> QED
        BY <3>1, <3>2
    <2>2. CASE RecordPurge(w) /\ b = writer[w].boundary
      <3>1. writer[w].boundary \in 1..nextId
        BY <2>2 DEF Base, Numbered, RecordPurge
      <3>2. Append(w, "record", b)
        BY <2>2 DEF RecordPurge
      <3>3. b \in 0..nextId /\ b >= 1
        BY <2>2, <3>1, <1>2, Bounds
      <3> QED
        BY <3>2, <3>3
    <2> QED
      BY <2>1, <2>2 DEF Adds
  <1>4. PICK pc \in {"staged", "record"} :
           /\ Append(w, pc, b) /\ b \in 0..nextId /\ (pc = "record" => b >= 1)
    BY <1>3
  <1>5. b \in 0..(MaxId + 1) /\ b <= nextId
    BY <1>2, <1>4, Bounds
  <1>6. /\ nextId \in Ids /\ nextId' = nextId + 1
        /\ writer' \in [Writers -> Writer]
        /\ \E r \in Writer : /\ Moves(w, r)
                             /\ r.pc = pc /\ r.id = nextId /\ r.entry = Sealed(KeyOf(w), b)
                             /\ r.ring = Reconciled(KeyOf(w)) /\ r.boundary = b
        /\ \A v \in Writers : ~Sealing(v)
        /\ Numbered' /\ Turns' /\ RingDue'
        /\ crossed' \in BOOLEAN /\ (crossed => crossed')
        /\ OpensKey(KeyOf(w)) /\ (\E p \in Writers : writer[p].pc = "batch") => crossed'
    BY <1>1, <1>4, <1>5, AppendMoves
  <1>7. nextId' \in 1..(MaxId + 1)
    BY <1>6, Bounds DEF Ids
  <1>8. TypeOK'
    BY <1>1, <1>6, <1>7 DEF Base, TypeOK, Rows
  <1> QED
    BY <1>1, <1>4, <1>6, <1>8 DEF Base

\* A process has another key.
Rekeys == \E p \in Processes, k \in {NoKey} \cup Keys : ChangeKey(p, k)

LEMMA ChangeKeyMoves ==
  ASSUME Base, Rekeys
  PROVE  /\ UNCHANGED <<ledger, nextId, ring, writer, removed, missing, crossed, lost, faults>>
         /\ Base'
  <1>1. UNCHANGED <<ledger, nextId, ring, writer, removed, missing, crossed, lost, faults>>
    BY DEF Rekeys, ChangeKey
  <1>2. TypeOK /\ Numbered /\ Turns /\ RingDue
    BY DEF Base
  <1>3. key' \in [Processes -> {NoKey} \cup Keys]
    BY <1>2 DEF Rekeys, ChangeKey, TypeOK
  <1>4. TypeOK'
    BY <1>1, <1>2, <1>3 DEF TypeOK, Rows
  <1>5. Numbered' /\ Turns' /\ RingDue'
    BY <1>1, <1>2 DEF Numbered, Turns, RingDue, Sealing, Rows
  <1> QED
    BY <1>1, <1>4, <1>5 DEF Base

LEMMA RemoveRowMoves ==
  ASSUME Base, NEW i \in Ids, RemoveRow(i)
  PROVE  /\ ledger' = Cut(ledger, {i}) /\ i \in Rows /\ removed' # 0
         /\ Rows' = Rows \ {i} /\ \A j \in Rows' : ledger'[j] = ledger[j]
         /\ UNCHANGED <<nextId, key, ring, writer, crossed, lost, faults>>
         /\ Base'
  <1>1. ledger' = Cut(ledger, {i}) /\ i \in Rows
        /\ UNCHANGED <<nextId, key, ring, writer, crossed, lost, faults>>
    BY DEF RemoveRow, Without, Cut, Rows
  <1>2. removed' \in 0..MaxRemoved /\ removed' # 0
    BY Bounds DEF RemoveRow, Base, TypeOK
  <1>3. TypeOK /\ Numbered /\ Turns /\ RingDue
    BY DEF Base
  <1>4. IsLedger(ledger)
    BY <1>3 DEF TypeOK, IsLedger, Rows
  <1>5. Rows' = Rows \ {i} /\ IsLedger(ledger') /\ \A j \in Rows' : ledger'[j] = ledger[j]
    <2>1. DOMAIN Cut(ledger, {i}) = Rows \ {i} /\ IsLedger(Cut(ledger, {i}))
          /\ \A j \in Rows \ {i} : Cut(ledger, {i})[j] = ledger[j]
      BY <1>4, CutRows DEF Rows
    <2> QED
      BY <1>1, <2>1 DEF Rows
  <1>6. missing' \subseteq Ids
    BY <1>3 DEF RemoveRow, TypeOK
  <1>7. TypeOK'
    BY <1>1, <1>2, <1>3, <1>5, <1>6 DEF TypeOK, IsLedger, Rows
  <1>8. Numbered' /\ Turns' /\ RingDue'
    BY <1>1, <1>3, <1>5 DEF Numbered, Turns, RingDue, Sealing
  <1> QED
    BY <1>1, <1>2, <1>5, <1>7, <1>8 DEF Base

LEMMA InitBase == Init => Base
  <1> SUFFICES ASSUME Init PROVE Base
    OBVIOUS
  <1>1. Rows = {}
    BY DEF Init, Rows
  <1>2. TypeOK
    <2>1. writer \in [Writers -> Writer] /\ ring \in Ring
      BY IdleTyped, BlankTyped DEF Init
    <2>2. nextId \in 1..(MaxId + 1) /\ removed \in 0..MaxRemoved /\ faults \in 0..MaxFaults
      BY Bounds DEF Init
    <2>3. missing \subseteq Ids /\ lost \subseteq Keys /\ crossed \in BOOLEAN
          /\ key \in [Processes -> {NoKey} \cup Keys]
      BY DEF Init
    <2> QED
      BY <1>1, <2>1, <2>2, <2>3 DEF TypeOK
  <1>3. Numbered /\ Turns /\ RingDue
    BY <1>1, IdleTyped DEF Init, Numbered, Turns, RingDue, Sealing
  <1> QED
    BY <1>2, <1>3 DEF Base

\* A step, sorted by what it does to the ledger.
LEMMA Steps ==
  ASSUME [Next]_vars
  PROVE  \/ \E w \in Writers : \E b : Adds(w, b)
         \/ \E w \in Writers : Commit(w) \/ FirstBatch(w) \/ NextBatch(w) \/ Rollback(w)
         \/ \E w \in Writers, b \in 1..(MaxId + 1) : StartPurge(w, b)
         \/ Rekeys
         \/ \E i \in Ids : RemoveRow(i)
         \/ UNCHANGED vars
  BY DEF Next, Adds, Rekeys

\* Every step keeps the types, the numbering, the turns and the history that is due.
LEMMA StepBase == Base /\ [Next]_vars => Base'
  <1> SUFFICES ASSUME Base, [Next]_vars PROVE Base'
    OBVIOUS
  <1>1. ASSUME UNCHANGED vars PROVE Base'
    BY <1>1 DEF vars, Base, TypeOK, Numbered, Turns, RingDue, Sealing, Rows
  <1> QED
    BY <1>1, Steps, AddMoves, CommitMoves, FirstBatchMoves, NextBatchMoves, RollbackMoves,
       StartPurgeMoves, ChangeKeyMoves, RemoveRowMoves

\* Whatever writers, purges, crashes, changes of the key and removals do, the ledger, the key
\* history and the transactions are of their types: _reconcile_keyring lists keys only (no
\* history is not taken for one) and what append_entry seals names rows there could be.
THEOREM AuditTyped == Spec => []TypeOK
  <1>1. Base => TypeOK
    BY DEF Base
  <1> QED
    BY <1>1, InitBase, StepBase, PTL DEF Spec

-----------------------------------------------------------------------------
(* The order of the links *)

\* A row is linked to an earlier one, and to no row with another in between.
Ordered(L) ==
    \A i \in DOMAIN L : L[i].prev < i /\ \A j \in DOMAIN L : j < i => j <= L[i].prev

Order == Ordered(ledger) /\ \A w \in Writers : Sealing(w) => Ordered(With(w))

LEMMA CutOrdered ==
  ASSUME NEW L, NEW D, Ordered(L)
  PROVE  Ordered(Cut(L, D))
  <1>1. DOMAIN Cut(L, D) = DOMAIN L \ D /\ \A i \in DOMAIN L \ D : Cut(L, D)[i] = L[i]
    BY CutRows
  <1> QED
    BY <1>1 DEF Ordered

LEMMA LastRow ==
  ASSUME Base
  PROVE  /\ Rows \subseteq Ids /\ Rows \subseteq Nat /\ Last(Rows) \in Nat
         /\ Rows = {} => Last(Rows) = 0
         /\ Rows # {} => Last(Rows) \in Rows /\ \A i \in Rows : i <= Last(Rows)
  <1>1. Rows \subseteq Ids /\ Rows \subseteq Nat /\ Rows \subseteq 0..MaxId
    BY IdsTyped DEF Base, TypeOK
  <1>2. Rows = {} => Last(Rows) = 0
    BY <1>1, LastIsGreatest, Bounds
  <1>3. Rows # {} => Last(Rows) \in Rows /\ \A i \in Rows : Last(Rows) >= i
    BY <1>1, LastIsGreatest, Bounds
  <1>4. Last(Rows) \in Nat
    <2>1. CASE Rows = {}
      BY <1>2, <2>1
    <2>2. CASE Rows # {}
      BY <1>1, <1>3, <2>2
    <2> QED
      BY <2>1, <2>2
  <1> QED
    BY <1>1, <1>2, <1>3, <1>4

\* The chain_start of a row that is sealed now.
LEMMA StartIs ==
  ASSUME Base, nextId \in Ids, NEW k, NEW b \in 0..nextId
  PROVE  /\ b > 0 => Start(k, b) \in Rows \cup {nextId} /\ Start(k, b) >= b
         /\ b = 0 /\ OpensKey(k) => /\ Start(k, b) \in Rows \cup {nextId}
                                 /\ \A i \in Rows \cup {nextId} : Start(k, b) <= i
         /\ b = 0 /\ ~OpensKey(k) => Start(k, b) = 0
  <1>1. Rows \cup {nextId} \subseteq Nat /\ nextId \in Nat
    BY LastRow, IdsTyped
  <1>2. ASSUME b > 0 PROVE Start(k, b) \in Rows \cup {nextId} /\ Start(k, b) >= b
    <2> DEFINE S == {i \in Rows \cup {nextId} : i >= b}
    <2>1. nextId \in S /\ S \subseteq Nat
      BY <1>1
    <2>2. First(S) \in S
      BY <2>1, FirstIsLeast
    <2>3. Start(k, b) = First(S)
      BY <1>2 DEF Start
    <2> QED
      BY <2>2, <2>3
  <1>3. ASSUME b = 0, OpensKey(k)
        PROVE  Start(k, b) \in Rows \cup {nextId} /\ \A i \in Rows \cup {nextId} : Start(k, b) <= i
    <2>1. Start(k, b) = First(Rows \cup {nextId})
      BY <1>3 DEF Start
    <2>2. Rows \cup {nextId} # {}
      OBVIOUS
    <2> QED
      BY <1>1, <2>1, <2>2, FirstIsLeast
  <1>4. b = 0 /\ ~OpensKey(k) => Start(k, b) = 0
    BY DEF Start
  <1> QED
    BY <1>2, <1>3, <1>4

LEMMA SealedIs ==
  ASSUME NEW k, NEW b
  PROVE  /\ Sealed(k, b).prev = Last(Rows) /\ Sealed(k, b).key = k /\ Sealed(k, b).start = Start(k, b)
         /\ Sealed(k, b).attested = (OpensKey(k) /\ ring.current # NoKey /\ Rotation(k) # Unlisted)
         /\ OpensKey(k) => Sealed(k, b).retired = Rotation(k)
         /\ Sealed(k, b).purge = (b > 0)
  BY DEF Sealed

\* The ledger with the row that was added last.
LEMMA AddedWith ==
  ASSUME Base, NEW w \in Writers, NEW b, Adds(w, b)
  PROVE  /\ Sealing(w)' /\ \A v \in Writers \ {w} : ~Sealing(v)'
         /\ DOMAIN With(w)' = Rows \cup {nextId}
         /\ With(w)'[nextId] = Sealed(KeyOf(w), b)
         /\ \A i \in Rows : With(w)'[i] = ledger[i] /\ i < nextId
  <1>1. /\ \E r \in Writer : Moves(w, r) /\ r.pc \in {"staged", "record"} /\ r.id = nextId /\ r.entry = Sealed(KeyOf(w), b)
        /\ \A v \in Writers : ~Sealing(v)
        /\ ledger' = ledger /\ Base'
    BY AddMoves
  <1>2. Sealing(w)' /\ writer'[w].id = nextId /\ writer'[w].entry = Sealed(KeyOf(w), b)
        /\ \A v \in Writers \ {w} : ~Sealing(v)'
    BY <1>1 DEF Moves, Sealing
  <1>3. Rows' = Rows
    BY <1>1 DEF Rows
  <1>4. nextId \notin Rows /\ \A i \in Rows : i < nextId
    BY LastRow DEF Base, Numbered
  <1>5. With(w)' = [i \in Rows \cup {nextId} |-> IF i = nextId THEN Sealed(KeyOf(w), b) ELSE ledger[i]]
    BY <1>1, <1>2, <1>3 DEF With
  <1> QED
    BY <1>2, <1>4, <1>5

\* Who holds the lock after a step of another writer held it before, with the same row.
LEMMA StillSealing ==
  ASSUME NEW w \in Writers, NEW r, Moves(w, r), r.pc \notin {"staged", "record"},
         NEW v \in Writers, Sealing(v)'
  PROVE  v # w /\ Sealing(v) /\ writer'[v] = writer[v]
  BY DEF Moves, Sealing

LEMMA WithCut ==
  ASSUME Base, NEW w \in Writers, Sealing(w), NEW D, D \subseteq Rows, ledger' = Cut(ledger, D),
         writer'[w] = writer[w]
  PROVE  With(w)' = Cut(With(w), D)
  <1>1. writer[w].id \notin D /\ DOMAIN With(w) = Rows \cup {writer[w].id}
    <2>1. writer[w].id \in Nat /\ \A i \in Rows : i < writer[w].id
      BY IdsTyped DEF Base, Numbered
    <2> QED
      BY <2>1, WithRows
  <1>2. Rows' = Rows \ D /\ \A i \in Rows \ D : ledger'[i] = ledger[i]
    BY CutRows DEF Rows
  <1>3. With(w)' = [i \in Rows' \cup {writer[w].id} |->
                      IF i = writer[w].id THEN writer[w].entry ELSE ledger'[i]]
    BY DEF With
  <1>4. Cut(With(w), D) = [i \in (Rows \cup {writer[w].id}) \ D |-> With(w)[i]]
    BY <1>1 DEF Cut
  <1>5. (Rows \cup {writer[w].id}) \ D = Rows' \cup {writer[w].id}
    BY <1>1, <1>2
  <1>6. \A i \in Rows' \cup {writer[w].id} :
           With(w)[i] = IF i = writer[w].id THEN writer[w].entry ELSE ledger'[i]
    BY <1>2 DEF With
  <1> QED
    BY <1>3, <1>4, <1>5, <1>6

\* A step that keeps the ledger and gives nobody the lock keeps what can be committed.
LEMMA SameWith ==
  ASSUME NEW v, writer'[v] = writer[v], ledger' = ledger
  PROVE  With(v)' = With(v)
  BY DEF With, Rows

\* Every step keeps the order of the rows, committed or about to be.
LEMMA StepOrder ==
  ASSUME Base, Order, [Next]_vars
  PROVE  Order'
  <1>1. ASSUME NEW w \in Writers, NEW b, Adds(w, b) PROVE Order'
    <2>1. ledger' = ledger
      BY <1>1, AddMoves
    <2>2. /\ Sealing(w)' /\ \A v \in Writers \ {w} : ~Sealing(v)'
          /\ DOMAIN With(w)' = Rows \cup {nextId}
          /\ With(w)'[nextId] = Sealed(KeyOf(w), b)
          /\ \A i \in Rows : With(w)'[i] = ledger[i] /\ i < nextId
      BY <1>1, AddedWith
    <2>3. Sealed(KeyOf(w), b).prev = Last(Rows) /\ nextId \in Nat /\ Last(Rows) < nextId
          /\ \A i \in Rows : i <= Last(Rows)
      <3>1. nextId \in Ids /\ nextId \in Nat /\ nextId # 0
        BY <1>1, AddMoves, IdsTyped
      <3> QED
        BY <2>2, <3>1, LastRow, SealedIs
    <2>4. \A i \in Rows : ledger[i].prev < i /\ \A j \in Rows : j < i => j <= ledger[i].prev
      BY DEF Order, Ordered, Rows
    <2>5. Ordered(With(w)')
      <3> SUFFICES ASSUME NEW i \in Rows \cup {nextId}
                   PROVE  /\ With(w)'[i].prev < i
                          /\ \A j \in Rows \cup {nextId} : j < i => j <= With(w)'[i].prev
        BY <2>2 DEF Ordered
      <3>1. CASE i = nextId
        BY <2>2, <2>3, <3>1
      <3>2. CASE i \in Rows
        <4>1. i < nextId /\ i \in Nat /\ With(w)'[i] = ledger[i]
          BY <2>2, <3>2, LastRow
        <4> QED
          BY <2>3, <2>4, <3>2, <4>1
      <3> QED
        BY <3>1, <3>2
    <2> QED
      BY <2>1, <2>2, <2>5 DEF Order
  <1>2. ASSUME NEW w \in Writers, Commit(w) PROVE Order'
    <2>1. ledger' = With(w) /\ Sealing(w) /\ Moves(w, Idle)
      BY <1>2, CommitMoves
    <2>2. \A v \in Writers : ~Sealing(v)'
      BY <2>1, IdleTyped DEF Base, Turns, Moves, Sealing
    <2>3. Ordered(With(w))
      BY <2>1 DEF Order
    <2> QED
      BY <2>1, <2>2, <2>3 DEF Order
  <1>3. ASSUME NEW w \in Writers, FirstBatch(w) PROVE Order'
    <2>1. ledger' = Cut(With(w), Batch(w)) /\ Sealing(w) /\ Moves(w, AfterBatch(w))
      BY <1>3, FirstBatchMoves
    <2>2. AfterBatch(w).pc \in {"idle", "batch"}
      BY <1>3, AfterBatchMoves DEF FirstBatch
    <2>3. \A v \in Writers : ~Sealing(v)'
      BY <2>1, <2>2 DEF Base, Turns, Moves, Sealing
    <2>4. Ordered(Cut(With(w), Batch(w)))
      BY <2>1, CutOrdered DEF Order
    <2> QED
      BY <2>1, <2>3, <2>4 DEF Order
  <1>4. ASSUME NEW D, D \subseteq Rows, ledger' = Cut(ledger, D),
               \A v \in Writers : Sealing(v)' => Sealing(v) /\ writer'[v] = writer[v]
        PROVE  Order'
    <2>1. Ordered(ledger')
      BY <1>4, CutOrdered DEF Order
    <2>2. ASSUME NEW v \in Writers, Sealing(v)' PROVE Ordered(With(v)')
      <3>1. Sealing(v) /\ writer'[v] = writer[v]
        BY <1>4, <2>2
      <3>2. With(v)' = Cut(With(v), D)
        BY <1>4, <3>1, WithCut
      <3>3. Ordered(Cut(With(v), D))
        BY <3>1, CutOrdered DEF Order
      <3> QED
        BY <3>2, <3>3
    <2> QED
      BY <2>1, <2>2 DEF Order
  <1>5. ASSUME NEW w \in Writers, NextBatch(w) PROVE Order'
    <2>1. ledger' = Cut(ledger, Batch(w)) /\ Moves(w, AfterBatch(w))
      BY <1>5, NextBatchMoves
    <2>2. AfterBatch(w).pc \in {"idle", "batch"}
      BY <1>5, AfterBatchMoves DEF NextBatch
    <2>3. Batch(w) \subseteq Rows
      BY BatchIsPrefix DEF Base, TypeOK
    <2> QED
      BY <2>1, <2>2, <2>3, <1>4, StillSealing
  <1>6. ASSUME NEW i \in Ids, RemoveRow(i) PROVE Order'
    <2>1. ledger' = Cut(ledger, {i}) /\ i \in Rows /\ writer' = writer
      BY <1>6, RemoveRowMoves
    <2>2. \A v \in Writers : Sealing(v)' => Sealing(v) /\ writer'[v] = writer[v]
      BY <2>1 DEF Sealing
    <2> QED
      BY <2>1, <2>2, <1>4
  <1>7. ASSUME ledger' = ledger,
               \A v \in Writers : Sealing(v)' => Sealing(v) /\ writer'[v] = writer[v]
        PROVE  Order'
    BY <1>7, SameWith DEF Order
  <1>8. ASSUME NEW w \in Writers, Rollback(w) PROVE Order'
    BY <1>7, <1>8, RollbackMoves, IdleTyped, StillSealing DEF Rollback
  <1>9. ASSUME NEW w \in Writers, NEW b \in 1..(MaxId + 1), StartPurge(w, b) PROVE Order'
    BY <1>7, <1>9, StartPurgeMoves, StillSealing DEF StartPurge
  <1>10. ASSUME Rekeys \/ UNCHANGED vars PROVE Order'
    <2>1. ledger' = ledger /\ writer' = writer
      BY <1>10 DEF Rekeys, ChangeKey, vars
    <2> QED
      BY <2>1, <1>7 DEF Sealing
  <1> QED
    BY <1>1, <1>2, <1>3, <1>5, <1>6, <1>8, <1>9, <1>10, Steps

-----------------------------------------------------------------------------
(* Rows removed by hand *)

\* Row m is missing: every later row is linked to it or to one after it, ...
Shown(m) ==
    /\ \A n \in Rows : n > m => ledger[n].prev >= m
    /\ \A w \in Writers : Sealing(w) => writer[w].entry.prev >= m \/ writer[w].entry.start > m

\* ... or a purge took the rest as well, and no key was in use since.
Unkeyed(m) ==
    /\ \A n \in Rows : n > m /\ ledger[n].key = NoKey
    /\ \A w \in Writers : Sealing(w) => writer[w].entry.key = NoKey \/ writer[w].entry.start > m

Gone(m) ==
    /\ m < nextId /\ m \notin Rows
    /\ \A w \in Writers : Sealing(w) => m < writer[w].id
    /\ Rows = {} \/ \E n \in Rows : n > m
    /\ \A n \in Rows : ledger[n].start <= m
    /\ Shown(m) \/ Unkeyed(m)

Missed == \A m \in missing : Gone(m)

\* Fewer rows, as long as the later ones do not go first, and no new row.
LEMMA GoneStays ==
  ASSUME NEW m \in Nat, Gone(m), Base, nextId' = nextId,
         Rows' \subseteq Rows, \A n \in Rows' : ledger'[n] = ledger[n],
         \A v \in Writers : Sealing(v)' => Sealing(v) /\ writer'[v] = writer[v],
         Rows' = {} \/ \E n \in Rows' : n > m
  PROVE  Gone(m)'
  <1>1. Shown(m) => Shown(m)'
    BY DEF Shown
  <1>2. Unkeyed(m) => Unkeyed(m)'
    BY DEF Unkeyed
  <1> QED
    BY <1>1, <1>2 DEF Gone

\* A row known to be gone stays so when a row is added ...
LEMMA GoneAdded ==
  ASSUME NEW m \in Nat, Gone(m), Base, NEW w \in Writers, NEW b, Adds(w, b)
  PROVE  Gone(m)'
  <1>1. /\ b \in 0..nextId /\ nextId \in Ids /\ ledger' = ledger /\ nextId' = nextId + 1
        /\ \E r \in Writer : Moves(w, r) /\ r.id = nextId /\ r.entry = Sealed(KeyOf(w), b)
        /\ \A v \in Writers : ~Sealing(v)
    BY AddMoves
  <1>2. writer'[w].id = nextId /\ writer'[w].entry = Sealed(KeyOf(w), b)
        /\ \A v \in Writers : Sealing(v)' => v = w
    BY <1>1 DEF Moves, Sealing
  <1>3. Rows' = Rows /\ \A n \in Rows : ledger'[n] = ledger[n]
    BY <1>1 DEF Rows
  <1>4. nextId \in Nat /\ m < nextId
    BY <1>1, IdsTyped DEF Gone
  <1>5. OpensKey(KeyOf(w)) => Start(KeyOf(w), b) \in Rows \cup {nextId}
    <2>1. b = 0 \/ b > 0
      BY <1>1, <1>4
    <2> QED
      BY <1>1, <2>1, StartIs
  <1>6. Sealed(KeyOf(w), b).prev = Last(Rows) /\ Sealed(KeyOf(w), b).key = KeyOf(w) /\ Sealed(KeyOf(w), b).start = Start(KeyOf(w), b)
    BY SealedIs
  <1>7. /\ Rows \subseteq Nat /\ Last(Rows) \in Nat
        /\ Rows # {} => Last(Rows) \in Rows /\ \A i \in Rows : i <= Last(Rows)
    BY LastRow
  <1>8. Shown(m)' \/ Unkeyed(m)'
    <2>1. CASE Rows = {} /\ KeyOf(w) = NoKey
      BY <1>2, <1>3, <1>6, <2>1 DEF Unkeyed
    <2>2. CASE Rows = {} /\ KeyOf(w) # NoKey
      <3>1. Start(KeyOf(w), b) = nextId
        BY <1>5, <2>2 DEF OpensKey
      <3> QED
        BY <1>2, <1>3, <1>4, <1>6, <2>2, <3>1 DEF Shown
    <2>3. CASE Rows # {} /\ Shown(m)
      <3>1. PICK n \in Rows : n > m
        BY <2>3 DEF Gone
      <3>2. Last(Rows) >= m
        BY <1>7, <3>1, <2>3
      <3> QED
        BY <1>2, <1>3, <1>6, <2>3, <3>2 DEF Shown
    <2>4. CASE Rows # {} /\ Unkeyed(m) /\ KeyOf(w) = NoKey
      BY <1>2, <1>3, <1>6, <2>4 DEF Unkeyed
    <2>5. CASE Rows # {} /\ Unkeyed(m) /\ KeyOf(w) # NoKey
      <3>1. OpensKey(KeyOf(w))
        BY <1>7, <2>5 DEF OpensKey, Unkeyed
      <3>2. Start(KeyOf(w), b) > m
        BY <1>4, <1>5, <3>1, <2>5 DEF Unkeyed
      <3> QED
        BY <1>2, <1>3, <1>6, <2>5, <3>2 DEF Unkeyed
    <2> QED
      BY <2>1, <2>2, <2>3, <2>4, <2>5 DEF Gone
  <1> QED
    BY <1>1, <1>2, <1>3, <1>4, <1>8 DEF Gone

\* The row is committed, alone or with the first batch of a purge.
LEMMA GoneCommitted ==
  ASSUME NEW m \in Nat, Gone(m), Base, NEW w \in Writers, Sealing(w),
         m \in StillMissing(writer[w].entry),
         NEW D, D \subseteq Rows, ledger' = Cut(With(w), D),
         \A v \in Writers : ~Sealing(v)', nextId' = nextId
  PROVE  Gone(m)'
  <1>1. /\ DOMAIN With(w) = Rows \cup {writer[w].id}
        /\ With(w)[writer[w].id] = writer[w].entry
        /\ \A i \in Rows : With(w)[i] = ledger[i] /\ i < writer[w].id
    BY WithRows
  <1>2. writer[w].id \in Nat /\ m < writer[w].id
    BY IdsTyped DEF Base, Numbered, Gone
  <1>3. writer[w].id \notin D
    BY <1>1, <1>2
  <1>4. /\ DOMAIN Cut(With(w), D) = DOMAIN With(w) \ D
        /\ \A i \in DOMAIN With(w) \ D : Cut(With(w), D)[i] = With(w)[i]
    BY CutRows
  <1>5. /\ Rows' = (Rows \ D) \cup {writer[w].id}
        /\ ledger'[writer[w].id] = writer[w].entry
        /\ \A i \in Rows \ D : ledger'[i] = ledger[i]
    BY <1>1, <1>3, <1>4 DEF Rows
  <1>6. writer[w].entry.start = 0 \/ m >= writer[w].entry.start
    BY DEF StillMissing
  <1>7. writer[w].entry.start <= m /\ ~(writer[w].entry.start > m)
    <2>1. writer[w].entry \in Entry
      BY DEF Base, TypeOK, Writer
    <2>2. writer[w].entry.start \in {0} \cup Ids
      BY <2>1 DEF Entry
    <2>3. writer[w].entry.start \in Nat
      BY <2>2, IdOrNone
    <2> QED
      BY <1>6, <2>3
  <1>8. Shown(m) => Shown(m)'
    BY <1>5, <1>7 DEF Shown
  <1>9. Unkeyed(m) => Unkeyed(m)'
    BY <1>2, <1>5, <1>7 DEF Unkeyed
  <1>10. \E n \in Rows' : n > m
    BY <1>2, <1>5
  <1>11. m \notin Rows' /\ \A n \in Rows' : ledger'[n].start <= m
    BY <1>2, <1>5, <1>7 DEF Gone
  <1> QED
    BY <1>8, <1>9, <1>10, <1>11 DEF Gone

\* ... and after a removal by hand every row that RemoveRow still counts as missing is one.
LEMMA GoneByHand ==
  ASSUME Base, Order, Missed, NEW i \in Ids, RemoveRow(i)
  PROVE  Missed'
  <1> SUFFICES ASSUME NEW m \in missing' PROVE Gone(m)'
    BY DEF Missed
  <1>1. /\ i \in Rows /\ Rows' = Rows \ {i} /\ \A j \in Rows' : ledger'[j] = ledger[j]
        /\ nextId' = nextId /\ writer' = writer
    BY RemoveRowMoves
  <1> DEFINE starts == {ledger[x].start : x \in Rows}
  <1>2. m \in missing \cup {i} /\ m < Last(Rows \ {i}) /\ m >= Last(starts)
    BY DEF RemoveRow
  <1>3. /\ Rows \subseteq Nat /\ Rows \subseteq Ids /\ m \in Nat
        /\ \A x \in Rows : ledger[x].start \in {0} \cup Ids
    BY <1>1, <1>2, LastRow, IdsTyped DEF Base, TypeOK, Entry
  <1>4. \A x \in Rows : ledger[x].start <= m
    <2>1. starts \subseteq 0..MaxId
      BY <1>3, IdOrNone
    <2>2. \A y \in starts : Last(starts) >= y /\ Last(starts) \in starts
      BY <2>1, LastIsGreatest, Bounds
    <2>3. ASSUME NEW x \in Rows PROVE ledger[x].start <= m
      <3>1. ledger[x].start \in starts
        OBVIOUS
      <3>2. Last(starts) >= ledger[x].start /\ Last(starts) \in Nat /\ ledger[x].start \in Nat
        BY <2>1, <2>2, <3>1, Bounds
      <3> QED
        BY <1>2, <1>3, <3>2
    <2> QED
      BY <2>3
  <1>5. Rows' = {} \/ \E n \in Rows' : n > m
    <2>1. Rows \ {i} \subseteq 0..MaxId
      BY <1>3, IdsTyped
    <2>2. Rows' # {} => Last(Rows \ {i}) \in Rows'
      BY <1>1, <2>1, LastIsGreatest, Bounds
    <2> QED
      BY <1>2, <1>3, <2>2
  <1>6. \A v \in Writers : Sealing(v)' => Sealing(v) /\ writer'[v] = writer[v]
    BY <1>1 DEF Sealing
  <1>7. CASE m \in missing
    <2>1. Gone(m)
      BY <1>7 DEF Missed
    <2> QED
      BY <1>1, <1>3, <1>5, <1>6, <2>1, GoneStays
  <1>8. CASE m = i
    <2>1. m < nextId' /\ m \notin Rows'
      BY <1>1, <1>8 DEF Base, Numbered
    <2>2. \A v \in Writers : Sealing(v) => m < writer[v].id /\ writer[v].entry.prev >= m
      <3> SUFFICES ASSUME NEW v \in Writers, Sealing(v)
                   PROVE  m < writer[v].id /\ writer[v].entry.prev >= m
        OBVIOUS
      <3>1. /\ DOMAIN With(v) = Rows \cup {writer[v].id}
            /\ With(v)[writer[v].id] = writer[v].entry /\ m < writer[v].id
        BY <1>1, <1>8, WithRows
      <3>2. m <= writer[v].entry.prev
        BY <1>1, <1>8, <3>1 DEF Order, Ordered
      <3>3. writer[v].entry.prev \in Nat
        <4>1. writer[v].entry \in Entry
          BY DEF Base, TypeOK, Writer
        <4>2. writer[v].entry.prev \in {Genesis} \cup Ids
          BY <4>1 DEF Entry
        <4> QED
          BY <4>2, IdOrNone DEF Genesis
      <3> QED
        BY <1>3, <3>1, <3>2, <3>3
    <2>3. \A n \in Rows : n > m => ledger[n].prev >= m
      <3> SUFFICES ASSUME NEW n \in Rows, n > m PROVE ledger[n].prev >= m
        OBVIOUS
      <3>1. m <= ledger[n].prev
        BY <1>1, <1>3, <1>8 DEF Order, Ordered, Rows
      <3>2. ledger[n].prev \in {Genesis} \cup Ids
        BY DEF Base, TypeOK, Entry
      <3>3. ledger[n].prev \in Nat
        BY <3>2, IdOrNone DEF Genesis
      <3> QED
        BY <1>3, <3>1, <3>3
    <2>4. Shown(m)'
      BY <1>1, <1>6, <2>2, <2>3 DEF Shown
    <2> QED
      BY <1>1, <1>4, <1>5, <1>6, <2>1, <2>2, <2>4 DEF Gone
  <1> QED
    BY <1>2, <1>7, <1>8

\* Every step keeps what is known of the rows that are missing.
LEMMA StepMissed ==
  ASSUME Base, Order, Missed, [Next]_vars
  PROVE  Missed'
  <1>0. missing \subseteq Nat
    BY IdsTyped DEF Base, TypeOK
  <1>1. ASSUME NEW w \in Writers, NEW b, Adds(w, b) PROVE Missed'
    <2>1. missing' = missing
      BY <1>1, AddMoves
    <2> QED
      BY <1>0, <1>1, <2>1, GoneAdded DEF Missed
  <1>2. ASSUME NEW w \in Writers, Commit(w) PROVE Missed'
    <2>1. ledger' = With(w) /\ Sealing(w) /\ Moves(w, Idle)
      BY <1>2, CommitMoves
    <2>2. \A v \in Writers : ~Sealing(v)'
      BY <2>1, IdleTyped DEF Base, Turns, Moves, Sealing
    <2>3. missing' = StillMissing(writer[w].entry) /\ missing' \subseteq missing /\ nextId' = nextId
      BY <1>2 DEF Commit, StillMissing
    <2>4. Cut(With(w), {}) = With(w)
      BY DEF Cut, With
    <2>5. ledger' = Cut(With(w), {})
      BY <2>1, <2>4
    <2>6. ASSUME NEW m \in missing' PROVE Gone(m)'
      <3>1. m \in Nat /\ Gone(m) /\ m \in StillMissing(writer[w].entry)
        BY <1>0, <2>3, <2>6 DEF Missed
      <3> QED
        BY <2>1, <2>2, <2>3, <2>5, <3>1, GoneCommitted
    <2> QED
      BY <2>6 DEF Missed
  <1>3. ASSUME NEW w \in Writers, FirstBatch(w) PROVE Missed'
    <2>1. ledger' = Cut(With(w), Batch(w)) /\ Sealing(w) /\ Moves(w, AfterBatch(w))
      BY <1>3, FirstBatchMoves
    <2>2. AfterBatch(w).pc \in {"idle", "batch"}
      BY <1>3, AfterBatchMoves DEF FirstBatch
    <2>3. \A v \in Writers : ~Sealing(v)'
      BY <2>1, <2>2 DEF Base, Turns, Moves, Sealing
    <2>4. missing' = StillMissing(writer[w].entry) /\ missing' \subseteq missing /\ nextId' = nextId
      BY <1>3 DEF FirstBatch, StillMissing
    <2>5. Batch(w) \subseteq Rows
      BY BatchIsPrefix DEF Base, TypeOK
    <2>6. ASSUME NEW m \in missing' PROVE Gone(m)'
      <3>1. m \in Nat /\ Gone(m) /\ m \in StillMissing(writer[w].entry)
        BY <1>0, <2>4, <2>6 DEF Missed
      <3> QED
        BY <2>1, <2>3, <2>4, <2>5, <3>1, GoneCommitted
    <2> QED
      BY <2>6 DEF Missed
  <1>4. ASSUME NEW w \in Writers, NextBatch(w) PROVE Missed'
    <2>1. ledger' = Cut(ledger, Batch(w)) /\ Moves(w, AfterBatch(w))
      BY <1>4, NextBatchMoves
    <2>2. AfterBatch(w).pc \in {"idle", "batch"}
      BY <1>4, AfterBatchMoves DEF NextBatch
    <2>3. writer[w].boundary \in Int
      BY Bounds DEF Base, TypeOK, Writer
    <2>4. Batch(w) \subseteq Rows /\ \A i \in Batch(w), j \in Rows : j < i => j \in Batch(w)
      BY <2>3, BatchIsPrefix DEF Base, TypeOK
    <2>5. Rows' = Rows \ Batch(w) /\ \A n \in Rows' : ledger'[n] = ledger[n]
      BY <2>1 DEF Cut, Rows
    <2>6. \A v \in Writers : Sealing(v)' => Sealing(v) /\ writer'[v] = writer[v]
      BY <2>1, <2>2, StillSealing
    <2>7. missing' = missing /\ nextId' = nextId
      BY <1>4 DEF NextBatch
    <2>8. ASSUME NEW m \in missing PROVE Gone(m)'
      <3>1. Gone(m) /\ m \in Nat
        BY <1>0 DEF Missed
      <3>2. ASSUME NEW x \in Rows' PROVE \E n \in Rows' : n > m
        <4>1. PICK n \in Rows : n > m
          BY <2>5, <3>1 DEF Gone
        <4>2. CASE n \in Rows'
          BY <4>1, <4>2
        <4>3. CASE n \in Batch(w)
          <5>1. x \in Rows /\ ~(x < n) /\ x \in Nat /\ n \in Nat
            BY <2>4, <2>5, <4>3, LastRow
          <5> QED
            BY <3>1, <4>1, <5>1
        <4> QED
          BY <2>5, <4>2, <4>3
      <3>3. Rows' = {} \/ \E n \in Rows' : n > m
        BY <3>2
      <3> QED
        BY <2>5, <2>6, <2>7, <3>1, <3>3, GoneStays
    <2> QED
      BY <2>7, <2>8 DEF Missed
  <1>5. ASSUME ledger' = ledger, missing' = missing, nextId' = nextId,
               \A v \in Writers : Sealing(v)' => Sealing(v) /\ writer'[v] = writer[v]
        PROVE  Missed'
    <2>1. Rows' = Rows
      BY <1>5 DEF Rows
    <2>2. ASSUME NEW m \in missing PROVE Gone(m)'
      <3>1. Gone(m) /\ m \in Nat
        BY <1>0 DEF Missed
      <3>2. Rows' = {} \/ \E n \in Rows' : n > m
        BY <2>1, <3>1 DEF Gone
      <3> QED
        BY <1>5, <2>1, <3>1, <3>2, GoneStays
    <2> QED
      BY <1>5, <2>2 DEF Missed
  <1>6. ASSUME NEW w \in Writers, Rollback(w) PROVE Missed'
    BY <1>5, <1>6, RollbackMoves, IdleTyped, StillSealing DEF Rollback
  <1>7. ASSUME NEW w \in Writers, NEW b \in 1..(MaxId + 1), StartPurge(w, b) PROVE Missed'
    BY <1>5, <1>7, StartPurgeMoves, StillSealing DEF StartPurge
  <1>8. ASSUME Rekeys \/ UNCHANGED vars PROVE Missed'
    <2>1. ledger' = ledger /\ writer' = writer /\ missing' = missing /\ nextId' = nextId
      BY <1>8 DEF Rekeys, ChangeKey, vars
    <2> QED
      BY <2>1, <1>5 DEF Sealing
  <1> QED
    BY <1>1, <1>2, <1>3, <1>4, <1>6, <1>7, <1>8, GoneByHand, Steps

\* verify_chain finds what is missing.
LEMMA MissedIsSeen ==
  ASSUME Base, Missed
  PROVE  RemovalIsSeen
  <1> SUFFICES ASSUME FirstKeyed > 0, NEW m \in missing, Valid PROVE FALSE
    BY DEF RemovalIsSeen
  <1>1. Gone(m) /\ m \in Nat /\ Rows \subseteq Nat /\ Rows \subseteq 0..MaxId
    BY IdsTyped, LastRow DEF Missed, Base, TypeOK
  <1>2. Keyed # {} /\ Keyed \subseteq Rows
    <2>1. Keyed \subseteq Rows
      BY DEF Keyed
    <2>2. Keyed = {} => First(Keyed) = 0
      BY DEF First
    <2> QED
      BY <2>1, <2>2 DEF FirstKeyed
  <1>3. Shown(m)
    <2>1. ~Unkeyed(m)
      BY <1>2 DEF Keyed, Unkeyed
    <2> QED
      BY <1>1, <2>1 DEF Gone
  <1>4. Rows # {}
    BY <1>2
  <1> DEFINE later == {n \in Rows : n > m}
             n == First(later)
  <1>5. n \in Rows /\ n > m /\ \A j \in Rows : j > m => n <= j
    <2>1. later # {} /\ later \subseteq Nat
      BY <1>1, <1>4 DEF Gone
    <2>2. n \in later /\ \A y \in later : n <= y
      BY <2>1, FirstIsLeast
    <2> QED
      BY <2>2
  <1>6. First(Rows) \in Rows /\ \A j \in Rows : First(Rows) <= j
    BY <1>1, <1>4, FirstIsLeast
  <1> HIDE DEF n
  <1>a. n \in Nat /\ First(Rows) \in Nat /\ m \notin Rows
    BY <1>1, <1>5, <1>6 DEF Gone
  <1>7. CASE \E p \in Rows : p < m
    <2> DEFINE before == {j \in Rows : j < n}
    <2>1. PICK p \in Rows : p < m
      BY <1>7
    <2>2. p \in before /\ before \subseteq 0..MaxId
      <3>1. p \in Nat
        BY <1>1, <2>1
      <3>2. p < n
        BY <1>1, <1>5, <1>a, <2>1, <3>1
      <3> QED
        BY <1>1, <2>1, <3>2
    <2>3. Last(before) \in before
      BY <2>2, LastIsGreatest, Bounds
    <2>4. Last(before) < m
      <3>1. Last(before) \in Rows /\ Last(before) < n /\ Last(before) \in Nat
        BY <1>1, <2>3
      <3>2. Last(before) # m /\ ~(Last(before) > m)
        BY <1>5, <1>a, <3>1
      <3> QED
        BY <1>1, <3>1, <3>2
    <2>5. ledger[n].prev # Last(before)
      <3>1. ledger[n].prev >= m
        BY <1>3, <1>5 DEF Shown
      <3>2. Last(before) \in Nat
        BY <2>3, <1>1
      <3> QED
        BY <1>1, <2>4, <3>1, <3>2
    <2>6. n # First(Rows)
      BY <1>1, <1>5, <1>6, <2>1
    <2>7. n \in LinkErrors
      BY <1>5, <2>5, <2>6 DEF LinkErrors
    <2> QED
      BY <2>7 DEF Valid
  <1>8. CASE \A p \in Rows : ~(p < m)
    <2>1. First(Rows) > m
      BY <1>1, <1>6, <1>8, <1>a
    <2>2. LinkErrors = {} /\ NotSealedByKey = {} /\ UnattestedKeys = {}
      BY DEF Valid
    <2>3. Starts(Keyed) # {}
      BY <1>4, <2>2 DEF Valid, StartError
    <2>4. \A s \in Starts(Keyed) : s \in 0..MaxId /\ s <= m
      <3> SUFFICES ASSUME NEW s \in Starts(Keyed) PROVE s \in 0..MaxId /\ s <= m
        OBVIOUS
      <3>1. PICK x \in Rows : s = ledger[x].start
        BY <1>2 DEF Starts
      <3>2. ledger[x].start \in {0} \cup Ids
        BY DEF Base, TypeOK, Entry
      <3> QED
        BY <1>1, <3>1, <3>2, IdOrNone DEF Gone
    <2>5. Max(Starts(Keyed)) \in Starts(Keyed)
      <3>1. Starts(Keyed) \subseteq 0..MaxId
        BY <2>4
      <3>2. Last(Starts(Keyed)) \in Starts(Keyed)
        BY <2>3, <3>1, LastIsGreatest, Bounds
      <3> QED
        BY <2>3, <3>2 DEF Last
    <2>6. First(Rows) > Max(Starts(Keyed))
      <3>1. Max(Starts(Keyed)) \in Nat /\ Max(Starts(Keyed)) <= m /\ First(Rows) \in Nat
        <4>1. Max(Starts(Keyed)) \in 0..MaxId /\ Max(Starts(Keyed)) <= m
          BY <2>4, <2>5
        <4> QED
          BY <4>1, <1>a, Bounds
      <3> QED
        BY <1>1, <2>1, <3>1
    <2>7. StartError
      BY <1>4, <2>3, <2>6 DEF StartError
    <2> QED
      BY <2>7 DEF Valid
  <1> QED
    BY <1>7, <1>8

LEMMA InitMissed == Init => Order /\ Missed
  <1> SUFFICES ASSUME Init PROVE Order /\ Missed
    OBVIOUS
  <1>1. DOMAIN ledger = {} /\ \A w \in Writers : ~Sealing(w)
    BY IdleTyped DEF Init, Sealing
  <1> QED
    BY <1>1 DEF Init, Order, Ordered, Missed

\* However many rows are removed by hand and whatever writers, purges, crashes and changes of
\* the key do around it, verify_chain under a key does not find the ledger valid while a row
\* that a later one shows to have been there is missing.
THEOREM RemovalsAreSeen == Spec => []RemovalIsSeen
  <1> DEFINE Inv == Base /\ Order /\ Missed
  <1>1. Init => Inv
    BY InitBase, InitMissed
  <1>2. Inv /\ [Next]_vars => Inv'
    BY StepBase, StepOrder, StepMissed
  <1>3. Inv => RemovalIsSeen
    BY MissedIsSeen
  <1> QED
    BY <1>1, <1>2, <1>3, PTL DEF Spec

-----------------------------------------------------------------------------
(* A ledger that nobody touched *)

\* Row i is under key k.
Under(L, k, i) == k # NoKey /\ L[i].key = k

\* The row that a row is linked to is there, unless the row is the first.
Linked(L) == \A i, j \in DOMAIN L : j < i => L[i].prev \in DOMAIN L

\* The last row is under key k.
Ends(L, k) == \E s \in DOMAIN L : Under(L, k, s) /\ \A j \in DOMAIN L : j <= s

\* The key that the history has as the current one was used after every other, apart from
\* keys that were lost.
InHistory(L, c, lo) == c # NoKey =>
    \A i \in DOMAIN L : \/ L[i].key \in {NoKey, c} \cup lo
                        \/ \E j \in DOMAIN L : i < j /\ Under(L, c, j)

\* A row with which the rows under key k at the end of the ledger begin attests the keys of
\* the rows since the one under k before it, apart from keys that were lost, and says where
\* the ledger begins.
Opened(L, k, lo) == \A f, i \in DOMAIN L :
    /\ i < f /\ Under(L, k, f)
    /\ \A j \in DOMAIN L : i <= j /\ j < f => ~Under(L, k, j)
    /\ \A j \in DOMAIN L : f < j => Under(L, k, j)
    => /\ L[i].key \in {NoKey} \cup lo \/ (L[f].attested /\ i <= L[f].retired[L[i].key])
       /\ L[f].start # 0
       /\ L[f].purge \/ \A j \in DOMAIN L : L[f].start <= j

\* Row r says that the ledger begins at b or later, and there is a row it may begin with.
Tells(L, r, b) == r >= b /\ \E j \in DOMAIN L : b <= j /\ j <= L[r].start

\* Of a purge of the rows before b there is a record, under key k if the last row is and no
\* key took over meanwhile (x).
Says(L, k, x, b) ==
    /\ \E r \in DOMAIN L : Tells(L, r, b)
    /\ ~x /\ Ends(L, k) => \E r \in DOMAIN L : Under(L, k, r) /\ Tells(L, r, b)

\* Wherever there is a start to know, a row says it.
Begins(L, k, x) ==
    /\ (\E s \in DOMAIN L : L[s].start # 0 \/ L[s].key # NoKey) => \E r \in DOMAIN L : Tells(L, r, 0)
    /\ ~x /\ Ends(L, k) => \E r \in DOMAIN L : Under(L, k, r) /\ Tells(L, r, 0)

Good(L, k, lo, x) == Linked(L) /\ Opened(L, k, lo) /\ Begins(L, k, x)

\* A purge deletes the beginning of a ledger, up to where a record says that it does.
LEMMA CutGood ==
  ASSUME NEW L, NEW D, NEW k, NEW lo, NEW x, NEW b \in Nat,
         IsLedger(L), Ordered(L), Good(L, k, lo, x), Says(L, k, x, b),
         D \subseteq DOMAIN L, \A i \in D, j \in DOMAIN L : j < i => j \in D, \A i \in D : i < b
  PROVE  /\ Good(Cut(L, D), k, lo, x)
         /\ \A a \in Nat : Says(L, k, x, a) => Says(Cut(L, D), k, x, a)
  <1> DEFINE M == Cut(L, D)
  <1>1. DOMAIN M = DOMAIN L \ D /\ \A i \in DOMAIN M : M[i] = L[i]
    <2>1. DOMAIN Cut(L, D) = DOMAIN L \ D
      BY CutRows
    <2>2. \A i \in DOMAIN L \ D : Cut(L, D)[i] = L[i]
      BY CutRows
    <2> QED
      BY <2>1, <2>2, Zenon
  <1>2. DOMAIN L \subseteq Nat /\ \A i \in DOMAIN L : L[i].start \in Nat /\ L[i].prev \in Nat
    <2>1. \A i \in DOMAIN L : L[i].start \in {0} \cup Ids /\ L[i].prev \in {0} \cup Ids
      BY DEF IsLedger, Entry, Genesis
    <2> QED
      BY <2>1, IdsTyped, IdOrNone DEF IsLedger
  <1> HIDE DEF M
  <1>3. \A i \in DOMAIN L : Under(M, k, i) = Under(L, k, i) \/ i \in D
    BY <1>1 DEF Under
  <1>4. \A i \in DOMAIN L : i >= b => i \in DOMAIN M
    BY <1>1, <1>2
  <1>5. Linked(M)
    <2> SUFFICES ASSUME NEW i \in DOMAIN M, NEW j \in DOMAIN M, j < i
                 PROVE  M[i].prev \in DOMAIN M
      BY DEF Linked
    <2>1. L[i].prev \in DOMAIN L /\ j <= L[i].prev
      BY <1>1 DEF Good, Linked, Ordered
    <2>2. L[i].prev \notin D
      <3>1. CASE j = L[i].prev
        BY <1>1, <3>1
      <3>2. CASE j < L[i].prev
        BY <1>1, <3>2
      <3> QED
        BY <1>1, <1>2, <2>1, <3>1, <3>2
    <2> QED
      BY <1>1, <2>1, <2>2
  <1>6. Ends(M, k) => Ends(L, k)
    <2> SUFFICES ASSUME NEW s \in DOMAIN M, Under(M, k, s), \A j \in DOMAIN M : j <= s
                 PROVE  Ends(L, k)
      BY DEF Ends
    <2>1. s \in DOMAIN L /\ s \notin D /\ Under(L, k, s)
      BY <1>1, <1>3
    <2>2. ASSUME NEW j \in DOMAIN L PROVE j <= s
      <3>1. CASE j \in DOMAIN M
        BY <3>1
      <3>2. CASE j \in D
        <4>1. ~(s < j) /\ s \in Nat /\ j \in Nat
          BY <1>2, <2>1, <3>2
        <4> QED
          BY <4>1
      <3> QED
        BY <1>1, <3>1, <3>2
    <2> QED
      BY <2>1, <2>2 DEF Ends
  <1>8. Opened(M, k, lo)
    <2> SUFFICES ASSUME NEW f \in DOMAIN M, NEW i \in DOMAIN M, i < f, Under(M, k, f),
                        \A j \in DOMAIN M : i <= j /\ j < f => ~Under(M, k, j),
                        \A j \in DOMAIN M : f < j => Under(M, k, j)
                 PROVE  /\ M[i].key \in {NoKey} \cup lo \/ (M[f].attested /\ i <= M[f].retired[M[i].key])
                        /\ M[f].start # 0
                        /\ M[f].purge \/ \A j \in DOMAIN M : M[f].start <= j
      BY DEF Opened
    <2>1. Under(L, k, f) /\ i \in DOMAIN L /\ f \in DOMAIN L /\ i \notin D /\ f \notin D
          /\ i \in Nat /\ f \in Nat
      BY <1>1, <1>2, <1>3
    <2>2. ASSUME NEW j \in DOMAIN L, i <= j PROVE j \in DOMAIN M /\ Under(M, k, j) = Under(L, k, j)
      <3>1. j \in Nat /\ (i = j \/ i < j)
        BY <1>2, <2>1, <2>2
      <3>2. j \notin D
        BY <2>1, <3>1
      <3> QED
        BY <1>1, <1>3, <3>2
    <2>3. ASSUME NEW j \in DOMAIN L, i <= j, j < f PROVE ~Under(L, k, j)
      BY <2>2, <2>3
    <2>4. ASSUME NEW j \in DOMAIN L, f < j PROVE Under(L, k, j)
      <3>1. i <= j
        BY <1>2, <2>1, <2>4
      <3> QED
        BY <2>2, <2>4, <3>1
    <2>5. /\ L[i].key \in {NoKey} \cup lo \/ (L[f].attested /\ i <= L[f].retired[L[i].key])
          /\ L[f].start # 0
          /\ L[f].purge \/ \A j \in DOMAIN L : L[f].start <= j
      BY <2>1, <2>3, <2>4 DEF Good, Opened
    <2> QED
      BY <1>1, <2>1, <2>5
  <1>9. ASSUME NEW a \in Nat, NEW r \in DOMAIN L, Tells(L, r, a), a >= b
        PROVE  r \in DOMAIN M /\ Tells(M, r, a)
    <2>1. PICK j \in DOMAIN L : a <= j /\ j <= L[r].start
      BY <1>9 DEF Tells
    <2>2. r \in DOMAIN M /\ j \in DOMAIN M
      BY <1>2, <1>4, <1>9, <2>1 DEF Tells
    <2> QED
      BY <1>1, <1>9, <2>1, <2>2 DEF Tells
  <1>10. ASSUME NEW a \in Nat, a < b, NEW r \in DOMAIN L, Tells(L, r, b)
         PROVE  r \in DOMAIN M /\ Tells(M, r, a)
    <2>1. PICK j \in DOMAIN L : b <= j /\ j <= L[r].start
      BY <1>10 DEF Tells
    <2>2. r \in DOMAIN M /\ j \in DOMAIN M /\ r >= a /\ j >= a
      BY <1>2, <1>4, <1>10, <2>1 DEF Tells
    <2> QED
      BY <1>1, <1>2, <2>1, <2>2 DEF Tells
  <1>11. ASSUME NEW a \in Nat, Says(L, k, x, a) PROVE Says(M, k, x, a)
    <2>1. CASE a >= b
      <3>1. \E r \in DOMAIN M : Tells(M, r, a)
        BY <1>9, <1>11, <2>1 DEF Says
      <3>2. ASSUME ~x, Ends(M, k)
            PROVE  \E r \in DOMAIN M : Under(M, k, r) /\ Tells(M, r, a)
        <4>1. Ends(L, k)
          BY <1>6, <3>2
        <4>2. PICK r \in DOMAIN L : Under(L, k, r) /\ Tells(L, r, a)
          BY <1>11, <3>2, <4>1 DEF Says
        <4>3. r \in DOMAIN M /\ Tells(M, r, a)
          BY <1>9, <2>1, <4>2
        <4> QED
          BY <1>1, <1>3, <4>2, <4>3
      <3> QED
        BY <3>1, <3>2 DEF Says
    <2>2. CASE a < b
      <3>1. \E r \in DOMAIN M : Tells(M, r, a)
        BY <1>10, <2>2 DEF Says
      <3>2. ASSUME ~x, Ends(M, k)
            PROVE  \E r \in DOMAIN M : Under(M, k, r) /\ Tells(M, r, a)
        <4>1. Ends(L, k)
          BY <1>6, <3>2
        <4>2. PICK r \in DOMAIN L : Under(L, k, r) /\ Tells(L, r, b)
          BY <3>2, <4>1 DEF Says
        <4>3. r \in DOMAIN M /\ Tells(M, r, a)
          BY <1>10, <2>2, <4>2
        <4> QED
          BY <1>1, <1>3, <4>2, <4>3
      <3> QED
        BY <3>1, <3>2 DEF Says
    <2> QED
      BY <2>1, <2>2
  <1>12. Begins(M, k, x)
    <2>1. Says(M, k, x, b)
      BY <1>11
    <2>2. ASSUME NEW r \in DOMAIN M, Tells(M, r, b) PROVE Tells(M, r, 0)
      BY <1>1, <1>2, <2>2 DEF Tells
    <2> QED
      BY <2>1, <2>2 DEF Begins, Says
  <1>13. Good(M, k, lo, x)
    BY <1>5, <1>8, <1>12 DEF Good
  <1> QED
    BY <1>11, <1>13 DEF M

\* It leaves the current key of the history the last that was used.
LEMMA CutHistory ==
  ASSUME NEW L, NEW D, NEW c, NEW lo, InHistory(L, c, lo),
         D \subseteq DOMAIN L, \A i \in D, j \in DOMAIN L : j < i => j \in D
  PROVE  InHistory(Cut(L, D), c, lo)
  <1>1. PICK M : M = Cut(L, D)
    OBVIOUS
  <1>2. DOMAIN M = DOMAIN L \ D /\ \A i \in DOMAIN M : M[i] = L[i]
    <2>1. DOMAIN Cut(L, D) = DOMAIN L \ D
      BY CutRows
    <2>2. \A i \in DOMAIN L \ D : Cut(L, D)[i] = L[i]
      BY CutRows
    <2> QED
      BY <1>1, <2>1, <2>2, Zenon
  <1>3. InHistory(M, c, lo)
    <2> SUFFICES ASSUME c # NoKey, NEW i \in DOMAIN M, M[i].key \notin {NoKey, c} \cup lo
                 PROVE  \E j \in DOMAIN M : i < j /\ Under(M, c, j)
      BY DEF InHistory
    <2>1. PICK j \in DOMAIN L : i < j /\ Under(L, c, j)
      BY <1>2 DEF InHistory
    <2>2. j \in DOMAIN M
      BY <1>2, <2>1
    <2> QED
      BY <1>2, <2>1, <2>2 DEF Under
  <1> QED
    BY <1>1, <1>3

\* The history is written, or its entry for the key of the last row is lost.
LEMMA KeyringGood ==
  ASSUME NEW L, NEW k, NEW lo, NEW lo2, NEW x, Good(L, k, lo, x),
         DOMAIN L \subseteq Nat, NEW e \in DOMAIN L, \A i \in DOMAIN L : i <= e,
         lo \ {L[e].key} \subseteq lo2
  PROVE  Good(L, k, lo2, x)
  <1>1. Opened(L, k, lo2)
    <2> SUFFICES ASSUME NEW f \in DOMAIN L, NEW i \in DOMAIN L, i < f, Under(L, k, f),
                        \A j \in DOMAIN L : i <= j /\ j < f => ~Under(L, k, j),
                        \A j \in DOMAIN L : f < j => Under(L, k, j)
                 PROVE  /\ L[i].key \in {NoKey} \cup lo2 \/ (L[f].attested /\ i <= L[f].retired[L[i].key])
                        /\ L[f].start # 0
                        /\ L[f].purge \/ \A j \in DOMAIN L : L[f].start <= j
      BY DEF Opened
    <2>1. /\ L[i].key \in {NoKey} \cup lo \/ (L[f].attested /\ i <= L[f].retired[L[i].key])
          /\ L[f].start # 0
          /\ L[f].purge \/ \A j \in DOMAIN L : L[f].start <= j
      BY DEF Good, Opened
    <2>2. Under(L, k, e)
      <3>1. e = f \/ f < e
        OBVIOUS
      <3> QED
        BY <3>1
    <2>3. L[i].key # L[e].key
      <3>1. ~Under(L, k, i)
        OBVIOUS
      <3> QED
        BY <2>2, <3>1 DEF Under
    <2> QED
      BY <2>1, <2>3
  <1> QED
    BY <1>1 DEF Good

-----------------------------------------------------------------------------
(* Keys and their history *)

\* The history has every key of a row but those that were lost.
KeysInv ==
    /\ IF ring.current = NoKey THEN ring.history = {} ELSE ring.current \in ring.history
    /\ \A i \in Rows : ledger[i].key \in {NoKey} \cup ring.history \cup lost

\* What _reconcile_keyring and the write of its file leave behind.
LEMMA KeyringWritten ==
  ASSUME Base, KeysInv, NEW w \in Writers, Sealing(w), WriteKeyring(w)
  PROVE  LET k == writer[w].entry.key IN
         /\ k \in {NoKey} \cup ring'.history \cup lost'
         /\ ring.history \subseteq ring'.history
         /\ lost \ {k} \subseteq lost'
         /\ ring'.current \in {ring.current, k}
         /\ IF ring'.current = NoKey THEN ring'.history = {} ELSE ring'.current \in ring'.history
         /\ k \in {NoKey, ring'.current} \cup lost'
  <1> DEFINE k == writer[w].entry.key
             new == writer[w].ring
  <1>1. CASE new = NoRing
    <2>1. ring' = ring /\ lost' = lost \ {k} /\ k \in {NoKey, ring.current}
      BY <1>1 DEF WriteKeyring, Base, RingDue
    <2> QED
      BY <2>1 DEF KeysInv
  <1>2. CASE new # NoRing
    <2>1. k # NoKey /\ new.current = k /\ ring.history \cup {k} \subseteq new.history
      BY <1>2 DEF Base, RingDue
    <2>2. CASE ring' = new /\ lost' = lost \ {k}
      BY <2>1, <2>2
    <2>3. CASE ring' = ring /\ lost' = lost \cup {new.current}
      BY <2>1, <2>3 DEF KeysInv
    <2> QED
      BY <1>2, <2>2, <2>3 DEF WriteKeyring
  <1> QED
    BY <1>1, <1>2

\* A row is committed, alone or with the first batch of a purge.
LEMMA KeysCommitted ==
  ASSUME Base, KeysInv, NEW w \in Writers, Sealing(w), WriteKeyring(w), NEW D,
         ledger' = Cut(With(w), D)
  PROVE  KeysInv'
  <1> DEFINE k == writer[w].entry.key
  <1>1. /\ k \in {NoKey} \cup ring'.history \cup lost'
        /\ ring.history \subseteq ring'.history
        /\ lost \ {k} \subseteq lost'
        /\ IF ring'.current = NoKey THEN ring'.history = {} ELSE ring'.current \in ring'.history
    BY KeyringWritten
  <1>2. /\ DOMAIN With(w) = Rows \cup {writer[w].id}
        /\ With(w)[writer[w].id] = writer[w].entry
        /\ \A i \in Rows : With(w)[i] = ledger[i]
    BY WithRows
  <1>3. /\ Rows' \subseteq Rows \cup {writer[w].id}
        /\ \A i \in Rows' : ledger'[i] = With(w)[i]
    BY <1>2 DEF Cut, Rows
  <1>4. \A i \in Rows' : ledger'[i].key = k \/ (i \in Rows /\ ledger'[i].key = ledger[i].key)
    BY <1>2, <1>3
  <1>5. \A i \in Rows' : ledger'[i].key \in {NoKey} \cup ring'.history \cup lost'
    BY <1>1, <1>4 DEF KeysInv
  <1> QED
    BY <1>1, <1>5 DEF KeysInv

LEMMA CommitCuts ==
  ASSUME NEW w
  PROVE  Cut(With(w), {}) = With(w)
  BY DEF Cut, With

\* Every step keeps the history complete.
LEMMA StepKeys ==
  ASSUME Base, KeysInv, [Next]_vars
  PROVE  KeysInv'
  <1>1. ASSUME UNCHANGED <<ring, lost>>, Rows' \subseteq Rows, \A i \in Rows' : ledger'[i] = ledger[i]
        PROVE  KeysInv'
    BY <1>1 DEF KeysInv
  <1>2. ASSUME UNCHANGED <<ledger, ring, lost>> PROVE KeysInv'
    BY <1>1, <1>2 DEF Rows
  <1>3. ASSUME NEW w \in Writers, NEW b, Adds(w, b) PROVE KeysInv'
    BY <1>2, <1>3, AddMoves
  <1>4. ASSUME NEW w \in Writers, Commit(w) PROVE KeysInv'
    <2>1. ledger' = Cut(With(w), {}) /\ Sealing(w)
      BY <1>4, CommitMoves, CommitCuts
    <2> QED
      BY <1>4, <2>1, KeysCommitted DEF Commit
  <1>5. ASSUME NEW w \in Writers, FirstBatch(w) PROVE KeysInv'
    <2>1. ledger' = Cut(With(w), Batch(w)) /\ Sealing(w)
      BY <1>5, FirstBatchMoves
    <2> QED
      BY <1>5, <2>1, KeysCommitted DEF FirstBatch
  <1>6. ASSUME NEW w \in Writers, NextBatch(w) PROVE KeysInv'
    <2>1. ledger' = Cut(ledger, Batch(w)) /\ UNCHANGED <<ring, lost>>
      BY <1>6, NextBatchMoves DEF NextBatch
    <2>2. Rows' \subseteq Rows /\ \A i \in Rows' : ledger'[i] = ledger[i]
      BY <2>1 DEF Cut, Rows
    <2> QED
      BY <1>1, <2>1, <2>2
  <1>7. ASSUME NEW w \in Writers, Rollback(w) PROVE KeysInv'
    BY <1>2, <1>7 DEF Rollback
  <1>8. ASSUME NEW w \in Writers, NEW b \in 1..(MaxId + 1), StartPurge(w, b) PROVE KeysInv'
    BY <1>2, <1>8 DEF StartPurge
  <1>9. ASSUME Rekeys PROVE KeysInv'
    BY <1>2, <1>9, ChangeKeyMoves
  <1>10. ASSUME NEW i \in Ids, RemoveRow(i) PROVE KeysInv'
    BY <1>1, <1>10, RemoveRowMoves
  <1>11. ASSUME UNCHANGED vars PROVE KeysInv'
    BY <1>2, <1>11 DEF vars
  <1> QED
    BY <1>3, <1>4, <1>5, <1>6, <1>7, <1>8, <1>9, <1>10, <1>11, Steps

-----------------------------------------------------------------------------
(* A row is added to a ledger that nobody touched *)

AnyKey == {NoKey} \cup Keys

\* append_entry opens a key exactly when the last row is not under it.
LEMMA OpensIff ==
  ASSUME Base, NEW k, k # NoKey
  PROVE  OpensKey(k) <=> ~Ends(ledger, k)
  <1>1. /\ Rows \subseteq Nat /\ Last(Rows) \in Nat /\ Rows = DOMAIN ledger
        /\ Rows # {} => Last(Rows) \in Rows /\ \A i \in Rows : i <= Last(Rows)
    BY LastRow DEF Rows
  <1>2. ASSUME OpensKey(k), NEW i \in Rows, Under(ledger, k, i), \A j \in Rows : j <= i PROVE FALSE
    <2>1. Last(Rows) \in Rows /\ ledger[Last(Rows)].key # k
      BY <1>1, <1>2 DEF OpensKey
    <2>2. i = Last(Rows)
      BY <1>1, <1>2, <2>1
    <2> QED
      BY <1>2, <2>1, <2>2 DEF Under
  <1>3. ASSUME ~OpensKey(k) PROVE Ends(ledger, k)
    <2>1. Rows # {} /\ ledger[Last(Rows)].key = k
      BY <1>3 DEF OpensKey
    <2> QED
      BY <1>1, <2>1 DEF Ends, Under
  <1> QED
    BY <1>1, <1>2, <1>3 DEF Ends

\* _rotation: a row that opens a key attests every other key used since that one was,
\* apart from keys that were lost.
LEMMA RotationAttests ==
  ASSUME Base, KeysInv, InHistory(ledger, ring.current, lost), NEW new, OpensKey(new),
         NEW i \in Rows, \A j \in Rows : i <= j => ~Under(ledger, new, j), NEW b
  PROVE  \/ ledger[i].key \in {NoKey} \cup lost
         \/ Sealed(new, b).attested /\ i <= Sealed(new, b).retired[ledger[i].key]
  <1> DEFINE k == ledger[i].key
             S == {j \in Rows : ledger[j].key = k}
  <1> SUFFICES ASSUME k \notin {NoKey} \cup lost
               PROVE  Sealed(new, b).attested /\ i <= Sealed(new, b).retired[k]
    OBVIOUS
  <1>0. Rows \subseteq Nat /\ Rows = DOMAIN ledger /\ i \in Nat /\ new # NoKey
    BY LastRow DEF Rows, OpensKey
  <1>1. k \in ring.history /\ ring.current # NoKey
    BY DEF KeysInv
  <1>2. k \in Keys
    <2>1. ledger[i] \in Entry
      BY DEF Base, TypeOK
    <2> QED
      BY <2>1 DEF Entry
  <1>3. k # new /\ ring.current # new
    <2>1. ~Under(ledger, new, i)
      BY <1>0
    <2>2. k # new
      BY <1>0, <2>1 DEF Under
    <2>3. ASSUME ring.current = new PROVE FALSE
      <3>1. PICK j \in Rows : i < j /\ Under(ledger, new, j)
        BY <1>0, <2>2, <2>3 DEF InHistory
      <3>2. i <= j
        BY <1>0, <3>1
      <3> QED
        BY <3>1, <3>2
    <2> QED
      BY <2>2, <2>3
  <1>4. Listed(new, k)
    BY <1>1, <1>3 DEF Listed
  <1>5. Rotation(new)[k] = Last(S)
    BY <1>2, <1>4 DEF Rotation
  <1>6. Last(S) >= i /\ Last(S) \in Nat /\ i \in Nat /\ i # 0
    <2>1. S \subseteq 0..MaxId /\ i \in S /\ i \in Nat /\ i # 0
      BY LastRow, IdsTyped
    <2>2. Last(S) \in S /\ Last(S) >= i
      BY <2>1, LastIsGreatest, Bounds
    <2> QED
      BY <2>1, <2>2, Bounds
  <1>7. Rotation(new) # Unlisted
    <2>1. Unlisted[k] = 0
      BY <1>2 DEF Unlisted
    <2>2. Rotation(new)[k] # 0
      BY <1>5, <1>6
    <2> QED
      BY <2>1, <2>2
  <1>8. Sealed(new, b).attested /\ Sealed(new, b).retired = Rotation(new)
    BY <1>1, <1>7, SealedIs
  <1>9. i <= Rotation(new)[k]
    BY <1>5, <1>6
  <1> QED
    BY <1>8, <1>9

\* The row that append_entry seals fits a ledger that nobody touched.
LEMMA AddGood ==
  ASSUME Base, KeysInv, InHistory(ledger, ring.current, lost),
         NEW k, Good(ledger, k, lost, crossed), NEW w \in Writers, NEW b, Adds(w, b)
  PROVE  /\ Good(With(w)', k, lost, crossed')
         /\ b > 0 => Says(With(w)', k, crossed', b)
         /\ \A a \in Nat : Says(ledger, k, crossed, a) /\ (OpensKey(KeyOf(w)) => crossed')
                             => Says(With(w)', k, crossed', a)
  <1>0. PICK K : K = KeyOf(w)
    OBVIOUS
  <1>1. /\ b \in 0..nextId /\ nextId \in Ids /\ nextId \in Nat /\ nextId # 0
        /\ crossed => crossed'
    BY AddMoves, IdsTyped
  <1>2. PICK M : M = With(w)'
    OBVIOUS
  <1>3. /\ DOMAIN M = Rows \cup {nextId} /\ M[nextId] = Sealed(K, b)
        /\ \A i \in Rows : M[i] = ledger[i] /\ i < nextId
    BY <1>0, <1>2, AddedWith
  <1>4. /\ Rows \subseteq Nat /\ Rows = DOMAIN ledger
        /\ Rows # {} => Last(Rows) \in Rows /\ \A i \in Rows : i <= Last(Rows)
    BY LastRow DEF Rows
  <1>5. Linked(ledger) /\ Opened(ledger, k, lost) /\ Begins(ledger, k, crossed)
    BY DEF Good
  <1>6. /\ \A i \in Rows : Under(M, k, i) = Under(ledger, k, i)
        /\ Under(M, k, nextId) = (k # NoKey /\ K = k)
    BY <1>0, <1>3, SealedIs DEF Under
  <1>7. /\ \A i \in DOMAIN M : i <= nextId
        /\ Ends(M, k) => k # NoKey /\ K = k
    <2>1. \A i \in DOMAIN M : i <= nextId
      BY <1>1, <1>3, <1>4
    <2>2. ASSUME NEW s \in DOMAIN M, Under(M, k, s), \A j \in DOMAIN M : j <= s
          PROVE  k # NoKey /\ K = k
      <3>1. s = nextId
        BY <1>1, <1>3, <1>4, <2>2
      <3> QED
        BY <1>6, <2>2, <3>1
    <2> QED
      BY <2>1, <2>2 DEF Ends
  <1>8. /\ M[nextId].start = Start(K, b) /\ M[nextId].prev = Last(Rows)
        /\ M[nextId].purge = (b > 0) /\ M[nextId].key = K
    BY <1>0, <1>3, SealedIs
  <1>9. /\ b > 0 => Start(K, b) \in Rows \cup {nextId} /\ Start(K, b) >= b
        /\ b = 0 /\ OpensKey(K) => /\ Start(K, b) \in Rows \cup {nextId}
                                /\ \A i \in Rows \cup {nextId} : Start(K, b) <= i
        /\ b = 0 /\ ~OpensKey(K) => Start(K, b) = 0
    BY <1>1, StartIs
  <1>10. Linked(M)
    BY <1>1, <1>3, <1>4, <1>5, <1>8 DEF Linked
  <1>13. Start(K, b) # 0 => Tells(M, nextId, b)
    <2> SUFFICES ASSUME Start(K, b) # 0 PROVE Tells(M, nextId, b)
      OBVIOUS
    <2>1. Start(K, b) \in Rows \cup {nextId} /\ Start(K, b) \in Nat /\ Start(K, b) >= b
      <3>1. b = 0 \/ b > 0
        BY <1>1
      <3>2. Start(K, b) \in Rows \cup {nextId}
        BY <1>9, <3>1
      <3>3. Start(K, b) \in Nat
        BY <1>1, <1>4, <3>2
      <3> QED
        BY <1>9, <3>1, <3>2, <3>3
    <2>2. nextId >= b /\ b \in Nat
      BY <1>1
    <2> QED
      BY <1>3, <1>8, <2>1, <2>2 DEF Tells
  <1>14. OpensKey(K) \/ b > 0 => Start(K, b) # 0
    <2>1. 0 \notin Rows \cup {nextId}
      BY <1>1, LastRow, IdsTyped
    <2>2. b = 0 \/ b > 0
      BY <1>1
    <2> QED
      BY <1>9, <2>1, <2>2
  <1>15. Opened(M, k, lost)
    <2> SUFFICES ASSUME NEW f \in DOMAIN M, NEW i \in DOMAIN M, i < f, Under(M, k, f),
                        \A j \in DOMAIN M : i <= j /\ j < f => ~Under(M, k, j),
                        \A j \in DOMAIN M : f < j => Under(M, k, j)
                 PROVE  /\ M[i].key \in {NoKey} \cup lost \/ (M[f].attested /\ i <= M[f].retired[M[i].key])
                        /\ M[f].start # 0
                        /\ M[f].purge \/ \A j \in DOMAIN M : M[f].start <= j
      BY DEF Opened
    <2>1. i \in Rows /\ i < nextId /\ i \in Nat
      BY <1>1, <1>3, <1>4
    <2>2. CASE f = nextId
      <3>0. \A j \in Rows : i <= j => ~Under(ledger, k, j)
        BY <1>3, <1>6, <2>2
      <3>1. k # NoKey /\ K = k /\ OpensKey(k)
        <4>1. k # NoKey /\ K = k
          BY <1>6, <2>2
        <4>2. ~Ends(ledger, k)
          BY <1>4, <2>1, <3>0 DEF Ends
        <4> QED
          BY <4>1, <4>2, OpensIff
      <3>2. ledger[i].key \in {NoKey} \cup lost \/ (Sealed(k, b).attested /\ i <= Sealed(k, b).retired[ledger[i].key])
        BY <2>1, <3>0, <3>1, RotationAttests
      <3>3. b = 0 \/ b > 0
        BY <1>1
      <3> QED
        BY <1>3, <1>8, <1>9, <1>14, <2>1, <2>2, <3>1, <3>2, <3>3
    <2>3. CASE f \in Rows
      <3>1. /\ ledger[i].key \in {NoKey} \cup lost \/ (ledger[f].attested /\ i <= ledger[f].retired[ledger[i].key])
            /\ ledger[f].start # 0
            /\ ledger[f].purge \/ \A j \in Rows : ledger[f].start <= j
        <4>1. /\ Under(ledger, k, f) /\ \A j \in Rows : i <= j /\ j < f => ~Under(ledger, k, j)
              /\ \A j \in Rows : f < j => Under(ledger, k, j)
          BY <1>3, <1>6, <2>3
        <4> QED
          BY <1>4, <1>5, <2>1, <2>3, <4>1 DEF Opened
      <3>2. (\A j \in Rows : ledger[f].start <= j) => ledger[f].start <= nextId
        <4>1. ledger[f].start \in {0} \cup Ids
          BY <2>3 DEF Base, TypeOK, Entry
        <4>2. ledger[f].start \in Nat
          BY <4>1, IdOrNone
        <4> QED
          BY <1>1, <2>1, <4>2
      <3> QED
        BY <1>3, <2>1, <2>3, <3>1, <3>2
    <2> QED
      BY <1>3, <2>2, <2>3
  <1>16. ASSUME NEW a \in Nat, NEW r \in Rows, Tells(ledger, r, a)
         PROVE  r \in DOMAIN M /\ Tells(M, r, a) /\ Under(M, k, r) = Under(ledger, k, r)
    BY <1>3, <1>4, <1>6, <1>16 DEF Tells
  <1>17. Begins(M, k, crossed')
    <2>1. ASSUME NEW s \in DOMAIN M, M[s].start # 0 \/ M[s].key # NoKey
          PROVE  \E r \in DOMAIN M : Tells(M, r, 0)
      <3>1. CASE \E t \in Rows : ledger[t].start # 0 \/ ledger[t].key # NoKey
        BY <1>4, <1>5, <1>16, <3>1 DEF Begins
      <3>2. CASE ~\E t \in Rows : ledger[t].start # 0 \/ ledger[t].key # NoKey
        <4>1. s = nextId
          BY <1>3, <2>1, <3>2
        <4>2. K # NoKey => OpensKey(K)
          BY <1>4, <3>2 DEF OpensKey
        <4>3. Start(K, b) # 0
          BY <1>8, <1>14, <2>1, <4>1, <4>2
        <4>4. Tells(M, nextId, 0)
          BY <1>1, <1>3, <1>4, <1>13, <4>3 DEF Tells
        <4> QED
          BY <1>3, <4>4
      <3> QED
        BY <3>1, <3>2
    <2>2. ASSUME ~crossed', Ends(M, k)
          PROVE  \E r \in DOMAIN M : Under(M, k, r) /\ Tells(M, r, 0)
      <3>1. CASE Ends(ledger, k)
        <4>1. \E r \in Rows : Under(ledger, k, r) /\ Tells(ledger, r, 0)
          BY <1>1, <1>4, <1>5, <2>2, <3>1 DEF Begins
        <4> QED
          BY <1>16, <4>1
      <3>2. CASE ~Ends(ledger, k)
        <4>1. k # NoKey /\ K = k /\ OpensKey(k)
          BY <1>7, <2>2, <3>2, OpensIff
        <4>2. Start(K, b) # 0
          BY <1>14, <4>1
        <4>3. Tells(M, nextId, 0)
          BY <1>1, <1>3, <1>4, <1>13, <4>2 DEF Tells
        <4> QED
          BY <1>3, <1>6, <4>1, <4>3
      <3> QED
        BY <3>1, <3>2
    <2> QED
      BY <2>1, <2>2 DEF Begins
  <1>18. b > 0 => Says(M, k, crossed', b)
    <2> SUFFICES ASSUME b > 0 PROVE Says(M, k, crossed', b)
      OBVIOUS
    <2>1. nextId \in DOMAIN M /\ Tells(M, nextId, b)
      BY <1>3, <1>13, <1>14
    <2>2. Ends(M, k) => Under(M, k, nextId)
      BY <1>6, <1>7
    <2> QED
      BY <2>1, <2>2 DEF Says
  <1>19. ASSUME NEW a \in Nat, Says(ledger, k, crossed, a), OpensKey(K) => crossed'
         PROVE  Says(M, k, crossed', a)
    <2>1. \E r \in DOMAIN M : Tells(M, r, a)
      BY <1>4, <1>16, <1>19 DEF Says
    <2>2. ASSUME ~crossed', Ends(M, k)
          PROVE  \E r \in DOMAIN M : Under(M, k, r) /\ Tells(M, r, a)
      <3>1. Ends(ledger, k)
        BY <1>7, <1>19, <2>2, OpensIff
      <3>2. \E r \in Rows : Under(ledger, k, r) /\ Tells(ledger, r, a)
        BY <1>1, <1>4, <1>19, <2>2, <3>1 DEF Says
      <3> QED
        BY <1>16, <3>2
    <2> QED
      BY <2>1, <2>2 DEF Says
  <1>20. Good(M, k, lost, crossed')
    BY <1>10, <1>15, <1>17 DEF Good
  <1> QED
    BY <1>0, <1>2, <1>18, <1>19, <1>20

-----------------------------------------------------------------------------
(* The ledger as long as nobody touches it *)

\* For key k, ledger L is good, and each purge that goes on has its record in it.
Sound(L, k) ==
    /\ Good(L, k, lost, crossed)
    /\ \A v \in Writers : writer[v].pc = "batch" => Says(L, k, crossed, writer[v].boundary)

\* This holds of the ledger, and of the ledger with the row that is about to be committed.
Untouched(k) ==
    /\ Sound(ledger, k)
    /\ \A w \in Writers : Sealing(w) =>
          /\ Sound(With(w), k)
          /\ writer[w].pc = "record" => Says(With(w), k, crossed, writer[w].boundary)

LEMMA BoundaryTyped ==
  ASSUME Base, NEW w \in Writers
  PROVE  writer[w].boundary \in Nat /\ writer[w].boundary \in Int
  BY Bounds DEF Base, TypeOK, Writer

\* Each action keeps an untouched ledger what it is.
LEMMA UntouchedAdded ==
  ASSUME Base, KeysInv, InHistory(ledger, ring.current, lost), NEW k, Untouched(k),
         NEW w \in Writers, NEW b, Adds(w, b)
  PROVE  Untouched(k)'
  <1>1. /\ \E r \in Writer : /\ Moves(w, r) /\ r.pc \in {"staged", "record"} /\ r.boundary = b
                             /\ r.pc = "record" => b >= 1
        /\ b \in Nat
        /\ crossed => crossed'
        /\ OpensKey(KeyOf(w)) /\ (\E p \in Writers : writer[p].pc = "batch") => crossed'
        /\ UNCHANGED <<ledger, key, ring, lost>>
    <2>1. b \in 0..nextId /\ nextId \in Ids /\ nextId \in Nat
      BY AddMoves, IdsTyped
    <2> QED
      BY <2>1, AddMoves
  <1>2. \A v \in Writers : writer'[v].pc = "batch" => writer[v].pc = "batch" /\ writer'[v] = writer[v]
    BY <1>1 DEF Moves
  <1>3. writer'[w].boundary = b /\ (writer'[w].pc = "record" => b > 0)
    BY <1>1 DEF Moves
  <1>4. Sealing(w)' /\ \A v \in Writers \ {w} : ~Sealing(v)'
    BY AddedWith
  <1>5. Good(ledger, k, lost, crossed)
    BY DEF Untouched, Sound
  <1>6. /\ Good(With(w)', k, lost, crossed')
        /\ b > 0 => Says(With(w)', k, crossed', b)
        /\ \A a \in Nat : Says(ledger, k, crossed, a) /\ (OpensKey(KeyOf(w)) => crossed')
                            => Says(With(w)', k, crossed', a)
    BY <1>5, AddGood
  <1>7. ASSUME NEW v \in Writers, writer'[v].pc = "batch"
        PROVE  /\ Says(With(w)', k, crossed', writer'[v].boundary)
               /\ Says(ledger, k, crossed', writer'[v].boundary)
    <2>1. writer[v].pc = "batch" /\ writer'[v] = writer[v] /\ writer[v].boundary \in Nat
      BY <1>2, <1>7, BoundaryTyped
    <2>2. Says(ledger, k, crossed, writer[v].boundary) /\ (OpensKey(KeyOf(w)) => crossed')
      BY <1>1, <2>1 DEF Untouched, Sound
    <2>3. Says(ledger, k, crossed', writer[v].boundary)
      BY <1>1, <2>2 DEF Says
    <2> QED
      BY <1>6, <2>1, <2>2, <2>3
  <1>8. Good(ledger, k, lost, crossed')
    BY <1>1, <1>5 DEF Good, Begins
  <1>9. Sound(ledger, k)'
    BY <1>1, <1>7, <1>8 DEF Sound
  <1>10. Sound(With(w), k)'
    BY <1>1, <1>6, <1>7 DEF Sound
  <1>11. writer'[w].pc = "record" => Says(With(w)', k, crossed', writer'[w].boundary)
    BY <1>1, <1>3, <1>6
  <1> QED
    BY <1>4, <1>9, <1>10, <1>11 DEF Untouched

\* A row is committed; the keyring is written or lost.
LEMMA SoundCommitted ==
  ASSUME Base, KeysInv, NEW k, Untouched(k), NEW w \in Writers, Sealing(w), WriteKeyring(w),
         UNCHANGED <<key, crossed>>
  PROVE  Good(With(w), k, lost', crossed')
  <1>1. Good(With(w), k, lost, crossed)
    BY DEF Untouched, Sound
  <1>2. /\ DOMAIN With(w) = Rows \cup {writer[w].id}
        /\ With(w)[writer[w].id] = writer[w].entry
        /\ \A i \in Rows : i < writer[w].id
        /\ IsLedger(With(w))
    BY WithRows
  <1>3. DOMAIN With(w) \subseteq Nat
    BY <1>2, IdsTyped DEF IsLedger
  <1>4. \A i \in DOMAIN With(w) : i <= writer[w].id
    BY <1>2, <1>3
  <1>5. lost \ {writer[w].entry.key} \subseteq lost'
    BY KeyringWritten
  <1>6. Good(With(w), k, lost', crossed)
    <2>1. PICK L : L = With(w)
      OBVIOUS
    <2>2. PICK e : e = writer[w].id
      OBVIOUS
    <2>3. e \in DOMAIN L /\ (\A i \in DOMAIN L : i <= e) /\ L[e].key = writer[w].entry.key
          /\ DOMAIN L \subseteq Nat /\ Good(L, k, lost, crossed)
      BY <1>1, <1>2, <1>3, <1>4, <2>1, <2>2
    <2>4. Good(L, k, lost', crossed)
      BY <1>5, <2>3, KeyringGood
    <2> QED
      BY <2>1, <2>4
  <1> QED
    BY <1>6

LEMMA UntouchedCommitted ==
  ASSUME Base, KeysInv, NEW k, Untouched(k), NEW w \in Writers, Commit(w)
  PROVE  Untouched(k)'
  <1>1. ledger' = With(w) /\ Sealing(w) /\ Moves(w, Idle)
    BY CommitMoves
  <1>2. \A v \in Writers : ~Sealing(v)'
    BY <1>1, IdleTyped DEF Base, Turns, Moves, Sealing
  <1>3. WriteKeyring(w) /\ UNCHANGED <<key, crossed>>
    BY DEF Commit
  <1>4. Good(ledger', k, lost', crossed')
    BY <1>1, <1>3, SoundCommitted
  <1>5. ASSUME NEW v \in Writers, writer'[v].pc = "batch"
        PROVE  Says(ledger', k, crossed', writer'[v].boundary)
    <2>1. writer[v].pc = "batch" /\ writer'[v] = writer[v]
      BY <1>1, <1>5, IdleTyped DEF Moves
    <2>2. Says(With(w), k, crossed, writer[v].boundary)
      BY <1>1, <2>1 DEF Untouched, Sound
    <2> QED
      BY <1>1, <1>3, <2>1, <2>2
  <1>6. Sound(ledger, k)'
    BY <1>4, <1>5 DEF Sound
  <1> QED
    BY <1>2, <1>6 DEF Untouched

LEMMA UntouchedFirstBatch ==
  ASSUME Base, Order, KeysInv, NEW k, Untouched(k), NEW w \in Writers, FirstBatch(w)
  PROVE  Untouched(k)'
  <1>1. /\ ledger' = Cut(With(w), Batch(w)) /\ writer[w].pc = "record" /\ Sealing(w)
        /\ Moves(w, AfterBatch(w))
    BY FirstBatchMoves
  <1>2. \/ AfterBatch(w).pc = "idle"
        \/ AfterBatch(w).pc = "batch" /\ AfterBatch(w).boundary = writer[w].boundary
    BY AfterBatchMoves DEF FirstBatch
  <1>3. \A v \in Writers : ~Sealing(v)'
    BY <1>1, <1>2 DEF Base, Turns, Moves, Sealing
  <1>4. WriteKeyring(w) /\ UNCHANGED <<key, crossed>>
    BY DEF FirstBatch
  <1>5. Good(With(w), k, lost', crossed')
    BY <1>1, <1>4, SoundCommitted
  <1>6. Says(With(w), k, crossed', writer[w].boundary)
    BY <1>1, <1>4 DEF Untouched
  <1>7. /\ Batch(w) \subseteq Rows /\ \A i \in Batch(w) : i < writer[w].boundary
        /\ \A i \in Batch(w), j \in Rows : j < i => j \in Batch(w)
    BY BoundaryTyped, BatchIsPrefix DEF Base, TypeOK
  <1>8. /\ DOMAIN With(w) = Rows \cup {writer[w].id} /\ IsLedger(With(w))
        /\ \A i \in Rows : i < writer[w].id
    BY <1>1, WithRows
  <1>9. ASSUME NEW i \in Batch(w), NEW j \in DOMAIN With(w), j < i PROVE j \in Batch(w)
    <2>1. j # writer[w].id
      <3>1. i < writer[w].id /\ i \in Nat /\ writer[w].id \in Nat
        BY <1>1, <1>7, <1>8, LastRow, IdsTyped DEF Base, Numbered
      <3> QED
        BY <1>9, <3>1
    <2> QED
      BY <1>7, <1>8, <1>9, <2>1
  <1>10. Ordered(With(w)) /\ writer[w].boundary \in Nat /\ Batch(w) \subseteq DOMAIN With(w)
    BY <1>1, <1>7, <1>8, BoundaryTyped DEF Order
  <1>11. /\ Good(Cut(With(w), Batch(w)), k, lost', crossed')
         /\ \A a \in Nat : Says(With(w), k, crossed', a) => Says(Cut(With(w), Batch(w)), k, crossed', a)
    BY <1>5, <1>6, <1>7, <1>8, <1>9, <1>10, CutGood
  <1>12. ASSUME NEW v \in Writers, writer'[v].pc = "batch"
         PROVE  Says(ledger', k, crossed', writer'[v].boundary)
    <2>1. writer'[v].boundary = writer[v].boundary /\ (v = w \/ writer[v].pc = "batch")
      BY <1>1, <1>2, <1>12 DEF Moves
    <2>2. Says(With(w), k, crossed', writer[v].boundary)
      BY <1>1, <1>4, <1>6, <2>1 DEF Untouched, Sound
    <2> QED
      BY <1>1, <1>11, <2>1, <2>2, BoundaryTyped
  <1>13. Sound(ledger, k)'
    BY <1>1, <1>11, <1>12 DEF Sound
  <1> QED
    BY <1>3, <1>13 DEF Untouched

LEMMA UntouchedNextBatch ==
  ASSUME Base, Order, NEW k, Untouched(k), NEW w \in Writers, NextBatch(w)
  PROVE  Untouched(k)'
  <1>1. ledger' = Cut(ledger, Batch(w)) /\ writer[w].pc = "batch" /\ Moves(w, AfterBatch(w))
    BY NextBatchMoves
  <1>2. \/ AfterBatch(w).pc = "idle"
        \/ AfterBatch(w).pc = "batch" /\ AfterBatch(w).boundary = writer[w].boundary
    BY AfterBatchMoves DEF NextBatch
  <1>3. UNCHANGED <<key, ring, lost, crossed>>
    BY DEF NextBatch
  <1>4. /\ Batch(w) \subseteq Rows /\ \A i \in Batch(w) : i < writer[w].boundary
        /\ \A i \in Batch(w), j \in Rows : j < i => j \in Batch(w)
        /\ writer[w].boundary \in Nat
    BY BoundaryTyped, BatchIsPrefix DEF Base, TypeOK
  <1>5. ASSUME NEW v \in Writers, writer'[v].pc = "batch"
        PROVE  writer[v].pc = "batch" /\ writer'[v].boundary = writer[v].boundary
               /\ writer[v].boundary \in Nat
    BY <1>1, <1>2, <1>5, BoundaryTyped DEF Moves
  <1>6. ASSUME NEW L, Sound(L, k), IsLedger(L), Ordered(L), Rows \subseteq DOMAIN L,
               \A i \in DOMAIN L \ Rows, j \in Rows : j < i
        PROVE  /\ Good(Cut(L, Batch(w)), k, lost, crossed)
               /\ \A a \in Nat : Says(L, k, crossed, a) => Says(Cut(L, Batch(w)), k, crossed, a)
    <2>1. Good(L, k, lost, crossed) /\ Says(L, k, crossed, writer[w].boundary)
      BY <1>1, <1>6 DEF Sound
    <2>2. ASSUME NEW i \in Batch(w), NEW j \in DOMAIN L, j < i PROVE j \in Batch(w)
      <3>1. i \in Nat /\ j \in Nat
        BY <1>4, <1>6, LastRow, IdsTyped DEF IsLedger
      <3>2. j \in Rows
        BY <1>4, <1>6, <2>2, <3>1
      <3> QED
        BY <1>4, <2>2, <3>2
    <2>3. Batch(w) \subseteq DOMAIN L
      BY <1>4, <1>6
    <2> QED
      BY <1>4, <1>6, <2>1, <2>2, <2>3, CutGood
  <1>7. Sound(ledger, k)'
    <2>1. Sound(ledger, k) /\ IsLedger(ledger) /\ Ordered(ledger) /\ Rows = DOMAIN ledger
      BY DEF Untouched, Base, TypeOK, IsLedger, Order, Rows
    <2>2. /\ Good(Cut(ledger, Batch(w)), k, lost, crossed)
          /\ \A a \in Nat : Says(ledger, k, crossed, a) => Says(Cut(ledger, Batch(w)), k, crossed, a)
      BY <1>6, <2>1
    <2>3. ASSUME NEW v \in Writers, writer'[v].pc = "batch"
          PROVE  Says(ledger', k, crossed', writer'[v].boundary)
      <3>1. Says(ledger, k, crossed, writer[v].boundary)
        BY <1>5, <2>1, <2>3 DEF Sound
      <3> QED
        BY <1>1, <1>3, <1>5, <2>2, <2>3, <3>1
    <2> QED
      BY <1>1, <1>3, <2>2, <2>3 DEF Sound
  <1>8. ASSUME NEW v \in Writers, Sealing(v)'
        PROVE  /\ Sound(With(v), k)'
               /\ writer'[v].pc = "record" => Says(With(v)', k, crossed', writer'[v].boundary)
    <2>1. v # w /\ Sealing(v) /\ writer'[v] = writer[v]
      BY <1>1, <1>2, <1>8, StillSealing
    <2>2. With(v)' = Cut(With(v), Batch(w))
      BY <1>1, <1>4, <2>1, WithCut
    <2>3. PICK L : L = With(v)
      OBVIOUS
    <2>4. Sound(L, k)
      BY <2>1, <2>3 DEF Untouched, Sound
    <2>5. /\ IsLedger(L) /\ DOMAIN L = Rows \cup {writer[v].id} /\ \A j \in Rows : j < writer[v].id
          /\ Ordered(L)
      BY <2>1, <2>3, WithRows DEF Order
    <2>6. /\ Good(Cut(L, Batch(w)), k, lost, crossed)
          /\ \A a \in Nat : Says(L, k, crossed, a) => Says(Cut(L, Batch(w)), k, crossed, a)
      BY <1>6, <2>4, <2>5
    <2>7. PICK M : M = With(v)'
      OBVIOUS
    <2>8. M = Cut(L, Batch(w))
      BY <2>2, <2>3, <2>7
    <2>9. ASSUME NEW u \in Writers, writer'[u].pc = "batch"
          PROVE  Says(M, k, crossed', writer'[u].boundary)
      <3>1. Says(L, k, crossed, writer[u].boundary)
        BY <1>5, <2>4, <2>9 DEF Sound
      <3> QED
        BY <1>3, <1>5, <2>6, <2>8, <2>9, <3>1
    <2>10. writer'[v].pc = "record" => Says(M, k, crossed', writer'[v].boundary)
      <3>1. writer[v].pc = "record" => Says(L, k, crossed, writer[v].boundary)
        BY <2>1, <2>3 DEF Untouched
      <3> QED
        BY <1>3, <2>1, <2>6, <2>8, <3>1, BoundaryTyped
    <2>11. Good(M, k, lost', crossed')
      BY <1>3, <2>6, <2>8
    <2> QED
      BY <2>7, <2>9, <2>10, <2>11 DEF Sound
  <1> QED
    BY <1>7, <1>8 DEF Untouched

\* Steps that leave the ledger alone and begin no batch.
LEMMA UntouchedKept ==
  ASSUME NEW k, Untouched(k), UNCHANGED <<ledger, lost, crossed>>,
         \A v \in Writers : Sealing(v)' => Sealing(v) /\ writer'[v] = writer[v],
         \A v \in Writers : writer'[v].pc = "batch" => writer'[v] = writer[v]
  PROVE  Untouched(k)'
  <1>1. Sound(ledger, k)'
    BY DEF Untouched, Sound
  <1>2. ASSUME NEW v \in Writers, Sealing(v)'
        PROVE  /\ Sound(With(v), k)'
               /\ writer'[v].pc = "record" => Says(With(v)', k, crossed', writer'[v].boundary)
    <2>1. Sealing(v) /\ writer'[v] = writer[v] /\ With(v)' = With(v)
      BY <1>2, SameWith
    <2>2. PICK L : L = With(v)
      OBVIOUS
    <2>3. Sound(L, k) /\ (writer[v].pc = "record" => Says(L, k, crossed, writer[v].boundary))
      BY <2>1, <2>2 DEF Untouched, Sound
    <2>4. L = With(v)'
      BY <2>1, <2>2
    <2>5. /\ Good(L, k, lost', crossed')
          /\ \A u \in Writers : writer'[u].pc = "batch" => Says(L, k, crossed', writer'[u].boundary)
          /\ writer'[v].pc = "record" => Says(L, k, crossed', writer'[v].boundary)
      BY <2>1, <2>3 DEF Sound
    <2> QED
      BY <2>4, <2>5 DEF Sound
  <1> QED
    BY <1>1, <1>2 DEF Untouched

\* A row is committed, alone or with the first batch of a purge, and its key is the current
\* one of the history or lost.
LEMMA HistoryCommitted ==
  ASSUME Base, KeysInv, InHistory(ledger, ring.current, lost), NEW w \in Writers, Sealing(w),
         WriteKeyring(w)
  PROVE  InHistory(With(w), ring'.current, lost')
  <1>1. PICK L : L = With(w)
    OBVIOUS
  <1>2. PICK e : e = writer[w].id
    OBVIOUS
  <1>3. PICK c : c = writer[w].entry.key
    OBVIOUS
  <1>4. /\ DOMAIN L = Rows \cup {e} /\ L[e].key = c /\ Rows = DOMAIN ledger
        /\ \A i \in Rows : L[i] = ledger[i] /\ i < e
    BY <1>1, <1>2, <1>3, WithRows DEF Rows
  <1>5. /\ lost \ {c} \subseteq lost' /\ ring'.current \in {ring.current, c}
        /\ c \in {NoKey, ring'.current} \cup lost'
    BY <1>3, KeyringWritten
  <1>6. InHistory(L, ring'.current, lost')
    <2> SUFFICES ASSUME ring'.current # NoKey, NEW i \in DOMAIN L,
                        L[i].key \notin {NoKey, ring'.current} \cup lost'
                 PROVE  \E j \in DOMAIN L : i < j /\ Under(L, ring'.current, j)
      BY DEF InHistory
    <2>1. i \in Rows /\ L[i].key # c
      BY <1>4, <1>5
    <2>2. CASE ring'.current = c
      BY <1>4, <2>1, <2>2 DEF Under
    <2>3. CASE ring'.current = ring.current
      <3>1. ledger[i].key \notin {NoKey, ring.current} \cup lost
        BY <1>4, <1>5, <2>1, <2>3
      <3>2. PICK j \in Rows : i < j /\ Under(ledger, ring.current, j)
        BY <1>4, <2>1, <2>3, <3>1 DEF InHistory
      <3> QED
        BY <1>4, <2>3, <3>2 DEF Under
    <2> QED
      BY <1>5, <2>2, <2>3
  <1> QED
    BY <1>1, <1>6

\* No step but a removal by hand touches the ledger.
Whole == InHistory(ledger, ring.current, lost) /\ \A k \in AnyKey : Untouched(k)

LEMMA StepUntouched ==
  ASSUME Base, Order, KeysInv, removed = 0 => Whole, [Next]_vars
  PROVE  removed' = 0 => Whole'
  <1>1. ASSUME NEW i \in Ids, RemoveRow(i) PROVE removed' # 0
    BY <1>1, RemoveRowMoves
  <1>2. SUFFICES ASSUME removed' = 0, ~\E i \in Ids : RemoveRow(i) PROVE Whole'
    BY <1>1
  <1>3. removed = 0
    BY <1>2 DEF Next, vars, Stage, Commit, Rollback, StartPurge, RecordPurge, FirstBatch,
                NextBatch, ChangeKey
  <1>4. InHistory(ledger, ring.current, lost) /\ \A k \in AnyKey : Untouched(k)
    BY <1>3 DEF Whole
  <1>5. ASSUME UNCHANGED <<ledger, ring, lost>> PROVE InHistory(ledger, ring.current, lost)'
    BY <1>4, <1>5
  <1>6. ASSUME NEW w \in Writers, NEW b, Adds(w, b) PROVE Whole'
    <2>1. UNCHANGED <<ledger, ring, lost>>
      BY <1>6, AddMoves
    <2>2. ASSUME NEW k \in AnyKey PROVE Untouched(k)'
      BY <1>4, <1>6, UntouchedAdded
    <2> QED
      BY <1>5, <2>1, <2>2 DEF Whole, AnyKey
  <1>7. ASSUME NEW w \in Writers, Commit(w) PROVE Whole'
    <2>1. ledger' = With(w) /\ Sealing(w) /\ WriteKeyring(w)
      BY <1>7, CommitMoves DEF Commit
    <2>2. InHistory(ledger, ring.current, lost)'
      BY <1>4, <2>1, HistoryCommitted
    <2>3. ASSUME NEW k \in AnyKey PROVE Untouched(k)'
      BY <1>4, <1>7, UntouchedCommitted
    <2> QED
      BY <2>2, <2>3 DEF Whole, AnyKey
  <1>8. ASSUME NEW w \in Writers PROVE \A i \in Batch(w), j \in Rows : j < i => j \in Batch(w)
    BY BoundaryTyped, BatchIsPrefix DEF Base, TypeOK
  <1>9. ASSUME NEW w \in Writers, FirstBatch(w) PROVE Whole'
    <2>1. ledger' = Cut(With(w), Batch(w)) /\ Sealing(w) /\ WriteKeyring(w)
      BY <1>9, FirstBatchMoves DEF FirstBatch
    <2>2. InHistory(With(w), ring'.current, lost')
      BY <1>4, <2>1, HistoryCommitted
    <2>3. /\ DOMAIN With(w) = Rows \cup {writer[w].id} /\ writer[w].id \in Nat
          /\ \A i \in Rows : i < writer[w].id /\ i \in Nat
      BY <2>1, WithRows, LastRow, IdsTyped DEF Base, Numbered
    <2>4. Batch(w) \subseteq DOMAIN With(w) /\ Batch(w) \subseteq Rows
      BY <2>3 DEF Batch
    <2>5. ASSUME NEW i \in Batch(w), NEW j \in DOMAIN With(w), j < i PROVE j \in Batch(w)
      <3>1. i \in Rows
        BY <2>4
      <3>2. j # writer[w].id
        BY <2>3, <2>5, <3>1
      <3> QED
        BY <1>8, <2>3, <2>5, <3>2
    <2>6. InHistory(ledger, ring.current, lost)'
      <3>1. InHistory(Cut(With(w), Batch(w)), ring'.current, lost')
        BY <2>2, <2>4, <2>5, CutHistory
      <3> QED
        BY <2>1, <3>1
    <2>7. ASSUME NEW k \in AnyKey PROVE Untouched(k)'
      BY <1>4, <1>9, UntouchedFirstBatch
    <2> QED
      BY <2>6, <2>7 DEF Whole, AnyKey
  <1>10. ASSUME NEW w \in Writers, NextBatch(w) PROVE Whole'
    <2>1. ledger' = Cut(ledger, Batch(w)) /\ UNCHANGED <<ring, lost>>
      BY <1>10, NextBatchMoves DEF NextBatch
    <2>2. InHistory(ledger, ring.current, lost)'
      <3>1. Batch(w) \subseteq DOMAIN ledger /\ Rows = DOMAIN ledger
        BY DEF Batch, Rows
      <3>2. InHistory(Cut(ledger, Batch(w)), ring.current, lost)
        BY <1>4, <1>8, <3>1, CutHistory
      <3> QED
        BY <2>1, <3>2
    <2>3. ASSUME NEW k \in AnyKey PROVE Untouched(k)'
      BY <1>4, <1>10, UntouchedNextBatch
    <2> QED
      BY <2>2, <2>3 DEF Whole, AnyKey
  <1>11. ASSUME UNCHANGED <<ledger, ring, lost, crossed>>,
                \A v \in Writers : Sealing(v)' => Sealing(v) /\ writer'[v] = writer[v],
                \A v \in Writers : writer'[v].pc = "batch" => writer'[v] = writer[v]
         PROVE  Whole'
    <2>1. ASSUME NEW k \in AnyKey PROVE Untouched(k)'
      BY <1>4, <1>11, UntouchedKept
    <2> QED
      BY <1>5, <1>11, <2>1 DEF Whole, AnyKey
  <1>12. ASSUME NEW w \in Writers, Rollback(w) PROVE Whole'
    <2>1. Moves(w, Idle) /\ UNCHANGED <<ledger, ring, lost, crossed>>
      BY <1>12, RollbackMoves DEF Rollback
    <2>2. \A v \in Writers : Sealing(v)' => Sealing(v) /\ writer'[v] = writer[v]
      BY <2>1, IdleTyped, StillSealing
    <2>3. \A v \in Writers : writer'[v].pc = "batch" => writer'[v] = writer[v]
      BY <2>1, IdleTyped DEF Moves
    <2> QED
      BY <1>11, <2>1, <2>2, <2>3
  <1>13. ASSUME NEW w \in Writers, NEW b \in 1..(MaxId + 1), StartPurge(w, b) PROVE Whole'
    <2>1. Moves(w, At("purge", b)) /\ At("purge", b).pc = "purge"
          /\ UNCHANGED <<ledger, ring, lost, crossed>>
      BY <1>13, StartPurgeMoves DEF StartPurge
    <2>2. \A v \in Writers : Sealing(v)' => Sealing(v) /\ writer'[v] = writer[v]
      BY <2>1, StillSealing
    <2>3. \A v \in Writers : writer'[v].pc = "batch" => writer'[v] = writer[v]
      BY <2>1 DEF Moves
    <2> QED
      BY <1>11, <2>1, <2>2, <2>3
  <1>14. ASSUME Rekeys \/ UNCHANGED vars PROVE Whole'
    <2>1. UNCHANGED <<ledger, ring, writer, lost, crossed>>
      BY <1>14 DEF Rekeys, ChangeKey, vars
    <2> QED
      BY <1>11, <2>1 DEF Sealing
  <1> QED
    BY <1>2, <1>6, <1>7, <1>9, <1>10, <1>12, <1>13, <1>14, Steps

LEMMA InitUntouched == Init => KeysInv /\ Whole
  <1> SUFFICES ASSUME Init PROVE KeysInv /\ Whole
    OBVIOUS
  <1>1. DOMAIN ledger = {} /\ Rows = {}
    BY DEF Init, Rows
  <1>2. \A w \in Writers : writer[w].pc = "idle"
    BY IdleTyped DEF Init
  <1>3. KeysInv
    BY <1>1 DEF Init, KeysInv, NoRing, NoKey
  <1>4. InHistory(ledger, ring.current, lost) /\ \A k \in AnyKey : Good(ledger, k, lost, crossed)
    BY <1>1 DEF Good, Linked, InHistory, Opened, Begins, Ends
  <1>5. \A k \in AnyKey : Untouched(k)
    BY <1>2, <1>4 DEF Untouched, Sound, Sealing
  <1> QED
    BY <1>3, <1>4, <1>5 DEF Whole

-----------------------------------------------------------------------------
(* verify_chain of a ledger that nobody touched *)

\* Max and Min of the starts that rows name, for _check_chain_start.
LEMMA MinMax ==
  ASSUME NEW S, S \subseteq 0..MaxId, NEW s \in S
  PROVE  Max(S) \in Nat /\ Min(S) \in Nat /\ Min(S) <= s /\ s <= Max(S)
  <1>1. S # {} /\ S \subseteq Nat /\ s \in Nat
    BY Bounds
  <1>2. First(S) = Min(S) /\ Last(S) = Max(S)
    BY <1>1 DEF First, Last
  <1>3. First(S) \in S /\ First(S) <= s
    BY <1>1, FirstIsLeast
  <1>4. Last(S) \in S /\ Last(S) >= s
    BY <1>1, LastIsGreatest, Bounds
  <1> QED
    BY <1>1, <1>2, <1>3, <1>4

LEMMA GoodLinks ==
  ASSUME Base, Order, NEW k, Untouched(k)
  PROVE  LinkErrors = {}
  <1> SUFFICES ASSUME NEW i \in Rows, i # First(Rows),
                      ledger[i].prev # Last({j \in Rows : j < i})
               PROVE  FALSE
    BY DEF LinkErrors
  <1> DEFINE S == {j \in Rows : j < i}
  <1>1. Rows \subseteq Nat /\ Rows \subseteq 0..MaxId /\ Rows = DOMAIN ledger
    BY LastRow, IdsTyped DEF Rows
  <1>2. First(Rows) \in Rows /\ First(Rows) <= i
    BY <1>1, FirstIsLeast
  <1>3. First(Rows) < i
    BY <1>1, <1>2
  <1>4. ledger[i].prev \in Rows
    BY <1>1, <1>2, <1>3 DEF Untouched, Sound, Good, Linked
  <1>5. ledger[i].prev < i /\ \A j \in Rows : j < i => j <= ledger[i].prev
    BY <1>1 DEF Order, Ordered
  <1>6. ledger[i].prev \in S /\ S \subseteq 0..MaxId
    BY <1>1, <1>4, <1>5
  <1>7. Last(S) \in S /\ Last(S) >= ledger[i].prev
    BY <1>6, LastIsGreatest, Bounds
  <1>8. Last(S) <= ledger[i].prev
    BY <1>5, <1>7
  <1>9. Last(S) \in Nat /\ ledger[i].prev \in Nat
    BY <1>1, <1>4, <1>7
  <1> QED
    BY <1>7, <1>8, <1>9

LEMMA KeyedIs ==
  ASSUME Base
  PROVE  /\ \A i \in Rows : i \in Keyed <=> Under(ledger, VerifyingKey, i)
         /\ FirstKeyed \in Nat
         /\ FirstKeyed = 0 <=> Keyed = {}
         /\ FirstKeyed # 0 => /\ FirstKeyed \in Rows /\ Under(ledger, VerifyingKey, FirstKeyed)
                              /\ \A i \in Rows : i < FirstKeyed => ~Under(ledger, VerifyingKey, i)
  <1>1. \A i \in Rows : i \in Keyed <=> Under(ledger, VerifyingKey, i)
    BY DEF Keyed, Under
  <1>2. Keyed \subseteq Rows /\ Keyed \subseteq Nat /\ 0 \notin Keyed
    BY LastRow, IdsTyped DEF Keyed
  <1>3. Keyed = {} => FirstKeyed = 0
    BY <1>2, FirstIsLeast DEF FirstKeyed
  <1>4. Keyed # {} => FirstKeyed \in Keyed /\ \A i \in Keyed : FirstKeyed <= i
    BY <1>2, FirstIsLeast DEF FirstKeyed
  <1>5. FirstKeyed = 0 <=> Keyed = {}
    BY <1>2, <1>3, <1>4
  <1>6. FirstKeyed \in Nat
    <2>1. CASE Keyed = {}
      BY <1>3, <2>1
    <2>2. CASE Keyed # {}
      BY <1>2, <1>4, <2>2
    <2> QED
      BY <2>1, <2>2
  <1>7. ASSUME FirstKeyed # 0
        PROVE  /\ FirstKeyed \in Rows /\ Under(ledger, VerifyingKey, FirstKeyed)
               /\ \A i \in Rows : i < FirstKeyed => ~Under(ledger, VerifyingKey, i)
    <2>1. FirstKeyed \in Keyed /\ \A i \in Keyed : FirstKeyed <= i
      BY <1>4, <1>5, <1>7
    <2>2. ASSUME NEW i \in Rows, i < FirstKeyed PROVE i \notin Keyed
      <3>1. i \in Nat
        BY LastRow
      <3> QED
        BY <1>6, <2>1, <2>2, <3>1
    <2> QED
      BY <1>1, <1>2, <2>1, <2>2
  <1> QED
    BY <1>1, <1>5, <1>6, <1>7

LEMMA GoodSeals ==
  ASSUME Base, Settled
  PROVE  NotSealedByKey = {}
  <1> SUFFICES ASSUME NEW i \in Rows, FirstKeyed > 0, i > FirstKeyed PROVE i \in Keyed
    BY DEF NotSealedByKey
  <1>1. FirstKeyed \in Nat /\ FirstKeyed # 0 /\ i \in Nat
    BY KeyedIs, LastRow
  <1>2. FirstKeyed \in Rows /\ FirstKeyed \in Keyed
    BY <1>1, KeyedIs
  <1> QED
    BY <1>1, <1>2 DEF Settled

\* What the first row under the key says, when it is not the first of all.
LEMMA FirstKeyedSays ==
  ASSUME Base, Settled, Untouched(VerifyingKey), lost = {}, FirstKeyed # 0, NEW i \in Rows, i < FirstKeyed
  PROVE  /\ ledger[i].key = NoKey
            \/ (ledger[FirstKeyed].attested /\ i <= ledger[FirstKeyed].retired[ledger[i].key])
         /\ ledger[FirstKeyed].start # 0
         /\ ledger[FirstKeyed].purge \/ \A j \in Rows : ledger[FirstKeyed].start <= j
  <1>1. /\ FirstKeyed \in Rows /\ Under(ledger, VerifyingKey, FirstKeyed)
        /\ \A j \in Rows : j < FirstKeyed => ~Under(ledger, VerifyingKey, j)
    BY KeyedIs
  <1>2. Opened(ledger, VerifyingKey, lost)
    BY DEF Untouched, Sound, Good
  <1>3. \A j \in Rows : FirstKeyed < j => Under(ledger, VerifyingKey, j)
    BY <1>1, KeyedIs DEF Settled
  <1> QED
    BY <1>1, <1>2, <1>3 DEF Opened, Rows

LEMMA GoodKeys ==
  ASSUME Base, Settled, Untouched(VerifyingKey), lost = {}
  PROVE  UnattestedKeys = {}
  <1> SUFFICES ASSUME FirstKeyed # 0, NEW k \in Keys \ {VerifyingKey},
                      Last({i \in Rows : i < FirstKeyed /\ ledger[i].key = k})
                        > ledger[FirstKeyed].retired[k]
               PROVE  FALSE
    BY DEF UnattestedKeys
  <1> DEFINE S == {i \in Rows : i < FirstKeyed /\ ledger[i].key = k}
  <1>1. FirstKeyed \in Rows
    BY KeyedIs
  <1>2. ledger[FirstKeyed].retired[k] \in Nat
    <2>1. ledger[FirstKeyed] \in Entry
      BY <1>1 DEF Base, TypeOK
    <2>2. ledger[FirstKeyed].retired[k] \in {0} \cup Ids
      BY <2>1 DEF Entry
    <2> QED
      BY <2>2, IdOrNone
  <1>3. S \subseteq 0..MaxId /\ S \subseteq Nat
    BY LastRow, IdsTyped
  <1>4. CASE S = {}
    <2>1. Last(S) = 0
      BY <1>4 DEF Last
    <2> QED
      BY <1>2, <2>1
  <1>5. CASE S # {}
    <2>1. Last(S) \in S
      BY <1>3, <1>5, LastIsGreatest, Bounds
    <2>2. k # NoKey
      BY Bounds DEF Keys, NoKey
    <2>3. Last(S) <= ledger[FirstKeyed].retired[k]
      <3>1. Last(S) \in Rows /\ Last(S) < FirstKeyed /\ ledger[Last(S)].key = k
        BY <2>1
      <3> QED
        BY <2>2, <3>1, FirstKeyedSays
    <2>4. Last(S) \in Nat
      BY <1>3, <2>1
    <2> QED
      BY <1>2, <2>3, <2>4
  <1> QED
    BY <1>4, <1>5

LEMMA GoodStart ==
  ASSUME Base, Settled, Untouched(VerifyingKey), lost = {}, ~crossed, ~CutAtNewKey,
         LinkErrors = {}, NotSealedByKey = {}
  PROVE  ~StartError
  <1> SUFFICES ASSUME StartError PROVE FALSE
    OBVIOUS
  <1>1. Rows # {} /\ Rows \subseteq Nat /\ 0 \notin Rows /\ Rows = DOMAIN ledger
    BY LastRow, IdsTyped DEF StartError, Rows
  <1>2. PICK first : first = First(Rows)
    OBVIOUS
  <1>3. first \in Rows /\ first \in Nat /\ \A j \in Rows : first <= j
    BY <1>1, <1>2, FirstIsLeast
  <1>4. Begins(ledger, VerifyingKey, crossed)
    BY DEF Untouched, Sound, Good
  <1>5. \A i \in Rows : ledger[i].start \in Nat /\ ledger[i].start \in 0..MaxId
    <2>1. \A i \in Rows : ledger[i].start \in {0} \cup Ids
      BY DEF Base, TypeOK, Entry
    <2> QED
      BY <2>1, IdOrNone
  <1>6. ASSUME NEW S \in SUBSET Rows
        PROVE  /\ Starts(S) \subseteq 0..MaxId
               /\ \A i \in S : ledger[i].start # 0 => ledger[i].start \in Starts(S)
               /\ \A s \in Starts(S) : \E i \in S : s = ledger[i].start /\ s # 0
    BY <1>5 DEF Starts
  <1>7. ASSUME NEW r \in Rows, Tells(ledger, r, 0)
        PROVE  ledger[r].start # 0 /\ first <= ledger[r].start
    <2>1. PICK j \in Rows : j <= ledger[r].start
      BY <1>1, <1>7 DEF Tells
    <2>2. j \in Nat /\ j # 0 /\ first <= j /\ ledger[r].start \in Nat
      BY <1>1, <1>3, <1>5, <2>1
    <2> QED
      BY <1>3, <2>1, <2>2
  <1>8. CASE FirstKeyed > 0
    <2>1. FirstKeyed # 0 /\ FirstKeyed \in Nat /\ FirstKeyed \in Rows /\ Under(ledger, VerifyingKey, FirstKeyed)
          /\ Keyed \in SUBSET Rows /\ FirstKeyed \in Keyed
      BY <1>8, KeyedIs DEF Keyed
    <2>2. PICK r \in Rows : Under(ledger, VerifyingKey, r) /\ Tells(ledger, r, 0)
      <3>1. Last(Rows) \in Rows /\ \A i \in Rows : i <= Last(Rows)
        BY <1>1, LastRow
      <3>2. FirstKeyed = Last(Rows) \/ FirstKeyed < Last(Rows)
        BY <1>1, <2>1, <3>1
      <3>3. Last(Rows) \in Keyed
        BY <2>1, <3>1, <3>2 DEF Settled
      <3>4. Ends(ledger, VerifyingKey)
        BY <1>1, <3>1, <3>3, KeyedIs DEF Ends
      <3> QED
        BY <1>1, <1>4, <3>4 DEF Begins
    <2>3. r \in Keyed /\ ledger[r].start \in Starts(Keyed) /\ Starts(Keyed) \subseteq 0..MaxId
      BY <1>6, <1>7, <2>1, <2>2, KeyedIs
    <2>4. first <= Max(Starts(Keyed)) /\ Max(Starts(Keyed)) \in Nat
      <3>1. Max(Starts(Keyed)) \in Nat /\ ledger[r].start <= Max(Starts(Keyed))
        BY <2>3, MinMax
      <3>2. first <= ledger[r].start /\ ledger[r].start \in Nat
        BY <1>5, <1>7, <2>2
      <3> QED
        BY <1>3, <3>1, <3>2
    <2>5. first < Min(Starts(Keyed)) /\ first # FirstKeyed
      BY <1>1, <1>2, <1>3, <1>8, <2>3, <2>4 DEF StartError
    <2>6. first < FirstKeyed
      BY <1>3, <2>1, <2>5
    <2>7. /\ ledger[FirstKeyed].start # 0
          /\ ledger[FirstKeyed].purge \/ \A j \in Rows : ledger[FirstKeyed].start <= j
      BY <1>3, <2>1, <2>6, FirstKeyedSays
    <2>8. ledger[FirstKeyed].start <= first
      <3>1. ledger[FirstKeyed].purge => ~(first < ledger[FirstKeyed].start)
        BY <1>2, <2>1 DEF CutAtNewKey
      <3>2. ledger[FirstKeyed].start \in Nat
        BY <1>5, <2>1
      <3> QED
        BY <1>3, <2>7, <3>1, <3>2
    <2>9. ledger[FirstKeyed].start \in Starts(Keyed)
      BY <1>6, <2>1, <2>7
    <2>10. Min(Starts(Keyed)) \in Nat /\ Min(Starts(Keyed)) <= ledger[FirstKeyed].start
      BY <2>3, <2>9, MinMax
    <2>11. ledger[FirstKeyed].start \in Nat
      BY <1>5, <2>1
    <2> QED
      BY <1>3, <2>5, <2>8, <2>10, <2>11
  <1>9. CASE ~(FirstKeyed > 0)
    <2>1. \/ Starts(Rows) # {} /\ first > Max(Starts(Rows))
          \/ Starts(Rows) = {} /\ ledger[first].key # NoKey
      BY <1>1, <1>2, <1>9 DEF StartError
    <2>2. \E s \in Rows : ledger[s].start # 0 \/ ledger[s].key # NoKey
      BY <1>3, <1>6, <2>1
    <2>3. PICK r \in Rows : Tells(ledger, r, 0)
      BY <1>1, <1>4, <2>2 DEF Begins
    <2>4. ledger[r].start \in Starts(Rows) /\ Starts(Rows) \subseteq 0..MaxId
      BY <1>6, <1>7, <2>3
    <2>5. first > Max(Starts(Rows))
      BY <2>1, <2>4
    <2>6. Max(Starts(Rows)) \in Nat /\ ledger[r].start <= Max(Starts(Rows))
      BY <2>4, MinMax
    <2>7. first <= ledger[r].start /\ ledger[r].start \in Nat
      BY <1>5, <1>7, <2>3
    <2> QED
      BY <1>3, <2>5, <2>6, <2>7
  <1> QED
    BY <1>8, <1>9

LEMMA GoodVerifies ==
  ASSUME Base, Order, removed = 0 => Whole
  PROVE  UntouchedVerifies
  <1>0. SUFFICES ASSUME removed = 0
                 PROVE  /\ LinkErrors = {}
                        /\ Settled /\ lost = {} /\ ~crossed /\ ~CutAtNewKey =>
                              Valid /\ (FirstKeyed > 0 => Intact)
    BY DEF UntouchedVerifies
  <1>1. VerifyingKey \in AnyKey
    BY DEF VerifyingKey, AnyKey, Base, TypeOK, Processes
  <1>2. Untouched(VerifyingKey)
    BY <1>0, <1>1 DEF Whole
  <1>3. LinkErrors = {}
    BY <1>2, GoodLinks
  <1> SUFFICES ASSUME Settled, lost = {}, ~crossed, ~CutAtNewKey
               PROVE  Valid /\ (FirstKeyed > 0 => Intact)
    BY <1>3
  <1>4. NotSealedByKey = {} /\ UnattestedKeys = {}
    BY <1>2, GoodSeals, GoodKeys
  <1>5. Valid
    BY <1>2, <1>3, <1>4, GoodStart DEF Valid
  <1>6. ASSUME FirstKeyed > 0, NEW i \in Rows, i < FirstKeyed, ledger[i].key # NoKey
        PROVE  ledger[FirstKeyed].attested
    <2>1. FirstKeyed # 0
      BY <1>6, KeyedIs
    <2> QED
      BY <1>2, <1>6, <2>1, FirstKeyedSays
  <1> QED
    BY <1>5, <1>6 DEF Intact

\* For any number of writers, purges, rollbacks, crashes, rows and keys, whatever keys the two
\* processes have and return to, and at whatever batch size, a ledger that nobody touched has
\* no broken link.  Where no row under another key follows one under the worker's it verifies,
\* and is intact once there is such a row; unless the history of a key was lost or a key took
\* over during a purge: append_entry, _purge and _rotation write what verify_chain,
\* _check_retired and _check_chain_start expect.
THEOREM UntouchedLedgerVerifies == Spec => []UntouchedVerifies
  <1> DEFINE Inv == Base /\ Order /\ KeysInv /\ (removed = 0 => Whole)
  <1>1. Init => Inv
    BY InitBase, InitMissed, InitUntouched
  <1>2. Inv /\ [Next]_vars => Inv'
    BY StepBase, StepOrder, StepKeys, StepUntouched
  <1>3. Inv => UntouchedVerifies
    BY GoodVerifies
  <1> QED
    BY <1>1, <1>2, <1>3, PTL DEF Spec
=============================================================================
