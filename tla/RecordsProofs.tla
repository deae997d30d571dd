--------------------------- MODULE RecordsProofs ----------------------------
(***************************************************************************)
(* Theorems about the records of the journal (JournalRecords), for any     *)
(* number of processes and of edited columns: the lease, and that every    *)
(* write reads back as what its caller decided.                            *)
(***************************************************************************)
EXTENDS JournalRecords, TLAPS

-----------------------------------------------------------------------------
(* The lease.                                                              *)

Fields == {"open", "slot", "worker", "request", "loaded", "pending"}

\* Every handle is a record of its six fields.
HandleShape ==
    /\ DOMAIN handle = Handles
    /\ \A h \in Handles : DOMAIN handle[h] = Fields

\* The worker lock and the workers agree: the holder is an open handle with a live
\* worker, and a live worker belongs to the holder.
LeaseInv ==
    /\ HandleShape
    /\ lock # None => lock \in Handles /\ handle[lock].worker
    /\ \A h \in Handles : handle[h].worker => lock = h /\ handle[h].open

\* A step of one handle that is neither opening nor closing, locking nor unlocking.
KeepsLease ==
    /\ HandleShape'
    /\ \A h \in Handles : /\ handle'[h].open = handle[h].open
                          /\ handle'[h].worker = handle[h].worker
    /\ UNCHANGED <<lock, database, layoutEdits>>

\* A call between a load and its write.
Call(h) ==
    \/ \E request \in Requests : Load(h, request)
    \/ InsertRequested(h) \/ MarkAuthorized(h)
    \/ \E rejection \in Rejections : MarkNotAttempted(h, rejection)
    \/ \E target \in Targets : MarkStaleApproval(h, target) \/ MarkApplyStarted(h, target)
    \/ \E outcome \in Outcomes : RecordApplyOutcome(h, outcome)
    \/ \E observation \in Observations : FreezeObservation(h, observation)
    \/ \E key \in ReceiptKeys : CommitReceipt(h, key)
    \/ Replace(h) \/ Abandon(h)
    \/ \E o \in Peers \cup {Id} : AdmitGit(h, o) \/ FinishGit(h, o)

\* A pending write is noted in the handle and nowhere else.
LEMMA PendKeeps ==
    ASSUME HandleShape, NEW h \in Handles, NEW expected, NEW changes, NEW then,
           Pend(h, expected, changes, then)
    PROVE  KeepsLease
  BY Zenon DEF HandleShape, Pend, KeepsLease, Fields

\* Loading, deciding, writing and giving up leave the lease alone.
LEMMA CallKeeps ==
    ASSUME HandleShape, NEW h \in Handles, Call(h)
    PROVE  KeepsLease
<1>1. ASSUME NEW request \in Requests, Load(h, request) PROVE KeepsLease
  BY Zenon, <1>1 DEF Load, HandleShape, KeepsLease, Fields
<1>2. CASE InsertRequested(h)
  BY <1>2 DEF InsertRequested, HandleShape, KeepsLease, Fields
<1>3. CASE MarkAuthorized(h)
  BY <1>3, PendKeeps DEF MarkAuthorized
<1>4. ASSUME NEW rejection \in Rejections, MarkNotAttempted(h, rejection) PROVE KeepsLease
  BY <1>4, PendKeeps DEF MarkNotAttempted
<1>5. ASSUME NEW target \in Targets, MarkStaleApproval(h, target) PROVE KeepsLease
  BY <1>5, PendKeeps DEF MarkStaleApproval
<1>6. ASSUME NEW target \in Targets, MarkApplyStarted(h, target) PROVE KeepsLease
  BY <1>6, PendKeeps DEF MarkApplyStarted
<1>7. ASSUME NEW outcome \in Outcomes, RecordApplyOutcome(h, outcome) PROVE KeepsLease
  BY Zenon, <1>7, PendKeeps DEF RecordApplyOutcome
<1>8. ASSUME NEW observation \in Observations, FreezeObservation(h, observation)
      PROVE  KeepsLease
  BY <1>8, PendKeeps DEF FreezeObservation
<1>9. ASSUME NEW key \in ReceiptKeys, CommitReceipt(h, key) PROVE KeepsLease
  BY <1>9, PendKeeps DEF CommitReceipt
<1>10. CASE Replace(h)
  BY <1>10 DEF Replace, Idle, HandleShape, KeepsLease, Fields
<1>11. CASE Abandon(h)
  BY <1>11 DEF Abandon, Idle, HandleShape, KeepsLease, Fields
<1>12. ASSUME NEW o \in Peers \cup {Id}, AdmitGit(h, o) \/ FinishGit(h, o) PROVE KeepsLease
  BY <1>12 DEF AdmitGit, FinishGit, HandleShape, KeepsLease, Fields
<1>13. QED
  BY <1>1, <1>2, <1>3, <1>4, <1>5, <1>6, <1>7, <1>8, <1>9, <1>10, <1>11, <1>12 DEF Call

\* Every step is one of a handle's own, a call, an edit, or nothing.
LEMMA StepCases ==
    ASSUME [Next]_vars
    PROVE  \/ \E h \in Handles :
                 Open(h) \/ End(h) \/ TryLockWorker(h) \/ DropWorker(h) \/ Call(h)
           \/ \E column \in Columns \ {"operation_id"} : EditColumn(column)
           \/ EditLayout
           \/ UNCHANGED vars
  BY Zenon DEF Next, Call

\* The lease is inductive.
LEMMA LeaseStep ==
    ASSUME LeaseInv, [Next]_vars PROVE LeaseInv'
<1> USE NoneAssumption
<1>1. ASSUME NEW h \in Handles, Open(h) PROVE LeaseInv'
  BY <1>1 DEF Open, Closed, LeaseInv, HandleShape, Fields
<1>2. ASSUME NEW h \in Handles, End(h) PROVE LeaseInv'
  BY <1>2 DEF End, Closed, LeaseInv, HandleShape, Fields
<1>3. ASSUME NEW h \in Handles, TryLockWorker(h) PROVE LeaseInv'
  BY <1>3 DEF TryLockWorker, LeaseInv, HandleShape, Fields
<1>4. ASSUME NEW h \in Handles, DropWorker(h) PROVE LeaseInv'
  BY <1>4 DEF DropWorker, Idle, LeaseInv, HandleShape, Fields
<1>5. ASSUME NEW h \in Handles, Call(h) PROVE LeaseInv'
  BY <1>5, CallKeeps DEF KeepsLease, LeaseInv
<1>6. ASSUME NEW column, EditColumn(column) PROVE LeaseInv'
  BY <1>6 DEF EditColumn, LeaseInv, HandleShape
<1>7. CASE EditLayout
  BY Zenon, <1>7 DEF EditLayout, LeaseInv, HandleShape
<1>8. CASE UNCHANGED vars
  BY <1>8 DEF vars, LeaseInv, HandleShape
<1>9. QED
  BY <1>1, <1>2, <1>3, <1>4, <1>5, <1>6, <1>7, <1>8, StepCases

\* The lease holds in every state.
LEMMA LeaseHolds == Spec => []LeaseInv
<1>1. Init => LeaseInv
  BY DEF Init, Closed, LeaseInv, HandleShape, Fields
<1>2. LeaseInv /\ [Next]_vars => LeaseInv'
  BY Zenon, LeaseStep
<1>3. QED
  BY <1>1, <1>2, PTL DEF Spec

\* The worker lock is never left behind (WorkerLock::drop): whichever handles lock,
\* fail to unlock, end or are killed, the holder of the lock has a live worker.
THEOREM LeasesHaveWorkers == Spec => []LeaseHasAWorker
<1>1. LeaseInv => LeaseHasAWorker
  BY DEF LeaseInv, LeaseHasAWorker
<1>2. QED
  BY <1>1, LeaseHolds, PTL

-----------------------------------------------------------------------------
(* What a record that is not finalized holds.                              *)

\* A record that decodes is well formed, and decodes to its operation.
LEMMA DecodeFacts ==
    ASSUME NEW r, Decode(r).state # "refused"
    PROVE  InBounds(r) /\ WellFormed(r) /\ Decode(r) = OperationOf(r)
  BY Zenon DEF Decode, Refused

\* Before its receipt is committed a record has none.
LEMMA UnfinishedHasNoReceipt ==
    ASSUME NEW h, NEW state, Bound(h, state),
           state \in {"requested", "authorized", "apply_started", "receiver_observed"}
    PROVE  /\ row # NoRow /\ handle[h].loaded = OperationOf(row) /\ WellFormed(row)
           /\ row.state = state /\ row.receipt_bytes = None
<1>1. /\ row # NoRow /\ Decode(row) = handle[h].loaded
      /\ handle[h].loaded.state = state
  BY Zenon DEF Bound
<1>2. WellFormed(row) /\ handle[h].loaded = OperationOf(row)
  BY Zenon, <1>1, DecodeFacts
<1>3. row.state = state
  BY <1>1, <1>2 DEF OperationOf
<1>4. PhaseFits(row)
  BY Zenon, <1>2 DEF WellFormed
<1>5. ~HasReceipt(row)
  BY Zenon, <1>3, <1>4 DEF PhaseFits
<1>6. QED
  BY Zenon, <1>1, <1>2, <1>3, <1>5 DEF HasReceipt

-----------------------------------------------------------------------------
(* What is written stays within the sizes opening accepts.                 *)

\* A value a caller may have written: not oversized, and text, number or nothing where
\* a receipt will state it.
Fits(column, value) ==
    value # Oversized /\ (column \in StatementColumns => value \in Values)
FitsRow(r) == Columns \subseteq DOMAIN r /\ \A c \in Columns : Fits(c, r[c])

\* Until somebody edits it the record fits, and so does every record decided on.
SizesInv ==
    /\ edits \in Nat
    /\ \A h \in Handles : handle[h].loaded # None => handle[h].request \in Requests
    /\ edits = 0 => /\ row # NoRow => FitsRow(row)
                    /\ \A h \in Handles :
                          handle[h].pending # None => FitsRow(handle[h].pending.next)

\* The columns a receipt states are columns of the record.
LEMMA StatedColumns == StatementColumns \subseteq Columns
  BY DEF StatementColumns, Columns, CurrentColumns, RequestColumns, AuthorizationColumns,
         ReceiverColumns

\* Text, numbers and nothing are values.
LEMMA ValueKinds ==
    /\ STRING \subseteq Values /\ Words \subseteq Values /\ Int \subseteq Values
    /\ None \in Values /\ 0 \in Values /\ 1 \in Values
<1>1. /\ STRING \subseteq Values /\ Words \subseteq Values /\ Int \subseteq Values
      /\ None \in Values
  BY Zenon DEF Values
<1>2. 0 \in Values /\ 1 \in Values
  BY DEF Values
<1>3. QED
  BY Zenon, <1>1, <1>2

\* Text, numbers and nothing fit every column.
LEMMA ValuesFit == \A c : \A v \in Values : Fits(c, v)
  BY Zenon, OversizedAssumption DEF Fits, Values

\* Replacing columns by values that fit leaves a record that fits.
LEMMA SetFits ==
    ASSUME NEW r, NEW changes, FitsRow(r),
           \A c \in DOMAIN changes : Fits(c, changes[c])
    PROVE  FitsRow(Set(r, changes))
  BY Zenon DEF FitsRow, Set

\* A step that writes no record, decides on none and loads none.
LEMMA QuietFits ==
    ASSUME SizesInv, UNCHANGED <<row, edits>>,
           \A h \in Handles :
              /\ handle'[h].pending \in {None, handle[h].pending}
              /\ handle'[h].loaded # None =>
                    handle[h].loaded # None /\ handle'[h].request = handle[h].request
    PROVE  SizesInv'
  BY DEF SizesInv

\* A write that is decided on fits when the record it leaves does.
LEMMA NextFits ==
    ASSUME HandleShape, SizesInv, NEW h \in Handles, NEW expected, NEW next, NEW then,
           handle' = [handle EXCEPT ![h].pending =
                         [expected |-> expected, next |-> next, then |-> then]],
           UNCHANGED <<row, edits>>,
           edits = 0 => FitsRow(next)
    PROVE  SizesInv'
<1>1. handle'[h].pending = [expected |-> expected, next |-> next, then |-> then]
  BY Zenon DEF HandleShape, Fields
<1>2. \A g \in Handles \ {h} : handle'[g] = handle[g]
  BY DEF HandleShape
<1>3. \A g \in Handles : /\ handle'[g].loaded = handle[g].loaded
                         /\ handle'[g].request = handle[g].request
  BY Zenon DEF HandleShape, Fields
<1>4. ASSUME edits = 0, NEW g \in Handles, handle'[g].pending # None
      PROVE  FitsRow(handle'[g].pending.next)
  <2>1. CASE g = h
    BY <1>1, <1>4, <2>1
  <2>2. CASE g # h
    BY <1>2, <1>4, <2>2 DEF SizesInv
  <2>3. QED
    BY <2>1, <2>2
<1>5. QED
  BY <1>3, <1>4 DEF SizesInv

\* A write to a record fits when the values it brings do.
LEMMA PendFits ==
    ASSUME HandleShape, SizesInv, NEW h \in Handles, NEW changes, NEW then,
           Pend(h, row, changes, then), row # NoRow,
           edits = 0 => \A c \in DOMAIN changes : Fits(c, changes[c])
    PROVE  SizesInv'
<1>1. PICK next : next = Set(row, changes)
  BY Zenon
<1>2. /\ handle' = [handle EXCEPT ![h].pending =
                        [expected |-> row, next |-> next, then |-> then]]
      /\ UNCHANGED <<row, edits>>
  BY Zenon, <1>1 DEF Pend
<1>3. edits = 0 => FitsRow(next)
  BY <1>1, SetFits DEF SizesInv
<1>4. QED
  BY Zenon, <1>2, <1>3, NextFits

\* What an insertion writes is what the request brought.
LEMMA InsertFits ==
    ASSUME HandleShape, SizesInv, NEW h \in Handles, InsertRequested(h)
    PROVE  SizesInv'
<1> USE ValuesFit
<1>1. PICK request : request = handle[h].request
  BY Zenon
<1>2. request \in Requests
  <2>1. handle[h].loaded = NoRow /\ NoRow # None
    BY Zenon, NoneAssumption DEF InsertRequested
  <2>2. QED
    BY Zenon, <1>1, <2>1 DEF SizesInv
<1> DEFINE approval == IF request.approved = None THEN [approved_uid |-> None]
                       ELSE [approved_uid |-> request.approved.uid,
                             approved_resource_version |-> request.approved.version]
           granted == Restricted(request, GrantedColumns)
           first == Set(Set(Empty, granted), approval)
           next == Set(first, [state |-> "requested"])
<1>3. FitsRow(Empty)
  <2>1. Columns \subseteq DOMAIN Empty
    BY DEF Empty, Set
  <2>2. \A c \in Columns : Empty[c] \in {None, Id, 0}
    BY DEF Empty, Set
  <2>3. {None, Id, 0} \subseteq Values
    BY InputsAssumption DEF Values
  <2>4. QED
    BY <2>1, <2>2, <2>3 DEF FitsRow
<1>4. FitsRow(Set(Empty, granted))
  <2>1. \A c \in DOMAIN granted : granted[c] \in Values
    BY Zenon, <1>2, RequestsAssumption DEF Restricted, Values
  <2> HIDE DEF granted
  <2>2. QED
    BY <1>3, <2>1, SetFits
<1>5. FitsRow(first)
  <2>1. \A c \in DOMAIN approval : approval[c] \in Values
    <3>1. CASE request.approved = None
      BY <3>1 DEF Values
    <3>2. CASE request.approved # None
      <4>1. request.approved.uid \in Values /\ request.approved.version \in Values
        BY Zenon, <1>2, <3>2, RequestsAssumption, ValueKinds
      <4>2. QED
        BY <3>2, <4>1
    <3>3. QED
      BY Zenon, <3>1, <3>2
  <2> HIDE DEF approval, granted
  <2>2. QED
    BY Zenon, <1>4, <2>1, SetFits
<1>6. FitsRow(next)
  <2>1. PICK changes : changes = [state |-> "requested"]
    BY Zenon
  <2>2. \A c \in DOMAIN changes : changes[c] \in Values
    <3>1. "requested" \in Values
      BY Zenon, ValueKinds DEF Words, OperationStates
    <3>2. QED
      BY <2>1, <3>1
  <2> HIDE DEF first
  <2>3. FitsRow(Set(first, changes))
    BY <1>5, <2>2, SetFits
  <2>4. QED
    BY <2>1, <2>3
<1>7. PICK then : handle' = [handle EXCEPT ![h].pending =
                     [expected |-> NoRow, next |-> next, then |-> then]]
  BY <1>1, Zenon DEF InsertRequested
<1>8. UNCHANGED <<row, edits>>
  BY Zenon DEF InsertRequested
<1> HIDE DEF next
<1>9. QED
  BY Zenon, <1>6, <1>7, <1>8, NextFits

\* The receipt is made of what the record states.
LEMMA CommitFits ==
    ASSUME HandleShape, SizesInv, NEW h \in Handles, NEW key \in ReceiptKeys,
           CommitReceipt(h, key)
    PROVE  SizesInv'
<1>1. PICK bytes : bytes = [key |-> key, statement |-> handle[h].loaded.statement]
  BY Zenon
<1>2. PICK changes : changes = [state |-> "finalized", receipt_bytes |-> bytes,
                                receipt_digest |-> DigestOf(bytes), receipt_key_id |-> key]
  BY Zenon
<1>3. PICK then : Pend(h, row, changes, then)
  BY Zenon, <1>1, <1>2, Zenon DEF CommitReceipt
<1>4. /\ row # NoRow /\ handle[h].loaded = OperationOf(row)
      /\ row.state = "receiver_observed"
  BY Zenon, UnfinishedHasNoReceipt DEF CommitReceipt
<1>5. bytes.statement = StatementOf(row)
  BY <1>1, <1>4 DEF OperationOf, FrozenStates
<1>6. ASSUME edits = 0 PROVE \A c \in DOMAIN changes : Fits(c, changes[c])
  <2>1. StatementOf(row) \in [StatementColumns -> Values]
    BY Zenon, <1>4, <1>6, StatedColumns DEF StatementOf, Restricted, SizesInv, FitsRow, Fits
  <2>2. bytes \in Receipts /\ key \in STRING
    <3>1. StatementOf(row) \in [StatementColumns -> Cells]
      BY <2>1 DEF Cells
    <3>2. QED
      BY Zenon, <1>1, <1>5, <3>1, InputsAssumption DEF Receipts
  <2>3. DigestOf(bytes) \in Digests
    BY Zenon, <2>2 DEF DigestOf, Digests
  <2>4. /\ bytes # Oversized /\ DigestOf(bytes) # Oversized
        /\ key \in Values /\ "finalized" \in Values
    BY Zenon, <2>2, <2>3, OversizedAssumption, ValueKinds DEF Words, OperationStates
  <2>5. /\ "receipt_bytes" \notin StatementColumns /\ "receipt_digest" \notin StatementColumns
    BY Zenon DEF StatementColumns, RequestColumns, AuthorizationColumns, ReceiverColumns
  <2>6. ASSUME NEW c \in DOMAIN changes PROVE Fits(c, changes[c])
    <3>1. CASE c = "receipt_bytes"
      BY Zenon, <1>2, <2>4, <2>5, <3>1 DEF Fits
    <3>2. CASE c = "receipt_digest"
      BY Zenon, <1>2, <2>4, <2>5, <3>2 DEF Fits
    <3>3. CASE c \in {"state", "receipt_key_id"}
      <4>1. changes[c] \in Values
        BY <1>2, <2>4, <3>3
      <4>2. QED
        BY Zenon, <4>1, ValuesFit
    <3>4. QED
      BY Zenon, <1>2, <3>1, <3>2, <3>3
  <2>7. QED
    BY Zenon, <2>6
<1>7. QED
  BY Zenon, <1>3, <1>4, <1>6, PendFits

\* A frozen observation brings what was observed and what follows from it.
LEMMA FreezeFits ==
    ASSUME HandleShape, SizesInv, NEW h \in Handles, NEW observation \in Observations,
           FreezeObservation(h, observation)
    PROVE  SizesInv'
<1>1. /\ row # NoRow /\ handle[h].loaded = OperationOf(row)
  BY UnfinishedHasNoReceipt DEF FreezeObservation
<1>2. PICK operation : operation = handle[h].loaded
  BY Zenon
<1>3. PICK outcome : outcome = [uid |-> operation.target.uid,
                                generation |-> IF operation.response = None THEN None
                                               ELSE operation.response.generation]
  BY Zenon
<1>4. PICK image : image = operation.request["immutable_image_digest"]
  OBVIOUS
<1>5. PICK generation :
         generation = RequestedGeneration(FactsOf(observation), Id, image, outcome)
  BY Zenon
<1>6. PICK conclusion :
         conclusion = ObservationResult(FactsOf(observation), Id, image, outcome)
  OBVIOUS
<1>7. PICK changes :
         changes = [state |-> "receiver_observed", result |-> ResultAsSql[conclusion],
                    requested_generation |-> generation]
  BY Zenon
<1>8. PICK then : Pend(h, row, Set(observation, changes), then)
  BY Zenon, <1>2, <1>3, <1>4, <1>5, <1>6, <1>7, Zenon DEF FreezeObservation
<1>9. \A c \in DOMAIN observation : observation[c] \in Values
  <2>1. 0 .. I32Max \subseteq Int /\ Nat \subseteq Int
    BY BoundsAssumption
  <2>2. QED
    BY Zenon, <2>1, ObservationsAssumption, ValueKinds
<1>10. ResultAsSql[conclusion] \in Values /\ "receiver_observed" \in Values
  BY Zenon, <1>6, ValueKinds DEF ResultAsSql, ObservationResult, Words, OperationStates
<1>11. ASSUME edits = 0 PROVE generation \in Values
  <2>1. generation \in {None, outcome.generation, observation.current_generation}
    BY Zenon, <1>5 DEF RequestedGeneration, FactsOf
  <2>2. observation.current_generation \in Values
    BY Zenon, <1>9, ObservationsAssumption DEF ReceiverColumns
  <2>3. outcome.generation \in {None, row.requested_generation}
    BY <1>1, <1>2, <1>3 DEF OperationOf, ResponseOf
  <2>4. row.requested_generation \in Values
    BY Zenon, <1>1, <1>11, StatedColumns DEF SizesInv, FitsRow, Fits, StatementColumns
  <2>5. QED
    BY Zenon, <2>1, <2>2, <2>3, <2>4, ValueKinds
<1>12. ASSUME edits = 0
       PROVE  \A c \in DOMAIN Set(observation, changes) :
                 Set(observation, changes)[c] \in Values
  <2>1. \A c \in DOMAIN changes : changes[c] \in Values
    BY <1>7, <1>10, <1>11, <1>12
  <2>2. QED
    BY Zenon, <1>9, <2>1 DEF Set
<1>13. PICK all : all = Set(observation, changes)
  BY Zenon
<1>14. QED
  BY Zenon, <1>1, <1>8, <1>12, <1>13, ValuesFit, PendFits

\* A write that commits leaves the record it was decided on.
LEMMA ReplaceFits ==
    ASSUME HandleShape, SizesInv, NEW h \in Handles, Replace(h)
    PROVE  SizesInv'
<1>1. PICK write : write = handle[h].pending
  OBVIOUS
<1>2. \A g \in Handles :
         /\ handle'[g].pending \in {None, handle[g].pending}
         /\ handle'[g].loaded # None =>
               handle[g].loaded # None /\ handle'[g].request = handle[g].request
  BY Zenon DEF Replace, Idle, HandleShape, Fields
<1>3. CASE UNCHANGED row
  BY Zenon, <1>2, <1>3, QuietFits DEF Replace
<1>4. CASE Replaceable(write) /\ row' = Updated(write)
  <2>1. ASSUME edits = 0 PROVE FitsRow(row')
    <3>1. FitsRow(write.next)
      BY Zenon, <1>1, <2>1 DEF Replace, SizesInv
    <3>2. Columns \subseteq DOMAIN row' /\ \A c \in Columns : row'[c] = write.next[c]
      BY Zenon, <1>4, <3>1 DEF Updated, Replaceable, FitsRow
    <3>3. QED
      BY Zenon, <3>1, <3>2 DEF FitsRow
  <2>2. QED
    BY Zenon, <1>2, <2>1 DEF SizesInv, Replace
<1>5. QED
  BY <1>1, <1>3, <1>4 DEF Replace

\* The sizes are inductive.
LEMMA SizesStep ==
    ASSUME LeaseInv, SizesInv, [Next]_vars PROVE SizesInv'
<1> USE DEF LeaseInv
<1> DEFINE Quiet == \A g \in Handles :
                       /\ handle'[g].pending \in {None, handle[g].pending}
                       /\ handle'[g].loaded # None =>
                             handle[g].loaded # None /\ handle'[g].request = handle[g].request
<1>1. ASSUME NEW h \in Handles, Open(h) \/ End(h) \/ TryLockWorker(h) \/ DropWorker(h)
      PROVE  SizesInv'
  <2>1. UNCHANGED <<row, edits>>
    BY ZenonT(30), <1>1 DEF Open, End, TryLockWorker, DropWorker
  <2>2. Quiet
    <3>1. CASE Open(h)
      BY Zenon, <3>1 DEF Open, Closed, HandleShape
    <3>2. CASE End(h)
      BY Zenon, <3>2 DEF End, Closed, HandleShape
    <3>3. CASE TryLockWorker(h)
      BY <3>3 DEF TryLockWorker, HandleShape, Fields
    <3>4. CASE DropWorker(h)
      BY <3>4 DEF DropWorker, Idle, HandleShape, Fields
    <3>5. QED
      BY Zenon, <1>1, <3>1, <3>2, <3>3, <3>4
  <2>3. QED
    BY Zenon, <2>1, <2>2, QuietFits
<1>2. ASSUME NEW h \in Handles, Call(h) PROVE SizesInv'
  <2>1. ASSUME NEW request \in Requests, Load(h, request) PROVE SizesInv'
    <3>1. /\ \A g \in Handles : handle'[g].pending = handle[g].pending
          /\ \A g \in Handles \ {h} : handle'[g] = handle[g]
          /\ handle'[h].request = request
      BY <2>1 DEF Load, HandleShape, Fields
    <3>2. QED
      BY Zenon, <2>1, <3>1 DEF Load, SizesInv
  <2>2. CASE InsertRequested(h)
    BY Zenon, <2>2, InsertFits
  <2>3. CASE MarkAuthorized(h)
    <3>1. PICK changes :
             changes = Set(Restricted(handle[h].request, AuthorizationColumns),
                           [state |-> "authorized"])
      BY Zenon
    <3>2. handle[h].request \in Requests
      BY Zenon, <2>3 DEF MarkAuthorized, Bound, SizesInv
    <3>3. "authorized" \in Values
      BY ValueKinds DEF Words, OperationStates
    <3>4. \A c \in AuthorizationColumns : handle[h].request[c] \in Values
      BY Zenon, <3>2, RequestsAssumption, ValueKinds DEF GrantedColumns
    <3>5. \A c \in DOMAIN changes : changes[c] \in Values
      BY <3>1, <3>3, <3>4 DEF Set, Restricted
    <3>6. QED
      BY Zenon, <2>3, <3>1, <3>5, ValuesFit, PendFits DEF MarkAuthorized, Bound
  <2>4. ASSUME NEW rejection \in Rejections, MarkNotAttempted(h, rejection) PROVE SizesInv'
    <3>1. PICK changes : changes = [state |-> "not_attempted", target_rejection |-> rejection]
      BY Zenon
    <3>2. "not_attempted" \in Values /\ rejection \in Values
      BY Zenon, InputsAssumption, ValueKinds DEF Words, OperationStates
    <3>3. \A c \in DOMAIN changes : changes[c] \in Values
      BY <3>1, <3>2
    <3>4. QED
      BY <2>4, <3>1, <3>3, ValuesFit, PendFits DEF MarkNotAttempted, Bound
  <2>5. ASSUME NEW target \in Targets, MarkStaleApproval(h, target) PROVE SizesInv'
    <3>1. PICK changes :
             changes = [state |-> "not_attempted", target_rejection |-> "stale_approval",
                        preflight_uid |-> target.uid,
                        preflight_resource_version |-> target.version]
      BY Zenon
    <3>2. /\ "not_attempted" \in Values /\ "stale_approval" \in Values
          /\ target.uid \in Values /\ target.version \in Values
      BY ZenonT(30), InputsAssumption, ValueKinds DEF Words, OperationStates, RejectionWords
    <3>3. \A c \in DOMAIN changes : changes[c] \in Values
      BY <3>1, <3>2
    <3>4. QED
      BY Zenon, <2>5, <3>1, <3>3, ValuesFit, PendFits DEF MarkStaleApproval, Bound
  <2>6. ASSUME NEW target \in Targets, MarkApplyStarted(h, target) PROVE SizesInv'
    <3>1. PICK changes :
             changes = [state |-> "apply_started", write_strategy |-> WRITE_STRATEGY,
                        apply_attempted |-> 1,
                        target_uid |-> target.uid, preflight_uid |-> target.uid,
                        target_resource_version |-> target.version,
                        preflight_resource_version |-> target.version]
      BY Zenon
    <3>2. /\ "apply_started" \in Values /\ WRITE_STRATEGY \in Values /\ 1 \in Values
          /\ target.uid \in Values /\ target.version \in Values
      BY Zenon, InputsAssumption, ValueKinds DEF Words, OperationStates
    <3>3. \A c \in DOMAIN changes : changes[c] \in Values
      BY <3>1, <3>2
    <3>4. QED
      BY <2>6, <3>1, <3>3, ValuesFit, PendFits DEF MarkApplyStarted, Bound
  <2>7. ASSUME NEW outcome \in Outcomes, RecordApplyOutcome(h, outcome) PROVE SizesInv'
    <3>1. PICK changes : changes = [apply_accepted |-> outcome.accepted,
                                    requested_generation |-> outcome.generation,
                                    apply_resource_version |-> outcome.version]
      BY Zenon
    <3>2. /\ outcome.accepted \in Values /\ outcome.generation \in Values
          /\ outcome.version \in Values
      <4>1. /\ outcome.accepted \in {0, 1} /\ outcome.version \in STRING
            /\ outcome.generation # None => outcome.generation \in Int
        BY InputsAssumption
      <4>2. QED
        BY Zenon, <4>1, ValueKinds
    <3>3. \A c \in DOMAIN changes : changes[c] \in Values
      BY <3>1, <3>2
    <3>4. QED
      BY <2>7, <3>1, <3>3, ValuesFit, PendFits DEF RecordApplyOutcome, Bound
  <2>8. ASSUME NEW observation \in Observations, FreezeObservation(h, observation)
        PROVE  SizesInv'
    BY Zenon, <2>8, FreezeFits
  <2>9. ASSUME NEW key \in ReceiptKeys, CommitReceipt(h, key) PROVE SizesInv'
    BY Zenon, <2>9, CommitFits
  <2>10. CASE Replace(h)
    BY Zenon, <2>10, ReplaceFits
  <2>11. CASE Abandon(h)
    <3>1. Quiet
      BY Zenon, <2>11 DEF Abandon, Idle, HandleShape, Fields
    <3>2. QED
      BY Zenon, <2>11, <3>1, QuietFits DEF Abandon
  <2>12. ASSUME NEW o \in Peers \cup {Id}, AdmitGit(h, o) \/ FinishGit(h, o) PROVE SizesInv'
    BY Zenon, <2>12, QuietFits DEF AdmitGit, FinishGit
  <2>13. QED
    BY <1>2, <2>1, <2>2, <2>3, <2>4, <2>5, <2>6, <2>7, <2>8, <2>9, <2>10, <2>11, <2>12 DEF Call
<1>3. ASSUME NEW column, EditColumn(column) PROVE SizesInv'
  <2>1. edits' = edits + 1 /\ edits \in Nat /\ UNCHANGED handle
    BY Zenon, <1>3 DEF EditColumn, SizesInv
  <2>2. edits' \in Nat /\ edits' # 0
    BY <2>1
  <2>3. QED
    BY Zenon, <2>1, <2>2 DEF SizesInv
<1>4. CASE EditLayout
  BY Zenon, <1>4, QuietFits DEF EditLayout
<1>5. CASE UNCHANGED vars
  BY Zenon, <1>5, QuietFits DEF vars
<1>6. QED
  BY Zenon, <1>1, <1>2, <1>3, <1>4, <1>5, StepCases

\* The sizes hold in every state.
LEMMA SizesHold == Spec => []SizesInv
<1>1. Init => SizesInv
  BY DEF Init, Closed, SizesInv
<1>2. LeaseInv /\ SizesInv /\ [Next]_vars => SizesInv'
  BY Zenon, SizesStep
<1>3. QED
  BY <1>1, <1>2, LeaseHolds, PTL DEF Spec

-----------------------------------------------------------------------------
(* The columns of a row, and what a row reads back as.                     *)

\* The columns by name.
LEMMA ColumnNames ==
    Columns = {"operation_id", "namespace", "deployment", "container", "immutable_image_digest",
      "authorization_id", "authorization_signer_key_id", "authorization_grant_digest",
      "signed_authorization_grant", "state", "write_strategy", "target_rejection",
      "target_read_failures", "apply_attempted", "target_uid", "target_resource_version",
      "apply_accepted", "requested_generation", "apply_resource_version", "receiver_uid",
      "receiver_image", "receiver_operation_marker", "current_generation",
      "observed_generation", "receiver_resource_version", "desired_replicas",
      "updated_replicas", "available_replicas", "unavailable_replicas",
      "available_condition", "progress_deadline_exceeded", "result", "receipt_digest",
      "receipt_bytes", "receipt_key_id", "rollout_condition_type",
      "rollout_condition_status", "rollout_condition_reason", "approved_uid",
      "approved_resource_version", "preflight_uid", "preflight_resource_version"}
<1>1. DOMAIN CurrentColumns = 1 .. 42
  BY DEF CurrentColumns
<1>2. QED
  BY <1>1 DEF Columns, CurrentColumns

\* What the first i columns of a record can add up to: one of them is a grant, one a
\* receipt, and no other is longer than 512 bytes.
Ceiling(i) == 512 * i + (IF i >= 9 THEN GRANT_BYTES_MAX ELSE 0)
                      + (IF i >= 34 THEN PERSISTED_VALUE_BYTES_MAX ELSE 0)

\* f has the running totals of the first m terms.
Totals(f, terms, m) == f[0] = 0 /\ \A i \in 1 .. m : f[i] = terms[i] + f[i - 1]

\* Running totals go on to the next term.
LEMMA OneMoreTotal ==
    ASSUME NEW n \in Nat, NEW terms \in [1 .. n -> Nat], NEW m \in 1 .. n,
           NEW f \in [0 .. (m - 1) -> Nat], Totals(f, terms, m - 1)
    PROVE  \E g \in [0 .. m -> Nat] : Totals(g, terms, m)
<1> DEFINE g == [i \in 0 .. m |-> IF i = m THEN terms[m] + f[m - 1] ELSE f[i]]
<1>1. f[m - 1] \in Nat /\ terms[m] + f[m - 1] \in Nat
  OBVIOUS
<1>2. g \in [0 .. m -> Nat]
  BY <1>1
<1>3. g[0] = 0 /\ g[m] = terms[m] + f[m - 1] /\ \A i \in 0 .. (m - 1) : g[i] = f[i]
  BY DEF Totals
<1> HIDE DEF g
<1>4. ASSUME NEW i \in 1 .. m PROVE g[i] = terms[i] + g[i - 1]
  <2>1. i - 1 \in 0 .. (m - 1) /\ (i # m => i \in 0 .. (m - 1) /\ i \in 1 .. (m - 1))
    OBVIOUS
  <2> QED
    BY Zenon, <1>3, <2>1 DEF Totals
<1> QED
  BY Zenon, <1>2, <1>3, <1>4 DEF Totals

\* The terms of 42 columns have running totals.
LEMMA RunningTotals ==
    ASSUME NEW terms \in [1 .. 42 -> Nat]
    PROVE  \E g \in [0 .. 42 -> Nat] : Totals(g, terms, 42)
<1> DEFINE T == {m \in 0 .. 42 : \E f \in [0 .. m -> Nat] : Totals(f, terms, m)}
<1>1. 0 \in T
  <2> DEFINE f == [i \in 0 .. 0 |-> 0]
  <2>1. f \in [0 .. 0 -> Nat] /\ f[0] = 0 /\ 1 .. 0 = {} /\ 0 \in 0 .. 42
    OBVIOUS
  <2> HIDE DEF f
  <2> QED
    BY Zenon, <2>1 DEF Totals
<1>2. ASSUME NEW m \in 1 .. 42, m - 1 \in T PROVE m \in T
  <2>1. PICK f \in [0 .. (m - 1) -> Nat] : Totals(f, terms, m - 1)
    BY Zenon, <1>2
  <2>2. m \in 0 .. 42 /\ 42 \in Nat
    OBVIOUS
  <2>3. \E g \in [0 .. m -> Nat] : Totals(g, terms, m)
    BY Zenon, <2>1, <2>2, OneMoreTotal
  <2> QED
    BY Zenon, <2>2, <2>3
<1> HIDE DEF T
<1>3. 42 \in T
  BY <1>1, <1>2
<1> QED
  BY <1>3 DEF T

\* A sum over the columns stays below what its terms can add up to.
LEMMA RowBytesBounded ==
    ASSUME NEW sizes,
           \A i \in 1 .. 42 :
              /\ sizes[CurrentColumns[i]] \in Nat
              /\ sizes[CurrentColumns[i]] <=
                    IF i = 9 THEN GRANT_BYTES_MAX
                    ELSE IF i = 34 THEN PERSISTED_VALUE_BYTES_MAX ELSE 512
    PROVE  /\ RowBytes(sizes) \in Nat
           /\ RowBytes(sizes) + RECORD_HEADER_BYTES_MAX <= PERSISTED_ROW_BYTES_MAX
<1> DEFINE size(i) == sizes[CurrentColumns[i]]
           total == CHOOSE f : f = [i \in 0 .. 42 |-> IF i = 0 THEN 0 ELSE size(i) + f[i - 1]]
<1>1. Len(CurrentColumns) = 42
  BY DEF CurrentColumns
<1>2. RowBytes(sizes) = total[42]
  BY <1>1 DEF RowBytes
<1>3. \A i \in 1 .. 42 :
         /\ size(i) \in Nat
         /\ size(i) <= IF i = 9 THEN GRANT_BYTES_MAX
                       ELSE IF i = 34 THEN PERSISTED_VALUE_BYTES_MAX ELSE 512
  BY Zenon
<1> HIDE DEF size, total
<1>4. PICK g \in [0 .. 42 -> Nat] : g[0] = 0 /\ \A i \in 1 .. 42 : g[i] = size(i) + g[i - 1]
  <2> DEFINE terms == [i \in 1 .. 42 |-> size(i)]
  <2>1. terms \in [1 .. 42 -> Nat] /\ \A i \in 1 .. 42 : terms[i] = size(i)
    BY <1>3
  <2> HIDE DEF terms
  <2> QED
    BY <2>1, RunningTotals DEF Totals
<1>5. total = [i \in 0 .. 42 |-> IF i = 0 THEN 0 ELSE size(i) + total[i - 1]]
  <2> DEFINE Sums(f) == f = [i \in 0 .. 42 |-> IF i = 0 THEN 0 ELSE size(i) + f[i - 1]]
  <2>1. Sums(g)
    <3>1. ASSUME NEW i \in 0 .. 42 PROVE g[i] = IF i = 0 THEN 0 ELSE size(i) + g[i - 1]
      <4>1. CASE i = 0
        BY Zenon, <1>4, <4>1
      <4>2. CASE i # 0
        BY <1>4, <4>2
      <4>3. QED
        BY Zenon, <4>1, <4>2
    <3>2. QED
      BY ZenonT(30), <1>4, <3>1
  <2>2. total = CHOOSE f : Sums(f)
    BY Zenon DEF total
  <2> HIDE DEF Sums
  <2>3. Sums(total)
    BY Zenon, <2>1, <2>2
  <2>4. QED
    BY Zenon, <2>3 DEF Sums
<1>6. total[0] = 0 /\ \A i \in 1 .. 42 : total[i] = size(i) + total[i - 1]
  BY <1>5
<1> DEFINE S == {i \in 0 .. 42 : total[i] \in Nat /\ total[i] <= Ceiling(i)}
<1>7. 0 \in S
  BY <1>6 DEF Ceiling
<1>8. ASSUME NEW i \in 1 .. 42, i - 1 \in S PROVE i \in S
  <2>1. total[i] = size(i) + total[i - 1] /\ total[i - 1] \in Nat
        /\ total[i - 1] <= Ceiling(i - 1)
    BY ZenonT(30), <1>6, <1>8
  <2>2. Ceiling(i - 1) + (IF i = 9 THEN GRANT_BYTES_MAX
                          ELSE IF i = 34 THEN PERSISTED_VALUE_BYTES_MAX ELSE 512)
           <= Ceiling(i)
    BY DEF Ceiling, GRANT_BYTES_MAX, PERSISTED_VALUE_BYTES_MAX
  <2>3. Ceiling(i) \in Nat /\ Ceiling(i - 1) \in Nat
    BY DEF Ceiling, GRANT_BYTES_MAX, PERSISTED_VALUE_BYTES_MAX
  <2>4. QED
    BY <1>3, <2>1, <2>2, <2>3 DEF GRANT_BYTES_MAX, PERSISTED_VALUE_BYTES_MAX
<1> HIDE DEF S
<1>9. 42 \in S
  BY <1>7, <1>8
<1>10. total[42] \in Nat /\ total[42] <= Ceiling(42)
  BY Zenon, <1>9 DEF S
<1>11. Ceiling(42) + RECORD_HEADER_BYTES_MAX <= PERSISTED_ROW_BYTES_MAX
       /\ Ceiling(42) \in Nat /\ PERSISTED_ROW_BYTES_MAX \in Nat
       /\ RECORD_HEADER_BYTES_MAX \in Nat
  BY DEF Ceiling, GRANT_BYTES_MAX, PERSISTED_VALUE_BYTES_MAX, PERSISTED_ROW_BYTES_MAX,
         RECORD_HEADER_BYTES_MAX
<1>12. QED
  BY <1>2, <1>10, <1>11

\* The longest fact of a column is within its limit.
LEMMA FactsFitColumns ==
    ASSUME NEW c \in Columns
    PROVE  /\ FactBytesMax(c) \in Nat /\ FieldLimit(c) \in Nat
           /\ FactBytesMax(c) <= FieldLimit(c)
           /\ FieldLimit(c) <= PERSISTED_VALUE_BYTES_MAX
BY DEF FactBytesMax, FieldLimit, GRANT_BYTES_MAX, PERSISTED_VALUE_BYTES_MAX,
       ExpectedColumnType

\* The sizes of a record without an oversized value are those of its facts.
LEMMA FactSizes ==
    ASSUME NEW r, \A c \in Columns : r[c] # Oversized
    PROVE  \A c \in Columns : Sizes(r)[c] \in {0, FactBytesMax(c)}
<1>1. \A c \in Columns : Sizes(r)[c] = Bytes(c, r[c]) /\ FactBytes[c] = FactBytesMax(c)
  BY DEF Sizes, FactBytes
<1>2. QED
  BY Zenon, <1>1 DEF Bytes

\* A record without an oversized value, with its header, is within the bound of a row.
LEMMA FactsFitARow ==
    ASSUME NEW r, \A c \in Columns : r[c] # Oversized
    PROVE  /\ RowBytes(Sizes(r)) \in Nat
           /\ RowBytes(Sizes(r)) + RECORD_HEADER_BYTES_MAX <= PERSISTED_ROW_BYTES_MAX
<1>1. PICK sizes : sizes = Sizes(r)
  OBVIOUS
<1>2. ASSUME NEW i \in 1 .. 42
      PROVE  /\ sizes[CurrentColumns[i]] \in Nat
             /\ sizes[CurrentColumns[i]] <=
                   IF i = 9 THEN GRANT_BYTES_MAX
                   ELSE IF i = 34 THEN PERSISTED_VALUE_BYTES_MAX ELSE 512
  <2>1. CurrentColumns[i] \in Columns
    BY DEF Columns, CurrentColumns
  <2>2. FactBytesMax(CurrentColumns[i]) <=
           IF i = 9 THEN GRANT_BYTES_MAX
           ELSE IF i = 34 THEN PERSISTED_VALUE_BYTES_MAX ELSE 512
    BY DEF FactBytesMax, CurrentColumns, ExpectedColumnType,
           GRANT_BYTES_MAX, PERSISTED_VALUE_BYTES_MAX
  <2>3. FactBytesMax(CurrentColumns[i]) \in Nat
    BY Zenon, <2>1, FactsFitColumns
  <2>4. sizes[CurrentColumns[i]] \in {0, FactBytesMax(CurrentColumns[i])}
    BY Zenon, <1>1, <2>1, FactSizes
  <2>5. QED
    BY <2>2, <2>3, <2>4 DEF GRANT_BYTES_MAX, PERSISTED_VALUE_BYTES_MAX
<1>3. RowBytes(sizes) \in Nat
      /\ RowBytes(sizes) + RECORD_HEADER_BYTES_MAX <= PERSISTED_ROW_BYTES_MAX
  BY <1>2, RowBytesBounded
<1>4. QED
  BY Zenon, <1>1, <1>3

\* A record is within the bounds exactly when no value of it is oversized.
LEMMA BoundsAreSizes ==
    ASSUME NEW r
    PROVE  InBounds(r) <=> \A c \in Columns : r[c] # Oversized
<1>1. \A c \in Columns : Sizes(r)[c] = Bytes(c, r[c]) /\ FactBytes[c] = FactBytesMax(c)
                         /\ FieldLimits[c] = FieldLimit(c)
  BY DEF Sizes, FactBytes, FieldLimits
<1>2. ASSUME InBounds(r), NEW c \in Columns PROVE r[c] # Oversized
  <2>1. Sizes(r)[c] <= FieldLimits[c]
    BY <1>2 DEF InBounds
  <2>2. Oversized # None
    BY Zenon, OversizedAssumption, ValueKinds
  <2>3. QED
    BY <1>1, <2>1, <2>2, FactsFitColumns DEF Bytes, PERSISTED_VALUE_BYTES_MAX
<1>3. ASSUME \A c \in Columns : r[c] # Oversized PROVE InBounds(r)
  <2>1. \A c \in Columns : Sizes(r)[c] <= FieldLimits[c]
    BY <1>1, <1>3, FactSizes, FactsFitColumns
  <2>2. PICK bytes : bytes = RowBytes(Sizes(r))
    BY Zenon
  <2>3. bytes \in Nat /\ bytes + RECORD_HEADER_BYTES_MAX <= PERSISTED_ROW_BYTES_MAX
    BY Zenon, <1>3, <2>2, FactsFitARow
  <2>4. bytes <= PERSISTED_ROW_BYTES_MAX
    BY <2>3 DEF RECORD_HEADER_BYTES_MAX, PERSISTED_ROW_BYTES_MAX
  <2>5. QED
    BY Zenon, <2>1, <2>2, <2>4 DEF InBounds
<1>4. QED
  BY Zenon, <1>2, <1>3

-----------------------------------------------------------------------------
(* What is written reads back.                                             *)

\* The columns a receipt states, with the preflight read and the version answered.
CellColumns ==
    StatementColumns \cup
    {"preflight_uid", "preflight_resource_version", "apply_resource_version"}

\* The columns writes replace before an observation is frozen.
AttemptColumns ==
    AuthorizationColumns \cup
    {"state", "target_rejection", "preflight_uid", "preflight_resource_version",
     "write_strategy", "apply_attempted", "target_uid", "target_resource_version",
     "apply_accepted", "requested_generation", "apply_resource_version"}

\* The parts of a loaded operation.
OperationFields ==
    {"state", "request", "authorization", "approved", "preflight", "rejection", "target",
     "response", "statement", "receipt"}

\* A record of Id, whatever an edit left in it.
Identified(r) ==
    /\ r = [c \in Columns |-> r[c]] /\ r.operation_id = Id
    /\ \A c \in CellColumns : r[c] \in Cells

\* next is r but for the columns changed.
Kept(next, r, changed) == \A c \in Columns \ changed : next[c] = r[c]

\* A record that was decided on is of Id, and reads back as what its caller will know.
RecordInv ==
    /\ row # NoRow => Identified(row)
    /\ \A h \in Handles :
          handle[h].pending # None =>
             /\ Identified(handle[h].pending.next)
             /\ Decode(handle[h].pending.next) = handle[h].pending.then

\* None is no text and no number, and neither a target nor a response.
LEMMA NoneIsNothing ==
    /\ None \notin STRING /\ None # 0 /\ None # 1
    /\ \A word \in Words : word # None
    /\ \A uid, version \in Cells : [uid |-> uid, version |-> version] # None
    /\ \A accepted \in {0, 1} : \A generation, version \in Cells :
          [accepted |-> accepted, generation |-> generation, version |-> version] # None
<1>1. None # 0 /\ None # 1
  BY NoneAssumption
<1>2. \A uid, version \in Cells : [uid |-> uid, version |-> version] # None
  BY NoneAssumption
<1>3. \A accepted \in {0, 1} : \A generation, version \in Cells :
         [accepted |-> accepted, generation |-> generation, version |-> version] # None
  BY NoneAssumption
<1>4. QED
  BY Zenon, <1>1, <1>2, <1>3, NoneAssumption

\* Text is a fact, and a cell; so is nothing, and every number.
LEMMA TextIsFact ==
    /\ \A text \in STRING : IsFact(text) /\ text # Oversized
    /\ STRING \subseteq Cells /\ Nat \subseteq Cells /\ Int \subseteq Cells /\ None \in Cells
    /\ None # Oversized /\ Words \subseteq Cells
    /\ \A v \in Values : v # Oversized /\ v # Invalid
<1>1. Values \subseteq Cells
  BY DEF Cells
<1>2. Nat \subseteq Int
  OBVIOUS
<1>3. \A v \in Values : v # Oversized /\ v # Invalid
  BY Zenon, OversizedAssumption
<1>4. \A text \in STRING : IsFact(text) /\ text # Oversized
  BY Zenon, <1>3, ValueKinds, NoneAssumption DEF IsFact
<1>5. QED
  BY Zenon, <1>1, <1>2, <1>3, <1>4, ValueKinds

\* What the columns that are kept say.
LEMMA KeptFields ==
    ASSUME NEW r, NEW next, NEW changed, Kept(next, r, changed)
    PROVE  /\ "state" \notin changed => next.state = r.state
           /\ "result" \notin changed => next.result = r.result
           /\ "target_rejection" \notin changed => next.target_rejection = r.target_rejection
           /\ "write_strategy" \notin changed => next.write_strategy = r.write_strategy
           /\ "apply_attempted" \notin changed => next.apply_attempted = r.apply_attempted
           /\ "apply_accepted" \notin changed => next.apply_accepted = r.apply_accepted
           /\ "requested_generation" \notin changed =>
                 next.requested_generation = r.requested_generation
           /\ "apply_resource_version" \notin changed =>
                 next.apply_resource_version = r.apply_resource_version
           /\ "operation_id" \notin changed => next.operation_id = r.operation_id
           /\ "immutable_image_digest" \notin changed =>
                 next.immutable_image_digest = r.immutable_image_digest
  BY ColumnNames DEF Kept

\* The same of the targets, and of the receipt.
LEMMA KeptTargets ==
    ASSUME NEW r, NEW next, NEW changed, Kept(next, r, changed)
    PROVE  /\ "approved_uid" \notin changed => next.approved_uid = r.approved_uid
           /\ "approved_resource_version" \notin changed =>
                 next.approved_resource_version = r.approved_resource_version
           /\ "preflight_uid" \notin changed => next.preflight_uid = r.preflight_uid
           /\ "preflight_resource_version" \notin changed =>
                 next.preflight_resource_version = r.preflight_resource_version
           /\ "target_uid" \notin changed => next.target_uid = r.target_uid
           /\ "target_resource_version" \notin changed =>
                 next.target_resource_version = r.target_resource_version
           /\ "receipt_bytes" \notin changed => next.receipt_bytes = r.receipt_bytes
           /\ "receipt_digest" \notin changed => next.receipt_digest = r.receipt_digest
           /\ "receipt_key_id" \notin changed => next.receipt_key_id = r.receipt_key_id
  BY ZenonT(30), ColumnNames DEF Kept

\* The same of the groups of columns.
LEMMA KeptGroups ==
    ASSUME NEW r, NEW next, NEW changed, Kept(next, r, changed)
    PROVE  /\ RequestColumns \cap changed = {} =>
                 \A c \in RequestColumns : next[c] = r[c]
           /\ AuthorizationColumns \cap changed = {} =>
                 \A c \in AuthorizationColumns : next[c] = r[c]
           /\ ReceiverColumns \cap changed = {} =>
                 \A c \in ReceiverColumns : next[c] = r[c]
<1>1. RequestColumns \cup AuthorizationColumns \cup ReceiverColumns \subseteq Columns
  BY StatedColumns DEF StatementColumns
<1>2. QED
  BY <1>1 DEF Kept

\* An operation without an observation has none of its parts.
LEMMA UnobservedFacts ==
    ASSUME NEW r, WellFormed(r), r.state \in {"requested", "authorized", "apply_started"}
    PROVE  /\ r.result = None /\ r.target_rejection = None
           /\ \A c \in ReceiverColumns : r[c] = None
           /\ r.receipt_bytes = None /\ r.receipt_digest = None /\ r.receipt_key_id = None
           /\ SnapshotTarget(r.approved_uid, r.approved_resource_version)
           /\ \A c \in RequestColumns : IsFact(r[c])
           /\ SnapshotAuthorization(r) /\ SnapshotAttempt(r) /\ ApprovalIsKept(r)
           /\ IF r.state = "apply_started" THEN r.apply_attempted = 1 /\ AttemptTarget(r) # None
              ELSE r.apply_attempted = 0 /\ AttemptTarget(r) = None
                   /\ PreflightTarget(r) = None
           /\ r.state # "requested" => HasAuthorization(r)
<1>1. PhaseFits(r) /\ SnapshotReceipt(r) /\ PreflightIsExplained(r)
  BY DEF WellFormed
<1>2. /\ r.result = None /\ r.target_rejection = None /\ ~HasReceipt(r)
      /\ \A c \in ReceiverColumns : r[c] = None
      /\ IF r.state = "apply_started" THEN r.apply_attempted = 1 /\ AttemptTarget(r) # None
         ELSE r.apply_attempted = 0 /\ AttemptTarget(r) = None
      /\ r.state # "requested" => HasAuthorization(r)
  BY Zenon, <1>1 DEF PhaseFits
<1>3. r.receipt_bytes = None /\ r.receipt_digest = None /\ r.receipt_key_id = None
  BY Zenon, <1>1, <1>2 DEF SnapshotReceipt, HasReceipt
<1>4. r.state # "apply_started" => PreflightTarget(r) = None
  BY <1>1 DEF PreflightIsExplained
<1>5. QED
  BY ZenonT(30), <1>2, <1>3, <1>4 DEF WellFormed

\* The parts of an operation without an observation.
LEMMA UnobservedOperation ==
    ASSUME NEW r, r.state \notin FrozenStates, ~HasReceipt(r)
    PROVE  /\ OperationOf(r).state = r.state
           /\ OperationOf(r).request = Restricted(r, RequestColumns)
           /\ OperationOf(r).authorization = Restricted(r, AuthorizationColumns)
           /\ OperationOf(r).approved = ApprovedTarget(r)
           /\ OperationOf(r).preflight = PreflightTarget(r)
           /\ OperationOf(r).rejection = r.target_rejection
           /\ OperationOf(r).target = AttemptTarget(r)
           /\ OperationOf(r).response = ResponseOf(r)
           /\ OperationOf(r).statement = None
           /\ OperationOf(r).receipt = None
           /\ OperationOf(r) = [f \in OperationFields |-> OperationOf(r)[f]]
  BY Zenon DEF OperationOf, OperationFields

\* An operation is the sum of its parts.
LEMMA SameOperation ==
    ASSUME NEW a, NEW b, a = [f \in OperationFields |-> a[f]],
           b = [f \in OperationFields |-> b[f]],
           a.state = b.state, a.request = b.request, a.authorization = b.authorization,
           a.approved = b.approved, a.preflight = b.preflight, a.rejection = b.rejection,
           a.target = b.target, a.response = b.response, a.statement = b.statement,
           a.receipt = b.receipt
    PROVE  a = b
<1>1. \A f \in OperationFields : a[f] = b[f]
  BY Zenon DEF OperationFields
<1>2. QED
  BY Zenon, <1>1

\* The decode of a record before an observation is frozen, from what a write changed.
LEMMA AttemptReads ==
    ASSUME NEW r, NEW next, InBounds(r), WellFormed(r),
           r.state \in {"requested", "authorized", "apply_started"},
           next.state \in {"authorized", "not_attempted", "apply_started"},
           Kept(next, r, AttemptColumns),
           \A c \in AttemptColumns : next[c] # Oversized,
           next.apply_attempted \in {0, 1}, next.apply_accepted \in {None, 0, 1},
           SnapshotTarget(next.preflight_uid, next.preflight_resource_version),
           next.target_rejection \in {None} \cup RejectionWords,
           SnapshotAuthorization(next), HasAuthorization(next), SnapshotAttempt(next),
           ApprovalIsKept(next), PreflightIsExplained(next),
           IF next.state = "apply_started"
           THEN next.apply_attempted = 1 /\ AttemptTarget(next) # None
           ELSE next.apply_attempted = 0 /\ AttemptTarget(next) = None,
           (next.state = "not_attempted") <=> (next.target_rejection # None)
    PROVE  /\ Decode(next) = OperationOf(next)
           /\ next.state \notin FrozenStates /\ ~HasReceipt(next)
           /\ Restricted(next, RequestColumns) = Restricted(r, RequestColumns)
           /\ ApprovedTarget(next) = ApprovedTarget(r)
<1>1. /\ \A c \in RequestColumns : next[c] = r[c]
      /\ \A c \in ReceiverColumns : next[c] = r[c]
  BY KeptGroups DEF AttemptColumns, RequestColumns, ReceiverColumns, AuthorizationColumns
<1>2. /\ next.result = r.result
      /\ next.approved_uid = r.approved_uid
      /\ next.approved_resource_version = r.approved_resource_version
      /\ next.receipt_bytes = r.receipt_bytes /\ next.receipt_digest = r.receipt_digest
      /\ next.receipt_key_id = r.receipt_key_id
  BY KeptFields, KeptTargets DEF AttemptColumns, AuthorizationColumns
<1>3. InBounds(next)
  BY ZenonT(30), BoundsAreSizes DEF Kept
<1>4. next.state \notin FrozenStates /\ ~HasReceipt(next)
  BY Zenon, <1>2, UnobservedFacts DEF FrozenStates, HasReceipt
<1>5. PhaseFits(next)
  BY <1>1, <1>2, <1>4, UnobservedFacts DEF PhaseFits
<1>6. SnapshotReceipt(next)
  BY ZenonT(30), <1>2, UnobservedFacts DEF SnapshotReceipt
<1>7. WellFormed(next)
  BY ZenonT(30), <1>1, <1>2, <1>4, <1>5, <1>6, UnobservedFacts DEF WellFormed
<1>8. Restricted(next, RequestColumns) = Restricted(r, RequestColumns)
  BY ZenonT(30), <1>1 DEF Restricted
<1>9. ApprovedTarget(next) = ApprovedTarget(r)
  BY Zenon, <1>2 DEF ApprovedTarget
<1>10. QED
  BY Zenon, <1>3, <1>4, <1>7, <1>8, <1>9 DEF Decode

\* A step that writes no record and decides on none.
LEMMA QuietReads ==
    ASSUME RecordInv, UNCHANGED row,
           \A h \in Handles : handle'[h].pending \in {None, handle[h].pending}
    PROVE  RecordInv'
  BY Zenon DEF RecordInv

\* A write that is decided on reads back when the record it leaves does.
LEMMA NextReads ==
    ASSUME HandleShape, RecordInv, NEW h \in Handles, NEW expected, NEW next, NEW then,
           handle' = [handle EXCEPT ![h].pending =
                         [expected |-> expected, next |-> next, then |-> then]],
           UNCHANGED row, Identified(next), Decode(next) = then
    PROVE  RecordInv'
<1>1. handle'[h].pending = [expected |-> expected, next |-> next, then |-> then]
  BY DEF HandleShape, Fields
<1>2. \A g \in Handles \ {h} : handle'[g] = handle[g]
  BY Zenon DEF HandleShape
<1>3. ASSUME NEW g \in Handles, handle'[g].pending # None
      PROVE  /\ Identified(handle'[g].pending.next)
             /\ Decode(handle'[g].pending.next) = handle'[g].pending.then
  <2>1. CASE g = h
    BY <1>1, <2>1
  <2>2. CASE g # h
    BY Zenon, <1>2, <1>3, <2>2 DEF RecordInv
  <2>3. QED
    BY Zenon, <2>1, <2>2
<1>4. QED
  BY <1>3 DEF RecordInv

\* The columns of changes are replaced, the others kept.
LEMMA SetKeeps ==
    ASSUME NEW r, NEW changes, Identified(r), DOMAIN changes \subseteq Columns,
           "operation_id" \notin DOMAIN changes,
           \A c \in DOMAIN changes \cap CellColumns : changes[c] \in Cells
    PROVE  /\ Identified(Set(r, changes))
           /\ Kept(Set(r, changes), r, DOMAIN changes)
           /\ \A c \in DOMAIN changes : Set(r, changes)[c] = changes[c]
<1>1. PICK next : next = Set(r, changes)
  BY Zenon
<1>2. DOMAIN r = Columns
  BY Zenon DEF Identified
<1>3. /\ \A c \in DOMAIN changes : next[c] = changes[c]
      /\ \A c \in Columns \ DOMAIN changes : next[c] = r[c]
      /\ next = [c \in Columns |-> next[c]]
  BY Zenon, <1>1, <1>2 DEF Set
<1>4. "operation_id" \in Columns /\ CellColumns \subseteq Columns
  BY ColumnNames, StatedColumns DEF CellColumns
<1>5. next.operation_id = Id
  BY Zenon, <1>3, <1>4 DEF Identified
<1>6. \A c \in CellColumns : next[c] \in Cells
  BY Zenon, <1>3, <1>4 DEF Identified
<1>7. QED
  BY Zenon, <1>1, <1>3, <1>5, <1>6 DEF Identified, Kept

\* The operation a write is bound to is the one in the record.
LEMMA BoundReads ==
    ASSUME RecordInv, NEW h \in Handles, NEW state \in Words, Bound(h, state)
    PROVE  /\ row # NoRow /\ Identified(row) /\ InBounds(row) /\ WellFormed(row)
           /\ row.state = state /\ handle[h].loaded = OperationOf(row)
           /\ handle[h].loaded # None
<1>1. row # NoRow /\ Decode(row) = handle[h].loaded /\ handle[h].loaded.state = state
      /\ handle[h].loaded # None
  BY DEF Bound
<1>2. state # "refused"
  BY Zenon DEF Words, OperationStates, RejectionWords, WRITE_STRATEGY
<1>3. Decode(row) # Refused
  BY <1>1, <1>2 DEF Refused
<1>4. InBounds(row) /\ WellFormed(row) /\ Decode(row) = OperationOf(row)
  BY Zenon, <1>3 DEF Decode
<1>5. OperationOf(row).state = row.state
  BY DEF OperationOf
<1>6. QED
  BY Zenon, <1>1, <1>4, <1>5 DEF RecordInv

\* A write to a bound record is decided on.
LEMMA PendReads ==
    ASSUME HandleShape, RecordInv, NEW h \in Handles, NEW changes, NEW then, row # NoRow,
           Pend(h, row, changes, then), DOMAIN changes \subseteq Columns,
           "operation_id" \notin DOMAIN changes,
           \A c \in DOMAIN changes \cap CellColumns : changes[c] \in Cells,
           Decode(Set(row, changes)) = then
    PROVE  RecordInv'
<1>1. PICK next : next = Set(row, changes)
  OBVIOUS
<1>2. /\ handle' = [handle EXCEPT ![h].pending =
                        [expected |-> row, next |-> next, then |-> then]]
      /\ UNCHANGED row
  BY <1>1 DEF Pend
<1>3. Identified(next)
  BY Zenon, <1>1, SetKeeps DEF RecordInv
<1>4. QED
  BY Zenon, <1>1, <1>2, <1>3, NextReads

\* mark_not_attempted.
LEMMA NotAttemptedReads ==
    ASSUME HandleShape, RecordInv, NEW h \in Handles, NEW rejection \in Rejections,
           MarkNotAttempted(h, rejection)
    PROVE  RecordInv'
<1>1. "authorized" \in Words
  BY Zenon DEF Words, OperationStates
<1>2. /\ row # NoRow /\ Identified(row) /\ InBounds(row) /\ WellFormed(row)
      /\ row.state = "authorized" /\ handle[h].loaded = OperationOf(row)
  BY <1>1, BoundReads DEF MarkNotAttempted
<1>3. PICK changes : changes = [state |-> "not_attempted", target_rejection |-> rejection]
  BY Zenon
<1>4. PICK then :
         then = [handle[h].loaded EXCEPT !.state = "not_attempted", !.rejection = rejection]
  OBVIOUS
<1>5. Pend(h, row, changes, then)
  BY Zenon, <1>3, <1>4 DEF MarkNotAttempted
<1>6. DOMAIN changes = {"state", "target_rejection"}
  BY Zenon, <1>3
<1>7. /\ DOMAIN changes \subseteq Columns /\ "operation_id" \notin DOMAIN changes
      /\ DOMAIN changes \cap CellColumns = {}
  BY <1>6, ColumnNames
  DEF CellColumns, StatementColumns, RequestColumns, AuthorizationColumns, ReceiverColumns
<1>8. PICK next : next = Set(row, changes)
  BY Zenon
<1>9. /\ Kept(next, row, {"state", "target_rejection"})
      /\ next.state = "not_attempted" /\ next.target_rejection = rejection
  BY <1>2, <1>3, <1>6, <1>7, <1>8, SetKeeps
<1>10. /\ rejection \in RejectionWords /\ rejection # "stale_approval" /\ rejection # None
       /\ rejection # Oversized
  BY Zenon, InputsAssumption, TextIsFact, ValueKinds, NoneAssumption DEF Words
<1>11. Decode(next) = then
  <2>1. /\ Kept(next, row, AttemptColumns)
        /\ \A c \in AttemptColumns : next[c] # Oversized
    <3>1. AttemptColumns \subseteq Columns
      BY ZenonT(30), ColumnNames DEF AttemptColumns, AuthorizationColumns
    <3>2. "not_attempted" # Oversized
      BY Zenon, TextIsFact, ValueKinds DEF Words, OperationStates
    <3>3. QED
      BY <1>2, <1>9, <1>10, <3>1, <3>2, BoundsAreSizes DEF Kept, AttemptColumns
  <2>2. /\ next.apply_attempted = row.apply_attempted
        /\ next.apply_accepted = row.apply_accepted
        /\ next.write_strategy = row.write_strategy
        /\ next.requested_generation = row.requested_generation
        /\ next.apply_resource_version = row.apply_resource_version
    BY <1>9, KeptFields
  <2>3. /\ next.approved_uid = row.approved_uid
        /\ next.approved_resource_version = row.approved_resource_version
        /\ next.preflight_uid = row.preflight_uid
        /\ next.preflight_resource_version = row.preflight_resource_version
        /\ next.target_uid = row.target_uid
        /\ next.target_resource_version = row.target_resource_version
    BY <1>9, KeptTargets
  <2>4. \A c \in AuthorizationColumns : next[c] = row[c]
    BY <1>9, KeptGroups DEF AuthorizationColumns
  <2>5. /\ ApprovedTarget(next) = ApprovedTarget(row)
        /\ PreflightTarget(next) = PreflightTarget(row)
        /\ AttemptTarget(next) = AttemptTarget(row) /\ ResponseOf(next) = ResponseOf(row)
        /\ Restricted(next, AuthorizationColumns) = Restricted(row, AuthorizationColumns)
    BY ZenonT(30), <2>2, <2>3, <2>4
    DEF ApprovedTarget, PreflightTarget, AttemptTarget, ResponseOf, Restricted
  <2>6. SnapshotAuthorization(next) /\ HasAuthorization(next)
    BY ZenonT(30), <1>2, <2>4, UnobservedFacts DEF SnapshotAuthorization, HasAuthorization
  <2>7. SnapshotAttempt(next)
    BY ZenonT(30), <1>2, <1>9, <2>2, <2>3, UnobservedFacts DEF SnapshotAttempt
  <2>8. ApprovalIsKept(next) /\ PreflightIsExplained(next)
    BY <1>2, <1>9, <1>10, <2>5, <2>6, UnobservedFacts
    DEF ApprovalIsKept, PreflightIsExplained
  <2>9. /\ Decode(next) = OperationOf(next)
        /\ next.state \notin FrozenStates /\ ~HasReceipt(next)
        /\ Restricted(next, RequestColumns) = Restricted(row, RequestColumns)
    <3>1. /\ next.apply_attempted = 0 /\ next.apply_accepted \in {None, 0, 1}
          /\ AttemptTarget(next) = None
          /\ SnapshotTarget(next.preflight_uid, next.preflight_resource_version)
      BY Zenon, <1>2, <2>2, <2>3, <2>5, UnobservedFacts DEF WellFormed
    <3>2. QED
      BY Zenon, <1>2, <1>9, <1>10, <2>1, <2>6, <2>7, <2>8, <3>1, AttemptReads
  <2>10. row.state \notin FrozenStates /\ ~HasReceipt(row)
    BY Zenon, <1>2, UnobservedFacts DEF FrozenStates, HasReceipt
  <2>11. PICK operation : operation = OperationOf(row)
    BY Zenon
  <2>12. operation = [f \in OperationFields |-> operation[f]]
    BY <2>10, <2>11, UnobservedOperation
  <2>13. /\ then = [f \in OperationFields |-> then[f]]
         /\ then.state = "not_attempted" /\ then.rejection = rejection
         /\ \A f \in OperationFields \ {"state", "rejection"} : then[f] = operation[f]
    BY ZenonT(30), <1>2, <1>4, <2>11, <2>12 DEF OperationFields
  <2>14. OperationOf(next) = then
    BY <1>9, <2>5, <2>9, <2>10, <2>11, <2>13, UnobservedOperation, SameOperation
    DEF OperationFields
  <2>15. QED
    BY Zenon, <2>9, <2>14
<1>12. QED
  BY <1>2, <1>5, <1>7, <1>8, <1>11, PendReads

\* mark_stale_approval.
LEMMA StaleApprovalReads ==
    ASSUME HandleShape, RecordInv, NEW h \in Handles, NEW observed \in Targets,
           MarkStaleApproval(h, observed)
    PROVE  RecordInv'
<1>1. "authorized" \in Words
  BY DEF Words, OperationStates
<1>2. /\ row # NoRow /\ Identified(row) /\ InBounds(row) /\ WellFormed(row)
      /\ row.state = "authorized" /\ handle[h].loaded = OperationOf(row)
  BY <1>1, BoundReads DEF MarkStaleApproval
<1>3. PICK changes :
         changes = [state |-> "not_attempted", target_rejection |-> "stale_approval",
                    preflight_uid |-> observed.uid,
                    preflight_resource_version |-> observed.version]
  BY Zenon
<1>4. PICK then :
         then = [handle[h].loaded EXCEPT !.state = "not_attempted", !.preflight = observed,
                                         !.rejection = "stale_approval"]
  BY Zenon
<1>5. Pend(h, row, changes, then)
  BY Zenon, <1>3, <1>4 DEF MarkStaleApproval
<1>6. DOMAIN changes = {"state", "target_rejection", "preflight_uid",
                        "preflight_resource_version"}
  BY Zenon, <1>3
<1>7. /\ observed.uid \in STRING /\ observed.version \in STRING
      /\ observed = [uid |-> observed.uid, version |-> observed.version]
      /\ observed # None /\ observed.uid # None
  <2>1. /\ observed.uid \in STRING /\ observed.version \in STRING
        /\ observed = [uid |-> observed.uid, version |-> observed.version]
    BY InputsAssumption
  <2>2. observed.uid \in Cells /\ observed.version \in Cells
    BY Zenon, <2>1, TextIsFact
  <2>3. QED
    BY Zenon, <2>1, <2>2, NoneIsNothing
<1>8. /\ DOMAIN changes \subseteq Columns /\ "operation_id" \notin DOMAIN changes
      /\ \A c \in DOMAIN changes \cap CellColumns : changes[c] \in Cells
  <2>1. DOMAIN changes \subseteq Columns /\ "operation_id" \notin DOMAIN changes
    BY <1>6, ColumnNames
  <2>2. /\ changes.state = "not_attempted" /\ changes.target_rejection = "stale_approval"
        /\ changes.preflight_uid = observed.uid
        /\ changes.preflight_resource_version = observed.version
    BY <1>3
  <2>3. \A c \in DOMAIN changes \cap CellColumns : changes[c] \in Cells
    <3>1. DOMAIN changes \cap CellColumns \subseteq
             {"preflight_uid", "preflight_resource_version"}
      BY Zenon, <1>6 DEF CellColumns, StatementColumns, RequestColumns, AuthorizationColumns,
                  ReceiverColumns
    <3>2. QED
      BY ZenonT(30), <1>7, <2>2, <3>1, TextIsFact
  <2>4. QED
    BY Zenon, <2>1, <2>3
<1>9. PICK next : next = Set(row, changes)
  OBVIOUS
<1>10. /\ Kept(next, row, {"state", "target_rejection", "preflight_uid",
                           "preflight_resource_version"})
       /\ next.state = "not_attempted" /\ next.target_rejection = "stale_approval"
       /\ next.preflight_uid = observed.uid
       /\ next.preflight_resource_version = observed.version
  <2>1. /\ Kept(next, row, DOMAIN changes)
        /\ \A c \in DOMAIN changes : next[c] = changes[c]
    BY <1>2, <1>8, <1>9, SetKeeps
  <2>2. QED
    BY Zenon, <1>3, <1>6, <2>1
<1>11. Decode(next) = then
  <2>1. /\ Kept(next, row, AttemptColumns)
        /\ \A c \in AttemptColumns : next[c] # Oversized
    <3>1. AttemptColumns \subseteq Columns
      BY ColumnNames DEF AttemptColumns, AuthorizationColumns
    <3>2. {"state", "target_rejection", "preflight_uid", "preflight_resource_version"}
             \subseteq AttemptColumns
      BY Zenon DEF AttemptColumns
    <3>3. \A c \in {"state", "target_rejection", "preflight_uid",
                    "preflight_resource_version"} :
             next[c] # Oversized
      <4>1. "not_attempted" # Oversized /\ "stale_approval" # Oversized
        BY Zenon, TextIsFact, ValueKinds DEF Words, OperationStates, RejectionWords
      <4>2. QED
        BY Zenon, <1>7, <1>10, <4>1, TextIsFact
    <3>4. QED
      BY Zenon, <1>2, <1>10, <3>1, <3>2, <3>3, BoundsAreSizes DEF Kept
  <2>2. /\ next.apply_attempted = row.apply_attempted
        /\ next.apply_accepted = row.apply_accepted
        /\ next.write_strategy = row.write_strategy
        /\ next.requested_generation = row.requested_generation
        /\ next.apply_resource_version = row.apply_resource_version
    BY <1>10, KeptFields
  <2>3. /\ next.approved_uid = row.approved_uid
        /\ next.approved_resource_version = row.approved_resource_version
        /\ next.target_uid = row.target_uid
        /\ next.target_resource_version = row.target_resource_version
    BY <1>10, KeptTargets
  <2>4. \A c \in AuthorizationColumns : next[c] = row[c]
    BY <1>10, KeptGroups DEF AuthorizationColumns
  <2>5. /\ ApprovedTarget(next) = ApprovedTarget(row)
        /\ AttemptTarget(next) = AttemptTarget(row) /\ ResponseOf(next) = ResponseOf(row)
        /\ Restricted(next, AuthorizationColumns) = Restricted(row, AuthorizationColumns)
    BY ZenonT(30), <2>2, <2>3, <2>4
    DEF ApprovedTarget, PreflightTarget, AttemptTarget, ResponseOf, Restricted
  <2>6. SnapshotAuthorization(next) /\ HasAuthorization(next)
    BY Zenon, <1>2, <2>4, UnobservedFacts DEF SnapshotAuthorization, HasAuthorization
  <2>7. SnapshotAttempt(next)
    BY ZenonT(30), <1>2, <1>10, <2>2, <2>3, UnobservedFacts DEF SnapshotAttempt
  <2>8. ApprovalIsKept(next) /\ PreflightIsExplained(next) /\ PreflightTarget(next) = observed
    <3>1. PreflightTarget(next) = observed
      BY <1>7, <1>10 DEF PreflightTarget, Target
    <3>2. ApprovedTarget(row) \notin {None, observed}
      <4>1. OperationOf(row).approved = ApprovedTarget(row)
        BY DEF OperationOf
      <4>2. QED
        BY Zenon, <1>2, <4>1 DEF MarkStaleApproval
    <3>3. AttemptTarget(row) = None /\ HasAuthorization(row)
      BY ZenonT(30), <1>2, UnobservedFacts
    <3>4. QED
      BY Zenon, <1>7, <1>10, <2>5, <2>6, <3>1, <3>2, <3>3 DEF ApprovalIsKept,
          PreflightIsExplained
  <2>9. /\ Decode(next) = OperationOf(next)
        /\ next.state \notin FrozenStates /\ ~HasReceipt(next)
        /\ Restricted(next, RequestColumns) = Restricted(row, RequestColumns)
    <3>1. /\ next.apply_attempted = 0 /\ next.apply_accepted \in {None, 0, 1}
          /\ AttemptTarget(next) = None
          /\ SnapshotTarget(next.preflight_uid, next.preflight_resource_version)
          /\ "stale_approval" \in RejectionWords /\ "stale_approval" # None
      <4>1. "stale_approval" \in RejectionWords /\ "stale_approval" # None
        BY Zenon, NoneIsNothing DEF Words, RejectionWords
      <4>2. SnapshotTarget(next.preflight_uid, next.preflight_resource_version)
        BY <1>7, <1>10, TextIsFact DEF SnapshotTarget
      <4>3. QED
        BY Zenon, <1>2, <2>2, <2>5, <4>1, <4>2, UnobservedFacts DEF WellFormed
    <3>2. QED
      BY Zenon, <1>2, <1>7, <1>10, <2>1, <2>6, <2>7, <2>8, <3>1, AttemptReads
  <2>10. row.state \notin FrozenStates /\ ~HasReceipt(row)
    BY Zenon, <1>2, UnobservedFacts DEF FrozenStates, HasReceipt
  <2>11. PICK operation : operation = OperationOf(row)
    OBVIOUS
  <2>12. operation = [f \in OperationFields |-> operation[f]]
    BY <2>10, <2>11, UnobservedOperation
  <2>13. /\ then = [f \in OperationFields |-> then[f]]
         /\ then.state = "not_attempted" /\ then.rejection = "stale_approval"
         /\ then.preflight = observed
         /\ \A f \in OperationFields \ {"state", "preflight", "rejection"} :
               then[f] = operation[f]
    BY ZenonT(30), <1>2, <1>4, <2>11, <2>12 DEF OperationFields
  <2>14. OperationOf(next) = then
    BY <1>10, <2>8, <2>5, <2>9, <2>10, <2>11, <2>13, UnobservedOperation, SameOperation
    DEF OperationFields
  <2>15. QED
    BY Zenon, <2>9, <2>14
<1>12. QED
  BY <1>2, <1>5, <1>8, <1>9, <1>11, PendReads

\* mark_apply_started.
LEMMA ApplyStartedReads ==
    ASSUME HandleShape, RecordInv, NEW h \in Handles, NEW target \in Targets,
           MarkApplyStarted(h, target)
    PROVE  RecordInv'
<1>1. "authorized" \in Words
  BY DEF Words, OperationStates
<1>2. /\ row # NoRow /\ Identified(row) /\ InBounds(row) /\ WellFormed(row)
      /\ row.state = "authorized" /\ handle[h].loaded = OperationOf(row)
  BY Zenon, <1>1, BoundReads DEF MarkApplyStarted
<1>3. PICK changes :
         changes = [state |-> "apply_started", write_strategy |-> WRITE_STRATEGY,
                    apply_attempted |-> 1,
                    target_uid |-> target.uid, preflight_uid |-> target.uid,
                    target_resource_version |-> target.version,
                    preflight_resource_version |-> target.version]
  BY Zenon
<1>4. PICK then :
         then = [handle[h].loaded EXCEPT !.state = "apply_started", !.preflight = target,
                                         !.target = target]
  BY Zenon
<1>5. Pend(h, row, changes, then)
  BY Zenon, <1>3, <1>4 DEF MarkApplyStarted
<1>6. DOMAIN changes = {"state", "write_strategy", "apply_attempted", "target_uid",
                        "preflight_uid", "target_resource_version",
                        "preflight_resource_version"}
  BY Zenon, <1>3
<1>7. /\ target.uid \in STRING /\ target.version \in STRING
      /\ target = [uid |-> target.uid, version |-> target.version]
      /\ target # None /\ target.uid # None
  <2>1. /\ target.uid \in STRING /\ target.version \in STRING
        /\ target = [uid |-> target.uid, version |-> target.version]
    BY InputsAssumption
  <2>2. target.uid \in Cells /\ target.version \in Cells
    BY Zenon, <2>1, TextIsFact
  <2>3. QED
    BY <2>1, <2>2, NoneIsNothing
<1>8. /\ DOMAIN changes \subseteq Columns /\ "operation_id" \notin DOMAIN changes
      /\ \A c \in DOMAIN changes \cap CellColumns : changes[c] \in Cells
  <2>1. DOMAIN changes \subseteq Columns /\ "operation_id" \notin DOMAIN changes
    BY <1>6, ColumnNames
  <2>2. /\ changes.state = "apply_started" /\ changes.write_strategy = WRITE_STRATEGY
        /\ changes.apply_attempted = 1 /\ changes.preflight_uid = target.uid
        /\ changes.preflight_resource_version = target.version
        /\ changes.target_uid = target.uid
        /\ changes.target_resource_version = target.version
    BY Zenon, <1>3
  <2>3. \A c \in DOMAIN changes \cap CellColumns : changes[c] \in Cells
    <3>1. DOMAIN changes \cap CellColumns \subseteq
             {"write_strategy", "target_uid", "preflight_uid", "target_resource_version",
              "preflight_resource_version"}
      BY Zenon, <1>6 DEF CellColumns, StatementColumns, RequestColumns, AuthorizationColumns,
                  ReceiverColumns
    <3>2. WRITE_STRATEGY \in Cells
      BY Zenon, TextIsFact DEF Words
    <3>3. QED
      BY ZenonT(30), <1>7, <2>2, <3>1, <3>2, TextIsFact
  <2>4. QED
    BY <2>1, <2>3
<1>9. PICK next : next = Set(row, changes)
  OBVIOUS
<1>10. /\ Kept(next, row, {"state", "write_strategy", "apply_attempted", "target_uid",
                           "preflight_uid", "target_resource_version",
                           "preflight_resource_version"})
       /\ next.state = "apply_started" /\ next.write_strategy = WRITE_STRATEGY
       /\ next.apply_attempted = 1 /\ next.preflight_uid = target.uid
       /\ next.preflight_resource_version = target.version /\ next.target_uid = target.uid
       /\ next.target_resource_version = target.version
  <2>1. /\ Kept(next, row, DOMAIN changes)
        /\ \A c \in DOMAIN changes : next[c] = changes[c]
    BY <1>2, <1>8, <1>9, SetKeeps
  <2>2. QED
    BY Zenon, <1>3, <1>6, <2>1
<1>11. Decode(next) = then
  <2>1. /\ Kept(next, row, AttemptColumns)
        /\ \A c \in AttemptColumns : next[c] # Oversized
    <3>1. AttemptColumns \subseteq Columns
      BY ColumnNames DEF AttemptColumns, AuthorizationColumns
    <3>2. {"state", "write_strategy", "apply_attempted", "target_uid", "preflight_uid",
           "target_resource_version", "preflight_resource_version"}
             \subseteq AttemptColumns
      BY Zenon DEF AttemptColumns
    <3>3. \A c \in {"state", "write_strategy", "apply_attempted", "target_uid",
                    "preflight_uid", "target_resource_version",
                    "preflight_resource_version"} :
             next[c] # Oversized
      <4>1. "apply_started" # Oversized /\ WRITE_STRATEGY # Oversized /\ 1 # Oversized
        BY Zenon, TextIsFact, ValueKinds DEF Words, OperationStates
      <4>2. QED
        BY Zenon, <1>7, <1>10, <4>1, TextIsFact
    <3>4. QED
      BY Zenon, <1>2, <1>10, <3>1, <3>2, <3>3, BoundsAreSizes DEF Kept
  <2>2. /\ next.apply_accepted = row.apply_accepted
        /\ next.requested_generation = row.requested_generation
        /\ next.apply_resource_version = row.apply_resource_version
        /\ next.target_rejection = row.target_rejection
    BY <1>10, KeptFields
  <2>3. /\ next.approved_uid = row.approved_uid
        /\ next.approved_resource_version = row.approved_resource_version
    BY <1>10, KeptTargets
  <2>4. \A c \in AuthorizationColumns : next[c] = row[c]
    BY <1>10, KeptGroups DEF AuthorizationColumns
  <2>5. /\ ApprovedTarget(next) = ApprovedTarget(row) /\ ResponseOf(next) = ResponseOf(row)
        /\ Restricted(next, AuthorizationColumns) = Restricted(row, AuthorizationColumns)
    BY Zenon, <2>2, <2>3, <2>4
    DEF ApprovedTarget, PreflightTarget, AttemptTarget, ResponseOf, Restricted
  <2>6. SnapshotAuthorization(next) /\ HasAuthorization(next)
    BY Zenon, <1>2, <2>4, UnobservedFacts DEF SnapshotAuthorization, HasAuthorization
  <2>7. SnapshotAttempt(next)
    <3>1. row.target_uid = None
      <4>1. AttemptTarget(row) = None /\ row.target_uid \in Cells
            /\ row.target_resource_version \in Cells
        BY <1>2, UnobservedFacts DEF Identified, CellColumns, StatementColumns
      <4>2. QED
        BY Zenon, <4>1, NoneIsNothing DEF AttemptTarget, Target
    <3>2. SnapshotAttempt(row)
      BY Zenon, <1>2, UnobservedFacts
    <3>3. /\ row.apply_accepted = None /\ row.requested_generation = None
          /\ row.apply_resource_version = None
      BY Zenon, <3>1, <3>2 DEF SnapshotAttempt, IsFact
    <3>4. QED
      BY Zenon, <1>7, <1>10, <2>2, <3>3, TextIsFact DEF SnapshotAttempt
  <2>8. /\ ApprovalIsKept(next) /\ PreflightIsExplained(next)
        /\ PreflightTarget(next) = target /\ AttemptTarget(next) = target
    <3>1. PreflightTarget(next) = target /\ AttemptTarget(next) = target
      BY Zenon, <1>7, <1>10 DEF PreflightTarget, AttemptTarget, Target
    <3>2. ApprovedTarget(row) \in {None, target}
      <4>1. OperationOf(row).approved = ApprovedTarget(row)
        BY DEF OperationOf
      <4>2. QED
        BY <1>2, <4>1 DEF MarkApplyStarted
    <3>3. row.target_rejection = None /\ None # "stale_approval"
      BY ZenonT(30), <1>2, UnobservedFacts, NoneIsNothing DEF Words, RejectionWords
    <3>4. QED
      BY Zenon, <1>7, <1>10, <2>2, <2>5, <2>6, <3>1, <3>2, <3>3
      DEF ApprovalIsKept, PreflightIsExplained
  <2>9. /\ Decode(next) = OperationOf(next)
        /\ next.state \notin FrozenStates /\ ~HasReceipt(next)
        /\ Restricted(next, RequestColumns) = Restricted(row, RequestColumns)
    <3>1. /\ next.apply_accepted \in {None, 0, 1}
          /\ SnapshotTarget(next.preflight_uid, next.preflight_resource_version)
          /\ next.target_rejection = None
      <4>1. SnapshotTarget(next.preflight_uid, next.preflight_resource_version)
        BY Zenon, <1>7, <1>10, TextIsFact DEF SnapshotTarget
      <4>2. QED
        BY ZenonT(30), <1>2, <2>2, <4>1, UnobservedFacts DEF WellFormed
    <3>2. QED
      BY <1>2, <1>7, <1>10, <2>1, <2>6, <2>7, <2>8, <3>1, AttemptReads
  <2>10. row.state \notin FrozenStates /\ ~HasReceipt(row)
    BY Zenon, <1>2, UnobservedFacts DEF FrozenStates, HasReceipt
  <2>11. PICK operation : operation = OperationOf(row)
    OBVIOUS
  <2>12. operation = [f \in OperationFields |-> operation[f]]
    BY <2>10, <2>11, UnobservedOperation
  <2>13. /\ then = [f \in OperationFields |-> then[f]]
         /\ then.state = "apply_started" /\ then.target = target /\ then.preflight = target
         /\ \A f \in OperationFields \ {"state", "preflight", "target"} :
               then[f] = operation[f]
    BY ZenonT(30), <1>2, <1>4, <2>11, <2>12 DEF OperationFields
  <2>14. OperationOf(next) = then
    BY <1>10, <2>2, <2>8, <2>5, <2>9, <2>10, <2>11, <2>13, UnobservedOperation, SameOperation
    DEF OperationFields
  <2>15. QED
    BY <2>9, <2>14
<1>12. QED
  BY <1>2, <1>5, <1>8, <1>9, <1>11, PendReads

\* record_apply_outcome.
LEMMA ApplyOutcomeReads ==
    ASSUME HandleShape, RecordInv, NEW h \in Handles, NEW outcome \in Outcomes,
           RecordApplyOutcome(h, outcome)
    PROVE  RecordInv'
<1>1. "apply_started" \in Words
  BY DEF Words, OperationStates
<1>2. /\ row # NoRow /\ Identified(row) /\ InBounds(row) /\ WellFormed(row)
      /\ row.state = "apply_started" /\ handle[h].loaded = OperationOf(row)
  BY <1>1, BoundReads DEF RecordApplyOutcome
<1>3. PICK changes :
         changes = [apply_accepted |-> outcome.accepted,
                    requested_generation |-> outcome.generation,
                    apply_resource_version |-> outcome.version]
  BY Zenon
<1>4. PICK then :
         then = [handle[h].loaded EXCEPT !.response = outcome]
  BY Zenon
<1>5. Pend(h, row, changes, then)
  BY Zenon, <1>3, <1>4 DEF RecordApplyOutcome
<1>6. DOMAIN changes = {"apply_accepted", "requested_generation", "apply_resource_version"}
  BY Zenon, <1>3
<1>7. /\ outcome.accepted \in {0, 1} /\ outcome.version \in STRING
      /\ outcome.generation \in Cells /\ outcome.generation # Oversized
      /\ outcome.generation # None => outcome.generation >= 0
      /\ outcome = [accepted |-> outcome.accepted, generation |-> outcome.generation,
                    version |-> outcome.version]
      /\ outcome.accepted # None /\ outcome.accepted # Oversized
  <2>1. /\ outcome.accepted \in {0, 1} /\ outcome.version \in STRING
        /\ outcome.generation # None => outcome.generation \in Nat
        /\ outcome = [accepted |-> outcome.accepted, generation |-> outcome.generation,
                      version |-> outcome.version]
    BY Zenon, InputsAssumption
  <2>2. \A n \in Nat : n >= 0 /\ n \in Values
    BY ValueKinds
  <2>3. outcome.generation \in Cells /\ outcome.generation # Oversized
    BY Zenon, <2>1, <2>2, TextIsFact
  <2>4. outcome.accepted # None /\ outcome.accepted # Oversized
    BY Zenon, <2>1, NoneIsNothing, TextIsFact, ValueKinds
  <2>5. QED
    BY Zenon, <2>1, <2>2, <2>3, <2>4
<1>8. /\ DOMAIN changes \subseteq Columns /\ "operation_id" \notin DOMAIN changes
      /\ \A c \in DOMAIN changes \cap CellColumns : changes[c] \in Cells
  <2>1. DOMAIN changes \subseteq Columns /\ "operation_id" \notin DOMAIN changes
    BY Zenon, <1>6, ColumnNames
  <2>2. /\ changes.apply_accepted = outcome.accepted
        /\ changes.requested_generation = outcome.generation
        /\ changes.apply_resource_version = outcome.version
    BY Zenon, <1>3
  <2>3. \A c \in DOMAIN changes \cap CellColumns : changes[c] \in Cells
    <3>1. DOMAIN changes \cap CellColumns \subseteq
             {"requested_generation", "apply_resource_version"}
      BY Zenon, <1>6 DEF CellColumns, StatementColumns, RequestColumns, AuthorizationColumns,
                  ReceiverColumns
    <3>2. QED
      BY ZenonT(30), <1>7, <2>2, <3>1, TextIsFact
  <2>4. QED
    BY <2>1, <2>3
<1>9. PICK next : next = Set(row, changes)
  OBVIOUS
<1>10. /\ Kept(next, row, {"apply_accepted", "requested_generation", "apply_resource_version"})
       /\ next.apply_accepted = outcome.accepted
       /\ next.requested_generation = outcome.generation
       /\ next.apply_resource_version = outcome.version
  <2>1. /\ Kept(next, row, DOMAIN changes)
        /\ \A c \in DOMAIN changes : next[c] = changes[c]
    BY <1>2, <1>8, <1>9, SetKeeps
  <2>2. QED
    BY Zenon, <1>3, <1>6, <2>1
<1>11. Decode(next) = then
  <2>1. /\ Kept(next, row, AttemptColumns)
        /\ \A c \in AttemptColumns : next[c] # Oversized
    <3>1. AttemptColumns \subseteq Columns
      BY ColumnNames DEF AttemptColumns, AuthorizationColumns
    <3>2. {"apply_accepted", "requested_generation", "apply_resource_version"}
             \subseteq AttemptColumns
      BY Zenon DEF AttemptColumns
    <3>3. \A c \in {"apply_accepted", "requested_generation", "apply_resource_version"} :
             next[c] # Oversized
      BY Zenon, <1>7, <1>10, TextIsFact
    <3>4. QED
      BY Zenon, <1>2, <1>10, <3>1, <3>2, <3>3, BoundsAreSizes DEF Kept
  <2>2. /\ next.apply_attempted = row.apply_attempted
        /\ next.write_strategy = row.write_strategy
        /\ next.target_rejection = row.target_rejection
    BY <1>10, KeptFields
  <2>3. /\ next.approved_uid = row.approved_uid
        /\ next.approved_resource_version = row.approved_resource_version
        /\ next.preflight_uid = row.preflight_uid
        /\ next.preflight_resource_version = row.preflight_resource_version
        /\ next.target_uid = row.target_uid
        /\ next.target_resource_version = row.target_resource_version
    BY <1>10, KeptTargets
  <2>4. \A c \in AuthorizationColumns : next[c] = row[c]
    BY <1>10, KeptGroups DEF AuthorizationColumns
  <2>5. /\ ApprovedTarget(next) = ApprovedTarget(row)
        /\ PreflightTarget(next) = PreflightTarget(row)
        /\ AttemptTarget(next) = AttemptTarget(row)
        /\ Restricted(next, AuthorizationColumns) = Restricted(row, AuthorizationColumns)
    BY <2>2, <2>3, <2>4
    DEF ApprovedTarget, PreflightTarget, AttemptTarget, ResponseOf, Restricted
  <2>6. SnapshotAuthorization(next) /\ HasAuthorization(next)
    BY ZenonT(30), <1>2, <2>4, UnobservedFacts DEF SnapshotAuthorization, HasAuthorization
  <2>7. SnapshotAttempt(next) /\ next.state = "apply_started"
    <3>1. next.state = "apply_started"
      BY <1>2, <1>10, KeptFields
    <3>2. SnapshotAttempt(row) /\ AttemptTarget(row) # None
      BY Zenon, <1>2, UnobservedFacts
    <3>3. /\ row.write_strategy = WRITE_STRATEGY
          /\ IsFact(row.target_uid) /\ IsFact(row.target_resource_version)
      BY Zenon, <3>2 DEF SnapshotAttempt, AttemptTarget, Target
    <3>4. QED
      BY Zenon, <1>7, <1>10, <2>2, <2>3, <3>1, <3>3, TextIsFact DEF SnapshotAttempt
  <2>8. /\ ApprovalIsKept(next) /\ PreflightIsExplained(next) /\ ResponseOf(next) = outcome
    <3>1. ResponseOf(next) = outcome
      BY <1>7, <1>10 DEF ResponseOf
    <3>2. row.target_rejection = None /\ None # "stale_approval"
      BY ZenonT(30), <1>2, UnobservedFacts, NoneIsNothing DEF Words, RejectionWords
    <3>3. ApprovalIsKept(row)
      BY ZenonT(30), <1>2, UnobservedFacts
    <3>4. QED
      BY Zenon, <2>2, <2>5, <2>6, <2>7, <3>1, <3>2, <3>3
      DEF ApprovalIsKept, PreflightIsExplained
  <2>9. /\ Decode(next) = OperationOf(next)
        /\ next.state \notin FrozenStates /\ ~HasReceipt(next)
        /\ Restricted(next, RequestColumns) = Restricted(row, RequestColumns)
    <3>1. /\ next.apply_attempted = 1 /\ AttemptTarget(next) # None
          /\ SnapshotTarget(next.preflight_uid, next.preflight_resource_version)
          /\ next.target_rejection = None
      BY ZenonT(30), <1>2, <2>2, <2>3, <2>5, UnobservedFacts DEF WellFormed
    <3>2. QED
      BY <1>2, <1>7, <1>10, <2>1, <2>6, <2>7, <2>8, <3>1, AttemptReads
  <2>10. row.state \notin FrozenStates /\ ~HasReceipt(row)
    BY Zenon, <1>2, UnobservedFacts DEF FrozenStates, HasReceipt
  <2>11. PICK operation : operation = OperationOf(row)
    OBVIOUS
  <2>12. operation = [f \in OperationFields |-> operation[f]]
    BY <2>10, <2>11, UnobservedOperation
  <2>13. /\ then = [f \in OperationFields |-> then[f]]
         /\ then.response = outcome
         /\ \A f \in OperationFields \ {"response"} :
               then[f] = operation[f]
    BY Zenon, <1>2, <1>4, <2>11, <2>12 DEF OperationFields
  <2>14. OperationOf(next) = then
    BY <1>10, <1>2, <2>2, <2>7, <2>8, <2>5, <2>9, <2>10, <2>11, <2>13, UnobservedOperation,
        SameOperation
    DEF OperationFields
  <2>15. QED
    BY <2>9, <2>14
<1>12. QED
  BY Zenon, <1>2, <1>5, <1>8, <1>9, <1>11, PendReads

\* mark_authorized.
LEMMA AuthorizedReads ==
    ASSUME HandleShape, SizesInv, RecordInv, NEW h \in Handles, MarkAuthorized(h)
    PROVE  RecordInv'
<1>1. "requested" \in Words
  BY Zenon DEF Words, OperationStates
<1>2. /\ row # NoRow /\ Identified(row) /\ InBounds(row) /\ WellFormed(row)
      /\ row.state = "requested" /\ handle[h].loaded = OperationOf(row)
      /\ handle[h].loaded # None
  BY Zenon, <1>1, BoundReads DEF MarkAuthorized
<1>3. PICK request : request = handle[h].request
  BY Zenon
<1>4. PICK authority : authority = Restricted(request, AuthorizationColumns)
  BY Zenon
<1>5. PICK changes : changes = Set(authority, [state |-> "authorized"])
  OBVIOUS
<1>6. PICK then :
         then = [handle[h].loaded EXCEPT !.state = "authorized", !.authorization = authority]
  BY Zenon
<1>7. Pend(h, row, changes, then)
  BY Zenon, <1>3, <1>4, <1>5, <1>6 DEF MarkAuthorized
<1>8. \A c \in AuthorizationColumns : request[c] \in STRING
  <2>1. request \in Requests
    BY Zenon, <1>2, <1>3 DEF SizesInv
  <2>2. QED
    BY ZenonT(30), <2>1, RequestsAssumption DEF GrantedColumns
<1>9. /\ DOMAIN changes = AuthorizationColumns \cup {"state"}
      /\ changes["state"] = "authorized"
      /\ \A c \in AuthorizationColumns : changes[c] = request[c]
  BY <1>4, <1>5 DEF Set, Restricted, AuthorizationColumns
<1>10. /\ DOMAIN changes \subseteq Columns /\ "operation_id" \notin DOMAIN changes
       /\ \A c \in DOMAIN changes \cap CellColumns : changes[c] \in Cells
  <2>1. DOMAIN changes \subseteq Columns /\ "operation_id" \notin DOMAIN changes
    BY <1>9, ColumnNames DEF AuthorizationColumns
  <2>2. "authorized" \in Cells
    BY Zenon, TextIsFact DEF Words, OperationStates
  <2>3. QED
    BY Zenon, <1>8, <1>9, <2>1, <2>2, TextIsFact
<1>11. PICK next : next = Set(row, changes)
  BY Zenon
<1>12. /\ Kept(next, row, AuthorizationColumns \cup {"state"})
       /\ next.state = "authorized" /\ \A c \in AuthorizationColumns : next[c] = request[c]
  <2>1. /\ Kept(next, row, DOMAIN changes)
        /\ \A c \in DOMAIN changes : next[c] = changes[c]
    BY <1>2, <1>10, <1>11, SetKeeps
  <2>2. QED
    BY Zenon, <1>9, <2>1
<1>13. Decode(next) = then
  <2>1. /\ Kept(next, row, AttemptColumns)
        /\ \A c \in AttemptColumns : next[c] # Oversized
    <3>1. AttemptColumns \subseteq Columns
      BY ColumnNames DEF AttemptColumns, AuthorizationColumns
    <3>2. AuthorizationColumns \cup {"state"} \subseteq AttemptColumns
      BY Zenon DEF AttemptColumns
    <3>3. "authorized" # Oversized
      BY TextIsFact, ValueKinds DEF Words, OperationStates
    <3>4. \A c \in AuthorizationColumns \cup {"state"} : next[c] # Oversized
      BY ZenonT(30), <1>8, <1>12, <3>3, TextIsFact
    <3>5. QED
      BY <1>2, <1>12, <3>1, <3>2, <3>4, BoundsAreSizes DEF Kept
  <2>2. /\ next.apply_attempted = row.apply_attempted
        /\ next.apply_accepted = row.apply_accepted
        /\ next.write_strategy = row.write_strategy
        /\ next.requested_generation = row.requested_generation
        /\ next.apply_resource_version = row.apply_resource_version
        /\ next.target_rejection = row.target_rejection
    BY <1>12, KeptFields DEF AuthorizationColumns
  <2>3. /\ next.approved_uid = row.approved_uid
        /\ next.approved_resource_version = row.approved_resource_version
        /\ next.preflight_uid = row.preflight_uid
        /\ next.preflight_resource_version = row.preflight_resource_version
        /\ next.target_uid = row.target_uid
        /\ next.target_resource_version = row.target_resource_version
    BY <1>12, KeptTargets DEF AuthorizationColumns
  <2>4. /\ ApprovedTarget(next) = ApprovedTarget(row)
        /\ PreflightTarget(next) = PreflightTarget(row)
        /\ AttemptTarget(next) = AttemptTarget(row) /\ ResponseOf(next) = ResponseOf(row)
    BY Zenon, <2>2, <2>3 DEF ApprovedTarget, PreflightTarget, AttemptTarget, ResponseOf
  <2>5. Restricted(next, AuthorizationColumns) = authority
    BY Zenon, <1>4, <1>12 DEF Restricted
  <2>6. SnapshotAuthorization(next) /\ HasAuthorization(next)
    BY Zenon, <1>8, <1>12, TextIsFact, NoneIsNothing DEF SnapshotAuthorization, HasAuthorization
  <2>7. SnapshotAttempt(next)
    BY ZenonT(30), <1>2, <1>12, <2>2, <2>3, UnobservedFacts DEF SnapshotAttempt
  <2>8. ApprovalIsKept(next) /\ PreflightIsExplained(next)
    <3>1. None # "stale_approval"
      BY ZenonT(30), NoneIsNothing DEF Words, RejectionWords
    <3>2. QED
      BY Zenon, <1>2, <1>12, <2>2, <2>4, <2>6, <3>1, UnobservedFacts
      DEF ApprovalIsKept, PreflightIsExplained
  <2>9. /\ Decode(next) = OperationOf(next)
        /\ next.state \notin FrozenStates /\ ~HasReceipt(next)
        /\ Restricted(next, RequestColumns) = Restricted(row, RequestColumns)
    <3>1. /\ next.apply_attempted = 0 /\ next.apply_accepted \in {None, 0, 1}
          /\ AttemptTarget(next) = None /\ next.target_rejection = None
          /\ SnapshotTarget(next.preflight_uid, next.preflight_resource_version)
      BY ZenonT(30), <1>2, <2>2, <2>3, <2>4, UnobservedFacts DEF WellFormed
    <3>2. QED
      BY Zenon, <1>2, <1>12, <2>1, <2>6, <2>7, <2>8, <3>1, AttemptReads
  <2>10. row.state \notin FrozenStates /\ ~HasReceipt(row)
    BY Zenon, <1>2, UnobservedFacts DEF FrozenStates, HasReceipt
  <2>11. PICK operation : operation = OperationOf(row)
    BY Zenon
  <2>12. operation = [f \in OperationFields |-> operation[f]]
    BY <2>10, <2>11, UnobservedOperation
  <2>13. /\ then = [f \in OperationFields |-> then[f]]
         /\ then.state = "authorized" /\ then.authorization = authority
         /\ \A f \in OperationFields \ {"state", "authorization"} : then[f] = operation[f]
    BY ZenonT(30), <1>2, <1>6, <2>11, <2>12 DEF OperationFields
  <2>14. OperationOf(next) = then
    BY <1>12, <2>2, <2>4, <2>5, <2>9, <2>10, <2>11, <2>13, UnobservedOperation, SameOperation
    DEF OperationFields
  <2>15. QED
    BY Zenon, <2>9, <2>14
<1>14. QED
  BY Zenon, <1>2, <1>7, <1>10, <1>11, <1>13, PendReads

\* insert_requested.
LEMMA InsertReads ==
    ASSUME HandleShape, SizesInv, RecordInv, NEW h \in Handles, InsertRequested(h)
    PROVE  RecordInv'
<1>1. PICK request : request = handle[h].request
  OBVIOUS
<1>2. /\ request["operation_id"] = Id
      /\ \A c \in GrantedColumns : request[c] \in STRING
      /\ request.approved # None =>
            /\ request.approved.uid \in STRING /\ request.approved.version \in STRING
            /\ request.approved = [uid |-> request.approved.uid,
                                   version |-> request.approved.version]
  <2>1. handle[h].loaded = NoRow /\ NoRow # None
    BY Zenon, NoneAssumption DEF InsertRequested
  <2>2. request \in Requests
    BY <1>1, <2>1 DEF SizesInv
  <2>3. QED
    BY Zenon, <2>2, RequestsAssumption
<1>3. PICK approval : approval = IF request.approved = None THEN [approved_uid |-> None]
                                 ELSE [approved_uid |-> request.approved.uid,
                                       approved_resource_version |-> request.approved.version]
  BY Zenon
<1>4. PICK granted : granted = Restricted(request, GrantedColumns)
  OBVIOUS
<1>5. PICK next : next = Set(Set(Set(Empty, granted), approval), [state |-> "requested"])
  OBVIOUS
<1>6. PICK then :
         then = [state |-> "requested", request |-> Restricted(request, RequestColumns),
                 authorization |-> Restricted(request, AuthorizationColumns),
                 approved |-> request.approved, preflight |-> None, rejection |-> None,
                 target |-> None, response |-> None, statement |-> None, receipt |-> None]
  BY ZenonT(30)
<1>7. /\ handle' = [handle EXCEPT ![h].pending =
                       [expected |-> NoRow, next |-> next, then |-> then]]
      /\ UNCHANGED row
  BY <1>1, <1>3, <1>4, <1>5, <1>6 DEF InsertRequested
<1>8. /\ DOMAIN approval \subseteq {"approved_uid", "approved_resource_version"}
      /\ "approved_uid" \in DOMAIN approval
      /\ request.approved = None =>
            approval["approved_uid"] = None /\ DOMAIN approval = {"approved_uid"}
      /\ request.approved # None =>
            /\ approval["approved_uid"] = request.approved.uid
            /\ "approved_resource_version" \in DOMAIN approval
            /\ approval["approved_resource_version"] = request.approved.version
  <2>1. CASE request.approved = None
    BY Zenon, <1>3, <2>1
  <2>2. CASE request.approved # None
    BY Zenon, <1>3, <2>2
  <2>3. QED
    BY ZenonT(30), <2>1, <2>2
<1>9. /\ DOMAIN granted = GrantedColumns /\ \A c \in GrantedColumns : granted[c] = request[c]
  BY Zenon, <1>4 DEF Restricted
<1>10. GrantedColumns \subseteq Columns
  BY ColumnNames DEF GrantedColumns, RequestColumns, AuthorizationColumns
<1>11. /\ DOMAIN Empty = Columns /\ Empty["apply_attempted"] = 0
       /\ \A c \in Columns \ {"operation_id", "target_read_failures", "apply_attempted"} :
             Empty[c] = None
       /\ Empty["target_read_failures"] = 0
  BY ZenonT(30), ColumnNames DEF Empty, Set
<1>12. /\ next = [c \in Columns |-> next[c]] /\ next["state"] = "requested"
       /\ \A c \in GrantedColumns : next[c] = request[c]
       /\ \A c \in Columns \ (GrantedColumns \cup
                {"state", "approved_uid", "approved_resource_version"}) : next[c] = Empty[c]
  <2>1. {"state", "approved_uid", "approved_resource_version"} \subseteq Columns
    BY ColumnNames
  <2>2. GrantedColumns \cap {"state", "approved_uid", "approved_resource_version"} = {}
    BY DEF GrantedColumns, RequestColumns, AuthorizationColumns
  <2>3. DOMAIN next = Columns
    BY Zenon, <1>5, <1>8, <1>9, <1>10, <1>11, <2>1 DEF Set
  <2>4. next = [c \in Columns |-> next[c]]
    BY ZenonT(30), <1>5, <2>3 DEF Set
  <2>5. QED
    BY Zenon, <1>5, <1>8, <1>9, <1>10, <1>11, <2>1, <2>2, <2>3, <2>4 DEF Set
<1>13. IF request.approved = None
       THEN next["approved_uid"] = None /\ next["approved_resource_version"] = None
       ELSE /\ next["approved_uid"] = request.approved.uid
            /\ next["approved_resource_version"] = request.approved.version
  <2>1. /\ "approved_uid" \notin GrantedColumns /\ "approved_uid" \in Columns
        /\ "approved_resource_version" \notin GrantedColumns
        /\ "approved_resource_version" \in Columns
    BY Zenon, ColumnNames DEF GrantedColumns, RequestColumns, AuthorizationColumns
  <2>2. QED
    BY Zenon, <1>5, <1>8, <1>9, <1>11, <2>1 DEF Set
<1>14. /\ \A c \in ReceiverColumns : next[c] = None
       /\ next.result = None /\ next.target_rejection = None /\ next.write_strategy = None
       /\ next.apply_attempted = 0 /\ next.apply_accepted = None
       /\ next.requested_generation = None /\ next.apply_resource_version = None
       /\ next.preflight_uid = None /\ next.preflight_resource_version = None
       /\ next.target_uid = None /\ next.target_resource_version = None
       /\ next.receipt_bytes = None /\ next.receipt_digest = None
       /\ next.receipt_key_id = None
  <2>1. ReceiverColumns \subseteq Columns
    BY Zenon, StatedColumns DEF StatementColumns
  <2>2. ReceiverColumns \cap (GrantedColumns \cup
           {"state", "approved_uid", "approved_resource_version", "operation_id",
            "target_read_failures", "apply_attempted"}) = {}
    BY Zenon DEF ReceiverColumns, GrantedColumns, RequestColumns, AuthorizationColumns
  <2>3. \A c \in ReceiverColumns : next[c] = None
    BY Zenon, <1>11, <1>12, <2>1, <2>2
  <2>4. next.apply_attempted = 0
    BY Zenon, <1>11, <1>12, ColumnNames DEF GrantedColumns, RequestColumns, AuthorizationColumns
  <2>5. \A c \in {"result", "target_rejection", "write_strategy", "apply_accepted",
                  "requested_generation", "apply_resource_version", "preflight_uid",
                  "preflight_resource_version", "target_uid", "target_resource_version",
                  "receipt_bytes", "receipt_digest", "receipt_key_id"} : next[c] = None
    BY ZenonT(30), <1>11, <1>12, ColumnNames DEF GrantedColumns, RequestColumns,
        AuthorizationColumns
  <2>6. QED
    BY Zenon, <2>3, <2>4, <2>5
<1>15. \A c \in Columns : next[c] \in Cells /\ next[c] # Oversized
  <2>1. /\ "requested" \in Cells /\ "requested" # Oversized /\ 0 \in Cells /\ 0 # Oversized
    BY TextIsFact, ValueKinds DEF Words, OperationStates
  <2>2. \A c \in GrantedColumns : next[c] \in Cells /\ next[c] # Oversized
    BY Zenon, <1>2, <1>12, TextIsFact
  <2>3. \A c \in {"approved_uid", "approved_resource_version"} :
           next[c] \in Cells /\ next[c] # Oversized
    BY Zenon, <1>2, <1>13, TextIsFact
  <2>4. "operation_id" \in GrantedColumns
    BY Zenon DEF GrantedColumns, RequestColumns
  <2>5. QED
    BY <1>11, <1>12, <2>1, <2>2, <2>3, <2>4, TextIsFact
<1>16. Identified(next)
  <2>1. CellColumns \subseteq Columns
    BY Zenon, ColumnNames, StatedColumns DEF CellColumns
  <2>2. "operation_id" \in GrantedColumns
    BY DEF GrantedColumns, RequestColumns
  <2>3. QED
    BY Zenon, <1>2, <1>12, <1>15, <2>1, <2>2 DEF Identified
<1>17. /\ ApprovedTarget(next) = request.approved /\ PreflightTarget(next) = None
       /\ AttemptTarget(next) = None /\ ResponseOf(next) = None
       /\ SnapshotTarget(next.approved_uid, next.approved_resource_version)
       /\ SnapshotTarget(next.preflight_uid, next.preflight_resource_version)
  <2>1. /\ ApprovedTarget(next) = request.approved
        /\ SnapshotTarget(next.approved_uid, next.approved_resource_version)
    BY Zenon, <1>2, <1>13, TextIsFact, NoneIsNothing DEF ApprovedTarget, Target, SnapshotTarget
  <2>2. QED
    BY ZenonT(30), <1>14, <2>1 DEF PreflightTarget, AttemptTarget, Target, ResponseOf,
        SnapshotTarget
<1>18. /\ \A c \in RequestColumns : next[c] = request[c] /\ IsFact(next[c])
       /\ \A c \in AuthorizationColumns :
             next[c] = request[c] /\ IsFact(next[c]) /\ next[c] # None
  BY Zenon, <1>2, <1>12, TextIsFact, NoneIsNothing DEF GrantedColumns
<1>19. WellFormed(next)
  <2>1. SnapshotAuthorization(next) /\ HasAuthorization(next)
    BY Zenon, <1>18 DEF SnapshotAuthorization, HasAuthorization
  <2>2. SnapshotAttempt(next) /\ SnapshotReceipt(next)
    BY Zenon, <1>14 DEF SnapshotAttempt, SnapshotReceipt
  <2>3. ApprovalIsKept(next) /\ PreflightIsExplained(next)
    <3>1. None # "stale_approval"
      BY Zenon, NoneIsNothing DEF Words, RejectionWords
    <3>2. QED
      BY Zenon, <1>12, <1>14, <1>17, <2>1, <3>1 DEF ApprovalIsKept, PreflightIsExplained
  <2>4. next.state \notin FrozenStates /\ PhaseFits(next)
    BY Zenon, <1>12, <1>14, <1>17 DEF FrozenStates, PhaseFits, HasReceipt
  <2>5. QED
    BY Zenon, <1>14, <1>17, <1>18, <2>1, <2>2, <2>3, <2>4 DEF WellFormed
<1>20. Decode(next) = then
  <2>1. Decode(next) = OperationOf(next)
    BY Zenon, <1>15, <1>19, BoundsAreSizes DEF Decode
  <2>2. next.state \notin FrozenStates /\ ~HasReceipt(next)
    BY Zenon, <1>12, <1>14 DEF FrozenStates, HasReceipt
  <2>3. /\ Restricted(next, RequestColumns) = Restricted(request, RequestColumns)
        /\ Restricted(next, AuthorizationColumns) = Restricted(request, AuthorizationColumns)
    BY Zenon, <1>18 DEF Restricted
  <2>4. then = [f \in OperationFields |-> then[f]]
    BY ZenonT(30), <1>6 DEF OperationFields
  <2>5. OperationOf(next) = then
    BY Zenon, <1>6, <1>12, <1>14, <1>17, <2>2, <2>3, <2>4, UnobservedOperation, SameOperation
  <2>6. QED
    BY Zenon, <2>1, <2>5
<1>21. QED
  BY ZenonT(30), <1>7, <1>16, <1>20, NextReads

\* The generation that freezing keeps, of the generation answered.
FrozenFrom(generation, f, o, i, u, g) ==
    generation = RequestedGeneration(f, o, i, [uid |-> u, generation |-> g])

\* Two generations of a target conclude the same.
ConcludeAlike(f, o, i, u, generation, g) ==
    ObservationResult(f, o, i, [uid |-> u, generation |-> generation]) =
       ObservationResult(f, o, i, [uid |-> u, generation |-> g])

\* The generation that is frozen concludes what the generation answered did.
LEMMA FrozenConcludes ==
    ASSUME NEW f, NEW o, NEW i, NEW u, NEW g, NEW generation,
           FrozenFrom(generation, f, o, i, u, g)
    PROVE  ConcludeAlike(f, o, i, u, generation, g)
<1>1. RequestedGeneration(f, o, i, [uid |-> u, generation |-> generation]) = generation
  BY Zenon DEF FrozenFrom, RequestedGeneration
<1>2. ReceiverEstablishesGeneration(f, o, i, [uid |-> u, generation |-> generation]) <=>
         ReceiverEstablishesGeneration(f, o, i, [uid |-> u, generation |-> g])
  BY ZenonT(30), <1>1 DEF FrozenFrom, ReceiverEstablishesGeneration
<1>3. QED
  BY Zenon, <1>2 DEF ConcludeAlike, ObservationResult

\* The parts of an operation with an observation and no receipt.
LEMMA ObservedOperation ==
    ASSUME NEW r, r.state \in FrozenStates
    PROVE  /\ OperationOf(r).state = r.state
           /\ OperationOf(r).request = Restricted(r, RequestColumns)
           /\ OperationOf(r).authorization = Restricted(r, AuthorizationColumns)
           /\ OperationOf(r).approved = ApprovedTarget(r)
           /\ OperationOf(r).preflight = PreflightTarget(r)
           /\ OperationOf(r).rejection = r.target_rejection
           /\ OperationOf(r).target = AttemptTarget(r)
           /\ OperationOf(r).response = ResponseOf(r)
           /\ OperationOf(r).statement = StatementOf(r)
           /\ OperationOf(r).receipt =
                 IF HasReceipt(r) THEN [bytes |-> r.receipt_bytes, key |-> r.receipt_key_id]
                 ELSE None
           /\ OperationOf(r) = [f \in OperationFields |-> OperationOf(r)[f]]
  BY ZenonT(30) DEF OperationOf, OperationFields

\* The attempt a started operation holds.
LEMMA StartedFacts ==
    ASSUME NEW r, Identified(r), WellFormed(r), r.state = "apply_started"
    PROVE  /\ r.write_strategy = WRITE_STRATEGY
           /\ IsFact(r.target_uid) /\ IsFact(r.target_resource_version)
           /\ AttemptTarget(r) =
                 [uid |-> r.target_uid, version |-> r.target_resource_version]
           /\ IF r.apply_accepted = None
              THEN /\ ResponseOf(r) = None /\ r.requested_generation = None
                   /\ r.apply_resource_version = None
              ELSE /\ ResponseOf(r) # None /\ IsFact(r.apply_resource_version)
                   /\ ResponseOf(r) = [accepted |-> r.apply_accepted,
                                       generation |-> r.requested_generation,
                                       version |-> r.apply_resource_version]
                   /\ r.requested_generation # None => r.requested_generation >= 0
<1>1. SnapshotAttempt(r) /\ AttemptTarget(r) # None /\ r.apply_accepted \in {None, 0, 1}
  BY ZenonT(30), UnobservedFacts DEF WellFormed
<1>2. r.target_uid # None
  BY Zenon, <1>1 DEF AttemptTarget, Target
<1>3. /\ r.write_strategy = WRITE_STRATEGY
      /\ IsFact(r.target_uid) /\ IsFact(r.target_resource_version)
      /\ \/ /\ r.apply_accepted = None /\ r.apply_resource_version = None
            /\ r.requested_generation = None
         \/ /\ r.apply_accepted # None /\ IsFact(r.apply_resource_version)
            /\ r.requested_generation # None => r.requested_generation >= 0
  BY Zenon, <1>1, <1>2 DEF SnapshotAttempt
<1>4. AttemptTarget(r) = [uid |-> r.target_uid, version |-> r.target_resource_version]
  BY Zenon, <1>2 DEF AttemptTarget, Target
<1>5. r.requested_generation \in Cells /\ r.apply_resource_version \in Cells
  BY Zenon DEF Identified, CellColumns, StatementColumns
<1>6. r.apply_accepted # None =>
         /\ ResponseOf(r) = [accepted |-> r.apply_accepted,
                             generation |-> r.requested_generation,
                             version |-> r.apply_resource_version]
         /\ ResponseOf(r) # None
  BY ZenonT(30), <1>1, <1>5, NoneIsNothing DEF ResponseOf
<1>7. QED
  BY ZenonT(30), <1>3, <1>4, <1>6 DEF ResponseOf

\* What an observation brings is within the grammar of its columns.
LEMMA ObservationFacts ==
    ASSUME NEW o \in Observations
    PROVE  /\ DOMAIN o = ReceiverColumns
           /\ \A c \in ReceiverColumns : o[c] \in Cells /\ o[c] # Oversized
           /\ o.current_generation # None => o.current_generation >= 0
           /\ \A c \in Replicas : o[c] # None => o[c] <= I32Max
           /\ \A c \in ReceiverColumns :
                 o[c] # None =>
                    IF c \in Replicas \cup Generations THEN o[c] >= 0 ELSE IsFact(o[c])
<1>1. /\ DOMAIN o = ReceiverColumns
      /\ \A c \in ReceiverColumns :
            o[c] # None => IF c \in Replicas THEN o[c] \in 0 .. I32Max
                           ELSE IF c \in Generations THEN o[c] \in Nat
                           ELSE o[c] \in STRING
  BY Zenon, ObservationsAssumption
<1>2. \A n \in Nat : n >= 0 /\ n \in Cells /\ n # Oversized
  BY TextIsFact, ValueKinds
<1>3. \A n \in 0 .. I32Max : n \in Nat /\ n <= I32Max
  BY BoundsAssumption
<1>4. Replicas \subseteq ReceiverColumns /\ "current_generation" \in ReceiverColumns
      /\ "current_generation" \in Generations /\ "current_generation" \notin Replicas
  BY DEF Replicas, ReceiverColumns, Generations
<1>5. \A c \in ReceiverColumns : o[c] \in Cells /\ o[c] # Oversized
  BY Zenon, <1>1, <1>2, <1>3, TextIsFact
<1>6. \A c \in ReceiverColumns :
         o[c] # None => IF c \in Replicas \cup Generations THEN o[c] >= 0 ELSE IsFact(o[c])
  BY ZenonT(30), <1>1, <1>2, <1>3, TextIsFact
<1>7. /\ o.current_generation # None => o.current_generation >= 0
      /\ \A c \in Replicas : o[c] # None => o[c] <= I32Max
  BY Zenon, <1>1, <1>2, <1>3, <1>4
<1>8. QED
  BY ZenonT(30), <1>1, <1>5, <1>6, <1>7

\* freeze_observation.
LEMMA FreezeReads ==
    ASSUME HandleShape, RecordInv, NEW h \in Handles, NEW observation \in Observations,
           FreezeObservation(h, observation)
    PROVE  RecordInv'
<1>1. "apply_started" \in Words
  BY DEF Words, OperationStates
<1>2. /\ row # NoRow /\ Identified(row) /\ InBounds(row) /\ WellFormed(row)
      /\ row.state = "apply_started" /\ handle[h].loaded = OperationOf(row)
  BY Zenon, <1>1, BoundReads DEF FreezeObservation
<1>3. PICK operation : operation = OperationOf(row)
  OBVIOUS
<1>4. row.state \notin FrozenStates /\ ~HasReceipt(row)
  BY Zenon, <1>2, UnobservedFacts DEF FrozenStates, HasReceipt
<1>5. /\ operation.target = [uid |-> row.target_uid, version |-> row.target_resource_version]
      /\ operation.response = ResponseOf(row)
      /\ operation.request = Restricted(row, RequestColumns)
      /\ operation.authorization = Restricted(row, AuthorizationColumns)
      /\ operation.approved = ApprovedTarget(row)
      /\ operation.preflight = PreflightTarget(row)
      /\ operation.rejection = row.target_rejection
      /\ operation.receipt = None /\ operation = [f \in OperationFields |-> operation[f]]
  BY Zenon, <1>2, <1>3, <1>4, UnobservedOperation, StartedFacts
<1>6. PICK outcome :
         outcome = [uid |-> operation.target.uid,
                    generation |-> IF operation.response = None THEN None
                                   ELSE operation.response.generation]
  BY Zenon
<1>7. outcome = [uid |-> row.target_uid, generation |-> row.requested_generation]
  BY <1>2, <1>5, <1>6, StartedFacts
<1>8. PICK image : image = operation.request["immutable_image_digest"]
  OBVIOUS
<1>9. image = row.immutable_image_digest
  BY <1>5, <1>8 DEF Restricted, RequestColumns
<1>10. PICK facts : facts = FactsOf(observation)
  BY Zenon
<1>11. PICK generation : generation = RequestedGeneration(facts, Id, image, outcome)
  BY Zenon
<1>12. PICK result : result = ResultAsSql[ObservationResult(facts, Id, image, outcome)]
  OBVIOUS
<1>13. PICK marks : marks = [state |-> "receiver_observed", result |-> result,
                             requested_generation |-> generation]
  BY Zenon
<1>14. PICK changes : changes = Set(observation, marks)
  OBVIOUS
<1>15. PICK response : response = IF operation.response = None THEN None
                                  ELSE [operation.response EXCEPT !.generation = generation]
  BY Zenon
<1>16. PICK statement :
          statement = StatementFrom(operation, observation, generation, result)
  OBVIOUS
<1>17. PICK then : then = [operation EXCEPT !.state = "receiver_observed",
                              !.response = response, !.statement = statement]
  BY Zenon
<1>18. Pend(h, row, changes, then)
  BY Zenon, <1>2, <1>3, <1>6, <1>8, <1>10, <1>11, <1>12, <1>13, <1>14, <1>15, <1>16, <1>17
  DEF FreezeObservation
<1>19. /\ generation \in Cells /\ generation # Oversized
       /\ ResponseOf(row) # None /\ generation # None => generation >= 0
  <2>1. generation \in {None, row.requested_generation, observation.current_generation}
    BY ZenonT(30), <1>7, <1>10, <1>11 DEF RequestedGeneration, FactsOf
  <2>2. row.requested_generation \in Cells /\ row.requested_generation # Oversized
    BY Zenon, <1>2, BoundsAreSizes, ColumnNames DEF Identified, CellColumns, StatementColumns
  <2>3. /\ observation.current_generation \in Cells
        /\ observation.current_generation # Oversized
        /\ observation.current_generation # None => observation.current_generation >= 0
    BY ObservationFacts DEF ReceiverColumns
  <2>4. ResponseOf(row) # None /\ row.requested_generation # None =>
           row.requested_generation >= 0
    BY ZenonT(30), <1>2, StartedFacts
  <2>5. QED
    BY <2>1, <2>2, <2>3, <2>4, TextIsFact
<1>20. /\ result \in {"SUCCEEDED", "FAILED", "UNKNOWN"}
       /\ result \in {ResultAsSql[r] : r \in OperationResults}
       /\ result \in Cells /\ result # Oversized
       /\ "receiver_observed" # Oversized
  <2>1. PICK conclusion : conclusion = ObservationResult(facts, Id, image, outcome)
    OBVIOUS
  <2>2. conclusion \in OperationResults
    BY Zenon, <2>1 DEF ObservationResult, OperationResults
  <2>3. result = ResultAsSql[conclusion]
    BY Zenon, <1>12, <2>1
  <2>4. result \in {"SUCCEEDED", "FAILED", "UNKNOWN"}
    <3>1. /\ ResultAsSql["succeeded"] = "SUCCEEDED" /\ ResultAsSql["failed"] = "FAILED"
          /\ ResultAsSql["unknown"] = "UNKNOWN"
      BY Zenon DEF ResultAsSql
    <3>2. conclusion = "succeeded" \/ conclusion = "failed" \/ conclusion = "unknown"
      BY Zenon, <2>2 DEF OperationResults
    <3>3. QED
      BY Zenon, <2>3, <3>1, <3>2
  <2>5. result \in Words /\ "receiver_observed" \in Words
    BY <2>4 DEF Words, OperationStates
  <2>6. QED
    BY Zenon, <2>2, <2>3, <2>4, <2>5, TextIsFact, ValueKinds
<1>21. DOMAIN changes = ReceiverColumns \cup {"state", "result", "requested_generation"}
  BY ZenonT(30), <1>13, <1>14, ObservationFacts DEF Set
<1>22. /\ changes["state"] = "receiver_observed" /\ changes["result"] = result
       /\ changes["requested_generation"] = generation
       /\ \A c \in ReceiverColumns : changes[c] = observation[c]
  <2>1. ReceiverColumns \cap {"state", "result", "requested_generation"} = {}
    BY Zenon DEF ReceiverColumns
  <2>2. QED
    BY Zenon, <1>13, <1>14, <2>1, ObservationFacts DEF Set
<1>23. /\ DOMAIN changes \subseteq Columns /\ "operation_id" \notin DOMAIN changes
       /\ \A c \in DOMAIN changes \cap CellColumns : changes[c] \in Cells
       /\ \A c \in DOMAIN changes : changes[c] # Oversized
  <2>1. DOMAIN changes \subseteq Columns /\ "operation_id" \notin DOMAIN changes
    BY <1>21, ColumnNames DEF ReceiverColumns
  <2>2. "receiver_observed" \in Cells
    BY Zenon, TextIsFact DEF Words, OperationStates
  <2>3. QED
    BY Zenon, <1>19, <1>20, <1>21, <1>22, <2>1, <2>2, ObservationFacts
<1>24. PICK next : next = Set(row, changes)
  OBVIOUS
<1>25. /\ Kept(next, row, ReceiverColumns \cup {"state", "result", "requested_generation"})
       /\ next.state = "receiver_observed" /\ next.result = result
       /\ next.requested_generation = generation
       /\ \A c \in ReceiverColumns : next[c] = observation[c]
  <2>1. /\ Kept(next, row, DOMAIN changes)
        /\ \A c \in DOMAIN changes : next[c] = changes[c]
    BY <1>2, <1>23, <1>24, SetKeeps
  <2>2. QED
    BY Zenon, <1>21, <1>22, <2>1
<1>26. Identified(next)
  BY Zenon, <1>2, <1>23, <1>24, SetKeeps
<1>27. InBounds(next)
  <2>1. \A c \in DOMAIN changes : next[c] # Oversized
    BY Zenon, <1>21, <1>22, <1>23, <1>25
  <2>2. QED
    BY Zenon, <1>2, <1>21, <1>25, <2>1, BoundsAreSizes DEF Kept
<1>28. /\ next.apply_attempted = row.apply_attempted
       /\ next.apply_accepted = row.apply_accepted
       /\ next.write_strategy = row.write_strategy
       /\ next.apply_resource_version = row.apply_resource_version
       /\ next.target_rejection = row.target_rejection
       /\ next.operation_id = row.operation_id
       /\ next.immutable_image_digest = row.immutable_image_digest
  <2> DEFINE changed == ReceiverColumns \cup {"state", "result", "requested_generation"}
  <2>1. /\ "write_strategy" \notin changed /\ "apply_attempted" \notin changed
        /\ "apply_accepted" \notin changed /\ "apply_resource_version" \notin changed
        /\ "target_rejection" \notin changed /\ "operation_id" \notin changed
        /\ "immutable_image_digest" \notin changed
    BY DEF ReceiverColumns
  <2> HIDE DEF changed
  <2>2. Kept(next, row, changed)
    BY Zenon, <1>25 DEF changed
  <2>3. QED
    BY Zenon, <2>1, <2>2, KeptFields
<1>29. /\ next.approved_uid = row.approved_uid
       /\ next.approved_resource_version = row.approved_resource_version
       /\ next.preflight_uid = row.preflight_uid
       /\ next.preflight_resource_version = row.preflight_resource_version
       /\ next.target_uid = row.target_uid
       /\ next.target_resource_version = row.target_resource_version
       /\ next.receipt_bytes = row.receipt_bytes
       /\ next.receipt_digest = row.receipt_digest
       /\ next.receipt_key_id = row.receipt_key_id
  <2> DEFINE changed == ReceiverColumns \cup {"state", "result", "requested_generation"}
  <2>1. /\ "approved_uid" \notin changed /\ "approved_resource_version" \notin changed
        /\ "preflight_uid" \notin changed /\ "preflight_resource_version" \notin changed
        /\ "target_uid" \notin changed /\ "target_resource_version" \notin changed
        /\ "receipt_bytes" \notin changed /\ "receipt_digest" \notin changed
        /\ "receipt_key_id" \notin changed
    BY DEF ReceiverColumns
  <2> HIDE DEF changed
  <2>2. Kept(next, row, changed)
    BY Zenon, <1>25 DEF changed
  <2>3. QED
    BY Zenon, <2>1, <2>2, KeptTargets
<1>30. /\ \A c \in RequestColumns : next[c] = row[c]
       /\ \A c \in AuthorizationColumns : next[c] = row[c]
  BY <1>25, KeptGroups DEF ReceiverColumns, RequestColumns, AuthorizationColumns
<1>31. /\ ApprovedTarget(next) = ApprovedTarget(row)
       /\ PreflightTarget(next) = PreflightTarget(row)
       /\ AttemptTarget(next) = AttemptTarget(row)
       /\ Restricted(next, RequestColumns) = Restricted(row, RequestColumns)
       /\ Restricted(next, AuthorizationColumns) = Restricted(row, AuthorizationColumns)
  BY ZenonT(30), <1>29, <1>30 DEF ApprovedTarget, PreflightTarget, AttemptTarget, Restricted
<1>32. /\ SnapshotAuthorization(next) /\ HasAuthorization(next)
       /\ SnapshotAuthorization(row) /\ HasAuthorization(row)
  BY Zenon, <1>2, <1>30, UnobservedFacts DEF SnapshotAuthorization, HasAuthorization
<1>33. SnapshotAttempt(next)
  <2>1. CASE row.apply_accepted = None
    BY Zenon, <1>2, <1>25, <1>28, <1>29, <2>1, StartedFacts DEF SnapshotAttempt
  <2>2. CASE row.apply_accepted # None
    BY Zenon, <1>2, <1>19, <1>25, <1>28, <1>29, <2>2, StartedFacts DEF SnapshotAttempt
  <2>3. QED
    BY Zenon, <2>1, <2>2
<1>34. ApprovalIsKept(next) /\ PreflightIsExplained(next)
  <2>1. row.target_rejection = None /\ None # "stale_approval" /\ ApprovalIsKept(row)
    BY ZenonT(30), <1>2, UnobservedFacts, NoneIsNothing DEF Words, RejectionWords
  <2>2. QED
    BY Zenon, <1>25, <1>28, <1>31, <1>32, <2>1 DEF ApprovalIsKept, PreflightIsExplained
<1>35. StatementIsValid(next)
  <2>1. ApprovedTarget(next) # None => AttemptTarget(next) = ApprovedTarget(next)
    BY ZenonT(30), <1>2, <1>31, UnobservedFacts DEF ApprovalIsKept
  <2>2. ObservationIsValid(next)
    <3>1. /\ next.rollout_condition_type = observation.rollout_condition_type
          /\ next.rollout_condition_status = observation.rollout_condition_status
          /\ next.rollout_condition_reason = observation.rollout_condition_reason
      BY ZenonT(30), <1>25 DEF ReceiverColumns
    <3>2. QED
      BY ZenonT(30), <1>25, <3>1, ObservationFacts,
          ObservationsAssumption DEF ObservationIsValid
  <2>3. \A c \in Replicas : next[c] # None => next[c] <= I32Max
    BY <1>25, ObservationFacts DEF Replicas, ReceiverColumns
  <2>4. FactsOf(next) = facts
    <3>1. \A c \in {"receiver_uid", "receiver_image", "receiver_operation_marker",
                    "current_generation", "observed_generation",
                    "receiver_resource_version", "desired_replicas", "updated_replicas",
                    "available_replicas", "unavailable_replicas", "rollout_condition_type",
                    "rollout_condition_status", "rollout_condition_reason"} :
             next[c] = observation[c]
      BY ZenonT(30), <1>25 DEF ReceiverColumns
    <3>2. QED
      BY ZenonT(30), <1>10, <3>1 DEF FactsOf, ConditionOf
  <2>5. next.result =
           ResultAsSql[ObservationResult(FactsOf(next), next.operation_id,
                          next.immutable_image_digest,
                          [uid |-> next.target_uid, generation |-> next.requested_generation])]
    <3>1. next.operation_id = Id /\ next.immutable_image_digest = image
          /\ next.target_uid = row.target_uid
      BY Zenon, <1>2, <1>9, <1>28, <1>29 DEF Identified
    <3>2. ObservationResult(facts, Id, image,
                            [uid |-> row.target_uid, generation |-> generation])
             = ObservationResult(facts, Id, image, outcome)
      <4>1. generation =
               RequestedGeneration(facts, Id, image, [uid |-> row.target_uid,
                                      generation |-> row.requested_generation])
        BY Zenon, <1>7, <1>11
      <4>2. ObservationResult(facts, Id, image,
                              [uid |-> row.target_uid, generation |-> generation])
               = ObservationResult(facts, Id, image, [uid |-> row.target_uid,
                                      generation |-> row.requested_generation])
        <5>1. PICK u, g : u = row.target_uid /\ g = row.requested_generation
          BY Zenon
        <5>2. FrozenFrom(generation, facts, Id, image, u, g)
          BY Zenon, <4>1, <5>1 DEF FrozenFrom
        <5>3. ConcludeAlike(facts, Id, image, u, generation, g)
          BY Zenon, <5>2, FrozenConcludes
        <5>4. QED
          BY Zenon, <5>1, <5>3 DEF ConcludeAlike
      <4>3. QED
        BY Zenon, <1>7, <4>2
    <3>3. QED
      BY Zenon, <1>12, <1>25, <2>4, <3>1, <3>2
  <2>6. /\ next.write_strategy = WRITE_STRATEGY
        /\ IsFact(next.target_uid) /\ IsFact(next.target_resource_version)
    BY Zenon, <1>2, <1>28, <1>29, StartedFacts
  <2>7. QED
    BY Zenon, <1>32, <2>1, <2>2, <2>3, <2>5, <2>6 DEF StatementIsValid
<1>36. WellFormed(next)
  <2>1. /\ next.apply_attempted = 1 /\ AttemptTarget(next) # None
        /\ next.target_rejection = None /\ ~HasReceipt(next) /\ SnapshotReceipt(next)
    BY Zenon, <1>2, <1>28, <1>29, <1>31, UnobservedFacts DEF HasReceipt, SnapshotReceipt
  <2>2. next.state \in FrozenStates /\ PhaseFits(next)
    BY Zenon, <1>25, <2>1 DEF FrozenStates, PhaseFits
  <2>3. /\ next.apply_accepted \in {None, 0, 1}
        /\ SnapshotTarget(next.approved_uid, next.approved_resource_version)
        /\ SnapshotTarget(next.preflight_uid, next.preflight_resource_version)
        /\ \A c \in RequestColumns : IsFact(next[c])
    BY Zenon, <1>2, <1>28, <1>29, <1>30 DEF WellFormed
  <2>4. QED
    BY Zenon, <1>20, <1>25, <1>32, <1>33, <1>34, <1>35, <2>1, <2>2, <2>3 DEF WellFormed
<1>37. ResponseOf(next) = response
  <2>1. CASE row.apply_accepted = None
    BY Zenon, <1>2, <1>5, <1>15, <1>28, <2>1, StartedFacts DEF ResponseOf
  <2>2. CASE row.apply_accepted # None
    BY <1>2, <1>5, <1>15, <1>25, <1>28, <2>2, StartedFacts DEF ResponseOf
  <2>3. QED
    BY Zenon, <2>1, <2>2
<1>38. StatementOf(next) = statement
  <2>1. \A c \in ReceiverColumns : next[c] = statement[c]
    <3>1. \A c \in ReceiverColumns :
             /\ c \notin RequestColumns /\ c \notin AuthorizationColumns
             /\ c \notin {"approved_uid", "approved_resource_version", "write_strategy",
                          "target_uid", "target_resource_version", "requested_generation",
                          "result"}
      BY Zenon DEF ReceiverColumns, RequestColumns, AuthorizationColumns
    <3>2. QED
      BY Zenon, <1>16, <1>25, <3>1 DEF StatementFrom, StatedValue, StatementColumns
  <2>2. \A c \in RequestColumns : next[c] = statement[c]
    BY ZenonT(30), <1>5, <1>16, <1>30
    DEF StatementFrom, StatedValue, StatementColumns, RequestColumns, ReceiverColumns,
       Restricted
  <2>3. \A c \in AuthorizationColumns : next[c] = statement[c]
    BY <1>5, <1>16, <1>30
    DEF StatementFrom, StatedValue, StatementColumns, AuthorizationColumns, RequestColumns,
        ReceiverColumns, Restricted
  <2>4. /\ next.write_strategy = statement["write_strategy"]
        /\ next.target_uid = statement["target_uid"]
        /\ next.target_resource_version = statement["target_resource_version"]
        /\ next.requested_generation = statement["requested_generation"]
        /\ next.result = statement["result"]
    BY <1>2, <1>5, <1>16, <1>25, <1>28, <1>29, StartedFacts
    DEF StatementFrom, StatedValue, StatementColumns, AuthorizationColumns, RequestColumns,
        ReceiverColumns
  <2>5. /\ next.approved_uid = statement["approved_uid"]
        /\ next.approved_resource_version = statement["approved_resource_version"]
    <3>1. /\ SnapshotTarget(row.approved_uid, row.approved_resource_version)
          /\ row.approved_uid \in Cells /\ row.approved_resource_version \in Cells
      BY <1>2 DEF WellFormed, Identified, CellColumns, StatementColumns
    <3>2. IF row.approved_uid = None
          THEN ApprovedTarget(row) = None /\ row.approved_resource_version = None
          ELSE /\ ApprovedTarget(row) # None
               /\ ApprovedTarget(row).uid = row.approved_uid
               /\ ApprovedTarget(row).version = row.approved_resource_version
      BY Zenon, <3>1, NoneIsNothing DEF ApprovedTarget, Target, SnapshotTarget, IsFact
    <3>3. /\ statement["approved_uid"] =
                IF operation.approved = None THEN None ELSE operation.approved.uid
          /\ statement["approved_resource_version"] =
                IF operation.approved = None THEN None ELSE operation.approved.version
      BY Zenon, <1>16 DEF StatementFrom, StatedValue, StatementColumns, AuthorizationColumns,
          RequestColumns,
                   ReceiverColumns
    <3>4. QED
      BY Zenon, <1>5, <1>29, <3>2, <3>3
  <2>6. \A c \in StatementColumns : next[c] = statement[c]
    BY Zenon, <2>1, <2>2, <2>3, <2>4, <2>5 DEF StatementColumns
  <2>7. statement = [c \in StatementColumns |-> statement[c]]
    BY Zenon, <1>16 DEF StatementFrom
  <2>8. QED
    BY Zenon, <2>6, <2>7 DEF StatementOf, Restricted
<1>39. Decode(next) = then
  <2>1. Decode(next) = OperationOf(next)
    BY Zenon, <1>27, <1>36 DEF Decode
  <2>2. next.state \in FrozenStates /\ ~HasReceipt(next)
    BY ZenonT(30), <1>4, <1>25, <1>29 DEF FrozenStates, HasReceipt
  <2>3. /\ then = [f \in OperationFields |-> then[f]]
        /\ then.state = "receiver_observed" /\ then.response = response
        /\ then.statement = statement
        /\ \A f \in OperationFields \ {"state", "response", "statement"} :
              then[f] = operation[f]
    BY ZenonT(30), <1>5, <1>17 DEF OperationFields
  <2>4. AttemptTarget(row) = operation.target
    BY Zenon, <1>2, <1>5, StartedFacts
  <2>5. OperationOf(next) = then
    <3>1. PICK read : read = OperationOf(next)
      OBVIOUS
    <3>2. /\ read = [f \in OperationFields |-> read[f]]
          /\ read.state = next.state /\ read.response = response
          /\ read.request = operation.request
          /\ read.authorization = operation.authorization
          /\ read.approved = operation.approved /\ read.preflight = operation.preflight
          /\ read.rejection = operation.rejection /\ read.target = operation.target
          /\ read.statement = statement /\ read.receipt = operation.receipt
      BY ZenonT(30), <1>5, <1>28, <1>31, <1>37, <1>38, <2>2, <2>4, <3>1, ObservedOperation
    <3>3. read = then
      BY <1>25, <2>3, <3>2, SameOperation DEF OperationFields
    <3>4. QED
      BY Zenon, <3>1, <3>3
  <2>6. QED
    BY Zenon, <2>1, <2>5
<1>40. QED
  BY Zenon, <1>2, <1>18, <1>23, <1>24, <1>39, PendReads

\* commit_receipt.
LEMMA CommitReads ==
    ASSUME HandleShape, RecordInv, NEW h \in Handles, NEW key \in ReceiptKeys,
           CommitReceipt(h, key)
    PROVE  RecordInv'
<1>1. "receiver_observed" \in Words
  BY Zenon DEF Words, OperationStates
<1>2. /\ row # NoRow /\ Identified(row) /\ InBounds(row) /\ WellFormed(row)
      /\ row.state = "receiver_observed" /\ handle[h].loaded = OperationOf(row)
  BY <1>1, BoundReads DEF CommitReceipt
<1>3. PICK operation : operation = OperationOf(row)
  OBVIOUS
<1>4. PICK bytes : bytes = [key |-> key, statement |-> operation.statement]
  BY Zenon
<1>5. PICK changes : changes = [state |-> "finalized", receipt_bytes |-> bytes,
                                receipt_digest |-> DigestOf(bytes), receipt_key_id |-> key]
  BY Zenon
<1>6. PICK then : then = [operation EXCEPT !.state = "finalized",
                             !.receipt = [bytes |-> bytes, key |-> key]]
  BY Zenon
<1>7. Pend(h, row, changes, then)
  BY Zenon, <1>2, <1>3, <1>4, <1>5, <1>6 DEF CommitReceipt
<1>8. row.state \in FrozenStates
  BY Zenon, <1>2 DEF FrozenStates
<1>9. operation.statement = StatementOf(row)
  BY Zenon, <1>3, <1>8, ObservedOperation
<1>10. /\ bytes # None /\ bytes # Other /\ bytes # Oversized
       /\ DigestOf(bytes) # None /\ DigestOf(bytes) # Oversized
       /\ key # None /\ key # Oversized /\ "finalized" # Oversized
  <2>1. StatementOf(row) \in [StatementColumns -> Cells]
    BY Zenon, <1>2 DEF StatementOf, Restricted, Identified, CellColumns
  <2>2. key \in STRING
    BY Zenon, InputsAssumption
  <2>3. bytes \in Receipts
    BY Zenon, <1>4, <1>9, <2>1, <2>2 DEF Receipts
  <2>4. DigestOf(bytes) \in Digests
    BY Zenon, <2>3 DEF DigestOf, Digests
  <2>5. "finalized" # Oversized
    BY TextIsFact, ValueKinds DEF Words, OperationStates
  <2>6. QED
    BY Zenon, <2>2, <2>3, <2>4, <2>5, NoneAssumption, OversizedAssumption, TextIsFact
<1>11. DOMAIN changes = {"state", "receipt_bytes", "receipt_digest", "receipt_key_id"}
  BY Zenon, <1>5
<1>12. /\ DOMAIN changes \subseteq Columns /\ "operation_id" \notin DOMAIN changes
       /\ DOMAIN changes \cap CellColumns = {} /\ DOMAIN changes \cap StatementColumns = {}
  <2>1. DOMAIN changes \subseteq Columns /\ "operation_id" \notin DOMAIN changes
    BY Zenon, <1>11, ColumnNames
  <2>2. DOMAIN changes \cap CellColumns = {}
    BY <1>11 DEF CellColumns, StatementColumns, RequestColumns, AuthorizationColumns,
                 ReceiverColumns
  <2>3. QED
    BY Zenon, <2>1, <2>2 DEF CellColumns
<1>13. PICK next : next = Set(row, changes)
  OBVIOUS
<1>14. /\ Kept(next, row, DOMAIN changes)
       /\ next.state = "finalized" /\ next.receipt_bytes = bytes
       /\ next.receipt_digest = DigestOf(bytes) /\ next.receipt_key_id = key
  <2>1. /\ Kept(next, row, DOMAIN changes)
        /\ \A c \in DOMAIN changes : next[c] = changes[c]
    <3>1. \A c \in DOMAIN changes \cap CellColumns : changes[c] \in Cells
      BY Zenon, <1>12
    <3>2. Identified(row) /\ DOMAIN changes \subseteq Columns
          /\ "operation_id" \notin DOMAIN changes
      BY Zenon, <1>2, <1>12
    <3>3. /\ Kept(Set(row, changes), row, DOMAIN changes)
          /\ \A c \in DOMAIN changes : Set(row, changes)[c] = changes[c]
      BY Zenon, <3>1, <3>2, SetKeeps
    <3>4. QED
      BY Zenon, <1>13, <3>3
  <2>2. QED
    BY ZenonT(30), <1>5, <1>11, <2>1
<1>15. \A c \in StatementColumns : next[c] = row[c]
  BY Zenon, <1>12, <1>14, StatedColumns DEF Kept
<1>16. /\ next.write_strategy = row.write_strategy /\ next.result = row.result
       /\ next.requested_generation = row.requested_generation
       /\ next.apply_attempted = row.apply_attempted
       /\ next.apply_accepted = row.apply_accepted
       /\ next.apply_resource_version = row.apply_resource_version
       /\ next.target_rejection = row.target_rejection
       /\ next.operation_id = row.operation_id
       /\ next.immutable_image_digest = row.immutable_image_digest
  <2> DEFINE changed == {"state", "receipt_bytes", "receipt_digest", "receipt_key_id"}
  <2>1. /\ "write_strategy" \notin changed /\ "apply_attempted" \notin changed
        /\ "apply_accepted" \notin changed /\ "apply_resource_version" \notin changed
        /\ "target_rejection" \notin changed /\ "operation_id" \notin changed
        /\ "immutable_image_digest" \notin changed /\ "result" \notin changed
        /\ "requested_generation" \notin changed
    OBVIOUS
  <2> HIDE DEF changed
  <2>2. Kept(next, row, changed)
    BY Zenon, <1>11, <1>14 DEF changed
  <2>3. /\ next.write_strategy = row.write_strategy
        /\ next.apply_attempted = row.apply_attempted
        /\ next.apply_accepted = row.apply_accepted
    BY Zenon, <2>1, <2>2, KeptFields
  <2>4. /\ next.requested_generation = row.requested_generation
        /\ next.apply_resource_version = row.apply_resource_version
        /\ next.target_rejection = row.target_rejection
    BY Zenon, <2>1, <2>2, KeptFields
  <2>5. /\ next.result = row.result /\ next.operation_id = row.operation_id
        /\ next.immutable_image_digest = row.immutable_image_digest
    BY Zenon, <2>1, <2>2, KeptFields
  <2>6. QED
    BY Zenon, <2>3, <2>4, <2>5
<1>17. /\ next.approved_uid = row.approved_uid
       /\ next.approved_resource_version = row.approved_resource_version
       /\ next.preflight_uid = row.preflight_uid
       /\ next.preflight_resource_version = row.preflight_resource_version
       /\ next.target_uid = row.target_uid
       /\ next.target_resource_version = row.target_resource_version
  <2> DEFINE changed == {"state", "receipt_bytes", "receipt_digest", "receipt_key_id"}
  <2>1. /\ "approved_uid" \notin changed /\ "approved_resource_version" \notin changed
        /\ "preflight_uid" \notin changed /\ "preflight_resource_version" \notin changed
        /\ "target_uid" \notin changed /\ "target_resource_version" \notin changed
    OBVIOUS
  <2> HIDE DEF changed
  <2>2. Kept(next, row, changed)
    BY Zenon, <1>11, <1>14 DEF changed
  <2>3. /\ next.approved_uid = row.approved_uid
        /\ next.approved_resource_version = row.approved_resource_version
        /\ next.preflight_uid = row.preflight_uid
    BY Zenon, <2>1, <2>2, KeptTargets
  <2>4. /\ next.preflight_resource_version = row.preflight_resource_version
        /\ next.target_uid = row.target_uid
        /\ next.target_resource_version = row.target_resource_version
    BY Zenon, <2>1, <2>2, KeptTargets
  <2>5. QED
    BY Zenon, <2>3, <2>4
<1>18. /\ \A c \in RequestColumns : next[c] = row[c]
       /\ \A c \in AuthorizationColumns : next[c] = row[c]
       /\ \A c \in ReceiverColumns : next[c] = row[c]
  BY Zenon, <1>15 DEF StatementColumns
<1>19. /\ ApprovedTarget(next) = ApprovedTarget(row)
       /\ PreflightTarget(next) = PreflightTarget(row)
       /\ AttemptTarget(next) = AttemptTarget(row) /\ ResponseOf(next) = ResponseOf(row)
       /\ Restricted(next, RequestColumns) = Restricted(row, RequestColumns)
       /\ Restricted(next, AuthorizationColumns) = Restricted(row, AuthorizationColumns)
       /\ StatementOf(next) = StatementOf(row)
  BY ZenonT(30), <1>15, <1>16, <1>17, <1>18
  DEF ApprovedTarget, PreflightTarget, AttemptTarget, ResponseOf, Restricted, StatementOf
<1>20. InBounds(next)
  <2>1. \A c \in DOMAIN changes : next[c] # Oversized
    BY <1>10, <1>11, <1>14
  <2>2. QED
    BY Zenon, <1>2, <1>14, <2>1, BoundsAreSizes DEF Kept
<1>21. /\ PhaseFits(row) /\ StatementIsValid(row) /\ SnapshotAttempt(row)
       /\ ApprovalIsKept(row)
  BY ZenonT(30), <1>2, <1>8 DEF WellFormed
<1>22. SnapshotAuthorization(next) /\ HasAuthorization(next)
  BY ZenonT(30), <1>18, <1>21 DEF StatementIsValid, SnapshotAuthorization, HasAuthorization
<1>23. SnapshotAttempt(next)
  BY Zenon, <1>2, <1>14, <1>16, <1>17, <1>21 DEF SnapshotAttempt
<1>24. row.target_rejection = None /\ row.apply_attempted = 1 /\ AttemptTarget(row) # None
       /\ ~HasReceipt(row)
  BY <1>2, <1>21 DEF PhaseFits
<1>25. ApprovalIsKept(next) /\ PreflightIsExplained(next)
  <2>1. None # "stale_approval"
    BY ZenonT(30), NoneIsNothing DEF Words, RejectionWords
  <2>2. QED
    BY Zenon, <1>14, <1>16, <1>19, <1>21, <1>22, <1>24, <2>1
    DEF ApprovalIsKept, PreflightIsExplained
<1>26. StatementIsValid(next)
  <2>1. /\ next.rollout_condition_type = row.rollout_condition_type
        /\ next.rollout_condition_status = row.rollout_condition_status
        /\ next.rollout_condition_reason = row.rollout_condition_reason
    BY ZenonT(30), <1>18 DEF ReceiverColumns
  <2>2. ObservationIsValid(next)
    BY ZenonT(30), <1>18, <1>21, <2>1 DEF StatementIsValid, ObservationIsValid
  <2>3. \A c \in Replicas : next[c] # None => next[c] <= I32Max
    <3>1. Replicas \subseteq ReceiverColumns
      BY DEF Replicas, ReceiverColumns
    <3>2. QED
      BY ZenonT(30), <1>18, <1>21, <3>1 DEF StatementIsValid
  <2>4. FactsOf(next) = FactsOf(row)
    <3>1. \A c \in {"receiver_uid", "receiver_image", "receiver_operation_marker",
                    "current_generation", "observed_generation",
                    "receiver_resource_version", "desired_replicas", "updated_replicas",
                    "available_replicas", "unavailable_replicas", "rollout_condition_type",
                    "rollout_condition_status", "rollout_condition_reason"} :
             next[c] = row[c]
      BY Zenon, <1>18 DEF ReceiverColumns
    <3>2. QED
      BY ZenonT(30), <3>1 DEF FactsOf, ConditionOf
  <2>5. QED
    BY Zenon, <1>16, <1>17, <1>19, <1>21, <1>22, <2>2, <2>3, <2>4 DEF StatementIsValid
<1>27. SnapshotReceipt(next)
  <2>1. bytes.key = key /\ bytes.statement = StatementOf(row)
    BY <1>4, <1>9
  <2>2. FrozenReceiptIsValid(next)
    BY Zenon, <1>10, <1>14, <1>19, <2>1 DEF FrozenReceiptIsValid
  <2>3. QED
    BY Zenon, <1>10, <1>14, <2>2 DEF SnapshotReceipt, HasReceipt, FrozenStates
<1>28. PhaseFits(next)
  BY <1>10, <1>14, <1>16, <1>19, <1>24 DEF PhaseFits, HasReceipt
<1>29. WellFormed(next)
  <2>1. /\ next.apply_attempted \in {0, 1} /\ next.apply_accepted \in {None, 0, 1}
        /\ SnapshotTarget(next.approved_uid, next.approved_resource_version)
        /\ SnapshotTarget(next.preflight_uid, next.preflight_resource_version)
        /\ \A c \in RequestColumns : IsFact(next[c])
        /\ next.result \in {None} \cup {ResultAsSql[result] : result \in OperationResults}
        /\ next.target_rejection \in {None} \cup RejectionWords
    BY ZenonT(30), <1>2, <1>16, <1>17, <1>18 DEF WellFormed
  <2>2. next.state \in FrozenStates
    BY Zenon, <1>14 DEF FrozenStates
  <2>3. QED
    BY Zenon, <1>22, <1>23, <1>25, <1>26, <1>27, <1>28, <2>1, <2>2 DEF WellFormed
<1>30. Decode(next) = then
  <2>1. Decode(next) = OperationOf(next)
    BY Zenon, <1>20, <1>29 DEF Decode
  <2>2. next.state \in FrozenStates /\ HasReceipt(next)
    BY <1>10, <1>14 DEF FrozenStates, HasReceipt
  <2>3. operation = [f \in OperationFields |-> operation[f]]
    BY ZenonT(30), <1>3, <1>8, ObservedOperation
  <2>4. /\ then = [f \in OperationFields |-> then[f]]
        /\ then.state = "finalized" /\ then.receipt = [bytes |-> bytes, key |-> key]
        /\ \A f \in OperationFields \ {"state", "receipt"} : then[f] = operation[f]
    BY Zenon, <1>6, <2>3 DEF OperationFields
  <2>5. PICK read : read = OperationOf(next)
    BY Zenon
  <2>6. /\ read = [f \in OperationFields |-> read[f]]
        /\ read.state = "finalized" /\ read.response = operation.response
        /\ read.request = operation.request
        /\ read.authorization = operation.authorization
        /\ read.approved = operation.approved /\ read.preflight = operation.preflight
        /\ read.rejection = operation.rejection /\ read.target = operation.target
        /\ read.statement = operation.statement
        /\ read.receipt = [bytes |-> bytes, key |-> key]
    <3>1. /\ operation.response = ResponseOf(row)
          /\ operation.request = Restricted(row, RequestColumns)
          /\ operation.authorization = Restricted(row, AuthorizationColumns)
          /\ operation.approved = ApprovedTarget(row)
          /\ operation.preflight = PreflightTarget(row)
          /\ operation.rejection = row.target_rejection
          /\ operation.target = AttemptTarget(row)
      BY ZenonT(30), <1>3, <1>8, ObservedOperation
    <3>2. /\ read = [f \in OperationFields |-> read[f]]
          /\ read.state = next.state /\ read.response = ResponseOf(next)
          /\ read.request = Restricted(next, RequestColumns)
          /\ read.authorization = Restricted(next, AuthorizationColumns)
          /\ read.approved = ApprovedTarget(next) /\ read.preflight = PreflightTarget(next)
          /\ read.rejection = next.target_rejection /\ read.target = AttemptTarget(next)
          /\ read.statement = StatementOf(next)
          /\ read.receipt = [bytes |-> next.receipt_bytes, key |-> next.receipt_key_id]
      BY Zenon, <2>2, <2>5, ObservedOperation
    <3>3. QED
      BY Zenon, <1>9, <1>14, <1>16, <1>19, <3>1, <3>2
  <2>7. read = then
    BY <2>4, <2>6, SameOperation DEF OperationFields
  <2>8. QED
    BY Zenon, <2>1, <2>5, <2>7
<1>31. QED
  BY Zenon, <1>2, <1>7, <1>12, <1>13, <1>30, PendReads

\* A write that commits leaves the record it decided on, whole.
LEMMA ReplacedRow ==
    ASSUME RecordInv, NEW h \in Handles, NEW write, write = handle[h].pending, write # None,
           Replaceable(write), row' = Updated(write)
    PROVE  row' = write.next
<1>1. row = write.expected /\ write.next = [c \in Columns |-> write.next[c]]
  BY Zenon DEF Replaceable, RecordInv, Identified
<1>2. CASE write.expected = NoRow
  BY Zenon, <1>2 DEF Updated
<1>3. CASE write.expected # NoRow
  <2>1. row' = [c \in Columns |-> IF write.next[c] # write.expected[c] THEN write.next[c]
                                  ELSE row[c]]
    BY Zenon, <1>3 DEF Updated
  <2>2. row' = [c \in Columns |-> write.next[c]]
    BY <1>1, <2>1
  <2>3. QED
    BY Zenon, <1>1, <2>2
<1>4. QED
  BY <1>2, <1>3

\* What a write leaves is of Id.
LEMMA ReplaceReads ==
    ASSUME HandleShape, RecordInv, NEW h \in Handles, Replace(h)
    PROVE  RecordInv'
<1>1. PICK write : write = handle[h].pending
  OBVIOUS
<1>2. \A g \in Handles : handle'[g].pending \in {None, handle[g].pending}
  BY Zenon DEF Replace, Idle, HandleShape, Fields
<1>3. CASE UNCHANGED row
  BY <1>2, <1>3, QuietReads
<1>4. CASE Replaceable(write) /\ row' = Updated(write)
  <2>1. write # None
    BY Zenon, <1>1 DEF Replace
  <2>2. row' = write.next /\ Identified(write.next)
    BY Zenon, <1>1, <1>4, <2>1, ReplacedRow DEF RecordInv
  <2>3. QED
    BY ZenonT(30), <1>2, <2>2 DEF RecordInv
<1>5. QED
  BY Zenon, <1>1, <1>3, <1>4 DEF Replace

\* An edit leaves a record of Id.
LEMMA EditReads ==
    ASSUME RecordInv, NEW column \in Columns \ {"operation_id"}, EditColumn(column)
    PROVE  RecordInv'
<1>1. row # NoRow /\ Identified(row) /\ UNCHANGED handle
  BY DEF EditColumn, RecordInv
<1>2. PICK value \in EditedValues(column) : row' = [row EXCEPT ![column] = value]
  BY Zenon DEF EditColumn
<1>3. /\ row' = [c \in Columns |-> row'[c]]
      /\ \A c \in Columns : row'[c] = IF c = column THEN value ELSE row[c]
  BY Zenon, <1>1, <1>2 DEF Identified
<1>4. column \in CellColumns => value \in Cells
  <2>1. ASSUME column \in CellColumns PROVE column \notin {"state", "target_rejection",
                                                           "receipt_bytes"}
    BY Zenon, <2>1 DEF CellColumns, StatementColumns, RequestColumns, AuthorizationColumns,
                ReceiverColumns
  <2>2. {"SUCCEEDED", "FAILED", "UNKNOWN"} \subseteq Cells
    BY TextIsFact DEF Words
  <2>3. {None, Other, Invalid, Oversized} \cup EditedNumbers \subseteq Cells
    BY Zenon, TextIsFact, BoundsAssumption DEF Cells
  <2>4. ASSUME column \in CellColumns
        PROVE  value \in {None, Other, Invalid, Oversized, "SUCCEEDED", "FAILED", "UNKNOWN"}
                         \cup EditedNumbers
    BY Zenon, <1>2, <2>1, <2>4 DEF EditedValues
  <2>5. QED
    BY Zenon, <2>2, <2>3, <2>4
<1>5. CellColumns \subseteq Columns /\ "operation_id" \in Columns
  BY Zenon, ColumnNames, StatedColumns DEF CellColumns
<1>6. row'.operation_id = Id /\ \A c \in CellColumns : row'[c] \in Cells
  BY Zenon, <1>1, <1>3, <1>4, <1>5 DEF Identified
<1>7. QED
  BY Zenon, <1>1, <1>3, <1>6 DEF RecordInv, Identified

\* What was decided on reads back, step by step.
LEMMA RecordStep ==
    ASSUME LeaseInv, SizesInv, RecordInv, [Next]_vars PROVE RecordInv'
<1> USE DEF LeaseInv
<1> DEFINE Quiet == \A g \in Handles : handle'[g].pending \in {None, handle[g].pending}
<1>1. ASSUME NEW h \in Handles, Open(h) \/ End(h) \/ TryLockWorker(h) \/ DropWorker(h)
      PROVE  RecordInv'
  <2>1. UNCHANGED row
    BY Zenon, <1>1 DEF Open, End, TryLockWorker, DropWorker
  <2>2. Quiet
    <3>1. CASE Open(h)
      BY Zenon, <3>1 DEF Open, Closed, HandleShape
    <3>2. CASE End(h)
      BY <3>2 DEF End, Closed, HandleShape
    <3>3. CASE TryLockWorker(h)
      BY <3>3 DEF TryLockWorker, HandleShape, Fields
    <3>4. CASE DropWorker(h)
      BY <3>4 DEF DropWorker, Idle, HandleShape, Fields
    <3>5. QED
      BY Zenon, <1>1, <3>1, <3>2, <3>3, <3>4
  <2>3. QED
    BY <2>1, <2>2, QuietReads
<1>2. ASSUME NEW h \in Handles, Call(h) PROVE RecordInv'
  <2>1. ASSUME NEW request \in Requests, Load(h, request) PROVE RecordInv'
    <3>1. Quiet
      BY <2>1 DEF Load, HandleShape, Fields
    <3>2. QED
      BY Zenon, <2>1, <3>1, QuietReads DEF Load
  <2>2. CASE InsertRequested(h)
    BY Zenon, <2>2, InsertReads
  <2>3. CASE MarkAuthorized(h)
    BY Zenon, <2>3, AuthorizedReads
  <2>4. ASSUME NEW rejection \in Rejections, MarkNotAttempted(h, rejection) PROVE RecordInv'
    BY Zenon, <2>4, NotAttemptedReads
  <2>5. ASSUME NEW target \in Targets, MarkStaleApproval(h, target) PROVE RecordInv'
    BY Zenon, <2>5, StaleApprovalReads
  <2>6. ASSUME NEW target \in Targets, MarkApplyStarted(h, target) PROVE RecordInv'
    BY <2>6, ApplyStartedReads
  <2>7. ASSUME NEW outcome \in Outcomes, RecordApplyOutcome(h, outcome) PROVE RecordInv'
    BY <2>7, ApplyOutcomeReads
  <2>8. ASSUME NEW observation \in Observations, FreezeObservation(h, observation)
        PROVE  RecordInv'
    BY <2>8, FreezeReads
  <2>9. ASSUME NEW key \in ReceiptKeys, CommitReceipt(h, key) PROVE RecordInv'
    BY <2>9, CommitReads
  <2>10. CASE Replace(h)
    BY <2>10, ReplaceReads
  <2>11. CASE Abandon(h)
    <3>1. Quiet
      BY Zenon, <2>11 DEF Abandon, Idle, HandleShape, Fields
    <3>2. QED
      BY ZenonT(30), <2>11, <3>1, QuietReads DEF Abandon
  <2>12. ASSUME NEW o \in Peers \cup {Id}, AdmitGit(h, o) \/ FinishGit(h, o) PROVE RecordInv'
    BY Zenon, <2>12, QuietReads DEF AdmitGit, FinishGit
  <2>13. QED
    BY <1>2, <2>1, <2>2, <2>3, <2>4, <2>5, <2>6, <2>7, <2>8, <2>9, <2>10, <2>11, <2>12
    DEF Call
<1>3. ASSUME NEW column \in Columns \ {"operation_id"}, EditColumn(column) PROVE RecordInv'
  BY Zenon, <1>3, EditReads
<1>4. CASE EditLayout
  BY ZenonT(30), <1>4, QuietReads DEF EditLayout
<1>5. CASE UNCHANGED vars
  BY Zenon, <1>5, QuietReads DEF vars
<1>6. QED
  BY Zenon, <1>1, <1>2, <1>3, <1>4, <1>5, StepCases

\* What was decided on reads back in every state.
LEMMA RecordsHold == Spec => []RecordInv
<1>1. Init => RecordInv
  BY DEF Init, Closed, RecordInv
<1>2. LeaseInv /\ SizesInv /\ RecordInv /\ [Next]_vars => RecordInv'
  BY Zenon, RecordStep
<1>3. QED
  BY <1>1, <1>2, LeaseHolds, SizesHold, PTL DEF Spec

\* A step that changes the record without an edit is a write, and leaves what it decided
\* on.
LEMMA WriteReadsBack ==
    ASSUME SizesInv, RecordInv, [Next]_vars, row' # row, edits' = edits
    PROVE  Decode(row') = history'
<1>1. ASSUME NEW h \in Handles, Replace(h) PROVE Decode(row') = history'
  <2>1. PICK write : write = handle[h].pending
    BY Zenon
  <2>2. write # None /\ Replaceable(write) /\ row' = Updated(write) /\ history' = write.then
    BY Zenon, <1>1, <2>1 DEF Replace
  <2>3. row' = write.next
    BY <2>1, <2>2, ReplacedRow
  <2>4. QED
    BY Zenon, <2>1, <2>2, <2>3 DEF RecordInv
<1>2. ASSUME NEW h \in Handles, Call(h) PROVE Replace(h)
  BY ZenonT(30), <1>2
  DEF Call, Load, InsertRequested, MarkAuthorized, MarkNotAttempted, MarkStaleApproval,
      MarkApplyStarted, RecordApplyOutcome, FreezeObservation, CommitReceipt, Pend, Abandon,
      AdmitGit, FinishGit
<1>3. ASSUME NEW h \in Handles, Open(h) \/ End(h) \/ TryLockWorker(h) \/ DropWorker(h)
      PROVE  FALSE
  BY Zenon, <1>3 DEF Open, End, TryLockWorker, DropWorker
<1>4. ASSUME NEW column, EditColumn(column) PROVE FALSE
  <2>1. edits' = edits + 1 /\ edits \in Nat
    BY <1>4 DEF EditColumn, SizesInv
  <2>2. QED
    BY <2>1
<1>5. CASE EditLayout \/ UNCHANGED vars
  BY Zenon, <1>5 DEF EditLayout, vars
<1>6. QED
  BY Zenon, <1>1, <1>2, <1>3, <1>4, <1>5, StepCases

\* A write that commits leaves a record that reads back as the operation its caller
\* decided from, moved on by exactly that write, whatever was edited before it.
THEOREM WritesRead == Spec => WritesReadBack
<1>1. SizesInv /\ RecordInv /\ [Next]_vars
         => [row' # row /\ edits' = edits => Decode(row') = history']_vars
  BY WriteReadsBack
<1>2. QED
  BY <1>1, SizesHold, RecordsHold, PTL DEF Spec, WritesReadBack
=============================================================================
