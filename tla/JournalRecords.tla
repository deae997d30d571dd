-------------------------- MODULE JournalRecords ---------------------------
(***************************************************************************)
(* The records of the journal, column by column, and the calls that read   *)
(* and write them (src/gateway/journal/records.rs and mod.rs): how a       *)
(* lifecycle fact becomes columns, how columns become a validated          *)
(* operation again, how a write is bound to the whole record it was        *)
(* decided from, and the lease under which all of it happens.              *)
(*                                                                         *)
(* Processes with a journal handle open, lock, load, decide and write; any *)
(* of them may be killed at any point.  Beside them somebody may edit a    *)
(* column with a tool of their own, which neither the lease nor SQLite's   *)
(* transactions prevent: readers and writers must notice.                  *)
(*                                                                         *)
(* A record maps every column to None or to a value.  Values of one        *)
(* identity, Id, are followed in full; the rows of other identities and of *)
(* the Git table only by their state.                                      *)
(***************************************************************************)
EXTENDS JournalSchema, ReceiverFacts, Integers

CONSTANTS
    Id, Peers,          \* the identity followed, and others
    Handles,            \* processes with the journal open
    Requests,           \* authenticated requests for Id: bound columns and approval
    Rejections,         \* what a preflight read may reject a target for
    Targets,            \* [uid, version] a preflight read may find
    Outcomes,           \* [accepted, generation, version] of a response
    Observations,       \* receiver columns of an observation
    ReceiptKeys,        \* key identities receipts are signed under
    Other,              \* a well-formed value that the journal did not write
    Invalid,            \* a value outside its column's grammar
    Oversized,          \* a value longer than any column may hold
    EditedNumbers,      \* numbers an edit may leave
    I32Max,             \* the largest replica count (2^31 - 1 in the code)
    MaxEdits, MaxLayoutEdits

VARIABLES
    database,   \* the layout, or NoDatabase
    row,        \* the record of Id, or NoRow
    peers,      \* state of the Git row of each identity
    lock,       \* the handle whose file holds the worker lock, or None
    handle,     \* [open, slot, worker, request, loaded, pending] of each handle
    history,    \* the operation as the callers of the last writes know it
    edits, layoutEdits

vars == <<database, row, peers, lock, handle, history, edits, layoutEdits>>

NoRow == [state |-> "absent"]

-----------------------------------------------------------------------------
(* Records.                                                                *)

RequestColumns ==
    {"operation_id", "namespace", "deployment", "container", "immutable_image_digest"}
AuthorizationColumns ==
    {"authorization_id", "authorization_signer_key_id", "authorization_grant_digest"}
\* The columns a grant fills in, but for an approved version.
GrantedColumns == RequestColumns \cup AuthorizationColumns \cup {"signed_authorization_grant"}
ReceiverColumns ==
    {"receiver_uid", "receiver_image", "receiver_operation_marker", "current_generation",
     "observed_generation", "receiver_resource_version", "desired_replicas",
     "updated_replicas", "available_replicas", "unavailable_replicas",
     "rollout_condition_type", "rollout_condition_status", "rollout_condition_reason"}
Replicas ==
    {"desired_replicas", "updated_replicas", "available_replicas", "unavailable_replicas"}
Generations == {"current_generation", "observed_generation", "requested_generation"}

\* The columns a receipt states.
StatementColumns ==
    RequestColumns \cup AuthorizationColumns \cup ReceiverColumns \cup
    {"approved_uid", "approved_resource_version", "write_strategy", "target_uid",
     "target_resource_version", "requested_generation", "result"}

WRITE_STRATEGY == "conditional-strategic-merge-patch"
RejectionWords ==
    {"deployment_not_found", "container_not_found", "invalid_target", "stale_approval"}
ResultAsSql == [succeeded |-> "SUCCEEDED", failed |-> "FAILED", unknown |-> "UNKNOWN"]

\* The words the journal itself writes, what a caller may write into a column, and what
\* a column may be found to hold.
Words  == OperationStates \cup RejectionWords \cup
          {WRITE_STRATEGY, "SUCCEEDED", "FAILED", "UNKNOWN"}
Values == STRING \cup Words \cup Int \cup {None}
Cells  == Values \cup {Other, Invalid, Oversized}

\* A committed receipt, and the digest of one.
Receipts == [key : STRING, statement : [StatementColumns -> Cells]]
Digests  == [sha256 : Receipts]

ASSUME NoneAssumption ==
    /\ None \notin Handles /\ None # NoRow
    /\ None \notin STRING /\ None \notin Words /\ None \notin Int
    /\ None \notin [uid : Cells, version : Cells]
    /\ None \notin [accepted : {0, 1}, generation : Cells, version : Cells]
    /\ None \notin Receipts /\ None \notin Digests
ASSUME BoundsAssumption ==
    MaxEdits \in Nat /\ MaxLayoutEdits \in Nat /\ I32Max \in Nat /\ EditedNumbers \subseteq Int

\* What callers bring is within the grammars of its columns: grants and targets are
\* validated when they are parsed, outcomes and observations before they are written.
ASSUME RequestsAssumption ==
    \A request \in Requests :
       /\ request["operation_id"] = Id
       /\ \A c \in GrantedColumns : request[c] \in STRING
       /\ request.approved # None =>
             /\ request.approved.uid \in STRING /\ request.approved.version \in STRING
             /\ request.approved = [uid |-> request.approved.uid,
                                    version |-> request.approved.version]
ASSUME InputsAssumption ==
    /\ Id \in STRING /\ ReceiptKeys \subseteq STRING
    /\ Rejections \subseteq RejectionWords \ {"stale_approval"}
    /\ \A target \in Targets :
          /\ target.uid \in STRING /\ target.version \in STRING
          /\ target = [uid |-> target.uid, version |-> target.version]
    /\ \A outcome \in Outcomes :
          /\ outcome.accepted \in {0, 1} /\ outcome.version \in STRING
          /\ outcome.generation # None => outcome.generation \in Nat
          /\ outcome = [accepted |-> outcome.accepted, generation |-> outcome.generation,
                        version |-> outcome.version]
ASSUME ObservationsAssumption ==
    \A o \in Observations :
       /\ DOMAIN o = ReceiverColumns
       /\ \A c \in ReceiverColumns :
             o[c] # None => IF c \in Replicas THEN o[c] \in 0 .. I32Max
                            ELSE IF c \in Generations THEN o[c] \in Nat
                            ELSE o[c] \in STRING
       /\ (o.rollout_condition_type # None) <=> (o.rollout_condition_status # None)
       /\ o.rollout_condition_type = None => o.rollout_condition_reason = None

\* No text, number or receipt of a caller is longer than its column may hold.
ASSUME OversizedAssumption ==
    /\ Oversized \notin Values /\ Oversized \notin Receipts /\ Oversized \notin Digests
    /\ Invalid \notin Values /\ Other # Oversized
    /\ Other \notin Receipts

\* What is retained is bounded, by no more than the file has pages for.
ASSUME RetentionAssumption == IsFiniteSet(Peers) /\ IdentityCapacity <= IDENTITY_CAPACITY

\* The record with the columns of changes replaced.
Set(record, changes) ==
    [c \in DOMAIN record \cup DOMAIN changes |->
        IF c \in DOMAIN changes THEN changes[c] ELSE record[c]]
Restricted(record, columns) == [c \in columns |-> record[c]]

\* Record::empty
Empty ==
    Set([c \in Columns |-> None],
        [operation_id |-> Id, target_read_failures |-> 0, apply_attempted |-> 0])

\* The longest value each grammar admits; a number in decimal.
FactBytesMax(column) ==
    CASE ExpectedColumnType(column) = "INTEGER" -> 20
      [] column = "signed_authorization_grant" -> GRANT_BYTES_MAX
      [] column = "receipt_bytes" -> PERSISTED_VALUE_BYTES_MAX
      [] column \in {"immutable_image_digest", "receiver_image"} -> 512
      [] column = "deployment" -> 253
      [] OTHER -> 128

FactBytes   == [c \in Columns |-> FactBytesMax(c)]
FieldLimits == [c \in Columns |-> FieldLimit(c)]

Bytes(column, value) ==
    IF value = None THEN 0
    ELSE IF value = Oversized THEN PERSISTED_VALUE_BYTES_MAX + 1
    ELSE FactBytes[column]

Sizes(record) == [c \in Columns |-> Bytes(c, record[c])]

\* The size of a row: the sizes of its columns added up.
RowBytes(sizes) ==
    LET total[n \in 0..Len(CurrentColumns)] ==
            IF n = 0 THEN 0 ELSE sizes[CurrentColumns[n]] + total[n - 1]
    IN  total[Len(CurrentColumns)]

\* read_table: a record outside the bounds is not read at all.
InBounds(record) ==
    LET With(sizes) ==
           /\ \A c \in Columns : sizes[c] <= FieldLimits[c]
           /\ RowBytes(sizes) <= PERSISTED_ROW_BYTES_MAX
    IN  With(Sizes(record))

-----------------------------------------------------------------------------
(* From a record to an operation.                                          *)

\* The grammar of the column; numbers are checked where they are used.
IsFact(value) == value \notin {None, Invalid, Oversized}

\* snapshot_target: both parts or neither.
SnapshotTarget(uid, version) ==
    (uid = None /\ version = None) \/ (IsFact(uid) /\ IsFact(version))

Target(uid, version) == IF uid = None THEN None ELSE [uid |-> uid, version |-> version]
ApprovedTarget(r)  == Target(r.approved_uid, r.approved_resource_version)
PreflightTarget(r) == Target(r.preflight_uid, r.preflight_resource_version)
AttemptTarget(r)   == Target(r.target_uid, r.target_resource_version)

HasAuthorization(r) == \A c \in AuthorizationColumns : r[c] # None

\* validate_snapshot_authorization
SnapshotAuthorization(r) ==
    \/ \A c \in AuthorizationColumns : r[c] = None
    \/ \A c \in AuthorizationColumns : IsFact(r[c])

\* validate_snapshot_attempt_facts
SnapshotAttempt(r) ==
    \/ /\ r.write_strategy = None /\ r.target_uid = None /\ r.target_resource_version = None
       /\ r.apply_accepted = None /\ r.requested_generation = None
       /\ r.apply_resource_version = None
    \/ /\ r.write_strategy = WRITE_STRATEGY
       /\ IsFact(r.target_uid) /\ IsFact(r.target_resource_version)
       /\ \/ /\ r.apply_accepted = None /\ r.apply_resource_version = None
             /\ r.state = "apply_started" => r.requested_generation = None
          \/ /\ r.apply_accepted # None /\ IsFact(r.apply_resource_version)
             /\ r.requested_generation # None => r.requested_generation >= 0

\* An approval binds the attempt, and the preflight read before it.
ApprovalIsKept(r) ==
    ApprovedTarget(r) # None =>
       /\ HasAuthorization(r)
       /\ AttemptTarget(r) # None =>
             AttemptTarget(r) = ApprovedTarget(r) /\ PreflightTarget(r) = ApprovedTarget(r)

\* A preflight read is kept with an attempt and with a stale approval, only.
PreflightIsExplained(r) ==
    /\ r.state \in {"requested", "authorized"} => PreflightTarget(r) = None
    /\ r.target_rejection = "stale_approval" =>
          ApprovedTarget(r) # None /\ PreflightTarget(r) \notin {None, ApprovedTarget(r)}
    /\ r.state = "not_attempted" /\ r.target_rejection # "stale_approval" =>
          PreflightTarget(r) = None

\* available_condition and progress_deadline_exceeded of an observation.
ConditionOf(r) ==
    IF r.rollout_condition_type = "Available" /\ r.rollout_condition_status = "True"
    THEN "available"
    ELSE IF /\ r.rollout_condition_type = "Progressing"
            /\ r.rollout_condition_status = "False"
            /\ r.rollout_condition_reason = "ProgressDeadlineExceeded"
    THEN "deadline_exceeded" ELSE None

FactsOf(r) ==
    [uid |-> r.receiver_uid, version |-> r.receiver_resource_version,
     generation |-> r.current_generation, observed |-> r.observed_generation,
     image |-> r.receiver_image, marker |-> r.receiver_operation_marker,
     desired |-> r.desired_replicas, updated |-> r.updated_replicas,
     available |-> r.available_replicas, unavailable |-> r.unavailable_replicas,
     condition |-> ConditionOf(r)]

\* ReceiverObservation::validate
ObservationIsValid(r) ==
    /\ \A c \in ReceiverColumns :
          r[c] # None => IF c \in Replicas \cup Generations THEN r[c] >= 0 ELSE IsFact(r[c])
    /\ (r.rollout_condition_type # None) <=> (r.rollout_condition_status # None)
    /\ r.rollout_condition_type = None => r.rollout_condition_reason = None

\* ReceiptRow
StatementOf(r) == Restricted(r, StatementColumns)

\* into_statement and ReceiptStatement::validate.  The result is recomputed.
StatementIsValid(r) ==
    /\ HasAuthorization(r) /\ SnapshotAuthorization(r)
    /\ r.write_strategy = WRITE_STRATEGY
    /\ IsFact(r.target_uid) /\ IsFact(r.target_resource_version)
    /\ ApprovedTarget(r) # None => AttemptTarget(r) = ApprovedTarget(r)
    /\ \A c \in Replicas : r[c] # None => r[c] <= I32Max
    /\ ObservationIsValid(r)
    /\ r.result = ResultAsSql[ObservationResult(FactsOf(r), r.operation_id,
                                 r.immutable_image_digest,
                                 [uid |-> r.target_uid, generation |-> r.requested_generation])]

DigestOf(bytes) == [sha256 |-> bytes]

\* Mutant of FrozenReceiptIsValid: the statement inside is not compared.
FrozenReceiptIsIntact(r) ==
    /\ r.receipt_bytes \notin {Other, Oversized}
    /\ r.receipt_digest = DigestOf(r.receipt_bytes)
    /\ r.receipt_key_id = r.receipt_bytes.key

\* validate_frozen_receipt, decode_frozen_receipt and the comparison with the row.
FrozenReceiptIsValid(r) ==
    /\ r.receipt_bytes \notin {Other, Oversized}
    /\ r.receipt_digest = DigestOf(r.receipt_bytes)
    /\ r.receipt_key_id = r.receipt_bytes.key
    /\ r.receipt_bytes.statement = StatementOf(r)

HasReceipt(r) == r.receipt_bytes # None

\* snapshot_frozen_receipt: all three columns, and a statement to hold them against.
SnapshotReceipt(r) ==
    \/ r.receipt_digest = None /\ r.receipt_bytes = None /\ r.receipt_key_id = None
    \/ /\ r.receipt_digest # None /\ HasReceipt(r) /\ r.receipt_key_id # None
       /\ r.state \in FrozenStates /\ FrozenReceiptIsValid(r)

\* The phases of into_operation.
PhaseFits(r) ==
    LET attempted == r.apply_attempted = 1 /\ AttemptTarget(r) # None
        unattempted == r.apply_attempted = 0 /\ AttemptTarget(r) = None
        unobserved == r.result = None /\ \A c \in ReceiverColumns : r[c] = None
    IN  CASE r.state = "requested" ->
                unattempted /\ unobserved /\ r.target_rejection = None /\ ~HasReceipt(r)
          [] r.state = "authorized" ->
                /\ unattempted /\ unobserved /\ r.target_rejection = None /\ ~HasReceipt(r)
                /\ HasAuthorization(r)
          [] r.state = "not_attempted" ->
                /\ unattempted /\ unobserved /\ r.target_rejection # None /\ ~HasReceipt(r)
                /\ HasAuthorization(r)
          [] r.state = "apply_started" ->
                /\ attempted /\ unobserved /\ r.target_rejection = None /\ ~HasReceipt(r)
                /\ HasAuthorization(r)
          [] r.state = "receiver_observed" ->
                attempted /\ r.target_rejection = None /\ ~HasReceipt(r)
          [] r.state = "finalized" ->
                attempted /\ r.target_rejection = None /\ HasReceipt(r)
          [] OTHER -> FALSE

\* SnapshotRow::into_operation accepts the record.
WellFormed(r) ==
    /\ r.apply_attempted \in {0, 1} /\ r.apply_accepted \in {None, 0, 1}
    /\ SnapshotTarget(r.approved_uid, r.approved_resource_version)
    /\ SnapshotTarget(r.preflight_uid, r.preflight_resource_version)
    /\ \A c \in RequestColumns : IsFact(r[c])
    /\ r.result \in {None} \cup {ResultAsSql[result] : result \in OperationResults}
    /\ r.target_rejection \in {None} \cup RejectionWords
    /\ SnapshotAuthorization(r) /\ SnapshotAttempt(r)
    /\ ApprovalIsKept(r) /\ PreflightIsExplained(r)
    /\ IF r.state \in FrozenStates THEN StatementIsValid(r) ELSE r.result = None
    /\ SnapshotReceipt(r)
    /\ PhaseFits(r)

Refused == [state |-> "refused"]

ResponseOf(r) ==
    IF r.apply_accepted = None THEN None
    ELSE [accepted |-> r.apply_accepted, generation |-> r.requested_generation,
          version |-> r.apply_resource_version]

\* LoadedOperation
OperationOf(r) ==
    [state |-> r.state, request |-> Restricted(r, RequestColumns),
     authorization |-> Restricted(r, AuthorizationColumns),
     approved |-> ApprovedTarget(r), preflight |-> PreflightTarget(r),
     rejection |-> r.target_rejection, target |-> AttemptTarget(r),
     response |-> ResponseOf(r),
     statement |-> IF r.state \in FrozenStates THEN StatementOf(r) ELSE None,
     receipt |-> IF HasReceipt(r)
                 THEN [bytes |-> r.receipt_bytes, key |-> r.receipt_key_id] ELSE None]

\* records::decode of a record that was read.
Decode(r) == IF InBounds(r) /\ WellFormed(r) THEN OperationOf(r) ELSE Refused

\* authorized_record_on: the grant and the request must be the ones retained.
AuthorizedRead(r, request) ==
    LET Binds ==
           /\ r.signed_authorization_grant = request.signed_authorization_grant
           /\ \A c \in RequestColumns \ {"operation_id"} : r[c] = request[c]
           /\ r.state = "requested" /\ r.authorization_id = None => request.approved = None
           /\ r.state # "requested" \/ r.authorization_id # None =>
                 \A c \in AuthorizationColumns : r[c] = request[c]
        Checked(operation) ==
           IF operation = Refused \/ operation.approved = request.approved
           THEN operation ELSE Refused
    IN  IF r = NoRow
        THEN IF peers[Id] = "absent" THEN NoRow ELSE Refused
        ELSE IF Binds THEN Checked(Decode(r)) ELSE Refused

\* retained_operation: the stored grant is authenticated and says what was requested.
RetainedRead(r) ==
    LET signed == {request \in Requests :
                     r # NoRow /\ request.signed_authorization_grant
                                     = r.signed_authorization_grant}
    IN  IF r = NoRow THEN NoRow
        ELSE IF signed = {} THEN Refused
        ELSE AuthorizedRead(r, CHOOSE request \in signed : TRUE)

-----------------------------------------------------------------------------
(* The handles: opening, the lease.                                        *)

Closed ==
    [open |-> FALSE, slot |-> FALSE, worker |-> FALSE, request |-> None,
     loaded |-> None, pending |-> None]
Idle(h) == [h EXCEPT !.request = None, !.loaded = None, !.pending = None]

Init ==
    /\ database = NoDatabase /\ row = NoRow
    /\ peers = [o \in Peers \cup {Id} |-> "absent"]
    /\ lock = None /\ handle = [h \in Handles |-> Closed]
    /\ history = NoRow /\ edits = 0 /\ layoutEdits = 0

\* The identities of both tables, with their states.
Journalled ==
    [o \in Peers \cup {Id} |->
       [state |-> IF o = Id /\ row # NoRow THEN row.state ELSE peers[o]]]

\* The identities of the Git table.
GitRows == {o \in DOMAIN peers : peers[o] # "absent"}

\* The longest record of the Git table: a grant, a receipt and fifteen texts.
GIT_ROW_BYTES_MAX == GRANT_BYTES_MAX + PERSISTED_VALUE_BYTES_MAX + 15 * 128

\* What page_count, freelist_count and dbstat report of the file, at most: the pages of
\* the schema and of each record, and of the file what records of the longest kind and a
\* write in progress ever needed, since no identity is ever removed.
Storage ==
    LET payload == RowBytes(Sizes(row)) + RECORD_HEADER_BYTES_MAX
        git     == GIT_ROW_BYTES_MAX + RECORD_HEADER_BYTES_MAX
        present == row # NoRow
    IN  [live    |-> SCHEMA_PAGES + (IF present THEN RecordPages(payload) ELSE 0)
                     + RecordPages(git) * Cardinality(GitRows),
         pages   |-> SCHEMA_PAGES + TRANSIENT_PAGES
                     + RecordPages(PERSISTED_ROW_BYTES_MAX) * Cardinality(Retained(Journalled)),
         records |-> (IF present THEN {payload} ELSE {})
                     \cup (IF GitRows = {} THEN {} ELSE {git}),
         keys    |-> (IF present THEN {Sizes(row).operation_id + 8 + 5} ELSE {})
                     \cup (IF GitRows = {} THEN {} ELSE {128 + 8 + 5})]

\* require_all_persisted_bounds
RequireAllPersistedBounds ==
    /\ RequirePersistedBounds(IF row = NoRow THEN 0 ELSE 1,
                              IF row = NoRow THEN {} ELSE {Sizes(row)})
    /\ RequirePersistedBounds(Cardinality(GitRows), {})
    /\ ~(row # NoRow /\ peers[Id] # "absent")

\* require_valid_snapshot
ValidSnapshot ==
    /\ RecognizedSupportedSchema(database) /\ RequireAllPersistedBounds
    /\ RequireRetainedBounds(Journalled, Storage)

\* Journal::open, on a fresh file or on an existing one; a refusal changes nothing.
Open(h) ==
    /\ ~handle[h].open
    /\ IF database = NoDatabase THEN database' = InitializeSchema
       ELSE ValidSnapshot /\ UNCHANGED database
    /\ handle' = [handle EXCEPT ![h] = [Closed EXCEPT !.open = TRUE, !.slot = TRUE]]
    /\ UNCHANGED <<row, peers, lock, history, edits, layoutEdits>>

\* The process ends, or is killed: the kernel closes its files.
End(h) ==
    /\ handle[h].open
    /\ handle' = [handle EXCEPT ![h] = Closed]
    /\ lock' = IF lock = h THEN None ELSE lock
    /\ UNCHANGED <<database, row, peers, history, edits, layoutEdits>>

\* try_lock_worker, when it returns a lease.
TryLockWorker(h) ==
    /\ handle[h].open /\ handle[h].slot /\ lock = None
    /\ lock' = h
    /\ handle' = [handle EXCEPT ![h].slot = FALSE, ![h].worker = TRUE]
    /\ UNCHANGED <<database, row, peers, history, edits, layoutEdits>>

\* Mutant of DropWorker: a file whose unlocking failed is kept open.
DropWorkerKeepsFile(h) ==
    /\ handle[h].worker /\ handle[h].pending = None
    /\ \/ /\ handle' = [handle EXCEPT ![h] = [Idle(handle[h]) EXCEPT !.worker = FALSE, !.slot = TRUE]]
          /\ lock' = None
       \/ /\ handle' = [handle EXCEPT ![h] = [Idle(handle[h]) EXCEPT !.worker = FALSE]]
          /\ UNCHANGED lock
    /\ UNCHANGED <<database, row, peers, history, edits, layoutEdits>>

\* WorkerLock::drop.  When unlocking fails the file is closed, which releases the
\* lock too, but the handle has no file to lock again.
DropWorker(h) ==
    /\ handle[h].worker /\ handle[h].pending = None
    /\ lock' = None
    /\ \E unlocked \in BOOLEAN :
          handle' = [handle EXCEPT ![h] =
                       [Idle(handle[h]) EXCEPT !.worker = FALSE, !.slot = unlocked]]
    /\ UNCHANGED <<database, row, peers, history, edits, layoutEdits>>

-----------------------------------------------------------------------------
(* The calls.  Every write but the first binds the operation it was given  *)
(* to a record (bound_record), and replaces that record in a transaction   *)
(* that finds it unchanged.                                                *)

\* authorized_operation, for a request of the catalogue or of a retained grant.
Load(h, request) ==
    /\ handle[h].worker /\ handle[h].loaded = None /\ handle[h].pending = None
    /\ LET With(read) ==
              /\ read # Refused
              /\ handle' = [handle EXCEPT ![h].loaded = read, ![h].request = request]
       IN  With(AuthorizedRead(row, request))
    /\ UNCHANGED <<database, row, peers, lock, history, edits, layoutEdits>>

\* The call has decided: the record it expects, the one it writes, and what its
\* caller will know once it is written.
Pend(h, expected, changes, then) ==
    /\ handle' = [handle EXCEPT ![h].pending =
                     [expected |-> expected, next |-> Set(expected, changes), then |-> then]]
    /\ UNCHANGED <<database, row, peers, lock, history, edits, layoutEdits>>

\* insert_requested
InsertRequested(h) ==
    /\ handle[h].loaded = NoRow /\ handle[h].pending = None
    /\ LET request == handle[h].request
           approval == IF request.approved = None THEN [approved_uid |-> None]
                       ELSE [approved_uid |-> request.approved.uid,
                             approved_resource_version |-> request.approved.version]
       IN  /\ handle' = [handle EXCEPT ![h].pending =
                 [expected |-> NoRow,
                  next |-> Set(Set(Set(Empty, Restricted(request, GrantedColumns)), approval),
                               [state |-> "requested"]),
                  then |-> [state |-> "requested",
                            request |-> Restricted(request, RequestColumns),
                            authorization |-> Restricted(request, AuthorizationColumns),
                            approved |-> request.approved, preflight |-> None,
                            rejection |-> None, target |-> None, response |-> None,
                            statement |-> None, receipt |-> None]]]
           /\ UNCHANGED <<database, row, peers, lock, history, edits, layoutEdits>>

\* bound_record: the record still decodes to the operation the caller holds.
Bound(h, state) ==
    /\ handle[h].loaded \notin {None, NoRow} /\ handle[h].pending = None
    /\ handle[h].loaded.state = state
    /\ row # NoRow /\ Decode(row) = handle[h].loaded

\* mark_authorized
MarkAuthorized(h) ==
    /\ Bound(h, "requested")
    /\ AuthorizedRead(row, handle[h].request) # Refused
    /\ Pend(h, row, Set(Restricted(handle[h].request, AuthorizationColumns),
                        [state |-> "authorized"]),
            [handle[h].loaded EXCEPT !.state = "authorized",
                !.authorization = Restricted(handle[h].request, AuthorizationColumns)])

\* mark_not_attempted; a stale approval is marked below.
MarkNotAttempted(h, rejection) ==
    /\ Bound(h, "authorized")
    /\ Pend(h, row, [state |-> "not_attempted", target_rejection |-> rejection],
            [handle[h].loaded EXCEPT !.state = "not_attempted", !.rejection = rejection])

\* mark_stale_approval, from begin_attempt.
MarkStaleApproval(h, observed) ==
    /\ Bound(h, "authorized")
    /\ handle[h].loaded.approved \notin {None, observed}
    /\ Pend(h, row, [state |-> "not_attempted", target_rejection |-> "stale_approval",
                     preflight_uid |-> observed.uid,
                     preflight_resource_version |-> observed.version],
            [handle[h].loaded EXCEPT !.state = "not_attempted", !.preflight = observed,
                                     !.rejection = "stale_approval"])

\* mark_apply_started, from begin_attempt.
MarkApplyStarted(h, target) ==
    /\ Bound(h, "authorized")
    /\ handle[h].loaded.approved \in {None, target}
    /\ Pend(h, row, [state |-> "apply_started", write_strategy |-> WRITE_STRATEGY,
                     apply_attempted |-> 1,
                     target_uid |-> target.uid, preflight_uid |-> target.uid,
                     target_resource_version |-> target.version,
                     preflight_resource_version |-> target.version],
            [handle[h].loaded EXCEPT !.state = "apply_started", !.preflight = target,
                                     !.target = target])

\* record_apply_outcome, once for the one request that was sent.
RecordApplyOutcome(h, outcome) ==
    /\ Bound(h, "apply_started") /\ handle[h].loaded.response = None
    /\ Pend(h, row, [apply_accepted |-> outcome.accepted,
                     requested_generation |-> outcome.generation,
                     apply_resource_version |-> outcome.version],
            [handle[h].loaded EXCEPT !.response = outcome])

\* What a frozen observation states in a column, from what its caller knows.
StatedValue(operation, observation, generation, result, c) ==
    CASE c \in ReceiverColumns -> observation[c]
      [] c \in RequestColumns -> operation.request[c]
      [] c \in AuthorizationColumns -> operation.authorization[c]
      [] c = "approved_uid" ->
            IF operation.approved = None THEN None ELSE operation.approved.uid
      [] c = "approved_resource_version" ->
            IF operation.approved = None THEN None ELSE operation.approved.version
      [] c = "write_strategy" -> WRITE_STRATEGY
      [] c = "target_uid" -> operation.target.uid
      [] c = "target_resource_version" -> operation.target.version
      [] c = "requested_generation" -> generation
      [] c = "result" -> result
StatementFrom(operation, observation, generation, result) ==
    [c \in StatementColumns |-> StatedValue(operation, observation, generation, result, c)]

\* freeze_observation
FreezeObservation(h, observation) ==
    /\ Bound(h, "apply_started")
    /\ LET operation == handle[h].loaded
           outcome == [uid |-> operation.target.uid,
                       generation |-> IF operation.response = None THEN None
                                      ELSE operation.response.generation]
           image == operation.request["immutable_image_digest"]
           Freeze(generation, result) ==
              Pend(h, row, Set(observation, [state |-> "receiver_observed", result |-> result,
                                             requested_generation |-> generation]),
                   [operation EXCEPT !.state = "receiver_observed",
                       !.response = IF @ = None THEN None
                                    ELSE [@ EXCEPT !.generation = generation],
                       !.statement = StatementFrom(operation, observation, generation,
                                                   result)])
       IN  Freeze(RequestedGeneration(FactsOf(observation), Id, image, outcome),
                  ResultAsSql[ObservationResult(FactsOf(observation), Id, image, outcome)])

\* commit_receipt, of the candidate signed over the statement of the operation.
CommitReceipt(h, key) ==
    /\ Bound(h, "receiver_observed")
    /\ LET Commit(bytes) ==
              Pend(h, row, [state |-> "finalized", receipt_bytes |-> bytes,
                            receipt_digest |-> DigestOf(bytes), receipt_key_id |-> key],
                   [handle[h].loaded EXCEPT !.state = "finalized",
                       !.receipt = [bytes |-> bytes, key |-> key]])
       IN  Commit([key |-> key, statement |-> handle[h].loaded.statement])

\* Mutant of Replaceable: the columns are written over whatever is there.
ReplaceableAnyway(write) ==
    IF write.expected = NoRow THEN row = NoRow /\ peers[Id] = "absent" ELSE row # NoRow

\* replace_sqlite: the record is the expected one, or there is none in either table
\* and the journal has room.
Replaceable(write) ==
    /\ row = write.expected
    /\ IF write.expected = NoRow
       THEN peers[Id] = "absent" /\ ~JournalFull(Journalled)
       ELSE InBounds(row) /\ write.next # write.expected

\* update_changed_columns
Updated(write) ==
    IF write.expected = NoRow THEN write.next
    ELSE [c \in Columns |-> IF write.next[c] # write.expected[c] THEN write.next[c] ELSE row[c]]

\* The transaction commits, and is acknowledged or not; or it does not commit.
Replace(h) ==
    /\ handle[h].pending # None
    /\ \/ /\ Replaceable(handle[h].pending)
          /\ row' = Updated(handle[h].pending) /\ history' = handle[h].pending.then
       \/ UNCHANGED <<row, history>>
    /\ handle' = [handle EXCEPT ![h] = Idle(handle[h])]
    /\ UNCHANGED <<database, peers, lock, edits, layoutEdits>>

\* A caller gives up what it holds: a read or a binding was refused.
Abandon(h) ==
    /\ handle[h].loaded # None /\ handle[h].pending = None
    /\ handle' = [handle EXCEPT ![h] = Idle(handle[h])]
    /\ UNCHANGED <<database, row, peers, lock, history, edits, layoutEdits>>

\* Admission and completion of a Git operation: the same transaction on the other
\* table, and a row that ends.
AdmitGit(h, o) ==
    /\ handle[h].worker /\ handle[h].loaded = None
    /\ peers[o] = "absent" /\ (o = Id => row = NoRow) /\ ~JournalFull(Journalled)
    /\ peers' = [peers EXCEPT ![o] = "authorized"]
    /\ UNCHANGED <<database, row, lock, handle, history, edits, layoutEdits>>

FinishGit(h, o) ==
    /\ handle[h].worker /\ handle[h].loaded = None
    /\ peers[o] = "authorized"
    /\ peers' = [peers EXCEPT ![o] = "finalized"]
    /\ UNCHANGED <<database, row, lock, handle, history, edits, layoutEdits>>

-----------------------------------------------------------------------------
(* Edits by other means.                                                   *)

\* What a STRICT column can be made to hold.
EditedValues(column) ==
    LET nullable == IF ExpectedColumnNotNull(column) THEN {} ELSE {None}
    IN  CASE ExpectedColumnType(column) = "INTEGER" -> nullable \cup EditedNumbers
          [] ExpectedColumnType(column) = "BLOB" -> nullable \cup {Other, Oversized}
          [] column = "state" -> (OperationStates \ {"absent"}) \cup {Invalid}
          [] column = "result" -> nullable \cup {Invalid, "SUCCEEDED", "FAILED", "UNKNOWN"}
          [] column = "target_rejection" -> nullable \cup RejectionWords \cup {Invalid}
          [] OTHER -> nullable \cup {Other, Invalid, Oversized}

EditColumn(column) ==
    /\ edits < MaxEdits /\ row # NoRow
    /\ \E value \in EditedValues(column) \ {row[column]} :
          row' = [row EXCEPT ![column] = value]
    /\ edits' = edits + 1
    /\ UNCHANGED <<database, peers, lock, handle, history, layoutEdits>>

\* While the journal is not open: another table, an index, a column, a table that is
\* not STRICT.
EditLayout ==
    /\ layoutEdits < MaxLayoutEdits /\ database # NoDatabase
    /\ \A h \in Handles : ~handle[h].open
    /\ \/ \E entry \in {Entry("table", "notes", "notes"),
                         Entry("trigger", "audit", "git_ref_operations"),
                         Entry("index", "by state", "kubernetes_image_operations")} :
             database' = [database EXCEPT !.entries = @ \cup {entry}]
       \/ \E table \in DOMAIN database.defined :
             database' = [database EXCEPT !.defined[table] = Append(@, Text("note"))]
       \/ \E table \in database.strict : database' = [database EXCEPT !.strict = @ \ {table}]
    /\ layoutEdits' = layoutEdits + 1
    /\ UNCHANGED <<row, peers, lock, handle, history, edits>>

Next ==
    \/ \E h \in Handles :
          \/ Open(h) \/ End(h) \/ TryLockWorker(h) \/ DropWorker(h)
          \/ \E request \in Requests : Load(h, request)
          \/ InsertRequested(h) \/ MarkAuthorized(h)
          \/ \E rejection \in Rejections : MarkNotAttempted(h, rejection)
          \/ \E target \in Targets :
                MarkStaleApproval(h, target) \/ MarkApplyStarted(h, target)
          \/ \E outcome \in Outcomes : RecordApplyOutcome(h, outcome)
          \/ \E observation \in Observations : FreezeObservation(h, observation)
          \/ \E key \in ReceiptKeys : CommitReceipt(h, key)
          \/ Replace(h) \/ Abandon(h)
          \/ \E o \in Peers \cup {Id} : AdmitGit(h, o) \/ FinishGit(h, o)
    \/ \E column \in Columns \ {"operation_id"} : EditColumn(column)
    \/ EditLayout

Spec == Init /\ [][Next]_vars

-----------------------------------------------------------------------------
(* Properties.                                                             *)

\* A write that commits leaves a record that reads back as the operation its caller
\* decided from, moved on by exactly that write: no column is lost or exchanged
\* between writers and readers, and an edit that slipped in between decision and
\* transaction makes the write fail instead of being mixed into it.
WritesReadBack ==
    [][row' # row /\ edits' = edits => Decode(row') = history']_vars

\* Once a receipt is committed, what a reader is shown of the operation is what was
\* signed: an edit of any column afterwards leaves the request, the authority, the
\* facts and the receipt as they were, or the record is refused.
FinalizedFactsAreSealed ==
    LET Agrees(read) ==
           read.state = "finalized" =>
              /\ read.request = history.request
              /\ read.authorization = history.authorization
              /\ read.statement = history.statement
              /\ read.receipt = history.receipt
              /\ read.receipt.bytes.statement = read.statement
    IN  row # NoRow => Agrees(RetainedRead(row))

\* A journal nobody edited opens again, whatever was admitted into it and however far
\* it got: what is created is recognised, what is written is within the bounds,
\* admission leaves no more identities, pages and bytes than opening accepts, and an
\* identity is in one of the two tables only, whichever effect was first.
AdmittedHistoryReopens ==
    edits = 0 /\ layoutEdits = 0 /\ database # NoDatabase =>
       ValidSnapshot /\ (row = NoRow \/ peers[Id] = "absent")

\* A journal that is open has exactly the two tables: no trigger, index, column or
\* further table that its capacity does not account for.
OpenedLayoutIsExact ==
    (\E h \in Handles : handle[h].open) => database = InitializeSchema

\* The worker lock is never left behind: the handle that holds it has a live worker,
\* so a lease whose unlocking failed does not stop the other processes.
LeaseHasAWorker == lock # None => handle[lock].worker
=============================================================================
