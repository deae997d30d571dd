-------------------------- MODULE ReopeningProofs ---------------------------
(***************************************************************************)
(* Theorems about the records of the journal (JournalRecords) that rest on *)
(* the sizes and the lease of RecordsProofs: the layout of an open journal,*)
(* what a committed receipt seals, and that an unedited journal opens      *)
(* again.                                                                  *)
(***************************************************************************)
EXTENDS RecordsProofs, FiniteSetTheorems

-----------------------------------------------------------------------------
(* The layout.                                                             *)

Tables == {"kubernetes_image_operations", "git_ref_operations"}

\* A database somebody has made or edited: its three parts, with both tables in it.
DatabaseShape(d) ==
    /\ d = [entries |-> d.entries, defined |-> d.defined, strict |-> d.strict]
    /\ IsFiniteSet(d.entries)
    /\ d.defined = [kubernetes_image_operations |-> d.defined.kubernetes_image_operations,
                    git_ref_operations |-> d.defined.git_ref_operations]
    /\ d.strict \subseteq Tables

\* The journal that is open, or was never edited, is as it was created.
LayoutInv ==
    /\ database = NoDatabase \/ DatabaseShape(database)
    /\ layoutEdits \in Nat
    /\ layoutEdits = 0 => database \in {NoDatabase, InitializeSchema}
    /\ OpenedLayoutIsExact

SchemaEntries ==
    TableEntries("kubernetes_image_operations") \cup TableEntries("git_ref_operations")

\* The two tables and their indexes are four entries.
LEMMA SchemaEntriesCount ==
    IsFiniteSet(SchemaEntries) /\ Cardinality(SchemaEntries) = 4
<1> DEFINE a == Entry("table", "kubernetes_image_operations", "kubernetes_image_operations")
           b == Entry("index", "primary key", "kubernetes_image_operations")
           c == Entry("table", "git_ref_operations", "git_ref_operations")
           d == Entry("index", "primary key", "git_ref_operations")
<1>1. SchemaEntries = ((({} \cup {a}) \cup {b}) \cup {c}) \cup {d}
  BY DEF SchemaEntries, TableEntries
<1>2. a # b /\ a # c /\ b # c /\ a # d /\ b # d /\ c # d
  BY Zenon DEF Entry
<1> HIDE DEF a, b, c, d
<1>3. IsFiniteSet({} \cup {a}) /\ Cardinality({} \cup {a}) = 1
  BY FS_EmptySet, FS_AddElement
<1>4. IsFiniteSet(({} \cup {a}) \cup {b}) /\ Cardinality(({} \cup {a}) \cup {b}) = 2
  BY <1>2, <1>3, FS_AddElement
<1>5. /\ IsFiniteSet((({} \cup {a}) \cup {b}) \cup {c})
      /\ Cardinality((({} \cup {a}) \cup {b}) \cup {c}) = 3
  BY <1>2, <1>4, FS_AddElement
<1>6. QED
  BY <1>1, <1>2, <1>5, FS_AddElement

\* Opening recognises exactly the layout that initialize_schema creates.
LEMMA RecognizedIsInitial ==
    ASSUME NEW d, DatabaseShape(d), RecognizedSupportedSchema(d)
    PROVE  d = InitializeSchema
<1>1. SchemaEntries \subseteq d.entries
  BY Zenon DEF RecognizedSupportedSchema, BothRecognized, RecognizedSchema, SchemaEntries
<1>2. d.entries = SchemaEntries
  <2>1. IsFiniteSet(d.entries) /\ Cardinality(d.entries) = 4
    BY Zenon DEF DatabaseShape, RecognizedSupportedSchema
  <2>2. QED
    BY Zenon, <1>1, <2>1, SchemaEntriesCount, FS_Subset
<1>3. /\ d.defined["kubernetes_image_operations"] = CreateOperationTable
      /\ d.defined["git_ref_operations"] = CreateGitTable
      /\ Tables \subseteq d.strict
  BY Zenon DEF RecognizedSupportedSchema, BothRecognized, RecognizedSchema, Tables
<1>4. d.strict = Tables
  BY Zenon, <1>3 DEF DatabaseShape
<1>5. QED
  BY Zenon, <1>2, <1>3, <1>4 DEF DatabaseShape, InitializeSchema, SchemaEntries, Tables

\* What initialize_schema creates has the shape of a database.
LEMMA InitialShape == DatabaseShape(InitializeSchema) /\ InitializeSchema # NoDatabase
<1>1. DatabaseShape(InitializeSchema)
  BY Zenon, SchemaEntriesCount DEF DatabaseShape, InitializeSchema, SchemaEntries, Tables
<1>2. InitializeSchema.strict # NoDatabase.strict
  BY DEF InitializeSchema, NoDatabase
<1>3. QED
  BY Zenon, <1>1, <1>2

\* An edit leaves a database with both tables.
LEMMA EditKeepsShape ==
    ASSUME LayoutInv, EditLayout PROVE DatabaseShape(database')
<1>1. DatabaseShape(database)
  BY Zenon DEF LayoutInv, EditLayout
<1>2. ASSUME NEW entry, database' = [database EXCEPT !.entries = @ \cup {entry}]
      PROVE  DatabaseShape(database')
  <2>1. IsFiniteSet(database.entries \cup {entry})
    BY Zenon, <1>1, FS_AddElement DEF DatabaseShape
  <2>2. QED
    BY Zenon, <1>1, <1>2, <2>1 DEF DatabaseShape
<1>3. ASSUME NEW table \in DOMAIN database.defined,
             database' = [database EXCEPT !.defined[table] = Append(@, Text("note"))]
      PROVE  DatabaseShape(database')
  <2>1. PICK column : column = Append(database.defined[table], Text("note"))
    BY ZenonT(30)
  <2>2. database' = [database EXCEPT !.defined = [database.defined EXCEPT ![table] = column]]
    BY Zenon, <1>1, <1>3, <2>1 DEF DatabaseShape
  <2>3. QED
    BY Zenon, <1>1, <2>2 DEF DatabaseShape
<1>4. ASSUME NEW table, database' = [database EXCEPT !.strict = @ \ {table}]
      PROVE  DatabaseShape(database')
  BY Zenon, <1>1, <1>4 DEF DatabaseShape
<1>5. QED
  BY Zenon, <1>2, <1>3, <1>4 DEF EditLayout

\* The layout invariant is inductive.
LEMMA LayoutStep ==
    ASSUME LeaseInv, LayoutInv, [Next]_vars PROVE LayoutInv'
<1>1. ASSUME NEW h \in Handles, Open(h) PROVE LayoutInv'
  <2>1. database' = InitializeSchema
    BY Zenon, <1>1, RecognizedIsInitial DEF Open, ValidSnapshot, LayoutInv
  <2>2. QED
    BY Zenon, <1>1, <2>1, InitialShape DEF Open, LayoutInv, OpenedLayoutIsExact
<1>2. ASSUME NEW h \in Handles, End(h) \/ TryLockWorker(h) \/ DropWorker(h) PROVE LayoutInv'
  <2>1. UNCHANGED <<database, layoutEdits>>
    BY ZenonT(30), <1>2 DEF End, TryLockWorker, DropWorker
  <2>2. \A g \in Handles : handle'[g].open => handle[g].open
    BY Zenon, <1>2 DEF End, Closed, TryLockWorker, DropWorker, Idle, LeaseInv, HandleShape,
        Fields
  <2>3. QED
    BY <2>1, <2>2 DEF LayoutInv, OpenedLayoutIsExact
<1>3. ASSUME NEW h \in Handles, Call(h) PROVE LayoutInv'
  BY Zenon, <1>3, CallKeeps DEF KeepsLease, LayoutInv, OpenedLayoutIsExact, LeaseInv
<1>4. ASSUME NEW column, EditColumn(column) PROVE LayoutInv'
  BY Zenon, <1>4 DEF EditColumn, LayoutInv, OpenedLayoutIsExact
<1>5. CASE EditLayout
  <2>1. DatabaseShape(database')
    BY Zenon, <1>5, EditKeepsShape
  <2>2. \A h \in Handles : ~handle'[h].open
    BY Zenon, <1>5 DEF EditLayout
  <2>3. layoutEdits' \in Nat \ {0}
    <3>1. layoutEdits' = layoutEdits + 1 /\ layoutEdits \in Nat
      BY Zenon, <1>5, Zenon DEF EditLayout, LayoutInv
    <3>2. QED
      BY <3>1
  <2>4. QED
    BY <2>1, <2>2, <2>3 DEF LayoutInv, OpenedLayoutIsExact
<1>6. CASE UNCHANGED vars
  BY Zenon, <1>6 DEF vars, LayoutInv, OpenedLayoutIsExact
<1>7. QED
  BY Zenon, <1>1, <1>2, <1>3, <1>4, <1>5, <1>6, StepCases

\* The layout invariant holds in every state.
LEMMA LayoutHolds == Spec => []LayoutInv
<1>1. Init => LayoutInv
  BY DEF Init, Closed, LayoutInv, OpenedLayoutIsExact
<1>2. LeaseInv /\ LayoutInv /\ [Next]_vars => LayoutInv'
  BY LayoutStep
<1>3. QED
  BY <1>1, <1>2, LeaseHolds, PTL DEF Spec

\* A journal that is open has exactly the tables that initialize_schema creates, however
\* often its layout was edited while it was closed: recognized_supported_schema accepts
\* no other.
THEOREM OpenedLayouts == Spec => []OpenedLayoutIsExact
<1>1. LayoutInv => OpenedLayoutIsExact
  BY Zenon DEF LayoutInv
<1>2. QED
  BY <1>1, LayoutHolds, PTL

-----------------------------------------------------------------------------
(* What a committed receipt seals.                                         *)

\* Receipt bytes that an edit cannot have left: it can only remove them, or put other
\* or oversized bytes in their place.
Signed(bytes) == bytes \notin {None, Other, Oversized}

\* The operation is finalized with these bytes, and is what they state.
SealedBy(operation, bytes) ==
    /\ operation.receipt = [bytes |-> bytes, key |-> bytes.key]
    /\ operation.statement = bytes.statement
    /\ operation.request = Restricted(bytes.statement, RequestColumns)
    /\ operation.authorization = Restricted(bytes.statement, AuthorizationColumns)

\* The record holds the bytes of the last committed receipt, or none that are signed;
\* and so will the record of every write that has been decided on.
SealInv ==
    /\ row # NoRow => /\ "receipt_bytes" \in DOMAIN row
                      /\ Signed(row.receipt_bytes) => SealedBy(history, row.receipt_bytes)
    /\ \A h \in Handles : handle[h].pending # None =>
          LET write == handle[h].pending
          IN  /\ "receipt_bytes" \in DOMAIN write.next
              /\ Signed(write.next.receipt_bytes) =>
                    SealedBy(write.then, write.next.receipt_bytes)

\* The receipt is a column of every record.
LEMMA ReceiptIsAColumn == "receipt_bytes" \in Columns
<1>1. 34 \in DOMAIN CurrentColumns /\ CurrentColumns[34] = "receipt_bytes"
  BY DEF CurrentColumns
<1>2. QED
  BY <1>1 DEF Columns

\* A write that is decided on is sealed when the record it leaves is.
LEMMA PendSeals ==
    ASSUME HandleShape, SealInv, NEW h \in Handles, NEW expected, NEW changes, NEW then,
           Pend(h, expected, changes, then),
           "receipt_bytes" \in DOMAIN Set(expected, changes),
           Signed(Set(expected, changes).receipt_bytes) =>
              SealedBy(then, Set(expected, changes).receipt_bytes)
    PROVE  SealInv'
<1>1. PICK next : next = Set(expected, changes)
  OBVIOUS
<1>2. handle' = [handle EXCEPT ![h].pending =
                    [expected |-> expected, next |-> next, then |-> then]]
  BY Zenon, <1>1 DEF Pend
<1>3. handle'[h].pending = [expected |-> expected, next |-> next, then |-> then]
  BY <1>2 DEF HandleShape, Fields
<1>4. \A g \in Handles \ {h} : handle'[g] = handle[g]
  BY Zenon, <1>2 DEF HandleShape
<1>5. UNCHANGED <<row, history>>
  BY Zenon DEF Pend
<1>6. ASSUME NEW g \in Handles, handle'[g].pending # None
      PROVE  LET write == handle'[g].pending
             IN  /\ "receipt_bytes" \in DOMAIN write.next
                 /\ Signed(write.next.receipt_bytes) =>
                       SealedBy(write.then, write.next.receipt_bytes)
  <2>1. CASE g = h
    BY <1>1, <1>3, <2>1
  <2>2. CASE g # h
    BY Zenon, <1>4, <1>6, <2>2 DEF SealInv
  <2>3. QED
    BY Zenon, <2>1, <2>2
<1>7. QED
  BY <1>5, <1>6 DEF SealInv

\* A write to an unfinished operation that leaves the receipt's column alone.
LEMMA UnfinishedSeals ==
    ASSUME HandleShape, SealInv, NEW h \in Handles, NEW state, NEW changes, NEW then,
           Bound(h, state),
           state \in {"requested", "authorized", "apply_started", "receiver_observed"},
           Pend(h, row, changes, then), "receipt_bytes" \notin DOMAIN changes
    PROVE  SealInv'
<1>1. row # NoRow /\ row.receipt_bytes = None
  BY Zenon, UnfinishedHasNoReceipt
<1>2. "receipt_bytes" \in DOMAIN row
  BY Zenon, <1>1 DEF SealInv
<1>3. /\ "receipt_bytes" \in DOMAIN Set(row, changes)
      /\ Set(row, changes)["receipt_bytes"] = None
  BY Zenon, <1>1, <1>2 DEF Set
<1>4. QED
  BY Zenon, <1>3, PendSeals DEF Signed

\* A step that writes no record and decides on none.
LEMMA QuietSeals ==
    ASSUME SealInv, UNCHANGED <<row, history>>,
           \A h \in Handles : handle'[h].pending \in {None, handle[h].pending}
    PROVE  SealInv'
  BY Zenon DEF SealInv

\* An insertion has no receipt.
LEMMA InsertSeals ==
    ASSUME HandleShape, SealInv, NEW h \in Handles, InsertRequested(h)
    PROVE  SealInv'
<1> DEFINE request == handle[h].request
           approval == IF request.approved = None THEN [approved_uid |-> None]
                       ELSE [approved_uid |-> request.approved.uid,
                             approved_resource_version |-> request.approved.version]
           first == Set(Set(Empty, Restricted(request, GrantedColumns)), approval)
           next == Set(first, [state |-> "requested"])
<1>1. "receipt_bytes" \in DOMAIN Empty /\ Empty["receipt_bytes"] = None
  BY Zenon, ReceiptIsAColumn DEF Empty, Set
<1>2. /\ "receipt_bytes" \in DOMAIN Set(Empty, Restricted(request, GrantedColumns))
      /\ Set(Empty, Restricted(request, GrantedColumns))["receipt_bytes"] = None
  <2>1. "receipt_bytes" \notin DOMAIN Restricted(request, GrantedColumns)
    BY Zenon DEF Restricted, GrantedColumns, RequestColumns, AuthorizationColumns
  <2>2. QED
    BY Zenon, <1>1, <2>1 DEF Set
<1>3. "receipt_bytes" \in DOMAIN first /\ first["receipt_bytes"] = None
  <2>1. "receipt_bytes" \notin DOMAIN approval
    BY Zenon
  <2> HIDE DEF approval
  <2>2. QED
    BY Zenon, <1>2, <2>1 DEF Set
<1>4. "receipt_bytes" \in DOMAIN next /\ next["receipt_bytes"] = None
  <2> HIDE DEF first
  <2>1. "receipt_bytes" \notin DOMAIN [state |-> "requested"]
    OBVIOUS
  <2>2. QED
    BY Zenon, <1>3, <2>1 DEF Set
<1>5. PICK then : handle' = [handle EXCEPT ![h].pending =
                     [expected |-> NoRow, next |-> next, then |-> then]]
  BY Zenon DEF InsertRequested
<1>6. UNCHANGED <<row, history>>
  BY Zenon DEF InsertRequested
<1> HIDE DEF next
<1>7. handle'[h].pending = [expected |-> NoRow, next |-> next, then |-> then]
  BY Zenon, <1>5 DEF HandleShape, Fields
<1>8. \A g \in Handles \ {h} : handle'[g] = handle[g]
  BY Zenon, <1>5 DEF HandleShape
<1>9. ASSUME NEW g \in Handles, handle'[g].pending # None
      PROVE  LET write == handle'[g].pending
             IN  /\ "receipt_bytes" \in DOMAIN write.next
                 /\ Signed(write.next.receipt_bytes) =>
                       SealedBy(write.then, write.next.receipt_bytes)
  <2>1. CASE g = h
    BY <1>4, <1>7, <2>1 DEF Signed
  <2>2. CASE g # h
    BY Zenon, <1>8, <1>9, <2>2 DEF SealInv
  <2>3. QED
    BY Zenon, <2>1, <2>2
<1>10. QED
  BY Zenon, <1>6, <1>9 DEF SealInv

\* A committed receipt states the record it is written into.
LEMMA CommitSeals ==
    ASSUME HandleShape, SealInv, NEW h \in Handles, NEW key, CommitReceipt(h, key)
    PROVE  SealInv'
<1>1. PICK operation : operation = handle[h].loaded
  BY Zenon
<1>2. PICK bytes : bytes = [key |-> key, statement |-> operation.statement]
  BY Zenon
<1>3. PICK changes : changes = [state |-> "finalized", receipt_bytes |-> bytes,
                                receipt_digest |-> DigestOf(bytes), receipt_key_id |-> key]
  BY Zenon
<1>4. PICK then : then = [operation EXCEPT !.state = "finalized",
                             !.receipt = [bytes |-> bytes, key |-> key]]
  BY Zenon
<1>5. Bound(h, "receiver_observed") /\ Pend(h, row, changes, then)
  BY Zenon, <1>1, <1>2, <1>3, <1>4 DEF CommitReceipt
<1>6. operation = OperationOf(row) /\ row.state = "receiver_observed" /\ row # NoRow
  BY Zenon, <1>1, <1>5, UnfinishedHasNoReceipt
<1>7. /\ operation.statement = StatementOf(row)
      /\ operation.request = Restricted(row, RequestColumns)
      /\ operation.authorization = Restricted(row, AuthorizationColumns)
      /\ DOMAIN operation = {"state", "request", "authorization", "approved", "preflight",
                             "rejection", "target", "response", "statement", "receipt"}
  BY Zenon, <1>6 DEF OperationOf, FrozenStates
<1>8. /\ operation.request = Restricted(operation.statement, RequestColumns)
      /\ operation.authorization = Restricted(operation.statement, AuthorizationColumns)
  BY <1>7 DEF StatementOf, Restricted, StatementColumns
<1>9. SealedBy(then, bytes)
  BY Zenon, <1>2, <1>4, <1>7, <1>8 DEF SealedBy
<1>10. /\ "receipt_bytes" \in DOMAIN Set(row, changes)
       /\ Set(row, changes)["receipt_bytes"] = bytes
  <2>1. "receipt_bytes" \in DOMAIN changes /\ changes["receipt_bytes"] = bytes
    BY Zenon, <1>3
  <2>2. QED
    BY Zenon, <2>1 DEF Set
<1>11. QED
  BY Zenon, <1>5, <1>9, <1>10, PendSeals

\* A write that commits replaces the record and what is known of it together.
LEMMA ReplaceSeals ==
    ASSUME HandleShape, SealInv, NEW h \in Handles, Replace(h)
    PROVE  SealInv'
<1>1. PICK write : write = handle[h].pending
  BY Zenon
<1>2. /\ "receipt_bytes" \in DOMAIN write.next
      /\ Signed(write.next.receipt_bytes) => SealedBy(write.then, write.next.receipt_bytes)
  BY Zenon, <1>1 DEF Replace, SealInv
<1>3. \A g \in Handles : handle'[g].pending \in {None, handle[g].pending}
  BY Zenon DEF Replace, Idle, HandleShape, Fields
<1>4. CASE UNCHANGED <<row, history>>
  BY Zenon, <1>3, <1>4, QuietSeals
<1>5. CASE Replaceable(write) /\ row' = Updated(write) /\ history' = write.then
  <2>1. "receipt_bytes" \in DOMAIN row' /\ row'["receipt_bytes"] = write.next["receipt_bytes"]
    BY Zenon, <1>2, <1>5, ReceiptIsAColumn DEF Updated, Replaceable
  <2>2. QED
    BY Zenon, <1>2, <1>3, <1>5, <2>1 DEF SealInv
<1>6. QED
  BY Zenon, <1>1, <1>4, <1>5 DEF Replace

\* An edit removes the receipt, replaces it by bytes nobody signed, or leaves it.
LEMMA EditSeals ==
    ASSUME SealInv, NEW column \in Columns, EditColumn(column)
    PROVE  SealInv'
<1>1. row # NoRow /\ "receipt_bytes" \in DOMAIN row
  BY Zenon DEF EditColumn, SealInv
<1>2. PICK value \in EditedValues(column) : row' = [row EXCEPT ![column] = value]
  BY Zenon DEF EditColumn
<1>3. CASE column = "receipt_bytes"
  <2>1. EditedValues(column) = {None} \cup {Other, Oversized}
    BY Zenon, <1>3 DEF EditedValues, ExpectedColumnType, ExpectedColumnNotNull
  <2>2. "receipt_bytes" \in DOMAIN row' /\ ~Signed(row'["receipt_bytes"])
    BY Zenon, <1>1, <1>2, <1>3, <2>1 DEF Signed
  <2>3. QED
    BY <2>2 DEF EditColumn, SealInv
<1>4. CASE column # "receipt_bytes"
  <2>1. "receipt_bytes" \in DOMAIN row' /\ row'["receipt_bytes"] = row["receipt_bytes"]
    BY Zenon, <1>1, <1>2, <1>4
  <2>2. QED
    BY Zenon, <1>1, <2>1 DEF EditColumn, SealInv
<1>5. QED
  BY Zenon, <1>3, <1>4

\* The seal is inductive.
LEMMA SealStep ==
    ASSUME LeaseInv, SealInv, [Next]_vars PROVE SealInv'
<1> USE DEF LeaseInv
<1>1. ASSUME NEW h \in Handles, Open(h) \/ End(h) \/ TryLockWorker(h) \/ DropWorker(h)
      PROVE  SealInv'
  <2>1. UNCHANGED <<row, history>>
    BY Zenon, <1>1 DEF Open, End, TryLockWorker, DropWorker
  <2>2. \A g \in Handles : handle'[g].pending \in {None, handle[g].pending}
    <3>1. CASE Open(h)
      BY Zenon, <3>1 DEF Open, Closed, HandleShape
    <3>2. CASE End(h)
      BY Zenon, <3>2 DEF End, Closed, HandleShape
    <3>3. CASE TryLockWorker(h)
      BY Zenon, <3>3 DEF TryLockWorker, HandleShape, Fields
    <3>4. CASE DropWorker(h)
      BY <3>4 DEF DropWorker, Idle, HandleShape, Fields
    <3>5. QED
      BY <1>1, <3>1, <3>2, <3>3, <3>4
  <2>3. QED
    BY <2>1, <2>2, QuietSeals
<1>2. ASSUME NEW h \in Handles, Call(h) PROVE SealInv'
  <2>1. ASSUME NEW request \in Requests, Load(h, request) PROVE SealInv'
    <3>1. \A g \in Handles : handle'[g].pending \in {None, handle[g].pending}
      BY Zenon, <2>1 DEF Load, HandleShape, Fields
    <3>2. QED
      BY Zenon, <2>1, <3>1, QuietSeals DEF Load
  <2>2. CASE InsertRequested(h)
    BY Zenon, <2>2, InsertSeals
  <2>3. CASE MarkAuthorized(h)
    <3>1. PICK changes :
             changes = Set(Restricted(handle[h].request, AuthorizationColumns),
                           [state |-> "authorized"])
      BY Zenon
    <3>2. "receipt_bytes" \notin DOMAIN changes
      BY Zenon, <3>1 DEF Set, Restricted, AuthorizationColumns
    <3>3. QED
      BY Zenon, <2>3, <3>1, <3>2, UnfinishedSeals DEF MarkAuthorized
  <2>4. ASSUME NEW rejection \in Rejections, MarkNotAttempted(h, rejection) PROVE SealInv'
    <3>1. PICK changes : changes = [state |-> "not_attempted", target_rejection |-> rejection]
      BY Zenon
    <3>2. QED
      BY <2>4, <3>1, UnfinishedSeals DEF MarkNotAttempted
  <2>5. ASSUME NEW target \in Targets, MarkStaleApproval(h, target) PROVE SealInv'
    <3>1. PICK changes :
             changes = [state |-> "not_attempted", target_rejection |-> "stale_approval",
                        preflight_uid |-> target.uid,
                        preflight_resource_version |-> target.version]
      BY Zenon
    <3>2. QED
      BY <2>5, <3>1, UnfinishedSeals DEF MarkStaleApproval
  <2>6. ASSUME NEW target \in Targets, MarkApplyStarted(h, target) PROVE SealInv'
    <3>1. PICK changes :
             changes = [state |-> "apply_started", write_strategy |-> WRITE_STRATEGY,
                        apply_attempted |-> 1,
                        target_uid |-> target.uid, preflight_uid |-> target.uid,
                        target_resource_version |-> target.version,
                        preflight_resource_version |-> target.version]
      BY Zenon
    <3>2. QED
      BY <2>6, <3>1, UnfinishedSeals DEF MarkApplyStarted
  <2>7. ASSUME NEW outcome \in Outcomes, RecordApplyOutcome(h, outcome) PROVE SealInv'
    <3>1. PICK changes : changes = [apply_accepted |-> outcome.accepted,
                                    requested_generation |-> outcome.generation,
                                    apply_resource_version |-> outcome.version]
      BY Zenon
    <3>2. QED
      BY <2>7, <3>1, UnfinishedSeals DEF RecordApplyOutcome
  <2>8. ASSUME NEW observation \in Observations, FreezeObservation(h, observation)
        PROVE  SealInv'
    <3>1. PICK generation, result, then :
             Pend(h, row, Set(observation, [state |-> "receiver_observed", result |-> result,
                                            requested_generation |-> generation]), then)
      BY Zenon, <2>8, Zenon DEF FreezeObservation
    <3>2. PICK changes :
             changes = Set(observation, [state |-> "receiver_observed", result |-> result,
                                         requested_generation |-> generation])
      BY Zenon
    <3>3. "receipt_bytes" \notin DOMAIN changes
      BY <3>2, ObservationsAssumption DEF Set, ReceiverColumns
    <3>4. Bound(h, "apply_started")
      BY Zenon, <2>8 DEF FreezeObservation
    <3>5. QED
      BY <3>1, <3>2, <3>3, <3>4, UnfinishedSeals
  <2>9. ASSUME NEW key \in ReceiptKeys, CommitReceipt(h, key) PROVE SealInv'
    BY Zenon, <2>9, CommitSeals
  <2>10. CASE Replace(h)
    BY <2>10, ReplaceSeals
  <2>11. CASE Abandon(h)
    <3>1. \A g \in Handles : handle'[g].pending \in {None, handle[g].pending}
      BY Zenon, <2>11 DEF Abandon, Idle, HandleShape, Fields
    <3>2. QED
      BY <2>11, <3>1, QuietSeals DEF Abandon
  <2>12. ASSUME NEW o \in Peers \cup {Id}, AdmitGit(h, o) \/ FinishGit(h, o) PROVE SealInv'
    BY Zenon, <2>12, QuietSeals DEF AdmitGit, FinishGit
  <2>13. QED
    BY <1>2, <2>1, <2>2, <2>3, <2>4, <2>5, <2>6, <2>7, <2>8, <2>9, <2>10, <2>11, <2>12 DEF Call
<1>3. ASSUME NEW column \in Columns \ {"operation_id"}, EditColumn(column) PROVE SealInv'
  BY Zenon, <1>3, EditSeals
<1>4. CASE EditLayout
  BY Zenon, <1>4, QuietSeals DEF EditLayout
<1>5. CASE UNCHANGED vars
  BY Zenon, <1>5, QuietSeals DEF vars
<1>6. QED
  BY Zenon, <1>1, <1>2, <1>3, <1>4, <1>5, StepCases

\* The seal holds in every state.
LEMMA SealHolds == Spec => []SealInv
<1>1. Init => SealInv
  BY DEF Init, Closed, SealInv
<1>2. LeaseInv /\ SealInv /\ [Next]_vars => SealInv'
  BY SealStep
<1>3. QED
  BY <1>1, <1>2, LeaseHolds, PTL DEF Spec

\* A record that is read as finalized carries the bytes that were signed, and is what
\* they state.
LEMMA SealedReads ==
    ASSUME SealInv PROVE FinalizedFactsAreSealed
<1> SUFFICES ASSUME row # NoRow, NEW read, read = RetainedRead(row), read.state = "finalized"
             PROVE  /\ read.request = history.request
                    /\ read.authorization = history.authorization
                    /\ read.statement = history.statement
                    /\ read.receipt = history.receipt
                    /\ read.receipt.bytes.statement = read.statement
  BY Zenon DEF FinalizedFactsAreSealed
<1>1. read \in {Refused, Decode(row)}
  BY Zenon DEF RetainedRead, AuthorizedRead
<1>2. read = Decode(row) /\ read.state # "refused"
  BY <1>1 DEF Refused
<1>3. WellFormed(row) /\ read = OperationOf(row)
  BY Zenon, <1>2, DecodeFacts
<1>4. row.state = "finalized"
  BY <1>3 DEF OperationOf
<1>5. HasReceipt(row)
  BY Zenon, <1>3, <1>4 DEF WellFormed, PhaseFits
<1>6. FrozenReceiptIsValid(row)
  BY <1>3, <1>5 DEF WellFormed, SnapshotReceipt, HasReceipt
<1>7. PICK bytes : bytes = row.receipt_bytes
  BY Zenon
<1>8. /\ Signed(bytes) /\ row.receipt_key_id = bytes.key
      /\ bytes.statement = StatementOf(row)
  BY Zenon, <1>5, <1>6, <1>7 DEF HasReceipt, FrozenReceiptIsValid, Signed
<1>9. SealedBy(history, bytes)
  BY Zenon, <1>7, <1>8 DEF SealInv
<1>10. /\ read.request = Restricted(row, RequestColumns)
       /\ read.authorization = Restricted(row, AuthorizationColumns)
       /\ read.statement = StatementOf(row)
       /\ read.receipt = [bytes |-> bytes, key |-> bytes.key]
  BY <1>3, <1>4, <1>5, <1>7, <1>8 DEF OperationOf, FrozenStates
<1>11. /\ Restricted(row, RequestColumns) = Restricted(StatementOf(row), RequestColumns)
       /\ Restricted(row, AuthorizationColumns)
             = Restricted(StatementOf(row), AuthorizationColumns)
  BY Zenon DEF StatementOf, Restricted, StatementColumns
<1>12. QED
  BY <1>8, <1>9, <1>10, <1>11 DEF SealedBy

\* Once a receipt is committed, whatever is edited afterwards and however often, a record
\* that is still read as finalized shows the request, the authority, the facts and the
\* receipt that were committed (validate_frozen_receipt and the comparison with the row).
THEOREM FinalizedFactsSealed == Spec => []FinalizedFactsAreSealed
  BY SealHolds, SealedReads, PTL

-----------------------------------------------------------------------------
(* The layout that is created is the layout that is recognised.            *)

RequiredTexts ==
    {"operation_id", "namespace", "deployment", "container", "immutable_image_digest",
     "repository_id", "ref_name", "old_commit", "new_commit", "state"}
Counters == {"target_read_failures", "apply_attempted"}
Blobs == {"receipt_bytes", "signed_authorization_grant"}
Numbers ==
    {"apply_accepted", "requested_generation", "current_generation", "observed_generation",
     "desired_replicas", "updated_replicas", "available_replicas", "unavailable_replicas",
     "available_condition", "progress_deadline_exceeded"}
Texts ==
    {"authorization_id", "authorization_signer_key_id", "authorization_grant_digest",
     "write_strategy", "target_rejection", "target_uid", "target_resource_version",
     "apply_resource_version", "receiver_uid", "receiver_image",
     "receiver_operation_marker", "receiver_resource_version", "result", "receipt_digest",
     "receipt_key_id", "rollout_condition_type", "rollout_condition_status",
     "rollout_condition_reason", "approved_uid", "approved_resource_version",
     "preflight_uid", "preflight_resource_version", "acknowledgement",
     "observed_ref_kind", "observed_commit"}

\* What recognized_schema expects SQLite to say of a column.
ExpectedColumn(name) ==
    Column(name, ExpectedColumnType(name), ExpectedColumnNotNull(name),
           ExpectedColumnDefault(name))

\* Every column is expected as the statements that create the tables declare it.
LEMMA ExpectedColumns ==
    /\ \A name \in RequiredTexts : ExpectedColumn(name) = TextNotNull(name)
    /\ \A name \in Counters : ExpectedColumn(name) = IntegerCounter(name)
    /\ \A name \in Blobs : ExpectedColumn(name) = Blob(name)
    /\ \A name \in Numbers : ExpectedColumn(name) = Integer(name)
    /\ \A name \in Texts : ExpectedColumn(name) = Text(name)
<1>1. ASSUME NEW name \in RequiredTexts PROVE ExpectedColumn(name) = TextNotNull(name)
  <2>1. ExpectedColumnType(name) = "TEXT"
    BY Zenon DEF RequiredTexts, ExpectedColumnType
  <2>2. ExpectedColumnNotNull(name) = TRUE
    BY Zenon DEF RequiredTexts, ExpectedColumnNotNull
  <2>3. ExpectedColumnDefault(name) = "none"
    BY Zenon DEF RequiredTexts, ExpectedColumnDefault
  <2>4. QED
    BY Zenon, <2>1, <2>2, <2>3 DEF ExpectedColumn, TextNotNull
<1>2. ASSUME NEW name \in Counters PROVE ExpectedColumn(name) = IntegerCounter(name)
  <2>1. ExpectedColumnType(name) = "INTEGER"
    BY DEF Counters, ExpectedColumnType
  <2>2. ExpectedColumnNotNull(name) = TRUE
    BY Zenon DEF Counters, ExpectedColumnNotNull
  <2>3. ExpectedColumnDefault(name) = "0"
    BY DEF Counters, ExpectedColumnDefault
  <2>4. QED
    BY <2>1, <2>2, <2>3 DEF ExpectedColumn, IntegerCounter
<1>3. ASSUME NEW name \in Blobs PROVE ExpectedColumn(name) = Blob(name)
  <2>1. ExpectedColumnType(name) = "BLOB"
    BY Zenon DEF Blobs, ExpectedColumnType
  <2>2. ExpectedColumnNotNull(name) = FALSE
    BY DEF Blobs, ExpectedColumnNotNull
  <2>3. ExpectedColumnDefault(name) = "none"
    BY DEF Blobs, ExpectedColumnDefault
  <2>4. QED
    BY Zenon, <2>1, <2>2, <2>3 DEF ExpectedColumn, Blob
<1>4. ASSUME NEW name \in Numbers PROVE ExpectedColumn(name) = Integer(name)
  <2>1. ExpectedColumnType(name) = "INTEGER"
    BY Zenon DEF Numbers, ExpectedColumnType
  <2>2. ExpectedColumnNotNull(name) = FALSE
    BY DEF Numbers, ExpectedColumnNotNull
  <2>3. ExpectedColumnDefault(name) = "none"
    BY Zenon DEF Numbers, ExpectedColumnDefault
  <2>4. QED
    BY Zenon, <2>1, <2>2, <2>3 DEF ExpectedColumn, Integer
<1>5. ASSUME NEW name \in Texts PROVE ExpectedColumn(name) = Text(name)
  <2>1. ExpectedColumnType(name) = "TEXT"
    BY Zenon DEF Texts, ExpectedColumnType
  <2>2. ExpectedColumnNotNull(name) = FALSE
    BY DEF Texts, ExpectedColumnNotNull
  <2>3. ExpectedColumnDefault(name) = "none"
    BY Zenon DEF Texts, ExpectedColumnDefault
  <2>4. QED
    BY Zenon, <2>1, <2>2, <2>3 DEF ExpectedColumn, Text
<1>6. QED
  BY Zenon, <1>1, <1>2, <1>3, <1>4, <1>5

\* recognized_supported_schema accepts what initialize_schema creates.
LEMMA InitialIsRecognized == RecognizedSupportedSchema(InitializeSchema)
<1> DEFINE d == InitializeSchema
<1>1. Cardinality(d.entries) = 4
  BY Zenon, SchemaEntriesCount DEF InitializeSchema, SchemaEntries
<1>2. \A table \in Tables : {e \in d.entries : e.table = table} = TableEntries(table)
  <2>1. d.entries = TableEntries("kubernetes_image_operations")
                    \cup TableEntries("git_ref_operations")
    BY Zenon DEF InitializeSchema
  <2>2. \A table : \A e \in TableEntries(table) : e.table = table
    <3> TAKE table
    <3> TAKE e \in TableEntries(table)
    <3>1. e = Entry("table", table, table) \/ e = Entry("index", "primary key", table)
      BY Zenon DEF TableEntries
    <3>2. Entry("table", table, table).table = table
      BY Zenon DEF Entry
    <3>3. Entry("index", "primary key", table).table = table
      BY Zenon DEF Entry
    <3>4. QED
      BY Zenon, <3>1, <3>2, <3>3
  <2> HIDE DEF d
  <2>3. QED
    BY Zenon, <2>1, <2>2 DEF Tables
<1>3. /\ d.defined["kubernetes_image_operations"] = CreateOperationTable
      /\ d.defined["git_ref_operations"] = CreateGitTable
      /\ d.strict = Tables
  BY Zenon DEF InitializeSchema, Tables
<1>4. /\ Len(CreateOperationTable) = 42 /\ Len(CurrentColumns) = 42
      /\ DOMAIN CurrentColumns = 1 .. 42
  BY DEF CreateOperationTable, CurrentColumns
<1>5. \A i \in 1 .. 42 : CreateOperationTable[i] = ExpectedColumn(CurrentColumns[i])
  BY ExpectedColumns
  DEF CurrentColumns, CreateOperationTable, RequiredTexts, Counters, Blobs, Numbers, Texts
<1>6. /\ Len(CreateGitTable) = 17 /\ Len(GitColumns) = 17 /\ DOMAIN GitColumns = 1 .. 17
  BY DEF CreateGitTable, GitColumns
<1>7. \A i \in 1 .. 17 : CreateGitTable[i] = ExpectedColumn(GitColumns[i])
  BY ExpectedColumns DEF GitColumns, CreateGitTable, RequiredTexts, Blobs, Texts
<1> HIDE DEF d
<1>8. RecognizedSchema(d, "kubernetes_image_operations", CurrentColumns, CreateOperationTable)
  BY Zenon, <1>2, <1>3, <1>4, <1>5 DEF RecognizedSchema, Tables, ExpectedColumn
<1>9. RecognizedSchema(d, "git_ref_operations", GitColumns, CreateGitTable)
  BY <1>2, <1>3, <1>6, <1>7 DEF RecognizedSchema, Tables, ExpectedColumn
<1>10. QED
  BY Zenon, <1>1, <1>8, <1>9 DEF RecognizedSupportedSchema, BothRecognized, d

-----------------------------------------------------------------------------
(* What is admitted stays within what opening accepts.                     *)

\* A record that fits is within the bounds opening demands.
LEMMA FittingRowsAreBounded ==
    ASSUME NEW r, FitsRow(r)
    PROVE  RequirePersistedBounds(1, {Sizes(r)})
<1>1. ASSUME NEW c \in Columns, ExpectedColumnType(c) # "INTEGER"
      PROVE  Sizes(r)[c] <= FieldLimit(c)
  <2>1. r[c] # Oversized
    BY Zenon DEF FitsRow, Fits
  <2>2. Sizes(r)[c] = Bytes(c, r[c])
    BY Zenon DEF Sizes
  <2>3. FactBytes[c] = FactBytesMax(c)
    BY Zenon DEF FactBytes
  <2>4. FactBytesMax(c) \in Nat /\ FactBytesMax(c) <= FieldLimit(c) /\ FieldLimit(c) \in Nat
    BY <1>1 DEF FactBytesMax, FieldLimit, GRANT_BYTES_MAX, PERSISTED_VALUE_BYTES_MAX
  <2>5. Bytes(c, r[c]) \in {0, FactBytesMax(c)}
    BY <2>1, <2>3 DEF Bytes
  <2>6. QED
    BY <2>2, <2>4, <2>5
<1>2. DOMAIN Sizes(r) = Columns
  BY Zenon DEF Sizes
<1>3. QED
  BY <1>1, <1>2 DEF RequirePersistedBounds, OPERATION_COUNT_MAX

\* One table holds an identity, a write to a record starts from an unfinished one, and
\* until somebody edits a record no more is retained than the capacities allow.
CountInv ==
    /\ DOMAIN peers = Peers \cup {Id}
    /\ row = NoRow \/ peers[Id] = "absent"
    /\ \A h \in Handles : handle[h].pending # None =>
          \/ handle[h].pending.expected = NoRow
          \/ handle[h].pending.expected.state \in UnfinishedStates
    /\ edits = 0 => WithinCapacities(Journalled)

\* Both tables together name finitely many identities.
LEMMA JournalledFacts ==
    /\ IsFiniteSet(DOMAIN Journalled)
    /\ \A o \in Peers \cup {Id} :
          Journalled[o].state = IF o = Id /\ row # NoRow THEN row.state ELSE peers[o]
    /\ DOMAIN Journalled = Peers \cup {Id}
<1>1. IsFiniteSet(Peers \cup {Id})
  BY Zenon, RetentionAssumption, FS_AddElement
<1>2. QED
  BY Zenon, <1>1 DEF Journalled

\* Retaining fewer rows than a journal within its bounds is within them.
LEMMA FewerAreBounded ==
    ASSUME NEW j, NEW k, IsFiniteSet(DOMAIN j), WithinCapacities(j),
           Retained(k) \subseteq Retained(j), Unfinished(k) \subseteq Unfinished(j)
    PROVE  WithinCapacities(k)
<1>1. IsFiniteSet(Retained(j)) /\ IsFiniteSet(Unfinished(j))
  BY Zenon, FS_Subset DEF Retained, Unfinished
<1>2. /\ Cardinality(Retained(k)) <= Cardinality(Retained(j))
      /\ Cardinality(Unfinished(k)) <= Cardinality(Unfinished(j))
      /\ IsFiniteSet(Retained(k)) /\ IsFiniteSet(Unfinished(k))
  BY Zenon, <1>1, FS_Subset
<1>3. /\ Cardinality(Retained(k)) \in Nat /\ Cardinality(Retained(j)) \in Nat
      /\ Cardinality(Unfinished(k)) \in Nat /\ Cardinality(Unfinished(j)) \in Nat
  BY Zenon, <1>1, <1>2, FS_CardinalityType
<1>4. QED
  BY <1>2, <1>3, CapacityAssumption DEF WithinCapacities

\* A journal that is not full has room for one row more.
LEMMA OneMoreIsBounded ==
    ASSUME NEW j, NEW k, NEW o, IsFiniteSet(DOMAIN j), ~JournalFull(j),
           Retained(k) \subseteq Retained(j) \cup {o},
           Unfinished(k) \subseteq Unfinished(j) \cup {o}
    PROVE  WithinCapacities(k)
<1>1. IsFiniteSet(Retained(j)) /\ IsFiniteSet(Unfinished(j))
  BY Zenon, FS_Subset DEF Retained, Unfinished
<1>2. Cardinality(Retained(j)) \in Nat /\ Cardinality(Unfinished(j)) \in Nat
  BY <1>1, FS_CardinalityType
<1>3. PICK r, u : r = Retained(j) \cup {o} /\ u = Unfinished(j) \cup {o}
  BY Zenon
<1>4. /\ IsFiniteSet(r) /\ Cardinality(r) <= Cardinality(Retained(j)) + 1
      /\ IsFiniteSet(u) /\ Cardinality(u) <= Cardinality(Unfinished(j)) + 1
  <2>1. /\ IsFiniteSet(r)
        /\ Cardinality(r) \in {Cardinality(Retained(j)), Cardinality(Retained(j)) + 1}
    BY Zenon, <1>1, <1>3, FS_AddElement
  <2>2. /\ IsFiniteSet(u)
        /\ Cardinality(u) \in {Cardinality(Unfinished(j)), Cardinality(Unfinished(j)) + 1}
    BY Zenon, <1>1, <1>3, FS_AddElement
  <2>3. QED
    BY <1>2, <2>1, <2>2
<1>5. /\ IsFiniteSet(Retained(k)) /\ Cardinality(Retained(k)) <= Cardinality(r)
      /\ IsFiniteSet(Unfinished(k)) /\ Cardinality(Unfinished(k)) <= Cardinality(u)
  BY Zenon, <1>3, <1>4, FS_Subset
<1>6. /\ Cardinality(Retained(k)) \in Nat /\ Cardinality(Unfinished(k)) \in Nat
      /\ Cardinality(r) \in Nat /\ Cardinality(u) \in Nat
  BY Zenon, <1>4, <1>5, FS_CardinalityType
<1>7. Cardinality(Retained(j)) < IdentityCapacity
        /\ Cardinality(Unfinished(j)) < UnfinishedCapacity
  BY <1>2, CapacityAssumption DEF JournalFull
<1>8. QED
  BY <1>2, <1>4, <1>5, <1>6, <1>7, CapacityAssumption DEF WithinCapacities

\* A step that changes neither table and decides on no write.
LEMMA QuietCounts ==
    ASSUME CountInv, UNCHANGED <<row, peers, edits>>,
           \A h \in Handles : handle'[h].pending \in {None, handle[h].pending}
    PROVE  CountInv'
  BY Zenon DEF CountInv, Journalled

\* A decision to write starts from no record or from an unfinished one.
LEMMA PendCounts ==
    ASSUME HandleShape, CountInv, NEW h \in Handles, NEW expected, NEW next, NEW then,
           handle' = [handle EXCEPT ![h].pending =
                         [expected |-> expected, next |-> next, then |-> then]],
           UNCHANGED <<row, peers, edits>>,
           expected = NoRow \/ expected.state \in UnfinishedStates
    PROVE  CountInv'
<1>1. handle'[h].pending = [expected |-> expected, next |-> next, then |-> then]
  BY Zenon DEF HandleShape, Fields
<1>2. \A g \in Handles \ {h} : handle'[g] = handle[g]
  BY Zenon DEF HandleShape
<1>3. \A g \in Handles : handle'[g].pending # None =>
         \/ handle'[g].pending.expected = NoRow
         \/ handle'[g].pending.expected.state \in UnfinishedStates
  BY <1>1, <1>2 DEF CountInv
<1>4. UNCHANGED Journalled
  BY Zenon DEF Journalled
<1>5. QED
  BY Zenon, <1>3, <1>4 DEF CountInv

\* Every write but the first starts from the record that was loaded, an unfinished one.
LEMMA BoundCounts ==
    ASSUME HandleShape, CountInv, NEW h \in Handles, NEW state, NEW changes, NEW then,
           Bound(h, state), state \in UnfinishedStates, Pend(h, row, changes, then)
    PROVE  CountInv'
<1>1. PICK next : next = Set(row, changes)
  BY Zenon
<1>2. row.state \in UnfinishedStates
  BY Zenon, UnfinishedHasNoReceipt DEF UnfinishedStates
<1>3. /\ handle' = [handle EXCEPT ![h].pending =
                        [expected |-> row, next |-> next, then |-> then]]
      /\ UNCHANGED <<row, peers, edits>>
  BY Zenon, <1>1 DEF Pend
<1>4. QED
  BY Zenon, <1>2, <1>3, PendCounts

\* A committed write inserts into a journal with room, or keeps the row it found.
LEMMA ReplaceCounts ==
    ASSUME HandleShape, CountInv, NEW h \in Handles, Replace(h)
    PROVE  CountInv'
<1>1. PICK write : write = handle[h].pending
  OBVIOUS
<1>2. \A g \in Handles : handle'[g].pending \in {None, handle[g].pending}
  BY DEF Replace, Idle, HandleShape, Fields
<1>3. UNCHANGED <<peers, edits>>
  BY Zenon DEF Replace
<1>4. CASE UNCHANGED row
  BY Zenon, <1>2, <1>3, <1>4, QuietCounts
<1>5. CASE Replaceable(write) /\ row' = Updated(write)
  <2>1. write.expected = NoRow \/ write.expected.state \in UnfinishedStates
    BY Zenon, <1>1 DEF CountInv, Replace
  <2>2. PICK j, k : j = Journalled /\ k = Journalled'
    BY Zenon
  <2>3. /\ IsFiniteSet(DOMAIN j) /\ DOMAIN j = Peers \cup {Id} /\ DOMAIN k = Peers \cup {Id}
        /\ \A o \in Peers : o # Id => k[o].state = j[o].state
        /\ j[Id].state = IF row # NoRow THEN row.state ELSE peers[Id]
    BY Zenon, <1>3, <2>2, JournalledFacts DEF Journalled
  <2>4. peers[Id] = "absent"
    BY Zenon, <1>5 DEF Replaceable, CountInv
  <2>5. ASSUME edits = 0 PROVE WithinCapacities(k)
    <3>1. CASE write.expected = NoRow
      <4>1. ~JournalFull(j)
        BY Zenon, <1>5, <2>2, <3>1 DEF Replaceable
      <4>2. /\ Retained(k) \subseteq Retained(j) \cup {Id}
            /\ Unfinished(k) \subseteq Unfinished(j) \cup {Id}
        BY Zenon, <2>3 DEF Retained, Unfinished
      <4>3. QED
        BY Zenon, <2>3, <4>1, <4>2, OneMoreIsBounded
    <3>2. CASE write.expected # NoRow
      <4>1. j[Id].state \in UnfinishedStates
        BY Zenon, <1>5, <2>1, <2>3, <3>2 DEF Replaceable
      <4>2. /\ Retained(k) \subseteq Retained(j) /\ Unfinished(k) \subseteq Unfinished(j)
        BY Zenon, <2>3, <4>1 DEF Retained, Unfinished, UnfinishedStates
      <4>3. WithinCapacities(j)
        BY Zenon, <2>2, <2>5 DEF CountInv
      <4>4. QED
        BY Zenon, <2>3, <4>2, <4>3, FewerAreBounded
    <3>3. QED
      BY Zenon, <3>1, <3>2
  <2>6. QED
    BY Zenon, <1>2, <1>3, <2>2, <2>4, <2>5 DEF CountInv
<1>6. QED
  BY Zenon, <1>1, <1>4, <1>5 DEF Replace

\* A Git operation is admitted into a journal with room, and then only ends.
LEMMA GitCounts ==
    ASSUME CountInv, NEW h \in Handles, NEW o \in Peers \cup {Id},
           AdmitGit(h, o) \/ FinishGit(h, o)
    PROVE  CountInv'
<1>1. PICK j, k : j = Journalled /\ k = Journalled'
  BY Zenon
<1>2. UNCHANGED <<row, edits, handle>>
  BY Zenon DEF AdmitGit, FinishGit
<1>3. DOMAIN peers' = Peers \cup {Id} /\ \A p \in (Peers \cup {Id}) \ {o} : peers'[p] = peers[p]
  BY DEF AdmitGit, FinishGit, CountInv
<1>4. /\ IsFiniteSet(DOMAIN j) /\ DOMAIN j = Peers \cup {Id} /\ DOMAIN k = Peers \cup {Id}
      /\ \A p \in (Peers \cup {Id}) \ {o} : k[p].state = j[p].state
      /\ j[o].state = IF o = Id /\ row # NoRow THEN row.state ELSE peers[o]
      /\ k[o].state = IF o = Id /\ row # NoRow THEN row.state ELSE peers'[o]
  BY ZenonT(30), <1>1, <1>2, <1>3, JournalledFacts DEF Journalled
<1>5. row' = NoRow \/ peers'[Id] = "absent"
  BY Zenon, <1>2, <1>3 DEF AdmitGit, FinishGit, CountInv
<1>6. ASSUME edits = 0 PROVE WithinCapacities(k)
  <2>1. CASE AdmitGit(h, o)
    <3>1. ~JournalFull(j)
      BY Zenon, <1>1, <2>1 DEF AdmitGit
    <3>2. Retained(k) \subseteq Retained(j) \cup {o}
            /\ Unfinished(k) \subseteq Unfinished(j) \cup {o}
      BY Zenon, <1>4 DEF Retained, Unfinished
    <3>3. QED
      BY Zenon, <1>4, <3>1, <3>2, OneMoreIsBounded
  <2>2. CASE FinishGit(h, o)
    <3>1. peers[o] = "authorized" /\ peers'[o] = "finalized"
      BY Zenon, <2>2 DEF FinishGit, CountInv
    <3>2. Retained(k) \subseteq Retained(j) /\ Unfinished(k) \subseteq Unfinished(j)
      BY Zenon, <1>4, <3>1 DEF Retained, Unfinished, UnfinishedStates
    <3>3. WithinCapacities(j)
      BY Zenon, <1>1, <1>6 DEF CountInv
    <3>4. QED
      BY Zenon, <1>4, <3>2, <3>3, FewerAreBounded
  <2>3. QED
    BY Zenon, <2>1, <2>2
<1>7. QED
  BY Zenon, <1>1, <1>2, <1>3, <1>5, <1>6 DEF CountInv

\* The counts are inductive.
LEMMA CountStep ==
    ASSUME LeaseInv, SizesInv, CountInv, [Next]_vars PROVE CountInv'
<1> USE DEF LeaseInv
<1> DEFINE Quiet == \A g \in Handles : handle'[g].pending \in {None, handle[g].pending}
<1>1. ASSUME NEW h \in Handles, Open(h) \/ End(h) \/ TryLockWorker(h) \/ DropWorker(h)
      PROVE  CountInv'
  <2>1. UNCHANGED <<row, peers, edits>>
    BY Zenon, <1>1 DEF Open, End, TryLockWorker, DropWorker
  <2>2. Quiet
    <3>1. CASE Open(h)
      BY Zenon, <3>1 DEF Open, Closed, HandleShape
    <3>2. CASE End(h)
      BY Zenon, <3>2 DEF End, Closed, HandleShape
    <3>3. CASE TryLockWorker(h)
      BY Zenon, <3>3 DEF TryLockWorker, HandleShape, Fields
    <3>4. CASE DropWorker(h)
      BY <3>4 DEF DropWorker, Idle, HandleShape, Fields
    <3>5. QED
      BY Zenon, <1>1, <3>1, <3>2, <3>3, <3>4
  <2>3. QED
    BY Zenon, <2>1, <2>2, QuietCounts
<1>2. ASSUME NEW h \in Handles, Call(h) PROVE CountInv'
  <2> USE DEF UnfinishedStates
  <2>1. ASSUME NEW request \in Requests, Load(h, request) PROVE CountInv'
    <3>1. Quiet
      BY <2>1 DEF Load, HandleShape, Fields
    <3>2. QED
      BY Zenon, <2>1, <3>1, QuietCounts DEF Load
  <2>2. CASE InsertRequested(h)
    <3>1. PICK next, then : handle' = [handle EXCEPT ![h].pending =
                               [expected |-> NoRow, next |-> next, then |-> then]]
      BY Zenon, <2>2, Zenon DEF InsertRequested
    <3>2. UNCHANGED <<row, peers, edits>>
      BY Zenon, <2>2, Zenon DEF InsertRequested
    <3>3. QED
      BY Zenon, <3>1, <3>2, PendCounts
  <2>3. CASE MarkAuthorized(h)
    BY Zenon, <2>3, BoundCounts DEF MarkAuthorized
  <2>4. ASSUME NEW rejection \in Rejections, MarkNotAttempted(h, rejection) PROVE CountInv'
    BY Zenon, <2>4, BoundCounts DEF MarkNotAttempted
  <2>5. ASSUME NEW target \in Targets, MarkStaleApproval(h, target) PROVE CountInv'
    BY Zenon, <2>5, BoundCounts DEF MarkStaleApproval
  <2>6. ASSUME NEW target \in Targets, MarkApplyStarted(h, target) PROVE CountInv'
    BY <2>6, BoundCounts DEF MarkApplyStarted
  <2>7. ASSUME NEW outcome \in Outcomes, RecordApplyOutcome(h, outcome) PROVE CountInv'
    BY Zenon, <2>7, BoundCounts DEF RecordApplyOutcome
  <2>8. ASSUME NEW observation \in Observations, FreezeObservation(h, observation)
        PROVE  CountInv'
    <3>1. PICK changes, then : Pend(h, row, changes, then)
      BY Zenon, <2>8, Zenon DEF FreezeObservation
    <3>2. QED
      BY <2>8, <3>1, BoundCounts DEF FreezeObservation
  <2>9. ASSUME NEW key \in ReceiptKeys, CommitReceipt(h, key) PROVE CountInv'
    <3>1. PICK changes, then : Pend(h, row, changes, then)
      BY Zenon, <2>9, Zenon DEF CommitReceipt
    <3>2. QED
      BY <2>9, <3>1, BoundCounts DEF CommitReceipt
  <2>10. CASE Replace(h)
    BY Zenon, <2>10, ReplaceCounts
  <2>11. CASE Abandon(h)
    <3>1. Quiet
      BY Zenon, <2>11 DEF Abandon, Idle, HandleShape, Fields
    <3>2. QED
      BY Zenon, <2>11, <3>1, QuietCounts DEF Abandon
  <2>12. ASSUME NEW o \in Peers \cup {Id}, AdmitGit(h, o) \/ FinishGit(h, o) PROVE CountInv'
    BY Zenon, <2>12, GitCounts
  <2>13. QED
    BY <1>2, <2>1, <2>2, <2>3, <2>4, <2>5, <2>6, <2>7, <2>8, <2>9, <2>10, <2>11, <2>12 DEF Call
<1>3. ASSUME NEW column, EditColumn(column) PROVE CountInv'
  <2>1. /\ edits' = edits + 1 /\ edits \in Nat /\ row # NoRow
        /\ UNCHANGED <<handle, peers>>
    BY Zenon, <1>3 DEF EditColumn, SizesInv
  <2>2. edits' # 0
    BY <2>1
  <2>3. QED
    BY Zenon, <2>1, <2>2 DEF CountInv
<1>4. CASE EditLayout
  BY Zenon, <1>4, QuietCounts DEF EditLayout
<1>5. CASE UNCHANGED vars
  BY <1>5, QuietCounts DEF vars
<1>6. QED
  BY <1>1, <1>2, <1>3, <1>4, <1>5, StepCases

\* The counts hold in every state.
LEMMA CountsHold == Spec => []CountInv
<1>1. Init => CountInv
  <2> SUFFICES ASSUME Init PROVE CountInv
    BY Zenon
  <2>1. \A o \in Peers \cup {Id} : Journalled[o].state = "absent"
    BY Zenon, JournalledFacts DEF Init
  <2>2. Retained(Journalled) = {} /\ Unfinished(Journalled) = {}
    BY Zenon, <2>1, JournalledFacts DEF Retained, Unfinished, UnfinishedStates
  <2>3. WithinCapacities(Journalled)
    BY <2>2, FS_EmptySet, CapacityAssumption DEF WithinCapacities
  <2>4. QED
    BY Zenon, <2>3 DEF Init, Closed, CountInv
<1>2. LeaseInv /\ SizesInv /\ CountInv /\ [Next]_vars => CountInv'
  BY Zenon, CountStep
<1>3. QED
  BY <1>1, <1>2, LeaseHolds, SizesHold, PTL DEF Spec

\* Every identity of the Git table is retained, and so is the Kubernetes one.
LEMMA RetainedCounts ==
    ASSUME CountInv
    PROVE  /\ Cardinality(GitRows) \in Nat /\ Cardinality(Retained(Journalled)) \in Nat
           /\ Cardinality(GitRows) <= Cardinality(Retained(Journalled))
<1>1. GitRows \subseteq Retained(Journalled)
  BY Zenon, JournalledFacts DEF GitRows, Retained, CountInv
<1>2. IsFiniteSet(Retained(Journalled))
  BY Zenon, JournalledFacts, FS_Subset DEF Retained
<1>3. IsFiniteSet(GitRows) /\ Cardinality(GitRows) <= Cardinality(Retained(Journalled))
  BY Zenon, <1>1, <1>2, FS_Subset
<1>4. QED
  BY ZenonT(30), <1>2, <1>3, FS_CardinalityType

\* A record within the bound of a row takes at most nineteen pages.
LEMMA PagesOfARecord ==
    ASSUME NEW payload \in Nat, payload <= PERSISTED_ROW_BYTES_MAX
    PROVE  RecordPages(payload) \in 0 .. 19
BY DEF RecordPages, OverflowPages, PERSISTED_ROW_BYTES_MAX

\* A Git record is within the bound of a row, and takes nine pages.
LEMMA PagesOfAGitRecord ==
    /\ GIT_ROW_BYTES_MAX + RECORD_HEADER_BYTES_MAX <= PERSISTED_ROW_BYTES_MAX
    /\ RecordPages(GIT_ROW_BYTES_MAX + RECORD_HEADER_BYTES_MAX) = 9
BY DEF RecordPages, OverflowPages, PERSISTED_ROW_BYTES_MAX, GIT_ROW_BYTES_MAX,
       GRANT_BYTES_MAX, PERSISTED_VALUE_BYTES_MAX, RECORD_HEADER_BYTES_MAX

\* What is admitted within the capacities takes no more pages and no longer records than
\* opening accepts.
LEMMA StorageFits ==
    ASSUME SizesInv, CountInv, WithinCapacities(Journalled), edits = 0
    PROVE  RequireRetainedBounds(Journalled, Storage)
<1>1. PICK n : n = Cardinality(Retained(Journalled))
  BY Zenon
<1>2. PICK m : m = Cardinality(GitRows)
  BY Zenon
<1>3. PICK bytes : bytes = RowBytes(Sizes(row)) + RECORD_HEADER_BYTES_MAX
  BY Zenon
<1>4. PICK key : key = Sizes(row).operation_id + 8 + 5
  BY Zenon
<1>5. PICK git : git = GIT_ROW_BYTES_MAX + RECORD_HEADER_BYTES_MAX
  BY Zenon
<1>6. n \in Nat /\ m \in Nat /\ m <= n /\ n <= 504
  <2>1. n \in Nat /\ m \in Nat /\ m <= n
    BY Zenon, <1>1, <1>2, RetainedCounts
  <2>2. n <= IdentityCapacity
    BY Zenon, <1>1 DEF WithinCapacities
  <2>3. IDENTITY_CAPACITY = 504
    BY DEF IDENTITY_CAPACITY, DATABASE_PAGES, COMPLETION_HEADROOM_PAGES, IDENTITY_PAGES
  <2>4. QED
    BY <2>1, <2>2, <2>3, CapacityAssumption, RetentionAssumption
<1>7. ASSUME row # NoRow
      PROVE  /\ bytes \in Nat /\ bytes <= PERSISTED_ROW_BYTES_MAX
             /\ key <= INDEX_PAYLOAD_BYTES_MAX
  <2>1. \A c \in Columns : row[c] # Oversized
    BY Zenon, <1>7 DEF SizesInv, FitsRow, Fits
  <2>2. bytes \in Nat /\ bytes <= PERSISTED_ROW_BYTES_MAX
    BY <1>3, <2>1, FactsFitARow DEF RECORD_HEADER_BYTES_MAX
  <2>3. "operation_id" \in Columns
    BY DEF Columns, CurrentColumns
  <2>4. Sizes(row)["operation_id"] \in {0, FactBytesMax("operation_id")}
    BY Zenon, <2>1, <2>3, FactSizes
  <2>5. FactBytesMax("operation_id") = 128
    BY DEF FactBytesMax, ExpectedColumnType
  <2>6. QED
    BY <1>4, <2>2, <2>4, <2>5 DEF INDEX_PAYLOAD_BYTES_MAX, PERSISTED_VALUE_BYTES_MAX
<1>8. PICK pages \in 0 .. 19 :
         pages = IF row # NoRow THEN RecordPages(bytes) ELSE 0
  BY <1>7, PagesOfARecord
<1>9. RecordPages(git) = 9 /\ git <= PERSISTED_ROW_BYTES_MAX
  BY Zenon, <1>5, PagesOfAGitRecord
<1>10. PICK full \in 0 .. 19 : full = RecordPages(PERSISTED_ROW_BYTES_MAX)
  BY PagesOfARecord DEF PERSISTED_ROW_BYTES_MAX
<1>11. /\ Storage.live = SCHEMA_PAGES + pages + RecordPages(git) * m
       /\ Storage.pages = SCHEMA_PAGES + TRANSIENT_PAGES + full * n
       /\ Storage.records = (IF row # NoRow THEN {bytes} ELSE {})
                            \cup (IF GitRows = {} THEN {} ELSE {git})
       /\ Storage.keys = (IF row # NoRow THEN {key} ELSE {})
                         \cup (IF GitRows = {} THEN {} ELSE {128 + 8 + 5})
  BY Zenon, <1>1, <1>2, <1>3, <1>4, <1>5, <1>8, <1>10 DEF Storage
<1>12. SCHEMA_PAGES + pages + 9 * m <= LIVE_PAGES_PER_IDENTITY * n + LIVE_FIXED_PAGES
  BY <1>6, <1>8 DEF SCHEMA_PAGES, LIVE_PAGES_PER_IDENTITY, LIVE_FIXED_PAGES
<1>13. SCHEMA_PAGES + TRANSIENT_PAGES + full * n <= DATABASE_PAGES
  <2>1. full = 19
    BY <1>10 DEF RecordPages, OverflowPages, PERSISTED_ROW_BYTES_MAX
  <2>2. QED
    BY <1>6, <2>1 DEF SCHEMA_PAGES, TRANSIENT_PAGES, DATABASE_PAGES
<1>14. \A payload \in Storage.records : payload <= PERSISTED_ROW_BYTES_MAX
  BY Zenon, <1>7, <1>9, <1>11
<1>15. \A payload \in Storage.keys : payload <= INDEX_PAYLOAD_BYTES_MAX
  <2>1. 128 + 8 + 5 <= INDEX_PAYLOAD_BYTES_MAX
    BY DEF INDEX_PAYLOAD_BYTES_MAX, PERSISTED_VALUE_BYTES_MAX
  <2>2. QED
    BY Zenon, <1>7, <1>11, <2>1
<1>16. QED
  BY Zenon, <1>1, <1>9, <1>11, <1>12, <1>13, <1>14, <1>15 DEF RequireRetainedBounds

\* A journal nobody edited satisfies everything opening demands.
LEMMA UneditedReopens ==
    ASSUME LayoutInv, SizesInv, CountInv PROVE AdmittedHistoryReopens
<1> SUFFICES ASSUME edits = 0, layoutEdits = 0, database # NoDatabase PROVE ValidSnapshot
  BY Zenon DEF AdmittedHistoryReopens, CountInv
<1>1. RecognizedSupportedSchema(database)
  BY Zenon, InitialIsRecognized DEF LayoutInv
<1>2. WithinCapacities(Journalled)
  BY Zenon DEF CountInv
<1>3. RequirePersistedBounds(IF row = NoRow THEN 0 ELSE 1,
                             IF row = NoRow THEN {} ELSE {Sizes(row)})
  <2>1. CASE row = NoRow
    BY <2>1 DEF RequirePersistedBounds, OPERATION_COUNT_MAX
  <2>2. CASE row # NoRow
    BY Zenon, <2>2, FittingRowsAreBounded DEF SizesInv
  <2>3. QED
    BY Zenon, <2>1, <2>2
<1>4. RequirePersistedBounds(Cardinality(GitRows), {})
  <2>1. Cardinality(GitRows) <= OPERATION_COUNT_MAX
    BY <1>2, RetainedCounts, CapacityAssumption, RetentionAssumption
    DEF WithinCapacities, OPERATION_COUNT_MAX, IDENTITY_CAPACITY, DATABASE_PAGES,
        COMPLETION_HEADROOM_PAGES, IDENTITY_PAGES
  <2>2. QED
    BY Zenon, <2>1 DEF RequirePersistedBounds
<1>5. RequireRetainedBounds(Journalled, Storage)
  BY Zenon, <1>2, StorageFits
<1>6. QED
  BY Zenon, <1>1, <1>3, <1>4, <1>5 DEF ValidSnapshot, RequireAllPersistedBounds, CountInv

\* A journal nobody edited opens again, whatever was admitted into it, by whichever
\* processes and effects, and however far it got: admission (require_admission) leaves
\* room for what opening checks (require_valid_snapshot).
THEOREM AdmittedReopens == Spec => []AdmittedHistoryReopens
  BY LayoutHolds, SizesHold, CountsHold, UneditedReopens, PTL
=============================================================================
