--------------------------- MODULE JournalSchema ---------------------------
(***************************************************************************)
(* The layout of the journal's database: the two typed tables as they are  *)
(* created, what opening recognises as that layout, and the bounds on the  *)
(* values a table holds (src/gateway/journal/schema.rs, with the counts    *)
(* and pages of capacity.rs and the order of checks in opening.rs).        *)
(*                                                                         *)
(* A database is [entries, defined, strict]: the rows of sqlite_schema, as *)
(* [type, name, table]; the columns of each table, in order; and the       *)
(* tables that are STRICT.  A column is [name, type, required, default].   *)
(***************************************************************************)
EXTENDS Journal, Sequences

PERSISTED_VALUE_BYTES_MAX == 16 * 1024
PERSISTED_ROW_BYTES_MAX   == 64 * 1024
OPERATION_COUNT_MAX       == 10000
GRANT_BYTES_MAX           == 4096

\* The constants of capacity.rs, in pages and in bytes.
DATABASE_PAGES            == 16384
IDENTITY_PAGES            == 32
COMPLETION_HEADROOM_PAGES == 256
INDEX_PAYLOAD_BYTES_MAX   == PERSISTED_VALUE_BYTES_MAX + 8 + 5
LIVE_PAGES_PER_IDENTITY   == 23
LIVE_FIXED_PAGES          == 76
IDENTITY_CAPACITY         == (DATABASE_PAGES - COMPLETION_HEADROOM_PAGES) \div IDENTITY_PAGES

\* SQLite's file format at 4 KiB pages, as capacity.rs relies on it: the header of a
\* record (its length and at most three bytes for each of 42 columns), the pages of the
\* schema (eight of its tree, four roots; no statement overflows) and the most pages a
\* write allocates before it frees any.
RECORD_HEADER_BYTES_MAX == 128
SCHEMA_PAGES            == 12
TRANSIENT_PAGES         == 236

\* An overflowing record keeps at least 489 bytes in its leaf.
OverflowPages(payload) == IF payload <= 489 THEN 0 ELSE (payload - 489 + 4091) \div 4092

\* A record of an operation table, with its entry in the index, which does not overflow:
\* nonempty pages, so two of the table's tree and one of the index's for each record.
RecordPages(payload) == 3 + OverflowPages(payload)

\* CURRENT_COLUMNS
CurrentColumns ==
    <<"operation_id", "namespace", "deployment", "container", "immutable_image_digest",
      "authorization_id", "authorization_signer_key_id", "authorization_grant_digest",
      "signed_authorization_grant", "state", "write_strategy", "target_rejection",
      "target_read_failures", "apply_attempted", "target_uid", "target_resource_version",
      "apply_accepted", "requested_generation", "apply_resource_version", "receiver_uid",
      "receiver_image", "receiver_operation_marker", "current_generation",
      "observed_generation", "receiver_resource_version", "desired_replicas",
      "updated_replicas", "available_replicas", "unavailable_replicas",
      "available_condition", "progress_deadline_exceeded", "result", "receipt_digest",
      "receipt_bytes", "receipt_key_id", "rollout_condition_type",
      "rollout_condition_status", "rollout_condition_reason", "approved_uid",
      "approved_resource_version", "preflight_uid", "preflight_resource_version">>

\* GIT_COLUMNS
GitColumns ==
    <<"operation_id", "repository_id", "ref_name", "old_commit", "new_commit",
      "authorization_id", "authorization_signer_key_id", "authorization_grant_digest",
      "signed_authorization_grant", "state", "target_rejection", "acknowledgement",
      "observed_ref_kind", "observed_commit", "receipt_digest", "receipt_bytes",
      "receipt_key_id">>

Columns == {CurrentColumns[i] : i \in DOMAIN CurrentColumns}

Column(name, type, required, default) ==
    [name |-> name, type |-> type, required |-> required, default |-> default]

TextNotNull(name)    == Column(name, "TEXT", TRUE, "none")
Text(name)           == Column(name, "TEXT", FALSE, "none")
Blob(name)           == Column(name, "BLOB", FALSE, "none")
Integer(name)        == Column(name, "INTEGER", FALSE, "none")
IntegerCounter(name) == Column(name, "INTEGER", TRUE, "0")

\* CREATE_OPERATION_TABLE
CreateOperationTable ==
    <<TextNotNull("operation_id"), TextNotNull("namespace"), TextNotNull("deployment"),
      TextNotNull("container"), TextNotNull("immutable_image_digest"),
      Text("authorization_id"), Text("authorization_signer_key_id"),
      Text("authorization_grant_digest"), Blob("signed_authorization_grant"),
      TextNotNull("state"), Text("write_strategy"), Text("target_rejection"),
      IntegerCounter("target_read_failures"), IntegerCounter("apply_attempted"),
      Text("target_uid"), Text("target_resource_version"), Integer("apply_accepted"),
      Integer("requested_generation"), Text("apply_resource_version"), Text("receiver_uid"),
      Text("receiver_image"), Text("receiver_operation_marker"),
      Integer("current_generation"), Integer("observed_generation"),
      Text("receiver_resource_version"), Integer("desired_replicas"),
      Integer("updated_replicas"), Integer("available_replicas"),
      Integer("unavailable_replicas"), Integer("available_condition"),
      Integer("progress_deadline_exceeded"), Text("result"), Text("receipt_digest"),
      Blob("receipt_bytes"), Text("receipt_key_id"), Text("rollout_condition_type"),
      Text("rollout_condition_status"), Text("rollout_condition_reason"),
      Text("approved_uid"), Text("approved_resource_version"), Text("preflight_uid"),
      Text("preflight_resource_version")>>

\* CREATE_GIT_TABLE
CreateGitTable ==
    <<TextNotNull("operation_id"), TextNotNull("repository_id"), TextNotNull("ref_name"),
      TextNotNull("old_commit"), TextNotNull("new_commit"), Text("authorization_id"),
      Text("authorization_signer_key_id"), Text("authorization_grant_digest"),
      Blob("signed_authorization_grant"), TextNotNull("state"), Text("target_rejection"),
      Text("acknowledgement"), Text("observed_ref_kind"), Text("observed_commit"),
      Text("receipt_digest"), Blob("receipt_bytes"), Text("receipt_key_id")>>

Entry(type, name, table) == [type |-> type, name |-> name, table |-> table]

\* A table with a text primary key has one index, which SQLite makes.
TableEntries(table) == {Entry("table", table, table), Entry("index", "primary key", table)}

NoDatabase == [entries |-> {}, defined |-> <<>>, strict |-> {}]

\* initialize_schema on a fresh file.
InitializeSchema ==
    [entries |-> TableEntries("kubernetes_image_operations")
                 \cup TableEntries("git_ref_operations"),
     defined |-> [kubernetes_image_operations |-> CreateOperationTable,
                  git_ref_operations |-> CreateGitTable],
     strict |-> {"kubernetes_image_operations", "git_ref_operations"}]

ExpectedColumnType(name) ==
    CASE name \in {"receipt_bytes", "signed_authorization_grant"} -> "BLOB"
      [] name \in {"target_read_failures", "apply_attempted", "apply_accepted",
                   "requested_generation", "current_generation", "observed_generation",
                   "desired_replicas", "updated_replicas", "available_replicas",
                   "unavailable_replicas", "available_condition",
                   "progress_deadline_exceeded"} -> "INTEGER"
      [] OTHER -> "TEXT"

ExpectedColumnNotNull(name) ==
    name \in {"operation_id", "namespace", "deployment", "container",
              "immutable_image_digest", "repository_id", "ref_name", "old_commit",
              "new_commit", "state", "target_read_failures", "apply_attempted"}

ExpectedColumnDefault(name) ==
    IF name \in {"target_read_failures", "apply_attempted"} THEN "0" ELSE "none"

\* recognized_schema: the entries of the table, the statement that created it, and
\* what SQLite says of its columns.
RecognizedSchema(database, table, expectedColumns, expectedCreate) ==
    /\ {e \in database.entries : e.table = table} = TableEntries(table)
    /\ database.defined[table] = expectedCreate
    /\ table \in database.strict
    /\ Len(database.defined[table]) = Len(expectedColumns)
    /\ \A i \in DOMAIN expectedColumns :
          database.defined[table][i] =
             Column(expectedColumns[i], ExpectedColumnType(expectedColumns[i]),
                    ExpectedColumnNotNull(expectedColumns[i]),
                    ExpectedColumnDefault(expectedColumns[i]))

BothRecognized(database) ==
    /\ RecognizedSchema(database, "kubernetes_image_operations", CurrentColumns,
                        CreateOperationTable)
    /\ RecognizedSchema(database, "git_ref_operations", GitColumns, CreateGitTable)

\* Mutant of RecognizedSupportedSchema: further tables are not noticed.
RecognizedSupportedTables(database) == BothRecognized(database)

\* recognized_supported_schema, without the bounds on the rows.
RecognizedSupportedSchema(database) ==
    Cardinality(database.entries) = 4 /\ BothRecognized(database)

FieldLimit(column) ==
    IF column = "signed_authorization_grant" THEN GRANT_BYTES_MAX
    ELSE PERSISTED_VALUE_BYTES_MAX

\* require_persisted_bounds of a table: the sizes of its values, row by row.
RequirePersistedBounds(count, sizes) ==
    /\ count <= OPERATION_COUNT_MAX
    /\ \A size \in sizes : \A column \in DOMAIN size :
          ExpectedColumnType(column) # "INTEGER" => size[column] <= FieldLimit(column)

\* The two counts, against the capacities.
WithinCapacities(journal) ==
    /\ Cardinality(Retained(journal)) <= IdentityCapacity
    /\ Cardinality(Unfinished(journal)) <= UnfinishedCapacity

\* capacity::require_retained_bounds and require_physical_bounds: the counts, the pages
\* in use and of the file, and the largest records of the tables and of their indexes.
\* The shape of the trees, which SQLite's own writes keep, is left out.
RequireRetainedBounds(journal, storage) ==
    /\ WithinCapacities(journal)
    /\ storage.live <= LIVE_PAGES_PER_IDENTITY * Cardinality(Retained(journal))
                       + LIVE_FIXED_PAGES
    /\ storage.pages <= DATABASE_PAGES
    /\ \A payload \in storage.records : payload <= PERSISTED_ROW_BYTES_MAX
    /\ \A payload \in storage.keys : payload <= INDEX_PAYLOAD_BYTES_MAX
=============================================================================
