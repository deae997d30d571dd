-------------------------- MODULE ServiceProtocol --------------------------
(***************************************************************************)
(* What the resident service says on its socket: the requests it decodes,  *)
(* the projection of a retained operation, and the JSON it renders         *)
(* (crates/kapsel-daemon/src/server/protocol.rs,                           *)
(* src/application/service/disposition.rs).                                *)
(*                                                                         *)
(* A JSON value is a record whose one tag says what it is.  A string the   *)
(* code writes is itself; a string of data is a name, its length and the   *)
(* bytes it takes when it is written, and hexadecimal digits remember what *)
(* they spell.  An object is a function   *)
(* from its keys.  A response is the sequence of members as written, so    *)
(* that a key written twice is not lost before the reader looks for it.    *)
(***************************************************************************)
EXTENDS Integers, Sequences, FiniteSetsExt, Functions

CONSTANT None

Str(s) == [string |-> s]
Text(name, n) == [text |-> name, bytes |-> n, written |-> n]
\* Data whose characters take "each" bytes: JSON writes a quote or a backslash in two
\* and most control characters in six.
Escaped(name, n, each) == [text |-> name, bytes |-> n, written |-> n * each]
Hex(of, n) == [hex |-> of, bytes |-> n]
Num(n) == [number |-> n]
Bool(b) == [boolean |-> b]
Null == [null |-> TRUE]
Obj(fields) == [object |-> fields]
Arr(values) == [array |-> values]

Is(v, kind) == kind \in DOMAIN v
IsString(v) == Is(v, "string") \/ Is(v, "text") \/ Is(v, "hex")
IsToken(v, tokens) == Is(v, "string") /\ v.string \in tokens

\* Bytes of a value as serde_json writes it: quotes, colons, commas and escapes included.
SizeWith(Inner(_), v) ==
    CASE Is(v, "string") -> Len(v.string) + 2
      [] Is(v, "text") -> v.written + 2
      [] Is(v, "hex") -> v.bytes + 2
      [] Is(v, "object") ->
            1 + MapThenSumSet(LAMBDA key : Len(key) + 4 + Inner(v.object[key]), DOMAIN v.object)
      [] Is(v, "array") ->
            IF v.array = <<>> THEN 2
            ELSE 1 + MapThenSumSet(LAMBDA i : 1 + Inner(v.array[i]), DOMAIN v.array)
      [] Is(v, "number") -> 1
      [] Is(v, "boolean") -> 5
      [] Is(v, "null") -> 4

\* The deepest value is an answer: its entries, one of them, the Git targets of that one,
\* the ref observed for it, and the kind of that.
SizeOfScalar(v) == SizeWith(LAMBDA inner : 0, v)
SizeOfRef(v) == SizeWith(SizeOfScalar, v)
SizeOfTargets(v) == SizeWith(SizeOfRef, v)
SizeOfEntry(v) == SizeWith(SizeOfTargets, v)
SizeOfEntries(v) == SizeWith(SizeOfEntry, v)
Size(v) == SizeWith(SizeOfEntries, v)

Keys(members) == {members[i][1] : i \in DOMAIN members}

\* serde_json::Value: of members with one key the last is kept.
Object(members) ==
    [key \in Keys(members) |->
        members[CHOOSE i \in DOMAIN members :
                   /\ members[i][1] = key
                   /\ \A j \in DOMAIN members : members[j][1] = key => j <= i][2]]

\* Bytes of a response; one without members is empty, as render_receipt may leave it.
Length(members) ==
    IF members = <<>> THEN 0
    ELSE 1 + MapThenSumSet(LAMBDA i : Len(members[i][1]) + 4 + Size(members[i][2]), DOMAIN members)

-----------------------------------------------------------------------------
(* Names and limits.                                                       *)

IDENTITY_BYTES_MAX == 128
REQUEST_BYTES_MAX == 16 * 1024
ORDINARY_RESPONSE_BYTES_MAX == 16 * 1024
RECEIPT_RESPONSE_BYTES_MAX == 40 * 1024
PAGE_ENTRIES_MAX == 8

\* Names outside the grammar of identities.
Ungrammatical == {"two words"}

Identity(id) == Text(id, IDENTITY_BYTES_MAX)

IdentityIsValid(v) ==
    /\ Is(v, "text")
    /\ v.bytes \in 1 .. IDENTITY_BYTES_MAX
    /\ v.text \notin Ungrammatical

\* request_length, and the bound of decode.
RequestLength(n) == n \in 1 .. REQUEST_BYTES_MAX

ResponseLengthAllowed(length, class) ==
    length \in 1 .. (IF class = "Receipt" THEN RECEIPT_RESPONSE_BYTES_MAX
                     ELSE ORDINARY_RESPONSE_BYTES_MAX)

\* Request, Command and ReadRequest: the reads and the one command that may change
\* something.
Paged == [list_approved_actions |-> "List", list_operation_history |-> "History"]
Named == [get_set_deployment_image_status |-> "Status",
          get_set_deployment_image_receipt |-> "Receipt",
          submit_set_deployment_image |-> "Submit"]

\* decode.  The members are exactly those of the request's variant.
Decode(request) ==
    IF ~RequestLength(Size(Obj(request))) \/ request.version # Num(1) THEN None
    ELSE IF /\ request.request.string \in DOMAIN Paged
            /\ DOMAIN request = {"version", "request", "after"}
            /\ request.after = Null \/ IdentityIsValid(request.after)
    THEN [command |-> Paged[request.request.string],
          after |-> IF request.after = Null THEN None ELSE request.after.text]
    ELSE IF /\ request.request.string \in DOMAIN Named
            /\ DOMAIN request = {"version", "request", "operation_id"}
            /\ IdentityIsValid(request.operation_id)
    THEN [command |-> Named[request.request.string], id |-> request.operation_id.text]
    ELSE None

-----------------------------------------------------------------------------
(* Retained operations and their projection.                               *)

\* An operation without a row.
Absent == [state |-> "Absent"]

\* What each effect may find wrong with its target before an attempt.
KubernetesRejections == {"DeploymentNotFound", "ContainerNotFound", "InvalidTarget", "StaleApproval"}
GitRejections == {"GitStaleRef", "GitInvalidObjects"}

Ok(value) == [ok |-> value]
Err(error) == [error |-> error]
IsErr(result) == Is(result, "error")

\* status_of; NotFound is ServiceApplication::status without a row.
StatusOf(row) ==
    CASE row.state \in {"Requested", "Authorized", "ApplyStarted", "ReceiverObserved"} ->
            [status |-> "InProgress", rejection |-> None]
      [] row.state = "NotAttempted" -> [status |-> "NotAttempted", rejection |-> row.rejection]
      [] row.state = "Finalized" -> [status |-> row.result, rejection |-> None]
      [] row.state = "Absent" -> [status |-> "NotFound", rejection |-> None]

Conditions ==
    {"preflight_unavailable", "receiver_unavailable", "signing_unavailable",
     "worker_contention", "completion_blocked", "operation_blocked"}

Observations ==
    [observation : {"Unknown", "Active", "OtherWorker"}, condition : {None}]
    \cup [observation : {"Stopped"}, condition : Conditions]

Disposition(token, condition) == [disposition |-> token, condition |-> condition]

\* ExecutionDisposition::project.
Project(status, observation) ==
    CASE status = "NotFound" -> Disposition("admission_unconfirmed", None)
      [] status \in {"NotAttempted", "Succeeded", "Failed", "Unknown"} ->
            Disposition("complete", None)
      [] status = "InProgress" ->
            CASE observation.observation = "Unknown" -> Disposition("resume_required", None)
              [] observation.observation = "Active" -> Disposition("active", None)
              [] observation.observation = "OtherWorker" ->
                    Disposition("waiting_for_worker", None)
              [] observation.observation = "Stopped" ->
                    Disposition(
                       IF observation.condition \in {"worker_contention", "preflight_unavailable"}
                       THEN "resume_required" ELSE "operator_required",
                       observation.condition)

NextAction(disposition) ==
    [complete |-> "inspect_result", admission_unconfirmed |-> "read_same_id",
     active |-> "wait", waiting_for_worker |-> "wait_then_select_same_id",
     resume_required |-> "select_same_id", operator_required |-> "contact_operator"
    ][disposition.disposition]

ActionOwner(disposition) ==
    IF disposition.disposition = "operator_required" THEN "operator" ELSE "caller"

\* ServiceApplication::execution_status: what a caller may learn of a row.
ExecutionStatus(row, observation) ==
    LET With(status) == [status |-> status, row |-> row,
                         execution |-> Project(status.status, observation)]
    IN  With(StatusOf(row))

-----------------------------------------------------------------------------
(* Rendering.                                                              *)

Header(status) == << <<"version", Num(1)>>, <<"status", Str(status)>> >>

ServiceErrors ==
    {"Configuration", "InvalidRequest", "AuthorityUnavailable", "StorageMissing",
     "StorageInvalid", "StorageUnavailable", "OperationFailure"}

\* service_error: the operator's classes are one class to a caller.
ServiceError(error) ==
    Header("ERROR") \o
    << <<"error_class",
         Str(CASE error = "InvalidRequest" -> "invalid_request"
               [] error = "AuthorityUnavailable" -> "authority_unavailable"
               [] OTHER -> "operation_failure")>> >>

PhaseName(state) ==
    [Requested |-> "requested", Authorized |-> "authorized", NotAttempted |-> "not_attempted",
     ApplyStarted |-> "apply_started", ReceiverObserved |-> "receiver_observed",
     Finalized |-> "finalized"][state]

\* Mutant of RenderSubmission: an undecided submission is reported as a busy service.
RenderSubmissionDecided(admission) ==
    CASE admission.decision = "Admitted" ->
            Header("ADMITTED") \o << <<"phase", Str(PhaseName(admission.phase))>> >>
      [] admission.decision \in {"Busy", "Indeterminate"} ->
            Header("NOT_ADMITTED") \o << <<"reason", Str("BUSY")>> >>
      [] admission.decision = "Full" -> Header("NOT_ADMITTED") \o << <<"reason", Str("CAPACITY")>> >>
      [] admission.decision = "Error" -> ServiceError(admission.error)

RenderSubmission(admission) ==
    CASE admission.decision = "Admitted" ->
            Header("ADMITTED") \o << <<"phase", Str(PhaseName(admission.phase))>> >>
      [] admission.decision = "Busy" -> Header("NOT_ADMITTED") \o << <<"reason", Str("BUSY")>> >>
      [] admission.decision = "Full" -> Header("NOT_ADMITTED") \o << <<"reason", Str("CAPACITY")>> >>
      [] admission.decision = "Indeterminate" -> Header("INDETERMINATE")
      [] admission.decision = "Error" -> ServiceError(admission.error)

TargetRejection(rejection) ==
    [DeploymentNotFound |-> "DEPLOYMENT_NOT_FOUND", ContainerNotFound |-> "CONTAINER_NOT_FOUND",
     InvalidTarget |-> "INVALID_TARGET", StaleApproval |-> "STALE_APPROVAL",
     GitStaleRef |-> "GIT_STALE_REF", GitInvalidObjects |-> "GIT_INVALID_OBJECTS"][rejection]

StatusToken ==
    [NotFound |-> "NOT_FOUND", InProgress |-> "IN_PROGRESS", Succeeded |-> "SUCCEEDED",
     Failed |-> "FAILED", Unknown |-> "UNKNOWN", NotAttempted |-> "NOT_ATTEMPTED"]

RenderStatus(status) ==
    Header(StatusToken[status.status]) \o
    IF status.status = "NotAttempted"
    THEN << <<"target_rejection", Str(TargetRejection(status.rejection))>> >> ELSE <<>>

\* A fact is any ASCII the receiver gave, a label any that can be printed.
Fact(name, each) == Escaped(name, 128, each)
Label(each) == Escaped("label", 128, Min({each, 2}))
Commit(name) == Text(name, 40)
Reference == Str("refs/heads/approved")
Target(uid, version) == Obj([uid |-> uid, resource_version |-> version])

\* A target that is known, known in part, or not known.
TargetFields(known, each) ==
    CASE known = "whole" -> Target(Fact("uid", each), Fact("version", each))
      [] known = "partial" -> Target(Fact("uid", each), Null)
      [] known = "empty" -> Target(Null, Null)
      [] known = "none" -> Null

GitTargets(row) ==
    Obj([repository_id |-> Identity("repository"), reference |-> Reference,
         old_commit |-> Commit("old"), new_commit |-> Commit("new"),
         attempted |-> Bool(row.attempted),
         acknowledgement |->
            IF row.acknowledgement = None THEN Null ELSE Str(row.acknowledgement),
         observed_ref |->
            CASE row.observed = None -> Null
              [] row.observed = "commit" -> Obj([kind |-> Str("commit"), commit |-> Commit("new")])
              [] OTHER -> Obj([kind |-> Str(row.observed), commit |-> Null])])

RenderStatusWithTargets(status, row) ==
    RenderStatus(status) \o
    IF status.status = "NotFound" THEN <<>>
    ELSE IF row.effect = "git"
    THEN << <<"effect", Str("git.transition_ref")>>, <<"git", GitTargets(row)>> >>
    ELSE << <<"effect", Str("kubernetes.set_deployment_image")>>,
            <<"approved_target", TargetFields(row.approved, row.each)>>,
            <<"attempt_target", TargetFields(row.attempt, row.each)>>,
            <<"observed_target", TargetFields(row.observed, row.each)>> >>

\* The members are joined without being parsed (append_object_fields).
RenderExecutionStatus(result) ==
    IF IsErr(result) THEN ServiceError(result.error)
    ELSE RenderStatusWithTargets(result.ok.status, result.ok.row) \o
         << <<"execution",
              Obj([disposition |-> Str(result.ok.execution.disposition),
                   condition |->
                      IF result.ok.execution.condition = None THEN Null
                      ELSE Str(result.ok.execution.condition),
                   next_action |-> Str(NextAction(result.ok.execution)),
                   action_owner |-> Str(ActionOwner(result.ok.execution))])>> >>

\* render_receipt.  A receipt that would not fit is left out altogether: an empty
\* response is never sent.
RenderReceipt(result) ==
    LET Fitting(members) ==
           IF ResponseLengthAllowed(Length(members), "Receipt") THEN members ELSE <<>>
    IN  IF IsErr(result) THEN ServiceError(result.error)
        ELSE IF result.ok.receipt = "Ready"
        THEN Fitting(Header("READY") \o
                     << <<"receipt_hex", Hex(result.ok.of, 2 * result.ok.bytes)>>,
                        <<"receipt_sha256", Hex(result.ok.digest, 64)>> >>)
        ELSE Header(IF result.ok.receipt = "NotReady" THEN "NOT_READY" ELSE "NOT_FOUND")

\* An approval as a caller sees it; every field at its largest.
CatalogueEntry(entry) ==
    IF entry.effect = "git"
    THEN Obj([effect |-> Str("git.transition_ref"), operation_id |-> Identity(entry.id),
              repository_id |-> Identity("repository"), reference |-> Reference,
              old_commit |-> Commit("old"), new_commit |-> Commit("new"),
              label |-> Label(entry.each)])
    ELSE Obj([effect |-> Str("kubernetes.set_deployment_image"),
              operation_id |-> Identity(entry.id),
              namespace |-> Text("namespace", 63), deployment |-> Text("deployment", 253),
              container |-> Text("container", 63),
              immutable_image_digest |-> Text("image", 512),
              approved_target |-> TargetFields("whole", entry.each),
              label |-> Label(entry.each)])

Page(entries, next) ==
    << <<"entries", Arr(entries)>>,
       <<"next_cursor", IF next = None THEN Null ELSE Identity(next)>>,
       <<"status", Str("READY")>>, <<"version", Num(1)>> >>

RenderCatalog(entries, next) ==
    Page([i \in DOMAIN entries |-> CatalogueEntry(entries[i])], next)

\* An entry is a rendered status without its version, and with its identity.
HistoryEntry(fields, id) ==
    Obj([key \in (DOMAIN fields \ {"version"}) \cup {"operation_id"} |->
            IF key = "operation_id" THEN Identity(id) ELSE fields[key]])

RenderExecutionHistory(entries, next) ==
    Page([i \in DOMAIN entries |->
             HistoryEntry(Object(RenderExecutionStatus(entries[i].status)), entries[i].id)],
         next)
=============================================================================
