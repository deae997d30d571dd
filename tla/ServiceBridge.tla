--------------------------- MODULE ServiceBridge ---------------------------
(***************************************************************************)
(* What the MCP bridge accepts, from its caller and from the service       *)
(* (crates/kapsel-daemon/src/bin/kapsel-service-mcp.rs).                   *)
(*                                                                         *)
(* The bridge has its own description of every response, member by member, *)
(* and passes on nothing that does not fit it: it and the service's        *)
(* renderer have to agree on each member of each answer.                   *)
(***************************************************************************)
EXTENDS ServiceProtocol

OUTPUT_MAX == 96 * 1024
RECEIPT_HEX_MAX == 64 * 1024

\* UniqueVisitor: a key that is written twice refuses the whole document.
Unique(members) ==
    IF \E i, j \in DOMAIN members : i < j /\ members[i][1] = members[j][1]
    THEN None ELSE Object(members)

-----------------------------------------------------------------------------
(* The shapes of responses.                                                *)

Exact(fields, keys) == DOMAIN fields = keys

StringField(fields, key) == key \in DOMAIN fields /\ IsString(fields[key])

TokenField(fields, key, tokens) == key \in DOMAIN fields /\ IsToken(fields[key], tokens)

\* What the digest of some bytes spells.
Digest(of) == [sha256 |-> of]

\* receipt_valid: digits in pairs, within the bound, and the digest is theirs.
ReceiptValid(fields) ==
    /\ Is(fields["receipt_hex"], "hex") /\ Is(fields["receipt_sha256"], "hex")
    /\ fields["receipt_hex"].bytes <= RECEIPT_HEX_MAX
    /\ fields["receipt_hex"].bytes % 2 = 0
    /\ fields["receipt_sha256"].bytes = 64
    /\ fields["receipt_sha256"].hex = Digest(fields["receipt_hex"].hex)

NullableTarget(v, partial) ==
    \/ Is(v, "null")
    \/ /\ Is(v, "object")
       /\ Exact(v.object, {"uid", "resource_version"})
       /\ \A key \in DOMAIN v.object :
             IsString(v.object[key]) \/ (partial /\ Is(v.object[key], "null"))

Condition(fields) == IF Is(fields["condition"], "null") THEN None ELSE fields["condition"].string

\* Mutant of DispositionKnown: contention is expected to need the operator.
DispositionOfContention(token, condition) ==
    \/ /\ token \in {"active", "waiting_for_worker", "complete", "admission_unconfirmed"}
       /\ condition = None
    \/ token = "resume_required" /\ condition \in {None, "preflight_unavailable"}
    \/ /\ token = "operator_required"
       /\ condition \in {"receiver_unavailable", "signing_unavailable", "completion_blocked",
                         "operation_blocked", "worker_contention"}

\* execution_disposition: which conditions go with which disposition.
DispositionKnown(token, condition) ==
    \/ /\ token \in {"active", "waiting_for_worker", "complete", "admission_unconfirmed"}
       /\ condition = None
    \/ /\ token = "resume_required"
       /\ condition \in {None, "preflight_unavailable", "worker_contention"}
    \/ /\ token = "operator_required"
       /\ condition \in {"receiver_unavailable", "signing_unavailable", "completion_blocked",
                         "operation_blocked"}

\* execution_shape: guidance is complete, consistent, and fits the status.
GuidanceFits(disposition, fields, status) ==
    /\ DispositionKnown(disposition.disposition, disposition.condition)
    /\ fields["next_action"] = Str(NextAction(disposition))
    /\ fields["action_owner"] = Str(ActionOwner(disposition))
    /\ CASE status = "NOT_FOUND" -> disposition.disposition = "admission_unconfirmed"
         [] status = "IN_PROGRESS" ->
               disposition.disposition \notin {"complete", "admission_unconfirmed"}
         [] status \in {"NOT_ATTEMPTED", "SUCCEEDED", "FAILED", "UNKNOWN"} ->
               disposition.disposition = "complete"
         [] OTHER -> FALSE

ExecutionShape(fields, status) ==
    /\ Exact(fields, {"disposition", "condition", "next_action", "action_owner"})
    /\ Is(fields["disposition"], "string")
    /\ GuidanceFits(Disposition(fields["disposition"].string, Condition(fields)), fields, status)

RejectionShape(effect, v) ==
    \/ /\ effect = "kubernetes.set_deployment_image"
       /\ IsToken(v, {"DEPLOYMENT_NOT_FOUND", "CONTAINER_NOT_FOUND", "INVALID_TARGET",
                      "STALE_APPROVAL"})
    \/ /\ effect = "git.transition_ref"
       /\ IsToken(v, {"GIT_STALE_REF", "GIT_INVALID_OBJECTS"})

\* git_targets of the bridge.
GitTargetsShape(v) ==
    /\ Is(v, "object")
    /\ Exact(v.object, {"repository_id", "reference", "old_commit", "new_commit", "attempted",
                        "acknowledgement", "observed_ref"})
    /\ \A key \in {"repository_id", "reference", "old_commit", "new_commit"} :
          StringField(v.object, key)
    /\ Is(v.object["attempted"], "boolean")
    /\ \/ Is(v.object["acknowledgement"], "null")
       \/ IsToken(v.object["acknowledgement"],
                  {"updated", "rejected_before_send", "receiver_rejected", "unknown"})
    /\ LET seen == v.object["observed_ref"] IN
       \/ Is(seen, "null")
       \/ /\ Is(seen, "object") /\ Exact(seen.object, {"kind", "commit"})
          /\ \/ seen.object["kind"] = Str("commit") /\ IsString(seen.object["commit"])
             \/ /\ IsToken(seen.object["kind"], {"missing", "unknown"})
                /\ Is(seen.object["commit"], "null")

ErrorShape(fields, keys) ==
    /\ Exact(fields, keys \cup {"status", "error_class"})
    /\ TokenField(fields, "error_class",
                  {"invalid_request", "authority_unavailable", "operation_failure"})

EffectShape(fields, effect, base) ==
    \/ /\ effect = Str("kubernetes.set_deployment_image")
       /\ Exact(fields, base \cup {"effect", "approved_target", "attempt_target",
                                   "observed_target"})
       /\ NullableTarget(fields["approved_target"], FALSE)
       /\ NullableTarget(fields["attempt_target"], FALSE)
       /\ NullableTarget(fields["observed_target"], TRUE)
    \/ /\ effect = Str("git.transition_ref")
       /\ Exact(fields, base \cup {"effect", "git"})
       /\ GitTargetsShape(fields["git"])

\* status_shape; "keys" are the members around the status: the version of an answer
\* or the identity of an entry.
StatusShape(fields, keys) ==
    /\ "version" \in keys => "version" \in DOMAIN fields /\ fields["version"] = Num(1)
    /\ "operation_id" \in keys =>
          "operation_id" \in DOMAIN fields /\ IdentityIsValid(fields["operation_id"])
    /\ "status" \in DOMAIN fields /\ Is(fields["status"], "string")
    /\ IF fields["status"].string = "ERROR" THEN ErrorShape(fields, keys)
       ELSE /\ "execution" \in DOMAIN fields /\ Is(fields["execution"], "object")
            /\ ExecutionShape(fields["execution"].object, fields["status"].string)
            /\ CASE fields["status"].string = "NOT_FOUND" ->
                       Exact(fields, keys \cup {"status", "execution"})
                 [] fields["status"].string = "NOT_ATTEMPTED" ->
                       /\ {"effect", "target_rejection"} \subseteq DOMAIN fields
                       /\ Is(fields["effect"], "string")
                       /\ RejectionShape(fields["effect"].string, fields["target_rejection"])
                       /\ EffectShape(fields, fields["effect"],
                                      keys \cup {"status", "execution", "target_rejection"})
                 [] fields["status"].string \in {"IN_PROGRESS", "SUCCEEDED", "FAILED", "UNKNOWN"} ->
                       /\ "effect" \in DOMAIN fields
                       /\ EffectShape(fields, fields["effect"], keys \cup {"status", "execution"})
                 [] OTHER -> FALSE

SubmissionShape(fields, status) ==
    CASE status = "ADMITTED" ->
            /\ Exact(fields, {"version", "status", "phase"})
            /\ IsToken(fields["phase"], {"requested", "authorized", "not_attempted",
                                         "apply_started", "receiver_observed", "finalized"})
      [] status = "NOT_ADMITTED" ->
            /\ Exact(fields, {"version", "status", "reason"})
            /\ IsToken(fields["reason"], {"BUSY", "CAPACITY"})
      [] status = "INDETERMINATE" -> Exact(fields, {"version", "status"})
      [] OTHER -> FALSE

ReceiptShape(fields, status) ==
    CASE status = "READY" ->
            /\ Exact(fields, {"version", "status", "receipt_hex", "receipt_sha256"})
            /\ ReceiptValid(fields)
      [] status \in {"NOT_FOUND", "NOT_READY"} -> Exact(fields, {"version", "status"})
      [] OTHER -> FALSE

PageShape(fields) ==
    /\ fields["status"].string = "READY"
    /\ Exact(fields, {"version", "status", "entries", "next_cursor"})
    /\ Is(fields["entries"], "array")
    /\ Len(fields["entries"].array) <= PAGE_ENTRIES_MAX
    /\ \A i \in DOMAIN fields["entries"].array : Is(fields["entries"].array[i], "object")
    /\ Is(fields["next_cursor"], "null") \/ IdentityIsValid(fields["next_cursor"])

EntriesOf(fields) ==
    {fields["entries"].array[i].object : i \in DOMAIN fields["entries"].array}

\* response_shape: each tool has its own answers, and every tool the same errors.
ResponseShape(name, fields) ==
    /\ "version" \in DOMAIN fields /\ fields["version"] = Num(1)
    /\ "status" \in DOMAIN fields /\ Is(fields["status"], "string")
    /\ IF fields["status"].string = "ERROR" THEN ErrorShape(fields, {"version"})
       ELSE CASE name = "kapsel.submit" -> SubmissionShape(fields, fields["status"].string)
              [] name = "kapsel.get_receipt" -> ReceiptShape(fields, fields["status"].string)
              [] name = "kapsel.list_approved_actions" ->
                    /\ PageShape(fields)
                    /\ \A entry \in EntriesOf(fields) :
                          /\ "operation_id" \in DOMAIN entry
                          /\ IdentityIsValid(entry["operation_id"])
              [] name = "kapsel.list_operation_history" ->
                    /\ PageShape(fields)
                    /\ \A entry \in EntriesOf(fields) : StatusShape(entry, {"operation_id"})
              [] name = "kapsel.get_status" -> StatusShape(fields, {"version"})

-----------------------------------------------------------------------------
(* Calls and the session they belong to.                                   *)

\* The advertised tools and the request each one makes (tools, decode_call).
Tools ==
    [name \in {"kapsel.list_approved_actions", "kapsel.list_operation_history",
               "kapsel.get_status", "kapsel.get_receipt", "kapsel.submit"} |->
        CASE name = "kapsel.list_approved_actions" -> "list_approved_actions"
          [] name = "kapsel.list_operation_history" -> "list_operation_history"
          [] name = "kapsel.get_status" -> "get_set_deployment_image_status"
          [] name = "kapsel.get_receipt" -> "get_set_deployment_image_receipt"
          [] name = "kapsel.submit" -> "submit_set_deployment_image"]

\* decode_call: one argument, which is a cursor or an identity, and nothing else.
DecodeCall(call) ==
    IF call.name \notin DOMAIN Tools THEN None
    ELSE IF Tools[call.name] \in DOMAIN Paged
    THEN IF /\ Exact(call.arguments, {"after"})
            /\ call.arguments["after"] = Null \/ IdentityIsValid(call.arguments["after"])
         THEN [version |-> Num(1), request |-> Str(Tools[call.name]),
               after |-> call.arguments["after"]]
         ELSE None
    ELSE IF /\ Exact(call.arguments, {"operation_id"})
            /\ IdentityIsValid(call.arguments["operation_id"])
         THEN [version |-> Num(1), request |-> Str(Tools[call.name]),
               operation_id |-> call.arguments["operation_id"]]
         ELSE None

Failure(class) == [status |-> Str("ERROR"), error_class |-> Str(class)]

\* call, once the exchange has ended: the answer of the service unchanged, or the
\* class of what went wrong.
CallAnswer(name, exchange) ==
    LET Checked(fields) ==
           IF fields = None THEN Failure("response_invalid")
           ELSE IF ResponseShape(name, fields) THEN fields
           ELSE Failure("response_invalid")
    IN  CASE exchange.end \in {"Connection", "Exchange"} -> Failure("service_exchange_uncertain")
          [] exchange.end = "Response" -> Failure("response_invalid")
          [] exchange.end = "Answered" -> Checked(Unique(exchange.members))

\* Bytes of the line at most: the answer is written inside a string, where a quote
\* takes two bytes, and the envelope holds an id of 128 bytes.
ENVELOPE_BYTES_MAX == 1024
LineBytes(fields) == ENVELOPE_BYTES_MAX + 2 * (Size(Obj(fields)) + IDENTITY_BYTES_MAX)

Reply(code) == [reply |-> "error", code |-> code]
Silence == [reply |-> "none", code |-> 0]
Result == [reply |-> "result", code |-> 0]
ToolCall == [reply |-> "call", code |-> 0]

Notifications == {"notifications/initialized", "notifications/cancelled"}

\* dispatch: the next phase of the handshake and the reply to a message.  "id" is
\* absent, valid or invalid; "params" says whether they suit the method.
Dispatch(message, phase) ==
    LET To(next, reply) == [phase |-> next, reply |-> reply]
        Stay(reply) == To(phase, reply)
    IN  IF message.id = "invalid" \/ ~message.jsonrpc THEN Stay(Reply(-32600))
        ELSE IF message.id = "absent"
        THEN IF /\ message.method = "notifications/initialized"
                /\ phase = "AwaitingInitialized" /\ message.params
             THEN To("Ready", Silence) ELSE Stay(Silence)
        ELSE
        CASE message.method = "initialize" ->
                IF phase = "AwaitingInitialize" /\ message.params
                THEN To("AwaitingInitialized", Result) ELSE Stay(Reply(-32600))
          [] message.method \in Notifications -> Stay(Reply(-32600))
          [] message.method \in {"tools/list", "tools/call"} ->
                IF phase # "Ready" THEN Stay(Reply(-32600))
                ELSE IF message.method = "tools/call" THEN Stay(ToolCall)
                ELSE Stay(IF message.params THEN Result ELSE Reply(-32602))
          [] OTHER -> Stay(Reply(-32601))
=============================================================================
