-------------------------- MODULE ServiceExchange --------------------------
(***************************************************************************)
(* Callers of the resident service: the stdio bridge and the command line  *)
(* client, the transport they share, and the service at the other end      *)
(* (crates/kapsel-daemon/src/client_transport.rs, bin/, server.rs).        *)
(*                                                                         *)
(* One exchange is one connection: a request, at most one answer, the end. *)
(* Either side gives up after two seconds, and a submission whose caller   *)
(* has given up may still be committed.  Between any two steps the         *)
(* operation moves on, and the machine may lose power.  What the service   *)
(* decides about a submission is modelled by ServiceRuntime; here it may   *)
(* decide anything that module allows.                                     *)
(***************************************************************************)
EXTENDS ServiceBridge

CONSTANTS
    Beginnings,     \* where a behaviour may begin: the operation it is about, whether it
                    \* has a row, the identities before it, the file, who calls, and
                    \* the bytes that JSON takes for each character of a fact
    Catalogue,      \* identities of the other approvals
    Unknown,        \* an identity that is neither approved nor retained
    Lines,          \* what the bridge may be sent
    ReceiptBytes,   \* sizes of a receipt
    ReadFailures,   \* errors a read may meet
    MaxExchanges

ASSUME ExchangeAssumption ==
    /\ MaxExchanges \in Nat
    /\ ReceiptBytes \subseteq 1 .. 16 * 1024
    /\ ReadFailures \subseteq ServiceErrors
    /\ \A line \in Lines :
          line.line \in {"unreadable", "end", "unbounded", "malformed", "envelope", "message"}

VARIABLES
    live,           \* the operation this behaviour is about, and how its facts are written
    row,            \* its row
    earlier,        \* the identities retained before it
    socket,         \* the connection: its stage and the answer on it
    uncommitted,    \* exchanges whose submission is still being executed
    committed,      \* history: the exchange whose submission was committed
    caller,         \* who waits for the answer, and for what
    phase,          \* the handshake of the bridge
    told,           \* what a caller was told last
    file, synced,   \* the export file and whether its content is on disk
    original,       \* the file before the behaviour
    calls,          \* who calls the service: the bridge or the client
    exchanges       \* exchanges begun

service == <<row, uncommitted, committed>>
export == <<file, synced>>
fixed == <<live, earlier, original, calls>>
vars == <<service, export, fixed, socket, caller, phase, told, exchanges>>

NoSocket == [stage |-> "none", members |-> <<>>]
NoCaller == [kind |-> "none", name |-> "none", request |-> None]
Nothing == [by |-> "none", name |-> "none", number |-> 0, id |-> Null, answer |-> <<>>]

-----------------------------------------------------------------------------
(* The service.                                                            *)

KubernetesRow(approved) ==
    [effect |-> "kubernetes", state |-> "Requested", rejection |-> None, result |-> None,
     approved |-> approved, attempt |-> "none", observed |-> "none", bytes |-> 0,
     each |-> live.each]

GitRow ==
    [effect |-> "git", state |-> "Authorized", rejection |-> None, result |-> None,
     attempted |-> FALSE, acknowledgement |-> None, observed |-> None, bytes |-> 0]

AdmittedRow == IF live.effect = "git" THEN GitRow ELSE KubernetesRow("whole")

\* A row with every target and unfinished: nothing renders longer.
EarlierRow ==
    [KubernetesRow("whole") EXCEPT !.state = "ReceiverObserved", !.result = "Unknown",
                                   !.attempt = "whole", !.observed = "whole"]

GitResult(acknowledgement) ==
    CASE acknowledgement = "updated" -> "Succeeded"
      [] acknowledgement \in {"rejected_before_send", "receiver_rejected"} -> "Failed"
      [] acknowledgement = "unknown" -> "Unknown"

NotAttempted(r, why) == [r EXCEPT !.state = "NotAttempted", !.rejection = why]

\* What an authorized row becomes: rejected before an attempt, or attempted. The target
\* that was read is kept when the approval was stale, and for the attempt.
Preflighted(r) ==
    IF r.effect = "kubernetes"
    THEN {NotAttempted(r, why) : why \in KubernetesRejections \ {"StaleApproval"}}
         \cup {[NotAttempted(r, "StaleApproval") EXCEPT !.observed = "whole"],
               [r EXCEPT !.state = "ApplyStarted", !.attempt = "whole", !.observed = "whole"]}
    ELSE {NotAttempted(r, why) : why \in GitRejections}
         \cup {[r EXCEPT !.state = "ApplyStarted", !.attempted = TRUE]}

\* What an attempted row becomes: its push acknowledged, its target observed.
Observed(r) ==
    IF r.effect = "kubernetes"
    THEN {[r EXCEPT !.state = "ReceiverObserved", !.observed = "whole", !.result = result] :
            result \in {"Succeeded", "Failed", "Unknown"}}
         \cup {[r EXCEPT !.state = "ReceiverObserved", !.observed = seen, !.result = "Unknown"] :
            seen \in {"partial", "empty"}}
    ELSE IF r.acknowledgement = None
    THEN {[r EXCEPT !.acknowledgement = word] :
            word \in {"updated", "rejected_before_send", "receiver_rejected", "unknown"}}
    ELSE {[r EXCEPT !.state = "ReceiverObserved", !.observed = seen,
                    !.result = GitResult(r.acknowledgement)] :
            seen \in {"commit", "missing", "unknown"}}

\* Where an operation may go from a row, and what its row then shows.
Successors(r) ==
    CASE r.state = "Requested" -> {[r EXCEPT !.state = "Authorized"]}
      [] r.state = "Authorized" -> Preflighted(r)
      [] r.state = "ApplyStarted" -> Observed(r)
      [] r.state = "ReceiverObserved" ->
            {[r EXCEPT !.state = "Finalized", !.bytes = n] : n \in ReceiptBytes}
      [] OTHER -> {}

RowOf(id) ==
    IF id = live.id THEN row ELSE IF id \in Range(earlier) THEN EarlierRow ELSE Absent

\* ServiceApplication::receipt.
ReceiptOf(id) ==
    LET With(r) ==
           CASE r.state = "Absent" -> [receipt |-> "NotFound"]
             [] r.state = "Finalized" ->
                   [receipt |-> "Ready", of |-> [receipt |-> id], bytes |-> r.bytes,
                    digest |-> Digest([receipt |-> id])]
             [] OTHER -> [receipt |-> "NotReady"]
    IN  With(RowOf(id))

\* Identities behind a cursor; an unknown one sorts behind all others.
Behind(ids, after) ==
    IF after = None THEN ids
    ELSE IF after \in Range(ids)
    THEN SubSeq(ids, Min({i \in DOMAIN ids : ids[i] = after}) + 1, Len(ids))
    ELSE <<>>

FirstPage(ids) == SubSeq(ids, 1, Min({PAGE_ENTRIES_MAX, Len(ids)}))
NextCursor(ids) == IF Len(ids) > PAGE_ENTRIES_MAX THEN ids[PAGE_ENTRIES_MAX] ELSE None

Retained == IF row = Absent THEN earlier ELSE Append(earlier, live.id)
Approvals == Append(Catalogue, live.id)

\* read_observed.  A read may fail as a whole; in a history every entry is read by
\* itself, and the others are still listed.
Read(command, observation, failure, entry) ==
    LET HistoryOf(ids) ==
           RenderExecutionHistory(
              [i \in DOMAIN FirstPage(ids) |->
                 [id |-> ids[i],
                  status |-> IF failure # None /\ ids[i] = live.id THEN Err(failure)
                             ELSE Ok(ExecutionStatus(RowOf(ids[i]), observation))]],
              NextCursor(ids))
        CatalogueOf(ids) ==
           RenderCatalog([i \in DOMAIN FirstPage(ids) |->
                            [id |-> ids[i], each |-> live.each,
                             effect |-> IF ids[i] = live.id THEN live.effect ELSE "kubernetes"]],
                         NextCursor(ids))
    IN  CASE command.command = "Status" ->
                RenderExecutionStatus(
                   IF failure # None THEN Err(failure)
                   ELSE Ok(ExecutionStatus(RowOf(command.id), observation)))
          [] command.command = "Receipt" ->
                RenderReceipt(IF failure # None THEN Err(failure) ELSE Ok(ReceiptOf(command.id)))
          [] command.command = "List" ->
                IF command.after # None /\ command.after \notin Range(Approvals)
                THEN ServiceError("InvalidRequest")
                ELSE CatalogueOf(Behind(Approvals, command.after))
          [] command.command = "History" ->
                IF failure # None /\ ~entry THEN ServiceError(failure)
                ELSE HistoryOf(Behind(Retained, command.after))

Class(command) == IF command.command = "Receipt" THEN "Receipt" ELSE "Ordinary"

\* serve_admitted_connection: an answer beyond the limit is not sent at all.
Send(members, class) ==
    socket' = IF ResponseLengthAllowed(Length(members), class)
              THEN [stage |-> "answered", members |-> members]
              ELSE [stage |-> "unsent", members |-> <<>>]

Command == Decode(caller.request)

ServeRead(observation, failure, entry) ==
    /\ socket.stage = "sent" /\ Command.command # "Submit"
    /\ entry => failure # None /\ Command.command = "History"
    /\ Send(Read(Command, observation, failure, entry), Class(Command))
    /\ UNCHANGED <<service, export, fixed, caller, phase, told, exchanges>>

Answer(admission) == Send(RenderSubmission(admission), "Ordinary")

\* The submission is committed and confirmed; or the operation was there already.
ServeAdmission ==
    /\ socket.stage = "sent" /\ Command.command = "Submit" /\ Command.id = live.id
    /\ IF row = Absent
       THEN /\ row' = AdmittedRow
            /\ committed' = committed \cup {exchanges}
            /\ Answer([decision |-> "Admitted", phase |-> AdmittedRow.state])
       ELSE /\ UNCHANGED <<row, committed>>
            /\ Answer(IF row.effect = "kubernetes" /\ row.approved = "none"
                      THEN [decision |-> "Error", error |-> "InvalidRequest"]
                      ELSE [decision |-> "Admitted", phase |-> row.state])
    /\ UNCHANGED <<uncommitted, export, fixed, caller, phase, told, exchanges>>

\* A definite refusal: nothing of it is left behind.
ServeRefusal ==
    /\ socket.stage = "sent" /\ Command.command = "Submit"
    /\ IF Command.id # live.id
       THEN Answer([decision |-> "Error", error |-> "InvalidRequest"])
       ELSE /\ row = Absent
            /\ \E decision \in {"Busy", "Full"} : Answer([decision |-> decision])
    /\ UNCHANGED <<service, export, fixed, caller, phase, told, exchanges>>

\* The deadline passes, or storage fails, while the commit may still take effect.
ServeUndecided ==
    /\ socket.stage = "sent" /\ Command.command = "Submit" /\ Command.id = live.id
    /\ uncommitted' = uncommitted \cup {exchanges}
    /\ \/ Answer([decision |-> "Indeterminate"])
       \/ Answer([decision |-> "Error", error |-> "StorageUnavailable"])
    /\ UNCHANGED <<row, committed, export, fixed, caller, phase, told, exchanges>>

\* Whatever the caller hears, a submission that was sent may be executed.
StillRunning ==
    uncommitted' = IF socket.stage = "sent" /\ Command.command = "Submit" /\ Command.id = live.id
                   THEN uncommitted \cup {exchanges} ELSE uncommitted

\* The service closes the connection without an answer: no permit, another group,
\* a deadline, or shutdown.
Close ==
    /\ socket.stage = "sent"
    /\ socket' = [stage |-> "closed", members |-> <<>>]
    /\ StillRunning
    /\ UNCHANGED <<row, committed, export, fixed, caller, phase, told, exchanges>>

LateCommit(n) ==
    /\ n \in uncommitted
    /\ uncommitted' = uncommitted \ {n}
    /\ \/ /\ row = Absent
          /\ row' = AdmittedRow /\ committed' = committed \cup {n}
       \/ UNCHANGED <<row, committed>>
    /\ UNCHANGED <<export, fixed, socket, caller, phase, told, exchanges>>

Advance ==
    /\ row # Absent
    /\ row' \in Successors(row)
    /\ UNCHANGED <<uncommitted, committed, export, fixed, socket, caller, phase, told,
                   exchanges>>

-----------------------------------------------------------------------------
(* The transport of both callers.                                          *)

StatusTokens ==
    {"READY", "NOT_FOUND", "NOT_READY", "IN_PROGRESS", "NOT_ATTEMPTED", "SUCCEEDED", "FAILED",
     "UNKNOWN", "ADMITTED", "NOT_ADMITTED", "INDETERMINATE", "ERROR"}

\* validate_response_envelope.
ValidateResponseEnvelope(fields) ==
    /\ {"version", "status"} \subseteq DOMAIN fields
    /\ fields["version"] = Num(1)
    /\ IsToken(fields["status"], StatusTokens)

\* exchange: the request is within its bound, the socket opens or does not.
StartExchange(kind, name, request) ==
    /\ exchanges' = exchanges + 1 /\ told' = Nothing
    /\ caller' = [kind |-> kind, name |-> name, request |-> request]
    /\ \/ /\ RequestLength(Size(Obj(request)))
          /\ socket' = [stage |-> "sent", members |-> <<>>]
       \/ socket' = [stage |-> "unconnected", members |-> <<>>]

Tell(answer) ==
    told' = [by |-> caller.kind, name |-> caller.name, number |-> exchanges,
             id |-> IF "operation_id" \in DOMAIN caller.request
                    THEN caller.request.operation_id ELSE Null,
             answer |-> answer]

\* The line is written, or its writing fails and the bridge ends.
BridgeHears(exchange) ==
    LET With(answer) ==
           \/ /\ LineBytes(answer) <= OUTPUT_MAX
              /\ Tell(answer) /\ UNCHANGED phase
           \/ phase' = "Ended" /\ UNCHANGED told
    IN  /\ With(CallAnswer(caller.name, exchange))
        /\ caller' = NoCaller
        /\ UNCHANGED export

Diagnostic(end) ==
    CASE end = "Connection" -> "connection_unavailable"
      [] end = "Exchange" -> "exchange_incomplete"
      [] end = "Response" -> "response_invalid"

\* save_receipt before it touches the file.
ReceiptIsReadable(fields) ==
    /\ Exact(fields, {"version", "status", "receipt_hex", "receipt_sha256"})
    /\ ReceiptValid(fields)

\* run of the client: the answer is printed as it came; a receipt is saved.
ClientHears(exchange) ==
    LET With(fields) ==
           CASE caller.name # "receipt" ->
                   /\ Tell(fields) \/ Tell(Failure("output_unavailable"))
                   /\ caller' = NoCaller
             [] caller.name = "receipt" /\ fields["status"] # Str("READY") ->
                   Tell(Failure("receipt_unavailable")) /\ caller' = NoCaller
             [] caller.name = "receipt" /\ fields["status"] = Str("READY") ->
                   IF ReceiptIsReadable(fields)
                   THEN caller' = [caller EXCEPT !.kind = "open"] /\ UNCHANGED told
                   ELSE Tell(Failure("response_invalid")) /\ caller' = NoCaller
    IN  /\ IF exchange.end = "Answered" THEN With(Object(exchange.members))
           ELSE Tell(Failure(Diagnostic(exchange.end))) /\ caller' = NoCaller
        /\ UNCHANGED <<phase, export>>

Hear(exchange) ==
    /\ socket' = NoSocket
    /\ IF caller.kind = "bridge" THEN BridgeHears(exchange) ELSE ClientHears(exchange)

End(how, members) == [end |-> how, members |-> members]

Receive ==
    /\ socket.stage = "answered"
    /\ Hear(IF ValidateResponseEnvelope(Object(socket.members))
            THEN End("Answered", socket.members) ELSE End("Response", <<>>))
    /\ UNCHANGED <<service, fixed, exchanges>>

\* A refused connection, a closed one, or two seconds without the whole answer.
GiveUp ==
    /\ socket.stage # "none"
    /\ StillRunning
    /\ Hear(End(IF socket.stage = "unconnected" THEN "Connection" ELSE "Exchange", <<>>))
    /\ UNCHANGED <<row, committed, fixed, exchanges>>

-----------------------------------------------------------------------------
(* The client's grammar and its export.                                    *)

ClientCommands ==
    [list |-> "list_approved_actions", history |-> "list_operation_history",
     status |-> "get_set_deployment_image_status", submit |-> "submit_set_deployment_image",
     receipt |-> "get_set_deployment_image_receipt"]

\* request: five commands, each with its own number of arguments.
ClientRequest(arguments) ==
    LET name == arguments[1]
        WithCursor(after) ==
           [version |-> Num(1), request |-> Str(ClientCommands[name]), after |-> after]
        WithIdentity(id) ==
           [version |-> Num(1), request |-> Str(ClientCommands[name]), operation_id |-> id]
    IN  CASE name \in {"list", "history"} /\ Len(arguments) = 1 -> WithCursor(Null)
          [] /\ name \in {"list", "history"} /\ Len(arguments) = 2
             /\ IdentityIsValid(arguments[2]) -> WithCursor(arguments[2])
          [] /\ name \in {"status", "submit"} /\ Len(arguments) = 2
             /\ IdentityIsValid(arguments[2]) -> WithIdentity(arguments[2])
          [] /\ name = "receipt" /\ Len(arguments) = 3
             /\ IdentityIsValid(arguments[2]) /\ arguments[3] = "absolute" ->
                WithIdentity(arguments[2])
          [] OTHER -> None

Arguments ==
    { <<"list">>, <<"list", Identity(Unknown)>>, <<"history">>, <<"history", Identity(Unknown)>>,
      <<"submit", Identity(live.id)>>, <<"submit", Identity(Unknown)>>, <<"submit">>,
      <<"status", Identity(live.id)>>, <<"status", Text("two words", 9)>>,
      <<"receipt", Identity(live.id), "absolute">>, <<"receipt", Identity(live.id), "relative">>,
      <<"receipt", Identity(Unknown), "absolute">> }

RunClient(arguments) ==
    LET With(request) ==
           IF request = None
           THEN /\ told' = [Nothing EXCEPT !.by = "client", !.answer = Failure("invalid_usage")]
                /\ UNCHANGED <<socket, caller, exchanges>>
           ELSE StartExchange("client", arguments[1], request)
    IN  /\ calls = "client" /\ caller = NoCaller /\ exchanges < MaxExchanges
        /\ With(ClientRequest(arguments))
        /\ UNCHANGED <<service, export, fixed, phase>>

ExportFails ==
    /\ Tell(Failure("export_failed"))
    /\ caller' = NoCaller

\* create_new with the mode of the file set and read back.
Open ==
    /\ caller.kind = "open"
    /\ \/ /\ file = "absent"
          /\ file' = "empty" /\ synced' = FALSE
          /\ \/ caller' = [caller EXCEPT !.kind = "write"] /\ UNCHANGED told
             \/ ExportFails
       \/ ExportFails /\ UNCHANGED export
    /\ UNCHANGED <<service, fixed, socket, phase, exchanges>>

Write ==
    /\ caller.kind = "write"
    /\ \/ file' = "whole" /\ caller' = [caller EXCEPT !.kind = "sync"] /\ UNCHANGED told
       \/ file' = "partial" /\ ExportFails
    /\ UNCHANGED <<service, fixed, synced, socket, phase, exchanges>>

\* Mutant of Sync: the report does not wait for the disk.
SyncLater ==
    /\ caller.kind = "sync"
    /\ caller' = [caller EXCEPT !.kind = "report"]
    /\ UNCHANGED <<service, export, fixed, told, socket, phase, exchanges>>

\* sync_all.
Sync ==
    /\ caller.kind = "sync"
    /\ \/ synced' = TRUE /\ caller' = [caller EXCEPT !.kind = "report"] /\ UNCHANGED told
       \/ ExportFails /\ UNCHANGED synced
    /\ UNCHANGED <<service, fixed, file, socket, phase, exchanges>>

Report ==
    /\ caller.kind = "report"
    /\ Tell([status |-> Str("READY")]) \/ Tell(Failure("output_unavailable"))
    /\ caller' = NoCaller
    /\ UNCHANGED <<service, export, fixed, socket, phase, exchanges>>

\* The client is ended by a signal, or the machine loses power.  What was not synced
\* may be there in part; the directory is not synced, so the name may be gone.
Kill ==
    /\ caller.kind \notin {"none", "bridge"}
    /\ caller' = NoCaller /\ socket' = NoSocket
    /\ StillRunning
    /\ UNCHANGED <<row, committed, export, fixed, phase, told, exchanges>>

PowerLoss ==
    /\ caller' = NoCaller /\ socket' = NoSocket /\ phase' = "AwaitingInitialize"
    /\ file' \in IF file \in {"absent", "foreign"} THEN {file}
                 ELSE IF synced THEN {"absent", file}
                 ELSE {"absent", "empty", "partial", file}
    /\ synced' = TRUE
    /\ StillRunning
    /\ UNCHANGED <<row, committed, fixed, told, exchanges>>

-----------------------------------------------------------------------------
(* The bridge's session.                                                   *)

\* main of the bridge: one bounded line is read, answered, and only then the next.
ReadLine(line) ==
    LET Say(answer, next) ==
           /\ UNCHANGED <<socket, caller, exchanges>>
           /\ \/ /\ told' = [Nothing EXCEPT !.by = "bridge", !.answer = answer]
                 /\ phase' = next
              \/ phase' = "Ended" /\ UNCHANGED told
        Keep(next) == phase' = next /\ UNCHANGED <<told, socket, caller, exchanges>>
        Called(request) ==
           IF request = None THEN Say(Reply(-32602), phase)
           ELSE StartExchange("bridge", line.call.name, request) /\ UNCHANGED phase
        Reacted(reaction) ==
           \/ reaction.reply.reply = "call" /\ Called(DecodeCall(line.call))
           \/ reaction.reply.reply \in {"error", "result"} /\ Say(reaction.reply, reaction.phase)
           \/ reaction.reply.reply = "none" /\ Keep(reaction.phase)
    IN  /\ calls = "bridge" /\ caller = NoCaller /\ phase # "Ended"
        /\ exchanges < MaxExchanges
        /\ CASE line.line \in {"unreadable", "end", "unbounded"} -> Keep("Ended")
             [] line.line = "malformed" -> Say(Reply(-32700), phase)
             [] line.line = "envelope" -> Say(Reply(-32600), phase)
             [] line.line = "message" -> Reacted(Dispatch(line, phase))
        /\ UNCHANGED <<service, export, fixed>>

\* A client starts the bridge again.
StartBridge ==
    /\ caller = NoCaller /\ phase = "Ended"
    /\ phase' = "AwaitingInitialize"
    /\ UNCHANGED <<service, export, fixed, socket, caller, told, exchanges>>

-----------------------------------------------------------------------------
\* A behaviour begins with a new operation in a new journal, or in an old one with an
\* operation that was retained under a grant that named no target.
Init ==
    /\ \E b \in Beginnings :
          /\ live = b.live /\ earlier = b.earlier /\ calls = b.calls
          /\ row = IF b.legacy THEN KubernetesRow("none") ELSE Absent
          /\ original = b.file /\ file = b.file /\ synced = TRUE
    /\ socket = NoSocket /\ caller = NoCaller
    /\ uncommitted = {} /\ committed = {}
    /\ phase = "AwaitingInitialize" /\ told = Nothing
    /\ exchanges = 0

Next ==
    \/ \E observation \in Observations, failure \in {None} \cup ReadFailures, entry \in BOOLEAN :
          ServeRead(observation, failure, entry)
    \/ ServeAdmission \/ ServeRefusal \/ ServeUndecided \/ Close
    \/ \E n \in 1 .. MaxExchanges : LateCommit(n)
    \/ Advance
    \/ Receive \/ GiveUp
    \/ \E arguments \in Arguments : RunClient(arguments)
    \/ Open \/ Write \/ Sync \/ Report \/ Kill \/ PowerLoss
    \/ \E line \in Lines : ReadLine(line)
    \/ StartBridge

Spec == Init /\ [][Next]_vars

-----------------------------------------------------------------------------
(* Properties.                                                             *)

Status(fields) == IF "status" \in DOMAIN fields THEN fields["status"].string ELSE "none"

\* Every answer the service gives can be used.  One that is about a single operation is
\* never too long to be sent, whatever its facts hold; nor is a page of the longest
\* entries if JSON writes their facts as they are, and only a page of facts that need
\* escapes may be left unsent.  None that arrives is refused by the bridge's or the
\* client's own description of it, or is too long a line (render_*,
\* response_length_allowed, response_shape, validate_response_envelope).
EveryAnswerIsUsable ==
    /\ socket.stage = "unsent" => Command.command \in {"List", "History"} /\ live.each > 1
    /\ told.by \in {"bridge", "client"} /\ "error_class" \in DOMAIN told.answer =>
          told.answer["error_class"] # Str("response_invalid")
    /\ caller.kind = "bridge" /\ socket.stage = "answered" =>
          LineBytes(Object(socket.members)) <= OUTPUT_MAX

\* What a status says of a row, in the words of the status alone.
Truth(status, id) ==
    LET With(r) ==
           /\ status \in {"SUCCEEDED", "FAILED", "UNKNOWN"} =>
                 r.state = "Finalized" /\ StatusToken[r.result] = status
           /\ status = "NOT_ATTEMPTED" => r.state = "NotAttempted"
           /\ status = "IN_PROGRESS" => r.state # "Absent"
    IN  With(RowOf(id))

\* What a caller was told stays true however late it is read: a final status is the
\* status the journal keeps, an admitted operation is retained, and a submission that
\* was refused was not committed and will not be; neither the loss of an answer nor
\* an undecided submission turns into a refusal (render_submission, status_of, call,
\* exchange).
ReportStaysTrue ==
    LET Holds(status) ==
           /\ told.id # Null => Truth(status, told.id.text)
           /\ status = "ADMITTED" => row # Absent
           /\ status = "NOT_ADMITTED" => told.number \notin uncommitted \cup committed
           /\ status = "READY" /\ told.id # Null => RowOf(told.id.text).state = "Finalized"
           /\ "entries" \in DOMAIN told.answer =>
                 \A i \in DOMAIN told.answer["entries"].array :
                    LET entry == told.answer["entries"].array[i].object
                    IN  "status" \in DOMAIN entry =>
                           Truth(entry["status"].string, entry["operation_id"].text)
    IN  Holds(Status(told.answer))

\* A receipt that is reported as saved is whole under its name, even if power is lost
\* right after the report (then the name may be gone, as the directory is not synced),
\* and a file that was there before is never touched (save_receipt).
ExportIsWhole ==
    /\ told.by = "report" /\ Status(told.answer) = "READY" =>
          file \in {"whole", "absent"}
    /\ original = "foreign" => file = "foreign"
=============================================================================
