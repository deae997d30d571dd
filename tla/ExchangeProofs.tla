--------------------------- MODULE ExchangeProofs ---------------------------
(***************************************************************************)
(* What a caller is told about an operation stays true, and a receipt that *)
(* is reported as saved is whole, for any operations, lines and sizes.     *)
(***************************************************************************)
EXTENDS ServiceExchange, SequenceTheorems, TLAPS

-----------------------------------------------------------------------------
(* Members of an answer.                                                   *)

\* An answer that begins with its version and its status.
Headed(members, word) ==
    /\ Len(members) \in Nat \ {0, 1} /\ DOMAIN members = 1 .. Len(members)
    /\ members[1] = <<"version", Num(1)>> /\ members[2] = <<"status", Str(word)>>
    /\ \A i \in DOMAIN members :
          i > 2 => members[i][1] \notin {"version", "status", "entries", "operation_id"}

\* What is read from such an answer.
LEMMA HeadedObject ==
    ASSUME NEW members, NEW word, Headed(members, word)
    PROVE  /\ "status" \in DOMAIN Object(members)
           /\ Object(members)["status"] = Str(word)
           /\ "entries" \notin DOMAIN Object(members)
           /\ "operation_id" \notin DOMAIN Object(members)
<1>1. /\ 2 \in DOMAIN members /\ members[2][1] = "status" /\ members[2][2] = Str(word)
      /\ 1 \in DOMAIN members /\ members[1][1] = "version"
  BY DEF Headed
<1>2. \A i \in DOMAIN members : i # 2 => members[i][1] # "status"
  BY <1>1 DEF Headed
<1>3. \A i \in DOMAIN members : members[i][1] \notin {"entries", "operation_id"}
  BY <1>1 DEF Headed
<1>4. 2 = CHOOSE i \in DOMAIN members :
             /\ members[i][1] = "status"
             /\ \A j \in DOMAIN members : members[j][1] = "status" => j <= i
  <2>1. \A j \in DOMAIN members : members[j][1] = "status" => j <= 2
    BY <1>2
  <2> QED
    BY Zenon, <1>1, <1>2, <2>1
<1>5. DOMAIN Object(members) = Keys(members)
  BY Zenon DEF Object
<1>6. "status" \in Keys(members) /\ "entries" \notin Keys(members)
      /\ "operation_id" \notin Keys(members)
  BY Zenon, <1>1, <1>3 DEF Keys
<1>7. Object(members)["status"] = members[2][2]
  BY Zenon, <1>4, <1>6 DEF Object
<1> QED
  BY Zenon, <1>1, <1>5, <1>6, <1>7

\* The head alone, and with one or two members behind it.
LEMMA HeadAlone ==
    ASSUME NEW word
    PROVE  Headed(Header(word), word)
BY DEF Headed, Header

LEMMA HeadAndOne ==
    ASSUME NEW word, NEW x, NEW key \in {"error_class", "phase", "reason"}
    PROVE  Headed(Header(word) \o << <<key, x>> >>, word)
BY DEF Headed, Header

LEMMA HeadAndTwo ==
    ASSUME NEW word, NEW x, NEW y
    PROVE  Headed(Header(word) \o << <<"receipt_hex", x>>, <<"receipt_sha256", y>> >>, word)
BY DEF Headed, Header

\* A status with its rejection, its targets and its guidance.
LEMMA HeadAndTargets ==
    ASSUME NEW word, NEW x, NEW A, NEW B,
           A = <<>> \/ \E why : A = << <<"target_rejection", why>> >>,
           \/ B = <<>>
           \/ \E a, b : B = << <<"effect", a>>, <<"git", b>> >>
           \/ \E a, b, c, d : B = << <<"effect", a>>, <<"approved_target", b>>,
                                     <<"attempt_target", c>>, <<"observed_target", d>> >>
    PROVE  Headed(((Header(word) \o A) \o B) \o << <<"execution", x>> >>, word)
<1>1. CASE A = <<>>
  <2>1. CASE B = <<>>
    BY <1>1, <2>1 DEF Headed, Header
  <2>2. ASSUME NEW a, NEW b, B = << <<"effect", a>>, <<"git", b>> >>
        PROVE  Headed(((Header(word) \o A) \o B) \o << <<"execution", x>> >>, word)
    BY <1>1, <2>2 DEF Headed, Header
  <2>3. ASSUME NEW a, NEW b, NEW c, NEW d,
               B = << <<"effect", a>>, <<"approved_target", b>>,
                      <<"attempt_target", c>>, <<"observed_target", d>> >>
        PROVE  Headed(((Header(word) \o A) \o B) \o << <<"execution", x>> >>, word)
    BY <1>1, <2>3 DEF Headed, Header
  <2> QED
    BY Zenon, <2>1, <2>2, <2>3
<1>2. ASSUME NEW why, A = << <<"target_rejection", why>> >>
      PROVE  Headed(((Header(word) \o A) \o B) \o << <<"execution", x>> >>, word)
  <2>1. CASE B = <<>>
    BY <1>2, <2>1 DEF Headed, Header
  <2>2. ASSUME NEW a, NEW b, B = << <<"effect", a>>, <<"git", b>> >>
        PROVE  Headed(((Header(word) \o A) \o B) \o << <<"execution", x>> >>, word)
    BY <1>2, <2>2 DEF Headed, Header
  <2>3. ASSUME NEW a, NEW b, NEW c, NEW d,
               B = << <<"effect", a>>, <<"approved_target", b>>,
                      <<"attempt_target", c>>, <<"observed_target", d>> >>
        PROVE  Headed(((Header(word) \o A) \o B) \o << <<"execution", x>> >>, word)
    BY <1>2, <2>3 DEF Headed, Header
  <2> QED
    BY Zenon, <2>1, <2>2, <2>3
<1> QED
  BY Zenon, <1>1, <1>2

-----------------------------------------------------------------------------
(* Rows.                                                                   *)

Results == {"Succeeded", "Failed", "Unknown"}

States ==
    {"Requested", "Authorized", "NotAttempted", "ApplyStarted", "ReceiverObserved", "Finalized"}

Acknowledgements == {"updated", "rejected_before_send", "receiver_rejected", "unknown"}

\* A row as far as a status depends on it.
RowFits(r) ==
    \/ r = Absent
    \/ /\ {"effect", "state", "result"} \subseteq DOMAIN r
       /\ r.state \in States
       /\ r.state \in {"ReceiverObserved", "Finalized"} => r.result \in Results
       /\ r.effect \in {"kubernetes", "git"}
       /\ r.effect = "git" => /\ "acknowledgement" \in DOMAIN r
                              /\ r.acknowledgement \in Acknowledgements \cup {None}

\* A finished row has no successor; every other moves on to a row that fits again.
LEMMA SuccessorFits ==
    ASSUME NEW r, RowFits(r), r # Absent, NEW s \in Successors(r)
    PROVE  /\ RowFits(s) /\ s # Absent /\ s.state # "Absent"
           /\ r.state \notin {"Finalized", "NotAttempted", "Absent"}
<1>1. CASE r.state = "Requested"
  <2>1. s = [r EXCEPT !.state = "Authorized"]
    BY <1>1 DEF Successors
  <2> QED
    BY <1>1, <2>1 DEF RowFits, States, Absent
<1>2. CASE r.state = "Authorized" /\ r.effect = "kubernetes"
  <2>1. s \in Preflighted(r)
    BY <1>2 DEF Successors
  <2>2. \/ \E why : s = NotAttempted(r, why)
        \/ s = [NotAttempted(r, "StaleApproval") EXCEPT !.observed = "whole"]
        \/ s = [r EXCEPT !.state = "ApplyStarted", !.attempt = "whole", !.observed = "whole"]
    BY <1>2, <2>1 DEF Preflighted
  <2> QED
    BY <1>2, <2>2 DEF RowFits, States, Absent, NotAttempted
<1>3. CASE r.state = "Authorized" /\ r.effect = "git"
  <2>1. s \in Preflighted(r)
    BY <1>3 DEF Successors
  <2>2. \/ \E why : s = NotAttempted(r, why)
        \/ s = [r EXCEPT !.state = "ApplyStarted", !.attempted = TRUE]
    BY <1>3, <2>1 DEF Preflighted
  <2> QED
    BY <1>3, <2>2 DEF RowFits, States, Absent, NotAttempted
<1>4. CASE r.state = "ApplyStarted" /\ r.effect = "kubernetes"
  <2>1. s \in Observed(r)
    BY <1>4 DEF Successors
  <2>2. \E seen, result :
           /\ result \in Results
           /\ s = [r EXCEPT !.state = "ReceiverObserved", !.observed = seen, !.result = result]
    BY <1>4, <2>1 DEF Observed, Results
  <2> QED
    BY <1>4, <2>2 DEF RowFits, States, Absent
<1>5. CASE r.state = "ApplyStarted" /\ r.effect = "git" /\ r.acknowledgement = None
  <2>1. s \in Observed(r)
    BY <1>5 DEF Successors
  <2>2. \E word \in Acknowledgements : s = [r EXCEPT !.acknowledgement = word]
    BY <1>5, <2>1 DEF Observed, Acknowledgements
  <2> QED
    BY <1>5, <2>2 DEF RowFits, States, Absent
<1>6. CASE r.state = "ApplyStarted" /\ r.effect = "git" /\ r.acknowledgement # None
  <2>1. s \in Observed(r)
    BY <1>6 DEF Successors
  <2>2. \E seen : s = [r EXCEPT !.state = "ReceiverObserved", !.observed = seen,
                                !.result = GitResult(r.acknowledgement)]
    BY <1>6, <2>1 DEF Observed
  <2>3. r.acknowledgement \in Acknowledgements
    BY <1>6 DEF RowFits, Absent
  <2>4. GitResult(r.acknowledgement) \in Results
    BY <2>3 DEF GitResult, Acknowledgements, Results
  <2> QED
    BY <1>6, <2>2, <2>3, <2>4 DEF RowFits, States, Absent
<1>7. CASE r.state = "ReceiverObserved"
  <2>1. \E n : s = [r EXCEPT !.state = "Finalized", !.bytes = n]
    BY <1>7 DEF Successors
  <2> QED
    BY <1>7, <2>1 DEF RowFits, States, Absent
<1>8. CASE r.state \in {"NotAttempted", "Finalized"}
  BY <1>8 DEF Successors
<1> QED
  BY Zenon, <1>1, <1>2, <1>3, <1>4, <1>5, <1>6, <1>7, <1>8 DEF RowFits, States

\* Every row of the journal fits, if that of the operation in question does.
LEMMA RowOfFits ==
    ASSUME RowFits(row), NEW id
    PROVE  RowFits(RowOf(id))
<1>1. RowFits(EarlierRow)
  BY DEF RowFits, States, Results, EarlierRow, KubernetesRow
<1>2. RowFits(Absent)
  BY DEF RowFits
<1> QED
  BY Zenon, <1>1, <1>2 DEF RowOf

\* The word a status is rendered with.
StatusWord(r) == StatusToken[StatusOf(r).status]

\* What a row is reported as, by itself.
TruthOf(status, r) ==
    /\ status \in {"SUCCEEDED", "FAILED", "UNKNOWN"} =>
          r.state = "Finalized" /\ StatusToken[r.result] = status
    /\ status = "NOT_ATTEMPTED" => r.state = "NotAttempted"
    /\ status = "IN_PROGRESS" => r.state # "Absent"

LEMMA StatusWordTrue ==
    ASSUME NEW r, RowFits(r)
    PROVE  /\ TruthOf(StatusWord(r), r)
           /\ StatusWord(r) \notin {"ADMITTED", "NOT_ADMITTED", "READY"}
<1>1. CASE r = Absent
  BY <1>1 DEF Absent, StatusWord, StatusOf, StatusToken, TruthOf
<1>2. CASE r # Absent
  <2>1. CASE r.state \in {"Requested", "Authorized", "ApplyStarted", "ReceiverObserved"}
    BY <2>1 DEF StatusWord, StatusOf, StatusToken, TruthOf
  <2>2. CASE r.state = "NotAttempted"
    BY <2>2 DEF StatusWord, StatusOf, StatusToken, TruthOf
  <2>3. CASE r.state = "Finalized"
    BY <1>2, <2>3 DEF StatusWord, StatusOf, StatusToken, TruthOf, RowFits, Results
  <2> QED
    BY Zenon, <1>2, <2>1, <2>2, <2>3 DEF RowFits, States
<1> QED
  BY <1>1, <1>2

\* A status is rendered as what it is of the row.
LEMMA StatusRendered ==
    ASSUME NEW r, NEW observation
    PROVE  Headed(RenderExecutionStatus(Ok(ExecutionStatus(r, observation))), StatusWord(r))
<1> DEFINE status == StatusOf(r)
           said == ExecutionStatus(r, observation)
           x == Obj([disposition |-> Str(said.execution.disposition),
                     condition |->
                        IF said.execution.condition = None THEN Null
                        ELSE Str(said.execution.condition),
                     next_action |-> Str(NextAction(said.execution)),
                     action_owner |-> Str(ActionOwner(said.execution))])
           why == Str(TargetRejection(status.rejection))
           A == IF status.status = "NotAttempted" THEN << <<"target_rejection", why>> >> ELSE <<>>
           B == IF status.status = "NotFound" THEN <<>>
                ELSE IF r.effect = "git"
                THEN << <<"effect", Str("git.transition_ref")>>, <<"git", GitTargets(r)>> >>
                ELSE << <<"effect", Str("kubernetes.set_deployment_image")>>,
                        <<"approved_target", TargetFields(r.approved, r.each)>>,
                        <<"attempt_target", TargetFields(r.attempt, r.each)>>,
                        <<"observed_target", TargetFields(r.observed, r.each)>> >>
<1>1. said.status = status /\ said.row = r
  BY DEF ExecutionStatus
<1> HIDE DEF said
<1>2. ~IsErr(Ok(said)) /\ Ok(said).ok = said
  BY DEF IsErr, Is, Ok
<1>3. RenderExecutionStatus(Ok(said)) =
         ((Header(StatusToken[status.status]) \o A) \o B) \o << <<"execution", x>> >>
  BY Zenon, <1>1, <1>2 DEF RenderExecutionStatus, RenderStatusWithTargets, RenderStatus
<1>4. A = <<>> \/ \E w : A = << <<"target_rejection", w>> >>
  BY Zenon
<1>5. \/ B = <<>>
      \/ \E a, b : B = << <<"effect", a>>, <<"git", b>> >>
      \/ \E a, b, c, d : B = << <<"effect", a>>, <<"approved_target", b>>,
                                <<"attempt_target", c>>, <<"observed_target", d>> >>
  BY Zenon
<1> HIDE DEF x, A, B, why, status, said
<1>6. Headed(((Header(StatusToken[status.status]) \o A) \o B) \o << <<"execution", x>> >>,
             StatusToken[status.status])
  BY Zenon, <1>4, <1>5, HeadAndTargets
<1>7. StatusWord(r) = StatusToken[status.status]
  BY Zenon DEF StatusWord, status
<1> QED
  BY Zenon, <1>3, <1>6, <1>7 DEF said

\* An error is rendered as one.
LEMMA ErrorRendered ==
    ASSUME NEW error
    PROVE  Headed(ServiceError(error), "ERROR")
BY HeadAndOne DEF ServiceError

-----------------------------------------------------------------------------
(* What an answer says of an operation.                                    *)

EntryTrue(entry) ==
    "status" \in DOMAIN entry => Truth(entry["status"].string, entry["operation_id"].text)

EntriesTrue(entries) == \A i \in DOMAIN entries : EntryTrue(entries[i].object)

\* ReportStaysTrue of any answer, of any operation, in any exchange.
Says(answer, id, number) ==
    /\ id # Null => Truth(Status(answer), id.text)
    /\ Status(answer) = "ADMITTED" => row # Absent
    /\ Status(answer) = "NOT_ADMITTED" => number \notin uncommitted \cup committed
    /\ Status(answer) = "READY" /\ id # Null => RowOf(id.text).state = "Finalized"
    /\ "entries" \in DOMAIN answer => EntriesTrue(answer["entries"].array)

Telling ==
    {"SUCCEEDED", "FAILED", "UNKNOWN", "NOT_ATTEMPTED", "IN_PROGRESS", "ADMITTED",
     "NOT_ADMITTED", "READY"}

\* An answer that says nothing of a row is true of every row.
LEMMA SilentSays ==
    ASSUME NEW answer, NEW id, NEW number,
           Status(answer) \notin Telling, "entries" \notin DOMAIN answer
    PROVE  Says(answer, id, number)
BY Zenon DEF Says, Telling, Truth

LEMMA FailureSays ==
    ASSUME NEW class, NEW id, NEW number
    PROVE  Says(Failure(class), id, number) /\ Status(Failure(class)) = "ERROR"
<1>1. Status(Failure(class)) = "ERROR" /\ "entries" \notin DOMAIN Failure(class)
  BY DEF Status, Failure, Str
<1> QED
  BY <1>1, SilentSays DEF Telling

LEMMA ReplySays ==
    ASSUME NEW kind, NEW code, NEW id, NEW number
    PROVE  Says([reply |-> kind, code |-> code], id, number)
<1>1. /\ Status([reply |-> kind, code |-> code]) = "none"
      /\ "entries" \notin DOMAIN [reply |-> kind, code |-> code]
  BY DEF Status
<1> QED
  BY <1>1, SilentSays DEF Telling

\* A headed answer has the status of its head, and no entries.
LEMMA HeadedStatus ==
    ASSUME NEW members, NEW word, Headed(members, word)
    PROVE  /\ Status(Object(members)) = word
           /\ "entries" \notin DOMAIN Object(members)
<1>1. /\ "status" \in DOMAIN Object(members) /\ Object(members)["status"] = Str(word)
      /\ "entries" \notin DOMAIN Object(members)
  BY Zenon, HeadedObject
<1>2. Str(word).string = word
  BY DEF Str
<1> QED
  BY Zenon, <1>1, <1>2 DEF Status

LEMMA TruthIsOfRow ==
    ASSUME NEW status, NEW id
    PROVE  Truth(status, id) <=> TruthOf(status, RowOf(id))
BY Zenon DEF Truth, TruthOf

\* A row that moves on leaves true what was said of it.
RowMovesOn ==
    \/ row' = row
    \/ row = Absent /\ row' # Absent
    \/ /\ row # Absent /\ row' # Absent /\ row'.state # "Absent"
       /\ row.state \notin {"Finalized", "NotAttempted", "Absent"}

LEMMA TruthStays ==
    ASSUME RowMovesOn, UNCHANGED <<live, earlier>>, NEW status, NEW id, Truth(status, id)
    PROVE  Truth(status, id)'
<1>1. TruthOf(status, RowOf(id))
  BY Zenon, TruthIsOfRow
<1>2. RowOf(id)' = RowOf(id) \/ (RowOf(id) = row /\ RowOf(id)' = row')
  BY Zenon DEF RowOf, EarlierRow, KubernetesRow
<1>3. ASSUME RowOf(id) = row, RowOf(id)' = row' PROVE TruthOf(status, RowOf(id)')
  <2>1. TruthOf(status, row) => TruthOf(status, row')
    BY DEF RowMovesOn, TruthOf, Absent
  <2> QED
    BY Zenon, <1>1, <1>3, <2>1
<1> QED
  BY Zenon, <1>1, <1>2, <1>3 DEF Truth, TruthOf

LEMMA FinalStays ==
    ASSUME RowMovesOn, UNCHANGED <<live, earlier>>, NEW id, RowOf(id).state = "Finalized"
    PROVE  RowOf(id)'.state = "Finalized"
<1>1. RowOf(id)' = RowOf(id) \/ (RowOf(id) = row /\ RowOf(id)' = row')
  BY Zenon DEF RowOf, EarlierRow, KubernetesRow
<1>2. row.state = "Finalized" => row'.state = "Finalized"
  BY DEF RowMovesOn, Absent
<1> QED
  BY Zenon, <1>1, <1>2

LEMMA SaysStays ==
    ASSUME RowMovesOn, UNCHANGED <<live, earlier>>, NEW answer, NEW id, NEW number,
           Says(answer, id, number),
           Status(answer) = "NOT_ADMITTED" => number \notin uncommitted' \cup committed'
    PROVE  Says(answer, id, number)'
<1>1. id # Null => Truth(Status(answer), id.text)'
  BY Zenon, TruthStays DEF Says
<1>2. (Status(answer) = "ADMITTED" => row # Absent)'
  BY Zenon DEF Says, RowMovesOn
<1>3. Status(answer) = "READY" /\ id # Null => RowOf(id.text)'.state = "Finalized"
  BY Zenon, FinalStays DEF Says
<1>4. ASSUME "entries" \in DOMAIN answer, NEW i \in DOMAIN answer["entries"].array
      PROVE  EntryTrue(answer["entries"].array[i].object)'
  <2>1. EntryTrue(answer["entries"].array[i].object)
    BY Zenon, <1>4 DEF Says, EntriesTrue
  <2> QED
    BY Zenon, <2>1, TruthStays DEF EntryTrue
<1> QED
  BY Zenon, <1>1, <1>2, <1>3, <1>4 DEF Says, EntriesTrue

-----------------------------------------------------------------------------
(* Requests.                                                               *)

IdOf(request) == IF "operation_id" \in DOMAIN request THEN request.operation_id ELSE Null

AsksForPage(request) ==
    /\ DOMAIN request = {"version", "request", "after"} /\ request.version = Num(1)
    /\ request.request.string \in DOMAIN Paged
    /\ request.after = Null \/ IdentityIsValid(request.after)

AsksForOne(request) ==
    /\ DOMAIN request = {"version", "request", "operation_id"} /\ request.version = Num(1)
    /\ request.request.string \in DOMAIN Named
    /\ IdentityIsValid(request.operation_id)

Asks(request) == AsksForPage(request) \/ AsksForOne(request)

\* What the service decodes of such requests.
LEMMA DecodesPage ==
    ASSUME NEW request, AsksForPage(request), RequestLength(Size(Obj(request)))
    PROVE  Decode(request).command \in {"List", "History"} /\ IdOf(request) = Null
<1>1. request.version = Num(1)
  BY Zenon DEF AsksForPage
<1>2. Decode(request) = [command |-> Paged[request.request.string],
                         after |-> IF request.after = Null THEN None ELSE request.after.text]
  BY Zenon, <1>1 DEF Decode, AsksForPage
<1>3. Paged[request.request.string] \in {"List", "History"}
  BY DEF AsksForPage, Paged
<1>4. IdOf(request) = Null
  BY DEF AsksForPage, IdOf
<1> QED
  BY <1>2, <1>3, <1>4

LEMMA DecodesOne ==
    ASSUME NEW request, AsksForOne(request), RequestLength(Size(Obj(request)))
    PROVE  /\ Decode(request).command \in {"Status", "Receipt", "Submit"}
           /\ Decode(request).id = request.operation_id.text
           /\ IdOf(request) = request.operation_id
<1>1. request.version = Num(1)
  BY Zenon DEF AsksForOne
<1>2. "after" \notin {"version", "request", "operation_id"}
  OBVIOUS
<1>3. Decode(request) = [command |-> Named[request.request.string],
                         id |-> request.operation_id.text]
  BY Zenon, <1>1, <1>2 DEF Decode, AsksForOne
<1>4. Named[request.request.string] \in {"Status", "Receipt", "Submit"}
  BY DEF AsksForOne, Named
<1>5. IdOf(request) = request.operation_id
  BY DEF AsksForOne, IdOf
<1> QED
  BY <1>3, <1>4, <1>5

\* The bridge and the client make no other request.
LEMMA CallAsks ==
    ASSUME NEW call, DecodeCall(call) # None
    PROVE  Asks(DecodeCall(call))
<1>1. CASE Tools[call.name] \in DOMAIN Paged
  <2>1. /\ DecodeCall(call) = [version |-> Num(1), request |-> Str(Tools[call.name]),
                               after |-> call.arguments["after"]]
        /\ call.arguments["after"] = Null \/ IdentityIsValid(call.arguments["after"])
    BY Zenon, <1>1 DEF DecodeCall
  <2> QED
    BY <1>1, <2>1 DEF Asks, AsksForPage, Str
<1>2. CASE Tools[call.name] \notin DOMAIN Paged
  <2>1. /\ DecodeCall(call) = [version |-> Num(1), request |-> Str(Tools[call.name]),
                               operation_id |-> call.arguments["operation_id"]]
        /\ IdentityIsValid(call.arguments["operation_id"])
        /\ call.name \in DOMAIN Tools
    BY Zenon, <1>2 DEF DecodeCall
  <2>2. Tools[call.name] \in DOMAIN Named
    BY <1>2, <2>1 DEF Tools, Paged, Named
  <2> QED
    BY <2>1, <2>2 DEF Asks, AsksForOne, Str
<1> QED
  BY <1>1, <1>2

LEMMA ClientAsks ==
    ASSUME NEW arguments, ClientRequest(arguments) # None
    PROVE  Asks(ClientRequest(arguments))
<1> DEFINE name == arguments[1]
           Cursor(after) == [version |-> Num(1), request |-> Str(ClientCommands[name]),
                             after |-> after]
           One(id) == [version |-> Num(1), request |-> Str(ClientCommands[name]),
                       operation_id |-> id]
<1>1. \/ /\ name \in {"list", "history"}
         /\ ClientRequest(arguments) = Cursor(Null)
      \/ /\ name \in {"list", "history"} /\ IdentityIsValid(arguments[2])
         /\ ClientRequest(arguments) = Cursor(arguments[2])
      \/ /\ name \in {"status", "submit", "receipt"} /\ IdentityIsValid(arguments[2])
         /\ ClientRequest(arguments) = One(arguments[2])
  BY DEF ClientRequest
<1>2. ASSUME name \in {"list", "history"}, NEW after, after = Null \/ IdentityIsValid(after)
      PROVE  Asks(Cursor(after))
  BY <1>2 DEF Asks, AsksForPage, Str, ClientCommands, Paged
<1>3. ASSUME name \in {"status", "submit", "receipt"}, NEW id, IdentityIsValid(id)
      PROVE  Asks(One(id))
  BY <1>3 DEF Asks, AsksForOne, Str, ClientCommands, Named
<1> QED
  BY Zenon, <1>1, <1>2, <1>3

-----------------------------------------------------------------------------
(* Answers.                                                                *)

\* A page is ready, and has the entries it was made from.
LEMMA PageSays ==
    ASSUME NEW entries, NEW next, NEW number, EntriesTrue(entries)
    PROVE  Says(Object(Page(entries, next)), Null, number)
<1> DEFINE page == Page(entries, next)
           after == IF next = None THEN Null ELSE Identity(next)
<1>1. page = << <<"entries", Arr(entries)>>, <<"next_cursor", after>>,
                <<"status", Str("READY")>>, <<"version", Num(1)>> >>
  BY Zenon DEF Page
<1> HIDE DEF page, after
<1>2. /\ DOMAIN page = 1 .. 4
      /\ page[1][1] = "entries" /\ page[1][2] = Arr(entries)
      /\ page[2][1] = "next_cursor"
      /\ page[3][1] = "status" /\ page[3][2] = Str("READY")
      /\ page[4][1] = "version"
  BY <1>1
<1>3. /\ 1 = CHOOSE i \in DOMAIN page :
                /\ page[i][1] = "entries"
                /\ \A j \in DOMAIN page : page[j][1] = "entries" => j <= i
      /\ 3 = CHOOSE i \in DOMAIN page :
                /\ page[i][1] = "status"
                /\ \A j \in DOMAIN page : page[j][1] = "status" => j <= i
  <2>1. \A i \in DOMAIN page : /\ page[i][1] = "entries" <=> i = 1
                               /\ page[i][1] = "status" <=> i = 3
    BY <1>2
  <2>2. 1 \in DOMAIN page /\ 3 \in DOMAIN page /\ 1 <= 1 /\ 3 <= 3
    BY <1>2
  <2> QED
    BY Zenon, <2>1, <2>2
<1>4. "entries" \in Keys(page) /\ "status" \in Keys(page)
  <2>1. 1 \in DOMAIN page /\ 3 \in DOMAIN page
    BY <1>2
  <2> QED
    BY Zenon, <1>2, <2>1 DEF Keys
<1>5. /\ DOMAIN Object(page) = Keys(page)
      /\ Object(page)["entries"] = Arr(entries) /\ Object(page)["status"] = Str("READY")
  BY Zenon, <1>2, <1>3, <1>4 DEF Object
<1>6. Arr(entries).array = entries /\ Str("READY").string = "READY"
  BY DEF Arr, Str
<1>7. Status(Object(page)) = "READY" /\ Object(page)["entries"].array = entries
  BY Zenon, <1>4, <1>5, <1>6 DEF Status
<1>8. "READY" \notin {"ADMITTED", "NOT_ADMITTED"}
  OBVIOUS
<1> QED
  BY Zenon, <1>7, <1>8 DEF Says, page

\* An approval says nothing of a row.
LEMMA CatalogueSays ==
    ASSUME NEW entries, NEW next, NEW number
    PROVE  Says(Object(RenderCatalog(entries, next)), Null, number)
<1> DEFINE listed == [i \in DOMAIN entries |-> CatalogueEntry(entries[i])]
<1>1. ASSUME NEW i \in DOMAIN listed PROVE EntryTrue(listed[i].object)
  <2>1. listed[i] = CatalogueEntry(entries[i])
    BY Zenon, <1>1
  <2>2. "status" \notin DOMAIN CatalogueEntry(entries[i]).object
    BY DEF CatalogueEntry, Obj
  <2> QED
    BY Zenon, <2>1, <2>2 DEF EntryTrue
<1> HIDE DEF listed
<1>2. EntriesTrue(listed)
  BY Zenon, <1>1 DEF EntriesTrue
<1> QED
  BY Zenon, <1>2, PageSays DEF RenderCatalog, listed

\* An entry of a history says what a status says.
LEMMA HistoryEntryTrue ==
    ASSUME NEW members, NEW word, Headed(members, word), NEW id, Truth(word, id)
    PROVE  EntryTrue(HistoryEntry(Object(members), id).object)
<1> DEFINE fields == Object(members)
           entry == HistoryEntry(fields, id).object
<1>1. "status" \in DOMAIN fields /\ fields["status"] = Str(word)
  BY Zenon, HeadedObject
<1>2. entry = [key \in (DOMAIN fields \ {"version"}) \cup {"operation_id"} |->
                 IF key = "operation_id" THEN Identity(id) ELSE fields[key]]
  BY DEF HistoryEntry, Obj
<1> HIDE DEF fields, entry
<1>3. entry["status"] = Str(word) /\ entry["operation_id"] = Identity(id)
  BY <1>1, <1>2
<1>4. Str(word).string = word /\ Identity(id).text = id
  BY DEF Str, Identity, Text
<1> QED
  BY Zenon, <1>3, <1>4 DEF EntryTrue, entry, fields

\* The status of an operation, or the error that took its place.
LEMMA StatusTrue ==
    ASSUME RowFits(row), NEW id, NEW observation, NEW failure, NEW failed \in BOOLEAN,
           NEW result, result = IF failed THEN Err(failure)
                                ELSE Ok(ExecutionStatus(RowOf(id), observation))
    PROVE  \E word : /\ Headed(RenderExecutionStatus(result), word) /\ Truth(word, id)
                     /\ word \notin {"ADMITTED", "NOT_ADMITTED", "READY"}
<1>1. CASE failed
  <2>1. IsErr(Err(failure)) /\ Err(failure).error = failure
    BY DEF IsErr, Is, Err
  <2>2. Headed(RenderExecutionStatus(result), "ERROR")
    BY Zenon, <1>1, <2>1, ErrorRendered DEF RenderExecutionStatus
  <2>3. Truth("ERROR", id) /\ "ERROR" \notin {"ADMITTED", "NOT_ADMITTED", "READY"}
    BY DEF Truth
  <2> QED
    BY Zenon, <2>2, <2>3
<1>2. CASE ~failed
  <2>1. RowFits(RowOf(id))
    BY Zenon, RowOfFits
  <2>2. /\ TruthOf(StatusWord(RowOf(id)), RowOf(id))
        /\ StatusWord(RowOf(id)) \notin {"ADMITTED", "NOT_ADMITTED", "READY"}
    BY Zenon, <2>1, StatusWordTrue
  <2>3. Headed(RenderExecutionStatus(result), StatusWord(RowOf(id)))
    BY Zenon, <1>2, StatusRendered
  <2> QED
    BY Zenon, <2>2, <2>3, TruthIsOfRow
<1> QED
  BY <1>1, <1>2

LEMMA HistorySays ==
    ASSUME RowFits(row), NEW entries, NEW next, NEW number, NEW observation, NEW failure,
           \A i \in DOMAIN entries :
              \/ entries[i].status = Err(failure)
              \/ entries[i].status = Ok(ExecutionStatus(RowOf(entries[i].id), observation))
    PROVE  Says(Object(RenderExecutionHistory(entries, next)), Null, number)
<1> DEFINE listed == [i \in DOMAIN entries |->
                        HistoryEntry(Object(RenderExecutionStatus(entries[i].status)),
                                     entries[i].id)]
<1>1. ASSUME NEW i \in DOMAIN listed PROVE EntryTrue(listed[i].object)
  <2>1. i \in DOMAIN entries
    BY Zenon, <1>1
  <2>2. \E failed \in BOOLEAN :
           entries[i].status = IF failed THEN Err(failure)
                               ELSE Ok(ExecutionStatus(RowOf(entries[i].id), observation))
    <3>1. CASE entries[i].status = Err(failure)
      BY Zenon, <3>1
    <3>2. CASE entries[i].status = Ok(ExecutionStatus(RowOf(entries[i].id), observation))
      BY Zenon, <3>2
    <3> QED
      BY Zenon, <2>1, <3>1, <3>2
  <2>3. PICK word : /\ Headed(RenderExecutionStatus(entries[i].status), word)
                    /\ Truth(word, entries[i].id)
    BY Zenon, <2>2, StatusTrue
  <2>4. listed[i] = HistoryEntry(Object(RenderExecutionStatus(entries[i].status)), entries[i].id)
    BY Zenon, <2>1
  <2> QED
    BY Zenon, <2>3, <2>4, HistoryEntryTrue
<1> HIDE DEF listed
<1>2. EntriesTrue(listed)
  BY Zenon, <1>1 DEF EntriesTrue
<1> QED
  BY Zenon, <1>2, PageSays DEF RenderExecutionHistory, listed

\* A headed answer says what its word says.
LEMMA HeadedSays ==
    ASSUME NEW members, NEW word, Headed(members, word), NEW id, NEW number,
           id # Null => Truth(word, id.text),
           word = "ADMITTED" => row # Absent,
           word = "NOT_ADMITTED" => number \notin uncommitted \cup committed,
           word = "READY" /\ id # Null => RowOf(id.text).state = "Finalized"
    PROVE  Says(Object(members), id, number)
BY Zenon, HeadedStatus DEF Says

\* Nothing is said by an answer without members, or by an error.
LEMMA EmptySays ==
    ASSUME NEW id, NEW number
    PROVE  Says(Object(<<>>), id, number)
<1>1. DOMAIN Object(<<>>) = {}
  <2>1. Keys(<<>>) = {}
    BY DEF Keys
  <2> QED
    BY Zenon, <2>1 DEF Object
<1>2. Status(Object(<<>>)) = "none"
  BY Zenon, <1>1 DEF Status
<1> QED
  BY <1>1, <1>2, SilentSays DEF Telling

LEMMA ErrorSays ==
    ASSUME NEW error, NEW id, NEW number
    PROVE  Says(Object(ServiceError(error)), id, number)
<1>1. Status(Object(ServiceError(error))) = "ERROR"
      /\ "entries" \notin DOMAIN Object(ServiceError(error))
  BY Zenon, ErrorRendered, HeadedStatus
<1> QED
  BY <1>1, SilentSays DEF Telling

\* A receipt is handed out only of a finalized operation.
LEMMA ReceiptSays ==
    ASSUME NEW id, NEW failure, NEW number, NEW result,
           result = Err(failure) \/ result = Ok(ReceiptOf(id.text))
    PROVE  Says(Object(RenderReceipt(result)), id, number)
<1>1. CASE result = Err(failure)
  <2>1. IsErr(Err(failure)) /\ Err(failure).error = failure
    BY DEF IsErr, Is, Err
  <2> QED
    BY Zenon, <1>1, <2>1, ErrorSays DEF RenderReceipt
<1>2. CASE result = Ok(ReceiptOf(id.text))
  <2> DEFINE receipt == ReceiptOf(id.text)
  <2>1. ~IsErr(Ok(receipt)) /\ Ok(receipt).ok = receipt
    <3> HIDE DEF receipt
    <3> QED
      BY DEF IsErr, Is, Ok
  <2>2. receipt.receipt \in {"NotFound", "Ready", "NotReady"}
        /\ (receipt.receipt = "Ready" => RowOf(id.text).state = "Finalized")
    BY DEF ReceiptOf
  <2> HIDE DEF receipt
  <2>3. CASE receipt.receipt = "Ready"
    <3> DEFINE members == Header("READY") \o
                          << <<"receipt_hex", Hex(receipt.of, 2 * receipt.bytes)>>,
                             <<"receipt_sha256", Hex(receipt.digest, 64)>> >>
    <3>1. RenderReceipt(result) \in {members, <<>>}
      BY Zenon, <1>2, <2>1, <2>3 DEF RenderReceipt, receipt
    <3>2. Headed(members, "READY")
      BY Zenon, HeadAndTwo
    <3>3. Truth("READY", id.text) /\ "READY" \notin {"ADMITTED", "NOT_ADMITTED"}
      BY DEF Truth
    <3> HIDE DEF members
    <3>4. Says(Object(members), id, number)
      BY Zenon, <2>2, <2>3, <3>2, <3>3, HeadedSays
    <3> QED
      BY Zenon, <3>1, <3>4, EmptySays
  <2>4. CASE receipt.receipt # "Ready"
    <3> DEFINE word == IF receipt.receipt = "NotReady" THEN "NOT_READY" ELSE "NOT_FOUND"
    <3>1. RenderReceipt(result) = Header(word)
      BY Zenon, <1>2, <2>1, <2>4 DEF RenderReceipt, receipt
    <3>2. Headed(Header(word), word)
      BY Zenon, HeadAlone
    <3>3. Truth(word, id.text) /\ word \notin {"ADMITTED", "NOT_ADMITTED", "READY"}
      BY DEF Truth
    <3> QED
      BY Zenon, <3>1, <3>2, <3>3, HeadedSays
  <2> QED
    BY <2>3, <2>4
<1> QED
  BY <1>1, <1>2

\* Every read is answered truly.
LEMMA ReadSays ==
    ASSUME RowFits(row), NEW request, Asks(request), RequestLength(Size(Obj(request))),
           NEW observation, NEW failure, NEW entry \in BOOLEAN, NEW number,
           Decode(request).command # "Submit"
    PROVE  Says(Object(Read(Decode(request), observation, failure, entry)),
                IdOf(request), number)
<1> DEFINE command == Decode(request)
           said == Read(command, observation, failure, entry)
<1>1. CASE AsksForOne(request)
  <2>1. /\ command.command \in {"Status", "Receipt"}
        /\ command.id = request.operation_id.text /\ IdOf(request) = request.operation_id
    BY Zenon, <1>1, DecodesOne
  <2> HIDE DEF command
  <2>2. CASE command.command = "Status"
    <3> DEFINE result == IF failure # None THEN Err(failure)
                         ELSE Ok(ExecutionStatus(RowOf(command.id), observation))
    <3>1. said = RenderExecutionStatus(result)
      BY <2>2 DEF Read
    <3>2. \E failed \in BOOLEAN :
             result = IF failed THEN Err(failure)
                      ELSE Ok(ExecutionStatus(RowOf(command.id), observation))
      BY Zenon
    <3> HIDE DEF result, said
    <3>3. PICK word : /\ Headed(RenderExecutionStatus(result), word) /\ Truth(word, command.id)
                      /\ word \notin {"ADMITTED", "NOT_ADMITTED", "READY"}
      BY Zenon, <3>2, StatusTrue
    <3>4. Says(Object(said), IdOf(request), number)
      BY Zenon, <2>1, <3>1, <3>3, HeadedSays
    <3> QED
      BY Zenon, <3>4 DEF said, command
  <2>3. CASE command.command = "Receipt"
    <3> DEFINE result == IF failure # None THEN Err(failure) ELSE Ok(ReceiptOf(command.id))
    <3>1. said = RenderReceipt(result)
      BY <2>3 DEF Read
    <3>2. result = Err(failure) \/ result = Ok(ReceiptOf(request.operation_id.text))
      BY Zenon, <2>1
    <3> HIDE DEF result, said
    <3>4. Says(Object(said), request.operation_id, number)
      BY Zenon, <3>1, <3>2, ReceiptSays
    <3> QED
      BY Zenon, <2>1, <3>4 DEF said, command
  <2> QED
    BY Zenon, <2>1, <2>2, <2>3
<1>2. CASE AsksForPage(request)
  <2>1. command.command \in {"List", "History"} /\ IdOf(request) = Null
    BY Zenon, <1>2, DecodesPage
  <2> HIDE DEF command
  <2>2. CASE command.command = "List"
    <3>1. \/ said = ServiceError("InvalidRequest")
          \/ \E entries, next : said = RenderCatalog(entries, next)
      BY <2>2 DEF Read
    <3> HIDE DEF said
    <3>2. Says(Object(said), Null, number)
      BY Zenon, <3>1, ErrorSays, CatalogueSays
    <3> QED
      BY Zenon, <2>1, <3>2 DEF said, command
  <2>3. CASE command.command = "History"
    <3> DEFINE ids == Behind(Retained, command.after)
               entries == [i \in DOMAIN FirstPage(ids) |->
                             [id |-> ids[i],
                              status |-> IF failure # None /\ ids[i] = live.id THEN Err(failure)
                                         ELSE Ok(ExecutionStatus(RowOf(ids[i]), observation))]]
    <3>1. \/ said = ServiceError(failure)
          \/ said = RenderExecutionHistory(entries, NextCursor(ids))
      BY <2>3 DEF Read
    <3>2. \A i \in DOMAIN entries :
             \/ entries[i].status = Err(failure)
             \/ entries[i].status = Ok(ExecutionStatus(RowOf(entries[i].id), observation))
      <4> HIDE DEF ids
      <4> QED
        OBVIOUS
    <3> HIDE DEF said, entries, ids
    <3>3. Says(Object(RenderExecutionHistory(entries, NextCursor(ids))), Null, number)
      BY Zenon, <3>2, HistorySays
    <3>4. Says(Object(said), Null, number)
      BY Zenon, <3>1, <3>3, ErrorSays
    <3> QED
      BY Zenon, <2>1, <3>4 DEF said, command
  <2> QED
    BY Zenon, <2>1, <2>2, <2>3
<1> QED
  BY Zenon, <1>1, <1>2 DEF Asks

-----------------------------------------------------------------------------
(* The inductive invariant.                                                *)

ExportKinds == {"open", "write", "sync", "report"}

\* A caller asks what can be decoded; it has been told nothing while it waits, and it
\* is done with the connection when it saves a receipt.
CallerFits ==
    /\ DOMAIN caller = {"kind", "name", "request"}
    /\ IF caller = NoCaller THEN socket = NoSocket
       ELSE Asks(caller.request) /\ told = Nothing
    /\ caller.kind \in ExportKinds => socket = NoSocket

\* Exchanges are numbered, and the one under way has left nothing behind.
NumbersFit ==
    /\ exchanges \in Nat
    /\ \A n \in uncommitted \cup committed : n \in Nat /\ n <= exchanges
    /\ socket.stage = "sent" => exchanges \notin uncommitted \cup committed

\* What is on the connection.
SocketFits ==
    /\ socket.stage = "sent" => RequestLength(Size(Obj(caller.request)))
    /\ socket.stage = "answered" =>
          Says(Object(socket.members), IdOf(caller.request), exchanges)

\* What the export has established.
ExportFits ==
    /\ caller.kind \in ExportKinds /\ IdOf(caller.request) # Null =>
          RowOf(IdOf(caller.request).text).state = "Finalized"
    /\ caller.kind = "write" => file = "empty"
    /\ caller.kind = "sync" => file = "whole"
    /\ caller.kind = "report" => file = "whole" /\ synced
    /\ told.by = "report" /\ Status(told.answer) = "READY" =>
          file \in {"whole", "absent"} /\ synced
    /\ original = "foreign" => file = "foreign"

ToldFits == Says(told.answer, told.id, told.number)

IInv ==
    /\ RowFits(row) /\ CallerFits /\ NumbersFit /\ SocketFits /\ ExportFits /\ ToldFits

\* Where there is no caller nothing is on the connection.
LEMMA Connected ==
    ASSUME IInv
    PROVE  /\ socket.stage # "none" => caller # NoCaller /\ caller.kind \notin ExportKinds
           /\ caller.kind \in ExportKinds => caller # NoCaller
           /\ NoSocket.stage = "none" /\ NoCaller.kind = "none"
<1>1. NoSocket.stage = "none" /\ NoCaller.kind = "none" /\ "none" \notin ExportKinds
  BY DEF NoSocket, NoCaller, ExportKinds
<1> QED
  BY Zenon, <1>1 DEF IInv, CallerFits

\* A new row fits.
LEMMA AdmittedFits ==
    /\ RowFits(AdmittedRow) /\ AdmittedRow # Absent /\ AdmittedRow.state \in States
<1>1. RowFits(GitRow) /\ GitRow.state \in States
  BY DEF RowFits, GitRow, States
<1>2. ASSUME NEW approved
      PROVE  RowFits(KubernetesRow(approved)) /\ KubernetesRow(approved).state \in States
  BY DEF RowFits, KubernetesRow, States
<1>3. RowFits(AdmittedRow) /\ AdmittedRow.state \in States
  BY Zenon, <1>1, <1>2 DEF AdmittedRow
<1>4. Absent.state \notin States
  BY DEF Absent, States
<1> QED
  BY Zenon, <1>3, <1>4

\* What has been said, or is now said, of the row as it was stays true of the row as it is.
LEMMA ToldNext ==
    ASSUME RowMovesOn, UNCHANGED <<live, earlier>>,
           Says(told'.answer, told'.id, told'.number),
           Status(told'.answer) = "NOT_ADMITTED" => told'.number \notin uncommitted' \cup committed'
    PROVE  ToldFits'
<1>1. PICK answer, id, number : answer = told'.answer /\ id = told'.id /\ number = told'.number
  BY Zenon
<1>2. Says(answer, id, number)'
  BY Zenon, <1>1, SaysStays
<1> QED
  BY Zenon, <1>1, <1>2 DEF ToldFits

\* Nothing that was told is not a refusal.
LEMMA NothingTold ==
    /\ Status(Nothing.answer) = "none" /\ Nothing.by = "none"
    /\ \A id, number : Says(Nothing.answer, id, number)
<1>1. Status(Nothing.answer) = "none" /\ Nothing.by = "none" /\ DOMAIN Nothing.answer = {}
  BY DEF Status, Nothing
<1> QED
  BY <1>1, SilentSays DEF Telling

\* An export goes on from a row that is finished.
LEMMA ExportNext ==
    ASSUME IInv, RowMovesOn, UNCHANGED <<live, earlier, original, export, caller, told>>
    PROVE  ExportFits'
<1>1. PICK request : request = caller.request
  BY Zenon
<1>2. caller.kind \in ExportKinds /\ IdOf(request) # Null =>
          RowOf(IdOf(request).text)'.state = "Finalized"
  BY Zenon, <1>1, FinalStays DEF IInv, ExportFits
<1>3. IdOf(caller.request)' = IdOf(request)
  BY Zenon, <1>1 DEF IdOf, Null
<1>4. /\ caller' = caller /\ told' = told /\ original' = original /\ file' = file
      /\ synced' = synced
  BY Zenon DEF export
<1>5. ~(caller.kind \in ExportKinds /\ IdOf(request) # Null)
      \/ (RowOf(IdOf(caller.request).text).state = "Finalized")'
  BY Zenon, <1>2, <1>3 DEF RowOf, EarlierRow, KubernetesRow
<1> QED
  BY Zenon, <1>3, <1>4, <1>5 DEF IInv, ExportFits, Status, Null

-----------------------------------------------------------------------------
(* The service.                                                            *)

Delivered(members) ==
    socket' \in {[stage |-> "answered", members |-> members],
                [stage |-> "unsent", members |-> <<>>], [stage |-> "closed", members |-> <<>>]}

\* A request that was sent is answered truly, or not at all.
LEMMA ServedInv ==
    ASSUME IInv, socket.stage = "sent", RowMovesOn, RowFits(row'),
           UNCHANGED <<export, fixed, caller, told, exchanges>>,
           uncommitted' \cup committed' \subseteq uncommitted \cup committed \cup {exchanges},
           NEW members, Delivered(members),
           socket'.stage = "answered" => Says(Object(members), IdOf(caller.request), exchanges)'
    PROVE  IInv'
<1>1. live' = live /\ earlier' = earlier /\ original' = original
  BY Zenon DEF fixed
<1>2. told = Nothing /\ told' = told /\ caller # NoCaller /\ caller' = caller
      /\ caller.kind \notin ExportKinds
  BY Zenon, Connected DEF IInv, CallerFits
<1>3. ToldFits'
  <2>1. Status(told'.answer) # "NOT_ADMITTED"
    BY Zenon, <1>2, NothingTold
  <2>2. Says(told'.answer, told'.id, told'.number)
    BY Zenon, <1>2 DEF IInv, ToldFits
  <2> QED
    BY Zenon, <1>1, <2>1, <2>2, ToldNext
<1>4. ExportFits'
  BY Zenon, <1>1, ExportNext
<1>5. socket'.stage \in {"answered", "unsent", "closed"}
      /\ (socket'.stage = "answered" => socket'.members = members)
  BY DEF Delivered
<1>6. NumbersFit'
  BY <1>5 DEF IInv, NumbersFit
<1>7. SocketFits'
  <2>1. socket'.stage = "answered" => Says(Object(socket.members), IdOf(caller.request), exchanges)'
    BY Zenon, <1>5
  <2> QED
    BY <1>5, <2>1 DEF SocketFits
<1>8. CallerFits'
  BY Zenon, <1>2 DEF IInv, CallerFits, Nothing, NoCaller, Asks, AsksForPage, AsksForOne
<1> QED
  BY Zenon, <1>3, <1>4, <1>6, <1>7, <1>8 DEF IInv, RowFits, Absent, States, Results,
     Acknowledgements

\* What Send leaves on the connection.
LEMMA SendShape ==
    ASSUME NEW members, NEW class, Send(members, class)
    PROVE  Delivered(members)
BY Zenon DEF Send, Delivered

\* An answer about a row that does not change.
LEMMA SaysSame ==
    ASSUME NEW answer, NEW id, NEW number, Says(answer, id, number),
           UNCHANGED <<live, earlier, row>>,
           Status(answer) = "NOT_ADMITTED" => number \notin uncommitted' \cup committed'
    PROVE  Says(answer, id, number)'
BY Zenon, SaysStays DEF RowMovesOn

\* An operation that has just been admitted, or was before, may be reported so.
LEMMA AdmittedSays ==
    ASSUME NEW members, NEW state, row' # Absent, NEW id, NEW number,
           members = RenderSubmission([decision |-> "Admitted", phase |-> state])
    PROVE  Says(Object(members), id, number)'
<1>1. \E x : members = Header("ADMITTED") \o << <<"phase", x>> >>
  BY DEF RenderSubmission
<1>2. Status(Object(members)) = "ADMITTED" /\ "entries" \notin DOMAIN Object(members)
  BY Zenon, <1>1, HeadAndOne, HeadedStatus
<1> HIDE DEF Object, Status
<1>3. PICK answer : answer = Object(members)
  BY Zenon
<1>4. Says(answer, id, number)'
  BY <1>2, <1>3 DEF Says, Truth
<1> QED
  BY Zenon, <1>3, <1>4

\* An error of a submission says nothing of the row.
LEMMA SubmissionErrorSays ==
    ASSUME NEW error, NEW id, NEW number
    PROVE  /\ Says(Object(RenderSubmission([decision |-> "Error", error |-> error])), id, number)
           /\ Status(Object(RenderSubmission([decision |-> "Error", error |-> error]))) = "ERROR"
<1>1. RenderSubmission([decision |-> "Error", error |-> error]) = ServiceError(error)
  BY DEF RenderSubmission
<1> QED
  BY Zenon, <1>1, ErrorSays, ErrorRendered, HeadedStatus

LEMMA ServeReadInv ==
    ASSUME IInv, NEW observation, NEW failure, NEW entry \in BOOLEAN,
           ServeRead(observation, failure, entry)
    PROVE  IInv'
<1> DEFINE members == Read(Command, observation, failure, entry)
<1>1. /\ socket.stage = "sent" /\ Command.command # "Submit"
      /\ Send(members, Class(Command))
      /\ UNCHANGED <<service, export, fixed, caller, told, exchanges>>
  BY Zenon DEF ServeRead
<1>2. /\ row' = row /\ uncommitted' = uncommitted /\ committed' = committed
      /\ live' = live /\ earlier' = earlier
  BY Zenon, <1>1 DEF service, fixed
<1>3. Asks(caller.request) /\ RequestLength(Size(Obj(caller.request)))
  BY Zenon, <1>1, Connected DEF IInv, CallerFits, SocketFits
<1>4. Says(Object(members), IdOf(caller.request), exchanges)
  BY Zenon, <1>1, <1>3, ReadSays DEF IInv, Command
<1> HIDE DEF members
<1>5. PICK said, id, number :
         said = members /\ id = IdOf(caller.request) /\ number = exchanges
  BY Zenon
<1>6. number \notin uncommitted' \cup committed'
  BY Zenon, <1>1, <1>2, <1>5 DEF IInv, NumbersFit
<1>7. Says(Object(said), id, number)'
  BY Zenon, <1>2, <1>4, <1>5, <1>6, SaysSame
<1>8. id = IdOf(caller.request)' /\ number = exchanges'
  BY Zenon, <1>1, <1>5 DEF IdOf, Null
<1>9. Says(Object(said), IdOf(caller.request), exchanges)'
  BY Zenon, <1>7, <1>8
<1>10. RowMovesOn /\ RowFits(row')
       /\ uncommitted' \cup committed' \subseteq uncommitted \cup committed \cup {exchanges}
  BY Zenon, <1>2 DEF RowMovesOn, IInv
<1>11. Delivered(said)
  BY Zenon, <1>1, <1>5, SendShape
<1> QED
  BY Zenon, <1>1, <1>9, <1>10, <1>11, ServedInv

LEMMA ServeAdmissionInv == IInv /\ ServeAdmission => IInv'
<1> SUFFICES ASSUME IInv, ServeAdmission PROVE IInv'
  OBVIOUS
<1>1. /\ socket.stage = "sent" /\ uncommitted' = uncommitted
      /\ UNCHANGED <<export, fixed, caller, told, exchanges>>
      /\ live' = live /\ earlier' = earlier
  BY Zenon DEF ServeAdmission, fixed
<1>2. RowMovesOn /\ RowFits(row') /\ row' # Absent
      /\ uncommitted' \cup committed' \subseteq uncommitted \cup committed \cup {exchanges}
  BY Zenon, <1>1, AdmittedFits DEF ServeAdmission, RowMovesOn, IInv
<1>3. \E admission :
         /\ Answer(admission)
         /\ \/ \E state : admission = [decision |-> "Admitted", phase |-> state]
            \/ row' = row /\ committed' = committed
               /\ admission = [decision |-> "Error", error |-> "InvalidRequest"]
  BY Zenon DEF ServeAdmission
<1>4. PICK admission :
         /\ Answer(admission)
         /\ \/ \E state : admission = [decision |-> "Admitted", phase |-> state]
            \/ row' = row /\ committed' = committed
               /\ admission = [decision |-> "Error", error |-> "InvalidRequest"]
  BY Zenon, <1>3
<1>5. PICK members : members = RenderSubmission(admission)
  BY Zenon
<1>6. ASSUME NEW id, NEW number PROVE Says(Object(members), id, number)'
  <2>1. CASE \E state : admission = [decision |-> "Admitted", phase |-> state]
    BY Zenon, <1>2, <1>5, <2>1, AdmittedSays
  <2>2. CASE /\ row' = row /\ committed' = committed
             /\ admission = [decision |-> "Error", error |-> "InvalidRequest"]
    <3>1. Says(Object(members), id, number) /\ Status(Object(members)) = "ERROR"
      BY Zenon, <1>5, <2>2, SubmissionErrorSays
    <3> QED
      BY Zenon, <1>1, <2>2, <3>1, SaysSame
  <2> QED
    BY Zenon, <1>4, <2>1, <2>2
<1>7. Delivered(members)
  BY Zenon, <1>4, <1>5, SendShape DEF Answer
<1>8. Says(Object(members), IdOf(caller.request), exchanges)'
  BY Zenon, <1>6
<1> QED
  BY Zenon, <1>1, <1>2, <1>7, <1>8, ServedInv

\* A refusal is one of the exchange under way, which has left nothing behind.
LEMMA ServeRefusalInv == IInv /\ ServeRefusal => IInv'
<1> SUFFICES ASSUME IInv, ServeRefusal PROVE IInv'
  OBVIOUS
<1>1. /\ socket.stage = "sent" /\ UNCHANGED <<export, fixed, caller, told, exchanges>>
      /\ row' = row /\ uncommitted' = uncommitted /\ committed' = committed
      /\ live' = live /\ earlier' = earlier
  BY Zenon DEF ServeRefusal, fixed, service
<1>2. RowMovesOn /\ RowFits(row')
      /\ uncommitted' \cup committed' \subseteq uncommitted \cup committed \cup {exchanges}
  BY Zenon, <1>1 DEF RowMovesOn, IInv
<1>3. \E admission :
         /\ Answer(admission)
         /\ \/ \E decision \in {"Busy", "Full"} : admission = [decision |-> decision]
            \/ admission = [decision |-> "Error", error |-> "InvalidRequest"]
  BY Zenon DEF ServeRefusal
<1>4. PICK admission :
         /\ Answer(admission)
         /\ \/ \E decision \in {"Busy", "Full"} : admission = [decision |-> decision]
            \/ admission = [decision |-> "Error", error |-> "InvalidRequest"]
  BY Zenon, <1>3
<1>5. PICK members, id, number : /\ members = RenderSubmission(admission)
                                 /\ id = IdOf(caller.request) /\ number = exchanges
  BY Zenon
<1>6. number \notin uncommitted \cup committed
  BY Zenon, <1>1, <1>5 DEF IInv, NumbersFit
<1>7. Says(Object(members), id, number)
  <2>1. CASE \E decision \in {"Busy", "Full"} : admission = [decision |-> decision]
    <3>1. \E x : members = Header("NOT_ADMITTED") \o << <<"reason", x>> >>
      <4>1. CASE admission = [decision |-> "Busy"]
        <5>1. members = Header("NOT_ADMITTED") \o << <<"reason", Str("BUSY")>> >>
          BY <1>5, <4>1 DEF RenderSubmission
        <5> QED
          BY Zenon, <5>1
      <4>2. CASE admission = [decision |-> "Full"]
        <5>1. members = Header("NOT_ADMITTED") \o << <<"reason", Str("CAPACITY")>> >>
          BY <1>5, <4>2 DEF RenderSubmission
        <5> QED
          BY Zenon, <5>1
      <4> QED
        BY Zenon, <2>1, <4>1, <4>2
    <3>2. Headed(members, "NOT_ADMITTED")
      BY Zenon, <3>1, HeadAndOne
    <3>3. /\ id # Null => Truth("NOT_ADMITTED", id.text)
          /\ "NOT_ADMITTED" \notin {"ADMITTED", "READY"}
      BY DEF Truth
    <3> QED
      BY Zenon, <1>6, <3>2, <3>3, HeadedSays
  <2>2. CASE admission = [decision |-> "Error", error |-> "InvalidRequest"]
    BY Zenon, <1>5, <2>2, SubmissionErrorSays
  <2> QED
    BY Zenon, <1>4, <2>1, <2>2
<1>8. Says(Object(members), id, number)'
  BY Zenon, <1>1, <1>6, <1>7, SaysSame
<1>9. id = IdOf(caller.request)' /\ number = exchanges'
  BY Zenon, <1>1, <1>5 DEF IdOf, Null
<1>10. Says(Object(members), IdOf(caller.request), exchanges)'
  BY Zenon, <1>8, <1>9
<1>11. Delivered(members)
  BY Zenon, <1>4, <1>5, SendShape DEF Answer
<1> QED
  BY Zenon, <1>1, <1>2, <1>10, <1>11, ServedInv

\* An undecided submission is not reported as a refusal.
LEMMA ServeUndecidedInv == IInv /\ ServeUndecided => IInv'
<1> SUFFICES ASSUME IInv, ServeUndecided PROVE IInv'
  OBVIOUS
<1>1. /\ socket.stage = "sent" /\ UNCHANGED <<export, fixed, caller, told, exchanges>>
      /\ row' = row /\ uncommitted' = uncommitted \cup {exchanges} /\ committed' = committed
      /\ live' = live /\ earlier' = earlier
  BY Zenon DEF ServeUndecided, fixed
<1>2. RowMovesOn /\ RowFits(row')
      /\ uncommitted' \cup committed' \subseteq uncommitted \cup committed \cup {exchanges}
  BY Zenon, <1>1 DEF RowMovesOn, IInv
<1>3. \E admission :
         /\ Answer(admission)
         /\ \/ admission = [decision |-> "Indeterminate"]
            \/ admission = [decision |-> "Error", error |-> "StorageUnavailable"]
  BY Zenon DEF ServeUndecided
<1>4. PICK admission :
         /\ Answer(admission)
         /\ \/ admission = [decision |-> "Indeterminate"]
            \/ admission = [decision |-> "Error", error |-> "StorageUnavailable"]
  BY Zenon, <1>3
<1>5. PICK members, id, number : /\ members = RenderSubmission(admission)
                                 /\ id = IdOf(caller.request) /\ number = exchanges
  BY Zenon
<1>6. Says(Object(members), id, number) /\ Status(Object(members)) # "NOT_ADMITTED"
  <2>1. CASE admission = [decision |-> "Indeterminate"]
    <3>1. members = Header("INDETERMINATE")
      BY <1>5, <2>1 DEF RenderSubmission
    <3>2. Headed(members, "INDETERMINATE")
      BY Zenon, <3>1, HeadAlone
    <3>3. Status(Object(members)) = "INDETERMINATE" /\ "entries" \notin DOMAIN Object(members)
      BY Zenon, <3>2, HeadedStatus
    <3> QED
      BY <3>3, SilentSays DEF Telling
  <2>2. CASE admission = [decision |-> "Error", error |-> "StorageUnavailable"]
    BY Zenon, <1>5, <2>2, SubmissionErrorSays
  <2> QED
    BY Zenon, <1>4, <2>1, <2>2
<1>7. Says(Object(members), id, number)'
  BY Zenon, <1>1, <1>6, SaysSame
<1>8. id = IdOf(caller.request)' /\ number = exchanges'
  BY Zenon, <1>1, <1>5 DEF IdOf, Null
<1>9. Says(Object(members), IdOf(caller.request), exchanges)'
  BY Zenon, <1>7, <1>8
<1>10. Delivered(members)
  BY Zenon, <1>4, <1>5, SendShape DEF Answer
<1> QED
  BY Zenon, <1>1, <1>2, <1>9, <1>10, ServedInv

LEMMA CloseInv == IInv /\ Close => IInv'
<1> SUFFICES ASSUME IInv, Close PROVE IInv'
  OBVIOUS
<1>1. /\ socket.stage = "sent" /\ UNCHANGED <<export, fixed, caller, told, exchanges>>
      /\ row' = row /\ committed' = committed
      /\ socket' = [stage |-> "closed", members |-> <<>>]
  BY Zenon DEF Close
<1>2. RowMovesOn /\ RowFits(row')
      /\ uncommitted' \cup committed' \subseteq uncommitted \cup committed \cup {exchanges}
  BY Zenon, <1>1 DEF RowMovesOn, IInv, Close, StillRunning
<1>3. Delivered(<<>>) /\ socket'.stage # "answered"
  BY <1>1 DEF Delivered
<1> QED
  BY Zenon, <1>1, <1>2, <1>3, ServedInv

\* The row moves on while the caller waits, or has been told.
LEMMA RowInv ==
    ASSUME IInv, RowMovesOn, RowFits(row'),
           UNCHANGED <<export, fixed, socket, caller, told, exchanges>>,
           uncommitted' \cup committed' \subseteq uncommitted \cup committed
    PROVE  IInv'
<1>1. /\ live' = live /\ earlier' = earlier /\ original' = original /\ socket' = socket
      /\ caller' = caller /\ told' = told /\ exchanges' = exchanges
  BY Zenon DEF fixed
<1>2. ToldFits'
  BY Zenon, <1>1, ToldNext DEF IInv, ToldFits, Says
<1>3. ExportFits'
  BY Zenon, <1>1, ExportNext
<1>4. NumbersFit'
  BY Zenon, <1>1 DEF IInv, NumbersFit
<1>5. SocketFits'
  <2>1. PICK said, id, number :
           said = socket.members /\ id = IdOf(caller.request) /\ number = exchanges
    BY Zenon
  <2>2. socket.stage = "answered" => Says(Object(said), id, number)
    BY Zenon, <2>1 DEF IInv, SocketFits
  <2>3. socket.stage = "answered" => Says(Object(said), id, number)'
    BY Zenon, <1>1, <2>2, SaysStays DEF Says
  <2>4. said = socket'.members /\ id = IdOf(caller.request)' /\ number = exchanges'
    BY Zenon, <1>1, <2>1 DEF IdOf, Null
  <2>5. (socket.stage = "answered" =>
            Says(Object(socket.members), IdOf(caller.request), exchanges))'
    BY Zenon, <1>1, <2>3, <2>4
  <2>6. RequestLength(Size(Obj(caller.request)))' = RequestLength(Size(Obj(caller.request)))
    BY Zenon, <1>1
  <2> QED
    BY Zenon, <1>1, <2>5, <2>6 DEF IInv, SocketFits
<1>6. CallerFits'
  BY Zenon, <1>1 DEF IInv, CallerFits, Nothing, NoCaller, NoSocket, Asks, AsksForPage,
     AsksForOne
<1> QED
  BY Zenon, <1>2, <1>3, <1>4, <1>5, <1>6 DEF IInv, RowFits, Absent, States, Results,
     Acknowledgements

LEMMA LateCommitInv ==
    ASSUME IInv, NEW n, LateCommit(n)
    PROVE  IInv'
<1>1. /\ UNCHANGED <<export, fixed, socket, caller, told, exchanges>>
      /\ RowMovesOn /\ RowFits(row')
      /\ uncommitted' \cup committed' \subseteq uncommitted \cup committed
  BY Zenon, AdmittedFits DEF LateCommit, RowMovesOn, IInv
<1> QED
  BY Zenon, <1>1, RowInv

LEMMA AdvanceInv == IInv /\ Advance => IInv'
<1> SUFFICES ASSUME IInv, Advance PROVE IInv'
  OBVIOUS
<1>1. RowMovesOn /\ RowFits(row')
  BY Zenon, SuccessorFits DEF Advance, RowMovesOn, IInv
<1> QED
  BY Zenon, <1>1, RowInv DEF Advance

-----------------------------------------------------------------------------
(* The callers.                                                            *)

\* A caller is told an answer about its own request, and is done.
LEMMA TellInv ==
    ASSUME IInv, NEW answer, Tell(answer), caller # NoCaller,
           Says(answer, IdOf(caller.request), exchanges),
           Status(answer) # "NOT_ADMITTED" \/ UNCHANGED uncommitted,
           caller' = NoCaller, socket' = NoSocket,
           UNCHANGED <<row, committed, fixed, exchanges>>,
           uncommitted' \subseteq uncommitted \cup {exchanges},
           original = "foreign" => file' = "foreign",
           caller.kind = "report" /\ Status(answer) = "READY" => file' = "whole" /\ synced'
    PROVE  IInv'
<1>1. /\ live' = live /\ earlier' = earlier /\ original' = original
  BY Zenon DEF fixed
<1>2. /\ told'.by = caller.kind /\ told'.number = exchanges
      /\ told'.id = IdOf(caller.request) /\ told'.answer = answer
  BY DEF Tell, IdOf
<1>3. ToldFits'
  <2>1. RowMovesOn
    BY Zenon DEF RowMovesOn
  <2>2. Says(told'.answer, told'.id, told'.number)
    BY Zenon, <1>2
  <2>3. Status(told'.answer) = "NOT_ADMITTED" => told'.number \notin uncommitted' \cup committed'
    BY Zenon, <1>2 DEF Says
  <2> QED
    BY Zenon, <1>1, <2>1, <2>2, <2>3, ToldNext
<1>4. NoSocket.stage = "none" /\ NoCaller.kind = "none"
      /\ DOMAIN NoCaller = {"kind", "name", "request"}
  BY DEF NoSocket, NoCaller
<1>5. CallerFits'
  <2>1. "none" \notin ExportKinds
    BY DEF ExportKinds
  <2> QED
    BY Zenon, <1>4, <2>1 DEF CallerFits, NoCaller, NoSocket
<1>6. SocketFits'
  BY <1>4 DEF SocketFits
<1>7. NumbersFit'
  <2>1. /\ exchanges \in Nat /\ \A n \in uncommitted \cup committed : n \in Nat /\ n <= exchanges
        /\ exchanges' = exchanges /\ committed' = committed
    BY Zenon DEF IInv, NumbersFit
  <2>2. \A n \in uncommitted' \cup committed' : n \in Nat /\ n <= exchanges'
    BY <2>1
  <2> QED
    BY <1>4, <2>1, <2>2 DEF NumbersFit
<1>8. ExportFits'
  <2>1. "none" \notin ExportKinds \cup {"write", "sync", "report"}
    BY DEF ExportKinds
  <2>2. (told.by = "report" /\ Status(told.answer) = "READY" =>
            file \in {"whole", "absent"} /\ synced)'
    BY Zenon, <1>2 DEF Status
  <2> QED
    BY Zenon, <1>1, <1>4, <2>1, <2>2 DEF ExportFits
<1> QED
  BY Zenon, <1>3, <1>5, <1>6, <1>7, <1>8
     DEF IInv, RowFits, Absent, States, Results, Acknowledgements

\* A caller is gone; what was told before stays told.
LEMMA LeaveInv ==
    ASSUME IInv, caller' = NoCaller, socket' = NoSocket, told' = told,
           UNCHANGED <<row, committed, fixed, exchanges>>,
           uncommitted' = uncommitted \/ told = Nothing,
           uncommitted' \subseteq uncommitted \cup {exchanges},
           original = "foreign" => file' = "foreign",
           told.by = "report" /\ Status(told.answer) = "READY" =>
              file' \in {"whole", "absent"} /\ synced'
    PROVE  IInv'
<1>1. /\ live' = live /\ earlier' = earlier /\ original' = original
  BY Zenon DEF fixed
<1>2. ToldFits'
  <2>1. RowMovesOn
    BY Zenon DEF RowMovesOn
  <2>2. Says(told'.answer, told'.id, told'.number)
    BY Zenon DEF IInv, ToldFits
  <2>3. Status(told'.answer) = "NOT_ADMITTED" => uncommitted' = uncommitted
    BY Zenon, NothingTold
  <2>4. Status(told'.answer) = "NOT_ADMITTED" => told'.number \notin uncommitted' \cup committed'
    BY Zenon, <2>2, <2>3 DEF Says
  <2> QED
    BY Zenon, <1>1, <2>1, <2>2, <2>4, ToldNext
<1>3. NoSocket.stage = "none" /\ NoCaller.kind = "none"
      /\ DOMAIN NoCaller = {"kind", "name", "request"}
  BY DEF NoSocket, NoCaller
<1>4. CallerFits'
  <2>1. "none" \notin ExportKinds
    BY DEF ExportKinds
  <2> QED
    BY Zenon, <1>3, <2>1 DEF CallerFits, NoCaller, NoSocket
<1>5. SocketFits'
  BY <1>3 DEF SocketFits
<1>6. NumbersFit'
  <2>1. /\ exchanges \in Nat /\ \A n \in uncommitted \cup committed : n \in Nat /\ n <= exchanges
        /\ exchanges' = exchanges /\ committed' = committed
    BY Zenon DEF IInv, NumbersFit
  <2>2. \A n \in uncommitted' \cup committed' : n \in Nat /\ n <= exchanges'
    BY <2>1
  <2> QED
    BY <1>3, <2>1, <2>2 DEF NumbersFit
<1>7. ExportFits'
  <2>1. "none" \notin ExportKinds \cup {"write", "sync", "report"}
    BY DEF ExportKinds
  <2>2. (told.by = "report" /\ Status(told.answer) = "READY" =>
            file \in {"whole", "absent"} /\ synced)'
    BY Zenon DEF Status
  <2> QED
    BY Zenon, <1>1, <1>3, <2>1, <2>2 DEF ExportFits
<1> QED
  BY Zenon, <1>2, <1>4, <1>5, <1>6, <1>7
     DEF IInv, RowFits, Absent, States, Results, Acknowledgements

\* An exchange that the caller has heard the end of: with the answer on the connection,
\* or without one.
Ends(exchange) ==
    \/ exchange.end \in {"Connection", "Exchange", "Response"}
    \/ /\ exchange.end = "Answered" /\ exchange.members = socket.members
       /\ socket.stage = "answered" /\ "status" \in DOMAIN Object(socket.members)
       /\ UNCHANGED uncommitted

\* The bridge passes on the answer, or says what went wrong.
LEMMA CallAnswered ==
    ASSUME NEW name, NEW exchange, Ends(exchange)
    PROVE  \/ \E class : CallAnswer(name, exchange) = Failure(class)
           \/ /\ exchange.end = "Answered"
              /\ CallAnswer(name, exchange) = Object(socket.members)
<1>1. CASE exchange.end \in {"Connection", "Exchange"}
  <2>1. CallAnswer(name, exchange) = Failure("service_exchange_uncertain")
    BY <1>1 DEF CallAnswer
  <2> QED
    BY Zenon, <2>1
<1>2. CASE exchange.end = "Response"
  <2>1. CallAnswer(name, exchange) = Failure("response_invalid")
    BY <1>2 DEF CallAnswer
  <2> QED
    BY Zenon, <2>1
<1>3. CASE exchange.end = "Answered"
  <2> DEFINE fields == Unique(exchange.members)
  <2>1. CallAnswer(name, exchange) =
           IF fields = None THEN Failure("response_invalid")
           ELSE IF ResponseShape(name, fields) THEN fields
           ELSE Failure("response_invalid")
    BY <1>3 DEF CallAnswer
  <2>2. fields = None \/ fields = Object(exchange.members)
    BY Zenon DEF Unique
  <2>3. exchange.members = socket.members
    BY <1>3 DEF Ends
  <2> HIDE DEF fields
  <2> QED
    BY Zenon, <1>3, <2>1, <2>2, <2>3
<1> QED
  BY <1>1, <1>2, <1>3 DEF Ends

LEMMA HearInv ==
    ASSUME IInv, socket.stage # "none", NEW exchange, Hear(exchange), Ends(exchange),
           UNCHANGED <<row, committed, fixed, exchanges>>,
           uncommitted' \subseteq uncommitted \cup {exchanges}
    PROVE  IInv'
<1>1. /\ caller # NoCaller /\ caller.kind \notin ExportKinds /\ told = Nothing
      /\ socket' = NoSocket /\ Asks(caller.request)
  BY Zenon, Connected DEF IInv, CallerFits, Hear
<1>2. file' = file /\ synced' = synced
  BY Zenon DEF Hear, BridgeHears, ClientHears, export
<1>3. /\ original = "foreign" => file' = "foreign"
      /\ caller.kind # "report"
      /\ told.by # "report"
  <2>1. "report" \in ExportKinds /\ Nothing.by # "report"
    BY NothingTold DEF ExportKinds
  <2> QED
    BY Zenon, <1>1, <1>2, <2>1 DEF IInv, ExportFits
<1>4. ASSUME NEW class, Tell(Failure(class)), caller' = NoCaller PROVE IInv'
  <2>1. Says(Failure(class), IdOf(caller.request), exchanges)
    BY Zenon, FailureSays
  <2>2. Status(Failure(class)) # "NOT_ADMITTED"
    BY FailureSays
  <2> QED
    BY Zenon, <1>1, <1>3, <1>4, <2>1, <2>2, TellInv
<1>5. ASSUME exchange.end = "Answered", Tell(Object(socket.members)), caller' = NoCaller
      PROVE  IInv'
  <2>1. Says(Object(socket.members), IdOf(caller.request), exchanges) /\ UNCHANGED uncommitted
    <3>1. exchange.end \notin {"Connection", "Exchange", "Response"}
      BY <1>5
    <3> QED
      BY Zenon, <1>5, <3>1 DEF IInv, SocketFits, Ends
  <2> QED
    BY Zenon, <1>1, <1>3, <1>5, <2>1, TellInv
<1>6. CASE caller.kind = "bridge"
  <2>1. /\ caller' = NoCaller
        /\ Tell(CallAnswer(caller.name, exchange)) \/ told' = told
    BY Zenon, <1>6 DEF Hear, BridgeHears
  <2>2. CASE told' = told
    BY Zenon, <1>1, <1>3, <2>1, <2>2, LeaveInv
  <2>3. CASE Tell(CallAnswer(caller.name, exchange))
    <3>1. \/ \E class : CallAnswer(caller.name, exchange) = Failure(class)
          \/ /\ exchange.end = "Answered"
             /\ CallAnswer(caller.name, exchange) = Object(socket.members)
      BY Zenon, CallAnswered
    <3> QED
      BY Zenon, <1>4, <1>5, <2>1, <2>3, <3>1
  <2> QED
    BY Zenon, <2>1, <2>2, <2>3
<1>7. CASE caller.kind # "bridge" /\ exchange.end # "Answered"
  <2>1. Tell(Failure(Diagnostic(exchange.end))) /\ caller' = NoCaller
    BY Zenon, <1>7 DEF Hear, ClientHears
  <2> QED
    BY Zenon, <1>4, <2>1
<1>8. CASE caller.kind # "bridge" /\ exchange.end = "Answered"
  <2> DEFINE fields == Object(socket.members)
  <2>1. /\ exchange.members = socket.members /\ "status" \in DOMAIN fields
        /\ Says(fields, IdOf(caller.request), exchanges) /\ UNCHANGED uncommitted
    <3>1. exchange.end \notin {"Connection", "Exchange", "Response"}
      BY <1>8
    <3> QED
      BY Zenon, <1>8, <3>1 DEF IInv, SocketFits, Ends
  <2> HIDE DEF fields
  <2>2. \/ Tell(fields) /\ caller' = NoCaller
        \/ \E class : Tell(Failure(class)) /\ caller' = NoCaller
        \/ fields["status"] = Str("READY") /\ caller' = [caller EXCEPT !.kind = "open"]
           /\ told' = told
    <3>1. CASE caller.name # "receipt"
      BY Zenon, <1>8, <2>1, <3>1 DEF Hear, ClientHears, fields
    <3>2. CASE caller.name = "receipt" /\ fields["status"] # Str("READY")
      BY Zenon, <1>8, <2>1, <3>2 DEF Hear, ClientHears, fields
    <3>3. CASE caller.name = "receipt" /\ fields["status"] = Str("READY")
      BY Zenon, <1>8, <2>1, <3>3 DEF Hear, ClientHears, fields
    <3> QED
      BY Zenon, <3>1, <3>2, <3>3
  <2>3. CASE Tell(fields) /\ caller' = NoCaller
    BY Zenon, <1>5, <1>8, <2>3 DEF fields
  <2>4. CASE \E class : Tell(Failure(class)) /\ caller' = NoCaller
    BY Zenon, <1>4, <2>4
  <2>5. CASE /\ fields["status"] = Str("READY") /\ caller' = [caller EXCEPT !.kind = "open"]
             /\ told' = told
    <3>1. Str("READY").string = "READY"
      BY DEF Str
    <3>2. Status(fields) = "READY"
      BY Zenon, <2>1, <2>5, <3>1 DEF Status
    <3>3. IdOf(caller.request) # Null => RowOf(IdOf(caller.request).text).state = "Finalized"
      BY Zenon, <2>1, <3>2 DEF Says
    <3>4. DOMAIN caller = {"kind", "name", "request"}
      BY Zenon DEF IInv, CallerFits
    <3>5. /\ DOMAIN caller' = {"kind", "name", "request"}
          /\ caller'.kind = "open" /\ caller'.request = caller.request
      BY <2>5, <3>4
    <3>6. NoCaller.kind = "none" /\ NoSocket.stage = "none" /\ "open" \in ExportKinds
      BY DEF NoCaller, NoSocket, ExportKinds
    <3>7. live' = live /\ earlier' = earlier /\ original' = original
      BY Zenon DEF fixed
    <3>8. CallerFits'
      <4>1. caller' # NoCaller
        BY <3>5, <3>6
      <4> QED
        BY Zenon, <1>1, <2>5, <3>5, <3>6, <4>1
           DEF CallerFits, NoCaller, NoSocket, Nothing, Asks, AsksForPage, AsksForOne
    <3>9. NumbersFit'
      BY <1>1, <2>1, <3>6 DEF IInv, NumbersFit
    <3>10. SocketFits'
      BY <1>1, <3>6 DEF SocketFits
    <3>11. ExportFits'
      <4>1. (IdOf(caller.request) # Null =>
                RowOf(IdOf(caller.request).text).state = "Finalized")'
        BY Zenon, <3>3, <3>5, <3>7 DEF IdOf, Null, RowOf, EarlierRow, KubernetesRow
      <4>2. caller'.kind \notin {"write", "sync", "report"}
        BY <3>5
      <4> QED
        BY Zenon, <1>2, <1>3, <2>5, <3>7, <4>1, <4>2 DEF ExportFits
    <3>12. ToldFits'
      <4>1. RowMovesOn
        BY Zenon DEF RowMovesOn
      <4>2. Says(told'.answer, told'.id, told'.number)
        BY Zenon, <2>5 DEF IInv, ToldFits
      <4>3. Status(told'.answer) # "NOT_ADMITTED"
        BY <1>1, <2>5, NothingTold
      <4> QED
        BY Zenon, <3>7, <4>1, <4>2, <4>3, ToldNext
    <3> QED
      BY Zenon, <3>8, <3>9, <3>10, <3>11, <3>12
         DEF IInv, RowFits, Absent, States, Results, Acknowledgements
  <2> QED
    BY Zenon, <2>2, <2>3, <2>4, <2>5
<1> QED
  BY Zenon, <1>6, <1>7, <1>8

LEMMA ReceiveInv == IInv /\ Receive => IInv'
<1> SUFFICES ASSUME IInv, Receive PROVE IInv'
  OBVIOUS
<1> DEFINE exchange == IF ValidateResponseEnvelope(Object(socket.members))
                       THEN End("Answered", socket.members) ELSE End("Response", <<>>)
<1>1. /\ socket.stage = "answered" /\ Hear(exchange)
      /\ UNCHANGED <<row, committed, fixed, exchanges>> /\ uncommitted' = uncommitted
  BY Zenon DEF Receive, service
<1>2. Ends(exchange)
  <2>1. CASE ValidateResponseEnvelope(Object(socket.members))
    <3>1. exchange = End("Answered", socket.members)
      BY Zenon, <2>1
    <3>2. exchange.end = "Answered" /\ exchange.members = socket.members
      BY <3>1 DEF End
    <3> QED
      BY Zenon, <1>1, <2>1, <3>2 DEF Ends, ValidateResponseEnvelope
  <2>2. CASE ~ValidateResponseEnvelope(Object(socket.members))
    <3>1. exchange = End("Response", <<>>)
      BY Zenon, <2>2
    <3> QED
      BY <3>1 DEF Ends, End
  <2> QED
    BY Zenon, <2>1, <2>2
<1> HIDE DEF exchange
<1>3. socket.stage # "none"
  BY <1>1
<1> QED
  BY Zenon, <1>1, <1>2, <1>3, HearInv

LEMMA GiveUpInv == IInv /\ GiveUp => IInv'
<1> SUFFICES ASSUME IInv, GiveUp PROVE IInv'
  OBVIOUS
<1>1. PICK exchange :
         exchange = End(IF socket.stage = "unconnected" THEN "Connection" ELSE "Exchange", <<>>)
  BY Zenon
<1>2. /\ socket.stage # "none" /\ Hear(exchange)
      /\ UNCHANGED <<row, committed, fixed, exchanges>>
      /\ uncommitted' \subseteq uncommitted \cup {exchanges}
  BY Zenon, <1>1 DEF GiveUp, StillRunning
<1>3. Ends(exchange)
  BY <1>1 DEF Ends, End
<1> QED
  BY Zenon, <1>2, <1>3, HearInv

LEMMA KillInv == IInv /\ Kill => IInv'
<1> SUFFICES ASSUME IInv, Kill PROVE IInv'
  OBVIOUS
<1>1. /\ caller' = NoCaller /\ socket' = NoSocket /\ told' = told
      /\ UNCHANGED <<row, committed, fixed, exchanges>>
      /\ uncommitted' \subseteq uncommitted \cup {exchanges}
      /\ uncommitted' = uncommitted \/ socket.stage = "sent"
      /\ file' = file /\ synced' = synced
  BY Zenon DEF Kill, StillRunning, export
<1>2. uncommitted' = uncommitted \/ told = Nothing
  BY <1>1, Connected DEF IInv, CallerFits
<1> QED
  BY Zenon, <1>1, <1>2, LeaveInv DEF IInv, ExportFits

\* A power loss takes away no more than was not synced.
LEMMA PowerLossInv == IInv /\ PowerLoss => IInv'
<1> SUFFICES ASSUME IInv, PowerLoss PROVE IInv'
  OBVIOUS
<1>1. /\ caller' = NoCaller /\ socket' = NoSocket /\ told' = told /\ synced' = TRUE
      /\ UNCHANGED <<row, committed, fixed, exchanges>>
      /\ uncommitted' \subseteq uncommitted \cup {exchanges}
      /\ uncommitted' = uncommitted \/ socket.stage = "sent"
  BY Zenon DEF PowerLoss, StillRunning
<1>2. uncommitted' = uncommitted \/ told = Nothing
  BY <1>1, Connected DEF IInv, CallerFits
<1>3. /\ file = "foreign" => file' = "foreign"
      /\ file \in {"whole", "absent"} /\ synced => file' \in {"whole", "absent"}
  BY DEF PowerLoss
<1> QED
  BY Zenon, <1>1, <1>2, <1>3, LeaveInv DEF IInv, ExportFits

\* A caller that saves a receipt is told of its failure.
LEMMA ExportFailsInv ==
    ASSUME IInv, caller.kind \in ExportKinds, NEW class, Tell(Failure(class)),
           caller' = NoCaller, UNCHANGED <<service, fixed, socket, exchanges>>,
           original = "foreign" => file' = "foreign"
    PROVE  IInv'
<1>1. caller # NoCaller /\ socket' = NoSocket
  BY Zenon, Connected DEF IInv, CallerFits
<1>2. Says(Failure(class), IdOf(caller.request), exchanges)
  BY Zenon, FailureSays
<1>3. Status(Failure(class)) \notin {"NOT_ADMITTED", "READY"}
  BY FailureSays
<1>4. UNCHANGED <<row, committed, fixed, exchanges>> /\ uncommitted' = uncommitted
  BY Zenon DEF service
<1> QED
  BY Zenon, <1>1, <1>2, <1>3, <1>4, TellInv

\* A step of the export: the caller goes on, and knows no less of the row.
LEMMA ExportStepInv ==
    ASSUME IInv, caller.kind \in ExportKinds, NEW kind \in ExportKinds,
           caller' = [caller EXCEPT !.kind = kind],
           UNCHANGED <<service, fixed, socket, exchanges, told>>,
           original = "foreign" => file' = "foreign",
           kind = "write" => file' = "empty",
           kind = "sync" => file' = "whole",
           kind = "report" => file' = "whole" /\ synced'
    PROVE  IInv'
<1>1. /\ row' = row /\ uncommitted' = uncommitted /\ committed' = committed
      /\ live' = live /\ earlier' = earlier /\ original' = original
      /\ socket' = socket /\ exchanges' = exchanges /\ told' = told
  BY Zenon DEF service, fixed
<1>2. caller # NoCaller /\ socket = NoSocket /\ told = Nothing /\ Asks(caller.request)
      /\ DOMAIN caller = {"kind", "name", "request"}
  BY Zenon, Connected DEF IInv, CallerFits
<1>3. /\ DOMAIN caller' = {"kind", "name", "request"}
      /\ caller'.kind = kind /\ caller'.request = caller.request
  BY <1>2
<1>4. NoCaller.kind = "none" /\ NoSocket.stage = "none" /\ "none" \notin ExportKinds
  BY DEF NoCaller, NoSocket, ExportKinds
<1>5. CallerFits'
  <2>1. caller' # NoCaller
    BY Zenon, <1>3, <1>4
  <2> QED
    BY Zenon, <1>1, <1>2, <1>3, <2>1
       DEF CallerFits, NoCaller, NoSocket, Nothing, Asks, AsksForPage, AsksForOne
<1>6. NumbersFit'
  BY Zenon, <1>1 DEF IInv, NumbersFit
<1>7. SocketFits'
  BY <1>1, <1>2, <1>4 DEF SocketFits
<1>8. ExportFits'
  <2>1. (IdOf(caller.request) # Null => RowOf(IdOf(caller.request).text).state = "Finalized")'
    BY Zenon, <1>1, <1>3 DEF IInv, ExportFits, IdOf, Null, RowOf, EarlierRow, KubernetesRow
  <2>2. told'.by # "report"
    BY <1>1, <1>2, NothingTold
  <2> QED
    BY Zenon, <1>1, <1>3, <2>1, <2>2 DEF ExportFits
<1>9. ToldFits'
  <2>1. RowMovesOn
    BY Zenon, <1>1 DEF RowMovesOn
  <2>2. Says(told'.answer, told'.id, told'.number)
    BY Zenon, <1>1 DEF IInv, ToldFits
  <2>3. Status(told'.answer) # "NOT_ADMITTED"
    BY <1>1, <1>2, NothingTold
  <2> QED
    BY Zenon, <1>1, <2>1, <2>2, <2>3, ToldNext
<1> QED
  BY Zenon, <1>1, <1>5, <1>6, <1>7, <1>8, <1>9
     DEF IInv, RowFits, Absent, States, Results, Acknowledgements

\* The file of an export is never the one that was there before.
LEMMA OpenInv == IInv /\ Open => IInv'
<1> SUFFICES ASSUME IInv, Open PROVE IInv'
  OBVIOUS
<1>1. /\ caller.kind = "open" /\ UNCHANGED <<service, fixed, socket, exchanges>>
      /\ "open" \in ExportKinds /\ "write" \in ExportKinds
  BY Zenon DEF Open, ExportKinds
<1>2. original = "foreign" => file = "foreign"
  BY Zenon DEF IInv, ExportFits
<1>3. \/ /\ file = "absent" /\ file' = "empty"
         /\ \/ caller' = [caller EXCEPT !.kind = "write"] /\ told' = told
            \/ ExportFails
      \/ ExportFails /\ file' = file
  BY Zenon DEF Open, export
<1>4. original = "foreign" => file' = "foreign"
  BY <1>2, <1>3
<1>5. CASE ExportFails
  BY Zenon, <1>1, <1>4, <1>5, ExportFailsInv DEF ExportFails
<1>6. CASE file' = "empty" /\ caller' = [caller EXCEPT !.kind = "write"] /\ told' = told
  <2>1. "write" # "sync" /\ "write" # "report"
    OBVIOUS
  <2> QED
    BY Zenon, <1>1, <1>4, <1>6, <2>1, ExportStepInv
<1> QED
  BY Zenon, <1>3, <1>5, <1>6

LEMMA WriteInv == IInv /\ Write => IInv'
<1> SUFFICES ASSUME IInv, Write PROVE IInv'
  OBVIOUS
<1>1. /\ caller.kind = "write" /\ UNCHANGED <<service, fixed, socket, exchanges>>
      /\ "write" \in ExportKinds /\ "sync" \in ExportKinds
  BY Zenon DEF Write, ExportKinds
<1>2. original # "foreign"
  BY <1>1 DEF IInv, ExportFits
<1>3. \/ file' = "whole" /\ caller' = [caller EXCEPT !.kind = "sync"] /\ told' = told
      \/ ExportFails
  BY Zenon DEF Write
<1>4. CASE ExportFails
  BY Zenon, <1>1, <1>2, <1>4, ExportFailsInv DEF ExportFails
<1>5. CASE file' = "whole" /\ caller' = [caller EXCEPT !.kind = "sync"] /\ told' = told
  <2>1. "sync" # "write" /\ "sync" # "report"
    OBVIOUS
  <2> QED
    BY Zenon, <1>1, <1>2, <1>5, <2>1, ExportStepInv
<1> QED
  BY Zenon, <1>3, <1>4, <1>5

LEMMA SyncInv == IInv /\ Sync => IInv'
<1> SUFFICES ASSUME IInv, Sync PROVE IInv'
  OBVIOUS
<1>1. /\ caller.kind = "sync" /\ UNCHANGED <<service, fixed, socket, exchanges>>
      /\ "sync" \in ExportKinds /\ "report" \in ExportKinds /\ file' = file
  BY Zenon DEF Sync, ExportKinds
<1>2. file = "whole" /\ original # "foreign"
  BY <1>1 DEF IInv, ExportFits
<1>3. \/ synced' = TRUE /\ caller' = [caller EXCEPT !.kind = "report"] /\ told' = told
      \/ ExportFails
  BY Zenon DEF Sync
<1>4. CASE ExportFails
  BY Zenon, <1>1, <1>2, <1>4, ExportFailsInv DEF ExportFails
<1>5. CASE synced' = TRUE /\ caller' = [caller EXCEPT !.kind = "report"] /\ told' = told
  <2>1. "report" # "write" /\ "report" # "sync"
    OBVIOUS
  <2> QED
    BY Zenon, <1>1, <1>2, <1>5, <2>1, ExportStepInv
<1> QED
  BY Zenon, <1>3, <1>4, <1>5

\* A receipt is reported as saved when it is whole and synced.
LEMMA ReportInv == IInv /\ Report => IInv'
<1> SUFFICES ASSUME IInv, Report PROVE IInv'
  OBVIOUS
<1>1. /\ caller.kind = "report" /\ caller' = NoCaller
      /\ UNCHANGED <<service, fixed, socket, exchanges>>
      /\ "report" \in ExportKinds /\ file' = file /\ synced' = synced
  BY Zenon DEF Report, ExportKinds, export
<1>2. /\ file = "whole" /\ synced
      /\ original = "foreign" => file' = "foreign"
  BY Zenon, <1>1 DEF IInv, ExportFits
<1>3. Tell([status |-> Str("READY")]) \/ Tell(Failure("output_unavailable"))
  BY Zenon DEF Report
<1>4. CASE Tell(Failure("output_unavailable"))
  BY Zenon, <1>1, <1>2, <1>4, ExportFailsInv
<1>5. CASE Tell([status |-> Str("READY")])
  <2>1. PICK answer : answer = [status |-> Str("READY")]
    BY Zenon
  <2>2. Status(answer) = "READY" /\ "entries" \notin DOMAIN answer
    BY <2>1 DEF Status, Str
  <2>3. caller # NoCaller /\ socket' = NoSocket
    BY Zenon, <1>1, Connected DEF IInv, CallerFits
  <2>4. IdOf(caller.request) # Null => RowOf(IdOf(caller.request).text).state = "Finalized"
    BY Zenon, <1>1 DEF IInv, ExportFits
  <2>5. Says(answer, IdOf(caller.request), exchanges)
    BY <2>2, <2>4 DEF Says, Truth
  <2>6. UNCHANGED <<row, committed, fixed, exchanges>> /\ uncommitted' = uncommitted
    BY Zenon, <1>1 DEF service
  <2> QED
    BY Zenon, <1>1, <1>2, <1>5, <2>1, <2>3, <2>5, <2>6, TellInv
<1> QED
  BY Zenon, <1>3, <1>4, <1>5

\* A new exchange has a new number.
LEMMA StartInv ==
    ASSUME IInv, NEW kind \in {"bridge", "client"}, NEW name, NEW request, Asks(request),
           StartExchange(kind, name, request), UNCHANGED <<service, export, fixed>>
    PROVE  IInv'
<1>1. /\ row' = row /\ uncommitted' = uncommitted /\ committed' = committed
      /\ live' = live /\ earlier' = earlier /\ original' = original
      /\ file' = file /\ synced' = synced
      /\ exchanges' = exchanges + 1 /\ told' = Nothing
      /\ caller' = [kind |-> kind, name |-> name, request |-> request]
  BY Zenon DEF service, fixed, export, StartExchange
<1>2. /\ DOMAIN caller' = {"kind", "name", "request"}
      /\ caller'.kind = kind /\ caller'.request = request
      /\ kind \notin ExportKinds
  BY <1>1 DEF ExportKinds
<1>3. \/ socket'.stage = "unconnected"
      \/ socket'.stage = "sent" /\ RequestLength(Size(Obj(request)))
  <2>1. \/ /\ RequestLength(Size(Obj(request)))
           /\ socket' = [stage |-> "sent", members |-> <<>>]
        \/ socket' = [stage |-> "unconnected", members |-> <<>>]
    BY Zenon DEF StartExchange
  <2> QED
    BY <2>1
<1>4. CallerFits'
  <2>1. caller' # NoCaller
    BY <1>2 DEF NoCaller
  <2> QED
    BY Zenon, <1>1, <1>2, <2>1
       DEF CallerFits, NoCaller, Nothing, Asks, AsksForPage, AsksForOne
<1>5. NumbersFit'
  BY <1>1 DEF IInv, NumbersFit
<1>6. SocketFits'
  BY <1>2, <1>3 DEF SocketFits
<1>7. ExportFits'
  <2>1. told'.by # "report" /\ caller'.kind \notin {"write", "sync", "report"}
    BY <1>1, <1>2, NothingTold
  <2> QED
    BY Zenon, <1>1, <1>2, <2>1 DEF IInv, ExportFits
<1>8. ToldFits'
  <2>1. RowMovesOn
    BY Zenon, <1>1 DEF RowMovesOn
  <2>2. Says(told'.answer, told'.id, told'.number)
    BY Zenon, <1>1, NothingTold
  <2>3. Status(told'.answer) # "NOT_ADMITTED"
    BY <1>1, NothingTold
  <2> QED
    BY Zenon, <1>1, <2>1, <2>2, <2>3, ToldNext
<1> QED
  BY Zenon, <1>1, <1>4, <1>5, <1>6, <1>7, <1>8
     DEF IInv, RowFits, Absent, States, Results, Acknowledgements

\* A caller is told something without an exchange.
LEMMA RemarkInv ==
    ASSUME IInv, caller = NoCaller, NEW by \in {"bridge", "client"}, NEW answer,
           \/ told' = [Nothing EXCEPT !.by = by, !.answer = answer]
           \/ told' = told,
           \A id, number : Says(answer, id, number), Status(answer) # "NOT_ADMITTED",
           UNCHANGED <<socket, caller, exchanges, service, export, fixed>>
    PROVE  IInv'
<1>1. /\ row' = row /\ uncommitted' = uncommitted /\ committed' = committed
      /\ live' = live /\ earlier' = earlier /\ original' = original
      /\ file' = file /\ synced' = synced /\ socket' = socket /\ caller' = caller
      /\ exchanges' = exchanges
  BY Zenon DEF service, fixed, export
<1>2. RowMovesOn
  BY Zenon, <1>1 DEF RowMovesOn
<1>3. CASE told' = told
  <2>1. uncommitted' \cup committed' \subseteq uncommitted \cup committed /\ RowFits(row')
    BY Zenon, <1>1 DEF IInv
  <2> QED
    BY Zenon, <1>2, <1>3, <2>1, RowInv
<1>4. CASE told' = [Nothing EXCEPT !.by = by, !.answer = answer]
  <2>1. told'.by = by /\ told'.answer = answer
    BY <1>4 DEF Nothing
  <2>2. ToldFits'
    BY Zenon, <1>1, <1>2, <2>1, ToldNext
  <2>3. NoSocket.stage = "none" /\ NoCaller.kind = "none" /\ "none" \notin ExportKinds
    BY DEF NoSocket, NoCaller, ExportKinds
  <2>4. caller' = NoCaller /\ socket' = NoSocket /\ DOMAIN caller' = {"kind", "name", "request"}
    BY Zenon, <1>1 DEF IInv, CallerFits
  <2>5. CallerFits'
    BY Zenon, <2>3, <2>4 DEF CallerFits, NoCaller, NoSocket
  <2>6. NumbersFit'
    BY Zenon, <1>1 DEF IInv, NumbersFit
  <2>7. SocketFits'
    BY <2>3, <2>4 DEF SocketFits
  <2>8. ExportFits'
    <3>1. told'.by # "report" /\ caller'.kind \notin {"write", "sync", "report"}
          /\ caller'.kind \notin ExportKinds
      BY <2>1, <2>3, <2>4
    <3> QED
      BY Zenon, <1>1, <3>1 DEF IInv, ExportFits
  <2> QED
    BY Zenon, <1>1, <2>2, <2>5, <2>6, <2>7, <2>8
       DEF IInv, RowFits, Absent, States, Results, Acknowledgements
<1> QED
  BY Zenon, <1>3, <1>4

LEMMA RunClientInv ==
    ASSUME IInv, NEW arguments, RunClient(arguments)
    PROVE  IInv'
<1>1. caller = NoCaller /\ UNCHANGED <<service, export, fixed>>
  BY Zenon DEF RunClient
<1>2. CASE ClientRequest(arguments) = None
  <2>1. /\ told' = [Nothing EXCEPT !.by = "client", !.answer = Failure("invalid_usage")]
        /\ UNCHANGED <<socket, caller, exchanges>>
    BY Zenon, <1>2 DEF RunClient
  <2>2. \A id, number : Says(Failure("invalid_usage"), id, number)
    BY Zenon, FailureSays
  <2>3. Status(Failure("invalid_usage")) # "NOT_ADMITTED"
    BY FailureSays
  <2>4. UNCHANGED <<socket, caller, exchanges, service, export, fixed>>
    BY Zenon, <1>1, <2>1
  <2> QED
    BY Zenon, <1>1, <2>1, <2>2, <2>3, <2>4, RemarkInv
<1>3. CASE ClientRequest(arguments) # None
  <2>1. StartExchange("client", arguments[1], ClientRequest(arguments))
    BY Zenon, <1>3 DEF RunClient
  <2>2. Asks(ClientRequest(arguments))
    BY Zenon, <1>3, ClientAsks
  <2> QED
    BY Zenon, <1>1, <2>1, <2>2, StartInv
<1> QED
  BY Zenon, <1>2, <1>3

\* The bridge's own replies say nothing of an operation.
LEMMA DispatchReplies ==
    ASSUME NEW message, NEW from
    PROVE  \E kind, code : Dispatch(message, from).reply = [reply |-> kind, code |-> code]
<1> DEFINE Plain(r) == \E kind, code : r = [reply |-> kind, code |-> code]
<1>1. /\ \A code : Plain(Reply(code))
      /\ Plain(Silence) /\ Plain(Result) /\ Plain(ToolCall)
  BY Zenon DEF Reply, Silence, Result, ToolCall
<1> HIDE DEF Plain
<1>2. /\ Dispatch(message, from).reply \in {Silence, Result, ToolCall}
      \/ \E code : Dispatch(message, from).reply = Reply(code)
  BY DEF Dispatch
<1>3. Plain(Dispatch(message, from).reply)
  BY Zenon, <1>1, <1>2
<1> QED
  BY Zenon, <1>3 DEF Plain

LEMMA ReplyIsSilent ==
    ASSUME NEW answer, \E kind, code : answer = [reply |-> kind, code |-> code]
    PROVE  /\ \A id, number : Says(answer, id, number)
           /\ Status(answer) # "NOT_ADMITTED"
<1>1. PICK kind, code : answer = [reply |-> kind, code |-> code]
  OBVIOUS
<1>2. Status(answer) = "none"
  BY <1>1 DEF Status
<1> QED
  BY <1>1, <1>2, ReplySays

LEMMA ReadLineInv ==
    ASSUME IInv, NEW line \in Lines, ReadLine(line)
    PROVE  IInv'
<1>1. caller = NoCaller /\ UNCHANGED <<service, export, fixed>>
  BY DEF ReadLine
<1>2. ASSUME NEW answer, \E kind, code : answer = [reply |-> kind, code |-> code],
             \/ told' = [Nothing EXCEPT !.by = "bridge", !.answer = answer]
             \/ told' = told,
             UNCHANGED <<socket, caller, exchanges>>
      PROVE  IInv'
  <2>1. \A id, number : Says(answer, id, number)
    BY Zenon, <1>2, ReplyIsSilent
  <2>2. Status(answer) # "NOT_ADMITTED"
    BY Zenon, <1>2, ReplyIsSilent
  <2>3. UNCHANGED <<socket, caller, exchanges, service, export, fixed>>
    BY Zenon, <1>1, <1>2
  <2> QED
    BY Zenon, <1>1, <1>2, <2>1, <2>2, <2>3, RemarkInv
<1>3. \A code : \E kind, c : Reply(code) = [reply |-> kind, code |-> c]
  BY Zenon DEF Reply
<1>4. ASSUME NEW code,
             \/ told' = [Nothing EXCEPT !.by = "bridge", !.answer = Reply(code)]
             \/ told' = told,
             UNCHANGED <<socket, caller, exchanges>>
      PROVE  IInv'
  BY Zenon, <1>2, <1>3, <1>4
<1>5. CASE line.line \in {"unreadable", "end", "unbounded"}
  <2>1. told' = told /\ UNCHANGED <<socket, caller, exchanges>>
    <3>1. CASE line.line = "unreadable"
      BY <3>1 DEF ReadLine
    <3>2. CASE line.line = "end"
      BY <3>2 DEF ReadLine
    <3>3. CASE line.line = "unbounded"
      BY <3>3 DEF ReadLine
    <3> QED
      BY <1>5, <3>1, <3>2, <3>3
  <2> QED
    BY Zenon, <1>2, <1>3, <2>1
<1>6. CASE line.line = "malformed"
  <2>1. PICK code : code = -32700
    OBVIOUS
  <2>2. /\ \/ told' = [Nothing EXCEPT !.by = "bridge", !.answer = Reply(code)]
           \/ told' = told
        /\ UNCHANGED <<socket, caller, exchanges>>
    BY <1>6, <2>1 DEF ReadLine
  <2> QED
    BY Zenon, <1>4, <2>2
<1>7. CASE line.line = "envelope"
  <2>1. PICK code : code = -32600
    OBVIOUS
  <2>2. /\ \/ told' = [Nothing EXCEPT !.by = "bridge", !.answer = Reply(code)]
           \/ told' = told
        /\ UNCHANGED <<socket, caller, exchanges>>
    BY <1>7, <2>1 DEF ReadLine
  <2> QED
    BY Zenon, <1>4, <2>2
<1>8. CASE line.line = "message"
  <2>1. PICK reaction : reaction = Dispatch(line, phase)
    BY Zenon
  <2>2. \/ told' = told /\ UNCHANGED <<socket, caller, exchanges>>
        \/ /\ \/ told' = [Nothing EXCEPT !.by = "bridge", !.answer = reaction.reply]
              \/ told' = told
           /\ UNCHANGED <<socket, caller, exchanges>>
        \/ /\ DecodeCall(line.call) = None
           /\ \/ told' = [Nothing EXCEPT !.by = "bridge", !.answer = Reply(-32602)]
              \/ told' = told
           /\ UNCHANGED <<socket, caller, exchanges>>
        \/ /\ DecodeCall(line.call) # None
           /\ StartExchange("bridge", line.call.name, DecodeCall(line.call))
    BY <1>8, <2>1 DEF ReadLine
  <2>3. CASE told' = told /\ UNCHANGED <<socket, caller, exchanges>>
    BY Zenon, <1>2, <1>3, <2>3
  <2>4. CASE /\ \/ told' = [Nothing EXCEPT !.by = "bridge", !.answer = reaction.reply]
                \/ told' = told
             /\ UNCHANGED <<socket, caller, exchanges>>
    BY ZenonT(40), <1>2, <2>1, <2>4, DispatchReplies
  <2>5. CASE /\ \/ told' = [Nothing EXCEPT !.by = "bridge", !.answer = Reply(-32602)]
                \/ told' = told
             /\ UNCHANGED <<socket, caller, exchanges>>
    <3>1. PICK code : code = -32602
      OBVIOUS
    <3>2. /\ \/ told' = [Nothing EXCEPT !.by = "bridge", !.answer = Reply(code)]
             \/ told' = told
          /\ UNCHANGED <<socket, caller, exchanges>>
      BY <2>5, <3>1
    <3> QED
      BY Zenon, <1>4, <3>2
  <2>6. CASE /\ DecodeCall(line.call) # None
             /\ StartExchange("bridge", line.call.name, DecodeCall(line.call))
    <3>1. Asks(DecodeCall(line.call))
      BY Zenon, <2>6, CallAsks
    <3> QED
      BY Zenon, <1>1, <2>6, <3>1, StartInv
  <2> QED
    BY <2>2, <2>3, <2>4, <2>5, <2>6
<1>9. line.line \in {"unreadable", "end", "unbounded", "malformed", "envelope", "message"}
  BY Zenon, ExchangeAssumption
<1> QED
  BY Zenon, <1>5, <1>6, <1>7, <1>8, <1>9

LEMMA StartBridgeInv == IInv /\ StartBridge => IInv'
<1> SUFFICES ASSUME IInv, StartBridge PROVE IInv'
  OBVIOUS
<1>1. /\ UNCHANGED <<export, fixed, socket, caller, told, exchanges>>
      /\ row' = row /\ uncommitted' = uncommitted /\ committed' = committed
  BY Zenon DEF StartBridge, service
<1>2. RowMovesOn /\ RowFits(row')
      /\ uncommitted' \cup committed' \subseteq uncommitted \cup committed
  BY Zenon, <1>1 DEF RowMovesOn, IInv
<1> QED
  BY Zenon, <1>1, <1>2, RowInv

-----------------------------------------------------------------------------
(* The theorems.                                                           *)

\* Whatever was there at the beginning, the invariant holds of it.
LEMMA InitInv == Init => IInv
<1> SUFFICES ASSUME Init PROVE IInv
  OBVIOUS
<1>1. /\ socket = NoSocket /\ caller = NoCaller /\ uncommitted = {} /\ committed = {}
      /\ told = Nothing /\ exchanges = 0 /\ file = original
      /\ row = KubernetesRow("none") \/ row = Absent
  BY Zenon DEF Init
<1>2. RowFits(row)
  <2>1. RowFits(KubernetesRow("none")) /\ RowFits(Absent)
    BY DEF RowFits, KubernetesRow, States
  <2> QED
    BY Zenon, <1>1, <2>1
<1>3. NoSocket.stage = "none" /\ NoCaller.kind = "none" /\ "none" \notin ExportKinds
      /\ DOMAIN NoCaller = {"kind", "name", "request"}
  BY DEF NoSocket, NoCaller, ExportKinds
<1>4. CallerFits
  BY Zenon, <1>1, <1>3 DEF CallerFits
<1>5. NumbersFit
  BY <1>1, <1>3 DEF NumbersFit
<1>6. SocketFits
  BY <1>1, <1>3 DEF SocketFits
<1>7. ExportFits
  <2>1. told.by # "report" /\ caller.kind \notin {"write", "sync", "report"}
    BY <1>1, <1>3, NothingTold
  <2> QED
    BY Zenon, <1>1, <1>3, <2>1 DEF ExportFits
<1>8. ToldFits
  BY Zenon, <1>1, NothingTold DEF ToldFits
<1> QED
  BY Zenon, <1>2, <1>4, <1>5, <1>6, <1>7, <1>8 DEF IInv

\* Every step of a caller, of the service and of the machine keeps the invariant.
LEMMA NextInv == IInv /\ [Next]_vars => IInv'
<1> SUFFICES ASSUME IInv, [Next]_vars PROVE IInv'
  OBVIOUS
<1>1. CASE UNCHANGED vars
  <2>1. /\ UNCHANGED <<export, fixed, socket, caller, told, exchanges>>
        /\ row' = row /\ uncommitted' = uncommitted /\ committed' = committed
    BY Zenon, <1>1 DEF vars, service
  <2>2. RowMovesOn /\ RowFits(row')
        /\ uncommitted' \cup committed' \subseteq uncommitted \cup committed
    BY Zenon, <2>1 DEF RowMovesOn, IInv
  <2> QED
    BY Zenon, <2>1, <2>2, RowInv
<1>2. CASE Next
  BY Zenon, <1>2, ServeReadInv, ServeAdmissionInv, ServeRefusalInv, ServeUndecidedInv, CloseInv,
     LateCommitInv, AdvanceInv, ReceiveInv, GiveUpInv, RunClientInv, OpenInv, WriteInv, SyncInv,
     ReportInv, KillInv, PowerLossInv, ReadLineInv, StartBridgeInv DEF Next
<1> QED
  BY Zenon, <1>1, <1>2

\* Whatever is lost, late or cut off between a caller and the service, and wherever the
\* operation is by now, the invariant of the exchange holds.
THEOREM ExchangeInvariant == Spec => []IInv
BY InitInv, NextInv, PTL DEF Spec

\* What a caller was told stays true: a final status is the one the journal keeps, an
\* admitted operation is retained, and a refused submission is never committed.
THEOREM ReportsStayTrue == Spec => []ReportStaysTrue
<1>1. IInv => ReportStaysTrue
  <2> SUFFICES ASSUME IInv PROVE ReportStaysTrue
    OBVIOUS
  <2>1. Says(told.answer, told.id, told.number)
    BY Zenon DEF IInv, ToldFits
  <2> QED
    BY Zenon, <2>1 DEF ReportStaysTrue, Says, EntriesTrue, EntryTrue
<1> QED
  BY ExchangeInvariant, <1>1, PTL

\* A receipt that is reported as saved is whole, through power loss, and a file that was
\* there before is never touched.
THEOREM ExportsAreWhole == Spec => []ExportIsWhole
<1>1. IInv => ExportIsWhole
  BY Zenon DEF IInv, ExportFits, ExportIsWhole
<1> QED
  BY ExchangeInvariant, <1>1, PTL
=============================================================================
