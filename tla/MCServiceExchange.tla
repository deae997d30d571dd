-------------------------- MODULE MCServiceExchange --------------------------
(***************************************************************************)
(* An instance of ServiceExchange for TLC: an operation of each effect, a  *)
(* history and a catalogue of more than one page with every field at its   *)
(* longest, facts that JSON writes as they are, of quotes or of control    *)
(* characters, and a caller of the bridge that says what is right and what *)
(* is out of order, malformed or unsuitable.                               *)
(***************************************************************************)
EXTENDS ServiceExchange

OldIdentities ==
    <<"op-a1", "op-a2", "op-a3", "op-a4", "op-a5", "op-a6", "op-a7", "op-a8", "op-a9">>

Git(each) == [id |-> "op-g", effect |-> "git", each |-> each]
Kubernetes(each) == [id |-> "op-k", effect |-> "kubernetes", each |-> each]

MCBeginnings ==
    {[live |-> l, calls |-> c, legacy |-> FALSE, earlier |-> <<>>, file |-> "absent"] :
        l \in {Git(2), Kubernetes(6)}, c \in {"bridge", "client"}}
    \cup {[live |-> Kubernetes(each), calls |-> c, legacy |-> TRUE, earlier |-> OldIdentities,
           file |-> "foreign"] : each \in {1, 2}, c \in {"bridge", "client"}}

MCCatalogue ==
    <<"op-c1", "op-c2", "op-c3", "op-c4", "op-c5", "op-c6", "op-c7", "op-c8">>

NoCall == [name |-> "none", arguments |-> [none |-> Null]]

Line(kind) ==
    [line |-> kind, id |-> "absent", jsonrpc |-> TRUE, method |-> "none", params |-> TRUE,
     call |-> NoCall]

Message(id, method, params) ==
    [Line("message") EXCEPT !.id = id, !.method = method, !.params = params]

ToolCalls ==
    {[name |-> name, arguments |-> [operation_id |-> id]] :
        name \in {"kapsel.get_status", "kapsel.get_receipt", "kapsel.submit"},
        id \in {Identity("op-g"), Identity("op-k")}}
    \cup {[name |-> name, arguments |-> [after |-> Null]] :
        name \in {"kapsel.list_approved_actions", "kapsel.list_operation_history"}}
    \cup {[name |-> "kapsel.submit", arguments |-> [operation_id |-> Text("two words", 9)]],
          [name |-> "kapsel.list_approved_actions", arguments |-> [after |-> Identity("op-z")]],
          [name |-> "kapsel.get_status", arguments |-> [after |-> Null]],
          [name |-> "kapsel.other", arguments |-> [after |-> Null]]}

MCLines ==
    {Line("end"), Line("unbounded"), Line("malformed"), Line("envelope"),
     Message("valid", "initialize", TRUE), Message("valid", "initialize", FALSE),
     Message("absent", "notifications/initialized", TRUE),
     Message("valid", "notifications/initialized", TRUE),
     Message("valid", "tools/list", TRUE), Message("valid", "tools/list", FALSE),
     Message("invalid", "tools/call", TRUE), Message("absent", "tools/call", TRUE),
     Message("valid", "other", TRUE)}
    \cup {[Message("valid", "tools/call", TRUE) EXCEPT !.call = call] : call \in ToolCalls}
=============================================================================
