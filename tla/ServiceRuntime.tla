--------------------------- MODULE ServiceRuntime ---------------------------
(***************************************************************************)
(* The resident daemon's runtime (crates/kapsel-daemon/src/server/         *)
(* runtime.rs, runtime/jobs.rs, server.rs): which connection becomes which *)
(* job, who may execute, what a contended submission is told, and what     *)
(* shutdown waits for.                                                     *)
(*                                                                         *)
(* A request is one connection.  Its handler turns it into a job: an async *)
(* supervisor and a blocking closure that share one lease.  The lease      *)
(* holds the connection permit and, for an execution or a contention       *)
(* probe, a reference to a Selection, whose last reference frees the one   *)
(* submission permit.  References are dropped by whichever thread holds    *)
(* them, so every drop is a step of its own.                               *)
(*                                                                         *)
(* The journal is reduced to one of three phases per operation: absent,    *)
(* unfinished, terminal; how an execution pass moves a row between them is *)
(* the subject of KubernetesEffect and GitEffect.  Poisoned mutexes and    *)
(* panics are left out.                                                    *)
(***************************************************************************)
EXTENDS Naturals, FiniteSets, Sequences

CONSTANTS
    Submissions,        \* requests that submit an operation
    Reads,              \* requests that read an operation: its status or its history entry
    Operations,
    Target,             \* the operation a request names
    Conditions,         \* execution conditions a pass may stop with
    ConnectionsMax,     \* CONNECTIONS_MAX
    StoppedMax,         \* the length record_stop keeps `stopped` to
    Cancellable,        \* requests whose supervisor may be cancelled
    MayStop,            \* whether the service is ever told to stop
    InitialRows,        \* what the journal may hold when the daemon starts
    None

Requests == Submissions \cup Reads

\* ExecutionCondition
AllConditions ==
    {"preflight_unavailable", "receiver_unavailable", "signing_unavailable",
     "worker_contention", "completion_blocked", "operation_blocked"}

ASSUME TargetAssumption == Target \in [Requests -> Operations]
ASSUME ConditionsAssumption ==
    /\ Conditions \subseteq AllConditions
    /\ {"worker_contention", "operation_blocked"} \subseteq Conditions
ASSUME RowsAssumption ==
    InitialRows \subseteq [Operations -> {"absent", "unfinished", "terminal"}]
ASSUME EnvironmentAssumption == Cancellable \subseteq Requests /\ MayStop \in BOOLEAN
ASSUME BoundsAssumption == ConnectionsMax \in Nat \ {0} /\ StoppedMax \in Nat \ {0}

\* What a caller may be told: a decision, or guidance with a condition.
Guidance(kind, condition) == [kind |-> kind, condition |-> condition]

Told(decision) == [kind |-> decision, condition |-> None]

Guidances ==
    [kind : {"admission_unconfirmed", "complete", "active", "waiting_for_worker",
             "resume_required", "operator_required"},
     condition : AllConditions \cup {None}]

Answers ==
    {Told(decision) : decision \in {"admitted", "busy", "full", "indeterminate", "error"}}
    \cup Guidances

Roles == {"execution", "probe", "read"}

ASSUME NoneAssumption == None \notin Requests \cup Roles \cup Answers

VARIABLES
    row,            \* operation -> phase of its row in the journal, durable
    serving,        \* the accept loop and what follows it
    handler,        \* request -> where its connection task is
    role,           \* request -> the kind of job it became
    response,       \* request -> what its caller is told
    supervisor,     \* request -> where its job's supervisor is
    closure,        \* request -> where its job's blocking closure is
    local,          \* request -> what the closure last read or computed
    sent,           \* request -> the value in the job's oneshot channel
    lease,          \* request -> how far its job's lease has been dropped
    pin,            \* request -> the Selection its handler or lease references
    running,        \* request -> the running flag of the Selection it created
    permit,         \* the Selection that holds the submission permit
    selected,       \* the Selection last published (a weak reference)
    stopped,        \* the bounded diagnostics of stopped passes
    jobs,           \* the job registry
    lastPass        \* history: operation -> what its latest selection ended with

handlerVars   == <<handler, role, response>>
jobVars       == <<supervisor, closure, local, sent, lease, jobs>>
selectionVars == <<pin, running, permit, selected>>
vars == <<row, serving, handlerVars, jobVars, selectionVars, stopped, lastPass>>

-----------------------------------------------------------------------------
(* Ownership.                                                              *)

Op(r) == Target[r]

\* Weak::upgrade succeeds while a handler or a lease references the Selection.
Live(g) == \E r \in Requests : pin[r] = g

Upgraded == IF selected # None /\ Live(selected) THEN selected ELSE None

\* The `selected` mutex: only admit_submission holds it across two steps.
SelectedUnlocked == \A r \in Requests : handler[r] # "pinning"

\* The `reads` mutex: a status or history read holds it across two steps.
ReadsUnlocked == \A r \in Requests : closure[r] \notin {"observed", "paged"}

HandlerActive(r) == handler[r] \notin {"idle", "closed"}

\* The Arc around a connection permit is shared by the handler and the lease.
ConnectionHeld(r) == HandlerActive(r) \/ lease[r] = "held"

InUse == Cardinality({r \in Requests : ConnectionHeld(r)})

Retired(r) == supervisor[r] = "finished" /\ lease[r] = "retired"

\* ServerState::observation
Observation(o) ==
    LET found == {i \in DOMAIN stopped : stopped[i].operation = o}
        first == CHOOSE i \in found : \A j \in found : i <= j
    IN  IF Upgraded # None
        THEN IF Op(Upgraded) = o /\ running[Upgraded] THEN "active" ELSE "other_worker"
        ELSE IF found # {} THEN stopped[first].observation ELSE "unknown"

\* Retain the entries of other operations, in their order.
Without(entries, o) ==
    LET kept[i \in 0 .. Len(entries)] ==
            IF i = 0 THEN <<>>
            ELSE IF entries[i].operation # o THEN Append(kept[i - 1], entries[i])
            ELSE kept[i - 1]
    IN  kept[Len(entries)]

\* Mutant of Project: a terminal row does not end the guidance.
ProjectIgnoresHistory(status, observation) ==
    IF status = "absent" THEN Guidance("admission_unconfirmed", None)
    ELSE IF observation \in {"worker_contention", "preflight_unavailable"}
    THEN Guidance("resume_required", observation)
    ELSE Guidance("complete", None)

\* ExecutionDisposition::project
Project(status, observation) ==
    IF status = "absent" THEN Guidance("admission_unconfirmed", None)
    ELSE IF status = "terminal" THEN Guidance("complete", None)
    ELSE
    CASE observation = "unknown" -> Guidance("resume_required", None)
      [] observation = "active" -> Guidance("active", None)
      [] observation = "other_worker" -> Guidance("waiting_for_worker", None)
      [] observation \in {"worker_contention", "preflight_unavailable"} ->
            Guidance("resume_required", observation)
      [] OTHER -> Guidance("operator_required", observation)

\* Results of a pass: "finished" or the condition it was blocked by; an error is
\* recorded as operation_blocked (ServiceStop::observation).
StopObservation(result) == IF result = "finished" THEN "unknown" ELSE result

Move(f, r, value) == [f EXCEPT ![r] = value]

-----------------------------------------------------------------------------
(* Connections.                                                            *)

\* serve: a connection beyond the permits is dropped unread.
Accept(r) ==
    /\ serving = "accepting" /\ handler[r] = "idle"
    /\ handler' = Move(handler, r, IF InUse < ConnectionsMax THEN "open" ELSE "closed")
    /\ UNCHANGED <<row, serving, role, response, jobVars, selectionVars, stopped, lastPass>>

\* serve_admitted_connection returns early: a foreign peer, or no request within
\* the deadline.
Refuse(r) ==
    /\ handler[r] = "open"
    /\ handler' = Move(handler, r, "closed")
    /\ UNCHANGED <<row, serving, role, response, jobVars, selectionVars, stopped, lastPass>>

\* dispatch_admitted for a read.
DispatchRead(r) ==
    /\ handler[r] = "open" /\ r \notin Submissions
    /\ handler' = Move(handler, r, "selected")
    /\ role' = Move(role, r, "read")
    /\ UNCHANGED <<row, serving, response, jobVars, selectionVars, stopped, lastPass>>

\* Mutant of AcquireSubmission: the permit is not kept with the Selection.
AcquireForgetsPermit(r) ==
    /\ handler[r] = "open" /\ r \in Submissions /\ SelectedUnlocked
    /\ permit = None
    /\ handler' = Move(handler, r, "selected")
    /\ role' = Move(role, r, "execution")
    /\ UNCHANGED permit
    /\ selected' = r
    /\ pin' = Move(pin, r, r)
    /\ running' = Move(running, r, TRUE)
    /\ stopped' = Without(stopped, Op(r))
    /\ lastPass' = [lastPass EXCEPT ![Op(r)] = "unknown"]
    /\ UNCHANGED <<row, serving, response, jobVars>>

\* Mutant of AcquireSubmission: the old diagnostic stays.
AcquireKeepsDiagnostic(r) ==
    /\ handler[r] = "open" /\ r \in Submissions /\ SelectedUnlocked
    /\ permit = None
    /\ handler' = Move(handler, r, "selected")
    /\ role' = Move(role, r, "execution")
    /\ permit' = r
    /\ selected' = r
    /\ pin' = Move(pin, r, r)
    /\ running' = Move(running, r, TRUE)
    /\ lastPass' = [lastPass EXCEPT ![Op(r)] = "unknown"]
    /\ UNCHANGED <<row, serving, response, jobVars, stopped>>

\* admit_submission under the publication lock: take the permit and publish a new
\* Selection, which invalidates the identity's old diagnostic, or ...
AcquireSubmission(r) ==
    /\ handler[r] = "open" /\ r \in Submissions /\ SelectedUnlocked
    /\ permit = None
    /\ handler' = Move(handler, r, "selected")
    /\ role' = Move(role, r, "execution")
    /\ permit' = r
    /\ selected' = r
    /\ pin' = Move(pin, r, r)
    /\ running' = Move(running, r, TRUE)
    /\ stopped' = Without(stopped, Op(r))
    /\ lastPass' = [lastPass EXCEPT ![Op(r)] = "unknown"]
    /\ UNCHANGED <<row, serving, response, jobVars>>

\* ... find it taken, and then, still under the lock, ...
FailAcquisition(r) ==
    /\ handler[r] = "open" /\ r \in Submissions /\ SelectedUnlocked
    /\ permit # None
    /\ handler' = Move(handler, r, "pinning")
    /\ role' = Move(role, r, "probe")
    /\ UNCHANGED <<row, serving, response, jobVars, selectionVars, stopped, lastPass>>

\* ... pin the published Selection, if it is still referenced.
PinSelection(r) ==
    /\ handler[r] = "pinning"
    /\ handler' = Move(handler, r, "selected")
    /\ pin' = Move(pin, r, Upgraded)
    /\ UNCHANGED <<row, serving, role, response, jobVars, running, permit, selected,
                   stopped, lastPass>>

\* Jobs::spawn drops the records of retired jobs, then registers this one, or
\* refuses it and drops the Selection with the closure.
Spawn(r) ==
    LET kept == {j \in jobs : ~Retired(j)} IN
    /\ handler[r] = "selected"
    /\ \/ /\ Cardinality(kept) < ConnectionsMax
          /\ jobs' = kept \cup {r}
          /\ supervisor' = Move(supervisor, r, "registered")
          /\ lease' = Move(lease, r, "held")
          /\ handler' = Move(handler, r, "waiting")
          /\ UNCHANGED <<response, selectionVars>>
       \/ /\ Cardinality(kept) >= ConnectionsMax
          /\ jobs' = kept
          /\ handler' = Move(handler, r, "closed")
          /\ response' = Move(response, r, IF role[r] = "read" THEN None ELSE Told("error"))
          /\ pin' = Move(pin, r, None)
          /\ running' = Move(running, r, FALSE)
          /\ permit' = IF permit = pin[r] /\ \A q \in Requests \ {r} : pin[q] # permit
                       THEN None ELSE permit
          /\ UNCHANGED <<supervisor, lease, selected>>
    /\ UNCHANGED <<row, serving, role, closure, local, sent, stopped, lastPass>>

\* The handler awaits the channel until the deadline; it writes the response, or
\* fails to, and returns.
ReceiveDecision(r) ==
    /\ handler[r] = "waiting" /\ sent[r] # None
    /\ response' = Move(response, r, sent[r])
    /\ handler' = Move(handler, r, "closed")
    /\ UNCHANGED <<row, serving, role, jobVars, selectionVars, stopped, lastPass>>

\* The closure was dropped before it ran.
SenderGone(r) ==
    /\ handler[r] = "waiting" /\ sent[r] = None
    /\ supervisor[r] = "finished" /\ closure[r] = "none"
    /\ response' = Move(response, r, Told("error"))
    /\ handler' = Move(handler, r, "closed")
    /\ UNCHANGED <<row, serving, role, jobVars, selectionVars, stopped, lastPass>>

\* Mutant of Deadline: the caller waits without a deadline.
DeadlineWaits(r) == FALSE /\ UNCHANGED vars

Deadline(r) ==
    /\ handler[r] = "waiting" /\ sent[r] = None
    /\ response' = Move(response, r, IF role[r] = "read" THEN None ELSE Told("indeterminate"))
    /\ handler' = Move(handler, r, "closed")
    /\ UNCHANGED <<row, serving, role, jobVars, selectionVars, stopped, lastPass>>


-----------------------------------------------------------------------------
(* Supervisors and leases.                                                 *)

StartBlocking(r) ==
    /\ supervisor[r] = "registered"
    /\ supervisor' = Move(supervisor, r, "awaiting")
    /\ closure' = Move(closure, r, "queued")
    /\ UNCHANGED <<row, serving, handlerVars, local, sent, lease, jobs, selectionVars,
                   stopped, lastPass>>

SupervisorReturns(r) ==
    /\ supervisor[r] = "awaiting" /\ closure[r] = "dropped"
    /\ supervisor' = Move(supervisor, r, "finished")
    /\ UNCHANGED <<row, serving, handlerVars, closure, local, sent, lease, jobs,
                   selectionVars, stopped, lastPass>>

\* A supervisor task may be cancelled: before it starts the closure, which is then
\* dropped with its running marker, or after, when the closure survives it.
AbortSupervisor(r) ==
    /\ r \in Cancellable /\ supervisor[r] \in {"registered", "awaiting"}
    /\ supervisor' = Move(supervisor, r, "finished")
    /\ running' = IF supervisor[r] = "registered" THEN Move(running, r, FALSE) ELSE running
    /\ UNCHANGED <<row, serving, handlerVars, closure, local, sent, lease, jobs, pin,
                   permit, selected, stopped, lastPass>>

\* Mutant of LeaseUnreferenced: a closure that never started keeps the lease.
LeaseNeedsClosure(r) == supervisor[r] = "finished" /\ closure[r] = "dropped"

\* The last of the two references to the lease is gone; its fields drop in order.
LeaseUnreferenced(r) == supervisor[r] = "finished" /\ closure[r] \in {"none", "dropped"}

DropConnection(r) ==
    /\ lease[r] = "held" /\ LeaseUnreferenced(r)
    /\ lease' = Move(lease, r, "unconnected")
    /\ UNCHANGED <<row, serving, handlerVars, supervisor, closure, local, sent, jobs,
                   selectionVars, stopped, lastPass>>

\* The last reference to a Selection frees the submission permit in a second step,
\* when the Selection can already not be upgraded; then the retirement channel closes.
DropSelection(r) ==
    /\ lease[r] = "unconnected"
    /\ pin' = Move(pin, r, None)
    /\ lease' = Move(lease, r, IF pin[r] # None /\ \A q \in Requests \ {r} : pin[q] # pin[r]
                               THEN "releasing" ELSE "retired")
    /\ UNCHANGED <<row, serving, handlerVars, supervisor, closure, local, sent, jobs,
                   running, permit, selected, stopped, lastPass>>

ReleaseSubmission(r) ==
    /\ lease[r] = "releasing"
    /\ permit' = None
    /\ lease' = Move(lease, r, "retired")
    /\ UNCHANGED <<row, serving, handlerVars, supervisor, closure, local, sent, jobs, pin,
                   running, selected, stopped, lastPass>>

-----------------------------------------------------------------------------
(* The execution closure.                                                  *)

Executing == {"executing", "committed", "advancing"}

Step(r, label, value, answer) ==
    /\ closure' = Move(closure, r, label)
    /\ local' = Move(local, r, value)
    /\ sent' = Move(sent, r, answer)
    /\ UNCHANGED <<serving, handlerVars, supervisor, lease, jobs, pin, permit, selected>>

\* A pass ends; what it returned is recorded as the latest of its operation.
EndPass(r, result, answer) ==
    /\ Step(r, "stopping", result, answer)
    /\ lastPass' = [lastPass EXCEPT ![Op(r)] = StopObservation(result)]

\* The closure locks the execution application.
BeginExecution(r) ==
    /\ closure[r] = "queued" /\ role[r] = "execution"
    /\ \A q \in Requests : closure[q] \notin Executing
    /\ Step(r, "executing", None, None)
    /\ UNCHANGED <<row, running, stopped, lastPass>>

\* select fails before any decision: unknown identity, unavailable authority, or
\* storage that did not take the row.
FailSelection(r) ==
    /\ closure[r] = "executing"
    /\ EndPass(r, "operation_blocked", None)
    /\ UNCHANGED <<row, running, stopped>>

\* admit_service_operation decides without the lease: a terminal row is selected
\* read-only, and a lease held by another process refuses new work.
DecideWithoutLease(r) ==
    /\ closure[r] = "executing"
    /\ \/ row[Op(r)] = "terminal" /\ EndPass(r, "finished", Told("admitted"))
       \/ row[Op(r)] = "unfinished" /\ EndPass(r, "worker_contention", Told("admitted"))
       \/ row[Op(r)] = "absent" /\ EndPass(r, "worker_contention", Told("busy"))
    /\ UNCHANGED <<row, running, stopped>>

\* The journal is at its capacity.
DecideFull(r) ==
    /\ closure[r] = "executing" /\ row[Op(r)] = "absent"
    /\ EndPass(r, "finished", Told("full"))
    /\ UNCHANGED <<row, running, stopped>>

\* The row is inserted, or an unfinished one is found, under the lease.
CommitAdmission(r) ==
    /\ closure[r] = "executing" /\ row[Op(r)] \in {"absent", "unfinished"}
    /\ row' = [row EXCEPT ![Op(r)] = "unfinished"]
    /\ Step(r, "committed", None, None)
    /\ UNCHANGED <<running, stopped, lastPass>>

\* The commit is not confirmed to the gateway, which reports an error.
LoseCommit(r) ==
    /\ closure[r] = "committed"
    /\ EndPass(r, "operation_blocked", None)
    /\ UNCHANGED <<row, running, stopped>>

\* The acknowledgement callback.
Acknowledge(r) ==
    /\ closure[r] = "committed"
    /\ Step(r, "advancing", None, Told("admitted"))
    /\ UNCHANGED <<row, running, stopped, lastPass>>

\* Reconciliation ends.  It finishes only with a terminal row; blocked, it may have
\* left one whose commit was not confirmed.
EndReconciliation(r) ==
    /\ closure[r] = "advancing"
    /\ \E result \in Conditions \cup {"finished"}, phase \in {"unfinished", "terminal"} :
          /\ result = "finished" => phase = "terminal"
          /\ row' = [row EXCEPT ![Op(r)] = phase]
          /\ EndPass(r, result, sent[r])
    /\ UNCHANGED <<running, stopped>>

\* record_stop keeps one entry per operation and at most StoppedMax of them.
RecordStop(r) ==
    LET others == Without(stopped, Op(r))
        room   == IF Len(others) = StoppedMax THEN Tail(others) ELSE others
    IN  /\ closure[r] = "stopping"
        /\ stopped' = Append(room, [operation |-> Op(r),
                                    observation |-> StopObservation(local[r])])
        /\ Step(r, "recorded", local[r], sent[r])
        /\ UNCHANGED <<row, running, lastPass>>

\* A caller that got no decision gets the error; the running marker drops, and then
\* the closure's reference to the lease.
EndExecution(r) ==
    /\ closure[r] = "recorded"
    /\ Step(r, "dropped", None, IF sent[r] = None THEN Told("error") ELSE sent[r])
    /\ running' = Move(running, r, FALSE)
    /\ UNCHANGED <<row, stopped, lastPass>>


-----------------------------------------------------------------------------
(* The contention probe and the reads.                                     *)

\* ServiceApplication::admitted_state
ProbeRead(r) ==
    /\ closure[r] = "queued" /\ role[r] = "probe" /\ ReadsUnlocked
    /\ \E retained \in {row[Op(r)], "error"} : Step(r, "probed", retained, None)
    /\ UNCHANGED <<row, running, stopped, lastPass>>

\* Mutant of ContendedAdmission: the owner pinned before the read is not asked.
ContendedForgetsPin(retained, pinned, currentMatches, o) ==
    IF retained \in {"unfinished", "terminal"} THEN Told("admitted")
    ELSE IF retained = "error" THEN Told("error")
    ELSE IF currentMatches THEN Told("indeterminate") ELSE Told("busy")

\* contended_admission
ContendedAdmission(retained, pinned, currentMatches, o) ==
    IF retained \in {"unfinished", "terminal"} THEN Told("admitted")
    ELSE IF retained = "error" THEN Told("error")
    ELSE IF pinned = None \/ Op(pinned) = o \/ currentMatches THEN Told("indeterminate")
    ELSE Told("busy")

\* The probe looks at the current owner after its read, and still holds its pin.
ProbeDecide(r) ==
    /\ closure[r] = "probed" /\ SelectedUnlocked
    /\ LET currentMatches == Upgraded # None /\ Op(Upgraded) = Op(r)
       IN  Step(r, "dropped", None,
                ContendedAdmission(local[r], pin[r], currentMatches, Op(r)))
    /\ UNCHANGED <<row, running, stopped, lastPass>>

\* ReadRequest::Status observes the process first and reads the row second.
ObserveForStatus(r) ==
    /\ closure[r] = "queued" /\ r \in Reads /\ role[r] = "read"
    /\ ReadsUnlocked /\ SelectedUnlocked
    /\ Step(r, "observed", Observation(Op(r)), None)
    /\ UNCHANGED <<row, running, stopped, lastPass>>

ReadStatus(r) ==
    /\ closure[r] = "observed"
    /\ \/ Step(r, "dropped", None, Project(row[Op(r)], local[r]))
       \/ Step(r, "dropped", None, Told("error"))
    /\ UNCHANGED <<row, running, stopped, lastPass>>

\* ReadRequest::History reads the page first and observes the process second.
ReadHistory(r) ==
    /\ closure[r] = "queued" /\ r \in Reads /\ role[r] = "read" /\ ReadsUnlocked
    /\ \/ row[Op(r)] # "absent" /\ Step(r, "paged", row[Op(r)], None)
       \/ Step(r, "dropped", None, Told("error"))
    /\ UNCHANGED <<row, running, stopped, lastPass>>

ObserveForHistory(r) ==
    /\ closure[r] = "paged" /\ SelectedUnlocked
    /\ Step(r, "dropped", None, Project(local[r], Observation(Op(r))))
    /\ UNCHANGED <<row, running, stopped, lastPass>>

-----------------------------------------------------------------------------
(* Shutdown.                                                               *)

\* SIGTERM, or an accept error: the listener is dropped.
StopAccepting ==
    /\ MayStop /\ serving = "accepting"
    /\ serving' = "joining"
    /\ UNCHANGED <<row, handlerVars, jobVars, selectionVars, stopped, lastPass>>

JoinHandlers ==
    /\ serving = "joining"
    /\ \A r \in Requests : ~HandlerActive(r)
    /\ serving' = "draining"
    /\ UNCHANGED <<row, handlerVars, jobVars, selectionVars, stopped, lastPass>>

\* Mutant of Drain: only the supervisors are awaited.
DrainSupervisorsOnly ==
    /\ serving = "draining"
    /\ \A r \in jobs : supervisor[r] = "finished"
    /\ jobs' = {}
    /\ serving' = "retired"
    /\ UNCHANGED <<row, handlerVars, supervisor, closure, local, sent, lease,
                   selectionVars, stopped, lastPass>>

\* Jobs::drain, after which the applications and the lifecycle lock are released.
Drain ==
    /\ serving = "draining"
    /\ \A r \in jobs : Retired(r)
    /\ jobs' = {}
    /\ serving' = "retired"
    /\ UNCHANGED <<row, handlerVars, supervisor, closure, local, sent, lease,
                   selectionVars, stopped, lastPass>>

-----------------------------------------------------------------------------
Handler(r) ==
    \/ DispatchRead(r) \/ AcquireSubmission(r) \/ FailAcquisition(r)
    \/ PinSelection(r) \/ Spawn(r) \/ ReceiveDecision(r) \/ SenderGone(r) \/ Deadline(r)

Execution(r) ==
    \/ BeginExecution(r) \/ FailSelection(r) \/ DecideWithoutLease(r) \/ DecideFull(r)
    \/ CommitAdmission(r) \/ LoseCommit(r) \/ Acknowledge(r) \/ EndReconciliation(r)
    \/ RecordStop(r) \/ EndExecution(r)

Job(r) ==
    \/ StartBlocking(r) \/ SupervisorReturns(r)
    \/ Execution(r) \/ ProbeRead(r) \/ ProbeDecide(r)
    \/ ObserveForStatus(r) \/ ReadStatus(r) \/ ReadHistory(r) \/ ObserveForHistory(r)

Lease(r) ==
    DropConnection(r) \/ DropSelection(r) \/ ReleaseSubmission(r)

Init ==
    /\ row \in InitialRows
    /\ serving = "accepting"
    /\ handler = [r \in Requests |-> "idle"]
    /\ role = [r \in Requests |-> None]
    /\ response = [r \in Requests |-> None]
    /\ supervisor = [r \in Requests |-> "none"]
    /\ closure = [r \in Requests |-> "none"]
    /\ local = [r \in Requests |-> None]
    /\ sent = [r \in Requests |-> None]
    /\ lease = [r \in Requests |-> "none"]
    /\ pin = [r \in Requests |-> None]
    /\ running = [r \in Requests |-> FALSE]
    /\ permit = None
    /\ selected = None
    /\ stopped = <<>>
    /\ jobs = {}
    /\ lastPass = [o \in Operations |-> "unknown"]

Next ==
    \/ \E r \in Requests :
          Accept(r) \/ Refuse(r) \/ AbortSupervisor(r) \/ Handler(r) \/ Job(r) \/ Lease(r)
    \/ StopAccepting \/ JoinHandlers \/ Drain

Spec == Init /\ [][Next]_vars

(***************************************************************************)
(* Tokio keeps polling ready tasks, the blocking pool runs queued closures *)
(* and deadlines expire.  Clients need not connect, nobody need stop the   *)
(* service, and no supervisor need be cancelled.  That a pass ends is an   *)
(* assumption on storage and on the receivers, whose calls are bounded.    *)
(***************************************************************************)
\* The specification assumes progress of the connection tasks and their deadlines
\* only: storage may hang.
ResponsiveSpec == Spec /\ \A r \in Requests : WF_vars(Refuse(r) \/ Handler(r))

\* What is assumed besides where a property needs jobs to end.
JobsProgress ==
    /\ \A r \in Requests : WF_vars(Job(r)) /\ WF_vars(Lease(r))
    /\ WF_vars(JoinHandlers) /\ WF_vars(Drain)

-----------------------------------------------------------------------------
(* Properties.                                                             *)

\* The execution job of r holds or awaits its turn at the execution application:
\* from the acquisition of the permit until its closure's marker drops.
ExecutionPending(r) ==
    /\ role[r] = "execution"
    /\ \/ handler[r] = "selected"
       \/ supervisor[r] = "registered"
       \/ closure[r] \in Executing \cup {"queued", "stopping", "recorded"}

\* No queue of executions forms: from the moment a submission is selected until its
\* closure ends, whatever its caller or its supervisor does meanwhile, no other
\* submission is selected (the Selection in the shared JobLease).
OneExecution ==
    Cardinality({r \in Requests : ExecutionPending(r)}) <= 1

Refusals == {Told("busy"), Told("full")}

\* NOT_ADMITTED is a definite refusal: at the moment it is decided, the operation
\* has no row and no other job of this process can still commit one, although the
\* absence was read earlier than ownership was; and an expired deadline never
\* becomes one (contended_admission, admit_submission).
RefusalIsDefinite ==
    [][\A r \in Requests :
          /\ sent'[r] # sent[r] /\ sent'[r] \in Refusals =>
                /\ row[Op(r)] = "absent"
                /\ \A q \in Requests \ {r} : ExecutionPending(q) => Op(q) # Op(r)
          /\ response'[r] \in Refusals => sent'[r] = response'[r]]_vars

\* A stop reason that the process reports for an operation is the one its latest
\* pass ended with: a newer selection removes the older reason, and the newer
\* reason is recorded before the permit is free (record_stop, admit_submission).
\* At most StoppedMax reasons are kept.
DiagnosticIsCurrent ==
    /\ Len(stopped) <= StoppedMax
    /\ \A o \in Operations :
          Observation(o) \in AllConditions => Observation(o) = lastPass[o]

\* Guidance agrees with history: an operation reported complete is terminal, and
\* one with guidance other than "unconfirmed" has a row (project, read_observed),
\* in whichever order the read looked at the process and at the journal.
GuidanceFollowsHistory ==
    \A r \in Requests :
       response[r] \in Guidances =>
          /\ response[r].kind = "complete" => row[Op(r)] = "terminal"
          /\ response[r].kind # "admission_unconfirmed" => row[Op(r)] # "absent"

\* When shutdown releases the applications and the lifecycle lock, no handler and
\* no closure survives, cancelled supervisors included (serve, Jobs::drain).
RetiredMeansQuiet ==
    serving = "retired" =>
       \A r \in Requests :
          /\ ~HandlerActive(r)
          /\ closure[r] \in {"none", "dropped"}
          /\ lease[r] \in {"none", "retired"}

\* Every accepted connection is eventually closed, even if its job, or the one it
\* contends with, never returns (timeout_at in admit_submission and dispatch_admitted).
ConnectionsClose ==
    \A r \in Requests : handler[r] = "open" ~> handler[r] = "closed"

\* If jobs end, a stop signal leads to retirement: every handler is joined and every
\* job drained, those of cancelled supervisors included (serve, Jobs::drain).
StopRetires == JobsProgress => (serving = "joining" ~> serving = "retired")
=============================================================================
