-------------------------- MODULE KubernetesEffect --------------------------
(***************************************************************************)
(* The Kubernetes effect: admission, advancement and recovery of approved  *)
(* "set this image on this Deployment" operations by the effect gateway    *)
(* (src/gateway/mod.rs, src/gateway/journal/, src/gateway/kubernetes/).    *)
(*                                                                         *)
(* Workers are processes that opened the same journal.  A worker runs one  *)
(* reconciliation at a time; pc is where that run stands between the       *)
(* reads, writes and receiver calls at which other processes, other        *)
(* writers of the Deployment, and crashes can interleave.  The journal     *)
(* survives a crash; everything a worker holds, its lease included, does   *)
(* not.                                                                    *)
(***************************************************************************)
EXTENDS ReceiverFacts, Journal

CONSTANTS
    Operations,             \* operation identities
    Workers,                \* processes with an open journal
    Images,                 \* immutable image digests
    Grants,                 \* signed authorization grants
    Keys,                   \* receipt signing keys
    Statuses,               \* rollout statuses the controller can report
    ObservationAttempts,    \* reads of one observation pass    (180 in the code)
    MaxVersion,             \* bound: others stop writing the Deployment here
    MaxUid                  \* bound: incarnations of the Deployment

Targets == [uid : Nat, version : Nat]

TargetRejections ==
    {"deployment_not_found", "container_not_found", "invalid_target", "stale_approval"}

OptionalNat == Nat \cup {None}

Observations ==
    [uid : OptionalNat, version : OptionalNat, generation : OptionalNat,
     observed : OptionalNat, image : Images \cup {None},
     marker : Operations \cup {None}, desired : OptionalNat, updated : OptionalNat,
     available : OptionalNat, unavailable : OptionalNat,
     condition : Conditions \cup {None}]

Responses == [version : Nat, generation : Nat]

Statements ==
    [grant : Grants, target : Targets, generation : OptionalNat,
     observation : Observations, result : OperationResults]

Receipts == [statement : Statements, key : Keys]

\* The object version a patch replaced, and the image it set.
Landings == [target : Targets, image : Images]

\* Every selectable grant approves one exact object version: service selection
\* refuses grants without an approved target.
ASSUME GrantsAssumption ==
    Grants \subseteq [operation : Operations, image : Images, approved : Targets]

ASSUME NoneAssumption ==
    /\ None \notin Nat
    /\ None \notin Images \cup Operations \cup Workers \cup Grants \cup Keys
    /\ None \notin Targets \cup TargetRejections \cup OperationResults
    /\ None \notin Observations \cup Responses \cup Receipts \cup Landings
    /\ None \notin Conditions /\ None \notin Statuses

ASSUME BoundsAssumption ==
    /\ ObservationAttempts \in Nat \ {0}
    /\ DesiredReplicas \in Nat
    /\ MaxVersion \in Nat
    /\ MaxUid \in Nat

ASSUME StatusesAssumption ==
    Statuses \subseteq [updated : Nat, available : Nat, unavailable : Nat,
                        conditions : SUBSET Conditions]

VARIABLES
    journal,        \* operation identity -> row, durable
    lease,          \* the worker holding the exclusive file lock, or None
    pc,             \* where each worker's run stands
    run,            \* the grant, receiver and signing key of each run
    loaded,         \* the row each run last read
    fetched,        \* the last receiver answer each run holds
    reads,          \* receiver reads made in the current observation pass
    deployment,     \* the Deployment at the receiver
    inflight,       \* patch requests on the network
    sent,           \* history: mutation requests sent per operation
    landed,         \* history: the object version each operation's patch replaced
    reports,        \* history: rollout verdicts the controller published
    acked           \* history: the last admission acknowledged per operation

workerVars   == <<lease, pc, run, loaded, fetched, reads>>
receiverVars == <<deployment, inflight, landed, reports>>
vars == <<journal, workerVars, receiverVars, sent, acked>>

-----------------------------------------------------------------------------
(* Rows and the steps of a run.                                            *)

\* The columns of a row; every column but state is None until it is written.
NoRow ==
    [state |-> "absent", grant |-> None, preflight |-> None, target |-> None,
     response |-> None, generation |-> None, observation |-> None,
     result |-> None, rejection |-> None, receipt |-> None]

\* The frozen statement a receipt signs.
Statement(row) ==
    [grant |-> row.grant, target |-> row.target, generation |-> row.generation,
     observation |-> row.observation, result |-> row.result]

\* into_operation accepts the row; anything else is InvalidPersistedState, and
\* the operation could never be read again.
Decodes(row) ==
    /\ row.state # "absent" /\ row.grant # None
    /\ row.target # None <=> row.state \in AttemptedStates
    /\ row.rejection # None <=> row.state = "not_attempted"
    /\ row.observation # None <=> row.state \in FrozenStates
    /\ row.result # None <=> row.observation # None
    /\ row.receipt # None <=> row.state = "finalized"
    /\ row.target = None => row.response = None /\ row.generation = None
    /\ row.state = "apply_started" /\ row.response = None => row.generation = None
    /\ row.target # None => row.target = row.grant.approved /\ row.preflight = row.target
    /\ row.rejection = "stale_approval" => row.preflight \notin {None, row.grant.approved}
    /\ row.target = None /\ row.rejection # "stale_approval" => row.preflight = None
    /\ row.receipt # None => row.receipt.statement = Statement(row)

Op(w) == run[w].grant.operation

\* authorized_record_on: the row is retained under exactly the grant of the run.
Custody(w) == journal[Op(w)].grant = run[w].grant

\* The run ends, normally or not: it forgets what it held and the lease drops.
Stop(w) ==
    /\ pc' = [pc EXCEPT ![w] = "idle"]
    /\ lease' = IF lease = w THEN None ELSE lease
    /\ run' = [run EXCEPT ![w] = None]
    /\ loaded' = [loaded EXCEPT ![w] = NoRow]
    /\ fetched' = [fetched EXCEPT ![w] = None]
    /\ reads' = [reads EXCEPT ![w] = 0]

Advance(w, label, row, answer) ==
    /\ pc' = [pc EXCEPT ![w] = label]
    /\ loaded' = [loaded EXCEPT ![w] = row]
    /\ fetched' = [fetched EXCEPT ![w] = answer]
    /\ UNCHANGED <<lease, run, reads>>

\* Io::replace after bound_record.  The commit requires the whole retained row
\* to be the one the run loaded.  The run learns of the commit, or gets an error
\* although the row was committed, or gets an error and nothing was committed.
Replace(w, next, label) ==
    \/ /\ journal[Op(w)] = loaded[w]
       /\ journal' = [journal EXCEPT ![Op(w)] = next]
       /\ Advance(w, label, next, None)
    \/ /\ journal[Op(w)] = loaded[w]
       /\ journal' = [journal EXCEPT ![Op(w)] = next]
       /\ Stop(w)
    \/ UNCHANGED journal /\ Stop(w)

\* acknowledged(Admitted(state)): the caller hears that o is admitted.
Acknowledge(w, state) ==
    acked' = [acked EXCEPT ![Op(w)] = [grant |-> run[w].grant, state |-> state]]

-----------------------------------------------------------------------------
(* Admission.                                                              *)

\* admit_and_reconcile: bind the grant and read what is retained for it.  A row
\* under another grant is an identity conflict, and the run never starts.  A
\* terminal row is acknowledged and selected read-only.
Begin(w, grant, adapter, signing) ==
    LET row == journal[grant.operation] IN
    /\ pc[w] = "idle"
    /\ row.state # "absent" => row.grant = grant
    /\ \/ /\ row.state \in TerminalStates
          /\ acked' = [acked EXCEPT ![grant.operation] =
                           [grant |-> grant, state |-> row.state]]
          /\ UNCHANGED workerVars
       \/ /\ row.state \notin TerminalStates
          /\ pc' = [pc EXCEPT ![w] = "lock"]
          /\ run' = [run EXCEPT ![w] =
                        [grant |-> grant, adapter |-> adapter, signing |-> signing]]
          /\ loaded' = [loaded EXCEPT ![w] = row]
          /\ UNCHANGED <<lease, fetched, reads, acked>>
    /\ UNCHANGED <<journal, receiverVars, sent>>

\* try_lock_worker: exclusive and nonwaiting.  Contention acknowledges work that
\* was already retained when the run read it, and refuses new work as busy.
TryLockWorker(w) ==
    /\ pc[w] = "lock"
    /\ \/ /\ lease = None
          /\ lease' = w
          /\ pc' = [pc EXCEPT ![w] = "admit"]
          /\ UNCHANGED <<run, loaded, fetched, reads, acked>>
       \/ /\ lease # None
          /\ IF loaded[w].state = "absent" THEN UNCHANGED acked
             ELSE Acknowledge(w, loaded[w].state)
          /\ Stop(w)
    /\ UNCHANGED <<journal, receiverVars, sent>>

\* The row insert_requested adds.
Requested(grant) == [NoRow EXCEPT !.state = "requested", !.grant = grant]

\* Mutant of InsertRequested: the caller hears of an insert before it is confirmed.
InsertRequestedEager(w) ==
    /\ Acknowledge(w, "requested")
    /\ \/ /\ journal' = [journal EXCEPT ![Op(w)] = Requested(run[w].grant)]
          /\ Advance(w, "reconcile", Requested(run[w].grant), None)
       \/ UNCHANGED journal /\ Stop(w)

\* insert_requested: confirmed, committed without confirmation, or not committed.
InsertRequested(w) ==
    \/ /\ journal' = [journal EXCEPT ![Op(w)] = Requested(run[w].grant)]
       /\ Acknowledge(w, "requested")
       /\ Advance(w, "reconcile", Requested(run[w].grant), None)
    \/ /\ journal' = [journal EXCEPT ![Op(w)] = Requested(run[w].grant)]
       /\ UNCHANGED acked /\ Stop(w)
    \/ UNCHANGED <<journal, acked>> /\ Stop(w)

\* The admit closure under the lease: the identity is checked again, and a new
\* identity is inserted as requested if the journal has room.  Only a confirmed
\* insert is acknowledged.
Admit(w) ==
    LET row == journal[Op(w)] IN
    /\ pc[w] = "admit"
    /\ \/ /\ row.state # "absent" /\ Custody(w)
          /\ Acknowledge(w, row.state)
          /\ Advance(w, "reconcile", row, None)
          /\ UNCHANGED journal
       \/ /\ row.state # "absent" /\ ~Custody(w)        \* OperationIdentityConflict
          /\ Stop(w)
          /\ UNCHANGED <<journal, acked>>
       \/ /\ row.state = "absent" /\ JournalFull(journal)
          /\ Stop(w)
          /\ UNCHANGED <<journal, acked>>
       \/ /\ row.state = "absent" /\ ~JournalFull(journal)
          /\ InsertRequested(w)
    /\ UNCHANGED <<receiverVars, sent>>

-----------------------------------------------------------------------------
(* Advancement: the loop of reconcile_locked_with_adapter.                 *)

\* Mutant of NextStep: an attempt without a recorded response is sent again.
NextStepResends(row) ==
    CASE row.state = "requested" -> "authorize"
      [] row.state = "authorized" -> "preflight"
      [] row.state = "apply_started" -> IF row.response = None THEN "send" ELSE "observe"
      [] OTHER -> "sign"

\* Mutant of NextStep: a frozen row is observed again instead of signed.
NextStepReobserves(row) ==
    CASE row.state = "requested" -> "authorize"
      [] row.state = "authorized" -> "preflight"
      [] OTHER -> "observe"

\* The step a phase calls for.  An attempted row is only ever observed.
NextStep(row) ==
    CASE row.state = "requested" -> "authorize"
      [] row.state = "authorized" -> "preflight"
      [] row.state = "apply_started" -> "observe"
      [] OTHER -> "sign"

\* One turn of the loop: read the row under custody, and stop if it is terminal
\* or the receiver or signing material its next step needs is not installed.
Reconcile(w) ==
    LET row == journal[Op(w)] IN
    /\ pc[w] = "reconcile"
    /\ row.state # "absent" /\ Custody(w)
    /\ \/ /\ \/ row.state \in TerminalStates
             \/ row.state \in {"authorized", "apply_started"} /\ ~run[w].adapter
             \/ row.state = "receiver_observed" /\ run[w].signing = None
          /\ Stop(w)
       \/ /\ row.state \in UnfinishedStates
          /\ row.state \in {"authorized", "apply_started"} => run[w].adapter
          /\ row.state = "receiver_observed" => run[w].signing # None
          /\ Advance(w, NextStep(row), row, None)
    /\ UNCHANGED <<journal, receiverVars, sent, acked>>

Authorized(row) == [row EXCEPT !.state = "authorized"]

\* submit_authorized on a requested row, ending in mark_authorized.
MarkAuthorized(w) ==
    /\ pc[w] = "authorize"
    /\ Replace(w, Authorized(loaded[w]), "reconcile")
    /\ UNCHANGED <<receiverVars, sent, acked>>

\* preflight_target: identify reads the Deployment.  A permanent answer rejects
\* the operation, a transient one ends the run with the row unchanged.
PreflightTarget(w) ==
    /\ pc[w] = "preflight"
    /\ \/ /\ ~deployment.present
          /\ Advance(w, "reject", loaded[w], [rejection |-> "deployment_not_found"])
       \/ /\ deployment.present /\ deployment.image = None
          /\ Advance(w, "reject", loaded[w], [rejection |-> "container_not_found"])
       \/ /\ deployment.present /\ deployment.image # None
          /\ Advance(w, "reject", loaded[w], [rejection |-> "invalid_target"])
       \/ /\ deployment.present /\ deployment.image # None
          /\ Advance(w, "attempt", loaded[w],
                     [uid |-> deployment.uid, version |-> deployment.version])
       \/ Stop(w)
    /\ UNCHANGED <<journal, receiverVars, sent, acked>>

Rejected(row, rejection) ==
    [row EXCEPT !.state = "not_attempted", !.rejection = rejection]

MarkNotAttempted(w) ==
    /\ pc[w] = "reject"
    /\ Replace(w, Rejected(loaded[w], fetched[w].rejection), "reconcile")
    /\ UNCHANGED <<receiverVars, sent, acked>>

\* mark_stale_approval
StaleApproval(row, found) ==
    [row EXCEPT !.state = "not_attempted", !.rejection = "stale_approval",
                !.preflight = found]

\* mark_apply_started
ApplyStarted(row, target) ==
    [row EXCEPT !.state = "apply_started", !.target = target, !.preflight = target]

\* Mutant of BeginAttempt: the version found is attempted, approved or not.
BeginAttemptUnapproved(w) ==
    /\ pc[w] = "attempt"
    /\ Replace(w, ApplyStarted(loaded[w], fetched[w]), "send")
    /\ UNCHANGED <<receiverVars, sent, acked>>

\* begin_attempt: a Deployment that is no longer the approved version ends the
\* operation unattempted; otherwise the attempt is recorded, and only a
\* confirmed commit leads on to the send.
BeginAttempt(w) ==
    /\ pc[w] = "attempt"
    /\ \/ /\ fetched[w] # loaded[w].grant.approved
          /\ Replace(w, StaleApproval(loaded[w], fetched[w]), "reconcile")
       \/ /\ fetched[w] = loaded[w].grant.approved
          /\ Replace(w, ApplyStarted(loaded[w], fetched[w]), "send")
    /\ UNCHANGED <<receiverVars, sent, acked>>

\* adapter.apply consumes the one dispatch permission of the fresh attempt: one
\* PATCH conditional on the uid and version of the target.
Apply(w) ==
    /\ pc[w] = "send"
    /\ journal[Op(w)].state = "apply_started" /\ Custody(w)
    /\ inflight' = inflight \cup
           {[operation |-> Op(w), image |-> run[w].grant.image, target |-> loaded[w].target]}
    /\ sent' = [sent EXCEPT ![Op(w)] = @ + 1]
    /\ Advance(w, "awaiting", journal[Op(w)], None)
    /\ UNCHANGED <<journal, deployment, landed, reports, acked>>

\* Mutant of ApplyReturned: a failed call takes the attempt back.
ApplyReturnedRollsBack(w) ==
    /\ pc[w] = "awaiting"
    /\ \/ /\ fetched[w] # None /\ Advance(w, "respond", loaded[w], fetched[w])
          /\ UNCHANGED journal
       \/ /\ journal' = [journal EXCEPT ![Op(w)] =
                             [@ EXCEPT !.state = "authorized"]]
          /\ Stop(w)
    /\ UNCHANGED <<receiverVars, sent, acked>>

\* apply returns the response, or times out or fails: then the run ends with
\* the attempt recorded and no response.
ApplyReturned(w) ==
    /\ pc[w] = "awaiting"
    /\ \/ fetched[w] # None /\ Advance(w, "respond", loaded[w], fetched[w])
       \/ Stop(w)
    /\ UNCHANGED <<journal, receiverVars, sent, acked>>

Responded(row, response) ==
    [row EXCEPT !.response = response.version, !.generation = response.generation]

RecordApplyOutcome(w) ==
    /\ pc[w] = "respond"
    /\ Replace(w, Responded(loaded[w], fetched[w]), "observe")
    /\ UNCHANGED <<receiverVars, sent, acked>>

\* Mutant of ClassificationOutcome: the recorded response is not consulted.
ClassificationOutcomeForgets(row) == [uid |-> row.target.uid, generation |-> None]

\* classification_outcome
ClassificationOutcome(row) ==
    [uid |-> row.target.uid,
     generation |-> IF row.response = None THEN None ELSE row.generation]

Complete(w, obs) ==
    ObservationIsComplete(obs, Op(w), run[w].grant.image, ClassificationOutcome(loaded[w]))

\* observe_until_terminal: a complete read ends the pass, an incomplete one only
\* when it was the last; the latest read is what counts, and a failed read or
\* the deadline leaves nothing.
ObserveReceiver(w) ==
    /\ pc[w] = "observe"
    /\ \/ \E obs \in {UnknownObservation} \cup
                     (IF deployment.present THEN {Observe(deployment)} ELSE {}) :
             IF Complete(w, obs) \/ reads[w] + 1 = ObservationAttempts
             THEN Advance(w, "freeze", loaded[w], obs)
             ELSE /\ reads' = [reads EXCEPT ![w] = @ + 1]
                  /\ UNCHANGED <<lease, pc, run, loaded, fetched>>
       \/ Advance(w, "freeze", loaded[w], UnknownObservation)
    /\ UNCHANGED <<journal, receiverVars, sent, acked>>

\* freeze_observation: classify once and record facts, generation and result.
Frozen(row, obs) ==
    LET operation == row.grant.operation
        image     == row.grant.image
        outcome   == ClassificationOutcome(row)
    IN [row EXCEPT !.state = "receiver_observed",
                   !.observation = obs,
                   !.generation = RequestedGeneration(obs, operation, image, outcome),
                   !.result = ObservationResult(obs, operation, image, outcome)]

FreezeObservation(w) ==
    /\ pc[w] = "freeze"
    /\ Replace(w, Frozen(loaded[w], fetched[w]), "reconcile")
    /\ UNCHANGED <<receiverVars, sent, acked>>

\* build_receipt signs the frozen statement of the row.
Finalized(row, key) ==
    [row EXCEPT !.state = "finalized",
                !.receipt = [statement |-> Statement(row), key |-> key]]

\* finalize_locked_operation_receipt_once, ending in commit_receipt.
FinalizeReceipt(w) ==
    /\ pc[w] = "sign"
    /\ Replace(w, Finalized(loaded[w], run[w].signing), "reconcile")
    /\ UNCHANGED <<receiverVars, sent, acked>>

\* The process dies, or any error above is returned early.
Crash(w) ==
    /\ pc[w] # "idle"
    /\ Stop(w)
    /\ UNCHANGED <<journal, receiverVars, sent, acked>>

-----------------------------------------------------------------------------
(* The receiver: the API server, the Deployment controller and others who  *)
(* write the Deployment.                                                   *)

\* A patch reaches the API server, now or long after its sender gave up.  The
\* uid and resourceVersion it names must still be current.  An image that is
\* already set leaves the generation alone.  The reply reaches a sender that
\* still waits.
PatchArrives(p) ==
    LET d == deployment
        patched == [d EXCEPT !.version = @ + 1, !.marker = p.operation, !.image = p.image,
                             !.generation = IF d.image = p.image THEN @ ELSE @ + 1]
    IN
    /\ p \in inflight
    /\ inflight' = inflight \ {p}
    /\ \/ /\ d.present /\ d.uid = p.target.uid /\ d.version = p.target.version
          /\ deployment' = patched
          /\ landed' = [landed EXCEPT ![p.operation] =
                            [target |-> [uid |-> d.uid, version |-> d.version],
                             image |-> p.image]]
          /\ fetched' = [w \in Workers |->
                            IF pc[w] = "awaiting" /\ Op(w) = p.operation
                            THEN [version |-> patched.version,
                                  generation |-> patched.generation]
                            ELSE fetched[w]]
       \/ UNCHANGED <<deployment, landed, fetched>>    \* conflict, or lost on the way
    /\ UNCHANGED <<journal, lease, pc, run, loaded, reads, reports, sent, acked>>

\* What a controller status says about the spec it was computed for.
Verdict(status) ==
    IF "deadline_exceeded" \in status.conditions THEN "failed"
    ELSE IF /\ status.updated = DesiredReplicas /\ status.available = DesiredReplicas
            /\ status.unavailable = 0 /\ "available" \in status.conditions
         THEN "succeeded" ELSE "unknown"

\* The controller publishes a status for the current generation.
ControllerReports(status) ==
    LET d == deployment IN
    /\ d.present /\ d.version < MaxVersion
    /\ deployment' = [d EXCEPT !.version = @ + 1, !.observed = d.generation,
                               !.status = status]
    /\ reports' = reports \cup {[uid |-> d.uid, generation |-> d.generation,
                                 image |-> d.image, verdict |-> Verdict(status)]}
    /\ UNCHANGED <<journal, workerVars, inflight, landed, sent, acked>>

\* Somebody else changes the image or drops the container, keeping or removing
\* the annotation.  Nobody else writes an operation annotation of this gateway.
OthersEdit(image, marker) ==
    LET d == deployment IN
    /\ d.present /\ d.version < MaxVersion
    /\ image # d.image /\ marker \in {d.marker, None}
    /\ deployment' = [d EXCEPT !.version = @ + 1, !.generation = @ + 1,
                               !.image = image, !.marker = marker]
    /\ UNCHANGED <<journal, workerVars, inflight, landed, reports, sent, acked>>

\* The Deployment is deleted, or created again under a new uid.
OthersReplace ==
    LET d == deployment IN
    /\ d.version < MaxVersion
    /\ \/ d.present /\ deployment' = [d EXCEPT !.present = FALSE]
       \/ /\ ~d.present /\ d.uid < MaxUid
          /\ \E image \in Images :
                deployment' = [d EXCEPT !.present = TRUE, !.uid = @ + 1,
                                        !.version = @ + 1, !.generation = 1,
                                        !.image = image, !.marker = None,
                                        !.observed = None, !.status = None]
    /\ UNCHANGED <<journal, workerVars, inflight, landed, reports, sent, acked>>

-----------------------------------------------------------------------------
Init ==
    /\ journal = [o \in Operations |-> NoRow]
    /\ lease = None
    /\ pc = [w \in Workers |-> "idle"]
    /\ run = [w \in Workers |-> None]
    /\ loaded = [w \in Workers |-> NoRow]
    /\ fetched = [w \in Workers |-> None]
    /\ reads = [w \in Workers |-> 0]
    /\ \E image \in Images :
          deployment = [present |-> TRUE, uid |-> 1, version |-> 1, generation |-> 1,
                        image |-> image, marker |-> None,
                        observed |-> None, status |-> None]
    /\ inflight = {}
    /\ sent = [o \in Operations |-> 0]
    /\ landed = [o \in Operations |-> None]
    /\ reports = {}
    /\ acked = [o \in Operations |-> None]

\* One step of a run that was begun.
Step(w) ==
    \/ TryLockWorker(w) \/ Admit(w) \/ Reconcile(w) \/ MarkAuthorized(w)
    \/ PreflightTarget(w) \/ MarkNotAttempted(w) \/ BeginAttempt(w) \/ Apply(w)
    \/ ApplyReturned(w) \/ RecordApplyOutcome(w) \/ ObserveReceiver(w)
    \/ FreezeObservation(w) \/ FinalizeReceipt(w)

Receiver ==
    \/ \E p \in inflight : PatchArrives(p)
    \/ \E status \in Statuses : ControllerReports(status)
    \/ \E image \in Images \cup {None}, marker \in Operations \cup {None} :
          OthersEdit(image, marker)
    \/ OthersReplace

Next ==
    \/ \E w \in Workers :
          \/ \E grant \in Grants, adapter \in BOOLEAN, signing \in Keys \cup {None} :
                Begin(w, grant, adapter, signing)
          \/ Step(w)
          \/ Crash(w)
    \/ Receiver

Spec == Init /\ [][Next]_vars

-----------------------------------------------------------------------------
(* Properties.                                                             *)

RunLabels ==
    {"idle", "lock", "admit", "reconcile", "authorize", "preflight", "reject",
     "attempt", "send", "awaiting", "respond", "observe", "freeze", "sign"}

Deployments ==
    [present : BOOLEAN, uid : Nat, version : Nat, generation : Nat,
     image : Images \cup {None}, marker : Operations \cup {None},
     observed : Nat \cup {None}, status : Statuses \cup {None}]

Rows ==
    [state : OperationStates, grant : Grants \cup {None},
     preflight : Targets \cup {None}, target : Targets \cup {None},
     response : OptionalNat, generation : OptionalNat,
     observation : Observations \cup {None}, result : OperationResults \cup {None},
     rejection : TargetRejections \cup {None},
     receipt : Receipts \cup {None}]

Runs == [grant : Grants, adapter : BOOLEAN, signing : Keys \cup {None}]

Answers == Targets \cup Responses \cup Observations \cup [rejection : TargetRejections]

\* The shape of every variable.
TypeOK ==
    /\ journal \in [Operations -> Rows]
    /\ lease \in Workers \cup {None}
    /\ pc \in [Workers -> RunLabels]
    /\ run \in [Workers -> Runs \cup {None}]
    /\ loaded \in [Workers -> Rows]
    /\ fetched \in [Workers -> Answers \cup {None}]
    /\ reads \in [Workers -> 0 .. ObservationAttempts - 1]
    /\ deployment \in Deployments
    /\ inflight \subseteq [operation : Operations, image : Images, target : Targets]
    /\ sent \in [Operations -> Nat]
    /\ landed \in [Operations -> Landings \cup {None}]
    /\ reports \subseteq [uid : Nat, generation : Nat, image : Images \cup {None},
                          verdict : OperationResults]
    /\ acked \in [Operations -> [grant : Grants, state : OperationStates] \cup {None}]

\* One approval causes at most one mutation request, across crashes, lost
\* acknowledgements, retries and competing processes (run_locked_operation_once
\* recovers an attempted row by observation only).
AtMostOneSend == \A o \in Operations : sent[o] <= 1

\* A mutation request is only ever sent after its attempt is durable, and an
\* operation recorded as not attempted never sent one (begin_attempt hands out
\* the permission only after the commit is confirmed).
SentOnlyAfterDurableAttempt ==
    \A o \in Operations : sent[o] > 0 => journal[o].state \in AttemptedStates

\* If the receiver changed for an operation, it changed the exact object version
\* that its retained grant approved, to the image that grant names.
PatchLandsOnApprovedVersion ==
    \A o \in Operations : landed[o] # None =>
        /\ journal[o].state \in AttemptedStates
        /\ landed[o].target = journal[o].grant.approved
        /\ landed[o].image = journal[o].grant.image

\* A recorded result other than unknown is true of the receiver: the operation's
\* own patch landed, and the controller published that verdict for a generation
\* of the same object that carried the approved image.  A status computed for an
\* older generation is never taken for the requested one.
ResultIsTrue ==
    \A o \in Operations : journal[o].result \in {"succeeded", "failed"} =>
        /\ landed[o] # None
        /\ [uid |-> journal[o].target.uid, generation |-> journal[o].generation,
            image |-> journal[o].grant.image, verdict |-> journal[o].result] \in reports

\* What a caller was told is admitted stays true: the row is retained under the
\* grant of that run and is at least as far along as the phase it was told.
AcknowledgedIsDurable ==
    \A o \in Operations : acked[o] # None =>
        /\ journal[o].grant = acked[o].grant
        /\ Rank(acked[o].state) <= Rank(journal[o].state)

HeldLabels == RunLabels \ {"idle", "lock"}

\* A run that may write holds the lease, and the row it loaded is still the row
\* in the journal: no other process can have changed it since (try_lock_worker).
LeaseProtectsLoadedRow ==
    \A w \in Workers :
        /\ pc[w] \in HeldLabels <=> lease = w
        /\ pc[w] \in HeldLabels \ {"admit"} => journal[Op(w)] = loaded[w]

\* Every row the gateway writes is one its own reader accepts: each phase has
\* exactly its facts, an attempt names the approved version, and a receipt signs
\* exactly the statement frozen with the observation.  No step, however it was
\* interrupted, leaves an operation that can neither resume nor be read.
EveryRowDecodes ==
    \A o \in Operations :
        journal[o] # NoRow => Decodes(journal[o]) /\ journal[o].grant.operation = o

\* Every column but the phase is written once: neither a retry nor a later
\* observation, grant or signer changes a recorded fact.
FactsAreWrittenOnce ==
    [][\A o \in Operations : \A column \in DOMAIN NoRow \ {"state"} :
          journal[o][column] # None => journal'[o][column] = journal[o][column]]_vars

\* Terminal rows are read-only and phases only advance.
PhasesAdvance ==
    [][\A o \in Operations :
          /\ journal[o].state \in TerminalStates => journal'[o] = journal[o]
          /\ Rank(journal[o].state) <= Rank(journal'[o].state)]_vars

\* The abstract lifecycle: a run at "send" is the one that holds permission.
HasPermit(o) == \E w \in Workers : pc[w] = "send" /\ Op(w) = o

Abstract ==
    INSTANCE Lifecycle WITH
        phase  <- [o \in Operations |-> journal[o].state],
        permit <- [o \in Operations |-> HasPermit(o)],
        sends  <- sent

\* The Kubernetes effect keeps every promise of the effect lifecycle.
ImplementsLifecycle == Abstract!Spec

\* Fairness.  A run keeps taking steps: every storage and receiver call returns,
\* with an error at the latest when its timeout expires.
RunsAreScheduled == \A w \in Workers : WF_vars(Step(w))

\* Callers resume unfinished work with receiver and signing material installed,
\* and such a run does not fail at the same step every time.  Nothing is assumed
\* of the send and its response, which happen once.
Resume(w) ==
    \E grant \in Grants, key \in Keys :
        /\ journal[grant.operation].state \in UnfinishedStates
        /\ Begin(w, grant, TRUE, key)

RetriedLabels == RunLabels \ {"idle", "send", "awaiting", "respond"}

Succeed(w, label) ==
    /\ pc[w] = label
    /\ journal[run[w].grant.operation].state # "absent"
    /\ run[w].adapter /\ run[w].signing # None
    /\ Step(w)
    /\ pc'[w] # "idle"

FairSpec ==
    /\ Spec
    /\ RunsAreScheduled
    /\ \A w \in Workers :
          /\ SF_vars(Resume(w))
          /\ \A label \in RetriedLabels : SF_vars(Succeed(w, label))

\* Admitted work reaches a terminal phase if callers keep resuming it.
AdmittedWorkFinishes ==
    \A o \in Operations :
        journal[o].state # "absent" ~> journal[o].state \in TerminalStates
=============================================================================
