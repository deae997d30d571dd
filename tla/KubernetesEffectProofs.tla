---------------------- MODULE KubernetesEffectProofs ------------------------
(***************************************************************************)
(* Theorems about KubernetesEffect for any number of operations, workers,  *)
(* grants and Deployment versions: the inductive invariant and the lemmas  *)
(* about rows, runs and conditional replacements it rests on, that every   *)
(* action preserves it, what a step may do to the journal, that every step *)
(* is a step of the abstract Lifecycle or leaves it unchanged, that what   *)
(* callers were told and what receipts state is true, and that the         *)
(* abstract Lifecycle keeps its own promise for any set of operations.     *)
(***************************************************************************)
EXTENDS KubernetesEffect, TLAPS

-----------------------------------------------------------------------------
(* The inductive invariant.                                                *)

WriterLabels == HeldLabels \ {"admit"}

\* The phase of the loaded row at each label that follows the choice of a step.
PhaseAt(label) ==
    CASE label = "authorize" -> "requested"
      [] label \in {"preflight", "reject", "attempt"} -> "authorized"
      [] label \in {"send", "awaiting", "respond", "observe", "freeze"} -> "apply_started"
      [] OTHER -> "receiver_observed"

\* What the receiver answered before each label.
AnswerFits(label, answer) ==
    /\ label = "reject" => answer \in [rejection : TargetRejections \ {"stale_approval"}]
    /\ label = "attempt" => answer \in Targets
    /\ label = "awaiting" => answer \in Responses \cup {None}
    /\ label = "respond" => answer \in Responses
    /\ label = "freeze" => answer \in Observations

\* What a run holds at its label.
RunFits(w) ==
    /\ pc[w] # "idle" => run[w] \in Runs
    /\ pc[w] \in HeldLabels <=> lease = w
    /\ pc[w] \in WriterLabels => /\ journal[Op(w)] = loaded[w]
                                 /\ loaded[w].grant = run[w].grant
                                 /\ loaded[w].state # "absent"
    /\ pc[w] \in WriterLabels \ {"reconcile"} => loaded[w].state = PhaseAt(pc[w])
    /\ pc[w] \in {"send", "awaiting", "respond"} => loaded[w].response = None
    /\ pc[w] = "send" => sent[Op(w)] = 0
    /\ AnswerFits(pc[w], fetched[w])
    /\ pc[w] = "sign" => run[w].signing \in Keys

\* A patch on the network carries the approval of an attempted operation.
InflightIsApproved ==
    \A p \in inflight :
        /\ journal[p.operation].state \in AttemptedStates
        /\ p.target = journal[p.operation].grant.approved
        /\ p.image = journal[p.operation].grant.image

\* The part of TypeOK about runs.
RunTypes ==
    /\ lease \in Workers \cup {None}
    /\ pc \in [Workers -> RunLabels]
    /\ run \in [Workers -> Runs \cup {None}]
    /\ loaded \in [Workers -> Rows]
    /\ fetched \in [Workers -> Answers \cup {None}]
    /\ reads \in [Workers -> 0 .. ObservationAttempts - 1]

IInv ==
    /\ TypeOK
    /\ EveryRowDecodes
    /\ \A w \in Workers : RunFits(w)
    /\ AtMostOneSend
    /\ SentOnlyAfterDurableAttempt
    /\ InflightIsApproved
    /\ PatchLandsOnApprovedVersion

-----------------------------------------------------------------------------
(* Rows: what each write makes of the row it replaces.                     *)

\* None is no member of the sets the columns range over.
LEMMA NoneFacts ==
    /\ None \notin Nat /\ None \notin Images /\ None \notin Operations
    /\ None \notin Workers /\ None \notin Grants /\ None \notin Keys /\ None \notin Targets
    /\ \A rejection \in TargetRejections : rejection # None
    /\ \A result \in OperationResults : result # None
    /\ None \notin Observations /\ None \notin Responses /\ None \notin Receipts
BY Zenon, NoneAssumption

\* A grant names an operation, an image and an approved version.
LEMMA GrantFacts ==
    ASSUME NEW grant \in Grants
    PROVE  grant.operation \in Operations /\ grant.image \in Images
      /\ grant.approved \in Targets
BY GrantsAssumption

\* The row that insert_requested adds decodes.
LEMMA RequestedRow ==
    ASSUME NEW grant \in Grants
    PROVE  /\ Requested(grant) \in Rows /\ Decodes(Requested(grant))
           /\ Requested(grant).state = "requested" /\ Requested(grant).grant = grant
BY Zenon, NoneFacts DEF Requested, NoRow, Rows, Decodes, OperationStates, AttemptedStates,
    FrozenStates, OptionalNat, TargetRejections

\* An identity without a row is of the type of a row.
LEMMA NoRowType == NoRow \in Rows /\ NoRow.state = "absent"
BY DEF NoRow, Rows, OperationStates, OptionalNat

-----------------------------------------------------------------------------
(* Receiver facts.                                                         *)

\* Every read of the Deployment gives an observation.
LEMMA ObservationType ==
    /\ UnknownObservation \in Observations
    /\ \A d \in Deployments : Observe(d) \in Observations
<1>1. UnknownObservation \in Observations
  BY Zenon DEF UnknownObservation, Observations, OptionalNat
<1>2. ASSUME NEW d \in Deployments PROVE Observe(d) \in Observations
  <2>1. /\ StatusField(d, "updated") \in OptionalNat
        /\ StatusField(d, "available") \in OptionalNat
        /\ StatusField(d, "unavailable") \in OptionalNat
    BY StatusesAssumption DEF StatusField, Deployments, OptionalNat
  <2>2. (IF d.status = None THEN None ELSE RolloutCondition(d.status.conditions))
           \in Conditions \cup {None}
    BY DEF RolloutCondition, Conditions
  <2>3. DesiredReplicas \in OptionalNat
    BY Zenon, BoundsAssumption DEF OptionalNat
  <2> QED
    BY <2>1, <2>2, <2>3 DEF Observe, Observations, Deployments, OptionalNat
<1> QED
  BY <1>1, <1>2

\* Classification gives a result and, where it can, a generation.
LEMMA ClassificationType ==
    ASSUME NEW obs \in Observations, NEW operation, NEW image, NEW row \in Rows
    PROVE  /\ ObservationResult(obs, operation, image, ClassificationOutcome(row))
                 \in OperationResults
           /\ RequestedGeneration(obs, operation, image, ClassificationOutcome(row))
                 \in OptionalNat
<1>1. ClassificationOutcome(row).generation \in OptionalNat
  BY Zenon DEF ClassificationOutcome, Rows, OptionalNat
<1> QED
  BY <1>1 DEF ObservationResult, RequestedGeneration, OperationResults, Observations,
      OptionalNat

-----------------------------------------------------------------------------
(* What each write makes of the row it replaces.                           *)

\* mark_authorized
LEMMA AuthorizedRow ==
    ASSUME NEW row \in Rows, Decodes(row), row.state = "requested"
    PROVE  /\ Authorized(row) \in Rows /\ Decodes(Authorized(row))
           /\ Authorized(row).state = "authorized" /\ Authorized(row).grant = row.grant
BY NoneFacts DEF Authorized, Rows, Decodes, OperationStates, AttemptedStates, FrozenStates

\* mark_not_attempted
LEMMA RejectedRow ==
    ASSUME NEW row \in Rows, Decodes(row), row.state = "authorized",
           NEW rejection \in TargetRejections \ {"stale_approval"}
    PROVE  /\ Rejected(row, rejection) \in Rows /\ Decodes(Rejected(row, rejection))
           /\ Rejected(row, rejection).state = "not_attempted"
           /\ Rejected(row, rejection).grant = row.grant
BY Zenon, NoneFacts DEF Rejected, Rows, Decodes, OperationStates, AttemptedStates, FrozenStates,
                 TargetRejections

\* mark_stale_approval
LEMMA StaleRow ==
    ASSUME NEW row \in Rows, Decodes(row), row.state = "authorized",
           NEW found \in Targets, found # row.grant.approved
    PROVE  /\ StaleApproval(row, found) \in Rows /\ Decodes(StaleApproval(row, found))
           /\ StaleApproval(row, found).state = "not_attempted"
           /\ StaleApproval(row, found).grant = row.grant
BY Zenon, NoneFacts DEF StaleApproval, Rows, Decodes, OperationStates, AttemptedStates,
    FrozenStates,
                 TargetRejections

\* mark_apply_started
LEMMA AttemptRow ==
    ASSUME NEW row \in Rows, Decodes(row), row.state = "authorized",
           NEW target \in Targets, target = row.grant.approved
    PROVE  /\ ApplyStarted(row, target) \in Rows /\ Decodes(ApplyStarted(row, target))
           /\ ApplyStarted(row, target).state = "apply_started"
           /\ ApplyStarted(row, target).grant = row.grant
           /\ ApplyStarted(row, target).response = None
BY Zenon, NoneFacts DEF ApplyStarted, Rows, Decodes, OperationStates, AttemptedStates,
    FrozenStates,
                 TargetRejections

\* record_apply_outcome
LEMMA RespondedRow ==
    ASSUME NEW row \in Rows, Decodes(row), row.state = "apply_started",
           NEW response \in Responses
    PROVE  /\ Responded(row, response) \in Rows /\ Decodes(Responded(row, response))
           /\ Responded(row, response).state = "apply_started"
           /\ Responded(row, response).grant = row.grant
BY Zenon, NoneFacts DEF Responded, Rows, Decodes, OperationStates, AttemptedStates,
    FrozenStates,
                 Responses, OptionalNat

\* freeze_observation
LEMMA FrozenRow ==
    ASSUME NEW row \in Rows, Decodes(row), row.state = "apply_started",
           NEW obs \in Observations
    PROVE  /\ Frozen(row, obs) \in Rows /\ Decodes(Frozen(row, obs))
           /\ Frozen(row, obs).state = "receiver_observed" /\ Frozen(row, obs).grant = row.grant
<1> DEFINE generation == RequestedGeneration(obs, row.grant.operation, row.grant.image,
                                             ClassificationOutcome(row))
           result == ObservationResult(obs, row.grant.operation, row.grant.image,
                                       ClassificationOutcome(row))
<1>1. generation \in OptionalNat /\ result \in OperationResults
  BY ClassificationType
<1>2. Frozen(row, obs) = [row EXCEPT !.state = "receiver_observed", !.observation = obs,
                                     !.generation = generation, !.result = result]
  BY DEF Frozen
<1> HIDE DEF generation, result
<1>3. Frozen(row, obs) \in Rows
  BY Zenon, <1>1, <1>2 DEF Rows, OperationStates
<1>4. /\ Frozen(row, obs).state = "receiver_observed" /\ Frozen(row, obs).grant = row.grant
      /\ Frozen(row, obs).observation = obs /\ Frozen(row, obs).result = result
      /\ Frozen(row, obs).target = row.target /\ Frozen(row, obs).preflight = row.preflight
      /\ Frozen(row, obs).rejection = row.rejection /\ Frozen(row, obs).receipt = row.receipt
  BY <1>2 DEF Rows
<1> QED
  BY Zenon, <1>1, <1>3, <1>4, NoneFacts DEF Decodes, AttemptedStates, FrozenStates

\* commit_receipt
LEMMA FinalizedRow ==
    ASSUME NEW row \in Rows, Decodes(row), row.state = "receiver_observed",
           NEW key \in Keys
    PROVE  /\ Finalized(row, key) \in Rows /\ Decodes(Finalized(row, key))
           /\ Finalized(row, key).state = "finalized" /\ Finalized(row, key).grant = row.grant
<1>1. Statement(row) \in Statements
  BY NoneFacts DEF Rows, Decodes, Statement, Statements, AttemptedStates, FrozenStates
<1>2. [statement |-> Statement(row), key |-> key] \in Receipts
  BY <1>1 DEF Receipts
<1>3. Statement(Finalized(row, key)) = Statement(row)
  BY Zenon DEF Statement, Finalized, Rows
<1> QED
  BY Zenon, <1>2, <1>3, NoneFacts DEF Finalized, Rows, Decodes, OperationStates,
      AttemptedStates, FrozenStates

-----------------------------------------------------------------------------
(* Runs.                                                                   *)

\* A run under way is over a known grant and identity.
LEMMA RunType ==
    ASSUME IInv, NEW w \in Workers, pc[w] # "idle"
    PROVE  /\ run[w] \in Runs /\ run[w].grant \in Grants /\ Op(w) \in Operations
           /\ run[w].grant.image \in Images
BY Zenon, GrantFacts DEF IInv, RunFits, Runs, Op

\* While w holds the lease, no other run is past the lock, so nothing w does
\* disturbs another run.
LEMMA OthersFit ==
    ASSUME IInv, NEW w \in Workers, NEW v \in Workers \ {w},
           pc[w] \in HeldLabels, lease' \in {w, None},
           pc'[v] = pc[v], run'[v] = run[v]
    PROVE  RunFits(v)'
<1>1. lease = w /\ pc[v] \notin HeldLabels
  BY Zenon DEF IInv, RunFits
<1>2. lease' # v
  BY Zenon, NoneFacts
<1>3. pc[v] \in {"idle", "lock"}
  BY Zenon, <1>1 DEF HeldLabels, IInv, TypeOK
<1>4. pc[v] # "idle" => run[v] \in Runs
  BY Zenon DEF IInv, RunFits
<1> QED
  BY Zenon, <1>2, <1>3, <1>4 DEF RunFits, AnswerFits, HeldLabels, WriterLabels, RunLabels

\* A run that stops fits, and leaves the others fitting.
LEMMA StopFits ==
    ASSUME IInv, NEW w \in Workers, pc[w] # "idle", Stop(w), UNCHANGED sent,
           pc[w] \in HeldLabels \/ UNCHANGED journal
    PROVE  \A v \in Workers : RunFits(v)'
<1> SUFFICES ASSUME NEW v \in Workers PROVE RunFits(v)'
  BY Zenon
<1>1. CASE v = w
  <2>1. pc'[w] = "idle" /\ lease' # w
    BY NoneFacts DEF Stop, IInv, TypeOK
  <2> QED
    BY Zenon, <1>1, <2>1 DEF RunFits, AnswerFits, HeldLabels, WriterLabels, RunLabels
<1>2. CASE v # w
  <2>1. /\ pc'[v] = pc[v] /\ run'[v] = run[v] /\ loaded'[v] = loaded[v]
        /\ fetched'[v] = fetched[v]
    BY Zenon, <1>2 DEF Stop, IInv, TypeOK
  <2>2. CASE pc[w] \in HeldLabels
    <3>1. lease' \in {w, None}
      BY Zenon, <2>2 DEF Stop, IInv, RunFits
    <3> QED BY Zenon, <3>1, <1>2, <2>1, <2>2, OthersFit
  <2>3. CASE pc[w] \notin HeldLabels
    <3>1. lease' = lease /\ journal' = journal
      BY <2>3 DEF Stop, IInv, RunFits
    <3> QED BY Zenon, <3>1, <2>1 DEF IInv, RunFits, Op
  <2> QED BY Zenon, <2>2, <2>3
<1> QED BY Zenon, <1>1, <1>2

\* A run that advances under the lease fits at its new label.
LEMMA AdvanceFits ==
    ASSUME IInv, NEW w \in Workers, pc[w] \in HeldLabels,
           NEW label \in WriterLabels, NEW row, NEW answer, Advance(w, label, row, answer),
           row = journal'[Op(w)], row.grant = run[w].grant, row.state # "absent",
           label # "reconcile" => row.state = PhaseAt(label),
           label \in {"send", "awaiting", "respond"} => row.response = None,
           label = "send" => sent'[Op(w)] = 0,
           label = "sign" => run[w].signing \in Keys,
           AnswerFits(label, answer)
    PROVE  \A v \in Workers : RunFits(v)'
<1> SUFFICES ASSUME NEW v \in Workers PROVE RunFits(v)'
  BY Zenon
<1>0. lease = w /\ lease' = w
  BY Zenon DEF Advance, IInv, RunFits
<1>1. CASE v = w
  <2>1. /\ pc'[w] = label /\ run' = run /\ loaded'[w] = row /\ fetched'[w] = answer
    BY Zenon DEF Advance, IInv, TypeOK
  <2>2. run[w] \in Runs
    BY Zenon, RunType DEF HeldLabels
  <2>3. label \in HeldLabels
    BY Zenon DEF WriterLabels
  <2> QED
    BY Zenon, <1>0, <1>1, <2>1, <2>2, <2>3 DEF RunFits, Op
<1>2. CASE v # w
  BY Zenon, <1>0, <1>2, OthersFit DEF Advance, IInv, TypeOK
<1> QED BY Zenon, <1>1, <1>2

\* Run variables keep their types.
LEMMA StopTypes ==
    ASSUME IInv, NEW w \in Workers, Stop(w)
    PROVE  RunTypes'
BY SMTT(30), NoRowType, BoundsAssumption DEF IInv, TypeOK, Stop, RunTypes, RunLabels

\* Moving a run to another label with another row keeps the runs well typed.
LEMMA AdvanceTypes ==
    ASSUME IInv, NEW w \in Workers, NEW label \in RunLabels, NEW row \in Rows,
           NEW answer \in Answers \cup {None}, Advance(w, label, row, answer)
    PROVE  RunTypes'
BY Zenon DEF IInv, TypeOK, Advance, RunTypes

\* A step that touches only runs and acknowledgements.
LEMMA RunsOnly ==
    ASSUME IInv, RunTypes', \A v \in Workers : RunFits(v)',
           UNCHANGED <<journal, receiverVars, sent>>,
           acked' \in [Operations -> [grant : Grants, state : OperationStates] \cup {None}]
    PROVE  IInv'
BY Zenon DEF IInv, RunTypes, TypeOK, EveryRowDecodes, AtMostOneSend,
    SentOnlyAfterDurableAttempt,
       InflightIsApproved, PatchLandsOnApprovedVersion, receiverVars

\* A committed row that keeps its grant, and stays attempted if it was.
LEMMA CommitKeeps ==
    ASSUME IInv, NEW w \in Workers, pc[w] # "idle", NEW next \in Rows,
           journal' = [journal EXCEPT ![Op(w)] = next],
           Decodes(next), next.grant = run[w].grant,
           journal[Op(w)].state # "absent" => journal[Op(w)].grant = next.grant,
           journal[Op(w)].state \in AttemptedStates => next.state \in AttemptedStates,
           UNCHANGED <<receiverVars, sent>>
    PROVE  /\ journal' \in [Operations -> Rows]
           /\ EveryRowDecodes' /\ AtMostOneSend' /\ SentOnlyAfterDurableAttempt'
           /\ InflightIsApproved' /\ PatchLandsOnApprovedVersion'
<1>1. Op(w) \in Operations /\ next.grant.operation = Op(w)
  BY RunType DEF Op
<1>2. journal' \in [Operations -> Rows]
  BY Zenon DEF IInv, TypeOK
<1>3. /\ journal'[Op(w)] = next
      /\ \A o \in Operations \ {Op(w)} : journal'[o] = journal[o]
  BY Zenon, <1>1 DEF IInv, TypeOK
<1>4. \A o \in Operations : journal[o].state \in AttemptedStates =>
          journal'[o].state \in AttemptedStates /\ journal'[o].grant = journal[o].grant
  BY Zenon, <1>3 DEF AttemptedStates
<1>5. EveryRowDecodes'
  BY <1>1, <1>3 DEF IInv, EveryRowDecodes
<1>6. AtMostOneSend' /\ SentOnlyAfterDurableAttempt'
  BY Zenon, <1>4 DEF IInv, AtMostOneSend, SentOnlyAfterDurableAttempt
<1>7. InflightIsApproved'
  BY ZenonT(30), <1>4 DEF IInv, InflightIsApproved, TypeOK, receiverVars
<1>8. PatchLandsOnApprovedVersion'
  BY Zenon, <1>4 DEF IInv, PatchLandsOnApprovedVersion, receiverVars
<1> QED
  BY Zenon, <1>2, <1>5, <1>6, <1>7, <1>8

\* The three outcomes of a conditional replacement preserve the invariant when
\* the new row decodes and fits the label that a confirmed commit leads to.
LEMMA ReplaceKeeps ==
    ASSUME IInv, NEW w \in Workers, pc[w] \in WriterLabels,
           NEW next \in Rows, Decodes(next), next.state # "absent",
           next.grant = loaded[w].grant,
           loaded[w].state \in AttemptedStates => next.state \in AttemptedStates,
           NEW label \in {"reconcile", "send", "observe"},
           label # "reconcile" => next.state = "apply_started",
           label = "send" => next.response = None /\ sent[Op(w)] = 0,
           Replace(w, next, label), UNCHANGED <<receiverVars, sent, acked>>
    PROVE  IInv'
<1>0. /\ pc[w] \in HeldLabels /\ pc[w] # "idle" /\ label \in WriterLabels /\ label \in RunLabels
      /\ journal[Op(w)] = loaded[w] /\ loaded[w].grant = run[w].grant
      /\ Op(w) \in Operations
  BY RunType DEF WriterLabels, HeldLabels, RunLabels, IInv, RunFits
<1>1. CASE UNCHANGED journal /\ Stop(w)
  BY ZenonT(30), <1>0, <1>1, StopFits, StopTypes, RunsOnly DEF IInv, TypeOK
<1>2. CASE journal' = [journal EXCEPT ![Op(w)] = next] /\ Stop(w)
  <2>1. \A v \in Workers : RunFits(v)'
    BY Zenon, <1>0, <1>2, StopFits
  <2>2. RunTypes'
    BY <1>2, StopTypes
  <2>3. /\ journal' \in [Operations -> Rows]
        /\ EveryRowDecodes' /\ AtMostOneSend' /\ SentOnlyAfterDurableAttempt'
        /\ InflightIsApproved' /\ PatchLandsOnApprovedVersion'
    BY Zenon, <1>0, <1>2, CommitKeeps
  <2> QED
    BY Zenon, <2>1, <2>2, <2>3 DEF IInv, TypeOK, RunTypes, receiverVars
<1>3. CASE journal' = [journal EXCEPT ![Op(w)] = next] /\ Advance(w, label, next, None)
  <2>0. journal'[Op(w)] = next
    BY Zenon, <1>0, <1>3 DEF IInv, TypeOK
  <2>1. \A v \in Workers : RunFits(v)'
    BY Zenon, <1>0, <1>3, <2>0, AdvanceFits DEF AnswerFits, PhaseAt
  <2>2. RunTypes'
    BY <1>0, <1>3, AdvanceTypes
  <2>3. /\ journal' \in [Operations -> Rows]
        /\ EveryRowDecodes' /\ AtMostOneSend' /\ SentOnlyAfterDurableAttempt'
        /\ InflightIsApproved' /\ PatchLandsOnApprovedVersion'
    BY Zenon, <1>0, <1>3, CommitKeeps
  <2> QED
    BY Zenon, <2>1, <2>2, <2>3 DEF IInv, TypeOK, RunTypes, receiverVars
<1> QED
  BY Zenon, <1>1, <1>2, <1>3 DEF Replace

\* Where a run stands, with what it loaded.
LEMMA WriterFacts ==
    ASSUME IInv, NEW w \in Workers, pc[w] \in WriterLabels
    PROVE  /\ loaded[w] \in Rows /\ Decodes(loaded[w]) /\ Op(w) \in Operations
           /\ journal[Op(w)] = loaded[w] /\ loaded[w].grant = run[w].grant
           /\ pc[w] # "reconcile" => loaded[w].state = PhaseAt(pc[w])
           /\ pc[w] \in HeldLabels /\ pc[w] # "idle"
           /\ run[w].grant \in Grants
<1>1. /\ pc[w] \in HeldLabels /\ pc[w] # "idle"
  BY Zenon DEF WriterLabels, HeldLabels
<1>2. /\ journal[Op(w)] = loaded[w] /\ loaded[w].grant = run[w].grant
      /\ loaded[w].state # "absent"
      /\ pc[w] # "reconcile" => loaded[w].state = PhaseAt(pc[w])
  BY Zenon DEF IInv, RunFits
<1>3. Op(w) \in Operations /\ run[w].grant \in Grants
  BY Zenon, <1>1, RunType
<1>4. loaded[w] # NoRow
  BY Zenon, <1>2, NoRowType
<1> QED
  BY Zenon, <1>1, <1>2, <1>3, <1>4 DEF IInv, EveryRowDecodes, TypeOK

-----------------------------------------------------------------------------
(* Every action preserves the invariant.                                   *)

\* Begin keeps the inductive invariant.
LEMMA BeginStep ==
    ASSUME IInv, NEW w \in Workers, NEW grant \in Grants, NEW adapter \in BOOLEAN,
           NEW signing \in Keys \cup {None}, Begin(w, grant, adapter, signing)
    PROVE  IInv'
<1>0. grant.operation \in Operations
  BY Zenon, GrantFacts
<1> DEFINE row == journal[grant.operation]
<1>1. row \in Rows /\ row.state \in OperationStates
  BY <1>0 DEF IInv, TypeOK, Rows
<1>2. CASE row.state \in TerminalStates /\ UNCHANGED workerVars
           /\ acked' = [acked EXCEPT ![grant.operation] =
                           [grant |-> grant, state |-> row.state]]
  <2>1. RunTypes'
    BY Zenon, <1>2 DEF IInv, TypeOK, RunTypes, workerVars
  <2>2. \A v \in Workers : RunFits(v)'
    BY <1>2 DEF IInv, RunFits, Op, workerVars, Begin
  <2>3. acked' \in [Operations -> [grant : Grants, state : OperationStates] \cup {None}]
    BY ZenonT(30), <1>1, <1>2 DEF IInv, TypeOK
  <2> QED
    BY Zenon, <2>1, <2>2, <2>3, RunsOnly DEF Begin
<1>3. CASE /\ pc' = [pc EXCEPT ![w] = "lock"]
           /\ run' = [run EXCEPT ![w] =
                        [grant |-> grant, adapter |-> adapter, signing |-> signing]]
           /\ loaded' = [loaded EXCEPT ![w] = row]
           /\ UNCHANGED <<lease, fetched, reads, acked>>
  <2>0. [grant |-> grant, adapter |-> adapter, signing |-> signing] \in Runs
    BY DEF Runs
  <2>1. RunTypes'
    BY Zenon, <1>1, <1>3, <2>0 DEF IInv, TypeOK, RunTypes, RunLabels
  <2>2. \A v \in Workers : RunFits(v)'
    <3> SUFFICES ASSUME NEW v \in Workers PROVE RunFits(v)'
      BY Zenon
    <3>0. pc[w] = "idle" /\ lease # w
      BY Zenon DEF Begin, IInv, RunFits, HeldLabels
    <3>1. CASE v = w
      <4>1. pc'[w] = "lock" /\ run'[w] \in Runs /\ lease' # w
        BY Zenon, <1>3, <2>0, <3>0 DEF IInv, TypeOK
      <4> QED
        BY Zenon, <3>1, <4>1 DEF RunFits, AnswerFits, HeldLabels, WriterLabels, RunLabels
    <3>2. CASE v # w
      <4>1. /\ pc'[v] = pc[v] /\ run'[v] = run[v] /\ loaded'[v] = loaded[v]
            /\ fetched' = fetched /\ lease' = lease /\ journal' = journal /\ sent' = sent
        BY <1>3, <3>2 DEF IInv, TypeOK, Begin
      <4> QED
        BY Zenon, <4>1 DEF IInv, RunFits, Op
    <3> QED BY Zenon, <3>1, <3>2
  <2> QED
    BY Zenon, <1>3, <2>1, <2>2, RunsOnly DEF Begin, IInv, TypeOK
<1> QED
  BY Zenon, <1>2, <1>3 DEF Begin

\* Acknowledging an admission keeps the record of acknowledgements well typed.
LEMMA AcknowledgeType ==
    ASSUME IInv, NEW w \in Workers, pc[w] # "idle", NEW state \in OperationStates,
           Acknowledge(w, state)
    PROVE  acked' \in [Operations -> [grant : Grants, state : OperationStates] \cup {None}]
BY ZenonT(30), RunType DEF Acknowledge, IInv, TypeOK

\* TryLockWorker keeps the inductive invariant.
LEMMA TryLockWorkerStep ==
    ASSUME IInv, NEW w \in Workers, TryLockWorker(w)
    PROVE  IInv'
<1>0. pc[w] = "lock" /\ pc[w] # "idle"
  BY Zenon DEF TryLockWorker
<1>1. CASE /\ lease = None /\ lease' = w
           /\ pc' = [pc EXCEPT ![w] = "admit"]
           /\ UNCHANGED <<run, loaded, fetched, reads, acked>>
  <2>1. RunTypes'
    BY Zenon, <1>1 DEF IInv, TypeOK, RunTypes, RunLabels
  <2>2. \A v \in Workers : RunFits(v)'
    <3> SUFFICES ASSUME NEW v \in Workers PROVE RunFits(v)'
      BY Zenon
    <3>1. CASE v = w
      <4>1. pc'[w] = "admit" /\ run'[w] \in Runs /\ lease' = w
        BY Zenon, <1>0, <1>1, RunType DEF IInv, TypeOK
      <4> QED
        BY Zenon, <3>1, <4>1 DEF RunFits, AnswerFits, HeldLabels, WriterLabels, RunLabels
    <3>2. CASE v # w
      <4>1. pc[v] \in {"idle", "lock"} /\ pc'[v] = pc[v] /\ run'[v] = run[v] /\ lease' # v
        BY <1>1, <3>2, NoneFacts DEF IInv, RunFits, TypeOK, HeldLabels
      <4> QED
        BY Zenon, <4>1 DEF IInv, RunFits, AnswerFits, HeldLabels, WriterLabels, RunLabels
    <3> QED BY Zenon, <3>1, <3>2
  <2> QED
    BY Zenon, <1>1, <2>1, <2>2, RunsOnly DEF TryLockWorker, IInv, TypeOK
<1>2. CASE /\ lease # None
           /\ IF loaded[w].state = "absent" THEN UNCHANGED acked
              ELSE Acknowledge(w, loaded[w].state)
           /\ Stop(w)
  <2>1. acked' \in [Operations -> [grant : Grants, state : OperationStates] \cup {None}]
    <3>1. loaded[w].state \in OperationStates
      BY Zenon DEF IInv, TypeOK, Rows
    <3> QED
      BY ZenonT(30), <1>0, <1>2, <3>1, AcknowledgeType DEF IInv, TypeOK
  <2>2. UNCHANGED <<journal, receiverVars, sent>>
    BY Zenon DEF TryLockWorker
  <2> QED
    BY Zenon, <1>0, <1>2, <2>1, <2>2, StopFits, StopTypes, RunsOnly
<1> QED
  BY ZenonT(30), <1>1, <1>2 DEF TryLockWorker

\* Admit keeps the inductive invariant.
LEMMA AdmitStep ==
    ASSUME IInv, NEW w \in Workers, Admit(w)
    PROVE  IInv'
<1> DEFINE row == journal[Op(w)]
<1>0. /\ pc[w] = "admit" /\ pc[w] # "idle" /\ pc[w] \in HeldLabels
      /\ UNCHANGED <<receiverVars, sent>>
      /\ run[w].grant \in Grants /\ Op(w) \in Operations
  BY RunType DEF Admit, HeldLabels, RunLabels
<1>1. row \in Rows /\ row.state \in OperationStates
  BY Zenon, <1>0 DEF IInv, TypeOK, Rows
<1>2. CASE /\ row.state # "absent" /\ Custody(w)
           /\ Acknowledge(w, row.state)
           /\ Advance(w, "reconcile", row, None)
           /\ UNCHANGED journal
  <2>1. \A v \in Workers : RunFits(v)'
    BY Zenon, <1>0, <1>2, AdvanceFits DEF AnswerFits, Custody, WriterLabels, HeldLabels,
        RunLabels
  <2>2. RunTypes'
    BY <1>1, <1>2, AdvanceTypes DEF RunLabels
  <2> QED
    BY Zenon, <1>0, <1>1, <1>2, <2>1, <2>2, AcknowledgeType, RunsOnly
<1>3. CASE Stop(w) /\ UNCHANGED <<journal, acked>>
  BY Zenon, <1>0, <1>3, StopFits, StopTypes, RunsOnly DEF IInv, TypeOK
<1>4. CASE row.state = "absent" /\ InsertRequested(w)
  <2> DEFINE new == Requested(run[w].grant)
  <2>1. /\ new \in Rows /\ Decodes(new) /\ new.state = "requested"
        /\ new.grant = run[w].grant
    BY <1>0, RequestedRow
  <2> HIDE DEF new
  <2>2. CASE journal' = [journal EXCEPT ![Op(w)] = new]
    <3>1. /\ journal' \in [Operations -> Rows]
          /\ EveryRowDecodes' /\ AtMostOneSend' /\ SentOnlyAfterDurableAttempt'
          /\ InflightIsApproved' /\ PatchLandsOnApprovedVersion'
      BY ZenonT(30), <1>0, <1>4, <2>1, <2>2, CommitKeeps DEF AttemptedStates
    <3>2. CASE Acknowledge(w, "requested") /\ Advance(w, "reconcile", new, None)
      <4>0. journal'[Op(w)] = new
        BY <1>0, <2>2 DEF IInv, TypeOK
      <4>1. \A v \in Workers : RunFits(v)'
        BY Zenon, <1>0, <2>1, <3>2, <4>0, AdvanceFits
           DEF AnswerFits, WriterLabels, HeldLabels, RunLabels
      <4>2. RunTypes'
        BY Zenon, <2>1, <3>2, AdvanceTypes DEF RunLabels
      <4>3. acked' \in [Operations -> [grant : Grants, state : OperationStates] \cup {None}]
        BY <1>0, <3>2, AcknowledgeType DEF OperationStates
      <4> QED
        BY Zenon, <1>0, <3>1, <4>1, <4>2, <4>3 DEF IInv, TypeOK, RunTypes, receiverVars
    <3>3. CASE UNCHANGED acked /\ Stop(w)
      <4>1. \A v \in Workers : RunFits(v)'
        BY Zenon, <1>0, <3>3, StopFits
      <4>2. RunTypes'
        BY Zenon, <3>3, StopTypes
      <4> QED
        BY Zenon, <1>0, <3>1, <3>3, <4>1, <4>2 DEF IInv, TypeOK, RunTypes, receiverVars
    <3> QED
      BY Zenon, <1>0, <1>3, <1>4, <2>2, <3>2, <3>3 DEF InsertRequested, new
  <2> QED
    BY Zenon, <1>3, <1>4, <2>2 DEF InsertRequested, new
<1> QED
  BY Zenon, <1>2, <1>3, <1>4 DEF Admit

\* Reconcile keeps the inductive invariant.
LEMMA ReconcileStep ==
    ASSUME IInv, NEW w \in Workers, Reconcile(w)
    PROVE  IInv'
<1> DEFINE row == journal[Op(w)]
<1>0. /\ pc[w] = "reconcile" /\ pc[w] \in WriterLabels
      /\ UNCHANGED <<journal, receiverVars, sent, acked>>
      /\ row.state # "absent" /\ row.grant = run[w].grant
  BY Zenon DEF Reconcile, Custody, WriterLabels, HeldLabels, RunLabels
<1>1. /\ row \in Rows /\ pc[w] \in HeldLabels /\ pc[w] # "idle"
  BY Zenon, <1>0, WriterFacts
<1>2. CASE Stop(w)
  BY ZenonT(30), <1>0, <1>1, <1>2, StopFits, StopTypes, RunsOnly DEF IInv, TypeOK
<1>3. CASE /\ row.state \in UnfinishedStates
           /\ row.state = "receiver_observed" => run[w].signing # None
           /\ Advance(w, NextStep(row), row, None)
  <2>1. /\ NextStep(row) \in {"authorize", "preflight", "observe", "sign"}
        /\ row.state = PhaseAt(NextStep(row))
        /\ NextStep(row) = "sign" => row.state = "receiver_observed"
    BY Zenon, <1>3 DEF NextStep, PhaseAt, UnfinishedStates
  <2>2. NextStep(row) \in WriterLabels /\ NextStep(row) \in RunLabels
    BY Zenon, <2>1 DEF WriterLabels, HeldLabels, RunLabels
  <2>3. NextStep(row) = "sign" => run[w].signing \in Keys
    BY Zenon, <1>1, <1>3, <2>1, RunType DEF Runs
  <2>4. AnswerFits(NextStep(row), None)
    BY Zenon, <2>1 DEF AnswerFits
  <2>5. \A v \in Workers : RunFits(v)'
    <3> HIDE DEF row
    <3>1. /\ NextStep(row) \notin {"send", "awaiting", "respond"}
      BY Zenon, <2>1
    <3>2. row = journal'[Op(w)]
      BY Zenon, <1>0 DEF row
    <3> QED
      BY Zenon, <1>0, <1>1, <1>3, <2>1, <2>2, <2>3, <2>4, <3>1, <3>2, AdvanceFits
  <2>6. RunTypes'
    BY Zenon, <1>1, <1>3, <2>2, AdvanceTypes
  <2> QED
    BY Zenon, <1>0, <2>5, <2>6, RunsOnly DEF IInv, TypeOK
<1> QED
  BY Zenon, <1>2, <1>3 DEF Reconcile

\* MarkAuthorized keeps the inductive invariant.
LEMMA MarkAuthorizedStep ==
    ASSUME IInv, NEW w \in Workers, MarkAuthorized(w)
    PROVE  IInv'
<1> DEFINE next == Authorized(loaded[w])
<1>1. /\ pc[w] = "authorize" /\ pc[w] \in WriterLabels
      /\ Replace(w, next, "reconcile") /\ UNCHANGED <<receiverVars, sent, acked>>
  BY Zenon DEF MarkAuthorized, WriterLabels, HeldLabels, RunLabels
<1>2. loaded[w] \in Rows /\ Decodes(loaded[w]) /\ loaded[w].state = "requested"
  BY Zenon, <1>1, WriterFacts DEF PhaseAt
<1>3. next \in Rows /\ Decodes(next) /\ next.state = "authorized"
        /\ next.grant = loaded[w].grant
  BY Zenon, <1>2, AuthorizedRow
<1> HIDE DEF next
<1> QED
  BY Zenon, <1>1, <1>2, <1>3, ReplaceKeeps DEF AttemptedStates

\* PreflightTarget keeps the inductive invariant.
LEMMA PreflightTargetStep ==
    ASSUME IInv, NEW w \in Workers, PreflightTarget(w)
    PROVE  IInv'
<1>0. /\ pc[w] = "preflight" /\ pc[w] \in WriterLabels
      /\ UNCHANGED <<journal, receiverVars, sent, acked>>
  BY Zenon DEF PreflightTarget, WriterLabels, HeldLabels, RunLabels
<1>1. /\ loaded[w] \in Rows /\ loaded[w].state = "authorized" /\ journal[Op(w)] = loaded[w]
      /\ loaded[w].grant = run[w].grant /\ pc[w] \in HeldLabels /\ pc[w] # "idle"
  BY <1>0, WriterFacts DEF PhaseAt
<1>2. CASE Stop(w)
  BY ZenonT(30), <1>0, <1>1, <1>2, StopFits, StopTypes, RunsOnly DEF IInv, TypeOK
<1>3. ASSUME NEW label \in {"reject", "attempt"}, NEW answer \in Answers,
             AnswerFits(label, answer), Advance(w, label, loaded[w], answer)
      PROVE  IInv'
  <2>1. label \in WriterLabels /\ label \in RunLabels /\ PhaseAt(label) = "authorized"
    BY DEF WriterLabels, HeldLabels, RunLabels, PhaseAt
  <2>2. \A v \in Workers : RunFits(v)'
    BY Zenon, <1>0, <1>1, <1>3, <2>1, AdvanceFits
  <2>3. RunTypes'
    BY Zenon, <1>1, <1>3, <2>1, AdvanceTypes
  <2> QED
    BY Zenon, <1>0, <2>2, <2>3, RunsOnly DEF IInv, TypeOK
<1>4. ASSUME NEW rejection \in TargetRejections \ {"stale_approval"},
             Advance(w, "reject", loaded[w], [rejection |-> rejection])
      PROVE  IInv'
  BY Zenon, <1>3, <1>4 DEF AnswerFits, Answers
<1>5. CASE Advance(w, "attempt", loaded[w],
                   [uid |-> deployment.uid, version |-> deployment.version])
  <2>1. [uid |-> deployment.uid, version |-> deployment.version] \in Targets
    BY Zenon DEF IInv, TypeOK, Deployments, Targets
  <2> QED
    BY Zenon, <1>3, <1>5, <2>1 DEF AnswerFits, Answers
<1> QED
  BY Zenon, <1>2, <1>4, <1>5 DEF PreflightTarget, TargetRejections

\* MarkNotAttempted keeps the inductive invariant.
LEMMA MarkNotAttemptedStep ==
    ASSUME IInv, NEW w \in Workers, MarkNotAttempted(w)
    PROVE  IInv'
<1> DEFINE next == Rejected(loaded[w], fetched[w].rejection)
<1>1. /\ pc[w] = "reject" /\ pc[w] \in WriterLabels
      /\ Replace(w, next, "reconcile") /\ UNCHANGED <<receiverVars, sent, acked>>
  BY Zenon DEF MarkNotAttempted, WriterLabels, HeldLabels, RunLabels
<1>2. loaded[w] \in Rows /\ Decodes(loaded[w]) /\ loaded[w].state = "authorized"
  BY Zenon, <1>1, WriterFacts DEF PhaseAt
<1>3. fetched[w].rejection \in TargetRejections \ {"stale_approval"}
  BY Zenon, <1>1 DEF IInv, RunFits, AnswerFits
<1>4. /\ next \in Rows /\ Decodes(next) /\ next.state = "not_attempted"
      /\ next.grant = loaded[w].grant
  BY Zenon, <1>2, <1>3, RejectedRow
<1> HIDE DEF next
<1> QED
  BY Zenon, <1>1, <1>2, <1>4, ReplaceKeeps DEF AttemptedStates

\* BeginAttempt keeps the inductive invariant.
LEMMA BeginAttemptStep ==
    ASSUME IInv, NEW w \in Workers, BeginAttempt(w)
    PROVE  IInv'
<1> DEFINE approved == loaded[w].grant.approved
           stale == StaleApproval(loaded[w], fetched[w])
           next == ApplyStarted(loaded[w], fetched[w])
<1>1. /\ pc[w] = "attempt" /\ pc[w] \in WriterLabels
      /\ UNCHANGED <<receiverVars, sent, acked>>
  BY Zenon DEF BeginAttempt, WriterLabels, HeldLabels, RunLabels
<1>2. /\ loaded[w] \in Rows /\ Decodes(loaded[w]) /\ loaded[w].state = "authorized"
      /\ journal[Op(w)] = loaded[w] /\ Op(w) \in Operations
  BY Zenon, <1>1, WriterFacts DEF PhaseAt
<1>3. fetched[w] \in Targets
  BY Zenon, <1>1 DEF IInv, RunFits, AnswerFits
<1>4. CASE fetched[w] # approved /\ Replace(w, stale, "reconcile")
  <2>1. /\ stale \in Rows /\ Decodes(stale) /\ stale.state = "not_attempted"
        /\ stale.grant = loaded[w].grant
    BY Zenon, <1>2, <1>3, <1>4, StaleRow
  <2> HIDE DEF stale
  <2> QED
    BY Zenon, <1>1, <1>2, <1>4, <2>1, ReplaceKeeps DEF AttemptedStates
<1>5. CASE fetched[w] = approved /\ Replace(w, next, "send")
  <2>1. /\ next \in Rows /\ Decodes(next) /\ next.state = "apply_started"
        /\ next.grant = loaded[w].grant /\ next.response = None
    BY Zenon, <1>2, <1>3, <1>5, AttemptRow
  <2>2. sent[Op(w)] = 0
    BY SMTT(30), <1>2 DEF IInv, SentOnlyAfterDurableAttempt, TypeOK, AttemptedStates
  <2> HIDE DEF next
  <2> QED
    BY Zenon, <1>1, <1>2, <1>5, <2>1, <2>2, ReplaceKeeps DEF AttemptedStates
<1> QED
  BY Zenon, <1>1, <1>4, <1>5 DEF BeginAttempt

\* Apply keeps the inductive invariant.
LEMMA ApplyStep ==
    ASSUME IInv, NEW w \in Workers, Apply(w)
    PROVE  IInv'
<1> DEFINE patch == [operation |-> Op(w), image |-> run[w].grant.image,
                     target |-> loaded[w].target]
<1>1. /\ pc[w] = "send" /\ pc[w] \in WriterLabels
      /\ inflight' = inflight \cup {patch}
      /\ sent' = [sent EXCEPT ![Op(w)] = @ + 1]
      /\ Advance(w, "awaiting", journal[Op(w)], None)
      /\ UNCHANGED <<journal, deployment, landed, reports, acked>>
  BY Zenon DEF Apply, WriterLabels, HeldLabels, RunLabels
<1>2. /\ loaded[w] \in Rows /\ Decodes(loaded[w]) /\ loaded[w].state = "apply_started"
      /\ journal[Op(w)] = loaded[w] /\ Op(w) \in Operations
      /\ loaded[w].grant = run[w].grant /\ run[w].grant \in Grants
      /\ pc[w] \in HeldLabels /\ pc[w] # "idle"
  BY Zenon, <1>1, WriterFacts DEF PhaseAt
<1>3. sent[Op(w)] = 0 /\ loaded[w].response = None
  BY Zenon, <1>1 DEF IInv, RunFits
<1>4. loaded[w].target = loaded[w].grant.approved /\ loaded[w].target \in Targets
  BY Zenon, <1>2 DEF Decodes, AttemptedStates, Rows
<1>5. patch \in [operation : Operations, image : Images, target : Targets]
  BY Zenon, <1>2, <1>4, GrantFacts
<1>6. RunTypes'
  BY Zenon, <1>1, <1>2, AdvanceTypes DEF RunLabels
<1>7. TypeOK'
  <2>1. /\ sent \in [Operations -> Nat]
        /\ inflight \subseteq [operation : Operations, image : Images, target : Targets]
    BY Zenon DEF IInv, TypeOK
  <2>2. sent[Op(w)] + 1 \in Nat
    BY SMTT(30), <1>3
  <2>3. sent' \in [Operations -> Nat]
    BY Zenon, <1>1, <1>2, <2>1, <2>2
  <2>4. inflight' \subseteq [operation : Operations, image : Images, target : Targets]
    BY Zenon, <1>1, <1>5, <2>1
  <2> QED
    BY Zenon, <1>1, <1>6, <2>3, <2>4 DEF IInv, TypeOK, RunTypes
<1>8. \A v \in Workers : RunFits(v)'
  BY Zenon, <1>1, <1>2, <1>3, AdvanceFits
     DEF AnswerFits, PhaseAt, WriterLabels, HeldLabels, RunLabels
<1>9. AtMostOneSend' /\ SentOnlyAfterDurableAttempt'
  <2>1. sent \in [Operations -> Nat]
    BY Zenon DEF IInv, TypeOK
  <2>2. sent'[Op(w)] = 1
    <3>1. sent' = [sent EXCEPT ![Op(w)] = sent[Op(w)] + 1] /\ Op(w) \in Operations
      BY Zenon, <1>1, <1>2
    <3>2. sent'[Op(w)] = sent[Op(w)] + 1
      BY Zenon, <2>1, <3>1
    <3> QED
      BY <1>3, <3>2
  <2>3. \A o \in Operations : o # Op(w) => sent'[o] = sent[o]
    BY Zenon, <1>1, <2>1
  <2>4. AtMostOneSend'
    BY SMTT(30), <2>2, <2>3 DEF IInv, AtMostOneSend
  <2>5. \A o \in Operations : o # Op(w) /\ sent'[o] > 0 => journal[o].state \in AttemptedStates
    BY Zenon, <2>3 DEF IInv, SentOnlyAfterDurableAttempt
  <2>6. journal' = journal /\ journal[Op(w)].state \in AttemptedStates
    BY Zenon, <1>1, <1>2 DEF AttemptedStates
  <2> QED
    BY Zenon, <2>4, <2>5, <2>6 DEF SentOnlyAfterDurableAttempt
<1>10. InflightIsApproved'
  <2>1. journal' = journal /\ journal[Op(w)].state \in AttemptedStates
    BY <1>1, <1>2 DEF AttemptedStates
  <2>2. /\ patch.operation = Op(w)
        /\ patch.target = journal[Op(w)].grant.approved
        /\ patch.image = journal[Op(w)].grant.image
    BY Zenon, <1>2, <1>4
  <2>3. \A p \in inflight' : p \in inflight \/ p = patch
    BY Zenon, <1>1
  <2> HIDE DEF patch
  <2> QED
    BY Zenon, <2>1, <2>2, <2>3 DEF IInv, InflightIsApproved
<1>11. EveryRowDecodes' /\ PatchLandsOnApprovedVersion'
  BY Zenon, <1>1 DEF IInv, EveryRowDecodes, PatchLandsOnApprovedVersion
<1> QED
  BY Zenon, <1>7, <1>8, <1>9, <1>10, <1>11 DEF IInv

\* ApplyReturned keeps the inductive invariant.
LEMMA ApplyReturnedStep ==
    ASSUME IInv, NEW w \in Workers, ApplyReturned(w)
    PROVE  IInv'
<1>0. /\ pc[w] = "awaiting" /\ pc[w] \in WriterLabels
      /\ UNCHANGED <<journal, receiverVars, sent, acked>>
  BY Zenon DEF ApplyReturned, WriterLabels, HeldLabels, RunLabels
<1>1. /\ loaded[w] \in Rows /\ loaded[w].state = "apply_started" /\ journal[Op(w)] = loaded[w]
      /\ loaded[w].grant = run[w].grant /\ pc[w] \in HeldLabels /\ pc[w] # "idle"
  BY <1>0, WriterFacts DEF PhaseAt
<1>2. CASE Stop(w)
  BY ZenonT(30), <1>0, <1>1, <1>2, StopFits, StopTypes, RunsOnly DEF IInv, TypeOK
<1>3. CASE fetched[w] # None /\ Advance(w, "respond", loaded[w], fetched[w])
  <2>1. fetched[w] \in Responses /\ loaded[w].response = None
    BY Zenon, <1>0, <1>3 DEF IInv, RunFits, AnswerFits
  <2>2. \A v \in Workers : RunFits(v)'
    BY Zenon, <1>0, <1>1, <1>3, <2>1, AdvanceFits
       DEF AnswerFits, PhaseAt, WriterLabels, HeldLabels, RunLabels
  <2>3. RunTypes'
    BY Zenon, <1>1, <1>3, <2>1, AdvanceTypes DEF RunLabels, Answers
  <2> QED
    BY Zenon, <1>0, <2>2, <2>3, RunsOnly DEF IInv, TypeOK
<1> QED
  BY Zenon, <1>2, <1>3 DEF ApplyReturned

\* RecordApplyOutcome keeps the inductive invariant.
LEMMA RecordApplyOutcomeStep ==
    ASSUME IInv, NEW w \in Workers, RecordApplyOutcome(w)
    PROVE  IInv'
<1> DEFINE next == Responded(loaded[w], fetched[w])
<1>1. /\ pc[w] = "respond" /\ pc[w] \in WriterLabels
      /\ Replace(w, next, "observe") /\ UNCHANGED <<receiverVars, sent, acked>>
  BY Zenon DEF RecordApplyOutcome, WriterLabels, HeldLabels, RunLabels
<1>2. loaded[w] \in Rows /\ Decodes(loaded[w]) /\ loaded[w].state = "apply_started"
  BY <1>1, WriterFacts DEF PhaseAt
<1>3. fetched[w] \in Responses
  BY Zenon, <1>1 DEF IInv, RunFits, AnswerFits
<1>4. /\ next \in Rows /\ Decodes(next) /\ next.state = "apply_started"
      /\ next.grant = loaded[w].grant
  BY <1>2, <1>3, RespondedRow
<1> HIDE DEF next
<1> QED
  BY ZenonT(30), <1>1, <1>2, <1>4, ReplaceKeeps DEF AttemptedStates

\* ObserveReceiver keeps the inductive invariant.
LEMMA ObserveReceiverStep ==
    ASSUME IInv, NEW w \in Workers, ObserveReceiver(w)
    PROVE  IInv'
<1>0. /\ pc[w] = "observe" /\ pc[w] \in WriterLabels
      /\ UNCHANGED <<journal, receiverVars, sent, acked>>
  BY Zenon DEF ObserveReceiver, WriterLabels, HeldLabels, RunLabels
<1>1. /\ loaded[w] \in Rows /\ loaded[w].state = "apply_started" /\ journal[Op(w)] = loaded[w]
      /\ loaded[w].grant = run[w].grant /\ pc[w] \in HeldLabels /\ pc[w] # "idle"
  BY Zenon, <1>0, WriterFacts DEF PhaseAt
<1>2. ASSUME NEW obs \in Observations, Advance(w, "freeze", loaded[w], obs)
      PROVE  IInv'
  <2>1. \A v \in Workers : RunFits(v)'
    BY Zenon, <1>0, <1>1, <1>2, AdvanceFits
       DEF AnswerFits, PhaseAt, WriterLabels, HeldLabels, RunLabels
  <2>2. RunTypes'
    BY Zenon, <1>1, <1>2, AdvanceTypes DEF RunLabels, Answers
  <2> QED
    BY Zenon, <1>0, <2>1, <2>2, RunsOnly DEF IInv, TypeOK
<1>3. ASSUME reads[w] + 1 # ObservationAttempts,
             reads' = [reads EXCEPT ![w] = @ + 1],
             UNCHANGED <<lease, pc, run, loaded, fetched>>
      PROVE  IInv'
  <2>1. RunTypes'
    <3>1. reads[w] \in 0 .. ObservationAttempts - 1
      BY Zenon DEF IInv, TypeOK
    <3>2. reads[w] + 1 \in 0 .. ObservationAttempts - 1
      BY SMTT(30), <1>3, <3>1, BoundsAssumption
    <3> QED
      BY Zenon, <1>3, <3>2 DEF IInv, TypeOK, RunTypes
  <2>2. \A v \in Workers : RunFits(v)'
    BY Zenon, <1>0, <1>3 DEF IInv, RunFits, Op
  <2> QED
    BY Zenon, <1>0, <2>1, <2>2, RunsOnly DEF IInv, TypeOK
<1>4. /\ UnknownObservation \in Observations
      /\ deployment.present => Observe(deployment) \in Observations
  BY ObservationType DEF IInv, TypeOK
<1> QED
  BY Zenon, <1>2, <1>3, <1>4 DEF ObserveReceiver

\* FreezeObservation keeps the inductive invariant.
LEMMA FreezeObservationStep ==
    ASSUME IInv, NEW w \in Workers, FreezeObservation(w)
    PROVE  IInv'
<1> DEFINE next == Frozen(loaded[w], fetched[w])
<1>1. /\ pc[w] = "freeze" /\ pc[w] \in WriterLabels
      /\ Replace(w, next, "reconcile") /\ UNCHANGED <<receiverVars, sent, acked>>
  BY Zenon DEF FreezeObservation, WriterLabels, HeldLabels, RunLabels
<1>2. loaded[w] \in Rows /\ Decodes(loaded[w]) /\ loaded[w].state = "apply_started"
  BY <1>1, WriterFacts DEF PhaseAt
<1>3. fetched[w] \in Observations
  BY Zenon, <1>1 DEF IInv, RunFits, AnswerFits
<1>4. /\ next \in Rows /\ Decodes(next) /\ next.state = "receiver_observed"
      /\ next.grant = loaded[w].grant
  BY Zenon, <1>2, <1>3, FrozenRow
<1> HIDE DEF next
<1> QED
  BY Zenon, <1>1, <1>2, <1>4, ReplaceKeeps DEF AttemptedStates

\* FinalizeReceipt keeps the inductive invariant.
LEMMA FinalizeReceiptStep ==
    ASSUME IInv, NEW w \in Workers, FinalizeReceipt(w)
    PROVE  IInv'
<1> DEFINE next == Finalized(loaded[w], run[w].signing)
<1>1. /\ pc[w] = "sign" /\ pc[w] \in WriterLabels
      /\ Replace(w, next, "reconcile") /\ UNCHANGED <<receiverVars, sent, acked>>
  BY Zenon DEF FinalizeReceipt, WriterLabels, HeldLabels, RunLabels
<1>2. loaded[w] \in Rows /\ Decodes(loaded[w]) /\ loaded[w].state = "receiver_observed"
  BY <1>1, WriterFacts DEF PhaseAt
<1>3. run[w].signing \in Keys
  BY Zenon, <1>1 DEF IInv, RunFits
<1>4. /\ next \in Rows /\ Decodes(next) /\ next.state = "finalized"
      /\ next.grant = loaded[w].grant
  BY <1>2, <1>3, FinalizedRow
<1> HIDE DEF next
<1> QED
  BY Zenon, <1>1, <1>2, <1>4, ReplaceKeeps DEF AttemptedStates

\* The death of a worker keeps the inductive invariant.
LEMMA CrashStep ==
    ASSUME IInv, NEW w \in Workers, Crash(w)
    PROVE  IInv'
BY Zenon, StopFits, StopTypes, RunsOnly DEF Crash, IInv, TypeOK

\* The API server applies a patch only to the version it names.
LEMMA PatchArrivesStep ==
    ASSUME IInv, NEW p \in inflight, PatchArrives(p)
    PROVE  IInv'
<1> DEFINE d == deployment
           patched == [d EXCEPT !.version = @ + 1, !.marker = p.operation, !.image = p.image,
                                !.generation = IF d.image = p.image THEN @ ELSE @ + 1]
           reply == [version |-> patched.version, generation |-> patched.generation]
<1>0. p \in [operation : Operations, image : Images, target : Targets]
  BY Zenon DEF IInv, TypeOK
<1>1. /\ inflight' = inflight \ {p}
      /\ UNCHANGED <<journal, lease, pc, run, loaded, reads, reports, sent, acked>>
  BY DEF PatchArrives
<1>2. /\ EveryRowDecodes' /\ AtMostOneSend' /\ SentOnlyAfterDurableAttempt'
      /\ InflightIsApproved'
  BY Zenon, <1>1 DEF IInv, EveryRowDecodes, AtMostOneSend, SentOnlyAfterDurableAttempt,
              InflightIsApproved
<1>3. CASE UNCHANGED <<deployment, landed, fetched>>
  BY Zenon, <1>1, <1>2, <1>3 DEF IInv, TypeOK, RunFits, Op, PatchLandsOnApprovedVersion
<1>4. CASE /\ d.uid = p.target.uid /\ d.version = p.target.version
           /\ deployment' = patched
           /\ landed' = [landed EXCEPT ![p.operation] =
                            [target |-> [uid |-> d.uid, version |-> d.version],
                             image |-> p.image]]
           /\ fetched' = [w \in Workers |->
                            IF pc[w] = "awaiting" /\ Op(w) = p.operation
                            THEN reply ELSE fetched[w]]
  <2>1. patched \in Deployments /\ reply \in Responses
    <3>1. d \in Deployments /\ p.operation \in Operations /\ p.image \in Images
      BY Zenon, <1>0 DEF IInv, TypeOK
    <3>2. d.version + 1 \in Nat /\ d.generation + 1 \in Nat
      BY SMTT(30), <3>1 DEF Deployments
    <3> QED
      BY Zenon, <3>1, <3>2 DEF Deployments, Responses
  <2> HIDE DEF patched, reply
  <2>2. [uid |-> d.uid, version |-> d.version] = p.target
    BY Zenon, <1>0, <1>4 DEF Targets
  <2>3. TypeOK'
    BY ZenonT(30), <1>0, <1>1, <1>4, <2>1, <2>2 DEF IInv, TypeOK, Answers, Landings
  <2>4. PatchLandsOnApprovedVersion'
    <3> SUFFICES ASSUME NEW o \in Operations, landed'[o] # None
                 PROVE  /\ journal[o].state \in AttemptedStates
                        /\ landed'[o].target = journal[o].grant.approved
                        /\ landed'[o].image = journal[o].grant.image
      BY Zenon, <1>1 DEF PatchLandsOnApprovedVersion
    <3>1. CASE o = p.operation
      BY Zenon, <1>0, <1>4, <2>2, <3>1 DEF IInv, InflightIsApproved, TypeOK
    <3>2. CASE o # p.operation
      BY Zenon, <1>0, <1>4, <3>2 DEF IInv, PatchLandsOnApprovedVersion, TypeOK
    <3> QED BY Zenon, <3>1, <3>2
  <2>5. \A w \in Workers : RunFits(w)'
    <3> SUFFICES ASSUME NEW w \in Workers PROVE RunFits(w)'
      BY Zenon
    <3>1. AnswerFits(pc[w], fetched'[w])
      BY Zenon, <1>4, <2>1 DEF AnswerFits, IInv, RunFits
    <3> QED
      BY Zenon, <1>1, <3>1 DEF IInv, RunFits, Op
  <2> QED
    BY <1>2, <2>3, <2>4, <2>5 DEF IInv
<1> QED
  BY Zenon, <1>3, <1>4 DEF PatchArrives

\* Nothing else that happens to the Deployment concerns the journal.
LEMMA DeploymentOnly ==
    ASSUME IInv, deployment' \in Deployments,
           reports' \subseteq [uid : Nat, generation : Nat, image : Images \cup {None},
                               verdict : OperationResults],
           UNCHANGED <<journal, workerVars, inflight, landed, sent, acked>>
    PROVE  IInv'
<1>1. \A w \in Workers : RunFits(w)'
  BY Zenon DEF IInv, RunFits, Op, workerVars
<1> QED
  BY Zenon, <1>1 DEF IInv, TypeOK, workerVars, EveryRowDecodes, AtMostOneSend,
              SentOnlyAfterDurableAttempt, InflightIsApproved, PatchLandsOnApprovedVersion

\* A status report of the Deployment controller keeps the inductive invariant.
LEMMA ControllerReportsStep ==
    ASSUME IInv, NEW status \in Statuses, ControllerReports(status)
    PROVE  IInv'
<1>0. deployment \in Deployments
  BY Zenon DEF IInv, TypeOK
<1>1. deployment' \in Deployments
  <2>1. /\ deployment.version + 1 \in Nat /\ deployment.generation + 1 \in Nat
        /\ deployment.uid + 1 \in Nat
    BY SMTT(30), <1>0 DEF Deployments
  <2> QED
    BY Zenon, <1>0, <2>1 DEF ControllerReports, Deployments
<1>2. Verdict(status) \in OperationResults
  BY Zenon DEF Verdict, OperationResults
<1>3. reports' \subseteq [uid : Nat, generation : Nat, image : Images \cup {None},
                          verdict : OperationResults]
  BY SMTT(30), <1>2 DEF IInv, TypeOK, ControllerReports, Deployments
<1> QED
  BY Zenon, <1>1, <1>3, DeploymentOnly DEF ControllerReports

\* Another writer's edit of the Deployment keeps the inductive invariant.
LEMMA OthersEditStep ==
    ASSUME IInv, NEW image \in Images \cup {None}, NEW marker \in Operations \cup {None},
           OthersEdit(image, marker)
    PROVE  IInv'
<1>0. deployment \in Deployments
  BY Zenon DEF IInv, TypeOK
<1>1. deployment' \in Deployments
  <2>1. /\ deployment.version + 1 \in Nat /\ deployment.generation + 1 \in Nat
        /\ deployment.uid + 1 \in Nat
    BY SMTT(30), <1>0 DEF Deployments
  <2> QED
    BY Zenon, <1>0, <2>1 DEF OthersEdit, Deployments
<1> QED
  BY Zenon, <1>1, DeploymentOnly DEF OthersEdit, IInv, TypeOK

\* Re-creation of the Deployment keeps the inductive invariant.
LEMMA OthersReplaceStep ==
    ASSUME IInv, OthersReplace
    PROVE  IInv'
<1>0. deployment \in Deployments
  BY DEF IInv, TypeOK
<1>1. deployment' \in Deployments
  <2>1. /\ deployment.version + 1 \in Nat /\ deployment.generation + 1 \in Nat
        /\ deployment.uid + 1 \in Nat
    BY SMTT(30), <1>0 DEF Deployments
  <2>2. CASE deployment' = [deployment EXCEPT !.present = FALSE]
    BY Zenon, <1>0, <2>2 DEF Deployments
  <2>3. ASSUME NEW image \in Images,
               deployment' = [deployment EXCEPT !.present = TRUE, !.uid = @ + 1,
                                                !.version = @ + 1, !.generation = 1,
                                                !.image = image, !.marker = None,
                                                !.observed = None, !.status = None]
        PROVE  deployment' \in Deployments
    BY Zenon, <1>0, <2>1, <2>3 DEF Deployments
  <2> QED
    BY Zenon, <2>2, <2>3 DEF OthersReplace
<1> QED
  BY Zenon, <1>1, DeploymentOnly DEF OthersReplace, IInv, TypeOK

-----------------------------------------------------------------------------
(* The theorems.                                                           *)

\* The inductive invariant holds before any worker has started.
LEMMA InitIInv == Init => IInv
<1> SUFFICES ASSUME Init PROVE IInv
  BY Zenon
<1>1. deployment \in Deployments
  BY SMTT(30) DEF Init, Deployments
<1>2. TypeOK
  <2>1. reads \in [Workers -> 0 .. ObservationAttempts - 1] /\ sent \in [Operations -> Nat]
    <3>1. 0 \in 0 .. ObservationAttempts - 1 /\ 0 \in Nat
      BY SMTT(30), BoundsAssumption
    <3> QED
      BY Zenon, <3>1 DEF Init
  <2> QED
    BY Zenon, <1>1, <2>1, NoRowType DEF Init, TypeOK, RunLabels
<1>3. \A w \in Workers : RunFits(w)
  BY Zenon, NoneFacts DEF Init, RunFits, AnswerFits, HeldLabels, WriterLabels, RunLabels
<1>4. AtMostOneSend /\ SentOnlyAfterDurableAttempt
  <2>1. \A o \in Operations : sent[o] = 0
    BY Zenon DEF Init
  <2> QED
    BY SMTT(30), <2>1 DEF AtMostOneSend, SentOnlyAfterDurableAttempt
<1> QED
  BY Zenon, <1>2, <1>3, <1>4 DEF Init, IInv, EveryRowDecodes,
                          InflightIsApproved, PatchLandsOnApprovedVersion

\* Every step of a worker, of the receiver or of other writers keeps the inductive invariant.
LEMMA NextIInv == IInv /\ [Next]_vars => IInv'
<1> SUFFICES ASSUME IInv, [Next]_vars PROVE IInv'
  OBVIOUS
<1>1. CASE UNCHANGED vars
  <2>1. \A w \in Workers : RunFits(w)'
    BY Zenon, <1>1 DEF vars, workerVars, IInv, RunFits, Op
  <2> QED
    BY Zenon, <1>1, <2>1 DEF vars, workerVars, receiverVars, IInv, TypeOK, EveryRowDecodes,
       AtMostOneSend, SentOnlyAfterDurableAttempt, InflightIsApproved,
       PatchLandsOnApprovedVersion
<1>2. ASSUME NEW w \in Workers, NEW grant \in Grants, NEW adapter \in BOOLEAN,
             NEW signing \in Keys \cup {None}, Begin(w, grant, adapter, signing)
      PROVE  IInv'
  BY Zenon, <1>2, BeginStep
<1>3. ASSUME NEW w \in Workers, Step(w) PROVE IInv'
  BY Zenon, <1>3, TryLockWorkerStep, AdmitStep, ReconcileStep, MarkAuthorizedStep,
     PreflightTargetStep, MarkNotAttemptedStep, BeginAttemptStep, ApplyStep,
     ApplyReturnedStep, RecordApplyOutcomeStep, ObserveReceiverStep,
     FreezeObservationStep, FinalizeReceiptStep DEF Step
<1>4. ASSUME NEW w \in Workers, Crash(w) PROVE IInv'
  BY Zenon, <1>4, CrashStep
<1>5. CASE Receiver
  BY Zenon, <1>5, PatchArrivesStep, ControllerReportsStep, OthersEditStep, OthersReplaceStep
     DEF Receiver
<1> QED
  BY Zenon, <1>1, <1>2, <1>3, <1>4, <1>5 DEF Next

\* The inductive invariant holds in every reachable state.
THEOREM KubernetesInvariant == Spec => []IInv
BY InitIInv, NextIInv, PTL DEF Spec

-----------------------------------------------------------------------------
(* What a step may do to the journal, and the lifecycle it takes part in.  *)

Columns ==
    {"grant", "preflight", "target", "response", "generation", "observation", "result",
     "rejection", "receipt"}

\* The two action properties, for one row.
RowAdvances(row, next) ==
    /\ \A column \in Columns : row[column] # None => next[column] = row[column]
    /\ row.state \in TerminalStates => next = row
    /\ Rank(row.state) <= Rank(next.state)

\* Every column of a row but its state.
LEMMA ColumnsDef == DOMAIN NoRow \ {"state"} = Columns
BY Zenon DEF NoRow, Columns

\* The rank of each phase, as numbers.
LEMMA RankOf ==
    /\ Rank("absent") = 0 /\ Rank("requested") = 1 /\ Rank("authorized") = 2
    /\ Rank("apply_started") = 3 /\ Rank("receiver_observed") = 4
    /\ Rank("not_attempted") = 5 /\ Rank("finalized") = 5
BY Zenon DEF Rank, TerminalStates

\* Ranks are natural numbers.
LEMMA RankType ==
    ASSUME NEW state \in OperationStates
    PROVE  Rank(state) \in Nat
BY SMTT(30), RankOf DEF OperationStates

\* A row that does not change advances trivially.
LEMMA SameRow ==
    ASSUME NEW row \in Rows
    PROVE  RowAdvances(row, row)
BY SMTT(30), RankType DEF RowAdvances, Rows

\* Inserting a requested row moves a row forward and changes no recorded fact.
LEMMA RequestedAdvances ==
    ASSUME NEW row \in Rows, row = NoRow, NEW grant
    PROVE  RowAdvances(row, Requested(grant))
BY SMTT(30), RankOf DEF RowAdvances, NoRow, Requested, Columns, TerminalStates

\* mark_authorized moves a row forward and changes no recorded fact.
LEMMA AuthorizedAdvances ==
    ASSUME NEW row \in Rows, row.state = "requested"
    PROVE  RowAdvances(row, Authorized(row))
BY SMTT(30), RankOf DEF RowAdvances, Rows, Authorized, Columns, TerminalStates

\* mark_not_attempted moves a row forward and changes no recorded fact.
LEMMA RejectedAdvances ==
    ASSUME NEW row \in Rows, Decodes(row), row.state = "authorized", NEW rejection
    PROVE  RowAdvances(row, Rejected(row, rejection))
BY SMTT(30), RankOf DEF RowAdvances, Rows, Decodes, Rejected, Columns, TerminalStates

\* mark_stale_approval moves a row forward and changes no recorded fact.
LEMMA StaleAdvances ==
    ASSUME NEW row \in Rows, Decodes(row), row.state = "authorized", NEW found
    PROVE  RowAdvances(row, StaleApproval(row, found))
BY SMTT(30), RankOf, NoneFacts DEF RowAdvances, Rows, Decodes, StaleApproval, Columns,
    TerminalStates,
   AttemptedStates, TargetRejections

\* mark_apply_started moves a row forward and changes no recorded fact.
LEMMA StartedAdvances ==
    ASSUME NEW row \in Rows, Decodes(row), row.state = "authorized", NEW target
    PROVE  RowAdvances(row, ApplyStarted(row, target))
BY SMTT(30), RankOf, NoneFacts DEF RowAdvances, Rows, Decodes, ApplyStarted, Columns,
    TerminalStates,
   AttemptedStates, TargetRejections

\* record_apply_outcome moves a row forward and changes no recorded fact.
LEMMA RespondedAdvances ==
    ASSUME NEW row \in Rows, Decodes(row), row.state = "apply_started", row.response = None,
           NEW response
    PROVE  RowAdvances(row, Responded(row, response))
BY SMTT(30), RankOf DEF RowAdvances, Rows, Decodes, Responded, Columns, TerminalStates

\* freeze_observation moves a row forward and changes no recorded fact.
LEMMA FrozenAdvances ==
    ASSUME NEW row \in Rows, Decodes(row), row.state = "apply_started", NEW obs
    PROVE  RowAdvances(row, Frozen(row, obs))
BY SMTT(30), RankOf DEF RowAdvances, Rows, Decodes, Frozen, Columns, TerminalStates,
   FrozenStates, ClassificationOutcome, RequestedGeneration

\* commit_receipt moves a row forward and changes no recorded fact.
LEMMA FinalizedAdvances ==
    ASSUME NEW row \in Rows, Decodes(row), row.state = "receiver_observed", NEW key
    PROVE  RowAdvances(row, Finalized(row, key))
BY SMTT(30), RankOf DEF RowAdvances, Rows, Decodes, Finalized, Columns, TerminalStates
-----------------------------------------------------------------------------
(* The abstract state and how concrete steps change it.                    *)

Phase == [o \in Operations |-> journal[o].state]
Permit == [o \in Operations |-> HasPermit(o)]

\* A step of w that neither starts nor ends at "send" moves no permission.
LEMMA PermitUnchanged ==
    ASSUME IInv, NEW w \in Workers, pc[w] # "send", pc'[w] # "send",
           \A v \in Workers \ {w} : pc'[v] = pc[v] /\ run'[v] = run[v]
    PROVE  Permit' = Permit
<1>1. ASSUME NEW o \in Operations PROVE HasPermit(o)' <=> HasPermit(o)
  BY Zenon DEF HasPermit, Op
<1>2. \A o \in Operations : HasPermit(o)' = HasPermit(o)
  BY Zenon, <1>1 DEF HasPermit
<1> QED
  BY Zenon, <1>2 DEF Permit

\* The holder of the lease is the only run that can hold permission.
LEMMA PermitOfHolder ==
    ASSUME IInv, NEW w \in Workers, pc[w] \in HeldLabels, NEW o \in Operations
    PROVE  HasPermit(o) <=> pc[w] = "send" /\ Op(w) = o
<1>1. lease = w
  BY DEF IInv, RunFits
<1>2. \A v \in Workers : pc[v] = "send" => v = w
  BY Zenon, <1>1 DEF IInv, RunFits, HeldLabels, RunLabels
<1> QED
  BY Zenon, <1>2 DEF HasPermit

\* Permission ends when its run stops.
LEMMA PermitEnds ==
    ASSUME IInv, NEW w \in Workers, pc[w] = "send", pc'[w] # "send",
           \A v \in Workers \ {w} : pc'[v] = pc[v]
    PROVE  /\ Permit[Op(w)] /\ Op(w) \in Operations
           /\ Permit' = [Permit EXCEPT ![Op(w)] = FALSE]
<1>1. pc[w] \in HeldLabels /\ pc[w] # "idle" /\ Op(w) \in Operations
  BY Zenon, RunType DEF HeldLabels, RunLabels
<1>2. \A o \in Operations : HasPermit(o) <=> Op(w) = o
  BY Zenon, <1>1, PermitOfHolder
<1>3. \A v \in Workers : pc'[v] # "send"
  BY ZenonT(30) DEF IInv, RunFits, HeldLabels, RunLabels
<1>4. \A o \in Operations : HasPermit(o)' = FALSE
  BY Zenon, <1>3 DEF HasPermit
<1>5. \A o \in Operations : o # Op(w) => HasPermit(o) = FALSE
  BY Zenon, <1>2 DEF HasPermit
<1> QED
  BY Zenon, <1>1, <1>2, <1>4, <1>5 DEF Permit
\* Permission begins when the run of w reaches "send".
LEMMA PermitBegins ==
    ASSUME IInv, NEW w \in Workers, pc[w] \in HeldLabels, pc[w] # "send", pc'[w] = "send",
           run' = run, \A v \in Workers \ {w} : pc'[v] = pc[v]
    PROVE  /\ Op(w) \in Operations
           /\ Permit' = [Permit EXCEPT ![Op(w)] = TRUE]
<1>1. Op(w) \in Operations
  BY Zenon, RunType DEF HeldLabels
<1>2. \A v \in Workers : pc'[v] = "send" => v = w
  BY Zenon DEF IInv, RunFits, HeldLabels, RunLabels
<1>3. \A o \in Operations : o = Op(w) => HasPermit(o)' = TRUE
  BY Zenon DEF HasPermit, Op
<1>4. \A o \in Operations : o # Op(w) => HasPermit(o)' = FALSE
  BY Zenon, <1>2 DEF HasPermit, Op
<1>5. \A o \in Operations : HasPermit(o) = FALSE
  BY Zenon, PermitOfHolder DEF HasPermit
<1> QED
  BY Zenon, <1>1, <1>3, <1>4, <1>5 DEF Permit

-----------------------------------------------------------------------------
(* Every step.                                                             *)

AbstractNext == [Abstract!Next]_(Abstract!vars)

\* The journal advances row by row, and the step refines the lifecycle.
StepOK ==
    /\ \A o \in Operations : RowAdvances(journal[o], journal'[o])
    /\ AbstractNext

\* A step that leaves journal, permissions and sends alone.
LEMMA Stutter ==
    ASSUME IInv, UNCHANGED <<journal, sent>>, Permit' = Permit
    PROVE  StepOK
<1>1. AbstractNext
  BY Zenon DEF AbstractNext, Abstract!vars, Permit
<1>2. \A o \in Operations : RowAdvances(journal[o], journal'[o])
  BY Zenon, SameRow DEF IInv, TypeOK
<1> QED
  BY Zenon, <1>1, <1>2 DEF StepOK

\* A run that stops without writing loses at most its permission.
LEMMA StopOK ==
    ASSUME IInv, NEW w \in Workers, Stop(w), UNCHANGED <<journal, sent>>
    PROVE  StepOK
<1>0. /\ pc'[w] = "idle" /\ \A v \in Workers \ {w} : pc'[v] = pc[v] /\ run'[v] = run[v]
  BY Zenon DEF Stop, IInv, TypeOK
<1>1. CASE pc[w] # "send"
  BY Zenon, <1>0, <1>1, PermitUnchanged, Stutter
<1>2. CASE pc[w] = "send"
  <2>1. /\ Permit[Op(w)] /\ Op(w) \in Operations
        /\ Permit' = [Permit EXCEPT ![Op(w)] = FALSE]
    BY Zenon, <1>0, <1>2, PermitEnds
  <2>2. Abstract!LosePermit(Op(w))
    BY Zenon, <2>1 DEF Abstract!LosePermit, Permit
  <2>3. AbstractNext
    BY Zenon, <2>1, <2>2 DEF AbstractNext, Abstract!Next
  <2>4. \A o \in Operations : RowAdvances(journal[o], journal'[o])
    BY Zenon, SameRow DEF IInv, TypeOK
  <2> QED
    BY Zenon, <2>3, <2>4 DEF StepOK
<1> QED BY Zenon, <1>1, <1>2
\* The confirmed attempt, and the send it permits.
LEMMA PermitSteps ==
    ASSUME NEW o \in Operations, Abstract!Attempt(o) \/ Abstract!Dispatch(o)
    PROVE  AbstractNext
BY Zenon DEF AbstractNext, Abstract!Next

\* The moves of one phase that are made without permission in hand.
Moves ==
    {<<"absent", "requested">>, <<"requested", "authorized">>,
     <<"authorized", "not_attempted">>, <<"authorized", "apply_started">>,
     <<"apply_started", "apply_started">>, <<"apply_started", "receiver_observed">>,
     <<"receiver_observed", "finalized">>}

\* Each such move is a lifecycle step.
LEMMA MoveOK ==
    ASSUME NEW o \in Operations, NEW from, NEW to, <<from, to>> \in Moves,
           Phase[o] = from, Phase' = [Phase EXCEPT ![o] = to],
           Permit[o] = FALSE, Permit' = Permit, UNCHANGED sent
    PROVE  AbstractNext
<1> USE DEF AbstractNext, Abstract!Next, Abstract!Move, Phase, Permit
<1>1. CASE from = "absent" /\ to = "requested"
  <2>1. Abstract!Admit(o)
    BY Zenon, <1>1 DEF Abstract!Admit
  <2> QED BY ZenonT(30), <2>1
<1>2. CASE from = "requested" /\ to = "authorized"
  <2>1. Abstract!Authorize(o)
    BY <1>2 DEF Abstract!Authorize
  <2> QED BY Zenon, <2>1
<1>3. CASE from = "authorized" /\ to = "not_attempted"
  <2>1. Abstract!Reject(o)
    BY <1>3 DEF Abstract!Reject
  <2> QED BY Zenon, <2>1
<1>4. CASE from = "authorized" /\ to = "apply_started"
  <2>1. Permit' = [Permit EXCEPT ![o] = FALSE]
    BY Zenon
  <2>2. Abstract!Attempt(o)
    BY Zenon, <1>4, <2>1 DEF Abstract!Attempt
  <2> QED BY Zenon, <2>2
<1>5. CASE from = "apply_started" /\ to = "apply_started"
  <2>1. Phase' = Phase
    BY ZenonT(30), <1>5
  <2> QED BY Zenon, <2>1 DEF Abstract!vars
<1>6. CASE from = "apply_started" /\ to = "receiver_observed"
  <2>1. Abstract!Freeze(o)
    BY Zenon, <1>6 DEF Abstract!Freeze
  <2> QED BY Zenon, <2>1
<1>7. CASE from = "receiver_observed" /\ to = "finalized"
  <2>1. Abstract!Finalize(o)
    BY Zenon, <1>7 DEF Abstract!Finalize
  <2> QED BY Zenon, <2>1
<1> QED
  BY ZenonT(30), <1>1, <1>2, <1>3, <1>4, <1>5, <1>6, <1>7 DEF Moves

\* A commit of one row that advances it.
LEMMA CommitAdvances ==
    ASSUME IInv, NEW w \in Workers, Op(w) \in Operations, NEW next,
           journal' = [journal EXCEPT ![Op(w)] = next],
           RowAdvances(journal[Op(w)], next)
    PROVE  /\ \A o \in Operations : RowAdvances(journal[o], journal'[o])
           /\ Phase' = [Phase EXCEPT ![Op(w)] = next.state]
           /\ Phase[Op(w)] = journal[Op(w)].state
<1>1. /\ journal'[Op(w)] = next
      /\ \A o \in Operations \ {Op(w)} : journal'[o] = journal[o]
  BY Zenon DEF IInv, TypeOK
<1>2. \A o \in Operations : RowAdvances(journal[o], journal'[o])
  <2>1. \A o \in Operations : RowAdvances(journal[o], journal[o])
    BY Zenon, SameRow DEF IInv, TypeOK
  <2> QED BY Zenon, <1>1, <2>1
<1>3. Phase' = [Phase EXCEPT ![Op(w)] = next.state]
  <2>1. \A o \in Operations :
           journal'[o].state = IF o = Op(w) THEN next.state ELSE journal[o].state
    BY SMTT(30), <1>1
  <2> QED
    BY Zenon, <2>1 DEF Phase
<1>4. Phase[Op(w)] = journal[Op(w)].state
  BY Zenon DEF Phase
<1> QED
  BY Zenon, <1>2, <1>3, <1>4

\* A conditional replacement, confirmed or not, is one such move, or the attempt
\* whose confirmation brings permission.
LEMMA ReplaceOK ==
    ASSUME IInv, NEW w \in Workers, pc[w] \in WriterLabels \ {"send"},
           NEW next, NEW label, RowAdvances(loaded[w], next),
           <<loaded[w].state, next.state>> \in Moves,
           label = "send" => loaded[w].state = "authorized" /\ next.state = "apply_started",
           Replace(w, next, label), UNCHANGED sent
    PROVE  StepOK
<1>0. /\ Op(w) \in Operations /\ journal[Op(w)] = loaded[w] /\ pc[w] \in HeldLabels
  BY Zenon, WriterFacts
<1>1. Permit[Op(w)] = FALSE
  BY Zenon, <1>0, PermitOfHolder DEF Permit, HasPermit
<1>2. CASE UNCHANGED journal /\ Stop(w)
  BY <1>2, StopOK
<1>3. CASE journal' = [journal EXCEPT ![Op(w)] = next] /\ Stop(w)
  <2>1. /\ pc'[w] = "idle"
        /\ \A v \in Workers \ {w} : pc'[v] = pc[v] /\ run'[v] = run[v]
    BY <1>3 DEF Stop, IInv, TypeOK
  <2>2. Permit' = Permit
    BY Zenon, <2>1, PermitUnchanged
  <2> QED
    BY ZenonT(30), <1>0, <1>1, <1>3, <2>2, CommitAdvances, MoveOK DEF StepOK
<1>4. CASE journal' = [journal EXCEPT ![Op(w)] = next] /\ Advance(w, label, next, None)
  <2>1. /\ pc'[w] = label /\ run' = run
        /\ \A v \in Workers \ {w} : pc'[v] = pc[v] /\ run'[v] = run[v]
    BY Zenon, <1>4 DEF Advance, IInv, TypeOK
  <2>2. CASE label # "send"
    <3>1. Permit' = Permit
      BY Zenon, <2>1, <2>2, PermitUnchanged
    <3> QED
      BY ZenonT(30), <1>0, <1>1, <1>4, <3>1, CommitAdvances, MoveOK DEF StepOK
  <2>3. CASE label = "send"
    <3>1. Permit' = [Permit EXCEPT ![Op(w)] = TRUE]
      BY Zenon, <1>0, <2>1, <2>3, PermitBegins
    <3>2. /\ \A x \in Operations : RowAdvances(journal[x], journal'[x])
          /\ Phase' = [Phase EXCEPT ![Op(w)] = "apply_started"] /\ Phase[Op(w)] = "authorized"
      <4>1. RowAdvances(journal[Op(w)], next)
        BY <1>0
      <4>2. /\ \A x \in Operations : RowAdvances(journal[x], journal'[x])
            /\ Phase' = [Phase EXCEPT ![Op(w)] = next.state]
            /\ Phase[Op(w)] = journal[Op(w)].state
        BY Zenon, <1>0, <1>4, <4>1, CommitAdvances
      <4> QED
        BY Zenon, <1>0, <2>3, <4>2
    <3>3. PICK o \in Operations : o = Op(w)
      BY Zenon, <1>0
    <3>4. Abstract!Attempt(o)
      BY Zenon, <3>1, <3>2, <3>3 DEF Abstract!Attempt, Abstract!Move, Phase, Permit
    <3>5. AbstractNext
      BY Zenon, <3>4, PermitSteps
    <3> QED
      BY Zenon, <3>2, <3>5 DEF StepOK
  <2> QED BY Zenon, <2>2, <2>3
<1> QED
  BY Zenon, <1>2, <1>3, <1>4 DEF Replace
\* Moving between labels other than "send" is invisible.
LEMMA AdvanceOK ==
    ASSUME IInv, NEW w \in Workers, NEW label, NEW row, NEW answer,
           Advance(w, label, row, answer), pc[w] # "send", label # "send",
           UNCHANGED <<journal, sent>>
    PROVE  StepOK
<1>1. /\ pc'[w] # "send"
      /\ \A v \in Workers \ {w} : pc'[v] = pc[v] /\ run'[v] = run[v]
  BY Zenon DEF Advance, IInv, TypeOK
<1> QED
  BY Zenon, <1>1, PermitUnchanged, Stutter

\* So is everything that happens at the receiver.
LEMMA RunsUnchanged ==
    ASSUME IInv, UNCHANGED <<journal, sent, pc, run>>
    PROVE  StepOK
<1>1. \A o \in Operations : HasPermit(o)' = HasPermit(o)
  BY Zenon DEF HasPermit, Op
<1>2. Permit' = Permit
  BY <1>1 DEF Permit
<1> QED
  BY Zenon, <1>2, Stutter

\* Begin writes facts once, moves phases forward and is a step of the lifecycle.
LEMMA BeginOK ==
    ASSUME IInv, NEW w \in Workers, NEW grant, NEW adapter, NEW signing,
           Begin(w, grant, adapter, signing)
    PROVE  StepOK
<1>1. UNCHANGED <<journal, sent>>
  BY Zenon DEF Begin
<1>2. CASE UNCHANGED workerVars
  BY <1>1, <1>2, RunsUnchanged DEF workerVars
<1>3. CASE /\ pc' = [pc EXCEPT ![w] = "lock"]
           /\ run' = [run EXCEPT ![w] =
                        [grant |-> grant, adapter |-> adapter, signing |-> signing]]
  <2>1. /\ pc[w] = "idle" /\ pc'[w] = "lock"
        /\ \A v \in Workers \ {w} : pc'[v] = pc[v] /\ run'[v] = run[v]
    BY ZenonT(30), <1>3 DEF Begin, IInv, TypeOK
  <2> QED
    BY ZenonT(30), <1>1, <2>1, PermitUnchanged, Stutter
<1> QED
  BY ZenonT(30), <1>2, <1>3 DEF Begin

\* TryLockWorker writes facts once, moves phases forward and is a step of the lifecycle.
LEMMA TryLockWorkerOK ==
    ASSUME IInv, NEW w \in Workers, TryLockWorker(w)
    PROVE  StepOK
<1>1. UNCHANGED <<journal, sent>> /\ pc[w] = "lock"
  BY Zenon DEF TryLockWorker
<1>2. CASE Stop(w)
  BY Zenon, <1>1, <1>2, StopOK
<1>3. CASE pc' = [pc EXCEPT ![w] = "admit"] /\ UNCHANGED run
  <2>1. /\ pc'[w] = "admit"
        /\ \A v \in Workers \ {w} : pc'[v] = pc[v] /\ run'[v] = run[v]
    BY Zenon, <1>3 DEF IInv, TypeOK
  <2> QED
    BY Zenon, <1>1, <2>1, PermitUnchanged, Stutter
<1> QED
  BY Zenon, <1>2, <1>3 DEF TryLockWorker

\* Admit writes facts once, moves phases forward and is a step of the lifecycle.
LEMMA AdmitOK ==
    ASSUME IInv, NEW w \in Workers, Admit(w)
    PROVE  StepOK
<1>0. /\ pc[w] = "admit" /\ pc[w] # "idle" /\ UNCHANGED sent
      /\ Op(w) \in Operations /\ pc[w] \in HeldLabels
  BY Zenon, RunType DEF Admit, HeldLabels, RunLabels
<1>1. CASE Advance(w, "reconcile", journal[Op(w)], None) /\ UNCHANGED journal
  BY Zenon, <1>0, <1>1, AdvanceOK
<1>2. CASE Stop(w) /\ UNCHANGED journal
  BY Zenon, <1>0, <1>2, StopOK
<1>3. CASE /\ journal[Op(w)].state = "absent" /\ InsertRequested(w)
           /\ journal' = [journal EXCEPT ![Op(w)] = Requested(run[w].grant)]
  <2> DEFINE new == Requested(run[w].grant)
  <2>1. journal' = [journal EXCEPT ![Op(w)] = new]
    BY <1>3
  <2>2. /\ pc'[w] # "send"
        /\ \A v \in Workers \ {w} : pc'[v] = pc[v] /\ run'[v] = run[v]
    BY Zenon, <1>3 DEF InsertRequested, Advance, Stop, IInv, TypeOK
  <2>3. Permit' = Permit
    BY Zenon, <1>0, <2>2, PermitUnchanged
  <2>4. Permit[Op(w)] = FALSE
    BY Zenon, <1>0, PermitOfHolder DEF Permit, HasPermit
  <2>5. journal[Op(w)] = NoRow
    <3>1. journal[Op(w)] # NoRow => journal[Op(w)].state # "absent"
      BY Zenon, <1>0 DEF IInv, TypeOK, EveryRowDecodes, Decodes
    <3> QED BY Zenon, <1>3, <3>1
  <2>6. new.state = "requested" /\ RowAdvances(journal[Op(w)], new)
    BY Zenon, <1>0, <2>5, RequestedAdvances, NoRowType DEF Requested, NoRow
  <2> HIDE DEF new
  <2>7. /\ \A o \in Operations : RowAdvances(journal[o], journal'[o])
        /\ Phase' = [Phase EXCEPT ![Op(w)] = new.state]
        /\ Phase[Op(w)] = journal[Op(w)].state
    BY Zenon, <1>0, <2>1, <2>6, CommitAdvances
  <2>8. <<"absent", "requested">> \in Moves
    BY DEF Moves
  <2> QED
    BY Zenon, <1>0, <1>3, <2>3, <2>4, <2>6, <2>7, <2>8, MoveOK DEF StepOK
<1> QED
  BY <1>1, <1>2, <1>3 DEF Admit, InsertRequested

\* Reconcile writes facts once, moves phases forward and is a step of the lifecycle.
LEMMA ReconcileOK ==
    ASSUME IInv, NEW w \in Workers, Reconcile(w)
    PROVE  StepOK
<1>1. pc[w] = "reconcile" /\ UNCHANGED <<journal, sent>>
  BY Zenon DEF Reconcile
<1>2. CASE Stop(w)
  BY Zenon, <1>1, <1>2, StopOK
<1>3. CASE Advance(w, NextStep(journal[Op(w)]), journal[Op(w)], None)
  <2>1. NextStep(journal[Op(w)]) # "send"
    BY Zenon DEF NextStep
  <2> QED
    BY <1>1, <1>3, <2>1, AdvanceOK
<1> QED
  BY ZenonT(30), <1>2, <1>3 DEF Reconcile

\* MarkAuthorized writes facts once, moves phases forward and is a step of the lifecycle.
LEMMA MarkAuthorizedOK ==
    ASSUME IInv, NEW w \in Workers, MarkAuthorized(w)
    PROVE  StepOK
<1> DEFINE next == Authorized(loaded[w])
<1>1. /\ pc[w] = "authorize" /\ pc[w] \in WriterLabels \ {"send"}
      /\ Replace(w, next, "reconcile") /\ UNCHANGED sent
  BY Zenon DEF MarkAuthorized, WriterLabels, HeldLabels, RunLabels
<1>2. loaded[w] \in Rows /\ Decodes(loaded[w]) /\ loaded[w].state = "requested"
  BY Zenon, <1>1, WriterFacts DEF PhaseAt
<1>3. RowAdvances(loaded[w], next) /\ next.state = "authorized"
  BY Zenon, <1>2, AuthorizedAdvances DEF Authorized, Rows
<1>4. <<"requested", "authorized">> \in Moves
  BY Zenon DEF Moves
<1> HIDE DEF next
<1> QED
  BY Zenon, <1>1, <1>2, <1>3, <1>4, ReplaceOK

\* PreflightTarget writes facts once, moves phases forward and is a step of the lifecycle.
LEMMA PreflightTargetOK ==
    ASSUME IInv, NEW w \in Workers, PreflightTarget(w)
    PROVE  StepOK
<1>1. pc[w] = "preflight" /\ UNCHANGED <<journal, sent>>
  BY Zenon DEF PreflightTarget
<1>2. ASSUME NEW label \in {"reject", "attempt"}, NEW answer,
             Advance(w, label, loaded[w], answer)
      PROVE  StepOK
  BY Zenon, <1>1, <1>2, AdvanceOK
<1>3. CASE Stop(w)
  BY Zenon, <1>1, <1>3, StopOK
<1> QED
  BY Zenon, <1>2, <1>3 DEF PreflightTarget

\* MarkNotAttempted writes facts once, moves phases forward and is a step of the lifecycle.
LEMMA MarkNotAttemptedOK ==
    ASSUME IInv, NEW w \in Workers, MarkNotAttempted(w)
    PROVE  StepOK
<1> DEFINE next == Rejected(loaded[w], fetched[w].rejection)
<1>1. /\ pc[w] = "reject" /\ pc[w] \in WriterLabels \ {"send"}
      /\ Replace(w, next, "reconcile") /\ UNCHANGED sent
  BY Zenon DEF MarkNotAttempted, WriterLabels, HeldLabels, RunLabels
<1>2. loaded[w] \in Rows /\ Decodes(loaded[w]) /\ loaded[w].state = "authorized"
  BY Zenon, <1>1, WriterFacts DEF PhaseAt
<1>3. RowAdvances(loaded[w], next) /\ next.state = "not_attempted"
  BY Zenon, <1>2, RejectedAdvances DEF Rejected, Rows
<1>4. <<"authorized", "not_attempted">> \in Moves
  BY Zenon DEF Moves
<1> HIDE DEF next
<1> QED
  BY Zenon, <1>1, <1>2, <1>3, <1>4, ReplaceOK

\* BeginAttempt writes facts once, moves phases forward and is a step of the lifecycle.
LEMMA BeginAttemptOK ==
    ASSUME IInv, NEW w \in Workers, BeginAttempt(w)
    PROVE  StepOK
<1> DEFINE stale == StaleApproval(loaded[w], fetched[w])
           next == ApplyStarted(loaded[w], fetched[w])
<1>1. pc[w] = "attempt" /\ pc[w] \in WriterLabels \ {"send"} /\ UNCHANGED sent
  BY Zenon DEF BeginAttempt, WriterLabels, HeldLabels, RunLabels
<1>2. loaded[w] \in Rows /\ Decodes(loaded[w]) /\ loaded[w].state = "authorized"
  BY Zenon, <1>1, WriterFacts DEF PhaseAt
<1>3. CASE Replace(w, stale, "reconcile")
  <2>1. RowAdvances(loaded[w], stale) /\ stale.state = "not_attempted"
    BY ZenonT(30), <1>2, StaleAdvances DEF StaleApproval, Rows
  <2>2. <<"authorized", "not_attempted">> \in Moves
    BY DEF Moves
  <2> HIDE DEF stale
  <2> QED
    BY Zenon, <1>1, <1>2, <1>3, <2>1, <2>2, ReplaceOK
<1>4. CASE Replace(w, next, "send")
  <2>1. RowAdvances(loaded[w], next) /\ next.state = "apply_started"
    BY Zenon, <1>2, StartedAdvances DEF ApplyStarted, Rows
  <2>2. <<"authorized", "apply_started">> \in Moves
    BY Zenon DEF Moves
  <2> HIDE DEF next
  <2> QED
    BY Zenon, <1>1, <1>2, <1>4, <2>1, <2>2, ReplaceOK
<1> QED
  BY Zenon, <1>3, <1>4 DEF BeginAttempt

\* The send consumes the permission.
LEMMA ApplyOK ==
    ASSUME IInv, NEW w \in Workers, Apply(w)
    PROVE  StepOK
<1>1. /\ pc[w] = "send" /\ pc'[w] = "awaiting" /\ UNCHANGED journal
      /\ \A v \in Workers \ {w} : pc'[v] = pc[v]
      /\ sent' = [sent EXCEPT ![Op(w)] = @ + 1]
  BY Zenon DEF Apply, Advance, IInv, TypeOK
<1>2. /\ Permit[Op(w)] /\ Op(w) \in Operations
      /\ Permit' = [Permit EXCEPT ![Op(w)] = FALSE]
  BY Zenon, <1>1, PermitEnds
<1>3. PICK o \in Operations : o = Op(w)
  BY <1>2
<1>4. Abstract!Dispatch(o)
  BY Zenon, <1>1, <1>2, <1>3 DEF Abstract!Dispatch, Permit
<1>5. AbstractNext
  BY Zenon, <1>4, PermitSteps
<1>6. \A x \in Operations : RowAdvances(journal[x], journal'[x])
  BY ZenonT(30), <1>1, SameRow DEF IInv, TypeOK
<1> QED
  BY Zenon, <1>5, <1>6 DEF StepOK

\* ApplyReturned writes facts once, moves phases forward and is a step of the lifecycle.
LEMMA ApplyReturnedOK ==
    ASSUME IInv, NEW w \in Workers, ApplyReturned(w)
    PROVE  StepOK
BY Zenon, AdvanceOK, StopOK DEF ApplyReturned

\* RecordApplyOutcome writes facts once, moves phases forward and is a step of the lifecycle.
LEMMA RecordApplyOutcomeOK ==
    ASSUME IInv, NEW w \in Workers, RecordApplyOutcome(w)
    PROVE  StepOK
<1> DEFINE next == Responded(loaded[w], fetched[w])
<1>1. /\ pc[w] = "respond" /\ pc[w] \in WriterLabels \ {"send"}
      /\ Replace(w, next, "observe") /\ UNCHANGED sent
  BY Zenon DEF RecordApplyOutcome, WriterLabels, HeldLabels, RunLabels
<1>2. loaded[w] \in Rows /\ Decodes(loaded[w]) /\ loaded[w].state = "apply_started"
      /\ loaded[w].response = None
  BY Zenon, <1>1, WriterFacts DEF PhaseAt, IInv, RunFits
<1>3. RowAdvances(loaded[w], next) /\ next.state = "apply_started"
  BY Zenon, <1>2, RespondedAdvances DEF Responded, Rows
<1>4. <<"apply_started", "apply_started">> \in Moves
  BY Zenon DEF Moves
<1> HIDE DEF next
<1> QED
  BY Zenon, <1>1, <1>2, <1>3, <1>4, ReplaceOK

\* ObserveReceiver writes facts once, moves phases forward and is a step of the lifecycle.
LEMMA ObserveReceiverOK ==
    ASSUME IInv, NEW w \in Workers, ObserveReceiver(w)
    PROVE  StepOK
<1>1. pc[w] = "observe" /\ UNCHANGED <<journal, sent>>
  BY Zenon DEF ObserveReceiver
<1>2. ASSUME NEW obs, Advance(w, "freeze", loaded[w], obs)
      PROVE  StepOK
  BY Zenon, <1>1, <1>2, AdvanceOK
<1>3. CASE UNCHANGED <<pc, run>>
  BY <1>1, <1>3, RunsUnchanged
<1> QED
  BY Zenon, <1>2, <1>3 DEF ObserveReceiver

\* FreezeObservation writes facts once, moves phases forward and is a step of the lifecycle.
LEMMA FreezeObservationOK ==
    ASSUME IInv, NEW w \in Workers, FreezeObservation(w)
    PROVE  StepOK
<1> DEFINE next == Frozen(loaded[w], fetched[w])
<1>1. /\ pc[w] = "freeze" /\ pc[w] \in WriterLabels \ {"send"}
      /\ Replace(w, next, "reconcile") /\ UNCHANGED sent
  BY Zenon DEF FreezeObservation, WriterLabels, HeldLabels, RunLabels
<1>2. loaded[w] \in Rows /\ Decodes(loaded[w]) /\ loaded[w].state = "apply_started"
  BY Zenon, <1>1, WriterFacts DEF PhaseAt
<1>3. RowAdvances(loaded[w], next) /\ next.state = "receiver_observed"
  BY Zenon, <1>2, FrozenAdvances DEF Frozen, Rows
<1>4. <<"apply_started", "receiver_observed">> \in Moves
  BY Zenon DEF Moves
<1> HIDE DEF next
<1> QED
  BY Zenon, <1>1, <1>2, <1>3, <1>4, ReplaceOK

\* FinalizeReceipt writes facts once, moves phases forward and is a step of the lifecycle.
LEMMA FinalizeReceiptOK ==
    ASSUME IInv, NEW w \in Workers, FinalizeReceipt(w)
    PROVE  StepOK
<1> DEFINE next == Finalized(loaded[w], run[w].signing)
<1>1. /\ pc[w] = "sign" /\ pc[w] \in WriterLabels \ {"send"}
      /\ Replace(w, next, "reconcile") /\ UNCHANGED sent
  BY Zenon DEF FinalizeReceipt, WriterLabels, HeldLabels, RunLabels
<1>2. loaded[w] \in Rows /\ Decodes(loaded[w]) /\ loaded[w].state = "receiver_observed"
  BY Zenon, <1>1, WriterFacts DEF PhaseAt
<1>3. RowAdvances(loaded[w], next) /\ next.state = "finalized"
  BY Zenon, <1>2, FinalizedAdvances DEF Finalized, Rows
<1>4. <<"receiver_observed", "finalized">> \in Moves
  BY Zenon DEF Moves
<1> HIDE DEF next
<1> QED
  BY Zenon, <1>1, <1>2, <1>3, <1>4, ReplaceOK

\* Every step.
LEMMA NextOK == IInv /\ [Next]_vars => StepOK
<1> SUFFICES ASSUME IInv, [Next]_vars PROVE StepOK
  BY Zenon
<1>1. CASE UNCHANGED vars
  BY Zenon, <1>1, RunsUnchanged DEF vars, workerVars
<1>2. ASSUME NEW w \in Workers, NEW grant \in Grants, NEW adapter \in BOOLEAN,
             NEW signing \in Keys \cup {None}, Begin(w, grant, adapter, signing)
      PROVE  StepOK
  BY Zenon, <1>2, BeginOK
<1>3. ASSUME NEW w \in Workers, Step(w) PROVE StepOK
  BY Zenon, <1>3, TryLockWorkerOK, AdmitOK, ReconcileOK, MarkAuthorizedOK,
     PreflightTargetOK, MarkNotAttemptedOK, BeginAttemptOK, ApplyOK,
     ApplyReturnedOK, RecordApplyOutcomeOK, ObserveReceiverOK,
     FreezeObservationOK, FinalizeReceiptOK DEF Step
<1>4. ASSUME NEW w \in Workers, Crash(w) PROVE StepOK
  BY Zenon, <1>4, StopOK DEF Crash
<1>5. CASE Receiver
  <2>1. UNCHANGED <<journal, sent, pc, run>>
    BY Zenon, <1>5 DEF Receiver, PatchArrives, ControllerReports, OthersEdit, OthersReplace,
                workerVars
  <2> QED
    BY Zenon, <2>1, RunsUnchanged
<1> QED
  BY Zenon, <1>1, <1>2, <1>3, <1>4, <1>5 DEF Next

-----------------------------------------------------------------------------
(* The theorems.                                                           *)

\* No recorded fact changes: neither a retry nor a later observation, grant or
\* signer rewrites a column.
THEOREM KubernetesFactsAreWrittenOnce == Spec => FactsAreWrittenOnce
<1>1. IInv /\ [Next]_vars =>
         [\A o \in Operations : \A column \in DOMAIN NoRow \ {"state"} :
             journal[o][column] # None => journal'[o][column] = journal[o][column]]_vars
  BY NextOK, ColumnsDef DEF StepOK, RowAdvances
<1> QED
  BY <1>1, KubernetesInvariant, PTL DEF Spec, FactsAreWrittenOnce

\* Phases only advance, and a terminal row never changes.
THEOREM KubernetesPhasesAdvance == Spec => PhasesAdvance
<1>1. IInv /\ [Next]_vars =>
         [\A o \in Operations :
             /\ journal[o].state \in TerminalStates => journal'[o] = journal[o]
             /\ Rank(journal[o].state) <= Rank(journal'[o].state)]_vars
  BY Zenon, NextOK DEF StepOK, RowAdvances
<1> QED
  BY <1>1, KubernetesInvariant, PTL DEF Spec, PhasesAdvance

\* The initial states are initial states of the lifecycle.
LEMMA InitAbstract == Init => Abstract!Init
<1> SUFFICES ASSUME Init PROVE Abstract!Init
  OBVIOUS
<1>1. \A o \in Operations : HasPermit(o) = FALSE
  BY Zenon DEF Init, HasPermit
<1>2. \A o \in Operations : journal[o].state = "absent"
  BY Zenon, NoRowType DEF Init
<1> QED
  BY ZenonT(30), <1>1, <1>2 DEF Init, Abstract!Init

\* The effect gateway implements the effect lifecycle: a durable attempt precedes
\* the permission to send, the permission is used or lost once, and observation
\* and receipt follow.
THEOREM KubernetesImplementsLifecycle == Spec => ImplementsLifecycle
<1>1. IInv /\ [Next]_vars => [Abstract!Next]_(Abstract!vars)
  BY Zenon, NextOK DEF StepOK, AbstractNext
<1> QED
  BY <1>1, InitAbstract, KubernetesInvariant, PTL DEF Spec, ImplementsLifecycle, Abstract!Spec

-----------------------------------------------------------------------------
(* What callers were told.                                                 *)

\* A row vouches for an admission: it is retained under that grant, in that phase or
\* a later one.
Vouches(row, grant, state) ==
    row.grant = grant /\ Rank(state) <= Rank(row.state)

\* A run that waits for the lease with a row in hand may acknowledge that row.
LockFits(w) ==
    pc[w] = "lock" /\ loaded[w].state # "absent" =>
        Vouches(journal[Op(w)], run[w].grant, loaded[w].state)

AckInv == AcknowledgedIsDurable /\ \A w \in Workers : LockFits(w)

\* What a row vouches for, every later row vouches for.
LEMMA VouchesStays ==
    ASSUME NEW row \in Rows, NEW next \in Rows, RowAdvances(row, next),
           NEW grant \in Grants, NEW state \in OperationStates, Vouches(row, grant, state)
    PROVE  Vouches(next, grant, state)
<1>1. next.grant = grant
  BY Zenon, NoneFacts DEF RowAdvances, Columns, Vouches, Rows
<1>2. Rank(state) \in Nat /\ Rank(row.state) \in Nat /\ Rank(next.state) \in Nat
  BY Zenon, RankType DEF Rows
<1>3. Rank(state) <= Rank(row.state) /\ Rank(row.state) <= Rank(next.state)
  BY Zenon DEF Vouches, RowAdvances
<1>4. Rank(state) <= Rank(next.state)
  BY <1>2, <1>3
<1> QED
  BY Zenon, <1>1, <1>4 DEF Vouches

\* A row vouches for its own phase under its own grant.
LEMMA VouchesItself ==
    ASSUME NEW row \in Rows
    PROVE  Vouches(row, row.grant, row.state)
BY RankType DEF Vouches, Rows

\* A step keeps what was acknowledged if what it acknowledges is vouched for, and so
\* is what it loads before the lease.
LEMMA AckKeeps ==
    ASSUME IInv, IInv', StepOK, AckInv,
           \A o \in Operations : acked'[o] # None =>
              \/ acked'[o] = acked[o]
              \/ Vouches(journal'[o], acked'[o].grant, acked'[o].state),
           \A w \in Workers : pc'[w] = "lock" =>
              \/ LockFits(w)'
              \/ pc[w] = "lock" /\ run'[w] = run[w] /\ loaded'[w] = loaded[w]
    PROVE  AckInv'
<1>1. \A o \in Operations : journal[o] \in Rows /\ journal'[o] \in Rows
                            /\ RowAdvances(journal[o], journal'[o])
  BY ZenonT(30) DEF IInv, TypeOK, StepOK
<1>2. ASSUME NEW o \in Operations, acked'[o] # None
      PROVE  Vouches(journal'[o], acked'[o].grant, acked'[o].state)
  <2>1. CASE acked'[o] = acked[o]
    <3>1. acked[o].grant \in Grants /\ acked[o].state \in OperationStates
      BY ZenonT(30), <1>2, <2>1 DEF IInv, TypeOK
    <3>2. Vouches(journal[o], acked[o].grant, acked[o].state)
      BY ZenonT(30), <1>2, <2>1 DEF AckInv, AcknowledgedIsDurable, Vouches
    <3> QED
      BY Zenon, <1>1, <2>1, <3>1, <3>2, VouchesStays
  <2> QED
    BY ZenonT(30), <1>2, <2>1
<1>3. ASSUME NEW w \in Workers PROVE LockFits(w)'
  <2>1. CASE pc'[w] = "lock" /\ loaded'[w].state # "absent"
             /\ pc[w] = "lock" /\ run'[w] = run[w] /\ loaded'[w] = loaded[w]
    <3>1. /\ run[w].grant \in Grants /\ loaded[w].state \in OperationStates
          /\ Op(w) \in Operations
      BY ZenonT(30), <2>1, RunType DEF IInv, TypeOK, Rows
    <3>2. Vouches(journal[Op(w)], run[w].grant, loaded[w].state)
      BY ZenonT(30), <2>1 DEF AckInv, LockFits
    <3>3. Vouches(journal'[Op(w)], run[w].grant, loaded[w].state)
      BY Zenon, <1>1, <3>1, <3>2, VouchesStays
    <3> QED
      BY ZenonT(30), <2>1, <3>3 DEF LockFits, Op
  <2> QED
    BY ZenonT(30), <2>1 DEF LockFits
<1> QED
  BY ZenonT(30), <1>2, <1>3 DEF AckInv, AcknowledgedIsDurable, Vouches

\* What a step of the run of w leaves alone in the other runs.
Others(w) ==
    \A v \in Workers \ {w} :
        /\ pc'[v] = pc[v] /\ run'[v] = run[v] /\ loaded'[v] = loaded[v]
        /\ fetched'[v] = fetched[v]

\* Stopping and advancing touch one run.
LEMMA StopFrame ==
    ASSUME IInv, NEW w \in Workers, Stop(w)
    PROVE  Others(w) /\ pc'[w] = "idle"
BY Zenon DEF Stop, IInv, TypeOK, Others

\* Advancing touches one run.
LEMMA AdvanceFrame ==
    ASSUME IInv, NEW w \in Workers, NEW label, NEW row, NEW answer,
           Advance(w, label, row, answer)
    PROVE  Others(w) /\ pc'[w] = label /\ fetched'[w] = answer
BY DEF Advance, IInv, TypeOK, Others

\* A replacement touches one run, and one row if it commits.
LEMMA ReplaceFrame ==
    ASSUME IInv, NEW w \in Workers, NEW next, NEW label, Replace(w, next, label)
    PROVE  /\ Others(w) /\ pc'[w] \in {"idle", label}
           /\ journal' = journal \/ journal' = [journal EXCEPT ![Op(w)] = next]
BY Zenon, StopFrame, AdvanceFrame DEF Replace

\* After admission a run acknowledges nothing.
LEMMA LaterSteps ==
    ASSUME IInv, NEW w \in Workers,
           \/ Reconcile(w) \/ MarkAuthorized(w) \/ PreflightTarget(w) \/ MarkNotAttempted(w)
           \/ BeginAttempt(w) \/ Apply(w) \/ ApplyReturned(w) \/ RecordApplyOutcome(w)
           \/ ObserveReceiver(w) \/ FreezeObservation(w) \/ FinalizeReceipt(w) \/ Crash(w)
    PROVE  Others(w) /\ pc'[w] # "lock" /\ UNCHANGED acked
<1>1. UNCHANGED acked
  BY ZenonT(30) DEF Reconcile, MarkAuthorized, PreflightTarget, MarkNotAttempted,
      BeginAttempt, Apply,
     ApplyReturned, RecordApplyOutcome, ObserveReceiver, FreezeObservation, FinalizeReceipt,
     Crash
<1>2. CASE MarkAuthorized(w) \/ MarkNotAttempted(w) \/ BeginAttempt(w) \/ RecordApplyOutcome(w)
           \/ FreezeObservation(w) \/ FinalizeReceipt(w)
  <2>1. ASSUME NEW next, NEW label \in {"reconcile", "send", "observe"}, Replace(w, next, label)
        PROVE  Others(w) /\ pc'[w] # "lock"
    BY Zenon, <2>1, ReplaceFrame
  <2> QED
    BY Zenon, <1>1, <1>2, <2>1 DEF MarkAuthorized, MarkNotAttempted, BeginAttempt,
        RecordApplyOutcome,
       FreezeObservation, FinalizeReceipt
<1>3. CASE Stop(w)
  BY <1>1, <1>3, StopFrame
<1>4. ASSUME NEW label, label # "lock", NEW row, NEW answer, Advance(w, label, row, answer)
      PROVE  Others(w) /\ pc'[w] # "lock"
  BY Zenon, <1>4, AdvanceFrame
<1>5. CASE Reconcile(w)
  <2>1. NextStep(journal[Op(w)]) # "lock"
    BY Zenon DEF NextStep
  <2> QED
    BY Zenon, <1>1, <1>3, <1>4, <1>5, <2>1 DEF Reconcile
<1>6. CASE PreflightTarget(w) \/ Apply(w) \/ ApplyReturned(w) \/ Crash(w)
  BY ZenonT(30), <1>1, <1>3, <1>4, <1>6 DEF PreflightTarget, Apply, ApplyReturned, Crash
<1>7. CASE ObserveReceiver(w)
  <2>1. CASE UNCHANGED <<lease, pc, run, loaded, fetched>>
    BY ZenonT(30), <1>1, <1>7, <2>1 DEF ObserveReceiver, Others
  <2> QED
    BY ZenonT(30), <1>1, <1>4, <1>7, <2>1 DEF ObserveReceiver
<1> QED
  BY <1>2, <1>5, <1>6, <1>7

\* What Acknowledge leaves alone.
LEMMA AcknowledgeFrame ==
    ASSUME IInv, NEW w \in Workers, pc[w] # "idle", NEW state, Acknowledge(w, state)
    PROVE  /\ acked'[Op(w)] = [grant |-> run[w].grant, state |-> state]
           /\ \A o \in Operations \ {Op(w)} : acked'[o] = acked[o]
BY ZenonT(30), RunType DEF Acknowledge, IInv, TypeOK

\* Begin acknowledges a terminal row, or takes a row in hand.
LEMMA BeginAck ==
    ASSUME IInv, IInv', AckInv, NEW w \in Workers, NEW grant \in Grants, NEW adapter,
           NEW signing,
           Begin(w, grant, adapter, signing)
    PROVE  AckInv'
<1> DEFINE row == journal[grant.operation]
<1>1. /\ grant.operation \in Operations /\ row \in Rows /\ UNCHANGED journal
      /\ row.state # "absent" => row.grant = grant
  BY Zenon, GrantFacts DEF Begin, IInv, TypeOK
<1>2. StepOK
  BY Zenon, BeginOK
<1>3. row.state # "absent" => Vouches(row, grant, row.state)
  BY <1>1, VouchesItself
<1>4. CASE /\ row.state \in TerminalStates /\ UNCHANGED workerVars
           /\ acked' = [acked EXCEPT ![grant.operation] = [grant |-> grant, state |-> row.state]]
  <2>1. /\ acked'[grant.operation] = [grant |-> grant, state |-> row.state]
        /\ \A o \in Operations \ {grant.operation} : acked'[o] = acked[o]
    BY ZenonT(30), <1>1, <1>4 DEF IInv, TypeOK
  <2>2. Vouches(journal'[grant.operation], grant, row.state)
    BY ZenonT(30), <1>1, <1>3, <1>4 DEF TerminalStates
  <2>3. \A o \in Operations : acked'[o] # None =>
           \/ acked'[o] = acked[o]
           \/ Vouches(journal'[o], acked'[o].grant, acked'[o].state)
    BY <2>1, <2>2
  <2> QED
    BY ZenonT(30), <1>2, <1>4, <2>3, AckKeeps DEF workerVars
<1>5. CASE /\ pc' = [pc EXCEPT ![w] = "lock"]
           /\ run' = [run EXCEPT ![w] =
                       [grant |-> grant, adapter |-> adapter, signing |-> signing]]
           /\ loaded' = [loaded EXCEPT ![w] = row]
           /\ UNCHANGED acked
  <2>1. \A v \in Workers \ {w} : pc'[v] = pc[v] /\ run'[v] = run[v] /\ loaded'[v] = loaded[v]
    BY Zenon, <1>5 DEF IInv, TypeOK
  <2>2. run'[w].grant = grant /\ loaded'[w] = row
    BY ZenonT(30), <1>5 DEF IInv, TypeOK
  <2>3. LockFits(w)'
    BY <1>1, <1>3, <2>2 DEF LockFits, Op
  <2> QED
    BY Zenon, <1>2, <1>5, <2>1, <2>3, AckKeeps
<1> QED
  BY ZenonT(30), <1>4, <1>5 DEF Begin

\* Contention acknowledges only what was retained when the run read it.
LEMMA TryLockWorkerAck ==
    ASSUME IInv, IInv', AckInv, NEW w \in Workers, TryLockWorker(w)
    PROVE  AckInv'
<1>1. pc[w] = "lock" /\ UNCHANGED journal /\ StepOK /\ pc[w] # "idle" /\ Op(w) \in Operations
  BY ZenonT(30), TryLockWorkerOK, RunType DEF TryLockWorker
<1>2. CASE pc' = [pc EXCEPT ![w] = "admit"] /\ UNCHANGED <<run, loaded, acked>>
  <2>1. \A v \in Workers : pc'[v] = "lock" => pc[v] = "lock"
    BY ZenonT(30), <1>2 DEF IInv, TypeOK
  <2> QED
    BY ZenonT(30), <1>1, <1>2, <2>1, AckKeeps
<1>3. CASE /\ IF loaded[w].state = "absent" THEN UNCHANGED acked
              ELSE Acknowledge(w, loaded[w].state)
           /\ Stop(w)
  <2>1. Others(w) /\ pc'[w] = "idle"
    BY Zenon, <1>3, StopFrame
  <2>2. ASSUME NEW o \in Operations, acked'[o] # None
        PROVE  \/ acked'[o] = acked[o]
               \/ Vouches(journal'[o], acked'[o].grant, acked'[o].state)
    <3>1. CASE loaded[w].state # "absent"
      <4>1. Vouches(journal'[Op(w)], run[w].grant, loaded[w].state)
        <5>1. LockFits(w) /\ journal'[Op(w)] = journal[Op(w)]
          BY Zenon, <1>1 DEF AckInv
        <5>2. Vouches(journal[Op(w)], run[w].grant, loaded[w].state)
          BY Zenon, <1>1, <3>1, <5>1 DEF LockFits
        <5> QED
          BY Zenon, <5>1, <5>2
      <4>2. PICK state : state = loaded[w].state
        BY Zenon
      <4>3. /\ acked'[Op(w)] = [grant |-> run[w].grant, state |-> state]
            /\ \A x \in Operations \ {Op(w)} : acked'[x] = acked[x]
        BY ZenonT(30), <1>1, <1>3, <3>1, <4>2, AcknowledgeFrame
      <4>4. acked'[Op(w)].grant = run[w].grant /\ acked'[Op(w)].state = loaded[w].state
        BY <4>2, <4>3
      <4> QED
        BY Zenon, <4>1, <4>3, <4>4
    <3> QED
      BY <1>3, <3>1
  <2> QED
    BY ZenonT(30), <1>1, <2>1, <2>2, AckKeeps DEF Others
<1> QED
  BY ZenonT(30), <1>2, <1>3 DEF TryLockWorker

\* Admission acknowledges the row it retains.
LEMMA AdmitAck ==
    ASSUME IInv, IInv', AckInv, NEW w \in Workers, Admit(w)
    PROVE  AckInv'
<1>1. pc[w] = "admit" /\ StepOK /\ pc[w] # "idle" /\ Op(w) \in Operations
        /\ run[w].grant \in Grants
  BY ZenonT(30), AdmitOK, RunType DEF Admit
<1>2. ASSUME Others(w), pc'[w] # "lock", UNCHANGED acked PROVE AckInv'
  BY Zenon, <1>1, <1>2, AckKeeps DEF Others
<1>3. CASE Stop(w) /\ UNCHANGED acked
  BY <1>2, <1>3, StopFrame
<1>4. ASSUME NEW row \in Rows, journal'[Op(w)] = row, row.grant = run[w].grant,
             Acknowledge(w, row.state), Advance(w, "reconcile", row, None)
      PROVE  AckInv'
  <2>1. Others(w) /\ pc'[w] # "lock"
    BY <1>4, AdvanceFrame
  <2>2. Vouches(journal'[Op(w)], run[w].grant, row.state)
    BY ZenonT(30), <1>4, VouchesItself
  <2>3. \A o \in Operations : acked'[o] # None =>
           \/ acked'[o] = acked[o]
           \/ Vouches(journal'[o], acked'[o].grant, acked'[o].state)
    <3>1. PICK state : state = row.state
      BY Zenon
    <3>2. /\ acked'[Op(w)] = [grant |-> run[w].grant, state |-> state]
          /\ \A o \in Operations \ {Op(w)} : acked'[o] = acked[o]
      BY ZenonT(30), <1>1, <1>4, <3>1, AcknowledgeFrame
    <3>3. acked'[Op(w)].grant = run[w].grant /\ acked'[Op(w)].state = row.state
      BY <3>1, <3>2
    <3> QED
      BY Zenon, <2>2, <3>2, <3>3
  <2> QED
    BY Zenon, <1>1, <2>1, <2>3, AckKeeps DEF Others
<1>5. CASE /\ Custody(w) /\ Acknowledge(w, journal[Op(w)].state)
           /\ Advance(w, "reconcile", journal[Op(w)], None) /\ UNCHANGED journal
  BY ZenonT(30), <1>1, <1>4, <1>5 DEF Custody, IInv, TypeOK
<1>6. CASE /\ journal' = [journal EXCEPT ![Op(w)] = Requested(run[w].grant)]
           /\ Acknowledge(w, "requested")
           /\ Advance(w, "reconcile", Requested(run[w].grant), None)
  <2> DEFINE new == Requested(run[w].grant)
  <2>1. new \in Rows /\ new.state = "requested" /\ new.grant = run[w].grant
          /\ journal'[Op(w)] = new
    BY Zenon, <1>1, <1>6, RequestedRow DEF IInv, TypeOK
  <2> HIDE DEF new
  <2> QED
    BY ZenonT(30), <1>4, <1>6, <2>1 DEF new
<1> QED
  BY Zenon, <1>3, <1>5, <1>6 DEF Admit, InsertRequested

\* What a caller was told is admitted stays true: the row is retained under that grant
\* and never falls behind the phase the caller was told.
THEOREM KubernetesAcknowledged == Spec => []AcknowledgedIsDurable
<1>1. Init => AckInv
  BY Zenon DEF Init, AckInv, AcknowledgedIsDurable, LockFits
<1>2. IInv /\ IInv' /\ AckInv /\ [Next]_vars => AckInv'
  <2> SUFFICES ASSUME IInv, IInv', AckInv, [Next]_vars PROVE AckInv'
    BY Zenon
  <2>1. StepOK
    BY Zenon, NextOK
  <2>2. CASE UNCHANGED <<pc, run, loaded, acked>>
    BY Zenon, <2>1, <2>2, AckKeeps
  <2>3. CASE Receiver \/ UNCHANGED vars
    BY ZenonT(30), <2>2, <2>3 DEF Receiver, PatchArrives, ControllerReports, OthersEdit,
        OthersReplace,
       vars, workerVars
  <2>4. ASSUME NEW w \in Workers, Others(w), pc'[w] # "lock", UNCHANGED acked PROVE AckInv'
    BY Zenon, <2>1, <2>4, AckKeeps DEF Others
  <2> QED
    BY Zenon, <2>3, <2>4, BeginAck, TryLockWorkerAck, AdmitAck, LaterSteps DEF Next, Step
<1>3. AckInv => AcknowledgedIsDurable
  BY Zenon DEF AckInv
<1> QED
  BY <1>1, <1>2, <1>3, KubernetesInvariant, PTL DEF Spec

-----------------------------------------------------------------------------
(* What results say of the receiver.                                       *)

\* The verdict that classification reads off an observation.
ObservedVerdict(obs) ==
    IF obs.condition = "deadline_exceeded" THEN "failed"
    ELSE IF RolloutAvailable(obs) THEN "succeeded" ELSE "unknown"

\* What one read of the Deployment shows is backed by the patches that landed and the
\* verdicts that were published: its annotation is that of a landed patch, and its
\* status, if it is one for the generation it shows, was published for this object,
\* generation and image.
Backed(obs, patches, verdicts) ==
    /\ obs.marker # None => patches[obs.marker] # None
    /\ obs.observed # None => obs.observed <= obs.generation
    /\ obs.observed # None /\ obs.observed = obs.generation =>
          [uid |-> obs.uid, generation |-> obs.generation, image |-> obs.image,
           verdict |-> ObservedVerdict(obs)] \in verdicts

\* The same of the Deployment itself.
DeploymentBacked(d, patches, verdicts) ==
    /\ d.marker # None => patches[d.marker] # None
    /\ d.observed # None => d.observed <= d.generation /\ d.status # None
    /\ d.observed # None /\ d.observed = d.generation =>
          [uid |-> d.uid, generation |-> d.generation, image |-> d.image,
           verdict |-> Verdict(d.status)] \in verdicts

\* A row that claims an outcome is backed in the same way.
RowBacked(o, row, patches, verdicts) ==
    row.result \in {"succeeded", "failed"} =>
        /\ patches[o] # None
        /\ [uid |-> row.target.uid, generation |-> row.generation,
            image |-> row.grant.image, verdict |-> row.result] \in verdicts

TruthInv ==
    /\ DeploymentBacked(deployment, landed, reports)
    /\ \A w \in Workers : pc[w] = "freeze" => Backed(fetched[w], landed, reports)
    /\ \A o \in Operations : RowBacked(o, journal[o], landed, reports)

\* A read of a backed Deployment is backed, and one that failed says nothing.
LEMMA ReadsAreBacked ==
    ASSUME NEW d \in Deployments, NEW patches, NEW verdicts
    PROVE  /\ Backed(UnknownObservation, patches, verdicts)
           /\ DeploymentBacked(d, patches, verdicts) => Backed(Observe(d), patches, verdicts)
<1>1. Backed(UnknownObservation, patches, verdicts)
  BY Zenon DEF Backed, UnknownObservation
<1>2. ASSUME DeploymentBacked(d, patches, verdicts) PROVE Backed(Observe(d), patches, verdicts)
  <2> DEFINE obs == Observe(d)
  <2>1. /\ obs.uid = d.uid /\ obs.generation = d.generation /\ obs.observed = d.observed
        /\ obs.image = d.image /\ obs.marker = d.marker /\ obs.desired = DesiredReplicas
    BY ZenonT(30) DEF Observe
  <2>2. ASSUME d.status # None PROVE ObservedVerdict(obs) = Verdict(d.status)
    <3>1. /\ obs.updated = d.status.updated /\ obs.available = d.status.available
          /\ obs.unavailable = d.status.unavailable
          /\ obs.condition = RolloutCondition(d.status.conditions)
      BY Zenon, <2>2 DEF Observe, StatusField
    <3>2. /\ "deadline_exceeded" \in d.status.conditions <=> obs.condition = "deadline_exceeded"
          /\ "deadline_exceeded" \notin d.status.conditions =>
                ("available" \in d.status.conditions <=> obs.condition = "available")
      BY Zenon, <3>1, NoneAssumption DEF RolloutCondition, Conditions
    <3>3. DesiredReplicas # None
      BY Zenon, NoneFacts, BoundsAssumption
    <3> HIDE DEF obs
    <3> QED
      BY Zenon, <2>1, <3>1, <3>2, <3>3 DEF ObservedVerdict, Verdict, RolloutAvailable
  <2> HIDE DEF obs
  <2>3. Backed(obs, patches, verdicts)
    BY ZenonT(30), <1>2, <2>1, <2>2 DEF Backed, DeploymentBacked
  <2> QED
    BY Zenon, <2>3 DEF obs
<1> QED
  BY Zenon, <1>1, <1>2

\* More landed patches and more published verdicts back no less.
LEMMA BackedStays ==
    ASSUME NEW patches, NEW verdicts, NEW patches2, NEW verdicts2, verdicts \subseteq verdicts2,
           \A o \in Operations : patches[o] # None => patches2[o] # None
    PROVE  /\ \A obs \in Observations :
                 Backed(obs, patches, verdicts) => Backed(obs, patches2, verdicts2)
           /\ \A o \in Operations, row \in Rows :
                 RowBacked(o, row, patches, verdicts) => RowBacked(o, row, patches2, verdicts2)
<1>1. \A obs \in Observations : obs.marker # None => obs.marker \in Operations
  BY Zenon DEF Observations
<1> QED
  BY Zenon, <1>1 DEF Backed, RowBacked

\* Freezing a backed observation claims only what is backed: the generation it is
\* frozen with is the observed one, and its status is one for that generation.
LEMMA FrozenBacked ==
    ASSUME NEW row \in Rows, Decodes(row), row.state = "apply_started",
           NEW obs \in Observations,
           NEW patches, NEW verdicts, Backed(obs, patches, verdicts)
    PROVE  RowBacked(row.grant.operation, Frozen(row, obs), patches, verdicts)
<1> DEFINE operation == row.grant.operation
           image == row.grant.image
           outcome == ClassificationOutcome(row)
           requested == RequestedGeneration(obs, operation, image, outcome)
           result == ObservationResult(obs, operation, image, outcome)
           frozen == Frozen(row, obs)
<1>1. /\ frozen.generation = requested /\ frozen.result = result
      /\ frozen.grant = row.grant /\ frozen.target = row.target
  BY Zenon DEF Frozen, Rows
<1>2. outcome.uid = row.target.uid
  BY Zenon DEF ClassificationOutcome
<1>3. row.grant # None /\ row.grant \in Grants
  BY Zenon DEF Decodes, Rows
<1>4. operation \in Operations
  BY Zenon, <1>3, GrantFacts
<1> HIDE DEF outcome
<1>5. ASSUME result \in {"succeeded", "failed"}
      PROVE  /\ requested = obs.generation /\ obs.observed # None /\ obs.observed >= requested
             /\ requested # None /\ obs.marker = operation /\ obs.image = image
             /\ obs.uid = row.target.uid /\ result = ObservedVerdict(obs)
  <2>1. ReceiverEstablishesGeneration(obs, operation, image, outcome)
    BY Zenon, <1>5 DEF ObservationResult
  <2>2. result = ObservedVerdict(obs)
    BY <2>1 DEF ObservationResult, ObservedVerdict
  <2> QED
    BY Zenon, <1>2, <2>1, <2>2 DEF ReceiverEstablishesGeneration, OperationMatches
<1> HIDE DEF requested, result, frozen
<1>6. ASSUME result \in {"succeeded", "failed"}
      PROVE  /\ patches[operation] # None
             /\ [uid |-> row.target.uid, generation |-> requested,
                 image |-> image, verdict |-> result] \in verdicts
  <2>1. obs.generation \in Nat /\ obs.observed \in Nat
    BY Zenon, <1>5, <1>6 DEF Observations, OptionalNat
  <2>2. obs.observed <= obs.generation
    BY Zenon, <1>5, <1>6 DEF Backed
  <2>3. obs.observed = obs.generation
    BY <1>5, <1>6, <2>1, <2>2
  <2>4. obs.marker # None
    BY Zenon, <1>4, <1>5, <1>6, NoneFacts
  <2> QED
    BY Zenon, <1>5, <1>6, <2>3, <2>4 DEF Backed
<1> QED
  BY Zenon, <1>1, <1>6 DEF RowBacked, frozen

\* A step of a run keeps the truth of results, as long as what it fetches for a freeze
\* and what it writes are backed.
LEMMA RunTruth ==
    ASSUME IInv, TruthInv, NEW w \in Workers, Others(w),
           UNCHANGED <<deployment, landed, reports>>,
           pc'[w] = "freeze" => Backed(fetched'[w], landed, reports),
           NEW o \in Operations, NEW next, RowBacked(o, next, landed, reports),
           journal' = journal \/ journal' = [journal EXCEPT ![o] = next]
    PROVE  TruthInv'
<1>1. \A x \in Operations : RowBacked(x, journal'[x], landed, reports)
  <2>1. \A x \in Operations : RowBacked(x, journal[x], landed, reports)
    BY ZenonT(30) DEF TruthInv
  <2>2. \A x \in Operations : journal'[x] = journal[x] \/ (x = o /\ journal'[x] = next)
    BY ZenonT(30) DEF IInv, TypeOK
  <2> QED
    BY Zenon, <2>1, <2>2
<1>2. \A v \in Workers : pc'[v] = "freeze" => Backed(fetched'[v], landed, reports)
  BY ZenonT(30) DEF TruthInv, Others
<1>3. DeploymentBacked(deployment', landed, reports)
  BY ZenonT(30) DEF TruthInv
<1> QED
  BY ZenonT(30), <1>1, <1>2, <1>3 DEF TruthInv

\* A replacement whose row is backed keeps the truth of results.
LEMMA ReplaceTruth ==
    ASSUME IInv, TruthInv, NEW w \in Workers, pc[w] \in WriterLabels, NEW next, NEW label,
           label # "freeze", Replace(w, next, label), RowBacked(Op(w), next, landed, reports),
           UNCHANGED receiverVars
    PROVE  TruthInv'
<1>1. /\ Others(w) /\ pc'[w] \in {"idle", label} /\ Op(w) \in Operations
      /\ journal' = journal \/ journal' = [journal EXCEPT ![Op(w)] = next]
  BY Zenon, ReplaceFrame, WriterFacts
<1>2. UNCHANGED <<deployment, landed, reports>>
  BY DEF receiverVars
<1>3. PICK o \in Operations : o = Op(w)
  BY ZenonT(30), <1>1
<1> QED
  BY ZenonT(30), <1>1, <1>2, <1>3, RunTruth

\* A row without a result, or with the result of a backed row, is backed.
LEMMA SameResult ==
    ASSUME TruthInv, IInv, NEW w \in Workers, pc[w] \in WriterLabels, NEW next,
           \/ next.result = None
           \/ /\ next.result = loaded[w].result /\ next.target = loaded[w].target
              /\ next.generation = loaded[w].generation /\ next.grant = loaded[w].grant
    PROVE  RowBacked(Op(w), next, landed, reports)
<1>1. RowBacked(Op(w), loaded[w], landed, reports)
  BY Zenon, WriterFacts DEF TruthInv
<1>2. None \notin {"succeeded", "failed"}
  BY Zenon, NoneFacts DEF OperationResults
<1> QED
  BY ZenonT(30), <1>1, <1>2 DEF RowBacked

\* The writes of a run keep the truth of results.
LEMMA WritesAreTrue ==
    ASSUME IInv, TruthInv, NEW w \in Workers,
           \/ MarkAuthorized(w) \/ MarkNotAttempted(w) \/ BeginAttempt(w)
           \/ RecordApplyOutcome(w) \/ FinalizeReceipt(w)
    PROVE  TruthInv'
<1>1. /\ pc[w] \in {"authorize", "reject", "attempt", "respond", "sign"}
      /\ pc[w] \in WriterLabels /\ UNCHANGED receiverVars
  BY ZenonT(30) DEF MarkAuthorized, MarkNotAttempted, BeginAttempt, RecordApplyOutcome,
      FinalizeReceipt,
     WriterLabels, HeldLabels, RunLabels
<1>2. /\ loaded[w] \in Rows /\ Decodes(loaded[w]) /\ loaded[w].state = PhaseAt(pc[w])
  BY Zenon, <1>1, WriterFacts
<1>3. PhaseAt(pc[w]) \in {"requested", "authorized", "apply_started", "receiver_observed"}
      /\ (PhaseAt(pc[w]) = "receiver_observed" => pc[w] = "sign")
  BY <1>1 DEF PhaseAt
<1>4. pc[w] # "sign" => loaded[w].result = None
  BY Zenon, <1>2, <1>3 DEF Decodes, FrozenStates
<1>5. ASSUME NEW next, NEW label \in {"reconcile", "send", "observe"}, Replace(w, next, label),
             \/ next.result = None
             \/ /\ next.result = loaded[w].result /\ next.target = loaded[w].target
                /\ next.generation = loaded[w].generation /\ next.grant = loaded[w].grant
      PROVE  TruthInv'
  BY Zenon, <1>1, <1>5, SameResult, ReplaceTruth
<1>6. CASE MarkAuthorized(w)
  <2>1. Authorized(loaded[w]).result = None
    BY Zenon, <1>2, <1>4, <1>6 DEF Authorized, Rows, MarkAuthorized
  <2> QED
    BY Zenon, <1>5, <1>6, <2>1 DEF MarkAuthorized
<1>7. CASE MarkNotAttempted(w)
  <2>1. Rejected(loaded[w], fetched[w].rejection).result = None
    BY Zenon, <1>2, <1>4, <1>7 DEF Rejected, Rows, MarkNotAttempted
  <2> QED
    BY Zenon, <1>5, <1>7, <2>1 DEF MarkNotAttempted
<1>8. CASE BeginAttempt(w)
  <2>1. /\ StaleApproval(loaded[w], fetched[w]).result = None
        /\ ApplyStarted(loaded[w], fetched[w]).result = None
    BY <1>2, <1>4, <1>8 DEF StaleApproval, ApplyStarted, Rows, BeginAttempt
  <2> QED
    BY Zenon, <1>5, <1>8, <2>1 DEF BeginAttempt
<1>9. CASE RecordApplyOutcome(w)
  <2>1. Responded(loaded[w], fetched[w]).result = None
    BY Zenon, <1>2, <1>4, <1>9 DEF Responded, Rows, RecordApplyOutcome
  <2> QED
    BY Zenon, <1>5, <1>9, <2>1 DEF RecordApplyOutcome
<1>10. CASE FinalizeReceipt(w)
  <2> DEFINE next == Finalized(loaded[w], run[w].signing)
  <2>1. /\ next.result = loaded[w].result /\ next.target = loaded[w].target
        /\ next.generation = loaded[w].generation /\ next.grant = loaded[w].grant
    BY Zenon, <1>2 DEF Finalized, Rows
  <2>2. Replace(w, next, "reconcile")
    BY ZenonT(30), <1>10 DEF FinalizeReceipt
  <2> HIDE DEF next
  <2> QED
    BY Zenon, <1>5, <2>1, <2>2
<1> QED
  BY <1>6, <1>7, <1>8, <1>9, <1>10

\* freeze_observation records a result the receiver backs.
LEMMA FreezeIsTrue ==
    ASSUME IInv, TruthInv, NEW w \in Workers, FreezeObservation(w)
    PROVE  TruthInv'
<1>1. /\ pc[w] = "freeze" /\ pc[w] \in WriterLabels /\ UNCHANGED receiverVars
  BY Zenon DEF FreezeObservation, WriterLabels, HeldLabels, RunLabels
<1>2. /\ loaded[w] \in Rows /\ Decodes(loaded[w]) /\ loaded[w].state = "apply_started"
      /\ loaded[w].grant.operation = Op(w)
  BY Zenon, <1>1, WriterFacts DEF PhaseAt, Op
<1>3. fetched[w] \in Observations /\ Backed(fetched[w], landed, reports)
  BY ZenonT(30), <1>1 DEF IInv, RunFits, AnswerFits, TruthInv
<1>4. RowBacked(loaded[w].grant.operation, Frozen(loaded[w], fetched[w]), landed, reports)
  BY ZenonT(30), <1>2, <1>3, FrozenBacked
<1>5. Replace(w, Frozen(loaded[w], fetched[w]), "reconcile")
  BY ZenonT(30) DEF FreezeObservation
<1>6. RowBacked(Op(w), Frozen(loaded[w], fetched[w]), landed, reports)
  BY ZenonT(30), <1>2, <1>4
<1> QED
  BY Zenon, <1>1, <1>5, <1>6, ReplaceTruth

\* A step of a run that writes nothing, and fetches nothing for a freeze but a read of
\* the Deployment or the unknown observation.
LEMMA QuietRunIsTrue ==
    ASSUME IInv, TruthInv, NEW w \in Workers, Others(w),
           UNCHANGED <<journal, deployment, landed, reports>>,
           pc'[w] = "freeze" =>
              \/ pc[w] = "freeze" /\ fetched'[w] = fetched[w]
              \/ fetched'[w] \in {UnknownObservation, Observe(deployment)}
    PROVE  TruthInv'
<1>1. Backed(UnknownObservation, landed, reports)
        /\ Backed(Observe(deployment), landed, reports)
  BY Zenon, ReadsAreBacked DEF IInv, TypeOK, TruthInv
<1>2. \A v \in Workers : pc'[v] = "freeze" => Backed(fetched'[v], landed, reports)
  BY Zenon, <1>1 DEF TruthInv, Others
<1> QED
  BY Zenon, <1>2 DEF TruthInv

\* Every other step of a run.
LEMMA OtherStepsAreTrue ==
    ASSUME IInv, TruthInv, NEW w \in Workers,
           \/ TryLockWorker(w) \/ Reconcile(w) \/ PreflightTarget(w) \/ Apply(w)
           \/ ApplyReturned(w) \/ ObserveReceiver(w) \/ Crash(w)
    PROVE  TruthInv'
<1>1. UNCHANGED <<journal, deployment, landed, reports>>
  BY Zenon DEF TryLockWorker, Reconcile, PreflightTarget, Apply, ApplyReturned,
      ObserveReceiver, Crash,
     receiverVars
<1>2. CASE Stop(w)
  BY ZenonT(30), <1>1, <1>2, StopFrame, QuietRunIsTrue
<1>3. ASSUME NEW label, NEW row, NEW answer, Advance(w, label, row, answer),
             label # "freeze" \/ answer \in {UnknownObservation, Observe(deployment)}
      PROVE  TruthInv'
  BY <1>1, <1>3, AdvanceFrame, QuietRunIsTrue
<1>4. CASE TryLockWorker(w)
  <2>1. CASE pc' = [pc EXCEPT ![w] = "admit"] /\ UNCHANGED <<run, loaded, fetched>>
    <3>1. Others(w) /\ pc'[w] = "admit"
      BY <2>1 DEF Others, IInv, TypeOK
    <3> QED
      BY ZenonT(30), <1>1, <3>1, QuietRunIsTrue
  <2> QED
    BY ZenonT(30), <1>2, <1>4, <2>1 DEF TryLockWorker
<1>5. CASE Reconcile(w)
  <2>1. NextStep(journal[Op(w)]) # "freeze"
    BY Zenon DEF NextStep
  <2> QED
    BY Zenon, <1>2, <1>3, <1>5, <2>1 DEF Reconcile
<1>6. CASE PreflightTarget(w) \/ Apply(w) \/ ApplyReturned(w) \/ Crash(w)
  BY Zenon, <1>2, <1>3, <1>6 DEF PreflightTarget, Apply, ApplyReturned, Crash
<1>7. CASE ObserveReceiver(w)
  <2>1. CASE UNCHANGED <<lease, pc, run, loaded, fetched>>
    BY ZenonT(30), <1>1, <2>1, QuietRunIsTrue DEF Others
  <2> QED
    BY ZenonT(30), <1>3, <1>7, <2>1 DEF ObserveReceiver
<1> QED
  BY Zenon, <1>2, <1>4, <1>5, <1>6, <1>7

\* Admission inserts a row without a result.
LEMMA AdmissionIsTrue ==
    ASSUME IInv, TruthInv, NEW w \in Workers, Admit(w)
    PROVE  TruthInv'
<1>1. /\ pc[w] # "idle" /\ Op(w) \in Operations /\ UNCHANGED <<deployment, landed, reports>>
      /\ run[w].grant \in Grants
  BY Zenon, RunType DEF Admit, receiverVars
<1>2. /\ Others(w) /\ pc'[w] # "freeze"
      /\ journal' = journal \/ journal' = [journal EXCEPT ![Op(w)] = Requested(run[w].grant)]
  BY StopFrame, AdvanceFrame DEF Admit, InsertRequested
<1>3. RowBacked(Op(w), Requested(run[w].grant), landed, reports)
  BY Zenon, NoneFacts DEF RowBacked, Requested, NoRow, OperationResults
<1>4. PICK o \in Operations : o = Op(w)
  BY Zenon, <1>1
<1> QED
  BY ZenonT(30), <1>1, <1>2, <1>3, <1>4, RunTruth

\* Begin reads and starts a run.
LEMMA BeginIsTrue ==
    ASSUME IInv, TruthInv, NEW w \in Workers, NEW grant, NEW adapter, NEW signing,
           Begin(w, grant, adapter, signing)
    PROVE  TruthInv'
<1>1. UNCHANGED <<journal, deployment, landed, reports>>
  BY ZenonT(30) DEF Begin, receiverVars
<1>2. CASE UNCHANGED workerVars
  BY ZenonT(30), <1>1, <1>2, QuietRunIsTrue DEF Others, workerVars
<1>3. CASE /\ pc' = [pc EXCEPT ![w] = "lock"] /\ UNCHANGED fetched
           /\ run' = [run EXCEPT ![w] =
                       [grant |-> grant, adapter |-> adapter, signing |-> signing]]
           /\ loaded' = [loaded EXCEPT ![w] = journal[grant.operation]]
  <2>1. Others(w) /\ pc'[w] = "lock"
    BY Zenon, <1>3 DEF Others, IInv, TypeOK
  <2> QED
    BY Zenon, <1>1, <2>1, QuietRunIsTrue
<1> QED
  BY ZenonT(30), <1>2, <1>3 DEF Begin

\* A step of the receiver adds to its history and keeps the Deployment backed.
LEMMA ReceiverTruth ==
    ASSUME IInv, TruthInv, UNCHANGED <<journal, pc>>, reports \subseteq reports',
           \A o \in Operations : landed[o] # None => landed'[o] # None,
           \A v \in Workers : pc[v] = "freeze" => fetched'[v] = fetched[v],
           DeploymentBacked(deployment', landed', reports')
    PROVE  TruthInv'
<1>1. /\ \A obs \in Observations :
             Backed(obs, landed, reports) => Backed(obs, landed', reports')
      /\ \A o \in Operations, row \in Rows :
            RowBacked(o, row, landed, reports) => RowBacked(o, row, landed', reports')
  BY Zenon, BackedStays
<1>2. \A o \in Operations : RowBacked(o, journal'[o], landed', reports')
  BY Zenon, <1>1 DEF IInv, TypeOK, TruthInv
<1>3. \A v \in Workers : pc[v] = "freeze" => fetched[v] \in Observations
  BY ZenonT(30) DEF IInv, RunFits, AnswerFits
<1>4. \A v \in Workers : pc'[v] = "freeze" => Backed(fetched'[v], landed', reports')
  BY ZenonT(30), <1>1, <1>3 DEF TruthInv
<1> QED
  BY Zenon, <1>2, <1>4 DEF TruthInv

\* The numbers of the Deployment.
LEMMA DeploymentTypes ==
    ASSUME IInv
    PROVE  /\ deployment \in Deployments
           /\ deployment.generation \in Nat /\ deployment.observed \in Nat \cup {None}
           /\ deployment.marker \in Operations \cup {None}
BY Zenon DEF IInv, TypeOK, Deployments

\* A patch that lands leaves a status of another generation, or one for the same image.
LEMMA PatchTruth ==
    ASSUME IInv, TruthInv, NEW p \in inflight, PatchArrives(p)
    PROVE  TruthInv'
<1> DEFINE d == deployment
           patched == [d EXCEPT !.version = @ + 1, !.marker = p.operation, !.image = p.image,
                                !.generation = IF d.image = p.image THEN @ ELSE @ + 1]
           entry == [target |-> [uid |-> d.uid, version |-> d.version], image |-> p.image]
<1>1. p.operation \in Operations /\ p.image \in Images
  BY Zenon DEF IInv, TypeOK
<1>2. UNCHANGED <<journal, pc, reports>>
  BY Zenon DEF PatchArrives
<1>3. CASE UNCHANGED <<deployment, landed, fetched>>
  BY ZenonT(30), <1>2, <1>3, ReceiverTruth DEF TruthInv
<1>4. CASE /\ deployment' = patched /\ landed' = [landed EXCEPT ![p.operation] = entry]
           /\ fetched' = [w \in Workers |->
                            IF pc[w] = "awaiting" /\ Op(w) = p.operation
                            THEN [version |-> patched.version, generation |-> patched.generation]
                            ELSE fetched[w]]
  <2>1. \A v \in Workers : pc[v] = "freeze" => fetched'[v] = fetched[v]
    BY Zenon, <1>4
  <2>2. entry # None
    <3>1. entry \in Landings
      BY Zenon, <1>1, DeploymentTypes DEF Deployments, Targets, Landings
    <3> QED
      BY ZenonT(30), <3>1, NoneAssumption
  <2> HIDE DEF entry
  <2>3. \A o \in Operations : landed'[o] = IF o = p.operation THEN entry ELSE landed[o]
    BY Zenon, <1>1, <1>4 DEF IInv, TypeOK
  <2>4. /\ patched.uid = d.uid /\ patched.observed = d.observed /\ patched.status = d.status
        /\ patched.marker = p.operation /\ patched.image = p.image
        /\ patched.generation = IF d.image = p.image THEN d.generation ELSE d.generation + 1
    BY DeploymentTypes DEF Deployments
  <2> HIDE DEF patched
  <2>5. DeploymentBacked(d, landed, reports)
    BY Zenon DEF TruthInv
  <2>6. DeploymentBacked(patched, landed', reports)
    <3>1. patched.marker # None => landed'[patched.marker] # None
      BY <1>1, <2>2, <2>3, <2>4
    <3>2. CASE d.image = p.image
      BY ZenonT(30), <2>4, <2>5, <3>1, <3>2 DEF DeploymentBacked
    <3>3. CASE d.image # p.image
      <4>1. d.observed # None => d.observed <= d.generation + 1 /\ d.observed # d.generation + 1
        BY <2>5, DeploymentTypes DEF DeploymentBacked
      <4> QED
        BY Zenon, <2>4, <2>5, <3>1, <3>3, <4>1 DEF DeploymentBacked
    <3> QED
      BY Zenon, <3>2, <3>3
  <2> QED
    BY Zenon, <1>2, <1>4, <2>1, <2>2, <2>3, <2>6, ReceiverTruth
<1> QED
  BY Zenon, <1>2, <1>3, <1>4 DEF PatchArrives

\* What others write, and what the controller reports, leaves the Deployment backed.
LEMMA OthersTruth ==
    ASSUME IInv, TruthInv,
           \/ \E status \in Statuses : ControllerReports(status)
           \/ \E image \in Images \cup {None}, marker \in Operations \cup {None} :
                 OthersEdit(image, marker)
           \/ OthersReplace
    PROVE  TruthInv'
<1> DEFINE d == deployment
<1>1. UNCHANGED <<journal, pc, fetched, landed>> /\ reports \subseteq reports'
  BY Zenon DEF ControllerReports, OthersEdit, OthersReplace, workerVars
<1>2. DeploymentBacked(d, landed, reports)
  BY Zenon DEF TruthInv
<1>3. DeploymentBacked(deployment', landed, reports')
  <2>1. ASSUME NEW status \in Statuses, ControllerReports(status)
        PROVE  DeploymentBacked(deployment', landed, reports')
    <3>1. /\ deployment'.marker = d.marker /\ deployment'.observed = d.generation
          /\ deployment'.generation = d.generation /\ deployment'.uid = d.uid
          /\ deployment'.image = d.image /\ deployment'.status = status
      BY Zenon, <2>1, DeploymentTypes DEF ControllerReports, Deployments
    <3>2. [uid |-> d.uid, generation |-> d.generation, image |-> d.image,
           verdict |-> Verdict(status)] \in reports'
      BY Zenon, <2>1 DEF ControllerReports
    <3>3. status # None /\ d.generation <= d.generation
      BY NoneAssumption, DeploymentTypes
    <3> QED
      BY Zenon, <1>2, <3>1, <3>2, <3>3 DEF DeploymentBacked
  <2>2. ASSUME NEW image \in Images \cup {None}, NEW marker \in Operations \cup {None},
               OthersEdit(image, marker)
        PROVE  DeploymentBacked(deployment', landed, reports')
    <3>1. /\ deployment'.marker \in {d.marker, None} /\ deployment'.observed = d.observed
          /\ deployment'.generation = d.generation + 1 /\ deployment'.status = d.status
      BY ZenonT(30), <2>2, DeploymentTypes DEF OthersEdit, Deployments
    <3>2. d.observed # None => d.observed <= d.generation + 1 /\ d.observed # d.generation + 1
      BY <1>2, DeploymentTypes DEF DeploymentBacked
    <3> QED
      BY Zenon, <1>2, <3>1, <3>2 DEF DeploymentBacked
  <2>3. ASSUME OthersReplace PROVE DeploymentBacked(deployment', landed, reports')
    <3>0. reports' = reports
      BY ZenonT(30), <2>3 DEF OthersReplace
    <3>1. CASE deployment' = [d EXCEPT !.present = FALSE]
      <4>1. /\ deployment'.marker = d.marker /\ deployment'.observed = d.observed
            /\ deployment'.generation = d.generation /\ deployment'.uid = d.uid
            /\ deployment'.image = d.image /\ deployment'.status = d.status
        BY Zenon, <3>1, DeploymentTypes DEF Deployments
      <4> QED
        BY Zenon, <1>2, <3>0, <4>1 DEF DeploymentBacked
    <3>2. CASE \E image \in Images :
                  deployment' = [d EXCEPT !.present = TRUE, !.uid = @ + 1,
                                          !.version = @ + 1, !.generation = 1,
                                          !.image = image, !.marker = None,
                                          !.observed = None, !.status = None]
      <4>1. deployment'.marker = None /\ deployment'.observed = None
        BY Zenon, <3>2, DeploymentTypes DEF Deployments
      <4> QED
        BY Zenon, <4>1 DEF DeploymentBacked
    <3> QED
      BY Zenon, <2>3, <3>1, <3>2 DEF OthersReplace
  <2> QED
    BY Zenon, <2>1, <2>2, <2>3
<1> QED
  BY Zenon, <1>1, <1>3, ReceiverTruth

\* A recorded result other than unknown is true of the receiver: the patch landed and
\* the controller published that verdict for the recorded generation and image.
THEOREM KubernetesResults == Spec => []ResultIsTrue
<1>1. Init => TruthInv
  <2> SUFFICES ASSUME Init PROVE TruthInv
    OBVIOUS
  <2>1. DeploymentBacked(deployment, landed, reports)
    BY DEF Init, DeploymentBacked
  <2>2. \A o \in Operations : journal[o].result = None
    BY Zenon DEF Init, NoRow
  <2>3. \A w \in Workers : pc[w] # "freeze"
    BY Zenon DEF Init
  <2> QED
    BY ZenonT(30), <2>1, <2>2, <2>3, NoneFacts DEF TruthInv, RowBacked, OperationResults
<1>2. IInv /\ TruthInv /\ [Next]_vars => TruthInv'
  <2> SUFFICES ASSUME IInv, TruthInv, [Next]_vars PROVE TruthInv'
    OBVIOUS
  <2>1. CASE UNCHANGED vars
    BY Zenon, <2>1, ReceiverTruth DEF vars, workerVars, receiverVars, TruthInv
  <2>2. CASE Receiver
    BY Zenon, <2>2, PatchTruth, OthersTruth DEF Receiver
  <2>3. ASSUME NEW w \in Workers, Step(w) \/ Crash(w) PROVE TruthInv'
    BY <2>3, AdmissionIsTrue, WritesAreTrue, FreezeIsTrue, OtherStepsAreTrue DEF Step
  <2> QED
    BY Zenon, <2>1, <2>2, <2>3, BeginIsTrue DEF Next
<1>3. TruthInv => ResultIsTrue
  BY Zenon DEF TruthInv, RowBacked, ResultIsTrue
<1> QED
  BY <1>1, <1>2, <1>3, KubernetesInvariant, PTL DEF Spec

-----------------------------------------------------------------------------
(* What the inductive invariant implies.                                   *)

\* Every variable keeps its shape.
THEOREM KubernetesTypeOK == Spec => []TypeOK
<1>1. IInv => TypeOK
  BY DEF IInv
<1> QED BY KubernetesInvariant, <1>1, PTL

\* One approval causes at most one mutation request, for any number of
\* processes, crashes, lost acknowledgements and resumptions.
THEOREM KubernetesAtMostOneSend == Spec => []AtMostOneSend
<1>1. IInv => AtMostOneSend
  BY DEF IInv
<1> QED BY KubernetesInvariant, <1>1, PTL

\* No mutation request is sent before its attempt is durable, and none for an
\* operation recorded as not attempted.
THEOREM KubernetesDurableAttempt == Spec => []SentOnlyAfterDurableAttempt
<1>1. IInv => SentOnlyAfterDurableAttempt
  BY Zenon DEF IInv
<1> QED BY KubernetesInvariant, <1>1, PTL

\* Whatever a patch of this gateway changed is the version its grant approved.
THEOREM KubernetesApprovedVersion == Spec => []PatchLandsOnApprovedVersion
<1>1. IInv => PatchLandsOnApprovedVersion
  BY Zenon DEF IInv
<1> QED BY KubernetesInvariant, <1>1, PTL

\* Every row the gateway writes is one that its own reader accepts.
THEOREM KubernetesEveryRowDecodes == Spec => []EveryRowDecodes
<1>1. IInv => EveryRowDecodes
  BY DEF IInv
<1> QED BY KubernetesInvariant, <1>1, PTL

\* A run that may write holds the lease and its loaded row is the retained one.
THEOREM KubernetesLease == Spec => []LeaseProtectsLoadedRow
<1>1. IInv => LeaseProtectsLoadedRow
  BY Zenon DEF IInv, RunFits, LeaseProtectsLoadedRow, WriterLabels
<1> QED BY KubernetesInvariant, <1>1, PTL

-----------------------------------------------------------------------------
(* The abstract lifecycle itself, for any set of operations.               *)

CONSTANT AnyOperations

VARIABLES phase, permit, sends

Promise == INSTANCE Lifecycle WITH Operations <- AnyOperations

\* Initially nothing was admitted and nothing may be sent.
LEMMA LifecycleInit == Promise!Init => Promise!Inv
BY SMTT(30) DEF Promise!Init, Promise!Inv, Promise!TypeOK, Promise!AtMostOnce,
                Promise!PermitIsFresh, Promise!Phases

\* Every lifecycle step preserves the inductive invariant: permission is created
\* only with the attempt, and spent by the one send.
LEMMA LifecycleNext == Promise!Inv /\ [Promise!Next]_(Promise!vars) => Promise!Inv'
<1> SUFFICES ASSUME Promise!Inv, [Promise!Next]_(Promise!vars) PROVE Promise!Inv'
  OBVIOUS
<1> USE DEF Promise!Inv, Promise!TypeOK, Promise!AtMostOnce, Promise!PermitIsFresh,
            Promise!Phases, Promise!Attempted
<1>1. ASSUME NEW o \in AnyOperations, Promise!Admit(o) PROVE Promise!Inv'
  BY <1>1 DEF Promise!Admit, Promise!Move
<1>2. ASSUME NEW o \in AnyOperations, Promise!Authorize(o) PROVE Promise!Inv'
  BY <1>2 DEF Promise!Authorize, Promise!Move
<1>3. ASSUME NEW o \in AnyOperations, Promise!Reject(o) PROVE Promise!Inv'
  BY <1>3 DEF Promise!Reject, Promise!Move
<1>4. ASSUME NEW o \in AnyOperations, Promise!Attempt(o) PROVE Promise!Inv'
  <2>1. PICK confirmed \in BOOLEAN : permit' = [permit EXCEPT ![o] = confirmed]
    BY <1>4 DEF Promise!Attempt
  <2>2. /\ phase[o] = "authorized"
        /\ phase' = [phase EXCEPT ![o] = "apply_started"]
        /\ sends' = sends
    BY <1>4 DEF Promise!Attempt, Promise!Move
  <2> QED BY SMTT(30), <2>1, <2>2
<1>5. ASSUME NEW o \in AnyOperations, Promise!Dispatch(o) PROVE Promise!Inv'
  BY SMTT(30), <1>5 DEF Promise!Dispatch
<1>6. ASSUME NEW o \in AnyOperations, Promise!LosePermit(o) PROVE Promise!Inv'
  BY <1>6 DEF Promise!LosePermit
<1>7. ASSUME NEW o \in AnyOperations, Promise!Freeze(o) PROVE Promise!Inv'
  BY <1>7 DEF Promise!Freeze, Promise!Move
<1>8. ASSUME NEW o \in AnyOperations, Promise!Finalize(o) PROVE Promise!Inv'
  BY <1>8 DEF Promise!Finalize, Promise!Move
<1>9. CASE UNCHANGED Promise!vars
  BY <1>9 DEF Promise!vars
<1> QED
  BY <1>1, <1>2, <1>3, <1>4, <1>5, <1>6, <1>7, <1>8, <1>9 DEF Promise!Next

\* Every behaviour of the lifecycle sends at most one mutation request per
\* operation, and none for an operation whose attempt is not recorded.
THEOREM LifecycleAtMostOnce == Promise!Spec => []Promise!AtMostOnce
<1>1. Promise!Inv => Promise!AtMostOnce
  BY DEF Promise!Inv
<1> QED
  BY LifecycleInit, LifecycleNext, <1>1, PTL DEF Promise!Spec
=============================================================================
