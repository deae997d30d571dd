-------------------------- MODULE GitEffectProofs ---------------------------
(***************************************************************************)
(* Theorems about GitEffect for any number of operations, workers, grants  *)
(* and commits, and any ancestry: the inductive invariant and the lemmas   *)
(* about rows, runs and conditional replacements it rests on, that every   *)
(* action preserves it, what a step may do to the journal, and that every  *)
(* step is a step of the abstract Lifecycle or leaves it unchanged.        *)
(***************************************************************************)
EXTENDS GitEffect, TLAPS

-----------------------------------------------------------------------------
(* The inductive invariant.                                                *)

HeldLabels   == RunLabels \ {"idle", "lock"}
WriterLabels == HeldLabels \ {"admit"}

\* The phase of the loaded row at each label that follows the choice of a step.
PhaseAt(label) ==
    CASE label \in {"prepare", "reject", "attempt"} -> "authorized"
      [] label \in {"send", "awaiting", "respond", "observe", "freeze"} -> "apply_started"
      [] OTHER -> "receiver_observed"

Failures == {"rejected_before_send", "receiver_rejected"}

\* An acknowledgement is true of an operation whose push made the given update, if
\* any, while the given pushes are under way.
Holds(o, acknowledgement, update, flying) ==
    /\ acknowledgement = "updated" => update # None
    /\ acknowledgement \in Failures => update = None /\ \A p \in flying : p.operation # o

\* What was answered before each label.
AnswerFits(label, answer) ==
    /\ label = "reject" => answer \in Rejections
    /\ label = "awaiting" => answer \in Acknowledgements \cup {None}
    /\ label = "respond" => answer \in Acknowledgements
    /\ label = "freeze" => answer \in ObservedRefs

Approved(grant) == <<grant.old, grant.new>> \in Ancestry

\* What a run holds at its label.
RunFits(w) ==
    /\ pc[w] # "idle" => run[w] \in Runs
    /\ pc[w] \in HeldLabels <=> lease = w
    /\ pc[w] \in WriterLabels => /\ journal[Op(w)] = loaded[w]
                                 /\ loaded[w].grant = run[w].grant
                                 /\ loaded[w].state # "absent"
    /\ pc[w] \in WriterLabels \ {"advance"} => loaded[w].state = PhaseAt(pc[w])
    /\ pc[w] = "attempt" => Approved(run[w].grant)
    /\ pc[w] \in {"send", "awaiting", "respond"} => loaded[w].acknowledgement = None
    /\ pc[w] = "send" => sent[Op(w)] = 0
    /\ AnswerFits(pc[w], fetched[w])
    /\ pc[w] \in {"awaiting", "respond"} =>
          Holds(Op(w), fetched[w], landed[Op(w)], pushes)
    /\ pc[w] = "sign" => run[w].signing \in Keys

\* Nothing is sent, and so nothing flies or lands, before the attempt is durable;
\* and only a fast-forward is attempted.
HistoryFits ==
    \A o \in Operations :
        /\ sent[o] # 0 => journal[o].state \in AttemptedStates
        /\ sent[o] = 0 => landed[o] = None /\ \A p \in pushes : p.operation # o
        /\ journal[o].state \in AttemptedStates => Approved(journal[o].grant)

\* A push under way is the only one of its operation, has not landed, and moves
\* the ref between the commits of the retained grant.
PushesFit ==
    /\ \A p \in pushes : /\ landed[p.operation] = None
                         /\ journal[p.operation].state \in AttemptedStates
                         /\ p.old = journal[p.operation].grant.old
                         /\ p.new = journal[p.operation].grant.new
    /\ \A p, q \in pushes : p.operation = q.operation => p = q

\* Every recorded acknowledgement is true.
RecordedHolds ==
    \A o \in Operations : journal[o].acknowledgement # None =>
        Holds(o, journal[o].acknowledgement, landed[o], pushes)

\* The part of TypeOK about runs.
RunTypes ==
    /\ lease \in Workers \cup {None}
    /\ pc \in [Workers -> RunLabels]
    /\ run \in [Workers -> Runs \cup {None}]
    /\ loaded \in [Workers -> Rows]
    /\ fetched \in [Workers -> Acknowledgements \cup Rejections \cup ObservedRefs \cup {None}]

\* The part of the invariant about rows and pushes.
RowsFit ==
    /\ journal \in [Operations -> Rows]
    /\ EveryRowDecodes
    /\ IdentityUsedOnce
    /\ HistoryFits
    /\ PushesFit
    /\ PushLandsAsApproved
    /\ RecordedHolds

IInv ==
    /\ TypeOK
    /\ RowsFit
    /\ \A w \in Workers : RunFits(w)

-----------------------------------------------------------------------------
(* Rows: what each write makes of the row it replaces.                     *)

\* None is no member of the sets the columns range over.
LEMMA NoneFacts ==
    /\ None \notin Commits /\ None \notin Operations /\ None \notin Workers
    /\ None \notin Grants /\ None \notin Keys
    /\ None \notin Acknowledgements /\ None \notin Rejections
    /\ None \notin ObservedRefs /\ None \notin Receipts
BY Zenon, NoneAssumption

\* A grant names an operation and two commits.
LEMMA GrantFacts ==
    ASSUME NEW grant \in Grants
    PROVE  grant.operation \in Operations /\ grant.old \in Commits /\ grant.new \in Commits
BY Zenon, GrantsAssumption

\* An identity without a row is of the type of a row.
LEMMA NoRowType == NoRow \in Rows /\ NoRow.state = "absent"
BY DEF NoRow, Rows, OperationStates

\* insert_git
LEMMA AuthorizedRow ==
    ASSUME NEW grant \in Grants
    PROVE  /\ Authorized(grant) \in Rows /\ Decodes(Authorized(grant))
           /\ Authorized(grant).state = "authorized" /\ Authorized(grant).grant = grant
           /\ Authorized(grant).acknowledgement = None
BY Zenon, NoneFacts DEF Authorized, NoRow, Rows, Decodes, OperationStates, AttemptedStates,
    FrozenStates

\* reject_git
LEMMA RejectedRow ==
    ASSUME NEW row \in Rows, Decodes(row), row.state = "authorized",
           NEW rejection \in Rejections
    PROVE  /\ Rejected(row, rejection) \in Rows /\ Decodes(Rejected(row, rejection))
           /\ Rejected(row, rejection).state = "not_attempted"
           /\ Rejected(row, rejection).grant = row.grant
           /\ Rejected(row, rejection).acknowledgement = None
BY Zenon, NoneFacts DEF Rejected, Rows, Decodes, OperationStates, AttemptedStates, FrozenStates

\* begin_git_attempt
LEMMA AttemptRow ==
    ASSUME NEW row \in Rows, Decodes(row), row.state = "authorized"
    PROVE  /\ ApplyStarted(row) \in Rows /\ Decodes(ApplyStarted(row))
           /\ ApplyStarted(row).state = "apply_started"
           /\ ApplyStarted(row).grant = row.grant
           /\ ApplyStarted(row).acknowledgement = None
BY Zenon, NoneFacts DEF ApplyStarted, Rows, Decodes, OperationStates, AttemptedStates,
    FrozenStates

\* record_git_acknowledgement
LEMMA AcknowledgedRow ==
    ASSUME NEW row \in Rows, Decodes(row), row.state = "apply_started",
           NEW answer \in Acknowledgements
    PROVE  /\ Acknowledged(row, answer) \in Rows /\ Decodes(Acknowledged(row, answer))
           /\ Acknowledged(row, answer).state = "apply_started"
           /\ Acknowledged(row, answer).grant = row.grant
           /\ Acknowledged(row, answer).acknowledgement = answer
BY NoneFacts DEF Acknowledged, Rows, Decodes, OperationStates, AttemptedStates, FrozenStates

\* freeze_git_observation
LEMMA FrozenRow ==
    ASSUME NEW row \in Rows, Decodes(row), row.state = "apply_started",
           NEW observed \in ObservedRefs
    PROVE  /\ Frozen(row, observed) \in Rows /\ Decodes(Frozen(row, observed))
           /\ Frozen(row, observed).state = "receiver_observed"
           /\ Frozen(row, observed).grant = row.grant
           /\ Frozen(row, observed).acknowledgement = FrozenAcknowledgement(row, observed)
<1>1. /\ FrozenAcknowledgement(row, observed) \in Acknowledgements
      /\ FrozenAcknowledgement(row, observed) # None
  BY Zenon, NoneFacts DEF FrozenAcknowledgement, Rows, Acknowledgements
<1> QED
  BY Zenon, <1>1, NoneFacts
     DEF Frozen, Rows, Decodes, OperationStates, AttemptedStates, FrozenStates

\* commit_git_receipt
LEMMA FinalizedRow ==
    ASSUME NEW row \in Rows, Decodes(row), row.state = "receiver_observed",
           NEW key \in Keys
    PROVE  /\ Finalized(row, key) \in Rows /\ Decodes(Finalized(row, key))
           /\ Finalized(row, key).state = "finalized"
           /\ Finalized(row, key).grant = row.grant
           /\ Finalized(row, key).acknowledgement = row.acknowledgement
<1>1. [statement |-> Statement(row), key |-> key] \in Receipts
  BY NoneFacts DEF Rows, Decodes, Statement, Receipts, FrozenStates
<1>2. Statement(Finalized(row, key)) = Statement(row)
  BY Zenon DEF Statement, Finalized, Rows
<1> QED
  BY Zenon, <1>1, <1>2, NoneFacts
     DEF Finalized, Rows, Decodes, OperationStates, AttemptedStates, FrozenStates

-----------------------------------------------------------------------------
(* Runs.                                                                   *)

\* A run under way is over a known grant and identity.
LEMMA RunType ==
    ASSUME IInv, NEW w \in Workers, pc[w] # "idle"
    PROVE  run[w] \in Runs /\ run[w].grant \in Grants /\ Op(w) \in Operations
BY Zenon, GrantFacts DEF IInv, RunFits, Runs, Op

\* While w holds the lease, no other run is past the lock, so nothing w does
\* disturbs another run.
LEMMA OthersFit ==
    ASSUME IInv, NEW w \in Workers, NEW v \in Workers \ {w},
           pc[w] \in HeldLabels, lease' \in {w, None},
           pc'[v] = pc[v], run'[v] = run[v]
    PROVE  RunFits(v)'
<1>1. lease = w /\ pc[v] \notin HeldLabels
  BY Zenon DEF IInv, RunFits
<1>2. lease' # v
  BY Zenon, NoneFacts
<1>3. pc[v] \in {"idle", "lock"}
  BY Zenon, <1>1 DEF HeldLabels, IInv, TypeOK
<1>4. pc[v] # "idle" => run[v] \in Runs
  BY DEF IInv, RunFits
<1> QED
  BY Zenon, <1>2, <1>3, <1>4 DEF RunFits, AnswerFits, HeldLabels, WriterLabels, RunLabels

\* A run that stops fits, and leaves the others fitting.
LEMMA StopFits ==
    ASSUME IInv, NEW w \in Workers, pc[w] # "idle", Stop(w), UNCHANGED <<receiverVars, sent>>,
           pc[w] \in HeldLabels \/ UNCHANGED journal
    PROVE  \A v \in Workers : RunFits(v)'
<1> SUFFICES ASSUME NEW v \in Workers PROVE RunFits(v)'
  BY Zenon
<1>1. CASE v = w
  <2>1. pc'[w] = "idle" /\ lease' # w
    BY Zenon, NoneFacts DEF Stop, IInv, TypeOK
  <2> QED
    BY Zenon, <1>1, <2>1 DEF RunFits, AnswerFits, HeldLabels, WriterLabels, RunLabels
<1>2. CASE v # w
  <2>1. /\ pc'[v] = pc[v] /\ run'[v] = run[v] /\ loaded'[v] = loaded[v]
        /\ fetched'[v] = fetched[v]
    BY Zenon, <1>2 DEF Stop, IInv, TypeOK
  <2>2. CASE pc[w] \in HeldLabels
    <3>1. lease' \in {w, None}
      BY Zenon, <2>2 DEF Stop, IInv, RunFits
    <3> QED BY Zenon, <3>1, <1>2, <2>1, <2>2, OthersFit
  <2>3. CASE pc[w] \notin HeldLabels
    <3>1. lease' = lease /\ journal' = journal
      BY Zenon, <2>3 DEF Stop, IInv, RunFits
    <3> QED BY Zenon, <3>1, <2>1 DEF IInv, RunFits, Op, receiverVars
  <2> QED BY Zenon, <2>2, <2>3
<1> QED BY Zenon, <1>1, <1>2

\* A run that advances under the lease fits at its new label.
LEMMA AdvanceFits ==
    ASSUME IInv, NEW w \in Workers, pc[w] \in HeldLabels,
           NEW label \in WriterLabels, NEW row, NEW answer, Advance(w, label, row, answer),
           row = journal'[Op(w)], row.grant = run[w].grant, row.state # "absent",
           label # "advance" => row.state = PhaseAt(label),
           label = "attempt" => Approved(run[w].grant),
           label \in {"send", "awaiting", "respond"} => row.acknowledgement = None,
           label = "send" => sent'[Op(w)] = 0,
           label \in {"awaiting", "respond"} => Holds(Op(w), answer, landed'[Op(w)], pushes'),
           label = "sign" => run[w].signing \in Keys,
           AnswerFits(label, answer)
    PROVE  \A v \in Workers : RunFits(v)'
<1> SUFFICES ASSUME NEW v \in Workers PROVE RunFits(v)'
  BY Zenon
<1>0. lease = w /\ lease' = w
  BY Zenon DEF Advance, IInv, RunFits
<1>1. CASE v = w
  <2>1. /\ pc'[w] = label /\ run' = run /\ loaded'[w] = row /\ fetched'[w] = answer
    BY Zenon DEF Advance, IInv, TypeOK
  <2>2. run[w] \in Runs
    BY Zenon, RunType DEF HeldLabels
  <2>3. label \in HeldLabels
    BY Zenon DEF WriterLabels
  <2> QED
    BY Zenon, <1>0, <1>1, <2>1, <2>2, <2>3 DEF RunFits, Op
<1>2. CASE v # w
  BY Zenon, <1>0, <1>2, OthersFit DEF Advance, IInv, TypeOK
<1> QED BY Zenon, <1>1, <1>2

\* Stopping a run keeps the runs well typed.
LEMMA StopTypes ==
    ASSUME IInv, NEW w \in Workers, Stop(w)
    PROVE  RunTypes'
BY Zenon, NoRowType DEF IInv, TypeOK, Stop, RunTypes, RunLabels

\* Moving a run to another label with another row keeps the runs well typed.
LEMMA AdvanceTypes ==
    ASSUME IInv, NEW w \in Workers, NEW label \in RunLabels, NEW row \in Rows,
           NEW answer \in Acknowledgements \cup Rejections \cup ObservedRefs \cup {None},
           Advance(w, label, row, answer)
    PROVE  RunTypes'
BY Zenon DEF IInv, TypeOK, Advance, RunTypes

\* A step that touches only runs.
LEMMA RunsOnly ==
    ASSUME IInv, RunTypes', \A v \in Workers : RunFits(v)',
           UNCHANGED <<journal, kubernetes, receiverVars, sent>>
    PROVE  IInv'
<1>1. RowsFit'
  BY Zenon DEF IInv, RowsFit, EveryRowDecodes, IdentityUsedOnce, HistoryFits, PushesFit,
         PushLandsAsApproved, RecordedHolds, receiverVars
<1>2. TypeOK'
  BY Zenon DEF IInv, RunTypes, TypeOK, receiverVars
<1> QED
  BY Zenon, <1>1, <1>2 DEF IInv

\* A stop that writes nothing.
LEMMA StopKeeps ==
    ASSUME IInv, NEW w \in Workers, pc[w] # "idle", Stop(w),
           UNCHANGED <<journal, kubernetes, receiverVars, sent>>
    PROVE  IInv'
BY Zenon, StopFits, StopTypes, RunsOnly

\* A committed row that keeps its grant, stays attempted if it was, and whose
\* acknowledgement is true.
LEMMA CommitKeeps ==
    ASSUME IInv, NEW w \in Workers, pc[w] # "idle", NEW next \in Rows,
           journal' = [journal EXCEPT ![Op(w)] = next],
           Decodes(next), next.grant = run[w].grant,
           journal[Op(w)].state # "absent" => journal[Op(w)].grant = next.grant,
           journal[Op(w)].state = "absent" => kubernetes[Op(w)] = "absent",
           journal[Op(w)].state \in AttemptedStates => next.state \in AttemptedStates,
           next.state \in AttemptedStates => Approved(next.grant),
           next.acknowledgement # None =>
              Holds(Op(w), next.acknowledgement, landed[Op(w)], pushes),
           UNCHANGED <<kubernetes, receiverVars, sent>>
    PROVE  RowsFit'
<1>0. /\ ref' = ref /\ pushes' = pushes /\ moves' = moves /\ landed' = landed
      /\ kubernetes' = kubernetes /\ sent' = sent
  BY Zenon DEF receiverVars
<1>1. Op(w) \in Operations
  BY RunType
<1>2. journal' \in [Operations -> Rows]
  BY Zenon DEF IInv, TypeOK
<1>3. /\ journal'[Op(w)] = next
      /\ \A o \in Operations \ {Op(w)} : journal'[o] = journal[o]
  BY Zenon, <1>1 DEF IInv, TypeOK
<1>4. \A o \in Operations : journal[o].state \in AttemptedStates =>
          journal'[o].state \in AttemptedStates /\ journal'[o].grant = journal[o].grant
  BY Zenon, <1>3 DEF AttemptedStates
<1>5. EveryRowDecodes' /\ RecordedHolds'
  BY Zenon, <1>0, <1>1, <1>3 DEF IInv, RowsFit, EveryRowDecodes, RecordedHolds
<1>6. IdentityUsedOnce'
  BY Zenon, <1>0, <1>1, <1>3 DEF IInv, RowsFit, IdentityUsedOnce
<1>7. HistoryFits'
  <2>1. \A o \in Operations :
            journal'[o].state \in AttemptedStates => Approved(journal'[o].grant)
    BY Zenon, <1>3 DEF IInv, RowsFit, HistoryFits
  <2>2. \A o \in Operations : sent[o] # 0 => journal'[o].state \in AttemptedStates
    BY Zenon, <1>4 DEF IInv, RowsFit, HistoryFits
  <2> QED
    BY Zenon, <1>0, <2>1, <2>2 DEF IInv, RowsFit, HistoryFits
<1>8. PushesFit'
  BY <1>0, <1>4 DEF IInv, RowsFit, PushesFit, TypeOK
<1>9. PushLandsAsApproved'
  BY Zenon, <1>0, <1>4 DEF IInv, RowsFit, PushLandsAsApproved
<1> QED
  BY Zenon, <1>2, <1>5, <1>6, <1>7, <1>8, <1>9 DEF RowsFit

\* The three outcomes of a conditional replacement preserve the invariant when
\* the new row decodes and fits the label that a confirmed commit leads to.
LEMMA ReplaceKeeps ==
    ASSUME IInv, NEW w \in Workers, pc[w] \in WriterLabels,
           NEW next \in Rows, Decodes(next), next.grant = loaded[w].grant,
           loaded[w].state \in AttemptedStates => next.state \in AttemptedStates,
           next.state \in AttemptedStates => Approved(next.grant),
           next.acknowledgement # None =>
              Holds(Op(w), next.acknowledgement, landed[Op(w)], pushes),
           NEW label \in {"advance", "send"},
           label = "send" => /\ next.state = "apply_started"
                             /\ next.acknowledgement = None /\ sent[Op(w)] = 0,
           Replace(w, next, label), UNCHANGED <<kubernetes, receiverVars, sent>>
    PROVE  IInv'
<1>0. /\ pc[w] \in HeldLabels /\ pc[w] # "idle" /\ label \in WriterLabels /\ label \in RunLabels
      /\ journal[Op(w)] = loaded[w] /\ loaded[w].grant = run[w].grant
      /\ journal[Op(w)].state # "absent" /\ Op(w) \in Operations /\ next.state # "absent"
  BY Zenon, RunType DEF WriterLabels, HeldLabels, RunLabels, IInv, RunFits, Decodes
<1>1. CASE UNCHANGED journal /\ Stop(w)
  BY Zenon, <1>0, <1>1, StopKeeps
<1>2. CASE journal' = [journal EXCEPT ![Op(w)] = next] /\ Stop(w)
  <2>1. \A v \in Workers : RunFits(v)'
    BY Zenon, <1>0, <1>2, StopFits
  <2>2. RunTypes'
    BY Zenon, <1>2, StopTypes
  <2>3. RowsFit'
    BY Zenon, <1>0, <1>2, CommitKeeps
  <2>4. TypeOK'
    BY Zenon, <2>2, <2>3 DEF IInv, TypeOK, RunTypes, RowsFit, receiverVars
  <2> QED
    BY Zenon, <2>1, <2>3, <2>4 DEF IInv
<1>3. CASE journal' = [journal EXCEPT ![Op(w)] = next] /\ Advance(w, label, next, None)
  <2>0. journal'[Op(w)] = next
    BY <1>0, <1>3 DEF IInv, TypeOK
  <2>1. \A v \in Workers : RunFits(v)'
    BY Zenon, <1>0, <1>3, <2>0, AdvanceFits DEF AnswerFits, PhaseAt
  <2>2. RunTypes'
    BY <1>0, <1>3, AdvanceTypes
  <2>3. RowsFit'
    BY Zenon, <1>0, <1>3, CommitKeeps
  <2>4. TypeOK'
    BY <2>2, <2>3 DEF IInv, TypeOK, RunTypes, RowsFit, receiverVars
  <2> QED
    BY <2>1, <2>3, <2>4 DEF IInv
<1> QED
  BY Zenon, <1>1, <1>2, <1>3 DEF Replace

\* Where a run stands, with what it loaded.
LEMMA WriterFacts ==
    ASSUME IInv, NEW w \in Workers, pc[w] \in WriterLabels
    PROVE  /\ loaded[w] \in Rows /\ Decodes(loaded[w]) /\ Op(w) \in Operations
           /\ journal[Op(w)] = loaded[w] /\ loaded[w].grant = run[w].grant
           /\ pc[w] # "advance" => loaded[w].state = PhaseAt(pc[w])
           /\ pc[w] \in HeldLabels /\ pc[w] # "idle"
           /\ run[w].grant \in Grants
<1>1. /\ pc[w] \in HeldLabels /\ pc[w] # "idle"
  BY Zenon DEF WriterLabels, HeldLabels
<1>2. /\ journal[Op(w)] = loaded[w] /\ loaded[w].grant = run[w].grant
      /\ loaded[w].state # "absent"
      /\ pc[w] # "advance" => loaded[w].state = PhaseAt(pc[w])
  BY Zenon DEF IInv, RunFits
<1>3. Op(w) \in Operations /\ run[w].grant \in Grants
  BY Zenon, <1>1, RunType
<1>4. loaded[w] # NoRow
  BY Zenon, <1>2, NoRowType
<1> QED
  BY Zenon, <1>1, <1>2, <1>3, <1>4 DEF IInv, RowsFit, EveryRowDecodes, TypeOK

-----------------------------------------------------------------------------
(* The steps of a run preserve the invariant.                              *)

\* Begin keeps the inductive invariant.
LEMMA BeginStep ==
    ASSUME IInv, NEW w \in Workers, NEW grant \in Grants, NEW receiver \in BOOLEAN,
           NEW signing \in Keys \cup {None}, Begin(w, grant, receiver, signing)
    PROVE  IInv'
<1> DEFINE begun == [grant |-> grant, receiver |-> receiver, signing |-> signing]
<1>0. /\ grant.operation \in Operations /\ begun \in Runs
      /\ journal[grant.operation] \in Rows
  BY Zenon, GrantFacts DEF IInv, TypeOK, Runs
<1>1. /\ pc[w] = "idle" /\ lease # w
      /\ pc' = [pc EXCEPT ![w] = "lock"] /\ run' = [run EXCEPT ![w] = begun]
      /\ loaded' = [loaded EXCEPT ![w] = journal[grant.operation]]
      /\ UNCHANGED <<journal, kubernetes, lease, fetched, receiverVars, sent>>
  BY Zenon DEF Begin, IInv, RunFits, HeldLabels
<1> HIDE DEF begun
<1>2. RunTypes'
  BY Zenon, <1>0, <1>1 DEF IInv, TypeOK, RunTypes, RunLabels
<1>3. ASSUME NEW v \in Workers PROVE RunFits(v)'
  <2>1. CASE v = w
    <3>1. pc'[w] = "lock" /\ run'[w] \in Runs /\ lease' # w
      BY Zenon, <1>0, <1>1 DEF IInv, TypeOK
    <3> QED
      BY Zenon, <2>1, <3>1 DEF RunFits, AnswerFits, HeldLabels, WriterLabels, RunLabels
  <2>2. CASE v # w
    <3>1. pc'[v] = pc[v] /\ run'[v] = run[v] /\ loaded'[v] = loaded[v]
      BY Zenon, <1>1, <2>2 DEF IInv, TypeOK
    <3> QED
      BY ZenonT(30), <1>1, <3>1 DEF IInv, RunFits, Op, receiverVars
  <2> QED BY <2>1, <2>2
<1> QED
  BY Zenon, <1>1, <1>2, <1>3, RunsOnly

\* TryLockWorker keeps the inductive invariant.
LEMMA TryLockWorkerStep ==
    ASSUME IInv, NEW w \in Workers, TryLockWorker(w)
    PROVE  IInv'
<1>0. /\ pc[w] = "lock" /\ pc[w] # "idle"
      /\ UNCHANGED <<journal, kubernetes, receiverVars, sent>>
  BY Zenon DEF TryLockWorker
<1>1. CASE /\ lease = None /\ lease' = w
           /\ pc' = [pc EXCEPT ![w] = "admit"]
           /\ UNCHANGED <<run, loaded, fetched>>
  <2>1. RunTypes'
    BY Zenon, <1>1 DEF IInv, TypeOK, RunTypes, RunLabels
  <2>2. ASSUME NEW v \in Workers PROVE RunFits(v)'
    <3>1. CASE v = w
      <4>1. pc'[w] = "admit" /\ run'[w] \in Runs /\ lease' = w
        BY <1>0, <1>1, RunType DEF IInv, TypeOK
      <4> QED
        BY Zenon, <3>1, <4>1 DEF RunFits, AnswerFits, HeldLabels, WriterLabels, RunLabels
    <3>2. CASE v # w
      <4>1. pc[v] \in {"idle", "lock"} /\ pc'[v] = pc[v] /\ run'[v] = run[v] /\ lease' # v
        BY <1>1, <3>2, NoneFacts DEF IInv, RunFits, TypeOK, HeldLabels
      <4> QED
        BY Zenon, <4>1 DEF IInv, RunFits, AnswerFits, HeldLabels, WriterLabels, RunLabels
    <3> QED BY Zenon, <3>1, <3>2
  <2> QED
    BY Zenon, <1>0, <2>1, <2>2, RunsOnly
<1>2. CASE Stop(w)
  BY Zenon, <1>0, <1>2, StopKeeps
<1> QED
  BY Zenon, <1>1, <1>2 DEF TryLockWorker

\* InsertGit keeps the inductive invariant.
LEMMA InsertGitStep ==
    ASSUME IInv, NEW w \in Workers, InsertGit(w)
    PROVE  IInv'
<1> DEFINE row == journal[Op(w)]
           new == Authorized(run[w].grant)
<1>0. /\ pc[w] = "admit" /\ pc[w] # "idle" /\ pc[w] \in HeldLabels
      /\ UNCHANGED <<kubernetes, receiverVars, sent>>
      /\ run[w].grant \in Grants /\ Op(w) \in Operations
      /\ "advance" \in WriterLabels /\ "advance" \in RunLabels
  BY Zenon, RunType DEF InsertGit, WriterLabels, HeldLabels, RunLabels
<1>1. row \in Rows
  BY Zenon, <1>0 DEF IInv, TypeOK
<1>2. CASE /\ row.state # "absent" /\ Custody(w)
           /\ Advance(w, "advance", row, None) /\ UNCHANGED journal
  <2>1. row.grant = run[w].grant /\ row = journal'[Op(w)]
    BY <1>2 DEF Custody
  <2>2. \A v \in Workers : RunFits(v)'
    BY Zenon, <1>0, <1>2, <2>1, AdvanceFits DEF AnswerFits
  <2>3. RunTypes'
    BY Zenon, <1>0, <1>1, <1>2, AdvanceTypes
  <2> QED
    BY Zenon, <1>0, <1>2, <2>2, <2>3, RunsOnly
<1>3. CASE Stop(w) /\ UNCHANGED journal
  BY Zenon, <1>0, <1>3, StopKeeps
<1>4. CASE /\ JournalAccepts(Op(w))
           /\ journal' = [journal EXCEPT ![Op(w)] = new]
           /\ Advance(w, "advance", new, None) \/ Stop(w)
  <2>1. /\ new \in Rows /\ Decodes(new) /\ new.state = "authorized"
        /\ new.grant = run[w].grant /\ new.acknowledgement = None
    BY Zenon, <1>0, AuthorizedRow
  <2> HIDE DEF new
  <2>2. row.state = "absent" /\ kubernetes[Op(w)] = "absent"
    BY Zenon, <1>4 DEF JournalAccepts
  <2>3. RowsFit'
    BY Zenon, <1>0, <1>4, <2>1, <2>2, CommitKeeps DEF AttemptedStates
  <2>4. journal'[Op(w)] = new
    BY Zenon, <1>0, <1>4 DEF IInv, TypeOK
  <2>5. \A v \in Workers : RunFits(v)'
    <3>1. CASE Advance(w, "advance", new, None)
      BY Zenon, <1>0, <2>1, <2>4, <3>1, AdvanceFits DEF AnswerFits
    <3>2. CASE Stop(w)
      BY Zenon, <1>0, <3>2, StopFits
    <3> QED BY Zenon, <1>4, <3>1, <3>2
  <2>6. RunTypes'
    BY Zenon, <1>0, <1>4, <2>1, StopTypes, AdvanceTypes
  <2>7. TypeOK'
    BY Zenon, <1>0, <2>3, <2>6 DEF IInv, TypeOK, RunTypes, RowsFit, receiverVars
  <2> QED
    BY Zenon, <2>3, <2>5, <2>7 DEF IInv
<1> QED
  BY Zenon, <1>2, <1>3, <1>4 DEF InsertGit

\* ReadPhase keeps the inductive invariant.
LEMMA ReadPhaseStep ==
    ASSUME IInv, NEW w \in Workers, ReadPhase(w)
    PROVE  IInv'
<1> DEFINE row == journal[Op(w)]
           label == NextStep(row)
<1>0. /\ pc[w] = "advance" /\ pc[w] \in WriterLabels
      /\ UNCHANGED <<journal, kubernetes, receiverVars, sent>>
      /\ row.state # "absent" /\ row.grant = run[w].grant
  BY Zenon DEF ReadPhase, Custody, WriterLabels, HeldLabels, RunLabels
<1>1. row \in Rows /\ Decodes(row) /\ pc[w] \in HeldLabels /\ pc[w] # "idle"
  BY Zenon, <1>0, WriterFacts
<1>2. CASE Stop(w)
  BY Zenon, <1>0, <1>1, <1>2, StopKeeps
<1>3. CASE /\ row.state \in UnfinishedStates
           /\ row.state = "receiver_observed" => run[w].signing # None
           /\ Advance(w, label, row, None)
  <2>1. /\ label \in {"prepare", "observe", "sign"} /\ row.state = PhaseAt(label)
        /\ label = "sign" => row.state = "receiver_observed"
    <3>1. row.state \in {"authorized", "apply_started", "receiver_observed"}
      BY Zenon, <1>1, <1>3 DEF UnfinishedStates, Decodes
    <3> QED
      BY Zenon, <3>1 DEF NextStep, PhaseAt
  <2>2. label = "sign" => run[w].signing \in Keys
    BY Zenon, <1>1, <1>3, <2>1, RunType DEF Runs
  <2>3. row = journal'[Op(w)]
    BY Zenon, <1>0
  <2> HIDE DEF row, label
  <2>4. label \in WriterLabels /\ label \in RunLabels /\ AnswerFits(label, None)
    BY Zenon, <2>1 DEF WriterLabels, HeldLabels, RunLabels, AnswerFits
  <2>5. \A v \in Workers : RunFits(v)'
    BY Zenon, <1>0, <1>1, <1>3, <2>1, <2>2, <2>3, <2>4, AdvanceFits
  <2>6. RunTypes'
    BY <1>1, <1>3, <2>4, AdvanceTypes
  <2> QED
    BY Zenon, <1>0, <2>5, <2>6, RunsOnly
<1> QED
  BY Zenon, <1>2, <1>3 DEF ReadPhase

\* A run that moves on within a phase, writing nothing.
LEMMA MoveOnKeeps ==
    ASSUME IInv, NEW w \in Workers, pc[w] \in WriterLabels,
           NEW label \in WriterLabels \ {"advance", "send", "sign"},
           NEW answer \in Acknowledgements \cup Rejections \cup ObservedRefs \cup {None},
           Advance(w, label, loaded[w], answer),
           loaded[w].state = PhaseAt(label), AnswerFits(label, answer),
           label = "attempt" => Approved(run[w].grant),
           label \in {"awaiting", "respond"} => /\ loaded[w].acknowledgement = None
                                                /\ Holds(Op(w), answer, landed[Op(w)], pushes),
           UNCHANGED <<journal, kubernetes, receiverVars, sent>>
    PROVE  IInv'
<1>1. /\ loaded[w] \in Rows /\ journal[Op(w)] = loaded[w] /\ loaded[w].grant = run[w].grant
      /\ pc[w] \in HeldLabels /\ label \in RunLabels /\ loaded[w].state # "absent"
  BY ZenonT(30), WriterFacts DEF WriterLabels, HeldLabels, Decodes
<1>2. loaded[w] = journal'[Op(w)] /\ landed' = landed /\ pushes' = pushes
  BY ZenonT(30), <1>1 DEF receiverVars
<1>3. \A v \in Workers : RunFits(v)'
  BY ZenonT(30), <1>1, <1>2, AdvanceFits
<1>4. RunTypes'
  BY ZenonT(30), <1>1, AdvanceTypes
<1> QED
  BY Zenon, <1>3, <1>4, RunsOnly

\* Prepare keeps the inductive invariant.
LEMMA PrepareStep ==
    ASSUME IInv, NEW w \in Workers, Prepare(w)
    PROVE  IInv'
<1>0. /\ pc[w] = "prepare" /\ pc[w] \in WriterLabels
      /\ UNCHANGED <<journal, kubernetes, receiverVars, sent>>
      /\ {"reject", "attempt"} \subseteq WriterLabels
  BY Zenon DEF Prepare, WriterLabels, HeldLabels, RunLabels
<1>1. loaded[w].state = "authorized" /\ pc[w] # "idle"
  BY Zenon, <1>0, WriterFacts DEF PhaseAt
<1>2. CASE Stop(w)
  BY Zenon, <1>0, <1>1, <1>2, StopKeeps
<1>3. ASSUME NEW rejection \in Rejections, Advance(w, "reject", loaded[w], rejection)
      PROVE  IInv'
  BY Zenon, <1>0, <1>1, <1>3, MoveOnKeeps DEF AnswerFits, PhaseAt
<1>4. CASE Approved(run[w].grant) /\ Advance(w, "attempt", loaded[w], None)
  BY Zenon, <1>0, <1>1, <1>4, MoveOnKeeps DEF AnswerFits, PhaseAt
<1> QED
  BY Zenon, <1>2, <1>3, <1>4 DEF Prepare, Rejections, Approved

\* RejectGit keeps the inductive invariant.
LEMMA RejectGitStep ==
    ASSUME IInv, NEW w \in Workers, RejectGit(w)
    PROVE  IInv'
<1> DEFINE next == Rejected(loaded[w], fetched[w])
<1>1. /\ pc[w] = "reject" /\ pc[w] \in WriterLabels
      /\ Replace(w, next, "advance") /\ UNCHANGED <<kubernetes, receiverVars, sent>>
  BY Zenon DEF RejectGit, WriterLabels, HeldLabels, RunLabels
<1>2. loaded[w] \in Rows /\ Decodes(loaded[w]) /\ loaded[w].state = "authorized"
  BY Zenon, <1>1, WriterFacts DEF PhaseAt
<1>3. fetched[w] \in Rejections
  BY Zenon, <1>1 DEF IInv, RunFits, AnswerFits
<1>4. /\ next \in Rows /\ Decodes(next) /\ next.acknowledgement = None
      /\ next.state = "not_attempted" /\ next.grant = loaded[w].grant
  BY Zenon, <1>2, <1>3, RejectedRow
<1> HIDE DEF next
<1> QED
  BY Zenon, <1>1, <1>2, <1>4, ReplaceKeeps DEF AttemptedStates

\* BeginGitAttempt keeps the inductive invariant.
LEMMA BeginGitAttemptStep ==
    ASSUME IInv, NEW w \in Workers, BeginGitAttempt(w)
    PROVE  IInv'
<1> DEFINE next == ApplyStarted(loaded[w])
<1>1. /\ pc[w] = "attempt" /\ pc[w] \in WriterLabels
      /\ Replace(w, next, "send") /\ UNCHANGED <<kubernetes, receiverVars, sent>>
  BY Zenon DEF BeginGitAttempt, WriterLabels, HeldLabels, RunLabels
<1>2. /\ loaded[w] \in Rows /\ Decodes(loaded[w]) /\ loaded[w].state = "authorized"
      /\ journal[Op(w)] = loaded[w] /\ Op(w) \in Operations
      /\ loaded[w].grant = run[w].grant
  BY Zenon, <1>1, WriterFacts DEF PhaseAt
<1>3. Approved(run[w].grant)
  BY Zenon, <1>1 DEF IInv, RunFits
<1>4. sent[Op(w)] = 0
  BY Zenon, <1>2 DEF IInv, RowsFit, HistoryFits, AttemptedStates
<1>5. /\ next \in Rows /\ Decodes(next) /\ next.acknowledgement = None
      /\ next.state = "apply_started" /\ next.grant = loaded[w].grant
  BY Zenon, <1>2, AttemptRow
<1> HIDE DEF next
<1> QED
  BY Zenon, <1>1, <1>2, <1>3, <1>4, <1>5, ReplaceKeeps DEF AttemptedStates

\* Send keeps the inductive invariant.
LEMMA SendStep ==
    ASSUME IInv, NEW w \in Workers, Send(w)
    PROVE  IInv'
<1> DEFINE push == [operation |-> Op(w), old |-> run[w].grant.old, new |-> run[w].grant.new,
                    stage |-> "connecting"]
<1>1. /\ pc[w] = "send" /\ pc[w] \in WriterLabels
      /\ UNCHANGED <<journal, kubernetes, ref, moves, landed>>
      /\ {"awaiting", "respond"} \subseteq WriterLabels
      /\ {"awaiting", "respond"} \subseteq RunLabels
  BY Zenon DEF Send, WriterLabels, HeldLabels, RunLabels
<1>2. /\ loaded[w] \in Rows /\ Decodes(loaded[w]) /\ loaded[w].state = "apply_started"
      /\ journal[Op(w)] = loaded[w] /\ Op(w) \in Operations
      /\ loaded[w].grant = run[w].grant /\ run[w].grant \in Grants
      /\ pc[w] \in HeldLabels /\ pc[w] # "idle"
  BY <1>1, WriterFacts DEF PhaseAt
<1>3. sent[Op(w)] = 0 /\ loaded[w].acknowledgement = None
  BY Zenon, <1>1 DEF IInv, RunFits
<1>4. CASE Advance(w, "respond", loaded[w], "unknown") /\ UNCHANGED <<pushes, sent>>
  <2>1. AnswerFits("respond", "unknown") /\ Holds(Op(w), "unknown", landed[Op(w)], pushes)
    BY Zenon DEF AnswerFits, Acknowledgements, Holds, Failures
  <2>2. "unknown" \in Acknowledgements /\ PhaseAt("respond") = "apply_started"
    BY Zenon DEF Acknowledgements, PhaseAt
  <2> QED
    BY Zenon, <1>1, <1>2, <1>3, <1>4, <2>1, <2>2, MoveOnKeeps DEF receiverVars
<1>5. CASE /\ pushes' = pushes \cup {push}
           /\ sent' = [sent EXCEPT ![Op(w)] = @ + 1]
           /\ Advance(w, "awaiting", loaded[w], None)
  <2>0. /\ landed[Op(w)] = None /\ \A p \in pushes : p.operation # Op(w)
        /\ Approved(journal[Op(w)].grant)
    BY Zenon, <1>2, <1>3 DEF IInv, RowsFit, HistoryFits, AttemptedStates
  <2>1. /\ push.operation = Op(w) /\ push.old = journal[Op(w)].grant.old
        /\ push.new = journal[Op(w)].grant.new
        /\ push \in [operation : Operations, old : Commits, new : Commits,
                     stage : {"connecting", "sending"}]
    BY Zenon, <1>2, GrantFacts
  <2> HIDE DEF push
  <2>2. RunTypes'
    BY Zenon, <1>1, <1>2, <1>5, AdvanceTypes
  <2>3. /\ sent' \in [Operations -> Nat] /\ sent'[Op(w)] # 0
        /\ \A o \in Operations : o # Op(w) => sent'[o] = sent[o]
    <3>1. sent[Op(w)] + 1 \in Nat /\ sent[Op(w)] + 1 # 0
      BY SMTT(30), <1>3
    <3> QED
      BY Zenon, <1>2, <1>5, <3>1 DEF IInv, TypeOK
  <2>4. TypeOK'
    BY Zenon, <1>1, <1>5, <2>1, <2>2, <2>3 DEF IInv, TypeOK, RunTypes
  <2>5. \A v \in Workers : RunFits(v)'
    <3>1. Holds(Op(w), None, landed'[Op(w)], pushes') /\ AnswerFits("awaiting", None)
      BY Zenon, NoneFacts DEF Holds, Failures, Acknowledgements, AnswerFits
    <3>2. PhaseAt("awaiting") = "apply_started" /\ loaded[w] = journal'[Op(w)]
      BY Zenon, <1>1, <1>2 DEF PhaseAt
    <3> QED
      BY Zenon, <1>1, <1>2, <1>3, <1>5, <3>1, <3>2, AdvanceFits
  <2>6. HistoryFits'
    <3> SUFFICES ASSUME NEW o \in Operations
                 PROVE  /\ sent'[o] # 0 => journal[o].state \in AttemptedStates
                        /\ sent'[o] = 0 => /\ landed[o] = None
                                           /\ \A p \in pushes' : p.operation # o
                        /\ journal[o].state \in AttemptedStates => Approved(journal[o].grant)
      BY Zenon, <1>1 DEF HistoryFits
    <3>1. CASE o = Op(w)
      BY Zenon, <1>2, <2>0, <2>3, <3>1 DEF AttemptedStates
    <3>2. CASE o # Op(w)
      BY <1>5, <2>1, <2>3, <3>2 DEF IInv, RowsFit, HistoryFits
    <3> QED BY Zenon, <3>1, <3>2
  <2>7. PushesFit'
    <3>1. /\ landed[push.operation] = None
          /\ journal[push.operation].state \in AttemptedStates
      BY <1>2, <2>0, <2>1 DEF AttemptedStates
    <3> QED
      BY <1>1, <1>5, <2>0, <2>1, <3>1 DEF IInv, RowsFit, PushesFit
  <2>8. PushLandsAsApproved' /\ EveryRowDecodes' /\ IdentityUsedOnce'
    BY Zenon, <1>1 DEF IInv, RowsFit, PushLandsAsApproved, EveryRowDecodes, IdentityUsedOnce
  <2>9. RecordedHolds'
    BY ZenonT(30), <1>1, <1>2, <1>3, <1>5, <2>1 DEF IInv, RowsFit, RecordedHolds, Holds
  <2> QED
    BY Zenon, <1>1, <2>4, <2>5, <2>6, <2>7, <2>8, <2>9 DEF IInv, RowsFit
<1> QED
  BY Zenon, <1>1, <1>4, <1>5 DEF Send

\* SendReturned keeps the inductive invariant.
LEMMA SendReturnedStep ==
    ASSUME IInv, NEW w \in Workers, SendReturned(w)
    PROVE  IInv'
<1>1. /\ pc[w] = "awaiting" /\ pc[w] \in WriterLabels
      /\ UNCHANGED <<journal, kubernetes, ref, moves, landed, sent>>
      /\ "respond" \in WriterLabels /\ "respond" \in RunLabels
  BY Zenon DEF SendReturned, WriterLabels, HeldLabels, RunLabels
<1>2. /\ loaded[w] \in Rows /\ loaded[w].state = "apply_started"
      /\ journal[Op(w)] = loaded[w] /\ Op(w) \in Operations
      /\ loaded[w].grant = run[w].grant /\ pc[w] \in HeldLabels
      /\ loaded[w].state = PhaseAt("respond")
  BY <1>1, WriterFacts DEF PhaseAt
<1>3. /\ loaded[w].acknowledgement = None /\ fetched[w] \in Acknowledgements \cup {None}
      /\ Holds(Op(w), fetched[w], landed[Op(w)], pushes)
  BY Zenon, <1>1 DEF IInv, RunFits, AnswerFits
<1>4. CASE /\ fetched[w] # None /\ UNCHANGED pushes
           /\ Advance(w, "respond", loaded[w], fetched[w])
  <2>1. AnswerFits("respond", fetched[w]) /\ fetched[w] \in Acknowledgements
    BY Zenon, <1>3, <1>4 DEF AnswerFits
  <2> QED
    BY ZenonT(30), <1>1, <1>2, <1>3, <1>4, <2>1, MoveOnKeeps DEF receiverVars
<1>5. CASE /\ Advance(w, "respond", loaded[w], "unknown")
           /\ pushes' = {p \in pushes : p.operation # Op(w)}
  <2>1. /\ AnswerFits("respond", "unknown") /\ "unknown" \in Acknowledgements
        /\ Holds(Op(w), "unknown", landed'[Op(w)], pushes')
    BY DEF AnswerFits, Acknowledgements, Holds, Failures
  <2>2. \A v \in Workers : RunFits(v)'
    <3>1. loaded[w] = journal'[Op(w)] /\ loaded[w].state # "absent"
      BY Zenon, <1>1, <1>2
    <3> QED
      BY ZenonT(30), <1>1, <1>2, <1>3, <1>5, <2>1, <3>1, AdvanceFits
  <2>3. RunTypes'
    BY Zenon, <1>1, <1>2, <1>5, <2>1, AdvanceTypes
  <2>4. TypeOK' /\ pushes' \subseteq pushes
    BY ZenonT(30), <1>1, <1>5, <2>3 DEF IInv, TypeOK, RunTypes
  <2>5. RowsFit'
    BY ZenonT(30), <1>1, <2>4 DEF IInv, RowsFit, EveryRowDecodes, IdentityUsedOnce, HistoryFits,
                      PushesFit, PushLandsAsApproved, RecordedHolds, Holds
  <2> QED
    BY Zenon, <2>2, <2>4, <2>5 DEF IInv
<1> QED
  BY Zenon, <1>1, <1>4, <1>5 DEF SendReturned

\* RecordGitAcknowledgement keeps the inductive invariant.
LEMMA RecordGitAcknowledgementStep ==
    ASSUME IInv, NEW w \in Workers, RecordGitAcknowledgement(w)
    PROVE  IInv'
<1> DEFINE next == Acknowledged(loaded[w], fetched[w])
<1>1. /\ pc[w] = "respond" /\ pc[w] \in WriterLabels
      /\ Replace(w, next, "advance") /\ UNCHANGED <<kubernetes, receiverVars, sent>>
  BY Zenon DEF RecordGitAcknowledgement, WriterLabels, HeldLabels, RunLabels
<1>2. /\ loaded[w] \in Rows /\ Decodes(loaded[w]) /\ loaded[w].state = "apply_started"
      /\ journal[Op(w)] = loaded[w] /\ Op(w) \in Operations
  BY Zenon, <1>1, WriterFacts DEF PhaseAt
<1>3. fetched[w] \in Acknowledgements /\ Holds(Op(w), fetched[w], landed[Op(w)], pushes)
  BY ZenonT(30), <1>1 DEF IInv, RunFits, AnswerFits
<1>4. /\ next \in Rows /\ Decodes(next) /\ next.acknowledgement = fetched[w]
      /\ next.state = "apply_started" /\ next.grant = loaded[w].grant
  BY Zenon, <1>2, <1>3, AcknowledgedRow
<1> HIDE DEF next
<1>5. Approved(next.grant)
  BY Zenon, <1>2, <1>4 DEF IInv, RowsFit, HistoryFits, AttemptedStates
<1> QED
  BY Zenon, <1>1, <1>2, <1>3, <1>4, <1>5, ReplaceKeeps DEF AttemptedStates

\* Observe keeps the inductive invariant.
LEMMA ObserveStep ==
    ASSUME IInv, NEW w \in Workers, Observe(w)
    PROVE  IInv'
<1>1. /\ pc[w] = "observe" /\ pc[w] \in WriterLabels
      /\ UNCHANGED <<journal, kubernetes, receiverVars, sent>> /\ "freeze" \in WriterLabels
  BY Zenon DEF Observe, WriterLabels, HeldLabels, RunLabels
<1>2. loaded[w].state = PhaseAt("freeze")
  BY Zenon, <1>1, WriterFacts DEF PhaseAt
<1>3. PICK observed \in {IF ref = None THEN "missing" ELSE ref, "unknown"} :
         Advance(w, "freeze", loaded[w], observed)
  BY Zenon DEF Observe
<1>4. observed \in ObservedRefs
  BY Zenon DEF ObservedRefs, IInv, TypeOK
<1> QED
  BY Zenon, <1>1, <1>2, <1>3, <1>4, MoveOnKeeps DEF AnswerFits

\* FreezeGitObservation keeps the inductive invariant.
LEMMA FreezeGitObservationStep ==
    ASSUME IInv, NEW w \in Workers, FreezeGitObservation(w)
    PROVE  IInv'
<1> DEFINE frozen == FrozenAcknowledgement(loaded[w], fetched[w])
           next == Frozen(loaded[w], fetched[w])
<1>1. /\ pc[w] = "freeze" /\ pc[w] \in WriterLabels
      /\ Replace(w, next, "advance") /\ UNCHANGED <<kubernetes, receiverVars, sent>>
  BY Zenon DEF FreezeGitObservation, WriterLabels, HeldLabels, RunLabels
<1>2. /\ loaded[w] \in Rows /\ Decodes(loaded[w]) /\ loaded[w].state = "apply_started"
      /\ journal[Op(w)] = loaded[w] /\ Op(w) \in Operations
  BY Zenon, <1>1, WriterFacts DEF PhaseAt
<1>3. fetched[w] \in ObservedRefs
  BY Zenon, <1>1 DEF IInv, RunFits, AnswerFits
<1>4. Holds(Op(w), frozen, landed[Op(w)], pushes)
  <2>1. CASE loaded[w].acknowledgement = None
    BY Zenon, <2>1 DEF FrozenAcknowledgement, Holds, Failures
  <2>2. CASE loaded[w].acknowledgement # None
    <3>1. Holds(Op(w), loaded[w].acknowledgement, landed[Op(w)], pushes)
      BY Zenon, <1>2, <2>2 DEF IInv, RowsFit, RecordedHolds
    <3> QED
      BY Zenon, <2>2, <3>1 DEF FrozenAcknowledgement
  <2> QED BY Zenon, <2>1, <2>2
<1>5. /\ next \in Rows /\ Decodes(next) /\ next.acknowledgement = frozen
      /\ next.state = "receiver_observed" /\ next.grant = loaded[w].grant
  BY Zenon, <1>2, <1>3, FrozenRow
<1> HIDE DEF next, frozen
<1>6. Approved(next.grant)
  BY Zenon, <1>2, <1>5 DEF IInv, RowsFit, HistoryFits, AttemptedStates
<1> QED
  BY Zenon, <1>1, <1>2, <1>4, <1>5, <1>6, ReplaceKeeps DEF AttemptedStates

\* CommitGitReceipt keeps the inductive invariant.
LEMMA CommitGitReceiptStep ==
    ASSUME IInv, NEW w \in Workers, CommitGitReceipt(w)
    PROVE  IInv'
<1> DEFINE next == Finalized(loaded[w], run[w].signing)
<1>1. /\ pc[w] = "sign" /\ pc[w] \in WriterLabels
      /\ Replace(w, next, "advance") /\ UNCHANGED <<kubernetes, receiverVars, sent>>
  BY Zenon DEF CommitGitReceipt, WriterLabels, HeldLabels, RunLabels
<1>2. /\ loaded[w] \in Rows /\ Decodes(loaded[w]) /\ loaded[w].state = "receiver_observed"
      /\ journal[Op(w)] = loaded[w] /\ Op(w) \in Operations
  BY <1>1, WriterFacts DEF PhaseAt
<1>3. run[w].signing \in Keys
  BY Zenon, <1>1 DEF IInv, RunFits
<1>4. /\ next \in Rows /\ Decodes(next)
      /\ next.acknowledgement = loaded[w].acknowledgement
      /\ next.state = "finalized" /\ next.grant = loaded[w].grant
  BY Zenon, <1>2, <1>3, FinalizedRow
<1> HIDE DEF next
<1>5. Approved(next.grant)
  BY Zenon, <1>2, <1>4 DEF IInv, RowsFit, HistoryFits, AttemptedStates
<1>6. next.acknowledgement # None =>
         Holds(Op(w), next.acknowledgement, landed[Op(w)], pushes)
  BY Zenon, <1>2, <1>4 DEF IInv, RowsFit, RecordedHolds
<1> QED
  BY Zenon, <1>1, <1>2, <1>4, <1>5, <1>6, ReplaceKeeps DEF AttemptedStates

\* The death of a worker keeps the inductive invariant.
LEMMA CrashStep ==
    ASSUME IInv, NEW w \in Workers, Crash(w)
    PROVE  IInv'
BY StopKeeps DEF Crash

-----------------------------------------------------------------------------
(* So do the receiver, other senders and the Kubernetes effect.            *)

\* A push that ends, having made the given update or none, tells the truth to the
\* run that waits for it.
LEMMA PushEndsKeeps ==
    ASSUME IInv, NEW p \in pushes, NEW acknowledgement \in Acknowledgements,
           PushEnds(p, acknowledgement), ref' \in Commits \cup {None},
           UNCHANGED <<journal, kubernetes, lease, pc, run, loaded, moves, sent>>,
           \/ landed' = landed /\ acknowledgement # "updated"
           \/ /\ landed' = [landed EXCEPT ![p.operation] = [old |-> p.old, new |-> p.new]]
              /\ acknowledgement \notin Failures
    PROVE  IInv'
<1>0. /\ pushes' = pushes \ {p}
      /\ fetched' = [w \in Workers |-> IF pc[w] = "awaiting" /\ Op(w) = p.operation
                                       THEN acknowledgement ELSE fetched[w]]
      /\ p.operation \in Operations /\ p.old \in Commits /\ p.new \in Commits
  BY Zenon DEF PushEnds, IInv, TypeOK
<1>1. /\ landed[p.operation] = None
      /\ journal[p.operation].state \in AttemptedStates
      /\ p.old = journal[p.operation].grant.old /\ p.new = journal[p.operation].grant.new
      /\ \A q \in pushes' : q.operation # p.operation
  BY ZenonT(30), <1>0 DEF IInv, RowsFit, PushesFit
<1>2. /\ landed' \in [Operations -> [old : Commits, new : Commits] \cup {None}]
      /\ \A o \in Operations : o # p.operation => landed'[o] = landed[o]
      /\ landed' = landed \/ landed'[p.operation] = [old |-> p.old, new |-> p.new]
  BY <1>0 DEF IInv, TypeOK
<1>3. Holds(p.operation, acknowledgement, landed'[p.operation], pushes')
  <2>1. CASE landed' = landed /\ acknowledgement # "updated"
    BY Zenon, <1>1, <2>1 DEF Holds
  <2>2. CASE /\ landed' = [landed EXCEPT ![p.operation] = [old |-> p.old, new |-> p.new]]
             /\ acknowledgement \notin Failures
    <3>1. landed'[p.operation] # None
      <4>1. landed'[p.operation] = [old |-> p.old, new |-> p.new]
        BY ZenonT(30), <1>0, <2>2 DEF IInv, TypeOK
      <4>2. [old |-> p.old, new |-> p.new] \in [old : Commits, new : Commits]
        BY ZenonT(30), <1>0
      <4> QED
        BY <4>1, <4>2, NoneAssumption
    <3> QED
      BY Zenon, <2>2, <3>1 DEF Holds
  <2> QED BY Zenon, <2>1, <2>2
<1>4. TypeOK'
  <2>1. fetched' \in [Workers -> Acknowledgements \cup Rejections \cup ObservedRefs
                                 \cup {None}]
    BY Zenon, <1>0 DEF IInv, TypeOK
  <2> QED
    BY ZenonT(30), <1>0, <1>2, <2>1 DEF IInv, TypeOK
<1>5. HistoryFits' /\ EveryRowDecodes' /\ IdentityUsedOnce'
  <2>1. sent[p.operation] # 0
    BY ZenonT(30), <1>0 DEF IInv, RowsFit, HistoryFits
  <2>2. HistoryFits'
    BY <1>0, <1>2, <2>1 DEF IInv, RowsFit, HistoryFits
  <2> QED
    BY <2>2 DEF IInv, RowsFit, EveryRowDecodes, IdentityUsedOnce
<1>6. PushesFit'
  BY ZenonT(30), <1>0, <1>1, <1>2 DEF IInv, RowsFit, PushesFit, TypeOK
<1>7. PushLandsAsApproved'
  <2> SUFFICES ASSUME NEW o \in Operations, landed'[o] # None
               PROVE  /\ journal[o].state \in AttemptedStates
                      /\ landed'[o] = [old |-> journal[o].grant.old,
                                       new |-> journal[o].grant.new]
                      /\ <<landed'[o].old, landed'[o].new>> \in Ancestry
    BY Zenon DEF PushLandsAsApproved
  <2>1. CASE o = p.operation
    <3>1. landed'[o] = [old |-> p.old, new |-> p.new]
      BY Zenon, <1>1, <1>2, <2>1
    <3>2. Approved(journal[o].grant)
      BY <1>1, <2>1 DEF IInv, RowsFit, HistoryFits
    <3> QED
      BY <1>1, <2>1, <3>1, <3>2 DEF Approved
  <2>2. CASE o # p.operation
    BY ZenonT(30), <1>2, <2>2 DEF IInv, RowsFit, PushLandsAsApproved
  <2> QED BY Zenon, <2>1, <2>2
<1>8. RecordedHolds'
  <2> SUFFICES ASSUME NEW o \in Operations, journal[o].acknowledgement # None
               PROVE  Holds(o, journal[o].acknowledgement, landed'[o], pushes')
    BY Zenon DEF RecordedHolds
  <2>1. Holds(o, journal[o].acknowledgement, landed[o], pushes)
    BY DEF IInv, RowsFit, RecordedHolds
  <2>2. CASE o = p.operation
    <3>1. journal[o].acknowledgement \notin Failures
      BY ZenonT(30), <2>1, <2>2 DEF Holds
    <3>2. landed[o] = None
      BY ZenonT(30), <1>1, <2>2
    <3> QED
      BY Zenon, <2>1, <3>1, <3>2 DEF Holds
  <2>3. CASE o # p.operation
    BY Zenon, <1>0, <1>2, <2>1, <2>3 DEF Holds
  <2> QED BY Zenon, <2>2, <2>3
<1>9. ASSUME NEW w \in Workers PROVE RunFits(w)'
  <2>0. Op(w)' = Op(w)
    BY Zenon DEF Op
  <2>1. AnswerFits(pc[w], fetched'[w])
    BY Zenon, <1>0 DEF AnswerFits, IInv, RunFits
  <2>2. pc[w] \in {"awaiting", "respond"} =>
           Holds(Op(w), fetched'[w], landed'[Op(w)], pushes')
    <3> SUFFICES ASSUME pc[w] \in {"awaiting", "respond"}
                 PROVE  Holds(Op(w), fetched'[w], landed'[Op(w)], pushes')
      BY Zenon
    <3>1. Holds(Op(w), fetched[w], landed[Op(w)], pushes) /\ Op(w) \in Operations
      BY ZenonT(30), RunType DEF IInv, RunFits
    <3>2. CASE Op(w) # p.operation
      BY <1>0, <1>2, <3>1, <3>2 DEF Holds
    <3>3. CASE Op(w) = p.operation /\ pc[w] = "awaiting"
      BY ZenonT(30), <1>0, <1>3, <3>3
    <3>4. CASE Op(w) = p.operation /\ pc[w] # "awaiting"
      <4>1. fetched'[w] = fetched[w] /\ fetched[w] \notin Failures
        BY Zenon, <1>0, <3>1, <3>4 DEF Holds
      <4>2. fetched[w] # "updated"
        BY Zenon, <1>1, <3>1, <3>4 DEF Holds
      <4> QED
        BY ZenonT(30), <4>1, <4>2 DEF Holds
    <3> QED BY ZenonT(30), <3>2, <3>3, <3>4
  <2> QED
    BY Zenon, <2>0, <2>1, <2>2 DEF IInv, RunFits
<1> QED
  BY ZenonT(30), <1>4, <1>5, <1>6, <1>7, <1>8, <1>9 DEF IInv, RowsFit, TypeOK

\* PushConnects keeps the inductive invariant.
LEMMA PushConnectsStep ==
    ASSUME IInv, NEW p \in pushes, PushConnects(p)
    PROVE  IInv'
<1>0. UNCHANGED <<journal, kubernetes, lease, pc, run, loaded, ref, moves, landed, sent>>
  BY Zenon DEF PushConnects
<1>1. ASSUME NEW answer \in {"unknown", "rejected_before_send"}, PushEnds(p, answer)
      PROVE  IInv'
  <2>1. answer \in Acknowledgements /\ answer # "updated" /\ ref' \in Commits \cup {None}
    BY Zenon, <1>0 DEF Acknowledgements, IInv, TypeOK
  <2> QED
    BY Zenon, <1>0, <1>1, <2>1, PushEndsKeeps
<1>2. CASE /\ pushes' = (pushes \ {p}) \cup {[p EXCEPT !.stage = "sending"]}
           /\ UNCHANGED fetched
  <2> DEFINE sending == [p EXCEPT !.stage = "sending"]
  <2>1. /\ sending \in [operation : Operations, old : Commits, new : Commits,
                         stage : {"connecting", "sending"}]
        /\ sending.operation = p.operation /\ sending.old = p.old /\ sending.new = p.new
    BY Zenon DEF IInv, TypeOK
  <2> HIDE DEF sending
  <2>2. pushes' = (pushes \ {p}) \cup {sending}
    BY Zenon, <1>2 DEF sending
  <2>3. TypeOK'
    BY Zenon, <1>0, <1>2, <2>1, <2>2 DEF IInv, TypeOK
  <2>4. ASSUME NEW o, \A q \in pushes : q.operation # o
        PROVE  \A q \in pushes' : q.operation # o
    BY Zenon, <2>1, <2>2, <2>4
  <2>5. HistoryFits' /\ RecordedHolds'
    BY Zenon, <1>0, <2>4 DEF IInv, RowsFit, HistoryFits, RecordedHolds, Holds
  <2>6. PushesFit'
    BY <1>0, <2>1, <2>2 DEF IInv, RowsFit, PushesFit
  <2>7. PushLandsAsApproved' /\ EveryRowDecodes' /\ IdentityUsedOnce'
    BY Zenon, <1>0 DEF IInv, RowsFit, PushLandsAsApproved, EveryRowDecodes, IdentityUsedOnce
  <2>8. \A w \in Workers : RunFits(w)'
    BY ZenonT(30), <1>0, <1>2, <2>4 DEF IInv, RunFits, Op, Holds
  <2> QED
    BY <1>0, <2>3, <2>5, <2>6, <2>7, <2>8 DEF IInv, RowsFit
<1> QED
  BY Zenon, <1>1, <1>2 DEF PushConnects

\* PushArrives keeps the inductive invariant.
LEMMA PushArrivesStep ==
    ASSUME IInv, NEW p \in pushes, PushArrives(p)
    PROVE  IInv'
<1>0. /\ UNCHANGED <<journal, kubernetes, lease, pc, run, loaded, moves, sent>>
      /\ p.new \in Commits /\ ref \in Commits \cup {None}
      /\ {"updated", "unknown", "receiver_rejected"} \subseteq Acknowledgements
  BY Zenon DEF PushArrives, IInv, TypeOK, Acknowledgements
<1>1. ASSUME ref = p.old, ref' = p.new,
             landed' = [landed EXCEPT ![p.operation] = [old |-> ref, new |-> p.new]],
             NEW answer \in {"updated", "unknown"}, PushEnds(p, answer)
      PROVE  IInv'
  <2>1. answer \in Acknowledgements /\ answer \notin Failures /\ ref' \in Commits \cup {None}
        /\ landed' = [landed EXCEPT ![p.operation] = [old |-> p.old, new |-> p.new]]
    BY Zenon, <1>0, <1>1 DEF Failures
  <2> QED
    BY Zenon, <1>0, <1>1, <2>1, PushEndsKeeps
<1>2. CASE PushEnds(p, "receiver_rejected") /\ UNCHANGED <<ref, landed>>
  BY Zenon, <1>0, <1>2, PushEndsKeeps
<1> QED
  BY Zenon, <1>1, <1>2 DEF PushArrives

\* PushFails keeps the inductive invariant.
LEMMA PushFailsStep ==
    ASSUME IInv, NEW p \in pushes, PushFails(p)
    PROVE  IInv'
<1>1. "unknown" \in Acknowledgements /\ ref \in Commits \cup {None}
  BY Zenon DEF Acknowledgements, IInv, TypeOK
<1> QED
  BY Zenon, <1>1, PushEndsKeeps DEF PushFails

\* OthersMove keeps the inductive invariant.
LEMMA OthersMoveStep ==
    ASSUME IInv, NEW commit \in Commits \cup {None}, OthersMove(commit)
    PROVE  IInv'
<1>1. moves' \in 0 .. MaxMoves
  BY SMTT(30), MovesAssumption DEF OthersMove, IInv, TypeOK
<1>2. TypeOK'
  BY Zenon, <1>1 DEF OthersMove, IInv, TypeOK, workerVars
<1>3. RowsFit'
  BY Zenon DEF OthersMove, IInv, RowsFit, EveryRowDecodes, IdentityUsedOnce, HistoryFits,
         PushesFit, PushLandsAsApproved, RecordedHolds
<1>4. \A w \in Workers : RunFits(w)'
  BY ZenonT(30) DEF OthersMove, workerVars, IInv, RunFits, Op
<1> QED
  BY Zenon, <1>2, <1>3, <1>4 DEF IInv

\* Kubernetes work takes only identities that have no Git row.
LEMMA KubernetesStep ==
    ASSUME IInv, NEW o \in Operations, KubernetesAdmits(o) \/ KubernetesFinishes(o)
    PROVE  IInv'
<1>1. /\ UNCHANGED <<journal, workerVars, receiverVars, sent>>
      /\ \/ journal[o].state = "absent" /\ kubernetes' = [kubernetes EXCEPT ![o] = "requested"]
         \/ /\ kubernetes[o] = "requested"
            /\ kubernetes' = [kubernetes EXCEPT ![o] = "finalized"]
  BY Zenon DEF KubernetesAdmits, KubernetesFinishes, JournalAccepts
<1>2. TypeOK'
  BY ZenonT(30), <1>1 DEF IInv, TypeOK, workerVars, receiverVars
<1>3. IdentityUsedOnce'
  BY Zenon, <1>1 DEF IInv, RowsFit, IdentityUsedOnce, TypeOK
<1>4. RowsFit'
  BY Zenon, <1>1, <1>3 DEF IInv, RowsFit, EveryRowDecodes, HistoryFits, PushesFit,
                    PushLandsAsApproved, RecordedHolds, receiverVars
<1>5. \A w \in Workers : RunFits(w)'
  BY ZenonT(30), <1>1 DEF workerVars, receiverVars, IInv, RunFits, Op
<1> QED
  BY Zenon, <1>2, <1>4, <1>5 DEF IInv

-----------------------------------------------------------------------------
(* The theorems.                                                           *)

\* The inductive invariant holds before any worker has started.
LEMMA InitIInv == Init => IInv
<1> SUFFICES ASSUME Init PROVE IInv
  BY Zenon
<1>1. TypeOK
  <2>1. moves \in 0 .. MaxMoves /\ sent \in [Operations -> Nat]
    <3>1. 0 \in 0 .. MaxMoves /\ 0 \in Nat
      BY SMTT(30), MovesAssumption
    <3> QED
      BY Zenon, <3>1 DEF Init
  <2> QED
    BY Zenon, <2>1, NoRowType DEF Init, TypeOK, RunLabels
<1>2. \A w \in Workers : RunFits(w)
  BY Zenon, NoneFacts DEF Init, RunFits, AnswerFits, HeldLabels, WriterLabels, RunLabels
<1>3. \A o \in Operations : /\ journal[o].state = "absent"
                             /\ journal[o].acknowledgement = None
  BY Zenon DEF Init, NoRow
<1>4. HistoryFits /\ RecordedHolds
  BY Zenon, <1>3 DEF Init, HistoryFits, RecordedHolds, AttemptedStates
<1> QED
  BY Zenon, <1>1, <1>2, <1>3, <1>4 DEF Init, IInv, RowsFit, EveryRowDecodes, IdentityUsedOnce,
     PushesFit, PushLandsAsApproved, TypeOK

\* Every step of a worker, of a push, of other senders or of the Kubernetes effect
\* keeps the inductive invariant.
LEMMA NextIInv == IInv /\ [Next]_vars => IInv'
<1> SUFFICES ASSUME IInv, [Next]_vars PROVE IInv'
  BY Zenon
<1>1. CASE UNCHANGED vars
  <2>1. /\ UNCHANGED <<journal, kubernetes, receiverVars, sent>>
        /\ UNCHANGED <<lease, pc, run, loaded, fetched>>
    BY Zenon, <1>1 DEF vars, workerVars
  <2>2. \A w \in Workers : RunFits(w)'
    BY Zenon, <2>1 DEF IInv, RunFits, Op, receiverVars
  <2>3. RunTypes'
    BY Zenon, <2>1 DEF IInv, TypeOK, RunTypes
  <2> QED
    BY Zenon, <2>1, <2>2, <2>3, RunsOnly
<1>2. ASSUME NEW w \in Workers, NEW grant \in Grants, NEW receiver \in BOOLEAN,
             NEW signing \in Keys \cup {None}, Begin(w, grant, receiver, signing)
      PROVE  IInv'
  BY Zenon, <1>2, BeginStep
<1>3. ASSUME NEW w \in Workers, Step(w) PROVE IInv'
  BY Zenon, <1>3, TryLockWorkerStep, InsertGitStep, ReadPhaseStep, PrepareStep, RejectGitStep,
     BeginGitAttemptStep, SendStep, SendReturnedStep, RecordGitAcknowledgementStep,
     ObserveStep, FreezeGitObservationStep, CommitGitReceiptStep DEF Step
<1>4. ASSUME NEW w \in Workers, Crash(w) PROVE IInv'
  BY Zenon, <1>4, CrashStep
<1>5. CASE Receiver
  BY Zenon, <1>5, PushConnectsStep, PushArrivesStep, PushFailsStep, OthersMoveStep,
      KubernetesStep
     DEF Receiver
<1> QED
  BY Zenon, <1>1, <1>2, <1>3, <1>4, <1>5 DEF Next

\* The inductive invariant holds in every reachable state.
THEOREM GitInvariant == Spec => []IInv
BY InitIInv, NextIInv, PTL DEF Spec

\* Every variable keeps its shape.
THEOREM GitTypeOK == Spec => []TypeOK
<1>1. IInv => TypeOK
  BY Zenon DEF IInv
<1> QED BY GitInvariant, <1>1, PTL

\* A recorded success is the update of this operation's own push, and a recorded
\* failure is final, for any number of workers, senders, orphaned pushes and lost
\* reports.
THEOREM GitAcknowledgementIsTrue == Spec => []AcknowledgementIsTrue
<1>1. IInv => AcknowledgementIsTrue
  <2> SUFFICES ASSUME IInv, NEW o \in Operations, journal[o].acknowledgement # None
               PROVE  /\ Result(journal[o].acknowledgement) = "succeeded" => landed[o] # None
                      /\ Result(journal[o].acknowledgement) = "failed" =>
                            landed[o] = None /\ \A p \in pushes : p.operation # o
    BY Zenon DEF AcknowledgementIsTrue
  <2>1. Holds(o, journal[o].acknowledgement, landed[o], pushes)
    BY Zenon DEF IInv, RowsFit, RecordedHolds
  <2>2. /\ Result(journal[o].acknowledgement) = "succeeded" =>
              journal[o].acknowledgement = "updated"
        /\ Result(journal[o].acknowledgement) = "failed" =>
              journal[o].acknowledgement \in Failures
    BY Zenon DEF Result, Failures
  <2> QED
    BY Zenon, <2>1, <2>2 DEF Holds
<1> QED BY GitInvariant, <1>1, PTL

\* A push moves the ref only as the retained grant says, forward along the history.
THEOREM GitPushLandsAsApproved == Spec => []PushLandsAsApproved
<1>1. IInv => PushLandsAsApproved
  BY Zenon DEF IInv, RowsFit
<1> QED BY GitInvariant, <1>1, PTL

\* An operation identity is used by one effect, whichever admitted it first.
THEOREM GitIdentityUsedOnce == Spec => []IdentityUsedOnce
<1>1. IInv => IdentityUsedOnce
  BY Zenon DEF IInv, RowsFit
<1> QED BY GitInvariant, <1>1, PTL

\* Every row the gateway writes is one that its own reader accepts.
THEOREM GitEveryRowDecodes == Spec => []EveryRowDecodes
<1>1. IInv => EveryRowDecodes
  BY Zenon DEF IInv, RowsFit
<1> QED BY GitInvariant, <1>1, PTL

-----------------------------------------------------------------------------
(* What a step may do to the journal, and the lifecycle it takes part in.  *)

Columns == {"grant", "rejection", "acknowledgement", "observed", "receipt"}

\* The action property, for one row.
RowAdvances(row, next) ==
    /\ \A column \in Columns : row[column] # None => next[column] = row[column]
    /\ row.state \in TerminalStates => next = row

\* Every column of a row but its state.
LEMMA ColumnsDef == DOMAIN NoRow \ {"state"} = Columns
BY Zenon DEF NoRow, Columns

\* A row that does not change advances trivially.
LEMMA SameRow ==
    ASSUME NEW row \in Rows
    PROVE  RowAdvances(row, row)
BY Zenon DEF RowAdvances

\* insert_git changes no recorded fact.
LEMMA AuthorizedAdvances ==
    ASSUME NEW grant
    PROVE  RowAdvances(NoRow, Authorized(grant))
BY DEF RowAdvances, NoRow, Authorized, Columns, TerminalStates

\* reject_git changes no recorded fact.
LEMMA RejectedAdvances ==
    ASSUME NEW row \in Rows, Decodes(row), row.state = "authorized", NEW rejection
    PROVE  RowAdvances(row, Rejected(row, rejection))
BY Zenon DEF RowAdvances, Rows, Decodes, Rejected, Columns, TerminalStates

\* begin_git_attempt changes no recorded fact.
LEMMA StartedAdvances ==
    ASSUME NEW row \in Rows, row.state = "authorized"
    PROVE  RowAdvances(row, ApplyStarted(row))
BY Zenon DEF RowAdvances, Rows, ApplyStarted, Columns, TerminalStates

\* record_git_acknowledgement changes no recorded fact.
LEMMA AcknowledgedAdvances ==
    ASSUME NEW row \in Rows, row.state = "apply_started", row.acknowledgement = None,
           NEW answer
    PROVE  RowAdvances(row, Acknowledged(row, answer))
BY Zenon DEF RowAdvances, Rows, Acknowledged, Columns, TerminalStates

\* freeze_git_observation changes no recorded fact.
LEMMA FrozenAdvances ==
    ASSUME NEW row \in Rows, Decodes(row), row.state = "apply_started", NEW observed
    PROVE  RowAdvances(row, Frozen(row, observed))
BY Zenon DEF RowAdvances, Rows, Decodes, Frozen, FrozenAcknowledgement, Columns, TerminalStates,
       FrozenStates

\* commit_git_receipt changes no recorded fact.
LEMMA FinalizedAdvances ==
    ASSUME NEW row \in Rows, Decodes(row), row.state = "receiver_observed", NEW key
    PROVE  RowAdvances(row, Finalized(row, key))
BY Zenon DEF RowAdvances, Rows, Decodes, Finalized, Columns, TerminalStates

-----------------------------------------------------------------------------
(* The abstract state and how concrete steps change it.                    *)

Phase == [o \in Operations |-> journal[o].state]
Permit == [o \in Operations |-> HasPermit(o)]

\* A step of w that neither starts nor ends at "send" moves no permission.
LEMMA PermitUnchanged ==
    ASSUME IInv, NEW w \in Workers, pc[w] # "send", pc'[w] # "send",
           \A v \in Workers \ {w} : pc'[v] = pc[v] /\ run'[v] = run[v]
    PROVE  Permit' = Permit
<1>1. ASSUME NEW o \in Operations PROVE HasPermit(o)' <=> HasPermit(o)
  BY Zenon DEF HasPermit, Op
<1>2. \A o \in Operations : HasPermit(o)' = HasPermit(o)
  BY Zenon, <1>1 DEF HasPermit
<1> QED
  BY Zenon, <1>2 DEF Permit

\* The holder of the lease is the only run that can hold permission.
LEMMA PermitOfHolder ==
    ASSUME IInv, NEW w \in Workers, pc[w] \in HeldLabels, NEW o \in Operations
    PROVE  HasPermit(o) <=> pc[w] = "send" /\ Op(w) = o
<1>1. lease = w
  BY Zenon DEF IInv, RunFits
<1>2. \A v \in Workers : pc[v] = "send" => v = w
  BY Zenon, <1>1 DEF IInv, RunFits, HeldLabels, RunLabels
<1> QED
  BY <1>2 DEF HasPermit

\* Permission ends when its run stops.
LEMMA PermitEnds ==
    ASSUME IInv, NEW w \in Workers, pc[w] = "send", pc'[w] # "send",
           \A v \in Workers \ {w} : pc'[v] = pc[v]
    PROVE  /\ Permit[Op(w)] /\ Op(w) \in Operations
           /\ Permit' = [Permit EXCEPT ![Op(w)] = FALSE]
<1>1. pc[w] \in HeldLabels /\ pc[w] # "idle" /\ Op(w) \in Operations
  BY Zenon, RunType DEF HeldLabels, RunLabels
<1>2. \A o \in Operations : HasPermit(o) <=> Op(w) = o
  BY Zenon, <1>1, PermitOfHolder
<1>3. \A v \in Workers : pc'[v] # "send"
  BY ZenonT(30) DEF IInv, RunFits, HeldLabels, RunLabels
<1>4. \A o \in Operations : HasPermit(o)' = FALSE
  BY Zenon, <1>3 DEF HasPermit
<1>5. \A o \in Operations : o # Op(w) => HasPermit(o) = FALSE
  BY Zenon, <1>2 DEF HasPermit
<1> QED
  BY Zenon, <1>1, <1>2, <1>4, <1>5 DEF Permit

\* Permission begins when the run of w reaches "send".
LEMMA PermitBegins ==
    ASSUME IInv, NEW w \in Workers, pc[w] \in HeldLabels, pc[w] # "send", pc'[w] = "send",
           run' = run, \A v \in Workers \ {w} : pc'[v] = pc[v]
    PROVE  /\ Op(w) \in Operations
           /\ Permit' = [Permit EXCEPT ![Op(w)] = TRUE]
<1>1. Op(w) \in Operations
  BY Zenon, RunType DEF HeldLabels
<1>2. \A v \in Workers : pc'[v] = "send" => v = w
  BY Zenon DEF IInv, RunFits, HeldLabels, RunLabels
<1>3. \A o \in Operations : o = Op(w) => HasPermit(o)' = TRUE
  BY Zenon DEF HasPermit, Op
<1>4. \A o \in Operations : o # Op(w) => HasPermit(o)' = FALSE
  BY Zenon, <1>2 DEF HasPermit, Op
<1>5. \A o \in Operations : HasPermit(o) = FALSE
  BY Zenon, PermitOfHolder DEF HasPermit
<1> QED
  BY Zenon, <1>1, <1>3, <1>4, <1>5 DEF Permit

-----------------------------------------------------------------------------
(* Every step.                                                             *)

AbstractNext == [Abstract!Next]_(Abstract!vars)

\* The journal advances row by row, and the step refines the lifecycle.
StepOK ==
    /\ \A o \in Operations : RowAdvances(journal[o], journal'[o])
    /\ AbstractNext

\* A step that leaves journal, permissions and sends alone.
LEMMA Stutter ==
    ASSUME IInv, UNCHANGED <<journal, sent>>, Permit' = Permit
    PROVE  StepOK
<1>1. AbstractNext
  BY Zenon DEF AbstractNext, Abstract!vars, Permit
<1>2. \A o \in Operations : RowAdvances(journal[o], journal'[o])
  BY Zenon, SameRow DEF IInv, TypeOK
<1> QED
  BY Zenon, <1>1, <1>2 DEF StepOK

\* A run that stops without writing loses at most its permission.
LEMMA StopOK ==
    ASSUME IInv, NEW w \in Workers, Stop(w), UNCHANGED <<journal, sent>>
    PROVE  StepOK
<1>0. /\ pc'[w] = "idle" /\ \A v \in Workers \ {w} : pc'[v] = pc[v] /\ run'[v] = run[v]
  BY Zenon DEF Stop, IInv, TypeOK
<1>1. CASE pc[w] # "send"
  BY Zenon, <1>0, <1>1, PermitUnchanged, Stutter
<1>2. CASE pc[w] = "send"
  <2>1. /\ Permit[Op(w)] /\ Op(w) \in Operations
        /\ Permit' = [Permit EXCEPT ![Op(w)] = FALSE]
    BY Zenon, <1>0, <1>2, PermitEnds
  <2>2. Abstract!LosePermit(Op(w))
    BY Zenon, <2>1 DEF Abstract!LosePermit, Permit
  <2>3. AbstractNext
    BY Zenon, <2>1, <2>2 DEF AbstractNext, Abstract!Next
  <2>4. \A o \in Operations : RowAdvances(journal[o], journal'[o])
    BY Zenon, SameRow DEF IInv, TypeOK
  <2> QED
    BY Zenon, <2>3, <2>4 DEF StepOK
<1> QED BY <1>1, <1>2

\* The confirmed attempt, and the send it permits.
LEMMA PermitSteps ==
    ASSUME NEW o \in Operations, Abstract!Attempt(o) \/ Abstract!Dispatch(o)
    PROVE  AbstractNext
BY DEF AbstractNext, Abstract!Next

\* The moves of one phase that are made without permission in hand.
Moves ==
    {<<"absent", "authorized">>, <<"authorized", "not_attempted">>,
     <<"authorized", "apply_started">>, <<"apply_started", "apply_started">>,
     <<"apply_started", "receiver_observed">>, <<"receiver_observed", "finalized">>}

\* Each such move is a lifecycle step.
LEMMA MoveOK ==
    ASSUME NEW o \in Operations, NEW from, NEW to, <<from, to>> \in Moves,
           Phase[o] = from, Phase' = [Phase EXCEPT ![o] = to],
           Permit[o] = FALSE, Permit' = Permit, UNCHANGED sent
    PROVE  AbstractNext
<1> USE DEF AbstractNext, Abstract!Next, Abstract!Move, Phase, Permit
<1>1. CASE from = "absent" /\ to = "authorized"
  <2>1. Abstract!Admit(o)
    BY ZenonT(30), <1>1 DEF Abstract!Admit
  <2> QED BY ZenonT(30), <2>1
<1>2. CASE from = "authorized" /\ to = "not_attempted"
  <2>1. Abstract!Reject(o)
    BY Zenon, <1>2 DEF Abstract!Reject
  <2> QED BY Zenon, <2>1
<1>3. CASE from = "authorized" /\ to = "apply_started"
  <2>1. Permit' = [Permit EXCEPT ![o] = FALSE]
    BY Zenon
  <2>2. Abstract!Attempt(o)
    BY Zenon, <1>3, <2>1 DEF Abstract!Attempt
  <2> QED BY Zenon, <2>2
<1>4. CASE from = "apply_started" /\ to = "apply_started"
  <2>1. Phase' = Phase
    BY ZenonT(30), <1>4
  <2> QED BY Zenon, <2>1 DEF Abstract!vars
<1>5. CASE from = "apply_started" /\ to = "receiver_observed"
  <2>1. Abstract!Freeze(o)
    BY Zenon, <1>5 DEF Abstract!Freeze
  <2> QED BY Zenon, <2>1
<1>6. CASE from = "receiver_observed" /\ to = "finalized"
  <2>1. Abstract!Finalize(o)
    BY Zenon, <1>6 DEF Abstract!Finalize
  <2> QED BY Zenon, <2>1
<1> QED
  BY ZenonT(30), <1>1, <1>2, <1>3, <1>4, <1>5, <1>6 DEF Moves

\* A commit of one row that advances it.
LEMMA CommitAdvances ==
    ASSUME IInv, NEW w \in Workers, Op(w) \in Operations, NEW next,
           journal' = [journal EXCEPT ![Op(w)] = next],
           RowAdvances(journal[Op(w)], next)
    PROVE  /\ \A o \in Operations : RowAdvances(journal[o], journal'[o])
           /\ Phase' = [Phase EXCEPT ![Op(w)] = next.state]
           /\ Phase[Op(w)] = journal[Op(w)].state
<1>1. /\ journal'[Op(w)] = next
      /\ \A o \in Operations \ {Op(w)} : journal'[o] = journal[o]
  BY Zenon DEF IInv, TypeOK
<1>2. \A o \in Operations : RowAdvances(journal[o], journal'[o])
  <2>1. \A o \in Operations : RowAdvances(journal[o], journal[o])
    BY Zenon, SameRow DEF IInv, TypeOK
  <2> QED BY Zenon, <1>1, <2>1
<1>3. Phase' = [Phase EXCEPT ![Op(w)] = next.state]
  <2>1. \A o \in Operations :
           journal'[o].state = IF o = Op(w) THEN next.state ELSE journal[o].state
    BY SMTT(30), <1>1
  <2> QED
    BY Zenon, <2>1 DEF Phase
<1>4. Phase[Op(w)] = journal[Op(w)].state
  BY Zenon DEF Phase
<1> QED
  BY Zenon, <1>2, <1>3, <1>4

\* A conditional replacement, confirmed or not, is one such move, or the attempt
\* whose confirmation brings permission.
LEMMA ReplaceOK ==
    ASSUME IInv, NEW w \in Workers, pc[w] \in WriterLabels \ {"send"},
           NEW next, NEW label, RowAdvances(loaded[w], next),
           <<loaded[w].state, next.state>> \in Moves,
           label = "send" => loaded[w].state = "authorized" /\ next.state = "apply_started",
           Replace(w, next, label), UNCHANGED sent
    PROVE  StepOK
<1>0. /\ Op(w) \in Operations /\ journal[Op(w)] = loaded[w] /\ pc[w] \in HeldLabels
  BY Zenon, WriterFacts
<1>1. Permit[Op(w)] = FALSE
  BY Zenon, <1>0, PermitOfHolder DEF Permit, HasPermit
<1>2. CASE UNCHANGED journal /\ Stop(w)
  BY <1>2, StopOK
<1>3. CASE journal' = [journal EXCEPT ![Op(w)] = next] /\ Stop(w)
  <2>1. /\ pc'[w] = "idle"
        /\ \A v \in Workers \ {w} : pc'[v] = pc[v] /\ run'[v] = run[v]
    BY ZenonT(30), <1>3 DEF Stop, IInv, TypeOK
  <2>2. Permit' = Permit
    BY Zenon, <2>1, PermitUnchanged
  <2> QED
    BY ZenonT(30), <1>0, <1>1, <1>3, <2>2, CommitAdvances, MoveOK DEF StepOK
<1>4. CASE journal' = [journal EXCEPT ![Op(w)] = next] /\ Advance(w, label, next, None)
  <2>1. /\ pc'[w] = label /\ run' = run
        /\ \A v \in Workers \ {w} : pc'[v] = pc[v] /\ run'[v] = run[v]
    BY Zenon, <1>4 DEF Advance, IInv, TypeOK
  <2>2. CASE label # "send"
    <3>1. Permit' = Permit
      BY Zenon, <2>1, <2>2, PermitUnchanged
    <3> QED
      BY ZenonT(30), <1>0, <1>1, <1>4, <3>1, CommitAdvances, MoveOK DEF StepOK
  <2>3. CASE label = "send"
    <3>1. Permit' = [Permit EXCEPT ![Op(w)] = TRUE]
      BY Zenon, <1>0, <2>1, <2>3, PermitBegins
    <3>2. /\ \A x \in Operations : RowAdvances(journal[x], journal'[x])
          /\ Phase' = [Phase EXCEPT ![Op(w)] = "apply_started"] /\ Phase[Op(w)] = "authorized"
      <4>1. RowAdvances(journal[Op(w)], next)
        BY Zenon, <1>0
      <4>2. /\ \A x \in Operations : RowAdvances(journal[x], journal'[x])
            /\ Phase' = [Phase EXCEPT ![Op(w)] = next.state]
            /\ Phase[Op(w)] = journal[Op(w)].state
        BY Zenon, <1>0, <1>4, <4>1, CommitAdvances
      <4> QED
        BY Zenon, <1>0, <2>3, <4>2
    <3>3. PICK o \in Operations : o = Op(w)
      BY Zenon, <1>0
    <3>4. Abstract!Attempt(o)
      BY Zenon, <3>1, <3>2, <3>3 DEF Abstract!Attempt, Abstract!Move, Phase, Permit
    <3>5. AbstractNext
      BY Zenon, <3>4, PermitSteps
    <3> QED
      BY <3>2, <3>5 DEF StepOK
  <2> QED BY <2>2, <2>3
<1> QED
  BY Zenon, <1>2, <1>3, <1>4 DEF Replace

\* Moving between labels other than "send" is invisible.
LEMMA AdvanceOK ==
    ASSUME IInv, NEW w \in Workers, NEW label, NEW row, NEW answer,
           Advance(w, label, row, answer), pc[w] # "send", label # "send",
           UNCHANGED <<journal, sent>>
    PROVE  StepOK
<1>1. /\ pc'[w] # "send"
      /\ \A v \in Workers \ {w} : pc'[v] = pc[v] /\ run'[v] = run[v]
  BY Zenon DEF Advance, IInv, TypeOK
<1> QED
  BY Zenon, <1>1, PermitUnchanged, Stutter

\* So is everything that happens at the receiver.
LEMMA RunsUnchanged ==
    ASSUME IInv, UNCHANGED <<journal, sent, pc, run>>
    PROVE  StepOK
<1>1. \A o \in Operations : HasPermit(o)' = HasPermit(o)
  BY Zenon DEF HasPermit, Op
<1>2. Permit' = Permit
  BY Zenon, <1>1 DEF Permit
<1> QED
  BY Zenon, <1>2, Stutter

\* Begin writes facts once and is invisible to the lifecycle.
LEMMA BeginOK ==
    ASSUME IInv, NEW w \in Workers, NEW grant, NEW receiver, NEW signing,
           Begin(w, grant, receiver, signing)
    PROVE  StepOK
<1>1. /\ UNCHANGED <<journal, sent>> /\ pc[w] = "idle" /\ pc'[w] = "lock"
      /\ \A v \in Workers \ {w} : pc'[v] = pc[v] /\ run'[v] = run[v]
  BY Zenon DEF Begin, IInv, TypeOK
<1> QED
  BY Zenon, <1>1, PermitUnchanged, Stutter

\* TryLockWorker writes facts once, moves phases forward and is a step of the lifecycle.
LEMMA TryLockWorkerOK ==
    ASSUME IInv, NEW w \in Workers, TryLockWorker(w)
    PROVE  StepOK
<1>1. UNCHANGED <<journal, sent>> /\ pc[w] = "lock"
  BY Zenon DEF TryLockWorker
<1>2. CASE Stop(w)
  BY Zenon, <1>1, <1>2, StopOK
<1>3. CASE pc' = [pc EXCEPT ![w] = "admit"] /\ UNCHANGED run
  <2>1. /\ pc'[w] = "admit"
        /\ \A v \in Workers \ {w} : pc'[v] = pc[v] /\ run'[v] = run[v]
    BY Zenon, <1>3 DEF IInv, TypeOK
  <2> QED
    BY Zenon, <1>1, <2>1, PermitUnchanged, Stutter
<1> QED
  BY Zenon, <1>2, <1>3 DEF TryLockWorker

\* InsertGit writes facts once and is an admission of the lifecycle.
LEMMA InsertGitOK ==
    ASSUME IInv, NEW w \in Workers, InsertGit(w)
    PROVE  StepOK
<1> DEFINE new == Authorized(run[w].grant)
<1>0. /\ pc[w] = "admit" /\ pc[w] # "idle" /\ UNCHANGED sent
      /\ Op(w) \in Operations /\ pc[w] \in HeldLabels
  BY Zenon, RunType DEF InsertGit, HeldLabels, RunLabels
<1>1. CASE Advance(w, "advance", journal[Op(w)], None) /\ UNCHANGED journal
  BY Zenon, <1>0, <1>1, AdvanceOK
<1>2. CASE Stop(w) /\ UNCHANGED journal
  BY Zenon, <1>0, <1>2, StopOK
<1>3. CASE /\ JournalAccepts(Op(w)) /\ journal' = [journal EXCEPT ![Op(w)] = new]
           /\ Advance(w, "advance", new, None) \/ Stop(w)
  <2>1. /\ pc'[w] # "send"
        /\ \A v \in Workers \ {w} : pc'[v] = pc[v] /\ run'[v] = run[v]
    BY ZenonT(30), <1>3 DEF Advance, Stop, IInv, TypeOK
  <2>2. Permit' = Permit
    BY Zenon, <1>0, <2>1, PermitUnchanged
  <2>3. Permit[Op(w)] = FALSE
    BY Zenon, <1>0, PermitOfHolder DEF Permit, HasPermit
  <2>4. journal[Op(w)].state = "absent" /\ journal[Op(w)] = NoRow
    BY Zenon, <1>0, <1>3 DEF JournalAccepts, IInv, RowsFit, EveryRowDecodes, Decodes
  <2>5. new.state = "authorized" /\ RowAdvances(journal[Op(w)], new)
    BY Zenon, <2>4, AuthorizedAdvances DEF Authorized, NoRow
  <2> HIDE DEF new
  <2>6. /\ \A o \in Operations : RowAdvances(journal[o], journal'[o])
        /\ Phase' = [Phase EXCEPT ![Op(w)] = new.state]
        /\ Phase[Op(w)] = journal[Op(w)].state
    BY Zenon, <1>0, <1>3, <2>5, CommitAdvances
  <2>7. <<"absent", "authorized">> \in Moves
    BY Zenon DEF Moves
  <2> QED
    BY ZenonT(30), <1>0, <2>2, <2>3, <2>4, <2>5, <2>6, <2>7, MoveOK DEF StepOK
<1> QED
  BY ZenonT(30), <1>1, <1>2, <1>3 DEF InsertGit

\* ReadPhase writes nothing and leads to no send.
LEMMA ReadPhaseOK ==
    ASSUME IInv, NEW w \in Workers, ReadPhase(w)
    PROVE  StepOK
<1>1. pc[w] = "advance" /\ UNCHANGED <<journal, sent>>
  BY Zenon DEF ReadPhase
<1>2. CASE Stop(w)
  BY Zenon, <1>1, <1>2, StopOK
<1>3. CASE Advance(w, NextStep(journal[Op(w)]), journal[Op(w)], None)
  <2>1. NextStep(journal[Op(w)]) # "send"
    BY Zenon DEF NextStep
  <2> QED
    BY Zenon, <1>1, <1>3, <2>1, AdvanceOK
<1> QED
  BY ZenonT(30), <1>2, <1>3 DEF ReadPhase

\* Prepare writes nothing.
LEMMA PrepareOK ==
    ASSUME IInv, NEW w \in Workers, Prepare(w)
    PROVE  StepOK
<1>1. pc[w] = "prepare" /\ UNCHANGED <<journal, sent>>
  BY Zenon DEF Prepare
<1>2. ASSUME NEW label \in {"reject", "attempt"}, NEW answer,
             Advance(w, label, loaded[w], answer)
      PROVE  StepOK
  BY Zenon, <1>1, <1>2, AdvanceOK
<1>3. CASE Stop(w)
  BY Zenon, <1>1, <1>3, StopOK
<1> QED
  BY Zenon, <1>2, <1>3 DEF Prepare

\* RejectGit writes facts once and is a rejection of the lifecycle.
LEMMA RejectGitOK ==
    ASSUME IInv, NEW w \in Workers, RejectGit(w)
    PROVE  StepOK
<1> DEFINE next == Rejected(loaded[w], fetched[w])
<1>1. /\ pc[w] = "reject" /\ pc[w] \in WriterLabels \ {"send"}
      /\ Replace(w, next, "advance") /\ UNCHANGED sent
  BY Zenon DEF RejectGit, WriterLabels, HeldLabels, RunLabels
<1>2. loaded[w] \in Rows /\ Decodes(loaded[w]) /\ loaded[w].state = "authorized"
  BY Zenon, <1>1, WriterFacts DEF PhaseAt
<1>3. RowAdvances(loaded[w], next) /\ next.state = "not_attempted"
  BY Zenon, <1>2, RejectedAdvances DEF Rejected, Rows
<1>4. <<"authorized", "not_attempted">> \in Moves
  BY Zenon DEF Moves
<1> HIDE DEF next
<1> QED
  BY Zenon, <1>1, <1>2, <1>3, <1>4, ReplaceOK

\* BeginGitAttempt is the attempt, and permits the send if its commit is confirmed.
LEMMA BeginGitAttemptOK ==
    ASSUME IInv, NEW w \in Workers, BeginGitAttempt(w)
    PROVE  StepOK
<1> DEFINE next == ApplyStarted(loaded[w])
<1>1. /\ pc[w] = "attempt" /\ pc[w] \in WriterLabels \ {"send"}
      /\ Replace(w, next, "send") /\ UNCHANGED sent
  BY Zenon DEF BeginGitAttempt, WriterLabels, HeldLabels, RunLabels
<1>2. loaded[w] \in Rows /\ Decodes(loaded[w]) /\ loaded[w].state = "authorized"
  BY Zenon, <1>1, WriterFacts DEF PhaseAt
<1>3. RowAdvances(loaded[w], next) /\ next.state = "apply_started"
  BY Zenon, <1>2, StartedAdvances DEF ApplyStarted, Rows
<1>4. <<"authorized", "apply_started">> \in Moves
  BY Zenon DEF Moves
<1> HIDE DEF next
<1> QED
  BY Zenon, <1>1, <1>2, <1>3, <1>4, ReplaceOK

\* Send uses the permission, or loses it.
LEMMA SendOK ==
    ASSUME IInv, NEW w \in Workers, Send(w)
    PROVE  StepOK
<1>1. /\ pc[w] = "send" /\ pc'[w] # "send" /\ UNCHANGED journal
      /\ \A v \in Workers \ {w} : pc'[v] = pc[v]
      /\ UNCHANGED sent \/ sent' = [sent EXCEPT ![Op(w)] = @ + 1]
  BY ZenonT(30) DEF Send, Advance, IInv, TypeOK
<1>2. /\ Permit[Op(w)] /\ Op(w) \in Operations
      /\ Permit' = [Permit EXCEPT ![Op(w)] = FALSE]
  BY Zenon, <1>1, PermitEnds
<1>3. PICK o \in Operations : o = Op(w)
  BY Zenon, <1>2
<1>4. AbstractNext
  <2>1. CASE UNCHANGED sent
    <3>1. Abstract!LosePermit(o)
      BY Zenon, <1>1, <1>2, <1>3, <2>1 DEF Abstract!LosePermit, Permit
    <3> QED
      BY Zenon, <3>1 DEF AbstractNext, Abstract!Next
  <2>2. CASE sent' = [sent EXCEPT ![Op(w)] = @ + 1]
    <3>1. Abstract!Dispatch(o)
      BY Zenon, <1>1, <1>2, <1>3, <2>2 DEF Abstract!Dispatch, Permit
    <3> QED
      BY Zenon, <3>1, PermitSteps
  <2> QED BY Zenon, <1>1, <2>1, <2>2
<1>5. \A x \in Operations : RowAdvances(journal[x], journal'[x])
  BY Zenon, <1>1, SameRow DEF IInv, TypeOK
<1> QED
  BY Zenon, <1>4, <1>5 DEF StepOK

\* SendReturned writes nothing.
LEMMA SendReturnedOK ==
    ASSUME IInv, NEW w \in Workers, SendReturned(w)
    PROVE  StepOK
BY Zenon, AdvanceOK DEF SendReturned

\* RecordGitAcknowledgement writes facts once and stays in its phase.
LEMMA RecordGitAcknowledgementOK ==
    ASSUME IInv, NEW w \in Workers, RecordGitAcknowledgement(w)
    PROVE  StepOK
<1> DEFINE next == Acknowledged(loaded[w], fetched[w])
<1>1. /\ pc[w] = "respond" /\ pc[w] \in WriterLabels \ {"send"}
      /\ Replace(w, next, "advance") /\ UNCHANGED sent
  BY Zenon DEF RecordGitAcknowledgement, WriterLabels, HeldLabels, RunLabels
<1>2. loaded[w] \in Rows /\ Decodes(loaded[w]) /\ loaded[w].state = "apply_started"
      /\ loaded[w].acknowledgement = None
  BY Zenon, <1>1, WriterFacts DEF PhaseAt, IInv, RunFits
<1>3. RowAdvances(loaded[w], next) /\ next.state = "apply_started"
  BY Zenon, <1>2, AcknowledgedAdvances DEF Acknowledged, Rows
<1>4. <<"apply_started", "apply_started">> \in Moves
  BY Zenon DEF Moves
<1> HIDE DEF next
<1> QED
  BY Zenon, <1>1, <1>2, <1>3, <1>4, ReplaceOK

\* Observe writes nothing.
LEMMA ObserveOK ==
    ASSUME IInv, NEW w \in Workers, Observe(w)
    PROVE  StepOK
BY Zenon, AdvanceOK DEF Observe

\* FreezeGitObservation writes facts once and freezes the observation of the lifecycle.
LEMMA FreezeGitObservationOK ==
    ASSUME IInv, NEW w \in Workers, FreezeGitObservation(w)
    PROVE  StepOK
<1> DEFINE next == Frozen(loaded[w], fetched[w])
<1>1. /\ pc[w] = "freeze" /\ pc[w] \in WriterLabels \ {"send"}
      /\ Replace(w, next, "advance") /\ UNCHANGED sent
  BY Zenon DEF FreezeGitObservation, WriterLabels, HeldLabels, RunLabels
<1>2. loaded[w] \in Rows /\ Decodes(loaded[w]) /\ loaded[w].state = "apply_started"
  BY Zenon, <1>1, WriterFacts DEF PhaseAt
<1>3. RowAdvances(loaded[w], next) /\ next.state = "receiver_observed"
  BY Zenon, <1>2, FrozenAdvances DEF Frozen, Rows
<1>4. <<"apply_started", "receiver_observed">> \in Moves
  BY DEF Moves
<1> HIDE DEF next
<1> QED
  BY Zenon, <1>1, <1>2, <1>3, <1>4, ReplaceOK

\* CommitGitReceipt writes facts once and finalizes the operation.
LEMMA CommitGitReceiptOK ==
    ASSUME IInv, NEW w \in Workers, CommitGitReceipt(w)
    PROVE  StepOK
<1> DEFINE next == Finalized(loaded[w], run[w].signing)
<1>1. /\ pc[w] = "sign" /\ pc[w] \in WriterLabels \ {"send"}
      /\ Replace(w, next, "advance") /\ UNCHANGED sent
  BY Zenon DEF CommitGitReceipt, WriterLabels, HeldLabels, RunLabels
<1>2. loaded[w] \in Rows /\ Decodes(loaded[w]) /\ loaded[w].state = "receiver_observed"
  BY Zenon, <1>1, WriterFacts DEF PhaseAt
<1>3. RowAdvances(loaded[w], next) /\ next.state = "finalized"
  BY Zenon, <1>2, FinalizedAdvances DEF Finalized, Rows
<1>4. <<"receiver_observed", "finalized">> \in Moves
  BY Zenon DEF Moves
<1> HIDE DEF next
<1> QED
  BY Zenon, <1>1, <1>2, <1>3, <1>4, ReplaceOK

\* Every step.
LEMMA NextOK == IInv /\ [Next]_vars => StepOK
<1> SUFFICES ASSUME IInv, [Next]_vars PROVE StepOK
  BY Zenon
<1>1. CASE UNCHANGED vars
  BY Zenon, <1>1, RunsUnchanged DEF vars, workerVars
<1>2. ASSUME NEW w \in Workers, NEW grant \in Grants, NEW receiver \in BOOLEAN,
             NEW signing \in Keys \cup {None}, Begin(w, grant, receiver, signing)
      PROVE  StepOK
  BY Zenon, <1>2, BeginOK
<1>3. ASSUME NEW w \in Workers, Step(w) PROVE StepOK
  BY Zenon, <1>3, TryLockWorkerOK, InsertGitOK, ReadPhaseOK, PrepareOK, RejectGitOK,
     BeginGitAttemptOK, SendOK, SendReturnedOK, RecordGitAcknowledgementOK, ObserveOK,
     FreezeGitObservationOK, CommitGitReceiptOK DEF Step
<1>4. ASSUME NEW w \in Workers, Crash(w) PROVE StepOK
  BY Zenon, <1>4, StopOK DEF Crash
<1>5. CASE Receiver
  <2>1. UNCHANGED <<journal, sent, pc, run>>
    BY Zenon, <1>5 DEF Receiver, PushConnects, PushArrives, PushFails, OthersMove,
        KubernetesAdmits,
                KubernetesFinishes, workerVars
  <2> QED
    BY Zenon, <2>1, RunsUnchanged
<1> QED
  BY Zenon, <1>1, <1>2, <1>3, <1>4, <1>5 DEF Next

-----------------------------------------------------------------------------
(* The theorems.                                                           *)

\* No recorded fact changes and no terminal row does: neither a retry nor a later
\* observation or signer rewrites a column.
THEOREM GitFactsAreWrittenOnce == Spec => FactsAreWrittenOnce
<1>1. IInv /\ [Next]_vars =>
         [\A o \in Operations :
             /\ \A column \in DOMAIN NoRow \ {"state"} :
                   journal[o][column] # None => journal'[o][column] = journal[o][column]
             /\ journal[o].state \in TerminalStates => journal'[o] = journal[o]]_vars
  BY NextOK, ColumnsDef DEF StepOK, RowAdvances
<1> QED
  BY <1>1, GitInvariant, PTL DEF Spec, FactsAreWrittenOnce

\* The initial states are initial states of the lifecycle.
LEMMA InitAbstract == Init => Abstract!Init
<1> SUFFICES ASSUME Init PROVE Abstract!Init
  BY Zenon
<1>1. \A o \in Operations : HasPermit(o) = FALSE
  BY Zenon DEF Init, HasPermit
<1>2. \A o \in Operations : journal[o].state = "absent"
  BY Zenon, NoRowType DEF Init
<1> QED
  BY Zenon, <1>1, <1>2 DEF Init, Abstract!Init

\* The Git effect implements the effect lifecycle: the attempt is durable before the
\* one push that may carry it out, which is never repeated, even if the ref is back
\* at the old commit.
THEOREM GitImplementsLifecycle == Spec => ImplementsLifecycle
<1>1. IInv /\ [Next]_vars => [Abstract!Next]_(Abstract!vars)
  BY NextOK DEF StepOK, AbstractNext
<1> QED
  BY <1>1, InitAbstract, GitInvariant, PTL DEF Spec, ImplementsLifecycle, Abstract!Spec
=============================================================================
