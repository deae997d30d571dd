----------------------------- MODULE GitEffect -----------------------------
(***************************************************************************)
(* The Git effect: admission, advancement and recovery of approved "move   *)
(* refs/heads/approved from commit A to commit B" operations               *)
(* (src/gateway/git.rs, src/gateway/journal/git.rs).                       *)
(*                                                                         *)
(* Git rows live in a table of their own in the journal the Kubernetes     *)
(* effect uses, and share its identities, its capacities and its worker    *)
(* lease.  The Kubernetes side is reduced here to the admission and the    *)
(* completion of its rows.  A push is a child process: it outlives the     *)
(* worker that started it if that worker's process dies, and is killed if  *)
(* the worker gives up on it.                                              *)
(***************************************************************************)
EXTENDS Journal

CONSTANTS
    Operations,     \* operation identities, shared with the Kubernetes effect
    Workers,        \* processes with an open journal
    Commits,        \* commit identities
    Ancestry,       \* <<a, b>>: both are commits and a is an ancestor of b
    Grants,         \* signed authorization grants
    Keys,           \* receipt signing keys
    MaxMoves,       \* bound: ref updates by other senders
    None

ASSUME GrantsAssumption ==
    Grants \subseteq [operation : Operations, old : Commits, new : Commits]

ASSUME MovesAssumption == MaxMoves \in Nat

VARIABLES
    journal,        \* operation identity -> Git row, durable
    kubernetes,     \* operation identity -> phase of its Kubernetes row, durable
    lease, pc, run, loaded, fetched,
    ref,            \* the approved branch at the receiver, or None if missing
    pushes,         \* push processes under way
    moves,          \* ref updates made by other senders
    sent,           \* history: pushes started per operation
    landed          \* history: the update each operation's push made

workerVars   == <<lease, pc, run, loaded, fetched>>
receiverVars == <<ref, pushes, moves, landed>>
vars == <<journal, kubernetes, workerVars, receiverVars, sent>>

-----------------------------------------------------------------------------
(* Rows and runs.                                                          *)

Acknowledgements == {"updated", "rejected_before_send", "receiver_rejected", "unknown"}
Rejections       == {"stale_ref", "invalid_objects"}

\* ObservedRef: a commit, "missing" or "unknown".
ObservedRefs == Commits \cup {"missing", "unknown"}

Receipts ==
    [statement : [grant : Grants, acknowledgement : Acknowledgements,
                  observed : ObservedRefs],
     key : Keys]

ASSUME NoneAssumption ==
    /\ None \notin Commits \cup Operations \cup Workers \cup Grants \cup Keys
    /\ None \notin Acknowledgements \cup Rejections \cup ObservedRefs \cup Receipts
    /\ None \notin [old : Commits, new : Commits]

NoRow ==
    [state |-> "absent", grant |-> None, rejection |-> None, acknowledgement |-> None,
     observed |-> None, receipt |-> None]

\* GitPhase::statement; attribution and result follow from the acknowledgement.
Statement(row) ==
    [grant |-> row.grant, acknowledgement |-> row.acknowledgement, observed |-> row.observed]

\* GitStatement::result
Result(acknowledgement) ==
    CASE acknowledgement = "updated" -> "succeeded"
      [] acknowledgement \in {"rejected_before_send", "receiver_rejected"} -> "failed"
      [] OTHER -> "unknown"

\* decode_record and decode_phase accept the row.
Decodes(row) ==
    /\ row.state \in OperationStates \ {"absent", "requested"} /\ row.grant # None
    /\ row.rejection # None <=> row.state = "not_attempted"
    /\ row.acknowledgement # None => row.state \in AttemptedStates
    /\ row.state \in FrozenStates => row.acknowledgement # None
    /\ row.observed # None <=> row.state \in FrozenStates
    /\ row.receipt # None <=> row.state = "finalized"
    /\ row.receipt # None => row.receipt.statement = Statement(row)

Op(w) == run[w].grant.operation

\* decode_record compares the grant bytes of the run with the retained ones.
Custody(w) == journal[Op(w)].grant = run[w].grant

\* Both tables, as capacity::counts sees them.
Tables ==
    [entry \in {"git", "kubernetes"} \X Operations |->
        [state |-> IF entry[1] = "git" THEN journal[entry[2]].state
                   ELSE kubernetes[entry[2]]]]

Stop(w) ==
    /\ pc' = [pc EXCEPT ![w] = "idle"]
    /\ lease' = IF lease = w THEN None ELSE lease
    /\ run' = [run EXCEPT ![w] = None]
    /\ loaded' = [loaded EXCEPT ![w] = NoRow]
    /\ fetched' = [fetched EXCEPT ![w] = None]

Advance(w, label, row, answer) ==
    /\ pc' = [pc EXCEPT ![w] = label]
    /\ loaded' = [loaded EXCEPT ![w] = row]
    /\ fetched' = [fetched EXCEPT ![w] = answer]
    /\ UNCHANGED <<lease, run>>

\* git_write and Io::replace: as for the Kubernetes effect, the whole row must be
\* the one that was read, and a commit may go unconfirmed or not happen.
Replace(w, next, label) ==
    \/ /\ journal[Op(w)] = loaded[w]
       /\ journal' = [journal EXCEPT ![Op(w)] = next]
       /\ Advance(w, label, next, None) \/ Stop(w)
    \/ UNCHANGED journal /\ Stop(w)

-----------------------------------------------------------------------------
(* Admission.                                                              *)

\* admit_and_reconcile_git up to the lock.  A Kubernetes row of the same identity,
\* or a Git row under another grant, is an identity conflict; a terminal row is
\* selected read-only.
Begin(w, grant, receiver, signing) ==
    LET o == grant.operation IN
    /\ pc[w] = "idle"
    /\ journal[o].state = "absent" => kubernetes[o] = "absent"
    /\ journal[o].state # "absent" => journal[o].grant = grant
    /\ journal[o].state \notin TerminalStates
    /\ pc' = [pc EXCEPT ![w] = "lock"]
    /\ run' = [run EXCEPT ![w] =
                  [grant |-> grant, receiver |-> receiver, signing |-> signing]]
    /\ loaded' = [loaded EXCEPT ![w] = journal[o]]
    /\ UNCHANGED <<journal, kubernetes, lease, fetched, receiverVars, sent>>

\* try_lock_worker
TryLockWorker(w) ==
    /\ pc[w] = "lock"
    /\ \/ /\ lease = None /\ lease' = w
          /\ pc' = [pc EXCEPT ![w] = "admit"]
          /\ UNCHANGED <<run, loaded, fetched>>
       \/ lease # None /\ Stop(w)
    /\ UNCHANGED <<journal, kubernetes, receiverVars, sent>>

\* The insert transaction of replace_sqlite: the identity is new in both tables
\* and the two tables together leave room.
JournalAccepts(o) ==
    /\ journal[o].state = "absent" /\ kubernetes[o] = "absent"
    /\ ~JournalFull(Tables)

\* The row of an admitted grant.
Authorized(grant) == [NoRow EXCEPT !.state = "authorized", !.grant = grant]

\* insert_git under the lease.
InsertGit(w) ==
    LET row == journal[Op(w)]
        new == Authorized(run[w].grant)
    IN
    /\ pc[w] = "admit"
    /\ \/ /\ row.state # "absent" /\ Custody(w)
          /\ Advance(w, "advance", row, None)
          /\ UNCHANGED journal
       \/ /\ JournalAccepts(Op(w))
          /\ journal' = [journal EXCEPT ![Op(w)] = new]
          /\ Advance(w, "advance", new, None) \/ Stop(w)
       \/ /\ ~(row.state # "absent" /\ Custody(w))      \* conflict, full, or no commit
          /\ Stop(w) /\ UNCHANGED journal
    /\ UNCHANGED <<kubernetes, receiverVars, sent>>

-----------------------------------------------------------------------------
(* Advancement under the lease (advance).                                  *)

\* Mutant of NextStep: an attempt with no acknowledgement is prepared again.
NextStepRetries(row) ==
    CASE row.state = "authorized" -> "prepare"
      [] row.state = "apply_started" ->
            IF row.acknowledgement = None /\ ref = row.grant.old THEN "send" ELSE "observe"
      [] OTHER -> "sign"

\* Mutant of NextStep: a frozen row is observed again instead of signed.
NextStepReobserves(row) == IF row.state = "authorized" THEN "prepare" ELSE "observe"

\* Attempted history never enters prepare or send again.
NextStep(row) ==
    CASE row.state = "authorized" -> "prepare"
      [] row.state = "apply_started" -> "observe"
      [] OTHER -> "sign"

\* Read the phase under custody.  The run stops at a terminal phase, or when the
\* receiver or signing material it needs is missing.
ReadPhase(w) ==
    LET row == journal[Op(w)] IN
    /\ pc[w] = "advance"
    /\ row.state # "absent" /\ Custody(w)
    /\ \/ /\ \/ row.state \in TerminalStates
             \/ row.state \in {"authorized", "apply_started"} /\ ~run[w].receiver
             \/ row.state = "receiver_observed" /\ run[w].signing = None
          /\ Stop(w)
       \/ /\ row.state \in UnfinishedStates
          /\ row.state \in {"authorized", "apply_started"} => run[w].receiver
          /\ row.state = "receiver_observed" => run[w].signing # None
          /\ Advance(w, NextStep(row), row, None)
    /\ UNCHANGED <<journal, kubernetes, receiverVars, sent>>

\* prepare: objects and ancestry first, then the present ref.  Anything uncertain
\* ends the run and leaves the operation resumable.
Prepare(w) ==
    LET grant == run[w].grant IN
    /\ pc[w] = "prepare"
    /\ \/ /\ <<grant.old, grant.new>> \notin Ancestry
          /\ Advance(w, "reject", loaded[w], "invalid_objects")
       \/ /\ <<grant.old, grant.new>> \in Ancestry /\ ref # grant.old
          /\ Advance(w, "reject", loaded[w], "stale_ref")
       \/ /\ <<grant.old, grant.new>> \in Ancestry /\ ref = grant.old
          /\ Advance(w, "attempt", loaded[w], None)
       \/ Stop(w)
    /\ UNCHANGED <<journal, kubernetes, receiverVars, sent>>

Rejected(row, rejection) ==
    [row EXCEPT !.state = "not_attempted", !.rejection = rejection]

RejectGit(w) ==
    /\ pc[w] = "reject"
    /\ Replace(w, Rejected(loaded[w], fetched[w]), "advance")
    /\ UNCHANGED <<kubernetes, receiverVars, sent>>

ApplyStarted(row) == [row EXCEPT !.state = "apply_started"]

\* begin_git_attempt: only the confirmed commit leads on to the send.
BeginGitAttempt(w) ==
    /\ pc[w] = "attempt"
    /\ Replace(w, ApplyStarted(loaded[w]), "send")
    /\ UNCHANGED <<kubernetes, receiverVars, sent>>

\* Mutant of Send: the lease is taken on the ref as it is now.
SendLeasesPresentRef(w) ==
    /\ pc[w] = "send" /\ ref # None
    /\ pushes' = pushes \cup
          {[operation |-> Op(w), old |-> ref, new |-> run[w].grant.new,
            stage |-> "connecting"]}
    /\ sent' = [sent EXCEPT ![Op(w)] = @ + 1]
    /\ Advance(w, "awaiting", loaded[w], None)
    /\ UNCHANGED <<journal, kubernetes, ref, moves, landed>>

\* send consumes the permission: one push with the exact lease on the old commit,
\* or no push at all if custody or configuration no longer hold.
Send(w) ==
    /\ pc[w] = "send"
    /\ \/ /\ Advance(w, "respond", loaded[w], "unknown")
          /\ UNCHANGED <<pushes, sent>>
       \/ /\ pushes' = pushes \cup
                {[operation |-> Op(w), old |-> run[w].grant.old, new |-> run[w].grant.new,
                  stage |-> "connecting"]}
          /\ sent' = [sent EXCEPT ![Op(w)] = @ + 1]
          /\ Advance(w, "awaiting", loaded[w], None)
    /\ UNCHANGED <<journal, kubernetes, ref, moves, landed>>

\* run_bounded: the porcelain status of the push, or at the deadline the process
\* group is killed and nothing is known.
SendReturned(w) ==
    /\ pc[w] = "awaiting"
    /\ \/ /\ fetched[w] # None
          /\ Advance(w, "respond", loaded[w], fetched[w])
          /\ UNCHANGED pushes
       \/ /\ Advance(w, "respond", loaded[w], "unknown")
          /\ pushes' = {p \in pushes : p.operation # Op(w)}
    /\ UNCHANGED <<journal, kubernetes, ref, moves, landed, sent>>

Acknowledged(row, acknowledgement) == [row EXCEPT !.acknowledgement = acknowledgement]

RecordGitAcknowledgement(w) ==
    /\ pc[w] = "respond"
    /\ Replace(w, Acknowledged(loaded[w], fetched[w]), "advance")
    /\ UNCHANGED <<kubernetes, receiverVars, sent>>

\* observe: one read of the present ref, or nothing known.
Observe(w) ==
    /\ pc[w] = "observe"
    /\ \E observed \in {IF ref = None THEN "missing" ELSE ref, "unknown"} :
          Advance(w, "freeze", loaded[w], observed)
    /\ UNCHANGED <<journal, kubernetes, receiverVars, sent>>

\* Mutant of FrozenAcknowledgement: the ref that is seen decides.
FrozenAcknowledgementInferred(row, observed) ==
    IF observed = row.grant.new THEN "updated"
    ELSE IF row.acknowledgement = None THEN "unknown" ELSE row.acknowledgement

\* The retained acknowledgement, never one inferred from what was observed.
FrozenAcknowledgement(row, observed) ==
    IF row.acknowledgement = None THEN "unknown" ELSE row.acknowledgement

Frozen(row, observed) ==
    [row EXCEPT !.state = "receiver_observed", !.observed = observed,
                !.acknowledgement = FrozenAcknowledgement(row, observed)]

FreezeGitObservation(w) ==
    /\ pc[w] = "freeze"
    /\ Replace(w, Frozen(loaded[w], fetched[w]), "advance")
    /\ UNCHANGED <<kubernetes, receiverVars, sent>>

Finalized(row, key) ==
    [row EXCEPT !.state = "finalized",
                !.receipt = [statement |-> Statement(row), key |-> key]]

\* evidence::sign and commit_git_receipt
CommitGitReceipt(w) ==
    /\ pc[w] = "sign"
    /\ Replace(w, Finalized(loaded[w], run[w].signing), "advance")
    /\ UNCHANGED <<kubernetes, receiverVars, sent>>

\* The process dies, or an error is returned early.  A push it started goes on.
Crash(w) ==
    /\ pc[w] # "idle"
    /\ Stop(w)
    /\ UNCHANGED <<journal, kubernetes, receiverVars, sent>>

-----------------------------------------------------------------------------
(* The receiver, other senders and the Kubernetes effect.                  *)

\* A push that ends tells the worker that still waits for it.
PushEnds(p, acknowledgement) ==
    /\ pushes' = pushes \ {p}
    /\ fetched' = [w \in Workers |-> IF pc[w] = "awaiting" /\ Op(w) = p.operation
                                     THEN acknowledgement ELSE fetched[w]]

\* The sender reads the ref.  It is up to date, or the lease no longer holds and
\* nothing is sent, or the update command is sent.
PushConnects(p) ==
    /\ p \in pushes /\ p.stage = "connecting"
    /\ \/ ref = p.new /\ PushEnds(p, "unknown")
       \/ ref \notin {p.old, p.new} /\ PushEnds(p, "rejected_before_send")
       \/ /\ ref = p.old
          /\ pushes' = (pushes \ {p}) \cup {[p EXCEPT !.stage = "sending"]}
          /\ UNCHANGED fetched
    /\ UNCHANGED <<journal, kubernetes, lease, pc, run, loaded, ref, moves, landed, sent>>

\* The receiver compares the old commit and updates the ref, or it or its hooks
\* refuse.  The report may be lost.
PushArrives(p) ==
    /\ p \in pushes /\ p.stage = "sending"
    /\ \/ /\ ref = p.old
          /\ ref' = p.new
          /\ landed' = [landed EXCEPT ![p.operation] = [old |-> ref, new |-> p.new]]
          /\ \E acknowledgement \in {"updated", "unknown"} : PushEnds(p, acknowledgement)
       \/ /\ PushEnds(p, "receiver_rejected")
          /\ UNCHANGED <<ref, landed>>
    /\ UNCHANGED <<journal, kubernetes, lease, pc, run, loaded, moves, sent>>

\* The push fails without a status.
PushFails(p) ==
    /\ p \in pushes
    /\ PushEnds(p, "unknown")
    /\ UNCHANGED <<journal, kubernetes, lease, pc, run, loaded, ref, moves, landed, sent>>

\* Somebody else moves, creates or deletes the branch.
OthersMove(commit) ==
    /\ moves < MaxMoves /\ commit # ref
    /\ ref' = commit
    /\ moves' = moves + 1
    /\ UNCHANGED <<journal, kubernetes, workerVars, pushes, landed, sent>>

\* A process admits Kubernetes work, under the lease it takes and drops again.
KubernetesAdmits(o) ==
    /\ lease = None
    /\ JournalAccepts(o)
    /\ kubernetes' = [kubernetes EXCEPT ![o] = "requested"]
    /\ UNCHANGED <<journal, workerVars, receiverVars, sent>>

KubernetesFinishes(o) ==
    /\ lease = None
    /\ kubernetes[o] = "requested"
    /\ kubernetes' = [kubernetes EXCEPT ![o] = "finalized"]
    /\ UNCHANGED <<journal, workerVars, receiverVars, sent>>

-----------------------------------------------------------------------------
Init ==
    /\ journal = [o \in Operations |-> NoRow]
    /\ kubernetes = [o \in Operations |-> "absent"]
    /\ lease = None
    /\ pc = [w \in Workers |-> "idle"]
    /\ run = [w \in Workers |-> None]
    /\ loaded = [w \in Workers |-> NoRow]
    /\ fetched = [w \in Workers |-> None]
    /\ ref \in Commits
    /\ pushes = {}
    /\ moves = 0
    /\ sent = [o \in Operations |-> 0]
    /\ landed = [o \in Operations |-> None]

Step(w) ==
    \/ TryLockWorker(w) \/ InsertGit(w) \/ ReadPhase(w) \/ Prepare(w) \/ RejectGit(w)
    \/ BeginGitAttempt(w) \/ Send(w) \/ SendReturned(w) \/ RecordGitAcknowledgement(w)
    \/ Observe(w) \/ FreezeGitObservation(w) \/ CommitGitReceipt(w)

Receiver ==
    \/ \E p \in pushes : PushConnects(p) \/ PushArrives(p) \/ PushFails(p)
    \/ \E commit \in Commits \cup {None} : OthersMove(commit)
    \/ \E o \in Operations : KubernetesAdmits(o) \/ KubernetesFinishes(o)

Next ==
    \/ \E w \in Workers :
          \/ \E grant \in Grants, receiver \in BOOLEAN, signing \in Keys \cup {None} :
                Begin(w, grant, receiver, signing)
          \/ Step(w)
          \/ Crash(w)
    \/ Receiver

Spec == Init /\ [][Next]_vars

-----------------------------------------------------------------------------
(* Properties.                                                             *)

RunLabels ==
    {"idle", "lock", "admit", "advance", "prepare", "reject", "attempt", "send",
     "awaiting", "respond", "observe", "freeze", "sign"}

Rows ==
    [state : OperationStates, grant : Grants \cup {None},
     rejection : Rejections \cup {None},
     acknowledgement : Acknowledgements \cup {None},
     observed : ObservedRefs \cup {None}, receipt : Receipts \cup {None}]

Runs == [grant : Grants, receiver : BOOLEAN, signing : Keys \cup {None}]

\* The shape of every variable.
TypeOK ==
    /\ journal \in [Operations -> Rows]
    /\ kubernetes \in [Operations -> {"absent", "requested", "finalized"}]
    /\ lease \in Workers \cup {None}
    /\ pc \in [Workers -> RunLabels]
    /\ run \in [Workers -> Runs \cup {None}]
    /\ loaded \in [Workers -> Rows]
    /\ fetched \in [Workers -> Acknowledgements \cup Rejections \cup ObservedRefs \cup {None}]
    /\ ref \in Commits \cup {None}
    /\ pushes \subseteq [operation : Operations, old : Commits, new : Commits,
                         stage : {"connecting", "sending"}]
    /\ moves \in 0 .. MaxMoves
    /\ sent \in [Operations -> Nat]
    /\ landed \in [Operations -> [old : Commits, new : Commits] \cup {None}]

\* A recorded result is true of the original attempt and stays true: "succeeded"
\* only if this operation's own push moved the ref, "failed" only if it did not
\* and no longer can.  Seeing the new commit later attributes nothing.
AcknowledgementIsTrue ==
    \A o \in Operations : journal[o].acknowledgement # None =>
        /\ Result(journal[o].acknowledgement) = "succeeded" => landed[o] # None
        /\ Result(journal[o].acknowledgement) = "failed" =>
              landed[o] = None /\ \A p \in pushes : p.operation # o

\* A push moves the ref only between the two commits the retained grant names, a
\* fast-forward, and only for an operation whose attempt is durable.
PushLandsAsApproved ==
    \A o \in Operations : landed[o] # None =>
        /\ journal[o].state \in AttemptedStates
        /\ landed[o] = [old |-> journal[o].grant.old, new |-> journal[o].grant.new]
        /\ <<landed[o].old, landed[o].new>> \in Ancestry

\* An identity belongs to one effect, whichever of them got there first.
IdentityUsedOnce ==
    \A o \in Operations : journal[o].state = "absent" \/ kubernetes[o] = "absent"

\* Every row the gateway writes is one its own reader accepts, and a receipt
\* signs exactly the statement that was frozen.
EveryRowDecodes == \A o \in Operations : journal[o] # NoRow => Decodes(journal[o])

\* Every column but the phase is written once, and a terminal row never changes.
FactsAreWrittenOnce ==
    [][\A o \in Operations :
          /\ \A column \in DOMAIN NoRow \ {"state"} :
                journal[o][column] # None => journal'[o][column] = journal[o][column]
          /\ journal[o].state \in TerminalStates => journal'[o] = journal[o]]_vars

HasPermit(o) == \E w \in Workers : pc[w] = "send" /\ Op(w) = o

Abstract ==
    INSTANCE Lifecycle WITH
        phase  <- [o \in Operations |-> journal[o].state],
        permit <- [o \in Operations |-> HasPermit(o)],
        sends  <- sent

\* The Git effect keeps every promise of the effect lifecycle: in particular an
\* attempt is sent at most once, even if the ref is back at the old commit.
ImplementsLifecycle == Abstract!Spec

\* Fairness: as for the Kubernetes effect, runs are scheduled, callers resume
\* unfinished work with receiver and signing material installed, and a step that
\* may be tried again does not fail every time.
Resume(w) ==
    \E grant \in Grants, key \in Keys :
        /\ journal[grant.operation].state \in UnfinishedStates
        /\ Begin(w, grant, TRUE, key)

RetriedLabels == RunLabels \ {"idle", "send", "awaiting", "respond"}

Succeed(w, label) ==
    /\ pc[w] = label
    /\ journal[run[w].grant.operation].state # "absent"
    /\ run[w].receiver /\ run[w].signing # None
    /\ Step(w)
    /\ pc'[w] # "idle"

FairSpec ==
    /\ Spec
    /\ \A w \in Workers :
          /\ WF_vars(Step(w))
          /\ SF_vars(Resume(w))
          /\ \A label \in RetriedLabels : SF_vars(Succeed(w, label))

\* Admitted work reaches a terminal phase if callers keep resuming it, whatever
\* was lost on the way.
AdmittedWorkFinishes ==
    \A o \in Operations :
        journal[o].state # "absent" ~> journal[o].state \in TerminalStates
=============================================================================
