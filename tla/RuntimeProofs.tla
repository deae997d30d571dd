---------------------------- MODULE RuntimeProofs ----------------------------
(***************************************************************************)
(* Theorems about ServiceRuntime for any number of requests, operations,   *)
(* connections and kept diagnostics, and any journal at the start.         *)
(*                                                                         *)
(* The inductive invariant comes in four layers, each proved from the ones *)
(* before it: who may execute, what shutdown has waited for, what callers  *)
(* were told, and which diagnostics are kept.                              *)
(***************************************************************************)
EXTENDS ServiceRuntime, Integers, WellFoundedInduction, FiniteSetTheorems, TLAPS

-----------------------------------------------------------------------------
(* Who may execute.                                                        *)

HandlerLabels == {"idle", "open", "pinning", "selected", "waiting", "closed"}

RunningLabels == Executing \cup {"stopping", "recorded"}

ClosureLabels ==
    RunningLabels \cup {"none", "queued", "probed", "observed", "paged", "dropped"}

Types ==
    /\ serving \in {"accepting", "joining", "draining", "retired"}
    /\ handler \in [Requests -> HandlerLabels]
    /\ role \in [Requests -> Roles \cup {None}]
    /\ supervisor \in [Requests -> {"none", "registered", "awaiting", "finished"}]
    /\ closure \in [Requests -> ClosureLabels]
    /\ lease \in [Requests -> {"none", "held", "unconnected", "releasing", "retired"}]
    /\ pin \in [Requests -> Requests \cup {None}]
    /\ permit \in Requests \cup {None}
    /\ selected \in Requests \cup {None}
    /\ jobs \in SUBSET Requests

\* The handler or the lease of r may reference a Selection.
Holding(r) == handler[r] = "selected" \/ lease[r] \in {"held", "unconnected"}

\* The role that each label of a closure belongs to.
RoleFits(label, kind) ==
    /\ label \in RunningLabels => kind = "execution"
    /\ label = "probed" => kind = "probe"
    /\ label \in {"observed", "paged"} => kind = "read"

\* How far a connection, its job and its lease have come.
RequestFits(r) ==
    /\ handler[r] \in {"idle", "open"} => role[r] = None
    /\ handler[r] = "pinning" => role[r] = "probe"
    /\ handler[r] \in {"idle", "open", "pinning", "selected"} => supervisor[r] = "none"
    /\ handler[r] = "waiting" => supervisor[r] # "none"
    /\ supervisor[r] = "none" <=> lease[r] = "none"
    /\ supervisor[r] \in {"none", "registered"} => closure[r] = "none"
    /\ supervisor[r] = "awaiting" => closure[r] # "none"
    /\ RoleFits(closure[r], role[r])
    /\ lease[r] \in {"unconnected", "releasing", "retired"} => LeaseUnreferenced(r)
    /\ Holding(r) /\ role[r] = "execution" => pin[r] = r
    /\ ~Holding(r) => pin[r] = None

\* Every reference is to the Selection that holds the permit.  It is freed by the one
\* job whose lease held the last reference.
SelectionFits ==
    /\ \A r \in Requests : pin[r] # None => permit = pin[r]
    /\ \A r \in Requests :
          lease[r] = "releasing" =>
             /\ permit # None
             /\ \A q \in Requests : pin[q] = None /\ (lease[q] = "releasing" => q = r)

Ownership ==
    /\ Types
    /\ \A r \in Requests : RequestFits(r)
    /\ SelectionFits

-----------------------------------------------------------------------------
(* What shutdown has waited for.                                           *)

\* A job that is no longer registered has retired.
ShutdownFits ==
    /\ serving \in {"draining", "retired"} => \A r \in Requests : ~HandlerActive(r)
    /\ \A r \in Requests \ jobs : lease[r] # "none" => Retired(r)
    /\ serving = "retired" => \A r \in Requests : lease[r] \in {"none", "retired"}

-----------------------------------------------------------------------------
(* What callers were told.                                                 *)

Phases == {"absent", "unfinished", "terminal"}

\* A row only ever moves on.
MovesOn(phase, next) ==
    /\ phase = "unfinished" => next # "absent"
    /\ phase = "terminal" => next = "terminal"

\* What guidance says of a row.
Agrees(answer, phase) ==
    answer \in Guidances =>
       /\ answer.kind = "complete" => phase = "terminal"
       /\ answer.kind # "admission_unconfirmed" => phase # "absent"

AnswerTypes ==
    /\ row \in [Operations -> Phases]
    /\ DOMAIN response = Requests
    /\ DOMAIN local = Requests
    /\ DOMAIN sent = Requests

\* What the job of r has read, computed and answered at each label.
AnswerFits(r) ==
    /\ closure[r] \in {"none", "queued", "executing", "committed", "probed", "observed", "paged"}
          => sent[r] = None
    /\ closure[r] \in {"committed", "advancing"} => row[Op(r)] = "unfinished"
    /\ closure[r] = "probed" => local[r] \in Phases \cup {"error"}
    /\ closure[r] = "probed" /\ local[r] = "absent" /\ pin[r] # None /\ Op(pin[r]) # Op(r)
          => row[Op(r)] = "absent"
    /\ closure[r] = "paged" => /\ local[r] \in {"unfinished", "terminal"}
                               /\ MovesOn(local[r], row[Op(r)])
    /\ Agrees(sent[r], row[Op(r)]) /\ Agrees(response[r], row[Op(r)])
    /\ response[r] \in Refusals => sent[r] = response[r]

AnswersFit == AnswerTypes /\ \A r \in Requests : AnswerFits(r)

-----------------------------------------------------------------------------
(* Which diagnostics are kept.                                             *)

Entries == [operation : Operations, observation : AllConditions \cup {"unknown"}]

\* An operation has at most one entry, ...
Distinct(entries) ==
    \A i, j \in DOMAIN entries : entries[i].operation = entries[j].operation => i = j

\* What is kept while the pass of r is under way.
PassFits(r) ==
    /\ ExecutionPending(r) /\ closure[r] # "recorded" =>
          \A i \in DOMAIN stopped : stopped[i].operation # Op(r)
    /\ closure[r] = "stopping" => StopObservation(local[r]) = lastPass[Op(r)]

\* ... which is what its latest pass ended with, and it has none from its selection on
\* until that pass is recorded.
DiagnosticsFit ==
    /\ stopped \in Seq(Entries) /\ Len(stopped) <= StoppedMax /\ Distinct(stopped)
    /\ lastPass \in [Operations -> AllConditions \cup {"unknown"}]
    /\ \A i \in DOMAIN stopped : stopped[i].observation = lastPass[stopped[i].operation]
    /\ \A r \in Requests : PassFits(r)

IInv == Ownership /\ ShutdownFits /\ AnswersFit /\ DiagnosticsFit
-----------------------------------------------------------------------------
(* Every action keeps ownership.                                           *)

\* Accept keeps ownership.
LEMMA AcceptOwns ==
    ASSUME Ownership, NEW r \in Requests, Accept(r)
    PROVE  Ownership'
<1>1. Types'
  BY Zenon DEF Ownership, Types, Accept, Move, HandlerLabels, handlerVars, jobVars,
     selectionVars
<1>2. ASSUME NEW q \in Requests PROVE RequestFits(q)'
  BY NoneAssumption DEF Ownership, Types, Accept, Move, HandlerLabels, handlerVars, jobVars,
     selectionVars,
     RequestFits, RoleFits, Holding, LeaseUnreferenced, RunningLabels, Executing
<1>3. SelectionFits'
  BY NoneAssumption DEF Ownership, Types, SelectionFits, Accept, Move, HandlerLabels,
     handlerVars, jobVars, selectionVars,
     RequestFits, RoleFits, Holding, LeaseUnreferenced, RunningLabels, Executing
<1> QED
  BY <1>1, <1>2, <1>3 DEF Ownership

\* Refuse keeps ownership.
LEMMA RefuseOwns ==
    ASSUME Ownership, NEW r \in Requests, Refuse(r)
    PROVE  Ownership'
<1>1. Types'
  BY Zenon DEF Ownership, Types, Refuse, Move, HandlerLabels, handlerVars, jobVars,
     selectionVars
<1>2. ASSUME NEW q \in Requests PROVE RequestFits(q)'
  BY NoneAssumption DEF Ownership, Types, Refuse, Move, HandlerLabels, handlerVars, jobVars,
     selectionVars,
     RequestFits, RoleFits, Holding, LeaseUnreferenced, RunningLabels, Executing
<1>3. SelectionFits'
  BY NoneAssumption DEF Ownership, Types, SelectionFits, Refuse, Move, HandlerLabels,
     handlerVars, jobVars, selectionVars,
     RequestFits, RoleFits, Holding, LeaseUnreferenced, RunningLabels, Executing
<1> QED
  BY <1>1, <1>2, <1>3 DEF Ownership

\* DispatchRead keeps ownership.
LEMMA DispatchOwns ==
    ASSUME Ownership, NEW r \in Requests, DispatchRead(r)
    PROVE  Ownership'
<1>1. Types'
  BY Zenon DEF Ownership, Types, DispatchRead, Roles, Move, HandlerLabels, handlerVars,
     jobVars, selectionVars
<1>2. ASSUME NEW q \in Requests PROVE RequestFits(q)'
  BY NoneAssumption DEF Ownership, Types, DispatchRead, Roles, Move, HandlerLabels,
     handlerVars, jobVars, selectionVars,
     RequestFits, RoleFits, Holding, LeaseUnreferenced, RunningLabels, Executing
<1>3. SelectionFits'
  BY NoneAssumption DEF Ownership, Types, SelectionFits, DispatchRead, Roles, Move,
     HandlerLabels, handlerVars, jobVars, selectionVars,
     RequestFits, RoleFits, Holding, LeaseUnreferenced, RunningLabels, Executing
<1> QED
  BY Zenon, <1>1, <1>2, <1>3 DEF Ownership

\* AcquireSubmission keeps ownership: a free permit means that no Selection is referenced.
LEMMA AcquireOwns ==
    ASSUME Ownership, NEW r \in Requests, AcquireSubmission(r)
    PROVE  Ownership'
<1>1. Types'
  BY Zenon DEF Ownership, Types, AcquireSubmission, Roles, Move, HandlerLabels, handlerVars,
     jobVars, selectionVars
<1>2. ASSUME NEW q \in Requests PROVE RequestFits(q)'
  BY NoneAssumption DEF Ownership, Types, AcquireSubmission, Roles, Move, HandlerLabels,
     handlerVars, jobVars, selectionVars,
     RequestFits, RoleFits, Holding, LeaseUnreferenced, RunningLabels, Executing
<1>3. SelectionFits'
  BY NoneAssumption DEF Ownership, Types, SelectionFits, AcquireSubmission, Roles, Move,
     HandlerLabels, handlerVars, jobVars, selectionVars,
     RequestFits, RoleFits, Holding, LeaseUnreferenced, RunningLabels, Executing
<1> QED
  BY <1>1, <1>2, <1>3 DEF Ownership

\* FailAcquisition keeps ownership.
LEMMA FailOwns ==
    ASSUME Ownership, NEW r \in Requests, FailAcquisition(r)
    PROVE  Ownership'
<1>1. Types'
  BY Zenon DEF Ownership, Types, FailAcquisition, Roles, Move, HandlerLabels, handlerVars,
     jobVars, selectionVars
<1>2. ASSUME NEW q \in Requests PROVE RequestFits(q)'
  BY NoneAssumption DEF Ownership, Types, FailAcquisition, Roles, Move, HandlerLabels,
     handlerVars, jobVars, selectionVars,
     RequestFits, RoleFits, Holding, LeaseUnreferenced, RunningLabels, Executing
<1>3. SelectionFits'
  BY NoneAssumption DEF Ownership, Types, SelectionFits, FailAcquisition, Roles, Move,
     HandlerLabels, handlerVars, jobVars, selectionVars,
     RequestFits, RoleFits, Holding, LeaseUnreferenced, RunningLabels, Executing
<1> QED
  BY <1>1, <1>2, <1>3 DEF Ownership

\* PinSelection keeps ownership: what can be upgraded is referenced.
LEMMA PinOwns ==
    ASSUME Ownership, NEW r \in Requests, PinSelection(r)
    PROVE  Ownership'
<1>1. Types'
  BY Zenon DEF Ownership, Types, PinSelection, Upgraded, Live, Roles, Move, HandlerLabels,
     handlerVars, jobVars, selectionVars
<1>2. ASSUME NEW q \in Requests PROVE RequestFits(q)'
  BY NoneAssumption DEF Ownership, Types, PinSelection, Upgraded, Live, Roles, Move,
     HandlerLabels, handlerVars, jobVars, selectionVars,
     RequestFits, RoleFits, Holding, LeaseUnreferenced, RunningLabels, Executing
<1>3. SelectionFits'
  BY NoneAssumption DEF Ownership, Types, SelectionFits, PinSelection, Upgraded, Live, Roles,
     Move, HandlerLabels, handlerVars, jobVars, selectionVars,
     RequestFits, RoleFits, Holding, LeaseUnreferenced, RunningLabels, Executing
<1> QED
  BY <1>1, <1>2, <1>3 DEF Ownership

\* Spawn keeps ownership: a refused job frees the permit if it held the last reference.
LEMMA RegisterOwns ==
    ASSUME Ownership, NEW r \in Requests, Spawn(r)
    PROVE  Ownership'
<1>1. Types'
  BY DEF Ownership, Types, Spawn, Move, HandlerLabels, handlerVars, jobVars, selectionVars
<1>2. ASSUME NEW q \in Requests PROVE RequestFits(q)'
  BY NoneAssumption DEF Ownership, Types, Spawn, Move, HandlerLabels, handlerVars, jobVars,
     selectionVars,
     RequestFits, RoleFits, Holding, LeaseUnreferenced, RunningLabels, Executing
<1>3. SelectionFits'
  BY NoneAssumption DEF Ownership, Types, SelectionFits, Spawn, Move, HandlerLabels,
     handlerVars, jobVars, selectionVars,
     RequestFits, RoleFits, Holding, LeaseUnreferenced, RunningLabels, Executing
<1> QED
  BY Zenon, <1>1, <1>2, <1>3 DEF Ownership

\* ReceiveDecision keeps ownership.
LEMMA ReceiveOwns ==
    ASSUME Ownership, NEW r \in Requests, ReceiveDecision(r)
    PROVE  Ownership'
<1>1. Types'
  BY Zenon DEF Ownership, Types, ReceiveDecision, Move, HandlerLabels, handlerVars, jobVars,
     selectionVars
<1>2. ASSUME NEW q \in Requests PROVE RequestFits(q)'
  BY NoneAssumption DEF Ownership, Types, ReceiveDecision, Move, HandlerLabels, handlerVars,
     jobVars, selectionVars,
     RequestFits, RoleFits, Holding, LeaseUnreferenced, RunningLabels, Executing
<1>3. SelectionFits'
  BY NoneAssumption DEF Ownership, Types, SelectionFits, ReceiveDecision, Move,
     HandlerLabels, handlerVars, jobVars, selectionVars,
     RequestFits, RoleFits, Holding, LeaseUnreferenced, RunningLabels, Executing
<1> QED
  BY <1>1, <1>2, <1>3 DEF Ownership

\* SenderGone keeps ownership.
LEMMA SenderOwns ==
    ASSUME Ownership, NEW r \in Requests, SenderGone(r)
    PROVE  Ownership'
<1>1. Types'
  BY Zenon DEF Ownership, Types, SenderGone, Move, HandlerLabels, handlerVars, jobVars,
     selectionVars
<1>2. ASSUME NEW q \in Requests PROVE RequestFits(q)'
  BY NoneAssumption DEF Ownership, Types, SenderGone, Move, HandlerLabels, handlerVars,
     jobVars, selectionVars,
     RequestFits, RoleFits, Holding, LeaseUnreferenced, RunningLabels, Executing
<1>3. SelectionFits'
  BY NoneAssumption DEF Ownership, Types, SelectionFits, SenderGone, Move, HandlerLabels,
     handlerVars, jobVars, selectionVars,
     RequestFits, RoleFits, Holding, LeaseUnreferenced, RunningLabels, Executing
<1> QED
  BY <1>1, <1>2, <1>3 DEF Ownership

\* Deadline keeps ownership.
LEMMA DeadlineOwns ==
    ASSUME Ownership, NEW r \in Requests, Deadline(r)
    PROVE  Ownership'
<1>1. Types'
  BY Zenon DEF Ownership, Types, Deadline, Move, HandlerLabels, handlerVars, jobVars,
     selectionVars
<1>2. ASSUME NEW q \in Requests PROVE RequestFits(q)'
  BY NoneAssumption DEF Ownership, Types, Deadline, Move, HandlerLabels, handlerVars,
     jobVars, selectionVars,
     RequestFits, RoleFits, Holding, LeaseUnreferenced, RunningLabels, Executing
<1>3. SelectionFits'
  BY NoneAssumption DEF Ownership, Types, SelectionFits, Deadline, Move, HandlerLabels,
     handlerVars, jobVars, selectionVars,
     RequestFits, RoleFits, Holding, LeaseUnreferenced, RunningLabels, Executing
<1> QED
  BY <1>1, <1>2, <1>3 DEF Ownership

\* StartBlocking keeps ownership.
LEMMA StartOwns ==
    ASSUME Ownership, NEW r \in Requests, StartBlocking(r)
    PROVE  Ownership'
<1>1. Types'
  BY Zenon DEF Ownership, Types, StartBlocking, ClosureLabels, Move, HandlerLabels,
     handlerVars, jobVars, selectionVars
<1>2. ASSUME NEW q \in Requests PROVE RequestFits(q)'
  BY NoneAssumption DEF Ownership, Types, StartBlocking, ClosureLabels, Move, HandlerLabels,
     handlerVars, jobVars, selectionVars,
     RequestFits, RoleFits, Holding, LeaseUnreferenced, RunningLabels, Executing
<1>3. SelectionFits'
  BY NoneAssumption DEF Ownership, Types, SelectionFits, StartBlocking, ClosureLabels, Move,
     HandlerLabels, handlerVars, jobVars, selectionVars,
     RequestFits, RoleFits, Holding, LeaseUnreferenced, RunningLabels, Executing
<1> QED
  BY <1>1, <1>2, <1>3 DEF Ownership

\* SupervisorReturns keeps ownership.
LEMMA ReturnOwns ==
    ASSUME Ownership, NEW r \in Requests, SupervisorReturns(r)
    PROVE  Ownership'
<1>1. Types'
  BY Zenon DEF Ownership, Types, SupervisorReturns, Move, HandlerLabels, handlerVars,
     jobVars, selectionVars
<1>2. ASSUME NEW q \in Requests PROVE RequestFits(q)'
  BY Zenon, NoneAssumption DEF Ownership, Types, SupervisorReturns, Move, HandlerLabels,
     handlerVars, jobVars, selectionVars,
     RequestFits, RoleFits, Holding, LeaseUnreferenced, RunningLabels, Executing
<1>3. SelectionFits'
  BY NoneAssumption DEF Ownership, Types, SelectionFits, SupervisorReturns, Move,
     HandlerLabels, handlerVars, jobVars, selectionVars,
     RequestFits, RoleFits, Holding, LeaseUnreferenced, RunningLabels, Executing
<1> QED
  BY <1>1, <1>2, <1>3 DEF Ownership

\* AbortSupervisor keeps ownership.
LEMMA AbortOwns ==
    ASSUME Ownership, NEW r \in Requests, AbortSupervisor(r)
    PROVE  Ownership'
<1>1. Types'
  BY Zenon DEF Ownership, Types, AbortSupervisor, Move, HandlerLabels, handlerVars, jobVars,
     selectionVars
<1>2. ASSUME NEW q \in Requests PROVE RequestFits(q)'
  BY Zenon, NoneAssumption DEF Ownership, Types, AbortSupervisor, Move, HandlerLabels,
     handlerVars, jobVars, selectionVars,
     RequestFits, RoleFits, Holding, LeaseUnreferenced, RunningLabels, Executing
<1>3. SelectionFits'
  BY NoneAssumption DEF Ownership, Types, SelectionFits, AbortSupervisor, Move,
     HandlerLabels, handlerVars, jobVars, selectionVars,
     RequestFits, RoleFits, Holding, LeaseUnreferenced, RunningLabels, Executing
<1> QED
  BY <1>1, <1>2, <1>3 DEF Ownership

\* DropConnection keeps ownership.
LEMMA DropConnectionOwns ==
    ASSUME Ownership, NEW r \in Requests, DropConnection(r)
    PROVE  Ownership'
<1>1. Types'
  BY Zenon DEF Ownership, Types, DropConnection, Move, HandlerLabels, handlerVars, jobVars,
     selectionVars
<1>2. ASSUME NEW q \in Requests PROVE RequestFits(q)'
  BY NoneAssumption DEF Ownership, Types, DropConnection, Move, HandlerLabels, handlerVars,
     jobVars, selectionVars,
     RequestFits, RoleFits, Holding, LeaseUnreferenced, RunningLabels, Executing
<1>3. SelectionFits'
  BY NoneAssumption DEF Ownership, Types, SelectionFits, DropConnection, Move, HandlerLabels,
     handlerVars, jobVars, selectionVars,
     RequestFits, RoleFits, Holding, LeaseUnreferenced, RunningLabels, Executing
<1> QED
  BY <1>1, <1>2, <1>3 DEF Ownership

\* DropSelection keeps ownership: it finds out whether its reference was the last.
LEMMA DropSelectionOwns ==
    ASSUME Ownership, NEW r \in Requests, DropSelection(r)
    PROVE  Ownership'
<1>1. Types'
  BY Zenon DEF Ownership, Types, DropSelection, Move, HandlerLabels, handlerVars, jobVars,
     selectionVars
<1>2. ASSUME NEW q \in Requests PROVE RequestFits(q)'
  BY NoneAssumption DEF Ownership, Types, DropSelection, Move, HandlerLabels, handlerVars,
     jobVars, selectionVars,
     RequestFits, RoleFits, Holding, LeaseUnreferenced, RunningLabels, Executing
<1>3. SelectionFits'
  BY NoneAssumption DEF Ownership, Types, SelectionFits, DropSelection, Move, HandlerLabels,
     handlerVars, jobVars, selectionVars,
     RequestFits, RoleFits, Holding, LeaseUnreferenced, RunningLabels, Executing
<1> QED
  BY <1>1, <1>2, <1>3 DEF Ownership

\* ReleaseSubmission keeps ownership: nobody references the Selection that is freed.
LEMMA ReleaseOwns ==
    ASSUME Ownership, NEW r \in Requests, ReleaseSubmission(r)
    PROVE  Ownership'
<1>1. Types'
  BY Zenon DEF Ownership, Types, ReleaseSubmission, Move, HandlerLabels, handlerVars,
     jobVars, selectionVars
<1>2. ASSUME NEW q \in Requests PROVE RequestFits(q)'
  BY NoneAssumption DEF Ownership, Types, ReleaseSubmission, Move, HandlerLabels,
     handlerVars, jobVars, selectionVars,
     RequestFits, RoleFits, Holding, LeaseUnreferenced, RunningLabels, Executing
<1>3. SelectionFits'
  BY NoneAssumption DEF Ownership, Types, SelectionFits, ReleaseSubmission, Move,
     HandlerLabels, handlerVars, jobVars, selectionVars,
     RequestFits, RoleFits, Holding, LeaseUnreferenced, RunningLabels, Executing
<1> QED
  BY <1>1, <1>2, <1>3 DEF Ownership

\* A step of a closure keeps ownership, if its new label belongs to its role.
LEMMA ClosureOwns ==
    ASSUME Ownership, NEW r \in Requests, NEW label \in ClosureLabels \ {"none"},
           NEW value, NEW answer, closure[r] \notin {"none", "dropped"},
           RoleFits(label, role[r]), Step(r, label, value, answer)
    PROVE  Ownership'
<1>1. Types'
  BY Zenon DEF Ownership, Types, Step, Move, handlerVars
<1>2. ASSUME NEW q \in Requests PROVE RequestFits(q)'
  BY Zenon DEF Ownership, Types, Step, Move, handlerVars, RequestFits, Holding,
     LeaseUnreferenced
<1>3. SelectionFits'
  BY Zenon DEF Ownership, SelectionFits, Step, handlerVars
<1> QED
  BY Zenon, <1>1, <1>2, <1>3 DEF Ownership

\* The closure of r, which runs at the given label, ends its step at another one.
Moves(r, from, to) ==
    /\ closure[r] = from
    /\ \E value, answer : Step(r, to, value, answer)

\* The steps of an execution closure.
LEMMA ExecutionMoves ==
    ASSUME NEW r \in Requests, Execution(r)
    PROVE  \/ Moves(r, "queued", "executing") /\ role[r] = "execution"
           \/ Moves(r, "executing", "committed")
           \/ Moves(r, "committed", "advancing")
           \/ \E from \in Executing : Moves(r, from, "stopping")
           \/ Moves(r, "stopping", "recorded")
           \/ Moves(r, "recorded", "dropped")
<1>1. CASE BeginExecution(r)
  BY Zenon, <1>1 DEF BeginExecution, Moves
<1>2. CASE FailSelection(r) \/ DecideWithoutLease(r) \/ DecideFull(r) \/ LoseCommit(r)
  BY Zenon, <1>2 DEF FailSelection, DecideWithoutLease, DecideFull, LoseCommit, EndPass,
     Moves, Executing
<1>3. CASE CommitAdmission(r)
  BY Zenon, <1>3 DEF CommitAdmission, Moves
<1>4. CASE Acknowledge(r)
  BY Zenon, <1>4 DEF Acknowledge, Moves
<1>5. CASE EndReconciliation(r)
  BY Zenon, <1>5 DEF EndReconciliation, EndPass, Moves, Executing
<1>6. CASE RecordStop(r)
  BY Zenon, <1>6 DEF RecordStop, Moves
<1>7. CASE EndExecution(r)
  BY Zenon, <1>7 DEF EndExecution, Moves
<1> QED
  BY Zenon, <1>1, <1>2, <1>3, <1>4, <1>5, <1>6, <1>7 DEF Execution

\* The steps of a probe and of the reads.
LEMMA LookMoves ==
    ASSUME NEW r \in Requests,
           \/ ProbeRead(r) \/ ProbeDecide(r)
           \/ ObserveForStatus(r) \/ ReadStatus(r) \/ ReadHistory(r) \/ ObserveForHistory(r)
    PROVE  \/ Moves(r, "queued", "probed") /\ role[r] = "probe"
           \/ Moves(r, "queued", "observed") /\ role[r] = "read"
           \/ Moves(r, "queued", "paged") /\ role[r] = "read"
           \/ \E from \in {"queued", "probed", "observed", "paged"} : Moves(r, from, "dropped")
<1>1. CASE ProbeRead(r) \/ ProbeDecide(r)
  BY Zenon, <1>1 DEF ProbeRead, ProbeDecide, Moves
<1>2. CASE ObserveForStatus(r) \/ ReadStatus(r)
  BY Zenon, <1>2 DEF ObserveForStatus, ReadStatus, Moves
<1>3. CASE ReadHistory(r) \/ ObserveForHistory(r)
  BY Zenon, <1>3 DEF ReadHistory, ObserveForHistory, Moves
<1> QED
  BY Zenon, <1>1, <1>2, <1>3

\* Closures keep ownership.
LEMMA JobOwns ==
    ASSUME Ownership, NEW r \in Requests, Job(r)
    PROVE  Ownership'
<1>1. ASSUME NEW from \in ClosureLabels \ {"none", "dropped"}, NEW to \in ClosureLabels \ {"none"},
             RoleFits(to, role[r]), Moves(r, from, to)
      PROVE  Ownership'
  BY Zenon, <1>1, ClosureOwns DEF Moves
<1>2. RoleFits(closure[r], role[r])
  BY Zenon DEF Ownership, RequestFits
<1>3. CASE Execution(r)
  BY Zenon, <1>1, <1>2, <1>3, ExecutionMoves DEF ClosureLabels, RunningLabels, Executing,
     RoleFits, Moves
<1>4. CASE \/ ProbeRead(r) \/ ProbeDecide(r)
           \/ ObserveForStatus(r) \/ ReadStatus(r) \/ ReadHistory(r) \/ ObserveForHistory(r)
  BY Zenon, <1>1, <1>2, <1>4, LookMoves DEF ClosureLabels, RunningLabels, Executing,
     RoleFits, Moves
<1> QED
  BY Zenon, <1>3, <1>4, StartOwns, ReturnOwns DEF Job

\* Shutdown keeps ownership.
LEMMA ShutdownOwns ==
    ASSUME Ownership, StopAccepting \/ JoinHandlers \/ Drain
    PROVE  Ownership'
<1> USE DEF Ownership, Types, RequestFits, RoleFits, Holding, LeaseUnreferenced, SelectionFits
<1>1. CASE StopAccepting
  BY <1>1 DEF StopAccepting, handlerVars, jobVars, selectionVars
<1>2. CASE JoinHandlers
  BY <1>2 DEF JoinHandlers, handlerVars, jobVars, selectionVars
<1>3. CASE Drain
  BY <1>3 DEF Drain, handlerVars, selectionVars
<1> QED
  BY Zenon, <1>1, <1>2, <1>3

\* Init establishes ownership.
LEMMA InitOwns == Init => Ownership
<1> SUFFICES ASSUME Init PROVE Ownership
  BY Zenon
<1>1. Types
  BY Zenon DEF Init, Types, HandlerLabels, ClosureLabels
<1>2. ASSUME NEW r \in Requests PROVE RequestFits(r)
  BY Zenon DEF Init, RequestFits, RoleFits, Holding, RunningLabels, Executing
<1>3. SelectionFits
  BY Zenon DEF Init, SelectionFits
<1> QED
  BY <1>1, <1>2, <1>3 DEF Ownership

\* Every step keeps ownership.
LEMMA NextOwns == Ownership /\ [Next]_vars => Ownership'
<1> SUFFICES ASSUME Ownership, [Next]_vars PROVE Ownership'
  BY Zenon
<1>1. ASSUME NEW r \in Requests, Handler(r) PROVE Ownership'
  BY Zenon, <1>1, DispatchOwns, AcquireOwns, FailOwns, PinOwns, RegisterOwns, ReceiveOwns,
     SenderOwns,
     DeadlineOwns DEF Handler
<1>2. ASSUME NEW r \in Requests, Lease(r) PROVE Ownership'
  BY Zenon, <1>2, DropConnectionOwns, DropSelectionOwns, ReleaseOwns DEF Lease
<1>3. CASE UNCHANGED vars
  BY <1>3 DEF vars, handlerVars, jobVars, selectionVars, Ownership, Types, RequestFits,
     Holding, LeaseUnreferenced, SelectionFits
<1> QED
  BY Zenon, <1>1, <1>2, <1>3, AcceptOwns, RefuseOwns, AbortOwns, JobOwns, ShutdownOwns DEF Next

\* Ownership is as the invariant says in every reachable state.
THEOREM OwnershipHolds == Spec => []Ownership
BY InitOwns, NextOwns, PTL DEF Spec

\* A pending execution references its own Selection, which therefore holds the permit.
LEMMA PendingHolds ==
    ASSUME Ownership, NEW r \in Requests, ExecutionPending(r)
    PROVE  pin[r] = r /\ permit = r
<1>1. Holding(r)
  BY DEF Ownership, Types, RequestFits, Holding, LeaseUnreferenced, ExecutionPending, Executing
<1> QED
  BY <1>1, NoneAssumption DEF Ownership, RequestFits, SelectionFits, ExecutionPending

\* At most one execution is pending, whatever callers, deadlines and cancellations do
\* (the Selection in the shared JobLease).
THEOREM OneExecutionHolds == Spec => []OneExecution
<1>1. ASSUME Ownership PROVE OneExecution
  <2> DEFINE pending == {r \in Requests : ExecutionPending(r)}
  <2>1. pending = {} \/ \E r \in Requests : pending = {r}
    BY <1>1, PendingHolds
  <2>2. Cardinality({}) = 0 /\ \A r \in Requests : Cardinality({r}) = 1
    BY Zenon, FS_EmptySet, FS_Singleton
  <2> QED
    BY <2>1, <2>2 DEF OneExecution
<1> QED
  BY <1>1, OwnershipHolds, PTL

-----------------------------------------------------------------------------
(* Shutdown.                                                               *)

\* A step of a connection or of a lease keeps what shutdown has waited for: a job is
\* registered before its lease exists, and only retired jobs leave the registry.
LEMMA ConnectionQuiet ==
    ASSUME Ownership, ShutdownFits, NEW r \in Requests,
           Accept(r) \/ Refuse(r) \/ Handler(r) \/ AbortSupervisor(r) \/ Lease(r)
    PROVE  ShutdownFits'
<1>1. CASE Accept(r) \/ Refuse(r)
  BY Zenon, <1>1 DEF Ownership, Types, ShutdownFits, HandlerActive, Retired, Accept, Refuse,
     Move, jobVars
<1>2. CASE DispatchRead(r) \/ AcquireSubmission(r) \/ FailAcquisition(r) \/ PinSelection(r)
  BY Zenon, <1>2 DEF Ownership, Types, ShutdownFits, HandlerActive, Retired, DispatchRead,
     AcquireSubmission, FailAcquisition, PinSelection, Move, jobVars
<1>3. CASE Spawn(r)
  <2>1. /\ handler[r] = "selected" /\ HandlerActive(r) /\ supervisor[r] = "none"
        /\ lease[r] = "none" /\ ~Retired(r) /\ serving' = serving
        /\ handler'[r] \in {"waiting", "closed"}
        /\ \A q \in Requests \ {r} :
              handler'[q] = handler[q] /\ supervisor'[q] = supervisor[q] /\ lease'[q] = lease[q]
        /\ {j \in jobs : ~Retired(j)} \subseteq jobs' /\ (r \in jobs' \/ lease'[r] = "none")
    BY ZenonT(30), <1>3 DEF Spawn, Ownership, Types, RequestFits, HandlerActive, Retired, Move
  <2> QED
    BY Zenon, <2>1 DEF ShutdownFits, HandlerActive, Retired
<1>4. CASE ReceiveDecision(r) \/ SenderGone(r) \/ Deadline(r)
  BY Zenon, <1>4 DEF Ownership, Types, ShutdownFits, HandlerActive, Retired, ReceiveDecision,
     SenderGone,
     Deadline, Move, jobVars
<1>5. CASE AbortSupervisor(r)
  BY Zenon, <1>5 DEF Ownership, Types, RequestFits, LeaseUnreferenced, ShutdownFits,
     HandlerActive,
     Retired, AbortSupervisor, Move, handlerVars
<1>6. CASE Lease(r)
  <2> USE DEF Ownership, Types, RequestFits, LeaseUnreferenced, ShutdownFits, HandlerActive,
              Retired, Move, handlerVars
  <2>1. CASE DropConnection(r)
    BY <2>1 DEF DropConnection
  <2>2. CASE DropSelection(r)
    BY <2>2 DEF DropSelection
  <2>3. CASE ReleaseSubmission(r)
    BY <2>3 DEF ReleaseSubmission
  <2> QED
    BY Zenon, <1>6, <2>1, <2>2, <2>3 DEF Lease
<1> QED
  BY Zenon, <1>1, <1>2, <1>3, <1>4, <1>5, <1>6 DEF Handler

\* A closure moves on, and nothing that shutdown looks at changes.
LEMMA MovesFacts ==
    ASSUME NEW r \in Requests,
           \/ Execution(r) \/ ProbeRead(r) \/ ProbeDecide(r)
           \/ ObserveForStatus(r) \/ ReadStatus(r) \/ ReadHistory(r) \/ ObserveForHistory(r)
    PROVE  UNCHANGED <<serving, handler, role, response, supervisor, lease, jobs, pin,
    permit, selected>>
BY Zenon, ExecutionMoves, LookMoves DEF Moves, Step, handlerVars

\* A step of a job keeps what shutdown has waited for.
LEMMA JobQuiet ==
    ASSUME Ownership, ShutdownFits, NEW r \in Requests, Job(r)
    PROVE  ShutdownFits'
<1>1. CASE StartBlocking(r) \/ SupervisorReturns(r)
  BY <1>1 DEF Ownership, Types, RequestFits, ShutdownFits, HandlerActive, Retired,
     StartBlocking, SupervisorReturns, Move, handlerVars
<1>2. CASE ~(StartBlocking(r) \/ SupervisorReturns(r))
  BY Zenon, <1>2, MovesFacts DEF Job, ShutdownFits, HandlerActive, Retired
<1> QED
  BY Zenon, <1>1, <1>2

\* Every step keeps what shutdown has waited for.
LEMMA NextQuiet == Ownership /\ ShutdownFits /\ [Next]_vars => ShutdownFits'
<1> SUFFICES ASSUME Ownership, ShutdownFits, [Next]_vars PROVE ShutdownFits'
  OBVIOUS
<1>1. CASE StopAccepting \/ JoinHandlers
  BY Zenon, <1>1 DEF StopAccepting, JoinHandlers, ShutdownFits, HandlerActive, Retired,
     handlerVars, jobVars
<1>2. CASE Drain
  BY Zenon, <1>2 DEF Drain, ShutdownFits, HandlerActive, Retired, Ownership, Types, handlerVars
<1>3. CASE UNCHANGED vars
  BY Zenon, <1>3 DEF vars, ShutdownFits, HandlerActive, Retired, handlerVars, jobVars
<1> QED
  BY Zenon, <1>1, <1>2, <1>3, ConnectionQuiet, JobQuiet DEF Next

\* When the applications and the lifecycle lock are released, no handler, closure or
\* lease survives, cancelled supervisors included (serve, Jobs::drain).
THEOREM RetiredQuietly == Spec => []RetiredMeansQuiet
<1>1. Init => ShutdownFits
  BY Zenon DEF Init, ShutdownFits
<1>2. Ownership /\ ShutdownFits => RetiredMeansQuiet
  BY Zenon DEF Ownership, RequestFits, LeaseUnreferenced, ShutdownFits, RetiredMeansQuiet
<1> QED
  BY <1>1, <1>2, NextQuiet, OwnershipHolds, PTL DEF Spec

-----------------------------------------------------------------------------
(* Answers.                                                                *)

\* A decision is no guidance, and only two of them are refusals.
LEMMA ToldFacts ==
    /\ \A phase : Agrees(None, phase)
    /\ \A phase : \A decision \in {"admitted", "busy", "full", "indeterminate", "error"} :
          Agrees(Told(decision), phase)
    /\ None \notin Refusals
    /\ \A decision \in {"admitted", "indeterminate", "error"} : Told(decision) \notin Refusals
BY Zenon, NoneAssumption DEF Agrees, Told, Guidances, Answers, Refusals

\* Guidance agrees with the row that it was projected from, whatever was observed of
\* the process.
LEMMA ProjectAgrees ==
    ASSUME NEW status \in Phases, NEW observation
    PROVE  /\ Agrees(Project(status, observation), status)
           /\ Project(status, observation) \notin Refusals
<1> DEFINE answer == Project(status, observation)
<1> DEFINE kinds == {"resume_required", "active", "waiting_for_worker", "operator_required"}
<1>1. status = "unfinished" => answer.kind \in kinds
  <2>1. CASE observation = "unknown"
    BY <2>1 DEF Project, Guidance
  <2>2. CASE observation = "active"
    BY <2>2 DEF Project, Guidance
  <2>3. CASE observation = "other_worker"
    BY <2>3 DEF Project, Guidance
  <2>4. CASE observation \in {"worker_contention", "preflight_unavailable"}
    BY <2>4 DEF Project, Guidance
  <2>5. CASE observation \notin {"unknown", "active", "other_worker", "worker_contention",
                                 "preflight_unavailable"}
    BY <2>5 DEF Project, Guidance
  <2> QED
    BY <2>1, <2>2, <2>3, <2>4, <2>5
<1>2. /\ status = "absent" => answer.kind = "admission_unconfirmed"
      /\ status = "terminal" => answer.kind = "complete"
  BY Zenon DEF Project, Guidance
<1> HIDE DEF answer
<1>3. answer \notin Refusals
  BY <1>1, <1>2 DEF Refusals, Told, Phases
<1>4. Agrees(answer, status)
  BY Zenon, <1>1, <1>2 DEF Agrees, Phases
<1> QED
  BY Zenon, <1>3, <1>4 DEF answer

\* An answer that agrees with a row goes on to agree with it.
LEMMA StillAgrees ==
    ASSUME NEW answer, NEW phase, NEW next \in Phases, Agrees(answer, phase), MovesOn(phase, next),
           phase \in Phases
    PROVE  Agrees(answer, next)
BY Zenon DEF Agrees, MovesOn, Phases

\* A request that takes no part in a step keeps what is known of it, if only the pending
\* execution moves a row, and moves it on.
LEMMA OthersKeep ==
    ASSUME Ownership, AnswersFit, NEW r \in Requests, NEW q \in Requests, q # r,
           closure'[q] = closure[q], local'[q] = local[q], sent'[q] = sent[q],
           response'[q] = response[q], pin'[q] = pin[q],
           row' \in [Operations -> Phases],
           \A o \in Operations : MovesOn(row[o], row'[o]),
           \A o \in Operations : row'[o] # row[o] => o = Op(r) /\ ExecutionPending(r)
    PROVE  AnswerFits(q)'
<1>1. Op(q) \in Operations /\ Op(r) \in Operations
  BY Zenon, TargetAssumption DEF Op
<1>2. AnswerFits(q) /\ row[Op(q)] \in Phases /\ row'[Op(q)] \in Phases
  BY Zenon, <1>1 DEF AnswersFit, AnswerTypes
<1>3. CASE row'[Op(q)] = row[Op(q)]
  BY Zenon, <1>2, <1>3 DEF AnswerFits, Op
<1>4. CASE row'[Op(q)] # row[Op(q)]
  <2>1. Op(q) = Op(r) /\ ExecutionPending(r) /\ permit = r
    BY Zenon, <1>1, <1>4, PendingHolds
  <2>2. ~ExecutionPending(q)
    BY Zenon, <2>1, PendingHolds
  <2>3. closure[q] \notin {"committed", "advancing"}
    BY Zenon, <2>2 DEF Ownership, RequestFits, RoleFits, RunningLabels, Executing,
       ExecutionPending
  <2>4. pin[q] = None \/ pin[q] = r
    BY Zenon, <2>1 DEF Ownership, SelectionFits
  <2>5. MovesOn(row[Op(q)], row'[Op(q)])
    BY Zenon, <1>1
  <2>6. Agrees(sent[q], row'[Op(q)]) /\ Agrees(response[q], row'[Op(q)])
    BY Zenon, <1>2, <2>5, StillAgrees DEF AnswerFits
  <2>7. closure[q] = "paged" => MovesOn(local[q], row'[Op(q)])
    BY Zenon, <1>2, <2>5 DEF AnswerFits, MovesOn, Phases
  <2> QED
    BY Zenon, <1>2, <2>1, <2>3, <2>4, <2>6, <2>7 DEF AnswerFits, Op
<1> QED
  BY Zenon, <1>3, <1>4

\* A step of a connection, a supervisor or a lease answers what its job sent, or that
\* there is no answer.
ConnectionStep(r) ==
    \/ Accept(r) \/ Refuse(r) \/ Handler(r) \/ AbortSupervisor(r) \/ Lease(r)
    \/ StartBlocking(r) \/ SupervisorReturns(r)

LEMMA ConnectionFacts ==
    ASSUME Ownership, AnswersFit, NEW r \in Requests, ConnectionStep(r)
    PROVE  /\ UNCHANGED <<row, local, sent>>
           /\ DOMAIN response' = Requests
           /\ \A q \in Requests \ {r} :
                 closure'[q] = closure[q] /\ response'[q] = response[q] /\ pin'[q] = pin[q]
           /\ closure'[r] = closure[r] \/ (closure[r] = "none" /\ closure'[r] = "queued")
           /\ closure[r] = "probed" => pin'[r] = pin[r]
           /\ response'[r] \in {response[r], sent[r], None, Told("error"), Told("indeterminate")}
<1> USE DEF Ownership, Types, AnswersFit, AnswerTypes, RequestFits, LeaseUnreferenced, Move,
            handlerVars, jobVars, selectionVars
<1>1. CASE Accept(r) \/ Refuse(r)
  BY Zenon, <1>1 DEF Accept, Refuse
<1>2. CASE DispatchRead(r) \/ AcquireSubmission(r) \/ FailAcquisition(r) \/ PinSelection(r)
  <2>1. CASE DispatchRead(r)
    BY Zenon, <2>1 DEF DispatchRead
  <2>2. CASE AcquireSubmission(r)
    BY Zenon, <2>2 DEF AcquireSubmission
  <2>3. CASE FailAcquisition(r)
    BY Zenon, <2>3 DEF FailAcquisition
  <2>4. CASE PinSelection(r)
    BY Zenon, <2>4 DEF PinSelection
  <2> QED
    BY Zenon, <1>2, <2>1, <2>2, <2>3, <2>4
<1>3. CASE Spawn(r)
  BY ZenonT(40), <1>3 DEF Spawn
<1>4. CASE ReceiveDecision(r) \/ SenderGone(r) \/ Deadline(r)
  BY <1>4 DEF ReceiveDecision, SenderGone, Deadline
<1>5. CASE AbortSupervisor(r) \/ StartBlocking(r) \/ SupervisorReturns(r)
  <2>1. CASE AbortSupervisor(r)
    BY Zenon, <2>1 DEF AbortSupervisor
  <2>2. CASE StartBlocking(r)
    BY Zenon, <2>2 DEF StartBlocking
  <2>3. CASE SupervisorReturns(r)
    BY Zenon, <2>3 DEF SupervisorReturns
  <2> QED
    BY Zenon, <1>5, <2>1, <2>2, <2>3
<1>6. CASE Lease(r)
  <2>1. CASE DropConnection(r)
    BY Zenon, <2>1 DEF DropConnection
  <2>2. CASE DropSelection(r)
    BY Zenon, <2>2 DEF DropSelection
  <2>3. CASE ReleaseSubmission(r)
    BY Zenon, <2>3 DEF ReleaseSubmission
  <2> QED
    BY Zenon, <1>6, <2>1, <2>2, <2>3 DEF Lease
<1> QED
  BY <1>1, <1>2, <1>3, <1>4, <1>5, <1>6 DEF ConnectionStep, Handler

\* A step of a connection keeps the answers.
LEMMA ConnectionAnswers ==
    ASSUME Ownership, AnswersFit, NEW r \in Requests, ConnectionStep(r)
    PROVE  AnswersFit'
<1>1. AnswerTypes'
  BY Zenon, ConnectionFacts DEF AnswersFit, AnswerTypes
<1>2. AnswerFits(r)'
  <2>1. /\ AnswerFits(r) /\ row' = row /\ local' = local /\ sent' = sent
        /\ closure'[r] = closure[r] \/ (closure[r] = "none" /\ closure'[r] = "queued")
        /\ closure[r] = "probed" => pin'[r] = pin[r]
        /\ response'[r] \in {response[r], sent[r], None, Told("error"), Told("indeterminate")}
    BY Zenon, ConnectionFacts DEF AnswersFit
  <2>2. Agrees(response'[r], row[Op(r)]) /\ (response'[r] \in Refusals => sent[r] = response'[r])
    <3>1. CASE response'[r] \in {response[r], sent[r]}
      BY Zenon, <2>1, <3>1 DEF AnswerFits
    <3>2. CASE response'[r] \in {None, Told("error"), Told("indeterminate")}
      BY Zenon, <3>2, ToldFacts
    <3> QED
      BY Zenon, <2>1, <3>1, <3>2
  <2>3. CASE closure'[r] = closure[r]
    BY Zenon, <2>1, <2>2, <2>3 DEF AnswerFits, Op
  <2>4. CASE closure[r] = "none" /\ closure'[r] = "queued"
    BY Zenon, <2>1, <2>2, <2>4 DEF AnswerFits, Op
  <2> QED
    BY Zenon, <2>1, <2>3, <2>4
<1>3. ASSUME NEW q \in Requests, q # r PROVE AnswerFits(q)'
  <2>1. /\ AnswerFits(q) /\ row' = row /\ local' = local /\ sent' = sent
        /\ closure'[q] = closure[q] /\ response'[q] = response[q] /\ pin'[q] = pin[q]
    BY Zenon, <1>3, ConnectionFacts DEF AnswersFit
  <2> QED
    BY Zenon, <2>1 DEF AnswerFits, Op
<1> QED
  BY Zenon, <1>1, <1>2, <1>3 DEF AnswersFit

\* A step of an execution closure moves the row of its operation on, if any, and gives
\* an answer that agrees with it.
LEMMA ExecutionFacts ==
    ASSUME Ownership, AnswersFit, NEW r \in Requests, Execution(r)
    PROVE  /\ row' \in [Operations -> Phases]
           /\ \A o \in Operations : MovesOn(row[o], row'[o])
           /\ \A o \in Operations : row'[o] # row[o] => o = Op(r) /\ ExecutionPending(r)
           /\ closure'[r] \in RunningLabels \cup {"dropped"}
           /\ closure'[r] \in {"executing", "committed"} => sent'[r] = None
           /\ closure'[r] \in {"committed", "advancing"} => row'[Op(r)] = "unfinished"
           /\ \/ sent'[r] = sent[r]
              \/ sent[r] = None /\ \E decision \in {"admitted", "error"} : sent'[r] = Told(decision)
              \/ /\ sent[r] = None /\ sent'[r] \in Refusals
                 /\ closure[r] = "executing" /\ row[Op(r)] = "absent"
<1>0. /\ Op(r) \in Operations /\ row[Op(r)] \in Phases /\ AnswerFits(r)
      /\ closure[r] \in RunningLabels => role[r] = "execution"
  BY Zenon, TargetAssumption DEF Op, AnswersFit, AnswerTypes, Ownership, RequestFits, RoleFits
<1>1. \A phase : MovesOn(phase, phase)
  BY Zenon DEF MovesOn
<1> USE DEF Ownership, Types, AnswersFit, AnswerTypes, AnswerFits, Step, Move, RunningLabels, Executing
<1>2. CASE BeginExecution(r)
  BY Zenon, <1>0, <1>1, <1>2 DEF BeginExecution
<1>3. CASE FailSelection(r) \/ DecideWithoutLease(r) \/ DecideFull(r) \/ LoseCommit(r)
  <2>1. CASE FailSelection(r)
    BY <1>0, <1>1, <2>1 DEF FailSelection, EndPass
  <2>2. CASE DecideWithoutLease(r)
    <3>1. /\ row' = row /\ closure[r] = "executing" /\ closure'[r] = "stopping"
          /\ \/ sent'[r] = Told("admitted")
             \/ sent'[r] = Told("busy") /\ row[Op(r)] = "absent"
      <4>1. PICK result, answer :
               /\ UNCHANGED row /\ closure[r] = "executing" /\ EndPass(r, result, answer)
               /\ \/ answer = Told("admitted")
                  \/ answer = Told("busy") /\ row[Op(r)] = "absent"
        BY Zenon, <2>2 DEF DecideWithoutLease
      <4>2. closure'[r] = "stopping" /\ sent'[r] = answer
        BY Zenon, <4>1 DEF EndPass
      <4> QED
        BY Zenon, <4>1, <4>2
    <3>2. sent[r] = None /\ Told("busy") \in Refusals
      BY Zenon, <1>0, <3>1 DEF Refusals
    <3> QED
      BY Zenon, <1>0, <1>1, <3>1, <3>2
  <2>3. CASE DecideFull(r)
    BY <1>0, <1>1, <2>3 DEF DecideFull, EndPass, Refusals
  <2>4. CASE LoseCommit(r)
    BY <1>0, <1>1, <2>4 DEF LoseCommit, EndPass
  <2> QED
    BY Zenon, <1>3, <2>1, <2>2, <2>3, <2>4
<1>4. CASE CommitAdmission(r)
  BY <1>0, <1>1, <1>4 DEF CommitAdmission, MovesOn, Phases, ExecutionPending
<1>5. CASE Acknowledge(r)
  BY Zenon, <1>0, <1>1, <1>5 DEF Acknowledge
<1>6. CASE EndReconciliation(r)
  <2>1. PICK result \in Conditions \cup {"finished"}, phase \in {"unfinished", "terminal"} :
           row' = [row EXCEPT ![Op(r)] = phase] /\ EndPass(r, result, sent[r])
    BY Zenon, <1>6 DEF EndReconciliation
  <2> QED
    <3>1. /\ row' \in [Operations -> Phases] /\ row'[Op(r)] = phase
          /\ \A o \in Operations \ {Op(r)} : row'[o] = row[o]
      BY Zenon, <1>0, <2>1 DEF Phases
    <3>2. closure[r] = "advancing" /\ closure'[r] = "stopping" /\ sent'[r] = sent[r]
      BY Zenon, <1>6, <2>1 DEF EndReconciliation, EndPass
    <3>3. ExecutionPending(r) /\ row[Op(r)] = "unfinished"
      BY Zenon, <1>0, <3>2 DEF ExecutionPending
    <3>4. MovesOn(row[Op(r)], row'[Op(r)])
      BY Zenon, <2>1, <3>1, <3>3 DEF MovesOn
    <3> QED
      BY Zenon, <1>1, <3>1, <3>2, <3>3, <3>4
<1>7. CASE RecordStop(r)
  BY Zenon, <1>0, <1>1, <1>7 DEF RecordStop
<1>8. CASE EndExecution(r)
  BY ZenonT(30), <1>0, <1>1, <1>8 DEF EndExecution
<1> QED
  BY Zenon, <1>2, <1>3, <1>4, <1>5, <1>6, <1>7, <1>8 DEF Execution

\* What a step of a closure leaves alone.
LEMMA MovesFrame ==
    ASSUME Ownership, AnswerTypes, NEW r \in Requests,
           \/ Execution(r) \/ ProbeRead(r) \/ ProbeDecide(r)
           \/ ObserveForStatus(r) \/ ReadStatus(r) \/ ReadHistory(r) \/ ObserveForHistory(r)
    PROVE  /\ DOMAIN local' = Requests /\ DOMAIN sent' = Requests
           /\ \A q \in Requests \ {r} :
                 closure'[q] = closure[q] /\ local'[q] = local[q] /\ sent'[q] = sent[q]
           /\ UNCHANGED <<response, pin>>
<1>1. \E from, to : Moves(r, from, to)
  BY Zenon, ExecutionMoves, LookMoves
<1> QED
  BY ZenonT(40), <1>1 DEF Moves, Step, Move, Ownership, Types, AnswerTypes, handlerVars

\* A step of an execution closure keeps the answers.
LEMMA ExecutionAnswers ==
    ASSUME Ownership, AnswersFit, NEW r \in Requests, Execution(r)
    PROVE  AnswersFit'
<1>1. AnswerTypes'
  BY Zenon, ExecutionFacts, MovesFrame DEF AnswersFit, AnswerTypes
<1>2. AnswerFits(r)'
  <2>1. Op(r) \in Operations /\ row[Op(r)] \in Phases /\ AnswerFits(r)
    BY Zenon, TargetAssumption DEF Op, AnswersFit, AnswerTypes
  <2>2. row'[Op(r)] \in Phases /\ MovesOn(row[Op(r)], row'[Op(r)]) /\ response'[r] = response[r]
    BY Zenon, <2>1, ExecutionFacts, MovesFrame DEF AnswersFit
  <2>3. Agrees(response[r], row'[Op(r)]) /\ Agrees(sent[r], row'[Op(r)])
    BY Zenon, <2>1, <2>2, StillAgrees DEF AnswerFits
  <2>4. Agrees(sent'[r], row'[Op(r)])
    <3>1. \/ sent'[r] = sent[r]
          \/ \E decision \in {"admitted", "error"} : sent'[r] = Told(decision)
          \/ sent'[r] = Told("busy") \/ sent'[r] = Told("full")
      BY Zenon, ExecutionFacts DEF Refusals
    <3> QED
      BY Zenon, <2>3, <3>1, ToldFacts
  <2>5. response[r] \in Refusals => sent'[r] = response[r]
    BY <2>1, ExecutionFacts, ToldFacts DEF AnswerFits
  <2> QED
    BY Zenon, <2>2, <2>3, <2>4, <2>5, ExecutionFacts DEF AnswerFits, Op, RunningLabels,
       Executing
<1>3. ASSUME NEW q \in Requests, q # r PROVE AnswerFits(q)'
  <2>1. /\ row' \in [Operations -> Phases]
        /\ \A o \in Operations : MovesOn(row[o], row'[o])
        /\ \A o \in Operations : row'[o] # row[o] => o = Op(r) /\ ExecutionPending(r)
    BY Zenon, ExecutionFacts
  <2>2. /\ closure'[q] = closure[q] /\ local'[q] = local[q] /\ sent'[q] = sent[q]
        /\ response'[q] = response[q] /\ pin'[q] = pin[q]
    BY Zenon, <1>3, MovesFrame DEF AnswersFit
  <2> QED
    BY <1>3, <2>1, <2>2, OthersKeep
<1> QED
  BY <1>1, <1>2, <1>3 DEF AnswersFit

\* What a probe or a read has read, and what it answers.  A probe answers "busy" only if
\* it read no row and its pin, to another operation, kept everybody else from admitting one.
LEMMA LookFacts ==
    ASSUME Ownership, AnswersFit, NEW r \in Requests,
           \/ ProbeRead(r) \/ ProbeDecide(r)
           \/ ObserveForStatus(r) \/ ReadStatus(r) \/ ReadHistory(r) \/ ObserveForHistory(r)
    PROVE  /\ UNCHANGED row /\ sent[r] = None
           /\ \/ closure'[r] = "probed" /\ local'[r] \in {row[Op(r)], "error"} /\ sent'[r] = None
              \/ closure'[r] = "observed" /\ sent'[r] = None
              \/ /\ closure'[r] = "paged" /\ row[Op(r)] # "absent"
                 /\ local'[r] = row[Op(r)] /\ sent'[r] = None
              \/ /\ closure'[r] = "dropped"
                 /\ \/ /\ sent'[r] \in Refusals /\ role[r] = "probe"
                       /\ row[Op(r)] = "absent" /\ pin[r] # None /\ Op(pin[r]) # Op(r)
                    \/ Agrees(sent'[r], row[Op(r)]) /\ sent'[r] \notin Refusals
<1>0. /\ Op(r) \in Operations /\ row[Op(r)] \in Phases /\ AnswerFits(r)
      /\ RoleFits(closure[r], role[r])
  BY Zenon, TargetAssumption DEF Op, AnswersFit, AnswerTypes, Ownership, RequestFits
<1>1. /\ UNCHANGED row /\ sent[r] = None
  BY <1>0 DEF AnswerFits, ProbeRead, ProbeDecide, ObserveForStatus, ReadStatus, ReadHistory,
     ObserveForHistory
<1> USE DEF Ownership, Types, AnswersFit, AnswerTypes, Step, Move
<1>2. CASE ProbeRead(r)
  BY Zenon, <1>0, <1>1, <1>2 DEF ProbeRead
<1>3. CASE ProbeDecide(r)
  <2>1. PICK matches :
           /\ closure[r] = "probed" /\ closure'[r] = "dropped"
           /\ sent'[r] = ContendedAdmission(local[r], pin[r], matches, Op(r))
    BY Zenon, <1>3 DEF ProbeDecide
  <2>2. \/ \E decision \in {"admitted", "indeterminate", "error"} : sent'[r] = Told(decision)
        \/ /\ sent'[r] = Told("busy") /\ local[r] = "absent"
           /\ pin[r] # None /\ Op(pin[r]) # Op(r)
    BY Zenon, <1>0, <2>1 DEF ContendedAdmission, AnswerFits, Phases
  <2> QED
    <3>1. CASE \E decision \in {"admitted", "indeterminate", "error"} : sent'[r] = Told(decision)
      BY Zenon, <1>1, <2>1, <3>1, ToldFacts
    <3>2. CASE /\ sent'[r] = Told("busy") /\ local[r] = "absent"
               /\ pin[r] # None /\ Op(pin[r]) # Op(r)
      <4>1. sent'[r] \in Refusals
        BY Zenon, <3>2 DEF Refusals
      <4>2. role[r] = "probe"
        BY <1>0, <2>1 DEF RoleFits
      <4>3. row[Op(r)] = "absent"
        BY Zenon, <1>0, <2>1, <3>2 DEF AnswerFits
      <4> QED
        BY Zenon, <1>1, <2>1, <3>2, <4>1, <4>2, <4>3
    <3> QED
      BY Zenon, <2>2, <3>1, <3>2
<1>4. CASE ObserveForStatus(r)
  BY Zenon, <1>0, <1>1, <1>4 DEF ObserveForStatus
<1>5. CASE ReadStatus(r)
  <2>1. /\ closure'[r] = "dropped"
        /\ sent'[r] = Project(row[Op(r)], local[r]) \/ sent'[r] = Told("error")
    BY Zenon, <1>5 DEF ReadStatus
  <2>2. Agrees(sent'[r], row[Op(r)]) /\ sent'[r] \notin Refusals
    <3>1. CASE sent'[r] = Project(row[Op(r)], local[r])
      <4>1. PICK status \in Phases : status = row[Op(r)]
        BY Zenon, <1>0
      <4>2. /\ Agrees(Project(status, local[r]), status)
            /\ Project(status, local[r]) \notin Refusals
        BY Zenon, ProjectAgrees
      <4> QED
        BY Zenon, <3>1, <4>1, <4>2
    <3>2. CASE sent'[r] = Told("error")
      BY Zenon, <3>2, ToldFacts
    <3> QED
      BY Zenon, <2>1, <3>1, <3>2
  <2> QED
    BY Zenon, <1>1, <2>1, <2>2
<1>6. CASE ReadHistory(r)
  <2>1. \/ /\ closure'[r] = "paged" /\ row[Op(r)] # "absent"
           /\ local'[r] = row[Op(r)] /\ sent'[r] = None
        \/ closure'[r] = "dropped" /\ sent'[r] = Told("error")
    BY Zenon, <1>6 DEF ReadHistory
  <2>2. sent'[r] = Told("error") => Agrees(sent'[r], row[Op(r)]) /\ sent'[r] \notin Refusals
    BY Zenon, ToldFacts
  <2> QED
    BY Zenon, <1>1, <2>1, <2>2
<1>7. CASE ObserveForHistory(r)
  <2>1. /\ local[r] \in Phases /\ MovesOn(local[r], row[Op(r)])
        /\ closure'[r] = "dropped" /\ sent'[r] = Project(local[r], Observation(Op(r)))
    BY Zenon, <1>0, <1>7 DEF ObserveForHistory, AnswerFits, Phases
  <2>2. Agrees(sent'[r], local[r]) /\ sent'[r] \notin Refusals
    <3>1. PICK status \in Phases : status = local[r]
      BY Zenon, <2>1
    <3>2. /\ Agrees(Project(status, Observation(Op(r))), status)
          /\ Project(status, Observation(Op(r))) \notin Refusals
      BY Zenon, ProjectAgrees
    <3> QED
      BY Zenon, <2>1, <3>1, <3>2
  <2> QED
    BY <1>0, <1>1, <2>1, <2>2, StillAgrees
<1> QED
  BY Zenon, <1>2, <1>3, <1>4, <1>5, <1>6, <1>7

\* A step of a probe or a read keeps the answers.
LEMMA LookAnswers ==
    ASSUME Ownership, AnswersFit, NEW r \in Requests,
           \/ ProbeRead(r) \/ ProbeDecide(r)
           \/ ObserveForStatus(r) \/ ReadStatus(r) \/ ReadHistory(r) \/ ObserveForHistory(r)
    PROVE  AnswersFit'
<1>1. AnswerTypes'
  BY Zenon, LookFacts, MovesFrame DEF AnswersFit, AnswerTypes
<1>2. AnswerFits(r)'
  <2>1. Op(r) \in Operations /\ row[Op(r)] \in Phases /\ AnswerFits(r)
    BY Zenon, TargetAssumption DEF Op, AnswersFit, AnswerTypes
  <2>2. /\ row' = row /\ sent[r] = None /\ response'[r] = response[r] /\ pin'[r] = pin[r]
        /\ response[r] \notin Refusals
    <3>1. row' = row /\ sent[r] = None
      BY Zenon, LookFacts
    <3>2. response' = response /\ pin' = pin
      BY Zenon, MovesFrame DEF AnswersFit
    <3>3. response[r] \notin Refusals
      BY Zenon, <2>1, <3>1, ToldFacts DEF AnswerFits
    <3> QED
      BY Zenon, <3>1, <3>2, <3>3
  <2>3. Agrees(sent'[r], row[Op(r)])
    BY Zenon, LookFacts, ToldFacts DEF Refusals
  <2> QED
    BY Zenon, <2>1, <2>2, <2>3, LookFacts DEF AnswerFits, Op, MovesOn, Phases
<1>3. ASSUME NEW q \in Requests, q # r PROVE AnswerFits(q)'
  <2>1. /\ row' = row /\ response' = response /\ pin' = pin /\ AnswerFits(q)
        /\ closure'[q] = closure[q] /\ local'[q] = local[q] /\ sent'[q] = sent[q]
    BY Zenon, <1>3, LookFacts, MovesFrame DEF AnswersFit
  <2> QED
    BY Zenon, <2>1 DEF AnswerFits, Op
<1> QED
  BY Zenon, <1>1, <1>2, <1>3 DEF AnswersFit

\* Every step keeps the answers.
LEMMA NextAnswers == Ownership /\ AnswersFit /\ [Next]_vars => AnswersFit'
<1> SUFFICES ASSUME Ownership, AnswersFit, [Next]_vars PROVE AnswersFit'
  OBVIOUS
<1>1. CASE StopAccepting \/ JoinHandlers \/ Drain
  <2>1. UNCHANGED <<row, response, closure, local, sent, pin>>
    BY Zenon, <1>1 DEF StopAccepting, JoinHandlers, Drain, handlerVars, jobVars, selectionVars
  <2> QED
    BY Zenon, <2>1 DEF AnswersFit, AnswerTypes, AnswerFits, Op
<1>2. CASE UNCHANGED vars
  BY Zenon, <1>2 DEF vars, AnswersFit, AnswerTypes, AnswerFits, Op, handlerVars, jobVars,
     selectionVars
<1> QED
  BY <1>1, <1>2, ConnectionAnswers, ExecutionAnswers, LookAnswers DEF Next, Job, ConnectionStep

\* Answers agree with the journal in every reachable state.
THEOREM AnswersHold == Spec => []AnswersFit
<1>1. Init => AnswersFit
  BY RowsAssumption, ToldFacts DEF Init, AnswersFit, AnswerTypes, AnswerFits, Phases
<1> QED
  BY <1>1, NextAnswers, OwnershipHolds, PTL DEF Spec

\* An operation that a caller was told is complete is terminal, and one with guidance
\* other than "unconfirmed" has a row, in whichever order the read looked at the process
\* and at the journal (project, read_observed).
THEOREM GuidanceFollows == Spec => []GuidanceFollowsHistory
<1>1. AnswersFit => GuidanceFollowsHistory
  BY DEF AnswersFit, AnswerFits, Agrees, GuidanceFollowsHistory
<1> QED
  BY <1>1, AnswersHold, PTL

\* NOT_ADMITTED is a definite refusal when it is decided, and an expired deadline never
\* becomes one (contended_admission, admit_submission).
THEOREM RefusalsAreDefinite == Spec => RefusalIsDefinite
<1> DEFINE Definite ==
      \A r \in Requests :
         /\ sent'[r] # sent[r] /\ sent'[r] \in Refusals =>
               /\ row[Op(r)] = "absent"
               /\ \A q \in Requests \ {r} : ExecutionPending(q) => Op(q) # Op(r)
         /\ response'[r] \in Refusals => sent'[r] = response'[r]
<1>1. Ownership /\ AnswersFit /\ AnswersFit' /\ [Next]_vars => [Definite]_vars
  <2> SUFFICES ASSUME Ownership, AnswersFit, AnswersFit', Next, NEW r \in Requests,
                      sent'[r] # sent[r], sent'[r] \in Refusals
               PROVE  /\ row[Op(r)] = "absent"
                      /\ \A q \in Requests \ {r} : ExecutionPending(q) => Op(q) # Op(r)
    BY Zenon DEF AnswersFit, AnswerFits
  <2>1. \/ Execution(r) \/ ProbeRead(r) \/ ProbeDecide(r)
        \/ ObserveForStatus(r) \/ ReadStatus(r) \/ ReadHistory(r) \/ ObserveForHistory(r)
    <3>1. ASSUME NEW q \in Requests, ConnectionStep(q) PROVE FALSE
      BY Zenon, <3>1, ConnectionFacts
    <3>2. ~(StopAccepting \/ JoinHandlers \/ Drain)
      BY Zenon DEF StopAccepting, JoinHandlers, Drain, jobVars
    <3>3. ASSUME NEW q \in Requests \ {r},
                 \/ Execution(q) \/ ProbeRead(q) \/ ProbeDecide(q) \/ ObserveForStatus(q)
                 \/ ReadStatus(q) \/ ReadHistory(q) \/ ObserveForHistory(q)
          PROVE  FALSE
      BY Zenon, <3>3, MovesFrame DEF AnswersFit
    <3> QED
      BY Zenon, <3>1, <3>2, <3>3 DEF Next, Job, ConnectionStep
  <2>2. CASE Execution(r)
    <3>1. closure[r] = "executing" /\ row[Op(r)] = "absent"
      BY ZenonT(30), <2>2, ExecutionFacts, ToldFacts
    <3>2. ExecutionPending(r)
      BY Zenon, <3>1 DEF ExecutionPending, Ownership, RequestFits, RoleFits, RunningLabels,
         Executing
    <3> QED
      BY Zenon, <3>1, <3>2, PendingHolds
  <2>3. CASE ~Execution(r)
    <3>1. row[Op(r)] = "absent" /\ pin[r] # None /\ Op(pin[r]) # Op(r)
      BY Zenon, <2>1, <2>3, LookFacts, ToldFacts
    <3>2. permit = pin[r]
      BY Zenon, <3>1 DEF Ownership, SelectionFits
    <3> QED
      BY <3>1, <3>2, PendingHolds
  <2> QED
    BY <2>2, <2>3
<1> QED
  BY <1>1, OwnershipHolds, AnswersHold, PTL DEF Spec, RefusalIsDefinite

-----------------------------------------------------------------------------
(* Induction over the natural numbers, and the existence of recursively     *)
(* defined functions, as facts about sets and functions: "<" is             *)
(* well-founded.  An induction hypothesis is a set here, and a recursive    *)
(* definition a function of the index and the value before it; neither is   *)
(* an operator, and the provers can use both.                               *)

\* A set of natural numbers that is not empty has a least element.
LEMMA LeastNumber ==
    ASSUME NEW T \in SUBSET Nat, T # {}
    PROVE  \E n \in T : \A m \in T : n <= m
<1> DEFINE Less == OpToRel(<, Nat)
<1>1. IsWellFoundedOn(Less, Nat)
  BY Zenon, NatLessThanWellFounded
<1>2. \A x, y \in Nat : <<y, x>> \in Less <=> y < x
  BY Zenon DEF OpToRel
<1> HIDE DEF Less
<1>3. PICK n \in T : \A m \in T : ~(<<m, n>> \in Less)
  BY Zenon, <1>1, WFMin
<1>4. ASSUME NEW m \in T PROVE n <= m
  <2>1. n \in Nat /\ m \in Nat
    BY Zenon, <1>3, <1>4
  <2>2. ~(m < n)
    BY Zenon, <1>2, <1>3, <1>4, <2>1
  <2> QED
    BY <2>1, <2>2
<1> QED
  BY <1>3, <1>4

\* A set that has 0, and with every number its successor, has every number.
LEMMA SetInduction ==
    ASSUME NEW S, 0 \in S, \A n \in Nat : n \in S => n + 1 \in S
    PROVE  \A n \in Nat : n \in S
<1> SUFFICES ASSUME Nat \ S # {} PROVE FALSE
  OBVIOUS
<1>1. PICK n \in Nat \ S : \A m \in Nat \ S : n <= m
  BY Zenon, LeastNumber
<1>2. n # 0 /\ n - 1 \in Nat
  BY <1>1
<1>3. n - 1 \in S
  BY <1>1, <1>2
<1> QED
  BY <1>1, <1>2, <1>3

\* The same up to a bound.
LEMMA BoundedInduction ==
    ASSUME NEW n \in Nat, NEW S, 0 \in S, \A i \in 1 .. n : i - 1 \in S => i \in S
    PROVE  \A i \in 0 .. n : i \in S
<1> DEFINE T == {i \in Nat : i \in 0 .. n => i \in S}
<1>1. 0 \in T
  OBVIOUS
<1>2. ASSUME NEW i \in Nat, i \in T PROVE i + 1 \in T
  <2> SUFFICES ASSUME i + 1 \in 0 .. n PROVE i + 1 \in S
    OBVIOUS
  <2>1. i \in S /\ i + 1 \in 1 .. n /\ (i + 1) - 1 = i
    BY <1>2
  <2> QED
    BY Zenon, <2>1
<1> HIDE DEF T
<1>3. \A i \in Nat : i \in T
  BY Zenon, <1>1, <1>2, SetInduction
<1> QED
  BY <1>3 DEF T

\* f maps 0 .. n to values of S, the first of which is given, and each of the others
\* follows from the one before it.
IsRecursion(f, n, S, base, step) ==
    /\ f \in [0 .. n -> S]
    /\ f[0] = base
    /\ \A i \in 1 .. n : f[i] = step[<<i, f[i - 1]>>]

\* A function on 0 .. n is defined by its first value and by how each value follows
\* from the one before it.
LEMMA RecursionExists ==
    ASSUME NEW n \in Nat, NEW S, NEW base \in S, NEW step \in [(1 .. n) \X S -> S]
    PROVE  \E f : IsRecursion(f, n, S, base, step)
<1> DEFINE Follows(f, m) == f[0] = base /\ \A i \in 1 .. m : f[i] = step[<<i, f[i - 1]>>]
           T == {m \in 0 .. n : \E f \in [0 .. m -> S] : Follows(f, m)}
<1>1. 0 \in T
  <2> DEFINE f == [i \in 0 .. 0 |-> base]
  <2>1. f \in [0 .. 0 -> S] /\ f[0] = base /\ 1 .. 0 = {}
    OBVIOUS
  <2> HIDE DEF f
  <2>2. Follows(f, 0) /\ 0 \in 0 .. n
    BY <2>1
  <2> QED
    BY Zenon, <2>1, <2>2
<1>2. ASSUME NEW m \in 1 .. n, m - 1 \in T PROVE m \in T
  <2>1. PICK f \in [0 .. (m - 1) -> S] : Follows(f, m - 1)
    BY Zenon, <1>2
  <2> DEFINE g == [i \in 0 .. m |-> IF i = m THEN step[<<m, f[m - 1]>>] ELSE f[i]]
  <2>2. f[m - 1] \in S /\ step[<<m, f[m - 1]>>] \in S
    BY <2>1
  <2>3. g \in [0 .. m -> S]
    BY <2>1, <2>2
  <2>4. g[0] = base /\ g[m] = step[<<m, f[m - 1]>>] /\ \A i \in 0 .. (m - 1) : g[i] = f[i]
    BY <2>1
  <2> HIDE DEF g
  <2>5. ASSUME NEW i \in 1 .. m PROVE g[i] = step[<<i, g[i - 1]>>]
    BY <2>1, <2>4, <2>5
  <2>6. Follows(g, m)
    BY Zenon, <2>4, <2>5
  <2> QED
    BY <2>3, <2>6
<1> HIDE DEF T
<1>3. n \in T
  BY <1>1, <1>2, BoundedInduction
<1> QED
  BY Zenon, <1>3 DEF T, IsRecursion

-----------------------------------------------------------------------------
(* Diagnostics.                                                            *)

\* What is retained is in the old order, without the entries of the operation.
LEMMA WithoutFacts ==
    ASSUME NEW entries \in Seq(Entries), NEW o
    PROVE  /\ Without(entries, o) \in Seq(Entries)
           /\ Len(Without(entries, o)) <= Len(entries)
           /\ \A i \in DOMAIN Without(entries, o) :
                 \E j \in DOMAIN entries :
                    Without(entries, o)[i] = entries[j] /\ entries[j].operation # o
           /\ Distinct(entries) => Distinct(Without(entries, o))
<1> DEFINE n == Len(entries)
           Retain(f, i) == IF entries[i].operation # o THEN Append(f, entries[i]) ELSE f
           kept == CHOOSE f : f = [i \in 0 .. n |-> IF i = 0 THEN <<>> ELSE Retain(f[i - 1], i)]
           step == [x \in (1 .. n) \X Seq(Entries) |-> Retain(x[2], x[1])]
<1>1. n \in Nat /\ DOMAIN entries = 1 .. n /\ \A i \in 1 .. n : entries[i] \in Entries
  OBVIOUS
<1>2. Without(entries, o) = kept[n]
  BY Zenon DEF Without
<1>3. \A i \in 1 .. n : \A f \in Seq(Entries) : Retain(f, i) \in Seq(Entries)
  BY <1>1
<1>4. /\ step \in [(1 .. n) \X Seq(Entries) -> Seq(Entries)]
      /\ \A i \in 1 .. n : \A f \in Seq(Entries) : step[<<i, f>>] = Retain(f, i)
  BY <1>3
<1> HIDE DEF step, n, Retain
<1>5. PICK g \in [0 .. n -> Seq(Entries)] :
         g[0] = <<>> /\ \A i \in 1 .. n : g[i] = step[<<i, g[i - 1]>>]
  <2>1. n \in Nat /\ <<>> \in Seq(Entries)
    BY <1>1
  <2>2. \E f : IsRecursion(f, n, Seq(Entries), <<>>, step)
    BY Zenon, <1>4, <2>1, RecursionExists
  <2> QED
    BY Zenon, <2>2 DEF IsRecursion
<1>6. ASSUME NEW i \in 0 .. n PROVE g[i] = IF i = 0 THEN <<>> ELSE Retain(g[i - 1], i)
  <2>1. CASE i = 0
    BY <1>5, <2>1
  <2>2. CASE i # 0
    <3>1. i \in 1 .. n /\ i - 1 \in 0 .. n
      BY <1>1, <2>2
    <3> QED
      BY Zenon, <1>4, <1>5, <2>2, <3>1
  <2> QED
    BY Zenon, <2>1, <2>2
<1>7. kept = [i \in 0 .. n |-> IF i = 0 THEN <<>> ELSE Retain(kept[i - 1], i)]
  <2>1. g = [i \in 0 .. n |-> IF i = 0 THEN <<>> ELSE Retain(g[i - 1], i)]
    BY <1>5, <1>6
  <2> QED
    BY Zenon, <2>1
<1> HIDE DEF kept
<1>8. kept[0] = <<>> /\ \A i \in 1 .. n : kept[i] = Retain(kept[i - 1], i)
  <2>1. 0 \in 0 .. n /\ \A i \in 1 .. n : i \in 0 .. n /\ i # 0
    BY <1>1
  <2> QED
    BY Zenon, <1>7, <2>1
<1> DEFINE Good(f, i) ==
      /\ f \in Seq(Entries) /\ Len(f) <= i
      /\ \A k \in DOMAIN f : \E j \in 1 .. i : f[k] = entries[j] /\ entries[j].operation # o
      /\ Distinct(entries) => Distinct(f)
           S == {i \in 0 .. n : Good(kept[i], i)}
<1>9. 0 \in S
  <2>1. Good(<<>>, 0)
    BY DEF Distinct
  <2>2. Good(kept[0], 0) /\ 0 \in 0 .. n
    BY <1>1, <1>8, <2>1
  <2> HIDE DEF Good
  <2> QED
    BY Zenon, <2>2
<1>10. ASSUME NEW i \in 1 .. n, i - 1 \in S PROVE i \in S
  <2> SUFFICES Good(kept[i], i)
    <3> HIDE DEF Good
    <3> QED
      BY <1>1
  <2> DEFINE f == kept[i - 1]
  <2>1. Good(f, i - 1) /\ kept[i] = Retain(f, i) /\ entries[i] \in Entries
    BY <1>1, <1>8, <1>10
  <2> HIDE DEF f
  <2>2. CASE entries[i].operation # o
    <3>1. kept[i] = Append(f, entries[i])
      BY Zenon, <2>1, <2>2 DEF Retain
    <3>2. /\ kept[i] \in Seq(Entries) /\ Len(kept[i]) = Len(f) + 1 /\ Len(f) \in Nat
          /\ DOMAIN f = 1 .. Len(f) /\ DOMAIN kept[i] = 1 .. (Len(f) + 1)
          /\ kept[i][Len(f) + 1] = entries[i]
          /\ \A k \in 1 .. Len(f) : kept[i][k] = f[k]
      BY <2>1, <3>1
    <3>3. \A k \in DOMAIN kept[i] :
             \E j \in 1 .. i : kept[i][k] = entries[j] /\ entries[j].operation # o
      <4> SUFFICES ASSUME NEW k \in DOMAIN kept[i]
                   PROVE  \E j \in 1 .. i : kept[i][k] = entries[j] /\ entries[j].operation # o
        OBVIOUS
      <4>1. /\ k \in 1 .. Len(f) \/ k = Len(f) + 1
            /\ i \in 1 .. i /\ \A j \in 1 .. (i - 1) : j \in 1 .. i
        BY <1>1, <3>2
      <4> QED
        BY Zenon, <2>1, <2>2, <3>2, <4>1
    <3>4. Distinct(entries) => Distinct(kept[i])
      <4> SUFFICES ASSUME Distinct(entries), NEW k \in DOMAIN kept[i], NEW l \in DOMAIN kept[i],
                          k < l, kept[i][k].operation = kept[i][l].operation
                   PROVE  FALSE
        BY <3>2 DEF Distinct
      <4>1. CASE l <= Len(f)
        BY <2>1, <3>2, <4>1 DEF Distinct
      <4>2. CASE l = Len(f) + 1
        <5>1. PICK j \in 1 .. (i - 1) : f[k] = entries[j]
          BY <2>1, <3>2, <4>2
        <5>2. j \in DOMAIN entries /\ i \in DOMAIN entries /\ j # i
          BY <1>1
        <5> QED
          BY <3>2, <4>2, <5>1, <5>2 DEF Distinct
      <4> QED
        BY <3>2, <4>1, <4>2
    <3>5. Len(kept[i]) <= i
      BY <1>1, <2>1, <3>2
    <3> QED
      BY Zenon, <3>2, <3>3, <3>4, <3>5
  <2>3. CASE entries[i].operation = o
    <3>1. kept[i] = f /\ Len(f) \in Nat
      BY <2>1, <2>3 DEF Retain
    <3>2. Len(f) <= i /\ \A j \in 1 .. (i - 1) : j \in 1 .. i
      BY <1>1, <2>1, <3>1
    <3> QED
      BY Zenon, <2>1, <3>1, <3>2
  <2> QED
    BY Zenon, <2>2, <2>3
<1> HIDE DEF S
<1>11. n \in S
  <2>1. n \in Nat /\ n \in 0 .. n
    BY <1>1
  <2> QED
    BY Zenon, <1>9, <1>10, <2>1, BoundedInduction
<1>12. Good(kept[n], n)
  BY Zenon, <1>11 DEF S
<1> QED
  BY Zenon, <1>1, <1>2, <1>12 DEF n

\* While an execution is pending, no other closure runs one.
LEMMA PendingAlone ==
    ASSUME Ownership, NEW r \in Requests, ExecutionPending(r), NEW q \in Requests, q # r
    PROVE  ~ExecutionPending(q) /\ closure[q] \notin RunningLabels
<1>1. ~ExecutionPending(q)
  BY Zenon, PendingHolds
<1> QED
  BY Zenon, <1>1 DEF ExecutionPending, Ownership, RequestFits, RoleFits, RunningLabels

\* A running execution closure is pending.
LEMMA RunningPends ==
    ASSUME Ownership, NEW r \in Requests, closure[r] \in RunningLabels
    PROVE  ExecutionPending(r)
BY Zenon DEF ExecutionPending, Ownership, RequestFits, RoleFits, RunningLabels

\* An entry belongs to an operation and shows what its latest pass ended with.
LEMMA EntryFacts ==
    ASSUME DiagnosticsFit, NEW i \in DOMAIN stopped
    PROVE  /\ i \in Int /\ stopped[i].operation \in Operations
           /\ stopped[i].observation = lastPass[stopped[i].operation]
<1>1. stopped[i] \in Entries /\ i \in Int
  BY DEF DiagnosticsFit
<1>2. \A e \in Entries : e.operation \in Operations
  BY Zenon DEF Entries
<1> QED
  BY Zenon, <1>1, <1>2 DEF DiagnosticsFit

\* A selection removes the diagnostic of its operation and begins a new pass.
LEMMA AcquireDiagnostics ==
    ASSUME Ownership, AnswerTypes, DiagnosticsFit, NEW r \in Requests, AcquireSubmission(r)
    PROVE  DiagnosticsFit'
<1>1. Op(r) \in Operations /\ stopped' = Without(stopped, Op(r))
      /\ lastPass' = [lastPass EXCEPT ![Op(r)] = "unknown"]
      /\ UNCHANGED <<closure, local>>
  BY Zenon, TargetAssumption DEF Op, AcquireSubmission, jobVars
<1>2. ASSUME NEW q \in Requests PROVE closure[q] \notin RunningLabels
  BY Zenon, <1>2, RunningPends, PendingHolds, NoneAssumption DEF AcquireSubmission
<1>3. /\ stopped' \in Seq(Entries) /\ Len(stopped') <= Len(stopped) /\ Distinct(stopped')
      /\ \A i \in DOMAIN stopped' :
            \E j \in DOMAIN stopped : stopped'[i] = stopped[j] /\ stopped[j].operation # Op(r)
  BY <1>1, WithoutFacts DEF DiagnosticsFit
<1>4. Len(stopped') <= StoppedMax
  <2>1. Len(stopped) \in Nat /\ Len(stopped') \in Nat /\ StoppedMax \in Nat
    BY <1>3, BoundsAssumption DEF DiagnosticsFit
  <2> QED
    BY <1>3, <2>1 DEF DiagnosticsFit
<1>5. lastPass' \in [Operations -> AllConditions \cup {"unknown"}]
  BY Zenon, <1>1 DEF DiagnosticsFit
<1>6. \A i \in DOMAIN stopped' : stopped'[i].observation = lastPass'[stopped'[i].operation]
  <2> TAKE i \in DOMAIN stopped'
  <2>1. PICK j \in DOMAIN stopped : stopped'[i] = stopped[j] /\ stopped[j].operation # Op(r)
    BY Zenon, <1>3
  <2>2. stopped[j].operation \in Operations
    BY Zenon, EntryFacts
  <2> QED
    BY Zenon, <1>1, <2>1, <2>2 DEF DiagnosticsFit
<1>7. ASSUME NEW q \in Requests PROVE PassFits(q)'
  <2>1. closure'[q] # "stopping"
    BY Zenon, <1>1, <1>2 DEF RunningLabels
  <2>2. CASE q = r
    <3>1. \A i \in DOMAIN stopped' : stopped'[i].operation # Op(r)
      BY Zenon, <1>3
    <3> QED
      BY Zenon, <2>1, <2>2, <3>1 DEF PassFits, Op
  <2>3. CASE q # r
    <3>1. ~ExecutionPending(q)
      BY Zenon, PendingHolds, NoneAssumption DEF AcquireSubmission
    <3>2. ~ExecutionPending(q)'
      BY <2>3, <3>1 DEF ExecutionPending, AcquireSubmission, Move, jobVars, Ownership, Types
    <3> QED
      BY Zenon, <2>1, <3>2 DEF PassFits
  <2> QED
    BY Zenon, <2>2, <2>3
<1> QED
  BY Zenon, <1>3, <1>4, <1>5, <1>6, <1>7 DEF DiagnosticsFit

\* A step that neither selects nor ends nor records a pass keeps the diagnostics, if it
\* makes no execution pending.
LEMMA QuietDiagnostics ==
    ASSUME Ownership, DiagnosticsFit, UNCHANGED <<stopped, lastPass>>,
           \A q \in Requests :
              /\ ExecutionPending(q)' => ExecutionPending(q)
              /\ closure'[q] # "recorded" /\ closure[q] = "recorded" => ~ExecutionPending(q)'
              /\ closure'[q] = "stopping" => closure[q] = "stopping" /\ local'[q] = local[q]
    PROVE  DiagnosticsFit'
BY Zenon DEF DiagnosticsFit, PassFits, Op

\* A step of a connection keeps the diagnostics.
LEMMA ConnectionDiagnostics ==
    ASSUME Ownership, AnswersFit, DiagnosticsFit, NEW r \in Requests, ConnectionStep(r)
    PROVE  DiagnosticsFit'
<1>1. CASE AcquireSubmission(r)
  BY <1>1, AcquireDiagnostics DEF AnswersFit
<1>2. CASE ~AcquireSubmission(r)
  <2>1. UNCHANGED <<stopped, lastPass>>
    BY Zenon, <1>2 DEF ConnectionStep, Accept, Refuse, Handler, AbortSupervisor, Lease,
       StartBlocking,
       SupervisorReturns, DispatchRead, FailAcquisition, PinSelection, Spawn,
       ReceiveDecision, SenderGone, Deadline, DropConnection, DropSelection, ReleaseSubmission
  <2>2. ASSUME NEW q \in Requests
        PROVE  /\ ExecutionPending(q)' => ExecutionPending(q)
               /\ closure'[q] # "recorded" /\ closure[q] = "recorded" => ~ExecutionPending(q)'
               /\ closure'[q] = "stopping" => closure[q] = "stopping" /\ local'[q] = local[q]
    <3>1. /\ closure'[q] = closure[q] \/ (closure[q] = "none" /\ closure'[q] = "queued")
          /\ local' = local
      BY Zenon, ConnectionFacts
    <3>2. ExecutionPending(q)' => ExecutionPending(q)
      <4> USE DEF Ownership, Types, RequestFits, Move, ExecutionPending, Executing, handlerVars,
                  jobVars
      <4>1. CASE Accept(r) \/ Refuse(r)
        BY Zenon, <4>1 DEF Accept, Refuse
      <4>2. CASE DispatchRead(r) \/ FailAcquisition(r) \/ PinSelection(r)
        <5>1. CASE DispatchRead(r)
          BY <5>1 DEF DispatchRead
        <5>2. CASE FailAcquisition(r)
          BY <5>2 DEF FailAcquisition
        <5>3. CASE PinSelection(r)
          BY <5>3 DEF PinSelection
        <5> QED
          BY Zenon, <4>2, <5>1, <5>2, <5>3
      <4>3. CASE Spawn(r)
        BY Zenon, <4>3 DEF Spawn
      <4>4. CASE ReceiveDecision(r) \/ SenderGone(r) \/ Deadline(r)
        BY Zenon, <4>4 DEF ReceiveDecision, SenderGone, Deadline
      <4>5. CASE AbortSupervisor(r) \/ StartBlocking(r) \/ SupervisorReturns(r)
        BY ZenonT(30), <4>5 DEF AbortSupervisor, StartBlocking, SupervisorReturns
      <4>6. CASE Lease(r)
        BY Zenon, <4>6 DEF Lease, DropConnection, DropSelection, ReleaseSubmission
      <4> QED
        BY ZenonT(30), <1>2, <4>1, <4>2, <4>3, <4>4, <4>5, <4>6 DEF ConnectionStep, Handler
    <3> QED
      BY Zenon, <3>1, <3>2
  <2> QED
    BY Zenon, <2>1, <2>2, QuietDiagnostics
<1> QED
  BY Zenon, <1>1, <1>2

\* The end of a pass becomes the latest of its operation, which has no entry.
LEMMA EndDiagnostics ==
    ASSUME Ownership, DOMAIN local = Requests, DiagnosticsFit, NEW r \in Requests,
           closure[r] \in Executing, NEW result \in AllConditions \cup {"finished"}, NEW answer,
           EndPass(r, result, answer), UNCHANGED stopped
    PROVE  DiagnosticsFit'
<1>1. /\ Op(r) \in Operations /\ StopObservation(result) \in AllConditions \cup {"unknown"}
      /\ closure' = [closure EXCEPT ![r] = "stopping"] /\ local' = [local EXCEPT ![r] = result]
      /\ lastPass' = [lastPass EXCEPT ![Op(r)] = StopObservation(result)]
      /\ UNCHANGED <<role, handler, supervisor>>
  BY Zenon, TargetAssumption DEF Op, EndPass, Step, Move, StopObservation, handlerVars
<1>2. ExecutionPending(r) /\ closure[r] # "recorded"
  BY Zenon, RunningPends DEF RunningLabels, Executing
<1>3. \A i \in DOMAIN stopped : stopped[i].operation # Op(r) /\ stopped[i].operation \in Operations
  BY Zenon, <1>2, EntryFacts DEF DiagnosticsFit, PassFits
<1>4. /\ stopped' \in Seq(Entries) /\ Len(stopped') <= StoppedMax /\ Distinct(stopped')
      /\ lastPass' \in [Operations -> AllConditions \cup {"unknown"}]
  BY Zenon, <1>1 DEF DiagnosticsFit
<1>5. \A i \in DOMAIN stopped' : stopped'[i].observation = lastPass'[stopped'[i].operation]
  BY Zenon, <1>1, <1>3 DEF DiagnosticsFit
<1>6. ASSUME NEW q \in Requests PROVE PassFits(q)'
  <2>1. CASE q = r
    <3>1. StopObservation(local'[r]) = lastPass'[Op(r)]
      BY Zenon, <1>1 DEF DiagnosticsFit
    <3> QED
      BY Zenon, <1>3, <2>1, <3>1 DEF PassFits, Op, StopObservation
  <2>2. CASE q # r
    <3>1. ~ExecutionPending(q) /\ closure[q] \notin RunningLabels
      BY Zenon, <1>2, <2>2, PendingAlone
    <3>2. ~ExecutionPending(q)' /\ closure'[q] # "stopping"
      BY Zenon, <1>1, <2>2, <3>1 DEF ExecutionPending, RunningLabels, Ownership, Types
    <3> QED
      BY Zenon, <3>2 DEF PassFits
  <2> QED
    BY Zenon, <2>1, <2>2
<1> QED
  BY Zenon, <1>4, <1>5, <1>6 DEF DiagnosticsFit

\* record_stop keeps the diagnostics, and at most StoppedMax of them.
LEMMA RecordDiagnostics ==
    ASSUME Ownership, DiagnosticsFit, NEW r \in Requests, RecordStop(r)
    PROVE  DiagnosticsFit'
<1> DEFINE others == Without(stopped, Op(r))
           room == IF Len(others) = StoppedMax THEN Tail(others) ELSE others
           entry == [operation |-> Op(r), observation |-> StopObservation(local[r])]
<1>1. /\ closure[r] = "stopping" /\ closure' = [closure EXCEPT ![r] = "recorded"]
      /\ stopped' = Append(room, entry)
      /\ UNCHANGED <<role, handler, supervisor, lastPass>>
  BY Zenon DEF RecordStop, Step, Move, handlerVars
<1>2. /\ Op(r) \in Operations /\ entry.operation = Op(r)
      /\ entry.observation = lastPass[Op(r)] /\ entry \in Entries
  <2>1. Op(r) \in Operations /\ StopObservation(local[r]) = lastPass[Op(r)]
    BY Zenon, <1>1, TargetAssumption DEF Op, DiagnosticsFit, PassFits
  <2> QED
    BY Zenon, <2>1 DEF DiagnosticsFit, Entries
<1> HIDE DEF entry
<1>3. /\ others \in Seq(Entries) /\ Distinct(others) /\ Len(others) <= StoppedMax
      /\ \A i \in DOMAIN others :
            /\ others[i].operation \in Operations \ {Op(r)}
            /\ others[i].observation = lastPass[others[i].operation]
  <2>1. /\ others \in Seq(Entries) /\ Len(others) <= Len(stopped) /\ Distinct(others)
        /\ \A i \in DOMAIN others :
              \E j \in DOMAIN stopped : others[i] = stopped[j] /\ stopped[j].operation # Op(r)
    BY WithoutFacts DEF DiagnosticsFit
  <2> HIDE DEF others
  <2>2. Len(others) \in Nat /\ Len(stopped) \in Nat /\ StoppedMax \in Nat
    BY <2>1, BoundsAssumption DEF DiagnosticsFit
  <2>3. \A j \in DOMAIN stopped :
           stopped[j].operation \in Operations
           /\ stopped[j].observation = lastPass[stopped[j].operation]
    BY EntryFacts
  <2>4. Len(others) <= StoppedMax
    BY <2>1, <2>2 DEF DiagnosticsFit
  <2>5. \A i \in DOMAIN others :
           /\ others[i].operation \in Operations \ {Op(r)}
           /\ others[i].observation = lastPass[others[i].operation]
    BY Zenon, <2>1, <2>3
  <2> QED
    BY Zenon, <2>1, <2>4, <2>5
<1> HIDE DEF others
<1>4. /\ room \in Seq(Entries) /\ Len(room) < StoppedMax /\ Distinct(room)
      /\ \A i \in DOMAIN room :
            /\ room[i].operation \in Operations \ {Op(r)}
            /\ room[i].observation = lastPass[room[i].operation]
  <2>1. StoppedMax \in Nat \ {0}
    BY Zenon, BoundsAssumption
  <2>2. CASE Len(others) = StoppedMax
    <3>1. /\ room \in Seq(Entries) /\ Len(room) = Len(others) - 1
          /\ DOMAIN room = 1 .. (Len(others) - 1) /\ DOMAIN others = 1 .. Len(others)
          /\ \A i \in DOMAIN room : room[i] = others[i + 1]
      BY <1>3, <2>1, <2>2
    <3> HIDE DEF room
    <3>2. Len(room) < StoppedMax
      BY <2>1, <2>2, <3>1
    <3>3. \A i \in DOMAIN room : i \in Int /\ i + 1 \in DOMAIN others
      BY <2>1, <2>2, <3>1
    <3>4. Distinct(room)
      <4>1. ASSUME NEW i \in DOMAIN room, NEW j \in DOMAIN room,
                   room[i].operation = room[j].operation
            PROVE  i = j
        <5>1. i + 1 = j + 1
          BY <1>3, <3>1, <3>3, <4>1 DEF Distinct
        <5> QED
          BY <3>3, <5>1
      <4> QED
        BY Zenon, <4>1 DEF Distinct
    <3> QED
      BY <1>3, <3>1, <3>2, <3>3, <3>4
  <2>3. CASE Len(others) # StoppedMax
    BY <1>3, <2>1, <2>3
  <2> QED
    BY Zenon, <2>2, <2>3
<1> HIDE DEF room
<1>5. /\ stopped' \in Seq(Entries) /\ Len(stopped') = Len(room) + 1 /\ Len(room) \in Nat
      /\ DOMAIN room = 1 .. Len(room) /\ DOMAIN stopped' = 1 .. (Len(room) + 1)
      /\ stopped'[Len(room) + 1] = entry
      /\ \A i \in DOMAIN room : stopped'[i] = room[i]
  BY <1>1, <1>2, <1>4
<1>6. Len(stopped') <= StoppedMax
  BY <1>4, <1>5, BoundsAssumption
<1>7. Distinct(stopped')
  BY <1>2, <1>4, <1>5 DEF Distinct
<1>8. \A i \in DOMAIN stopped' : stopped'[i].observation = lastPass'[stopped'[i].operation]
  BY <1>1, <1>2, <1>4, <1>5
<1>9. ASSUME NEW q \in Requests PROVE PassFits(q)'
  <2>1. CASE q = r
    BY Zenon, <1>1, <2>1 DEF PassFits, Ownership, Types
  <2>2. CASE q # r
    <3>1. ~ExecutionPending(q) /\ closure[q] \notin RunningLabels
      BY Zenon, <1>1, <2>2, RunningPends, PendingAlone DEF RunningLabels
    <3>2. ~ExecutionPending(q)' /\ closure'[q] # "stopping"
      BY Zenon, <1>1, <2>2, <3>1 DEF ExecutionPending, RunningLabels, Ownership, Types
    <3> QED
      BY Zenon, <3>2 DEF PassFits
  <2> QED
    BY Zenon, <2>1, <2>2
<1> QED
  BY Zenon, <1>1, <1>5, <1>6, <1>7, <1>8, <1>9 DEF DiagnosticsFit

\* A step of an execution closure keeps the diagnostics.
LEMMA ExecutionDiagnostics ==
    ASSUME Ownership, AnswersFit, DiagnosticsFit, NEW r \in Requests, Execution(r)
    PROVE  DiagnosticsFit'
<1>1. DOMAIN local = Requests
  BY DEF AnswersFit, AnswerTypes
<1>2. CASE FailSelection(r) \/ DecideWithoutLease(r) \/ DecideFull(r) \/ LoseCommit(r)
  <2>1. PICK result, answer :
           /\ result \in {"operation_blocked", "worker_contention", "finished"}
           /\ EndPass(r, result, answer) /\ closure[r] \in Executing /\ UNCHANGED stopped
    BY <1>2 DEF FailSelection, DecideWithoutLease, DecideFull, LoseCommit, Executing
  <2>2. result \in AllConditions \cup {"finished"}
    BY Zenon, <2>1 DEF AllConditions
  <2> QED
    BY Zenon, <1>1, <2>1, <2>2, EndDiagnostics
<1>3. CASE EndReconciliation(r)
  <2>1. PICK result \in Conditions \cup {"finished"} :
           EndPass(r, result, sent[r]) /\ closure[r] \in Executing /\ UNCHANGED stopped
    BY Zenon, <1>3 DEF EndReconciliation, Executing
  <2>2. result \in AllConditions \cup {"finished"}
    BY Zenon, ConditionsAssumption
  <2> QED
    BY Zenon, <1>1, <2>1, <2>2, EndDiagnostics
<1>4. CASE RecordStop(r)
  BY <1>4, RecordDiagnostics
<1>5. CASE BeginExecution(r) \/ CommitAdmission(r) \/ Acknowledge(r) \/ EndExecution(r)
  <2>1. UNCHANGED <<stopped, lastPass, role, handler, supervisor>>
    BY Zenon, <1>5 DEF BeginExecution, CommitAdmission, Acknowledge, EndExecution, Step,
       handlerVars
  <2>2. /\ closure' = [closure EXCEPT ![r] = closure'[r]] /\ DOMAIN local' = Requests
        /\ \A q \in Requests \ {r} : local'[q] = local[q]
        /\ ExecutionPending(r)
        /\ closure'[r] \in Executing \cup {"dropped"} /\ (closure'[r] # "dropped" => closure[r] # "recorded")
    <3>1. closure[r] = "queued" => role[r] = "execution"
      BY Zenon, <1>5 DEF BeginExecution, CommitAdmission, Acknowledge, EndExecution
    <3>2. closure[r] \in RunningLabels => ExecutionPending(r)
      BY Zenon, RunningPends
    <3> QED
      BY Zenon, <1>1, <1>5, <3>1, <3>2 DEF BeginExecution, CommitAdmission, Acknowledge,
         EndExecution, Step,
         Move, Ownership, Types, Executing, RunningLabels, ExecutionPending
  <2>3. ASSUME NEW q \in Requests
        PROVE  /\ ExecutionPending(q)' => ExecutionPending(q)
               /\ closure'[q] # "recorded" /\ closure[q] = "recorded" => ~ExecutionPending(q)'
               /\ closure'[q] = "stopping" => closure[q] = "stopping" /\ local'[q] = local[q]
    <3>1. CASE q = r
      <4>1. closure'[r] = "dropped" => ~ExecutionPending(r)'
        <5>1. closure'[r] = "dropped" => closure[r] = "recorded"
          BY Zenon, <1>5 DEF BeginExecution, CommitAdmission, Acknowledge, EndExecution,
             Step, Move,
             Ownership, Types
        <5> QED
          BY Zenon, <2>1, <5>1 DEF ExecutionPending, Ownership, RequestFits, Executing
      <4> QED
        BY Zenon, <2>2, <3>1, <4>1 DEF Executing
    <3>2. CASE q # r
      BY Zenon, <2>1, <2>2, <3>2 DEF ExecutionPending, Ownership, Types
    <3> QED
      BY Zenon, <3>1, <3>2
  <2> QED
    BY Zenon, <2>1, <2>3, QuietDiagnostics
<1> QED
  BY Zenon, <1>2, <1>3, <1>4, <1>5 DEF Execution

\* A step of a probe or a read keeps the diagnostics.
LEMMA LookDiagnostics ==
    ASSUME Ownership, AnswersFit, DiagnosticsFit, NEW r \in Requests,
           \/ ProbeRead(r) \/ ProbeDecide(r)
           \/ ObserveForStatus(r) \/ ReadStatus(r) \/ ReadHistory(r) \/ ObserveForHistory(r)
    PROVE  DiagnosticsFit'
<1>1. UNCHANGED <<stopped, lastPass, role, handler, supervisor>>
  BY Zenon, MovesFacts DEF ProbeRead, ProbeDecide, ObserveForStatus, ReadStatus, ReadHistory,
     ObserveForHistory
<1>2. closure'[r] \in {"probed", "observed", "paged", "dropped"}
  BY Zenon, LookFacts
<1>3. \A q \in Requests \ {r} : closure'[q] = closure[q] /\ local'[q] = local[q]
  BY Zenon, MovesFrame DEF AnswersFit
<1>4. closure[r] \in {"queued", "probed", "observed", "paged"}
  BY Zenon DEF ProbeRead, ProbeDecide, ObserveForStatus, ReadStatus, ReadHistory,
     ObserveForHistory
<1>5. ASSUME NEW q \in Requests
      PROVE  /\ ExecutionPending(q)' => ExecutionPending(q)
             /\ closure'[q] # "recorded" /\ closure[q] = "recorded" => ~ExecutionPending(q)'
             /\ closure'[q] = "stopping" => closure[q] = "stopping" /\ local'[q] = local[q]
  BY Zenon, <1>1, <1>2, <1>3, <1>4 DEF ExecutionPending, Executing
<1> QED
  BY Zenon, <1>1, <1>5, QuietDiagnostics

\* Every step keeps the diagnostics.
LEMMA NextDiagnostics ==
    Ownership /\ AnswersFit /\ DiagnosticsFit /\ [Next]_vars => DiagnosticsFit'
<1> SUFFICES ASSUME Ownership, AnswersFit, DiagnosticsFit, [Next]_vars PROVE DiagnosticsFit'
  BY Zenon
<1>1. CASE StopAccepting \/ JoinHandlers \/ Drain \/ UNCHANGED vars
  BY <1>1 DEF StopAccepting, JoinHandlers, Drain, vars, DiagnosticsFit, PassFits,
     ExecutionPending,
     Op, handlerVars, jobVars
<1> QED
  BY Zenon, <1>1, ConnectionDiagnostics, ExecutionDiagnostics, LookDiagnostics DEF Next, Job,
     ConnectionStep

\* A stop reason that is reported for an operation is the one its latest pass ended with,
\* and at most StoppedMax reasons are kept (record_stop, admit_submission).
THEOREM DiagnosticsCurrent == Spec => []DiagnosticIsCurrent
<1>1. Init => DiagnosticsFit
  <2> SUFFICES ASSUME Init PROVE DiagnosticsFit
    OBVIOUS
  <2>1. stopped = <<>> /\ <<>> \in Seq(Entries) /\ Len(<<>>) = 0 /\ DOMAIN <<>> = {}
    BY DEF Init
  <2>2. Len(stopped) <= StoppedMax
    BY <2>1, BoundsAssumption
  <2> QED
    BY Zenon, <2>1, <2>2 DEF Init, DiagnosticsFit, PassFits, Distinct
<1>2. ASSUME DiagnosticsFit PROVE DiagnosticIsCurrent
  <2>1. ASSUME NEW o \in Operations, Observation(o) \in AllConditions
        PROVE  Observation(o) = lastPass[o]
    <3> DEFINE found == {i \in DOMAIN stopped : stopped[i].operation = o}
               first == CHOOSE i \in found : \A j \in found : i <= j
    <3>1. found # {} /\ Observation(o) = stopped[first].observation
      BY Zenon, <2>1 DEF Observation, AllConditions
    <3>2. PICK i \in found : \A j \in found : j = i
      <4>1. Distinct(stopped)
        BY Zenon, <1>2 DEF DiagnosticsFit
      <4>2. \A i, j \in found : j = i
        BY Zenon, <4>1 DEF Distinct
      <4> QED
        BY <3>1, <4>2
    <3>3. i <= i
      BY <1>2, EntryFacts
    <3>4. first \in found
      BY <3>2, <3>3
    <3> QED
      BY Zenon, <1>2, <3>1, <3>4 DEF DiagnosticsFit
  <2> QED
    BY Zenon, <1>2, <2>1 DEF DiagnosticIsCurrent, DiagnosticsFit
<1> QED
  BY <1>1, <1>2, NextDiagnostics, OwnershipHolds, AnswersHold, PTL DEF Spec
=============================================================================
