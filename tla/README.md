# A TLA+ model of kapsel

Kapsel carries out operations that an owner has approved in advance with a signed
grant: set one image on one version of a Kubernetes Deployment, or move one Git ref
from one commit to another. It promises that an approved operation is attempted at
most once, that what it reports about the outcome is true, and that its journal
never forgets or rewrites what it has recorded. Processes may die, commits may
succeed without anybody learning of it, receivers may answer late or never, and
other writers may change the same objects.

This directory models that system in TLA+. TLC checks the models on small
instances, and TLAPS proves the safety of both effects, of the journal's records and
its opening, of the service runtime, its listings and its callers, and of the
installation for every value of the constants. `PROJECT.json` maps every definition to
the lines it models, and lists components, runs, mutants, hazards and theorems.

## 1. The system

### Parts and how they interact

| Part | Source | State | Operations |
| ---- | ------ | ----- | ---------- |
| Effect gateway, Kubernetes | `src/gateway/mod.rs`, `src/gateway/kubernetes/` | a run: lease, loaded row, receiver answer | admit, authorize, preflight, attempt, apply, record the outcome, observe, freeze, sign |
| Effect gateway, Git | `src/gateway/git.rs`, `src/gateway/journal/git.rs` | the same, and a `git push` child process | admit, prepare, attempt, push, record the acknowledgement, observe, freeze, sign |
| Journal | `src/gateway/journal/` | two SQLite tables with one row per operation, worker lock file | insert, conditional replacement of one row, reads in a snapshot, capacity check |
| Journal opening | `src/gateway/journal/opening.rs` | database file, rollback journal, lock file | open, recover, initialise, validate read-only |
| Service application | `src/application/service.rs`, `service/disposition.rs` | catalogue, gateway | select, status, history, list, receipt, guidance |
| Service runtime | `crates/kapsel-daemon/src/server/runtime.rs`, `runtime/jobs.rs`, `server.rs` | connections, permits, jobs, the one execution, diagnostics | accept, dispatch, submit, probe, answer, time out, stop, drain |
| Installation | `crates/kapsel-daemon/src/startup.rs`, `startup/publication.rs` | lifecycle lock, `operator.json`, socket | start, read inputs, open, bind, replace the document |
| Wire protocol | `crates/kapsel-daemon/src/server/protocol.rs` | none | decode requests, render answers within their limits |
| Callers | `client_transport.rs`, `bin/kapsel-service-client.rs`, `bin/kapsel-service-mcp.rs` | one connection per request, the bridge's handshake, an export file | submit, read, check answers, export a receipt |
| Authority and receipts | `crates/kapsel-authority`, `src/gateway/receipt/` | none | encode, sign, parse and verify grants, trust and receipts |
| Commands | `src/command/`, `src/application/mod.rs`, `service/document.rs` | the files of a directory | provision grants, prepare and validate the document, inspect receipts |

A caller names an operation. The daemon's runtime gives it the single execution
permit, or probes the journal if somebody else has it. The application selects the
grant: the one the operation was admitted under, or else the catalogue's. The
gateway takes the worker lease, commits the row, tells the caller that it is
admitted, and drives the row through its phases, talking to the receiver between
commits. The daemon holds the lifecycle lock for as long as it lives. A publisher
needs the same lock to replace the operator document.

### What makes it hard

* A crash, a lost commit confirmation or a lost reply can fall between any two
  steps, and the process that resumes the work has only the row to go by.
* A patch or a push may take effect after its sender has given up or died.
* The Deployment or the ref is changed by others between the read that approves a
  change and the change, and between the change and its observation.
* A caller that cannot get the execution permit is answered from a read of a journal
  that the permit's owner may be about to change.
* Permits are returned when the last of several shared references is dropped, in
  tasks that may be cancelled.
* Status and history combine process state and journal state read at two moments.
* Files survive crashes and power loss in part, and are edited by other tools.
* The same answer, grant or row is described twice, by its writer and by its reader,
  and the two descriptions have to agree on every member.

`PROJECT.json` lists these as hazards, each at its line, with the properties that
cover it.

## 2. Modules

| Module | Models |
| ------ | ------ |
| `Lifecycle` | Abstract specification of an effect: phases, a permission to send that comes from a confirmed attempt commit and is never issued twice, a count of sends. |
| `Journal` | Phases of a row, the two capacities, the order of phases. Shared by both effects. |
| `ReceiverFacts` | Kubernetes receiver facts: completeness of an observation, requested generation, classification into a result. |
| `KubernetesEffect` | The Kubernetes gateway. Implements `Lifecycle`. |
| `GitEffect` | The Git gateway, with the Kubernetes rows that share its identities. Implements `Lifecycle`. |
| `JournalSchema` | The layout of the database: tables, columns, what opening recognises, bounds on values, counts and pages. |
| `JournalRecords` | The Kubernetes row column by column: encoding, bounds, decoder, every write, the lock slot of a process. |
| `JournalOpening` | Opening, recovery and cold validation of the journal file. |
| `ServiceRuntime` | The daemon's request handling, execution permit and shutdown, with a phase per journal row. |
| `Installation` | Daemon and publisher lifetimes, `operator.json`, the socket path, the catalogue and the retained grants. |
| `ServicePaging` | Page-by-page listing of history and catalogue. |
| `ServiceProtocol` | Requests as the service decodes them, answers as it renders them, their lengths. |
| `ServiceBridge` | What the MCP bridge accepts from its caller and from the service. |
| `ServiceExchange` | The callers, the transport and the service's end of it, composed from the two above. |
| `Records` | The framing of every signed document. |
| `Grants` | Both kinds of grant and receipt trust: encode, parse, sign, verify. Extends `Records`. |
| `Receipts` | Both kinds of receipt: encode, parse, sign, inspect. Extends `Grants`. |
| `OperatorCommands` | The operator's commands as processes over a directory of such documents. |
| `KubernetesEffectProofs` | The inductive invariant of the Kubernetes effect, its safety theorems, the refinement of `Lifecycle`, the truth of what callers are told and receipts state, and that `Lifecycle` itself is at-most-once. |
| `GitEffectProofs` | The inductive invariant of the Git effect, its safety theorems and the refinement of `Lifecycle`. |
| `RecordsProofs` | The first theorems about `JournalRecords`: lease, sizes, reading back. |
| `ReopeningProofs` | The theorems that build on them: layout, seal, reopening. Extends `RecordsProofs`. |
| `RuntimeProofs` | The inductive invariant of `ServiceRuntime` and its theorems. |
| `InstallationProofs` | The inductive invariant of `Installation` and its theorems; in its second half those of `JournalOpening`, which it instantiates as `Opened`. |
| `PagingProofs` | The inductive invariant of `ServicePaging` and its theorem. |
| `ExchangeProofs` | The inductive invariant of `ServiceExchange` and two of its properties. |
| `MC*` | Instances for TLC: grants, statuses, documents, symmetry. |

A definition whose comment says "Mutant of X" is a plausible wrong version of X. It
is used by no specification. It stands in for X to show that a property depends on
X being as it is.

### KubernetesEffect

`journal` maps operations to rows. A row is a record of the columns that matter, and
`NoRow` stands for no row. Each worker has a `pc`, the grant, receiver and key of its
run, the row it loaded and the last receiver answer. One action stands for each
stretch of code between two points where somebody else can act:

| Action | Code |
| ------ | ---- |
| `Begin`, `TryLockWorker`, `Admit` | `admit_and_reconcile`, `try_lock_worker`, `admit_service_operation`, `insert_requested` |
| `Reconcile`, `MarkAuthorized` | `reconcile_locked_with_adapter`, `mark_authorized` |
| `PreflightTarget`, `MarkNotAttempted`, `BeginAttempt` | `preflight_target`, `mark_not_attempted`, `begin_attempt`, `mark_stale_approval`, `mark_apply_started` |
| `Apply`, `ApplyReturned`, `RecordApplyOutcome` | `DispatchPermission`, the adapter's `apply`, `record_apply_outcome` |
| `ObserveReceiver`, `FreezeObservation`, `FinalizeReceipt` | `observe_until_terminal`, `freeze_observation`, `finalize`, `commit_receipt` |
| `Crash` | process death, and every early error return: the run ends, the lease is released, the row stays |

Every write is conditional on the row the run loaded (`bound_record` and the
conditional `UPDATE` of `records.rs` in one). It may be refused, succeed, or succeed
without confirmation. The environment patches, edits and re-creates the Deployment
and lets a patch land at any time after it was sent.

### GitEffect

The same shape. A push is a child process that compares and swaps the ref. It
survives the worker's crash and is killed at its timeout. Only the exact
fast-forward report of that push is an acknowledgement, and the observed ref never
is. Kubernetes rows are admitted beside it, as the two tables share identities and
capacities.

### JournalRecords and JournalSchema

`KubernetesEffect` takes a row for a record of facts. `JournalRecords` looks inside:
a row maps the 42 columns to values, a write is a set of columns decided from the row
its holder loaded (`Pend`), and `Replace` is the transaction that compares the whole
row with what was loaded, checks the bounds of the new one and commits, with or
without a confirmation. `Decode` is the decoder with its checks across columns, up to
the receipt whose signed statement has to equal the columns beside it. Beside the
processes another tool edits one column, or the layout, at any moment. Neither the
lease nor a transaction prevents that, so readers and writers have to notice.
`DropWorker` may fail to unlock: the process can then take no lease again, but
closing the lock's file frees it for the others.

One identity is followed in full; others, and the Git table, only by their state.
Values have the worst-case length of their column. `Storage` bounds the pages and
records that SQLite reports of such a file, and `RequireRetainedBounds` compares them,
and the counts, with the limits of `capacity.rs`. The largest replica count is 7
instead of 2^31 - 1. `begin_attempt` reads the row in two places; the first read is
folded into the write that follows. A grant that is edited between the load and the
write is noticed by the next authorized read and not earlier, as in the code.

### JournalOpening

`file`, `sidecar`, `lockFile` are the files, `tx` is the SQLite transaction under way. A
transaction creates its rollback journal, writes a zero header, syncs it, writes pages
and commits by deletion; a crash may leave the journal at any of these lengths. Opening
is `AcquireLifecycle`, `CheckArtifacts`, `OpenFile`, `Recover`, `Connect`,
`BeginInitialization`, `CommitInitialization`, `ValidateAndLock`, in the order of
`open_journal`, and a crash may come between any two. A failed open ends the process.
`ValidateReplacement` is `open_validation_snapshot`; it is atomic because the lifecycle
lock excludes everybody else.

### ServiceRuntime

One request is one connection. `handler`, `role`, `response` describe its task;
`supervisor`, `closure`, `local`, `sent` its job; `lease`, `pin`, `running`,
`permit`, `selected` who holds the shared references that keep a connection permit,
the execution permit and the selected identity alive. References are dropped one at
a time, a superset of what the current-thread runtime does. Supervisors may be
cancelled, deadlines may pass at any time, and the gateway's part of a pass is
reduced to the phase of the row and the decision it reports.

### Installation

A run is one process, daemon or publisher. `visible` is the file `operator.json`
names, `durable` what the directory names on disk. A rename changes the first and a
directory sync copies it to the second. Power loss picks one of the two, and tears a
file that was not synced. The journal is reduced to the grant of each row.
`socket` is what the socket path names. A start examines it (`StatSocket`,
`ConnectSocket`, `StatSocketAgain`, `UnlinkSocket`), binds its own and secures it, in
the order of `prepare_socket_path` and `bind_listener`; each call may fail.

### ServicePaging

A caller follows `next_cursor` while others admit operations to either table and the
service is restarted with another catalogue.

### ServiceProtocol, ServiceBridge, ServiceExchange

A JSON value is a tagged record with a length; an answer is the sequence of its
members as written. `ServiceProtocol` renders every answer member by member as
`protocol.rs` does. `ServiceBridge` has the shapes that the bridge accepts, which
`kapsel-service-mcp.rs` writes down a second time. `ServiceExchange` puts a caller, a
connection and the service between them: the operation moves on meanwhile, requests
and answers are lost or late, a submission may be committed after its caller has
given up (`LateCommit`), and the client's export of a receipt may be cut off by a
kill or power loss. What the service decides about a submission is left open to all
that `ServiceRuntime` allows. A text has two lengths, that of its value and that of its
JSON: the facts of a Deployment are any ASCII, so a byte of them is written as up to
two bytes (a quote) or six (a control character), and a label, which is printable, as
up to two. A line read by the bridge is assumed to be of one of the kinds it tells
apart, and a receipt to have between 1 byte and 16 KiB (`ExchangeAssumption`).

### Records, Grants, Receipts, OperatorCommands

A document is a sequence of cells: a byte, an integer, or a word that the code only
compares whole. A signature is one cell made of key, purpose and statement, so it
verifies for nothing else. That is the assumption made of Ed25519 and SHA-256.
`OperatorCommands` runs the commands as processes: grants are provisioned for the
live Deployment or for a ref, collected into the operator document, validated as the
daemon would, and receipts are inspected against trust. Output files are created,
written and confirmed in separate steps, and an owner may edit, extend, cut or remove
any file between them.

## 3. What TLC checks

Each run asks one question. Every property has a mutant of the code that breaks it
in that run. `CHECK_DEADLOCK FALSE` is set where the system may stop for good: all
work is finished, the service has retired, or an open is refused for ever.

| Run | Question | Bounds |
| --- | -------- | ------ |
| `kubernetes_workers` | Do lease, conditional commits and dispatch permission implement the at-most-once lifecycle, and is recorded evidence true and written once, whatever happens to the Deployment? | two processes, one operation under two conflicting grants that approve different versions, 4 versions over 2 incarnations, 2 rollout statuses, 2 reads per pass, in the combinations of `Scenarios` |
| `kubernetes_liveness` | Does admitted work finish, whatever was lost on the way? | two operations, a journal of one row |
| `git_workers` | Does the Git effect implement the same lifecycle, beside Kubernetes admissions? Is an acknowledgement ever inferred, or made false by a later move? | two processes, conflicting grants and a second operation with the same transition, one foreign move, one row |
| `git_liveness` | Does admitted Git work finish? | one operation |
| `journal_records` | Does what was written read back as what its writer meant? Is a finalized row that somebody edited ever shown? Does a full journal, and only an exact layout, open again? | two processes, both kinds of request, two targets, outcomes and three observations, one edit of any column and one of the layout, capacities of two identities and one unfinished |
| `opening_races` | Is history ever replaced, or a live transaction left unprotected, by an open? Is a formatted journal served again after the last crash? | two processes, two rows, three crashes, one loss of the database |
| `runtime_shutdown` | Is a refusal ever false? Does guidance follow history although process and journal are read apart? Are permits, jobs and diagnostics bounded and current across cancellation and stop? | three submissions of two operations and one read, two connection permits, one diagnostic, in the combinations of `Scenarios` |
| `runtime_liveness` | Is every connection closed although jobs hang? If jobs end, does a stop end in retirement? | two submissions, every initial journal |
| `installation_history` | Is the printed outcome of a replacement true of the disk? Is a serving daemon the one that clients reach? Do document, catalogue and history agree across replacements? | four processes, seven documents with rotated keys and conflicting grants, power loss |
| `paging_listings` | Does a listing miss, repeat or invent entries? | five identities, pages of two, four catalogues |
| `service_exchange` | Does the bridge accept every answer the service can give? Does what a caller was told about a submission stay true? Is an exported receipt whole? | three exchanges of one kind of caller; pages of eight, facts and receipts of the greatest length, a fact's byte written as one, two or six |
| `operator_commands` | Does anything verify that was not signed, or fail to that was? Is a catalogue accepted exactly when the gateway would accept its grants? Is what is reported as written there? | two processes, three commands, one edit of one cell |

Why the bounds suffice: each hazard involves at most two processes that race over one
row, or one process and its successor; limits are set so low that they are reached. Four
object versions allow for an edit before the approved patch, the patch, the controller's
report on it and one change by somebody else, or a re-created Deployment; a result of
either kind is reached. Capacities of two and one let each limit decide on its own: one
unfinished row stops an admission while there is room for an identity, and a finalized
one leaves room for the same identity in the other table. The code has 504 rows, 32 of
them unfinished, 180 observation reads and pages of eight. Three submissions give one
owner of the permit and two competitors for another identity. Four processes allow
daemon, replacement, daemon, replacement with crashes between. Three exchanges allow a
submission, its repetition and a read. One edit is enough since every check compares an
edited value with the ones that were left alone.

Three runs have a CONSTRAINT. `Scenarios` of `MCKubernetesEffect` gives runs that overlap
the same receiver and signing material, and from the third object version on lets one
fully equipped run at a time observe the Deployment: the races over the row, the attempt
and the patch have happened by then. `Scenarios` of `MCServiceRuntime` keeps to three
submissions without cancellation, or one operation executed twice beside a read, or a
stop while two requests are served; these are the combinations the properties speak
of. `Separate` of `MCOperatorCommands` keeps a behaviour to grants and documents, or to
receipts, which share nothing but the directory.

Symmetry over workers, handles, submissions, runs or commands is used only in runs
without liveness properties.

### Fairness

* Effects: a run takes its next step, since storage calls return and receiver calls
  have timeouts. Callers keep resuming unfinished work, as the service tells them to,
  with receiver and signing material installed, and a retried step does not fail
  every time (strong fairness per step). Nothing is assumed of the send and its reply,
  which happen once. One row is unfinished at a time in these runs: with more, the
  assumption would have to be made for each.
* Runtime: ready connection tasks are polled and deadlines expire (`ResponsiveSpec`).
  That queued closures run and a pass ends (`JobsProgress`) follows from the bounds on
  receiver calls and from storage that answers. It is a premise of `StopRetires` only;
  `ConnectionsClose` does without it.
* Opening: the operator starts the service again after a failure.

No client need ever connect, nobody need stop the service, and no crash, loss or
cancellation need happen.

## 4. What is proved

| Theorem | Says |
| ------- | ---- |
| `LifecycleAtMostOnce` | The abstract lifecycle sends at most once, and only after an attempt was recorded. |
| `KubernetesInvariant` | The inductive invariant `IInv` holds. |
| `KubernetesTypeOK` | States are well typed. |
| `KubernetesAtMostOneSend` | No operation's patch is sent twice. |
| `KubernetesDurableAttempt` | A patch is sent only after its attempt is durable. |
| `KubernetesApprovedVersion` | A patch replaces only the version its grant approved. |
| `KubernetesEveryRowDecodes` | Every row that is written can be read again. |
| `KubernetesLease` | A run that may write holds the lease, and the row it loaded is current. |
| `KubernetesFactsAreWrittenOnce` | No recorded fact changes. |
| `KubernetesPhasesAdvance` | Phases only move forward. |
| `KubernetesImplementsLifecycle` | The Kubernetes effect implements `Lifecycle`, so `LifecycleAtMostOnce` holds of it. |
| `KubernetesAcknowledged` | What a caller was told is admitted is retained under that grant, and never falls behind the phase it was told. |
| `KubernetesResults` | A recorded result other than UNKNOWN is true of the receiver. |
| `GitInvariant`, `GitTypeOK` | The inductive invariant of the Git effect holds; states are well typed. |
| `GitAcknowledgementIsTrue` | A recorded result is true of this operation's own push, and stays true. |
| `GitPushLandsAsApproved` | A push moves the ref only along the approved fast-forward, after a durable attempt. |
| `GitIdentityUsedOnce` | No identity is retained in both tables. |
| `GitEveryRowDecodes` | Every Git row that is written can be read again. |
| `GitFactsAreWrittenOnce` | No recorded fact of a Git row changes. |
| `GitImplementsLifecycle` | The Git effect implements `Lifecycle`, so `LifecycleAtMostOnce` holds of it. |
| `InstallationInvariant` | The inductive invariant of the installation holds. |
| `InstallationOutcomeIsTrue` | The printed outcome of a replacement is true of the disk, and `operator.json` is never torn. |
| `InstallationServingIsReachable` | The socket path of a serving daemon names its own socket, and `operator.json` the document it opened. |
| `InstallationCatalogueAgrees` | The installed catalogue does not contradict the history, unless power loss undid a rename. |
| `InstallationOriginalAuthority` | Work is selected only under the grant it was admitted with, while a trusted key authenticates it. |
| `OpeningInvariance` | The inductive invariant of opening, recovery and writing holds. |
| `HistoryKept` | No process serves a journal that lacks a confirmed row. |
| `PagesProtected` | Database pages are never on disk without a rollback journal that can undo them. |
| `ValidationSees` | A cold validation that accepts a journal has read every confirmed row. |
| `OwnershipHolds` | Connections, jobs, leases and the Selection they share agree on who holds which permit. |
| `OneExecutionHolds` | At most one execution is pending. |
| `RetiredQuietly` | Nothing runs any more when the applications and the lifecycle lock are released. |
| `GuidanceFollows` | Guidance agrees with the journal, although process and journal are read apart. |
| `RefusalsAreDefinite` | NOT_ADMITTED is true when it is decided, and no deadline becomes one. |
| `DiagnosticsCurrent` | A stop reason that is reported is that of the latest pass, and the limit is kept. |
| `ListingsComplete` | A listing read to its end misses, repeats and invents nothing. |
| `ExchangeInvariant` | The inductive invariant of the exchange holds. |
| `ReportsStayTrue` | What a caller was told of an operation stays true, however late it is read. |
| `ExportsAreWhole` | A receipt reported as saved is whole, and a file that was there before is untouched. |
| `LeasesHaveWorkers` | The worker lock is never left behind. |
| `OpenedLayouts` | An open journal has exactly the tables that were created. |
| `FinalizedFactsSealed` | A record that still reads as finalized shows what was committed, after any number of edits. |
| `AdmittedReopens` | A journal nobody edited opens again, whatever was admitted into it. |
| `WritesRead` | Every write reads back as what its caller decided, whatever was edited before it. |

They hold for any sets of operations, workers, images, commits, grants, documents,
processes, requests and keys, for any number of crashes, losses and edits, and for any
bounds, under the assumptions named in the modules: grants name an operation and what
is approved of it; documents are made of such grants and keys, and the one first
installed authenticates its own approvals; a request to the journal is one that
authorization accepted, and an observation one that `validate` accepted; the
capacities are no larger than the page budget allows; `None` is none of the values;
bounds are natural numbers.

**The Kubernetes effect.** At-most-once is not inductive by itself: a worker at its
send step could hold a permission for an operation that already sent. `IInv` adds, for
every worker, what its position says about the row it loaded (`RunFits`): the row is
the row in the journal while it holds the lease; at `send` the row is in
`apply_started` and nothing was sent; what it fetched fits the row it is about to
write. It also adds `InflightIsApproved`: a patch on the network carries the approved
version, and belongs to an operation that has sent. There is one lemma per action. A
lemma about an action that writes a row rests on lemmas about the row that the write
makes of the one it replaces. Lemma `NextOK` takes each action from `IInv` to a
step, or a stutter, of `Lifecycle` under the mapping phase = the row's state, permit =
some worker is at `send`, and shows that it moves phases forward and writes facts
once.

`AcknowledgedIsDurable` is not inductive either: a run may acknowledge a row that it
read before it had the lease. `AckInv` adds that such a row still vouches for the phase
it was read in (`LockFits`), which holds because phases only advance. `ResultIsTrue`
speaks of the row, the patches that landed and the verdicts that were published, while
the code only ever sees a read of the Deployment. `TruthInv` carries the claim along:
the Deployment is backed by patches and verdicts, so is every read of it that waits to
be frozen, and so is every row with a result. The step that matters is the
classification (`FrozenBacked`): a read whose marker, object and generation fit the
row's cannot owe its verdict to another generation or to another writer's image.

**The Git effect.** The same shape, with a push that outlives its worker.
`AcknowledgementIsTrue` needs to know of an acknowledgement before it is recorded:
`RunFits` says that the one a worker holds is true (`Holds`), and `PushesFit` that a
push under way is the only one of its operation, has not landed, and names the
commits of the retained grant. That a worker at its send step has sent nothing
(`RunFits`) and that the history of sends agrees with the rows (`HistoryFits`) keep a
second push from ever starting. The row operators `Authorized`, `ApplyStarted`,
`Acknowledged`, `Frozen`, `Finalized` and `Rejected` each have one lemma: the row they
make can be decoded, and is in the state it should be.

**The installation.** The lifecycle lock leaves one process under way (`Custody`,
lemma `Alone`), so that what a process established of its document, of the history and
of the socket path still holds when it acts. `Printed` says that a process which has
not renamed owns neither the visible nor the durable file, and that it prints only at
its end. Every file that the directory may name was synced before it got the name,
so power loss never tears it.

**Journal opening.** That a confirmed row is never lost from a served journal needs
the worker lock file: it is made before the first row can be confirmed, and an open
that finds it beside an absent or empty database refuses (`HistoryFits`, `OpenFits`).
So whoever takes a database for a fresh one knows that nothing was confirmed, at every
label between that check and the end of the open. `TransactionFits` says what a live
transaction has put on disk; since it runs under the lifecycle lock, no recovery can
take its journal away.

**The service runtime.** The invariant has four parts, proved one after the other.
`Ownership` relates connection, job, lease and Selection label by label: every
reference is to the Selection that holds the permit, and it is freed by the one job
whose lease held the last (`SelectionFits`). `ShutdownFits` adds what the drain has
waited for. `AnswersFit` says what the job of a request has read at each label and how
far the row may have moved on since; a probe that found no row, and pins an execution
of another operation, still finds none, since the permit keeps others from admitting
one. `DiagnosticsFit` says that an operation has no kept stop reason from its
selection until its pass is recorded, and then the reason of that pass. Its proof needs
what `retain` leaves of a list, which is a recursive function (`Without`), by induction.

**Paging.** `HistoryFits` says what a caller has received of a history at any cursor:
an increasing list of retained identities, none beyond the cursor, with every one up to
it that was retained when the caller began. What is admitted meanwhile lies on either
side of the cursor and changes neither claim. `CatalogueFits` says that the entries are
the part of the catalogue up to the cursor; that the cursor marks one place only needs
the identities of a catalogue to be distinct, which its validation ensures
(`PagingAssumption`). A page is a prefix of the sorted identities beyond the cursor, and
sorting is a choice among sequences: `AscendingFacts` shows that the choice exists, by
the rank of each element, and what it is.

**The exchange.** What a caller was told is about a row that has moved on since, so the
claim must be one that no later step can undo, and it must hold before anybody reads
it. `Says` states `ReportStaysTrue` of any answer, of any operation and of any exchange.
`SocketFits` has it of the answer on the connection, from the moment it is rendered,
and `ToldFits` of what the caller was told. Both survive `Advance` and `LateCommit`
because a row in a final state has no successor (`SuccessorFits`) and because a refused
submission left nothing behind that could be committed (`NumbersFit`). `CallerFits` says
that an answer is about what its caller asked. What the bridge or the client make of an
answer, errors of their own included, is shown to claim nothing that the answer did
not. Most lemmas follow one renderer each and take from its members the status and the
entries. `ExportFits` says what is on disk at each step of `save_receipt`; that power
loss leaves a reported receipt whole needs its content to be synced before the report.

**Records.** Five invariants, each with its own lemmas. `LeaseInv`: worker lock and
workers agree. `LayoutInv`: an open or unedited layout is the created one, which rests
on the recognition of each of the 42 columns. `SealInv`: the row holds the bytes of the
last committed receipt, or none that are signed, and so will the row of every write that
has been decided on; a row that decodes as finalized equals its signed statement column
by column, so the bytes determine what is shown. `SizesInv` and `CountInv`: what callers
write stays within what opening accepts, the sum over the 42 columns included
(`RowBytesBounded`, a chain of 42 steps). From them `StorageFits` derives the page
bounds: a record of the greatest length takes 19 pages with its index entry, so 504
identities, the schema and a write in progress stay below the 23 pages for each identity
and the 16,384 of the file that opening demands. `RecordInv`: a write that was decided
on will read back as what its caller then knows; there is one lemma per write, which
goes through every check of the decoder with the columns that the write sets and those
it keeps.

The attempt at `WritesReadBack` found a mistake in an earlier model. What
`mark_authorized` leaves its caller with has the authorization of the request, and not
that of the loaded row; the two differ for a row that has no authorization columns
yet. That takes three edits, and the run allows one.

**Induction.** The library's induction theorems take an operator as a parameter, which
the provers cannot instantiate. `RuntimeProofs` restates induction with a set in its
place (`BoundedInduction`), and recursion with a function (`RecursionExists`). Where a
list has to be reasoned about, the model defines it by a recursive function, and the
proof takes the defining equation from `RecursionExists`.

**Only proved**: `TypeOK` and `EveryRowDecodes` of both effects,
`SentOnlyAfterDurableAttempt`, `LeaseProtectsLoadedRow` and `PhasesAdvance` of the
Kubernetes effect, `IdentityUsedOnce` and `FactsAreWrittenOnce` of the Git effect are
in no run.

**Only model-checked**: all liveness (`AdmittedWorkFinishes`, `ConnectionsClose` and
the like), since fairness and ENABLED are out of the prover's reach;
`EveryAnswerIsUsable`, which compares the summed lengths of all members of an answer
with limits; and the properties of `OperatorCommands`, which speak of documents as
sequences that are put together and taken apart cell by cell, for which the provers have
no theory of concatenation and selection.

## 5. What is not modelled

* The arithmetic of signatures and digests, and JSON as text: a value has its members
  and its length.
* File modes, owners, link counts and path checks, which only ever refuse, except for
  the socket.
* The shape of SQLite's b-trees (depth, roots, cell counts) and the size of the
  rollback file. The pages a record takes are the upper bound that `capacity.rs` relies
  on, from the file format.
* The execution inputs beside the operator document (kubeconfig, receiver, seed), each
  of which only refuses a start.
* Git rows column by column, and the packet lines of the Git protocol.
* The sync of the directory after an export: the client does not do it, and
  `ExportIsWhole` promises the content of a file that is still named.
* Panics and poisoned mutexes.
* Diagnostic texts and their codes, help texts and rendered wording.
* The demonstration control, simulation tests, fuzzing and release tooling: they are
  no part of the service.

No disagreement between code and documentation was found while modelling. Some facts
are worth knowing:

* A rollback journal with a zero header is removed on opening. The journal of a live
  transaction looks the same until its first sync. What keeps an opener from removing
  it is that the daemon and the publisher hold the lifecycle lock while the journal is
  open (`PagesAreProtected`).
* A replacement that ended `INDETERMINATE` can be served and then undone by power
  loss. If the restored catalogue contradicts what was admitted meanwhile, the service
  refuses to start (`InstalledCatalogueAgrees` makes exactly this exception).
* A crash between bind and chmod leaves an unsecured socket, which the next start
  refuses to remove. systemd removes the runtime directory of an ended service
  (`CleanRuntime`), and the start after that succeeds.
* A crash after SQLite has created a rollback journal and before it has written the
  first eight bytes leaves a file whose header cannot be read. Every later open fails on
  it until somebody removes it; no row is lost (`FormattedIsServed` makes exactly this
  exception, and says that it lasts).
* A page of eight entries whose facts need many JSON escapes is longer than 16 KiB, and
  the connection is then closed without an answer, as the reference says of responses
  over the limit. A history of two-byte escapes is enough, a catalogue takes longer ones
  (`EveryAnswerIsUsable` makes exactly this exception).
* Between the second look at a stale socket and its removal only the lifecycle lock
  keeps another start from having bound a new one (`ServingIsReachable`).

## 6. What could follow

1. `ServiceRuntime` composed with the abstract `Lifecycle` in place of the phase it
   has now.
2. `JournalRecords` shown to implement the rows of `KubernetesEffect`, and the Git
   table column by column.
3. A proof of the framing of `Records`, by the induction of `RuntimeProofs`.
