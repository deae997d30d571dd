----------------------------- MODULE Installation -----------------------------
(***************************************************************************)
(* The installed service across process lifetimes: the lifecycle lock and  *)
(* the socket path (crates/kapsel-daemon/src/startup.rs), cold replacement *)
(* of operator.json (startup/publication.rs), and what a daemon makes of the *)
(* document and the retained history when it opens and when it selects     *)
(* work (src/application/service.rs).                                      *)
(*                                                                         *)
(* Each run is one process: a daemon or a publisher.  The journal is what  *)
(* survives of it: the grant each operation was admitted under.  A rename  *)
(* is visible at once, but reaches the disk only when the directory is     *)
(* synced: power loss may undo it, and tears a file that was not synced.   *)
(***************************************************************************)
EXTENDS FiniteSets

CONSTANTS
    Runs,           \* process lifetimes
    Operations,
    Keys,           \* authorization keys an operator may appoint
    Grants,         \* signed grants: [operation, key, tuple]
    Documents,      \* operator documents: [approvals, trust]
    Installed,      \* the document the operator first installed
    CanLosePower,
    None

ASSUME DocumentsAssumption ==
    /\ \A g \in Grants : g.operation \in Operations /\ g.key \in Keys
    /\ \A d \in Documents : d.approvals \subseteq Grants /\ d.trust \subseteq Keys
    /\ Installed \in Documents
    /\ CanLosePower \in BOOLEAN

\* The first document passed the validation of the prepare command.
ASSUME InstalledAssumption == \A g \in Installed.approvals : g.key \in Installed.trust

ASSUME NoneAssumption ==
    None \notin Runs \cup {"PUBLISHED", "NOT_PUBLISHED", "INDETERMINATE"}

VARIABLES
    lease,          \* the run that holds the lifecycle lock
    pc,             \* run -> where it is
    document,       \* run -> the document it read or is to publish
    temporary,      \* run -> whether its temporary file is written and synced
    outcome,        \* run -> what its publisher printed
    visible,        \* the file operator.json names
    durable,        \* the file the directory names on disk
    socket,         \* the socket kapseld.sock names: whose it is, and whether secured
    stale,          \* run -> the socket it found before it binds its own
    retained,       \* operation -> the grant of its journal row
    reverted,       \* history: power loss undid a rename
    selected        \* history: the last selection of work

runVars == <<lease, pc, document, temporary, outcome>>
diskVars == <<visible, durable>>
socketVars == <<socket, stale>>
vars == <<runVars, diskVars, socketVars, retained, reverted, selected>>

File(run, d, synced) == [by |-> run, document |-> d, synced |-> synced, whole |-> TRUE]

NoSelection == [by |-> None, operation |-> None, grant |-> None]

-----------------------------------------------------------------------------
(* Configuration and history.                                              *)

Authenticates(d, g) == g.key \in d.trust

\* validate_configuration: every approval authenticates and no identity repeats.
ValidConfiguration(d) ==
    /\ \A g \in d.approvals : Authenticates(d, g)
    /\ \A g, h \in d.approvals : g.operation = h.operation => g = h

\* Mutant of Compatible: a row whose grant cannot be authenticated is passed over.
CompatibleIfTrusted(d) ==
    \A g \in d.approvals :
       LET original == retained[g.operation]
       IN  original # None /\ original.key \in d.trust => original = g

\* An approval for a retained identity is the grant that identity was admitted
\* under.  Rows without an approval are not looked at.
Compatible(d) == \A g \in d.approvals : retained[g.operation] \in {None, g}

\* Mutant of Select: a retained grant is not authenticated again.
SelectUntrusted(d, o) ==
    IF retained[o] # None
    THEN {retained[o]}
    ELSE {g \in d.approvals : g.operation = o}

\* retained_for_selection: history first, and then only under current trust.
Select(d, o) ==
    IF retained[o] # None
    THEN {g \in {retained[o]} : Authenticates(d, g)}
    ELSE {g \in d.approvals : g.operation = o}

-----------------------------------------------------------------------------
(* Process lifetimes.                                                      *)

\* Mutant of Lock: the lock is not tried.
LockAnyway(r) == lease' = r

\* acquire_lifecycle does not wait.
Lock(r) == lease = None /\ lease' = r

\* The process's memory is gone, and its roots are dropped and with them the lock.
End(r) ==
    /\ lease' = IF lease = r THEN None ELSE lease
    /\ pc' = [pc EXCEPT ![r] = "ended"]
    /\ document' = [document EXCEPT ![r] = Installed]
    /\ temporary' = [temporary EXCEPT ![r] = FALSE]
    /\ stale' = [stale EXCEPT ![r] = None]
    /\ selected' = NoSelection

(* The daemon: serve_installed.                                            *)

\* InstallationInputs::open_at reads the document under the lock.
StartDaemon(r) ==
    /\ pc[r] = "idle"
    /\ Lock(r)
    /\ pc' = [pc EXCEPT ![r] = "starting"]
    /\ UNCHANGED <<document, temporary, outcome, diskVars, socketVars, retained, reverted, selected>>

ReadDocument(r) ==
    /\ pc[r] = "starting"
    /\ visible.whole
    /\ document' = [document EXCEPT ![r] = visible.document]
    /\ pc' = [pc EXCEPT ![r] = "read"]
    /\ UNCHANGED <<lease, temporary, outcome, diskVars, socketVars, retained, reverted, selected>>

\* Both applications open, or the process fails; a stop signal during startup is
\* the Stop that follows.
OpenApplications(r) ==
    /\ pc[r] = "read"
    /\ IF ValidConfiguration(document[r]) /\ Compatible(document[r])
       THEN /\ pc' = [pc EXCEPT ![r] = "opened"]
            /\ UNCHANGED <<lease, document, temporary, stale, selected>>
       ELSE End(r)
    /\ UNCHANGED <<outcome, diskVars, socket, retained, reverted>>

(* bind_listener, and prepare_socket_path before it.  A process listens on *)
(* the socket it bound until it ends; the name stays behind.               *)

Listens(r) == pc[r] \in {"bound", "serving"}

\* A socket of the service's user and group with the mode bind_listener gives it.
RequireSocketMetadata(s) == s.secured

\* The step succeeds and leads to label, or the process ends.
Proceed(r, succeeds, label, found) ==
    IF succeeds
    THEN /\ pc' = [pc EXCEPT ![r] = label] /\ stale' = [stale EXCEPT ![r] = found]
         /\ UNCHANGED <<lease, document, temporary, selected>>
    ELSE End(r)

\* Without a socket there is nothing to prepare; one that is not the service's own,
\* with the mode it gives its sockets, is left alone.
StatSocket(r) ==
    /\ pc[r] = "opened"
    /\ IF socket = None THEN Proceed(r, TRUE, "absent", None)
       ELSE Proceed(r, RequireSocketMetadata(socket), "found", socket)
    /\ UNCHANGED <<outcome, diskVars, socket, retained, reverted>>

\* The connection must be refused.
ConnectSocket(r) ==
    /\ pc[r] = "found"
    /\ Proceed(r, socket # None /\ ~Listens(socket.by), "refused", stale[r])
    /\ UNCHANGED <<outcome, diskVars, socket, retained, reverted>>

StatSocketAgain(r) ==
    /\ pc[r] = "refused"
    /\ Proceed(r, socket = stale[r] /\ RequireSocketMetadata(socket), "same", None)
    /\ UNCHANGED <<outcome, diskVars, socket, retained, reverted>>

UnlinkSocket(r) ==
    /\ pc[r] = "same"
    /\ Proceed(r, socket # None, "absent", None)
    /\ socket' = None
    /\ UNCHANGED <<outcome, diskVars, retained, reverted>>

\* Binding fails if the name exists.
BindSocket(r) ==
    /\ pc[r] = "absent"
    /\ Proceed(r, socket = None, "bound", None)
    /\ socket' = IF socket = None THEN [by |-> r, secured |-> FALSE] ELSE socket
    /\ UNCHANGED <<outcome, diskVars, retained, reverted>>

\* chmodat and the check of what the name then shows; a failure removes the name.
SecureSocket(r) ==
    /\ pc[r] = "bound"
    /\ \E succeeds \in BOOLEAN :
          /\ succeeds => socket # None
          /\ Proceed(r, succeeds, "serving", None)
          /\ socket' = IF succeeds THEN [socket EXCEPT !.secured = TRUE] ELSE None
    /\ UNCHANGED <<outcome, diskVars, retained, reverted>>

\* systemd removes the runtime directory of a service that ended.
CleanRuntime ==
    /\ socket # None
    /\ \A r \in Runs : pc[r] \notin {"starting", "read", "opened", "found", "refused", "same",
                                     "absent", "bound", "serving"}
    /\ socket' = None
    /\ UNCHANGED <<runVars, diskVars, stale, retained, reverted, selected>>

\* Work is selected for an operation and, if it is new, admitted.
SelectWork(r, o) ==
    /\ pc[r] = "serving"
    /\ \E g \in Select(document[r], o) :
          /\ retained' = [retained EXCEPT ![o] = g]
          /\ selected' = [by |-> r, operation |-> o, grant |-> g]
    /\ UNCHANGED <<runVars, diskVars, socketVars, reverted>>

\* A stop signal while serving, or noticed before the socket is bound.
Stop(r) ==
    /\ pc[r] \in {"opened", "serving"}
    /\ End(r)
    /\ UNCHANGED <<outcome, diskVars, socket, retained, reverted>>

(* The publisher: replace, publish_candidate.                              *)

StartPublisher(r, d) ==
    /\ pc[r] = "idle"
    /\ Lock(r)
    /\ document' = [document EXCEPT ![r] = d]
    /\ pc' = [pc EXCEPT ![r] = "candidate"]
    /\ UNCHANGED <<temporary, outcome, diskVars, socketVars, retained, reverted, selected>>

Conclude(r, status) ==
    /\ outcome' = [outcome EXCEPT ![r] = status]
    /\ End(r)

\* A lock that is taken, a refused candidate and every failure before the rename.
NotPublished(r) ==
    /\ \/ pc[r] = "idle" /\ lease # None
       \/ pc[r] \in {"candidate", "validated", "written", "synced"}
    /\ Conclude(r, "NOT_PUBLISHED")
    /\ UNCHANGED <<diskVars, socket, retained, reverted>>

ValidateCandidate(r) ==
    /\ pc[r] = "candidate"
    /\ ValidConfiguration(document[r]) /\ Compatible(document[r])
    /\ pc' = [pc EXCEPT ![r] = "validated"]
    /\ UNCHANGED <<lease, document, temporary, outcome, diskVars, socketVars, retained, reverted, selected>>

WriteTemporary(r) ==
    /\ pc[r] = "validated"
    /\ pc' = [pc EXCEPT ![r] = "written"]
    /\ UNCHANGED <<lease, document, temporary, outcome, diskVars, socketVars, retained, reverted, selected>>

SyncTemporary(r) ==
    /\ pc[r] = "written"
    /\ temporary' = [temporary EXCEPT ![r] = TRUE]
    /\ pc' = [pc EXCEPT ![r] = "synced"]
    /\ UNCHANGED <<lease, document, outcome, diskVars, socketVars, retained, reverted, selected>>

Renamed(r) == File(r, document[r], temporary[r])

\* Mutant of Rename: an error of the rename is taken to mean that nothing happened.
RenameErrorIsRefusal(r) ==
    /\ pc[r] = "synced"
    /\ \/ /\ visible' = Renamed(r)
          /\ pc' = [pc EXCEPT ![r] = "renamed"]
          /\ UNCHANGED <<lease, document, temporary, outcome, stale, selected>>
       \/ /\ visible' \in {visible, Renamed(r)}
          /\ Conclude(r, "NOT_PUBLISHED")
    /\ UNCHANGED <<durable, socket, retained, reverted>>

\* A rename that reports an error may have happened.
Rename(r) ==
    /\ pc[r] = "synced"
    /\ \/ /\ visible' = Renamed(r)
          /\ pc' = [pc EXCEPT ![r] = "renamed"]
          /\ UNCHANGED <<lease, document, temporary, outcome, stale, selected>>
       \/ /\ visible' \in {visible, Renamed(r)}
          /\ Conclude(r, "INDETERMINATE")
    /\ UNCHANGED <<durable, socket, retained, reverted>>

SyncDirectory(r) ==
    /\ pc[r] = "renamed"
    /\ \/ durable' = visible /\ Conclude(r, "PUBLISHED")
       \/ durable' = durable /\ Conclude(r, "INDETERMINATE")
    /\ UNCHANGED <<visible, socket, retained, reverted>>

(* Death of a process, and of the machine.                                 *)

Crash(r) ==
    /\ pc[r] \notin {"idle", "ended"}
    /\ End(r)
    /\ UNCHANGED <<outcome, diskVars, socket, retained, reverted>>

\* Every process dies and the runtime directory is gone; the configuration names
\* what was last synced or, if it reached the disk by itself, what was last renamed.
LosePower ==
    /\ CanLosePower
    /\ lease' = None
    /\ pc' = [r \in Runs |-> IF pc[r] = "idle" THEN "idle" ELSE "ended"]
    /\ document' = [r \in Runs |-> Installed] /\ temporary' = [r \in Runs |-> FALSE]
    /\ socket' = None /\ stale' = [r \in Runs |-> None]
    /\ selected' = NoSelection
    /\ \E f \in {visible, durable} :
          /\ visible' = [f EXCEPT !.whole = f.synced] /\ durable' = visible'
          /\ reverted' = (reverted \/ f # visible)
    /\ UNCHANGED <<outcome, retained>>

-----------------------------------------------------------------------------
Init ==
    /\ lease = None
    /\ pc = [r \in Runs |-> "idle"]
    /\ document = [r \in Runs |-> Installed]
    /\ temporary = [r \in Runs |-> FALSE]
    /\ outcome = [r \in Runs |-> None]
    /\ visible = File(None, Installed, TRUE) /\ durable = visible
    /\ socket = None /\ stale = [r \in Runs |-> None]
    /\ retained = [o \in Operations |-> None]
    /\ reverted = FALSE
    /\ selected = NoSelection

Next ==
    \/ \E r \in Runs :
          \/ StartDaemon(r) \/ ReadDocument(r) \/ OpenApplications(r) \/ Stop(r)
          \/ StatSocket(r) \/ ConnectSocket(r) \/ StatSocketAgain(r) \/ UnlinkSocket(r)
          \/ BindSocket(r) \/ SecureSocket(r)
          \/ NotPublished(r) \/ ValidateCandidate(r) \/ WriteTemporary(r) \/ SyncTemporary(r)
          \/ Rename(r) \/ SyncDirectory(r) \/ Crash(r)
          \/ \E o \in Operations : SelectWork(r, o)
          \/ \E d \in Documents : StartPublisher(r, d)
    \/ CleanRuntime \/ LosePower

Spec == Init /\ [][Next]_vars

-----------------------------------------------------------------------------
(* Properties.                                                             *)

\* A serving daemon can be reached and serves what is installed: the socket path names
\* its own secured socket, which no later start removed for a stale one, and operator.json
\* is the document it opened (prepare_socket_path, bind_listener, InstallationRoots).
ServingIsReachable ==
    \A r \in Runs :
       pc[r] = "serving" =>
          /\ socket = [by |-> r, secured |-> TRUE]
          /\ visible.document = document[r]

\* operator.json always names a complete document, power loss included;
\* PUBLISHED means that the candidate is installed durably, until a later
\* publisher replaces it; NOT_PUBLISHED means that it never was
\* (Outcome, publish_candidate).
OutcomeIsTrue ==
    /\ visible.whole /\ durable.whole
    /\ \A r \in Runs :
          /\ outcome[r] = "PUBLISHED" /\ visible.by = r => durable = visible
          /\ outcome[r] = "NOT_PUBLISHED" => visible.by # r /\ durable.by # r

\* The installed catalogue never contradicts the retained history, so that a
\* stopped service can start again; only power loss that undoes an unsynced
\* rename is an exception (validate_replacement, open_with_storage).
InstalledCatalogueAgrees ==
    ~reverted => \A g \in visible.document.approvals :
                    /\ g.key \in visible.document.trust
                    /\ retained[g.operation] \in {None, g}

\* Work is selected only under the grant its identity was first admitted under and
\* only while the appointed keys authenticate that grant, whatever replacements
\* came between (retained_for_selection, retained_operation).
SelectionHasOriginalAuthority ==
    [][selected' # selected /\ selected'.by # None =>
          LET s == selected'
          IN  /\ retained[s.operation] \in {None, s.grant}
              /\ s.grant.key \in document[s.by].trust]_vars
=============================================================================
