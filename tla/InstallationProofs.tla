-------------------------- MODULE InstallationProofs --------------------------
(***************************************************************************)
(* What the lifecycle lock, the order of publication and the validation of *)
(* documents guarantee for any number of processes and any documents; and, *)
(* in the second half, what opening, recovery and cold validation of the   *)
(* journal guarantee, of which the installation only sees the outcome.     *)
(***************************************************************************)
EXTENDS Installation, TLAPS

DaemonLabels ==
    {"starting", "read", "opened", "found", "refused", "same", "absent", "bound", "serving"}

Labels ==
    DaemonLabels \cup
    {"idle", "candidate", "validated", "written", "synced", "renamed", "ended"}

Files == [by : Runs \cup {None}, document : Documents, synced : {TRUE}, whole : {TRUE}]

Types ==
    /\ lease \in Runs \cup {None}
    /\ pc \in [Runs -> Labels]
    /\ document \in [Runs -> Documents]
    /\ temporary \in [Runs -> BOOLEAN]
    /\ outcome \in [Runs -> {None, "PUBLISHED", "NOT_PUBLISHED", "INDETERMINATE"}]
    /\ visible \in Files /\ durable \in Files
    /\ retained \in [Operations -> Grants \cup {None}]

\* What a process that is under way holds, and what it has established of its document.
Custody(r) ==
    /\ pc[r] \notin {"idle", "ended"} => lease = r
    /\ pc[r] \in DaemonLabels \ {"starting"} => document[r] = visible.document
    /\ pc[r] \in DaemonLabels \ {"starting", "read"} => ValidConfiguration(document[r])
    /\ pc[r] \in {"bound", "serving"} => socket = [by |-> r, secured |-> (pc[r] = "serving")]
    /\ pc[r] \in {"validated", "written", "synced"} =>
          ValidConfiguration(document[r]) /\ Compatible(document[r])
    /\ pc[r] = "synced" => temporary[r] = TRUE

\* A process has renamed nothing before it renames, and prints at its end.
Printed(r) ==
    /\ pc[r] \notin {"renamed", "ended"} => visible.by # r /\ durable.by # r
    /\ outcome[r] # None => pc[r] = "ended"

IInv ==
    /\ Types
    /\ \A r \in Runs : Custody(r) /\ Printed(r)
    /\ OutcomeIsTrue
    /\ InstalledCatalogueAgrees

\* Every file that operator.json may name was synced before it got the name.
LEMMA FileFacts ==
    ASSUME NEW f \in Files
    PROVE  f.whole = TRUE /\ f.synced = TRUE /\ [f EXCEPT !.whole = f.synced] = f
<1>1. f.whole = TRUE /\ f.synced = TRUE
  BY Zenon DEF Files
<1>2. [f EXCEPT !.whole = f.synced] = f
  BY Zenon, <1>1 DEF Files
<1> QED BY <1>1, <1>2

\* The lifecycle lock leaves one process under way.
LEMMA Alone ==
    ASSUME IInv, NEW r \in Runs, NEW q \in Runs \ {r}, pc[r] \notin {"idle", "ended"}
    PROVE  pc[q] \in {"idle", "ended"}
BY DEF IInv, Custody

\* The first installation satisfies the invariant.
LEMMA InitIInv == Init => IInv
BY DocumentsAssumption, InstalledAssumption, NoneAssumption
   DEF Init, IInv, Types, Files, Labels, Custody, Printed, OutcomeIsTrue,
       InstalledCatalogueAgrees, File, DaemonLabels

\* What an action leaves alone stays true.
LEMMA DiskKeeps ==
    ASSUME IInv, UNCHANGED <<outcome, visible, durable, retained, reverted>>
    PROVE  OutcomeIsTrue' /\ InstalledCatalogueAgrees'
BY DEF IInv, OutcomeIsTrue, InstalledCatalogueAgrees

\* A step of the one process under way, or of one that starts: the others are not
\* concerned by anything but the files.
LEMMA StepKeeps ==
    ASSUME IInv, NEW r \in Runs,
           \A q \in Runs \ {r} : pc[q] \in {"idle", "ended"},
           \A q \in Runs \ {r} : pc'[q] = pc[q] /\ outcome'[q] = outcome[q],
           visible'.by \in {visible.by, durable.by, r},
           durable'.by \in {visible.by, durable.by, r},
           Custody(r)', Printed(r)'
    PROVE  \A q \in Runs : Custody(q)' /\ Printed(q)'
<1>1. ASSUME NEW q \in Runs \ {r} PROVE Custody(q)' /\ Printed(q)'
  <2>1. pc'[q] \in {"idle", "ended"} /\ pc'[q] = pc[q] /\ outcome'[q] = outcome[q]
    BY <1>1
  <2>2. Custody(q)'
    BY <2>1 DEF Custody, DaemonLabels
  <2>3. Printed(q)
    BY <1>1 DEF IInv
  <2>4. Printed(q)'
    BY <1>1, <2>1, <2>3 DEF Printed
  <2> QED BY <2>2, <2>4
<1> QED BY <1>1

\* The process that ends leaves nothing to be kept.
LEMMA EndKeeps ==
    ASSUME IInv, NEW r \in Runs, End(r), UNCHANGED <<visible, durable, retained>>,
           outcome' \in [Runs -> {None, "PUBLISHED", "NOT_PUBLISHED", "INDETERMINATE"}],
           \A q \in Runs \ {r} : outcome'[q] = outcome[q],
           pc[r] \in {"idle", "ended"} => socket' = socket
    PROVE  Types' /\ \A q \in Runs : Custody(q)' /\ Printed(q)'
<1>1. Types'
  BY Zenon, DocumentsAssumption DEF End, IInv, Types, Labels
<1>2. pc'[r] = "ended" /\ \A q \in Runs \ {r} : pc'[q] = pc[q] /\ document'[q] = document[q]
                                               /\ temporary'[q] = temporary[q]
  BY DEF End, IInv, Types
<1>3. Custody(r)' /\ Printed(r)'
  BY <1>2 DEF Custody, Printed, DaemonLabels
<1>4. CASE pc[r] \notin {"idle", "ended"}
  <2>1. \A q \in Runs \ {r} : pc[q] \in {"idle", "ended"}
    BY <1>4, Alone
  <2> QED BY <1>1, <1>2, <1>3, <2>1, StepKeeps
<1>5. CASE pc[r] \in {"idle", "ended"}
  <2>1. ASSUME NEW q \in Runs \ {r} PROVE Custody(q)' /\ Printed(q)'
    <3>1. Custody(q) /\ Printed(q)
      BY <2>1 DEF IInv
    <3>2. pc'[q] = pc[q] /\ outcome'[q] = outcome[q] /\ document'[q] = document[q]
          /\ temporary'[q] = temporary[q] /\ socket' = socket
      BY <1>2, <1>5, <2>1
    <3>3. lease = q => lease' = q
      BY <2>1 DEF End
    <3>4. Printed(q)'
      BY <3>1, <3>2 DEF Printed
    <3>5. Compatible(document[q])' <=> Compatible(document[q])
      BY <3>2 DEF Compatible
    <3>6. ValidConfiguration(document[q])' <=> ValidConfiguration(document[q])
      BY <3>2 DEF ValidConfiguration, Authenticates
    <3>7. Custody(q)'
      BY <3>1, <3>2, <3>3, <3>5, <3>6 DEF Custody
    <3> QED BY <3>4, <3>7
  <2> QED BY <1>1, <1>3, <2>1
<1> QED BY <1>4, <1>5

-----------------------------------------------------------------------------
(* The daemon.                                                             *)

\* Starting takes the lock that nobody has, so nobody else is under way.
LEMMA StartDaemonStep ==
    ASSUME IInv, NEW r \in Runs, StartDaemon(r) PROVE IInv'
<1>1. Types' /\ pc'[r] = "starting" /\ lease' = r
  BY DEF StartDaemon, Lock, IInv, Types, Labels, DaemonLabels, diskVars
<1>2. \A q \in Runs \ {r} : pc[q] \in {"idle", "ended"} /\ pc'[q] = pc[q]
  BY NoneAssumption DEF StartDaemon, Lock, IInv, Types, Custody
<1>3. Printed(r) /\ pc[r] = "idle"
  BY DEF StartDaemon, IInv
<1>4. Custody(r)' /\ Printed(r)'
  BY <1>1, <1>3 DEF Custody, Printed, DaemonLabels, StartDaemon, diskVars
<1>5. \A q \in Runs : Custody(q)' /\ Printed(q)'
  BY <1>2, <1>4, StepKeeps DEF StartDaemon, diskVars
<1> QED BY <1>1, <1>5, DiskKeeps DEF IInv, StartDaemon, diskVars

\* A step of a daemon that moves on with its document, and of the socket only its own.
LEMMA DaemonKeeps ==
    ASSUME IInv, NEW r \in Runs, NEW label \in DaemonLabels \ {"starting", "read"},
           pc[r] \in DaemonLabels \ {"starting", "read"},
           pc' = [pc EXCEPT ![r] = label],
           label \in {"bound", "serving"} =>
              socket' = [by |-> r, secured |-> (label = "serving")],
           UNCHANGED <<lease, document, temporary, outcome, visible, durable, retained,
           reverted>>
    PROVE  IInv'
<1>1. Types' /\ pc'[r] = label
  BY DEF IInv, Types, Labels, DaemonLabels
<1>2. \A q \in Runs \ {r} : pc[q] \in {"idle", "ended"} /\ pc'[q] = pc[q]
  BY Alone DEF DaemonLabels, IInv, Types
<1>3. Custody(r) /\ Printed(r)
  BY DEF IInv
<1>4. ValidConfiguration(document[r])'
  BY <1>3 DEF Custody, ValidConfiguration, Authenticates
<1>5. Custody(r)'
  BY <1>1, <1>3, <1>4 DEF Custody, DaemonLabels
<1>6. Printed(r)'
  BY <1>1, <1>3 DEF Printed, DaemonLabels
<1>7. \A q \in Runs : Custody(q)' /\ Printed(q)'
  BY <1>2, <1>5, <1>6, StepKeeps
<1> QED BY <1>1, <1>7, DiskKeeps DEF IInv

\* The end of a process that printed nothing.
LEMMA QuietEnd ==
    ASSUME IInv, NEW r \in Runs, End(r), pc[r] \notin {"idle", "ended"},
           UNCHANGED <<outcome, visible, durable, retained, reverted>>
    PROVE  IInv'
<1>1. Types' /\ \A q \in Runs : Custody(q)' /\ Printed(q)'
  BY EndKeeps DEF IInv, Types
<1> QED BY <1>1, DiskKeeps DEF IInv

\* A step of bind_listener either moves on or ends the process.
LEMMA ProceedKeeps ==
    ASSUME IInv, NEW r \in Runs, NEW succeeds, NEW found,
           NEW label \in DaemonLabels \ {"starting", "read"},
           pc[r] \in DaemonLabels \ {"starting", "read"},
           Proceed(r, succeeds, label, found),
           succeeds /\ label \in {"bound", "serving"} =>
              socket' = [by |-> r, secured |-> (label = "serving")],
           UNCHANGED <<outcome, visible, durable, retained, reverted>>
    PROVE  IInv'
<1>1. CASE succeeds
  BY <1>1, DaemonKeeps DEF Proceed
<1>2. CASE ~succeeds
  BY <1>2, QuietEnd DEF Proceed, DaemonLabels
<1> QED BY <1>1, <1>2

\* The document that is read is the installed one, and stays so under the lock.
LEMMA ReadDocumentStep ==
    ASSUME IInv, NEW r \in Runs, ReadDocument(r) PROVE IInv'
<1>1. Types' /\ pc'[r] = "read" /\ document'[r] = visible.document
  BY Zenon DEF ReadDocument, IInv, Types, Files, Labels, DaemonLabels, diskVars
<1>2. \A q \in Runs \ {r} : pc[q] \in {"idle", "ended"} /\ pc'[q] = pc[q]
  BY Alone DEF ReadDocument, IInv, Types
<1>3. Custody(r) /\ Printed(r) /\ pc[r] = "starting"
  BY DEF IInv, ReadDocument
<1>4. Custody(r)' /\ Printed(r)'
  BY <1>1, <1>3 DEF Custody, Printed, DaemonLabels, ReadDocument, diskVars
<1>5. \A q \in Runs : Custody(q)' /\ Printed(q)'
  BY <1>2, <1>4, StepKeeps DEF ReadDocument, diskVars
<1> QED BY <1>1, <1>5, DiskKeeps DEF IInv, ReadDocument, diskVars

\* What opens is valid: every approval authenticates and no identity repeats.
LEMMA OpenApplicationsStep ==
    ASSUME IInv, NEW r \in Runs, OpenApplications(r) PROVE IInv'
<1>1. CASE ValidConfiguration(document[r]) /\ Compatible(document[r])
  <2>1. Types' /\ pc'[r] = "opened"
    BY <1>1 DEF OpenApplications, IInv, Types, Labels, DaemonLabels, diskVars
  <2>2. \A q \in Runs \ {r} : pc[q] \in {"idle", "ended"} /\ pc'[q] = pc[q]
    BY <1>1, Alone DEF OpenApplications, IInv, Types
  <2>3. Custody(r) /\ Printed(r) /\ pc[r] = "read"
    BY DEF IInv, OpenApplications
  <2>4. ValidConfiguration(document[r])'
    BY <1>1 DEF OpenApplications, ValidConfiguration, Authenticates
  <2>5. Custody(r)' /\ Printed(r)'
    BY <1>1, <2>1, <2>3, <2>4 DEF Custody, Printed, DaemonLabels, OpenApplications, diskVars
  <2>6. \A q \in Runs : Custody(q)' /\ Printed(q)'
    BY <2>2, <2>5, StepKeeps DEF OpenApplications, diskVars
  <2> QED BY <2>1, <2>6, DiskKeeps DEF IInv, OpenApplications, diskVars
<1>2. CASE ~(ValidConfiguration(document[r]) /\ Compatible(document[r]))
  BY <1>2, QuietEnd DEF OpenApplications, diskVars
<1> QED BY <1>1, <1>2

\* The steps that look at the socket or remove it never lead to listening.
LEMMA PrepareSocketStep ==
    ASSUME IInv, NEW r \in Runs,
           StatSocket(r) \/ ConnectSocket(r) \/ StatSocketAgain(r) \/ UnlinkSocket(r)
    PROVE  IInv'
<1>1. CASE StatSocket(r)
  BY Zenon, <1>1, ProceedKeeps DEF StatSocket, DaemonLabels, diskVars
<1>2. CASE ConnectSocket(r)
  BY <1>2, ProceedKeeps DEF ConnectSocket, DaemonLabels, diskVars
<1>3. CASE StatSocketAgain(r)
  BY <1>3, ProceedKeeps DEF StatSocketAgain, DaemonLabels, diskVars
<1>4. CASE UnlinkSocket(r)
  BY <1>4, ProceedKeeps DEF UnlinkSocket, DaemonLabels, diskVars
<1> QED BY <1>1, <1>2, <1>3, <1>4

\* Binding succeeds only where no name is, so the socket is the binder's own.
LEMMA BindSocketStep ==
    ASSUME IInv, NEW r \in Runs, BindSocket(r) PROVE IInv'
BY Zenon, ProceedKeeps DEF BindSocket, DaemonLabels, diskVars

\* The socket that is secured is the one that was bound under the lock.
LEMMA SecureSocketStep ==
    ASSUME IInv, NEW r \in Runs, SecureSocket(r) PROVE IInv'
<1>1. PICK succeeds \in BOOLEAN :
         /\ Proceed(r, succeeds, "serving", None)
         /\ socket' = IF succeeds THEN [socket EXCEPT !.secured = TRUE] ELSE None
  BY DEF SecureSocket
<1>2. socket = [by |-> r, secured |-> FALSE]
  BY Zenon DEF SecureSocket, IInv, Custody
<1>3. succeeds => socket' = [by |-> r, secured |-> TRUE]
  BY Zenon, <1>1, <1>2
<1> QED BY Zenon, <1>1, <1>3, ProceedKeeps DEF SecureSocket, DaemonLabels, diskVars

\* The runtime directory is removed only when no daemon is under way.
LEMMA CleanRuntimeStep ==
    ASSUME IInv, CleanRuntime PROVE IInv'
<1>1. Types'
  BY DEF CleanRuntime, IInv, Types, runVars, diskVars
<1>2. ASSUME NEW q \in Runs PROVE Custody(q)' /\ Printed(q)'
  <2>1. Custody(q) /\ Printed(q) /\ pc[q] \notin {"bound", "serving"}
    BY <1>2 DEF IInv, CleanRuntime
  <2>2. /\ ValidConfiguration(document[q])' <=> ValidConfiguration(document[q])
        /\ Compatible(document[q])' <=> Compatible(document[q])
    BY DEF CleanRuntime, runVars, ValidConfiguration, Authenticates, Compatible
  <2> QED BY <2>1, <2>2 DEF Custody, Printed, CleanRuntime, runVars, diskVars
<1> QED BY <1>1, <1>2, DiskKeeps DEF IInv, CleanRuntime, runVars, diskVars

\* Work is admitted under a grant of the served document, which is the installed one,
\* and which has one grant for the operation.
LEMMA SelectWorkStep ==
    ASSUME IInv, NEW r \in Runs, NEW o \in Operations, SelectWork(r, o) PROVE IInv'
<1>1. PICK g \in Select(document[r], o) : retained' = [retained EXCEPT ![o] = g]
  BY Zenon DEF SelectWork
<1>2. Custody(r) /\ pc[r] = "serving" /\ document[r] \in Documents
  BY DEF SelectWork, IInv, Types
<1>3. ValidConfiguration(document[r]) /\ document[r] = visible.document
  BY <1>2 DEF Custody, DaemonLabels
<1>4. g \in Grants /\ (retained[o] # None => g = retained[o])
      /\ (retained[o] = None => g \in document[r].approvals /\ g.operation = o)
  BY <1>1, <1>2, DocumentsAssumption DEF Select, IInv, Types
<1>5. Types'
  BY <1>1, <1>4 DEF SelectWork, IInv, Types, runVars, diskVars
<1>6. \A q \in Runs \ {r} : pc[q] \in {"idle", "ended"} /\ pc'[q] = pc[q]
  BY <1>2, Alone DEF SelectWork, runVars
<1>7. Custody(r)'
  <2>1. ValidConfiguration(document[r])'
    BY <1>3 DEF SelectWork, runVars, ValidConfiguration, Authenticates
  <2> QED BY <1>2, <2>1 DEF Custody, SelectWork, runVars, diskVars, socketVars, DaemonLabels
<1>8. Printed(r)'
  BY <1>2 DEF IInv, Printed, SelectWork, runVars, diskVars
<1>9. \A q \in Runs : Custody(q)' /\ Printed(q)'
  BY <1>6, <1>7, <1>8, StepKeeps DEF SelectWork, runVars, diskVars
<1>10. OutcomeIsTrue'
  BY DEF IInv, OutcomeIsTrue, SelectWork, runVars, diskVars
<1>11. InstalledCatalogueAgrees'
  <2>1. SUFFICES ASSUME ~reverted, NEW h \in visible.document.approvals
                 PROVE  h.key \in visible.document.trust /\ retained'[h.operation] \in {None, h}
    BY DEF InstalledCatalogueAgrees, SelectWork, diskVars
  <2>2. h.key \in visible.document.trust /\ retained[h.operation] \in {None, h}
    BY <2>1 DEF IInv, InstalledCatalogueAgrees
  <2>3. h.operation \in Operations
    BY <1>2, <1>3, <2>1, DocumentsAssumption
  <2>4. h.operation = o /\ retained[o] = None => h = g
    BY <1>3, <1>4, <2>1 DEF ValidConfiguration
  <2> QED BY <1>1, <1>4, <2>2, <2>3, <2>4 DEF IInv, Types
<1> QED BY <1>5, <1>9, <1>10, <1>11 DEF IInv

\* A stopped or killed process leaves files, history and socket as they are.
LEMMA StopStep ==
    ASSUME IInv, NEW r \in Runs, Stop(r) \/ Crash(r) PROVE IInv'
BY QuietEnd DEF Stop, Crash, diskVars

-----------------------------------------------------------------------------
(* The publisher.                                                          *)

\* A publisher starts like a daemon, with the lock and without a rename.
LEMMA StartPublisherStep ==
    ASSUME IInv, NEW r \in Runs, NEW d \in Documents, StartPublisher(r, d) PROVE IInv'
<1>1. Types' /\ pc'[r] = "candidate" /\ lease' = r
  BY DEF StartPublisher, Lock, IInv, Types, Labels, DaemonLabels, diskVars
<1>2. \A q \in Runs \ {r} : pc[q] \in {"idle", "ended"} /\ pc'[q] = pc[q]
  BY NoneAssumption DEF StartPublisher, Lock, IInv, Types, Custody
<1>3. Printed(r) /\ pc[r] = "idle"
  BY DEF StartPublisher, IInv
<1>4. Custody(r)' /\ Printed(r)'
  BY <1>1, <1>3 DEF Custody, Printed, DaemonLabels, StartPublisher, diskVars
<1>5. \A q \in Runs : Custody(q)' /\ Printed(q)'
  BY <1>2, <1>4, StepKeeps DEF StartPublisher, diskVars
<1> QED BY <1>1, <1>5, DiskKeeps DEF IInv, StartPublisher, diskVars

\* A refusal before the rename is printed by a process that has renamed nothing.
LEMMA NotPublishedStep ==
    ASSUME IInv, NEW r \in Runs, NotPublished(r) PROVE IInv'
<1>1. /\ End(r) /\ outcome' = [outcome EXCEPT ![r] = "NOT_PUBLISHED"]
      /\ pc[r] \notin {"renamed", "ended"}
      /\ UNCHANGED <<visible, durable, socket, retained, reverted>>
  BY DEF NotPublished, Conclude, diskVars
<1>2. /\ outcome' \in [Runs -> {None, "PUBLISHED", "NOT_PUBLISHED", "INDETERMINATE"}]
      /\ \A q \in Runs \ {r} : outcome'[q] = outcome[q]
      /\ outcome'[r] = "NOT_PUBLISHED"
  BY <1>1 DEF IInv, Types
<1>3. Types' /\ \A q \in Runs : Custody(q)' /\ Printed(q)'
  BY <1>1, <1>2, EndKeeps
<1>4. visible.by # r /\ durable.by # r
  BY <1>1 DEF IInv, Printed
<1>5. OutcomeIsTrue'
  BY <1>1, <1>2, <1>4 DEF IInv, OutcomeIsTrue
<1>6. InstalledCatalogueAgrees'
  BY <1>1 DEF IInv, InstalledCatalogueAgrees
<1> QED BY <1>3, <1>5, <1>6 DEF IInv

\* The publisher's steps up to the rename: the candidate was validated against the
\* history that nobody can add to meanwhile.
LEMMA CandidateStep ==
    ASSUME IInv, NEW r \in Runs,
           ValidateCandidate(r) \/ WriteTemporary(r) \/ SyncTemporary(r)
    PROVE  IInv'
<1>1. /\ pc[r] \in {"candidate", "validated", "written"}
      /\ pc'[r] \in {"validated", "written", "synced"}
      /\ \A q \in Runs \ {r} : pc'[q] = pc[q]
      /\ Types'
  BY Zenon DEF ValidateCandidate, WriteTemporary, SyncTemporary, IInv, Types, Labels, diskVars
<1>2. UNCHANGED <<lease, document, outcome, visible, durable, socket, retained, reverted>>
  BY DEF ValidateCandidate, WriteTemporary, SyncTemporary, diskVars, socketVars
<1>3. ValidConfiguration(document[r]) /\ Compatible(document[r])
  BY DEF ValidateCandidate, WriteTemporary, SyncTemporary, IInv, Custody
<1>4. ValidConfiguration(document[r])' /\ Compatible(document[r])'
  BY <1>2, <1>3 DEF ValidConfiguration, Authenticates, Compatible
<1>5. pc'[r] = "synced" => temporary'[r] = TRUE
  BY DEF ValidateCandidate, WriteTemporary, SyncTemporary, IInv, Types
<1>6. Custody(r)' /\ Printed(r)'
  BY <1>1, <1>2, <1>4, <1>5 DEF IInv, Custody, Printed, DaemonLabels
<1>7. \A q \in Runs \ {r} : pc[q] \in {"idle", "ended"}
  BY <1>1, Alone
<1>8. \A q \in Runs : Custody(q)' /\ Printed(q)'
  BY <1>1, <1>2, <1>6, <1>7, StepKeeps
<1> QED BY <1>1, <1>2, <1>8, DiskKeeps DEF IInv

\* The renamed file is whole and agrees with history, and only its own process may
\* have something to print about it.
LEMMA RenameStep ==
    ASSUME IInv, NEW r \in Runs, Rename(r) PROVE IInv'
<1>1. /\ pc[r] = "synced" /\ Custody(r) /\ Printed(r)
      /\ UNCHANGED <<durable, socket, retained, reverted>>
  BY DEF Rename, IInv
<1>2. Renamed(r) = File(r, document[r], TRUE) /\ Renamed(r) \in Files
  BY <1>1 DEF Renamed, Custody, File, Files, IInv, Types
<1>3. \A q \in Runs \ {r} : pc[q] \in {"idle", "ended"}
  BY <1>1, Alone
<1>4. visible' \in {visible, Renamed(r)}
  BY DEF Rename
<1>5. /\ visible' \in Files /\ visible'.whole = TRUE
      /\ visible'.by \in {visible.by, durable.by, r}
  <2>1. visible \in Files /\ Renamed(r).by = r
    BY <1>2 DEF IInv, Types, File
  <2>2. visible' \in Files /\ visible'.by \in {visible.by, durable.by, r}
    BY Zenon, <1>2, <1>4, <2>1
  <2> QED BY Zenon, <2>2, FileFacts
<1>6. InstalledCatalogueAgrees'
  <2>1. ValidConfiguration(document[r]) /\ Compatible(document[r])
    BY <1>1 DEF Custody
  <2>2. CASE visible' = visible
    BY <1>1, <2>2 DEF IInv, InstalledCatalogueAgrees
  <2>3. CASE visible' = Renamed(r)
    BY <1>1, <1>2, <2>1, <2>3
       DEF InstalledCatalogueAgrees, ValidConfiguration, Authenticates, Compatible, File
  <2> QED BY <1>4, <2>2, <2>3
<1>7. CASE /\ visible' = Renamed(r)
           /\ pc' = [pc EXCEPT ![r] = "renamed"]
           /\ UNCHANGED <<lease, document, temporary, outcome, stale, selected>>
  <2>1. Types' /\ pc'[r] = "renamed" /\ \A q \in Runs \ {r} : pc'[q] = pc[q]
    BY <1>1, <1>5, <1>7 DEF IInv, Types, Labels
  <2>2. Custody(r)' /\ Printed(r)'
    BY <1>1, <1>7, <2>1 DEF Custody, Printed, DaemonLabels
  <2>3. \A q \in Runs : Custody(q)' /\ Printed(q)'
    BY <1>1, <1>3, <1>5, <1>7, <2>1, <2>2, StepKeeps
  <2>4. OutcomeIsTrue'
    BY <1>1, <1>2, <1>5, <1>7, NoneAssumption DEF IInv, OutcomeIsTrue, Printed, File
  <2> QED BY <1>6, <2>1, <2>3, <2>4 DEF IInv
<1>8. CASE Conclude(r, "INDETERMINATE")
  <2>1. /\ Types' /\ pc'[r] = "ended" /\ outcome'[r] = "INDETERMINATE"
        /\ \A q \in Runs \ {r} : pc'[q] = pc[q] /\ outcome'[q] = outcome[q]
    BY <1>1, <1>5, <1>8, DocumentsAssumption DEF Conclude, End, IInv, Types, Labels
  <2>2. Custody(r)' /\ Printed(r)'
    BY <2>1 DEF Custody, Printed, DaemonLabels
  <2>3. \A q \in Runs : Custody(q)' /\ Printed(q)'
    BY <1>1, <1>3, <1>5, <2>1, <2>2, StepKeeps
  <2>4. OutcomeIsTrue'
    BY <1>1, <1>2, <1>4, <1>5, <2>1, NoneAssumption DEF IInv, OutcomeIsTrue, File
  <2> QED BY <1>6, <2>1, <2>3, <2>4 DEF IInv
<1> QED BY <1>7, <1>8 DEF Rename

\* PUBLISHED is printed only when the synced directory names the visible file.
LEMMA SyncDirectoryStep ==
    ASSUME IInv, NEW r \in Runs, SyncDirectory(r) PROVE IInv'
<1>1. PICK status \in {"PUBLISHED", "INDETERMINATE"} :
         /\ Conclude(r, status)
         /\ durable' = visible \/ durable' = durable
         /\ status = "PUBLISHED" => durable' = visible
  BY DEF SyncDirectory
<1>2. pc[r] = "renamed" /\ UNCHANGED <<visible, socket, retained, reverted>>
  BY DEF SyncDirectory
<1>3. /\ Types' /\ pc'[r] = "ended" /\ outcome'[r] = status
      /\ \A q \in Runs \ {r} : pc'[q] = pc[q] /\ outcome'[q] = outcome[q]
  BY <1>1, <1>2, DocumentsAssumption DEF Conclude, End, IInv, Types, Labels
<1>4. Custody(r)' /\ Printed(r)'
  BY <1>3 DEF Custody, Printed, DaemonLabels
<1>5. \A q \in Runs : Custody(q)' /\ Printed(q)'
  <2>1. \A q \in Runs \ {r} : pc[q] \in {"idle", "ended"}
    BY <1>2, Alone
  <2> QED BY <1>1, <1>2, <1>3, <1>4, <2>1, StepKeeps
<1>6. OutcomeIsTrue'
  BY <1>1, <1>2, <1>3 DEF IInv, OutcomeIsTrue
<1>7. InstalledCatalogueAgrees'
  BY <1>2 DEF IInv, InstalledCatalogueAgrees
<1> QED BY <1>3, <1>5, <1>6, <1>7 DEF IInv

\* Both files were synced, so that neither is torn; and whichever is found was not
\* written by a process that denied it.
LEMMA LosePowerStep ==
    ASSUME IInv, LosePower PROVE IInv'
<1>1. PICK f \in {visible, durable} :
         /\ visible' = [f EXCEPT !.whole = f.synced] /\ durable' = visible'
         /\ reverted' = (reverted \/ f # visible)
  BY DEF LosePower
<1>2. f \in Files /\ visible' = f
  <2>1. f \in Files
    BY <1>1 DEF IInv, Types
  <2> QED BY Zenon, <1>1, <2>1, FileFacts
<1>3. Types'
  BY Zenon, <1>1, <1>2, DocumentsAssumption DEF LosePower, IInv, Types, Labels
<1>4. ASSUME NEW q \in Runs PROVE Custody(q)' /\ Printed(q)'
  <2>1. pc'[q] \in {"idle", "ended"} /\ (pc'[q] = "idle" => pc[q] = "idle")
        /\ (pc[q] = "ended" => pc'[q] = "ended") /\ outcome' = outcome
    BY <1>4 DEF LosePower
  <2>2. Printed(q)
    BY DEF IInv
  <2> QED BY <1>1, <1>2, <2>1, <2>2 DEF Custody, Printed, DaemonLabels
<1>5. OutcomeIsTrue'
  BY <1>1, <1>2 DEF IInv, OutcomeIsTrue, LosePower, Files
<1>6. InstalledCatalogueAgrees'
  BY Zenon, <1>1, <1>2 DEF IInv, InstalledCatalogueAgrees, LosePower
<1> QED BY <1>3, <1>4, <1>5, <1>6 DEF IInv

-----------------------------------------------------------------------------
\* Every step keeps the invariant.
LEMMA NextIInv == IInv /\ [Next]_vars => IInv'
<1> SUFFICES ASSUME IInv, [Next]_vars PROVE IInv'
  OBVIOUS
<1>1. ASSUME NEW r \in Runs,
             \/ StartDaemon(r) \/ ReadDocument(r) \/ OpenApplications(r) \/ Stop(r)
             \/ StatSocket(r) \/ ConnectSocket(r) \/ StatSocketAgain(r) \/ UnlinkSocket(r)
             \/ BindSocket(r) \/ SecureSocket(r)
      PROVE  IInv'
  BY <1>1, StartDaemonStep, ReadDocumentStep, OpenApplicationsStep, StopStep,
     PrepareSocketStep, BindSocketStep, SecureSocketStep
<1>2. ASSUME NEW r \in Runs,
             \/ NotPublished(r) \/ ValidateCandidate(r) \/ WriteTemporary(r) \/ SyncTemporary(r)
             \/ Rename(r) \/ SyncDirectory(r) \/ Crash(r)
      PROVE  IInv'
  BY <1>2, NotPublishedStep, CandidateStep, RenameStep, SyncDirectoryStep, StopStep
<1>3. ASSUME NEW r \in Runs, NEW o \in Operations, SelectWork(r, o) PROVE IInv'
  BY <1>3, SelectWorkStep
<1>4. ASSUME NEW r \in Runs, NEW d \in Documents, StartPublisher(r, d) PROVE IInv'
  BY <1>4, StartPublisherStep
<1>5. CASE CleanRuntime \/ LosePower
  BY <1>5, CleanRuntimeStep, LosePowerStep
<1>6. CASE UNCHANGED vars
  <2>1. UNCHANGED <<runVars, diskVars, socketVars, retained, reverted, selected>>
    BY <1>6 DEF vars
  <2>2. Types'
    BY <2>1 DEF IInv, Types, runVars, diskVars
  <2>3. ASSUME NEW q \in Runs PROVE Custody(q)' /\ Printed(q)'
    <3>1. Custody(q) /\ Printed(q)
      BY DEF IInv
    <3>2. /\ ValidConfiguration(document[q])' <=> ValidConfiguration(document[q])
          /\ Compatible(document[q])' <=> Compatible(document[q])
      BY <2>1 DEF runVars, ValidConfiguration, Authenticates, Compatible
    <3> QED BY <2>1, <3>1, <3>2 DEF Custody, Printed, runVars, diskVars, socketVars
  <2> QED BY <2>1, <2>2, <2>3, DiskKeeps DEF IInv, runVars, diskVars
<1> QED BY <1>1, <1>2, <1>3, <1>4, <1>5, <1>6 DEF Next

\* The inductive invariant holds in every behaviour.
THEOREM InstallationInvariant == Spec => []IInv
BY InitIInv, NextIInv, PTL DEF Spec

\* For any number of processes: operator.json is always whole, PUBLISHED is durable, and
\* NOT_PUBLISHED was never installed.
THEOREM InstallationOutcomeIsTrue == Spec => []OutcomeIsTrue
<1>1. IInv => OutcomeIsTrue
  BY DEF IInv
<1> QED BY <1>1, InstallationInvariant, PTL

\* Two daemons never serve at once, and the one that serves owns the socket that clients
\* find and the document that is installed, however many starts raced.
THEOREM InstallationServingIsReachable == Spec => []ServingIsReachable
<1>1. IInv => ServingIsReachable
  BY Zenon DEF IInv, Custody, ServingIsReachable, DaemonLabels
<1> QED BY <1>1, InstallationInvariant, PTL

\* No replacement installs a catalogue that contradicts the retained history.
THEOREM InstallationCatalogueAgrees == Spec => []InstalledCatalogueAgrees
<1>1. IInv => InstalledCatalogueAgrees
  BY DEF IInv
<1> QED BY <1>1, InstallationInvariant, PTL

\* Work runs under its original grant, and under trust that is appointed now.
THEOREM InstallationOriginalAuthority == Spec => SelectionHasOriginalAuthority
<1> DEFINE Chosen ==
      selected' # selected /\ selected'.by # None =>
         /\ retained[selected'.operation] \in {None, selected'.grant}
         /\ selected'.grant.key \in document[selected'.by].trust
<1>1. ASSUME IInv, [Next]_vars PROVE Chosen
  <2>1. ASSUME NEW r \in Runs, NEW o \in Operations, SelectWork(r, o) PROVE Chosen
    <3>1. PICK g \in Select(document[r], o) :
             selected' = [by |-> r, operation |-> o, grant |-> g]
      BY <2>1 DEF SelectWork
    <3>2. ValidConfiguration(document[r])
      BY <1>1, <2>1 DEF SelectWork, IInv, Custody, DaemonLabels
    <3> QED BY <3>1, <3>2 DEF Select, Authenticates, ValidConfiguration
  <2>2. CASE ~ \E r \in Runs, o \in Operations : SelectWork(r, o)
    <3>1. ASSUME NEW r \in Runs,
                 \/ StartDaemon(r) \/ ReadDocument(r) \/ OpenApplications(r) \/ Stop(r)
                 \/ StatSocket(r) \/ ConnectSocket(r) \/ StatSocketAgain(r) \/ UnlinkSocket(r)
                 \/ BindSocket(r) \/ SecureSocket(r)
          PROVE  selected' = selected \/ selected' = NoSelection
      BY Zenon, <3>1 DEF StartDaemon, ReadDocument, OpenApplications, Stop, StatSocket,
         ConnectSocket, StatSocketAgain, UnlinkSocket, BindSocket, SecureSocket, Proceed, End
    <3>2. ASSUME NEW r \in Runs,
                 \/ NotPublished(r) \/ ValidateCandidate(r) \/ WriteTemporary(r)
                 \/ SyncTemporary(r) \/ Rename(r) \/ SyncDirectory(r) \/ Crash(r)
                 \/ \E d \in Documents : StartPublisher(r, d)
          PROVE  selected' = selected \/ selected' = NoSelection
      BY Zenon, <3>2 DEF NotPublished, ValidateCandidate, WriteTemporary, SyncTemporary, Rename,
         SyncDirectory, Crash, StartPublisher, Proceed, End, Conclude
    <3>3. ASSUME CleanRuntime \/ LosePower \/ UNCHANGED vars
          PROVE  selected' = selected \/ selected' = NoSelection
      BY Zenon, <3>3 DEF CleanRuntime, LosePower, vars
    <3>4. selected' = selected \/ selected' = NoSelection
      BY Zenon, <1>1, <2>2, <3>1, <3>2, <3>3 DEF Next
    <3> QED BY <3>4 DEF NoSelection
  <2> QED BY <2>1, <2>2
<1>2. IInv /\ [Next]_vars => [Chosen]_vars
  BY <1>1
<1>3. Spec => [][Chosen]_vars
  BY <1>2, InstallationInvariant, PTL DEF Spec
<1> QED BY <1>3 DEF SelectionHasOriginalAuthority

-----------------------------------------------------------------------------
(* Opening the journal: JournalOpening for any number of runs, rows,       *)
(* crashes and losses.  A place is a label of an open.                     *)

CONSTANTS Rows, MaxCrashes, MaxLosses

VARIABLES owner, file, rows, sidecar, dirty, tx, lockFile, place, fresh, crashes, losses,
          confirmed, validated

Opened == INSTANCE JournalOpening WITH Processes <- Runs, pc <- place

Places ==
    {"closed", "locked", "checked", "opened", "recovered", "fresh", "initializing",
     "connected", "ready"}

OpeningTypes ==
    /\ owner \in Runs \cup {None}
    /\ file \in {"absent", "empty", "formatted"}
    /\ sidecar \in {"none", "short", "zero", "valid"}
    /\ dirty \in BOOLEAN
    /\ tx \in [by : Runs \cup {None}, writes : Rows \cup {"schema", None},
                                    synced : BOOLEAN]
    /\ lockFile \in BOOLEAN
    /\ place \in [Runs -> Places]
    /\ fresh \in [Runs -> BOOLEAN]

\* What a live transaction has put on disk: the lock keeps every recovery away, so its
\* journal is there, with a valid header from the moment it is synced.
TransactionFits ==
    tx.by # None =>
       /\ owner = tx.by
       /\ place[tx.by] \in {"initializing", "ready"}
       /\ sidecar \in IF tx.synced THEN {"valid"} ELSE {"short", "zero"}
       /\ dirty => tx.synced

\* What an open has established at each label.  It found nothing beside a database that
\* it takes for a fresh one, and so no row of it was ever confirmed.
OpenFits(p) ==
    /\ place[p] # "closed" => owner = p
    /\ place[p] = "checked" /\ (file = "absent" \/ Opened!ZeroLength) => ~lockFile
    /\ place[p] \in {"opened", "recovered"} /\ fresh[p] => ~lockFile
    /\ place[p] \in {"fresh", "initializing"} => ~lockFile
    /\ place[p] \in {"connected", "ready"} => file = "formatted"
    /\ place[p] = "ready" => lockFile

\* The worker lock file is older than the first row, and the rows of a database that
\* was not lost include the confirmed ones.
HistoryFits ==
    /\ confirmed # {} => lockFile
    /\ file = "formatted" => confirmed \subseteq rows

OpeningInv ==
    /\ OpeningTypes
    /\ TransactionFits
    /\ Opened!PagesAreProtected
    /\ HistoryFits
    /\ \A p \in Runs : OpenFits(p)

-----------------------------------------------------------------------------
(* Every action preserves it.                                              *)

\* An error return keeps the inductive invariant.
LEMMA FailStep ==
    ASSUME OpeningInv, NEW p \in Runs, place[p] # "closed", tx.by # p, Opened!Fail(p)
    PROVE  OpeningInv'
BY NoneAssumption DEF OpeningInv, OpeningTypes, Places, TransactionFits,
   Opened!PagesAreProtected, HistoryFits,
    OpenFits, Opened!ZeroLength,
   Opened!Fail, Opened!To, Opened!fileVars, Opened!boundVars, Opened!historyVars

\* AcquireLifecycle keeps the inductive invariant.
LEMMA AcquireStep ==
    ASSUME OpeningInv, NEW p \in Runs, Opened!AcquireLifecycle(p)
    PROVE  OpeningInv'
BY NoneAssumption DEF OpeningInv, OpeningTypes, Places, TransactionFits,
   Opened!PagesAreProtected, HistoryFits,
    OpenFits, Opened!ZeroLength,
   Opened!AcquireLifecycle, Opened!To, Opened!fileVars, Opened!boundVars, Opened!historyVars

\* CheckArtifacts keeps the inductive invariant.
LEMMA CheckStep ==
    ASSUME OpeningInv, NEW p \in Runs, Opened!CheckArtifacts(p)
    PROVE  OpeningInv'
<1>1. CASE /\ file = "absent" \/ Opened!ZeroLength => Opened!NoHistoryArtifacts
           /\ Opened!To(p, "checked")
           /\ UNCHANGED <<owner, Opened!fileVars, fresh, Opened!boundVars, Opened!historyVars>>
  BY <1>1, NoneAssumption
  DEF OpeningInv, OpeningTypes, Places, TransactionFits, Opened!PagesAreProtected,
     HistoryFits, OpenFits,
     Opened!ZeroLength,
      Opened!CheckArtifacts, Opened!NoHistoryArtifacts, Opened!To, Opened!fileVars,
      Opened!boundVars, Opened!historyVars
<1>2. CASE Opened!Fail(p)
  BY <1>2, FailStep, NoneAssumption DEF Opened!CheckArtifacts, OpeningInv, TransactionFits
<1> QED
  BY <1>1, <1>2 DEF Opened!CheckArtifacts

\* OpenFile keeps the inductive invariant.
LEMMA OpenStep ==
    ASSUME OpeningInv, NEW p \in Runs, Opened!OpenFile(p)
    PROVE  OpeningInv'
<1>1. CASE /\ file' = IF file = "absent" THEN "empty" ELSE file
           /\ fresh' = [fresh EXCEPT ![p] = file = "absent" \/ Opened!ZeroLength]
           /\ Opened!To(p, "opened")
           /\ UNCHANGED <<owner, rows, sidecar, dirty, tx, lockFile, Opened!boundVars,
                          Opened!historyVars>>
  <2>1. /\ fresh' \in [Runs -> BOOLEAN]
        /\ \A q \in Runs \ {p} : fresh'[q] = fresh[q]
        /\ fresh'[p] => file = "absent" \/ Opened!ZeroLength
    BY Zenon, <1>1 DEF OpeningInv, OpeningTypes, Opened!ZeroLength
  <2>2. place[p] = "checked"
    BY DEF Opened!OpenFile
  <2> QED
    BY <1>1, <2>1, <2>2, NoneAssumption
    DEF OpeningInv, OpeningTypes, Places, TransactionFits, Opened!PagesAreProtected,
       HistoryFits, OpenFits,
        Opened!ZeroLength, Opened!To, Opened!fileVars, Opened!boundVars, Opened!historyVars
<1>2. CASE Opened!Fail(p)
  BY <1>2, FailStep, NoneAssumption DEF Opened!OpenFile, OpeningInv, TransactionFits
<1> QED
  BY <1>1, <1>2 DEF Opened!OpenFile

\* Recover keeps the inductive invariant: the lock keeps it from a live transaction.
LEMMA RecoverStep ==
    ASSUME OpeningInv, NEW p \in Runs, Opened!Recover(p)
    PROVE  OpeningInv'
<1>1. place[p] = "opened" /\ tx.by = None
  BY NoneAssumption DEF Opened!Recover, OpeningInv, OpeningTypes, TransactionFits, OpenFits
<1>2. CASE sidecar = "short"
  <2>1. Opened!Fail(p)
    BY <1>2 DEF Opened!Recover
  <2> QED
    BY <1>1, <2>1, FailStep, NoneAssumption
<1>3. CASE sidecar # "short"
  <2>1. /\ place' = [place EXCEPT ![p] = "recovered"]
        /\ UNCHANGED <<owner, file, rows, lockFile, fresh, confirmed>>
    BY <1>3 DEF Opened!Recover, Opened!To, Opened!fileVars, Opened!historyVars
  <2>2. tx \in [by : {None}, writes : Rows \cup {"schema", None}, synced : BOOLEAN]
    BY <1>1 DEF OpeningInv, OpeningTypes
  <2>3. Opened!NoTransaction \in
           [by : {None}, writes : Rows \cup {"schema", None}, synced : BOOLEAN]
    BY DEF Opened!NoTransaction
  <2>4. /\ sidecar' = "none" /\ dirty' = FALSE
        /\ tx' \in [by : {None}, writes : Rows \cup {"schema", None}, synced : BOOLEAN]
    BY <1>3, <2>2, <2>3 DEF Opened!Recover, Opened!EndTransaction, OpeningInv, OpeningTypes,
       Opened!PagesAreProtected, Opened!fileVars
  <2> QED
    BY <1>1, <2>1, <2>4, NoneAssumption
    DEF OpeningInv, OpeningTypes, Places, TransactionFits, Opened!PagesAreProtected,
       HistoryFits, OpenFits,
       Opened!ZeroLength
<1> QED
  BY <1>2, <1>3

\* Connect keeps the inductive invariant.
LEMMA ConnectStep ==
    ASSUME OpeningInv, NEW p \in Runs, Opened!Connect(p)
    PROVE  OpeningInv'
BY NoneAssumption DEF OpeningInv, OpeningTypes, Places, TransactionFits,
   Opened!PagesAreProtected, HistoryFits,
    OpenFits, Opened!ZeroLength,
   Opened!Connect, Opened!Fail, Opened!To, Opened!fileVars, Opened!boundVars, Opened!historyVars

\* BeginInitialization keeps the inductive invariant.
LEMMA BeginInitializationStep ==
    ASSUME OpeningInv, NEW p \in Runs, Opened!BeginInitialization(p)
    PROVE  OpeningInv'
BY NoneAssumption DEF OpeningInv, OpeningTypes, Places, TransactionFits,
   Opened!PagesAreProtected, HistoryFits,
    OpenFits, Opened!ZeroLength,
   Opened!BeginInitialization, Opened!Begin, Opened!To, Opened!fileVars, Opened!boundVars,
   Opened!historyVars

\* CommitInitialization keeps the inductive invariant: no row was confirmed before it.
LEMMA CommitInitializationStep ==
    ASSUME OpeningInv, NEW p \in Runs, Opened!CommitInitialization(p)
    PROVE  OpeningInv'
BY NoneAssumption DEF OpeningInv, OpeningTypes, Places, TransactionFits,
   Opened!PagesAreProtected, HistoryFits,
    OpenFits, Opened!ZeroLength,
   Opened!CommitInitialization, Opened!EndTransaction, Opened!NoTransaction, Opened!To,
   Opened!fileVars, Opened!boundVars, Opened!historyVars

\* ValidateAndLock keeps the inductive invariant.
LEMMA LockStep ==
    ASSUME OpeningInv, NEW p \in Runs, Opened!ValidateAndLock(p)
    PROVE  OpeningInv'
BY NoneAssumption DEF OpeningInv, OpeningTypes, Places, TransactionFits,
   Opened!PagesAreProtected, HistoryFits,
    OpenFits, Opened!ZeroLength,
   Opened!ValidateAndLock, Opened!To, Opened!fileVars, Opened!boundVars, Opened!historyVars

\* ValidateReplacement keeps the inductive invariant.
LEMMA ReplacementStep ==
    ASSUME OpeningInv, NEW p \in Runs, Opened!ValidateReplacement(p)
    PROVE  OpeningInv'
BY NoneAssumption DEF OpeningInv, OpeningTypes, Places, TransactionFits,
   Opened!PagesAreProtected, HistoryFits,
    OpenFits, Opened!ZeroLength,
   Opened!ValidateReplacement, Opened!To, Opened!fileVars, Opened!boundVars, Opened!historyVars

\* BeginWrite keeps the inductive invariant.
LEMMA BeginWriteStep ==
    ASSUME OpeningInv, NEW p \in Runs, NEW row \in Rows, Opened!BeginWrite(p, row)
    PROVE  OpeningInv'
BY NoneAssumption DEF OpeningInv, OpeningTypes, Places, TransactionFits,
   Opened!PagesAreProtected, HistoryFits,
    OpenFits, Opened!ZeroLength,
   Opened!BeginWrite, Opened!Begin, Opened!To, Opened!fileVars, Opened!boundVars,
   Opened!historyVars

\* WriteHeader keeps the inductive invariant.
LEMMA HeaderStep ==
    ASSUME OpeningInv, NEW p \in Runs, Opened!WriteHeader(p)
    PROVE  OpeningInv'
BY NoneAssumption DEF OpeningInv, OpeningTypes, Places, TransactionFits,
   Opened!PagesAreProtected, HistoryFits,
    OpenFits, Opened!ZeroLength,
   Opened!WriteHeader, Opened!fileVars, Opened!boundVars, Opened!historyVars

\* SyncJournal keeps the inductive invariant.
LEMMA SyncStep ==
    ASSUME OpeningInv, NEW p \in Runs, Opened!SyncJournal(p)
    PROVE  OpeningInv'
BY NoneAssumption DEF OpeningInv, OpeningTypes, Places, TransactionFits,
   Opened!PagesAreProtected, HistoryFits,
    OpenFits, Opened!ZeroLength,
   Opened!SyncJournal, Opened!To, Opened!fileVars, Opened!boundVars, Opened!historyVars

\* WritePages keeps the inductive invariant.
LEMMA PagesStep ==
    ASSUME OpeningInv, NEW p \in Runs, Opened!WritePages(p)
    PROVE  OpeningInv'
BY NoneAssumption DEF OpeningInv, OpeningTypes, Places, TransactionFits,
   Opened!PagesAreProtected, HistoryFits,
    OpenFits, Opened!ZeroLength,
   Opened!WritePages, Opened!To, Opened!fileVars, Opened!boundVars, Opened!historyVars

\* CommitWrite keeps the inductive invariant: the row it confirms is in the database.
LEMMA CommitWriteStep ==
    ASSUME OpeningInv, NEW p \in Runs, Opened!CommitWrite(p)
    PROVE  OpeningInv'
BY NoneAssumption DEF OpeningInv, OpeningTypes, Places, TransactionFits,
   Opened!PagesAreProtected, HistoryFits,
    OpenFits, Opened!ZeroLength,
   Opened!CommitWrite, Opened!EndTransaction, Opened!NoTransaction, Opened!To,
   Opened!fileVars, Opened!boundVars, Opened!historyVars

\* Close keeps the inductive invariant.
LEMMA CloseStep ==
    ASSUME OpeningInv, NEW p \in Runs, Opened!Close(p)
    PROVE  OpeningInv'
BY NoneAssumption DEF OpeningInv, OpeningTypes, Places, TransactionFits,
   Opened!PagesAreProtected, HistoryFits,
    OpenFits, Opened!ZeroLength,
   Opened!Close, Opened!Fail, Opened!To, Opened!fileVars, Opened!boundVars, Opened!historyVars

\* Crash keeps the inductive invariant.
LEMMA CrashStep ==
    ASSUME OpeningInv, NEW p \in Runs, Opened!Crash(p)
    PROVE  OpeningInv'
<1>1. /\ place[p] # "closed" /\ owner = p /\ owner' = None
      /\ place' = [place EXCEPT ![p] = "closed"]
      /\ \A q \in Runs \ {p} : place[q] = "closed"
      /\ UNCHANGED <<file, rows, sidecar, dirty, lockFile, fresh, confirmed>>
  BY NoneAssumption DEF Opened!Crash, Opened!To, OpeningInv, OpeningTypes, OpenFits,
     Opened!historyVars
<1>2. tx' \in [by : {None}, writes : Rows \cup {"schema", None}, synced : BOOLEAN]
  <2>1. tx.by \in {p, None}
    BY <1>1 DEF OpeningInv, OpeningTypes, TransactionFits
  <2> QED
    BY <2>1 DEF Opened!Crash, OpeningInv, OpeningTypes
<1> QED
  BY <1>1, <1>2, NoneAssumption
  DEF OpeningInv, OpeningTypes, Places, TransactionFits, Opened!PagesAreProtected,
     HistoryFits, OpenFits,
     Opened!ZeroLength

\* LoseDatabase keeps the inductive invariant.
LEMMA LossStep == OpeningInv /\ Opened!LoseDatabase => OpeningInv'
<1> SUFFICES ASSUME OpeningInv, Opened!LoseDatabase PROVE OpeningInv'
  OBVIOUS
<1>1. tx.by = None /\ \A p \in Runs : place[p] = "closed"
  BY NoneAssumption DEF Opened!LoseDatabase, OpeningInv, OpeningTypes, TransactionFits, OpenFits
<1> QED
  BY <1>1
  DEF OpeningInv, OpeningTypes, TransactionFits, Opened!PagesAreProtected, HistoryFits,
     OpenFits, Opened!LoseDatabase,
      Opened!historyVars

-----------------------------------------------------------------------------
(* The theorems.                                                           *)

\* Init establishes the inductive invariant.
LEMMA OpeningInit == Opened!Init => OpeningInv
<1> SUFFICES ASSUME Opened!Init PROVE OpeningInv
  OBVIOUS
<1>1. OpeningTypes
  BY DEF Opened!Init, Opened!NoTransaction, OpeningTypes, Places
<1>2. tx.by = None /\ \A p \in Runs : place[p] = "closed"
  BY DEF Opened!Init, Opened!NoTransaction
<1> QED
  BY <1>1, <1>2
  DEF Opened!Init, OpeningInv, TransactionFits, Opened!PagesAreProtected, HistoryFits, OpenFits

\* Every step keeps the inductive invariant.
LEMMA OpeningNext == OpeningInv /\ [Opened!Next]_(Opened!vars) => OpeningInv'
<1> SUFFICES ASSUME OpeningInv, [Opened!Next]_(Opened!vars) PROVE OpeningInv'
  OBVIOUS
<1>1. ASSUME NEW p \in Runs, Opened!Opening(p) PROVE OpeningInv'
  BY <1>1, AcquireStep, CheckStep, OpenStep, RecoverStep, ConnectStep,
     BeginInitializationStep, CommitInitializationStep, LockStep DEF Opened!Opening
<1>2. ASSUME NEW p \in Runs, Opened!Writing(p) PROVE OpeningInv'
  BY <1>2, HeaderStep, SyncStep, PagesStep, CommitWriteStep DEF Opened!Writing
<1>3. CASE UNCHANGED Opened!vars
  BY <1>3
  DEF Opened!vars, Opened!fileVars, Opened!boundVars, Opened!historyVars, OpeningInv,
     OpeningTypes, TransactionFits,
      Opened!PagesAreProtected, HistoryFits, OpenFits, Opened!ZeroLength
<1> QED
  BY <1>1, <1>2, <1>3, CloseStep, CrashStep, ReplacementStep, BeginWriteStep,
     LossStep DEF Opened!Next

\* The inductive invariant holds in every reachable state.
THEOREM OpeningInvariance == Opened!Spec => []OpeningInv
BY OpeningInit, OpeningNext, PTL DEF Opened!Spec

\* No process ever serves a journal that lacks a confirmed row, however many
\* processes open it, die and lose the database (open_journal).
THEOREM HistoryKept == Opened!Spec => []Opened!HistoryIsKept
<1>1. OpeningInv => Opened!HistoryIsKept
  BY DEF OpeningInv, HistoryFits, OpenFits, Opened!HistoryIsKept
<1> QED
  BY <1>1, OpeningInvariance, PTL

\* Database pages are never on disk without a journal that can undo them, whatever
\* recoveries run (recover_private_rollback_journal).
THEOREM PagesProtected == Opened!Spec => []Opened!PagesAreProtected
<1>1. OpeningInv => Opened!PagesAreProtected
  BY DEF OpeningInv
<1> QED
  BY <1>1, OpeningInvariance, PTL

\* Every cold validation that accepts a journal has read every confirmed row
\* (open_validation_snapshot).
THEOREM ValidationSees == Opened!Spec => Opened!ValidationSeesHistory
<1>1. OpeningInv /\ [Opened!Next]_(Opened!vars) =>
         [validated' # validated /\ validated'.kind # "refused"
             => confirmed \subseteq validated'.rows]_(Opened!vars)
  <2> SUFFICES ASSUME OpeningInv, Opened!Next, validated' # validated,
                      validated'.kind # "refused"
               PROVE  confirmed \subseteq validated'.rows
    OBVIOUS
  <2>1. PICK p \in Runs : Opened!ValidateReplacement(p)
    BY DEF Opened!Next, Opened!Opening, Opened!Writing, Opened!AcquireLifecycle,
       Opened!CheckArtifacts, Opened!OpenFile, Opened!Recover, Opened!Connect,
       Opened!BeginInitialization, Opened!CommitInitialization, Opened!ValidateAndLock,
       Opened!BeginWrite, Opened!WriteHeader, Opened!SyncJournal,
       Opened!WritePages, Opened!CommitWrite, Opened!Close, Opened!Crash,
       Opened!LoseDatabase, Opened!Fail, Opened!historyVars
  <2> QED
    BY <2>1 DEF Opened!ValidateReplacement, Opened!NoHistoryArtifacts, OpeningInv, HistoryFits
<1> QED
  BY <1>1, OpeningInvariance, PTL DEF Opened!Spec, Opened!ValidationSeesHistory
=============================================================================
