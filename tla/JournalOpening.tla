--------------------------- MODULE JournalOpening ---------------------------
(***************************************************************************)
(* Opening the journal file (src/gateway/journal/opening.rs).              *)
(*                                                                         *)
(* Processes take the installation's lifecycle lock, open the journal,     *)
(* initialise it if it is fresh, admit rows, and may die at any point; a   *)
(* cold replacement takes the same lock and only reads.  SQLite runs in    *)
(* rollback mode: a transaction creates the "-journal" file, writes a zero *)
(* header, syncs it (the header becomes valid), writes database pages and  *)
(* commits by deleting the file.  A file with a valid header and no writer *)
(* is hot: the next connection rolls it back.  SQLite leaves alone one     *)
(* with a zero header or without one.  The database file may also be lost  *)
(* while the files beside it survive.                                      *)
(*                                                                         *)
(* File modes, owners, links, sizes, foreign versions and WAL sidecars     *)
(* only ever refuse an open, and are left out.                             *)
(***************************************************************************)
EXTENDS Naturals, FiniteSets

CONSTANTS
    Processes,
    Rows,           \* rows that may be admitted
    MaxCrashes,     \* bound: process deaths
    MaxLosses,      \* bound: losses of the database file
    None

ASSUME BoundsAssumption == MaxCrashes \in Nat /\ MaxLosses \in Nat
ASSUME NoneAssumption == None \notin Processes

VARIABLES
    owner,          \* who holds the lifecycle lock
    file,           \* the database: absent, empty or formatted (journal format 6)
    rows,           \* the rows of its last committed transaction
    sidecar,        \* the "-journal" file: none, short (its header is not written yet),
                    \* or with a zero or a valid header
    dirty,          \* whether an unfinished transaction has written database pages
    tx,             \* the transaction under way: its process and what it writes
    lockFile,       \* whether the worker lock file exists
    pc,             \* process -> where it is
    fresh,          \* process -> whether it took the database for a fresh one
    crashes, losses,
    confirmed,      \* history: rows whose commit was confirmed
    validated       \* history: what the last cold validation accepted

fileVars == <<file, rows, sidecar, dirty, tx, lockFile>>
boundVars == <<crashes, losses>>
historyVars == <<confirmed, validated>>
vars == <<owner, fileVars, pc, fresh, boundVars, historyVars>>

NoTransaction == [by |-> None, writes |-> None, synced |-> FALSE]

\* The database file has no bytes; a first transaction may have grown it.
ZeroLength == file = "empty" /\ ~dirty

To(p, label) == pc' = [pc EXCEPT ![p] = label]

\* Every error return of an open ends the process's start, and so its lock.
Fail(p) ==
    /\ owner' = None
    /\ To(p, "closed")
    /\ UNCHANGED <<fileVars, fresh, boundVars, historyVars>>

\* A commit deletes the journal, and so does the rollback of a dead writer's.
EndTransaction == sidecar' = "none" /\ dirty' = FALSE /\ tx' = NoTransaction

-----------------------------------------------------------------------------
(* open_journal.                                                           *)

\* Mutant of AcquireLifecycle: the lock is not waited for.
AcquireWithoutLock(p) ==
    /\ pc[p] = "closed"
    /\ owner' = p
    /\ To(p, "locked")
    /\ UNCHANGED <<fileVars, fresh, boundVars, historyVars>>

AcquireLifecycle(p) ==
    /\ pc[p] = "closed" /\ owner = None
    /\ owner' = p
    /\ To(p, "locked")
    /\ UNCHANGED <<fileVars, fresh, boundVars, historyVars>>

\* Mutant of NoHistoryArtifacts: a surviving worker lock is no evidence of history.
ArtifactsWithoutLock == sidecar = "none"

\* require_no_history_artifacts
NoHistoryArtifacts == ~lockFile /\ sidecar = "none"

\* A missing or empty database is fresh only if nothing survives beside it.
CheckArtifacts(p) ==
    /\ pc[p] = "locked"
    /\ IF file = "absent" \/ ZeroLength => NoHistoryArtifacts
       THEN To(p, "checked") /\ UNCHANGED <<owner, fileVars, fresh, boundVars, historyVars>>
       ELSE Fail(p)

\* open_private_file creates a missing file.  The pages of an unfinished first
\* transaction may show a complete header (with its version) or be refused.
OpenFile(p) ==
    /\ pc[p] = "checked"
    /\ \/ /\ file' = IF file = "absent" THEN "empty" ELSE file
          /\ fresh' = [fresh EXCEPT ![p] = file = "absent" \/ ZeroLength]
          /\ To(p, "opened")
          /\ UNCHANGED <<owner, rows, sidecar, dirty, tx, lockFile, boundVars, historyVars>>
       \/ file = "empty" /\ dirty /\ Fail(p)

\* Mutant of Recover: a journal that SQLite leaves alone is refused.
RecoverHotOnly(p) ==
    /\ pc[p] = "opened"
    /\ \/ /\ sidecar = "none"
          /\ To(p, "recovered")
          /\ UNCHANGED <<owner, fileVars, fresh, boundVars, historyVars>>
       \/ /\ sidecar = "valid" /\ tx.by = None
          /\ EndTransaction
          /\ To(p, "recovered")
          /\ UNCHANGED <<owner, file, rows, lockFile, fresh, boundVars, historyVars>>
       \/ sidecar \in {"short", "zero"} /\ Fail(p)

\* recover_private_rollback_journal: SQLite rolls a hot journal back, and a journal
\* it left alone is removed if its header is zero, and refused if it is too short to
\* hold one.  (CheckArtifacts already refused a journal beside an empty database.)
Recover(p) ==
    /\ pc[p] = "opened"
    /\ \/ /\ sidecar = "none"
          /\ To(p, "recovered")
          /\ UNCHANGED <<owner, fileVars, fresh, boundVars, historyVars>>
       \/ /\ sidecar = "valid" /\ tx.by = None
          /\ EndTransaction
          /\ To(p, "recovered")
          /\ UNCHANGED <<owner, file, rows, lockFile, fresh, boundVars, historyVars>>
       \/ /\ sidecar = "zero"
          /\ sidecar' = "none"
          /\ tx' = IF tx.by = None THEN NoTransaction ELSE tx
          /\ To(p, "recovered")
          /\ UNCHANGED <<owner, file, rows, dirty, lockFile, fresh, boundVars, historyVars>>
       \/ sidecar = "short" /\ Fail(p)

\* The version is read again after recovery, and once more from the connection: a
\* rolled back first transaction leaves an empty file, which this open refuses.
Connect(p) ==
    /\ pc[p] = "recovered"
    /\ IF fresh[p] \/ file = "formatted"
       THEN /\ To(p, IF fresh[p] THEN "fresh" ELSE "connected")
            /\ UNCHANGED <<owner, fileVars, fresh, boundVars, historyVars>>
       ELSE Fail(p)

Begin(p, what) ==
    /\ tx.by = None
    /\ sidecar' = "short" /\ dirty' = FALSE
    /\ tx' = [by |-> p, writes |-> what, synced |-> FALSE]

\* initialize_journal: both tables and the version in one exclusive transaction.
BeginInitialization(p) ==
    /\ pc[p] = "fresh" /\ file = "empty"
    /\ Begin(p, "schema")
    /\ To(p, "initializing")
    /\ UNCHANGED <<owner, file, rows, lockFile, fresh, boundVars, historyVars>>

CommitInitialization(p) ==
    /\ pc[p] = "initializing" /\ dirty
    /\ EndTransaction
    /\ file' = "formatted" /\ rows' = {}
    /\ To(p, "connected")
    /\ UNCHANGED <<owner, lockFile, fresh, boundVars, historyVars>>

\* require_valid_snapshot, then the worker lock file is created or opened.
ValidateAndLock(p) ==
    /\ pc[p] = "connected"
    /\ lockFile' = TRUE
    /\ To(p, "ready")
    /\ UNCHANGED <<owner, file, rows, sidecar, dirty, tx, fresh, boundVars, historyVars>>

\* Mutant of ValidateReplacement: a missing database is taken for a fresh installation.
ValidateAnyAbsence(p) ==
    /\ pc[p] = "closed" /\ owner = None
    /\ validated' =
          IF file = "absent" THEN [kind |-> "absent", rows |-> {}]
          ELSE IF file = "formatted" /\ sidecar = "none" THEN [kind |-> "snapshot", rows |-> rows]
          ELSE [kind |-> "refused", rows |-> {}]
    /\ UNCHANGED <<owner, fileVars, pc, fresh, boundVars, confirmed>>

\* open_validation_snapshot, for a cold replacement under the lifecycle lock: any
\* sidecar, an empty file or lost history is refused, and no file is touched.
ValidateReplacement(p) ==
    /\ pc[p] = "closed" /\ owner = None
    /\ validated' =
          IF file = "absent" /\ NoHistoryArtifacts THEN [kind |-> "absent", rows |-> {}]
          ELSE IF file = "formatted" /\ sidecar = "none" THEN [kind |-> "snapshot", rows |-> rows]
          ELSE [kind |-> "refused", rows |-> {}]
    /\ UNCHANGED <<owner, fileVars, pc, fresh, boundVars, confirmed>>

-----------------------------------------------------------------------------
(* Writing.                                                                *)

BeginWrite(p, row) ==
    /\ pc[p] = "ready" /\ row \notin rows
    /\ Begin(p, row)
    /\ UNCHANGED <<owner, file, rows, lockFile, pc, fresh, boundVars, historyVars>>

\* The journal was created empty; its header is the first thing written to it.
WriteHeader(p) ==
    /\ tx.by = p /\ sidecar = "short"
    /\ sidecar' = "zero"
    /\ UNCHANGED <<owner, file, rows, dirty, tx, lockFile, pc, fresh, boundVars, historyVars>>

\* synchronous=FULL: the journal is on disk before any page.
SyncJournal(p) ==
    /\ tx.by = p /\ ~tx.synced /\ sidecar # "short"
    /\ tx' = [tx EXCEPT !.synced = TRUE]
    /\ sidecar' = IF sidecar = "zero" THEN "valid" ELSE sidecar
    /\ UNCHANGED <<owner, file, rows, dirty, lockFile, pc, fresh, boundVars, historyVars>>

\* Pages are written when the transaction commits (cache_spill is off).
WritePages(p) ==
    /\ tx.by = p /\ tx.synced /\ ~dirty
    /\ dirty' = TRUE
    /\ UNCHANGED <<owner, file, rows, sidecar, tx, lockFile, pc, fresh, boundVars, historyVars>>

\* The caller may or may not learn of the commit.
CommitWrite(p) ==
    /\ pc[p] = "ready" /\ tx.by = p /\ dirty
    /\ EndTransaction
    /\ rows' = rows \cup {tx.writes}
    /\ confirmed' \in {confirmed, confirmed \cup {tx.writes}}
    /\ UNCHANGED <<owner, file, lockFile, pc, fresh, boundVars, validated>>

Close(p) == pc[p] = "ready" /\ tx.by # p /\ Fail(p)

\* The process dies, and with it its lifecycle lock.
Crash(p) ==
    /\ pc[p] # "closed" /\ crashes < MaxCrashes
    /\ crashes' = crashes + 1
    /\ owner' = None
    /\ To(p, "closed")
    /\ tx' = IF tx.by = p THEN [tx EXCEPT !.by = None] ELSE tx
    /\ UNCHANGED <<file, rows, sidecar, dirty, lockFile, fresh, losses, historyVars>>

\* The database file is lost or truncated while nothing has it open.
LoseDatabase ==
    /\ losses < MaxLosses /\ owner = None
    /\ losses' = losses + 1
    /\ file' \in {"absent", "empty"} /\ rows' = {} /\ dirty' = FALSE
    /\ UNCHANGED <<owner, sidecar, tx, lockFile, pc, fresh, crashes, historyVars>>

-----------------------------------------------------------------------------
Opening(p) ==
    \/ AcquireLifecycle(p) \/ CheckArtifacts(p) \/ OpenFile(p) \/ Recover(p) \/ Connect(p)
    \/ BeginInitialization(p) \/ CommitInitialization(p) \/ ValidateAndLock(p)

Writing(p) == WriteHeader(p) \/ SyncJournal(p) \/ WritePages(p) \/ CommitWrite(p)

Init ==
    /\ owner = None
    /\ file = "absent" /\ rows = {} /\ sidecar = "none" /\ dirty = FALSE
    /\ tx = NoTransaction
    /\ lockFile = FALSE
    /\ pc = [p \in Processes |-> "closed"]
    /\ fresh = [p \in Processes |-> FALSE]
    /\ crashes = 0 /\ losses = 0
    /\ confirmed = {} /\ validated = [kind |-> "refused", rows |-> {}]

Next ==
    \/ \E p \in Processes :
          \/ Opening(p) \/ Writing(p) \/ Close(p) \/ Crash(p) \/ ValidateReplacement(p)
          \/ \E row \in Rows : BeginWrite(p, row)
    \/ LoseDatabase

Spec == Init /\ [][Next]_vars

\* The operator starts the service again after a failure, an open goes on once it
\* has begun, whatever replacements come between.  Nothing need be written, closed,
\* lost or crash.
FairSpec == Spec /\ \A p \in Processes : SF_vars(Opening(p)) /\ WF_vars(Writing(p))

-----------------------------------------------------------------------------
(* Properties.                                                             *)

\* No process serves a journal that lacks a confirmed row: a lost or truncated
\* database is refused because the worker lock file, created before the first row,
\* survives it, and an interrupted initialisation never erases rows
\* (require_no_history_artifacts, initialize_journal, open_journal).
HistoryIsKept == \A p \in Processes : pc[p] = "ready" => confirmed \subseteq rows

\* Database pages are written only while a journal that can undo them is on disk:
\* recovery never removes the journal of a live transaction, although that one also
\* has a zero header until it is synced (recover_private_rollback_journal).
PagesAreProtected == dirty => sidecar = "valid"

\* A cold validation that accepts the journal has read every confirmed row, and one
\* that finds no history is right (open_validation_snapshot).
ValidationSeesHistory ==
    [][validated' # validated /\ validated'.kind # "refused"
          => confirmed \subseteq validated'.rows]_vars

\* A process died between creating a rollback journal and writing its header.
CutShort == sidecar = "short" /\ tx.by = None

\* A formatted journal that no longer suffers losses or crashes is eventually served,
\* whether the rollback journal beside it is hot or has a zero header.  The one
\* exception is a journal that was cut short: every open refuses it, and it stays
\* (recover_private_rollback_journal).
FormattedIsServed ==
    /\ file = "formatted" /\ crashes = MaxCrashes /\ losses = MaxLosses /\ ~CutShort
          ~> \E p \in Processes : pc[p] = "ready"
    /\ [](file = "formatted" /\ CutShort => [](file = "formatted" => CutShort))
=============================================================================
