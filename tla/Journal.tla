------------------------------ MODULE Journal ------------------------------
(***************************************************************************)
(* The durable journal as both effects use it: one row per operation       *)
(* identity, the lifecycle column of a row, and the two capacities that    *)
(* admission checks (src/gateway/journal/mod.rs and capacity.rs).          *)
(*                                                                         *)
(* A journal is a function from operation identities to rows.  A row whose *)
(* state is "absent" stands for an identity that has no row.               *)
(***************************************************************************)
EXTENDS Naturals, FiniteSets

CONSTANTS
    IdentityCapacity,       \* rows the journal retains       (504 in the code)
    UnfinishedCapacity      \* unfinished rows it retains      (32 in the code)

ASSUME CapacityAssumption ==
    IdentityCapacity \in Nat /\ UnfinishedCapacity \in Nat

\* OperationState, with "absent" for an identity without a row.
OperationStates ==
    {"absent", "requested", "authorized", "not_attempted",
     "apply_started", "receiver_observed", "finalized"}

UnfinishedStates == {"requested", "authorized", "apply_started", "receiver_observed"}
TerminalStates   == {"not_attempted", "finalized"}

\* Phases that follow a durable attempt.
AttemptedStates  == {"apply_started", "receiver_observed", "finalized"}
FrozenStates     == {"receiver_observed", "finalized"}

\* capacity::counts
Retained(journal)   == {o \in DOMAIN journal : journal[o].state # "absent"}
Unfinished(journal) == {o \in DOMAIN journal : journal[o].state \in UnfinishedStates}

\* Mutant of JournalFull: admission stops one row later.
JournalFullBeyond(journal) ==
    \/ Cardinality(Retained(journal)) > IdentityCapacity
    \/ Cardinality(Unfinished(journal)) > UnfinishedCapacity

\* capacity::require_admission refuses when this holds.
JournalFull(journal) ==
    \/ Cardinality(Retained(journal)) >= IdentityCapacity
    \/ Cardinality(Unfinished(journal)) >= UnfinishedCapacity

\* How far a phase is along the lifecycle.
Rank(state) ==
    CASE state = "absent" -> 0
      [] state = "requested" -> 1
      [] state = "authorized" -> 2
      [] state = "apply_started" -> 3
      [] state = "receiver_observed" -> 4
      [] state \in TerminalStates -> 5
=============================================================================
