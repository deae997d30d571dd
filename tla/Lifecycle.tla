----------------------------- MODULE Lifecycle -----------------------------
(***************************************************************************)
(* What an effect promises about one approved operation, whatever the      *)
(* receiver is: it is recorded, authorized, and then either ends without   *)
(* an attempt, or is attempted once, observed, and closed by a receipt.    *)
(* The permission to send comes from the commit that records the attempt.  *)
(* It can be lost and is never issued again, so an operation sends at most *)
(* one mutation request and may well send none.                            *)
(* (docs/reference/effect_gateway.md; both effects implement this.)        *)
(***************************************************************************)
EXTENDS Naturals

CONSTANT Operations

VARIABLES
    phase,      \* the durable phase of each operation
    permit,     \* whether some process holds permission to send for it
    sends       \* mutation requests sent for it

vars == <<phase, permit, sends>>

Phases ==
    {"absent", "requested", "authorized", "not_attempted",
     "apply_started", "receiver_observed", "finalized"}

Attempted == {"apply_started", "receiver_observed", "finalized"}

Init ==
    /\ phase = [o \in Operations |-> "absent"]
    /\ permit = [o \in Operations |-> FALSE]
    /\ sends = [o \in Operations |-> 0]

Move(o, from, to) ==
    /\ phase[o] = from
    /\ phase' = [phase EXCEPT ![o] = to]

\* Kubernetes admits as requested, Git as authorized.
Admit(o) ==
    /\ Move(o, "absent", "requested") \/ Move(o, "absent", "authorized")
    /\ UNCHANGED <<permit, sends>>

Authorize(o) == Move(o, "requested", "authorized") /\ UNCHANGED <<permit, sends>>

Reject(o) == Move(o, "authorized", "not_attempted") /\ UNCHANGED <<permit, sends>>

\* The attempt is durable; permission follows only if the commit is confirmed.
Attempt(o) ==
    /\ Move(o, "authorized", "apply_started")
    /\ \E confirmed \in BOOLEAN : permit' = [permit EXCEPT ![o] = confirmed]
    /\ UNCHANGED sends

Dispatch(o) ==
    /\ permit[o]
    /\ permit' = [permit EXCEPT ![o] = FALSE]
    /\ sends' = [sends EXCEPT ![o] = @ + 1]
    /\ UNCHANGED phase

LosePermit(o) ==
    /\ permit[o]
    /\ permit' = [permit EXCEPT ![o] = FALSE]
    /\ UNCHANGED <<phase, sends>>

\* Observation is frozen only when nobody can send any more.
Freeze(o) ==
    /\ ~permit[o]
    /\ Move(o, "apply_started", "receiver_observed")
    /\ UNCHANGED <<permit, sends>>

Finalize(o) == Move(o, "receiver_observed", "finalized") /\ UNCHANGED <<permit, sends>>

Next ==
    \E o \in Operations :
        \/ Admit(o) \/ Authorize(o) \/ Reject(o) \/ Attempt(o) \/ Dispatch(o)
        \/ LosePermit(o) \/ Freeze(o) \/ Finalize(o)

Spec == Init /\ [][Next]_vars

-----------------------------------------------------------------------------
\* Every operation has a phase, a permission to send that is held or not, and a count
\* of sends.
TypeOK ==
    /\ phase \in [Operations -> Phases]
    /\ permit \in [Operations -> BOOLEAN]
    /\ sends \in [Operations -> Nat]

\* At most one mutation request per operation, and none unless it was attempted.
AtMostOnce ==
    \A o \in Operations :
        /\ sends[o] <= 1
        /\ sends[o] > 0 => phase[o] \in Attempted

\* The inductive strengthening: permission exists only for a recorded attempt
\* that has sent nothing.
PermitIsFresh ==
    \A o \in Operations : permit[o] => phase[o] = "apply_started" /\ sends[o] = 0

Inv == TypeOK /\ AtMostOnce /\ PermitIsFresh
=============================================================================
