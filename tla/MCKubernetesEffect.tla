------------------------- MODULE MCKubernetesEffect -------------------------
(***************************************************************************)
(* Small instances of KubernetesEffect for TLC.                            *)
(***************************************************************************)
EXTENDS KubernetesEffect, TLC

CONSTANTS o1, o2, old, new

Grant(operation, image, v) ==
    [operation |-> operation, image |-> image, approved |-> [uid |-> 1, version |-> v]]

\* One operation under two conflicting grants: a catalogue that was replaced after
\* somebody else wrote the Deployment.
ReplacedGrants == {Grant(o1, new, 1), Grant(o1, old, 2)}

\* Two operations approved on successive versions of the Deployment.
TwoGrants == {Grant(o1, new, 1), Grant(o2, old, 2)}

Status(updated, unavailable, conditions) ==
    [updated |-> updated, available |-> 1 - unavailable, unavailable |-> unavailable,
     conditions |-> conditions]

\* Available; out of time while the old replica is still available.  A rollout is in
\* progress until the controller has observed its generation.
RolloutStatuses ==
    {Status(1, 0, {"available"}), Status(1, 0, {"available", "deadline_exceeded"})}

AvailableStatus == {Status(1, 0, {"available"})}

EquippedAlike ==
    \A v, w \in Workers : run[v] # None /\ run[w] # None =>
        run[v].adapter = run[w].adapter /\ run[v].signing = run[w].signing

FullyEquipped == \A w \in Workers : run[w] # None => run[w].adapter /\ run[w].signing # None

\* Runs that overlap are of one installation.  Beyond the second version, by when
\* others wrote or a patch landed, one run at a time observes the Deployment.
Scenarios ==
    /\ EquippedAlike
    /\ deployment.version > 2 =>
          FullyEquipped /\ Cardinality({w \in Workers : pc[w] # "idle"}) <= 1

WorkerSymmetry == Permutations(Workers)
=============================================================================
