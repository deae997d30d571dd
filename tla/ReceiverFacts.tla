--------------------------- MODULE ReceiverFacts ---------------------------
(***************************************************************************)
(* What the Kubernetes effect concludes from one read of a Deployment:     *)
(* src/gateway/kubernetes/facts.rs, pure policy without I/O, and the part  *)
(* of adapter.rs that turns a Deployment into an observation.              *)
(*                                                                         *)
(* A Deployment is the record                                              *)
(*   [present, uid, version, generation, image, marker, observed, status]  *)
(* where version is metadata.resourceVersion, image the image of the named *)
(* container (None when it has no such container), marker the operation    *)
(* annotation, observed status.observedGeneration, and status None or the  *)
(* record [updated, available, unavailable, conditions].                   *)
(***************************************************************************)
EXTENDS Naturals

CONSTANTS
    None,               \* an absent optional value
    DesiredReplicas     \* spec.replicas of the Deployment

OperationResults == {"succeeded", "failed", "unknown"}

\* Conditions a controller publishes that the code tells apart: Available=True
\* and Progressing=False with reason ProgressDeadlineExceeded.
Conditions == {"available", "deadline_exceeded"}

\* ReceiverObservation::unknown
UnknownObservation ==
    [uid |-> None, version |-> None, generation |-> None, observed |-> None,
     image |-> None, marker |-> None, desired |-> None, updated |-> None,
     available |-> None, unavailable |-> None, condition |-> None]

\* The single condition an observation keeps: an exceeded deadline hides an
\* Available condition published beside it.
RolloutCondition(conditions) ==
    IF "deadline_exceeded" \in conditions THEN "deadline_exceeded"
    ELSE IF "available" \in conditions THEN "available" ELSE None

StatusField(d, field) == IF d.status = None THEN None ELSE d.status[field]

\* receiver_observation
Observe(d) ==
    [uid |-> d.uid, version |-> d.version, generation |-> d.generation,
     observed |-> d.observed, image |-> d.image, marker |-> d.marker,
     desired |-> DesiredReplicas,
     updated |-> StatusField(d, "updated"),
     available |-> StatusField(d, "available"),
     unavailable |-> StatusField(d, "unavailable"),
     condition |-> IF d.status = None THEN None
                   ELSE RolloutCondition(d.status.conditions)]

\* Mutant of OperationMatches: the annotation is not compared.
OperationMatchesImage(obs, operation, image) == obs.image = image

\* operation_matches
OperationMatches(obs, operation, image) ==
    obs.marker = operation /\ obs.image = image

\* requested_generation_for.  outcome is [uid, generation]: the uid of the
\* attempted target and the generation of the recorded response, if any.
RequestedGeneration(obs, operation, image, outcome) ==
    IF outcome.generation # None THEN outcome.generation
    ELSE IF OperationMatches(obs, operation, image) /\ obs.uid = outcome.uid
         THEN obs.generation ELSE None

\* receiver_establishes_generation
ReceiverEstablishesGeneration(obs, operation, image, outcome) ==
    LET requested == RequestedGeneration(obs, operation, image, outcome)
    IN /\ requested # None
       /\ OperationMatches(obs, operation, image)
       /\ obs.uid = outcome.uid
       /\ obs.generation = requested
       /\ obs.observed # None
       /\ obs.observed >= requested

RolloutAvailable(obs) ==
    /\ obs.desired # None
    /\ obs.updated = obs.desired
    /\ obs.available = obs.desired
    /\ obs.unavailable = 0
    /\ obs.condition = "available"

\* observation_result: failure is decided before success.
ObservationResult(obs, operation, image, outcome) ==
    IF ~ReceiverEstablishesGeneration(obs, operation, image, outcome) THEN "unknown"
    ELSE IF obs.condition = "deadline_exceeded" THEN "failed"
    ELSE IF RolloutAvailable(obs) THEN "succeeded" ELSE "unknown"

\* observation_is_complete
ObservationIsComplete(obs, operation, image, outcome) ==
    ObservationResult(obs, operation, image, outcome) # "unknown"
=============================================================================
