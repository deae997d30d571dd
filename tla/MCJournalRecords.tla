-------------------------- MODULE MCJournalRecords --------------------------
(* Instances of JournalRecords for TLC. *)
EXTENDS JournalRecords, TLC

SnapshotRequest ==
    [operation_id |-> Id, namespace |-> "ns", deployment |-> "web", container |-> "app",
     immutable_image_digest |-> "new image", authorization_id |-> "auth",
     authorization_signer_key_id |-> "signer", authorization_grant_digest |-> "digest",
     signed_authorization_grant |-> "grant", approved |-> [uid |-> "u1", version |-> "v1"]]
\* An earlier grant, without an approved version.
LegacyRequest ==
    [SnapshotRequest EXCEPT !.authorization_id = "legacy auth", !.approved = None,
                            !.authorization_grant_digest = "legacy digest",
                            !.signed_authorization_grant = "legacy grant"]

BothRequests == {SnapshotRequest, LegacyRequest}
SmallTargets == {[uid |-> "u1", version |-> "v1"], [uid |-> "u1", version |-> "v2"]}
SmallOutcomes ==
    {[accepted |-> 1, generation |-> 2, version |-> "v3"],
     [accepted |-> 0, generation |-> None, version |-> "v1"]}

NothingObserved == [c \in ReceiverColumns |-> None]
Progressed ==
    [receiver_uid |-> "u1", receiver_image |-> "new image", receiver_operation_marker |-> Id,
     current_generation |-> 2, observed_generation |-> 2, receiver_resource_version |-> "v3",
     desired_replicas |-> 2, updated_replicas |-> 1, available_replicas |-> 0,
     unavailable_replicas |-> 2, rollout_condition_type |-> "Progressing",
     rollout_condition_status |-> "False",
     rollout_condition_reason |-> "ProgressDeadlineExceeded"]
RolledOut ==
    [Progressed EXCEPT !.updated_replicas = 2, !.available_replicas = 2,
                       !.unavailable_replicas = 0, !.rollout_condition_type = "Available",
                       !.rollout_condition_status = "True", !.rollout_condition_reason = None]
SmallObservations == {NothingObserved, Progressed, RolledOut}
EditNumbers == {-1, 1, 8}
HandleSymmetry == Permutations(Handles)
=============================================================================
