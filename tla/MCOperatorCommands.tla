------------------------ MODULE MCOperatorCommands ------------------------
(* A small directory of the operator's documents for OperatorCommands.     *)
EXTENDS OperatorCommands

MCLimits == [identity |-> 4, label |-> 3, subdomain |-> 5, image |-> 6, fact |-> 3,
             grantText |-> 6, grantStatement |-> 40, signedGrant |-> 60,
             receiptText |-> 6, receiptTrust |-> 20, statement |-> 110, receipt |-> 130,
             document |-> 130]

Text(codes) == [i \in DOMAIN codes |-> <<codes[i]>>]
A == Text(<<97>>)
B == Text(<<98>>)
AB == Text(<<97, 98>>)

\* a/b@sha256:<digest>
Image(n) == Text(<<97, 47, 98>>) \o <<AtSha256, Word(30 + n)>>

Proposal(operation, namespace, image) ==
    [authorization_id |-> A, operation_id |-> operation, namespace |-> namespace,
     deployment |-> Text(<<97, 46, 98>>), container |-> B,
     immutable_image_digest |-> image, approved_target |-> None]

\* A namespace does not end in a hyphen.
MCProposals == {Proposal(A, Text(<<97, 45, 98>>), Image(0)),
                Proposal(A, Text(<<97, 45>>), Image(0))}

MCGitProposals == {[authorization_id |-> A, operation_id |-> AB, repository_id |-> B,
    reference |-> ApprovedGitRef, old_commit |-> <<Word(40)>>, new_commit |-> <<Word(41)>>]}

K1 == 901
K2 == 902
MCKeys == {K1, K2}
MCSigners == {[key |-> K1, key_id |-> A], [key |-> K2, key_id |-> B]}
T1 == [key_id |-> A, public_key |-> K1]
T2 == [key_id |-> B, public_key |-> K2]
MCKeyLists == {<<T2, T1>>, <<T1, [T2 EXCEPT !.key_id = A]>>}
MCApprovalLists == {<<"g1">>, <<"g1", "g1">>}
MCLabels == {A}
MCReceiptKeyIds == {A}

MCVersions == <<[uid |-> A, resource_version |-> A], [uid |-> A, resource_version |-> B]>>

\* Frozen facts: an observed rollout, and one where nothing was observed.
Observed ==
    [operation_id |-> A, authorization_id |-> A, authorization_signer_key_id |-> A,
     authorization_grant_digest |-> DigestHex(A), namespace |-> AB, deployment |-> A,
     container |-> B, immutable_image_digest |-> Image(0), write_strategy |-> WriteStrategy,
     target_uid |-> A, target_resource_version |-> B, receiver_uid |-> A,
     observed_image |-> Image(0), observed_operation_marker |-> A,
     current_generation |-> 2, requested_generation |-> 2, observed_generation |-> 2,
     observed_resource_version |-> B, desired_replicas |-> 1, updated_replicas |-> 1,
     available_replicas |-> 1, unavailable_replicas |-> 0,
     rollout_condition_type |-> Available, rollout_condition_status |-> ConditionTrue,
     rollout_condition_reason |-> None, result |-> "succeeded", approved_target |-> None]

Unobserved ==
    [f \in DOMAIN Observed |->
        IF Contains(ReceiverFields \o GenerationFields \o ReplicaFields \o ConditionFields
                    \o <<"observed_resource_version">>, f) THEN None
        ELSE IF f = "result" THEN "unknown"
        ELSE IF f = "approved_target" THEN [uid |-> A, resource_version |-> B]
        ELSE Observed[f]]

GitFacts ==
    [authorization |-> CHOOSE a \in MCGitProposals : TRUE,
     authorization_signer |-> A, authorization_digest |-> DigestHex(B),
     acknowledgement |-> "unknown", observed |-> [kind |-> "missing", commit |-> <<>>]]

Receipt(statement, git) == [statement |-> statement, git |-> git, key |-> K1, key_id |-> A]
MCReceipts == {Receipt(Observed, FALSE), Receipt(Unobserved, FALSE), Receipt(GitFacts, TRUE)}

Trust(purpose, key) == [key_id |-> A, public_key |-> key, accepted_purpose |-> purpose,
                        not_before |-> 5, not_after |-> 6]
MCReceiptTrusts == {Trust(ReceiptPurpose, K1), Trust(SnapshotReceiptPurpose, K1),
                    Trust(GitReceiptPurpose, K1), Trust(ReceiptPurpose, K2)}
MCTimes == {5, 6}
MCLimitChoices == {DefaultLimits, [DefaultLimits EXCEPT !.text = 0],
                   [DefaultLimits EXCEPT !.receipt = 20]}
MCEditCells == {<<5>>, Word(4)}

\* Bounds of the run.  Receipts and grants share nothing but the directory and
\* are explored one at a time: one inspection of an edited receipt or trust;
\* provisioning, preparing and validating, two commands when an output is
\* unlinked.
Separate ==
    \/ /\ \A path \in GrantPaths \cup {"document"} : files[path] = None
       /\ approved = {}
       /\ version = 1
       /\ \A p \in Processes : commands[p].pc \notin {"identify", "collect"}
       /\ started <= 1
    \/ /\ signed = None
       /\ edits > 0 => started <= 2

Interchangeable == Permutations(Processes)
=============================================================================
