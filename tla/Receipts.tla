------------------------------ MODULE Receipts ------------------------------
(***************************************************************************)
(* Signed receipts and their offline inspection: src/gateway/receipt/      *)
(* mod.rs for Kubernetes, versions 2 and 3, and receipt/git.rs.            *)
(***************************************************************************)
EXTENDS Grants

Facts == INSTANCE ReceiverFacts WITH DesiredReplicas <- 1

ReceiptStatementMagic         == <<Word(61)>>
SnapshotReceiptStatementMagic == <<Word(62)>>
ReceiptMagic                  == <<Word(63)>>
SnapshotReceiptMagic          == <<Word(64)>>
GitReceiptStatementMagic      == <<Word(65)>>
GitReceiptMagic               == <<Word(66)>>
GitReceiptPurpose             == <<Word(73)>>
NonClaims                     == <<Word(74)>>
GitNonClaims                  == <<Word(75)>>
WriteStrategy                 == <<Word(76)>>
GitWriteStrategy              == <<Word(77)>>
\* Texts of a rollout condition that the classifier tells apart.
Available == <<Word(80)>>
Progressing == <<Word(81)>>
ConditionTrue == <<Word(82)>>
ConditionFalse == <<Word(83)>>
DeadlineExceeded == <<Word(84)>>

\* OperationResult::as_receipt_bytes and from_receipt_bytes, and the words of
\* the Git statement.
ResultWords == [succeeded |-> <<Word(50)>>, failed |-> <<Word(51)>>, unknown |-> <<Word(52)>>]
AcknowledgementWords ==
    [updated |-> <<Word(53)>>, rejected_before_send |-> <<Word(54)>>,
     receiver_rejected |-> <<Word(55)>>, unknown |-> <<Word(56)>>]
ObservedKindWords == [commit |-> <<Word(57)>>, missing |-> <<Word(58)>>, unknown |-> <<Word(59)>>]
AttributionWords == [acknowledged_update |-> <<Word(67)>>, not_established |-> <<Word(68)>>]

\* The word's name in a table, or None.
NameIn(table, text) ==
    IF \E n \in DOMAIN table : table[n] = text
    THEN CHOOSE n \in DOMAIN table : table[n] = text ELSE None

---------------------------------------------------------------------------
(* Records of the receipt codec.                                           *)

\* validate_text, as push_text calls it
TextIsValid(text) == Len(text) \in 1..Limits.receiptText /\ IsAscii(text)

\* push_optional_text and empty_as_none
OptionalText(text) == IF text = None THEN <<>> ELSE text

EmptyAsNone(text) == IF text = <<>> THEN None ELSE text

\* push_i64 and push_i32: -1 stands for an absent number.
OptionalNumber(n) == << <<IF n = None THEN -1 ELSE n>> >>

\* decode_generation and decode_replica_count
NumberIsValid(value) == Len(value) = 1 /\ Len(value[1]) = 1 /\ value[1][1] >= -1
DecodeNumber(value) == IF value[1][1] = -1 THEN None ELSE value[1][1]

\* Records::text of the receipt codec: bounded by the caller's limit, may be
\* empty.
ReceiptText(text, limits) == Len(text) <= limits.text /\ IsAscii(text)

\* InspectionLimits::validate; limits is [receipt, statement, trust, text].
InspectionLimitsAreValid(limits) ==
    /\ limits.receipt \in 1..Limits.receipt
    /\ limits.statement \in 1..Limits.statement
    /\ limits.trust \in 1..Limits.receiptTrust
    /\ limits.text \in 1..Limits.receiptText

DefaultLimits == [receipt |-> Limits.receipt, statement |-> Limits.statement,
                  trust |-> Limits.receiptTrust, text |-> Limits.receiptText]

---------------------------------------------------------------------------
(* The Kubernetes statement.                                               *)

TextFields == <<"operation_id", "authorization_id", "authorization_signer_key_id",
    "authorization_grant_digest", "namespace", "deployment", "container",
    "immutable_image_digest", "write_strategy", "target_uid", "target_resource_version">>
ReceiverFields == <<"receiver_uid", "observed_image", "observed_operation_marker">>
GenerationFields == <<"current_generation", "requested_generation", "observed_generation">>
ReplicaFields == <<"desired_replicas", "updated_replicas", "available_replicas",
    "unavailable_replicas">>
ConditionFields == <<"rollout_condition_type", "rollout_condition_status",
    "rollout_condition_reason">>

\* The names of records 1 to 25, in order.
StatementFields == TextFields \o ReceiverFields \o GenerationFields
    \o <<"observed_resource_version">> \o ReplicaFields \o ConditionFields

NumberFields == ToSet(GenerationFields \o ReplicaFields)
IsNumberField(f) == f \in NumberFields

\* receiver_observation, in the vocabulary of the classifier
StatementObservation(s) ==
    [uid |-> s.receiver_uid, version |-> s.observed_resource_version,
     generation |-> s.current_generation, observed |-> s.observed_generation,
     image |-> s.observed_image, marker |-> s.observed_operation_marker,
     desired |-> s.desired_replicas, updated |-> s.updated_replicas,
     available |-> s.available_replicas, unavailable |-> s.unavailable_replicas,
     condition |->
        IF /\ s.rollout_condition_type = Progressing
           /\ s.rollout_condition_status = ConditionFalse
           /\ s.rollout_condition_reason = DeadlineExceeded THEN "deadline_exceeded"
        ELSE IF /\ s.rollout_condition_type = Available
                /\ s.rollout_condition_status = ConditionTrue THEN "available"
        ELSE None]

\* ReceiverObservation::validate
ObservationIsValid(s) ==
    /\ (s.rollout_condition_type # None) = (s.rollout_condition_status # None)
    /\ s.rollout_condition_type = None => s.rollout_condition_reason = None

\* validate_digest
DigestIsValid(text) == Len(text) = 1 /\ Len(text[1]) = 2

\* validate_kubernetes_fact, for a fact that may be absent
FactIsValid(text) == text = None \/ (Len(text) \in 1..Limits.fact /\ IsAscii(text))

\* The result the facts of a statement establish: classify with apply_outcome,
\* whose uid is the attempted target's.
Classify(s) ==
    Facts!ObservationResult(StatementObservation(s), s.operation_id,
        s.immutable_image_digest, [uid |-> s.target_uid, generation |-> s.requested_generation])

\* ReceiptStatement::validate
StatementIsValid(s) ==
    /\ IdentityIsValid(s.operation_id) /\ IdentityIsValid(s.authorization_id)
    /\ IdentityIsValid(s.authorization_signer_key_id)
    /\ DigestIsValid(s.authorization_grant_digest)
    /\ s.approved_target # None =>
         /\ ApprovedTargetIsValid(s.approved_target)
         /\ s.approved_target = [uid |-> s.target_uid,
                                 resource_version |-> s.target_resource_version]
    /\ DnsLabelIsValid(s.namespace) /\ DnsSubdomainIsValid(s.deployment)
    /\ DnsLabelIsValid(s.container) /\ ImmutableImageIsValid(s.immutable_image_digest)
    /\ s.write_strategy = WriteStrategy
    /\ \A fact \in {s.target_uid, s.target_resource_version, s.receiver_uid,
                    s.observed_operation_marker, s.observed_resource_version,
                    s.rollout_condition_type, s.rollout_condition_status,
                    s.rollout_condition_reason} : FactIsValid(fact)
    /\ s.observed_image # None => ImmutableImageIsValid(s.observed_image)
    /\ ObservationIsValid(s)
    /\ s.result = Classify(s)

\* ReceiptStatement::encode
EncodeReceiptStatement(s) ==
    LET bound == s.approved_target # None
        Value(f) == IF IsNumberField(f) THEN OptionalNumber(s[f]) ELSE OptionalText(s[f])
        target == IF bound THEN <<s.approved_target.uid, s.approved_target.resource_version>>
                  ELSE <<>>
        texts == {TextFields[i] : i \in DOMAIN TextFields}
                 \cup {f \in ToSet(StatementFields) : ~IsNumberField(f) /\ s[f] # None}
    IN IF StatementIsValid(s) /\ (\A f \in texts : TextIsValid(s[f]))
       THEN Encode(IF bound THEN SnapshotReceiptStatementMagic ELSE ReceiptStatementMagic,
                   [i \in DOMAIN StatementFields |-> Value(StatementFields[i])]
                     \o <<ResultWords[s.result], NonClaims>> \o target,
                   Limits.statement)
       ELSE Refused

Index(f) == CHOOSE i \in DOMAIN StatementFields : StatementFields[i] = f

\* ReceiptStatement::parse: the fields, from the values of the records
StatementOfRecords(v, bound) ==
    [f \in ToSet(StatementFields) \cup {"result", "approved_target"} |->
        CASE f = "result" -> NameIn(ResultWords, v[26])
          [] f = "approved_target" ->
                IF bound THEN [uid |-> v[28], resource_version |-> v[29]] ELSE None
          [] IsNumberField(f) -> DecodeNumber(v[Index(f)])
          [] Contains(TextFields, f) -> v[Index(f)]
          [] OTHER -> EmptyAsNone(v[Index(f)])]

\* ReceiptStatement::parse
ParseReceiptStatement(bytes, limits) ==
    LET bound == IsPrefix(SnapshotReceiptStatementMagic, bytes)
        Parse(v) ==
            IF /\ v # Refused
               /\ \A i \in DOMAIN v :
                    IF i \in DOMAIN StatementFields /\ IsNumberField(StatementFields[i])
                    THEN NumberIsValid(v[i])
                    ELSE i \in {26, 27} \/ ReceiptText(v[i], limits)
               /\ NameIn(ResultWords, v[26]) # None
               /\ v[27] = NonClaims
            THEN Checked(StatementOfRecords(v, bound), StatementIsValid) ELSE None
    IN IF InspectionLimitsAreValid(limits) /\ Len(bytes) <= limits.statement
       THEN Parse(ReadAll(bytes, IF bound THEN SnapshotReceiptStatementMagic
                                 ELSE ReceiptStatementMagic, IF bound THEN 29 ELSE 27))
       ELSE None

---------------------------------------------------------------------------
(* The Git statement: acknowledgement and observation are independent, and *)
(* the result follows the acknowledgement alone.                           *)

\* GitStatement::result
GitResult(s) ==
    CASE s.acknowledgement = "updated" -> "succeeded"
      [] s.acknowledgement \in {"rejected_before_send", "receiver_rejected"} -> "failed"
      [] OTHER -> "unknown"

\* GitStatement::attribution
Attribution(s) ==
    IF s.acknowledgement = "updated" THEN "acknowledged_update" ELSE "not_established"

\* GitStatement::encode; observed is [kind, commit].
EncodeGitStatement(s) ==
    LET a == s.authorization
    IN IF /\ GitAuthorizationIsValid(a)
          /\ IdentityIsValid(s.authorization_signer) /\ DigestIsValid(s.authorization_digest)
          /\ s.observed.kind = "commit" => GitCommitIdIsValid(s.observed.commit)
       THEN Encode(GitReceiptStatementMagic,
              <<a.operation_id, a.authorization_id, s.authorization_signer,
                s.authorization_digest, a.repository_id, a.reference, a.old_commit,
                a.new_commit, GitWriteStrategy, AcknowledgementWords[s.acknowledgement],
                ObservedKindWords[s.observed.kind], s.observed.commit,
                AttributionWords[Attribution(s)], ResultWords[GitResult(s)], GitNonClaims>>,
              Limits.statement)
       ELSE Refused

\* GitStatement::parse: derived records are checked by encoding again.
ParseGitReceiptStatement(bytes, limits) ==
    LET Canonical(s) == EncodeGitStatement(s) = bytes
        Parse(v, acknowledgement, kind) ==
            IF /\ \A i \in DOMAIN v : ReceiptText(v[i], limits)
               /\ v[9] = GitWriteStrategy
               /\ acknowledgement # None
               /\ IF kind = "commit" THEN GitCommitIdIsValid(v[12])
                  ELSE kind \in {"missing", "unknown"} /\ v[12] = <<>>
            THEN Checked([authorization |-> [operation_id |-> v[1], authorization_id |-> v[2],
                              repository_id |-> v[5], reference |-> v[6], old_commit |-> v[7],
                              new_commit |-> v[8]],
                          authorization_signer |-> v[3], authorization_digest |-> v[4],
                          acknowledgement |-> acknowledgement,
                          observed |-> [kind |-> kind, commit |-> v[12]]], Canonical)
            ELSE None
        ParseRecords(v) ==
            IF v = Refused THEN None
            ELSE Parse(v, NameIn(AcknowledgementWords, v[10]), NameIn(ObservedKindWords, v[11]))
    IN IF Len(bytes) > limits.statement THEN None
       ELSE ParseRecords(ReadAll(bytes, GitReceiptStatementMagic, 15))

---------------------------------------------------------------------------
(* Envelopes.                                                              *)

\* sign_envelope
SignEnvelope(statement, magic, purpose, key, key_id) ==
    IF statement = Refused \/ ~IdentityIsValid(key_id) THEN Refused
    ELSE Encode(magic, <<purpose, key_id, statement, <<Signature(key, purpose, statement)>> >>,
                Limits.receipt)

\* statement_purpose
ReceiptPurposeOf(statement) ==
    IF IsPrefix(SnapshotReceiptStatementMagic, statement) THEN SnapshotReceiptPurpose
    ELSE ReceiptPurpose

\* sign_statement
SignStatement(s, key, key_id) ==
    LET Sign(statement) ==
            SignEnvelope(statement,
                IF s.approved_target # None THEN SnapshotReceiptMagic ELSE ReceiptMagic,
                ReceiptPurposeOf(statement), key, key_id)
    IN Sign(EncodeReceiptStatement(s))

\* receipt/git.rs: sign
SignGitStatement(s, key, key_id) ==
    SignEnvelope(EncodeGitStatement(s), GitReceiptMagic, GitReceiptPurpose, key, key_id)

\* parse_envelope, up to the statement inside.
ParseEnvelope(bytes, magic, purpose, limits) ==
    LET FromRecords(v) ==
            IF /\ v # Refused
               /\ ReceiptText(v[1], limits) /\ v[1] = purpose
               /\ ReceiptText(v[2], limits) /\ IdentityIsValid(v[2])
               /\ Len(v[4]) = 1
            THEN [purpose |-> purpose, key_id |-> v[2], bytes |-> v[3], signature |-> v[4]]
            ELSE None
    IN IF InspectionLimitsAreValid(limits) /\ Len(bytes) <= limits.receipt
       THEN FromRecords(ReadAll(bytes, magic, 4)) ELSE None

WithStatement(envelope, s) ==
    IF s = None THEN None ELSE [statement |-> s] @@ envelope

\* parse_receipt_envelope
ParseReceiptEnvelope(bytes, limits) ==
    LET bound == IsPrefix(SnapshotReceiptMagic, bytes)
        WithBound(e) ==
            IF e # None /\ IsPrefix(SnapshotReceiptStatementMagic, e.bytes) = bound
            THEN WithStatement(e, ParseReceiptStatement(e.bytes, limits)) ELSE None
    IN WithBound(ParseEnvelope(bytes, IF bound THEN SnapshotReceiptMagic ELSE ReceiptMagic,
                               IF bound THEN SnapshotReceiptPurpose ELSE ReceiptPurpose,
                               limits))

\* receipt/git.rs: envelope
ParseGitEnvelope(bytes, limits) ==
    LET WithGit(e) == IF e = None THEN None
                      ELSE WithStatement(e, ParseGitReceiptStatement(e.bytes, limits))
    IN WithGit(ParseEnvelope(bytes, GitReceiptMagic, GitReceiptPurpose, limits))

\* Mutant of Authenticate: the interval of the trust is closed at its end.
AuthenticateAtTheEnd(envelope, trust, time) ==
    IF ~Verifies(trust.public_key, envelope.purpose, envelope.bytes, envelope.signature)
    THEN "signature_rejected"
    ELSE IF /\ trust.accepted_purpose = envelope.purpose /\ trust.key_id = envelope.key_id
            /\ time >= trust.not_before /\ time <= trust.not_after
         THEN "inspected" ELSE "untrusted_signer"

\* ReceiptEnvelope::authenticate
Authenticate(envelope, trust, time) ==
    IF trust.public_key \notin Keys THEN "structure_rejected"
    ELSE IF ~Verifies(trust.public_key, envelope.purpose, envelope.bytes, envelope.signature)
         THEN "signature_rejected"
    ELSE IF \/ trust.accepted_purpose # envelope.purpose
            \/ trust.key_id # envelope.key_id
            \/ time < trust.not_before
            \/ time >= trust.not_after THEN "untrusted_signer"
    ELSE "inspected"

Report(status, statement) == [status |-> status, statement |-> statement]

\* inspect_inner, and inspect of receipt/git.rs: the same order of checks.
InspectEnvelope(envelope, trust, time) ==
    LET Disclose(status) == Report(status, IF status \in {"inspected", "untrusted_signer"}
                                           THEN envelope.statement ELSE None)
    IN IF envelope = None \/ trust = None THEN Report("structure_rejected", None)
       ELSE Disclose(Authenticate(envelope, trust, time))

\* ReceiptTrust::parse
InspectionTrust(bytes, limits) ==
    IF InspectionLimitsAreValid(limits)
    THEN ParseReceiptTrust(bytes, [trust |-> limits.trust, text |-> limits.text]) ELSE None

\* inspect_receipt
InspectReceipt(bytes, trust, time, limits) ==
    InspectEnvelope(ParseReceiptEnvelope(bytes, limits), InspectionTrust(trust, limits), time)

\* inspect_git_receipt
InspectGitReceipt(bytes, trust, time, limits) ==
    InspectEnvelope(ParseGitEnvelope(bytes, limits), InspectionTrust(trust, limits), time)

\* decode_frozen_receipt: how the journal reads its own receipt, without a key.
DecodeFrozenReceipt(bytes) == ParseReceiptEnvelope(bytes, DefaultLimits)

\* receipt/git.rs: decode
DecodeGitReceipt(bytes) == ParseGitEnvelope(bytes, DefaultLimits)
=============================================================================
