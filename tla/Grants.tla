------------------------------ MODULE Grants ------------------------------
(***************************************************************************)
(* Signed approvals and receipt trust: crates/kapsel-authority/src/lib.rs  *)
(* and git.rs, and the wrappers of src/gateway/authorization.rs.           *)
(*                                                                         *)
(* An Ed25519 seed and its public key share one name in Keys; a public key *)
(* outside Keys does not decode.  A signature is the cell made of the key, *)
(* the purpose and the statement, so it verifies for nothing else.         *)
(***************************************************************************)
EXTENDS Records

CONSTANTS
    None,       \* an absent optional value
    Keys,       \* the keys that exist
    Limits      \* byte limits: a record of the fields used below

ASSUME LimitsAssumption ==
    /\ Limits.grantText <= Limits.grantStatement
    /\ Limits.grantStatement < Limits.signedGrant
    /\ Limits.receiptText <= Limits.receiptTrust

GrantStatementMagic    == <<Word(1)>>
SnapshotStatementMagic == <<Word(2)>>
SignedGrantMagic       == <<Word(3)>>
SnapshotGrantMagic     == <<Word(4)>>
GitStatementMagic      == <<Word(5)>>
GitGrantMagic          == <<Word(6)>>
TrustMagic             == <<Word(7)>>
GrantPurpose           == <<Word(11)>>
SnapshotPurpose        == <<Word(12)>>
GitPurpose             == <<Word(13)>>
ReceiptPurpose         == <<Word(71)>>
SnapshotReceiptPurpose == <<Word(72)>>
AtSha256               == Word(20)          \* the separator "@sha256:"
ApprovedGitRef         == <<Word(21)>>      \* refs/heads/approved
HexDigests             == {Word(n) : n \in 30..39}  \* 64 lowercase hex digits
CommitIds              == {Word(n) : n \in 40..49}  \* 40 of them, not all zero

\* signature_input and SigningKey::sign; one cell stands for the 64 bytes.
Signature(key, purpose, statement) == <<key, purpose, statement>>

\* VerifyingKey::from_bytes(..).verify_strict(..)
Verifies(key, purpose, statement, signature) ==
    key \in Keys /\ signature = <<Signature(key, purpose, statement)>>

\* digest_hex: equal digests only for equal bytes.
DigestHex(bytes) == << <<"sha256", bytes>> >>

---------------------------------------------------------------------------
(* Grammar.                                                                *)

IdentityIsValid(text) ==
    /\ Len(text) \in 1..Limits.identity
    /\ AllIn(text, LowercaseOrDigit \cup Uppercase \cup {Dot, 95, 58, Hyphen})

DnsLabelIsValid(text) == Len(text) <= Limits.label /\ Bounded(text, {Hyphen})

DnsSubdomainIsValid(text) ==
    /\ Len(text) \in 1..Limits.subdomain
    /\ \A part \in Split(text, Dot) : DnsLabelIsValid(part)

ImageNameComponentIsValid(text) == Bounded(text, {Dot, 95, Hyphen})

\* immutable_image_is_valid
ImmutableImageIsValid(text) ==
    /\ Len(text) \in 1..Limits.image /\ IsAscii(text)
    /\ \E i \in DOMAIN text :
         /\ text[i] = AtSha256
         /\ i + 1 = Len(text) /\ text[i + 1] \in HexDigests
         /\ LET name == SubSeq(text, 1, i - 1)
            IN /\ ~Contains(name, <<At>>) /\ ~Contains(name, AtSha256)
               /\ \A part \in Split(name, Slash) : ImageNameComponentIsValid(part)

GitCommitIdIsValid(text) == Len(text) = 1 /\ text[1] \in CommitIds

\* ApprovedTarget::is_valid
ApprovedTargetIsValid(t) ==
    \A text \in {t.uid, t.resource_version} : Len(text) \in 1..Limits.fact /\ IsAscii(text)

\* ExactAuthorization::validate
AuthorizationIsValid(a) ==
    /\ a.approved_target # None => ApprovedTargetIsValid(a.approved_target)
    /\ IdentityIsValid(a.authorization_id) /\ IdentityIsValid(a.operation_id)
    /\ DnsLabelIsValid(a.namespace) /\ DnsSubdomainIsValid(a.deployment)
    /\ DnsLabelIsValid(a.container) /\ ImmutableImageIsValid(a.immutable_image_digest)

\* GitRefAuthorization::is_valid
GitAuthorizationIsValid(a) ==
    /\ \A text \in {a.authorization_id, a.operation_id, a.repository_id} : IdentityIsValid(text)
    /\ a.reference = ApprovedGitRef
    /\ GitCommitIdIsValid(a.old_commit) /\ GitCommitIdIsValid(a.new_commit)
    /\ a.old_commit # a.new_commit

\* AuthorizationTrust::validate
TrustIsValid(trust) == IdentityIsValid(trust.key_id) /\ trust.public_key \in Keys

---------------------------------------------------------------------------
(* Kubernetes grants, version 1 without and version 2 with an approved     *)
(* Deployment version.                                                     *)

\* encode_statement
EncodeStatement(a) ==
    LET bound == a.approved_target # None
        target == IF bound THEN <<a.approved_target.uid, a.approved_target.resource_version>>
                  ELSE <<>>
    IN Encode(IF bound THEN SnapshotStatementMagic ELSE GrantStatementMagic,
              <<a.authorization_id, a.operation_id, a.namespace, a.deployment,
                a.container, a.immutable_image_digest>> \o target,
              Limits.grantStatement)

\* take_ascii_text
GrantText(text) == Len(text) \in 1..Limits.grantText /\ IsAscii(text)

\* A value, if it passes the check that its parser makes.
Checked(value, IsValid(_)) == IF IsValid(value) THEN value ELSE None

\* parse_statement, from the values of its records
StatementOf(v, bound) ==
    IF v # Refused /\ \A i \in DOMAIN v : GrantText(v[i])
    THEN Checked([authorization_id |-> v[1], operation_id |-> v[2], namespace |-> v[3],
                  deployment |-> v[4], container |-> v[5], immutable_image_digest |-> v[6],
                  approved_target |-> IF bound THEN [uid |-> v[7], resource_version |-> v[8]]
                                      ELSE None], AuthorizationIsValid)
    ELSE None

\* parse_statement
ParseStatement(bytes) ==
    IF IsPrefix(SnapshotStatementMagic, bytes)
    THEN StatementOf(ReadAll(bytes, SnapshotStatementMagic, 8), TRUE)
    ELSE StatementOf(ReadAll(bytes, GrantStatementMagic, 6), FALSE)

\* grant_purpose
PurposeOf(statement) ==
    IF IsPrefix(SnapshotStatementMagic, statement) THEN SnapshotPurpose ELSE GrantPurpose

\* sign_grant_statement
SignGrantStatement(statement, magic, purpose, key, key_id) ==
    Encode(magic, <<purpose, key_id, statement, <<Signature(key, purpose, statement)>> >>,
           Limits.signedGrant)

\* sign_authorization_grant
SignAuthorizationGrant(a, key, key_id) ==
    LET Sign(statement) ==
            IF statement = Refused THEN Refused
            ELSE SignGrantStatement(statement,
                     IF a.approved_target # None THEN SnapshotGrantMagic ELSE SignedGrantMagic,
                     PurposeOf(statement), key, key_id)
    IN IF AuthorizationIsValid(a) /\ IdentityIsValid(key_id) THEN Sign(EncodeStatement(a))
       ELSE Refused

Invalid == [status |-> "invalid", authorization |-> None]
Untrusted == [status |-> "untrusted", authorization |-> None]

\* ValidatedAuthorizationGrant
Verified(a, key_id, bytes) ==
    [status |-> "verified", authorization |-> a, signer_key_id |-> key_id,
     grant_digest |-> DigestHex(bytes)]

\* The appointment is compared and the signature verified last: a is the
\* statement that was parsed, v the records of the envelope.
Authenticity(a, v, purpose, trust, bytes) ==
    IF a = None THEN Invalid
    ELSE IF v[2] # trust.key_id THEN Untrusted
    ELSE IF ~Verifies(trust.public_key, purpose, v[3], v[4]) THEN Untrusted
    ELSE Verified(a, v[2], bytes)

\* verify_authorization_grant, from the records of the envelope on
VerifyRecords(v, bound, trust, bytes) ==
    IF /\ v # Refused
       /\ v[1] = IF bound THEN SnapshotPurpose ELSE GrantPurpose
       /\ GrantText(v[2]) /\ IdentityIsValid(v[2])
       /\ Len(v[3]) <= Limits.grantStatement
       /\ Len(v[4]) = 1
       /\ IsPrefix(SnapshotStatementMagic, v[3]) = bound
    THEN Authenticity(ParseStatement(v[3]), v, PurposeOf(v[3]), trust, bytes)
    ELSE Invalid

\* verify_authorization_grant
VerifyAuthorizationGrant(bytes, trust) ==
    IF ~TrustIsValid(trust) \/ Len(bytes) > Limits.signedGrant THEN Invalid
    ELSE IF IsPrefix(SnapshotGrantMagic, bytes)
         THEN VerifyRecords(ReadAll(bytes, SnapshotGrantMagic, 4), TRUE, trust, bytes)
    ELSE VerifyRecords(ReadAll(bytes, SignedGrantMagic, 4), FALSE, trust, bytes)

\* verify_authorization_grant_for_public_key: the signer is whoever the grant
\* names, the key is the one supplied.
VerifyForPublicKey(bytes, key) ==
    LET bound == IsPrefix(SnapshotGrantMagic, bytes)
        Named(r) == IF /\ r.ok
                       /\ r.values[1] = IF bound THEN SnapshotPurpose ELSE GrantPurpose
                       /\ GrantText(r.values[2])
                    THEN VerifyAuthorizationGrant(bytes, [key_id |-> r.values[2],
                                                          public_key |-> key])
                    ELSE Invalid
    IN IF Len(bytes) > Limits.signedGrant THEN Invalid
       ELSE Named(Take(Take(Open(bytes, IF bound THEN SnapshotGrantMagic
                                        ELSE SignedGrantMagic))))

\* Gateway::verify_grant_with: the first appointment that verifies; an error
\* other than "untrusted" ends the search.
VerifyGrantWith(authorities, bytes) ==
    LET found[i \in 0..Len(authorities)] ==
            IF i = 0 THEN Untrusted
            ELSE IF found[i - 1].status # "untrusted" THEN found[i - 1]
            ELSE VerifyAuthorizationGrant(bytes, authorities[i])
    IN found[Len(authorities)]

---------------------------------------------------------------------------
(* Git grants.                                                             *)

GitFields(a) == <<a.authorization_id, a.operation_id, a.repository_id,
                  a.reference, a.old_commit, a.new_commit>>

\* sign_git_ref_grant
SignGitRefGrant(a, key, key_id) ==
    LET Sign(statement) ==
            IF statement = Refused THEN Refused
            ELSE SignGrantStatement(statement, GitGrantMagic, GitPurpose, key, key_id)
    IN IF GitAuthorizationIsValid(a) /\ IdentityIsValid(key_id)
       THEN Sign(Encode(GitStatementMagic, GitFields(a), Limits.grantStatement))
       ELSE Refused

\* decode_bounded_ascii
BoundedAscii(text, max) == Len(text) <= max /\ IsAscii(text)

\* The statement inside a Git grant, or None.
GitStatementOf(v) ==
    IF /\ v # Refused
       /\ \A i \in 1..3 : BoundedAscii(v[i], Limits.identity)
       /\ BoundedAscii(v[4], Len(ApprovedGitRef))
       /\ \A i \in 5..6 : BoundedAscii(v[i], 1)
    THEN Checked([authorization_id |-> v[1], operation_id |-> v[2], repository_id |-> v[3],
                  reference |-> v[4], old_commit |-> v[5], new_commit |-> v[6]],
                 GitAuthorizationIsValid)
    ELSE None

\* verify_git_ref_grant
VerifyGitRefGrant(bytes, trust) ==
    LET Verify(v) ==
            IF /\ v # Refused
               /\ v[1] = GitPurpose
               /\ BoundedAscii(v[2], Limits.identity) /\ IdentityIsValid(v[2])
               /\ Len(v[3]) <= Limits.grantStatement
               /\ Len(v[4]) = 1
            THEN Authenticity(GitStatementOf(ReadAll(v[3], GitStatementMagic, 6)),
                              v, GitPurpose, trust, bytes)
            ELSE Invalid
    IN IF TrustIsValid(trust) /\ Len(bytes) <= Limits.signedGrant
       THEN Verify(ReadAll(bytes, GitGrantMagic, 4)) ELSE Invalid

\* GitBinding::verify: any appointment that verifies, whatever the others say.
VerifyGitWith(authorities, bytes) ==
    LET found[i \in 0..Len(authorities)] ==
            IF i = 0 THEN IF Len(bytes) > Limits.signedGrant THEN Invalid ELSE Untrusted
            ELSE IF found[i - 1].status = "verified" THEN found[i - 1]
            ELSE LET Or(verdict) == IF verdict.status = "verified" THEN verdict ELSE found[0]
                 IN Or(VerifyGitRefGrant(bytes, authorities[i]))
    IN found[Len(authorities)]

---------------------------------------------------------------------------
(* The trust document that receipts are inspected under.  It is not signed. *)

ReceiptTextIsValid(text) == Len(text) \in 1..Limits.receiptText /\ IsAscii(text)

\* validate_receipt_trust
ReceiptTrustIsValid(t) ==
    /\ IdentityIsValid(t.key_id)
    /\ ReceiptTextIsValid(t.accepted_purpose)
    /\ t.not_before < t.not_after

\* encode_receipt_trust
EncodeReceiptTrust(t) ==
    IF ~ReceiptTrustIsValid(t) THEN Refused
    ELSE Encode(TrustMagic, <<t.key_id, << <<t.public_key>> >>, t.accepted_purpose,
                              << <<t.not_before>> >>, << <<t.not_after>> >> >>,
                Limits.receiptTrust)

\* validate_receipt_trust_limits
TrustLimitsAreValid(limits) ==
    /\ limits.trust \in 1..Limits.receiptTrust
    /\ limits.text \in 1..Limits.receiptText

\* parse_receipt_trust, with TrustRecords; limits is [trust, text].
ParseReceiptTrust(bytes, limits) ==
    LET Parse(v) ==
            IF /\ v # Refused
               /\ \A i \in {1, 3} : Len(v[i]) <= limits.text /\ IsAscii(v[i])
               /\ \A i \in {2, 4, 5} : Len(v[i]) = 1 /\ Len(v[i][1]) = 1
            THEN Checked([key_id |-> v[1], public_key |-> v[2][1][1],
                          accepted_purpose |-> v[3], not_before |-> v[4][1][1],
                          not_after |-> v[5][1][1]], ReceiptTrustIsValid)
            ELSE None
    IN IF TrustLimitsAreValid(limits) /\ Len(bytes) <= limits.trust
       THEN Parse(ReadAll(bytes, TrustMagic, 5)) ELSE None

DefaultTrustLimits == [trust |-> Limits.receiptTrust, text |-> Limits.receiptText]

\* Mutant of ReceiptSigningKeyId: any purpose the evaluator accepts will do.
ReceiptSigningKeyIdForAnyPurpose(seed, trust, bound) ==
    LET KeyId(t) == IF t # None /\ t.public_key = seed THEN t.key_id ELSE None
    IN KeyId(ParseReceiptTrust(trust, DefaultTrustLimits))

\* receipt_signing_key_id; a seed is the name of its key pair.
ReceiptSigningKeyId(seed, trust, bound) ==
    LET KeyId(t) ==
            IF /\ t # None
               /\ t.accepted_purpose = IF bound THEN SnapshotReceiptPurpose ELSE ReceiptPurpose
               /\ t.public_key = seed
            THEN t.key_id ELSE None
    IN KeyId(ParseReceiptTrust(trust, DefaultTrustLimits))

\* validate_service_operator_inputs
ValidateServiceOperatorInputs(grant, key, seed, trust) ==
    LET With(verified, key_id) ==
            IF key_id = None THEN None
            ELSE [authorization |-> verified.authorization,
                  authorization_signing_key_id |-> verified.signer_key_id,
                  receipt_signing_key_id |-> key_id]
        Validate(verified) ==
            IF verified.status # "verified" THEN None
            ELSE With(verified, ReceiptSigningKeyId(seed, trust,
                                    verified.authorization.approved_target # None))
    IN Validate(VerifyForPublicKey(grant, key))
=============================================================================
