------------------------- MODULE OperatorCommands -------------------------
(***************************************************************************)
(* The operator's commands: src/command/mod.rs and command/service.rs with *)
(* the provisioning half of src/application/mod.rs and the document parser *)
(* src/application/service/document.rs.  Commands are processes that share *)
(* a directory with each other and with an owner who edits its files.      *)
(*                                                                         *)
(* A file is [id, bytes]; id is its inode.  Grants, receipts and trust are *)
(* cells.  A JSON service document is the sequence <<fields, end>>: cut    *)
(* short, it does not parse.                                               *)
(***************************************************************************)
EXTENDS Receipts, FiniteSets

CONSTANTS
    Processes,      \* running commands
    GrantPaths,     \* output names of provisioning commands
    Proposals,      \* Kubernetes authorization documents, without a target
    GitProposals,   \* Git authorization documents
    Signers,        \* [key, key_id] an operator signs grants with
    KeyLists,       \* the --authorization-key options of prepare
    ApprovalLists,  \* the files of its --approval options
    Labels,         \* --approval labels
    ReceiptKeyIds,  \* --receipt-key-id options
    Receipts,       \* [statement, git, key, key_id] a service has signed
    ReceiptTrusts,  \* trust documents an evaluator may hold
    Times,          \* evaluation times
    LimitChoices,   \* inspection limits
    Versions,       \* versions the live Deployment goes through, in order
    EditCells,      \* cells the owner's edits put into a file
    MaxEdits,       \* bound on edits by the owner
    MaxCommands,    \* bound on commands run
    MaxCommandsEdited   \* bound on commands run in a history with an edit in place

ASSUME BoundAssumption ==
    MaxEdits \in Nat /\ MaxCommands \in Nat /\ MaxCommandsEdited \in Nat

Paths == GrantPaths \cup {"document", "receipt", "trust"}
DocumentKeysMax == 128
DocumentApprovalsMax == 32

VARIABLES
    files,          \* path -> None or [id, bytes]
    nextId,         \* inodes used so far
    commands,       \* process -> its command
    version,        \* index of the live Deployment's version
    signed,         \* the receipt in the directory, as it was signed, or None
    approved,       \* every approval an operator's key was used for
    reported,       \* path -> [id, bytes] a command reported as written, or None
    touched,        \* inodes the owner has edited
    edits,
    started         \* commands started so far

vars == <<files, nextId, commands, version, signed, approved, reported,
          touched, edits, started>>
world == <<version, signed, touched, edits>>     \* what no command changes
directory == <<files, nextId, reported>>

Idle == [pc |-> "idle"]

---------------------------------------------------------------------------
(* The service document.                                                   *)

End == <<0>>

\* prepare's serialization
Document(keys, approvals, key_id) ==
    << [service_configuration_version |-> 1, authorization_keys |-> keys,
        approvals |-> approvals, receipt_signing_key_id |-> key_id], End >>

\* decode_hex of encode_hex gives the bytes back; the empty text is refused.
HexIsValid(bytes, max) == Len(bytes) \in 1..max

\* decode_approval
ApprovalIsValid(approval) ==
    /\ Len(approval.label) <= Limits.identity /\ AllIn(approval.label, 32..126)
    /\ HexIsValid(approval.signed_grant, Limits.signedGrant)

\* The length of a document, without the names and the layout of its members; hex has
\* two digits for a byte.
DocumentLength(bytes) ==
    LET Key(n, t)      == n + Len(t.key_id) + 2
        Approval(n, a) == n + Len(a.label) + 2 * Len(a.signed_grant)
        Length(d) == Len(d.receipt_signing_key_id) + FoldLeft(Key, 0, d.authorization_keys)
                     + FoldLeft(Approval, 0, d.approvals)
    IN IF bytes = <<>> THEN 0 ELSE Length(bytes[1])

\* parse_service_operator_document: the fields, or None.  BoundedVec and
\* MapOnly are the bounds on both arrays and the shape of the record.
ParseDocument(bytes) ==
    LET FieldsAreValid(d) ==
            /\ d.service_configuration_version = 1
            /\ IdentityIsValid(d.receipt_signing_key_id)
            /\ Len(d.authorization_keys) <= DocumentKeysMax
            /\ Len(d.approvals) <= DocumentApprovalsMax
            /\ \A i \in DOMAIN d.authorization_keys : TrustIsValid(d.authorization_keys[i])
            /\ \A i \in DOMAIN d.approvals : ApprovalIsValid(d.approvals[i])
    IN IF Len(bytes) = 2 /\ DocumentLength(bytes) <= Limits.document
       THEN Checked(bytes[1], FieldsAreValid) ELSE None

Handle(effect, authorization, key) ==
    [effect |-> effect, authorization |-> authorization, key |-> key]

Unverified == Handle("none", None, None)

\* Mutant of HandleOf: an approval without a target is selectable.
HandleOfUnbound(k, g, key) ==
    IF k.status = "verified" THEN Handle("kubernetes", k.authorization, key)
    ELSE IF g.status = "verified" THEN Handle("git", g.authorization, key)
    ELSE Unverified

\* approved_handle, for one appointment: Kubernetes first, then Git; a
\* Kubernetes grant without a target is refused as soon as it verifies.
HandleOf(k, g, key) ==
    IF k.status = "verified"
    THEN IF k.authorization.approved_target = None THEN Handle("refused", None, None)
         ELSE Handle("kubernetes", k.authorization, key)
    ELSE IF g.status = "verified" THEN Handle("git", g.authorization, key)
    ELSE Unverified

\* approved_handle: the first appointment that verifies the grant decides.
ApprovedHandle(grant, trusts) ==
    LET found[i \in 0..Len(trusts)] ==
            IF i = 0 THEN Unverified
            ELSE IF found[i - 1] # Unverified THEN found[i - 1]
            ELSE HandleOf(VerifyAuthorizationGrant(grant, trusts[i]),
                          VerifyGitRefGrant(grant, trusts[i]), trusts[i].public_key)
        Selectable(handle) == handle.effect \in {"kubernetes", "git"}
    IN Checked(found[Len(trusts)], Selectable)

Unique(sequence, Key(_)) ==
    \A i, j \in DOMAIN sequence : Key(sequence[i]) = Key(sequence[j]) => i = j

\* ServiceApplication::validate_static_configuration
StaticallyValid(d) ==
    LET HandlesAreValid(handles) ==
            /\ \A i \in DOMAIN handles : handles[i] # None
            /\ Unique(handles, LAMBDA h : h.authorization.operation_id)
    IN /\ Unique(d.authorization_keys, LAMBDA t : t.key_id)
       /\ HandlesAreValid([i \in DOMAIN d.approvals |->
             ApprovedHandle(d.approvals[i].signed_grant, d.authorization_keys)])

\* validate_document_bytes
DocumentIsAccepted(bytes) ==
    LET Accepted(d) == d # None /\ StaticallyValid(d)
    IN Accepted(ParseDocument(bytes))

---------------------------------------------------------------------------
(* Commands.                                                               *)

\* read_bounded, with open_within_limit and read_opened_bounded: the bytes of
\* a regular file, or None.
ReadBounded(path, max) ==
    IF files[path] = None \/ Len(files[path].bytes) > max THEN None ELSE files[path].bytes

\* A process runs one command after the other, its options parsed.
Start(p) ==
    /\ commands[p].pc \in {"idle", "done", "inspected"}
    /\ started < IF touched = {} THEN MaxCommands ELSE MaxCommandsEdited
    /\ started' = started + 1

Set(p, command) == commands' = [commands EXCEPT ![p] = command]

\* run: the command ends with an output or with a class of CommandError.
EndWith(p, result) ==
    /\ Set(p, [pc |-> "done", result |-> result])
    /\ UNCHANGED directory

\* publish_grant and the end of prepare, up to the creation of the output
Publish(p, path, bytes) == Set(p, [pc |-> "create", path |-> path, bytes |-> bytes])

\* provision: without a target the grant is complete; with one, this first
\* signature only validates the proposal before the receiver is read.
Provision(p, proposal, signer, path, snapshot) ==
    LET With(grant) ==
            \/ /\ grant = Refused
               /\ EndWith(p, "input")
               /\ UNCHANGED approved
            \/ /\ grant # Refused
               /\ snapshot
               /\ Set(p, [pc |-> "identify", proposal |-> proposal,
                          signer |-> signer, path |-> path])
               /\ UNCHANGED <<directory, approved>>
            \/ /\ grant # Refused
               /\ ~snapshot
               /\ Publish(p, path, grant)
               /\ approved' = approved \cup {Handle("kubernetes", proposal, signer.key)}
               /\ UNCHANGED directory
    IN /\ Start(p)
       /\ With(SignAuthorizationGrant(proposal, signer.key, signer.key_id))
       /\ UNCHANGED world

\* provision_snapshot_grant after its first signature: adapter.identify reads
\* the live Deployment, or fails.
Identify(p) ==
    LET c == commands[p]
        With(a, grant) ==
            IF grant = Refused
            THEN EndWith(p, "input") /\ UNCHANGED approved
            ELSE /\ Publish(p, c.path, grant)
                 /\ approved' = approved \cup {Handle("kubernetes", a, c.signer.key)}
                 /\ UNCHANGED directory
        SignFor(a) == With(a, SignAuthorizationGrant(a, c.signer.key, c.signer.key_id))
    IN /\ c.pc = "identify"
       /\ \/ EndWith(p, "input") /\ UNCHANGED approved
          \/ SignFor([c.proposal EXCEPT !.approved_target = Versions[version]])
       /\ UNCHANGED <<world, started>>

\* provision_git: sign, then the preflight of the prepared repository, which
\* may refuse.
ProvisionGit(p, proposal, signer, path) ==
    LET With(grant) ==
            /\ grant # Refused
            /\ Publish(p, path, grant)
            /\ approved' = approved \cup {Handle("git", proposal, signer.key)}
            /\ UNCHANGED directory
    IN /\ Start(p)
       /\ \/ EndWith(p, "input") /\ UNCHANGED approved
          \/ With(SignGitRefGrant(proposal, signer.key, signer.key_id))
       /\ UNCHANGED world

\* prepare, its options read up to the approvals
StartPrepare(p, keys, paths) ==
    /\ Start(p)
    /\ Set(p, [pc |-> "collect", keys |-> keys, paths |-> paths, approvals |-> <<>>])
    /\ UNCHANGED <<directory, world, approved>>

\* prepare: read_bounded of the next --approval file
CollectApproval(p, label) ==
    /\ commands[p].pc = "collect"
    /\ commands[p].paths # <<>>
    /\ LET c == commands[p]
           grant == ReadBounded(Head(c.paths), Limits.signedGrant)
       IN IF grant = None
          THEN EndWith(p, "configuration")
          ELSE /\ Set(p, [c EXCEPT !.paths = Tail(c.paths),
                                   !.approvals = Append(c.approvals,
                                       [label |-> label, signed_grant |-> grant])])
               /\ UNCHANGED directory
    /\ UNCHANGED <<world, approved, started>>

\* prepare: the document is serialized and validated before it is written.
SerializeDocument(p, key_id) ==
    /\ commands[p].pc = "collect"
    /\ commands[p].paths = <<>>
    /\ LET document == Document(commands[p].keys, commands[p].approvals, key_id)
       IN IF DocumentIsAccepted(document)
          THEN Publish(p, "document", document) /\ UNCHANGED directory
          ELSE EndWith(p, "configuration")
    /\ UNCHANGED <<world, approved, started>>

\* Mutant of CreateOutput: an existing file is truncated and reused.
CreateOrTruncate(p) ==
    /\ commands[p].pc = "create"
    /\ nextId' = nextId + 1
    /\ files' = [files EXCEPT ![commands[p].path] = [id |-> nextId + 1, bytes |-> <<>>]]
    /\ Set(p, [pc |-> "write", path |-> commands[p].path, bytes |-> commands[p].bytes,
               id |-> nextId + 1])
    /\ UNCHANGED <<world, approved, reported, started>>

\* write_new_private: open with create_new
CreateOutput(p) ==
    /\ commands[p].pc = "create"
    /\ LET c == commands[p]
       IN IF files[c.path] # None
          THEN EndWith(p, "configuration")
          ELSE /\ nextId' = nextId + 1
               /\ files' = [files EXCEPT ![c.path] = [id |-> nextId + 1, bytes |-> <<>>]]
               /\ Set(p, [pc |-> "write", path |-> c.path, bytes |-> c.bytes, id |-> nextId + 1])
               /\ UNCHANGED reported
    /\ UNCHANGED <<world, approved, started>>

\* write_new_private: write_all and sync_all.  A failure leaves a prefix in
\* the file, which stays.  A file unlinked meanwhile takes the bytes with it.
WriteOutput(p) ==
    /\ commands[p].pc = "write"
    /\ LET c == commands[p]
           linked == files[c.path] # None /\ files[c.path].id = c.id
           Put(bytes) == files' = IF linked THEN [files EXCEPT ![c.path].bytes = bytes] ELSE files
       IN \/ Put(c.bytes) /\ Set(p, [c EXCEPT !.pc = "confirm"])
          \/ \E n \in {0, Len(c.bytes) - 1} :
               /\ Put(SubSeq(c.bytes, 1, n))
               /\ Set(p, [pc |-> "done", result |-> "configuration"])
    /\ UNCHANGED <<world, nextId, approved, reported, started>>

\* write_new_private: the name still leads to the file that was written, and
\* the command reports PROVISIONED or PREPARED.
ConfirmOutput(p) ==
    /\ commands[p].pc = "confirm"
    /\ LET c == commands[p]
       IN IF files[c.path] # None /\ files[c.path].id = c.id
          THEN /\ Set(p, [pc |-> "done", result |-> "written"])
               /\ reported' = [reported EXCEPT ![c.path] = [id |-> c.id, bytes |-> c.bytes]]
               /\ UNCHANGED <<files, nextId>>
          ELSE EndWith(p, "configuration")
    /\ UNCHANGED <<world, approved, started>>

\* validate: a document over the limit is not read at all.
ValidateConfig(p) ==
    /\ Start(p)
    /\ EndWith(p, IF \/ files["document"] = None
                     \/ DocumentLength(files["document"].bytes) > Limits.document
                  THEN "input"
                  ELSE IF DocumentIsAccepted(files["document"].bytes) THEN "validated_static"
                  ELSE "configuration")
    /\ UNCHANGED <<world, approved>>

---------------------------------------------------------------------------
(* inspect: both files are opened and measured, then read one after the    *)
(* other, then parsed.                                                     *)

TargetProjection(uid, resource_version) == [uid |-> uid, resource_version |-> resource_version]

\* The accessors of ReceiptStatement: every field, as it was parsed.
Fields(s) == [f \in ToSet(StatementFields) \cup {"result", "approved_target"} |-> s[f]]

\* render_inspection_fields: null stands for an absent fact, and for every
\* field of a receipt whose statement is not disclosed.
RenderInspection(report) ==
    LET s == report.statement
    IN IF s = None THEN [status |-> report.status, fields |-> None]
       ELSE [status |-> report.status, fields |-> Fields(s),
             attempt_target |-> TargetProjection(s.target_uid, s.target_resource_version),
             observed_target |-> TargetProjection(s.receiver_uid, s.observed_resource_version)]

\* render_git_inspection
RenderGitInspection(report) ==
    LET s == report.statement
    IN IF s = None THEN [status |-> report.status, fields |-> None]
       ELSE [status |-> report.status, fields |-> s,
             attribution |-> Attribution(s), result |-> GitResult(s)]

Inspected(p, limits, time, receipt, trust, output) ==
    Set(p, [pc |-> "inspected", limits |-> limits, time |-> time,
            receipt |-> receipt, trust |-> trust, output |-> output])

\* inspect up to open_within_limit of both files
OpenInspection(p, limits, time) ==
    /\ Start(p)
    /\ IF ~InspectionLimitsAreValid(limits) \/ files["receipt"] = None
       THEN EndWith(p, "input")
       ELSE /\ IF \/ Len(files["receipt"].bytes) > limits.receipt
                  \/ Len(files["trust"].bytes) > limits.trust
               THEN Inspected(p, limits, time, <<>>, <<>>,
                              RenderInspection(Report("structure_rejected", None)))
               ELSE Set(p, [pc |-> "read_receipt", limits |-> limits, time |-> time])
            /\ UNCHANGED directory
    /\ UNCHANGED <<world, approved>>

\* inspect: read_opened_bounded of the receipt
ReadReceipt(p) ==
    /\ commands[p].pc = "read_receipt"
    /\ LET c == commands[p]
       IN IF ReadBounded("receipt", c.limits.receipt) = None
          THEN EndWith(p, "input")
          ELSE /\ Set(p, [pc |-> "read_trust", limits |-> c.limits, time |-> c.time,
                          receipt |-> files["receipt"].bytes])
               /\ UNCHANGED directory
    /\ UNCHANGED <<world, approved, started>>

\* inspect: read_opened_bounded of the trust, then the inspection itself.
ReadTrust(p) ==
    /\ commands[p].pc = "read_trust"
    /\ LET c == commands[p]
           trust == files["trust"].bytes
           Inspect == IF IsPrefix(GitReceiptMagic, c.receipt)
                      THEN RenderGitInspection(
                             InspectGitReceipt(c.receipt, trust, c.time, c.limits))
                      ELSE RenderInspection(
                             InspectReceipt(c.receipt, trust, c.time, c.limits))
       IN IF ReadBounded("trust", c.limits.trust) = None
          THEN EndWith(p, "input")
          ELSE /\ Inspected(p, c.limits, c.time, c.receipt, trust, Inspect)
               /\ UNCHANGED directory
    /\ UNCHANGED <<world, approved, started>>

---------------------------------------------------------------------------
(* The owner and the receiver.                                             *)

Edits(path, bytes) ==
    LET n == Len(bytes)
    IN {SubSeq(bytes, 1, k) : k \in {0, n - 1} \cap 0..n}
       \cup IF path = "document" THEN {}
            ELSE {Append(bytes, c) : c \in EditCells}
                 \cup {ReplaceAt(bytes, i, c) : i \in DOMAIN bytes, c \in EditCells}

\* Any one cell of a file is changed, lost or added, in place.
Edit(path) ==
    /\ edits < MaxEdits
    /\ started <= MaxCommandsEdited
    /\ files[path] # None
    /\ \E bytes \in Edits(path, files[path].bytes) \ {files[path].bytes} :
         files' = [files EXCEPT ![path].bytes = bytes]
    /\ edits' = edits + 1
    /\ touched' = touched \cup {files[path].id}
    /\ UNCHANGED <<nextId, commands, version, signed, approved, reported, started>>

\* The owner unlinks an output.
Unlink(path) ==
    /\ edits < MaxEdits
    /\ files[path] # None
    /\ files' = [files EXCEPT ![path] = None]
    /\ edits' = edits + 1
    /\ reported' = [reported EXCEPT ![path] = None]
    /\ UNCHANGED <<nextId, commands, version, signed, approved, touched, started>>

\* Somebody changes or re-creates the Deployment.
ChangeDeployment ==
    /\ version < Len(Versions)
    /\ version' = version + 1
    /\ UNCHANGED <<directory, commands, signed, approved, touched, edits, started>>

---------------------------------------------------------------------------

SignedBytes(r) == IF r.git THEN SignGitStatement(r.statement, r.key, r.key_id)
                  ELSE SignStatement(r.statement, r.key, r.key_id)

Init ==
    /\ signed \in Receipts \cup {None}
    /\ \E t \in ReceiptTrusts :
         files = [path \in Paths |->
            IF signed = None THEN None
            ELSE IF path = "receipt" THEN [id |-> 1, bytes |-> SignedBytes(signed)]
            ELSE IF path = "trust" THEN [id |-> 2, bytes |-> EncodeReceiptTrust(t)]
            ELSE None]
    /\ nextId = 2
    /\ commands = [p \in Processes |-> Idle]
    /\ version = 1
    /\ approved = {}
    /\ reported = [path \in Paths |-> None]
    /\ touched = {}
    /\ edits = 0
    /\ started = 0

Command(p) ==
    \/ \E proposal \in Proposals, s \in Signers, path \in GrantPaths, snapshot \in BOOLEAN :
         Provision(p, proposal, s, path, snapshot)
    \/ Identify(p)
    \/ \E proposal \in GitProposals, s \in Signers, path \in GrantPaths :
         ProvisionGit(p, proposal, s, path)
    \/ \E keys \in KeyLists, paths \in ApprovalLists : StartPrepare(p, keys, paths)
    \/ \E label \in Labels : CollectApproval(p, label)
    \/ \E key_id \in ReceiptKeyIds : SerializeDocument(p, key_id)
    \/ CreateOutput(p) \/ WriteOutput(p) \/ ConfirmOutput(p)
    \/ ValidateConfig(p)
    \/ \E limits \in LimitChoices, time \in Times : OpenInspection(p, limits, time)
    \/ ReadReceipt(p) \/ ReadTrust(p)

Next ==
    \/ \E p \in Processes : Command(p)
    \/ \E path \in Paths : Edit(path)
    \/ \E path \in GrantPaths \cup {"document"} : Unlink(path)
    \/ ChangeDeployment

Spec == Init /\ [][Next]_vars

---------------------------------------------------------------------------
(* Properties.                                                             *)

\* Grants in the directory, and those a prepared document carries.
GrantBytes ==
    {files[path].bytes : path \in {g \in GrantPaths : files[g] # None}}

Appointments == {[key_id |-> s.key_id, public_key |-> s.key] : s \in Signers}

\* A grant that verifies, under Kubernetes or under Git rules and whatever
\* happened to its file, is byte for byte the one signing of an approval the
\* owner of that key gave: nothing was added, dropped, re-versioned or carried
\* over between effects (verify_authorization_grant, verify_git_ref_grant).
GrantsAreExact ==
    LET Exact(v, effect, key, bytes, Sign(_)) ==
            v.status = "verified" =>
                /\ Handle(effect, v.authorization, key) \in approved
                /\ bytes = Sign(v.authorization)
    IN \A bytes \in GrantBytes, t \in Appointments :
        /\ Exact(VerifyAuthorizationGrant(bytes, t), "kubernetes", t.public_key, bytes,
                 LAMBDA a : SignAuthorizationGrant(a, t.public_key, t.key_id))
        /\ Exact(VerifyGitRefGrant(bytes, t), "git", t.public_key, bytes,
                 LAMBDA a : SignGitRefGrant(a, t.public_key, t.key_id))

\* What catalogue validation accepts is what the gateway will verify when the
\* entry is selected: a Kubernetes entry has a target and passes
\* verify_grant_with, a Git entry passes GitBinding::verify, with the same
\* approval, in whatever order the keys are appointed.
CatalogueAgreesWithGateway ==
    LET Agree(h, k, g) ==
            /\ k.status # "verified" \/ g.status # "verified"
            /\ h # None <=> \/ k.status = "verified" /\ k.authorization.approved_target # None
                            \/ g.status = "verified"
            /\ h # None => h.authorization =
                 IF h.effect = "kubernetes" THEN k.authorization ELSE g.authorization
    IN \A bytes \in GrantBytes, keys \in {k \in KeyLists : Unique(k, LAMBDA t : t.key_id)} :
           Agree(ApprovedHandle(bytes, keys), VerifyGrantWith(keys, bytes),
                 VerifyGitWith(keys, bytes))

\* Inspection reports a statement only if the service signed exactly that
\* statement with the key of the trust that was read, and INSPECTED only if
\* that trust names the signer and its purpose and covers the time; whatever
\* is edited between opening and reading the two files.
InspectedWasSigned ==
    \A p \in Processes :
        LET c == commands[p]
        IN c.pc = "inspected" /\ c.output.fields # None =>
             LET t == ParseReceiptTrust(c.trust, DefaultTrustLimits)
             IN /\ c.output.fields = signed.statement
                /\ t.public_key = signed.key
                /\ c.output.status = "inspected" =>
                     /\ t.not_before <= c.time /\ c.time < t.not_after
                     /\ c.receipt = SignedBytes([signed EXCEPT !.key_id = t.key_id])
                     /\ t.accepted_purpose =
                          IF signed.git THEN GitReceiptPurpose
                          ELSE IF signed.statement.approved_target # None
                               THEN SnapshotReceiptPurpose ELSE ReceiptPurpose

\* An unedited receipt, inspected under its signer's unedited trust within the
\* trust's interval and with the default limits, is INSPECTED with the facts
\* that were frozen, as the journal decodes it: every optional fact survives
\* encoding and parsing.
WholeReceiptIsInspected ==
    \A p \in Processes :
        LET c == commands[p]
        IN (/\ c.pc = "inspected" /\ c.limits = DefaultLimits
            /\ c.receipt = SignedBytes(signed)
            /\ \E t \in ReceiptTrusts :
                 /\ c.trust = EncodeReceiptTrust(t)
                 /\ t.public_key = signed.key /\ t.key_id = signed.key_id
                 /\ t.accepted_purpose = ReadAll(c.receipt, <<c.receipt[1]>>, 4)[1]
                 /\ c.time \in t.not_before..(t.not_after - 1))
           => /\ c.output = IF signed.git
                             THEN RenderGitInspection(Report("inspected", signed.statement))
                             ELSE RenderInspection(Report("inspected", signed.statement))
              /\ signed.statement = (IF signed.git THEN DecodeGitReceipt(c.receipt)
                                     ELSE DecodeFrozenReceipt(c.receipt)).statement

\* Both: what inspection reports was signed, and what was signed is reported
\* (inspect_receipt, inspect_git_receipt and their renderers).
InspectionIsExact == InspectedWasSigned /\ WholeReceiptIsInspected

\* The receipt of a run under an approval that observed nothing.
BareStatement(i, digest) ==
    [f \in ToSet(StatementFields) \cup {"result", "approved_target"} |->
        CASE f \in DOMAIN i.authorization -> i.authorization[f]
          [] f = "authorization_signer_key_id" -> i.authorization_signing_key_id
          [] f = "authorization_grant_digest" -> digest
          [] f = "write_strategy" -> WriteStrategy
          [] f \in {"target_uid", "target_resource_version"} ->
                IF i.authorization.approved_target = None THEN i.authorization.operation_id
                ELSE IF f = "target_uid" THEN i.authorization.approved_target.uid
                ELSE i.authorization.approved_target.resource_version
          [] f = "result" -> "unknown"
          [] OTHER -> None]

\* Inputs that validate_service_operator_inputs accepts fit together: the
\* receipt a service signs with that seed and key identity, for the approval
\* in that grant, is INSPECTED under that trust.  The function depends on
\* nothing but its arguments: the grants of the first command are enough.
AcceptedInputsMakeInspectableReceipts ==
    LET Inspectable(i, grant, seed, t) ==
            i # None =>
                InspectReceipt(
                    SignStatement(BareStatement(i, DigestHex(grant)), seed,
                                  i.receipt_signing_key_id),
                    EncodeReceiptTrust(t), t.not_before, DefaultLimits).status = "inspected"
        first == {g \in GrantPaths : started = 1 /\ reported[g] # None}
    IN \A grant \in {reported[g].bytes : g \in first}, key, seed \in Keys, t \in ReceiptTrusts :
           Inspectable(ValidateServiceOperatorInputs(grant, key, seed, EncodeReceiptTrust(t)),
                       grant, seed, t)

\* A command that reported PROVISIONED or PREPARED left its complete output
\* under that name, and no other command has replaced or truncated it since.
ReportedIsWhole ==
    \A path \in Paths :
        reported[path] # None =>
            /\ files[path] # None
            /\ files[path].id = reported[path].id
            /\ files[path].id \in touched \/ files[path].bytes = reported[path].bytes

\* Every entry of a document that was reported PREPARED was approved by the
\* holder of a key the document appoints, and a Kubernetes entry names a
\* Deployment version that was live when it was signed.
PreparedWasApproved ==
    LET r == reported["document"]
    IN r # None =>
        \A i \in DOMAIN r.bytes[1].approvals :
            \E a \in approved :
                /\ a.key \in {k.public_key : k \in ToSet(r.bytes[1].authorization_keys)}
                /\ \E s \in Signers :
                     r.bytes[1].approvals[i].signed_grant =
                        IF a.effect = "git" THEN SignGitRefGrant(a.authorization, a.key, s.key_id)
                        ELSE SignAuthorizationGrant(a.authorization, a.key, s.key_id)
                /\ a.effect = "kubernetes" =>
                     a.authorization.approved_target \in {Versions[v] : v \in 1..version}

\* Both: a report of success names a complete file, and a document whose
\* entries were all approved.
ReportIsTrue == ReportedIsWhole /\ PreparedWasApproved
=============================================================================
