---------------------------- MODULE MCInstallation ----------------------------
(***************************************************************************)
(* Instances of Installation for TLC.                                      *)
(***************************************************************************)
EXTENDS Installation, TLC

CONSTANTS a, b, k1, k2

Grant(o, k, t) == [operation |-> o, key |-> k, tuple |-> t]
Document(approvals, trust) == [approvals |-> approvals, trust |-> trust]

\* Two grants for the same operation under different keys, two under the same key
\* for different tuples, and one for another operation.
MCGrants == {Grant(a, k1, 1), Grant(a, k1, 2), Grant(a, k2, 1), Grant(b, k2, 1)}

FirstDocument == Document({Grant(a, k1, 1)}, {k1})

\* A rotated key with the approval signed again, with and without the old key;
\* another tuple for the same identity; a catalogue without it and without its
\* key; one that keeps the key; an approval that its trust does not authenticate.
MCDocuments ==
    {FirstDocument,
     Document({Grant(a, k2, 1)}, {k1, k2}),
     Document({Grant(a, k2, 1)}, {k2}),
     Document({Grant(a, k1, 2), Grant(b, k2, 1)}, {k1, k2}),
     Document({Grant(b, k2, 1)}, {k2}),
     Document({}, {k1}),
     Document({Grant(b, k2, 1)}, {k1})}

RunSymmetry == Permutations(Runs)
=============================================================================
