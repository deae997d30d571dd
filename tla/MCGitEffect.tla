---------------------------- MODULE MCGitEffect ----------------------------
(***************************************************************************)
(* Small instances of GitEffect.                                           *)
(***************************************************************************)
EXTENDS GitEffect, TLC

CONSTANTS o1, o2, a, b, c

Grant(o, old, new) == [operation |-> o, old |-> old, new |-> new]

\* One transition, approved once.
OneGrant == {Grant(o1, a, b)}

\* The same identity approved for a fast-forward and for an update that is none.
ReplacedGrants == {Grant(o1, a, b), Grant(o1, b, a)}

\* The same, and an operation that approves the first transition once more.
ContestedGrants == ReplacedGrants \cup {Grant(o2, a, b)}

Line == {<<a, b>>, <<b, c>>, <<a, c>>}

WorkerSymmetry == Permutations(Workers)
=============================================================================
