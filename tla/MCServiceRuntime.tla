-------------------------- MODULE MCServiceRuntime --------------------------
(***************************************************************************)
(* Instances of ServiceRuntime for TLC.                                    *)
(***************************************************************************)
EXTENDS ServiceRuntime, TLC

CONSTANTS a, b, s1, s2, s3, t1

\* One submission of an operation, and two submissions and a read of another.
ContendedTarget == s1 :> a @@ s2 :> b @@ s3 :> b @@ t1 :> b

TwoCallers == Permutations({s2, s3})

Connected == {r \in Requests : handler[r] # "idle"}

Cancelled == {r \in Requests : supervisor[r] = "finished" /\ closure[r] # "dropped"}

\* One operation is executed, and left unfinished, while another is submitted twice,
\* and no supervisor is cancelled; or a read looks on while one operation is executed
\* twice; or the service is stopped while two requests are served.
Scenarios ==
    \/ /\ serving = "accepting" /\ t1 \notin Connected /\ Cancelled = {}
       /\ role[s1] # "probe" /\ row[a] # "terminal"
    \/ /\ serving = "accepting" /\ s1 \notin Connected
       /\ \A r \in Requests : role[r] # "probe"
    \/ Cardinality(Connected) <= 2

\* Submissions of two operations.
PairTarget == s1 :> a @@ s2 :> b

MCConditions == {"worker_contention", "operation_blocked"}

EmptyJournal == {[o \in Operations |-> "absent"]}

AnyJournal == [Operations -> {"absent", "unfinished", "terminal"}]
=============================================================================
