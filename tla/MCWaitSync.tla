----------------------------- MODULE MCWaitSync -----------------------------
(* Instances of WaitSync for TLC. *)
EXTENDS WaitSync, TLC
CONSTANTS w1, w2, w3, h1, r1, r2, r3

Of(kind, reqs) == [kind |-> kind, reqs |-> reqs]

\* Either two threads wait, one of them for several requests of which one may
\* fail, or three; one more thread progresses.
MCWaiters == {w1, w2, w3}
MCHelpers == {h1}
MCRequests == {r1, r2, r3}
MCMayFail == {r2}
MCPlans ==
    {(w1 :> first @@ w2 :> Of("wait", <<r3>>) @@ w3 :> Of("all", <<>>)) :
        first \in {Of("any", <<r1, r2>>), Of("all", <<Null, r1, r2>>), Of("some", <<r1, r2>>)}}
    \cup {(w1 :> Of("wait", <<r1>>) @@ w2 :> Of("wait", <<r2>>) @@ w3 :> Of("wait", <<r3>>))}
=============================================================================
