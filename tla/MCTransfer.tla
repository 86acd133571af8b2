------------------------------ MODULE MCTransfer ------------------------------
(***************************************************************************)
(* Values of the constants of Transfer for TLC.                            *)
(***************************************************************************)
EXTENDS Transfer, TLC

Request(kind, ref, prefers) == [kind |-> kind, ref |-> ref, prefers |-> prefers]

MCRefs == {"t1", "t1-retry", "t2"}
MCAmountOf == [r \in MCRefs |-> IF r = "t2" THEN 1 ELSE 2]
MCRetryRef == [r \in {"t1"} |-> "t1-retry"]
MCProviders == <<"paystack", "vfd">>

\* A transfer that may be submitted again and retried, and another beside it.
MCRequests ==
    {Request("transfer", "t1", NoPreference), Request("retry", "t1", NoPreference),
     Request("transfer", "t2", "paystack"), Request("transfer", "t2", Unavailable)}

\* Calls are interchangeable.
CallSymmetry == Permutations(Calls)
=============================================================================
