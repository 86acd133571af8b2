------------------------------- MODULE MCWallet -------------------------------
(***************************************************************************)
(* Values of the constants of Wallet for TLC.                              *)
(***************************************************************************)
EXTENDS Wallet, TLC

Call(kind, ref, amount, fee) == [kind |-> kind, ref |-> ref, amount |-> amount, fee |-> fee]

\* Deposits that may be duplicates of each other, withdrawals with and without a fee
\* (one under a deposit's reference), a lock, its unlock and a read of the balance.
AllRequests ==
    {Call("deposit", "d1", 2, 0), Call("deposit", "d2", 1, 0),
     Call("withdrawal", "w1", 3, 1), Call("withdrawal", "d2", 1, 0),
     Call("lock", "w1", 1, 0), Call("unlock", "w1", 1, 0),
     Call("get_balance", "d1", 1, 0)}

\* Deliveries of one deposit, and a withdrawal.
Duplicates == {Call("deposit", "d1", 2, 0), Call("withdrawal", "w1", 3, 1)}

\* Calls are interchangeable.
CallSymmetry == Permutations(Calls)
=============================================================================
