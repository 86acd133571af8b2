------------------------------ MODULE MCPayroll ------------------------------
(* Values for TLC: one run with two employees, one of whom has a loan. *)
EXTENDS Payroll, TLC

CONSTANTS r1, e1, e2, c1, c2

Ask(op) == [op |-> op, run |-> r1, emp |-> e1]
AllRequests == {Ask(op) : op \in Ops}
Symmetry == Permutations({c1, c2})
Given(approval, auto, durable, mapped) ==
    [requiresApproval |-> approval, autoProcess |-> auto, durable |-> durable, mapped |-> mapped]
Businesses == {Given(TRUE, FALSE, TRUE, {e1, e2}), Given(TRUE, TRUE, TRUE, {e1, e2}),
               Given(FALSE, FALSE, FALSE, {e1, e2}), Given(FALSE, TRUE, TRUE, {e1, e2}),
               Given(TRUE, FALSE, TRUE, {})}
=============================================================================
