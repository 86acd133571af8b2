----------------------------- MODULE MCProviders -----------------------------
(* Values for TLC: three providers, three transfers, and what calls may be asked to do. *)
EXTENDS Providers, TLC

CONSTANTS paystack, korapay, vfd, unknown, r1, r2, r3, c1, c2, c3

Clients == (paystack :> "paystack") @@ (korapay :> "korapay") @@ (vfd :> "vfd")
Settings == {[default |-> paystack, fallbacks |-> <<paystack, unknown, vfd>>],
             [default |-> vfd, fallbacks |-> <<korapay>>]}
Single(r) == [op |-> "single", refs |-> <<r>>]
Legacy(r) == [op |-> "legacy", refs |-> <<r>>]
Bulk(refs) == [op |-> "bulk", refs |-> refs]
Given(x, y, z) == (c1 :> x) @@ (c2 :> y) @@ (c3 :> z)
Idle == [op |-> "idle", refs |-> <<r1>>]
Enquiry == [op |-> "enquiry", refs |-> <<r1>>]
Work == {Given(Single(r1), Single(r2), Single(r1)),
         Given(Bulk(<<r1, r2, r3>>), Idle, Idle),
         Given(Bulk(<<r1, r2>>), Legacy(r1), Idle),
         Given(Legacy(r1), Legacy(r1), Single(r1)),
         Given(Enquiry, Single(r2), Idle)}
=============================================================================
