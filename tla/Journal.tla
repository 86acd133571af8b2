------------------------------- MODULE Journal -------------------------------
(***************************************************************************)
(* What the wallet promises about its book of transactions, whatever fails *)
(* and however calls interleave: a reference is entered at most once and   *)
(* the entry never changes; an entry is the one its call asked for; and a  *)
(* call that answers "ok" finds its reference in the book.                 *)
(***************************************************************************)
EXTENDS Integers

CONSTANTS Refs, Calls, NoTx

VARIABLES book, req, answer

vars == <<book, req, answer>>

\* The kinds of call that enter a transaction.
Posting == {"deposit", "withdrawal"}

\* The entry a call asks for: a withdrawal takes amount and fee.
EntryOf(c) == [type |-> req[c].kind, amount |-> req[c].amount + req[c].fee, by |-> c]

Init ==
    /\ book = [r \in Refs |-> NoTx]
    /\ answer = [c \in Calls |-> "none"]

Enter(c) ==
    /\ req[c].kind \in Posting
    /\ answer[c] = "none"
    /\ book[req[c].ref] = NoTx
    /\ book' = [book EXCEPT ![req[c].ref] = EntryOf(c)]
    /\ UNCHANGED <<req, answer>>

Reply(c) ==
    /\ answer[c] = "none"
    /\ \/ /\ req[c].kind \in Posting => book[req[c].ref] # NoTx
          /\ answer' = [answer EXCEPT ![c] = "ok"]
       \/ answer' = [answer EXCEPT ![c] = "error"]
    /\ UNCHANGED <<book, req>>

Next == \E c \in Calls : Enter(c) \/ Reply(c)

Spec == Init /\ [][Next]_vars
=============================================================================
