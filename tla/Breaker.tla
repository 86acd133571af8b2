------------------------------- MODULE Breaker -------------------------------
(***************************************************************************)
(* The circuit breakers of the providers                                   *)
(* (internal/service/provider/circuit_breaker.go).  Each method holds the  *)
(* breaker's mutex from its first to its last statement, so each operator  *)
(* is (part of) an atomic step.                                            *)
(***************************************************************************)
EXTENDS Integers

CONSTANTS
    Names,            \* the providers
    FailureThreshold  \* the failures in a row that open a breaker

ASSUME BreakerAssumption == FailureThreshold \in Nat \ {0}

VARIABLE breaker

\* cooled: the reset timeout has passed since the last failure.
BreakerType == [state : {"closed", "open", "half-open"}, failures : Nat, cooled : BOOLEAN]

\* Get makes a breaker on first use, under a lock; lastFailure is then the zero time.
NewBreaker == [state |-> "closed", failures |-> 0, cooled |-> TRUE]

\* Mutant: the failures start anew with the probe.
Allow_ResetFailures(p) ==
    \/ breaker[p].state \in {"closed", "half-open"} /\ UNCHANGED breaker
    \/ /\ breaker[p].state = "open"
       /\ breaker[p].cooled
       /\ breaker' = [breaker EXCEPT ![p].state = "half-open", ![p].failures = 0]

\* The breaker lets a request through.  Half-open, it lets every request through.
Allow(p) ==
    \/ breaker[p].state \in {"closed", "half-open"} /\ UNCHANGED breaker
    \/ /\ breaker[p].state = "open"
       /\ breaker[p].cooled
       /\ breaker' = [breaker EXCEPT ![p].state = "half-open"]

\* The breaker turns a request down.
Blocked(p) == breaker[p].state = "open" /\ ~breaker[p].cooled

\* A success closes the breaker whatever its state, also one that comes late.
RecordSuccess(p) ==
    breaker' = [breaker EXCEPT ![p].state = "closed", ![p].failures = 0]

RecordFailure(p) ==
    LET failures == breaker[p].failures + 1 IN
    breaker' = [breaker EXCEPT
        ![p].failures = failures,
        ![p].cooled = FALSE,
        ![p].state = IF failures >= FailureThreshold THEN "open" ELSE @]

\* The reset timeout of an open breaker passes: in the other states nothing looks at it,
\* and a breaker opens with a failure that is new.
Cool(p) ==
    /\ Blocked(p)
    /\ breaker' = [breaker EXCEPT ![p].cooled = TRUE]
=============================================================================
