------------------------------ MODULE Retrier ------------------------------
(***************************************************************************)
(* Retrier.call_with_retry (src/cosmpy/clients/ledger.py, class Retrier):  *)
(* call a fallible operation up to n_retries times.  An attempt ends the   *)
(* loop when the call returns a non-None response; a call that raises is   *)
(* remembered as last_exception and followed by a sleep; a call that       *)
(* returns None is retried at once.  When the loop ends without a response *)
(* the retrier raises exception_type carrying the last exception.          *)
(*                                                                         *)
(* The wrapped call is the environment: each attempt's outcome is chosen   *)
(* from CallOutcomes.  Sleeping is counted, since the number of sleeps is  *)
(* what the documented contract talks about.                               *)
(***************************************************************************)
EXTENDS Naturals, TLAPS

CONSTANT NRetries       \* Retrier.n_retries

ASSUME NRetriesAssumption == NRetries \in Nat

\* What one call of the wrapped operation can do.
CallOutcomes == {"value", "none", "exception"}

VARIABLES
    attempt,        \* loop counter `attempt`
    response,       \* "none" (Python None) or "value"
    lastException,  \* TRUE once some attempt has raised
    sleeps,         \* number of time.sleep(retry_interval) calls so far
    status          \* "running", "returned" (value returned) or "raised"

vars == <<attempt, response, lastException, sleeps, status>>

TypeOK ==
    /\ attempt \in 0..NRetries
    /\ response \in {"none", "value"}
    /\ lastException \in BOOLEAN
    /\ sleeps \in 0..NRetries
    /\ status \in {"running", "returned", "raised"}

Init ==
    /\ attempt = 0
    /\ response = "none"
    /\ lastException = FALSE
    /\ sleeps = 0
    /\ status = "running"

\* Mutant: the loop guard reads attempt <= n_retries (one call too many).
CallAttemptOverrun(outcome) ==
    /\ status = "running"
    /\ attempt <= NRetries
    /\ attempt' = attempt + 1
    /\ CASE outcome = "value" ->
              /\ response' = "value"
              /\ status' = "returned"
              /\ UNCHANGED <<lastException, sleeps>>
         [] outcome = "none" ->
              /\ response' = "none"
              /\ UNCHANGED <<lastException, sleeps, status>>
         [] outcome = "exception" ->
              /\ lastException' = TRUE
              /\ sleeps' = sleeps + 1
              /\ UNCHANGED <<response, status>>

(***************************************************************************)
(* One iteration of the while loop: attempt += 1, then the call.  A        *)
(* non-None response breaks out of the loop and is returned; an exception  *)
(* is remembered and slept on; a None response loops again without sleep.  *)
(***************************************************************************)
CallAttempt(outcome) ==
    /\ status = "running"
    /\ attempt < NRetries
    /\ attempt' = attempt + 1
    /\ CASE outcome = "value" ->
              /\ response' = "value"
              /\ status' = "returned"
              /\ UNCHANGED <<lastException, sleeps>>
         [] outcome = "none" ->
              /\ response' = "none"
              /\ UNCHANGED <<lastException, sleeps, status>>
         [] outcome = "exception" ->
              /\ lastException' = TRUE
              /\ sleeps' = sleeps + 1
              /\ UNCHANGED <<response, status>>

\* Mutant: the retrier gives up one attempt before its budget.
ExhaustEarly ==
    /\ status = "running"
    /\ ~(attempt < NRetries - 1)
    /\ response = "none"
    /\ status' = "raised"
    /\ UNCHANGED <<attempt, response, lastException, sleeps>>

\* Mutant: the retrier raises only when some attempt raised an exception.
ExhaustOnlyAfterException ==
    /\ status = "running"
    /\ ~(attempt < NRetries)
    /\ response = "none"
    /\ lastException
    /\ status' = "raised"
    /\ UNCHANGED <<attempt, response, lastException, sleeps>>

(***************************************************************************)
(* The loop condition fails with no response: raise exception_type.        *)
(***************************************************************************)
Exhaust ==
    /\ status = "running"
    /\ ~(attempt < NRetries)
    /\ response = "none"
    /\ status' = "raised"
    /\ UNCHANGED <<attempt, response, lastException, sleeps>>

\* The call has returned or raised; nothing more happens.
Finished ==
    /\ status # "running"
    /\ UNCHANGED vars

Next ==
    \/ \E o \in CallOutcomes : CallAttempt(o)
    \/ Exhaust
    \/ Finished

Spec == Init /\ [][Next]_vars

\* The caller's thread runs the loop to its end: weak fairness of its steps.
FairSpec == Spec /\ WF_vars(\E o \in CallOutcomes : CallAttempt(o)) /\ WF_vars(Exhaust)

-----------------------------------------------------------------------------
(***************************************************************************)
(* Properties.                                                             *)
(***************************************************************************)

(* When the retrier raises, it has made exactly n_retries calls: the       *)
(* budget is neither cut short nor overrun (spec: "raises RetryExhausted   *)
(* after exactly K attempts").                                             *)
RaisesOnlyAfterBudget ==
    status = "raised" => attempt = NRetries

(* Every call_with_retry ends, returning or raising, whatever the wrapped  *)
(* call does on each attempt, including returning None forever.            *)
Terminates == <>(status # "running")

(* The documented sleep policy: one sleep between consecutive failed       *)
(* attempts and none after the last one ("on failure, if attempts remain,  *)
(* sleep interval and retry"), so a finished call made attempt - 1 sleeps. *)
SleepsBetweenFailedAttempts ==
    status # "running" => sleeps = attempt - 1
-----------------------------------------------------------------------------
(***************************************************************************)
(* Proofs, for every budget.  The strengthening: sleeps never outnumber    *)
(* attempts, and the loop only ends on the budget or on a value.           *)
(***************************************************************************)
IInv ==
    /\ TypeOK
    /\ sleeps <= attempt
    /\ RaisesOnlyAfterBudget

LEMMA InitIInv == Init => IInv
  <1> SUFFICES ASSUME Init PROVE IInv
    OBVIOUS
  <1>1. attempt \in 0..NRetries /\ sleeps \in 0..NRetries /\ sleeps <= attempt
    BY NRetriesAssumption DEF Init
  <1>2. QED
    BY <1>1 DEF Init, IInv, TypeOK, RaisesOnlyAfterBudget

LEMMA NextIInv == IInv /\ [Next]_vars => IInv'
  <1> SUFFICES ASSUME IInv, [Next]_vars PROVE IInv'
    OBVIOUS
  <1>1. ASSUME NEW o \in CallOutcomes, CallAttempt(o) PROVE IInv'
    <2>1. status = "running" /\ attempt' = attempt + 1 /\ attempt + 1 <= NRetries
      BY <1>1, NRetriesAssumption DEF CallAttempt, IInv, TypeOK
    <2>2. CASE o = "value"
      BY <1>1, <2>1, <2>2 DEF CallAttempt, IInv, TypeOK, RaisesOnlyAfterBudget
    <2>3. CASE o = "none"
      BY <1>1, <2>1, <2>3 DEF CallAttempt, IInv, TypeOK, RaisesOnlyAfterBudget
    <2>4. CASE o = "exception"
      <3>1. sleeps' = sleeps + 1 /\ UNCHANGED <<response, status>> /\ lastException' = TRUE
        BY <1>1, <2>4 DEF CallAttempt
      <3>2. sleeps' \in 0..NRetries /\ sleeps' <= attempt' /\ attempt' \in 0..NRetries
        BY <2>1, <3>1, NRetriesAssumption DEF IInv, TypeOK
      <3>3. QED
        BY <2>1, <3>1, <3>2 DEF IInv, TypeOK, RaisesOnlyAfterBudget
    <2>5. QED
      BY <2>2, <2>3, <2>4 DEF CallOutcomes
  <1>2. CASE Exhaust
    BY <1>2, NRetriesAssumption DEF Exhaust, IInv, TypeOK, RaisesOnlyAfterBudget
  <1>3. CASE Finished \/ UNCHANGED vars
    BY <1>3 DEF Finished, IInv, TypeOK, RaisesOnlyAfterBudget, vars
  <1>4. QED
    BY <1>1, <1>2, <1>3 DEF Next

(* For every n_retries, call_with_retry raises only after it has made      *)
(* exactly n_retries calls, and its counters stay within the budget.       *)
THEOREM RetrierSafety == Spec => [](TypeOK /\ RaisesOnlyAfterBudget)
  <1>1. IInv => TypeOK /\ RaisesOnlyAfterBudget
    BY DEF IInv
  <1>2. QED
    BY InitIInv, NextIInv, <1>1, PTL DEF Spec

(* For every n_retries, the loop counter and the number of sleeps of      *)
(* call_with_retry stay within 0..n_retries.                               *)
THEOREM RetrierTypeCorrect == Spec => []TypeOK
  BY RetrierSafety, PTL
=============================================================================
