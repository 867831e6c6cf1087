-------------------------- MODULE StateQueryProofs --------------------------
(***************************************************************************)
(* query_contract_state(n_retries=N) implements Retrier.call_with_retry    *)
(* with budget N, or n_total_msg_retries when N is None, for every N.      *)
(* The argument is the constant N here, so that the retrier is an          *)
(* unparameterised instance; StateQueryRefinesRetrier, which TLC checks,  *)
(* is the conjunction of these instances over the arguments of a run.     *)
(***************************************************************************)
EXTENDS QueriesProofs

CONSTANT N    \* the n_retries argument the theorem is about

\* The retrier seen by query_contract_state(n_retries=N).
StateRetrier == INSTANCE Retrier WITH
    NRetries      <- StateBudget(N),
    attempt       <- IF StateCall(N) THEN attempt ELSE 0,
    response      <- IF StateCall(N) THEN res ELSE "none",
    lastException <- IF StateCall(N) THEN lastException ELSE FALSE,
    sleeps        <- IF StateCall(N) THEN sleeps ELSE 0,
    status        <- IF StateCall(N) THEN RetrierStatus ELSE "running"

LEMMA StateStepSimulation ==
    ASSUME QInv, [Next]_vars, op' = op, nArg' = nArg
    PROVE  [StateRetrier!Next]_(StateRetrier!vars)
  <1>1. CASE ~StateCall(N)
    BY <1>1 DEF StateRetrier!vars, StateCall
  <1>2. CASE StateCall(N)
    <2>0. StateCall(N) /\ StateCall(N)' /\ QueryBudget = StateBudget(N)
      BY <1>2 DEF QueryBudget, StateCall, StateBudget
    <2>1. CASE Construct
      BY <2>0, <2>1 DEF Construct, Raise, QInv, StateRetrier!vars, RetrierStatus
    <2>2. ASSUME NEW o \in CallOutcomes, QueryAttempt(o) PROVE StateRetrier!Next
      <3>1. pc = "loop" /\ res = "none" /\ outcome = "none" /\ attempt < StateBudget(N)
            /\ attempt' = attempt + 1
            /\ UNCHANGED <<outcome, chained>>
        BY <2>0, <2>2 DEF QueryAttempt, QInv
      <3>2. CASE o = "value"
        <4>1. res' = "value" /\ UNCHANGED <<lastException, sleeps>>
          BY <2>2, <3>2 DEF QueryAttempt
        <4>2. StateRetrier!CallAttempt("value")
          BY <2>0, <3>1, <4>1 DEF StateRetrier!CallAttempt, RetrierStatus
        <4>3. QED
          BY <4>2 DEF StateRetrier!Next, StateRetrier!CallOutcomes
      <3>3. CASE o = "none"
        <4>1. res' = "none" /\ UNCHANGED <<lastException, sleeps>>
          BY <2>2, <3>3 DEF QueryAttempt
        <4>2. StateRetrier!CallAttempt("none")
          BY <2>0, <3>1, <4>1 DEF StateRetrier!CallAttempt, RetrierStatus
        <4>3. QED
          BY <4>2 DEF StateRetrier!Next, StateRetrier!CallOutcomes
      <3>4. CASE o = "exception"
        <4>1. res' = "none" /\ lastException' = TRUE /\ sleeps' = sleeps + 1
          BY <2>2, <3>1, <3>4 DEF QueryAttempt
        <4>2. StateRetrier!CallAttempt("exception")
          BY <2>0, <3>1, <4>1 DEF StateRetrier!CallAttempt, RetrierStatus
        <4>3. QED
          BY <4>2 DEF StateRetrier!Next, StateRetrier!CallOutcomes
      <3>5. QED
        BY <3>2, <3>3, <3>4 DEF CallOutcomes
    <2>3. CASE StateQueryExhausted \/ BalanceQueryExhausted
      <3>1. /\ pc = "loop" /\ res = "none" /\ outcome = "none"
            /\ ~(attempt < StateBudget(N)) /\ outcome' = "BroadcastException"
            /\ UNCHANGED <<attempt, res, lastException, sleeps>>
        BY <2>0, <2>3 DEF StateQueryExhausted, BalanceQueryExhausted, Raise, QInv
      <3>2. StateRetrier!Exhaust
        BY <2>0, <3>1 DEF StateRetrier!Exhaust, RetrierStatus
      <3>3. QED
        BY <3>2 DEF StateRetrier!Next
    <2>4. CASE ConvertContractState \/ ConvertBalance
      BY <2>0, <2>4 DEF ConvertContractState, ConvertBalance, Raise, QInv,
                        StateRetrier!vars, RetrierStatus
    <2>5. ASSUME NEW r \in NodeReplies, CheckAvailability(r)
          PROVE UNCHANGED StateRetrier!vars
      BY <2>0, <2>5 DEF CheckAvailability, Raise, QInv, StateRetrier!vars, RetrierStatus
    <2>6. CASE Finished \/ UNCHANGED vars
      <3>1. UNCHANGED <<op, nArg, attempt, res, lastException, sleeps, outcome>>
        BY <2>6 DEF Finished, vars
      <3>2. QED
        BY <3>1 DEF StateRetrier!vars, RetrierStatus, StateCall
    <2>7. QED
      BY <2>1, <2>2, <2>3, <2>4, <2>5, <2>6 DEF Next, Client
  <1>3. QED
    BY <1>1, <1>2

(* For every n_retries argument N, query_contract_state(n_retries=N) is    *)
(* call_with_retry with budget N (n_total_msg_retries when N is None): an  *)
(* explicit 0 makes no call, the loop never overruns or stops short, and   *)
(* it sleeps only after an exception.                                      *)
THEOREM StateRefinement == Spec => StateRetrier!Spec
  <1>1. Init => StateRetrier!Init
    BY DEF Init, StateRetrier!Init, RetrierStatus
  <1>2. QInv /\ [Next]_vars => [StateRetrier!Next]_(StateRetrier!vars)
    BY StateStepSimulation, CallFixed
  <1>3. QED
    BY <1>1, <1>2, InitQInv, NextQInv, PTL DEF Spec, StateRetrier!Spec
=============================================================================
