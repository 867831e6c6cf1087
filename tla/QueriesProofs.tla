--------------------------- MODULE QueriesProofs ---------------------------
(***************************************************************************)
(* Proofs about Queries: the query loops of get_balance, get_balances and  *)
(* query_contract_state implement Retrier.call_with_retry, for every       *)
(* n_total_msg_retries and every n_retries argument.                       *)
(***************************************************************************)
EXTENDS Queries, TLAPS

(***************************************************************************)
(* The invariant the step simulation needs: until the loop has a response  *)
(* nothing has ended the call, and a response is converted before the call *)
(* ends.  So the retrier's status is "running" exactly while the loop runs. *)
(***************************************************************************)
QInv ==
    /\ pc \in {"init", "loop", "avail"} => res = "none" /\ outcome = "none"
    /\ pc = "convert" => res = "value" /\ outcome = "none"

LEMMA InitQInv == Init => QInv
  BY DEF Init, QInv

LEMMA NextQInv == QInv /\ [Next]_vars => QInv'
  <1> SUFFICES ASSUME QInv, [Next]_vars PROVE QInv'
    OBVIOUS
  <1>1. CASE Construct
    BY <1>1 DEF Construct, Raise, QInv
  <1>2. ASSUME NEW o \in CallOutcomes, QueryAttempt(o) PROVE QInv'
    BY <1>2 DEF QueryAttempt, QInv
  <1>3. CASE StateQueryExhausted \/ BalanceQueryExhausted
    BY <1>3 DEF StateQueryExhausted, BalanceQueryExhausted, Raise, QInv
  <1>4. CASE ConvertContractState \/ ConvertBalance
    BY <1>4 DEF ConvertContractState, ConvertBalance, Raise, QInv
  <1>5. ASSUME NEW r \in NodeReplies, CheckAvailability(r) PROVE QInv'
    BY <1>5 DEF CheckAvailability, Raise, QInv
  <1>6. CASE Finished \/ UNCHANGED vars
    BY <1>6 DEF Finished, QInv, vars
  <1>7. QED
    BY <1>1, <1>2, <1>3, <1>4, <1>5, <1>6 DEF Next, Client

\* No step changes the operation or the n_retries argument of the call.
LEMMA CallFixed == [Next]_vars => op' = op /\ nArg' = nArg
  BY DEF Next, Client, Construct, QueryAttempt, StateQueryExhausted,
         BalanceQueryExhausted, ConvertContractState, ConvertBalance,
         CheckAvailability, Finished, vars

(***************************************************************************)
(* Step simulation for the retrier seen by get_balance and get_balances:   *)
(* every step of the client is a step of call_with_retry with budget       *)
(* n_total_msg_retries, or leaves its state alone.                         *)
(***************************************************************************)
LEMMA StepSimulation ==
    ASSUME QInv, [Next]_vars, op' = op
    PROVE  [BalanceRetrier!Next]_(BalanceRetrier!vars)
  <1>1. CASE op \notin {"balance", "balances"}
    BY <1>1 DEF BalanceRetrier!vars
  <1>2. CASE op \in {"balance", "balances"}
    <2> DEFINE sel == op \in {"balance", "balances"}
               n == NTotalMsgRetries
    <2>0. sel /\ sel' /\ QueryBudget = n
      BY <1>2 DEF QueryBudget
    <2>1. CASE Construct
      BY <2>0, <2>1 DEF Construct, Raise, QInv, BalanceRetrier!vars, RetrierStatus
    <2>2. ASSUME NEW o \in CallOutcomes, QueryAttempt(o) PROVE BalanceRetrier!Next
      <3>1. pc = "loop" /\ res = "none" /\ outcome = "none" /\ attempt < n
            /\ attempt' = attempt + 1
            /\ UNCHANGED <<outcome, chained>>
        BY <2>0, <2>2 DEF QueryAttempt, QInv
      <3>2. CASE o = "value"
        <4>1. res' = "value" /\ UNCHANGED <<lastException, sleeps>>
          BY <2>2, <3>2 DEF QueryAttempt
        <4>2. BalanceRetrier!CallAttempt("value")
          BY <2>0, <3>1, <4>1 DEF BalanceRetrier!CallAttempt, RetrierStatus
        <4>3. QED
          BY <4>2 DEF BalanceRetrier!Next, BalanceRetrier!CallOutcomes
      <3>3. CASE o = "none"
        <4>1. res' = "none" /\ UNCHANGED <<lastException, sleeps>>
          BY <2>2, <3>3 DEF QueryAttempt
        <4>2. BalanceRetrier!CallAttempt("none")
          BY <2>0, <3>1, <4>1 DEF BalanceRetrier!CallAttempt, RetrierStatus
        <4>3. QED
          BY <4>2 DEF BalanceRetrier!Next, BalanceRetrier!CallOutcomes
      <3>4. CASE o = "exception"
        <4>1. res' = "none" /\ lastException' = TRUE /\ sleeps' = sleeps + 1
          BY <2>2, <3>1, <3>4 DEF QueryAttempt
        <4>2. BalanceRetrier!CallAttempt("exception")
          BY <2>0, <3>1, <4>1 DEF BalanceRetrier!CallAttempt, RetrierStatus
        <4>3. QED
          BY <4>2 DEF BalanceRetrier!Next, BalanceRetrier!CallOutcomes
      <3>5. QED
        BY <3>2, <3>3, <3>4 DEF CallOutcomes
    <2>3. CASE StateQueryExhausted \/ BalanceQueryExhausted
      <3>1. /\ pc = "loop" /\ res = "none" /\ outcome = "none"
            /\ ~(attempt < n) /\ outcome' = "BroadcastException"
            /\ UNCHANGED <<attempt, res, lastException, sleeps>>
        BY <2>0, <2>3 DEF StateQueryExhausted, BalanceQueryExhausted, Raise, QInv
      <3>2. BalanceRetrier!Exhaust
        BY <2>0, <3>1 DEF BalanceRetrier!Exhaust, RetrierStatus
      <3>3. QED
        BY <3>2 DEF BalanceRetrier!Next
    <2>4. CASE ConvertContractState \/ ConvertBalance
      BY <2>0, <2>4 DEF ConvertContractState, ConvertBalance, Raise, QInv,
                        BalanceRetrier!vars, RetrierStatus
    <2>5. ASSUME NEW r \in NodeReplies, CheckAvailability(r)
          PROVE UNCHANGED BalanceRetrier!vars
      BY <2>0, <2>5 DEF CheckAvailability, Raise, QInv, BalanceRetrier!vars, RetrierStatus
    <2>6. CASE Finished \/ UNCHANGED vars
      <3>1. UNCHANGED <<op, attempt, res, lastException, sleeps, outcome>>
        BY <2>6 DEF Finished, vars
      <3>2. UNCHANGED BalanceRetrier!vars
        BY <3>1 DEF BalanceRetrier!vars, RetrierStatus
      <3>3. QED
        BY <3>2
    <2>7. QED
      BY <2>1, <2>2, <2>3, <2>4, <2>5, <2>6 DEF Next, Client
  <1>3. QED
    BY <1>1, <1>2

(* get_balance and get_balances implement Retrier.call_with_retry with     *)
(* budget n_total_msg_retries, for every value of it: they never overrun   *)
(* or cut short the budget, and sleep only after an exception.             *)
THEOREM BalanceRefinement == Spec => BalanceQueryRefinesRetrier
  <1>1. Init => BalanceRetrier!Init
    BY DEF Init, BalanceRetrier!Init, RetrierStatus
  <1>2. QInv /\ [Next]_vars => [BalanceRetrier!Next]_(BalanceRetrier!vars)
    BY StepSimulation, CallFixed
  <1>3. QED
    BY <1>1, <1>2, InitQInv, NextQInv, PTL
       DEF Spec, BalanceQueryRefinesRetrier, BalanceRetrier!Spec

-----------------------------------------------------------------------------
(***************************************************************************)
(* TypeOK.  The loop's counters are bounded by the call's own budget, and  *)
(* sleeps by attempt: a sleep follows an exception, which counted an       *)
(* iteration.  TypeOK alone is not inductive: an exception at the last     *)
(* iteration raises sleeps to attempt, and only sleeps <= attempt says     *)
(* that this is still within the budget.                                   *)
(***************************************************************************)
TInv == TypeOK /\ sleeps <= attempt

\* The budget of a call is a number: n_retries or n_total_msg_retries.
LEMMA BudgetNat ==
  ASSUME nArg \in NRetriesArgs PROVE QueryBudget \in Nat
  BY QueriesAssumption DEF QueryBudget

LEMMA InitTInv == Init => TInv
  <1> SUFFICES ASSUME Init PROVE TInv
    OBVIOUS
  <1>1. QueryBudget \in Nat
    BY BudgetNat DEF Init
  <1>2. attempt \in 0..QueryBudget /\ sleeps \in 0..QueryBudget /\ sleeps <= attempt
    BY <1>1 DEF Init
  <1>3. outcome \in Outcomes /\ reply \in NodeReplies \cup {"none"}
    BY DEF Init, Outcomes
  <1>4. QED
    BY <1>2, <1>3 DEF Init, TInv, TypeOK

LEMMA NextTInv == TInv /\ [Next]_vars => TInv'
  <1> SUFFICES ASSUME TInv, [Next]_vars PROVE TInv'
    OBVIOUS
  <1>0. op' = op /\ nArg' = nArg
    BY CallFixed
  <1>1. QueryBudget' = QueryBudget /\ QueryBudget \in Nat
    BY <1>0, BudgetNat DEF QueryBudget, TInv, TypeOK
  <1>2. CASE Construct
    BY <1>1, <1>2 DEF Construct, Raise, TInv, TypeOK, Outcomes
  <1>3. ASSUME NEW o \in CallOutcomes, QueryAttempt(o) PROVE TInv'
    <2>1. attempt < QueryBudget /\ attempt' = attempt + 1
          /\ attempt \in Nat /\ sleeps \in Nat /\ sleeps <= attempt
          /\ sleeps' \in {sleeps, sleeps + 1}
      BY <1>3 DEF QueryAttempt, TInv, TypeOK
    <2>2. attempt' \in 0..QueryBudget' /\ sleeps' \in 0..QueryBudget'
          /\ sleeps' <= attempt'
      BY <1>1, <2>1
    <2>3. res' \in {"none", "value"} /\ lastException' \in BOOLEAN
          /\ pc' \in {"init", "loop", "convert", "avail", "done"}
      BY <1>3 DEF QueryAttempt, TInv, TypeOK
    <2>4. UNCHANGED <<args, transport, op, nArg, outcome, chained, reply>>
      BY <1>3 DEF QueryAttempt
    <2>5. QED
      BY <2>2, <2>3, <2>4 DEF TInv, TypeOK
  <1>4. CASE StateQueryExhausted \/ BalanceQueryExhausted
    BY <1>1, <1>4 DEF StateQueryExhausted, BalanceQueryExhausted, Raise,
       TInv, TypeOK, Outcomes
  <1>5. CASE ConvertContractState \/ ConvertBalance
    BY <1>1, <1>5 DEF ConvertContractState, ConvertBalance, Raise,
       TInv, TypeOK, Outcomes
  <1>6. ASSUME NEW r \in NodeReplies, CheckAvailability(r) PROVE TInv'
    BY <1>1, <1>6 DEF CheckAvailability, Raise, TInv, TypeOK, Outcomes
  <1>7. CASE Finished \/ UNCHANGED vars
    BY <1>1, <1>7 DEF Finished, vars, TInv, TypeOK
  <1>8. QED
    BY <1>2, <1>3, <1>4, <1>5, <1>6, <1>7 DEF Next, Client

(* Every state a client reaches is well typed, and a query loop never     *)
(* counts or sleeps past its own budget: n_retries, or n_total_msg_retries *)
(* when n_retries is None, for every value of both.                        *)
THEOREM QueriesTypeCorrect == Spec => []TypeOK
  <1>1. TInv => TypeOK
    BY DEF TInv
  <1>2. QED
    BY <1>1, InitTInv, NextTInv, PTL DEF Spec

=============================================================================
