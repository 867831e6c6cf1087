------------------------------ MODULE Queries ------------------------------
(***************************************************************************)
(* The read-only operations of CosmosLedger (src/cosmpy/clients/ledger.py) *)
(* on a client built by __init__: query_contract_state, get_balance,       *)
(* get_balances and check_availability.                                    *)
(*                                                                         *)
(* The constructor checks its transport arguments and wires a REST or an   *)
(* RPC client.  Each query then runs its own copy of the retry loop of     *)
(* Retrier.call_with_retry against the node and converts the response;     *)
(* check_availability makes one round trip and compares the node's         *)
(* network with the configured chain id.  The node is the environment:     *)
(* each attempt's outcome is chosen from small sets.                       *)
(***************************************************************************)
EXTENDS Naturals

CONSTANTS
    NTotalMsgRetries,   \* CosmosLedger.n_total_msg_retries
    NRetriesArgs,       \* the n_retries values a caller passes to query_contract_state
    NoArg               \* n_retries=None, the argument's default

ASSUME QueriesAssumption ==
    /\ NTotalMsgRetries \in Nat
    /\ NRetriesArgs \subseteq Nat \cup {NoArg}
    /\ NoArg \notin Nat

\* The public operations of the client that do not sign.
Ops == {"contract_state", "balance", "balances", "availability"}

\* The constructor's arguments that decide the transport.
Args == [rest: BOOLEAN, rpc: BOOLEAN]

\* What one call of the node can do, as in Retrier.CallOutcomes.
CallOutcomes == {"value", "none", "exception"}

\* The node's reply to GET /node_info or GetNodeInfo.
NodeReplies == {"unreachable", "mismatch", "match"}

Outcomes == {"none", "ok", "ValueError", "BroadcastException",
             "JSONDecodeError", "LedgerServerNotAvailable"}

VARIABLES
    args,       \* rest_node_address / rpc_node_address given to __init__
    transport,  \* "none" before __init__ returns, then "rest" or "rpc"
    op,         \* the operation the caller invokes
    nArg,       \* query_contract_state's n_retries argument
    pc,         \* "init", "loop" (retry loop), "convert", "avail" or "done"
    attempt,    \* the loop's `attempt`
    res,        \* the loop's `res`: "none" (None) or "value"
    lastException, \* TRUE once an attempt has raised
    sleeps,     \* number of self._sleep calls
    outcome,    \* how the call ended
    chained,    \* the raised error carries the last exception as its cause
    reply       \* the node's reply to check_availability, "none" before it

vars == <<args, transport, op, nArg, pc, attempt, res, lastException,
          sleeps, outcome, chained, reply>>

\* Mutant: `n_retries or self.n_total_msg_retries`, which takes 0 for None.
QueryBudgetZeroAsNone ==
    IF op = "contract_state" /\ nArg # NoArg /\ nArg # 0 THEN nArg ELSE NTotalMsgRetries

\* n_retries = self.n_total_msg_retries when the caller passes None.
QueryBudget ==
    IF op = "contract_state" /\ nArg # NoArg THEN nArg ELSE NTotalMsgRetries

TypeOK ==
    /\ args \in Args
    /\ transport \in {"none", "rest", "rpc"}
    /\ op \in Ops
    /\ nArg \in NRetriesArgs
    /\ pc \in {"init", "loop", "convert", "avail", "done"}
    \* the loop's counters stay within the call's own budget
    /\ attempt \in 0..QueryBudget
    /\ res \in {"none", "value"}
    /\ lastException \in BOOLEAN
    /\ sleeps \in 0..QueryBudget
    /\ outcome \in Outcomes
    /\ chained \in BOOLEAN
    /\ reply \in NodeReplies \cup {"none"}

Init ==
    /\ args \in Args
    /\ transport = "none"
    /\ op \in Ops
    /\ nArg \in NRetriesArgs
    /\ pc = "init"
    /\ attempt = 0
    /\ res = "none"
    /\ lastException = FALSE
    /\ sleeps = 0
    /\ outcome = "none"
    /\ chained = FALSE
    /\ reply = "none"

Raise(e, cause) ==
    /\ pc' = "done"
    /\ outcome' = e
    /\ chained' = cause

(***************************************************************************)
(* __init__: both addresses or neither raise ValueError; otherwise the     *)
(* REST or the RPC clients are wired, and the caller's operation starts.   *)
(***************************************************************************)
Construct ==
    /\ pc = "init"
    /\ \/ /\ args.rest = args.rpc
          /\ Raise("ValueError", FALSE)
          /\ UNCHANGED transport
       \/ /\ args.rest # args.rpc
          /\ transport' = IF args.rest THEN "rest" ELSE "rpc"
          /\ pc' = IF op = "availability" THEN "avail" ELSE "loop"
          /\ UNCHANGED <<outcome, chained>>
    /\ UNCHANGED <<args, op, nArg, attempt, res, lastException, sleeps, reply>>

\* Mutant: the loop guard reads attempt <= n_retries (one call too many).
QueryAttemptOverrun(o) ==
    /\ pc = "loop"
    /\ attempt <= QueryBudget
    /\ attempt' = attempt + 1
    /\ \/ o = "value" /\ res' = "value" /\ pc' = "convert" /\ UNCHANGED <<lastException, sleeps>>
       \/ o = "none" /\ res' = "none" /\ UNCHANGED <<pc, lastException, sleeps>>
       \/ o = "exception" /\ lastException' = TRUE /\ sleeps' = sleeps + 1 /\ UNCHANGED <<pc, res>>
    /\ UNCHANGED <<args, transport, op, nArg, outcome, chained, reply>>

\* Mutant: a None response is slept on like an exception.
QueryAttemptSleepOnNone(o) ==
    /\ pc = "loop"
    /\ attempt < QueryBudget
    /\ attempt' = attempt + 1
    /\ \/ o = "value" /\ res' = "value" /\ pc' = "convert" /\ UNCHANGED <<lastException, sleeps>>
       \/ o = "none" /\ res' = "none" /\ sleeps' = sleeps + 1 /\ UNCHANGED <<pc, lastException>>
       \/ o = "exception" /\ lastException' = TRUE /\ sleeps' = sleeps + 1 /\ UNCHANGED <<pc, res>>
    /\ UNCHANGED <<args, transport, op, nArg, outcome, chained, reply>>

(***************************************************************************)
(* One iteration of the query loop: attempt += 1, then SmartContractState, *)
(* Balance or AllBalances.  A response breaks out of the loop; an          *)
(* exception is remembered and slept on; None loops again at once.         *)
(***************************************************************************)
QueryAttempt(o) ==
    /\ pc = "loop"
    /\ attempt < QueryBudget
    /\ attempt' = attempt + 1
    /\ \/ o = "value" /\ res' = "value" /\ pc' = "convert" /\ UNCHANGED <<lastException, sleeps>>
       \/ o = "none" /\ res' = "none" /\ UNCHANGED <<pc, lastException, sleeps>>
       \/ o = "exception" /\ lastException' = TRUE /\ sleeps' = sleeps + 1 /\ UNCHANGED <<pc, res>>
    /\ UNCHANGED <<args, transport, op, nArg, outcome, chained, reply>>

\* Mutant: get_balance raises only when some attempt raised an exception.
BalanceQueryExhaustedOnlyAfterException ==
    /\ pc = "loop"
    /\ op \in {"balance", "balances"}
    /\ ~(attempt < QueryBudget)
    /\ res = "none"
    /\ lastException
    /\ Raise("BroadcastException", FALSE)
    /\ UNCHANGED <<args, transport, op, nArg, attempt, res, lastException, sleeps, reply>>

(***************************************************************************)
(* The loop ends with res None: raise BroadcastException.                  *)
(* query_contract_state raises it `from last_exception`; get_balance and   *)
(* get_balances raise it after the loop without `from`, so the error has   *)
(* no cause.                                                               *)
(***************************************************************************)
StateQueryExhausted ==
    /\ pc = "loop"
    /\ op = "contract_state"
    /\ ~(attempt < QueryBudget)
    /\ res = "none"
    /\ Raise("BroadcastException", lastException)
    /\ UNCHANGED <<args, transport, op, nArg, attempt, res, lastException, sleeps, reply>>

BalanceQueryExhausted ==
    /\ pc = "loop"
    /\ op \in {"balance", "balances"}
    /\ ~(attempt < QueryBudget)
    /\ res = "none"
    /\ Raise("BroadcastException", FALSE)
    /\ UNCHANGED <<args, transport, op, nArg, attempt, res, lastException, sleeps, reply>>

(* query_contract_state returns json.loads(res.data), which raises         *)
(* JSONDecodeError when the contract's answer is not JSON.                 *)
ConvertContractState ==
    /\ pc = "convert"
    /\ op = "contract_state"
    /\ \/ Raise("ok", FALSE)
       \/ Raise("JSONDecodeError", FALSE)
    /\ UNCHANGED <<args, transport, op, nArg, attempt, res, lastException, sleeps, reply>>

(* get_balance returns int(res.balance.amount), get_balances the coins.    *)
ConvertBalance ==
    /\ pc = "convert"
    /\ op \in {"balance", "balances"}
    /\ Raise("ok", FALSE)
    /\ UNCHANGED <<args, transport, op, nArg, attempt, res, lastException, sleeps, reply>>

(***************************************************************************)
(* check_availability: one round trip on the REST or the RPC client.  A    *)
(* network other than chain_id raises ValueError inside the try, and the   *)
(* except wraps it, like any failure, as LedgerServerNotAvailable.         *)
(***************************************************************************)
CheckAvailability(r) ==
    /\ pc = "avail"
    /\ transport \in {"rest", "rpc"}
    /\ reply' = r
    /\ IF r = "match" THEN Raise("ok", FALSE)
                      ELSE Raise("LedgerServerNotAvailable", TRUE)
    /\ UNCHANGED <<args, transport, op, nArg, attempt, res, lastException, sleeps>>

\* The call has returned or raised.
Finished ==
    /\ pc = "done"
    /\ UNCHANGED vars

Client ==
    \/ Construct
    \/ \E o \in CallOutcomes : QueryAttempt(o)
    \/ StateQueryExhausted
    \/ BalanceQueryExhausted
    \/ ConvertContractState
    \/ ConvertBalance
    \/ \E r \in NodeReplies : CheckAvailability(r)

Next == Client \/ Finished

Spec == Init /\ [][Next]_vars

\* The caller's thread runs the operation to its end; the node's calls return.
FairSpec == Spec /\ WF_vars(Client)

-----------------------------------------------------------------------------
(***************************************************************************)
(* Refinement: each query loop implements Retrier.call_with_retry with the *)
(* query's budget.  The loop's state maps to the retrier's; the            *)
(* conversion after the loop, and every other operation, are stutters.     *)
(***************************************************************************)
RetrierStatus ==
    CASE res = "value"                 -> "returned"
      [] outcome = "BroadcastException" -> "raised"
      [] OTHER                         -> "running"

(* The retrier seen by the calls that satisfy `sel`, with budget n.       *)
R(sel, n) == INSTANCE Retrier WITH
    NRetries      <- n,
    attempt       <- IF sel THEN attempt ELSE 0,
    response      <- IF sel THEN res ELSE "none",
    lastException <- IF sel THEN lastException ELSE FALSE,
    sleeps        <- IF sel THEN sleeps ELSE 0,
    status        <- IF sel THEN RetrierStatus ELSE "running"

\* The retrier seen by get_balance and get_balances.
BalanceRetrier == INSTANCE Retrier WITH
    NRetries      <- NTotalMsgRetries,
    attempt       <- IF op \in {"balance", "balances"} THEN attempt ELSE 0,
    response      <- IF op \in {"balance", "balances"} THEN res ELSE "none",
    lastException <- IF op \in {"balance", "balances"} THEN lastException ELSE FALSE,
    sleeps        <- IF op \in {"balance", "balances"} THEN sleeps ELSE 0,
    status        <- IF op \in {"balance", "balances"} THEN RetrierStatus ELSE "running"

StateCall(n) == op = "contract_state" /\ nArg = n
StateBudget(n) == IF n = NoArg THEN NTotalMsgRetries ELSE n

(* query_contract_state(n_retries=n) is call_with_retry with budget n, and *)
(* with n_total_msg_retries only when n is None: an explicit 0 makes no    *)
(* call at all.  The loop never overruns, never gives up before its        *)
(* budget and sleeps only after an exception.                              *)
StateQueryRefinesRetrier ==
    \* \A n : R(..n..)!Spec, with the quantifier moved inside Init and [][..]
    /\ \A n \in NRetriesArgs : R(StateCall(n), StateBudget(n))!Init
    /\ [][\A n \in NRetriesArgs :
            [R(StateCall(n), StateBudget(n))!Next]_(R(StateCall(n), StateBudget(n))!vars)]_vars

(* get_balance and get_balances are call_with_retry with budget            *)
(* n_total_msg_retries.                                                    *)
BalanceQueryRefinesRetrier == BalanceRetrier!Spec

(* Every operation returns or raises, whatever the node answers.           *)
QueryTerminates == <>(pc = "done")

=============================================================================
