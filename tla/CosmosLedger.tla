---------------------------- MODULE CosmosLedger ----------------------------
(***************************************************************************)
(* The transaction lifecycle of CosmosLedger (src/cosmpy/clients/ledger.py)*)
(* for invocations of deploy_contract, instantiate_contract,               *)
(* execute_contract and send_funds that sign with one shared account, run  *)
(* concurrently against one node.                                          *)
(*                                                                         *)
(* Each invocation p runs, inside its workflow's outer retry loop:         *)
(*   build     generate_tx: query_account_data reads the account's         *)
(*             committed sequence into the SignerInfo;                     *)
(*   sign      sign_tx: _ensure_accont_number fills the shared crypto's    *)
(*             account_number cache if it is unset;                        *)
(*   broadcast broadcast_tx: a Retrier over BroadcastTx (sync mode), then  *)
(*             the check of the ack's response code;                       *)
(*   confirm   get_tx: a Retrier over GetTx, then the workflow's           *)
(*             extraction of the result (get_code_id, get_contract_address)*)
(* An exception leaves the body; the workflow's except clauses decide      *)
(* whether the outer loop goes round again or the exception escapes.       *)
(*                                                                         *)
(* The node is the environment.  Its CheckTx admits a transaction into the *)
(* mempool only when its sequence is the account's committed sequence plus *)
(* the number of the account's transactions already pending; blocks       *)
(* commit the mempool in order; a node may drop its mempool.  An account   *)
(* query reads committed state only.  Any network call may fail, before or *)
(* after the node has acted on it.                                         *)
(***************************************************************************)
EXTENDS Naturals, Sequences, FiniteSets

CONSTANTS
    Procs,                 \* concurrent workflow invocations
    Workflow,              \* the workflow each invocation runs
    NTotalMsgRetries,      \* CosmosLedger.n_total_msg_retries
    NSendingRetries,       \* CosmosLedger.n_sending_retries
    NGetResponseRetries,   \* CosmosLedger.n_get_response_retries
    NoTx,                  \* no transaction built yet
    NoResult               \* no GetTxResponse received yet

ASSUME BudgetsAssumption ==
    /\ NTotalMsgRetries \in Nat
    /\ NSendingRetries \in Nat
    /\ NGetResponseRetries \in Nat

ASSUME WorkflowAssumption ==
    Workflow \in [Procs -> {"deploy", "instantiate", "execute", "send"}]

\* CLIENT_CODE_MESSAGE_SUCCESSFUL: the response code of an accepted tx.
CLIENT_CODE_MESSAGE_SUCCESSFUL == 0

\* Response codes of a committed tx: success, or a failure inside the
\* contract (the code execute_contract hands back to its caller).
TxCodes == {CLIENT_CODE_MESSAGE_SUCCESSFUL, 5}

(***************************************************************************)
(* The raw_log of a committed tx, as far as the extraction tells it apart: *)
(* JSON in which _find_item finds an object whose "value" is a well-formed *)
(* code id or address; JSON from which the extraction raises past its      *)
(* json.loads (no object matches the marker, so the assert fails); or not  *)
(* JSON at all (the error text a failed tx carries).                       *)
(***************************************************************************)
LogKinds == {"marked", "unmarked", "notjson"}

Tx == [p : Procs, s : Nat]

Results == [tx : Tx, code : TxCodes, log : LogKinds]

\* The results a block may record: a failed tx logs its error text.
ResultsOf(t) ==
    {r \in [tx : {t}, code : TxCodes, log : LogKinds] :
        r.code # CLIENT_CODE_MESSAGE_SUCCESSFUL <=> r.log = "notjson"}

Exceptions == {"BroadcastException", "JSONDecodeError", "AssertionError"}

\* The sentinels are not values of the sets they stand outside of.
ASSUME SentinelAssumption == NoTx \notin Tx /\ NoResult \notin Results

VARIABLES
    chainSeq,            \* the account's committed sequence on the node
    mempool,             \* the account's pending txs, in sequence order
    committed,           \* the results of committed txs
    accountNumberKnown,  \* crypto.account_number is not None (shared)
    pc,                  \* where invocation p is
    attempt,             \* outer loop counter of p's workflow
    inner,               \* attempt counter of p's current Retrier
    tx,                  \* the tx p built last (NoTx before)
    res,                 \* the GetTxResponse p received last
    outcome              \* "none" while running, "ok", or the exception

chainVars == <<chainSeq, mempool, committed>>
procVars == <<accountNumberKnown, pc, attempt, inner, tx, res, outcome>>
vars == <<chainVars, procVars>>

-----------------------------------------------------------------------------
(***************************************************************************)
(* Per-workflow parameters of the outer loops.                             *)
(***************************************************************************)

\* deploy_contract: while code_id is None and attempt < n_total_msg_retries
DeployBudget == NTotalMsgRetries

\* instantiate_contract: while contract_address is None and attempt < n_total_msg_retries
InstantiateBudget == NTotalMsgRetries

\* execute_contract: n_retries defaults to n_sending_retries
ExecuteBudget == NSendingRetries

OuterBudget(w) ==
    CASE w = "deploy" -> DeployBudget
      [] w = "instantiate" -> InstantiateBudget
      [] w = "execute" -> ExecuteBudget
      [] w = "send" -> 1

\* The exceptions each workflow's loop body catches and retries on.
DeployCatches == {"BroadcastException"}

InstantiateCatches == {"BroadcastException", "JSONDecodeError"}

ExecuteCatches == {"BroadcastException"}

\* send_funds has no try block: every exception reaches its caller.
SendCatches == {}

Catches(w) ==
    CASE w = "deploy" -> DeployCatches
      [] w = "instantiate" -> InstantiateCatches
      [] w = "execute" -> ExecuteCatches
      [] w = "send" -> SendCatches

(***************************************************************************)
(* The extraction helpers, as functions of the raw_log kind.               *)
(***************************************************************************)

\* get_code_id: json.loads, _find_item with CODE_ID_RE, assert found.
GetCodeId(log) ==
    CASE log = "notjson" -> "JSONDecodeError"
      [] log = "unmarked" -> "AssertionError"
      [] log = "marked" -> "ok"

\* get_contract_address: json.loads, _find_item with CONTRACT_ADDRESS_RE,
\* assert found, assert is_valid_crypto_address of the value.
GetContractAddress(log) ==
    CASE log = "notjson" -> "JSONDecodeError"
      [] log = "unmarked" -> "AssertionError"
      [] log = "marked" -> "ok"

-----------------------------------------------------------------------------
(***************************************************************************)
(* Invocation p's steps.                                                   *)
(***************************************************************************)

\* An exception e leaves the loop body: caught, the loop goes round again
\* (after sleeping msg_failed_retry_interval); otherwise it escapes.
Raise(p, e) ==
    IF e \in Catches(Workflow[p])
    THEN /\ pc' = [pc EXCEPT ![p] = "loop"]
         /\ UNCHANGED outcome
    ELSE /\ pc' = [pc EXCEPT ![p] = "done"]
         /\ outcome' = [outcome EXCEPT ![p] = e]

\* The body reached its result: "ok", or the exception its extraction raised.
Conclude(p, o) ==
    IF o = "ok"
    THEN /\ pc' = [pc EXCEPT ![p] = "done"]
         /\ outcome' = [outcome EXCEPT ![p] = "ok"]
    ELSE Raise(p, o)

Init ==
    /\ chainSeq = 0
    /\ mempool = <<>>
    /\ committed = {}
    /\ accountNumberKnown = FALSE
    /\ pc = [p \in Procs |-> IF Workflow[p] = "send" THEN "build" ELSE "loop"]
    /\ attempt = [p \in Procs |-> 0]
    /\ inner = [p \in Procs |-> 0]
    /\ tx = [p \in Procs |-> NoTx]
    /\ res = [p \in Procs |-> NoResult]
    /\ outcome = [p \in Procs |-> "none"]

\* Mutant: the outer loop goes round without counting the attempt.
LoopIterateUncounted(p) ==
    /\ pc[p] = "loop"
    /\ attempt[p] < OuterBudget(Workflow[p])
    /\ pc' = [pc EXCEPT ![p] = "build"]
    /\ UNCHANGED <<chainVars, accountNumberKnown, attempt, inner, tx, res, outcome>>

\* The outer loop goes round: attempt += 1, and the body starts.
LoopIterate(p) ==
    /\ pc[p] = "loop"
    /\ attempt[p] < OuterBudget(Workflow[p])
    /\ attempt' = [attempt EXCEPT ![p] = @ + 1]
    /\ pc' = [pc EXCEPT ![p] = "build"]
    /\ UNCHANGED <<chainVars, accountNumberKnown, inner, tx, res, outcome>>

\* The outer loop ends without a result: raise BroadcastException.
LoopExhausted(p) ==
    /\ pc[p] = "loop"
    /\ ~(attempt[p] < OuterBudget(Workflow[p]))
    /\ pc' = [pc EXCEPT ![p] = "done"]
    /\ outcome' = [outcome EXCEPT ![p] = "BroadcastException"]
    /\ UNCHANGED <<chainVars, accountNumberKnown, attempt, inner, tx, res>>

\* query_account_data succeeds on some attempt of its loop, which needs a
\* budget of at least one call; otherwise it raises BroadcastException.
AccountQueryCanSucceed == NTotalMsgRetries > 0

\* Mutant: the SignerInfo takes the sequence one below the account's.
BuildSeqBelow(p) ==
    /\ pc[p] = "build"
    /\ \/ /\ AccountQueryCanSucceed
          /\ tx' = [tx EXCEPT ![p] = [p |-> p, s |-> chainSeq - 1]]
          /\ pc' = [pc EXCEPT ![p] = "sign"]
          /\ UNCHANGED outcome
       \/ /\ Raise(p, "BroadcastException")
          /\ UNCHANGED tx
    /\ UNCHANGED <<chainVars, accountNumberKnown, attempt, inner, res>>

\* Mutant: a rebuild increments the sequence of the previous attempt locally
\* instead of querying it (the fast path spec 9 allows).
BuildLocalIncrement(p) ==
    /\ pc[p] = "build"
    /\ \/ /\ AccountQueryCanSucceed
          /\ tx' = [tx EXCEPT ![p] =
                      [p |-> p, s |-> IF tx[p] = NoTx THEN chainSeq ELSE tx[p].s + 1]]
          /\ pc' = [pc EXCEPT ![p] = "sign"]
          /\ UNCHANGED outcome
       \/ /\ Raise(p, "BroadcastException")
          /\ UNCHANGED tx
    /\ UNCHANGED <<chainVars, accountNumberKnown, attempt, inner, res>>

(***************************************************************************)
(* generate_tx: query the account and build the tx around its committed    *)
(* sequence.  The same message and sequence give the same signed bytes, so *)
(* a tx is identified by its invocation and sequence.                      *)
(***************************************************************************)
Build(p) ==
    /\ pc[p] = "build"
    /\ \/ /\ AccountQueryCanSucceed
          /\ tx' = [tx EXCEPT ![p] = [p |-> p, s |-> chainSeq]]
          /\ pc' = [pc EXCEPT ![p] = "sign"]
          /\ UNCHANGED outcome
       \/ /\ Raise(p, "BroadcastException")
          /\ UNCHANGED tx
    /\ UNCHANGED <<chainVars, accountNumberKnown, attempt, inner, res>>

(***************************************************************************)
(* sign_tx: fetch the account number into the shared crypto if unset, then *)
(* sign; the broadcast Retrier starts.                                     *)
(***************************************************************************)
Sign(p) ==
    /\ pc[p] = "sign"
    /\ \/ /\ accountNumberKnown
          /\ UNCHANGED <<accountNumberKnown, outcome>>
          /\ pc' = [pc EXCEPT ![p] = "broadcast"]
       \/ /\ ~accountNumberKnown
          /\ AccountQueryCanSucceed
          /\ accountNumberKnown' = TRUE
          /\ pc' = [pc EXCEPT ![p] = "broadcast"]
          /\ UNCHANGED outcome
       \/ /\ ~accountNumberKnown
          /\ Raise(p, "BroadcastException")
          /\ UNCHANGED accountNumberKnown
    /\ inner' = [inner EXCEPT ![p] = 0]
    /\ UNCHANGED <<chainVars, attempt, tx, res>>

\* CheckTx: the sequence the node expects next from the account.
Admissible(t) == t.s = chainSeq + Len(mempool)

(***************************************************************************)
(* One BroadcastTx attempt of broadcast_tx's Retrier.  The call raises     *)
(* (request or reply lost; the node may have admitted the tx) and the      *)
(* Retrier sleeps and goes on; or the ack arrives: code 0 starts the       *)
(* get_tx Retrier, any other code raises BroadcastException.               *)
(***************************************************************************)
BroadcastAttempt(p) ==
    /\ pc[p] = "broadcast"
    /\ inner[p] < NTotalMsgRetries
    /\ \/ /\ mempool' \in {mempool} \cup
                  IF Admissible(tx[p]) THEN {Append(mempool, tx[p])} ELSE {}
          /\ inner' = [inner EXCEPT ![p] = @ + 1]
          /\ UNCHANGED <<pc, outcome>>
       \/ /\ Admissible(tx[p])
          /\ mempool' = Append(mempool, tx[p])
          /\ pc' = [pc EXCEPT ![p] = "confirm"]
          /\ inner' = [inner EXCEPT ![p] = 0]
          /\ UNCHANGED outcome
       \/ /\ ~Admissible(tx[p])
          /\ Raise(p, "BroadcastException")
          /\ UNCHANGED <<mempool, inner>>
    /\ UNCHANGED <<chainSeq, committed, accountNumberKnown, attempt, tx, res>>

\* Every BroadcastTx attempt raised: the Retrier raises BroadcastException.
BroadcastExhausted(p) ==
    /\ pc[p] = "broadcast"
    /\ ~(inner[p] < NTotalMsgRetries)
    /\ Raise(p, "BroadcastException")
    /\ UNCHANGED <<chainVars, accountNumberKnown, attempt, inner, tx, res>>

\* Mutant: GetTx is asked for the hash of any of p's attempts.
ReceiptsAnyAttempt(p) == {r \in committed : r.tx.p = p}

\* Mutant: the receipt is looked up by the account sequence, not the hash.
ReceiptsBySequence(p) == {r \in committed : r.tx.s = tx[p].s}

\* The committed results GetTx can return for p's tx.
Receipts(p) == {r \in committed : r.tx = tx[p]}

\* What the workflow makes of the receipt r that broadcast_tx returns.
Extract(p, r) ==
    CASE Workflow[p] = "deploy" -> GetCodeId(r.log)
      [] Workflow[p] = "instantiate" -> GetContractAddress(r.log)
      [] Workflow[p] \in {"execute", "send"} -> "ok"

(***************************************************************************)
(* One GetTx attempt of get_tx's Retrier.  It raises (tx not found yet, or *)
(* transport failure) and the Retrier sleeps; or it returns the receipt,   *)
(* which broadcast_tx returns and the workflow extracts from.              *)
(***************************************************************************)
ConfirmAttempt(p) ==
    /\ pc[p] = "confirm"
    /\ inner[p] < NGetResponseRetries
    /\ inner' = [inner EXCEPT ![p] = @ + 1]
    /\ \/ UNCHANGED <<pc, res, outcome>>
       \/ \E r \in Receipts(p) :
             /\ res' = [res EXCEPT ![p] = r]
             /\ Conclude(p, Extract(p, r))
    /\ UNCHANGED <<chainVars, accountNumberKnown, attempt, tx>>

\* Every GetTx attempt raised: the Retrier raises BroadcastException.
ConfirmExhausted(p) ==
    /\ pc[p] = "confirm"
    /\ ~(inner[p] < NGetResponseRetries)
    /\ Raise(p, "BroadcastException")
    /\ UNCHANGED <<chainVars, accountNumberKnown, attempt, inner, tx, res>>

Step(p) ==
    \/ LoopIterate(p)
    \/ LoopExhausted(p)
    \/ Build(p)
    \/ Sign(p)
    \/ BroadcastAttempt(p)
    \/ BroadcastExhausted(p)
    \/ ConfirmAttempt(p)
    \/ ConfirmExhausted(p)

-----------------------------------------------------------------------------
(***************************************************************************)
(* The node.                                                               *)
(***************************************************************************)

\* A block commits the first pending tx with one of its possible results.
Commit ==
    /\ mempool # <<>>
    /\ \E r \in ResultsOf(Head(mempool)) :
          committed' = committed \cup {r}
    /\ chainSeq' = chainSeq + 1
    /\ mempool' = Tail(mempool)
    /\ UNCHANGED procVars

\* The node drops its pending txs (eviction, restart).
DropMempool ==
    /\ mempool # <<>>
    /\ mempool' = <<>>
    /\ UNCHANGED <<chainSeq, committed, procVars>>

\* Every invocation has returned or raised and the node is idle.
Finished ==
    /\ \A p \in Procs : pc[p] = "done"
    /\ mempool = <<>>
    /\ UNCHANGED vars

Next ==
    \/ \E p \in Procs : Step(p)
    \/ Commit
    \/ DropMempool
    \/ Finished

Spec == Init /\ [][Next]_vars

(***************************************************************************)
(* Each invocation runs on a thread of its own that is never starved: weak *)
(* fairness of its steps.  Nothing is assumed of the node: it may never    *)
(* commit a pending tx.                                                    *)
(***************************************************************************)
FairSpec == Spec /\ \A p \in Procs : WF_vars(Step(p))
-----------------------------------------------------------------------------
(***************************************************************************)
(* Properties.                                                             *)
(***************************************************************************)

TypeOK ==
    /\ chainSeq \in Nat
    /\ mempool \in Seq(Tx)
    /\ committed \subseteq Results
    /\ accountNumberKnown \in BOOLEAN
    /\ pc \in [Procs -> {"loop", "build", "sign", "broadcast", "confirm", "done"}]
    /\ attempt \in [Procs -> Nat]
    /\ inner \in [Procs -> Nat]
    /\ tx \in [Procs -> Tx \cup {NoTx}]
    /\ res \in [Procs -> Results \cup {NoResult}]
    /\ outcome \in [Procs -> {"none", "ok"} \cup Exceptions]

(* At most one tx of the account is pending at any time, across all       *)
(* invocations: generate_tx builds every tx from the committed sequence,   *)
(* so a rebuild while an earlier tx of the account is still pending (a     *)
(* retry after a lost ack or a confirmation timeout, or a concurrent       *)
(* invocation) can never be admitted next to it (spec: at most one         *)
(* in-flight broadcast per invocation).                                    *)
AtMostOneInFlight == Len(mempool) <= 1

(***************************************************************************)
(* The inductive strengthening of AtMostOneInFlight and TypeOK that        *)
(* CosmosLedgerProofs proves.  A tx is built from the committed sequence   *)
(* and the committed sequence only grows, so no invocation ever holds a tx *)
(* whose sequence is ahead of the chain; CheckTx then admits one only into *)
(* an empty mempool.                                                       *)
(***************************************************************************)
TxBuilt ==
    \A p \in Procs : pc[p] \in {"sign", "broadcast", "confirm"} => tx[p] \in Tx

SeqNotAhead ==
    \A p \in Procs : tx[p] \in Tx => tx[p].s <= chainSeq

IInv == TypeOK /\ TxBuilt /\ SeqNotAhead /\ AtMostOneInFlight

(* A workflow that returns reports the receipt of the tx it built last,    *)
(* and that receipt is the one the chain committed for it: GetTx is asked  *)
(* for the hash just broadcast, never for one of an earlier attempt or of  *)
(* another invocation.                                                     *)
ReportedResultIsOnChain ==
    \A p \in Procs :
        outcome[p] = "ok" => res[p] \in committed /\ res[p].tx = tx[p]

(***************************************************************************)
(* The inductive strengthening of ReportedResultIsOnChain: an invocation   *)
(* that returned is done, and no step of it follows, so neither its tx nor *)
(* its receipt changes afterwards; blocks only add to committed.           *)
(***************************************************************************)
ReportedInv ==
    \A p \in Procs :
        outcome[p] = "ok" =>
            /\ pc[p] = "done"
            /\ res[p] \in committed
            /\ res[p].tx = tx[p]

(* Every invocation returns or raises: all its loops are bounded, whatever *)
(* the node and the network do.                                            *)
Termination == \A p \in Procs : <>(pc[p] = "done")

(* The spec's promise that a confirmation timeout is not retried by the    *)
(* outer loop and that re-running a workflow is safe: one invocation gets  *)
(* at most one of its txs committed.                                       *)
AtMostOneCommitPerInvocation ==
    \A p \in Procs : Cardinality({r \in committed : r.tx.p = p}) <= 1

(* Spec 7: a malformed response, where the extractor finds nothing or the *)
(* parse fails, is recoverable at instantiate_contract's outer loop.  So   *)
(* no instantiate invocation ends with the AssertionError that             *)
(* get_contract_address raises when _find_item finds no address.          *)
InstantiateRecoversMalformedLog ==
    \A p \in Procs :
        Workflow[p] = "instantiate" => outcome[p] # "AssertionError"
(***************************************************************************)
(* The refinement mapping to TxSubmit: the account's pending tx is the     *)
(* head of the mempool, the committed txs are those of the results, and an *)
(* invocation's status and reported tx are read off its outcome and the    *)
(* receipt it holds.                                                       *)
(***************************************************************************)
PendingTx == IF mempool = <<>> THEN NoTx ELSE Head(mempool)

Status(p) ==
    CASE outcome[p] = "none" -> "running"
      [] outcome[p] = "ok" -> "returned"
      [] OTHER -> "raised"

Submission == INSTANCE TxSubmit WITH
    seq <- chainSeq,
    slot <- PendingTx,
    onChain <- {r.tx : r \in committed},
    status <- [p \in Procs |-> Status(p)],
    reported <- [p \in Procs |-> IF outcome[p] = "ok" THEN res[p].tx ELSE NoTx]

(* The concurrent invocations, the retries of every phase and the node     *)
(* together behave as TxSubmit: generate_tx, broadcast_tx and get_tx keep  *)
(* the shared account to one pending tx that carries the next sequence,    *)
(* and a workflow returns only the receipt of a committed tx of its own.   *)
ImplementsTxSubmit == Submission!Spec
=============================================================================
