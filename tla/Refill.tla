------------------------------- MODULE Refill -------------------------------
(***************************************************************************)
(* CosmosLedger.ensure_funds and the two refills it dispatches to          *)
(* (src/cosmpy/clients/ledger.py):                                         *)
(*   refill_wealth_from_faucet   for each address, up to                   *)
(*       n_total_msg_retries iterations of: get_balances; if the first     *)
(*       coin is below min_amount_required, POST a faucet claim and sleep; *)
(*       otherwise break.  Any exception is logged and slept on.           *)
(*   refill_wealth_from_validator  for each address, send_funds of the     *)
(*       required coins from the validator account; no balance check and  *)
(*       no try block.                                                     *)
(*                                                                         *)
(* The addresses are 1..NAddr in list order.  Balances are one coin's      *)
(* amount.  The faucet is the environment: an accepted claim is paid out   *)
(* later, or never.  send_funds is the pipeline CosmosLedger models; here  *)
(* it is one step whose three outcomes are the ones that model reaches:    *)
(* it returns after its tx committed, it raises before the tx took effect, *)
(* or it raises although the tx commits (a lost ack or a confirmation      *)
(* timeout).                                                               *)
(***************************************************************************)
EXTENDS Naturals

CONSTANTS
    NAddr,              \* len(addresses)
    NTotalMsgRetries,   \* CosmosLedger.n_total_msg_retries
    MinAmount,          \* min_amount_required
    FaucetAmount,       \* what the faucet pays out for one claim
    SendAmount,         \* required_amount_coins of the validator refill
    NoRead              \* no balance read yet

ASSUME RefillAssumption ==
    /\ NAddr \in Nat
    /\ NTotalMsgRetries \in Nat
    /\ MinAmount \in Nat \ {0}
    /\ FaucetAmount \in Nat \ {0}
    /\ SendAmount \in Nat \ {0}
    /\ NoRead \notin Nat

Addrs == 1..NAddr

\* The constructor arguments ensure_funds branches on.
Configs == [faucetUrl : BOOLEAN, validatorCrypto : BOOLEAN, amountCoins : BOOLEAN]

VARIABLES
    config,      \* which of faucet_url, validator_crypto, amount_coins are set
    balance,     \* balance[a]: the address's amount on chain
    pending,     \* pending[a]: faucet claims accepted and not paid out yet
    pc,          \* "ensure", "loop", "claim", "send" or "done"
    idx,         \* the address the for loop is at
    attempt,     \* the faucet loop's counter for the current address
    lastRead,    \* lastRead[a]: the balance get_balances last returned for a
    readIn,      \* readIn[a]: the while iteration of that read, 0 before any
    requested,   \* requested[a]: faucet claims posted or validator sends made
    outcome      \* "none" while running, "ok", or the exception raised

vars == <<config, balance, pending, pc, idx, attempt, lastRead, readIn, requested,
          outcome>>

Outcomes == {"none", "ok", "RuntimeError", "BroadcastException"}

TypeOK ==
    /\ config \in Configs
    /\ balance \in [Addrs -> Nat]
    /\ pending \in [Addrs -> Nat]
    /\ pc \in {"ensure", "loop", "claim", "send", "done"}
    /\ idx \in 1..NAddr + 1
    /\ attempt \in 0..NTotalMsgRetries
    /\ lastRead \in [Addrs -> Nat \cup {NoRead}]
    /\ readIn \in [Addrs -> 0..NTotalMsgRetries]
    /\ requested \in [Addrs -> Nat]
    /\ outcome \in Outcomes

\* Any configuration, and any mix of funded and empty addresses.
Init ==
    /\ config \in Configs
    /\ balance \in [Addrs -> {0, MinAmount}]
    /\ pending = [a \in Addrs |-> 0]
    /\ pc = "ensure"
    /\ idx = 1
    /\ attempt = 0
    /\ lastRead = [a \in Addrs |-> NoRead]
    /\ readIn = [a \in Addrs |-> 0]
    /\ requested = [a \in Addrs |-> 0]
    /\ outcome = "none"

\* ensure_funds: the faucet wins over the validator; otherwise RuntimeError.
EnsureFunds ==
    /\ pc = "ensure"
    /\ \/ /\ config.faucetUrl
          /\ pc' = "loop"
          /\ UNCHANGED outcome
       \/ /\ ~config.faucetUrl /\ config.validatorCrypto /\ config.amountCoins
          /\ pc' = "send"
          /\ UNCHANGED outcome
       \/ /\ ~config.faucetUrl
          /\ ~(config.validatorCrypto /\ config.amountCoins)
          /\ pc' = "done"
          /\ outcome' = "RuntimeError"
    /\ UNCHANGED <<config, balance, pending, idx, attempt, lastRead, readIn, requested>>

\* The for loop moves on to the next address.
NextAddress ==
    /\ idx' = idx + 1
    /\ attempt' = 0

\* Mutant: a claim goes round without counting the iteration.
FaucetReadClaimUncounted ==
    /\ pc = "loop"
    /\ idx <= NAddr
    /\ attempt < NTotalMsgRetries
    /\ \/ /\ lastRead' = [lastRead EXCEPT ![idx] = balance[idx]]
          /\ readIn' = [readIn EXCEPT ![idx] = attempt]
          /\ IF balance[idx] < MinAmount
             THEN /\ pc' = "claim"
                  /\ UNCHANGED <<attempt, idx>>
             ELSE /\ NextAddress
                  /\ UNCHANGED pc
       \/ /\ attempt' = attempt + 1
          /\ UNCHANGED <<pc, idx, lastRead, readIn>>
    /\ UNCHANGED <<config, balance, pending, requested, outcome>>

\* Mutant: the loop counter may pass the budget.
FaucetReadOverrun ==
    /\ pc = "loop"
    /\ idx <= NAddr
    /\ attempt <= NTotalMsgRetries
    /\ attempt' = attempt + 1
    /\ \/ /\ lastRead' = [lastRead EXCEPT ![idx] = balance[idx]]
          /\ readIn' = [readIn EXCEPT ![idx] = attempt']
          /\ pc' = IF balance[idx] < MinAmount THEN "claim" ELSE "loop"
       \/ UNCHANGED <<pc, lastRead, readIn>>
    /\ UNCHANGED <<config, balance, pending, idx, requested, outcome>>

\* get_balances returns: below the minimum the claim follows (the iteration
\* counted), at or above it the loop breaks to the next address.
BalanceReturned ==
    /\ lastRead' = [lastRead EXCEPT ![idx] = balance[idx]]
    /\ readIn' = [readIn EXCEPT ![idx] = attempt + 1]
    /\ IF balance[idx] < MinAmount
       THEN /\ pc' = "claim"
            /\ attempt' = attempt + 1
            /\ UNCHANGED idx
       ELSE /\ NextAddress
            /\ UNCHANGED pc

\* get_balances raises (its own loop gave up): logged, slept on, next round.
BalanceQueryRaised ==
    /\ attempt' = attempt + 1
    /\ UNCHANGED <<pc, idx, lastRead, readIn>>

\* Mutant: the claim decision outlives a failed read.  When get_balances
\* raises, the balance left from an earlier iteration still decides the claim.
FaucetReadClaimOnStaleRead ==
    /\ pc = "loop"
    /\ idx <= NAddr
    /\ attempt < NTotalMsgRetries
    /\ \/ BalanceReturned
       \/ /\ attempt' = attempt + 1
          /\ pc' = IF lastRead[idx] \in Nat /\ lastRead[idx] < MinAmount
                   THEN "claim" ELSE "loop"
          /\ UNCHANGED <<idx, lastRead, readIn>>
    /\ UNCHANGED <<config, balance, pending, requested, outcome>>

(***************************************************************************)
(* One iteration of the faucet's while loop: attempt += 1 and              *)
(* get_balances, then the claim or the break, or the except clause.        *)
(***************************************************************************)
FaucetRead ==
    /\ pc = "loop"
    /\ idx <= NAddr
    /\ attempt < NTotalMsgRetries
    /\ BalanceReturned \/ BalanceQueryRaised
    /\ UNCHANGED <<config, balance, pending, requested, outcome>>

\* POST /api/v3/claims: accepted, or a non-200 reply, or an exception; each
\* is followed by the sleep and the next iteration.
FaucetClaim ==
    /\ pc = "claim"
    /\ requested' = [requested EXCEPT ![idx] = @ + 1]
    /\ pending' \in {pending, [pending EXCEPT ![idx] = @ + 1]}
    /\ pc' = "loop"
    /\ UNCHANGED <<config, balance, idx, attempt, lastRead, readIn, outcome>>

\* The while loop ran out of attempts: silently on to the next address.
FaucetExhausted ==
    /\ pc = "loop"
    /\ idx <= NAddr
    /\ ~(attempt < NTotalMsgRetries)
    /\ NextAddress
    /\ UNCHANGED <<config, balance, pending, pc, lastRead, readIn, requested, outcome>>

(***************************************************************************)
(* send_funds(validator_crypto, address, amount_coins) for the current     *)
(* address: returns after the tx committed, or raises (with the tx lost or *)
(* committed); the exception leaves ensure_funds.                          *)
(***************************************************************************)
ValidatorSend ==
    /\ pc = "send"
    /\ idx <= NAddr
    /\ requested' = [requested EXCEPT ![idx] = @ + 1]
    /\ \/ /\ balance' = [balance EXCEPT ![idx] = @ + SendAmount]
          /\ NextAddress
          /\ UNCHANGED <<pc, outcome>>
       \/ /\ balance' \in {balance, [balance EXCEPT ![idx] = @ + SendAmount]}
          /\ pc' = "done"
          /\ outcome' = "BroadcastException"
          /\ UNCHANGED <<idx, attempt>>
    /\ UNCHANGED <<config, pending, lastRead, readIn>>

\* Mutant: the loop ends one address early.
RefillDoneEarly ==
    /\ pc \in {"loop", "send"}
    /\ idx >= NAddr
    /\ pc' = "done"
    /\ outcome' = "ok"
    /\ UNCHANGED <<config, balance, pending, idx, attempt, lastRead, readIn, requested>>

\* Mutant: the end of the address list is tested one past its last index.
RefillDoneOffByOne ==
    /\ pc \in {"loop", "send"}
    /\ idx > NAddr + 1
    /\ pc' = "done"
    /\ outcome' = "ok"
    /\ UNCHANGED <<config, balance, pending, idx, attempt, lastRead, readIn, requested>>

\* The for loop of either refill has gone through every address.
RefillDone ==
    /\ pc \in {"loop", "send"}
    /\ idx > NAddr
    /\ pc' = "done"
    /\ outcome' = "ok"
    /\ UNCHANGED <<config, balance, pending, idx, attempt, lastRead, readIn, requested>>

\* The faucet pays out one accepted claim.
FaucetPays ==
    \E a \in Addrs :
        /\ pending[a] > 0
        /\ pending' = [pending EXCEPT ![a] = @ - 1]
        /\ balance' = [balance EXCEPT ![a] = @ + FaucetAmount]
        /\ UNCHANGED <<config, pc, idx, attempt, lastRead, readIn, requested, outcome>>

\* ensure_funds has returned or raised and no payout is outstanding.
Finished ==
    /\ pc = "done"
    /\ \A a \in Addrs : pending[a] = 0
    /\ UNCHANGED vars

Client ==
    \/ EnsureFunds
    \/ FaucetRead
    \/ FaucetClaim
    \/ FaucetExhausted
    \/ ValidatorSend
    \/ RefillDone

Next == Client \/ FaucetPays \/ Finished

Spec == Init /\ [][Next]_vars

\* ensure_funds runs on the caller's thread, whose calls all return: weak
\* fairness of its steps.  The faucet may never pay.
FairSpec == Spec /\ WF_vars(Client)
-----------------------------------------------------------------------------
(***************************************************************************)
(* Properties.                                                             *)
(***************************************************************************)

(* ensure_funds always returns or raises, whatever the faucet and the node *)
(* do: the faucet loop is bounded by n_total_msg_retries per address.      *)
RefillTerminates == <>(pc = "done")

(* The faucet is asked at most n_total_msg_retries times per address, even *)
(* when the balance stays low or the faucet's payouts lag behind the reads *)
(* (every claim costs an iteration of the bounded while loop).             *)
ClaimsWithinBudget ==
    config.faucetUrl => \A a \in Addrs : requested[a] <= NTotalMsgRetries

(* The faucet loop posts a claim for an address only on a get_balances   *)
(* read of that address, in the same iteration of the while loop, that saw *)
(* it below min_amount_required.  A read that raised leaves the balance of *)
(* an earlier iteration behind, and that one must not decide a claim.      *)
ClaimFollowsLowRead ==
    [][\A a \in Addrs :
          requested'[a] > requested[a] /\ config.faucetUrl =>
              /\ lastRead[a] \in Nat /\ lastRead[a] < MinAmount
              /\ readIn[a] = attempt]_vars

(* A validator refill sends to each address at most once, and one that     *)
(* returns has sent to every address: no balance check or retry can skip   *)
(* or repeat one.                                                          *)
ValidatorSendsEachOnce ==
    (~config.faucetUrl /\ config.validatorCrypto /\ config.amountCoins) =>
        /\ \A a \in Addrs : requested[a] <= 1
        /\ outcome = "ok" => \A a \in Addrs : requested[a] = 1

(* Spec 4.8: the refill polls the balance until it is above the threshold. *)
(* So an ensure_funds that returns through the faucet has seen every       *)
(* address funded.                                                         *)
FaucetReturnsOnlyWhenFunded ==
    (pc = "done" /\ outcome = "ok" /\ config.faucetUrl) =>
        \A a \in Addrs : lastRead[a] # NoRead /\ lastRead[a] >= MinAmount


(***************************************************************************)
(* The refinement mapping to FundingRequests: the route is read off the    *)
(* control state, the cursor is the for loop's index, and the requests are *)
(* the claims posted or the sends made.  Balances, payouts, the loop       *)
(* counter and the balance reads are the refill's own business.            *)
(***************************************************************************)
Route ==
    CASE pc = "ensure" -> "ensure"
      [] pc \in {"loop", "claim"} -> "faucet"
      [] pc = "send" -> "validator"
      [] pc = "done" -> "done"

Funding == INSTANCE FundingRequests WITH
    Budget <- NTotalMsgRetries,
    route <- Route,
    cursor <- idx,
    asked <- requested,
    result <- outcome

(* ensure_funds asks for funding as FundingRequests says: the source the   *)
(* configuration selects, addresses in list order, at most                 *)
(* n_total_msg_retries faucet claims or exactly one validator send per     *)
(* address, and a return only past the last address.                       *)
ImplementsFundingRequests == Funding!Spec
=============================================================================
