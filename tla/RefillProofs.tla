---------------------------- MODULE RefillProofs ----------------------------
(***************************************************************************)
(* Proofs about Refill, for every number of addresses, budget, threshold   *)
(* and amount.                                                             *)
(***************************************************************************)
EXTENDS Refill, TLAPS

(***************************************************************************)
(* ClaimsWithinBudget is not inductive: a claim adds one to requested[idx] *)
(* and is bounded only because the iteration that led to it was counted.   *)
(* ClaimBound ties the claims of each address to the faucet loop: the      *)
(* addresses already passed used at most the budget, the current one at    *)
(* most the iterations counted so far (one fewer while its claim is being  *)
(* posted), and the ones ahead none.  Phase says which steps belong to     *)
(* the faucet path and where a claim can be pending.                       *)
(***************************************************************************)
ClaimBound(a) ==
    IF a < idx THEN NTotalMsgRetries
    ELSE IF a = idx THEN (IF pc = "claim" THEN attempt - 1 ELSE attempt)
    ELSE 0

Phase ==
    /\ pc = "ensure" => idx = 1 /\ attempt = 0
    /\ pc \in {"loop", "claim"} => config.faucetUrl
    /\ pc = "send" => ~config.faucetUrl
    /\ pc = "claim" => idx \in Addrs /\ attempt >= 1

RIInv ==
    /\ TypeOK
    /\ Phase
    /\ config.faucetUrl => \A a \in Addrs : requested[a] <= ClaimBound(a)

LEMMA InitRIInv == Init => RIInv
  <1> SUFFICES ASSUME Init PROVE RIInv
    OBVIOUS
  <1> USE RefillAssumption
  <1>1. balance \in [Addrs -> Nat]
    BY DEF Init
  <1>2. lastRead \in [Addrs -> Nat \cup {NoRead}] /\ requested \in [Addrs -> Nat]
        /\ pending \in [Addrs -> Nat] /\ readIn \in [Addrs -> 0..NTotalMsgRetries]
    BY DEF Init
  <1>3. TypeOK
    BY <1>1, <1>2 DEF Init, TypeOK, Configs, Outcomes
  <1>4. Phase
    BY DEF Init, Phase
  <1>5. \A a \in Addrs : requested[a] <= ClaimBound(a)
    BY DEF Init, ClaimBound, Addrs
  <1>6. QED
    BY <1>3, <1>4, <1>5 DEF RIInv

\* Moving to the next address keeps the bound: the address left behind used
\* at most attempt <= budget iterations, and the new one none.
LEMMA NextAddressBound ==
  ASSUME RIInv, NextAddress, pc # "claim", pc' \in {"loop", "send"},
         idx \in Addrs, UNCHANGED <<config, requested>>
  PROVE  config.faucetUrl => \A a \in Addrs : requested'[a] <= ClaimBound(a)'
  <1> SUFFICES ASSUME config.faucetUrl, NEW a \in Addrs
               PROVE  requested[a] <= ClaimBound(a)'
    OBVIOUS
  <1>1. requested[a] <= ClaimBound(a) /\ attempt \in 0..NTotalMsgRetries
        /\ requested[a] \in Nat
    BY DEF RIInv, TypeOK
  <1>2. idx' = idx + 1 /\ attempt' = 0
    BY DEF NextAddress
  <1>3. CASE a <= idx
    BY <1>1, <1>2, <1>3, RefillAssumption DEF ClaimBound, Addrs
  <1>4. CASE a > idx
    BY <1>1, <1>2, <1>4, RefillAssumption DEF ClaimBound, Addrs
  <1>5. QED
    BY <1>3, <1>4 DEF Addrs

LEMMA NextRIInv == RIInv /\ [Next]_vars => RIInv'
  <1> SUFFICES ASSUME RIInv, [Next]_vars PROVE RIInv'
    OBVIOUS
  <1> USE RefillAssumption
  <1>1. CASE EnsureFunds
    <2>1. pc = "ensure" /\ idx = 1 /\ attempt = 0
          /\ UNCHANGED <<config, balance, pending, idx, attempt, lastRead, readIn, requested>>
      BY <1>1 DEF EnsureFunds, RIInv, Phase
    <2>2. \/ config.faucetUrl /\ pc' = "loop" /\ outcome' = outcome
          \/ ~config.faucetUrl /\ pc' = "send" /\ outcome' = outcome
          \/ ~config.faucetUrl /\ pc' = "done" /\ outcome' = "RuntimeError"
      BY <1>1 DEF EnsureFunds
    <2>3. TypeOK'
      BY <2>1, <2>2 DEF RIInv, TypeOK, Outcomes
    <2>4. Phase'
      BY <2>1, <2>2 DEF Phase
    <2>5. pc' # "claim" /\ idx' = idx /\ attempt' = attempt
      BY <2>1, <2>2
    <2>6. config.faucetUrl => \A a \in Addrs : requested'[a] <= ClaimBound(a)'
      BY <2>1, <2>5 DEF RIInv, ClaimBound
    <2>7. QED
      BY <2>3, <2>4, <2>6, <2>1 DEF RIInv
  <1>2. CASE FaucetRead
    <2>1. pc = "loop" /\ idx \in Addrs /\ attempt < NTotalMsgRetries /\ config.faucetUrl
          /\ UNCHANGED <<config, balance, pending, requested, outcome>>
      BY <1>2 DEF FaucetRead, RIInv, TypeOK, Phase, Addrs
    <2>2. CASE BalanceReturned /\ balance[idx] < MinAmount
      <3>1. pc' = "claim" /\ attempt' = attempt + 1 /\ idx' = idx
            /\ lastRead' = [lastRead EXCEPT ![idx] = balance[idx]]
            /\ readIn' = [readIn EXCEPT ![idx] = attempt + 1]
        BY <2>2 DEF BalanceReturned
      <3>2. lastRead' \in [Addrs -> Nat \cup {NoRead}]
            /\ readIn' \in [Addrs -> 0..NTotalMsgRetries]
        BY <2>1, <3>1 DEF RIInv, TypeOK
      <3>3. TypeOK'
        BY <2>1, <3>1, <3>2 DEF RIInv, TypeOK
      <3>4. QED
        BY <2>1, <3>1, <3>3 DEF RIInv, TypeOK, Phase, ClaimBound
    <2>3. CASE BalanceReturned /\ ~(balance[idx] < MinAmount)
      <3>1. NextAddress /\ pc' = pc /\ lastRead' = [lastRead EXCEPT ![idx] = balance[idx]]
            /\ readIn' = [readIn EXCEPT ![idx] = attempt + 1]
        BY <2>3 DEF BalanceReturned
      <3>2. config.faucetUrl => \A a \in Addrs : requested'[a] <= ClaimBound(a)'
        BY <2>1, <3>1, NextAddressBound
      <3>3. lastRead' \in [Addrs -> Nat \cup {NoRead}]
            /\ readIn' \in [Addrs -> 0..NTotalMsgRetries]
        BY <2>1, <3>1 DEF RIInv, TypeOK
      <3>6. idx' \in 1..NAddr + 1 /\ attempt' \in 0..NTotalMsgRetries
        BY <2>1, <3>1 DEF NextAddress, Addrs
      <3>4. TypeOK'
        BY <2>1, <3>1, <3>3, <3>6 DEF RIInv, TypeOK
      <3>5. QED
        BY <2>1, <3>1, <3>2, <3>4 DEF RIInv, Phase
    <2>4. CASE BalanceQueryRaised
      <3>1. attempt' = attempt + 1 /\ UNCHANGED <<pc, idx, lastRead, readIn>>
        BY <2>4 DEF BalanceQueryRaised
      <3>2. QED
        BY <2>1, <3>1 DEF RIInv, TypeOK, Phase, ClaimBound
    <2>5. QED
      BY <1>2, <2>2, <2>3, <2>4 DEF FaucetRead
  <1>3. CASE FaucetClaim
    <2>1. pc = "claim" /\ idx \in Addrs /\ attempt >= 1 /\ config.faucetUrl
      BY <1>3 DEF FaucetClaim, RIInv, Phase
    <2>2. requested' = [requested EXCEPT ![idx] = @ + 1] /\ pc' = "loop"
          /\ UNCHANGED <<config, balance, idx, attempt, lastRead, readIn, outcome>>
      BY <1>3 DEF FaucetClaim
    <2>3. pending' \in [Addrs -> Nat]
      BY <1>3 DEF FaucetClaim, RIInv, TypeOK
    <2>4. requested' \in [Addrs -> Nat]
      BY <2>1, <2>2 DEF RIInv, TypeOK
    <2>7. TypeOK'
      BY <2>1, <2>2, <2>3, <2>4 DEF RIInv, TypeOK
    <2>5. \A a \in Addrs : requested'[a] <= ClaimBound(a)'
      BY <2>1, <2>2 DEF RIInv, TypeOK, ClaimBound
    <2>6. QED
      BY <2>1, <2>2, <2>7, <2>5 DEF RIInv, Phase
  <1>4. CASE FaucetExhausted
    <2>1. pc = "loop" /\ idx \in Addrs /\ NextAddress
          /\ UNCHANGED <<config, balance, pending, pc, lastRead, readIn, requested, outcome>>
      BY <1>4 DEF FaucetExhausted, RIInv, TypeOK, Addrs
    <2>2. config.faucetUrl => \A a \in Addrs : requested'[a] <= ClaimBound(a)'
      BY <2>1, NextAddressBound
    <2>3. QED
      BY <2>1, <2>2 DEF RIInv, TypeOK, Phase, NextAddress, Addrs
  <1>5. CASE ValidatorSend
    <2>1. pc = "send" /\ idx \in Addrs /\ UNCHANGED <<config, pending, lastRead, readIn>>
          /\ requested' = [requested EXCEPT ![idx] = @ + 1]
      BY <1>5 DEF ValidatorSend, RIInv, TypeOK, Addrs
    <2>2. ~config.faucetUrl
      BY <2>1 DEF RIInv, Phase
    <2>3. CASE /\ balance' = [balance EXCEPT ![idx] = @ + SendAmount]
               /\ NextAddress
               /\ UNCHANGED <<pc, outcome>>
      <3>1. balance' \in [Addrs -> Nat] /\ requested' \in [Addrs -> Nat]
        BY <2>1, <2>3 DEF RIInv, TypeOK
      <3>2. idx' \in 1..NAddr + 1 /\ attempt' = 0
        BY <2>1, <2>3 DEF NextAddress, Addrs
      <3>3. TypeOK'
        BY <2>1, <2>3, <3>1, <3>2 DEF RIInv, TypeOK
      <3>4. QED
        BY <2>1, <2>2, <2>3, <3>3 DEF RIInv, Phase
    <2>4. CASE /\ balance' \in {balance, [balance EXCEPT ![idx] = @ + SendAmount]}
               /\ pc' = "done"
               /\ outcome' = "BroadcastException"
               /\ UNCHANGED <<idx, attempt>>
      <3>1. TypeOK'
        BY <2>1, <2>4 DEF RIInv, TypeOK, Outcomes
      <3>2. QED
        BY <2>1, <2>2, <2>4, <3>1 DEF RIInv, Phase
    <2>5. QED
      BY <1>5, <2>3, <2>4 DEF ValidatorSend
  <1>6. CASE RefillDone
    BY <1>6 DEF RefillDone, RIInv, TypeOK, Phase, ClaimBound, Outcomes
  <1>7. CASE FaucetPays
    <2>1. PICK a \in Addrs :
            /\ pending[a] > 0
            /\ pending' = [pending EXCEPT ![a] = @ - 1]
            /\ balance' = [balance EXCEPT ![a] = @ + FaucetAmount]
            /\ UNCHANGED <<config, pc, idx, attempt, lastRead, readIn, requested, outcome>>
      BY <1>7 DEF FaucetPays
    <2>2. TypeOK'
      BY <2>1 DEF RIInv, TypeOK
    <2>3. QED
      BY <2>1, <2>2 DEF RIInv, Phase, ClaimBound
  <1>8. CASE Finished \/ UNCHANGED vars
    BY <1>8 DEF Finished, vars, RIInv, TypeOK, Phase, ClaimBound
  <1>9. QED
    BY <1>1, <1>2, <1>3, <1>4, <1>5, <1>6, <1>7, <1>8 DEF Next, Client

(* For every budget n_total_msg_retries and every list of addresses, the   *)
(* faucet refill posts at most n_total_msg_retries claims per address.     *)
THEOREM FaucetClaimsBounded == Spec => []ClaimsWithinBudget
  <1>1. RIInv => ClaimsWithinBudget
    <2> SUFFICES ASSUME RIInv, config.faucetUrl, NEW a \in Addrs
                 PROVE  requested[a] <= NTotalMsgRetries
      BY DEF ClaimsWithinBudget
    <2>1. requested[a] <= ClaimBound(a) /\ attempt \in 0..NTotalMsgRetries
          /\ requested[a] \in Nat
      BY DEF RIInv, TypeOK
    <2>2. QED
      BY <2>1, RefillAssumption DEF ClaimBound
  <1>2. QED
    BY <1>1, InitRIInv, NextRIInv, PTL DEF Spec

(* Every state ensure_funds reaches is well typed, whatever the constants. *)
THEOREM RefillTypeCorrect == Spec => []TypeOK
  <1>1. RIInv => TypeOK
    BY DEF RIInv
  <1>2. QED
    BY <1>1, InitRIInv, NextRIInv, PTL DEF Spec
-----------------------------------------------------------------------------
(***************************************************************************)
(* ValidatorSendsEachOnce.  On the validator path the for loop splits the  *)
(* address list at idx: the addresses before it were sent to once, the     *)
(* ones after it not yet, and idx itself only when send_funds raised on it *)
(* and ensure_funds ended.  A returned call has gone past the last         *)
(* address, and outcome is set only when the call ends.                    *)
(***************************************************************************)
ValidatorPath == ~config.faucetUrl /\ config.validatorCrypto /\ config.amountCoins

SentSplit ==
    ValidatorPath =>
        /\ pc \in {"ensure", "send", "done"}
        /\ \A a \in Addrs : a < idx => requested[a] = 1
        /\ \A a \in Addrs : a > idx => requested[a] = 0
        /\ \A a \in Addrs : a = idx => requested[a] <= IF pc = "done" THEN 1 ELSE 0

Returned ==
    /\ pc # "done" => outcome = "none"
    /\ outcome = "ok" => idx > NAddr

VInv == RIInv /\ SentSplit /\ Returned

LEMMA InitVInv == Init => VInv
  <1> SUFFICES ASSUME Init PROVE VInv
    OBVIOUS
  <1>1. RIInv
    BY InitRIInv
  <1>2. SentSplit
    BY DEF Init, SentSplit, Addrs
  <1>3. Returned
    BY DEF Init, Returned
  <1>4. QED
    BY <1>1, <1>2, <1>3 DEF VInv

LEMMA NextVInv == VInv /\ [Next]_vars => VInv'
  <1> SUFFICES ASSUME VInv, [Next]_vars PROVE VInv'
    OBVIOUS
  <1> USE RefillAssumption
  <1>0. RIInv /\ RIInv' /\ TypeOK /\ SentSplit /\ Returned
    BY NextRIInv DEF VInv, RIInv
  \* A step that keeps the split and sets no result.
  <1>a. ASSUME UNCHANGED <<config, idx, requested, outcome>>,
               pc' = pc
        PROVE  VInv'
    <2>1. SentSplit'
      BY <1>0, <1>a DEF SentSplit, ValidatorPath
    <2>2. Returned'
      BY <1>0, <1>a DEF Returned
    <2>3. QED
      BY <1>0, <2>1, <2>2 DEF VInv
  <1>1. CASE EnsureFunds
    <2>1. pc = "ensure" /\ idx = 1 /\ outcome = "none"
          /\ UNCHANGED <<config, idx, requested>>
      BY <1>0, <1>1 DEF EnsureFunds, RIInv, Phase, Returned
    <2>2. \/ config.faucetUrl /\ pc' = "loop" /\ outcome' = outcome
          \/ ValidatorPath /\ pc' = "send" /\ outcome' = outcome
          \/ ~ValidatorPath /\ pc' = "done" /\ outcome' = "RuntimeError"
      BY <1>1 DEF EnsureFunds, ValidatorPath
    <2>3. SentSplit'
      BY <1>0, <2>1, <2>2 DEF SentSplit, ValidatorPath
    <2>4. Returned'
      BY <2>1, <2>2 DEF Returned
    <2>5. QED
      BY <1>0, <2>3, <2>4 DEF VInv
  <1>2. CASE FaucetRead \/ FaucetClaim \/ FaucetExhausted
    <2>2. config.faucetUrl /\ pc \in {"loop", "claim"} /\ pc' \in {"loop", "claim"}
          /\ UNCHANGED <<config, outcome>>
      BY <1>0, <1>2 DEF FaucetRead, FaucetClaim, FaucetExhausted, BalanceReturned,
         BalanceQueryRaised, NextAddress, RIInv, Phase
    <2>3. SentSplit'
      BY <2>2 DEF SentSplit, ValidatorPath
    <2>4. Returned'
      BY <1>0, <2>2 DEF Returned
    <2>5. QED
      BY <1>0, <2>3, <2>4 DEF VInv
  <1>3. CASE ValidatorSend
    <2>1. /\ pc = "send" /\ idx \in Addrs /\ outcome = "none"
          /\ requested' = [requested EXCEPT ![idx] = @ + 1]
          /\ UNCHANGED config
      BY <1>0, <1>3 DEF ValidatorSend, RIInv, TypeOK, Addrs, Returned
    <2>2. requested \in [Addrs -> Nat] /\ idx \in Nat
      BY <1>0, <2>1 DEF TypeOK, Addrs
    <2>3. CASE NextAddress /\ UNCHANGED <<pc, outcome>>
      <3>1. idx' = idx + 1
        BY <2>3 DEF NextAddress
      <3>2. SentSplit'
        <4> SUFFICES ASSUME ValidatorPath PROVE SentSplit'
          BY <2>1 DEF SentSplit, ValidatorPath
        <4>1. /\ \A a \in Addrs : a < idx => requested[a] = 1
              /\ \A a \in Addrs : a > idx => requested[a] = 0
              /\ requested[idx] = 0
          BY <1>0, <2>1 DEF SentSplit, TypeOK
        <4>2. QED
          BY <2>1, <2>2, <2>3, <3>1, <4>1 DEF SentSplit, ValidatorPath, Addrs
      <3>3. Returned'
        BY <2>1, <2>3 DEF Returned
      <3>4. QED
        BY <1>0, <3>2, <3>3 DEF VInv
    <2>4. CASE pc' = "done" /\ outcome' = "BroadcastException" /\ idx' = idx
      <3>1. SentSplit'
        <4> SUFFICES ASSUME ValidatorPath PROVE SentSplit'
          BY <2>1 DEF SentSplit, ValidatorPath
        <4>1. /\ \A a \in Addrs : a < idx => requested[a] = 1
              /\ \A a \in Addrs : a > idx => requested[a] = 0
              /\ requested[idx] = 0
          BY <1>0, <2>1 DEF SentSplit, TypeOK
        <4>2. QED
          BY <2>1, <2>2, <2>4, <4>1 DEF SentSplit, ValidatorPath, Addrs
      <3>2. Returned'
        BY <2>4 DEF Returned
      <3>3. QED
        BY <1>0, <3>1, <3>2 DEF VInv
    <2>5. QED
      BY <1>3, <2>3, <2>4 DEF ValidatorSend
  <1>4. CASE RefillDone
    <2>1. pc \in {"loop", "send"} /\ idx > NAddr /\ pc' = "done" /\ outcome' = "ok"
          /\ UNCHANGED <<config, idx, requested>>
      BY <1>4 DEF RefillDone
    <2>2. SentSplit'
      BY <1>0, <2>1 DEF SentSplit, ValidatorPath, Addrs, TypeOK
    <2>3. Returned'
      BY <2>1 DEF Returned
    <2>4. QED
      BY <1>0, <2>2, <2>3 DEF VInv
  <1>5. CASE FaucetPays
    BY <1>5, <1>a DEF FaucetPays, SentSplit, VInv, RIInv
  <1>6. CASE Finished \/ UNCHANGED vars
    <2>1. UNCHANGED vars
      BY <1>6 DEF Finished
    <2>2. QED
      BY <2>1, <1>a DEF vars
  <1>7. QED
    BY <1>1, <1>2, <1>3, <1>4, <1>5, <1>6 DEF Next, Client

(* For every list of addresses, ensure_funds' validator refill calls      *)
(* send_funds at most once per address, and once for every address when   *)
(* it returns: the for loop neither repeats nor skips an address.          *)
THEOREM ValidatorSendsOnce == Spec => []ValidatorSendsEachOnce
  <1>1. VInv => ValidatorSendsEachOnce
    <2> SUFFICES ASSUME VInv, ValidatorPath
                 PROVE  /\ \A a \in Addrs : requested[a] <= 1
                        /\ outcome = "ok" => \A a \in Addrs : requested[a] = 1
      BY DEF ValidatorSendsEachOnce, ValidatorPath
    <2>1. /\ \A a \in Addrs : a < idx => requested[a] = 1
          /\ \A a \in Addrs : a > idx => requested[a] = 0
          /\ \A a \in Addrs : a = idx => requested[a] <= 1
          /\ outcome = "ok" => idx > NAddr
          /\ idx \in Nat
      BY DEF VInv, SentSplit, Returned, RIInv, TypeOK
    <2>2. QED
      BY <2>1, RefillAssumption DEF Addrs
  <1>2. QED
    BY <1>1, InitVInv, NextVInv, PTL DEF Spec
-----------------------------------------------------------------------------
(***************************************************************************)
(* Refill implements FundingRequests.  Besides VInv the step simulation    *)
(* needs that the validator path is entered only with validator crypto and *)
(* amount coins, so that SentSplit applies while a send is due: the        *)
(* current address has had no send yet.                                    *)
(***************************************************************************)
SendConfigured == pc = "send" => ValidatorPath

FInv == VInv /\ SendConfigured


LEMMA InitFInv == Init => FInv
  BY InitVInv DEF FInv, SendConfigured, Init

LEMMA NextFInv == FInv /\ [Next]_vars => FInv'
  <1> SUFFICES ASSUME FInv, [Next]_vars PROVE FInv'
    OBVIOUS
  <1>1. VInv'
    BY NextVInv DEF FInv
  \* Only EnsureFunds enters the validator path, and no step changes config.
  <1>2. SendConfigured'
    BY DEF FInv, SendConfigured, ValidatorPath, Next, Client, EnsureFunds,
           FaucetRead, BalanceReturned, BalanceQueryRaised, FaucetClaim,
           FaucetExhausted, ValidatorSend, RefillDone, FaucetPays, Finished, vars
  <1>3. QED
    BY <1>1, <1>2 DEF FInv

LEMMA InitRefinesFunding == Init => Funding!Init
  BY DEF Init, Funding!Init, Route, Configs, Funding!Configs, Addrs, Funding!Addrs

LEMMA NextRefinesFunding == FInv /\ [Next]_vars => [Funding!Next]_(Funding!vars)
  <1> SUFFICES ASSUME FInv, [Next]_vars PROVE [Funding!Next]_(Funding!vars)
    OBVIOUS
  <1> USE RefillAssumption
  <1>0. TypeOK /\ Phase /\ SentSplit /\ SendConfigured
    BY DEF FInv, VInv, RIInv
  <1>1. CASE EnsureFunds
    BY <1>1 DEF EnsureFunds, Funding!Next, Funding!Dispatch, Route
  <1>2. CASE FaucetRead
    <2>1. CASE BalanceReturned /\ balance[idx] < MinAmount
      BY <1>2, <2>1 DEF FaucetRead, BalanceReturned, Funding!vars, Route
    <2>2. CASE BalanceReturned /\ ~(balance[idx] < MinAmount)
      <3>1. Funding!Skip
        BY <1>0, <1>2, <2>2 DEF FaucetRead, BalanceReturned, NextAddress,
                                Funding!Skip, Route, TypeOK, Funding!Addrs
      <3>2. QED
        BY <3>1 DEF Funding!Next
    <2>3. CASE BalanceQueryRaised
      BY <1>2, <2>3 DEF FaucetRead, BalanceQueryRaised, Funding!vars, Route
    <2>4. QED
      BY <1>2, <2>1, <2>2, <2>3 DEF FaucetRead
  \* A claim is posted within the budget: the iteration before it counted.
  <1>3. CASE FaucetClaim
    <2>1. idx \in Addrs /\ config.faucetUrl /\ attempt >= 1
      BY <1>0, <1>3 DEF FaucetClaim, Phase
    <2>2. requested[idx] <= attempt - 1 /\ attempt <= NTotalMsgRetries
      BY <1>3, <2>1 DEF FaucetClaim, FInv, VInv, RIInv, ClaimBound, TypeOK
    <2>3. Funding!Claim
      BY <1>0, <1>3, <2>1, <2>2 DEF FaucetClaim, Funding!Claim, Route, Addrs,
                                    Funding!Addrs, TypeOK
    <2>4. QED
      BY <2>3 DEF Funding!Next
  <1>4. CASE FaucetExhausted
    <2>1. Funding!Skip
      BY <1>0, <1>4 DEF FaucetExhausted, NextAddress, Funding!Skip, Route,
                        TypeOK, Funding!Addrs
    <2>2. QED
      BY <2>1 DEF Funding!Next
  \* The send is the current address's first: SentSplit.
  <1>5. CASE ValidatorSend
    <2>1. idx \in Addrs /\ requested[idx] = 0
      <3>1. ValidatorPath /\ pc = "send" /\ idx \in Addrs
        BY <1>0, <1>5 DEF ValidatorSend, SendConfigured, TypeOK, Addrs
      <3>2. requested[idx] \in Nat /\ requested[idx] <= 0
        BY <1>0, <3>1 DEF SentSplit, TypeOK
      <3>3. QED
        BY <3>1, <3>2
    <2>2. requested' = [requested EXCEPT ![idx] = 1]
      BY <1>5, <2>1 DEF ValidatorSend
    <2>3. Funding!Send
      BY <1>5, <2>1, <2>2 DEF ValidatorSend, NextAddress, Funding!Send, Route,
                              Addrs, Funding!Addrs
    <2>4. QED
      BY <2>3 DEF Funding!Next
  <1>6. CASE RefillDone
    BY <1>6 DEF RefillDone, Funding!Next, Funding!Return, Route
  <1>7. CASE FaucetPays \/ Finished \/ UNCHANGED vars
    BY <1>7 DEF FaucetPays, Finished, vars, Funding!vars, Route
  <1>8. QED
    BY <1>1, <1>2, <1>3, <1>4, <1>5, <1>6, <1>7 DEF Next, Client

(* ensure_funds implements FundingRequests for any number of addresses and *)
(* any budget: the source the configuration selects, the addresses in list *)
(* order, at most n_total_msg_retries faucet claims or exactly one         *)
(* validator send per address, and a return only past the last address.   *)
THEOREM FundingRefinement == Spec => ImplementsFundingRequests
  <1>1. QED
    BY InitFInv, NextFInv, InitRefinesFunding, NextRefinesFunding, PTL
       DEF Spec, ImplementsFundingRequests, Funding!Spec

-----------------------------------------------------------------------------
(***************************************************************************)
(* ClaimFollowsLowRead.  Between the read and the claim the loop is in     *)
(* "claim", and ClaimRead says that there the current address's last read  *)
(* is a number below the minimum, taken in the current iteration: only a   *)
(* returned read below it enters "claim", that read counts the iteration,  *)
(* and nothing else changes lastRead, readIn or attempt before the claim.  *)
(***************************************************************************)
ClaimRead ==
    pc = "claim" =>
        /\ lastRead[idx] \in Nat /\ lastRead[idx] < MinAmount
        /\ readIn[idx] = attempt

LEMMA InitClaimRead == Init => ClaimRead
  BY DEF Init, ClaimRead

LEMMA NextClaimRead == RIInv /\ ClaimRead /\ [Next]_vars => ClaimRead'
  <1> SUFFICES ASSUME RIInv, ClaimRead, [Next]_vars PROVE ClaimRead'
    OBVIOUS
  <1> USE RefillAssumption
  <1>0. TypeOK /\ Phase
    BY DEF RIInv
  <1>1. CASE FaucetRead /\ BalanceReturned
    <2>1. idx \in Addrs /\ lastRead'[idx] = balance[idx] /\ balance[idx] \in Nat
          /\ readIn'[idx] = attempt + 1
      BY <1>0, <1>1 DEF FaucetRead, BalanceReturned, TypeOK, Addrs
    <2>2. QED
      BY <1>1, <2>1 DEF FaucetRead, BalanceReturned, ClaimRead
  <1>2. CASE FaucetRead /\ BalanceQueryRaised
    BY <1>2 DEF FaucetRead, BalanceQueryRaised, ClaimRead
  <1>3. CASE EnsureFunds \/ FaucetClaim \/ FaucetExhausted \/ ValidatorSend \/ RefillDone
    BY <1>3 DEF EnsureFunds, FaucetClaim, FaucetExhausted, ValidatorSend, RefillDone,
                ClaimRead
  <1>4. CASE FaucetPays \/ Finished \/ UNCHANGED vars
    BY <1>4 DEF FaucetPays, Finished, vars, ClaimRead
  <1>5. QED
    BY <1>1, <1>2, <1>3, <1>4 DEF Next, Client, FaucetRead

\* With a faucet, only FaucetClaim adds to requested, and it adds to idx.
LEMMA ClaimStep ==
  ASSUME RIInv, ClaimRead, [Next]_vars
  PROVE  \A a \in Addrs :
            requested'[a] > requested[a] /\ config.faucetUrl =>
                /\ lastRead[a] \in Nat /\ lastRead[a] < MinAmount
                /\ readIn[a] = attempt
  <1> SUFFICES ASSUME NEW a \in Addrs, requested'[a] > requested[a], config.faucetUrl
               PROVE  /\ lastRead[a] \in Nat /\ lastRead[a] < MinAmount
                      /\ readIn[a] = attempt
    OBVIOUS
  <1>0. TypeOK /\ Phase
    BY DEF RIInv
  <1>1. CASE FaucetClaim
    <2>1. a = idx /\ pc = "claim"
      BY <1>0, <1>1 DEF FaucetClaim, TypeOK
    <2>2. QED
      BY <2>1 DEF ClaimRead
  <1>2. CASE ValidatorSend
    BY <1>0, <1>2 DEF ValidatorSend, Phase
  <1>3. CASE ~FaucetClaim /\ ~ValidatorSend
    <2>1. requested[a] \in Nat
      BY <1>0 DEF TypeOK, Addrs
    <2>2. QED
      BY <1>3, <2>1 DEF Next, Client, EnsureFunds, FaucetRead, BalanceReturned,
                BalanceQueryRaised, FaucetExhausted, RefillDone, FaucetPays,
                Finished, vars
  <1>4. QED
    BY <1>1, <1>2, <1>3

(* Whatever the faucet and the balance queries do, a faucet claim for an   *)
(* address follows, in the same iteration of the while loop, a             *)
(* get_balances read that saw it below min_amount_required.                *)
THEOREM ClaimsFollowLowReads == Spec => ClaimFollowsLowRead
  <1>1. RIInv /\ ClaimRead /\ [Next]_vars =>
          [\A a \in Addrs :
              requested'[a] > requested[a] /\ config.faucetUrl =>
                  /\ lastRead[a] \in Nat /\ lastRead[a] < MinAmount
                  /\ readIn[a] = attempt]_vars
    BY ClaimStep
  <1>2. QED
    BY <1>1, InitRIInv, NextRIInv, InitClaimRead, NextClaimRead, PTL
       DEF Spec, ClaimFollowsLowRead

=============================================================================
