-------------------------- MODULE FundingRequests --------------------------
(***************************************************************************)
(* What CosmosLedger.ensure_funds promises about the funding it asks for,  *)
(* whatever the balances, the faucet and the node do.  It takes the faucet *)
(* when a faucet URL is configured, the validator when validator crypto    *)
(* and amount coins are, and raises RuntimeError otherwise.  It goes       *)
(* through the addresses in list order: on the faucet it asks at most      *)
(* Budget times per address and may move on at any time; on the validator *)
(* it asks exactly once per address, and a failed send ends the call.  It  *)
(* returns only past the last address.  Refill refines this specification  *)
(* (ImplementsFundingRequests, proved in RefillProofs).                    *)
(***************************************************************************)
EXTENDS Naturals

CONSTANTS
    NAddr,     \* the number of addresses
    Budget     \* the faucet's requests per address

Addrs == 1..NAddr

Configs == [faucetUrl : BOOLEAN, validatorCrypto : BOOLEAN, amountCoins : BOOLEAN]

VARIABLES
    config,    \* the configured funding sources
    route,     \* "ensure", "faucet", "validator" or "done"
    cursor,    \* the address being funded
    asked,     \* asked[a]: funding requests made for address a
    result     \* "none" while running, "ok", or the exception raised

vars == <<config, route, cursor, asked, result>>

Init ==
    /\ config \in Configs
    /\ route = "ensure"
    /\ cursor = 1
    /\ asked = [a \in Addrs |-> 0]
    /\ result = "none"

\* The choice of the funding source.
Dispatch ==
    /\ route = "ensure"
    /\ \/ /\ config.faucetUrl
          /\ route' = "faucet"
          /\ UNCHANGED result
       \/ /\ ~config.faucetUrl /\ config.validatorCrypto /\ config.amountCoins
          /\ route' = "validator"
          /\ UNCHANGED result
       \/ /\ ~config.faucetUrl /\ ~(config.validatorCrypto /\ config.amountCoins)
          /\ route' = "done"
          /\ result' = "RuntimeError"
    /\ UNCHANGED <<config, cursor, asked>>

\* A faucet request for the current address, within its budget.
Claim ==
    /\ route = "faucet"
    /\ cursor \in Addrs
    /\ asked[cursor] < Budget
    /\ asked' = [asked EXCEPT ![cursor] = @ + 1]
    /\ UNCHANGED <<config, route, cursor, result>>

\* The faucet moves on to the next address.
Skip ==
    /\ route = "faucet"
    /\ cursor \in Addrs
    /\ cursor' = cursor + 1
    /\ UNCHANGED <<config, route, asked, result>>

\* The validator's one send to the current address, which moves on or, when
\* it raises, ends the call.
Send ==
    /\ route = "validator"
    /\ cursor \in Addrs
    /\ asked[cursor] = 0
    /\ asked' = [asked EXCEPT ![cursor] = 1]
    /\ \/ /\ cursor' = cursor + 1
          /\ UNCHANGED <<route, result>>
       \/ /\ route' = "done"
          /\ result' = "BroadcastException"
          /\ UNCHANGED cursor
    /\ UNCHANGED config

\* The call returns past the last address.
Return ==
    /\ route \in {"faucet", "validator"}
    /\ cursor > NAddr
    /\ route' = "done"
    /\ result' = "ok"
    /\ UNCHANGED <<config, cursor, asked>>

Next == Dispatch \/ Claim \/ Skip \/ Send \/ Return

Spec == Init /\ [][Next]_vars
=============================================================================
