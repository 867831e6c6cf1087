------------------------------ MODULE MCRefill ------------------------------
(***************************************************************************)
(* Model-checking instance of Refill: two addresses, a threshold of two    *)
(* that one faucet payout does not reach, and three loop iterations.       *)
(***************************************************************************)
EXTENDS Refill
=============================================================================
