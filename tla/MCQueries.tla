----------------------------- MODULE MCQueries -----------------------------
(***************************************************************************)
(* Queries for TLC.  The cfgs give n_total_msg_retries = 3 and let the     *)
(* caller pass n_retries = None, 0 or 2 to query_contract_state: the       *)
(* default, the zero budget and an explicit budget below the default.      *)
(***************************************************************************)
EXTENDS Queries

=============================================================================
