--------------------------- MODULE MCCosmosLedger ---------------------------
(***************************************************************************)
(* Model-checking instances of CosmosLedger: two concurrent invocations    *)
(* signing with the same account.                                          *)
(***************************************************************************)
EXTENDS CosmosLedger

CONSTANTS p1, p2

MCProcs == {p1, p2}

\* A deploy_contract racing an execute_contract.
DeployExecute == [p \in MCProcs |-> IF p = p1 THEN "deploy" ELSE "execute"]

\* An instantiate_contract racing a send_funds.
InstantiateSend == [p \in MCProcs |-> IF p = p1 THEN "instantiate" ELSE "send"]

\* Two deploy_contract invocations.
DeployDeploy == [p \in MCProcs |-> "deploy"]
=============================================================================
