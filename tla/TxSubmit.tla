------------------------------ MODULE TxSubmit ------------------------------
(***************************************************************************)
(* What the transaction workflows of CosmosLedger promise about one        *)
(* signing account, however many invocations use it at once: the account  *)
(* has at most one pending transaction, which carries the account's next   *)
(* sequence and is either committed or lost; and an invocation either      *)
(* raises or returns the receipt of a committed transaction of its own.    *)
(* CosmosLedger refines this specification (ImplementsTxSubmit, proved in  *)
(* CosmosLedgerProofs).                                                    *)
(***************************************************************************)
EXTENDS Naturals, TLAPS

CONSTANTS
    Procs,     \* workflow invocations
    NoTx       \* no transaction

Tx == [p : Procs, s : Nat]

VARIABLES
    seq,       \* the account's committed sequence
    slot,      \* the account's pending transaction, or NoTx
    onChain,   \* the committed transactions
    status,    \* "running", "returned" or "raised", per invocation
    reported   \* the transaction whose receipt an invocation returned

vars == <<seq, slot, onChain, status, reported>>

Init ==
    /\ seq = 0
    /\ slot = NoTx
    /\ onChain = {}
    /\ status = [p \in Procs |-> "running"]
    /\ reported = [p \in Procs |-> NoTx]

\* A running invocation gets a transaction of its own, with the account's
\* next sequence, accepted while none of the account's is pending.
Submit(p) ==
    /\ status[p] = "running"
    /\ slot = NoTx
    /\ slot' = [p |-> p, s |-> seq]
    /\ UNCHANGED <<seq, onChain, status, reported>>

\* The pending transaction is committed.
Commit ==
    /\ slot # NoTx
    /\ onChain' = onChain \cup {slot}
    /\ seq' = seq + 1
    /\ slot' = NoTx
    /\ UNCHANGED <<status, reported>>

\* The pending transaction is lost.
Drop ==
    /\ slot # NoTx
    /\ slot' = NoTx
    /\ UNCHANGED <<seq, onChain, status, reported>>

\* A running invocation returns the receipt of a committed tx of its own.
Return(p) ==
    /\ status[p] = "running"
    /\ \E t \in onChain :
          /\ t.p = p
          /\ reported' = [reported EXCEPT ![p] = t]
    /\ status' = [status EXCEPT ![p] = "returned"]
    /\ UNCHANGED <<seq, slot, onChain>>

\* A running invocation raises.
Fail(p) ==
    /\ status[p] = "running"
    /\ status' = [status EXCEPT ![p] = "raised"]
    /\ UNCHANGED <<seq, slot, onChain, reported>>

Next ==
    \/ \E p \in Procs : Submit(p) \/ Return(p) \/ Fail(p)
    \/ Commit
    \/ Drop

Spec == Init /\ [][Next]_vars

TypeOK ==
    /\ seq \in Nat
    /\ slot \in Tx \cup {NoTx}
    /\ onChain \subseteq Tx
    /\ status \in [Procs -> {"running", "returned", "raised"}]
    /\ reported \in [Procs -> Tx \cup {NoTx}]

(* An invocation that returned reports a transaction that it submitted     *)
(* itself and that is committed.                                           *)
ReportedOwn ==
    \A p \in Procs :
        status[p] = "returned" => reported[p] \in onChain /\ reported[p].p = p

LEMMA InitTypeOK == Init => TypeOK /\ ReportedOwn
  BY DEF Init, TypeOK, ReportedOwn, Tx

LEMMA NextTypeOK == TypeOK /\ ReportedOwn /\ [Next]_vars => TypeOK' /\ ReportedOwn'
  <1> SUFFICES ASSUME TypeOK, ReportedOwn, [Next]_vars
               PROVE  TypeOK' /\ ReportedOwn'
    OBVIOUS
  <1>1. ASSUME NEW q \in Procs, Submit(q) PROVE TypeOK' /\ ReportedOwn'
    BY <1>1 DEF Submit, TypeOK, ReportedOwn, Tx
  <1>2. ASSUME NEW q \in Procs, Return(q) PROVE TypeOK' /\ ReportedOwn'
    <2>1. PICK t \in onChain : t.p = q /\ reported' = [reported EXCEPT ![q] = t]
      BY <1>2 DEF Return
    <2>2. QED
      BY <1>2, <2>1 DEF Return, TypeOK, ReportedOwn
  <1>3. ASSUME NEW q \in Procs, Fail(q) PROVE TypeOK' /\ ReportedOwn'
    BY <1>3 DEF Fail, TypeOK, ReportedOwn
  <1>4. CASE Commit
    BY <1>4 DEF Commit, TypeOK, ReportedOwn
  <1>5. CASE Drop \/ UNCHANGED vars
    BY <1>5 DEF Drop, TypeOK, ReportedOwn, vars
  <1>6. QED
    BY <1>1, <1>2, <1>3, <1>4, <1>5 DEF Next

(* Whatever the interleaving of submissions, commits, losses and the       *)
(* invocations' returns, an invocation that returned reports a committed   *)
(* transaction of its own.                                                 *)
LEMMA ReportedOwnHolds == Spec => []ReportedOwn
  BY InitTypeOK, NextTypeOK, PTL DEF Spec
=============================================================================
