------------------------- MODULE CosmosLedgerProofs -------------------------
(***************************************************************************)
(* Proofs about CosmosLedger, for every number of invocations, every       *)
(* assignment of workflows and every retry budget.                         *)
(***************************************************************************)
EXTENDS CosmosLedger, SequenceTheorems, TLAPS

(***************************************************************************)
(* The invariant holds initially: nothing is built and the mempool is      *)
(* empty.                                                                  *)
(***************************************************************************)
LEMMA InitIInv == Init => IInv
  <1> SUFFICES ASSUME Init PROVE IInv
    OBVIOUS
  <1>1. mempool \in Seq(Tx) /\ Len(mempool) = 0
    BY EmptySeq DEF Init
  <1>2. TypeOK
    BY <1>1 DEF Init, TypeOK
  <1>3. TxBuilt /\ SeqNotAhead
    BY SentinelAssumption DEF Init, TxBuilt, SeqNotAhead
  <1>4. AtMostOneInFlight
    BY <1>1 DEF AtMostOneInFlight
  <1>5. QED
    BY <1>2, <1>3, <1>4 DEF IInv

(***************************************************************************)
(* What an exception or a result does to outcome: it stays in its type.    *)
(***************************************************************************)
LEMMA RaiseType ==
  ASSUME TypeOK, NEW p \in Procs, NEW e \in Exceptions, Raise(p, e)
  PROVE  /\ pc' \in [Procs -> {"loop", "build", "sign", "broadcast", "confirm", "done"}]
         /\ outcome' \in [Procs -> {"none", "ok"} \cup Exceptions]
         /\ pc'[p] \in {"loop", "done"}
         /\ \A q \in Procs \ {p} : pc'[q] = pc[q]
  BY DEF Raise, TypeOK

LEMMA ExtractType ==
  ASSUME NEW p \in Procs, NEW r \in Results
  PROVE  Extract(p, r) \in {"ok"} \cup Exceptions
  BY WorkflowAssumption
     DEF Extract, GetCodeId, GetContractAddress, Results,
         LogKinds, Exceptions

LEMMA ConcludeType ==
  ASSUME TypeOK, NEW p \in Procs, NEW o \in {"ok"} \cup Exceptions, Conclude(p, o)
  PROVE  /\ pc' \in [Procs -> {"loop", "build", "sign", "broadcast", "confirm", "done"}]
         /\ outcome' \in [Procs -> {"none", "ok"} \cup Exceptions]
         /\ pc'[p] \in {"loop", "done"}
         /\ \A q \in Procs \ {p} : pc'[q] = pc[q]
  <1>1. CASE o = "ok"
    BY <1>1 DEF Conclude, TypeOK
  <1>2. CASE o # "ok"
    BY <1>2, RaiseType DEF Conclude
  <1>3. QED
    BY <1>1, <1>2

(***************************************************************************)
(* Every step keeps the invariant.  The steps that matter are Build, which *)
(* takes the committed sequence, BroadcastAttempt, which appends to the    *)
(* mempool only what CheckTx admits, and Commit, which raises chainSeq.    *)
(***************************************************************************)
LEMMA NextIInv == IInv /\ [Next]_vars => IInv'
  <1> SUFFICES ASSUME IInv, [Next]_vars PROVE IInv'
    OBVIOUS
  <1>0. /\ TypeOK /\ TxBuilt /\ SeqNotAhead /\ AtMostOneInFlight
    BY DEF IInv
  <1>1. ASSUME NEW p \in Procs, LoopIterate(p) PROVE IInv'
    BY <1>0, <1>1 DEF LoopIterate, IInv, TypeOK, TxBuilt, SeqNotAhead,
       AtMostOneInFlight, chainVars
  <1>2. ASSUME NEW p \in Procs, LoopExhausted(p) PROVE IInv'
    BY <1>0, <1>2 DEF LoopExhausted, IInv, TypeOK, TxBuilt, SeqNotAhead,
       AtMostOneInFlight, chainVars, Exceptions
  <1>3. ASSUME NEW p \in Procs, Build(p) PROVE IInv'
    <2>1. CASE /\ AccountQueryCanSucceed
               /\ tx' = [tx EXCEPT ![p] = [p |-> p, s |-> chainSeq]]
               /\ pc' = [pc EXCEPT ![p] = "sign"]
               /\ UNCHANGED outcome
      BY <1>0, <1>3, <2>1 DEF Build, IInv, TypeOK, TxBuilt, SeqNotAhead,
         AtMostOneInFlight, chainVars, Tx
    <2>2. CASE Raise(p, "BroadcastException") /\ UNCHANGED tx
      <3>1. /\ pc' \in [Procs -> {"loop", "build", "sign", "broadcast", "confirm", "done"}]
            /\ outcome' \in [Procs -> {"none", "ok"} \cup Exceptions]
            /\ pc'[p] \in {"loop", "done"}
            /\ \A q \in Procs \ {p} : pc'[q] = pc[q]
        BY <1>0, <2>2, RaiseType DEF Exceptions
      <3>2. QED
        BY <1>0, <1>3, <2>2, <3>1 DEF Build, IInv, TypeOK, TxBuilt, SeqNotAhead,
           AtMostOneInFlight, chainVars
    <2>3. QED
      BY <1>3, <2>1, <2>2 DEF Build
  <1>4. ASSUME NEW p \in Procs, Sign(p) PROVE IInv'
    <2>1. CASE /\ pc' = [pc EXCEPT ![p] = "broadcast"]
               /\ UNCHANGED outcome
      BY <1>0, <1>4, <2>1 DEF Sign, IInv, TypeOK, TxBuilt, SeqNotAhead,
         AtMostOneInFlight, chainVars
    <2>2. CASE Raise(p, "BroadcastException") /\ UNCHANGED accountNumberKnown
      <3>1. /\ pc' \in [Procs -> {"loop", "build", "sign", "broadcast", "confirm", "done"}]
            /\ outcome' \in [Procs -> {"none", "ok"} \cup Exceptions]
            /\ pc'[p] \in {"loop", "done"}
            /\ \A q \in Procs \ {p} : pc'[q] = pc[q]
        BY <1>0, <2>2, RaiseType DEF Exceptions
      <3>2. QED
        BY <1>0, <1>4, <2>2, <3>1 DEF Sign, IInv, TypeOK, TxBuilt, SeqNotAhead,
           AtMostOneInFlight, chainVars
    <2>3. QED
      BY <1>4, <2>1, <2>2 DEF Sign
  <1>5. ASSUME NEW p \in Procs, BroadcastAttempt(p) PROVE IInv'
    <2>0. tx[p] \in Tx /\ tx[p].s <= chainSeq
      BY <1>0, <1>5 DEF BroadcastAttempt, TxBuilt, SeqNotAhead
    <2>1. Admissible(tx[p]) => mempool = <<>>
      BY <1>0, <2>0, EmptySeq DEF Admissible, TypeOK, Tx
    <2>2. Admissible(tx[p]) =>
            /\ Append(mempool, tx[p]) \in Seq(Tx)
            /\ Len(Append(mempool, tx[p])) = 1
      BY <1>0, <2>0, <2>1, AppendProperties, EmptySeq DEF TypeOK
    <2>3. /\ mempool' \in Seq(Tx)
          /\ Len(mempool') <= 1
      BY <1>0, <1>5, <2>2 DEF BroadcastAttempt, TypeOK, AtMostOneInFlight
    <2>4. UNCHANGED <<chainSeq, committed, accountNumberKnown, attempt, tx, res>>
      BY <1>5 DEF BroadcastAttempt
    <2>5. CASE /\ mempool' \in {mempool} \cup
                    IF Admissible(tx[p]) THEN {Append(mempool, tx[p])} ELSE {}
               /\ inner' = [inner EXCEPT ![p] = @ + 1]
               /\ UNCHANGED <<pc, outcome>>
      BY <1>0, <2>3, <2>4, <2>5 DEF IInv, TypeOK, TxBuilt, SeqNotAhead,
         AtMostOneInFlight
    <2>6. CASE /\ Admissible(tx[p])
               /\ mempool' = Append(mempool, tx[p])
               /\ pc' = [pc EXCEPT ![p] = "confirm"]
               /\ inner' = [inner EXCEPT ![p] = 0]
               /\ UNCHANGED outcome
      BY <1>0, <2>0, <2>3, <2>4, <2>6 DEF IInv, TypeOK, TxBuilt, SeqNotAhead,
         AtMostOneInFlight
    <2>7. CASE /\ ~Admissible(tx[p])
               /\ Raise(p, "BroadcastException")
               /\ UNCHANGED <<mempool, inner>>
      <3>1. /\ pc' \in [Procs -> {"loop", "build", "sign", "broadcast", "confirm", "done"}]
            /\ outcome' \in [Procs -> {"none", "ok"} \cup Exceptions]
            /\ pc'[p] \in {"loop", "done"}
            /\ \A q \in Procs \ {p} : pc'[q] = pc[q]
        BY <1>0, <2>7, RaiseType DEF Exceptions
      <3>2. QED
        BY <1>0, <2>4, <2>7, <3>1 DEF IInv, TypeOK, TxBuilt, SeqNotAhead,
           AtMostOneInFlight
    <2>8. QED
      BY <1>5, <2>5, <2>6, <2>7 DEF BroadcastAttempt
  <1>6. ASSUME NEW p \in Procs, BroadcastExhausted(p) PROVE IInv'
    <2>1. /\ pc' \in [Procs -> {"loop", "build", "sign", "broadcast", "confirm", "done"}]
          /\ outcome' \in [Procs -> {"none", "ok"} \cup Exceptions]
          /\ pc'[p] \in {"loop", "done"}
          /\ \A q \in Procs \ {p} : pc'[q] = pc[q]
      BY <1>0, <1>6, RaiseType DEF BroadcastExhausted, Exceptions
    <2>2. QED
      BY <1>0, <1>6, <2>1 DEF BroadcastExhausted, IInv, TypeOK, TxBuilt,
         SeqNotAhead, AtMostOneInFlight, chainVars
  <1>7. ASSUME NEW p \in Procs, ConfirmAttempt(p) PROVE IInv'
    <2>1. CASE UNCHANGED <<pc, res, outcome>>
      BY <1>0, <1>7, <2>1 DEF ConfirmAttempt, IInv, TypeOK, TxBuilt,
         SeqNotAhead, AtMostOneInFlight, chainVars
    <2>2. ASSUME NEW r \in Receipts(p),
                 res' = [res EXCEPT ![p] = r],
                 Conclude(p, Extract(p, r))
          PROVE  IInv'
      <3>1. r \in Results
        BY <1>0 DEF Receipts, TypeOK
      <3>2. /\ pc' \in [Procs -> {"loop", "build", "sign", "broadcast", "confirm", "done"}]
            /\ outcome' \in [Procs -> {"none", "ok"} \cup Exceptions]
            /\ pc'[p] \in {"loop", "done"}
            /\ \A q \in Procs \ {p} : pc'[q] = pc[q]
        BY <1>0, <2>2, <3>1, ExtractType, ConcludeType
      <3>3. UNCHANGED <<chainSeq, mempool, committed, accountNumberKnown, attempt, tx>>
            /\ inner' = [inner EXCEPT ![p] = @ + 1]
        BY <1>7 DEF ConfirmAttempt, chainVars
      <3>4. res' \in [Procs -> Results \cup {NoResult}]
        BY <1>0, <2>2, <3>1 DEF TypeOK
      <3>5. inner' \in [Procs -> Nat]
        BY <1>0, <3>3 DEF TypeOK
      <3>6. TypeOK'
        BY <1>0, <3>2, <3>3, <3>4, <3>5 DEF TypeOK
      <3>7. TxBuilt'
        BY <1>0, <3>2, <3>3 DEF TxBuilt
      <3>8. SeqNotAhead' /\ AtMostOneInFlight'
        BY <1>0, <3>3 DEF SeqNotAhead, AtMostOneInFlight
      <3>9. QED
        BY <3>6, <3>7, <3>8 DEF IInv
    <2>3. QED
      BY <1>7, <2>1, <2>2 DEF ConfirmAttempt

  <1>8. ASSUME NEW p \in Procs, ConfirmExhausted(p) PROVE IInv'
    <2>1. /\ pc' \in [Procs -> {"loop", "build", "sign", "broadcast", "confirm", "done"}]
          /\ outcome' \in [Procs -> {"none", "ok"} \cup Exceptions]
          /\ pc'[p] \in {"loop", "done"}
          /\ \A q \in Procs \ {p} : pc'[q] = pc[q]
      BY <1>0, <1>8, RaiseType DEF ConfirmExhausted, Exceptions
    <2>2. QED
      BY <1>0, <1>8, <2>1 DEF ConfirmExhausted, IInv, TypeOK, TxBuilt,
         SeqNotAhead, AtMostOneInFlight, chainVars
  <1>9. CASE Commit
    <2>1. PICK r \in ResultsOf(Head(mempool)) : committed' = committed \cup {r}
      BY <1>9 DEF Commit
    <2>2. /\ Head(mempool) \in Tx
          /\ Tail(mempool) \in Seq(Tx)
          /\ Len(Tail(mempool)) = Len(mempool) - 1
      BY <1>0, <1>9, HeadTailProperties DEF Commit, TypeOK
    <2>3. r \in Results
      BY <2>1, <2>2 DEF ResultsOf, Results
    <2>4. TypeOK'
      BY <1>0, <1>9, <2>1, <2>2, <2>3 DEF Commit, TypeOK, procVars
    <2>5. AtMostOneInFlight'
      BY <1>0, <1>9, <2>2 DEF Commit, AtMostOneInFlight
    <2>6. SeqNotAhead'
      BY <1>0, <1>9 DEF Commit, SeqNotAhead, TypeOK, Tx, procVars
    <2>7. TxBuilt'
      BY <1>0, <1>9 DEF Commit, TxBuilt, procVars
    <2>8. QED
      BY <2>4, <2>5, <2>6, <2>7 DEF IInv
  <1>10. CASE DropMempool
    BY <1>0, <1>10 DEF DropMempool, IInv, TypeOK, TxBuilt, SeqNotAhead,
       AtMostOneInFlight, procVars
  <1>11. CASE Finished \/ UNCHANGED vars
    BY <1>0, <1>11 DEF Finished, IInv, TypeOK, TxBuilt, SeqNotAhead,
       AtMostOneInFlight, vars, chainVars, procVars
  <1>12. QED
    BY <1>1, <1>2, <1>3, <1>4, <1>5, <1>6, <1>7, <1>8, <1>9, <1>10, <1>11
       DEF Next, Step

(* The type invariant: every variable keeps the type TypeOK gives it, in   *)
(* every run of the client and the node.                                   *)
THEOREM TypeCorrect == Spec => []TypeOK
  <1>1. IInv => TypeOK
    BY DEF IInv
  <1>2. QED
    BY InitIInv, NextIInv, <1>1, PTL DEF Spec

(* At most one tx of the shared account is ever pending on the node,      *)
(* whatever the number of concurrent invocations, their workflows, their   *)
(* retry budgets, lost acks, confirmation timeouts and mempool drops:      *)
(* generate_tx's reading of the committed sequence serialises them.        *)
THEOREM OneInFlight == Spec => []AtMostOneInFlight
  <1>1. IInv => AtMostOneInFlight
    BY DEF IInv
  <1>2. QED
    BY InitIInv, NextIInv, <1>1, PTL DEF Spec
-----------------------------------------------------------------------------
(***************************************************************************)
(* ReportedResultIsOnChain.  Its strengthening ReportedInv adds that a     *)
(* returned invocation is done.  A step of invocation q touches only q's   *)
(* entries and never starts from "done", and no step removes a committed   *)
(* result; so the only step that can make ReportedInv' fail is the one     *)
(* that sets outcome'[q] = "ok", which is ConfirmAttempt with the receipt  *)
(* GetTx returned for q's own tx.                                          *)
(***************************************************************************)

\* Raise changes only p's entries, and outcome[p] only to the exception.
LEMMA RaiseFrame ==
  ASSUME TypeOK, NEW p \in Procs, NEW e \in Exceptions, Raise(p, e)
  PROVE  /\ \A q \in Procs \ {p} : pc'[q] = pc[q] /\ outcome'[q] = outcome[q]
         /\ outcome'[p] \in {outcome[p]} \cup Exceptions
  BY DEF Raise, TypeOK

\* An invocation that is not done has not returned.
LEMMA NotDoneNotOk ==
  ASSUME ReportedInv, NEW q \in Procs, pc[q] # "done",
         outcome'[q] \in {outcome[q]} \cup Exceptions
  PROVE  outcome'[q] # "ok"
  BY DEF ReportedInv, Exceptions

\* A step of q that keeps every other invocation's entries and the
\* committed results, and returns only with q's own committed receipt.
LEMMA StepReported ==
  ASSUME ReportedInv, NEW q \in Procs, committed \subseteq committed',
         \A p \in Procs \ {q} : /\ pc'[p] = pc[p] /\ outcome'[p] = outcome[p]
                                /\ res'[p] = res[p] /\ tx'[p] = tx[p],
         outcome'[q] = "ok" => /\ pc'[q] = "done" /\ res'[q] \in committed'
                               /\ res'[q].tx = tx'[q]
  PROVE  ReportedInv'
  <1> SUFFICES ASSUME NEW p \in Procs, outcome'[p] = "ok"
               PROVE  pc'[p] = "done" /\ res'[p] \in committed' /\ res'[p].tx = tx'[p]
    BY DEF ReportedInv
  <1>1. CASE p = q
    BY <1>1
  <1>2. CASE p # q
    BY <1>2 DEF ReportedInv
  <1>3. QED
    BY <1>1, <1>2

LEMMA InitReportedInv == Init => ReportedInv
  BY DEF Init, ReportedInv

LEMMA NextReportedInv == IInv /\ ReportedInv /\ [Next]_vars => ReportedInv'
  <1> SUFFICES ASSUME IInv, ReportedInv, [Next]_vars PROVE ReportedInv'
    OBVIOUS
  <1>0. TypeOK
    BY DEF IInv
  \* The steps of q other than ConfirmAttempt never set outcome[q] to "ok".
  <1>1. ASSUME NEW q \in Procs, pc[q] # "done", committed' = committed,
               \A p \in Procs \ {q} : /\ pc'[p] = pc[p] /\ outcome'[p] = outcome[p]
                                      /\ res'[p] = res[p] /\ tx'[p] = tx[p],
               outcome'[q] \in {outcome[q]} \cup Exceptions
        PROVE  ReportedInv'
    <2>1. outcome'[q] # "ok"
      BY <1>1, NotDoneNotOk
    <2>2. QED
      BY <1>1, <2>1, StepReported
  <1>2. ASSUME NEW q \in Procs, LoopIterate(q) PROVE ReportedInv'
    BY <1>0, <1>2, <1>1 DEF LoopIterate, TypeOK, chainVars
  <1>3. ASSUME NEW q \in Procs, LoopExhausted(q) PROVE ReportedInv'
    BY <1>0, <1>3, <1>1 DEF LoopExhausted, TypeOK, chainVars, Exceptions
  <1>4. ASSUME NEW q \in Procs, Build(q) PROVE ReportedInv'
    <2>1. CASE /\ tx' = [tx EXCEPT ![q] = [p |-> q, s |-> chainSeq]]
               /\ pc' = [pc EXCEPT ![q] = "sign"]
               /\ UNCHANGED outcome
      BY <1>0, <1>4, <2>1, <1>1 DEF Build, TypeOK, chainVars
    <2>2. CASE Raise(q, "BroadcastException") /\ UNCHANGED tx
      <3>1. /\ \A p \in Procs \ {q} : pc'[p] = pc[p] /\ outcome'[p] = outcome[p]
            /\ outcome'[q] \in {outcome[q]} \cup Exceptions
        BY <1>0, <2>2, RaiseFrame DEF Exceptions
      <3>2. QED
        BY <1>4, <2>2, <3>1, <1>1 DEF Build, chainVars
    <2>3. QED
      BY <1>4, <2>1, <2>2 DEF Build
  <1>5. ASSUME NEW q \in Procs, Sign(q) PROVE ReportedInv'
    <2>1. CASE /\ pc' = [pc EXCEPT ![q] = "broadcast"]
               /\ UNCHANGED outcome
      BY <1>0, <1>5, <2>1, <1>1 DEF Sign, TypeOK, chainVars
    <2>2. CASE Raise(q, "BroadcastException")
      <3>1. /\ \A p \in Procs \ {q} : pc'[p] = pc[p] /\ outcome'[p] = outcome[p]
            /\ outcome'[q] \in {outcome[q]} \cup Exceptions
        BY <1>0, <2>2, RaiseFrame DEF Exceptions
      <3>2. QED
        BY <1>5, <3>1, <1>1 DEF Sign, chainVars
    <2>3. QED
      BY <1>5, <2>1, <2>2 DEF Sign
  <1>6. ASSUME NEW q \in Procs, BroadcastAttempt(q) PROVE ReportedInv'
    <2>1. CASE UNCHANGED outcome /\ \A p \in Procs \ {q} : pc'[p] = pc[p]
      BY <1>6, <2>1, <1>1 DEF BroadcastAttempt
    <2>2. CASE Raise(q, "BroadcastException")
      <3>1. /\ \A p \in Procs \ {q} : pc'[p] = pc[p] /\ outcome'[p] = outcome[p]
            /\ outcome'[q] \in {outcome[q]} \cup Exceptions
        BY <1>0, <2>2, RaiseFrame DEF Exceptions
      <3>2. QED
        BY <1>6, <3>1, <1>1 DEF BroadcastAttempt
    <2>3. QED
      BY <1>0, <1>6, <2>1, <2>2 DEF BroadcastAttempt, TypeOK
  <1>7. ASSUME NEW q \in Procs, BroadcastExhausted(q) PROVE ReportedInv'
    <2>1. /\ \A p \in Procs \ {q} : pc'[p] = pc[p] /\ outcome'[p] = outcome[p]
          /\ outcome'[q] \in {outcome[q]} \cup Exceptions
      BY <1>0, <1>7, RaiseFrame DEF BroadcastExhausted, Exceptions
    <2>2. QED
      BY <1>7, <2>1, <1>1 DEF BroadcastExhausted, chainVars
  <1>8. ASSUME NEW q \in Procs, ConfirmExhausted(q) PROVE ReportedInv'
    <2>1. /\ \A p \in Procs \ {q} : pc'[p] = pc[p] /\ outcome'[p] = outcome[p]
          /\ outcome'[q] \in {outcome[q]} \cup Exceptions
      BY <1>0, <1>8, RaiseFrame DEF ConfirmExhausted, Exceptions
    <2>2. QED
      BY <1>8, <2>1, <1>1 DEF ConfirmExhausted, chainVars
  <1>9. ASSUME NEW q \in Procs, ConfirmAttempt(q) PROVE ReportedInv'
    <2>1. CASE UNCHANGED <<pc, res, outcome>>
      BY <1>9, <2>1, <1>1 DEF ConfirmAttempt, chainVars
    <2>2. ASSUME NEW r \in Receipts(q),
                 res' = [res EXCEPT ![q] = r],
                 Conclude(q, Extract(q, r))
          PROVE  ReportedInv'
      <3>1. committed' = committed /\ tx' = tx
        BY <1>9 DEF ConfirmAttempt, chainVars
      <3>2. /\ res'[q] = r /\ r \in committed /\ r.tx = tx[q]
            /\ \A p \in Procs \ {q} : res'[p] = res[p]
        BY <1>0, <2>2 DEF Receipts, TypeOK
      <3>3. CASE Extract(q, r) = "ok"
        <4>1. /\ pc' = [pc EXCEPT ![q] = "done"]
              /\ outcome' = [outcome EXCEPT ![q] = "ok"]
          BY <2>2, <3>3 DEF Conclude
        <4>2. QED
          BY <1>0, <3>1, <3>2, <4>1, StepReported DEF TypeOK
      <3>4. CASE Extract(q, r) # "ok"
        <4>1. Extract(q, r) \in Exceptions
          BY <1>0, <3>4, ExtractType DEF Receipts, TypeOK
        <4>2. /\ \A p \in Procs \ {q} : pc'[p] = pc[p] /\ outcome'[p] = outcome[p]
              /\ outcome'[q] \in {outcome[q]} \cup Exceptions
          BY <1>0, <2>2, <3>4, <4>1, RaiseFrame DEF Conclude
        <4>3. QED
          BY <1>9, <3>1, <3>2, <4>2, <1>1 DEF ConfirmAttempt
      <3>5. QED
        BY <3>3, <3>4
    <2>3. QED
      BY <1>9, <2>1, <2>2 DEF ConfirmAttempt
  <1>10. CASE Commit
    BY <1>10, StepReported DEF Commit, procVars, ReportedInv
  <1>11. CASE DropMempool \/ Finished \/ UNCHANGED vars
    BY <1>11 DEF DropMempool, Finished, ReportedInv, vars, chainVars, procVars
  <1>12. QED
    BY <1>2, <1>3, <1>4, <1>5, <1>6, <1>7, <1>8, <1>9, <1>10, <1>11
       DEF Next, Step

(* A workflow that returns reports the committed receipt of the tx it     *)
(* built last, for any number of concurrent invocations and any budgets:  *)
(* get_tx asks for the hash broadcast_tx just sent, and a returned         *)
(* invocation takes no further step that could rebuild its tx.             *)
THEOREM ReportedOnChain == Spec => []ReportedResultIsOnChain
  <1>1. IInv /\ ReportedInv => ReportedResultIsOnChain
    BY DEF ReportedInv, ReportedResultIsOnChain
  <1>2. QED
    BY InitIInv, NextIInv, InitReportedInv, NextReportedInv, <1>1, PTL DEF Spec
-----------------------------------------------------------------------------
(***************************************************************************)
(* CosmosLedger implements TxSubmit.  Besides IInv the step simulation     *)
(* needs two facts: an invocation's tx is its own (generate_tx builds it   *)
(* for the invocation's message), so the receipt a workflow returns is of  *)
(* a tx it submitted; and an invocation that is not done has neither       *)
(* returned nor raised, so each of its steps starts from a running status. *)
(***************************************************************************)
TxOwn == \A p \in Procs : tx[p] \in Tx => tx[p].p = p

Running == \A p \in Procs : pc[p] # "done" => outcome[p] = "none"

OwnInv == TxOwn /\ Running

\* A step of q that keeps the other invocations' entries, builds only txs
\* of q, and leaves outcome[q] alone unless q becomes done.
LEMMA StepOwn ==
  ASSUME OwnInv, NEW q \in Procs, pc[q] # "done",
         \A p \in Procs \ {q} : /\ pc'[p] = pc[p] /\ outcome'[p] = outcome[p]
                                /\ tx'[p] = tx[p],
         pc'[q] # "done" => outcome'[q] = outcome[q],
         tx'[q] \in Tx => tx'[q].p = q
  PROVE  OwnInv'
  BY DEF OwnInv, TxOwn, Running

\* A caught exception keeps the outcome; one that escapes ends the invocation.
LEMMA RaiseKeeps ==
  ASSUME TypeOK, NEW p \in Procs, NEW e \in Exceptions, Raise(p, e)
  PROVE  pc'[p] # "done" => outcome'[p] = outcome[p]
  BY DEF Raise, TypeOK

LEMMA InitOwnInv == Init => OwnInv
  BY SentinelAssumption DEF Init, OwnInv, TxOwn, Running

LEMMA NextOwnInv == IInv /\ OwnInv /\ [Next]_vars => OwnInv'
  <1> SUFFICES ASSUME IInv, OwnInv, [Next]_vars PROVE OwnInv'
    OBVIOUS
  <1>0. TypeOK
    BY DEF IInv
  \* Raise, in any step of q that keeps tx.
  <1>1. ASSUME NEW q \in Procs, pc[q] # "done", NEW e \in Exceptions, Raise(q, e),
               UNCHANGED tx
        PROVE  OwnInv'
    <2>1. /\ \A p \in Procs \ {q} : pc'[p] = pc[p] /\ outcome'[p] = outcome[p]
          /\ pc'[q] # "done" => outcome'[q] = outcome[q]
      BY <1>0, <1>1, RaiseFrame, RaiseKeeps
    <2>2. QED
      BY <1>1, <2>1, StepOwn DEF OwnInv, TxOwn
  \* A step of q that keeps pc[q] short of done and leaves outcome and tx.
  <1>2. ASSUME NEW q \in Procs, pc[q] # "done", UNCHANGED <<outcome, tx>>,
               \A p \in Procs \ {q} : pc'[p] = pc[p]
        PROVE  OwnInv'
    BY <1>2, StepOwn DEF OwnInv, TxOwn
  <1>3. ASSUME NEW q \in Procs, LoopIterate(q) PROVE OwnInv'
    BY <1>0, <1>3, <1>2 DEF LoopIterate, TypeOK
  <1>4. ASSUME NEW q \in Procs, LoopExhausted(q) PROVE OwnInv'
    BY <1>0, <1>4, StepOwn DEF LoopExhausted, TypeOK, OwnInv, TxOwn
  <1>5. ASSUME NEW q \in Procs, Build(q) PROVE OwnInv'
    <2>1. CASE /\ tx' = [tx EXCEPT ![q] = [p |-> q, s |-> chainSeq]]
               /\ pc' = [pc EXCEPT ![q] = "sign"]
               /\ UNCHANGED outcome
      BY <1>0, <1>5, <2>1, StepOwn DEF Build, TypeOK
    <2>2. CASE Raise(q, "BroadcastException") /\ UNCHANGED tx
      BY <1>5, <2>2, <1>1 DEF Build, Exceptions
    <2>3. QED
      BY <1>5, <2>1, <2>2 DEF Build
  <1>6. ASSUME NEW q \in Procs, Sign(q) PROVE OwnInv'
    <2>1. CASE /\ pc' = [pc EXCEPT ![q] = "broadcast"]
               /\ UNCHANGED outcome
      BY <1>0, <1>6, <2>1, <1>2 DEF Sign, TypeOK
    <2>2. CASE Raise(q, "BroadcastException")
      BY <1>6, <2>2, <1>1 DEF Sign, Exceptions
    <2>3. QED
      BY <1>6, <2>1, <2>2 DEF Sign
  <1>7. ASSUME NEW q \in Procs, BroadcastAttempt(q) PROVE OwnInv'
    <2>1. CASE UNCHANGED <<pc, outcome>>
      BY <1>7, <2>1, <1>2 DEF BroadcastAttempt
    <2>2. CASE pc' = [pc EXCEPT ![q] = "confirm"] /\ UNCHANGED outcome
      BY <1>0, <1>7, <2>2, <1>2 DEF BroadcastAttempt, TypeOK
    <2>3. CASE Raise(q, "BroadcastException")
      BY <1>7, <2>3, <1>1 DEF BroadcastAttempt, Exceptions
    <2>4. QED
      BY <1>7, <2>1, <2>2, <2>3 DEF BroadcastAttempt
  <1>8. ASSUME NEW q \in Procs, BroadcastExhausted(q) PROVE OwnInv'
    BY <1>8, <1>1 DEF BroadcastExhausted, Exceptions
  <1>9. ASSUME NEW q \in Procs, ConfirmExhausted(q) PROVE OwnInv'
    BY <1>9, <1>1 DEF ConfirmExhausted, Exceptions
  <1>10. ASSUME NEW q \in Procs, ConfirmAttempt(q) PROVE OwnInv'
    <2>1. CASE UNCHANGED <<pc, res, outcome>>
      BY <1>10, <2>1, <1>2 DEF ConfirmAttempt
    <2>2. ASSUME NEW r \in Receipts(q), Conclude(q, Extract(q, r)) PROVE OwnInv'
      <3>1. CASE Extract(q, r) = "ok"
        <4>1. /\ pc' = [pc EXCEPT ![q] = "done"]
              /\ outcome' = [outcome EXCEPT ![q] = "ok"]
              /\ tx' = tx
          BY <1>10, <2>2, <3>1 DEF Conclude, ConfirmAttempt
        <4>2. pc[q] # "done"
          BY <1>10 DEF ConfirmAttempt
        <4>3. QED
          BY <1>0, <4>1, <4>2, StepOwn DEF TypeOK, OwnInv, TxOwn
      <3>2. CASE Extract(q, r) # "ok"
        <4>1. Extract(q, r) \in Exceptions
          BY <1>0, <3>2, ExtractType DEF Receipts, TypeOK
        <4>2. QED
          BY <1>10, <2>2, <3>2, <4>1, <1>1 DEF Conclude, ConfirmAttempt
      <3>3. QED
        BY <3>1, <3>2
    <2>3. QED
      BY <1>10, <2>1, <2>2 DEF ConfirmAttempt
  <1>11. CASE Commit \/ DropMempool \/ Finished \/ UNCHANGED vars
    BY <1>11 DEF Commit, DropMempool, Finished, OwnInv, TxOwn, Running, vars, procVars
  <1>12. QED
    BY <1>3, <1>4, <1>5, <1>6, <1>7, <1>8, <1>9, <1>10, <1>11 DEF Next, Step

(***************************************************************************)
(* The step simulation.  A step of the node or of an invocation maps to    *)
(* one TxSubmit step or to a stutter: a tx admitted into the empty mempool *)
(* is Submit, a block is Commit, a dropped mempool is Drop, a returned     *)
(* receipt is Return, an exception that escapes is Fail; every other step  *)
(* leaves the mapped state as it is.                                       *)
(***************************************************************************)

\* A step that keeps the node's state and every outcome, and the receipt
\* of every returned invocation, is a stutter of TxSubmit.
LEMMA StutterRefines ==
  ASSUME UNCHANGED chainVars, UNCHANGED outcome,
         \A p \in Procs : outcome[p] = "ok" => res'[p] = res[p]
  PROVE  UNCHANGED Submission!vars
  BY DEF Submission!vars, PendingTx, Status, chainVars

\* An exception that escapes from a running invocation is Fail.
LEMMA FailRefines ==
  ASSUME NEW q \in Procs, outcome[q] = "none", outcome'[q] \in Exceptions,
         UNCHANGED chainVars,
         \A p \in Procs \ {q} : outcome'[p] = outcome[p] /\ res'[p] = res[p]
  PROVE  Submission!Fail(q)
  BY DEF Submission!Fail, PendingTx, Status, chainVars, Exceptions

\* Any Raise of a running invocation is Fail or a stutter.
LEMMA RaiseRefines ==
  ASSUME TypeOK, NEW q \in Procs, outcome[q] = "none", NEW e \in Exceptions,
         Raise(q, e), UNCHANGED chainVars,
         \A p \in Procs \ {q} : res'[p] = res[p]
  PROVE  [Submission!Next]_Submission!vars
  <1>1. CASE e \in Catches(Workflow[q])
    BY <1>1, StutterRefines DEF Raise
  <1>2. CASE e \notin Catches(Workflow[q])
    <2>1. outcome'[q] \in Exceptions /\ \A p \in Procs \ {q} : outcome'[p] = outcome[p]
      BY <1>2 DEF Raise, TypeOK
    <2>2. QED
      BY <2>1, FailRefines DEF Submission!Next
  <1>3. QED
    BY <1>1, <1>2

\* The receipt of a committed tx of q's own, returned, is Return.
LEMMA ReturnRefines ==
  ASSUME NEW q \in Procs, outcome[q] = "none", outcome'[q] = "ok",
         res'[q] \in committed, res'[q].tx.p = q, UNCHANGED chainVars,
         \A p \in Procs \ {q} : outcome'[p] = outcome[p] /\ res'[p] = res[p]
  PROVE  Submission!Return(q)
  <1>1. res'[q].tx \in {r.tx : r \in committed}
    OBVIOUS
  <1>2. QED
    BY <1>1 DEF Submission!Return, PendingTx, Status, chainVars

\* q's tx, admitted into the empty mempool with the committed sequence,
\* is Submit.
LEMMA SubmitRefines ==
  ASSUME NEW q \in Procs, outcome[q] = "none", tx[q] \in Tx, tx[q].p = q,
         tx[q].s = chainSeq, mempool = <<>>, mempool' = Append(mempool, tx[q]),
         UNCHANGED <<chainSeq, committed, outcome, res>>
  PROVE  Submission!Submit(q)
  <1>1. PendingTx' = [p |-> q, s |-> chainSeq]
    BY DEF PendingTx, Tx
  <1>2. QED
    BY <1>1 DEF Submission!Submit, PendingTx, Status

\* A block commits the only pending tx: Commit.
LEMMA CommitRefines ==
  ASSUME IInv, Commit PROVE Submission!Commit
  <1>0. mempool \in Seq(Tx) /\ mempool # <<>>
    BY DEF Commit, IInv, TypeOK
  <1>1. mempool \in Seq(Tx) /\ Len(mempool) = 1
    <2>1. Len(mempool) \in Nat \ {0}
      BY <1>0, EmptySeq
    <2>2. QED
      BY <1>0, <2>1 DEF IInv, AtMostOneInFlight
  <1>2. /\ Head(mempool) \in Tx
        /\ PendingTx = Head(mempool) /\ PendingTx # NoTx
        /\ PendingTx' = NoTx
    BY <1>1, SentinelAssumption, HeadTailProperties, EmptySeq DEF Commit, PendingTx
  <1>3. PICK r \in ResultsOf(Head(mempool)) : committed' = committed \cup {r}
    BY DEF Commit
  <1>4. {x.tx : x \in committed'} = {x.tx : x \in committed} \cup {Head(mempool)}
    BY <1>3 DEF ResultsOf
  <1>5. QED
    BY <1>2, <1>4 DEF Commit, Submission!Commit, Status, procVars

\* The node drops the pending tx: Drop.
LEMMA DropRefines ==
  ASSUME IInv, DropMempool PROVE Submission!Drop
  <1>1. Head(mempool) \in Tx
    BY DEF DropMempool, IInv, TypeOK
  <1>2. PendingTx # NoTx /\ PendingTx' = NoTx
    BY <1>1, SentinelAssumption DEF DropMempool, PendingTx
  <1>3. QED
    BY <1>2 DEF DropMempool, Submission!Drop, Status, procVars

LEMMA InitRefines == Init => Submission!Init
  BY DEF Init, Submission!Init, PendingTx, Status

LEMMA NextRefines ==
  IInv /\ OwnInv /\ [Next]_vars => [Submission!Next]_Submission!vars
  <1> SUFFICES ASSUME IInv, OwnInv, [Next]_vars
               PROVE  [Submission!Next]_Submission!vars
    OBVIOUS
  <1>0. TypeOK
    BY DEF IInv
  \* Every step of q starts from a running invocation.
  <1>1. ASSUME NEW q \in Procs, pc[q] # "done" PROVE outcome[q] = "none"
    BY <1>1 DEF OwnInv, Running
  \* Raise, in a step of q that keeps the node and the other receipts.
  <1>2. ASSUME NEW q \in Procs, pc[q] # "done", NEW e \in Exceptions, Raise(q, e),
               UNCHANGED chainVars, \A p \in Procs \ {q} : res'[p] = res[p]
        PROVE  [Submission!Next]_Submission!vars
    BY <1>0, <1>2, <1>1, RaiseRefines
  <1>3. ASSUME NEW q \in Procs, LoopIterate(q) PROVE [Submission!Next]_Submission!vars
    BY <1>3, StutterRefines DEF LoopIterate
  <1>4. ASSUME NEW q \in Procs, LoopExhausted(q) PROVE [Submission!Next]_Submission!vars
    <2>1. outcome'[q] \in Exceptions /\ \A p \in Procs \ {q} : outcome'[p] = outcome[p]
      BY <1>0, <1>4 DEF LoopExhausted, TypeOK, Exceptions
    <2>2. QED
      BY <1>4, <1>1, <2>1, FailRefines DEF LoopExhausted, Submission!Next
  <1>5. ASSUME NEW q \in Procs, Build(q) PROVE [Submission!Next]_Submission!vars
    <2>1. CASE UNCHANGED outcome
      BY <1>5, <2>1, StutterRefines DEF Build
    <2>2. CASE Raise(q, "BroadcastException")
      BY <1>5, <2>2, <1>2 DEF Build, Exceptions
    <2>3. QED
      BY <1>5, <2>1, <2>2 DEF Build
  <1>6. ASSUME NEW q \in Procs, Sign(q) PROVE [Submission!Next]_Submission!vars
    <2>1. CASE UNCHANGED outcome
      BY <1>6, <2>1, StutterRefines DEF Sign
    <2>2. CASE Raise(q, "BroadcastException")
      BY <1>6, <2>2, <1>2 DEF Sign, Exceptions
    <2>3. QED
      BY <1>6, <2>1, <2>2 DEF Sign
  <1>7. ASSUME NEW q \in Procs, BroadcastAttempt(q) PROVE [Submission!Next]_Submission!vars
    \* CheckTx admits q's tx only into the empty mempool, with the
    \* committed sequence.
    <2>0. ASSUME Admissible(tx[q])
          PROVE  /\ mempool = <<>>
                 /\ tx[q] \in Tx /\ tx[q].p = q /\ tx[q].s = chainSeq
      <3>1. tx[q] \in Tx /\ tx[q].p = q /\ tx[q].s <= chainSeq
        BY <1>7 DEF BroadcastAttempt, IInv, TxBuilt, SeqNotAhead, OwnInv, TxOwn
      <3>2. mempool \in Seq(Tx) /\ chainSeq \in Nat
        BY <1>0 DEF TypeOK
      <3>3. Len(mempool) = 0
        BY <2>0, <3>1, <3>2, LenProperties DEF Admissible, Tx
      <3>4. mempool = <<>>
        BY <3>2, <3>3, EmptySeq
      <3>5. QED
        BY <2>0, <3>1, <3>2, <3>3, <3>4 DEF Admissible
    <2>1. ASSUME Admissible(tx[q]), mempool' = Append(mempool, tx[q]),
                 UNCHANGED outcome
          PROVE  [Submission!Next]_Submission!vars
      <3>1. outcome[q] = "none"
        BY <1>7, <1>1 DEF BroadcastAttempt
      <3>2. Submission!Submit(q)
        BY <1>7, <2>0, <2>1, <3>1, SubmitRefines DEF BroadcastAttempt
      <3>3. QED
        BY <3>2 DEF Submission!Next
    <2>2. CASE mempool' = mempool /\ UNCHANGED outcome
      BY <1>7, <2>2, StutterRefines DEF BroadcastAttempt, chainVars
    <2>3. CASE Raise(q, "BroadcastException") /\ UNCHANGED mempool
      BY <1>7, <2>3, <1>2 DEF BroadcastAttempt, Exceptions, chainVars
    <2>4. QED
      BY <1>7, <2>1, <2>2, <2>3 DEF BroadcastAttempt
  <1>8. ASSUME NEW q \in Procs, BroadcastExhausted(q) PROVE [Submission!Next]_Submission!vars
    BY <1>8, <1>2 DEF BroadcastExhausted, Exceptions
  <1>9. ASSUME NEW q \in Procs, ConfirmExhausted(q) PROVE [Submission!Next]_Submission!vars
    BY <1>9, <1>2 DEF ConfirmExhausted, Exceptions
  <1>10. ASSUME NEW q \in Procs, ConfirmAttempt(q) PROVE [Submission!Next]_Submission!vars
    <2>1. CASE UNCHANGED <<pc, res, outcome>>
      BY <1>10, <2>1, StutterRefines DEF ConfirmAttempt
    <2>2. ASSUME NEW r \in Receipts(q),
                 res' = [res EXCEPT ![q] = r],
                 Conclude(q, Extract(q, r))
          PROVE  [Submission!Next]_Submission!vars
      <3>0. /\ outcome[q] = "none" /\ UNCHANGED chainVars
            /\ res'[q] = r /\ \A p \in Procs \ {q} : res'[p] = res[p]
        BY <1>0, <1>10, <2>2, <1>1 DEF ConfirmAttempt, TypeOK
      <3>1. CASE Extract(q, r) = "ok"
        <4>1. r \in committed /\ r.tx = tx[q] /\ tx[q] \in Tx /\ tx[q].p = q
          BY <1>10 DEF Receipts, ConfirmAttempt, IInv, TxBuilt, OwnInv, TxOwn
        <4>2. outcome' = [outcome EXCEPT ![q] = "ok"]
          BY <2>2, <3>1 DEF Conclude
        <4>3. Submission!Return(q)
          BY <1>0, <3>0, <4>1, <4>2, ReturnRefines DEF TypeOK
        <4>4. QED
          BY <4>3 DEF Submission!Next
      <3>2. CASE Extract(q, r) # "ok"
        <4>1. Extract(q, r) \in Exceptions
          BY <1>0, <3>2, ExtractType DEF Receipts, TypeOK
        <4>2. QED
          BY <1>10, <2>2, <3>0, <3>2, <4>1, <1>2 DEF Conclude, ConfirmAttempt
      <3>3. QED
        BY <3>1, <3>2
    <2>3. QED
      BY <1>10, <2>1, <2>2 DEF ConfirmAttempt
  <1>11. CASE Commit
    BY <1>11, CommitRefines DEF Submission!Next
  <1>12. CASE DropMempool
    BY <1>12, DropRefines DEF Submission!Next
  <1>13. CASE Finished \/ UNCHANGED vars
    BY <1>13, StutterRefines DEF Finished, vars, chainVars, procVars
  <1>14. QED
    BY <1>3, <1>4, <1>5, <1>6, <1>7, <1>8, <1>9, <1>10, <1>11, <1>12, <1>13
       DEF Next, Step

(* CosmosLedger implements TxSubmit for any number of concurrent           *)
(* invocations and any retry budgets: the retries of generate_tx,          *)
(* broadcast_tx and get_tx never put a second tx of the shared account     *)
(* into the mempool, and a workflow returns only the receipt of a tx of    *)
(* its own that the chain committed.                                       *)
THEOREM TxSubmitRefinement == Spec => ImplementsTxSubmit
  <1>1. QED
    BY InitIInv, NextIInv, InitOwnInv, NextOwnInv, InitRefines, NextRefines, PTL
       DEF Spec, ImplementsTxSubmit, Submission!Spec

(* What TxSubmit proves of itself holds of CosmosLedger through the        *)
(* refinement: a workflow that returns reports the receipt of a committed  *)
(* tx that it built itself, never one of a concurrent invocation sharing   *)
(* the account.                                                            *)
THEOREM ReturnsOwnCommittedTx == Spec => []Submission!ReportedOwn
  BY TxSubmitRefinement, Submission!ReportedOwnHolds, PTL DEF ImplementsTxSubmit
=============================================================================
