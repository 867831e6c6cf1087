# Formal models of the cosmpy ledger client

This directory holds TLA+ models of `src/cosmpy/clients/ledger.py`: the
`CosmosLedger` client that builds, signs, broadcasts and confirms
transactions on a Cosmos/CosmWasm node, queries it and refills accounts,
and its `Retrier` helper. It
also holds TLC configurations that model-check the models on small
instances, and TLAPS proofs of their main invariants for every value of
the constants. `PROJECT.json` lists the components, runs, mutants,
source map, findings, hazards and theorems in machine-readable form.

## The system

`ledger.py` is one class with a small helper. The interacting parts are:

| Part | Code | State it changes |
|---|---|---|
| Retrier | `Retrier.call_with_retry` (139-184) | loop counter, last exception, sleeps |
| Build | `generate_tx` (823-866), `query_account_data` (868-907), `_get_signer_info` (909-932) | the tx's SignerInfo sequence, read from the account's committed state |
| Sign | `sign_tx`, `_ensure_accont_number` (752-774) | the shared `crypto.account_number` cache |
| Broadcast | `broadcast_tx` (955-990) | the node's mempool (sync-mode BroadcastTx in a Retrier, then the ack's code check) |
| Confirm | `get_tx` (992-1012) | none (GetTx polled in a Retrier) |
| Extraction | `_find_item`, `get_code_id`, `get_contract_address`, `is_valid_crypto_address` (347-401, 1122-1134) | none; raises `JSONDecodeError` or `AssertionError` |
| Workflows | `deploy_contract` (293-345), `instantiate_contract` (403-475), `execute_contract` (523-589), `send_funds` (723-750) | outer loop counter, last result |
| Queries | `query_contract_state` (477-521), `get_balance`, `get_balances` (591-662), `check_availability` (1095-1120) | none (read-only loops) |
| Refill | `ensure_funds`, `refill_wealth_from_faucet`, `refill_wealth_from_validator` (664-821) | balances, via faucet HTTP or `send_funds` |
| Configuration | `__init__` (193-281) | transport clients |
| Packing | `get_packed_*_msg` (934-953, 1014-1093) | none (protobuf encoding, file reading) |

A workflow runs *build, sign, broadcast, confirm, extract* inside its
outer loop. Each network call inside is retried by a Retrier or by a loop
of the same shape. An exception leaves the loop body, and the workflow's
`except` clauses decide whether the outer loop goes round again:

- `deploy_contract` retries on `BroadcastException`;
- `instantiate_contract` also retries on `JSONDecodeError`;
- `execute_contract` retries on `BroadcastException`;
- `send_funds` has no loop.

Several workflows may run at once from different threads, signing with
one account. They then share the account's sequence on the node and the
`account_number` cache of the crypto object.

What makes this code hard to test:

- a lost ack or a confirmation timeout on a tx the node did admit;
- the outer loop's rebuild from the committed sequence while that tx is
  still pending;
- two invocations racing on the sequence;
- budgets of zero;
- a node that drops its mempool.

## Modules

- **`Retrier.tla`** models `call_with_retry`. Its state maps to the
  code's variables: `attempt`, `response`, `lastException`, and the
  number of `time.sleep` calls (`sleeps`). The actions are:
  - `CallAttempt(o)`: one loop iteration, with `o` the call's outcome
    (value, None or exception);
  - `Exhaust`: the raise at line 181;
  - `Finished`: stuttering after the call returned or raised.
- **`CosmosLedger.tla`** models the whole transaction lifecycle, for a
  set `Procs` of concurrent invocations. `Workflow[p]` says which of the
  four workflows invocation `p` runs. The node is the environment:
  - `chainSeq` is the account's committed sequence;
  - `mempool` holds its pending txs;
  - `committed` holds the results of committed txs.

  CheckTx admits a tx only when its sequence is
  `chainSeq + Len(mempool)`. `Commit` commits the head of the mempool,
  with a response code and a log kind. `DropMempool` models eviction or
  a restart. A tx is the pair (invocation, sequence), because the same
  message and sequence give the same signed bytes.

  The actions of invocation `p` follow the code:
  - `LoopIterate` and `LoopExhausted` model the outer `while` and the
    final raise;
  - `Build` models `generate_tx`, including `query_account_data`'s
    failure, which raises `BroadcastException`;
  - `Sign` models `_ensure_accont_number`. Its unlocked check-then-fill
    of `crypto.account_number` is one atomic step. Two threads that both
    found it empty would both query it and store the same number, so
    the race changes nothing the model tells apart;
  - `BroadcastAttempt` and `BroadcastExhausted` model one BroadcastTx
    attempt and the end of that Retrier's budget. A failed attempt may
    still have admitted the tx. A non-zero ack code raises.
  - `ConfirmAttempt` and `ConfirmExhausted` model one GetTx attempt and
    the end of its budget;
  - `Extract` models what `get_code_id` and `get_contract_address` make
    of the receipt's log;
  - `Raise` and `Conclude` model the `except` clauses that send the loop
    round again or let the exception escape.

  The log is abstracted to three kinds:
  - `marked`: `_find_item` finds a well-formed value;
  - `unmarked`: no object matches, so the assert raises `AssertionError`;
  - `notjson`: the log is not JSON. This is the error text of a failed
    tx, so `json.loads` raises.

  The recursive search itself is modelled in `Extraction.tla`.
- **`TxSubmit.tla`** is the abstract specification of what the
  workflows promise about one signing account, whatever the number of
  invocations using it. Its state is the committed sequence `seq`, the
  one pending tx `slot` (or `NoTx`), the committed txs `onChain`, and
  each invocation's `status` and `reported` tx. Its actions are:
  - `Submit(p)`: a tx of `p` with the next sequence, only while none is
    pending;
  - `Commit` and `Drop`: the pending tx commits or is lost;
  - `Return(p)`: `p` reports a committed tx of its own;
  - `Fail(p)`: `p` raises.

  `CosmosLedger` maps onto it through the instance `Submission`:
  - `slot` is the head of the mempool;
  - `onChain` is the set of txs of the committed results;
  - `status` is read off `outcome`;
  - `reported` is the tx of the receipt a returned invocation holds.
- **`MCCosmosLedger.tla`** instantiates two invocations `p1`, `p2` as
  model values, and three workflow assignments: deploy with execute,
  instantiate with send, and deploy with deploy.
- **`CosmosLedgerProofs.tla`** holds the TLAPS proofs about
  `CosmosLedger`.
- **`Refill.tla`** models `ensure_funds` and the two refills for
  `NAddr` addresses. `config` holds which of `faucet_url`,
  `validator_crypto` and `amount_coins` are set. `idx` and `attempt` are
  the `for` and `while` counters, `lastRead` the balance the loop read
  last, and `requested` the top-ups asked for per address. `readIn` is
  a history variable: the `while` iteration in which `lastRead` was
  read. It constrains nothing and only lets a property tell a read of
  the current iteration from one left over from an earlier one. The actions
  are:
  - `EnsureFunds`: the dispatch, with its two `RuntimeError`s;
  - `FaucetRead`: one `while` iteration's `get_balances`, which either
    returns (`BalanceReturned`: below the threshold go on to claim,
    otherwise `break`) or raises (`BalanceQueryRaised`: log and sleep);
  - `FaucetClaim`: the POST to `/api/v3/claims`, accepted or not, then
    the sleep and `continue`;
  - `FaucetExhausted`: the `while` ends on its budget, silently;
  - `ValidatorSend`: `send_funds` to one address, which commits or
    raises (with the tx lost or committed). A normal return credits
    the amount. `send_funds` does not check the committed code, so a
    failed transfer also returns; no property depends on the balance
    on that path;
  - `RefillDone`: the `for` loop has gone through every address.

  The faucet service is the environment: `pending` counts the accepted
  claims it has not paid out, and `FaucetPays` pays one out at any time.
- **`MCRefill.tla`** instantiates it: two addresses, a loop budget of
  3, a threshold of 2, and a payout (1) smaller than the threshold, so
  that an address needs two payouts.
- **`FundingRequests.tla`** is what `ensure_funds` promises about the
  funding it asks for. `route` is the source chosen (`ensure`,
  `faucet`, `validator`, `done`), `cursor` the address being funded and
  `asked` the requests per address. Its actions are:
  - `Dispatch`: choose the source by the configuration, or raise
    `RuntimeError`;
  - `Claim`: a faucet request within `Budget` for the current address;
  - `Skip`: the faucet moves on to the next address;
  - `Send`: the validator's one send to the current address, after
    which it moves on or, on a raise, ends the call;
  - `Return`: return past the last address.

  `Refill` maps onto it through the instance `Funding`. `Route` reads
  the source off `pc`: `loop` and `claim` are the faucet, `send` the
  validator. `cursor` is `idx`, `asked` is `requested`, `result` is
  `outcome`, and `Budget` is `n_total_msg_retries`.
- **`RefillProofs.tla`** holds the TLAPS proofs about `Refill`.
- **`Queries.tla`** models a client from its construction to the end
  of one read-only call:
  - `Construct` is `__init__`: `ValueError` for both node addresses or
    neither, otherwise the REST or the gRPC clients;
  - `QueryAttempt(o)` is one iteration of the query loop, which
    `query_contract_state`, `get_balance` and `get_balances` each have.
    `QueryBudget` is the loop's bound: `n_retries`, or
    `n_total_msg_retries` when `n_retries` is None;
  - `StateQueryExhausted` and `BalanceQueryExhausted` are the raise
    after the loop. Only the first chains the last exception;
  - `ConvertContractState` (`json.loads`, which may raise) and
    `ConvertBalance` are the conversions of the response;
  - `CheckAvailability(r)` is the node-info round trip, for a node that
    is unreachable, on another chain, or on ours.

  The module also states the refinement (below): each query loop
  implements `Retrier`, through `INSTANCE Retrier WITH` a mapping of the
  loop's variables.
- **`MCQueries.tla`** instantiates it with `n_total_msg_retries = 3`
  and `n_retries` in {None, 0, 2}.
- **`QueriesProofs.tla`** holds the TLAPS proof that the balance query
  loops refine `Retrier`.
- **`StateQueryProofs.tla`** holds the TLAPS proof that
  `query_contract_state`'s loop refines `Retrier`, for a constant
  `n_retries` argument `N`.
- **`Extraction.tla`** models one call of `get_code_id` or
  `get_contract_address` on a confirmed tx's `raw_log`. The actions are:
  - `Parse`: `json.loads`, which raises on a log that is not JSON;
  - `Find`: `_find_item`, written as the recursive operators `FindIn`,
    `FindInItems` and `FindInEntries`. They return the path of the dict
    found, or `NoMatch` for None;
  - `Read`: the `assert`, then `res_dict["value"]`, which raises
    `KeyError` when the dict has no such key;
  - `Convert`: `int(value)` for a code id, or `str(value)` checked by
    `is_valid_crypto_address` for an address.

  A log is any tree of lists, dicts, strings and numbers with at most
  `MaxNodes` nodes. A string is abstracted to the keyword it contains
  and the classes of its characters (lower-case letter, digit, newline,
  other). That is all the two regexes tell apart. The address pattern's
  39-character suffix is scaled down to `SuffixLen`. The module is
  checked by TLC only, because it declares RECURSIVE operators.
  `FirstDFSMatch` is the reference definition: the dict that holds the
  first matching string leaf in preorder, over explicit paths.
- **`MCExtraction.tla`** instantiates it with trees of up to 4 nodes and
  an address suffix of 2.

## Runs

| Run | Checks | Result |
|---|---|---|
| `retrier` (`Retrier.cfg`, NRetries = 30) | `TypeOK`, `RaisesOnlyAfterBudget`, `Terminates` | pass: the retrier raises only after the full budget, and every call ends |
| `retrier_sleeps` (`RetrierSleeps.cfg`) | `SleepsBetweenFailedAttempts` | violation, see Findings |
| `ledger_race` (`CosmosLedger.cfg`, deploy + execute) | `TypeOK`, `AtMostOneInFlight`, `ReportedResultIsOnChain`, `Termination`, `ImplementsTxSubmit` | pass, 270,868 states |
| `ledger_instantiate_send` (`CosmosLedgerInstantiate.cfg`) | the same | pass, 34,181 states |
| `ledger_duplicate` (`CosmosLedgerDuplicate.cfg`, deploy + deploy) | `AtMostOneCommitPerInvocation` | violation, see Findings |
| `ledger_malformed` (`CosmosLedgerMalformed.cfg`, instantiate + send) | `InstantiateRecoversMalformedLog` | violation, see Findings |
| `refill` (`Refill.cfg`) | `TypeOK`, `ValidatorSendsEachOnce`, `ClaimsWithinBudget`, `RefillTerminates`, `ImplementsFundingRequests`, `ClaimFollowsLowRead` | pass, 37,436 states |
| `refill_faucet_unfunded` (`RefillUnfunded.cfg`) | `FaucetReturnsOnlyWhenFunded` | violation, see Findings |
| `queries` (`Queries.cfg`) | `TypeOK`, `StateQueryRefinesRetrier`, `BalanceQueryRefinesRetrier`, `QueryTerminates` | pass, 512 states |
| `extraction` (`Extraction.cfg`) | `TypeOK`, `FindItemIsFirstDFSMatch` | pass, 18,466 states |
| `extraction_address_format` (`ExtractionAddress.cfg`) | `AddressHasExactFormat` | violation, see Findings |
| `extraction_errors` (`ExtractionErrors.cfg`) | `ExtractorRaisesOnlyMalformed` | violation, see Findings |

The properties of the passing runs:

- `AtMostOneInFlight`: across all invocations, at most one tx of the
  account is pending. A rebuild after a lost ack or a timeout, or a
  racing invocation, can never get a second tx admitted next to a
  pending one.
- `ReportedResultIsOnChain`: a workflow that returns reports the
  committed receipt of the tx it built last. It never reports the
  receipt of an earlier attempt or of another invocation.
- `Termination`: every invocation returns or raises, whatever the node
  does.
- `ImplementsTxSubmit`: every behaviour of the concurrent invocations
  and the node is, under the mapping, a behaviour of `TxSubmit`. A tx
  enters the empty mempool as `Submit`, a block is `Commit`, a dropped
  mempool is `Drop`, a returned receipt is `Return`, and an escaping
  exception is `Fail`. Every other step is a stutter.
- `ClaimsWithinBudget`: with a faucet, no address gets more than
  `n_total_msg_retries` claims, although claims are posted while earlier
  ones are still unpaid.
- `ValidatorSendsEachOnce`: on the validator path, each address is sent
  funds at most once, and exactly once when `ensure_funds` returns.
- `RefillTerminates`: `ensure_funds` ends under every configuration,
  even when the faucet never pays.
- `ImplementsFundingRequests`: `Refill` under the mapping `Funding` is
  a behaviour of `FundingRequests`. A claim the loop does not count
  against its budget breaks it.
- `ClaimFollowsLowRead` (an action property): with a faucet, a step
  that adds a claim for an address follows a `get_balances` read of it
  in the current `while` iteration (`readIn[a] = attempt`) that returned
  a number below `min_amount_required`. In the code `balance` is a local
  that outlives its iteration. When `get_balances` raises, the value of
  an earlier iteration is still bound, and a payout may have raised the
  real balance since. A mutant that lets that leftover value decide a
  claim after a raised read breaks the property. It needs a low read, a
  claim, and then a raised read of the same address.
- `StateQueryRefinesRetrier`, `BalanceQueryRefinesRetrier`: see
  Refinement.
- `QueryTerminates`: every read-only call ends.
- `FindItemIsFirstDFSMatch`: on every log tree of up to 4 nodes and for
  both patterns, `_find_item` returns the dict that holds the first
  matching string in depth-first order. A match deeper in an earlier
  entry wins over a later entry's string, and a string directly in a
  list never matches. Two mutants break it: one tries a dict's strings
  before descending into its values, and one returns the string's own
  position.

**Refinement.** `Queries` maps each query loop onto `Retrier`:
`attempt`, `res`, `lastException` and `sleeps` map to the retrier's
variables. The status is `returned` once a response arrived, `raised`
once the loop raised `BroadcastException`, and `running` before. The
conversion after the loop, `__init__` and `check_availability` map to
stutters. The instance is parameterised by the calls it covers and the
budget, `R(sel, n)`:
- `query_contract_state(n_retries=n)` refines `Retrier` with
  `NRetries = n`, and with `n_total_msg_retries` when `n` is None;
- `get_balance` and `get_balances` refine it with
  `NRetries = n_total_msg_retries`.

TLC cannot check a quantifier over a temporal formula. So
`StateQueryRefinesRetrier` states `\A n : R(..)!Spec` with the
quantifier moved inside `Init` and `[][...]_vars`, which is equivalent.
The refinement says that the loops neither overrun nor cut short their
budget, that an explicit `n_retries = 0` makes no call, and that they
sleep only after an exception. A mutant that reads `n_retries or
default`, and so takes 0 for None, breaks it.

Each of these properties has a mutant of the mapped code that TLC finds
violating it. The mutants are listed in `PROJECT.json`, for example:

- a tx built from a locally incremented sequence breaks
  `AtMostOneInFlight`;
- a GetTx keyed on the sequence rather than the hash breaks
  `ReportedResultIsOnChain`;
- an uncounted outer loop breaks `Termination`.

**Bounds.**
- Two invocations is the smallest number that races on the sequence.
- Outer and broadcast budgets of 2 let a lost ack be followed by a
  resend and a rebuild.
- A GetTx budget of 2 lets a poll miss and then hit.
- Two response codes (0 and one failure) and three log kinds cover
  every branch of the extraction.
- Refill: two addresses is the smallest list where one address's
  outcome can affect the next. A budget of 3 with a payout half the
  threshold lets an address be funded late, just in time, or never.
- Queries: `n_retries` in {None, 0, 2} against a default of 3 covers
  the default, the zero budget and an explicit budget below the default.
- Extraction: trees of up to 4 nodes give every parent/child shape of
  depth 3: a dict in a list in a dict, two sibling entries with a match
  in each, and a dict without a `value` key. With 5 nodes the run takes
  about four minutes, with no shape the properties tell apart.
- The Retrier runs with a budget of 30. It has no data to bound, and
  the theorem covers every budget.

**Fairness.** Each invocation runs on its own thread and blocks only in
network calls and sleeps that all return, so `WF_vars(Step(p))` is
justified. Nothing is assumed of the node: it may never commit. That is
why `Termination` comes from the budgets alone. Likewise, `Refill` and
`Queries` assume weak fairness of the caller's steps (`Client`) only.
The faucet need never pay, so `RefillTerminates` also comes from the
budgets.

## Findings

1. **Duplicate commits.** `ledger_duplicate` is violated, at
   `ledger.py:332`. `deploy_contract` catches the `BroadcastException`
   that the broadcast or get_tx Retrier raises after a lost ack or a
   confirmation timeout. It then rebuilds with the fresh sequence and
   resubmits. Meanwhile the first tx commits, so one call commits two
   txs. Spec §7 says a confirmation timeout is not retried at the outer
   level, and §5 says re-running is idempotent-safe.
2. **Malformed log escapes.** `ledger_malformed` is violated, at
   `ledger.py:399`. A confirmed instantiate tx whose log has no
   `contract_address` raises `AssertionError`, which is not caught.
   Spec §7 calls this case recoverable at instantiate's outer loop.
3. **Sleep policy.** `retrier_sleeps` is violated, at `ledger.py:176`.
   The Retrier sleeps after its last failed attempt and never after a
   None response. Spec §8 says N-1 sleeps for N attempts.

4. **Faucet refill returns unfunded.** `refill_faucet_unfunded` is
   violated, at `ledger.py:680`. The faucet loop gives up after
   `n_total_msg_retries` iterations and goes on to the next address
   without an error. `ensure_funds` then returns normally with a balance
   below the threshold. Spec §4.8 says the refill polls until the
   balance is above the threshold.

Findings 5-7 can be read directly from the code. The models follow the
code here, and no violation run checks them.

5. **Validator tops up funded addresses.** At `ledger.py:816`. The
   validator refill sends to every address without reading its balance: the `get_balances` line is
   commented out. Spec §4.8 says a top-up is requested when the balance
   is below the threshold.
6. **Query errors lose their cause.** At `ledger.py:622` and `:658`.
   `get_balance` and `get_balances` raise `BroadcastException` without
   `from last_exception`. Spec §7 says every error carries its last
   cause. `query_contract_state` chains it.
7. **check_availability's ValueError.** At `ledger.py:1107`. The
   `ValueError("Bad chain id")` is raised inside the `try` and wrapped as `LedgerServerNotAvailable`,
   while the docstring (`ledger.py:1099`) says `ValueError`. Spec §4
   describes the wrapping, so the docstring is the odd one out.
   `CheckAvailability` follows the code. No property is checked on it:
   one about the mismatch case could only restate its single `IF`, and
   so would certify one side of the disagreement.
8. **Addresses with a trailing newline.** `extraction_address_format`
   is violated, at `ledger.py:1133`. Python's `$` also matches just
   before a final newline. So `is_valid_crypto_address` accepts an
   address followed by `\n`, and `get_contract_address` returns it with
   the newline. Spec §8 says the format is exactly a prefix and 39
   alphanumerics.
9. **Extractor errors outside the malformed-response class.**
   `extraction_errors` is violated, at `ledger.py:386`. `_find_item` may
   return a dict that has no `"value"` key (`KeyError`), or whose value
   `int()` rejects (`ValueError` for a string that is not a number,
   `TypeError` for a list or a dict). No workflow catches these. Spec §7
   names only a missing match and a parse failure.

## Proofs

- `Retrier.tla`, theorem `RetrierSafety`: `Spec => [](TypeOK /\ RaisesOnlyAfterBudget)`
  for every `NRetries \in Nat`. The inductive invariant adds
  `sleeps <= attempt`, which keeps `sleeps` within the budget.
- `CosmosLedgerProofs.tla`, theorems `TypeCorrect` and `OneInFlight`:
  `Spec => []TypeOK` and `Spec => []AtMostOneInFlight`. They hold for
  any set of invocations, any workflow assignment and any budgets, from
  the named assumptions `BudgetsAssumption`, `WorkflowAssumption` and
  `SentinelAssumption`.

The argument for `OneInFlight`: `AtMostOneInFlight` alone is not
inductive, because a process could hold a tx whose sequence is ahead of
the chain. So the invariant is strengthened to
`IInv == TypeOK /\ TxBuilt /\ SeqNotAhead /\ AtMostOneInFlight`:

- `TxBuilt`: an invocation past `build` holds a tx.
- `SeqNotAhead`: no invocation's tx has a sequence greater than
  `chainSeq`, because `Build` reads `chainSeq` and `Commit` only
  increases it.

Given `SeqNotAhead`, CheckTx's condition `s = chainSeq + Len(mempool)`
can hold only when the mempool is empty. So `BroadcastAttempt` appends
only to an empty mempool. TLC checked `IInv` as an invariant before it
was proved.

`NextIInv` has one step per action, and under it one step per conjunct
the action can disturb. The library's sequence lemmas (`EmptySeq`,
`AppendProperties`, `HeadTailProperties`) carry the mempool facts.

- `CosmosLedgerProofs.tla`, theorem `ReportedOnChain`:
  `Spec => []ReportedResultIsOnChain`. The strengthening `ReportedInv`
  adds that an invocation that returned is `done`. No step starts from
  `done`, so its tx and receipt never change afterwards. Blocks only add
  to `committed`. The only step that sets `outcome[q] = "ok"` is
  `ConfirmAttempt` with a receipt from `Receipts(q)`, whose tx is
  `tx[q]`. The lemmas `RaiseFrame` and `StepReported` carry the
  per-process frame conditions. TLC checked `ReportedInv` on both
  ledger runs before it was proved.
- `CosmosLedgerProofs.tla`, theorem `TxSubmitRefinement`:
  `Spec => ImplementsTxSubmit`. `InitRefines` covers the initial states.
  `NextRefines` covers the steps, one case per action. Each case cites a
  lemma for the abstract step it maps to: `SubmitRefines`,
  `CommitRefines`, `DropRefines`, `ReturnRefines`, `FailRefines` (via
  `RaiseRefines`), or `StutterRefines`. The step needs `IInv` and a
  second invariant, `OwnInv`:
  - `TxOwn`: an invocation's tx is its own, so `Return` gets a tx of
    the caller;
  - `Running`: an invocation that is not done has outcome `"none"`, so
    each of its steps starts from the abstract `running`.

  Given `SeqNotAhead`, an admissible tx has the committed sequence and
  enters an empty mempool, which is `Submit` exactly. Given
  `AtMostOneInFlight`, `Commit` empties the mempool, as the abstract
  `Commit` does. TLC checked `OwnInv` on `ledger_race` first.
- `CosmosLedgerProofs.tla`, theorem `ReturnsOwnCommittedTx`:
  `Spec => []Submission!ReportedOwn`. A `CosmosLedger` invocation that
  returned reports a committed tx of its own. It combines the
  refinement with the lemma `ReportedOwnHolds` of `TxSubmit.tla`. That
  lemma is the abstract fact, inductive with `TxSubmit`'s type
  invariant, and follows from the guard of `TxSubmit`'s `Return`. Only
  through the refinement does it say anything about the code.
- `RefillProofs.tla`, theorems `FaucetClaimsBounded` and
  `RefillTypeCorrect`: `Spec => []ClaimsWithinBudget` and
  `Spec => []TypeOK`, for every number of addresses, budget, threshold
  and amounts allowed by `RefillAssumption`. The claims bound is not
  inductive as stated, because `requested` grows in `FaucetClaim` while
  the loop counter grew one step earlier. The invariant `RIInv` bounds
  each address's claims by `ClaimBound(a)`:
  - the full budget for addresses already passed;
  - the loop counter for the current address, minus one while its claim
    is outstanding;
  - zero for addresses still to come.

  Its conjunct `Phase` ties the control state to the configuration. For
  example, the claim state is reached only with a faucet and a counter
  of at least one. The lemma `NextAddressBound` covers the three
  actions that move to the next address.

- `QueriesProofs.tla`, theorem `BalanceRefinement`:
  `Spec => BalanceQueryRefinesRetrier` for every budget. The initial
  states map to the retrier's initial state. By `StepSimulation`, every
  step maps to a retrier step or a stutter: one case per action, with
  the query attempt split into value, None and exception. The step
  needs the invariant `QInv`: before and during the loop there is no
  response and no outcome, and the conversion runs only after a value.
  Otherwise `Construct` could map to a step that changes the retrier's
  status. `CallFixed` says the call and its arguments never change.
  TLC checked `QInv` first.

- `RefillProofs.tla`, theorem `ValidatorSendsOnce`:
  `Spec => []ValidatorSendsEachOnce`. The strengthening
  `VInv == RIInv /\ SentSplit /\ Returned` says that, on the validator
  path, the address list is split at the loop index `idx`:
  - addresses before `idx` have had exactly one send;
  - addresses after it have had none;
  - `idx` itself has had one only once the loop is done.

  `Returned` says that the call returns `ok` only after the index has
  passed every address. TLC checked `VInv` on the `refill` run first.
- `QueriesProofs.tla`, theorem `QueriesTypeCorrect`:
  `Spec => []TypeOK`, for every budget.
  - `TypeOK` bounds the loop counters by the call's own budget
    `QueryBudget`. An earlier bound was the largest budget of any call,
    written as a `CHOOSE` over a set's maximum, which the provers cannot
    reason about; the bound by the call's own budget is the stronger
    one. Its strengthening `TInv` adds `sleeps <= attempt`.
- `Retrier.tla`, theorem `RetrierTypeCorrect`: `Spec => []TypeOK`, a
  corollary of `RetrierSafety`.
- `StateQueryProofs.tla`, theorem `StateRefinement`: for a constant
  `N`, standing for any `n_retries` argument (None included), the
  module instantiates `Retrier` without parameters, with budget
  `StateBudget(N)` and the retrier's variables taken from the loop when
  the call is `query_contract_state(n_retries=N)` and at their initial
  values otherwise. It proves `Spec => StateRetrier!Spec` by the same
  argument as `BalanceRefinement`: `QInv` and `CallFixed`, and one
  step case per action in `StateStepSimulation`. As `N` is arbitrary,
  this proves every conjunct of the run's `StateQueryRefinesRetrier`.
  The proof cannot name that property itself: it is stated through the
  parameterised instance `R(sel, n)`, and tlapm 1.4.5 replaces the
  parameters of a parameterised `INSTANCE` by the name `R!Nat` when it
  expands one.
- `RefillProofs.tla`, theorem `FundingRefinement`:
  `Spec => ImplementsFundingRequests`, for every number of addresses and
  every budget. `InitRefinesFunding` maps the initial states.
  `NextRefinesFunding` has one case per action:
  - `EnsureFunds` is `Dispatch`;
  - `FaucetClaim` is `Claim`, within the budget because `ClaimBound`
    gives `requested[idx] <= attempt - 1` while a claim is outstanding;
  - the `break` of `FaucetRead` and `FaucetExhausted` are `Skip`;
  - `ValidatorSend` is `Send`, whose `asked[cursor] = 0` comes from
    `SentSplit`;
  - `RefillDone` is `Return`;
  - the other steps are stutters.

  The invariant is `FInv == VInv /\ SendConfigured`: the `send` state
  is reached only with the validator configured and no faucet, so that
  `Route` reads `validator` exactly where `Send` is taken. TLC checked
  `FInv` on the `refill` run first.
- `RefillProofs.tla`, theorem `ClaimsFollowLowReads`:
  `Spec => ClaimFollowsLowRead`. The invariant `ClaimRead` says that in
  the `claim` state the current address's `lastRead` is a number below
  the threshold, read in the current iteration (`readIn[idx] =
  attempt`). Only `FaucetRead` with a low returned balance enters
  `claim`, and that read counts the iteration. No step changes
  `lastRead`, `readIn` or `attempt` between it and the claim. With `RIInv`, the step
  lemma `ClaimStep` shows that with a faucet only `FaucetClaim` adds to
  `requested`, and only at `idx`. `ValidatorSend` also adds to it, but
  `Phase` rules out a faucet there. TLC checked `ClaimRead` first.

**Only model-checked:**
- liveness (`Terminates`, `Termination`, `RefillTerminates`,
  `QueryTerminates`), which needs fairness and `ENABLED`, out of
  TLAPS's reach;
- `StateQueryRefinesRetrier` as the single formula the run checks. It
  is proved one argument at a time by `StateRefinement`, see above;
- everything in `Extraction` (`TypeOK`, `FindItemIsFirstDFSMatch`).
  `_find_item` and its reference are `RECURSIVE` operators. tlapm loses
  its SMT backend in a module that reaches one, and what a recursive
  definition computes for every input needs induction over data, which
  the installed provers cannot instantiate.

## Not modelled (yet)

- `query_account_data`'s `TypeError` for a non-`BaseAccount` account,
  and `sign_tx`'s `RuntimeError`, which is unreachable once
  `_ensure_accont_number` has returned.
- The denominations of coins: `Refill` keeps one balance per address, so
  the faucet loop's reading of the first coin of any denom
  (`ledger.py:686`) is not checked.
- The sleep intervals: the models count sleeps but do not tell the
  intervals apart.
- Message packing: protobuf encoding and file reading, with no control
  flow to check.

## Plan for the next sittings

1. Compose `Extraction` with `CosmosLedger`, replacing the three log
   kinds with trees.
2. Model the coin list of `get_balances` with denominations, to check
   the first-coin reading at `ledger.py:686`.
