# Verification of svc-idcreate

svc-idcreate is an HTTP service that creates Verus identities, stores files in
identities and defines currencies for its clients. A request is stored in a
database; a worker process carries it through a sequence of daemon calls and
waits for the blockchain between them. This directory holds TLA+ models of
those workflows, the TLC configurations that check them on small instances, and
TLAPS proofs. It lives beside the repository; paths below are relative to the
repository root (`src/` in `PROJECT.json`).

    tlc -config Identity.cfg MCIdentity.tla      # any run of the table below
    tlapm IdentityWorkflowProofs.tla

## 1. The system

### Processes and how they interact

| Part | Code | State it keeps |
|---|---|---|
| API (FastAPI) | `id_create_service.py`, `id_functions.py`, `currency_functions.py` | none of its own: it inserts, resets and deletes rows, and calls the daemon once (`register_name_commitment`) |
| Worker | `worker.py`, `worker_id_creation.py`, `worker_currency_creation.py`, `worker_shared.py` | the local variables of one sweep |
| Database | `db.py`, `_init_db` | `registrations`, `storage_uploads`, `storage_chunks`, `currency_requests`, `received_webhooks` |
| Daemon and chain (external) | called through `rpc_manager.py`, `verus_node_rpc.py` | commitments, identities, identity updates, operations, balances |
| Webhook receiver (external) | called by `_post_webhook` | what it was told |
| MCP server and clients | `mcp_server/`, `clients/` | none: they call the API and poll |

API and worker share nothing but the database. `docker-compose.yml` runs
PostgreSQL and the loop `while true; do uv run python worker.py; sleep 15;
done`: one `process_once()` (identity sweep, storage sweep, currency sweep,
`worker.py:561`) per process, restarted whatever happens. `README.md` and
`DEPLOYMENT.md` section 8 also offer cron, which starts a sweep every minute
whether or not the previous one has ended; `SUGGESTIONS.md` knows that sweeps
may overlap. No SELECT locks rows and no UPDATE of a sweep repeats the status it
read in its WHERE clause.

### Operations

* **Identity registration.** `POST /api/register` asks for a free name,
  broadcasts a name commitment and inserts a row in `pending_rnc_confirm`. The
  sweep runs four SELECTs (ready, pending, submitted, due webhooks), then handles
  pending rows (confirmed -> `ready_for_idr`), ready rows (`register_identity`,
  with a loop that raises the fee offer -> `idr_submitted`; "already exists" ->
  `complete`), submitted rows (confirmed -> `complete`) and webhooks, and commits
  once. Errors count towards `WORKER_MAX_RETRIES`, then `failed`. Other API
  writes: DELETE and the webhook requeue.
* **Storage upload.** Create inserts an upload and its chunk rows, one commit
  each; start and retry check a status and then overwrite it. The sweep takes
  each due upload through: ask about submitted chunks, complete if all are
  confirmed, else write the next pending chunk with `update_identity`.
* **Currency request.** `simple_token`: commitment, identity, funding of the
  define, define, wait. `fractional_token`: the same for the basket's identity, a
  nested machine of the same rungs for each reserve that is to be created, then a
  funding plan paid from two sources, a gate that waits for confirmed balances,
  the define. One step of one request per sweep, one commit for all requests.

### What is hard, and what correctness means

`PROJECT.json` lists each hazard with its line. In short:

* a sweep's UPDATEs commit long after its daemon calls: a crash forgets what was
  sent, so every step must survive being repeated;
* a call may be taken and its answer lost;
* API statements run between a sweep's read and its write;
* overlapping sweeps write rows by id from stale snapshots and lock them in
  different orders;
* retry budgets are counted from snapshots;
* an exception outside a `try` takes down the whole sweep;
* funds are sent from operations that complete, fail or are forgotten, in any order.

| Component | Correct when |
|---|---|
| Identity | nothing is registered without its confirmed commitment; `complete` means in the chain; clients only see the documented ladder; deleted rows stay deleted; a failure means an exhausted budget; every registration settles; webhooks tell the committed truth and are all told |
| Storage | chunks are sent in order and only gain ground; `confirmed` means the recorded write is mined; `complete` means every chunk; nothing rewritten or forgotten without cause; every upload that a daemon can serve ends |
| Currency | identities on their own confirmed commitment; define after everything it needs; `complete` means defined; nothing paid again but for a fault or a refusal; every request ends |
| Worker loop | one process gives each of the three sweeps its turn, whatever ends a process; requests of each kind end beside those of the others |
| Fee offers | an offer is the largest amount within the fee; a repeated call offers no less, and no more than the rate allows |
| Request checks | a currency request is stored exactly when it is well-formed and can be served; the chunks cover the file |
| MCP polling | what is reported is final; a status reached in time is reported; the deadline is kept but for one sleep and one poll |

## 2. Modules

| Module | What it is |
|---|---|
| `RegistrationLifecycle` | abstract: the status ladder of a registration that a client may observe |
| `IdentityWorkflow` | `registrations`, the API statements that write it, the identity sweep, chain and receiver |
| `IdentityWorkflowProofs` | theorems about `IdentityWorkflow`, any number of workers |
| `IdentitySoleWorkerProofs` | theorems about `IdentityWorkflow` with sweeps that do not overlap |
| `UploadProgress` | abstract: the status and progress of an upload that a client may observe |
| `StorageUpload` | `storage_uploads`/`storage_chunks`, create/start/retry, the storage sweep |
| `StorageUploadProofs` | theorems about `StorageUpload` |
| `CurrencyWorkflow` | one row of `currency_requests`, both workflows, the funding operations |
| `CurrencyWorkflowProofs` | theorems about `CurrencyWorkflow`: types, identities, definitions |
| `CurrencyPaidOnceProofs` | theorems about `CurrencyWorkflow`: what is paid |
| `WorkerLoop` | composition: the three workflows in the one process of `worker.process_once` |
| `WorkerLoopProofs` | theorems about `WorkerLoop`: the workflows keep their specifications in it |
| `FeeOffer` | `_resolve_fee_offer` and the bumps around `register_identity` |
| `RequestChecks` | what the currency and upload endpoints accept |
| `RulesProofs` | theorems about `FeeOffer` and `RequestChecks` |
| `McpWait` | `wait_for_identity_completion` of the MCP server, against a `RegistrationLifecycle` |
| `McpWaitProofs` | theorems about `McpWait` |
| `MCIdentity`, `MCStorage`, `MCCurrency`, `MCWorker`, `MCParts` | instances for TLC |

`IdentityWorkflow` implements `RegistrationLifecycle` (`LifecycleSafe`),
`StorageUpload` implements `UploadProgress` (`ProgressKept`), `WorkerLoop`
instantiates the three workflows, `McpWait` uses `RegistrationLifecycle` as the
service it polls. `MCParts` puts `FeeOffer`, `RequestChecks` and `McpWait`, which
share nothing, into one instance.

Definitions named "Mutant" next to an action are wrong variants of it. No
specification uses them; they show that each property would notice such a bug.

### IdentityWorkflow

The committed table is `reg`; `draft` is the table with the UPDATEs of the open
transactions; `holder[r]` is the sweep with a lock on row r (the first UPDATE
takes it, commit or rollback gives it back). `requeue` and `post` say where an
API handler is between its statements. Per worker, `phase` is the SELECT to run
next, `todo` the snapshots of rows still to handle, `doing`/`answer` the row whose
call has returned and whose UPDATE has not run. One action per SELECT
(`SelectReady` ...), per daemon or receiver call (`AskConfirmations`,
`RegisterAccepted`, `RegisterRefused`, `RegisterInsufficient`, `PostAccepted`,
`PostRefused`), for the UPDATE (`Record`, the row given by `Recorded`), the
commit, the death of the process, the lookups of a ready row that raise outside
its `try`, and PostgreSQL's deadlock abort. Retry times are Booleans ("still in
the future"), txids are Booleans or owners, and rows within one list are handled
in any order, which covers every `created_at`.

Assumed of the daemon: it answers "already exists" only for a name that is in a
block. (`register_identity` of a name that is merely in the mempool is answered
with another error.) Without that assumption `complete` could be reported early.

### StorageUpload

One worker, so a single sweep is state: `due`, `cur` and the row `seen` at its
beginning, `toCheck`, `marks` (chunks found confirmed, UPDATEd and uncommitted)
and `result` of the write. The start and retry handlers are two steps each, check
and UPDATE, as in the code. Write n of a chunk is a transaction of its own;
`AnswerShapes` says whether `update_identity` answers a dict (with the txid) or a
plain value (the code then stores NULL). `daemon` is external: whether the daemon
that the upload was stored with is configured. Create stores `unresolved` for a coin
that has none, which no configuration ever has; an enabled one may be taken out of the
configuration and put back between two sweeps (`Configure`). A sweep skips an upload
whose daemon is not there, each time, and changes nothing (`SkipUpload`). `Abandon` is what is left of a sweep that
does not commit; `WorkerLoop` meets it too.

`UploadProgress` lets the status go back and forth, as start, retry and a sweep
overwrite each other, but not the progress: one chunk is sent at a time, in order;
confirmed chunks stay so; `complete` is entered with all of them confirmed.

The storage guide (`STORAGE_IMPLEMENTATION_GUIDE.md:137`, "Wait for confirmation
before next chunk.") is stricter than the code: `worker.py:450` sends the next
pending chunk whatever the state of the one before. The model follows the code.

### CurrencyWorkflow

One request: requests share only the sweep's commit, which the crash action covers.
`row` is committed, `draft` is what the sweep read or will commit. `SimpleTasks`,
`FractionalTasks` and `ReserveTasks` give the task at each `step_index` (and
`reserve_index`/`reserve_phase`), `After` the next position; each task is an
action. Funding is `ResolveWaits`, `PlanFunding`, one `SendTransfers` per source,
`SaveFunding`; the gate is `Hold`/`DefineBasket`. The daemon's `txs` holds
everything it took. Amounts are integers, multiples of 1e-8; `Epsilon` is
`CURRENCY_AMOUNT_EPSILON`, below which a lack is not topped up, a transfer not
sent, a source not called short. A plan may list a reserve several times, as the
API allows; each entry is planned as if it were the only one (`Outputs`), and what the
source cannot pay for all of them together fails at once (`CanPay`; in the wallet it
may also be an operation that fails later). A refused call is not a fault: the daemon
may refuse any call, as often as it likes. Faults are deaths, lost answers and
forgotten operations only. Left out: entries of one reserve with different amounts, a
reserve that is the native currency itself, the errors of binary floats, a
`CURRENCY_AMOUNT_DECIMALS` below 8 (the plan is rounded and the gate is not),
conversion fees, and the text of the sanity signature (a Boolean: the signature only
depends on the plan). Polling all waits of a request is one step.

### WorkerLoop

The variables of the three workflows side by side, with `turn` (the sweep the
process is in). Each workflow counts its own faults, and
`FewFaults` puts one bound on all of them. `IdentityTurn` ends with the
commit, which hands on, or with an exception of a ready row's lookups, which leaves
`process_once`: the next process starts with the identity sweep again.
`StorageTurn` keeps its exceptions to itself; after `CurrencyTurn`, commit or
exception, the process ends. `Die` kills it anywhere. Each workflow's own
specification assumes fairness of its sweep; here only `ProcessOnce` as a whole is
fair, and `LoopServesAll` says that the rest follows.

### FeeOffer, RequestChecks

`FeeOffer` follows one ready row: environment and `getcurrency` answer, the offer,
the calls. Offers are integers in 1e-8 and what is read has `Parts` parts of that,
so that rounding down is integer division. Missing and garbled values of
`getcurrency` take the same path and are one case; a garbled `FEE_OFFER` raises
`decimal.InvalidOperation`, which the `except ValueError` next to the warning
"falling back to currency idregistrationfees" does not catch: `aborted`. Fees and
prices are divided as `Decimal`s of 28 digits, which is exact for what is kept of the
quotient. Bumps are computed in binary floats, whose product or sum may be a little
below the exact one and then lose a smallest amount to the rounding down: `ByRate` and
`ByOne` allow both outcomes wherever the exact value is a whole number of smallest
amounts (elsewhere an error that small changes nothing).

`RequestChecks` lists the checks of each endpoint in order with their status codes.
The two endpoints of one workflow are a plan request with a fixed mode. Modes are
taken after `strip().lower()`; option flags are integers whose bits are read by
division (a Python integer has no width); the API key is left out. `QueuedIffSound`
says what the checks together let through, not that the daemon will define it. Uploads
have no check of their daemon: what `POST /api/storage/upload` stores with 202 may be
something no sweep can carry out, see Findings.

### McpWait

Time is a number of ticks. A poll is a request leg and an answer leg of at most
`Latency` ticks each; the status is read between them. `PollFails` is any error of
the client, 404 included: it ends the wait. (A poll that the HTTP client itself
times out while reading raises Python's `TimeoutError` too, so a caller cannot tell
it from the deadline by its type.)

## 3. Runs

| Run | Instance | Shows |
|---|---|---|
| `identity` | 2 requests for one name, one hooked, 1 worker, MaxRetries 2, 1 fault, 1 requeue, fair | type, `CommitmentFirst`, `CompleteIsOnChain`, `SubmittedIsOwn`, `FailedWhenExhausted`, `DeliveredWasAcked`, `EventsMatchRow`; refinement of `RegistrationLifecycle` (`LifecycleSafe`), `DeletedStaysDeleted`, `AttemptsOnlyGrow`; `EverySettles`, `EveryHookIsTold` |
| `identity_overlap` | 2 overlapping sweeps, no webhook | the chain facts, the inductive invariant `IndInv`, `DeletedStaysDeleted` |
| `identity_webhook_cap` (violated) | a receiver that refuses 3 times, cap 2 | the cap is passed |
| `storage` | uploads of 2 chunks and of 1, any daemons, both answer shapes, 1 fault, 1 retry, fair | `ConfirmedIsMined`, `CompleteIsWhole`, `NoNeedlessRewrite`, `WritesAreKept`; refinement of `UploadProgress` (`ProgressKept`); `EveryUploadEnds` |
| `storage_txid` (violated) | a write answered with a plain value | a submitted chunk without a txid |
| `storage_unresolved` (violated) | 1 upload of 2 chunks whose coin has no daemon, dict answers, no fault, fair | it stays `uploading` |
| `currency` | seven kinds of plan: a simple token, a new basket with a reserve to create (needed in so small an amount that only the native share is sent), baskets over one and over two existing reserves, and three that list a reserve twice (to create, with its identity given, existing); the sources have enough for all attempts, but for one reserve's, which is short at first and is topped up once; 1 fault, fair | `IdentityOnItsCommitment`, `DefineLast`, `CompleteIsDefined`, `PaidOnce`; `EveryRequestEnds` |
| `currency_waits` (violated) | a source that pays in three rounds | a round sent while the one before is unconfirmed |
| `currency_refusal` (violated) | a basket with a reserve to create, sources with enough for all attempts, no fault | the native share is sent twice |
| `worker_loop` | one request of each kind, two kinds at a time, 1 death, fair | `LoopServesAll`, `EveryKindEnds` |
| `worker_broken` (violated) | the same with a row whose lookups always raise | nobody settles |
| `parts` | a coin of 10 smallest amounts of 4 parts, offers and prices on both sides of each boundary, options -1 to 128, files of 0 to 13 bytes in chunks of up to 4; timeouts 0, 1, 5, polls every 0, 1, 3 ticks, legs of up to 2 | `OfferIsWithinFee`, `BumpsFollowRate`, `QueuedIffSound`, `ChunksCoverFile`; `ReportIsFinal`, `FinishedInTimeIsReported`, `OverrunIsBounded`, `WaitInv` |

What the violated runs show is told in section 5.

**Bounds.** Two requests for one name are the smallest instance in which a row can
claim another's identity; requests for different names share only the commit and
the locks. `MaxRetries` 2 has an error that is retried and one that is the last; 1 does
where the run asks about something else. One fault is one
crash, one aborted sweep; a lost answer of the identity daemon needs no fault and
happens at any call (it is limited by the retry budget). Of two chunks one is the
first and one the last, and an upload of one chunk beside them is both; that their order
holds for more is part of the proofs. In `storage` a retry finds one upload alone and no
other is created after it (`SharedSpec`): uploads share the sweep's variables, a retry
only touches its own rows, and both at once make the instance too large. The plans of
`currency` are one for each place where the workflows differ, since there is one request
at a time; the ladders of new identities and the funding in several rounds are in
different plans, as their positions follow each other and a row that is funded only
remembers of its ladder what was taken. One fee bump gives both ends of the loop.
`FaultBound`, `RequeueBound`, `RefusalBound`, `WriteBound`, `RetryBound` and
`RefillBound`, `KindChoices` (kinds of requests at a time), `Latency`, `Oversleep`
and `Horizon` are the only caps that the code does not have. Two kinds at a time
are enough for `worker_loop`: a sweep without requests passes its turn on like one
whose requests are all done. In `parts` the domain has, for each comparison in the
code, values below, at and above it; `Horizon` is beyond the longest wait. `RefusalBound` also
means that the receiver accepts in the end. The overlap run has no webhook, since
the chain facts do not depend on it, and uses symmetry (it checks no liveness).

**What does not hold under overlap.** With two sweeps `LifecycleSafe`,
`EventsMatchRow` and `DeliveredWasAcked` fail: a sweep's UPDATE by id from a stale
snapshot can turn a failed row back into a live one. The README's loop keeps
sweeps apart, so the `identity` run assumes one worker for them; `DEPLOYMENT.md`'s
cron mode does not.

**Fairness.** The worker is restarted for ever, so its next step is weakly fair;
retry times pass; broadcast transactions are mined; operations of the daemon end.
API clients, faults and the daemon's answers are not fair: a call may fail each
time, and then the retry budget ends the request. Each workflow states
`WorkerFairness` (its sweep goes on) apart from `WorldFairness`; `worker_loop`
assumes the second and derives the first from the fairness of the process.
`identity` needs faults to be finite: a worker that always dies before its commit
makes no progress. Likewise `storage`: an error of `get_raw_transaction` drops
the upload from the sweep uncounted (`worker.py:415`, `554`), so endless ones retry
for ever. A daemon that is not configured is no fault and needs no bound: the upload
then stays where it is, and `EveryUploadEnds` excepts exactly that and a chunk sent
without a txid. Whether an operator puts a daemon back is not assumed. `EverySettles` is
stated of all registrations at once (again and again none is on the ladder), which for
finitely many of them is the same as one by one.

**The gate.** Step 5 of the fractional workflow waits for balances without a limit
and plans nothing. `EveryRequestEnds` therefore allows one place to stay for ever,
`Starved`: a balance is short, nothing is under way, and its source does not have
enough for all attempts (`Enough`), so that it could not pay all of it once. That
happens when a transfer whose wait was lost (finding
below) fails, and in a case that needs no fault: a shortfall just above the dust
threshold whose source holds a little less. With the default threshold of 1e-8, a
shortfall of 2e-8 and 1e-8 at the source, nothing is planned (what it can give is
dust), the source is not reported short, step 4 concludes that all contributions
are funded, and step 5 waits for ever, whatever is paid to the source later.

## 4. Proofs

Every invariant and action property that a run checks, and both refinements of an
abstract specification, are also proved for all values of the constants. TLC checked each
inductive invariant on the instance of the component's run before it was proved;
`IndInv` of identity and `WaitInv` of the MCP wait are also properties of a run.

| Module | Assumes | Theorem | Statement |
|---|---|---|---|
| `IdentityWorkflowProofs` | `ConstantsAssumption` | `TypeCorrect` | `Spec => []TypeOK` |
| | | `Inductive` | `Spec => [](TypeInv /\ IndInv)` |
| | | `CommitmentComesFirst` | `Spec => []CommitmentFirst` |
| | | `CompleteIsRight` | `Spec => []CompleteIsOnChain` |
| | | `SubmittedIsRight` | `Spec => []SubmittedIsOwn` |
| | | `DeletionIsFinal` | `Spec => DeletedStaysDeleted` |
| `IdentitySoleWorkerProofs` | and `SoleWorker` | `SoleInductive` | `Spec => []SoleInv` |
| | | `FailsWhenExhausted` | `Spec => []FailedWhenExhausted` |
| | | `DeliveriesAreAcked` | `Spec => []DeliveredWasAcked` |
| | | `EventsAreTrue` | `Spec => []EventsMatchRow` |
| | | `AttemptsGrow` | `Spec => AttemptsOnlyGrow` |
| | | `LifecycleIsKept` | `Spec => LifecycleSafe` (refinement) |
| `StorageUploadProofs` | `StorageAssumption` | `TypeCorrect` | `Spec => []TypeOK` |
| | | `UploadInductive` | `Spec => []IndInv` |
| | | `ConfirmedAreMined` | `Spec => []ConfirmedIsMined` |
| | | `CompleteAreWhole` | `Spec => []CompleteIsWhole` |
| | | `RewritesAreNeeded` | `Spec => []NoNeedlessRewrite` |
| | | `WritesStay` | `Spec => WritesAreKept` |
| | | `ProgressIsKept` | `Spec => ProgressKept` (refinement) |
| `CurrencyWorkflowProofs` | `CurrencyAssumption` | `TypeCorrect` | `Spec => []TypeOK` |
| | | `CurrencyInductive` | `Spec => [](TypeInv /\ IndInv)` |
| | | `IdentitiesAreCommitted` | `Spec => []IdentityOnItsCommitment` |
| | | `DefinitionsComeLast` | `Spec => []DefineLast` |
| | | `CompleteAreDefined` | `Spec => []CompleteIsDefined` |
| `CurrencyPaidOnceProofs` | the same | `PaidOnceInductive` | `Spec => [](TypeInv /\ PaidInv)` |
| | | `NothingIsPaidTwice` | `Spec => []PaidOnce` |
| `WorkerLoopProofs` | `LoopAssumption` | `EachWorkflowIsKept` | `Spec => Identity!Spec /\ Storage!Spec /\ Currency!Spec` |
| | | `RegistrationsAreSafe` | `Spec =>` the safety properties of identity, for this process |
| | | `UploadsAreSafe` | the same for storage |
| | | `CurrenciesAreSafe` | the same for currency, `PaidOnce` included |
| `RulesProofs` | `FeeAssumption` | `OffersAreWithinFee` | `FeeSpec => [](FeeTypeOK /\ OfferIsWithinFee)` |
| | | `BumpsFollow` | `FeeSpec => BumpsFollowRate` |
| | `ChecksAssumption` | `AnswersAreRight` | `ChecksSpec => [](QueuedIffSound /\ ChunksCoverFile)` |
| | | `QueuedAreSound` | `ChecksSpec => []QueuedIffSound` |
| | | `ChunksCover` | `ChecksSpec => []ChunksCoverFile` |
| `McpWaitProofs` | `WaitAssumption` | `TypeCorrect` | `Spec => []TypeOK` |
| | | `WaitInductive` | `Spec => []WaitInv` |
| | | `ReportsAreFinal` | `Spec => []ReportIsFinal` |
| | | `NoneInTimeIsMissed` | `Spec => []FinishedInTimeIsReported` |
| | | `OverrunsAreBounded` | `Spec => []OverrunIsBounded` |

The named assumptions say of the constants what their types are (numbers are natural,
the retry budget is at least 1, sets of names contain what they are about).
`SoleWorker` is a hypothesis of the theorems themselves, since nothing in the code of a
sweep enforces it; it is discussed below.

### Identity, overlapping sweeps

`CompleteIsOnChain` is not inductive: a sweep completes a row because of an answer
it got earlier, and selects it because of a snapshot taken before that. `IndInv`
therefore states for each place where a fact about the chain is remembered what it
implies: `RowFacts` for both versions of a row, `ItemFacts` for a snapshot (of a
row that may since have changed or gone), `AnswerFacts` for an answer not recorded
yet, and `LockFacts` for the difference between the two versions (only a lock
holder sees one, and a locked row cannot be deleted). The argument has two
halves. Chain facts are monotone (`NextMonotone`), so what was true when remembered
stays true (`...Stable` lemmas); and each action writes only what follows from what
it remembers (one lemma per group of actions, put together in `NextInd`). That the
invariant speaks of any number of `Workers` is the point: it needs no exclusion of
sweeps. `TypeInv` adds to `TypeOK` which answers fit which snapshot (`DoingOK`).

### Identity, one sweep at a time

Retry budgets, webhooks and the ladder do need that exclusion: with two workers TLC
finds `LifecycleSafe`, `EventsMatchRow` and `DeliveredWasAcked` violated (section 3).
`SoleWorker` is what the loop of `docker-compose.yml` gives. Then snapshots do not go
stale but by deletion (`Fresh`): a row on the ladder is changed by the sweep alone,
which handles each of its snapshots once, and by the API only when it is terminal. So
what `Recorded` computes from a snapshot is computed from the row: one rung further
or one error more (`Climbs`), within the budget (`Budgeted`), and of a webhook what
the receiver was told and has acknowledged (`Told`). `LifecycleIsKept` takes the commit
apart: each row moves along `RegistrationLifecycle` or stays, and a step that moves
none is a stutter.

### Storage

`IndInv` says what the sweep remembers while start, retry and creation go on:
chunks are sent in order (`SentInOrder`); what is started, retried or swept was
returned to a client and so has all its chunk rows, though each is inserted in a
transaction of its own (`KnownAreWhole`); what was read of submitted chunks stays
true to the commit, as nothing else moves a submitted chunk (`ReadStaysTrue`); and a
chunk written more often than faults occurred is recorded as sent or about to be
(`RewritesCostFaults`). The refinement maps each step to `Sends`, `Confirms` or
`Becomes` of each upload.

### Currency

`TypeInv` adds to the types that a live row is at a position of its workflow with
attempts left (`RowOK`), and what holds while a step is under way (`SweepOK`); among
it, that the transfers planned are within what the sources hold. `RowInv` reads a
position as a claim about the chain: what is `Behind` it on the ladder of the token or
of a reserve is mined, or is the very transaction the row waits for (`Assured`), and
the commitment kept is one for the name at hand (`CommitKept`), although one row keeps
the commitments of many names after each other. The daemon's list only grows and
mined transactions stay mined, so the claims survive lost answers, rollbacks and
retries from older positions.

`PaidOnce` counts, for any plan, and only deaths, lost answers and forgotten operations
excuse a call too many; a refusal does not. A commitment and a funding are due at each
place that a name has in the plan, so a reserve listed twice is due two of each; a
source that has `Enough` pays its share of a basket once. One refusal cannot be counted
away, since the code does pay again: when the native source has paid and the call for
the allocation source is refused, the attempt ends without its waits and the next one
sends the native share again (`currency_refusal`). So of the native currency `Attempts`
allows one payment for each attempt, and of every other currency a single one.

`BoughtOnce` says for commitments and fundings that what was sent and what is still
`Ahead` of the row's position make up at most one for each place and fault (`Billed`); a
step that sends moves the position past what it sent, a crash takes the position back
and is a fault. `EnoughPayOnce` does it for transfers, of each source with `Enough`: what
the identity lacks is under way in a transfer that the row waits for (`Covered`), or is
not, and then no more was sent than attempts and faults account for (`Owing`). So a plan
made from confirmed balances only sends again what was lost. `Sending` is the form this
takes between the transfers of one plan; `SameRow` says that the row read is the row
there, so that its attempts may be counted; and that a source has paid at most so often
is in turn why it still can (`PaysOnce`). `Known(row, c, 1)` is what a crash falls back to.

### The process

`WorkerLoop` adds to the three workflows who moves when. `EachWorkflowIsKept` shows that it
adds no step of its own: each step of the process, its death or a client is a step of one
workflow's specification and a stutter of the other two. So each workflow's theorems
hold in the process (`WorkerLoopProofs` instantiates the proof modules with its
variables; the `Same...` lemmas show that these instances, expanded, are those of
`WorkerLoop`), and since the process is one worker, `SoleWorker` is no longer a
hypothesis. That a chunk is not rewritten without a fault says more here: without a fault
of the storage sweep, whatever happens to the other two.

### Fee offers, request checks, MCP

Each is proved of the component's own specification; `MCParts` puts them side by side. Of offers it is arithmetic: division rounds down and loses less than
one part, so the offer is the largest within the fee; and a bump loses no more than one
smallest amount to the floats, so that it never lowers the offer, never exceeds the rate
or the smallest amount, and raises an offer whose share by the rate is more than that.
That each bump raises the offer is false (section 5). Of requests it follows the endpoints'
checks in their order.

None of the three properties of the wait is inductive. They follow from bounds on a leg
or sleep under way, which start from a moment before the deadline (`LegsAreBounded`);
from the age of an answer under way, as long as it was read before the registration
became terminal (`AnswersAreRecent`); and from the lifecycle, by which a terminal
registration has nowhere to go but out of the table (`FinalAnswersStayTrue`, with
`OnlyDeletionIsLeft` about `RegistrationLifecycle`).

### Only model-checked

Liveness (`EverySettles`, `EveryHookIsTold`, `EveryUploadEnds`, `EveryRequestEnds`,
`LoopServesAll`, `EveryKindEnds`): it needs ENABLED, which the provers do not do. The
findings of section 5 are counterexamples, for TLC alone.

## 5. Findings

Each of these has a run that TLC ends with a counterexample.

* `worker_broken`: a ready row whose daemon lookup or fee offer raises
  (`worker_id_creation.py:157`, before its `try`) aborts every process in its first
  sweep; it never becomes failed, and registrations, uploads and currency requests
  all stop. A `FEE_OFFER` that is no number, or a daemon disabled after the row was
  stored, does that.
* `identity_webhook_cap`: after the last webhook attempt no retry time is set and
  the SELECT ignores the attempts: the webhook is then posted in every sweep.
* `storage_txid`: a plain answer of `update_identity` leaves a submitted chunk
  without a txid, which nothing ever confirms.
* `currency_waits`: after earlier funding waits are resolved, new waits are
  appended to a list that is no longer the one saved; the next round sends
  while they are unconfirmed.
* `storage_unresolved`: an upload for a coin without an enabled daemon is accepted
  (`id_create_service.py:1517`), and every sweep's attempt raises in `get_connection`
  before anything is counted (`worker.py:550`): once started it stays `uploading`. The
  same becomes of any upload whose daemon is disabled for good. `EveryUploadEnds`
  excepts these, and those of `storage_txid`, by name.
* `currency_refusal`: step 4 sends once per source and saves the waits after the last
  call. If the native source has paid and the next call is refused
  (`worker_currency_creation.py:1306`), they are lost, and the retry, which looks at
  confirmed balances only, sends the native share again. No crash or lost answer is
  needed.

Two more were seen and have no run, since each can be read off a line of the code.
A bump can repeat the offer that was just refused (`worker_id_creation.py:197`):
3.32042126 + 0.00000001 is 3.3204212699999998 in floats, which is rounded down to
3.32042126, so one of `IDR_FEE_BUMP_MAX_INCREASES` is used up for nothing
(`tests/test_worker.py:954` speaks of "base + 2 fee-bumped retries"); `Raised` allows
it, and `BumpsFollowRate` claims no more than holds. And a plan may list a reserve
twice (`id_create_service.py:146` refuses none): for the second entry the worker
commits to the name again (`worker_currency_creation.py:767`) although the first has
registered it, and the request fails after that fee, when the identity cannot be
registered again. `Places` counts that commitment as one the plan asks for.

A duplicate webhook after a crash between the receiver's answer and the commit is
a known limit of the design (at least once), visible in the model as an `acked`
event posted again.

## 6. Not modelled

* The SQLite fallback of `db.py`: its whole-file lock admits fewer interleavings
  of writes than the modelled PostgreSQL, and lock timeouts that it adds (a sweep
  holds the lock while it posts webhooks, which this service may receive itself).
* The files `/tmp/{upload_id}_{n}` that `update_identity` is told to read: nothing
  in the repository writes them, so the model takes a write of a chunk as a whole.
* RPC client, connection cache, configuration: wrappers of HTTP calls and
  environment lookups without a state machine.
* The built-in webhook receiver, listings, health, availability and HTML pages,
  payload retrieval: append or read only.
* `process_next_storage_chunk` (`worker.py`): called by tests only.
* The other MCP tools and both clients: thin wrappers of the API.

## 7. Plan

Modelled in this order: identity (abstract, detailed), storage and its abstract
progress, currency, the worker loop, fee offers and request checks, the MCP wait; then
the proofs of section 4, each component's own first, the worker loop's last.

What could follow: entries of one reserve with different amounts, whose funding plan
depends on their order.
