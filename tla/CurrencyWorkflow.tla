--------------------------- MODULE CurrencyWorkflow ---------------------------
(***************************************************************************)
(* One currency request: the API that stores and deletes it                *)
(* (currency_functions.py, id_create_service.py) and the worker's currency *)
(* sweep (worker_currency_creation.process_currency_once) that takes it    *)
(* through the simple_token or the fractional_token workflow.              *)
(*                                                                         *)
(* A sweep reads the row, takes one step for it and commits at its end;    *)
(* what a step sends is known only to "draft" until that commit.  Requests *)
(* share nothing but that commit, so one request is modelled.              *)
(*                                                                         *)
(* The daemon's wallet and the chain are external: "txs" lists what the    *)
(* daemon took, in order, and a position in it stands for the txid and for *)
(* the operation id.  Amounts are integers, multiples of 1e-8, the default *)
(* precision; the errors of the code's binary floats are left out.         *)
(***************************************************************************)
EXTENDS Naturals, Sequences, FiniteSets

CONSTANTS
    Token,          \* the currency asked for, and its identity
    Native,
    ReserveNames,
    Plans,          \* the plans a client may send
    Required,       \* what the identity needs of each currency before its define
    InitialFunds,   \* what the source of each currency holds at first
    Epsilon,        \* CURRENCY_AMOUNT_EPSILON: what counts as dust
    RefillBound,    \* bound: top-ups of a currency's source, one unit each
    MaxRetries,     \* WORKER_MAX_RETRIES
    FaultBound      \* bound: deaths, lost answers, forgotten operations

Currencies == {Native} \cup ReserveNames

Plan == [workflow       : {"simple", "fractional"},
         identityExists : BOOLEAN,
         createReserves : BOOLEAN,
         reserves       : Seq(ReserveNames),
         reserveIds     : SUBSET ReserveNames]  \* those with identity_exists

ASSUME CurrencyAssumption ==
    /\ Token \notin Currencies /\ Native \notin ReserveNames
    /\ Plans \subseteq Plan
    /\ Required \in [Currencies -> Nat \ {0}]
    /\ InitialFunds \in [Currencies -> Nat]
    /\ Epsilon \in Nat \ {0}
    /\ RefillBound \in [Currencies -> Nat] /\ FaultBound \in Nat
    /\ MaxRetries \in Nat \ {0}

Waiting == {"waiting_confirm", "waiting_opid"}
Live    == {"pending", "in_progress"} \cup Waiting

\* step_index, and reserve_index and reserve_phase of progress_json.
Position == [step : 0 .. 6, reserve : Nat, phase : 0 .. 4]

Wait == [type : {"none", "tx_confirm", "opid_txid"}, id : Nat]

\* A row of currency_requests.  rnc is the commitment kept in progress_json.
Row == [status   : {"absent", "complete", "failed"} \cup Live,
        pos      : Position,
        attempts : Nat,
        backoff  : BOOLEAN,
        wait     : Wait,
        rnc      : Nat,
        pending  : SUBSET Wait,   \* pending_funding_waits
        sanity   : BOOLEAN]       \* predefine_balance_sanity

Tx == [kind   : {"commit", "identity", "fund", "define", "transfer"},
       site   : {Token} \cup ReserveNames,
       rnc    : Nat,
       amount : [Currencies -> Nat],
       state  : {"executing", "failed", "mempool", "mined"}]

VARIABLES
    plan,       \* the request's payload_json, <<>> before the request
    row,        \* its committed row
    \* the worker
    sweep,      \* how far the sweep is
    draft,      \* the row as read, or as it will be committed
    toSend,     \* transfers planned and not sent yet
    newWaits,   \* what the transfers of this step have to wait for
    short,      \* a source holds less than the shortfall
    faults,
    \* the daemon
    txs,
    forgotten,  \* operations it does not know any more
    funds,      \* what the source of each currency holds
    balance,    \* confirmed balances of the identity
    refills

jobVars   == <<draft, toSend, newWaits, short>>
chainVars == <<txs, forgotten, funds, balance, refills>>
vars == <<plan, row, sweep, jobVars, faults, chainVars>>

NoWait    == [type |-> "none", id |-> 0]
Nothing   == [c \in Currencies |-> 0]
AbsentRow == [status |-> "absent", pos |-> [step |-> 0, reserve |-> 0, phase |-> 0],
              attempts |-> 0, backoff |-> FALSE, wait |-> NoWait, rnc |-> 0,
              pending |-> {}, sanity |-> FALSE]

Init ==
    /\ plan = <<>>
    /\ row = AbsentRow
    /\ sweep = "idle"
    /\ draft = AbsentRow
    /\ toSend = Nothing
    /\ newWaits = {}
    /\ short = FALSE
    /\ faults = 0
    /\ txs = <<>>
    /\ forgotten = {}
    /\ funds = InitialFunds
    /\ balance = Nothing
    /\ refills = Nothing

-----------------------------------------------------------------------------
(* The workflows: what a step does, for which name, and the next position. *)

Simple == plan.workflow = "simple"

CreatesReserves == plan.createReserves /\ plan.reserves # <<>>

InReserves(p) == ~Simple /\ p.step = 3 /\ CreatesReserves /\ p.reserve < Len(plan.reserves)

Site(p) == IF InReserves(p) THEN plan.reserves[p.reserve + 1] ELSE Token

\* The client says that the identity of this name exists already.
Given(site) == ~Simple /\ IF site = Token THEN plan.identityExists ELSE site \in plan.reserveIds

\* The ladder of simple_token and of each reserve of a fractional_token.
Rungs == <<"commit", "identity", "fund", "define">>

\* The steps of the two workflows outside the reserves.
SimpleTasks     == Rungs \o <<"finish">>
FractionalTasks == <<"commit", "identity", "pass", "pass", "plan", "gate", "finish">>
ReserveTasks    == Rungs \o <<"pass">>

\* What is done at a position; what is given need not be done.
Task(p) ==
    LET task == IF Simple THEN SimpleTasks[p.step + 1]
                ELSE IF InReserves(p) THEN ReserveTasks[p.phase + 1]
                ELSE FractionalTasks[p.step + 1]
    IN  IF task \in {"commit", "identity"} /\ Given(Site(p)) THEN "pass" ELSE task

After(p) ==
    IF InReserves(p)
      THEN IF p.phase = 4 THEN [p EXCEPT !.reserve = @ + 1, !.phase = 0]
           ELSE [p EXCEPT !.phase = IF @ < 2 /\ Given(Site(p)) THEN 2 ELSE @ + 1]
      ELSE [p EXCEPT !.step = IF @ < 2 /\ Given(Token) THEN 2 ELSE @ + 1]

\* The currencies the identity of a fractional currency needs, and who pays.
Basket == {Native} \cup {plan.reserves[i] : i \in DOMAIN plan.reserves}

Source(c) == IF c # Native /\ plan.createReserves THEN "allocation" ELSE "primary"

\* How often the plan lists a reserve; nothing keeps a client from listing it twice.
Listed(name) == Cardinality({i \in DOMAIN plan.reserves : plan.reserves[i] = name})

\* Each entry gets an output of its own.
Outputs(c) == IF c = Native THEN 1 ELSE Listed(c)

-----------------------------------------------------------------------------
(* The API.                                                                *)

Enqueue ==
    /\ plan = <<>>
    /\ plan' \in Plans
    /\ row' = [AbsentRow EXCEPT !.status = "pending"]
    /\ UNCHANGED <<sweep, jobVars, faults, chainVars>>

\* A row the sweep has updated is locked until it commits.
Locked == sweep = "written" \/ (sweep = "begun" /\ draft.status = "pending")

DeleteRequest ==
    /\ row.status # "absent"
    /\ ~Locked
    /\ row' = AbsentRow
    /\ UNCHANGED <<plan, sweep, jobVars, faults, chainVars>>

-----------------------------------------------------------------------------
(* The worker: reading and writing the row.                                *)

Due == row.status \in Live /\ ~row.backoff

Select ==
    /\ sweep = "idle"
    /\ Due
    /\ sweep' = "selected"
    /\ draft' = row
    /\ UNCHANGED <<plan, row, toSend, newWaits, short, faults, chainVars>>

\* A sweep that finds nothing due.
EmptySweep ==
    /\ sweep = "idle"
    /\ ~Due
    /\ UNCHANGED vars

Clear == draft' = AbsentRow /\ toSend' = Nothing /\ newWaits' = {} /\ short' = FALSE

\* A pending row becomes in_progress and is read again.  If it is gone by then
\* the handler of the exception raises too, and the sweep ends without a commit.
Begin ==
    /\ sweep = "selected"
    /\ draft.status \in {"pending", "in_progress"}
    /\ IF draft.status = "pending" /\ row.status = "absent"
         THEN sweep' = "idle" /\ Clear
         ELSE sweep' = "begun" /\ UNCHANGED jobVars
    /\ UNCHANGED <<plan, row, faults, chainVars>>

\* The UPDATE that ends the step.
Write(r) ==
    /\ sweep' = "written"
    /\ draft' = r
    /\ toSend' = Nothing /\ newWaits' = {} /\ short' = FALSE
    /\ UNCHANGED <<plan, row>>

\* _save_currency_state
Saved(status, pos, wait) ==
    [draft EXCEPT !.status = status, !.pos = pos, !.wait = wait, !.attempts = 0, !.backoff = FALSE]

\* Mutant: one attempt too many.
RetryOnceMore ==
    IF draft.attempts + 1 > MaxRetries
      THEN [draft EXCEPT !.status = "failed", !.attempts = @ + 1, !.backoff = FALSE]
      ELSE [draft EXCEPT !.attempts = @ + 1, !.backoff = TRUE]

\* _record_currency_retry_or_failure, on the row as it was read.
RetryOrFailure ==
    IF draft.attempts + 1 >= MaxRetries
      THEN [draft EXCEPT !.status = "failed", !.attempts = @ + 1, !.backoff = FALSE]
      ELSE [draft EXCEPT !.attempts = @ + 1, !.backoff = TRUE]

\* PermanentCurrencyError
Abandoned == [draft EXCEPT !.status = "failed", !.attempts = @ + 1, !.backoff = FALSE]

\* The sweep's commit.  A row deleted meanwhile is not there to be updated.
Commit ==
    /\ sweep = "written"
    /\ row' = IF row.status = "absent" THEN row ELSE draft
    /\ sweep' = "idle"
    /\ Clear
    /\ UNCHANGED <<plan, faults, chainVars>>

Fault == faults < FaultBound /\ faults' = faults + 1

\* The sweep ends without its commit.
Abandon ==
    /\ sweep' = "idle"
    /\ Clear
    /\ UNCHANGED <<plan, row, chainVars>>

\* The worker dies, or another part of the sweep takes its transaction down.
Crash == sweep # "idle" /\ Fault /\ Abandon

\* A daemon call that has no effect raises: connection, query, refusal.
CallRaises ==
    /\ sweep \in {"selected", "begun", "planning"}
    /\ sweep = "begun" => Task(draft.pos) \notin {"pass", "finish"}
    /\ Write(RetryOrFailure)
    /\ UNCHANGED <<faults, chainVars>>

-----------------------------------------------------------------------------
(* The worker: waiting.                                                    *)

\* _opid_wait_state: an operation the daemon does not know counts as terminal.
OperationState(id) ==
    CASE id \in forgotten \/ txs[id].state = "failed" -> "terminal"
      [] id \notin forgotten /\ txs[id].state = "executing" -> "waiting"
      [] OTHER -> "resolved"

\* Mutant: a transaction counts as confirmed once the daemon knows it.
Seen(id) == txs[id].state \in {"mempool", "mined"}

Confirmed(id) == txs[id].state = "mined"

TxWait(id) == [type |-> "tx_confirm", id |-> id]
OpWait(id) == [type |-> "opid_txid", id |-> id]

PollConfirm ==
    /\ sweep = "selected" /\ draft.status = "waiting_confirm"
    /\ Write(IF Confirmed(draft.wait.id) THEN Saved("in_progress", draft.pos, NoWait) ELSE draft)
    /\ UNCHANGED <<faults, chainVars>>

PollOperation ==
    /\ sweep = "selected" /\ draft.status = "waiting_opid"
    /\ LET id == draft.wait.id IN
       Write(CASE OperationState(id) = "terminal" -> Abandoned
               [] OperationState(id) = "waiting"  -> draft
               [] OperationState(id) = "resolved" -> Saved("waiting_confirm", draft.pos, TxWait(id)))
    /\ UNCHANGED <<faults, chainVars>>

-----------------------------------------------------------------------------
(* The worker: the steps of the ladder.                                    *)

At(task) == sweep = "begun" /\ Task(draft.pos) = task

Pass ==
    /\ At("pass")
    /\ Write(Saved("in_progress", After(draft.pos), NoWait))
    /\ UNCHANGED <<faults, chainVars>>

Finish ==
    /\ At("finish")
    /\ Write(Saved("complete", draft.pos, NoWait))
    /\ UNCHANGED <<faults, chainVars>>

NextTx == Len(txs) + 1

\* The daemon takes a call.
Taken(kind, site, amount, state) ==
    /\ txs' = Append(txs, [kind |-> kind, site |-> site, amount |-> amount, state |-> state,
                           rnc |-> IF kind = "identity" THEN draft.rnc ELSE 0])
    /\ funds' = IF state = "failed" THEN funds ELSE [c \in Currencies |-> funds[c] - amount[c]]
    /\ UNCHANGED <<forgotten, balance, refills>>

Has(kind, site) == \E i \in DOMAIN txs : txs[i].kind = kind /\ txs[i].site = site

\* A name is registered once and a currency defined once.
Accepts(kind, site) == ~(kind = "identity" /\ Given(site)) /\ (kind = "commit" \/ ~Has(kind, site))

Advanced(wait) ==
    Saved(IF wait.type = "opid_txid" THEN "waiting_opid" ELSE "waiting_confirm", After(draft.pos), wait)

\* Mutant: the commitment kept first is never replaced.
SubmitStale(kind) ==
    /\ At(kind)
    /\ Accepts(kind, Site(draft.pos))
    /\ Taken(kind, Site(draft.pos), Nothing, "mempool")
    /\ \/ Write([Advanced(TxWait(NextTx)) EXCEPT !.rnc = IF kind = "commit" /\ @ = 0 THEN NextTx ELSE @])
          /\ UNCHANGED faults
       \/ Write(RetryOrFailure) /\ Fault

\* register_name_commitment, register_identity, define_simple_token_currency: the
\* answer is the txid, or it is lost.
Submit(kind) ==
    /\ At(kind)
    /\ Accepts(kind, Site(draft.pos))
    /\ Taken(kind, Site(draft.pos), Nothing, "mempool")
    /\ \/ Write([Advanced(TxWait(NextTx)) EXCEPT !.rnc = IF kind = "commit" THEN NextTx ELSE @])
          /\ UNCHANGED faults
       \/ Write(RetryOrFailure) /\ Fault

\* What a send is to be waited for: its txid, or its operation, which
\* _prefer_txid_wait looks up at once.
SendAnswers == {[state |-> "mempool", wait |-> TxWait(NextTx)],
                [state |-> "executing", wait |-> OpWait(NextTx)]}

Fund ==
    /\ At("fund")
    /\ \/ \E a \in SendAnswers :
             /\ Taken("fund", Site(draft.pos), Nothing, a.state)
             /\ \/ Write(Advanced(a.wait)) /\ UNCHANGED faults
                \/ Write(RetryOrFailure) /\ Fault
       \/ /\ Taken("fund", Site(draft.pos), Nothing, "failed")
          /\ Write(Abandoned)
          /\ UNCHANGED faults

-----------------------------------------------------------------------------
(* The worker: funding the identity of a fractional currency, and defining *)
(* the currency (steps 4 and 5).                                           *)

Resolved(w) == IF w.type = "opid_txid" THEN TxWait(w.id) ELSE w

\* The waits that stay: an operation that has its txid goes on as a tx_confirm.
Unresolved(waits) ==
    {w \in waits : w.type = "tx_confirm" /\ ~Confirmed(w.id)}
    \cup {w \in waits : w.type = "opid_txid" /\ OperationState(w.id) = "waiting"}
    \cup {Resolved(w) : w \in {v \in waits : v.type = "opid_txid" /\ OperationState(v.id) = "resolved"}}

Dead(waits) == \E w \in waits : w.type = "opid_txid" /\ OperationState(w.id) = "terminal"

ResolveWaits ==
    /\ At("plan") \/ At("gate")
    /\ \/ /\ Dead(draft.pending)
          /\ Write(Abandoned)
       \/ /\ ~Dead(draft.pending) /\ Unresolved(draft.pending) # {}
          /\ Write([Saved("in_progress", draft.pos, NoWait) EXCEPT !.pending = Unresolved(@)])
       \/ /\ ~Dead(draft.pending) /\ Unresolved(draft.pending) = {}
          /\ sweep' = "planning"
          /\ UNCHANGED <<plan, row, jobVars>>
    /\ UNCHANGED <<faults, chainVars>>

Lacks(c) == c \in Basket /\ balance[c] + Epsilon < Required[c]

Shortfall(c) == IF Lacks(c) THEN Required[c] - balance[c] ELSE 0

SourceShort(c) == funds[c] + Epsilon < Shortfall(c)

\* What its source can give, unless that is dust.
Affordable(c) ==
    LET amount == IF funds[c] < Shortfall(c) THEN funds[c] ELSE Shortfall(c)
    IN  IF amount > Epsilon THEN amount ELSE 0

\* From confirmed balances only, each source gives what it can, for each entry of the
\* plan as if it were the only one.
PlanFunding ==
    /\ sweep = "planning" /\ Task(draft.pos) = "plan"
    /\ toSend' = [c \in Currencies |-> Outputs(c) * Affordable(c)]
    /\ short' = (\E c \in Currencies : SourceShort(c))
    /\ sweep' = "sending"
    /\ UNCHANGED <<plan, row, draft, newWaits, faults, chainVars>>

\* What one send_currency call of this source carries.
Batch(source) == [c \in Currencies |-> IF Source(c) = source THEN toSend[c] ELSE 0]

ToPay == {s \in {"primary", "allocation"} : Batch(s) # Nothing}

\* One call per source, the primary address first.
Paying(source) ==
    /\ sweep = "sending"
    /\ source \in ToPay
    /\ "primary" \in ToPay => source = "primary"

\* Entries of one reserve together may ask for more than its source holds.
CanPay(source) == \A c \in Currencies : Batch(source)[c] <= funds[c]

\* An answer that is lost takes the waits of this step with it.  What the source cannot
\* pay fails at once.
SendTransfers(source) ==
    /\ Paying(source)
    /\ \/ \E a \in SendAnswers :
             /\ CanPay(source)
             /\ Taken("transfer", Token, Batch(source), a.state)
             /\ \/ /\ newWaits' = newWaits \cup {a.wait}
                   /\ toSend' = [c \in Currencies |-> toSend[c] - Batch(source)[c]]
                   /\ UNCHANGED <<plan, row, sweep, draft, short, faults>>
                \/ Write(RetryOrFailure) /\ Fault
       \/ /\ Taken("transfer", Token, Batch(source), "failed")
          /\ Write(Abandoned)
          /\ UNCHANGED faults

\* The daemon refuses.  If an earlier source has paid, its waits are lost as well.
SendRefused(source) ==
    /\ Paying(source)
    /\ Write(RetryOrFailure)
    /\ UNCHANGED <<faults, chainVars>>

\* Mutant: the transfers are not waited for.
SaveWithoutWaits ==
    /\ sweep = "sending"
    /\ ToPay = {}
    /\ Write([Saved("in_progress", [draft.pos EXCEPT !.step = IF short THEN 4 ELSE 5], NoWait)
                EXCEPT !.pending = {}])
    /\ UNCHANGED <<faults, chainVars>>

\* The new waits are appended to the list that was read.  If that list was not
\* empty, progress_json has been given another one by now.
SaveFunding ==
    /\ sweep = "sending"
    /\ ToPay = {}
    /\ Write([Saved("in_progress", [draft.pos EXCEPT !.step = IF short THEN 4 ELSE 5], NoWait)
                EXCEPT !.pending = IF @ = {} THEN newWaits ELSE {}])
    /\ UNCHANGED <<faults, chainVars>>

AtGate == sweep = "planning" /\ Task(draft.pos) = "gate"

\* Mutant: only the native balance is looked at.
NativeFunded == ~Lacks(Native)

Funded == \A c \in Basket : ~Lacks(c)

\* Mutant: the sanity mark is not kept.
HoldAgain ==
    /\ AtGate
    /\ ~(Funded /\ draft.sanity)
    /\ Write([Saved("in_progress", draft.pos, NoWait) EXCEPT !.pending = {}, !.sanity = FALSE])
    /\ UNCHANGED <<faults, chainVars>>

\* Step 5 stays until the balances are there, and then for one more sweep.
Hold ==
    /\ AtGate
    /\ ~(Funded /\ draft.sanity)
    /\ Write([Saved("in_progress", draft.pos, NoWait) EXCEPT !.pending = {}, !.sanity = @ \/ Funded])
    /\ UNCHANGED <<faults, chainVars>>

DefineBasket ==
    /\ AtGate
    /\ Funded /\ draft.sanity
    /\ Accepts("define", Token)
    /\ Taken("define", Token, Nothing, "mempool")
    /\ \/ Write([Advanced(TxWait(NextTx)) EXCEPT !.pending = {}, !.sanity = FALSE]) /\ UNCHANGED faults
       \/ Write(RetryOrFailure) /\ Fault

-----------------------------------------------------------------------------
(* The daemon and the chain.                                               *)

Move(i, state) == txs' = [txs EXCEPT ![i].state = state]

OperationSucceeds(i) ==
    /\ txs[i].state = "executing"
    /\ Move(i, "mempool")
    /\ UNCHANGED <<plan, row, sweep, jobVars, faults, forgotten, funds, balance, refills>>

OperationFails(i) ==
    /\ txs[i].state = "executing"
    /\ Move(i, "failed")
    /\ funds' = [c \in Currencies |-> funds[c] + txs[i].amount[c]]
    /\ UNCHANGED <<plan, row, sweep, jobVars, faults, forgotten, balance, refills>>

\* A restarted daemon has no memory of its operations.
OperationForgotten(i) ==
    /\ i \notin forgotten
    /\ txs[i].kind \in {"fund", "transfer"}
    /\ Fault
    /\ forgotten' = forgotten \cup {i}
    /\ UNCHANGED <<plan, row, sweep, jobVars, txs, funds, balance, refills>>

Mine(i) ==
    /\ txs[i].state = "mempool"
    /\ Move(i, "mined")
    /\ balance' = [c \in Currencies |-> balance[c] + txs[i].amount[c]]
    /\ UNCHANGED <<plan, row, sweep, jobVars, faults, forgotten, funds, refills>>

Refill(c) ==
    /\ refills[c] < RefillBound[c]
    /\ refills' = [refills EXCEPT ![c] = @ + 1]
    /\ funds' = [funds EXCEPT ![c] = @ + 1]
    /\ UNCHANGED <<plan, row, sweep, jobVars, faults, txs, forgotten, balance>>

BackoffElapses ==
    /\ row.backoff
    /\ row' = [row EXCEPT !.backoff = FALSE]
    /\ UNCHANGED <<plan, sweep, jobVars, faults, chainVars>>

-----------------------------------------------------------------------------

Sweep ==
    \/ Select \/ EmptySweep \/ Begin \/ CallRaises \/ Commit
    \/ PollConfirm \/ PollOperation
    \/ Pass \/ Finish \/ Fund
    \/ \E kind \in {"commit", "identity", "define"} : Submit(kind)
    \/ ResolveWaits \/ PlanFunding \/ SaveFunding
    \/ \E source \in {"primary", "allocation"} : SendTransfers(source) \/ SendRefused(source)
    \/ Hold \/ DefineBasket

Operations == \E i \in DOMAIN txs : OperationSucceeds(i) \/ OperationFails(i)

Mining == \E i \in DOMAIN txs : Mine(i)

Next ==
    \/ Enqueue \/ DeleteRequest
    \/ Sweep \/ Crash \/ BackoffElapses
    \/ Operations \/ Mining
    \/ \E i \in DOMAIN txs : OperationForgotten(i)
    \/ \E c \in Currencies : Refill(c)

Spec == Init /\ [][Next]_vars

\* The worker loop runs for ever.
WorkerFairness == WF_vars(Sweep)

\* Retry times pass, operations end, what was broadcast is mined, and the sources
\* are topped up.
WorldFairness ==
    /\ WF_vars(BackoffElapses)
    /\ WF_vars(Operations) /\ WF_vars(Mining)
    /\ \A c \in Currencies : WF_vars(Refill(c))

Fairness == WorkerFairness /\ WorldFairness

FairSpec == Spec /\ Fairness

-----------------------------------------------------------------------------
(* Properties.                                                             *)

TypeOK ==
    /\ plan \in Plans \cup {<<>>}
    /\ \A r \in {row, draft} :
          /\ r \in Row
          /\ r.attempts <= MaxRetries
          /\ r.rnc <= Len(txs)
          /\ \A w \in r.pending \cup {r.wait} : w.id <= Len(txs)
    /\ sweep \in {"idle", "selected", "begun", "planning", "sending", "written"}
    /\ toSend \in [Currencies -> Nat] /\ newWaits \subseteq Wait /\ short \in BOOLEAN
    /\ faults \in 0 .. FaultBound
    /\ txs \in Seq(Tx)
    /\ forgotten \subseteq DOMAIN txs
    /\ funds \in [Currencies -> Nat] /\ balance \in [Currencies -> Nat]
    /\ refills \in [Currencies -> Nat]
    /\ \A c \in Currencies : refills[c] <= RefillBound[c]

Mined(kind, site) ==
    \E i \in DOMAIN txs : txs[i].kind = kind /\ txs[i].site = site /\ txs[i].state = "mined"

\* An identity is registered on a confirmed commitment for its own name, although
\* one row keeps the commitments of one name after the other and retries resend them.
IdentityOnItsCommitment ==
    \A i \in DOMAIN txs : txs[i].kind = "identity" =>
        LET c == txs[i].rnc IN
        c \in DOMAIN txs /\ txs[c].kind = "commit" /\ txs[c].site = txs[i].site
                         /\ txs[c].state = "mined"

\* The reserves of a plan that creates them.
Created == IF Simple \/ ~CreatesReserves THEN {}
           ELSE {plan.reserves[i] : i \in DOMAIN plan.reserves}

\* A currency is defined on an identity that exists and has been paid for; a
\* fractional one only over reserves that exist, with all its balances there.
DefineLast ==
    \A i \in DOMAIN txs : txs[i].kind = "define" =>
        LET site == txs[i].site IN
        /\ Given(site) \/ Mined("identity", site)
        /\ (site \in Created \/ Simple) => Mined("fund", site)
        /\ (site = Token /\ ~Simple) =>
              /\ \A c \in Basket : balance[c] + Epsilon >= Required[c]
              /\ \A r \in Created : Mined("define", r)

\* A request is only complete when its currency is defined in the chain.
CompleteIsDefined ==
    row.status = "complete" => Mined("define", Token)

\* What the daemon took of a kind for a name, failed or not; of transfers, those with
\* some of a currency.
Paid(kind, site, c) ==
    {i \in DOMAIN txs : /\ txs[i].kind = kind /\ txs[i].site = site
                        /\ kind = "transfer" => txs[i].amount[c] > 0}

\* How often a commitment and a funding are due for a name.
Places(name) == IF name = Token THEN 1 ELSE Listed(name)

\* The source has what all attempts to fund a basket may take from it.
Enough(c) == InitialFunds[c] >= Outputs(c) * Required[c] * (MaxRetries + FaultBound)

\* The sends to a basket that go without saying: the one of each currency; but a
\* source that has paid does so again in each attempt in which a later source refuses,
\* and only the native one has another after it.
Attempts(c) == IF c = Native /\ CreatesReserves THEN MaxRetries ELSE 1

\* Nothing is bought again but for a reason: commitments and define funding are sent
\* once for each place of a name in the plan, and once more per lost answer or death
\* at most; and so is its share of a basket by a source that has enough for all
\* attempts, whatever other sources lack, and whatever waits get lost.
PaidOnce ==
    plan # <<>> =>
        /\ \A name \in {Token} \cup ReserveNames : \A kind \in {"commit", "fund"} :
               Cardinality(Paid(kind, name, Native)) <= Places(name) + faults
        /\ \A c \in Currencies : Enough(c) =>
               Cardinality(Paid("transfer", Token, c)) <= Attempts(c) + faults

\* tests/test_currency_worker.py:1328: "flow can continue toward define without
\* duplicate funding sends".  With no death and no lost answer, a source that has
\* enough sends its share of a basket once.
NoDuplicateSends ==
    plan # <<>> /\ faults = 0 => \A c \in Currencies :
        Enough(c) => Cardinality(Paid("transfer", Token, c)) <= 1

\* Step 5 waits for a balance that nothing under way will bring: a source that does not
\* have enough for all attempts could not pay all of it once, and what it has sent since
\* was not waited for.
Starved ==
    /\ ~Simple /\ row.pos.step = 5
    /\ \E c \in Basket : ~Enough(c) /\ Lacks(c)
    /\ \A i \in DOMAIN txs : txs[i].kind = "transfer" => txs[i].state \in {"mined", "failed"}

\* A request leaves the worker's hands, whatever raises, is lost or fails; but for
\* one place where it may stay for ever, the gate, and one reason, a source that
\* was short.
EveryRequestEnds == (row.status \in Live) ~> (row.status \notin Live \/ Starved)

\* CURRENCY_WORKFLOW_STATE_MACHINE.md: "pending_funding_waits checked before any
\* new send", "unresolved waits block new funding plan/sends".  No transfer is sent
\* while one of an earlier sweep is still unconfirmed.
WaitsBlockSends ==
    [][\A source \in {"primary", "allocation"} :
          SendTransfers(source) /\ newWaits = {} =>
              \A i \in DOMAIN txs : txs[i].kind = "transfer" => txs[i].state \in {"mined", "failed"}]_vars

=============================================================================
