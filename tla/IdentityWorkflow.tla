-------------------------- MODULE IdentityWorkflow --------------------------
(***************************************************************************)
(* Registration of identities: the API handlers that write the             *)
(* registrations table (id_functions.register_identity, the webhook        *)
(* requeue, the delete) and the worker's identity sweep                    *)
(* (worker_id_creation.process_identity_once), over PostgreSQL.            *)
(*                                                                         *)
(* A sweep takes four snapshots of the table, one SELECT per list, and     *)
(* then handles the listed rows one after the other.  All its UPDATEs are  *)
(* one transaction that commits after the last row: until then nobody else *)
(* sees them, and the rows they touch stay locked.  "reg" is the committed *)
(* table, "draft" the table with the uncommitted UPDATEs applied, and      *)
(* "holder" names the sweep that has a row locked.                         *)
(*                                                                         *)
(* The chain (a name commitment per request, at most one identity per      *)
(* name) and the webhook receiver are external.                            *)
(***************************************************************************)
EXTENDS Naturals, FiniteSets

CONSTANTS
    Requests,           \* calls of POST /api/register
    Names,              \* fully qualified identity names
    NameOf,             \* the name each request asks for
    Hooked,             \* the requests that carry a webhook_url
    Broken,             \* ready rows whose fee or daemon lookup always raises
    Workers,            \* worker processes that may be running at a time
    NoWorker,
    NoRequest,
    NoItem,
    MaxRetries,         \* WORKER_MAX_RETRIES
    WebhookMaxRetries,  \* WEBHOOK_MAX_RETRIES
    MaxFeeBumps,        \* IDR_FEE_BUMP_MAX_INCREASES
    FaultBound,         \* bound: sweeps killed or aborted by a passing fault
    RequeueBound,       \* bound: accepted calls of the webhook requeue
    RefusalBound        \* bound: webhook_attempts past which the receiver accepts

Live == {"pending_rnc_confirm", "ready_for_idr", "idr_submitted"}

Terminal == {"complete", "failed"}

\* "absent": there is no such row.
Statuses == {"absent"} \cup Live \cup Terminal

\* A row of the registrations table.  next_retry_at and webhook_next_retry_at
\* are kept as "still in the future?".
Row == [status         : Statuses,
        attempts       : Nat,
        backoff        : BOOLEAN,
        idr_txid       : BOOLEAN,
        delivered      : BOOLEAN,
        webhookAttempts: Nat,
        webhookBackoff : BOOLEAN]

\* What a sweep remembers of a row: the columns its SELECT read.
Item == [id : Requests, status : Live \cup Terminal, attempts : Nat]

Phases == {"idle", "ready", "pending", "submitted", "webhook", "work"}

\* The answer to the remote call made for the row at hand.
Answers == {"none", "confirmed", "accepted", "exists", "insufficient", "ok", "error"}

ASSUME ConstantsAssumption ==
    /\ NameOf \in [Requests -> Names]
    /\ Hooked \subseteq Requests
    /\ Broken \subseteq Requests
    /\ NoWorker \notin Workers
    /\ NoRequest \notin Requests
    /\ NoItem \notin Item
    /\ MaxRetries \in Nat \ {0}
    /\ WebhookMaxRetries \in Nat \ {0}
    /\ MaxFeeBumps \in Nat
    /\ FaultBound \in Nat
    /\ RequeueBound \in Nat
    /\ RefusalBound \in Nat

VARIABLES
    \* the database
    reg,        \* committed rows of registrations
    draft,      \* rows as the transaction in progress sees them
    holder,     \* which sweep has the row locked
    \* the API
    post,       \* where the handler of POST /api/register is
    requeue,    \* requests whose requeue handler has passed its checks
    requeued,   \* how many requeues were accepted
    \* the worker processes
    phase,      \* the SELECT to run next, or "work"
    todo,       \* snapshots of the rows still to handle
    doing,      \* the snapshot at hand
    answer,     \* the answer its remote call got
    bumps,      \* fee bumps used in the register_identity loop
    faults,     \* how many passing faults happened
    \* the outside world
    rncTx,      \* each request's name commitment transaction
    owner,      \* the request whose register_identity took the name
    inChain,    \* names whose identity transaction is confirmed
    received,   \* statuses the webhook receiver was told, per request
    acked       \* those it answered with success

dbVars     == <<reg, draft, holder>>
apiVars    == <<post, requeue, requeued>>
rowVars    == <<doing, answer, bumps>>
sweepVars  == <<phase, todo, doing, answer, bumps>>
chainVars  == <<rncTx, owner, inChain>>
hookVars   == <<received, acked>>
vars == <<dbVars, apiVars, sweepVars, faults, chainVars, hookVars>>

AbsentRow == [status |-> "absent", attempts |-> 0, backoff |-> FALSE, idr_txid |-> FALSE,
              delivered |-> FALSE, webhookAttempts |-> 0, webhookBackoff |-> FALSE]

Init ==
    /\ reg      = [r \in Requests |-> AbsentRow]
    /\ draft    = reg
    /\ holder   = [r \in Requests |-> NoWorker]
    /\ post     = [r \in Requests |-> "new"]
    /\ requeue  = {}
    /\ requeued = 0
    /\ phase    = [w \in Workers |-> "idle"]
    /\ todo     = [w \in Workers |-> {}]
    /\ doing    = [w \in Workers |-> NoItem]
    /\ answer   = [w \in Workers |-> "none"]
    /\ bumps    = [w \in Workers |-> 0]
    /\ faults   = 0
    /\ rncTx    = [r \in Requests |-> "none"]
    /\ owner    = [n \in Names |-> NoRequest]
    /\ inChain  = {}
    /\ received = [r \in Requests |-> {}]
    /\ acked    = [r \in Requests |-> {}]

-----------------------------------------------------------------------------
(* The API.                                                                *)

Exists(r) == reg[r].status # "absent"

\* A statement of the API runs and commits at once, once the row is unlocked.
ApiWrite(r, row) ==
    /\ holder[r] = NoWorker
    /\ reg' = [reg EXCEPT ![r] = row]
    /\ draft' = [draft EXCEPT ![r] = row]
    /\ UNCHANGED holder

\* get_identity must say that the name does not exist; every other answer, and
\* a configuration gate, refuses the request.
Precheck(r) ==
    /\ post[r] = "new"
    /\ \/ NameOf[r] \notin inChain /\ post' = [post EXCEPT ![r] = "checked"]
       \/ post' = [post EXCEPT ![r] = "refused"]
    /\ UNCHANGED <<dbVars, requeue, requeued, sweepVars, faults, chainVars, hookVars>>

\* register_name_commitment broadcasts; when its answer is lost or malformed the
\* handler fails and the commitment is orphaned.
Commitment(r) ==
    /\ post[r] = "checked"
    /\ \/ /\ rncTx' = [rncTx EXCEPT ![r] = "mempool"]
          /\ \E next \in {"committed", "refused"} : post' = [post EXCEPT ![r] = next]
       \/ post' = [post EXCEPT ![r] = "refused"] /\ UNCHANGED rncTx
    /\ UNCHANGED <<dbVars, requeue, requeued, sweepVars, faults, owner, inChain, hookVars>>

\* The row is inserted only after the commitment is on its way.
InsertRegistration(r) ==
    /\ post[r] = "committed"
    /\ ApiWrite(r, [AbsentRow EXCEPT !.status = "pending_rnc_confirm"])
    /\ post' = [post EXCEPT ![r] = "stored"]
    /\ UNCHANGED <<requeue, requeued, sweepVars, faults, chainVars, hookVars>>

\* The API process dies, or the INSERT fails, with the commitment broadcast.
InsertLost(r) ==
    /\ post[r] = "committed"
    /\ post' = [post EXCEPT ![r] = "refused"]
    /\ UNCHANGED <<dbVars, requeue, requeued, sweepVars, faults, chainVars, hookVars>>

\* DELETE /api/registration/{id}
DeleteRegistration(r) ==
    /\ Exists(r)
    /\ ApiWrite(r, AbsentRow)
    /\ UNCHANGED <<apiVars, sweepVars, faults, chainVars, hookVars>>

\* POST /api/webhook/requeue/{id}: the SELECT and the checks ...
RequeueCheck(r) ==
    /\ r \notin requeue
    /\ requeued < RequeueBound
    /\ reg[r].status \in Terminal
    /\ r \in Hooked
    /\ requeue' = requeue \cup {r}
    /\ requeued' = requeued + 1
    /\ UNCHANGED <<dbVars, post, sweepVars, faults, chainVars, hookVars>>

\* Mutant: requeueing the webhook starts the registration again as well.
RequeueRevives(r) ==
    /\ r \in requeue
    /\ requeue' = requeue \ {r}
    /\ \/ ~Exists(r) /\ UNCHANGED dbVars
       \/ Exists(r) /\ ApiWrite(r, [reg[r] EXCEPT !.status = "ready_for_idr",
                                                  !.attempts = 0,
                                                  !.delivered = FALSE,
                                                  !.webhookAttempts = 0,
                                                  !.webhookBackoff = FALSE])
    /\ UNCHANGED <<post, requeued, sweepVars, faults, chainVars, hookVars>>

\* ... and the UPDATE, which matches nothing when the row is gone by then.
RequeueReset(r) ==
    /\ r \in requeue
    /\ requeue' = requeue \ {r}
    /\ \/ ~Exists(r) /\ UNCHANGED dbVars
       \/ Exists(r) /\ ApiWrite(r, [reg[r] EXCEPT !.delivered = FALSE,
                                                  !.webhookAttempts = 0,
                                                  !.webhookBackoff = FALSE])
    /\ UNCHANGED <<post, requeued, sweepVars, faults, chainVars, hookVars>>

-----------------------------------------------------------------------------
(* The worker: starting a sweep and reading the table.                     *)

Snapshot(r, attempts) == [id |-> r, status |-> reg[r].status, attempts |-> attempts]

\* Mutant: rows with their last attempt left are not selected any more.
DueBeforeLast(status) ==
    {Snapshot(r, reg[r].attempts) :
        r \in {q \in Requests : /\ reg[q].status = status /\ ~reg[q].backoff
                                /\ reg[q].attempts + 1 < MaxRetries}}

DueWith(status) ==
    {Snapshot(r, reg[r].attempts) :
        r \in {q \in Requests : reg[q].status = status /\ ~reg[q].backoff}}

\* Mutant: only complete rows are reported.
DueCompleted ==
    {Snapshot(r, reg[r].webhookAttempts) :
        r \in {q \in Hooked : /\ reg[q].status = "complete"
                              /\ ~reg[q].delivered
                              /\ ~reg[q].webhookBackoff}}

DueWebhooks ==
    {Snapshot(r, reg[r].webhookAttempts) :
        r \in {q \in Hooked : /\ reg[q].status \in Terminal
                              /\ ~reg[q].delivered
                              /\ ~reg[q].webhookBackoff}}

\* The four SELECTs, in the order process_identity_once runs them.
Select(w, from, to, rows) ==
    /\ phase[w] = from
    /\ phase' = [phase EXCEPT ![w] = to]
    /\ todo' = [todo EXCEPT ![w] = @ \cup rows]
    /\ UNCHANGED <<dbVars, apiVars, rowVars, faults, chainVars, hookVars>>

StartSweep(w)      == Select(w, "idle", "ready", {})
SelectReady(w)     == Select(w, "ready", "pending", DueWith("ready_for_idr"))
SelectPending(w)   == Select(w, "pending", "submitted", DueWith("pending_rnc_confirm"))
SelectSubmitted(w) == Select(w, "submitted", "webhook", DueWith("idr_submitted"))
SelectWebhooks(w)  == Select(w, "webhook", "work", DueWebhooks)

\* The lists are handled one after the other; within a list in any order.
Rank == [s \in Live \cup Terminal |->
            CASE s = "pending_rnc_confirm" -> 1
              [] s = "ready_for_idr"       -> 2
              [] s = "idr_submitted"       -> 3
              [] s \in Terminal            -> 4]

IsNext(w, item) ==
    /\ phase[w] = "work"
    /\ item \in todo[w]
    /\ doing[w] = NoItem
    /\ \A other \in todo[w] : Rank[item.status] <= Rank[other.status]

-----------------------------------------------------------------------------
(* The worker: the remote call made for a row.                             *)

Answered(w, item, a) ==
    /\ doing' = [doing EXCEPT ![w] = item]
    /\ answer' = [answer EXCEPT ![w] = a]

\* Mutants: a commitment, or an identity, counts as confirmed once broadcast.
CommitmentSeen(item) ==
    IF item.status = "pending_rnc_confirm"
      THEN rncTx[item.id] # "none"
      ELSE owner[NameOf[item.id]] = item.id /\ NameOf[item.id] \in inChain

IdentitySeen(item) ==
    IF item.status = "pending_rnc_confirm"
      THEN rncTx[item.id] = "confirmed"
      ELSE owner[NameOf[item.id]] = item.id

\* A registration that waits for a transaction: the commitment first, then the
\* identity.  confirmations = 0 leaves the row as it is.
TxConfirmed(item) ==
    IF item.status = "pending_rnc_confirm"
      THEN rncTx[item.id] = "confirmed"
      ELSE owner[NameOf[item.id]] = item.id /\ NameOf[item.id] \in inChain

\* Mutant: a poll without a confirmation clears the errors counted so far.
AskClears(w, item) ==
    /\ IsNext(w, item)
    /\ item.status \in {"pending_rnc_confirm", "idr_submitted"}
    /\ \/ TxConfirmed(item) /\ Answered(w, item, "confirmed") /\ UNCHANGED <<todo, dbVars>>
       \/ Answered(w, item, "error") /\ UNCHANGED <<todo, dbVars>>
       \/ /\ ~TxConfirmed(item)
          /\ todo' = [todo EXCEPT ![w] = @ \ {item}]
          /\ holder[item.id] = NoWorker /\ Exists(item.id)
          /\ draft' = [draft EXCEPT ![item.id].attempts = 0]
          /\ holder' = [holder EXCEPT ![item.id] = w]
          /\ UNCHANGED <<reg, doing, answer>>
    /\ UNCHANGED <<apiVars, phase, bumps, faults, chainVars, hookVars>>

AskConfirmations(w, item) ==
    /\ IsNext(w, item)
    /\ item.status \in {"pending_rnc_confirm", "idr_submitted"}
    /\ \/ TxConfirmed(item) /\ Answered(w, item, "confirmed") /\ UNCHANGED todo
       \/ Answered(w, item, "error") /\ UNCHANGED todo
       \/ /\ ~TxConfirmed(item)
          /\ todo' = [todo EXCEPT ![w] = @ \ {item}]
          /\ UNCHANGED <<doing, answer>>
    /\ UNCHANGED <<dbVars, apiVars, phase, bumps, faults, chainVars, hookVars>>

\* Registering is next for this row, or its fee has just been raised.
MayRegister(w, item) ==
    /\ item.status = "ready_for_idr"
    /\ \/ IsNext(w, item) /\ item.id \notin Broken
       \/ doing[w] = item /\ answer[w] = "insufficient"

\* The daemon takes the identity transaction; its answer may get lost.
RegisterAccepted(w, item) ==
    /\ MayRegister(w, item)
    /\ owner[NameOf[item.id]] = NoRequest
    /\ owner' = [owner EXCEPT ![NameOf[item.id]] = item.id]
    /\ \E a \in {"accepted", "error"} : Answered(w, item, a)
    /\ UNCHANGED <<dbVars, apiVars, phase, todo, bumps, faults, rncTx, inChain, hookVars>>

\* The daemon refuses: the name is taken, or any other error.
RegisterRefused(w, item) ==
    /\ MayRegister(w, item)
    /\ \/ NameOf[item.id] \in inChain /\ Answered(w, item, "exists")
       \/ Answered(w, item, "error")
    /\ UNCHANGED <<dbVars, apiVars, phase, todo, bumps, faults, chainVars, hookVars>>

\* Not enough for the fee: offer more and call again, until the bumps run out.
RegisterInsufficient(w, item) ==
    /\ MayRegister(w, item)
    /\ \/ /\ bumps[w] < MaxFeeBumps
          /\ bumps' = [bumps EXCEPT ![w] = @ + 1]
          /\ Answered(w, item, "insufficient")
       \/ /\ bumps[w] >= MaxFeeBumps
          /\ Answered(w, item, "error")
          /\ UNCHANGED bumps
    /\ UNCHANGED <<dbVars, apiVars, phase, todo, faults, chainVars, hookVars>>

\* The webhook is posted with the status of the snapshot.  A receiver may act on
\* the call and still answer with an error or a timeout.
PostAccepted(w, item) ==
    /\ IsNext(w, item)
    /\ item.status \in Terminal
    /\ received' = [received EXCEPT ![item.id] = @ \cup {item.status}]
    /\ \/ Answered(w, item, "ok") /\ acked' = [acked EXCEPT ![item.id] = @ \cup {item.status}]
       \/ item.attempts < RefusalBound /\ Answered(w, item, "error") /\ UNCHANGED acked
    /\ UNCHANGED <<dbVars, apiVars, phase, todo, bumps, faults, chainVars>>

PostRefused(w, item) ==
    /\ IsNext(w, item)
    /\ item.status \in Terminal
    /\ item.attempts < RefusalBound
    /\ Answered(w, item, "error")
    /\ UNCHANGED <<dbVars, apiVars, phase, todo, bumps, faults, chainVars, hookVars>>

-----------------------------------------------------------------------------
(* The worker: the UPDATE that records the answer.                         *)

\* Mutant: an INSERT ... ON CONFLICT UPDATE instead of an UPDATE.
WorkerUpsert(w, r, row) ==
    /\ holder[r] \in {w, NoWorker}
    /\ draft' = [draft EXCEPT ![r] = row]
    /\ holder' = [holder EXCEPT ![r] = w]
    /\ UNCHANGED reg

\* An UPDATE waits for the row's lock and keeps it; it creates no row.
WorkerWrite(w, r, row) ==
    /\ holder[r] \in {w, NoWorker}
    /\ IF draft[r].status = "absent"
         THEN UNCHANGED dbVars
         ELSE /\ draft' = [draft EXCEPT ![r] = row]
              /\ holder' = [holder EXCEPT ![r] = w]
              /\ UNCHANGED reg

RowDone(w) ==
    /\ todo' = [todo EXCEPT ![w] = @ \ {doing[w]}]
    /\ doing' = [doing EXCEPT ![w] = NoItem]
    /\ answer' = [answer EXCEPT ![w] = "none"]
    /\ bumps' = [bumps EXCEPT ![w] = 0]

Promoted(row, status) ==
    [row EXCEPT !.status = status, !.attempts = 0, !.backoff = FALSE]

\* Mutants: one attempt too many, and a status nobody selects.
RetryOnceMore(row, attempts, status) ==
    IF attempts + 1 > MaxRetries
      THEN [row EXCEPT !.status = "failed", !.attempts = attempts + 1, !.backoff = FALSE]
      ELSE [row EXCEPT !.status = status, !.attempts = attempts + 1, !.backoff = TRUE]

RetryElsewhere(row, attempts, status) ==
    IF attempts + 1 >= MaxRetries
      THEN [row EXCEPT !.status = "error", !.attempts = attempts + 1, !.backoff = FALSE]
      ELSE [row EXCEPT !.status = status, !.attempts = attempts + 1, !.backoff = TRUE]

\* _record_retry_or_failure: it counts from the attempts of the snapshot.
RetryOrFailure(row, attempts, status) ==
    IF attempts + 1 >= MaxRetries
      THEN [row EXCEPT !.status = "failed", !.attempts = attempts + 1, !.backoff = FALSE]
      ELSE [row EXCEPT !.status = status, !.attempts = attempts + 1, !.backoff = TRUE]

\* Mutant: the last attempt marks the webhook as delivered.
WebhookGivesUp(row, attempts) ==
    [row EXCEPT !.webhookAttempts = attempts + 1,
                !.delivered = attempts + 1 >= WebhookMaxRetries,
                !.webhookBackoff = attempts + 1 < WebhookMaxRetries]

\* _record_webhook_retry_or_failure: the last attempt sets no retry time.
WebhookRetryOrFailure(row, attempts) ==
    [row EXCEPT !.webhookAttempts = attempts + 1,
                !.webhookBackoff = attempts + 1 < WebhookMaxRetries]

\* Mutant: "identity already exists" is taken for a submitted transaction.
RecordedAsOwn(row, item, a) ==
    CASE a = "confirmed" /\ item.status = "pending_rnc_confirm" -> Promoted(row, "ready_for_idr")
      [] a = "confirmed" /\ item.status = "idr_submitted"       -> Promoted(row, "complete")
      [] a \in {"accepted", "exists"} -> [Promoted(row, "idr_submitted") EXCEPT !.idr_txid = TRUE]
      [] a = "ok"       -> [row EXCEPT !.delivered = TRUE, !.webhookAttempts = @ + 1,
                                       !.webhookBackoff = FALSE]
      [] a = "error" /\ item.status \in Live     -> RetryOrFailure(row, item.attempts, item.status)
      [] a = "error" /\ item.status \in Terminal -> WebhookRetryOrFailure(row, item.attempts)

\* The new row for each answer.
Recorded(row, item, a) ==
    CASE a = "confirmed" /\ item.status = "pending_rnc_confirm" -> Promoted(row, "ready_for_idr")
      [] a = "confirmed" /\ item.status = "idr_submitted"       -> Promoted(row, "complete")
      [] a = "accepted" -> [Promoted(row, "idr_submitted") EXCEPT !.idr_txid = TRUE]
      [] a = "exists"   -> Promoted(row, "complete")
      [] a = "ok"       -> [row EXCEPT !.delivered = TRUE, !.webhookAttempts = @ + 1,
                                       !.webhookBackoff = FALSE]
      [] a = "error" /\ item.status \in Live     -> RetryOrFailure(row, item.attempts, item.status)
      [] a = "error" /\ item.status \in Terminal -> WebhookRetryOrFailure(row, item.attempts)

Record(w) ==
    /\ doing[w] # NoItem
    /\ answer[w] # "insufficient"
    /\ WorkerWrite(w, doing[w].id, Recorded(draft[doing[w].id], doing[w], answer[w]))
    /\ RowDone(w)
    /\ UNCHANGED <<apiVars, phase, faults, chainVars, hookVars>>

-----------------------------------------------------------------------------
(* The worker: the end of a sweep.                                         *)

EndSweep(w) ==
    /\ phase' = [phase EXCEPT ![w] = "idle"]
    /\ todo' = [todo EXCEPT ![w] = {}]
    /\ doing' = [doing EXCEPT ![w] = NoItem]
    /\ answer' = [answer EXCEPT ![w] = "none"]
    /\ bumps' = [bumps EXCEPT ![w] = 0]
    /\ holder' = [r \in Requests |-> IF holder[r] = w THEN NoWorker ELSE holder[r]]
    /\ UNCHANGED <<apiVars, chainVars, hookVars>>

\* The one commit, after the last row of the last list.
Commit(w) ==
    /\ phase[w] = "work"
    /\ todo[w] = {}
    /\ reg' = [r \in Requests |-> IF holder[r] = w THEN draft[r] ELSE reg[r]]
    /\ EndSweep(w)
    /\ UNCHANGED <<draft, faults>>

\* Mutant: what the aborted sweep wrote stays in sight.
RollbackKeeps(w) ==
    /\ EndSweep(w)
    /\ UNCHANGED <<draft, reg>>

\* An exception that leaves process_identity_once, or the death of the process,
\* loses every UPDATE of the sweep; what was sent stays sent.
Rollback(w) ==
    /\ draft' = [r \in Requests |-> IF holder[r] = w THEN reg[r] ELSE draft[r]]
    /\ EndSweep(w)
    /\ UNCHANGED reg

Crash(w) ==
    /\ phase[w] # "idle"
    /\ faults < FaultBound
    /\ faults' = faults + 1
    /\ Rollback(w)

\* The lookups before the try block of a ready row (daemon, payload, fee offer)
\* raise: always for a broken row, now and then for the others.
PreambleRaises(w, item) ==
    /\ IsNext(w, item)
    /\ item.status = "ready_for_idr"
    /\ \/ item.id \in Broken /\ UNCHANGED faults
       \/ item.id \notin Broken /\ faults < FaultBound /\ faults' = faults + 1
    /\ Rollback(w)

\* Two sweeps each wait for a row the other has locked: PostgreSQL aborts one.
WaitsFor(w, v) == v # w /\ doing[w] # NoItem /\ answer[w] # "insufficient" /\ holder[doing[w].id] = v

DeadlockVictim(w) ==
    /\ \E cycle \in SUBSET Workers :
          /\ w \in cycle
          /\ \A v \in cycle : \E u \in cycle : WaitsFor(v, u)
    /\ Rollback(w)
    /\ UNCHANGED faults

-----------------------------------------------------------------------------
(* The outside world: time, the chain.                                     *)

BackoffElapses(r) ==
    /\ reg[r].backoff \/ draft[r].backoff
    /\ reg' = [reg EXCEPT ![r].backoff = FALSE]
    /\ draft' = [draft EXCEPT ![r].backoff = FALSE]
    /\ UNCHANGED <<holder, apiVars, sweepVars, faults, chainVars, hookVars>>

WebhookBackoffElapses(r) ==
    /\ reg[r].webhookBackoff \/ draft[r].webhookBackoff
    /\ reg' = [reg EXCEPT ![r].webhookBackoff = FALSE]
    /\ draft' = [draft EXCEPT ![r].webhookBackoff = FALSE]
    /\ UNCHANGED <<holder, apiVars, sweepVars, faults, chainVars, hookVars>>

CommitmentConfirms(r) ==
    /\ rncTx[r] = "mempool"
    /\ rncTx' = [rncTx EXCEPT ![r] = "confirmed"]
    /\ UNCHANGED <<dbVars, apiVars, sweepVars, faults, owner, inChain, hookVars>>

IdentityConfirms(n) ==
    /\ owner[n] # NoRequest
    /\ n \notin inChain
    /\ inChain' = inChain \cup {n}
    /\ UNCHANGED <<dbVars, apiVars, sweepVars, faults, rncTx, owner, hookVars>>

-----------------------------------------------------------------------------

Api(r) ==
    \/ Precheck(r) \/ Commitment(r) \/ InsertRegistration(r) \/ InsertLost(r)
    \/ DeleteRegistration(r) \/ RequeueCheck(r) \/ RequeueReset(r)

Read(w) == StartSweep(w) \/ SelectReady(w) \/ SelectPending(w) \/ SelectSubmitted(w) \/ SelectWebhooks(w)

\* The remote call for one row of the snapshot.
Call(w, item) ==
    \/ AskConfirmations(w, item)
    \/ RegisterAccepted(w, item) \/ RegisterRefused(w, item) \/ RegisterInsufficient(w, item)
    \/ PostAccepted(w, item) \/ PostRefused(w, item)

Sweep(w) ==
    \/ Read(w)
    \/ \E item \in todo[w] : Call(w, item)
    \/ Record(w)
    \/ Commit(w)

Fault(w) ==
    \/ Crash(w)
    \/ \E item \in todo[w] : PreambleRaises(w, item)
    \/ DeadlockVictim(w)

World ==
    \/ \E r \in Requests : BackoffElapses(r) \/ WebhookBackoffElapses(r) \/ CommitmentConfirms(r)
    \/ \E n \in Names : IdentityConfirms(n)

Next ==
    \/ \E r \in Requests : Api(r)
    \/ \E w \in Workers : Sweep(w) \/ Fault(w)
    \/ World

Spec == Init /\ [][Next]_vars

\* The loop that starts worker.py again and again never stops (docker-compose.yml),
\* and a broken row raises whenever its turn comes.
WorkerFairness ==
    \A w \in Workers : WF_vars(Sweep(w) \/ DeadlockVictim(w)
                               \/ \E item \in todo[w] : item.id \in Broken /\ PreambleRaises(w, item))

\* Retry times pass, and what was broadcast gets mined.  Nothing is assumed of the
\* API's clients.
WorldFairness ==
    /\ \A r \in Requests : WF_vars(BackoffElapses(r))
    /\ \A r \in Hooked : WF_vars(WebhookBackoffElapses(r))
    /\ \A r \in Requests : WF_vars(CommitmentConfirms(r))
    /\ \A n \in Names : WF_vars(IdentityConfirms(n))

Fairness == WorkerFairness /\ WorldFairness

FairSpec == Spec /\ Fairness

-----------------------------------------------------------------------------
(* Properties.                                                             *)

TypeOK ==
    /\ reg \in [Requests -> Row]
    /\ draft \in [Requests -> Row]
    /\ holder \in [Requests -> Workers \cup {NoWorker}]
    /\ post \in [Requests -> {"new", "checked", "committed", "stored", "refused"}]
    /\ requeue \subseteq Requests
    /\ requeued \in 0 .. RequeueBound
    /\ phase \in [Workers -> Phases]
    /\ todo \in [Workers -> SUBSET Item]
    /\ doing \in [Workers -> Item \cup {NoItem}]
    /\ answer \in [Workers -> Answers]
    /\ bumps \in [Workers -> 0 .. MaxFeeBumps]
    /\ faults \in 0 .. FaultBound
    /\ rncTx \in [Requests -> {"none", "mempool", "confirmed"}]
    /\ owner \in [Names -> Requests \cup {NoRequest}]
    /\ inChain \subseteq Names
    /\ received \in [Requests -> SUBSET Terminal]
    /\ acked \in [Requests -> SUBSET Terminal]

\* An identity is only ever built on a name commitment that is in the chain: the
\* call register_identity is never made for a request whose commitment is not.
CommitmentFirst ==
    \A r \in Requests : owner[NameOf[r]] = r => rncTx[r] = "confirmed"

\* "complete" is never reported for a name that is not in the chain, whatever was
\* lost to crashes and lost answers on the way.
CompleteIsOnChain ==
    \A r \in Requests : reg[r].status = "complete" => NameOf[r] \in inChain

\* A row in idr_submitted carries the identity transaction of its own request.
SubmittedIsOwn ==
    \A r \in Requests :
        reg[r].status = "idr_submitted" => reg[r].idr_txid /\ owner[NameOf[r]] = r

\* Failing takes exactly MaxRetries recorded errors, and a row that used them up
\* has failed: no row is worked on past its budget, none is given up early.
FailedWhenExhausted ==
    \A r \in Requests : Exists(r) =>
        /\ reg[r].attempts <= MaxRetries
        /\ (reg[r].status = "failed") <=> (reg[r].attempts = MaxRetries)

\* webhook_delivered is never set for an event the receiver did not take: it has
\* answered success to a post of the very status the row has.
DeliveredWasAcked ==
    \A r \in Requests : reg[r].delivered => reg[r].status \in acked[r]

\* No webhook runs ahead of the database: what the receiver was told about a row
\* that still exists is the row's committed, final status.
EventsMatchRow ==
    \A r \in Requests : Exists(r) => received[r] \subseteq {reg[r].status}

\* What GET /api/status/{id} answers: a row that is gone was deleted.
StageOf(r) ==
    IF Exists(r) THEN reg[r].status
    ELSE IF post[r] = "stored" THEN "deleted" ELSE "unknown"

Lifecycle == INSTANCE RegistrationLifecycle WITH stage <- [r \in Requests |-> StageOf(r)]

\* The workflow implements the promised state machine: every commit moves rows
\* along the ladder, complete and failed are final, a deleted row stays deleted.
LifecycleSafe == Lifecycle!Spec

\* A deleted registration never comes back, although a sweep may still hold a
\* snapshot of it or a lock on it.
DeletedStaysDeleted ==
    [][\A r \in Requests : post[r] = "stored" /\ ~Exists(r) => ~Exists(r)']_vars

\* Errors are never forgotten: the committed attempts of a row only shrink when
\* the row moves on (or is deleted), so a crash cannot refill a retry budget.
AttemptsOnlyGrow ==
    [][\A r \in Requests :
          reg[r].status \in Live /\ reg'[r].status = reg[r].status
             => reg'[r].attempts >= reg[r].attempts]_vars

\* IMPLEMENTATION_PLAN.md: "Retry on non-2xx responses with capped attempts and
\* backoff".  The posts of one event stop at WEBHOOK_MAX_RETRIES.
WebhookAttemptsCapped ==
    \A r \in Requests : reg[r].webhookAttempts <= WebhookMaxRetries

\* Every stored registration leaves the ladder: it completes, fails or is deleted.
EverySettles == Lifecycle!Settles

\* The client that asked for it is told in the end, if the row is not deleted.
EveryHookIsTold ==
    \A r \in Hooked :
        (reg[r].status \in Terminal) ~> (reg[r].delivered \/ ~Exists(r))

-----------------------------------------------------------------------------
(* The inductive invariant behind CommitmentFirst, CompleteIsOnChain,      *)
(* SubmittedIsOwn and DeletedStaysDeleted.  It relates each place where a  *)
(* fact about the chain is remembered (both versions of a row, a snapshot, *)
(* an answer not yet recorded) to the chain, and each lock to the row.     *)

RowFacts(row, r) ==
    /\ row.status = "ready_for_idr" => rncTx[r] = "confirmed"
    /\ row.status = "idr_submitted" => row.idr_txid /\ owner[NameOf[r]] = r
    /\ row.status = "complete" => NameOf[r] \in inChain
    /\ row.status # "absent" => post[r] = "stored"

\* A snapshot outlives the row it was taken of.
ItemFacts(item) ==
    /\ post[item.id] = "stored"
    /\ item.status = "ready_for_idr" => rncTx[item.id] = "confirmed"
    /\ item.status = "idr_submitted" =>
          /\ owner[NameOf[item.id]] = item.id
          /\ reg[item.id].status # "absent" => reg[item.id].idr_txid
          /\ draft[item.id].status # "absent" => draft[item.id].idr_txid

AnswerFacts(item, a) ==
    /\ a = "confirmed" /\ item.status = "pending_rnc_confirm" => rncTx[item.id] = "confirmed"
    /\ a = "confirmed" /\ item.status = "idr_submitted" => NameOf[item.id] \in inChain
    /\ a = "accepted" => owner[NameOf[item.id]] = item.id
    /\ a = "exists" => NameOf[item.id] \in inChain

\* Only a sweep that holds a row can see it differ from the committed one; the
\* row it holds exists, and its UPDATEs lose no idr_txid.
LockFacts(r) ==
    IF holder[r] = NoWorker THEN draft[r] = reg[r]
    ELSE Exists(r) /\ (reg[r].idr_txid => draft[r].idr_txid)

\* Everything the code remembers about the chain is true of the chain, even when
\* sweeps overlap, are killed or act on rows deleted under them.
IndInv ==
    /\ \A r \in Requests :
          /\ RowFacts(reg[r], r) /\ RowFacts(draft[r], r) /\ LockFacts(r)
          /\ post[r] \in {"new", "checked"} => rncTx[r] = "none"
    /\ \A w \in Workers :
          /\ \A item \in todo[w] : ItemFacts(item)
          /\ doing[w] # NoItem => AnswerFacts(doing[w], answer[w])
    /\ CommitmentFirst

=============================================================================
