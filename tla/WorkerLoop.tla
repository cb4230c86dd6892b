------------------------------ MODULE WorkerLoop ------------------------------
(***************************************************************************)
(* The worker process (worker.process_once and the loop of                 *)
(* docker-compose.yml around it): one process runs the identity sweep, the *)
(* storage sweep and the currency sweep, in this order, and exits; the     *)
(* loop starts the next one, whatever ended the one before.                *)
(*                                                                         *)
(* The three workflows are instances of their modules over variables of    *)
(* their own: they share the process, and each has its own tables.  The    *)
(* API and the chain go on at any time.                                    *)
(***************************************************************************)
EXTENDS Naturals

CONSTANTS
    \* registrations
    Requests, Names, NameOf, Hooked, Broken, Worker, NoWorker, NoRequest, NoItem,
    WebhookMaxRetries, MaxFeeBumps, RequeueBound, RefusalBound,
    \* uploads
    Uploads, ChunkCount, NoUpload, Daemons, AnswerShapes, WriteBound, RetryBound,
    \* currencies
    Token, Native, ReserveNames, Plans, Required, InitialFunds, RefillBound, Epsilon,
    \* all of them
    MaxRetries,
    FaultBound,     \* bound: faults in all three workflows
    KindChoices     \* bound: the sets of kinds of requests that clients make

VARIABLES
    reg, draft, holder, post, requeue, requeued, phase, todo, doing, answer, bumps,
    rncTx, owner, inChain, received, acked, identityFaults

VARIABLES
    uploads, chunks, known, starting, retrying, retries, due, cur, seen, toCheck, marks, result,
    daemon, writes, mined, storageFaults

VARIABLES
    plan, row, sweep, cuDraft, toSend, newWaits, short, txs, forgotten, funds, balance,
    refills, currencyFaults

VARIABLES
    kinds,      \* the kinds of requests that clients make
    turn        \* the sweep the process is in

identityVars == <<reg, draft, holder, post, requeue, requeued, phase, todo, doing, answer, bumps,
                  rncTx, owner, inChain, received, acked, identityFaults>>
storageVars  == <<uploads, chunks, known, starting, retrying, retries, due, cur, seen, toCheck,
                  marks, result, daemon, writes, mined, storageFaults>>
currencyVars == <<plan, row, sweep, cuDraft, toSend, newWaits, short, txs, forgotten,
                  funds, balance, refills, currencyFaults>>
vars == <<identityVars, storageVars, currencyVars, kinds, turn>>

Identity == INSTANCE IdentityWorkflow WITH Workers <- {Worker}, faults <- identityFaults
Storage  == INSTANCE StorageUpload WITH faults <- storageFaults
Currency == INSTANCE CurrencyWorkflow WITH draft <- cuDraft, faults <- currencyFaults

ASSUME LoopAssumption ==
    Identity!ConstantsAssumption /\ Storage!StorageAssumption /\ Currency!CurrencyAssumption

Init ==
    /\ Identity!Init /\ Storage!Init /\ Currency!Init
    /\ kinds \in KindChoices
    /\ turn = "identity"

-----------------------------------------------------------------------------
(* One call of process_once.                                               *)

\* Mutant: an identity sweep that finds nothing to do ends the process.
IdentityTurnOrExit ==
    /\ turn = "identity"
    /\ \/ /\ Identity!Sweep(Worker)
          /\ turn' = IF phase'[Worker] = "idle" /\ draft # reg THEN "storage" ELSE "identity"
       \/ /\ \E item \in todo[Worker] : Identity!PreambleRaises(Worker, item)
          /\ UNCHANGED turn
    /\ UNCHANGED <<storageVars, currencyVars>>

\* The commit of the identity sweep hands on to the storage sweep; an exception
\* leaves process_once, and the loop starts over.
IdentityTurn ==
    /\ turn = "identity"
    /\ \/ /\ Identity!Sweep(Worker)
          /\ turn' = IF phase'[Worker] = "idle" THEN "storage" ELSE "identity"
       \/ /\ \E item \in todo[Worker] : Identity!PreambleRaises(Worker, item)
          /\ UNCHANGED turn
    /\ UNCHANGED <<storageVars, currencyVars>>

\* The storage sweep keeps the errors of its uploads to itself, and ends with the
\* last upload it has listed.
StorageTurn ==
    /\ turn = "storage"
    /\ Storage!Sweep \/ Storage!AskFails
    /\ turn' = IF due' = {} THEN "currency" ELSE "storage"
    /\ UNCHANGED <<identityVars, currencyVars>>

\* Whether it commits or raises, after the currency sweep the process is done.
CurrencyTurn ==
    /\ turn = "currency"
    /\ Currency!Sweep
    /\ turn' = IF sweep' = "idle" THEN "identity" ELSE "currency"
    /\ UNCHANGED <<identityVars, storageVars>>

\* The faults of all three workflows are within one bound.
FewFaults == identityFaults + storageFaults + currencyFaults <= FaultBound

ProcessOnce == (IdentityTurn \/ StorageTurn \/ CurrencyTurn) /\ UNCHANGED kinds /\ FewFaults'

\* The process is killed, in whichever sweep it is.
Die ==
    /\ \/ /\ turn = "identity" /\ Identity!Crash(Worker)
          /\ UNCHANGED <<storageVars, currencyVars>>
       \/ /\ turn = "storage" /\ Storage!Crash
          /\ UNCHANGED <<identityVars, currencyVars>>
       \/ /\ turn = "currency" /\ Currency!Crash
          /\ UNCHANGED <<identityVars, storageVars>>
    /\ turn' = "identity"
    /\ UNCHANGED kinds /\ FewFaults'

-----------------------------------------------------------------------------
(* Everybody else.                                                         *)

IdentityClients ==
    /\ "identity" \in kinds
    /\ Identity!World \/ \E r \in Requests : Identity!Api(r)
    /\ UNCHANGED <<storageVars, currencyVars, kinds, turn>>

StorageClients ==
    /\ "storage" \in kinds
    /\ \E u \in Uploads : Storage!Api(u) \/ Storage!World(u)
    /\ UNCHANGED <<identityVars, currencyVars, kinds, turn>>

CurrencyClients ==
    /\ "currency" \in kinds
    /\ \/ Currency!Enqueue \/ Currency!DeleteRequest
       \/ Currency!BackoffElapses \/ Currency!Operations \/ Currency!Mining
       \/ \E i \in DOMAIN txs : Currency!OperationForgotten(i)
       \/ \E c \in Currency!Currencies : Currency!Refill(c)
    /\ UNCHANGED <<identityVars, storageVars, kinds, turn>>
    /\ FewFaults'

Next == ProcessOnce \/ Die \/ IdentityClients \/ StorageClients \/ CurrencyClients

Spec == Init /\ [][Next]_vars

\* All that is assumed of the worker is that the loop goes on.
Fairness ==
    /\ WF_vars(ProcessOnce)
    /\ Identity!WorldFairness /\ Storage!WorldFairness /\ Currency!WorldFairness

FairSpec == Spec /\ Fairness

-----------------------------------------------------------------------------
(* Properties.                                                             *)

\* The fairness that each workflow's specification assumes of the worker is what
\* one loop over the three sweeps gives it, killed processes included.
LoopServesAll ==
    Identity!WorkerFairness /\ Storage!WorkerFairness /\ Currency!WorkerFairness

\* IMPLEMENTATION_PLAN.md:98: "Any step -> `failed` on non-retryable errors"; the
\* storage sweep (worker.py:555): "Keep sweep resilient".  Each registration, each
\* upload and each currency request that is in the worker's hands leaves them,
\* whatever the others do; save for the uploads that EveryUploadEnds excepts.
EveryKindEnds ==
    Identity!EverySettles /\ Storage!EveryUploadEnds /\ Currency!EveryRequestEnds

=============================================================================
