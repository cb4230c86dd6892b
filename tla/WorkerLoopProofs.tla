-------------------------- MODULE WorkerLoopProofs --------------------------
(***************************************************************************)
(* Theorems about WorkerLoop: each of the three workflows goes on in the   *)
(* one process as its own specification says, so what is proved of each    *)
(* holds in the process.  One process is one worker, so the theorems that  *)
(* need sweeps not to overlap hold without that hypothesis.                *)
(***************************************************************************)
EXTENDS WorkerLoop, TLAPS

\* What is proved of each workflow, over the variables it has here.
IdentityFacts == INSTANCE IdentitySoleWorkerProofs WITH Workers <- {Worker}, faults <- identityFaults
StorageFacts  == INSTANCE StorageUploadProofs WITH faults <- storageFaults
CurrencyFacts == INSTANCE CurrencyPaidOnceProofs WITH draft <- cuDraft, faults <- currencyFaults

-----------------------------------------------------------------------------
(* Each workflow's steps.                                                  *)

\* The process, its death and the clients take steps of the identity workflow, or
\* leave it alone.
LEMMA IdentitySteps == [Next]_vars => [Identity!Next]_Identity!vars
<1> SUFFICES ASSUME [Next]_vars, ~UNCHANGED identityVars PROVE Identity!Next
  BY DEF Identity!vars, Identity!dbVars, Identity!apiVars, Identity!sweepVars, Identity!rowVars,
     Identity!chainVars, Identity!hookVars, identityVars
<1>1. CASE IdentityTurn
  BY <1>1 DEF IdentityTurn, Identity!Next, Identity!Fault
<1>2. CASE Die
  BY <1>2 DEF Die, Identity!Next, Identity!Fault
<1>3. CASE IdentityClients
  BY <1>3 DEF IdentityClients, Identity!Next
<1>4. CASE UNCHANGED identityVars
  BY <1>4
<1> QED
  BY <1>1, <1>2, <1>3, <1>4 DEF Next, ProcessOnce, StorageTurn, CurrencyTurn, StorageClients,
     CurrencyClients, vars

\* The same for the storage workflow ...
LEMMA StorageSteps == [Next]_vars => [Storage!Next]_Storage!vars
<1> SUFFICES ASSUME [Next]_vars, ~UNCHANGED storageVars PROVE Storage!Next
  BY DEF Storage!vars, Storage!tables, Storage!apiVars, Storage!workerVars, Storage!jobVars, Storage!worldVars, storageVars
<1>1. CASE StorageTurn
  BY <1>1 DEF StorageTurn, Storage!Next, Storage!Fault
<1>2. CASE Die
  BY <1>2 DEF Die, Storage!Next, Storage!Fault
<1>3. CASE StorageClients
  BY <1>3 DEF StorageClients, Storage!Next
<1> QED
  BY <1>1, <1>2, <1>3 DEF Next, ProcessOnce, IdentityTurn, CurrencyTurn, IdentityClients,
     CurrencyClients, vars

\* ... and for the currency workflow.
LEMMA CurrencySteps == [Next]_vars => [Currency!Next]_Currency!vars
<1> SUFFICES ASSUME [Next]_vars, ~UNCHANGED currencyVars PROVE Currency!Next
  BY DEF Currency!vars, Currency!jobVars, Currency!chainVars, currencyVars
<1>1. CASE CurrencyTurn
  BY <1>1 DEF CurrencyTurn, Currency!Next
<1>2. CASE Die
  BY <1>2 DEF Die, Currency!Next
<1>3. CASE CurrencyClients
  BY <1>3 DEF CurrencyClients, Currency!Next
<1> QED
  BY <1>1, <1>2, <1>3 DEF Next, ProcessOnce, IdentityTurn, StorageTurn, IdentityClients,
     StorageClients, vars

\* The process that takes the three sweeps in turn, wherever it dies or raises, with one
\* bound on all faults, implements the specification of each workflow
\* (worker.py:561-595, docker-compose.yml).
THEOREM EachWorkflowIsKept == Spec => Identity!Spec /\ Storage!Spec /\ Currency!Spec
<1>1. Init => Identity!Init /\ Storage!Init /\ Currency!Init
  BY DEF Init
<1> QED
  BY <1>1, IdentitySteps, StorageSteps, CurrencySteps, PTL
     DEF Spec, Identity!Spec, Storage!Spec, Currency!Spec

-----------------------------------------------------------------------------
(* The instances of this module are those of WorkerLoop: they give the     *)
(* same modules the same variables, so that each definition of the one,    *)
(* expanded, is that of the other.                                         *)

\* The specification of registrations, by its two names.
LEMMA SameIdentity == Identity!Spec => IdentityFacts!Spec
<1>1. Identity!vars = IdentityFacts!vars /\ Identity!vars' = IdentityFacts!vars'
  BY DEF
     Identity!vars, IdentityFacts!vars, Identity!dbVars, IdentityFacts!dbVars, Identity!apiVars,
     IdentityFacts!apiVars, Identity!sweepVars, IdentityFacts!sweepVars, Identity!chainVars,
     IdentityFacts!chainVars, Identity!hookVars, IdentityFacts!hookVars
<1>2. ASSUME Identity!Init PROVE IdentityFacts!Init
  BY <1>2 DEF
     Identity!Init, IdentityFacts!Init, Identity!AbsentRow, IdentityFacts!AbsentRow
<1>3. ASSUME Identity!Next PROVE IdentityFacts!Next
  BY <1>3 DEF
     Identity!Next, IdentityFacts!Next, Identity!Api, IdentityFacts!Api, Identity!Precheck,
     IdentityFacts!Precheck, Identity!dbVars, IdentityFacts!dbVars, Identity!sweepVars,
     IdentityFacts!sweepVars, Identity!chainVars, IdentityFacts!chainVars, Identity!hookVars,
     IdentityFacts!hookVars, Identity!Commitment, IdentityFacts!Commitment,
     Identity!InsertRegistration, IdentityFacts!InsertRegistration, Identity!ApiWrite,
     IdentityFacts!ApiWrite, Identity!AbsentRow, IdentityFacts!AbsentRow, Identity!InsertLost,
     IdentityFacts!InsertLost, Identity!DeleteRegistration, IdentityFacts!DeleteRegistration,
     Identity!Exists, IdentityFacts!Exists, Identity!apiVars, IdentityFacts!apiVars,
     Identity!RequeueCheck, IdentityFacts!RequeueCheck, Identity!Terminal, IdentityFacts!Terminal,
     Identity!RequeueReset, IdentityFacts!RequeueReset, Identity!Sweep, IdentityFacts!Sweep,
     Identity!Read, IdentityFacts!Read, Identity!StartSweep, IdentityFacts!StartSweep,
     Identity!Select, IdentityFacts!Select, Identity!rowVars, IdentityFacts!rowVars,
     Identity!SelectReady, IdentityFacts!SelectReady, Identity!DueWith, IdentityFacts!DueWith,
     Identity!Snapshot, IdentityFacts!Snapshot, Identity!SelectPending,
     IdentityFacts!SelectPending, Identity!SelectSubmitted, IdentityFacts!SelectSubmitted,
     Identity!SelectWebhooks, IdentityFacts!SelectWebhooks, Identity!DueWebhooks,
     IdentityFacts!DueWebhooks, Identity!Call, IdentityFacts!Call, Identity!AskConfirmations,
     IdentityFacts!AskConfirmations, Identity!IsNext, IdentityFacts!IsNext, Identity!Rank,
     IdentityFacts!Rank, Identity!Live, IdentityFacts!Live, Identity!TxConfirmed,
     IdentityFacts!TxConfirmed, Identity!Answered, IdentityFacts!Answered,
     Identity!RegisterAccepted, IdentityFacts!RegisterAccepted, Identity!MayRegister,
     IdentityFacts!MayRegister, Identity!RegisterRefused, IdentityFacts!RegisterRefused,
     Identity!RegisterInsufficient, IdentityFacts!RegisterInsufficient, Identity!PostAccepted,
     IdentityFacts!PostAccepted, Identity!PostRefused, IdentityFacts!PostRefused, Identity!Record,
     IdentityFacts!Record, Identity!WorkerWrite, IdentityFacts!WorkerWrite, Identity!Recorded,
     IdentityFacts!Recorded, Identity!Promoted, IdentityFacts!Promoted, Identity!RetryOrFailure,
     IdentityFacts!RetryOrFailure, Identity!WebhookRetryOrFailure,
     IdentityFacts!WebhookRetryOrFailure, Identity!RowDone, IdentityFacts!RowDone,
     Identity!Commit, IdentityFacts!Commit, Identity!EndSweep, IdentityFacts!EndSweep,
     Identity!Fault, IdentityFacts!Fault, Identity!Crash, IdentityFacts!Crash, Identity!Rollback,
     IdentityFacts!Rollback, Identity!PreambleRaises, IdentityFacts!PreambleRaises,
     Identity!DeadlockVictim, IdentityFacts!DeadlockVictim, Identity!WaitsFor,
     IdentityFacts!WaitsFor, Identity!World, IdentityFacts!World, Identity!BackoffElapses,
     IdentityFacts!BackoffElapses, Identity!WebhookBackoffElapses,
     IdentityFacts!WebhookBackoffElapses, Identity!CommitmentConfirms,
     IdentityFacts!CommitmentConfirms, Identity!IdentityConfirms, IdentityFacts!IdentityConfirms
<1>4. [Identity!Next]_Identity!vars => [IdentityFacts!Next]_IdentityFacts!vars
  BY <1>1, <1>3
<1> QED
  BY <1>2, <1>4, PTL DEF Identity!Spec, IdentityFacts!Spec

\* The specification of uploads, by its two names.
LEMMA SameStorage == Storage!Spec => StorageFacts!Spec
<1>1. Storage!vars = StorageFacts!vars /\ Storage!vars' = StorageFacts!vars'
  BY DEF
     Storage!vars, StorageFacts!vars, Storage!tables, StorageFacts!tables, Storage!apiVars,
     StorageFacts!apiVars, Storage!workerVars, StorageFacts!workerVars, Storage!jobVars,
     StorageFacts!jobVars, Storage!worldVars, StorageFacts!worldVars
<1>2. ASSUME Storage!Init PROVE StorageFacts!Init
  BY <1>2 DEF
     Storage!Init, StorageFacts!Init, Storage!AbsentUpload, StorageFacts!AbsentUpload,
     Storage!Chunks, StorageFacts!Chunks, Storage!AbsentChunk, StorageFacts!AbsentChunk
<1>3. ASSUME Storage!Next PROVE StorageFacts!Next
  BY <1>3 DEF
     Storage!Next, StorageFacts!Next, Storage!Api, StorageFacts!Api, Storage!CreateUpload,
     StorageFacts!CreateUpload, Storage!apiVars, StorageFacts!apiVars, Storage!workerVars,
     StorageFacts!workerVars, Storage!jobVars, StorageFacts!jobVars, Storage!worldVars,
     StorageFacts!worldVars, Storage!CreateChunk, StorageFacts!CreateChunk, Storage!ChunksWith,
     StorageFacts!ChunksWith, Storage!Chunks, StorageFacts!Chunks, Storage!First,
     StorageFacts!First, Storage!ReturnId, StorageFacts!ReturnId, Storage!tables,
     StorageFacts!tables, Storage!StartCheck, StorageFacts!StartCheck, Storage!StartUpdate,
     StorageFacts!StartUpdate, Storage!RetryCheck, StorageFacts!RetryCheck, Storage!Writable,
     StorageFacts!Writable, Storage!RetryUpdate, StorageFacts!RetryUpdate, Storage!ResetFailed,
     StorageFacts!ResetFailed, Storage!World, StorageFacts!World, Storage!Configure,
     StorageFacts!Configure, Storage!BackoffElapses, StorageFacts!BackoffElapses, Storage!Mine,
     StorageFacts!Mine, Storage!Sweep, StorageFacts!Sweep, Storage!SelectDue,
     StorageFacts!SelectDue, Storage!BeginUpload, StorageFacts!BeginUpload, Storage!AskChunk,
     StorageFacts!AskChunk, Storage!FinishUpload, StorageFacts!FinishUpload, Storage!Asked,
     StorageFacts!Asked, Storage!Marked, StorageFacts!Marked, Storage!CommitUpload,
     StorageFacts!CommitUpload, Storage!EndUpload, StorageFacts!EndUpload, Storage!AbsentUpload,
     StorageFacts!AbsentUpload, Storage!Settled, StorageFacts!Settled, Storage!StayConfirming,
     StorageFacts!StayConfirming, Storage!Pending, StorageFacts!Pending, Storage!SubmitAccepted,
     StorageFacts!SubmitAccepted, Storage!NextChunk, StorageFacts!NextChunk,
     Storage!SubmitRefused, StorageFacts!SubmitRefused, Storage!RecordSubmitted,
     StorageFacts!RecordSubmitted, Storage!Submitted, StorageFacts!Submitted,
     Storage!RecordPermanent, StorageFacts!RecordPermanent, Storage!RecordTransient,
     StorageFacts!RecordTransient, Storage!RetryOrFailure, StorageFacts!RetryOrFailure,
     Storage!Fault, StorageFacts!Fault, Storage!Crash, StorageFacts!Crash, Storage!Abandon,
     StorageFacts!Abandon, Storage!AskFails, StorageFacts!AskFails, Storage!SkipUpload,
     StorageFacts!SkipUpload
<1>4. [Storage!Next]_Storage!vars => [StorageFacts!Next]_StorageFacts!vars
  BY <1>1, <1>3
<1> QED
  BY <1>2, <1>4, PTL DEF Storage!Spec, StorageFacts!Spec

\* The specification of currency requests, by its two names.
LEMMA SameCurrency == Currency!Spec => CurrencyFacts!Spec
<1>1. Currency!vars = CurrencyFacts!vars /\ Currency!vars' = CurrencyFacts!vars'
  BY DEF
     Currency!vars, CurrencyFacts!vars, Currency!jobVars, CurrencyFacts!jobVars,
     Currency!chainVars, CurrencyFacts!chainVars
<1>2. ASSUME Currency!Init PROVE CurrencyFacts!Init
  BY <1>2 DEF
     Currency!Init, CurrencyFacts!Init, Currency!AbsentRow, CurrencyFacts!AbsentRow,
     Currency!NoWait, CurrencyFacts!NoWait, Currency!Nothing, CurrencyFacts!Nothing,
     Currency!Currencies, CurrencyFacts!Currencies
<1>3. ASSUME Currency!Next PROVE CurrencyFacts!Next
  BY <1>3 DEF
     Currency!Next, CurrencyFacts!Next, Currency!Enqueue, CurrencyFacts!Enqueue,
     Currency!AbsentRow, CurrencyFacts!AbsentRow, Currency!NoWait, CurrencyFacts!NoWait,
     Currency!jobVars, CurrencyFacts!jobVars, Currency!chainVars, CurrencyFacts!chainVars,
     Currency!DeleteRequest, CurrencyFacts!DeleteRequest, Currency!Locked, CurrencyFacts!Locked,
     Currency!Sweep, CurrencyFacts!Sweep, Currency!Select, CurrencyFacts!Select, Currency!Due,
     CurrencyFacts!Due, Currency!Live, CurrencyFacts!Live, Currency!Waiting,
     CurrencyFacts!Waiting, Currency!EmptySweep, CurrencyFacts!EmptySweep, Currency!vars,
     CurrencyFacts!vars, Currency!Begin, CurrencyFacts!Begin, Currency!Clear, CurrencyFacts!Clear,
     Currency!Nothing, CurrencyFacts!Nothing, Currency!Currencies, CurrencyFacts!Currencies,
     Currency!CallRaises, CurrencyFacts!CallRaises, Currency!Task, CurrencyFacts!Task,
     Currency!Simple, CurrencyFacts!Simple, Currency!SimpleTasks, CurrencyFacts!SimpleTasks,
     Currency!Rungs, CurrencyFacts!Rungs, Currency!InReserves, CurrencyFacts!InReserves,
     Currency!CreatesReserves, CurrencyFacts!CreatesReserves, Currency!ReserveTasks,
     CurrencyFacts!ReserveTasks, Currency!FractionalTasks, CurrencyFacts!FractionalTasks,
     Currency!Given, CurrencyFacts!Given, Currency!Site, CurrencyFacts!Site, Currency!Write,
     CurrencyFacts!Write, Currency!RetryOrFailure, CurrencyFacts!RetryOrFailure, Currency!Commit,
     CurrencyFacts!Commit, Currency!PollConfirm, CurrencyFacts!PollConfirm, Currency!Confirmed,
     CurrencyFacts!Confirmed, Currency!Saved, CurrencyFacts!Saved, Currency!PollOperation,
     CurrencyFacts!PollOperation, Currency!OperationState, CurrencyFacts!OperationState,
     Currency!Abandoned, CurrencyFacts!Abandoned, Currency!TxWait, CurrencyFacts!TxWait,
     Currency!Pass, CurrencyFacts!Pass, Currency!At, CurrencyFacts!At, Currency!After,
     CurrencyFacts!After, Currency!Finish, CurrencyFacts!Finish, Currency!Fund,
     CurrencyFacts!Fund, Currency!SendAnswers, CurrencyFacts!SendAnswers, Currency!NextTx,
     CurrencyFacts!NextTx, Currency!OpWait, CurrencyFacts!OpWait, Currency!Taken,
     CurrencyFacts!Taken, Currency!Advanced, CurrencyFacts!Advanced, Currency!Fault,
     CurrencyFacts!Fault, Currency!Submit, CurrencyFacts!Submit, Currency!Accepts,
     CurrencyFacts!Accepts, Currency!Has, CurrencyFacts!Has, Currency!ResolveWaits,
     CurrencyFacts!ResolveWaits, Currency!Dead, CurrencyFacts!Dead, Currency!Unresolved,
     CurrencyFacts!Unresolved, Currency!Resolved, CurrencyFacts!Resolved, Currency!PlanFunding,
     CurrencyFacts!PlanFunding, Currency!Affordable, CurrencyFacts!Affordable, Currency!Shortfall,
     CurrencyFacts!Shortfall, Currency!Lacks, CurrencyFacts!Lacks, Currency!Basket,
     CurrencyFacts!Basket, Currency!SourceShort, CurrencyFacts!SourceShort, Currency!SaveFunding,
     CurrencyFacts!SaveFunding, Currency!ToPay, CurrencyFacts!ToPay, Currency!Batch,
     CurrencyFacts!Batch, Currency!Source, CurrencyFacts!Source, Currency!SendTransfers,
     CurrencyFacts!SendTransfers, Currency!Paying, CurrencyFacts!Paying, Currency!SendRefused,
     CurrencyFacts!SendRefused, Currency!Hold, CurrencyFacts!Hold, Currency!AtGate,
     CurrencyFacts!AtGate, Currency!Funded, CurrencyFacts!Funded, Currency!DefineBasket,
     CurrencyFacts!DefineBasket, Currency!Crash, CurrencyFacts!Crash, Currency!Abandon,
     CurrencyFacts!Abandon, Currency!BackoffElapses, CurrencyFacts!BackoffElapses,
     Currency!Operations, CurrencyFacts!Operations, Currency!OperationSucceeds,
     CurrencyFacts!OperationSucceeds, Currency!Move, CurrencyFacts!Move, Currency!OperationFails,
     CurrencyFacts!OperationFails, Currency!Mining, CurrencyFacts!Mining, Currency!Mine,
     CurrencyFacts!Mine, Currency!OperationForgotten, CurrencyFacts!OperationForgotten,
     Currency!Refill, CurrencyFacts!Refill, Currency!Outputs, CurrencyFacts!Outputs,
     Currency!Listed, CurrencyFacts!Listed, Currency!CanPay, CurrencyFacts!CanPay,
     Currency!Cardinality, CurrencyFacts!Cardinality
<1>4. [Currency!Next]_Currency!vars => [CurrencyFacts!Next]_CurrencyFacts!vars
  BY <1>1, <1>3
<1> QED
  BY <1>2, <1>4, PTL DEF Currency!Spec, CurrencyFacts!Spec

-----------------------------------------------------------------------------
(* What holds in the process.                                              *)

\* Registrations: what is proved of any sweeps, and what is proved of sweeps that do
\* not overlap, since process_once runs the identity sweep once and the loop starts the
\* next process when it has ended (worker.py:561-595, docker-compose.yml).
THEOREM RegistrationsAreSafe ==
    Spec => /\ [](/\ IdentityFacts!CommitmentFirst /\ IdentityFacts!CompleteIsOnChain
                   /\ IdentityFacts!SubmittedIsOwn /\ IdentityFacts!FailedWhenExhausted
                   /\ IdentityFacts!DeliveredWasAcked /\ IdentityFacts!EventsMatchRow)
            /\ IdentityFacts!DeletedStaysDeleted /\ IdentityFacts!AttemptsOnlyGrow
            /\ IdentityFacts!LifecycleSafe
<1>1. IdentityFacts!ConstantsAssumption
  BY LoopAssumption DEF
     Identity!ConstantsAssumption, IdentityFacts!ConstantsAssumption, Identity!Item, IdentityFacts!Item,
     Identity!Live, IdentityFacts!Live, Identity!Terminal, IdentityFacts!Terminal
<1>2. IdentityFacts!SoleWorker
  BY DEF IdentityFacts!SoleWorker
<1>3. IdentityFacts!Spec =>
        []IdentityFacts!CommitmentFirst /\ []IdentityFacts!CompleteIsOnChain /\ []IdentityFacts!SubmittedIsOwn
  BY <1>1, IdentityFacts!CommitmentComesFirst, IdentityFacts!CompleteIsRight, IdentityFacts!SubmittedIsRight
<1>4. IdentityFacts!Spec =>
        []IdentityFacts!FailedWhenExhausted /\ []IdentityFacts!DeliveredWasAcked /\ []IdentityFacts!EventsMatchRow
  BY <1>1, <1>2, IdentityFacts!FailsWhenExhausted, IdentityFacts!DeliveriesAreAcked, IdentityFacts!EventsAreTrue
<1>5. IdentityFacts!Spec =>
        IdentityFacts!DeletedStaysDeleted /\ IdentityFacts!AttemptsOnlyGrow /\ IdentityFacts!LifecycleSafe
  BY <1>1, <1>2, IdentityFacts!DeletionIsFinal, IdentityFacts!AttemptsGrow, IdentityFacts!LifecycleIsKept
<1> QED
  BY <1>3, <1>4, <1>5, EachWorkflowIsKept, SameIdentity, PTL

\* Uploads: what start, retry and the sweep keep, they keep in the process that runs the
\* other sweeps too; a chunk is written again for faults of the storage sweep alone
\* (worker.py:383-595, id_create_service.py:1493-1610).
THEOREM UploadsAreSafe ==
    Spec => /\ [](/\ StorageFacts!ConfirmedIsMined /\ StorageFacts!CompleteIsWhole
                   /\ StorageFacts!NoNeedlessRewrite)
            /\ StorageFacts!WritesAreKept /\ StorageFacts!ProgressKept
<1>1. StorageFacts!StorageAssumption
  BY LoopAssumption DEF Storage!StorageAssumption, StorageFacts!StorageAssumption
<1>2. StorageFacts!Spec =>
        []StorageFacts!ConfirmedIsMined /\ []StorageFacts!CompleteIsWhole /\ []StorageFacts!NoNeedlessRewrite
  BY <1>1, StorageFacts!ConfirmedAreMined, StorageFacts!CompleteAreWhole, StorageFacts!RewritesAreNeeded
<1>3. StorageFacts!Spec => StorageFacts!WritesAreKept /\ StorageFacts!ProgressKept
  BY <1>1, StorageFacts!WritesStay, StorageFacts!ProgressIsKept
<1> QED
  BY <1>2, <1>3, EachWorkflowIsKept, SameStorage, PTL

\* Currency requests, and what is paid for them: the commits and deaths of the process
\* are those of its sweep, or leave it alone (worker.py:561-595,
\* worker_currency_creation.py).
THEOREM CurrenciesAreSafe ==
    Spec => [](/\ CurrencyFacts!IdentityOnItsCommitment /\ CurrencyFacts!DefineLast
               /\ CurrencyFacts!CompleteIsDefined /\ CurrencyFacts!PaidOnce)
<1>1. CurrencyFacts!CurrencyAssumption
  BY LoopAssumption DEF
     Currency!CurrencyAssumption, CurrencyFacts!CurrencyAssumption,
     Currency!Currencies, CurrencyFacts!Currencies, Currency!Plan, CurrencyFacts!Plan
<1>2. CurrencyFacts!Spec =>
        /\ []CurrencyFacts!IdentityOnItsCommitment /\ []CurrencyFacts!DefineLast
        /\ []CurrencyFacts!CompleteIsDefined /\ []CurrencyFacts!PaidOnce
  BY <1>1, CurrencyFacts!IdentitiesAreCommitted, CurrencyFacts!DefinitionsComeLast,
     CurrencyFacts!CompleteAreDefined, CurrencyFacts!NothingIsPaidTwice
<1> QED
  BY <1>2, EachWorkflowIsKept, SameCurrency, PTL

=============================================================================
