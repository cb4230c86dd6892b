---------------------------- MODULE StorageUpload ----------------------------
(***************************************************************************)
(* Chunked uploads into identities: the API handlers that create, start    *)
(* and retry an upload (id_create_service.py) and the worker's storage     *)
(* sweep (worker.process_storage_once and process_storage_upload_once).    *)
(*                                                                         *)
(* Each upload a sweep handles is a transaction of its own.  The chunks it *)
(* finds confirmed are only marked ("marks") until the commit at the end   *)
(* of the upload; the row of the upload itself is written right before     *)
(* that commit, from what was read at the beginning.  Between the two the  *)
(* API may have changed it.                                                *)
(*                                                                         *)
(* The chain is external: write number n of a chunk is a transaction, which*)
(* is mined sooner or later.  So is the configuration, which says whether  *)
(* the daemon of an upload is there.                                       *)
(***************************************************************************)
EXTENDS Naturals, FiniteSets

CONSTANTS
    Uploads,
    ChunkCount,     \* number of chunks of each upload, at least 1
    NoUpload,
    MaxRetries,     \* WORKER_MAX_RETRIES
    Daemons,        \* what the daemon of an upload may be
    AnswerShapes,   \* forms update_identity may answer in: "dict", "plain"
    FaultBound,     \* bound: deaths, lost answers and failed confirmation queries
    WriteBound,     \* bound: update_identity calls the daemon takes per chunk
    RetryBound      \* bound: accepted calls of the retry endpoint

Chunks(u) == 0 .. ChunkCount[u] - 1

UploadStatuses == {"absent", "pending", "uploading", "confirming", "complete", "failed"}

Writable == {"uploading", "confirming"}

Upload == [status : UploadStatuses, attempts : Nat, backoff : BOOLEAN]

\* A row of storage_chunks.  txid n is the chunk's n-th write, 0 is NULL.
Chunk == [status : {"absent", "pending", "submitted", "confirmed"}, txid : Nat]

Results == {"none", "dict", "plain", "transient", "permanent"}

ASSUME StorageAssumption ==
    /\ ChunkCount \in [Uploads -> Nat \ {0}]
    /\ NoUpload \notin Uploads
    /\ MaxRetries \in Nat \ {0}
    /\ Daemons \subseteq {"enabled", "disabled", "unresolved"}
    /\ AnswerShapes \subseteq {"dict", "plain"}
    /\ FaultBound \in Nat /\ WriteBound \in Nat /\ RetryBound \in Nat

VARIABLES
    uploads,    \* rows of storage_uploads
    chunks,     \* rows of storage_chunks, per upload
    \* the API
    known,      \* uploads whose id was returned to the client
    starting,   \* start handlers past their check
    retrying,   \* retry handlers past their check
    retries,    \* retry calls accepted so far
    \* the worker
    due,        \* uploads the sweep has still to handle
    cur,        \* the upload at hand
    seen,       \* its row as read at the beginning
    toCheck,    \* submitted chunks with a txid, not asked about yet
    marks,      \* chunks found confirmed, not committed yet
    result,     \* what update_identity answered
    faults,
    \* the configuration and the chain
    daemon,     \* of each upload, "none" before it is created
    writes,     \* writes of each chunk taken by the daemon
    mined       \* <<upload, chunk, n>>: mined writes

tables     == <<uploads, chunks>>
apiVars    == <<known, starting, retrying, retries>>
jobVars    == <<cur, seen, toCheck, marks, result>>
workerVars == <<due, jobVars>>
worldVars  == <<daemon, writes, mined>>
vars == <<tables, apiVars, workerVars, faults, worldVars>>

AbsentUpload == [status |-> "absent", attempts |-> 0, backoff |-> FALSE]
AbsentChunk  == [status |-> "absent", txid |-> 0]

Init ==
    /\ uploads  = [u \in Uploads |-> AbsentUpload]
    /\ chunks   = [u \in Uploads |-> [c \in Chunks(u) |-> AbsentChunk]]
    /\ known    = {}
    /\ starting = {}
    /\ retrying = {}
    /\ retries  = 0
    /\ due      = {}
    /\ cur      = NoUpload
    /\ seen     = AbsentUpload
    /\ toCheck  = {}
    /\ marks    = {}
    /\ result   = "none"
    /\ faults   = 0
    /\ daemon   = [u \in Uploads |-> "none"]
    /\ writes   = [u \in Uploads |-> [c \in Chunks(u) |-> 0]]
    /\ mined    = {}

ChunksWith(u, status) == {c \in Chunks(u) : chunks[u][c].status = status}

\* Mutant: no ORDER BY chunk_index, or a wrong one.
Last(S) == CHOOSE c \in S : \A d \in S : c >= d

First(S) == CHOOSE c \in S : \A d \in S : c <= d

-----------------------------------------------------------------------------
(* The API.                                                                *)

\* create_storage_upload commits the upload, then each chunk, then answers.  If
\* the process dies on the way the client never learns the id.  A coin that has no
\* enabled daemon is no error: the upload gets a daemon that does not exist.
CreateUpload(u) ==
    /\ uploads[u].status = "absent"
    /\ uploads' = [uploads EXCEPT ![u].status = "pending"]
    /\ daemon' \in {[daemon EXCEPT ![u] = d] : d \in Daemons \ {"disabled"}}
    /\ UNCHANGED <<chunks, apiVars, workerVars, faults, writes, mined>>

CreateChunk(u) ==
    /\ uploads[u].status # "absent"
    /\ ChunksWith(u, "absent") # {}
    /\ chunks' = [chunks EXCEPT ![u][First(ChunksWith(u, "absent"))].status = "pending"]
    /\ UNCHANGED <<uploads, apiVars, workerVars, faults, worldVars>>

ReturnId(u) ==
    /\ uploads[u].status # "absent"
    /\ ChunksWith(u, "absent") = {}
    /\ known' = known \cup {u}
    /\ UNCHANGED <<tables, starting, retrying, retries, workerVars, faults, worldVars>>

\* start_storage_upload: check, then an UPDATE that does not check again.
StartCheck(u) ==
    /\ u \in known \ starting
    /\ uploads[u].status = "pending"
    /\ starting' = starting \cup {u}
    /\ UNCHANGED <<tables, known, retrying, retries, workerVars, faults, worldVars>>

StartUpdate(u) ==
    /\ u \in starting
    /\ starting' = starting \ {u}
    /\ uploads' = [uploads EXCEPT ![u].status = "uploading"]
    /\ UNCHANGED <<chunks, known, retrying, retries, workerVars, faults, worldVars>>

\* retry_storage_upload: it would reset chunks in status 'failed', which no code
\* ever sets; attempts and next_retry_at stay as they are.
RetryCheck(u) ==
    /\ u \in known \ retrying
    /\ retries < RetryBound
    /\ uploads[u].status \in {"failed"} \cup Writable
    /\ retrying' = retrying \cup {u}
    /\ retries' = retries + 1
    /\ UNCHANGED <<tables, known, starting, workerVars, faults, worldVars>>

\* Mutants: the retry starts chunks again that are on their way, or all of them.
ResetSubmitted(row) ==
    IF row.status \in {"failed", "submitted"} THEN [status |-> "pending", txid |-> 0] ELSE row

ResetAll(row) == IF row.status = "absent" THEN row ELSE [status |-> "pending", txid |-> 0]

ResetFailed(row) == IF row.status = "failed" THEN [status |-> "pending", txid |-> 0] ELSE row

RetryUpdate(u) ==
    /\ u \in retrying
    /\ retrying' = retrying \ {u}
    /\ uploads' = [uploads EXCEPT ![u].status = "pending"]
    /\ chunks' = [chunks EXCEPT ![u] = [c \in Chunks(u) |-> ResetFailed(@[c])]]
    /\ UNCHANGED <<known, starting, retries, workerVars, faults, worldVars>>

-----------------------------------------------------------------------------
(* The worker.                                                             *)

\* Mutant: uploads that only wait for confirmations are not selected.
SelectUploading ==
    /\ due = {} /\ cur = NoUpload
    /\ due' = {u \in Uploads : uploads[u].status = "uploading" /\ ~uploads[u].backoff}
    /\ UNCHANGED <<tables, apiVars, jobVars, faults, worldVars>>

SelectDue ==
    /\ due = {} /\ cur = NoUpload
    /\ due' = {u \in Uploads : uploads[u].status \in Writable /\ ~uploads[u].backoff}
    /\ UNCHANGED <<tables, apiVars, jobVars, faults, worldVars>>

\* The rows of the upload as this transaction reads them; the status is not
\* looked at again.  Chunks without a txid are never asked about.
BeginUpload(u) ==
    /\ u \in due /\ cur = NoUpload
    /\ daemon[u] = "enabled"
    /\ cur' = u
    /\ seen' = uploads[u]
    /\ toCheck' = {c \in ChunksWith(u, "submitted") : chunks[u][c].txid # 0}
    /\ UNCHANGED <<tables, apiVars, due, marks, result, faults, worldVars>>

EndUpload ==
    /\ due' = due \ {cur}
    /\ cur' = NoUpload
    /\ seen' = AbsentUpload
    /\ toCheck' = {}
    /\ marks' = {}
    /\ result' = "none"
    /\ UNCHANGED <<apiVars, worldVars>>

\* get_connection raises for a daemon that is not configured: the sweep goes on with
\* the next upload, and this one is neither counted as tried nor put off.
SkipUpload(u) ==
    /\ u \in due /\ cur = NoUpload
    /\ daemon[u] # "enabled"
    /\ due' = due \ {u}
    /\ UNCHANGED <<tables, apiVars, jobVars, faults, worldVars>>

\* Mutant: a chunk is taken for confirmed as soon as its transaction is known.
AskSeen ==
    /\ cur # NoUpload
    /\ toCheck # {}
    /\ LET c == First(toCheck) IN
       /\ toCheck' = toCheck \ {c}
       /\ marks' = marks \cup {c}
    /\ UNCHANGED <<tables, apiVars, due, cur, seen, result, faults, worldVars>>

\* get_raw_transaction for the next submitted chunk, in order of index.
AskChunk ==
    /\ cur # NoUpload
    /\ toCheck # {}
    /\ LET c == First(toCheck) IN
       /\ toCheck' = toCheck \ {c}
       /\ marks' = IF <<cur, c, chunks[cur][c].txid>> \in mined THEN marks \cup {c} ELSE marks
    /\ UNCHANGED <<tables, apiVars, due, cur, seen, result, faults, worldVars>>

\* ... it raises: the transaction is dropped, nothing is counted as an attempt.
AskFails ==
    /\ cur # NoUpload
    /\ toCheck # {}
    /\ faults < FaultBound
    /\ faults' = faults + 1
    /\ EndUpload
    /\ UNCHANGED tables

\* The chunks of u with the marks of this transaction applied.
Marked(u) == [c \in Chunks(u) |-> IF c \in marks THEN [chunks[u][c] EXCEPT !.status = "confirmed"]
                                                 ELSE chunks[u][c]]

Asked == cur # NoUpload /\ toCheck = {} /\ result = "none"

Pending == ChunksWith(cur, "pending")

\* The commit that ends an upload's transaction.
CommitUpload(row, rows) ==
    /\ uploads' = [uploads EXCEPT ![cur] = row]
    /\ chunks' = [chunks EXCEPT ![cur] = rows]
    /\ EndUpload
    /\ UNCHANGED faults

Settled(status) == [uploads[cur] EXCEPT !.status = status, !.attempts = 0, !.backoff = FALSE]

\* Mutant: complete once nothing is pending.
FinishEarly ==
    /\ Asked
    /\ \A c \in Chunks(cur) : Marked(cur)[c].status # "pending"
    /\ CommitUpload(Settled("complete"), Marked(cur))

\* Only the rows that are there are counted.
FinishUpload ==
    /\ Asked
    /\ \A c \in Chunks(cur) : Marked(cur)[c].status \in {"confirmed", "absent"}
    /\ CommitUpload(Settled("complete"), Marked(cur))

StayConfirming ==
    /\ Asked
    /\ Pending = {}
    /\ \E c \in Chunks(cur) : Marked(cur)[c].status = "submitted"
    /\ CommitUpload(Settled("confirming"), Marked(cur))

NextChunk == First(Pending)

\* update_identity with the first pending chunk; earlier writes may be unmined.
\* An exception may hide that the daemon took the write.
SubmitAccepted ==
    /\ Asked
    /\ Pending # {}
    /\ writes[cur][NextChunk] < WriteBound
    /\ writes' = [writes EXCEPT ![cur][NextChunk] = @ + 1]
    /\ \/ result' \in AnswerShapes /\ UNCHANGED faults
       \/ faults < FaultBound /\ faults' = faults + 1 /\ result' = "transient"
    /\ UNCHANGED <<tables, apiVars, due, cur, seen, toCheck, marks, daemon, mined>>

SubmitRefused ==
    /\ Asked
    /\ Pending # {}
    /\ result' \in {"transient", "permanent"}
    /\ UNCHANGED <<tables, apiVars, due, cur, seen, toCheck, marks, faults, worldVars>>

\* Only a dict answer yields the txid.
Submitted(rows) ==
    [rows EXCEPT ![NextChunk] = [status |-> "submitted",
                                 txid   |-> IF result = "dict" THEN writes[cur][NextChunk] ELSE 0]]

RecordSubmitted ==
    /\ result \in {"dict", "plain"}
    /\ CommitUpload(Settled("confirming"), Submitted(Marked(cur)))

\* A permanent error: attempts + 1 in SQL, on the row as it is now.
RecordPermanent ==
    /\ result = "permanent"
    /\ CommitUpload([status |-> "failed", attempts |-> uploads[cur].attempts + 1, backoff |-> FALSE],
                    Marked(cur))

\* Mutant: a status the table does not know.
RetryElsewhere(attempts, status) ==
    IF attempts + 1 >= MaxRetries
      THEN [status |-> "error", attempts |-> attempts + 1, backoff |-> FALSE]
      ELSE [status |-> status, attempts |-> attempts + 1, backoff |-> TRUE]

\* _record_storage_retry_or_failure: attempts and status as read at the beginning.
RetryOrFailure(attempts, status) ==
    IF attempts + 1 >= MaxRetries
      THEN [status |-> "failed", attempts |-> attempts + 1, backoff |-> FALSE]
      ELSE [status |-> status, attempts |-> attempts + 1, backoff |-> TRUE]

RecordTransient ==
    /\ result = "transient"
    /\ CommitUpload(RetryOrFailure(seen.attempts, seen.status), Marked(cur))

\* Nothing of an unfinished sweep is left.
Abandon ==
    /\ due' = {} /\ cur' = NoUpload
    /\ seen' = AbsentUpload /\ toCheck' = {} /\ marks' = {} /\ result' = "none"
    /\ UNCHANGED <<tables, apiVars, worldVars>>

\* The worker is killed; the next one starts with a new sweep.
Crash ==
    /\ due # {} \/ cur # NoUpload
    /\ faults < FaultBound
    /\ faults' = faults + 1
    /\ Abandon

-----------------------------------------------------------------------------
(* The outside world.                                                      *)

BackoffElapses(u) ==
    /\ uploads[u].backoff
    /\ uploads' = [uploads EXCEPT ![u].backoff = FALSE]
    /\ UNCHANGED <<chunks, apiVars, workerVars, faults, worldVars>>

\* Some write that is not in the chain yet gets mined.
Mine(u, c) ==
    /\ \E n \in 1 .. writes[u][c] :
          /\ <<u, c, n>> \notin mined
          /\ mined' = mined \cup {<<u, c, n>>}
    /\ UNCHANGED <<tables, apiVars, workerVars, faults, daemon, writes>>

\* Between two sweeps a daemon is taken out of the worker's configuration, or is put
\* back; each sweep is a process of its own and reads the configuration anew.
Configure(u) ==
    /\ due = {} /\ cur = NoUpload
    /\ daemon[u] \in {"enabled", "disabled"}
    /\ daemon' \in {[daemon EXCEPT ![u] = d] : d \in Daemons \ {"unresolved", daemon[u]}}
    /\ UNCHANGED <<tables, apiVars, workerVars, faults, writes, mined>>

-----------------------------------------------------------------------------

Api(u) == \/ CreateUpload(u) \/ CreateChunk(u) \/ ReturnId(u)
          \/ StartCheck(u) \/ StartUpdate(u) \/ RetryCheck(u) \/ RetryUpdate(u)

Sweep ==
    \/ SelectDue
    \/ \E u \in Uploads : BeginUpload(u) \/ SkipUpload(u)
    \/ AskChunk \/ FinishUpload \/ StayConfirming
    \/ SubmitAccepted \/ SubmitRefused
    \/ RecordSubmitted \/ RecordPermanent \/ RecordTransient

Fault == Crash \/ AskFails

World(u) == BackoffElapses(u) \/ Configure(u) \/ \E c \in Chunks(u) : Mine(u, c)

Next ==
    \/ \E u \in Uploads : Api(u) \/ World(u)
    \/ Sweep
    \/ Fault

Spec == Init /\ [][Next]_vars

\* The worker loop runs for ever.
WorkerFairness == WF_vars(Sweep)

\* Retry times pass, what was broadcast is mined.
WorldFairness ==
    \A u \in Uploads : WF_vars(BackoffElapses(u)) /\ \A c \in Chunks(u) : WF_vars(Mine(u, c))

Fairness == WorkerFairness /\ WorldFairness

FairSpec == Spec /\ Fairness

-----------------------------------------------------------------------------
(* Properties.                                                             *)

TypeOK ==
    /\ uploads \in [Uploads -> Upload]
    /\ chunks = [u \in Uploads |-> chunks[u]]
    /\ \A u \in Uploads : chunks[u] \in [Chunks(u) -> Chunk]
    /\ known \subseteq Uploads /\ starting \subseteq Uploads /\ retrying \subseteq Uploads
    /\ retries \in 0 .. RetryBound
    /\ due \subseteq Uploads
    /\ cur \in Uploads \cup {NoUpload}
    /\ seen \in Upload
    /\ cur = NoUpload => toCheck = {} /\ marks = {} /\ result = "none"
    /\ cur # NoUpload => toCheck \subseteq Chunks(cur) /\ marks \subseteq Chunks(cur)
    /\ result \in Results
    /\ faults \in 0 .. FaultBound
    /\ daemon \in [Uploads -> Daemons \cup {"none"}]
    /\ writes = [u \in Uploads |-> writes[u]]
    /\ \A u \in Uploads : writes[u] \in [Chunks(u) -> 0 .. WriteBound]
    /\ \A m \in mined : m[1] \in Uploads /\ m[2] \in Chunks(m[1]) /\ m[3] \in 1 .. WriteBound

\* A chunk counts as confirmed only when the very transaction recorded for it is
\* in the chain: not another write of the chunk, not an earlier answer.
ConfirmedIsMined ==
    \A u \in Uploads : \A c \in Chunks(u) :
        chunks[u][c].status = "confirmed" => <<u, c, chunks[u][c].txid>> \in mined

\* An upload is only complete with every one of its chunk_count chunks confirmed,
\* although the worker counts the rows it finds and the rows are inserted one by one.
CompleteIsWhole ==
    \A u \in Uploads : uploads[u].status = "complete" =>
        \A c \in Chunks(u) : chunks[u][c].status = "confirmed"

\* An upload is resumed, not redone: a chunk is written a second time only when a
\* worker died or an answer was lost, whatever start and retry calls race with it.
NoNeedlessRewrite ==
    \A u \in Uploads : \A c \in Chunks(u) : writes[u][c] <= 1 + faults

\* No start or retry call and no rollback makes the table forget a write: a chunk
\* that is on its way keeps its transaction and only moves on to confirmed.
WritesAreKept ==
    [][\A u \in Uploads : \A c \in Chunks(u) :
          chunks[u][c].status \in {"submitted", "confirmed"} =>
              /\ chunks'[u][c].txid = chunks[u][c].txid
              /\ chunks'[u][c].status \in {chunks[u][c].status, "confirmed"}]_vars

\* What GET /api/storage/upload/{id} answers, without the txids.
Progress == INSTANCE UploadProgress WITH
    status    <- [u \in Uploads |-> uploads[u].status],
    sent      <- [u \in Uploads |-> ChunksWith(u, "submitted") \cup ChunksWith(u, "confirmed")],
    confirmed <- [u \in Uploads |-> ChunksWith(u, "confirmed")]

\* The sweep, racing with start and retry, implements the promised progress: chunks
\* go out one by one in the order of their index and are never taken back, although
\* the status is; complete comes with the last confirmation.
ProgressKept == Progress!Spec

\* An upload in the worker's hands leaves them: it completes, fails, or an operator
\* puts it back to pending; whatever happens to other uploads, and from wherever its
\* own got to.  It may stay in two cases only: its daemon is not configured, and no
\* attempt is counted (worker.py:550-556); or the answer to a write told no txid, and
\* nothing can be asked about it (worker.py:505-507).
EveryUploadEnds ==
    \A u \in Uploads :
        LET unserved == daemon[u] # "enabled"
            lost     == \E c \in Chunks(u) : chunks[u][c] = [status |-> "submitted", txid |-> 0]
        IN  (uploads[u].status \in Writable)
                ~> (uploads[u].status \notin Writable \/ unserved \/ lost)

\* CONTENTMULTIMAP_STORAGE_GUIDE.md:249: "permanent precheck errors: mark chunk failed
\* and stop upload".  An upload in the worker's hands leaves them in any case.
ErrorsStopUploads ==
    \A u \in Uploads : (uploads[u].status \in Writable) ~> (uploads[u].status \notin Writable)

\* STORAGE_IMPLEMENTATION_GUIDE.md: "TXID durability is non-negotiable: persist
\* every write txid".
TxidsAreDurable ==
    \A u \in Uploads : \A c \in Chunks(u) :
        chunks[u][c].status = "submitted" => chunks[u][c].txid # 0

=============================================================================
