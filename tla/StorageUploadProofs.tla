------------------------- MODULE StorageUploadProofs -------------------------
(***************************************************************************)
(* Theorems about StorageUpload, for any set of uploads, any number of     *)
(* chunks and any bounds.                                                  *)
(***************************************************************************)
EXTENDS StorageUpload, WellFoundedInduction, TLAPS

-----------------------------------------------------------------------------
(* The inductive invariant.                                                *)

\* A chunk whose write the daemon has answered.
Sent(u, c) == chunks[u][c].status \in {"submitted", "confirmed"}

\* A chunk is only sent when the ones before it were.
SentInOrder ==
    \A u \in Uploads : \A c, d \in Chunks(u) : c < d /\ Sent(u, d) => Sent(u, c)

\* Whatever start, retry and the sweep work on was returned to the client, so it
\* has all of its rows.
KnownAreWhole ==
    /\ starting \subseteq known /\ retrying \subseteq known /\ due \subseteq known
    /\ cur \in known \cup {NoUpload}
    /\ \A u \in known : /\ uploads[u].status # "absent"
                        /\ \A c \in Chunks(u) : chunks[u][c].status # "absent"
    /\ \A u \in Uploads : uploads[u].status \notin {"absent", "pending"} => u \in known
    /\ cur # NoUpload => seen.status # "absent"

\* What the sweep has read of the submitted chunks is still so: nothing else moves them.
ReadStaysTrue ==
    cur # NoUpload =>
        /\ \A c \in toCheck \cup marks : chunks[cur][c].status = "submitted"
        /\ \A c \in marks : <<cur, c, chunks[cur][c].txid>> \in mined
        /\ seen.status = "complete" =>
               \A c \in Chunks(cur) : chunks[cur][c].status = "confirmed"

\* A chunk written more often than faults occurred is recorded as sent, or is
\* about to be.
RewritesCostFaults ==
    /\ result \in {"dict", "plain"} => Pending # {}
    /\ \A u \in Uploads : \A c \in Chunks(u) :
           \/ writes[u][c] <= faults
           \/ /\ writes[u][c] <= 1 + faults
              /\ \/ Sent(u, c)
                 \/ u = cur /\ c = NextChunk /\ result \in {"dict", "plain"}

\* With what it implies of the chain and of complete uploads.
IndInv ==
    /\ SentInOrder /\ KnownAreWhole /\ ReadStaysTrue /\ RewritesCostFaults
    /\ ConfirmedIsMined /\ CompleteIsWhole

-----------------------------------------------------------------------------
(* Lemmas on the operators.                                                *)

\* A set of chunk indices that is not empty has a least one.
LEMMA FirstIsLeast ==
    ASSUME NEW S, S \subseteq Nat, S # {}
    PROVE  First(S) \in S /\ \A d \in S : First(S) <= d
<1>1. PICK x \in S : \A y \in S : ~ (<<y, x>> \in OpToRel(<, Nat))
  BY WFMin, NatLessThanWellFounded
<1>2. ASSUME NEW y \in S  PROVE x <= y
  <2>1. x \in Nat /\ y \in Nat
    OBVIOUS
  <2>2. ~ (y < x)
    BY <1>1, <2>1 DEF OpToRel
  <2> QED
    BY <2>1, <2>2
<1> QED
  BY <1>2 DEF First

\* Chunk indices are numbers.
LEMMA ChunksAreNat == \A u \in Uploads : Chunks(u) \subseteq Nat
  BY StorageAssumption DEF Chunks

\* The next chunk to write is a pending one, and the first of them.
LEMMA NextIsPending ==
    ASSUME cur \in Uploads, Pending # {}
    PROVE  /\ NextChunk \in Chunks(cur) /\ chunks[cur][NextChunk].status = "pending"
           /\ \A c \in Chunks(cur) : chunks[cur][c].status = "pending" => NextChunk <= c
<1>1. Pending \subseteq Chunks(cur) /\ Pending \subseteq Nat
  BY ChunksAreNat DEF Pending, ChunksWith
<1>2. NextChunk \in Pending /\ \A c \in Pending : NextChunk <= c
  BY <1>1, FirstIsLeast DEF NextChunk
<1> QED
  BY <1>2 DEF Pending, ChunksWith

\* No code sets a chunk to "failed", so the retry resets none.
LEMMA RetryResetsNone ==
    ASSUME TypeOK, NEW u \in Uploads
    PROVE  [chunks EXCEPT ![u] = [c \in Chunks(u) |-> ResetFailed(@[c])]] = chunks
<1>1. chunks[u] \in [Chunks(u) -> Chunk]
  BY DEF TypeOK
<1>2. \A c \in Chunks(u) : ResetFailed(chunks[u][c]) = chunks[u][c]
  BY <1>1 DEF Chunk, ResetFailed
<1>3. [c \in Chunks(u) |-> ResetFailed(chunks[u][c])] = chunks[u]
  BY <1>1, <1>2
<1>4. chunks = [v \in Uploads |-> chunks[v]]
  BY DEF TypeOK
<1> QED
  BY <1>3, <1>4

-----------------------------------------------------------------------------
(* Types.                                                                  *)

\* The marks leave the rows of an upload well formed.
LEMMA MarkedType ==
    ASSUME TypeOK, cur \in Uploads
    PROVE  Marked(cur) \in [Chunks(cur) -> Chunk]
<1>1. chunks[cur] \in [Chunks(cur) -> Chunk]
  BY DEF TypeOK
<1>2. \A c \in Chunks(cur) : [chunks[cur][c] EXCEPT !.status = "confirmed"] \in Chunk
  BY <1>1 DEF Chunk
<1> QED
  BY <1>1, <1>2 DEF Marked

\* So does the record of a write, or of none if nothing is pending.
LEMMA SubmittedType ==
    ASSUME TypeOK, cur \in Uploads
    PROVE  Submitted(Marked(cur)) \in [Chunks(cur) -> Chunk]
<1>1. CASE NextChunk \in Chunks(cur)
  <2>1. writes[cur][NextChunk] \in Nat
    BY <1>1 DEF TypeOK
  <2>2. [status |-> "submitted", txid |-> IF result = "dict" THEN writes[cur][NextChunk] ELSE 0] \in Chunk
    BY <2>1 DEF Chunk
  <2> QED
    BY <2>2, MarkedType DEF Submitted
<1>2. CASE NextChunk \notin Chunks(cur)
  BY <1>2, MarkedType DEF Submitted
<1> QED
  BY <1>1, <1>2

\* The row that a sweep writes for an upload is well formed.
LEMMA SettledType ==
    ASSUME TypeOK, cur \in Uploads, NEW status \in UploadStatuses
    PROVE  Settled(status) \in Upload
<1>1. uploads[cur] \in Upload
  BY DEF TypeOK
<1> QED
  BY <1>1 DEF Settled, Upload

\* After the commit of an upload everything is well formed.
LEMMA CommitType ==
    ASSUME TypeOK, cur \in Uploads, NEW row \in Upload, NEW rows \in [Chunks(cur) -> Chunk],
           CommitUpload(row, rows)
    PROVE  TypeOK'
<1>1. uploads' \in [Uploads -> Upload]
  BY DEF TypeOK, CommitUpload
<1>2. chunks' = [u \in Uploads |-> IF u = cur THEN rows ELSE chunks[u]]
  BY DEF TypeOK, CommitUpload
<1>3. chunks' = [u \in Uploads |-> chunks'[u]] /\ \A u \in Uploads : chunks'[u] \in [Chunks(u) -> Chunk]
  BY <1>2 DEF TypeOK
<1>4. /\ UNCHANGED <<apiVars, worldVars, faults>>
      /\ due' \subseteq due /\ cur' = NoUpload /\ seen' = AbsentUpload
      /\ toCheck' = {} /\ marks' = {} /\ result' = "none"
  BY DEF CommitUpload, EndUpload
<1>5. AbsentUpload \in Upload
  BY DEF AbsentUpload, Upload, UploadStatuses
<1> QED
  BY <1>1, <1>3, <1>4, <1>5, StorageAssumption DEF TypeOK, apiVars, worldVars, Results

\* API handlers keep the types.
LEMMA ApiType ==
    ASSUME TypeOK, NEW u \in Uploads, Api(u)
    PROVE  TypeOK'
<1> USE DEF TypeOK, apiVars, workerVars, jobVars, worldVars, tables
<1>1. CASE CreateUpload(u)
  <2>1. [uploads[u] EXCEPT !.status = "pending"] \in Upload
    BY DEF Upload, UploadStatuses
  <2>2. daemon' \in [Uploads -> Daemons \cup {"none"}]
    BY <1>1 DEF CreateUpload
  <2> QED
    BY <1>1, <2>1, <2>2 DEF CreateUpload
<1>2. CASE CreateChunk(u)
  <2> DEFINE c == First(ChunksWith(u, "absent"))
  <2>1. c \in Chunks(u)
    BY <1>2, ChunksAreNat, FirstIsLeast DEF CreateChunk, ChunksWith
  <2> HIDE DEF c
  <2>2. chunks' = [chunks EXCEPT ![u][c].status = "pending"]
    BY <1>2 DEF CreateChunk, c
  <2>3. [chunks[u][c] EXCEPT !.status = "pending"] \in Chunk
    BY <2>1 DEF Chunk
  <2>4. chunks' = [v \in Uploads |-> chunks'[v]]
    BY <2>2
  <2>5. \A v \in Uploads : chunks'[v] \in [Chunks(v) -> Chunk]
    BY <2>1, <2>2, <2>3
  <2> QED
    BY <1>2, <2>4, <2>5 DEF CreateChunk
<1>3. CASE ReturnId(u)
  BY <1>3 DEF ReturnId
<1>4. CASE StartCheck(u)
  BY <1>4 DEF StartCheck
<1>5. CASE StartUpdate(u)
  <2>1. [uploads[u] EXCEPT !.status = "uploading"] \in Upload
    BY DEF Upload, UploadStatuses
  <2> QED
    BY <1>5, <2>1 DEF StartUpdate
<1>6. CASE RetryCheck(u)
  BY <1>6, StorageAssumption DEF RetryCheck
<1>7. CASE RetryUpdate(u)
  <2>1. [uploads[u] EXCEPT !.status = "pending"] \in Upload
    BY DEF Upload, UploadStatuses
  <2>2. chunks' = chunks
    BY <1>7, RetryResetsNone DEF RetryUpdate
  <2> QED
    BY <1>7, <2>1, <2>2 DEF RetryUpdate
<1> QED
  BY <1>1, <1>2, <1>3, <1>4, <1>5, <1>6, <1>7 DEF Api

\* The steps of a sweep keep the types.
LEMMA SweepType ==
    ASSUME TypeOK, Sweep
    PROVE  TypeOK'
<1>1. CASE SelectDue
  BY <1>1 DEF SelectDue, TypeOK, apiVars, jobVars, worldVars, tables
<1>2. ASSUME NEW u \in Uploads, BeginUpload(u)  PROVE TypeOK'
  <2>1. u # NoUpload
    BY StorageAssumption
  <2> QED
    BY <1>2, <2>1 DEF BeginUpload, TypeOK, apiVars, worldVars, tables, ChunksWith
<1>11. ASSUME NEW u \in Uploads, SkipUpload(u)  PROVE TypeOK'
  BY <1>11 DEF SkipUpload, TypeOK, apiVars, jobVars, worldVars, tables
<1>3. CASE AskChunk
  <2> DEFINE c == First(toCheck)
  <2>1. cur \in Uploads /\ toCheck \subseteq Chunks(cur) /\ toCheck # {}
    BY <1>3 DEF AskChunk, TypeOK
  <2>2. c \in Chunks(cur)
    BY <2>1, ChunksAreNat, FirstIsLeast
  <2> HIDE DEF c
  <2>3. toCheck' \subseteq Chunks(cur) /\ marks' \subseteq Chunks(cur)
    BY <1>3, <2>1, <2>2 DEF AskChunk, TypeOK, c
  <2> QED
    BY <1>3, <2>3 DEF AskChunk, TypeOK, apiVars, worldVars, tables
<1>4. CASE FinishUpload
  <2>1. cur \in Uploads
    BY <1>4 DEF FinishUpload, Asked, TypeOK
  <2>2. Settled("complete") \in Upload
    BY <2>1, SettledType DEF UploadStatuses
  <2> QED
    BY <1>4, <2>1, <2>2, MarkedType, CommitType DEF FinishUpload
<1>5. CASE StayConfirming
  <2>1. cur \in Uploads
    BY <1>5 DEF StayConfirming, Asked, TypeOK
  <2>2. Settled("confirming") \in Upload
    BY <2>1, SettledType DEF UploadStatuses
  <2> QED
    BY <1>5, <2>1, <2>2, MarkedType, CommitType DEF StayConfirming
<1>6. CASE SubmitAccepted
  <2> DEFINE c == NextChunk
  <2>1. cur \in Uploads /\ c \in Chunks(cur)
    BY <1>6, NextIsPending DEF SubmitAccepted, Asked, TypeOK
  <2>2. writes[cur][c] < WriteBound /\ writes' = [writes EXCEPT ![cur][c] = @ + 1]
    BY <1>6 DEF SubmitAccepted
  <2> HIDE DEF c
  <2>3. writes[cur] \in [Chunks(cur) -> 0 .. WriteBound]
    BY <2>1 DEF TypeOK
  <2>4. writes[cur][c] + 1 \in 0 .. WriteBound
    BY <2>1, <2>2, <2>3, StorageAssumption
  <2>5. writes' = [u \in Uploads |-> writes'[u]] /\ \A u \in Uploads : writes'[u] \in [Chunks(u) -> 0 .. WriteBound]
    BY <2>1, <2>2, <2>4 DEF TypeOK
  <2>6. result' \in Results
    BY <1>6, StorageAssumption DEF SubmitAccepted, Results
  <2>7. faults' \in 0 .. FaultBound
    BY <1>6, StorageAssumption DEF SubmitAccepted, TypeOK
  <2> QED
    BY <1>6, <2>1, <2>5, <2>6, <2>7, StorageAssumption DEF SubmitAccepted, Asked, TypeOK, apiVars, tables
<1>7. CASE SubmitRefused
  BY <1>7 DEF SubmitRefused, Asked, TypeOK, apiVars, worldVars, tables, Results
<1>8. CASE RecordSubmitted
  <2>1. cur \in Uploads
    BY <1>8 DEF RecordSubmitted, TypeOK
  <2>2. Settled("confirming") \in Upload
    BY <2>1, SettledType DEF UploadStatuses
  <2> QED
    BY <1>8, <2>1, <2>2, SubmittedType, CommitType DEF RecordSubmitted
<1>9. CASE RecordPermanent
  <2>1. cur \in Uploads
    BY <1>9 DEF RecordPermanent, TypeOK
  <2>2. [status |-> "failed", attempts |-> uploads[cur].attempts + 1, backoff |-> FALSE] \in Upload
    BY <2>1 DEF Upload, UploadStatuses, TypeOK
  <2> QED
    BY <1>9, <2>1, <2>2, MarkedType, CommitType DEF RecordPermanent
<1>10. CASE RecordTransient
  <2>1. cur \in Uploads
    BY <1>10 DEF RecordTransient, TypeOK
  <2>2. RetryOrFailure(seen.attempts, seen.status) \in Upload
    BY DEF RetryOrFailure, Upload, UploadStatuses, TypeOK
  <2> QED
    BY <1>10, <2>1, <2>2, MarkedType, CommitType DEF RecordTransient
<1> QED
  BY <1>1, <1>2, <1>3, <1>4, <1>5, <1>6, <1>7, <1>8, <1>9, <1>10, <1>11 DEF Sweep

\* Faults keep the types, and so do the outside world's steps.
LEMMA WorldType ==
    ASSUME TypeOK,
           Fault \/ \E u \in Uploads : World(u)
    PROVE  TypeOK'
<1>0. AbsentUpload \in Upload
  BY DEF AbsentUpload, Upload, UploadStatuses
<1> USE <1>0, StorageAssumption DEF TypeOK, apiVars, jobVars, workerVars, worldVars, tables, Results
<1>1. CASE Crash
  BY <1>1 DEF Crash, Abandon
<1>2. CASE AskFails
  BY <1>2 DEF AskFails, EndUpload
<1>3. ASSUME NEW u \in Uploads, Configure(u)  PROVE TypeOK'
  BY <1>3 DEF Configure
<1>4. ASSUME NEW u \in Uploads, BackoffElapses(u)  PROVE TypeOK'
  <2>1. [uploads[u] EXCEPT !.backoff = FALSE] \in Upload
    BY DEF Upload
  <2> QED
    BY <1>4, <2>1 DEF BackoffElapses
<1>5. ASSUME NEW u \in Uploads, NEW c \in Chunks(u), Mine(u, c)  PROVE TypeOK'
  <2>1. PICK n \in 1 .. writes[u][c] : mined' = mined \cup {<<u, c, n>>}
    BY <1>5 DEF Mine
  <2>2. n \in 1 .. WriteBound
    BY <2>1
  <2> QED
    BY <1>5, <2>1, <2>2 DEF Mine
<1> QED
  BY <1>1, <1>2, <1>3, <1>4, <1>5 DEF Fault, World

\* Every variable keeps its type.
THEOREM TypeCorrect == Spec => []TypeOK
<1>1. Init => TypeOK
  <2> SUFFICES ASSUME Init  PROVE TypeOK
    OBVIOUS
  <2>1. AbsentUpload \in Upload /\ AbsentChunk \in Chunk
    BY DEF AbsentUpload, AbsentChunk, Upload, Chunk, UploadStatuses
  <2> QED
    BY <2>1, StorageAssumption DEF Init, TypeOK, Results
<1>2. TypeOK /\ [Next]_vars => TypeOK'
  <2>1. TypeOK /\ UNCHANGED vars => TypeOK'
    BY DEF TypeOK, vars, tables, apiVars, workerVars, jobVars, worldVars
  <2> QED
    BY <2>1, ApiType, SweepType, WorldType DEF Next
<1> QED
  BY <1>1, <1>2, PTL DEF Spec

-----------------------------------------------------------------------------
(* What a step does to the tables.                                         *)

\* How one chunk may move: its row is inserted; or a commit records it as
\* confirmed because of a mark, or as submitted because its write was answered.
ChunkMove(u, c) ==
    \/ chunks'[u][c] = chunks[u][c]
    \/ /\ chunks[u][c].status = "absent"
       /\ chunks'[u][c] = [chunks[u][c] EXCEPT !.status = "pending"]
    \/ /\ u = cur /\ c \in marks /\ cur' = NoUpload
       /\ chunks'[u][c] = [chunks[u][c] EXCEPT !.status = "confirmed"]
    \/ /\ u = cur /\ c = NextChunk /\ result \in {"dict", "plain"} /\ cur' = NoUpload
       /\ RecordSubmitted /\ chunks'[u][c].status = "submitted"

\* A commit that records the marks moves the marked chunks of the upload at hand.
LEMMA MarkedMove ==
    ASSUME TypeOK, cur \in Uploads, NEW row, CommitUpload(row, Marked(cur)),
           NEW u \in Uploads, NEW c \in Chunks(u)
    PROVE  chunks'[u][c] = IF u = cur /\ c \in marks
                           THEN [chunks[u][c] EXCEPT !.status = "confirmed"] ELSE chunks[u][c]
<1>1. chunks' = [chunks EXCEPT ![cur] = Marked(cur)]
  BY DEF CommitUpload
<1>2. chunks = [v \in Uploads |-> chunks[v]]
  BY DEF TypeOK
<1> QED
  BY <1>1, <1>2 DEF Marked

\* The commit of a write also records the next chunk as submitted.
LEMMA SubmittedMove ==
    ASSUME TypeOK, IndInv, RecordSubmitted, NEW u \in Uploads, NEW c \in Chunks(u)
    PROVE  IF u = cur /\ c = NextChunk THEN chunks'[u][c].status = "submitted"
           ELSE chunks'[u][c] = IF u = cur /\ c \in marks
                                THEN [chunks[u][c] EXCEPT !.status = "confirmed"] ELSE chunks[u][c]
<1>1. chunks' = [chunks EXCEPT ![cur] = Submitted(Marked(cur))]
  BY DEF CommitUpload, RecordSubmitted
<1>2. chunks = [v \in Uploads |-> chunks[v]]
  BY DEF TypeOK
<1>3. CASE u # cur
  BY <1>1, <1>2, <1>3
<1>4. CASE u = cur
  <2>1. chunks'[u] = Submitted(Marked(cur))
    BY <1>1, <1>2, <1>4
  <2>2. Marked(cur) \in [Chunks(cur) -> Chunk]
    BY <1>4, MarkedType
  <2>3. CASE c = NextChunk
    BY <1>4, <2>1, <2>2, <2>3 DEF Submitted
  <2>4. CASE c # NextChunk
    <3>1. chunks'[u][c] = Marked(cur)[c]
      BY <1>4, <2>1, <2>2, <2>4 DEF Submitted
    <3> QED
      BY <1>4, <2>4, <3>1 DEF Marked
  <2> QED
    BY <2>3, <2>4
<1> QED
  BY <1>3, <1>4

\* A commit is the end of the work on an upload.
LEMMA CommitEnds ==
    ASSUME NEW row, NEW rows, CommitUpload(row, rows)
    PROVE  /\ cur' = NoUpload /\ result' = "none"
           /\ UNCHANGED <<apiVars, worldVars, faults>> /\ due' \subseteq due
  BY DEF CommitUpload, EndUpload

\* The steps that end the work on an upload with an UPDATE.
Recording == FinishUpload \/ StayConfirming \/ RecordSubmitted \/ RecordPermanent \/ RecordTransient

\* Only commits and insertions change a chunk.
LEMMA ChunksOnlyMove ==
    ASSUME TypeOK, IndInv, [Next]_vars, NEW u \in Uploads, NEW c \in Chunks(u)
    PROVE  ChunkMove(u, c)
<1>1. ASSUME NEW v \in Uploads, Api(v)  PROVE ChunkMove(u, c)
  <2>1. CASE CreateChunk(v)
    <3> DEFINE d == First(ChunksWith(v, "absent"))
    <3>1. d \in Chunks(v) /\ chunks[v][d].status = "absent"
      BY <2>1, ChunksAreNat, FirstIsLeast DEF CreateChunk, ChunksWith
    <3> HIDE DEF d
    <3>2. chunks' = [chunks EXCEPT ![v][d].status = "pending"]
      BY <2>1 DEF CreateChunk, d
    <3>3. chunks = [w \in Uploads |-> chunks[w]] /\ chunks[u] \in [Chunks(u) -> Chunk]
      BY DEF TypeOK
    <3>4. CASE u = v /\ c = d
      BY <3>1, <3>2, <3>3, <3>4 DEF ChunkMove
    <3>5. CASE ~ (u = v /\ c = d)
      BY <3>1, <3>2, <3>3, <3>5 DEF ChunkMove
    <3> QED
      BY <3>4, <3>5
  <2>2. CASE RetryUpdate(v)
    BY <2>2, RetryResetsNone DEF RetryUpdate, ChunkMove
  <2>3. CASE CreateUpload(v) \/ ReturnId(v) \/ StartCheck(v) \/ StartUpdate(v) \/ RetryCheck(v)
    BY <2>3 DEF CreateUpload, ReturnId, StartCheck, StartUpdate, RetryCheck, tables, ChunkMove
  <2> QED
    BY <1>1, <2>1, <2>2, <2>3 DEF Api
<1>2. CASE FinishUpload \/ StayConfirming \/ RecordPermanent \/ RecordTransient
  <2>1. PICK row : CommitUpload(row, Marked(cur))
    BY <1>2 DEF FinishUpload, StayConfirming, RecordPermanent, RecordTransient
  <2>2. cur \in Uploads
    BY <1>2 DEF FinishUpload, StayConfirming, RecordPermanent, RecordTransient, Asked, TypeOK
  <2> QED
    BY <2>1, <2>2, MarkedMove, CommitEnds DEF ChunkMove
<1>3. CASE RecordSubmitted
  <2>1. result \in {"dict", "plain"} /\ cur' = NoUpload
    BY <1>3, CommitEnds DEF RecordSubmitted
  <2> QED
    BY <1>3, <2>1, SubmittedMove DEF ChunkMove
<1>4. CASE UNCHANGED chunks
  BY <1>4 DEF ChunkMove
<1>5. ASSUME NEW v \in Uploads, World(v)
      PROVE  UNCHANGED chunks
  BY <1>5 DEF World, BackoffElapses, Configure, Mine, tables
<1>6. ASSUME Sweep, ~ Recording  PROVE UNCHANGED chunks
  BY <1>6 DEF Sweep, Recording, SelectDue, BeginUpload, SkipUpload, AskChunk, SubmitAccepted, SubmitRefused, tables
<1>7. ASSUME Fault  PROVE UNCHANGED chunks
  BY <1>7 DEF Fault, Crash, Abandon, AskFails, tables, tables
<1>8. ASSUME UNCHANGED vars  PROVE UNCHANGED chunks
  BY <1>8 DEF vars, tables
<1> QED
  BY <1>1, <1>2, <1>3, <1>4, <1>5, <1>6, <1>7, <1>8 DEF Next, Recording

\* What was sent stays sent, what was confirmed stays confirmed, with its transaction.
LEMMA SentStays ==
    ASSUME TypeOK, IndInv, [Next]_vars, NEW u \in Uploads, NEW c \in Chunks(u)
    PROVE  /\ chunks[u][c].status # "absent" => chunks'[u][c].status # "absent"
           /\ Sent(u, c) => /\ Sent(u, c)' /\ chunks'[u][c].txid = chunks[u][c].txid
                            /\ chunks'[u][c].status \in {chunks[u][c].status, "confirmed"}
<1>1. chunks[u][c] \in Chunk
  BY DEF TypeOK
<1>2. ChunkMove(u, c)
  BY ChunksOnlyMove
<1>3. CASE chunks'[u][c] = chunks[u][c]
  BY <1>3 DEF Sent
<1>4. CASE chunks[u][c].status = "absent" /\ chunks'[u][c] = [chunks[u][c] EXCEPT !.status = "pending"]
  BY <1>1, <1>4 DEF Sent, Chunk
<1>5. CASE chunks'[u][c] = [chunks[u][c] EXCEPT !.status = "confirmed"]
  BY <1>1, <1>5 DEF Sent, Chunk
<1>6. CASE u = cur /\ c = NextChunk /\ result \in {"dict", "plain"} /\ chunks'[u][c].status = "submitted"
  <2>1. u = cur /\ Pending # {}
    BY <1>6 DEF IndInv, RewritesCostFaults
  <2>2. chunks[u][c].status = "pending"
    BY <1>6, <2>1, NextIsPending
  <2> QED
    BY <1>6, <2>2 DEF Sent
<1> QED
  BY <1>2, <1>3, <1>4, <1>5, <1>6 DEF ChunkMove

\* Mined writes stay mined, and no write is taken back.
LEMMA ChainGrows ==
    ASSUME [Next]_vars
    PROVE  mined \subseteq mined'
<1> USE DEF worldVars, apiVars, tables, workerVars, jobVars
<1>1. ASSUME NEW u \in Uploads, Api(u)  PROVE UNCHANGED mined
  BY <1>1 DEF Api, CreateUpload, CreateChunk, ReturnId, StartCheck, StartUpdate, RetryCheck, RetryUpdate
<1>2. ASSUME NEW u \in Uploads, BackoffElapses(u) \/ Configure(u)  PROVE UNCHANGED mined
  BY <1>2 DEF BackoffElapses, Configure
<1>3. ASSUME NEW u \in Uploads, NEW c \in Chunks(u), Mine(u, c)  PROVE mined \subseteq mined'
  BY <1>3 DEF Mine
<1>4. ASSUME Sweep  PROVE UNCHANGED mined
  BY <1>4 DEF Sweep, SelectDue, BeginUpload, SkipUpload, AskChunk, SubmitAccepted, SubmitRefused,
     FinishUpload, StayConfirming, RecordSubmitted, RecordPermanent, RecordTransient, CommitUpload, EndUpload
<1>5. ASSUME Fault  PROVE UNCHANGED mined
  BY <1>5 DEF Fault, Crash, Abandon, AskFails, EndUpload
<1>6. ASSUME UNCHANGED vars  PROVE UNCHANGED mined
  BY <1>6 DEF vars
<1> QED
  BY <1>1, <1>2, <1>3, <1>4, <1>5, <1>6 DEF Next, World

\* The number of faults never falls.
LEMMA FaultsGrow ==
    ASSUME TypeOK, [Next]_vars
    PROVE  faults \in Nat /\ faults' \in Nat /\ faults <= faults'
<1>0. faults \in Nat
  BY StorageAssumption DEF TypeOK
<1>1. faults' = faults \/ faults' = faults + 1
  <2> USE DEF vars
  <2>1. ASSUME NEW u \in Uploads, Api(u)  PROVE faults' = faults
    BY <2>1 DEF Api, CreateUpload, CreateChunk, ReturnId, StartCheck, StartUpdate, RetryCheck, RetryUpdate
  <2>2. ASSUME NEW u \in Uploads, World(u)
        PROVE  faults' = faults
    BY <2>2 DEF World, BackoffElapses, Configure, Mine
  <2>3. ASSUME Sweep  PROVE faults' = faults \/ faults' = faults + 1
    BY <2>3 DEF Sweep, SelectDue, BeginUpload, SkipUpload, AskChunk, SubmitAccepted, SubmitRefused,
       FinishUpload, StayConfirming, RecordSubmitted, RecordPermanent, RecordTransient, CommitUpload
  <2>4. ASSUME Fault  PROVE faults' = faults + 1
    BY <2>4 DEF Fault, Crash, AskFails
  <2> QED
    BY <2>1, <2>2, <2>3, <2>4 DEF Next
<1> QED
  BY <1>0, <1>1

\* How the status of an upload may move: its row is inserted; or the upload is one
\* that the client knows, which becomes complete only with all chunks confirmed.
StatusMove(u) ==
    \/ uploads'[u].status = uploads[u].status
    \/ uploads[u].status = "absent" /\ uploads'[u].status = "pending"
    \/ /\ u \in known
       /\ uploads'[u].status \in UploadStatuses \ {"absent"}
       /\ uploads'[u].status = "complete" => \A c \in Chunks(u) : chunks'[u][c].status = "confirmed"

\* A commit of the upload at hand that does not make it complete is such a move.
LEMMA CommitStatusMove ==
    ASSUME TypeOK, IndInv, cur # NoUpload, NEW row, NEW rows, CommitUpload(row, rows),
           row.status \in UploadStatuses \ {"absent"},
           row.status = "complete" => \A c \in Chunks(cur) : chunks'[cur][c].status = "confirmed",
           NEW u \in Uploads
    PROVE  StatusMove(u)
<1>1. uploads' = [uploads EXCEPT ![cur] = row]
  BY DEF CommitUpload
<1>2. cur \in known /\ uploads \in [Uploads -> Upload]
  BY DEF IndInv, KnownAreWhole, TypeOK
<1> QED
  BY <1>1, <1>2 DEF StatusMove

\* Every step moves statuses like that.
LEMMA StatusOnlyMoves ==
    ASSUME TypeOK, IndInv, [Next]_vars, NEW u \in Uploads
    PROVE  StatusMove(u)
<1>0. uploads \in [Uploads -> Upload] /\ starting \subseteq known /\ retrying \subseteq known
  BY DEF TypeOK, IndInv, KnownAreWhole
<1>1. ASSUME NEW v \in Uploads, Api(v)  PROVE StatusMove(u)
  <2>1. CASE CreateUpload(v)
    BY <1>0, <2>1 DEF CreateUpload, StatusMove
  <2>2. CASE StartUpdate(v)
    BY <1>0, <2>2 DEF StartUpdate, StatusMove, UploadStatuses
  <2>3. CASE RetryUpdate(v)
    BY <1>0, <2>3 DEF RetryUpdate, StatusMove, UploadStatuses
  <2>4. CASE CreateChunk(v) \/ ReturnId(v) \/ StartCheck(v) \/ RetryCheck(v)
    BY <2>4 DEF CreateChunk, ReturnId, StartCheck, RetryCheck, tables, StatusMove
  <2> QED
    BY <1>1, <2>1, <2>2, <2>3, <2>4 DEF Api
<1>2. CASE FinishUpload
  <2>1. cur # NoUpload /\ cur \in Uploads /\ cur \in known
    BY <1>2 DEF FinishUpload, Asked, TypeOK, IndInv, KnownAreWhole
  <2>2. ASSUME NEW c \in Chunks(cur)  PROVE chunks'[cur][c].status = "confirmed"
    <3>1. chunks'[cur][c] = Marked(cur)[c]
      BY <1>2, <2>1, MarkedMove DEF FinishUpload, Marked
    <3>2. Marked(cur)[c].status \in {"confirmed", "absent"}
      BY <1>2 DEF FinishUpload
    <3>3. chunks[cur][c].status # "absent" /\ chunks[cur][c] \in Chunk
      BY <2>1 DEF IndInv, KnownAreWhole, TypeOK
    <3>4. Marked(cur)[c].status # "absent"
      BY <3>3 DEF Marked, Chunk
    <3> QED
      BY <3>1, <3>2, <3>4
  <2>3. Settled("complete").status = "complete"
    BY <1>0, <2>1 DEF Settled, Upload
  <2>4. CommitUpload(Settled("complete"), Marked(cur))
    BY <1>2 DEF FinishUpload
  <2> QED
    BY <2>1, <2>2, <2>3, <2>4, CommitStatusMove DEF UploadStatuses
<1>3. CASE StayConfirming \/ RecordSubmitted
  <2>1. PICK rows : CommitUpload(Settled("confirming"), rows)
    BY <1>3 DEF StayConfirming, RecordSubmitted
  <2>2. cur # NoUpload /\ cur \in Uploads
    BY <1>3 DEF StayConfirming, RecordSubmitted, Asked, TypeOK
  <2>3. Settled("confirming").status = "confirming"
    BY <1>0, <2>2 DEF Settled, Upload
  <2> QED
    BY <2>1, <2>2, <2>3, CommitStatusMove DEF UploadStatuses
<1>4. CASE RecordPermanent
  <2>1. cur # NoUpload
    BY <1>4 DEF RecordPermanent, TypeOK
  <2>2. PICK row : CommitUpload(row, Marked(cur)) /\ row.status = "failed"
    BY <1>4 DEF RecordPermanent
  <2> QED
    BY <2>1, <2>2, CommitStatusMove DEF UploadStatuses
<1>5. CASE RecordTransient
  <2>1. cur # NoUpload /\ cur \in Uploads /\ seen \in Upload /\ seen.status # "absent"
    BY <1>5 DEF RecordTransient, TypeOK, IndInv, KnownAreWhole
  <2>2. PICK row : /\ CommitUpload(row, Marked(cur))
                   /\ row.status \in {"failed", seen.status}
    BY <1>5 DEF RecordTransient, RetryOrFailure
  <2>3. ASSUME seen.status = "complete", NEW c \in Chunks(cur)  PROVE chunks'[cur][c].status = "confirmed"
    <3>1. chunks[cur][c].status = "confirmed"
      BY <2>1, <2>3 DEF IndInv, ReadStaysTrue
    <3> QED
      BY <2>1, <3>1, SentStays DEF Sent
  <2>4. row.status \in UploadStatuses \ {"absent"}
    BY <2>1, <2>2 DEF Upload, UploadStatuses
  <2>5. row.status = "complete" => seen.status = "complete"
    BY <2>2
  <2> QED
    BY <2>1, <2>2, <2>3, <2>4, <2>5, CommitStatusMove
<1>6. ASSUME NEW v \in Uploads, World(v)
      PROVE  StatusMove(u)
  BY <1>0, <1>6 DEF World, BackoffElapses, Configure, Mine, tables, StatusMove, Upload
<1>7. ASSUME (Sweep /\ ~ Recording) \/ Fault \/ UNCHANGED vars  PROVE UNCHANGED uploads
  BY <1>7 DEF Sweep, Recording, SelectDue, BeginUpload, SkipUpload, AskChunk, SubmitAccepted, SubmitRefused,
     Fault, Crash, Abandon, AskFails, vars, tables
<1>8. CASE UNCHANGED uploads
  BY <1>8 DEF StatusMove
<1> QED
  BY <1>1, <1>2, <1>3, <1>4, <1>5, <1>6, <1>7, <1>8 DEF Next, Recording

-----------------------------------------------------------------------------
(* Each part of the invariant is kept by every step.                       *)

\* A step that leaves the sweep with the same upload at hand leaves its chunks alone.
LEMMA AtHandUntouched ==
    ASSUME TypeOK, IndInv, [Next]_vars, cur \in Uploads, cur' = cur
    PROVE  /\ \A c \in Chunks(cur) : chunks'[cur][c] = chunks[cur][c]
           /\ Pending' = Pending /\ NextChunk' = NextChunk
<1>1. cur # NoUpload /\ cur \in known
  BY StorageAssumption DEF IndInv, KnownAreWhole
<1>2. ASSUME NEW c \in Chunks(cur)  PROVE chunks'[cur][c] = chunks[cur][c]
  BY <1>1, ChunksOnlyMove DEF ChunkMove, IndInv, KnownAreWhole
<1>3. Pending' = Pending
  <2>1. Pending' = {c \in Chunks(cur) : chunks'[cur][c].status = "pending"}
    BY DEF Pending, ChunksWith, Chunks
  <2> QED
    BY <1>2, <2>1 DEF Pending, ChunksWith
<1> QED
  BY <1>2, <1>3 DEF NextChunk, First

\* Only the next chunk is written, and it is the first that is not sent.
LEMMA SentInOrderKept ==
    ASSUME TypeOK, IndInv, [Next]_vars
    PROVE  SentInOrder'
<1> SUFFICES ASSUME NEW u \in Uploads, NEW c \in Chunks(u), NEW d \in Chunks(u), c < d, Sent(u, d)'
             PROVE  Sent(u, c)'
  BY DEF SentInOrder, Chunks
<1>1. CASE Sent(u, d)
  <2>1. Sent(u, c)
    BY <1>1 DEF IndInv, SentInOrder
  <2> QED
    BY <2>1, SentStays
<1>2. CASE ~ Sent(u, d)
  <2>1. chunks[u][d] \in Chunk /\ ChunkMove(u, d)
    BY ChunksOnlyMove DEF TypeOK
  <2>2. ~ (chunks'[u][d] = chunks[u][d])
    BY <1>2 DEF Sent
  <2>3. ~ (chunks'[u][d] = [chunks[u][d] EXCEPT !.status = "pending"])
    BY <2>1 DEF Sent, Chunk
  <2>4. ~ (u = cur /\ d \in marks)
    <3>1. u # NoUpload
      BY StorageAssumption
    <3> QED
      BY <1>2, <3>1 DEF IndInv, ReadStaysTrue, Sent
  <2>5. u = cur /\ d = NextChunk /\ result \in {"dict", "plain"}
    BY <2>1, <2>2, <2>3, <2>4 DEF ChunkMove
  <2>6. chunks[u][c].status # "pending"
    <3>1. Pending # {}
      BY <2>5 DEF IndInv, RewritesCostFaults
    <3>2. c \in Nat /\ d \in Nat
      BY ChunksAreNat
    <3> QED
      BY <2>5, <3>1, <3>2, NextIsPending
  <2>7. chunks[u][c].status # "absent" /\ chunks[u][c] \in Chunk
    <3>1. u \in known
      BY <2>5, StorageAssumption DEF IndInv, KnownAreWhole
    <3> QED
      BY <3>1 DEF IndInv, KnownAreWhole, TypeOK
  <2>8. Sent(u, c)
    BY <2>6, <2>7 DEF Sent, Chunk
  <2> QED
    BY <2>8, SentStays
<1> QED
  BY <1>1, <1>2

\* A chunk is confirmed on what the daemon says of the txid it keeps.
LEMMA ConfirmedIsMinedKept ==
    ASSUME TypeOK, IndInv, [Next]_vars
    PROVE  ConfirmedIsMined'
<1> SUFFICES ASSUME NEW u \in Uploads, NEW c \in Chunks(u), chunks'[u][c].status = "confirmed"
             PROVE  <<u, c, chunks'[u][c].txid>> \in mined'
  BY DEF ConfirmedIsMined, Chunks
<1>1. chunks[u][c] \in Chunk /\ ChunkMove(u, c) /\ mined \subseteq mined'
  BY ChunksOnlyMove, ChainGrows DEF TypeOK
<1>2. CASE chunks'[u][c] = chunks[u][c]
  BY <1>1, <1>2 DEF IndInv, ConfirmedIsMined
<1>3. CASE u = cur /\ c \in marks /\ chunks'[u][c] = [chunks[u][c] EXCEPT !.status = "confirmed"]
  <2>1. chunks'[u][c].txid = chunks[u][c].txid
    BY <1>1, <1>3 DEF Chunk
  <2>2. cur # NoUpload
    BY <1>3, StorageAssumption
  <2> QED
    BY <1>1, <1>3, <2>1, <2>2 DEF IndInv, ReadStaysTrue
<1>4. ~ (chunks'[u][c] = [chunks[u][c] EXCEPT !.status = "pending"])
  BY <1>1 DEF Chunk
<1> QED
  BY <1>1, <1>2, <1>3, <1>4 DEF ChunkMove

\* An upload is completed on the counts of its own chunks, which do not go back.
LEMMA CompleteIsWholeKept ==
    ASSUME TypeOK, IndInv, [Next]_vars
    PROVE  CompleteIsWhole'
<1> SUFFICES ASSUME NEW u \in Uploads, NEW c \in Chunks(u), uploads'[u].status = "complete"
             PROVE  chunks'[u][c].status = "confirmed"
  BY DEF CompleteIsWhole, Chunks
<1>1. CASE uploads[u].status = "complete"
  <2>1. chunks[u][c].status = "confirmed"
    BY <1>1 DEF IndInv, CompleteIsWhole
  <2> QED
    BY <2>1, SentStays DEF Sent
<1>2. CASE uploads[u].status # "complete"
  BY <1>2, StatusOnlyMoves DEF StatusMove
<1> QED
  BY <1>1, <1>2

\* What a step does to the work at hand: it ends or begins it, is a step of it, or
\* leaves it alone.
LEMMA WorkMoves ==
    ASSUME TypeOK, [Next]_vars
    PROVE  \/ cur' = NoUpload /\ result' = "none"
           \/ \E u \in Uploads : BeginUpload(u)
           \/ AskChunk \/ SubmitAccepted \/ SubmitRefused
           \/ UNCHANGED <<jobVars, writes>>
<1> USE DEF TypeOK, apiVars, tables, workerVars, jobVars, worldVars
<1>1. ASSUME NEW u \in Uploads, Api(u)  PROVE UNCHANGED <<jobVars, writes>>
  BY <1>1 DEF Api, CreateUpload, CreateChunk, ReturnId, StartCheck, StartUpdate, RetryCheck, RetryUpdate
<1>2. ASSUME NEW u \in Uploads, World(u)
      PROVE  UNCHANGED <<jobVars, writes>>
  BY <1>2 DEF World, BackoffElapses, Configure, Mine
<1>3. ASSUME Recording  PROVE cur' = NoUpload /\ result' = "none"
  BY <1>3, CommitEnds DEF Recording, FinishUpload, StayConfirming, RecordSubmitted, RecordPermanent, RecordTransient
<1>4. ASSUME SelectDue \/ \E u \in Uploads : SkipUpload(u)  PROVE UNCHANGED <<jobVars, writes>>
  BY <1>4 DEF SelectDue, SkipUpload
<1>5. ASSUME Fault
      PROVE  \/ cur' = NoUpload /\ result' = "none"
             \/ UNCHANGED <<jobVars, writes>>
  BY <1>5 DEF Fault, Crash, Abandon, AskFails, EndUpload
<1>6. ASSUME UNCHANGED vars  PROVE UNCHANGED <<jobVars, writes>>
  BY <1>6 DEF vars
<1> QED
  BY <1>1, <1>2, <1>3, <1>4, <1>5, <1>6 DEF Next, Sweep, Recording

\* An id is returned once the rows of all chunks are there, and none is taken away.
LEMMA KnownAreWholeKept ==
    ASSUME TypeOK, IndInv, [Next]_vars
    PROVE  KnownAreWhole'
<1> USE DEF apiVars, tables, workerVars, jobVars
<1>1. \/ UNCHANGED known
      \/ \E u \in Uploads : ReturnId(u)
  <2>1. ASSUME NEW u \in Uploads, Api(u)  PROVE UNCHANGED known \/ ReturnId(u)
    BY <2>1 DEF Api, CreateUpload, CreateChunk, StartCheck, StartUpdate, RetryCheck, RetryUpdate
  <2>2. ASSUME NEW u \in Uploads, World(u)
        PROVE  UNCHANGED known
    BY <2>2 DEF World, BackoffElapses, Configure, Mine
  <2>3. ASSUME Recording  PROVE UNCHANGED known
    BY <2>3, CommitEnds DEF Recording, FinishUpload, StayConfirming, RecordSubmitted, RecordPermanent, RecordTransient
  <2>4. ASSUME (Sweep /\ ~ Recording) \/ Fault  PROVE UNCHANGED known
    BY <2>4 DEF Sweep, Recording, SelectDue, BeginUpload, SkipUpload, AskChunk, SubmitAccepted, SubmitRefused,
       Fault, Crash, Abandon, AskFails, EndUpload
  <2> QED
    BY <2>1, <2>2, <2>3, <2>4 DEF Next, vars
<1>2. known \subseteq known'
  BY <1>1 DEF ReturnId
<1>3. /\ starting \subseteq known /\ retrying \subseteq known /\ due \subseteq known
      /\ cur \in known \cup {NoUpload} /\ known \subseteq Uploads /\ uploads \in [Uploads -> Upload]
  BY DEF IndInv, KnownAreWhole, TypeOK
<1>4. starting' \subseteq known' /\ retrying' \subseteq known'
  <2>1. ASSUME NEW u \in Uploads, Api(u)  PROVE starting' \subseteq known' /\ retrying' \subseteq known'
    BY <1>2, <1>3, <2>1 DEF Api, CreateUpload, CreateChunk, ReturnId, StartCheck, StartUpdate, RetryCheck, RetryUpdate
  <2>2. ASSUME NEW u \in Uploads, World(u)
        PROVE  UNCHANGED <<starting, retrying>>
    BY <2>2 DEF World, BackoffElapses, Configure, Mine
  <2>3. ASSUME Recording  PROVE UNCHANGED <<starting, retrying>>
    BY <2>3, CommitEnds DEF Recording, FinishUpload, StayConfirming, RecordSubmitted, RecordPermanent, RecordTransient
  <2>4. ASSUME (Sweep /\ ~ Recording) \/ Fault  PROVE UNCHANGED <<starting, retrying>>
    BY <2>4 DEF Sweep, Recording, SelectDue, BeginUpload, SkipUpload, AskChunk, SubmitAccepted, SubmitRefused,
       Fault, Crash, Abandon, AskFails, EndUpload
  <2> QED
    BY <1>2, <1>3, <2>1, <2>2, <2>3, <2>4 DEF Next, vars
<1>5. due' \subseteq known'
  <2>1. ASSUME NEW u \in Uploads, Api(u) \/ World(u)
        PROVE  UNCHANGED due
    BY <2>1 DEF Api, CreateUpload, CreateChunk, ReturnId, StartCheck, StartUpdate, RetryCheck, RetryUpdate,
       World, BackoffElapses, Configure, Mine
  <2>2. ASSUME Recording  PROVE due' \subseteq due
    BY <2>2, CommitEnds DEF Recording, FinishUpload, StayConfirming, RecordSubmitted, RecordPermanent, RecordTransient
  <2>3. ASSUME SelectDue  PROVE due' \subseteq known
    BY <2>3 DEF SelectDue, IndInv, KnownAreWhole, Writable
  <2>4. ASSUME (Sweep /\ ~ Recording /\ ~ SelectDue) \/ Fault  PROVE due' \subseteq due
    BY <2>4 DEF Sweep, Recording, BeginUpload, SkipUpload, AskChunk, SubmitAccepted, SubmitRefused,
       Fault, Crash, Abandon, AskFails, EndUpload
  <2> QED
    BY <1>2, <1>3, <2>1, <2>2, <2>3, <2>4 DEF Next, vars
<1>6. /\ cur' \in known' \cup {NoUpload}
      /\ cur' # NoUpload => seen'.status # "absent"
  <2>1. ASSUME NEW u \in Uploads, BeginUpload(u)
        PROVE  cur' \in known /\ seen'.status # "absent"
    BY <1>3, <2>1 DEF BeginUpload, IndInv, KnownAreWhole
  <2>2. ASSUME AskChunk \/ SubmitAccepted \/ SubmitRefused \/ UNCHANGED <<jobVars, writes>>
        PROVE  UNCHANGED <<cur, seen>>
    BY <2>2 DEF AskChunk, SubmitAccepted, SubmitRefused
  <2> QED
    BY <1>2, <1>3, <2>1, <2>2, WorkMoves DEF IndInv, KnownAreWhole
<1>7. ASSUME NEW u \in known'
      PROVE  uploads'[u].status # "absent" /\ \A c \in Chunks(u) : chunks'[u][c].status # "absent"
  <2>1. CASE u \in known
    <3>1. uploads[u].status # "absent" /\ \A c \in Chunks(u) : chunks[u][c].status # "absent"
      BY <2>1 DEF IndInv, KnownAreWhole
    <3> QED
      BY <1>3, <2>1, <3>1, SentStays, StatusOnlyMoves DEF StatusMove
  <2>2. CASE u \notin known
    <3>1. ReturnId(u)
      BY <1>1, <2>2 DEF ReturnId
    <3> QED
      BY <3>1 DEF ReturnId, ChunksWith
  <2> QED
    BY <2>1, <2>2
<1>8. \A u \in Uploads : uploads'[u].status \notin {"absent", "pending"} => u \in known'
  BY <1>2, StatusOnlyMoves DEF StatusMove, IndInv, KnownAreWhole
<1> QED
  BY <1>4, <1>5, <1>6, <1>7, <1>8 DEF KnownAreWhole, Chunks

\* What the sweep has read stays true until its own UPDATE, whatever the API does.
LEMMA ReadStaysTrueKept ==
    ASSUME TypeOK, IndInv, [Next]_vars
    PROVE  ReadStaysTrue'
<1> USE DEF jobVars
<1>1. CASE cur' = NoUpload
  BY <1>1 DEF ReadStaysTrue
<1>2. ASSUME NEW u \in Uploads, BeginUpload(u)  PROVE ReadStaysTrue'
  <2>1. /\ cur' = u /\ seen' = uploads[u] /\ UNCHANGED chunks /\ marks' = {}
        /\ \A c \in toCheck' : chunks[u][c].status = "submitted"
    BY <1>2 DEF BeginUpload, tables, TypeOK, ChunksWith
  <2>2. uploads[u].status = "complete" => \A c \in Chunks(u) : chunks[u][c].status = "confirmed"
    BY DEF IndInv, CompleteIsWhole
  <2> QED
    BY <2>1, <2>2 DEF ReadStaysTrue, Chunks
<1>3. ASSUME cur # NoUpload, UNCHANGED <<cur, seen>>,
             toCheck' \cup marks' \subseteq toCheck \cup marks,
             \A c \in marks' : <<cur, c, chunks[cur][c].txid>> \in mined
      PROVE  ReadStaysTrue'
  <2>1. cur \in Uploads /\ toCheck \cup marks \subseteq Chunks(cur)
    BY <1>3 DEF TypeOK
  <2>2. \A c \in Chunks(cur) : chunks'[cur][c] = chunks[cur][c]
    BY <1>3, <2>1, AtHandUntouched
  <2>3. mined \subseteq mined'
    BY ChainGrows
  <2>4. \A c \in toCheck' \cup marks' : chunks'[cur'][c].status = "submitted"
    BY <1>3, <2>1, <2>2 DEF IndInv, ReadStaysTrue
  <2>5. \A c \in marks' : <<cur', c, chunks'[cur'][c].txid>> \in mined'
    BY <1>3, <2>1, <2>2, <2>3
  <2>6. seen'.status = "complete" => \A c \in Chunks(cur) : chunks'[cur'][c].status = "confirmed"
    BY <1>3, <2>2 DEF IndInv, ReadStaysTrue
  <2> QED
    BY <1>3, <2>4, <2>5, <2>6 DEF ReadStaysTrue, Chunks
<1>4. CASE AskChunk
  <2> DEFINE c == First(toCheck)
  <2>1. cur # NoUpload /\ UNCHANGED <<cur, seen>> /\ toCheck # {}
    BY <1>4 DEF AskChunk
  <2>2. c \in toCheck
    BY <2>1, ChunksAreNat, FirstIsLeast DEF TypeOK
  <2> HIDE DEF c
  <2>3. /\ toCheck' = toCheck \ {c}
        /\ marks' = IF <<cur, c, chunks[cur][c].txid>> \in mined THEN marks \cup {c} ELSE marks
    BY <1>4 DEF AskChunk, c
  <2>4. \A d \in marks' : <<cur, d, chunks[cur][d].txid>> \in mined
    BY <2>1, <2>3 DEF IndInv, ReadStaysTrue
  <2> QED
    BY <1>3, <2>1, <2>2, <2>3, <2>4
<1>5. CASE cur # NoUpload /\ UNCHANGED <<cur, seen, toCheck, marks>>
  BY <1>3, <1>5 DEF IndInv, ReadStaysTrue
<1>6. ASSUME SubmitAccepted \/ SubmitRefused
      PROVE  cur # NoUpload /\ UNCHANGED <<cur, seen, toCheck, marks>>
  BY <1>6 DEF SubmitAccepted, SubmitRefused, Asked
<1> QED
  BY <1>1, <1>2, <1>4, <1>5, <1>6, WorkMoves

\* A second write of a chunk needs the loss of the first one's answer or record.
LEMMA RewritesCostFaultsKept ==
    ASSUME TypeOK, IndInv, [Next]_vars
    PROVE  RewritesCostFaults'
<1> USE DEF jobVars
<1>0. /\ faults \in Nat /\ faults' \in Nat /\ faults <= faults'
      /\ \A u \in Uploads : \A c \in Chunks(u) : writes[u][c] \in Nat
  BY FaultsGrow, StorageAssumption DEF TypeOK
<1>1. ASSUME NEW u \in Uploads, NEW c \in Chunks(u)
      PROVE  /\ writes[u][c] <= faults => writes[u][c] <= faults'
             /\ writes[u][c] <= 1 + faults => writes[u][c] <= 1 + faults'
  BY <1>0
<1>2. ASSUME UNCHANGED writes,
             \A c \in Chunks(cur) :
                 c = NextChunk /\ result \in {"dict", "plain"} /\ cur \in Uploads =>
                     \/ chunks'[cur][c].status = "submitted"
                     \/ cur' = cur /\ NextChunk' = NextChunk /\ result' = result
                     \/ faults' = faults + 1,
             result' \in {"dict", "plain"} => Pending' # {}
      PROVE  RewritesCostFaults'
  <2> SUFFICES ASSUME NEW u \in Uploads, NEW c \in Chunks(u)
               PROVE  \/ writes[u][c] <= faults'
                      \/ /\ writes[u][c] <= 1 + faults'
                         /\ \/ Sent(u, c)'
                            \/ u = cur' /\ c = NextChunk' /\ result' \in {"dict", "plain"}
    BY <1>2 DEF RewritesCostFaults, Chunks
  <2>1. CASE writes[u][c] <= faults
    BY <1>1, <2>1
  <2>2. CASE writes[u][c] <= 1 + faults /\ Sent(u, c)
    BY <1>1, <2>2, SentStays
  <2>3. CASE writes[u][c] <= 1 + faults /\ u = cur /\ c = NextChunk /\ result \in {"dict", "plain"}
    <3>1. faults' = faults + 1 => writes[u][c] <= faults'
      BY <1>0, <2>3
    <3> QED
      BY <1>1, <1>2, <2>3, <3>1 DEF Sent
  <2> QED
    BY <2>1, <2>2, <2>3 DEF IndInv, RewritesCostFaults
<1>3. CASE UNCHANGED <<jobVars, writes>>
  <2>1. result \in {"dict", "plain"} => cur \in Uploads
    BY DEF TypeOK
  <2>2. cur \in Uploads => Pending' = Pending /\ NextChunk' = NextChunk
    BY <1>3, AtHandUntouched
  <2> QED
    BY <1>2, <1>3, <2>1, <2>2 DEF IndInv, RewritesCostFaults
<1>4. ASSUME UNCHANGED writes, result' \notin {"dict", "plain"}, result \notin {"dict", "plain"}
      PROVE  RewritesCostFaults'
  BY <1>2, <1>4
<1>5. ASSUME NEW u \in Uploads, BeginUpload(u)  PROVE RewritesCostFaults'
  BY <1>4, <1>5 DEF BeginUpload, TypeOK, worldVars
<1>6. CASE AskChunk
  <2>1. cur \in Uploads /\ UNCHANGED <<cur, result, writes>>
    BY <1>6 DEF AskChunk, TypeOK, worldVars
  <2> QED
    BY <1>2, <2>1, AtHandUntouched DEF IndInv, RewritesCostFaults
<1>7. CASE SubmitRefused
  BY <1>4, <1>7 DEF SubmitRefused, Asked, worldVars
<1>8. CASE SubmitAccepted
  <2> DEFINE n == NextChunk
  <2>1. cur \in Uploads /\ cur' = cur /\ UNCHANGED <<chunks, uploads>> /\ result = "none" /\ Pending # {}
    BY <1>8 DEF SubmitAccepted, Asked, TypeOK, tables
  <2>2. n \in Chunks(cur) /\ ~ Sent(cur, n) /\ NextChunk' = n /\ Pending' = Pending
    BY <2>1, NextIsPending, AtHandUntouched DEF Sent
  <2>3. \/ result' \in {"dict", "plain"}
        \/ faults' = faults + 1
    BY <1>8, StorageAssumption DEF SubmitAccepted
  <2>4. writes' = [writes EXCEPT ![cur][n] = @ + 1]
    BY <1>8 DEF SubmitAccepted
  <2> HIDE DEF n
  <2>5. writes[cur][n] <= faults
    BY <2>1, <2>2 DEF IndInv, RewritesCostFaults
  <2> SUFFICES ASSUME NEW u \in Uploads, NEW c \in Chunks(u)
               PROVE  \/ writes'[u][c] <= faults'
                      \/ /\ writes'[u][c] <= 1 + faults'
                         /\ \/ Sent(u, c)'
                            \/ u = cur' /\ c = NextChunk' /\ result' \in {"dict", "plain"}
    BY <2>1, <2>2 DEF RewritesCostFaults, Chunks
  <2>6. CASE u = cur /\ c = n
    <3>1. writes'[u][c] = writes[u][c] + 1
      BY <2>4, <2>6 DEF TypeOK
    <3>2. faults' = faults + 1 => writes'[u][c] <= faults'
      BY <1>0, <2>5, <2>6, <3>1
    <3>3. writes'[u][c] <= 1 + faults'
      BY <1>0, <2>5, <2>6, <3>1
    <3> QED
      BY <2>1, <2>2, <2>3, <2>6, <3>2, <3>3
  <2>7. CASE ~ (u = cur /\ c = n)
    <3>1. writes'[u][c] = writes[u][c]
      BY <2>4, <2>7 DEF TypeOK
    <3>2. writes[u][c] <= faults \/ (writes[u][c] <= 1 + faults /\ Sent(u, c))
      BY <2>1 DEF IndInv, RewritesCostFaults
    <3> QED
      BY <1>1, <3>1, <3>2, SentStays
  <2> QED
    BY <2>6, <2>7
<1>9. CASE cur' = NoUpload /\ result' = "none"
  <2>1. ASSUME UNCHANGED <<jobVars, writes>>  PROVE RewritesCostFaults'
    BY <1>3, <2>1
  <2>2. ASSUME NEW u \in Uploads, Api(u) \/ World(u)
        PROVE  UNCHANGED <<jobVars, writes>>
    BY <2>2 DEF Api, CreateUpload, CreateChunk, ReturnId, StartCheck, StartUpdate, RetryCheck, RetryUpdate,
       World, BackoffElapses, Configure, Mine, worldVars, workerVars
  <2>3. CASE FinishUpload \/ StayConfirming \/ RecordPermanent \/ RecordTransient
    <3>1. UNCHANGED writes /\ result \notin {"dict", "plain"}
      BY <2>3, CommitEnds DEF FinishUpload, StayConfirming, RecordPermanent, RecordTransient, Asked, worldVars
    <3> QED
      BY <1>4, <1>9, <3>1
  <2>4. CASE RecordSubmitted
    <3>1. UNCHANGED writes
      BY <2>4, CommitEnds DEF RecordSubmitted, worldVars
    <3>2. ASSUME cur \in Uploads, NEW c \in Chunks(cur), c = NextChunk
          PROVE  chunks'[cur][c].status = "submitted"
      BY <2>4, <3>2, SubmittedMove
    <3> QED
      BY <1>2, <1>9, <3>1, <3>2
  <2>5. CASE Fault
    <3>1. UNCHANGED <<jobVars, writes>> \/ (UNCHANGED writes /\ faults' = faults + 1)
      BY <2>5 DEF Fault, Crash, Abandon, AskFails, EndUpload, worldVars, worldVars
    <3> QED
      BY <1>2, <1>9, <2>1, <3>1
  <2>6. ASSUME SelectDue \/ (\E u \in Uploads : SkipUpload(u)) \/ UNCHANGED vars
        PROVE  UNCHANGED <<jobVars, writes>>
    BY <2>6 DEF SelectDue, SkipUpload, vars, workerVars, worldVars
  <2> QED
    BY <1>5, <1>6, <1>7, <1>8, <2>1, <2>2, <2>3, <2>4, <2>5, <2>6 DEF Next, Sweep
<1> QED
  BY <1>3, <1>5, <1>6, <1>7, <1>8, <1>9, WorkMoves

-----------------------------------------------------------------------------
(* The theorems.                                                           *)

\* The invariant holds at first and is kept by every step of the API, the sweep,
\* the faults and the chain (id_create_service.py:1493-1610, worker.py:383-558).
THEOREM UploadInductive == Spec => []IndInv
<1>1. Init => IndInv
  BY StorageAssumption DEF Init, IndInv, SentInOrder, KnownAreWhole, ReadStaysTrue, RewritesCostFaults,
     ConfirmedIsMined, CompleteIsWhole, Sent, AbsentUpload, AbsentChunk, Pending
<1>2. TypeOK /\ IndInv /\ [Next]_vars => IndInv'
  BY SentInOrderKept, KnownAreWholeKept, ReadStaysTrueKept, RewritesCostFaultsKept,
     ConfirmedIsMinedKept, CompleteIsWholeKept DEF IndInv
<1> QED
  BY <1>1, <1>2, TypeCorrect, PTL DEF Spec

\* A confirmed chunk's own recorded transaction is in the chain (worker.py:411-421).
THEOREM ConfirmedAreMined == Spec => []ConfirmedIsMined
<1>1. IndInv => ConfirmedIsMined
  BY DEF IndInv
<1> QED
  BY <1>1, UploadInductive, PTL

\* A complete upload has all of its chunks confirmed, although rows are inserted one
\* by one and statuses written from what was read before (worker.py:401-447).
THEOREM CompleteAreWhole == Spec => []CompleteIsWhole
<1>1. IndInv => CompleteIsWhole
  BY DEF IndInv
<1> QED
  BY <1>1, UploadInductive, PTL

\* A chunk is written once, and once more per fault at most (worker.py:449-521).
THEOREM RewritesAreNeeded == Spec => []NoNeedlessRewrite
<1>1. TypeOK /\ IndInv => NoNeedlessRewrite
  <2> SUFFICES ASSUME TypeOK, IndInv, NEW u \in Uploads, NEW c \in Chunks(u)
               PROVE  writes[u][c] <= 1 + faults
    BY DEF NoNeedlessRewrite
  <2>1. writes[u][c] \in Nat /\ faults \in Nat
    BY StorageAssumption DEF TypeOK
  <2>2. writes[u][c] <= faults => writes[u][c] <= 1 + faults
    BY <2>1
  <2> QED
    BY <2>2 DEF IndInv, RewritesCostFaults
<1> QED
  BY <1>1, TypeCorrect, UploadInductive, PTL

\* No step takes a write back: start, retry and rollbacks leave a sent chunk and its
\* transaction as they are (id_create_service.py:1558-1610, worker.py:383-558).
THEOREM WritesStay == Spec => WritesAreKept
<1>1. TypeOK /\ IndInv /\ [Next]_vars =>
        [\A u \in Uploads : \A c \in Chunks(u) :
            chunks[u][c].status \in {"submitted", "confirmed"} =>
                /\ chunks'[u][c].txid = chunks[u][c].txid
                /\ chunks'[u][c].status \in {chunks[u][c].status, "confirmed"}]_vars
  BY SentStays DEF Sent
<1> QED
  BY <1>1, TypeCorrect, UploadInductive, PTL DEF Spec, WritesAreKept

-----------------------------------------------------------------------------
(* The refinement of UploadProgress.                                       *)

\* What UploadProgress counts as sent.
SentChunks(u) == ChunksWith(u, "submitted") \cup ChunksWith(u, "confirmed")

\* In one step at most the next chunk is sent, and then the upload is confirming.
LEMMA SendsInTurn ==
    ASSUME TypeOK, IndInv, [Next]_vars, NEW u \in Uploads
    PROVE  \/ SentChunks(u)' = SentChunks(u)
           \/ \E c \in Chunks(u) : /\ SentChunks(u) = 0 .. c - 1
                                   /\ SentChunks(u)' = 0 .. c
                                   /\ uploads'[u].status = "confirming"
<1>1. /\ SentChunks(u) = {c \in Chunks(u) : Sent(u, c)}
      /\ SentChunks(u)' = {c \in Chunks(u) : Sent(u, c)'}
  BY DEF SentChunks, ChunksWith, Sent, Chunks
<1>2. CASE u = cur /\ RecordSubmitted
  <2>0. PICK n \in Chunks(u) : n = NextChunk /\ chunks[u][n].status = "pending"
    <3>1. cur # NoUpload /\ cur \in Uploads /\ Pending # {}
      BY <1>2 DEF RecordSubmitted, TypeOK, IndInv, RewritesCostFaults
    <3> QED
      BY <1>2, <3>1, NextIsPending
  <2>1. n \in Chunks(u) /\ chunks[u][n].status = "pending" /\ cur # NoUpload /\ u \in known
    BY <1>2, <2>0 DEF RecordSubmitted, TypeOK, IndInv, KnownAreWhole
  <2>2. \A c \in Chunks(u) : chunks[u][c].status = "pending" => n <= c
    BY <1>2, <2>0, NextIsPending DEF RecordSubmitted, IndInv, RewritesCostFaults
  <2>3. Sent(u, n)' /\ ~ Sent(u, n)
    BY <1>2, <2>0, SubmittedMove DEF Sent
  <2>4. uploads'[u].status = "confirming"
    BY <1>2, <2>1 DEF RecordSubmitted, CommitUpload, Settled, TypeOK, Upload
  <2>5. Chunks(u) = 0 .. ChunkCount[u] - 1 /\ ChunkCount[u] \in Nat /\ n \in Nat
    BY <2>1, ChunksAreNat, StorageAssumption DEF Chunks
  <2>6. ASSUME NEW c \in Chunks(u)  PROVE Sent(u, c) <=> c < n
    <3>1. c \in Nat
      BY ChunksAreNat
    <3>2. ASSUME c < n  PROVE Sent(u, c)
      <4>1. chunks[u][c].status # "absent" /\ chunks[u][c] \in Chunk
        BY <2>1 DEF IndInv, KnownAreWhole, TypeOK
      <4>2. chunks[u][c].status # "pending"
        BY <2>2, <2>5, <3>1, <3>2
      <4> QED
        BY <4>1, <4>2 DEF Chunk, Sent
    <3>3. ASSUME n < c  PROVE ~ Sent(u, c)
      BY <2>1, <2>3, <3>3 DEF IndInv, SentInOrder
    <3> QED
      BY <2>3, <2>5, <3>1, <3>2, <3>3
  <2>7. ASSUME NEW c \in Chunks(u)  PROVE Sent(u, c)' <=> c <= n
    <3>1. c \in Nat
      BY ChunksAreNat
    <3>2. c # n => (chunks'[u][c] = chunks[u][c] \/ (Sent(u, c) /\ Sent(u, c)'))
      <4>1. ChunkMove(u, c) /\ chunks[u][c].status # "absent"
        BY <2>1, ChunksOnlyMove DEF IndInv, KnownAreWhole
      <4>2. c \in marks /\ u = cur => Sent(u, c)
        BY <2>1 DEF IndInv, ReadStaysTrue, Sent
      <4> QED
        BY <2>0, <4>1, <4>2, SentStays DEF ChunkMove
    <3>3. c # n => (Sent(u, c)' <=> Sent(u, c))
      BY <3>2 DEF Sent
    <3> QED
      BY <2>3, <2>5, <2>6, <3>1, <3>3
  <2>8. SentChunks(u) = 0 .. n - 1
    BY <1>1, <2>1, <2>5, <2>6
  <2>9. SentChunks(u)' = 0 .. n
    BY <1>1, <2>1, <2>5, <2>7
  <2> QED
    BY <2>1, <2>4, <2>8, <2>9
<1>3. CASE ~ (u = cur /\ RecordSubmitted)
  <2>1. ASSUME NEW c \in Chunks(u)  PROVE Sent(u, c)' <=> Sent(u, c)
    <3>1. ChunkMove(u, c) /\ chunks[u][c] \in Chunk
      BY ChunksOnlyMove DEF TypeOK
    <3>2. c \in marks /\ u = cur => Sent(u, c)
      BY StorageAssumption DEF IndInv, ReadStaysTrue, Sent
    <3> QED
      BY <1>3, <3>1, <3>2, SentStays DEF ChunkMove, Sent, Chunk
  <2> QED
    BY <1>1, <2>1
<1> QED
  BY <1>2, <1>3

\* What is confirmed stays so, and was sent before.
LEMMA ConfirmsSent ==
    ASSUME TypeOK, IndInv, [Next]_vars, NEW u \in Uploads
    PROVE  /\ ChunksWith(u, "confirmed") \subseteq ChunksWith(u, "confirmed")'
           /\ ChunksWith(u, "confirmed")' \subseteq SentChunks(u)
<1>1. ASSUME NEW c \in Chunks(u), chunks[u][c].status = "confirmed"  PROVE chunks'[u][c].status = "confirmed"
  BY <1>1, SentStays DEF Sent
<1>2. ASSUME NEW c \in Chunks(u), chunks'[u][c].status = "confirmed"  PROVE Sent(u, c)
  <2>1. ChunkMove(u, c) /\ chunks[u][c] \in Chunk
    BY ChunksOnlyMove DEF TypeOK
  <2>2. c \in marks /\ u = cur => Sent(u, c)
    BY StorageAssumption DEF IndInv, ReadStaysTrue, Sent
  <2> QED
    BY <1>2, <2>1, <2>2 DEF ChunkMove, Sent, Chunk
<1>3. ChunksWith(u, "confirmed")' = {c \in Chunks(u) : chunks'[u][c].status = "confirmed"}
  BY DEF ChunksWith, Chunks
<1> QED
  BY <1>1, <1>2, <1>3 DEF ChunksWith, SentChunks, Sent

\* The start, the retry, the sweep and its failures together implement what
\* UploadProgress promises: under the mapping of StorageUpload, no upload exists at
\* first, and every step is a step of the promise for each upload, or changes
\* nothing it speaks of (id_create_service.py:1493-1610, worker.py:383-558).
THEOREM ProgressIsKept == Spec => ProgressKept
<1>1. Init => Progress!Init
  BY DEF Init, Progress!Init, AbsentUpload, AbsentChunk, ChunksWith
<1>2. TypeOK /\ IndInv /\ [Next]_vars => Progress!Advance
  <2> SUFFICES ASSUME TypeOK, IndInv, [Next]_vars, NEW u \in Uploads
               PROVE  Progress!Sends(u) /\ Progress!Confirms(u) /\ Progress!Becomes(u)
    BY DEF Progress!Advance
  <2>1. Progress!All(u) = Chunks(u)
    BY DEF Progress!All, Chunks
  <2>2. Progress!Sends(u)
    BY <2>1, SendsInTurn DEF Progress!Sends, SentChunks
  <2>3. Progress!Confirms(u)
    BY ConfirmsSent DEF Progress!Confirms, SentChunks
  <2>4. Progress!Becomes(u)
    <3>1. StatusMove(u) /\ uploads[u] \in Upload
      BY StatusOnlyMoves DEF TypeOK
    <3>2. u \in known => uploads[u].status # "absent"
      BY DEF IndInv, KnownAreWhole
    <3>3. (\A c \in Chunks(u) : chunks'[u][c].status = "confirmed") =>
             ChunksWith(u, "confirmed")' = Chunks(u)
      BY DEF ChunksWith, Chunks
    <3> QED
      BY <2>1, <3>1, <3>2, <3>3 DEF StatusMove, Progress!Becomes, Progress!Successors, Progress!Statuses,
         Progress!Writable, UploadStatuses, Writable
  <2> QED
    BY <2>2, <2>3, <2>4
<1> QED
  BY <1>1, <1>2, TypeCorrect, UploadInductive, PTL DEF Spec, ProgressKept, Progress!Spec

=============================================================================
