---------------------------- MODULE UploadProgress ----------------------------
(***************************************************************************)
(* What svc-idcreate promises about uploads, with the worker, the database *)
(* and the chain abstracted away: what a client of                         *)
(* GET /api/storage/upload/{id} may observe, the status and how far the    *)
(* chunks are.                                                             *)
(*                                                                         *)
(* The status may go back and forth: start, retry and a sweep set it from  *)
(* what they have read before.  The progress may not: chunks are sent in   *)
(* their order, one at a time, what is confirmed stays confirmed, and the  *)
(* step that makes an upload complete finds all of it confirmed.           *)
(***************************************************************************)
EXTENDS Naturals

CONSTANTS
    Uploads,
    ChunkCount      \* number of chunks of each upload

VARIABLES
    status,         \* the status of each upload
    sent,           \* the chunks that are submitted or confirmed
    confirmed       \* the chunks that are confirmed

All(u) == 0 .. ChunkCount[u] - 1

Writable == {"uploading", "confirming"}

Statuses == {"absent", "pending", "complete", "failed"} \cup Writable

\* Where a sweep, a start or a retry may take an upload in one step.
Successors(s) ==
    IF s = "absent" THEN {"pending"} ELSE Statuses \ {"absent"}

Init ==
    /\ status = [u \in Uploads |-> "absent"]
    /\ sent = [u \in Uploads |-> {}]
    /\ confirmed = [u \in Uploads |-> {}]

\* The chunk that has its turn is submitted, at most.
Sends(u) ==
    \/ sent'[u] = sent[u]
    \/ \E c \in All(u) : /\ sent[u] = 0 .. c - 1
                         /\ sent'[u] = 0 .. c
                         /\ status'[u] = "confirming"

\* Only what was sent before gets confirmed.
Confirms(u) == confirmed[u] \subseteq confirmed'[u] /\ confirmed'[u] \subseteq sent[u]

Becomes(u) ==
    \/ status'[u] = status[u]
    \/ /\ status'[u] \in Successors(status[u])
       /\ status'[u] = "complete" => confirmed'[u] = All(u)

Advance == \A u \in Uploads : Sends(u) /\ Confirms(u) /\ Becomes(u)

Spec == Init /\ [][Advance]_<<status, sent, confirmed>>

=============================================================================
