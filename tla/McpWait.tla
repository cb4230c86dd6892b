------------------------------- MODULE McpWait -------------------------------
(***************************************************************************)
(* wait_for_identity_completion, the tool of the MCP server that polls     *)
(* GET /api/status/{id} until the registration is terminal or a deadline   *)
(* has passed (mcp_server/python/tools.py), against a registration that    *)
(* moves as RegistrationLifecycle says.                                    *)
(*                                                                         *)
(* Time is a number of ticks.  A poll is two legs, request and answer; the *)
(* status is read between them, and what the tool then acts on is the      *)
(* status of that moment.                                                  *)
(***************************************************************************)
EXTENDS Integers

CONSTANTS
    Request,        \* the registration waited for
    Timeouts,       \* timeout_seconds, as a caller may give it
    Polls,          \* poll_seconds, likewise
    Latency,        \* bound: ticks one leg of a poll takes
    Oversleep,      \* bound: ticks a sleep lasts longer than asked for
    Horizon         \* bound: the last tick

ASSUME WaitAssumption ==
    /\ Timeouts \subseteq Int /\ Polls \subseteq Int
    /\ Latency \in Nat /\ Oversleep \in Nat /\ Horizon \in Nat

VARIABLES
    stage,      \* the registration, as RegistrationLifecycle has it
    since,      \* the tick at which it became terminal
    now,        \* time.monotonic()
    pc,         \* where the tool is; at the end, what the caller gets
    poll,       \* poll_seconds
    deadline,
    reply,      \* the status in the answer under way or last received
    wake,       \* when the sleep ends
    limit       \* when the present leg or sleep has ended at the latest

tool == <<pc, poll, deadline, reply, wake, limit>>
vars == <<stage, since, now, tool>>

Lifecycle == INSTANCE RegistrationLifecycle WITH Requests <- {Request}

Status   == stage[Request]
Terminal == {"complete", "failed"}
Gone     == {"unknown", "deleted"}      \* answered 404
Never    == Horizon + 1

Outcomes == {"refused", "reported", "timed out", "raised"}

TypeOK ==
    /\ Lifecycle!TypeOK
    /\ now \in 0 .. Horizon /\ since \in 0 .. Never
    /\ pc \in {"called", "asking", "answering", "sleeping"} \cup Outcomes
    /\ poll \in (Polls \cup {0}) \cap Nat /\ reply \in Lifecycle!Stages
    /\ {deadline, wake, limit} \subseteq Nat
    /\ pc = "reported" => reply \in Terminal

Init ==
    /\ stage \in [{Request} -> Lifecycle!Stages \ {"unknown"}]
    /\ since = IF Status \in Terminal THEN 0 ELSE Never
    /\ now = 0 /\ pc = "called" /\ poll = 0 /\ deadline = 0
    /\ reply = "unknown" /\ wake = 0 /\ limit = 0

-----------------------------------------------------------------------------
(* The tool *)

\* Mutant: the two first rungs are told from all other statuses.
FarEnough(status) == status \notin {"pending_rnc_confirm", "ready_for_idr"}

Final(status) == status \in {"complete", "failed"}

\* Mutant: the deadline itself is still in time.
TimeIsOver == now > deadline

TimeIsUp == now >= deadline

Ask == pc' = "asking" /\ limit' = now + Latency

Call(timeout, seconds) ==
    /\ pc = "called"
    /\ IF timeout < 1 \/ seconds < 1
       THEN pc' = "refused" /\ UNCHANGED <<poll, deadline, limit>>
       ELSE Ask /\ poll' = seconds /\ deadline' = now + timeout
    /\ UNCHANGED <<stage, since, now, reply, wake>>

\* The service reads the row.
Read ==
    /\ pc = "asking"
    /\ pc' = "answering" /\ limit' = now + Latency /\ reply' = Status
    /\ UNCHANGED <<stage, since, now, poll, deadline, wake>>

Sleep ==
    /\ pc' = "sleeping"
    /\ wake' = now + poll /\ limit' = now + poll + Oversleep

GiveUp == pc' = "timed out" /\ UNCHANGED <<wake, limit>>

Receive ==
    /\ pc = "answering"
    /\ \/ /\ reply \in Gone
          /\ pc' = "raised" /\ UNCHANGED <<wake, limit>>
       \/ /\ reply \notin Gone /\ Final(reply)
          /\ pc' = "reported" /\ UNCHANGED <<wake, limit>>
       \/ /\ reply \notin Gone /\ ~Final(reply)
          /\ IF TimeIsUp THEN GiveUp ELSE Sleep
    /\ UNCHANGED <<stage, since, now, poll, deadline, reply>>

\* A poll that fails ends the wait, whatever the deadline.
PollFails ==
    /\ pc \in {"asking", "answering"}
    /\ pc' = "raised"
    /\ UNCHANGED <<stage, since, now, poll, deadline, reply, wake, limit>>

\* Mutant: the loop runs while the deadline is not reached.
AwakeInTime ==
    /\ pc = "sleeping" /\ now >= wake
    /\ IF TimeIsUp THEN GiveUp ELSE Ask /\ UNCHANGED wake
    /\ UNCHANGED <<stage, since, now, poll, deadline, reply>>

Awake ==
    /\ pc = "sleeping" /\ now >= wake
    /\ Ask
    /\ UNCHANGED <<stage, since, now, poll, deadline, reply, wake>>

-----------------------------------------------------------------------------
(* The registration and time *)

Progress ==
    /\ Lifecycle!Advance /\ stage' # stage
    /\ since' = IF Status \notin Terminal /\ stage'[Request] \in Terminal
                THEN now ELSE since
    /\ UNCHANGED <<now, tool>>

\* Time after the end of the wait is left out.
Tick ==
    /\ now < Horizon /\ pc \notin Outcomes
    /\ pc # "called" => now < limit
    /\ now' = now + 1
    /\ UNCHANGED <<stage, since, tool>>

Tool ==
    \/ \E t \in Timeouts, p \in Polls : Call(t, p)
    \/ Read \/ Receive \/ PollFails \/ Awake

Next == Tool \/ Progress \/ Tick

Spec == Init /\ [][Next]_vars

-----------------------------------------------------------------------------
(* Properties *)

\* What the tool reports as final is so: the registration still has that
\* status, or an operator has deleted it since (tools.py:61-64 returns the
\* answer of one poll, read earlier).
ReportIsFinal == pc = "reported" => Status \in {reply, "deleted"}

\* The tool times out only if the registration became terminal too late for
\* an answer sent before the deadline: sleeping past the deadline does not
\* lose the last poll, because the deadline is looked at after it
\* (tools.py:60-71).
FinishedInTimeIsReported == pc = "timed out" => since + Latency >= deadline

\* The tool overruns timeout_seconds by less than one sleep and one poll.
OverrunIsBounded ==
    pc \in {"asking", "answering", "sleeping"} =>
        now < deadline + poll + Oversleep + 2 * Latency

-----------------------------------------------------------------------------
(* The inductive invariant behind these properties (McpWaitProofs).        *)

\* A leg or a sleep ends in time, and none starts too long after the deadline.
LegsAreBounded ==
    /\ pc \in {"asking", "answering", "sleeping"} => now <= limit /\ poll >= 1
    /\ pc = "sleeping"  => limit < deadline + poll + Oversleep
    /\ pc = "asking"    => limit < deadline + poll + Oversleep + Latency
    /\ pc = "answering" => limit < deadline + poll + Oversleep + 2 * Latency

\* A registration still on the ladder has not become terminal; an answer that
\* says so was true Latency ticks before its limit at the earliest.
AnswersAreRecent ==
    /\ Status \in Lifecycle!Live \cup {"unknown"} => since = Never
    /\ pc = "answering" => limit <= now + Latency
    /\ pc = "answering" /\ reply \notin Terminal \cup Gone => limit <= since + Latency
    /\ pc = "timed out" => now >= deadline

\* An answer that says terminal stays true until the deletion.
FinalAnswersStayTrue ==
    pc \in {"answering", "reported"} /\ reply \in Terminal => Status \in {reply, "deleted"}

\* What the three parts say together: the invariant that each step of the tool, the
\* service and the clock preserves (tools.py:49-71).
WaitInv ==
    LegsAreBounded /\ AnswersAreRecent /\ FinalAnswersStayTrue /\ FinishedInTimeIsReported

=============================================================================
