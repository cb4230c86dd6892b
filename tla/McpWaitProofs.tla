---------------------------- MODULE McpWaitProofs ----------------------------
(***************************************************************************)
(* Theorems about McpWait, for any timeouts, poll intervals, latencies and *)
(* horizon.                                                                *)
(***************************************************************************)
EXTENDS McpWait, TLAPS

USE DEF Never

\* Times and bounds are natural numbers.
Numbers ==
    /\ now \in Nat /\ since \in Nat /\ poll \in Nat
    /\ deadline \in Nat /\ wake \in Nat /\ limit \in Nat
    /\ now <= Horizon
    /\ Latency \in Nat /\ Oversleep \in Nat /\ Horizon \in Nat

\* The types say so, without the statuses, which the arithmetic does not need.
LEMMA NumberTypes == TypeOK => Numbers
<1> SUFFICES ASSUME TypeOK  PROVE Numbers
  OBVIOUS
<1>1. now \in Nat /\ now <= Horizon /\ since \in Nat
  BY WaitAssumption DEF TypeOK
<1>2. poll \in Nat /\ deadline \in Nat /\ wake \in Nat /\ limit \in Nat
  BY DEF TypeOK
<1> QED
  BY <1>1, <1>2, WaitAssumption DEF Numbers

-----------------------------------------------------------------------------
(* What the registration may do behind the tool's back. *)

\* The registration is always at a stage its lifecycle knows.
LEMMA StatusType ==
    ASSUME TypeOK  PROVE  Status \in Lifecycle!Stages
  BY DEF TypeOK, Status, Lifecycle!TypeOK

\* The stages are the two absent ones, the ladder and the two final ones.
LEMMA StagesSplit ==
    Lifecycle!Stages = Gone \cup Terminal \cup Lifecycle!Live
  BY DEF Lifecycle!Stages, Lifecycle!Live, Lifecycle!Terminal, Gone, Terminal

\* A terminal registration can only be deleted, a deleted one only stay so.
LEMMA OnlyDeletionIsLeft ==
    ASSUME TypeOK, Progress
    PROVE  /\ Status' \in Lifecycle!Stages
           /\ Status \in Terminal => Status' \in {Status, "deleted"}
           /\ Status = "deleted" => Status' = "deleted"
<1>1. stage' \in [{Request} -> Lifecycle!Stages]
  BY DEF Progress, Lifecycle!Advance
<1>2. Status' \in Lifecycle!Stages
  BY <1>1 DEF Status
<1>3. Status' = Status \/ Status' \in Lifecycle!Successors(Status)
  BY DEF Progress, Lifecycle!Advance, Status
<1>4. Status \in Terminal => Lifecycle!Successors(Status) = {"deleted"}
  BY DEF Lifecycle!Successors, Lifecycle!Terminal, Terminal
<1>5. Status = "deleted" => Lifecycle!Successors(Status) = {}
  BY DEF Lifecycle!Successors, Lifecycle!Terminal, Terminal
<1> QED
  BY <1>2, <1>3, <1>4, <1>5

-----------------------------------------------------------------------------
(* Types.                                                                  *)

\* Times are ticks, and what is reported is terminal.
THEOREM TypeCorrect == Spec => []TypeOK
<1>1. Init => TypeOK
  BY WaitAssumption DEF Init, TypeOK, Lifecycle!TypeOK, Lifecycle!Stages, Lifecycle!Live, Lifecycle!Terminal
<1>2. TypeOK /\ [Next]_vars => TypeOK'
  <2> SUFFICES ASSUME TypeOK, [Next]_vars  PROVE TypeOK'
    OBVIOUS
  <2> USE WaitAssumption
  <2>1. ASSUME NEW t \in Timeouts, NEW p \in Polls, Call(t, p)  PROVE TypeOK'
    <3>1. CASE t < 1 \/ p < 1
      BY <2>1, <3>1 DEF Call, TypeOK, Lifecycle!TypeOK, Outcomes
    <3>2. CASE ~(t < 1 \/ p < 1)
      <4>1. t \in Nat /\ p \in Nat
        BY <3>2
      <4> QED
        BY <2>1, <3>2, <4>1 DEF Call, Ask, TypeOK, Lifecycle!TypeOK
    <3> QED
      BY <3>1, <3>2
  <2>2. CASE Read
    BY <2>2, StatusType DEF Read, TypeOK, Lifecycle!TypeOK
  <2>3. CASE Receive
    <3>1. now' \in 0 .. Horizon /\ since' \in 0 .. Never /\ Lifecycle!TypeOK'
      BY <2>3 DEF Receive, TypeOK, Lifecycle!TypeOK
    <3>2. /\ pc' \in {"sleeping"} \cup Outcomes
          /\ pc' = "reported" => reply' \in Terminal
      BY <2>3 DEF Receive, Final, GiveUp, Sleep, Outcomes, Terminal
    <3>3. wake' \in Nat /\ limit' \in Nat
      <4>1. wake \in Nat /\ limit \in Nat /\ now + poll \in Nat /\ now + poll + Oversleep \in Nat
        BY NumberTypes DEF Numbers
      <4> QED
        BY <2>3, <4>1 DEF Receive, GiveUp, Sleep
    <3>4. deadline' \in Nat /\ poll' \in (Polls \cup {0}) \cap Nat /\ reply' \in Lifecycle!Stages
      BY <2>3 DEF Receive, TypeOK
    <3> QED
      BY <3>1, <3>2, <3>3, <3>4 DEF TypeOK
  <2>4. CASE PollFails
    BY <2>4 DEF PollFails, TypeOK, Lifecycle!TypeOK, Outcomes
  <2>5. CASE Awake
    BY <2>5 DEF Awake, Ask, TypeOK, Lifecycle!TypeOK
  <2>6. CASE Progress
    <3>1. stage' \in [{Request} -> Lifecycle!Stages]
      BY <2>6 DEF Progress, Lifecycle!Advance
    <3> QED
      BY <2>6, <3>1 DEF Progress, tool, TypeOK, Lifecycle!TypeOK
  <2>7. CASE Tick
    BY <2>7 DEF Tick, tool, TypeOK, Lifecycle!TypeOK
  <2>8. CASE UNCHANGED vars
    BY <2>8 DEF vars, tool, TypeOK, Lifecycle!TypeOK
  <2> QED
    BY <2>1, <2>2, <2>3, <2>4, <2>5, <2>6, <2>7, <2>8 DEF Next, Tool
<1> QED
  BY <1>1, <1>2, PTL DEF Spec

-----------------------------------------------------------------------------
(* The inductive invariant.                                                *)

\* Before the first poll nothing is promised yet.
LEMMA InitWaitInv == Init => WaitInv
<1> SUFFICES ASSUME Init  PROVE WaitInv
  OBVIOUS
<1>1. pc = "called"
  BY DEF Init
<1>2. Status \in Lifecycle!Live \cup {"unknown"} => since = Never
  BY DEF Init, Lifecycle!Live, Terminal
<1> QED
  BY <1>1, <1>2 DEF WaitInv, LegsAreBounded, AnswersAreRecent, FinalAnswersStayTrue,
     FinishedInTimeIsReported

\* The bounds on a leg hold in every step: a leg is started by the tool, from a
\* leg or a sleep that had ended in time, and time only passes within its limit.
LEMMA LegsStayBounded ==
    ASSUME TypeOK, LegsAreBounded, [Next]_vars
    PROVE  LegsAreBounded'
<1>0. Numbers
  BY NumberTypes
<1> USE <1>0 DEF Numbers, LegsAreBounded
<1>1. ASSUME NEW t \in Timeouts, NEW p \in Polls, Call(t, p)  PROVE LegsAreBounded'
  <2>1. t \in Int /\ p \in Int
    BY WaitAssumption
  <2> QED
    BY <1>1, <2>1 DEF Call, Ask
<1>2. CASE Read
  BY <1>2 DEF Read
<1>3. CASE Receive
  <2>1. CASE pc' = "sleeping"
    <3>1. /\ now < deadline /\ poll >= 1
          /\ UNCHANGED <<now, poll, deadline>> /\ limit' = now + poll + Oversleep
      BY <1>3, <2>1 DEF Receive, GiveUp, Sleep, TimeIsUp
    <3> QED
      BY <2>1, <3>1
  <2>2. CASE pc' # "sleeping"
    BY <1>3, <2>2 DEF Receive, GiveUp, Sleep
  <2> QED
    BY <2>1, <2>2
<1>4. CASE PollFails
  BY <1>4 DEF PollFails
<1>5. CASE Awake
  BY <1>5 DEF Awake, Ask
<1>6. CASE Progress
  BY <1>6 DEF Progress, tool
<1>7. CASE Tick
  BY <1>7 DEF Tick, tool
<1>8. CASE UNCHANGED vars
  BY <1>8 DEF vars, tool
<1> QED
  BY <1>1, <1>2, <1>3, <1>4, <1>5, <1>6, <1>7, <1>8 DEF Next, Tool

\* Answers stay recent in every step: the registration can become terminal only
\* now, and an answer still under way was read at most Latency ticks ago.
LEMMA AnswersStayRecent ==
    ASSUME TypeOK, AnswersAreRecent, LegsAreBounded, [Next]_vars
    PROVE  AnswersAreRecent'
<1>0. Numbers
  BY NumberTypes
<1>a. /\ now + Latency <= now + Latency
      /\ since = Never => now + Latency <= since + Latency
  BY <1>0 DEF Numbers
<1>b. /\ limit <= now + Latency => limit <= (now + 1) + Latency
      /\ now >= deadline => now + 1 >= deadline
  BY <1>0 DEF Numbers
<1> USE DEF AnswersAreRecent
<1>1. ASSUME NEW t \in Timeouts, NEW p \in Polls, Call(t, p)  PROVE AnswersAreRecent'
  BY <1>1 DEF Call, Ask, Status
<1>2. CASE Read
  <2>1. Status' = Status /\ reply' = Status /\ now' = now /\ since' = since
    BY <1>2 DEF Read, Status
  <2>2. Status \notin Terminal \cup Gone => since = Never
    BY StatusType, StagesSplit
  <2>3. pc' = "answering" /\ limit' = now + Latency
    BY <1>2 DEF Read
  <2>4. limit' <= now' + Latency'
    BY <2>1, <2>3, <1>a
  <2>5. Status' \in Lifecycle!Live \cup {"unknown"} => since' = Never
    BY <2>1
  <2>6. reply' \notin Terminal \cup Gone => limit' <= since' + Latency'
    BY <2>1, <2>2, <2>3, <1>a
  <2> QED
    BY <2>3, <2>4, <2>5, <2>6
<1>3. CASE Receive
  BY <1>3 DEF Receive, GiveUp, Sleep, TimeIsUp, Status
<1>4. CASE PollFails
  BY <1>4 DEF PollFails, Status
<1>5. CASE Awake
  BY <1>5 DEF Awake, Ask, Status
<1>6. CASE Progress
  <2>1. UNCHANGED <<now, pc, reply, limit, deadline>>
    BY <1>6 DEF Progress, tool
  <2>2. since' = since \/ since' = now
    BY <1>6 DEF Progress
  <2>3. Status' \in Lifecycle!Live \cup {"unknown"} =>
          Status' \notin Terminal /\ Status \in Lifecycle!Live \cup {"unknown"}
    BY <1>6, OnlyDeletionIsLeft, StatusType, StagesSplit DEF Lifecycle!Live, Terminal, Gone
  <2>4. Status' \notin Terminal => since' = since
    BY <1>6 DEF Progress, Status
  <2>5. Status' \in Lifecycle!Live \cup {"unknown"} => since' = Never
    BY <2>3, <2>4
  <2>6. pc = "answering" /\ reply \notin Terminal \cup Gone => limit <= since' + Latency
    BY <2>2
  <2> QED
    BY <2>1, <2>5, <2>6
<1>7. CASE Tick
  <2>1. Status' = Status /\ now' = now + 1 /\ UNCHANGED <<since, pc, reply, limit, deadline>>
    BY <1>7 DEF Tick, tool, Status
  <2>2. limit <= now + Latency => limit <= now' + Latency
    BY <2>1, <1>b
  <2>3. now >= deadline => now' >= deadline
    BY <2>1, <1>b
  <2> QED
    BY <2>1, <2>2, <2>3
<1>8. CASE UNCHANGED vars
  BY <1>8 DEF vars, tool, Status
<1> QED
  BY <1>1, <1>2, <1>3, <1>4, <1>5, <1>6, <1>7, <1>8 DEF Next, Tool

\* A final answer stays true in every step, because a terminal registration has
\* nowhere to go but out of the table.
LEMMA FinalAnswersKept ==
    ASSUME TypeOK, FinalAnswersStayTrue, [Next]_vars
    PROVE  FinalAnswersStayTrue'
<1> USE DEF FinalAnswersStayTrue
<1>1. ASSUME NEW t \in Timeouts, NEW p \in Polls, Call(t, p)  PROVE FinalAnswersStayTrue'
  BY <1>1 DEF Call, Ask
<1>2. CASE Read
  BY <1>2 DEF Read, Status
<1>3. CASE Receive
  BY <1>3 DEF Receive, GiveUp, Sleep, Status
<1>4. CASE PollFails
  BY <1>4 DEF PollFails
<1>5. CASE Awake
  BY <1>5 DEF Awake, Ask
<1>6. CASE Progress
  <2>1. UNCHANGED <<pc, reply>>
    BY <1>6 DEF Progress, tool
  <2> QED
    BY <1>6, <2>1, OnlyDeletionIsLeft
<1>7. CASE Tick
  BY <1>7 DEF Tick, tool, Status
<1>8. CASE UNCHANGED vars
  BY <1>8 DEF vars, tool, Status
<1> QED
  BY <1>1, <1>2, <1>3, <1>4, <1>5, <1>6, <1>7, <1>8 DEF Next, Tool

\* The tool gives up on an answer that was recent, so what was terminal in time
\* would have been in it; a registration that becomes terminal later is late.
LEMMA NoneMissed ==
    ASSUME TypeOK, LegsAreBounded, AnswersAreRecent, FinishedInTimeIsReported, [Next]_vars
    PROVE  FinishedInTimeIsReported'
<1>0. Numbers
  BY NumberTypes
<1>a. now <= limit /\ now >= deadline /\ limit <= since + Latency => since + Latency >= deadline
  BY <1>0 DEF Numbers
<1>b. now >= deadline => now + Latency >= deadline
  BY <1>0 DEF Numbers
<1> USE DEF FinishedInTimeIsReported
<1>1. ASSUME NEW t \in Timeouts, NEW p \in Polls, Call(t, p)  PROVE FinishedInTimeIsReported'
  BY <1>1 DEF Call, Ask
<1>2. CASE Read
  BY <1>2 DEF Read
<1>3. CASE Receive
  <2>1. UNCHANGED <<since, now, deadline>> /\ pc = "answering"
    BY <1>3 DEF Receive
  <2>2. now <= limit
    BY <2>1 DEF LegsAreBounded
  <2>3. pc' = "timed out" => reply \notin Terminal \cup Gone /\ now >= deadline
    BY <1>3 DEF Receive, Final, Sleep, TimeIsUp, Terminal
  <2>4. pc' = "timed out" => limit <= since + Latency
    BY <2>1, <2>3 DEF AnswersAreRecent
  <2> QED
    BY <2>1, <2>2, <2>3, <2>4, <1>a
<1>4. CASE PollFails
  BY <1>4 DEF PollFails
<1>5. CASE Awake
  BY <1>5 DEF Awake, Ask
<1>6. CASE Progress
  <2>1. UNCHANGED <<now, pc, deadline>> /\ (since' = since \/ since' = now)
    BY <1>6 DEF Progress, tool
  <2>2. pc = "timed out" => now >= deadline
    BY DEF AnswersAreRecent
  <2> QED
    BY <2>1, <2>2, <1>b
<1>7. CASE Tick
  BY <1>7 DEF Tick, tool
<1>8. CASE UNCHANGED vars
  BY <1>8 DEF vars, tool
<1> QED
  BY <1>1, <1>2, <1>3, <1>4, <1>5, <1>6, <1>7, <1>8 DEF Next, Tool

\* Legs and sleeps end in time, answers are recent and final answers stay true,
\* whatever the service and the clock do in between (tools.py:49-71).
THEOREM WaitInductive == Spec => []WaitInv
<1>1. TypeOK /\ WaitInv /\ [Next]_vars => WaitInv'
  BY LegsStayBounded, AnswersStayRecent, FinalAnswersKept, NoneMissed DEF WaitInv
<1> QED
  BY InitWaitInv, TypeCorrect, <1>1, PTL DEF Spec

-----------------------------------------------------------------------------
(* The properties.                                                         *)

\* What the tool reports as final is so, or was until a deletion (tools.py:61-64).
THEOREM ReportsAreFinal == Spec => []ReportIsFinal
<1>1. TypeOK /\ WaitInv => ReportIsFinal
  BY DEF TypeOK, WaitInv, FinalAnswersStayTrue, ReportIsFinal
<1> QED
  BY TypeCorrect, WaitInductive, <1>1, PTL

\* A registration that was terminal in time for a last answer is reported, never
\* timed out (tools.py:60-71).
THEOREM NoneInTimeIsMissed == Spec => []FinishedInTimeIsReported
<1>1. WaitInv => FinishedInTimeIsReported
  BY DEF WaitInv
<1> QED
  BY WaitInductive, <1>1, PTL

\* The tool overruns its deadline by less than one sleep and one poll
\* (tools.py:60-71).
THEOREM OverrunsAreBounded == Spec => []OverrunIsBounded
<1>1. TypeOK /\ WaitInv => OverrunIsBounded
  BY NumberTypes DEF Numbers, WaitInv, LegsAreBounded, OverrunIsBounded
<1> QED
  BY TypeCorrect, WaitInductive, <1>1, PTL

=============================================================================
