----------------------- MODULE CurrencyWorkflowProofs -----------------------
(***************************************************************************)
(* Theorems about CurrencyWorkflow, for any plans (however many reserves), *)
(* amounts, dust threshold, retry limit and number of faults.              *)
(***************************************************************************)
EXTENDS CurrencyWorkflow, SequenceTheorems, FiniteSetTheorems, TLAPS

-----------------------------------------------------------------------------
(* The inductive invariant.                                                *)

\* The positions a workflow goes through.
PosOK(p) ==
    /\ Simple => p.step <= 4
    /\ p.step < 3 => p.reserve = 0 /\ p.phase = 0

\* A row the worker still acts on has attempts left and is at a known position.
RowOK(r) == r.status \in Live => r.attempts < MaxRetries /\ PosOK(r.pos)

\* The row at hand is live until its step is written.
SweepOK ==
    /\ plan = <<>> => row = AbsentRow /\ sweep = "idle" /\ txs = <<>>
    /\ sweep = "idle" => draft = AbsentRow
    /\ sweep \in {"selected", "begun", "planning", "sending"} => draft.status \in Live
    /\ sweep \in {"begun", "planning", "sending"} => draft.status \notin Waiting
    /\ sweep = "planning" => Task(draft.pos) \in {"plan", "gate"}
    /\ sweep = "sending" => Task(draft.pos) = "plan"
    /\ \A w \in newWaits : w.id <= Len(txs)

\* The type invariant, with what makes it inductive.
TypeInv == TypeOK /\ (\A r \in {row, draft} : RowOK(r)) /\ SweepOK

\* A transaction is mined, or it is the one the row waits for.
Assured(r, kind, site) ==
    \/ Mined(kind, site)
    \/ /\ r.status \in Waiting /\ r.wait.id \in DOMAIN txs
       /\ txs[r.wait.id].kind = kind /\ txs[r.wait.id].site = site

\* The commitment kept in the row is one for the name at hand, and it is mined or
\* waited for.
CommitKept(r) ==
    /\ r.rnc \in DOMAIN txs
    /\ txs[r.rnc].kind = "commit" /\ txs[r.rnc].site = Site(r.pos)
    /\ txs[r.rnc].state = "mined" \/ (r.status \in Waiting /\ r.wait.id = r.rnc)

\* The reserves whose ladder is behind a position.
Passed(p) ==
    IF Simple \/ ~CreatesReserves THEN {}
    ELSE {plan.reserves[i] : i \in {j \in DOMAIN plan.reserves :
                                        p.step > 3 \/ (p.step = 3 /\ j <= p.reserve)}}

\* How many rungs of the ladder of the name at hand are behind a position.
Rung(p) == IF InReserves(p) THEN p.phase ELSE p.step

\* The names whose ladder a position is on: of the token of a fractional currency
\* only the first two rungs.
OnLadder(p) == Simple \/ InReserves(p)

\* What a position in the workflow says has been done has been done.
Behind(r) ==
    /\ Task(r.pos) = "identity" => CommitKept(r)
    /\ OnLadder(r.pos) =>
          /\ Rung(r.pos) >= 2 => Given(Site(r.pos)) \/ Assured(r, "identity", Site(r.pos))
          /\ Rung(r.pos) >= 3 => Assured(r, "fund", Site(r.pos))
          /\ Rung(r.pos) >= 4 => Assured(r, "define", Site(r.pos))
    /\ ~Simple =>
          /\ r.pos.step >= 2 => Given(Token) \/ Assured(r, "identity", Token)
          /\ r.pos.step >= 6 => Assured(r, "define", Token)
    /\ \A c \in Passed(r.pos) : Assured(r, "define", c)

\* What the committed row, or the row at hand, implies.
RowInv(r) ==
    /\ r.status \in Live => Behind(r)
    /\ r.status = "complete" => Mined("define", Token)

\* The rows are true of the chain, and what was sent before was rightly sent.
IndInv == (\A r \in {row, draft} : RowInv(r)) /\ IdentityOnItsCommitment /\ DefineLast

-----------------------------------------------------------------------------
(* The workflows: what is done at each position, and where it leads.       *)

\* Everything a step may do.
Tasks == {"commit", "identity", "fund", "define", "finish", "pass", "plan", "gate"}

\* The tasks of simple_token, of the reserves and of the rest of fractional_token.
LEMMA TaskLists ==
    /\ SimpleTasks[1] = "commit" /\ SimpleTasks[2] = "identity" /\ SimpleTasks[3] = "fund"
    /\ SimpleTasks[4] = "define" /\ SimpleTasks[5] = "finish"
    /\ ReserveTasks[1] = "commit" /\ ReserveTasks[2] = "identity" /\ ReserveTasks[3] = "fund"
    /\ ReserveTasks[4] = "define" /\ ReserveTasks[5] = "pass"
<1>1. /\ Rungs \in Seq(Tasks) /\ Len(Rungs) = 4
      /\ Rungs[1] = "commit" /\ Rungs[2] = "identity" /\ Rungs[3] = "fund" /\ Rungs[4] = "define"
  BY DEF Rungs, Tasks
<1>2. ASSUME NEW all, NEW last \in Tasks, all = Rungs \o <<last>>
      PROVE  all[1] = "commit" /\ all[2] = "identity" /\ all[3] = "fund" /\ all[4] = "define" /\ all[5] = last
  <2>1. <<last>> \in Seq(Tasks) /\ Len(<<last>>) = 1 /\ <<last>>[1] = last
    OBVIOUS
  <2>2. PICK tail \in Seq(Tasks) : tail = <<last>>
    BY <2>1
  <2>3. all = Rungs \o tail /\ Len(tail) = 1 /\ tail[1] = last
    BY <1>2, <2>1, <2>2
  <2>4. \A i \in 1 .. Len(Rungs) + Len(tail) :
           all[i] = IF i <= Len(Rungs) THEN Rungs[i] ELSE tail[i - Len(Rungs)]
    <3>1. Rungs \in Seq(Tasks)
      BY <1>1
    <3> QED
      BY <2>3, <3>1, ConcatProperties, Zenon
  <2>5. Len(Rungs) = 4 /\ Len(tail) = 1
    BY <1>1, <2>3
  <2>6. /\ all[1] = Rungs[1] /\ all[2] = Rungs[2] /\ all[3] = Rungs[3] /\ all[4] = Rungs[4]
        /\ all[5] = tail[1]
    BY <2>4, <2>5
  <2> QED
    BY <1>1, <2>3, <2>6
<1> QED
  BY <1>2 DEF SimpleTasks, ReserveTasks, Tasks

\* A plan is none that was not sent.
LEMMA PlanIsNotEmpty == <<>> \notin Plan
  BY DEF Plan

\* What is done at each position.
LEMMA TasksInOrder ==
    ASSUME plan \in Plan, NEW p \in Position, PosOK(p)
    PROVE  /\ Simple =>
                /\ ~InReserves(p) /\ Site(p) = Token /\ ~Given(Token)
                /\ p.step \in 0 .. 4
                /\ p.step = 0 => Task(p) = "commit"
                /\ p.step = 1 => Task(p) = "identity"
                /\ p.step = 2 => Task(p) = "fund"
                /\ p.step = 3 => Task(p) = "define"
                /\ p.step = 4 => Task(p) = "finish"
           /\ ~Simple /\ InReserves(p) =>
                /\ p.step = 3 /\ Site(p) \in ReserveNames
                /\ p.phase = 0 => Task(p) = IF Given(Site(p)) THEN "pass" ELSE "commit"
                /\ p.phase = 1 => Task(p) = IF Given(Site(p)) THEN "pass" ELSE "identity"
                /\ p.phase = 2 => Task(p) = "fund"
                /\ p.phase = 3 => Task(p) = "define"
                /\ p.phase = 4 => Task(p) = "pass"
           /\ ~Simple /\ ~InReserves(p) =>
                /\ Site(p) = Token
                /\ p.step = 0 => Task(p) = IF Given(Token) THEN "pass" ELSE "commit"
                /\ p.step = 1 => Task(p) = IF Given(Token) THEN "pass" ELSE "identity"
                /\ p.step \in 2 .. 3 => Task(p) = "pass"
                /\ p.step = 4 => Task(p) = "plan"
                /\ p.step = 5 => Task(p) = "gate"
                /\ p.step = 6 => Task(p) = "finish"
<1>1. CASE Simple
  <2>1. ~InReserves(p) /\ Site(p) = Token /\ ~Given(Token) /\ p.step \in 0 .. 4
    BY <1>1 DEF InReserves, Site, Given, PosOK, Position
  <2> QED
    BY <1>1, <2>1, TaskLists DEF Task
<1>2. CASE ~Simple /\ InReserves(p)
  <2>1. p.step = 3 /\ p.reserve \in Nat /\ p.reserve < Len(plan.reserves) /\ plan.reserves \in Seq(ReserveNames)
    BY <1>2 DEF InReserves, Plan, Position
  <2>2. p.reserve + 1 \in DOMAIN plan.reserves
    BY <2>1
  <2>3. Site(p) \in ReserveNames
    BY <1>2, <2>1, <2>2 DEF Site
  <2> QED
    BY <1>2, <2>1, <2>3, TaskLists DEF Task
<1>3. CASE ~Simple /\ ~InReserves(p)
  BY <1>3 DEF Task, Site, FractionalTasks
<1> QED
  BY <1>1, <1>2, <1>3

\* The tasks after which the workflow goes on to another position.
Advancing == {"commit", "identity", "fund", "define", "pass", "gate"}

\* A step leads from a position the workflow goes through to another one.
LEMMA AfterIsPosition ==
    ASSUME plan \in Plan, NEW p \in Position, PosOK(p), Task(p) \in Advancing
    PROVE  After(p) \in Position /\ PosOK(After(p))
<1>0. p.step \in 0 .. 6 /\ p.reserve \in Nat /\ p.phase \in 0 .. 4
  BY DEF Position
<1>1. CASE InReserves(p)
  <2>1. p.step = 3 /\ ~Simple
    BY <1>1 DEF InReserves
  <2>2. CASE p.phase = 4
    <3>1. After(p) = [p EXCEPT !.reserve = p.reserve + 1, !.phase = 0]
      BY <1>1, <2>2 DEF After
    <3>2. p.reserve + 1 \in Nat
      BY <1>0
    <3>3. ASSUME NEW n \in Nat, NEW m \in 0 .. 4
          PROVE  /\ [p EXCEPT !.reserve = n, !.phase = m] \in Position
                 /\ [p EXCEPT !.reserve = n, !.phase = m].step = p.step
      BY DEF Position
    <3>4. After(p) \in Position /\ After(p).step = 3
      <4>1. 0 \in 0 .. 4
        OBVIOUS
      <4>2. PICK n \in Nat, m \in 0 .. 4 : n = p.reserve + 1 /\ m = 0
        BY <3>2, <4>1
      <4>3. After(p) = [p EXCEPT !.reserve = n, !.phase = m]
        BY <3>1, <4>2
      <4> QED
        BY <2>1, <3>3, <4>3
    <3> QED
      BY <2>1, <3>4 DEF PosOK
  <2>3. CASE p.phase # 4
    <3>1. PICK n \in 0 .. 4 : After(p) = [p EXCEPT !.phase = n]
      BY <1>0, <1>1, <2>3 DEF After
    <3> QED
      BY <1>0, <2>1, <3>1 DEF Position, PosOK
  <2> QED
    BY <2>2, <2>3
<1>2. CASE ~InReserves(p)
  <2>1. (Simple => p.step < 4) /\ p.step < 6
    BY <1>0, <1>2, TasksInOrder DEF Advancing
  <2>2. PICK n \in 0 .. 6 : /\ After(p) = [p EXCEPT !.step = n]
                            /\ n = 2 \/ n = p.step + 1
                            /\ p.step >= 2 => n = p.step + 1
    BY <1>0, <1>2, <2>1 DEF After
  <2>3. /\ After(p) \in Position /\ After(p).step = n
        /\ After(p).reserve = p.reserve /\ After(p).phase = p.phase
    BY <1>0, <2>2 DEF Position
  <2>4. PosOK(After(p))
    BY <1>0, <2>1, <2>2, <2>3 DEF PosOK
  <2> QED
    BY <2>3, <2>4
<1> QED
  BY <1>1, <1>2

\* What a new position says has been done was done before or by the step itself.
LEMMA AfterInOrder ==
    ASSUME plan \in Plan, NEW p \in Position, PosOK(p), Task(p) \in Advancing,
           NEW q, q = After(p)
    PROVE  /\ Task(q) = "identity" => Task(p) = "commit" /\ Site(q) = Site(p)
           /\ OnLadder(q) /\ Rung(q) >= 2 =>
                /\ OnLadder(p) /\ Site(q) = Site(p)
                /\ Rung(p) >= 2 \/ Given(Site(p)) \/ Task(p) = "identity"
                /\ Rung(q) >= 3 => Rung(p) >= 3 \/ Task(p) = "fund"
                /\ Rung(q) >= 4 => Rung(p) >= 4 \/ Task(p) = "define"
           /\ ~Simple /\ q.step >= 2 =>
                p.step >= 2 \/ Given(Token) \/ (Task(p) = "identity" /\ Site(p) = Token)
           /\ ~Simple /\ q.step >= 6 => Task(p) = "gate"
           /\ \A c \in Passed(q) : \/ c \in Passed(p)
                                   \/ OnLadder(p) /\ Rung(p) >= 4 /\ c = Site(p)
<1>0. /\ p.step \in 0 .. 6 /\ p.reserve \in Nat /\ p.phase \in 0 .. 4
      /\ q \in Position /\ PosOK(q)
  BY AfterIsPosition DEF Position
<1>1. CASE Simple
  <2>1. /\ ~InReserves(p) /\ ~InReserves(q) /\ Site(p) = Token /\ Site(q) = Token /\ ~Given(Token)
        /\ p.step \in 0 .. 3
    BY <1>0, <1>1, TasksInOrder DEF Advancing
  <2>2. q = [p EXCEPT !.step = p.step + 1]
    BY <1>0, <2>1 DEF After
  <2>3. q.step = p.step + 1
    BY <2>2 DEF Position
  <2>4. /\ q.step = 1 => Task(q) = "identity"
        /\ q.step = 2 => Task(q) = "fund"
        /\ q.step = 3 => Task(q) = "define"
        /\ q.step = 4 => Task(q) = "finish"
    BY <1>0, <1>1, TasksInOrder
  <2>5. /\ p.step = 0 => Task(p) = "commit"
        /\ p.step = 1 => Task(p) = "identity"
        /\ p.step = 2 => Task(p) = "fund"
        /\ p.step = 3 => Task(p) = "define"
    BY <1>1, TasksInOrder
  <2> QED
    BY <1>0, <1>1, <2>1, <2>3, <2>4, <2>5 DEF OnLadder, Rung, Passed
<1>2. CASE InReserves(p)
  <2>1. p.step = 3 /\ ~Simple /\ CreatesReserves /\ p.reserve < Len(plan.reserves)
    BY <1>2 DEF InReserves
  <2>2. CASE p.phase = 4
    <3>1. q = [p EXCEPT !.reserve = p.reserve + 1, !.phase = 0]
      BY <1>2, <2>2 DEF After
    <3>2. q.step = 3 /\ q.reserve = p.reserve + 1 /\ q.phase = 0
      BY <2>1, <3>1 DEF Position
    <3>3. Task(q) \in {"commit", "pass"}
      BY <1>0, <2>1, <3>2, TasksInOrder
    <3>4. OnLadder(q) => Rung(q) = 0
      BY <2>1, <3>2 DEF OnLadder, Rung
    <3>5. ASSUME NEW c \in Passed(q) PROVE c \in Passed(p) \/ c = Site(p)
      <4>1. PICK i \in DOMAIN plan.reserves : c = plan.reserves[i] /\ i <= p.reserve + 1
        BY <2>1, <3>2 DEF Passed
      <4>2. i \in Nat
        BY <4>1 DEF Plan
      <4>3. CASE i <= p.reserve
        BY <2>1, <4>1, <4>3 DEF Passed
      <4>4. CASE i = p.reserve + 1
        BY <1>2, <4>1, <4>4 DEF Site
      <4> QED
        BY <1>0, <4>1, <4>2, <4>3, <4>4
    <3> QED
      BY <1>2, <2>1, <2>2, <3>2, <3>3, <3>4, <3>5 DEF OnLadder, Rung
  <2>3. CASE p.phase # 4
    <3>1. PICK n \in 0 .. 4 : q = [p EXCEPT !.phase = n] /\ n = IF p.phase < 2 /\ Given(Site(p)) THEN 2 ELSE p.phase + 1
      BY <1>0, <1>2, <2>3 DEF After
    <3>2. q.step = 3 /\ q.reserve = p.reserve /\ q.phase = n
      BY <2>1, <3>1 DEF Position
    <3>3. InReserves(q) /\ Site(q) = Site(p) /\ Passed(q) = Passed(p)
      BY <1>2, <2>1, <3>2 DEF InReserves, Site, Passed
    <3>4. /\ n = 1 => p.phase = 0 /\ ~Given(Site(p))
          /\ n = 3 => p.phase = 2
          /\ n = 4 => p.phase = 3
          /\ n >= 2 => p.phase >= 2 \/ p.phase = 1 \/ Given(Site(p))
      BY <1>0, <3>1
    <3>5. /\ Task(q) = "identity" => n = 1
          /\ p.phase = 0 /\ ~Given(Site(p)) => Task(p) = "commit"
          /\ p.phase = 1 /\ ~Given(Site(p)) => Task(p) = "identity"
          /\ p.phase = 2 => Task(p) = "fund"
          /\ p.phase = 3 => Task(p) = "define"
      BY <1>0, <1>2, <2>1, <3>2, <3>3, TasksInOrder
    <3> QED
      BY <1>0, <1>2, <2>1, <3>2, <3>3, <3>4, <3>5 DEF OnLadder, Rung
  <2> QED
    BY <2>2, <2>3
<1>3. CASE ~Simple /\ ~InReserves(p)
  <2>1. p.step < 6
    BY <1>0, <1>3, TasksInOrder DEF Advancing
  <2>2. PICK n \in 0 .. 6 : /\ q = [p EXCEPT !.step = n]
                            /\ n = IF p.step < 2 /\ Given(Token) THEN 2 ELSE p.step + 1
    BY <1>0, <1>3, <2>1 DEF After
  <2>3. q.step = n /\ q.reserve = p.reserve /\ q.phase = p.phase
    BY <2>2 DEF Position
  <2>4. /\ p.step = 0 /\ ~Given(Token) => Task(p) = "commit"
        /\ p.step = 1 /\ ~Given(Token) => Task(p) = "identity"
        /\ p.step = 5 => Task(p) = "gate"
        /\ Site(p) = Token
    BY <1>3, TasksInOrder
  <2>5. CASE InReserves(q)
    <3>1. q.step = 3 /\ p.step = 2 /\ q.phase = 0 /\ q.reserve = 0
      BY <1>0, <1>3, <2>2, <2>3, <2>5 DEF InReserves, PosOK
    <3>2. Task(q) # "identity" /\ Rung(q) = 0
      BY <1>0, <1>3, <2>5, <3>1, TasksInOrder DEF Rung
    <3>3. Passed(q) = {}
      BY <3>1 DEF Passed, Plan
    <3> QED
      BY <1>0, <3>1, <3>2, <3>3
  <2>6. CASE ~InReserves(q)
    <3>1. Site(q) = Token /\ ~OnLadder(q) /\ (Task(q) = "identity" => n = 1)
      BY <1>0, <1>3, <2>3, <2>6, TasksInOrder DEF OnLadder
    <3>2. Passed(q) \subseteq Passed(p)
      <4>1. CASE ~CreatesReserves
        BY <4>1 DEF Passed
      <4>2. CASE CreatesReserves /\ n < 3
        BY <1>3, <2>3, <4>2 DEF Passed
      <4>3. CASE CreatesReserves /\ n = 3
        <5>1. p.step = 2 /\ q.reserve = 0
          BY <1>0, <2>2, <2>3, <4>3 DEF PosOK
        <5> QED
          BY <2>3, <4>3, <5>1 DEF Passed, Plan
      <4>4. CASE CreatesReserves /\ n > 3
        <5>1. p.step >= 3
          BY <1>0, <2>2, <4>4
        <5>2. p.step = 3 => p.reserve >= Len(plan.reserves)
          BY <1>0, <1>3, <4>4 DEF InReserves, Plan
        <5>3. \A i \in DOMAIN plan.reserves : p.step > 3 \/ (p.step = 3 /\ i <= p.reserve)
          BY <1>0, <5>1, <5>2 DEF Plan
        <5> QED
          BY <1>3, <4>4, <5>3 DEF Passed
      <4> QED
        BY <4>1, <4>2, <4>3, <4>4
    <3>3. /\ n = 1 => p.step = 0 /\ ~Given(Token)
          /\ n >= 2 => p.step >= 2 \/ Given(Token) \/ p.step = 1
          /\ n >= 6 => p.step = 5
      BY <1>0, <2>1, <2>2
    <3> QED
      BY <1>0, <1>3, <2>3, <2>4, <3>1, <3>2, <3>3
  <2> QED
    BY <2>5, <2>6
<1> QED
  BY <1>1, <1>2, <1>3

-----------------------------------------------------------------------------
(* Types: rows.                                                            *)

\* Every status of a row.
RowStatuses == {"absent", "complete", "failed"} \cup Live

\* A row, none of whose waits and commitments is one of transactions after the first n.
WellFormed(r, n) ==
    /\ r \in Row
    /\ r.attempts <= MaxRetries
    /\ r.rnc <= n
    /\ \A w \in r.pending \cup {r.wait} : w.id <= n

\* A row that is not there refers to nothing.
LEMMA AbsentIsRow ==
    /\ AbsentRow \in Row /\ AbsentRow.status = "absent"
    /\ \A n \in Nat : WellFormed(AbsentRow, n)
<1>1. NoWait \in Wait /\ NoWait.id = 0
  BY DEF NoWait, Wait
<1>2. PICK none \in Wait : none = NoWait /\ none.id = 0
  BY <1>1
<1>3. [step |-> 0, reserve |-> 0, phase |-> 0] \in Position
  BY DEF Position
<1>4. PICK start \in Position : start = [step |-> 0, reserve |-> 0, phase |-> 0]
  BY <1>3
<1>5. AbsentRow = [status |-> "absent", pos |-> start, attempts |-> 0, backoff |-> FALSE,
                   wait |-> none, rnc |-> 0, pending |-> {}, sanity |-> FALSE]
  BY <1>2, <1>4 DEF AbsentRow
<1>6. AbsentRow \in Row
  BY <1>5 DEF Row
<1>7. /\ AbsentRow.status = "absent" /\ AbsentRow.attempts = 0 /\ AbsentRow.rnc = 0
      /\ AbsentRow.wait = none /\ AbsentRow.pending = {}
  BY <1>5
<1> QED
  BY <1>2, <1>6, <1>7, CurrencyAssumption DEF WellFormed

\* What _save_currency_state writes.
LEMMA SavedIsRow ==
    ASSUME draft \in Row, NEW status \in RowStatuses, NEW pos \in Position, NEW wait \in Wait
    PROVE  /\ Saved(status, pos, wait) \in Row
           /\ Saved(status, pos, wait).status = status
           /\ Saved(status, pos, wait).pos = pos
           /\ Saved(status, pos, wait).wait = wait
           /\ Saved(status, pos, wait).attempts = 0
           /\ Saved(status, pos, wait).rnc = draft.rnc
           /\ Saved(status, pos, wait).pending = draft.pending
  BY DEF Saved, Row, RowStatuses

\* What _record_currency_retry_or_failure and a permanent error write.
LEMMA RetriedIsRow ==
    ASSUME draft \in Row
    PROVE  /\ RetryOrFailure \in Row /\ Abandoned \in Row
           /\ RetryOrFailure.attempts = draft.attempts + 1 /\ Abandoned.attempts = draft.attempts + 1
           /\ RetryOrFailure.status = IF draft.attempts + 1 >= MaxRetries THEN "failed" ELSE draft.status
           /\ Abandoned.status = "failed"
           /\ RetryOrFailure.pos = draft.pos /\ RetryOrFailure.wait = draft.wait
           /\ RetryOrFailure.rnc = draft.rnc /\ RetryOrFailure.pending = draft.pending
           /\ Abandoned.pos = draft.pos /\ Abandoned.wait = draft.wait
           /\ Abandoned.rnc = draft.rnc /\ Abandoned.pending = draft.pending
<1>1. draft.attempts + 1 \in Nat
  BY DEF Row
<1> QED
  BY <1>1 DEF RetryOrFailure, Abandoned, Row

\* The further columns a step may set: the commitment,
LEMMA RncSet ==
    ASSUME NEW r \in Row, NEW n \in Nat, NEW s, s = [r EXCEPT !.rnc = n]
    PROVE  /\ s \in Row /\ s.status = r.status /\ s.pos = r.pos /\ s.wait = r.wait
           /\ s.attempts = r.attempts /\ s.pending = r.pending /\ s.rnc = n
  BY DEF Row

\* the waits of a funding step,
LEMMA PendingSet ==
    ASSUME NEW r \in Row, NEW waits \in SUBSET Wait, NEW s, s = [r EXCEPT !.pending = waits]
    PROVE  /\ s \in Row /\ s.status = r.status /\ s.pos = r.pos /\ s.wait = r.wait
           /\ s.attempts = r.attempts /\ s.rnc = r.rnc /\ s.sanity = r.sanity /\ s.pending = waits
  BY DEF Row

\* the sanity mark and the time of the next attempt.
LEMMA MarkSet ==
    ASSUME NEW r \in Row, NEW b \in BOOLEAN, NEW s,
           s = [r EXCEPT !.sanity = b] \/ s = [r EXCEPT !.backoff = b]
    PROVE  /\ s \in Row /\ s.status = r.status /\ s.pos = r.pos /\ s.wait = r.wait
           /\ s.attempts = r.attempts /\ s.rnc = r.rnc /\ s.pending = r.pending
  BY DEF Row

\* The row at hand is live, with attempts left, until its step is written.
Handling == {"selected", "begun", "planning", "sending"}

\* A row that a step has failed, or that is to be tried again, is well formed.
LEMMA RetriedIsOK ==
    ASSUME TypeInv, sweep \in Handling, NEW n \in Nat, n >= Len(txs)
    PROVE  /\ WellFormed(RetryOrFailure, n) /\ RowOK(RetryOrFailure)
           /\ WellFormed(Abandoned, n) /\ RowOK(Abandoned)
<1>1. /\ draft \in Row /\ draft.attempts < MaxRetries /\ draft.attempts \in Nat /\ MaxRetries \in Nat
      /\ draft.rnc \in Nat /\ draft.rnc <= Len(txs) /\ Len(txs) \in Nat
      /\ \A w \in draft.pending \cup {draft.wait} : w.id \in Nat /\ w.id <= Len(txs)
      /\ PosOK(draft.pos)
  BY CurrencyAssumption DEF TypeInv, TypeOK, SweepOK, Handling, RowOK, Row, Wait
<1>2. draft.rnc <= n /\ \A w \in draft.pending \cup {draft.wait} : w.id <= n
  BY <1>1
<1>3. draft.attempts + 1 <= MaxRetries /\ (~(draft.attempts + 1 >= MaxRetries) => draft.attempts + 1 < MaxRetries)
  BY <1>1
<1>4. "failed" \notin Live
  BY DEF Live, Waiting
<1>5. WellFormed(RetryOrFailure, n) /\ WellFormed(Abandoned, n)
  BY <1>1, <1>2, <1>3, RetriedIsRow DEF WellFormed
<1>6. RowOK(RetryOrFailure) /\ RowOK(Abandoned)
  BY <1>1, <1>3, <1>4, RetriedIsRow DEF RowOK
<1> QED
  BY <1>5, <1>6

\* A row saved at a position of the workflow is well formed.
LEMMA SavedIsOK ==
    ASSUME TypeInv, NEW n \in Nat, n >= Len(txs),
           NEW status \in RowStatuses, NEW pos \in Position, PosOK(pos), NEW wait \in Wait, wait.id <= n
    PROVE  WellFormed(Saved(status, pos, wait), n) /\ RowOK(Saved(status, pos, wait))
<1>1. /\ draft \in Row /\ MaxRetries \in Nat /\ MaxRetries > 0
      /\ draft.rnc \in Nat /\ draft.rnc <= Len(txs) /\ Len(txs) \in Nat
      /\ \A w \in draft.pending : w.id \in Nat /\ w.id <= Len(txs)
  BY CurrencyAssumption DEF TypeInv, TypeOK, Row, Wait
<1>2. draft.rnc <= n /\ \A w \in draft.pending : w.id <= n
  BY <1>1
<1> QED
  BY <1>1, <1>2, SavedIsRow DEF WellFormed, RowOK

\* The daemon's list grows by what it takes.
LEMMA TakenList ==
    ASSUME TypeInv, NEW kind \in {"commit", "identity", "fund", "define", "transfer"},
           NEW site \in {Token} \cup ReserveNames, NEW amount \in [Currencies -> Nat],
           NEW state \in {"executing", "failed", "mempool", "mined"},
           Taken(kind, site, amount, state)
    PROVE  \E tx \in Tx :
              /\ tx.kind = kind /\ tx.site = site /\ tx.amount = amount /\ tx.state = state
              /\ tx.rnc = IF kind = "identity" THEN draft.rnc ELSE 0
              /\ txs' \in Seq(Tx) /\ Len(txs') = Len(txs) + 1 /\ NextTx = Len(txs) + 1
              /\ NextTx \in Nat /\ Len(txs) \in Nat /\ DOMAIN txs' = 1 .. NextTx /\ DOMAIN txs = 1 .. Len(txs)
              /\ \A i \in DOMAIN txs : txs'[i] = txs[i]
              /\ txs'[NextTx] = tx
<1> DEFINE new == [kind |-> kind, site |-> site, amount |-> amount, state |-> state,
                   rnc |-> IF kind = "identity" THEN draft.rnc ELSE 0]
<1>1. txs \in Seq(Tx) /\ draft.rnc \in Nat
  BY DEF TypeInv, TypeOK, Row
<1>2. new \in Tx
  BY <1>1 DEF Tx
<1>3. txs' = Append(txs, new)
  BY DEF Taken
<1>4. /\ new.kind = kind /\ new.site = site /\ new.amount = amount /\ new.state = state
      /\ new.rnc = IF kind = "identity" THEN draft.rnc ELSE 0
  OBVIOUS
<1> HIDE DEF new
<1>5. /\ txs' \in Seq(Tx) /\ Len(txs') = Len(txs) + 1
      /\ \A i \in 1 .. Len(txs) : txs'[i] = txs[i]
      /\ txs'[Len(txs) + 1] = new
  BY <1>1, <1>2, <1>3, AppendProperties
<1>6. /\ NextTx = Len(txs) + 1 /\ NextTx \in Nat /\ Len(txs) \in Nat
      /\ DOMAIN txs' = 1 .. NextTx /\ DOMAIN txs = 1 .. Len(txs)
  BY <1>1, <1>5 DEF NextTx
<1> QED
  BY <1>2, <1>4, <1>5, <1>6

\* The daemon's list keeps its type, and the source can pay what it took.
LEMMA TakenType ==
    ASSUME TypeInv, NEW kind \in {"commit", "identity", "fund", "define", "transfer"},
           NEW site \in {Token} \cup ReserveNames, NEW amount \in [Currencies -> Nat],
           NEW state \in {"executing", "failed", "mempool", "mined"},
           state = "failed" \/ \A c \in Currencies : amount[c] <= funds[c],
           Taken(kind, site, amount, state)
    PROVE  /\ txs' \in Seq(Tx) /\ Len(txs') = Len(txs) + 1 /\ NextTx = Len(txs) + 1 /\ Len(txs) \in Nat
           /\ forgotten' = forgotten /\ forgotten' \subseteq DOMAIN txs'
           /\ funds' \in [Currencies -> Nat] /\ balance' = balance /\ refills' = refills
<1>1. funds \in [Currencies -> Nat] /\ forgotten \subseteq DOMAIN txs
  BY DEF TypeInv, TypeOK
<1>2. /\ txs' \in Seq(Tx) /\ Len(txs') = Len(txs) + 1 /\ NextTx = Len(txs) + 1 /\ Len(txs) \in Nat
      /\ DOMAIN txs' = 1 .. NextTx /\ DOMAIN txs = 1 .. Len(txs)
  BY TakenList
<1>3. forgotten' = forgotten /\ balance' = balance /\ refills' = refills
  BY DEF Taken
<1>4. state = "failed" \/ \A c \in Currencies : funds[c] - amount[c] \in Nat
  BY <1>1
<1>5. funds' \in [Currencies -> Nat]
  BY <1>1, <1>4 DEF Taken
<1>6. forgotten' \subseteq DOMAIN txs'
  BY <1>1, <1>2, <1>3
<1> QED
  BY <1>2, <1>3, <1>5, <1>6

\* The UPDATE of a step: nothing else of the sweep is left.
LEMMA WriteType ==
    ASSUME TypeInv, plan \in Plans, NEW r, Write(r), WellFormed(r, Len(txs)'), RowOK(r),
           txs' \in Seq(Tx), Len(txs) <= Len(txs'), faults' \in 0 .. FaultBound,
           forgotten' = forgotten, forgotten' \subseteq DOMAIN txs',
           funds' \in [Currencies -> Nat], UNCHANGED <<balance, refills>>
    PROVE  TypeInv'
<1>1. /\ plan' = plan /\ row' = row /\ draft' = r /\ sweep' = "written"
      /\ toSend' = Nothing /\ newWaits' = {} /\ short' = FALSE
  BY DEF Write
<1>2. plan # <<>>
  BY PlanIsNotEmpty, CurrencyAssumption
<1>3. Nothing \in [Currencies -> Nat]
  BY DEF Nothing
<1>4. ASSUME NEW old \in {row, r} PROVE WellFormed(old, Len(txs'))
  <2>1. CASE old = row
    <3>1. /\ row \in Row /\ row.attempts <= MaxRetries /\ row.rnc <= Len(txs) /\ row.rnc \in Nat
          /\ \A w \in row.pending \cup {row.wait} : w.id \in Nat /\ w.id <= Len(txs)
          /\ Len(txs) \in Nat /\ Len(txs') \in Nat
      BY DEF TypeInv, TypeOK, Row, Wait
    <3> QED
      BY <2>1, <3>1 DEF WellFormed
  <2> QED
    BY <2>1
<1>5. TypeOK'
  BY <1>1, <1>3, <1>4 DEF TypeInv, TypeOK, WellFormed
<1>6. \A old \in {row', draft'} : RowOK(old)'
  BY <1>1 DEF TypeInv, RowOK, PosOK, Simple
<1>7. SweepOK'
  BY <1>1, <1>2 DEF SweepOK
<1> QED
  BY <1>5, <1>6, <1>7 DEF TypeInv

\* The row at hand, and the request it belongs to.
LEMMA AtHand ==
    ASSUME TypeInv, sweep \in Handling
    PROVE  /\ plan \in Plans /\ plan \in Plan
           /\ draft \in Row /\ draft.status \in Live /\ draft.status \in RowStatuses
           /\ draft.pos \in Position /\ PosOK(draft.pos)
           /\ Site(draft.pos) \in {Token} \cup ReserveNames
           /\ draft.wait \in Wait /\ draft.wait.id <= Len(txs)
           /\ Len(txs) \in Nat /\ Len(txs) <= Len(txs)
<1>1. sweep # "idle"
  BY DEF Handling
<1>2. plan \in Plans /\ plan \in Plan
  BY <1>1, CurrencyAssumption DEF TypeInv, TypeOK, SweepOK
<1>3. /\ draft \in Row /\ draft.status \in Live /\ draft.wait.id <= Len(txs)
      /\ Len(txs) \in Nat /\ Len(txs) <= Len(txs) /\ PosOK(draft.pos)
  BY DEF TypeInv, TypeOK, SweepOK, RowOK, Handling
<1>4. draft.pos \in Position /\ draft.wait \in Wait /\ draft.status \in RowStatuses
  BY <1>3 DEF Row, RowStatuses
<1> QED
  BY <1>2, <1>3, <1>4, TasksInOrder

\* A transfer, commitment, identity or definition needs no more than its source has.
LEMMA NothingIsPaid ==
    ASSUME TypeInv
    PROVE  Nothing \in [Currencies -> Nat] /\ \A c \in Currencies : Nothing[c] <= funds[c]
  BY DEF Nothing, TypeInv, TypeOK

\* A step that sends nothing.
LEMMA QuietWriteType ==
    ASSUME TypeInv, sweep \in Handling, NEW r, Write(r), WellFormed(r, Len(txs)), RowOK(r),
           faults' \in 0 .. FaultBound, UNCHANGED chainVars
    PROVE  TypeInv'
<1>1. /\ txs' = txs /\ forgotten' = forgotten /\ funds' = funds /\ balance' = balance /\ refills' = refills
  BY DEF chainVars
<1>2. /\ txs \in Seq(Tx) /\ Len(txs) <= Len(txs) /\ forgotten \subseteq DOMAIN txs
      /\ funds \in [Currencies -> Nat]
  BY DEF TypeInv, TypeOK
<1>3. WellFormed(r, Len(txs)')
  BY <1>1
<1> QED
  BY <1>1, <1>2, <1>3, AtHand, WriteType

\* A step that the daemon has taken a call of.
LEMMA TakenWriteType ==
    ASSUME TypeInv, sweep \in Handling,
           NEW kind \in {"commit", "identity", "fund", "define", "transfer"},
           NEW site \in {Token} \cup ReserveNames, NEW amount \in [Currencies -> Nat],
           NEW state \in {"executing", "failed", "mempool", "mined"},
           state = "failed" \/ \A c \in Currencies : amount[c] <= funds[c],
           Taken(kind, site, amount, state),
           NEW r, Write(r), WellFormed(r, NextTx), RowOK(r), faults' \in 0 .. FaultBound
    PROVE  TypeInv'
<1>1. /\ txs' \in Seq(Tx) /\ Len(txs') = Len(txs) + 1 /\ NextTx = Len(txs) + 1 /\ Len(txs) \in Nat
      /\ forgotten' = forgotten /\ forgotten' \subseteq DOMAIN txs'
      /\ funds' \in [Currencies -> Nat] /\ balance' = balance /\ refills' = refills
  BY TakenType
<1>2. Len(txs) <= Len(txs') /\ WellFormed(r, Len(txs)')
  BY <1>1
<1> QED
  BY <1>1, <1>2, AtHand, WriteType

\* A call that raised, or whose answer is lost, ends the step.
LEMMA RaisedType ==
    ASSUME TypeInv, sweep \in Handling, Write(RetryOrFailure) \/ Write(Abandoned),
           faults' \in 0 .. FaultBound, UNCHANGED chainVars
    PROVE  TypeInv'
<1>1. /\ WellFormed(RetryOrFailure, Len(txs)) /\ RowOK(RetryOrFailure)
      /\ WellFormed(Abandoned, Len(txs)) /\ RowOK(Abandoned)
  BY AtHand, RetriedIsOK
<1>2. CASE Write(RetryOrFailure)
  BY <1>1, <1>2, QuietWriteType
<1>3. CASE Write(Abandoned)
  BY <1>1, <1>3, QuietWriteType
<1> QED
  BY <1>2, <1>3

\* So does one whose call was taken all the same.
LEMMA TakenRaisedType ==
    ASSUME TypeInv, sweep \in Handling, Write(RetryOrFailure) \/ Write(Abandoned),
           NEW kind \in {"commit", "identity", "fund", "define", "transfer"},
           NEW site \in {Token} \cup ReserveNames, NEW amount \in [Currencies -> Nat],
           NEW state \in {"executing", "failed", "mempool", "mined"},
           state = "failed" \/ \A c \in Currencies : amount[c] <= funds[c],
           Taken(kind, site, amount, state), faults' \in 0 .. FaultBound
    PROVE  TypeInv'
<1>1. NextTx \in Nat /\ NextTx >= Len(txs)
  BY AtHand DEF NextTx
<1>2. /\ WellFormed(RetryOrFailure, NextTx) /\ RowOK(RetryOrFailure)
      /\ WellFormed(Abandoned, NextTx) /\ RowOK(Abandoned)
  BY <1>1, RetriedIsOK
<1>3. CASE Write(RetryOrFailure)
  BY <1>2, <1>3, TakenWriteType
<1>4. CASE Write(Abandoned)
  BY <1>2, <1>4, TakenWriteType
<1> QED
  BY <1>3, <1>4

\* A step that goes on to the next position, with what it has to wait for.
LEMMA AdvancedIsOK ==
    ASSUME TypeInv, sweep \in Handling, Task(draft.pos) \in Advancing,
           NEW n \in Nat, n >= Len(txs), NEW wait \in Wait, wait.id <= n
    PROVE  /\ WellFormed(Advanced(wait), n) /\ RowOK(Advanced(wait))
           /\ Advanced(wait).pos = After(draft.pos)
           /\ Advanced(wait).wait = wait /\ Advanced(wait).rnc = draft.rnc
           /\ Advanced(wait).status = IF wait.type = "opid_txid" THEN "waiting_opid" ELSE "waiting_confirm"
<1>1. PICK status \in RowStatuses :
         /\ status = IF wait.type = "opid_txid" THEN "waiting_opid" ELSE "waiting_confirm"
         /\ Advanced(wait) = Saved(status, After(draft.pos), wait)
  BY DEF Advanced, RowStatuses, Live, Waiting
<1>2. After(draft.pos) \in Position /\ PosOK(After(draft.pos))
  BY AtHand, AfterIsPosition
<1> QED
  BY <1>1, <1>2, AtHand, SavedIsOK, SavedIsRow

\* The waits for a transaction the daemon is about to take.
LEMMA NewWaitsAreWaits ==
    ASSUME TypeInv
    PROVE  /\ NextTx \in Nat /\ NextTx >= Len(txs) /\ Len(txs) \in Nat
           /\ TxWait(NextTx) \in Wait /\ TxWait(NextTx).id = NextTx /\ TxWait(NextTx).type = "tx_confirm"
           /\ OpWait(NextTx) \in Wait /\ OpWait(NextTx).id = NextTx /\ OpWait(NextTx).type = "opid_txid"
           /\ NoWait \in Wait /\ NoWait.id = 0
<1>1. NextTx \in Nat /\ NextTx >= Len(txs) /\ Len(txs) \in Nat
  BY DEF TypeInv, TypeOK, NextTx
<1> QED
  BY <1>1 DEF TxWait, OpWait, NoWait, Wait

-----------------------------------------------------------------------------
(* Types: the actions.                                                     *)

\* The API's statements.
LEMMA ApiType ==
    ASSUME TypeInv, Enqueue \/ DeleteRequest
    PROVE  TypeInv'
<1> USE DEF TypeInv, TypeOK
<1>1. CASE Enqueue
  <2>1. /\ plan' \in Plans /\ plan' # <<>> /\ sweep = "idle" /\ draft = AbsentRow
        /\ UNCHANGED <<sweep, jobVars, faults, chainVars>>
    BY <1>1, PlanIsNotEmpty, CurrencyAssumption DEF Enqueue, SweepOK
  <2>2. PICK new : new = [AbsentRow EXCEPT !.status = "pending"]
    OBVIOUS
  <2>3. /\ new \in Row /\ new.attempts = 0 /\ new.rnc = 0 /\ new.wait = NoWait /\ new.pending = {}
        /\ new.pos = [step |-> 0, reserve |-> 0, phase |-> 0]
    <3>1. AbsentRow \in Row
      BY AbsentIsRow
    <3>2. /\ new \in Row /\ new.attempts = AbsentRow.attempts /\ new.rnc = AbsentRow.rnc
          /\ new.wait = AbsentRow.wait /\ new.pending = AbsentRow.pending /\ new.pos = AbsentRow.pos
      BY <2>2, <3>1 DEF Row, Live
    <3> QED
      BY <3>2 DEF AbsentRow
  <2>4. row' = new /\ draft' = AbsentRow /\ sweep' = "idle" /\ txs' = txs /\ funds' = funds /\ newWaits' = newWaits
    BY <1>1, <2>1, <2>2 DEF Enqueue, jobVars, chainVars
  <2>5. Len(txs) \in Nat /\ MaxRetries \in Nat /\ 0 < MaxRetries
    BY CurrencyAssumption
  <2>6. WellFormed(new, Len(txs')) /\ WellFormed(AbsentRow, Len(txs'))
    BY <2>3, <2>4, <2>5, AbsentIsRow DEF WellFormed, NoWait
  <2>7. RowOK(new)' /\ RowOK(AbsentRow)'
    <3>1. AbsentRow.status \notin Live
      BY AbsentIsRow DEF Live, Waiting
    <3> QED
      BY <2>3, <2>5, <3>1 DEF RowOK, PosOK
  <2>8. TypeOK'
    BY <2>1, <2>4, <2>6 DEF WellFormed, jobVars, chainVars
  <2>9. \A r \in {row', draft'} : RowOK(r)'
    BY <2>4, <2>7
  <2>10. SweepOK'
    BY <2>1, <2>4 DEF SweepOK
  <2> QED
    BY <2>8, <2>9, <2>10
<1>2. CASE DeleteRequest
  <2>1. /\ row' = AbsentRow /\ row.status # "absent"
        /\ UNCHANGED <<plan, sweep, draft, toSend, newWaits, short, faults, txs, forgotten, funds, balance, refills>>
    BY <1>2 DEF DeleteRequest, jobVars, chainVars
  <2>2. WellFormed(AbsentRow, Len(txs)) /\ AbsentRow.status = "absent"
    <3>1. PICK n \in Nat : n = Len(txs)
      BY NewWaitsAreWaits
    <3> QED
      BY <3>1, AbsentIsRow
  <2>3. TypeOK'
    BY <2>1, <2>2 DEF WellFormed
  <2>4. \A r \in {row', draft'} : RowOK(r)'
    BY <2>1, <2>2 DEF RowOK, PosOK, Simple, Live, Waiting
  <2>5. SweepOK'
    BY <2>1, <2>2 DEF SweepOK, Task, Simple, InReserves, CreatesReserves, Site, Given
  <2> QED
    BY <2>3, <2>4, <2>5
<1> QED
  BY <1>1, <1>2

\* The end of a sweep: its commit, the worker's death, or a pending row that is gone.
LEMMA EndType ==
    ASSUME TypeInv, sweep' = "idle", Clear, row' \in {row, draft}, faults' \in 0 .. FaultBound,
           sweep # "idle", UNCHANGED <<plan, chainVars>>
    PROVE  TypeInv'
<1> USE DEF TypeInv, TypeOK
<1>1. /\ draft' = AbsentRow /\ toSend' = Nothing /\ newWaits' = {} /\ short' = FALSE
      /\ UNCHANGED <<plan, txs, forgotten, funds, balance, refills>>
  BY DEF Clear, chainVars
<1>2. WellFormed(AbsentRow, Len(txs)) /\ AbsentRow.status = "absent" /\ Nothing \in [Currencies -> Nat]
  BY AbsentIsRow DEF Nothing
<1>3. TypeOK'
  BY <1>1, <1>2 DEF WellFormed
<1>4. \A r \in {row', draft'} : RowOK(r)'
  BY <1>1, <1>2 DEF RowOK, PosOK, Simple, Live, Waiting
<1>5. SweepOK'
  BY <1>1 DEF SweepOK
<1> QED
  BY <1>3, <1>4, <1>5

\* Reading the row, beginning its step, and the end of the sweep.
LEMMA ReadType ==
    ASSUME TypeInv, Select \/ Begin \/ Commit \/ Crash
    PROVE  TypeInv'
<1> USE DEF TypeInv, TypeOK
<1>1. CASE Select
  <2>1. /\ draft' = row /\ row.status \in Live /\ sweep' = "selected"
        /\ UNCHANGED <<plan, row, toSend, newWaits, short, faults, txs, forgotten, funds, balance, refills>>
    BY <1>1 DEF Select, Due, chainVars
  <2>2. row.status # "absent"
    BY <2>1 DEF Live, Waiting
  <2>3. TypeOK'
    BY <2>1
  <2>4. \A r \in {row', draft'} : RowOK(r)'
    BY <2>1 DEF RowOK, PosOK, Simple
  <2>5. SweepOK'
    BY <2>1, <2>2, AbsentIsRow DEF SweepOK
  <2> QED
    BY <2>3, <2>4, <2>5
<1>2. CASE Begin
  <2>1. CASE sweep' = "idle" /\ Clear
    BY <1>2, <2>1, EndType DEF Begin
  <2>2. CASE sweep' = "begun" /\ UNCHANGED jobVars
    <3>1. /\ UNCHANGED <<plan, row, draft, toSend, newWaits, short, faults, txs, forgotten, funds, balance, refills>>
          /\ sweep = "selected" /\ sweep' = "begun" /\ draft.status \in {"pending", "in_progress"}
      BY <1>2, <2>2 DEF Begin, jobVars, chainVars
    <3>2. TypeOK'
      BY <3>1
    <3>3. \A r \in {row', draft'} : RowOK(r)'
      BY <3>1 DEF RowOK, PosOK, Simple
    <3>4. SweepOK'
      BY <3>1 DEF SweepOK, Live, Waiting
    <3> QED
      BY <3>2, <3>3, <3>4
  <2> QED
    BY <1>2, <2>1, <2>2 DEF Begin
<1>3. CASE Commit
  BY <1>3, EndType DEF Commit
<1>4. CASE Crash
  <2>1. faults' \in 0 .. FaultBound
    BY <1>4, CurrencyAssumption DEF Crash, Fault
  <2> QED
    BY <1>4, <2>1, EndType DEF Crash, Abandon
<1> QED
  BY <1>1, <1>2, <1>3, <1>4

\* The steps that send nothing.
LEMMA QuietStepType ==
    ASSUME TypeInv, CallRaises \/ PollConfirm \/ PollOperation \/ Pass \/ Finish
    PROVE  TypeInv'
<1>1. sweep \in Handling
  BY DEF Handling, CallRaises, PollConfirm, PollOperation, Pass, Finish, At
<1>2. faults \in 0 .. FaultBound
  BY DEF TypeInv, TypeOK
<1>3. WellFormed(draft, Len(txs)) /\ RowOK(draft)
  BY DEF TypeInv, TypeOK, WellFormed
<1>4. NoWait \in Wait /\ NoWait.id <= Len(txs)
  BY NewWaitsAreWaits
<1>5. "in_progress" \in RowStatuses /\ "complete" \in RowStatuses /\ "waiting_confirm" \in RowStatuses
  BY DEF RowStatuses, Live, Waiting
<1>6. CASE CallRaises
  BY <1>1, <1>2, <1>6, RaisedType DEF CallRaises
<1>7. CASE PollConfirm
  <2>1. PICK r : /\ Write(r)
                 /\ r = draft \/ r = Saved("in_progress", draft.pos, NoWait)
    BY <1>7 DEF PollConfirm
  <2>2. WellFormed(r, Len(txs)) /\ RowOK(r)
    BY <1>1, <1>3, <1>4, <1>5, <2>1, AtHand, SavedIsOK
  <2> QED
    BY <1>1, <1>2, <1>7, <2>1, <2>2, QuietWriteType DEF PollConfirm
<1>8. CASE PollOperation
  <2>1. PICK id : id = draft.wait.id
    OBVIOUS
  <2>2. OperationState(id) \in {"terminal", "waiting", "resolved"}
    BY DEF OperationState
  <2>3. PICK r : /\ Write(r)
                 /\ r = Abandoned \/ r = draft \/ r = Saved("waiting_confirm", draft.pos, TxWait(id))
    BY <1>8, <2>1, <2>2 DEF PollOperation
  <2>4. TxWait(id) \in Wait /\ TxWait(id).id <= Len(txs)
    BY <1>1, <2>1, AtHand DEF TxWait, Wait
  <2>5. WellFormed(r, Len(txs)) /\ RowOK(r)
    BY <1>1, <1>3, <1>5, <2>3, <2>4, AtHand, SavedIsOK, RetriedIsOK
  <2> QED
    BY <1>1, <1>2, <1>8, <2>3, <2>5, QuietWriteType DEF PollOperation
<1>9. CASE Pass
  <2>1. After(draft.pos) \in Position /\ PosOK(After(draft.pos))
    BY <1>1, <1>9, AtHand, AfterIsPosition DEF Pass, At, Advancing
  <2>2. PICK r : r = Saved("in_progress", After(draft.pos), NoWait)
    OBVIOUS
  <2>3. WellFormed(r, Len(txs)) /\ RowOK(r)
    BY <1>1, <1>4, <1>5, <2>1, <2>2, AtHand, SavedIsOK
  <2> QED
    BY <1>1, <1>2, <1>9, <2>2, <2>3, QuietWriteType DEF Pass
<1>10. CASE Finish
  <2>1. PICK r : r = Saved("complete", draft.pos, NoWait)
    OBVIOUS
  <2>2. WellFormed(r, Len(txs)) /\ RowOK(r)
    BY <1>1, <1>4, <1>5, <2>1, AtHand, SavedIsOK
  <2> QED
    BY <1>1, <1>2, <1>10, <2>1, <2>2, QuietWriteType DEF Finish
<1> QED
  BY <1>6, <1>7, <1>8, <1>9, <1>10

\* The steps of the ladder that send.
LEMMA SendStepType ==
    ASSUME TypeInv, Fund \/ (\E kind \in {"commit", "identity", "define"} : Submit(kind))
    PROVE  TypeInv'
<1>1. sweep \in Handling
  BY DEF Handling, Fund, Submit, At
<1>2. /\ Nothing \in [Currencies -> Nat] /\ \A c \in Currencies : Nothing[c] <= funds[c]
      /\ Site(draft.pos) \in {Token} \cup ReserveNames
  BY <1>1, NothingIsPaid, AtHand
<1>3. faults \in 0 .. FaultBound /\ (Fault => faults' \in 0 .. FaultBound)
  BY CurrencyAssumption DEF TypeInv, TypeOK, Fault
<1>4. ASSUME NEW kind \in {"commit", "identity", "define"}, Submit(kind) PROVE TypeInv'
  <2>1. Taken(kind, Site(draft.pos), Nothing, "mempool") /\ Task(draft.pos) \in Advancing
    BY <1>4 DEF Submit, At, Advancing
  <2>2. CASE Write(RetryOrFailure) /\ Fault
    BY <1>1, <1>2, <1>3, <2>1, <2>2, TakenRaisedType
  <2>3. CASE ~(Write(RetryOrFailure) /\ Fault)
    <3>1. PICK base : base = Advanced(TxWait(NextTx))
      OBVIOUS
    <3>2. WellFormed(base, NextTx) /\ RowOK(base)
      BY <1>1, <2>1, <3>1, AdvancedIsOK, NewWaitsAreWaits
    <3>3. PICK n : n = IF kind = "commit" THEN NextTx ELSE base.rnc
      OBVIOUS
    <3>4. n \in Nat /\ n <= NextTx
      BY <3>2, <3>3, NewWaitsAreWaits DEF WellFormed, Row
    <3>5. PICK r : r = [base EXCEPT !.rnc = n]
      OBVIOUS
    <3>6. WellFormed(r, NextTx) /\ RowOK(r)
      BY <3>2, <3>4, <3>5, RncSet DEF WellFormed, RowOK
    <3>7. Write(r) /\ UNCHANGED faults
      BY <1>4, <2>3, <3>1, <3>3, <3>5 DEF Submit
    <3> QED
      BY <1>1, <1>2, <1>3, <2>1, <3>6, <3>7, TakenWriteType
  <2> QED
    BY <2>2, <2>3
<1>5. CASE Fund
  <2>1. Task(draft.pos) \in Advancing
    BY <1>5 DEF Fund, At, Advancing
  <2>2. CASE Taken("fund", Site(draft.pos), Nothing, "failed") /\ Write(Abandoned) /\ UNCHANGED faults
    BY <1>1, <1>2, <1>3, <2>2, TakenRaisedType
  <2>3. ASSUME NEW a \in SendAnswers, Taken("fund", Site(draft.pos), Nothing, a.state)
        PROVE  /\ Write(Advanced(a.wait)) /\ UNCHANGED faults => TypeInv'
               /\ Write(RetryOrFailure) /\ Fault => TypeInv'
    <3>1. a.state \in {"mempool", "executing"} /\ a.wait \in {TxWait(NextTx), OpWait(NextTx)}
      BY DEF SendAnswers
    <3>2. WellFormed(Advanced(a.wait), NextTx) /\ RowOK(Advanced(a.wait))
      BY <1>1, <2>1, <3>1, AdvancedIsOK, NewWaitsAreWaits
    <3>3. Write(Advanced(a.wait)) /\ UNCHANGED faults => TypeInv'
      BY <1>1, <1>2, <1>3, <2>3, <3>1, <3>2, TakenWriteType
    <3>4. Write(RetryOrFailure) /\ Fault => TypeInv'
      BY <1>1, <1>2, <1>3, <2>3, <3>1, TakenRaisedType
    <3> QED
      BY <3>3, <3>4
  <2> QED
    BY <1>5, <2>2, <2>3 DEF Fund
<1> QED
  BY <1>4, <1>5

\* Rounds that look at the waits of an earlier one, and the gate that holds.
LEMMA WaitingType ==
    ASSUME TypeInv, ResolveWaits \/ Hold
    PROVE  TypeInv'
<1>1. sweep \in Handling /\ faults \in 0 .. FaultBound /\ faults' = faults /\ UNCHANGED chainVars
  BY DEF Handling, ResolveWaits, Hold, At, AtGate, TypeInv, TypeOK
<1>2. NoWait \in Wait /\ NoWait.id <= Len(txs)
  BY NewWaitsAreWaits
<1>3. PICK base : base = Saved("in_progress", draft.pos, NoWait)
  OBVIOUS
<1>4. WellFormed(base, Len(txs)) /\ RowOK(base) /\ base.pending = draft.pending
  <2>1. "in_progress" \in RowStatuses
    BY DEF RowStatuses, Live
  <2> QED
    BY <1>1, <1>2, <1>3, <2>1, AtHand, SavedIsOK, SavedIsRow
<1>5. CASE Hold
  <2>1. PICK b \in BOOLEAN : b = (base.sanity \/ Funded)
    BY <1>4 DEF WellFormed, Row
  <2>2. PICK cleared : cleared = [base EXCEPT !.pending = {}]
    OBVIOUS
  <2>3. WellFormed(cleared, Len(txs)) /\ RowOK(cleared) /\ cleared.sanity = base.sanity
    <3>1. base \in Row /\ {} \in SUBSET Wait
      BY <1>4 DEF WellFormed
    <3>2. /\ cleared \in Row /\ cleared.status = base.status /\ cleared.pos = base.pos
          /\ cleared.wait = base.wait /\ cleared.attempts = base.attempts
          /\ cleared.rnc = base.rnc /\ cleared.pending = {} /\ cleared.sanity = base.sanity
      BY <2>2, <3>1, PendingSet
    <3> QED
      BY <1>4, <3>2 DEF WellFormed, RowOK
  <2>4. PICK r : r = [cleared EXCEPT !.sanity = b]
    OBVIOUS
  <2>5. WellFormed(r, Len(txs)) /\ RowOK(r)
    <3>1. cleared \in Row
      BY <2>3 DEF WellFormed
    <3>2. /\ r \in Row /\ r.status = cleared.status /\ r.pos = cleared.pos
          /\ r.wait = cleared.wait /\ r.attempts = cleared.attempts
          /\ r.rnc = cleared.rnc /\ r.pending = cleared.pending
      BY <2>4, <3>1, MarkSet
    <3> QED
      BY <2>3, <3>2 DEF WellFormed, RowOK
  <2>6. Write(r)
    <3>1. r = [base EXCEPT !.pending = {}, !.sanity = @ \/ Funded]
      BY <1>4, <2>1, <2>2, <2>3, <2>4 DEF WellFormed, Row
    <3> QED
      BY <1>3, <1>5, <3>1 DEF Hold
  <2> QED
    BY <1>1, <2>5, <2>6, QuietWriteType
<1>6. CASE ResolveWaits
  <2>1. CASE Write(Abandoned)
    BY <1>1, <2>1, RaisedType
  <2>2. CASE Write([Saved("in_progress", draft.pos, NoWait) EXCEPT !.pending = Unresolved(@)])
    <3>1. PICK waits : waits = Unresolved(base.pending)
      OBVIOUS
    <3>2. base.pending \subseteq Wait /\ \A w \in base.pending : w.id <= Len(txs)
      BY <1>4 DEF WellFormed, Row
    <3>3. waits \in SUBSET Wait /\ \A w \in waits : w.id <= Len(txs)
      BY <3>1, <3>2 DEF Unresolved, Resolved, TxWait, Wait
    <3>4. PICK r : r = [base EXCEPT !.pending = waits]
      OBVIOUS
    <3>5. Write(r)
      BY <1>3, <2>2, <3>1, <3>4
    <3>6. WellFormed(r, Len(txs)) /\ RowOK(r)
      <4>1. base \in Row
        BY <1>4 DEF WellFormed
      <4>2. /\ r \in Row /\ r.status = base.status /\ r.pos = base.pos
            /\ r.wait = base.wait /\ r.attempts = base.attempts
            /\ r.rnc = base.rnc /\ r.pending = waits
        BY <3>3, <3>4, <4>1, PendingSet
      <4> QED
        BY <1>4, <3>3, <4>2 DEF WellFormed, RowOK
    <3> QED
      BY <1>1, <3>5, <3>6, QuietWriteType
  <2>3. CASE sweep' = "planning" /\ UNCHANGED <<plan, row, jobVars>>
    <3>1. /\ UNCHANGED <<plan, row, draft, toSend, newWaits, short, faults, txs, forgotten, funds, balance, refills>>
          /\ sweep = "begun" /\ sweep' = "planning" /\ Task(draft.pos) \in {"plan", "gate"}
      BY <1>1, <1>6, <2>3 DEF ResolveWaits, At, jobVars, chainVars
    <3>2. TypeOK'
      BY <3>1 DEF TypeInv, TypeOK
    <3>3. \A r \in {row', draft'} : RowOK(r)'
      BY <3>1 DEF TypeInv, RowOK, PosOK, Simple
    <3>4. SweepOK'
      BY <3>1 DEF TypeInv, SweepOK, Task, Simple, InReserves, CreatesReserves, Site, Given
    <3> QED
      BY <3>2, <3>3, <3>4 DEF TypeInv
  <2> QED
    BY <1>6, <2>1, <2>2, <2>3 DEF ResolveWaits
<1> QED
  BY <1>5, <1>6

\* How often the plan lists a reserve is a number.
LEMMA OutputsType ==
    ASSUME TypeInv, plan # <<>>, NEW c
    PROVE  Listed(c) \in Nat /\ Outputs(c) \in Nat
<1>1. plan.reserves \in Seq(ReserveNames)
  BY CurrencyAssumption DEF TypeInv, TypeOK, Plan
<1>2. IsFiniteSet(DOMAIN plan.reserves)
  <2>1. DOMAIN plan.reserves = 1 .. Len(plan.reserves) /\ Len(plan.reserves) \in Nat
    BY <1>1
  <2> QED
    BY <2>1, FS_Interval
<1>3. Listed(c) \in Nat
  <2>1. PICK S : S = {i \in DOMAIN plan.reserves : plan.reserves[i] = c}
    OBVIOUS
  <2>2. IsFiniteSet(S)
    BY <1>2, <2>1, FS_Subset
  <2> QED
    BY <2>1, <2>2, FS_CardinalityType DEF Listed
<1> QED
  BY <1>3 DEF Outputs

\* What a source can give of what is lacking.
LEMMA AffordableType ==
    ASSUME TypeInv, NEW c \in Currencies
    PROVE  /\ Affordable(c) \in Nat /\ Affordable(c) <= funds[c] /\ Affordable(c) <= Required[c]
           /\ ~Lacks(c) => Affordable(c) = 0
           /\ Lacks(c) /\ funds[c] >= Required[c] => Affordable(c) = Required[c] - balance[c] /\ Affordable(c) > 0
<1>1. funds[c] \in Nat /\ balance[c] \in Nat /\ Required[c] \in Nat /\ Epsilon \in Nat /\ Epsilon > 0
  BY CurrencyAssumption DEF TypeInv, TypeOK
<1>2. CASE Lacks(c)
  <2>1. balance[c] + Epsilon < Required[c] /\ Shortfall(c) = Required[c] - balance[c]
    BY <1>2 DEF Lacks, Shortfall
  <2> QED
    BY <1>1, <1>2, <2>1 DEF Affordable
<1>3. CASE ~Lacks(c)
  <2>1. Shortfall(c) = 0
    BY <1>3 DEF Shortfall
  <2> QED
    BY <1>1, <1>3, <2>1 DEF Affordable
<1> QED
  BY <1>2, <1>3

\* The plan asks for amounts.
LEMMA PlanType ==
    ASSUME TypeInv, PlanFunding
    PROVE  TypeInv'
<1>1. /\ UNCHANGED <<plan, row, draft, newWaits, faults, txs, forgotten, funds, balance, refills>>
      /\ sweep = "planning" /\ sweep' = "sending" /\ Task(draft.pos) = "plan"
      /\ toSend' = [c \in Currencies |-> Outputs(c) * Affordable(c)] /\ short' \in BOOLEAN
  BY DEF PlanFunding, chainVars
<1>2. plan # <<>>
  BY <1>1, AtHand, PlanIsNotEmpty DEF Handling
<1>3. ASSUME NEW c \in Currencies PROVE Outputs(c) * Affordable(c) \in Nat
  <2>1. \A m, n \in Nat : m * n \in Nat
    OBVIOUS
  <2> QED
    BY <1>2, <2>1, OutputsType, AffordableType
<1>4. toSend' \in [Currencies -> Nat]
  BY <1>1, <1>3
<1>5. TypeOK'
  BY <1>1, <1>4 DEF TypeInv, TypeOK
<1>6. \A r \in {row', draft'} : RowOK(r)'
  BY <1>1 DEF TypeInv, RowOK, PosOK, Simple
<1>7. SweepOK'
  BY <1>1 DEF TypeInv, SweepOK, Task, Simple, InReserves, CreatesReserves, Site, Given
<1> QED
  BY <1>5, <1>6, <1>7 DEF TypeInv

\* What one call carries is within the plan.
LEMMA BatchIsPlanned ==
    ASSUME TypeInv, NEW source
    PROVE  /\ Batch(source) \in [Currencies -> Nat]
           /\ \A c \in Currencies : Batch(source)[c] <= toSend[c]
<1>1. toSend \in [Currencies -> Nat]
  BY DEF TypeInv, TypeOK
<1> QED
  BY <1>1 DEF Batch

\* A call that was answered: what it carried leaves the plan, and is waited for.
Answered(amount, wait) ==
    /\ newWaits' = newWaits \cup {wait}
    /\ toSend' = [c \in Currencies |-> toSend[c] - amount[c]]
    /\ UNCHANGED <<plan, row, sweep, draft, short, faults>>

\* A call that was taken and answered: what it carried leaves the plan and the source.
LEMMA SentType ==
    ASSUME TypeInv, sweep = "sending",
           NEW kind \in {"commit", "identity", "fund", "define", "transfer"},
           NEW site \in {Token} \cup ReserveNames, NEW amount \in [Currencies -> Nat],
           NEW state \in {"executing", "failed", "mempool", "mined"}, state # "failed",
           \A c \in Currencies : amount[c] <= funds[c], \A c \in Currencies : amount[c] <= toSend[c],
           Taken(kind, site, amount, state), NEW wait \in Wait, wait.id = NextTx,
           Answered(amount, wait)
    PROVE  TypeInv'
<1>1. /\ txs' \in Seq(Tx) /\ Len(txs') = Len(txs) + 1 /\ NextTx = Len(txs) + 1 /\ Len(txs) \in Nat
      /\ forgotten' \subseteq DOMAIN txs'
      /\ funds' \in [Currencies -> Nat] /\ balance' = balance /\ refills' = refills
      /\ \A c \in Currencies : funds'[c] = funds[c] - amount[c]
  <2>1. /\ txs' \in Seq(Tx) /\ Len(txs') = Len(txs) + 1 /\ NextTx = Len(txs) + 1 /\ Len(txs) \in Nat
        /\ forgotten' = forgotten /\ forgotten' \subseteq DOMAIN txs'
        /\ funds' \in [Currencies -> Nat] /\ balance' = balance /\ refills' = refills
    BY TakenType
  <2>2. \A c \in Currencies : funds'[c] = funds[c] - amount[c]
    BY DEF Taken
  <2> QED
    BY <2>1, <2>2
<1>2. toSend \in [Currencies -> Nat]
  BY DEF TypeInv, TypeOK
<1>3. toSend' \in [Currencies -> Nat]
  BY <1>2 DEF Answered
<1>5. newWaits' \subseteq Wait /\ \A w \in newWaits' : w.id <= Len(txs')
  <2>1. newWaits \subseteq Wait /\ \A w \in newWaits : w.id <= Len(txs)
    BY DEF TypeInv, TypeOK, SweepOK
  <2>2. \A w \in newWaits : w.id <= Len(txs')
    BY <1>1, <2>1 DEF Wait
  <2>3. wait.id <= Len(txs')
    BY <1>1
  <2> QED
    BY <2>1, <2>2, <2>3 DEF Answered
<1>6. \A r \in {row, draft} : r.rnc <= Len(txs') /\ \A w \in r.pending \cup {r.wait} : w.id <= Len(txs')
  <2>1. \A r \in {row, draft} : /\ r.rnc \in Nat /\ r.rnc <= Len(txs)
                                /\ \A w \in r.pending \cup {r.wait} : w.id \in Nat /\ w.id <= Len(txs)
    BY DEF TypeInv, TypeOK, Row, Wait
  <2> QED
    BY <1>1, <2>1
<1>7. TypeOK'
  BY <1>1, <1>3, <1>5, <1>6 DEF TypeInv, TypeOK, Answered
<1>8. \A r \in {row', draft'} : RowOK(r)'
  BY DEF TypeInv, RowOK, PosOK, Simple, Answered
<1>9. plan # <<>> /\ sweep' = "sending"
  BY AtHand, PlanIsNotEmpty DEF Handling, Answered
<1>10. SweepOK'
  BY <1>5, <1>9 DEF TypeInv, SweepOK, Task, Simple, InReserves, CreatesReserves, Site, Given, Answered
<1> QED
  BY <1>7, <1>8, <1>10 DEF TypeInv

\* The calls that send the plan's transfers.
LEMMA TransferType ==
    ASSUME TypeInv, NEW source, SendTransfers(source) \/ SendRefused(source)
    PROVE  TypeInv'
<1>1. sweep = "sending" /\ sweep \in Handling
  BY DEF SendTransfers, SendRefused, Paying, Handling
<1>2. faults \in 0 .. FaultBound /\ (Fault => faults' \in 0 .. FaultBound)
  BY CurrencyAssumption DEF TypeInv, TypeOK, Fault
<1>3. PICK amount : amount = Batch(source)
  OBVIOUS
<1>4. /\ amount \in [Currencies -> Nat]
      /\ \A c \in Currencies : amount[c] <= toSend[c]
      /\ CanPay(source) => \A c \in Currencies : amount[c] <= funds[c]
  BY <1>1, <1>3, BatchIsPlanned DEF CanPay
<1>5. CASE SendRefused(source)
  <2>1. Write(RetryOrFailure) /\ UNCHANGED chainVars /\ faults' \in 0 .. FaultBound
    BY <1>2, <1>5 DEF SendRefused
  <2> QED
    BY <1>1, <2>1, RaisedType
<1>6. CASE Taken("transfer", Token, amount, "failed") /\ Write(Abandoned) /\ UNCHANGED faults
  BY <1>1, <1>2, <1>4, <1>6, TakenRaisedType
<1>7. ASSUME NEW state \in {"mempool", "executing"}, Taken("transfer", Token, amount, state),
             CanPay(source), Write(RetryOrFailure), Fault
      PROVE  TypeInv'
  BY <1>1, <1>2, <1>4, <1>7, TakenRaisedType
<1>8. ASSUME NEW state \in {"mempool", "executing"}, NEW wait \in {TxWait(NextTx), OpWait(NextTx)},
             Taken("transfer", Token, amount, state), CanPay(source),
             Answered(amount, wait)
      PROVE  TypeInv'
  <2>1. wait \in Wait /\ wait.id = NextTx
    BY NewWaitsAreWaits
  <2> QED
    BY <1>1, <1>4, <1>8, <2>1, SentType
<1>9. CASE SendTransfers(source)
  <2>1. ASSUME NEW a \in SendAnswers PROVE a.state \in {"mempool", "executing"} /\ a.wait \in {TxWait(NextTx), OpWait(NextTx)}
    BY DEF SendAnswers
  <2> QED
    BY <1>3, <1>6, <1>7, <1>8, <1>9, <2>1 DEF SendTransfers, Answered
<1> QED
  BY <1>5, <1>9

\* The end of a funding step: the waits of its transfers, and where it goes.
LEMMA SaveFundingType ==
    ASSUME TypeInv, SaveFunding
    PROVE  TypeInv'
<1>1. sweep = "sending" /\ sweep \in Handling /\ faults' \in 0 .. FaultBound /\ UNCHANGED chainVars
  BY DEF SaveFunding, Handling, TypeInv, TypeOK
<1>2. PICK n \in {4, 5} : n = IF short THEN 4 ELSE 5
  OBVIOUS
<1>3. PICK pos : pos = [draft.pos EXCEPT !.step = n]
  OBVIOUS
<1>4. pos \in Position /\ PosOK(pos)
  <2>1. draft.pos \in Position /\ PosOK(draft.pos) /\ plan \in Plan /\ Task(draft.pos) = "plan"
    BY <1>1, AtHand DEF TypeInv, SweepOK
  <2>2. ~Simple
    BY <2>1, TasksInOrder DEF Position
  <2>3. pos \in Position /\ pos.step = n
    BY <1>3, <2>1 DEF Position
  <2> QED
    BY <2>2, <2>3 DEF PosOK
<1>5. PICK base : base = Saved("in_progress", pos, NoWait)
  OBVIOUS
<1>6. WellFormed(base, Len(txs)) /\ RowOK(base)
  <2>1. "in_progress" \in RowStatuses /\ NoWait \in Wait /\ NoWait.id <= Len(txs) /\ Len(txs) <= Len(txs) /\ Len(txs) \in Nat
    BY <1>1, NewWaitsAreWaits, AtHand DEF RowStatuses, Live
  <2> QED
    BY <1>4, <1>5, <2>1, SavedIsOK
<1>7. PICK waits : waits = IF base.pending = {} THEN newWaits ELSE {}
  OBVIOUS
<1>8. waits \in SUBSET Wait /\ \A w \in waits : w.id <= Len(txs)
  BY <1>7 DEF TypeInv, TypeOK, SweepOK
<1>9. PICK r : r = [base EXCEPT !.pending = waits]
  OBVIOUS
<1>10. WellFormed(r, Len(txs)) /\ RowOK(r)
  <2>1. base \in Row /\ waits \in SUBSET Wait
    BY <1>6, <1>8 DEF WellFormed
  <2>2. /\ r \in Row /\ r.status = base.status /\ r.pos = base.pos
        /\ r.wait = base.wait /\ r.attempts = base.attempts
        /\ r.rnc = base.rnc /\ r.pending = waits
    BY <1>9, <2>1 DEF Row
  <2> QED
    BY <1>6, <1>8, <2>2 DEF WellFormed, RowOK
<1>11. Write(r)
  <2>1. Write([Saved("in_progress", [draft.pos EXCEPT !.step = IF short THEN 4 ELSE 5], NoWait)
                 EXCEPT !.pending = IF @ = {} THEN newWaits ELSE {}])
    BY DEF SaveFunding
  <2> QED
    BY <1>2, <1>3, <1>5, <1>7, <1>9, <2>1
<1> QED
  BY <1>1, <1>10, <1>11, QuietWriteType

\* The definition of a fractional currency.
LEMMA DefineBasketType ==
    ASSUME TypeInv, DefineBasket
    PROVE  TypeInv'
<1>1. sweep \in Handling /\ Task(draft.pos) \in Advancing
  BY DEF DefineBasket, AtGate, Handling, Advancing
<1>2. Nothing \in [Currencies -> Nat] /\ \A c \in Currencies : Nothing[c] <= funds[c]
  BY NothingIsPaid
<1>3. faults \in 0 .. FaultBound /\ (Fault => faults' \in 0 .. FaultBound)
  BY CurrencyAssumption DEF TypeInv, TypeOK, Fault
<1>4. Taken("define", Token, Nothing, "mempool")
  BY DEF DefineBasket
<1>5. CASE Write(RetryOrFailure) /\ Fault
  BY <1>1, <1>2, <1>3, <1>4, <1>5, TakenRaisedType
<1>6. CASE Write([Advanced(TxWait(NextTx)) EXCEPT !.pending = {}, !.sanity = FALSE]) /\ UNCHANGED faults
  <2>1. PICK base : base = Advanced(TxWait(NextTx))
    OBVIOUS
  <2>2. WellFormed(base, NextTx) /\ RowOK(base)
    BY <1>1, <2>1, AdvancedIsOK, NewWaitsAreWaits
  <2>3. PICK cleared : cleared = [base EXCEPT !.pending = {}]
    OBVIOUS
  <2>4. WellFormed(cleared, NextTx) /\ RowOK(cleared)
    <3>1. base \in Row /\ {} \in SUBSET Wait
      BY <2>2 DEF WellFormed
    <3>2. /\ cleared \in Row /\ cleared.status = base.status /\ cleared.pos = base.pos
          /\ cleared.wait = base.wait /\ cleared.attempts = base.attempts
          /\ cleared.rnc = base.rnc /\ cleared.pending = {}
      BY <2>3, <3>1, PendingSet
    <3> QED
      BY <2>2, <3>2 DEF WellFormed, RowOK
  <2>5. PICK r : r = [cleared EXCEPT !.sanity = FALSE]
    OBVIOUS
  <2>6. WellFormed(r, NextTx) /\ RowOK(r)
    <3>1. cleared \in Row /\ FALSE \in BOOLEAN
      BY <2>4 DEF WellFormed
    <3>2. /\ r \in Row /\ r.status = cleared.status /\ r.pos = cleared.pos
          /\ r.wait = cleared.wait /\ r.attempts = cleared.attempts
          /\ r.rnc = cleared.rnc /\ r.pending = cleared.pending
      BY <2>5, <3>1, MarkSet
    <3> QED
      BY <2>4, <3>2 DEF WellFormed, RowOK
  <2>7. Write(r) /\ UNCHANGED faults
    BY <1>6, <2>1, <2>3, <2>5
  <2> QED
    BY <1>1, <1>2, <1>3, <1>4, <2>6, <2>7, TakenWriteType
<1> QED
  BY <1>5, <1>6 DEF DefineBasket

\* A transaction moves on; the list stays one of transactions.
LEMMA MoveType ==
    ASSUME txs \in Seq(Tx), NEW i \in DOMAIN txs, NEW state \in {"executing", "failed", "mempool", "mined"},
           Move(i, state)
    PROVE  /\ txs' \in Seq(Tx) /\ Len(txs') = Len(txs) /\ DOMAIN txs' = DOMAIN txs
           /\ \A j \in DOMAIN txs : /\ txs'[j].kind = txs[j].kind /\ txs'[j].site = txs[j].site
                                    /\ txs'[j].rnc = txs[j].rnc /\ txs'[j].amount = txs[j].amount
                                    /\ txs'[j].state = IF j = i THEN state ELSE txs[j].state
<1>1. PICK tx : tx = [txs[i] EXCEPT !.state = state]
  OBVIOUS
<1>2. txs[i] \in Tx
  BY ElementOfSeq
<1>3. /\ tx \in Tx /\ tx.state = state /\ tx.kind = txs[i].kind /\ tx.site = txs[i].site
      /\ tx.rnc = txs[i].rnc /\ tx.amount = txs[i].amount
  BY <1>1, <1>2 DEF Tx
<1>4. txs' = [txs EXCEPT ![i] = tx]
  BY <1>1 DEF Move
<1>5. /\ txs' \in Seq(Tx) /\ Len(txs') = Len(txs)
      /\ \A j \in 1 .. Len(txs) : txs'[j] = IF j = i THEN tx ELSE txs[j]
  BY <1>3, <1>4, ExceptSeq
<1>6. DOMAIN txs' = DOMAIN txs /\ DOMAIN txs = 1 .. Len(txs)
  BY <1>5
<1> QED
  BY <1>3, <1>5, <1>6

\* The daemon, the chain, the sources and the clock.
LEMMA WorldType ==
    ASSUME TypeInv,
           \/ BackoffElapses
           \/ \E i \in DOMAIN txs : OperationSucceeds(i) \/ OperationFails(i) \/ Mine(i) \/ OperationForgotten(i)
           \/ \E c \in Currencies : Refill(c)
    PROVE  TypeInv'
<1>1. CASE BackoffElapses
  <2>1. PICK r : r = [row EXCEPT !.backoff = FALSE]
    OBVIOUS
  <2>2. /\ row' = r /\ row \in Row /\ row.backoff
        /\ UNCHANGED <<plan, sweep, draft, toSend, newWaits, short, faults, txs, forgotten, funds, balance, refills>>
    BY <1>1, <2>1 DEF BackoffElapses, jobVars, chainVars, TypeInv, TypeOK
  <2>3. /\ r \in Row /\ r.status = row.status /\ r.pos = row.pos /\ r.wait = row.wait
        /\ r.attempts = row.attempts /\ r.rnc = row.rnc /\ r.pending = row.pending
    <3>1. FALSE \in BOOLEAN
      OBVIOUS
    <3> QED
      BY <2>1, <2>2, <3>1, MarkSet
  <2>4. ~AbsentRow.backoff
    BY DEF AbsentRow
  <2>5. TypeOK'
    BY <2>2, <2>3 DEF TypeInv, TypeOK
  <2>6. \A old \in {row', draft'} : RowOK(old)'
    BY <2>2, <2>3 DEF TypeInv, RowOK, PosOK, Simple
  <2>7. SweepOK'
    BY <2>2, <2>4 DEF TypeInv, SweepOK, Task, Simple, InReserves, CreatesReserves, Site, Given
  <2> QED
    BY <2>5, <2>6, <2>7 DEF TypeInv
<1>2. ASSUME txs' \in Seq(Tx), Len(txs') = Len(txs), DOMAIN txs' = DOMAIN txs, txs = <<>> => txs' = <<>>,
             forgotten' \subseteq DOMAIN txs, faults' \in 0 .. FaultBound,
             funds' \in [Currencies -> Nat], balance' \in [Currencies -> Nat],
             refills' \in [Currencies -> Nat], \A c \in Currencies : refills'[c] <= RefillBound[c],
             UNCHANGED <<plan, row, sweep, jobVars>>
      PROVE  TypeInv'
  <2>1. UNCHANGED <<plan, row, sweep, draft, toSend, newWaits, short>>
    BY <1>2 DEF jobVars
  <2>2. TypeOK'
    BY <1>2, <2>1 DEF TypeInv, TypeOK
  <2>3. \A r \in {row', draft'} : RowOK(r)'
    BY <2>1 DEF TypeInv, RowOK, PosOK, Simple
  <2>5. SweepOK'
    BY <1>2, <2>1 DEF TypeInv, SweepOK, Task, Simple, InReserves, CreatesReserves, Site, Given
  <2> QED
    BY <2>2, <2>3, <2>5 DEF TypeInv
<1>3. /\ txs \in Seq(Tx) /\ forgotten \subseteq DOMAIN txs /\ faults \in 0 .. FaultBound
      /\ funds \in [Currencies -> Nat] /\ balance \in [Currencies -> Nat]
      /\ refills \in [Currencies -> Nat] /\ \A c \in Currencies : refills[c] <= RefillBound[c]
  BY DEF TypeInv, TypeOK
<1>4. ASSUME NEW i \in DOMAIN txs PROVE txs # <<>> /\ txs[i].amount \in [Currencies -> Nat]
  <2>1. txs[i] \in Tx
    BY <1>3, ElementOfSeq
  <2> QED
    BY <2>1 DEF Tx
<1>5. ASSUME NEW i \in DOMAIN txs, OperationSucceeds(i) PROVE TypeInv'
  <2>1. /\ Move(i, "mempool") /\ forgotten' = forgotten /\ faults' = faults /\ funds' = funds
        /\ balance' = balance /\ refills' = refills /\ UNCHANGED <<plan, row, sweep, jobVars>>
    BY <1>5 DEF OperationSucceeds
  <2> QED
    BY <1>2, <1>3, <1>4, <2>1, MoveType
<1>6. ASSUME NEW i \in DOMAIN txs, OperationFails(i) PROVE TypeInv'
  <2>1. /\ Move(i, "failed") /\ forgotten' = forgotten /\ faults' = faults
        /\ balance' = balance /\ refills' = refills /\ UNCHANGED <<plan, row, sweep, jobVars>>
    BY <1>6 DEF OperationFails
  <2>2. funds' \in [Currencies -> Nat] /\ \A c \in Currencies : funds'[c] >= funds[c]
    <3>1. PICK amount \in [Currencies -> Nat] : amount = txs[i].amount
      BY <1>4
    <3>2. funds' = [c \in Currencies |-> funds[c] + amount[c]]
      BY <1>6, <3>1 DEF OperationFails
    <3>3. \A c \in Currencies : funds[c] + amount[c] \in Nat /\ funds[c] + amount[c] >= funds[c]
      BY <1>3
    <3> QED
      BY <3>2, <3>3
  <2> QED
    BY <1>2, <1>3, <1>4, <2>1, <2>2, MoveType
<1>7. ASSUME NEW i \in DOMAIN txs, Mine(i) PROVE TypeInv'
  <2>1. /\ Move(i, "mined") /\ forgotten' = forgotten /\ faults' = faults /\ funds' = funds
        /\ refills' = refills /\ UNCHANGED <<plan, row, sweep, jobVars>>
    BY <1>7 DEF Mine
  <2>2. balance' \in [Currencies -> Nat]
    <3>1. PICK amount \in [Currencies -> Nat] : amount = txs[i].amount
      BY <1>4
    <3>2. balance' = [c \in Currencies |-> balance[c] + amount[c]]
      BY <1>7, <3>1 DEF Mine
    <3>3. \A c \in Currencies : balance[c] + amount[c] \in Nat
      BY <1>3
    <3> QED
      BY <3>2, <3>3
  <2> QED
    BY <1>2, <1>3, <1>4, <2>1, <2>2, MoveType
<1>8. ASSUME NEW i \in DOMAIN txs, OperationForgotten(i) PROVE TypeInv'
  <2>1. /\ forgotten' = forgotten \cup {i} /\ txs' = txs /\ funds' = funds /\ balance' = balance
        /\ refills' = refills /\ UNCHANGED <<plan, row, sweep, jobVars>>
    BY <1>8 DEF OperationForgotten
  <2>2. faults' \in 0 .. FaultBound
    BY <1>3, <1>8, CurrencyAssumption DEF OperationForgotten, Fault
  <2>3. forgotten' \subseteq DOMAIN txs
    BY <1>3, <2>1
  <2> QED
    BY <1>2, <1>3, <2>1, <2>2, <2>3
<1>9. ASSUME NEW c \in Currencies, Refill(c) PROVE TypeInv'
  <2>1. /\ txs' = txs /\ forgotten' = forgotten /\ faults' = faults /\ balance' = balance
        /\ UNCHANGED <<plan, row, sweep, jobVars>>
    BY <1>9 DEF Refill
  <2>2. /\ refills[c] < RefillBound[c]
        /\ refills' = [refills EXCEPT ![c] = @ + 1] /\ funds' = [funds EXCEPT ![c] = @ + 1]
        /\ RefillBound \in [Currencies -> Nat]
    BY <1>9, CurrencyAssumption DEF Refill
  <2>3. funds' \in [Currencies -> Nat] /\ \A d \in Currencies : funds'[d] >= funds[d]
    BY <1>3, <2>2
  <2>4. refills' \in [Currencies -> Nat] /\ \A d \in Currencies : refills'[d] <= RefillBound[d]
    BY <1>3, <2>2
  <2> QED
    BY <1>2, <1>3, <2>1, <2>3, <2>4
<1> QED
  BY <1>1, <1>5, <1>6, <1>7, <1>8, <1>9

\* A sweep that finds nothing, and no step at all.
LEMMA StutterType ==
    ASSUME TypeInv, UNCHANGED vars
    PROVE  TypeInv'
<1>1. UNCHANGED <<plan, row, sweep, draft, toSend, newWaits, short, faults, txs, forgotten, funds, balance, refills>>
  BY DEF vars, jobVars, chainVars
<1>2. TypeOK'
  BY <1>1 DEF TypeInv, TypeOK
<1>3. \A r \in {row', draft'} : RowOK(r)'
  BY <1>1 DEF TypeInv, RowOK, PosOK, Simple
<1>4. SweepOK'
  BY <1>1 DEF TypeInv, SweepOK, Task, Simple, InReserves, CreatesReserves, Site, Given
<1> QED
  BY <1>2, <1>3, <1>4 DEF TypeInv

\* Every step keeps the types.
LEMMA NextType ==
    ASSUME TypeInv, [Next]_vars
    PROVE  TypeInv'
<1>1. CASE Sweep
  BY <1>1, ReadType, QuietStepType, SendStepType, WaitingType, PlanType, TransferType, SaveFundingType,
     DefineBasketType, StutterType DEF Sweep, EmptySweep
<1>2. CASE Operations \/ Mining
  BY <1>2, WorldType DEF Operations, Mining
<1> QED
  BY <1>1, <1>2, ApiType, ReadType, WorldType, StutterType DEF Next

\* The request starts from nothing.
LEMMA InitType ==
    ASSUME Init
    PROVE  TypeInv
<1>1. /\ plan = <<>> /\ row = AbsentRow /\ draft = AbsentRow /\ sweep = "idle" /\ toSend = Nothing
      /\ newWaits = {} /\ short = FALSE /\ faults = 0 /\ txs = <<>> /\ forgotten = {}
      /\ funds = InitialFunds /\ balance = Nothing /\ refills = Nothing
  BY DEF Init
<1>2. txs \in Seq(Tx) /\ Len(txs) = 0 /\ Nothing \in [Currencies -> Nat] /\ \A c \in Currencies : Nothing[c] = 0
  BY <1>1 DEF Nothing
<1>3. WellFormed(AbsentRow, Len(txs)) /\ AbsentRow.status = "absent"
  BY <1>2, AbsentIsRow
<1>4. /\ faults \in 0 .. FaultBound /\ InitialFunds \in [Currencies -> Nat]
      /\ \A c \in Currencies : refills[c] <= RefillBound[c]
  BY <1>1, <1>2, CurrencyAssumption
<1>5. TypeOK
  BY <1>1, <1>2, <1>3, <1>4 DEF TypeOK, WellFormed
<1>6. \A r \in {row, draft} : RowOK(r)
  BY <1>1, <1>3 DEF RowOK, Live, Waiting
<1> QED
  BY <1>1, <1>5, <1>6 DEF TypeInv, SweepOK

\* Every variable of the currency workflow keeps to its type, whatever is lost, fails
\* or is deleted: no row counts more attempts than the limit, refers to a transaction
\* the daemon has not taken or leaves the positions of its workflow, and no source is
\* asked for more than it holds (worker_currency_creation.py, process_currency_once).
THEOREM TypeCorrect == Spec => []TypeOK
<1>1. Init => TypeInv
  BY InitType
<1>2. TypeInv /\ [Next]_vars => TypeInv'
  BY NextType
<1>3. TypeInv => TypeOK
  BY DEF TypeInv
<1> QED
  BY <1>1, <1>2, <1>3, PTL DEF Spec

-----------------------------------------------------------------------------
(* What the chain has stays, and what is known of it with it.              *)

\* The daemon's list loses nothing and forgets no confirmation, balances grow, and
\* the plan is the same.
Grown ==
    /\ plan' = plan
    /\ \A i \in DOMAIN txs :
          /\ i \in DOMAIN txs'
          /\ txs'[i].kind = txs[i].kind /\ txs'[i].site = txs[i].site /\ txs'[i].rnc = txs[i].rnc
          /\ txs[i].state = "mined" => txs'[i].state = "mined"
    /\ \A c \in Currencies : balance'[c] >= balance[c]

\* The confirmed commitment an identity is registered on.
OnCommitment(site, c) ==
    c \in DOMAIN txs /\ txs[c].kind = "commit" /\ txs[c].site = site /\ txs[c].state = "mined"

\* What a name has before its currency is defined.
ReadyToDefine(site) ==
    /\ Given(site) \/ Mined("identity", site)
    /\ (site \in Created \/ Simple) => Mined("fund", site)
    /\ (site = Token /\ ~Simple) =>
          /\ \A c \in Basket : balance[c] + Epsilon >= Required[c]
          /\ \A r \in Created : Mined("define", r)

\* The same, of what a transaction says.
IdentityOn(i) == OnCommitment(txs[i].site, txs[i].rnc)

\* And what a definition says.
DefinedOn(i) == ReadyToDefine(txs[i].site)

\* What is mined stays mined.
LEMMA MinedStays ==
    ASSUME Grown, NEW kind, NEW site, Mined(kind, site)
    PROVE  Mined(kind, site)'
  BY DEF Grown, Mined

\* What the workflow does at a position depends on the plan alone.
LEMMA PlaceStays ==
    ASSUME plan' = plan, NEW p
    PROVE  /\ Task(p)' = Task(p) /\ Site(p)' = Site(p) /\ Rung(p)' = Rung(p)
           /\ OnLadder(p)' = OnLadder(p) /\ Passed(p)' = Passed(p)
           /\ Simple' = Simple /\ Created' = Created /\ Basket' = Basket
           /\ \A site : Given(site)' = Given(site)
<1>1. /\ Simple' = Simple /\ CreatesReserves' = CreatesReserves /\ InReserves(p)' = InReserves(p)
      /\ \A site : Given(site)' = Given(site)
  BY DEF Simple, CreatesReserves, InReserves, Given
<1>2. Site(p)' = Site(p) /\ Rung(p)' = Rung(p) /\ OnLadder(p)' = OnLadder(p) /\ Basket' = Basket
  BY <1>1 DEF Site, Rung, OnLadder, Basket
<1>3. Passed(p)' = Passed(p) /\ Created' = Created
  BY <1>1 DEF Passed, Created
<1>4. Task(p)' = Task(p)
  BY <1>1, <1>2 DEF Task
<1> QED
  BY <1>1, <1>2, <1>3, <1>4

\* What is mined or waited for stays so.
LEMMA AssuredStays ==
    ASSUME Grown, NEW r, NEW kind, NEW site, Assured(r, kind, site)
    PROVE  Assured(r, kind, site)'
<1>1. CASE Mined(kind, site)
  BY <1>1, MinedStays DEF Assured
<1>2. CASE r.status \in Waiting /\ r.wait.id \in DOMAIN txs
           /\ txs[r.wait.id].kind = kind /\ txs[r.wait.id].site = site
  BY <1>2 DEF Assured, Grown
<1> QED
  BY <1>1, <1>2 DEF Assured

\* So does what a row says of the chain.
LEMMA RowInvStays ==
    ASSUME Grown, NEW r, RowInv(r)
    PROVE  RowInv(r)'
<1>1. plan' = plan
  BY DEF Grown
<1>2. CommitKept(r) => CommitKept(r)'
  BY <1>1, PlaceStays DEF CommitKept, Grown
<1>3. Behind(r) => Behind(r)'
  BY <1>1, <1>2, PlaceStays, AssuredStays DEF Behind
<1> QED
  BY <1>3, MinedStays DEF RowInv

\* So does what an identity and a definition rest on.
LEMMA JustifiedStays ==
    ASSUME TypeInv, TypeInv', Grown, NEW site, NEW c
    PROVE  /\ OnCommitment(site, c) => OnCommitment(site, c)'
           /\ plan \in Plan /\ ReadyToDefine(site) => ReadyToDefine(site)'
<1>1. OnCommitment(site, c) => OnCommitment(site, c)'
  BY DEF OnCommitment, Grown
<1>2. ASSUME plan \in Plan, ReadyToDefine(site) PROVE ReadyToDefine(site)'
  <2>1. plan' = plan
    BY DEF Grown
  <2>2. Basket' = Basket /\ Created' = Created /\ Simple' = Simple /\ Given(site)' = Given(site)
    BY <2>1, PlaceStays
  <2>3. ASSUME NEW d \in Basket, balance[d] + Epsilon >= Required[d]
        PROVE  balance'[d] + Epsilon >= Required[d]
    <3>1. d \in Currencies
      BY <1>2 DEF Basket, Plan, Currencies
    <3>2. balance[d] \in Nat /\ balance'[d] \in Nat /\ balance'[d] >= balance[d]
      BY <3>1 DEF TypeInv, TypeOK, Grown
    <3>3. Epsilon \in Nat /\ Required[d] \in Nat
      BY <3>1, CurrencyAssumption
    <3> QED
      BY <2>3, <3>2, <3>3
  <2> QED
    BY <1>2, <2>2, <2>3, MinedStays DEF ReadyToDefine
<1> QED
  BY <1>1, <1>2

\* What the two invariants about the chain say of each transaction.
LEMMA ChainInvariants ==
    /\ IdentityOnItsCommitment <=>
          \A i \in DOMAIN txs : txs[i].kind = "identity" => OnCommitment(txs[i].site, txs[i].rnc)
    /\ DefineLast <=>
          \A i \in DOMAIN txs : txs[i].kind = "define" => ReadyToDefine(txs[i].site)
  BY DEF IdentityOnItsCommitment, DefineLast, OnCommitment, ReadyToDefine

\* They hold of the transactions that were there.
LEMMA OldStayJustified ==
    ASSUME TypeInv, TypeInv', IndInv, Grown, NEW i \in DOMAIN txs,
           NEW site, site = txs[i].site, NEW c, c = txs[i].rnc
    PROVE  /\ txs'[i].kind = txs[i].kind /\ txs'[i].site = site /\ txs'[i].rnc = c
           /\ txs[i].kind = "identity" => OnCommitment(site, c)'
           /\ txs[i].kind = "define" => ReadyToDefine(site)'
<1>1. txs'[i].kind = txs[i].kind /\ txs'[i].site = site /\ txs'[i].rnc = c
  BY DEF Grown
<1>2. /\ txs[i].kind = "identity" => OnCommitment(site, c)
      /\ txs[i].kind = "define" => ReadyToDefine(site)
  BY ChainInvariants DEF IndInv
<1>3. plan \in Plan
  BY CurrencyAssumption DEF TypeInv, TypeOK, SweepOK
<1> QED
  BY <1>1, <1>2, <1>3, JustifiedStays

\* A step after which nothing is there but what was, and one transaction that is
\* justified itself, keeps both.
LEMMA ChainKept ==
    ASSUME TypeInv, TypeInv', IndInv, Grown, NEW n,
           DOMAIN txs' \subseteq DOMAIN txs \cup {n},
           n \notin DOMAIN txs /\ n \in DOMAIN txs' =>
              /\ txs'[n].kind = "identity" => IdentityOn(n)'
              /\ txs'[n].kind = "define" => DefinedOn(n)'
    PROVE  IdentityOnItsCommitment' /\ DefineLast'
<1>1. ASSUME NEW i \in DOMAIN txs'
      PROVE  /\ txs'[i].kind = "identity" => IdentityOn(i)'
             /\ txs'[i].kind = "define" => DefinedOn(i)'
  <2>1. CASE i \in DOMAIN txs
    <3>1. PICK site, c : site = txs[i].site /\ c = txs[i].rnc
      OBVIOUS
    <3> QED
      BY <2>1, <3>1, OldStayJustified DEF IdentityOn, DefinedOn
  <2>2. CASE i \notin DOMAIN txs
    BY <2>2
  <2> QED
    BY <2>1, <2>2
<1>2. IdentityOnItsCommitment'
  BY <1>1 DEF IdentityOnItsCommitment, IdentityOn, OnCommitment
<1>3. DefineLast'
  BY <1>1 DEF DefineLast, DefinedOn, ReadyToDefine
<1> QED
  BY <1>2, <1>3

\* A row that is not there says nothing.
LEMMA AbsentSaysNothing == RowInv(AbsentRow) /\ RowInv(AbsentRow)'
<1>1. AbsentRow.status \notin Live /\ AbsentRow.status # "complete"
  BY AbsentIsRow DEF Live, Waiting
<1> QED
  BY <1>1 DEF RowInv

\* A step that leaves what is known where it was, or moves it from the row at hand to
\* the committed one or back.
LEMMA RowsKept ==
    ASSUME IndInv, Grown, row' \in {row, draft, AbsentRow}, draft' \in {row, draft, AbsentRow}
    PROVE  \A r \in {row', draft'} : RowInv(r)'
<1>1. PICK old1, old2 : old1 = row /\ old2 = draft
  OBVIOUS
<1>2. RowInv(old1)' /\ RowInv(old2)'
  BY <1>1, RowInvStays DEF IndInv
<1>3. \A r \in {old1, old2, AbsentRow} : RowInv(r)'
  BY <1>2, AbsentSaysNothing
<1> QED
  BY <1>1, <1>3

\* The UPDATE of a step.
LEMMA WriteKept ==
    ASSUME IndInv, Grown, NEW r, Write(r), RowInv(r)'
    PROVE  \A s \in {row', draft'} : RowInv(s)'
<1>1. PICK old : old = row
  OBVIOUS
<1>2. RowInv(old)'
  BY <1>1, RowInvStays DEF IndInv
<1> QED
  BY <1>1, <1>2 DEF Write

\* A row that stays at its position says no more than before, as long as what it waited
\* for is mined or waited for still.
LEMMA SamePlace ==
    ASSUME NEW old, NEW r, old.status \in Live, RowInv(old)', r.pos = old.pos, r.rnc = old.rnc,
           r.status # "complete",
           \/ r.status \notin Live
           \/ old.status \notin Waiting
           \/ r.status \in Waiting /\ r.wait.id = old.wait.id
           \/ old.wait.id \in DOMAIN txs' => txs'[old.wait.id].state = "mined"
    PROVE  RowInv(r)'
<1>1. CASE r.status \notin Live
  BY <1>1 DEF RowInv
<1>2. CASE r.status \in Live
  <2>1. ASSUME NEW kind, NEW site, Assured(old, kind, site)' PROVE Assured(r, kind, site)'
    BY <1>2, <2>1 DEF Assured, Mined
  <2>2. CommitKept(old)' => CommitKept(r)'
    BY <1>2 DEF CommitKept
  <2>3. Behind(old)'
    BY DEF RowInv
  <2>4. Behind(r)'
    BY <2>1, <2>2, <2>3 DEF Behind
  <2> QED
    BY <2>4 DEF RowInv
<1> QED
  BY <1>1, <1>2

\* A row that goes on: what was behind it is mined, and what the step did is waited for.
LEMMA NextPlace ==
    ASSUME plan \in Plan, plan' = plan, NEW old, NEW r, old.pos \in Position, PosOK(old.pos),
           old.status \in Live, old.status \notin Waiting, RowInv(old)',
           NEW task, task = Task(old.pos), NEW site, site = Site(old.pos),
           task \in Advancing, r.pos = After(old.pos), r.status \in Live,
           task = "commit" =>
              /\ r.rnc \in DOMAIN txs' /\ txs'[r.rnc].kind = "commit" /\ txs'[r.rnc].site = site
              /\ r.status \in Waiting /\ r.wait.id = r.rnc,
           task \in {"identity", "fund", "define"} => Assured(r, task, site)',
           task = "gate" => Assured(r, "define", Token)'
    PROVE  RowInv(r)'
<1>1. PICK p, q : p = old.pos /\ q = r.pos
  OBVIOUS
<1>2. /\ Site(p) = site /\ Site(p)' = site /\ Task(p) = task /\ Task(p)' = task
      /\ Rung(p)' = Rung(p) /\ OnLadder(p)' = OnLadder(p) /\ Passed(p)' = Passed(p)
      /\ Task(q)' = Task(q) /\ Site(q)' = Site(q) /\ Rung(q)' = Rung(q)
      /\ OnLadder(q)' = OnLadder(q) /\ Passed(q)' = Passed(q)
      /\ Simple' = Simple /\ \A name : Given(name)' = Given(name)
  BY <1>1, PlaceStays
<1>3. ASSUME NEW kind, NEW name, Assured(old, kind, name)' PROVE Assured(r, kind, name)'
  BY <1>3 DEF Assured
<1>4. /\ OnLadder(p) =>
            /\ Rung(p) >= 2 => Given(site) \/ Assured(r, "identity", site)'
            /\ Rung(p) >= 3 => Assured(r, "fund", site)'
            /\ Rung(p) >= 4 => Assured(r, "define", site)'
      /\ ~Simple /\ p.step >= 2 => Given(Token) \/ Assured(r, "identity", Token)'
      /\ \A c \in Passed(p) : Assured(r, "define", c)'
  <2>1. Behind(old)'
    BY DEF RowInv
  <2>2. /\ OnLadder(p) =>
              /\ Rung(p) >= 2 => Given(site) \/ Assured(old, "identity", site)'
              /\ Rung(p) >= 3 => Assured(old, "fund", site)'
              /\ Rung(p) >= 4 => Assured(old, "define", site)'
        /\ ~Simple /\ p.step >= 2 => Given(Token) \/ Assured(old, "identity", Token)'
        /\ \A c \in Passed(p) : Assured(old, "define", c)'
    BY <1>1, <1>2, <2>1 DEF Behind
  <2> QED
    BY <1>3, <2>2
<1>5. /\ Task(q) = "identity" => task = "commit" /\ Site(q) = site
      /\ OnLadder(q) /\ Rung(q) >= 2 =>
           /\ OnLadder(p) /\ Site(q) = site
           /\ Rung(p) >= 2 \/ Given(site) \/ task = "identity"
           /\ Rung(q) >= 3 => Rung(p) >= 3 \/ task = "fund"
           /\ Rung(q) >= 4 => Rung(p) >= 4 \/ task = "define"
      /\ ~Simple /\ q.step >= 2 =>
           p.step >= 2 \/ Given(Token) \/ (task = "identity" /\ site = Token)
      /\ ~Simple /\ q.step >= 6 => task = "gate"
      /\ \A c \in Passed(q) : c \in Passed(p) \/ (OnLadder(p) /\ Rung(p) >= 4 /\ c = site)
  BY <1>1, AfterInOrder
<1>6. (Rung(q) >= 4 => Rung(q) >= 3) /\ (Rung(q) >= 3 => Rung(q) >= 2)
  <2>1. q \in Position
    BY <1>1, AfterIsPosition
  <2>2. Rung(q) \in Nat
    BY <2>1 DEF Rung, Position
  <2> QED
    BY <2>2
<1>7. /\ task = "identity" => Assured(r, "identity", site)'
      /\ task = "fund" => Assured(r, "fund", site)'
      /\ task = "define" => Assured(r, "define", site)'
  OBVIOUS
<1>8. Task(q) = "identity" => CommitKept(r)'
  BY <1>1, <1>2, <1>5 DEF CommitKept
<1>9. OnLadder(q) =>
         /\ Rung(q) >= 2 => Given(Site(q)) \/ (Site(q) = site /\ Assured(r, "identity", site)')
         /\ Rung(q) >= 3 => Site(q) = site /\ Assured(r, "fund", site)'
         /\ Rung(q) >= 4 => Site(q) = site /\ Assured(r, "define", site)'
  BY <1>4, <1>5, <1>6, <1>7
<1>10. ~Simple =>
         /\ q.step >= 2 => Given(Token) \/ Assured(r, "identity", Token)'
         /\ q.step >= 6 => Assured(r, "define", Token)'
  BY <1>4, <1>5, <1>7
<1>11. \A c \in Passed(q) : Assured(r, "define", c)'
  BY <1>4, <1>5
<1>12. Behind(r)'
  BY <1>1, <1>2, <1>8, <1>9, <1>10, <1>11 DEF Behind
<1> QED
  BY <1>12 DEF RowInv, Live, Waiting

\* A step that leaves plan, list and balances alone.
LEMMA QuietGrows ==
    ASSUME TypeInv, UNCHANGED <<plan, txs, balance>>
    PROVE  Grown /\ DOMAIN txs' = DOMAIN txs
<1>1. \A c \in Currencies : balance[c] \in Nat
  BY DEF TypeInv, TypeOK
<1> QED
  BY <1>1 DEF Grown

\* A step that the daemon has taken a call of.
LEMMA TakenGrows ==
    ASSUME TypeInv, plan' = plan,
           NEW kind \in {"commit", "identity", "fund", "define", "transfer"},
           NEW site \in {Token} \cup ReserveNames, NEW amount \in [Currencies -> Nat],
           NEW state \in {"executing", "failed", "mempool", "mined"},
           Taken(kind, site, amount, state)
    PROVE  /\ Grown
           /\ DOMAIN txs' = DOMAIN txs \cup {NextTx} /\ NextTx \notin DOMAIN txs
           /\ txs'[NextTx].kind = kind /\ txs'[NextTx].site = site
           /\ kind = "identity" => txs'[NextTx].rnc = draft.rnc
<1>1. /\ NextTx = Len(txs) + 1 /\ Len(txs) \in Nat
      /\ DOMAIN txs' = 1 .. NextTx /\ DOMAIN txs = 1 .. Len(txs)
      /\ \A i \in DOMAIN txs : txs'[i] = txs[i]
      /\ txs'[NextTx].kind = kind /\ txs'[NextTx].site = site
      /\ kind = "identity" => txs'[NextTx].rnc = draft.rnc
  BY TakenList
<1>2. balance' = balance /\ \A c \in Currencies : balance[c] \in Nat
  BY DEF TypeInv, TypeOK, Taken
<1>3. DOMAIN txs' = DOMAIN txs \cup {NextTx} /\ NextTx \notin DOMAIN txs
  BY <1>1
<1>4. Grown
  BY <1>1, <1>2, <1>3 DEF Grown
<1> QED
  BY <1>1, <1>3, <1>4

\* What the row at hand says is true still.
LEMMA AtHandStays ==
    ASSUME IndInv, Grown, NEW old, old = draft
    PROVE  RowInv(old)'
<1>1. RowInv(old)
  BY DEF IndInv
<1> QED
  BY <1>1, RowInvStays

\* A step that sends nothing and saves nothing.
LEMMA UnsentKept ==
    ASSUME TypeInv, TypeInv', IndInv, UNCHANGED <<plan, txs, balance>>,
           row' \in {row, draft, AbsentRow}, draft' \in {row, draft, AbsentRow}
    PROVE  IndInv'
<1>1. Grown /\ DOMAIN txs' = DOMAIN txs
  BY QuietGrows
<1>2. \A r \in {row', draft'} : RowInv(r)'
  BY <1>1, RowsKept
<1>3. IdentityOnItsCommitment' /\ DefineLast'
  BY <1>1, ChainKept
<1> QED
  BY <1>2, <1>3 DEF IndInv

\* A step that sends nothing, and ends with its UPDATE.
LEMMA QuietWriteKept ==
    ASSUME TypeInv, TypeInv', IndInv, UNCHANGED <<txs, balance>>, NEW r, Write(r), RowInv(r)'
    PROVE  IndInv'
<1>1. Grown /\ DOMAIN txs' = DOMAIN txs
  BY QuietGrows DEF Write
<1>2. \A s \in {row', draft'} : RowInv(s)'
  BY <1>1, WriteKept
<1>3. IdentityOnItsCommitment' /\ DefineLast'
  BY <1>1, ChainKept
<1> QED
  BY <1>2, <1>3 DEF IndInv

\* A call that the daemon took, for what it may be made for, keeps both invariants.
LEMMA TakenKept ==
    ASSUME TypeInv, TypeInv', IndInv, plan \in Plan, plan' = plan,
           NEW kind \in {"commit", "identity", "fund", "define", "transfer"},
           NEW site \in {Token} \cup ReserveNames, NEW amount \in [Currencies -> Nat],
           NEW state \in {"executing", "failed", "mempool", "mined"},
           Taken(kind, site, amount, state),
           kind = "identity" => OnCommitment(site, draft.rnc),
           kind = "define" => ReadyToDefine(site)
    PROVE  IdentityOnItsCommitment' /\ DefineLast'
<1>1. /\ Grown
      /\ DOMAIN txs' = DOMAIN txs \cup {NextTx} /\ NextTx \notin DOMAIN txs
      /\ txs'[NextTx].kind = kind /\ txs'[NextTx].site = site
      /\ kind = "identity" => txs'[NextTx].rnc = draft.rnc
  BY TakenGrows
<1>2. PICK c, n : c = draft.rnc /\ n = NextTx
  OBVIOUS
<1>3. kind = "identity" => OnCommitment(site, c)'
  BY <1>1, <1>2, JustifiedStays
<1>4. kind = "define" => ReadyToDefine(site)'
  BY <1>1, JustifiedStays
<1>5. /\ txs'[n].kind = "identity" => IdentityOn(n)'
      /\ txs'[n].kind = "define" => DefinedOn(n)'
  BY <1>1, <1>2, <1>3, <1>4 DEF IdentityOn, DefinedOn
<1> QED
  BY <1>1, <1>2, <1>5, ChainKept

\* And the UPDATE that ends its step.
LEMMA TakenWriteKept ==
    ASSUME TypeInv, TypeInv', IndInv, sweep \in Handling,
           NEW kind \in {"commit", "identity", "fund", "define", "transfer"},
           NEW site \in {Token} \cup ReserveNames, NEW amount \in [Currencies -> Nat],
           NEW state \in {"executing", "failed", "mempool", "mined"},
           Taken(kind, site, amount, state),
           kind = "identity" => OnCommitment(site, draft.rnc),
           kind = "define" => ReadyToDefine(site),
           NEW r, Write(r), RowInv(r)'
    PROVE  IndInv'
<1>1. plan \in Plan /\ plan' = plan
  BY AtHand DEF Write
<1>2. Grown
  BY <1>1, TakenGrows
<1>3. \A s \in {row', draft'} : RowInv(s)'
  BY <1>2, WriteKept
<1>4. IdentityOnItsCommitment' /\ DefineLast'
  BY <1>1, TakenKept
<1> QED
  BY <1>3, <1>4 DEF IndInv

\* A row to be tried again, or given up, says what it said.
LEMMA RetriedKept ==
    ASSUME TypeInv, IndInv, Grown, sweep \in Handling, NEW r, r \in {RetryOrFailure, Abandoned}
    PROVE  RowInv(r)'
<1>1. PICK old : old = draft
  OBVIOUS
<1>2. old \in Row /\ old.status \in Live /\ RowInv(old)'
  BY <1>1, AtHand, AtHandStays
<1>3. /\ r.pos = old.pos /\ r.rnc = old.rnc /\ r.wait = old.wait
      /\ r.status = old.status \/ r.status = "failed"
  BY <1>1, <1>2, RetriedIsRow
<1>4. "failed" \notin Live /\ "complete" \notin Live
  BY DEF Live, Waiting
<1> QED
  BY <1>2, <1>3, <1>4, SamePlace

-----------------------------------------------------------------------------
(* The invariant: the actions.                                             *)

\* The API's statements: a new request is at the start of its workflow.
LEMMA ApiKept ==
    ASSUME TypeInv, TypeInv', IndInv, Enqueue \/ DeleteRequest
    PROVE  IndInv'
<1>1. CASE Enqueue
  <2>1. plan = <<>> /\ txs = <<>> /\ txs' = txs /\ draft = AbsentRow /\ draft' = draft
    BY <1>1, AbsentIsRow DEF Enqueue, TypeInv, SweepOK, jobVars, chainVars
  <2>2. PICK new : new = [AbsentRow EXCEPT !.status = "pending"]
    OBVIOUS
  <2>3. PICK p : p = new.pos
    OBVIOUS
  <2>4. new.status = "pending" /\ p.step = 0 /\ p.reserve = 0 /\ p.phase = 0
    BY <2>2, <2>3 DEF AbsentRow
  <2>5. ~InReserves(p)' /\ Passed(p)' = {} /\ Rung(p)' = 0
    BY <2>4 DEF InReserves, Passed, Rung
  <2>6. Task(p)' # "identity"
    <3>1. SimpleTasks[1] = "commit" /\ FractionalTasks[1] = "commit"
      BY TaskLists DEF FractionalTasks
    <3> QED
      BY <2>4, <2>5, <3>1 DEF Task
  <2>7. RowInv(new)'
    BY <2>3, <2>4, <2>5, <2>6 DEF RowInv, Behind
  <2>8. row' = new
    BY <1>1, <2>2 DEF Enqueue
  <2>9. \A r \in {row', draft'} : RowInv(r)'
    <3>1. \A r \in {new, AbsentRow} : RowInv(r)'
      BY <2>7, AbsentSaysNothing
    <3> QED
      BY <2>1, <2>8, <3>1
  <2>10. IdentityOnItsCommitment' /\ DefineLast'
    BY <2>1 DEF IdentityOnItsCommitment, DefineLast
  <2> QED
    BY <2>9, <2>10 DEF IndInv
<1>2. CASE DeleteRequest
  BY <1>2, UnsentKept DEF DeleteRequest, jobVars, chainVars
<1> QED
  BY <1>1, <1>2

\* Reading the row, beginning its step, planning, and the end of the sweep.
LEMMA ReadKept ==
    ASSUME TypeInv, TypeInv', IndInv,
           \/ Select \/ Begin \/ Commit \/ Crash \/ PlanFunding
           \/ ResolveWaits /\ sweep' = "planning"
           \/ UNCHANGED vars
    PROVE  IndInv'
<1>1. UNCHANGED <<plan, txs, balance>> /\ row' \in {row, draft} /\ draft' \in {row, draft, AbsentRow}
  <2>1. ResolveWaits /\ sweep' = "planning" => UNCHANGED <<plan, row, jobVars, chainVars>>
    BY DEF ResolveWaits, Write
  <2> QED
    BY <2>1 DEF Select, Begin, Commit, Crash, Abandon, Clear, PlanFunding, vars, jobVars, chainVars
<1> QED
  BY <1>1, UnsentKept

\* Calls that raise, and what the worker waits for.
LEMMA PollKept ==
    ASSUME TypeInv, TypeInv', IndInv, CallRaises \/ PollConfirm \/ PollOperation
    PROVE  IndInv'
<1>1. /\ sweep \in Handling /\ UNCHANGED <<txs, balance>> /\ plan' = plan /\ Grown
  BY QuietGrows DEF CallRaises, PollConfirm, PollOperation, Handling, Write, chainVars
<1>2. PICK old : old = draft
  OBVIOUS
<1>3. /\ old \in Row /\ old.status \in Live /\ RowInv(old)' /\ old.pos \in Position
      /\ old.wait.id \in Nat /\ old.wait.id <= Len(txs)
  BY <1>1, <1>2, AtHand, AtHandStays DEF Wait
<1>4. CASE CallRaises
  <2>1. PICK r : r = RetryOrFailure
    OBVIOUS
  <2> QED
    BY <1>1, <1>4, <2>1, RetriedKept, QuietWriteKept DEF CallRaises
<1>5. NoWait \in Wait
  BY NewWaitsAreWaits
<1>6. CASE PollConfirm
  <2>1. CASE Confirmed(draft.wait.id)
    <3>1. PICK r : r = Saved("in_progress", draft.pos, NoWait)
      OBVIOUS
    <3>2. Write(r)
      BY <1>6, <2>1, <3>1 DEF PollConfirm
    <3>3. r.pos = old.pos /\ r.rnc = old.rnc /\ r.status = "in_progress"
      <4>1. "in_progress" \in RowStatuses
        BY DEF RowStatuses, Live
      <4> QED
        BY <1>2, <1>3, <1>5, <3>1, <4>1, SavedIsRow
    <3>4. txs'[old.wait.id].state = "mined"
      BY <1>1, <1>2, <2>1 DEF Confirmed
    <3>5. RowInv(r)'
      BY <1>1, <1>3, <3>3, <3>4, SamePlace
    <3> QED
      BY <1>1, <3>2, <3>5, QuietWriteKept
  <2>2. CASE ~Confirmed(draft.wait.id)
    <3>1. Write(old)
      BY <1>2, <1>6, <2>2 DEF PollConfirm
    <3> QED
      BY <1>1, <1>3, <3>1, QuietWriteKept
  <2> QED
    BY <2>1, <2>2
<1>7. CASE PollOperation
  <2>1. PICK id : id = draft.wait.id
    OBVIOUS
  <2>2. OperationState(id) \in {"terminal", "waiting", "resolved"}
    BY DEF OperationState
  <2>3. PICK r : /\ Write(r)
                 /\ r = Abandoned \/ r = old \/ r = Saved("waiting_confirm", draft.pos, TxWait(id))
    BY <1>2, <1>7, <2>1, <2>2 DEF PollOperation
  <2>4. CASE r = Abandoned
    BY <1>1, <2>3, <2>4, RetriedKept, QuietWriteKept
  <2>5. CASE r = old
    BY <1>1, <1>3, <2>3, <2>5, QuietWriteKept
  <2>6. CASE r = Saved("waiting_confirm", draft.pos, TxWait(id))
    <3>1. TxWait(id) \in Wait /\ TxWait(id).id = id
      BY <1>2, <1>3, <2>1 DEF TxWait, Wait
    <3>2. "waiting_confirm" \in RowStatuses /\ "waiting_confirm" \in Waiting
      BY DEF RowStatuses, Live, Waiting
    <3>3. r.pos = old.pos /\ r.rnc = old.rnc /\ r.status = "waiting_confirm" /\ r.wait.id = old.wait.id
      BY <1>2, <1>3, <2>1, <2>6, <3>1, <3>2, SavedIsRow
    <3>4. RowInv(r)'
      BY <1>3, <3>2, <3>3, SamePlace
    <3> QED
      BY <1>1, <2>3, <3>4, QuietWriteKept
  <2> QED
    BY <2>3, <2>4, <2>5, <2>6
<1> QED
  BY <1>4, <1>6, <1>7

\* The row at hand at a step of its own, which is not waiting for anything: what it says
\* has been done is mined.
LEMMA AtHandIsMined ==
    ASSUME TypeInv, IndInv, sweep \in {"begun", "planning", "sending"}
    PROVE  LET p == draft.pos IN
           /\ draft.status \notin Waiting /\ Behind(draft)
           /\ Task(p) = "identity" => OnCommitment(Site(p), draft.rnc)
           /\ Task(p) = "define" => OnLadder(p) /\ (Given(Site(p)) \/ Mined("identity", Site(p)))
                                                /\ Mined("fund", Site(p))
           /\ Task(p) = "finish" => Mined("define", Token)
           /\ Task(p) = "gate" => (Given(Token) \/ Mined("identity", Token))
                                  /\ \A c \in Created : Mined("define", c)
<1>1. draft.status \notin Waiting /\ draft.status \in Live /\ sweep \in Handling
  BY DEF TypeInv, SweepOK, Handling
<1>2. /\ plan \in Plan /\ draft.pos \in Position /\ PosOK(draft.pos)
      /\ draft.pos.step \in 0 .. 6 /\ draft.pos.phase \in 0 .. 4
  BY <1>1, AtHand DEF Position
<1>3. Behind(draft)
  BY <1>1 DEF IndInv, RowInv
<1>4. ASSUME NEW kind, NEW site PROVE Assured(draft, kind, site) => Mined(kind, site)
  BY <1>1 DEF Assured
<1>5. PICK p : p = draft.pos
  OBVIOUS
<1>6. /\ Task(p) = "identity" => CommitKept(draft)
      /\ OnLadder(p) =>
            /\ Rung(p) >= 2 => Given(Site(p)) \/ Mined("identity", Site(p))
            /\ Rung(p) >= 3 => Mined("fund", Site(p))
            /\ Rung(p) >= 4 => Mined("define", Site(p))
      /\ ~Simple =>
            /\ p.step >= 2 => Given(Token) \/ Mined("identity", Token)
            /\ p.step >= 6 => Mined("define", Token)
      /\ \A c \in Passed(p) : Mined("define", c)
  BY <1>3, <1>4, <1>5 DEF Behind
<1>7. Task(p) = "identity" => OnCommitment(Site(p), draft.rnc)
  BY <1>1, <1>5, <1>6 DEF CommitKept, OnCommitment
<1>8. CASE Simple
  <2>1. /\ Task(p) = "define" => p.step = 3
        /\ Task(p) = "finish" => p.step = 4
        /\ Task(p) # "gate"
        /\ ~InReserves(p) /\ Site(p) = Token
    BY <1>2, <1>5, <1>8, TasksInOrder
  <2> QED
    BY <1>1, <1>3, <1>5, <1>6, <1>7, <1>8, <2>1 DEF OnLadder, Rung
<1>9. CASE ~Simple /\ InReserves(p)
  <2>1. /\ Task(p) = "define" => p.phase = 3
        /\ Task(p) # "gate" /\ Task(p) # "finish"
    BY <1>2, <1>5, <1>9, TasksInOrder
  <2> QED
    BY <1>1, <1>3, <1>5, <1>6, <1>7, <1>9, <2>1 DEF OnLadder, Rung
<1>10. CASE ~Simple /\ ~InReserves(p)
  <2>1. /\ Task(p) # "define"
        /\ Task(p) = "gate" => p.step = 5
        /\ Task(p) = "finish" => p.step = 6
    BY <1>2, <1>5, <1>10, TasksInOrder
  <2>2. p.step = 5 => Passed(p) = Created
    BY <1>10 DEF Passed, Created
  <2>3. /\ p.step = 5 => Given(Token) \/ Mined("identity", Token)
        /\ p.step = 6 => Mined("define", Token)
    BY <1>6, <1>10
  <2>4. Task(p) = "gate" => \A c \in Created : Mined("define", c)
    BY <1>6, <2>1, <2>2
  <2> QED
    BY <1>1, <1>3, <1>5, <1>7, <2>1, <2>3, <2>4
<1> QED
  BY <1>8, <1>9, <1>10

\* The steps that only move on, and the last one.
LEMMA PassKept ==
    ASSUME TypeInv, TypeInv', IndInv, Pass \/ Finish
    PROVE  IndInv'
<1>1. /\ sweep = "begun" /\ sweep \in Handling /\ UNCHANGED <<txs, balance>> /\ plan' = plan /\ Grown
      /\ Task(draft.pos) \in {"pass", "finish"}
  BY QuietGrows DEF Pass, Finish, At, Handling, Write, chainVars
<1>2. PICK old : old = draft
  OBVIOUS
<1>3. /\ old \in Row /\ old.status \in Live /\ old.status \notin Waiting /\ RowInv(old)'
      /\ old.pos \in Position /\ PosOK(old.pos) /\ plan \in Plan /\ NoWait \in Wait
  BY <1>1, <1>2, AtHand, AtHandIsMined, AtHandStays, NewWaitsAreWaits
<1>4. "in_progress" \in RowStatuses /\ "complete" \in RowStatuses /\ "in_progress" \in Live /\ "complete" \notin Live
  BY DEF RowStatuses, Live, Waiting
<1>5. CASE Pass
  <2>1. PICK r : r = Saved("in_progress", After(draft.pos), NoWait)
    OBVIOUS
  <2>2. Write(r) /\ Task(old.pos) = "pass"
    BY <1>2, <1>5, <2>1 DEF Pass, At
  <2>3. After(draft.pos) \in Position
    BY <1>2, <1>3, <2>2, AfterIsPosition DEF Advancing
  <2>4. r.pos = After(old.pos) /\ r.status = "in_progress"
    BY <1>2, <1>3, <1>4, <2>1, <2>3, SavedIsRow
  <2>5. PICK task, site : task = Task(old.pos) /\ site = Site(old.pos)
    OBVIOUS
  <2>6. task = "pass" /\ task \in Advancing
    BY <2>2, <2>5 DEF Advancing
  <2>7. RowInv(r)'
    BY <1>1, <1>3, <1>4, <2>4, <2>5, <2>6, NextPlace
  <2> QED
    BY <1>1, <2>2, <2>7, QuietWriteKept
<1>6. CASE Finish
  <2>1. PICK r : r = Saved("complete", draft.pos, NoWait)
    OBVIOUS
  <2>2. Write(r) /\ Task(draft.pos) = "finish"
    BY <1>6, <2>1 DEF Finish, At
  <2>3. r.status = "complete"
    BY <1>2, <1>3, <1>4, <2>1, SavedIsRow
  <2>4. Mined("define", Token)'
    BY <1>1, <2>2, AtHandIsMined, MinedStays
  <2>5. RowInv(r)'
    BY <1>4, <2>3, <2>4 DEF RowInv
  <2> QED
    BY <1>1, <2>2, <2>5, QuietWriteKept
<1> QED
  BY <1>5, <1>6

\* A transaction that was just taken is what the row that waits for it needs.
LEMMA NewIsAssured ==
    ASSUME NEW r, r.status \in Waiting, NEW n, r.wait.id = n, n \in DOMAIN txs',
           NEW kind, NEW site, txs'[n].kind = kind, txs'[n].site = site
    PROVE  Assured(r, kind, site)'
  BY DEF Assured

\* A step of the ladder whose call was taken goes on to the next position.
LEMMA AdvancedKept ==
    ASSUME TypeInv, IndInv, sweep = "begun" \/ sweep = "planning", plan' = plan, NEW task, NEW site,
           task = Task(draft.pos), task \in {"commit", "identity", "fund", "define", "gate"},
           site = Site(draft.pos), NEW amount \in [Currencies -> Nat],
           NEW state \in {"executing", "failed", "mempool", "mined"},
           NEW kind \in {"commit", "identity", "fund", "define"},
           kind = IF task = "gate" THEN "define" ELSE task,
           Taken(kind, site, amount, state),
           NEW r, r.pos = After(draft.pos), r.status \in Waiting, r.wait.id = NextTx,
           task = "commit" => r.rnc = NextTx
    PROVE  RowInv(r)'
<1>1. PICK old : old = draft
  OBVIOUS
<1>2. sweep \in Handling /\ task \in Advancing /\ r.status \in Live
  BY DEF Handling, Advancing, Live
<1>3. /\ old \in Row /\ old.status \in Live /\ old.status \notin Waiting
      /\ old.pos \in Position /\ PosOK(old.pos) /\ plan \in Plan /\ site \in {Token} \cup ReserveNames
  BY <1>1, <1>2, AtHand, AtHandIsMined
<1>4. kind \in {"commit", "identity", "fund", "define", "transfer"}
  OBVIOUS
<1>5. /\ Grown
      /\ DOMAIN txs' = DOMAIN txs \cup {NextTx}
      /\ txs'[NextTx].kind = kind /\ txs'[NextTx].site = site
  BY <1>3, <1>4, TakenGrows
<1>6. RowInv(old)'
  BY <1>1, <1>5, AtHandStays
<1>7. PICK n : n = NextTx
  OBVIOUS
<1>8. Assured(r, kind, site)'
  BY <1>5, <1>7, NewIsAssured
<1>9. task = "gate" => site = Token
  <2>1. PICK p : p = old.pos
    OBVIOUS
  <2>2. p \in Position /\ PosOK(p) /\ p.phase \in 0 .. 4 /\ Task(p) = task /\ Site(p) = site
    BY <1>1, <1>3, <2>1 DEF Position
  <2>3. task = "gate" => ~Simple /\ ~InReserves(p)
    BY <1>3, <2>2, TasksInOrder
  <2> QED
    BY <1>3, <2>2, <2>3, TasksInOrder
<1>10. /\ task \in {"identity", "fund", "define"} => kind = task
       /\ task = "gate" => kind = "define" /\ site = Token
       /\ task = "commit" => kind = "commit"
  BY <1>9
<1>11. task = "commit" =>
         /\ r.rnc \in DOMAIN txs' /\ txs'[r.rnc].kind = "commit" /\ txs'[r.rnc].site = site
         /\ r.status \in Waiting /\ r.wait.id = r.rnc
  BY <1>5, <1>10
<1>12. task \in {"identity", "fund", "define"} => Assured(r, task, site)'
  BY <1>8, <1>10
<1>13. task = "gate" => Assured(r, "define", Token)'
  BY <1>8, <1>10
<1>14. task = Task(old.pos) /\ site = Site(old.pos) /\ r.pos = After(old.pos)
  BY <1>1
<1> QED
  BY <1>2, <1>3, <1>6, <1>11, <1>12, <1>13, <1>14, NextPlace

\* The steps of the ladder that send.
LEMMA SubmitKept ==
    ASSUME TypeInv, TypeInv', IndInv, NEW kind \in {"commit", "identity", "define"}, Submit(kind)
    PROVE  IndInv'
<1>1. PICK site, amount : site = Site(draft.pos) /\ amount = Nothing
  OBVIOUS
<1>2. PICK task : task = Task(draft.pos)
  OBVIOUS
<1>3. /\ sweep = "begun" /\ sweep \in Handling /\ task = kind
      /\ Taken(kind, site, amount, "mempool")
  BY <1>1, <1>2 DEF Submit, At, Handling
<1>4. /\ site \in {Token} \cup ReserveNames /\ plan \in Plan
      /\ amount \in [Currencies -> Nat] /\ \A c \in Currencies : amount[c] <= funds[c]
      /\ kind \in {"commit", "identity", "fund", "define", "transfer"}
  BY <1>1, <1>3, AtHand, NothingIsPaid
<1>5. kind = "identity" => OnCommitment(site, draft.rnc)
  BY <1>1, <1>2, <1>3, AtHandIsMined
<1>6. kind = "define" => ReadyToDefine(site)
  <2>1. PICK p : p = draft.pos
    OBVIOUS
  <2>2. p \in Position /\ PosOK(p)
    BY <1>3, <2>1, AtHand
  <2>3. kind = "define" => OnLadder(p) /\ (Given(site) \/ Mined("identity", site)) /\ Mined("fund", site)
    BY <1>1, <1>2, <1>3, <2>1, AtHandIsMined
  <2>4. OnLadder(p) /\ ~Simple => site \in ReserveNames
    BY <1>1, <1>4, <2>1, <2>2, TasksInOrder DEF OnLadder
  <2>5. Token \notin ReserveNames
    BY CurrencyAssumption DEF Currencies
  <2> QED
    BY <2>3, <2>4, <2>5 DEF ReadyToDefine
<1>7. PICK state \in {"executing", "failed", "mempool", "mined"} : state = "mempool"
  OBVIOUS
<1>8. plan' = plan
  BY DEF Submit, Write
<1>9. Grown
  BY <1>3, <1>4, <1>7, <1>8, TakenGrows
<1>10. CASE Write(RetryOrFailure)
  <2>1. PICK r : r = RetryOrFailure
    OBVIOUS
  <2>2. RowInv(r)'
    BY <1>3, <1>9, <2>1, RetriedKept
  <2> QED
    BY <1>3, <1>4, <1>5, <1>6, <1>7, <1>10, <2>1, <2>2, TakenWriteKept
<1>11. CASE ~Write(RetryOrFailure)
  <2>1. PICK base : base = Advanced(TxWait(NextTx))
    OBVIOUS
  <2>2. task \in Advancing
    BY <1>3 DEF Advancing
  <2>3. /\ base \in Row /\ base.pos = After(draft.pos) /\ base.status = "waiting_confirm"
        /\ base.wait.id = NextTx /\ NextTx \in Nat
    BY <1>2, <1>3, <2>1, <2>2, AdvancedIsOK, NewWaitsAreWaits DEF WellFormed
  <2>4. PICK rnc : rnc = IF kind = "commit" THEN NextTx ELSE base.rnc
    OBVIOUS
  <2>5. PICK r : r = [base EXCEPT !.rnc = rnc]
    OBVIOUS
  <2>6. Write(r)
    BY <1>11, <2>1, <2>4, <2>5 DEF Submit
  <2>7. /\ r.pos = After(draft.pos) /\ r.status \in Waiting /\ r.wait.id = NextTx
        /\ task = "commit" => r.rnc = NextTx
    BY <1>3, <2>3, <2>4, <2>5 DEF Row, Waiting
  <2>8. kind \in {"commit", "identity", "fund", "define"} /\ task \in {"commit", "identity", "fund", "define", "gate"}
        /\ kind = IF task = "gate" THEN "define" ELSE task
    BY <1>3
  <2>9. RowInv(r)'
    BY <1>1, <1>2, <1>3, <1>4, <1>7, <1>8, <2>7, <2>8, AdvancedKept
  <2> QED
    BY <1>3, <1>4, <1>5, <1>6, <1>7, <2>6, <2>9, TakenWriteKept
<1> QED
  BY <1>10, <1>11

\* The funding of a definition.
LEMMA FundKept ==
    ASSUME TypeInv, TypeInv', IndInv, Fund
    PROVE  IndInv'
<1>1. PICK site, amount : site = Site(draft.pos) /\ amount = Nothing
  OBVIOUS
<1>2. PICK task : task = Task(draft.pos)
  OBVIOUS
<1>3. sweep = "begun" /\ sweep \in Handling /\ task = "fund" /\ plan' = plan
  BY <1>2 DEF Fund, At, Handling, Write
<1>4. /\ site \in {Token} \cup ReserveNames /\ plan \in Plan
      /\ amount \in [Currencies -> Nat] /\ \A c \in Currencies : amount[c] <= funds[c]
  BY <1>1, <1>3, AtHand, NothingIsPaid
<1>5. PICK kind \in {"commit", "identity", "fund", "define", "transfer"} : kind = "fund"
  OBVIOUS
<1>6. ASSUME NEW state \in {"executing", "failed", "mempool", "mined"},
             Taken(kind, site, amount, state),
             NEW r, Write(r),
             \/ r \in {RetryOrFailure, Abandoned}
             \/ r = Advanced(TxWait(NextTx)) \/ r = Advanced(OpWait(NextTx))
      PROVE  IndInv'
  <2>1. Grown
    BY <1>3, <1>4, <1>6, TakenGrows
  <2>2. RowInv(r)'
    <3>1. CASE r \in {RetryOrFailure, Abandoned}
      BY <1>3, <2>1, <3>1, RetriedKept
    <3>2. ASSUME NEW wait \in {TxWait(NextTx), OpWait(NextTx)}, r = Advanced(wait) PROVE RowInv(r)'
      <4>1. /\ wait \in Wait /\ wait.id = NextTx /\ NextTx \in Nat /\ NextTx >= Len(txs) /\ wait.id <= NextTx
        BY NewWaitsAreWaits
      <4>2. task \in Advancing
        BY <1>3 DEF Advancing
      <4>3. /\ r.pos = After(draft.pos) /\ r.wait = wait
            /\ r.status = IF wait.type = "opid_txid" THEN "waiting_opid" ELSE "waiting_confirm"
        BY <1>2, <1>3, <3>2, <4>1, <4>2, AdvancedIsOK
      <4>4. r.pos = After(draft.pos) /\ r.status \in Waiting /\ r.wait.id = NextTx /\ (task = "commit" => r.rnc = NextTx)
        BY <1>3, <4>1, <4>3 DEF Waiting
      <4>5. kind \in {"commit", "identity", "fund", "define"} /\ task \in {"commit", "identity", "fund", "define", "gate"}
            /\ kind = IF task = "gate" THEN "define" ELSE task
        BY <1>3, <1>5
      <4> QED
        BY <1>1, <1>2, <1>3, <1>4, <1>6, <4>4, <4>5, AdvancedKept
    <3> QED
      BY <1>6, <3>1, <3>2
  <2>3. kind # "identity" /\ kind # "define"
    BY <1>5
  <2> QED
    BY <1>3, <1>4, <1>6, <2>2, <2>3, TakenWriteKept
<1>7. ASSUME NEW a \in SendAnswers
      PROVE  /\ a.state \in {"executing", "failed", "mempool", "mined"}
             /\ a.wait = TxWait(NextTx) \/ a.wait = OpWait(NextTx)
  BY DEF SendAnswers
<1>8. PICK state, r : /\ state \in {"executing", "failed", "mempool", "mined"}
                      /\ Taken("fund", site, amount, state) /\ Write(r)
                      /\ \/ r \in {RetryOrFailure, Abandoned}
                         \/ r = Advanced(TxWait(NextTx)) \/ r = Advanced(OpWait(NextTx))
  BY <1>1, <1>7 DEF Fund
<1> QED
  BY <1>5, <1>6, <1>8

\* Rounds that look at the waits of an earlier one, and the gate that holds.
LEMMA WaitingKept ==
    ASSUME TypeInv, TypeInv', IndInv, Hold \/ (ResolveWaits /\ sweep' # "planning")
    PROVE  IndInv'
<1>1. sweep \in {"begun", "planning"} /\ sweep \in Handling /\ UNCHANGED <<txs, balance>>
  BY DEF Handling, Hold, AtGate, ResolveWaits, At, chainVars
<1>2. PICK r : Write(r) /\ (r = Abandoned \/ \E waits, b : r = [Saved("in_progress", draft.pos, NoWait)
                                                             EXCEPT !.pending = waits, !.sanity = b])
  <2>1. PICK base : base = Saved("in_progress", draft.pos, NoWait)
    OBVIOUS
  <2>2. base \in Row
    BY <1>1, <2>1, AtHand, NewWaitsAreWaits, SavedIsRow DEF RowStatuses, Live
  <2>3. PICK resolved : resolved = [base EXCEPT !.pending = Unresolved(@)]
    OBVIOUS
  <2>4. resolved = [base EXCEPT !.pending = Unresolved(base.pending), !.sanity = base.sanity]
    BY <2>2, <2>3 DEF Row
  <2>5. PICK held : held = [base EXCEPT !.pending = {}, !.sanity = @ \/ Funded]
    OBVIOUS
  <2>6. held = [base EXCEPT !.pending = {}, !.sanity = base.sanity \/ Funded]
    BY <2>2, <2>5 DEF Row
  <2>7. CASE Hold
    <3>1. Write(held)
      BY <2>1, <2>5, <2>7 DEF Hold
    <3> QED
      BY <2>1, <2>6, <3>1
  <2>8. CASE ResolveWaits /\ sweep' # "planning"
    <3>1. Write(Abandoned) \/ Write(resolved)
      BY <2>1, <2>3, <2>8 DEF ResolveWaits
    <3> QED
      BY <2>1, <2>4, <3>1
  <2> QED
    BY <2>7, <2>8
<1>3. Grown
  BY <1>2, QuietGrows, <1>1 DEF Write
<1>4. CASE r = Abandoned
  BY <1>1, <1>2, <1>3, <1>4, RetriedKept, QuietWriteKept
<1>5. ASSUME NEW waits, NEW b, r = [Saved("in_progress", draft.pos, NoWait) EXCEPT !.pending = waits, !.sanity = b]
      PROVE  IndInv'
  <2>1. PICK base : base = Saved("in_progress", draft.pos, NoWait)
    OBVIOUS
  <2>2. base \in Row /\ base.pos = draft.pos /\ base.status = "in_progress" /\ base.rnc = draft.rnc
    BY <1>1, <2>1, AtHand, NewWaitsAreWaits, SavedIsRow DEF RowStatuses, Live
  <2>3. r.pos = draft.pos /\ r.status = "in_progress" /\ r.rnc = draft.rnc
    BY <1>5, <2>1, <2>2 DEF Row
  <2>4. PICK old : old = draft
    OBVIOUS
  <2>5. old.status \in Live /\ old.status \notin Waiting /\ RowInv(old)'
    BY <1>1, <1>3, <2>4, AtHand, AtHandIsMined, AtHandStays
  <2>6. RowInv(r)'
    BY <2>3, <2>4, <2>5, SamePlace
  <2> QED
    BY <1>1, <1>2, <2>6, QuietWriteKept
<1> QED
  BY <1>2, <1>4, <1>5

\* The end of a funding step: its reserves stay behind it.
LEMMA SaveFundingKept ==
    ASSUME TypeInv, TypeInv', IndInv, SaveFunding
    PROVE  IndInv'
<1>1. sweep = "sending" /\ sweep \in Handling /\ UNCHANGED <<txs, balance>> /\ plan' = plan /\ Grown
  BY QuietGrows DEF SaveFunding, Handling, Write, chainVars
<1>2. PICK old, p : old = draft /\ p = draft.pos
  OBVIOUS
<1>3. /\ old \in Row /\ old.status \in Live /\ old.status \notin Waiting /\ RowInv(old)'
      /\ p \in Position /\ PosOK(p) /\ plan \in Plan /\ NoWait \in Wait
      /\ p.step \in 0 .. 6 /\ p.phase \in 0 .. 4
  BY <1>1, <1>2, AtHand, AtHandIsMined, AtHandStays, NewWaitsAreWaits DEF Position
<1>4. p.step = 4 /\ ~Simple
  <2>1. Task(p) = "plan"
    BY <1>1, <1>2 DEF TypeInv, SweepOK
  <2> QED
    BY <1>3, <2>1, TasksInOrder
<1>5. PICK n \in {4, 5} : n = IF short THEN 4 ELSE 5
  OBVIOUS
<1>6. PICK q : q = [p EXCEPT !.step = n]
  OBVIOUS
<1>7. q \in Position /\ q.step = n
  BY <1>3, <1>6 DEF Position
<1>8. PICK base : base = Saved("in_progress", q, NoWait)
  OBVIOUS
<1>9. base \in Row /\ base.pos = q /\ base.status = "in_progress" /\ base.rnc = old.rnc
  BY <1>2, <1>3, <1>7, <1>8, SavedIsRow DEF RowStatuses, Live
<1>10. PICK waits : waits = IF base.pending = {} THEN newWaits ELSE {}
  OBVIOUS
<1>11. PICK r : r = [base EXCEPT !.pending = waits]
  OBVIOUS
<1>12. Write(r)
  <2>1. Write([Saved("in_progress", [draft.pos EXCEPT !.step = IF short THEN 4 ELSE 5], NoWait)
                 EXCEPT !.pending = IF @ = {} THEN newWaits ELSE {}])
    BY DEF SaveFunding
  <2> QED
    BY <1>2, <1>5, <1>6, <1>8, <1>10, <1>11, <2>1
<1>13. r.pos = q /\ r.status = "in_progress"
  BY <1>9, <1>11 DEF Row
<1>14. /\ Simple' = Simple /\ Task(q)' = Task(q) /\ OnLadder(q)' = OnLadder(q)
       /\ Passed(q)' = Passed(q) /\ Passed(p)' = Passed(p) /\ \A name : Given(name)' = Given(name)
  BY <1>1, PlaceStays
<1>15. /\ ~OnLadder(q) /\ Passed(q) = Passed(p) /\ Task(q) # "identity"
  <2>1. ~InReserves(q) /\ PosOK(q)
    BY <1>4, <1>7 DEF InReserves, PosOK
  <2>2. Task(q) # "identity"
    BY <1>3, <1>4, <1>7, <2>1, TasksInOrder
  <2>3. Passed(q) = Passed(p)
    BY <1>4, <1>7 DEF Passed
  <2> QED
    BY <1>4, <2>1, <2>2, <2>3 DEF OnLadder
<1>16. ASSUME NEW kind, NEW site, Assured(old, kind, site)' PROVE Assured(r, kind, site)'
  BY <1>3, <1>16 DEF Assured
<1>17. /\ Given(Token) \/ Assured(old, "identity", Token)'
       /\ \A c \in Passed(p) : Assured(old, "define", c)'
  <2>1. Behind(old)'
    BY <1>3 DEF RowInv
  <2> QED
    BY <1>2, <1>4, <1>14, <2>1 DEF Behind
<1>18. Behind(r)'
  BY <1>4, <1>7, <1>13, <1>14, <1>15, <1>16, <1>17 DEF Behind
<1>19. RowInv(r)'
  BY <1>13, <1>18 DEF RowInv
<1> QED
  BY <1>1, <1>12, <1>19, QuietWriteKept

\* The calls that send the plan's transfers.
LEMMA TransferKept ==
    ASSUME TypeInv, TypeInv', IndInv, NEW source, SendTransfers(source) \/ SendRefused(source)
    PROVE  IndInv'
<1>1. sweep = "sending" /\ sweep \in Handling
  BY DEF SendTransfers, SendRefused, Paying, Handling
<1>2. PICK kind \in {"commit", "identity", "fund", "define", "transfer"}, site \in {Token} \cup ReserveNames :
        kind = "transfer" /\ site = Token
  OBVIOUS
<1>3. PICK amount : amount = Batch(source)
  OBVIOUS
<1>4. amount \in [Currencies -> Nat]
  BY <1>1, <1>3, BatchIsPlanned
<1>5. plan \in Plan
  BY <1>1, AtHand
<1>6. kind # "identity" /\ kind # "define"
  BY <1>2
<1>7. ASSUME NEW state \in {"executing", "failed", "mempool", "mined"}, Taken(kind, site, amount, state)
      PROVE  /\ Write(RetryOrFailure) \/ Write(Abandoned) => IndInv'
             /\ UNCHANGED <<plan, row, draft>> => IndInv'
  <2>1. ASSUME NEW r, r \in {RetryOrFailure, Abandoned}, Write(r) PROVE IndInv'
    <3>1. plan' = plan
      BY <2>1 DEF Write
    <3>2. Grown
      BY <1>4, <1>7, <3>1, TakenGrows
    <3>3. RowInv(r)'
      BY <1>1, <2>1, <3>2, RetriedKept
    <3> QED
      BY <1>1, <1>4, <1>6, <1>7, <2>1, <3>3, TakenWriteKept
  <2>2. ASSUME UNCHANGED <<plan, row, draft>> PROVE IndInv'
    <3>1. Grown
      BY <1>4, <1>7, <2>2, TakenGrows
    <3>2. \A r \in {row', draft'} : RowInv(r)'
      BY <2>2, <3>1, RowsKept
    <3>3. IdentityOnItsCommitment' /\ DefineLast'
      BY <1>4, <1>5, <1>6, <1>7, <2>2, TakenKept
    <3> QED
      BY <3>2, <3>3 DEF IndInv
  <2> QED
    BY <2>1, <2>2
<1>8. CASE SendRefused(source)
  <2>1. PICK r : r = RetryOrFailure
    OBVIOUS
  <2>2. Write(r) /\ UNCHANGED <<plan, txs, balance>>
    BY <1>8, <2>1 DEF SendRefused, Write, chainVars
  <2>3. RowInv(r)'
    BY <1>1, <2>1, <2>2, QuietGrows, RetriedKept
  <2> QED
    BY <2>2, <2>3, QuietWriteKept
<1>9. CASE SendTransfers(source)
  <2>1. PICK state \in {"executing", "failed", "mempool", "mined"} :
           /\ Taken("transfer", Token, amount, state)
           /\ Write(RetryOrFailure) \/ Write(Abandoned) \/ UNCHANGED <<plan, row, draft>>
    <3>1. ASSUME NEW a \in SendAnswers PROVE a.state \in {"executing", "failed", "mempool", "mined"}
      BY DEF SendAnswers
    <3> QED
      BY <1>3, <1>9, <3>1 DEF SendTransfers
  <2> QED
    BY <1>2, <1>7, <2>1
<1> QED
  BY <1>8, <1>9

\* The definition of a fractional currency.
LEMMA DefineBasketKept ==
    ASSUME TypeInv, TypeInv', IndInv, DefineBasket
    PROVE  IndInv'
<1>1. PICK site, amount, kind : site = Token /\ amount = Nothing /\ kind = "define"
  OBVIOUS
<1>2. PICK task, state : task = Task(draft.pos) /\ state = "mempool"
  OBVIOUS
<1>3. /\ sweep = "planning" /\ sweep \in Handling /\ task = "gate" /\ plan' = plan
      /\ Taken(kind, site, amount, state)
  BY <1>1, <1>2 DEF DefineBasket, AtGate, Handling, Write
<1>4. /\ site \in {Token} \cup ReserveNames /\ plan \in Plan
      /\ amount \in [Currencies -> Nat] /\ \A c \in Currencies : amount[c] <= funds[c]
      /\ kind \in {"commit", "identity", "fund", "define", "transfer"}
      /\ state \in {"executing", "failed", "mempool", "mined"}
  BY <1>1, <1>2, <1>3, AtHand, NothingIsPaid
<1>5. ~Simple /\ site = Site(draft.pos)
  <2>1. PICK p : p = draft.pos
    OBVIOUS
  <2>2. p \in Position /\ PosOK(p) /\ p.phase \in 0 .. 4 /\ Task(p) = "gate"
    BY <1>2, <1>3, <2>1, AtHand DEF Position
  <2>3. ~Simple /\ ~InReserves(p)
    BY <1>4, <2>2, TasksInOrder
  <2> QED
    BY <1>1, <1>4, <2>1, <2>2, <2>3, TasksInOrder
<1>6. ReadyToDefine(site)
  <2>1. Token \notin Created
    BY <1>4, CurrencyAssumption DEF Created, Plan, Currencies
  <2>2. ASSUME NEW c \in Basket PROVE balance[c] + Epsilon >= Required[c]
    <3>1. c \in Currencies
      BY <1>4 DEF Basket, Plan, Currencies
    <3>2. balance[c] \in Nat /\ Epsilon \in Nat /\ Required[c] \in Nat
      BY <3>1, CurrencyAssumption DEF TypeInv, TypeOK
    <3>3. ~Lacks(c)
      BY DEF DefineBasket, Funded
    <3> QED
      BY <3>2, <3>3 DEF Lacks
  <2>3. /\ Given(Token) \/ Mined("identity", Token)
        /\ \A c \in Created : Mined("define", c)
    BY <1>2, <1>3, AtHandIsMined
  <2> QED
    BY <1>1, <1>5, <2>1, <2>2, <2>3 DEF ReadyToDefine
<1>7. kind # "identity"
  BY <1>1
<1>8. Grown
  BY <1>3, <1>4, TakenGrows
<1>9. CASE Write(RetryOrFailure)
  <2>1. PICK r : r = RetryOrFailure
    OBVIOUS
  <2>2. RowInv(r)'
    BY <1>3, <1>8, <2>1, RetriedKept
  <2> QED
    BY <1>3, <1>4, <1>6, <1>7, <1>9, <2>1, <2>2, TakenWriteKept
<1>10. CASE ~Write(RetryOrFailure)
  <2>1. PICK base : base = Advanced(TxWait(NextTx))
    OBVIOUS
  <2>2. task \in Advancing
    BY <1>3 DEF Advancing
  <2>3. /\ base \in Row /\ base.pos = After(draft.pos) /\ base.status = "waiting_confirm"
        /\ base.wait.id = NextTx
    BY <1>2, <1>3, <2>1, <2>2, AdvancedIsOK, NewWaitsAreWaits DEF WellFormed
  <2>4. PICK r : r = [base EXCEPT !.pending = {}, !.sanity = FALSE]
    OBVIOUS
  <2>5. Write(r)
    BY <1>10, <2>1, <2>4 DEF DefineBasket
  <2>6. /\ r.pos = After(draft.pos) /\ r.status \in Waiting /\ r.wait.id = NextTx
        /\ task = "commit" => r.rnc = NextTx
    BY <1>3, <2>3, <2>4 DEF Row, Waiting
  <2>7. kind \in {"commit", "identity", "fund", "define"} /\ task \in {"commit", "identity", "fund", "define", "gate"}
        /\ kind = IF task = "gate" THEN "define" ELSE task
    BY <1>1, <1>3
  <2>8. RowInv(r)'
    BY <1>2, <1>3, <1>4, <1>5, <2>6, <2>7, AdvancedKept
  <2> QED
    BY <1>3, <1>4, <1>6, <1>7, <2>5, <2>8, TakenWriteKept
<1> QED
  BY <1>9, <1>10

\* The daemon, the chain, the sources and the clock.
LEMMA WorldKept ==
    ASSUME TypeInv, TypeInv', IndInv,
           \/ BackoffElapses
           \/ \E i \in DOMAIN txs : OperationSucceeds(i) \/ OperationFails(i) \/ Mine(i) \/ OperationForgotten(i)
           \/ \E c \in Currencies : Refill(c)
    PROVE  IndInv'
<1>1. CASE BackoffElapses
  <2>1. PICK old, r : old = row /\ r = [row EXCEPT !.backoff = FALSE]
    OBVIOUS
  <2>2. /\ row' = r /\ draft' = draft /\ UNCHANGED <<plan, txs, balance>> /\ old \in Row
    BY <1>1, <2>1 DEF BackoffElapses, jobVars, chainVars, TypeInv, TypeOK
  <2>3. r.status = old.status /\ r.pos = old.pos /\ r.wait = old.wait /\ r.rnc = old.rnc
    BY <2>1, <2>2 DEF Row
  <2>4. Grown /\ DOMAIN txs' = DOMAIN txs
    BY <2>2, QuietGrows
  <2>5. PICK other : other = draft
    OBVIOUS
  <2>6. RowInv(old)' /\ RowInv(other)'
    BY <2>1, <2>4, <2>5, RowInvStays DEF IndInv
  <2>7. RowInv(r)'
    BY <2>3, <2>6 DEF RowInv, Behind, CommitKept, Assured
  <2>8. \A s \in {row', draft'} : RowInv(s)'
    BY <2>2, <2>5, <2>6, <2>7
  <2>9. IdentityOnItsCommitment' /\ DefineLast'
    BY <2>4, ChainKept
  <2> QED
    BY <2>8, <2>9 DEF IndInv
<1>2. ASSUME Grown, DOMAIN txs' = DOMAIN txs, UNCHANGED <<plan, row, sweep, jobVars>>
      PROVE  IndInv'
  <2>1. row' = row /\ draft' = draft
    BY <1>2 DEF jobVars
  <2>2. \A r \in {row', draft'} : RowInv(r)'
    BY <1>2, <2>1, RowsKept
  <2>3. IdentityOnItsCommitment' /\ DefineLast'
    BY <1>2, ChainKept
  <2> QED
    BY <2>2, <2>3 DEF IndInv
<1>3. txs \in Seq(Tx) /\ \A c \in Currencies : balance[c] \in Nat /\ balance[c] >= balance[c]
  BY DEF TypeInv, TypeOK
<1>4. ASSUME NEW i \in DOMAIN txs, OperationSucceeds(i) \/ OperationFails(i) \/ Mine(i) PROVE IndInv'
  <2>1. PICK state \in {"executing", "failed", "mempool", "mined"} :
           Move(i, state) /\ (txs[i].state = "mined" => state = "mined")
    BY <1>4 DEF OperationSucceeds, OperationFails, Mine
  <2>2. /\ DOMAIN txs' = DOMAIN txs
        /\ \A j \in DOMAIN txs : /\ txs'[j].kind = txs[j].kind /\ txs'[j].site = txs[j].site
                                 /\ txs'[j].rnc = txs[j].rnc
                                 /\ txs'[j].state = IF j = i THEN state ELSE txs[j].state
    BY <1>3, <2>1, MoveType
  <2>3. \A c \in Currencies : balance'[c] >= balance[c]
    <3>1. CASE balance' = balance
      BY <1>3, <3>1
    <3>2. CASE Mine(i)
      <4>1. txs[i].amount \in [Currencies -> Nat]
        <5>1. txs[i] \in Tx
          BY <1>3, ElementOfSeq
        <5> QED
          BY <5>1 DEF Tx
      <4>2. PICK amount \in [Currencies -> Nat] : amount = txs[i].amount
        BY <4>1
      <4>3. balance' = [c \in Currencies |-> balance[c] + amount[c]]
        BY <3>2, <4>2 DEF Mine
      <4>4. \A c \in Currencies : balance[c] + amount[c] >= balance[c]
        BY <1>3
      <4> QED
        BY <4>3, <4>4
    <3> QED
      BY <1>4, <3>1, <3>2 DEF OperationSucceeds, OperationFails
  <2>4. UNCHANGED <<plan, row, sweep, jobVars>>
    BY <1>4 DEF OperationSucceeds, OperationFails, Mine
  <2>5. Grown
    BY <2>1, <2>2, <2>3, <2>4 DEF Grown
  <2> QED
    BY <1>2, <2>2, <2>4, <2>5
<1>5. ASSUME UNCHANGED <<plan, row, sweep, jobVars, txs, balance>> PROVE IndInv'
  BY <1>2, <1>5, QuietGrows
<1>6. ASSUME NEW i \in DOMAIN txs, OperationForgotten(i) PROVE IndInv'
  BY <1>5, <1>6 DEF OperationForgotten
<1>7. ASSUME NEW c \in Currencies, Refill(c) PROVE IndInv'
  BY <1>5, <1>7 DEF Refill
<1> QED
  BY <1>1, <1>4, <1>6, <1>7

\* Every step keeps the invariant.
LEMMA NextKept ==
    ASSUME TypeInv, TypeInv', IndInv, [Next]_vars
    PROVE  IndInv'
<1>1. CASE Sweep
  BY <1>1, ReadKept, PollKept, PassKept, SubmitKept, FundKept, WaitingKept, SaveFundingKept, TransferKept,
     DefineBasketKept DEF Sweep, EmptySweep
<1>2. CASE Operations \/ Mining
  BY <1>2, WorldKept DEF Operations, Mining
<1> QED
  BY <1>1, <1>2, ApiKept, ReadKept, WorldKept DEF Next

\* At every state, what the position of the row says has been done has been done: the
\* commitment it keeps is one for the name at hand, and what is behind it on the ladder
\* is confirmed, or is what the row waits for.  This is the inductive invariant the
\* theorems below rest on (worker_currency_creation.py, process_currency_once and
\* the steps of both workflows).
THEOREM CurrencyInductive == Spec => [](TypeInv /\ IndInv)
<1>1. Init => TypeInv /\ IndInv
  <2>1. ASSUME Init PROVE IndInv
    <3>1. row = AbsentRow /\ draft = AbsentRow /\ txs = <<>>
      BY <2>1 DEF Init
    <3>2. IdentityOnItsCommitment /\ DefineLast
      BY <3>1 DEF IdentityOnItsCommitment, DefineLast
    <3> QED
      BY <3>1, <3>2, AbsentSaysNothing DEF IndInv
  <2> QED
    BY <2>1, InitType
<1>2. TypeInv /\ IndInv /\ [Next]_vars => TypeInv' /\ IndInv'
  BY NextType, NextKept
<1> QED
  BY <1>1, <1>2, PTL DEF Spec

\* An identity is registered on a confirmed commitment for its own name, although one
\* row keeps the commitments of one name after the other, answers are lost and steps
\* are retried: whatever the number of reserves, losses and retries.
THEOREM IdentitiesAreCommitted == Spec => []IdentityOnItsCommitment
<1>1. TypeInv /\ IndInv => IdentityOnItsCommitment
  BY DEF IndInv
<1> QED
  BY <1>1, CurrencyInductive, PTL

\* A currency is defined on an identity that exists and has been paid for; a fractional
\* one only over reserves that are defined, with all its balances confirmed.
THEOREM DefinitionsComeLast == Spec => []DefineLast
<1>1. TypeInv /\ IndInv => DefineLast
  BY DEF IndInv
<1> QED
  BY <1>1, CurrencyInductive, PTL

\* A request is only reported complete when its currency is defined in the chain.
THEOREM CompleteAreDefined == Spec => []CompleteIsDefined
<1>1. TypeInv /\ IndInv => CompleteIsDefined
  BY DEF IndInv, RowInv, CompleteIsDefined
<1> QED
  BY <1>1, CurrencyInductive, PTL

=============================================================================
