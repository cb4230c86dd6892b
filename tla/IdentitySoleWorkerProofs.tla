---------------------- MODULE IdentitySoleWorkerProofs ----------------------
(***************************************************************************)
(* Theorems about IdentityWorkflow that need sweeps not to overlap: the    *)
(* worker runs as one process, whose loop starts a sweep when the one      *)
(* before it has ended.  (Sweeps that overlap act on each other's stale    *)
(* snapshots and break them.)  Requests, names and retry limits are any.   *)
(***************************************************************************)
EXTENDS IdentityWorkflowProofs

\* There is at most one worker process.
SoleWorker == \A v, w \in Workers : v = w

-----------------------------------------------------------------------------
(* The inductive invariant.                                                *)

\* A failed row, and no other, has used up its attempts.
Budgeted(row) ==
    row.status # "absent" =>
        /\ row.attempts <= MaxRetries
        /\ row.status = "failed" <=> row.attempts = MaxRetries

\* What the receiver was told of a row is its status, and a row marked as
\* delivered has that status acknowledged.
Told(row, r) ==
    /\ row.status # "absent" => received[r] \subseteq {row.status}
    /\ row.delivered => row.status \in acked[r]

\* One sweep takes a row at most one rung further and forgets none of its errors.
Climbs(old, new) ==
    \/ new.status = old.status /\ new.attempts >= old.attempts
    \/ new.status \in Lifecycle!Successors(old.status)

\* A snapshot still agrees with its row, if that is not deleted; one of a row on
\* the ladder was not handled yet, so nobody has changed the row since.
Fresh(item) ==
    Exists(item.id) =>
        /\ reg[item.id].status = item.status
        /\ item.status \in Live => reg[item.id].attempts = item.attempts /\ holder[item.id] = NoWorker

\* The rows, as committed and as the sweep left them, ...
RowsInv ==
    \A r \in Requests :
        /\ Budgeted(reg[r]) /\ Budgeted(draft[r])
        /\ Told(reg[r], r) /\ Told(draft[r], r)
        /\ Climbs(reg[r], draft[r])
        /\ received[r] # {} => post[r] = "stored"
        /\ holder[r] # NoWorker => phase[holder[r]] = "work"

\* ... and what the sweep remembers of them.
SweepInv ==
    \A w \in Workers :
        /\ \A item \in todo[w] : Fresh(item)
        /\ doing[w] # NoItem => phase[w] = "work"
        /\ doing[w] # NoItem /\ answer[w] = "ok" => doing[w].status \in acked[doing[w].id]

\* What one worker at a time keeps.
SoleInv == RowsInv /\ SweepInv

-----------------------------------------------------------------------------
(* Facts about one row.                                                    *)

\* No stage leads back to itself or to an absent row, and none follows "complete" or "failed".
LEMMA LadderIsOneWay ==
    ASSUME NEW s \in Statuses, NEW t \in Statuses, t \in Lifecycle!Successors(s)
    PROVE  s \in Live /\ t # s /\ t # "absent"
  BY DEF Lifecycle!Successors, Lifecycle!Terminal, Statuses, Live, Terminal

\* The row of a sweep that has just recorded an answer is at most one rung ahead.
LEMMA RecordedClimbs ==
    ASSUME TypeInv, NEW item \in Item, NEW row \in Row, NEW a \in AnswersFor(item.status),
           a # "insufficient",
           row.status = item.status,
           item.status \in Live => row.attempts = item.attempts,
           Budgeted(row)
    PROVE  /\ Climbs(row, Recorded(row, item, a))
           /\ Budgeted(Recorded(row, item, a))
           /\ Recorded(row, item, a).delivered = row.delivered \/ a = "ok"
           /\ item.status \in Terminal => Recorded(row, item, a).status = row.status
<1>0. /\ item.status \in Live \cup Terminal /\ item.attempts \in Nat
      /\ row.attempts \in Nat /\ row.webhookAttempts \in Nat
      /\ MaxRetries \in Nat /\ MaxRetries >= 1
  BY ConstantsAssumption DEF Item, Row
<1>1. ASSUME NEW s \in Live \cup {"complete"}
      PROVE  /\ Promoted(row, s).status = s /\ Promoted(row, s).attempts = 0
             /\ Promoted(row, s).delivered = row.delivered
             /\ Budgeted(Promoted(row, s))
  <2>1. /\ Promoted(row, s).status = s /\ Promoted(row, s).attempts = 0
        /\ Promoted(row, s).delivered = row.delivered
    BY DEF Promoted, Row
  <2>2. s # "failed"
    BY DEF Live
  <2> QED
    BY <1>0, <2>1, <2>2 DEF Budgeted
<1>2. CASE a = "confirmed" /\ item.status = "pending_rnc_confirm"
  <2>1. Recorded(row, item, a) = Promoted(row, "ready_for_idr")
    BY <1>2 DEF Recorded
  <2>2. "ready_for_idr" \in Lifecycle!Successors("pending_rnc_confirm")
    BY DEF Lifecycle!Successors, Lifecycle!Terminal
  <2> QED
    BY <1>1, <1>2, <2>1, <2>2 DEF Climbs, Live, Terminal
<1>3. CASE a = "confirmed" /\ item.status = "idr_submitted"
  <2>1. Recorded(row, item, a) = Promoted(row, "complete")
    BY <1>3 DEF Recorded
  <2>2. "complete" \in Lifecycle!Successors("idr_submitted")
    BY DEF Lifecycle!Successors, Lifecycle!Terminal
  <2> QED
    BY <1>1, <1>3, <2>1, <2>2 DEF Climbs, Terminal
<1>4. CASE a = "accepted"
  <2>1. PICK mid : mid = Promoted(row, "idr_submitted")
    OBVIOUS
  <2>2. mid \in Row
    BY <2>1 DEF Promoted, Row, Statuses, Live
  <2>3. Recorded(row, item, a) = [mid EXCEPT !.idr_txid = TRUE]
    BY <1>4, <2>1 DEF Recorded
  <2>4. /\ [mid EXCEPT !.idr_txid = TRUE].status = mid.status
        /\ [mid EXCEPT !.idr_txid = TRUE].attempts = mid.attempts
        /\ [mid EXCEPT !.idr_txid = TRUE].delivered = mid.delivered
    BY <2>2 DEF Row
  <2>5. item.status = "ready_for_idr" /\ "idr_submitted" \in Lifecycle!Successors("ready_for_idr")
    BY <1>4 DEF AnswersFor, Lifecycle!Successors, Lifecycle!Terminal
  <2>6. mid.status = "idr_submitted" /\ mid.delivered = row.delivered /\ Budgeted(mid)
    BY <1>1, <2>1 DEF Live
  <2>7. Budgeted([mid EXCEPT !.idr_txid = TRUE])
    BY <2>4, <2>6 DEF Budgeted
  <2> QED
    BY <2>3, <2>4, <2>5, <2>6, <2>7 DEF Climbs, Terminal
<1>5. CASE a = "exists"
  <2>1. Recorded(row, item, a) = Promoted(row, "complete")
    BY <1>5 DEF Recorded
  <2>2. item.status = "ready_for_idr" /\ "complete" \in Lifecycle!Successors("ready_for_idr")
    BY <1>5 DEF AnswersFor, Lifecycle!Successors, Lifecycle!Terminal
  <2> QED
    BY <1>1, <2>1, <2>2 DEF Climbs, Terminal
<1>6. CASE a = "ok"
  <2>1. /\ Recorded(row, item, a).status = row.status
        /\ Recorded(row, item, a).attempts = row.attempts
    BY <1>6 DEF Recorded, Row
  <2> QED
    BY <1>0, <1>6, <2>1 DEF Climbs, Budgeted
<1>7. CASE a = "error" /\ item.status \in Live
  <2>1. Recorded(row, item, a) = RetryOrFailure(row, item.attempts, item.status)
    BY <1>7 DEF Recorded, Live, Terminal
  <2>2. PICK more \in Nat : more = item.attempts + 1
    BY <1>0
  <2>3. item.attempts < MaxRetries
    <3>1. item.status # "failed" /\ item.status # "absent"
      BY <1>7 DEF Live
    <3> QED
      BY <1>0, <1>7, <3>1 DEF Budgeted
  <2>4. more >= row.attempts /\ more <= MaxRetries
    BY <1>0, <1>7, <2>2, <2>3
  <2>5. "failed" \in Lifecycle!Successors(item.status)
    BY <1>7 DEF Lifecycle!Successors, Lifecycle!Terminal, Live
  <2>6. CASE more >= MaxRetries
    <3>1. /\ Recorded(row, item, a).status = "failed" /\ Recorded(row, item, a).attempts = more
          /\ Recorded(row, item, a).delivered = row.delivered
      BY <2>1, <2>2, <2>6 DEF RetryOrFailure, Row
    <3>2. more = MaxRetries
      BY <1>0, <2>4, <2>6
    <3>3. Budgeted(Recorded(row, item, a))
      BY <1>0, <3>1, <3>2 DEF Budgeted
    <3> QED
      BY <1>7, <2>5, <3>1, <3>3 DEF Climbs, Live, Terminal
  <2>7. CASE ~(more >= MaxRetries)
    <3>1. /\ Recorded(row, item, a).status = item.status /\ Recorded(row, item, a).attempts = more
          /\ Recorded(row, item, a).delivered = row.delivered
      BY <2>1, <2>2, <2>7 DEF RetryOrFailure, Row
    <3>2. more # MaxRetries
      BY <1>0, <2>7
    <3>3. item.status # "failed"
      BY <1>7 DEF Live
    <3>4. Budgeted(Recorded(row, item, a))
      BY <2>4, <3>1, <3>2, <3>3 DEF Budgeted
    <3> QED
      BY <2>4, <3>1, <3>4 DEF Climbs
  <2> QED
    BY <2>6, <2>7
<1>8. CASE a = "error" /\ item.status \in Terminal
  <2>1. Recorded(row, item, a) = WebhookRetryOrFailure(row, item.attempts)
    BY <1>8 DEF Recorded, Live, Terminal
  <2>2. /\ Recorded(row, item, a).status = row.status
        /\ Recorded(row, item, a).attempts = row.attempts
        /\ Recorded(row, item, a).delivered = row.delivered
    BY <2>1 DEF WebhookRetryOrFailure, Row
  <2> QED
    BY <1>0, <2>2 DEF Climbs, Budgeted
<1> QED
  BY <1>0, <1>2, <1>3, <1>4, <1>5, <1>6, <1>7, <1>8 DEF AnswersFor

-----------------------------------------------------------------------------
(* Every step keeps the invariant.                                         *)

\* Without rows and sweeps the invariant says nothing.
LEMMA InitSole == Init => SoleInv
<1> SUFFICES ASSUME Init PROVE SoleInv
  OBVIOUS
<1>1. AbsentRow.status = "absent" /\ AbsentRow.attempts = 0 /\ AbsentRow.delivered = FALSE
  BY DEF AbsentRow
<1>2. RowsInv
  BY <1>1, ConstantsAssumption DEF Init, RowsInv, Budgeted, Told, Climbs
<1>3. SweepInv
  BY DEF Init, SweepInv
<1> QED
  BY <1>2, <1>3 DEF SoleInv

\* What happens to neither the rows, the sweeps nor the receiver.
LEMMA QuietSole ==
    ASSUME TypeInv, SoleInv, UNCHANGED <<dbVars, sweepVars, hookVars>>,
           \A r \in Requests : post[r] = "stored" => post'[r] = "stored"
    PROVE  SoleInv'
<1>1. /\ reg' = reg /\ draft' = draft /\ holder' = holder /\ received' = received /\ acked' = acked
      /\ phase' = phase /\ todo' = todo /\ doing' = doing /\ answer' = answer
  BY DEF dbVars, sweepVars, hookVars
<1>2. RowsInv'
  BY <1>1 DEF SoleInv, RowsInv, Budgeted, Told, Climbs
<1>3. SweepInv'
  BY <1>1 DEF SoleInv, SweepInv, Fresh, Exists
<1> QED
  BY <1>2, <1>3 DEF SoleInv

\* A statement of the API that deletes a row, stores a new one, or leaves status
\* and attempts as they are.
LEMMA ApiWriteSole ==
    ASSUME TypeInv, IndInv, SoleInv, UNCHANGED <<sweepVars, hookVars>>,
           \A r \in Requests : post[r] = "stored" => post'[r] = "stored",
           NEW q \in Requests, NEW row \in Row, ApiWrite(q, row),
           Budgeted(row), Told(row, q),
           \/ row.status = "absent"
           \/ post[q] # "stored"
           \/ row.status = reg[q].status /\ row.attempts = reg[q].attempts
    PROVE  SoleInv'
<1> USE DEF TypeInv, TypeOK
<1>0. /\ reg'[q] = row /\ draft'[q] = row /\ holder' = holder /\ holder[q] = NoWorker
      /\ \A r \in Requests \ {q} : reg'[r] = reg[r] /\ draft'[r] = draft[r]
  BY DEF ApiWrite
<1>1. /\ received' = received /\ acked' = acked
      /\ phase' = phase /\ todo' = todo /\ doing' = doing /\ answer' = answer
  BY DEF sweepVars, hookVars
<1>2. ASSUME NEW r \in Requests
      PROVE  /\ Budgeted(reg'[r]) /\ Budgeted(draft'[r])
             /\ Told(reg[r], r)' /\ Told(draft[r], r)'
             /\ Climbs(reg'[r], draft'[r])
             /\ received'[r] # {} => post'[r] = "stored"
             /\ holder'[r] # NoWorker => phase'[holder'[r]] = "work"
  <2>1. received'[r] # {} => post'[r] = "stored"
    BY <1>1 DEF SoleInv, RowsInv
  <2>2. holder'[r] # NoWorker => phase'[holder'[r]] = "work"
    BY <1>0, <1>1 DEF SoleInv, RowsInv
  <2>3. CASE r = q
    <3>1. Climbs(row, row)
      BY DEF Climbs, Row
    <3> QED
      BY <1>0, <1>1, <2>1, <2>2, <2>3, <3>1 DEF Told
  <2>4. CASE r # q
    BY <1>0, <1>1, <2>1, <2>2, <2>4 DEF SoleInv, RowsInv, Told
  <2> QED
    BY <2>3, <2>4
<1>3. RowsInv'
  BY <1>2 DEF RowsInv, Budgeted, Climbs
<1>4. ASSUME NEW w \in Workers, NEW item \in todo'[w] PROVE Fresh(item)'
  <2>1. item \in todo[w] /\ item \in Item /\ item.id \in Requests /\ Fresh(item) /\ post[item.id] = "stored"
    BY <1>1 DEF SoleInv, SweepInv, Item, IndInv, ItemFacts
  <2>2. CASE item.id = q
    BY <1>0, <2>1, <2>2 DEF Fresh, Exists
  <2>3. CASE item.id # q
    BY <1>0, <2>1, <2>3 DEF Fresh, Exists
  <2> QED
    BY <2>2, <2>3
<1>5. SweepInv'
  BY <1>1, <1>4 DEF SoleInv, SweepInv
<1> QED
  BY <1>3, <1>5 DEF SoleInv

\* The handlers of the API.
LEMMA ApiSole ==
    ASSUME TypeInv, IndInv, SoleInv, NEW r \in Requests, Api(r)
    PROVE  SoleInv'
<1> USE DEF TypeInv, TypeOK
<1>1. CASE Precheck(r) \/ Commitment(r) \/ InsertLost(r) \/ RequeueCheck(r)
  BY <1>1, QuietSole DEF Precheck, Commitment, InsertLost, RequeueCheck, apiVars
<1>2. CASE InsertRegistration(r)
  <2>1. PICK row : row = [AbsentRow EXCEPT !.status = "pending_rnc_confirm"]
    OBVIOUS
  <2>2. row \in Row /\ row.status = "pending_rnc_confirm" /\ row.attempts = 0 /\ row.delivered = FALSE
    BY <2>1, AbsentRowType DEF Row, Statuses, Live, AbsentRow
  <2>3. post[r] # "stored" /\ received[r] = {}
    BY <1>2 DEF InsertRegistration, SoleInv, RowsInv
  <2>4. Budgeted(row) /\ Told(row, r)
    BY <2>2, <2>3, ConstantsAssumption DEF Budgeted, Told
  <2>5. /\ ApiWrite(r, row) /\ UNCHANGED <<sweepVars, hookVars>>
        /\ \A q \in Requests : post[q] = "stored" => post'[q] = "stored"
    BY <1>2, <2>1 DEF InsertRegistration
  <2> QED
    BY <2>2, <2>3, <2>4, <2>5, ApiWriteSole
<1>3. CASE DeleteRegistration(r)
  <2>1. AbsentRow.status = "absent" /\ AbsentRow.delivered = FALSE
    BY DEF AbsentRow
  <2>2. Budgeted(AbsentRow) /\ Told(AbsentRow, r)
    BY <2>1 DEF Budgeted, Told
  <2>3. ApiWrite(r, AbsentRow) /\ UNCHANGED <<sweepVars, hookVars>> /\ UNCHANGED post
    BY <1>3 DEF DeleteRegistration, apiVars
  <2> QED
    BY <2>1, <2>2, <2>3, AbsentRowType, ApiWriteSole
<1>4. CASE RequeueReset(r)
  <2>1. CASE UNCHANGED dbVars
    BY <1>4, <2>1, QuietSole DEF RequeueReset
  <2>2. CASE ~UNCHANGED dbVars
    <3>1. PICK row :
             row = [reg[r] EXCEPT !.delivered = FALSE, !.webhookAttempts = 0, !.webhookBackoff = FALSE]
      OBVIOUS
    <3>0. \A old \in Row :
             LET new == [old EXCEPT !.delivered = FALSE, !.webhookAttempts = 0, !.webhookBackoff = FALSE]
             IN  /\ new \in Row /\ new.status = old.status
                 /\ new.attempts = old.attempts /\ new.delivered = FALSE
      BY DEF Row
    <3>2. /\ row \in Row /\ row.status = reg[r].status
          /\ row.attempts = reg[r].attempts /\ row.delivered = FALSE
      BY <3>0, <3>1
    <3>3. ApiWrite(r, row) /\ UNCHANGED <<sweepVars, hookVars>> /\ UNCHANGED post
      BY <1>4, <2>2, <3>1 DEF RequeueReset
    <3>4. Budgeted(row) /\ Told(row, r)
      BY <3>2 DEF SoleInv, RowsInv, Budgeted, Told
    <3> QED
      BY <3>2, <3>3, <3>4, ApiWriteSole
  <2> QED
    BY <2>1, <2>2
<1> QED
  BY <1>1, <1>2, <1>3, <1>4 DEF Api

\* A SELECT takes snapshots of rows that no sweep has locked.
LEMMA SelectSole ==
    ASSUME TypeInv, SoleInv, SoleWorker, NEW w \in Workers, NEW from \in Phases \ {"work"}, NEW to,
           NEW rows \in SUBSET Item, Select(w, from, to, rows),
           \A item \in rows : /\ item.status = reg[item.id].status
                              /\ item.status \in Live => item.attempts = reg[item.id].attempts
    PROVE  SoleInv'
<1> USE DEF TypeInv, TypeOK
<1>0. UNCHANGED <<dbVars, post, rowVars, hookVars>> /\ todo' = [todo EXCEPT ![w] = @ \cup rows]
  BY DEF Select, apiVars
<1>1. /\ reg' = reg /\ draft' = draft /\ holder' = holder /\ received' = received /\ acked' = acked
      /\ doing' = doing /\ answer' = answer
  BY <1>0 DEF dbVars, rowVars, hookVars
<1>2. \A r \in Requests : holder[r] = NoWorker
  <2>1. ASSUME NEW r \in Requests, holder[r] # NoWorker PROVE FALSE
    <3>1. holder[r] = w /\ phase[w] = "work"
      BY <2>1 DEF SoleWorker, SoleInv, RowsInv
    <3> QED
      BY <3>1 DEF Select
  <2> QED
    BY <2>1
<1>3. RowsInv'
  BY <1>0, <1>1, <1>2 DEF SoleInv, RowsInv, Budgeted, Told, Climbs
<1>4. ASSUME NEW v \in Workers, NEW item \in todo'[v] PROVE Fresh(item)'
  <2>1. item \in todo[v] \/ item \in rows
    BY <1>0
  <2>2. item \in Item /\ item.id \in Requests
    BY <2>1 DEF Item
  <2> QED
    BY <1>1, <1>2, <2>1, <2>2 DEF SoleInv, SweepInv, Fresh, Exists
<1>5. \A v \in Workers : doing'[v] = NoItem
  BY <1>1 DEF SoleWorker, SoleInv, SweepInv, Select
<1>6. SweepInv'
  BY <1>4, <1>5 DEF SweepInv
<1> QED
  BY <1>3, <1>6 DEF SoleInv

\* The remote call for a row, and what it tells the receiver.
LEMMA CallSole ==
    ASSUME TypeInv, IndInv, SoleInv, NEW w \in Workers, NEW item \in todo[w], Call(w, item)
    PROVE  SoleInv'
<1> USE DEF TypeInv, TypeOK
<1>0. item \in Item /\ item.id \in Requests /\ Fresh(item) /\ post[item.id] = "stored"
  BY DEF SoleInv, SweepInv, Item, IndInv, ItemFacts
<1>1. /\ UNCHANGED <<dbVars, post, phase>>
      /\ \A v \in Workers : todo'[v] \subseteq todo[v]
  BY DEF Call, AskConfirmations, RegisterAccepted, RegisterRefused, RegisterInsufficient,
         PostAccepted, PostRefused, apiVars
<1>2. /\ \A r \in Requests : /\ acked[r] \subseteq acked'[r]
                             /\ r # item.id => received'[r] = received[r]
      /\ received'[item.id] \subseteq received[item.id] \cup ({item.status} \cap Terminal)
  BY <1>0 DEF Call, AskConfirmations, RegisterAccepted, RegisterRefused, RegisterInsufficient,
              PostAccepted, PostRefused, hookVars
<1>3. /\ \A v \in Workers \ {w} : doing'[v] = doing[v] /\ answer'[v] = answer[v]
      /\ \/ doing'[w] = doing[w] /\ answer'[w] = answer[w]
         \/ answer'[w] # "ok"
         \/ doing'[w] = item /\ item.status \in acked'[item.id]
  BY <1>0 DEF Call, AskConfirmations, RegisterAccepted, RegisterRefused, RegisterInsufficient,
              PostAccepted, PostRefused, Answered
<1>4. reg' = reg /\ draft' = draft /\ holder' = holder
  BY <1>1 DEF dbVars
<1>5. ASSUME NEW r \in Requests PROVE Told(reg[r], r)' /\ Told(draft[r], r)'
  <2>1. Told(reg[r], r) /\ Told(draft[r], r) /\ Climbs(reg[r], draft[r])
    BY DEF SoleInv, RowsInv
  <2>2. CASE received'[r] \subseteq received[r]
    BY <1>2, <1>4, <2>1, <2>2 DEF Told
  <2>3. CASE ~(received'[r] \subseteq received[r])
    <3>1. r = item.id /\ received'[r] \subseteq received[r] \cup {item.status} /\ item.status \in Terminal
      BY <1>2, <2>3
    <3>2. reg[r].status # "absent" => reg[r].status = item.status
      BY <1>0, <3>1 DEF Fresh, Exists
    <3>3. draft[r].status # "absent" => draft[r].status = item.status
      <4>1. reg[r] \in Row /\ draft[r] \in Row
        OBVIOUS
      <4>2. CASE reg[r].status = "absent"
        <5>1. holder[r] = NoWorker /\ draft[r] = reg[r]
          BY <4>2 DEF IndInv, LockFacts, Exists
        <5> QED
          BY <4>2, <5>1
      <4>3. CASE reg[r].status = item.status
        <5>1. draft[r].status = reg[r].status \/ reg[r].status \in Live
          BY <2>1, <4>1, LadderIsOneWay DEF Climbs, Row
        <5> QED
          BY <3>1, <4>3, <5>1 DEF Live, Terminal
      <4> QED
        BY <3>2, <4>2, <4>3
    <3> QED
      BY <1>2, <1>4, <2>1, <3>1, <3>2, <3>3 DEF Told
  <2> QED
    BY <2>2, <2>3
<1>6. RowsInv'
  <2>1. ASSUME NEW r \in Requests, received'[r] # {} PROVE post'[r] = "stored"
    <3>1. received[r] # {} \/ r = item.id
      BY <1>2, <2>1
    <3> QED
      BY <1>0, <1>1, <3>1 DEF SoleInv, RowsInv
  <2> QED
    BY <1>1, <1>4, <1>5, <2>1 DEF SoleInv, RowsInv, Budgeted, Climbs
<1>7. ASSUME NEW v \in Workers, NEW i \in todo'[v] PROVE Fresh(i)'
  BY <1>1, <1>4 DEF SoleInv, SweepInv, Fresh, Exists
<1>8. ASSUME NEW v \in Workers, doing'[v] # NoItem, answer'[v] = "ok"
      PROVE  doing'[v].status \in acked'[doing'[v].id]
  <2>1. CASE doing'[v] = doing[v] /\ answer'[v] = answer[v]
    <3>1. doing[v].id \in Requests
      BY <1>8, <2>1 DEF Item
    <3> QED
      BY <1>2, <1>8, <2>1, <3>1 DEF SoleInv, SweepInv
  <2> QED
    BY <1>3, <1>8, <2>1
<1>9. ASSUME NEW v \in Workers, doing'[v] # NoItem PROVE phase'[v] = "work"
  <2>1. phase[w] = "work"
    BY ConstantsAssumption, <1>0
       DEF Call, AskConfirmations, RegisterAccepted, RegisterRefused, RegisterInsufficient,
           PostAccepted, PostRefused, MayRegister, IsNext, SoleInv, SweepInv
  <2> QED
    BY <1>1, <1>3, <1>9, <2>1 DEF SoleInv, SweepInv
<1> QED
  BY <1>6, <1>7, <1>8, <1>9 DEF SoleInv, SweepInv

\* Recording an answer: the row moves on, and no other snapshot of it is left.
LEMMA RecordSole ==
    ASSUME TypeInv, TypeInv', IndInv, SoleInv, SoleWorker, NEW w \in Workers, Record(w)
    PROVE  SoleInv'
<1> USE DEF TypeInv, TypeOK
<1> DEFINE item == doing[w]
           q == item.id
<1>0. /\ item \in Item /\ q \in Requests /\ item \in todo[w] /\ Fresh(item)
      /\ answer[w] \in AnswersFor(item.status) /\ answer[w] # "insufficient"
      /\ item.status \in Live \cup Terminal
  BY DEF Record, DoingOK, SoleInv, SweepInv, Item
<1>1. /\ UNCHANGED <<reg, post, phase, received, acked>>
      /\ \A v \in Workers : todo'[v] \subseteq todo[v] \ {item}
      /\ \A v \in Workers : doing'[v] = NoItem
      /\ WorkerWrite(w, q, Recorded(draft[q], item, answer[w]))
  BY DEF Record, RowDone, SoleWorker, WorkerWrite, dbVars, apiVars, hookVars
<1>2. ASSUME draft[q].status = "absent" PROVE SoleInv'
  <2>1. draft' = draft /\ holder' = holder
    BY <1>1, <1>2 DEF WorkerWrite, dbVars
  <2>2. RowsInv'
    BY <1>1, <2>1 DEF SoleInv, RowsInv, Budgeted, Told, Climbs
  <2>3. SweepInv'
    BY <1>1, <2>1 DEF SoleInv, SweepInv, Fresh, Exists
  <2> QED
    BY <2>2, <2>3 DEF SoleInv
<1>3. ASSUME draft[q].status # "absent" PROVE SoleInv'
  <2>1. /\ draft' = [draft EXCEPT ![q] = Recorded(draft[q], item, answer[w])]
        /\ holder' = [holder EXCEPT ![q] = w]
    BY <1>1, <1>3 DEF WorkerWrite
  <2>2. /\ RowFacts(reg[q], q) /\ RowFacts(draft[q], q) /\ LockFacts(q)
        /\ Budgeted(draft[q]) /\ Told(reg[q], q) /\ Told(draft[q], q) /\ Climbs(reg[q], draft[q])
        /\ reg[q] \in Row /\ draft[q] \in Row
    BY <1>0 DEF IndInv, SoleInv, RowsInv
  <2>3. reg[q].status = item.status
    <3>1. Exists(q)
      BY <1>3, <2>2 DEF LockFacts, Exists
    <3> QED
      BY <1>0, <3>1 DEF Fresh
  <2>4. item.status \in Live => draft[q] = reg[q] /\ draft[q].attempts = item.attempts
    BY <1>0, <1>3, <2>2, <2>3 DEF Fresh, LockFacts, Exists
  <2>5. draft[q].status = item.status
    <3>1. CASE item.status \in Live
      BY <2>3, <2>4, <3>1
    <3>2. CASE item.status \in Terminal
      <4>1. item.status \notin Live
        BY <3>2 DEF Live, Terminal
      <4> QED
        BY <2>2, <2>3, <4>1, LadderIsOneWay DEF Climbs, Row
    <3> QED
      BY <1>0, <3>1, <3>2
  <2>6. PICK new : new = Recorded(draft[q], item, answer[w])
    OBVIOUS
  <2>7. /\ new \in Row /\ Climbs(draft[q], new) /\ Budgeted(new)
        /\ new.delivered = draft[q].delivered \/ answer[w] = "ok"
        /\ item.status \in Terminal => new.status = draft[q].status
    <3> HIDE DEF TypeInv, TypeOK, item, q
    <3>1. new \in Row
      BY <1>0, <2>2, <2>6, RecordedType
    <3>2. TypeInv
      OBVIOUS
    <3> QED
      BY <1>0, <2>2, <2>4, <2>5, <2>6, <3>1, <3>2, RecordedClimbs
  <2>8. new.status # "absent"
    BY <1>3, <2>2, <2>7, LadderIsOneWay DEF Climbs, Row
  <2>9. Climbs(reg[q], new)
    <3>1. CASE item.status \in Live
      BY <2>4, <2>7, <3>1
    <3>2. CASE item.status \in Terminal
      <4>1. item.status \notin Live
        BY <3>2 DEF Live, Terminal
      <4>2. draft[q].attempts >= reg[q].attempts /\ new.attempts >= draft[q].attempts
        BY <2>2, <2>3, <2>5, <2>7, <4>1, LadderIsOneWay DEF Climbs, Row
      <4>3. new.attempts >= reg[q].attempts
        BY <2>2, <2>7, <4>2 DEF Row
      <4> QED
        BY <2>3, <2>5, <2>7, <3>2, <4>3 DEF Climbs
    <3> QED
      BY <1>0, <3>1, <3>2
  <2>10. Told(new, q)
    <3>1. CASE item.status \in Live
      <4>1. received[q] = {} /\ ~draft[q].delivered
        <5>1. item.status \notin Terminal
          BY <3>1 DEF Live, Terminal
        <5>2. received[q] \subseteq Terminal /\ acked[q] \subseteq Terminal
          BY <1>0
        <5> QED
          BY <1>3, <2>2, <2>5, <5>1, <5>2 DEF Told
      <4>2. answer[w] # "ok"
        BY <1>0, <3>1 DEF AnswersFor, Live, Terminal
      <4> QED
        BY <2>7, <4>1, <4>2 DEF Told
    <3>2. CASE item.status \in Terminal
      <4>1. new.status = item.status
        BY <2>5, <2>7, <3>2
      <4>2. answer[w] = "ok" => item.status \in acked[q]
        BY DEF SoleInv, SweepInv, Record
      <4> QED
        BY <1>3, <2>2, <2>5, <2>7, <4>1, <4>2 DEF Told
    <3> QED
      BY <1>0, <3>1, <3>2
  <2>11. /\ draft'[q] = new /\ holder'[q] = w
         /\ \A r \in Requests \ {q} : draft'[r] = draft[r] /\ holder'[r] = holder[r]
    BY <1>0, <2>1, <2>6
  <2>12. phase'[w] = "work"
    BY <1>1 DEF Record, SoleInv, SweepInv
  <2>13. RowsInv'
    <3>1. ASSUME NEW r \in Requests
          PROVE  /\ Budgeted(reg'[r]) /\ Budgeted(draft'[r])
                 /\ Told(reg[r], r)' /\ Told(draft[r], r)'
                 /\ Climbs(reg'[r], draft'[r])
                 /\ received'[r] # {} => post'[r] = "stored"
                 /\ holder'[r] # NoWorker => phase'[holder'[r]] = "work"
      <4>1. CASE r = q
        BY <1>1, <2>2, <2>7, <2>9, <2>10, <2>11, <2>12, <4>1 DEF SoleInv, RowsInv, Told
      <4>2. CASE r # q
        BY <1>1, <2>11, <4>2 DEF SoleInv, RowsInv, Told
      <4> QED
        BY <4>1, <4>2
    <3> QED
      BY <3>1 DEF RowsInv, Budgeted, Climbs
  <2>14. ASSUME NEW v \in Workers, NEW i \in todo'[v] PROVE Fresh(i)'
    <3>1. i \in todo[v] /\ i # item /\ v = w /\ Fresh(i) /\ i \in Item /\ i.id \in Requests
      BY <1>1 DEF SoleWorker, SoleInv, SweepInv, Item
    <3>2. CASE i.id # q
      BY <1>1, <2>11, <3>1, <3>2 DEF Fresh, Exists
    <3>3. CASE i.id = q
      <4>1. i.status = item.status
        BY <1>0, <1>3, <2>3, <2>5, <3>1, <3>3 DEF Fresh, Exists
      <4>2. item.status \in Live => i.attempts = item.attempts
        BY <1>0, <1>3, <2>3, <2>5, <3>1, <3>3, <4>1 DEF Fresh, Exists
      <4>3. i.attempts = item.attempts => i = item
        BY <1>0, <3>1, <3>3, <4>1 DEF Item
      <4> QED
        BY <1>1, <2>3, <3>1, <3>3, <4>1, <4>2, <4>3 DEF Fresh
    <3> QED
      BY <3>2, <3>3
  <2> QED
    BY <1>1, <2>13, <2>14 DEF SoleInv, SweepInv
<1> QED
  BY <1>2, <1>3

\* The commit and the rollback: both leave one version of each row and no snapshot.
LEMMA EndSole ==
    ASSUME TypeInv, IndInv, SoleInv, SoleWorker, NEW w \in Workers, Commit(w) \/ Rollback(w)
    PROVE  SoleInv'
<1> USE DEF TypeInv, TypeOK
<1>1. /\ UNCHANGED <<post, received, acked>>
      /\ \A v \in Workers : todo'[v] = {} /\ doing'[v] = NoItem
  BY DEF Commit, Rollback, EndSweep, SoleWorker, apiVars, hookVars
<1>2. ASSUME NEW r \in Requests
      PROVE  /\ reg'[r] \in {reg[r], draft[r]} /\ draft'[r] = reg'[r] /\ holder'[r] = NoWorker
             /\ reg[r] \in Row /\ draft[r] \in Row
  <2>1. holder[r] = w \/ holder[r] = NoWorker
    BY DEF SoleWorker
  <2>2. holder[r] = NoWorker => draft[r] = reg[r]
    BY DEF IndInv, LockFacts
  <2> QED
    BY <2>1, <2>2, ConstantsAssumption DEF Commit, Rollback, EndSweep
<1>3. RowsInv'
  <2>1. ASSUME NEW r \in Requests
        PROVE  /\ Budgeted(reg'[r]) /\ Budgeted(draft'[r])
               /\ Told(reg[r], r)' /\ Told(draft[r], r)'
               /\ Climbs(reg'[r], draft'[r])
               /\ received'[r] # {} => post'[r] = "stored"
    <3>1. \A row \in Row : Climbs(row, row)
      BY DEF Climbs, Row
    <3> QED
      BY <1>1, <1>2, <3>1 DEF SoleInv, RowsInv, Told
  <2> QED
    BY <1>2, <2>1 DEF RowsInv, Budgeted, Climbs
<1>4. SweepInv'
  BY <1>1 DEF SweepInv
<1> QED
  BY <1>3, <1>4 DEF SoleInv

\* Time passes: a retry that becomes due changes neither status nor attempts.
LEMMA ElapseSole ==
    ASSUME TypeInv, SoleInv, NEW r \in Requests, BackoffElapses(r) \/ WebhookBackoffElapses(r)
    PROVE  SoleInv'
<1> USE DEF TypeInv, TypeOK
<1>1. UNCHANGED <<holder, post, phase, todo, doing, answer, received, acked>>
  BY DEF BackoffElapses, WebhookBackoffElapses, apiVars, sweepVars, hookVars
<1>2. ASSUME NEW q \in Requests
      PROVE  /\ reg'[q].status = reg[q].status /\ reg'[q].attempts = reg[q].attempts
             /\ reg'[q].delivered = reg[q].delivered
             /\ draft'[q].status = draft[q].status /\ draft'[q].attempts = draft[q].attempts
             /\ draft'[q].delivered = draft[q].delivered
  <2>1. \A row \in Row :
           LET a == [row EXCEPT !.backoff = FALSE]
               b == [row EXCEPT !.webhookBackoff = FALSE]
           IN  /\ a.status = row.status /\ a.attempts = row.attempts /\ a.delivered = row.delivered
               /\ b.status = row.status /\ b.attempts = row.attempts /\ b.delivered = row.delivered
    BY DEF Row
  <2>2. reg[q] \in Row /\ draft[q] \in Row
    OBVIOUS
  <2>3. CASE q # r
    BY <2>3 DEF BackoffElapses, WebhookBackoffElapses
  <2>4. CASE q = r
    <3>1. \/ /\ reg'[q] = [reg[q] EXCEPT !.backoff = FALSE]
             /\ draft'[q] = [draft[q] EXCEPT !.backoff = FALSE]
          \/ /\ reg'[q] = [reg[q] EXCEPT !.webhookBackoff = FALSE]
             /\ draft'[q] = [draft[q] EXCEPT !.webhookBackoff = FALSE]
      BY <2>4 DEF BackoffElapses, WebhookBackoffElapses
    <3> QED
      BY <2>1, <2>2, <3>1
  <2> QED
    BY <2>3, <2>4
<1>3. RowsInv'
  BY <1>1, <1>2 DEF SoleInv, RowsInv, Budgeted, Told, Climbs
<1>4. SweepInv'
  <2>1. \A v \in Workers : \A i \in todo[v] : i.id \in Requests
    BY DEF Item
  <2> QED
    BY <1>1, <1>2, <2>1 DEF SoleInv, SweepInv, Fresh, Exists
<1> QED
  BY <1>3, <1>4 DEF SoleInv

\* Every step of the program and of the world keeps the invariant.
LEMMA NextSole ==
    ASSUME SoleWorker
    PROVE  TypeInv /\ IndInv /\ SoleInv /\ [Next]_vars => SoleInv'
<1> SUFFICES ASSUME TypeInv, IndInv, SoleInv, [Next]_vars PROVE SoleInv'
  OBVIOUS
<1>0. TypeInv'
  BY NextType
<1>1. ASSUME NEW r \in Requests, Api(r) PROVE SoleInv'
  BY <1>1, ApiSole
<1>2. ASSUME NEW w \in Workers, Read(w) PROVE SoleInv'
  <2>1. ASSUME NEW s \in Live
        PROVE  /\ DueWith(s) \in SUBSET Item
               /\ \A item \in DueWith(s) : /\ item.status = reg[item.id].status
                                           /\ item.attempts = reg[item.id].attempts
    BY <2>1 DEF DueWith, Snapshot, Item, TypeInv, TypeOK, Row
  <2>2. /\ DueWebhooks \in SUBSET Item
        /\ \A item \in DueWebhooks : item.status = reg[item.id].status /\ item.status \in Terminal
    BY ConstantsAssumption DEF DueWebhooks, Snapshot, Item, TypeInv, TypeOK, Row
  <2>3. \A s \in Terminal : s \notin Live
    BY DEF Live, Terminal
  <2>4. ASSUME NEW from \in Phases \ {"work"}, NEW to,
               NEW rows \in {{}, DueWebhooks} \cup {DueWith(s) : s \in Live},
               Select(w, from, to, rows)
        PROVE  SoleInv'
    <3>1. /\ rows \in SUBSET Item
          /\ \A item \in rows : /\ item.status = reg[item.id].status
                                /\ item.status \in Live => item.attempts = reg[item.id].attempts
      BY <2>1, <2>2, <2>3, <2>4
    <3> QED
      BY <2>4, <3>1, SelectSole
  <2> QED
    BY <1>2, <2>4
       DEF Read, StartSweep, SelectReady, SelectPending, SelectSubmitted, SelectWebhooks, Live, Phases
<1>3. ASSUME NEW w \in Workers, NEW item \in todo[w], Call(w, item) PROVE SoleInv'
  BY <1>3, CallSole
<1>4. ASSUME NEW w \in Workers, Record(w) PROVE SoleInv'
  BY <1>0, <1>4, RecordSole
<1>5. ASSUME NEW w \in Workers, Commit(w) \/ Fault(w) PROVE SoleInv'
  <2>1. Commit(w) \/ Rollback(w)
    BY <1>5 DEF Fault, Crash, PreambleRaises, DeadlockVictim
  <2> QED
    BY <2>1, EndSole
<1>6. CASE World
  <2>1. ASSUME NEW r \in Requests, CommitmentConfirms(r) PROVE SoleInv'
    BY <2>1, QuietSole DEF CommitmentConfirms, apiVars
  <2>2. ASSUME NEW n \in Names, IdentityConfirms(n) PROVE SoleInv'
    BY <2>2, QuietSole DEF IdentityConfirms, apiVars
  <2> QED
    BY <1>6, <2>1, <2>2, ElapseSole DEF World
<1>7. CASE UNCHANGED vars
  BY <1>7, QuietSole DEF vars, apiVars
<1> QED
  BY <1>1, <1>2, <1>3, <1>4, <1>5, <1>6, <1>7 DEF Next, Sweep

-----------------------------------------------------------------------------
(* What a step does to the committed row of a request.                     *)

\* A row is inserted, deleted, committed, or keeps its status and attempts.
LEMMA RowMoves ==
    ASSUME TypeInv, IndInv, SoleInv, [Next]_vars, NEW r \in Requests
    PROVE  \/ reg'[r].status = reg[r].status /\ reg'[r].attempts = reg[r].attempts
           \/ Exists(r) /\ Climbs(reg[r], reg'[r])
           \/ Exists(r) /\ reg'[r].status = "absent"
           \/ ~Exists(r) /\ post[r] = "committed" /\ reg'[r].status = "pending_rnc_confirm"
<1> USE DEF TypeInv, TypeOK
<1>1. CASE reg'[r] = reg[r]
  BY <1>1
<1>2. ASSUME NEW q \in Requests, Api(q), reg'[r] # reg[r]
      PROVE  \/ reg'[r].status = reg[r].status /\ reg'[r].attempts = reg[r].attempts
             \/ Exists(r) /\ reg'[r].status = "absent"
             \/ ~Exists(r) /\ post[r] = "committed" /\ reg'[r].status = "pending_rnc_confirm"
  <2>1. q = r
    BY <1>2 DEF Api, Precheck, Commitment, InsertRegistration, InsertLost, DeleteRegistration,
                RequeueCheck, RequeueReset, ApiWrite, dbVars
  <2>2. CASE InsertRegistration(r)
    <3>1. /\ post[r] = "committed"
          /\ reg'[r].status = "pending_rnc_confirm"
      BY <2>2, AbsentRowType DEF InsertRegistration, ApiWrite, AbsentRow
    <3>2. RowFacts(reg[r], r)
      BY DEF IndInv
    <3> QED
      BY <3>1, <3>2 DEF RowFacts, Exists
  <2>3. CASE DeleteRegistration(r)
    BY <2>3 DEF DeleteRegistration, ApiWrite, AbsentRow
  <2>4. CASE RequeueReset(r)
    <3>1. \A old \in Row :
             LET new == [old EXCEPT !.delivered = FALSE, !.webhookAttempts = 0, !.webhookBackoff = FALSE]
             IN  new.status = old.status /\ new.attempts = old.attempts
      BY DEF Row
    <3>2. reg'[r] = [reg[r] EXCEPT !.delivered = FALSE, !.webhookAttempts = 0, !.webhookBackoff = FALSE]
      BY <1>2, <2>4 DEF RequeueReset, ApiWrite, dbVars
    <3> QED
      BY <3>1, <3>2
  <2> QED
    BY <1>2, <2>1, <2>2, <2>3, <2>4 DEF Api, Precheck, Commitment, InsertLost, RequeueCheck, dbVars
<1>3. ASSUME NEW w \in Workers, Commit(w), reg'[r] # reg[r]
      PROVE  Exists(r) /\ Climbs(reg[r], reg'[r])
  <2>1. holder[r] = w /\ reg'[r] = draft[r]
    BY <1>3 DEF Commit
  <2> QED
    BY <2>1, ConstantsAssumption DEF IndInv, LockFacts, SoleInv, RowsInv
<1>4. ASSUME NEW w \in Workers,
             Read(w) \/ (\E item \in todo[w] : Call(w, item)) \/ Record(w) \/ Fault(w)
      PROVE  reg' = reg
  BY <1>4 DEF Read, StartSweep, SelectReady, SelectPending, SelectSubmitted, SelectWebhooks, Select,
              Call, AskConfirmations, RegisterAccepted, RegisterRefused, RegisterInsufficient,
              PostAccepted, PostRefused, Record, WorkerWrite,
              Fault, Crash, PreambleRaises, DeadlockVictim, Rollback, dbVars
<1>5. ASSUME World, reg'[r] # reg[r]
      PROVE  reg'[r].status = reg[r].status /\ reg'[r].attempts = reg[r].attempts
  <2>1. \A row \in Row :
           LET a == [row EXCEPT !.backoff = FALSE]
               b == [row EXCEPT !.webhookBackoff = FALSE]
           IN  /\ a.status = row.status /\ a.attempts = row.attempts
               /\ b.status = row.status /\ b.attempts = row.attempts
    BY DEF Row
  <2>2. \/ reg'[r] = [reg[r] EXCEPT !.backoff = FALSE]
        \/ reg'[r] = [reg[r] EXCEPT !.webhookBackoff = FALSE]
    <3>1. PICK q \in Requests : BackoffElapses(q) \/ WebhookBackoffElapses(q)
      BY <1>5 DEF World, CommitmentConfirms, IdentityConfirms, dbVars
    <3>2. q = r
      BY <1>5, <3>1 DEF BackoffElapses, WebhookBackoffElapses
    <3> QED
      BY <3>1, <3>2 DEF BackoffElapses, WebhookBackoffElapses
  <2> QED
    BY <2>1, <2>2
<1>6. CASE UNCHANGED vars
  BY <1>6 DEF vars, dbVars
<1> QED
  BY <1>1, <1>2, <1>3, <1>4, <1>5, <1>6 DEF Next, Sweep

\* A handler reports the registration as stored in the step that inserts its row.
LEMMA StoredWithRow ==
    ASSUME TypeInv, IndInv, [Next]_vars, NEW r \in Requests
    PROVE  /\ post[r] = "stored" => post'[r] = "stored"
           /\ post[r] # "stored" /\ post'[r] = "stored" => reg'[r].status = "pending_rnc_confirm"
<1> USE DEF TypeInv, TypeOK
<1>1. post[r] = "stored" => post'[r] = "stored"
  BY NextMonotone DEF Monotone
<1>2. ASSUME NEW q \in Requests, Api(q), post[r] # "stored", post'[r] = "stored"
      PROVE  reg'[r].status = "pending_rnc_confirm"
  <2>1. InsertRegistration(q) /\ q = r
    BY <1>2 DEF Api, Precheck, Commitment, InsertRegistration, InsertLost, DeleteRegistration,
                RequeueCheck, RequeueReset, apiVars
  <2> QED
    BY <2>1 DEF InsertRegistration, ApiWrite, AbsentRow
<1>3. ASSUME NEW w \in Workers, Sweep(w) \/ Fault(w) PROVE post' = post
  BY <1>3 DEF Sweep, Read, StartSweep, SelectReady, SelectPending, SelectSubmitted, SelectWebhooks,
              Select, Call, AskConfirmations, RegisterAccepted, RegisterRefused, RegisterInsufficient,
              PostAccepted, PostRefused, Record, Commit,
              Fault, Crash, PreambleRaises, DeadlockVictim, Rollback, EndSweep, apiVars
<1>4. CASE World
  BY <1>4 DEF World, BackoffElapses, WebhookBackoffElapses, CommitmentConfirms, IdentityConfirms, apiVars
<1>5. CASE UNCHANGED vars
  BY <1>5 DEF vars, apiVars
<1> QED
  BY <1>1, <1>2, <1>3, <1>4, <1>5 DEF Next

\* The stage a client sees stays or moves to a successor.
LEMMA StageMoves ==
    ASSUME TypeInv, IndInv, SoleInv, [Next]_vars, NEW r \in Requests
    PROVE  StageOf(r)' = StageOf(r) \/ StageOf(r)' \in Lifecycle!Successors(StageOf(r))
<1>0. /\ reg[r].status \in Statuses /\ reg'[r].status \in Statuses
      /\ Exists(r) => post[r] = "stored"
      /\ post[r] = "stored" => post'[r] = "stored"
      /\ post[r] # "stored" /\ post'[r] = "stored" => reg'[r].status = "pending_rnc_confirm"
  <2>1. TypeInv' /\ IndInv
    BY NextType
  <2> QED
    BY <2>1, StoredWithRow DEF TypeInv, TypeOK, Row, IndInv, RowFacts, Exists
<1>1. CASE reg'[r].status = reg[r].status
  BY <1>0, <1>1 DEF StageOf, Exists
<1>2. CASE Exists(r) /\ Climbs(reg[r], reg'[r]) /\ reg'[r].status # reg[r].status
  <2>1. reg'[r].status \in Lifecycle!Successors(reg[r].status) /\ reg'[r].status # "absent"
    BY <1>0, <1>2, LadderIsOneWay DEF Climbs
  <2> QED
    BY <1>2, <2>1 DEF StageOf, Exists
<1>3. CASE Exists(r) /\ reg'[r].status = "absent"
  <2>1. StageOf(r) = reg[r].status /\ StageOf(r)' = "deleted"
    BY <1>0, <1>3 DEF StageOf, Exists
  <2>2. \A s \in Statuses \ {"absent"} : "deleted" \in Lifecycle!Successors(s)
    BY DEF Lifecycle!Successors, Lifecycle!Terminal, Statuses, Live, Terminal
  <2> QED
    BY <1>0, <1>3, <2>1, <2>2 DEF Exists
<1>4. CASE ~Exists(r) /\ post[r] = "committed" /\ reg'[r].status = "pending_rnc_confirm"
  <2>1. StageOf(r) = "unknown" /\ StageOf(r)' = "pending_rnc_confirm"
    BY <1>4 DEF StageOf, Exists
  <2> QED
    BY <2>1 DEF Lifecycle!Successors, Lifecycle!Terminal
<1> QED
  BY <1>1, <1>2, <1>3, <1>4, RowMoves

-----------------------------------------------------------------------------
(* The theorems.                                                           *)

\* The inductive invariant: rows climb one rung at a time within their budget, the
\* receiver is told what is committed, and a sweep's snapshots are up to date.
THEOREM SoleInductive ==
    ASSUME SoleWorker
    PROVE  Spec => []SoleInv
<1>1. TypeInv /\ IndInv /\ SoleInv /\ [Next]_vars => SoleInv'
  BY NextSole
<1> QED
  BY <1>1, InitSole, Inductive, PTL DEF Spec

\* A row fails exactly when WORKER_MAX_RETRIES errors are recorded: none is worked
\* on past its budget, none is given up early (worker_id_creation._record_retry_or_failure).
THEOREM FailsWhenExhausted ==
    ASSUME SoleWorker
    PROVE  Spec => []FailedWhenExhausted
<1>1. SoleInv => FailedWhenExhausted
  BY DEF SoleInv, RowsInv, Budgeted, FailedWhenExhausted, Exists
<1> QED
  BY <1>1, SoleInductive, PTL

\* webhook_delivered is only set for a status the receiver has acknowledged.
THEOREM DeliveriesAreAcked ==
    ASSUME SoleWorker
    PROVE  Spec => []DeliveredWasAcked
<1>1. SoleInv => DeliveredWasAcked
  BY DEF SoleInv, RowsInv, Told, DeliveredWasAcked
<1> QED
  BY <1>1, SoleInductive, PTL

\* The receiver is never told of a status that is not committed, or not final.
THEOREM EventsAreTrue ==
    ASSUME SoleWorker
    PROVE  Spec => []EventsMatchRow
<1>1. SoleInv => EventsMatchRow
  BY DEF SoleInv, RowsInv, Told, EventsMatchRow, Exists
<1> QED
  BY <1>1, SoleInductive, PTL

\* Committed errors are never forgotten while the row stays on its rung.
THEOREM AttemptsGrow ==
    ASSUME SoleWorker
    PROVE  Spec => AttemptsOnlyGrow
<1> DEFINE Grows == \A r \in Requests :
                        reg[r].status \in Live /\ reg'[r].status = reg[r].status
                            => reg'[r].attempts >= reg[r].attempts
<1>1. TypeInv /\ IndInv /\ SoleInv /\ [Next]_vars => [Grows]_vars
  <2> SUFFICES ASSUME TypeInv, IndInv, SoleInv, [Next]_vars, NEW r \in Requests,
                      reg[r].status \in Live, reg'[r].status = reg[r].status
               PROVE  reg'[r].attempts >= reg[r].attempts
    OBVIOUS
  <2>1. reg[r].status # "absent" /\ reg[r] \in Row
    BY DEF Live, TypeInv, TypeOK
  <2>2. reg'[r].attempts = reg[r].attempts \/ Climbs(reg[r], reg'[r])
    BY <2>1, RowMoves DEF Exists
  <2>3. reg[r].attempts \in Nat /\ reg[r].status \in Statuses
    BY <2>1 DEF Row
  <2>4. reg'[r].status \notin Lifecycle!Successors(reg[r].status)
    BY <2>3, LadderIsOneWay
  <2> QED
    BY <2>2, <2>3, <2>4 DEF Climbs
<1> QED
  BY <1>1, Inductive, SoleInductive, PTL DEF Spec, AttemptsOnlyGrow

\* The refinement of the promised state machine: what GET /api/status/{id} answers
\* starts as "unknown" and every step moves it along RegistrationLifecycle.
THEOREM LifecycleIsKept ==
    ASSUME SoleWorker
    PROVE  Spec => LifecycleSafe
<1> DEFINE stage == [r \in Requests |-> StageOf(r)]
<1>1. Init => Lifecycle!Init
  BY DEF Init, Lifecycle!Init, StageOf, Exists, AbsentRow
<1>2. TypeInv /\ IndInv /\ SoleInv /\ [Next]_vars => [Lifecycle!Advance]_stage
  <2> SUFFICES ASSUME TypeInv, IndInv, SoleInv, [Next]_vars
               PROVE  Lifecycle!Advance
    OBVIOUS
  <2>0. TypeInv'
    BY NextType
  <2>1. ASSUME NEW r \in Requests PROVE StageOf(r)' \in Lifecycle!Stages
    BY <2>0 DEF StageOf, Lifecycle!Stages, Lifecycle!Live, Lifecycle!Terminal, Live, Terminal,
                Exists, Statuses, TypeInv, TypeOK, Row
  <2>2. ASSUME NEW r \in Requests
        PROVE  StageOf(r)' = StageOf(r) \/ StageOf(r)' \in Lifecycle!Successors(StageOf(r))
    BY StageMoves
  <2> QED
    BY <2>1, <2>2 DEF Lifecycle!Advance
<1> QED
  BY <1>1, <1>2, Inductive, SoleInductive, PTL DEF Spec, LifecycleSafe, Lifecycle!Spec

=============================================================================
