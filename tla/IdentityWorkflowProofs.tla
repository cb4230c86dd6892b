----------------------- MODULE IdentityWorkflowProofs -----------------------
(***************************************************************************)
(* Theorems about IdentityWorkflow, for any set of requests, names and     *)
(* workers (sweeps may overlap) and any retry limits.                      *)
(***************************************************************************)
EXTENDS IdentityWorkflow, TLAPS

-----------------------------------------------------------------------------
(* Types.                                                                  *)

\* The answers the call for a row in each status can get.
AnswersFor(status) ==
    {a \in Answers : \/ a = "error"
                     \/ a = "confirmed" /\ status \in {"pending_rnc_confirm", "idr_submitted"}
                     \/ a \in {"accepted", "exists", "insufficient"} /\ status = "ready_for_idr"
                     \/ a = "ok" /\ status \in Terminal}

\* The row at hand is one of the rows still to handle, and its answer fits.
DoingOK ==
    \A w \in Workers : doing[w] # NoItem =>
        doing[w] \in todo[w] /\ answer[w] \in AnswersFor(doing[w].status)

\* The type invariant, with what each step of a worker has at hand.
TypeInv == TypeOK /\ DoingOK

\* The row of a request that has none in the table is well formed.
LEMMA AbsentRowType == AbsentRow \in Row
  BY DEF AbsentRow, Row, Statuses

\* A row whose status, attempts and backoff are rewritten is still a row.
LEMMA RewrittenType ==
    ASSUME NEW row \in Row, NEW s \in Statuses, NEW n \in Nat, NEW b \in BOOLEAN
    PROVE  [row EXCEPT !.status = s, !.attempts = n, !.backoff = b] \in Row
  BY DEF Row

\* Recording an answer that fits keeps the row well formed.
LEMMA RecordedType ==
    ASSUME NEW row \in Row, NEW item \in Item, NEW a \in AnswersFor(item.status), a # "insufficient"
    PROVE  Recorded(row, item, a) \in Row
<1>1. item.status \in Live \cup Terminal /\ item.attempts \in Nat
  BY DEF Item
<1>2. item.attempts + 1 \in Nat /\ row.webhookAttempts + 1 \in Nat /\ 0 \in Nat
  BY <1>1 DEF Row
<1>3. \A s \in Statuses : Promoted(row, s) \in Row
  BY RewrittenType DEF Promoted
<1>4. CASE a = "confirmed"
  BY <1>1, <1>3, <1>4 DEF Recorded, AnswersFor, Live, Terminal, Statuses
<1>5. CASE a = "accepted"
  <2>1. Promoted(row, "idr_submitted") \in Row
    BY <1>3 DEF Statuses, Live
  <2>2. [Promoted(row, "idr_submitted") EXCEPT !.idr_txid = TRUE] \in Row
    BY <2>1 DEF Row
  <2> QED
    BY <1>5, <2>2 DEF Recorded
<1>6. CASE a = "exists"
  BY <1>3, <1>6 DEF Recorded, Statuses, Terminal
<1>7. CASE a = "ok"
  <2>1. [row EXCEPT !.delivered = TRUE, !.webhookAttempts = row.webhookAttempts + 1,
                    !.webhookBackoff = FALSE] \in Row
    BY <1>2 DEF Row
  <2> QED
    BY <1>7, <2>1 DEF Recorded
<1>8. CASE a = "error" /\ item.status \in Live
  <2>1. item.status \in Statuses /\ "failed" \in Statuses
    BY <1>8 DEF Statuses, Terminal
  <2>2. RetryOrFailure(row, item.attempts, item.status) \in Row
    BY <1>2, <2>1, RewrittenType DEF RetryOrFailure
  <2>3. Recorded(row, item, a) = RetryOrFailure(row, item.attempts, item.status)
    BY <1>8 DEF Recorded, Live, Terminal
  <2> QED
    BY <2>2, <2>3
<1>9. CASE a = "error" /\ item.status \in Terminal
  <2>1. (item.attempts + 1 < WebhookMaxRetries) \in BOOLEAN
    OBVIOUS
  <2>2. WebhookRetryOrFailure(row, item.attempts) \in Row
    BY <1>2, <2>1 DEF WebhookRetryOrFailure, Row
  <2>3. Recorded(row, item, a) = WebhookRetryOrFailure(row, item.attempts)
    BY <1>9 DEF Recorded, Live, Terminal
  <2> QED
    BY <2>2, <2>3
<1> QED
  BY <1>1, <1>4, <1>5, <1>6, <1>7, <1>8, <1>9 DEF AnswersFor, Live, Terminal

\* The empty tables and idle sweeps the program starts with are well typed.
LEMMA InitType == Init => TypeInv
  BY ConstantsAssumption, AbsentRowType DEF Init, TypeInv, TypeOK, DoingOK, Phases, Answers

\* Every statement, call and fault keeps the types: the case split of TypeCorrect.
LEMMA NextType == TypeInv /\ [Next]_vars => TypeInv'
<1> SUFFICES ASSUME TypeInv, [Next]_vars PROVE TypeInv'
  OBVIOUS
<1> USE ConstantsAssumption DEF TypeInv, TypeOK
<1>1. ASSUME NEW r \in Requests, NEW row \in Row, ApiWrite(r, row)
      PROVE  /\ reg' \in [Requests -> Row]
             /\ draft' \in [Requests -> Row]
             /\ holder' \in [Requests -> Workers \cup {NoWorker}]
  BY <1>1 DEF ApiWrite
<1>2. ASSUME NEW r \in Requests, Precheck(r) PROVE TypeInv'
  BY <1>2 DEF Precheck, DoingOK, dbVars, sweepVars, chainVars, hookVars
<1>3. ASSUME NEW r \in Requests, Commitment(r) PROVE TypeInv'
  BY <1>3 DEF Commitment, DoingOK, dbVars, sweepVars, hookVars
<1>4. ASSUME NEW r \in Requests, InsertRegistration(r) PROVE TypeInv'
  <2>1. [AbsentRow EXCEPT !.status = "pending_rnc_confirm"] \in Row
    BY AbsentRowType DEF Row, Statuses, Live
  <2> QED
    BY <1>1, <1>4, <2>1 DEF InsertRegistration, DoingOK, sweepVars, chainVars, hookVars
<1>5. ASSUME NEW r \in Requests, InsertLost(r) PROVE TypeInv'
  BY <1>5 DEF InsertLost, DoingOK, dbVars, sweepVars, chainVars, hookVars
<1>6. ASSUME NEW r \in Requests, DeleteRegistration(r) PROVE TypeInv'
  BY <1>1, <1>6, AbsentRowType DEF DeleteRegistration, DoingOK, apiVars, sweepVars, chainVars, hookVars
<1>7. ASSUME NEW r \in Requests, RequeueCheck(r) PROVE TypeInv'
  BY <1>7 DEF RequeueCheck, DoingOK, dbVars, sweepVars, chainVars, hookVars
<1>8. ASSUME NEW r \in Requests, RequeueReset(r) PROVE TypeInv'
  <2>1. \A row \in Row :
           [row EXCEPT !.delivered = FALSE, !.webhookAttempts = 0, !.webhookBackoff = FALSE] \in Row
    BY DEF Row
  <2> QED
    <3>1. /\ reg' \in [Requests -> Row]
          /\ draft' \in [Requests -> Row]
          /\ holder' \in [Requests -> Workers \cup {NoWorker}]
      BY <1>1, <1>8, <2>1 DEF RequeueReset, dbVars
    <3> QED
      BY <1>8, <3>1 DEF RequeueReset, DoingOK, sweepVars, chainVars, hookVars
<1>9. ASSUME NEW w \in Workers, Read(w) PROVE TypeInv'
  <2>1. ASSUME NEW s \in Live PROVE DueWith(s) \in SUBSET Item
    BY <2>1 DEF DueWith, Snapshot, Item, Row
  <2>2. DueWebhooks \in SUBSET Item
    BY DEF DueWebhooks, Snapshot, Item, Row
  <2>3. ASSUME NEW from \in Phases, NEW to \in Phases, NEW rows \in SUBSET Item,
               Select(w, from, to, rows)
        PROVE  TypeInv'
    BY <2>3 DEF Select, DoingOK, dbVars, apiVars, rowVars, chainVars, hookVars
  <2> QED
    BY <1>9, <2>1, <2>2, <2>3
       DEF Read, StartSweep, SelectReady, SelectPending, SelectSubmitted, SelectWebhooks, Phases, Live
<1>10. ASSUME NEW w \in Workers, NEW item \in todo[w], Call(w, item) PROVE TypeInv'
  <2>1. item \in Item
    OBVIOUS
  <2>2. ASSUME NEW a \in AnswersFor(item.status), Answered(w, item, a)
        PROVE  /\ doing' \in [Workers -> Item \cup {NoItem}]
               /\ answer' \in [Workers -> Answers]
               /\ todo' = todo => DoingOK'
    <3>1. a \in Answers
      BY DEF AnswersFor
    <3>2. doing'[w] = item /\ answer'[w] = a
      BY <2>2 DEF Answered
    <3>3. ASSUME NEW v \in Workers, v # w PROVE doing'[v] = doing[v] /\ answer'[v] = answer[v]
      BY <2>2, <3>3 DEF Answered
    <3>4. doing' \in [Workers -> Item \cup {NoItem}] /\ answer' \in [Workers -> Answers]
      BY <2>1, <2>2, <3>1 DEF Answered
    <3>5. todo' = todo => DoingOK'
      BY <2>1, <2>2, <3>2, <3>3 DEF DoingOK
    <3> QED
      BY <3>4, <3>5
  <2>3. CASE AskConfirmations(w, item)
    <3>1. "confirmed" \in AnswersFor(item.status) /\ "error" \in AnswersFor(item.status)
      BY <2>3 DEF AskConfirmations, AnswersFor, Answers
    <3>2. CASE UNCHANGED todo
      BY <2>2, <2>3, <3>1, <3>2 DEF AskConfirmations, DoingOK, dbVars, apiVars, chainVars, hookVars
    <3>3. CASE todo' = [todo EXCEPT ![w] = @ \ {item}] /\ UNCHANGED <<doing, answer>>
      <4>1. doing[w] = NoItem
        BY <2>3 DEF AskConfirmations, IsNext
      <4> QED
        BY <2>3, <3>3, <4>1 DEF AskConfirmations, DoingOK, dbVars, apiVars, chainVars, hookVars
    <3> QED
      BY <2>3, <3>2, <3>3 DEF AskConfirmations
  <2>4. CASE RegisterAccepted(w, item)
    <3>1. \A a \in {"accepted", "error"} : a \in AnswersFor(item.status)
      BY <2>4 DEF RegisterAccepted, MayRegister, AnswersFor, Answers
    <3> QED
      BY <2>1, <2>2, <2>4, <3>1 DEF RegisterAccepted, Item, dbVars, apiVars, hookVars
  <2>5. CASE RegisterRefused(w, item)
    <3>1. \A a \in {"exists", "error"} : a \in AnswersFor(item.status)
      BY <2>5 DEF RegisterRefused, MayRegister, AnswersFor, Answers
    <3> QED
      BY <2>2, <2>5, <3>1 DEF RegisterRefused, dbVars, apiVars, chainVars, hookVars
  <2>6. CASE RegisterInsufficient(w, item)
    <3>1. \A a \in {"insufficient", "error"} : a \in AnswersFor(item.status)
      BY <2>6 DEF RegisterInsufficient, MayRegister, AnswersFor, Answers
    <3> QED
      BY <2>2, <2>6, <3>1 DEF RegisterInsufficient, dbVars, apiVars, chainVars, hookVars
  <2>7. CASE PostAccepted(w, item)
    <3>1. \A a \in {"ok", "error"} : a \in AnswersFor(item.status)
      BY <2>7 DEF PostAccepted, AnswersFor, Answers, Terminal
    <3> QED
      BY <2>1, <2>2, <2>7, <3>1 DEF PostAccepted, Item, dbVars, apiVars, chainVars
  <2>8. CASE PostRefused(w, item)
    <3>1. "error" \in AnswersFor(item.status)
      BY <2>8 DEF PostRefused, AnswersFor, Answers, Terminal
    <3> QED
      BY <2>2, <2>8, <3>1 DEF PostRefused, dbVars, apiVars, chainVars, hookVars
  <2> QED
    BY <1>10, <2>3, <2>4, <2>5, <2>6, <2>7, <2>8 DEF Call
<1>11. ASSUME NEW w \in Workers, Record(w) PROVE TypeInv'
  <2>1. doing[w] \in Item /\ answer[w] \in AnswersFor(doing[w].status) /\ answer[w] # "insufficient"
    BY <1>11 DEF Record, DoingOK
  <2>2. doing[w].id \in Requests
    BY <2>1 DEF Item
  <2>3. Recorded(draft[doing[w].id], doing[w], answer[w]) \in Row
    BY <2>1, <2>2, RecordedType
  <2>4. /\ reg' \in [Requests -> Row]
        /\ draft' \in [Requests -> Row]
        /\ holder' \in [Requests -> Workers \cup {NoWorker}]
    BY <1>11, <2>2, <2>3 DEF Record, WorkerWrite, dbVars
  <2> QED
    BY <1>11, <2>4 DEF Record, RowDone, DoingOK, Answers, apiVars, chainVars, hookVars
<1>12. ASSUME NEW w \in Workers, EndSweep(w)
       PROVE  /\ phase' \in [Workers -> Phases] /\ todo' \in [Workers -> SUBSET Item]
              /\ doing' \in [Workers -> Item \cup {NoItem}] /\ answer' \in [Workers -> Answers]
              /\ bumps' \in [Workers -> 0 .. MaxFeeBumps]
              /\ holder' \in [Requests -> Workers \cup {NoWorker}]
              /\ DoingOK'
  BY <1>12 DEF EndSweep, DoingOK, Phases, Answers
<1>13. ASSUME NEW w \in Workers, Commit(w) PROVE TypeInv'
  BY <1>12, <1>13 DEF Commit, EndSweep, apiVars, chainVars, hookVars
<1>14. ASSUME NEW w \in Workers, Rollback(w), faults' \in 0 .. FaultBound PROVE TypeInv'
  BY <1>12, <1>14 DEF Rollback, EndSweep, apiVars, chainVars, hookVars
<1>15. ASSUME NEW w \in Workers, Fault(w) PROVE TypeInv'
  <2>1. faults' \in 0 .. FaultBound /\ Rollback(w)
    BY <1>15 DEF Fault, Crash, PreambleRaises, DeadlockVictim
  <2> QED
    BY <1>14, <2>1
<1>16. CASE World
  <2>1. ASSUME NEW r \in Requests, BackoffElapses(r) PROVE TypeInv'
    <3>1. \A row \in Row : [row EXCEPT !.backoff = FALSE] \in Row
      BY DEF Row
    <3>2. reg' \in [Requests -> Row] /\ draft' \in [Requests -> Row]
      BY <2>1, <3>1 DEF BackoffElapses
    <3> QED
      BY <2>1, <3>2 DEF BackoffElapses, DoingOK, apiVars, sweepVars, chainVars, hookVars
  <2>2. ASSUME NEW r \in Requests, WebhookBackoffElapses(r) PROVE TypeInv'
    <3>1. \A row \in Row : [row EXCEPT !.webhookBackoff = FALSE] \in Row
      BY DEF Row
    <3>2. reg' \in [Requests -> Row] /\ draft' \in [Requests -> Row]
      BY <2>2, <3>1 DEF WebhookBackoffElapses
    <3> QED
      BY <2>2, <3>2 DEF WebhookBackoffElapses, DoingOK, apiVars, sweepVars, chainVars, hookVars
  <2>3. ASSUME NEW r \in Requests, CommitmentConfirms(r) PROVE TypeInv'
    BY <2>3 DEF CommitmentConfirms, DoingOK, dbVars, apiVars, sweepVars, hookVars
  <2>4. ASSUME NEW n \in Names, IdentityConfirms(n) PROVE TypeInv'
    BY <2>4 DEF IdentityConfirms, DoingOK, dbVars, apiVars, sweepVars, hookVars
  <2> QED
    BY <1>16, <2>1, <2>2, <2>3, <2>4 DEF World
<1>17. CASE UNCHANGED vars
  BY <1>17 DEF DoingOK, vars, dbVars, apiVars, sweepVars, chainVars, hookVars
<1> QED
  BY <1>2, <1>3, <1>4, <1>5, <1>6, <1>7, <1>8, <1>9, <1>10, <1>11, <1>13, <1>15, <1>16, <1>17
     DEF Next, Api, Sweep

\* Every variable keeps its type, and the retry and fault counters their bounds.
THEOREM TypeCorrect == Spec => []TypeOK
<1>1. Spec => []TypeInv
  BY InitType, NextType, PTL DEF Spec
<1> QED
  BY <1>1, PTL DEF TypeInv

-----------------------------------------------------------------------------
(* What the code remembers about the chain is true of the chain.           *)

\* The outside world and the handlers only ever add to what the invariant says.
Monotone ==
    /\ \A r \in Requests : rncTx[r] = "confirmed" => rncTx'[r] = "confirmed"
    /\ \A n \in Names : owner[n] # NoRequest => owner'[n] = owner[n]
    /\ inChain \subseteq inChain'
    /\ \A r \in Requests : post[r] = "stored" => post'[r] = "stored"

\* What is in the chain stays in it and a stored commitment stays stored.
LEMMA NextMonotone == TypeInv /\ IndInv /\ [Next]_vars => Monotone
<1> SUFFICES ASSUME TypeInv, IndInv, [Next]_vars PROVE Monotone
  OBVIOUS
<1> USE ConstantsAssumption DEF TypeInv, TypeOK, Monotone
<1>1. ASSUME NEW r \in Requests, Api(r) PROVE Monotone
  BY <1>1 DEF Api, Precheck, Commitment, InsertRegistration, InsertLost, DeleteRegistration,
              RequeueCheck, RequeueReset, IndInv, apiVars, chainVars
<1>2. ASSUME NEW w \in Workers, Read(w) \/ Record(w) \/ Commit(w) \/ Fault(w) PROVE Monotone
  BY <1>2 DEF Read, StartSweep, SelectReady, SelectPending, SelectSubmitted, SelectWebhooks, Select,
              Record, Commit, Fault, Crash, PreambleRaises, DeadlockVictim, Rollback, EndSweep,
              apiVars, chainVars
<1>3. ASSUME NEW w \in Workers, NEW item \in todo[w], Call(w, item) PROVE Monotone
  BY <1>3 DEF Call, AskConfirmations, RegisterAccepted, RegisterRefused, RegisterInsufficient,
              PostAccepted, PostRefused, apiVars, chainVars
<1>4. CASE World
  BY <1>4 DEF World, BackoffElapses, WebhookBackoffElapses, CommitmentConfirms, IdentityConfirms,
              apiVars, chainVars
<1>5. CASE UNCHANGED vars
  BY <1>5 DEF vars, apiVars, chainVars
<1> QED
  BY <1>1, <1>2, <1>3, <1>4, <1>5 DEF Next, Sweep

\* A snapshot's facts survive when no row of its request lost its idr_txid.
KeepsTxid(r) ==
    \A row \in {reg'[r], draft'[r]} :
        row.status # "absent" =>
            \E old \in {reg[r], draft[r]} : old.status # "absent" /\ (old.idr_txid => row.idr_txid)

\* A snapshot's facts survive a monotone step that keeps its row and its txid.
LEMMA ItemFactsStable ==
    ASSUME TypeInv, Monotone, NEW item \in Item, ItemFacts(item),
           item.status = "idr_submitted" => KeepsTxid(item.id)
    PROVE  ItemFacts(item)'
<1>1. item.id \in Requests /\ NameOf[item.id] \in Names /\ item.id # NoRequest
  BY ConstantsAssumption DEF Item
<1> QED
  BY <1>1 DEF ItemFacts, Monotone, KeepsTxid

\* Commitments stay confirmed, so what was registered stays registered rightly.
LEMMA CommitmentFirstStable ==
    ASSUME TypeInv, Monotone, CommitmentFirst, UNCHANGED owner
    PROVE  CommitmentFirst'
  BY DEF CommitmentFirst, Monotone

\* Recording an answer keeps the row's facts, its transaction id and its existence.
LEMMA RecordedFacts ==
    ASSUME NEW item \in Item, NEW row \in Row, NEW a \in AnswersFor(item.status), a # "insufficient",
           RowFacts(row, item.id), ItemFacts(item), AnswerFacts(item, a),
           row.status # "absent",
           item.status = "idr_submitted" => row.idr_txid
    PROVE  /\ RowFacts(Recorded(row, item, a), item.id)
           /\ Recorded(row, item, a).status # "absent"
           /\ row.idr_txid => Recorded(row, item, a).idr_txid
<1> USE DEF AnswersFor, RowFacts, ItemFacts, AnswerFacts, Live, Terminal
<1>1. item.status \in Live \cup Terminal
  BY DEF Item
<1>2. ASSUME NEW s \in Live \cup Terminal
      PROVE  /\ Promoted(row, s).status = s
             /\ Promoted(row, s).idr_txid = row.idr_txid
  BY DEF Promoted, Row
<1>3. CASE a = "confirmed" /\ item.status = "pending_rnc_confirm"
  <2>1. Recorded(row, item, a) = Promoted(row, "ready_for_idr")
    BY <1>3 DEF Recorded
  <2> QED
    BY <1>2, <1>3, <2>1
<1>4. CASE a = "confirmed" /\ item.status = "idr_submitted"
  <2>1. Recorded(row, item, a) = Promoted(row, "complete")
    BY <1>4 DEF Recorded
  <2> QED
    BY <1>2, <1>4, <2>1
<1>5. CASE a = "accepted"
  <2> DEFINE new == [Promoted(row, "idr_submitted") EXCEPT !.idr_txid = TRUE]
  <2>1. new.status = "idr_submitted" /\ new.idr_txid
    BY DEF Promoted, Row
  <2>2. Recorded(row, item, a) = new
    BY <1>5 DEF Recorded
  <2> QED
    BY <1>5, <2>1, <2>2
<1>6. CASE a = "exists"
  <2>1. Recorded(row, item, a) = Promoted(row, "complete")
    BY <1>6 DEF Recorded
  <2> QED
    BY <1>2, <1>6, <2>1
<1>7. CASE a = "ok"
  <2>1. /\ Recorded(row, item, a).status = row.status
        /\ Recorded(row, item, a).idr_txid = row.idr_txid
    BY <1>7 DEF Recorded, Row
  <2> QED
    BY <2>1
<1>8. CASE a = "error" /\ item.status \in Live
  <2>1. /\ RetryOrFailure(row, item.attempts, item.status).status \in {item.status, "failed"}
        /\ RetryOrFailure(row, item.attempts, item.status).idr_txid = row.idr_txid
    BY DEF RetryOrFailure, Row
  <2>2. Recorded(row, item, a) = RetryOrFailure(row, item.attempts, item.status)
    BY <1>8 DEF Recorded
  <2> QED
    BY <1>8, <2>1, <2>2
<1>9. CASE a = "error" /\ item.status \in Terminal
  <2>1. /\ WebhookRetryOrFailure(row, item.attempts).status = row.status
        /\ WebhookRetryOrFailure(row, item.attempts).idr_txid = row.idr_txid
    BY DEF WebhookRetryOrFailure, Row
  <2>2. Recorded(row, item, a) = WebhookRetryOrFailure(row, item.attempts)
    BY <1>9 DEF Recorded
  <2> QED
    BY <1>9, <2>1, <2>2
<1> QED
  BY <1>1, <1>3, <1>4, <1>5, <1>6, <1>7, <1>8, <1>9

\* With no row, no snapshot and an empty chain the invariant says nothing.
LEMMA InitInd == Init => IndInv
  BY ConstantsAssumption, AbsentRowType
     DEF Init, IndInv, RowFacts, LockFacts, CommitmentFirst, AbsentRow

\* A step that touches neither rows nor sweeps keeps the invariant, once it is
\* monotone and respects the post and commitment conjuncts.
LEMMA OutsideStep ==
    ASSUME TypeInv, TypeInv', IndInv, Monotone, UNCHANGED <<dbVars, sweepVars, owner>>,
           \A r \in Requests : post'[r] \in {"new", "checked"} => rncTx'[r] = "none"
    PROVE  IndInv'
<1>1. ASSUME NEW r \in Requests
      PROVE  RowFacts(reg[r], r)' /\ RowFacts(draft[r], r)' /\ LockFacts(r)'
  <2>1. reg[r] \in Row /\ draft[r] \in Row /\ RowFacts(reg[r], r) /\ RowFacts(draft[r], r) /\ LockFacts(r)
    BY DEF IndInv, TypeInv, TypeOK
  <2>2. reg' = reg /\ draft' = draft /\ holder' = holder
    BY DEF dbVars
  <2>3. RowFacts(reg[r], r)' /\ RowFacts(draft[r], r)'
    BY <2>1, <2>2, ConstantsAssumption DEF RowFacts, Monotone
  <2> QED
    BY <2>1, <2>2, <2>3 DEF LockFacts, Exists
<1>2. ASSUME NEW w \in Workers, NEW item \in todo'[w] PROVE ItemFacts(item)'
  <2>1. item \in Item /\ ItemFacts(item) /\ item.id \in Requests
    BY DEF IndInv, TypeInv, TypeOK, sweepVars, Item
  <2>2. KeepsTxid(item.id)
    BY <2>1 DEF KeepsTxid, dbVars
  <2> QED
    BY <2>1, <2>2, ItemFactsStable
<1>3. ASSUME NEW w \in Workers, doing'[w] # NoItem PROVE AnswerFacts(doing[w], answer[w])'
  <2>1. doing' = doing /\ answer' = answer
    BY DEF sweepVars
  <2>2. doing[w] \in Item /\ AnswerFacts(doing[w], answer[w])
    BY <1>3, <2>1 DEF IndInv, TypeInv, TypeOK
  <2>3. doing[w].id \in Requests /\ NameOf[doing[w].id] \in Names /\ doing[w].id # NoRequest
    BY <2>2, ConstantsAssumption DEF Item
  <2> QED
    BY <2>1, <2>2, <2>3 DEF AnswerFacts, Monotone
<1>4. CommitmentFirst'
  BY CommitmentFirstStable DEF IndInv
<1> QED
  BY <1>1, <1>2, <1>3, <1>4 DEF IndInv

\* A statement of the API that leaves the chain and the sweeps alone keeps the
\* invariant when the row it writes has its facts and loses no idr_txid.
LEMMA ApiWriteStep ==
    ASSUME TypeInv, TypeInv', IndInv, Monotone, UNCHANGED <<sweepVars, chainVars>>,
           \A r \in Requests : post'[r] \in {"new", "checked"} => post[r] \in {"new", "checked"},
           NEW q \in Requests, NEW row \in Row, ApiWrite(q, row),
           RowFacts(row, q)',
           \/ row.status = "absent"
           \/ post[q] # "stored"
           \/ reg[q].status # "absent" /\ (reg[q].idr_txid => row.idr_txid)
    PROVE  IndInv'
<1> USE DEF TypeInv, TypeOK
<1>0. /\ reg'[q] = row /\ draft'[q] = row /\ holder' = holder /\ holder[q] = NoWorker
      /\ \A r \in Requests \ {q} : reg'[r] = reg[r] /\ draft'[r] = draft[r]
  BY DEF ApiWrite
<1>1. ASSUME NEW r \in Requests
      PROVE  RowFacts(reg[r], r)' /\ RowFacts(draft[r], r)' /\ LockFacts(r)'
  <2>1. CASE r = q
    BY <1>0, <2>1 DEF RowFacts, LockFacts
  <2>2. CASE r # q
    <3>1. reg[r] \in Row /\ draft[r] \in Row /\ RowFacts(reg[r], r) /\ RowFacts(draft[r], r) /\ LockFacts(r)
      BY DEF IndInv
    <3>2. RowFacts(reg[r], r)' /\ RowFacts(draft[r], r)'
      BY <1>0, <2>2, <3>1, ConstantsAssumption DEF RowFacts, Monotone
    <3> QED
      BY <1>0, <2>2, <3>1, <3>2 DEF LockFacts, Exists
  <2> QED
    BY <2>1, <2>2
<1>2. ASSUME NEW w \in Workers, NEW item \in todo'[w] PROVE ItemFacts(item)'
  <2>1. item \in Item /\ ItemFacts(item) /\ item.id \in Requests
    BY DEF IndInv, sweepVars, Item
  <2>2. KeepsTxid(item.id)
    BY <1>0, <2>1 DEF KeepsTxid, ItemFacts
  <2> QED
    BY <2>1, <2>2, ItemFactsStable
<1>3. ASSUME NEW w \in Workers, doing'[w] # NoItem PROVE AnswerFacts(doing[w], answer[w])'
  <2>1. doing' = doing /\ answer' = answer
    BY DEF sweepVars
  <2>2. doing[w] \in Item /\ AnswerFacts(doing[w], answer[w])
    BY <1>3, <2>1 DEF IndInv
  <2> QED
    BY <2>1, <2>2 DEF AnswerFacts, chainVars
<1>4. CommitmentFirst'
  BY DEF IndInv, CommitmentFirst, chainVars
<1>5. ASSUME NEW r \in Requests, post'[r] \in {"new", "checked"} PROVE rncTx'[r] = "none"
  BY <1>5 DEF IndInv, chainVars
<1> QED
  BY <1>1, <1>2, <1>3, <1>4, <1>5 DEF IndInv

\* The handlers of the API keep the invariant.
LEMMA ApiInd ==
    ASSUME TypeInv, TypeInv', IndInv, Monotone, NEW r \in Requests, Api(r)
    PROVE  IndInv'
<1> USE DEF TypeInv, TypeOK
<1>1. CASE Precheck(r) \/ InsertLost(r) \/ RequeueCheck(r)
  BY <1>1, OutsideStep DEF Precheck, InsertLost, RequeueCheck, IndInv, chainVars
<1>2. CASE Commitment(r)
  <2>1. \A q \in Requests : post'[q] \in {"new", "checked"} => q # r /\ rncTx'[q] = "none"
    BY <1>2 DEF Commitment, IndInv
  <2> QED
    BY <1>2, <2>1, OutsideStep DEF Commitment
<1>3. CASE InsertRegistration(r)
  <2> DEFINE row == [AbsentRow EXCEPT !.status = "pending_rnc_confirm"]
  <2>1. row \in Row /\ row.status = "pending_rnc_confirm"
    BY AbsentRowType DEF Row, Statuses, Live
  <2>2. RowFacts(row, r)'
    BY <1>3, <2>1 DEF InsertRegistration, RowFacts
  <2>3. /\ post[r] # "stored"
        /\ \A q \in Requests : post'[q] \in {"new", "checked"} => post[q] \in {"new", "checked"}
    BY <1>3 DEF InsertRegistration
  <2>4. ApiWrite(r, row) /\ UNCHANGED <<sweepVars, chainVars>>
    BY <1>3 DEF InsertRegistration
  <2> HIDE DEF row
  <2> QED
    BY <2>1, <2>2, <2>3, <2>4, ApiWriteStep
<1>4. CASE DeleteRegistration(r)
  <2>1. AbsentRow.status = "absent"
    BY DEF AbsentRow
  <2>2. RowFacts(AbsentRow, r)'
    BY <2>1 DEF RowFacts
  <2>3. ApiWrite(r, AbsentRow) /\ UNCHANGED <<sweepVars, chainVars>> /\ UNCHANGED post
    BY <1>4 DEF DeleteRegistration, apiVars
  <2> QED
    BY <2>1, <2>2, <2>3, AbsentRowType, ApiWriteStep
<1>5. CASE RequeueReset(r)
  <2>1. CASE UNCHANGED dbVars
    BY <1>5, <2>1, OutsideStep DEF RequeueReset, IndInv, chainVars
  <2>2. CASE ~UNCHANGED dbVars
    <3>0. \A old \in Row :
             LET new == [old EXCEPT !.delivered = FALSE, !.webhookAttempts = 0, !.webhookBackoff = FALSE]
             IN  new \in Row /\ new.status = old.status /\ new.idr_txid = old.idr_txid
      BY DEF Row
    <3>1. PICK row \in Row :
             /\ row = [reg[r] EXCEPT !.delivered = FALSE, !.webhookAttempts = 0, !.webhookBackoff = FALSE]
             /\ row.status = reg[r].status /\ row.idr_txid = reg[r].idr_txid
      BY <3>0
    <3>2. ApiWrite(r, row) /\ Exists(r) /\ UNCHANGED <<sweepVars, chainVars>> /\ UNCHANGED post
      BY <1>5, <2>2, <3>1 DEF RequeueReset
    <3>3. RowFacts(row, r)'
      BY <3>1, <3>2 DEF RowFacts, IndInv, chainVars
    <3> QED
      BY <3>1, <3>2, <3>3, ApiWriteStep DEF Exists
  <2> QED
    BY <2>1, <2>2
<1> QED
  BY <1>1, <1>2, <1>3, <1>4, <1>5 DEF Api

\* Reading the table: a new snapshot inherits the facts of the committed row.
LEMMA SelectInd ==
    ASSUME TypeInv, TypeInv', IndInv, Monotone, NEW w \in Workers,
           NEW from, NEW to, NEW rows \in SUBSET Item, Select(w, from, to, rows),
           \A item \in rows : item.status = reg[item.id].status
    PROVE  IndInv'
<1> USE DEF TypeInv, TypeOK
<1>0. UNCHANGED <<dbVars, post, rowVars, chainVars>> /\ todo' = [todo EXCEPT ![w] = @ \cup rows]
  BY DEF Select, apiVars
<1>1. ASSUME NEW v \in Workers, NEW item \in todo'[v] PROVE ItemFacts(item)'
  <2>1. CASE item \in todo[v]
    BY <1>0, <2>1 DEF IndInv, ItemFacts, dbVars, chainVars
  <2>2. CASE item \in rows
    <3>1. item.id \in Requests /\ item.status # "absent"
      BY <2>2 DEF Item, Live, Terminal
    <3>2. item.status = reg[item.id].status /\ RowFacts(reg[item.id], item.id)
      BY <2>2, <3>1 DEF IndInv
    <3>3. LockFacts(item.id)
      BY <3>1 DEF IndInv
    <3>4. item.status = "idr_submitted" => draft[item.id].idr_txid
      BY <3>2, <3>3 DEF RowFacts, LockFacts
    <3> QED
      BY <1>0, <3>1, <3>2, <3>4 DEF ItemFacts, RowFacts, dbVars, chainVars
  <2> QED
    BY <1>0, <2>1, <2>2
<1> QED
  BY <1>0, <1>1 DEF IndInv, RowFacts, LockFacts, Exists, AnswerFacts, CommitmentFirst,
                    dbVars, rowVars, chainVars

\* A row's answer arrives: only "doing" and "answer" of one sweep change, and the
\* chain if the daemon took the identity.
LEMMA CallInd ==
    ASSUME TypeInv, TypeInv', IndInv, Monotone, NEW w \in Workers, NEW item \in todo[w], Call(w, item)
    PROVE  IndInv'
<1> USE DEF TypeInv, TypeOK
<1>0. item \in Item /\ item.id \in Requests /\ NameOf[item.id] \in Names /\ ItemFacts(item)
  BY ConstantsAssumption DEF Item, IndInv
<1>1. UNCHANGED <<dbVars, post, rncTx, inChain>> /\ \A v \in Workers : todo'[v] \subseteq todo[v]
  BY DEF Call, AskConfirmations, RegisterAccepted, RegisterRefused, RegisterInsufficient,
         PostAccepted, PostRefused, apiVars, chainVars
<1>2. ASSUME NEW r \in Requests
      PROVE  /\ RowFacts(reg[r], r)' /\ RowFacts(draft[r], r)' /\ LockFacts(r)'
             /\ post'[r] \in {"new", "checked"} => rncTx'[r] = "none"
  <2>1. /\ RowFacts(reg[r], r) /\ RowFacts(draft[r], r) /\ LockFacts(r)
        /\ post[r] \in {"new", "checked"} => rncTx[r] = "none"
    BY DEF IndInv
  <2>2. RowFacts(reg[r], r)' /\ RowFacts(draft[r], r)'
    BY <1>1, <2>1, ConstantsAssumption DEF RowFacts, Monotone, dbVars
  <2> QED
    BY <1>1, <2>1, <2>2 DEF LockFacts, Exists, dbVars
<1>3. ASSUME NEW v \in Workers, NEW i \in todo'[v] PROVE ItemFacts(i)'
  <2>1. i \in Item /\ ItemFacts(i) /\ i.id \in Requests
    BY <1>1 DEF IndInv, Item
  <2>2. KeepsTxid(i.id)
    BY <1>1, <2>1 DEF KeepsTxid, dbVars
  <2> QED
    BY <2>1, <2>2, ItemFactsStable
<1>4. ASSUME NEW v \in Workers, doing'[v] # NoItem PROVE AnswerFacts(doing[v], answer[v])'
  <2>1. CASE doing'[v] = doing[v] /\ answer'[v] = answer[v]
    <3>1. doing[v] \in Item /\ AnswerFacts(doing[v], answer[v])
      BY <1>4, <2>1 DEF IndInv
    <3>2. doing[v].id \in Requests /\ NameOf[doing[v].id] \in Names /\ doing[v].id # NoRequest
      BY <3>1, ConstantsAssumption DEF Item
    <3> QED
      BY <2>1, <3>1, <3>2 DEF AnswerFacts, Monotone
  <2>2. CASE ~(doing'[v] = doing[v] /\ answer'[v] = answer[v])
    <3>1. v = w
      BY <2>2 DEF Call, AskConfirmations, RegisterAccepted, RegisterRefused, RegisterInsufficient,
                  PostAccepted, PostRefused, Answered
    <3>2. PICK a : Answered(w, item, a) /\ AnswerFacts(item, a)'
      <4>1. CASE AskConfirmations(w, item)
        <5>1. CASE TxConfirmed(item) /\ Answered(w, item, "confirmed")
          <6>1. AnswerFacts(item, "confirmed")'
            BY <1>1, <4>1, <5>1 DEF AskConfirmations, TxConfirmed, AnswerFacts
          <6> QED
            BY <5>1, <6>1
        <5>2. CASE Answered(w, item, "error")
          BY <5>2 DEF AnswerFacts
        <5> QED
          BY <2>2, <3>1, <4>1, <5>1, <5>2 DEF AskConfirmations
      <4>2. CASE RegisterAccepted(w, item)
        <5>1. owner'[NameOf[item.id]] = item.id
          BY <1>0, <4>2 DEF RegisterAccepted
        <5>2. AnswerFacts(item, "accepted")' /\ AnswerFacts(item, "error")'
          BY <5>1 DEF AnswerFacts
        <5> QED
          BY <4>2, <5>2 DEF RegisterAccepted
      <4>3. CASE RegisterRefused(w, item)
        <5>1. AnswerFacts(item, "error")' /\ (NameOf[item.id] \in inChain => AnswerFacts(item, "exists")')
          BY <1>1 DEF AnswerFacts
        <5> QED
          BY <4>3, <5>1 DEF RegisterRefused
      <4>4. CASE RegisterInsufficient(w, item)
        <5>1. AnswerFacts(item, "error")' /\ AnswerFacts(item, "insufficient")'
          BY DEF AnswerFacts
        <5> QED
          BY <4>4, <5>1 DEF RegisterInsufficient
      <4>5. CASE PostAccepted(w, item) \/ PostRefused(w, item)
        <5>1. AnswerFacts(item, "error")' /\ AnswerFacts(item, "ok")'
          BY DEF AnswerFacts
        <5> QED
          BY <4>5, <5>1 DEF PostAccepted, PostRefused
      <4> QED
        BY <4>1, <4>2, <4>3, <4>4, <4>5 DEF Call
    <3>3. doing'[w] = item /\ answer'[w] = a
      BY <3>2 DEF Answered
    <3> QED
      BY <3>1, <3>2, <3>3 DEF AnswerFacts
  <2> QED
    BY <2>1, <2>2
<1>5. CommitmentFirst'
  <2>1. CASE UNCHANGED owner
    BY <2>1, CommitmentFirstStable DEF IndInv
  <2>2. CASE RegisterAccepted(w, item)
    BY <1>0, <1>1, <2>2, ConstantsAssumption
       DEF RegisterAccepted, MayRegister, ItemFacts, CommitmentFirst, IndInv
  <2> QED
    BY <2>1, <2>2 DEF Call, AskConfirmations, RegisterRefused, RegisterInsufficient,
                      PostAccepted, PostRefused, chainVars
<1> QED
  BY <1>2, <1>3, <1>4, <1>5 DEF IndInv

\* An UPDATE of a sweep: only the version of the row the sweep sees changes.
LEMMA RecordInd ==
    ASSUME TypeInv, TypeInv', IndInv, Monotone, NEW w \in Workers, Record(w)
    PROVE  IndInv'
<1> USE DEF TypeInv, TypeOK
<1>a. doing[w] \in Item
  BY DEF Record
<1>b. PICK item \in Item : item = doing[w]
  BY <1>a
<1>c. PICK r \in Requests : r = item.id
  BY <1>b DEF Item
<1>0. /\ item \in Item /\ item \in todo[w] /\ r \in Requests /\ answer[w] \in AnswersFor(item.status)
      /\ answer[w] # "insufficient" /\ ItemFacts(item) /\ AnswerFacts(item, answer[w])
      /\ RowFacts(draft[r], r) /\ RowFacts(reg[r], r) /\ LockFacts(r) /\ draft[r] \in Row
  BY <1>b, <1>c DEF Record, DoingOK, IndInv
<1>1. /\ UNCHANGED <<reg, post, chainVars>>
      /\ \A v \in Workers : todo'[v] \subseteq todo[v]
      /\ \A v \in Workers : doing'[v] # NoItem => doing'[v] = doing[v] /\ answer'[v] = answer[v]
  BY DEF Record, WorkerWrite, RowDone, apiVars, dbVars
<1>2. draft[r].status # "absent" =>
          /\ draft'[r] = Recorded(draft[r], item, answer[w])
          /\ RowFacts(draft'[r], r)
          /\ draft[r].idr_txid => draft'[r].idr_txid
  <2> SUFFICES ASSUME draft[r].status # "absent"
               PROVE  /\ draft'[r] = Recorded(draft[r], item, answer[w])
                      /\ RowFacts(draft'[r], r)
                      /\ draft[r].idr_txid => draft'[r].idr_txid
    OBVIOUS
  <2>1. draft'[r] = Recorded(draft[r], item, answer[w])
    BY <1>b, <1>c DEF Record, WorkerWrite
  <2>2. item.status = "idr_submitted" => draft[r].idr_txid
    BY <1>0, <1>c DEF ItemFacts
  <2> QED
    BY <1>0, <1>c, <2>1, <2>2, RecordedFacts
<1>3. /\ draft[r].status = "absent" => UNCHANGED dbVars
      /\ draft[r].status # "absent" => holder' = [holder EXCEPT ![r] = w]
      /\ holder[r] \in {w, NoWorker}
      /\ \A q \in Requests \ {r} : draft'[q] = draft[q] /\ holder'[q] = holder[q]
  BY <1>b, <1>c DEF Record, WorkerWrite, dbVars
<1>4. ASSUME NEW q \in Requests
      PROVE  /\ RowFacts(reg[q], q)' /\ RowFacts(draft[q], q)' /\ LockFacts(q)'
             /\ post'[q] \in {"new", "checked"} => rncTx'[q] = "none"
  <2>1. /\ RowFacts(reg[q], q) /\ RowFacts(draft[q], q) /\ LockFacts(q)
        /\ post[q] \in {"new", "checked"} => rncTx[q] = "none"
    BY DEF IndInv
  <2>2. CASE q # r \/ draft[r].status = "absent"
    BY <1>1, <1>3, <2>1, <2>2 DEF RowFacts, LockFacts, Exists, chainVars, dbVars
  <2>3. CASE q = r /\ draft[r].status # "absent"
    <3>1. RowFacts(reg[q], q)' /\ RowFacts(draft[q], q)'
      BY <1>1, <1>2, <2>1, <2>3 DEF RowFacts, chainVars
    <3>2. holder'[r] = w /\ w # NoWorker
      BY <1>0, <1>3, <2>3, ConstantsAssumption
    <3>3. Exists(r)' /\ (reg'[r].idr_txid => draft'[r].idr_txid)
      BY <1>0, <1>1, <1>2, <2>3 DEF LockFacts, Exists
    <3> QED
      BY <1>1, <2>1, <2>3, <3>1, <3>2, <3>3 DEF LockFacts, chainVars
  <2> QED
    BY <2>2, <2>3
<1>5. ASSUME NEW v \in Workers, NEW i \in todo'[v] PROVE ItemFacts(i)'
  <2>1. i \in Item /\ ItemFacts(i) /\ i.id \in Requests
    BY <1>1 DEF IndInv, Item
  <2>2. KeepsTxid(i.id)
    BY <1>0, <1>1, <1>2, <1>3, <2>1 DEF KeepsTxid, dbVars
  <2> QED
    BY <2>1, <2>2, ItemFactsStable
<1>6. ASSUME NEW v \in Workers, doing'[v] # NoItem PROVE AnswerFacts(doing[v], answer[v])'
  BY <1>1, <1>6 DEF IndInv, AnswerFacts, chainVars
<1>7. CommitmentFirst'
  BY <1>1 DEF IndInv, CommitmentFirst, chainVars
<1> QED
  BY <1>4, <1>5, <1>6, <1>7 DEF IndInv

\* The end of a sweep makes the two versions of each row it holds agree again.
LEMMA EndInd ==
    ASSUME TypeInv, TypeInv', IndInv, Monotone, NEW w \in Workers, Commit(w) \/ Rollback(w)
    PROVE  IndInv'
<1> USE DEF TypeInv, TypeOK
<1>1. /\ UNCHANGED <<post, chainVars>>
      /\ \A v \in Workers : todo'[v] \subseteq todo[v]
      /\ \A v \in Workers : doing'[v] # NoItem => doing'[v] = doing[v] /\ answer'[v] = answer[v]
  BY DEF Commit, Rollback, EndSweep, apiVars
<1>2. ASSUME NEW q \in Requests
      PROVE  /\ reg'[q] \in {reg[q], draft[q]} /\ draft'[q] \in {reg[q], draft[q]}
             /\ holder[q] # w => reg'[q] = reg[q] /\ draft'[q] = draft[q] /\ holder'[q] = holder[q]
             /\ holder[q] = w => reg'[q] = draft'[q] /\ holder'[q] = NoWorker
  BY DEF Commit, Rollback, EndSweep
<1>3. ASSUME NEW q \in Requests
      PROVE  /\ RowFacts(reg[q], q)' /\ RowFacts(draft[q], q)' /\ LockFacts(q)'
             /\ post'[q] \in {"new", "checked"} => rncTx'[q] = "none"
  <2>1. /\ RowFacts(reg[q], q) /\ RowFacts(draft[q], q) /\ LockFacts(q)
        /\ post[q] \in {"new", "checked"} => rncTx[q] = "none"
    BY DEF IndInv
  <2>2. RowFacts(reg[q], q)' /\ RowFacts(draft[q], q)'
    BY <1>1, <1>2, <2>1 DEF RowFacts, chainVars
  <2>3. LockFacts(q)'
    BY <1>2, <2>1 DEF LockFacts, Exists
  <2> QED
    BY <1>1, <2>1, <2>2, <2>3 DEF chainVars
<1>4. ASSUME NEW v \in Workers, NEW i \in todo'[v] PROVE ItemFacts(i)'
  <2>1. i \in Item /\ ItemFacts(i) /\ i.id \in Requests
    BY <1>1 DEF IndInv, Item
  <2>2. KeepsTxid(i.id)
    BY <1>2, <2>1 DEF KeepsTxid
  <2> QED
    BY <2>1, <2>2, ItemFactsStable
<1>5. ASSUME NEW v \in Workers, doing'[v] # NoItem PROVE AnswerFacts(doing[v], answer[v])'
  BY <1>1, <1>5 DEF IndInv, AnswerFacts, chainVars
<1>6. CommitmentFirst'
  BY <1>1 DEF IndInv, CommitmentFirst, chainVars
<1> QED
  BY <1>3, <1>4, <1>5, <1>6 DEF IndInv

\* Time passes and transactions get mined.
LEMMA WorldInd ==
    ASSUME TypeInv, TypeInv', IndInv, Monotone, World
    PROVE  IndInv'
<1> USE DEF TypeInv, TypeOK
<1>1. ASSUME NEW r \in Requests, BackoffElapses(r) \/ WebhookBackoffElapses(r) PROVE IndInv'
  <2>1. ASSUME NEW q \in Requests
        PROVE  /\ reg'[q].status = reg[q].status /\ reg'[q].idr_txid = reg[q].idr_txid
               /\ draft'[q].status = draft[q].status /\ draft'[q].idr_txid = draft[q].idr_txid
               /\ draft[q] = reg[q] => draft'[q] = reg'[q]
    <3>1. \A row \in Row :
             LET a == [row EXCEPT !.backoff = FALSE]
                 b == [row EXCEPT !.webhookBackoff = FALSE]
             IN  a.status = row.status /\ a.idr_txid = row.idr_txid /\ b.status = row.status /\ b.idr_txid = row.idr_txid
      BY DEF Row
    <3>2. reg[q] \in Row /\ draft[q] \in Row
      OBVIOUS
    <3>3. CASE q # r
      BY <1>1, <3>3 DEF BackoffElapses, WebhookBackoffElapses
    <3>4. CASE q = r /\ BackoffElapses(r)
      <4>1. reg'[q] = [reg[q] EXCEPT !.backoff = FALSE] /\ draft'[q] = [draft[q] EXCEPT !.backoff = FALSE]
        BY <3>4 DEF BackoffElapses
      <4> QED
        BY <3>1, <3>2, <4>1
    <3>5. CASE q = r /\ WebhookBackoffElapses(r)
      <4>1. /\ reg'[q] = [reg[q] EXCEPT !.webhookBackoff = FALSE]
            /\ draft'[q] = [draft[q] EXCEPT !.webhookBackoff = FALSE]
        BY <3>5 DEF WebhookBackoffElapses
      <4> QED
        BY <3>1, <3>2, <4>1
    <3> QED
      BY <1>1, <3>3, <3>4, <3>5
  <2>2. UNCHANGED <<holder, post, sweepVars, chainVars>>
    BY <1>1 DEF BackoffElapses, WebhookBackoffElapses, apiVars
  <2>3. ASSUME NEW q \in Requests
        PROVE  /\ RowFacts(reg[q], q)' /\ RowFacts(draft[q], q)' /\ LockFacts(q)'
               /\ post'[q] \in {"new", "checked"} => rncTx'[q] = "none"
    <3>1. /\ RowFacts(reg[q], q) /\ RowFacts(draft[q], q) /\ LockFacts(q)
          /\ post[q] \in {"new", "checked"} => rncTx[q] = "none"
      BY DEF IndInv
    <3> QED
      BY <2>1, <2>2, <3>1 DEF RowFacts, LockFacts, Exists, chainVars
  <2>4. ASSUME NEW v \in Workers, NEW i \in todo'[v] PROVE ItemFacts(i)'
    <3>1. i \in Item /\ ItemFacts(i) /\ i.id \in Requests
      BY <2>2 DEF IndInv, Item, sweepVars
    <3>2. KeepsTxid(i.id)
      BY <2>1, <3>1 DEF KeepsTxid
    <3> QED
      BY <3>1, <3>2, ItemFactsStable
  <2>5. ASSUME NEW v \in Workers, doing'[v] # NoItem PROVE AnswerFacts(doing[v], answer[v])'
    BY <2>2, <2>5 DEF IndInv, AnswerFacts, chainVars, sweepVars
  <2>6. CommitmentFirst'
    BY <2>2 DEF IndInv, CommitmentFirst, chainVars
  <2> QED
    BY <2>3, <2>4, <2>5, <2>6 DEF IndInv
<1>2. ASSUME NEW r \in Requests, CommitmentConfirms(r) PROVE IndInv'
  <2>1. \A q \in Requests : post'[q] \in {"new", "checked"} => rncTx'[q] = "none"
    BY <1>2 DEF CommitmentConfirms, IndInv, apiVars
  <2> QED
    BY <1>2, <2>1, OutsideStep DEF CommitmentConfirms
<1>3. ASSUME NEW n \in Names, IdentityConfirms(n) PROVE IndInv'
  <2>1. \A q \in Requests : post'[q] \in {"new", "checked"} => rncTx'[q] = "none"
    BY <1>3 DEF IdentityConfirms, IndInv, apiVars
  <2> QED
    BY <1>3, <2>1, OutsideStep DEF IdentityConfirms
<1> QED
  BY <1>1, <1>2, <1>3 DEF World

\* Every step keeps the invariant: the lemmas above, one per group of actions.
LEMMA NextInd == TypeInv /\ IndInv /\ [Next]_vars => IndInv'
<1> SUFFICES ASSUME TypeInv, IndInv, [Next]_vars PROVE IndInv'
  OBVIOUS
<1>0. TypeInv' /\ Monotone
  BY NextType, NextMonotone
<1>1. ASSUME NEW r \in Requests, Api(r) PROVE IndInv'
  BY <1>0, <1>1, ApiInd
<1>2. ASSUME NEW w \in Workers, Read(w) PROVE IndInv'
  <2>1. ASSUME NEW s \in Live
        PROVE  DueWith(s) \in SUBSET Item /\ \A item \in DueWith(s) : item.status = reg[item.id].status
    BY <2>1 DEF DueWith, Snapshot, Item, TypeInv, TypeOK, Row
  <2>2. DueWebhooks \in SUBSET Item /\ \A item \in DueWebhooks : item.status = reg[item.id].status
    BY ConstantsAssumption DEF DueWebhooks, Snapshot, Item, TypeInv, TypeOK, Row
  <2>3. PICK from, to : \E rows \in {{}, DueWebhooks} \cup {DueWith(s) : s \in Live} : Select(w, from, to, rows)
    BY <1>2 DEF Read, StartSweep, SelectReady, SelectPending, SelectSubmitted, SelectWebhooks, Live
  <2> QED
    BY <1>0, <2>1, <2>2, <2>3, SelectInd
<1>3. ASSUME NEW w \in Workers, NEW item \in todo[w], Call(w, item) PROVE IndInv'
  BY <1>0, <1>3, CallInd
<1>4. ASSUME NEW w \in Workers, Record(w) PROVE IndInv'
  BY <1>0, <1>4, RecordInd
<1>5. ASSUME NEW w \in Workers, Commit(w) \/ Fault(w) PROVE IndInv'
  <2>1. Commit(w) \/ Rollback(w)
    BY <1>5 DEF Fault, Crash, PreambleRaises, DeadlockVictim
  <2> QED
    BY <1>0, <2>1, EndInd
<1>6. CASE World
  BY <1>0, <1>6, WorldInd
<1>7. CASE UNCHANGED vars
  BY <1>7 DEF vars, dbVars, apiVars, sweepVars, chainVars, IndInv, RowFacts, LockFacts, Exists,
              ItemFacts, AnswerFacts, CommitmentFirst
<1> QED
  BY <1>1, <1>2, <1>3, <1>4, <1>5, <1>6, <1>7 DEF Next, Sweep

\* The inductive invariant: rows, snapshots and answers never claim of the chain
\* what is not so, however sweeps overlap, crash and race with the API.
THEOREM Inductive == Spec => [](TypeInv /\ IndInv)
  BY InitType, NextType, InitInd, NextInd, PTL DEF Spec

\* register_identity is only called for a request whose commitment is in the chain.
THEOREM CommitmentComesFirst == Spec => []CommitmentFirst
<1>1. IndInv => CommitmentFirst
  BY DEF IndInv
<1> QED
  BY <1>1, Inductive, PTL

\* No registration is reported complete while its name is not in the chain.
THEOREM CompleteIsRight == Spec => []CompleteIsOnChain
<1>1. IndInv => CompleteIsOnChain
  BY DEF IndInv, RowFacts, CompleteIsOnChain
<1> QED
  BY <1>1, Inductive, PTL

\* A submitted registration carries its own identity transaction.
THEOREM SubmittedIsRight == Spec => []SubmittedIsOwn
<1>1. IndInv => SubmittedIsOwn
  BY DEF IndInv, RowFacts, SubmittedIsOwn
<1> QED
  BY <1>1, Inductive, PTL

\* No commit of a sweep and no API statement brings a deleted registration back.
THEOREM DeletionIsFinal == Spec => DeletedStaysDeleted
<1> DEFINE Gone == \A r \in Requests : post[r] = "stored" /\ ~Exists(r) => ~Exists(r)'
<1>1. TypeInv /\ IndInv /\ [Next]_vars => [Gone]_vars
  <2> SUFFICES ASSUME TypeInv, IndInv, [Next]_vars, NEW r \in Requests, post[r] = "stored", ~Exists(r)
               PROVE  ~Exists(r)'
    OBVIOUS
  <2> USE DEF Exists, TypeInv, TypeOK
  <2>1. RowFacts(reg[r], r) /\ LockFacts(r)
    BY DEF IndInv
  <2>2. ASSUME NEW q \in Requests, Api(q) PROVE ~Exists(r)'
    <3>1. CASE UNCHANGED reg
      BY <3>1
    <3>2. CASE InsertRegistration(q)
      BY <3>2 DEF InsertRegistration, ApiWrite
    <3>3. CASE DeleteRegistration(q)
      BY <3>3 DEF DeleteRegistration, ApiWrite, AbsentRow
    <3>4. CASE RequeueReset(q)
      BY <3>4 DEF RequeueReset, ApiWrite, dbVars
    <3> QED
      BY <2>2, <3>1, <3>2, <3>3, <3>4 DEF Api, Precheck, Commitment, InsertLost, RequeueCheck, dbVars
  <2>3. ASSUME NEW w \in Workers, Commit(w) PROVE ~Exists(r)'
    BY <2>1, <2>3, ConstantsAssumption DEF Commit, LockFacts
  <2>4. ASSUME NEW w \in Workers, Read(w) \/ Record(w) \/ Fault(w) PROVE ~Exists(r)'
    <3>1. UNCHANGED reg
      BY <2>4 DEF Read, StartSweep, SelectReady, SelectPending, SelectSubmitted, SelectWebhooks, Select,
                  Record, WorkerWrite, Fault, Crash, PreambleRaises, DeadlockVictim, Rollback, dbVars
    <3> QED
      BY <3>1
  <2>5. ASSUME NEW w \in Workers, NEW item \in todo[w], Call(w, item) PROVE ~Exists(r)'
    BY <2>5 DEF Call, AskConfirmations, RegisterAccepted, RegisterRefused, RegisterInsufficient,
                PostAccepted, PostRefused, dbVars
  <2>6. CASE World
    <3>1. \A row \in Row : /\ [row EXCEPT !.backoff = FALSE].status = row.status
                           /\ [row EXCEPT !.webhookBackoff = FALSE].status = row.status
      BY DEF Row
    <3>2. ASSUME NEW q \in Requests, BackoffElapses(q) PROVE ~Exists(r)'
      <4>1. reg'[r] = reg[r] \/ reg'[r] = [reg[r] EXCEPT !.backoff = FALSE]
        BY <3>2 DEF BackoffElapses
      <4> QED
        BY <3>1, <4>1
    <3>3. ASSUME NEW q \in Requests, WebhookBackoffElapses(q) PROVE ~Exists(r)'
      <4>1. reg'[r] = reg[r] \/ reg'[r] = [reg[r] EXCEPT !.webhookBackoff = FALSE]
        BY <3>3 DEF WebhookBackoffElapses
      <4> QED
        BY <3>1, <4>1
    <3> QED
      BY <2>6, <3>2, <3>3 DEF World, CommitmentConfirms, IdentityConfirms, dbVars
  <2>7. CASE UNCHANGED vars
    BY <2>7 DEF vars, dbVars
  <2> QED
    BY <2>2, <2>3, <2>4, <2>5, <2>6, <2>7 DEF Next, Sweep
<1> QED
  BY <1>1, Inductive, PTL DEF Spec, DeletedStaysDeleted

=============================================================================
