----------------------- MODULE CurrencyPaidOnceProofs -----------------------
(***************************************************************************)
(* Theorems about what a currency request buys: PaidOnce, for any plans    *)
(* (a reserve listed twice included), amounts, dust threshold, retry limit *)
(* and number of faults.                                                   *)
(***************************************************************************)
EXTENDS CurrencyWorkflowProofs

-----------------------------------------------------------------------------
(* The inductive invariant: commitments and define funding.                *)

\* The row as the sweep has it, or as it is between sweeps.
Current == IF sweep = "idle" THEN row ELSE draft

Sites == {Token} \cup ReserveNames

\* What the daemon took of a kind for a name, failed or not.
Bought(kind, site) == {i \in DOMAIN txs : txs[i].kind = kind /\ txs[i].site = site}

\* The rung of a ladder after the one on which a commitment or the funding is sent.
RungAfter(kind) == IF kind = "commit" THEN 1 ELSE 3

\* The places of the plan at which the workflow has still to send this kind for a name.
Ahead(p, kind, site) ==
    IF site = Token THEN {k \in {0} : p.step < RungAfter(kind)}
    ELSE {k \in DOMAIN plan.reserves :
             /\ plan.reserves[k] = site
             /\ p.step <= 3
             /\ k > p.reserve + 1 \/ (k = p.reserve + 1 /\ p.phase < RungAfter(kind))}

\* What was sent and what is still to be sent make up one for each place and fault.
Billed(r, spare) ==
    r.status \in Live =>
        \A kind \in {"commit", "fund"}, site \in Sites :
            Cardinality(Bought(kind, site)) + Cardinality(Ahead(r.pos, kind, site))
                <= Places(site) + faults + spare

\* A row that a sweep has read and that is still there is the one at hand.
SameRow ==
    sweep \in Handling /\ row.status \in Live =>
        /\ draft.status = row.status /\ draft.pos = row.pos
        /\ draft.attempts = row.attempts /\ draft.pending = row.pending

\* If the sweep dies the row it has read is back, and there is a fault more.
BoughtOnce ==
    plan # <<>> =>
        /\ \A kind \in {"commit", "fund"}, site \in Sites :
              Cardinality(Bought(kind, site)) <= Places(site) + faults
        /\ Billed(Current, 0)
        /\ sweep # "idle" => Billed(row, 1)

-----------------------------------------------------------------------------
(* The inductive invariant: transfers.                                     *)

\* The transfers that carry a currency, failed or not, and how many they are.
Sent(c) == {i \in DOMAIN txs : txs[i].amount[c] > 0}
Times(c) == Cardinality(Sent(c))

\* The most that one attempt takes from a source.
Share(c) == Outputs(c) * Required[c]

\* The native source pays before the one of the reserves.
First(c) == c = Native /\ CreatesReserves

\* The attempts that the first source may have paid in.
Tried(r, c) == IF First(c) THEN r.attempts ELSE 0

\* A transfer that is waited for brings what is missing, or nothing is.
Brings(i, c) == IF txs[i].state = "mined" THEN balance[c] >= Required[c]
                ELSE txs[i].amount[c] + balance[c] >= Required[c]

Covered(waits, c) ==
    ~Lacks(c) \/ \E w \in waits : w.type # "none" /\ w.id \in Sent(c) /\ Brings(w.id, c)

\* Before the waits of a funding step are saved: a source pays by faults alone, the
\* first one also in each attempt; and before step 4 nothing is sent.
Owing(r, c, spare) ==
    /\ r.pending = {}
    /\ ~Simple => r.pos.step <= 4
    /\ Simple \/ r.pos.step < 4 \/ r.status \in Waiting => Times(c) = 0
    /\ Times(c) <= Tried(r, c) + faults + spare

Known(r, c, spare) == r.status \in Live => Covered(r.pending, c) \/ Owing(r, c, spare)

\* While transfers are sent: what is to be sent is all that is missing; what has been
\* sent is waited for, and the last source to pay has left nothing.
Sending(c) ==
    /\ toSend[c] <= Share(c)
    /\ toSend[c] > 0 => Owing(draft, c, 0) /\ toSend[c] + balance[c] >= Required[c]
    /\ toSend[c] = 0 =>
          \/ ~Lacks(c)
          \/ /\ Owing(draft, c, 1) /\ Covered(newWaits, c)
             /\ ~First(c) => \A d \in Currencies : toSend[d] = 0

AtHandKnown(c) ==
    CASE sweep = "sending"  -> Sending(c)
      [] sweep = "planning" -> ~Lacks(c) \/ Owing(draft, c, 0)
      [] OTHER              -> Known(Current, c, 0)

\* What the source of a currency that has enough for all attempts has paid.
PaysOnce(c) ==
    /\ funds[c] + Times(c) * Share(c) >= InitialFunds[c]
    /\ Times(c) <= Attempts(c) + faults
    /\ AtHandKnown(c)
    /\ sweep # "idle" => Known(row, c, 1)

\* Without reserves to create there is one source.
OnlyPrimaryPays ==
    sweep = "sending" /\ ~CreatesReserves =>
        \A c \in Currencies : toSend[c] > 0 => Source(c) = "primary"

\* What is true of all currencies; before the request all sources have what they had.
EnoughPayOnce ==
    /\ plan = <<>> => \A c \in Currencies : funds[c] >= InitialFunds[c]
    /\ plan # <<>> => \A c \in Currencies : Enough(c) => PaysOnce(c)

-----------------------------------------------------------------------------
(* Counting.                                                               *)

\* The daemon's list is finite, and so is each part of it.
LEMMA BoughtIsFinite ==
    ASSUME TypeInv, NEW S \in SUBSET DOMAIN txs
    PROVE  IsFiniteSet(S) /\ Cardinality(S) \in Nat
<1>1. IsFiniteSet(DOMAIN txs)
  <2>1. txs \in Seq(Tx)
    BY DEF TypeInv, TypeOK
  <2>2. DOMAIN txs = 1 .. Len(txs) /\ Len(txs) \in Nat
    BY <2>1
  <2> QED
    BY <2>2, FS_Interval
<1>2. IsFiniteSet(S)
  BY <1>1, FS_Subset
<1> QED
  BY <1>2, FS_CardinalityType

\* A call that the daemon takes is the last of its list, and the others stay.
LEMMA NewTx ==
    ASSUME TypeInv, NEW kind \in {"commit", "identity", "fund", "define", "transfer"},
           NEW site \in Sites, NEW amount \in [Currencies -> Nat],
           NEW state \in {"executing", "failed", "mempool", "mined"},
           Taken(kind, site, amount, state)
    PROVE  /\ DOMAIN txs' = DOMAIN txs \cup {NextTx} /\ NextTx \notin DOMAIN txs
           /\ \A i \in DOMAIN txs : txs'[i] = txs[i]
           /\ txs'[NextTx].kind = kind /\ txs'[NextTx].site = site
           /\ txs'[NextTx].amount = amount /\ txs'[NextTx].state = state
<1> DEFINE new == [kind |-> kind, site |-> site, amount |-> amount, state |-> state,
                   rnc |-> IF kind = "identity" THEN draft.rnc ELSE 0]
<1>1. txs \in Seq(Tx) /\ draft.rnc \in Nat
  BY DEF TypeInv, TypeOK, Row
<1>2. new \in Tx
  BY <1>1 DEF Tx, Sites
<1>3. txs' = Append(txs, new)
  BY DEF Taken
<1>4. new.kind = kind /\ new.site = site /\ new.amount = amount /\ new.state = state
  OBVIOUS
<1> HIDE DEF new
<1>5. /\ txs' \in Seq(Tx) /\ Len(txs') = Len(txs) + 1
      /\ \A i \in 1 .. Len(txs) : txs'[i] = txs[i]
      /\ txs'[Len(txs) + 1] = new
  BY <1>1, <1>2, <1>3, AppendProperties
<1>6. /\ NextTx = Len(txs) + 1 /\ Len(txs) \in Nat
      /\ DOMAIN txs' = 1 .. Len(txs) + 1 /\ DOMAIN txs = 1 .. Len(txs)
  BY <1>1, <1>5 DEF NextTx
<1> QED
  BY <1>4, <1>5, <1>6

\* A call that the daemon takes adds one to what it bought, and nothing to the rest.
LEMMA BoughtOneMore ==
    ASSUME TypeInv, NEW kind \in {"commit", "identity", "fund", "define", "transfer"},
           NEW site \in Sites, NEW amount \in [Currencies -> Nat],
           NEW state \in {"executing", "failed", "mempool", "mined"},
           Taken(kind, site, amount, state)
    PROVE  \A k \in {"commit", "fund"}, s \in Sites :
              /\ k # kind \/ s # site => Bought(k, s)' = Bought(k, s)
              /\ Cardinality(Bought(k, s)') <= Cardinality(Bought(k, s)) + 1
              /\ Cardinality(Bought(k, s)') \in Nat
<1> SUFFICES ASSUME NEW k \in {"commit", "fund"}, NEW s \in Sites
             PROVE  /\ k # kind \/ s # site => Bought(k, s)' = Bought(k, s)
                    /\ Cardinality(Bought(k, s)') <= Cardinality(Bought(k, s)) + 1
                    /\ Cardinality(Bought(k, s)') \in Nat
  OBVIOUS
<1>1. /\ txs'[NextTx].kind = kind /\ txs'[NextTx].site = site
      /\ \A i \in DOMAIN txs : txs'[i] = txs[i]
  BY NewTx
<1>2. DOMAIN txs' = DOMAIN txs \cup {NextTx} /\ NextTx \notin DOMAIN txs
  BY NewTx
<1>3. Bought(k, s)' = Bought(k, s) \cup (IF k = kind /\ s = site THEN {NextTx} ELSE {})
  BY <1>1, <1>2 DEF Bought
<1>4. IsFiniteSet(Bought(k, s)) /\ Cardinality(Bought(k, s)) \in Nat
  BY BoughtIsFinite DEF Bought
<1>5. /\ Cardinality(Bought(k, s) \cup {NextTx}) <= Cardinality(Bought(k, s)) + 1
      /\ Cardinality(Bought(k, s) \cup {NextTx}) \in Nat
  <2>1. IsFiniteSet(Bought(k, s) \cup {NextTx})
    BY <1>4, FS_AddElement
  <2>2. Cardinality(Bought(k, s) \cup {NextTx}) \in Nat
    BY <2>1, FS_CardinalityType
  <2>3. Cardinality(Bought(k, s) \cup {NextTx})
           \in {Cardinality(Bought(k, s)), Cardinality(Bought(k, s)) + 1}
    BY <1>4, FS_AddElement, Zenon
  <2> QED
    BY <1>4, <2>2, <2>3
<1>6. CASE k = kind /\ s = site
  <2>1. Bought(k, s)' = Bought(k, s) \cup {NextTx}
    BY <1>3, <1>6
  <2>2. Cardinality(Bought(k, s)') = Cardinality(Bought(k, s) \cup {NextTx})
    BY <2>1, Zenon
  <2> QED
    BY <1>5, <1>6, <2>2
<1>7. CASE k # kind \/ s # site
  <2>1. Bought(k, s)' = Bought(k, s)
    BY <1>3, <1>7
  <2>2. Cardinality(Bought(k, s)') = Cardinality(Bought(k, s))
    BY <2>1, Zenon
  <2> QED
    BY <1>4, <2>1, <2>2
<1> QED
  BY <1>6, <1>7

-----------------------------------------------------------------------------
(* The ladders.                                                            *)

\* Where a step leads, counted in rungs, reserves and steps.
LEMMA AfterGoesOn ==
    ASSUME NEW p \in Position, NEW q, q = After(p)
    PROVE  /\ InReserves(p) =>
                /\ q.step = p.step
                /\ p.phase = 4 => q.reserve = p.reserve + 1 /\ q.phase = 0
                /\ p.phase # 4 => q.reserve = p.reserve /\ q.phase > p.phase
           /\ ~InReserves(p) =>
                q.step > p.step /\ q.reserve = p.reserve /\ q.phase = p.phase
<1>0. p.step \in 0 .. 6 /\ p.reserve \in Nat /\ p.phase \in 0 .. 4
  BY DEF Position
<1>1. CASE InReserves(p) /\ p.phase = 4
  <2>1. q = [p EXCEPT !.reserve = p.reserve + 1, !.phase = 0]
    BY <1>1 DEF After
  <2> QED
    BY <1>1, <2>1 DEF Position
<1>2. CASE InReserves(p) /\ p.phase # 4
  <2>1. PICK n \in 1 .. 5 : q = [p EXCEPT !.phase = n] /\ n > p.phase
    <3> DEFINE n == IF p.phase < 2 /\ Given(Site(p)) THEN 2 ELSE p.phase + 1
    <3>1. q = [p EXCEPT !.phase = n]
      BY <1>2 DEF After
    <3>2. n \in 1 .. 5 /\ n > p.phase
      BY <1>0
    <3> QED
      BY <3>1, <3>2
  <2> QED
    BY <1>2, <2>1 DEF Position
<1>3. CASE ~InReserves(p)
  <2>1. PICK n \in 1 .. 7 : q = [p EXCEPT !.step = n] /\ n > p.step
    <3> DEFINE n == IF p.step < 2 /\ Given(Token) THEN 2 ELSE p.step + 1
    <3>1. q = [p EXCEPT !.step = n]
      BY <1>3 DEF After
    <3>2. n \in 1 .. 7 /\ n > p.step
      BY <1>0
    <3> QED
      BY <3>1, <3>2
  <2> QED
    BY <1>3, <2>1 DEF Position
<1> QED
  BY <1>1, <1>2, <1>3

\* A step leaves nothing to be sent that was not before it.
LEMMA AheadShrinks ==
    ASSUME plan \in Plan, NEW p \in Position, PosOK(p), Task(p) \in Advancing,
           NEW kind \in {"commit", "fund"}, NEW site \in Sites
    PROVE  Ahead(After(p), kind, site) \subseteq Ahead(p, kind, site)
<1>0. p.step \in 0 .. 6 /\ p.reserve \in Nat /\ p.phase \in 0 .. 4 /\ RungAfter(kind) \in {1, 3}
  BY DEF Position, RungAfter
<1>1. PICK q : q = After(p)
  OBVIOUS
<1>2. q \in Position /\ q.step \in 0 .. 6 /\ q.reserve \in Nat /\ q.phase \in 0 .. 4
  BY <1>1, AfterIsPosition DEF Position
<1>3. InReserves(p) => p.step = 3
  BY DEF InReserves
<1>4. CASE site = Token
  BY <1>0, <1>1, <1>2, <1>3, <1>4, AfterGoesOn DEF Ahead
<1>5. CASE site # Token
  <2>1. ASSUME NEW k \in Ahead(q, kind, site) PROVE k \in Ahead(p, kind, site)
    <3>1. /\ k \in DOMAIN plan.reserves /\ plan.reserves[k] = site /\ q.step <= 3
          /\ k > q.reserve + 1 \/ (k = q.reserve + 1 /\ q.phase < RungAfter(kind))
      BY <1>5, <2>1 DEF Ahead
    <3>2. k \in Nat
      BY <3>1 DEF Plan
    <3>3. p.step <= 3 /\ (k > p.reserve + 1 \/ (k = p.reserve + 1 /\ p.phase < RungAfter(kind)))
      <4>1. CASE InReserves(p)
        BY <1>0, <1>1, <1>2, <1>3, <3>1, <3>2, <4>1, AfterGoesOn
      <4>2. CASE ~InReserves(p)
        BY <1>0, <1>1, <1>2, <3>1, <3>2, <4>2, AfterGoesOn
      <4> QED
        BY <4>1, <4>2
    <3> QED
      BY <1>5, <3>1, <3>3 DEF Ahead
  <2> QED
    BY <1>1, <2>1
<1> QED
  BY <1>4, <1>5

\* What is sent at a position was ahead at one place, which is behind the next one.
LEMMA TaskIsAhead ==
    ASSUME plan \in Plan, NEW p \in Position, PosOK(p),
           NEW kind \in {"commit", "fund"}, Task(p) = kind
    PROVE  \E k \in Ahead(p, kind, Site(p)) : k \notin Ahead(After(p), kind, Site(p))
<1>0. p.step \in 0 .. 6 /\ p.reserve \in Nat /\ p.phase \in 0 .. 4
  BY DEF Position
<1>1. PICK q : q = After(p)
  OBVIOUS
<1>2. q \in Position /\ q.step \in 0 .. 6 /\ q.reserve \in Nat /\ q.phase \in 0 .. 4
  BY <1>0, <1>1, AfterIsPosition DEF Position, Advancing
<1>3. CASE ~InReserves(p)
  <2>1. Site(p) = Token
    BY <1>3 DEF Site
  <2>2. \/ kind = "commit" /\ p.step = 0
        \/ kind = "fund" /\ Simple /\ p.step = 2
    BY <1>0, <1>3, TasksInOrder DEF PosOK
  <2>3. 0 \in Ahead(p, kind, Token) /\ 0 \notin Ahead(q, kind, Token)
    BY <1>0, <1>1, <1>2, <1>3, <2>2, AfterGoesOn DEF Ahead, RungAfter
  <2> QED
    BY <1>1, <2>1, <2>3
<1>4. CASE InReserves(p)
  <2>1. /\ p.step = 3 /\ ~Simple /\ p.reserve < Len(plan.reserves)
        /\ Site(p) = plan.reserves[p.reserve + 1]
    BY <1>4 DEF InReserves, Site
  <2>2. plan.reserves \in Seq(ReserveNames) /\ p.reserve + 1 \in DOMAIN plan.reserves
    BY <1>0, <2>1 DEF Plan
  <2>3. Site(p) # Token
    <3>1. Site(p) \in ReserveNames
      BY <1>4, <2>1, TasksInOrder
    <3> QED
      BY <3>1, CurrencyAssumption DEF Currencies
  <2>4. \/ kind = "commit" /\ p.phase = 0
        \/ kind = "fund" /\ p.phase = 2
    BY <1>0, <1>4, <2>1, TasksInOrder
  <2>5. p.reserve + 1 \in Ahead(p, kind, Site(p))
    BY <2>1, <2>2, <2>3, <2>4 DEF Ahead, RungAfter
  <2>6. q.reserve = p.reserve /\ q.phase > p.phase /\ ~(q.phase < RungAfter(kind))
    BY <1>0, <1>1, <1>2, <1>4, <2>4, AfterGoesOn DEF RungAfter
  <2>7. p.reserve + 1 \notin Ahead(q, kind, Site(p))
    BY <1>0, <2>3, <2>6 DEF Ahead
  <2> QED
    BY <1>1, <2>5, <2>7
<1> QED
  BY <1>3, <1>4

\* What is ahead is no more than the places of the plan.
LEMMA AheadType ==
    ASSUME TypeInv, plan # <<>>, NEW p, NEW kind \in {"commit", "fund"}, NEW site \in Sites
    PROVE  /\ IsFiniteSet(Ahead(p, kind, site)) /\ Cardinality(Ahead(p, kind, site)) \in Nat
           /\ Places(site) \in Nat /\ Cardinality(Ahead(p, kind, site)) <= Places(site)
<1>1. CASE site = Token
  <2>1. IsFiniteSet({0}) /\ Cardinality({0}) = 1
    BY FS_Singleton
  <2>2. PICK S : S = Ahead(p, kind, site) /\ S \subseteq {0}
    BY <1>1 DEF Ahead
  <2>3. IsFiniteSet(S) /\ Cardinality(S) <= 1 /\ Cardinality(S) \in Nat
    BY <2>1, <2>2, FS_Subset, FS_CardinalityType
  <2> QED
    BY <1>1, <2>2, <2>3 DEF Places
<1>2. CASE site # Token
  <2>1. PICK T : T = {i \in DOMAIN plan.reserves : plan.reserves[i] = site}
    OBVIOUS
  <2>2. IsFiniteSet(T)
    <3>1. plan.reserves \in Seq(ReserveNames)
      BY CurrencyAssumption DEF TypeInv, TypeOK, Plan
    <3>2. DOMAIN plan.reserves = 1 .. Len(plan.reserves) /\ Len(plan.reserves) \in Nat
      BY <3>1
    <3>3. IsFiniteSet(DOMAIN plan.reserves)
      BY <3>2, FS_Interval
    <3> QED
      BY <2>1, <3>3, FS_Subset
  <2>3. PICK S : S = Ahead(p, kind, site) /\ S \subseteq T
    BY <1>2, <2>1 DEF Ahead
  <2>4. IsFiniteSet(S) /\ Cardinality(S) <= Cardinality(T) /\ Cardinality(S) \in Nat /\ Cardinality(T) \in Nat
    BY <2>2, <2>3, FS_Subset, FS_CardinalityType
  <2>5. Places(site) = Cardinality(T)
    BY <1>2, <2>1 DEF Places, Listed
  <2> QED
    BY <2>3, <2>4, <2>5
<1> QED
  BY <1>1, <1>2

\* Less is ahead where it is part of what was, and less by one at least where one of
\* its places is not there.
LEMMA FewerAhead ==
    ASSUME NEW S, NEW T, IsFiniteSet(T), S \subseteq T
    PROVE  /\ Cardinality(S) \in Nat /\ Cardinality(T) \in Nat /\ Cardinality(S) <= Cardinality(T)
           /\ \A k \in T : k \notin S => Cardinality(S) + 1 <= Cardinality(T)
<1>1. Cardinality(S) \in Nat /\ Cardinality(T) \in Nat /\ Cardinality(S) <= Cardinality(T)
  BY FS_Subset, FS_CardinalityType
<1>2. ASSUME NEW k \in T, k \notin S PROVE Cardinality(S) + 1 <= Cardinality(T)
  <2>1. Cardinality(S) # Cardinality(T)
    BY <1>2, FS_Subset
  <2> QED
    BY <1>1, <2>1
<1> QED
  BY <1>1, <1>2

-----------------------------------------------------------------------------
(* What a step writes.                                                     *)

\* The position of a row that a step has written: the same, the next one or, when
\* transfers have been sent, one after all ladders but the token's definition.
Moved(r) ==
    \/ r.status \notin Live
    \/ r.pos = draft.pos
    \/ Task(draft.pos) \in Advancing /\ r.pos = After(draft.pos)
    \/ r.pos.step \in {4, 5}

\* Nothing more is to be sent than before.
LEMMA MovedShrinks ==
    ASSUME TypeInv, sweep \in Handling, NEW r, Moved(r), r.status \in Live,
           NEW kind \in {"commit", "fund"}, NEW site \in Sites
    PROVE  Ahead(r.pos, kind, site) \subseteq Ahead(draft.pos, kind, site)
<1>1. plan \in Plan /\ draft.pos \in Position /\ PosOK(draft.pos)
  BY AtHand
<1>2. CASE r.pos.step \in {4, 5}
  <2>1. Ahead(r.pos, kind, site) = {}
    BY <1>2 DEF Ahead, RungAfter
  <2> QED
    BY <2>1
<1> QED
  BY <1>1, <1>2, AheadShrinks DEF Moved

\* The transactions are bought by the same kinds and names.
SamePurchases == \A k \in {"commit", "fund"}, s \in Sites : Bought(k, s)' = Bought(k, s)

\* Faults are counted.
LEMMA FaultsCount ==
    ASSUME TypeInv
    PROVE  faults \in Nat /\ (faults' = faults => faults' \in Nat /\ faults' >= faults)
           /\ (faults' = faults + 1 => faults' \in Nat /\ faults' > faults /\ faults' >= faults)
<1>1. faults \in Nat
  BY DEF TypeInv, TypeOK
<1>2. \A f \in Nat : f >= f /\ f + 1 \in Nat /\ f + 1 > f /\ f + 1 >= f
  OBVIOUS
<1> QED
  BY <1>1, <1>2, Zenon

\* The row at hand after a step has no more ahead; or it is the one that a sweep that
\* has died had read.
Onward(r) ==
    \/ r.status \notin Live
    \/ /\ Current.status \in Live
       /\ \A kind \in {"commit", "fund"}, site \in Sites :
             Ahead(r.pos, kind, site) \subseteq Ahead(Current.pos, kind, site)
    \/ sweep # "idle" /\ row.status \in Live /\ r.pos = row.pos /\ faults' = faults + 1

\* The row that the sweep has read is still the one it has read, or becomes it.
StillRead(q) ==
    \/ q.status \notin Live
    \/ sweep # "idle" /\ row.status \in Live /\ q.pos = row.pos
    \/ Current.status \in Live /\ q.pos = Current.pos

\* What is ahead depends on the plan alone.
LEMMA AheadStays ==
    ASSUME plan' = plan
    PROVE  /\ \A p, kind, site : Ahead(p, kind, site)' = Ahead(p, kind, site)
           /\ \A site : Places(site)' = Places(site)
  BY DEF Ahead, Places, Listed

\* A step that buys nothing of the ladder keeps the counts.
LEMMA BoughtKept ==
    ASSUME TypeInv, BoughtOnce, SamePurchases, plan' = plan, faults' = faults \/ faults' = faults + 1,
           NEW r, Current' = r, Onward(r), NEW q, row' = q, sweep' # "idle" => StillRead(q)
    PROVE  BoughtOnce'
<1> SUFFICES ASSUME plan # <<>>, NEW k \in {"commit", "fund"}, NEW s \in Sites
             PROVE  /\ Cardinality(Bought(k, s)') <= Places(s)' + faults'
                    /\ r.status \in Live =>
                          Cardinality(Bought(k, s)') + Cardinality(Ahead(r.pos, k, s)') <= Places(s)' + faults' + 0
                    /\ sweep' # "idle" /\ q.status \in Live =>
                          Cardinality(Bought(k, s)') + Cardinality(Ahead(q.pos, k, s)') <= Places(s)' + faults' + 1
  BY DEF BoughtOnce, Billed
<1>1. PICK n \in Nat, m \in Nat : n = Cardinality(Bought(k, s)) /\ m = Places(s)
  BY BoughtIsFinite, AheadType DEF Bought
<1>2. Cardinality(Bought(k, s)') = n /\ Places(s)' = m
  <2>1. Bought(k, s)' = Bought(k, s)
    BY DEF SamePurchases
  <2> QED
    BY <1>1, <2>1, AheadStays, Zenon
<1>3. PICK f \in Nat, g \in Nat : f = faults /\ g = faults' /\ (g = f \/ g = f + 1)
  BY FaultsCount
<1>4. \A p : Cardinality(Ahead(p, k, s)') = Cardinality(Ahead(p, k, s)) /\ Cardinality(Ahead(p, k, s)) \in Nat
  BY AheadStays, AheadType, Zenon
<1>5. /\ n <= m + f
      /\ Current.status \in Live => n + Cardinality(Ahead(Current.pos, k, s)) <= m + f
      /\ sweep # "idle" /\ row.status \in Live => n + Cardinality(Ahead(row.pos, k, s)) <= m + f + 1
  <2>1. /\ n <= m + f
        /\ Current.status \in Live => n + Cardinality(Ahead(Current.pos, k, s)) <= m + f + 0
        /\ sweep # "idle" /\ row.status \in Live => n + Cardinality(Ahead(row.pos, k, s)) <= m + f + 1
    BY <1>1, <1>3, Zenon DEF BoughtOnce, Billed
  <2>2. m + f + 0 = m + f
    OBVIOUS
  <2> QED
    BY <2>1, <2>2, Zenon
<1>6. n <= m + g
  <2>1. n <= m + f
    BY <1>5
  <2>2. g >= f
    BY <1>3
  <2> QED
    BY <2>1, <2>2
<1>7. r.status \in Live => n + Cardinality(Ahead(r.pos, k, s)) <= m + g
  <2> SUFFICES ASSUME r.status \in Live PROVE n + Cardinality(Ahead(r.pos, k, s)) <= m + g
    OBVIOUS
  <2>1. PICK a \in Nat, b \in Nat, d \in Nat :
           /\ a = Cardinality(Ahead(r.pos, k, s)) /\ b = Cardinality(Ahead(Current.pos, k, s))
           /\ d = Cardinality(Ahead(row.pos, k, s))
    BY <1>4
  <2>2. Ahead(r.pos, k, s) \subseteq Ahead(Current.pos, k, s) => a <= b
    BY <2>1, AheadType, FewerAhead
  <2>3. CASE Current.status \in Live /\ a <= b
    BY <1>3, <1>5, <2>1, <2>3
  <2>4. CASE sweep # "idle" /\ row.status \in Live /\ r.pos = row.pos /\ g = f + 1
    BY <1>5, <2>1, <2>4
  <2> QED
    BY <1>3, <2>2, <2>3, <2>4 DEF Onward
<1>8. sweep' # "idle" /\ q.status \in Live => n + Cardinality(Ahead(q.pos, k, s)) <= m + g + 1
  <2> SUFFICES ASSUME sweep' # "idle", q.status \in Live
               PROVE  n + Cardinality(Ahead(q.pos, k, s)) <= m + g + 1
    OBVIOUS
  <2>1. PICK a \in Nat : a = Cardinality(Ahead(q.pos, k, s))
    BY <1>4
  <2>2. n + a <= m + f + 1 \/ n + a <= m + f
    BY <1>5, <2>1 DEF StillRead
  <2> QED
    BY <1>3, <2>1, <2>2
<1>9. g + 0 = g /\ m + g + 0 = m + g
  OBVIOUS
<1>10. /\ n <= m + faults'
       /\ r.status \in Live => n + Cardinality(Ahead(r.pos, k, s)) <= m + faults' + 0
       /\ sweep' # "idle" /\ q.status \in Live => n + Cardinality(Ahead(q.pos, k, s)) <= m + faults' + 1
  BY <1>3, <1>6, <1>7, <1>8, <1>9, Zenon
<1> QED
  BY <1>2, <1>4, <1>10, Zenon

\* A commitment, or the funding of a definition, that the daemon takes: the row is
\* on its way to the next position, given up, or there is a fault to blame.
LEMMA BoughtTaken ==
    ASSUME TypeInv, BoughtOnce, SameRow, sweep \in Handling, plan' = plan, row' = row,
           NEW kind \in {"commit", "fund"}, NEW site, site = Site(draft.pos), Task(draft.pos) = kind,
           NEW state \in {"executing", "failed", "mempool", "mined"},
           Taken(kind, site, Nothing, state), NEW r, Current' = r, Moved(r),
           \/ faults' = faults /\ (r.status \notin Live \/ r.pos = After(draft.pos))
           \/ faults' = faults + 1
    PROVE  BoughtOnce'
<1>1. /\ site \in Sites /\ draft.status \in Live /\ plan \in Plan /\ plan # <<>>
      /\ draft.pos \in Position /\ PosOK(draft.pos) /\ Current = draft
  BY AtHand, PlanIsNotEmpty DEF Sites, Current, Handling
<1>2. \A k \in {"commit", "fund"}, s \in Sites :
         /\ k # kind \/ s # site => Bought(k, s)' = Bought(k, s)
         /\ Cardinality(Bought(k, s)') <= Cardinality(Bought(k, s)) + 1
         /\ Cardinality(Bought(k, s)') \in Nat
  <2>1. Nothing \in [Currencies -> Nat]
    BY DEF Nothing
  <2> QED
    BY <1>1, <2>1, BoughtOneMore
<1> SUFFICES ASSUME NEW k \in {"commit", "fund"}, NEW s \in Sites
             PROVE  /\ Cardinality(Bought(k, s)') <= Places(s)' + faults'
                    /\ r.status \in Live =>
                          Cardinality(Bought(k, s)') + Cardinality(Ahead(r.pos, k, s)') <= Places(s)' + faults' + 0
                    /\ row.status \in Live =>
                          Cardinality(Bought(k, s)') + Cardinality(Ahead(row.pos, k, s)') <= Places(s)' + faults' + 1
  BY DEF BoughtOnce, Billed
<1>3. PICK n \in Nat, m \in Nat, p \in Nat :
         n = Cardinality(Bought(k, s)) /\ m = Cardinality(Bought(k, s)') /\ p = Places(s) /\ p = Places(s)'
  BY <1>1, <1>2, BoughtIsFinite, AheadType, AheadStays DEF Bought
<1>4. PICK f \in Nat, g \in Nat : f = faults /\ g = faults' /\ (g = f \/ g = f + 1)
  BY FaultsCount
<1>5. \A q : Cardinality(Ahead(q, k, s)') = Cardinality(Ahead(q, k, s)) /\ Cardinality(Ahead(q, k, s)) \in Nat
  BY <1>1, AheadStays, AheadType, Zenon
<1>6. PICK a \in Nat, b \in Nat :
         a = Cardinality(Ahead(draft.pos, k, s)) /\ b = Cardinality(Ahead(r.pos, k, s))
  BY <1>5
<1>7. n + a <= p + f
  <2>1. n + a <= p + f + 0
    BY <1>1, <1>3, <1>4, <1>6, Zenon DEF BoughtOnce, Billed
  <2> QED
    BY <2>1
<1>8. row.status \in Live => Cardinality(Ahead(row.pos, k, s)) = a
  BY <1>6 DEF SameRow
<1>9. r.status \in Live => b <= a
  <2>1. r.status \in Live => Ahead(r.pos, k, s) \subseteq Ahead(draft.pos, k, s)
    BY MovedShrinks
  <2>2. IsFiniteSet(Ahead(draft.pos, k, s))
    BY <1>1, AheadType
  <2> QED
    BY <1>6, <2>1, <2>2, FewerAhead
<1>10. CASE k = kind /\ s = site
  <2>1. /\ Ahead(After(draft.pos), k, s) \subseteq Ahead(draft.pos, k, s)
        /\ \E i \in Ahead(draft.pos, k, s) : i \notin Ahead(After(draft.pos), k, s)
    BY <1>1, <1>10, AheadShrinks, TaskIsAhead DEF Advancing
  <2>2. IsFiniteSet(Ahead(draft.pos, k, s))
    BY <1>1, AheadType
  <2>3. Cardinality(Ahead(After(draft.pos), k, s)) + 1 <= a /\ a >= 1
    BY <1>5, <1>6, <2>1, <2>2, FewerAhead
  <2>4. m <= n + 1
    BY <1>2, <1>3
  <2>5. m <= p + g /\ m + a <= p + g + 1
    <3>1. g >= f
      BY <1>4
    <3> QED
      BY <1>7, <2>3, <2>4, <3>1
  <2>6. r.status \in Live => m + b <= p + g
    <3>1. CASE g = f + 1
      BY <1>7, <1>9, <2>4, <3>1
    <3>2. CASE g = f
      <4>1. r.status \in Live => b + 1 <= a
        BY <1>4, <1>6, <2>3, <3>2
      <4> QED
        BY <1>7, <2>4, <3>2, <4>1
    <3> QED
      BY <1>4, <3>1, <3>2
  <2> QED
    BY <1>3, <1>4, <1>5, <1>6, <1>8, <2>5, <2>6
<1>11. CASE k # kind \/ s # site
  <2>1. m = n
    BY <1>2, <1>3, <1>11, Zenon
  <2>2. m <= p + g /\ m + a <= p + g + 1 /\ (r.status \in Live => m + b <= p + g)
    <3>1. g >= f
      BY <1>4
    <3> QED
      BY <1>7, <1>9, <2>1, <3>1
  <2> QED
    BY <1>3, <1>4, <1>5, <1>6, <1>8, <2>2
<1> QED
  BY <1>10, <1>11

\* The UPDATE of a step leaves the row it writes at hand.
LEMMA WriteIsCurrent ==
    ASSUME NEW r, Write(r)
    PROVE  Current' = r /\ plan' = plan /\ sweep' = "written" /\ row' = row
  BY DEF Write, Current

\* A step of the sweep that buys nothing of the ladder.
LEMMA QuietBought ==
    ASSUME TypeInv, BoughtOnce, SameRow, sweep \in Handling, SamePurchases, plan' = plan, row' = row,
           faults' = faults \/ faults' = faults + 1, NEW r, Current' = r, Moved(r)
    PROVE  BoughtOnce'
<1>1. Current = draft /\ draft.status \in Live /\ sweep # "idle"
  BY AtHand DEF Current, Handling
<1>2. Onward(r)
  BY <1>1, MovedShrinks DEF Onward
<1>3. StillRead(row)
  BY <1>1 DEF StillRead
<1> QED
  BY <1>2, <1>3, BoughtKept

\* Nothing is bought where the list is the same.
LEMMA SameList ==
    ASSUME txs' = txs
    PROVE  SamePurchases
  BY DEF SamePurchases, Bought

\* Nor where something else is sent.
LEMMA OtherPurchase ==
    ASSUME TypeInv, NEW kind \in {"identity", "define", "transfer"},
           NEW site \in Sites, NEW amount \in [Currencies -> Nat],
           NEW state \in {"executing", "failed", "mempool", "mined"},
           Taken(kind, site, amount, state)
    PROVE  SamePurchases
  BY BoughtOneMore DEF SamePurchases

\* A row given up, or to be tried again, has not moved.
LEMMA RetriedMoved ==
    ASSUME TypeInv, sweep \in Handling
    PROVE  /\ Moved(RetryOrFailure) /\ Moved(Abandoned) /\ Moved(draft)
           /\ RetryOrFailure.pos = draft.pos /\ Abandoned.status \notin Live
<1>1. draft \in Row
  BY AtHand
<1> QED
  BY <1>1, RetriedIsRow DEF Moved, Live, Waiting

\* A row on its way to the next position, waiting or not.
LEMMA AdvancedMoved ==
    ASSUME TypeInv, sweep \in Handling, Task(draft.pos) \in Advancing,
           NEW wait, NEW n, NEW r,
           \/ r = Advanced(wait)
           \/ r = [Advanced(wait) EXCEPT !.rnc = n]
           \/ r = [Advanced(wait) EXCEPT !.pending = {}, !.sanity = FALSE]
    PROVE  Moved(r) /\ r.pos = After(draft.pos)
<1>1. draft \in Row
  BY AtHand
<1>2. PICK next : next = After(draft.pos)
  OBVIOUS
<1>3. r.pos = next
  BY <1>1, <1>2 DEF Advanced, Saved, Row
<1> QED
  BY <1>2, <1>3 DEF Moved

\* Polls, passes and failures buy nothing.
LEMMA QuietStepBought ==
    ASSUME TypeInv, BoughtOnce, SameRow, CallRaises \/ PollConfirm \/ PollOperation \/ Pass \/ Finish
    PROVE  BoughtOnce'
<1>1. sweep \in Handling
  BY DEF Handling, CallRaises, PollConfirm, PollOperation, Pass, Finish, At
<1>2. faults' = faults /\ txs' = txs
  BY DEF CallRaises, PollConfirm, PollOperation, Pass, Finish, chainVars
<1>3. SamePurchases /\ draft \in Row
  BY <1>1, <1>2, SameList, AtHand
<1>4. ASSUME NEW r, Write(r), Moved(r) PROVE BoughtOnce'
  BY <1>1, <1>2, <1>3, <1>4, WriteIsCurrent, QuietBought
<1>5. CASE CallRaises
  BY <1>1, <1>4, <1>5, RetriedMoved DEF CallRaises
<1>6. ASSUME NEW status, NEW wait PROVE Moved(Saved(status, draft.pos, wait))
  BY <1>3 DEF Moved, Saved, Row
<1>7. CASE PollConfirm
  <2>1. PICK r : Write(r) /\ (r = Saved("in_progress", draft.pos, NoWait) \/ r = draft)
    BY <1>7 DEF PollConfirm
  <2> QED
    BY <1>1, <1>4, <1>6, <2>1, RetriedMoved
<1>8. CASE PollOperation
  <2>1. PICK r : Write(r) /\ (\/ r = Abandoned \/ r = draft
                              \/ r = Saved("waiting_confirm", draft.pos, TxWait(draft.wait.id)))
    BY <1>8 DEF PollOperation, OperationState
  <2> QED
    BY <1>1, <1>4, <1>6, <2>1, RetriedMoved
<1>9. CASE Pass
  <2>1. Task(draft.pos) \in Advancing
    BY <1>9 DEF Pass, At, Advancing
  <2>2. PICK next, r : /\ Write(r) /\ next = After(draft.pos)
                       /\ r = Saved("in_progress", next, NoWait)
    BY <1>9 DEF Pass
  <2>3. Moved(r)
    BY <1>3, <2>1, <2>2 DEF Moved, Saved, Row
  <2> QED
    BY <1>4, <2>2, <2>3
<1>10. CASE Finish
  BY <1>4, <1>6, <1>10 DEF Finish
<1> QED
  BY <1>5, <1>7, <1>8, <1>9, <1>10

\* A call of the ladder that the daemon takes: its answer moves the row on, or is
\* lost.
LEMMA SendStepBought ==
    ASSUME TypeInv, BoughtOnce, SameRow,
           Fund \/ (\E kind \in {"commit", "identity", "define"} : Submit(kind))
    PROVE  BoughtOnce'
<1>1. sweep \in Handling
  BY DEF Handling, Fund, Submit, At
<1>2. /\ Site(draft.pos) \in Sites /\ Nothing \in [Currencies -> Nat]
      /\ Moved(RetryOrFailure) /\ Moved(Abandoned)
      /\ RetryOrFailure.pos = draft.pos /\ Abandoned.status \notin Live
  BY <1>1, AtHand, RetriedMoved DEF Nothing, Sites
<1>3. CASE Fund
  <2>1. Task(draft.pos) = "fund" /\ Task(draft.pos) \in Advancing
    BY <1>3 DEF Fund, At, Advancing
  <2>2. PICK state, wait, r :
           /\ state \in {"executing", "failed", "mempool", "mined"}
           /\ Taken("fund", Site(draft.pos), Nothing, state) /\ Write(r)
           /\ \/ r = Advanced(wait) /\ faults' = faults
              \/ r = RetryOrFailure /\ faults' = faults + 1
              \/ r = Abandoned /\ faults' = faults
    BY <1>3 DEF Fund, SendAnswers, Fault
  <2>3. r = Advanced(wait) => Moved(r) /\ r.pos = After(draft.pos)
    BY <1>1, <2>1, AdvancedMoved
  <2>4. Current' = r /\ plan' = plan /\ row' = row
    BY <2>2, WriteIsCurrent
  <2>5. /\ Moved(r)
        /\ \/ faults' = faults /\ (r.status \notin Live \/ r.pos = After(draft.pos))
           \/ faults' = faults + 1
    BY <1>2, <2>2, <2>3
  <2> QED
    BY <1>1, <2>1, <2>2, <2>4, <2>5, BoughtTaken
<1>4. ASSUME NEW kind \in {"commit", "identity", "define"}, Submit(kind) PROVE BoughtOnce'
  <2>1. Task(draft.pos) = kind /\ Task(draft.pos) \in Advancing
    BY <1>4 DEF Submit, At, Advancing
  <2>2. PICK wait, n, r :
           /\ Taken(kind, Site(draft.pos), Nothing, "mempool") /\ Write(r)
           /\ \/ r = [Advanced(wait) EXCEPT !.rnc = n] /\ faults' = faults
              \/ r = RetryOrFailure /\ faults' = faults + 1
    BY <1>4 DEF Submit, Fault
  <2>3. r = [Advanced(wait) EXCEPT !.rnc = n] => Moved(r) /\ r.pos = After(draft.pos)
    BY <1>1, <2>1, <2>2, AdvancedMoved
  <2>4. Current' = r /\ plan' = plan /\ row' = row
    BY <2>2, WriteIsCurrent
  <2>5. /\ Moved(r)
        /\ \/ faults' = faults /\ r.pos = After(draft.pos)
           \/ faults' = faults + 1
    BY <1>2, <2>2, <2>3
  <2>6. CASE kind = "commit"
    BY <1>1, <2>1, <2>2, <2>4, <2>5, <2>6, BoughtTaken
  <2>7. CASE kind # "commit"
    <3>1. SamePurchases
      BY <1>2, <2>2, <2>7, OtherPurchase
    <3> QED
      BY <1>1, <2>2, <2>4, <2>5, <3>1, QuietBought
  <2> QED
    BY <2>6, <2>7
<1> QED
  BY <1>3, <1>4

\* Planning, sending and waiting for transfers, and the definition of a basket.
LEMMA FundingBought ==
    ASSUME TypeInv, BoughtOnce, SameRow,
           \/ ResolveWaits \/ PlanFunding \/ SaveFunding \/ Hold \/ DefineBasket
           \/ \E source \in {"primary", "allocation"} : SendTransfers(source) \/ SendRefused(source)
    PROVE  BoughtOnce'
<1>1. sweep \in Handling
  BY DEF Handling, ResolveWaits, PlanFunding, SaveFunding, Hold, DefineBasket, At, AtGate,
         SendTransfers, SendRefused, Paying
<1>2. /\ Token \in Sites /\ Nothing \in [Currencies -> Nat] /\ draft \in Row
      /\ Moved(RetryOrFailure) /\ Moved(Abandoned) /\ Moved(draft)
  BY <1>1, AtHand, RetriedMoved DEF Nothing, Sites
<1>3. ASSUME NEW r, Write(r), Moved(r), SamePurchases, faults' = faults \/ faults' = faults + 1
      PROVE  BoughtOnce'
  BY <1>1, <1>3, WriteIsCurrent, QuietBought
<1>4. ASSUME draft' = draft, sweep' \in Handling, plan' = plan, row' = row, SamePurchases,
             faults' = faults \/ faults' = faults + 1
      PROVE  BoughtOnce'
  <2>1. Current' = draft
    BY <1>4 DEF Current, Handling
  <2> QED
    BY <1>1, <1>2, <1>4, <2>1, QuietBought
<1>5. CASE ResolveWaits
  <2>1. SamePurchases /\ faults' = faults
    BY <1>5, SameList DEF ResolveWaits, chainVars
  <2>2. \/ sweep' = "planning" /\ draft' = draft /\ plan' = plan /\ row' = row
        \/ Write(Abandoned)
        \/ Write([Saved("in_progress", draft.pos, NoWait) EXCEPT !.pending = Unresolved(draft.pending)])
    BY <1>2, <1>5 DEF ResolveWaits, jobVars, Saved, Row
  <2>3. Moved([Saved("in_progress", draft.pos, NoWait) EXCEPT !.pending = Unresolved(draft.pending)])
    BY <1>2 DEF Moved, Saved, Row
  <2> QED
    BY <1>2, <1>3, <1>4, <2>1, <2>2, <2>3 DEF Handling
<1>6. CASE PlanFunding
  BY <1>4, <1>6, SameList DEF PlanFunding, chainVars, Handling
<1>7. CASE SaveFunding
  <2>1. SamePurchases /\ faults' = faults
    BY <1>7, SameList DEF SaveFunding, chainVars
  <2>2. PICK n, waits, r :
           /\ n \in {4, 5}
           /\ Write(r)
           /\ r = [Saved("in_progress", [draft.pos EXCEPT !.step = n], NoWait) EXCEPT !.pending = waits]
    BY <1>7 DEF SaveFunding
  <2>3. r.pos.step = n
    <3>1. draft.pos \in Position
      BY <1>1, AtHand
    <3>2. PICK pos : pos = [draft.pos EXCEPT !.step = n]
      OBVIOUS
    <3>3. pos.step = n
      BY <3>1, <3>2 DEF Position
    <3>4. r.pos = pos
      BY <1>2, <2>2, <3>2 DEF Saved, Row
    <3> QED
      BY <3>3, <3>4
  <2> QED
    BY <1>3, <2>1, <2>2, <2>3 DEF Moved
<1>8. CASE Hold
  <2>1. SamePurchases /\ faults' = faults
    BY <1>8, SameList DEF Hold, chainVars
  <2>2. PICK mark, r :
           /\ Write(r)
           /\ r = [Saved("in_progress", draft.pos, NoWait) EXCEPT !.pending = {}, !.sanity = mark]
    BY <1>8 DEF Hold
  <2>3. Moved(r)
    BY <1>2, <2>2 DEF Moved, Saved, Row
  <2> QED
    BY <1>3, <2>1, <2>2, <2>3
<1>9. CASE DefineBasket
  <2>1. Task(draft.pos) \in Advancing
    BY <1>9 DEF DefineBasket, AtGate, Advancing
  <2>2. SamePurchases
    BY <1>2, <1>9, OtherPurchase DEF DefineBasket
  <2>3. PICK wait, r :
           /\ Write(r)
           /\ faults' = faults \/ faults' = faults + 1
           /\ \/ r = [Advanced(wait) EXCEPT !.pending = {}, !.sanity = FALSE]
              \/ r = RetryOrFailure
    BY <1>9 DEF DefineBasket, Fault
  <2>4. r # RetryOrFailure => Moved(r)
    BY <1>1, <2>1, <2>3, AdvancedMoved
  <2> QED
    BY <1>2, <1>3, <2>2, <2>3, <2>4
<1>10. ASSUME NEW source \in {"primary", "allocation"}, SendTransfers(source) PROVE BoughtOnce'
  <2>2. PICK amount \in [Currencies -> Nat] : amount = Batch(source)
    BY BatchIsPlanned
  <2>3. PICK state \in {"executing", "failed", "mempool", "mined"} :
           /\ Taken("transfer", Token, amount, state)
           /\ faults' = faults \/ faults' = faults + 1
           /\ \/ Write(RetryOrFailure) \/ Write(Abandoned)
              \/ draft' = draft /\ sweep' = sweep /\ plan' = plan /\ row' = row
    BY <1>10, <2>2 DEF SendTransfers, SendAnswers, Fault
  <2>4. SamePurchases
    BY <1>2, <2>3, OtherPurchase
  <2> QED
    BY <1>1, <1>2, <1>3, <1>4, <2>3, <2>4
<1>11. ASSUME NEW source \in {"primary", "allocation"}, SendRefused(source) PROVE BoughtOnce'
  <2>1. Write(RetryOrFailure) /\ txs' = txs /\ (faults' = faults \/ faults' = faults + 1)
    BY <1>11 DEF SendRefused, chainVars, Fault
  <2> QED
    BY <1>2, <1>3, <2>1, SameList
<1> QED
  BY <1>5, <1>6, <1>7, <1>8, <1>9, <1>10, <1>11

\* A row that is not the one a sweep has read is there no more.
LEMMA ReadStays ==
    ASSUME TypeInv, SameRow, [Next]_vars
    PROVE  SameRow'
<1> DEFINE Unread == sweep' \notin Handling \/ row'.status \notin Live
           Still  == sweep \in Handling /\ draft' = draft /\ row' = row
<1>1. Unread \/ Still => SameRow'
  BY DEF SameRow
<1>2. "absent" \notin Live /\ AbsentRow.status = "absent" /\ row \in Row
  BY AbsentIsRow DEF Live, Waiting, TypeInv, TypeOK
<1>3. ASSUME NEW r, Write(r) PROVE SameRow'
  BY <1>1, <1>3 DEF Write, Handling
<1>4. CASE Select
  BY <1>4 DEF Select, SameRow
<1>5. CASE Begin
  BY <1>1, <1>5 DEF Begin, Handling, jobVars
<1>6. CASE Commit \/ Crash
  BY <1>1, <1>6 DEF Commit, Crash, Abandon, Handling
<1>7. CASE Enqueue
  BY <1>1, <1>7 DEF Enqueue, TypeInv, SweepOK, Handling
<1>8. CASE DeleteRequest
  BY <1>1, <1>2, <1>8 DEF DeleteRequest
<1>9. CASE BackoffElapses
  <2>1. PICK r : r = row'
    OBVIOUS
  <2>2. r.status = row.status /\ r.pos = row.pos /\ r.attempts = row.attempts /\ r.pending = row.pending
    BY <1>2, <1>9, <2>1 DEF BackoffElapses, Row
  <2> QED
    BY <1>9, <2>1, <2>2 DEF BackoffElapses, SameRow, jobVars
<1>10. ASSUME UNCHANGED <<row, sweep, draft>> PROVE SameRow'
  BY <1>10 DEF SameRow
<1>11. CASE \/ Operations \/ Mining \/ EmptySweep \/ UNCHANGED vars
            \/ (\E i \in DOMAIN txs : OperationForgotten(i)) \/ (\E c \in Currencies : Refill(c))
  BY <1>10, <1>11 DEF Operations, Mining, OperationSucceeds, OperationFails, Mine, OperationForgotten, Refill,
                      EmptySweep, vars, jobVars
<1>12. CASE CallRaises \/ PollConfirm \/ PollOperation \/ Pass \/ Finish
  BY <1>3, <1>12 DEF CallRaises, PollConfirm, PollOperation, Pass, Finish
<1>13. CASE SaveFunding \/ Hold \/ DefineBasket
  BY <1>3, <1>13 DEF SaveFunding, Hold, DefineBasket
<1>14. CASE Fund \/ (\E kind \in {"commit", "identity", "define"} : Submit(kind))
  BY <1>3, <1>14 DEF Fund, Submit
<1>15. CASE ResolveWaits
  BY <1>1, <1>3, <1>15 DEF ResolveWaits, At, Handling, jobVars
<1>16. CASE PlanFunding
  BY <1>1, <1>16 DEF PlanFunding, Handling
<1>17. CASE \E source \in {"primary", "allocation"} : SendTransfers(source) \/ SendRefused(source)
  BY <1>1, <1>3, <1>17 DEF SendTransfers, SendRefused, Paying, Handling
<1> QED
  BY <1>4, <1>5, <1>6, <1>7, <1>8, <1>9, <1>11, <1>12, <1>13, <1>14, <1>15, <1>16, <1>17 DEF Next, Sweep

\* No more is ahead than the places of the plan.
PlacesBound ==
    \A k \in {"commit", "fund"}, s \in Sites : \A p :
        /\ Cardinality(Ahead(p, k, s)) \in Nat /\ Places(s) \in Nat
        /\ Cardinality(Ahead(p, k, s)) <= Places(s)

LEMMA PlacesSuffice == TypeInv /\ plan # <<>> => PlacesBound
  BY AheadType DEF PlacesBound

\* The API, the beginning and the end of a sweep, and the world: the row is the one
\* at hand or gone, and a sweep that dies is a fault.
LEMMA RestBought ==
    ASSUME TypeInv, BoughtOnce,
           \/ Enqueue \/ DeleteRequest \/ Select \/ EmptySweep \/ Begin \/ Commit \/ Crash
           \/ BackoffElapses \/ Operations \/ Mining
           \/ (\E i \in DOMAIN txs : OperationForgotten(i))
           \/ (\E c \in Currencies : Refill(c))
           \/ UNCHANGED vars
    PROVE  BoughtOnce'
<1>1. "absent" \notin Live /\ AbsentRow.status = "absent" /\ draft \in Row /\ row \in Row
  BY AbsentIsRow DEF Live, Waiting, TypeInv, TypeOK
\* A row like another, or gone, has nothing ahead that the other has not.
<1>2. /\ \A r : r.status \notin Live => Onward(r) /\ StillRead(r)
      /\ \A r : r.status = Current.status /\ r.pos = Current.pos => Onward(r) /\ StillRead(r)
      /\ \A r : sweep # "idle" /\ r.status = row.status /\ r.pos = row.pos => StillRead(r)
  BY DEF Onward, StillRead
<1>3. CASE Enqueue
  <2>1. txs = <<>> /\ txs' = txs /\ faults' = faults /\ sweep' = "idle" /\ plan' \in Plans
    BY <1>3 DEF Enqueue, chainVars, TypeInv, SweepOK
  <2>2. ASSUME NEW k, NEW s PROVE Cardinality(Bought(k, s)') = 0
    <3>1. Bought(k, s)' = {}
      BY <2>1 DEF Bought
    <3> QED
      BY <3>1, FS_EmptySet, Zenon
  <2>3. TypeInv' /\ plan' # <<>>
    BY <1>3, <2>1, ApiType, CurrencyAssumption, PlanIsNotEmpty
  <2>4. (TypeInv /\ plan # <<>> => PlacesBound)'
    BY PlacesSuffice, PTL
  <2>5. ASSUME NEW k \in {"commit", "fund"}, NEW s \in Sites, NEW p
        PROVE  /\ Places(s)' \in Nat /\ Cardinality(Bought(k, s)') <= Places(s)' + faults'
               /\ Cardinality(Bought(k, s)') + Cardinality(Ahead(p, k, s)') <= Places(s)' + faults' + 0
    <3>1. PICK a \in Nat, n \in Nat, f \in Nat :
             a = Cardinality(Ahead(p, k, s)') /\ n = Places(s)' /\ f = faults' /\ a <= n
      BY <2>1, <2>3, <2>4, FaultsCount DEF PlacesBound
    <3>2. 0 <= n + f /\ 0 + a <= n + f + 0
      BY <3>1
    <3> QED
      BY <2>2, <3>1, <3>2, Zenon
  <2>6. ~(sweep' # "idle")
    BY <2>1
  <2> QED
    BY <2>5, <2>6 DEF BoughtOnce, Billed
<1>4. CASE DeleteRequest
  <2>1. SamePurchases /\ plan' = plan /\ faults' = faults /\ row' = AbsentRow
        /\ sweep' = sweep /\ draft' = draft
    BY <1>4, SameList DEF DeleteRequest, chainVars, jobVars
  <2>2. PICK r : r = Current' /\ (r = AbsentRow \/ r = Current)
    BY <2>1 DEF Current
  <2> QED
    BY <1>1, <1>2, <2>1, <2>2, BoughtKept
<1>5. CASE Select
  <2>1. SamePurchases /\ plan' = plan /\ faults' = faults /\ row' = row /\ Current = row /\ Current' = row
    BY <1>5, SameList DEF Select, chainVars, Current
  <2> QED
    BY <1>2, <2>1, BoughtKept
<1>6. CASE Begin
  <2>1. SamePurchases /\ plan' = plan /\ faults' = faults /\ row' = row /\ Current = draft /\ sweep # "idle"
    BY <1>6, SameList DEF Begin, chainVars, Current
  <2>2. PICK r : r = Current' /\ (r = draft \/ r.status = "absent")
    BY <1>6, <2>1 DEF Begin, jobVars, Current
  <2> QED
    BY <1>1, <1>2, <2>1, <2>2, BoughtKept
<1>7. CASE Commit
  <2>1. SamePurchases /\ plan' = plan /\ faults' = faults /\ Current = draft /\ sweep' = "idle"
    BY <1>7, SameList DEF Commit, chainVars, Current
  <2>2. PICK r : r = Current' /\ r = row' /\ (r = draft \/ r.status = "absent")
    BY <1>7, <2>1 DEF Commit, Current
  <2> QED
    BY <1>1, <1>2, <2>1, <2>2, BoughtKept
<1>8. CASE Crash
  <2>1. /\ SamePurchases /\ plan' = plan /\ faults' = faults + 1 /\ sweep # "idle" /\ sweep' = "idle"
        /\ row' = row /\ Current' = row
    BY <1>8, SameList DEF Crash, Fault, Abandon, chainVars, Current
  <2>2. Onward(row)
    BY <2>1 DEF Onward
  <2> QED
    BY <2>1, <2>2, BoughtKept
<1>9. CASE BackoffElapses
  <2>1. /\ SamePurchases /\ plan' = plan /\ faults' = faults /\ sweep' = sweep /\ draft' = draft
        /\ row' = [row EXCEPT !.backoff = FALSE]
    BY <1>9, SameList DEF BackoffElapses, chainVars, jobVars
  <2>2. PICK q : q = row'
    OBVIOUS
  <2>3. q.status = row.status /\ q.pos = row.pos
    BY <1>1, <2>1, <2>2 DEF Row
  <2>4. PICK r : r = Current' /\ r.status = Current.status /\ r.pos = Current.pos
    BY <2>1, <2>2, <2>3 DEF Current
  <2> QED
    BY <1>2, <2>1, <2>2, <2>3, <2>4, BoughtKept
<1>10. ASSUME SamePurchases, plan' = plan, faults' = faults \/ faults' = faults + 1,
              sweep' = sweep, draft' = draft, row' = row
       PROVE  BoughtOnce'
  <2>1. PICK r : r = Current /\ r = Current'
    BY <1>10 DEF Current
  <2> QED
    BY <1>2, <1>10, <2>1, BoughtKept
<1>11. ASSUME NEW i \in DOMAIN txs, OperationSucceeds(i) \/ OperationFails(i) \/ Mine(i)
       PROVE  BoughtOnce'
  <2>1. PICK state \in {"executing", "failed", "mempool", "mined"} : Move(i, state)
    BY <1>11 DEF OperationSucceeds, OperationFails, Mine
  <2>2. /\ DOMAIN txs' = DOMAIN txs
        /\ \A j \in DOMAIN txs : txs'[j].kind = txs[j].kind /\ txs'[j].site = txs[j].site
    <3>1. txs \in Seq(Tx)
      BY DEF TypeInv, TypeOK
    <3> QED
      BY <2>1, <3>1, MoveType
  <2>3. SamePurchases
    BY <2>2 DEF SamePurchases, Bought
  <2> QED
    BY <1>10, <1>11, <2>3 DEF OperationSucceeds, OperationFails, Mine, jobVars
<1>12. CASE \E i \in DOMAIN txs : OperationForgotten(i)
  BY <1>10, <1>12, SameList DEF OperationForgotten, Fault, jobVars
<1>13. CASE (\E c \in Currencies : Refill(c)) \/ EmptySweep \/ UNCHANGED vars
  BY <1>10, <1>13, SameList DEF Refill, EmptySweep, vars, chainVars, jobVars
<1> QED
  BY <1>3, <1>4, <1>5, <1>6, <1>7, <1>8, <1>9, <1>11, <1>12, <1>13 DEF Operations, Mining

\* Every step keeps the counts.
LEMMA NextBought ==
    ASSUME TypeInv, SameRow, BoughtOnce, [Next]_vars
    PROVE  BoughtOnce'
  BY QuietStepBought, SendStepBought, FundingBought, RestBought DEF Next, Sweep

-----------------------------------------------------------------------------
(* Transfers: steps that send none of a currency.                          *)

\* The transfers of a currency are the same, further on at most; one that is mined
\* now has arrived, and neither the balance nor its source has less.
Steady(c) ==
    /\ Sent(c)' = Sent(c)
    /\ balance'[c] \in Nat /\ balance'[c] >= balance[c]
    /\ funds'[c] \in Nat /\ funds'[c] >= funds[c]
    /\ \A i \in Sent(c) :
          /\ txs'[i].amount[c] = txs[i].amount[c]
          /\ IF txs'[i].state = "mined"
               THEN txs[i].state = "mined" \/ balance'[c] >= balance[c] + txs[i].amount[c]
               ELSE txs[i].state # "mined"

\* The amounts that the invariant compares.
LEMMA AmountTypes ==
    ASSUME TypeInv, NEW c \in Currencies
    PROVE  /\ balance[c] \in Nat /\ funds[c] \in Nat /\ toSend[c] \in Nat
           /\ Required[c] \in Nat /\ InitialFunds[c] \in Nat /\ Epsilon \in Nat /\ Epsilon > 0
           /\ \A i \in DOMAIN txs : txs[i] \in Tx /\ txs[i].amount \in [Currencies -> Nat]
                                    /\ txs[i].amount[c] \in Nat
<1>1. txs \in Seq(Tx)
  BY DEF TypeInv, TypeOK
<1>2. \A i \in DOMAIN txs : txs[i] \in Tx
  BY <1>1, ElementOfSeq
<1>3. balance[c] \in Nat /\ funds[c] \in Nat /\ toSend[c] \in Nat
  BY DEF TypeInv, TypeOK
<1>4. Required[c] \in Nat /\ InitialFunds[c] \in Nat /\ Epsilon \in Nat /\ Epsilon > 0
  BY CurrencyAssumption
<1>5. \A t \in Tx : t.amount \in [Currencies -> Nat] /\ t.amount[c] \in Nat
  BY DEF Tx
<1> QED
  BY <1>2, <1>3, <1>4, <1>5

\* A step that leaves the chain alone.
LEMMA HeldIsSteady ==
    ASSUME TypeInv, NEW c \in Currencies, UNCHANGED <<txs, funds, balance>>
    PROVE  Steady(c)
<1>1. Sent(c)' = Sent(c)
  BY DEF Sent
<1> QED
  BY <1>1, AmountTypes DEF Steady

\* A call that carries none of the currency.
LEMMA TakenIsSteady ==
    ASSUME TypeInv, NEW kind \in {"commit", "identity", "fund", "define", "transfer"},
           NEW site \in Sites, NEW amount \in [Currencies -> Nat],
           NEW state \in {"executing", "failed", "mempool", "mined"},
           Taken(kind, site, amount, state), NEW c \in Currencies
    PROVE  amount[c] = 0 => Steady(c)
<1>1. /\ txs'[NextTx].amount = amount /\ txs'[NextTx].state = state
      /\ \A i \in DOMAIN txs : txs'[i] = txs[i]
  BY NewTx
<1>2. DOMAIN txs' = DOMAIN txs \cup {NextTx} /\ NextTx \notin DOMAIN txs
  BY NewTx
<1> SUFFICES ASSUME amount[c] = 0 PROVE Steady(c)
  OBVIOUS
<1>3. Sent(c)' = Sent(c)
  BY <1>1, <1>2 DEF Sent
<1>4. balance' = balance
  BY DEF Taken
<1>5. funds'[c] = funds[c]
  <2>1. \A n \in Nat : n - 0 = n
    OBVIOUS
  <2>2. funds' = funds \/ funds'[c] = funds[c] - amount[c]
    BY DEF Taken
  <2> QED
    BY <2>1, <2>2, AmountTypes
<1> QED
  BY <1>1, <1>3, <1>4, <1>5, AmountTypes DEF Steady, Sent

\* The daemon and the chain.
LEMMA WorldIsSteady ==
    ASSUME TypeInv, NEW c \in Currencies,
           \/ \E i \in DOMAIN txs : OperationSucceeds(i) \/ OperationFails(i) \/ Mine(i)
           \/ \E d \in Currencies : Refill(d)
    PROVE  Steady(c)
<1>0. txs \in Seq(Tx) /\ funds \in [Currencies -> Nat] /\ balance \in [Currencies -> Nat]
  BY DEF TypeInv, TypeOK
<1>1. ASSUME NEW d \in Currencies, Refill(d) PROVE Steady(c)
  <2>1. txs' = txs /\ balance' = balance /\ funds' = [funds EXCEPT ![d] = funds[d] + 1]
    BY <1>1 DEF Refill
  <2>2. funds'[c] = funds[c] \/ funds'[c] = funds[c] + 1
    BY <1>0, <2>1
  <2>3. \A n \in Nat : n >= n /\ n + 1 \in Nat /\ n + 1 >= n
    OBVIOUS
  <2>4. funds'[c] \in Nat /\ funds'[c] >= funds[c]
    BY <2>2, <2>3, AmountTypes
  <2>5. Sent(c)' = Sent(c)
    BY <2>1 DEF Sent
  <2> QED
    BY <2>1, <2>4, <2>5, AmountTypes DEF Steady
<1>2. ASSUME NEW i \in DOMAIN txs, OperationSucceeds(i) \/ OperationFails(i) \/ Mine(i)
      PROVE  Steady(c)
  <2>1. PICK state \in {"executing", "failed", "mempool", "mined"} :
           /\ Move(i, state)
           /\ txs[i].state # "mined"
           /\ state = "mined" => Mine(i)
           /\ state # "mined" => balance' = balance
    BY <1>2 DEF OperationSucceeds, OperationFails, Mine
  <2>2. /\ DOMAIN txs' = DOMAIN txs
        /\ \A j \in DOMAIN txs : /\ txs'[j].amount = txs[j].amount
                                 /\ txs'[j].state = IF j = i THEN state ELSE txs[j].state
    BY <1>0, <2>1, MoveType
  <2>3. Sent(c)' = Sent(c)
    BY <2>2 DEF Sent
  <2>4. PICK amount \in [Currencies -> Nat] : amount = txs[i].amount
    BY AmountTypes
  <2>5. \A n, m \in Nat : n + m \in Nat /\ n + m >= n /\ n + m >= n + m /\ n >= n
    OBVIOUS
  <2>6. funds' = funds \/ funds' = [d \in Currencies |-> funds[d] + amount[d]]
    BY <1>2, <2>4 DEF OperationSucceeds, OperationFails, Mine
  <2>7. funds'[c] \in Nat /\ funds'[c] >= funds[c]
    <3>1. funds'[c] = funds[c] \/ funds'[c] = funds[c] + amount[c]
      BY <2>6
    <3> QED
      BY <2>5, <3>1, AmountTypes
  <2>8. Mine(i) => balance'[c] = balance[c] + amount[c]
    BY <2>4 DEF Mine
  <2>9. /\ balance'[c] \in Nat /\ balance'[c] >= balance[c]
        /\ state = "mined" => balance'[c] >= balance[c] + amount[c]
    <3>1. CASE state = "mined"
      BY <2>1, <2>5, <2>8, <3>1, AmountTypes
    <3>2. CASE state # "mined"
      BY <2>1, <2>5, <3>2, AmountTypes
    <3> QED
      BY <3>1, <3>2
  <2>10. ASSUME NEW j \in Sent(c)
         PROVE  /\ txs'[j].amount[c] = txs[j].amount[c]
                /\ IF txs'[j].state = "mined"
                     THEN txs[j].state = "mined" \/ balance'[c] >= balance[c] + txs[j].amount[c]
                     ELSE txs[j].state # "mined"
    <3>1. j \in DOMAIN txs
      BY DEF Sent
    <3> QED
      BY <2>1, <2>2, <2>4, <2>9, <3>1
  <2> QED
    BY <2>3, <2>7, <2>9, <2>10 DEF Steady
<1> QED
  BY <1>1, <1>2

\* The counts and amounts that depend on the plan.
LEMMA ShareType ==
    ASSUME TypeInv, plan # <<>>, NEW c \in Currencies
    PROVE  /\ Times(c) \in Nat /\ Share(c) \in Nat /\ Times(c) * Share(c) \in Nat
           /\ \A r \in Row : Tried(r, c) \in Nat
<1>1. Times(c) \in Nat
  BY BoughtIsFinite DEF Times, Sent
<1>2. \A m, n \in Nat : m * n \in Nat
  OBVIOUS
<1>3. Share(c) \in Nat
  BY <1>2, OutputsType, AmountTypes DEF Share
<1>4. \A r \in Row : Tried(r, c) \in Nat
  BY DEF Tried, Row
<1> QED
  BY <1>1, <1>2, <1>3, <1>4

\* What only the plan decides.
LEMMA PlanDecides ==
    ASSUME plan' = plan, NEW c \in Currencies
    PROVE  /\ Share(c)' = Share(c) /\ Enough(c)' = Enough(c) /\ First(c)' = First(c)
           /\ Attempts(c)' = Attempts(c)
           /\ \A r : Tried(r, c)' = Tried(r, c)
  BY DEF Share, Outputs, Listed, Enough, First, CreatesReserves, Attempts, Tried

\* What was known of a row and its waits is known after such a step; and a fault makes
\* up for a transfer more.
LEMMA SteadyKnown ==
    ASSUME TypeInv, NEW c \in Currencies, Steady(c), plan' = plan, plan # <<>>,
           faults' = faults \/ faults' = faults + 1
    PROVE  /\ Times(c)' = Times(c) /\ (Lacks(c)' => Lacks(c))
           /\ \A waits : Covered(waits, c) => Covered(waits, c)'
           /\ \A r \in Row, n \in {0, 1} : Owing(r, c, n) => Owing(r, c, n)'
           /\ \A r \in Row : Owing(r, c, 1) /\ faults' = faults + 1 => Owing(r, c, 0)'
           /\ \A r \in Row, n \in {0, 1} : Known(r, c, n) => Known(r, c, n)'
           /\ \A r \in Row : Known(r, c, 1) /\ faults' = faults + 1 => Known(r, c, 0)'
           /\ funds[c] + Times(c) * Share(c) >= InitialFunds[c] =>
                 (funds[c] + Times(c) * Share(c) >= InitialFunds[c])'
           /\ Times(c) <= Attempts(c) + faults => (Times(c) <= Attempts(c) + faults)'
<1>1. Times(c)' = Times(c)
  <2>1. Sent(c)' = Sent(c)
    BY DEF Steady
  <2> QED
    BY <2>1, Zenon DEF Times
<1>2. PICK b \in Nat, g \in Nat : b = balance'[c] /\ g = funds'[c] /\ b >= balance[c] /\ g >= funds[c]
  BY DEF Steady
<1>3. ASSUME Lacks(c)' PROVE Lacks(c)
  <2>1. c \in Basket
    BY <1>3 DEF Lacks, Basket
  <2>2. b + Epsilon < Required[c]
    BY <1>2, <1>3 DEF Lacks
  <2>3. balance[c] + Epsilon < Required[c]
    BY <1>2, <2>2, AmountTypes
  <2> QED
    BY <2>1, <2>3 DEF Lacks
<1>4. ASSUME NEW i \in Sent(c), Brings(i, c) PROVE Brings(i, c)'
  <2>1. i \in DOMAIN txs
    BY DEF Sent
  <2>2. PICK a \in Nat : a = txs[i].amount[c] /\ a = txs'[i].amount[c]
    BY <2>1, AmountTypes DEF Steady
  <2>3. IF txs[i].state = "mined" THEN balance[c] >= Required[c] ELSE a + balance[c] >= Required[c]
    BY <1>4, <2>2 DEF Brings
  <2>4. IF txs'[i].state = "mined" THEN txs[i].state = "mined" \/ b >= balance[c] + a
        ELSE txs[i].state # "mined"
    BY <1>2, <2>2 DEF Steady
  <2>5. IF txs'[i].state = "mined" THEN b >= Required[c] ELSE a + b >= Required[c]
    BY <1>2, <2>3, <2>4, AmountTypes
  <2> QED
    BY <1>2, <2>2, <2>5 DEF Brings
<1>5. ASSUME NEW waits, Covered(waits, c) PROVE Covered(waits, c)'
  BY <1>3, <1>4, <1>5 DEF Covered, Steady
<1>6. PICK f \in Nat, h \in Nat : f = faults /\ h = faults' /\ (h = f \/ h = f + 1)
  BY FaultsCount
<1>7. ASSUME NEW r \in Row, NEW n \in {0, 1}, NEW m \in {0, 1}, Owing(r, c, n), m = n \/ (m = 0 /\ h = f + 1)
      PROVE  Owing(r, c, m)'
  <2>1. PICK k \in Nat, t \in Nat : k = Times(c) /\ t = Tried(r, c)
    BY ShareType
  <2>2. k <= t + f + n
    BY <1>6, <1>7, <2>1 DEF Owing
  <2>3. k <= t + h + m
    <3>1. CASE m = n
      <4>1. h >= f
        BY <1>6
      <4> QED
        BY <2>2, <3>1, <4>1
    <3>2. CASE m = 0 /\ h = f + 1
      BY <2>2, <3>2
    <3> QED
      BY <1>7, <3>1, <3>2
  <2>4. Times(c)' <= Tried(r, c)' + faults' + m
    <3>1. Times(c)' = k /\ Tried(r, c)' = t
      BY <1>1, <2>1, PlanDecides
    <3> QED
      BY <1>6, <2>3, <3>1, Zenon
  <2>5. /\ r.pending = {} /\ (~Simple => r.pos.step <= 4)
        /\ Simple \/ r.pos.step < 4 \/ r.status \in Waiting => Times(c)' = 0
    BY <1>1, <1>7 DEF Owing
  <2>6. Simple' = Simple
    BY DEF Simple
  <2> QED
    BY <2>4, <2>5, <2>6 DEF Owing
<1>8. /\ \A r \in Row, n \in {0, 1} : Owing(r, c, n) => Owing(r, c, n)'
      /\ \A r \in Row : Owing(r, c, 1) /\ faults' = faults + 1 => Owing(r, c, 0)'
  BY <1>6, <1>7
<1>9. /\ \A r \in Row, n \in {0, 1} : Known(r, c, n) => Known(r, c, n)'
      /\ \A r \in Row : Known(r, c, 1) /\ faults' = faults + 1 => Known(r, c, 0)'
  BY <1>5, <1>8 DEF Known
<1>10. funds[c] + Times(c) * Share(c) >= InitialFunds[c] =>
          (funds[c] + Times(c) * Share(c) >= InitialFunds[c])'
  <2>1. PICK k \in Nat : k = Times(c) * Share(c)
    BY ShareType
  <2>2. (Times(c) * Share(c))' = k
    BY <1>1, <2>1, PlanDecides
  <2>3. funds[c] + k >= InitialFunds[c] => g + k >= InitialFunds[c]
    BY <1>2, AmountTypes
  <2> QED
    BY <1>2, <2>1, <2>2, <2>3
<1>11. Times(c) <= Attempts(c) + faults => (Times(c) <= Attempts(c) + faults)'
  <2>1. PICK k \in Nat, n \in Nat : k = Times(c) /\ n = Attempts(c) /\ n = Attempts(c)'
    BY ShareType, PlanDecides, CurrencyAssumption DEF Attempts
  <2>2. h >= f
    BY <1>6
  <2>3. k <= n + f => k <= n + h
    BY <2>2
  <2> QED
    BY <1>1, <1>6, <2>1, <2>3
<1> QED
  BY <1>1, <1>3, <1>5, <1>8, <1>9, <1>10, <1>11

\* What the row at hand knows before a step.
LEMMA AtHandIsKnown ==
    ASSUME TypeInv, NEW c \in Currencies, PaysOnce(c), sweep \in Handling
    PROVE  /\ draft \in Row /\ Current = draft /\ draft.status \in Live /\ plan # <<>> /\ row \in Row
           /\ draft.attempts \in Nat /\ draft.attempts < MaxRetries
           /\ Known(row, c, 1)
           /\ sweep = "sending" => Sending(c)
           /\ sweep # "sending" => Covered(draft.pending, c) \/ Owing(draft, c, 0)
           /\ sweep = "planning" => ~Lacks(c) \/ Owing(draft, c, 0)
<1>1. /\ Current = draft /\ draft \in Row /\ draft.status \in Live /\ plan # <<>> /\ row \in Row
      /\ draft.attempts \in Nat /\ draft.attempts < MaxRetries /\ sweep # "idle"
  BY AtHand, PlanIsNotEmpty DEF Current, Handling, TypeInv, TypeOK, RowOK, Row
<1>2. AtHandKnown(c) /\ Known(row, c, 1)
  BY <1>1 DEF PaysOnce
<1>3. /\ sweep = "sending" => Sending(c)
      /\ sweep = "planning" => ~Lacks(c) \/ Owing(draft, c, 0)
      /\ sweep \notin {"sending", "planning"} => Known(draft, c, 0)
  BY <1>1, <1>2 DEF AtHandKnown
<1> QED
  BY <1>1, <1>2, <1>3 DEF Known, Covered

\* A step that sends none of a currency and writes a row of which it is known what it owes.
LEMMA WrittenPays ==
    ASSUME TypeInv, NEW c \in Currencies, PaysOnce(c), sweep \in Handling, Steady(c),
           faults' = faults \/ faults' = faults + 1, NEW r, Write(r),
           Known(r, c, 0)'
    PROVE  PaysOnce(c)'
<1>1. Current' = r /\ sweep' = "written" /\ plan' = plan /\ row' = row
  BY WriteIsCurrent
<1>2. plan # <<>> /\ row \in Row /\ Known(row, c, 1)
  BY AtHandIsKnown
<1>3. /\ (funds[c] + Times(c) * Share(c) >= InitialFunds[c])'
      /\ (Times(c) <= Attempts(c) + faults)'
      /\ Known(row, c, 1)'
  <2>1. PICK q \in Row : q = row /\ q = row'
    BY <1>1, <1>2
  <2>2. Known(q, c, 1)'
    BY <1>1, <1>2, <2>1, SteadyKnown
  <2> QED
    BY <1>1, <1>2, <2>1, <2>2, SteadyKnown DEF PaysOnce
<1>4. AtHandKnown(c)'
  BY <1>1 DEF AtHandKnown
<1> QED
  BY <1>3, <1>4 DEF PaysOnce

-----------------------------------------------------------------------------
(* Transfers: what a step writes.                                          *)

\* Rows that differ in no column the invariant looks at.
LEMMA AlikeAreKnown ==
    ASSUME NEW r, NEW q, r.status = q.status, r.pos = q.pos, r.attempts = q.attempts,
           r.pending = q.pending, NEW c, NEW n
    PROVE  Known(r, c, n) => Known(q, c, n)
  BY DEF Known, Owing, Tried

\* The tasks before the funding of a basket, and where they lead.
LEMMA EarlyTask ==
    ASSUME TypeInv, sweep \in Handling,
           Task(draft.pos) \in {"commit", "identity", "fund", "define", "pass"}
    PROVE  /\ Simple \/ draft.pos.step < 4
           /\ After(draft.pos) \in Position /\ (~Simple => After(draft.pos).step <= 4)
<1>1. PICK p \in Position : p = draft.pos /\ PosOK(p) /\ plan \in Plan
  BY AtHand
<1>2. p.step \in 0 .. 6 /\ p.phase \in 0 .. 4
  BY <1>1 DEF Position
<1>3. Simple \/ p.step < 4
  <2>1. ~Simple /\ InReserves(p) => p.step = 3
    BY <1>1, TasksInOrder
  <2>2. ~Simple /\ ~InReserves(p) /\ p.step \in {4, 5, 6} => Task(p) \in {"plan", "gate", "finish"}
    BY <1>1, TasksInOrder
  <2> QED
    BY <1>1, <1>2, <2>1, <2>2
<1>4. PICK q \in Position : q = After(p)
  BY <1>1, AfterIsPosition DEF Advancing
<1>5. ~Simple => q.step <= 4
  <2>1. CASE InReserves(p)
    BY <1>1, <1>2, <1>3, <1>4, <2>1, AfterGoesOn
  <2>2. CASE ~InReserves(p)
    <3>1. PICK n \in 1 .. 7 : q = [p EXCEPT !.step = n] /\ (n = 2 \/ n = p.step + 1)
      <4> DEFINE n == IF p.step < 2 /\ Given(Token) THEN 2 ELSE p.step + 1
      <4>1. q = [p EXCEPT !.step = n]
        BY <1>4, <2>2 DEF After
      <4>2. n \in 1 .. 7 /\ (n = 2 \/ n = p.step + 1)
        BY <1>2
      <4> QED
        BY <4>1, <4>2
    <3>2. q.step = n
      BY <3>1 DEF Position
    <3> QED
      BY <1>2, <1>3, <3>1, <3>2
  <2> QED
    BY <2>1, <2>2
<1> QED
  BY <1>1, <1>3, <1>4, <1>5

\* A row that is to be tried again owes what it owed; the first source may have paid
\* once more.
LEMMA RetriedOwes ==
    ASSUME TypeInv, sweep \in Handling, plan # <<>>, NEW c \in Currencies,
           \/ Covered(draft.pending, c) \/ Owing(draft, c, 0)
           \/ First(c) /\ Owing(draft, c, 1)
    PROVE  Known(RetryOrFailure, c, 0) /\ Known(Abandoned, c, 0)
<1>1. /\ draft \in Row /\ Abandoned.status \notin Live
      /\ RetryOrFailure.attempts = draft.attempts + 1 /\ RetryOrFailure.pos = draft.pos
      /\ RetryOrFailure.pending = draft.pending /\ draft.attempts \in Nat
      /\ RetryOrFailure.status \in Live => RetryOrFailure.status = draft.status
  BY AtHand, RetriedIsRow DEF Live, Waiting, Row
<1>2. PICK r : r = RetryOrFailure
  OBVIOUS
<1>3. CASE Covered(draft.pending, c)
  BY <1>1, <1>3 DEF Known
<1>4. ASSUME NEW n \in {0, 1}, Owing(draft, c, n), n = 0 \/ First(c), r.status \in Live
      PROVE  Owing(r, c, 0)
  <2>1. PICK k \in Nat, f \in Nat, a \in Nat : k = Times(c) /\ f = faults /\ a = draft.attempts
    BY <1>1, ShareType, FaultsCount
  <2>2. Tried(draft, c) = (IF First(c) THEN a ELSE 0) /\ Tried(r, c) = IF First(c) THEN a + 1 ELSE 0
    BY <1>1, <1>2, <2>1 DEF Tried
  <2>3. k <= (IF First(c) THEN a ELSE 0) + f + n
    BY <1>4, <2>1, <2>2 DEF Owing
  <2>4. k <= (IF First(c) THEN a + 1 ELSE 0) + f + 0
    BY <1>4, <2>3
  <2>5. Times(c) <= Tried(r, c) + faults + 0
    BY <2>1, <2>2, <2>4
  <2> QED
    BY <1>1, <1>2, <1>4, <2>5 DEF Owing
<1> QED
  BY <1>1, <1>2, <1>3, <1>4 DEF Known

\* A row whose request has not come to the funding of its basket, or whose waits
\* cover it, says the same when it is saved.
LEMMA SavedOwes ==
    ASSUME TypeInv, sweep \in Handling, plan # <<>>, NEW c \in Currencies,
           Covered(draft.pending, c) \/ Owing(draft, c, 0),
           Simple \/ draft.pos.step < 4 \/ draft.status \in Waiting,
           NEW r \in Row, r.pending = draft.pending,
           ~Simple /\ draft.pos.step <= 4 => r.pos.step <= 4
    PROVE  Known(r, c, 0)
<1>1. CASE Covered(draft.pending, c)
  BY <1>1 DEF Known
<1>2. CASE Owing(draft, c, 0)
  <2>1. Times(c) = 0 /\ draft.pending = {} /\ (~Simple => draft.pos.step <= 4)
    BY <1>2 DEF Owing
  <2>2. PICK f \in Nat, t \in Nat : f = faults /\ t = Tried(r, c)
    BY ShareType, FaultsCount
  <2>3. 0 <= t + f + 0
    BY <2>2
  <2> QED
    BY <2>1, <2>2, <2>3 DEF Known, Owing
<1> QED
  BY <1>1, <1>2

\* A step that sends none of a currency and writes a row of which it was known before
\* what it owes.
LEMMA QuietPays ==
    ASSUME TypeInv, NEW c \in Currencies, PaysOnce(c), sweep \in Handling, Steady(c),
           faults' = faults \/ faults' = faults + 1, NEW r \in Row, Write(r), Known(r, c, 0)
    PROVE  PaysOnce(c)'
<1>1. plan' = plan /\ plan # <<>>
  BY AtHandIsKnown, WriteIsCurrent
<1>2. Known(r, c, 0)'
  BY <1>1, SteadyKnown
<1> QED
  BY <1>2, WrittenPays

\* A call of the ladder carries nothing of a basket.
LEMMA LadderCallIsSteady ==
    ASSUME TypeInv, sweep \in Handling, NEW kind \in {"commit", "identity", "fund", "define"},
           NEW site, site \in {Token, Site(draft.pos)},
           NEW state \in {"executing", "failed", "mempool", "mined"},
           Taken(kind, site, Nothing, state), NEW c \in Currencies
    PROVE  Steady(c)
<1>1. Nothing \in [Currencies -> Nat] /\ Nothing[c] = 0 /\ site \in Sites
  BY AtHand DEF Nothing, Sites
<1> QED
  BY <1>1, TakenIsSteady

\* A row on its way to the next position.
LEMMA AdvancedOwes ==
    ASSUME TypeInv, sweep \in Handling, plan # <<>>, NEW c \in Currencies,
           Covered(draft.pending, c) \/ Owing(draft, c, 0),
           Task(draft.pos) \in {"commit", "identity", "fund", "define", "pass"},
           NEW wait \in Wait, NEW n \in Nat, NEW r,
           \/ r = Saved("in_progress", After(draft.pos), wait)
           \/ r = Advanced(wait)
           \/ r = [Advanced(wait) EXCEPT !.rnc = n]
    PROVE  r \in Row /\ Known(r, c, 0)
<1>1. /\ Simple \/ draft.pos.step < 4
      /\ After(draft.pos) \in Position /\ (~Simple => After(draft.pos).step <= 4) /\ draft \in Row
  BY EarlyTask, AtHand
<1>2. PICK next \in Position : next = After(draft.pos) /\ (~Simple => next.step <= 4)
  BY <1>1
<1>3. PICK status, base :
         /\ status \in RowStatuses /\ base = Saved(status, next, wait)
         /\ r = base \/ r = [base EXCEPT !.rnc = n]
  BY <1>2 DEF Advanced, RowStatuses, Live, Waiting
<1>4. base \in Row /\ base.pos = next /\ base.pending = draft.pending
  BY <1>1, <1>2, <1>3, SavedIsRow
<1>5. r \in Row /\ r.pos = next /\ r.pending = draft.pending
  BY <1>3, <1>4, RncSet
<1> QED
  BY <1>1, <1>2, <1>5, SavedOwes

\* Polls, failures and the steps of the ladders.
LEMMA LadderPays ==
    ASSUME TypeInv, NEW c \in Currencies, PaysOnce(c),
           \/ CallRaises \/ PollConfirm \/ PollOperation \/ Pass \/ Finish \/ Fund
           \/ \E kind \in {"commit", "identity", "define"} : Submit(kind)
    PROVE  PaysOnce(c)'
<1>1. sweep \in Handling /\ sweep # "sending"
  BY DEF Handling, CallRaises, PollConfirm, PollOperation, Pass, Finish, Fund, Submit, At
<1>2. /\ draft \in Row /\ plan # <<>> /\ (Covered(draft.pending, c) \/ Owing(draft, c, 0))
      /\ draft.pos \in Position /\ draft.wait \in Wait /\ draft.status \in Live
  BY <1>1, AtHandIsKnown, AtHand
<1>3. /\ RetryOrFailure \in Row /\ Abandoned \in Row
      /\ Known(RetryOrFailure, c, 0) /\ Known(Abandoned, c, 0)
  BY <1>1, <1>2, RetriedOwes, RetriedIsRow
<1>4. Known(draft, c, 0)
  BY <1>2 DEF Known
<1>5. ASSUME NEW r \in Row, Write(r), Known(r, c, 0), Steady(c), faults' = faults \/ faults' = faults + 1
      PROVE  PaysOnce(c)'
  BY <1>1, <1>5, QuietPays
<1>6. ASSUME UNCHANGED chainVars PROVE Steady(c)
  BY <1>6, HeldIsSteady DEF chainVars
<1>7. NoWait \in Wait /\ \A id \in Nat : TxWait(id) \in Wait
  BY DEF NoWait, TxWait, Wait
<1>8. CASE CallRaises
  BY <1>3, <1>5, <1>6, <1>8 DEF CallRaises
<1>9. ASSUME NEW status \in {"in_progress", "waiting_confirm"}, NEW wait \in Wait,
             draft.status \in Waiting
      PROVE  Saved(status, draft.pos, wait) \in Row /\ Known(Saved(status, draft.pos, wait), c, 0)
  <2>1. status \in RowStatuses
    BY DEF RowStatuses, Live, Waiting
  <2>2. PICK r \in Row : r = Saved(status, draft.pos, wait) /\ r.pending = draft.pending /\ r.pos = draft.pos
    BY <1>2, <2>1, SavedIsRow
  <2> QED
    BY <1>1, <1>2, <1>9, <2>2, SavedOwes
<1>10. CASE PollConfirm
  <2>1. draft.status \in Waiting
    BY <1>10 DEF PollConfirm, Waiting
  <2>2. PICK r \in Row : Write(r) /\ Known(r, c, 0)
    BY <1>2, <1>4, <1>7, <1>9, <1>10, <2>1 DEF PollConfirm
  <2> QED
    BY <1>5, <1>6, <1>10, <2>2 DEF PollConfirm
<1>11. CASE PollOperation
  <2>1. draft.status \in Waiting /\ draft.wait.id \in Nat
    BY <1>2, <1>11 DEF PollOperation, Waiting, Wait
  <2>2. PICK r : Write(r) /\ \/ r = Abandoned \/ r = draft
                             \/ r = Saved("waiting_confirm", draft.pos, TxWait(draft.wait.id))
    BY <1>11 DEF PollOperation, OperationState
  <2>3. r \in Row /\ Known(r, c, 0)
    BY <1>2, <1>3, <1>4, <1>7, <1>9, <2>1, <2>2
  <2> QED
    BY <1>5, <1>6, <1>11, <2>2, <2>3 DEF PollOperation
<1>12. CASE Pass
  <2>1. PICK r : Write(r) /\ r = Saved("in_progress", After(draft.pos), NoWait)
    BY <1>12 DEF Pass
  <2>2. r \in Row /\ Known(r, c, 0)
    BY <1>1, <1>2, <1>7, <1>12, <2>1, AdvancedOwes DEF Pass, At
  <2> QED
    BY <1>5, <1>6, <1>12, <2>1, <2>2 DEF Pass
<1>13. CASE Finish
  <2>1. "complete" \in RowStatuses /\ "complete" \notin Live
    BY DEF RowStatuses, Live, Waiting
  <2>2. PICK r \in Row : Write(r) /\ r.status = "complete"
    BY <1>2, <1>7, <1>13, <2>1, SavedIsRow DEF Finish
  <2>3. Known(r, c, 0)
    BY <2>1, <2>2 DEF Known
  <2> QED
    BY <1>5, <1>6, <1>13, <2>2, <2>3 DEF Finish
<1>14. ASSUME NEW kind \in {"commit", "identity", "fund", "define"}, Task(draft.pos) = kind,
              NEW state \in {"executing", "failed", "mempool", "mined"},
              Taken(kind, Site(draft.pos), Nothing, state),
              NEW wait \in Wait, NEW n \in Nat, NEW r, Write(r),
              \/ r = Advanced(wait) \/ r = [Advanced(wait) EXCEPT !.rnc = n]
              \/ r = RetryOrFailure \/ r = Abandoned,
              faults' = faults \/ faults' = faults + 1
       PROVE  PaysOnce(c)'
  <2>1. Steady(c)
    BY <1>1, <1>14, LadderCallIsSteady
  <2>2. r \in Row /\ Known(r, c, 0)
    BY <1>1, <1>2, <1>3, <1>14, AdvancedOwes
  <2> QED
    BY <1>5, <1>14, <2>1, <2>2
<1>15. CASE Fund
  <2>1. Task(draft.pos) = "fund"
    BY <1>15 DEF Fund, At
  <2>2. CASE \E a \in SendAnswers :
               /\ Taken("fund", Site(draft.pos), Nothing, a.state)
               /\ \/ Write(Advanced(a.wait)) /\ UNCHANGED faults
                  \/ Write(RetryOrFailure) /\ Fault
    <3>1. PICK a \in SendAnswers :
               /\ Taken("fund", Site(draft.pos), Nothing, a.state)
               /\ \/ Write(Advanced(a.wait)) /\ UNCHANGED faults
                  \/ Write(RetryOrFailure) /\ Fault
      BY <2>2
    <3>2. PICK state \in {"executing", "mempool"} : state = a.state
      BY <3>1 DEF SendAnswers
    <3>3. PICK wait \in Wait : wait = a.wait
      BY <3>1, NewWaitsAreWaits DEF SendAnswers
    <3>4. /\ Taken("fund", Site(draft.pos), Nothing, state)
          /\ faults' = faults \/ faults' = faults + 1
          /\ Write(Advanced(wait)) \/ Write(RetryOrFailure)
      BY <3>1, <3>2, <3>3 DEF Fault
    <3> QED
      BY <1>14, <2>1, <3>4
  <2>3. CASE /\ Taken("fund", Site(draft.pos), Nothing, "failed")
             /\ Write(Abandoned)
             /\ UNCHANGED faults
    <3>1. NoWait \in Wait
      BY NewWaitsAreWaits
    <3> QED
      BY <1>14, <2>1, <2>3, <3>1
  <2> QED
    BY <1>15, <2>2, <2>3 DEF Fund
<1>16. ASSUME NEW kind \in {"commit", "identity", "define"}, Submit(kind) PROVE PaysOnce(c)'
  <2>1. Task(draft.pos) = kind /\ draft.rnc \in Nat /\ NextTx \in Nat
    BY <1>2, <1>16, NewWaitsAreWaits DEF Submit, At, Row
  <2>2. PICK base : base = Advanced(TxWait(NextTx)) /\ base.rnc = draft.rnc
    BY <1>1, <1>2, <1>16, <2>1, NewWaitsAreWaits, AdvancedIsOK DEF Advancing
  <2>3. PICK n, r :
           /\ n \in Nat
           /\ Taken(kind, Site(draft.pos), Nothing, "mempool") /\ Write(r)
           /\ r = [base EXCEPT !.rnc = n] \/ r = RetryOrFailure
           /\ faults' = faults \/ faults' = faults + 1
    BY <1>16, <2>1, <2>2 DEF Submit, Fault
  <2> QED
    BY <1>14, <1>16, <2>1, <2>2, <2>3, NewWaitsAreWaits
<1> QED
  BY <1>8, <1>10, <1>11, <1>12, <1>13, <1>15, <1>16

-----------------------------------------------------------------------------
(* Transfers: the funding of a basket.                                     *)

\* A wait for what is not mined stays, unless it is dead.
LEMMA WaitsAreKept ==
    ASSUME NEW waits, ~Dead(waits), NEW i, txs[i].state # "mined",
           NEW w \in waits, w \in Wait, w.type # "none", w.id = i
    PROVE  \E v \in Unresolved(waits) : v.type # "none" /\ v.id = i
<1>1. w.type \in {"tx_confirm", "opid_txid"}
  BY DEF Wait
<1>2. CASE w.type = "tx_confirm"
  BY <1>2 DEF Unresolved, Confirmed
<1>3. CASE w.type = "opid_txid"
  <2>1. OperationState(w.id) \in {"waiting", "resolved"}
    BY <1>3 DEF Dead, OperationState
  <2>2. CASE OperationState(w.id) = "waiting"
    BY <1>3, <2>2 DEF Unresolved
  <2>3. CASE OperationState(w.id) = "resolved"
    <3>1. Resolved(w) \in Unresolved(waits)
      BY <1>3, <2>3 DEF Unresolved
    <3>2. Resolved(w).type = "tx_confirm" /\ Resolved(w).id = i
      BY <1>3 DEF Resolved, TxWait
    <3> QED
      BY <3>1, <3>2
  <2> QED
    BY <2>1, <2>2, <2>3
<1> QED
  BY <1>1, <1>2, <1>3

\* The waits that stay cover what the waits before covered.
LEMMA UnresolvedCovers ==
    ASSUME TypeInv, NEW c \in Currencies, NEW waits \in SUBSET Wait, ~Dead(waits), Covered(waits, c)
    PROVE  Covered(Unresolved(waits), c)
<1>1. ASSUME Lacks(c), NEW w \in waits, w.type # "none", w.id \in Sent(c), Brings(w.id, c)
      PROVE  \E v \in Unresolved(waits) : v.type # "none" /\ v.id \in Sent(c) /\ Brings(v.id, c)
  <2>1. txs[w.id].state # "mined"
    <3>1. balance[c] + Epsilon < Required[c]
      BY <1>1 DEF Lacks
    <3>2. ~(balance[c] >= Required[c])
      BY <3>1, AmountTypes
    <3> QED
      BY <1>1, <3>2 DEF Brings
  <2>2. PICK v \in Unresolved(waits) : v.type # "none" /\ v.id = w.id
    BY <1>1, <2>1, WaitsAreKept
  <2> QED
    BY <1>1, <2>2
<1> QED
  BY <1>1 DEF Covered

\* No plan is made before all waits are resolved.
LEMMA ResolvingPays ==
    ASSUME TypeInv, NEW c \in Currencies, PaysOnce(c), ResolveWaits
    PROVE  PaysOnce(c)'
<1>1. sweep = "begun" /\ sweep \in Handling /\ UNCHANGED chainVars /\ faults' = faults
  BY DEF ResolveWaits, At, Handling
<1>2. /\ draft \in Row /\ plan # <<>> /\ (Covered(draft.pending, c) \/ Owing(draft, c, 0))
      /\ draft.pending \in SUBSET Wait /\ row \in Row /\ draft.pos \in Position
  BY <1>1, AtHandIsKnown, AtHand DEF Row
<1>3. Steady(c)
  BY <1>1, HeldIsSteady DEF chainVars
<1>4. PICK waits : waits = Unresolved(draft.pending)
  OBVIOUS
<1>5. /\ draft.pending = {} => waits = {}
      /\ ~Dead(draft.pending) /\ waits # {} => Covered(waits, c)
      /\ ~Dead(draft.pending) /\ waits = {} => ~Lacks(c) \/ Owing(draft, c, 0)
  <2>1. draft.pending = {} => waits = {}
    BY <1>4 DEF Unresolved
  <2>2. ~Dead(draft.pending) /\ Covered(draft.pending, c) => Covered(waits, c)
    BY <1>2, <1>4, UnresolvedCovers
  <2> QED
    BY <1>2, <2>1, <2>2 DEF Owing, Covered
<1>6. CASE Write(Abandoned)
  <2>1. Abandoned \in Row /\ Known(Abandoned, c, 0)
    BY <1>1, <1>2, RetriedOwes, RetriedIsRow
  <2> QED
    BY <1>1, <1>3, <1>6, <2>1, QuietPays
<1>7. ASSUME ~Dead(draft.pending), waits # {},
             NEW r, r = [Saved("in_progress", draft.pos, NoWait) EXCEPT !.pending = waits], Write(r)
      PROVE  PaysOnce(c)'
  <2>1. waits \in SUBSET Wait
    BY <1>2, <1>4 DEF Unresolved, Resolved, TxWait, Wait
  <2>2. PICK base \in Row : base = Saved("in_progress", draft.pos, NoWait)
    <3>1. "in_progress" \in RowStatuses /\ NoWait \in Wait
      BY DEF RowStatuses, Live, NoWait, Wait
    <3> QED
      BY <1>2, <3>1, SavedIsRow
  <2>3. r \in Row /\ r.pending = waits
    BY <1>7, <2>1, <2>2, PendingSet
  <2>4. Known(r, c, 0)
    BY <1>5, <1>7, <2>3 DEF Known
  <2> QED
    BY <1>1, <1>3, <1>7, <2>3, <2>4, QuietPays
<1>8. CASE ~Dead(draft.pending) /\ waits = {} /\ sweep' = "planning" /\ plan' = plan /\ draft' = draft
           /\ row' = row
  <2>1. PICK q \in Row, r \in Row : q = row /\ q = row' /\ r = draft /\ r = draft'
    BY <1>2, <1>8
  <2>2. Known(q, c, 1) /\ (~Lacks(c) \/ Owing(r, c, 0))
    BY <1>1, <1>5, <1>8, <2>1, AtHandIsKnown
  <2>3. Known(q, c, 1)' /\ (~Lacks(c)' \/ Owing(r, c, 0)')
    BY <1>1, <1>2, <1>3, <1>8, <2>2, SteadyKnown
  <2>4. Known(row, c, 1)' /\ AtHandKnown(c)'
    BY <1>8, <2>1, <2>3 DEF AtHandKnown
  <2> QED
    BY <1>1, <1>2, <1>3, <1>8, <2>4, SteadyKnown DEF PaysOnce
<1>9. PICK r : r = [Saved("in_progress", draft.pos, NoWait) EXCEPT !.pending = waits]
  OBVIOUS
<1>10. r = [Saved("in_progress", draft.pos, NoWait) EXCEPT !.pending = Unresolved(@)]
  BY <1>2, <1>4, <1>9 DEF Saved, Row
<1> QED
  BY <1>4, <1>6, <1>7, <1>8, <1>9, <1>10 DEF ResolveWaits, jobVars

\* What has not been sent in all attempts is still in the source.
LEMMA FundsSuffice ==
    ASSUME TypeInv, NEW c \in Currencies, Enough(c), PaysOnce(c), sweep \in Handling,
           Owing(draft, c, 0)
    PROVE  funds[c] >= Share(c)
<1>1. PICK k \in Nat, s \in Nat, f \in Nat, a \in Nat, m \in Nat, b \in Nat :
         /\ k = Times(c) /\ s = Share(c) /\ f = faults /\ a = draft.attempts
         /\ m = MaxRetries /\ b = FaultBound /\ f <= b /\ a + 1 <= m
  <2>1. draft.attempts \in Nat /\ draft.attempts < MaxRetries /\ plan # <<>>
    BY AtHandIsKnown
  <2>2. MaxRetries \in Nat /\ FaultBound \in Nat /\ faults \in 0 .. FaultBound
    BY CurrencyAssumption DEF TypeInv, TypeOK
  <2>3. draft.attempts + 1 <= MaxRetries
    BY <2>1, <2>2
  <2>4. Times(c) \in Nat /\ Share(c) \in Nat
    BY <2>1, ShareType
  <2>5. faults \in Nat /\ faults <= FaultBound
    BY <2>2
  <2> QED
    BY <2>1, <2>2, <2>3, <2>4, <2>5
<1>2. k <= a + f
  <2>1. k <= Tried(draft, c) + f + 0
    BY <1>1 DEF Owing
  <2> QED
    BY <1>1, <2>1 DEF Tried
<1>3. k + 1 <= m + b
  BY <1>1, <1>2
<1>4. \A x, y, z \in Nat : x + 1 <= y => z * y >= z * x + z
  <2> SUFFICES ASSUME NEW x \in Nat, NEW y \in Nat, NEW z \in Nat, x + 1 <= y
               PROVE  z * y >= z * x + z
    OBVIOUS
  <2>1. PICK d \in Nat : y = x + 1 + d
    <3>1. y - x - 1 \in Nat /\ y = x + 1 + (y - x - 1)
      OBVIOUS
    <3> QED
      BY <3>1
  <2>2. z * y = z * x + z + z * d /\ z * d \in Nat /\ z * x \in Nat
    BY <2>1
  <2> QED
    BY <2>2
<1>5. InitialFunds[c] >= s * (m + b)
  BY <1>1 DEF Enough, Share
<1>6. funds[c] + k * s >= InitialFunds[c]
  BY <1>1 DEF PaysOnce
<1>7. PICK t \in Nat, u \in Nat : t = s * k /\ t = k * s /\ u = s * (m + b) /\ u >= t + s
  <2>1. m + b \in Nat /\ s * (m + b) >= s * k + s
    BY <1>3, <1>4
  <2>2. s * k \in Nat /\ s * k = k * s
    OBVIOUS
  <2>3. s * (m + b) \in Nat
    OBVIOUS
  <2> QED
    BY <2>1, <2>2, <2>3
<1> QED
  BY <1>1, <1>5, <1>6, <1>7, AmountTypes

\* A reserve of the plan is listed.
LEMMA ListedOnce ==
    ASSUME TypeInv, plan # <<>>, NEW c
    PROVE  (\E i \in DOMAIN plan.reserves : plan.reserves[i] = c) <=> Listed(c) # 0
<1>1. plan.reserves \in Seq(ReserveNames)
  BY CurrencyAssumption DEF TypeInv, TypeOK, Plan
<1>2. IsFiniteSet(DOMAIN plan.reserves)
  <2>1. DOMAIN plan.reserves = 1 .. Len(plan.reserves) /\ Len(plan.reserves) \in Nat
    BY <1>1
  <2> QED
    BY <2>1, FS_Interval
<1>3. PICK S : S = {i \in DOMAIN plan.reserves : plan.reserves[i] = c}
  OBVIOUS
<1>4. IsFiniteSet(S) /\ Listed(c) = Cardinality(S)
  BY <1>2, <1>3, FS_Subset DEF Listed
<1> QED
  BY <1>3, <1>4, FS_EmptySet

\* A source that has enough for all attempts plans all that is lacking.
LEMMA PlanPays ==
    ASSUME TypeInv, NEW c \in Currencies, Enough(c), PaysOnce(c), PlanFunding
    PROVE  PaysOnce(c)'
<1>1. /\ sweep = "planning" /\ sweep \in Handling /\ sweep' = "sending"
      /\ UNCHANGED <<txs, funds, balance, plan, draft, row, faults, newWaits>>
      /\ toSend'[c] = Outputs(c) * Affordable(c)
  BY DEF PlanFunding, Handling, chainVars
<1>2. plan # <<>> /\ draft \in Row /\ row \in Row /\ (~Lacks(c) \/ Owing(draft, c, 0)) /\ Known(row, c, 1)
  BY <1>1, AtHandIsKnown
<1>3. Steady(c)
  BY <1>1, HeldIsSteady
<1>4. PICK o \in Nat, a \in Nat, q \in Nat :
         /\ o = Outputs(c) /\ a = Affordable(c) /\ q = Required[c] /\ a <= q
         /\ toSend'[c] = o * a /\ Share(c) = o * q
  BY <1>1, <1>2, OutputsType, AffordableType, AmountTypes DEF Share
<1>5. \A x, y, z \in Nat : y <= z => x * y <= x * z /\ (x >= 1 => y <= x * y) /\ x * y \in Nat
  <2> SUFFICES ASSUME NEW x \in Nat, NEW y \in Nat, NEW z \in Nat, y <= z
               PROVE  x * y <= x * z /\ (x >= 1 => y <= x * y) /\ x * y \in Nat
    OBVIOUS
  <2>1. PICK d \in Nat : z = y + d
    <3>1. z - y \in Nat /\ z = y + (z - y)
      OBVIOUS
    <3> QED
      BY <3>1
  <2>2. x * z = x * y + x * d /\ x * d \in Nat /\ x * y \in Nat
    BY <2>1
  <2>3. ASSUME x >= 1 PROVE y <= x * y
    <3>1. PICK e \in Nat : x = 1 + e
      <4>1. x - 1 \in Nat /\ x = 1 + (x - 1)
        BY <2>3
      <4> QED
        BY <4>1
    <3>2. x * y = y + e * y /\ e * y \in Nat
      BY <3>1
    <3> QED
      BY <3>2
  <2> QED
    BY <2>2, <2>3
<1>6. toSend'[c] <= Share(c) /\ toSend'[c] \in Nat
  BY <1>4, <1>5
<1>7. ASSUME ~Lacks(c) PROVE toSend'[c] = 0
  <2>1. a = 0
    BY <1>4, <1>7, AffordableType
  <2>2. o * 0 = 0
    OBVIOUS
  <2> QED
    BY <1>4, <2>1, <2>2
<1>8. ASSUME Lacks(c) PROVE toSend'[c] > 0 /\ toSend'[c] + balance[c] >= Required[c]
  <2>1. o >= 1
    <3>1. CASE c = Native
      BY <1>4, <3>1 DEF Outputs
    <3>2. CASE c # Native
      <4>1. PICK i \in DOMAIN plan.reserves : plan.reserves[i] = c
        BY <1>8, <3>2 DEF Lacks, Basket
      <4>2. o # 0
        BY <1>2, <1>4, <3>2, <4>1, ListedOnce DEF Outputs
      <4> QED
        BY <4>2
    <3> QED
      BY <3>1, <3>2
  <2>2. funds[c] >= Share(c)
    BY <1>1, <1>2, <1>8, FundsSuffice
  <2>3. funds[c] >= q
    <3>1. q <= o * q /\ o * q \in Nat
      BY <1>5, <2>1
    <3> QED
      BY <1>4, <2>2, <3>1, AmountTypes
  <2>4. a = q - balance[c] /\ a > 0
    BY <1>4, <1>8, <2>3, AffordableType
  <2>5. a <= o * a /\ o * a \in Nat
    BY <1>4, <1>5, <2>1
  <2> QED
    BY <1>4, <2>4, <2>5, AmountTypes
<1>9. Sending(c)'
  <2>1. PICK n \in Nat, b \in Nat : n = toSend'[c] /\ b = balance[c] /\ b = balance'[c] /\ n <= Share(c)
    BY <1>1, <1>6, AmountTypes
  <2>2. Share(c)' = Share(c) /\ (Lacks(c)' => Lacks(c))
    BY <1>1, <1>2, <1>3, PlanDecides, SteadyKnown
  <2>3. n > 0 => Lacks(c) /\ n + b >= Required[c]
    BY <1>7, <1>8, <2>1
  <2>4. PICK r \in Row : r = draft /\ r = draft'
    BY <1>1, <1>2
  <2>5. n > 0 => Owing(r, c, 0)'
    BY <1>1, <1>2, <1>3, <2>3, <2>4, SteadyKnown
  <2>6. n = 0 => ~Lacks(c)'
    BY <1>8, <2>1, <2>2
  <2> QED
    BY <2>1, <2>2, <2>3, <2>4, <2>5, <2>6 DEF Sending
<1>10. Known(row, c, 1)'
  <2>1. PICK q2 \in Row : q2 = row /\ q2 = row'
    BY <1>1, <1>2
  <2>2. Known(q2, c, 1)'
    BY <1>1, <1>2, <1>3, <2>1, SteadyKnown
  <2> QED
    BY <2>1, <2>2
<1>11. AtHandKnown(c)'
  BY <1>1, <1>9 DEF AtHandKnown
<1> QED
  BY <1>1, <1>2, <1>3, <1>10, <1>11, SteadyKnown DEF PaysOnce

\* The sources, and what a call carries of a currency.
LEMMA SourceOfCurrency ==
    ASSUME TypeInv, NEW c \in Currencies
    PROVE  /\ ToPay = {} => toSend[c] = 0
           /\ \A source : Batch(source)[c] = IF Source(c) = source THEN toSend[c] ELSE 0
           /\ \A source \in {"primary", "allocation"} :
                 source \notin ToPay /\ Source(c) = source => toSend[c] = 0
           /\ Source(c) \in {"primary", "allocation"}
<1>1. Source(c) \in {"primary", "allocation"}
  BY DEF Source
<1>2. \A source : Batch(source)[c] = IF Source(c) = source THEN toSend[c] ELSE 0
  BY DEF Batch
<1>3. ASSUME NEW source \in {"primary", "allocation"}, source \notin ToPay, Source(c) = source
      PROVE  toSend[c] = 0
  <2>1. Batch(source) = Nothing
    BY <1>3 DEF ToPay
  <2>2. Nothing[c] = 0
    BY DEF Nothing
  <2> QED
    BY <1>2, <1>3, <2>1, <2>2
<1> QED
  BY <1>1, <1>2, <1>3

\* While there is something to pay, what is known of a row that is to be tried again.
LEMMA RefusedOwes ==
    ASSUME TypeInv, NEW c \in Currencies, PaysOnce(c), NEW source, Paying(source)
    PROVE  /\ RetryOrFailure \in Row /\ Known(RetryOrFailure, c, 0)
           /\ Abandoned \in Row /\ Known(Abandoned, c, 0)
<1>1. sweep = "sending" /\ sweep \in Handling /\ source \in ToPay
  BY DEF Paying, Handling
<1>2. Sending(c) /\ draft \in Row /\ plan # <<>>
  BY <1>1, AtHandIsKnown
<1>3. \E d \in Currencies : toSend[d] # 0
  <2>1. Batch(source) # Nothing
    BY <1>1 DEF ToPay
  <2>2. (\A d \in Currencies : toSend[d] = 0) => Batch(source) = Nothing
    BY DEF Batch, Nothing
  <2> QED
    BY <2>1, <2>2
<1>4. \/ Covered(draft.pending, c) \/ Owing(draft, c, 0)
      \/ First(c) /\ Owing(draft, c, 1)
  <2>1. toSend[c] > 0 \/ toSend[c] = 0
    BY AmountTypes
  <2> QED
    BY <1>2, <1>3, <2>1 DEF Sending, Covered
<1> QED
  BY <1>1, <1>2, <1>4, RetriedOwes, RetriedIsRow

\* A refusal.
LEMMA RefusedPays ==
    ASSUME TypeInv, NEW c \in Currencies, PaysOnce(c), NEW source, SendRefused(source)
    PROVE  PaysOnce(c)'
<1>1. /\ Paying(source) /\ sweep \in Handling /\ Write(RetryOrFailure)
      /\ faults' = faults /\ UNCHANGED <<txs, funds, balance>>
  BY DEF SendRefused, Paying, Handling, chainVars
<1> QED
  BY <1>1, HeldIsSteady, RefusedOwes, QuietPays

\* One transfer more is one that the row at hand, tried again or read again, may owe.
LEMMA OneMoreIsOwed ==
    ASSUME TypeInv, NEW c \in Currencies, sweep = "sending", Owing(draft, c, 0), plan' = plan,
           Times(c)' = Times(c) + 1, faults' = faults \/ faults' = faults + 1,
           NEW r \in Row, r.pos = draft.pos, r.pending = draft.pending,
           r.status \in Live => r.status = draft.status,
           r.attempts >= draft.attempts
    PROVE  r.status \in Live => Owing(r, c, 1)' /\ (faults' = faults + 1 => Owing(r, c, 0)')
<1> SUFFICES ASSUME r.status \in Live
             PROVE  Owing(r, c, 1)' /\ (faults' = faults + 1 => Owing(r, c, 0)')
  OBVIOUS
<1>1. sweep \in Handling /\ draft \in Row /\ plan \in Plan /\ draft.pos \in Position /\ PosOK(draft.pos)
      /\ plan # <<>>
  BY AtHand, PlanIsNotEmpty DEF Handling
<1>2. ~Simple /\ draft.status \notin Waiting /\ draft.pos.step = 4
  <2>1. Task(draft.pos) = "plan" /\ draft.status \notin Waiting
    BY DEF TypeInv, SweepOK
  <2>2. draft.pos.step \in 0 .. 6 /\ draft.pos.phase \in 0 .. 4
    BY <1>1 DEF Position
  <2> QED
    BY <1>1, <2>1, <2>2, TasksInOrder
<1>3. Simple' = Simple
  BY DEF Simple
<1>4. PICK k \in Nat, f \in Nat, h \in Nat, a \in Nat, b \in Nat :
         /\ k = Times(c) /\ f = faults /\ h = faults' /\ a = Tried(draft, c) /\ b = Tried(r, c)
         /\ b >= a /\ (h = f \/ h = f + 1)
  <2>1. draft.attempts \in Nat /\ r.attempts \in Nat
    BY <1>1 DEF Row
  <2>2. Tried(r, c) >= Tried(draft, c)
    BY <2>1 DEF Tried
  <2> QED
    BY <1>1, <2>2, ShareType, FaultsCount
<1>5. k <= a + f + 0
  BY <1>4 DEF Owing
<1>6. k + 1 <= b + h + 1 /\ (h = f + 1 => k + 1 <= b + h + 0)
  BY <1>4, <1>5
<1>7. Times(c)' = k + 1 /\ Tried(r, c)' = b
  BY <1>4, PlanDecides
<1>8. ~(Simple' \/ r.pos.step < 4 \/ r.status \in Waiting) /\ r.pos.step <= 4 /\ r.pending = {}
  BY <1>2, <1>3 DEF Owing
<1>9. ASSUME NEW n \in {0, 1}, k + 1 <= b + h + n PROVE Owing(r, c, n)'
  <2>1. Times(c)' <= Tried(r, c)' + faults' + n
    BY <1>4, <1>7, <1>9
  <2> QED
    BY <1>8, <2>1 DEF Owing
<1> QED
  BY <1>4, <1>6, <1>9

\* A call that carries a currency: the one transfer more that was owed, and what it
\* brings if it is waited for.
LEMMA CallCarries ==
    ASSUME TypeInv, NEW c \in Currencies, PaysOnce(c), sweep = "sending",
           NEW amount \in [Currencies -> Nat], amount[c] = toSend[c], toSend[c] > 0,
           NEW state \in {"executing", "failed", "mempool", "mined"}, state # "mined",
           state = "failed" \/ amount[c] <= funds[c],
           Taken("transfer", Token, amount, state), plan' = plan,
           faults' = faults \/ faults' = faults + 1
    PROVE  /\ Times(c)' = Times(c) + 1
           /\ \E i : i = NextTx /\ i \in Sent(c)' /\ Brings(i, c)'
           /\ (funds[c] + Times(c) * Share(c) >= InitialFunds[c])'
           /\ (Times(c) <= Attempts(c) + faults)'
           /\ Owing(draft, c, 0)
<1>1. sweep \in Handling /\ draft \in Row /\ plan # <<>> /\ Sending(c)
      /\ draft.attempts \in Nat /\ draft.attempts < MaxRetries
  BY AtHandIsKnown DEF Handling
<1>2. Owing(draft, c, 0) /\ toSend[c] <= Share(c) /\ toSend[c] + balance[c] >= Required[c]
  BY <1>1 DEF Sending
<1>3. Token \in Sites
  BY DEF Sites
<1>4. /\ DOMAIN txs' = DOMAIN txs \cup {NextTx} /\ NextTx \notin DOMAIN txs
      /\ txs'[NextTx].amount = amount /\ txs'[NextTx].state = state
      /\ \A i \in DOMAIN txs : txs'[i] = txs[i]
  BY <1>3, NewTx
<1>5. Sent(c)' = Sent(c) \cup {NextTx} /\ NextTx \notin Sent(c)
  BY <1>4 DEF Sent
<1>6. Times(c)' = Times(c) + 1
  <2>1. IsFiniteSet(Sent(c))
    BY BoughtIsFinite DEF Sent
  <2>2. Cardinality(Sent(c) \cup {NextTx}) = Cardinality(Sent(c)) + 1
    BY <1>5, <2>1, FS_AddElement
  <2>3. Cardinality(Sent(c)') = Cardinality(Sent(c) \cup {NextTx})
    BY <1>5, Zenon
  <2> QED
    BY <2>2, <2>3 DEF Times
<1>7. balance' = balance
  BY DEF Taken
<1>8. PICK i : i = NextTx
  OBVIOUS
<1>9. Brings(i, c)'
  <2>1. PICK n \in Nat, b \in Nat : n = toSend[c] /\ b = balance[c] /\ n + b >= Required[c]
    BY <1>2, AmountTypes
  <2>2. txs'[i].amount[c] = n /\ balance'[c] = b /\ txs'[i].state # "mined"
    BY <1>4, <1>7, <1>8, <2>1
  <2> QED
    BY <2>1, <2>2 DEF Brings
<1>10. PICK k \in Nat, s \in Nat, t \in Nat, n \in Nat, g \in Nat :
         /\ k = Times(c) /\ s = Share(c) /\ t = k * s /\ n = toSend[c] /\ g = funds[c]
         /\ n <= s /\ g + t >= InitialFunds[c]
  <2>1. funds[c] + Times(c) * Share(c) >= InitialFunds[c]
    BY DEF PaysOnce
  <2> QED
    BY <1>1, <1>2, <2>1, ShareType, AmountTypes
<1>11. funds'[c] \in Nat /\ funds'[c] >= g - n
  <2>1. funds' = funds \/ (funds'[c] = funds[c] - amount[c] /\ amount[c] <= funds[c])
    BY DEF Taken
  <2> QED
    BY <1>10, <2>1
<1>12. (funds[c] + Times(c) * Share(c) >= InitialFunds[c])'
  <2>1. (k + 1) * s = t + s
    <3>1. (k + 1) * s = k * s + s
      OBVIOUS
    <3> QED
      BY <1>10, <3>1
  <2>2. (Times(c) * Share(c))' = t + s
    <3>1. Times(c)' = k + 1 /\ Share(c)' = s
      BY <1>6, <1>10, PlanDecides
    <3> QED
      BY <2>1, <3>1
  <2>3. PICK h \in Nat : h = funds'[c] /\ h >= g - n
    BY <1>11
  <2>4. h + (t + s) >= InitialFunds[c]
    BY <1>10, <2>3, AmountTypes
  <2> QED
    BY <2>2, <2>3, <2>4
<1>13. (Times(c) <= Attempts(c) + faults)'
  <2>1. PICK f \in Nat, h \in Nat, a \in Nat, m \in Nat :
           /\ f = faults /\ h = faults' /\ h >= f /\ a = draft.attempts /\ m = MaxRetries /\ a + 1 <= m
    <3>1. MaxRetries \in Nat
      BY CurrencyAssumption
    <3>2. draft.attempts + 1 <= MaxRetries
      BY <1>1, <3>1
    <3> QED
      BY <1>1, <3>1, <3>2, FaultsCount
  <2>2. k <= Tried(draft, c) + f + 0
    BY <1>2, <1>10, <2>1 DEF Owing
  <2>3. First(c) => Tried(draft, c) = a /\ Attempts(c) = m
    BY <2>1 DEF First, Tried, Attempts
  <2>4. ~First(c) => Tried(draft, c) = 0 /\ Attempts(c) = 1
    BY DEF First, Tried, Attempts
  <2>5. PICK e \in Nat, b \in Nat : e = Tried(draft, c) /\ b = Attempts(c) /\ e + 1 <= b
    BY <2>1, <2>3, <2>4
  <2>6. k + 1 <= b + h
    BY <2>1, <2>2, <2>5
  <2> QED
    BY <1>6, <1>10, <2>1, <2>5, <2>6, PlanDecides
<1> QED
  BY <1>2, <1>5, <1>6, <1>8, <1>9, <1>12, <1>13

\* A call that was taken: what it carries is sent once more, and waited for unless the
\* answer is lost.
LEMMA SendingPays ==
    ASSUME TypeInv, SameRow, OnlyPrimaryPays, NEW c \in Currencies, PaysOnce(c),
           NEW source \in {"primary", "allocation"}, SendTransfers(source)
    PROVE  PaysOnce(c)'
<1>1. Paying(source) /\ sweep = "sending" /\ sweep \in Handling
  BY DEF SendTransfers, Paying, Handling
<1>2. /\ plan # <<>> /\ draft \in Row /\ row \in Row /\ Sending(c) /\ Known(row, c, 1)
      /\ RetryOrFailure \in Row /\ Known(RetryOrFailure, c, 0)
      /\ Abandoned \in Row /\ Known(Abandoned, c, 0)
  BY <1>1, AtHandIsKnown, RefusedOwes
<1>3. PICK amount \in [Currencies -> Nat] :
         /\ amount = Batch(source)
         /\ \A d \in Currencies : amount[d] = IF Source(d) = source THEN toSend[d] ELSE 0
         /\ CanPay(source) => \A d \in Currencies : amount[d] <= funds[d]
  BY BatchIsPlanned, SourceOfCurrency DEF CanPay
<1>4. PICK state \in {"mempool", "executing", "failed"}, wait \in {TxWait(NextTx), OpWait(NextTx)} :
         /\ Taken("transfer", Token, amount, state)
         /\ state # "failed" => CanPay(source)
         /\ \/ Answered(amount, wait) /\ state # "failed"
            \/ Write(RetryOrFailure) /\ faults' = faults + 1
            \/ Write(Abandoned) /\ faults' = faults
  <2>1. \A a \in SendAnswers : a.state \in {"mempool", "executing"} /\ a.wait \in {TxWait(NextTx), OpWait(NextTx)}
    BY DEF SendAnswers
  <2> QED
    BY <1>3, <2>1 DEF SendTransfers, Answered, Fault
<1>5. plan' = plan /\ row' = row /\ (faults' = faults \/ faults' = faults + 1) /\ Token \in Sites
  BY <1>4 DEF Answered, Write, Sites
<1>6. PICK q \in Row : q = row /\ q = row'
  BY <1>2, <1>5
<1>7. wait.id = NextTx /\ wait.type # "none"
  BY NewWaitsAreWaits
<1>8. CASE amount[c] = 0
  <2>1. Steady(c)
    BY <1>4, <1>5, <1>8, TakenIsSteady
  <2>2. ASSUME Answered(amount, wait) PROVE PaysOnce(c)'
    <3>1. /\ draft' = draft /\ sweep' = sweep /\ newWaits' = newWaits \cup {wait}
          /\ \A d \in Currencies : toSend'[d] = toSend[d] - amount[d]
      BY <2>2 DEF Answered
    <3>2. toSend'[c] = toSend[c]
      <4>1. \A n \in Nat : n - 0 = n
        OBVIOUS
      <4> QED
        BY <1>8, <3>1, <4>1, AmountTypes
    <3>3. PICK r \in Row : r = draft /\ r = draft'
      BY <1>2, <3>1
    <3>4. /\ Share(c)' = Share(c) /\ First(c)' = First(c) /\ (Lacks(c)' => Lacks(c))
          /\ \A n \in {0, 1} : Owing(r, c, n) => Owing(r, c, n)'
          /\ Known(q, c, 1)'
      BY <1>2, <1>5, <1>6, <2>1, PlanDecides, SteadyKnown
    <3>5. Covered(newWaits, c) => Covered(newWaits, c)'
      <4>1. PICK waits : waits = newWaits
        OBVIOUS
      <4>2. Covered(waits, c) => Covered(waits, c)'
        BY <1>2, <1>5, <2>1, SteadyKnown
      <4>3. waits \subseteq newWaits'
        BY <3>1, <4>1
      <4> QED
        BY <4>1, <4>2, <4>3 DEF Covered
    <3>6. balance' = balance /\ (\A d \in Currencies : toSend[d] = 0 => toSend'[d] = 0)
      <4>1. \A d \in Currencies : amount[d] = 0 \/ amount[d] = toSend[d]
        BY <1>3
      <4>2. \A d \in Currencies : toSend[d] = 0 => toSend'[d] = 0 - amount[d] /\ amount[d] = 0
        BY <3>1, <4>1
      <4>3. balance' = balance
        BY <1>4 DEF Taken
      <4> QED
        BY <4>2, <4>3
    <3>7. Sending(c)'
      <4>1. /\ toSend'[c] <= Share(c)'
            /\ toSend'[c] > 0 => Owing(r, c, 0)' /\ toSend'[c] + balance'[c] >= Required[c]
        BY <1>2, <3>2, <3>3, <3>4, <3>6 DEF Sending
      <4>2. toSend'[c] = 0 =>
              \/ ~Lacks(c)'
              \/ /\ Owing(r, c, 1)' /\ Covered(newWaits, c)'
                 /\ ~First(c)' => \A d \in Currencies : toSend'[d] = 0
        BY <1>2, <3>2, <3>3, <3>4, <3>5, <3>6 DEF Sending
      <4> QED
        BY <3>3, <4>1, <4>2 DEF Sending
    <3>8. AtHandKnown(c)' /\ Known(row, c, 1)'
      BY <1>1, <1>6, <3>1, <3>4, <3>7 DEF AtHandKnown
    <3> QED
      BY <1>2, <1>5, <2>1, <3>8, SteadyKnown DEF PaysOnce
  <2> QED
    BY <1>1, <1>2, <1>4, <1>5, <2>1, <2>2, QuietPays
<1>9. CASE amount[c] # 0
  <2>1. /\ Source(c) = source /\ amount[c] = toSend[c] /\ toSend[c] > 0
        /\ state = "failed" \/ amount[c] <= funds[c]
    BY <1>3, <1>4, <1>9, AmountTypes
  <2>2. /\ Times(c)' = Times(c) + 1
        /\ (funds[c] + Times(c) * Share(c) >= InitialFunds[c])'
        /\ (Times(c) <= Attempts(c) + faults)'
        /\ Owing(draft, c, 0)
    BY <1>1, <1>4, <1>5, <2>1, CallCarries
  <2>3. PICK i : i = NextTx /\ i \in Sent(c)' /\ Brings(i, c)'
    BY <1>1, <1>4, <1>5, <2>1, CallCarries
  <2>4. Known(q, c, 1)'
    <3>1. SUFFICES ASSUME q.status \in Live PROVE Owing(q, c, 1)'
      BY DEF Known
    <3>2. /\ q.pos = draft.pos /\ q.pending = draft.pending /\ q.status = draft.status
          /\ q.attempts >= draft.attempts
      <4>1. q.pos = draft.pos /\ q.pending = draft.pending /\ q.status = draft.status
            /\ q.attempts = draft.attempts /\ q.attempts \in Nat
        BY <1>1, <1>6, <3>1 DEF SameRow, Row
      <4> QED
        BY <4>1
    <3> QED
      BY <1>1, <1>5, <2>2, <3>1, <3>2, OneMoreIsOwed
  <2>5. CASE Answered(amount, wait)
    <3>1. /\ draft' = draft /\ sweep' = sweep /\ newWaits' = newWaits \cup {wait}
          /\ \A d \in Currencies : toSend'[d] = toSend[d] - amount[d]
      BY <2>5 DEF Answered
    <3>2. PICK r \in Row : r = draft /\ r = draft'
      BY <1>2, <3>1
    <3>3. \A d \in Currencies : Source(d) = source => toSend'[d] = 0
      <4>1. \A n \in Nat : n - n = 0
        OBVIOUS
      <4> QED
        BY <1>3, <3>1, <4>1, AmountTypes
    <3>4. Owing(r, c, 1)'
      <4>1. r.attempts >= draft.attempts /\ r.status \in Live
        BY <1>1, <3>2, AtHand DEF Row
      <4> QED
        BY <1>1, <1>5, <2>2, <3>2, <4>1, OneMoreIsOwed
    <3>5. Covered(newWaits, c)'
      BY <1>7, <2>3, <3>1 DEF Covered
    <3>6. ASSUME ~First(c)', NEW d \in Currencies PROVE toSend'[d] = 0
      <4>1. ~First(c)
        BY <1>5, <3>6, PlanDecides
      <4>2. \A n \in Nat : n > 0 \/ n = 0
        OBVIOUS
      <4>3. Source(d) = source \/ toSend[d] = 0
        <5>1. CASE CreatesReserves
          <6>1. source = "allocation"
            BY <2>1, <4>1, <5>1 DEF First, Source, CreatesReserves
          <6>2. "primary" \notin ToPay
            BY <1>1, <6>1 DEF Paying
          <6> QED
            BY <6>1, <6>2, SourceOfCurrency
        <5>2. CASE ~CreatesReserves
          <6>1. source = "primary"
            BY <1>1, <2>1, <5>2 DEF OnlyPrimaryPays
          <6> QED
            BY <1>1, <4>2, <5>2, <6>1, AmountTypes DEF OnlyPrimaryPays
        <5> QED
          BY <5>1, <5>2
      <4>4. CASE toSend[d] = 0 /\ Source(d) # source
        <5>1. amount[d] = 0
          BY <1>3, <4>4
        <5> QED
          BY <3>1, <4>4, <5>1
      <4> QED
        BY <3>3, <4>3, <4>4
    <3>7. Sending(c)'
      <4>1. toSend'[c] = 0
        BY <2>1, <3>3
      <4>2. Share(c)' \in Nat
        BY <1>2, <1>5, ShareType, PlanDecides
      <4>3. toSend'[c] <= Share(c)' /\ ~(toSend'[c] > 0)
        BY <4>1, <4>2
      <4> QED
        BY <3>2, <3>4, <3>5, <3>6, <4>3 DEF Sending
    <3>8. AtHandKnown(c)' /\ Known(row, c, 1)'
      BY <1>1, <1>6, <2>4, <3>1, <3>7 DEF AtHandKnown
    <3> QED
      BY <2>2, <3>8 DEF PaysOnce
  <2>6. ASSUME NEW r \in Row, Write(r),
               \/ r = Abandoned
               \/ r = RetryOrFailure /\ faults' = faults + 1
        PROVE  PaysOnce(c)'
    <3>1. Known(r, c, 0)'
      <4>1. CASE r = Abandoned
        <5>1. r.status = "failed" /\ "failed" \notin Live
          BY <1>2, <4>1, RetriedIsRow DEF Live, Waiting
        <5> QED
          BY <5>1 DEF Known
      <4>2. CASE r = RetryOrFailure /\ faults' = faults + 1
        <5>1. /\ r.pos = draft.pos /\ r.pending = draft.pending
              /\ r.attempts = draft.attempts + 1 /\ draft.attempts \in Nat
              /\ r.status \in Live => r.status = draft.status
          BY <1>2, <4>2, RetriedIsRow DEF Live, Waiting, Row
        <5>2. r.attempts >= draft.attempts
          BY <5>1
        <5>3. r.status \in Live => Owing(r, c, 0)'
          BY <1>1, <1>5, <2>2, <4>2, <5>1, <5>2, OneMoreIsOwed
        <5> QED
          BY <5>3 DEF Known
      <4> QED
        BY <2>6, <4>1, <4>2
    <3>2. Current' = r /\ sweep' = "written"
      BY <2>6, WriteIsCurrent
    <3>3. AtHandKnown(c)' /\ Known(row, c, 1)'
      BY <1>6, <2>4, <3>1, <3>2 DEF AtHandKnown
    <3> QED
      BY <2>2, <3>3 DEF PaysOnce
  <2> QED
    BY <1>2, <1>4, <2>5, <2>6
<1> QED
  BY <1>8, <1>9

\* The end of a funding step: its waits are saved, or there is nothing to wait for.
LEMMA SavingPays ==
    ASSUME TypeInv, NEW c \in Currencies, PaysOnce(c), SaveFunding
    PROVE  PaysOnce(c)'
<1>1. sweep = "sending" /\ sweep \in Handling /\ ToPay = {} /\ faults' = faults /\ UNCHANGED <<txs, funds, balance>>
  BY DEF SaveFunding, Handling, chainVars
<1>2. /\ draft \in Row /\ plan # <<>> /\ Sending(c) /\ draft.pos \in Position
      /\ newWaits \in SUBSET Wait
  BY <1>1, AtHandIsKnown, AtHand DEF TypeInv, TypeOK
<1>3. toSend[c] = 0
  BY <1>1, SourceOfCurrency
<1>4. ~Lacks(c) \/ (draft.pending = {} /\ Covered(newWaits, c))
  BY <1>2, <1>3 DEF Sending, Owing
<1>5. PICK n, r :
         /\ n \in {4, 5}
         /\ Write(r)
         /\ r = [Saved("in_progress", [draft.pos EXCEPT !.step = n], NoWait)
                   EXCEPT !.pending = IF @ = {} THEN newWaits ELSE {}]
  BY DEF SaveFunding
<1>6. PICK m \in 0 .. 6 : m = n
  BY <1>5
<1>7. PICK pos \in Position : pos = [draft.pos EXCEPT !.step = m]
  <2>1. PICK old \in Position : old = draft.pos
    BY <1>2
  <2>2. [old EXCEPT !.step = m] \in Position
    BY DEF Position
  <2> QED
    BY <2>1, <2>2
<1>8. PICK base \in Row : base = Saved("in_progress", pos, NoWait) /\ base.pending = draft.pending
  <2>1. "in_progress" \in RowStatuses /\ NoWait \in Wait
    BY DEF RowStatuses, Live, NoWait, Wait
  <2> QED
    BY <1>2, <2>1, SavedIsRow
<1>9. PICK waits \in SUBSET Wait : waits = IF draft.pending = {} THEN newWaits ELSE {}
  BY <1>2
<1>10. r \in Row /\ r.pending = waits
  <2>1. r = [base EXCEPT !.pending = waits]
    BY <1>5, <1>6, <1>7, <1>8, <1>9
  <2> QED
    BY <2>1, PendingSet
<1>11. Known(r, c, 0)
  <2>1. Covered(waits, c)
    BY <1>4, <1>9 DEF Covered
  <2> QED
    BY <1>10, <2>1 DEF Known
<1> QED
  BY <1>1, <1>5, <1>10, <1>11, HeldIsSteady, QuietPays

\* The gate is only reached when all that is lacking is waited for.
LEMMA GatePays ==
    ASSUME TypeInv, NEW c \in Currencies, PaysOnce(c), Hold \/ DefineBasket
    PROVE  PaysOnce(c)'
<1>1. sweep = "planning" /\ sweep \in Handling /\ Task(draft.pos) = "gate"
  BY DEF Hold, DefineBasket, AtGate, Handling
<1>2. /\ draft \in Row /\ plan # <<>> /\ (~Lacks(c) \/ Owing(draft, c, 0))
      /\ plan \in Plan /\ draft.pos \in Position /\ PosOK(draft.pos)
  BY <1>1, AtHandIsKnown, AtHand
<1>3. ~Simple /\ draft.pos.step = 5
  <2>1. draft.pos.step \in 0 .. 6 /\ draft.pos.phase \in 0 .. 4
    BY <1>2 DEF Position
  <2> QED
    BY <1>1, <1>2, <2>1, TasksInOrder
<1>4. ~Lacks(c)
  BY <1>2, <1>3 DEF Owing
<1>5. ASSUME NEW r \in Row, Write(r), Steady(c), faults' = faults \/ faults' = faults + 1
      PROVE  PaysOnce(c)'
  <2>1. Known(r, c, 0)
    BY <1>4 DEF Known, Covered
  <2> QED
    BY <1>1, <1>5, <2>1, QuietPays
<1>6. {} \in SUBSET Wait /\ NoWait \in Wait
  BY DEF NoWait, Wait
<1>7. CASE Hold
  <2>1. "in_progress" \in RowStatuses
    BY DEF RowStatuses, Live
  <2>2. PICK base \in Row : base = Saved("in_progress", draft.pos, NoWait)
    BY <1>2, <1>6, <2>1, SavedIsRow
  <2>3. base.sanity \in BOOLEAN /\ (\A b \in BOOLEAN : (base.sanity \/ b) \in BOOLEAN) /\ Funded \in BOOLEAN
    BY DEF Row, Funded
  <2>4. PICK mark, r : /\ mark \in BOOLEAN
                              /\ Write(r) /\ r = [base EXCEPT !.pending = {}, !.sanity = mark]
    BY <1>7, <2>2, <2>3 DEF Hold
  <2>5. r \in Row
    BY <1>6, <2>2, <2>4 DEF Row
  <2>6. Steady(c) /\ faults' = faults
    BY <1>7, HeldIsSteady DEF Hold, chainVars
  <2> QED
    BY <1>5, <2>4, <2>5, <2>6
<1>8. CASE DefineBasket
  <2>1. Taken("define", Token, Nothing, "mempool")
    BY <1>8 DEF DefineBasket
  <2>2. Steady(c)
    BY <1>1, <2>1, LadderCallIsSteady
  <2>3. PICK base \in Row : base = Advanced(TxWait(NextTx))
    <3>1. WellFormed(Advanced(TxWait(NextTx)), NextTx)
      BY <1>1, AdvancedIsOK, NewWaitsAreWaits DEF Advancing
    <3> QED
      BY <3>1 DEF WellFormed
  <2>4. PICK r : /\ Write(r)
                 /\ r = [base EXCEPT !.pending = {}, !.sanity = FALSE] \/ r = RetryOrFailure
                 /\ faults' = faults \/ faults' = faults + 1
    BY <1>8, <2>3 DEF DefineBasket, Fault
  <2>5. r \in Row
    <3>1. RetryOrFailure \in Row
      BY <1>2, RetriedIsRow
    <3>2. [base EXCEPT !.pending = {}, !.sanity = FALSE] \in Row
      BY <1>6, <2>3 DEF Row
    <3> QED
      BY <2>4, <3>1, <3>2
  <2> QED
    BY <1>5, <2>2, <2>4, <2>5
<1> QED
  BY <1>7, <1>8

-----------------------------------------------------------------------------
(* Transfers: the API, the beginning and the end of a sweep, the world.    *)

\* A steady step after which it is known what the row at hand and the committed one owe.
LEMMA StillPays ==
    ASSUME TypeInv, plan # <<>>, NEW c \in Currencies, PaysOnce(c), plan' = plan, Steady(c),
           faults' = faults \/ faults' = faults + 1,
           AtHandKnown(c)', sweep' # "idle" => Known(row, c, 1)'
    PROVE  PaysOnce(c)'
  BY SteadyKnown DEF PaysOnce

\* What is known of a row is known of it when it is read.
LEMMA KnownWhenRead ==
    ASSUME TypeInv, plan # <<>>, NEW c \in Currencies, NEW r \in Row, Known(r, c, 0)
    PROVE  Known(r, c, 1)
<1>1. PICK k \in Nat, t \in Nat, f \in Nat : k = Times(c) /\ t = Tried(r, c) /\ f = faults
  BY ShareType, FaultsCount
<1>2. k <= t + f + 0 => k <= t + f + 1
  OBVIOUS
<1> QED
  BY <1>1, <1>2 DEF Known, Owing

\* The sweep stays where it is.
LEMMA AtHandStaysKnown ==
    ASSUME TypeInv, plan # <<>>, NEW c \in Currencies, PaysOnce(c), plan' = plan, Steady(c),
           faults' = faults \/ faults' = faults + 1, sweep # "idle",
           UNCHANGED <<sweep, draft, toSend, newWaits>>
    PROVE  AtHandKnown(c)'
<1>1. AtHandKnown(c) /\ draft \in Row
  BY DEF PaysOnce, TypeInv, TypeOK
<1>2. PICK r, waits : r \in Row /\ r = draft /\ r = draft' /\ waits = newWaits /\ waits = newWaits'
  BY <1>1
<1>3. /\ Share(c)' = Share(c) /\ First(c)' = First(c) /\ (Lacks(c)' => Lacks(c))
      /\ \A n \in {0, 1} : Owing(r, c, n) => Owing(r, c, n)'
      /\ Known(r, c, 0) => Known(r, c, 0)'
      /\ Covered(waits, c) => Covered(waits, c)'
  BY <1>2, PlanDecides, SteadyKnown
<1>4. CASE sweep = "sending"
  <2>1. Sending(c)
    BY <1>1, <1>4 DEF AtHandKnown
  <2>2. PICK n \in Nat, b \in Nat, g \in Nat :
           n = toSend[c] /\ n = toSend'[c] /\ b = balance[c] /\ g = balance'[c] /\ g >= b
    BY AmountTypes DEF Steady
  <2>3. n + b >= Required[c] => n + g >= Required[c]
    BY <2>2, AmountTypes
  <2>4. /\ n <= Share(c)' /\ (n > 0 => Owing(r, c, 0)' /\ n + g >= Required[c])
        /\ n = 0 => \/ ~Lacks(c)'
                    \/ /\ Owing(r, c, 1)' /\ Covered(waits, c)'
                       /\ ~First(c)' => \A d \in Currencies : toSend'[d] = 0
    BY <1>2, <1>3, <2>1, <2>2, <2>3 DEF Sending
  <2>5. Sending(c)'
    BY <1>2, <2>2, <2>4 DEF Sending
  <2> QED
    BY <1>4, <2>5 DEF AtHandKnown
<1>5. CASE sweep = "planning"
  BY <1>1, <1>2, <1>3, <1>5 DEF AtHandKnown
<1>6. CASE sweep \notin {"sending", "planning"}
  BY <1>1, <1>2, <1>3, <1>6 DEF AtHandKnown, Current
<1> QED
  BY <1>4, <1>5, <1>6

\* Whatever else happens to a request.
LEMMA RestPays ==
    ASSUME TypeInv, plan # <<>>, NEW c \in Currencies, PaysOnce(c),
           \/ DeleteRequest \/ Select \/ EmptySweep \/ Begin \/ Commit \/ Crash
           \/ BackoffElapses \/ Operations \/ Mining
           \/ (\E i \in DOMAIN txs : OperationForgotten(i))
           \/ (\E d \in Currencies : Refill(d))
           \/ UNCHANGED vars
    PROVE  PaysOnce(c)'
<1>1. /\ "absent" \notin Live /\ AbsentRow.status = "absent" /\ draft \in Row /\ row \in Row
      /\ AtHandKnown(c) /\ (sweep # "idle" => Known(row, c, 1))
      /\ sweep = "idle" => Known(row, c, 0)
  BY AbsentIsRow DEF Live, Waiting, TypeInv, TypeOK, PaysOnce, AtHandKnown, Current
<1>2. \A r, n : r.status = "absent" => Known(r, c, n)'
  BY <1>1 DEF Known
\* The chain stays as it is.
<1>3. ASSUME UNCHANGED chainVars PROVE Steady(c)
  BY <1>3, HeldIsSteady DEF chainVars
\* The sweep stays as it is, and the row differs in its retry time at most, or is gone.
<1>4. ASSUME Steady(c), plan' = plan, faults' = faults \/ faults' = faults + 1,
             UNCHANGED <<sweep, draft, toSend, newWaits>>,
             \/ row'.status = "absent"
             \/ /\ row'.status = row.status /\ row'.pos = row.pos
                /\ row'.attempts = row.attempts /\ row'.pending = row.pending
      PROVE  PaysOnce(c)'
  <2>1. PICK q : q = row'
    OBVIOUS
  <2>2. ASSUME NEW n \in {0, 1}, Known(row, c, n) PROVE Known(row, c, n)'
    <3>1. PICK r \in Row : r = row /\ Known(r, c, n)'
      BY <1>1, <1>4, <2>2, SteadyKnown
    <3>2. (q.status = r.status /\ q.pos = r.pos /\ q.attempts = r.attempts /\ q.pending = r.pending)
             => Known(q, c, n)'
      BY <3>1 DEF Known, Owing, Tried
    <3>3. q.status = "absent" => Known(q, c, n)'
      BY <1>2
    <3> QED
      BY <1>4, <2>1, <3>1, <3>2, <3>3
  <2>3. sweep' # "idle" => Known(row, c, 1)'
    BY <1>1, <1>4, <2>2
  <2>4. CASE sweep = "idle"
    <3>1. Known(row, c, 0)'
      BY <1>1, <2>2, <2>4
    <3> QED
      BY <1>4, <2>3, <2>4, <3>1, StillPays DEF AtHandKnown, Current
  <2>5. CASE sweep # "idle"
    BY <1>4, <2>3, <2>5, AtHandStaysKnown, StillPays
  <2> QED
    BY <2>4, <2>5
<1>5. CASE DeleteRequest
  BY <1>1, <1>3, <1>4, <1>5 DEF DeleteRequest, jobVars
<1>6. CASE BackoffElapses
  <2>1. PICK q : q = row' /\ q = [row EXCEPT !.backoff = FALSE]
    BY <1>6 DEF BackoffElapses
  <2>2. q.status = row.status /\ q.pos = row.pos /\ q.attempts = row.attempts /\ q.pending = row.pending
    BY <1>1, <2>1 DEF Row
  <2> QED
    BY <1>3, <1>4, <1>6, <2>1, <2>2 DEF BackoffElapses, jobVars
<1>7. CASE EmptySweep \/ UNCHANGED vars
  BY <1>3, <1>4, <1>7 DEF EmptySweep, vars, jobVars
<1>8. CASE \E i \in DOMAIN txs : OperationForgotten(i)
  <2>1. Steady(c)
    BY <1>8, HeldIsSteady DEF OperationForgotten
  <2> QED
    BY <1>4, <1>8, <2>1 DEF OperationForgotten, Fault, jobVars
<1>9. CASE Operations \/ Mining \/ (\E d \in Currencies : Refill(d))
  <2>1. Steady(c)
    BY <1>9, WorldIsSteady DEF Operations, Mining
  <2> QED
    BY <1>4, <1>9, <2>1 DEF Operations, Mining, OperationSucceeds, OperationFails, Mine, Refill, jobVars
\* The sweep moves on.
<1>10. ASSUME NEW r \in Row, NEW n \in {0, 1}, Known(r, c, n), UNCHANGED chainVars, plan' = plan,
              faults' = faults \/ faults' = faults + 1, n = 0 \/ faults' = faults + 1
       PROVE  Known(r, c, 0)' /\ Known(r, c, 1)'
  <2>1. n = 0 => Known(r, c, 1)
    BY <1>10, KnownWhenRead
  <2>2. Steady(c)
    BY <1>3, <1>10
  <2>3. Known(r, c, 1)'
    BY <1>10, <2>1, <2>2, SteadyKnown
  <2>4. Known(r, c, 0)'
    BY <1>10, <2>2, SteadyKnown
  <2> QED
    BY <2>3, <2>4
<1>11. CASE Select
  <2>1. PICK r \in Row : r = row /\ r = row' /\ r = draft' /\ Known(r, c, 0)
    BY <1>1, <1>11 DEF Select
  <2>2. UNCHANGED chainVars /\ plan' = plan /\ faults' = faults /\ sweep' = "selected"
    BY <1>11 DEF Select
  <2>3. Known(r, c, 0)' /\ Known(r, c, 1)'
    BY <1>10, <2>1, <2>2
  <2>4. AtHandKnown(c)' /\ Known(row, c, 1)'
    BY <2>1, <2>2, <2>3 DEF AtHandKnown, Current
  <2> QED
    BY <1>3, <2>2, <2>4, StillPays
<1>12. CASE Begin
  <2>1. UNCHANGED chainVars /\ plan' = plan /\ faults' = faults /\ row' = row /\ sweep = "selected"
    BY <1>12 DEF Begin
  <2>2. CASE sweep' = "idle" /\ row.status = "absent"
    <3>1. PICK q : q = row' /\ q.status = "absent"
      BY <2>1, <2>2
    <3>2. AtHandKnown(c)'
      BY <1>2, <2>2, <3>1 DEF AtHandKnown, Current
    <3> QED
      BY <1>3, <2>1, <2>2, <3>2, StillPays
  <2>3. CASE sweep' = "begun" /\ draft' = draft
    <3>1. PICK r \in Row, q \in Row : r = draft /\ r = draft' /\ q = row /\ q = row'
      BY <1>1, <2>1, <2>3
    <3>2. Known(r, c, 0) /\ Known(q, c, 1)
      BY <1>1, <2>1, <3>1 DEF AtHandKnown, Current
    <3>3. Known(r, c, 0)' /\ Known(q, c, 1)'
      BY <1>3, <2>1, <3>2, SteadyKnown
    <3>4. AtHandKnown(c)' /\ Known(row, c, 1)'
      BY <2>3, <3>1, <3>3 DEF AtHandKnown, Current
    <3> QED
      BY <1>3, <2>1, <3>4, StillPays
  <2> QED
    BY <1>12, <2>2, <2>3 DEF Begin, jobVars
<1>13. CASE Commit
  <2>1. /\ UNCHANGED chainVars /\ plan' = plan /\ faults' = faults /\ sweep' = "idle"
        /\ sweep = "written" /\ row' = IF row.status = "absent" THEN row ELSE draft
    BY <1>13 DEF Commit
  <2>2. PICK q : q = row' /\ (q.status = "absent" \/ q = draft)
    BY <2>1
  <2>3. Known(draft, c, 0)
    BY <1>1, <2>1 DEF AtHandKnown, Current
  <2>4. Known(q, c, 0)'
    BY <1>1, <1>2, <1>10, <2>1, <2>2, <2>3
  <2>5. AtHandKnown(c)'
    BY <2>1, <2>2, <2>4 DEF AtHandKnown, Current
  <2> QED
    BY <1>3, <2>1, <2>5, StillPays
<1>14. CASE Crash
  <2>1. /\ UNCHANGED chainVars /\ plan' = plan /\ faults' = faults + 1 /\ sweep' = "idle"
        /\ sweep # "idle" /\ row' = row
    BY <1>14 DEF Crash, Fault, Abandon
  <2>2. PICK q \in Row : q = row /\ q = row'
    BY <1>1, <2>1
  <2>3. Known(q, c, 0)'
    BY <1>1, <1>10, <2>1, <2>2
  <2>4. AtHandKnown(c)'
    BY <2>1, <2>2, <2>3 DEF AtHandKnown, Current
  <2> QED
    BY <1>3, <2>1, <2>4, StillPays
<1> QED
  BY <1>5, <1>6, <1>7, <1>8, <1>9, <1>11, <1>12, <1>13, <1>14

-----------------------------------------------------------------------------
(* Transfers: every step.                                                  *)

\* The shares and attempts are numbers.
SharesAreNat == \A c \in Currencies : Share(c) \in Nat /\ Attempts(c) \in Nat

LEMMA ShareNat == TypeInv /\ plan # <<>> => SharesAreNat
  BY ShareType, CurrencyAssumption DEF SharesAreNat, Attempts

\* The request: nothing has been sent, and the sources have what they had.
LEMMA EnqueuePays ==
    ASSUME TypeInv, EnoughPayOnce, Enqueue
    PROVE  EnoughPayOnce'
<1>1. /\ plan = <<>> /\ txs = <<>> /\ txs' = txs /\ funds' = funds /\ faults' = faults
      /\ sweep' = "idle" /\ row' = [AbsentRow EXCEPT !.status = "pending"] /\ plan' \in Plans
  BY DEF Enqueue, chainVars, TypeInv, SweepOK
<1>2. TypeInv' /\ plan' # <<>>
  BY <1>1, ApiType, CurrencyAssumption, PlanIsNotEmpty
<1>3. SharesAreNat'
  <2>1. (TypeInv /\ plan # <<>> => SharesAreNat)'
    BY ShareNat, PTL
  <2> QED
    BY <1>2, <2>1
<1>4. PICK r : /\ r = row' /\ r.pending = {} /\ r.pos.step = 0 /\ r.attempts = 0
               /\ r.status = "pending"
  <2>1. PICK a \in Row : a = AbsentRow /\ a.pending = {} /\ a.pos.step = 0 /\ a.attempts = 0
    BY AbsentIsRow DEF AbsentRow
  <2>2. PICK r : r = [a EXCEPT !.status = "pending"]
    OBVIOUS
  <2>3. r.pending = a.pending /\ r.pos = a.pos /\ r.attempts = a.attempts /\ r.status = "pending"
    BY <2>2 DEF Row
  <2> QED
    BY <1>1, <2>1, <2>2, <2>3
<1>5. ASSUME NEW c \in Currencies PROVE PaysOnce(c)'
  <2>1. Times(c)' = 0
    <3>1. Sent(c)' = {}
      BY <1>1 DEF Sent
    <3> QED
      BY <3>1, FS_EmptySet, Zenon DEF Times
  <2>2. PICK s \in Nat, a \in Nat, f \in Nat, g \in Nat :
           /\ s = Share(c)' /\ a = Attempts(c)' /\ f = faults' /\ g = funds'[c] /\ g >= InitialFunds[c]
    BY <1>1, <1>3, FaultsCount, AmountTypes DEF SharesAreNat, EnoughPayOnce
  <2>3. (Times(c) * Share(c))' = 0
    <3>1. 0 * s = 0
      OBVIOUS
    <3> QED
      BY <2>1, <2>2, <3>1
  <2>4. g + 0 >= InitialFunds[c] /\ 0 <= a + f /\ 0 <= 0 + f + 0
    <3>1. g + 0 = g /\ 0 <= a + f /\ 0 <= 0 + f + 0
      OBVIOUS
    <3> QED
      BY <2>2, <3>1
  <2>5. Known(r, c, 0)'
    <3>1. Tried(r, c)' = 0
      BY <1>4 DEF Tried
    <3>2. Times(c)' <= Tried(r, c)' + faults' + 0
      BY <2>1, <2>2, <2>4, <3>1
    <3>3. ~Simple' => r.pos.step <= 4
      BY <1>4
    <3> QED
      BY <1>4, <2>1, <3>2, <3>3 DEF Known, Owing
  <2>6. AtHandKnown(c)'
    BY <1>1, <1>4, <2>5 DEF AtHandKnown, Current
  <2> QED
    BY <1>1, <2>1, <2>2, <2>3, <2>4, <2>6 DEF PaysOnce
<1> QED
  BY <1>2, <1>5 DEF EnoughPayOnce

\* Before the request nothing is sent.
LEMMA BeforeTheRequest ==
    ASSUME TypeInv, EnoughPayOnce, plan = <<>>, plan' = plan, [Next]_vars
    PROVE  EnoughPayOnce'
<1>1. sweep = "idle" /\ row = AbsentRow /\ txs = <<>>
  BY DEF TypeInv, SweepOK
<1>2. \A c \in Currencies : funds'[c] >= funds[c]
  <2>1. CASE funds' = funds
    BY <2>1, AmountTypes
  <2>2. CASE Operations \/ Mining \/ (\E d \in Currencies : Refill(d))
    BY <2>2, WorldIsSteady DEF Operations, Mining, Steady
  <2>3. CASE Sweep
    BY <1>1, <2>1, <2>3 DEF Sweep, Select, EmptySweep, Begin, CallRaises, Commit, PollConfirm, PollOperation,
       Pass, Finish, Fund, Submit, ResolveWaits, PlanFunding, SaveFunding, SendTransfers, SendRefused, Paying,
       Hold, DefineBasket, At, AtGate, chainVars, vars
  <2>4. CASE \/ Enqueue \/ DeleteRequest \/ Crash \/ BackoffElapses \/ UNCHANGED vars
             \/ (\E i \in DOMAIN txs : OperationForgotten(i))
    BY <2>1, <2>4 DEF Enqueue, DeleteRequest, Crash, Abandon, BackoffElapses, OperationForgotten, chainVars, vars
  <2> QED
    BY <2>2, <2>3, <2>4 DEF Next
<1>3. \A c \in Currencies : funds'[c] >= InitialFunds[c]
  <2>1. TypeInv'
    BY NextType
  <2>2. \A c \in Currencies : funds'[c] \in Nat
    BY <2>1 DEF TypeInv, TypeOK
  <2>3. \A c \in Currencies : funds[c] \in Nat /\ InitialFunds[c] \in Nat /\ funds[c] >= InitialFunds[c]
    BY AmountTypes DEF EnoughPayOnce
  <2> QED
    BY <1>2, <2>2, <2>3
<1> QED
  BY <1>3 DEF EnoughPayOnce

\* Without reserves to create only the first source is planned for.
LEMMA PrimaryStays ==
    ASSUME TypeInv, OnlyPrimaryPays, [Next]_vars
    PROVE  OnlyPrimaryPays'
<1>1. ASSUME sweep' # "sending" PROVE OnlyPrimaryPays'
  BY <1>1 DEF OnlyPrimaryPays
<1>2. ASSUME UNCHANGED <<plan, sweep, toSend>> PROVE OnlyPrimaryPays'
  BY <1>2 DEF OnlyPrimaryPays, CreatesReserves, Source
<1>3. ASSUME NEW r, Write(r) PROVE OnlyPrimaryPays'
  BY <1>1, <1>3 DEF Write
<1>4. CASE Select \/ Begin \/ Commit \/ Crash
  BY <1>1, <1>4 DEF Select, Begin, Commit, Crash, Abandon
<1>5. CASE Enqueue
  BY <1>1, <1>5 DEF Enqueue, TypeInv, SweepOK
<1>6. CASE \/ DeleteRequest \/ BackoffElapses \/ Operations \/ Mining \/ EmptySweep \/ UNCHANGED vars
           \/ (\E i \in DOMAIN txs : OperationForgotten(i)) \/ (\E c \in Currencies : Refill(c))
  BY <1>2, <1>6 DEF DeleteRequest, BackoffElapses, Operations, Mining, OperationSucceeds, OperationFails, Mine,
                    OperationForgotten, Refill, EmptySweep, vars, jobVars
<1>7. CASE CallRaises \/ PollConfirm \/ PollOperation \/ Pass \/ Finish
  BY <1>3, <1>7 DEF CallRaises, PollConfirm, PollOperation, Pass, Finish
<1>8. CASE SaveFunding \/ Hold \/ DefineBasket
  BY <1>3, <1>8 DEF SaveFunding, Hold, DefineBasket
<1>9. CASE Fund \/ (\E kind \in {"commit", "identity", "define"} : Submit(kind))
  BY <1>3, <1>9 DEF Fund, Submit
<1>10. CASE ResolveWaits
  BY <1>1, <1>3, <1>10 DEF ResolveWaits
<1>11. CASE PlanFunding
  <2>1. plan' = plan /\ plan # <<>> /\ sweep \in Handling
    BY <1>11, AtHand, PlanIsNotEmpty DEF PlanFunding, Handling
  <2>2. ASSUME ~CreatesReserves, NEW c \in Currencies, Source(c) # "primary" PROVE toSend'[c] = 0
    <3>1. c # Native /\ plan.reserves = <<>>
      BY <2>2 DEF Source, CreatesReserves
    <3>2. Outputs(c) = 0
      BY <2>1, <3>1, ListedOnce DEF Outputs
    <3>3. toSend'[c] = Outputs(c) * Affordable(c)
      BY <1>11 DEF PlanFunding
    <3>4. \A n \in Nat : 0 * n = 0
      OBVIOUS
    <3> QED
      BY <3>2, <3>3, <3>4, AffordableType
  <2>3. CreatesReserves' = CreatesReserves /\ \A c : Source(c)' = Source(c)
    BY <2>1 DEF CreatesReserves, Source
  <2>4. ASSUME ~CreatesReserves, NEW c \in Currencies, toSend'[c] > 0 PROVE Source(c) = "primary"
    <3>1. ~(0 > 0)
      OBVIOUS
    <3> QED
      BY <2>2, <2>4, <3>1
  <2> QED
    BY <2>3, <2>4 DEF OnlyPrimaryPays
<1>12. ASSUME NEW source \in {"primary", "allocation"}, SendTransfers(source) \/ SendRefused(source)
       PROVE  OnlyPrimaryPays'
  <2>1. PICK amount \in [Currencies -> Nat] : amount = Batch(source) /\ \A c \in Currencies : amount[c] <= toSend[c]
    BY BatchIsPlanned
  <2>2. CASE /\ toSend' = [c \in Currencies |-> toSend[c] - amount[c]]
             /\ UNCHANGED <<plan, sweep>>
    <3>1. \A c \in Currencies : toSend'[c] > 0 => toSend[c] > 0
      BY <2>1, <2>2, AmountTypes
    <3> QED
      BY <2>2, <3>1 DEF OnlyPrimaryPays, CreatesReserves, Source
  <2> QED
    BY <1>3, <1>12, <2>1, <2>2 DEF SendTransfers, SendRefused
<1> QED
  BY <1>4, <1>5, <1>6, <1>7, <1>8, <1>9, <1>10, <1>11, <1>12 DEF Next, Sweep

\* Every step keeps what is known of the sources.
LEMMA NextPays ==
    ASSUME TypeInv, SameRow, OnlyPrimaryPays, EnoughPayOnce, [Next]_vars
    PROVE  EnoughPayOnce'
<1>1. CASE Enqueue
  BY <1>1, EnqueuePays
<1>2. ASSUME ~Enqueue PROVE plan' = plan
  BY <1>2 DEF Next, Sweep, DeleteRequest, Crash, Abandon, BackoffElapses, Operations, Mining, OperationSucceeds,
     OperationFails, Mine, OperationForgotten, Refill, Select, EmptySweep, Begin, CallRaises, Commit, PollConfirm,
     PollOperation, Pass, Finish, Fund, Submit, ResolveWaits, PlanFunding, SaveFunding, SendTransfers, SendRefused,
     Hold, DefineBasket, Write, vars
<1>3. CASE ~Enqueue /\ plan = <<>>
  BY <1>2, <1>3, BeforeTheRequest
<1>4. CASE ~Enqueue /\ plan # <<>>
  <2>1. ASSUME NEW c \in Currencies, Enough(c)' PROVE PaysOnce(c)'
    <3>1. Enough(c) /\ PaysOnce(c)
      BY <1>2, <1>4, <2>1, PlanDecides DEF EnoughPayOnce
    <3> QED
      BY <1>4, <3>1, LadderPays, ResolvingPays, PlanPays, SendingPays, RefusedPays, SavingPays, GatePays, RestPays
         DEF Next, Sweep
  <2> QED
    BY <1>2, <1>4, <2>1 DEF EnoughPayOnce
<1> QED
  BY <1>1, <1>3, <1>4

-----------------------------------------------------------------------------
(* The theorems.                                                           *)

\* What is kept of a request's purchases.
PaidInv == SameRow /\ BoughtOnce /\ OnlyPrimaryPays /\ EnoughPayOnce

\* The invariant holds before the request.
LEMMA InitPays == Init => PaidInv
<1> SUFFICES ASSUME Init PROVE PaidInv
  OBVIOUS
<1>1. plan = <<>> /\ sweep = "idle" /\ funds = InitialFunds
  BY DEF Init
<1>2. \A c \in Currencies : funds[c] >= InitialFunds[c]
  <2>1. \A n \in Nat : n >= n
    OBVIOUS
  <2> QED
    BY <1>1, <2>1, CurrencyAssumption
<1> QED
  BY <1>1, <1>2 DEF PaidInv, SameRow, Handling, BoughtOnce, OnlyPrimaryPays, EnoughPayOnce

\* What a request has bought is, at each step, within what its plan, its attempts and
\* the faults account for, and so is what the rows say is still to be bought.
THEOREM PaidOnceInductive == Spec => [](TypeInv /\ PaidInv)
<1>1. Init => TypeInv /\ PaidInv
  BY InitType, InitPays
<1>2. TypeInv /\ PaidInv /\ [Next]_vars => TypeInv' /\ PaidInv'
  BY NextType, ReadStays, NextBought, PrimaryStays, NextPays DEF PaidInv
<1> QED
  BY <1>1, <1>2, PTL DEF Spec

\* Commitments and define funding are sent once for each place of a name in the plan and
\* fault, and its share of a basket, by a source that has enough for all attempts, once
\* per fault more than the attempts account for: for all plans.
THEOREM NothingIsPaidTwice == Spec => []PaidOnce
<1>1. ASSUME TypeInv, PaidInv PROVE PaidOnce
  <2> SUFFICES ASSUME plan # <<>>
               PROVE  /\ \A name \in Sites : \A kind \in {"commit", "fund"} :
                             Cardinality(Paid(kind, name, Native)) <= Places(name) + faults
                      /\ \A c \in Currencies : Enough(c) =>
                             Cardinality(Paid("transfer", Token, c)) <= Attempts(c) + faults
    BY DEF PaidOnce, Sites
  <2>1. ASSUME NEW name \in Sites, NEW kind \in {"commit", "fund"}
        PROVE  Cardinality(Paid(kind, name, Native)) <= Places(name) + faults
    <3>1. Paid(kind, name, Native) = Bought(kind, name)
      BY DEF Paid, Bought
    <3>2. Cardinality(Bought(kind, name)) <= Places(name) + faults
      BY <1>1 DEF PaidInv, BoughtOnce
    <3> QED
      BY <3>1, <3>2
  <2>2. ASSUME NEW c \in Currencies, Enough(c)
        PROVE  Cardinality(Paid("transfer", Token, c)) <= Attempts(c) + faults
    <3>1. PICK S : S = Paid("transfer", Token, c) /\ S \subseteq Sent(c) /\ IsFiniteSet(Sent(c))
      BY <1>1, BoughtIsFinite DEF Paid, Sent
    <3>2. PICK n \in Nat, t \in Nat : n = Cardinality(S) /\ t = Times(c) /\ n <= t
      BY <3>1, FS_Subset, FS_CardinalityType DEF Times
    <3>3. PICK a \in Nat, f \in Nat : a = Attempts(c) /\ f = faults
      <4>1. Attempts(c) \in Nat
        BY CurrencyAssumption DEF Attempts
      <4>2. faults \in Nat
        BY <1>1, FaultsCount
      <4> QED
        BY <4>1, <4>2
    <3>4. t <= a + f
      BY <1>1, <2>2, <3>2, <3>3 DEF PaidInv, EnoughPayOnce, PaysOnce
    <3> QED
      BY <3>1, <3>2, <3>3, <3>4
  <2> QED
    BY <2>1, <2>2
<1> QED
  BY <1>1, PaidOnceInductive, PTL

=============================================================================
