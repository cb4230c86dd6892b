----------------------------- MODULE RulesProofs -----------------------------
(***************************************************************************)
(* Theorems about FeeOffer: for every fee, price, index, rate and number   *)
(* of raises, and whatever a coin and its smallest amount are, the offer   *)
(* is the largest one within the fee, and raises follow the rate.          *)
(*                                                                         *)
(* Theorems about RequestChecks: whatever options, sizes and limits there  *)
(* are, a currency request is stored exactly when it passes the checks     *)
(* that QueuedIffSound lists, and the chunks of an upload cover its file.  *)
(***************************************************************************)
EXTENDS FeeOffer, RequestChecks, TLAPS

-----------------------------------------------------------------------------
(* FeeOffer *)

\* What the variables hold; bumps never pass their limit.
FeeTypeOK ==
    /\ feeStage \in {"idle", "resolving", "offering", "taken", "refused", "aborted"}
    /\ env \in Env /\ currency \in Currency
    /\ rate \in Nat /\ first \in Nat /\ offer \in Nat
    /\ bumps \in 0 .. MaxFeeBumps

\* n is the largest number of units of the given worth within a total.
Largest(n, worth, total) == n * worth <= total /\ total < (n + 1) * worth

-----------------------------------------------------------------------------
(* Division, and the prices of a currency *)

\* A quotient rounded down, as _normalize_fee_offer and
\* _resolve_encoded_import_fee_offer round (worker.py:155, 237), is the
\* largest number of divisors within the dividend.
LEMMA DivisionIsLargest ==
    ASSUME NEW total \in Int, NEW worth \in Int, worth > 0
    PROVE  /\ total \div worth \in Int /\ Largest(total \div worth, worth, total)
           /\ total >= 0 => total \div worth >= 0
<1> DEFINE q == total \div worth
<1>1. q \in Int
    BY SMT
<1>2. worth * q <= total /\ total < worth * (q + 1)
    BY SMT
<1>3. worth * q = q * worth /\ worth * (q + 1) = (q + 1) * worth
    BY <1>1, SMT
<1>4. total >= 0 => q >= 0
    BY SMT
<1> QED
    BY <1>1, <1>2, <1>3, <1>4 DEF Largest

\* A state that tells prices tells that of the first currency only, and the
\* index can only point at it: the price found is the one that the index
\* points at, in the confirmed state if there is one (worker.py:204-230).
LEMMA PriceFound ==
    ASSUME currency \in Currency, NEW price
    PROVE  price \in ReservePrice <=>
               /\ currency.index = {0} /\ currency.listed = 1
               /\ Priced = {[i \in {0} |-> {price}]} /\ price \in Prices
<1>1. /\ currency.index \in Optional(Indexes) /\ currency.listed \in 0 .. 1
      /\ Priced \in State
    BY DEF Currency, Priced
<1>2. CASE Priced = {}
    BY <1>2 DEF ReservePrice
<1>3. CASE Priced # {}
  <2>1. PICK s \in [{0} -> Optional(Prices)] : Priced = {s}
    BY <1>1, <1>3 DEF State, Optional
  <2>2. s[0] \in Optional(Prices) /\ s = [i \in {0} |-> s[0]]
    BY <2>1
  <2> DEFINE pointed == {j \in currency.index : j \in 0 .. 9 /\ j < currency.listed}
  <2>3. price \in ReservePrice <=> \E i \in pointed : price \in s[i]
    BY <2>1 DEF ReservePrice
  <2>4. \A i \in pointed : i = 0 /\ currency.index = {0} /\ currency.listed = 1
    <3> SUFFICES ASSUME NEW i \in pointed
                 PROVE  i = 0 /\ currency.index = {0} /\ currency.listed = 1
        OBVIOUS
    <3>1. i \in currency.index /\ i \in 0 .. 9 /\ i < currency.listed
        OBVIOUS
    <3>2. i = 0 /\ currency.listed = 1
        BY <1>1, <3>1
    <3> QED
        BY <1>1, <3>1, <3>2 DEF Optional
  <2>5. currency.index = {0} /\ currency.listed = 1 => 0 \in pointed
    OBVIOUS
  <2>6. price \in s[0] <=> s[0] = {price} /\ price \in Prices
    BY <2>2 DEF Optional
  <2>7. s[0] = {price} <=> {s} = {[i \in {0} |-> {price}]}
    <3>1. s[0] = {price} => s = [i \in {0} |-> {price}]
        BY <2>2
    <3>2. s = [i \in {0} |-> {price}] => s[0] = {price}
        OBVIOUS
    <3> QED
        BY <3>1, <3>2
  <2> HIDE DEF pointed
  <2> QED
    BY <2>1, <2>3, <2>4, <2>5, <2>6, <2>7
<1> QED
    BY <1>2, <1>3

-----------------------------------------------------------------------------
(* One step *)

\* The variables start with values of their types.
LEMMA FeeInitTyped == FeeInit => FeeTypeOK
    BY FeeAssumption DEF FeeInit, FeeTypeOK, Env, Currency, State, Optional

\* The offer from getcurrency is the largest within the fee: in the currency
\* that the index points at where there is one with a price, plain otherwise,
\* and one coin where no fee is told (worker.py:251-264).
LEMMA LookedUpIsLargest ==
    ASSUME currency \in Currency, NEW n \in LookedUp
    PROVE  /\ n \in Nat
           /\ currency.fees = {} => n = Unit
           /\ \A f \in currency.fees :
                  \/ \E p \in ReservePrice : p > 0 /\ Largest(n, p, f * Unit)
                  \/ (~ \E p \in ReservePrice : p > 0) /\ Largest(n, Parts, f)
<1>1. currency.fees \in Optional(Fees)
    BY DEF Currency
<1>2. CASE currency.fees = {}
    BY <1>2, FeeAssumption DEF LookedUp
<1>3. CASE currency.fees # {}
  <2>1. PICK f \in Fees : currency.fees = {f}
    BY <1>1, <1>3 DEF Optional
  <2>2. f \in Nat /\ Unit \in Nat /\ f * Unit \in Nat
    BY FeeAssumption
  <2>3. n \in (IF EncodedOffer(f) # {} THEN EncodedOffer(f) ELSE {Normalized(f)})
    BY <2>1 DEF LookedUp
  <2>4. CASE EncodedOffer(f) # {}
    <3>1. PICK p \in ReservePrice : p > 0 /\ n = (f * Unit) \div p
        BY <2>3, <2>4 DEF EncodedOffer
    <3>2. p \in Int
        BY <3>1, PriceFound, FeeAssumption
    <3> DEFINE total == f * Unit
    <3>3. total \in Int /\ total >= 0 /\ p > 0 /\ n = total \div p
        BY <2>2, <3>1
    <3> HIDE DEF total
    <3>4. n \in Nat /\ Largest(n, p, total)
        BY <3>2, <3>3, DivisionIsLargest
    <3> QED
        BY <2>1, <3>1, <3>4 DEF total
  <2>5. CASE EncodedOffer(f) = {}
    <3>1. ~ \E p \in ReservePrice : p > 0
        BY <2>5 DEF EncodedOffer
    <3>2. n = f \div Parts
        BY <2>3, <2>5 DEF Normalized
    <3>3. Parts \in Int /\ Parts > 0
        BY FeeAssumption
    <3>4. n \in Nat /\ Largest(n, Parts, f)
        BY <2>2, <3>2, <3>3, DivisionIsLargest
    <3> QED
        BY <2>1, <3>1, <3>4
  <2> QED
    BY <2>4, <2>5
<1> QED
    BY <1>2, <1>3

\* A number in FEE_OFFER is rounded down to smallest amounts.
LEMMA NumberIsLargest ==
    ASSUME env \in Env, env.text = "number"
    PROVE  \E v \in env.offer : /\ {Normalized(w) : w \in env.offer} = {Normalized(v)}
                                /\ v \in Int /\ Normalized(v) \in Nat
                                /\ Largest(Normalized(v), Parts, v)
<1>1. PICK v \in EnvOffers : env.offer = {v}
    BY DEF Env
<1>2. v \in Nat /\ Parts \in Int /\ Parts > 0
    BY FeeAssumption
<1>3. Normalized(v) \in Nat /\ Largest(Normalized(v), Parts, v)
    BY <1>2, DivisionIsLargest DEF Normalized
<1> QED
    BY <1>1, <1>2, <1>3

\* A resolved offer is within the fee.
LEMMA ResolvedIsWithinFee ==
    ASSUME FeeTypeOK, Resolve
    PROVE  FeeTypeOK' /\ OfferIsWithinFee'
<1> USE DEF FeeTypeOK
<1>1. env' = env /\ currency' = currency /\ rate' = rate /\ bumps' = bumps
    BY DEF Resolve
<1>2. CASE env.text = "garbage"
    BY <1>1, <1>2 DEF Resolve, OfferIsWithinFee
<1>3. CASE env.text = "number"
  <2>1. PICK v \in env.offer : /\ {Normalized(w) : w \in env.offer} = {Normalized(v)}
                               /\ v \in Int /\ Normalized(v) \in Nat
                               /\ Largest(Normalized(v), Parts, v)
    BY <1>3, NumberIsLargest
  <2>2. first' = Normalized(v) /\ offer' = first' /\ feeStage' = "offering"
    BY <1>3, <2>1 DEF Resolve
  <2>3. FeeTypeOK'
    BY <1>1, <2>1, <2>2
  <2>4. Largest(first', Parts, v)
    BY <2>1, <2>2
  <2>5. first' * Parts <= v /\ v < (first' + 1) * Parts
    BY <2>4 DEF Largest
  <2>6. OfferIsWithinFee'
    BY <1>1, <1>3, <2>1, <2>2, <2>5 DEF OfferIsWithinFee
  <2> QED
    BY <2>3, <2>6
<1>4. CASE env.text = "empty"
  <2>1. first' \in LookedUp /\ offer' = first' /\ feeStage' = "offering"
    BY <1>4 DEF Resolve
  <2>2. /\ first' \in Nat
        /\ currency.fees = {} => first' = Unit
        /\ \A f \in currency.fees :
               \/ \E p \in ReservePrice : p > 0 /\ Largest(first', p, f * Unit)
               \/ (~ \E p \in ReservePrice : p > 0) /\ Largest(first', Parts, f)
    BY <2>1, LookedUpIsLargest
  <2>3. FeeTypeOK'
    BY <1>1, <2>1, <2>2
  <2> DEFINE pointsAt(price) ==
                 /\ currency.index = {0} /\ currency.listed = 1
                 /\ Priced = {[i \in {0} |-> {price}]} /\ price > 0
  <2>4. ASSUME NEW f \in currency.fees
        PROVE  IF \E p \in Prices : pointsAt(p)
               THEN \E p \in Prices : pointsAt(p) /\ Largest(first', p, f * Unit)
               ELSE Largest(first', Parts, f)
    <3>1. \A p : p \in ReservePrice /\ p > 0 <=> p \in Prices /\ pointsAt(p)
        BY PriceFound
    <3> HIDE DEF pointsAt
    <3> QED
        BY <2>2, <3>1
  <2>5. OfferIsWithinFee'
    BY <1>1, <1>4, <2>1, <2>2, <2>4 DEF OfferIsWithinFee, Largest, Priced
  <2> QED
    BY <2>3, <2>5
<1> QED
    BY <1>2, <1>3, <1>4 DEF Env

\* A raise by the rate, or by the smallest amount that stands in for it: floats lose
\* one smallest amount at most, and only where the result was a whole number of them.
LEMMA RaisedFollowsRate ==
    ASSUME FeeTypeOK, NEW next \in Raised
    PROVE  /\ next \in Nat /\ next >= offer
           /\ next = offer + 1 \/ next * 1000 <= offer * (1000 + rate)
           /\ offer * rate > 1000 => next > offer
<1> DEFINE share == offer * rate
<1>1. share \in Nat /\ offer \in Nat /\ offer * (1000 + rate) = offer * 1000 + share
    BY DEF FeeTypeOK
<1> HIDE DEF share
<1>2. ASSUME NEW n \in ByRate
      PROVE  /\ n \in Int /\ n * 1000 <= offer * 1000 + share
             /\ share > 1000 => n > offer
  <2>1. PICK error \in {0, 1} : n = (offer * 1000 + share - error) \div 1000
    BY <1>1, <1>2 DEF ByRate
  <2> QED
    BY <1>1, <2>1, SMT
<1>3. CASE next \in ByRate /\ next > offer
    BY <1>1, <1>2, <1>3 DEF share
<1>4. CASE next \in ByOne /\ \E n \in ByRate : n <= offer
  <2>1. ~(share > 1000)
    BY <1>1, <1>2, <1>4
  <2>2. next \in {offer, offer + 1}
    BY <1>4 DEF ByOne
  <2> QED
    BY <1>1, <2>1, <2>2 DEF share
<1> QED
    BY <1>3, <1>4 DEF Raised

\* After it is resolved nothing changes the first offer, nor what it was
\* resolved from.
LEMMA OthersKeepFirst ==
    ASSUME FeeTypeOK, OfferIsWithinFee,
           ReadyRow \/ Insufficient \/ RegisterEnds \/ UNCHANGED feeVars
    PROVE  FeeTypeOK' /\ OfferIsWithinFee'
<1> USE DEF FeeTypeOK
<1>1. CASE ReadyRow
  <2>1. rate' \in Nat
    BY <1>1, FeeAssumption DEF ReadyRow
  <2> QED
    BY <1>1, <2>1 DEF ReadyRow, OfferIsWithinFee
<1> DEFINE kept == env' = env /\ currency' = currency /\ first' = first /\ rate' = rate
<1>2. ASSUME kept, feeStage \notin {"idle", "resolving", "aborted"}
      PROVE  OfferIsWithinFee'
    BY <1>2 DEF OfferIsWithinFee
<1>3. CASE Insufficient
  <2>1. Raised \subseteq Nat
    BY RaisedFollowsRate
  <2>2. offer' \in Nat /\ bumps' \in 0 .. MaxFeeBumps
    <3>1. CASE bumps >= MaxFeeBumps
        BY <1>3, <3>1 DEF Insufficient
    <3>2. CASE ~(bumps >= MaxFeeBumps)
      <4>1. offer' \in Raised /\ bumps' = bumps + 1
        BY <1>3, <3>2 DEF Insufficient
      <4>2. bumps + 1 \in 0 .. MaxFeeBumps
        BY <3>2, FeeAssumption
      <4> QED
        BY <2>1, <4>1, <4>2
    <3> QED
        BY <3>1, <3>2
  <2>3. FeeTypeOK'
    BY <1>3, <2>2 DEF Insufficient
  <2> QED
    BY <1>2, <1>3, <2>3 DEF Insufficient
<1>4. CASE RegisterEnds
    BY <1>2, <1>4 DEF RegisterEnds
<1>5. CASE UNCHANGED feeVars
    BY <1>5 DEF feeVars, OfferIsWithinFee
<1> QED
    BY <1>1, <1>3, <1>4, <1>5

-----------------------------------------------------------------------------
(* FeeOffer: the theorems *)

\* The offer that the first call makes is the largest within the fee or the
\* number of FEE_OFFER, whatever the inputs (worker.py:161-264).
THEOREM OffersAreWithinFee == FeeSpec => [](FeeTypeOK /\ OfferIsWithinFee)
<1>1. FeeInit => FeeTypeOK /\ OfferIsWithinFee
    BY FeeInitTyped DEF FeeInit, OfferIsWithinFee
<1>2. FeeTypeOK /\ OfferIsWithinFee /\ [FeeNext]_feeVars
          => FeeTypeOK' /\ OfferIsWithinFee'
    BY ResolvedIsWithinFee, OthersKeepFirst DEF FeeNext
<1> QED
    BY <1>1, <1>2, PTL DEF FeeSpec

\* A call after a refusal never offers less than the one before it, offers more
\* where the rate's share is more than a smallest amount, and no more than the rate
\* says, or one smallest amount, for every rate and offer (worker_id_creation.py:195-199).
THEOREM BumpsFollow == FeeSpec => BumpsFollowRate
<1>1. ASSUME FeeTypeOK, FeeNext, bumps' > bumps
      PROVE  /\ offer' >= offer
             /\ offer' = offer + 1 \/ offer' * 1000 <= offer * (1000 + rate)
             /\ offer * rate > 1000 => offer' > offer
  <2>1. Insufficient
    BY <1>1 DEF FeeNext, FeeTypeOK, ReadyRow, Resolve, RegisterEnds
  <2>2. offer' \in Raised
    BY <1>1, <2>1 DEF Insufficient, FeeTypeOK
  <2> QED
    BY <1>1, <2>2, RaisedFollowsRate
<1>2. FeeSpec => []FeeTypeOK
    BY OffersAreWithinFee, PTL
<1>3. FeeTypeOK /\ [FeeNext]_feeVars =>
          [bumps' > bumps =>
              /\ offer' >= offer
              /\ offer' = offer + 1 \/ offer' * 1000 <= offer * (1000 + rate)
              /\ offer * rate > 1000 => offer' > offer]_feeVars
    BY <1>1
<1> QED
    BY <1>2, <1>3, PTL DEF FeeSpec, BumpsFollowRate

-----------------------------------------------------------------------------
(* RequestChecks *)

\* The four values that the refusal names are the ones that pass
\* _validate_currency_options, among all integers (id_create_service.py:53-66).
LEMMA ValidAreSupported ==
    ASSUME NEW options \in Int
    PROVE  ValidOptions(options) <=> options \in SupportedValues
    BY DEF ValidOptions, UnsupportedBits, Bit, SupportedValues,
           OptionToken, OptionFractional, OptionReferrals

\* A number of chunks rounded up is the smallest that reaches the end of the
\* file, and one for an empty file (id_create_service.py:1507).
LEMMA CountIsSmallestCover ==
    ASSUME NEW size \in Nat, NEW chunk \in Nat \ {0}
    PROVE  LET n == ChunkCount(size, chunk)
           IN  n >= 1 /\ n * chunk >= size /\ (n > 1 => (n - 1) * chunk < size)
<1> DEFINE q == (size + chunk - 1) \div chunk
<1>1. q \in Int
    BY SMT
<1>2. chunk * q <= size + chunk - 1 /\ size + chunk - 1 < chunk * (q + 1)
    BY SMT
<1> HIDE DEF q
<1>3. chunk * (q + 1) = q * chunk + chunk /\ chunk * q = q * chunk
      /\ (q - 1) * chunk = q * chunk - chunk
    BY <1>1, SMT
<1>4. q * chunk >= size /\ (q - 1) * chunk < size
    BY <1>1, <1>2, <1>3
<1>5. q < 1 => size = 0
  <2>1. q < 1 => q * chunk <= 0
    BY <1>1, SMT
  <2> QED
    BY <1>4, <2>1, <1>1
<1>6. ChunkCount(size, chunk) = IF q < 1 THEN 1 ELSE q
    BY DEF ChunkCount, q
<1> QED
    BY <1>1, <1>4, <1>5, <1>6

\* The first failed check of a list, if any, is one of it.
LEMMA FirstFailed ==
    ASSUME NEW r
    PROVE  LET checks == Checks(r)
               failed == SelectInSeq(checks, LAMBDA c : ~c.ok)
           IN  /\ failed = 0 <=> \A i \in 1 .. 6 : checks[i].ok
               /\ failed # 0 => failed \in 1 .. 6
<1> DEFINE F == {i \in 1 .. Len(Checks(r)) : ~Checks(r)[i].ok}
<1>1. Len(Checks(r)) = 6
    BY DEF Checks
<1>2. F # {} => \E i \in F : \A j \in F : i <= j
    BY <1>1
<1>3. F # {} => Min(F) \in F
    BY <1>2 DEF Min
<1> QED
    BY <1>1, <1>3 DEF SelectInSeq

-----------------------------------------------------------------------------
(* Currency requests *)

\* What a request is made of: sections that are absent or have options that
\* are integers, a known mode, and a service in some condition.
LEMMA RequestParts ==
    ASSUME NEW r \in CurrencyRequest \cup PlanRequest
    PROVE  /\ r.mode \in Modes
           /\ r.simple \in {Absent} \cup [present : {TRUE}, define : Int]
           /\ r.fractional \in {Absent} \cup
                  [present : {TRUE}, define : Int, reserve : Int,
                   createReserves : BOOLEAN, unsupplied : BOOLEAN]
           /\ r.at \in Service
<1>1. /\ Simple \subseteq [present : {TRUE}, define : Int]
      /\ Fractional \subseteq [present : {TRUE}, define : Int, reserve : Int,
                               createReserves : BOOLEAN, unsupplied : BOOLEAN]
      /\ [present : {TRUE}, define : FewOptions] \subseteq [present : {TRUE}, define : Int]
    BY ChecksAssumption DEF Simple, Fractional
<1>2. CASE r \in CurrencyRequest
    BY <1>1, <1>2 DEF CurrencyRequest, Modes
<1>3. CASE r \in PlanRequest
  <2>1. r.at \in Service
    BY <1>3 DEF PlanRequest, Service
  <2> QED
    BY <1>1, <1>3, <2>1 DEF PlanRequest
<1> QED
    BY <1>2, <1>3

\* The same of a section's fields.
LEMMA SectionParts ==
    ASSUME NEW r \in CurrencyRequest \cup PlanRequest
    PROVE  /\ r.simple.present \in BOOLEAN /\ r.fractional.present \in BOOLEAN
           /\ r.simple.present => r.simple.define \in Int
           /\ r.fractional.present =>
                  r.fractional.define \in Int /\ r.fractional.reserve \in Int
           /\ r.at.currency \in {"raises", "empty", "exists"}
<1>1. r.simple.present \in BOOLEAN /\ (r.simple.present => r.simple.define \in Int)
  <2>1. CASE r.simple = Absent
    BY <2>1 DEF Absent
  <2>2. CASE r.simple \in [present : {TRUE}, define : Int]
    BY <2>2
  <2> QED
    BY <2>1, <2>2, RequestParts
<1> DEFINE parts == [present : {TRUE}, define : Int, reserve : Int,
                     createReserves : BOOLEAN, unsupplied : BOOLEAN]
<1>2. /\ r.fractional.present \in BOOLEAN
      /\ r.fractional.present =>
             r.fractional.define \in Int /\ r.fractional.reserve \in Int
  <2>1. CASE r.fractional = Absent
    BY <2>1 DEF Absent
  <2>2. CASE r.fractional \in parts
    BY <2>2
  <2> QED
    BY <2>1, <2>2, RequestParts
<1>3. r.at.currency \in {"raises", "empty", "exists"}
    BY RequestParts DEF Service
<1> QED
    BY <1>1, <1>2, <1>3

\* What the worker needs of a request: sections it can carry out, and a
\* service that is able to.
Sound(r) ==
    /\ r.simple.present => r.simple.define \in SupportedValues
    /\ r.fractional.present =>
           /\ {r.fractional.define, r.fractional.reserve} \subseteq SupportedValues
           /\ ~(r.fractional.createReserves /\ r.fractional.unsupplied)
    /\ r.at.daemon /\ r.at.parentAllowed /\ r.at.source
    /\ r.at.currency \in {"raises", "empty"}

\* A request passes all checks of its handler if it is sound and has the
\* section of its workflow (currency_functions.py:194-320).
LEMMA PassesIffSound ==
    ASSUME NEW r \in CurrencyRequest \cup PlanRequest
    PROVE  (\A i \in 1 .. 6 : Checks(r)[i].ok) <=> Sound(r) /\ SectionThere(r)
<1>1. (\A i \in 1 .. 6 : Checks(r)[i].ok) <=>
          /\ ValidSimple(r.simple) /\ ValidFractional(r.fractional)
          /\ r.at.daemon /\ r.at.parentAllowed /\ r.at.currency # "exists"
          /\ r.at.source /\ SectionThere(r)
  <2>1. /\ Checks(r)[1].ok <=> ValidSimple(r.simple) /\ ValidFractional(r.fractional)
        /\ Checks(r)[2].ok <=> r.at.daemon
        /\ Checks(r)[3].ok <=> r.at.parentAllowed
        /\ Checks(r)[4].ok <=> r.at.currency # "exists"
        /\ Checks(r)[5].ok <=> r.at.source
        /\ Checks(r)[6].ok <=> SectionThere(r)
    BY DEF Checks
  <2> QED
    BY <2>1
<1>2. ValidSimple(r.simple) <=> (r.simple.present => r.simple.define \in SupportedValues)
    BY SectionParts, ValidAreSupported DEF ValidSimple
<1>3. ValidFractional(r.fractional) <=>
          (r.fractional.present =>
              /\ {r.fractional.define, r.fractional.reserve} \subseteq SupportedValues
              /\ ~(r.fractional.createReserves /\ r.fractional.unsupplied))
    BY SectionParts, ValidAreSupported DEF ValidFractional
<1>4. r.at.currency # "exists" <=> r.at.currency \in {"raises", "empty"}
    BY SectionParts
<1> QED
    BY <1>1, <1>2, <1>3, <1>4 DEF Sound

\* The workflow whose section is there is the one that the mode asks for.
LEMMA WorkflowAskedFor ==
    ASSUME NEW r \in CurrencyRequest \cup PlanRequest
    PROVE  LET auto == r.mode \in {"null", "auto", ""}
           IN  /\ SectionThere(r) => Workflow(r) \in {"simple_token", "fractional_token"}
               /\ SectionThere(r) /\ Workflow(r) = "fractional_token" <=>
                      /\ r.fractional.present
                      /\ auto \/ r.mode \in {"fractional", "fractional_token"}
               /\ SectionThere(r) /\ Workflow(r) = "simple_token" <=>
                      /\ r.simple.present
                      /\ \/ auto /\ ~r.fractional.present
                         \/ r.mode \in {"simple", "simple_token"}
<1>1. r.mode \in Modes /\ r.simple.present \in BOOLEAN /\ r.fractional.present \in BOOLEAN
    BY RequestParts, SectionParts
<1>2. CASE r.mode \in {"null", "auto", ""}
    BY <1>1, <1>2 DEF SectionThere, Workflow
<1>3. CASE r.mode \in {"simple", "simple_token"}
    BY <1>1, <1>3 DEF SectionThere, Workflow
<1>4. CASE r.mode \in {"fractional", "fractional_token"}
    BY <1>1, <1>4 DEF SectionThere, Workflow
<1>5. CASE r.mode = "other"
    BY <1>1, <1>5 DEF SectionThere, Workflow
<1> QED
    BY <1>1, <1>2, <1>3, <1>4, <1>5 DEF Modes

\* The answer is 202, with the workflow, for a request that passes all checks,
\* and the code of the first failed check for any other.
LEMMA StoredIffSound ==
    ASSUME PostCurrency
    PROVE  QueuedIffSound' /\ ChunksCoverFile'
<1>1. PICK r \in CurrencyRequest \cup PlanRequest :
          LET failed == SelectInSeq(Checks(r), LAMBDA c : ~c.ok)
          IN  /\ asked' = <<"currency", r>>
              /\ answer' = IF failed # 0
                           THEN [Nothing EXCEPT !.code = Checks(r)[failed].code]
                           ELSE [Nothing EXCEPT !.code = 202, !.workflow = Workflow(r)]
    BY DEF PostCurrency
<1> DEFINE failed == SelectInSeq(Checks(r), LAMBDA c : ~c.ok)
<1>2. failed # 0 => Checks(r)[failed].code \in {422, 503, 403, 409, 400}
  <2>1. \A i \in 1 .. 6 : Checks(r)[i].code \in {422, 503, 403, 409, 400}
    BY DEF Checks
  <2> QED
    BY <2>1, FirstFailed
<1>3. failed = 0 <=> Sound(r) /\ SectionThere(r)
    BY FirstFailed, PassesIffSound
<1>4. answer'.code = 202 <=> Sound(r) /\ SectionThere(r)
    BY <1>1, <1>2, <1>3 DEF Nothing
<1>5. answer'.code = 202 => answer'.workflow = Workflow(r)
    BY <1>1, <1>2 DEF Nothing
<1>6. asked'[1] = "currency" /\ asked'[2] = r
    BY <1>1
<1>7. QueuedIffSound'
  <2>1. \A w \in {"simple_token", "fractional_token"} :
            answer'.code = 202 /\ answer'.workflow = w
                <=> Sound(r) /\ SectionThere(r) /\ Workflow(r) = w
    BY <1>4, <1>5
  <2>2. answer'.code = 202 => answer'.workflow # "none"
    BY <1>4, <1>5, WorkflowAskedFor
  <2> QED
    BY <1>6, <2>1, <2>2, WorkflowAskedFor DEF QueuedIffSound, Sound
<1>8. ChunksCoverFile'
    BY <1>6 DEF ChunksCoverFile
<1> QED
    BY <1>7, <1>8

-----------------------------------------------------------------------------
(* Uploads *)

\* The chunks of an accepted upload are as large as an identity can hold at
\* most, and cover the file.
LEMMA StoredChunksCover ==
    ASSUME PostUpload
    PROVE  QueuedIffSound' /\ ChunksCoverFile'
<1>1. PICK r \in UploadRequest :
          /\ asked' = <<"upload", r>>
          /\ answer' = IF r.isFile /\ r.inBaseDir /\ r.size <= MaxUpload
                       THEN LET chunk == ChunkSize(r.chunkSize)
                            IN  [Nothing EXCEPT !.code = 202, !.chunkSize = chunk,
                                     !.chunks = ChunkCount(r.size, chunk),
                                     !.daemon = IF r.daemon THEN "enabled" ELSE "unresolved"]
                       ELSE [Nothing EXCEPT !.code = 400]
    BY DEF PostUpload
<1> DEFINE chunk == ChunkSize(r.chunkSize)
<1>2. r.size \in Nat /\ r.chunkSize \in Int
    BY ChecksAssumption DEF UploadRequest
<1>3. chunk \in 1 .. MaxChunk /\ chunk \in Nat \ {0}
    BY <1>2, ChecksAssumption DEF ChunkSize
<1>4. asked'[1] = "upload" /\ asked'[2] = r
    BY <1>1
<1>5. answer'.code = 202 =>
          answer'.chunkSize = chunk /\ answer'.chunks = ChunkCount(r.size, chunk)
    BY <1>1 DEF Nothing
<1> HIDE DEF chunk
<1>6. ChunksCoverFile'
    BY <1>2, <1>3, <1>4, <1>5, CountIsSmallestCover DEF ChunksCoverFile
<1>7. QueuedIffSound'
    BY <1>4 DEF QueuedIffSound
<1> QED
    BY <1>6, <1>7

-----------------------------------------------------------------------------
(* RequestChecks: the theorems *)

\* Both properties, for any set of options, sizes and limits.
THEOREM AnswersAreRight == ChecksSpec => [](QueuedIffSound /\ ChunksCoverFile)
<1>1. ChecksInit => QueuedIffSound /\ ChunksCoverFile
    BY DEF ChecksInit, QueuedIffSound, ChunksCoverFile
<1>2. QueuedIffSound /\ ChunksCoverFile /\ [ChecksNext]_checksVars
          => QueuedIffSound' /\ ChunksCoverFile'
  <2>1. ASSUME QueuedIffSound, ChunksCoverFile, UNCHANGED checksVars
        PROVE  QueuedIffSound' /\ ChunksCoverFile'
    <3>1. asked' = asked /\ answer' = answer
        BY <2>1 DEF checksVars
    <3>2. QueuedIffSound'
        BY <2>1, <3>1, ZenonT(180) DEF QueuedIffSound
    <3>3. ChunksCoverFile'
        BY <2>1, <3>1, Zenon DEF ChunksCoverFile
    <3> QED
        BY <3>2, <3>3
  <2> QED
    BY <2>1, StoredIffSound, StoredChunksCover DEF ChecksNext
<1> QED
    BY <1>1, <1>2, PTL DEF ChecksSpec

\* A currency request is stored exactly when it is sound as far as the service checks
\* (id_create_service.py:53-66, 186-247; currency_functions.py:194-320).
THEOREM QueuedAreSound == ChecksSpec => []QueuedIffSound
    BY AnswersAreRight, PTL

\* The chunks of an accepted upload cover its file (id_create_service.py:1506-1507).
THEOREM ChunksCover == ChecksSpec => []ChunksCoverFile
    BY AnswersAreRight, PTL

=============================================================================
