------------------------------ MODULE FeeOffer ------------------------------
(***************************************************************************)
(* What the worker offers for the registration of an identity              *)
(* (worker._resolve_fee_offer, copied in worker_currency_creation.py) and  *)
(* how the identity sweep raises it while the daemon finds it too small    *)
(* (worker_id_creation.process_identity_once).                             *)
(*                                                                         *)
(* Amounts are integers.  An offer counts smallest amounts (1e-8); what is *)
(* read from the environment or from getcurrency counts parts of one,      *)
(* Parts to the smallest amount, since nothing limits its decimals.  An    *)
(* optional number is a set of at most one; a text that is no number is    *)
(* as good as a missing one except in FEE_OFFER.  Quotients are exact, as  *)
(* the code computes them with 28 decimals; the offer is raised in binary  *)
(* floats, whose results may be rounded down to one smallest amount less.  *)
(***************************************************************************)
EXTENDS Integers, Sequences, FiniteSets

CONSTANTS
    Unit,           \* smallest amounts in a coin, 10^8
    Parts,          \* parts of a smallest amount
    EnvOffers,      \* numbers that FEE_OFFER may hold, in parts
    Fees,           \* idregistrationfees, in parts
    Indexes,        \* idimportfees in smallest amounts, where whole
    Prices,         \* priceinreserve, in parts
    Rates,          \* IDR_FEE_BUMP_RATE, in thousandths
    MaxFeeBumps     \* IDR_FEE_BUMP_MAX_INCREASES

ASSUME FeeAssumption ==
    /\ Unit \in Nat \ {0} /\ Parts \in Nat \ {0} /\ MaxFeeBumps \in Nat
    /\ EnvOffers \subseteq Nat /\ Fees \subseteq Nat
    /\ Indexes \subseteq Int /\ Prices \subseteq Int /\ Rates \subseteq Int

Optional(S) == {{}} \cup {{v} : v \in S}

\* FEE_OFFER; and what getcurrency says of the parent.  A state lists the
\* price of each currency in it; the state itself may be missing.
Env      == [text : {"empty", "garbage"}, offer : {{}}]
            \cup [text : {"number"}, offer : {{v} : v \in EnvOffers}]
State    == Optional([{0} -> Optional(Prices)])
Currency == [fees      : Optional(Fees),
             index     : Optional(Indexes),
             listed    : 0 .. 1,            \* length of "currencies"
             confirmed : State,             \* lastconfirmedcurrencystate
             best      : State]             \* bestcurrencystate

VARIABLES
    feeStage,   \* idle, resolving, offering; then taken, refused or aborted
    env, currency,
    rate,       \* IDR_FEE_BUMP_RATE as the sweep uses it
    first,      \* the offer resolved
    offer,      \* the offer of the next call
    bumps

feeVars == <<feeStage, env, currency, rate, first, offer, bumps>>

FeeInit ==
    /\ feeStage = "idle" /\ env = [text |-> "empty", offer |-> {}]
    /\ currency = [fees |-> {}, index |-> {}, listed |-> 0,
                   confirmed |-> {}, best |-> {}]
    /\ rate = 0 /\ first = 0 /\ offer = 0 /\ bumps = 0

-----------------------------------------------------------------------------
(* _resolve_fee_offer *)

\* _normalize_fee_offer, of a number that is not negative.
Normalized(parts) == parts \div Parts

\* The state that prices are taken from: the confirmed one if there is one,
\* whether or not it has the price.
Priced == IF currency.confirmed # {} THEN currency.confirmed ELSE currency.best

\* Mutant: the index counts from one.
ReservePriceFromOne ==
    UNION {UNION {s[i - 1] : i \in {j \in currency.index :
        j \in 0 .. 9 /\ j <= currency.listed /\ j - 1 \in DOMAIN s}} : s \in Priced}

\* The price of the currency that idimportfees points at, if it does.
ReservePrice ==
    UNION {UNION {s[i] : i \in {j \in currency.index :
        j \in 0 .. 9 /\ j < currency.listed}} : s \in Priced}

\* _resolve_encoded_import_fee_offer
EncodedOffer(fee) ==
    {(fee * Unit) \div price : price \in {p \in ReservePrice : p > 0}}

\* The offer from getcurrency; one coin where it tells no fee.
LookedUp ==
    IF currency.fees = {} THEN {Unit}
    ELSE UNION {IF EncodedOffer(f) # {} THEN EncodedOffer(f) ELSE {Normalized(f)}
                : f \in currency.fees}

\* decimal.InvalidOperation is no ValueError: garbage aborts the sweep.
Resolve ==
    /\ feeStage = "resolving"
    /\ \/ /\ env.text = "garbage"
          /\ feeStage' = "aborted" /\ UNCHANGED <<first, offer>>
       \/ /\ env.text # "garbage"
          /\ first' \in IF env.text = "number" THEN {Normalized(v) : v \in env.offer}
                                               ELSE LookedUp
          /\ offer' = first' /\ feeStage' = "offering"
    /\ UNCHANGED <<env, currency, rate, bumps>>

-----------------------------------------------------------------------------
(* The loop around register_identity *)

\* The offer times 1 + rate.  The product of binary floats may be a little too
\* small, and is then rounded down to one smallest amount less.
ByRate == {(offer * (1000 + rate) - error) \div 1000 : error \in {0, 1}}

\* The offer plus 0.00000001.  That sum, too, may be a little too small, and is then
\* rounded down to the offer; nothing is lost when the offer is 0.
ByOne == {offer + 1} \cup ({offer} \ {0})

\* Mutant: the rate is all that raises the offer.
RaisedByRate == ByRate

\* What the next offer may be: raised by the rate, or else by one smallest amount.
Raised ==
    {next \in ByRate : next > offer}
    \cup (IF \E next \in ByRate : next <= offer THEN ByOne ELSE {})

Insufficient ==
    /\ feeStage = "offering"
    /\ IF bumps >= MaxFeeBumps
       THEN feeStage' = "refused" /\ UNCHANGED <<offer, bumps>>
       ELSE offer' \in Raised /\ bumps' = bumps + 1 /\ UNCHANGED feeStage
    /\ UNCHANGED <<env, currency, rate, first>>

RegisterEnds ==
    /\ feeStage = "offering"
    /\ feeStage' \in {"taken", "refused"}
    /\ UNCHANGED <<env, currency, rate, first, offer, bumps>>

\* A ready row comes up, in some environment; a negative rate counts as 0.
ReadyRow ==
    /\ feeStage = "idle"
    /\ env' \in Env /\ currency' \in Currency
    /\ rate' \in {IF r < 0 THEN 0 ELSE r : r \in Rates}
    /\ feeStage' = "resolving"
    /\ UNCHANGED <<first, offer, bumps>>

FeeNext == ReadyRow \/ Resolve \/ Insufficient \/ RegisterEnds

FeeSpec == FeeInit /\ [][FeeNext]_feeVars

-----------------------------------------------------------------------------
(* Properties *)

\* An index that points at a listed currency with a positive price: the offer
\* is the largest amount of that currency that is worth no more than the fee
\* in the state that counts; otherwise, and for FEE_OFFER, it is the largest
\* amount within the number given (worker.py:161-264).
OfferIsWithinFee ==
    feeStage \notin {"idle", "resolving", "aborted"} =>
        LET best(worth, of) == worth[first] <= of /\ of < worth[first + 1]
            plain == [n \in {first, first + 1} |-> n * Parts]
            encoded(price) == [n \in {first, first + 1} |-> n * price]
            inForce == IF currency.confirmed = {} THEN currency.best
                                                  ELSE currency.confirmed
            pointsAt(price) == /\ currency.index = {0} /\ currency.listed = 1
                               /\ inForce = {[i \in {0} |-> {price}]} /\ price > 0
        IN  \/ env.text = "number" /\ \E v \in env.offer : best(plain, v)
            \/ /\ env.text = "empty"
               /\ \A f \in currency.fees :
                      IF \E p \in Prices : pointsAt(p)
                      THEN \E p \in Prices : pointsAt(p) /\ best(encoded(p), f * Unit)
                      ELSE best(plain, f)
               /\ currency.fees = {} => first = Unit

\* A bump never lowers the offer nor raises it by more than the rate, or by more than
\* the one smallest amount that stands in for it; and it does raise the offer where
\* the rate's share of it is more than a smallest amount, whatever the floats lose
\* (worker_id_creation.py:195-199).
BumpsFollowRate ==
    [][bumps' > bumps =>
          /\ offer' >= offer
          /\ offer' = offer + 1 \/ offer' * 1000 <= offer * (1000 + rate)
          /\ offer * rate > 1000 => offer' > offer]_feeVars

=============================================================================
