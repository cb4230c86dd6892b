------------------------------- MODULE MCParts -------------------------------
(***************************************************************************)
(* FeeOffer, RequestChecks and McpWait, which share nothing, in one        *)
(* instance: one attempt to register, one request to the API or one wait   *)
(* for a registration.                                                     *)
(***************************************************************************)
EXTENDS FeeOffer, RequestChecks, McpWait

CONSTANT r1

\* Nobody waits yet, and the registration is a new one.
NoWait == pc = "called" /\ now = 0 /\ Status = "pending_rnc_confirm"

PartsInit == FeeInit /\ ChecksInit /\ Init

PartsNext ==
    \/ NoWait /\ asked = <<>> /\ FeeNext /\ UNCHANGED <<checksVars, vars>>
    \/ NoWait /\ feeStage = "idle" /\ ChecksNext /\ UNCHANGED <<feeVars, vars>>
    \/ feeStage = "idle" /\ asked = <<>> /\ Next /\ UNCHANGED <<feeVars, checksVars>>

PartsSpec == PartsInit /\ [][PartsNext]_<<feeVars, checksVars, vars>>

\* A coin of 10 smallest amounts with 4 parts each: 45 parts are 11 amounts
\* and a part; prices of half a coin, 13 parts and one coin, and impossible ones.
SomeOffers  == {0, 3, 45}
SomeFees    == {0, 7, 45}
SomePrices  == {-1, 0, 13, 20, 40}
SomeIndexes == {-1, 0, 1, 10}
SomeRates   == {-5, 0, 3, 250}

\* Every value of the three known flags and their neighbours.
AllOptions == -1 .. 128
TwoOfEachKind == {1, 9, 32, 41, 96}

SomeSizes  == 0 .. 13
SomeChunks == {-1, 0, 1, 3, 4, 5}

\* Refused, shorter than one poll, and several polls long.
ShortAndLong == {0, 1, 5}
FastAndSlow  == {0, 1, 3}

=============================================================================
