------------------------------ MODULE MCWorker ------------------------------
(***************************************************************************)
(* Instances of WorkerLoop for TLC: one request of each kind.              *)
(***************************************************************************)
EXTENDS WorkerLoop

CONSTANTS r1, name1, u1, token, native

OneRequest == {r1}
OneName    == {name1}
ThatName   == [r \in Requests |-> name1]
NoneHooked == {}
NoneBroken == {}
AllBroken  == {r1}

\* Each kind beside each other one.
Pairs == {{"identity", "storage"}, {"identity", "currency"}, {"storage", "currency"}}

OneUpload == {u1}
OneChunk  == [u \in Uploads |-> 1]
AnyAnswer == {"dict", "plain"}

EnabledOnly  == {"enabled"}
MayBeMissing == {"enabled", "unresolved"}

NoReserve    == {}
NativeBasket == {[workflow |-> "fractional", identityExists |-> TRUE, createReserves |-> FALSE,
                  reserves |-> <<>>, reserveIds |-> {}]}
FourOfNative == [c \in {native} |-> 4]
NoneOfNative == [c \in {native} |-> 0]

=============================================================================
