------------------------------ MODULE MCCurrency ------------------------------
(***************************************************************************)
(* Instances of CurrencyWorkflow for TLC.                                  *)
(***************************************************************************)
EXTENDS CurrencyWorkflow

CONSTANTS token, native, tennis, golf, penny

OneReserve == {tennis}
AllReserves == {tennis, golf, penny}
NoReserve  == {}

SimplePlan == [workflow |-> "simple", identityExists |-> FALSE, createReserves |-> FALSE,
               reserves |-> <<>>, reserveIds |-> {}]

\* A new basket over a reserve to be created, and baskets over currencies that exist.
NewBasket == [workflow |-> "fractional", identityExists |-> FALSE, createReserves |-> TRUE,
              reserves |-> <<penny>>, reserveIds |-> {}]
GivenBasket == [workflow |-> "fractional", identityExists |-> TRUE, createReserves |-> TRUE,
                reserves |-> <<tennis>>, reserveIds |-> {tennis}]
PlainBasket == [workflow |-> "fractional", identityExists |-> TRUE, createReserves |-> FALSE,
                reserves |-> <<tennis>>, reserveIds |-> {}]

TwoBasket == [PlainBasket EXCEPT !.reserves = <<tennis, golf>>]

\* The same reserve listed twice: to be created, with its identity given, and existing.
TwiceNew   == [NewBasket EXCEPT !.identityExists = TRUE, !.reserves = <<penny, penny>>]
TwiceGiven == [GivenBasket EXCEPT !.reserves = <<golf, golf>>, !.reserveIds = {golf}]
TwicePlain == [PlainBasket EXCEPT !.reserves = <<golf, golf>>]

NativeBasket == [workflow |-> "fractional", identityExists |-> TRUE, createReserves |-> FALSE,
                 reserves |-> <<>>, reserveIds |-> {}]

SomePlans   == {SimplePlan, NewBasket, PlainBasket, TwoBasket, TwiceNew, TwiceGiven, TwicePlain}
GivenOnly   == {GivenBasket}
NativeOnly  == {NativeBasket}

\* Of penny so little is needed that nothing is sent.  The source of tennis pays in two
\* rounds, if it is topped up; the others have enough.
FourOfEach  == [c \in Currencies |-> 4]
FourButOne  == [c \in Currencies |-> IF c = penny THEN 1 ELSE 4]
TwelveOfEach == [c \in Currencies |-> 12]
RichAndPoor == [c \in Currencies |-> IF c = native THEN 12 ELSE IF c = golf THEN 24 ELSE 2]
NoneForAny  == [c \in Currencies |-> 0]
OneForPoor  == [c \in Currencies |-> IF c = tennis THEN 1 ELSE 0]

\* Three rounds.
SixOfEach == [c \in Currencies |-> 6]
TwoOfEach == [c \in Currencies |-> 2]

=============================================================================
