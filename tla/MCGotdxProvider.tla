--------------------------- MODULE MCGotdxProvider ---------------------------
EXTENDS GotdxProvider, TLC

CONSTANTS h1, h2

ThreeKinds == <<"quote", "kline", "mac">>

Hosts == "quote" :> <<h1, NoHost, h2, h1>> @@ "kline" :> <<h1, h2>> @@ "mac" :> <<h2, h2>>

Clients == "quote" :> 2 @@ "kline" :> 1 @@ "mac" :> 1

(* Today is 3: the previous day is given, or today by mistake; a holiday;    *)
(* and an answer without a date.                                             *)
Replies ==
  {[today |-> 3, last |-> 3, last2 |-> 2], [today |-> 3, last |-> 3, last2 |-> 3],
   [today |-> 3, last |-> 2, last2 |-> 1], [today |-> 0, last |-> 3, last2 |-> 2]}

DaysOfBars == {{}, {1, 2, 3}}

=============================================================================
