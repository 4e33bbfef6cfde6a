--------------------------- MODULE MCSubManager ---------------------------
(***************************************************************************)
(* The subscription manager on two symbols: a focused chart of the first, a *)
(* background alert on the second.                                          *)
(***************************************************************************)
EXTENDS SubManager

Chart == [symbol |-> 1, subs |-> {"TICKER"}, ordinary |-> TRUE, focused |-> TRUE]
Alert == [symbol |-> 2, subs |-> {"TICKER"}, ordinary |-> FALSE, focused |-> FALSE]
TwoDemands == <<Chart, Alert>>
OneDemand == <<Chart>>
NoSymbol == {}
BadSecond == {2}
\* The state after a drop noticed late is checked, what follows is not searched.
NotLagged == "lag" \notin odd
=============================================================================
