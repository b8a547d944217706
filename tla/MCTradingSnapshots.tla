------------------------- MODULE MCTradingSnapshots -------------------------
(***************************************************************************)
(* An instance of TradingSnapshots: the balances of an instrument, with    *)
(* the holdings of the account nested in them, and the order snapshot made *)
(* of two requests.                                                        *)
(***************************************************************************)
EXTENDS TradingSnapshots

CONSTANTS orders, balances, holdings

MCRequests == [e \in Entry |-> IF e = orders THEN {"OPEN", "CLOSED"} ELSE {"GET"}]
MCNested == [e \in Entry |-> IF e = balances THEN holdings ELSE NoEntry]
=============================================================================
