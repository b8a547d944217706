--------------------------- MODULE MCPaperAccount ---------------------------
(***************************************************************************)
(* An instance of PaperAccount for TLC: a book that grows, shrinks and     *)
(* moves over three prices, and a second instrument whose book shows one   *)
(* share on each side, and of which single shares are bought.              *)
(***************************************************************************)
EXTENDS PaperAccount

CONSTANTS k1, k2

At(p, q) == [x \in Price |-> IF x = p THEN q ELSE 0]

\* Asks on two prices, or the spread moved up.
MCWide == {[asks |-> [x \in Price |-> IF x = 1 THEN 0 ELSE 1], bids |-> At(1, 1)],
           [asks |-> At(3, 2), bids |-> At(2, 1)]}

Quiet(d) ==
  /\ d.books[k2].time = 0 /\ d.books[k2].asks.depth[3] < 2
  /\ \A i \in DOMAIN d.orders :
       LET o == d.orders[i] IN o.code = k2 => o.side = "BUY" /\ o.price = 2 /\ o.quantity = 1

MCNext == Next /\ Quiet(doc')
MCSpec == Init /\ [][MCNext]_vars

CommandsAlike == Permutations(Cmd)
=============================================================================
