----------------------------- MODULE MCWorkspace -----------------------------
(* Instances of Workspace for TLC. *)
EXTENDS Workspace

CONSTANTS k1, u1, a1

McKr == {k1}
McUs == {u1}
McAccount == {a1}

Win(kind, group, tf) ==
  [kind |-> kind, group |-> group, pinned |-> None, tf |-> tf,
   account |-> None, source |-> None, kept |-> NothingKept]

\* a domestic chart in each of two groups, and the same with one of them pinned
Charts ==
  [win |-> 1 :> Win("chart", 1, "1m") @@ 2 :> Win("chart", 2, "240m"),
   z |-> <<2, 1>>, sym |-> [g \in Groups |-> k1], pend |-> {}]
PinnedCharts == [Charts EXCEPT !.win[2].pinned = k1, !.sym[2] = u1]

\* an order window above a chart of a US group, and the same with a pinned order
\* window to which an execution window is linked
Orders ==
  [win |-> 1 :> Win("chart", 2, "1m") @@ 2 :> Win("order", 1, None),
   z |-> <<1, 2>>, sym |-> [g \in Groups |-> IF g = 1 THEN k1 ELSE u1], pend |-> {}]
LinkedOrders ==
  [Orders EXCEPT
     !.win = [@ EXCEPT ![2].account = a1, ![2].pinned = k1]
             @@ 3 :> [Win("account-fills", 1, None) EXCEPT
                        !.source = 2, !.kept = [account |-> a1, symbol |-> k1]],
     !.z = <<1, 2, 3>>]

McSeeds == {Charts, PinnedCharts, Orders, LinkedOrders}
=============================================================================
