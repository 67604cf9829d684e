----------------------------- MODULE MCWebPages -----------------------------
(* Two projects, one with two rows; a row of each exists at the start.       *)
EXTENDS WebPages

CONSTANTS Left, Right, RowA, RowB, RowC

Rows == {RowA, RowB, RowC}

Owner == [i \in Rows |-> IF i = RowC THEN Right ELSE Left]

\* Maps without activities, without edges, with an activity by itself, and with a loop.
FourMaps ==
  LET over(nodes, edges) == [nodes |-> nodes, edges |-> edges,
                             first |-> nodes \cap {RowA}, last |-> nodes \cap {RowB, RowC}]
  IN  {over({}, <<>>), over(Rows, <<>>), over(Rows, <<<<RowA, RowB>>, <<RowB, RowA>>>>),
       over(Rows, <<<<RowB, RowB>>, <<RowA, RowB>>, <<RowB, RowC>>>>)}

\* Enough to have two calls in flight and act on what they bring; two clicks where
\* one has several calls or timers follow.
Budget ==
  [rules |-> 4, reports |-> 3, kpis |-> 3, alerts |-> 3, initiatives |-> 3, inbox |-> 4, changes |-> 4,
   templates |-> 5, mining |-> 2, journeys |-> 3, connectors |-> 3, projects |-> 3, dashboards |-> 4,
   editor |-> 5, builder |-> 3, process |-> 2, views |-> 3, store |-> 2, upload |-> 5, chat |-> 4, ocpm |-> 3,
   governance |-> 3, session |-> 3, account |-> 3, project |-> 3, shell |-> 3, header |-> 3, flat |-> 2, webgl |-> 3, city |-> 3, form |-> 6,
   benchmark |-> 3, pulse |-> 4]

\* Clicks on the upload page only.
UploadBudget == [name \in DOMAIN Budget |-> IF name = "upload" THEN 5 ELSE 0]

=============================================================================
