---------------------------- MODULE MCSlotTiming ----------------------------
(***************************************************************************)
(* Values for the constants of SlotTiming.  The clock constants keep the   *)
(* code's order (a decode budget, a keying latency and a slack of one tick *)
(* each, tone frames longer than ordinary ones by more than the margins);  *)
(* a run picks the policies that make its question come up.                *)
(***************************************************************************)
EXTENDS SlotTiming

ByFamily(ordinary, floor) == [f \in Families |-> IF f = "floor" THEN floor ELSE ordinary]

MCBudget == ByFamily(1, 1)
MCLevelGap == [l \in 0 .. 1 |-> l]
MCControl == ByFamily(1, 3)
MCUnreadable == ByFamily(1, 1)
MCFrame == ByFamily(1, 3)
MCOpenWindow == ByFamily(2, 3)

\* A header that states nothing unusual; a run's policies vary it.
Plain == [n |-> 0, flag |-> FALSE, index |-> 0, level |-> 0, wanted |-> "ordinary",
          sized |-> "ordinary", hdrFloor |-> "ordinary", count |-> 0,
          dataFloor |-> "ordinary", elide |-> FALSE]

\* The families: what the answer and the slave's data go in, with and without
\* a header that says so, and the shorter open window, for data to end in.
FamilyPolicies ==
  {[Plain EXCEPT !.wanted = w, !.count = 1, !.elide = e] : w \in Families, e \in BOOLEAN}
  \cup {[Plain EXCEPT !.n = 1, !.sized = f] : f \in Families}
  \cup {[Plain EXCEPT !.flag = TRUE]}

\* Data after the header, gap levels, counts that may or may not be believed,
\* and the longer of the open windows beside them.
CountPolicies ==
  {[Plain EXCEPT !.level = l, !.count = k, !.n = k] : l \in Levels, k \in 1 .. 2}
  \cup {[Plain EXCEPT !.count = 2, !.dataFloor = "floor"]}
  \cup {[Plain EXCEPT !.flag = TRUE, !.index = 1]}

Data == {c \in AllChoices : c.work /\ c.k = MaxData}
OrdinaryData == {c \in AllChoices : c.g = "ordinary" /\ c.work}
=============================================================================
