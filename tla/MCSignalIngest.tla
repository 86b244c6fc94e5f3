--------------------------- MODULE MCSignalIngest ---------------------------
(* Instances of SignalIngest for TLC.  The listing holds an item with a    *)
(* date and below it one without.                                          *)
EXTENDS SignalIngest, TLC

CONSTANTS c1, c2, proc1, proc2, a, b

OneProcessOf   == (c1 :> proc1) @@ (c2 :> proc1)
TwoProcessesOf == (c1 :> proc1) @@ (c2 :> proc2)

(* An adapter that raises or one that does not, a limit the listing stays  *)
(* within or not, and one process or two.                                  *)
AllSetups ==
  [processOf : {OneProcessOf}, swallows : BOOLEAN, limit : {0, 2}]
    \cup [processOf : {TwoProcessesOf}, swallows : {FALSE}, limit : {1}]
Raising    == [processOf : {OneProcessOf}, swallows : {FALSE}, limit : {2}]
Swallowing == [processOf : {OneProcessOf}, swallows : {TRUE}, limit : {2}]

PublishedBefore == [i \in Items |-> 0]
PublishedLater  == [i \in Items |-> IF i = b THEN 1 ELSE 0]
MCListing     ==
  [t \in Times |-> SelectSeq(<<a, b>>, LAMBDA i : i \in Items /\ Published[i] <= t)]
DateInListing == [i \in Items |-> IF i = b THEN "none" ELSE "listing"]
DateOnPage    == [i \in Items |-> IF i = b THEN "none" ELSE "page"]
=============================================================================
