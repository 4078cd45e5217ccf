---------------------------- MODULE MCAccountant ----------------------------
(* Instances of BandwidthAccountant.  With the rule Day(1) the dates are:   *)
(* the middle of a cycle, its last day (when the code turns it over), the   *)
(* middle of the next one, and a day the first cycle's start is more than   *)
(* 31 days before.                                                          *)
EXTENDS BandwidthAccountant, TLC

Jul15 == Ymd(2026, 7, 15)
Jul31 == Ymd(2026, 7, 31)
Aug10 == Ymd(2026, 8, 10)
Sep05 == Ymd(2026, 9, 5)

ThreeDates == {Jul15, Jul31, Aug10}
FourDates == {Jul15, Jul31, Aug10, Sep05}

OverTheBoundary == {Jul31, Aug10}
CycleAndNextButOne == {Jul15, Sep05}
CycleAndItsLastDay == {Jul15, Jul31}

FirstOfMonth == {1}
FirstOrMiddle == {1, 15}

Symmetry == Permutations(Luid)

NoFaults == {}
ReadAndArchiveFaults == {"load", "load_meta", "archive", "prune"}
WriteFaults == {"save", "archive", "prune"}
SaveFaults == {"save"}
=============================================================================
