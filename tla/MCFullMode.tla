----------------------------- MODULE MCFullMode -----------------------------
(* Instances of FullMode.                                                   *)
EXTENDS FullMode

AllPrograms == {"foreign", "user"}
UserPrograms == {"user"}
NoPrograms == {}
NoFaults == {}
SlowLaunch == {"probe"}
LaunchFaults == {"uac", "probe"}
=============================================================================
