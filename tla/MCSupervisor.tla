---------------------------- MODULE MCSupervisor ----------------------------
(* Instances of LhmSupervisor: two ports in the chain; a configured port    *)
(* outside of it where other programs matter.                               *)
EXTENDS LhmSupervisor

AllFaults == {"get", "exe", "patch", "uac", "job", "probe"}
AllPrograms == {"foreign", "user"}
NoFaults == {}
NoPrograms == {}
=============================================================================
