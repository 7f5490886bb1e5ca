------------------------------ MODULE MCBufMgr ------------------------------
(* Small instances of the buffer manager. *)
EXTENDS ClockSweep

NoDepartures  == {}
AllDepartures == DepartureKinds
=============================================================================
