-------------------------- MODULE MCSchedulerLive --------------------------
(* SchedulerLive for TLC with the thread of the bus of the USB, rank 2      *)
(* under a compas (dev/usb/bus.rs), that the shell starts.                  *)
EXTENDS SchedulerLive

Bus == {<<2, TRUE>>}
=============================================================================
