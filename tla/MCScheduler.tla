---------------------------- MODULE MCScheduler ----------------------------
(* Scheduler for TLC with two kernel threads that the shell starts: that of *)
(* the bus of the USB, rank 2 under a compas (dev/usb/bus.rs), and that of  *)
(* the disk, rank 1, parked until its interrupt (dev/disk/hilo.rs).         *)
EXTENDS Scheduler

BusAndDisk == {<<2, TRUE>>, <<1, FALSE>>}
=============================================================================
