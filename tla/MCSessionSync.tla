--------------------------- MODULE MCSessionSync ---------------------------
(***************************************************************************)
(* One device is every device: the goroutine, the channel and the service    *)
(* treat sessions alike.  MonitoredSpec starts with the device monitored, so  *)
(* that only a request can end that.                                        *)
(***************************************************************************)
EXTENDS SessionSync, TLC

MonitoredSpec == monitored = Device /\ Spec
=============================================================================
