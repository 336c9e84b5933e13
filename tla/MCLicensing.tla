----------------------------- MODULE MCLicensing -----------------------------
(* Licensing and LicensingHistory on small instances.  The configurations  *)
(* choose the instance that shows the interleavings their question is      *)
(* about.                                                                  *)
EXTENDS LicensingHistory, TLC

(* Handlers and devices are interchangeable: no definition names one.      *)
HandlersAndDevices == Permutations(Handlers) \cup Permutations(Devices)
=============================================================================
