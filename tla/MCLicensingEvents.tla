-------------------------- MODULE MCLicensingEvents --------------------------
(* LicensingEvents on small instances.                                    *)
EXTENDS LicensingEvents, TLC

(* Handlers and devices are interchangeable: no definition names one.      *)
HandlersAndDevices == Permutations(Handlers) \cup Permutations(Devices)
=============================================================================
