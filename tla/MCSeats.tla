------------------------------- MODULE MCSeats -------------------------------
(* Licensing on small instances whose question is about seats: several     *)
(* licenses, or devices enough to exceed a bound.                          *)
EXTENDS Licensing, TLC

(* No definition names a handler, a device or a license.                   *)
Interchangeable ==
    Permutations(Handlers) \cup Permutations(Devices) \cup Permutations(Licenses)
=============================================================================
