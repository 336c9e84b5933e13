----------------------------- MODULE MCDemoClient -----------------------------
(* DemoClient on small instances.                                          *)
EXTENDS DemoClient, TLC

(* No definition names a handler or a key pair.                            *)
Interchangeable == Permutations(Handlers) \cup Permutations(Keys)
=============================================================================
