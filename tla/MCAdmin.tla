------------------------------- MODULE MCAdmin -------------------------------
(* AdminHistory on small instances.                                        *)
EXTENDS AdminHistory, TLC

(* No definition names a handler, a password or a token.                   *)
Interchangeable ==
    Permutations(Handlers) \cup Permutations(Passwords) \cup Permutations(Tokens)
=============================================================================
