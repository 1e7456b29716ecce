------------------------------ MODULE MCDevLoop ------------------------------
(* Instances of DevLoop for TLC.  The requests are interchangeable.          *)
EXTENDS DevLoop, TLC

InterchangeableRequests == Permutations(Requests)
=============================================================================
