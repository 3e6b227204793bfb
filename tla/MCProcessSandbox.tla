-------------------------- MODULE MCProcessSandbox --------------------------
(* Instances of ProcessSandbox for TLC: a pipe of one byte, a request that  *)
(* fits it and one that does not.                                           *)
EXTENDS ProcessSandbox

MCRequests == {1, 2}
=============================================================================
