-------------------------- MODULE MCCircuitBreaker --------------------------
(* CircuitBreaker on small instances.  Of the levels, 90 is a drawdown of  *)
(* exactly 10% from the configured 100, and 105 a new high, from which 100 *)
(* is a loss of the day but no drawdown.                                   *)
EXTENDS CircuitBreaker

MCLevels == {90, 100, 105}
=============================================================================
