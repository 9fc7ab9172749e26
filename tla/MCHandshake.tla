---------------------------- MODULE MCHandshake ----------------------------
(* Model-checking instance of Handshake.  Liveness is checked on it, so it  *)
(* takes no advantage of the symmetry of sockets, installs and tokens.      *)
EXTENDS Handshake, TLC
=============================================================================
