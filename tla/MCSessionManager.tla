-------------------------- MODULE MCSessionManager --------------------------
(* Instances of SessionManager for TLC. *)
EXTENDS SessionManager, TLC

CONSTANTS s1, s2, p1, h1, h2, none

OneProfile == [s \in Sessions |-> p1]
OneHost    == [s \in Sessions |-> h1]
TwoHosts   == [s \in Sessions |-> IF s = s1 THEN h1 ELSE h2]
=============================================================================
