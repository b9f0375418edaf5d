-------------------------- MODULE MCGatewayRuntime --------------------------
(* TLC instances of GatewayRuntime.                                        *)
EXTENDS GatewayRuntime, TLC

MCSymmetry == Permutations(Streams) \cup Permutations(Sessions)
=============================================================================
