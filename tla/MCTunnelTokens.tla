--------------------------- MODULE MCTunnelTokens ---------------------------
(***************************************************************************)
(* A small instance of TunnelTokens for TLC: one URL and a roll-over.      *)
(***************************************************************************)
EXTENDS TunnelTokens

CONSTANTS k1, k2

\* The settings before the roll-over, and with both keys after it.
Rollover == {[keys |-> {k1}, active |-> k1],
             [keys |-> {k1, k2}, active |-> k2]}
=============================================================================
