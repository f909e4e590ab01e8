----------------------------- MODULE MCServers ------------------------------
(* An instance of Servers for TLC: a wire client and a /sql command.       *)
EXTENDS Servers

CONSTANTS w1, k1

=============================================================================
