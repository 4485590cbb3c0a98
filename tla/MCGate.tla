-------------------------------- MODULE MCGate --------------------------------
(* A small instance of Gate: an MCP client that makes two calls at once, with *)
(* the least limit and the shortest life of a token that RoomAssumption       *)
(* admits, and another caller whose failures fill the map.                    *)
EXTENDS Gate, TLC

MCMaxFailures == "mcp" :> 4
MCWindowTicks == "mcp" :> 2

Symmetry == Permutations(Honest)
=============================================================================
