--------------------------- MODULE MCMetalRuntime ---------------------------
(***************************************************************************)
(* Two agents, the runtime's connection to each, and one other client.     *)
(***************************************************************************)
EXTENDS MetalRuntime

CONSTANTS a1, a2, h1, h2, ping

MCAgentOf == (h1 :> a1) @@ (h2 :> a2) @@ (ping :> a1)
=============================================================================
