---------------------------- MODULE MCAgentPools ----------------------------
EXTENDS AgentPools

CONSTANTS alice, bob, tokenA, tokenB, c1

\* Two callers who name the same conversation, one of them before and after a refresh
\* of her token, and a request that came around the gateway.
MCRequests ==
  {[sub |-> alice, tok |-> tokenA, ctx |-> c1],
   [sub |-> alice, tok |-> tokenB, ctx |-> c1],
   [sub |-> bob, tok |-> tokenB, ctx |-> c1],
   [sub |-> None, tok |-> None, ctx |-> c1]}

MCPools == 1..4
=============================================================================
