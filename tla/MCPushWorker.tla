---------------------------- MODULE MCPushWorker ----------------------------
(* Two events, the first of which concerns two users.                        *)
EXTENDS PushWorker

CONSTANTS w1, w2, owner, agent

MCTargets == [e \in Events |-> IF e = 1 THEN <<owner, agent>> ELSE <<agent>>]
=============================================================================
