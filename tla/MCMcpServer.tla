----------------------------- MODULE MCMcpServer -----------------------------
(* The stream that a cancellation means, and the ids of streams.            *)
EXTENDS McpServer

MCTarget == [k \in Cancels |-> "l1"]
MCOwnIds == [l \in Listens |-> IF l = "l1" THEN 1 ELSE 2]
MCOneId == [l \in Listens |-> 1]
=============================================================================
