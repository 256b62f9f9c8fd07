---------------------------- MODULE MCMcpGateway ----------------------------
(* One agent updates a brew, which reads first, and lists the tools; another *)
(* updates the same record.                                                  *)
EXTENDS McpGateway

MCRequest == {"brewed", "listed", "patched"}
MCAgent == {"a", "b"}
MCBy == [brewed |-> "a", listed |-> "a", patched |-> "b"]
MCAsks == [brewed |-> UpdateBrew, listed |-> NoTool, patched |-> UpdateRoast]
=============================================================================
