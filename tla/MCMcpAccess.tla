----------------------------- MODULE MCMcpAccess -----------------------------
(***************************************************************************)
(* Instance of McpAccess for TLC.  The default workspace is 1, the hub is  *)
(* in 2; the caller is a reader of 1 and an owner of 2, the subject of the *)
(* service token an owner of 1 and an agent of 2.                          *)
(***************************************************************************)
EXTENDS McpAccess, TLC

SomeDeployments ==
  {[transport |-> "api_key", auth |-> "api_key", database |-> TRUE, toolWs |-> 1, apiWs |-> None],
   [transport |-> "none", auth |-> "api_key", database |-> TRUE, toolWs |-> None, apiWs |-> None],
   [transport |-> "stdio", auth |-> "local_dev_bypass", database |-> TRUE, toolWs |-> None, apiWs |-> 2],
   [transport |-> "stdio", auth |-> "api_key", database |-> FALSE, toolWs |-> None, apiWs |-> None]}

As(role) == [role |-> role, active |-> TRUE]

SomeMemberships ==
  {<<Caller, 1>> :> As("reader") @@ <<Caller, 2>> :> As("owner")
     @@ <<Service, 1>> :> As("owner") @@ <<Service, 2>> :> As("service_agent")}
==============================================================================
