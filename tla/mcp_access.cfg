CONSTANTS
  Calls = {1, 2}
  Caller = caller
  Service = service
  Workspaces = {1, 2}
  Local = local
  DefaultWs = 1
  HubHome = 2
  None = none
  Deployments <- SomeDeployments
  Memberships <- SomeMemberships
  Tried = {"save_and_link_to_hub", "update_node_metadata", "update_hub"}
  TriedDirectly = {"tier_override"}
  Given = {"reader"}
  MaxChanges = 1
  MaxFaults = 2
SPECIFICATION Spec
INVARIANTS ActsAsCaller OnlyByRight LinkedMeansWhole
CHECK_DEADLOCK FALSE
