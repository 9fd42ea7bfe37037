------------------------------ MODULE McpTools ------------------------------
(***************************************************************************)
(* The static tables of a request: which client method a tool of the MCP   *)
(* server calls (mcp/tools.py), which endpoints of the API a method calls  *)
(* and in which order (mcp/client.py), which permission an endpoint asks   *)
(* for (api/routers), and which roles hold it (api/dependencies/auth.py).  *)
(* Arguments, payloads, descriptions and the layout of answers are left    *)
(* out.                                                                    *)
(***************************************************************************)
EXTENDS Sequences

(* Two tables in one. *)
f ++ g == [x \in DOMAIN f \cup DOMAIN g |-> IF x \in DOMAIN f THEN f[x] ELSE g[x]]

Roles == {"owner", "admin", "writer", "reader", "service_agent", "auditor"}

Managers == {"owner", "admin"}

AdminPermissions == {"admin.cleanup", "admin.tier_override", "admin.tier_rollback",
                     "escalations.resolve", "current_state.promote"}

ReadPermissions == {"content.read", "hubs.read", "edges.read", "decisions.read",
                    "escalations.read"}

(* ROLE_PERMISSIONS: the roles that hold permission p. *)
AllowedRoles(p) ==
  CASE p \in ReadPermissions -> Roles
    [] p = "retrieval.search" -> Roles \ {"auditor"}
    [] p \in {"content.create", "content.update", "hubs.create", "hubs.link",
              "edges.create", "decisions.create"} -> Managers \cup {"writer", "service_agent"}
    [] p \in {"hubs.update", "edges.update"} -> Managers \cup {"writer"}
    [] p = "current_state.promote" -> Managers \cup {"service_agent"}
    [] OTHER -> Managers

-----------------------------------------------------------------------------
(* Endpoint |-> permission, one table per router. *)

ContentEndpoints ==
  [create_content |-> "content.create", get_content |-> "content.read",
   get_content_metadata |-> "content.read", get_canonical_body |-> "content.read",
   set_quick_summary |-> "content.update", set_node_type |-> "content.update"]

CurrentStateEndpoints ==
  [list_current_state_anchors |-> "content.read",
   trusted_promote_current_state |-> "current_state.promote"]

HubEndpoints ==
  [create_hub |-> "hubs.create", list_hubs |-> "hubs.read", get_hub |-> "hubs.read",
   update_hub |-> "hubs.update", link_content |-> "hubs.link"]

EdgeEndpoints ==
  [create_edge |-> "edges.create", get_edge |-> "edges.read", list_edges |-> "edges.read",
   archive_edge |-> "edges.archive", update_edge |-> "edges.update",
   approve_inferred_edge |-> "edges.create", reject_inferred_edge |-> "edges.create"]

DecisionEndpoints ==
  [list_decision_conflicts |-> "decisions.read", get_decision_timeline |-> "decisions.read",
   list_decisions |-> "decisions.read", create_decision_memory |-> "decisions.create",
   list_decisions_for_content |-> "decisions.read", get_decision_lineage |-> "decisions.read",
   explain_decision |-> "decisions.read", update_decision_status |-> "decisions.update"]

GraphEndpoints ==
  [graph_snapshot |-> "hubs.read", load_graph_node_full |-> "content.read",
   search_graph_preview |-> "retrieval.search"]

SearchEndpoints ==
  [retrieval_search |-> "retrieval.search", ask |-> "retrieval.search"]

(* Endpoints no tool calls. *)
OperatorEndpoints ==
  [approve_escalation |-> "escalations.resolve", reject_escalation |-> "escalations.resolve",
   list_escalations |-> "escalations.read", cleanup_ttl |-> "admin.cleanup",
   tier_override |-> "admin.tier_override", tier_rollback |-> "admin.tier_rollback"]

Permission ==
  ContentEndpoints ++ CurrentStateEndpoints ++ HubEndpoints ++ EdgeEndpoints
    ++ DecisionEndpoints ++ GraphEndpoints ++ SearchEndpoints ++ OperatorEndpoints

Endpoints == DOMAIN Permission

-----------------------------------------------------------------------------
(* Client method |-> the endpoints it calls, in order; /health asks for no permission. *)

ContentMethods ==
  [content_create_id |-> <<"create_content">>, content_get |-> <<"get_content">>,
   canonical_body_get |-> <<"get_canonical_body">>,
   set_quick_summary |-> <<"set_quick_summary">>, set_node_type |-> <<"set_node_type">>,
   get_content_metadata |-> <<"get_content_metadata">>,
   current_state_anchor_list |-> <<"list_current_state_anchors">>,
   trusted_promote_current_state |-> <<"trusted_promote_current_state">>]

HubMethods ==
  [update_node_metadata |-> <<"get_content_metadata">>,
   hub_create |-> <<"create_hub">>, hub_get |-> <<"get_hub">>,
   hub_link_content |-> <<"link_content">>, edge_create |-> <<"create_edge">>,
   edge_get |-> <<"get_edge">>, edge_list |-> <<"list_edges">>,
   edge_archive |-> <<"archive_edge">>, retrieval_search |-> <<"retrieval_search">>,
   ask |-> <<"ask">>]

ReviewMethods ==
  [hub_list |-> <<"list_hubs">>, hub_update |-> <<"update_hub">>,
   edge_update |-> <<"update_edge">>,
   approve_inferred_edge |-> <<"approve_inferred_edge">>,
   reject_inferred_edge |-> <<"reject_inferred_edge">>,
   save_and_link_to_hub |-> <<"create_content", "set_quick_summary", "link_content">>]

DecisionMethods ==
  [graph_snapshot |-> <<"graph_snapshot">>, graph_node_full |-> <<"load_graph_node_full">>,
   graph_search_preview |-> <<"search_graph_preview">>,
   decision_create |-> <<"create_decision_memory">>, decision_get |-> <<"explain_decision">>,
   decision_list |-> <<"list_decisions">>,
   decision_update_status |-> <<"update_decision_status">>,
   decision_lineage |-> <<"get_decision_lineage">>,
   decisions_by_content |-> <<"list_decisions_for_content">>,
   decision_conflicts |-> <<"list_decision_conflicts">>,
   decision_timeline |-> <<"get_decision_timeline">>]

Requests == ContentMethods ++ HubMethods ++ ReviewMethods ++ DecisionMethods

-----------------------------------------------------------------------------
(* Tool |-> client method. *)

ContentTools ==
  [memory_lab_content_create_id |-> "content_create_id",
   memory_lab_content_get |-> "content_get",
   get_canonical_body_verified |-> "canonical_body_get",
   list_current_state_anchors |-> "current_state_anchor_list",
   trusted_promote_current_state |-> "trusted_promote_current_state",
   set_quick_summary |-> "set_quick_summary",
   update_node_metadata |-> "update_node_metadata",
   classify_content_node |-> "set_node_type"]

HubTools ==
  [memory_lab_hub_create |-> "hub_create", memory_lab_hub_get |-> "hub_get",
   memory_lab_hub_link_content |-> "hub_link_content",
   memory_lab_edge_create |-> "edge_create", memory_lab_edge_get |-> "edge_get",
   memory_lab_edge_list |-> "edge_list", memory_lab_edge_archive |-> "edge_archive"]

QueryTools == [memory_lab_retrieval_search |-> "retrieval_search", query_memory |-> "ask"]

ReviewTools ==
  [list_hubs |-> "hub_list", update_hub |-> "hub_update", update_hub_edge |-> "edge_update", approve_inferred_edge |-> "approve_inferred_edge",
   reject_inferred_edge |-> "reject_inferred_edge"]

GraphTools ==
  [save_and_link_to_hub |-> "save_and_link_to_hub", get_graph_snapshot |-> "graph_snapshot",
   list_graph_snapshot |-> "graph_snapshot", load_graph_node_full |-> "graph_node_full",
   search_graph_preview |-> "graph_search_preview",
   create_decision_memory |-> "decision_create"]

DecisionTools ==
  [explain_decision |-> "decision_get", list_decisions |-> "decision_list",
   update_decision_status |-> "decision_update_status",
   get_decision_lineage |-> "decision_lineage",
   list_decisions_for_content |-> "decisions_by_content",
   list_decision_conflicts |-> "decision_conflicts",
   get_decision_timeline |-> "decision_timeline"]

Method == ContentTools ++ HubTools ++ QueryTools ++ ReviewTools ++ GraphTools ++ DecisionTools

(* APPROVED_TOOLS, but for the liveness check. *)
ApprovedTools == DOMAIN Method

=============================================================================
