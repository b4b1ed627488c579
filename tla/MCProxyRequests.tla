--------------------------- MODULE MCProxyRequests ---------------------------
(***************************************************************************)
(* Instances of ProxyRequests for TLC: an audited administration route, a  *)
(* route that needs a token, ones where a token is optional but a role or  *)
(* a scope is not, and a public one that the others shadow.                *)
(***************************************************************************)
EXTENDS ProxyRequests, TLC

CONSTANTS admin, viewer

MCUsers == {admin, viewer}

MCRolesOf == (admin :> {"admin"}) @@ (viewer :> {"viewer"})

MCScopesOf == (admin :> {"write"}) @@ (viewer :> {"read"})

MCPaths == {"admin", "users", "reports", "search", "public", "other"}

Entry(paths, auth, roles, scope, flagged) ==
    [covers |-> paths, auth_required |-> auth, allowed_roles |-> roles,
     required_scope |-> scope, audit_allowed_requests |-> flagged]

MCRouteTable ==
    << Entry({"admin"}, TRUE, {"admin"}, Nobody, TRUE),
       Entry({"users"}, TRUE, {}, Nobody, FALSE),
       Entry({"reports"}, FALSE, {"admin"}, Nobody, FALSE),
       Entry({"search"}, FALSE, {}, "read", TRUE),
       Entry({"admin", "reports", "public"}, FALSE, {}, Nobody, FALSE) >>
=============================================================================
