------------------------------- MODULE Access -------------------------------
(***************************************************************************)
(* Who may call an endpoint of the FastAPI services: the token check of    *)
(* backend/shared/auth.py once a signing key has been found (JwksCache     *)
(* models how), the role gate require_roles, and the permission table of   *)
(* admin-api/auth.py that the admin endpoints consult a second time.       *)
(*                                                                         *)
(* A token is [alg, signed, expired, issuer, sub, roles, town]: `signed'   *)
(* says that the signature verifies, `sub' that the claim is there.  A     *)
(* header or a claim that is absent is None.  env is the environment of    *)
(* the process: [secret, issuer, home], secret FALSE if JWT_SECRET is not  *)
(* set.                                                                    *)
(***************************************************************************)
EXTENDS Naturals

None == "none"
NoToken == [alg |-> None]

\* auth.py:74-131.  Only errors of jwt.decode become a 401: a token whose
\* header cannot be read, or without a sub, ends in an unhandled exception.
\* The issuer is not looked at in development tokens (HS256).
Decoded(token, env) ==
    CASE token.alg = "garbled" -> 500
      [] token.alg = "HS256" /\ ~env.secret -> 401
      [] ~token.signed \/ token.expired -> 401
      [] token.alg = "RS256" /\ env.issuer # "" /\ token.issuer # env.issuer -> 401
      [] ~token.sub -> 500
      [] OTHER -> 200

\* auth.py:133-142: a token without municipality belongs to this town.
Town(token, env) == IF token.town = None THEN env.home ELSE token.town

\* auth.py:160: an absent or empty X-Namespace asks for this town.
Asked(namespace, env) == IF namespace \in {None, ""} THEN env.home ELSE namespace

\* auth.py:144-165.
RequireRoles(allowed, token, namespace, env) ==
    IF token = NoToken THEN 401
    ELSE IF Decoded(token, env) # 200 THEN Decoded(token, env)
    ELSE IF allowed \cap token.roles = {} THEN 403
    ELSE IF Town(token, env) # Asked(namespace, env) THEN 403
    ELSE 200

-----------------------------------------------------------------------------
(* The permission table and the endpoints of admin-api.                    *)

Roles == {"citizen", "staff", "document_admin", "system_admin", "readonly_auditor"}

RolePermissions ==
    [citizen |-> {"chat:query"},
     staff |-> {"chat:query", "documents:list", "audit:view"},
     document_admin |-> {"chat:query", "documents:list", "documents:write", "audit:view"},
     system_admin |-> {"chat:query", "documents:list", "documents:write", "audit:view",
                       "users:write", "users:read"},
     readonly_auditor |-> {"audit:view", "users:read"}]

\* main.py:79-84; a role the table does not know permits nothing.
EnsurePermission(roles, permission) ==
    \E r \in roles \cap DOMAIN RolePermissions : permission \in RolePermissions[r]

\* The decorators of main.py:129, 154, 175, 207 and 251 and the permission each
\* handler asks for in its first line.
Endpoint ==
    [audit |-> [roles |-> Roles \ {"citizen"}, permission |-> "audit:view"],
     summary |-> [roles |-> Roles \ {"citizen"}, permission |-> "audit:view"],
     list |-> [roles |-> {"system_admin", "readonly_auditor"}, permission |-> "users:read"],
     create |-> [roles |-> {"system_admin"}, permission |-> "users:write"],
     delete |-> [roles |-> {"system_admin"}, permission |-> "users:write"]]

\* The answer of the two gates together: 200 lets the handler run on.
Admitted(endpoint, token, namespace, env) ==
    LET first == RequireRoles(Endpoint[endpoint].roles, token, namespace, env) IN
    IF first = 200 /\ ~EnsurePermission(token.roles, Endpoint[endpoint].permission)
    THEN 403 ELSE first
=============================================================================
