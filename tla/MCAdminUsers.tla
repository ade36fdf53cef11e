---------------------------- MODULE MCAdminUsers ----------------------------
(* Model-checking instance of AdminUsers: "eve" is part of "anneve".       *)
EXTENDS AdminUsers, TLC

MCNames == <<"anneve", "eve">>
MCWithin == {<<"anneve", "anneve">>, <<"eve", "eve">>, <<"eve", "anneve">>}
MCEnv == [secret |-> TRUE, issuer |-> "realm", home |-> "paderborn"]

\* A token of the realm, and one of the development login.
Realm(roles, town) ==
    [alg |-> "RS256", signed |-> TRUE, expired |-> FALSE, issuer |-> "realm",
     sub |-> TRUE, roles |-> roles, town |-> town]
Dev(roles) == [Realm(roles, None) EXCEPT !.alg = "HS256", !.issuer = None]

MCAdmin == {[token |-> Dev({"system_admin"}), namespace |-> None]}
MCCredentials ==
    MCAdmin \cup
    {[token |-> Realm({"readonly_auditor"}, "paderborn"), namespace |-> "paderborn"],
     [token |-> Realm({"system_admin"}, "elsewhere"), namespace |-> None],
     [token |-> Realm({"staff"}, "paderborn"), namespace |-> None],
     [token |-> [Realm({"system_admin"}, None) EXCEPT !.expired = TRUE], namespace |-> None],
     [token |-> [Realm({"system_admin"}, None) EXCEPT !.sub = FALSE], namespace |-> None]}
=============================================================================
