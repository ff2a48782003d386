-------------------------- MODULE MCBrokerSession --------------------------
(***************************************************************************)
(* Two threads of the service, one request at a time, and addresses for    *)
(* the service's object, the shared one and the one being created.         *)
(***************************************************************************)
EXTENDS BrokerSession

CONSTANTS a1, a2, a3, t1, t2, w1

ThreeAuths == {a1, a2, a3}
TwoTasks == {t1, t2}
OneRequest == {w1}

\* Tokens that end early; failing logins and aged sessions; sessions cleared while
\* they are used; the synchronisation of orders, which forces a new session.
Scenarios == {{"busy", "page", "revoke"}, {"page", "revoke", "restart"},
              {"busy", "revoke", "loginFails"}, {"page", "age", "loginFails"},
              {"page", "revoke", "clear"}, {"busy", "sync"}}
=============================================================================
