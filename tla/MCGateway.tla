------------------------------- MODULE MCGateway -------------------------------
(***************************************************************************)
(* Gateway with one client, started in every way for a tool of which users *)
(* with a role may make use, an open one and one nobody registered, and    *)
(* with rights that come and go.                                           *)
(***************************************************************************)
EXTENDS Gateway

CONSTANT none

MC_Roles == {"support"}

User(roles) ==
  [subject |-> "user", tenant |-> "t", user |-> "u", client |-> "", roles |-> roles]
Service ==
  [subject |-> "service", tenant |-> "t", user |-> "", client |-> "c", roles |-> {"support"}]

D(id, need, roles) ==
  [id |-> id, name |-> id, described |-> TRUE, nameOK |-> TRUE, risk |-> "R1",
   readOnly |-> TRUE, need |-> need, roles |-> roles, schemas |-> TRUE]

MC_Table == [n \in {1, 2} |-> IF n = 1 THEN D(1, "user", {"support"}) ELSE D(2, "", {})]
MC_Holders == {User({"support"}), User({}), Service}
MC_Configs == [action : {"flow", "discover", "list", "call"}, tool : {1, 2, 3}]
MC_Requests == [principal : MC_Holders, tool : {1, 2, 3}]
MC_HandlerErrors == {{"error"}, {"error", "forbidden"}, {"error", "deadline"}}
MC_VersionSets == {{"2026-07-28", "2025-06-18"}, {"2025-06-18"}}
===============================================================================
