------------------------------ MODULE MCExecution ------------------------------
(***************************************************************************)
(* Execution with a tool for users who hold a role, a tool for anybody,    *)
(* and a name nobody registered.                                           *)
(***************************************************************************)
EXTENDS Execution

CONSTANTS c1, c2, none

MCRoles == {"support"}

User(roles) ==
  [subject |-> "user", tenant |-> "t", user |-> "u", client |-> "", roles |-> roles]
Service ==
  [subject |-> "service", tenant |-> "t", user |-> "", client |-> "c", roles |-> {"support"}]
NoTenant == [User({"support"}) EXCEPT !.tenant = ""]

D(id, need, roles) ==
  [id |-> id, name |-> id, described |-> TRUE, nameOK |-> TRUE, risk |-> "R1",
   readOnly |-> TRUE, need |-> need, roles |-> roles, schemas |-> TRUE]

MCTable == [n \in {1, 2} |-> IF n = 1 THEN D(1, "user", {"support"}) ELSE D(2, "", {})]
MCHeeding == {1}

\* User with and without the role, service and incomplete user on the first
\* tool; the open tool, whose handler heeds no context; an unknown name
MCRequests ==
  {[principal |-> p, tool |-> 1] : p \in {User({"support"}), User({}), Service, NoTenant}}
    \union {[principal |-> Service, tool |-> n] : n \in {2, 3}}

\* A plain error, every sentinel alone, and two in one chain
MCHandlerErrors ==
  {{"error"}, {"error", "not_found", "forbidden"}}
    \union {{"error", s} : s \in Sentinels}

MCCalls == {c1, c2}
OneCall == {c1}
===============================================================================
