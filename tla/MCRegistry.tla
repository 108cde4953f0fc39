------------------------------ MODULE MCRegistry ------------------------------
(***************************************************************************)
(* Registry with two batches that collide, one Freeze and one reader.      *)
(***************************************************************************)
EXTENDS Registry

CONSTANTS orders, users, clone, alias, broken, nil, a, b, h, r

MCRoles == {"support"}

D(id, name, need, roles) ==
  [id |-> id, name |-> name, described |-> TRUE, nameOK |-> TRUE, risk |-> "R1",
   readOnly |-> TRUE, need |-> need, roles |-> roles, schemas |-> TRUE]

\* clone has the ID of orders, alias its name; broken may write
MCItem == {orders, users, clone, alias, broken}
MCDesc ==
  [i \in MCItem |->
     CASE i = orders -> D(1, 2, "", {"support"})
       [] i = users -> D(2, 1, "user", {})
       [] i = clone -> D(1, 3, "any", {})
       [] i = alias -> D(3, 2, "service", {})
       [] i = broken -> [D(4, 4, "any", {}) EXCEPT !.readOnly = FALSE]]

\* A user who may see orders and users, and a service that may see neither
MCPrincipals ==
  {[subject |-> "user", tenant |-> "t", user |-> "u", client |-> "", roles |-> {"support"}],
   [subject |-> "service", tenant |-> "t", user |-> "", client |-> "c", roles |-> {}]}

MCBatches == {<<orders, users>>, <<alias, clone>>, <<users, nil>>, <<clone, broken, users>>}

MCRegistrars == {a, b}
MCFreezers == {h}
MCReaders == {r}
===============================================================================
