--------------------------- MODULE MCAuthentication ---------------------------
(* Instance of Authentication: four key records, three tokens, one request.   *)
(* Time runs from 1 to 4, with a key and a token that end at 3.               *)
EXTENDS Authentication

Key(id, roles, disabled, exp) ==
  [id |-> id, tenant |-> "t", client |-> "c", roles |-> roles, disabled |-> disabled, exp |-> exp]

MC_Records ==
  {Key("k", {"reader"}, FALSE, NoExpiry), Key("k", {}, FALSE, 3),
   Key("k", {"reader"}, TRUE, NoExpiry), Key("", {}, FALSE, NoExpiry)}

User(u) == [subject |-> SubjectUser, tenant |-> "t", user |-> u, client |-> "", roles |-> {}]

Token(signed, nbf, exp, u) ==
  [signed |-> signed, nbf |-> nbf, exp |-> exp, principal |-> User(u)]

MC_Claims ==
  [c \in {"a", "b", "bad"} |->
     CASE c = "a" -> Token(TRUE, 0, 3, "u")
       [] c = "b" -> Token(TRUE, 3, 4, "u")
       [] OTHER -> Token(FALSE, 0, 4, "u")]

MC_Asks ==
  {[bearer |-> b, custom |-> <<>>, subjects |-> s] :
     b \in {"a", "b", "bad"}, s \in {<<>>, <<"s">>}}
  \union {[bearer |-> None, custom |-> k, subjects |-> <<"s">>] :
     k \in {<<>>, <<"a">>, <<"b">>, <<"bad">>, <<"a", "b">>}}
  \union {[bearer |-> "a", custom |-> <<"b">>, subjects |-> <<"s">>]}

MC_Configs ==
  {[custom |-> FALSE, subject |-> TRUE, kind |-> "jwt"],
   [custom |-> FALSE, subject |-> FALSE, kind |-> "api_key"],
   [custom |-> TRUE, subject |-> TRUE, kind |-> "api_key"]}
===============================================================================
