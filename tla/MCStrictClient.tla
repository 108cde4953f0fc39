---------------------------- MODULE MCStrictClient ----------------------------
(* Instance of StrictClient: a handful of header combinations, with every     *)
(* body around the limits.                                                    *)
EXTENDS StrictClient

MC_Configured == {NilList, <<>>, <<V25>>, <<V26>>, <<V25, V26>>, <<V25, V25>>, <<"2024-11-05">>}

Headers(v, m, n, s) ==
  [http |-> "POST", versions |-> v, methods |-> m, names |-> n, session |-> s]

MC_Headers ==
  {Headers(v, <<m>>, <<>>, FALSE) :
     v \in {<<>>, <<V25>>, <<V26>>}, m \in {"tools/list", "ping", "blank", "long"}}
  \union {Headers(<<V26>>, <<"tools/call">>, n, FALSE) :
     n \in {<<>>, <<"add">>, <<"long">>, <<"add", "add">>}}
  \union {Headers(v, <<>>, <<>>, FALSE) :
     v \in {<<>>, <<V25>>, <<V26>>, <<"2024-11-05">>, <<V26, V25>>}}
  \union {Headers(<<V26>>, <<"tools/list">>, <<>>, TRUE),
          [Headers(<<V26>>, <<"tools/list">>, <<>>, FALSE) EXCEPT !.http = "GET"]}

MC_Bodies ==
  {[bytes |-> <<1, 2, 3>>, json |-> TRUE, method |-> m, version |-> v] :
     m \in {"initialize", "tools/call", "logging/setLevel", ""}, v \in {"", V25, V26}}
  \union {[bytes |-> b, json |-> j, method |-> "initialize", version |-> V25] :
     b \in {<<>>, <<1, 2>>, <<1, 2, 3, 4>>, <<1, 2, 3, 4, 5>>}, j \in BOOLEAN}

MC_Requests == {h @@ b : h \in MC_Headers, b \in MC_Bodies}

MC_Limits == {-1, 0, 3, 4}

MC_Replies == {<<>>, <<7, 8>>, <<7, 8, 9>>, <<7, 8, 9, 10>>}
===============================================================================
