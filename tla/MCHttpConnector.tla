--------------------------- MODULE MCHttpConnector ---------------------------
(***************************************************************************)
(* Two connectors for two services, built in either order from one client  *)
(* or from their own, and one call.                                        *)
(***************************************************************************)
EXTENDS HttpConnector

U(scheme, host, port, user, path) ==
  [scheme |-> scheme, host |-> host, port |-> port, user |-> user, path |-> path]

Api == U("http", "a", 0, FALSE, <<"api", "v0", "..", ".", "v1">>)
Other == U("https", "b", 8443, FALSE, <<>>)

C(base, timeout, limit, client) ==
  [base |-> base, timeout |-> timeout, limit |-> limit, client |-> client]

\* The first service with default and with set limits, the other with the
\* largest limit but one, and base URLs that New refuses
MC_Configs ==
  {C(Api, 0, 0, FALSE), C(Api, 2, 2, TRUE), C(Other, -1, 4, TRUE),
   C([Api EXCEPT !.scheme = "ftp"], 0, 0, FALSE),
   C([Api EXCEPT !.user = TRUE], 0, 0, FALSE), C([Api EXCEPT !.host = ""], 0, 0, TRUE)}

MC_Clients == {[timeout |-> 0, policy |-> <<>>], [timeout |-> 3, policy |-> <<Caller>>]}

Q(path, absolute, encodes) == [path |-> path, absolute |-> absolute, encodes |-> encodes]

MC_Requests ==
  {Q(<<"x">>, FALSE, TRUE), Q(<<"", ".">>, FALSE, TRUE), Q(<<"x", "..", "..", "y">>, FALSE, TRUE),
   Q(<<"a\\..">>, FALSE, TRUE), Q(<<"b">>, TRUE, TRUE), Q(<<"x">>, FALSE, FALSE)}

\* Inside either origin, with the port spelled out, and next to the first
MC_Locations ==
  {U("http", "a", 80, FALSE, <<"l">>), U("https", "b", 8443, FALSE, <<"l">>),
   U("http", "a", 81, FALSE, <<"l">>), U("https", "a", 0, FALSE, <<"l">>),
   U("http", "a", 0, TRUE, <<"l">>)}

-------------------------------------------------------------------------------
\* path.Clean as it works: from left to right, a ".." takes the last name back
Cleaned(p) ==
  FoldLeft(LAMBDA q, s :
             IF s \in {"", "."} THEN q
             ELSE IF s = ".." THEN SubSeq(q, 1, Len(q) - 1)
             ELSE Append(q, s),
           <<>>, p)

\* Joined, which says what stays, is what path.Join leaves of every path of up
\* to seven segments.
ASSUME JoinedAsFolded ==
  \A n \in 0..7 : \A p \in [1..n -> {"", "..", "a", "b"}] :
    Joined(SubSeq(p, 1, n \div 2), SubSeq(p, n \div 2 + 1, n)) = Cleaned(p)
===============================================================================
