---------------------------- MODULE MCOutputPolicy ----------------------------
(***************************************************************************)
(* OutputPolicy over every document of depth two with a few names, and     *)
(* with arrays of objects inside.                                          *)
(***************************************************************************)
EXTENDS OutputPolicy

N(words, spelled) == [words |-> words, spelled |-> spelled]

Id == N(<<"id">>, "id")
Token == N(<<"token">>, "Token")
ApiKey == N(<<"x", "api", "key">>, "X-Api-Key")
Tokens == N(<<"tokens">>, "tokens")
Element(i) == N(<<>>, i)

Root(kind) == (<<>> :> kind)

\* The document of this kind with the documents parts[step] as its entries
Node(kind, parts) ==
  LET below(s) == [p \in {<<s>> \o q : q \in DOMAIN parts[s]} |-> parts[s][Tail(p)]]
  IN FoldLeft(LAMBDA d, s : d @@ below(s), Root(kind), SetToSeq(DOMAIN parts))

\* All functions from a part of S to T
Parts(S, T) == UNION {[D -> T] : D \in SUBSET S}

Leaves == {Root("scalar"), Root("big")}
Flat == {Node("object", f) : f \in Parts({Id, ApiKey}, Leaves)}
Arrays == {Node("array", f) : f \in Parts({Element("0")}, Leaves \union Flat)}
Inner == Leaves \union Flat \union Arrays

MC_Values ==
  Inner
  \union {Node("object", f) : f \in Parts({Tokens, Token}, Inner)}
  \union {Node("array", [s \in {Element("0"), Element("1")} |->
                           IF s = Element("0") THEN d ELSE Node("object", Token :> d)]) : d \in Inner}

MC_WhiteLists == {{}, {Id}, {Tokens, Token}, {Token}}
===============================================================================
