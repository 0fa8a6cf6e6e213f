------------------------- MODULE MCRegistryProcess -------------------------
(***************************************************************************)
(* An instance of RegistryProcess for TLC: two nodes, of which the second  *)
(* has yet to register, and one application of the first.                  *)
(***************************************************************************)
EXTENDS RegistryProcess

MCHostname(a, n) == <<a, n>>
MCSlugOf(n) == IF n = 1 THEN "x" ELSE "y"

Whole(n) == [host |-> <<"web", n>>, shape |-> "whole", auth |-> "browser"]
V1Only(n) == [host |-> <<"web", n>>, shape |-> "onlyV1", auth |-> "upstream"]

MCStart ==
  [EmptyRegistry EXCEPT
     !.revision = 2,
     !.nodes = [n \in Nodes |-> IF n = 1 THEN "x" ELSE None],
     !.apps = [a \in AppIds |->
       IF a # "p" THEN None
       ELSE [node |-> 1, slug |-> "web", host |-> <<"web", "x">>,
             routes |-> {Whole("x")}, grant |-> {"u"}, enabled |-> TRUE,
             generation |-> 1]]]

Input(node, paths, enabled) ==
  [wellFormed |-> TRUE, node |-> node, slug |-> "web", routes |-> paths,
   grant |-> None, enabled |-> enabled]

R(kind, api, source, at, app, input) ==
  [kind |-> kind, api |-> api, source |-> source, at |-> at, app |-> app,
   input |-> input]

\* An administrator moves or splits p.
AdminRequests ==
  {R("update", "v2", "proxy", 1, "p", Input(2, << >>, TRUE)),
   R("update", "v2", "proxy", 1, "p", Input(None, <<Whole("x"), V1Only("x")>>, TRUE))}

\* The nodes' own tokens edit and delete p and create q; v1 clients edit and
\* delete p.
OtherRequests ==
  {R("update", "v2", "node", 1, "p", Input(None, << >>, FALSE)),
   R("delete", "v2", "node", 1, "p", None),
   R("create", "v2", "node", 2, "q", Input(None, << >>, None)),
   R("create", "v2", "node", 2, "q", Input(1, << >>, None)),
   R("update", "v1", "proxy", 2, "p", Input(None, << >>, None)),
   R("delete", "v1", "node", 1, "p", None)}

MCRequests(c) == IF c = "admin" THEN AdminRequests ELSE OtherRequests

=============================================================================
