---------------------------- MODULE MCRepository ----------------------------
(***************************************************************************)
(* Instances of Repository for TLC.  The node runs are about enrolment and *)
(* the auth role on a new and on a settled registry, the app runs about    *)
(* applications of two settled nodes.                                      *)
(***************************************************************************)
EXTENDS RegistryGuarantees, TLC

Symmetry == Permutations(Calls)

\* buildApp joins the two slugs with "--", which slugs may contain: one host
\* has two readings.
MCHostname(a, n) == IF <<a, n>> = <<"web--y", "x">> THEN <<"web", "y--x">> ELSE <<a, n>>

\* Node 3 comes with the name of node 1; 1 and 2 compete for the auth role.
NodeOps ==
  {[kind |-> "register", node |-> 3, slug |-> "x"],
   [kind |-> "claim", node |-> 1],
   [kind |-> "claim", node |-> 2],
   [kind |-> "transfer", expected |-> 1, node |-> 2],
   [kind |-> "transfer", expected |-> 2, node |-> 1],
   [kind |-> "transfer", expected |-> 1, node |-> None]}

\* Nodes 1 and 2 registered, node 1 with the auth role.
TwoNodes ==
  [EmptyRegistry EXCEPT
     !.revision = 3, !.owner = 1, !.auth = {1},
     !.nodes = [n \in Nodes |->
                  CASE n = 1 -> "x" [] n = 2 -> "y--x" [] OTHER -> None]]

NodeSeeds == {None, TwoNodes}

NewStore == {None}

\* The race for a new store: nodes 1 and 3 come with the same name.
FirstOps ==
  {[kind |-> "register", node |-> 1, slug |-> "x"],
   [kind |-> "register", node |-> 3, slug |-> "x"]}

\* Two nodes with names of their own.
TwoFirstOps ==
  {[kind |-> "register", node |-> 1, slug |-> "x"],
   [kind |-> "register", node |-> 2, slug |-> "y--x"]}

Whole(a, n, auth) == [host |-> MCHostname(a, n), shape |-> "whole", auth |-> auth]

Input(slug, node, routes) ==
  [wellFormed |-> TRUE, node |-> node, slug |-> slug, routes |-> routes,
   grant |-> None, enabled |-> None]

\* Application p of node 1, disabled, granted to u.
OneApp ==
  [TwoNodes EXCEPT
     !.revision = 4,
     !.apps = [a \in AppIds |->
       IF a # "p" THEN None
       ELSE [node |-> 1, slug |-> "web", host |-> MCHostname("web", "x"),
             routes |-> {Whole("web", "x", "browser")},
             grant |-> {"u"}, enabled |-> FALSE, generation |-> 1]]]

AppSeeds == {OneApp}

\* Two creations that clash with each other by host, two that clash with p by
\* name or are never valid, updates of p that rename it, move it to where r
\* wants to be or give a rule twice, and deletes.
AppOps ==
  {[kind |-> "create", app |-> "q", input |-> Input("web--y", 1, << >>)],
   [kind |-> "create", app |-> "r", input |-> Input("web", 2, << >>)],
   [kind |-> "create", app |-> "r", input |-> Input("web", 1, << >>)],
   [kind |-> "create", app |-> "r", input |-> Input("t", 1, << >>)],
   [kind |-> "update", app |-> "p", generation |-> 1,
    input |-> Input("docs", None, << >>)],
   [kind |-> "update", app |-> "p", generation |-> 1,
    input |-> Input("web", 2, << Whole("web", "y--x", "upstream") >>)],
   [kind |-> "update", app |-> "p", generation |-> 2,
    input |-> Input("web", None,
                << Whole("web", "x", "browser"), Whole("web", "x", "upstream") >>)],
   [kind |-> "update", app |-> "p", generation |-> 2,
    input |-> Input("web", 1, << >>)],
   [kind |-> "delete", app |-> "p", generation |-> 1],
   [kind |-> "delete", app |-> "q", generation |-> 1]}

\* The instances meet what the theorem about the content asks for.
ASSUME ContentHypotheses == OneNamePerNode /\ SoundSeeds

=============================================================================
