------------------------------ MODULE MCBroker ------------------------------
(***************************************************************************)
(* Instances of Broker for TLC: hostnames of two nodes, the auth hostname  *)
(* of three, and enrollment.                                               *)
(***************************************************************************)
EXTENDS BrokerGuarantees, TLC

Symmetry == Permutations(Calls)

MCTerminal(n) == <<"t", n>>
MCAuthHost == <<"auth">>
MCPortalHost == <<"apps">>

\* "web--y" of "x" and "web" of "y--x" are one host; "t--y" of "x" is the
\* terminal of "y--x".
MCHostname(a, n) ==
  CASE <<a, n>> = <<"web--y", "x">> -> <<"web", "y--x">>
    [] <<a, n>> = <<"t--y", "x">> -> <<"t", "y--x">>
    [] OTHER -> <<a, n>>

NoTokens == [t \in Tokens |-> None]

\* The named nodes are enrolled, nothing else was asked for.
Enrolled(ids) ==
  [nodes |-> ids,
   owner |-> None,
   tokens |-> NoTokens,
   rows |-> {},
   ingress |-> [t \in Tunnels |->
                  IF t = Portal THEN {PortalHost}
                  ELSE IF ids[t] = None THEN None ELSE {Terminal(t)}],
   dns |-> [h \in Hosts |->
              IF h = PortalHost THEN Portal
              ELSE IF \E n \in Nodes : ids[n] # None /\ h = Terminal(n)
                THEN CHOOSE n \in Nodes : h = Terminal(n)
                ELSE None]]

WithRecord(w, host, record) ==
  [w EXCEPT !.dns = [h \in Hosts |-> IF h = host THEN record ELSE @[h]]]

WithAuth(w, n) ==
  [WithRecord(w, AuthHost, n)
     EXCEPT !.owner = n,
            !.ingress = [t \in Tunnels |-> IF t = n THEN @[t] \cup {AuthHost} ELSE @[t]]]

EveryNode == Enrolled([n \in Nodes |-> n])

\* Somebody else's record may be in the way of an app.
AppStarts == {EveryNode, WithRecord(EveryNode, <<"docs", "x">>, Foreign)}

AppRequests ==
  {[kind |-> "sync", node |-> "x", apps |-> A] :
     A \in {{}, {"docs"}, {"web--y"}, {"docs", "web--y"}}}
  \cup {[kind |-> "sync", node |-> "y--x", apps |-> A] :
     A \in {{}, {"web"}, {"docs", "web"}}}
  \cup {[kind |-> "app", node |-> "y--x", app |-> "docs"]}

\* Auth not claimed yet, with or without an old record, or served by node a.
AuthStarts ==
  {EveryNode,
   WithRecord(EveryNode, AuthHost, Legacy),
   WithAuth(EveryNode, "a")}

AuthRequests ==
  {[kind |-> "auth", node |-> "a"],
   [kind |-> "auth", node |-> "b"],
   [kind |-> "transfer", source |-> "a", destination |-> "b"],
   [kind |-> "transfer", source |-> "b", destination |-> "a"],
   [kind |-> "transfer", source |-> "b", destination |-> "c"],
   [kind |-> "sync", node |-> "a", apps |-> {}],
   [kind |-> "adopt", host |-> AuthHost, tunnel |-> "b"],
   [kind |-> "adopt", host |-> PortalHost, tunnel |-> Portal]}

\* Node x is there; y--x has a token, and a second one for another try.
NewNode ==
  [Enrolled([n \in Nodes |-> IF n = "x" THEN "1" ELSE None])
     EXCEPT !.tokens = [t \in Tokens |->
       IF t \notin {"t1", "t2"} THEN None
       ELSE [node |-> "y--x", claimed |-> None, expired |-> FALSE]]]

EnrollStarts == {NewNode}

EnrollRequests ==
  {[kind |-> "enroll", id |-> i, node |-> "y--x", token |-> t] :
     i \in {"2", "3"}, t \in {"t1", "t2"}}
  \cup {[kind |-> "enroll", id |-> "1", node |-> "y--x", token |-> "t1"],
        [kind |-> "enroll", id |-> "2", node |-> "x", token |-> "t1"],
        [kind |-> "enroll", id |-> "2", node |-> "y--x", token |-> "t3"],
        [kind |-> "issue", node |-> "x"],
        [kind |-> "issue", node |-> "y--x"],
        [kind |-> "sync", node |-> "x", apps |-> {"t--y"}],
        [kind |-> "sync", node |-> "x", apps |-> {}],
        [kind |-> "sync", node |-> "y--x", apps |-> {}]}

\* Every kind of request, on an enrolled and a new node.
MixedRequests ==
  EnrollRequests
  \cup {[kind |-> "app", node |-> "x", app |-> "t--y"],
        [kind |-> "app", node |-> "y--x", app |-> "web"],
        [kind |-> "sync", node |-> "x", apps |-> {"web--y"}],
        [kind |-> "auth", node |-> "x"],
        [kind |-> "auth", node |-> "y--x"],
        [kind |-> "transfer", source |-> "x", destination |-> "y--x"],
        [kind |-> "adopt", host |-> AuthHost, tunnel |-> "y--x"]}

\* ... with the old auth record, and the terminal host of the new node free or
\* taken.
MixedStarts ==
  {WithRecord(NewNode, AuthHost, Legacy),
   WithRecord(NewNode, MCTerminal("y--x"), Foreign),
   WithAuth(Enrolled([n \in Nodes |-> IF n = "x" THEN "1" ELSE "2"]), "x")}

=============================================================================
