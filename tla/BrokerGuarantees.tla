-------------------------- MODULE BrokerGuarantees --------------------------
(***************************************************************************)
(* What the broker promises to operators and nodes.                        *)
(***************************************************************************)
EXTENDS Broker

Steps ==
  {"idle", "waiting", "node_tunnel", "terminal_ingress", "terminal_record",
   "node_row", "portal_tunnel", "portal_ingress", "portal_record", "drop",
   "ingress", "records", "source_ingress", "destination_ingress",
   "auth_record", "adopt_record", "answer", "done"}

EnrollRefusals ==
  {"invalid_token", "wrong_node", "token_used", "token_expired", "node_id_exists"}

Answers ==
  EnrollRefusals \cup {"ready", "failed", "lost", "node_exists", "unauthorized",
                       "auth_owner_exists", "owner_conflict", "dns_conflict"}

ASSUME NoAnswerYet == None \notin Answers

\* The unique indexes on node_id and hostname.
UniqueIds(ids) ==
  \A m, n \in Nodes : ids[m] = ids[n] /\ ids[m] # None => m = n

UniqueHosts(apps) ==
  \A r, s \in apps : Hostname(r.app, r.node) = Hostname(s.app, s.node) => r = s

\* Every variable has a value of its kind, the rows of the tables obey the
\* unique indexes, and the queue holds the calls that have begun and not ended.
TypeOK ==
  /\ nodes \in [Nodes -> Ids \cup {None}]
  /\ UniqueIds(nodes)
  /\ owner \in Nodes \cup {None}
  /\ tokens \in [Tokens -> Token \cup {None}]
  /\ rows \subseteq Row
  /\ UniqueHosts(rows)
  /\ ingress \in [Tunnels -> {None} \cup SUBSET Hosts]
  /\ dns \in [Hosts -> Record]
  /\ queue \in Seq(Calls)
  /\ \A i, j \in DOMAIN queue : queue[i] = queue[j] => i = j
  /\ \A c \in Calls : (\E i \in DOMAIN queue : queue[i] = c) <=> pc[c] \notin {"idle", "done"}
  /\ pc \in [Calls -> Steps]
  /\ req \in [Calls -> Request \cup {None}]
  /\ left \in [Calls -> SUBSET Hosts]
  /\ result \in [Calls -> Answers \cup {None}]
  /\ faults \in 0 .. MaxFaults
  /\ interrupted \in (Nodes \X Nodes) \cup {None}

Quiet == queue = << >>

\* Slugs may contain "--": a host may be read as another app of another node,
\* or as a terminal.  The table keeps the row of whoever came first.
Unambiguous(a, n) ==
  /\ \A b \in AppNames, m \in Nodes :
       Hostname(b, m) = Hostname(a, n) => b = a /\ m = n
  /\ \A m \in Nodes : Terminal(m) # Hostname(a, n)

-----------------------------------------------------------------------------
(* Records and tables.                                                     *)

\* A record made for an app has its row in the table, whatever request failed
\* and whenever the object stopped: a later syncApps finds every record it has
\* to delete.
RowsFor(zone, apps) ==
  \A n \in Nodes, a \in AppNames :
    Unambiguous(a, n) /\ zone[Hostname(a, n)] = n => [node |-> n, app |-> a] \in apps

RecordsHaveRows == RowsFor(dns, rows)

\* "Normal enrollment never overwrites unmanaged DNS" (broker/README.md), and a
\* node's request deletes no record but its own: a record that is there changes
\* only for the node it points to, by syncApps, or for the operator, on the
\* infrastructure hosts.
OnlyOwnRecords ==
  [][\A h \in Hosts : dns[h] # None /\ dns'[h] # dns[h] =>
       LET r == req[Head(queue)] IN
         \/ r.kind = "sync" /\ dns[h] = r.node /\ dns'[h] = None
         \/ r.kind \in {"transfer", "adopt"} /\ h \in {AuthHost, PortalHost}]_vars

AppRouted(n, a) == Unambiguous(a, n) =>
  dns[Hostname(a, n)] = n /\ Hostname(a, n) \in ingress[n]

AppGone(n, a) == Unambiguous(a, n) =>
  dns[Hostname(a, n)] # n /\ Hostname(a, n) \notin ingress[n]

AppsRouted(n, apps) ==
  (\A a \in apps : AppRouted(n, a)) /\ (\A a \in AppNames \ apps : AppGone(n, a))

AuthRouted(n) == owner = n /\ dns[AuthHost] = n /\ AuthHost \in ingress[n]

\* "ready" is said only when tables, tunnels and records agree with the
\* request: syncApps leaves exactly the apps it was given, a transfer leaves
\* auth with the destination and out of the source's tunnel.
ReadyMeansRouted ==
  [][\A c \in Calls : result'[c] = "ready" /\ result[c] = None =>
       LET r == req[c] IN
         /\ r.kind = "sync" => AppsRouted(r.node, r.apps)
         /\ r.kind = "app" => AppRouted(r.node, r.app)
         /\ r.kind = "auth" => AuthRouted(r.node)
         /\ r.kind = "transfer" =>
              /\ AuthRouted(r.destination)
              /\ r.source # r.destination => AuthHost \notin ingress[r.source]]_vars

-----------------------------------------------------------------------------
(* Moving auth.                                                            *)

\* "retry the SAME expected/destination pair to finish interrupted work, or
\* roll back" (docs/mbp-m1-agent-prompt.md): wherever an admitted transfer
\* stopped, and whatever other requests came after it, the pair and its reverse
\* are still admitted.
TransferRecoverable ==
  Quiet /\ interrupted # None =>
    /\ TransferVerdict(interrupted[1], interrupted[2]) = "admitted"
    /\ TransferVerdict(interrupted[2], interrupted[1]) = "admitted"

\* Unless a transfer was interrupted or the operator pointed the auth record
\* elsewhere, a record that points to a node points to the owner, and the
\* owner's tunnel serves auth.
AuthServedByOwner ==
  /\ Quiet
  /\ interrupted = None
  /\ dns[AuthHost] \in Nodes
  /\ \A c \in Calls : req[c] # None /\ req[c].kind = "adopt" => req[c].host # AuthHost
  => AuthRouted(dns[AuthHost])

-----------------------------------------------------------------------------
(* Enrollment.                                                             *)

EnrolledBy(c) == req[c].kind = "enroll" /\ result[c] = "ready"

\* "single-use node enrollment tokens" (broker/README.md): credentials are
\* given out under a name only to the id that has it, against a token issued
\* for that name which only that id ever used.
TokensAreSingleUse ==
  \A c \in Calls : req[c] # None /\ EnrolledBy(c) =>
    /\ nodes[req[c].node] = req[c].id
    /\ tokens[req[c].token].node = req[c].node
    /\ tokens[req[c].token].claimed = req[c].id

\* A node whose enrollment stopped half way may come back with the same token,
\* expired or not, as long as nobody else has got its name and it has got no
\* other.
ClaimSurvives ==
  [][\A c \in Calls :
       /\ result'[c] \in EnrollRefusals
       /\ result[c] = None
       /\ tokens[req[c].token] # None
       /\ tokens[req[c].token].claimed = req[c].id
       /\ tokens[req[c].token].node = req[c].node
       => \/ nodes[req[c].node] \notin {None, req[c].id}
          \/ \E m \in Nodes \ {req[c].node} : nodes[m] = req[c].id]_vars

\* An enrolled node's terminal has its record and its tunnel serves it, also
\* after failures of later requests and while apps come and go.
TerminalsServed(ids, zone, tunnels) ==
  \A n \in Nodes : ids[n] # None =>
    zone[Terminal(n)] = n /\ tunnels[n] # None /\ Terminal(n) \in tunnels[n]

EnrolledNodesAreServed == TerminalsServed(nodes, dns, ingress)

-----------------------------------------------------------------------------
\* The tables, tunnels and records an instance starts from are ones the broker
\* leaves when nothing is under way.
ASSUME SoundStarts ==
  \A w \in Starts :
    /\ UniqueIds(w.nodes)
    /\ UniqueHosts(w.rows)
    /\ w.owner # None => w.nodes[w.owner] # None
    /\ RowsFor(w.dns, w.rows)
    /\ TerminalsServed(w.nodes, w.dns, w.ingress)
    /\ w.dns[AuthHost] \in Nodes =>
         w.owner = w.dns[AuthHost] /\ AuthHost \in w.ingress[w.owner]

\* A failed handler does not block those behind it: every request is answered,
\* or lost with the object.
EveryRequestEnds == \A c \in Calls : pc[c] = "waiting" ~> pc[c] = "done"

=============================================================================
