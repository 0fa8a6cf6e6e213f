------------------------------- MODULE Broker -------------------------------
(***************************************************************************)
(* broker/src/index.ts: the one object that may edit Cloudflare tunnels    *)
(* and DNS for all nodes.  It keeps tokens, nodes and app hostnames in SQL *)
(* tables and brings the tunnels' ingress and the zone's records in line   *)
(* with them, one Cloudflare request after another.                        *)
(*                                                                         *)
(* fetch chains every request behind the one before it (`queue`), so the   *)
(* awaits inside a handler never interleave with another handler.  Nothing *)
(* undoes the steps of a handler whose Cloudflare request fails: it        *)
(* answers an error and leaves the tables, tunnels and records as they     *)
(* are.  The object may also be restarted, which drops the queue and keeps *)
(* the tables.                                                             *)
(*                                                                         *)
(* One step is one Cloudflare write with the reads that decide it, or the  *)
(* table operations between two of them.  A tunnel is named by its node:   *)
(* createTunnel finds it by that name.  Requests without valid operator or *)
(* node credentials change nothing and are left out.                       *)
(***************************************************************************)
EXTENDS Naturals, Sequences

CONSTANTS
  Calls,              \* the requests that reach the broker
  Nodes,              \* node slugs
  Ids,                \* node ids
  Tokens,             \* ids of enrollment tokens, enough for every call
  AppNames,           \* app slugs
  Hostname(_, _),     \* the host of an app of a node
  Terminal(_),        \* the host t--node
  AuthHost, PortalHost,
  Portal,             \* the shared tunnel nsl-portal
  Requests,           \* what calls may ask for
  Starts,             \* states of tables, tunnels and records to start from
  MaxFaults,          \* bound on failed Cloudflare requests and restarts
  None,
  Legacy,             \* a proxied CNAME somebody else made
  Foreign             \* any other record somebody else made

Tunnels == Nodes \cup {Portal}
Hosts == {Hostname(a, n) : a \in AppNames, n \in Nodes}
           \cup {Terminal(n) : n \in Nodes} \cup {AuthHost, PortalHost}

\* A record of the zone: the tunnel a record of the broker points to, or what
\* else is there.
Record == Tunnels \cup {None, Legacy, Foreign}

Row == [node : Nodes, app : AppNames]
Token == [node : Nodes, claimed : Ids \cup {None}, expired : BOOLEAN]

Request ==
  [kind : {"issue"}, node : Nodes]
    \cup [kind : {"enroll"}, id : Ids, node : Nodes, token : Tokens]
    \cup [kind : {"sync"}, node : Nodes, apps : SUBSET AppNames]
    \cup [kind : {"app"}, node : Nodes, app : AppNames]
    \cup [kind : {"auth"}, node : Nodes]
    \cup [kind : {"transfer"}, source : Nodes, destination : Nodes]
    \cup [kind : {"adopt"}, host : {AuthHost, PortalHost}, tunnel : Tunnels]

World ==
  [nodes : [Nodes -> Ids \cup {None}],
   owner : Nodes \cup {None},
   tokens : [Tokens -> Token \cup {None}],
   rows : SUBSET Row,
   ingress : [Tunnels -> {None} \cup SUBSET Hosts],
   dns : [Hosts -> Record]]

ASSUME KnownRequests == Requests \subseteq Request
ASSUME KnownStarts == Starts \subseteq World
ASSUME FaultBound == MaxFaults \in Nat
ASSUME NamesDiffer ==
  /\ Portal \notin Nodes
  /\ {None, Legacy, Foreign} \cap (Tunnels \cup Ids) = {}
  /\ None \notin Token \cup Request \cup (Nodes \X Nodes)
  /\ \A hosts \in SUBSET Hosts : hosts # None

\* The infrastructure hosts have no "--"; a node has one terminal t--node, and
\* the app name t is reserved for it.
ASSUME HostsDiffer ==
  /\ AuthHost # PortalHost
  /\ \A n \in Nodes : Terminal(n) \notin {AuthHost, PortalHost}
  /\ \A n \in Nodes, a \in AppNames :
       Hostname(a, n) \notin {Terminal(n), AuthHost, PortalHost}
  /\ \A m, n \in Nodes : Terminal(m) = Terminal(n) => m = n
  /\ \A n \in Nodes, a, b \in AppNames : Hostname(a, n) = Hostname(b, n) => a = b

VARIABLES
  \* the tables
  nodes,       \* the id enrolled under a name
  owner,       \* the node whose auth_owner is 1; an index allows one
  tokens,      \* enrollment_tokens
  rows,        \* apps
  \* Cloudflare
  ingress,     \* the hosts a tunnel serves, None before it exists
  dns,         \* the zone
  \* the object
  queue,       \* the calls waiting for their turn, the first being handled
  pc,          \* what a call does next
  req,         \* its request
  left,        \* the hosts it has yet to drop or to ensure
  result,      \* what it answered
  \* history
  faults,      \* faults so far
  interrupted  \* the transfer that was admitted and has not been completed

tables == <<nodes, owner, tokens, rows>>
cloudflare == <<ingress, dns>>
object == <<queue, pc, req, left, result>>
vars == <<tables, cloudflare, object, faults, interrupted>>

Init ==
  /\ \E w \in Starts :
       /\ nodes = w.nodes
       /\ owner = w.owner
       /\ tokens = w.tokens
       /\ rows = w.rows
       /\ ingress = w.ingress
       /\ dns = w.dns
  /\ queue = << >>
  /\ pc = [c \in Calls |-> "idle"]
  /\ req = [c \in Calls |-> None]
  /\ left = [c \in Calls |-> {}]
  /\ result = [c \in Calls |-> None]
  /\ faults = 0
  /\ interrupted = None

-----------------------------------------------------------------------------
(* The queue and the ways a handler goes on or ends.                       *)

Send(c, r) ==
  /\ pc[c] = "idle"
  /\ req' = [req EXCEPT ![c] = r]
  /\ pc' = [pc EXCEPT ![c] = "waiting"]
  /\ queue' = Append(queue, c)
  /\ UNCHANGED <<tables, cloudflare, left, result, faults, interrupted>>

Arrive(c) == \E r \in Requests : Send(c, r)

\* Without the queue every request is handled as it comes.
ServingAny(c) == \E i \in DOMAIN queue : queue[i] = c

Serving(c) == queue # << >> /\ Head(queue) = c

At(c, step) == Serving(c) /\ pc[c] = step

Asked(c, kind) == At(c, "waiting") /\ req[c].kind = kind

\* A handler that threw starts over and keeps its place.
RetryInPlace(c, answer) ==
  LET over == answer # "failed" IN
    /\ pc' = [pc EXCEPT ![c] = IF over THEN "done" ELSE "waiting"]
    /\ result' = [result EXCEPT ![c] = IF over THEN answer ELSE @]
    /\ queue' = IF over THEN Tail(queue) ELSE queue

Finish(c, answer) ==
  /\ pc' = [pc EXCEPT ![c] = "done"]
  /\ result' = [result EXCEPT ![c] = answer]
  /\ queue' = Tail(queue)

Continue(c, step) ==
  /\ pc' = [pc EXCEPT ![c] = step]
  /\ UNCHANGED <<queue, result>>

Fault == faults < MaxFaults /\ faults' = faults + 1

\* A Cloudflare request was performed; its answer arrives or it does not.
Performed(c, step) ==
  \/ Continue(c, step) /\ UNCHANGED faults
  \/ Finish(c, "failed") /\ Fault

\* Is the next thing c does a Cloudflare request?
AtCloudflare(c) ==
  CASE pc[c] = "waiting" -> req[c].kind \in {"transfer", "adopt"}
    [] pc[c] = "drop" -> left[c] # {}
    [] pc[c] = "answer" -> req[c].kind = "enroll"
    [] OTHER -> pc[c] # "node_row"

\* A Cloudflare request is not performed.
CloudflareFails(c) ==
  /\ Serving(c)
  /\ AtCloudflare(c)
  /\ Fault
  /\ Finish(c, "failed")
  /\ UNCHANGED <<tables, cloudflare, req, left, interrupted>>

\* The object is restarted: whoever waits gets no answer.
Restart ==
  /\ queue # << >>
  /\ Fault
  /\ LET waiting == {queue[i] : i \in DOMAIN queue} IN
       /\ pc' = [c \in Calls |-> IF c \in waiting THEN "done" ELSE pc[c]]
       /\ result' = [c \in Calls |-> IF c \in waiting THEN "lost" ELSE result[c]]
  /\ queue' = << >>
  /\ UNCHANGED <<tables, cloudflare, req, left, interrupted>>

-----------------------------------------------------------------------------
(* Cloudflare operations of several handlers.                              *)

CreateTunnel(t) ==
  ingress' = [ingress EXCEPT ![t] = IF @ = None THEN {} ELSE @]

ConfigureIngress(t, hosts) == ingress' = [ingress EXCEPT ![t] = hosts]

\* The flag auth_owner is not looked at.
ServedApps(n) ==
  {Terminal(n)} \cup {Hostname(r.app, r.node) : r \in {r \in rows : r.node = n}}

\* What configureNodeTunnel reads from the tables.
Served(n) ==
  {Terminal(n)} \cup {Hostname(r.app, r.node) : r \in {r \in rows : r.node = n}}
    \cup IF owner = n THEN {AuthHost} ELSE {}

\* A record that is there is replaced.
OverwriteDNS(c, h, t, step) ==
  dns' = [dns EXCEPT ![h] = t] /\ Performed(c, step)

EnsureDNS(c, h, t, step) ==
  \/ /\ dns[h] \in {None, t}
     /\ dns' = [dns EXCEPT ![h] = t]
     /\ Performed(c, step)
  \/ /\ dns[h] \notin {None, t}
     /\ Finish(c, "failed")
     /\ UNCHANGED <<dns, faults>>

AdoptExactDNS(c, h, t, step) ==
  \/ /\ dns[h] \in Tunnels \cup {Legacy}
     /\ dns' = [dns EXCEPT ![h] = t]
     /\ Performed(c, step)
  \/ /\ dns[h] \in {None, Foreign}
     /\ Finish(c, "failed")
     /\ UNCHANGED <<dns, faults>>

-----------------------------------------------------------------------------
(* Enrollment.                                                             *)

\* The ids randomUUID may still return.
Unissued == {t \in Tokens : tokens[t] = None}

IssueToken(c) ==
  /\ Asked(c, "issue")
  /\ LET n == req[c].node IN
       \/ /\ nodes[n] # None
          /\ Finish(c, "node_exists")
          /\ UNCHANGED tokens
       \/ /\ nodes[n] = None
          /\ Unissued # {}
          /\ tokens' = [tokens EXCEPT ![CHOOSE t \in Unissued : TRUE] =
               [node |-> n, claimed |-> None, expired |-> FALSE]]
          /\ Finish(c, "ready")
  /\ UNCHANGED <<nodes, owner, rows, cloudflare, req, left, faults, interrupted>>

Expire(t) ==
  /\ tokens[t] # None
  /\ ~tokens[t].expired
  /\ tokens' = [tokens EXCEPT ![t].expired = TRUE]
  /\ UNCHANGED <<nodes, owner, rows, cloudflare, object, faults, interrupted>>

\* An expired token is of no use to the node that claimed it either.
VerdictByTheClock(id, n, t) ==
  IF tokens[t] = None THEN "invalid_token"
  ELSE IF tokens[t].node # n THEN "wrong_node"
  ELSE IF nodes[n] # None THEN
    IF nodes[n] # id \/ tokens[t].claimed # id THEN "token_used" ELSE "enrolled"
  ELSE IF tokens[t].claimed \notin {None, id} THEN "token_used"
  ELSE IF tokens[t].expired THEN "token_expired"
  ELSE IF \E m \in Nodes : nodes[m] = id THEN "node_id_exists"
  ELSE "accepted"

\* A claimed token is good for anybody as long as the node has no row.
VerdictAfterClaim(id, n, t) ==
  IF tokens[t] = None THEN "invalid_token"
  ELSE IF tokens[t].node # n THEN "wrong_node"
  ELSE IF nodes[n] # None THEN IF nodes[n] # id THEN "token_used" ELSE "enrolled"
  ELSE IF tokens[t].claimed = None /\ tokens[t].expired THEN "token_expired"
  ELSE IF \E m \in Nodes : nodes[m] = id THEN "node_id_exists"
  ELSE "accepted"

Verdict(id, n, t) ==
  IF tokens[t] = None THEN "invalid_token"
  ELSE IF tokens[t].node # n THEN "wrong_node"
  ELSE IF nodes[n] # None THEN
    IF nodes[n] # id \/ tokens[t].claimed # id THEN "token_used" ELSE "enrolled"
  ELSE IF tokens[t].claimed \notin {None, id} THEN "token_used"
  ELSE IF tokens[t].claimed = None /\ tokens[t].expired THEN "token_expired"
  ELSE IF \E m \in Nodes : nodes[m] = id THEN "node_id_exists"
  ELSE "accepted"

Enroll(c) ==
  /\ Asked(c, "enroll")
  /\ LET id == req[c].id
         t == req[c].token
         verdict == Verdict(id, req[c].node, t) IN
       \/ /\ verdict = "accepted"
          /\ tokens' = [tokens EXCEPT ![t].claimed = IF @ = None THEN id ELSE @]
          /\ Continue(c, "node_tunnel")
       \/ /\ verdict = "enrolled"
          /\ Continue(c, "portal_tunnel")
          /\ UNCHANGED tokens
       \/ /\ verdict \notin {"accepted", "enrolled"}
          /\ Finish(c, verdict)
          /\ UNCHANGED tokens
  /\ UNCHANGED <<nodes, owner, rows, cloudflare, req, left, faults, interrupted>>

NodeTunnel(c) ==
  /\ At(c, "node_tunnel")
  /\ CreateTunnel(req[c].node)
  /\ Performed(c, "terminal_ingress")
  /\ UNCHANGED <<tables, dns, req, left, interrupted>>

TerminalIngress(c) ==
  /\ At(c, "terminal_ingress")
  /\ ConfigureIngress(req[c].node, {Terminal(req[c].node)})
  /\ Performed(c, "terminal_record")
  /\ UNCHANGED <<tables, dns, req, left, interrupted>>

\* The node is registered although its terminal host is taken.
TerminalRecordAnyway(c) ==
  /\ At(c, "terminal_record")
  /\ dns' = [dns EXCEPT ![Terminal(req[c].node)] = IF @ = None THEN req[c].node ELSE @]
  /\ Performed(c, "node_row")
  /\ UNCHANGED <<tables, ingress, req, left, interrupted>>

TerminalRecord(c) ==
  /\ At(c, "terminal_record")
  /\ EnsureDNS(c, Terminal(req[c].node), req[c].node, "node_row")
  /\ UNCHANGED <<tables, ingress, req, left, interrupted>>

NodeRow(c) ==
  /\ At(c, "node_row")
  /\ nodes' = [nodes EXCEPT ![req[c].node] = req[c].id]
  /\ Continue(c, "portal_tunnel")
  /\ UNCHANGED <<owner, tokens, rows, cloudflare, req, left, faults, interrupted>>

PortalTunnel(c) ==
  /\ At(c, "portal_tunnel")
  /\ CreateTunnel(Portal)
  /\ Performed(c, "portal_ingress")
  /\ UNCHANGED <<tables, dns, req, left, interrupted>>

PortalIngress(c) ==
  /\ At(c, "portal_ingress")
  /\ ConfigureIngress(Portal, {PortalHost})
  /\ Performed(c, "portal_record")
  /\ UNCHANGED <<tables, dns, req, left, interrupted>>

PortalRecord(c) ==
  /\ At(c, "portal_record")
  /\ EnsureDNS(c, PortalHost, Portal, "answer")
  /\ UNCHANGED <<tables, ingress, req, left, interrupted>>

-----------------------------------------------------------------------------
(* Hostnames of a node.                                                    *)

\* A table without the unique index on hosts.
InsertedAnyway(n, apps) == rows \cup {[node |-> n, app |-> a] : a \in apps}

\* INSERT OR IGNORE: the host is unique, another node may already have it.
Inserted(n, apps) ==
  rows \cup {[node |-> n, app |-> a] :
               a \in {a \in apps : \A r \in rows :
                        Hostname(r.app, r.node) # Hostname(a, n)}}

Unauthorized(c) ==
  /\ At(c, "waiting")
  /\ req[c].kind \in {"sync", "app", "auth"}
  /\ nodes[req[c].node] = None
  /\ Finish(c, "unauthorized")
  /\ UNCHANGED <<tables, cloudflare, req, left, faults, interrupted>>

SyncApps(c) ==
  /\ Asked(c, "sync")
  /\ nodes[req[c].node] # None
  /\ left' = [left EXCEPT ![c] =
       {Hostname(r.app, r.node) :
          r \in {r \in rows : r.node = req[c].node /\ r.app \notin req[c].apps}}]
  /\ Continue(c, "drop")
  /\ UNCHANGED <<tables, cloudflare, req, faults, interrupted>>

RowsWithout(n, h) == {r \in rows : r.node # n \/ Hostname(r.app, r.node) # h}

\* The row goes first.
DropRowFirst(c) ==
  /\ At(c, "drop")
  /\ \E h \in left[c] :
       LET n == req[c].node IN
         /\ rows' = RowsWithout(n, h)
         /\ \/ /\ dns' = [dns EXCEPT ![h] = IF @ = n THEN None ELSE @]
               /\ left' = [left EXCEPT ![c] = @ \ {h}]
               /\ UNCHANGED <<queue, pc, result, faults>>
            \/ Fault /\ Finish(c, "failed") /\ UNCHANGED <<dns, left>>
  /\ UNCHANGED <<nodes, owner, tokens, ingress, req, interrupted>>

\* deleteDNS, then the row.  Only a record of this node is deleted.
Drop(c) ==
  /\ At(c, "drop")
  /\ \E h \in left[c] :
       LET n == req[c].node IN
         /\ dns' = [dns EXCEPT ![h] = IF @ = n THEN None ELSE @]
         /\ \/ /\ rows' = RowsWithout(n, h)
               /\ left' = [left EXCEPT ![c] = @ \ {h}]
               /\ UNCHANGED <<queue, pc, result, faults>>
            \/ Fault /\ Finish(c, "failed") /\ UNCHANGED <<rows, left>>
  /\ UNCHANGED <<nodes, owner, tokens, ingress, req, interrupted>>

AddRows(c) ==
  /\ At(c, "drop")
  /\ left[c] = {}
  /\ rows' = Inserted(req[c].node, req[c].apps)
  /\ left' = [left EXCEPT ![c] = {Hostname(a, req[c].node) : a \in req[c].apps}]
  /\ Continue(c, "ingress")
  /\ UNCHANGED <<nodes, owner, tokens, cloudflare, req, faults, interrupted>>

ProvisionApp(c) ==
  /\ Asked(c, "app")
  /\ nodes[req[c].node] # None
  /\ rows' = Inserted(req[c].node, {req[c].app})
  /\ left' = [left EXCEPT ![c] = {Hostname(req[c].app, req[c].node)}]
  /\ Continue(c, "ingress")
  /\ UNCHANGED <<nodes, owner, tokens, cloudflare, req, faults, interrupted>>

ProvisionAuth(c) ==
  /\ Asked(c, "auth")
  /\ nodes[req[c].node] # None
  /\ \/ /\ owner \notin {None, req[c].node}
        /\ Finish(c, "auth_owner_exists")
        /\ UNCHANGED <<owner, left>>
     \/ /\ owner \in {None, req[c].node}
        /\ owner' = req[c].node
        /\ left' = [left EXCEPT ![c] = {AuthHost}]
        /\ Continue(c, "ingress")
  /\ UNCHANGED <<nodes, tokens, rows, cloudflare, req, faults, interrupted>>

NodeIngress(c) ==
  /\ At(c, "ingress")
  /\ ConfigureIngress(req[c].node, Served(req[c].node))
  /\ Performed(c, IF left[c] = {} THEN "answer" ELSE "records")
  /\ UNCHANGED <<tables, dns, req, left, interrupted>>

EnsureRecord(c) ==
  /\ At(c, "records")
  /\ \E h \in left[c] :
       /\ EnsureDNS(c, h, req[c].node,
            IF left[c] = {h} THEN "answer" ELSE "records")
       /\ left' = [left EXCEPT ![c] = @ \ {h}]
  /\ UNCHANGED <<tables, ingress, req, interrupted>>

-----------------------------------------------------------------------------
(* The auth hostname moves between nodes.                                  *)

\* Only the node that has the role now may give it away.
TransferVerdictByOwner(s, d) ==
  IF None \in {nodes[s], nodes[d], owner} \/ owner # s THEN "owner_conflict"
  ELSE IF dns[AuthHost] \notin {s, d} THEN "dns_conflict"
  ELSE "admitted"

TransferVerdict(s, d) ==
  IF None \in {nodes[s], nodes[d], owner} \/ owner \notin {s, d} THEN "owner_conflict"
  ELSE IF dns[AuthHost] \notin {s, d} THEN "dns_conflict"
  ELSE "admitted"

TransferAuth(c) ==
  /\ Asked(c, "transfer")
  /\ LET verdict == TransferVerdict(req[c].source, req[c].destination) IN
       \/ /\ verdict = "admitted"
          /\ owner' = req[c].destination
          /\ interrupted' = <<req[c].source, req[c].destination>>
          /\ Continue(c, "source_ingress")
       \/ /\ verdict # "admitted"
          /\ Finish(c, verdict)
          /\ UNCHANGED <<owner, interrupted>>
  /\ UNCHANGED <<nodes, tokens, rows, cloudflare, req, left, faults>>

SourceIngress(c) ==
  /\ At(c, "source_ingress")
  /\ ConfigureIngress(req[c].source, Served(req[c].source))
  /\ Performed(c, "destination_ingress")
  /\ UNCHANGED <<tables, dns, req, left, interrupted>>

DestinationIngress(c) ==
  /\ At(c, "destination_ingress")
  /\ ConfigureIngress(req[c].destination, Served(req[c].destination))
  /\ Performed(c, "auth_record")
  /\ UNCHANGED <<tables, dns, req, left, interrupted>>

AuthRecord(c) ==
  /\ At(c, "auth_record")
  /\ AdoptExactDNS(c, AuthHost, req[c].destination, "answer")
  /\ UNCHANGED <<tables, ingress, req, left, interrupted>>

AdoptDNS(c) ==
  /\ Asked(c, "adopt")
  /\ CreateTunnel(req[c].tunnel)
  /\ Performed(c, "adopt_record")
  /\ UNCHANGED <<tables, dns, req, left, interrupted>>

\* The operator decides where the record points: a transfer that was under
\* way is his to look after.
AdoptRecord(c) ==
  /\ At(c, "adopt_record")
  /\ AdoptExactDNS(c, req[c].host, req[c].tunnel, "answer")
  /\ interrupted' = IF req[c].host = AuthHost THEN None ELSE interrupted
  /\ UNCHANGED <<tables, ingress, req, left>>

Answer(c) ==
  /\ At(c, "answer")
  /\ Finish(c, "ready")
  /\ interrupted' = IF req[c].kind = "transfer" THEN None ELSE interrupted
  /\ UNCHANGED <<tables, cloudflare, req, left, faults>>

-----------------------------------------------------------------------------
Handle(c) ==
  \/ IssueToken(c) \/ Enroll(c) \/ NodeTunnel(c) \/ TerminalIngress(c)
  \/ TerminalRecord(c) \/ NodeRow(c) \/ PortalTunnel(c) \/ PortalIngress(c)
  \/ PortalRecord(c) \/ Unauthorized(c) \/ SyncApps(c) \/ Drop(c) \/ AddRows(c)
  \/ ProvisionApp(c) \/ ProvisionAuth(c) \/ NodeIngress(c) \/ EnsureRecord(c)
  \/ TransferAuth(c) \/ SourceIngress(c)
  \/ DestinationIngress(c) \/ AuthRecord(c) \/ AdoptDNS(c) \/ AdoptRecord(c)
  \/ Answer(c)

\* Every call of the instance was answered.
Finished == (\A c \in Calls : pc[c] = "done") /\ UNCHANGED vars

Next ==
  \/ \E c \in Calls : Arrive(c) \/ Handle(c) \/ CloudflareFails(c)
  \/ \E t \in Tokens : Expire(t)
  \/ Restart
  \/ Finished

Spec == Init /\ [][Next]_vars

\* The runtime keeps running a handler whose Cloudflare requests settle.
FairSpec == Spec /\ \A c \in Calls : WF_vars(Handle(c))

=============================================================================
