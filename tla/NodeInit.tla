------------------------------- MODULE NodeInit -------------------------------
(***************************************************************************)
(* node-init/main.go together with the broker: how a machine gets its      *)
(* identity, its name and its credentials.                                 *)
(*                                                                         *)
(* node-init runs at every `compose up`, with whatever token the operator  *)
(* has set, and keeps what it has got in the credential volume, file by    *)
(* file.  It may stop anywhere, or give up after 90 seconds; its request   *)
(* stays with the broker.  registry/cmd/identity.go finds the identity in  *)
(* the same volume; every service waits for node-init to succeed.          *)
(*                                                                         *)
(* Two machines may have been given one name.  Values of credentials are   *)
(* functions of the id and of the tunnel, so a file is there or not.       *)
(***************************************************************************)
EXTENDS BrokerGuarantees

CONSTANTS
  Volumes,     \* the machines' credential volumes
  NodeName(_)  \* the slug of a machine's NODE_NAME

Files == {"node-credential", "node-tunnel-token", "portal-tunnel-token"}

ASSUME MachinesHaveNames == \A v \in Volumes : NodeName(v) \in Nodes

\* Enrollments are asked for by node-init.  What else asks has the id of
\* another node, or wants the name of another id.
RefusedTo(id, n, ids) ==
  (\E m \in Nodes \ {n} : ids[m] = id) \/ ids[n] \notin {None, id}

ASSUME StrangersAreRefused ==
  \A r \in Requests, w \in Starts : r.kind = "enroll" => RefusedTo(r.id, r.node, w.nodes)

VARIABLES
  identity,    \* the id in a volume's node.json
  files,       \* the other files there
  call         \* the request of the node-init that runs on a machine

volumes == <<identity, files, call>>
allVars == <<vars, volumes>>

NodeInit ==
  /\ Init
  /\ identity = [v \in Volumes |-> None]
  /\ files = [v \in Volumes |-> {}]
  /\ call = [v \in Volumes |-> None]

\* A random UUID: one that nobody has or had.
Fresh(i) == i \notin {identity[v] : v \in Volumes} \cup {nodes[n] : n \in Nodes}

\* Mutant: the identity is not looked for before it is made.
CreateIdentityAnew(v) ==
  /\ call[v] = None
  /\ files[v] # Files
  /\ \E i \in Ids : Fresh(i) /\ identity' = [identity EXCEPT ![v] = i]
  /\ UNCHANGED <<vars, files, call>>

\* loadOrCreateIdentity: the file appears whole or not at all.
CreateIdentity(v) ==
  /\ identity[v] = None
  /\ \E i \in Ids : Fresh(i) /\ identity' = [identity EXCEPT ![v] = i]
  /\ UNCHANGED <<vars, files, call>>

\* A volume with all its files is enrolled; else node-init asks the broker,
\* with a token the operator was issued.
AskBroker(v, c) ==
  /\ identity[v] # None
  /\ files[v] # Files
  /\ call[v] = None
  /\ \E t \in {t \in Tokens : tokens[t] # None} :
       Send(c, [kind |-> "enroll", id |-> identity[v], node |-> NodeName(v), token |-> t])
  /\ call' = [call EXCEPT ![v] = c]
  /\ UNCHANGED <<identity, files>>

\* The files are written one by one, in any order, each at once or not.
WriteFile(v) ==
  /\ call[v] # None /\ result[call[v]] = "ready"
  /\ \E f \in Files \ files[v] : files' = [files EXCEPT ![v] = @ \cup {f}]
  /\ call' = IF files'[v] = Files THEN [call EXCEPT ![v] = None] ELSE call
  /\ UNCHANGED <<vars, identity>>

\* node-init is refused, stops, or waits no longer.
Exit(v) ==
  /\ call[v] # None
  /\ call' = [call EXCEPT ![v] = None]
  /\ UNCHANGED <<vars, identity, files>>

NextNodeInit ==
  \/ Next /\ UNCHANGED volumes
  \/ \E v \in Volumes :
       CreateIdentity(v) \/ WriteFile(v) \/ Exit(v) \/ \E c \in Calls : AskBroker(v, c)

SpecNodeInit == NodeInit /\ [][NextNodeInit]_allVars

-----------------------------------------------------------------------------
\* A machine with any of the files is the one the broker has enrolled under
\* its name, under the id in node.json (the credential's): of two machines
\* with one name only one ever starts, also when node-init was interrupted
\* and came back with another token.
FilesBelongToNode ==
  \A v \in Volumes : files[v] # {} => nodes[NodeName(v)] = identity[v]

EnrolledByCall(n) ==
  \E c \in Calls :
    /\ req[c] # None /\ req[c].kind = "enroll"
    /\ req[c].node = n /\ req[c].id = nodes[n]

\* A name that is enrolled is never orphaned: the machine that has it knows
\* its id (README.md: "a generated UUID persisted in the `node_identity`
\* volume") and there is a token with which it may come back for its files,
\* wherever node-init or the broker stopped.
NamesAreRecoverable ==
  \A n \in Nodes :
    EnrolledByCall(n) =>
      \E v \in Volumes, t \in Tokens :
        /\ identity[v] = nodes[n] /\ NodeName(v) = n
        /\ tokens[t] # None /\ tokens[t].node = n /\ tokens[t].claimed = nodes[n]
=============================================================================
