---------------------------- MODULE NodeInitProofs ----------------------------
(***************************************************************************)
(* Proofs about NodeInit: the machines' files and identities agree with    *)
(* the broker's tables, for any number of machines, whatever node-init's   *)
(* interruptions.                                                          *)
(***************************************************************************)
EXTENDS NodeInit, BrokerProofs

-----------------------------------------------------------------------------
(* Every step is one of the broker.                                        *)

VolumesOK ==
  /\ identity \in [Volumes -> Ids \cup {None}]
  /\ files \in [Volumes -> SUBSET Files]
  /\ call \in [Volumes -> Calls \cup {None}]

\* What node-init asks for.
AsksFor(v, c, t) ==
  Send(c, [kind |-> "enroll", id |-> identity[v], node |-> NodeName(v), token |-> t])

LEMMA NodeInitStep ==
  ASSUME VolumesOK, [NextNodeInit]_allVars
  PROVE  Step
<1>1. ASSUME NEW v \in Volumes, NEW c \in Calls, AskBroker(v, c) PROVE Step
  <2>1. PICK t \in Tokens : AsksFor(v, c, t)
    BY <1>1 DEF AskBroker, AsksFor
  <2>2. identity[v] \in Ids /\ NodeName(v) \in Nodes
    BY <1>1, MachinesHaveNames DEF AskBroker, VolumesOK
  <2>3. [kind |-> "enroll", id |-> identity[v], node |-> NodeName(v), token |-> t] \in Request
    BY <2>2 DEF Request
  <2> QED  BY <2>1, <2>3 DEF AsksFor, Step
<1>2. UNCHANGED vars => Step
  BY DEF Step
<1>3. Next => Step
  BY NextIsStep
<1> QED  BY <1>1, <1>2, <1>3 DEF NextNodeInit, CreateIdentity, WriteFile, Exit, allVars

\* What becomes of the volumes in a step.
LEMMA VolumeSteps ==
  ASSUME [NextNodeInit]_allVars
  PROVE  \/ identity' = identity /\ files' = files /\ call' = call
         \/ \E v \in Volumes :
              /\ vars' = vars
              /\ CreateIdentity(v) \/ WriteFile(v) \/ Exit(v)
         \/ \E v \in Volumes, c \in Calls : AskBroker(v, c)
BY DEF NextNodeInit, CreateIdentity, WriteFile, Exit, volumes, allVars

-----------------------------------------------------------------------------
(* The invariant.                                                          *)

\* node-init's request carries the identity and the name of its machine.
AsksForItself(v) ==
  call[v] # None =>
    LET r == req[call[v]] IN
      /\ pc[call[v]] # "idle"
      /\ r.kind = "enroll" /\ r.id = identity[v] /\ r.node = NodeName(v)

\* Files come after the identity, for the name that has it.
FilesFollow(v) ==
  files[v] # {} => identity[v] # None /\ nodes[NodeName(v)] = identity[v]

\* An enrollment comes from a machine, or is refused for good.
AskedByMachine(c) ==
  req[c] # None /\ req[c].kind = "enroll" =>
    \/ \E v \in Volumes : identity[v] = req[c].id /\ NodeName(v) = req[c].node
    \/ RefusedTo(req[c].id, req[c].node, nodes)

\* The strangers of this instance are refused whenever they come.
StrangersStayOut ==
  \A r \in Requests : r.kind = "enroll" => RefusedTo(r.id, r.node, nodes)

\* A machine's id is enrolled against a token it claimed for the name.
ClaimedBefore(n) ==
  nodes[n] # None =>
    \/ \E t \in Tokens : /\ tokens[t] # None /\ tokens[t].node = n
                         /\ tokens[t].claimed = nodes[n]
    \/ \A v \in Volumes : identity[v] # nodes[n]

NodeInitInv ==
  /\ Inv
  /\ VolumesOK
  /\ \A v \in Volumes : AsksForItself(v) /\ FilesFollow(v)
  /\ StrangersStayOut /\ \A c \in Calls : AskedByMachine(c)
  /\ \A n \in Nodes : ClaimedBefore(n)

LEMMA NodeInitInvAtFirst == NodeInit => NodeInitInv
<1> SUFFICES ASSUME NodeInit PROVE NodeInitInv
  OBVIOUS
<1>1. Inv
  BY InvAtFirst DEF NodeInit
<1>2. StrangersStayOut /\ \A c \in Calls : req[c] = None
  BY StrangersAreRefused DEF NodeInit, Init, StrangersStayOut
<1>3. \A v \in Volumes : identity[v] = None /\ files[v] = {} /\ call[v] = None
  BY DEF NodeInit
<1>4. VolumesOK
  BY DEF NodeInit, VolumesOK
<1>5. \A v \in Volumes : AsksForItself(v) /\ FilesFollow(v)
  BY <1>3 DEF AsksForItself, FilesFollow
<1>6. \A c \in Calls : AskedByMachine(c)
  BY <1>2 DEF AskedByMachine
<1>7. \A n \in Nodes : ClaimedBefore(n)
  BY <1>3 DEF ClaimedBefore
<1> QED  BY <1>1, <1>2, <1>4, <1>5, <1>6, <1>7 DEF NodeInitInv

-----------------------------------------------------------------------------
(* Volumes.                                                                *)

LEMMA VolumesTyped ==
  ASSUME NodeInitInv, [NextNodeInit]_allVars
  PROVE  VolumesOK'
<1> USE DEF VolumesOK, NodeInitInv
<1>1. ASSUME NEW v \in Volumes, CreateIdentity(v) PROVE VolumesOK'
  BY <1>1 DEF CreateIdentity
<1>2. ASSUME NEW v \in Volumes, WriteFile(v) PROVE VolumesOK'
  BY <1>2 DEF WriteFile
<1>3. ASSUME NEW v \in Volumes, Exit(v) PROVE VolumesOK'
  BY <1>3 DEF Exit
<1>4. ASSUME NEW v \in Volumes, NEW c \in Calls, AskBroker(v, c) PROVE VolumesOK'
  BY <1>4 DEF AskBroker
<1> QED  BY <1>1, <1>2, <1>3, <1>4, VolumeSteps

\* An identity is made once, and is nobody's yet.
LEMMA IdentitySteps ==
  ASSUME NodeInitInv, [NextNodeInit]_allVars, NEW v \in Volumes
  PROVE  \/ identity'[v] = identity[v]
         \/ /\ identity[v] = None /\ CreateIdentity(v)
            /\ \A n \in Nodes : identity'[v] # nodes[n]
<1>1. ASSUME NEW w \in Volumes, CreateIdentity(w), w # v PROVE identity'[v] = identity[v]
  BY <1>1 DEF CreateIdentity, NodeInitInv, VolumesOK
<1>2. ASSUME CreateIdentity(v)
      PROVE  identity[v] = None /\ \A n \in Nodes : identity'[v] # nodes[n]
  <2>1. PICK i \in Ids : Fresh(i) /\ identity' = [identity EXCEPT ![v] = i]
    BY <1>2 DEF CreateIdentity
  <2>2. identity'[v] = i
    BY <2>1 DEF NodeInitInv, VolumesOK
  <2> QED  BY <1>2, <2>1, <2>2 DEF CreateIdentity, Fresh
<1> QED  BY <1>1, <1>2, VolumeSteps DEF WriteFile, Exit, AskBroker

\* node-init's own request, in the words of the broker.
LEMMA RequestOfMachine ==
  ASSUME NodeInitInv, NEW v \in Volumes, call[v] # None
  PROVE  /\ call[v] \in Calls /\ req[call[v]] \in Request
         /\ identity[v] # None
<1>1. call[v] \in Calls /\ pc[call[v]] # "idle" /\ Turns
  BY DEF NodeInitInv, VolumesOK, AsksForItself, Inv
<1>2. req[call[v]] \in Request /\ req[call[v]].kind = "enroll" /\ req[call[v]].id = identity[v]
  BY <1>1 DEF Turns, NodeInitInv, AsksForItself
<1> QED  BY <1>1, <1>2, RequestFields, NoneFacts

LEMMA AsksStay ==
  ASSUME NodeInitInv, [NextNodeInit]_allVars, NEW v \in Volumes
  PROVE  AsksForItself(v)'
<1>1. Step /\ Turns /\ VolumesOK
  BY NodeInitStep DEF NodeInitInv, Inv
<1>2. CASE call[v] # None /\ call'[v] = call[v]
  <2>1. AsksForItself(v) /\ call[v] \in Calls /\ identity'[v] = identity[v]
    BY <1>2, RequestOfMachine, IdentitySteps DEF NodeInitInv
  <2>2. pc[call[v]] # "idle"
    BY <1>2, <2>1 DEF AsksForItself
  <2>3. req'[call[v]] = req[call[v]] /\ pc'[call[v]] # "idle"
    BY <1>1, <2>1, <2>2, RequestStays, NeverIdleAgain
  <2> QED  BY <1>2, <2>1, <2>3 DEF AsksForItself
<1>3. ASSUME NEW c \in Calls, AskBroker(v, c) PROVE AsksForItself(v)'
  <2>1. /\ call'[v] = c /\ identity' = identity
        /\ \E t \in Tokens : AsksFor(v, c, t)
    BY <1>1, <1>3 DEF AskBroker, VolumesOK, AsksFor
  <2>2. PICK t \in Tokens : AsksFor(v, c, t)
    BY <2>1
  <2>3. /\ pc'[c] = "waiting"
        /\ req'[c] = [kind |-> "enroll", id |-> identity[v], node |-> NodeName(v), token |-> t]
    BY <1>1, <2>2 DEF AsksFor, Send, Turns
  <2> QED  BY <2>1, <2>3 DEF AsksForItself
<1>4. ASSUME call'[v] # None, call'[v] # call[v] PROVE \E c \in Calls : AskBroker(v, c)
  <2>1. ASSUME NEW w \in Volumes, WriteFile(w) \/ Exit(w) PROVE FALSE
    BY <1>1, <1>4, <2>1 DEF WriteFile, Exit, VolumesOK
  <2>2. ASSUME NEW w \in Volumes, NEW c \in Calls, AskBroker(w, c) PROVE w = v
    BY <1>1, <1>4, <2>2 DEF AskBroker, VolumesOK
  <2> QED  BY <1>4, <2>1, <2>2, VolumeSteps DEF CreateIdentity
<1>5. CASE call'[v] = None
  BY <1>5 DEF AsksForItself
<1> QED  BY <1>2, <1>3, <1>4, <1>5

LEMMA FilesStay ==
  ASSUME NodeInitInv, [NextNodeInit]_allVars, NEW v \in Volumes
  PROVE  FilesFollow(v)'
<1> SUFFICES ASSUME files'[v] # {}
             PROVE  identity'[v] # None /\ nodes'[NodeName(v)] = identity'[v]
  BY DEF FilesFollow
<1>1. Step /\ Turns /\ DataOK /\ EnrollmentInv /\ VolumesOK /\ NodeName(v) \in Nodes
  BY NodeInitStep, MachinesHaveNames DEF NodeInitInv, Inv
<1>2. ASSUME identity[v] # None, nodes[NodeName(v)] = identity[v]
      PROVE  identity'[v] # None /\ nodes'[NodeName(v)] = identity'[v]
  BY <1>1, <1>2, IdentitySteps, NodesGrow
<1>3. CASE files[v] # {}
  BY <1>2, <1>3 DEF NodeInitInv, FilesFollow
<1>4. CASE files[v] = {}
  <2> DEFINE c == call[v]
  <2>1. WriteFile(v)
    <3>1. ASSUME NEW w \in Volumes, WriteFile(w) PROVE w = v
      BY <1>1, <1>4, <3>1 DEF WriteFile, VolumesOK
    <3> QED  BY <1>4, <3>1, VolumeSteps DEF CreateIdentity, Exit, AskBroker
  <2>2. c # None /\ result[c] = "ready"
    BY <2>1 DEF WriteFile
  <2>3. c \in Calls /\ req[c] \in Request /\ identity[v] # None
    BY <2>2, RequestOfMachine
  <2>4. req[c].kind = "enroll" /\ req[c].id = identity[v] /\ req[c].node = NodeName(v)
    BY <2>2 DEF NodeInitInv, AsksForItself
  <2>5. pc[c] = "done"
    BY <1>1, <2>2, <2>3, NoneFacts DEF Turns, Answers
  <2>6. nodes[NodeName(v)] = identity[v]
    BY <1>1, <2>2, <2>3, <2>4, <2>5 DEF EnrollmentInv, Admitted, Credited
  <2> QED  BY <1>2, <2>3, <2>6
<1> QED  BY <1>3, <1>4

-----------------------------------------------------------------------------
(* Names.                                                                  *)

LEMMA RefusedForGood ==
  ASSUME Turns, DataOK, EnrollmentInv, Step, NEW id \in Ids, NEW n \in Nodes,
         RefusedTo(id, n, nodes)
  PROVE  RefusedTo(id, n, nodes')
<1>1. \A m \in Nodes : nodes[m] # None => nodes'[m] = nodes[m]
  BY NodesGrow
<1> QED  BY <1>1, NoneFacts DEF RefusedTo

LEMMA AskedStays ==
  ASSUME NodeInitInv, [NextNodeInit]_allVars
  PROVE  StrangersStayOut' /\ \A c \in Calls : AskedByMachine(c)'
<1>1. Step /\ Turns /\ DataOK /\ EnrollmentInv /\ VolumesOK /\ Unsent
  BY NodeInitStep DEF NodeInitInv, Inv, AuthInv
<1>2. ASSUME NEW r \in Requests, r.kind = "enroll" PROVE RefusedTo(r.id, r.node, nodes')
  <2>1. r.id \in Ids /\ r.node \in Nodes
    BY <1>2, KnownRequests, RequestFields
  <2> QED  BY <1>1, <1>2, <2>1, RefusedForGood DEF NodeInitInv, StrangersStayOut
<1>3. ASSUME NEW c \in Calls, req'[c] # None, req'[c].kind = "enroll"
      PROVE  \/ \E v \in Volumes : identity'[v] = req'[c].id /\ NodeName(v) = req'[c].node
             \/ RefusedTo(req'[c].id, req'[c].node, nodes')
  <2>1. CASE pc[c] # "idle"
    <3>1. req'[c] = req[c] /\ req[c] \in Request
      BY <1>1, <2>1, RequestStays DEF Turns
    <3>2. req[c].id \in Ids /\ req[c].node \in Nodes /\ req[c].id # None
      BY <1>3, <3>1, RequestFields, NoneFacts
    <3>3. ASSUME NEW v \in Volumes, identity[v] = req[c].id PROVE identity'[v] = req[c].id
      BY <3>2, <3>3, IdentitySteps
    <3>4. \/ \E v \in Volumes : identity[v] = req[c].id /\ NodeName(v) = req[c].node
          \/ RefusedTo(req[c].id, req[c].node, nodes)
      BY <1>3, <3>1, NoneFacts DEF NodeInitInv, AskedByMachine
    <3> QED  BY <1>1, <3>1, <3>2, <3>3, <3>4, RefusedForGood
  <2>2. CASE pc[c] = "idle"
    <3>1. req[c] = None
      BY <1>1, <2>2 DEF Unsent
    <3>2. ASSUME NEW v \in Volumes, NEW d \in Calls, AskBroker(v, d)
          PROVE  identity'[v] = req'[c].id /\ NodeName(v) = req'[c].node
      <4>1. PICK t \in Tokens : AsksFor(v, d, t)
        BY <3>2 DEF AskBroker, AsksFor
      <4>2. d = c
        BY <1>1, <1>3, <3>1, <4>1 DEF AsksFor, Send, Turns
      <4>3. req'[c] = [kind |-> "enroll", id |-> identity[v], node |-> NodeName(v), token |-> t]
        BY <1>1, <4>1, <4>2 DEF AsksFor, Send, Turns
      <4> QED  BY <3>2, <4>3 DEF AskBroker
    <3>3. ASSUME NEW d \in Calls, Arrive(d) PROVE RefusedTo(req'[c].id, req'[c].node, nodes')
      <4>1. PICK r \in Requests : Send(d, r)
        BY <3>3 DEF Arrive
      <4>2. req'[c] = r
        BY <1>1, <1>3, <3>1, <4>1 DEF Send, Turns
      <4> QED  BY <1>2, <1>3, <4>2
    <3>4. ASSUME Next, req'[c] # req[c] PROVE \E d \in Calls : Arrive(d)
      <4>1. ASSUME NEW d \in Calls, Handle(d) \/ CloudflareFails(d) PROVE req' = req
        BY <1>1, <4>1, HandleMoves, FailureMoves DEF Moves
      <4> QED  BY <3>4, <4>1 DEF Next, Expire, Restart, Finished, vars, object
    <3> QED  BY <1>3, <3>1, <3>2, <3>3, <3>4 DEF NextNodeInit, CreateIdentity, WriteFile, Exit, allVars, vars, object
  <2> QED  BY <2>1, <2>2
<1> QED  BY <1>2, <1>3 DEF StrangersStayOut, AskedByMachine

LEMMA ClaimedStays ==
  ASSUME NodeInitInv, [NextNodeInit]_allVars, NEW n \in Nodes
  PROVE  ClaimedBefore(n)'
<1> SUFFICES ASSUME nodes'[n] # None
             PROVE  \/ \E t \in Tokens : /\ tokens'[t] # None /\ tokens'[t].node = n
                                         /\ tokens'[t].claimed = nodes'[n]
                    \/ \A v \in Volumes : identity'[v] # nodes'[n]
  BY DEF ClaimedBefore
<1>1. Step /\ Turns /\ DataOK /\ EnrollmentInv
  BY NodeInitStep DEF NodeInitInv, Inv
<1>2. CASE nodes[n] # None
  <2>1. nodes'[n] = nodes[n]
    BY <1>1, <1>2, NodesGrow
  <2>2. ASSUME NEW t \in Tokens, tokens[t] # None, tokens[t].node = n, tokens[t].claimed = nodes[n]
        PROVE  tokens'[t] # None /\ tokens'[t].node = n /\ tokens'[t].claimed = nodes[n]
    BY <1>1, <1>2, <2>2, TokenStays
  <2>3. ASSUME \A v \in Volumes : identity[v] # nodes[n], NEW v \in Volumes
        PROVE  identity'[v] # nodes[n]
    BY <2>3, IdentitySteps
  <2> QED  BY <1>2, <2>1, <2>2, <2>3 DEF NodeInitInv, ClaimedBefore
<1>3. CASE nodes[n] = None
  <2>1. PICK c \in Calls : NodeRow(c)
    BY <1>1, <1>3, TableWriters
  <2>2. Busy(c) /\ pc[c] = "node_row" /\ tokens' = tokens
    BY <1>1, <2>1, EnrollmentGoesOn DEF GoesOn, NodeRow
  <2>3. Claimed(c) /\ req[c] \in Request /\ req[c].kind = "enroll"
    BY <1>1, <2>2, KindAtStep DEF EnrollmentInv, Enrolling, EnrollSteps
  <2>4. req[c].node = n /\ nodes'[n] = req[c].id
    BY <1>1, <1>3, <2>1 DEF NodeRow, DataOK
  <2> QED  BY <2>2, <2>3, <2>4, RequestFields DEF Claimed
<1> QED  BY <1>2, <1>3

-----------------------------------------------------------------------------
(* What machines are promised.                                             *)

THEOREM NodeInitInvariant == SpecNodeInit => []NodeInitInv
<1>1. ASSUME NodeInitInv, [NextNodeInit]_allVars PROVE NodeInitInv'
  <2>1. Inv'
    BY <1>1, NodeInitStep, InvStays DEF NodeInitInv
  <2>2. \A v \in Volumes : AsksForItself(v)' /\ FilesFollow(v)'
    BY <1>1, AsksStay, FilesStay
  <2>3. \A n \in Nodes : ClaimedBefore(n)'
    BY <1>1, ClaimedStays
  <2> QED  BY <1>1, <2>1, <2>2, <2>3, VolumesTyped, AskedStays DEF NodeInitInv
<1> QED  BY <1>1, NodeInitInvAtFirst, PTL DEF SpecNodeInit

\* Of two machines with one name only the enrolled one ever has files.
THEOREM FilesAlwaysBelong == SpecNodeInit => []FilesBelongToNode
<1>1. NodeInitInv => FilesBelongToNode
  BY DEF NodeInitInv, FilesFollow, FilesBelongToNode
<1> QED  BY <1>1, NodeInitInvariant, PTL

\* A name that was enrolled has its machine, and the machine a token.
THEOREM NamesAlwaysRecoverable == SpecNodeInit => []NamesAreRecoverable
<1>1. NodeInitInv => NamesAreRecoverable
  <2> SUFFICES ASSUME NodeInitInv, NEW n \in Nodes, EnrolledByCall(n)
               PROVE  \E v \in Volumes, t \in Tokens :
                        /\ identity[v] = nodes[n] /\ NodeName(v) = n
                        /\ tokens[t] # None /\ tokens[t].node = n
                        /\ tokens[t].claimed = nodes[n]
    BY DEF NamesAreRecoverable
  <2>1. PICK c \in Calls : /\ req[c] # None /\ req[c].kind = "enroll"
                           /\ req[c].node = n /\ req[c].id = nodes[n]
    BY DEF EnrolledByCall
  <2>2. nodes[n] # None
    BY <2>1, RequestFields, NoneFacts DEF NodeInitInv, Inv, Turns
  <2>3. ~RefusedTo(nodes[n], n, nodes)
    BY <2>2 DEF RefusedTo, NodeInitInv, Inv, EnrollmentInv, UniqueIds
  <2>4. PICK v \in Volumes : identity[v] = nodes[n] /\ NodeName(v) = n
    BY <2>1, <2>3 DEF NodeInitInv, AskedByMachine
  <2> QED  BY <2>2, <2>4 DEF NodeInitInv, ClaimedBefore
<1> QED  BY <1>1, NodeInitInvariant, PTL

=============================================================================
