------------------------- MODULE RegistryGuarantees -------------------------
(***************************************************************************)
(* What Repository guarantees: its type invariant, the safety of the       *)
(* history of pointers and of the answers given, the shape of the registry *)
(* content, liveness, and that it implements AtomicRegistry.               *)
(***************************************************************************)
EXTENDS Repository, FiniteSets

\* Every variable holds what its comment in Repository says.
TypeOK ==
  /\ pointer \in Snapshot \cup {None}
  /\ marker \in BOOLEAN
  /\ snapshots \subseteq Snapshot
  /\ inflight \subseteq Write
  /\ pc \in [Calls -> Steps]
  /\ op \in [Calls -> Ops \cup {None}]
  /\ attempt \in [Calls -> Nat]
  /\ base \in [Calls -> Snapshot \cup {None}]
  /\ next \in [Calls -> Snapshot \cup {None}]
  /\ failure \in [Calls -> Failures \cup {None}]
  /\ result \in [Calls -> Results \cup {None}]
  /\ log \in Seq([call : Calls \cup {None}, state : Snapshot]) \ {<< >>}
  /\ start \in [Calls -> Nat]
  /\ blind \subseteq Calls
  /\ faults \in Nat
  /\ lost \in BOOLEAN

-----------------------------------------------------------------------------
\* The history of the pointer

\* Entry i of the log is the operation of its call applied to entry i - 1.
Follows(i) ==
  LET before == log[i - 1].state
      c      == log[i].call
  IN  /\ Outcome(op[c], before) = "change"
      /\ log[i].state = Successor(c, op[c], before)

\* Until the pointer is lost, the registry is the result of applying the
\* operations of some calls one after the other, each to the whole result
\* of the one before and none while it would refuse: no write of mutate is
\* based on a state that was replaced in the meantime (lost update).
SerialHistory ==
  ~lost => /\ StateAt(pointer) = Last(log).state
           /\ \A i \in 2..Len(log) : Follows(i)

\* current.json never names a snapshot that was not written: mutate writes
\* the snapshot first, whatever requests fail or processes stop in between.
PointerNeverDangles == pointer \in snapshots \cup {None}

\* The retry loop applies the operation of a call a second time only when
\* the call retried without being able to see that its first write took
\* effect, or still could (pointerMatches and operationCommitted both said
\* no, or failed).
AtMostOnce ==
  \A i, j \in 2..Len(log) :
     i # j /\ log[i].call = log[j].call => log[i].call \in blind

\* Of all updates and deletes that name one generation of an application
\* at most one ever takes effect, as long as no call is blind.
Names(o, id, generation) ==
  o.kind \in {"update", "delete"} /\ o.app = id /\ o.generation = generation

OneChangePerGeneration ==
  blind = {} =>
    \A i, j \in 2..Len(log) :
       LET o == op[log[i].call]
           p == op[log[j].call]
       IN  i # j /\ o.kind \in {"update", "delete"}
             => ~Names(p, o.app, o.generation)

\* The auth role leaves a node only by a transfer that expected that node
\* to hold it, although claims and transfers race on every node.
OwnerNeverStolen ==
  ~lost => \A i \in 2..Len(log) :
     LET before == log[i - 1].state.owner
         o      == op[log[i].call]
     IN  before \notin {None, log[i].state.owner}
           => o.kind = "transfer" /\ o.expected = before

\* What makes the history provable.  A call that holds a prepared snapshot,
\* and a write left in the store, agree with the pointer they are based on;
\* the snapshot object exists before the pointer write is sent; a call that
\* has not begun has no operation and no entry in the log.
Prepared(c, p, s) ==
  /\ op[c] # None
  /\ Outcome(op[c], StateAt(p)) = "change"
  /\ s = Successor(c, op[c], StateAt(p))

PlansAgree ==
  /\ \A c \in Calls :
        /\ pc[c] \in {"putSnapshot", "checkSnapshot", "putPointer"}
             => Prepared(c, base[c], next[c])
        /\ pc[c] = "putPointer" => next[c] \in snapshots
  /\ \A w \in inflight :
        Prepared(w.call, w.base, w.next) /\ w.next \in snapshots

BegunCalls ==
  /\ \A c \in Calls : op[c] = None <=> pc[c] = "idle"
  /\ \A i \in 2..Len(log) : log[i].call \in Calls /\ op[log[i].call] # None

HistoryInv ==
  /\ TypeOK
  /\ PlansAgree
  /\ BegunCalls
  /\ PointerNeverDangles
  /\ SerialHistory

-----------------------------------------------------------------------------
\* Answers

\* A call answered by a refusal, or told that the registry changed too many
\* times, has not changed the registry, unless it retried blindly.
RefusalIsFinal ==
  \A c \in Calls \ blind :
     result[c] \in Refusals \cup {"exhausted"} => c \notin Committers

\* The snapshot a successful call returns (its revision, the application it
\* built) is one the registry really had, written by that call after it
\* began; a success without a snapshot met a state where there was nothing
\* to do.
AnswerIsCommitted ==
  \A c \in Calls \ blind :
     result[c] = "ok" =>
       IF next[c] = None
       THEN \E i \in start[c]..Len(log) :
              Outcome(op[c], log[i].state) = "nochange"
       ELSE \E i \in (start[c] + 1)..Len(log) :
              log[i] = [call |-> c, state |-> next[c]]

\* A call goes round the loop again only because another call committed
\* since it began, or a request failed: the loop does not spin on itself.
RetriesArePaidFor ==
  \A c \in Calls : ~lost /\ pc[c] # "idle" =>
    attempt[c] <= 1 + faults +
       Cardinality({i \in (start[c] + 1)..Len(log) : log[i].call # c})

\* "registry current pointer is missing after initialization" is answered
\* only when the pointer really was lost (repository.go:45).
MissingOnlyIfLost ==
  \A c \in Calls : result[c] = "missing" => lost

-----------------------------------------------------------------------------
\* Content

\* Node names are unique, the owner of the auth role is a registered node
\* and the only one with the role, and no two applications share a name on
\* a node or a route rule anywhere: what the guards of the operations are
\* for, over all orders of operations.
UniqueNodeNames(s) ==
  \A m, n \in Nodes : s.nodes[m] = s.nodes[n] /\ s.nodes[m] # None => m = n

OneAuthNode(s) ==
  IF s.owner = None THEN s.auth = {}
  ELSE Registered(s, s.owner) /\ s.auth = {s.owner}

NoAppClash(s) ==
  \A a, b \in AppIds :
     a # b /\ s.apps[a] # None /\ s.apps[b] # None =>
       /\ <<s.apps[a].node, s.apps[a].slug>> # <<s.apps[b].node, s.apps[b].slug>>
       /\ Rules(s.apps[a].routes) \cap Rules(s.apps[b].routes) = {}

AppsHaveNodes(s) ==
  \A a \in AppIds : s.apps[a] # None => Registered(s, s.apps[a].node)

WellFormed(s) ==
  UniqueNodeNames(s) /\ OneAuthNode(s) /\ NoAppClash(s) /\ AppsHaveNodes(s)

WellFormedRegistry == WellFormed(StateAt(pointer))

\* What that rests on for any operations: a node comes with one name, the one
\* in its identity file (NameTaken does not see every clash of a rename), and
\* the store begins with content that is well formed itself.
Registrations == {o \in Ops : o.kind = "register"}

KeepsNames(s) == \A o \in Registrations : s.nodes[o.node] \in {None, o.slug}

OneNamePerNode ==
  \A o, q \in Registrations : o.node = q.node => o.slug = q.slug

SoundSeeds ==
  \A p \in Seeds : WellFormed(StateAt(p)) /\ KeepsNames(StateAt(p))

-----------------------------------------------------------------------------
\* Loss of the pointer

\* After an acknowledged change of an initialised registry, with no call left
\* that still owes the marker, no later call finds the pointer missing and
\* starts over from nothing (repository_test.go:119, "expected missing
\* pointer to fail closed").
FailsClosed ==
  \A i \in 3..Len(log) : log[i].state.revision = 1 =>
     \/ \E j \in 2..(i - 1) : pc[log[j].call] = "seal"
     \/ \A j \in 3..start[log[i].call] : result[log[j].call] # "ok"

\* With the marker written, a lost pointer and no call still acting on the
\* empty store it saw before, the registry stays closed for good.
Sealed ==
  /\ marker /\ pointer = None
  /\ \A c \in Calls : pc[c] \in {"putSnapshot", "checkSnapshot", "putPointer"}
                        => base[c] # None
  /\ \A w \in inflight : w.base # None

StaysSealed == [][Sealed => Sealed']_vars

-----------------------------------------------------------------------------
\* Liveness, under FairSpec

\* Every call of mutate ends, however its writes collide with others.
EveryCallEnds == \A c \in Calls : Running(c) ~> ~Running(c)

\* When nothing fails, the first commit is followed by the marker.
InitializationCompletes == pointer # None ~> marker

-----------------------------------------------------------------------------
\* Repository implements AtomicRegistry: the registry is what the pointer
\* names, a mutation takes effect when its pointer write is performed, and
\* every outcome since a call began is one it may report.
Atomic == INSTANCE AtomicRegistry WITH
  registry  <- Last(log).state,
  operation <- op,
  answer    <- result,
  took      <- Committers,
  doubt     <- blind,
  seen      <- [c \in Calls |->
                 IF op[c] = None THEN {}
                 ELSE {Outcome(op[c], log[i].state) : i \in start[c]..Len(log)}]

\* Every behaviour of the protocol is one of the atomic registry.
ImplementsAtomic == Atomic!ASpec
=============================================================================
