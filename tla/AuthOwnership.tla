--------------------------- MODULE AuthOwnership ---------------------------
(***************************************************************************)
(* Which machine runs Keycloak.  Three things say so: the owner in the     *)
(* registry, the owner and the record of the auth hostname at the broker,  *)
(* and on every machine the settings NSL_AUTH_OWNER and COMPOSE_PROFILES   *)
(* together with the registry process and containers started under older   *)
(* settings.  They change by requests of their own, in any order.          *)
(*                                                                         *)
(* The code: the claim of a starting registry process, the reconciler's    *)
(* EnsureAuth, auth-ready with its load and its broker call, and the two   *)
(* guarded transfers, which are not one transaction.  Around it: Compose,  *)
(* which starts Keycloak behind the guard and restarts it without, and an  *)
(* operator who follows docs/mbp-m1-agent-prompt.md: fence the source,     *)
(* transfer at the registry, transfer at the broker, enable the            *)
(* destination; when something fails, retry the same pair or turn it       *)
(* round, fencing the other machine.                                       *)
(*                                                                         *)
(* As in Repository a pointer write whose answer was an error may be       *)
(* performed later, as long as the pointer is the one it was made for.     *)
(* Mutations of other content are left out: they only make such writes     *)
(* fail.                                                                   *)
(***************************************************************************)
EXTENDS RegistryState, FiniteSets

CONSTANTS
  Start, \* the registry to begin with: all nodes, no owner
  First,       \* the machine that is set up to own auth
  Mistakes,    \* machines somebody may have enabled without a transfer
  Waits,       \* does the operator wait for a `compose up` under way on a
               \* machine before he stops Keycloak there?  The guide does not
               \* ask him to
  MaxMoves,    \* bound on transfers begun or turned round
  MaxFaults    \* bound on crashes and failed requests

ASSUME Unowned == Start \in Snapshot /\ Start.owner = None /\ First \in Nodes
ASSUME Discipline == Waits \in BOOLEAN
ASSUME Bounds == MaxMoves \in Nat /\ MaxFaults \in Nat

VARIABLES
  registry,    \* of which only the owner changes
  late,        \* what the unanswered writes to its present pointer would make
               \* of it
  brokerOwner, \* the node whose auth_owner is 1
  record,      \* the node the record of the auth hostname points to
  \* the machines
  flag,        \* NSL_AUTH_OWNER
  profile,     \* is auth in COMPOSE_PROFILES?
  process,     \* the registry process: stopped, running, or started with the
               \* flag, before and after EnsureAuth succeeded
  guard,       \* how far `compose up` has come with auth-ready
  keycloak,    \* is Keycloak running, or started again when Docker is?
  \* the operator
  phase,       \* what he does next
  from, to,    \* the pair he works on
  moves, faults

settings == <<flag, profile>>
machines == <<settings, process, guard, keycloak>>
broker == <<brokerOwner, record>>
operator == <<phase, from, to, moves>>
store == <<registry, late>>
vars == <<store, broker, machines, operator, faults>>

\* Auth is settled on the first machine, or nobody has claimed it yet.
Init ==
  /\ \E settled \in BOOLEAN :
       /\ registry = IF settled THEN GiveAuth(Start, First) ELSE Start
       /\ brokerOwner = registry.owner
       /\ record = registry.owner
       /\ keycloak = [n \in Nodes |-> settled /\ n = First]
  /\ late = {}
  /\ \E flagged \in SUBSET Mistakes :
       flag = [n \in Nodes |-> n = First \/ n \in flagged]
  /\ \E enabled \in SUBSET Mistakes :
       profile = [n \in Nodes |-> n = First \/ n \in enabled]
  /\ process = [n \in Nodes |-> "stopped"]
  /\ guard = [n \in Nodes |-> "idle"]
  /\ phase = "idle" /\ from = None /\ to = None
  /\ moves = 0
  /\ faults = 0

Fault == faults < MaxFaults /\ faults' = faults + 1

-----------------------------------------------------------------------------
(* The registry; Repository has every step.                                *)

\* A mutation is answered.  Where there is something to change the pointer
\* moves on, and the writes made for the old one can never be performed.
Mutate(o) ==
  \/ /\ Outcome(o, registry) = "change"
     /\ registry' = Effect(o, registry)
     /\ late' = {}
  \/ Outcome(o, registry) = "nochange" /\ UNCHANGED store

\* A mutation answers with an error: nothing was sent, or the write is
\* performed at once unnoticed, or it is left in the store.
MutateUnanswered(o) ==
  \/ UNCHANGED store
  \/ Outcome(o, registry) = "change" /\ Mutate(o)
  \/ /\ Outcome(o, registry) = "change"
     /\ late' = late \cup {Effect(o, registry)}
     /\ UNCHANGED registry

\* If-Match: the pointer is still the one the write was made for.
LateWrite ==
  /\ registry' \in late
  /\ late' = {}
  /\ UNCHANGED <<broker, machines, operator, faults>>

-----------------------------------------------------------------------------
(* The broker, as its callers see it; Broker has every step.               *)

\* provisionAuth.  The owner is stored before the record is looked at.  A
\* failure: the request, the work after the owner or the answer is lost.
ProvisionAuth(n, ok) ==
  LET admitted == brokerOwner \in {None, n}
      routed == admitted /\ record \in {None, n}
  IN  \/ /\ ok <=> routed
         /\ brokerOwner' = IF admitted THEN n ELSE brokerOwner
         /\ record' = IF routed THEN n ELSE record
         /\ UNCHANGED faults
      \/ /\ ~ok /\ Fault
         /\ \/ UNCHANGED broker
            \/ admitted /\ brokerOwner' = n /\ UNCHANGED record
            \/ routed /\ brokerOwner' = n /\ record' = n

\* Mutant: only the present owner may give the role away.
AdmittedByOwner(s, d) == brokerOwner = s /\ record \in {s, d}

Admitted(s, d) == brokerOwner \in {s, d} /\ record \in {s, d}

\* transferAuth, the request or the answer lost or the record not reached.
TransferAuth(s, d, ok) ==
  \/ /\ Admitted(s, d) /\ ok
     /\ brokerOwner' = d /\ record' = d
     /\ UNCHANGED faults
  \/ /\ Admitted(s, d) /\ ~ok /\ Fault
     /\ \/ UNCHANGED broker
        \/ brokerOwner' = d /\ record' \in {record, d}
  \/ ~Admitted(s, d) /\ ~ok /\ UNCHANGED <<broker, faults>>

-----------------------------------------------------------------------------
(* A machine.                                                              *)

Claim(n) == [kind |-> "claim", node |-> n]

\* main: a claim that is refused or fails is fatal.
StartRegistry(n) ==
  /\ process[n] = "stopped"
  /\ IF flag[n] THEN Mutate(Claim(n)) ELSE UNCHANGED store
  /\ process' = [process EXCEPT ![n] = IF flag[n] THEN "flagged" ELSE "running"]
  /\ UNCHANGED <<broker, settings, guard, keycloak, operator, faults>>

ClaimFails(n) ==
  /\ process[n] = "stopped" /\ flag[n]
  /\ Fault
  /\ MutateUnanswered(Claim(n))
  /\ UNCHANGED <<broker, machines, operator>>

\* A pass of a process started with the flag asks until it is told "ready"
\* once, whoever is the registry's owner by then.
EnsureAuth(n) ==
  /\ process[n] = "flagged"
  /\ \E ok \in BOOLEAN :
       /\ ProvisionAuth(n, ok)
       /\ process' = [process EXCEPT ![n] = IF ok THEN "provisioned" ELSE @]
  /\ UNCHANGED <<store, settings, guard, keycloak, operator>>

\* Mutant: the guard asks /healthz.
HealthyOnly(n) ==
  /\ profile[n] /\ ~keycloak[n]
  /\ process[n] # "stopped"
  /\ guard[n] = "idle"
  /\ guard' = [guard EXCEPT ![n] = "passed"]
  /\ UNCHANGED <<store, broker, settings, process, keycloak, operator, faults>>

\* `compose up` asks auth-ready, which begins with a load.
AuthReady(n) ==
  /\ profile[n] /\ ~keycloak[n]
  /\ process[n] # "stopped"
  /\ guard[n] = "idle"
  /\ registry.owner = n
  /\ guard' = [guard EXCEPT ![n] = "loaded"]
  /\ UNCHANGED <<store, broker, settings, process, keycloak, operator, faults>>

\* Mutant: the broker is not asked.
OwnerIsEnough(n) ==
  /\ guard[n] = "loaded"
  /\ guard' = [guard EXCEPT ![n] = "passed"]
  /\ UNCHANGED <<store, broker, settings, process, keycloak, operator, faults>>

\* ... and ends with the broker.
AuthReadyAnswers(n) ==
  /\ guard[n] = "loaded"
  /\ \E ok \in BOOLEAN :
       /\ ProvisionAuth(n, ok)
       /\ guard' = [guard EXCEPT ![n] = IF ok THEN "passed" ELSE "idle"]
  /\ UNCHANGED <<store, settings, process, keycloak, operator>>

\* The guard has passed; PostgreSQL and Keycloak are started.
StartKeycloak(n) ==
  /\ guard[n] = "passed"
  /\ keycloak' = [keycloak EXCEPT ![n] = TRUE]
  /\ guard' = [guard EXCEPT ![n] = "idle"]
  /\ UNCHANGED <<store, broker, settings, process, operator, faults>>

\* The machine or its processes stop.  The restart policy brings Keycloak
\* back without asking the guard.
Crash(n) ==
  /\ process[n] # "stopped"
  /\ Fault
  /\ process' = [process EXCEPT ![n] = "stopped"]
  /\ guard' = [guard EXCEPT ![n] = "idle"]
  /\ UNCHANGED <<store, broker, settings, keycloak, operator>>

-----------------------------------------------------------------------------
(* The operator.                                                           *)

\* There is a login to move.  A move is begun, or the way back when the last
\* one is not accepted, whether or not Keycloak has come up by then.
Move ==
  /\ phase = "idle"
  /\ moves < MaxMoves /\ moves' = moves + 1
  /\ registry.owner # None /\ record # None
  /\ from' = registry.owner
  /\ to' \in Nodes \ {from'}
  /\ phase' = "fence"
  /\ UNCHANGED <<store, broker, machines, faults>>

\* The settings are removed; the registry process keeps those it was started
\* with.
Fence ==
  /\ phase = "fence"
  /\ flag' = [flag EXCEPT ![from] = FALSE]
  /\ profile' = [profile EXCEPT ![from] = FALSE]
  /\ phase' = "stop"
  /\ UNCHANGED <<store, broker, process, guard, keycloak, from, to, moves, faults>>

\* Keycloak is stopped.  A `compose up` that is under way may still start it.
StopKeycloak ==
  /\ phase = "stop"
  /\ Waits => guard[from] = "idle"
  /\ keycloak' = [keycloak EXCEPT ![from] = FALSE]
  /\ phase' = "registry"
  /\ UNCHANGED <<store, broker, settings, process, guard, from, to, moves, faults>>

Transfer == [kind |-> "transfer", expected |-> from, node |-> to]

\* /internal/auth-owner of any running registry process.
TransferAtRegistry ==
  /\ phase = "registry"
  /\ \E n \in Nodes : process[n] # "stopped"
  /\ \/ Mutate(Transfer) /\ phase' = "broker" /\ UNCHANGED faults
     \/ MutateUnanswered(Transfer) /\ Fault /\ UNCHANGED phase
  /\ UNCHANGED <<broker, machines, from, to, moves>>

TransferAtBroker ==
  /\ phase = "broker"
  /\ \E ok \in BOOLEAN :
       /\ TransferAuth(from, to, ok)
       /\ phase' = IF ok THEN "enable" ELSE phase
  /\ UNCHANGED <<store, machines, from, to, moves>>

\* Something failed: the pair is turned round, and the machine that was to
\* be the next owner is fenced first.
TurnRound ==
  /\ phase \in {"registry", "broker"}
  /\ moves < MaxMoves /\ moves' = moves + 1
  /\ phase' = "fence"
  /\ from' = to /\ to' = from
  /\ UNCHANGED <<store, broker, machines, faults>>

\* He finds out that the two owners differ, because one of them refuses the
\* pair or the guard does not pass: a late write has come in between.  The
\* registry is to follow the broker, its owner is fenced first.
Investigate ==
  /\ \/ phase = "idle"
     \/ phase = "registry" /\ Outcome(Transfer, registry) \notin {"change", "nochange"}
     \/ phase = "broker" /\ ~Admitted(from, to)
  /\ None \notin {registry.owner, brokerOwner}
  /\ registry.owner # brokerOwner
  /\ phase' = "fence"
  /\ from' = registry.owner /\ to' = brokerOwner
  /\ UNCHANGED <<store, broker, machines, moves, faults>>

Enable ==
  /\ phase = "enable"
  /\ flag' = [flag EXCEPT ![to] = TRUE]
  /\ profile' = [profile EXCEPT ![to] = TRUE]
  /\ phase' = "idle" /\ from' = None /\ to' = None
  /\ UNCHANGED <<store, broker, process, guard, keycloak, moves, faults>>

-----------------------------------------------------------------------------
Machine(n) ==
  StartRegistry(n) \/ AuthReady(n) \/ AuthReadyAnswers(n) \/ StartKeycloak(n)

Proceed ==
  \/ Fence \/ StopKeycloak \/ TransferAtRegistry \/ TransferAtBroker \/ Enable
  \/ Investigate

Next ==
  \/ \E n \in Nodes : Machine(n) \/ EnsureAuth(n) \/ ClaimFails(n) \/ Crash(n)
  \/ Proceed \/ Move \/ TurnRound \/ LateWrite

Spec == Init /\ [][Next]_vars

\* A machine's processes are restarted and `compose up` is repeated until it
\* succeeds; the operator finishes what he has begun.  Nobody has to begin a
\* move, and nothing has to fail.
FairSpec ==
  Spec /\ WF_vars(Proceed) /\ \A n \in Nodes : WF_vars(Machine(n)) /\ WF_vars(EnsureAuth(n))

-----------------------------------------------------------------------------
\* Keycloak runs on at most one machine (README.md, Auth Ownership), whatever
\* is enabled too early, restarted, retried, turned round or written late,
\* provided that the operator fences first and waits for a `compose up`
\* under way; without the second (Waits) it fails.
OneKeycloak == Cardinality({n \in Nodes : keycloak[n]}) <= 1

\* Keycloak is started behind the guard only where the broker's owner and the
\* record of the auth hostname are at that moment, although the guard has
\* asked earlier, others ask meanwhile, and the role may be moved between any
\* two steps (main.go:161-180).
StartsWhereRouted ==
  [][\A n \in Nodes : keycloak'[n] /\ ~keycloak[n] =>
       brokerOwner = n /\ record = n]_vars

\* The outage that a stopped Keycloak means ends: after any number of
\* interrupted and late transfers, on either side and in either direction,
\* the pair can be finished and Keycloak runs where the registry points.
OutageEnds ==
  phase = "registry" ~> \E n \in Nodes : keycloak[n] /\ registry.owner = n

\* The machine that runs Keycloak is the one the registry records (README.md,
\* Auth Ownership).  A late write refutes it.
RecordedOwnerRuns == \A n \in Nodes : keycloak[n] => registry.owner = n

=============================================================================
