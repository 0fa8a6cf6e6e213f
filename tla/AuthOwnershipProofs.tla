------------------------ MODULE AuthOwnershipProofs ------------------------
(***************************************************************************)
(* Proofs about AuthOwnership, for an operator who waits for a             *)
(* `compose up` under way (Waits): for any number of machines, of which    *)
(* any may be enabled by mistake, and any number of moves, faults and late *)
(* writes.                                                                 *)
(***************************************************************************)
EXTENDS AuthOwnership, RegistryStateProofs, FiniteSetTheorems

Phases == {"idle", "fence", "stop", "registry", "broker", "enable"}

TypeOK ==
  /\ registry \in Snapshot
  /\ late \subseteq Snapshot
  /\ brokerOwner \in Nodes \cup {None}
  /\ record \in Nodes \cup {None}
  /\ flag \in [Nodes -> BOOLEAN]
  /\ profile \in [Nodes -> BOOLEAN]
  /\ process \in [Nodes -> {"stopped", "running", "flagged", "provisioned"}]
  /\ guard \in [Nodes -> {"idle", "loaded", "passed"}]
  /\ keycloak \in [Nodes -> BOOLEAN]
  /\ phase \in Phases
  /\ phase # "idle" => from \in Nodes /\ to \in Nodes

-----------------------------------------------------------------------------
(* The inductive invariant.  It rests on the broker alone: the registry's  *)
(* owner may change under everybody's feet, by a late write.               *)

\* Keycloak runs only where the broker's owner is.
BrokerOwnerRuns == \A n \in Nodes : keycloak[n] => brokerOwner = n

\* What the broker has told the guard stays true until Keycloak is started.
GuardPassed ==
  \A n \in Nodes : guard[n] = "passed" => brokerOwner = n /\ record = n

\* From the fence to the end of a move nothing starts on the source.
Fenced ==
  /\ phase \in {"stop", "registry", "broker", "enable"} => ~profile[from]
  /\ phase \in {"registry", "broker", "enable"} => guard[from] = "idle" /\ ~keycloak[from]

Inv == TypeOK /\ BrokerOwnerRuns /\ GuardPassed /\ Fenced

(* Where no unanswered write is performed late, the registry is right too. *)

\* What the guard's load has found stays true.
GuardLoaded == \A n \in Nodes : guard[n] # "idle" => registry.owner = n

\* The broker is asked after the registry.
RegistryFirst == phase \in {"broker", "enable"} => registry.owner = to

Settled == RecordedOwnerRuns /\ GuardLoaded /\ RegistryFirst

-----------------------------------------------------------------------------
\* Whatever becomes of a mutation, the registry stays one, as does what late
\* writes would make of it; it changes only by the mutation's own effect.
LEMMA MutateEffect ==
  ASSUME TypeOK, NEW o \in Operation, Mutate(o) \/ MutateUnanswered(o)
  PROVE  /\ registry' \in Snapshot /\ late' \subseteq Snapshot
         /\ \/ registry' = registry
            \/ Outcome(o, registry) = "change" /\ registry' = Effect(o, registry)
<1>1. Outcome(o, registry) = "change" => Effect(o, registry) \in Snapshot
  BY EffectType DEF TypeOK
<1> QED BY <1>1 DEF Mutate, MutateUnanswered, TypeOK, store

\* A claim takes the role from nobody.
LEMMA ClaimEffect ==
  ASSUME TypeOK, NEW n \in Nodes, Mutate(Claim(n)) \/ MutateUnanswered(Claim(n))
  PROVE  /\ registry' \in Snapshot /\ late' \subseteq Snapshot
         /\ registry'.owner = registry.owner \/ registry.owner = None
<1>1. Claim(n) \in Operation
  BY DEF Claim, Operation
<1>2. Outcome(Claim(n), registry) = "change" => registry.owner = None
  BY DEF Claim, Outcome, ClaimOutcome
<1> HIDE DEF Claim
<1> QED BY <1>1, <1>2, MutateEffect

\* A transfer that is answered leaves the role with its destination, and no
\* transfer takes it from anybody but its source.
LEMMA TransferEffect ==
  ASSUME TypeOK, from \in Nodes, to \in Nodes,
         Mutate(Transfer) \/ MutateUnanswered(Transfer)
  PROVE  /\ registry' \in Snapshot /\ late' \subseteq Snapshot
         /\ \/ registry'.owner = registry.owner
            \/ registry.owner = from /\ registry'.owner = to
         /\ Mutate(Transfer) => registry'.owner = to
<1>1. Transfer \in Operation
  BY DEF Transfer, Operation
<1>2. /\ Outcome(Transfer, registry) = "change" => registry.owner = from
      /\ Outcome(Transfer, registry) = "nochange" => registry.owner = to
  BY DEF Transfer, Outcome, TransferOutcome
<1>3. Effect(Transfer, registry).owner = to
  BY DEF Transfer, Effect, GiveAuth, TypeOK, Snapshot
<1>4. Mutate(Transfer) => registry'.owner = to
  BY <1>2, <1>3 DEF Mutate, store
<1> QED BY <1>1, <1>2, <1>3, <1>4, MutateEffect

\* provisionAuth for n takes neither owner nor record from anybody, and is
\* "ready" only when both are n's.
LEMMA ProvisionEffect ==
  ASSUME TypeOK, NEW n \in Nodes, NEW ok \in BOOLEAN, ProvisionAuth(n, ok)
  PROVE  /\ brokerOwner' \in Nodes \cup {None} /\ record' \in Nodes \cup {None}
         /\ brokerOwner # None => brokerOwner' = brokerOwner
         /\ record # None => record' = record
         /\ ok => brokerOwner' = n /\ record' = n
  BY DEF ProvisionAuth, TypeOK, broker

\* transferAuth ends with d as owner, or changes nothing.
LEMMA TransferAuthEffect ==
  ASSUME TypeOK, NEW s \in Nodes, NEW d \in Nodes, NEW ok \in BOOLEAN,
         TransferAuth(s, d, ok)
  PROVE  /\ brokerOwner' \in Nodes \cup {None} /\ record' \in Nodes \cup {None}
         /\ \/ brokerOwner \in {s, d}
            \/ brokerOwner' = brokerOwner /\ record' = record
         /\ brokerOwner = d => brokerOwner' = d
         /\ record = d => record' = d
<1>1. CASE Admitted(s, d)
  <2>1. brokerOwner' \in {brokerOwner, d} /\ record' \in {record, d}
    BY <1>1 DEF TransferAuth, broker
  <2> QED BY <1>1, <2>1 DEF Admitted, TypeOK
<1>2. CASE ~Admitted(s, d)
  <2>1. brokerOwner' = brokerOwner /\ record' = record
    BY <1>2 DEF TransferAuth, broker
  <2> QED BY <2>1 DEF TypeOK
<1> QED BY <1>1, <1>2

-----------------------------------------------------------------------------
LEMMA InitInv == Init => Inv /\ Settled
<1> SUFFICES ASSUME Init PROVE Inv /\ Settled
  OBVIOUS
<1> USE Unowned, Absent
<1>1. PICK settled \in BOOLEAN :
        /\ registry = IF settled THEN GiveAuth(Start, First) ELSE Start
        /\ brokerOwner = registry.owner
        /\ record = registry.owner
        /\ keycloak = [n \in Nodes |-> settled /\ n = First]
  BY DEF Init
<1>2. GiveAuth(Start, First) \in Snapshot /\ GiveAuth(Start, First).owner = First
  BY DEF GiveAuth, Snapshot
<1>3. /\ registry \in Snapshot
      /\ registry.owner = IF settled THEN First ELSE None
  BY <1>1, <1>2
<1>4. flag \in [Nodes -> BOOLEAN] /\ profile \in [Nodes -> BOOLEAN]
  <2>1. \A S : [n \in Nodes |-> n = First \/ n \in S] \in [Nodes -> BOOLEAN]
    OBVIOUS
  <2> QED BY <2>1 DEF Init
<1>5. keycloak \in [Nodes -> BOOLEAN] /\ BrokerOwnerRuns /\ RecordedOwnerRuns
  BY <1>1, <1>3 DEF BrokerOwnerRuns, RecordedOwnerRuns
<1>6. TypeOK
  BY <1>1, <1>3, <1>4, <1>5 DEF Init, TypeOK, Phases
<1>7. GuardPassed /\ Fenced /\ GuardLoaded /\ RegistryFirst
  BY DEF Init, GuardPassed, Fenced, GuardLoaded, RegistryFirst
<1> QED BY <1>5, <1>6, <1>7 DEF Inv, Settled

LEMMA NextInv == Waits /\ Inv /\ [Next]_vars => Inv'
<1> SUFFICES ASSUME Waits, Inv, [Next]_vars PROVE Inv'
  OBVIOUS
<1> USE Absent DEF Inv, store, broker, settings, machines, operator
<1>1. ASSUME NEW n \in Nodes, StartRegistry(n) PROVE Inv'
  <2>1. registry' \in Snapshot /\ late' \subseteq Snapshot
    BY <1>1, ClaimEffect DEF StartRegistry, TypeOK
  <2>2. TypeOK'
    BY <1>1, <2>1 DEF StartRegistry, TypeOK
  <2> QED BY <1>1, <2>2 DEF StartRegistry, BrokerOwnerRuns, GuardPassed, Fenced
<1>2. ASSUME NEW n \in Nodes, ClaimFails(n) PROVE Inv'
  <2>1. registry' \in Snapshot /\ late' \subseteq Snapshot
    BY <1>2, ClaimEffect DEF ClaimFails
  <2>2. TypeOK'
    BY <1>2, <2>1 DEF ClaimFails, TypeOK
  <2> QED BY <1>2, <2>2 DEF ClaimFails, BrokerOwnerRuns, GuardPassed, Fenced
<1>3. ASSUME NEW n \in Nodes, EnsureAuth(n) PROVE Inv'
  <2>1. PICK ok \in BOOLEAN :
          /\ ProvisionAuth(n, ok)
          /\ process' = [process EXCEPT ![n] = IF ok THEN "provisioned" ELSE @]
    BY <1>3 DEF EnsureAuth
  <2>2. /\ brokerOwner' \in Nodes \cup {None} /\ record' \in Nodes \cup {None}
        /\ brokerOwner # None => brokerOwner' = brokerOwner
        /\ record # None => record' = record
    BY <2>1, ProvisionEffect
  <2> QED
    BY <1>3, <2>1, <2>2 DEF EnsureAuth, TypeOK, BrokerOwnerRuns, GuardPassed, Fenced
<1>4. ASSUME NEW n \in Nodes, AuthReady(n) PROVE Inv'
  BY <1>4 DEF AuthReady, TypeOK, BrokerOwnerRuns, GuardPassed, Fenced
<1>5. ASSUME NEW n \in Nodes, AuthReadyAnswers(n) PROVE Inv'
  <2>1. PICK ok \in BOOLEAN :
          /\ ProvisionAuth(n, ok)
          /\ guard' = [guard EXCEPT ![n] = IF ok THEN "passed" ELSE "idle"]
    BY <1>5 DEF AuthReadyAnswers
  <2>2. /\ brokerOwner' \in Nodes \cup {None} /\ record' \in Nodes \cup {None}
        /\ brokerOwner # None => brokerOwner' = brokerOwner
        /\ record # None => record' = record
        /\ ok => brokerOwner' = n /\ record' = n
    BY <2>1, ProvisionEffect
  <2>3. TypeOK'
    BY <1>5, <2>1, <2>2 DEF AuthReadyAnswers, TypeOK
  <2>4. GuardPassed'
    BY <1>5, <2>1, <2>2 DEF AuthReadyAnswers, TypeOK, GuardPassed
  <2> QED
    BY <1>5, <2>1, <2>2, <2>3, <2>4 DEF AuthReadyAnswers, TypeOK, BrokerOwnerRuns, Fenced
<1>6. ASSUME NEW n \in Nodes, StartKeycloak(n) PROVE Inv'
  BY <1>6 DEF StartKeycloak, TypeOK, BrokerOwnerRuns, GuardPassed, Fenced
<1>7. ASSUME NEW n \in Nodes, Crash(n) PROVE Inv'
  BY <1>7 DEF Crash, TypeOK, BrokerOwnerRuns, GuardPassed, Fenced
<1>8. CASE Move
  <2>1. registry.owner \in Nodes
    BY <1>8 DEF Move, TypeOK, Snapshot
  <2> QED BY <1>8, <2>1 DEF Move, TypeOK, Phases, BrokerOwnerRuns, GuardPassed, Fenced
<1>9. CASE Fence
  BY <1>9 DEF Fence, TypeOK, Phases, BrokerOwnerRuns, GuardPassed, Fenced
<1>10. CASE StopKeycloak
  BY <1>10 DEF StopKeycloak, TypeOK, Phases, BrokerOwnerRuns, GuardPassed, Fenced
<1>11. CASE TransferAtRegistry
  <2>1. /\ from \in Nodes /\ to \in Nodes
        /\ phase = "registry" /\ phase' \in {"registry", "broker"}
        /\ UNCHANGED <<broker, machines, from, to>>
    BY <1>11 DEF TransferAtRegistry, TypeOK
  <2>2. registry' \in Snapshot /\ late' \subseteq Snapshot
    BY <1>11, <2>1, TransferEffect DEF TransferAtRegistry
  <2>3. TypeOK'
    BY <2>1, <2>2 DEF TypeOK, Phases
  <2> QED BY <2>1, <2>3 DEF BrokerOwnerRuns, GuardPassed, Fenced
<1>12. CASE TransferAtBroker
  <2>1. from \in Nodes /\ to \in Nodes /\ phase = "broker"
    BY <1>12 DEF TransferAtBroker, TypeOK
  <2>2. PICK ok \in BOOLEAN :
          TransferAuth(from, to, ok) /\ phase' = IF ok THEN "enable" ELSE phase
    BY <1>12 DEF TransferAtBroker
  <2>3. /\ brokerOwner' \in Nodes \cup {None} /\ record' \in Nodes \cup {None}
        /\ \/ brokerOwner \in {from, to}
           \/ brokerOwner' = brokerOwner /\ record' = record
        /\ brokerOwner = to => brokerOwner' = to
        /\ record = to => record' = to
    BY <2>1, <2>2, TransferAuthEffect
  <2>4. TypeOK'
    BY <1>12, <2>1, <2>2, <2>3 DEF TransferAtBroker, TypeOK, Phases
  <2>5. \A m \in Nodes :
          /\ keycloak[m] => brokerOwner = m /\ m # from
          /\ guard[m] = "passed" => brokerOwner = m /\ record = m /\ m # from
    BY <2>1 DEF BrokerOwnerRuns, GuardPassed, Fenced
  <2>6. UNCHANGED <<keycloak, guard, profile, from>> /\ phase' \in {"broker", "enable"}
    BY <1>12, <2>1, <2>2 DEF TransferAtBroker
  <2>7. BrokerOwnerRuns' /\ GuardPassed'
    BY <2>3, <2>5, <2>6 DEF BrokerOwnerRuns, GuardPassed
  <2>8. Fenced'
    BY <2>1, <2>6 DEF Fenced
  <2> QED BY <2>4, <2>7, <2>8
<1>13. CASE Enable
  BY <1>13 DEF Enable, TypeOK, Phases, BrokerOwnerRuns, GuardPassed, Fenced
<1>14. CASE TurnRound
  BY <1>14 DEF TurnRound, TypeOK, Phases, BrokerOwnerRuns, GuardPassed, Fenced
<1>15. CASE Investigate
  <2>1. registry.owner \in Nodes /\ brokerOwner \in Nodes
    BY <1>15 DEF Investigate, TypeOK, Snapshot
  <2> QED
    BY <1>15, <2>1 DEF Investigate, TypeOK, Phases, BrokerOwnerRuns, GuardPassed, Fenced
<1>16. CASE LateWrite
  BY <1>16 DEF LateWrite, TypeOK, BrokerOwnerRuns, GuardPassed, Fenced
<1>17. CASE UNCHANGED vars
  BY <1>17 DEF vars, TypeOK, BrokerOwnerRuns, GuardPassed, Fenced
<1> QED
  BY <1>1, <1>2, <1>3, <1>4, <1>5, <1>6, <1>7, <1>8, <1>9, <1>10, <1>11, <1>12, <1>13,
     <1>14, <1>15, <1>16, <1>17
  DEF Next, Machine, Proceed

\* Only a late write changes the registry's owner while somebody relies on it.
LEMMA NextSettled ==
  Inv /\ Settled /\ [Next]_vars /\ [~LateWrite]_vars => Settled'
<1> SUFFICES ASSUME Inv, Settled, [Next]_vars, [~LateWrite]_vars PROVE Settled'
  OBVIOUS
<1> USE Absent DEF Inv, Settled, store, broker, settings, machines, operator
<1>1. ASSUME NEW n \in Nodes, StartRegistry(n) \/ ClaimFails(n) PROVE Settled'
  <2>1. registry'.owner = registry.owner \/ registry.owner = None
    BY <1>1, ClaimEffect DEF StartRegistry, ClaimFails
  <2>2. UNCHANGED <<guard, keycloak, phase, to>>
    BY <1>1 DEF StartRegistry, ClaimFails
  <2> QED
    BY <2>1, <2>2 DEF TypeOK, RecordedOwnerRuns, GuardLoaded, RegistryFirst
<1>2. ASSUME NEW n \in Nodes, EnsureAuth(n) PROVE Settled'
  BY <1>2 DEF EnsureAuth, RecordedOwnerRuns, GuardLoaded, RegistryFirst
<1>3. ASSUME NEW n \in Nodes, AuthReady(n) PROVE Settled'
  BY <1>3 DEF AuthReady, TypeOK, RecordedOwnerRuns, GuardLoaded, RegistryFirst
<1>4. ASSUME NEW n \in Nodes, AuthReadyAnswers(n) PROVE Settled'
  BY <1>4 DEF AuthReadyAnswers, TypeOK, RecordedOwnerRuns, GuardLoaded, RegistryFirst
<1>5. ASSUME NEW n \in Nodes, StartKeycloak(n) PROVE Settled'
  BY <1>5 DEF StartKeycloak, TypeOK, RecordedOwnerRuns, GuardLoaded, RegistryFirst
<1>6. ASSUME NEW n \in Nodes, Crash(n) PROVE Settled'
  BY <1>6 DEF Crash, TypeOK, RecordedOwnerRuns, GuardLoaded, RegistryFirst
<1>7. CASE TransferAtRegistry
  <2>1. /\ from \in Nodes /\ to \in Nodes /\ phase = "registry"
        /\ \/ Mutate(Transfer) /\ phase' = "broker"
           \/ MutateUnanswered(Transfer) /\ phase' = phase
        /\ UNCHANGED <<machines, from, to>>
    BY <1>7 DEF TransferAtRegistry, TypeOK
  <2>2. /\ \/ registry'.owner = registry.owner
           \/ registry.owner = from /\ registry'.owner = to
        /\ Mutate(Transfer) => registry'.owner = to
    BY <2>1, TransferEffect
  <2>3. \A m \in Nodes : (keycloak[m] \/ guard[m] # "idle") => m # from
    BY <2>1 DEF Fenced
  <2> QED BY <2>1, <2>2, <2>3 DEF RecordedOwnerRuns, GuardLoaded, RegistryFirst
<1>8. CASE TransferAtBroker
  BY <1>8 DEF TransferAtBroker, RecordedOwnerRuns, GuardLoaded, RegistryFirst
<1>9. CASE Fence \/ StopKeycloak \/ Enable
  BY <1>9 DEF Fence, StopKeycloak, Enable, TypeOK, RecordedOwnerRuns, GuardLoaded, RegistryFirst
<1>10. CASE Move \/ TurnRound \/ Investigate
  BY <1>10 DEF Move, TurnRound, Investigate, RecordedOwnerRuns, GuardLoaded, RegistryFirst
<1>11. CASE UNCHANGED vars
  BY <1>11 DEF vars, RecordedOwnerRuns, GuardLoaded, RegistryFirst
<1> QED
  BY <1>1, <1>2, <1>3, <1>4, <1>5, <1>6, <1>7, <1>8, <1>9, <1>10, <1>11
  DEF Next, Machine, Proceed

-----------------------------------------------------------------------------
\* For an operator who waits, the broker's owner, the guard and the fence
\* agree as Inv says in every state, whatever late writes make of the registry
\* (main.go:161-180, access.go:73-91, index.ts:284-325).
THEOREM OwnershipInvariant == Waits => (Spec => []Inv)
<1> SUFFICES ASSUME Waits PROVE Spec => []Inv
  OBVIOUS
<1>1. Init => Inv
  BY InitInv
<1>2. Inv /\ [Next]_vars => Inv'
  BY NextInv
<1> QED BY <1>1, <1>2, PTL DEF Spec

\* For an operator who waits, Keycloak runs on at most one machine (README.md,
\* Auth Ownership): it runs only where the broker's owner is, and the broker
\* has one owner.
THEOREM AtMostOneKeycloak == Waits => (Spec => []OneKeycloak)
<1> SUFFICES ASSUME Waits PROVE Spec => []OneKeycloak
  OBVIOUS
<1>1. Inv => OneKeycloak
  <2> SUFFICES ASSUME Inv PROVE OneKeycloak
    OBVIOUS
  <2> DEFINE K == {n \in Nodes : keycloak[n]}
  <2>1. CASE K = {}
    BY <2>1, FS_EmptySet DEF OneKeycloak
  <2>2. CASE K # {}
    <3>1. K = {brokerOwner}
      BY <2>2 DEF Inv, BrokerOwnerRuns
    <3>2. Cardinality(K) = 1
      BY <3>1, FS_Singleton
    <3> QED BY <3>2 DEF OneKeycloak
  <2> QED BY <2>1, <2>2
<1>2. Spec => []Inv
  BY OwnershipInvariant
<1> QED BY <1>1, <1>2, PTL

\* For an operator who waits, Keycloak is started behind the guard only where
\* the broker's owner and the record are at that moment (main.go:161-180).
THEOREM GuardedStart == Waits => (Spec => StartsWhereRouted)
<1> SUFFICES ASSUME Waits PROVE Spec => StartsWhereRouted
  OBVIOUS
<1>1. Inv /\ [Next]_vars =>
        [\A n \in Nodes : keycloak'[n] /\ ~keycloak[n] =>
           brokerOwner = n /\ record = n]_vars
  <2> SUFFICES ASSUME Inv, Next, NEW n \in Nodes, keycloak'[n], ~keycloak[n]
               PROVE  brokerOwner = n /\ record = n
    OBVIOUS
  <2> USE DEF machines
  <2>1. PICK m \in Nodes : StartKeycloak(m)
    <3>1. ASSUME Proceed PROVE FALSE
      <4>1. CASE StopKeycloak
        BY <4>1 DEF StopKeycloak, Inv, TypeOK
      <4>2. CASE keycloak' = keycloak
        BY <4>2
      <4> QED
        BY <3>1, <4>1, <4>2
        DEF Proceed, Fence, TransferAtRegistry, TransferAtBroker, Enable, Investigate
    <3>2. ASSUME Move \/ TurnRound \/ LateWrite PROVE FALSE
      BY <3>2 DEF Move, TurnRound, LateWrite
    <3>3. ASSUME NEW m \in Nodes,
                 \/ StartRegistry(m) \/ AuthReady(m) \/ AuthReadyAnswers(m)
                 \/ EnsureAuth(m) \/ ClaimFails(m) \/ Crash(m)
          PROVE  FALSE
      BY <3>3 DEF StartRegistry, AuthReady, AuthReadyAnswers, EnsureAuth, ClaimFails, Crash
    <3> QED BY <3>1, <3>2, <3>3 DEF Next, Machine
  <2>2. m = n
    BY <2>1 DEF StartKeycloak, Inv, TypeOK
  <2> QED BY <2>1, <2>2 DEF StartKeycloak, Inv, GuardPassed
<1>2. Spec => []Inv
  BY OwnershipInvariant
<1> QED BY <1>1, <1>2, PTL DEF Spec, StartsWhereRouted

\* Late writes are all that keeps the machine the registry records from being
\* the one that runs Keycloak: in a behaviour without one, it is, although
\* registry and broker are changed by requests of their own and any of them
\* may fail (repository.go:119-148, access.go:73-91).
THEOREM RecordedUnlessLate ==
  Waits => (Spec /\ [][~LateWrite]_vars => []RecordedOwnerRuns)
<1> SUFFICES ASSUME Waits PROVE Spec /\ [][~LateWrite]_vars => []RecordedOwnerRuns
  OBVIOUS
<1>1. Spec => []Inv
  BY OwnershipInvariant
<1>2. Init => Settled
  BY InitInv
<1>3. Inv /\ Settled /\ [Next]_vars /\ [~LateWrite]_vars => Settled'
  BY NextSettled
<1>4. Settled => RecordedOwnerRuns
  BY DEF Settled
<1> QED BY <1>1, <1>2, <1>3, <1>4, PTL DEF Spec
=============================================================================
