----------------------- MODULE RegistryProcessProofs -----------------------
(***************************************************************************)
(* Proofs about RegistryProcess: for any number of nodes, requests,        *)
(* applications and faults.                                                *)
(***************************************************************************)
EXTENDS RegistryProcess, RegistryStateProofs, SequenceTheorems

-----------------------------------------------------------------------------
(* Types.                                                                  *)

Steps == {"idle", "check", "mutate", "respond", "unavailable", "lost", "ok",
          "forbidden", "nochange"} \cup Refusals

Stages == {"boot", "load", "asked", "write", "wait"}

LocalApp == [id : AppIds, slug : AppSlugs, routes : SUBSET Route]

\* A call between its arrival and its answer has a request, and an operation
\* once it is about to call the repository.
CallTypes ==
  /\ pc \in [Calls -> Steps]
  /\ req \in [Calls -> Request \cup {None}]
  /\ op \in [Calls -> Operation \cup {None}]
  /\ \A c \in Calls : pc[c] \in {"check", "mutate", "respond"} => req[c] \in Request
  /\ \A c \in Calls : pc[c] = "check" =>
       req[c].kind # "create" /\ (req[c].api = "v2" => op[c] \in Operation)
  /\ \A c \in Calls : pc[c] = "mutate" => op[c] \in Operation

TypeOK ==
  /\ CallTypes
  /\ registry \in Snapshot
  /\ ids \in SUBSET AppIds
  /\ stage \in [Nodes -> Stages]
  /\ serving \in [Nodes -> BOOLEAN]
  /\ trigger \in [Nodes -> BOOLEAN]
  /\ loaded \in [Nodes -> SUBSET LocalApp]
  /\ seen \in [Nodes -> Nat]
  /\ synced \in [Nodes -> Nat]
  /\ acked \in [Nodes -> Nat]
  /\ inbox \in [Nodes -> Seq(SUBSET AppSlugs)]
  /\ hosts \in [Nodes -> SUBSET AppSlugs]

LEMMA OutcomeType ==
  ASSUME NEW o \in Operation, NEW s \in Snapshot
  PROVE  Outcome(o, s) \in {"change", "nochange"} \cup Refusals
<1>1. ASSUME NEW in, NEW id PROVE InputOutcome(in, s, id) \in {"change"} \cup Refusals
  BY DEF InputOutcome, Refusals
<1>2. ASSUME NEW then \in {"change"} \cup Refusals
      PROVE  AtGeneration(o, s, then) \in {"change"} \cup Refusals
  BY <1>2 DEF AtGeneration, Refusals
<1>3. CASE o.kind = "register"
  BY <1>3 DEF Outcome, RegisterOutcome, Refusals
<1>4. CASE o.kind = "claim"
  <2>1. ClaimOutcome(o, s) \in {"change", "nochange"} \cup Refusals
    <3>1. s.owner \in Nodes \cup {None}
      BY DEF Snapshot
    <3> QED BY <3>1 DEF ClaimOutcome, Refusals
  <2> QED BY <1>4, <2>1 DEF Outcome
<1>5. CASE o.kind = "transfer"
  <2>1. TransferOutcome(o, s) \in {"change", "nochange"} \cup Refusals
    BY DEF TransferOutcome, Refusals
  <2> QED BY <1>5, <2>1 DEF Outcome
<1>6. CASE o.kind = "create"
  BY <1>1, <1>6 DEF Outcome
<1>7. CASE o.kind = "update"
  <2>1. UpdateOutcome(o, s) \in {"change"} \cup Refusals
    BY <1>1, <1>2 DEF UpdateOutcome
  <2> QED BY <1>7, <2>1 DEF Outcome
<1>8. CASE o.kind = "delete"
  BY <1>2, <1>8 DEF Outcome
<1> QED BY <1>3, <1>4, <1>5, <1>6, <1>7, <1>8 DEF Operation

LEMMA MutatedType ==
  ASSUME registry \in Snapshot, NEW o \in Operation,
         Outcome(o, registry) = "change"
  PROVE  /\ Mutated(o) \in Snapshot
         /\ Mutated(o).revision = registry.revision + 1
         /\ Mutated(o).apps = Effect(o, registry).apps
<1> DEFINE e == Effect(o, registry)
<1>1. e \in Snapshot
  BY EffectType
<1>2. e.revision = registry.revision
  <2>1. CASE o.kind = "register"
    BY <2>1 DEF Effect, RegisterEffect, Snapshot
  <2>2. CASE o.kind \in {"claim", "transfer"}
    BY <2>2 DEF Effect, GiveAuth, Snapshot
  <2>3. CASE o.kind = "create"
    BY <2>3 DEF Effect, CreateEffect, Snapshot
  <2>4. CASE o.kind = "update"
    BY <2>4 DEF Effect, UpdateEffect, Snapshot
  <2>5. CASE o.kind = "delete"
    BY <2>5 DEF Effect, DeleteEffect, Snapshot
  <2> QED BY <2>1, <2>2, <2>3, <2>4, <2>5 DEF Operation
<1>3. Mutated(o) = [e EXCEPT !.revision = e.revision + 1]
  BY DEF Mutated
<1> HIDE DEF e
<1>4. e.revision + 1 \in Nat
  BY <1>1 DEF Snapshot
<1> QED BY <1>1, <1>2, <1>3, <1>4 DEF Snapshot, e

\* The operations of the three kinds of requests.
LEMMA CreationType ==
  ASSUME NEW r \in Request, r.kind = "create"
  PROVE  /\ Creation(r) \in Operation
         /\ Creation(r).kind = "create" /\ Creation(r).app = r.app
<1>1. r.input \in AppInput /\ r.at \in Nodes /\ r.app \in AppIds
  BY DEF Request
<1>2. [r.input EXCEPT !.node = IF @ = None THEN r.at ELSE @] \in AppInput
  BY <1>1 DEF AppInput
<1> QED BY <1>1, <1>2 DEF Creation, Operation

LEMMA ChangeType ==
  ASSUME NEW r \in Request, r.kind # "create", NEW g \in Nat,
         NEW in, r.kind = "update" => in \in AppInput
  PROVE  /\ Change(r, in, g) \in Operation
         /\ Change(r, in, g).kind = r.kind
         /\ Change(r, in, g).app = r.app
         /\ Change(r, in, g).generation = g
         /\ r.kind = "update" => Change(r, in, g).input = in
<1>1. r.app \in AppIds /\ r.kind \in {"update", "delete"}
  BY DEF Request
<1> QED BY <1>1 DEF Change, Operation

LEMMA LegacyChangeType ==
  ASSUME NEW r \in Request, r.kind # "create", NEW app \in App
  PROVE  /\ LegacyChange(r, app) \in Operation
         /\ LegacyChange(r, app).kind = r.kind
         /\ LegacyChange(r, app).app = r.app
         /\ LegacyChange(r, app).generation = app.generation
         /\ r.kind = "update" =>
              /\ LegacyChange(r, app).input.node = app.node
              /\ LegacyChange(r, app).input.grant = r.input.grant
<1> DEFINE in == IF r.input = None THEN None ELSE [r.input EXCEPT !.node = app.node]
<1>1. r.kind = "update" => /\ in \in AppInput
                           /\ in.node = app.node
                           /\ in.grant = r.input.grant
  BY DEF Request, AppInput, App
<1>2. LegacyChange(r, app) = Change(r, in, app.generation)
  BY DEF LegacyChange
<1>3. app.generation \in Nat
  BY DEF App
<1> HIDE DEF in
<1> QED BY <1>1, <1>2, <1>3, ChangeType

LEMMA LocalType ==
  ASSUME NEW s \in Snapshot, NEW n \in Nodes
  PROVE  Local(s, n) \in SUBSET LocalApp
  BY DEF Local, LocalApp, Snapshot, App

LEMMA SlugsType ==
  ASSUME NEW apps \in SUBSET LocalApp
  PROVE  Slugs(apps) \in SUBSET AppSlugs
  BY DEF Slugs, LocalApp

LEMMA InitType == Init => TypeOK
  BY KnownStart DEF Init, TypeOK, CallTypes, Steps, Stages

LEMMA FinishType ==
  ASSUME CallTypes, NEW c \in Calls, NEW answer \in Steps \ {"check", "mutate", "respond"},
         Finish(c, answer)
  PROVE  CallTypes'
  BY DEF Finish, CallTypes

\* What a step does to the calls.
LEMMA ArriveType ==
  ASSUME TypeOK, NEW c \in Calls, Arrive(c)
  PROVE  CallTypes' /\ ids' \in SUBSET AppIds
<1>1. PICK r \in Requests(c) :
        CreateApp(c, r) \/ ChangeApp(c, r) \/ ChangeLegacyApp(c, r)
  BY DEF Arrive
<1>2. r \in Request
  BY <1>1, KnownRequests
<1>3. CASE CreateApp(c, r)
  <2>1. ids' \in SUBSET AppIds /\ Creation(r) \in Operation
    BY <1>2, <1>3, CreationType DEF CreateApp, TypeOK, Request
  <2>2. CASE Finish(c, "forbidden")
    BY <2>1, <2>2, FinishType DEF TypeOK, Steps
  <2>3. CASE /\ Goto(c, "mutate")
             /\ req' = [req EXCEPT ![c] = r]
             /\ op' = [op EXCEPT ![c] = Creation(r)]
    BY <1>2, <2>1, <2>3 DEF Goto, TypeOK, CallTypes, Steps
  <2> QED BY <1>3, <2>2, <2>3 DEF CreateApp
<1>4. CASE ChangeApp(c, r)
  <2>1. r.app \in AppIds /\ (r.kind = "update" => r.input \in AppInput)
    BY <1>2 DEF Request
  <2>2. registry.apps[r.app].generation \in Nat
    BY <1>4, <2>1 DEF ChangeApp, TypeOK, Snapshot, App
  <2>3. PICK g \in 1..registry.apps[r.app].generation :
          op' = [op EXCEPT ![c] = Change(r, r.input, g)]
    BY <1>4 DEF ChangeApp
  <2>4. g \in Nat
    BY <2>2, <2>3
  <2>5. Change(r, r.input, g) \in Operation
    BY <1>2, <1>4, <2>1, <2>4, ChangeType DEF ChangeApp
  <2>6. /\ req' = [req EXCEPT ![c] = r]
        /\ \/ pc' = [pc EXCEPT ![c] = "check"]
           \/ pc' = [pc EXCEPT ![c] = "mutate"]
        /\ ids' = ids /\ r.kind # "create"
    BY <1>4 DEF ChangeApp, Goto
  <2> QED BY <1>2, <2>3, <2>5, <2>6 DEF TypeOK, CallTypes, Steps
<1>5. CASE ChangeLegacyApp(c, r)
  BY <1>2, <1>5 DEF ChangeLegacyApp, Goto, TypeOK, CallTypes, Steps
<1> QED BY <1>1, <1>3, <1>4, <1>5

\* What follows from the check's outcome "mutate".
LEMMA CheckPassed ==
  ASSUME NEW r, NEW app, CheckOutcome(r, app) = "mutate"
  PROVE  /\ r.api = "v1" => app # None
         /\ r.source = "node" => app # None /\ app.node = r.at
         /\ r.api = "v2" /\ r.input # None => r.input.node \in {None, r.at}
         /\ r.api = "v1" /\ r.kind = "update" => Cardinality(app.routes) = 1
  BY DEF CheckOutcome

LEMMA CheckType ==
  ASSUME TypeOK, NEW c \in Calls, Check(c)
  PROVE  CallTypes'
<1> DEFINE r == req[c]
           app == registry.apps[r.app]
           outcome == CheckOutcome(r, app)
<1>1. pc[c] = "check"
  BY DEF Check
<1>2. r \in Request /\ r.app \in AppIds /\ r.kind # "create"
  BY <1>1 DEF TypeOK, CallTypes, Request
<1>3. outcome \in Steps \ {"check", "respond"}
  BY DEF CheckOutcome, Steps, Refusals
<1>4. CASE outcome = "mutate" /\ Goto(c, "mutate") /\ req' = req
           /\ op' = [op EXCEPT ![c] = IF r.api = "v1" THEN LegacyChange(r, app) ELSE @]
  <2>1. (IF r.api = "v1" THEN LegacyChange(r, app) ELSE op[c]) \in Operation
    <3>1. CASE r.api = "v1"
      <4>1. app # None
        BY <1>4, <3>1, CheckPassed
      <4>2. app \in App
        BY <1>2, <4>1 DEF TypeOK, Snapshot
      <4> QED BY <1>2, <3>1, <4>2, LegacyChangeType
    <3>2. CASE r.api # "v1"
      BY <1>1, <1>2, <3>2 DEF TypeOK, CallTypes, Request
    <3> QED BY <3>1, <3>2
  <2> QED BY <1>2, <1>4, <2>1 DEF Goto, TypeOK, CallTypes, Steps
<1>5. CASE outcome # "mutate" /\ Finish(c, outcome)
  BY <1>3, <1>5, FinishType DEF TypeOK
<1>6. CASE Finish(c, "unavailable")
  BY <1>6, FinishType DEF TypeOK, Steps
<1> QED BY <1>4, <1>5, <1>6 DEF Check

\* A mutation keeps the types of its call and of the registry.
LEMMA MutateType ==
  ASSUME TypeOK, NEW c \in Calls, Mutate(c)
  PROVE  CallTypes' /\ registry' \in Snapshot
<1>1. op[c] \in Operation /\ req[c] \in Request \cup {None}
  BY DEF Mutate, TypeOK, CallTypes
<1>2. CASE /\ Outcome(op[c], registry) = "change"
           /\ registry' = Mutated(op[c])
           /\ Goto(c, "respond")
           /\ UNCHANGED <<req, op>>
  <2>1. registry' \in Snapshot
    BY <1>1, <1>2, MutatedType DEF TypeOK
  <2>2. req[c] \in Request
    BY DEF Mutate, TypeOK, CallTypes
  <2> QED BY <1>2, <2>1, <2>2 DEF Goto, TypeOK, CallTypes, Steps
<1>3. CASE Outcome(op[c], registry) # "change" /\ Finish(c, Outcome(op[c], registry))
           /\ UNCHANGED registry
  <2>1. Outcome(op[c], registry) \in Steps \ {"check", "mutate", "respond"}
    BY <1>1, <1>3, OutcomeType DEF TypeOK, Steps, Refusals
  <2> QED BY <1>3, <2>1, FinishType DEF TypeOK
<1>4. CASE Goto(c, "unavailable") /\ UNCHANGED <<registry, req, op>>
  BY <1>4 DEF Goto, TypeOK, CallTypes, Steps
<1> QED BY <1>2, <1>3, <1>4 DEF Mutate

\* So does a write that nobody waits for.
LEMMA LateMutateType ==
  ASSUME TypeOK, NEW c \in Calls, LateMutate(c)
  PROVE  CallTypes' /\ registry' \in Snapshot
<1>1. op[c] \in Operation
  BY DEF LateMutate, TypeOK, CallTypes
<1>2. registry' \in Snapshot
  BY <1>1, MutatedType DEF LateMutate, TypeOK
<1>3. pc[c] \in Steps \ {"check", "mutate", "respond"}
  BY DEF LateMutate, Steps
<1> QED BY <1>2, <1>3, FinishType DEF LateMutate, TypeOK

\* An answer triggers a process that exists.
LEMMA RespondType ==
  ASSUME TypeOK, NEW c \in Calls, Respond(c)
  PROVE  /\ CallTypes'
         /\ req[c].at \in Nodes
         /\ trigger' \in [Nodes -> BOOLEAN]
         /\ acked' \in [Nodes -> Nat]
<1>1. req[c].at \in Nodes
  BY DEF Respond, TypeOK, CallTypes, Request
<1>2. CallTypes'
  BY FinishType DEF Respond, TypeOK, Steps
<1>3. registry.revision \in Nat
  BY DEF TypeOK, Snapshot
<1> QED BY <1>1, <1>2, <1>3 DEF Respond, Trigger, TypeOK

\* The operation a starting process performs.
LEMMA BootType ==
  ASSUME TypeOK, NEW n \in Nodes, Boot(n)
  PROVE  /\ registry' \in Snapshot
         /\ \/ registry'.revision = registry.revision + 1
            \/ registry' = registry /\ registry.nodes[n] = SlugOf(n)
<1> DEFINE o == [kind |-> "register", node |-> n, slug |-> SlugOf(n)]
<1>1. o \in Operation
  BY KnownNames DEF Operation
<1>2. CASE Outcome(o, registry) = "change"
  <2>1. registry' = Mutated(o)
    BY <1>2 DEF Boot
  <2> HIDE DEF o
  <2> QED BY <1>1, <1>2, <2>1, MutatedType DEF TypeOK
<1>3. CASE Outcome(o, registry) # "change"
  <2>1. registry' = registry /\ Outcome(o, registry) # "conflict"
    BY <1>3 DEF Boot
  <2>2. Outcome(o, registry) = RegisterOutcome(o, registry)
    BY DEF Outcome
  <2>3. registry.nodes[n] = SlugOf(n)
    BY <1>3, <2>1, <2>2 DEF RegisterOutcome
  <2> QED BY <2>1, <2>3 DEF TypeOK
<1> QED BY <1>2, <1>3

\* What the broker's answer does to a process and to what it serves.
LEMMA BrokerSyncsType ==
  ASSUME TypeOK, NEW n \in Nodes, BrokerSyncs(n)
  PROVE  /\ inbox' \in [Nodes -> Seq(SUBSET AppSlugs)]
         /\ hosts' \in [Nodes -> SUBSET AppSlugs]
         /\ synced' \in [Nodes -> Nat]
         /\ stage' \in [Nodes -> Stages]
<1>1. inbox[n] \in Seq(SUBSET AppSlugs) /\ inbox[n] # << >>
  BY DEF TypeOK, BrokerSyncs
<1>2. Tail(inbox[n]) \in Seq(SUBSET AppSlugs) /\ Head(inbox[n]) \in SUBSET AppSlugs
  BY <1>1
<1>3. \A h \in Partial(hosts[n], Head(inbox[n])) : h \in SUBSET AppSlugs
  BY <1>2 DEF Partial, TypeOK
<1>4. \/ hosts' = [hosts EXCEPT ![n] = Head(inbox[n])]
      \/ \E h \in Partial(hosts[n], Head(inbox[n])) : hosts' = [hosts EXCEPT ![n] = h]
  BY DEF BrokerSyncs
<1>5. \/ \E ok \in BOOLEAN : Answered(n, ok) /\ GoOn(n)
      \/ UNCHANGED <<synced, stage>>
  BY DEF BrokerSyncs
<1>6. hosts' \in [Nodes -> SUBSET AppSlugs]
  BY <1>2, <1>3, <1>4 DEF TypeOK
<1>7. synced' \in [Nodes -> Nat] /\ stage' \in [Nodes -> Stages]
  BY <1>5 DEF Answered, GoOn, TypeOK, Stages
<1> QED BY <1>2, <1>6, <1>7 DEF BrokerSyncs, TypeOK

\* What a load leaves behind, done or failed.
LEMMA LoadType ==
  ASSUME TypeOK, NEW n \in Nodes, Load(n)
  PROVE  TypeOK'
<1> USE DEF calls
<1> DEFINE apps == Local(registry, n)
           asked == Append(inbox[n], Slugs(apps))
<1>1. apps \in SUBSET LocalApp /\ Slugs(apps) \in SUBSET AppSlugs
  BY LocalType, SlugsType DEF TypeOK
<1>2. registry.revision \in Nat /\ inbox[n] \in Seq(SUBSET AppSlugs)
  BY DEF TypeOK, Snapshot
<1>3. asked \in Seq(SUBSET AppSlugs)
  BY <1>1, <1>2
<1>4. CallTypes' /\ UNCHANGED <<registry, ids, trigger, synced, hosts>>
  BY DEF Load, TypeOK, CallTypes
<1>5. \/ /\ loaded' = [loaded EXCEPT ![n] = apps]
         /\ seen' = [seen EXCEPT ![n] = registry.revision]
         /\ \/ inbox' = [inbox EXCEPT ![n] = asked]
            \/ inbox' = [inbox EXCEPT ![n] = @]
         /\ \/ stage' = [stage EXCEPT ![n] = "asked"]
            \/ stage' = [stage EXCEPT ![n] = "write"]
         /\ UNCHANGED <<serving, acked>>
      \/ /\ EndPass(n)
         /\ acked' = [acked EXCEPT ![n] = 0]
         /\ UNCHANGED <<seen, inbox>>
  BY DEF Load
<1> HIDE DEF apps, asked
<1>6. /\ loaded' \in [Nodes -> SUBSET LocalApp] /\ seen' \in [Nodes -> Nat]
      /\ inbox' \in [Nodes -> Seq(SUBSET AppSlugs)]
  BY <1>1, <1>2, <1>3, <1>5 DEF EndPass, TypeOK
<1>7. stage' \in [Nodes -> Stages]
  BY <1>5 DEF EndPass, TypeOK, Stages
<1>8. serving' \in [Nodes -> BOOLEAN] /\ acked' \in [Nodes -> Nat]
  <2>1. serving' = serving \/ serving' = [serving EXCEPT ![n] = TRUE]
    BY <1>5 DEF EndPass
  <2>2. acked' = acked \/ acked' = [acked EXCEPT ![n] = 0]
    BY <1>5
  <2>3. serving \in [Nodes -> BOOLEAN] /\ acked \in [Nodes -> Nat]
    BY DEF TypeOK
  <2>4. serving' \in [Nodes -> BOOLEAN]
    BY <2>1, <2>3
  <2> QED BY <2>2, <2>3, <2>4
<1> QED BY <1>4, <1>6, <1>7, <1>8 DEF TypeOK

\* A restart clears the process and what it alone knew of its calls.
LEMMA RestartType ==
  ASSUME TypeOK, NEW n \in Nodes, Restart(n)
  PROVE  TypeOK'
<1> DEFINE mine == {c \in Calls : req[c] # None /\ req[c].at = n}
           writing == {c \in Calls : pc[c] \in {"mutate", "unavailable", "lost"}}
<1>1. /\ pc' = [c \in Calls |->
             IF c \in mine /\ pc[c] # "unavailable" THEN "lost" ELSE pc[c]]
      /\ req' = [c \in Calls |-> IF c \in mine \ writing THEN None ELSE req[c]]
      /\ op' = [c \in Calls |-> IF c \in mine \ writing THEN None ELSE op[c]]
  BY DEF Restart
<1> HIDE DEF mine, writing
<1>2. CallTypes'
  BY <1>1 DEF TypeOK, CallTypes, Steps
<1> QED BY <1>2 DEF Restart, outside, TypeOK, Stages

\* Every step keeps the types.
LEMMA TypeStep == TypeOK /\ [Next]_vars => TypeOK'
<1> SUFFICES ASSUME TypeOK, [Next]_vars PROVE TypeOK'
  OBVIOUS
<1> USE DEF calls, process, outside
<1>1. ASSUME NEW c \in Calls, Arrive(c) PROVE TypeOK'
  BY <1>1, ArriveType DEF Arrive, TypeOK
<1>2. ASSUME NEW c \in Calls, Check(c) PROVE TypeOK'
  BY <1>2, CheckType DEF Check, TypeOK
<1>3. ASSUME NEW c \in Calls, Mutate(c) PROVE TypeOK'
  BY <1>3, MutateType DEF Mutate, TypeOK
<1>4. ASSUME NEW c \in Calls, LateMutate(c) PROVE TypeOK'
  BY <1>4, LateMutateType DEF LateMutate, TypeOK
<1>5. ASSUME NEW c \in Calls, Respond(c) PROVE TypeOK'
  BY <1>5, RespondType DEF Respond, TypeOK
<1>6. ASSUME NEW n \in Nodes, Boot(n) PROVE TypeOK'
  BY <1>6, BootType DEF Boot, TypeOK, CallTypes, Stages
<1>7. ASSUME NEW n \in Nodes, Wake(n) PROVE TypeOK'
  BY <1>7 DEF Wake, TypeOK, CallTypes, Stages
<1>8. ASSUME NEW n \in Nodes, Load(n) PROVE TypeOK'
  BY <1>8, LoadType
<1>9. ASSUME NEW n \in Nodes, GiveUp(n) PROVE TypeOK'
  BY <1>9 DEF GiveUp, Answered, GoOn, TypeOK, CallTypes, Stages
<1>10. ASSUME NEW n \in Nodes, WriteRoutes(n) PROVE TypeOK'
  BY <1>10 DEF WriteRoutes, EndPass, TypeOK, CallTypes, Stages
<1>11. ASSUME NEW n \in Nodes, BrokerSyncs(n) PROVE TypeOK'
  BY <1>11, BrokerSyncsType DEF BrokerSyncs, TypeOK, CallTypes
<1>12. ASSUME NEW n \in Nodes, Restart(n) PROVE TypeOK'
  BY <1>12, RestartType
<1>13. CASE UNCHANGED vars
  BY <1>13 DEF vars, TypeOK, CallTypes
<1> QED
  BY <1>1, <1>2, <1>3, <1>4, <1>5, <1>6, <1>7, <1>8, <1>9, <1>10, <1>11, <1>12, <1>13
     DEF Next, Handler, Reconcile

-----------------------------------------------------------------------------
(* The reconciler: what a process has seen is never ahead of the registry. *)

NotAhead ==
  \A n \in Nodes : /\ acked[n] <= registry.revision
                  /\ seen[n] <= registry.revision
                  /\ synced[n] <= registry.revision

\* A node that is asking the broker waits for its last request, which is what
\* it has loaded.
Asking ==
  \A n \in Nodes : stage[n] = "asked" =>
     /\ inbox[n] # << >>
     /\ inbox[n][Len(inbox[n])] = Slugs(loaded[n])
     /\ seen[n] = registry.revision => loaded[n] = Local(registry, n)

\* SyncedServes, and why it stays: the broker has nothing left to do.
Settled ==
  \A n \in Nodes : synced[n] = registry.revision =>
     /\ hosts[n] = Slugs(Local(registry, n))
     /\ inbox[n] = << >>

\* Until a process has registered itself nothing has happened.
Untouched ==
  registry.revision = 0 =>
     /\ registry = EmptyRegistry
     /\ stage = [n \in Nodes |-> "boot"]

Inv == TypeOK /\ NotAhead /\ NoLostTrigger /\ Asking /\ Settled /\ Untouched

LEMMA InitInv == Init => Inv
<1> SUFFICES ASSUME Init PROVE Inv
  OBVIOUS
<1>1. TypeOK
  BY InitType
<1>2. registry.revision = 0 => registry = EmptyRegistry
  BY KnownStart DEF Init
<1>3. ASSUME NEW n \in Nodes, registry = EmptyRegistry
      PROVE  Slugs(Local(registry, n)) = {}
  BY <1>3 DEF EmptyRegistry, Local, Slugs
<1>4. NotAhead /\ NoLostTrigger /\ Asking
  BY <1>1 DEF Init, TypeOK, Snapshot, NotAhead, NoLostTrigger, Asking
<1>5. Settled /\ Untouched
  BY <1>2, <1>3 DEF Init, Settled, Untouched
<1> QED BY <1>1, <1>4, <1>5 DEF Inv

\* A change of the registry makes everything that was seen old.
LEMMA RegistryGrows ==
  ASSUME Inv, TypeOK', registry'.revision = registry.revision + 1,
         UNCHANGED <<trigger, loaded, seen, synced, inbox, hosts, acked>>,
         NEW n \in Nodes,
         \/ stage' = stage
         \/ stage[n] = "boot" /\ stage' = [stage EXCEPT ![n] = "load"]
  PROVE  Inv'
<1>1. registry.revision \in Nat /\ registry'.revision \in Nat
  BY DEF Inv, TypeOK, Snapshot
<1>2. ASSUME NEW m \in Nodes
      PROVE  /\ acked[m] < registry'.revision /\ seen[m] < registry'.revision
             /\ synced[m] < registry'.revision
  BY <1>1 DEF Inv, NotAhead, TypeOK
<1>3. \A m \in Nodes : acked[m] \in Nat /\ seen[m] \in Nat /\ synced[m] \in Nat
  BY DEF Inv, TypeOK
<1>4. \A m \in Nodes : \/ stage'[m] = stage[m]
                       \/ stage[m] = "boot" /\ stage'[m] = "load"
  BY DEF Inv, TypeOK
<1>5. NotAhead' /\ Settled'
  BY <1>1, <1>2, <1>3 DEF NotAhead, Settled
<1>6. Asking' /\ NoLostTrigger'
  BY <1>1, <1>2, <1>3, <1>4 DEF Inv, Asking, NoLostTrigger
<1>7. Untouched'
  BY <1>1 DEF Untouched
<1> QED BY <1>5, <1>6, <1>7 DEF Inv

\* Boot and the two ways a call changes the registry.
LEMMA BootInv ==
  ASSUME Inv, TypeOK', NEW n \in Nodes, Boot(n)
  PROVE  Inv'
<1>1. /\ UNCHANGED <<trigger, loaded, seen, synced, inbox, hosts, acked>>
      /\ stage[n] = "boot" /\ stage' = [stage EXCEPT ![n] = "load"]
  BY DEF Boot, outside
<1>2. CASE registry'.revision = registry.revision + 1
  BY <1>1, <1>2, RegistryGrows
<1>3. CASE registry' = registry /\ registry.nodes[n] = SlugOf(n)
  <2>1. registry.revision # 0
    <3>1. EmptyRegistry.nodes[n] = None
      BY DEF EmptyRegistry
    <3>2. SlugOf(n) # None
      BY KnownNames, Absent
    <3> QED BY <1>3, <3>1, <3>2 DEF Inv, Untouched
  <2>2. \A m \in Nodes : stage'[m] = stage[m] \/ stage'[m] = "load"
    BY <1>1 DEF Inv, TypeOK
  <2> QED
    BY <1>1, <1>3, <2>1, <2>2
       DEF Inv, NotAhead, NoLostTrigger, Asking, Settled, Untouched
<1> QED BY <1>2, <1>3, BootType DEF Inv

LEMMA WriteInv ==
  ASSUME Inv, TypeOK', NEW c \in Calls, Mutate(c) \/ LateMutate(c)
  PROVE  Inv'
<1>1. UNCHANGED <<stage, trigger, loaded, seen, synced, inbox, hosts, acked>>
  BY DEF Mutate, LateMutate, process, outside
<1>2. op[c] \in Operation
  BY DEF Inv, TypeOK, CallTypes, Mutate, LateMutate
<1>3. registry' = registry \/ registry'.revision = registry.revision + 1
  BY <1>2, MutatedType DEF Mutate, LateMutate, Inv, TypeOK
<1>4. CASE registry' = registry
  BY <1>1, <1>4 DEF Inv, NotAhead, NoLostTrigger, Asking, Settled, Untouched
<1>5. CASE registry'.revision = registry.revision + 1
  <2>1. CASE Nodes = {}
    BY <1>5, <2>1 DEF Inv, TypeOK, Snapshot, NotAhead, NoLostTrigger, Asking, Settled, Untouched
  <2>2. CASE Nodes # {}
    BY <1>1, <1>5, <2>2, RegistryGrows
  <2> QED BY <2>1, <2>2
<1> QED BY <1>3, <1>4, <1>5

LEMMA RespondInv ==
  ASSUME Inv, TypeOK', NEW c \in Calls, Respond(c)
  PROVE  Inv'
<1> DEFINE n == req[c].at
<1>1. n \in Nodes
  BY RespondType DEF Inv
<1>2. /\ UNCHANGED <<registry, stage, loaded, seen, synced, inbox, hosts>>
      /\ trigger' = [trigger EXCEPT ![n] = TRUE]
      /\ acked' = [acked EXCEPT ![n] = registry.revision]
  BY DEF Respond, Trigger, outside
<1> HIDE DEF n
<1>3. registry.revision \in Nat
  BY DEF Inv, TypeOK, Snapshot
<1>4. NotAhead' /\ NoLostTrigger'
  BY <1>1, <1>2, <1>3 DEF Inv, TypeOK, NotAhead, NoLostTrigger
<1> QED BY <1>2, <1>4 DEF Inv, Asking, Settled, Untouched

\* A load asks for what it has seen, unless it is what the broker has.
LEMMA LoadInv ==
  ASSUME Inv, TypeOK', NEW n \in Nodes, Load(n)
  PROVE  Inv'
<1> DEFINE apps == Local(registry, n)
           asked == Append(inbox[n], Slugs(apps))
           due == synced[n] # registry.revision
<1>1. stage[n] = "load" /\ UNCHANGED <<registry, trigger, synced, hosts>>
  BY DEF Load
<1>2. /\ asked # << >> /\ asked[Len(asked)] = Slugs(apps)
  <2>1. inbox[n] \in Seq(SUBSET AppSlugs) /\ Slugs(apps) \in SUBSET AppSlugs
    BY LocalType, SlugsType DEF Inv, TypeOK
  <2> HIDE DEF apps
  <2> QED BY <2>1
<1>3. registry.revision \in Nat /\ registry.revision # 0
  BY <1>1 DEF Inv, Untouched, TypeOK, Snapshot
<1>4. CASE /\ loaded' = [loaded EXCEPT ![n] = apps]
           /\ seen' = [seen EXCEPT ![n] = registry.revision]
           /\ inbox' = [inbox EXCEPT ![n] = IF due THEN asked ELSE @]
           /\ stage' = [stage EXCEPT ![n] = IF due THEN "asked" ELSE "write"]
           /\ UNCHANGED <<serving, acked>>
  <2> USE <1>1, <1>3, <1>4 DEF Inv, TypeOK
  <2>1. NotAhead' /\ Untouched'
    BY DEF NotAhead, Untouched
  <2>2. NoLostTrigger'
    BY DEF NotAhead, NoLostTrigger
  <2>3. Settled'
    BY DEF Settled
  <2>4. Asking'
    <3> SUFFICES ASSUME NEW m \in Nodes, stage'[m] = "asked"
                 PROVE  /\ inbox'[m] # << >>
                        /\ inbox'[m][Len(inbox'[m])] = Slugs(loaded'[m])
                        /\ seen'[m] = registry.revision => loaded'[m] = Local(registry, m)
      BY DEF Asking
    <3>1. CASE m = n
      BY <1>2, <3>1
    <3>2. CASE m # n
      BY <3>2 DEF Asking
    <3> QED BY <3>1, <3>2
  <2> QED BY <2>1, <2>2, <2>3, <2>4
<1>5. CASE /\ EndPass(n)
           /\ acked' = [acked EXCEPT ![n] = 0]
           /\ UNCHANGED <<seen, inbox>>
  BY <1>1, <1>3, <1>5
     DEF EndPass, Inv, TypeOK, NotAhead, NoLostTrigger, Asking, Settled, Untouched
<1> QED BY <1>4, <1>5 DEF Load

\* What is left of a sequence without its head.
LEMMA TailLast ==
  ASSUME NEW S, NEW s \in Seq(S), s # << >>
  PROVE  /\ Len(s) = 1 => Tail(s) = << >> /\ Head(s) = s[Len(s)]
         /\ Len(s) # 1 => Tail(s) # << >> /\ Tail(s)[Len(Tail(s))] = s[Len(s)]
<1> DEFINE t == Tail(s)
<1>1. /\ t \in Seq(S) /\ Len(t) = Len(s) - 1 /\ Len(s) \in Nat \ {0}
      /\ \A i \in 1..Len(Tail(s)) : Tail(s)[i] = s[i + 1]
      /\ Head(s) = s[1]
  BY HeadTailProperties, EmptySeq
<1>2. Len(s) = 1 => Tail(s) = << >>
  <2>1. \A u \in Seq(S) : u # << >> => Len(u) # 0
    BY EmptySeq
  <2>2. Len(s) = 1 => Len(t) = 0
    BY <1>1
  <2> HIDE DEF t
  <2>3. Len(s) = 1 => t = << >>
    BY <1>1, <2>1, <2>2
  <2> QED BY <2>3 DEF t
<1>3. Len(s) # 1 => Len(Tail(s)) \in 1..Len(Tail(s)) /\ Len(Tail(s)) # 0
  BY <1>1
<1>4. Len(s) # 1 => Tail(s) # << >>
  BY <1>1, <1>3, EmptySeq
<1> QED BY <1>1, <1>2, <1>3, <1>4

\* The answer to the last request is about what the node has loaded.
LEMMA BrokerSyncsInv ==
  ASSUME Inv, TypeOK', NEW n \in Nodes, BrokerSyncs(n)
  PROVE  Inv'
<1> DEFINE answers == stage[n] = "asked" /\ Len(inbox[n]) = 1
<1>1. /\ inbox[n] # << >> /\ inbox[n] \in Seq(SUBSET AppSlugs)
      /\ inbox' = [inbox EXCEPT ![n] = Tail(@)]
      /\ UNCHANGED <<registry, trigger, loaded, seen, acked>>
  BY DEF BrokerSyncs, Inv, TypeOK
<1>2. PICK ok \in BOOLEAN :
        /\ ok => hosts' = [hosts EXCEPT ![n] = Head(inbox[n])]
        /\ \E h : hosts' = [hosts EXCEPT ![n] = h]
        /\ IF answers THEN Answered(n, ok) /\ GoOn(n) ELSE UNCHANGED <<synced, stage>>
  BY DEF BrokerSyncs
<1>3. synced[n] # registry.revision
  BY <1>1 DEF Inv, Settled
<1>4. registry.revision \in Nat
  BY DEF Inv, TypeOK, Snapshot
<1>5. /\ \A m \in Nodes \ {n} : /\ stage'[m] = stage[m] /\ synced'[m] = synced[m]
                                /\ hosts'[m] = hosts[m] /\ inbox'[m] = inbox[m]
      /\ stage'[n] = IF answers THEN "write" ELSE stage[n]
      /\ synced'[n] = IF answers /\ ok THEN seen[n] ELSE synced[n]
      /\ inbox'[n] = Tail(inbox[n])
      /\ ok => hosts'[n] = Head(inbox[n])
  BY <1>1, <1>2 DEF Answered, GoOn, Inv, TypeOK
<1>6. NotAhead' /\ NoLostTrigger'
  BY <1>1, <1>4, <1>5 DEF Inv, TypeOK, NotAhead, NoLostTrigger
<1>7. Asking'
  <2>1. CASE stage'[n] = "asked"
    <3>1. stage[n] = "asked" /\ Len(inbox[n]) # 1
      BY <1>5, <2>1
    <3>2. Tail(inbox[n]) # << >> /\ Tail(inbox[n])[Len(Tail(inbox[n]))] = inbox[n][Len(inbox[n])]
      BY <1>1, <3>1, TailLast
    <3> QED BY <1>1, <1>5, <3>1, <3>2 DEF Inv, Asking
  <2>2. CASE stage'[n] # "asked"
    BY <1>1, <1>5, <2>2 DEF Inv, Asking
  <2> QED BY <2>1, <2>2
<1>8. Settled'
  <2>1. CASE answers /\ ok /\ seen[n] = registry.revision
    <3>1. Head(inbox[n]) = inbox[n][Len(inbox[n])] /\ Tail(inbox[n]) = << >>
      BY <1>1, <2>1, TailLast
    <3>2. hosts'[n] = Slugs(Local(registry, n)) /\ inbox'[n] = << >>
      BY <1>5, <2>1, <3>1 DEF Inv, Asking
    <3> QED BY <1>1, <1>5, <3>2 DEF Inv, Settled
  <2>2. CASE ~(answers /\ ok /\ seen[n] = registry.revision)
    BY <1>1, <1>3, <1>5, <2>2 DEF Inv, Settled
  <2> QED BY <2>1, <2>2
<1>9. Untouched'
  <2>1. registry.revision = 0 => stage[n] # "asked"
    BY DEF Inv, Untouched
  <2> QED BY <1>1, <1>2, <2>1 DEF Inv, Untouched
<1> QED BY <1>6, <1>7, <1>8, <1>9 DEF Inv

\* A restarted process has seen nothing, and the registry is not empty.
LEMMA RestartInv ==
  ASSUME Inv, TypeOK', NEW n \in Nodes, Restart(n)
  PROVE  Inv'
<1>1. /\ stage[n] # "boot" /\ UNCHANGED <<registry, inbox, hosts>>
      /\ stage' = [stage EXCEPT ![n] = "boot"]
      /\ trigger' = [trigger EXCEPT ![n] = FALSE]
      /\ loaded' = [loaded EXCEPT ![n] = {}]
      /\ seen' = [seen EXCEPT ![n] = 0]
      /\ synced' = [synced EXCEPT ![n] = 0]
      /\ acked' = [acked EXCEPT ![n] = 0]
  BY DEF Restart, outside
<1>2. registry.revision \in Nat /\ registry.revision # 0
  BY <1>1 DEF Inv, Untouched, TypeOK, Snapshot
<1> QED
  BY <1>1, <1>2
     DEF Inv, TypeOK, NotAhead, NoLostTrigger, Asking, Settled, Untouched

LEMMA InvStep == Inv /\ [Next]_vars => Inv'
<1> SUFFICES ASSUME Inv, [Next]_vars PROVE Inv'
  OBVIOUS
<1>0. TypeOK'
  BY TypeStep DEF Inv
<1> DEFINE reconciler == <<registry, trigger, loaded, seen, synced, inbox, hosts, acked>>
<1>1. ASSUME UNCHANGED <<reconciler, stage>> PROVE Inv'
  BY <1>0, <1>1 DEF Inv, NotAhead, NoLostTrigger, Asking, Settled, Untouched
<1>2. ASSUME NEW c \in Calls, Handler(c) PROVE Inv'
  <2>1. CASE Arrive(c) \/ Check(c)
    BY <1>1, <2>1 DEF Arrive, Check, process, outside
  <2> QED BY <1>0, <1>2, <2>1, WriteInv, RespondInv DEF Handler
<1>3. ASSUME NEW n \in Nodes, Wake(n) \/ GiveUp(n) \/ WriteRoutes(n) PROVE Inv'
  <2>1. /\ UNCHANGED <<registry, seen, synced, inbox, hosts, acked>>
        /\ stage[n] \in {"wait", "asked", "write"}
        /\ \/ stage' = [stage EXCEPT ![n] = "load"]
           \/ UNCHANGED trigger /\ stage' = [stage EXCEPT ![n] = "write"]
           \/ UNCHANGED trigger /\ stage' = [stage EXCEPT ![n] = "wait"]
        /\ \A m \in Nodes \ {n} : trigger'[m] = trigger[m] /\ loaded'[m] = loaded[m]
    BY <1>3 DEF Wake, GiveUp, WriteRoutes, EndPass, GoOn, Answered, outside, Inv, TypeOK
  <2>2. /\ \A m \in Nodes \ {n} : stage'[m] = stage[m]
        /\ stage'[n] \in {"load", "write", "wait"}
        /\ stage'[n] = "load" \/ trigger'[n] = trigger[n]
    BY <2>1 DEF Inv, TypeOK
  <2>3. registry.revision # 0
    BY <2>1 DEF Inv, Untouched
  <2> QED
    BY <1>0, <2>1, <2>2, <2>3 DEF Inv, NotAhead, NoLostTrigger, Asking, Settled, Untouched
<1>4. ASSUME NEW n \in Nodes, Boot(n) \/ Load(n) \/ BrokerSyncs(n) \/ Restart(n) PROVE Inv'
  BY <1>0, <1>4, BootInv, LoadInv, BrokerSyncsInv, RestartInv
<1>5. CASE UNCHANGED vars
  BY <1>1, <1>5 DEF vars, process, outside
<1> QED BY <1>2, <1>3, <1>4, <1>5 DEF Next, Reconcile

\* The inductive invariant holds of every behaviour.
THEOREM ReconcilerInvariant == Spec => []Inv
  BY InitInv, InvStep, PTL DEF Spec

\* A trigger sent during a pass, or dropped because one was pending, is not
\* lost: an answered change has been loaded, or is about to be
\* (reconcile.go:33-38).
THEOREM TriggersAreKept == Spec => []NoLostTrigger
<1>1. Inv => NoLostTrigger
  BY DEF Inv
<1> QED BY <1>1, ReconcilerInvariant, PTL

\* The broker has what the registry says whenever the reconciler believes so
\* and does not ask again, whatever became of earlier requests
\* (reconcile.go:75-85).
THEOREM SyncedIsServed == Spec => []SyncedServes
<1>1. Inv => SyncedServes
  BY DEF Inv, Settled, SyncedServes
<1> QED BY <1>1, ReconcilerInvariant, PTL

-----------------------------------------------------------------------------
(* The calls: between its check and its write a call meets no other state  *)
(* than the one its generation names.                                      *)

Holds(c) == op[c] # None /\ pc[c] \in {"check", "mutate", "unavailable", "lost"}
Passed(c) == op[c] # None /\ pc[c] \in {"mutate", "unavailable", "lost"}

\* The application is as it was when the operation was given its generation.
Current(c) ==
  /\ registry.apps[op[c].app] # None
  /\ registry.apps[op[c].app].generation = op[c].generation

Fits(c) ==
  /\ req[c] \in Request /\ op[c] \in Operation
  /\ op[c].kind = req[c].kind /\ op[c].app = req[c].app
  /\ op[c].app \in ids

\* Nobody else knows the id of an application that is being created.
Fresh(c) ==
  /\ registry.apps[op[c].app] = None
  /\ \A d \in Calls \ {c} : Holds(d) => op[d].app # op[c].app

NoLaterGeneration(c) ==
  registry.apps[op[c].app] # None =>
    op[c].generation <= registry.apps[op[c].app].generation

\* What the check has found of a node's own request, and of a v1 update.
Checked(c) ==
  /\ req[c].source = "node" =>
       /\ op[c].kind = "create" => op[c].input.node = req[c].at
       /\ op[c].kind = "update" => op[c].input.node \in {None, req[c].at} \/ req[c].api = "v1"
       /\ op[c].kind # "create" /\ Current(c) =>
            registry.apps[op[c].app].node = req[c].at
  /\ req[c].api = "v1" /\ op[c].kind = "update" =>
       /\ op[c].input.grant = None
       /\ Current(c) =>
            /\ op[c].input.node = registry.apps[op[c].app].node
            /\ Cardinality(registry.apps[op[c].app].routes) = 1

CallOK(c) ==
  /\ pc[c] = "idle" => op[c] = None
  /\ Holds(c) =>
       /\ Fits(c)
       /\ op[c].kind = "create" => Fresh(c)
       /\ op[c].kind # "create" => NoLaterGeneration(c)
       /\ pc[c] = "check" /\ op[c].kind = "update" => op[c].input = req[c].input
       /\ Passed(c) => Checked(c)

CallInv ==
  /\ \A a \in AppIds : registry.apps[a] # None => a \in ids
  /\ \A c \in Calls : CallOK(c)

\* What an operation does to the applications.
LEMMA EffectOnApps ==
  ASSUME TypeOK, NEW o \in Operation, Outcome(o, registry) = "change",
         o.kind \in {"create", "update", "delete"}
  PROVE  LET before == registry.apps[o.app]
             after == Mutated(o).apps[o.app]
         IN  /\ o.app \in AppIds
             /\ \A a \in AppIds \ {o.app} : Mutated(o).apps[a] = registry.apps[a]
             /\ o.kind = "create" => after.node = o.input.node
             /\ o.kind # "create" => before # None /\ before.generation = o.generation
             /\ o.kind = "update" =>
                  /\ after.generation = before.generation + 1
                  /\ after.node = (IF o.input.node = None THEN before.node ELSE o.input.node)
                  /\ o.input.grant = None => after.grant = before.grant
             /\ o.kind = "delete" => after = None
<1> DEFINE before == registry.apps[o.app]
<1>1. Mutated(o).apps = Effect(o, registry).apps
  BY MutatedType DEF TypeOK
<1>2. /\ registry.apps \in [AppIds -> App \cup {None}] /\ registry \in Snapshot
      /\ o.app \in AppIds
  BY DEF TypeOK, Snapshot, Operation
<1>3. o.kind # "create" => before # None /\ before.generation = o.generation
  BY DEF Outcome, UpdateOutcome, AtGeneration
<1>4. CASE o.kind = "create"
  <2>1. Effect(o, registry).apps =
          [registry.apps EXCEPT ![o.app] = BuildApp(o.input, registry, 1)]
    BY <1>2, <1>4 DEF Effect, CreateEffect, Snapshot
  <2>2. BuildApp(o.input, registry, 1).node = o.input.node
    BY DEF BuildApp
  <2> QED BY <1>1, <1>2, <1>4, <2>1, <2>2
<1>5. CASE o.kind = "update"
  <2>1. Effect(o, registry).apps =
          [registry.apps EXCEPT ![o.app] =
             BuildApp(Merged(o.input, before), registry, before.generation + 1)]
    BY <1>2, <1>5 DEF Effect, UpdateEffect, Snapshot
  <2>2. o.input \in AppInput /\ before \in App
    BY <1>2, <1>3, <1>5 DEF Operation
  <2> DEFINE merged == Merged(o.input, before)
             after == BuildApp(merged, registry, before.generation + 1)
  <2>3. merged.node = IF o.input.node = None THEN before.node ELSE o.input.node
    BY <2>2 DEF Merged, AppInput
  <2>4. o.input.grant = None => merged.grant = before.grant /\ before.grant # None
    BY <2>2, NoneIsNothing DEF Merged, AppInput, App
  <2>5. /\ after.generation = before.generation + 1
        /\ after.node = merged.node
        /\ merged.grant # None => after.grant = merged.grant
    BY DEF BuildApp
  <2> HIDE DEF merged, after
  <2>6. Mutated(o).apps = [registry.apps EXCEPT ![o.app] = after]
    BY <1>1, <2>1 DEF after, merged
  <2> QED BY <1>2, <1>3, <1>5, <2>3, <2>4, <2>5, <2>6
<1>6. CASE o.kind = "delete"
  BY <1>1, <1>2, <1>3, <1>6 DEF Effect, DeleteEffect, Snapshot
<1> QED BY <1>4, <1>5, <1>6

LEMMA InitCalls == Init => CallInv
  BY DEF Init, CallInv, CallOK, Holds

\* A call is not concerned by what happens to others while the applications
\* stay the same, nor by being given up once its write is on its way.
LEMMA CallStays ==
  ASSUME TypeOK, CallInv, registry'.apps = registry.apps, ids \subseteq ids',
         NEW c \in Calls, UNCHANGED <<req[c], op[c]>>,
         \/ pc'[c] = pc[c]
         \/ Passed(c) /\ pc'[c] \in {"unavailable", "lost"},
         \A d \in Calls \ {c} : Holds(d)' =>
            \/ Holds(d) /\ op'[d].app = op[d].app
            \/ op'[d].app \notin ids
            \/ registry.apps[op'[d].app] # None
  PROVE  CallOK(c)'
<1>1. CallOK(c)
  BY DEF CallInv
<1>2. /\ Holds(c)' <=> Holds(c)
      /\ Passed(c)' <=> Passed(c)
      /\ pc'[c] = "idle" <=> pc[c] = "idle"
      /\ pc'[c] = "check" <=> pc[c] = "check"
  BY DEF Holds, Passed
<1>3. CASE ~Holds(c)
  BY <1>1, <1>2, <1>3 DEF CallOK
<1>4. CASE Holds(c)
  <2>1. op[c].kind = "create" => Fresh(c)'
    BY <1>1, <1>4 DEF CallOK, Fresh, Fits
  <2>2. Current(c)' <=> Current(c)
    BY DEF Current
  <2>3. Passed(c) => Checked(c)'
    BY <1>1, <1>4, <2>2 DEF CallOK, Checked
  <2>4. op[c].kind # "create" => NoLaterGeneration(c)'
    BY <1>1, <1>4 DEF CallOK, NoLaterGeneration
  <2>5. Fits(c)'
    BY <1>1, <1>4 DEF CallOK, Fits
  <2> QED BY <1>1, <1>2, <1>4, <2>1, <2>3, <2>4, <2>5 DEF CallOK
<1> QED BY <1>3, <1>4

\* A call is not concerned by another call's write either: the generation has
\* moved on, or the application is gone.
LEMMA OthersOutlive ==
  ASSUME TypeOK, TypeOK', CallInv, NEW b \in Calls, Passed(b),
         Outcome(op[b], registry) = "change", registry' = Mutated(op[b]), ids' = ids,
         NEW c \in Calls \ {b}, UNCHANGED <<pc[c], req[c], op[c]>>,
         \A d \in Calls \ {c} : Holds(d)' => Holds(d) /\ op'[d].app = op[d].app
  PROVE  CallOK(c)'
<1>1. CallOK(c) /\ CallOK(b) /\ Holds(b)
  BY DEF CallInv, Holds, Passed
<1>2. (Holds(c)' <=> Holds(c)) /\ (Passed(c)' <=> Passed(c))
  BY DEF Holds, Passed
<1>3. CASE ~Holds(c)
  BY <1>1, <1>2, <1>3 DEF CallOK
<1>4. CASE Holds(c)
  <2>0. pc'[c] # "idle"
    BY <1>4 DEF Holds
  <2> DEFINE a == op[c].app
  <2>1. Fits(b) /\ Fits(c) /\ op[b] \in Operation /\ op[c] \in Operation
    BY <1>1, <1>4 DEF CallOK, Fits
  <2>2. op[b].kind \in {"create", "update", "delete"}
    BY <2>1 DEF Fits, Request
  <2>3. Fits(c)'
    BY <2>1 DEF Fits
  <2>4. CASE op[b].app # a
    <3>1. registry'.apps[a] = registry.apps[a]
      BY <2>1, <2>2, <2>4, EffectOnApps DEF Fits, Request
    <3>2. op[c].kind = "create" => Fresh(c)'
      BY <1>1, <1>4, <3>1 DEF CallOK, Fresh
    <3>3. Current(c)' = Current(c)
      BY <3>1 DEF Current
    <3> HIDE DEF a
    <3>4. op[c].kind # "create" => NoLaterGeneration(c)'
      BY <1>1, <1>4, <3>1 DEF CallOK, NoLaterGeneration, a
    <3>5. Passed(c) => Checked(c)'
      BY <1>1, <1>4, <3>1, <3>3 DEF CallOK, Checked, a
    <3> QED BY <1>1, <1>2, <1>4, <2>0, <2>3, <3>2, <3>4, <3>5 DEF CallOK
  <2>5. CASE op[b].app = a
    <3>1. op[b].kind # "create" /\ op[c].kind # "create"
      BY <1>1, <1>4, <2>5 DEF CallOK, Fresh
    <3>2. /\ registry.apps[a] # None
          /\ op[c].generation <= registry.apps[a].generation
          /\ registry'.apps[a] # None =>
               registry'.apps[a].generation = registry.apps[a].generation + 1
      BY <1>1, <1>4, <2>1, <2>2, <2>5, <3>1, EffectOnApps DEF CallOK, NoLaterGeneration
    <3>3. op[c].generation \in Nat /\ registry.apps[a].generation \in Nat
      BY <2>1, <2>5, <3>1, <3>2 DEF Operation, TypeOK, Snapshot, App, Fits, Request
    <3>4. NoLaterGeneration(c)' /\ ~Current(c)'
      BY <3>2, <3>3 DEF NoLaterGeneration, Current
    <3>5. Passed(c) => Checked(c)'
      BY <1>1, <1>2, <1>4, <3>1, <3>4 DEF CallOK, Checked
    <3> QED BY <1>1, <1>2, <1>4, <2>0, <2>3, <3>1, <3>4, <3>5 DEF CallOK
  <2> QED BY <2>4, <2>5
<1> QED BY <1>3, <1>4

\* A call that has ended holds nothing.
LEMMA EndsOK ==
  ASSUME TypeOK, NEW c \in Calls, NEW answer, Finish(c, answer), answer # "idle"
  PROVE  CallOK(c)'
  BY DEF Finish, TypeOK, CallTypes, CallOK, Holds

LEMMA ArriveCalls ==
  ASSUME TypeOK, CallInv, NEW c \in Calls, Arrive(c)
  PROVE  CallInv'
<1>1. PICK r \in Requests(c) :
        CreateApp(c, r) \/ ChangeApp(c, r) \/ ChangeLegacyApp(c, r)
  BY DEF Arrive
<1>2. r \in Request /\ r.app \in AppIds /\ r.at \in Nodes
  BY <1>1, KnownRequests DEF Request
<1>3. registry' = registry /\ ids \subseteq ids'
  BY <1>1 DEF Arrive, CreateApp, ChangeApp, ChangeLegacyApp
<1>4. \A d \in Calls \ {c} : UNCHANGED <<pc[d], req[d], op[d]>> /\ (Holds(d)' <=> Holds(d))
  <2>1. \A d \in Calls \ {c} : pc'[d] = pc[d] /\ req'[d] = req[d] /\ op'[d] = op[d]
    BY <1>1 DEF CreateApp, ChangeApp, ChangeLegacyApp, Finish, Goto, TypeOK, CallTypes
  <2> QED BY <2>1 DEF Holds
<1>5. CallOK(c)' /\ (Holds(c)' => op'[c].app \notin ids \/ registry.apps[op'[c].app] # None)
  <2>1. CASE CreateApp(c, r) /\ Finish(c, "forbidden")
    <3>1. ~Holds(c)'
      BY <2>1 DEF Finish, TypeOK, CallTypes, Holds
    <3> QED BY <2>1, <3>1, EndsOK
  <2>2. CASE /\ CreateApp(c, r)
             /\ ~(r.source = "node" /\ Creation(r).input.node # r.at)
             /\ Goto(c, "mutate")
             /\ req' = [req EXCEPT ![c] = r]
             /\ op' = [op EXCEPT ![c] = Creation(r)]
    <3>1. /\ r.kind = "create" /\ r.app \notin ids /\ r.app \in ids'
          /\ Creation(r) \in Operation
          /\ Creation(r).kind = "create" /\ Creation(r).app = r.app
      BY <1>2, <2>2, CreationType DEF CreateApp
    <3>2. pc'[c] = "mutate" /\ req'[c] = r /\ op'[c] = Creation(r)
      BY <2>2 DEF Goto, TypeOK, CallTypes
    <3>3. registry.apps[r.app] = None
      BY <1>2, <3>1 DEF CallInv
    <3>4. \A d \in Calls \ {c} : Holds(d) => op[d].app # r.app
      BY <3>1 DEF CallInv, CallOK, Fits
    <3>5. Fits(c)' /\ Fresh(c)'
      BY <1>2, <1>3, <1>4, <3>1, <3>2, <3>3, <3>4 DEF Fits, Fresh
    <3>6. Checked(c)'
      BY <2>2, <3>1, <3>2 DEF Checked
    <3> QED BY <3>1, <3>2, <3>5, <3>6 DEF CallOK
  <2>3. CASE ChangeApp(c, r)
    <3>1. /\ r.kind # "create" /\ r.api = "v2" /\ registry.apps[r.app] # None
          /\ registry.apps[r.app].generation \in Nat
      BY <1>2, <2>3 DEF ChangeApp, TypeOK, Snapshot, App
    <3>2. PICK g \in 1..registry.apps[r.app].generation :
            op' = [op EXCEPT ![c] = Change(r, r.input, g)]
      BY <2>3 DEF ChangeApp
    <3>3. g \in Nat /\ g <= registry.apps[r.app].generation
      BY <3>1, <3>2
    <3>4. /\ Change(r, r.input, g) \in Operation
          /\ Change(r, r.input, g).kind = r.kind
          /\ Change(r, r.input, g).app = r.app
          /\ Change(r, r.input, g).generation = g
          /\ r.kind = "update" => Change(r, r.input, g).input = r.input
      <4>1. r.kind = "update" => r.input \in AppInput
        BY <1>2 DEF Request
      <4> QED BY <1>2, <3>1, <3>3, <4>1, ChangeType
    <3>5. /\ pc'[c] = (IF r.source = "node" THEN "check" ELSE "mutate")
          /\ req'[c] = r /\ op'[c] = Change(r, r.input, g)
      BY <2>3, <3>2 DEF ChangeApp, Goto, TypeOK, CallTypes
    <3>6. r.app \in ids'
      BY <1>2, <1>3, <3>1 DEF CallInv
    <3>7. Fits(c)' /\ NoLaterGeneration(c)'
      BY <1>2, <1>3, <3>1, <3>3, <3>4, <3>5, <3>6 DEF Fits, NoLaterGeneration
    <3>8. Passed(c)' => Checked(c)'
      BY <3>1, <3>4, <3>5 DEF Passed, Checked
    <3> QED BY <3>1, <3>4, <3>5, <3>7, <3>8 DEF CallOK
  <2>4. CASE ChangeLegacyApp(c, r)
    <3>1. op[c] = None
      BY DEF Arrive, CallInv, CallOK
    <3>2. ~Holds(c)' /\ pc'[c] # "idle"
      BY <2>4, <3>1 DEF ChangeLegacyApp, Goto, TypeOK, CallTypes, Holds
    <3> QED BY <3>2 DEF CallOK
  <2> QED BY <1>1, <2>1, <2>2, <2>3, <2>4 DEF CreateApp
<1>6. ASSUME NEW d \in Calls \ {c} PROVE CallOK(d)'
  BY <1>3, <1>4, <1>5, CallStays
<1> QED BY <1>3, <1>5, <1>6 DEF CallInv

\* A step of call c that leaves the registry and its ids alone, and in which c
\* does not come to hold another application.
LEMMA OnlyOne ==
  ASSUME TypeOK, CallInv, registry' = registry, ids' = ids, NEW c \in Calls, CallOK(c)',
         \A d \in Calls \ {c} : UNCHANGED <<pc[d], req[d], op[d]>>,
         Holds(c)' => \/ Holds(c) /\ op'[c].app = op[c].app
                     \/ registry.apps[op'[c].app] # None
  PROVE  CallInv'
<1>1. \A d \in Calls \ {c} : Holds(d)' <=> Holds(d)
  BY DEF Holds
<1>2. ASSUME NEW d \in Calls \ {c} PROVE CallOK(d)'
  BY <1>1, CallStays
<1> QED BY <1>2 DEF CallInv

LEMMA CheckCalls ==
  ASSUME TypeOK, CallInv, NEW c \in Calls, Check(c)
  PROVE  CallInv'
<1> DEFINE r == req[c]
           app == registry.apps[r.app]
           outcome == CheckOutcome(r, app)
<1>1. /\ pc[c] = "check" /\ r \in Request /\ r.app \in AppIds /\ r.kind # "create"
      /\ r.api \in {"v1", "v2"}
  BY DEF Check, TypeOK, CallTypes, Request
<1>2. registry' = registry /\ ids' = ids
  BY DEF Check
<1>3. \A d \in Calls \ {c} : UNCHANGED <<pc[d], req[d], op[d]>>
  BY DEF Check, Finish, Goto, TypeOK, CallTypes
<1>4. CASE \/ outcome # "mutate" /\ Finish(c, outcome)
           \/ Finish(c, "unavailable")
  <2>1. ~Holds(c)'
    BY <1>4 DEF Finish, TypeOK, CallTypes, Holds
  <2>2. outcome # "idle"
    BY DEF CheckOutcome
  <2>3. CallOK(c)'
    BY <1>4, <2>2, EndsOK
  <2> QED BY <1>2, <1>3, <2>1, <2>3, OnlyOne
<1>5. CASE /\ outcome = "mutate" /\ Goto(c, "mutate") /\ UNCHANGED req
           /\ op' = [op EXCEPT ![c] = IF r.api = "v1" THEN LegacyChange(r, app) ELSE @]
  <2>1. /\ pc'[c] = "mutate" /\ req'[c] = r
        /\ op'[c] = IF r.api = "v1" THEN LegacyChange(r, app) ELSE op[c]
    BY <1>5 DEF Goto, TypeOK, CallTypes
  <2>2. /\ r.api = "v1" => app # None
        /\ r.source = "node" => app # None /\ app.node = r.at
        /\ r.api = "v2" /\ r.input # None => r.input.node \in {None, r.at}
        /\ r.api = "v1" /\ r.kind = "update" => Cardinality(app.routes) = 1
    BY <1>5, CheckPassed
  <2> HIDE DEF outcome
  <2>3. CASE r.api = "v1"
    <3>1. app \in App /\ r.app \in ids
      BY <1>1, <2>2, <2>3 DEF TypeOK, Snapshot, CallInv
    <3> DEFINE o == LegacyChange(r, app)
    <3>2. /\ o \in Operation /\ o.kind = r.kind /\ o.app = r.app
          /\ o.generation = app.generation
          /\ r.kind = "update" => o.input.node = app.node /\ o.input.grant = r.input.grant
      BY <1>1, <3>1, LegacyChangeType
    <3>3. r.kind = "update" => r.input.grant = None
      BY <1>1, <2>3 DEF Request
    <3>4. op'[c] = o
      BY <2>1, <2>3
    <3> HIDE DEF o
    <3>5. Fits(c)'
      BY <1>1, <1>2, <2>1, <3>1, <3>2, <3>4 DEF Fits
    <3>6. NoLaterGeneration(c)'
      BY <1>2, <3>1, <3>2, <3>4 DEF NoLaterGeneration, App
    <3>7. Checked(c)'
      BY <1>1, <1>2, <2>1, <2>2, <2>3, <3>2, <3>3, <3>4 DEF Checked
    <3>8. CallOK(c)'
      BY <1>1, <2>1, <3>2, <3>4, <3>5, <3>6, <3>7 DEF CallOK
    <3> QED BY <1>2, <1>3, <2>2, <2>3, <3>2, <3>4, <3>8, OnlyOne
  <2>4. CASE r.api = "v2"
    <3>1. op'[c] = op[c]
      BY <2>1, <2>4
    <3>2. op[c] # None
      BY <1>1, <2>4, NoneIsNothing DEF TypeOK, CallTypes
    <3>3. /\ Holds(c) /\ CallOK(c)
      BY <1>1, <3>2 DEF Holds, CallInv
    <3>4. /\ Fits(c) /\ NoLaterGeneration(c) /\ op[c].kind = r.kind /\ op[c].app = r.app
          /\ op[c].kind = "update" => op[c].input = r.input
      BY <1>1, <3>3 DEF CallOK, Fits
    <3>5. op[c].kind = "update" => r.input # None
      BY <1>1, <3>4 DEF Request
    <3>6. Checked(c)'
      BY <1>1, <1>2, <2>1, <2>2, <2>4, <3>1, <3>4, <3>5 DEF Checked
    <3>7. Fits(c)' /\ NoLaterGeneration(c)'
      BY <1>2, <2>1, <3>1, <3>4 DEF Fits, NoLaterGeneration
    <3>8. CallOK(c)'
      BY <1>1, <2>1, <3>1, <3>4, <3>6, <3>7 DEF CallOK
    <3> QED BY <1>2, <1>3, <3>1, <3>3, <3>8, OnlyOne
  <2> QED BY <1>1, <2>3, <2>4
<1> QED BY <1>4, <1>5 DEF Check

\* The write of call c, in time or late.
Writes(c) ==
  /\ Passed(c)
  /\ Outcome(op[c], registry) = "change"
  /\ registry' = Mutated(op[c])
  /\ \/ Goto(c, "respond") /\ UNCHANGED <<req, op>>
     \/ Finish(c, pc[c])

LEMMA WriteCalls ==
  ASSUME TypeOK, TypeOK', CallInv, NEW c \in Calls, Writes(c), ids' = ids
  PROVE  CallInv'
<1>1. \A d \in Calls \ {c} : UNCHANGED <<pc[d], req[d], op[d]>>
  BY DEF Writes, Finish, Goto, TypeOK, CallTypes
<1>2. ~Holds(c)' /\ pc'[c] # "idle"
  BY DEF Writes, Passed, Finish, Goto, TypeOK, CallTypes, Holds
<1>3. CallOK(c)'
  BY <1>2 DEF CallOK
<1>4. \A d \in Calls : Holds(d)' => d # c /\ Holds(d) /\ op'[d] = op[d]
  BY <1>1, <1>2 DEF Holds
<1>5. ASSUME NEW d \in Calls \ {c} PROVE CallOK(d)'
  BY <1>1, <1>4, OthersOutlive DEF Writes
<1>6. CallOK(c) /\ Fits(c)
  BY DEF CallInv, CallOK, Writes, Passed, Holds
<1>7. ASSUME NEW a \in AppIds, registry'.apps[a] # None PROVE a \in ids
  <2>1. op[c].app \in ids /\ op[c] \in Operation
        /\ op[c].kind \in {"create", "update", "delete"}
    BY <1>6 DEF Fits, Request
  <2>2. a # op[c].app => registry'.apps[a] = registry.apps[a]
    BY <2>1, EffectOnApps DEF Writes
  <2> QED BY <1>7, <2>1, <2>2 DEF CallInv
<1> QED BY <1>3, <1>5, <1>7 DEF CallInv

LEMMA MutateCalls ==
  ASSUME TypeOK, TypeOK', CallInv, NEW c \in Calls, Mutate(c) \/ LateMutate(c)
  PROVE  CallInv'
<1>1. ids' = ids
  BY DEF Mutate, LateMutate
<1>2. pc[c] = "mutate" => op[c] # None
  BY NoneIsNothing DEF TypeOK, CallTypes
<1>3. CASE Writes(c)
  BY <1>1, <1>3, WriteCalls
<1>4. CASE /\ pc[c] = "mutate" /\ registry' = registry
           /\ Outcome(op[c], registry) # "change"
           /\ Finish(c, Outcome(op[c], registry))
  <2>1. Outcome(op[c], registry) \in {"nochange"} \cup Refusals
    BY <1>4, OutcomeType DEF TypeOK, CallTypes
  <2>2. CallOK(c)'
    BY <1>4, <2>1, EndsOK DEF Refusals
  <2>3. ~Holds(c)' /\ \A d \in Calls \ {c} : UNCHANGED <<pc[d], req[d], op[d]>>
    BY <1>4 DEF Finish, TypeOK, CallTypes, Holds
  <2> QED BY <1>1, <1>4, <2>2, <2>3, OnlyOne
<1>5. CASE /\ pc[c] = "mutate" /\ Goto(c, "unavailable")
           /\ UNCHANGED <<registry, req, op>>
  <2>1. pc'[c] = "unavailable" /\ \A d \in Calls \ {c} : pc'[d] = pc[d]
    BY <1>5 DEF Goto, TypeOK, CallTypes
  <2>2. Passed(c) /\ Holds(c)
    BY <1>2, <1>5 DEF Passed, Holds
  <2>3. \A d \in Calls : Holds(d)' => Holds(d) /\ op'[d].app = op[d].app
    BY <1>5, <2>1, <2>2 DEF Holds
  <2>4. CallOK(c)'
    BY <1>1, <1>5, <2>1, <2>2, <2>3, CallStays
  <2> QED BY <1>1, <1>5, <2>1, <2>2, <2>4, OnlyOne
<1> QED BY <1>2, <1>3, <1>4, <1>5 DEF Mutate, LateMutate, Writes, Passed

\* What a restart leaves of a call is a write under way, or nothing.
LEMMA RestartCalls ==
  ASSUME TypeOK, CallInv, NEW n \in Nodes, Restart(n)
  PROVE  CallInv'
<1> DEFINE mine == {c \in Calls : req[c] # None /\ req[c].at = n}
           writing == {c \in Calls : pc[c] \in {"mutate", "unavailable", "lost"}}
<1>1. /\ pc' = [c \in Calls |->
             IF c \in mine /\ pc[c] # "unavailable" THEN "lost" ELSE pc[c]]
      /\ req' = [c \in Calls |-> IF c \in mine \ writing THEN None ELSE req[c]]
      /\ op' = [c \in Calls |-> IF c \in mine \ writing THEN None ELSE op[c]]
      /\ registry' = registry /\ ids' = ids
  BY DEF Restart
<1>2. \A c \in Calls : Holds(c)' => Holds(c) /\ op'[c].app = op[c].app
  BY <1>1 DEF Holds
<1>3. ASSUME NEW c \in Calls PROVE CallOK(c)'
  <2>1. CASE c \in mine \ writing
    <3>1. pc'[c] # "idle" /\ ~Holds(c)'
      BY <1>1, <2>1 DEF Holds
    <3> QED BY <3>1 DEF CallOK
  <2>2. CASE c \notin mine
    BY <1>1, <1>2, <2>2, CallStays
  <2>3. CASE c \in writing
    <3>1. UNCHANGED <<req[c], op[c]>> /\ pc'[c] \in {pc[c], "lost"}
      BY <1>1, <2>3
    <3>2. CASE op[c] # None
      BY <1>1, <1>2, <2>3, <3>1, <3>2, CallStays DEF Passed
    <3>3. CASE op[c] = None
      BY <2>3, <3>1, <3>3 DEF CallOK, Holds
    <3> QED BY <3>2, <3>3
  <2> QED BY <2>1, <2>2, <2>3
<1> QED BY <1>1, <1>3 DEF CallInv

\* A registration touches no application.
LEMMA BootApps ==
  ASSUME TypeOK, NEW n \in Nodes, Boot(n)
  PROVE  registry'.apps = registry.apps
<1> DEFINE o == [kind |-> "register", node |-> n, slug |-> SlugOf(n)]
<1>1. o \in Operation
  BY KnownNames DEF Operation
<1>2. Effect(o, registry).apps = registry.apps
  BY DEF Effect, RegisterEffect, TypeOK, Snapshot
<1>3. \/ registry' = Mutated(o) /\ Outcome(o, registry) = "change"
      \/ registry' = registry
  BY DEF Boot
<1> HIDE DEF o
<1> QED BY <1>1, <1>2, <1>3, MutatedType DEF TypeOK

\* A step that is not a call's own.
LEMMA CallsStay ==
  ASSUME TypeOK, CallInv, registry'.apps = registry.apps, UNCHANGED calls
  PROVE  CallInv'
<1>1. ASSUME NEW c \in Calls PROVE CallOK(c)'
  <2>1. \A d \in Calls : Holds(d)' <=> Holds(d)
    BY DEF calls, Holds
  <2> QED BY <2>1, CallStays DEF calls
<1> QED BY <1>1 DEF CallInv, calls

LEMMA CallStep == TypeOK /\ CallInv /\ [Next]_vars => CallInv'
<1> SUFFICES ASSUME TypeOK, CallInv, [Next]_vars PROVE CallInv'
  OBVIOUS
<1>0. TypeOK'
  BY TypeStep
<1>1. ASSUME NEW c \in Calls, Arrive(c) PROVE CallInv'
  BY <1>1, ArriveCalls
<1>2. ASSUME NEW c \in Calls, Check(c) PROVE CallInv'
  BY <1>2, CheckCalls
<1>3. ASSUME NEW c \in Calls, Mutate(c) \/ LateMutate(c) PROVE CallInv'
  BY <1>0, <1>3, MutateCalls
<1>4. ASSUME NEW c \in Calls, Respond(c) PROVE CallInv'
  <2>1. ~Holds(c)' /\ \A d \in Calls \ {c} : UNCHANGED <<pc[d], req[d], op[d]>>
    BY <1>4 DEF Respond, Finish, TypeOK, CallTypes, Holds
  <2>2. CallOK(c)'
    BY <1>4, EndsOK DEF Respond
  <2> QED BY <1>4, <2>1, <2>2, OnlyOne DEF Respond
<1>5. ASSUME NEW n \in Nodes, Boot(n) PROVE CallInv'
  BY <1>5, BootApps, CallsStay DEF Boot
<1>6. ASSUME NEW n \in Nodes, Reconcile(n) \/ BrokerSyncs(n) PROVE CallInv'
  <2>1. UNCHANGED <<registry, calls>>
    BY <1>6 DEF Reconcile, Wake, Load, GiveUp, WriteRoutes, BrokerSyncs
  <2> QED BY <2>1, CallsStay
<1>7. ASSUME NEW n \in Nodes, Restart(n) PROVE CallInv'
  BY <1>7, RestartCalls
<1>8. CASE UNCHANGED vars
  BY <1>8, CallsStay DEF vars
<1> QED BY <1>1, <1>2, <1>3, <1>4, <1>5, <1>6, <1>7, <1>8 DEF Next, Handler

\* Only the write of a call changes applications in its name.
LEMMA ChangeIsWrite ==
  ASSUME TypeOK, [Next]_vars, NEW c \in Calls, NEW a \in AppIds, Changes(c, a)
  PROVE  /\ Passed(c) /\ Outcome(op[c], registry) = "change" /\ op[c].app = a
         /\ registry' = Mutated(op[c])
<1>1. /\ pc'[c] # pc[c] \/ op'[c] # op[c]
      /\ registry'.apps[a] # registry.apps[a] /\ Passed(c) /\ op[c].app = a
  BY DEF Changes, Passed
<1>2. registry' # registry
  BY <1>1
<1>3. ASSUME NEW d \in Calls, Handler(d) PROVE d = c /\ (Mutate(d) \/ LateMutate(d))
  <2>1. Mutate(d) \/ LateMutate(d)
    BY <1>2, <1>3 DEF Handler, Arrive, Check, Respond
  <2>2. d # c => pc'[c] = pc[c] /\ op'[c] = op[c]
    BY <2>1 DEF Mutate, LateMutate, Goto, Finish, TypeOK, CallTypes
  <2> QED BY <1>1, <2>1, <2>2
<1>4. ASSUME NEW n \in Nodes PROVE ~(Boot(n) \/ Reconcile(n) \/ BrokerSyncs(n) \/ Restart(n))
  BY <1>1, <1>2 DEF Boot, Reconcile, Wake, Load, GiveUp, WriteRoutes, BrokerSyncs, Restart, calls
<1>5. Mutate(c) \/ LateMutate(c)
  <2>1. ~UNCHANGED vars
    BY <1>2 DEF vars
  <2> QED BY <1>3, <1>4, <2>1 DEF Next
<1> QED BY <1>1, <1>2, <1>5 DEF Mutate, LateMutate

\* What the write finds is what the check has found.
LEMMA WriteIsChecked ==
  ASSUME TypeOK, CallInv, NEW c \in Calls, Passed(c), Outcome(op[c], registry) = "change"
  PROVE  /\ Fits(c) /\ Checked(c)
         /\ op[c].kind = "create" => registry.apps[op[c].app] = None
         /\ op[c].kind # "create" => Current(c)
<1>1. /\ Fits(c) /\ Checked(c)
      /\ op[c].kind = "create" => registry.apps[op[c].app] = None
  BY DEF CallInv, CallOK, Passed, Holds, Fresh
<1>2. op[c] \in Operation /\ op[c].kind \in {"create", "update", "delete"}
  BY <1>1 DEF Fits, Request
<1>3. op[c].kind # "create" => Current(c)
  BY <1>2, EffectOnApps DEF Current
<1> QED BY <1>1, <1>3

LEMMA LocalStep ==
  ASSUME TypeOK, CallInv, [Next]_vars, NEW c \in Calls, NEW a \in AppIds,
         Changes(c, a), req[c].source = "node",
         NEW app \in {registry.apps[a], registry'.apps[a]} \ {None}
  PROVE  app.node = req[c].at
<1>1. /\ Passed(c) /\ Outcome(op[c], registry) = "change" /\ op[c].app = a
      /\ registry' = Mutated(op[c])
  BY ChangeIsWrite
<1>2. /\ Fits(c) /\ Checked(c)
      /\ op[c].kind = "create" => registry.apps[a] = None
      /\ op[c].kind # "create" => Current(c)
  BY <1>1, WriteIsChecked
<1>3. /\ op[c] \in Operation /\ op[c].kind \in {"create", "update", "delete"}
      /\ req[c].api \in {"v1", "v2"} /\ op[c].kind = req[c].kind
  BY <1>2 DEF Fits, Request
<1>4. /\ op[c].kind = "create" => registry'.apps[a].node = op[c].input.node
      /\ op[c].kind = "update" =>
           registry'.apps[a].node =
             (IF op[c].input.node = None THEN registry.apps[a].node ELSE op[c].input.node)
      /\ op[c].kind = "delete" => registry'.apps[a] = None
  BY <1>1, <1>3, EffectOnApps
<1>5. op[c].kind # "create" => registry.apps[a].node = req[c].at
  BY <1>1, <1>2 DEF Checked
<1>6. op[c].kind = "create" => op[c].input.node = req[c].at
  BY <1>2 DEF Checked
<1>7. op[c].kind = "update" => op[c].input.node \in {None, req[c].at}
  BY <1>1, <1>2, <1>5 DEF Checked
<1> QED BY <1>2, <1>3, <1>4, <1>5, <1>6, <1>7

LEMMA LegacyStep ==
  ASSUME TypeOK, CallInv, [Next]_vars, NEW c \in Calls, NEW a \in AppIds,
         Changes(c, a), req[c].api = "v1", req[c].kind = "update"
  PROVE  /\ registry'.apps[a].node = registry.apps[a].node
         /\ registry'.apps[a].grant = registry.apps[a].grant
         /\ Cardinality(registry.apps[a].routes) = 1
<1>1. /\ Passed(c) /\ Outcome(op[c], registry) = "change" /\ op[c].app = a
      /\ registry' = Mutated(op[c])
  BY ChangeIsWrite
<1>2. /\ Fits(c) /\ Checked(c) /\ op[c].kind = "update" /\ Current(c)
  BY <1>1, WriteIsChecked DEF Fits
<1>3. /\ op[c].input.grant = None
      /\ op[c].input.node = registry.apps[a].node
      /\ Cardinality(registry.apps[a].routes) = 1
  BY <1>1, <1>2 DEF Checked
<1>4. /\ registry'.apps[a].node =
           (IF op[c].input.node = None THEN registry.apps[a].node ELSE op[c].input.node)
      /\ op[c].input.grant = None => registry'.apps[a].grant = registry.apps[a].grant
  BY <1>1, <1>2, EffectOnApps DEF Fits
<1> QED BY <1>3, <1>4

\* The call invariant holds of every behaviour.
LEMMA CallInvariant == Spec => [](TypeOK /\ CallInv)
<1>1. Init => TypeOK /\ CallInv
  BY InitType, InitCalls
<1>2. TypeOK /\ CallInv /\ [Next]_vars => (TypeOK /\ CallInv)'
  BY TypeStep, CallStep
<1> QED BY <1>1, <1>2, PTL DEF Spec

\* A node's own token changes this node's applications only, although the
\* handler checks one load and the repository changes another, and although
\* the write may be performed after its call has ended (main.go:297-309,
\* 330-342).
THEOREM NodesKeepToThemselves == Spec => LocalOnly
<1> DEFINE A == \A c \in Calls : \A a \in AppIds :
                  Changes(c, a) /\ req[c].source = "node" =>
                    \A app \in {registry.apps[a], registry'.apps[a]} \ {None} :
                       app.node = req[c].at
<1>1. TypeOK /\ CallInv /\ [Next]_vars => [A]_vars
  BY LocalStep
<1> QED BY <1>1, CallInvariant, PTL DEF Spec, LocalOnly

\* An update through the v1 API loses nothing that API cannot express
\* (main.go:469-474).
THEOREM LegacyLosesNothing == Spec => LegacyKeeps
<1> DEFINE A == \A c \in Calls : \A a \in AppIds :
                  Changes(c, a) /\ req[c].api = "v1" /\ req[c].kind = "update" =>
                    /\ registry'.apps[a].node = registry.apps[a].node
                    /\ registry'.apps[a].grant = registry.apps[a].grant
                    /\ Cardinality(registry.apps[a].routes) = 1
<1>1. TypeOK /\ CallInv /\ [Next]_vars => [A]_vars
  BY LegacyStep
<1> QED BY <1>1, CallInvariant, PTL DEF Spec, LegacyKeeps
=============================================================================
