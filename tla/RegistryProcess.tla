-------------------------- MODULE RegistryProcess --------------------------
(***************************************************************************)
(* The registry process of every node: the handlers that create, update    *)
(* and delete applications through the v2 and the v1 API                   *)
(* (registry/cmd/main.go) and the reconciler that turns the registry into  *)
(* this node's Traefik routes and its hostnames at the broker              *)
(* (registry/cmd/reconcile.go, broker.go).                                 *)
(*                                                                         *)
(* A handler may load the registry, check, and then call the repository,   *)
(* which loads again; the reconciler works from one load while the         *)
(* registry changes.  The repository's calls are atomic here: that they    *)
(* may be seen so is what Repository implements of AtomicRegistry.  A call *)
(* that cannot tell what became of its write answers "unavailable", and    *)
(* the write may still be performed later.                                 *)
(*                                                                         *)
(* Clients name in If-Match a generation they were given.  Reads, and the  *)
(* check of the tokens themselves, change nothing and are left out: source *)
(* says which of the two tokens a request came with.                       *)
(***************************************************************************)
EXTENDS RegistryState, FiniteSets

CONSTANTS
  SlugOf(_),   \* the name in a node's identity file
  Requests(_), \* what a call may ask for
  Start,       \* the registry when the processes start
  MaxFaults    \* bound on failed requests, timeouts and restarts

\* at is the node whose process serves the request.  A v1 request carries
\* neither a node nor a generation nor a grant.
Request ==
  LET common == [api : {"v1", "v2"}, source : {"node", "proxy"}, at : Nodes,
                 app : AppIds, kind : {"create", "update", "delete"},
                 input : AppInput \cup {None}]
  IN  {r \in common : /\ r.kind # "delete" => r.input # None
                      /\ r.api = "v1" /\ r.input # None =>
                           /\ r.input.node = None
                           /\ r.input.grant = None
                           /\ Len(r.input.routes) <= 1}

ASSUME KnownRequests == \A c \in Calls : \A r \in Requests(c) : r \in Request
ASSUME KnownNames == \A n \in Nodes : SlugOf(n) \in NodeSlugs
ASSUME KnownStart == Start \in Snapshot /\ (Start.revision = 0 => Start = EmptyRegistry)
ASSUME NoneIsNothing == None \notin Operation /\ \A g \in Grant : g # None
ASSUME FaultBound == MaxFaults \in Nat

VARIABLES
  registry,   \* the content of the registry
  \* the calls
  pc,         \* what a call does next, or its answer
  req, op,    \* its request and the operation made of it, while it lasts
  ids,        \* ids given to applications
  \* the processes
  stage,      \* what a process does next
  serving,    \* does it serve requests?
  trigger,    \* the channel of capacity one
  loaded,     \* the applications the pass has loaded
  seen,       \* the revision it has loaded
  synced,     \* brokerRevision
  \* outside
  routes,     \* a node's managed.yml
  inbox,      \* a node's SyncApps requests the broker has yet to perform
  hosts,      \* the apps of a node that have a hostname
  \* history
  acked,      \* the revision at a process's last good answer, 0 after a failed
              \* load, whose trigger is spent
  faults

calls == <<pc, req, op, ids>>
process == <<stage, serving, trigger, loaded, seen, synced>>
outside == <<routes, inbox, hosts>>
vars == <<registry, calls, process, outside, acked, faults>>

Init ==
  /\ registry = Start
  /\ pc = [c \in Calls |-> "idle"]
  /\ req = [c \in Calls |-> None]
  /\ op = [c \in Calls |-> None]
  /\ ids = {a \in AppIds : Start.apps[a] # None}
  /\ stage = [n \in Nodes |-> "boot"]
  /\ serving = [n \in Nodes |-> FALSE]
  /\ trigger = [n \in Nodes |-> FALSE]
  /\ loaded = [n \in Nodes |-> {}]
  /\ seen = [n \in Nodes |-> 0]
  /\ synced = [n \in Nodes |-> 0]
  /\ routes = [n \in Nodes |-> {}]
  /\ inbox = [n \in Nodes |-> << >>]
  /\ hosts = [n \in Nodes |-> {}]
  /\ acked = [n \in Nodes |-> 0]
  /\ faults = 0

Fault == faults < MaxFaults /\ faults' = faults + 1

\* mutate without its operation ids, which matter to Repository only.
Mutated(o) == [Effect(o, registry) EXCEPT !.revision = @ + 1]

-----------------------------------------------------------------------------
(* The handlers.                                                           *)

Goto(c, step) == pc' = [pc EXCEPT ![c] = step]

Finish(c, answer) ==
  /\ pc' = [pc EXCEPT ![c] = answer]
  /\ req' = [req EXCEPT ![c] = None]
  /\ op' = [op EXCEPT ![c] = None]

\* A create names its own node when it names none; ids are new.
Creation(r) ==
  [kind |-> "create", app |-> r.app,
   input |-> [r.input EXCEPT !.node = IF @ = None THEN r.at ELSE @]]

\* UpdateApp's or DeleteApp's arguments.
Change(r, input, generation) ==
  IF r.kind = "update"
  THEN [kind |-> "update", app |-> r.app, generation |-> generation, input |-> input]
  ELSE [kind |-> "delete", app |-> r.app, generation |-> generation]

CreateApp(c, r) ==
  /\ r.kind = "create"
  /\ r.app \notin ids
  /\ ids' = ids \cup {r.app}
  /\ IF r.source = "node" /\ Creation(r).input.node # r.at
     THEN Finish(c, "forbidden")
     ELSE /\ Goto(c, "mutate")
          /\ req' = [req EXCEPT ![c] = r]
          /\ op' = [op EXCEPT ![c] = Creation(r)]

\* Only a request with the node's own token is checked before the mutation.
ChangeApp(c, r) ==
  /\ r.kind # "create" /\ r.api = "v2"
  /\ registry.apps[r.app] # None
  /\ Goto(c, IF r.source = "node" THEN "check" ELSE "mutate")
  /\ req' = [req EXCEPT ![c] = r]
  /\ \E g \in 1..registry.apps[r.app].generation :
       op' = [op EXCEPT ![c] = Change(r, r.input, g)]
  /\ UNCHANGED ids

ChangeLegacyApp(c, r) ==
  /\ r.kind # "create" /\ r.api = "v1"
  /\ registry.apps[r.app] # None
  /\ Goto(c, "check")
  /\ req' = [req EXCEPT ![c] = r]
  /\ UNCHANGED <<op, ids>>

Arrive(c) ==
  /\ pc[c] = "idle"
  /\ \E r \in Requests(c) :
       /\ serving[r.at]
       /\ CreateApp(c, r) \/ ChangeApp(c, r) \/ ChangeLegacyApp(c, r)
  /\ UNCHANGED <<registry, process, outside, acked, faults>>

\* Mutant: legacyInput's own node is kept.
LegacyChangeToOwnNode(r, app) ==
  Change(r, IF r.input = None THEN None ELSE [r.input EXCEPT !.node = r.at],
         app.generation)

\* The v1 adapter fills in the node and the generation it has loaded.
LegacyChange(r, app) ==
  Change(r, IF r.input = None THEN None ELSE [r.input EXCEPT !.node = app.node],
         app.generation)

CheckOutcome(r, app) ==
  LET foreign == r.source = "node" /\ (app = None \/ app.node # r.at)
      moves == r.input # None /\ r.input.node \notin {None, r.at}
      many == r.api = "v1" /\ r.kind = "update" /\ Cardinality(app.routes) # 1
  IN  IF r.api = "v1" /\ app = None THEN "notfound"
      ELSE IF foreign \/ (r.api = "v2" /\ moves) THEN "forbidden"
      ELSE IF many THEN "conflict"
      ELSE "mutate"

\* The handler's own Load and what it checks there.
Check(c) ==
  /\ pc[c] = "check"
  /\ LET r == req[c]
         app == registry.apps[r.app]
         outcome == CheckOutcome(r, app)
     IN  \/ /\ outcome = "mutate"
            /\ Goto(c, "mutate")
            /\ op' = [op EXCEPT ![c] = IF r.api = "v1" THEN LegacyChange(r, app) ELSE @]
            /\ UNCHANGED <<req, faults>>
         \/ outcome # "mutate" /\ Finish(c, outcome) /\ UNCHANGED faults
         \/ Fault /\ Finish(c, "unavailable")
  /\ UNCHANGED <<registry, ids, process, outside, acked>>

\* The repository call: done, refused, or answered "unavailable" while the
\* write may still be performed.
Mutate(c) ==
  /\ pc[c] = "mutate"
  /\ LET outcome == Outcome(op[c], registry)
     IN  \/ /\ outcome = "change"
            /\ registry' = Mutated(op[c])
            /\ Goto(c, "respond")
            /\ UNCHANGED <<req, op, faults>>
         \/ outcome # "change" /\ Finish(c, outcome) /\ UNCHANGED <<registry, faults>>
         \/ Fault /\ Goto(c, "unavailable") /\ UNCHANGED <<registry, req, op>>
  /\ UNCHANGED <<ids, process, outside, acked>>

\* A write nobody waits for any more is performed.
LateMutate(c) ==
  /\ pc[c] \in {"unavailable", "lost"}
  /\ op[c] # None
  /\ Outcome(op[c], registry) = "change"
  /\ registry' = Mutated(op[c])
  /\ Finish(c, pc[c])
  /\ UNCHANGED <<ids, process, outside, acked, faults>>

\* Mutant: an unbuffered channel, nobody listens during a pass.
TriggerWhenIdle(n) ==
  trigger' = [trigger EXCEPT ![n] = stage[n] = "wait"]

\* Sends without blocking: what finds the channel full is dropped.
Trigger(n) == trigger' = [trigger EXCEPT ![n] = TRUE]

Respond(c) ==
  /\ pc[c] = "respond"
  /\ Finish(c, "ok")
  /\ Trigger(req[c].at)
  /\ acked' = [acked EXCEPT ![req[c].at] = registry.revision]
  /\ UNCHANGED <<registry, ids, stage, serving, loaded, seen, synced, outside, faults>>

-----------------------------------------------------------------------------
(* The reconciler.                                                         *)

\* The enabled applications of node n.
Local(s, n) ==
  {[id |-> a, slug |-> s.apps[a].slug, routes |-> s.apps[a].routes] :
     a \in {a \in AppIds : /\ s.apps[a] # None
                           /\ s.apps[a].node = n
                           /\ s.apps[a].enabled}}

Slugs(apps) == {a.slug : a \in apps}

\* What Traefik reads: a rule, the service behind it and whether one must
\* log in first.
Rendered(apps) ==
  UNION {{[rule |-> Rule(r), service |-> a.id, login |-> r.auth = "browser"] :
            r \in a.routes} : a \in apps}

\* RegisterNode.  A name that is taken is fatal: the process starts again.
Boot(n) ==
  /\ stage[n] = "boot"
  /\ LET o == [kind |-> "register", node |-> n, slug |-> SlugOf(n)]
     IN  /\ Outcome(o, registry) # "conflict"
         /\ registry' = IF Outcome(o, registry) = "change" THEN Mutated(o) ELSE registry
  /\ stage' = [stage EXCEPT ![n] = "load"]
  /\ UNCHANGED <<calls, serving, trigger, loaded, seen, synced, outside, acked, faults>>

\* Mutant: a tick finds nothing to do unless there is a trigger.
WakeOnTrigger(n) ==
  /\ stage[n] = "wait"
  /\ IF trigger[n] THEN /\ trigger' = [trigger EXCEPT ![n] = FALSE]
                        /\ stage' = [stage EXCEPT ![n] = "load"]
                   ELSE UNCHANGED <<trigger, stage>>
  /\ UNCHANGED <<registry, calls, serving, loaded, seen, synced, outside, acked, faults>>

\* The ticker leaves a trigger in the channel.
Wake(n) ==
  /\ stage[n] = "wait"
  /\ \/ trigger[n] /\ trigger' = [trigger EXCEPT ![n] = FALSE]
     \/ UNCHANGED trigger
  /\ stage' = [stage EXCEPT ![n] = "load"]
  /\ UNCHANGED <<registry, calls, serving, loaded, seen, synced, outside, acked, faults>>

\* A pass is over; the first one is followed by ListenAndServe.
EndPass(n) ==
  /\ stage' = [stage EXCEPT ![n] = "wait"]
  /\ serving' = [serving EXCEPT ![n] = TRUE]
  /\ loaded' = [loaded EXCEPT ![n] = {}]

\* Load, and the request to the broker when it is due: it reads nothing more.
Load(n) ==
  /\ stage[n] = "load"
  /\ LET apps == Local(registry, n)
         due == synced[n] # registry.revision
     IN  \/ /\ loaded' = [loaded EXCEPT ![n] = apps]
            /\ seen' = [seen EXCEPT ![n] = registry.revision]
            /\ inbox' = [inbox EXCEPT ![n] = IF due THEN Append(@, Slugs(apps)) ELSE @]
            /\ stage' = [stage EXCEPT ![n] = IF due THEN "asked" ELSE "write"]
            /\ UNCHANGED <<serving, acked, faults>>
         \/ /\ Fault
            /\ EndPass(n)
            /\ acked' = [acked EXCEPT ![n] = 0]
            /\ UNCHANGED <<seen, inbox>>
  /\ UNCHANGED <<registry, calls, trigger, synced, routes, hosts>>

\* Mutant: brokerRevision is set whatever the broker answers.
SyncedAnyway(n, ok) == synced' = [synced EXCEPT ![n] = seen[n]]

Answered(n, ok) == synced' = [synced EXCEPT ![n] = IF ok THEN seen[n] ELSE @]

GoOn(n) == stage' = [stage EXCEPT ![n] = "write"]

\* The client's 30 seconds are over, or the answer is lost.
GiveUp(n) ==
  /\ stage[n] = "asked"
  /\ Fault
  /\ Answered(n, FALSE)
  /\ GoOn(n)
  /\ UNCHANGED <<registry, calls, serving, trigger, loaded, seen, outside, acked>>

\* What syncApps may have done before it fails: it drops what is not asked for
\* one by one, and only then makes new hostnames, one by one.
Partial(old, new) ==
  {old \ dropped : dropped \in SUBSET (old \ new)} \cup
    {(old \cap new) \cup made : made \in SUBSET (new \ old)}

\* The broker performs a node's requests in the order it received them, or
\* fails in the middle of one.  The last one has somebody waiting, unless he
\* has given up.
BrokerSyncs(n) ==
  /\ inbox[n] # << >>
  /\ inbox' = [inbox EXCEPT ![n] = Tail(@)]
  /\ \E ok \in BOOLEAN :
       /\ IF ok THEN hosts' = [hosts EXCEPT ![n] = Head(inbox[n])] /\ UNCHANGED faults
                ELSE /\ Fault
                     /\ \E h \in Partial(hosts[n], Head(inbox[n])) :
                          hosts' = [hosts EXCEPT ![n] = h]
       /\ IF stage[n] = "asked" /\ Len(inbox[n]) = 1
          THEN Answered(n, ok) /\ GoOn(n)
          ELSE UNCHANGED <<synced, stage>>
  /\ UNCHANGED <<registry, calls, serving, trigger, loaded, seen, routes, acked>>

\* managed.yml is replaced by a rename, or removed when there are no apps.
WriteRoutes(n) ==
  /\ stage[n] = "write"
  /\ \/ routes' = [routes EXCEPT ![n] = Rendered(loaded[n])] /\ UNCHANGED faults
     \/ Fault /\ UNCHANGED routes
  /\ EndPass(n)
  /\ UNCHANGED <<registry, calls, trigger, seen, synced, inbox, hosts, acked>>

\* The process stops anywhere and is started again.  What it was asked is
\* lost, what it asked of others is not.
Restart(n) ==
  /\ stage[n] # "boot"
  /\ Fault
  /\ LET mine == {c \in Calls : req[c] # None /\ req[c].at = n}
         writing == {c \in Calls : pc[c] \in {"mutate", "unavailable", "lost"}}
     IN  /\ pc' = [c \in Calls |->
              IF c \in mine /\ pc[c] # "unavailable" THEN "lost" ELSE pc[c]]
         /\ req' = [c \in Calls |-> IF c \in mine \ writing THEN None ELSE req[c]]
         /\ op' = [c \in Calls |-> IF c \in mine \ writing THEN None ELSE op[c]]
  /\ stage' = [stage EXCEPT ![n] = "boot"]
  /\ serving' = [serving EXCEPT ![n] = FALSE]
  /\ trigger' = [trigger EXCEPT ![n] = FALSE]
  /\ loaded' = [loaded EXCEPT ![n] = {}]
  /\ seen' = [seen EXCEPT ![n] = 0]
  /\ synced' = [synced EXCEPT ![n] = 0]
  /\ acked' = [acked EXCEPT ![n] = 0]
  /\ UNCHANGED <<registry, ids, outside>>

-----------------------------------------------------------------------------
Handler(c) == Arrive(c) \/ Check(c) \/ Mutate(c) \/ LateMutate(c) \/ Respond(c)

Reconcile(n) == Wake(n) \/ Load(n) \/ GiveUp(n) \/ WriteRoutes(n)

Next ==
  \/ \E c \in Calls : Handler(c)
  \/ \E n \in Nodes : Boot(n) \/ Reconcile(n) \/ BrokerSyncs(n) \/ Restart(n)

Spec == Init /\ [][Next]_vars

\* A process that was started runs its loop, woken by the ticker if by
\* nothing else; the broker handles what is in its queue.  Clients and late
\* writes promise nothing.
FairSpec ==
  /\ Spec
  /\ \A n \in Nodes : WF_vars(Boot(n)) /\ WF_vars(Reconcile(n)) /\ WF_vars(BrokerSyncs(n))

-----------------------------------------------------------------------------
\* Is it call c that changes application a in this step?
Changes(c, a) ==
  /\ pc[c] \in {"mutate", "unavailable", "lost"}
  /\ <<pc[c], op[c]>>' # <<pc[c], op[c]>>
  /\ op[c] # None /\ op[c].app = a
  /\ registry'.apps[a] # registry.apps[a]

\* A node's own token only ever changes applications that are this node's at
\* the moment they are changed, and leaves them there - although updateApp and
\* deleteApp check one load and change another, and although the write may
\* be performed after its call has ended (main.go:297-309, 330-342).
LocalOnly ==
  [][\A c \in Calls : \A a \in AppIds :
       Changes(c, a) /\ req[c].source = "node" =>
         \A app \in {registry.apps[a], registry'.apps[a]} \ {None} :
            app.node = req[c].at]_vars

\* What the v1 API cannot express an update through it does not change: the
\* node of the application, its grant, and a second route, also when they were
\* set after the adapter's own load (main.go:469-474).
LegacyKeeps ==
  [][\A c \in Calls : \A a \in AppIds :
       Changes(c, a) /\ req[c].api = "v1" /\ req[c].kind = "update" =>
         /\ registry'.apps[a].node = registry.apps[a].node
         /\ registry'.apps[a].grant = registry.apps[a].grant
         /\ Cardinality(registry.apps[a].routes) = 1]_vars

\* An answered change is in the last load, or a load is coming without waiting
\* for the ticker: a trigger sent during a pass, or dropped because one was
\* pending, is not lost (reconcile.go:33-38).  What a load that fails has taken
\* from the channel is left to the ticker: acked starts again with it.
NoLostTrigger ==
  \A n \in Nodes : acked[n] > seen[n] => trigger[n] \/ stage[n] = "load"

\* While brokerRevision is the current revision, which keeps the reconciler
\* from asking again, the broker has exactly the node's enabled applications,
\* whatever requests of this process or its predecessors were given up, failed
\* half-way or came late (reconcile.go:75-85).
SyncedServes ==
  \A n \in Nodes :
     synced[n] = registry.revision => hosts[n] = Slugs(Local(registry, n))

\* When the changes end, every node serves what the registry says and the
\* broker knows it, also the nodes no trigger reached: an application that
\* was moved, disabled or deleted elsewhere disappears (reconcile.go:41-100).
Converges ==
  <>[](\A n \in Nodes :
         /\ routes[n] = Rendered(Local(registry, n))
         /\ hosts[n] = Slugs(Local(registry, n)))

=============================================================================
