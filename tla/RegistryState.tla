--------------------------- MODULE RegistryState ---------------------------
(***************************************************************************)
(* The content of the registry (registry/cmd/model.go) and the mutations   *)
(* that registry/cmd/repository.go applies to it, as pure operators.       *)
(*                                                                         *)
(* A mutation of the code is a closure that receives the loaded state and  *)
(* either edits it, answers ErrNoChange, or refuses.  Here it is a record  *)
(* o (an operation with its arguments) and two operators: Outcome(o, s)    *)
(* says which of the three the closure does in state s, Effect(o, s) is    *)
(* the edited state.  Successor adds what mutate itself writes: the next   *)
(* revision and the operation id.                                          *)
(*                                                                         *)
(* Abstracted: timestamps, display names (a node is its slug), target URL, *)
(* description, route ids and priorities.  The purely syntactic checks on  *)
(* them are the one flag wellFormed of an input.                           *)
(***************************************************************************)
EXTENDS Naturals, Sequences, Functions

CONSTANTS
  Calls,            \* operation ids: one random UUID per call of mutate
  Nodes,            \* node ids, numbered in the order sortState gives them
  NodeSlugs,        \* slugs of node names
  AppIds,           \* application ids
  AppSlugs,         \* slugs of application names
  Users,            \* subjects an application can be granted to
  Hostname(_, _),   \* the public host of an application slug on a node slug
  RecentLimit,      \* operation ids a snapshot remembers (100 in the code)
  RouteLimit,       \* routes an application may have (8 in the code)
  None              \* an absent value: empty string, nil pointer, no object

ASSUME NodeOrder == Nodes \subseteq Nat
ASSUME Limits == RecentLimit \in Nat \ {0} /\ RouteLimit \in Nat \ {0}
ASSUME Absent == /\ None \notin Nodes
                 /\ None \notin NodeSlugs
                 /\ None \notin AppIds
                 /\ None \notin Calls

-----------------------------------------------------------------------------
\* Types

Shapes == {"whole", "notV1", "onlyV1"}   \* the three rules buildApp allows
Hosts  == {Hostname(a, n) : a \in AppSlugs, n \in NodeSlugs}
Route  == [host : Hosts, shape : Shapes, auth : {"browser", "upstream"}]
Grant  == SUBSET Users

App == [node : Nodes, slug : AppSlugs, host : Hosts, routes : SUBSET Route,
        grant : Grant, enabled : BOOLEAN, generation : Nat]

AppInput == [wellFormed : BOOLEAN, node : Nodes \cup {None}, slug : AppSlugs,
             routes : Seq(Route), grant : Grant \cup {None},
             enabled : BOOLEAN \cup {None}]

Snapshot == [revision : Nat,
             recent   : Seq(Calls),
             nodes    : [Nodes -> NodeSlugs \cup {None}],
             owner    : Nodes \cup {None},
             auth     : SUBSET Nodes,
             apps     : [AppIds -> App \cup {None}]]

Operation ==
       [kind : {"register"}, node : Nodes, slug : NodeSlugs]
  \cup [kind : {"claim"}, node : Nodes]
  \cup [kind : {"transfer"}, expected : Nodes \cup {None},
        node : Nodes \cup {None}]
  \cup [kind : {"create"}, app : AppIds, input : AppInput]
  \cup [kind : {"update"}, app : AppIds, generation : Nat, input : AppInput]
  \cup [kind : {"delete"}, app : AppIds, generation : Nat]

Refusals == {"validation", "conflict", "precondition", "notfound"}

\* What Load answers while neither the pointer nor the marker exists, and
\* what it answers for a pointer p.  A pointer names one immutable snapshot
\* by its digest, so pointer, snapshot and ETag are one value here.
EmptyRegistry ==
  [revision |-> 0, recent |-> << >>,
   nodes |-> [n \in Nodes |-> None], owner |-> None, auth |-> {},
   apps |-> [a \in AppIds |-> None]]

StateAt(p) == IF p = None THEN EmptyRegistry ELSE p

Registered(s, n) == n \in Nodes /\ s.nodes[n] # None

-----------------------------------------------------------------------------
\* RegisterNode

\* The scan over the sorted nodes stops at the node's own entry, so a name
\* taken by a node sorted after it goes unnoticed when the node is renamed.
NameTaken(o, s) ==
  \E n \in Nodes \ {o.node} :
     /\ s.nodes[n] = o.slug
     /\ Registered(s, o.node) => n < o.node

\* Mutant: names are not compared.
RegisterAnyName(o, s) ==
  IF s.nodes[o.node] = o.slug THEN "nochange" ELSE "change"

RegisterOutcome(o, s) ==
  CASE NameTaken(o, s)                                    -> "conflict"
    [] ~NameTaken(o, s) /\ s.nodes[o.node] = o.slug       -> "nochange"
    [] ~NameTaken(o, s) /\ s.nodes[o.node] # o.slug       -> "change"

RegisterEffect(o, s) == [s EXCEPT !.nodes[o.node] = o.slug]

-----------------------------------------------------------------------------
\* ClaimAuthOwner and TransferAuthOwner

\* Mutant: a claim takes the role from whoever has it.
ClaimAnyway(o, s) ==
  CASE ~Registered(s, o.node)                             -> "validation"
    [] Registered(s, o.node) /\ s.owner = o.node          -> "nochange"
    [] Registered(s, o.node) /\ s.owner # o.node          -> "change"

ClaimOutcome(o, s) ==
  CASE ~Registered(s, o.node)                             -> "validation"
    [] Registered(s, o.node) /\ s.owner \notin {None, o.node} -> "conflict"
    [] Registered(s, o.node) /\ s.owner = o.node          -> "nochange"
    [] Registered(s, o.node) /\ s.owner = None            -> "change"

\* Mutant: the destination is not looked up.
TransferAnywhere(o, s) ==
  CASE s.owner = o.node                                   -> "nochange"
    [] s.owner # o.node /\ s.owner # o.expected           -> "conflict"
    [] s.owner # o.node /\ s.owner = o.expected           -> "change"

\* A transfer that finds its destination already the owner is a no-op
\* whatever owner it expected.
TransferOutcome(o, s) ==
  LET valid == o.expected # None /\ Registered(s, o.node)
  IN  CASE ~valid                                         -> "validation"
        [] valid /\ s.owner = o.node                      -> "nochange"
        [] valid /\ s.owner # o.node /\ s.owner # o.expected -> "conflict"
        [] valid /\ s.owner # o.node /\ s.owner = o.expected -> "change"

\* The role "auth" is removed from every node and given to the new owner.
GiveAuth(s, n) == [s EXCEPT !.owner = n, !.auth = {n}]

-----------------------------------------------------------------------------
\* Applications

Rule(r)   == <<r.host, r.shape>>
Rules(rs) == {Rule(r) : r \in rs}

\* Name, reserved name t, node, target, route shape, policy and priority.
Buildable(in, s) ==
  /\ in.wellFormed
  /\ in.slug # "t"
  /\ Registered(s, in.node)
  /\ Len(in.routes) <= RouteLimit
  /\ \A r \in Range(in.routes) : r.host = Hostname(in.slug, s.nodes[in.node])

\* Without routes the application gets its whole host behind the browser
\* login.
Routes(in, host) ==
  IF in.routes = << >>
  THEN {[host |-> host, shape |-> "whole", auth |-> "browser"]}
  ELSE Range(in.routes)

BuildApp(in, s, generation) ==
  LET host == Hostname(in.slug, s.nodes[in.node])
  IN  [node |-> in.node, slug |-> in.slug, host |-> host,
       routes |-> Routes(in, host),
       grant |-> IF in.grant = None THEN {} ELSE in.grant,
       enabled |-> IF in.enabled = None THEN TRUE ELSE in.enabled,
       generation |-> generation]

\* Mutant: names are unique per registry and rules are not compared.
AppConflictByName(in, s, id) ==
  \E a \in AppIds \ {id} :
     s.apps[a] # None /\ s.apps[a].node = in.node /\ s.apps[a].slug = in.slug

\* validateAppConflicts: a rule twice in the input, a name taken on the node,
\* a rule of another application.
AppConflict(in, s, id) ==
  \/ \E i, j \in DOMAIN in.routes :
        i # j /\ Rule(in.routes[i]) = Rule(in.routes[j])
  \/ \E a \in AppIds \ {id} :
        /\ s.apps[a] # None
        /\ \/ s.apps[a].node = in.node /\ s.apps[a].slug = in.slug
           \/ Rules(s.apps[a].routes)
                \cap Rules(Routes(in, Hostname(in.slug, s.nodes[in.node]))) # {}

InputOutcome(in, s, id) ==
  CASE ~Buildable(in, s)                                  -> "validation"
    [] Buildable(in, s) /\ AppConflict(in, s, id)         -> "conflict"
    [] Buildable(in, s) /\ ~AppConflict(in, s, id)        -> "change"

\* UpdateApp keeps the node and the grant its input leaves out; it does not
\* keep enabled, which BuildApp then sets.
Merged(in, app) ==
  [in EXCEPT !.node  = IF @ = None THEN app.node ELSE @,
             !.grant = IF @ = None THEN app.grant ELSE @]

\* Mutant: the generation is not compared.
AtAnyGeneration(o, s, then) ==
  IF s.apps[o.app] = None THEN "notfound" ELSE then

\* UpdateApp and DeleteApp find the application and compare generations
\* before anything else; then is what happens when both agree.
AtGeneration(o, s, then) ==
  CASE s.apps[o.app] = None                               -> "notfound"
    [] s.apps[o.app] # None /\ s.apps[o.app].generation # o.generation
                                                          -> "precondition"
    [] s.apps[o.app] # None /\ s.apps[o.app].generation = o.generation
                                                          -> then

UpdateOutcome(o, s) ==
  AtGeneration(o, s, InputOutcome(Merged(o.input, s.apps[o.app]), s, o.app))

CreateEffect(o, s) == [s EXCEPT !.apps[o.app] = BuildApp(o.input, s, 1)]

UpdateEffect(o, s) ==
  LET app == s.apps[o.app]
  IN  [s EXCEPT !.apps[o.app] =
         BuildApp(Merged(o.input, app), s, app.generation + 1)]

DeleteEffect(o, s) == [s EXCEPT !.apps[o.app] = None]

-----------------------------------------------------------------------------
\* Every mutation

Outcome(o, s) ==
  CASE o.kind = "register" -> RegisterOutcome(o, s)
    [] o.kind = "claim"    -> ClaimOutcome(o, s)
    [] o.kind = "transfer" -> TransferOutcome(o, s)
    [] o.kind = "create"   -> InputOutcome(o.input, s, o.app)
    [] o.kind = "update"   -> UpdateOutcome(o, s)
    [] o.kind = "delete"   -> AtGeneration(o, s, "change")

Effect(o, s) ==
  CASE o.kind = "register"             -> RegisterEffect(o, s)
    [] o.kind \in {"claim", "transfer"} -> GiveAuth(s, o.node)
    [] o.kind = "create"               -> CreateEffect(o, s)
    [] o.kind = "update"               -> UpdateEffect(o, s)
    [] o.kind = "delete"               -> DeleteEffect(o, s)

\* The newest RecentLimit operation ids.
Newest(ids) ==
  IF Len(ids) > RecentLimit
  THEN SubSeq(ids, Len(ids) - RecentLimit + 1, Len(ids))
  ELSE ids

\* The snapshot mutate prepares for call c on top of snapshot s.
Successor(c, o, s) ==
  [Effect(o, s) EXCEPT !.revision = @ + 1, !.recent = Newest(Append(@, c))]

=============================================================================
