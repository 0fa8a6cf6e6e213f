------------------------ MODULE RegistryStateProofs ------------------------
(***************************************************************************)
(* Lemmas about the mutations of RegistryState: they keep the types, and   *)
(* which parts of the registry they leave alone.                           *)
(***************************************************************************)
EXTENDS RegistryState, TLAPS

-----------------------------------------------------------------------------
\* The operators of RegistryState keep the types.

LEMMA EmptyRegistryType == EmptyRegistry \in Snapshot
  BY DEF EmptyRegistry, Snapshot

LEMMA StateAtType ==
  ASSUME NEW p \in Snapshot \cup {None}
  PROVE  StateAt(p) \in Snapshot
  BY EmptyRegistryType DEF StateAt

LEMMA NewestType ==
  ASSUME NEW ids \in Seq(Calls)
  PROVE  Newest(ids) \in Seq(Calls)
  BY Limits DEF Newest

LEMMA BuildAppType ==
  ASSUME NEW in \in AppInput, NEW s \in Snapshot, NEW g \in Nat,
         Buildable(in, s)
  PROVE  BuildApp(in, s, g) \in App
<1> DEFINE host == Hostname(in.slug, s.nodes[in.node])
<1>1. in.node \in Nodes /\ s.nodes[in.node] \in NodeSlugs
  BY DEF Buildable, Registered, Snapshot
<1>2. in.slug \in AppSlugs /\ host \in Hosts
  BY <1>1 DEF AppInput, Hosts
<1>3. Routes(in, host) \subseteq Route
  <2>1. Range(in.routes) \subseteq Route
    BY DEF AppInput, Range
  <2> QED BY <1>2, <2>1 DEF Routes, Route, Shapes
<1>4. (IF in.grant = None THEN {} ELSE in.grant) \in Grant
  BY DEF AppInput, Grant
<1>5. (IF in.enabled = None THEN TRUE ELSE in.enabled) \in BOOLEAN
  BY DEF AppInput
<1> QED BY <1>1, <1>2, <1>3, <1>4, <1>5 DEF BuildApp, App

LEMMA MergedType ==
  ASSUME NEW in \in AppInput, NEW app \in App
  PROVE  Merged(in, app) \in AppInput
  BY DEF Merged, AppInput, App

\* An operation that is neither refused nor a no-op yields a snapshot.
LEMMA EffectType ==
  ASSUME NEW o \in Operation, NEW s \in Snapshot, Outcome(o, s) = "change"
  PROVE  Effect(o, s) \in Snapshot
<1>1. CASE o \in [kind : {"register"}, node : Nodes, slug : NodeSlugs]
  <2>1. Effect(o, s) = RegisterEffect(o, s)
    BY <1>1 DEF Effect
  <2> QED BY <1>1, <2>1 DEF RegisterEffect, Snapshot
<1>2. ASSUME o.kind \in {"claim", "transfer"}, o.node \in Nodes
      PROVE  Effect(o, s) \in Snapshot
  <2>1. Effect(o, s) = GiveAuth(s, o.node)
    BY <1>2 DEF Effect
  <2> QED BY <1>2, <2>1 DEF GiveAuth, Snapshot
<1>3. CASE o \in [kind : {"claim"}, node : Nodes]
  BY <1>2, <1>3
<1>4. CASE o \in [kind : {"transfer"}, expected : Nodes \cup {None},
                  node : Nodes \cup {None}]
  <2>1. TransferOutcome(o, s) = "change"
    BY <1>4 DEF Outcome
  <2>2. Registered(s, o.node)
    BY <2>1 DEF TransferOutcome
  <2> QED BY <1>2, <1>4, <2>2 DEF Registered
<1>5. CASE o \in [kind : {"create"}, app : AppIds, input : AppInput]
  <2>1. InputOutcome(o.input, s, o.app) = "change"
    BY <1>5 DEF Outcome
  <2>2. Buildable(o.input, s)
    BY <2>1 DEF InputOutcome
  <2>3. BuildApp(o.input, s, 1) \in App
    BY <1>5, <2>2, BuildAppType
  <2>4. Effect(o, s) = CreateEffect(o, s)
    BY <1>5 DEF Effect
  <2> QED BY <1>5, <2>3, <2>4 DEF CreateEffect, Snapshot
<1>6. CASE o \in [kind : {"update"}, app : AppIds, generation : Nat,
                  input : AppInput]
  <2> DEFINE app == s.apps[o.app]
  <2>1. AtGeneration(o, s, InputOutcome(Merged(o.input, app), s, o.app))
          = "change"
    BY <1>6 DEF Outcome, UpdateOutcome
  <2>2. app \in App
    BY <1>6, <2>1 DEF AtGeneration, Snapshot
  <2>3. InputOutcome(Merged(o.input, app), s, o.app) = "change"
    BY <2>1 DEF AtGeneration
  <2>4. Buildable(Merged(o.input, app), s)
    BY <2>3 DEF InputOutcome
  <2>5. Merged(o.input, app) \in AppInput
    BY <1>6, <2>2, MergedType
  <2>6. app.generation + 1 \in Nat
    BY <2>2 DEF App
  <2>7. BuildApp(Merged(o.input, app), s, app.generation + 1) \in App
    BY <2>4, <2>5, <2>6, BuildAppType
  <2>8. Effect(o, s) = UpdateEffect(o, s)
    BY <1>6 DEF Effect
  <2> QED BY <1>6, <2>7, <2>8 DEF UpdateEffect, Snapshot
<1>7. CASE o \in [kind : {"delete"}, app : AppIds, generation : Nat]
  <2>1. Effect(o, s) = DeleteEffect(o, s)
    BY <1>7 DEF Effect
  <2> QED BY <1>7, <2>1 DEF DeleteEffect, Snapshot
<1> QED BY <1>1, <1>3, <1>4, <1>5, <1>6, <1>7 DEF Operation

LEMMA SuccessorType ==
  ASSUME NEW c \in Calls, NEW o \in Operation, NEW s \in Snapshot,
         Outcome(o, s) = "change"
  PROVE  Successor(c, o, s) \in Snapshot
<1> DEFINE e == Effect(o, s)
<1>1. e \in Snapshot
  BY EffectType
<1>2. e.revision + 1 \in Nat /\ e.recent \in Seq(Calls)
  BY <1>1 DEF Snapshot
<1>3. Newest(Append(e.recent, c)) \in Seq(Calls)
  <2>1. Append(e.recent, c) \in Seq(Calls)
    BY <1>2
  <2> HIDE DEF e
  <2> QED BY <2>1, NewestType
<1>4. Successor(c, o, s) = [e EXCEPT !.revision = e.revision + 1,
                                     !.recent = Newest(Append(e.recent, c))]
  BY DEF Successor
<1> HIDE DEF e
<1> QED BY <1>1, <1>2, <1>3, <1>4 DEF Snapshot

=============================================================================
