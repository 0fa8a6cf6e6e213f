---------------------------- MODULE AnswerProofs ----------------------------
(***************************************************************************)
(* Proofs about the answers of Repository: what a call reports agrees with *)
(* what happened to its pointer write, and the protocol implements         *)
(* AtomicRegistry.                                                         *)
(***************************************************************************)
EXTENDS RepositoryProofs, FiniteSetTheorems

-----------------------------------------------------------------------------
\* The invariant.

\* The pointer and the snapshots in the log: each one remembers its call as
\* the newest, and none but calls that committed.
PointerIsLast == pointer # None => pointer = Last(log).state

Signed ==
  \A i \in 2..Len(log) :
     LET ids == log[i].state.recent
     IN  ids # << >> /\ Last(ids) = log[i].call

Remembered ==
  \A i \in 1..Len(log) : Range(log[i].state.recent) \subseteq Committers

NewStoreIsEmpty == ~lost /\ pointer = None => Len(log) = 1

LogInv == PointerIsLast /\ Signed /\ Remembered /\ NewStoreIsEmpty

\* How far a call has got, and what its confirmation and its success mean.
NothingToDo(c) ==
  \E i \in start[c]..Len(log) : Outcome(op[c], log[i].state) = "nochange"

Progress(c) ==
  /\ pc[c] # "idle" => start[c] \in 1..Len(log)
  /\ pc[c] # "done" => result[c] = None
  /\ pc[c] \in {"idle", "load", "marker"} => next[c] = None
  /\ pc[c] \in {"matches", "committed", "seal", "reply"}
       => Prepared(c, base[c], next[c])
  /\ pc[c] \in {"seal", "reply"} => c \in Committers
  /\ ~lost /\ pc[c] = "marker" => log[start[c]].state = EmptyRegistry
  /\ result[c] = "ok" => c \in Committers \/ NothingToDo(c)

\* What a call that is not blind has done to the store: nothing before it
\* sends a write and nothing when it is refused, otherwise at most the one
\* write it has prepared, performed or still to be performed.
Unsent == {"idle", "load", "marker"} \cup Planning

Definite == Refusals \cup {"exhausted"}

Untouched(c) == c \notin Committers /\ \A w \in inflight : w.call # c

OneEntry(c) ==
  /\ \A i, j \in 2..Len(log) : log[i].call = c /\ log[j].call = c => i = j
  /\ \A i \in 2..Len(log) :
       log[i].call = c => i > start[c] /\ log[i].state = next[c]

Accountable(c) ==
  /\ OneEntry(c)
  /\ \A w \in inflight :
       w.call = c => /\ c \notin Committers
                     /\ w.base = base[c] /\ w.next = next[c]
  /\ pc[c] \in Unsent \/ result[c] \in Definite => Untouched(c)
  /\ result[c] = "ok" =>
       IF next[c] = None THEN NothingToDo(c) ELSE c \in Committers

AnswerInv ==
  /\ HistoryInv
  /\ LogInv
  /\ \A c \in Calls : Progress(c)
  /\ \A c \in Calls \ blind : Accountable(c)

-----------------------------------------------------------------------------
\* The log

LEMMA LogType ==
  ASSUME TypeOK
  PROVE  /\ Len(log) \in Nat /\ Len(log) >= 1
         /\ \A i \in 1..Len(log) :
               /\ log[i].state \in Snapshot
               /\ log[i].call \in Calls \cup {None}
<1> DEFINE E == [call : Calls \cup {None}, state : Snapshot]
<1>1. log \in Seq(E) \ {<< >>}
  BY DEF TypeOK
<1>2. \A e \in E : e.state \in Snapshot /\ e.call \in Calls \cup {None}
  OBVIOUS
<1> HIDE DEF E
<1>3. Len(log) \in Nat /\ Len(log) >= 1 /\ \A i \in 1..Len(log) : log[i] \in E
  BY <1>1
<1> QED BY <1>2, <1>3

LEMMA Appended ==
  ASSUME TypeOK, NEW c \in Calls, NEW s \in Snapshot,
         log' = Append(log, [call |-> c, state |-> s])
  PROVE  /\ Len(log') = Len(log) + 1
         /\ \A i \in 1..Len(log) : log'[i] = log[i]
         /\ log'[Len(log) + 1] = [call |-> c, state |-> s]
         /\ Last(log') = [call |-> c, state |-> s]
         /\ Committers' = Committers \cup {c}
<1> DEFINE e == [call |-> c, state |-> s]
           n == Len(log)
<1>1. n \in Nat /\ n >= 1
  BY LogType
<1>2. /\ Len(log') = n + 1 /\ log'[n + 1] = e
      /\ \A i \in 1..n : log'[i] = log[i]
  BY <1>1 DEF TypeOK
<1>3. e.call = c
  OBVIOUS
<1> HIDE DEF e, n
<1>4. Last(log') = e
  BY <1>2 DEF Last
<1>5. Committers = {log[i].call : i \in 2..n}
  BY DEF Committers, n
<1>6. Committers' = {log'[i].call : i \in 2..n + 1}
  BY <1>2 DEF Committers
<1>7. Committers' \subseteq Committers \cup {c}
  <2> SUFFICES ASSUME NEW i \in 2..n + 1
               PROVE  log'[i].call \in Committers \cup {c}
    BY <1>6
  <2>1. i \in 2..n \/ i = n + 1
    BY <1>1
  <2> QED BY <1>1, <1>2, <1>3, <1>5, <2>1
<1>8. Committers \cup {c} \subseteq Committers'
  <2>1. ASSUME NEW i \in 2..n PROVE log[i].call \in Committers'
    BY <1>1, <1>2, <1>6
  <2>2. c \in Committers'
    BY <1>1, <1>2, <1>3, <1>6
  <2> QED BY <1>5, <2>1, <2>2
<1> QED BY <1>2, <1>4, <1>7, <1>8 DEF e, n

\* The newest id is the one appended, and no other id is new.
LEMMA NewestIds ==
  ASSUME NEW ids \in Seq(Calls), NEW c \in Calls
  PROVE  LET r == Newest(Append(ids, c))
         IN  /\ r # << >> /\ Last(r) = c
             /\ Range(r) \subseteq Range(ids) \cup {c}
<1> DEFINE all == Append(ids, c)
           r == Newest(all)
           n == Len(ids)
<1>1. /\ all \in Seq(Calls) /\ n \in Nat /\ Len(all) = n + 1
      /\ all[n + 1] = c /\ \A i \in 1..n : all[i] = ids[i]
  OBVIOUS
<1>2. \A i \in 1..n + 1 : all[i] \in Range(ids) \cup {c}
  <2> SUFFICES ASSUME NEW i \in 1..n + 1 PROVE all[i] \in Range(ids) \cup {c}
    OBVIOUS
  <2>1. i \in 1..n \/ i = n + 1
    BY <1>1
  <2>2. \A j \in 1..n : ids[j] \in Range(ids)
    BY DEF Range
  <2> QED BY <1>1, <2>1, <2>2
<1> HIDE DEF all, n
<1>3. CASE n + 1 > RecentLimit
  <2> DEFINE first == Len(all) - RecentLimit + 1
  <2>1. r = SubSeq(all, first, Len(all))
    BY <1>1, <1>3 DEF Newest
  <2>2. /\ first \in 1..n + 1 /\ RecentLimit = Len(all) - first + 1
        /\ first + RecentLimit - 1 = n + 1
    BY <1>1, <1>3, Limits
  <2> HIDE DEF first, r
  <2>3. Len(r) = RecentLimit /\ r \in Seq(Calls)
        /\ \A i \in 1..RecentLimit : r[i] = all[first + i - 1]
    BY <1>1, <2>1, <2>2
  <2>4. r # << >> /\ Last(r) = c
    BY <1>1, <2>2, <2>3, Limits DEF Last
  <2>5. Range(r) \subseteq Range(ids) \cup {c}
    <3> SUFFICES ASSUME NEW i \in DOMAIN r PROVE r[i] \in Range(ids) \cup {c}
      BY DEF Range
    <3>1. i \in 1..RecentLimit
      BY <2>3
    <3>2. first + i - 1 \in 1..n + 1
      BY <1>1, <2>2, <3>1, Limits
    <3> QED BY <1>2, <2>3, <3>1, <3>2
  <2> QED BY <2>4, <2>5 DEF all, r
<1>4. CASE ~(n + 1 > RecentLimit)
  <2>1. r = all
    BY <1>1, <1>4 DEF Newest
  <2>2. r # << >> /\ Last(r) = c
    BY <1>1, <2>1 DEF Last
  <2>3. Range(r) \subseteq Range(ids) \cup {c}
    BY <1>1, <1>2, <2>1 DEF Range
  <2> QED BY <2>2, <2>3 DEF all
<1> QED BY <1>3, <1>4

\* A prepared snapshot is signed by its call.
LEMMA SuccessorIds ==
  ASSUME NEW c \in Calls, NEW o \in Operation, NEW s \in Snapshot,
         Outcome(o, s) = "change"
  PROVE  LET r == Successor(c, o, s).recent
         IN  /\ r # << >> /\ Last(r) = c
             /\ Range(r) \subseteq Range(s.recent) \cup {c}
<1> DEFINE e == Effect(o, s)
<1>1. e \in Snapshot
  BY EffectType
<1>2. e.recent = s.recent
  BY DEF Effect, RegisterEffect, GiveAuth, CreateEffect, UpdateEffect,
         DeleteEffect, Snapshot, Operation
<1>3. s.recent \in Seq(Calls)
  BY DEF Snapshot
<1> HIDE DEF e
<1>4. Successor(c, o, s) = [e EXCEPT !.revision = @ + 1,
                                     !.recent = Newest(Append(@, c))]
  BY DEF Successor, e
<1>5. Successor(c, o, s).recent = Newest(Append(s.recent, c))
  BY <1>1, <1>2, <1>4 DEF Snapshot
<1> QED BY <1>3, <1>5, NewestIds

\* On the empty registry there is always something to do, or a refusal.
LEMMA EmptyHasWork ==
  ASSUME NEW o \in Operation
  PROVE  Outcome(o, EmptyRegistry) # "nochange"
<1>1. \A n : ~Registered(EmptyRegistry, n)
  BY DEF Registered, EmptyRegistry
<1>2. \A in, id : InputOutcome(in, EmptyRegistry, id) = "validation"
  BY <1>1 DEF InputOutcome, Buildable
<1>3. CASE o \in [kind : {"register"}, node : Nodes, slug : NodeSlugs]
  <2>1. EmptyRegistry.nodes[o.node] # o.slug
    BY <1>3, Absent DEF EmptyRegistry
  <2>2. Outcome(o, EmptyRegistry) = RegisterOutcome(o, EmptyRegistry)
    BY <1>3 DEF Outcome
  <2> QED BY <2>1, <2>2 DEF RegisterOutcome
<1>4. CASE o \in [kind : {"claim"}, node : Nodes]
  <2>1. Outcome(o, EmptyRegistry) = ClaimOutcome(o, EmptyRegistry)
    BY <1>4 DEF Outcome
  <2> QED BY <1>1, <2>1 DEF ClaimOutcome
<1>5. CASE o \in [kind : {"transfer"}, expected : Nodes \cup {None},
                  node : Nodes \cup {None}]
  <2>1. Outcome(o, EmptyRegistry) = TransferOutcome(o, EmptyRegistry)
    BY <1>5 DEF Outcome
  <2> QED BY <1>1, <2>1 DEF TransferOutcome
<1>6. CASE o \in [kind : {"create"}, app : AppIds, input : AppInput]
  <2>1. Outcome(o, EmptyRegistry) = InputOutcome(o.input, EmptyRegistry, o.app)
    BY <1>6 DEF Outcome
  <2> QED BY <1>2, <2>1
<1>7. ASSUME o.app \in AppIds, NEW then
      PROVE  AtGeneration(o, EmptyRegistry, then) = "notfound"
  BY <1>7 DEF AtGeneration, EmptyRegistry
<1>8. CASE o \in [kind : {"update"}, app : AppIds, generation : Nat,
                  input : AppInput]
  <2>1. Outcome(o, EmptyRegistry) = UpdateOutcome(o, EmptyRegistry)
    BY <1>8 DEF Outcome
  <2> QED BY <1>7, <1>8, <2>1 DEF UpdateOutcome
<1>9. CASE o \in [kind : {"delete"}, app : AppIds, generation : Nat]
  <2>1. Outcome(o, EmptyRegistry) = AtGeneration(o, EmptyRegistry, "change")
    BY <1>9 DEF Outcome
  <2> QED BY <1>7, <1>9, <2>1
<1> QED BY <1>3, <1>4, <1>5, <1>6, <1>8, <1>9 DEF Operation

LEMMA LogInit == Init => LogInv
<1> SUFFICES ASSUME Init PROVE LogInv
  OBVIOUS
<1>1. /\ pointer \in Seeds /\ Len(log) = 1
      /\ log[1] = [call |-> None, state |-> StateAt(pointer)]
  BY DEF Init
<1>2. PointerIsLast
  BY <1>1 DEF PointerIsLast, Last, StateAt
<1>3. Range(StateAt(pointer).recent) = {}
  <2>1. CASE pointer = None
    BY <2>1 DEF StateAt, EmptyRegistry, Range
  <2>2. CASE pointer # None
    <3>1. pointer \in Snapshot /\ StateAt(pointer) = pointer
      BY <1>1, <2>2, KnownSeeds DEF StateAt
    <3>2. pointer.recent \in Seq(Calls)
      BY <3>1 DEF Snapshot
    <3>3. Range(pointer.recent) \subseteq Calls
      BY <3>2 DEF Range
    <3> QED BY <1>1, <2>2, <3>1, <3>3, FreshCalls
  <2> QED BY <2>1, <2>2
<1> QED BY <1>1, <1>2, <1>3 DEF LogInv, Signed, Remembered, NewStoreIsEmpty

LEMMA LogStep == HistoryInv /\ LogInv /\ [Next]_vars => LogInv'
<1> SUFFICES ASSUME HistoryInv, LogInv, [Next]_vars PROVE LogInv'
  OBVIOUS
<1>1. TypeOK /\ PlansAgree /\ TypeOK'
  BY HistoryStep DEF HistoryInv
<1>2. CASE UNCHANGED <<pointer, log, lost>>
  <2>1. Committers' = Committers
    BY <1>2 DEF Committers
  <2>2. PointerIsLast' /\ Signed' /\ NewStoreIsEmpty'
    BY <1>2 DEF LogInv, PointerIsLast, Signed, NewStoreIsEmpty, Last
  <2>3. Remembered'
    BY <1>2, <2>1 DEF LogInv, Remembered
  <2> QED BY <2>2, <2>3 DEF LogInv
<1>3. CASE pointer' = None /\ log' = log /\ lost'
  <2>1. Committers' = Committers
    BY <1>3 DEF Committers
  <2>2. PointerIsLast' /\ Signed' /\ NewStoreIsEmpty'
    BY <1>3 DEF LogInv, PointerIsLast, Signed, NewStoreIsEmpty, Last
  <2>3. Remembered'
    BY <1>3, <2>1 DEF LogInv, Remembered
  <2> QED BY <2>2, <2>3 DEF LogInv
<1>4. ASSUME NEW c \in Calls, NEW p \in Snapshot \cup {None},
             NEW s \in snapshots,
             Commit(c, p, s), Prepared(c, p, s), lost' = lost
      PROVE  LogInv'
  <2>1. s \in Snapshot /\ pointer' = s /\ s # None
    BY <1>1, <1>4, NoneIsNoRecord DEF Commit, TypeOK
  <2>2. /\ Len(log') = Len(log) + 1
        /\ \A i \in 1..Len(log) : log'[i] = log[i]
        /\ log'[Len(log) + 1] = [call |-> c, state |-> s]
        /\ Last(log') = [call |-> c, state |-> s]
        /\ Committers' = Committers \cup {c}
    BY <1>1, <1>4, <2>1, Appended DEF Commit
  <2>3. Len(log) \in Nat /\ Len(log) >= 1
    BY <1>1, LogType
  <2>4. /\ s.recent # << >> /\ Last(s.recent) = c
        /\ Range(s.recent) \subseteq Range(StateAt(p).recent) \cup {c}
    <3>1. op[c] \in Operation /\ StateAt(p) \in Snapshot
      BY <1>1, <1>4, KnownOps, StateAtType DEF Prepared, TypeOK
    <3>2. s = Successor(c, op[c], StateAt(p)) /\ Outcome(op[c], StateAt(p)) = "change"
      BY <1>4 DEF Prepared
    <3> QED BY <3>1, <3>2, SuccessorIds
  <2>5. Range(StateAt(p).recent) \subseteq Committers
    <3>1. CASE p = None
      BY <3>1 DEF StateAt, EmptyRegistry, Range
    <3>2. CASE p # None
      <4>1. StateAt(p) = log[Len(log)].state
        BY <1>4, <3>2 DEF LogInv, PointerIsLast, Commit, StateAt, Last
      <4> QED BY <2>3, <4>1 DEF LogInv, Remembered
    <3> QED BY <3>1, <3>2
  <2>6. PointerIsLast' /\ NewStoreIsEmpty'
    BY <2>1, <2>2 DEF PointerIsLast, NewStoreIsEmpty
  <2>7. Signed'
    <3> SUFFICES ASSUME NEW i \in 2..Len(log')
                 PROVE  /\ log'[i].state.recent # << >>
                        /\ Last(log'[i].state.recent) = log'[i].call
      BY DEF Signed
    <3>1. i \in 2..Len(log) \/ i = Len(log) + 1
      BY <2>2, <2>3
    <3> QED BY <2>2, <2>3, <2>4, <3>1 DEF LogInv, Signed
  <2>8. Remembered'
    <3> SUFFICES ASSUME NEW i \in 1..Len(log')
                 PROVE  Range(log'[i].state.recent) \subseteq Committers'
      BY DEF Remembered
    <3>1. i \in 1..Len(log) \/ i = Len(log) + 1
      BY <2>2, <2>3
    <3> QED BY <2>2, <2>4, <2>5, <3>1 DEF LogInv, Remembered
  <2> QED BY <2>6, <2>7, <2>8 DEF LogInv
<1> QED BY <1>1, <1>2, <1>3, <1>4, CommitsOnly

\* The pointer names a snapshot of c, or remembers c, only if c committed.
LEMMA OwnPointer ==
  ASSUME HistoryInv, LogInv, NEW c \in Calls
  PROVE  /\ Prepared(c, base[c], next[c]) /\ pointer = next[c] => c \in Committers
         /\ c \in Range(StateAt(pointer).recent) => c \in Committers
<1>1. Len(log) \in Nat /\ Len(log) >= 1
  BY LogType DEF HistoryInv
<1>2. c \in Range(StateAt(pointer).recent) => c \in Committers
  <2>1. CASE pointer = None
    BY <2>1 DEF StateAt, EmptyRegistry, Range
  <2>2. CASE pointer # None
    <3>1. StateAt(pointer) = log[Len(log)].state
      BY <2>2 DEF LogInv, PointerIsLast, StateAt, Last
    <3> QED BY <1>1, <3>1 DEF LogInv, Remembered
  <2> QED BY <2>1, <2>2
<1>3. ASSUME Prepared(c, base[c], next[c]), pointer = next[c]
      PROVE  c \in Range(StateAt(pointer).recent)
  <2>1. op[c] \in Operation /\ StateAt(base[c]) \in Snapshot
    BY <1>3, KnownOps, StateAtType DEF Prepared, HistoryInv, TypeOK
  <2>2. /\ next[c] \in Snapshot
        /\ next[c].recent # << >> /\ Last(next[c].recent) = c
    BY <1>3, <2>1, SuccessorType, SuccessorIds DEF Prepared
  <2>3. StateAt(pointer) = next[c]
    BY <1>3, <2>2, NoneIsNoRecord DEF StateAt
  <2>4. next[c].recent \in Seq(Calls)
    BY <2>2 DEF Snapshot
  <2>5. c \in Range(next[c].recent)
    BY <2>2, <2>4 DEF Last, Range
  <2> QED BY <2>3, <2>5
<1> QED BY <1>2, <1>3

-----------------------------------------------------------------------------
\* The calls

\* A step in which d has no part: its control stays, and so do its writes;
\* the entry the log may gain is of another call.
Bystander(d) ==
  /\ pc'[d] = pc[d] /\ op'[d] = op[d] /\ base'[d] = base[d]
  /\ next'[d] = next[d] /\ result'[d] = result[d] /\ start'[d] = start[d]
  /\ attempt'[d] = attempt[d] /\ failure'[d] = failure[d]
  /\ d \in blind' <=> d \in blind
  /\ \A w \in inflight' : w.call = d => w \in inflight
  /\ \/ log' = log
     \/ \E c \in Calls \ {d}, s \in Snapshot :
           log' = Append(log, [call |-> c, state |-> s])

LEMMA OthersStandBy ==
  ASSUME HistoryInv, NEW c \in Calls, NEW d \in Calls \ {c},
         \/ \E o \in Ops : Begin(c, o)
         \/ Step(c)
         \/ FaultStep(c)
  PROVE  Bystander(d)
<1> USE DEF store, control, history, Goto, Answer
<1> DEFINE Still == /\ pc'[d] = pc[d] /\ op'[d] = op[d] /\ base'[d] = base[d]
                    /\ next'[d] = next[d] /\ result'[d] = result[d]
                    /\ start'[d] = start[d] /\ (d \in blind' <=> d \in blind)
                    /\ attempt'[d] = attempt[d] /\ failure'[d] = failure[d]
           Quiet == log' = log /\ inflight' = inflight
<1>1. TypeOK
  BY DEF HistoryInv
<1>2. Still /\ Quiet => Bystander(d)
  BY DEF Bystander
<1>3. ASSUME NEW o \in Ops, Begin(c, o) PROVE Still /\ Quiet
  BY <1>1, <1>3 DEF Begin, TypeOK
<1>4. ASSUME NEW p, Apply(c, p), UNCHANGED <<op, attempt, failure, start, blind>>
      PROVE  Still
  BY <1>1, <1>4 DEF Apply, TypeOK
<1>5. ASSUME Unconfirmed(c), UNCHANGED <<op, start>> PROVE Still
  BY <1>1, <1>5 DEF Unconfirmed, TypeOK
<1>6. ASSUME LoadPointer(c) PROVE Still /\ Quiet
  BY <1>1, <1>4, <1>6 DEF LoadPointer, TypeOK
<1>7. ASSUME LoadMarker(c) PROVE Still /\ Quiet
  BY <1>1, <1>4, <1>7 DEF LoadMarker, TypeOK
<1>8. ASSUME Exhaust(c) \/ PutSnapshot(c) \/ CheckSnapshot(c)
             \/ PutPointerRefused(c) \/ EnsureMarker(c) \/ Reply(c)
      PROVE  Still /\ Quiet
  BY <1>1, <1>8 DEF Exhaust, PutSnapshot, CheckSnapshot, PutPointerRefused,
     EnsureMarker, Reply, TypeOK
<1>9. ASSUME PointerMatches(c) PROVE Still /\ Quiet
  BY <1>1, <1>9 DEF PointerMatches, Confirmed, TypeOK
<1>10. ASSUME OperationCommitted(c) PROVE Still /\ Quiet
  BY <1>1, <1>5, <1>10 DEF OperationCommitted, Confirmed, TypeOK
<1>11. ASSUME PutPointer(c) PROVE Bystander(d)
  <2>1. Still /\ inflight' = inflight
    BY <1>1, <1>11 DEF PutPointer, Confirmed, TypeOK
  <2>2. log' = Append(log, [call |-> c, state |-> next[c]])
    BY <1>11 DEF PutPointer, Commit
  <2>3. next[c] \in Snapshot
    BY <1>1, <1>11 DEF PutPointer, HistoryInv, PlansAgree, TypeOK
  <2>4. \E b \in Calls \ {d}, s \in Snapshot :
           log' = Append(log, [call |-> b, state |-> s])
    BY <2>2, <2>3
  <2> QED BY <2>1, <2>4 DEF Bystander
<1>12. ASSUME PutPointerUnclear(c) PROVE Bystander(d)
  <2>1. Still /\ log' = log
    BY <1>1, <1>12 DEF PutPointerUnclear, TypeOK
  <2>2. inflight' = inflight
          \cup {[call |-> c, base |-> base[c], next |-> next[c]]}
    BY <1>12 DEF PutPointerUnclear
  <2>3. \A w \in inflight' : w.call = d => w \in inflight
    BY <2>2
  <2> QED BY <2>1, <2>3 DEF Bystander
<1>13. ASSUME LoadFails(c) \/ CheckSnapshotFails(c) \/ PointerMatchesFails(c)
              \/ Crash(c)
       PROVE  Still /\ Quiet
  BY <1>1, <1>13 DEF LoadFails, CheckSnapshotFails, Fail, PointerMatchesFails,
     Crash, TypeOK
<1>14. ASSUME PutSnapshotFails(c) \/ EnsureMarkerFails(c) PROVE Still /\ Quiet
  BY <1>1, <1>14 DEF PutSnapshotFails, EnsureMarkerFails, TypeOK
<1>15. ASSUME OperationCommittedFails(c) PROVE Still /\ Quiet
  BY <1>1, <1>5, <1>15 DEF OperationCommittedFails, TypeOK
<1> HIDE DEF Still, Quiet
<1> QED
  BY <1>2, <1>3, <1>6, <1>7, <1>8, <1>9, <1>10, <1>11, <1>12, <1>13, <1>14,
     <1>15
  DEF Step, FaultStep

\* There was nothing to do at a moment of the call, however long ago.
LEMMA StillNothingToDo ==
  ASSUME NEW d, NothingToDo(d), start[d] \in 1..Len(log),
         Len(log) \in Nat, Len(log') \in Nat, Len(log') >= Len(log),
         \A i \in 1..Len(log) : log'[i] = log[i],
         op'[d] = op[d], start'[d] = start[d]
  PROVE  NothingToDo(d)'
<1>1. PICK i \in start[d]..Len(log) : Outcome(op[d], log[i].state) = "nochange"
  BY DEF NothingToDo
<1>2. i \in 1..Len(log) /\ i \in start[d]..Len(log') /\ log'[i] = log[i]
  BY <1>1
<1> QED BY <1>1, <1>2 DEF NothingToDo

\* What holds of a call goes on to hold when it has no part in the step.
LEMMA BystanderKeeps ==
  ASSUME AnswerInv, NEW d \in Calls, Bystander(d), ~lost' => ~lost
  PROVE  Progress(d)' /\ (d \notin blind' => Accountable(d)')
<1>1. /\ TypeOK /\ Len(log) \in Nat /\ Len(log) >= 1
  BY LogType DEF AnswerInv, HistoryInv
<1> DEFINE Longer ==
             /\ Len(log') \in Nat /\ Len(log') >= Len(log)
             /\ \A i \in 1..Len(log) : log'[i] = log[i]
             /\ \A i \in 2..Len(log') : log'[i].call = d => i \in 2..Len(log)
             /\ d \in Committers' <=> d \in Committers
<1>2. Longer
  <2>1. CASE log' = log
    BY <1>1, <2>1 DEF Committers
  <2>2. ASSUME NEW c \in Calls \ {d}, NEW s \in Snapshot,
               log' = Append(log, [call |-> c, state |-> s])
        PROVE  Longer
    <3>1. /\ Len(log') = Len(log) + 1
          /\ \A i \in 1..Len(log) : log'[i] = log[i]
          /\ log'[Len(log) + 1].call # d
          /\ d \in Committers' <=> d \in Committers
      BY <1>1, <2>2, Appended
    <3>2. \A i \in 2..Len(log') : i \in 2..Len(log) \/ i = Len(log) + 1
      BY <1>1, <3>1
    <3> QED BY <1>1, <3>1, <3>2
  <2> QED BY <2>1, <2>2 DEF Bystander
<1>3. Progress(d)
  BY DEF AnswerInv
<1>4. ASSUME NothingToDo(d), start[d] \in 1..Len(log) PROVE NothingToDo(d)'
  BY <1>1, <1>2, <1>4, StillNothingToDo DEF Bystander
<1>5. result[d] = "ok" => start[d] \in 1..Len(log)
  BY <1>3, NoneIsNoAnswer DEF Progress, Results
<1>6. Progress(d)'
  <2>1. pc[d] # "idle" => start[d] \in 1..Len(log')
    BY <1>1, <1>2, <1>3 DEF Progress
  <2>2. Prepared(d, base[d], next[d])' <=> Prepared(d, base[d], next[d])
    BY DEF Bystander, Prepared
  <2>3. pc[d] = "marker" => log'[start[d]] = log[start[d]]
    BY <1>2, <1>3 DEF Progress
  <2> QED BY <1>2, <1>3, <1>4, <1>5, <2>1, <2>2, <2>3 DEF Progress, Bystander
<1>7. ASSUME d \notin blind' PROVE Accountable(d)'
  <2>1. Accountable(d)
    BY <1>7 DEF AnswerInv, Bystander
  <2>2. OneEntry(d)'
    <3> SUFFICES ASSUME NEW i \in 2..Len(log'), NEW j \in 2..Len(log'),
                        log'[i].call = d, log'[j].call = d
                 PROVE  i = j /\ i > start'[d] /\ log'[i].state = next'[d]
      BY DEF OneEntry
    <3>1. /\ i \in 2..Len(log) /\ j \in 2..Len(log)
          /\ log'[i] = log[i] /\ log'[j] = log[j]
      BY <1>1, <1>2
    <3> QED BY <2>1, <3>1 DEF Accountable, OneEntry, Bystander
  <2>3. Untouched(d) => Untouched(d)'
    BY <1>2 DEF Untouched, Bystander
  <2> QED BY <1>2, <1>4, <1>5, <2>1, <2>2, <2>3 DEF Accountable, Bystander
<1> QED BY <1>6, <1>7

\* What is to be shown of a call after a step.
Sound(c) == Progress(c) /\ (c \notin blind => Accountable(c))

\* A call goes on to its next request, or answers, and the store's pointer
\* and writes stay.
LEMMA LocalStep ==
  ASSUME AnswerInv, NEW c \in Calls,
         UNCHANGED <<log, inflight, op, base, next, start, blind, lost>>,
         pc[c] \notin {"idle", "done"},
         pc'[c] \notin {"idle", "load"},
         pc'[c] # "done" => result'[c] = None,
         pc'[c] = "marker" =>
            pc[c] = "load" /\ (~lost => log[start[c]].state = EmptyRegistry),
         pc'[c] \in {"matches", "committed", "seal", "reply"} =>
            Prepared(c, base[c], next[c]),
         pc'[c] \in {"seal", "reply"} => c \in Committers,
         pc'[c] \in Unsent \/ result'[c] \in Definite => pc[c] \in Unsent,
         result'[c] = "ok" =>
            IF next[c] = None THEN NothingToDo(c) ELSE c \in Committers
  PROVE  Sound(c)'
<1>1. Progress(c) /\ (c \notin blind => Accountable(c))
  BY DEF AnswerInv
<1>2. Committers' = Committers
  BY DEF Committers
<1>3. NothingToDo(c)' <=> NothingToDo(c)
  BY DEF NothingToDo
<1>4. Prepared(c, base[c], next[c])' <=> Prepared(c, base[c], next[c])
  BY DEF Prepared
<1>5. Progress(c)'
  BY <1>1, <1>2, <1>3, <1>4 DEF Progress
<1>6. Untouched(c)' <=> Untouched(c)
  BY <1>2 DEF Untouched
<1>7. OneEntry(c)' <=> OneEntry(c)
  BY DEF OneEntry
<1>8. Accountable(c) => Accountable(c)'
  BY <1>2, <1>3, <1>6, <1>7 DEF Accountable
<1> QED BY <1>1, <1>5, <1>8 DEF Sound

\* The state a call reads was the registry's at some moment of the call.
LEMMA ReadIsSeen ==
  ASSUME AnswerInv, NEW c \in Calls, NEW p \in Snapshot \cup {None},
         \/ pc[c] = "load" /\ p = pointer /\ p # None
         \/ pc[c] = "marker" /\ p = None
  PROVE  /\ Outcome(op[c], StateAt(p)) = "nochange" => NothingToDo(c)
         /\ ~lost => \E i \in start[c]..Len(log) : log[i].state = StateAt(p)
<1>1. Len(log) \in Nat /\ Len(log) >= 1 /\ start[c] \in 1..Len(log)
  BY LogType DEF AnswerInv, HistoryInv, Progress
<1>2. CASE pc[c] = "load" /\ p = pointer /\ p # None
  <2>1. log[Len(log)].state = StateAt(p)
    BY <1>2 DEF AnswerInv, LogInv, PointerIsLast, Last, StateAt
  <2>2. Len(log) \in start[c]..Len(log)
    BY <1>1
  <2> QED BY <2>1, <2>2 DEF NothingToDo
<1>3. CASE pc[c] = "marker" /\ p = None
  <2>1. op[c] \in Operation
    BY <1>3, KnownOps DEF AnswerInv, HistoryInv, BegunCalls, TypeOK
  <2>2. Outcome(op[c], StateAt(p)) # "nochange"
    BY <1>3, <2>1, EmptyHasWork DEF StateAt
  <2>3. ~lost => log[start[c]].state = StateAt(p)
    BY <1>3 DEF AnswerInv, Progress, StateAt
  <2>4. start[c] \in start[c]..Len(log)
    BY <1>1
  <2> QED BY <2>2, <2>3, <2>4
<1> QED BY <1>2, <1>3

LEMMA ApplyStep ==
  ASSUME AnswerInv, NEW c \in Calls, NEW p \in Snapshot \cup {None},
         \/ pc[c] = "load" /\ p = pointer /\ p # None
         \/ pc[c] = "marker" /\ p = None,
         Apply(c, p), UNCHANGED <<store, op, history>>
  PROVE  Sound(c)'
<1>1. Progress(c) /\ (c \notin blind => Accountable(c))
  BY DEF AnswerInv
<1>2. /\ pc \in [Calls -> Steps] /\ base \in [Calls -> Snapshot \cup {None}]
      /\ next \in [Calls -> Snapshot \cup {None}]
      /\ result \in [Calls -> Results \cup {None}]
  BY DEF AnswerInv, HistoryInv, TypeOK
<1>3. UNCHANGED <<log, inflight, op, start, blind, lost>>
  BY DEF store, history
<1>4. CASE Outcome(op[c], StateAt(p)) = "change"
  <2>1. pc'[c] = "putSnapshot" /\ result' = result
    BY <1>2, <1>4 DEF Apply, Goto, Refusals
  <2>2. Committers' = Committers
    BY <1>3 DEF Committers
  <2>3. Untouched(c)' <=> Untouched(c)
    BY <1>3, <2>2 DEF Untouched
  <2>4. result[c] = None
    BY <1>1 DEF Progress
  <2>5. Progress(c)'
    BY <1>1, <1>3, <2>1, <2>2, <2>4, NoneIsNoAnswer DEF Progress, Results
  <2>6. ASSUME Accountable(c) PROVE Accountable(c)'
    <3>1. Untouched(c)
      BY <2>6 DEF Accountable, Unsent
    <3>2. \A i \in 2..Len(log) : log[i].call # c
      BY <3>1 DEF Untouched, Committers
    <3>3. OneEntry(c)'
      BY <1>3, <3>2 DEF OneEntry
    <3> QED BY <1>3, <2>1, <2>3, <2>4, <3>1, <3>3, NoneIsNoAnswer
            DEF Accountable, Results, Untouched
  <2> QED BY <1>1, <1>3, <2>5, <2>6 DEF Sound
<1>5. CASE Outcome(op[c], StateAt(p)) = "nochange"
  <2>1. /\ pc'[c] = "done" /\ result'[c] = "ok"
        /\ base' = base /\ next' = next
    BY <1>2, <1>5 DEF Apply, Answer, Goto, Refusals
  <2>2. NothingToDo(c)
    BY <1>5, ReadIsSeen
  <2>3. next[c] = None
    BY <1>1 DEF Progress
  <2> QED BY <1>3, <2>1, <2>2, <2>3, LocalStep DEF Unsent, Planning, Definite,
          Refusals
<1>6. CASE Outcome(op[c], StateAt(p)) \in Refusals
  <2>1. /\ pc'[c] = "done" /\ result'[c] # "ok"
        /\ base' = base /\ next' = next
    BY <1>2, <1>6 DEF Apply, Answer, Goto, Refusals
  <2> QED BY <1>3, <2>1, LocalStep DEF Unsent, Planning
<1> QED BY <1>4, <1>5, <1>6 DEF Apply

LEMMA BeginStep ==
  ASSUME AnswerInv, NEW c \in Calls, NEW o \in Ops, Begin(c, o)
  PROVE  Sound(c)'
<1> USE DEF store
<1>1. Progress(c) /\ (c \notin blind => Accountable(c))
  BY DEF AnswerInv
<1>2. /\ TypeOK /\ Len(log) \in Nat /\ Len(log) >= 1
      /\ op[c] = None /\ pc[c] = "idle"
  BY LogType DEF AnswerInv, HistoryInv, BegunCalls, Begin
<1>3. /\ pc'[c] = "load" /\ start'[c] = Len(log)
      /\ UNCHANGED <<log, inflight, base, next, result, blind>>
  BY <1>2 DEF Begin, Goto, TypeOK
<1>4. \A i \in 2..Len(log) : log[i].call # c
  BY <1>2 DEF AnswerInv, HistoryInv, BegunCalls
<1>5. c \notin Committers
  BY <1>4 DEF Committers
<1>6. \A w \in inflight : w.call # c
  BY <1>2 DEF AnswerInv, HistoryInv, PlansAgree, Prepared
<1>7. Untouched(c)'
  BY <1>3, <1>5, <1>6 DEF Untouched, Committers
<1>8. OneEntry(c)'
  BY <1>3, <1>4 DEF OneEntry
<1>9. result'[c] = None
  BY <1>1, <1>2, <1>3 DEF Progress
<1>10. Progress(c)'
  BY <1>1, <1>2, <1>3, <1>9, NoneIsNoAnswer DEF Progress, Results
<1>11. Accountable(c)'
  BY <1>3, <1>6, <1>7, <1>8, <1>9, NoneIsNoAnswer DEF Accountable, Results
<1> QED BY <1>10, <1>11 DEF Sound

\* The first write of a call that is performed is its only entry.
LEMMA FirstEntry ==
  ASSUME TypeOK, NEW c \in Calls, start[c] \in 1..Len(log),
         next[c] \in Snapshot,
         log' = Append(log, [call |-> c, state |-> next[c]]),
         next'[c] = next[c], start'[c] = start[c]
  PROVE  /\ c \in Committers'
         /\ c \notin Committers => OneEntry(c)'
<1>1. Len(log) \in Nat /\ Len(log) >= 1
  BY LogType
<1>2. /\ Len(log') = Len(log) + 1
      /\ \A i \in 1..Len(log) : log'[i] = log[i]
      /\ log'[Len(log) + 1].call = c /\ log'[Len(log) + 1].state = next[c]
      /\ c \in Committers'
  BY Appended
<1>3. ASSUME c \notin Committers PROVE OneEntry(c)'
  <2>1. \A i \in 2..Len(log) : log[i].call # c
    BY <1>3 DEF Committers
  <2>2. ASSUME NEW i \in 2..Len(log'), log'[i].call = c PROVE i = Len(log) + 1
    <3>1. i \in 2..Len(log) \/ i = Len(log) + 1
      BY <1>1, <1>2
    <3> QED BY <1>1, <1>2, <2>1, <2>2, <3>1
  <2>3. Len(log) + 1 > start[c]
    BY <1>1
  <2> QED BY <1>2, <2>2, <2>3 DEF OneEntry
<1> QED BY <1>2, <1>3

LEMMA PutPointerStep ==
  ASSUME AnswerInv, NEW c \in Calls, PutPointer(c)
  PROVE  Sound(c)'
<1>1. Progress(c) /\ (c \notin blind => Accountable(c))
  BY DEF AnswerInv
<1>2. TypeOK /\ pc[c] = "putPointer" /\ Prepared(c, base[c], next[c])
  BY DEF AnswerInv, HistoryInv, PlansAgree, PutPointer
<1>3. Len(log) \in Nat /\ Len(log) >= 1
  BY <1>2, LogType
<1>4. next[c] \in Snapshot
  BY <1>2 DEF AnswerInv, HistoryInv, PlansAgree, PutPointer, TypeOK
<1>5. /\ log' = Append(log, [call |-> c, state |-> next[c]])
      /\ pc'[c] \in {"seal", "reply"}
      /\ UNCHANGED <<op, base, next, result, start, inflight, blind, lost>>
  BY <1>2 DEF PutPointer, Commit, Confirmed, Goto, TypeOK
<1>6. start[c] \in 1..Len(log) /\ result[c] = None
  BY <1>1, <1>2 DEF Progress
<1>7. /\ c \in Committers' /\ (c \notin Committers => OneEntry(c)')
      /\ Len(log') = Len(log) + 1
  BY <1>2, <1>4, <1>5, <1>6, FirstEntry, Appended
<1>8. start[c] \in 1..Len(log')
  BY <1>3, <1>6, <1>7
<1>9. Prepared(c, base[c], next[c])'
  BY <1>2, <1>5 DEF Prepared
<1>10. Progress(c)'
  BY <1>5, <1>6, <1>7, <1>8, <1>9, NoneIsNoAnswer DEF Progress, Results
<1>11. ASSUME c \notin blind PROVE Accountable(c)'
  <2>1. Untouched(c)
    BY <1>1, <1>2, <1>11 DEF Accountable, Unsent, Planning
  <2> QED BY <1>5, <1>6, <1>7, <2>1, NoneIsNoAnswer
          DEF Accountable, Untouched, Unsent, Planning, Definite, Results
<1> QED BY <1>5, <1>10, <1>11 DEF Sound

LEMMA LateWriteStep ==
  ASSUME AnswerInv, NEW w \in inflight, LateWrite(w)
  PROVE  Sound(w.call)'
<1> DEFINE c == w.call
<1> USE DEF control
<1>1. TypeOK /\ c \in Calls /\ w.next \in Snapshot /\ Prepared(c, w.base, w.next)
  BY DEF AnswerInv, HistoryInv, TypeOK, PlansAgree, Write
<1>2. Progress(c) /\ (c \notin blind => Accountable(c))
  BY <1>1 DEF AnswerInv
<1>3. Len(log) \in Nat /\ Len(log) >= 1
  BY <1>1, LogType
<1>4. /\ log' = Append(log, [call |-> c, state |-> w.next])
      /\ inflight' = inflight \ {w}
      /\ UNCHANGED <<pc, op, base, next, result, start, blind, lost>>
  BY DEF LateWrite, Commit
<1>5. start[c] \in 1..Len(log)
  BY <1>1, <1>2 DEF AnswerInv, HistoryInv, BegunCalls, Prepared, Progress
<1>6. /\ c \in Committers' /\ Len(log') = Len(log) + 1
      /\ \A i \in 1..Len(log) : log'[i] = log[i]
  BY <1>1, <1>4, Appended
<1> HIDE DEF c
<1>7. NothingToDo(c) => NothingToDo(c)'
  BY <1>3, <1>4, <1>5, <1>6, StillNothingToDo
<1>8. start[c] \in 1..Len(log') /\ log'[start[c]] = log[start[c]]
  BY <1>3, <1>5, <1>6
<1>9. Prepared(c, base[c], next[c])' <=> Prepared(c, base[c], next[c])
  BY <1>4 DEF Prepared
<1>10. Progress(c)'
  BY <1>2, <1>4, <1>6, <1>7, <1>8, <1>9 DEF Progress
<1>11. ASSUME c \notin blind PROVE Accountable(c)'
  <2>1. /\ Accountable(c) /\ c \notin Committers
        /\ w.base = base[c] /\ w.next = next[c]
    BY <1>2, <1>11 DEF Accountable, c
  <2>2. OneEntry(c)'
    BY <1>1, <1>4, <1>5, <2>1, FirstEntry
  <2>3. ~Untouched(c)
    BY DEF Untouched, c
  <2>4. ASSUME NEW v \in inflight', v.call = c PROVE FALSE
    <3>1. v \in inflight /\ v # w /\ v \in Write /\ w \in Write
      BY <1>1, <1>4, <2>4 DEF TypeOK
    <3>2. v.base = w.base /\ v.next = w.next /\ v.call = w.call
      BY <2>1, <2>4, <3>1 DEF Accountable, c
    <3> QED BY <3>1, <3>2 DEF Write
  <2> QED BY <1>4, <1>6, <1>7, <2>1, <2>2, <2>3, <2>4 DEF Accountable
<1> QED BY <1>4, <1>10, <1>11 DEF Sound, c

LEMMA UnclearStep ==
  ASSUME AnswerInv, NEW c \in Calls, PutPointerUnclear(c)
  PROVE  Sound(c)'
<1>1. Progress(c) /\ (c \notin blind => Accountable(c))
  BY DEF AnswerInv
<1>2. TypeOK /\ pc[c] = "putPointer" /\ Prepared(c, base[c], next[c])
  BY DEF AnswerInv, HistoryInv, PlansAgree, PutPointerUnclear
<1>3. /\ inflight' = inflight
           \cup {[call |-> c, base |-> base[c], next |-> next[c]]}
      /\ pc'[c] = "matches"
      /\ UNCHANGED <<op, base, next, result, log, start, blind, lost>>
  BY <1>2 DEF PutPointerUnclear, Goto, TypeOK
<1>4. result[c] = None
  BY <1>1, <1>2 DEF Progress
<1>5. Prepared(c, base[c], next[c])'
  BY <1>2, <1>3 DEF Prepared
<1>6. Progress(c)'
  BY <1>1, <1>2, <1>3, <1>4, <1>5, NoneIsNoAnswer DEF Progress, Results
<1>7. ASSUME c \notin blind PROVE Accountable(c)'
  <2>1. Untouched(c) /\ OneEntry(c)
    BY <1>1, <1>2, <1>7 DEF Accountable, Unsent, Planning
  <2>2. OneEntry(c)' /\ c \notin Committers'
    BY <1>3, <2>1 DEF OneEntry, Untouched, Committers
  <2>3. ASSUME NEW w \in inflight', w.call = c
        PROVE  w.base = base[c] /\ w.next = next[c]
    BY <1>3, <2>1, <2>3 DEF Untouched
  <2> QED BY <1>3, <1>4, <2>2, <2>3, NoneIsNoAnswer
          DEF Accountable, Unsent, Planning, Definite, Results
<1> QED BY <1>3, <1>6, <1>7 DEF Sound

\* A call that is still not blind when it tries again has written nothing.
LEMMA UnconfirmedStep ==
  ASSUME AnswerInv, NEW c \in Calls, pc[c] = "committed", Unconfirmed(c),
         UNCHANGED <<store, op, log, start, lost>>,
         c \notin Range(StateAt(pointer).recent) \/ faults' # faults
  PROVE  Sound(c)'
<1>1. Progress(c) /\ (c \notin blind => Accountable(c)) /\ TypeOK
  BY DEF AnswerInv, HistoryInv
<1>2. UNCHANGED <<inflight, pointer, op, log, start, lost>>
  BY DEF store
<1>3. CASE failure[c] = "precondition"
  <2>1. /\ pc'[c] = "load" /\ next'[c] = None /\ result' = result
        /\ blind' = IF CannotKnow(c) THEN blind \cup {c} ELSE blind
    BY <1>1, <1>3 DEF Unconfirmed, Goto, TypeOK
  <2>2. result[c] = None
    BY <1>1 DEF Progress
  <2>3. Progress(c)'
    BY <1>1, <1>2, <2>1, <2>2, NoneIsNoAnswer DEF Progress, Results
  <2>4. ASSUME c \notin blind' PROVE Accountable(c)'
    <3>1. ~CannotKnow(c)
      BY <2>1, <2>4
    <3>2. Untouched(c)
      BY <3>1 DEF CannotKnow, Untouched
    <3>3. Untouched(c)'
      BY <1>2, <3>2 DEF Untouched, Committers
    <3>4. \A i \in 2..Len(log) : log[i].call # c
      BY <3>2 DEF Untouched, Committers
    <3>5. OneEntry(c)'
      BY <1>2, <3>4 DEF OneEntry
    <3> QED BY <2>1, <2>2, <3>3, <3>5, NoneIsNoAnswer
            DEF Accountable, Untouched, Results
  <2> QED BY <2>3, <2>4 DEF Sound
<1>4. CASE failure[c] = "error"
  <2>1. /\ pc'[c] = "done" /\ result'[c] = "unavailable"
        /\ UNCHANGED <<base, next, blind>>
    BY <1>1, <1>4 DEF Unconfirmed, Answer, Goto, TypeOK
  <2> QED BY <1>2, <2>1, LocalStep DEF Unsent, Planning, Definite, Refusals
<1> QED BY <1>3, <1>4 DEF Unconfirmed

\* Every step of a call of its own.
LEMMA OwnStep ==
  ASSUME AnswerInv, NEW c \in Calls, Step(c) \/ FaultStep(c)
  PROVE  Sound(c)'
<1> USE DEF store, control, history, Goto, Answer
<1>1. /\ pc \in [Calls -> Steps] /\ result \in [Calls -> Results \cup {None}]
      /\ next \in [Calls -> Snapshot \cup {None}]
      /\ pointer \in Snapshot \cup {None} /\ snapshots \subseteq Snapshot
  BY DEF AnswerInv, HistoryInv, TypeOK
<1>2. /\ Progress(c) /\ (c \notin blind => Accountable(c))
      /\ HistoryInv /\ LogInv /\ BegunCalls /\ SerialHistory
  BY DEF AnswerInv, HistoryInv
<1>3. pc[c] # "done" => result[c] = None
  BY <1>2 DEF Progress
<1>4. pc[c] \in {"putSnapshot", "checkSnapshot", "putPointer", "matches",
                 "committed", "seal", "reply"} => Prepared(c, base[c], next[c])
  BY <1>2 DEF Progress, HistoryInv, PlansAgree
<1>5. Prepared(c, base[c], next[c]) => next[c] # None
  <2>1. ASSUME Prepared(c, base[c], next[c]) PROVE next[c] \in Snapshot
    <3>1. op[c] \in Operation /\ StateAt(base[c]) \in Snapshot
      BY <1>2, <2>1, KnownOps, StateAtType DEF Prepared, HistoryInv, TypeOK
    <3> QED BY <2>1, <3>1, SuccessorType DEF Prepared
  <2> QED BY <2>1, NoneIsNoRecord
<1>6. ASSUME LoadPointer(c) PROVE Sound(c)'
  <2>1. CASE pointer = None /\ pc'[c] = "marker" /\ result'[c] = None /\ UNCHANGED <<base, next>>
    <3>1. ~lost => log[start[c]].state = EmptyRegistry
      <4>1. start[c] \in 1..Len(log)
        BY <1>2, <1>6 DEF LoadPointer, Progress
      <4>2. ~lost => Len(log) = 1 /\ log[Len(log)].state = EmptyRegistry
        BY <1>2, <2>1 DEF LogInv, NewStoreIsEmpty, SerialHistory, StateAt, Last
      <4>3. ASSUME Len(log) = 1 PROVE start[c] = 1
        BY <4>1, <4>3
      <4> QED BY <4>2, <4>3
    <3>2. pc[c] = "load" /\ None \notin Definite /\ None # "ok"
      BY <1>6, NoneIsNoAnswer DEF LoadPointer, Definite, Results
    <3>3. UNCHANGED <<log, inflight, op, base, next, start, blind, lost>>
      BY <1>6, <2>1 DEF LoadPointer
    <3> QED BY <2>1, <3>1, <3>2, <3>3, LocalStep DEF Unsent
  <2>2. CASE pointer \in snapshots /\ Apply(c, pointer)
    BY <1>1, <1>6, <2>2, ApplyStep, NoneIsNoRecord DEF LoadPointer
  <2>3. CASE pc'[c] = "done" /\ result'[c] = "unavailable" /\ UNCHANGED <<base, next>>
    BY <1>6, <2>3, LocalStep DEF LoadPointer, Unsent, Planning, Definite, Refusals
  <2> QED BY <1>1, <1>3, <1>6, <2>1, <2>2, <2>3 DEF LoadPointer
<1>7. ASSUME LoadMarker(c) PROVE Sound(c)'
  <2>1. CASE Apply(c, None)
    BY <1>7, <2>1, ApplyStep DEF LoadMarker
  <2>2. CASE pc'[c] = "done" /\ result'[c] = "missing" /\ UNCHANGED <<base, next>>
    BY <1>7, <2>2, LocalStep DEF LoadMarker, Unsent, Planning, Definite, Refusals
  <2> QED BY <1>1, <1>7, <2>1, <2>2 DEF LoadMarker
<1>8. ASSUME Exhaust(c) PROVE Sound(c)'
  <2>1. pc'[c] = "done" /\ result'[c] = "exhausted" /\ pc[c] = "load"
    BY <1>1, <1>8 DEF Exhaust
  <2> QED BY <1>8, <2>1, LocalStep DEF Exhaust, Unsent, Planning, Definite, Refusals
<1>9. ASSUME PutSnapshot(c) \/ CheckSnapshot(c) PROVE Sound(c)'
  <2>1. pc[c] \in Planning /\ pc'[c] \in Planning /\ result' = result
    BY <1>1, <1>9 DEF PutSnapshot, CheckSnapshot, Planning
  <2> QED BY <1>3, <1>9, <2>1, LocalStep, NoneIsNoAnswer
          DEF PutSnapshot, CheckSnapshot, Unsent, Planning, Results
<1>10. ASSUME PutPointerRefused(c) PROVE Sound(c)'
  <2>1. pc[c] = "putPointer" /\ pc'[c] = "matches" /\ result' = result
    BY <1>1, <1>10 DEF PutPointerRefused
  <2> QED BY <1>3, <1>4, <1>10, <2>1, LocalStep, NoneIsNoAnswer
          DEF PutPointerRefused, Unsent, Planning, Results
<1>11. ASSUME PointerMatches(c) \/ PointerMatchesFails(c) PROVE Sound(c)'
  <2>1. /\ pc[c] = "matches" /\ result' = result
        /\ pc'[c] \in {"committed", "seal", "reply"}
        /\ pc'[c] \in {"seal", "reply"} => pointer = next[c]
    BY <1>1, <1>11 DEF PointerMatches, PointerMatchesFails, Confirmed
  <2>2. pc'[c] \in {"seal", "reply"} => c \in Committers
    BY <1>2, <1>4, <2>1, OwnPointer
  <2>3. UNCHANGED <<log, inflight, op, base, next, start, blind, lost>>
    BY <1>11 DEF PointerMatches, PointerMatchesFails
  <2> QED BY <1>3, <1>4, <2>1, <2>2, <2>3, LocalStep, NoneIsNoAnswer
          DEF Unsent, Planning, Definite, Results
<1>12. ASSUME OperationCommitted(c) PROVE Sound(c)'
  <2>1. pc[c] = "committed" /\ UNCHANGED <<store, op, log, start, faults, lost>>
    BY <1>12 DEF OperationCommitted
  <2>2. CASE /\ c \in Range(StateAt(pointer).recent) /\ Confirmed(c)
             /\ UNCHANGED <<attempt, base, next, failure, result, blind>>
    <3>1. pc'[c] \in {"seal", "reply"} /\ c \in Committers
      BY <1>1, <1>2, <2>2, OwnPointer DEF Confirmed
    <3> QED BY <1>3, <1>4, <2>1, <2>2, <3>1, LocalStep, NoneIsNoAnswer
            DEF Unsent, Planning, Definite, Results
  <2>3. CASE c \notin Range(StateAt(pointer).recent) /\ Unconfirmed(c)
    BY <2>1, <2>3, UnconfirmedStep
  <2> QED BY <1>12, <2>2, <2>3 DEF OperationCommitted
<1>13. ASSUME OperationCommittedFails(c) PROVE Sound(c)'
  <2>1. faults' # faults
    BY <1>2, <1>13 DEF OperationCommittedFails, Fault, HistoryInv, TypeOK
  <2> QED BY <1>13, <2>1, UnconfirmedStep DEF OperationCommittedFails
<1>14. ASSUME EnsureMarker(c) PROVE Sound(c)'
  <2>1. pc[c] = "seal" /\ pc'[c] = "reply" /\ result' = result
    BY <1>1, <1>14 DEF EnsureMarker
  <2> QED BY <1>2, <1>3, <1>4, <1>14, <2>1, LocalStep, NoneIsNoAnswer
          DEF EnsureMarker, Progress, Unsent, Planning, Definite, Results
<1>15. ASSUME EnsureMarkerFails(c) PROVE Sound(c)'
  <2>1. /\ pc[c] = "seal"
        /\ UNCHANGED <<log, inflight, op, base, next, start, blind, lost>>
        /\ \/ pc'[c] = "done" /\ result'[c] = "unavailable"
           \/ pc'[c] = "reply" /\ result' = result
    BY <1>1, <1>15 DEF EnsureMarkerFails
  <2> QED BY <1>2, <1>3, <1>4, <2>1, LocalStep, NoneIsNoAnswer
          DEF Progress, Unsent, Planning, Definite, Refusals, Results
<1>16. ASSUME Reply(c) PROVE Sound(c)'
  <2>1. pc[c] = "reply" /\ pc'[c] = "done" /\ result'[c] = "ok"
    BY <1>1, <1>16 DEF Reply
  <2> QED BY <1>2, <1>4, <1>5, <1>16, <2>1, LocalStep
          DEF Reply, Progress, Unsent, Planning, Definite, Refusals
<1>17. ASSUME NEW r \in {"unavailable", "collision"}, Fail(c, r),
              pc[c] \in {"load", "marker", "checkSnapshot"}
       PROVE  Sound(c)'
  <2>1. pc'[c] = "done" /\ result'[c] = r
    BY <1>1, <1>17 DEF Fail
  <2> QED BY <1>17, <2>1, LocalStep DEF Fail, Unsent, Planning, Definite, Refusals
<1>18. ASSUME LoadFails(c) \/ CheckSnapshotFails(c) PROVE Sound(c)'
  BY <1>17, <1>18 DEF LoadFails, CheckSnapshotFails
<1>19. ASSUME PutSnapshotFails(c) PROVE Sound(c)'
  <2>1. /\ pc[c] = "putSnapshot"
        /\ UNCHANGED <<log, inflight, op, base, next, start, blind, lost>>
        /\ \/ pc'[c] = "done" /\ result'[c] = "unavailable"
           \/ pc'[c] = "checkSnapshot" /\ result' = result
    BY <1>1, <1>19 DEF PutSnapshotFails
  <2> QED BY <1>3, <2>1, LocalStep, NoneIsNoAnswer
          DEF Unsent, Planning, Definite, Refusals, Results
<1>20. ASSUME Crash(c) PROVE Sound(c)'
  <2>1. /\ pc[c] \notin {"idle", "done"}
        /\ pc'[c] = "crashed" /\ result' = result
    BY <1>1, <1>20 DEF Crash, Running
  <2> QED BY <1>3, <1>20, <2>1, LocalStep, NoneIsNoAnswer
          DEF Crash, Unsent, Planning, Definite, Results
<1> QED
  BY <1>6, <1>7, <1>8, <1>9, <1>10, <1>11, <1>12, <1>13, <1>14, <1>15, <1>16,
     <1>18, <1>19, <1>20, PutPointerStep, UnclearStep
  DEF Step, FaultStep

-----------------------------------------------------------------------------
\* The theorems

LEMMA AnswerInit == Init => AnswerInv
<1> SUFFICES ASSUME Init PROVE AnswerInv
  OBVIOUS
<1>1. HistoryInv /\ LogInv
  BY HistoryInit, LogInit
<1>2. /\ Len(log) = 1 /\ inflight = {}
      /\ \A c \in Calls : /\ pc[c] = "idle" /\ next[c] = None
                         /\ result[c] = None
  BY DEF Init
<1>3. Committers = {}
  BY <1>2 DEF Committers
<1>4. ASSUME NEW c \in Calls PROVE Progress(c) /\ Accountable(c)
  BY <1>2, <1>3, NoneIsNoAnswer
     DEF Progress, Accountable, OneEntry, Untouched, Results
<1> QED BY <1>1, <1>4 DEF AnswerInv

LEMMA AnswerStep == AnswerInv /\ [Next]_vars => AnswerInv'
<1> SUFFICES ASSUME AnswerInv, [Next]_vars PROVE AnswerInv'
  OBVIOUS
<1>1. HistoryInv /\ LogInv /\ HistoryInv' /\ LogInv'
  BY HistoryStep, LogStep DEF AnswerInv
<1>2. ~lost' => ~lost
  BY <1>1, CommitsOnly DEF HistoryInv
<1>3. ASSUME NEW d \in Calls, Bystander(d) PROVE Sound(d)'
  BY <1>2, <1>3, BystanderKeeps DEF Sound
<1>4. ASSUME NEW d \in Calls PROVE Sound(d)'
  <2>1. ASSUME NEW c \in Calls, NEW o \in Ops, Begin(c, o) PROVE Sound(d)'
    BY <1>1, <1>3, <2>1, BeginStep, OthersStandBy
  <2>2. ASSUME NEW c \in Calls, Step(c) \/ FaultStep(c) PROVE Sound(d)'
    BY <1>1, <1>3, <2>2, OwnStep, OthersStandBy
  <2>3. ASSUME NEW w \in inflight, LateWrite(w) PROVE Sound(d)'
    <3>1. CASE w.call = d
      BY <2>3, <3>1, LateWriteStep
    <3>2. CASE w.call # d
      <4>1. w.call \in Calls \ {d} /\ w.next \in Snapshot
        BY <1>1, <3>2 DEF HistoryInv, TypeOK, Write
      <4>2. log' = Append(log, [call |-> w.call, state |-> w.next])
        BY <2>3 DEF LateWrite, Commit
      <4>3. \E c \in Calls \ {d}, s \in Snapshot :
               log' = Append(log, [call |-> c, state |-> s])
        BY <4>1, <4>2
      <4> QED BY <1>3, <2>3, <4>3 DEF LateWrite, control, Bystander
    <3> QED BY <3>1, <3>2
  <2>4. LosePointer \/ UNCHANGED vars => Bystander(d)
    BY DEF LosePointer, control, vars, store, history, Bystander
  <2> QED BY <1>3, <2>1, <2>2, <2>3, <2>4 DEF Next, Finished
<1> QED BY <1>1, <1>4 DEF AnswerInv, Sound

LEMMA AnswerInvariant == Spec => []AnswerInv
  BY AnswerInit, AnswerStep, PTL DEF Spec

\* However often mutate tries, a call that is not blind has its operation
\* applied at most once.
THEOREM AppliedOnce == Spec => []AtMostOnce
<1>1. AnswerInv => AtMostOnce
  BY DEF AnswerInv, HistoryInv, BegunCalls, Accountable, OneEntry, AtMostOnce
<1> QED BY <1>1, AnswerInvariant, PTL

\* A call that was refused, or gave up after its last attempt, has not
\* changed the registry and never will.
THEOREM RefusalsStand == Spec => []RefusalIsFinal
<1>1. AnswerInv => RefusalIsFinal
  BY DEF AnswerInv, Accountable, Untouched, Definite, RefusalIsFinal
<1> QED BY <1>1, AnswerInvariant, PTL

\* A success is about a snapshot of the call that was once the registry, or
\* about a moment of the call with nothing to do.
THEOREM SuccessIsTrue == Spec => []AnswerIsCommitted
<1>1. AnswerInv => AnswerIsCommitted
  <2> SUFFICES ASSUME AnswerInv, NEW c \in Calls \ blind, result[c] = "ok",
                      next[c] # None
               PROVE  \E i \in (start[c] + 1)..Len(log) :
                         log[i] = [call |-> c, state |-> next[c]]
    BY DEF AnswerInv, Accountable, AnswerIsCommitted, NothingToDo
  <2>1. Accountable(c) /\ c \in Committers
    BY DEF AnswerInv, Accountable
  <2>2. PICK i \in 2..Len(log) : log[i].call = c
    BY <2>1 DEF Committers
  <2>3. i > start[c] /\ log[i].state = next[c]
    BY <2>1, <2>2 DEF Accountable, OneEntry
  <2>4. /\ log \in Seq([call : Calls \cup {None}, state : Snapshot])
        /\ start[c] \in Nat
    BY DEF AnswerInv, HistoryInv, TypeOK
  <2>5. log[i] \in [call : Calls \cup {None}, state : Snapshot]
    <3> DEFINE E == [call : Calls \cup {None}, state : Snapshot]
    <3> HIDE DEF E
    <3>1. log \in Seq(E) /\ i \in 1..Len(log)
      BY <2>2, <2>4 DEF E
    <3>2. log[i] \in E
      BY <3>1
    <3> QED BY <3>2 DEF E
  <2>6. log[i] = [call |-> c, state |-> next[c]]
    BY <2>2, <2>3, <2>5
  <2> QED BY <2>3, <2>4, <2>6
<1> QED BY <1>1, AnswerInvariant, PTL

-----------------------------------------------------------------------------
\* Repository implements AtomicRegistry, until the pointer is lost.

\* The content of the abstract registry is computed as that of the concrete.
LEMMA SameOutcome ==
  ASSUME NEW o, NEW s
  PROVE  Atomic!Outcome(o, s) = Outcome(o, s)
<1>1. Atomic!RegisterOutcome(o, s) = RegisterOutcome(o, s)
  BY DEF Atomic!RegisterOutcome, RegisterOutcome, Atomic!NameTaken, NameTaken,
         Atomic!Registered, Registered
<1>2. Atomic!ClaimOutcome(o, s) = ClaimOutcome(o, s)
  BY DEF Atomic!ClaimOutcome, ClaimOutcome, Atomic!Registered, Registered
<1>3. Atomic!TransferOutcome(o, s) = TransferOutcome(o, s)
  BY DEF Atomic!TransferOutcome, TransferOutcome, Atomic!Registered, Registered
<1>4. ASSUME NEW in, NEW id PROVE Atomic!InputOutcome(in, s, id) = InputOutcome(in, s, id)
  BY DEF Atomic!InputOutcome, InputOutcome, Atomic!Buildable, Buildable,
    Atomic!AppConflict, AppConflict, Atomic!Registered, Registered,
    Atomic!Rule, Rule, Atomic!Rules, Rules, Atomic!Routes, Routes,
    Atomic!Range, Range
<1>5. ASSUME NEW t PROVE Atomic!AtGeneration(o, s, t) = AtGeneration(o, s, t)
  BY DEF Atomic!AtGeneration, AtGeneration
<1>6. ASSUME NEW in, NEW app PROVE Atomic!Merged(in, app) = Merged(in, app)
  BY DEF Atomic!Merged, Merged
<1>7. Atomic!UpdateOutcome(o, s) = UpdateOutcome(o, s)
  BY <1>4, <1>5, <1>6 DEF Atomic!UpdateOutcome, UpdateOutcome
<1> QED
  BY <1>1, <1>2, <1>3, <1>4, <1>5, <1>7 DEF Atomic!Outcome, Outcome

LEMMA SameSuccessor ==
  ASSUME NEW c, NEW o, NEW s
  PROVE  Atomic!Successor(c, o, s) = Successor(c, o, s)
<1>1. ASSUME NEW in, NEW g PROVE Atomic!BuildApp(in, s, g) = BuildApp(in, s, g)
  BY DEF Atomic!BuildApp, BuildApp, Atomic!Routes, Routes, Atomic!Range, Range
<1>2. ASSUME NEW in, NEW app PROVE Atomic!Merged(in, app) = Merged(in, app)
  BY DEF Atomic!Merged, Merged
<1>3. Atomic!RegisterEffect(o, s) = RegisterEffect(o, s)
  BY DEF Atomic!RegisterEffect, RegisterEffect
<1>4. Atomic!GiveAuth(s, o.node) = GiveAuth(s, o.node)
  BY DEF Atomic!GiveAuth, GiveAuth
<1>5. Atomic!CreateEffect(o, s) = CreateEffect(o, s)
  BY <1>1 DEF Atomic!CreateEffect, CreateEffect
<1>6. Atomic!UpdateEffect(o, s) = UpdateEffect(o, s)
  BY <1>1, <1>2 DEF Atomic!UpdateEffect, UpdateEffect
<1>7. Atomic!DeleteEffect(o, s) = DeleteEffect(o, s)
  BY DEF Atomic!DeleteEffect, DeleteEffect
<1>8. Atomic!Effect(o, s) = Effect(o, s)
  BY <1>3, <1>4, <1>5, <1>6, <1>7 DEF Atomic!Effect, Effect
<1>9. ASSUME NEW ids PROVE Atomic!Newest(ids) = Newest(ids)
  BY DEF Atomic!Newest, Newest
<1> QED
  BY <1>8, <1>9 DEF Atomic!Successor, Successor

\* What the abstract registry sees: the outcomes since a call began.
Seen == [c \in Calls |->
           IF op[c] = None THEN {}
           ELSE {Outcome(op[c], log[i].state) : i \in start[c]..Len(log)}]

LEMMA AskStep ==
  ASSUME AnswerInv, NEW c \in Calls, NEW o \in Ops, Begin(c, o)
  PROVE  Atomic!Ask(c, o)
<1>1. /\ TypeOK /\ Len(log) \in Nat /\ op[c] = None
      /\ start \in [Calls -> Nat] /\ op \in [Calls -> Ops \cup {None}]
  BY LogType DEF AnswerInv, HistoryInv, BegunCalls, Begin, TypeOK
<1>2. /\ op' = [op EXCEPT ![c] = o] /\ start' = [start EXCEPT ![c] = Len(log)]
      /\ UNCHANGED <<log, result, blind>>
  BY DEF Begin
<1>3. o # None
  BY KnownOps, NoneIsNoRecord
<1>4. Committers' = Committers /\ Last(log)' = Last(log)
  BY <1>2 DEF Committers, Last
<1>5. Seen' = [Seen EXCEPT ![c] = {Outcome(o, Last(log).state)}]
  <2>1. ASSUME NEW d \in Calls \ {c} PROVE Seen'[d] = Seen[d]
    BY <1>1, <1>2 DEF Seen
  <2>2. Seen'[c] = {Outcome(o, log[i].state) : i \in Len(log)..Len(log)}
    BY <1>1, <1>2, <1>3 DEF Seen
  <2>3. Len(log)..Len(log) = {Len(log)}
    BY <1>1
  <2>4. Seen'[c] = {Outcome(o, Last(log).state)}
    BY <2>2, <2>3 DEF Last
  <2> QED BY <2>1, <2>4 DEF Seen
<1>6. Atomic!Outcome(o, Last(log).state) = Outcome(o, Last(log).state)
  BY SameOutcome
<1> QED BY <1>1, <1>2, <1>4, <1>5, <1>6 DEF Atomic!Ask, Seen

\* A performed write applies the operation to the whole registry, once.
LEMMA TakesEffect ==
  ASSUME AnswerInv, ~lost, NEW c \in Calls, NEW p, NEW s \in snapshots,
         Commit(c, p, s), Prepared(c, p, s), UNCHANGED <<op, result, start, blind>>,
         c \in Committers \/ result[c] \in Definite => c \in blind
  PROVE  Atomic!Apply(c)
<1>1. /\ TypeOK /\ Len(log) \in Nat /\ Len(log) >= 1
      /\ s \in Snapshot /\ op[c] # None
      /\ start \in [Calls -> Nat] /\ op \in [Calls -> Ops \cup {None}]
  BY LogType DEF AnswerInv, HistoryInv, TypeOK, Prepared
<1>2. /\ Len(log') = Len(log) + 1
      /\ \A i \in 1..Len(log) : log'[i] = log[i]
      /\ log'[Len(log) + 1].state = s
      /\ Last(log').state = s
      /\ Committers' = Committers \cup {c}
  BY <1>1, Appended DEF Commit
<1>3. /\ Outcome(op[c], Last(log).state) = "change"
      /\ s = Successor(c, op[c], Last(log).state)
  BY DEF AnswerInv, HistoryInv, SerialHistory, Commit, Prepared
<1>4. Seen' = [d \in Calls |-> IF op[d] = None THEN Seen[d]
                               ELSE Seen[d] \cup {Outcome(op[d], s)}]
  <2>1. ASSUME NEW d \in Calls, op[d] # None
        PROVE  Seen'[d] = Seen[d] \cup {Outcome(op[d], s)}
    <3> DEFINE n == Len(log)
               out(i) == Outcome(op[d], log[i].state)
    <3>1. start[d] \in 1..n
      BY <2>1 DEF AnswerInv, HistoryInv, BegunCalls, Progress
    <3>2. start[d]..(n + 1) = (start[d]..n) \cup {n + 1}
      BY <1>1, <3>1
    <3>3. \A i \in start[d]..n : i \in 1..n /\ log'[i] = log[i]
      BY <1>1, <1>2, <3>1
    <3>4. Seen'[d] = {Outcome(op[d], log'[i].state) : i \in start[d]..(n + 1)}
      BY <1>2, <2>1 DEF Seen
    <3>5. Seen[d] = {Outcome(op[d], log[i].state) : i \in start[d]..n}
      BY <2>1 DEF Seen
    <3> HIDE DEF n
    <3>6. Seen'[d] \subseteq Seen[d] \cup {Outcome(op[d], s)}
      <4> SUFFICES ASSUME NEW i \in start[d]..(n + 1)
                   PROVE  Outcome(op[d], log'[i].state)
                            \in Seen[d] \cup {Outcome(op[d], s)}
        BY <3>4
      <4>1. i \in start[d]..n \/ i = n + 1
        BY <3>2
      <4> QED BY <1>2, <3>3, <3>5, <4>1 DEF n
    <3>7. Seen[d] \cup {Outcome(op[d], s)} \subseteq Seen'[d]
      <4>1. ASSUME NEW i \in start[d]..n
            PROVE  Outcome(op[d], log[i].state) \in Seen'[d]
        BY <3>2, <3>3, <3>4
      <4>2. Outcome(op[d], s) \in Seen'[d]
        BY <1>2, <3>2, <3>4 DEF n
      <4> QED BY <3>5, <4>1, <4>2
    <3> QED BY <3>6, <3>7
  <2>2. ASSUME NEW d \in Calls, op[d] = None PROVE Seen'[d] = Seen[d]
    BY <2>2 DEF Seen
  <2> QED BY <2>1, <2>2 DEF Seen
<1>5. \A o : Atomic!Outcome(o, s) = Outcome(o, s)
  BY SameOutcome
<1>6. /\ Atomic!Outcome(op[c], Last(log).state) = "change"
      /\ s = Atomic!Successor(c, op[c], Last(log).state)
  BY <1>3, SameOutcome, SameSuccessor
<1>7. Seen' = [d \in Calls |-> IF op[d] = None THEN Seen[d]
                               ELSE Seen[d] \cup {Atomic!Outcome(op[d], s)}]
  BY <1>4, <1>5
<1>8. Atomic!Definite = Definite
  BY DEF Atomic!Definite, Definite, Atomic!Refusals, Refusals
<1> QED BY <1>1, <1>2, <1>6, <1>7, <1>8 DEF Atomic!Apply, Seen

LEMMA TellStep ==
  ASSUME NEW c \in Calls, NEW r \in Results,
         UNCHANGED <<log, op, start, blind>>,
         op[c] # None, result[c] = None, result' = [result EXCEPT ![c] = r],
         r = "ok" => c \in Committers \/ NothingToDo(c),
         r \in Refusals =>
            \E i \in start[c]..Len(log) : Outcome(op[c], log[i].state) = r,
         r \in Definite /\ c \in Committers => c \in blind
  PROVE  \E a \in Atomic!Answers : Atomic!Tell(c, a)
<1>1. Seen' = Seen
  BY DEF Seen
<1>2. Committers' = Committers /\ Last(log)' = Last(log)
  BY DEF Committers, Last
<1>3. \A i \in start[c]..Len(log) : Outcome(op[c], log[i].state) \in Seen[c]
  BY DEF Seen
<1>4. NothingToDo(c) => "nochange" \in Seen[c]
  BY <1>3 DEF NothingToDo
<1>5. r \in Refusals => r \in Seen[c]
  BY <1>3
<1>6. /\ Atomic!Definite = Definite /\ Atomic!Refusals = Refusals
      /\ Atomic!Answers = Results
  BY DEF Atomic!Definite, Definite, Atomic!Refusals, Refusals,
         Atomic!Answers, Results
<1>7. Atomic!Tell(c, r)
  BY <1>1, <1>2, <1>4, <1>5, <1>6 DEF Atomic!Tell, Seen
<1> QED BY <1>6, <1>7

LEMMA LoseStep ==
  ASSUME NEW c \in Calls, UNCHANGED <<log, op, start, result>>,
         op[c] # None, result[c] = None, blind' = blind \cup {c}
  PROVE  Atomic!Lose(c)
<1>1. Seen' = Seen /\ Committers' = Committers /\ Last(log)' = Last(log)
  BY DEF Seen, Committers, Last
<1> QED BY <1>1 DEF Atomic!Lose, Seen

LEMMA StutterStep ==
  ASSUME UNCHANGED <<log, op, start, result, blind>>
  PROVE  UNCHANGED Atomic!avars
<1>1. Seen' = Seen /\ Committers' = Committers /\ Last(log)' = Last(log)
  BY DEF Seen, Committers, Last
<1> QED BY <1>1 DEF Atomic!avars, Seen

LEMMA AtomicInit == Init => Atomic!AInit
<1> SUFFICES ASSUME Init PROVE Atomic!AInit
  OBVIOUS
<1>1. /\ pointer \in Seeds /\ Len(log) = 1 /\ Last(log).state = StateAt(pointer)
      /\ op = [c \in Calls |-> None] /\ result = [c \in Calls |-> None]
      /\ blind = {}
  BY DEF Init, Last
<1>2. Committers = {}
  BY <1>1 DEF Committers
<1>3. Seen = [c \in Calls |-> {}]
  BY <1>1 DEF Seen
<1>4. Last(log).state \in {Atomic!StateAt(p) : p \in Seeds}
  BY <1>1 DEF StateAt, Atomic!StateAt, EmptyRegistry, Atomic!EmptyRegistry
<1> QED BY <1>1, <1>2, <1>3, <1>4 DEF Atomic!AInit, Seen

Mapped == Atomic!ANext \/ UNCHANGED Atomic!avars

\* Every step of a call is one of the atomic registry, or none.
LEMMA OwnStepMaps ==
  ASSUME AnswerInv, ~lost, NEW c \in Calls, Step(c) \/ FaultStep(c)
  PROVE  Mapped
<1> USE DEF store, control, history, Goto, Answer
<1>1. /\ Progress(c) /\ (c \notin blind => Accountable(c))
      /\ HistoryInv /\ TypeOK
  BY DEF AnswerInv, HistoryInv
<1>2. pc[c] # "done" => result[c] = None
  BY <1>1 DEF Progress
<1>3. pc[c] # "idle" => op[c] # None
  BY <1>1 DEF HistoryInv, BegunCalls
<1>4. ASSUME UNCHANGED <<log, op, start, result, blind>> PROVE Mapped
  BY <1>4, StutterStep DEF Mapped
<1>5. ASSUME UNCHANGED <<log, op, start, blind>>,
             pc[c] \notin {"idle", "done"}, NEW r \in Results,
             result' = [result EXCEPT ![c] = r],
             r = "ok" => c \in Committers \/ NothingToDo(c),
             r \in Refusals =>
                \E i \in start[c]..Len(log) : Outcome(op[c], log[i].state) = r,
             r \in Definite => pc[c] \in Unsent
      PROVE  Mapped
  <2>1. r \in Definite /\ c \in Committers => c \in blind
    BY <1>1, <1>5 DEF Accountable, Untouched
  <2>2. \E a \in Atomic!Answers : Atomic!Tell(c, a)
    BY <1>2, <1>3, <1>5, <2>1, TellStep
  <2> QED BY <2>2 DEF Mapped, Atomic!ANext
<1>6. ASSUME NEW r \in {"unavailable", "missing", "collision"},
             UNCHANGED <<log, op, start, blind>>,
             pc[c] \notin {"idle", "done"},
             result' = [result EXCEPT ![c] = r]
      PROVE  Mapped
  BY <1>5, <1>6 DEF Results, Refusals, Definite
<1>7. ASSUME NEW p \in Snapshot \cup {None},
             \/ pc[c] = "load" /\ p = pointer /\ p # None
             \/ pc[c] = "marker" /\ p = None,
             Apply(c, p), UNCHANGED <<op, history>>
      PROVE  Mapped
  <2>1. CASE result' = result
    BY <1>4, <1>7, <2>1
  <2>2. CASE /\ Outcome(op[c], StateAt(p)) = "nochange"
             /\ result' = [result EXCEPT ![c] = "ok"]
    <3>1. NothingToDo(c)
      BY <1>7, <2>2, ReadIsSeen
    <3> QED BY <1>5, <1>7, <2>2, <3>1 DEF Results, Refusals, Definite
  <2>3. CASE /\ Outcome(op[c], StateAt(p)) \in Refusals
             /\ result' = [result EXCEPT ![c] = Outcome(op[c], StateAt(p))]
    <3> DEFINE r == Outcome(op[c], StateAt(p))
    <3>1. \E i \in start[c]..Len(log) : log[i].state = StateAt(p)
      BY <1>7, ReadIsSeen
    <3>2. \E i \in start[c]..Len(log) : Outcome(op[c], log[i].state) = r
      BY <3>1
    <3>3. r \in Results /\ r # "ok" /\ result' = [result EXCEPT ![c] = r]
      BY <2>3 DEF Results, Refusals
    <3> HIDE DEF r
    <3> QED BY <1>5, <1>7, <3>2, <3>3 DEF Unsent
  <2> QED BY <1>7, <2>1, <2>2, <2>3 DEF Apply
<1>8. ASSUME Unconfirmed(c), pc[c] = "committed", UNCHANGED <<op, log, start>>
      PROVE  Mapped
  <2>1. CASE failure[c] = "precondition"
    <3>1. result' = result /\ (blind' = blind \/ blind' = blind \cup {c})
      BY <1>8, <2>1 DEF Unconfirmed
    <3>2. blind' = blind \cup {c} => Atomic!Lose(c)
      BY <1>2, <1>3, <1>8, <3>1, LoseStep
    <3> QED BY <1>4, <1>8, <3>1, <3>2 DEF Mapped, Atomic!ANext
  <2>2. CASE failure[c] = "error"
    BY <1>6, <1>8, <2>2 DEF Unconfirmed
  <2> QED BY <1>8, <2>1, <2>2 DEF Unconfirmed
<1>9. ASSUME LoadPointer(c) PROVE Mapped
  <2>1. CASE pointer \in snapshots /\ Apply(c, pointer)
    <3>1. pointer \in Snapshot /\ pointer # None
      BY <1>1, <2>1, NoneIsNoRecord DEF TypeOK
    <3> QED BY <1>7, <1>9, <2>1, <3>1 DEF LoadPointer
  <2> QED BY <1>4, <1>6, <1>9, <2>1 DEF LoadPointer
<1>10. ASSUME LoadMarker(c) PROVE Mapped
  BY <1>6, <1>7, <1>10 DEF LoadMarker
<1>11. ASSUME Exhaust(c) PROVE Mapped
  BY <1>5, <1>11 DEF Exhaust, Unsent, Results, Refusals
<1>12. ASSUME PutSnapshot(c) \/ CheckSnapshot(c) \/ PutPointerRefused(c)
              \/ EnsureMarker(c) \/ PointerMatches(c) \/ PointerMatchesFails(c)
              \/ PutPointerUnclear(c) \/ Crash(c)
       PROVE  Mapped
  BY <1>4, <1>12 DEF PutSnapshot, CheckSnapshot, PutPointerRefused,
     EnsureMarker, PointerMatches, PointerMatchesFails, PutPointerUnclear, Crash
<1>13. ASSUME PutPointer(c) PROVE Mapped
  <2>1. /\ Commit(c, base[c], next[c]) /\ Prepared(c, base[c], next[c])
        /\ next[c] \in snapshots /\ pc[c] = "putPointer"
        /\ UNCHANGED <<op, result, start, blind>>
    BY <1>1, <1>13 DEF PutPointer, HistoryInv, PlansAgree
  <2>2. c \in Committers \/ result[c] \in Definite => c \in blind
    BY <1>1, <1>2, <2>1, NoneIsNoAnswer
       DEF Accountable, Untouched, Unsent, Planning, Definite, Results
  <2> QED BY <2>1, <2>2, TakesEffect DEF Mapped, Atomic!ANext
<1>14. ASSUME OperationCommitted(c) PROVE Mapped
  BY <1>4, <1>8, <1>14 DEF OperationCommitted
<1>15. ASSUME OperationCommittedFails(c) PROVE Mapped
  BY <1>8, <1>15 DEF OperationCommittedFails
<1>16. ASSUME EnsureMarkerFails(c) PROVE Mapped
  BY <1>4, <1>6, <1>16 DEF EnsureMarkerFails
<1>17. ASSUME Reply(c) PROVE Mapped
  <2>1. c \in Committers
    BY <1>1, <1>17 DEF Reply, Progress
  <2> QED BY <1>5, <1>17, <2>1 DEF Reply, Results, Refusals, Definite
<1>18. ASSUME LoadFails(c) \/ CheckSnapshotFails(c) PROVE Mapped
  BY <1>6, <1>18 DEF LoadFails, CheckSnapshotFails, Fail
<1>19. ASSUME PutSnapshotFails(c) PROVE Mapped
  BY <1>4, <1>6, <1>19 DEF PutSnapshotFails
<1> QED
  BY <1>9, <1>10, <1>11, <1>12, <1>13, <1>14, <1>15, <1>16, <1>17, <1>18, <1>19
  DEF Step, FaultStep

LEMMA AtomicStep ==
  AnswerInv /\ [Next]_vars /\ ~lost /\ ~lost' => [Atomic!ANext]_(Atomic!avars)
<1> SUFFICES ASSUME AnswerInv, [Next]_vars, ~lost, ~lost'
             PROVE  Mapped
  BY DEF Mapped
<1>1. ASSUME NEW c \in Calls, NEW o \in Ops, Begin(c, o) PROVE Mapped
  BY <1>1, AskStep DEF Mapped, Atomic!ANext
<1>2. ASSUME NEW w \in inflight, LateWrite(w) PROVE Mapped
  <2>1. /\ w.call \in Calls /\ w.next \in snapshots
        /\ Prepared(w.call, w.base, w.next)
    BY DEF AnswerInv, HistoryInv, PlansAgree, TypeOK, Write
  <2>2. /\ Commit(w.call, w.base, w.next)
        /\ UNCHANGED <<op, result, start, blind>>
    BY <1>2 DEF LateWrite, control
  <2>3. \/ w.call \in blind
        \/ w.call \notin Committers /\ result[w.call] \notin Definite
    BY <2>1 DEF AnswerInv, Accountable, Untouched
  <2> QED BY <2>1, <2>2, <2>3, TakesEffect DEF Mapped, Atomic!ANext
<1>3. LosePointer => lost'
  BY DEF LosePointer
<1>4. UNCHANGED vars => Mapped
  BY StutterStep DEF vars, control, history, Mapped
<1> QED BY <1>1, <1>2, <1>3, <1>4, OwnStepMaps DEF Next, Finished

\* The callers' view holds: as long as nobody deletes the pointer, every
\* behaviour of mutate on the object store is one of the atomic registry.
THEOREM Implements == Spec /\ []~lost => ImplementsAtomic
<1>1. AnswerInv /\ ~lost /\ ~lost' /\ [Next]_vars
        => [Atomic!ANext]_(Atomic!avars)
  BY AtomicStep
<1> QED BY <1>1, AtomicInit, AnswerInvariant, PTL
        DEF Spec, ImplementsAtomic, Atomic!ASpec

-----------------------------------------------------------------------------
\* Generations

\* What an operation does to one application.
LEMMA AppChange ==
  ASSUME NEW c \in Calls, NEW o \in Operation, NEW s \in Snapshot,
         Outcome(o, s) = "change", NEW a \in AppIds
  PROVE  LET t == Successor(c, o, s)
         IN  \/ t.apps[a] = s.apps[a] /\ ~(o.kind \in {"update", "delete"} /\ o.app = a)
             \/ o.kind = "create" /\ o.app = a
             \/ /\ o.kind \in {"update", "delete"} /\ o.app = a
                /\ s.apps[a] # None /\ s.apps[a].generation = o.generation
                /\ \/ t.apps[a] = None
                   \/ t.apps[a].generation = o.generation + 1
<1> DEFINE e == Effect(o, s)
<1>1. e \in Snapshot
  BY EffectType
<1>2. Successor(c, o, s).apps = e.apps
  <2> HIDE DEF e
  <2>1. Successor(c, o, s) = [e EXCEPT !.revision = @ + 1,
                                       !.recent = Newest(Append(@, c))]
    BY DEF Successor, e
  <2> QED BY <1>1, <2>1 DEF Snapshot
<1>3. CASE o.kind \in {"register", "claim", "transfer"}
  <2>1. e.apps = s.apps
    BY <1>3 DEF Effect, RegisterEffect, GiveAuth, Snapshot
  <2> QED BY <1>2, <1>3, <2>1
<1>4. CASE o.kind = "create"
  <2>1. e.apps = [s.apps EXCEPT ![o.app] = BuildApp(o.input, s, 1)]
    BY <1>4 DEF Effect, CreateEffect, Snapshot
  <2>2. o.app # a => e.apps[a] = s.apps[a]
    BY <2>1 DEF Snapshot
  <2> QED BY <1>2, <1>4, <2>2
<1>5. CASE o.kind = "update"
  <2> DEFINE app == s.apps[o.app]
             new == BuildApp(Merged(o.input, app), s, app.generation + 1)
  <2>1. Outcome(o, s) = UpdateOutcome(o, s)
    BY <1>5 DEF Outcome
  <2>2. app # None /\ app.generation = o.generation
    BY <2>1 DEF UpdateOutcome, AtGeneration
  <2>3. e.apps = [s.apps EXCEPT ![o.app] = new]
    BY <1>5 DEF Effect, UpdateEffect, Snapshot
  <2>4. new.generation = o.generation + 1
    BY <2>2 DEF BuildApp
  <2> HIDE DEF new
  <2>5. CASE o.app = a
    <3>1. e.apps[a] = new
      BY <2>3, <2>5 DEF Snapshot
    <3> QED BY <1>2, <1>5, <2>2, <2>4, <2>5, <3>1
  <2>6. CASE o.app # a
    BY <1>2, <2>3, <2>6 DEF Snapshot
  <2> QED BY <2>5, <2>6
<1>6. CASE o.kind = "delete"
  <2>1. AtGeneration(o, s, "change") = "change"
    BY <1>6 DEF Outcome
  <2>2. s.apps[o.app] # None /\ s.apps[o.app].generation = o.generation
    BY <2>1 DEF AtGeneration
  <2>3. e.apps = [s.apps EXCEPT ![o.app] = None]
    BY <1>6 DEF Effect, DeleteEffect, Snapshot
  <2>4. CASE o.app = a
    BY <1>2, <1>6, <2>2, <2>3, <2>4 DEF Snapshot
  <2>5. CASE o.app # a
    BY <1>2, <2>3, <2>5 DEF Snapshot
  <2> QED BY <2>4, <2>5
<1> QED BY <1>3, <1>4, <1>5, <1>6 DEF Operation

\* Every application comes from a seed or from the one call that creates it.
Creates(c, a) == op[c] # None /\ op[c].kind = "create" /\ op[c].app = a

CreatedOnce ==
  \A c, d \in Calls, a \in AppIds : Creates(c, a) /\ Creates(d, a) => c = d

CreatedAnew ==
  \A c \in Calls, a \in AppIds : Creates(c, a) =>
     \A p \in Seeds : p # None => p.apps[a] = None

Origin(a) ==
  \/ \E p \in Seeds : p # None /\ p.apps[a] # None
  \/ \E c \in Committers : Creates(c, a)

Originates ==
  \A i \in 1..Len(log), a \in AppIds : log[i].state.apps[a] # None => Origin(a)

\* An update or delete found the generation it names, and leaves it behind
\* for good.
Editing(c) == op[c].kind \in {"update", "delete"}

Edited(i) ==
  LET c   == log[i].call
      app == log[i - 1].state.apps[op[c].app]
  IN  Editing(c) => app # None /\ app.generation = op[c].generation

LeftBehind(i, j) ==
  LET c   == log[i].call
      app == log[j].state.apps[op[c].app]
  IN  Editing(c) => app = None \/ app.generation > op[c].generation

GenerationInv ==
  /\ AnswerInv
  /\ CreatedOnce
  /\ CreatedAnew
  /\ Originates
  /\ \A i \in 2..Len(log) : Edited(i)
  /\ blind = {} => \A i \in 2..Len(log) : \A j \in i..Len(log) : LeftBehind(i, j)

LEMMA GenerationInit == Init => GenerationInv
<1> SUFFICES ASSUME Init PROVE GenerationInv
  OBVIOUS
<1>1. AnswerInv
  BY AnswerInit
<1>2. /\ pointer \in Seeds /\ Len(log) = 1 /\ log[1].state = StateAt(pointer)
      /\ \A c \in Calls : op[c] = None
  BY DEF Init
<1>3. ASSUME NEW a \in AppIds, StateAt(pointer).apps[a] # None PROVE Origin(a)
  <2>1. CASE pointer = None
    BY <1>3, <2>1 DEF StateAt, EmptyRegistry
  <2>2. CASE pointer # None
    BY <1>2, <1>3, <2>2 DEF Origin, StateAt
  <2> QED BY <2>1, <2>2
<1>4. Originates
  BY <1>2, <1>3 DEF Originates
<1> QED BY <1>1, <1>2, <1>4 DEF GenerationInv, CreatedOnce, CreatedAnew, Creates

\* Operations change only when a call begins.
LEMMA OperationsChange ==
  ASSUME [Next]_vars
  PROVE  op' = op \/ \E c \in Calls, o \in Ops : Begin(c, o)
<1> USE DEF store, control, history
<1>1. ASSUME NEW c \in Calls, Step(c) PROVE op' = op
  BY <1>1 DEF Step, LoadPointer, LoadMarker, Exhaust, PutSnapshot,
     CheckSnapshot, PutPointer, PutPointerRefused, PointerMatches,
     OperationCommitted, EnsureMarker, Reply
<1>2. ASSUME NEW c \in Calls, FaultStep(c) PROVE op' = op
  BY <1>2 DEF FaultStep, LoadFails, PutSnapshotFails, CheckSnapshotFails, Fail,
     PutPointerUnclear, PointerMatchesFails, OperationCommittedFails,
     EnsureMarkerFails, Crash
<1> QED BY <1>1, <1>2 DEF Next, LateWrite, LosePointer, Finished, vars

\* A call that is blind once is blind for good.
LEMMA BlindStays ==
  ASSUME [Next]_vars
  PROVE  blind \subseteq blind'
<1> USE DEF store, control, history
<1>1. ASSUME NEW c \in Calls, Step(c) PROVE blind \subseteq blind'
  BY <1>1 DEF Step, LoadPointer, LoadMarker, Exhaust, PutSnapshot,
     CheckSnapshot, PutPointer, PutPointerRefused, PointerMatches,
     OperationCommitted, Unconfirmed, EnsureMarker, Reply
<1>2. ASSUME NEW c \in Calls, FaultStep(c) PROVE blind \subseteq blind'
  BY <1>2 DEF FaultStep, LoadFails, PutSnapshotFails, CheckSnapshotFails, Fail,
     PutPointerUnclear, PointerMatchesFails, OperationCommittedFails,
     Unconfirmed, EnsureMarkerFails, Crash
<1> QED BY <1>1, <1>2 DEF Next, Begin, LateWrite, LosePointer, Finished, vars

LEMMA CreationsStep ==
  ASSUME TypeOK, BegunCalls, CreatedOnce, CreatedAnew, [Next]_vars
  PROVE  CreatedOnce' /\ CreatedAnew'
<1>1. CASE op' = op
  BY <1>1 DEF CreatedOnce, CreatedAnew, Creates
<1>2. ASSUME NEW b \in Calls, NEW o \in Ops, Begin(b, o)
      PROVE  CreatedOnce' /\ CreatedAnew'
  <2>1. /\ \A c \in Calls \ {b} : op'[c] = op[c]
        /\ op'[b] = o
        /\ FreshApp(o)
    BY <1>2 DEF Begin, TypeOK
  <2>2. ASSUME NEW a \in AppIds, o.kind = "create", o.app = a
        PROVE  /\ \A d \in Calls : ~Creates(d, a)
               /\ \A p \in Seeds : p # None => p.apps[a] = None
    BY <2>1, <2>2 DEF FreshApp, Creates
  <2>3. ASSUME NEW c \in Calls, NEW a \in AppIds, Creates(c, a)'
        PROVE  \/ c = b /\ o.kind = "create" /\ o.app = a
               \/ c # b /\ Creates(c, a)
    BY <2>1, <2>3 DEF Creates
  <2>4. CreatedOnce'
    BY <2>2, <2>3 DEF CreatedOnce
  <2>5. CreatedAnew'
    BY <2>2, <2>3 DEF CreatedAnew
  <2> QED BY <2>4, <2>5
<1> QED BY <1>1, <1>2, OperationsChange

\* A call whose creation was not performed finds no application.
LEMMA NotYetCreated ==
  ASSUME GenerationInv, NEW c \in Calls \ Committers, NEW a \in AppIds,
         Creates(c, a), NEW i \in 1..Len(log)
  PROVE  log[i].state.apps[a] = None
<1>1. log[i].state.apps[a] # None => Origin(a)
  BY DEF GenerationInv, Originates
<1>2. \A d \in Committers : d \in Calls
  BY DEF Committers, GenerationInv, AnswerInv, HistoryInv, BegunCalls
<1> QED BY <1>1, <1>2 DEF Origin, GenerationInv, CreatedOnce, CreatedAnew

LEMMA GenerationStep == GenerationInv /\ [Next]_vars => GenerationInv'
<1> SUFFICES ASSUME GenerationInv, [Next]_vars PROVE GenerationInv'
  OBVIOUS
<1>1. /\ AnswerInv /\ AnswerInv' /\ HistoryInv /\ TypeOK /\ BegunCalls
      /\ PlansAgree /\ LogInv /\ CreatedOnce /\ CreatedAnew
      /\ Len(log) \in Nat /\ Len(log) >= 1
  BY AnswerStep, LogType DEF GenerationInv, AnswerInv, HistoryInv
<1>2. CreatedOnce' /\ CreatedAnew'
  BY <1>1, CreationsStep
<1>3. \A c \in Calls : op[c] # None => op'[c] = op[c]
  BY <1>1, OperationsStay
<1>4. \A i \in 2..Len(log) : log[i].call \in Calls /\ op[log[i].call] # None
  BY <1>1 DEF BegunCalls
<1>5. blind' = {} => blind = {}
  <2>1. \A c \in blind : c \in blind'
    BY <1>1, BlindStays
  <2> QED BY <2>1
<1>6. ASSUME Committers \subseteq Committers', NEW a \in AppIds, Origin(a)
      PROVE  Origin(a)'
  <2>1. \A c \in Committers : c \in Calls /\ op[c] # None
    BY <1>4 DEF Committers
  <2>2. \A c \in Committers : Creates(c, a) => Creates(c, a)'
    BY <1>3, <2>1 DEF Creates
  <2> QED BY <1>6, <2>2 DEF Origin
<1>7. CASE log' = log
  <2>1. Committers' = Committers
    BY <1>7 DEF Committers
  <2>2. Originates'
    BY <1>6, <1>7, <2>1 DEF GenerationInv, Originates
  <2>3. \A i \in 2..Len(log') : Edited(i)'
    BY <1>3, <1>4, <1>7 DEF GenerationInv, Edited, Editing
  <2>4. \A i \in 2..Len(log), j \in 1..Len(log) : LeftBehind(i, j)' <=> LeftBehind(i, j)
    BY <1>3, <1>4, <1>7 DEF LeftBehind, Editing
  <2>5. \A i \in 2..Len(log) : \A j \in i..Len(log) : j \in 1..Len(log)
    BY <1>1
  <2> QED BY <1>1, <1>2, <1>5, <1>7, <2>2, <2>3, <2>4, <2>5 DEF GenerationInv
<1>8. ASSUME NEW c \in Calls, NEW p \in Snapshot \cup {None},
             NEW s \in snapshots, Commit(c, p, s), Prepared(c, p, s), Sent(c, p)
      PROVE  GenerationInv'
  <2> DEFINE n == Len(log)
             t == StateAt(p)
             o == op[c]
  <2>1. /\ o \in Operation /\ op'[c] = o /\ t \in Snapshot /\ s \in Snapshot
        /\ Outcome(o, t) = "change" /\ s = Successor(c, o, t)
    BY <1>1, <1>3, <1>8, KnownOps, StateAtType DEF Prepared, TypeOK
  <2>2. /\ Len(log') = n + 1
        /\ \A i \in 1..n : log'[i] = log[i]
        /\ log'[n + 1].call = c /\ log'[n + 1].state = s
        /\ Committers' = Committers \cup {c}
    BY <1>1, <1>8, <2>1, Appended DEF Commit
  <2>3. t = EmptyRegistry \/ t = log[n].state
    BY <1>1, <1>8 DEF Commit, LogInv, PointerIsLast, StateAt, Last
  <2> HIDE DEF n, t, o
  <2>4. \A a \in AppIds : EmptyRegistry.apps[a] = None
    BY DEF EmptyRegistry
  <2>5. ASSUME NEW a \in AppIds
        PROVE  \/ /\ s.apps[a] = t.apps[a]
                  /\ ~(o.kind \in {"update", "delete"} /\ o.app = a)
               \/ o.kind = "create" /\ o.app = a
               \/ /\ o.kind \in {"update", "delete"} /\ o.app = a
                  /\ t.apps[a] # None /\ t.apps[a].generation = o.generation
                  /\ \/ s.apps[a] = None
                     \/ s.apps[a].generation = o.generation + 1
    BY <2>1, AppChange
  <2>6. Originates'
    <3> SUFFICES ASSUME NEW i \in 1..Len(log'), NEW a \in AppIds,
                        log'[i].state.apps[a] # None
                 PROVE  Origin(a)'
      BY DEF Originates
    <3>1. Origin(a) => Origin(a)'
      BY <1>6, <2>2
    <3>2. CASE i \in 1..n
      BY <2>2, <3>1, <3>2 DEF GenerationInv, Originates, n
    <3>3. CASE i = n + 1
      <4>1. t.apps[a] # None => Origin(a)
        BY <1>1, <2>3, <2>4 DEF GenerationInv, Originates, n
      <4>2. o.kind = "create" /\ o.app = a => Origin(a)'
        BY <1>8, <2>1, <2>2 DEF Creates, Prepared, Origin, o
      <4>3. t.apps[a] = None => o.kind = "create" /\ o.app = a
        BY <2>2, <2>5, <3>3
      <4> QED BY <3>1, <4>1, <4>2, <4>3
    <3> QED BY <1>1, <2>2, <3>2, <3>3 DEF n
  <2>7. \A i \in 2..n + 1 : i \in 2..n \/ i = n + 1
    BY <1>1 DEF n
  <2>8. ASSUME NEW i \in 2..n
        PROVE  /\ op'[log'[i].call] = op[log[i].call] /\ log'[i] = log[i]
               /\ log'[i - 1] = log[i - 1]
    BY <1>1, <1>3, <1>4, <2>2 DEF n
  <2>9. \A i \in 2..Len(log') : Edited(i)'
    <3> SUFFICES ASSUME NEW i \in 2..n + 1 PROVE Edited(i)'
      BY <2>2
    <3>1. CASE i \in 2..n
      <4>1. Edited(i)
        BY <3>1 DEF GenerationInv, n
      <4> QED BY <2>8, <3>1, <4>1 DEF Edited, Editing
    <3>2. CASE i = n + 1
      <4>1. log'[i].call = c /\ op'[c] = o /\ log'[i - 1] = log[n]
        BY <1>1, <2>1, <2>2, <3>2 DEF n, o
      <4>2. ASSUME o.kind \in {"update", "delete"}
            PROVE  t.apps[o.app] # None /\ t.apps[o.app].generation = o.generation
        <5>1. o.app \in AppIds
          BY <2>1, <4>2 DEF Operation, o
        <5> QED BY <2>5, <4>2, <5>1
      <4>3. ASSUME o.kind \in {"update", "delete"} PROVE t = log[n].state
        <5>1. o.app \in AppIds
          BY <2>1, <4>3 DEF Operation, o
        <5> QED BY <2>3, <2>4, <4>2, <4>3, <5>1
      <4> QED BY <4>1, <4>2, <4>3 DEF Edited, Editing
    <3> QED BY <2>7, <3>1, <3>2
  <2>10. ASSUME blind' = {} 
         PROVE  \A i \in 2..Len(log') : \A j \in i..Len(log') : LeftBehind(i, j)'
    <3> SUFFICES ASSUME NEW i \in 2..n + 1, NEW j \in i..n + 1
                 PROVE  LeftBehind(i, j)'
      BY <2>2
    <3>1. blind = {} /\ c \notin blind
      BY <1>5, <2>10
    <3>2. CASE i \in 2..n /\ j \in i..n
      <4>1. LeftBehind(i, j)
        BY <3>1, <3>2 DEF GenerationInv, n
      <4>2. log'[j] = log[j]
        BY <1>1, <2>2, <3>2 DEF n
      <4> QED BY <2>8, <3>2, <4>1, <4>2 DEF LeftBehind, Editing
    <3>3. CASE i = n + 1 /\ j = n + 1
      <4>1. log'[i].call = c /\ op'[c] = o /\ log'[j].state = s
        BY <2>1, <2>2, <3>3 DEF o
      <4>2. ASSUME o.kind \in {"update", "delete"}
            PROVE  s.apps[o.app] = None \/ s.apps[o.app].generation > o.generation
        <5>1. o.app \in AppIds /\ o.generation \in Nat
          BY <2>1, <4>2 DEF Operation, o
        <5> QED BY <2>5, <4>2, <5>1
      <4> QED BY <4>1, <4>2 DEF LeftBehind, Editing
    <3>4. CASE i \in 2..n /\ j = n + 1
      <4> DEFINE q == op[log[i].call]
      <4>1. op'[log'[i].call] = q /\ log'[j].state = s
        BY <2>2, <2>8, <3>4
      <4>2. ASSUME q.kind \in {"update", "delete"}
            PROVE  s.apps[q.app] = None \/ s.apps[q.app].generation > q.generation
        <5> DEFINE a == q.app
        <5>1. q \in Operation
          BY <1>1, <1>4, <3>4, KnownOps DEF TypeOK, n
        <5>2. a \in AppIds /\ q.generation \in Nat
          BY <4>2, <5>1 DEF Operation
        <5>3. log[n].state.apps[a] = None \/ log[n].state.apps[a].generation > q.generation
          <6>1. n \in i..n
            BY <1>1, <3>4 DEF n
          <6>2. LeftBehind(i, n)
            BY <3>1, <3>4, <6>1 DEF GenerationInv, n
          <6> QED BY <4>2, <6>2 DEF LeftBehind, Editing
        <5>4. t.apps[a] = None \/ t.apps[a].generation > q.generation
          BY <2>3, <2>4, <5>2, <5>3
        <5>5. log[i - 1].state.apps[a] # None
          <6>1. Edited(i)
            BY <3>4 DEF GenerationInv, n
          <6> QED BY <4>2, <6>1 DEF Edited, Editing
        <5>6. ~(o.kind = "create" /\ o.app = a)
          <6>1. Creates(c, a) => c \in Committers
            <7>1. i - 1 \in 1..Len(log)
              BY <1>1, <3>4 DEF n
            <7> QED BY <5>2, <5>5, <7>1, NotYetCreated
          <6>2. c \notin Committers
            BY <1>1, <1>8, <3>1
               DEF AnswerInv, Accountable, Sent, Untouched, Unsent, Planning
          <6> QED BY <1>8, <6>1, <6>2 DEF Creates, Prepared, o
        <5> HIDE DEF q
        <5>7. CASE s.apps[a] = t.apps[a]
          BY <5>4, <5>7
        <5>8. CASE s.apps[a] # t.apps[a]
          <6>1. /\ t.apps[a] # None /\ t.apps[a].generation = o.generation
                /\ \/ s.apps[a] = None
                   \/ s.apps[a].generation = o.generation + 1
                /\ o.generation \in Nat
            BY <2>1, <2>5, <5>2, <5>6, <5>8 DEF Operation, o
          <6> QED BY <5>2, <5>4, <6>1
        <5> QED BY <5>7, <5>8
      <4> HIDE DEF q
      <4> QED BY <4>1, <4>2 DEF LeftBehind, Editing
    <3> QED BY <1>1, <2>7, <3>2, <3>3, <3>4 DEF n
  <2> QED BY <1>1, <1>2, <2>6, <2>9, <2>10 DEF GenerationInv
<1> QED BY <1>1, <1>7, <1>8, CommitsOnly

LEMMA GenerationInvariant == Spec => []GenerationInv
  BY GenerationInit, GenerationStep, PTL DEF Spec

\* As long as no call is blind, of all updates and deletes that name one
\* generation of an application at most one takes effect.
THEOREM GenerationsDecide == Spec => []OneChangePerGeneration
<1>1. ASSUME GenerationInv, blind = {},
             NEW i \in 2..Len(log), NEW j \in (i + 1)..Len(log),
             op[log[i].call].kind \in {"update", "delete"},
             op[log[j].call].kind \in {"update", "delete"},
             op[log[i].call].app = op[log[j].call].app,
             op[log[i].call].generation = op[log[j].call].generation
      PROVE  FALSE
  <2>1. Len(log) \in Nat /\ TypeOK /\ BegunCalls
    BY <1>1, LogType DEF GenerationInv, AnswerInv, HistoryInv
  <2>2. j \in 2..Len(log) /\ j - 1 \in i..Len(log)
    BY <2>1
  <2>3. Edited(j) /\ LeftBehind(i, j - 1)
    BY <1>1, <2>2 DEF GenerationInv
  <2>4. op[log[j].call] \in Operation
    BY <2>1, <2>2, KnownOps DEF BegunCalls, TypeOK
  <2>5. op[log[j].call].generation \in Nat
    BY <1>1, <2>4 DEF Operation
  <2> QED BY <1>1, <2>3, <2>5 DEF Edited, LeftBehind, Editing
<1>2. GenerationInv => OneChangePerGeneration
  <2> SUFFICES ASSUME GenerationInv, blind = {},
                      NEW i \in 2..Len(log), NEW j \in 2..Len(log), i # j,
                      op[log[i].call].kind \in {"update", "delete"},
                      Names(op[log[j].call], op[log[i].call].app,
                            op[log[i].call].generation)
               PROVE  FALSE
    BY DEF OneChangePerGeneration
  <2>1. Len(log) \in Nat
    BY LogType DEF GenerationInv, AnswerInv, HistoryInv
  <2>2. j \in (i + 1)..Len(log) \/ i \in (j + 1)..Len(log)
    BY <2>1
  <2> QED BY <1>1, <2>2 DEF Names
<1> QED BY <1>2, GenerationInvariant, PTL

-----------------------------------------------------------------------------
\* Retries

\* Entries of other calls than c among those after entry s up to entry m of
\* the log l.
Others(l, s, c, m) == {i \in (s + 1)..m : l[i].call # c}

\* The attempts of c are accounted for by the faults and by what others wrote
\* from the moment c began to entry m.
Paid(c, m) ==
  attempt[c] <= 1 + faults + Cardinality(Others(log, start[c], c, m))

\* A plan was made at an entry m of the log and all attempts were paid for by
\* then; what refutes it is a later entry, or a fault.
Paying(c) ==
  /\ pc[c] # "idle" => Paid(c, Len(log))
  /\ pc[c] \in {"idle", "load", "marker"} => base[c] = None
  /\ pc[c] \in {"marker"} \cup Planning =>
       \E m \in start[c]..Len(log) :
          /\ m = Len(log) => base[c] = pointer
          /\ Paid(c, m)
  /\ pc[c] \in {"matches", "committed"} /\ failure[c] = "precondition" =>
       \/ attempt[c] <=
            faults + Cardinality(Others(log, start[c], c, Len(log)))
       \/ \E m \in start[c]..(Len(log) - 1) : Paid(c, m)

RetryInv == AnswerInv /\ (~lost => \A c \in Calls : Paying(c))

LEMMA OthersCount ==
  ASSUME NEW l, NEW s \in Nat, NEW c, NEW m \in Nat, NEW n \in Nat, m <= n
  PROVE  /\ Cardinality(Others(l, s, c, m)) \in Nat
         /\ Cardinality(Others(l, s, c, n)) \in Nat
         /\ Cardinality(Others(l, s, c, m)) <= Cardinality(Others(l, s, c, n))
         /\ m < n /\ s < n /\ l[n].call # c =>
              Cardinality(Others(l, s, c, m)) + 1
                <= Cardinality(Others(l, s, c, n))
<1> DEFINE M == Others(l, s, c, m)
           N == Others(l, s, c, n)
<1>1. M \subseteq N /\ N \subseteq 1..n
  BY DEF Others
<1>2. /\ m < n /\ s < n /\ l[n].call # c => n \in N
      /\ m < n => n \notin M
  BY DEF Others
<1> HIDE DEF M, N
<1>3. IsFiniteSet(N)
  <2>1. IsFiniteSet(1..n)
    BY FS_Interval
  <2> QED BY <1>1, <2>1, FS_Subset
<1>4. /\ IsFiniteSet(M)
      /\ Cardinality(M) \in Nat /\ Cardinality(N) \in Nat
      /\ Cardinality(M) <= Cardinality(N)
      /\ Cardinality(M) = Cardinality(N) => M = N
  BY <1>1, <1>3, FS_CardinalityType, FS_Subset
<1>5. m < n /\ s < n /\ l[n].call # c => Cardinality(M) + 1 <= Cardinality(N)
  BY <1>2, <1>4
<1> QED BY <1>4, <1>5 DEF M, N

\* The log only grows, and so does what has been paid.
Extends(c) ==
  /\ Len(log) <= Len(log')
  /\ \A i \in 1..Len(log) : log'[i] = log[i]
  /\ faults <= faults'
  /\ start'[c] = start[c] /\ attempt'[c] = attempt[c]

LEMMA StillPaid ==
  ASSUME TypeOK, TypeOK', NEW c \in Calls, Extends(c),
         NEW m \in Nat, NEW n \in Nat, m <= n, m <= Len(log)
  PROVE  /\ Paid(c, m) => Paid(c, n)'
         /\ attempt[c] <= faults + Cardinality(Others(log, start[c], c, m)) =>
            attempt'[c] <= faults' + Cardinality(Others(log', start'[c], c, n))
<1> DEFINE M == Cardinality(Others(log, start[c], c, m))
           N == Cardinality(Others(log', start'[c], c, n))
<1>1. /\ start[c] \in Nat /\ attempt[c] \in Nat
      /\ faults \in Nat /\ faults' \in Nat /\ Len(log) \in Nat
  BY LogType DEF TypeOK
<1>2. Others(log', start[c], c, m) = Others(log, start[c], c, m)
  BY <1>1 DEF Others, Extends
<1>3. M \in Nat /\ N \in Nat /\ M <= N
  BY <1>1, <1>2, OthersCount DEF Extends
<1>4. /\ Paid(c, m) <=> attempt[c] <= 1 + faults + M
      /\ Paid(c, n)' <=> attempt'[c] <= 1 + faults' + N
  BY DEF Paid
<1> HIDE DEF M, N
<1>5. /\ attempt[c] <= 1 + faults + M => attempt'[c] <= 1 + faults' + N
      /\ attempt[c] <= faults + M => attempt'[c] <= faults' + N
  BY <1>1, <1>3 DEF Extends
<1> QED BY <1>4, <1>5 DEF M, N

LEMMA LogExtends ==
  ASSUME HistoryInv, [Next]_vars
  PROVE  /\ Len(log) <= Len(log')
         /\ \A i \in 1..Len(log) : log'[i] = log[i]
         /\ ~lost' => \/ pointer' = pointer /\ log' = log
                      \/ Len(log') = Len(log) + 1
<1>1. TypeOK /\ Len(log) \in Nat
  BY LogType DEF HistoryInv
<1>2. CASE log' = log
  <2>1. ~lost' => pointer' = pointer
    <3>1. ASSUME NEW c, NEW p, NEW s, Commit(c, p, s) PROVE FALSE
      BY <1>1, <1>2, <3>1 DEF Commit, TypeOK
    <3> QED BY <3>1, CommitsOnly DEF HistoryInv
  <2> QED BY <1>1, <1>2, <2>1
<1>3. ASSUME NEW c \in Calls, NEW s \in Snapshot,
             log' = Append(log, [call |-> c, state |-> s])
      PROVE  /\ Len(log') = Len(log) + 1
             /\ \A i \in 1..Len(log) : log'[i] = log[i]
  BY <1>1, <1>3, Appended
<1>4. \/ log' = log
      \/ \E c \in Calls, s \in Snapshot :
            log' = Append(log, [call |-> c, state |-> s])
  BY CommitsOnly DEF HistoryInv, Commit, TypeOK
<1>5. CASE \E c \in Calls, s \in Snapshot :
             log' = Append(log, [call |-> c, state |-> s])
  <2>1. /\ Len(log') = Len(log) + 1
        /\ \A i \in 1..Len(log) : log'[i] = log[i]
    BY <1>3, <1>5
  <2> QED BY <1>1, <2>1
<1> QED BY <1>2, <1>4, <1>5

LEMMA FaultsGrow == ASSUME TypeOK, [Next]_vars PROVE faults <= faults'
<1> USE DEF store, control, history, Fault
<1>1. faults \in Nat
  BY DEF TypeOK
<1>2. ASSUME NEW c \in Calls, Step(c) PROVE faults' = faults
  BY <1>2 DEF Step, LoadPointer, LoadMarker, Exhaust, PutSnapshot,
     CheckSnapshot, PutPointer, PutPointerRefused, PointerMatches,
     OperationCommitted, EnsureMarker, Reply
<1>3. ASSUME NEW c \in Calls, FaultStep(c) PROVE faults' = faults + 1
  BY <1>3 DEF FaultStep, LoadFails, PutSnapshotFails, CheckSnapshotFails, Fail,
     PutPointerUnclear, PointerMatchesFails, OperationCommittedFails,
     EnsureMarkerFails, Crash
<1> QED BY <1>1, <1>2, <1>3 DEF Next, Begin, LateWrite, LosePointer, Finished,
           vars

\* A call whose control stays: a bystander, or one whose late write arrives.
LEMMA StandingPays ==
  ASSUME AnswerInv, AnswerInv', [Next]_vars, ~lost',
         NEW d \in Calls, Paying(d),
         pc'[d] = pc[d], base'[d] = base[d], failure'[d] = failure[d],
         start'[d] = start[d], attempt'[d] = attempt[d]
  PROVE  Paying(d)'
<1>1. HistoryInv /\ TypeOK /\ TypeOK'
  BY DEF AnswerInv, HistoryInv
<1>2. /\ Len(log) \in Nat /\ Len(log') \in Nat /\ Len(log) <= Len(log')
      /\ pointer' = pointer \/ Len(log') = Len(log) + 1
      /\ Len(log') = Len(log) \/ Len(log') = Len(log) + 1
  BY <1>1, LogExtends, LogType
<1>3. Extends(d)
  BY <1>1, LogExtends, FaultsGrow DEF Extends
<1>4. pc[d] # "idle" => start[d] \in 1..Len(log)
  BY DEF AnswerInv, Progress
<1>5. ASSUME NEW m \in Nat, m <= Len(log), Paid(d, m) PROVE Paid(d, m)'
  BY <1>1, <1>3, <1>5, StillPaid
<1>6. pc[d] # "idle" => Paid(d, Len(log))'
  <2>1. Paid(d, Len(log)) =>
          attempt'[d] <=
            1 + faults' + Cardinality(Others(log', start'[d], d, Len(log')))
    BY <1>1, <1>2, <1>3, StillPaid DEF Paid
  <2> QED BY <2>1 DEF Paying, Paid
<1>7. ASSUME pc[d] \in {"marker"} \cup Planning
      PROVE  \E m \in start'[d]..Len(log') :
                (m = Len(log') => base'[d] = pointer') /\ Paid(d, m)'
  <2>1. PICK m \in start[d]..Len(log) :
               (m = Len(log) => base[d] = pointer) /\ Paid(d, m)
    BY <1>7 DEF Paying
  <2>2. m \in Nat /\ m <= Len(log)
    BY <1>2, <1>4, <1>7, <2>1 DEF Planning
  <2>3. Paid(d, m)'
    BY <1>5, <2>1, <2>2
  <2>4. m \in start'[d]..Len(log') /\ (m = Len(log') => base'[d] = pointer')
    BY <1>2, <1>4, <1>7, <2>1, <2>2 DEF Planning
  <2> QED BY <2>3, <2>4
<1>8. ASSUME pc[d] \in {"matches", "committed"}, failure[d] = "precondition"
      PROVE  \/ attempt'[d] <=
                  faults' + Cardinality(Others(log', start'[d], d, Len(log')))
             \/ \E m \in start'[d]..(Len(log') - 1) : Paid(d, m)'
  <2>1. CASE attempt[d] <=
               faults + Cardinality(Others(log, start[d], d, Len(log)))
    BY <1>1, <1>2, <1>3, <2>1, StillPaid
  <2>2. ASSUME NEW m \in start[d]..(Len(log) - 1), Paid(d, m)
        PROVE  \E k \in start'[d]..(Len(log') - 1) : Paid(d, k)'
    <3>1. m \in Nat /\ m <= Len(log) /\ m \in start'[d]..(Len(log') - 1)
      BY <1>2, <1>4, <1>8, <2>2
    <3>2. Paid(d, m)'
      BY <1>5, <2>2, <3>1
    <3> QED BY <3>1, <3>2
  <2> QED BY <1>8, <2>1, <2>2 DEF Paying
<1> QED BY <1>6, <1>7, <1>8 DEF Paying

\* A call that goes on within its round, or answers.
LEMMA GoingPays ==
  ASSUME AnswerInv, AnswerInv', NEW c \in Calls, Paying(c), pc[c] # "idle",
         UNCHANGED <<log, pointer, start, attempt>>, faults <= faults',
         pc'[c] \notin {"idle", "load"},
         pc'[c] = "marker" => base'[c] = None,
         pc'[c] \in {"marker"} \cup Planning =>
            \/ base'[c] = pointer
            \/ pc[c] \in {"marker"} \cup Planning /\ base'[c] = base[c],
         pc'[c] \in {"matches", "committed"} =>
            pc[c] \in {"matches", "committed"} /\ failure'[c] = failure[c]
  PROVE  Paying(c)'
<1>1. TypeOK /\ TypeOK' /\ Len(log) \in Nat /\ start[c] \in 1..Len(log)
  BY LogType DEF AnswerInv, HistoryInv, Progress
<1>2. Extends(c)
  BY <1>1 DEF Extends
<1>3. ASSUME NEW m \in Nat, m <= Len(log)
      PROVE  /\ Paid(c, m) => Paid(c, m)'
             /\ attempt[c] <= faults + Cardinality(Others(log, start[c], c, m))
                  => attempt'[c] <= faults'
                       + Cardinality(Others(log', start'[c], c, m))
  BY <1>1, <1>2, <1>3, StillPaid
<1>4. Paid(c, Len(log)) /\ Paid(c, Len(log))'
  <2>1. Paid(c, Len(log))
    BY DEF Paying
  <2>2. attempt'[c] <=
          1 + faults' + Cardinality(Others(log', start'[c], c, Len(log)))
    BY <1>1, <1>3, <2>1 DEF Paid
  <2> QED BY <2>1, <2>2 DEF Paid
<1>5. ASSUME pc'[c] \in {"marker"} \cup Planning
      PROVE  \E m \in start'[c]..Len(log') :
                (m = Len(log') => base'[c] = pointer') /\ Paid(c, m)'
  <2>1. ASSUME NEW m \in start[c]..Len(log),
               m = Len(log) => base'[c] = pointer, Paid(c, m)
        PROVE  /\ m \in start'[c]..Len(log')
               /\ m = Len(log') => base'[c] = pointer'
               /\ Paid(c, m)'
    BY <1>1, <1>3, <2>1
  <2>2. CASE base'[c] = pointer
    BY <1>1, <1>4, <2>1, <2>2
  <2>3. CASE pc[c] \in {"marker"} \cup Planning /\ base'[c] = base[c]
    BY <2>1, <2>3 DEF Paying
  <2> QED BY <1>5, <2>2, <2>3
<1>6. ASSUME pc'[c] \in {"matches", "committed"}, failure'[c] = "precondition"
      PROVE  \/ attempt'[c] <=
                  faults' + Cardinality(Others(log', start'[c], c, Len(log')))
             \/ \E m \in start'[c]..(Len(log') - 1) : Paid(c, m)'
  <2>1. ASSUME NEW m \in start[c]..(Len(log) - 1), Paid(c, m)
        PROVE  m \in start'[c]..(Len(log') - 1) /\ Paid(c, m)'
    BY <1>1, <1>3, <2>1
  <2>2. attempt[c] <= faults + Cardinality(Others(log, start[c], c, Len(log)))
          => attempt'[c] <= faults'
               + Cardinality(Others(log', start'[c], c, Len(log')))
    BY <1>1, <1>3
  <2> QED BY <1>6, <2>1, <2>2 DEF Paying
<1> QED BY <1>4, <1>5, <1>6 DEF Paying

\* The write is refused: the pointer has moved since the plan was made.
LEMMA RefusedPays ==
  ASSUME AnswerInv, AnswerInv', NEW c \in Calls, Paying(c),
         PutPointerRefused(c)
  PROVE  Paying(c)'
<1> USE DEF store, history, Goto
<1>1. /\ TypeOK /\ TypeOK' /\ Len(log) \in Nat /\ start[c] \in 1..Len(log)
      /\ pc[c] = "putPointer" /\ pc'[c] = "matches"
      /\ UNCHANGED <<log, start, attempt, faults>>
  BY LogType
     DEF PutPointerRefused, AnswerInv, HistoryInv, TypeOK, Progress
<1>2. Others(log', start'[c], c, Len(log')) = Others(log, start[c], c, Len(log))
  BY <1>1
<1>3. ASSUME NEW m PROVE Paid(c, m)' <=> Paid(c, m)
  BY <1>1 DEF Paid
<1>4. PICK m \in start[c]..Len(log) :
             (m = Len(log) => base[c] = pointer) /\ Paid(c, m)
  BY <1>1 DEF Paying, Planning
<1>5. m \in start[c]..(Len(log) - 1)
  BY <1>1, <1>4 DEF PutPointerRefused
<1>6. Paid(c, m)' /\ Paid(c, Len(log))'
  <2>1. attempt[c] <=
          1 + faults + Cardinality(Others(log, start[c], c, Len(log)))
    BY <1>1 DEF Paying, Paid
  <2> QED BY <1>1, <1>3, <1>4, <2>1 DEF Paid
<1> QED BY <1>1, <1>5, <1>6 DEF Paying, Planning

\* Another round is paid for by the fault that hid the answer, or by the
\* write of another call that refused this one's.
LEMMA RoundPays ==
  ASSUME AnswerInv, AnswerInv', ~lost, NEW c \in Calls, Paying(c),
         pc[c] = "committed", Unconfirmed(c),
         UNCHANGED <<log, pointer, start>>,
         \/ faults' = faults + 1
         \/ faults' = faults /\ c \notin Range(StateAt(pointer).recent)
  PROVE  Paying(c)'
<1> USE DEF Goto, Answer
<1> DEFINE N == Cardinality(Others(log, start[c], c, Len(log)))
<1>1. /\ TypeOK /\ TypeOK' /\ Len(log) \in Nat /\ start[c] \in 1..Len(log)
      /\ attempt[c] \in Nat /\ faults \in Nat /\ faults' \in Nat
  BY LogType DEF AnswerInv, HistoryInv, TypeOK, Progress
<1>2. N \in Nat
  BY <1>1, OthersCount
<1>3. CASE failure[c] = "error"
  <2>1. pc'[c] = "done" /\ UNCHANGED <<attempt, base, failure>>
    BY <1>1, <1>3 DEF Unconfirmed, TypeOK
  <2> QED BY <1>1, <2>1, GoingPays DEF Planning
<1>4. CASE failure[c] = "precondition"
  <2>1. pc'[c] = "load" /\ attempt'[c] = attempt[c] + 1 /\ base'[c] = None
    BY <1>1, <1>4 DEF Unconfirmed, TypeOK
  <2>2. attempt[c] <= 1 + faults + N
    BY DEF Paying, Paid
  <2>3. ASSUME faults' = faults, c \notin Range(StateAt(pointer).recent),
               NEW m \in start[c]..(Len(log) - 1), Paid(c, m)
        PROVE  attempt[c] <= faults + N
    <3>1. /\ m \in Nat /\ 1 <= start[c] /\ start[c] <= m /\ m < Len(log)
          /\ start[c] \in Nat /\ Len(log) \in Nat
      BY <1>1, <2>3
    <3> HIDE DEF N
    <3>2. Len(log) # 1 /\ Len(log) \in 2..Len(log) /\ start[c] < Len(log)
      <4>1. ASSUME NEW n \in Nat, NEW s \in Nat, 1 <= s, s <= m, m < n, m \in Nat
            PROVE  n # 1 /\ n \in 2..n /\ s < n
        BY <4>1
      <4> QED BY <3>1, <4>1
    <3>3. log[Len(log)].call # c
      <4>1. pointer # None /\ pointer = log[Len(log)].state
        <5>1. PointerIsLast /\ NewStoreIsEmpty
          BY DEF AnswerInv, LogInv
        <5>2. pointer # None
          BY <3>2, <5>1 DEF NewStoreIsEmpty
        <5> QED BY <5>1, <5>2 DEF PointerIsLast, Last
      <4>2. /\ pointer.recent # << >>
            /\ Last(pointer.recent) = log[Len(log)].call
        BY <3>2, <4>1 DEF AnswerInv, LogInv, Signed
      <4>3. pointer.recent \in Seq(Calls)
        BY <1>1, <4>1 DEF TypeOK, Snapshot
      <4>4. Last(pointer.recent) \in Range(pointer.recent)
        BY <4>2, <4>3 DEF Last, Range
      <4> QED BY <2>3, <4>1, <4>2, <4>4 DEF StateAt
    <3> DEFINE M == Cardinality(Others(log, start[c], c, m))
    <3>4. M \in Nat /\ M + 1 <= N
      BY <3>1, <3>3, <3>2, OthersCount DEF N
    <3>5. attempt[c] <= 1 + faults + M
      BY <2>3 DEF Paid
    <3> HIDE DEF M
    <3> QED BY <1>1, <1>2, <3>4, <3>5
  <2>4. attempt'[c] <= 1 + faults' + N
    <3>1. CASE faults' = faults + 1
      <4> HIDE DEF N
      <4> QED BY <1>1, <1>2, <2>1, <2>2, <3>1
    <3>2. CASE faults' = faults /\ c \notin Range(StateAt(pointer).recent)
      <4>1. attempt[c] <= faults + N
        BY <1>4, <2>3, <3>2 DEF Paying
      <4> HIDE DEF N
      <4> QED BY <1>1, <1>2, <2>1, <3>2, <4>1
    <3> QED BY <3>1, <3>2
  <2>5. Paid(c, Len(log))'
    BY <2>4 DEF Paid
  <2> QED BY <2>1, <2>5 DEF Paying, Planning
<1> QED BY <1>3, <1>4 DEF Unconfirmed

LEMMA OwnStepPays ==
  ASSUME AnswerInv, AnswerInv', [Next]_vars, ~lost', NEW c \in Calls, Paying(c),
         Step(c) \/ FaultStep(c)
  PROVE  Paying(c)'
<1> USE DEF store, control, history, Goto, Answer, Fault
<1>1. /\ TypeOK /\ faults <= faults' /\ pc \in [Calls -> Steps]
      /\ HistoryInv /\ Len(log) \in Nat
  BY FaultsGrow, LogType DEF AnswerInv, HistoryInv, TypeOK
<1>2. pc[c] \in {"idle", "load", "marker"} => base[c] = None
  BY DEF Paying
<1>3. ASSUME NEW p, Apply(c, p), p = pointer, pc[c] \in {"load", "marker"},
             UNCHANGED <<log, pointer, start, attempt>>
      PROVE  Paying(c)'
  <2>1. /\ pc'[c] \in {"putSnapshot", "done"}
        /\ pc'[c] = "putSnapshot" => base'[c] = pointer
    BY <1>1, <1>3 DEF Apply, TypeOK
  <2> QED BY <1>1, <1>3, <2>1, GoingPays DEF Planning
<1>4. ASSUME LoadPointer(c) PROVE Paying(c)'
  <2>1. CASE pointer = None /\ Goto(c, "marker") /\ UNCHANGED <<base, next, result>>
    BY <1>1, <1>2, <1>4, <2>1, GoingPays DEF LoadPointer, Planning
  <2>2. CASE pointer \in snapshots /\ Apply(c, pointer)
    BY <1>3, <1>4, <2>2 DEF LoadPointer
  <2>3. CASE Answer(c, "unavailable") /\ UNCHANGED <<base, next>>
    BY <1>1, <1>4, <2>3, GoingPays DEF LoadPointer, Planning
  <2> QED BY <1>4, <2>1, <2>2, <2>3 DEF LoadPointer
<1>5. ASSUME LoadMarker(c) PROVE Paying(c)'
  <2>1. CASE Apply(c, None)
    <3>1. /\ pc[c] = "marker" /\ pc'[c] \in {"putSnapshot", "done"}
          /\ pc'[c] = "putSnapshot" => base'[c] = base[c]
      BY <1>1, <1>2, <1>5, <2>1 DEF LoadMarker, Apply, TypeOK
    <3> QED BY <1>1, <1>5, <3>1, GoingPays DEF LoadMarker, Planning
  <2>2. CASE Answer(c, "missing") /\ UNCHANGED <<base, next>>
    BY <1>1, <1>5, <2>2, GoingPays DEF LoadMarker, Planning
  <2> QED BY <1>5, <2>1, <2>2 DEF LoadMarker
<1>6. ASSUME Exhaust(c) \/ EnsureMarker(c) \/ Reply(c) PROVE Paying(c)'
  <2>1. pc[c] # "idle" /\ pc'[c] \in {"reply", "done"}
    BY <1>1, <1>6 DEF Exhaust, EnsureMarker, Reply
  <2>2. UNCHANGED <<log, pointer, start, attempt>>
    BY <1>6 DEF Exhaust, EnsureMarker, Reply
  <2> QED BY <1>1, <2>1, <2>2, GoingPays DEF Planning
<1>7. ASSUME LoadFails(c) \/ CheckSnapshotFails(c) \/ EnsureMarkerFails(c)
             \/ Crash(c)
      PROVE  Paying(c)'
  <2>1. pc[c] # "idle" /\ pc'[c] \in {"reply", "done", "crashed"}
    BY <1>1, <1>7 DEF LoadFails, CheckSnapshotFails, Fail, EnsureMarkerFails,
       Crash, Running
  <2>2. UNCHANGED <<log, pointer, start, attempt>>
    BY <1>7 DEF LoadFails, CheckSnapshotFails, Fail, EnsureMarkerFails, Crash
  <2> QED BY <1>1, <2>1, <2>2, GoingPays DEF Planning
<1>8. ASSUME PutSnapshot(c) \/ CheckSnapshot(c) \/ PutSnapshotFails(c)
      PROVE  Paying(c)'
  <2>1. /\ pc[c] \in Planning /\ base' = base
        /\ pc'[c] \in {"checkSnapshot", "putPointer", "done"}
    BY <1>1, <1>8 DEF PutSnapshot, CheckSnapshot, PutSnapshotFails, Planning
  <2>2. UNCHANGED <<log, pointer, start, attempt>>
    BY <1>8 DEF PutSnapshot, CheckSnapshot, PutSnapshotFails
  <2> QED BY <1>1, <2>1, <2>2, GoingPays DEF Planning
<1>9. ASSUME PointerMatches(c) \/ PointerMatchesFails(c) PROVE Paying(c)'
  <2>1. /\ pc[c] = "matches" /\ failure' = failure
        /\ pc'[c] \in {"committed", "seal", "reply"}
    BY <1>1, <1>9 DEF PointerMatches, PointerMatchesFails, Confirmed
  <2>2. UNCHANGED <<log, pointer, start, attempt>>
    BY <1>9 DEF PointerMatches, PointerMatchesFails
  <2> QED BY <1>1, <2>1, <2>2, GoingPays DEF Planning
<1>10. ~lost
  BY <1>1, CommitsOnly DEF HistoryInv
<1>11. ASSUME OperationCommitted(c) PROVE Paying(c)'
  <2>1. CASE Confirmed(c) /\ UNCHANGED <<attempt, base, next, failure, result, blind>>
    <3>1. pc[c] = "committed" /\ pc'[c] \in {"seal", "reply"}
      BY <1>1, <1>11, <2>1 DEF OperationCommitted, Confirmed
    <3> QED BY <1>1, <1>11, <2>1, <3>1, GoingPays
            DEF OperationCommitted, Planning
  <2>2. CASE c \notin Range(StateAt(pointer).recent) /\ Unconfirmed(c)
    BY <1>10, <1>11, <2>2, RoundPays DEF OperationCommitted
  <2> QED BY <1>11, <2>1, <2>2 DEF OperationCommitted
<1>12. ASSUME OperationCommittedFails(c) PROVE Paying(c)'
  BY <1>10, <1>12, RoundPays DEF OperationCommittedFails
<1>13. ASSUME PutPointerUnclear(c) PROVE Paying(c)'
  <2>1. /\ pc[c] = "putPointer" /\ pc'[c] = "matches"
        /\ UNCHANGED <<log, start, attempt>> /\ faults' = faults + 1
    BY <1>1, <1>13 DEF PutPointerUnclear
  <2>2. /\ faults \in Nat /\ attempt[c] \in Nat /\ start[c] \in Nat
        /\ Cardinality(Others(log, start[c], c, Len(log))) \in Nat
    BY <1>1, OthersCount DEF TypeOK
  <2>3. attempt[c] <= 1 + faults + Cardinality(Others(log, start[c], c, Len(log)))
    BY <2>1 DEF Paying, Paid
  <2>4. /\ attempt'[c] <=
             faults' + Cardinality(Others(log', start'[c], c, Len(log')))
        /\ attempt'[c] <=
             1 + faults' + Cardinality(Others(log', start'[c], c, Len(log')))
    BY <2>1, <2>2, <2>3
  <2> QED BY <2>1, <2>4 DEF Paying, Paid, Planning
<1>14. ASSUME PutPointer(c) PROVE Paying(c)'
  <2>1. /\ pc[c] = "putPointer" /\ pc'[c] \in {"seal", "reply"}
        /\ UNCHANGED <<start, attempt, faults>>
    BY <1>1, <1>14 DEF PutPointer, Confirmed
  <2>2. TypeOK' /\ Extends(c) /\ Len(log') \in Nat
    BY <1>1, <2>1, LogExtends, LogType DEF Extends, AnswerInv, HistoryInv
  <2>3. Paid(c, Len(log))
    BY <2>1 DEF Paying
  <2>4. ASSUME NEW n \in Nat, Len(log) <= n PROVE Paid(c, n)'
    BY <1>1, <2>2, <2>3, <2>4, StillPaid
  <2>5. attempt'[c] <=
          1 + faults' + Cardinality(Others(log', start'[c], c, Len(log')))
    BY <2>2, <2>4 DEF Paid, Extends
  <2> QED BY <2>1, <2>5 DEF Paying, Paid, Planning
<1> QED
  BY <1>4, <1>5, <1>6, <1>7, <1>8, <1>9, <1>11, <1>12, <1>13, <1>14, RefusedPays
  DEF Step, FaultStep

LEMMA BeginPays ==
  ASSUME AnswerInv, AnswerInv', NEW c \in Calls, Paying(c),
         NEW o \in Ops, Begin(c, o)
  PROVE  Paying(c)'
<1>1. TypeOK /\ TypeOK' /\ Len(log') \in Nat
  BY LogType DEF AnswerInv, HistoryInv
<1>2. /\ pc[c] = "idle" /\ pc'[c] = "load" /\ attempt'[c] = 1
      /\ base'[c] = base[c]
  BY <1>1 DEF Begin, Goto, TypeOK
<1>3. /\ faults' \in Nat /\ start'[c] \in Nat
      /\ Cardinality(Others(log', start'[c], c, Len(log'))) \in Nat
  BY <1>1, OthersCount DEF TypeOK
<1>4. attempt'[c] <=
        1 + faults' + Cardinality(Others(log', start'[c], c, Len(log')))
  BY <1>2, <1>3
<1> QED BY <1>2, <1>4 DEF Paying, Paid, Planning

LEMMA RetryInit == Init => RetryInv
<1> SUFFICES ASSUME Init PROVE RetryInv
  OBVIOUS
<1>1. \A c \in Calls : /\ pc[c] = "idle" /\ base[c] = None
  BY DEF Init
<1> QED BY <1>1, AnswerInit DEF RetryInv, Paying, Planning

LEMMA RetryStep == RetryInv /\ [Next]_vars => RetryInv'
<1> SUFFICES ASSUME RetryInv, [Next]_vars PROVE RetryInv'
  OBVIOUS
<1>1. AnswerInv /\ AnswerInv' /\ HistoryInv
  BY AnswerStep DEF RetryInv, AnswerInv
<1> SUFFICES ASSUME ~lost', NEW d \in Calls PROVE Paying(d)'
  BY <1>1 DEF RetryInv
<1>2. Paying(d)
  BY <1>1, CommitsOnly DEF RetryInv, HistoryInv
<1>3. Bystander(d) => Paying(d)'
  BY <1>1, <1>2, StandingPays DEF Bystander
<1>4. ASSUME NEW c \in Calls, NEW o \in Ops, Begin(c, o) PROVE Paying(d)'
  BY <1>1, <1>2, <1>3, <1>4, BeginPays, OthersStandBy
<1>5. ASSUME NEW c \in Calls, Step(c) \/ FaultStep(c) PROVE Paying(d)'
  BY <1>1, <1>2, <1>3, <1>5, OwnStepPays, OthersStandBy
<1>6. (\E w \in inflight : LateWrite(w)) \/ LosePointer \/ UNCHANGED vars
        => Paying(d)'
  BY <1>1, <1>2, StandingPays
     DEF LateWrite, LosePointer, control, vars, store, history
<1> QED BY <1>4, <1>5, <1>6 DEF Next, Finished

\* While the pointer was never lost, every round of a call after its first is
\* paid for by the write of another call or by a fault: two calls that retry
\* never wear each other out without one of them getting through.
THEOREM RetriesPaid == Spec => []RetriesArePaidFor
<1>1. RetryInv => RetriesArePaidFor
  BY DEF RetryInv, RetriesArePaidFor, Paying, Paid, Others
<1>2. Spec => []RetryInv
  BY RetryInit, RetryStep, PTL DEF Spec
<1> QED BY <1>1, <1>2, PTL

=============================================================================
