-------------------------- MODULE RepositoryProofs --------------------------
(***************************************************************************)
(* Proofs about Repository: for any number of calls, nodes, applications,  *)
(* faults and attempts.                                                    *)
(***************************************************************************)
EXTENDS RegistryGuarantees, RegistryStateProofs

-----------------------------------------------------------------------------
\* The type invariant needs PlansAgree: a pointer write stores a snapshot.

LEMMA InitType == Init => TypeOK
<1> SUFFICES ASSUME Init PROVE TypeOK
  OBVIOUS
<1>1. pointer \in Snapshot \cup {None}
  BY KnownSeeds DEF Init
<1>2. StateAt(pointer) \in Snapshot
  BY <1>1, StateAtType
<1>3. log \in Seq([call : Calls \cup {None}, state : Snapshot]) \ {<< >>}
  BY <1>2 DEF Init
<1> QED BY <1>1, <1>3 DEF Init, TypeOK, Steps

\* What Apply does to the call it decides about.
LEMMA ApplyType ==
  ASSUME TypeOK, BegunCalls, NEW c \in Calls, pc[c] # "idle",
         NEW p \in Snapshot \cup {None}, Apply(c, p)
  PROVE  /\ pc' \in [Calls -> Steps]
         /\ base' \in [Calls -> Snapshot \cup {None}]
         /\ next' \in [Calls -> Snapshot \cup {None}]
         /\ result' \in [Calls -> Results \cup {None}]
<1>1. op[c] \in Operation
  BY KnownOps DEF TypeOK, BegunCalls
<1>2. StateAt(p) \in Snapshot
  BY StateAtType
<1>3. CASE Outcome(op[c], StateAt(p)) = "change"
  <2>1. Successor(c, op[c], StateAt(p)) \in Snapshot
    BY <1>1, <1>2, <1>3, SuccessorType
  <2>2. /\ pc' = [pc EXCEPT ![c] = "putSnapshot"]
        /\ base' = [base EXCEPT ![c] = p]
        /\ next' = [next EXCEPT ![c] = Successor(c, op[c], StateAt(p))]
        /\ result' = result
    BY <1>3 DEF Apply, Goto, Refusals
  <2> QED BY <2>1, <2>2 DEF TypeOK, Steps
<1>4. CASE Outcome(op[c], StateAt(p)) = "nochange"
  BY <1>4 DEF Apply, Answer, Goto, TypeOK, Steps, Results, Refusals
<1>5. CASE Outcome(op[c], StateAt(p)) \in Refusals
  BY <1>5 DEF Apply, Answer, Goto, TypeOK, Steps, Results, Refusals
<1> QED BY <1>3, <1>4, <1>5 DEF Apply

\* A performed write keeps pointer and log well typed.
LEMMA CommitType ==
  ASSUME TypeOK, NEW c \in Calls, NEW p, NEW s \in Snapshot, Commit(c, p, s)
  PROVE  /\ pointer' \in Snapshot \cup {None}
         /\ log' \in Seq([call : Calls \cup {None}, state : Snapshot]) \ {<< >>}
<1> DEFINE E == [call : Calls \cup {None}, state : Snapshot]
<1>1. [call |-> c, state |-> s] \in E /\ log \in Seq(E)
  BY DEF TypeOK
<1> HIDE DEF E
<1>2. ASSUME NEW e \in E PROVE Append(log, e) \in Seq(E) \ {<< >>}
  <2>1. Append(log, e) \in Seq(E) /\ Len(Append(log, e)) = Len(log) + 1
    BY <1>1
  <2>2. Len(log) \in Nat
    BY <1>1
  <2> QED BY <2>1, <2>2
<1> QED BY <1>1, <1>2 DEF Commit, E

LEMMA TypeStep == TypeOK /\ PlansAgree /\ BegunCalls /\ [Next]_vars => TypeOK'
<1> SUFFICES ASSUME TypeOK, PlansAgree, BegunCalls, [Next]_vars
             PROVE  TypeOK'
  OBVIOUS
<1> USE DEF store, control, history
<1>1. ASSUME NEW c \in Calls, NEW o \in Ops, Begin(c, o) PROVE TypeOK'
  BY <1>1 DEF Begin, Goto, TypeOK, Steps
<1>2. ASSUME NEW c \in Calls, NEW r \in Results, Fail(c, r) PROVE TypeOK'
  BY <1>2 DEF Fail, Fault, Answer, Goto, TypeOK, Steps
<1>3. ASSUME NEW c \in Calls, LoadPointer(c) PROVE TypeOK'
  <2>1. CASE Apply(c, pointer)
    <3>1. pc[c] # "idle" /\ pointer \in Snapshot \cup {None}
      BY <1>3 DEF LoadPointer, TypeOK
    <3> QED BY <1>3, <2>1, <3>1, ApplyType DEF LoadPointer, TypeOK
  <2>2. CASE ~Apply(c, pointer)
    BY <1>3, <2>2 DEF LoadPointer, Answer, Goto, TypeOK, Steps, Results
  <2> QED BY <2>1, <2>2
<1>4. ASSUME NEW c \in Calls, LoadMarker(c) PROVE TypeOK'
  <2>1. CASE Apply(c, None)
    <3>1. pc[c] # "idle"
      BY <1>4 DEF LoadMarker
    <3> QED BY <1>4, <2>1, <3>1, ApplyType DEF LoadMarker, TypeOK
  <2>2. CASE ~Apply(c, None)
    BY <1>4, <2>2 DEF LoadMarker, Answer, Goto, TypeOK, Steps, Results
  <2> QED BY <2>1, <2>2
<1>5. ASSUME NEW c \in Calls, Exhaust(c) PROVE TypeOK'
  BY <1>5 DEF Exhaust, Answer, Goto, TypeOK, Steps, Results
<1>6. ASSUME NEW c \in Calls, pc[c] \in {"putSnapshot", "putPointer"}
      PROVE  next[c] \in Snapshot
  <2>1. op[c] \in Operation /\ base[c] \in Snapshot \cup {None}
    BY <1>6, KnownOps DEF PlansAgree, Prepared, TypeOK
  <2> QED BY <1>6, <2>1, StateAtType, SuccessorType DEF PlansAgree, Prepared
<1>7. ASSUME NEW c \in Calls, PutSnapshot(c) PROVE TypeOK'
  BY <1>6, <1>7 DEF PutSnapshot, Goto, TypeOK, Steps
<1>8. ASSUME NEW c \in Calls, PutSnapshotFails(c) PROVE TypeOK'
  <2>1. snapshots' \subseteq Snapshot
    BY <1>6, <1>8 DEF PutSnapshotFails, TypeOK
  <2>2. pc' \in [Calls -> Steps] /\ result' \in [Calls -> Results \cup {None}]
    BY <1>8 DEF PutSnapshotFails, Answer, Goto, TypeOK, Steps, Results
  <2> QED BY <1>8, <2>1, <2>2 DEF PutSnapshotFails, Fault, TypeOK
<1>9. ASSUME NEW c \in Calls, CheckSnapshot(c) PROVE TypeOK'
  BY <1>9 DEF CheckSnapshot, Goto, TypeOK, Steps
<1>10. ASSUME NEW c \in Calls, PutPointer(c) PROVE TypeOK'
  <2>1. /\ pointer' \in Snapshot \cup {None}
        /\ log' \in Seq([call : Calls \cup {None}, state : Snapshot]) \ {<< >>}
    BY <1>6, <1>10, CommitType DEF PutPointer
  <2> QED BY <1>10, <2>1 DEF PutPointer, Confirmed, Goto, TypeOK, Steps
<1>11. ASSUME NEW c \in Calls, PutPointerRefused(c) PROVE TypeOK'
  BY <1>11 DEF PutPointerRefused, Goto, TypeOK, Steps, Failures
<1>12. ASSUME NEW c \in Calls, PutPointerUnclear(c) PROVE TypeOK'
  <2>1. [call |-> c, base |-> base[c], next |-> next[c]] \in Write
    BY <1>6, <1>12 DEF PutPointerUnclear, Write, TypeOK
  <2> QED BY <1>12, <2>1 DEF PutPointerUnclear, Fault, Goto, TypeOK, Steps
<1>13. ASSUME NEW w \in inflight, LateWrite(w) PROVE TypeOK'
  <2>1. w.call \in Calls /\ w.next \in Snapshot
    BY DEF TypeOK, Write
  <2>2. /\ pointer' \in Snapshot \cup {None}
        /\ log' \in Seq([call : Calls \cup {None}, state : Snapshot]) \ {<< >>}
    BY <1>13, <2>1, CommitType DEF LateWrite
  <2> QED BY <1>13, <2>2 DEF LateWrite, TypeOK
<1>14. ASSUME NEW c \in Calls, Unconfirmed(c)
       PROVE  /\ pc' \in [Calls -> Steps]
              /\ attempt' \in [Calls -> Nat]
              /\ base' \in [Calls -> Snapshot \cup {None}]
              /\ next' \in [Calls -> Snapshot \cup {None}]
              /\ failure' \in [Calls -> Failures \cup {None}]
              /\ result' \in [Calls -> Results \cup {None}]
              /\ blind' \subseteq Calls
  <2>1. CASE failure[c] = "precondition"
    <3>1. blind' \subseteq Calls
      BY <1>14, <2>1 DEF Unconfirmed, TypeOK
    <3>2. /\ pc' = [pc EXCEPT ![c] = "load"]
          /\ attempt' = [attempt EXCEPT ![c] = attempt[c] + 1]
          /\ base' = [base EXCEPT ![c] = None]
          /\ next' = [next EXCEPT ![c] = None]
          /\ failure' = [failure EXCEPT ![c] = None]
          /\ result' = result
      BY <1>14, <2>1 DEF Unconfirmed, Goto
    <3> QED BY <3>1, <3>2 DEF TypeOK, Steps
  <2>2. CASE failure[c] = "error"
    BY <1>14, <2>2 DEF Unconfirmed, Answer, Goto, TypeOK, Steps, Results
  <2> QED BY <1>14, <2>1, <2>2 DEF Unconfirmed
<1>15. ASSUME NEW c \in Calls, PointerMatches(c) PROVE TypeOK'
  BY <1>15 DEF PointerMatches, Confirmed, Goto, TypeOK, Steps
<1>16. ASSUME NEW c \in Calls, PointerMatchesFails(c) PROVE TypeOK'
  BY <1>16 DEF PointerMatchesFails, Fault, Goto, TypeOK, Steps
<1>17. ASSUME NEW c \in Calls, OperationCommitted(c) PROVE TypeOK'
  <2>1. CASE Unconfirmed(c)
    BY <1>14, <1>17, <2>1 DEF OperationCommitted, TypeOK
  <2>2. CASE ~Unconfirmed(c)
    BY <1>17, <2>2 DEF OperationCommitted, Confirmed, Goto, TypeOK, Steps
  <2> QED BY <2>1, <2>2
<1>18. ASSUME NEW c \in Calls, OperationCommittedFails(c) PROVE TypeOK'
  BY <1>14, <1>18 DEF OperationCommittedFails, Fault, TypeOK
<1>19. ASSUME NEW c \in Calls, EnsureMarker(c) PROVE TypeOK'
  BY <1>19 DEF EnsureMarker, Goto, TypeOK, Steps
<1>20. ASSUME NEW c \in Calls, EnsureMarkerFails(c) PROVE TypeOK'
  <2>1. marker' \in BOOLEAN
    BY <1>20, Zenon DEF EnsureMarkerFails, TypeOK
  <2>2. pc' \in [Calls -> Steps] /\ result' \in [Calls -> Results \cup {None}]
    BY <1>20 DEF EnsureMarkerFails, Answer, Goto, TypeOK, Steps, Results
  <2> QED BY <1>20, <2>1, <2>2 DEF EnsureMarkerFails, Fault, TypeOK
<1>21. ASSUME NEW c \in Calls, Reply(c) PROVE TypeOK'
  BY <1>21 DEF Reply, Answer, Goto, TypeOK, Steps, Results
<1>22. ASSUME NEW c \in Calls, Crash(c) PROVE TypeOK'
  BY <1>22 DEF Crash, Fault, Goto, TypeOK, Steps
<1>23. CASE LosePointer
  BY <1>23 DEF LosePointer, TypeOK
<1>24. CASE UNCHANGED vars
  BY <1>24 DEF vars, TypeOK
<1>25. ASSUME NEW c \in Calls, FaultStep(c) PROVE TypeOK'
  <2>1. LoadFails(c) => TypeOK'
    BY <1>2 DEF LoadFails, Results
  <2>2. CheckSnapshotFails(c) => TypeOK'
    BY <1>2 DEF CheckSnapshotFails, Results
  <2> QED BY <1>8, <1>12, <1>16, <1>18, <1>20, <1>22, <1>25, <2>1, <2>2
          DEF FaultStep
<1> QED
  BY <1>1, <1>3, <1>4, <1>5, <1>7, <1>9, <1>10, <1>11, <1>13, <1>15, <1>17,
     <1>19, <1>21, <1>23, <1>24, <1>25
  DEF Next, Step, Finished

-----------------------------------------------------------------------------
\* What a step may do to the parts the history depends on.

\* The operation of a call never changes, and a call has one once it begins.
LEMMA OperationsStay ==
  ASSUME TypeOK, BegunCalls, [Next]_vars, NEW d \in Calls
  PROVE  /\ op[d] # None => op'[d] = op[d]
         /\ op'[d] = None <=> pc'[d] = "idle"
<1> USE DEF store, control, history
<1> DEFINE Goal == /\ op[d] # None => op'[d] = op[d]
                   /\ op'[d] = None <=> pc'[d] = "idle"
<1>1. op[d] = None <=> pc[d] = "idle"
  BY DEF BegunCalls
<1>2. ASSUME NEW c \in Calls, NEW o \in Ops, Begin(c, o) PROVE Goal
  <2>1. o # None
    BY KnownOps, NoneIsNoRecord
  <2> QED BY <1>1, <1>2, <2>1 DEF Begin, Goto, BegunCalls, TypeOK
<1>3. ASSUME NEW c \in Calls, op' = op, pc[c] # "idle",
             NEW l \in Steps \ {"idle"}, pc' = [pc EXCEPT ![c] = l]
      PROVE  Goal
  BY <1>1, <1>3 DEF TypeOK
<1>4. CASE op' = op /\ pc' = pc
  BY <1>1, <1>4
<1>5. ASSUME NEW c \in Calls, NEW p, pc[c] # "idle", op' = op, Apply(c, p)
      PROVE  Goal
  BY <1>3, <1>5 DEF Apply, Answer, Goto, Steps
<1>6. ASSUME NEW c \in Calls, Step(c) PROVE Goal
  <2>1. LoadPointer(c) => Goal
    BY <1>3, <1>5 DEF LoadPointer, Answer, Goto, Steps
  <2>2. LoadMarker(c) => Goal
    BY <1>3, <1>5 DEF LoadMarker, Answer, Goto, Steps
  <2>3. PutSnapshot(c) => Goal
    BY <1>3 DEF PutSnapshot, Goto, Steps
  <2>4. Exhaust(c) \/ CheckSnapshot(c) \/ PutPointerRefused(c) => Goal
    BY <1>3 DEF Exhaust, CheckSnapshot, PutPointerRefused, Answer, Goto, Steps
  <2>5. PutPointer(c) \/ PointerMatches(c) => Goal
    BY <1>3 DEF PutPointer, PointerMatches, Confirmed, Goto, Steps
  <2>6. OperationCommitted(c) => Goal
    BY <1>3 DEF OperationCommitted, Confirmed, Unconfirmed, Answer, Goto, Steps
  <2>7. EnsureMarker(c) \/ Reply(c) => Goal
    BY <1>3 DEF EnsureMarker, Reply, Answer, Goto, Steps
  <2> QED BY <1>6, <2>1, <2>2, <2>3, <2>4, <2>5, <2>6, <2>7 DEF Step
<1>7. ASSUME NEW c \in Calls, FaultStep(c) PROVE Goal
  <2>1. LoadFails(c) \/ CheckSnapshotFails(c) => Goal
    BY <1>3 DEF LoadFails, CheckSnapshotFails, Fail, Answer, Goto, Steps
  <2>2. PutSnapshotFails(c) \/ EnsureMarkerFails(c) => Goal
    BY <1>3 DEF PutSnapshotFails, EnsureMarkerFails, Answer, Goto, Steps
  <2>3. PutPointerUnclear(c) \/ PointerMatchesFails(c) => Goal
    BY <1>3 DEF PutPointerUnclear, PointerMatchesFails, Goto, Steps
  <2>4. OperationCommittedFails(c) => Goal
    BY <1>3 DEF OperationCommittedFails, Unconfirmed, Answer, Goto, Steps
  <2>5. Crash(c) => Goal
    BY <1>3 DEF Crash, Running, Goto, Steps
  <2> QED BY <1>7, <2>1, <2>2, <2>3, <2>4, <2>5 DEF FaultStep
<1>8. ASSUME NEW w \in inflight, LateWrite(w) PROVE Goal
  BY <1>4, <1>8 DEF LateWrite
<1>9. LosePointer => Goal
  BY <1>4 DEF LosePointer
<1>10. UNCHANGED vars => Goal
  BY <1>4 DEF vars
<1> QED BY <1>2, <1>6, <1>7, <1>8, <1>9, <1>10 DEF Next, Finished

\* Snapshots are never deleted.
LEMMA SnapshotsStay == ASSUME [Next]_vars PROVE snapshots \subseteq snapshots'
<1> USE DEF store, control, history
<1>1. ASSUME NEW c \in Calls, Step(c) PROVE snapshots \subseteq snapshots'
  BY <1>1 DEF Step, LoadPointer, LoadMarker, Exhaust, PutSnapshot,
     CheckSnapshot, PutPointer, PutPointerRefused, PointerMatches,
     OperationCommitted, EnsureMarker, Reply
<1>2. ASSUME NEW c \in Calls, FaultStep(c) PROVE snapshots \subseteq snapshots'
  BY <1>2 DEF FaultStep, LoadFails, PutSnapshotFails, CheckSnapshotFails, Fail,
     PutPointerUnclear, PointerMatchesFails, OperationCommittedFails,
     EnsureMarkerFails, Crash
<1> QED BY <1>1, <1>2 DEF Next, Begin, LateWrite, LosePointer, Finished, vars

\* The pointer and the log change only by a commit of a prepared and written
\* snapshot, or when the pointer is lost.
Sent(c, p) ==
  \/ pc[c] = "putPointer" /\ p = base[c]
  \/ \E w \in inflight : w.call = c /\ p = w.base

LEMMA CommitsOnly ==
  ASSUME TypeOK, PlansAgree, [Next]_vars
  PROVE  \/ UNCHANGED <<pointer, log, lost>>
         \/ pointer' = None /\ log' = log /\ lost'
         \/ \E c \in Calls, p \in Snapshot \cup {None}, s \in snapshots :
               Commit(c, p, s) /\ Prepared(c, p, s) /\ Sent(c, p) /\ lost' = lost
<1> USE DEF store, control, history
<1> DEFINE Committing ==
      \E c \in Calls, p \in Snapshot \cup {None}, s \in snapshots :
         Commit(c, p, s) /\ Prepared(c, p, s) /\ Sent(c, p) /\ lost' = lost
<1>1. ASSUME NEW c \in Calls, PutPointer(c) PROVE Committing
  <2>1. base[c] \in Snapshot \cup {None}
    BY DEF TypeOK
  <2>2. next[c] \in snapshots /\ Prepared(c, base[c], next[c])
    BY <1>1 DEF PutPointer, PlansAgree
  <2>3. Commit(c, base[c], next[c]) /\ Sent(c, base[c]) /\ lost' = lost
    BY <1>1 DEF PutPointer, Sent
  <2> QED BY <2>1, <2>2, <2>3
<1>2. ASSUME NEW w \in inflight, LateWrite(w) PROVE Committing
  <2>1. w.call \in Calls /\ w.base \in Snapshot \cup {None}
    BY DEF TypeOK, Write
  <2>2. w.next \in snapshots /\ Prepared(w.call, w.base, w.next)
    BY DEF PlansAgree
  <2>3. Commit(w.call, w.base, w.next) /\ Sent(w.call, w.base) /\ lost' = lost
    BY <1>2 DEF LateWrite, Sent
  <2> QED BY <2>1, <2>2, <2>3
<1>3. ASSUME NEW c \in Calls, Step(c), ~PutPointer(c)
      PROVE  UNCHANGED <<pointer, log, lost>>
  BY <1>3 DEF Step, LoadPointer, LoadMarker, Exhaust, PutSnapshot,
     CheckSnapshot, PutPointerRefused, PointerMatches,
     OperationCommitted, EnsureMarker, Reply
<1>4. ASSUME NEW c \in Calls, FaultStep(c)
      PROVE  UNCHANGED <<pointer, log, lost>>
  BY <1>4 DEF FaultStep, LoadFails, PutSnapshotFails, CheckSnapshotFails, Fail,
     PutPointerUnclear, PointerMatchesFails, OperationCommittedFails,
     EnsureMarkerFails, Crash
<1>5. ASSUME NEW c \in Calls, NEW o \in Ops, Begin(c, o)
      PROVE  UNCHANGED <<pointer, log, lost>>
  BY <1>5 DEF Begin
<1>6. LosePointer => pointer' = None /\ log' = log /\ lost'
  BY DEF LosePointer
<1>7. UNCHANGED vars => UNCHANGED <<pointer, log, lost>>
  BY DEF vars
<1> HIDE DEF Committing
<1>8. \/ UNCHANGED <<pointer, log, lost>>
      \/ pointer' = None /\ log' = log /\ lost'
      \/ Committing
  BY <1>1, <1>2, <1>3, <1>4, <1>5, <1>6, <1>7 DEF Next, Finished
<1> QED BY <1>8 DEF Committing

-----------------------------------------------------------------------------
\* Each part of HistoryInv is kept.

LEMMA BegunStep == TypeOK /\ PlansAgree /\ BegunCalls /\ [Next]_vars
                     => BegunCalls'
<1> SUFFICES ASSUME TypeOK, PlansAgree, BegunCalls, [Next]_vars
             PROVE  BegunCalls'
  OBVIOUS
<1>1. \A c \in Calls : op'[c] = None <=> pc'[c] = "idle"
  BY OperationsStay
<1>2. ASSUME NEW i \in 2..Len(log')
      PROVE  log'[i].call \in Calls /\ op'[log'[i].call] # None
  <2>1. CASE log' = log
    BY <2>1, OperationsStay DEF BegunCalls
  <2>2. ASSUME NEW c \in Calls, NEW p, NEW s, Commit(c, p, s), Prepared(c, p, s)
        PROVE  log'[i].call \in Calls /\ op'[log'[i].call] # None
    <3>1. log' = Append(log, [call |-> c, state |-> s])
      BY <2>2 DEF Commit
    <3>2. CASE i <= Len(log)
      <4>1. i \in 2..Len(log) /\ log'[i] = log[i]
        BY <3>1, <3>2 DEF TypeOK
      <4> QED BY <4>1, OperationsStay DEF BegunCalls
    <3>3. CASE ~(i <= Len(log))
      <4>1. log'[i] = [call |-> c, state |-> s]
        BY <3>1, <3>3 DEF TypeOK
      <4> QED BY <2>2, <4>1, OperationsStay DEF Prepared
    <3> QED BY <3>2, <3>3
  <2> QED BY <2>1, <2>2, CommitsOnly
<1> QED BY <1>1, <1>2 DEF BegunCalls

LEMMA PointerStep ==
  TypeOK /\ PlansAgree /\ PointerNeverDangles /\ [Next]_vars
    => PointerNeverDangles'
  BY CommitsOnly, SnapshotsStay DEF PointerNeverDangles, Commit

\* A new entry follows the old last one, because the write that adds it is
\* performed only on the pointer its snapshot was prepared from.
LEMMA SerialStep ==
  TypeOK /\ PlansAgree /\ BegunCalls /\ SerialHistory /\ [Next]_vars
    => SerialHistory'
<1> SUFFICES ASSUME TypeOK, PlansAgree, BegunCalls, SerialHistory, [Next]_vars,
                    ~lost'
             PROVE  /\ StateAt(pointer') = Last(log').state
                    /\ \A i \in 2..Len(log') : Follows(i)'
  BY DEF SerialHistory
<1>1. CASE UNCHANGED <<pointer, log, lost>>
  <2>1. ~lost
    BY <1>1
  <2>2. StateAt(pointer') = Last(log').state
    BY <1>1, <2>1 DEF SerialHistory, Last
  <2>3. ASSUME NEW i \in 2..Len(log') PROVE Follows(i)'
    <3>1. Follows(i) /\ log[i].call \in Calls /\ op[log[i].call] # None
      BY <1>1, <2>1 DEF SerialHistory, BegunCalls
    <3>2. op'[log[i].call] = op[log[i].call]
      BY <3>1, OperationsStay
    <3> QED BY <1>1, <3>1, <3>2 DEF Follows
  <2> QED BY <2>2, <2>3
<1>2. ASSUME NEW c \in Calls, NEW p \in Snapshot \cup {None},
             NEW s \in snapshots,
             Commit(c, p, s), Prepared(c, p, s), lost' = lost
      PROVE  /\ StateAt(pointer') = Last(log').state
             /\ \A i \in 2..Len(log') : Follows(i)'
  <2> DEFINE e == [call |-> c, state |-> s]
  <2>1. /\ StateAt(pointer) = log[Len(log)].state
        /\ \A i \in 2..Len(log) : Follows(i)
    BY <1>2 DEF SerialHistory, Last
  <2>2. pointer = p /\ pointer' = s /\ log' = Append(log, e)
    BY <1>2 DEF Commit
  <2>3. Len(log) \in Nat /\ Len(log) >= 1
    <3>1. log \in Seq([call : Calls \cup {None}, state : Snapshot]) \ {<< >>}
      BY DEF TypeOK
    <3> QED BY <3>1
  <2>4. /\ Len(log') = Len(log) + 1
        /\ log'[Len(log) + 1] = e
        /\ \A i \in 1..Len(log) : log'[i] = log[i]
    BY <2>2, <2>3 DEF TypeOK
  <2>5. StateAt(pointer') = Last(log').state
    <3>1. s \in Snapshot
      BY DEF TypeOK
    <3>2. StateAt(s) = s
      BY <3>1, NoneIsNoRecord DEF StateAt
    <3> QED BY <2>2, <2>4, <3>2 DEF Last
  <2>6. ASSUME NEW i \in 2..Len(log') PROVE Follows(i)'
    <3>1. CASE i <= Len(log)
      <4>1. /\ Follows(i)
            /\ log'[i] = log[i] /\ log'[i - 1] = log[i - 1]
            /\ log[i].call \in Calls /\ op[log[i].call] # None
        BY <2>1, <2>3, <2>4, <3>1 DEF BegunCalls
      <4>2. op'[log[i].call] = op[log[i].call]
        BY <4>1, OperationsStay
      <4> QED BY <4>1, <4>2 DEF Follows
    <3>2. CASE i = Len(log) + 1
      <4>1. log'[i] = e /\ log'[i - 1] = log[Len(log)]
        BY <2>3, <2>4, <3>2
      <4>2. op'[c] = op[c]
        BY <1>2, OperationsStay DEF Prepared
      <4>3. /\ Outcome(op[c], log[Len(log)].state) = "change"
            /\ s = Successor(c, op[c], log[Len(log)].state)
        BY <1>2, <2>1, <2>2 DEF Prepared
      <4> QED BY <4>1, <4>2, <4>3 DEF Follows
    <3> QED BY <2>3, <2>4, <3>1, <3>2
  <2> QED BY <2>5, <2>6
<1> QED BY <1>1, <1>2, CommitsOnly

\* A call that is about to write keeps the plan it had, or has just made it.
Planning == {"putSnapshot", "checkSnapshot", "putPointer"}

Kept(d) ==
  /\ pc[d] \in Planning /\ base'[d] = base[d] /\ next'[d] = next[d]
  /\ pc'[d] = "putPointer" => pc[d] = "putPointer" \/ next[d] \in snapshots'

Made(d) ==
  /\ pc'[d] = "putSnapshot" /\ pc[d] # "idle"
  /\ base'[d] # None \/ ~marker
  /\ Outcome(op[d], StateAt(base'[d])) = "change"
  /\ next'[d] = Successor(d, op[d], StateAt(base'[d]))

LEMMA PlanningStep ==
  ASSUME TypeOK, BegunCalls, [Next]_vars, NEW d \in Calls
  PROVE  pc'[d] \notin Planning \/ Kept(d) \/ Made(d)
<1> USE DEF store, control, history
<1> DEFINE Goal == pc'[d] \notin Planning \/ Kept(d) \/ Made(d)
<1>1. ASSUME pc'[d] = pc[d], base'[d] = base[d], next'[d] = next[d]
      PROVE  Goal
  BY <1>1 DEF Kept
<1>2. ASSUME NEW c \in Calls, NEW l \in Steps \ Planning, UNCHANGED <<base, next>>,
             pc' = [pc EXCEPT ![c] = l]
      PROVE  Goal
  BY <1>1, <1>2 DEF TypeOK
<1>3. ASSUME NEW c \in Calls, NEW p \in Snapshot \cup {None}, pc[c] # "idle",
             p # None \/ ~marker, Apply(c, p)
      PROVE  Goal
  <2>1. CASE Outcome(op[c], StateAt(p)) = "change"
    <3>1. /\ pc' = [pc EXCEPT ![c] = "putSnapshot"]
          /\ base' = [base EXCEPT ![c] = p]
          /\ next' = [next EXCEPT ![c] = Successor(c, op[c], StateAt(p))]
      BY <1>3, <2>1 DEF Apply, Goto, Refusals
    <3>2. CASE c = d
      BY <1>3, <2>1, <3>1, <3>2 DEF Made, TypeOK
    <3>3. CASE c # d
      BY <1>1, <3>1, <3>3 DEF TypeOK
    <3> QED BY <3>2, <3>3
  <2>2. CASE Outcome(op[c], StateAt(p)) # "change"
    BY <1>2, <1>3, <2>2 DEF Apply, Answer, Goto, Steps, Planning
  <2> QED BY <2>1, <2>2
<1>4. ASSUME NEW c \in Calls, Step(c) PROVE Goal
  <2>1. ASSUME LoadPointer(c) PROVE Goal
    <3>1. CASE pointer \in snapshots /\ Apply(c, pointer)
      BY <1>3, <2>1, <3>1, NoneIsNoRecord DEF LoadPointer, TypeOK
    <3>2. CASE ~(pointer \in snapshots /\ Apply(c, pointer))
      BY <1>2, <2>1, <3>2 DEF LoadPointer, Answer, Goto, Steps, Planning
    <3> QED BY <3>1, <3>2
  <2>2. ASSUME LoadMarker(c) PROVE Goal
    <3>1. CASE ~marker /\ Apply(c, None)
      BY <1>3, <2>2, <3>1 DEF LoadMarker
    <3>2. CASE ~(~marker /\ Apply(c, None))
      BY <1>2, <2>2, <3>2 DEF LoadMarker, Answer, Goto, Steps, Planning
    <3> QED BY <3>1, <3>2
  <2>3. ASSUME PutSnapshot(c) PROVE Goal
    BY <2>3 DEF PutSnapshot, Goto, Kept, Planning, TypeOK
  <2>4. ASSUME CheckSnapshot(c) PROVE Goal
    BY <2>4 DEF CheckSnapshot, Goto, Kept, Planning, TypeOK
  <2>5. Exhaust(c) \/ PutPointerRefused(c) => Goal
    BY <1>2 DEF Exhaust, PutPointerRefused, Answer, Goto, Steps, Planning
  <2>6. PutPointer(c) \/ PointerMatches(c) => Goal
    BY <1>2 DEF PutPointer, PointerMatches, Confirmed, Goto, Steps, Planning
  <2>7. ASSUME OperationCommitted(c) PROVE Goal
    <3>1. CASE Unconfirmed(c)
      BY <3>1 DEF Unconfirmed, Answer, Goto, Kept, Planning, TypeOK
    <3>2. CASE ~Unconfirmed(c)
      BY <1>2, <2>7, <3>2 DEF OperationCommitted, Confirmed, Goto, Steps, Planning
    <3> QED BY <3>1, <3>2
  <2>8. EnsureMarker(c) \/ Reply(c) => Goal
    BY <1>2 DEF EnsureMarker, Reply, Answer, Goto, Steps, Planning
  <2> QED BY <1>4, <2>1, <2>2, <2>3, <2>4, <2>5, <2>6, <2>7, <2>8 DEF Step
<1>5. ASSUME NEW c \in Calls, FaultStep(c) PROVE Goal
  <2>1. LoadFails(c) \/ CheckSnapshotFails(c) => Goal
    BY <1>2 DEF LoadFails, CheckSnapshotFails, Fail, Answer, Goto, Steps, Planning
  <2>2. ASSUME PutSnapshotFails(c) PROVE Goal
    BY <2>2 DEF PutSnapshotFails, Answer, Goto, Kept, Planning, TypeOK
  <2>3. EnsureMarkerFails(c) => Goal
    BY <1>2 DEF EnsureMarkerFails, Answer, Goto, Steps, Planning
  <2>4. PutPointerUnclear(c) \/ PointerMatchesFails(c) => Goal
    BY <1>2 DEF PutPointerUnclear, PointerMatchesFails, Goto, Steps, Planning
  <2>5. ASSUME OperationCommittedFails(c) PROVE Goal
    BY <2>5 DEF OperationCommittedFails, Unconfirmed, Answer, Goto, Kept,
       Planning, TypeOK
  <2>6. Crash(c) => Goal
    BY <1>2 DEF Crash, Goto, Steps, Planning
  <2> QED BY <1>5, <2>1, <2>2, <2>3, <2>4, <2>5, <2>6 DEF FaultStep
<1>6. ASSUME NEW c \in Calls, NEW o \in Ops, Begin(c, o) PROVE Goal
  BY <1>2, <1>6 DEF Begin, Goto, Steps, Planning
<1>7. ASSUME NEW w \in inflight, LateWrite(w) PROVE Goal
  BY <1>1, <1>7 DEF LateWrite
<1>8. LosePointer \/ UNCHANGED vars => Goal
  BY <1>1 DEF LosePointer, vars
<1> QED BY <1>4, <1>5, <1>6, <1>7, <1>8 DEF Next, Finished

\* A write is left in the store only by a call that was about to send it.
LEMMA InflightStep ==
  ASSUME [Next]_vars, NEW w \in inflight'
  PROVE  \/ w \in inflight
         \/ \E c \in Calls :
               /\ pc[c] = "putPointer"
               /\ w = [call |-> c, base |-> base[c], next |-> next[c]]
<1> USE DEF store, control, history
<1>1. ASSUME NEW c \in Calls, Step(c) PROVE inflight' = inflight
  BY <1>1 DEF Step, LoadPointer, LoadMarker, Exhaust, PutSnapshot,
     CheckSnapshot, PutPointer, PutPointerRefused, PointerMatches,
     OperationCommitted, EnsureMarker, Reply
<1>2. ASSUME NEW c \in Calls, FaultStep(c), ~PutPointerUnclear(c)
      PROVE  inflight' = inflight
  BY <1>2 DEF FaultStep, LoadFails, PutSnapshotFails, CheckSnapshotFails, Fail,
     PointerMatchesFails, OperationCommittedFails, EnsureMarkerFails, Crash
<1> QED BY <1>1, <1>2 DEF Next, Begin, PutPointerUnclear, LateWrite,
        LosePointer, Finished, vars

LEMMA PlansStep ==
  TypeOK /\ PlansAgree /\ BegunCalls /\ [Next]_vars => PlansAgree'
<1> SUFFICES ASSUME TypeOK, PlansAgree, BegunCalls, [Next]_vars
             PROVE  PlansAgree'
  OBVIOUS
<1>1. ASSUME NEW d \in Calls, pc'[d] \in Planning
      PROVE  /\ Prepared(d, base[d], next[d])'
             /\ pc'[d] = "putPointer" => next'[d] \in snapshots'
  <2>1. CASE Kept(d)
    <3>1. Prepared(d, base[d], next[d])
      BY <2>1 DEF Kept, PlansAgree, Planning
    <3>2. op'[d] = op[d] /\ op[d] # None
      BY <3>1, OperationsStay DEF Prepared
    <3>3. pc[d] = "putPointer" => next[d] \in snapshots'
      BY SnapshotsStay DEF PlansAgree
    <3> QED BY <2>1, <3>1, <3>2, <3>3 DEF Kept, Prepared
  <2>2. CASE Made(d)
    <3>1. op'[d] = op[d] /\ op[d] # None
      BY <2>2, OperationsStay DEF Made, BegunCalls
    <3> QED BY <2>2, <3>1 DEF Made, Prepared
  <2> QED BY <1>1, <2>1, <2>2, PlanningStep
<1>2. ASSUME NEW w \in inflight'
      PROVE  Prepared(w.call, w.base, w.next)' /\ w.next \in snapshots'
  <2>1. /\ w.call \in Calls /\ Prepared(w.call, w.base, w.next)
        /\ w.next \in snapshots
    <3>1. CASE w \in inflight
      BY <3>1 DEF PlansAgree, TypeOK, Write
    <3>2. ASSUME NEW c \in Calls, pc[c] = "putPointer",
                 w = [call |-> c, base |-> base[c], next |-> next[c]]
          PROVE  /\ w.call \in Calls /\ Prepared(w.call, w.base, w.next)
                 /\ w.next \in snapshots
      BY <3>2 DEF PlansAgree
    <3> QED BY <3>1, <3>2, InflightStep
  <2>2. op'[w.call] = op[w.call]
    BY <2>1, OperationsStay DEF Prepared
  <2> QED BY <2>1, <2>2, SnapshotsStay DEF Prepared
<1> QED BY <1>1, <1>2 DEF PlansAgree, Planning

-----------------------------------------------------------------------------
\* The theorems

\* HistoryInv is inductive.
LEMMA HistoryInit == Init => HistoryInv
<1> SUFFICES ASSUME Init PROVE HistoryInv
  OBVIOUS
<1>1. TypeOK
  BY InitType
<1>2. Len(log) = 1 /\ log[1].state = StateAt(pointer)
  BY DEF Init
<1>3. SerialHistory
  BY <1>2 DEF SerialHistory, Last
<1>4. BegunCalls
  BY <1>2 DEF BegunCalls, Init
<1>5. PlansAgree
  BY DEF PlansAgree, Init
<1>6. PointerNeverDangles
  BY DEF PointerNeverDangles, Init
<1> QED BY <1>1, <1>3, <1>4, <1>5, <1>6 DEF HistoryInv

LEMMA HistoryStep == HistoryInv /\ [Next]_vars => HistoryInv'
  BY TypeStep, PlansStep, BegunStep, PointerStep, SerialStep DEF HistoryInv

LEMMA HistoryInvariant == Spec => []HistoryInv
  BY HistoryInit, HistoryStep, PTL DEF Spec

\* Every variable of mutate keeps its type, whatever the store does.
THEOREM TypeCorrect == Spec => []TypeOK
<1>1. HistoryInv => TypeOK
  BY DEF HistoryInv
<1> QED BY <1>1, HistoryInvariant, PTL

\* The pointer written by mutate names a snapshot mutate has written.
THEOREM PointerSafe == Spec => []PointerNeverDangles
<1>1. HistoryInv => PointerNeverDangles
  BY DEF HistoryInv
<1> QED BY <1>1, HistoryInvariant, PTL

\* No lost update: until the pointer is lost the registry is a serial
\* application of the operations whose writes were performed.
THEOREM Serial == Spec => []SerialHistory
<1>1. HistoryInv => SerialHistory
  BY DEF HistoryInv
<1> QED BY <1>1, HistoryInvariant, PTL

-----------------------------------------------------------------------------
\* Only a claim and a transfer touch the owner: a claim only where there is
\* none, a transfer only where its expectation holds.
LEMMA OwnerChanges ==
  ASSUME NEW c \in Calls, NEW o \in Operation, NEW s \in Snapshot,
         Outcome(o, s) = "change",
         s.owner # None, Successor(c, o, s).owner # s.owner
  PROVE  o.kind = "transfer" /\ o.expected = s.owner
<1> DEFINE e == Effect(o, s)
<1>1. e \in Snapshot /\ e.owner # s.owner
  <2>1. e \in Snapshot
    BY EffectType
  <2>2. Successor(c, o, s).owner = e.owner
    <3> HIDE DEF e
    <3>1. Successor(c, o, s) = [e EXCEPT !.revision = @ + 1,
                                         !.recent = Newest(Append(@, c))]
      BY DEF Successor, e
    <3> QED BY <2>1, <3>1 DEF Snapshot
  <2> QED BY <2>1, <2>2
<1>2. CASE o.kind = "claim"
  <2>1. ClaimOutcome(o, s) = "change"
    BY <1>2 DEF Outcome
  <2> QED BY <2>1 DEF ClaimOutcome
<1>3. CASE o.kind = "transfer"
  <2>1. TransferOutcome(o, s) = "change"
    BY <1>3 DEF Outcome
  <2> QED BY <1>3, <2>1 DEF TransferOutcome
<1>4. CASE o.kind \in {"register", "create", "update", "delete"}
  <2>1. e.owner = s.owner
    BY <1>4 DEF Effect, RegisterEffect, CreateEffect, UpdateEffect,
                DeleteEffect, Snapshot
  <2> QED BY <1>1, <2>1
<1> QED BY <1>2, <1>3, <1>4 DEF Operation

\* The auth role leaves a node only by a transfer that expected the node to
\* hold it, for any number of racing claims and transfers.
THEOREM OwnerSafe == Spec => []OwnerNeverStolen
<1>1. HistoryInv => OwnerNeverStolen
  <2> SUFFICES ASSUME TypeOK, BegunCalls, SerialHistory, ~lost,
                      NEW i \in 2..Len(log),
                      log[i - 1].state.owner \notin {None, log[i].state.owner}
               PROVE  /\ op[log[i].call].kind = "transfer"
                      /\ op[log[i].call].expected = log[i - 1].state.owner
    BY DEF HistoryInv, OwnerNeverStolen
  <2>1. log[i - 1].state \in Snapshot
    <3> DEFINE Entry == [call : Calls \cup {None}, state : Snapshot]
    <3>1. log \in Seq(Entry)
      BY DEF TypeOK
    <3>2. log[i - 1] \in Entry
      <4> HIDE DEF Entry
      <4>1. i - 1 \in 1..Len(log)
        BY <3>1
      <4> QED BY <3>1, <4>1
    <3> QED BY <3>2
  <2>2. log[i].call \in Calls /\ op[log[i].call] \in Operation
    BY KnownOps DEF BegunCalls, TypeOK
  <2>3. Follows(i)
    BY DEF SerialHistory
  <2> QED BY <2>1, <2>2, <2>3, OwnerChanges DEF Follows
<1> QED BY <1>1, HistoryInvariant, PTL

-----------------------------------------------------------------------------
\* The marker is never deleted.
LEMMA MarkerStays == ASSUME TypeOK, marker, [Next]_vars PROVE marker'
<1> USE DEF store, control, history
<1>1. ASSUME NEW c \in Calls, Step(c) PROVE marker'
  BY <1>1 DEF Step, LoadPointer, LoadMarker, Exhaust, PutSnapshot,
     CheckSnapshot, PutPointer, PutPointerRefused, PointerMatches,
     OperationCommitted, EnsureMarker, Reply
<1>2. ASSUME NEW c \in Calls, FaultStep(c) PROVE marker'
  BY <1>2 DEF FaultStep, LoadFails, PutSnapshotFails, CheckSnapshotFails, Fail,
     PutPointerUnclear, PointerMatchesFails, OperationCommittedFails,
     EnsureMarkerFails, Crash
<1> QED BY <1>1, <1>2 DEF Next, Begin, LateWrite, LosePointer, Finished, vars

\* Once the marker exists and every call and write that saw the empty store
\* is gone, a lost pointer keeps the registry closed: no step of any call
\* writes a pointer again.
THEOREM ClosedForGood == Spec => StaysSealed
<1>1. HistoryInv /\ [Next]_vars => (Sealed => Sealed')
  <2> SUFFICES ASSUME TypeOK, PlansAgree, BegunCalls, [Next]_vars, Sealed
               PROVE  Sealed'
    BY DEF HistoryInv
  <2>1. marker'
    BY MarkerStays DEF Sealed
  <2>2. pointer' = None
    <3>1. ASSUME NEW c \in Calls, NEW p, NEW s, Commit(c, p, s), Sent(c, p)
          PROVE  FALSE
      BY <3>1 DEF Commit, Sent, Sealed
    <3> QED BY <3>1, CommitsOnly DEF Sealed
  <2>3. ASSUME NEW d \in Calls, pc'[d] \in Planning PROVE base'[d] # None
    BY <2>3, PlanningStep DEF Kept, Made, Sealed, Planning
  <2>4. ASSUME NEW w \in inflight' PROVE w.base # None
    BY InflightStep DEF Sealed
  <2> QED BY <2>1, <2>2, <2>3, <2>4 DEF Sealed, Planning
<1>2. HistoryInv /\ [Next]_vars => [Sealed => Sealed']_vars
  BY <1>1
<1> QED BY <1>2, HistoryInvariant, PTL DEF Spec, StaysSealed

-----------------------------------------------------------------------------
\* The content

LEMMA EmptyIsWellFormed == WellFormed(EmptyRegistry) /\ KeepsNames(EmptyRegistry)
<1>1. /\ EmptyRegistry.owner = None /\ EmptyRegistry.auth = {}
      /\ \A n \in Nodes : EmptyRegistry.nodes[n] = None
      /\ \A a \in AppIds : EmptyRegistry.apps[a] = None
  BY DEF EmptyRegistry
<1>2. \A o \in Registrations : o.node \in Nodes
  BY KnownOps DEF Registrations, Operation
<1> QED BY <1>1, <1>2 DEF WellFormed, UniqueNodeNames, OneAuthNode, NoAppClash,
           AppsHaveNodes, KeepsNames

\* A new node brings a name no registered node has.
LEMMA RegisterKeeps ==
  ASSUME NEW s \in Snapshot, WellFormed(s), KeepsNames(s), OneNamePerNode,
         NEW o \in Registrations, RegisterOutcome(o, s) = "change"
  PROVE  WellFormed(RegisterEffect(o, s)) /\ KeepsNames(RegisterEffect(o, s))
<1> DEFINE e == RegisterEffect(o, s)
<1>1. o.node \in Nodes /\ o.slug \in NodeSlugs /\ o.slug # None
  BY KnownOps, Absent DEF Registrations, Operation
<1>2. /\ e.owner = s.owner /\ e.auth = s.auth /\ e.apps = s.apps
      /\ e.nodes[o.node] = o.slug
      /\ \A n \in Nodes \ {o.node} : e.nodes[n] = s.nodes[n]
  BY <1>1 DEF RegisterEffect, Snapshot
<1>3. s.nodes[o.node] = None
  BY <1>1 DEF RegisterOutcome, KeepsNames
<1>4. ASSUME NEW n \in Nodes \ {o.node} PROVE s.nodes[n] # o.slug
  BY <1>1, <1>3 DEF RegisterOutcome, NameTaken, Registered
<1>5. ASSUME NEW n, Registered(s, n) PROVE Registered(e, n)
  BY <1>1, <1>2, <1>5 DEF Registered
<1> HIDE DEF e
<1>6. UniqueNodeNames(e)
  BY <1>2, <1>4 DEF UniqueNodeNames, WellFormed
<1>7. OneAuthNode(e) /\ NoAppClash(e) /\ AppsHaveNodes(e)
  BY <1>2, <1>5 DEF WellFormed, OneAuthNode, NoAppClash, AppsHaveNodes
<1>8. KeepsNames(e)
  <2> SUFFICES ASSUME NEW q \in Registrations
               PROVE  e.nodes[q.node] \in {None, q.slug}
    BY DEF KeepsNames
  <2>1. q.node \in Nodes
    BY KnownOps DEF Registrations, Operation
  <2> QED BY <1>2, <2>1 DEF KeepsNames, OneNamePerNode
<1> QED BY <1>6, <1>7, <1>8 DEF WellFormed, e

\* The role goes to a registered node, and to it alone.
LEMMA GiveAuthKeeps ==
  ASSUME NEW s \in Snapshot, WellFormed(s), KeepsNames(s),
         NEW n, Registered(s, n)
  PROVE  WellFormed(GiveAuth(s, n)) /\ KeepsNames(GiveAuth(s, n))
<1> DEFINE e == GiveAuth(s, n)
<1>1. /\ e.owner = n /\ e.auth = {n} /\ e.apps = s.apps /\ e.nodes = s.nodes
      /\ n # None
  BY Absent DEF GiveAuth, Snapshot, Registered
<1> HIDE DEF e
<1> QED BY <1>1 DEF WellFormed, UniqueNodeNames, OneAuthNode, NoAppClash,
           AppsHaveNodes, KeepsNames, Registered, e

\* An application built on a state without a conflict clashes with none.
LEMMA BuildKeeps ==
  ASSUME NEW s \in Snapshot, WellFormed(s), KeepsNames(s),
         NEW a \in AppIds, NEW in, NEW g, InputOutcome(in, s, a) = "change"
  PROVE  LET e == [s EXCEPT !.apps[a] = BuildApp(in, s, g)]
         IN  WellFormed(e) /\ KeepsNames(e)
<1> DEFINE app == BuildApp(in, s, g)
           e == [s EXCEPT !.apps[a] = app]
<1>1. /\ app.node = in.node /\ app.slug = in.slug
      /\ app.routes = Routes(in, Hostname(in.slug, s.nodes[in.node]))
  BY DEF BuildApp
<1>2. Registered(s, in.node) /\ ~AppConflict(in, s, a)
  BY DEF InputOutcome, Buildable
<1>3. ASSUME NEW b \in AppIds \ {a}, s.apps[b] # None
      PROVE  /\ s.apps[b].node # app.node \/ s.apps[b].slug # app.slug
             /\ Rules(s.apps[b].routes) \cap Rules(app.routes) = {}
  BY <1>1, <1>2, <1>3 DEF AppConflict
<1> HIDE DEF app
<1>4. /\ e.owner = s.owner /\ e.auth = s.auth /\ e.nodes = s.nodes
      /\ e.apps[a] = app
      /\ \A b \in AppIds \ {a} : e.apps[b] = s.apps[b]
  BY DEF Snapshot
<1> HIDE DEF e
<1>5. NoAppClash(e)
  <2> SUFFICES ASSUME NEW b \in AppIds, NEW d \in AppIds, b # d,
                      e.apps[b] # None, e.apps[d] # None
               PROVE  /\ e.apps[b].node # e.apps[d].node
                         \/ e.apps[b].slug # e.apps[d].slug
                      /\ Rules(e.apps[b].routes)
                           \cap Rules(e.apps[d].routes) = {}
    BY DEF NoAppClash
  <2>1. CASE b = a
    BY <1>3, <1>4, <2>1
  <2>2. CASE d = a
    BY <1>3, <1>4, <2>2
  <2>3. CASE b # a /\ d # a
    BY <1>4, <2>3 DEF WellFormed, NoAppClash
  <2> QED BY <2>1, <2>2, <2>3
<1>6. AppsHaveNodes(e)
  BY <1>1, <1>2, <1>4 DEF WellFormed, AppsHaveNodes, Registered
<1>7. UniqueNodeNames(e) /\ OneAuthNode(e) /\ KeepsNames(e)
  BY <1>4 DEF WellFormed, UniqueNodeNames, OneAuthNode, Registered, KeepsNames
<1> QED BY <1>5, <1>6, <1>7 DEF WellFormed, e, app

LEMMA EffectKeeps ==
  ASSUME NEW s \in Snapshot, WellFormed(s), KeepsNames(s), OneNamePerNode,
         NEW o \in Ops, Outcome(o, s) = "change"
  PROVE  WellFormed(Effect(o, s)) /\ KeepsNames(Effect(o, s))
<1>1. o \in Operation
  BY KnownOps
<1>2. CASE o.kind = "register"
  BY <1>2, RegisterKeeps DEF Registrations, Outcome, Effect
<1>3. CASE o.kind \in {"claim", "transfer"}
  <2>1. Registered(s, o.node)
    BY <1>3 DEF Outcome, ClaimOutcome, TransferOutcome
  <2>2. Effect(o, s) = GiveAuth(s, o.node)
    BY <1>3 DEF Effect
  <2> QED BY <2>1, <2>2, GiveAuthKeeps
<1>4. CASE o.kind = "create"
  <2>1. o.app \in AppIds /\ InputOutcome(o.input, s, o.app) = "change"
    BY <1>1, <1>4 DEF Operation, Outcome
  <2>2. Effect(o, s) = [s EXCEPT !.apps[o.app] = BuildApp(o.input, s, 1)]
    BY <1>4 DEF Effect, CreateEffect
  <2> QED BY <2>1, <2>2, BuildKeeps
<1>5. CASE o.kind = "update"
  <2> DEFINE in == Merged(o.input, s.apps[o.app])
             g == s.apps[o.app].generation + 1
  <2>1. o.app \in AppIds /\ InputOutcome(in, s, o.app) = "change"
    BY <1>1, <1>5 DEF Operation, Outcome, UpdateOutcome, AtGeneration
  <2>2. Effect(o, s) = [s EXCEPT !.apps[o.app] = BuildApp(in, s, g)]
    BY <1>5 DEF Effect, UpdateEffect
  <2> HIDE DEF in, g
  <2> QED BY <2>1, <2>2, BuildKeeps
<1>6. CASE o.kind = "delete"
  <2> DEFINE e == Effect(o, s)
  <2>1. /\ e.owner = s.owner /\ e.auth = s.auth /\ e.nodes = s.nodes
        /\ \A b \in AppIds : e.apps[b] \in {None, s.apps[b]}
    BY <1>1, <1>6 DEF Effect, DeleteEffect, Snapshot, Operation
  <2> HIDE DEF e
  <2> QED BY <2>1 DEF WellFormed, UniqueNodeNames, OneAuthNode, NoAppClash,
             AppsHaveNodes, Registered, KeepsNames, e
<1> QED BY <1>1, <1>2, <1>3, <1>4, <1>5, <1>6 DEF Operation

LEMMA SuccessorKeeps ==
  ASSUME NEW s \in Snapshot, WellFormed(s), KeepsNames(s), OneNamePerNode,
         NEW c \in Calls, NEW o \in Ops, Outcome(o, s) = "change"
  PROVE  WellFormed(Successor(c, o, s)) /\ KeepsNames(Successor(c, o, s))
<1> DEFINE e == Effect(o, s)
           t == Successor(c, o, s)
<1>1. e \in Snapshot /\ WellFormed(e) /\ KeepsNames(e)
  BY KnownOps, EffectType, EffectKeeps
<1>2. t = [e EXCEPT !.revision = @ + 1, !.recent = Newest(Append(@, c))]
  BY DEF Successor
<1> HIDE DEF e, t
<1>3. /\ t.owner = e.owner /\ t.auth = e.auth /\ t.nodes = e.nodes
      /\ t.apps = e.apps
  BY <1>1, <1>2 DEF Snapshot
<1> QED BY <1>1, <1>3 DEF WellFormed, UniqueNodeNames, OneAuthNode, NoAppClash,
           AppsHaveNodes, Registered, KeepsNames, t

\* Where every node registers under one name and the store begins sound, no
\* order of creations, updates, deletions, claims and transfers, and no
\* failure of their writes, ever leaves the registry with two applications on
\* one name or rule, an application without its node, two owners of the auth
\* role or two nodes of one name.
THEOREM ContentStaysSound ==
  OneNamePerNode /\ SoundSeeds => (Spec => []WellFormedRegistry)
<1> SUFFICES ASSUME OneNamePerNode, SoundSeeds PROVE Spec => []WellFormedRegistry
  OBVIOUS
<1> DEFINE Content == WellFormedRegistry /\ KeepsNames(StateAt(pointer))
<1>1. Init => Content
  BY DEF Init, SoundSeeds, WellFormedRegistry
<1>2. HistoryInv /\ Content /\ [Next]_vars => Content'
  <2> SUFFICES ASSUME HistoryInv, Content, [Next]_vars PROVE Content'
    OBVIOUS
  <2>1. CASE UNCHANGED pointer
    BY <2>1 DEF WellFormedRegistry
  <2>2. CASE pointer' = None
    BY <2>2, EmptyIsWellFormed DEF WellFormedRegistry, StateAt
  <2>3. ASSUME NEW c \in Calls, NEW p, NEW s, Commit(c, p, s), Prepared(c, p, s)
        PROVE  Content'
    <3>1. /\ StateAt(pointer) \in Snapshot /\ op[c] \in Ops
          /\ Outcome(op[c], StateAt(pointer)) = "change"
          /\ pointer' = Successor(c, op[c], StateAt(pointer))
      BY <2>3, StateAtType DEF HistoryInv, TypeOK, Commit, Prepared
    <3>2. pointer' # None
      BY <3>1, KnownOps, SuccessorType, NoneIsNoRecord
    <3>3. WellFormed(pointer') /\ KeepsNames(pointer')
      BY <3>1, SuccessorKeeps DEF WellFormedRegistry
    <3> QED BY <3>2, <3>3 DEF WellFormedRegistry, StateAt
  <2> QED BY <2>1, <2>2, <2>3, CommitsOnly DEF HistoryInv
<1>3. Content => WellFormedRegistry
  OBVIOUS
<1> HIDE DEF Content
<1> QED BY <1>1, <1>2, <1>3, HistoryInvariant, PTL DEF Spec

=============================================================================
