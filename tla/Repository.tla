----------------------------- MODULE Repository -----------------------------
(***************************************************************************)
(* registry/cmd/repository.go over registry/cmd/s3store.go: how calls of   *)
(* mutate, made by any number of registry processes, change one registry   *)
(* kept in an object store that offers conditional writes and nothing      *)
(* else.                                                                   *)
(*                                                                         *)
(* A call loads the current snapshot, applies its operation to a copy,     *)
(* writes the copy as an immutable snapshot, then moves the pointer        *)
(* current.json with If-Match on the ETag it loaded (If-None-Match: * when *)
(* there was no pointer).  When the pointer write does not answer success  *)
(* the call looks whether the pointer is its own, or its operation id is   *)
(* among the recent ones, before it retries or gives up.  The first commit *)
(* also writes the object "initialized", which makes Load refuse a missing *)
(* pointer afterwards.                                                     *)
(*                                                                         *)
(* One step is one request to the store with the local code around it.     *)
(* Load's two reads of pointer and snapshot are one step, because          *)
(* snapshots are never changed or deleted.                                 *)
(***************************************************************************)
EXTENDS RegistryState

CONSTANTS
  Ops,                \* the operations calls may ask for
  Seeds,              \* pointers a run may start from, None for a new store
  MaxAttempts,        \* maxMutationAttempts (64 in the code)
  MaxFaults,          \* bound on failed requests and crashes
  AllowPointerLoss    \* may current.json disappear once?

ASSUME KnownOps == Ops \subseteq Operation
ASSUME KnownSeeds == Seeds \subseteq Snapshot \cup {None}
ASSUME Bounds == MaxAttempts \in Nat \ {0} /\ MaxFaults \in Nat
ASSUME LossFlag == AllowPointerLoss \in BOOLEAN
ASSUME FreshCalls == \A p \in Seeds \ {None}, c \in Calls : c \notin Range(p.recent)
ASSUME NoneIsNoRecord == None \notin Operation /\ None \notin Snapshot

VARIABLES
  \* the object store
  pointer,     \* the snapshot current.json names, None when it is missing
  marker,      \* does "initialized" exist?
  snapshots,   \* the snapshot objects written
  inflight,    \* pointer writes the store may still perform
  \* every call of mutate
  pc,          \* the request the call makes next
  op,          \* its operation
  attempt,     \* which round of the loop it is in
  base,        \* the pointer it loaded
  next,        \* the snapshot it prepared
  failure,     \* how its pointer write failed
  result,      \* what it answered
  \* history
  log,         \* every pointer the store has had, with the call that wrote it
  start,       \* length of log when the call began
  blind,       \* calls that retried although their write was performed and
               \* they could not see it, or may still be performed
  faults,      \* faults so far
  lost         \* has the pointer disappeared?

store   == <<pointer, marker, snapshots, inflight>>
control == <<pc, op, attempt, base, next, failure, result>>
history == <<log, start, blind, faults, lost>>
vars    == <<store, control, history>>

Steps == {"idle", "load", "marker", "putSnapshot", "checkSnapshot",
          "putPointer", "matches", "committed", "seal", "reply",
          "done", "crashed"}

\* ErrPrecondition (HTTP 412 or 409), or any other error.
Failures == {"precondition", "error"}

Results == {"ok", "exhausted", "unavailable", "missing", "collision"}
             \cup Refusals

ASSUME NoneIsNoAnswer == None \notin Results

Write == [call : Calls, base : Snapshot \cup {None}, next : Snapshot]

Running(c) == pc[c] \notin {"idle", "done", "crashed"}

Last(s) == s[Len(s)]

Committers == {log[i].call : i \in 2..Len(log)}

Fault == faults < MaxFaults /\ faults' = faults + 1

Goto(c, step) == pc' = [pc EXCEPT ![c] = step]

Answer(c, r) == Goto(c, "done") /\ result' = [result EXCEPT ![c] = r]

-----------------------------------------------------------------------------
Init ==
  /\ pointer \in Seeds
  /\ marker = (pointer # None)
  /\ snapshots = {pointer} \ {None}
  /\ inflight = {}
  /\ pc = [c \in Calls |-> "idle"]
  /\ op = [c \in Calls |-> None]
  /\ attempt = [c \in Calls |-> 0]
  /\ base = [c \in Calls |-> None]
  /\ next = [c \in Calls |-> None]
  /\ failure = [c \in Calls |-> None]
  /\ result = [c \in Calls |-> None]
  /\ log = << [call |-> None, state |-> StateAt(pointer)] >>
  /\ start = [c \in Calls |-> 0]
  /\ blind = {}
  /\ faults = 0
  /\ lost = FALSE

\* CreateApp draws a fresh id for its application.
FreshApp(o) ==
  o.kind = "create" =>
     /\ \A d \in Calls : op[d] # None /\ op[d].kind = "create"
                            => op[d].app # o.app
     /\ \A p \in Seeds : p # None => p.apps[o.app] = None

Begin(c, o) ==
  /\ pc[c] = "idle"
  /\ FreshApp(o)
  /\ Goto(c, "load")
  /\ op' = [op EXCEPT ![c] = o]
  /\ attempt' = [attempt EXCEPT ![c] = 1]
  /\ start' = [start EXCEPT ![c] = Len(log)]
  /\ UNCHANGED <<store, base, next, failure, result, log, blind, faults, lost>>

\* The request of this step fails and the call returns its error.
Fail(c, r) ==
  /\ Fault
  /\ Answer(c, r)
  /\ UNCHANGED <<store, op, attempt, base, next, failure,
                 log, start, blind, lost>>

-----------------------------------------------------------------------------
\* Load, and the closure applied to a copy of what it returned

Apply(c, p) ==
  LET s == StateAt(p)
      outcome == Outcome(op[c], s)
  IN  \/ /\ outcome = "change"
         /\ Goto(c, "putSnapshot")
         /\ base' = [base EXCEPT ![c] = p]
         /\ next' = [next EXCEPT ![c] = Successor(c, op[c], s)]
         /\ UNCHANGED result
      \/ /\ outcome = "nochange"
         /\ Answer(c, "ok")
         /\ UNCHANGED <<base, next>>
      \/ /\ outcome \in Refusals
         /\ Answer(c, outcome)
         /\ UNCHANGED <<base, next>>

LoadPointer(c) ==
  /\ pc[c] = "load" /\ attempt[c] <= MaxAttempts
  /\ \/ /\ pointer = None
        /\ Goto(c, "marker")
        /\ UNCHANGED <<base, next, result>>
     \/ pointer \in snapshots /\ Apply(c, pointer)
     \/ /\ pointer # None /\ pointer \notin snapshots
        /\ Answer(c, "unavailable")
        /\ UNCHANGED <<base, next>>
  /\ UNCHANGED <<store, op, attempt, failure, history>>

\* Mutant: a missing pointer is always a store that was never initialised.
LoadNoMarker(c) ==
  /\ pc[c] = "marker"
  /\ Apply(c, None)
  /\ UNCHANGED <<store, op, attempt, failure, history>>

\* No pointer: a store that was never initialised, or one that lost it.
LoadMarker(c) ==
  /\ pc[c] = "marker"
  /\ \/ ~marker /\ Apply(c, None)
     \/ /\ marker
        /\ Answer(c, "missing")
        /\ UNCHANGED <<base, next>>
  /\ UNCHANGED <<store, op, attempt, failure, history>>

LoadFails(c) == pc[c] \in {"load", "marker"} /\ Fail(c, "unavailable")

\* The loop ends after its last round.
Exhaust(c) ==
  /\ pc[c] = "load" /\ attempt[c] > MaxAttempts
  /\ Answer(c, "exhausted")
  /\ UNCHANGED <<store, op, attempt, base, next, failure, history>>

-----------------------------------------------------------------------------
\* The snapshot, If-None-Match: *

PutSnapshot(c) ==
  /\ pc[c] = "putSnapshot"
  /\ Goto(c, IF next[c] \in snapshots THEN "checkSnapshot" ELSE "putPointer")
  /\ snapshots' = snapshots \cup {next[c]}
  /\ UNCHANGED <<pointer, marker, inflight, op, attempt, base, next, failure,
                 result, history>>

\* Mutant: the error of the snapshot write is not looked at.
PutSnapshotFailsUnnoticed(c) ==
  /\ pc[c] = "putSnapshot"
  /\ Fault
  /\ Goto(c, "putPointer")
  /\ UNCHANGED <<store, op, attempt, base, next, failure, result,
                 log, start, blind, lost>>

\* The write fails, or the client's own retry of a performed write meets
\* its object and is answered 412.
PutSnapshotFails(c) ==
  /\ pc[c] = "putSnapshot"
  /\ Fault
  /\ \/ /\ Answer(c, "unavailable")
        /\ snapshots' \in {snapshots, snapshots \cup {next[c]}}
     \/ /\ Goto(c, "checkSnapshot")
        /\ snapshots' = snapshots \cup {next[c]}
        /\ UNCHANGED result
  /\ UNCHANGED <<pointer, marker, inflight, op, attempt, base, next, failure,
                 log, start, blind, lost>>

\* The key holds the digest of the body, so what is there is the same body.
CheckSnapshot(c) ==
  /\ pc[c] = "checkSnapshot" /\ next[c] \in snapshots
  /\ Goto(c, "putPointer")
  /\ UNCHANGED <<store, op, attempt, base, next, failure, result, history>>

CheckSnapshotFails(c) == pc[c] = "checkSnapshot" /\ Fail(c, "collision")

-----------------------------------------------------------------------------
\* The pointer, If-Match on the loaded ETag or If-None-Match: *

\* Mutant: the pointer is written without a condition.
CommitUnconditionally(c, p, s) ==
  /\ pointer' = s
  /\ log' = Append(log, [call |-> c, state |-> s])

\* The store performs the write of call c from p to s.
Commit(c, p, s) ==
  /\ pointer = p
  /\ pointer' = s
  /\ log' = Append(log, [call |-> c, state |-> s])

\* A call that loaded no pointer owes the marker before it answers.
Confirmed(c) == Goto(c, IF base[c] = None THEN "seal" ELSE "reply")

PutPointer(c) ==
  /\ pc[c] = "putPointer"
  /\ Commit(c, base[c], next[c])
  /\ Confirmed(c)
  /\ UNCHANGED <<marker, snapshots, inflight, op, attempt, base, next, failure,
                 result, start, blind, faults, lost>>

\* Mutant: the same request again, without a bound.
PutPointerAgain(c) ==
  /\ pc[c] = "putPointer" /\ pointer # base[c]
  /\ UNCHANGED vars

\* S3 answers 412 for another ETag and 404 for no object at all.
PutPointerRefused(c) ==
  /\ pc[c] = "putPointer" /\ pointer # base[c]
  /\ failure' = [failure EXCEPT
                   ![c] = IF pointer = None THEN "error" ELSE "precondition"]
  /\ Goto(c, "matches")
  /\ UNCHANGED <<store, op, attempt, base, next, result, history>>

\* A timeout, a 5xx, a 409 or the 412 of a client-side retry: the store may
\* have performed the write, or still will, or never does.
PutPointerUnclear(c) ==
  /\ pc[c] = "putPointer"
  /\ Fault
  /\ inflight' = inflight
       \cup {[call |-> c, base |-> base[c], next |-> next[c]]}
  /\ \E f \in Failures : failure' = [failure EXCEPT ![c] = f]
  /\ Goto(c, "matches")
  /\ UNCHANGED <<pointer, marker, snapshots, op, attempt, base, next, result,
                 log, start, blind, lost>>

LateWrite(w) ==
  /\ Commit(w.call, w.base, w.next)
  /\ inflight' = inflight \ {w}
  /\ UNCHANGED <<marker, snapshots, control, start, blind, faults, lost>>

-----------------------------------------------------------------------------
\* What the call does after a pointer write that did not answer success

\* Mutant: the write is tried again on the state loaded before.
UnconfirmedNoReload(c) ==
  /\ Goto(c, "putSnapshot")
  /\ attempt' = [attempt EXCEPT ![c] = @ + 1]
  /\ UNCHANGED <<base, next, failure, result, blind>>

\* Mutant: a write whose fate is unknown is reported as refused.
UnconfirmedConflict(c) ==
  /\ Answer(c, "conflict")
  /\ UNCHANGED <<attempt, base, next, failure, blind>>

\* The write of c was performed, and c could not see it: its id is no longer
\* among the recent ones, or the read failed.  Or it may still be performed.
CannotKnow(c) ==
  \/ /\ c \in Committers
     /\ c \notin Range(StateAt(pointer).recent) \/ faults' # faults
  \/ \E w \in inflight : w.call = c

\* Another round after ErrPrecondition, the error otherwise.
Unconfirmed(c) ==
  \/ /\ failure[c] = "precondition"
     /\ Goto(c, "load")
     /\ attempt' = [attempt EXCEPT ![c] = @ + 1]
     /\ base' = [base EXCEPT ![c] = None]
     /\ next' = [next EXCEPT ![c] = None]
     /\ failure' = [failure EXCEPT ![c] = None]
     /\ blind' = IF CannotKnow(c) THEN blind \cup {c} ELSE blind
     /\ UNCHANGED result
  \/ /\ failure[c] = "error"
     /\ Answer(c, "unavailable")
     /\ UNCHANGED <<attempt, base, next, failure, blind>>

\* Mutant: only the revision of the pointer is compared.
PointerMatchesRevision(c) ==
  /\ pc[c] = "matches"
  /\ IF StateAt(pointer).revision = next[c].revision
     THEN Confirmed(c) ELSE Goto(c, "committed")
  /\ UNCHANGED <<store, op, attempt, base, next, failure, result, history>>

PointerMatches(c) ==
  /\ pc[c] = "matches"
  /\ IF pointer = next[c] THEN Confirmed(c) ELSE Goto(c, "committed")
  /\ UNCHANGED <<store, op, attempt, base, next, failure, result, history>>

PointerMatchesFails(c) ==
  /\ pc[c] = "matches"
  /\ Fault
  /\ Goto(c, "committed")
  /\ UNCHANGED <<store, op, attempt, base, next, failure, result,
                 log, start, blind, lost>>

\* Mutant: the recent operations are not searched.
OperationNeverCommitted(c) ==
  /\ pc[c] = "committed"
  /\ UNCHANGED <<store, op, log, start, faults, lost>>
  /\ Unconfirmed(c)

OperationCommitted(c) ==
  /\ pc[c] = "committed"
  /\ UNCHANGED <<store, op, log, start, faults, lost>>
  /\ \/ /\ c \in Range(StateAt(pointer).recent)
        /\ Confirmed(c)
        /\ UNCHANGED <<attempt, base, next, failure, result, blind>>
     \/ /\ c \notin Range(StateAt(pointer).recent)
        /\ Unconfirmed(c)

OperationCommittedFails(c) ==
  /\ pc[c] = "committed"
  /\ Fault
  /\ Unconfirmed(c)
  /\ UNCHANGED <<store, op, log, start, lost>>

-----------------------------------------------------------------------------
\* The marker, If-None-Match: *

\* Mutant: the marker is forgotten.
EnsureNoMarker(c) ==
  /\ pc[c] = "seal"
  /\ Goto(c, "reply")
  /\ UNCHANGED <<store, op, attempt, base, next, failure, result, history>>

EnsureMarker(c) ==
  /\ pc[c] = "seal"
  /\ marker' = TRUE
  /\ Goto(c, "reply")
  /\ UNCHANGED <<pointer, snapshots, inflight, op, attempt, base, next, failure,
                 result, history>>

\* An error is returned although the operation is committed; a 409, which
\* ensureInitializedMarker takes for "exists already", is not.
EnsureMarkerFails(c) ==
  /\ pc[c] = "seal"
  /\ Fault
  /\ \/ /\ Answer(c, "unavailable")
        /\ marker' \in {marker, TRUE}
     \/ Goto(c, "reply") /\ UNCHANGED <<marker, result>>
  /\ UNCHANGED <<pointer, snapshots, inflight, op, attempt, base, next, failure,
                 log, start, blind, lost>>

Reply(c) ==
  /\ pc[c] = "reply"
  /\ Answer(c, "ok")
  /\ UNCHANGED <<store, op, attempt, base, next, failure, history>>

-----------------------------------------------------------------------------
\* The environment

\* The process of the call stops.
Crash(c) ==
  /\ Running(c)
  /\ Fault
  /\ Goto(c, "crashed")
  /\ UNCHANGED <<store, op, attempt, base, next, failure, result,
                 log, start, blind, lost>>

\* current.json is deleted behind the registry's back.
LosePointer ==
  /\ AllowPointerLoss /\ ~lost /\ pointer # None
  /\ pointer' = None
  /\ lost' = TRUE
  /\ UNCHANGED <<marker, snapshots, inflight, control, log, start, blind, faults>>

\* What a call does when the store answers.
Step(c) ==
  \/ LoadPointer(c) \/ LoadMarker(c) \/ Exhaust(c)
  \/ PutSnapshot(c) \/ CheckSnapshot(c)
  \/ PutPointer(c) \/ PutPointerRefused(c)
  \/ PointerMatches(c) \/ OperationCommitted(c)
  \/ EnsureMarker(c) \/ Reply(c)

\* What it does when the store does not, or the process stops.
FaultStep(c) ==
  \/ LoadFails(c) \/ PutSnapshotFails(c) \/ CheckSnapshotFails(c)
  \/ PutPointerUnclear(c) \/ PointerMatchesFails(c)
  \/ OperationCommittedFails(c) \/ EnsureMarkerFails(c) \/ Crash(c)

Finished == (\A c \in Calls : ~Running(c) /\ pc[c] # "idle") /\ UNCHANGED vars

Next ==
  \/ \E c \in Calls :
        (\E o \in Ops : Begin(c, o)) \/ Step(c) \/ FaultStep(c)
  \/ \E w \in inflight : LateWrite(w)
  \/ LosePointer
  \/ Finished

Spec == Init /\ [][Next]_vars

\* The goroutine of a call keeps running until the call answers or its
\* process stops; the store answers every request, if only with an error.
FairSpec == Spec /\ \A c \in Calls : WF_vars(Step(c))
=============================================================================
