------------------------------- MODULE Backup -------------------------------
(***************************************************************************)
(* backup/cmd: dumps of one database, uploaded to S3 or, when that fails,  *)
(* kept as emergency copies on disk until a later run promotes them.       *)
(*                                                                         *)
(* The scheduler, the first run after the start and requests run backup    *)
(* concurrently; one lock per target makes them take turns.  List requests *)
(* read the same stores without the lock.  A file is written in place, so  *)
(* a copy may be there in part; an S3 object appears whole or not at all,  *)
(* but a failed upload may have taken place.  The process may stop         *)
(* anywhere.                                                               *)
(*                                                                         *)
(* Targets share nothing but the map of records, each its own entry of it, *)
(* so one target is modelled.  A key is its timestamp, a number.           *)
(***************************************************************************)
EXTENDS Naturals, FiniteSets

CONSTANTS
  Runs,        \* goroutines that call backup
  Lists,       \* requests for the records
  Last,        \* bound on timestamps: later backups all get this one
  MaxFaults,   \* bound on failed store requests and crashes
  None

ASSUME Bounds == Last \in Nat \ {0} /\ MaxFaults \in Nat
ASSUME Names == Runs \cap Lists = {} /\ None \notin Runs

Goroutines == Runs \cup Lists

Keys == 1..Last

\* What is stored under a key: nothing, the beginning of a dump, or a dump.
Content == {"none", "part", "whole"}

VARIABLES
  stores,     \* which stores are configured
  local,      \* files below BACKUP_DIR
  remote,     \* objects in the bucket
  records,    \* keys in the cached records
  lock,       \* who holds the target's lock
  pc,         \* what a goroutine does next
  key,        \* the key of a run's backup
  pending,    \* the emergency copies a run has yet to promote
  found,      \* the keys a refresh of the records has listed
  \* history
  clock,      \* the last timestamp
  kept,       \* keys of backups answered "ok" or "retained"
  known,      \* what was kept when a refresh began, unless a store failed
  faults

disk == <<local, remote>>
work == <<lock, pc, key, pending>>
refresh == <<records, found, known>>
vars == <<stores, disk, work, refresh, clock, kept, faults>>

Init ==
  /\ stores \in (SUBSET {"file", "s3"}) \ {{}}
  /\ local = [k \in Keys |-> "none"]
  /\ remote = [k \in Keys |-> "none"]
  /\ records = {}
  /\ lock = None
  /\ pc = [g \in Goroutines |-> "idle"]
  /\ key = [r \in Runs |-> None]
  /\ pending = [r \in Runs |-> {}]
  /\ found = [g \in Goroutines |-> {}]
  /\ clock = 0
  /\ kept = {}
  /\ known = [g \in Goroutines |-> {}]
  /\ faults = 0

Fault == faults < MaxFaults /\ faults' = faults + 1

Goto(g, step) == pc' = [pc EXCEPT ![g] = step]

Stored(contents) == {k \in Keys : contents[k] # "none"}

Least(K) == CHOOSE k \in K : \A j \in K : k <= j

\* backup returns: the lock is released.
Return(r) ==
  /\ pc' = [pc EXCEPT ![r] = "idle"]
  /\ key' = [key EXCEPT ![r] = None]
  /\ pending' = [pending EXCEPT ![r] = {}]
  /\ lock' = None

\* The backup of r is told to be safe.  Which of the backups with the last
\* timestamp is meant cannot be told.
Keep(r) == kept' = kept \cup ({key[r]} \ {Last})

-----------------------------------------------------------------------------
(* backup.                                                                 *)

\* Mutant: no lock.
TakeNoLock(r) == UNCHANGED lock

TakeLock(r) == lock = None /\ lock' = r

\* Mutant: only the copies of this very backup are looked for.
OwnCopies(k) == Stored(local) \cap {k}

\* What promotePending lists.
Copies(k) == Stored(local)

\* The lock, the dump, the key, and promotePending's listing, which takes a
\* directory it cannot read for an empty one.  (A dump that fails returns at
\* once and changes nothing.)
Dump(r) ==
  /\ pc[r] = "idle"
  /\ TakeLock(r)
  /\ clock' = IF clock < Last THEN clock + 1 ELSE Last
  /\ key' = [key EXCEPT ![r] = clock']
  /\ \/ /\ stores = {"file", "s3"}
        /\ pending' = [pending EXCEPT ![r] = Copies(clock')]
        /\ UNCHANGED faults
     \/ stores = {"file", "s3"} /\ UNCHANGED pending /\ Fault
     \/ stores # {"file", "s3"} /\ UNCHANGED <<pending, faults>>
  /\ Goto(r, IF "s3" \in stores THEN "promote" ELSE "create")
  /\ UNCHANGED <<stores, disk, refresh, kept>>

\* The oldest copy is read and uploaded.  A failure ends promotePending, not
\* backup; the upload may have taken place.  (What was listed under the lock
\* is still there.)
Promote(r) ==
  /\ pc[r] = "promote" /\ pending[r] # {}
  /\ LET k == Least(pending[r])
     IN  \/ /\ local[k] # "none"
            /\ remote' = [remote EXCEPT ![k] = local[k]]
            /\ \/ Goto(r, "promoted") /\ UNCHANGED faults
               \/ Goto(r, "upload") /\ Fault
         \/ UNCHANGED remote /\ Goto(r, "upload") /\ Fault
  /\ UNCHANGED <<stores, local, lock, key, pending, refresh, clock, kept>>

\* ... and deleted.
DropPromoted(r) ==
  /\ pc[r] = "promoted"
  /\ LET k == Least(pending[r])
     IN  \/ /\ local' = [local EXCEPT ![k] = "none"]
            /\ pending' = [pending EXCEPT ![r] = @ \ {k}]
            /\ Goto(r, "promote")
            /\ UNCHANGED faults
         \/ Fault /\ Goto(r, "upload") /\ UNCHANGED <<local, pending>>
  /\ UNCHANGED <<stores, remote, lock, key, refresh, clock, kept>>

Promoted(r) ==
  /\ pc[r] = "promote" /\ pending[r] = {}
  /\ Goto(r, "upload")
  /\ UNCHANGED <<stores, disk, lock, key, pending, refresh, clock, kept, faults>>

\* After a failure, here too, the object may be there.  Without a directory
\* for emergency copies backup fails.
Upload(r) ==
  /\ pc[r] = "upload"
  /\ \/ /\ remote' = [remote EXCEPT ![key[r]] = "whole"]
        /\ Goto(r, "drop")
        /\ UNCHANGED <<lock, key, pending, faults>>
     \/ /\ remote' \in {remote, [remote EXCEPT ![key[r]] = "whole"]}
        /\ Fault
        /\ IF "file" \in stores
             THEN Goto(r, "create") /\ UNCHANGED <<lock, key, pending>>
             ELSE Return(r)
  /\ UNCHANGED <<stores, local, refresh, clock, kept>>

\* FileStore.Save: the file is created, or truncated, ...
Create(r) ==
  /\ pc[r] = "create"
  /\ \/ /\ local' = [local EXCEPT ![key[r]] = "part"]
        /\ Goto(r, "write")
        /\ UNCHANGED <<lock, key, pending, faults>>
     \/ Fault /\ Return(r) /\ UNCHANGED local
  /\ UNCHANGED <<stores, remote, refresh, clock, kept>>

\* Mutant: the bucket is listed first.
BucketFirst(step) ==
  CASE step = "start" -> IF "s3" \in stores THEN "remote" ELSE "local"
    [] step = "remote" -> IF "file" \in stores THEN "local" ELSE "records"
    [] OTHER -> "records"

\* The order of the configured stores.
After(step) ==
  CASE step = "start" -> IF "file" \in stores THEN "local" ELSE "remote"
    [] step = "local" -> IF "s3" \in stores THEN "remote" ELSE "records"
    [] OTHER -> "records"

\* A refresh of the records begins.
Refresh(g) ==
  /\ Goto(g, After("start"))
  /\ found' = [found EXCEPT ![g] = {}]
  /\ known' = [known EXCEPT ![g] = kept]
  /\ UNCHANGED records

\* ... and written.  An emergency copy is answered "retained".
Write(r) ==
  /\ pc[r] = "write"
  /\ \/ /\ local' = [local EXCEPT ![key[r]] = "whole"]
        /\ UNCHANGED faults
        /\ IF "s3" \in stores
             THEN Keep(r) /\ Return(r) /\ UNCHANGED refresh
             ELSE Refresh(r) /\ UNCHANGED <<lock, key, pending, kept>>
     \/ Fault /\ Return(r) /\ UNCHANGED <<local, kept, refresh>>
  /\ UNCHANGED <<stores, remote, clock>>

\* Errors of this deletion are ignored.
DropLocal(r) ==
  /\ pc[r] = "drop"
  /\ \/ local' = [local EXCEPT ![key[r]] = "none"] /\ UNCHANGED faults
     \/ UNCHANGED local /\ Fault
  /\ Refresh(r)
  /\ UNCHANGED <<stores, remote, lock, key, pending, clock, kept>>

-----------------------------------------------------------------------------
(* refreshRecords, by a run under the lock and by a list request without.  *)

List(g) ==
  /\ g \in Lists /\ pc[g] = "idle"
  /\ Refresh(g)
  /\ UNCHANGED <<stores, disk, lock, key, pending, clock, kept, faults>>

\* FileStore.List skips what it cannot read.
ListLocal(g) ==
  /\ pc[g] = "local"
  /\ \/ found' = [found EXCEPT ![g] = @ \cup Stored(local)] /\ UNCHANGED <<known, faults>>
     \/ known' = [known EXCEPT ![g] = {}] /\ UNCHANGED found /\ Fault
  /\ Goto(g, After("local"))
  /\ UNCHANGED <<stores, disk, lock, key, pending, records, clock, kept>>

Done(g) ==
  IF g \in Runs THEN Return(g) ELSE Goto(g, "idle") /\ UNCHANGED <<lock, key, pending>>

\* A failed listing is an error only when nothing has been found.
ListRemote(g) ==
  /\ pc[g] = "remote"
  /\ \/ /\ found' = [found EXCEPT ![g] = @ \cup Stored(remote)]
        /\ Goto(g, After("remote"))
        /\ UNCHANGED <<lock, key, pending, known, faults>>
     \/ /\ known' = [known EXCEPT ![g] = {}]
        /\ UNCHANGED found
        /\ Fault
        /\ IF found[g] = {}
             THEN Done(g)
             ELSE Goto(g, After("remote")) /\ UNCHANGED <<lock, key, pending>>
  /\ UNCHANGED <<stores, disk, records, clock, kept>>

\* The records are replaced.  A run answers "ok"; a list request answers what
\* the records then are.
SetRecords(g) ==
  /\ pc[g] = "records"
  /\ records' = found[g]
  /\ IF g \in Runs THEN Keep(g) ELSE UNCHANGED kept
  /\ Done(g)
  /\ UNCHANGED <<stores, disk, found, known, clock, faults>>

\* The process stops and starts again: the disk and the bucket stay.  (The
\* refresh main begins with is one of Lists.)
Crash ==
  /\ Fault
  /\ records' = {}
  /\ lock' = None
  /\ pc' = [g \in Goroutines |-> "idle"]
  /\ key' = [r \in Runs |-> None]
  /\ pending' = [r \in Runs |-> {}]
  /\ found' = [g \in Goroutines |-> {}]
  /\ known' = [g \in Goroutines |-> {}]
  /\ UNCHANGED <<stores, disk, clock, kept>>

-----------------------------------------------------------------------------
\* What a run does once it has the lock.
Continue(r) ==
  \/ Promote(r) \/ DropPromoted(r) \/ Promoted(r)
  \/ Upload(r) \/ Create(r) \/ Write(r) \/ DropLocal(r)

Listing(g) == ListLocal(g) \/ ListRemote(g) \/ SetRecords(g)

Next ==
  \/ \E r \in Runs : Dump(r) \/ Continue(r)
  \/ \E g \in Lists : List(g)
  \/ \E g \in Goroutines : Listing(g)
  \/ Crash

Spec == Init /\ [][Next]_vars

\* The ticker starts a run again and again, the dump works, and a goroutine
\* that may take a step takes it; faults are finitely many.
FairSpec ==
  /\ Spec
  /\ WF_vars(\E r \in Runs : Dump(r))
  /\ \A r \in Runs : WF_vars(Continue(r) \/ Listing(r))

-----------------------------------------------------------------------------
(* Properties.                                                             *)

Steps == {"idle", "promote", "promoted", "upload", "create", "write", "drop",
          "local", "remote", "records"}

TypeOK ==
  /\ stores \in (SUBSET {"file", "s3"}) \ {{}}
  /\ local \in [Keys -> Content]
  /\ remote \in [Keys -> Content]
  /\ records \in SUBSET Keys
  /\ lock \in Runs \cup {None}
  /\ pc \in [Goroutines -> Steps]
  /\ key \in [Runs -> Keys \cup {None}]
  /\ pending \in [Runs -> SUBSET Keys]
  /\ found \in [Goroutines -> SUBSET Keys]
  /\ clock \in 0..Last
  /\ kept \in SUBSET Keys
  /\ known \in [Goroutines -> SUBSET Keys]
  /\ faults \in 0..MaxFaults

\* A backup that was answered "ok" or "retained" is whole in one of the
\* stores for ever after: promotion (main.go:354), which overwrites the object
\* and deletes the file, failures and crashes never leave only a beginning.
KeptBackups == \A k \in kept : local[k] = "whole" \/ remote[k] = "whole"

\* An emergency copy ends in the bucket, not on the disk alone, once S3 can be
\* reached for a while: later runs look for the copies of all earlier ones
\* (main.go:356), those a stopped process left behind included.
PendingPromoted ==
  \A k \in Keys :
    (stores = {"file", "s3"} /\ local[k] = "whole")
      ~> (local[k] = "none" /\ remote[k] # "none")

\* Records replaced after both stores answered hold every backup that was safe
\* when the refresh began, even one that is promoted during the refresh: the
\* directory is listed before the bucket (main.go:157, 411).
ListingComplete == [][\A g \in Goroutines : SetRecords(g) => known[g] \subseteq records']_vars
=============================================================================
