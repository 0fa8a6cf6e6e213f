---------------------------- MODULE BackupProofs ----------------------------
(***************************************************************************)
(* Proofs about Backup: for any number of goroutines, timestamps, failures *)
(* and crashes.                                                            *)
(***************************************************************************)
EXTENDS Backup, TLAPS

-----------------------------------------------------------------------------
(* The inductive invariant.                                                *)

\* A run that does something holds the lock, and its backup is the latest one.
OneRun ==
  \A r \in Runs : pc[r] # "idle" => lock = r /\ key[r] = clock /\ clock \in Keys

\* What was kept is older than the backup being made.
KeptIsPast ==
  /\ \A k \in kept : k <= clock /\ k # Last
  /\ \A r \in Runs : pc[r] # "idle" => key[r] \notin kept
  /\ \A k \in Keys : k > clock => local[k] = "none"

\* A kept backup is whole on disk, or it is in the bucket and nowhere else.
Safe(k) == local[k] = "whole" \/ (local[k] = "none" /\ remote[k] = "whole")

KeptIsSafe == \A k \in kept : Safe(k)

\* Where the latest backup and the copy being promoted are, step by step.
Progress ==
  \A r \in Runs :
    /\ pc[r] \in {"promote", "promoted", "upload", "create", "drop"} /\ key[r] # Last
         => local[key[r]] = "none"
    /\ pc[r] = "promoted" =>
         \A k \in Keys : k = Least(pending[r]) => remote[k] = local[k]
    /\ pc[r] = "drop" => remote[key[r]] = "whole"
    /\ pc[r] \in {"local", "remote", "records"} /\ key[r] # Last => Safe(key[r])

Inv == TypeOK /\ OneRun /\ KeptIsPast /\ KeptIsSafe /\ Progress

-----------------------------------------------------------------------------
LEMMA InitType == Init => TypeOK
  BY Bounds, Names DEF Init, TypeOK, Keys, Content, Goroutines, Steps

LEMMA ReturnType ==
  ASSUME TypeOK, NEW r \in Runs, Return(r)
  PROVE  /\ lock' \in Runs \cup {None}
         /\ pc' \in [Goroutines -> Steps]
         /\ key' \in [Runs -> Keys \cup {None}]
         /\ pending' \in [Runs -> SUBSET Keys]
  BY DEF Return, TypeOK, Goroutines, Steps

LEMMA RefreshType ==
  ASSUME TypeOK, NEW g \in Goroutines, Refresh(g)
  PROVE  /\ pc' \in [Goroutines -> Steps]
         /\ found' \in [Goroutines -> SUBSET Keys]
         /\ known' \in [Goroutines -> SUBSET Keys]
         /\ records' \in SUBSET Keys
  BY DEF Refresh, Goto, After, TypeOK, Steps

LEMMA DoneType ==
  ASSUME TypeOK, NEW g \in Goroutines, Done(g)
  PROVE  /\ lock' \in Runs \cup {None}
         /\ pc' \in [Goroutines -> Steps]
         /\ key' \in [Runs -> Keys \cup {None}]
         /\ pending' \in [Runs -> SUBSET Keys]
<1>1. CASE g \in Runs
  BY <1>1, ReturnType DEF Done
<1>2. CASE g \notin Runs
  BY <1>2 DEF Done, Goto, TypeOK, Steps
<1> QED BY <1>1, <1>2

LEMMA TypeKept == TypeOK /\ OneRun /\ [Next]_vars => TypeOK'
<1> SUFFICES ASSUME TypeOK, OneRun, [Next]_vars PROVE TypeOK'
  OBVIOUS
<1> USE Bounds, Names DEF disk, refresh
<1>0. Runs \subseteq Goroutines /\ Lists \subseteq Goroutines
  BY DEF Goroutines
<1>1. ASSUME NEW r \in Runs, Dump(r) PROVE TypeOK'
  <2>1. clock' \in Keys /\ clock' \in 0..Last
    BY <1>1 DEF Dump, TypeOK, Keys
  <2>2. key' \in [Runs -> Keys \cup {None}]
    BY <1>1, <2>1 DEF Dump, TypeOK
  <2>3. pending' \in [Runs -> SUBSET Keys]
    BY <1>1 DEF Dump, Copies, Stored, TypeOK
  <2>4. pc' \in [Goroutines -> Steps]
    BY <1>0, <1>1 DEF Dump, Goto, TypeOK, Steps
  <2>5. faults' \in 0..MaxFaults
    BY <1>1 DEF Dump, Fault, TypeOK
  <2> QED
    BY <1>1, <2>1, <2>2, <2>3, <2>4, <2>5 DEF Dump, TakeLock, TypeOK
<1>2. ASSUME NEW r \in Runs, Promote(r) PROVE TypeOK'
  BY <1>0, <1>2 DEF Promote, Fault, Goto, TypeOK, Steps
<1>3. ASSUME NEW r \in Runs, DropPromoted(r) PROVE TypeOK'
  <2> DEFINE k == Least(pending[r])
  <2>0. \/ /\ local' = [local EXCEPT ![k] = "none"]
           /\ pending' = [pending EXCEPT ![r] = pending[r] \ {k}]
        \/ UNCHANGED <<local, pending>>
    BY <1>3 DEF DropPromoted, TypeOK
  <2> HIDE DEF k
  <2>1. local' \in [Keys -> Content]
    BY <2>0 DEF TypeOK, Content
  <2>2. pending' \in [Runs -> SUBSET Keys]
    BY <2>0 DEF TypeOK
  <2>3. pc' \in [Goroutines -> Steps]
    BY <1>0, <1>3 DEF DropPromoted, Goto, TypeOK, Steps
  <2>4. faults' \in 0..MaxFaults
    BY <1>3 DEF DropPromoted, Fault, TypeOK
  <2> QED BY <1>3, <2>1, <2>2, <2>3, <2>4 DEF DropPromoted, TypeOK
<1>4. ASSUME NEW r \in Runs, Promoted(r) PROVE TypeOK'
  BY <1>0, <1>4 DEF Promoted, Goto, TypeOK, Steps
<1>5. ASSUME NEW r \in Runs, Upload(r) PROVE TypeOK'
  BY <1>0, <1>5, ReturnType DEF Upload, Fault, Goto, TypeOK, Steps, Content
<1>6. ASSUME NEW r \in Runs, Create(r) PROVE TypeOK'
  BY <1>0, <1>6, ReturnType DEF Create, Fault, Goto, TypeOK, Steps, Content
<1>7. ASSUME NEW r \in Runs, Write(r) PROVE TypeOK'
  <2>1. local' \in [Keys -> Content]
    BY <1>7 DEF Write, TypeOK, Content
  <2>2. kept' \in SUBSET Keys
    BY <1>7 DEF Write, Keep, OneRun, TypeOK
  <2>3. faults' \in 0..MaxFaults
    BY <1>7 DEF Write, Fault, TypeOK
  <2> QED
    BY <1>0, <1>7, <2>1, <2>2, <2>3, ReturnType, RefreshType DEF Write, TypeOK
<1>8. ASSUME NEW r \in Runs, DropLocal(r) PROVE TypeOK'
  BY <1>0, <1>8, RefreshType DEF DropLocal, Fault, TypeOK, Content
<1>9. ASSUME NEW g \in Lists, List(g) PROVE TypeOK'
  BY <1>0, <1>9, RefreshType DEF List, TypeOK
<1>10. ASSUME NEW g \in Goroutines, ListLocal(g) PROVE TypeOK'
  <2>1. found' \in [Goroutines -> SUBSET Keys]
    BY <1>10 DEF ListLocal, Stored, TypeOK
  <2>2. known' \in [Goroutines -> SUBSET Keys]
    BY <1>10 DEF ListLocal, TypeOK
  <2>3. pc' \in [Goroutines -> Steps]
    BY <1>10 DEF ListLocal, Goto, After, TypeOK, Steps
  <2>4. faults' \in 0..MaxFaults
    BY <1>10 DEF ListLocal, Fault, TypeOK
  <2> QED BY <1>10, <2>1, <2>2, <2>3, <2>4 DEF ListLocal, TypeOK
<1>11. ASSUME NEW g \in Goroutines, ListRemote(g) PROVE TypeOK'
  <2>1. found' \in [Goroutines -> SUBSET Keys]
    BY <1>11 DEF ListRemote, Stored, TypeOK
  <2>2. known' \in [Goroutines -> SUBSET Keys]
    BY <1>11 DEF ListRemote, TypeOK
  <2>3. faults' \in 0..MaxFaults
    BY <1>11 DEF ListRemote, Fault, TypeOK
  <2>4. CASE Done(g)
    BY <1>11, <2>1, <2>2, <2>3, <2>4, DoneType DEF ListRemote, TypeOK
  <2>5. CASE Goto(g, After("remote")) /\ UNCHANGED <<lock, key, pending>>
    <3>1. pc' \in [Goroutines -> Steps]
      BY <2>5 DEF Goto, After, TypeOK, Steps
    <3> QED BY <1>11, <2>1, <2>2, <2>3, <2>5, <3>1 DEF ListRemote, TypeOK
  <2> QED BY <1>11, <2>4, <2>5 DEF ListRemote
<1>12. ASSUME NEW g \in Goroutines, SetRecords(g) PROVE TypeOK'
  <2>1. kept' \in SUBSET Keys
    BY <1>12 DEF SetRecords, Keep, OneRun, TypeOK
  <2>2. records' \in SUBSET Keys
    BY <1>12 DEF SetRecords, TypeOK
  <2> QED BY <1>12, <2>1, <2>2, DoneType DEF SetRecords, TypeOK
<1>13. CASE Crash
  BY <1>13 DEF Crash, Fault, TypeOK, Steps
<1>14. CASE UNCHANGED vars
  BY <1>14 DEF vars, work, TypeOK
<1> QED
  BY <1>1, <1>2, <1>3, <1>4, <1>5, <1>6, <1>7, <1>8, <1>9, <1>10, <1>11, <1>12,
     <1>13, <1>14 DEF Next, Continue, Listing

-----------------------------------------------------------------------------
LEMMA InitInv == Init => Inv
  BY InitType, Bounds DEF Init, Inv, TypeOK, OneRun, KeptIsPast, KeptIsSafe, Progress, Goroutines, Keys

\* The lock keeps the other runs out.
LEMMA OthersIdle ==
  ASSUME OneRun, NEW r \in Runs, pc[r] # "idle", NEW q \in Runs, q # r
  PROVE  pc[q] = "idle"
  BY DEF OneRun

LEMMA DumpKeeps == ASSUME Inv, NEW r \in Runs, Dump(r) PROVE Inv'
<1>1. TypeOK'
  BY TypeKept DEF Inv, Next
<1>2. /\ \A q \in Runs : pc[q] = "idle"
      /\ \A q \in Runs : q # r => pc'[q] = "idle"
      /\ pc'[r] \in {"promote", "create"} /\ lock' = r /\ key'[r] = clock'
  BY Names DEF Inv, TypeOK, OneRun, Goroutines, Dump, TakeLock, Goto
<1>3. /\ clock' \in Keys /\ clock <= clock' /\ UNCHANGED <<local, remote, kept>>
      /\ clock' # Last => clock' = clock + 1
      /\ \A k \in Keys : k > clock' => k > clock
  BY Bounds DEF Inv, TypeOK, Dump, disk, Keys
<1>4. clock' \notin kept
  BY <1>3 DEF Inv, KeptIsPast, TypeOK, Keys
<1>5. clock' # Last => local[clock'] = "none"
  BY <1>3 DEF Inv, KeptIsPast, TypeOK, Keys
<1>6. OneRun'
  BY <1>2, <1>3 DEF OneRun
<1>7. KeptIsPast'
  BY <1>2, <1>3, <1>4 DEF Inv, KeptIsPast, TypeOK, Keys
<1>8. KeptIsSafe'
  BY <1>3 DEF Inv, KeptIsSafe, Safe
<1>9. Progress'
  BY <1>2, <1>3, <1>5 DEF Progress
<1> QED BY <1>1, <1>6, <1>7, <1>8, <1>9 DEF Inv

LEMMA PromoteKeeps == ASSUME Inv, NEW r \in Runs, Promote(r) PROVE Inv'
<1> DEFINE k == Least(pending[r])
<1>1. TypeOK'
  BY TypeKept DEF Inv, Next, Continue
<1>2. /\ pc[r] = "promote" /\ pc'[r] \in {"promoted", "upload"}
      /\ \A q \in Runs : q # r => pc'[q] = "idle"
      /\ UNCHANGED <<local, lock, key, pending, clock, kept>>
  BY OthersIdle, Names DEF Inv, TypeOK, Goroutines, Promote, Goto, refresh
<1>3. /\ remote' = [remote EXCEPT ![k] = local[k]] \/ UNCHANGED remote
      /\ remote' # remote => local[k] # "none"
      /\ pc'[r] = "promoted" => remote' = [remote EXCEPT ![k] = local[k]]
  BY Names DEF Promote, Goto, Inv, TypeOK, Goroutines
<1>4. OneRun' /\ KeptIsPast'
  BY <1>2 DEF Inv, OneRun, KeptIsPast
<1>5. KeptIsSafe'
  BY <1>2, <1>3 DEF Inv, TypeOK, KeptIsSafe, Safe, Content
<1>6. Progress'
  BY <1>2, <1>3 DEF Inv, TypeOK, Progress
<1> QED BY <1>1, <1>4, <1>5, <1>6 DEF Inv

LEMMA DropPromotedKeeps == ASSUME Inv, NEW r \in Runs, DropPromoted(r) PROVE Inv'
<1> DEFINE k == Least(pending[r])
<1>1. TypeOK'
  BY TypeKept DEF Inv, Next, Continue
<1>2. /\ pc[r] = "promoted" /\ pc'[r] \in {"promote", "upload"}
      /\ \A q \in Runs : q # r => pc'[q] = "idle"
      /\ UNCHANGED <<remote, lock, key, clock, kept>>
  BY OthersIdle, Names DEF Inv, TypeOK, Goroutines, DropPromoted, Goto, refresh
<1>3. local' = [local EXCEPT ![k] = "none"] \/ UNCHANGED local
  BY DEF DropPromoted
<1>4. k \in Keys => remote[k] = local[k]
  BY <1>2 DEF Inv, Progress
<1>5. OneRun'
  BY <1>2 DEF Inv, OneRun
<1>6. KeptIsPast'
  BY <1>2, <1>3 DEF Inv, TypeOK, KeptIsPast
<1>7. KeptIsSafe'
  BY <1>2, <1>3, <1>4 DEF Inv, TypeOK, KeptIsSafe, Safe, Content
<1>8. Progress'
  BY <1>2, <1>3 DEF Inv, TypeOK, Progress, OneRun
<1> QED BY <1>1, <1>5, <1>6, <1>7, <1>8 DEF Inv

LEMMA PromotedKeeps == ASSUME Inv, NEW r \in Runs, Promoted(r) PROVE Inv'
<1>1. TypeOK'
  BY TypeKept DEF Inv, Next, Continue
<1>2. /\ pc[r] = "promote" /\ pc'[r] \in {"upload"}
      /\ \A q \in Runs : q # r => pc'[q] = "idle"
      /\ UNCHANGED <<local, remote, lock, key, clock, kept>>
  BY OthersIdle, Names
     DEF Inv, TypeOK, Goroutines, Promoted, Goto, disk, refresh
<1>3. OneRun' /\ KeptIsPast' /\ KeptIsSafe'
  BY <1>2 DEF Inv, OneRun, KeptIsPast, KeptIsSafe, Safe
<1>4. Progress'
  BY <1>2 DEF Inv, Progress
<1> QED BY <1>1, <1>3, <1>4 DEF Inv

LEMMA UploadKeeps == ASSUME Inv, NEW r \in Runs, Upload(r) PROVE Inv'
<1>1. TypeOK'
  BY TypeKept DEF Inv, Next, Continue
<1>2. /\ pc[r] = "upload" /\ pc'[r] \in {"drop", "create", "idle"}
      /\ \A q \in Runs : q # r => pc'[q] = "idle"
      /\ UNCHANGED <<local, clock, kept>>
  BY OthersIdle, Names
     DEF Inv, TypeOK, Goroutines, Upload, Goto, refresh, Return
<1>3. /\ remote' \in {remote, [remote EXCEPT ![key[r]] = "whole"]}
      /\ pc'[r] = "drop" => remote' = [remote EXCEPT ![key[r]] = "whole"]
      /\ pc'[r] # "idle" => UNCHANGED <<lock, key>>
  BY Names DEF Upload, Goto, Return, Inv, TypeOK, Goroutines
<1>4. OneRun' /\ KeptIsPast'
  BY <1>2, <1>3 DEF Inv, OneRun, KeptIsPast
<1>5. KeptIsSafe'
  BY <1>2, <1>3 DEF Inv, TypeOK, KeptIsSafe, Safe
<1>6. Progress'
  BY <1>2, <1>3 DEF Inv, TypeOK, OneRun, Progress
<1> QED BY <1>1, <1>4, <1>5, <1>6 DEF Inv

LEMMA CreateKeeps == ASSUME Inv, NEW r \in Runs, Create(r) PROVE Inv'
<1>1. TypeOK'
  BY TypeKept DEF Inv, Next, Continue
<1>2. /\ pc[r] = "create" /\ pc'[r] \in {"write", "idle"}
      /\ \A q \in Runs : q # r => pc'[q] = "idle"
      /\ UNCHANGED <<remote, clock, kept>>
  BY OthersIdle, Names
     DEF Inv, TypeOK, Goroutines, Create, Goto, refresh, Return
<1>3. /\ local' \in {local, [local EXCEPT ![key[r]] = "part"]}
      /\ pc'[r] # "idle" => UNCHANGED <<lock, key>>
  BY Names DEF Create, Goto, Return, Inv, TypeOK, Goroutines
<1>4. OneRun' /\ KeptIsPast'
  BY <1>2, <1>3, Bounds DEF Inv, TypeOK, OneRun, KeptIsPast, Keys
<1>5. KeptIsSafe'
  BY <1>2, <1>3 DEF Inv, TypeOK, KeptIsPast, KeptIsSafe, Safe
<1>6. Progress'
  BY <1>2 DEF Progress
<1> QED BY <1>1, <1>4, <1>5, <1>6 DEF Inv

LEMMA WriteKeeps == ASSUME Inv, NEW r \in Runs, Write(r) PROVE Inv'
<1>1. TypeOK'
  BY TypeKept DEF Inv, Next, Continue
<1>2. /\ pc[r] = "write" /\ pc'[r] \in {"local", "remote", "idle"}
      /\ \A q \in Runs : q # r => pc'[q] = "idle"
      /\ UNCHANGED <<remote, clock>>
  BY OthersIdle, Names
     DEF Inv, TypeOK, Goroutines, Write, Goto, Refresh, After, Return
<1>3. /\ local' \in {local, [local EXCEPT ![key[r]] = "whole"]}
      /\ \/ UNCHANGED kept
         \/ Keep(r) /\ pc'[r] = "idle" /\ local' = [local EXCEPT ![key[r]] = "whole"]
      /\ pc'[r] # "idle" => /\ local' = [local EXCEPT ![key[r]] = "whole"]
                            /\ UNCHANGED <<lock, key, kept>>
  BY Names DEF Write, Goto, Refresh, After, Return, Inv, TypeOK, Goroutines
<1>4. key[r] \in Keys /\ key[r] = clock /\ key[r] \notin kept
  BY <1>2 DEF Inv, OneRun, KeptIsPast
<1>5. OneRun'
  BY <1>2, <1>3 DEF Inv, OneRun
<1>6. KeptIsPast'
  <2>1. \A k \in kept' : k <= clock /\ k # Last
    <3>1. clock <= clock
      BY DEF Inv, TypeOK
    <3> QED BY <1>3, <1>4, <3>1 DEF Inv, KeptIsPast, Keep
  <2>2. \A q \in Runs : pc'[q] # "idle" => key'[q] \notin kept'
    BY <1>2, <1>3 DEF Inv, KeptIsPast
  <2>3. ASSUME NEW k \in Keys, k > clock PROVE local'[k] = "none"
    <3>1. k # key[r]
      BY <1>4, <2>3 DEF Keys
    <3> QED BY <1>3, <2>3, <3>1 DEF Inv, TypeOK, KeptIsPast
  <2> QED BY <1>2, <2>1, <2>2, <2>3 DEF KeptIsPast
<1>7. KeptIsSafe'
  BY <1>2, <1>3, <1>4 DEF Inv, TypeOK, KeptIsSafe, Safe, Keep
<1>8. Progress'
  BY <1>2, <1>3, <1>4 DEF Inv, TypeOK, Progress, Safe
<1> QED BY <1>1, <1>5, <1>6, <1>7, <1>8 DEF Inv

LEMMA DropLocalKeeps == ASSUME Inv, NEW r \in Runs, DropLocal(r) PROVE Inv'
<1>1. TypeOK'
  BY TypeKept DEF Inv, Next, Continue
<1>2. /\ pc[r] = "drop" /\ pc'[r] \in {"local", "remote"}
      /\ \A q \in Runs : q # r => pc'[q] = "idle"
      /\ UNCHANGED <<remote, lock, key, clock, kept>>
  BY OthersIdle, Names
     DEF Inv, TypeOK, Goroutines, DropLocal, Goto, Refresh, After
<1>3. local' \in {local, [local EXCEPT ![key[r]] = "none"]}
  BY DEF DropLocal
<1>4. key[r] \in Keys /\ key[r] \notin kept /\ remote[key[r]] = "whole"
  BY <1>2 DEF Inv, OneRun, KeptIsPast, Progress
<1>5. OneRun' /\ KeptIsPast'
  BY <1>2, <1>3 DEF Inv, TypeOK, OneRun, KeptIsPast
<1>6. KeptIsSafe'
  BY <1>2, <1>3, <1>4 DEF Inv, TypeOK, KeptIsSafe, Safe
<1>7. Progress'
  BY <1>2, <1>3, <1>4 DEF Inv, TypeOK, Progress, Safe
<1> QED BY <1>1, <1>5, <1>6, <1>7 DEF Inv

LEMMA ListKeeps == ASSUME Inv, NEW g \in Lists, List(g) PROVE Inv'
<1>1. TypeOK'
  BY TypeKept DEF Inv, Next
<1>2. /\ \A r \in Runs : pc'[r] = pc[r]
      /\ UNCHANGED <<local, remote, lock, key, pending, clock, kept>>
  BY Names DEF List, Refresh, Goto, disk, Inv, TypeOK, Goroutines
<1>3. OneRun' /\ KeptIsPast' /\ KeptIsSafe'
  BY <1>2 DEF Inv, OneRun, KeptIsPast, KeptIsSafe, Safe
<1>4. Progress'
  BY <1>2 DEF Inv, Progress, Safe
<1> QED BY <1>1, <1>3, <1>4 DEF Inv

LEMMA ListingKeeps == ASSUME Inv, NEW g \in Goroutines, Listing(g) PROVE Inv'
<1>1. TypeOK'
  BY TypeKept DEF Inv, Next
<1>2. CASE ListLocal(g) \/ (ListRemote(g) /\ ~Done(g))
  <2>1. /\ UNCHANGED <<local, remote, lock, key, pending, clock, kept>>
        /\ \A r \in Runs : r # g => pc'[r] = pc[r]
        /\ g \in Runs => /\ pc[g] \in {"local", "remote"}
                         /\ pc'[g] \in {"remote", "records"}
    BY <1>2 DEF ListLocal, ListRemote, Goto, After, disk, Inv, TypeOK, Goroutines
  <2>2. OneRun' /\ KeptIsPast' /\ KeptIsSafe'
    BY <2>1 DEF Inv, OneRun, KeptIsPast, KeptIsSafe, Safe
  <2>3. Progress'
    BY <2>1 DEF Inv, Progress, Safe
  <2> QED BY <1>1, <2>2, <2>3 DEF Inv
<1>3. CASE (ListRemote(g) \/ SetRecords(g)) /\ Done(g)
  <2>1. /\ UNCHANGED <<local, remote, clock>>
        /\ \A r \in Runs : r # g => pc'[r] = pc[r]
        /\ g \in Runs => /\ pc[g] \in {"remote", "records"} /\ pc'[g] = "idle"
                         /\ \A r \in Runs : r # g => pc[r] = "idle"
        /\ g \notin Runs => UNCHANGED <<lock, key, pending>>
        /\ UNCHANGED kept \/ (g \in Runs /\ Keep(g))
    BY <1>3, OthersIdle
       DEF ListRemote, SetRecords, Done, Return, Goto, disk, Inv, TypeOK, Goroutines
  <2>2. g \in Runs =>
          /\ key[g] \in Keys /\ key[g] = clock
          /\ key[g] # Last => Safe(key[g])
    BY <2>1 DEF Inv, OneRun, Progress
  <2>3. OneRun'
    BY <2>1 DEF Inv, OneRun
  <2>4. KeptIsPast'
    <3>1. \A k \in kept' : k <= clock /\ k # Last
      <4>1. clock <= clock
        BY DEF Inv, TypeOK
      <4> QED BY <2>1, <2>2, <4>1 DEF Inv, KeptIsPast, Keep
    <3>2. \A q \in Runs : pc'[q] # "idle" => key'[q] \notin kept'
      BY <2>1 DEF Inv, KeptIsPast
    <3> QED BY <2>1, <3>1, <3>2 DEF Inv, KeptIsPast
  <2>5. KeptIsSafe'
    BY <2>1, <2>2 DEF Inv, KeptIsSafe, Safe, Keep
  <2>6. Progress'
    BY <2>1 DEF Inv, Progress, Safe
  <2> QED BY <1>1, <2>3, <2>4, <2>5, <2>6 DEF Inv
<1> QED BY <1>2, <1>3 DEF Listing, SetRecords

LEMMA InvKept == Inv /\ [Next]_vars => Inv'
<1> SUFFICES ASSUME Inv, [Next]_vars PROVE Inv'
  OBVIOUS
<1>1. CASE Crash
  <2>1. TypeOK'
    BY <1>1, TypeKept DEF Inv, Next
  <2>2. (\A r \in Runs : pc'[r] = "idle") /\ UNCHANGED <<local, remote, clock, kept>>
    BY <1>1 DEF Crash, disk, Goroutines
  <2> QED
    BY <2>1, <2>2 DEF Inv, OneRun, KeptIsPast, KeptIsSafe, Safe, Progress
<1>2. CASE UNCHANGED vars
  <2>1. TypeOK'
    BY <1>2, TypeKept DEF Inv
  <2> QED
    BY <1>2, <2>1
       DEF vars, disk, work, Inv, OneRun, KeptIsPast, KeptIsSafe, Safe, Progress
<1> QED
  BY <1>1, <1>2, DumpKeeps, PromoteKeeps, DropPromotedKeeps, PromotedKeeps,
     UploadKeeps, CreateKeeps, WriteKeeps, DropLocalKeeps, ListKeeps, ListingKeeps
     DEF Next, Continue

THEOREM Invariance == Spec => []Inv
  BY InitInv, InvKept, PTL DEF Spec

\* Of a backup that was answered "ok" or "retained" a whole copy is in one of
\* the stores for ever after, for any number of runs, failures and crashes.
THEOREM KeptSafe == Spec => []KeptBackups
<1>1. Inv => KeptBackups
  BY DEF Inv, KeptIsSafe, Safe, KeptBackups
<1> QED BY <1>1, Invariance, PTL

-----------------------------------------------------------------------------
(* The records.                                                            *)

\* Only configured stores are used.
StoresUsed ==
  /\ \A r \in Runs : pc[r] \in {"create", "write"} => "file" \in stores
  /\ \A r \in Runs : pc[r] \in {"promote", "promoted", "upload"} => "s3" \in stores
  /\ "file" \notin stores => \A k \in Keys : local[k] = "none"
  /\ "s3" \notin stores => \A k \in Keys : remote[k] = "none"

\* What was safe when a refresh began has been listed, or is where the
\* refresh has still to look.
Known ==
  \A g \in Goroutines :
    /\ pc[g] = "local" => known[g] \subseteq kept
    /\ pc[g] = "remote" => \A k \in known[g] : k \in found[g] \/ remote[k] # "none"
    /\ pc[g] = "records" => known[g] \subseteq found[g]

LEMMA SomeStore == TypeOK => "file" \in stores \/ "s3" \in stores
<1> SUFFICES ASSUME TypeOK, "file" \notin stores, "s3" \notin stores PROVE FALSE
  OBVIOUS
<1>1. stores \in SUBSET {"file", "s3"} /\ stores # {}
  BY DEF TypeOK
<1>2. PICK s \in stores : TRUE
  BY <1>1
<1> QED BY <1>1, <1>2

LEMMA StoresKept == Inv /\ StoresUsed /\ [Next]_vars => StoresUsed'
<1> SUFFICES ASSUME Inv, StoresUsed, [Next]_vars PROVE StoresUsed'
  OBVIOUS
<1> USE Names DEF StoresUsed, Inv, TypeOK, Goroutines, Goto, disk, refresh
<1>1. ASSUME NEW r \in Runs, Dump(r) PROVE StoresUsed'
  <2>1. "file" \in stores \/ "s3" \in stores
    BY SomeStore
  <2>2. \A q \in Runs : q # r => pc'[q] = pc[q]
    BY <1>1 DEF Dump
  <2>3. pc'[r] = IF "s3" \in stores THEN "promote" ELSE "create"
    BY <1>1 DEF Dump
  <2>4. UNCHANGED <<stores, local, remote>>
    BY <1>1 DEF Dump
  <2> QED BY <2>1, <2>2, <2>3, <2>4
<1>2. ASSUME NEW r \in Runs, Promote(r) PROVE StoresUsed'
  BY <1>2 DEF Promote
<1>3. ASSUME NEW r \in Runs, DropPromoted(r) PROVE StoresUsed'
  BY <1>3 DEF DropPromoted
<1>4. ASSUME NEW r \in Runs, Promoted(r) PROVE StoresUsed'
  BY <1>4 DEF Promoted
<1>5. ASSUME NEW r \in Runs, Upload(r) PROVE StoresUsed'
  BY <1>5 DEF Upload, Return
<1>6. ASSUME NEW r \in Runs, Create(r) PROVE StoresUsed'
  BY <1>6 DEF Create, Return
<1>7. ASSUME NEW r \in Runs, Write(r) PROVE StoresUsed'
  BY <1>7 DEF Write, Return, Refresh, After
<1>8. ASSUME NEW r \in Runs, DropLocal(r) PROVE StoresUsed'
  BY <1>8 DEF DropLocal, Refresh, After
<1>9. ASSUME NEW g \in Lists, List(g) PROVE StoresUsed'
  BY <1>9 DEF List, Refresh, After
<1>10. ASSUME NEW g \in Goroutines, Listing(g) PROVE StoresUsed'
  BY <1>10 DEF Listing, ListLocal, ListRemote, SetRecords, Done, Return, After
<1>11. CASE Crash
  BY <1>11 DEF Crash
<1>12. CASE UNCHANGED vars
  BY <1>12 DEF vars, work
<1> QED
  BY <1>1, <1>2, <1>3, <1>4, <1>5, <1>6, <1>7, <1>8, <1>9, <1>10, <1>11, <1>12
     DEF Next, Continue

\* A step that starts and ends no part of a refresh.
LEMMA NoRefresh ==
  ASSUME Known, UNCHANGED <<found, known>>,
         \A g \in Goroutines : pc'[g] \in {"local", "remote", "records"} => pc'[g] = pc[g],
         kept \subseteq kept',
         \A k \in Keys : remote[k] # "none" => remote'[k] # "none",
         TypeOK
  PROVE  Known'
  BY DEF Known, TypeOK

\* A refresh begins where what is safe is.
LEMMA RefreshBegins ==
  ASSUME Inv, StoresUsed, Known, NEW g \in Goroutines, Refresh(g),
         UNCHANGED <<kept, remote>>
  PROVE  Known'
<1>1. /\ \A h \in Goroutines : h # g => /\ pc'[h] = pc[h] /\ known'[h] = known[h]
                                        /\ found'[h] = found[h]
      /\ pc'[g] \in {"local", "remote"} /\ known'[g] = kept
      /\ pc'[g] = "remote" => "file" \notin stores
  BY DEF Refresh, Goto, After, Inv, TypeOK
<1>2. "file" \notin stores => \A k \in kept : remote[k] # "none"
  BY DEF Inv, TypeOK, KeptIsSafe, Safe, StoresUsed
<1> QED BY <1>1, <1>2 DEF Known

LEMMA KnownKept == Inv /\ StoresUsed /\ Known /\ [Next]_vars => Known'
<1> SUFFICES ASSUME Inv, StoresUsed, Known, [Next]_vars PROVE Known'
  OBVIOUS
<1>0. TypeOK /\ Runs \subseteq Goroutines /\ Lists \subseteq Goroutines
  BY DEF Inv, Goroutines
<1>1. ASSUME NEW r \in Runs, Dump(r) PROVE Known'
  BY <1>0, <1>1, NoRefresh DEF Dump, Goto, TypeOK, disk, refresh
<1>2. ASSUME NEW r \in Runs, Promote(r) \/ DropPromoted(r) \/ Promoted(r) PROVE Known'
  <2>1. /\ \A g \in Goroutines : g # r => pc'[g] = pc[g]
        /\ pc'[r] \notin {"local", "remote", "records"}
    BY <1>0, <1>2 DEF Promote, DropPromoted, Promoted, Goto, TypeOK
  <2>2. UNCHANGED <<found, known, kept>>
    BY <1>2 DEF Promote, DropPromoted, Promoted, refresh
  <2>3. \A k \in Keys : remote[k] # "none" => remote'[k] # "none"
    <3> DEFINE l == Least(pending[r])
    <3>1. UNCHANGED remote \/ (local[l] # "none" /\ remote' = [remote EXCEPT ![l] = local[l]])
      BY <1>2 DEF Promote, DropPromoted, Promoted, disk
    <3> HIDE DEF l
    <3> QED BY <1>0, <3>1 DEF TypeOK
  <2> QED BY <1>0, <2>1, <2>2, <2>3, NoRefresh
<1>3. ASSUME NEW r \in Runs, Upload(r) \/ Create(r) PROVE Known'
  <2>1. /\ \A g \in Goroutines : g # r => pc'[g] = pc[g]
        /\ pc'[r] \notin {"local", "remote", "records"}
    BY <1>0, <1>3 DEF Upload, Create, Return, Goto, TypeOK
  <2>2. UNCHANGED <<found, known, kept>>
    BY <1>3 DEF Upload, Create, refresh
  <2>3. \A k \in Keys : remote[k] # "none" => remote'[k] # "none"
    <3>1. remote' \in {remote, [remote EXCEPT ![key[r]] = "whole"]}
      BY <1>3 DEF Upload, Create
    <3> QED BY <1>0, <3>1 DEF TypeOK
  <2> QED BY <1>0, <2>1, <2>2, <2>3, NoRefresh
<1>4. ASSUME NEW r \in Runs, Write(r) PROVE Known'
  <2>1. CASE Refresh(r) /\ UNCHANGED kept
    BY <1>0, <1>4, <2>1, RefreshBegins DEF Write
  <2>2. CASE Return(r) /\ UNCHANGED refresh /\ (Keep(r) \/ UNCHANGED kept)
    BY <1>0, <1>4, <2>2, NoRefresh DEF Write, Return, Keep, TypeOK, refresh
  <2> QED BY <1>4, <2>1, <2>2 DEF Write
<1>5. ASSUME NEW r \in Runs, DropLocal(r) PROVE Known'
  BY <1>0, <1>5, RefreshBegins DEF DropLocal
<1>6. ASSUME NEW g \in Lists, List(g) PROVE Known'
  BY <1>0, <1>6, RefreshBegins DEF List, disk
<1>7. ASSUME NEW g \in Goroutines, ListLocal(g) PROVE Known'
  <2>1. /\ \A h \in Goroutines : h # g => /\ pc'[h] = pc[h] /\ known'[h] = known[h]
                                          /\ found'[h] = found[h]
        /\ pc[g] = "local"
        /\ pc'[g] = IF "s3" \in stores THEN "remote" ELSE "records"
        /\ UNCHANGED <<kept, remote>>
        /\ known'[g] = {} \/ (known'[g] = known[g] /\ Stored(local) \subseteq found'[g])
    BY <1>7 DEF ListLocal, Goto, After, Inv, TypeOK, disk
  <2>2. \A k \in known[g] : k \in Stored(local) \/ ("s3" \in stores /\ remote[k] # "none")
    BY <2>1 DEF Known, Inv, TypeOK, KeptIsSafe, Safe, StoresUsed, Stored
  <2> QED BY <2>1, <2>2 DEF Known
<1>8. ASSUME NEW g \in Goroutines, ListRemote(g) PROVE Known'
  <2>1. /\ \A h \in Goroutines : h # g => /\ pc'[h] = pc[h] /\ known'[h] = known[h]
                                          /\ found'[h] = found[h]
        /\ pc[g] = "remote" /\ pc'[g] \in {"records", "idle"}
        /\ UNCHANGED <<kept, remote>>
        /\ \/ known'[g] = {}
           \/ known'[g] = known[g] /\ found'[g] = found[g] \cup Stored(remote)
    BY <1>8 DEF ListRemote, Done, Return, Goto, After, Inv, TypeOK, disk
  <2>2. \A k \in known[g] : k \in found[g] \cup Stored(remote)
    BY <2>1 DEF Known, Stored, Inv, TypeOK
  <2> QED BY <2>1, <2>2 DEF Known
<1>9. ASSUME NEW g \in Goroutines, SetRecords(g) PROVE Known'
  BY <1>0, <1>9, NoRefresh DEF SetRecords, Done, Return, Keep, Goto, TypeOK, disk
<1>10. CASE Crash
  BY <1>10 DEF Crash, Known
<1>11. CASE UNCHANGED vars
  BY <1>0, <1>11, NoRefresh DEF vars, disk, work, refresh
<1> QED
  BY <1>1, <1>2, <1>3, <1>4, <1>5, <1>6, <1>7, <1>8, <1>9, <1>10, <1>11
     DEF Next, Continue, Listing

\* The records a refresh leaves hold all that was safe when it began and that
\* the stores let it see, whatever backup promotes meanwhile.
THEOREM RecordsComplete == Spec => ListingComplete
<1>1. Init => StoresUsed /\ Known
  BY DEF Init, StoresUsed, Known, Goroutines
<1>2. Inv /\ Known /\ [Next]_vars
        => [\A g \in Goroutines : SetRecords(g) => known[g] \subseteq records']_vars
  BY DEF Known, SetRecords
<1> QED
  BY <1>1, <1>2, Invariance, StoresKept, KnownKept, PTL DEF Spec, ListingComplete
=============================================================================
