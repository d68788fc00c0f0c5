------------------------- MODULE PluginStoreProofs -------------------------
(***************************************************************************)
(* Proofs about the store of the Codex plugin, for any numbers of calls,    *)
(* requests, files and deaths: its lock files (FileLock), then the facts,   *)
(* receipts and state of a loop (LoopControl), and last the types of both.  *)
(***************************************************************************)
EXTENDS FileLock, LoopControl, FiniteSetTheorems, TLAPS

-----------------------------------------------------------------------------
(* The lock files.                                                          *)

Place ==
  {"try", "stat", "guard", "hold", "remove", "out", "dead",
   "guard_stat", "guard_read", "guard_move", "guard_moved", "guard_back",
   "check", "owner", "own", "final", "unlink", "clean", "clean_guard"}

IsFile(f) == f = [ino |-> f.ino, token |-> f.token, by |-> f.by, old |-> f.old]

LockShape ==
  /\ at \in [Proc -> Place]
  /\ mine \in [Proc -> Nat] /\ tokens \in Nat
  /\ IsFile(lockFile) /\ IsFile(guardFile)
  /\ aside = [p \in Proc |-> aside[p]] /\ \A p \in Proc : IsFile(aside[p])

-----------------------------------------------------------------------------
(* Whose the files are.                                                     *)

UnderGuard == {"check", "owner", "own", "final", "unlink", "clean", "clean_guard"}

(* The lock is of the call that runs under it.                             *)
LockHeld ==
  \A p \in Proc : at[p] \in {"hold", "remove"} =>
    lockFile # NoFile /\ lockFile.by = p /\ lockFile.token = mine[p]
(* The guard is of the call that reclaims under it.                        *)
GuardHeld ==
  \A p \in Proc : at[p] \in UnderGuard => guardFile # NoFile /\ guardFile.by = p
(* From the moment the owner was found dead until the lock is removed, the *)
(* lock is of a dead owner: no other call may take its place, so that the   *)
(* inode number compared last is one the dead owner still holds.            *)
OwnerDead ==
  \A p \in Proc : at[p] \in {"own", "final", "unlink"} =>
    lockFile # NoFile /\ ~Alive(lockFile)

Rightful == LockHeld /\ GuardHeld /\ OwnerDead
LockInv == LockShape /\ (displaced \/ Rightful)

(* A new file is not the missing one, and is its publisher's.               *)
LEMMA NewFileIs ==
  ASSUME NEW p \in Proc, LockShape
  PROVE  /\ NewFile(p) # NoFile /\ NewFile(p).by = p /\ NewFile(p).token = tokens + 1
         /\ IsFile(NewFile(p))
<1> DEFINE i == CHOOSE i \in Inode \ InUse : \A j \in Inode \ InUse : i <= j
<1>1. NewFile(p) = [ino |-> i, token |-> tokens + 1, by |-> p, old |-> FALSE]
  BY DEF NewFile
<1> HIDE DEF i
<1>2. tokens + 1 # 0
  BY DEF LockShape
<1> QED BY <1>1, <1>2 DEF NoFile, IsFile


(* Only the call that steps changes its place; a step to any place but      *)
(* "dead" leaves the dead as they are.                                      *)
LEMMA OnlyItself ==
  ASSUME NEW p \in Proc, NEW here, NEW there \in Place, LockShape, Goes(p, here, there)
  PROVE  /\ at[p] = here /\ at'[p] = there
         /\ at' \in [Proc -> Place]
         /\ \A q \in Proc : q # p => at'[q] = at[q]
         /\ here # "dead" /\ there # "dead" => Dead' = Dead
         /\ there = "dead" => Dead' = Dead \cup {p}
BY DEF Goes, LockShape, Dead

(* A step that touches no file keeps what holds, if it enters the lock, the *)
(* guard or the end of a reclaim only from there, or with an owner that is  *)
(* dead.                                                                    *)
LEMMA QuietStep ==
  ASSUME NEW p \in Proc, NEW here, NEW there \in Place, LockInv,
         Goes(p, here, there), KeepsFiles, here # "dead",
         mine' = mine \/ (mine' = [mine EXCEPT ![p] = 0] /\ there \notin {"hold", "remove"}),
         there \in {"hold", "remove"} => here = "hold",
         there \in UnderGuard => here \in UnderGuard,
         there \in {"own", "final", "unlink"} =>
           here \in {"own", "final"} \/ (lockFile # NoFile /\ ~Alive(lockFile))
  PROVE  LockInv'
<1>1. /\ at[p] = here /\ at'[p] = there /\ at' \in [Proc -> Place]
      /\ \A q \in Proc : q # p => at'[q] = at[q]
      /\ Dead \subseteq Dead'
  BY OnlyItself DEF LockInv
<1>2. UNCHANGED <<lockFile, guardFile, aside, tokens, displaced>>
  BY DEF KeepsFiles
<1>3. mine' \in [Proc -> Nat] /\ \A q \in Proc : q # p => mine'[q] = mine[q]
  BY DEF LockInv, LockShape
<1>4. LockShape'
  BY <1>1, <1>2, <1>3 DEF LockInv, LockShape, IsFile
<1>5. ASSUME LockHeld, GuardHeld, OwnerDead PROVE (LockHeld /\ GuardHeld /\ OwnerDead)'
  <2>1. LockHeld'
    BY <1>1, <1>2, <1>3, <1>5 DEF LockHeld, NoFile
  <2>2. GuardHeld'
    BY <1>1, <1>2, <1>5 DEF GuardHeld, NoFile, UnderGuard
  <2>3. ~Alive(lockFile) => ~Alive(lockFile)'
    BY <1>1, <1>2 DEF Alive
  <2>4. OwnerDead'
    BY <1>1, <1>2, <1>5, <2>3 DEF OwnerDead, NoFile
  <2> QED BY <2>1, <2>2, <2>4
<1> QED BY <1>2, <1>4, <1>5 DEF LockInv, Rightful

(* withFileLock: the lock is taken, given up, and removed by who has it.    *)
LEMMA AcquireKeeps ==
  ASSUME LockInv, NEW p \in Proc, Acquire(p) PROVE LockInv'
<1>1. /\ at[p] = "try" /\ at'[p] = "hold" /\ at' \in [Proc -> Place]
      /\ \A q \in Proc : q # p => at'[q] = at[q]
      /\ Dead' = Dead
  BY OnlyItself DEF LockInv, Acquire, Place
<1>2. /\ lockFile = NoFile /\ lockFile' # NoFile /\ lockFile'.by = p
      /\ lockFile'.token = tokens + 1 /\ IsFile(lockFile')
  BY NewFileIs DEF LockInv, Acquire
<1>3. /\ mine' = [mine EXCEPT ![p] = tokens + 1] /\ tokens' = tokens + 1
      /\ UNCHANGED <<guardFile, aside, seen, displaced>>
  BY DEF Acquire
<1>4. LockShape'
  BY <1>1, <1>2, <1>3 DEF LockInv, LockShape, IsFile
<1>5. ASSUME LockHeld, GuardHeld, OwnerDead PROVE (LockHeld /\ GuardHeld /\ OwnerDead)'
  <2>1. LockHeld'
    BY <1>1, <1>2, <1>3, <1>5 DEF LockHeld, NoFile, LockInv, LockShape
  <2>2. GuardHeld'
    BY <1>1, <1>3, <1>5 DEF GuardHeld, NoFile, UnderGuard
  <2>3. OwnerDead'
    BY <1>1, <1>2, <1>5 DEF OwnerDead, NoFile
  <2> QED BY <2>1, <2>2, <2>3
<1> QED BY <1>3, <1>4, <1>5 DEF LockInv, Rightful

LEMMA RemovesKeeps ==
  ASSUME LockInv, NEW p \in Proc, Removes(p) PROVE LockInv'
<1>1. /\ at[p] = "remove" /\ at'[p] = "out" /\ at' \in [Proc -> Place]
      /\ \A q \in Proc : q # p => at'[q] = at[q]
      /\ Dead' = Dead
  BY OnlyItself DEF LockInv, Removes, Starts, Place
<1>2. /\ lockFile' = NoFile /\ mine' = [mine EXCEPT ![p] = 0]
      /\ UNCHANGED <<guardFile, aside, tokens, displaced>>
  BY DEF Removes, Starts
<1>3. LockShape'
  BY <1>1, <1>2 DEF LockInv, LockShape, IsFile, NoFile
<1>4. ASSUME LockHeld, GuardHeld, OwnerDead PROVE (LockHeld /\ GuardHeld /\ OwnerDead)'
  <2>1. lockFile.by = p /\ Alive(lockFile)
    BY <1>1, <1>4 DEF LockHeld, Alive, Dead
  <2>2. LockHeld'
    BY <1>1, <1>4, <2>1 DEF LockHeld
  <2>3. GuardHeld'
    BY <1>1, <1>2, <1>4 DEF GuardHeld, NoFile, UnderGuard
  <2>4. OwnerDead'
    BY <1>1, <1>4, <2>1 DEF OwnerDead
  <2> QED BY <2>2, <2>3, <2>4
<1> QED BY <1>2, <1>3, <1>4 DEF LockInv, Rightful

(* tryReclaimStaleLock: one guard at a time, taken, lost only when moved    *)
(* away, and removed by who has it.                                         *)
LEMMA TakesGuardKeeps ==
  ASSUME LockInv, NEW p \in Proc, TakesGuard(p) PROVE LockInv'
<1>1. /\ at[p] = "guard" /\ at'[p] = "check" /\ at' \in [Proc -> Place]
      /\ \A q \in Proc : q # p => at'[q] = at[q]
      /\ Dead' = Dead
  BY OnlyItself DEF LockInv, TakesGuard, Place
<1>2. /\ guardFile = NoFile /\ guardFile' # NoFile /\ guardFile'.by = p
      /\ IsFile(guardFile')
  BY NewFileIs DEF LockInv, TakesGuard
<1>3. /\ mine' = [mine EXCEPT ![p] = tokens + 1] /\ tokens' = tokens + 1
      /\ UNCHANGED <<lockFile, aside, seen, displaced>>
  BY DEF TakesGuard
<1>4. LockShape'
  BY <1>1, <1>2, <1>3 DEF LockInv, LockShape, IsFile
<1>5. ASSUME LockHeld, GuardHeld, OwnerDead PROVE (LockHeld /\ GuardHeld /\ OwnerDead)'
  <2>1. LockHeld'
    BY <1>1, <1>3, <1>5 DEF LockHeld, NoFile, LockInv, LockShape
  <2>2. GuardHeld'
    BY <1>1, <1>2, <1>5 DEF GuardHeld, NoFile
  <2>3. OwnerDead'
    BY <1>1, <1>3, <1>5 DEF OwnerDead, NoFile, Alive
  <2> QED BY <2>1, <2>2, <2>3
<1> QED BY <1>3, <1>4, <1>5 DEF LockInv, Rightful

(* tryReclaimStaleGuard: a guard in use is lost here only.                   *)
LEMMA MovesGuardKeeps ==
  ASSUME LockInv, NEW p \in Proc, guardFile # NoFile, MovesGuard(p) PROVE LockInv'
<1>1. /\ at[p] = "guard_move" /\ at'[p] = "guard_moved" /\ at' \in [Proc -> Place]
      /\ \A q \in Proc : q # p => at'[q] = at[q]
      /\ Dead' = Dead
  BY OnlyItself DEF LockInv, MovesGuard, Steps, Place
<1>2. /\ guardFile' = NoFile /\ aside' = [aside EXCEPT ![p] = guardFile]
      /\ displaced' = (displaced \/ Alive(guardFile))
      /\ UNCHANGED <<lockFile, mine, tokens>>
  BY DEF MovesGuard, Steps
<1>3. LockShape'
  BY <1>1, <1>2 DEF LockInv, LockShape, IsFile, NoFile
<1>4. ASSUME LockHeld, GuardHeld, OwnerDead, ~Alive(guardFile)
      PROVE (LockHeld /\ GuardHeld /\ OwnerDead)'
  <2>1. LockHeld'
    BY <1>1, <1>2, <1>4 DEF LockHeld, NoFile
  <2>2. \A q \in Proc : at[q] \notin UnderGuard
    BY <1>4 DEF GuardHeld, Alive, Dead, UnderGuard
  <2>3. GuardHeld'
    BY <1>1, <2>2 DEF GuardHeld, UnderGuard
  <2>4. OwnerDead'
    BY <1>1, <1>2, <1>4 DEF OwnerDead, NoFile, Alive
  <2> QED BY <2>1, <2>3, <2>4
<1> QED BY <1>2, <1>3, <1>4 DEF LockInv, Rightful

LEMMA JudgesGuardKeeps ==
  ASSUME LockInv, NEW p \in Proc, JudgesGuard(p), ~KeepsFiles PROVE LockInv'
<1>1. PICK there \in {"try", "guard"} :
        /\ Goes(p, "guard_moved", there)
        /\ mine' = mine \/ mine' = [mine EXCEPT ![p] = 0]
  BY DEF JudgesGuard, Again, Starts
<1>2. /\ at[p] = "guard_moved" /\ at'[p] = there /\ at' \in [Proc -> Place]
      /\ \A q \in Proc : q # p => at'[q] = at[q]
      /\ Dead' = Dead
  BY <1>1, OnlyItself DEF LockInv, Place
<1>3. aside' = [aside EXCEPT ![p] = NoFile] /\ UNCHANGED <<lockFile, guardFile, tokens, displaced>>
  BY DEF JudgesGuard
<1>4. LockShape'
  <2>1. mine' \in [Proc -> Nat]
    BY <1>1 DEF LockInv, LockShape
  <2>2. aside' = [q \in Proc |-> aside'[q]] /\ \A q \in Proc : IsFile(aside'[q])
    BY <1>3 DEF LockInv, LockShape, IsFile, NoFile
  <2> QED BY <1>2, <1>3, <2>1, <2>2 DEF LockInv, LockShape, IsFile
<1>5. ASSUME LockHeld, GuardHeld, OwnerDead PROVE (LockHeld /\ GuardHeld /\ OwnerDead)'
  <2>1. LockHeld'
    BY <1>1, <1>2, <1>3, <1>5 DEF LockHeld, NoFile, LockInv, LockShape
  <2>2. GuardHeld'
    BY <1>2, <1>3, <1>5 DEF GuardHeld, NoFile, UnderGuard
  <2>3. OwnerDead'
    BY <1>2, <1>3, <1>5 DEF OwnerDead, NoFile, Alive
  <2> QED BY <2>1, <2>2, <2>3
<1> QED BY <1>3, <1>4, <1>5 DEF LockInv, Rightful

LEMMA RestoresGuardKeeps ==
  ASSUME LockInv, NEW p \in Proc, RestoresGuard(p) PROVE LockInv'
<1>1. /\ at[p] = "guard_back" /\ at'[p] = "try" /\ at' \in [Proc -> Place]
      /\ \A q \in Proc : q # p => at'[q] = at[q]
      /\ Dead' = Dead
  BY OnlyItself DEF LockInv, RestoresGuard, Starts, Place
<1>2. /\ guardFile' = IF guardFile = NoFile THEN aside[p] ELSE guardFile
      /\ aside' = [aside EXCEPT ![p] = NoFile] /\ mine' = [mine EXCEPT ![p] = 0]
      /\ UNCHANGED <<lockFile, tokens, displaced>>
  BY DEF RestoresGuard, Starts
<1>3. LockShape'
  BY <1>1, <1>2 DEF LockInv, LockShape, IsFile, NoFile
<1>4. ASSUME LockHeld, GuardHeld, OwnerDead PROVE (LockHeld /\ GuardHeld /\ OwnerDead)'
  <2>1. LockHeld'
    BY <1>1, <1>2, <1>4 DEF LockHeld, NoFile, LockInv, LockShape
  <2>2. GuardHeld'
    BY <1>1, <1>2, <1>4 DEF GuardHeld, NoFile, UnderGuard
  <2>3. OwnerDead'
    BY <1>1, <1>2, <1>4 DEF OwnerDead, NoFile, Alive
  <2> QED BY <2>1, <2>2, <2>3
<1> QED BY <1>2, <1>3, <1>4 DEF LockInv, Rightful

LEMMA UnlinksLockKeeps ==
  ASSUME LockInv, NEW p \in Proc, UnlinksLock(p) PROVE LockInv'
<1>1. /\ at[p] = "unlink" /\ at'[p] = "clean" /\ at' \in [Proc -> Place]
      /\ \A q \in Proc : q # p => at'[q] = at[q]
      /\ Dead' = Dead
  BY OnlyItself DEF LockInv, UnlinksLock, Steps, Place
<1>2. lockFile' = NoFile /\ UNCHANGED <<mine, guardFile, aside, tokens, displaced>>
  BY DEF UnlinksLock, Steps
<1>3. LockShape'
  BY <1>1, <1>2 DEF LockInv, LockShape, IsFile, NoFile
<1>4. ASSUME LockHeld, GuardHeld, OwnerDead PROVE (LockHeld /\ GuardHeld /\ OwnerDead)'
  (* The owner is dead: nobody runs under the lock.                         *)
  <2>1. ~Alive(lockFile)
    BY <1>1, <1>4 DEF OwnerDead
  <2>2. \A q \in Proc : at[q] \notin {"hold", "remove"}
    BY <1>4, <2>1 DEF LockHeld, Alive, Dead
  <2>3. LockHeld'
    BY <1>1, <2>2 DEF LockHeld
  <2>4. GuardHeld'
    BY <1>1, <1>2, <1>4 DEF GuardHeld, NoFile, UnderGuard
  (* The guard is of this call: nobody else is about to remove the lock.    *)
  <2>5. \A q \in Proc : at[q] \in UnderGuard => q = p
    BY <1>1, <1>4 DEF GuardHeld, UnderGuard
  <2>6. OwnerDead'
    BY <1>1, <2>5 DEF OwnerDead, UnderGuard
  <2> QED BY <2>3, <2>4, <2>6
<1> QED BY <1>2, <1>3, <1>4 DEF LockInv, Rightful

LEMMA UnlinksGuardKeeps ==
  ASSUME LockInv, NEW p \in Proc, UnlinksGuard(p) PROVE LockInv'
<1>1. /\ at[p] = "clean_guard" /\ at'[p] = "try" /\ at' \in [Proc -> Place]
      /\ \A q \in Proc : q # p => at'[q] = at[q]
      /\ Dead' = Dead
  BY OnlyItself DEF LockInv, UnlinksGuard, Starts, Place
<1>2. /\ guardFile' = NoFile /\ mine' = [mine EXCEPT ![p] = 0]
      /\ UNCHANGED <<lockFile, aside, tokens, displaced>>
  BY DEF UnlinksGuard, Starts
<1>3. LockShape'
  BY <1>1, <1>2 DEF LockInv, LockShape, IsFile, NoFile
<1>4. ASSUME LockHeld, GuardHeld, OwnerDead PROVE (LockHeld /\ GuardHeld /\ OwnerDead)'
  <2>1. LockHeld'
    BY <1>1, <1>2, <1>4 DEF LockHeld, NoFile, LockInv, LockShape
  <2>2. \A q \in Proc : at[q] \in UnderGuard => q = p
    BY <1>1, <1>4 DEF GuardHeld, UnderGuard
  <2>3. GuardHeld'
    BY <1>1, <2>2 DEF GuardHeld, UnderGuard
  <2>4. OwnerDead'
    BY <1>1, <1>2, <1>4 DEF OwnerDead, NoFile, Alive
  <2> QED BY <2>1, <2>3, <2>4
<1> QED BY <1>2, <1>3, <1>4 DEF LockInv, Rightful

LEMMA LockAgesKeeps ==
  ASSUME LockInv, LockAges PROVE LockInv'
<1>1. /\ lockFile # NoFile /\ lockFile'.by = lockFile.by /\ lockFile'.token = lockFile.token
      /\ lockFile' = [ino |-> lockFile.ino, token |-> lockFile.token, by |-> lockFile.by, old |-> TRUE]
      /\ ~lockFile.old
  BY DEF LockAges, LockInv, LockShape, IsFile
<1>2. UNCHANGED <<at, mine, guardFile, aside, tokens, displaced>>
  BY DEF LockAges
<1>3. LockShape'
  BY <1>1, <1>2 DEF LockInv, LockShape, IsFile
<1>4. ASSUME Rightful PROVE Rightful'
  <2>1. lockFile' # NoFile
    BY <1>1 DEF NoFile
  <2>2. LockHeld'
    BY <1>1, <1>2, <1>4, <2>1 DEF LockHeld, Rightful, NoFile
  <2>3. GuardHeld'
    BY <1>2, <1>4 DEF GuardHeld, Rightful, NoFile
  <2>4. OwnerDead'
    BY <1>1, <1>2, <1>4, <2>1 DEF OwnerDead, Rightful, Alive, Dead, NoFile
  <2> QED BY <2>2, <2>3, <2>4 DEF Rightful
<1> QED BY <1>2, <1>3, <1>4 DEF LockInv

LEMMA GuardAgesKeeps ==
  ASSUME LockInv, GuardAges PROVE LockInv'
<1>1. /\ guardFile # NoFile /\ guardFile'.by = guardFile.by
      /\ guardFile' = [ino |-> guardFile.ino, token |-> guardFile.token, by |-> guardFile.by, old |-> TRUE]
  BY DEF GuardAges, LockInv, LockShape, IsFile
<1>2. UNCHANGED <<at, mine, lockFile, aside, tokens, displaced>>
  BY DEF GuardAges
<1>3. LockShape'
  BY <1>1, <1>2 DEF LockInv, LockShape, IsFile
<1>4. ASSUME Rightful PROVE Rightful'
  <2>1. LockHeld'
    BY <1>2, <1>4 DEF LockHeld, Rightful, NoFile
  <2>2. GuardHeld'
    BY <1>1, <1>2, <1>4 DEF GuardHeld, Rightful, NoFile
  <2>3. OwnerDead'
    BY <1>2, <1>4 DEF OwnerDead, Rightful, Alive, Dead, NoFile
  <2> QED BY <2>1, <2>2, <2>3 DEF Rightful
<1> QED BY <1>2, <1>3, <1>4 DEF LockInv

-----------------------------------------------------------------------------
(* Every step.                                                              *)

LEMMA LockStep == LockInv /\ [LockNext]_lockFileVars => LockInv'
<1> SUFFICES ASSUME LockInv, [LockNext]_lockFileVars PROVE LockInv'
  OBVIOUS
<1> USE DEF Steps, Starts, UnderGuard, Place
<1>1. ASSUME NEW p \in Proc, Acquire(p) PROVE LockInv'
  BY <1>1, AcquireKeeps
<1>2. ASSUME NEW p \in Proc, Occupied(p) PROVE LockInv'
  BY <1>2, QuietStep DEF Occupied
<1>3. ASSUME NEW p \in Proc, LooksAtLock(p) PROVE LockInv'
  <2>1. PICK there \in {"try", "out", "guard"} : Goes(p, "stat", there)
    BY <1>3 DEF LooksAtLock
  <2> QED BY <1>3, <2>1, QuietStep DEF LooksAtLock
<1>4. ASSUME NEW p \in Proc, Leaves(p) PROVE LockInv'
  <2>1. PICK there \in {"remove", "out"} : Goes(p, "hold", there)
    BY <1>4 DEF Leaves
  <2> QED BY <1>4, <2>1, QuietStep DEF Leaves
<1>5. ASSUME NEW p \in Proc, Removes(p) PROVE LockInv'
  BY <1>5, RemovesKeeps
<1>6. ASSUME NEW p \in Proc, TakesGuard(p) PROVE LockInv'
  BY <1>6, TakesGuardKeeps
<1>7. ASSUME NEW p \in Proc, GuardTaken(p) PROVE LockInv'
  BY <1>7, QuietStep DEF GuardTaken
<1>8. ASSUME NEW p \in Proc, NEW here \in {"guard_stat", "guard_read", "guard_move", "guard_moved"},
             Again(p, here), KeepsFiles
      PROVE  LockInv'
  <2>1. PICK there \in {"try", "guard"} :
          Goes(p, here, there) /\ (mine' = mine \/ mine' = [mine EXCEPT ![p] = 0])
    BY <1>8 DEF Again
  <2> QED BY <1>8, <2>1, QuietStep
<1>9. ASSUME NEW p \in Proc, LooksAtGuard(p) PROVE LockInv'
  <2>1. CASE Again(p, "guard_stat")
    BY <1>8, <1>9, <2>1 DEF LooksAtGuard
  <2>2. CASE Starts(p, "guard_stat", "try")
    BY <1>9, <2>2, QuietStep DEF LooksAtGuard
  <2>3. CASE Goes(p, "guard_stat", "guard_read") /\ mine' = mine
    BY <1>9, <2>3, QuietStep DEF LooksAtGuard
  <2> QED BY <1>9, <2>1, <2>2, <2>3 DEF LooksAtGuard
<1>10. ASSUME NEW p \in Proc, ReadsGuard(p) PROVE LockInv'
  <2>1. CASE Again(p, "guard_read")
    BY <1>8, <1>10, <2>1 DEF ReadsGuard
  <2>2. CASE Starts(p, "guard_read", "try")
    BY <1>10, <2>2, QuietStep DEF ReadsGuard
  <2>3. CASE Goes(p, "guard_read", "guard_move") /\ mine' = mine
    BY <1>10, <2>3, QuietStep DEF ReadsGuard
  <2> QED BY <1>10, <2>1, <2>2, <2>3 DEF ReadsGuard
<1>11. ASSUME NEW p \in Proc, MovesGuard(p) PROVE LockInv'
  <2>1. CASE guardFile # NoFile
    BY <1>11, <2>1, MovesGuardKeeps
  <2>2. CASE guardFile = NoFile
    BY <1>8, <1>11, <2>2 DEF MovesGuard
  <2> QED BY <2>1, <2>2
<1>12. ASSUME NEW p \in Proc, JudgesGuard(p) PROVE LockInv'
  <2>1. CASE KeepsFiles
    <3>1. CASE Again(p, "guard_moved")
      BY <1>8, <2>1, <3>1
    <3>2. CASE Goes(p, "guard_moved", "guard_back") /\ mine' = mine
      BY <2>1, <3>2, QuietStep
    <3> QED BY <1>12, <3>1, <3>2 DEF JudgesGuard
  <2> QED BY <1>12, <2>1, JudgesGuardKeeps
<1>13. ASSUME NEW p \in Proc, RestoresGuard(p) PROVE LockInv'
  BY <1>13, RestoresGuardKeeps
<1>14. ASSUME NEW p \in Proc, ChecksLock(p) PROVE LockInv'
  <2>1. PICK there \in {"owner", "clean"} : Goes(p, "check", there)
    BY <1>14 DEF ChecksLock
  <2> QED BY <1>14, <2>1, QuietStep DEF ChecksLock
<1>15. ASSUME NEW p \in Proc, ChecksOwner(p) PROVE LockInv'
  <2>1. CASE lockFile # NoFile /\ ~Alive(lockFile)
    BY <1>15, <2>1, QuietStep DEF ChecksOwner
  <2>2. CASE ~(lockFile # NoFile /\ ~Alive(lockFile))
    BY <1>15, <2>2, QuietStep DEF ChecksOwner
  <2> QED BY <2>1, <2>2
<1>16. ASSUME NEW p \in Proc, ChecksGuard(p) PROVE LockInv'
  <2>1. PICK there \in {"final", "clean"} : Goes(p, "own", there)
    BY <1>16 DEF ChecksGuard
  <2> QED BY <1>16, <2>1, QuietStep DEF ChecksGuard
<1>17. ASSUME NEW p \in Proc, ChecksAgain(p) PROVE LockInv'
  <2>1. PICK there \in {"unlink", "clean"} : Goes(p, "final", there)
    BY <1>17 DEF ChecksAgain
  <2> QED BY <1>17, <2>1, QuietStep DEF ChecksAgain
<1>18. ASSUME NEW p \in Proc, UnlinksLock(p) PROVE LockInv'
  BY <1>18, UnlinksLockKeeps
<1>19. ASSUME NEW p \in Proc, CleansUp(p) PROVE LockInv'
  <2>1. CASE Steps(p, "clean", "clean_guard")
    BY <1>19, <2>1, QuietStep DEF CleansUp
  <2>2. CASE Starts(p, "clean", "try")
    BY <1>19, <2>2, QuietStep DEF CleansUp
  <2> QED BY <1>19, <2>1, <2>2 DEF CleansUp
<1>20. ASSUME NEW p \in Proc, UnlinksGuard(p) PROVE LockInv'
  BY <1>20, UnlinksGuardKeeps
<1>21. ASSUME NEW p \in Proc, Dies(p) PROVE LockInv'
  <2>1. CASE at[p] # "dead"
    BY <1>21, <2>1, QuietStep DEF Dies
  <2>2. CASE at[p] = "dead"
    <3>1. at' = at
      BY <1>21, <2>2 DEF Dies, Goes, LockInv, LockShape
    <3>2. mine' = [mine EXCEPT ![p] = 0] /\ KeepsFiles
      BY <1>21 DEF Dies
    <3> QED BY <2>2, <3>1, <3>2
            DEF LockInv, LockShape, IsFile, KeepsFiles, Rightful, LockHeld, GuardHeld, OwnerDead,
                Alive, Dead, NoFile
  <2> QED BY <2>1, <2>2
<1>22. CASE LockAges
  BY <1>22, LockAgesKeeps
<1>23. CASE GuardAges
  BY <1>23, GuardAgesKeeps
<1>24. CASE UNCHANGED lockFileVars
  BY <1>24 DEF lockFileVars, LockInv, LockShape, IsFile, Rightful, LockHeld, GuardHeld, OwnerDead,
               Alive, Dead, NoFile
<1> HIDE DEF Steps, Starts, UnderGuard, Place
<1> QED
  BY <1>1, <1>2, <1>3, <1>4, <1>5, <1>6, <1>7, <1>9, <1>10, <1>11, <1>12, <1>13, <1>14, <1>15,
     <1>16, <1>17, <1>18, <1>19, <1>20, <1>21, <1>22, <1>23, <1>24
  DEF LockNext

(* withFileLock excludes: whatever calls there are, wherever they die and   *)
(* whichever inode numbers come back, one call at a time runs under the     *)
(* lock and the lock file is its own, as long as no guard of a living owner *)
(* was moved away.                                                          *)
THEOREM LockExclusive == LockSpec => []Exclusive
<1>1. LockInit => LockInv
  BY DEF LockInit, LockInv, LockShape, IsFile, NoFile, Place, Rightful, LockHeld, GuardHeld,
         OwnerDead, UnderGuard
<1>2. LockInv => Exclusive
  BY DEF LockInv, Rightful, LockHeld, Exclusive
<1> QED BY <1>1, <1>2, LockStep, PTL DEF LockSpec

-----------------------------------------------------------------------------
(* The control plane of a loop: its invariant.                              *)

Asked == {c \in receipts : c.kind \in Kind}
Opens(c) == RoleOf(c.to) # "nobody"

(* What a receipt can be.                                                   *)
IsReceipt(c) ==
  /\ c.from \in Nat /\ c.kind \in Kind \cup {"interrupt", "decision"}
  /\ c.kind \in Kind => c.id \in Request /\ c.kind = Content[c.id].kind
  /\ Opens(c) => c.kind \in {"start", "report"}
  /\ c.kind = "report" => Opens(c) \/ c.to \in {"succeed", "cap"}
  /\ c.to = "block" => c.kind = "decision" /\ c.obligation \in Request
  /\ c.kind = "interrupt" => c.to = "interrupt"

LoopShape ==
  /\ loop.rev \in Nat /\ loop.consumed \in Nat
  /\ loop.pending \in Request \cup {NoTransition}
  /\ capability \in [Request -> Nat] /\ issued \in Nat
  /\ shown \in [Request -> Nat]

(* Receipts: one for a revision, none from a later one, one for a request.  *)
ReceiptsAgree ==
  /\ \A c \in receipts : IsReceipt(c) /\ c.from <= loop.rev
  /\ \A c, d \in receipts : c.from = d.from => c = d
  /\ \A c, d \in Asked : c.id = d.id => c = d

(* Transition files: one for an id, and of this revision what its request   *)
(* would write again.                                                       *)
FileOf(c) == [id |-> c.id, from |-> c.from, to |-> c.to, lap |-> c.lap]
FilesAgree ==
  /\ \A t \in transitions :
       /\ t = FileOf(t) /\ t.from \in Nat /\ t.from <= loop.rev
       /\ t.id \in Request /\ t.from = loop.rev =>
            t.to = Leads(loop, t.id) /\ t.lap = LapAfter(loop, t.id)
       /\ t.id \notin Request =>
            t.id = t.from /\ t.to = "interrupt" /\ (t.from = loop.rev => t.lap = loop.lap)
  /\ \A t, u \in transitions : t.id = u.id => t = u
  /\ \A c \in receipts : HasFacts(c)

(* The receipts replay, each following what the earlier ones led to.        *)
Replays(f, k) ==
  f = [n \in 0..k |-> IF n = 0 THEN Drafted ELSE After(f[n - 1], Only(At(n - 1)))]
HistoryKept ==
  /\ \A n \in 0..(loop.rev - 1) : \E c \in receipts : c.from = n
  /\ Replays(Replay, loop.rev) /\ Replay[loop.rev] = loop
  /\ \A n \in 0..(loop.rev - 1) : Follows(Replay[n], Only(At(n)))
  /\ \A n \in 0..loop.rev : Replay[n].pending # NoTransition =>
       \E o \in Asked : o.id = Replay[n].pending
  /\ \A c \in Prepared : Follows(loop, c)

(* The pending transition was opened by a request, and is answered only by   *)
(* a report that is about to change it.                                     *)
OpenedBefore(t) == \E o \in Asked : o.id = t /\ o.from < loop.rev /\ Opens(o)
PendingOpen ==
  /\ loop.pending # NoTransition => OpenedBefore(loop.pending)
  /\ \A x \in accepted :
       /\ x.obligation # NoTransition /\ OpenedBefore(x.obligation)
       /\ x.obligation = loop.pending => \E c \in Prepared : c.kind = "report"
  /\ \A x, y \in accepted : x.obligation = y.obligation => x = y

(* A token was issued for one transition.                                   *)
TokensApart ==
  /\ \A t \in Request : capability[t] <= issued
  /\ \A t, u \in Request : capability[t] = capability[u] /\ capability[t] # 0 => t = u
  /\ \A x \in accepted :
       /\ x.token \in Nat /\ x.token # 0 /\ x.token <= issued
       /\ \A t \in Request : capability[t] = x.token => t = x.obligation
  /\ \A x, y \in accepted : x.token = y.token => x = y

(* A block is decided once for a transition, counted, and then shown.       *)
Counted == {t \in Request : \E c \in receipts :
              c.to = "block" /\ c.obligation = t /\ c.from < loop.rev}
Blocks == {c \in receipts : c.to = "block" /\ c.from < loop.rev}
BlocksCounted ==
  /\ IsFiniteSet(receipts) /\ loop.consumed = Cardinality(Blocks)
  /\ \A c, d \in receipts : c.to = "block" /\ d.to = "block" /\ c.obligation = d.obligation => c = d
  /\ \A t \in Request : shown[t] <= 1 /\ (shown[t] = 1 => t \in Counted)
  /\ Cardinality(Counted) <= loop.consumed

StoreInv ==
  LoopShape /\ ReceiptsAgree /\ FilesAgree /\ HistoryKept /\ PendingOpen /\ TokensApart /\ BlocksCounted

(* The holder of the lock: what it is about to write fits what is written.  *)
Fresh(c) ==
  /\ Prepared = {} /\ Follows(loop, c)
  /\ c.kind \in Kind => /\ \A o \in Asked : o.id # c.id
                        /\ \A t \in transitions : t.id = c.id => t.from = c.from
  /\ c.to = "block" => ~Blocked(c.obligation)
Entitled(c, token) ==
  c.kind = "report" =>
    /\ token \in Nat /\ token # 0 /\ loop.pending \in Request /\ loop.pending # NoTransition
    /\ capability[loop.pending] = token
Held(c, step, token) ==
  /\ IsReceipt(c)
  /\ step \in {"transition", "report", "receipt"} => Fresh(c) /\ Entitled(c, token)
  /\ step \in {"transition", "report"} => ~IsDecision(c)
  /\ step = "report" => c.kind = "report"
  /\ step = "receipt" /\ IsDecision(c) => c.obligation = loop.pending /\ loop.pending # NoTransition
  /\ step \in {"report", "receipt"} /\ ~IsDecision(c) => FileOf(c) \in transitions
  /\ step = "receipt" /\ c.kind = "report" => [id |-> c.id, from |-> c.from] \in reports
  /\ step \in {"cas", "output"} => c \in receipts
  /\ step = "cas" => c.from = loop.rev
  /\ step = "output" => c.to = "block" /\ c.from < loop.rev
  /\ step \in {"cas", "output"} /\ c.to = "block" => shown[c.obligation] = 0
CallerInv ==
  caller = NoCaller \/
    /\ caller = Calls(caller.receipt, caller.step, caller.token)
    /\ caller.step \in {"transition", "report", "receipt", "cas", "output"}
    /\ Held(caller.receipt, caller.step, caller.token)

(* Facts at their limit: only interruptions and cancels go beyond, and one   *)
(* for each caller that dies and one more; a run halted beyond the limit     *)
(* can only be cancelled.                                                    *)
Reserved(c) == c.kind \in {"interrupt", "cancel"}
Halted == loop.status = "interrupted" /\ loop.needsHuman
Locked == Halted /\ \A t \in transitions : t.from = loop.rev => t.to = "cancel"
Working == caller.step \in {"receipt", "cas"} /\ Reserved(caller.receipt)
One(b) == IF b THEN 1 ELSE 0
FilesFit ==
  IsFiniteSet(transitions) /\ loopCrashes \in Nat /\
  (loop.status \in Active /\ Reserve >= 2 =>
    Cardinality(transitions) <= Limit["transitions"] + loopCrashes + One(Working) + One(Locked))
OperationsFit ==
  loop.status \in Active =>
    /\ Cardinality(Operations) <= Limit["operations"] + One(Halted) + One(\E c \in Prepared : Reserved(c))
    /\ \A c \in Prepared : ~IsDecision(c) /\ ~Reserved(c) => Cardinality(Operations) <= Limit["operations"]


-----------------------------------------------------------------------------
(* Numbers, choices and the replay.                                         *)

(* Induction: a set of numbers has a least one.                             *)
LEMMA LeastNumber ==
  ASSUME NEW T, T \subseteq Nat, T # {}
  PROVE  \E x \in T : \A y \in T : x <= y
<1> DEFINE R == OpToRel(<, Nat)
<1>1. IsWellFoundedOn(R, Nat)
  BY NatLessThanWellFounded
<1>2. \A a, b \in Nat : a < b => <<a, b>> \in R
  BY DEF OpToRel
<1> HIDE DEF R
<1>3. PICK x \in T : \A y \in T : ~(<<y, x>> \in R)
  BY <1>1, WFMin
<1>4. ASSUME NEW y \in T PROVE x <= y
  <2>1. ~(y < x)
    BY <1>2, <1>3
  <2> QED BY <2>1
<1> QED BY <1>4

(* Two replays of the same receipts agree as far as both go.                *)
Rebuilds(f, k, A) ==
  f = [n \in 0..k |-> IF n = 0 THEN Drafted ELSE After(f[n - 1], A[n - 1])]
LEMMA SameReplay ==
  ASSUME NEW j \in Nat, NEW k \in Nat, j <= k, NEW A, NEW f, NEW g,
         Rebuilds(f, j, A), Rebuilds(g, k, A)
  PROVE  \A n \in 0..j : f[n] = g[n]
<1> DEFINE T == {n \in 0..j : f[n] # g[n]}
<1>0. T \subseteq Nat /\ \A n : n \in T <=> n \in 0..j /\ f[n] # g[n]
  OBVIOUS
<1> HIDE DEF T
<1> SUFFICES ASSUME T # {} PROVE FALSE
  BY <1>0
<1>1. PICK n \in T : \A m \in T : n <= m
  BY <1>0, LeastNumber
<1>2. n \in 0..j /\ f[n] # g[n]
  BY <1>0
<1>3. n # 0
  <2>1. f[0] = Drafted /\ g[0] = Drafted
    BY DEF Rebuilds
  <2> QED BY <1>2, <2>1
<1>4. n - 1 \in 0..j /\ n - 1 \in 0..(j - 1) /\ ~(n <= n - 1)
  BY <1>2, <1>3
<1>5. n - 1 \notin T
  BY <1>1, <1>4
<1>6. f[n] = After(f[n - 1], A[n - 1]) /\ g[n] = After(g[n - 1], A[n - 1])
  BY <1>2, <1>3 DEF Rebuilds
<1> QED BY <1>0, <1>2, <1>4, <1>5, <1>6

LEMMA ReplayChosen ==
  ASSUME NEW f, Replays(f, loop.rev) PROVE Replays(Replay, loop.rev)
BY Zenon DEF Replay, Replays

LEMMA ReplaySame ==
  ASSUME UNCHANGED <<loop, receipts>> PROVE Replay' = Replay
BY Zenon DEF Replay, At

LEMMA OnlyOne ==
  ASSUME NEW S, NEW c \in S, \A d \in S : d = c PROVE Only(S) = c
BY DEF Only

LEMMA NamedIs ==
  ASSUME NEW S, NEW x \in S, \A u \in S : u.id = x.id => u = x
  PROVE  (CHOOSE y \in S : y.id = x.id) = x
OBVIOUS

LEMMA OneMore ==
  ASSUME NEW S, NEW e, IsFiniteSet(S)
  PROVE  /\ IsFiniteSet(S \cup {e}) /\ Cardinality(S) \in Nat /\ Cardinality(S \cup {e}) \in Nat
         /\ Cardinality(S \cup {e}) <= Cardinality(S) + 1
         /\ e \notin S => Cardinality(S \cup {e}) = Cardinality(S) + 1
<1>1. Cardinality(S) \in Nat
  BY FS_CardinalityType
<1>2. /\ IsFiniteSet(S \cup {e})
      /\ Cardinality(S \cup {e}) = IF e \in S THEN Cardinality(S) ELSE Cardinality(S) + 1
  BY FS_AddElement
<1> QED BY <1>1, <1>2

-----------------------------------------------------------------------------
(* The reducer.                                                             *)

(* What a receipt makes of the parts of a state the invariant is about.     *)
LEMMA AfterIs ==
  ASSUME NEW st, NEW c
  PROVE  /\ After(st, c).rev = st.rev + 1
         /\ After(st, c).consumed = IF c.to = "block" THEN c.epoch ELSE st.consumed
         /\ After(st, c).pending =
              IF Opens(c) THEN c.id
              ELSE IF c.to \in {"succeed", "cap", "exhaust", "cancel"} THEN NoTransition
              ELSE st.pending
BY DEF After, Opens

LEMMA BlockOpensNothing ==
  ASSUME NEW c, c.to = "block" PROVE ~Opens(c)
BY DEF Opens, RoleOf

(* What follows a state depends on the transition files only by the one     *)
(* that is pending.                                                         *)
LEMMA FollowsKept ==
  ASSUME NEW CONSTANT st, NEW CONSTANT c, Follows(st, c),
         st.pending # NoTransition => Named(st.pending)' = Named(st.pending)
  PROVE  Follows(st, c)'
<1>1. \A r : Permits(st, r) => Permits(st, r)'
  BY DEF Permits
<1> QED BY <1>1 DEF Follows

(* A receipt that follows a state is of its revision and not of one that    *)
(* is over; a block is the next one.                                        *)
LEMMA FollowsActive ==
  ASSUME NEW st, NEW c, Follows(st, c), IsReceipt(c), st.consumed \in Nat
  PROVE  /\ c.from = st.rev /\ st.status \in Active
         /\ c.to = "block" => c.obligation = st.pending /\ c.epoch = st.consumed + 1

<1>1. c.kind = "interrupt" => st.status \in Active
  BY DEF Follows, Interruptible, IsDecision
<1>2. c.kind = "decision" => st.status = "running"
  BY DEF Follows, IsDecision
<1>3. c.kind \in Kind => st.status \in Active
  BY DEF Follows, IsDecision, Permits, Kind, Active
<1>4. c.to = "block" => c.obligation = st.pending /\ c.epoch = st.consumed + 1
  BY DEF Follows, IsDecision, IsReceipt
<1>5. c.from = st.rev
  BY DEF Follows
<1> QED BY <1>1, <1>2, <1>3, <1>4, <1>5 DEF IsReceipt, Active

(* The finite sets that are counted.                                        *)
LEMMA CountedFinite == IsFiniteSet(Counted) /\ Cardinality(Counted) \in Nat
<1>1. Counted \subseteq Request /\ IsFiniteSet(Request)
  BY LoopAssumption DEF Counted
<1> QED BY <1>1, FS_Subset, FS_CardinalityType

LEMMA BlocksFinite ==
  ASSUME IsFiniteSet(receipts) PROVE IsFiniteSet(Blocks) /\ Cardinality(Blocks) \in Nat
<1>1. Blocks \subseteq receipts
  BY DEF Blocks
<1> QED BY <1>1, FS_Subset, FS_CardinalityType

-----------------------------------------------------------------------------
(* The history.                                                             *)

(* It stays as it is while the state and the receipts do and no file named   *)
(* by a receipt goes.                                                       *)
LEMMA NamedKept ==
  ASSUME FilesAgree, FilesAgree',
         \A x \in transitions : (\E c \in receipts : c.id = x.id) => x \in transitions',
         NEW CONSTANT t, \E o \in Asked : o.id = t
  PROVE  Named(t)' = Named(t)
<1>1. PICK x \in transitions : x.id = t
  BY DEF FilesAgree, HasFacts, Asked, IsDecision, Kind
<1>2. x \in transitions'
  BY <1>1 DEF Asked
<1>3. Named(t) = x
  BY <1>1, NamedIs DEF Named, FilesAgree
<1>4. Named(t)' = x
  BY <1>1, <1>2, NamedIs DEF Named, FilesAgree
<1> QED BY <1>3, <1>4

LEMMA HistoryStays ==
  ASSUME LoopShape, FilesAgree, FilesAgree', HistoryKept, UNCHANGED <<loop, receipts>>,
         \A x \in transitions : (\E c \in receipts : c.id = x.id) => x \in transitions'
  PROVE  HistoryKept'
<1>1. /\ Replay' = Replay /\ Prepared' = Prepared /\ Asked' = Asked
      /\ \A n : At(n)' = At(n)
  BY ReplaySame DEF Prepared, At, Asked
<1>2. Replays(Replay, loop.rev)'
  BY <1>1 DEF HistoryKept, Replays
<1>3. ASSUME NEW n \in 0..(loop.rev - 1) PROVE Follows(Replay[n], Only(At(n)))'
  <2>1. PICK st, c : st = Replay[n] /\ c = Only(At(n))
    OBVIOUS
  <2>2. Follows(st, c) /\ n \in 0..loop.rev
    BY <2>1 DEF HistoryKept, LoopShape
  <2>3. st.pending # NoTransition => Named(st.pending)' = Named(st.pending)
    BY <2>1, <2>2, NamedKept DEF HistoryKept
  <2>4. Follows(st, c)'
    BY <2>2, <2>3, FollowsKept
  <2> QED BY <1>1, <2>1, <2>4
<1>4. ASSUME NEW c \in Prepared PROVE Follows(loop, c)'
  <2>1. PICK st : st = loop
    OBVIOUS
  <2>2. Follows(st, c) /\ loop.rev \in 0..loop.rev
    BY <2>1 DEF HistoryKept, LoopShape
  <2>3. st.pending # NoTransition => Named(st.pending)' = Named(st.pending)
    BY <2>1, <2>2, NamedKept DEF HistoryKept
  <2>4. Follows(st, c)'
    BY <2>2, <2>3, FollowsKept
  <2> QED BY <2>1, <2>4
<1> QED BY <1>1, <1>2, <1>3, <1>4 DEF HistoryKept

(* The step to the next revision, by the caller that wrote the receipt or   *)
(* by one that finds it: the receipt is the only one of its revision.       *)
LEMMA HistoryGrows ==
  ASSUME StoreInv, NEW c \in Prepared, loop' = After(loop, c), UNCHANGED <<receipts, transitions>>
  PROVE  HistoryKept'
<1> DEFINE k == loop.rev
<1>1. /\ c \in receipts /\ c.from = k /\ IsReceipt(c) /\ k \in Nat /\ Follows(loop, c)
  BY DEF StoreInv, Prepared, At, ReceiptsAgree, LoopShape, HistoryKept
<1>2. Only(At(k)) = c
  BY <1>1, OnlyOne DEF StoreInv, ReceiptsAgree, At
<1>3. PICK f : f = [n \in 0..(k + 1) |-> IF n <= k THEN Replay[n] ELSE After(loop, c)]
  OBVIOUS
<1>4. /\ loop'.rev = k + 1 /\ k' = k + 1
      /\ \A n : At(n)' = At(n)
  BY AfterIs DEF At
<1>5. /\ Replay = [n \in 0..k |-> IF n = 0 THEN Drafted ELSE After(Replay[n - 1], Only(At(n - 1)))]
      /\ Replay[k] = loop
  BY DEF StoreInv, HistoryKept, Replays
<1> HIDE DEF k
<1>6. /\ \A n \in 0..k : f[n] = Replay[n] /\ n \in 0..(k + 1)
      /\ f[k + 1] = After(loop, c)
  BY <1>1, <1>3
<1>7. f = [n \in 0..(k + 1) |-> IF n = 0 THEN Drafted ELSE After(f[n - 1], Only(At(n - 1)))]
  <2>1. ASSUME NEW n \in 0..(k + 1)
        PROVE  f[n] = IF n = 0 THEN Drafted ELSE After(f[n - 1], Only(At(n - 1)))
    <3>1. CASE n = k + 1
      <4>1. n - 1 = k /\ n # 0 /\ f[k] = loop
        BY <1>1, <1>5, <1>6, <3>1
      <4> QED BY <1>2, <1>6, <3>1, <4>1
    <3>2. CASE n # k + 1
      <4>1. n \in 0..k /\ f[n] = Replay[n] /\ (n # 0 => n - 1 \in 0..k)
        BY <1>1, <1>6, <3>2
      <4>2. Replay[n] = IF n = 0 THEN Drafted ELSE After(Replay[n - 1], Only(At(n - 1)))
        BY <1>5, <4>1
      <4> QED BY <1>6, <4>1, <4>2
    <3> QED BY <3>1, <3>2
  <2>2. f = [n \in 0..(k + 1) |-> f[n]]
    BY <1>3
  <2> QED BY <2>1, <2>2
<1>8. Replays(Replay, loop.rev)'
  <2>1. (f = [n \in 0..loop.rev |-> IF n = 0 THEN Drafted ELSE After(f[n - 1], Only(At(n - 1)))])'
    BY <1>4, <1>7
  <2>2. (\E g : Replays(g, loop.rev))'
    BY <2>1 DEF Replays
  <2>3. (\E g : Replays(g, loop.rev)) => Replays(Replay, loop.rev)
    BY ReplayChosen
  <2> QED BY Zenon, <2>2 DEF Replay, Replays
<1>9. \A n \in 0..k : Replay'[n] = Replay[n]
  <2>1. PICK A : A = [n \in 0..k |-> Only(At(n))]
    OBVIOUS
  <2>2. Replay = [n \in 0..k |-> IF n = 0 THEN Drafted ELSE After(Replay[n - 1], A[n - 1])]
    <3>1. \A n \in 0..k : n # 0 => A[n - 1] = Only(At(n - 1))
      BY <1>1, <2>1
    <3> QED BY <1>5, <3>1
  <2>3. Replay' = [n \in 0..(k + 1) |-> IF n = 0 THEN Drafted ELSE After(Replay'[n - 1], A[n - 1])]
    <3>1. \A n \in 0..(k + 1) : n # 0 => A[n - 1] = Only(At(n - 1))
      BY <1>1, <2>1
    <3>2. Replay' = [n \in 0..(k + 1) |-> IF n = 0 THEN Drafted ELSE After(Replay'[n - 1], Only(At(n - 1)))]
      BY <1>4, <1>8 DEF Replays
    <3> QED BY <3>1, <3>2
  <2>4. PICK f0, g0 : f0 = Replay /\ g0 = Replay'
    OBVIOUS
  <2>5. Rebuilds(f0, k, A) /\ Rebuilds(g0, k + 1, A)
    BY <2>2, <2>3, <2>4 DEF Rebuilds
  <2>6. k + 1 \in Nat /\ k <= k + 1
    BY <1>1
  <2>7. \A n \in 0..k : f0[n] = g0[n]
    BY <1>1, <2>5, <2>6, SameReplay
  <2> QED BY <2>4, <2>7
<1>10. Replay'[k + 1] = After(loop, c)
  <2>1. Replay'[k + 1] = After(Replay'[k], Only(At(k)))
    <3>1. Replay' = [n \in 0..(k + 1) |-> IF n = 0 THEN Drafted ELSE After(Replay'[n - 1], Only(At(n - 1)))]
      BY <1>4, <1>8 DEF Replays
    <3>2. k + 1 \in 0..(k + 1) /\ k + 1 # 0 /\ (k + 1) - 1 = k
      BY <1>1
    <3> QED BY <3>1, <3>2
  <2>2. Replay'[k] = loop
    BY <1>1, <1>5, <1>9
  <2> QED BY <1>2, <2>1, <2>2
<1>11. \A n \in 0..(loop'.rev - 1) : \E d \in receipts : d.from = n
  BY <1>1, <1>4 DEF StoreInv, HistoryKept, k
<1>12. ASSUME NEW n \in 0..(loop'.rev - 1) PROVE Follows(Replay[n], Only(At(n)))'
  <2>1. PICK st, d : st = Replay[n] /\ d = Only(At(n))
    OBVIOUS
  <2>2. n \in 0..k /\ st = Replay'[n] /\ (n # k => n \in 0..(loop.rev - 1))
    BY <1>1, <1>4, <1>9, <2>1 DEF k
  <2>3. Follows(st, d)
    BY <1>1, <1>2, <1>5, <2>1, <2>2 DEF StoreInv, HistoryKept
  <2>4. Follows(st, d)'
    BY <2>3, FollowsKept DEF Named
  <2> QED BY <1>4, <2>1, <2>2, <2>4
<1>13. ASSUME NEW n \in 0..loop'.rev, Replay'[n].pending # NoTransition
       PROVE  \E o \in Asked : o.id = Replay'[n].pending
  <2>1. CASE n \in 0..k
    BY <1>9, <1>13, <2>1 DEF StoreInv, HistoryKept, k
  <2>2. CASE n = k + 1
    <3>1. Replay'[n].pending = IF Opens(c) THEN c.id
               ELSE IF c.to \in {"succeed", "cap", "exhaust", "cancel"} THEN NoTransition
               ELSE loop.pending
      BY <1>10, <2>2, AfterIs
    <3>2. Opens(c) => c \in Asked
      BY <1>1 DEF IsReceipt, Asked, Kind
    <3>3. loop.pending # NoTransition => \E o \in Asked : o.id = loop.pending
      BY DEF StoreInv, PendingOpen, OpenedBefore
    <3> QED BY <1>13, <3>1, <3>2, <3>3
  <2> QED BY <1>1, <1>4, <2>1, <2>2
<1>14. Asked' = Asked /\ Prepared' = {}
  <2>1. \A d \in receipts : d.from <= k /\ d.from \in Nat
    BY DEF StoreInv, ReceiptsAgree, IsReceipt, k
  <2>2. \A d \in receipts : d.from # k + 1
    BY <1>1, <2>1
  <2> QED BY <1>4, <2>2 DEF Asked, Prepared, At
<1>15. Replay'[loop'.rev] = loop'
  BY <1>4, <1>10
<1> QED BY <1>8, <1>11, <1>12, <1>13, <1>14, <1>15 DEF HistoryKept

(* The other parts of the invariant at that step.                           *)
LEMMA Advances ==
  ASSUME StoreInv, NEW c \in Prepared, loop' = After(loop, c),
         UNCHANGED <<facts, capability, issued, shown, accepted>>
  PROVE  StoreInv' /\ Prepared' = {} /\ (c.to = "block" => c.obligation \in Counted')
<1> USE DEF StoreInv
<1>0. UNCHANGED <<transitions, reports, receipts>>
  BY DEF facts
<1>1. /\ c \in receipts /\ c.from = loop.rev /\ IsReceipt(c) /\ loop.rev \in Nat
      /\ loop.consumed \in Nat /\ Follows(loop, c)
  BY DEF Prepared, At, ReceiptsAgree, LoopShape, HistoryKept
<1>2. /\ loop'.rev = loop.rev + 1
      /\ loop'.consumed = IF c.to = "block" THEN loop.consumed + 1 ELSE loop.consumed
      /\ loop'.pending =
           IF Opens(c) THEN c.id
           ELSE IF c.to \in {"succeed", "cap", "exhaust", "cancel"} THEN NoTransition
           ELSE loop.pending
  BY <1>1, AfterIs, FollowsActive
<1>3. \A d \in receipts : d.from < loop'.rev /\ d.from \in Nat /\ (d.from < loop.rev \/ d = c)
  BY <1>1, <1>2 DEF ReceiptsAgree, IsReceipt
<1>4. Prepared' = {}
  BY <1>0, <1>1, <1>2, <1>3 DEF Prepared, At
<1>5. LoopShape'
  BY <1>1, <1>2 DEF LoopShape, IsReceipt, Kind
<1>6. ReceiptsAgree'
  BY <1>0, <1>1, <1>2, <1>3 DEF ReceiptsAgree, Asked, IsReceipt, Opens
<1>7. FilesAgree'
  <2>1. \A t \in transitions : t.from \in Nat /\ t.from < loop'.rev
    BY <1>1, <1>2 DEF FilesAgree
  <2>2. ASSUME NEW t \in transitions
        PROVE  /\ t = FileOf(t) /\ t.from \in Nat /\ t.from <= loop'.rev /\ t.from # loop'.rev
               /\ t.id \notin Request => t.id = t.from /\ t.to = "interrupt"
    <3>1. loop'.rev \in Nat
      BY <1>5 DEF LoopShape
    <3> QED BY <2>1, <3>1 DEF FilesAgree
  <2>3. \A d \in receipts : HasFacts(d)'
    BY <1>0 DEF FilesAgree, HasFacts
  <2> QED BY <1>0, <2>2, <2>3 DEF FilesAgree, FileOf
<1>8. HistoryKept'
  BY <1>0, HistoryGrows
<1>9. PendingOpen'
  <2>1. \A t : OpenedBefore(t) => OpenedBefore(t)'
    BY <1>0, <1>1, <1>2, <1>3 DEF OpenedBefore, Asked, Opens
  <2>2. ASSUME Opens(c) PROVE c \in Asked /\ OpenedBefore(c.id)' /\ ~OpenedBefore(c.id)
    <3>1. c \in Asked
      BY <1>1, <2>2 DEF Asked, IsReceipt, Kind
    <3>2. \A o \in Asked : o.id = c.id => o = c
      BY <3>1 DEF ReceiptsAgree
    <3> QED BY <1>0, <1>1, <1>2, <2>2, <3>1, <3>2 DEF OpenedBefore, Asked, Opens
  <2>3. loop'.pending # NoTransition => OpenedBefore(loop.pending)'
    BY <1>2, <2>1, <2>2 DEF PendingOpen, OpenedBefore
  <2>4. ASSUME NEW x \in accepted PROVE x.obligation # loop'.pending
    <3>1. x.obligation # NoTransition /\ OpenedBefore(x.obligation)
      BY DEF PendingOpen
    <3>2. CASE Opens(c)
      BY <1>2, <2>2, <3>1, <3>2
    <3>3. CASE ~Opens(c) /\ c.kind = "report"
      BY <1>1, <1>2, <3>1, <3>3 DEF IsReceipt
    <3>4. CASE ~Opens(c) /\ c.kind # "report"
      <4>1. x.obligation # loop.pending
        BY <1>1, <3>4 DEF PendingOpen, Prepared, At, ReceiptsAgree
      <4> QED BY <1>2, <3>1, <3>4, <4>1
    <3> QED BY <3>2, <3>3, <3>4
  <2>5. \A x \in accepted : x.obligation # NoTransition /\ OpenedBefore(x.obligation)'
    BY <2>1 DEF PendingOpen
  <2> QED BY <2>3, <2>4, <2>5 DEF PendingOpen
<1>10. TokensApart'
  BY DEF TokensApart
<1>11. /\ Counted' = IF c.to = "block" THEN Counted \cup {c.obligation} ELSE Counted
       /\ Blocks' = IF c.to = "block" THEN Blocks \cup {c} ELSE Blocks
       /\ c \notin Blocks
  <2>1. \A d \in receipts : d.to = "block" => d.obligation \in Request
    BY DEF ReceiptsAgree, IsReceipt
  <2> QED BY <1>0, <1>1, <1>2, <1>3, <2>1 DEF Counted, Blocks
<1>12. BlocksCounted'
  <2> DEFINE n == Cardinality(Counted)
  <2>1. n \in Nat /\ n <= loop.consumed /\ IsFiniteSet(Counted)
    BY CountedFinite DEF BlocksCounted
  <2>2. Cardinality(Counted') <= loop'.consumed
    <3>1. CASE c.to = "block"
      <4>1. Cardinality(Counted') \in Nat /\ Cardinality(Counted') <= n + 1
        BY <1>11, <2>1, <3>1, OneMore
      <4> QED BY <1>1, <1>2, <2>1, <3>1, <4>1
    <3>2. CASE c.to # "block"
      BY <1>2, <1>11, <2>1, <3>2
    <3> QED BY <3>1, <3>2
  <2>3. loop'.consumed = Cardinality(Blocks')
    <3>1. IsFiniteSet(Blocks) /\ loop.consumed = Cardinality(Blocks)
      BY BlocksFinite DEF BlocksCounted
    <3>2. CASE c.to = "block"
      <4>1. Cardinality(Blocks') = Cardinality(Blocks) + 1
        BY <1>11, <3>1, <3>2, OneMore
      <4> QED BY <1>2, <3>1, <3>2, <4>1
    <3>3. CASE c.to # "block"
      BY <1>2, <1>11, <3>1, <3>3
    <3> QED BY <3>2, <3>3
  <2>4. \A t \in Request : shown'[t] <= 1 /\ (shown'[t] = 1 => t \in Counted')
    BY <1>11 DEF BlocksCounted
  <2> QED BY <1>0, <2>2, <2>3, <2>4 DEF BlocksCounted
<1> QED BY <1>4, <1>5, <1>6, <1>7, <1>8, <1>9, <1>10, <1>11, <1>12

(* Publishing facts, and the end of a call, leave the state and the receipts *)
(* as they are.                                                             *)
StoreKept == UNCHANGED <<loop, receipts, capability, issued, shown, accepted>>
LEMMA StoreKeptKeeps ==
  ASSUME StoreInv, StoreKept, FilesAgree',
         \A x \in transitions : (\E c \in receipts : c.id = x.id) => x \in transitions'
  PROVE  /\ StoreInv' /\ Prepared' = Prepared /\ Asked' = Asked /\ Counted' = Counted
         /\ \A t : Blocked(t)' <=> Blocked(t)
<1>1. /\ Prepared' = Prepared /\ Counted' = Counted /\ Asked' = Asked /\ Blocks' = Blocks
  BY DEF StoreKept, Prepared, At, Counted, Asked, Blocks
<1>2. \A t : OpenedBefore(t) <=> OpenedBefore(t)'
  BY <1>1 DEF OpenedBefore, StoreKept, Opens
<1>3. \A t : Blocked(t)' <=> Blocked(t)
  BY DEF Blocked, StoreKept
<1>4. HistoryKept'
  BY HistoryStays DEF StoreInv, StoreKept
<1> QED
  BY <1>1, <1>2, <1>3, <1>4
  DEF StoreKept, StoreInv, LoopShape, ReceiptsAgree, PendingOpen, TokensApart, BlocksCounted,
      IsReceipt, Opens

LEMMA FilesKept ==
  ASSUME FilesAgree, UNCHANGED <<loop, transitions, reports, receipts>> PROVE FilesAgree'
BY DEF FilesAgree, HasFacts, FileOf

(* A call that takes the lock finishes the receipt it finds.                *)
LEMMA RollsForward ==
  ASSUME StoreInv, loop' = RolledForward,
         UNCHANGED <<facts, capability, issued, shown, accepted>>
  PROVE  StoreInv' /\ Prepared' = {}
<1>1. CASE Prepared = {}
  <2>1. loop' = loop /\ UNCHANGED <<transitions, reports, receipts>>
    BY <1>1 DEF RolledForward, facts
  <2>2. FilesAgree'
    BY <2>1, FilesKept DEF StoreInv
  <2> QED BY <1>1, <2>1, <2>2, StoreKeptKeeps DEF StoreKept
<1>2. CASE Prepared # {}
  <2>1. Only(Prepared) \in Prepared
    BY <1>2 DEF Only
  <2> QED BY <1>2, <2>1, Advances DEF RolledForward
<1> QED BY <1>1, <1>2

-----------------------------------------------------------------------------
(* The steps of the holder of the lock.                                     *)

LEMMA CallerIs ==
  ASSUME CallerInv, NEW step, step # "none", caller.step = step
  PROVE  /\ \E c, token : caller = Calls(c, step, token) /\ Held(c, step, token)
         /\ step \in {"transition", "report", "receipt", "cas", "output"}
BY DEF CallerInv, NoCaller

LEMMA BecomesCaller ==
  ASSUME NEW c, NEW token, NEW step \in {"transition", "report", "receipt", "cas", "output"},
         caller' = Calls(c, step, token), Held(c, step, token)'
  PROVE  CallerInv'
<1>1. caller'.receipt = c /\ caller'.step = step /\ caller'.token = token
  BY DEF Calls
<1> QED BY <1>1 DEF CallerInv

LEMMA NoCallerKeeps ==
  ASSUME caller' = NoCaller PROVE CallerInv'
BY DEF CallerInv

(* What a receipt about to be written fits, it fits with more facts, if the  *)
(* new ones of its own id are of its revision.                              *)
LEMMA StillHeld ==
  ASSUME StoreInv, StoreKept, FilesAgree', transitions \subseteq transitions', reports \subseteq reports',
         NEW CONSTANT c, NEW CONSTANT step, NEW CONSTANT token, Held(c, step, token),
         \A t \in transitions' \ transitions : t.id = c.id => t.from = c.from
  PROVE  Held(c, step, token)'
<1>1. IsReceipt(c)'
  BY DEF Held, IsReceipt, Opens
<1>2. ASSUME Fresh(c) PROVE Fresh(c)'
  <2>1. /\ Prepared' = Prepared /\ Asked' = Asked
        /\ \A t : Blocked(t)' <=> Blocked(t)
    BY StoreKeptKeeps
  <2>2. PICK st : st = loop
    OBVIOUS
  <2>3. st.pending # NoTransition => Named(st.pending)' = Named(st.pending)
    <3>1. st.pending # NoTransition => \E o \in Asked : o.id = st.pending
      BY <2>2 DEF StoreInv, PendingOpen, OpenedBefore
    <3> QED BY <3>1, NamedKept DEF StoreInv
  <2>4. Follows(st, c)'
    BY <1>2, <2>2, <2>3, FollowsKept DEF Fresh
  <2>5. Follows(loop, c)'
    BY <2>2, <2>4 DEF StoreKept
  <2> QED BY <1>2, <2>1, <2>5 DEF Fresh
<1>3. Entitled(c, token) => Entitled(c, token)'
  BY DEF Entitled, StoreKept
<1> QED BY <1>1, <1>2, <1>3 DEF Held, StoreKept

(* The interruption that a full kind leaves instead.                        *)
LEMMA OverflowKeeps ==
  ASSUME StoreInv, CallerInv, NEW c, NEW step \in {"transition", "report", "receipt"}, NEW token,
         caller = Calls(c, step, token), Held(c, step, token), Overflow(c)
  PROVE  StoreInv' /\ CallerInv'
<1>1. StoreKept /\ UNCHANGED <<loop, transitions, reports, receipts>>
  BY DEF Overflow, StoreKept, facts, keys
<1>2. FilesAgree'
  BY <1>1, FilesKept DEF StoreInv
<1>3. StoreInv'
  BY <1>1, <1>2, StoreKeptKeeps
<1>4. CASE caller' = NoCaller
  BY <1>3, <1>4, NoCallerKeeps
<1>5. CASE caller' = Calls(Interruption, "transition", 0) /\ Interruptible(loop)
  <2>1. PICK i : i = Interruption
    OBVIOUS
  <2>2. /\ i.kind = "interrupt" /\ i.from = loop.rev /\ i.to = "interrupt" /\ i.id = i.from
        /\ i.lap = loop.lap /\ loop.rev \in Nat /\ Prepared = {}
    BY <2>1 DEF Interruption, StoreInv, LoopShape, Held, Fresh
  <2>3. Follows(loop, i)
    BY <1>5, <2>2 DEF Follows, IsDecision
  <2>4. Held(i, "transition", 0)
    BY <2>2, <2>3 DEF Held, IsReceipt, Fresh, Entitled, Opens, RoleOf, Kind, IsDecision
  <2> QED BY <1>1, <1>2, <1>3, <1>5, <2>1, <2>4, StillHeld, BecomesCaller
<1> QED BY <1>4, <1>5 DEF Overflow

(* A transition file is what its request would write again.                 *)
LEMMA PutTransitionKeeps ==
  ASSUME StoreInv, CallerInv, PutTransition PROVE StoreInv' /\ CallerInv'
<1>1. PICK c, token : caller = Calls(c, "transition", token) /\ Held(c, "transition", token)
  BY CallerIs DEF PutTransition
<1>2. caller.receipt = c
  BY <1>1 DEF Calls
<1>3. CASE Overflow(c)
  BY <1>1, <1>3, OverflowKeeps
<1>4. CASE ~Overflow(c)
  <2>1. /\ transitions' = transitions \cup {FileOf(c)}
        /\ NextStep(IF c.kind = "report" THEN "report" ELSE "receipt")
        /\ UNCHANGED <<loop, reports, receipts, keys, loopCrashes, shown, accepted>>
    BY <1>2, <1>4 DEF PutTransition, FileOf
  <2>2. StoreKept
    BY <2>1 DEF StoreKept, keys
  <2>3. /\ IsReceipt(c) /\ Follows(loop, c) /\ ~IsDecision(c) /\ c.from = loop.rev /\ loop.rev \in Nat
        /\ c.kind \in Kind => \A t \in transitions : t.id = c.id => t.from = c.from
    BY <1>1, FollowsActive DEF Held, Fresh, StoreInv, LoopShape
  <2>4. /\ c.kind \in Kind => c.id \in Request /\ c.to = Leads(loop, c.id) /\ c.lap = LapAfter(loop, c.id)
        /\ c.kind # "interrupt" => c.kind \in Kind
        /\ c.kind = "interrupt" => c.id = c.from /\ c.to = "interrupt" /\ c.lap = loop.lap /\ c.id \notin Request
    BY <2>3, LoopAssumption DEF IsReceipt, Follows, IsDecision, Kind
  <2>5. PICK f : f = FileOf(c)
    OBVIOUS
  <2>6. /\ f.id = c.id /\ f.from = c.from /\ f.to = c.to /\ f.lap = c.lap
        /\ f = FileOf(f)
    BY <2>5 DEF FileOf
  <2>7. \A t \in transitions : t.id = f.id => t = f
    <3> SUFFICES ASSUME NEW t \in transitions, t.id = c.id PROVE t = f
      BY <2>6
    <3>1. t.from = c.from /\ t.to = c.to /\ t.lap = c.lap
      BY <2>3, <2>4 DEF StoreInv, FilesAgree
    <3>2. t = FileOf(t)
      BY DEF StoreInv, FilesAgree
    <3> QED BY <2>6, <3>1, <3>2 DEF FileOf
  <2>8. FilesAgree'
    <3>1. \A d \in receipts : HasFacts(d)'
      BY <2>1 DEF StoreInv, FilesAgree, HasFacts
    <3>2. /\ f.from \in Nat /\ f.from <= loop.rev
          /\ f.id \in Request => f.to = Leads(loop, f.id) /\ f.lap = LapAfter(loop, f.id)
          /\ f.id \notin Request => f.id = f.from /\ f.to = "interrupt" /\ f.lap = loop.lap
      BY <2>3, <2>4, <2>6
    <3> QED BY <2>1, <2>5, <2>6, <2>7, <3>1, <3>2 DEF StoreInv, FilesAgree, FileOf
  <2>9. StoreInv'
    BY <2>1, <2>2, <2>8, StoreKeptKeeps
  <2>10. PICK step \in {"report", "receipt"} :
           NextStep(step) /\ (step = "report" <=> c.kind = "report")
    BY <2>1
  <2>11. Held(c, "transition", token)'
    BY <1>1, <2>1, <2>2, <2>5, <2>6, <2>8, StillHeld
  <2>12. Held(c, step, token)'
    BY <2>1, <2>10, <2>11 DEF Held
  <2>13. caller' = Calls(c, step, token)
    BY <1>1, <2>10 DEF NextStep, Calls
  <2> QED BY <2>9, <2>12, <2>13, BecomesCaller
<1> QED BY <1>3, <1>4

LEMMA PutReportKeeps ==
  ASSUME StoreInv, CallerInv, PutReport PROVE StoreInv' /\ CallerInv'
<1>1. PICK c, token : caller = Calls(c, "report", token) /\ Held(c, "report", token)
  BY CallerIs DEF PutReport
<1>2. caller.receipt = c
  BY <1>1 DEF Calls
<1>3. CASE Overflow(c)
  BY <1>1, <1>3, OverflowKeeps
<1>4. CASE ~Overflow(c)
  <2>1. /\ reports' = reports \cup {[id |-> c.id, from |-> c.from]} /\ NextStep("receipt")
        /\ UNCHANGED <<loop, transitions, receipts, keys, loopCrashes, shown, accepted>>
    BY <1>2, <1>4 DEF PutReport
  <2>2. StoreKept
    BY <2>1 DEF StoreKept, keys
  <2>3. FilesAgree'
    <3>1. \A d \in receipts : HasFacts(d)'
      BY <2>1 DEF StoreInv, FilesAgree, HasFacts
    <3> QED BY <2>1, <3>1 DEF StoreInv, FilesAgree, FileOf
  <2>4. StoreInv'
    BY <2>1, <2>2, <2>3, StoreKeptKeeps
  <2>5. Held(c, "report", token)'
    BY <1>1, <2>1, <2>2, <2>3, StillHeld
  <2>6. Held(c, "receipt", token)'
    BY <2>1, <2>5 DEF Held
  <2>7. caller' = Calls(c, "receipt", token)
    BY <1>1, <2>1 DEF NextStep, Calls
  <2> QED BY <2>4, <2>6, <2>7, BecomesCaller
<1> QED BY <1>3, <1>4

(* A receipt is written: the first of its revision, of its request, and of  *)
(* the transition it answers or holds back.                                 *)
LEMMA PutReceiptKeeps ==
  ASSUME StoreInv, CallerInv, PutReceipt PROVE StoreInv' /\ CallerInv'
<1>1. PICK c, token : caller = Calls(c, "receipt", token) /\ Held(c, "receipt", token)
  BY CallerIs DEF PutReceipt
<1>2. caller.receipt = c /\ caller.token = token
  BY <1>1 DEF Calls
<1>3. CASE Overflow(c)
  BY <1>1, <1>3, OverflowKeeps
<1>4. CASE ~Overflow(c)
  <2>1. /\ receipts' = receipts \cup {c}
        /\ accepted' = IF c.kind = "report"
                       THEN accepted \cup {[report |-> c.id, token |-> token,
                                            obligation |-> loop.pending]}
                       ELSE accepted
        /\ NextStep("cas")
        /\ UNCHANGED <<loop, transitions, reports, capability, issued, shown>>
    BY <1>2, <1>4 DEF PutReceipt, keys
  <2>2. IsReceipt(c) /\ Fresh(c) /\ Entitled(c, token) /\ loop.rev \in Nat /\ loop.consumed \in Nat
    BY <1>1 DEF Held, StoreInv, LoopShape
  <2>3. c.from = loop.rev /\ c \notin receipts /\ \A d \in receipts : d.from # loop.rev
    BY <2>2, FollowsActive DEF Fresh, Prepared, At
  <2>4. LoopShape'
    BY <2>1 DEF StoreInv, LoopShape
  <2>5. ReceiptsAgree'
    BY <2>1, <2>2, <2>3 DEF StoreInv, ReceiptsAgree, Fresh, Asked, IsReceipt, Opens
  <2>6. /\ Prepared' = {c} /\ \A t : OpenedBefore(t) => OpenedBefore(t)'
        /\ Counted' = Counted /\ Blocks' = Blocks /\ Asked \subseteq Asked'
        /\ \A n \in 0..(loop.rev - 1) : At(n)' = At(n)
    <3>1. Prepared' = {c}
      BY <2>1, <2>3 DEF Prepared, At
    <3>2. Asked \subseteq Asked'
      BY <2>1 DEF Asked
    <3>3. \A t : OpenedBefore(t) => OpenedBefore(t)'
      BY <2>1, <3>2 DEF OpenedBefore, Opens
    <3>4. Counted' = Counted /\ Blocks' = Blocks
      BY <2>1, <2>2, <2>3 DEF Counted, Blocks
    <3>5. \A n \in 0..(loop.rev - 1) : At(n)' = At(n)
      BY <2>1, <2>2, <2>3 DEF At
    <3> QED BY <3>1, <3>2, <3>3, <3>4, <3>5
  <2>7. FilesAgree'
    <3>1. ASSUME ~IsDecision(c)
          PROVE  \E t \in transitions : t.id = c.id /\ t.from = c.from /\ t.to = c.to /\ t.lap = c.lap
      <4>1. FileOf(c) \in transitions
        BY <1>1, <3>1 DEF Held
      <4> QED BY <4>1 DEF FileOf
    <3>2. c.kind = "report" => \E p \in reports : p.id = c.id /\ p.from = c.from
      BY <1>1 DEF Held
    <3>3. ASSUME IsDecision(c)
          PROVE  \E o \in receipts : o.id = c.obligation /\ ~IsDecision(o) /\ o.from < c.from /\ Opens(o)
      <4>1. c.obligation = loop.pending /\ loop.pending # NoTransition
        BY <1>1, <3>3 DEF Held
      <4> QED BY <2>3, <4>1 DEF StoreInv, PendingOpen, OpenedBefore, Asked, IsDecision, Kind
    <3>4. HasFacts(c)'
      BY <2>1, <3>1, <3>2, <3>3 DEF HasFacts, Opens
    <3>5. \A d \in receipts : HasFacts(d)'
      BY <2>1 DEF StoreInv, FilesAgree, HasFacts
    <3> QED BY <2>1, <3>4, <3>5 DEF StoreInv, FilesAgree, FileOf
  <2>8. HistoryKept'
    <3>1. ASSUME NEW n \in 0..loop.rev, n # 0 PROVE At(n - 1)' = At(n - 1)
      BY <2>2, <2>6, <3>1
    <3>2. PICK f0 : f0 = Replay
      OBVIOUS
    <3>3. f0 = [n \in 0..loop.rev |-> IF n = 0 THEN Drafted ELSE After(f0[n - 1], Only(At(n - 1)))]
      BY <3>2 DEF StoreInv, HistoryKept, Replays
    <3>4. f0 = [n \in 0..loop.rev |-> IF n = 0 THEN Drafted ELSE After(f0[n - 1], Only(At(n - 1)'))]
      BY <3>1, <3>3
    <3>5. Replays(Replay, loop.rev)'
      <4>1. (\E g : Replays(g, loop.rev))'
        BY <2>1, <3>4 DEF Replays
      <4> QED BY Zenon, <4>1 DEF Replay, Replays
    <3>6. PICK g0 : g0 = Replay'
      OBVIOUS
    <3>7. g0 = [n \in 0..loop.rev |-> IF n = 0 THEN Drafted ELSE After(g0[n - 1], Only(At(n - 1)'))]
      BY <2>1, <3>5, <3>6 DEF Replays
    <3>8. PICK A : A = [n \in 0..loop.rev |-> Only(At(n)')]
      OBVIOUS
    <3>9. Rebuilds(f0, loop.rev, A) /\ Rebuilds(g0, loop.rev, A)
      <4>1. \A n \in 0..loop.rev : n # 0 => A[n - 1] = Only(At(n - 1)')
        BY <2>2, <3>8
      <4> QED BY <3>4, <3>7, <4>1 DEF Rebuilds
    <3>10. \A n \in 0..loop.rev : f0[n] = g0[n]
      BY <2>2, <3>9, SameReplay
    <3>11. Replay' = Replay
      <4>1. /\ f0 = [n \in 0..loop.rev |-> f0[n]]
            /\ g0 = [n \in 0..loop.rev |-> g0[n]]
        BY <3>9 DEF Rebuilds
      <4> QED BY <3>2, <3>6, <3>10, <4>1
    <3>12. ASSUME NEW n \in 0..(loop.rev - 1) PROVE Follows(Replay[n], Only(At(n)))'
      <4>1. PICK st, d : st = Replay[n] /\ d = Only(At(n))
        OBVIOUS
      <4>2. Follows(st, d)
        BY <4>1 DEF StoreInv, HistoryKept
      <4>3. Follows(st, d)'
        BY <2>1, <4>2, FollowsKept DEF Named
      <4> QED BY <2>6, <3>11, <4>1, <4>3
    <3>13. Follows(loop, c)'
      <4>1. PICK st : st = loop
        OBVIOUS
      <4>2. Follows(st, c)
        BY <2>2, <4>1 DEF Fresh
      <4>3. Follows(st, c)'
        BY <2>1, <4>2, FollowsKept DEF Named
      <4> QED BY <2>1, <4>1, <4>3
    <3>14. \A n \in 0..(loop.rev - 1) : \E d \in receipts' : d.from = n
      BY <2>1 DEF StoreInv, HistoryKept
    <3>15. \A n \in 0..loop.rev : Replay[n].pending # NoTransition =>
             \E o \in Asked' : o.id = Replay[n].pending
      BY <2>6 DEF StoreInv, HistoryKept
    <3>16. Replay[loop.rev] = loop
      BY DEF StoreInv, HistoryKept
    <3> QED BY <2>1, <2>6, <3>5, <3>11, <3>12, <3>13, <3>14, <3>15, <3>16 DEF HistoryKept
  <2>9. PendingOpen'
    <3>1. \A x \in accepted : x.obligation # loop.pending
      BY <2>2 DEF StoreInv, PendingOpen, Fresh
    <3>2. c.kind = "report" => loop.pending # NoTransition
      BY <2>2 DEF Entitled
    <3> QED BY <2>1, <2>6, <3>1, <3>2 DEF StoreInv, PendingOpen
  <2>10. TokensApart'
    <3>1. CASE c.kind = "report"
      <4>1. /\ token \in Nat /\ token # 0 /\ loop.pending \in Request
            /\ capability[loop.pending] = token
        BY <2>2, <3>1 DEF Entitled
      <4>2. \A x \in accepted : x.token # token
        <5>1. \A x \in accepted : x.obligation # loop.pending
          BY <2>2 DEF StoreInv, PendingOpen, Fresh
        <5> QED BY <4>1, <5>1 DEF StoreInv, TokensApart
      <4> QED BY <2>1, <3>1, <4>1, <4>2 DEF StoreInv, TokensApart
    <3>2. CASE c.kind # "report"
      BY <2>1, <3>2 DEF StoreInv, TokensApart
    <3> QED BY <3>1, <3>2
  <2>11. c.to = "block" => shown[c.obligation] = 0
                           /\ \A d \in receipts : d.to = "block" => d.obligation # c.obligation
    BY <2>2 DEF StoreInv, BlocksCounted, LoopShape, Fresh, Blocked, Counted, IsReceipt
  <2>12. BlocksCounted'
    <3>1. IsFiniteSet(receipts')
      BY <2>1, OneMore DEF StoreInv, BlocksCounted
    <3> QED BY <2>1, <2>6, <2>11, <3>1 DEF StoreInv, BlocksCounted
  <2>13. caller' = Calls(c, "cas", token)
    BY <1>1, <2>1 DEF NextStep, Calls
  <2>14. Held(c, "cas", token)'
    BY <2>1, <2>2, <2>3, <2>11 DEF Held, IsReceipt, Opens
  <2>15. CallerInv'
    BY <2>13, <2>14, BecomesCaller
  <2> QED BY <2>4, <2>5, <2>7, <2>8, <2>9, <2>10, <2>12, <2>15 DEF StoreInv
<1> QED BY <1>3, <1>4

(* The step to the receipt's state.                                         *)
LEMMA SwapStateKeeps ==
  ASSUME StoreInv, CallerInv, SwapState PROVE StoreInv' /\ CallerInv'
<1>1. PICK c, token : caller = Calls(c, "cas", token) /\ Held(c, "cas", token)
  BY CallerIs DEF SwapState
<1>2. /\ caller.receipt = c /\ loop' = After(loop, c)
      /\ UNCHANGED <<facts, capability, issued, shown, accepted>>
  BY <1>1 DEF Calls, SwapState, keys
<1>3. c \in Prepared /\ c \in receipts /\ c.from = loop.rev /\ IsReceipt(c) /\ loop.rev \in Nat
  BY <1>1 DEF Held, Prepared, At, StoreInv, LoopShape
<1>4. StoreInv' /\ loop'.rev = loop.rev + 1
  BY <1>2, <1>3, Advances, AfterIs
<1>5. CASE c.to = "block"
  <2>1. caller' = Calls(c, "output", token)
    BY <1>1, <1>2, <1>5 DEF SwapState, Calls
  <2>2. Held(c, "output", token)'
    BY <1>1, <1>2, <1>3, <1>4, <1>5 DEF Held, IsReceipt, Opens, facts
  <2> QED BY <1>4, <2>1, <2>2, BecomesCaller
<1>6. CASE c.to # "block"
  BY <1>2, <1>4, <1>6, NoCallerKeeps DEF SwapState
<1> QED BY <1>5, <1>6

LEMMA OutputKeeps ==
  ASSUME StoreInv, CallerInv, Output PROVE StoreInv' /\ CallerInv'
<1>1. PICK c, token : caller = Calls(c, "output", token) /\ Held(c, "output", token)
  BY CallerIs DEF Output
<1>2. /\ shown' = [shown EXCEPT ![c.obligation] = @ + 1] /\ caller' = NoCaller
      /\ UNCHANGED <<loop, transitions, reports, receipts, capability, issued, accepted>>
  BY <1>1 DEF Calls, Output, facts, keys
<1>3. c.obligation \in Request /\ c.obligation \in Counted /\ shown[c.obligation] = 0
  BY <1>1 DEF Held, IsReceipt, Counted
<1>4. /\ Prepared' = Prepared /\ Counted' = Counted /\ Asked' = Asked /\ Blocks' = Blocks
      /\ \A t : OpenedBefore(t) <=> OpenedBefore(t)'
  BY <1>2 DEF Prepared, At, Counted, Asked, OpenedBefore, Opens, Blocks
<1>5. shown' \in [Request -> Nat]
  <2>1. shown' = [shown EXCEPT ![c.obligation] = 1] /\ shown \in [Request -> Nat]
    BY <1>2, <1>3 DEF StoreInv, LoopShape
  <2> QED BY <2>1
<1>6. BlocksCounted'
  BY <1>2, <1>3, <1>4 DEF StoreInv, BlocksCounted, LoopShape
<1>7. FilesAgree'
  BY <1>2, FilesKept DEF StoreInv
<1>8. HistoryKept'
  BY <1>2, <1>7, HistoryStays DEF StoreInv
<1> QED
  BY <1>2, <1>4, <1>5, <1>6, <1>7, <1>8, NoCallerKeeps
  DEF StoreInv, LoopShape, ReceiptsAgree, PendingOpen, TokensApart, IsReceipt, Opens

-----------------------------------------------------------------------------
(* The steps that take the lock, and those of nobody in particular.         *)

(* A request is admitted with a receipt that follows the state it found.    *)
LEMMA EnterKeeps ==
  ASSUME StoreInv, CallerInv, NEW r \in Request, NEW token \in 0..issued, Enter(r, token)
  PROVE  StoreInv' /\ CallerInv'
<1>1. StoreInv' /\ Prepared' = {}
  BY RollsForward DEF Enter, keys
<1>2. CASE caller' = NoCaller
  BY <1>1, <1>2, NoCallerKeeps
<1>3. CASE caller' # NoCaller
  <2>1. Admits(loop', r, token) /\ caller' = Calls(Builds(loop', r), "transition", token)
    BY <1>3 DEF Enter
  <2>2. PICK c : c = Builds(loop', r)
    OBVIOUS
  <2>3. /\ c.kind = Content[r].kind /\ c.id = r /\ c.from = loop'.rev /\ c.to = Leads(loop', r)
        /\ c.lap = LapAfter(loop', r) /\ Content[r].kind \in Kind
    BY <2>2, LoopAssumption DEF Builds
  <2>4. /\ c.kind = "report" => c.to \in {"activate-reviewer", "succeed", "cap", "activate-implementer"}
        /\ c.kind = "start" => c.to = "activate-implementer"
        /\ c.kind \in {"pause", "resume", "cancel"} => c.to = c.kind
    BY <2>3 DEF Leads, Route
  <2>5. Opens(c) <=> c.to \in {"activate-reviewer", "activate-implementer"}
    BY DEF Opens, RoleOf
  <2>6. c.to # "block" /\ loop'.rev \in Nat
    BY <1>1, <2>3, <2>4 DEF Kind, StoreInv, LoopShape
  <2>7. IsReceipt(c)
    BY <2>3, <2>4, <2>5, <2>6 DEF IsReceipt, Kind
  <2>8. Follows(loop, c)'
    <3>1. PICK st : st = loop'
      OBVIOUS
    <3>2. Permits(st, c.id)
      BY <2>1, <2>3, <3>1 DEF Admits
    <3>3. Follows(st, c)
      BY <2>3, <3>1, <3>2 DEF Follows, IsDecision, Kind
    <3>4. Named(st.pending)' = Named(st.pending)
      BY DEF Enter, facts, Named
    <3>5. Follows(st, c)'
      BY <3>3, <3>4, FollowsKept
    <3> QED BY <3>1, <3>5
  <2>9. Fresh(c)'
    <3>1. \A o \in Asked : o.id # c.id
      BY <2>1, <2>3 DEF Admits, Operations, Asked, IsDecision, Kind
    <3>2. \A t \in transitions : t.id = c.id => t.from = c.from
      BY <2>1, <2>3 DEF Admits, Orphaned
    <3>3. Asked' = Asked /\ transitions' = transitions
      BY DEF Enter, facts, Asked
    <3> QED BY <1>1, <2>6, <2>8, <3>1, <3>2, <3>3 DEF Fresh
  <2>10. Entitled(c, token)'
    <3>1. ASSUME c.kind = "report"
          PROVE  /\ token # 0 /\ loop'.pending # NoTransition /\ capability[loop'.pending] = token
      BY <2>1, <2>3, <3>1 DEF Admits, Capable
    <3>2. loop'.pending # NoTransition => loop'.pending \in Request
      BY <1>1 DEF StoreInv, LoopShape
    <3>3. token \in Nat /\ capability' = capability
      BY DEF StoreInv, LoopShape, Enter, keys
    <3> QED BY <3>1, <3>2, <3>3 DEF Entitled
  <2>11. ~IsDecision(c)
    BY <2>3 DEF IsDecision, Kind
  <2>12. Held(c, "transition", token)'
    BY <2>7, <2>9, <2>10, <2>11 DEF Held, IsReceipt, Opens
  <2> QED BY <1>1, <2>1, <2>2, <2>12, BecomesCaller
<1> QED BY <1>2, <1>3

(* A decision of the governor: of the pending transition, blocked once.     *)
LEMMA DecidesHeld ==
  ASSUME StoreInv', Prepared' = {}, NEW action \in {"exhaust", "block", "halt"},
         Obliged(loop'), action = "block" => ~Blocked(loop.pending)',
         action = "block" => ~(loop'.consumed >= LapCap),
         action = "exhaust" => loop'.consumed >= LapCap,
         caller' = Calls(Decides(loop', action), "receipt", 0)
  PROVE  CallerInv'
<1>1. PICK c : c = Decides(loop', action)
  OBVIOUS
<1>2. /\ c.kind = "decision" /\ c.from = loop'.rev /\ c.to = action /\ c.obligation = loop'.pending
      /\ action = "block" => c.epoch = loop'.consumed + 1
  BY <1>1 DEF Decides
<1>3. /\ loop'.rev \in Nat /\ loop'.pending \in Request /\ loop'.consumed \in Nat
      /\ loop'.pending # NoTransition /\ loop'.status = "running"
  BY DEF StoreInv, LoopShape, Obliged
<1>4. ~Opens(c)
  BY <1>2 DEF Opens, RoleOf
<1>5. IsReceipt(c)'
  BY <1>2, <1>3, <1>4 DEF IsReceipt, Kind, Opens
<1>6. Follows(loop, c)'
  <2>1. action = "block" => loop'.consumed + 1 <= LapCap
    BY <1>3, LoopAssumption
  <2> QED BY <1>2, <1>3, <2>1 DEF Follows, IsDecision
<1>7. Fresh(c)' /\ Entitled(c, 0)'
  BY <1>2, <1>3, <1>6 DEF Fresh, Entitled, Kind
<1>8. Held(c, "receipt", 0)'
  BY <1>2, <1>3, <1>5, <1>7 DEF Held, IsDecision
<1> QED BY <1>1, <1>8, BecomesCaller

LEMMA EvaluateStopKeeps ==
  ASSUME StoreInv, CallerInv, NEW who, EvaluateStop(who) PROVE StoreInv' /\ CallerInv'
<1>1. StoreInv' /\ Prepared' = {}
  BY RollsForward DEF EvaluateStop, keys
<1>2. CASE caller' = NoCaller
  BY <1>1, <1>2, NoCallerKeeps
<1>3. CASE caller' # NoCaller
  <2>1. PICK action \in {"exhaust", "block"} :
          /\ caller' = Calls(Decides(loop', action), "receipt", 0)
          /\ action = "exhaust" <=> loop'.consumed >= LapCap
    BY <1>3 DEF EvaluateStop
  <2>2. Obliged(loop') /\ ~Blocked(loop'.pending)
    BY <1>3 DEF EvaluateStop
  <2>3. ~Blocked(loop.pending)'
    BY <2>2 DEF Blocked, EvaluateStop, facts
  <2> QED BY <1>1, <2>1, <2>2, <2>3, DecidesHeld
<1> QED BY <1>2, <1>3

LEMMA RecoverSessionKeeps ==
  ASSUME StoreInv, CallerInv, RecoverSession PROVE StoreInv' /\ CallerInv'
<1>1. StoreInv' /\ Prepared' = {}
  BY RollsForward DEF RecoverSession, keys
<1>2. CASE caller' = NoCaller
  BY <1>1, <1>2, NoCallerKeeps
<1>3. CASE caller' # NoCaller
  <2>1. caller' = Calls(Decides(loop', "halt"), "receipt", 0) /\ Obliged(loop')
    BY <1>3 DEF RecoverSession
  <2> QED BY <1>1, <2>1, DecidesHeld
<1> QED BY <1>2, <1>3

(* A new token is of the pending transition alone, and nobody holds the     *)
(* lock meanwhile.                                                          *)
LEMMA IssueCapabilityKeeps ==
  ASSUME StoreInv, CallerInv, IssueCapability PROVE StoreInv' /\ CallerInv'
<1>1. /\ caller' = NoCaller /\ loop.pending \in Request
      /\ issued' = issued + 1 /\ capability' = [capability EXCEPT ![loop.pending] = issued + 1]
      /\ UNCHANGED <<loop, transitions, reports, receipts, shown, accepted>>
  BY DEF IssueCapability, StoreInv, LoopShape, facts
<1>2. /\ Prepared' = Prepared /\ Counted' = Counted /\ Asked' = Asked /\ Blocks' = Blocks
      /\ \A t : OpenedBefore(t) <=> OpenedBefore(t)'
  BY <1>1 DEF Prepared, At, Counted, Asked, OpenedBefore, Opens, Blocks
<1>3. LoopShape'
  BY <1>1 DEF StoreInv, LoopShape
<1>4. TokensApart'
  BY <1>1 DEF StoreInv, LoopShape, TokensApart
<1>5. ReceiptsAgree' /\ PendingOpen' /\ BlocksCounted'
  BY <1>1, <1>2
  DEF StoreInv, ReceiptsAgree, PendingOpen, BlocksCounted, IsReceipt, Opens
<1>6. FilesAgree'
  BY <1>1, FilesKept DEF StoreInv
<1>7. HistoryKept'
  BY <1>1, <1>6, HistoryStays DEF StoreInv
<1> QED BY <1>1, <1>3, <1>4, <1>5, <1>6, <1>7, NoCallerKeeps DEF StoreInv

(* Facts are pruned from a run that is over, of which nobody is about to    *)
(* write a receipt, and none that a receipt names.                          *)
LEMMA PruneRunKeeps ==
  ASSUME StoreInv, CallerInv, PruneRun PROVE StoreInv' /\ CallerInv'
<1>1. PICK lost \in SUBSET {t.id : t \in {u \in transitions : \A c \in receipts : c.id # u.id}} :
        /\ transitions' = {t \in transitions : t.id \notin lost}
        /\ reports' = {p \in reports : p.id \notin lost}
  BY DEF PruneRun
<1>2. UNCHANGED <<loop, receipts, capability, issued, shown, accepted, caller>> /\ StoreKept
  BY DEF PruneRun, keys, StoreKept
<1>3. \A c \in receipts : c.id \notin lost
  BY <1>1
<1>4. FilesAgree'
  <2>1. \A d \in receipts : HasFacts(d)'
    BY <1>1, <1>2, <1>3 DEF StoreInv, FilesAgree, HasFacts
  <2> QED BY <1>1, <1>2, <2>1 DEF StoreInv, FilesAgree, FileOf
<1>5. StoreInv'
  BY <1>1, <1>2, <1>3, <1>4, StoreKeptKeeps
<1>6. CallerInv'
  <2>1. CASE caller = NoCaller
    BY <1>2, <2>1, NoCallerKeeps
  <2>2. CASE caller # NoCaller
    <3>1. PICK c, step, token :
            /\ step \in {"transition", "report", "receipt", "cas", "output"}
            /\ caller = Calls(c, step, token) /\ Held(c, step, token)
      BY <2>2 DEF CallerInv
    <3>2. step \notin {"transition", "report", "receipt"}
      BY <3>1, FollowsActive DEF Held, Fresh, StoreInv, LoopShape, PruneRun, Active, Terminal
    <3>3. Held(c, step, token)'
      BY <1>2, <3>1, <3>2 DEF Held, IsReceipt, Opens
    <3> QED BY <1>2, <3>1, <3>3, BecomesCaller
  <2> QED BY <2>1, <2>2
<1> QED BY <1>5, <1>6

LEMMA CallerDiesKeeps ==
  ASSUME StoreInv, CallerDies PROVE StoreInv' /\ CallerInv'
<1>1. StoreKept /\ UNCHANGED <<loop, transitions, reports, receipts>> /\ caller' = NoCaller
  BY DEF CallerDies, StoreKept, facts
<1>2. FilesAgree'
  BY <1>1, FilesKept DEF StoreInv
<1> QED BY <1>1, <1>2, StoreKeptKeeps, NoCallerKeeps

LEMMA NothingKeeps ==
  ASSUME StoreInv, CallerInv, UNCHANGED loopVars PROVE StoreInv' /\ CallerInv'
<1>1. StoreKept /\ UNCHANGED <<loop, transitions, reports, receipts>> /\ caller' = caller
  BY DEF loopVars, StoreKept, facts
<1>2. FilesAgree'
  BY <1>1, FilesKept DEF StoreInv
<1>3. CASE caller = NoCaller
  BY <1>1, <1>2, <1>3, StoreKeptKeeps, NoCallerKeeps
<1>4. CASE caller # NoCaller
  <2>1. PICK c, step, token :
          /\ step \in {"transition", "report", "receipt", "cas", "output"}
          /\ caller = Calls(c, step, token) /\ Held(c, step, token)
    BY <1>4 DEF CallerInv
  <2>2. Held(c, step, token)'
    BY <1>1, <1>2, <2>1, StillHeld
  <2> QED BY <1>1, <1>2, <2>1, <2>2, StoreKeptKeeps, BecomesCaller
<1> QED BY <1>3, <1>4

LEMMA LoopStep == StoreInv /\ CallerInv /\ [LoopNext]_loopVars => StoreInv' /\ CallerInv'
<1> SUFFICES ASSUME StoreInv, CallerInv, [LoopNext]_loopVars PROVE StoreInv' /\ CallerInv'
  OBVIOUS
<1>1. ASSUME NEW r \in Request, NEW token \in 0..issued, Enter(r, token)
      PROVE StoreInv' /\ CallerInv'
  BY <1>1, EnterKeeps
<1>2. ASSUME NEW who \in {"root"} \cup Role, EvaluateStop(who) PROVE StoreInv' /\ CallerInv'
  BY <1>2, EvaluateStopKeeps
<1> QED
  BY <1>1, <1>2, IssueCapabilityKeeps, PutTransitionKeeps, PutReportKeeps, PutReceiptKeeps,
     SwapStateKeeps, OutputKeeps, RecoverSessionKeeps, CallerDiesKeeps, PruneRunKeeps, NothingKeeps
  DEF LoopNext

-----------------------------------------------------------------------------
(* Files at their limit.                                                    *)

FitInv == FilesFit /\ OperationsFit

LEMMA LimitsNat ==
  /\ Limit["transitions"] \in Nat /\ Limit["operations"] \in Nat /\ Reserve \in Nat
BY LoopAssumption DEF FactKind

LEMMA OperationsFinite ==
  ASSUME StoreInv PROVE IsFiniteSet(Operations) /\ Cardinality(Operations) \in Nat
<1>1. Operations \subseteq receipts /\ IsFiniteSet(receipts)
  BY DEF Operations, StoreInv, BlocksCounted
<1> QED BY <1>1, FS_Subset, FS_CardinalityType

(* One receipt at most is prepared.                                         *)
LEMMA PreparedOne ==
  ASSUME StoreInv, NEW c \in Prepared
  PROVE  /\ c \in receipts /\ c.from = loop.rev /\ IsReceipt(c) /\ Follows(loop, c)
         /\ Prepared = {c} /\ loop.status \in Active
<1>1. /\ c \in receipts /\ c.from = loop.rev /\ IsReceipt(c) /\ Follows(loop, c)
      /\ loop.consumed \in Nat
  BY DEF StoreInv, Prepared, At, ReceiptsAgree, LoopShape, HistoryKept
<1>2. Prepared = {c}
  BY <1>1 DEF StoreInv, Prepared, At, ReceiptsAgree
<1> QED BY <1>1, <1>2, FollowsActive

(* A cancel ends the run; a run halted beyond the limit is only cancelled;   *)
(* an interruption halts one that was not.                                  *)
LEMMA CancelEnds ==
  ASSUME NEW st, NEW c, c.to = "cancel" PROVE After(st, c).status \notin Active
BY DEF After, StatusAfter, Active

LEMMA CancelCancels ==
  ASSUME NEW c, IsReceipt(c), Follows(loop, c), c.kind = "cancel" PROVE c.to = "cancel"
BY DEF IsReceipt, Follows, Kind, IsDecision, Leads

LEMMA LockedCancels ==
  ASSUME StoreInv, Locked, NEW c \in Prepared PROVE c.to = "cancel"
<1>1. c \in receipts /\ c.from = loop.rev /\ IsReceipt(c) /\ Follows(loop, c)
  BY PreparedOne
<1>2. ~IsDecision(c) /\ c.kind # "interrupt"
  BY <1>1 DEF Locked, Halted, Follows, Interruptible, IsDecision
<1>3. \E t \in transitions : t.from = c.from /\ t.to = c.to
  BY <1>1, <1>2 DEF StoreInv, FilesAgree, HasFacts
<1> QED BY <1>1, <1>3 DEF Locked

LEMMA InterruptHalts ==
  ASSUME NEW c, IsReceipt(c), c.kind = "interrupt"
  PROVE  /\ Follows(loop, c) => ~Halted
         /\ After(loop, c).status = "interrupted" /\ After(loop, c).needsHuman
BY DEF IsReceipt, Follows, Interruptible, Halted, IsDecision, After, StatusAfter

LEMMA DecisionRuns ==
  ASSUME NEW c, Follows(loop, c), IsDecision(c) PROVE ~Halted
BY DEF Follows, IsDecision, Halted

(* Nothing but the holder of the lock, or callers that died, changes.       *)
LEMMA FitStays ==
  ASSUME FitInv, UNCHANGED <<loop, transitions, receipts>>, loopCrashes' \in Nat,
         loopCrashes' >= loopCrashes, Working => Working' \/ loopCrashes' > loopCrashes
  PROVE  FitInv'
<1>1. /\ Prepared' = Prepared /\ Operations' = Operations /\ (Halted <=> Halted')
      /\ (Locked <=> Locked')
  BY DEF Prepared, At, Operations, Halted, Locked
<1>2. OperationsFit'
  BY <1>1 DEF FitInv, OperationsFit, One
<1>3. IsFiniteSet(transitions) /\ Cardinality(transitions) \in Nat /\ loopCrashes \in Nat
  BY FS_CardinalityType DEF FitInv, FilesFit
<1>4. FilesFit'
  BY <1>1, <1>3, LimitsNat DEF FitInv, FilesFit, One
<1> QED BY <1>2, <1>4 DEF FitInv

(* The step to the next revision.                                           *)
LEMMA FitAdvances ==
  ASSUME StoreInv, FitInv, NEW c \in Prepared, loop' = After(loop, c),
         UNCHANGED <<transitions, receipts, loopCrashes>>,
         StoreInv', Prepared' = {}, Working => Reserved(c), ~Working'
  PROVE  FitInv'
<1>1. /\ c \in receipts /\ c.from = loop.rev /\ IsReceipt(c) /\ Follows(loop, c)
      /\ Prepared = {c} /\ loop.status \in Active
  BY PreparedOne
<1>2. /\ IsFiniteSet(transitions) /\ Cardinality(transitions) \in Nat /\ loopCrashes \in Nat
      /\ Cardinality(Operations) \in Nat /\ Operations' = Operations
  BY FS_CardinalityType, OperationsFinite DEF FitInv, FilesFit, Operations
<1>3. CASE c.to = "cancel"
  BY <1>2, <1>3, CancelEnds DEF FitInv, FilesFit, OperationsFit
<1>4. CASE c.to # "cancel" /\ c.kind # "interrupt"
  <2>1. ~Locked /\ ~Reserved(c) /\ ~Working
    BY <1>1, <1>4, LockedCancels, CancelCancels DEF Reserved
  <2>2. FilesFit'
    BY <1>1, <1>2, <2>1, LimitsNat DEF FitInv, FilesFit, One
  <2>3. Cardinality(Operations) <= Limit["operations"]
    <3>1. CASE IsDecision(c)
      BY <1>1, <1>2, <2>1, <3>1, DecisionRuns, LimitsNat DEF FitInv, OperationsFit, One
    <3>2. CASE ~IsDecision(c)
      BY <1>1, <2>1, <3>2 DEF FitInv, OperationsFit
    <3> QED BY <3>1, <3>2
  <2>4. OperationsFit'
    BY <1>2, <2>3, LimitsNat DEF OperationsFit, One
  <2> QED BY <2>2, <2>4 DEF FitInv
<1>5. CASE c.kind = "interrupt"
  <2>1. ~Halted /\ Halted' /\ ~Locked
    BY <1>1, <1>5, InterruptHalts DEF Halted, Locked
  <2>2. Locked'
    <3>1. loop'.rev = loop.rev + 1 /\ loop.rev \in Nat
      BY AfterIs DEF StoreInv, LoopShape
    <3>2. \A t \in transitions : t.from # loop'.rev
      BY <3>1 DEF StoreInv, FilesAgree
    <3> QED BY <2>1, <3>2 DEF Locked
  <2>3. FilesFit'
    BY <1>1, <1>2, <2>1, <2>2, LimitsNat DEF FitInv, FilesFit, One
  <2>4. OperationsFit'
    BY <1>1, <1>2, <2>1, LimitsNat DEF FitInv, OperationsFit, One
  <2> QED BY <2>3, <2>4 DEF FitInv
<1> QED BY <1>3, <1>4, <1>5

(* A call that takes the lock has nothing in hand yet.                      *)
LEMMA FitRollsForward ==
  ASSUME StoreInv, FitInv, caller = NoCaller, loop' = RolledForward,
         UNCHANGED <<facts, capability, issued, shown, accepted, loopCrashes>>, ~Working'
  PROVE  FitInv'
<1>1. StoreInv' /\ Prepared' = {} /\ UNCHANGED <<transitions, receipts>>
  BY RollsForward DEF facts
<1>2. ~Working
  BY DEF Working, NoCaller
<1>3. CASE Prepared = {}
  <2>1. loop' = loop /\ loopCrashes \in Nat
    BY <1>3 DEF RolledForward, FitInv, FilesFit
  <2> QED BY <1>1, <1>2, <2>1, FitStays
<1>4. CASE Prepared # {}
  <2>1. Only(Prepared) \in Prepared
    BY <1>4 DEF Only
  <2> QED BY <1>1, <1>2, <1>4, <2>1, FitAdvances DEF RolledForward
<1> QED BY <1>3, <1>4

LEMMA TakersFit ==
  ASSUME StoreInv, FitInv,
         \/ \E r \in Request, token \in 0..issued : Enter(r, token)
         \/ \E who \in {"root"} \cup Role : EvaluateStop(who)
         \/ RecoverSession
  PROVE  FitInv'
<1>1. /\ caller = NoCaller /\ loop' = RolledForward
      /\ UNCHANGED <<facts, capability, issued, shown, accepted, loopCrashes>>
  BY DEF Enter, EvaluateStop, RecoverSession, keys
<1>2. ~Working'
  <2>1. \/ caller' = NoCaller \/ \E c : caller' = Calls(c, "transition", caller'.token)
        \/ \E action : caller' = Calls(Decides(loop', action), "receipt", 0)
    BY DEF Enter, EvaluateStop, RecoverSession, Calls
  <2>2. \A action : ~Reserved(Decides(loop', action))
    BY DEF Reserved, Decides
  <2>3. CASE \E action : caller' = Calls(Decides(loop', action), "receipt", 0)
    BY <2>2, <2>3 DEF Working, Calls
  <2> QED BY <2>1, <2>3 DEF Working, Calls, NoCaller
<1> QED BY <1>1, <1>2, FitRollsForward

(* A full kind is left as it is; there is always room for the operation of   *)
(* an interruption or a cancel.                                             *)
LEMMA OverflowFits ==
  ASSUME FitInv, NEW c, ~Working, Overflow(c) PROVE FitInv'
<1>1. /\ UNCHANGED <<loop, transitions, receipts, loopCrashes>> /\ loopCrashes \in Nat
  BY DEF Overflow, facts, FitInv, FilesFit
<1> QED BY <1>1, FitStays

LEMMA PutTransitionFits ==
  ASSUME StoreInv, CallerInv, FitInv, PutTransition PROVE FitInv'
<1>1. PICK c, token : caller = Calls(c, "transition", token) /\ Held(c, "transition", token)
  BY CallerIs DEF PutTransition
<1>2. caller.receipt = c /\ ~Working
  BY <1>1 DEF Calls, Working
<1>3. CASE Overflow(c)
  BY <1>2, <1>3, OverflowFits
<1>4. CASE ~Overflow(c)
  <2>1. PICK t : t = FileOf(c)
    OBVIOUS
  <2>2. /\ transitions' = transitions \cup {t}
        /\ NextStep(IF c.kind = "report" THEN "report" ELSE "receipt")
        /\ t \notin transitions => Room("transitions", transitions, c)
        /\ UNCHANGED <<loop, receipts, loopCrashes>>
    BY <1>2, <1>4, <2>1 DEF PutTransition, FileOf
  <2>3. /\ IsReceipt(c) /\ Follows(loop, c) /\ loopCrashes \in Nat
        /\ Cardinality(transitions) \in Nat /\ IsFiniteSet(transitions)
    BY <1>1, FS_CardinalityType DEF Held, Fresh, FitInv, FilesFit
  <2>4. Reserved(c) => Working'
    BY <1>1, <2>2 DEF NextStep, Working, Reserved, Calls
  <2>5. OperationsFit'
    <3>1. Operations' = Operations /\ Prepared' = Prepared /\ (Halted <=> Halted')
      BY <2>2 DEF Operations, Halted, Prepared, At
    <3> QED BY <2>2, <3>1 DEF FitInv, OperationsFit
  <2>6. CASE t \in transitions
    <3>1. transitions' = transitions
      BY <2>2, <2>6
    <3> QED BY <1>2, <2>2, <2>3, <3>1, FitStays
  <2>7. CASE t \notin transitions /\ ~Reserved(c)
    <3>1. Cardinality(transitions) < Limit["transitions"]
      BY <2>2, <2>7, LimitsNat DEF Room, Reserved
    <3>2. /\ IsFiniteSet(transitions') /\ Cardinality(transitions') \in Nat
          /\ Cardinality(transitions') <= Cardinality(transitions) + 1
      BY <2>2, <2>3, OneMore
    <3>3. FilesFit'
      BY <2>2, <2>3, <3>1, <3>2, LimitsNat DEF FilesFit, One
    <3> QED BY <2>5, <3>3 DEF FitInv
  <2>8. CASE t \notin transitions /\ Reserved(c)
    <3>1. Locked => Locked'
      <4>1. c.kind = "interrupt" => ~Locked
        BY <2>3, InterruptHalts DEF Locked
      <4>2. c.kind = "cancel" => t.to = "cancel"
        BY <2>1, <2>3, CancelCancels DEF FileOf
      <4> QED BY <2>2, <2>8, <4>1, <4>2 DEF Locked, Halted, Reserved
    <3>2. /\ IsFiniteSet(transitions') /\ Cardinality(transitions') \in Nat
          /\ Cardinality(transitions') <= Cardinality(transitions) + 1
      BY <2>2, <2>3, OneMore
    <3>3. FilesFit'
      BY <1>2, <2>2, <2>3, <2>4, <2>8, <3>1, <3>2, LimitsNat DEF FitInv, FilesFit, One
    <3> QED BY <2>5, <3>3 DEF FitInv
  <2> QED BY <2>6, <2>7, <2>8
<1> QED BY <1>3, <1>4

LEMMA PutReportFits ==
  ASSUME StoreInv, CallerInv, FitInv, PutReport PROVE FitInv'
<1>1. PICK c, token : caller = Calls(c, "report", token) /\ Held(c, "report", token)
  BY CallerIs DEF PutReport
<1>2. caller.receipt = c /\ ~Working
  BY <1>1 DEF Calls, Working
<1>3. CASE Overflow(c)
  BY <1>2, <1>3, OverflowFits
<1>4. CASE ~Overflow(c)
  <2>1. UNCHANGED <<loop, transitions, receipts, loopCrashes>> /\ loopCrashes \in Nat
    BY <1>2, <1>4 DEF PutReport, FitInv, FilesFit
  <2> QED BY <1>2, <2>1, FitStays
<1> QED BY <1>3, <1>4

LEMMA PutReceiptFits ==
  ASSUME StoreInv, CallerInv, FitInv, PutReceipt PROVE FitInv'
<1>1. PICK c, token : caller = Calls(c, "receipt", token) /\ Held(c, "receipt", token)
  BY CallerIs DEF PutReceipt
<1>2. caller.receipt = c /\ (Working <=> Reserved(c))
  BY <1>1 DEF Calls, Working
<1>3. /\ IsReceipt(c) /\ Follows(loop, c) /\ Prepared = {} /\ loop.status \in Active
      /\ c.from = loop.rev
      /\ IsFiniteSet(transitions) /\ Cardinality(transitions) \in Nat /\ loopCrashes \in Nat
      /\ IsFiniteSet(Operations) /\ Cardinality(Operations) \in Nat
  BY <1>1, FollowsActive, OperationsFinite, FS_CardinalityType
  DEF Held, Fresh, StoreInv, LoopShape, FitInv, FilesFit
<1>4. ~IsDecision(c) => {o \in receipts : IsDecision(o) = IsDecision(c)} = Operations
  BY Zenon DEF Operations, IsDecision
<1>5. Reserved(c) => ~IsDecision(c)
  BY DEF Reserved, IsDecision
<1>6. CASE Overflow(c)
  <2>2. CASE ~Reserved(c)
    BY <1>2, <1>6, <2>2, OverflowFits
  <2>3. CASE Reserved(c)
    <3>1. /\ UNCHANGED <<loop, transitions, receipts, loopCrashes>>
      BY <1>6 DEF Overflow, facts
    <3>2. Reserve >= 2 => Room("operations", Operations, c)
      BY <1>3, <2>3, LimitsNat DEF FitInv, OperationsFit, One, Room, Reserved
    <3>3. ASSUME Reserve >= 2 PROVE FALSE
      <4>1. receipts' = receipts \cup {c}
        BY <1>2, <1>4, <1>5, <2>3, <3>2, <3>3 DEF PutReceipt
      <4>2. c \in receipts
        BY <3>1, <4>1
      <4> QED BY <1>3, <4>2 DEF Prepared, At
    <3>4. OperationsFit'
      BY <3>1 DEF FitInv, OperationsFit, Operations, Halted, Prepared, At
    <3> QED BY <1>3, <3>1, <3>3, <3>4 DEF FitInv, FilesFit
  <2> QED BY <2>2, <2>3
<1>7. CASE ~Overflow(c)
  <2>1. /\ receipts' = receipts \cup {c} /\ NextStep("cas")
        /\ ~IsDecision(c) => Room("operations", Operations, c)
        /\ UNCHANGED <<loop, transitions, loopCrashes>>
    BY <1>2, <1>4, <1>7 DEF PutReceipt
  <2>2. Working <=> Working'
    BY <1>1, <1>2, <2>1 DEF NextStep, Working, Calls
  <2>3. FilesFit'
    <3>1. (Locked <=> Locked')
      BY <2>1 DEF Locked, Halted
    <3> QED BY <1>3, <2>1, <2>2, <3>1, LimitsNat DEF FitInv, FilesFit, One
  <2>4. Prepared' = {c} /\ (Halted <=> Halted')
    BY <1>3, <2>1 DEF Prepared, At, Halted
  <2>5. CASE IsDecision(c)
    <3>1. Operations' = Operations
      BY <2>1, <2>5 DEF Operations
    <3>2. ~Halted
      BY <1>3, <2>5, DecisionRuns
    <3>3. ~\E d \in Prepared : Reserved(d)
      BY <1>3
    <3>4. OperationsFit'
      BY <1>3, <1>5, <2>1, <2>4, <2>5, <3>1, <3>2, <3>3, LimitsNat DEF FitInv, OperationsFit, One
    <3> QED BY <2>3, <3>4 DEF FitInv
  <2>6. CASE ~IsDecision(c)
    <3>1. Operations' = Operations \cup {c}
      BY <2>1, <2>6 DEF Operations
    <3>2. Cardinality(Operations') \in Nat /\ Cardinality(Operations') <= Cardinality(Operations) + 1
      BY <1>3, <3>1, OneMore
    <3>3. ~\E d \in Prepared : Reserved(d)
      BY <1>3
    <3>4. CASE Reserved(c)
      <4>1. Cardinality(Operations) <= Limit["operations"] + One(Halted)
        BY <1>3, <3>3, LimitsNat DEF FitInv, OperationsFit, One
      <4>2. OperationsFit'
        BY <1>3, <2>1, <2>4, <3>2, <3>4, <4>1, LimitsNat DEF OperationsFit, One
      <4> QED BY <2>3, <4>2 DEF FitInv
    <3>5. CASE ~Reserved(c)
      <4>1. Cardinality(Operations) < Limit["operations"]
        BY <2>1, <2>6, <3>5, LimitsNat DEF Room, Reserved
      <4>2. OperationsFit'
        BY <1>3, <2>1, <2>4, <3>2, <3>5, <4>1, LimitsNat DEF OperationsFit, One
      <4> QED BY <2>3, <4>2 DEF FitInv
    <3> QED BY <3>4, <3>5
  <2> QED BY <2>5, <2>6
<1> QED BY <1>6, <1>7

LEMMA SwapStateFits ==
  ASSUME StoreInv, CallerInv, FitInv, SwapState PROVE FitInv'
<1>1. PICK c, token : caller = Calls(c, "cas", token) /\ Held(c, "cas", token)
  BY CallerIs DEF SwapState
<1>2. /\ caller.receipt = c /\ loop' = After(loop, c) /\ (Working <=> Reserved(c))
      /\ UNCHANGED <<facts, transitions, receipts, loopCrashes, capability, issued, shown, accepted>>
  BY <1>1 DEF Calls, SwapState, facts, keys, Working
<1>3. c \in Prepared
  BY <1>1 DEF Held, Prepared, At
<1>4. StoreInv' /\ Prepared' = {}
  BY <1>2, <1>3, Advances
<1>5. ~Working'
  <2>1. caller' = NoCaller \/ caller' = [caller EXCEPT !.step = "output"]
    BY DEF SwapState
  <2> QED BY <1>1, <2>1 DEF Working, NoCaller, Calls
<1> QED BY <1>2, <1>3, <1>4, <1>5, FitAdvances

LEMMA FitStep ==
  StoreInv /\ CallerInv /\ FitInv /\ [LoopNext]_loopVars => FitInv'
<1> SUFFICES ASSUME StoreInv, CallerInv, FitInv, [LoopNext]_loopVars PROVE FitInv'
  OBVIOUS
<1>1. loopCrashes \in Nat
  BY DEF FitInv, FilesFit
<1>2. CASE IssueCapability \/ Output
  <2>1. UNCHANGED <<loop, transitions, receipts, loopCrashes>> /\ ~Working
    BY <1>2 DEF IssueCapability, Output, facts, Working, NoCaller
  <2> QED BY <1>1, <2>1, FitStays
<1>3. CASE CallerDies
  <2>1. UNCHANGED <<loop, transitions, receipts>> /\ loopCrashes' = loopCrashes + 1
    BY <1>3 DEF CallerDies, facts
  <2> QED BY <1>1, <2>1, FitStays
<1>4. CASE PruneRun
  <2>1. transitions' \subseteq transitions /\ UNCHANGED <<loop, loopCrashes>> /\ loop.status \notin Active
    BY <1>4 DEF PruneRun, Active, Terminal
  <2>2. IsFiniteSet(transitions')
    BY <2>1, FS_Subset DEF FitInv, FilesFit
  <2> QED BY <1>1, <2>1, <2>2 DEF FitInv, FilesFit, OperationsFit
<1>5. CASE UNCHANGED loopVars
  <2>1. UNCHANGED <<loop, transitions, receipts, loopCrashes, caller>> /\ (Working <=> Working')
    BY <1>5 DEF loopVars, facts, Working
  <2> QED BY <1>1, <2>1, FitStays
<1>6. CASE \/ \E r \in Request, token \in 0..issued : Enter(r, token)
           \/ \E who \in {"root"} \cup Role : EvaluateStop(who)
           \/ RecoverSession
  BY <1>6, TakersFit
<1> QED
  BY <1>2, <1>3, <1>4, <1>5, <1>6, PutTransitionFits, PutReportFits, PutReceiptFits, SwapStateFits
  DEF LoopNext

-----------------------------------------------------------------------------
(* The theorems.                                                            *)

LoopInv == StoreInv /\ CallerInv /\ FitInv

LEMMA LoopStarts == LoopInit => LoopInv
<1> SUFFICES ASSUME LoopInit PROVE LoopInv
  OBVIOUS
<1>1. /\ loop = Drafted /\ transitions = {} /\ receipts = {} /\ accepted = {}
      /\ loop.rev = 0 /\ loop.consumed = 0 /\ loop.pending = NoTransition
      /\ caller = NoCaller /\ loopCrashes = 0
  BY DEF LoopInit, Drafted
<1>2. Counted = {} /\ Prepared = {} /\ Asked = {} /\ Blocks = {} /\ Operations = {}
  BY <1>1 DEF Counted, Prepared, At, Asked, Blocks, Operations
<1>3. Cardinality({}) = 0 /\ IsFiniteSet({})
  BY FS_EmptySet
<1>4. HistoryKept
  <2>1. PICK f : f = [n \in 0..0 |-> Drafted]
    OBVIOUS
  <2>2. f = [n \in 0..loop.rev |-> IF n = 0 THEN Drafted ELSE After(f[n - 1], Only(At(n - 1)))]
    BY <1>1, <2>1
  <2>3. Replays(Replay, loop.rev)
    BY <2>2, ReplayChosen DEF Replays
  <2>4. \A n \in 0..loop.rev : Replay[n] = Drafted /\ n = 0
    BY <1>1, <2>3 DEF Replays
  <2> QED BY <1>1, <1>2, <2>3, <2>4 DEF HistoryKept
<1>5. LoopShape /\ ReceiptsAgree /\ FilesAgree /\ PendingOpen /\ TokensApart
  BY <1>1, <1>2
  DEF LoopInit, LoopShape, ReceiptsAgree, FilesAgree, PendingOpen, TokensApart
<1>6. BlocksCounted
  BY <1>1, <1>2, <1>3 DEF LoopInit, BlocksCounted
<1>7. FitInv
  <2>1. ~(\E c \in Prepared : Reserved(c))
    BY <1>2
  <2>2. FilesFit /\ OperationsFit
    BY <1>1, <1>2, <1>3, <2>1, LimitsNat DEF FilesFit, OperationsFit, One
  <2> QED BY <2>2 DEF FitInv
<1> QED BY <1>1, <1>4, <1>5, <1>6, <1>7 DEF LoopInv, StoreInv, CallerInv

LEMMA LoopHolds == LoopSpec => []LoopInv
<1>1. LoopInv /\ [LoopNext]_loopVars => LoopInv'
  BY LoopStep, FitStep DEF LoopInv
<1> QED BY <1>1, LoopStarts, PTL DEF LoopSpec

(* The control plane of a loop tells each thing once: a transition is       *)
(* answered by one report and a capability used for one, and a hook is told *)
(* at most once for a transition to go on and no more often than laps are   *)
(* accounted for, for any requests, file limits and dead callers.           *)
THEOREM LoopToldOnce == LoopSpec => []ToldOnce
<1>1. LoopInv => ToldOnce
  <2> SUFFICES ASSUME StoreInv PROVE AnsweredOnce /\ BlockedOnce
    BY DEF LoopInv, ToldOnce
  <2>1. AnsweredOnce
    BY DEF StoreInv, PendingOpen, TokensApart, AnsweredOnce
  <2>2. {t \in Request : shown[t] = 1} \subseteq Counted
    BY DEF StoreInv, BlocksCounted
  <2>3. /\ Cardinality({t \in Request : shown[t] = 1}) <= Cardinality(Counted)
        /\ Cardinality({t \in Request : shown[t] = 1}) \in Nat
    BY <2>2, CountedFinite, FS_Subset, FS_CardinalityType
  <2>4. Cardinality(Counted) <= loop.consumed /\ loop.consumed \in Nat
    BY DEF StoreInv, BlocksCounted, LoopShape
  <2>5. BlockedOnce
    BY <2>3, <2>4, CountedFinite DEF StoreInv, BlocksCounted, BlockedOnce
  <2> QED BY <2>1, <2>5
<1> QED BY <1>1, LoopHolds, PTL

(* A run that is not over can be steered and ended, however many callers     *)
(* died between two files: what they leave replays to the state, the next   *)
(* caller accepts it, and facts at their limit leave room for a cancel while *)
(* the reserve exceeds by two the callers that died.                        *)
THEOREM LoopStaysControllable == LoopSpec => []StaysControllable
<1>1. StoreInv => HistoryValid
  <2> SUFFICES ASSUME StoreInv PROVE HistoryValid
    OBVIOUS
  <2>1. \A c \in receipts : c.from <= loop.rev /\ HasFacts(c)
    BY DEF StoreInv, ReceiptsAgree, FilesAgree
  <2>2. ASSUME NEW n \in 0..(loop.rev - 1) PROVE Cardinality(At(n)) = 1
    <3>1. PICK c \in receipts : c.from = n
      BY DEF StoreInv, HistoryKept
    <3>2. At(n) = {c}
      BY <3>1 DEF StoreInv, ReceiptsAgree, At
    <3> QED BY <3>2, FS_Singleton
  <2>3. Cardinality(Prepared) <= 1
    <3>1. CASE Prepared = {}
      BY <3>1, FS_EmptySet
    <3>2. CASE Prepared # {}
      <4>1. PICK c \in Prepared : Prepared = {c}
        BY <3>2, PreparedOne
      <4>2. Cardinality(Prepared) = 1
        BY <4>1, FS_Singleton
      <4> QED BY <4>2
    <3> QED BY <3>1, <3>2
  <2>4. loop.consumed = Cardinality({c \in receipts : c.to = "block" /\ c.from < loop.rev})
    BY DEF StoreInv, BlocksCounted, Blocks
  <2>5. /\ Replay[loop.rev] = loop /\ \A c \in Prepared : Follows(loop, c)
        /\ \A n \in 0..(loop.rev - 1) : Follows(Replay[n], Only(At(n)))
    BY DEF StoreInv, HistoryKept
  <2> QED BY <2>1, <2>2, <2>3, <2>4, <2>5 DEF HistoryValid
<1>2. StoreInv /\ FitInv => CancelFits
  <2> SUFFICES ASSUME StoreInv, FitInv, loop.status \in Active, caller = NoCaller, Prepared = {},
                      loopCrashes + 2 <= Reserve
               PROVE  /\ Cardinality(transitions) < Limit["transitions"] + Reserve
                      /\ Cardinality(Operations) < Limit["operations"] + Reserve
    BY DEF CancelFits
  <2>1. ~Working /\ ~\E c \in Prepared : Reserved(c)
    BY DEF Working, NoCaller
  <2>2. loopCrashes \in Nat /\ Cardinality(transitions) \in Nat /\ Cardinality(Operations) \in Nat
    BY FS_CardinalityType, OperationsFinite DEF FitInv, FilesFit
  <2> QED BY <2>1, <2>2, LimitsNat DEF FitInv, FilesFit, OperationsFit, One
<1>3. LoopInv => StaysControllable
  BY <1>1, <1>2 DEF LoopInv, StaysControllable
<1> QED BY <1>3, LoopHolds, PTL

-----------------------------------------------------------------------------
(* What the state of a loop can be.                                         *)

LoopRecord ==
  [status : Active \cup Terminal, lap : 0..LapCap, pending : Request \cup {NoTransition},
   consumed : 0..LapCap, needsHuman : BOOLEAN, rev : Nat]

(* A receipt that is to lead on keeps the laps and blocks within their cap. *)
Bounded(c) ==
  /\ c.lap \in 0..LapCap /\ (c.to = "block" => c.epoch \in 0..LapCap)
  /\ c.kind = "report" \/ Opens(c) => c.id \in Request
LoopTyped ==
  /\ loop \in LoopRecord
  /\ \A c \in Prepared : Bounded(c)
  /\ caller.step \in {"transition", "report", "receipt", "cas"} => Bounded(caller.receipt)
  /\ \A q \in reports : q.id \in Request

(* A bounded receipt leads to a state that is one.                          *)
LEMMA AfterBounded ==
  ASSUME NEW st \in LoopRecord, NEW c, Bounded(c) PROVE After(st, c) \in LoopRecord
<1>1. StatusAfter(st, c.to) \in Active \cup Terminal
  BY DEF StatusAfter, LoopRecord, Active, Terminal
<1>2. (IF RoleOf(c.to) # "nobody" THEN c.id
       ELSE IF c.to \in {"succeed", "cap", "exhaust", "cancel"} THEN NoTransition
       ELSE st.pending) \in Request \cup {NoTransition}
  BY DEF Bounded, Opens, LoopRecord
<1>3. (IF c.to = "block" THEN c.epoch ELSE st.consumed) \in 0..LapCap
  BY DEF Bounded, LoopRecord
<1>4. (CASE c.to \in {"interrupt", "halt", "exhaust"} -> TRUE
         [] c.to = "resume" -> FALSE
         [] OTHER -> st.needsHuman) \in BOOLEAN
  BY DEF LoopRecord
<1>5. c.lap \in 0..LapCap /\ st.rev + 1 \in Nat
  BY DEF Bounded, LoopRecord
<1> QED BY <1>1, <1>2, <1>3, <1>4, <1>5 DEF After, LoopRecord

(* The receipts that callers make up are bounded.                           *)
LEMMA BuildsBounded ==
  ASSUME NEW st \in LoopRecord, NEW r \in Request PROVE Bounded(Builds(st, r))
<1>1. LapAfter(st, r) \in 0..LapCap
  <2>1. CASE Content[r].kind = "report" /\ Leads(st, r) = "activate-implementer"
    <3>1. ~(st.lap + 1 > LapCap)
      BY <2>1 DEF Leads, Route
    <3> QED BY <2>1, <3>1, LoopAssumption DEF LapAfter, LoopRecord
  <2> QED BY <2>1 DEF LapAfter, LoopRecord
<1>2. Leads(st, r) # "block"
  BY LoopAssumption DEF Leads, Route, Kind
<1> QED BY <1>1, <1>2 DEF Bounded, Builds

LEMMA InterruptionBounded ==
  ASSUME loop \in LoopRecord PROVE Bounded(Interruption)
BY DEF Interruption, Bounded, Opens, RoleOf, LoopRecord

LEMMA DecidesBounded ==
  ASSUME NEW st \in LoopRecord, NEW action \in {"block", "exhaust", "halt"},
         action = "block" => st.consumed < LapCap
  PROVE  Bounded(Decides(st, action))
BY LoopAssumption DEF Decides, Bounded, Opens, RoleOf, LoopRecord

(* Receipts that no later revision leads on from matter no more.            *)
LEMMA TypedAdvances ==
  ASSUME StoreInv, LoopTyped, loop' = loop \/ \E c : Bounded(c) /\ loop' = After(loop, c),
         receipts' = receipts
  PROVE  loop' \in LoopRecord /\ \A c \in Prepared' : Bounded(c)
<1>1. CASE loop' = loop
  BY <1>1 DEF LoopTyped, Prepared, At
<1>2. ASSUME NEW c, Bounded(c), loop' = After(loop, c)
      PROVE  loop' \in LoopRecord /\ \A d \in Prepared' : Bounded(d)
  <2>1. loop' \in LoopRecord
    BY <1>2, AfterBounded DEF LoopTyped
  <2>2. loop'.rev = loop.rev + 1 /\ loop.rev \in Nat
    BY <1>2 DEF After, StoreInv, LoopShape
  <2>3. Prepared' = {}
    BY <2>2 DEF Prepared, At, StoreInv, ReceiptsAgree, IsReceipt
  <2> QED BY <2>1, <2>3
<1> QED BY <1>1, <1>2

LEMMA TypedRolls ==
  ASSUME StoreInv, LoopTyped, loop' = RolledForward, receipts' = receipts
  PROVE  loop' \in LoopRecord /\ \A c \in Prepared' : Bounded(c)
<1>1. CASE Prepared # {}
  <2>1. Only(Prepared) \in Prepared
    BY <1>1 DEF Only
  <2> QED BY <1>1, <2>1, TypedAdvances DEF LoopTyped, RolledForward
<1> QED BY <1>1, TypedAdvances DEF RolledForward

(* A caller that takes the lock.                                            *)
LEMMA TypedTakes ==
  ASSUME StoreInv, LoopTyped, loop' = RolledForward, UNCHANGED <<receipts, reports>>,
         caller' = NoCaller \/ \E c, step, token : caller' = Calls(c, step, token) /\ Bounded(c)
  PROVE  LoopTyped'
<1>1. caller'.step = "none" \/ Bounded(caller'.receipt)
  BY DEF NoCaller, Calls
<1> QED BY <1>1, TypedRolls DEF LoopTyped

(* A caller that goes on, or makes way for an interruption.                 *)
LEMMA TypedWrites ==
  ASSUME LoopTyped, CallerInv, loop' = loop, caller.step \in {"transition", "report", "receipt"},
         \/ \E step : NextStep(step)
         \/ caller' \in {NoCaller, Calls(Interruption, "transition", 0)},
         receipts' = receipts \/ receipts' = receipts \cup {caller.receipt},
         \A q \in reports' : q \in reports \/ q.id \in Request
  PROVE  LoopTyped'
<1>1. Bounded(caller.receipt) /\ Bounded(Interruption)
  BY InterruptionBounded DEF LoopTyped
<1>2. caller = Calls(caller.receipt, caller.step, caller.token)
  BY DEF CallerInv, NoCaller
<1>3. caller'.step = "none" \/ Bounded(caller'.receipt)
  BY <1>1, <1>2 DEF NoCaller, Calls, NextStep
<1>4. \A c \in Prepared' : Bounded(c)
  BY <1>1 DEF LoopTyped, Prepared, At
<1> QED BY <1>3, <1>4 DEF LoopTyped

LEMMA TypedStep == StoreInv /\ LoopTyped /\ CallerInv /\ [LoopNext]_loopVars => LoopTyped'
<1> SUFFICES ASSUME StoreInv, LoopTyped, CallerInv, [LoopNext]_loopVars PROVE LoopTyped'
  OBVIOUS
<1> USE DEF facts, keys
<1>1. ASSUME NEW r \in Request, NEW token, Enter(r, token) PROVE LoopTyped'
  <2>1. loop' \in LoopRecord
    BY <1>1, TypedRolls DEF Enter
  <2>2. Bounded(Builds(loop', r))
    BY <2>1, BuildsBounded
  <2> QED BY <1>1, <2>2, TypedTakes DEF Enter
<1>2. ASSUME NEW who, EvaluateStop(who) PROVE LoopTyped'
  <2>1. loop' \in LoopRecord
    BY <1>2, TypedRolls DEF EvaluateStop
  <2>2. Bounded(Decides(loop', IF loop'.consumed >= LapCap THEN "exhaust" ELSE "block"))
    BY <2>1, DecidesBounded, LoopAssumption DEF LoopRecord
  <2> QED BY <1>2, <2>2, TypedTakes DEF EvaluateStop
<1>3. CASE RecoverSession
  <2>1. loop' \in LoopRecord
    BY <1>3, TypedRolls DEF RecoverSession
  <2>2. Bounded(Decides(loop', "halt"))
    BY <2>1, DecidesBounded
  <2> QED BY <1>3, <2>2, TypedTakes DEF RecoverSession
<1>4. CASE PutTransition
  BY <1>4, TypedWrites DEF PutTransition, Overflow
<1>5. CASE PutReport
  <2>1. caller.receipt.kind = "report"
    BY <1>5 DEF PutReport, CallerInv, Held, NoCaller
  <2>2. caller.receipt.id \in Request
    BY <1>5, <2>1 DEF PutReport, LoopTyped, Bounded
  <2> QED BY <1>5, <2>2, TypedWrites DEF PutReport, Overflow
<1>6. CASE PutReceipt
  BY <1>6, TypedWrites DEF PutReceipt, Overflow
<1>7. CASE SwapState
  <2>1. loop' \in LoopRecord /\ \A c \in Prepared' : Bounded(c)
    BY <1>7, TypedAdvances DEF SwapState, LoopTyped
  <2>2. caller'.step \in {"none", "output"}
    BY <1>7 DEF SwapState, CallerInv, NoCaller, Calls
  <2> QED BY <1>7, <2>1, <2>2 DEF SwapState, LoopTyped
<1>8. CASE IssueCapability \/ Output \/ CallerDies \/ PruneRun \/ UNCHANGED loopVars
  <2>1. UNCHANGED <<loop, receipts>> /\ reports' \subseteq reports /\ caller' \in {caller, NoCaller}
    BY <1>8 DEF IssueCapability, Output, CallerDies, PruneRun, loopVars
  <2> QED BY <2>1 DEF LoopTyped, Prepared, At, NoCaller
<1> QED BY <1>1, <1>2, <1>3, <1>4, <1>5, <1>6, <1>7, <1>8 DEF LoopNext

(* What a loop keeps has its type: laps, and stops that were blocked, stay  *)
(* within the lap cap however callers die and receipts are replayed.        *)
THEOREM LoopIsTyped == LoopSpec => []LoopTypeOK
<1>1. LoopInit => LoopTyped
  BY LoopAssumption
  DEF LoopInit, LoopTyped, LoopRecord, Drafted, Active, Prepared, At, NoCaller
<1>2. LoopInv /\ LoopTyped => LoopTypeOK
  <2> SUFFICES ASSUME StoreInv, LoopTyped PROVE LoopTypeOK
    BY DEF LoopInv
  <2>1. loop \in LoopRecord /\ \A q \in reports : q.id \in Request
    BY DEF LoopTyped
  <2>2. \A t \in transitions : t.id \in Request \cup 0..loop.rev
    BY DEF StoreInv, FilesAgree, LoopShape
  <2> QED BY <2>1, <2>2 DEF LoopTypeOK, LoopRecord
<1>3. LoopInv /\ LoopTyped /\ [LoopNext]_loopVars => LoopTyped'
  BY TypedStep DEF LoopInv
<1> QED BY <1>1, <1>2, <1>3, LoopHolds, PTL DEF LoopSpec

-----------------------------------------------------------------------------
(* What the lock files can be.                                              *)

LockFiles ==
  [ino : Inode \cup {0}, token : 0..MaxTokens, by : Proc \cup {"nobody"}, old : BOOLEAN]
Sight ==
  [lock : Inode \cup {0}, ino : Inode \cup {0}, token : 0..MaxTokens, tried : BOOLEAN]
LockTyped ==
  /\ lockFile \in LockFiles /\ guardFile \in LockFiles /\ aside \in [Proc -> LockFiles]
  /\ seen \in [Proc -> Sight] /\ mine \in [Proc -> 0..MaxTokens] /\ tokens \in 0..MaxTokens

LEMMA NothingTyped == NoFile \in LockFiles /\ Nothing \in Sight
BY FileLockAssumption DEF NoFile, LockFiles, Nothing, Sight

(* The lock or the guard is missing, so a number is free: there is a file    *)
(* besides for each call at most.                                           *)
LEMMA NumberFree ==
  ASSUME LockTyped, lockFile = NoFile \/ guardFile = NoFile PROVE Inode \ InUse # {}
<1> DEFINE A == {aside[p].ino : p \in Proc}
           f == [p \in Proc |-> aside[p].ino]
           g == IF lockFile = NoFile THEN guardFile.ino ELSE lockFile.ino
<1>1. f \in Surjection(Proc, A)
  BY DEF Surjection
<1>2. IsFiniteSet(A) /\ Cardinality(A) <= Cardinality(Proc)
  <2> HIDE DEF f, A
  <2> QED BY <1>1, FS_Surjection, FileLockAssumption
<1>3. Cardinality(A) \in Nat /\ Cardinality(Proc) \in Nat
  BY <1>2, FS_CardinalityType, FileLockAssumption
<1>4. IsFiniteSet(A \cup {g}) /\ Cardinality(A \cup {g}) <= Cardinality(Proc) + 1
      /\ Cardinality(A \cup {g}) \in Nat
  <2> HIDE DEF A, g
  <2>1. /\ IsFiniteSet(A \cup {g})
        /\ Cardinality(A \cup {g}) = IF g \in A THEN Cardinality(A) ELSE Cardinality(A) + 1
    BY <1>2, FS_AddElement
  <2> QED BY <1>2, <1>3, <2>1
<1>5. InUse \ {0} \subseteq A \cup {g}
  BY DEF InUse, NoFile
<1>6. ASSUME Inode \ InUse = {} PROVE FALSE
  <2>1. Inode \subseteq A \cup {g}
    BY <1>5, <1>6, FileLockAssumption
  <2> HIDE DEF A, g
  <2>2. /\ IsFiniteSet(Inode) /\ Cardinality(Inode) <= Cardinality(A \cup {g})
        /\ Cardinality(Inode) \in Nat
    BY <1>4, <2>1, FS_Subset, FS_CardinalityType
  <2> QED BY <1>3, <1>4, <2>2, FileLockAssumption
<1> QED BY <1>6

LEMMA NewFileTyped ==
  ASSUME LockTyped, lockFile = NoFile \/ guardFile = NoFile, tokens < MaxTokens, NEW p \in Proc
  PROVE  NewFile(p) \in LockFiles
<1> DEFINE i == CHOOSE i \in Inode \ InUse : \A j \in Inode \ InUse : i <= j
<1>1. i \in Inode
  BY NumberFree, LeastNumber, FileLockAssumption
<1>2. NewFile(p) = [ino |-> i, token |-> tokens + 1, by |-> p, old |-> FALSE]
  BY DEF NewFile
<1> HIDE DEF i
<1> QED BY <1>1, <1>2, FileLockAssumption DEF LockFiles, LockTyped

(* A step that moves files about, and forgets or observes something.        *)
LEMMA MovesTyped ==
  ASSUME LockTyped, NEW p \in Proc,
         lockFile' \in {lockFile, NoFile}, guardFile' \in {guardFile, NoFile, aside[p]},
         \E file \in {aside[p], guardFile, NoFile} : aside' = [aside EXCEPT ![p] = file],
         \E sight \in Sight : seen' = [seen EXCEPT ![p] = sight],
         mine' = mine \/ mine' = [mine EXCEPT ![p] = 0], tokens' = tokens
  PROVE  LockTyped'
BY NothingTyped, FileLockAssumption DEF LockTyped

LEMMA LockTypedStep == LockTyped /\ [LockNext]_lockFileVars => LockTyped'
<1> SUFFICES ASSUME LockTyped, [LockNext]_lockFileVars PROVE LockTyped'
  OBVIOUS
<1>1. ASSUME NEW p \in Proc
      PROVE  /\ aside = [aside EXCEPT ![p] = aside[p]] /\ seen = [seen EXCEPT ![p] = seen[p]]
             /\ seen[p] \in Sight
  BY DEF LockTyped
<1> USE DEF Steps, Starts, Goes, KeepsFiles
<1>2. ASSUME NEW p \in Proc, NEW sight \in Sight,
             seen' = seen \/ seen' = [seen EXCEPT ![p] = sight],
             mine' = mine \/ mine' = [mine EXCEPT ![p] = 0], KeepsFiles
      PROVE  LockTyped'
  BY <1>1, <1>2, MovesTyped
<1>3. ASSUME NEW p \in Proc, NEW here, Again(p, here)
      PROVE  /\ \E sight \in Sight : seen' = [seen EXCEPT ![p] = sight]
             /\ mine' = mine \/ mine' = [mine EXCEPT ![p] = 0]
  <2>1. [Nothing EXCEPT !.lock = seen[p].lock, !.tried = TRUE] \in Sight
    BY <1>1, NothingTyped DEF Sight
  <2> QED BY <1>3, <2>1, NothingTyped DEF Again
<1>4. ASSUME NEW p \in Proc, Acquire(p) \/ TakesGuard(p) PROVE LockTyped'
  <2>1. NewFile(p) \in LockFiles
    BY <1>4, NewFileTyped DEF Acquire, TakesGuard
  <2>2. tokens + 1 \in 0..MaxTokens
    BY <1>4, FileLockAssumption DEF Acquire, TakesGuard, LockTyped
  <2> QED BY <1>4, <2>1, <2>2 DEF Acquire, TakesGuard, LockTyped
<1>5. ASSUME NEW p \in Proc,
             \/ Occupied(p) \/ Leaves(p) \/ GuardTaken(p) \/ ChecksLock(p) \/ ChecksOwner(p)
             \/ ChecksGuard(p) \/ ChecksAgain(p) \/ CleansUp(p) \/ Dies(p)
      PROVE  LockTyped'
  BY <1>1, <1>2, <1>5, NothingTyped
  DEF Occupied, Leaves, GuardTaken, ChecksLock, ChecksOwner, ChecksGuard, ChecksAgain, CleansUp, Dies
<1>6. ASSUME NEW p \in Proc, LooksAtLock(p) PROVE LockTyped'
  <2>1. [seen[p] EXCEPT !.lock = lockFile.ino] \in Sight
    BY <1>1 DEF LockTyped, Sight, LockFiles
  <2> QED BY <1>1, <1>2, <1>6, <2>1 DEF LooksAtLock
<1>7. ASSUME NEW p \in Proc, LooksAtGuard(p) PROVE LockTyped'
  <2>1. [seen[p] EXCEPT !.ino = guardFile.ino] \in Sight
    BY <1>1 DEF LockTyped, Sight, LockFiles
  <2> QED BY <1>1, <1>2, <1>3, <1>7, <2>1, NothingTyped DEF LooksAtGuard
<1>8. ASSUME NEW p \in Proc, ReadsGuard(p) PROVE LockTyped'
  <2>1. [seen[p] EXCEPT !.token = guardFile.token] \in Sight
    BY <1>1 DEF LockTyped, Sight, LockFiles
  <2> QED BY <1>1, <1>2, <1>3, <1>8, <2>1, NothingTyped DEF ReadsGuard
<1>9. ASSUME NEW p \in Proc, MovesGuard(p) PROVE LockTyped'
  <2>1. CASE guardFile = NoFile
    BY <1>2, <1>3, <1>9, <2>1 DEF MovesGuard
  <2>2. CASE guardFile # NoFile
    BY <1>1, <1>9, <2>2, MovesTyped DEF MovesGuard
  <2> QED BY <2>1, <2>2
<1>10. ASSUME NEW p \in Proc, JudgesGuard(p) PROVE LockTyped'
  BY <1>1, <1>3, <1>10, MovesTyped DEF JudgesGuard
<1>11. ASSUME NEW p \in Proc, RestoresGuard(p) \/ Removes(p) \/ UnlinksLock(p) \/ UnlinksGuard(p)
       PROVE  LockTyped'
  BY <1>1, <1>11, MovesTyped, NothingTyped DEF RestoresGuard, Removes, UnlinksLock, UnlinksGuard
<1>12. CASE LockAges
  BY <1>12 DEF LockAges, LockTyped, LockFiles
<1>13. CASE GuardAges
  BY <1>13 DEF GuardAges, LockTyped, LockFiles
<1>14. CASE UNCHANGED lockFileVars
  BY <1>14 DEF lockFileVars, LockTyped
<1> HIDE DEF Steps, Starts, Goes, KeepsFiles
<1> QED
  BY <1>4, <1>5, <1>6, <1>7, <1>8, <1>9, <1>10, <1>11, <1>12, <1>13, <1>14 DEF LockNext

(* The lock files and what the calls saw of them have their types: there is *)
(* a number free whenever a file is published.                              *)
THEOREM LockIsTyped == LockSpec => []LockTypeOK
<1>1. LockInit => LockTyped
  BY NothingTyped, FileLockAssumption DEF LockInit, LockTyped
<1>2. LockTyped => LockTypeOK
  BY DEF LockTyped, LockTypeOK, LockFiles, Sight
<1> QED BY <1>1, <1>2, LockTypedStep, PTL DEF LockSpec

=============================================================================
