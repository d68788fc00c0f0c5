------------------------------ MODULE FileLock ------------------------------
(***************************************************************************)
(* The lock files of the loop store of the Codex plugin (fs-utils.mjs):    *)
(* withFileLock and the two reclaims, of a stale lock and of the stale      *)
(* guard of a reclaim.  Each call to the file system is a step, and a       *)
(* process may die between any two.  A file is published by link(2), so it  *)
(* is complete when it can be seen; the number of a removed inode is used   *)
(* again at once.                                                          *)
(*                                                                         *)
(* Left out: unsafe paths, read errors other than a missing file, and a    *)
(* process number that the system gives to another process.                *)
(***************************************************************************)
EXTENDS Integers, FiniteSets

CONSTANTS
  Proc,       \* calls of withFileLock, each in a process of its own
  Inode,      \* inode numbers
  MaxTokens,  \* bounds: files published, processes that die
  MaxDeaths

ASSUME FileLockAssumption ==
  /\ IsFiniteSet(Proc) /\ Inode \subseteq Nat \ {0}
  \* a file system has a number free for the next file
  /\ IsFiniteSet(Inode) => Cardinality(Inode) > Cardinality(Proc) + 1
  /\ MaxTokens \in Nat /\ MaxDeaths \in Nat

VARIABLES
  at,        \* where a call is
  lockFile,  \* the file at lockPath, or NoFile
  guardFile, \* the file at lockPath.reclaim, or NoFile
  aside,     \* the quarantined guard of a call, or NoFile
  seen,      \* what a call has observed: the lock's inode, the guard, a first attempt
  mine,      \* the token of the file a call published
  tokens,    \* tokens given out
  displaced  \* history: a guard was moved away while its owner lived

lockFileVars == <<at, lockFile, guardFile, aside, seen, mine, tokens, displaced>>

NoFile == [ino |-> 0, token |-> 0, by |-> "nobody", old |-> FALSE]
Nothing == [lock |-> 0, ino |-> 0, token |-> 0, tried |-> FALSE]
Dead == {p \in Proc : at[p] = "dead"}
Alive(f) == f.by \in Proc \ Dead

InUse == {f.ino : f \in {lockFile, guardFile} \cup {aside[p] : p \in Proc}}
NewFile(p) ==
  LET i == CHOOSE i \in Inode \ InUse : \A j \in Inode \ InUse : i <= j
  IN [ino |-> i, token |-> tokens + 1, by |-> p, old |-> FALSE]

KeepsFiles == UNCHANGED <<lockFile, guardFile, aside, tokens, displaced>>
Goes(p, here, there) == at[p] = here /\ at' = [at EXCEPT ![p] = there]
Steps(p, here, there) == Goes(p, here, there) /\ UNCHANGED <<seen, mine>>
(* The call forgets what it observed.                                       *)
Starts(p, here, there) ==
  /\ Goes(p, here, there)
  /\ seen' = [seen EXCEPT ![p] = Nothing]
  /\ mine' = [mine EXCEPT ![p] = 0]

-------------------------------------------------------------------------------
(* withFileLock.                                                            *)

Acquire(p) ==
  /\ lockFile = NoFile /\ tokens < MaxTokens
  /\ lockFile' = NewFile(p)
  /\ Goes(p, "try", "hold")
  /\ mine' = [mine EXCEPT ![p] = tokens + 1]
  /\ tokens' = tokens + 1
  /\ UNCHANGED <<guardFile, aside, seen, displaced>>

Occupied(p) == lockFile # NoFile /\ Steps(p, "try", "stat") /\ KeepsFiles

(* Only a lock older than staleMs may be reclaimed; the next try, or the    *)
(* time is up.                                                              *)
LooksAtLock(p) ==
  /\ \/ lockFile = NoFile /\ Steps(p, "stat", "try")
     \/ /\ lockFile # NoFile /\ ~lockFile.old
        /\ Steps(p, "stat", "try") \/ Steps(p, "stat", "out")
     \/ /\ lockFile.old
        /\ Goes(p, "stat", "guard")
        /\ seen' = [seen EXCEPT ![p].lock = lockFile.ino]
        /\ UNCHANGED mine
  /\ KeepsFiles

Leaves(p) ==
  /\ Steps(p, "hold", IF lockFile.token = mine[p] THEN "remove" ELSE "out")
  /\ KeepsFiles

Removes(p) ==
  /\ Starts(p, "remove", "out")
  /\ lockFile' = NoFile
  /\ UNCHANGED <<guardFile, aside, tokens, displaced>>

-------------------------------------------------------------------------------
(* tryReclaimStaleLock: the guard first; two attempts.                      *)

TakesGuard(p) ==
  /\ guardFile = NoFile /\ tokens < MaxTokens
  /\ guardFile' = NewFile(p)
  /\ Goes(p, "guard", "check")
  /\ mine' = [mine EXCEPT ![p] = tokens + 1]
  /\ tokens' = tokens + 1
  /\ UNCHANGED <<lockFile, aside, seen, displaced>>

GuardTaken(p) == guardFile # NoFile /\ Steps(p, "guard", "guard_stat") /\ KeepsFiles

(* The guard is gone.                                                       *)
Again(p, here) ==
  \/ seen[p].tried /\ Starts(p, here, "try")
  \/ /\ ~seen[p].tried
     /\ Goes(p, here, "guard")
     /\ seen' = [seen EXCEPT ![p] = [Nothing EXCEPT !.lock = seen[p].lock, !.tried = TRUE]]
     /\ UNCHANGED mine

(* tryReclaimStaleGuard.                                                    *)
LooksAtGuard(p) ==
  /\ \/ guardFile = NoFile /\ Again(p, "guard_stat")
     \/ guardFile # NoFile /\ ~guardFile.old /\ Starts(p, "guard_stat", "try")
     \/ /\ guardFile.old
        /\ Goes(p, "guard_stat", "guard_read")
        /\ seen' = [seen EXCEPT ![p].ino = guardFile.ino]
        /\ UNCHANGED mine
  /\ KeepsFiles

ReadsGuard(p) ==
  /\ \/ guardFile = NoFile /\ Again(p, "guard_read")
     \/ guardFile # NoFile /\ Alive(guardFile) /\ Starts(p, "guard_read", "try")
     \/ /\ guardFile # NoFile /\ ~Alive(guardFile)
        /\ Goes(p, "guard_read", "guard_move")
        /\ seen' = [seen EXCEPT ![p].token = guardFile.token]
        /\ UNCHANGED mine
  /\ KeepsFiles

MovesGuard(p) ==
  \/ guardFile = NoFile /\ Again(p, "guard_move") /\ KeepsFiles
  \/ /\ guardFile # NoFile
     /\ Steps(p, "guard_move", "guard_moved")
     /\ aside' = [aside EXCEPT ![p] = guardFile]
     /\ guardFile' = NoFile
     /\ displaced' = (displaced \/ Alive(guardFile))
     /\ UNCHANGED <<lockFile, tokens>>

JudgesGuard(p) ==
  \/ /\ aside[p].ino = seen[p].ino /\ aside[p].token = seen[p].token
     /\ Again(p, "guard_moved")
     /\ aside' = [aside EXCEPT ![p] = NoFile]
     /\ UNCHANGED <<lockFile, guardFile, tokens, displaced>>
  \/ /\ aside[p].ino # seen[p].ino \/ aside[p].token # seen[p].token
     /\ Steps(p, "guard_moved", "guard_back")
     /\ KeepsFiles

RestoresGuard(p) ==
  /\ Starts(p, "guard_back", "try")
  /\ guardFile' = IF guardFile = NoFile THEN aside[p] ELSE guardFile
  /\ aside' = [aside EXCEPT ![p] = NoFile]
  /\ UNCHANGED <<lockFile, tokens, displaced>>

-------------------------------------------------------------------------------
(* The reclaim under the guard.  Whatever it answers, the guard is removed   *)
(* if it is still there, and the lock tried again.                          *)

ChecksLock(p) ==
  /\ Steps(p, "check", IF lockFile.ino = seen[p].lock /\ lockFile.old THEN "owner" ELSE "clean")
  /\ KeepsFiles
(* Whether the owner lives is not asked.                                    *)
ChecksNoOwner(p) == Steps(p, "owner", IF lockFile # NoFile THEN "own" ELSE "clean") /\ KeepsFiles
ChecksOwner(p) ==
  /\ Steps(p, "owner", IF lockFile # NoFile /\ ~Alive(lockFile) THEN "own" ELSE "clean")
  /\ KeepsFiles
ChecksGuard(p) ==
  /\ Steps(p, "own", IF guardFile.token = mine[p] THEN "final" ELSE "clean")
  /\ KeepsFiles
ChecksAgain(p) ==
  /\ Steps(p, "final", IF lockFile.ino = seen[p].lock THEN "unlink" ELSE "clean")
  /\ KeepsFiles

UnlinksLock(p) ==
  /\ Steps(p, "unlink", "clean")
  /\ lockFile' = NoFile
  /\ UNCHANGED <<guardFile, aside, tokens, displaced>>

CleansUp(p) ==
  /\ \/ guardFile.token = mine[p] /\ Steps(p, "clean", "clean_guard")
     \/ guardFile.token # mine[p] /\ Starts(p, "clean", "try")
  /\ KeepsFiles

UnlinksGuard(p) ==
  /\ Starts(p, "clean_guard", "try")
  /\ guardFile' = NoFile
  /\ UNCHANGED <<lockFile, aside, tokens, displaced>>

-------------------------------------------------------------------------------
(* Time passes over a file; a process dies.  One that owns no file might as *)
(* well do nothing more.                                                    *)

LockAges ==
  /\ lockFile # NoFile /\ ~lockFile.old
  /\ lockFile' = [lockFile EXCEPT !.old = TRUE]
  /\ UNCHANGED <<at, seen, mine, guardFile, aside, tokens, displaced>>
GuardAges ==
  /\ guardFile # NoFile /\ ~guardFile.old
  /\ guardFile' = [guardFile EXCEPT !.old = TRUE]
  /\ UNCHANGED <<at, seen, mine, lockFile, aside, tokens, displaced>>

Dies(p) ==
  /\ p \in {lockFile.by, guardFile.by} \/ aside[p] # NoFile
  /\ Cardinality(Dead) < MaxDeaths /\ at[p] # "out"
  /\ Starts(p, at[p], "dead")
  /\ KeepsFiles

-------------------------------------------------------------------------------

LockInit ==
  /\ at = [p \in Proc |-> "try"]
  /\ lockFile = NoFile /\ guardFile = NoFile
  /\ aside = [p \in Proc |-> NoFile]
  /\ seen = [p \in Proc |-> Nothing]
  /\ mine = [p \in Proc |-> 0]
  /\ tokens = 0
  /\ displaced = FALSE

LockNext ==
  \/ \E p \in Proc :
       \/ Acquire(p) \/ Occupied(p) \/ LooksAtLock(p)
       \/ Leaves(p) \/ Removes(p)
       \/ TakesGuard(p) \/ GuardTaken(p) \/ LooksAtGuard(p) \/ ReadsGuard(p)
       \/ MovesGuard(p) \/ JudgesGuard(p) \/ RestoresGuard(p)
       \/ ChecksLock(p) \/ ChecksOwner(p) \/ ChecksGuard(p) \/ ChecksAgain(p)
       \/ UnlinksLock(p) \/ CleansUp(p) \/ UnlinksGuard(p)
       \/ Dies(p)
  \/ LockAges \/ GuardAges

LockSpec == LockInit /\ [][LockNext]_lockFileVars

-------------------------------------------------------------------------------

LockTypeOK ==
  LET Files == [ino : Inode \cup {0}, token : 0..MaxTokens, by : Proc \cup {"nobody"}, old : BOOLEAN]
  IN /\ {lockFile, guardFile} \cup {aside[p] : p \in Proc} \subseteq Files
     /\ seen \in [Proc -> [lock : Inode \cup {0}, ino : Inode \cup {0}, token : 0..MaxTokens,
                           tried : BOOLEAN]]
     /\ mine \in [Proc -> 0..MaxTokens]
     /\ tokens \in 0..MaxTokens

(* One call at a time runs under the lock, and the lock file is its own: a   *)
(* reclaim removes no lock of a living owner, whoever dies where and       *)
(* whatever inode number is used again.  Claimed while no guard of a living *)
(* owner was moved away (tryReclaimStaleGuard moves before it compares).    *)
Exclusive ==
  displaced \/
    \A p \in Proc : at[p] \in {"hold", "remove"} =>
      /\ lockFile.token = mine[p]
      /\ \A q \in Proc : at[q] \in {"hold", "remove"} => p = q
=============================================================================
