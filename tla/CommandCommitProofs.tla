------------------------ MODULE CommandCommitProofs ------------------------
(******************************************************************************)
(* Proofs about the commit protocol, for any commands, any number of          *)
(* runtimes, overlapping or not, and all bounds: types, then what the store   *)
(* promises whatever the runtimes do, which may write dirty snapshots, crash  *)
(* and retry without bound.  Last, the protocol implements the atomic ledger  *)
(* when runtimes follow one another and no snapshot is written while a        *)
(* command is open; from the same invariant, no deployment stays in between,  *)
(* and retries of a command are answered alike.                               *)
(******************************************************************************)
EXTENDS CommandCommit, TLAPS

(* A runtime with a command open, committing or closing holds that command,   *)
(* and its submission is still at the head of the chain.                      *)
Busy ==
  \A r \in Runtime : rt[r].phase \in {"open", "committing", "closing"} =>
    rt[r].queue # <<>> /\ rt[r].cmd \in Command

TypeInv == TypeOK /\ Busy

USE DEF Runtime

-----------------------------------------------------------------------------
(* Types.                                                                     *)

(* What a runtime does to itself keeps the processes typed and busy ones      *)
(* busy.                                                                      *)
LEMMA ProcessStep ==
  ASSUME TypeInv, NEW r \in Runtime, NEW p \in Process,
         p.phase \in {"open", "committing", "closing"} =>
           p.queue # <<>> /\ p.cmd \in Command,
         rt' = [rt EXCEPT ![r] = p]
  PROVE  rt' \in [Runtime -> Process] /\ Busy'
<1>1. rt' \in [Runtime -> Process]
  BY DEF TypeInv, TypeOK
<1>2. ASSUME NEW q \in Runtime, rt'[q].phase \in {"open", "committing", "closing"}
      PROVE  rt'[q].queue # <<>> /\ rt'[q].cmd \in Command
  <2>1. rt'[q] = IF q = r THEN p ELSE rt[q]
    BY DEF TypeInv, TypeOK
  <2> QED BY <1>2, <2>1 DEF TypeInv, Busy
<1> QED BY <1>1, <1>2 DEF Busy

(* A process that has answered its command.                                   *)
LEMMA AnsweredTyped ==
  ASSUME NEW p \in Process, p.queue # <<>>
  PROVE  Answered(p) \in Process /\ Answered(p).phase = "idle"
<1>1. Tail(p.queue) \in Seq(Command)
  BY DEF Process
<1>2. Idle.saved \in Counts
  BY DEF Idle, Counts
<1> QED BY <1>1, <1>2 DEF Answered, Process, Phase, Result

(* The journal of a command with another status.                              *)
LEMMA JournalTyped ==
  ASSUME journal \in [Command -> Journal], NEW c \in Command,
         NEW status \in {"none", "in_progress", "completed", "aborted"}
  PROVE  JournalAs(c, status) \in [Command -> Journal]
BY DEF JournalAs, Journal

(* A command that fails.                                                      *)
LEMMA UnwindTyped ==
  ASSUME TypeInv, NEW r \in Runtime, NEW outcome \in Result,
         rt[r].phase \in {"open", "committing"},
         Unwind(r, outcome), used' = used \/ used' = [used EXCEPT !.throws = @ + 1]
  PROVE  TypeInv'
<1> DEFINE c == rt[r].cmd
<1>1. c \in Command /\ rt[r] \in Process /\ rt[r].queue # <<>>
  BY DEF TypeInv, TypeOK, Busy
<1>2. Answered(rt[r]) \in Process /\ Answered(rt[r]).phase = "idle"
  BY <1>1, AnsweredTyped
<1>3. [Answered(rt[r]) EXCEPT !.mem = rt[r].saved] \in Process
  BY <1>1, <1>2 DEF Process
<1>4. [Answered(rt[r]) EXCEPT !.mem = rt[r].saved].phase = "idle"
  BY <1>2 DEF Process
<1>5. used' \in [sends : Nat, throws : Nat, dirty : Nat, writeErrors : Nat]
  BY DEF TypeInv, TypeOK
<1>6. JournalAs(c, "aborted") \in [Command -> Journal]
  BY <1>1, JournalTyped DEF TypeInv, TypeOK
<1>7. told' \in [Command -> Result \cup {"error", "nothing"}]
  BY <1>1 DEF Unwind, RollBack, Escape, TypeInv, TypeOK
<1>8. CASE outcome = "ok"
  <2>1. rt' = [rt EXCEPT ![r] = [Answered(rt[r]) EXCEPT !.mem = rt[r].saved]]
    BY <1>8 DEF Unwind, RollBack, TypeInv, TypeOK
  <2>2. rt' \in [Runtime -> Process] /\ Busy'
    BY <2>1, <1>3, <1>4, ProcessStep
  <2> QED BY <1>8, <2>2, <1>5, <1>6, <1>7 DEF Unwind, RollBack, TypeInv, TypeOK
<1>9. CASE outcome # "ok"
  <2>1. rt' = [rt EXCEPT ![r] = Answered(rt[r])]
    BY <1>9 DEF Unwind, Escape, TypeInv, TypeOK
  <2>2. rt' \in [Runtime -> Process] /\ Busy'
    BY <2>1, <1>2, ProcessStep
  <2> QED BY <1>9, <2>2, <1>5, <1>7 DEF Unwind, Escape, store, TypeInv, TypeOK
<1> QED BY <1>8, <1>9

LEMMA SendTyped ==
  ASSUME TypeInv, NEW r \in Runtime, NEW c \in Command, Send(r, c)
  PROVE  TypeInv'
<1> DEFINE p == [rt[r] EXCEPT !.queue = Append(@, c)]
<1>1. rt[r] \in Process
  BY DEF TypeInv, TypeOK
<1>2. Append(rt[r].queue, c) \in Seq(Command) /\ Append(rt[r].queue, c) # <<>>
  <2>1. rt[r].queue \in Seq(Command)
    BY <1>1 DEF Process
  <2>2. ASSUME NEW s \in Seq(Command)
        PROVE  Append(s, c) \in Seq(Command) /\ Len(Append(s, c)) = Len(s) + 1
    OBVIOUS
  <2>3. Append(rt[r].queue, c) # <<>>
    BY <2>1, <2>2
  <2> QED BY <2>1, <2>2, <2>3
<1>3. p \in Process /\ p.queue # <<>> /\ p.phase = rt[r].phase /\ p.cmd = rt[r].cmd
  BY <1>1, <1>2 DEF Process
<1>4. rt' = [rt EXCEPT ![r] = p]
  BY DEF Send, TypeInv, TypeOK
<1>5. rt' \in [Runtime -> Process] /\ Busy'
  BY <1>3, <1>4, ProcessStep DEF TypeInv, Busy
<1>6. expected' \in [Command -> Nat \cup {None}]
  BY <1>1 DEF Send, Process, TypeInv, TypeOK
<1>7. used' \in [sends : Nat, throws : Nat, dirty : Nat, writeErrors : Nat]
  BY DEF Send, TypeInv, TypeOK
<1> QED BY <1>5, <1>6, <1>7 DEF Send, store, TypeInv, TypeOK

LEMMA ReplayTyped ==
  ASSUME TypeInv, NEW r \in Runtime, NEW c \in Command, Replay(r, c)
  PROVE  TypeInv'
<1>1. PICK d \in Recorded(c) :
        rt' = [rt EXCEPT ![r] = [@ EXCEPT !.phase = "closing", !.cmd = c,
                                          !.outcome = rec[d].result, !.todo = Pending]]
  BY DEF Replay
<1> DEFINE p == [rt[r] EXCEPT !.phase = "closing", !.cmd = c,
                              !.outcome = rec[d].result, !.todo = Pending]
<1>2. rt[r] \in Process /\ rt[r].queue # <<>>
  BY DEF TypeInv, TypeOK, Replay, AtHead
<1>3. rec[d].result \in Result /\ Pending \in SUBSET Command
  BY <1>1 DEF Recorded, Record, Pending, TypeInv, TypeOK
<1>4. p \in Process /\ p.queue # <<>> /\ p.cmd \in Command
  BY <1>2, <1>3 DEF Process, Phase
<1>5. rt' = [rt EXCEPT ![r] = p]
  BY <1>1 DEF TypeInv, TypeOK
<1>6. rt' \in [Runtime -> Process] /\ Busy'
  BY <1>4, <1>5, ProcessStep
<1> QED BY <1>6 DEF Replay, store, TypeInv, TypeOK

LEMMA RejectTyped ==
  ASSUME TypeInv, NEW r \in Runtime, NEW c \in Command, Reject(r, c)
  PROVE  TypeInv'
<1>1. rt[r] \in Process /\ rt[r].queue # <<>>
  BY DEF TypeInv, TypeOK, Reject, AtHead
<1>2. Answered(rt[r]) \in Process /\ Answered(rt[r]).phase = "idle"
  BY <1>1, AnsweredTyped
<1>3. rt' = [rt EXCEPT ![r] = Answered(rt[r])]
  BY DEF Reject, TypeInv, TypeOK
<1>4. rt' \in [Runtime -> Process] /\ Busy'
  BY <1>2, <1>3, ProcessStep
<1>5. told' \in [Command -> Result \cup {"error", "nothing"}]
  BY DEF Reject, TypeInv, TypeOK
<1> QED BY <1>4, <1>5 DEF Reject, store, TypeInv, TypeOK

LEMMA StartTyped ==
  ASSUME TypeInv, NEW r \in Runtime, NEW c \in Command, Start(r, c)
  PROVE  TypeInv'
<1> DEFINE p == [rt[r] EXCEPT !.phase = "open", !.cmd = c,
                              !.saved = rt[r].mem, !.mem[c] = @ + 1]
<1>1. rt[r] \in Process /\ rt[r].queue # <<>>
  BY DEF TypeInv, TypeOK, Start, AtHead
<1>2. rt[r].mem \in Counts /\ [rt[r].mem EXCEPT ![c] = @ + 1] \in Counts
  BY <1>1 DEF Process, Counts
<1>3. p \in Process /\ p.queue # <<>> /\ p.cmd \in Command
  BY <1>1, <1>2 DEF Process, Phase
<1>4. rt' = [rt EXCEPT ![r] = p]
  BY DEF Start, TypeInv, TypeOK
<1>5. rt' \in [Runtime -> Process] /\ Busy'
  BY <1>3, <1>4, ProcessStep
<1>6. rt[r].mem[c] \in Nat
  BY <1>2 DEF Counts
<1>7. journal' \in [Command -> Journal]
  BY <1>6 DEF Start, Journal, TypeInv, TypeOK
<1> QED BY <1>5, <1>7 DEF Start, TypeInv, TypeOK

LEMMA FinishTyped ==
  ASSUME TypeInv, NEW r \in Runtime, NEW outcome \in Result, Finish(r, outcome)
  PROVE  TypeInv'
<1> DEFINE p == [rt[r] EXCEPT !.phase = "committing", !.outcome = outcome]
<1>1. rt[r] \in Process /\ rt[r].queue # <<>> /\ rt[r].cmd \in Command
  BY DEF TypeInv, TypeOK, Busy, Finish
<1>2. CASE owner = r
  <2>1. p \in Process /\ p.queue # <<>> /\ p.cmd \in Command
    BY <1>1 DEF Process, Phase
  <2>2. rt' = [rt EXCEPT ![r] = p]
    BY <1>2 DEF Finish, TypeInv, TypeOK
  <2>3. rt' \in [Runtime -> Process] /\ Busy'
    BY <2>1, <2>2, ProcessStep
  <2> QED BY <1>2, <2>3 DEF Finish, store, TypeInv, TypeOK
<1>3. CASE owner # r
  BY <1>3, UnwindTyped DEF Finish
<1> QED BY <1>2, <1>3

LEMMA RecommitTyped ==
  ASSUME TypeInv, NEW r \in Runtime, Recommit(r)
  PROVE  TypeInv'
<1> DEFINE P(d) == [rt[r] EXCEPT
                !.phase = "closing", !.seen = rec[d].version,
                !.outcome = IF @ = "ok" THEN rec[d].result ELSE @,
                !.todo = IF rt[r].outcome = "ok" THEN Pending ELSE {}]
<1>1. PICK d \in Recorded(rt[r].cmd) : rt' = [rt EXCEPT ![r] = P(d)]
  BY DEF Recommit, TypeInv, TypeOK
<1>2. rt[r] \in Process /\ rt[r].queue # <<>> /\ rt[r].cmd \in Command
  BY DEF TypeInv, TypeOK, Busy, Recommit
<1>3. rec[d].result \in Result /\ rec[d].version \in Nat /\ Pending \in SUBSET Command
  BY <1>1 DEF Recorded, Record, Pending, TypeInv, TypeOK
<1>4. P(d) \in Process /\ P(d).queue # <<>> /\ P(d).cmd \in Command
  BY <1>2, <1>3 DEF Process, Phase
<1> HIDE DEF P
<1>5. rt' \in [Runtime -> Process] /\ Busy'
  BY <1>1, <1>4, ProcessStep
<1> QED BY <1>5 DEF Recommit, store, TypeInv, TypeOK

LEMMA CommitTyped ==
  ASSUME TypeInv, NEW r \in Runtime, Commit(r)
  PROVE  TypeInv'
<1> DEFINE c == rt[r].cmd
           p == [rt[r] EXCEPT !.phase = "closing", !.seen = NextVersion(c),
                   !.todo = IF rt[r].outcome = "ok"
                              THEN {e \in Command : outbox'[e] = "pending"} ELSE {}]
<1>1. rt[r] \in Process /\ rt[r].queue # <<>> /\ c \in Command
  BY DEF TypeInv, TypeOK, Busy, Commit
<1>2. NextVersion(c) \in Nat
  BY DEF NextVersion, TypeInv, TypeOK
<1>3. p \in Process /\ p.queue # <<>> /\ p.cmd \in Command
  BY <1>1, <1>2 DEF Process, Phase
<1>4. rt' = [rt EXCEPT ![r] = p]
  BY DEF Commit, TypeInv, TypeOK
<1>5. rt' \in [Runtime -> Process] /\ Busy'
  BY <1>3, <1>4, ProcessStep
<1>6. row' \in Counts /\ version' \in Nat
  BY <1>1, <1>2 DEF Commit, Process
<1>7. [result |-> rt[r].outcome, version |-> NextVersion(c)] \in Record
  BY <1>1, <1>2 DEF Record, Process
<1>8. rec' \in [Command -> Record \cup {None}]
  BY <1>7 DEF Commit, TypeInv, TypeOK
<1>9. log' \in Counts
  BY <1>1 DEF Commit, Counts, TypeInv, TypeOK
<1>10. journal' \in [Command -> Journal]
  BY <1>1, JournalTyped DEF Commit, TypeInv, TypeOK
<1>11. outbox' \in [Command -> {"none", "pending", "completed"}]
  BY DEF Commit, Staged, TypeInv, TypeOK
<1> QED BY <1>5, <1>6, <1>8, <1>9, <1>10, <1>11 DEF Commit, TypeInv, TypeOK

LEMMA WriteEffectTyped ==
  ASSUME TypeInv, NEW r \in Runtime, NEW e \in Command, WriteEffect(r, e)
  PROVE  TypeInv'
<1> DEFINE p == [rt[r] EXCEPT !.todo = @ \ {e},
                              !.wrote = IF owner = r THEN e ELSE None]
<1>1. rt[r] \in Process
  BY DEF TypeInv, TypeOK
<1>2. /\ p \in Process
      /\ p.phase = rt[r].phase /\ p.queue = rt[r].queue /\ p.cmd = rt[r].cmd
  BY <1>1 DEF Process
<1>3. rt' = [rt EXCEPT ![r] = p]
  BY DEF WriteEffect
<1>4. rt' \in [Runtime -> Process] /\ Busy'
  BY <1>2, <1>3, ProcessStep DEF TypeInv, Busy
<1> QED BY <1>4 DEF WriteEffect, TypeInv, TypeOK

LEMMA FailEffectTyped ==
  ASSUME TypeInv, NEW r \in Runtime, NEW e \in Command, FailEffect(r, e)
  PROVE  TypeInv'
<1> DEFINE p == [rt[r] EXCEPT !.todo = @ \ {e}]
<1>1. rt[r] \in Process
  BY DEF TypeInv, TypeOK
<1>2. /\ p \in Process
      /\ p.phase = rt[r].phase /\ p.queue = rt[r].queue /\ p.cmd = rt[r].cmd
  BY <1>1 DEF Process
<1>3. rt' = [rt EXCEPT ![r] = p]
  BY DEF FailEffect, TypeInv, TypeOK
<1>4. rt' \in [Runtime -> Process] /\ Busy'
  BY <1>2, <1>3, ProcessStep DEF TypeInv, Busy
<1>5. used' \in [sends : Nat, throws : Nat, dirty : Nat, writeErrors : Nat]
  BY DEF FailEffect, TypeInv, TypeOK
<1> QED BY <1>4, <1>5 DEF FailEffect, store, TypeInv, TypeOK

LEMMA CompleteEffectTyped ==
  ASSUME TypeInv, NEW r \in Runtime, CompleteEffect(r)
  PROVE  TypeInv'
<1> DEFINE p == [rt[r] EXCEPT !.wrote = None]
           e == rt[r].wrote
<1>1. rt[r] \in Process /\ e \in Command
  BY DEF TypeInv, TypeOK, CompleteEffect, Process
<1>2. /\ p \in Process
      /\ p.phase = rt[r].phase /\ p.queue = rt[r].queue /\ p.cmd = rt[r].cmd
  BY <1>1 DEF Process
<1>3. rt' = [rt EXCEPT ![r] = p]
  BY DEF CompleteEffect, TypeInv, TypeOK
<1>4. rt' \in [Runtime -> Process] /\ Busy'
  BY <1>2, <1>3, ProcessStep DEF TypeInv, Busy
<1>5. outbox' \in [Command -> {"none", "pending", "completed"}] /\ completed' \in Counts
  <2>1. outbox \in [Command -> {"none", "pending", "completed"}] /\ completed \in Counts
    BY DEF TypeInv, TypeOK
  <2>2. /\ [outbox EXCEPT ![e] = "completed"] \in [Command -> {"none", "pending", "completed"}]
        /\ [completed EXCEPT ![e] = @ + 1] \in Counts
    BY <1>1, <2>1 DEF Counts
  <2> QED BY <2>1, <2>2 DEF CompleteEffect
<1> QED BY <1>4, <1>5 DEF CompleteEffect, TypeInv, TypeOK

LEMMA AnswerTyped ==
  ASSUME TypeInv, NEW r \in Runtime, Answer(r)
  PROVE  TypeInv'
<1>1. rt[r] \in Process /\ rt[r].queue # <<>> /\ rt[r].outcome \in Result
  BY DEF TypeInv, TypeOK, Busy, Answer, Process
<1>2. Answered(rt[r]) \in Process /\ Answered(rt[r]).phase = "idle"
  BY <1>1, AnsweredTyped
<1>3. rt' = [rt EXCEPT ![r] = Answered(rt[r])]
  BY DEF Answer, TypeInv, TypeOK
<1>4. rt' \in [Runtime -> Process] /\ Busy'
  BY <1>2, <1>3, ProcessStep
<1>5. told' \in [Command -> Result \cup {"error", "nothing"}]
  BY <1>1 DEF Answer, TypeInv, TypeOK
<1> QED BY <1>4, <1>5 DEF Answer, store, TypeInv, TypeOK

LEMMA PersistTyped ==
  ASSUME TypeInv, NEW r \in Runtime, Persist(r)
  PROVE  TypeInv'
<1>1. row' \in Counts
  BY DEF Persist, Process, TypeInv, TypeOK
<1>2. used' \in [sends : Nat, throws : Nat, dirty : Nat, writeErrors : Nat]
  BY DEF Persist, TypeInv, TypeOK
<1> QED BY <1>1, <1>2 DEF Persist, TypeInv, TypeOK, Busy

LEMMA OpenTyped ==
  ASSUME TypeInv, NEW r \in Runtime, Open(r)
  PROVE  TypeInv'
<1> DEFINE p == [rt[r] EXCEPT !.phase = "recovering", !.mem = Recovered,
                              !.seen = version, !.todo = Pending]
<1>1. rt[r] \in Process
  BY DEF TypeInv, TypeOK
<1>2. Recovered \in Counts
  BY DEF Recovered, Counts, Journal, TypeInv, TypeOK
<1>3. p \in Process /\ p.phase = "recovering"
  BY <1>1, <1>2 DEF Process, Phase, Pending, TypeInv, TypeOK
<1>4. rt' = [rt EXCEPT ![r] = p]
  BY DEF Open
<1>5. rt' \in [Runtime -> Process] /\ Busy'
  BY <1>3, <1>4, ProcessStep
<1>6. journal' \in [Command -> Journal]
  BY DEF Open, Journal, TypeInv, TypeOK
<1>7. owner' \in 0..MaxOpen
  BY BoundAssumption DEF Open
<1> QED BY <1>5, <1>6, <1>7 DEF Open, TypeInv, TypeOK

LEMMA ReadyTyped ==
  ASSUME TypeInv, NEW r \in Runtime, Ready(r)
  PROVE  TypeInv'
<1> DEFINE p == [rt[r] EXCEPT !.phase = "idle"]
<1>1. rt[r] \in Process
  BY DEF TypeInv, TypeOK
<1>2. p \in Process /\ p.phase = "idle"
  BY <1>1 DEF Process, Phase
<1>3. rt' = [rt EXCEPT ![r] = p]
  BY DEF Ready, TypeInv, TypeOK
<1>4. rt' \in [Runtime -> Process] /\ Busy'
  BY <1>2, <1>3, ProcessStep
<1>5. row' \in Counts
  BY <1>1 DEF Ready, Process, TypeInv, TypeOK
<1> QED BY <1>4, <1>5 DEF Ready, TypeInv, TypeOK

(* A runtime that is not running is a process.                                *)
LEMMA IdleTyped ==
  Idle \in Process /\ [Idle EXCEPT !.phase = "dead"] \in Process
<1>1. Idle \in Process
  BY DEF Idle, Process, Phase, Counts, Result
<1> QED BY <1>1 DEF Process, Phase

LEMMA CrashTyped ==
  ASSUME TypeInv, NEW r \in Runtime, Crash(r)
  PROVE  TypeInv'
<1> DEFINE p == [Idle EXCEPT !.phase = "dead"]
<1>1. p \in Process /\ p.phase = "dead"
  BY IdleTyped DEF Idle
<1>2. rt' = [rt EXCEPT ![r] = p]
  BY DEF Crash
<1>3. rt' \in [Runtime -> Process] /\ Busy'
  BY <1>1, <1>2, ProcessStep
<1> QED BY <1>3 DEF Crash, store, TypeInv, TypeOK

-----------------------------------------------------------------------------

LEMMA TypeInductive == TypeInv /\ [Next]_vars => TypeInv'
<1> SUFFICES ASSUME TypeInv, [Next]_vars PROVE TypeInv'
  OBVIOUS
<1>1. ASSUME NEW r \in Runtime, NEW c \in Command, Replay(r, c) \/ Reject(r, c) \/ Start(r, c)
      PROVE  TypeInv'
  BY <1>1, ReplayTyped, RejectTyped, StartTyped
<1>2. ASSUME NEW r \in Runtime, NEW outcome \in Result, Finish(r, outcome)
      PROVE  TypeInv'
  BY <1>2, FinishTyped
<1>3. ASSUME NEW r \in Runtime, Conflict(r) PROVE TypeInv'
  <2>1. rt[r].outcome \in Result
    BY DEF TypeInv, TypeOK, Process
  <2> QED BY <1>3, <2>1, UnwindTyped DEF Conflict
<1>4. ASSUME NEW r \in Runtime, Throw(r) PROVE TypeInv'
  <2>1. Unwind(r, "ok") /\ "ok" \in Result
    BY <1>4 DEF Throw, Unwind, Result
  <2> QED BY <1>4, <2>1, UnwindTyped DEF Throw
<1>5. ASSUME NEW r \in Runtime, Recommit(r) \/ Commit(r) PROVE TypeInv'
  BY <1>5, RecommitTyped, CommitTyped
<1>6. ASSUME NEW r \in Runtime, NEW e \in Command,
             WriteEffect(r, e) \/ FailEffect(r, e) \/ Send(r, e)
      PROVE  TypeInv'
  BY <1>6, WriteEffectTyped, FailEffectTyped, SendTyped
<1>7. ASSUME NEW r \in Runtime, CompleteEffect(r) \/ Answer(r) \/ Persist(r)
      PROVE  TypeInv'
  BY <1>7, CompleteEffectTyped, AnswerTyped, PersistTyped
<1>8. ASSUME NEW r \in Runtime, Open(r) \/ Ready(r) \/ Crash(r) PROVE TypeInv'
  BY <1>8, OpenTyped, ReadyTyped, CrashTyped
<1>9. CASE UNCHANGED vars
  BY <1>9 DEF vars, TypeInv, TypeOK, Busy
<1> QED BY <1>1, <1>2, <1>3, <1>4, <1>5, <1>6, <1>7, <1>8, <1>9 DEF Next, Work

LEMMA TypeAlways == Spec => []TypeInv
<1>1. Init => TypeInv
  <2> SUFFICES ASSUME Init PROVE TypeInv
    OBVIOUS
  <2>1. rt \in [Runtime -> Process] /\ Busy
    <3>1. \A r \in Runtime : rt[r] = Idle
      BY DEF Init
    <3>2. Idle.phase = "down"
      BY DEF Idle
    <3> QED BY <3>1, <3>2, IdleTyped DEF Init, Busy
  <2>2. journal \in [Command -> Journal]
    BY DEF Init, Journal
  <2>3. 0 \in 0..MaxOpen
    BY BoundAssumption
  <2> QED BY <2>1, <2>2, <2>3 DEF Init, TypeInv, TypeOK, Counts
<1> QED BY <1>1, TypeInductive, PTL DEF Spec

(* The store, the processes and the answers keep their types.                 *)
THEOREM TypeCorrect == Spec => []TypeOK
<1>1. TypeInv => TypeOK
  BY DEF TypeInv
<1> QED BY <1>1, TypeAlways, PTL

-----------------------------------------------------------------------------
(* Who writes what.                                                           *)

(* A commit writes records, versions and events; a commit and the completion  *)
(* of an effect write the outbox; nothing else does.                          *)
LEMMA Writers ==
  ASSUME [Next]_vars
  PROVE  \/ \E r \in Runtime : Commit(r)
         \/ (\E r \in Runtime : CompleteEffect(r)) /\ UNCHANGED <<version, rec, log>>
         \/ UNCHANGED <<version, rec, log, outbox, completed>>
<1> DEFINE Quiet == UNCHANGED <<version, rec, log, outbox, completed>>
<1>1. ASSUME NEW r \in Runtime, NEW c \in Command,
             Replay(r, c) \/ Reject(r, c) \/ Start(r, c) \/ Send(r, c)
      PROVE  Quiet
  BY <1>1 DEF Replay, Reject, Start, Send, store
<1>2. ASSUME NEW r \in Runtime, NEW outcome, Unwind(r, outcome) PROVE Quiet
  BY <1>2 DEF Unwind, RollBack, Escape, store
<1>3. ASSUME NEW r \in Runtime, NEW outcome \in Result, Finish(r, outcome) PROVE Quiet
  BY <1>2, <1>3 DEF Finish, store
<1>4. ASSUME NEW r \in Runtime, Recommit(r) \/ Conflict(r) \/ Throw(r) PROVE Quiet
  BY <1>2, <1>4 DEF Recommit, Conflict, Throw, RollBack, store
<1>5. ASSUME NEW r \in Runtime, NEW e \in Command, WriteEffect(r, e) \/ FailEffect(r, e)
      PROVE  Quiet
  BY <1>5 DEF WriteEffect, FailEffect, store
<1>6. ASSUME NEW r \in Runtime, CompleteEffect(r) PROVE UNCHANGED <<version, rec, log>>
  BY <1>6 DEF CompleteEffect
<1>7. ASSUME NEW r \in Runtime, Answer(r) \/ Persist(r) \/ Open(r) \/ Ready(r) \/ Crash(r)
      PROVE  Quiet
  BY <1>7 DEF Answer, Persist, Open, Ready, Crash, store
<1>8. CASE UNCHANGED vars
  BY <1>8 DEF vars
<1> HIDE DEF Quiet
<1>9. ASSUME NEW r \in Runtime, Work(r) PROVE Commit(r) \/ CompleteEffect(r) \/ Quiet
  BY <1>9, <1>1, <1>3, <1>4, <1>5, <1>7 DEF Work
<1>10. ASSUME NEW r \in Runtime,
              \/ \E c \in Command : Send(r, c) \/ FailEffect(r, c)
              \/ Throw(r) \/ Persist(r) \/ Open(r) \/ Crash(r)
       PROVE  Quiet
  BY <1>10, <1>1, <1>4, <1>5, <1>7
<1>11. CASE Next
  <2>1. PICK r \in Runtime :
          \/ Work(r)
          \/ \E c \in Command : Send(r, c) \/ FailEffect(r, c)
          \/ Throw(r) \/ Persist(r) \/ Open(r) \/ Crash(r)
    BY <1>11, Zenon DEF Next
  <2>2. Commit(r) \/ CompleteEffect(r) \/ Quiet
    BY <2>1, <1>9, <1>10, Zenon
  <2> QED BY <2>2, <1>6 DEF Quiet
<1> QED BY <1>8, <1>11 DEF Quiet

(* What is on record stays as it is, and so does the version it expected.     *)
LEMMA RecordsStay ==
  ASSUME TypeInv, [Next]_vars, NEW c \in Command, rec[c] # None
  PROVE  rec'[c] = rec[c]
<1>1. ASSUME NEW r \in Runtime, Commit(r) PROVE rec'[c] = rec[c]
  <2>1. rt[r].cmd \in Command /\ rt[r].cmd # c
    BY <1>1 DEF Commit, Recorded, TypeInv, Busy
  <2> QED BY <1>1, <2>1 DEF Commit, TypeInv, TypeOK
<1> QED BY <1>1, Writers

LEMMA ExpectedStays ==
  ASSUME TypeInv, [Next]_vars, NEW c \in Command, expected[c] # None
  PROVE  expected'[c] = expected[c]
<1>1. ASSUME NEW r \in Runtime, NEW d \in Command, Send(r, d)
      PROVE  expected'[c] = expected[c]
  BY <1>1 DEF Send, TypeInv, TypeOK
<1>2. ASSUME NEW r \in Runtime, Work(r) PROVE UNCHANGED expected
  <2>1. ASSUME NEW outcome, Unwind(r, outcome) PROVE UNCHANGED expected
    BY <2>1 DEF Unwind, RollBack, Escape
  <2> QED
    BY <1>2, <2>1 DEF Work, Replay, Reject, Start, Finish, Recommit, Conflict, Commit,
       WriteEffect, CompleteEffect, Answer, Ready
<1>3. ASSUME NEW r \in Runtime, NEW e \in Command,
             FailEffect(r, e) \/ Throw(r) \/ Persist(r) \/ Open(r) \/ Crash(r)
      PROVE  UNCHANGED expected
  BY <1>3 DEF FailEffect, Throw, RollBack, Persist, Open, Crash
<1>4. CASE UNCHANGED vars
  BY <1>4 DEF vars
<1> QED BY <1>1, <1>2, <1>3, <1>4 DEF Next

-----------------------------------------------------------------------------
(* A commit, seen from the store.                                             *)

LEMMA CommitStep ==
  ASSUME TypeInv, NEW r \in Runtime, Commit(r)
  PROVE  LET c == rt[r].cmd IN
         /\ c \in Command /\ rec[c] = None
         /\ \A d \in Command : rec[d] # None => KeyOf[d] # KeyOf[c]
         /\ rec'[c] = [result |-> rt[r].outcome, version |-> NextVersion(c)]
         /\ rec'[c] # None
         /\ \A d \in Command : d # c => rec'[d] = rec[d]
         /\ log'[c] = log[c] + 1
         /\ \A d \in Command : d # c => log'[d] = log[d]
<1> DEFINE c == rt[r].cmd
<1>1. c \in Command
  BY DEF Commit, TypeInv, Busy
<1>2. \A d \in Command : rec[d] # None => KeyOf[d] # KeyOf[c]
  BY DEF Commit, Recorded
<1>3. rec' = [rec EXCEPT ![c] = [result |-> rt[r].outcome, version |-> NextVersion(c)]]
  BY DEF Commit
<1>4. log' = [log EXCEPT ![c] = @ + 1]
  BY DEF Commit
<1>5. rec \in [Command -> Record \cup {None}] /\ log \in Counts
  BY DEF TypeInv, TypeOK
<1>6. [result |-> rt[r].outcome, version |-> NextVersion(c)] \in Record
  BY DEF Record, NextVersion, Process, TypeInv, TypeOK
<1>7. [result |-> rt[r].outcome, version |-> NextVersion(c)] # None
  BY <1>6, CommandAssumption DEF Record, Result
<1>8. rec[c] = None
  BY <1>1, <1>2
<1> QED BY <1>1, <1>2, <1>3, <1>4, <1>5, <1>7, <1>8 DEF Counts

(******************************************************************************)
(* One record and one set of events for each idempotency key, whoever runs    *)
(* the commands (commitControlCommand looks for the duplicate inside its      *)
(* transaction). Inductive as it stands, with the types.                      *)
(******************************************************************************)
THEOREM RecordedOnceHolds == Spec => []RecordedOnce
<1>1. Init => RecordedOnce
  BY DEF Init, RecordedOnce
<1>2. TypeInv /\ RecordedOnce /\ [Next]_vars => RecordedOnce'
  <2> SUFFICES ASSUME TypeInv, RecordedOnce, [Next]_vars PROVE RecordedOnce'
    OBVIOUS
  <2>1. ASSUME NEW r \in Runtime, Commit(r) PROVE RecordedOnce'
    <3> DEFINE c == rt[r].cmd
    <3>1. /\ c \in Command /\ rec[c] = None
          /\ \A d \in Command : rec[d] # None => KeyOf[d] # KeyOf[c]
          /\ rec'[c] # None /\ log'[c] = log[c] + 1
          /\ \A d \in Command : d # c => rec'[d] = rec[d] /\ log'[d] = log[d]
      BY <2>1, CommitStep
    <3> HIDE DEF c
    <3>2. \A d \in Command : log'[d] = IF rec'[d] = None THEN 0 ELSE 1
      BY <3>1 DEF RecordedOnce
    <3>3. ASSUME NEW e \in Command, rec'[e] # None PROVE Recorded(e)' = {e}
      <4>1. CASE e = c
        BY <3>1, <4>1 DEF Recorded
      <4>2. CASE e # c
        <5>1. rec[e] # None /\ Recorded(e) = {e}
          BY <3>1, <3>3, <4>2 DEF RecordedOnce
        <5> QED BY <3>1, <5>1 DEF Recorded
      <4> QED BY <4>1, <4>2
    <3> QED BY <3>2, <3>3 DEF RecordedOnce
  <2>2. CASE UNCHANGED <<version, rec, log>>
    BY <2>2 DEF RecordedOnce, Recorded
  <2> QED BY <2>1, <2>2, Writers
<1> QED BY <1>1, <1>2, TypeAlways, TypeInductive, PTL DEF Spec

-----------------------------------------------------------------------------
(* Versions.                                                                  *)

(* The version a recorded command expected is known.                          *)
Expecting == \A c \in Committed \cap Checked : expected[c] # None

LEMMA ExpectingStep ==
  ASSUME TypeInv, Expecting, [Next]_vars
  PROVE  Expecting'
<1> SUFFICES ASSUME NEW c \in Command, c \in Checked, rec'[c] # None
             PROVE  expected'[c] # None
  BY DEF Expecting, Committed
<1>1. CASE rec[c] # None
  BY <1>1, ExpectedStays DEF Expecting, Committed
<1>2. CASE rec[c] = None
  <2>1. PICK r \in Runtime : Commit(r)
    BY <1>2, Writers
  <2>2. rt[r].cmd = c
    BY <1>2, <2>1, CommitStep
  <2>3. expected[c] # None
    BY <2>1, <2>2, CommandAssumption DEF Commit, Conflicts, TypeInv, TypeOK
  <2> QED BY <2>3, ExpectedStays
<1> QED BY <1>1, <1>2

LEMMA SerialCommit ==
  ASSUME TypeInv, VersionSerial, Expecting, NEW r \in Runtime, Commit(r), [Next]_vars
  PROVE  VersionSerial'
<1> DEFINE c == rt[r].cmd
<1>1. /\ c \in Command /\ rec[c] = None /\ rec'[c] # None
      /\ rec'[c].version = NextVersion(c)
      /\ \A d \in Command : d # c => rec'[d] = rec[d]
  <2>1. rec'[c] = [result |-> rt[r].outcome, version |-> NextVersion(c)]
    BY CommitStep
  <2>2. rec'[c].version = NextVersion(c)
    BY <2>1
  <2> QED BY <2>2, CommitStep
<1>2. version \in Nat /\ version' = NextVersion(c)
  BY DEF Commit, TypeInv, TypeOK
<1>3. c \in Checked => expected[c] = version
  BY DEF Commit, Conflicts
<1>4. \A d \in Command \cap Checked : rec[d] # None => expected'[d] = expected[d]
  BY ExpectedStays DEF Expecting, Committed
<1>5. c \in Checked => expected'[c] = expected[c]
  BY <1>1, <1>2, <1>3, CommandAssumption, ExpectedStays
<1> HIDE DEF c
<1>6. CASE c \in Silent
  <2>1. Affecting' = Affecting
    BY <1>1, <1>6 DEF Affecting, Committed
  <2>2. \A d \in Affecting : rec'[d] = rec[d]
    BY <1>1 DEF Affecting, Committed
  <2>3. version' = version
    BY <1>2, <1>6 DEF NextVersion
  <2>4. \A d \in Affecting \cap Checked : expected'[d] = expected[d]
    BY <1>4 DEF Affecting, Committed
  <2> QED BY <2>1, <2>2, <2>3, <2>4 DEF VersionSerial
<1>7. CASE c \notin Silent
  <2>1. Affecting' = Affecting \cup {c} /\ c \notin Affecting
    BY <1>1, <1>7 DEF Affecting, Committed
  <2>2. \A d \in Affecting : rec'[d] = rec[d]
    BY <1>1 DEF Affecting, Committed
  <2>3. version' = version + 1 /\ rec'[c].version = version + 1
    BY <1>1, <1>2, <1>7 DEF NextVersion
  <2>4. \A d \in Affecting : rec'[d].version \in 1..version
    BY <2>2 DEF VersionSerial
  <2>5. \A d \in Affecting' : rec'[d].version \in 1..version'
    BY <1>2, <2>1, <2>3, <2>4
  <2>6. ASSUME NEW v \in 1..version' PROVE \E d \in Affecting' : rec'[d].version = v
    <3>1. CASE v = version + 1
      BY <2>1, <2>3, <3>1
    <3>2. CASE v # version + 1
      <4>1. v \in 1..version
        BY <1>2, <2>3, <3>2
      <4>2. PICK d \in Affecting : rec[d].version = v
        BY <4>1 DEF VersionSerial
      <4> QED BY <2>1, <2>2, <4>2
    <3> QED BY <3>1, <3>2
  <2>7. ASSUME NEW d \in Affecting', NEW e \in Affecting',
               rec'[d].version = rec'[e].version
        PROVE  d = e
    <3>1. CASE d \in Affecting /\ e \in Affecting
      BY <2>2, <2>7, <3>1 DEF VersionSerial
    <3>2. CASE d \in Affecting /\ e = c
      BY <1>2, <2>3, <2>4, <2>7, <3>2
    <3>3. CASE d = c /\ e \in Affecting
      BY <1>2, <2>3, <2>4, <2>7, <3>3
    <3> QED BY <2>1, <3>1, <3>2, <3>3
  <2>8. ASSUME NEW d \in Affecting' \cap Checked
        PROVE  rec'[d].version = expected'[d] + 1
    <3>1. CASE d = c
      BY <1>3, <1>5, <2>3, <2>8, <3>1
    <3>2. CASE d \in Affecting
      <4>1. expected'[d] = expected[d]
        BY <1>4, <2>8, <3>2 DEF Affecting, Committed
      <4> QED BY <2>2, <2>8, <3>2, <4>1 DEF VersionSerial
    <3> QED BY <2>1, <2>8, <3>1, <3>2
  <2> QED BY <2>5, <2>6, <2>7, <2>8 DEF VersionSerial
<1> QED BY <1>6, <1>7

(******************************************************************************)
(* The control version is a serial order of the commands that affect it, and  *)
(* no two commands were made against the same version. The induction needs    *)
(* that the version a recorded command expected never changes.                *)
(******************************************************************************)
THEOREM VersionSerialHolds == Spec => []VersionSerial
<1>1. Init => VersionSerial /\ Expecting
  BY DEF Init, VersionSerial, Expecting, Affecting, Committed
<1>2. TypeInv /\ VersionSerial /\ Expecting /\ [Next]_vars => VersionSerial' /\ Expecting'
  <2> SUFFICES ASSUME TypeInv, VersionSerial, Expecting, [Next]_vars
               PROVE  VersionSerial' /\ Expecting'
    OBVIOUS
  <2>1. CASE \E r \in Runtime : Commit(r)
    <3>1. PICK r \in Runtime : Commit(r)
      BY <2>1
    <3> QED BY <3>1, SerialCommit, ExpectingStep
  <2>2. CASE UNCHANGED <<version, rec, log>>
    <3>1. Affecting' = Affecting
      BY <2>2 DEF Affecting, Committed
    <3>2. \A d \in Affecting \cap Checked : expected'[d] = expected[d]
      BY ExpectedStays DEF Expecting, Affecting, Committed
    <3>3. version' = version /\ \A d \in Affecting : rec'[d] = rec[d]
      BY <2>2
    <3>4. VersionSerial'
      BY <3>1, <3>2, <3>3 DEF VersionSerial
    <3> QED BY <3>4, ExpectingStep
  <2> QED BY <2>1, <2>2, Writers, ExpectingStep
<1> QED BY <1>1, <1>2, TypeAlways, TypeInductive, PTL DEF Spec

-----------------------------------------------------------------------------
(* Effects.                                                                   *)

(* What a runtime means to mark complete was written, and files stay.         *)
WroteInv == \A r \in Runtime : rt[r].wrote # None => rt[r].wrote \in files

(* A runtime is left with the effect it had written, with a written one, or   *)
(* with none.                                                                 *)
LEMMA WroteStep ==
  ASSUME TypeInv, WroteInv, [Next]_vars
  PROVE  WroteInv'
<1>1. ASSUME NEW r \in Runtime, NEW p, rt' = [rt EXCEPT ![r] = p],
             p.wrote = rt[r].wrote \/ p.wrote = None, UNCHANGED files
      PROVE  WroteInv'
  BY <1>1 DEF WroteInv, TypeInv, TypeOK
<1>2. ASSUME NEW r \in Runtime PROVE rt[r] \in Process
  BY DEF TypeInv, TypeOK
<1>3. ASSUME NEW p \in Process
      PROVE  /\ Answered(p).wrote = p.wrote
             /\ [Answered(p) EXCEPT !.mem = p.saved].wrote = p.wrote
  BY <1>3 DEF Answered, Process
<1>4. ASSUME NEW r \in Runtime, NEW c \in Command, Replay(r, c) PROVE WroteInv'
  <2>1. PICK d \in Recorded(c) :
          rt' = [rt EXCEPT ![r] = [rt[r] EXCEPT !.phase = "closing", !.cmd = c,
                                   !.outcome = rec[d].result, !.todo = Pending]]
    BY <1>4 DEF Replay
  <2>2. [rt[r] EXCEPT !.phase = "closing", !.cmd = c,
                      !.outcome = rec[d].result, !.todo = Pending].wrote = rt[r].wrote
    BY <1>2 DEF Process
  <2> QED BY <1>1, <1>4, <2>1, <2>2 DEF Replay, store
<1>5. ASSUME NEW r \in Runtime, NEW c \in Command, Reject(r, c) PROVE WroteInv'
  BY <1>1, <1>2, <1>3, <1>5 DEF Reject, store
<1>6. ASSUME NEW r \in Runtime, NEW c \in Command, Start(r, c) PROVE WroteInv'
  <2>1. [rt[r] EXCEPT !.phase = "open", !.cmd = c,
                      !.saved = rt[r].mem, !.mem[c] = @ + 1].wrote = rt[r].wrote
    BY <1>2 DEF Process
  <2> QED BY <1>1, <1>6, <2>1 DEF Start
<1>7. ASSUME NEW r \in Runtime, NEW outcome, Unwind(r, outcome) PROVE WroteInv'
  BY <1>1, <1>2, <1>3, <1>7 DEF Unwind, RollBack, Escape, store
<1>8. ASSUME NEW r \in Runtime, NEW outcome \in Result, Finish(r, outcome) PROVE WroteInv'
  <2>1. CASE owner = r
    <3>1. rt' = [rt EXCEPT ![r] = [rt[r] EXCEPT !.phase = "committing",
                                                !.outcome = outcome]]
      BY <1>8, <2>1 DEF Finish, TypeInv, TypeOK
    <3>2. [rt[r] EXCEPT !.phase = "committing", !.outcome = outcome].wrote = rt[r].wrote
      BY <1>2 DEF Process
    <3> QED BY <1>1, <1>8, <2>1, <3>1, <3>2 DEF Finish, store
  <2>2. CASE owner # r
    BY <1>7, <1>8, <2>2 DEF Finish
  <2> QED BY <2>1, <2>2
<1>9. ASSUME NEW r \in Runtime, Throw(r) \/ Conflict(r) PROVE WroteInv'
  <2>1. Throw(r) => Unwind(r, "ok")
    BY DEF Throw, Unwind
  <2> QED BY <1>7, <1>9, <2>1 DEF Conflict
<1>10. ASSUME NEW r \in Runtime, Recommit(r) PROVE WroteInv'
  <2> DEFINE P(d) == [rt[r] EXCEPT
                !.phase = "closing", !.seen = rec[d].version,
                !.outcome = IF @ = "ok" THEN rec[d].result ELSE @,
                !.todo = IF rt[r].outcome = "ok" THEN Pending ELSE {}]
  <2>1. PICK d \in Recorded(rt[r].cmd) : rt' = [rt EXCEPT ![r] = P(d)]
    BY <1>10 DEF Recommit
  <2>2. P(d).wrote = rt[r].wrote
    BY <1>2 DEF Process
  <2> HIDE DEF P
  <2> QED BY <1>1, <1>10, <2>1, <2>2 DEF Recommit, store
<1>11. ASSUME NEW r \in Runtime, Commit(r) PROVE WroteInv'
  <2> DEFINE p == [rt[r] EXCEPT !.phase = "closing", !.seen = NextVersion(rt[r].cmd),
                     !.todo = IF rt[r].outcome = "ok"
                                THEN {e \in Command : outbox'[e] = "pending"} ELSE {}]
  <2>1. rt' = [rt EXCEPT ![r] = p]
    BY <1>11 DEF Commit
  <2>2. p.wrote = rt[r].wrote
    BY <1>2 DEF Process
  <2> HIDE DEF p
  <2> QED BY <1>1, <1>11, <2>1, <2>2 DEF Commit
<1>12. ASSUME NEW r \in Runtime, NEW e \in Command, WriteEffect(r, e) PROVE WroteInv'
  <2> DEFINE p == [rt[r] EXCEPT !.todo = @ \ {e},
                                !.wrote = IF owner = r THEN e ELSE None]
  <2>1. rt' = [rt EXCEPT ![r] = p] /\ files' = files \cup {e}
    BY <1>12 DEF WriteEffect
  <2>2. p.wrote = e \/ p.wrote = None
    BY <1>2 DEF Process
  <2> HIDE DEF p
  <2> QED BY <2>1, <2>2 DEF WroteInv, TypeInv, TypeOK
<1>13. ASSUME NEW r \in Runtime, NEW e \in Command, FailEffect(r, e) \/ Send(r, e)
       PROVE  WroteInv'
  <2>1. /\ [rt[r] EXCEPT !.queue = Append(@, e)].wrote = rt[r].wrote
        /\ [rt[r] EXCEPT !.todo = @ \ {e}].wrote = rt[r].wrote
    BY <1>2 DEF Process
  <2>2. \/ rt' = [rt EXCEPT ![r] = [rt[r] EXCEPT !.queue = Append(@, e)]]
        \/ rt' = [rt EXCEPT ![r] = [rt[r] EXCEPT !.todo = @ \ {e}]]
    BY <1>13 DEF FailEffect, Send, TypeInv, TypeOK
  <2> QED BY <1>1, <1>13, <2>1, <2>2 DEF FailEffect, Send, store
<1>14. ASSUME NEW r \in Runtime, CompleteEffect(r) PROVE WroteInv'
  <2>1. [rt[r] EXCEPT !.wrote = None].wrote = None
    BY <1>2 DEF Process
  <2>2. rt' = [rt EXCEPT ![r] = [rt[r] EXCEPT !.wrote = None]]
    BY <1>14 DEF CompleteEffect, TypeInv, TypeOK
  <2> QED BY <1>1, <1>14, <2>1, <2>2 DEF CompleteEffect
<1>15. ASSUME NEW r \in Runtime, Answer(r) PROVE WroteInv'
  BY <1>1, <1>2, <1>3, <1>15 DEF Answer, store
<1>16. ASSUME NEW r \in Runtime, Persist(r) PROVE WroteInv'
  BY <1>16 DEF Persist, WroteInv
<1>17. ASSUME NEW r \in Runtime, Open(r) PROVE WroteInv'
  <2>1. [rt[r] EXCEPT !.phase = "recovering", !.mem = Recovered,
                      !.seen = version, !.todo = Pending].wrote = rt[r].wrote
    BY <1>2 DEF Process
  <2> QED BY <1>1, <1>17, <2>1 DEF Open
<1>18. ASSUME NEW r \in Runtime, Ready(r) PROVE WroteInv'
  <2>1. UNCHANGED files /\ \A q \in Runtime : rt'[q].wrote = rt[q].wrote
    BY <1>18, <1>2 DEF Ready, TypeInv, TypeOK, Process
  <2> QED BY <2>1 DEF WroteInv
<1>19. ASSUME NEW r \in Runtime, Crash(r) PROVE WroteInv'
  <2>1. [Idle EXCEPT !.phase = "dead"].wrote = None
    BY DEF Idle
  <2> QED BY <1>1, <1>19, <2>1 DEF Crash, store
<1>20. CASE UNCHANGED vars
  BY <1>20 DEF vars, WroteInv
<1> HIDE DEF WroteInv
<1>21. ASSUME NEW r \in Runtime, Work(r) PROVE WroteInv'
  BY <1>4, <1>5, <1>6, <1>8, <1>9, <1>10, <1>11, <1>12, <1>14, <1>15, <1>18, <1>21 DEF Work
<1> QED BY <1>9, <1>13, <1>16, <1>17, <1>19, <1>20, <1>21 DEF Next

(******************************************************************************)
(* An effect is completed once, after it was written and for a command on     *)
(* record, however many runtimes drain the outbox at the same time. The       *)
(* induction needs that a runtime marks only what it has written.             *)
(******************************************************************************)
THEOREM EffectOnceHolds == Spec => []EffectOnce
<1>1. Init => EffectOnce /\ WroteInv
  BY DEF Init, EffectOnce, WroteInv, Idle
<1>2. TypeInv /\ EffectOnce /\ WroteInv /\ [Next]_vars => EffectOnce' /\ WroteInv'
  <2> SUFFICES ASSUME TypeInv, EffectOnce, WroteInv, [Next]_vars PROVE EffectOnce'
    BY WroteStep
  <2>1. files \subseteq files'
    <3>1. ASSUME NEW r \in Runtime, NEW outcome, Unwind(r, outcome) PROVE files' = files
      BY <3>1 DEF Unwind, RollBack, Escape, store
    <3>2. ASSUME NEW r \in Runtime, Work(r) PROVE files \subseteq files'
      BY <3>1, <3>2 DEF Work, Replay, Reject, Start, Finish, Recommit, Conflict, Commit,
         WriteEffect, CompleteEffect, Answer, Ready, store
    <3>3. ASSUME NEW r \in Runtime, NEW e \in Command, Send(r, e) \/ FailEffect(r, e)
          PROVE  files \subseteq files'
      BY <3>3 DEF Send, FailEffect, store
    <3>4. CASE UNCHANGED vars
      BY <3>4 DEF vars
    <3>5. CASE Next
      <4>1. PICK r \in Runtime :
              \/ Work(r)
              \/ \E e \in Command : Send(r, e) \/ FailEffect(r, e)
              \/ Throw(r) \/ Persist(r) \/ Open(r) \/ Crash(r)
        BY <3>5, Zenon DEF Next
      <4>2. CASE \E e \in Command : Send(r, e) \/ FailEffect(r, e)
        BY <3>3, <4>2
      <4>3. CASE Throw(r)
        BY <4>3 DEF Throw, RollBack
      <4>4. CASE Persist(r) \/ Open(r) \/ Crash(r)
        BY <4>4 DEF Persist, Open, Crash, store
      <4> QED BY <3>2, <4>1, <4>2, <4>3, <4>4
    <3> QED BY <3>4, <3>5
  <2>2. ASSUME NEW r \in Runtime, Commit(r) PROVE EffectOnce'
    <3> DEFINE c == rt[r].cmd
    <3>1. /\ c \in Command /\ rec'[c] # None
          /\ \A d \in Command : d # c => rec'[d] = rec[d]
      BY <2>2, CommitStep
    <3>2. outbox' = Staged(c, rt[r].outcome) /\ completed' = completed
      BY <2>2 DEF Commit
    <3> HIDE DEF c
    <3>3. \A d \in Command : outbox'[d] = outbox[d]
                             \/ (d = c /\ outbox[c] = "none" /\ outbox'[d] = "pending")
      BY <3>1, <3>2 DEF Staged, TypeInv, TypeOK
    <3> QED BY <2>1, <3>1, <3>2, <3>3 DEF EffectOnce
  <2>3. ASSUME NEW r \in Runtime, CompleteEffect(r), UNCHANGED <<version, rec, log>>
        PROVE  EffectOnce'
    <3> DEFINE e == rt[r].wrote
    <3>1. e \in Command /\ e \in files
      BY <2>3 DEF CompleteEffect, WroteInv, TypeInv, TypeOK, Process
    <3>2. CASE outbox[e] = "pending"
      <4>1. /\ outbox' = [outbox EXCEPT ![e] = "completed"]
            /\ completed' = [completed EXCEPT ![e] = @ + 1]
        BY <2>3, <3>2 DEF CompleteEffect
      <4>2. outbox \in [Command -> {"none", "pending", "completed"}] /\ completed \in Counts
        BY DEF TypeInv, TypeOK
      <4> HIDE DEF e
      <4> QED BY <2>1, <2>3, <3>1, <3>2, <4>1, <4>2 DEF EffectOnce, Counts
    <3>3. CASE outbox[e] # "pending"
      BY <2>1, <2>3, <3>3 DEF CompleteEffect, EffectOnce
    <3> QED BY <3>2, <3>3
  <2>4. CASE UNCHANGED <<version, rec, log, outbox, completed>>
    BY <2>1, <2>4 DEF EffectOnce
  <2> QED BY <2>2, <2>3, <2>4, Writers
<1> QED BY <1>1, <1>2, TypeAlways, TypeInductive, PTL DEF Spec

-----------------------------------------------------------------------------
(* Answers.                                                                   *)

(* A success that can be relied on.                                           *)
Backed(c) ==
  \E d \in Recorded(c) : rec[d].result = "ok" /\ (d \in Staging => outbox[d] # "none")

(* The effect of a command that succeeded was staged with its record.         *)
StagedInv ==
  \A c \in Command \cap Staging :
    rec[c] # None /\ rec[c].result = "ok" => outbox[c] # "none"

(* A success is known to be on record before it is told.                      *)
AnswerInv ==
  \A r \in Runtime, c \in Command :
    rt[r].phase = "closing" /\ rt[r].outcome = "ok" /\ rt[r].cmd = c => Backed(c)

LEMMA OutboxStays ==
  ASSUME TypeInv, [Next]_vars, NEW c \in Command, outbox[c] # "none"
  PROVE  outbox'[c] # "none"
<1>1. ASSUME NEW r \in Runtime, Commit(r) PROVE outbox'[c] # "none"
  BY <1>1 DEF Commit, Staged, TypeInv, TypeOK
<1>2. ASSUME NEW r \in Runtime, CompleteEffect(r) PROVE outbox'[c] # "none"
  BY <1>2 DEF CompleteEffect, TypeInv, TypeOK
<1> QED BY <1>1, <1>2, Writers

LEMMA BackedStays ==
  ASSUME TypeInv, [Next]_vars, NEW c \in Command, Backed(c)
  PROVE  Backed(c)'
<1>1. PICK d \in Recorded(c) : rec[d].result = "ok" /\ (d \in Staging => outbox[d] # "none")
  BY DEF Backed
<1>2. d \in Command /\ rec[d] # None /\ KeyOf[d] = KeyOf[c]
  BY <1>1 DEF Recorded
<1>3. rec'[d] = rec[d]
  BY <1>2, RecordsStay
<1>4. d \in Staging => outbox'[d] # "none"
  BY <1>1, <1>2, OutboxStays
<1>5. d \in Recorded(c)'
  BY <1>2, <1>3 DEF Recorded
<1> QED BY <1>1, <1>3, <1>4, <1>5 DEF Backed

LEMMA StagedStep ==
  ASSUME TypeInv, StagedInv, [Next]_vars
  PROVE  StagedInv'
<1> SUFFICES ASSUME NEW c \in Command \cap Staging, rec'[c] # None, rec'[c].result = "ok"
             PROVE  outbox'[c] # "none"
  BY DEF StagedInv
<1>1. CASE rec[c] # None
  BY <1>1, RecordsStay, OutboxStays DEF StagedInv
<1>2. CASE rec[c] = None
  <2>1. PICK r \in Runtime : Commit(r)
    BY <1>2, Writers
  <2>2. rt[r].cmd = c /\ rec'[c] = [result |-> rt[r].outcome, version |-> NextVersion(c)]
    BY <1>2, <2>1, CommitStep
  <2>3. rt[r].outcome = "ok"
    BY <2>2
  <2> QED BY <2>1, <2>2, <2>3 DEF Commit, Staged, TypeInv, TypeOK
<1> QED BY <1>1, <1>2

LEMMA AnswerStep ==
  ASSUME TypeInv, StagedInv, AnswerInv, [Next]_vars
  PROVE  AnswerInv'
<1>1. ASSUME NEW r \in Runtime, NEW p, rt' = [rt EXCEPT ![r] = p],
             \A c \in Command :
               p.phase = "closing" /\ p.outcome = "ok" /\ p.cmd = c => Backed(c)'
      PROVE  AnswerInv'
  <2> SUFFICES ASSUME NEW q \in Runtime, NEW c \in Command, rt'[q].phase = "closing",
                      rt'[q].outcome = "ok", rt'[q].cmd = c
               PROVE  Backed(c)'
    BY DEF AnswerInv
  <2>1. CASE q = r
    BY <1>1, <2>1 DEF TypeInv, TypeOK
  <2>2. CASE q # r
    <3>1. rt'[q] = rt[q]
      BY <1>1, <2>2 DEF TypeInv, TypeOK
    <3>2. Backed(c)
      BY <3>1 DEF AnswerInv
    <3> QED BY <3>2, BackedStays
  <2> QED BY <2>1, <2>2
<1>2. ASSUME NEW r \in Runtime PROVE rt[r] \in Process
  BY DEF TypeInv, TypeOK
<1>3. ASSUME NEW r \in Runtime, NEW p, rt' = [rt EXCEPT ![r] = p], p.phase # "closing"
      PROVE  AnswerInv'
  BY <1>1, <1>3
<1>4. ASSUME NEW r \in Runtime, NEW p, rt' = [rt EXCEPT ![r] = p],
             p.phase = rt[r].phase, p.outcome = rt[r].outcome, p.cmd = rt[r].cmd
      PROVE  AnswerInv'
  <2>1. ASSUME NEW c \in Command, p.phase = "closing", p.outcome = "ok", p.cmd = c
        PROVE  Backed(c)'
    <3>1. Backed(c)
      BY <1>4, <2>1 DEF AnswerInv
    <3> QED BY <3>1, BackedStays
  <2> QED BY <1>1, <1>4, <2>1
<1>5. ASSUME NEW d \in Command, rec'[d] # None, rec'[d].result = "ok",
             NEW c \in Command, KeyOf[d] = KeyOf[c]
      PROVE  Backed(c)'
  <2>1. d \in Staging => outbox'[d] # "none"
    BY <1>5, StagedStep DEF StagedInv
  <2> QED BY <1>5, <2>1 DEF Backed, Recorded
<1>6. ASSUME NEW r \in Runtime, NEW c \in Command, Replay(r, c) PROVE AnswerInv'
  <2>1. PICK d \in Recorded(c) :
          rt' = [rt EXCEPT ![r] = [rt[r] EXCEPT !.phase = "closing", !.cmd = c,
                                   !.outcome = rec[d].result, !.todo = Pending]]
    BY <1>6 DEF Replay
  <2> DEFINE p == [rt[r] EXCEPT !.phase = "closing", !.cmd = c,
                                !.outcome = rec[d].result, !.todo = Pending]
  <2>2. p.outcome = rec[d].result /\ p.cmd = c
    BY <1>2 DEF Process
  <2>3. d \in Command /\ rec[d] # None /\ KeyOf[d] = KeyOf[c] /\ rec'[d] = rec[d]
    BY <1>6, <2>1 DEF Recorded, Replay, store
  <2>4. ASSUME NEW e \in Command, p.outcome = "ok", p.cmd = e PROVE Backed(e)'
    BY <1>5, <2>2, <2>3, <2>4
  <2>5. rt' = [rt EXCEPT ![r] = p]
    BY <2>1
  <2> HIDE DEF p
  <2> QED BY <1>1, <2>4, <2>5
<1>7. ASSUME NEW r \in Runtime, Recommit(r) PROVE AnswerInv'
  <2> DEFINE P(d) == [rt[r] EXCEPT
                !.phase = "closing", !.seen = rec[d].version,
                !.outcome = IF @ = "ok" THEN rec[d].result ELSE @,
                !.todo = IF rt[r].outcome = "ok" THEN Pending ELSE {}]
  <2>1. PICK d \in Recorded(rt[r].cmd) : rt' = [rt EXCEPT ![r] = P(d)]
    BY <1>7 DEF Recommit
  <2>2. /\ P(d).outcome = IF rt[r].outcome = "ok" THEN rec[d].result ELSE rt[r].outcome
        /\ P(d).cmd = rt[r].cmd
    BY <1>2 DEF Process
  <2>3. /\ d \in Command /\ rec[d] # None /\ KeyOf[d] = KeyOf[rt[r].cmd]
        /\ rec'[d] = rec[d] /\ rt[r].cmd \in Command
    BY <1>7, <2>1 DEF Recorded, Recommit, store, TypeInv, Busy
  <2>4. ASSUME NEW c \in Command, P(d).outcome = "ok", P(d).cmd = c PROVE Backed(c)'
    BY <1>5, <2>2, <2>3, <2>4
  <2> HIDE DEF P
  <2> QED BY <1>1, <2>1, <2>4
<1>8. ASSUME NEW r \in Runtime, Commit(r) PROVE AnswerInv'
  <2> DEFINE p == [rt[r] EXCEPT !.phase = "closing", !.seen = NextVersion(rt[r].cmd),
                     !.todo = IF rt[r].outcome = "ok"
                                THEN {e \in Command : outbox'[e] = "pending"} ELSE {}]
  <2>1. rt' = [rt EXCEPT ![r] = p]
    BY <1>8 DEF Commit
  <2>2. p.outcome = rt[r].outcome /\ p.cmd = rt[r].cmd
    BY <1>2 DEF Process
  <2>3. /\ rt[r].cmd \in Command /\ rec'[rt[r].cmd] # None
        /\ rec'[rt[r].cmd] = [result |-> rt[r].outcome, version |-> NextVersion(rt[r].cmd)]
    BY <1>8, CommitStep
  <2>4. ASSUME NEW c \in Command, p.outcome = "ok", p.cmd = c PROVE Backed(c)'
    <3>1. rec'[c].result = "ok" /\ rec'[c] # None
      BY <2>2, <2>3, <2>4
    <3> QED BY <1>5, <3>1
  <2> HIDE DEF p
  <2> QED BY <1>1, <2>1, <2>4
<1>9. ASSUME NEW p \in Process
      PROVE  /\ Answered(p).phase = "idle"
             /\ [Answered(p) EXCEPT !.mem = p.saved].phase = "idle"
  BY <1>9 DEF Answered, Process
<1>10. ASSUME NEW r \in Runtime, NEW outcome, Unwind(r, outcome) PROVE AnswerInv'
  BY <1>2, <1>3, <1>9, <1>10 DEF Unwind, RollBack, Escape
<1>11. ASSUME NEW r \in Runtime, NEW c \in Command, Reject(r, c) PROVE AnswerInv'
  BY <1>2, <1>3, <1>9, <1>11 DEF Reject
<1>12. ASSUME NEW r \in Runtime, Throw(r) \/ Conflict(r) PROVE AnswerInv'
  <2>1. Throw(r) => Unwind(r, "ok")
    BY DEF Throw, Unwind
  <2> QED BY <1>10, <1>12, <2>1 DEF Conflict
<1>13. ASSUME NEW r \in Runtime, NEW c \in Command, Start(r, c) PROVE AnswerInv'
  <2>1. [rt[r] EXCEPT !.phase = "open", !.cmd = c,
                      !.saved = rt[r].mem, !.mem[c] = @ + 1].phase = "open"
    BY <1>2 DEF Process
  <2> QED BY <1>3, <1>13, <2>1 DEF Start
<1>14. ASSUME NEW r \in Runtime, NEW outcome \in Result, Finish(r, outcome)
       PROVE  AnswerInv'
  <2>1. [rt[r] EXCEPT !.phase = "committing", !.outcome = outcome].phase = "committing"
    BY <1>2 DEF Process
  <2>2. owner = r => rt' = [rt EXCEPT ![r] = [rt[r] EXCEPT !.phase = "committing",
                                                           !.outcome = outcome]]
    BY <1>14 DEF Finish, TypeInv, TypeOK
  <2>3. owner = r => AnswerInv'
    BY <1>3, <2>1, <2>2
  <2> QED BY <1>10, <1>14, <2>3 DEF Finish
<1>15. ASSUME NEW r \in Runtime, NEW e \in Command, WriteEffect(r, e) PROVE AnswerInv'
  <2> DEFINE p == [rt[r] EXCEPT !.todo = @ \ {e},
                                !.wrote = IF owner = r THEN e ELSE None]
  <2>1. p.phase = rt[r].phase /\ p.outcome = rt[r].outcome /\ p.cmd = rt[r].cmd
    BY <1>2 DEF Process
  <2> QED BY <1>4, <1>15, <2>1 DEF WriteEffect
<1>16. ASSUME NEW r \in Runtime, NEW e \in Command, FailEffect(r, e) PROVE AnswerInv'
  <2> DEFINE p == [rt[r] EXCEPT !.todo = @ \ {e}]
  <2>1. p.phase = rt[r].phase /\ p.outcome = rt[r].outcome /\ p.cmd = rt[r].cmd
    BY <1>2 DEF Process
  <2>2. rt' = [rt EXCEPT ![r] = p]
    BY <1>16 DEF FailEffect, TypeInv, TypeOK
  <2> QED BY <1>4, <2>1, <2>2
<1>17. ASSUME NEW r \in Runtime, NEW e \in Command, Send(r, e) PROVE AnswerInv'
  <2> DEFINE p == [rt[r] EXCEPT !.queue = Append(@, e)]
  <2>1. p.phase = rt[r].phase /\ p.outcome = rt[r].outcome /\ p.cmd = rt[r].cmd
    BY <1>2 DEF Process
  <2>2. rt' = [rt EXCEPT ![r] = p]
    BY <1>17 DEF Send, TypeInv, TypeOK
  <2> QED BY <1>4, <2>1, <2>2
<1>18. ASSUME NEW r \in Runtime, CompleteEffect(r) PROVE AnswerInv'
  <2> DEFINE p == [rt[r] EXCEPT !.wrote = None]
  <2>1. p.phase = rt[r].phase /\ p.outcome = rt[r].outcome /\ p.cmd = rt[r].cmd
    BY <1>2 DEF Process
  <2>2. rt' = [rt EXCEPT ![r] = p]
    BY <1>18 DEF CompleteEffect, TypeInv, TypeOK
  <2> QED BY <1>4, <2>1, <2>2
<1>19. ASSUME NEW r \in Runtime, Open(r) PROVE AnswerInv'
  <2>1. [rt[r] EXCEPT !.phase = "recovering", !.mem = Recovered,
                      !.seen = version, !.todo = Pending].phase = "recovering"
    BY <1>2 DEF Process
  <2> QED BY <1>3, <1>19, <2>1 DEF Open
<1>20. ASSUME NEW r \in Runtime, Ready(r) PROVE AnswerInv'
  <2>1. [rt[r] EXCEPT !.phase = "idle"].phase = "idle"
    BY <1>2 DEF Process
  <2>2. rt' = [rt EXCEPT ![r] = [rt[r] EXCEPT !.phase = "idle"]]
    BY <1>20 DEF Ready, TypeInv, TypeOK
  <2> QED BY <1>3, <2>1, <2>2
<1>21. ASSUME NEW r \in Runtime, Crash(r) PROVE AnswerInv'
  <2>1. [Idle EXCEPT !.phase = "dead"].phase = "dead"
    BY DEF Idle
  <2> QED BY <1>3, <1>21, <2>1 DEF Crash
<1>22. ASSUME UNCHANGED rt PROVE AnswerInv'
  BY <1>22, BackedStays DEF AnswerInv
<1>23. ASSUME NEW r \in Runtime, Persist(r) PROVE AnswerInv'
  BY <1>22, <1>23 DEF Persist
<1>24. CASE UNCHANGED vars
  BY <1>22, <1>24 DEF vars
<1> HIDE DEF AnswerInv
<1>25. ASSUME NEW r \in Runtime, Work(r) PROVE AnswerInv'
  <2>1. CASE \E c \in Command : Replay(r, c) \/ Reject(r, c) \/ Start(r, c)
    BY <1>6, <1>11, <1>13, <2>1
  <2>2. CASE \E outcome \in Result : Finish(r, outcome)
    BY <1>14, <2>2
  <2>3. CASE Recommit(r) \/ Conflict(r) \/ Commit(r)
    BY <1>7, <1>8, <1>12, <2>3
  <2>4. CASE \E e \in Command : WriteEffect(r, e)
    BY <1>15, <2>4
  <2>5. CASE CompleteEffect(r) \/ Ready(r)
    BY <1>18, <1>20, <2>5
  <2>6. CASE Answer(r)
    BY <1>2, <1>3, <1>9, <2>6 DEF Answer
  <2> QED BY <2>1, <2>2, <2>3, <2>4, <2>5, <2>6, <1>25 DEF Work
<1>26. ASSUME NEW r \in Runtime,
              \/ \E e \in Command : Send(r, e) \/ FailEffect(r, e)
              \/ Throw(r) \/ Persist(r) \/ Open(r) \/ Crash(r)
       PROVE  AnswerInv'
  BY <1>12, <1>16, <1>17, <1>19, <1>21, <1>23, <1>26
<1>27. CASE Next
  <2>1. PICK r \in Runtime :
          \/ Work(r)
          \/ \E e \in Command : Send(r, e) \/ FailEffect(r, e)
          \/ Throw(r) \/ Persist(r) \/ Open(r) \/ Crash(r)
    BY <1>27, Zenon DEF Next
  <2> QED BY <2>1, <1>25, <1>26
<1> QED BY <1>24, <1>27

(* A success is told only by an answer to the command.                        *)
LEMMA ToldStep ==
  ASSUME TypeInv, [Next]_vars, NEW c \in Command, told'[c] = "ok", told[c] # "ok"
  PROVE  \E r \in Runtime : Answer(r) /\ rt[r].cmd = c /\ rt[r].outcome = "ok"
<1>1. ASSUME NEW r \in Runtime, NEW outcome, Unwind(r, outcome) PROVE FALSE
  BY <1>1 DEF Unwind, RollBack, Escape, TypeInv, TypeOK
<1>2. ASSUME NEW r \in Runtime, NEW e \in Command, Reject(r, e) PROVE FALSE
  BY <1>2 DEF Reject, TypeInv, TypeOK
<1>3. ASSUME NEW r \in Runtime, NEW outcome \in Result, Finish(r, outcome) PROVE FALSE
  BY <1>1, <1>3 DEF Finish
<1>4. ASSUME NEW r \in Runtime, Throw(r) \/ Conflict(r) PROVE FALSE
  <2>1. Throw(r) => Unwind(r, "ok")
    BY DEF Throw, Unwind
  <2> QED BY <1>1, <1>4, <2>1 DEF Conflict
<1>5. ASSUME NEW r \in Runtime, NEW e \in Command,
             \/ Replay(r, e) \/ Start(r, e) \/ WriteEffect(r, e)
             \/ FailEffect(r, e) \/ Send(r, e)
      PROVE  FALSE
  BY <1>5 DEF Replay, Start, WriteEffect, FailEffect, Send
<1>6. ASSUME NEW r \in Runtime,
             \/ Recommit(r) \/ Commit(r) \/ CompleteEffect(r) \/ Ready(r)
             \/ Persist(r) \/ Open(r) \/ Crash(r)
      PROVE  FALSE
  BY <1>6 DEF Recommit, Commit, CompleteEffect, Ready, Persist, Open, Crash
<1>7. ASSUME NEW r \in Runtime, Answer(r) PROVE rt[r].cmd = c /\ rt[r].outcome = "ok"
  BY <1>7 DEF Answer, TypeInv, TypeOK
<1>8. CASE UNCHANGED vars
  BY <1>8 DEF vars
<1>9. ASSUME NEW r \in Runtime, Work(r) PROVE Answer(r)
  BY <1>2, <1>3, <1>4, <1>5, <1>6, <1>9 DEF Work
<1> QED BY <1>4, <1>5, <1>6, <1>7, <1>8, <1>9 DEF Next

(******************************************************************************)
(* A client that was told a success can rely on it, whoever answered. The     *)
(* induction needs that a runtime about to answer knows the record, and that  *)
(* an effect is staged with its record.                                       *)
(******************************************************************************)
THEOREM ToldIsTrueHolds == Spec => []ToldIsTrue
<1>1. Init => ToldIsTrue /\ StagedInv /\ AnswerInv
  BY DEF Init, ToldIsTrue, StagedInv, AnswerInv, Idle
<1>2. /\ TypeInv /\ ToldIsTrue /\ StagedInv /\ AnswerInv /\ [Next]_vars
      => ToldIsTrue' /\ StagedInv' /\ AnswerInv'
  <2> SUFFICES ASSUME TypeInv, ToldIsTrue, StagedInv, AnswerInv, [Next]_vars
               PROVE  ToldIsTrue'
    BY StagedStep, AnswerStep
  <2>1. ASSUME NEW c \in Command, told'[c] = "ok" PROVE Backed(c)'
    <3>1. CASE told[c] = "ok"
      <4>1. Backed(c)
        BY <3>1 DEF ToldIsTrue, Backed
      <4> QED BY <4>1, BackedStays
    <3>2. CASE told[c] # "ok"
      <4>1. PICK r \in Runtime : Answer(r) /\ rt[r].cmd = c /\ rt[r].outcome = "ok"
        BY <2>1, <3>2, ToldStep
      <4>2. Backed(c)
        BY <4>1 DEF Answer, AnswerInv
      <4> QED BY <4>2, BackedStays
    <3> QED BY <3>1, <3>2
  <2> QED BY <2>1 DEF ToldIsTrue, Backed
<1> QED BY <1>1, <1>2, TypeAlways, TypeInductive, PTL DEF Spec

-----------------------------------------------------------------------------
(* The refinement: its invariant.                                             *)

(* One runtime at a time, and it owns the database.                           *)
Alone ==
  /\ \A r \in Runtime : Running(r) => owner = r
  /\ \A q, r \in Runtime : q < r /\ rt[r].phase # "down" => rt[q].phase = "dead"

Settled == {"recovering", "idle", "closing"}
Unsettled == {"open", "committing"}

(* Between commands the memory of a runtime is the durable state; while a     *)
(* command is open, it is that state with the command applied once, the       *)
(* checkpoint is the durable state, and a commit would find no conflict and no*)
(* record.                                                                    *)
Mirrors ==
  \A r \in Runtime :
    /\ rt[r].phase \in Settled => rt[r].mem = row
    /\ rt[r].phase \in Unsettled =>
         /\ rt[r].saved = row
         /\ rt[r].mem = [row EXCEPT ![rt[r].cmd] = @ + 1]
         /\ ~Conflicts(rt[r].cmd)
         /\ Recorded(rt[r].cmd) = {}

(* A journal in progress holds a copy of the durable state.                   *)
Copies ==
  \A c \in Command :
    journal[c].status = "in_progress" => c \in Journaled /\ journal[c].before = row[c]

LedgerInv == Alone /\ Mirrors /\ Copies

-----------------------------------------------------------------------------
(* Steps that leave the durable state alone.                                  *)

(* A command that may commit now may commit after a step that leaves the      *)
(* version alone.                                                             *)
LEMMA ExpectationStays ==
  ASSUME TypeInv, [Next]_vars, version' = version, NEW c \in Command, ~Conflicts(c)
  PROVE  ~Conflicts(c)'
<1>1. c \in Checked => expected[c] # None
  BY CommandAssumption DEF Conflicts, TypeInv, TypeOK
<1>2. c \in Checked => expected'[c] = expected[c]
  BY <1>1, ExpectedStays
<1> QED BY <1>2 DEF Conflicts

(* A running runtime changes itself.                                          *)
LEMMA OwnStep ==
  ASSUME TypeInv, Alone, Mirrors, [Next]_vars,
         NEW r \in Runtime, NEW p, Running(r), rt' = [rt EXCEPT ![r] = p],
         UNCHANGED <<owner, version, rec, row>>, p.phase # "down",
         p.phase \in Settled => p.mem = row,
         p.phase \in Unsettled =>
           /\ p.saved = row /\ p.cmd \in Command
           /\ p.mem = [row EXCEPT ![p.cmd] = @ + 1]
           /\ ~Conflicts(p.cmd)
           /\ Recorded(p.cmd) = {}
  PROVE  Alone' /\ Mirrors'
<1>1. \A q \in Runtime : rt'[q] = IF q = r THEN p ELSE rt[q]
  BY DEF TypeInv, TypeOK
<1>2. Alone'
  <2>1. \A q \in Runtime : Running(q)' => owner' = q
    BY <1>1 DEF Alone, Running
  <2>2. ASSUME NEW q \in Runtime, NEW s \in Runtime, q < s, rt'[s].phase # "down"
        PROVE  rt'[q].phase = "dead"
    <3>1. rt[s].phase # "down" /\ rt[q].phase = "dead"
      BY <1>1, <2>2 DEF Alone, Running
    <3> QED BY <1>1, <3>1 DEF Running
  <2> QED BY <2>1, <2>2 DEF Alone
<1>3. Mirrors'
  <2> SUFFICES ASSUME NEW q \in Runtime
               PROVE  /\ rt'[q].phase \in Settled => rt'[q].mem = row
                      /\ rt'[q].phase \in Unsettled =>
                           /\ rt'[q].saved = row
                           /\ rt'[q].mem = [row EXCEPT ![rt'[q].cmd] = @ + 1]
                           /\ \A c \in Command : c = rt'[q].cmd =>
                                ~Conflicts(c)' /\ Recorded(c)' = {}
                           /\ rt'[q].cmd \in Command
    BY DEF Mirrors
  <2>1. CASE q = r
    <3>1. rt'[q] = p
      BY <1>1, <2>1
    <3>2. p.phase \in Unsettled => \A c \in Command : c = p.cmd => ~Conflicts(c)'
      BY ExpectationStays
    <3>3. p.phase \in Unsettled => \A c \in Command : c = p.cmd => Recorded(c)' = {}
      BY DEF Recorded
    <3> QED BY <3>1, <3>2, <3>3
  <2>2. CASE q # r
    <3>1. rt'[q] = rt[q]
      BY <1>1, <2>2
    <3>2. rt[q].phase \notin Settled \cup Unsettled
      BY <2>2 DEF Alone, Running, Settled, Unsettled
    <3> QED BY <3>1, <3>2
  <2> QED BY <2>1, <2>2
<1> QED BY <1>2, <1>3

(* An aborted journal copies nothing, and the others stay.                    *)
LEMMA CopiesStay ==
  ASSUME TypeInv, Copies, row' = row, NEW c \in Command,
         journal' = journal \/ journal' = JournalAs(c, "aborted")
  PROVE  Copies'
<1>1. CASE journal' = journal
  BY <1>1 DEF Copies
<1>2. CASE journal' = JournalAs(c, "aborted")
  BY <1>2 DEF Copies, JournalAs, Journal, TypeInv, TypeOK
<1> QED BY <1>1, <1>2

(* A command that fails. Only a command that cannot commit would escape.      *)
LEMMA UnwindStep ==
  ASSUME TypeInv, LedgerInv, [Next]_vars, NEW r \in Runtime, NEW outcome,
         rt[r].phase \in Unsettled, outcome = "ok", Unwind(r, outcome)
  PROVE  LedgerInv' /\ row' = row
<1> DEFINE p == [Answered(rt[r]) EXCEPT !.mem = rt[r].saved]
<1>1. rt[r] \in Process /\ rt[r].cmd \in Command
  BY DEF TypeInv, TypeOK, Busy, Unsettled
<1>2. p.phase = "idle" /\ p.mem = rt[r].saved
  BY <1>1 DEF Answered, Process
<1>3. rt' = [rt EXCEPT ![r] = p]
  BY DEF Unwind, RollBack, TypeInv, TypeOK
<1>4. UNCHANGED <<owner, version, rec, row>> /\ journal' = JournalAs(rt[r].cmd, "aborted")
  BY DEF Unwind, RollBack
<1>5. p.mem = row /\ Running(r)
  BY <1>2 DEF LedgerInv, Mirrors, Running, Unsettled
<1> HIDE DEF p
<1>6. Alone' /\ Mirrors'
  BY <1>2, <1>3, <1>4, <1>5, OwnStep DEF LedgerInv, Unsettled
<1>7. Copies'
  BY <1>1, <1>4, CopiesStay DEF LedgerInv
<1> QED BY <1>4, <1>6, <1>7 DEF LedgerInv

LEMMA TakeUpStep ==
  ASSUME TypeInv, LedgerInv, [Next]_vars, NEW r \in Runtime, NEW c \in Command,
         Replay(r, c) \/ Reject(r, c) \/ Start(r, c)
  PROVE  LedgerInv' /\ row' = row
<1>1. rt[r] \in Process /\ rt[r].phase = "idle" /\ rt[r].mem = row /\ Running(r)
  BY DEF Replay, Reject, Start, AtHead, TypeInv, TypeOK, LedgerInv, Mirrors, Settled, Running
<1>2. CASE Replay(r, c)
  <2>1. PICK d \in Recorded(c) :
          rt' = [rt EXCEPT ![r] = [rt[r] EXCEPT !.phase = "closing", !.cmd = c,
                                   !.outcome = rec[d].result, !.todo = Pending]]
    BY <1>2 DEF Replay
  <2> DEFINE p == [rt[r] EXCEPT !.phase = "closing", !.cmd = c,
                                !.outcome = rec[d].result, !.todo = Pending]
  <2>2. p.phase = "closing" /\ p.mem = row /\ rt' = [rt EXCEPT ![r] = p]
    BY <1>1, <2>1 DEF Process
  <2>3. UNCHANGED <<owner, version, rec, row, journal>>
    BY <1>2 DEF Replay, store
  <2> HIDE DEF p
  <2>4. Alone' /\ Mirrors'
    BY <1>1, <2>2, <2>3, OwnStep DEF LedgerInv, Unsettled
  <2> QED BY <2>3, <2>4, CopiesStay DEF LedgerInv
<1>3. CASE Reject(r, c)
  <2>1. Answered(rt[r]).phase = "idle" /\ Answered(rt[r]).mem = row
    BY <1>1 DEF Answered, Process
  <2>2. rt' = [rt EXCEPT ![r] = Answered(rt[r])]
    BY <1>3 DEF Reject, TypeInv, TypeOK
  <2>3. UNCHANGED <<owner, version, rec, row, journal>>
    BY <1>3 DEF Reject, store
  <2>4. Alone' /\ Mirrors'
    BY <1>1, <2>1, <2>2, <2>3, OwnStep DEF LedgerInv, Unsettled
  <2> QED BY <2>3, <2>4, CopiesStay DEF LedgerInv
<1>4. CASE Start(r, c)
  <2> DEFINE p == [rt[r] EXCEPT !.phase = "open", !.cmd = c,
                                !.saved = rt[r].mem, !.mem[c] = @ + 1]
  <2>1. /\ p.phase = "open" /\ p.cmd = c /\ p.saved = row
        /\ p.mem = [row EXCEPT ![c] = @ + 1]
    BY <1>1 DEF Process
  <2>2. /\ rt' = [rt EXCEPT ![r] = p] /\ ~Conflicts(c) /\ Recorded(c) = {}
        /\ UNCHANGED <<owner, version, rec, row>>
    BY <1>4 DEF Start
  <2>3. Copies'
    <3>1. CASE c \in Journaled
      <4>1. journal' = [journal EXCEPT ![c] = [status |-> "in_progress",
                                               before |-> row[c]]]
        BY <1>1, <1>4, <3>1 DEF Start
      <4> QED BY <2>2, <3>1, <4>1 DEF Copies, LedgerInv, TypeInv, TypeOK
    <3>2. CASE c \notin Journaled
      BY <1>4, <2>2, <3>2 DEF Start, Copies, LedgerInv
    <3> QED BY <3>1, <3>2
  <2> HIDE DEF p
  <2>4. Alone' /\ Mirrors'
    BY <1>1, <2>1, <2>2, OwnStep DEF LedgerInv, Settled
  <2> QED BY <2>2, <2>3, <2>4 DEF LedgerInv
<1> QED BY <1>2, <1>3, <1>4

LEMMA EndStep ==
  ASSUME TypeInv, LedgerInv, [Next]_vars, NEW r \in Runtime,
         (\E outcome \in Result : Finish(r, outcome)) \/ Conflict(r) \/ Throw(r)
  PROVE  LedgerInv' /\ row' = row
<1>1. /\ rt[r] \in Process /\ rt[r].phase \in Unsettled /\ Running(r) /\ owner = r
      /\ rt[r].cmd \in Command
  BY DEF Finish, Conflict, Throw, TypeInv, TypeOK, Busy, LedgerInv, Alone, Unsettled, Running
<1>2. CASE Throw(r)
  BY <1>1, <1>2, UnwindStep DEF Throw, Unwind
<1>3. CASE Conflict(r)
  BY <1>1, <1>3 DEF Conflict, LedgerInv, Mirrors
<1>4. ASSUME NEW outcome \in Result, Finish(r, outcome)
      PROVE  LedgerInv' /\ row' = row
  <2> DEFINE p == [rt[r] EXCEPT !.phase = "committing", !.outcome = outcome]
  <2>1. /\ p.phase = "committing" /\ p.cmd = rt[r].cmd
        /\ p.saved = rt[r].saved /\ p.mem = rt[r].mem
    BY <1>1 DEF Process
  <2>2. rt' = [rt EXCEPT ![r] = p] /\ UNCHANGED <<owner, version, rec, row, journal>>
    BY <1>1, <1>4 DEF Finish, store, TypeInv, TypeOK
  <2> HIDE DEF p
  <2>3. Alone' /\ Mirrors'
    BY <1>1, <2>1, <2>2, OwnStep DEF LedgerInv, Mirrors, Settled
  <2> QED BY <2>2, <2>3, <1>1, CopiesStay DEF LedgerInv
<1> QED BY <1>2, <1>3, <1>4

(* A runtime changes what the invariant does not speak of.                    *)
LEMMA SameStep ==
  ASSUME TypeInv, LedgerInv, [Next]_vars,
         NEW r \in Runtime, NEW p, rt' = [rt EXCEPT ![r] = p],
         UNCHANGED <<owner, version, rec, row, journal>>,
         p.phase = rt[r].phase, p.mem = rt[r].mem, p.saved = rt[r].saved,
         p.cmd = rt[r].cmd
  PROVE  LedgerInv' /\ row' = row
<1>1. \A q \in Runtime : rt'[q] = IF q = r THEN p ELSE rt[q]
  BY DEF TypeInv, TypeOK
<1>2. \A q \in Runtime : /\ rt'[q].phase = rt[q].phase /\ rt'[q].mem = rt[q].mem
                         /\ rt'[q].saved = rt[q].saved /\ rt'[q].cmd = rt[q].cmd
  BY <1>1
<1>3. Alone'
  BY <1>2 DEF LedgerInv, Alone, Running
<1>4. ASSUME NEW q \in Runtime, rt[q].phase \in Unsettled
      PROVE  \A c \in Command : c = rt[q].cmd => ~Conflicts(c)' /\ Recorded(c)' = {}
  <2> SUFFICES ASSUME NEW c \in Command, c = rt[q].cmd
               PROVE  ~Conflicts(c)' /\ Recorded(c)' = {}
    OBVIOUS
  <2>1. ~Conflicts(c) /\ Recorded(c) = {}
    BY <1>4 DEF LedgerInv, Mirrors
  <2> QED BY <2>1, ExpectationStays DEF Recorded
<1>5. \A q \in Runtime : rt[q].phase \in Unsettled => rt[q].cmd \in Command
  BY DEF TypeInv, Busy, Unsettled
<1>6. Mirrors'
  BY <1>2, <1>4, <1>5 DEF LedgerInv, Mirrors
<1>7. Copies'
  BY DEF LedgerInv, Copies
<1> QED BY <1>3, <1>6, <1>7 DEF LedgerInv

LEMMA EffectStep ==
  ASSUME TypeInv, LedgerInv, [Next]_vars, NEW r \in Runtime, NEW e \in Command,
         WriteEffect(r, e) \/ FailEffect(r, e) \/ Send(r, e) \/ CompleteEffect(r)
  PROVE  LedgerInv' /\ row' = row
<1>1. rt[r] \in Process
  BY DEF TypeInv, TypeOK
<1>2. UNCHANGED <<owner, version, rec, row, journal>>
  BY DEF WriteEffect, FailEffect, Send, CompleteEffect, store
<1>3. CASE WriteEffect(r, e)
  <2> DEFINE p == [rt[r] EXCEPT !.todo = @ \ {e},
                                !.wrote = IF owner = r THEN e ELSE None]
  <2>1. /\ p.phase = rt[r].phase /\ p.mem = rt[r].mem /\ p.saved = rt[r].saved
        /\ p.cmd = rt[r].cmd
    BY <1>1 DEF Process
  <2>2. rt' = [rt EXCEPT ![r] = p]
    BY <1>3 DEF WriteEffect
  <2> HIDE DEF p
  <2> QED BY <1>2, <2>1, <2>2, SameStep
<1>4. CASE FailEffect(r, e)
  <2> DEFINE p == [rt[r] EXCEPT !.todo = @ \ {e}]
  <2>1. /\ p.phase = rt[r].phase /\ p.mem = rt[r].mem /\ p.saved = rt[r].saved
        /\ p.cmd = rt[r].cmd
    BY <1>1 DEF Process
  <2>2. rt' = [rt EXCEPT ![r] = p]
    BY <1>4 DEF FailEffect, TypeInv, TypeOK
  <2> HIDE DEF p
  <2> QED BY <1>2, <2>1, <2>2, SameStep
<1>5. CASE Send(r, e)
  <2> DEFINE p == [rt[r] EXCEPT !.queue = Append(@, e)]
  <2>1. /\ p.phase = rt[r].phase /\ p.mem = rt[r].mem /\ p.saved = rt[r].saved
        /\ p.cmd = rt[r].cmd
    BY <1>1 DEF Process
  <2>2. rt' = [rt EXCEPT ![r] = p]
    BY <1>5 DEF Send, TypeInv, TypeOK
  <2> HIDE DEF p
  <2> QED BY <1>2, <2>1, <2>2, SameStep
<1>6. CASE CompleteEffect(r)
  <2> DEFINE p == [rt[r] EXCEPT !.wrote = None]
  <2>1. /\ p.phase = rt[r].phase /\ p.mem = rt[r].mem /\ p.saved = rt[r].saved
        /\ p.cmd = rt[r].cmd
    BY <1>1 DEF Process
  <2>2. rt' = [rt EXCEPT ![r] = p]
    BY <1>6 DEF CompleteEffect, TypeInv, TypeOK
  <2> HIDE DEF p
  <2> QED BY <1>2, <2>1, <2>2, SameStep
<1> QED BY <1>3, <1>4, <1>5, <1>6

(* A runtime alone never finds its open command on record.                    *)
LEMMA RecommitStep ==
  ASSUME TypeInv, LedgerInv, NEW r \in Runtime, Recommit(r)
  PROVE  FALSE
BY DEF Recommit, LedgerInv, Mirrors, Unsettled

LEMMA AnswerReadyStep ==
  ASSUME TypeInv, LedgerInv, [Next]_vars, NEW r \in Runtime, Answer(r) \/ Ready(r)
  PROVE  LedgerInv' /\ row' = row
<1>1. rt[r] \in Process /\ rt[r].mem = row /\ Running(r) /\ owner = r
  BY DEF Answer, Ready, TypeInv, TypeOK, LedgerInv, Mirrors, Alone, Settled, Running
<1>2. UNCHANGED <<owner, version, rec, journal>> /\ row' = row
  BY <1>1 DEF Answer, Ready, store
<1>3. CASE Answer(r)
  <2>1. Answered(rt[r]).phase = "idle" /\ Answered(rt[r]).mem = row
    BY <1>1 DEF Answered, Process
  <2>2. rt' = [rt EXCEPT ![r] = Answered(rt[r])]
    BY <1>3 DEF Answer, TypeInv, TypeOK
  <2>3. Alone' /\ Mirrors'
    BY <1>1, <1>2, <2>1, <2>2, OwnStep DEF LedgerInv, Unsettled
  <2> QED BY <1>2, <2>3 DEF LedgerInv, Copies
<1>4. CASE Ready(r)
  <2> DEFINE p == [rt[r] EXCEPT !.phase = "idle"]
  <2>1. p.phase = "idle" /\ p.mem = row
    BY <1>1 DEF Process
  <2>2. rt' = [rt EXCEPT ![r] = p]
    BY <1>4 DEF Ready, TypeInv, TypeOK
  <2> HIDE DEF p
  <2>3. Alone' /\ Mirrors'
    BY <1>1, <1>2, <2>1, <2>2, OwnStep DEF LedgerInv, Unsettled
  <2> QED BY <1>2, <2>3 DEF LedgerInv, Copies
<1> QED BY <1>3, <1>4

LEMMA CrashStep ==
  ASSUME TypeInv, LedgerInv, [Next]_vars, NEW r \in Runtime, Crash(r)
  PROVE  LedgerInv' /\ row' = row
<1> DEFINE p == [Idle EXCEPT !.phase = "dead"]
<1>1. p.phase = "dead"
  BY DEF Idle
<1>2. rt' = [rt EXCEPT ![r] = p] /\ Running(r) /\ UNCHANGED <<owner, version, rec, row, journal>>
  BY DEF Crash, store
<1> HIDE DEF p
<1>3. Alone' /\ Mirrors'
  BY <1>1, <1>2, OwnStep DEF LedgerInv, Settled, Unsettled
<1> QED BY <1>2, <1>3 DEF LedgerInv, Copies

(* No snapshot of an open command is written; the others write what is there. *)
LEMMA PersistStep ==
  ASSUME TypeInv, LedgerInv, [Next]_vars, MaxDirty = 0, NEW r \in Runtime, Persist(r)
  PROVE  LedgerInv' /\ row' = row
<1>1. rt[r].phase = "idle"
  BY DEF Persist, TypeInv, TypeOK
<1>2. row' = row
  BY <1>1 DEF Persist, LedgerInv, Mirrors, Settled
<1>3. UNCHANGED <<owner, version, rec, journal, rt, expected>>
  BY DEF Persist
<1>4. Alone' /\ Copies'
  BY <1>2, <1>3 DEF LedgerInv, Alone, Running, Copies
<1>5. Mirrors'
  BY <1>2, <1>3 DEF LedgerInv, Mirrors, Conflicts, Recorded
<1> QED BY <1>2, <1>4, <1>5 DEF LedgerInv

LEMMA RuntimeOrder ==
  ASSUME NEW q \in Runtime, NEW r \in Runtime
  PROVE  /\ q < r => q \in 1..(r - 1) /\ q # r
         /\ q # r => q < r \/ q > r
<1>1. q \in Nat /\ r \in Nat /\ 1 <= q
  BY BoundAssumption DEF Runtime
<1> QED BY <1>1

(* The next runtime opens when the one before it is dead, and what it puts    *)
(* back is what is there.                                                     *)
LEMMA OpenStep ==
  ASSUME TypeInv, LedgerInv, [Next]_vars, Overlap = FALSE, NEW r \in Runtime, Open(r)
  PROVE  LedgerInv' /\ row' = row
<1> DEFINE p == [rt[r] EXCEPT !.phase = "recovering", !.mem = Recovered,
                              !.seen = version, !.todo = Pending]
<1>1. /\ rt[r].phase = "down" /\ rt' = [rt EXCEPT ![r] = p] /\ row' = row /\ owner' = r
      /\ \A q \in 1..(r - 1) : rt[q].phase = "dead"
  BY DEF Open
<1>2. Recovered = row
  <2>1. row = [c \in Command |-> row[c]]
    BY DEF TypeInv, TypeOK, Counts
  <2>2. \A c \in Command : (IF c \in InProgress THEN journal[c].before ELSE row[c]) = row[c]
    BY DEF LedgerInv, Copies, InProgress
  <2> QED BY <2>1, <2>2 DEF Recovered
<1>3. p.phase = "recovering" /\ p.mem = row
  <2>1. rt[r] \in Process
    BY DEF TypeInv, TypeOK
  <2> QED BY <1>2, <2>1 DEF Process
<1> HIDE DEF p
<1>4. \A q \in Runtime : rt'[q] = IF q = r THEN p ELSE rt[q]
  BY <1>1 DEF TypeInv, TypeOK
<1>5. \A q \in Runtime : q # r => rt[q].phase \in {"down", "dead"}
  <2>1. ASSUME NEW q \in Runtime, q # r, q > r PROVE rt[q].phase = "down"
    BY <1>1, <2>1 DEF LedgerInv, Alone
  <2>2. ASSUME NEW q \in Runtime, q < r PROVE rt[q].phase = "dead"
    <3>1. q \in 1..(r - 1)
      BY <2>2, RuntimeOrder
    <3> QED BY <1>1, <3>1
  <2>3. \A q \in Runtime : q # r => q < r \/ q > r
    BY RuntimeOrder
  <2> QED BY <2>1, <2>2, <2>3
<1>6. Alone'
  <2>1. \A q \in Runtime : Running(q)' => owner' = q
    BY <1>1, <1>4, <1>5 DEF Running
  <2>2. ASSUME NEW q \in Runtime, NEW s \in Runtime, q < s, rt'[s].phase # "down"
        PROVE  rt'[q].phase = "dead"
    <3>1. CASE s = r
      <4>1. q \in 1..(r - 1) /\ q # r
        BY <2>2, <3>1, RuntimeOrder
      <4> QED BY <1>1, <1>4, <4>1
    <3>2. CASE s # r
      BY <1>1, <1>4, <2>2, <3>2 DEF LedgerInv, Alone
    <3> QED BY <3>1, <3>2
  <2> QED BY <2>1, <2>2 DEF Alone
<1>7. Mirrors'
  BY <1>1, <1>3, <1>4, <1>5 DEF Mirrors, Settled, Unsettled
<1>8. Copies'
  BY DEF Open, Copies, InProgress, Journal, TypeInv, TypeOK
<1> QED BY <1>1, <1>6, <1>7, <1>8 DEF LedgerInv

-----------------------------------------------------------------------------
(* The refinement.                                                            *)

(* A commit is an entry of the ledger.                                        *)
LEMMA CommitEnters ==
  ASSUME TypeInv, LedgerInv, [Next]_vars, NEW r \in Runtime, Commit(r)
  PROVE  LedgerInv' /\ L!Enter(rt[r].cmd)
<1> DEFINE c == rt[r].cmd
           p == [rt[r] EXCEPT !.phase = "closing", !.seen = NextVersion(c),
                   !.todo = IF rt[r].outcome = "ok"
                              THEN {e \in Command : outbox'[e] = "pending"} ELSE {}]
<1>1. /\ rt[r] \in Process /\ rt[r].phase = "committing" /\ c \in Command
      /\ rec[c] = None /\ rec'[c] # None
      /\ \A d \in Command : rec[d] # None => KeyOf[d] # KeyOf[c]
      /\ \A d \in Command : d # c => rec'[d] = rec[d]
  BY CommitStep DEF Commit, TypeInv, TypeOK
<1>2. /\ row' = rt[r].mem /\ version' = NextVersion(c) /\ owner' = owner
      /\ log' = [log EXCEPT ![c] = @ + 1] /\ journal' = JournalAs(c, "completed")
  BY DEF Commit
<1>3. Running(r) /\ rt[r].mem = [row EXCEPT ![c] = @ + 1]
  BY <1>1 DEF LedgerInv, Mirrors, Unsettled, Running
<1>4. row' = [row EXCEPT ![c] = @ + 1]
  BY <1>2, <1>3
<1>5. rt' = [rt EXCEPT ![r] = p]
  BY DEF Commit
<1>6. p.phase = "closing" /\ p.mem = rt[r].mem
  BY <1>1 DEF Process
<1> HIDE DEF p, c
<1>7. \A q \in Runtime : rt'[q] = IF q = r THEN p ELSE rt[q]
  BY <1>5 DEF TypeInv, TypeOK
<1>8. \A q \in Runtime : q # r => rt[q].phase \in {"down", "dead"}
  BY <1>3 DEF LedgerInv, Alone, Running
<1>9. Alone'
  <2>1. \A q \in Runtime : Running(q)' => owner' = q
    BY <1>2, <1>3, <1>7, <1>8 DEF LedgerInv, Alone, Running
  <2>2. ASSUME NEW q \in Runtime, NEW s \in Runtime, q < s, rt'[s].phase # "down"
        PROVE  rt'[q].phase = "dead"
    <3>1. rt[s].phase # "down" /\ rt[q].phase = "dead"
      BY <1>1, <1>7, <2>2 DEF LedgerInv, Alone
    <3> QED BY <1>1, <1>7, <3>1
  <2> QED BY <2>1, <2>2 DEF Alone
<1>10. Mirrors'
  BY <1>2, <1>6, <1>7, <1>8 DEF Mirrors, Settled, Unsettled
<1>11. Copies'
  <2> SUFFICES ASSUME NEW d \in Command, journal'[d].status = "in_progress"
               PROVE  d \in Journaled /\ journal'[d].before = row'[d]
    BY DEF Copies
  <2>1. d # c
    BY <1>1, <1>2 DEF LedgerInv, Copies, JournalAs, Journal, TypeInv, TypeOK
  <2>2. journal'[d] = journal[d] /\ row'[d] = row[d]
    BY <1>1, <1>2, <1>4, <2>1 DEF JournalAs, TypeInv, TypeOK, Counts
  <2> QED BY <2>2 DEF LedgerInv, Copies
<1>12. \A d \in Committed : KeyOf[d] # KeyOf[c]
  BY <1>1 DEF Committed
<1>13. Committed' = Committed \cup {c}
  BY <1>1 DEF Committed
<1>14. L!Enter(c)
  BY <1>2, <1>4, <1>12, <1>13 DEF L!Enter, NextVersion
<1> QED BY <1>9, <1>10, <1>11, <1>14 DEF LedgerInv, c

LEMMA StepsEnterOrStutter ==
  ASSUME TypeInv, LedgerInv, [Next]_vars, Overlap = FALSE, MaxDirty = 0
  PROVE  LedgerInv' /\ [L!Next]_(L!ledger)
<1>1. ASSUME NEW r \in Runtime, Commit(r) PROVE LedgerInv' /\ L!Next
  <2>1. rt[r].cmd \in Command
    BY <1>1 DEF Commit, TypeInv, Busy
  <2> QED BY <1>1, <2>1, CommitEnters DEF L!Next
<1>2. ASSUME UNCHANGED <<version, rec, log>>, row' = row
      PROVE  UNCHANGED L!ledger
  BY <1>2 DEF L!ledger, Committed
<1>3. ASSUME UNCHANGED vars PROVE LedgerInv' /\ row' = row
  BY <1>3 DEF vars, LedgerInv, Alone, Running, Mirrors, Conflicts, Recorded, Copies
<1>4. ASSUME NEW r \in Runtime, Work(r), ~Commit(r) PROVE LedgerInv' /\ row' = row
  <2>1. CASE \E c \in Command : Replay(r, c) \/ Reject(r, c) \/ Start(r, c)
    BY <2>1, TakeUpStep
  <2>2. CASE (\E outcome \in Result : Finish(r, outcome)) \/ Conflict(r)
    BY <2>2, EndStep
  <2>3. CASE Recommit(r)
    BY <2>3, RecommitStep
  <2>4. CASE \E e \in Command : WriteEffect(r, e) \/ CompleteEffect(r)
    BY <2>4, EffectStep
  <2>5. CASE Answer(r) \/ Ready(r)
    BY <2>5, AnswerReadyStep
  <2>6. CompleteEffect(r) => \E e \in Command : CompleteEffect(r)
    BY DEF CompleteEffect, TypeInv, TypeOK, Process
  <2> QED BY <1>4, <2>1, <2>2, <2>3, <2>4, <2>5, <2>6 DEF Work
<1>5. ASSUME NEW r \in Runtime,
             \/ \E e \in Command : Send(r, e) \/ FailEffect(r, e)
             \/ Throw(r) \/ Persist(r) \/ Open(r) \/ Crash(r)
      PROVE  LedgerInv' /\ row' = row
  BY <1>5, EffectStep, EndStep, PersistStep, OpenStep, CrashStep
<1>6. CASE Next
  <2>1. PICK r \in Runtime :
          \/ Work(r)
          \/ \E e \in Command : Send(r, e) \/ FailEffect(r, e)
          \/ Throw(r) \/ Persist(r) \/ Open(r) \/ Crash(r)
    BY <1>6, Zenon DEF Next
  <2>2. CASE \E q \in Runtime : Commit(q)
    BY <1>1, <2>2
  <2>3. CASE ~\E q \in Runtime : Commit(q)
    <3>1. LedgerInv' /\ row' = row
      BY <1>4, <1>5, <2>1, <2>3
    <3>2. UNCHANGED <<version, rec, log>>
      BY <2>3, Writers
    <3> QED BY <1>2, <3>1, <3>2
  <2> QED BY <2>2, <2>3
<1>7. CASE UNCHANGED vars
  <2>1. UNCHANGED <<version, rec, log>>
    BY <1>7 DEF vars
  <2> QED BY <1>2, <1>3, <1>7, <2>1
<1> QED BY <1>6, <1>7

(******************************************************************************)
(* Runtimes that follow one another implement the ledger: however often a     *)
(* command is retried, thrown, refused or interrupted by a crash, its record, *)
(* events, durable change and version appear in one step, once. That no       *)
(* snapshot is written while a command is open is needed: see dirty_snapshot. *)
(******************************************************************************)
THEOREM LedgerImplemented ==
  ASSUME Overlap = FALSE, MaxDirty = 0
  PROVE  Spec => IsLedger
<1>1. Init => LedgerInv /\ L!Init
  <2> SUFFICES ASSUME Init PROVE LedgerInv /\ L!Init
    OBVIOUS
  <2>1. \A r \in Runtime : rt[r].phase = "down"
    BY DEF Init, Idle
  <2>2. LedgerInv
    BY <2>1 DEF Init, LedgerInv, Alone, Running, Mirrors, Settled, Unsettled, Copies
  <2> QED BY <2>2 DEF Init, L!Init, Committed
<1>2. TypeInv /\ LedgerInv /\ [Next]_vars => LedgerInv' /\ [L!Next]_(L!ledger)
  BY StepsEnterOrStutter
<1> QED BY <1>1, <1>2, TypeAlways, PTL DEF Spec, IsLedger, L!Spec

-----------------------------------------------------------------------------
(* Deployments.                                                               *)

(* A step of one runtime that leaves journals and records alone: a journal in *)
(* progress belongs to the command this runtime has open, before and after.   *)
LEMMA JournalKept ==
  ASSUME TypeInv, LedgerInv, JournalSettled, NEW r \in Runtime, NEW p, Running(r),
         rt' = [rt EXCEPT ![r] = p], UNCHANGED <<rec, journal>>,
         \/ rt[r].phase \notin Unsettled
         \/ p.phase \in Unsettled /\ p.cmd = rt[r].cmd
         \/ p.phase = "dead"
  PROVE  JournalSettled'
<1>1. \A q \in Runtime : rt'[q] = IF q = r THEN p ELSE rt[q]
  BY DEF TypeInv, TypeOK
<1>2. \A q \in Runtime : q # r => ~Running(q)
  BY DEF LedgerInv, Alone
<1>3. ASSUME NEW c \in Journaled, journal[c].status = "in_progress"
      PROVE  \A q \in Runtime : Running(q)' =>
               rt'[q].phase \in {"open", "committing"} /\ rt'[q].cmd = c
  <2>1. rt[r].phase \in Unsettled /\ rt[r].cmd = c
    BY <1>3 DEF JournalSettled, Unsettled
  <2> QED BY <1>1, <1>2, <2>1 DEF Running, Unsettled
<1> QED BY <1>3 DEF JournalSettled

(* The end of the open command: no journal stays in progress.                 *)
LEMMA JournalEnds ==
  ASSUME TypeInv, LedgerInv, JournalSettled, NEW r \in Runtime, rt[r].phase \in Unsettled,
         NEW status \in {"aborted", "completed"}, journal' = JournalAs(rt[r].cmd, status),
         \A c \in Command : c # rt[r].cmd => rec'[c] = rec[c],
         rec'[rt[r].cmd] # None <=> status = "completed"
  PROVE  JournalSettled'
<1> DEFINE c == rt[r].cmd
<1>1. Running(r)
  BY DEF Running, Unsettled
<1>2. journal \in [Command -> Journal] /\ Journaled \subseteq Command
  BY CommandAssumption DEF TypeInv, TypeOK
<1> HIDE DEF c
<1>3. ASSUME NEW d \in Journaled, d # c
      PROVE  journal'[d] = journal[d] /\ journal[d].status # "in_progress" /\ rec'[d] = rec[d]
  BY <1>1, <1>2, <1>3 DEF JournalAs, JournalSettled, c
<1>4. c \in Journaled => journal'[c].status = status
  BY <1>2 DEF JournalAs, Journal, c
<1> QED BY <1>3, <1>4 DEF JournalSettled, c

(* The journal of the command that starts was aborted, or there was none.     *)
LEMMA JournalStarts ==
  ASSUME TypeInv, LedgerInv, JournalSettled, NEW r \in Runtime, NEW c \in Command, Start(r, c)
  PROVE  JournalSettled'
<1> DEFINE p == [rt[r] EXCEPT !.phase = "open", !.cmd = c,
                              !.saved = rt[r].mem, !.mem[c] = @ + 1]
<1>1. rt[r].phase = "idle" /\ rec[c] = None /\ rec' = rec
  BY DEF Start, AtHead, Recorded
<1>2. p.phase = "open" /\ p.cmd = c
  BY DEF TypeInv, TypeOK, Process
<1>3. rt' = [rt EXCEPT ![r] = p]
  BY DEF Start
<1> HIDE DEF p
<1>4. CASE c \notin Journaled
  <2>1. journal' = journal
    BY <1>4 DEF Start
  <2> QED BY <1>1, <1>3, <2>1, JournalKept DEF Running, Unsettled
<1>5. CASE c \in Journaled
  <2>1. journal \in [Command -> Journal] /\ Journaled \subseteq Command
    BY CommandAssumption DEF TypeInv, TypeOK
  <2>2. journal'[c].status = "in_progress"
    BY <1>5, <2>1 DEF Start
  <2>3. \A d \in Journaled : d # c =>
          journal'[d] = journal[d] /\ journal[d].status # "in_progress"
    BY <1>1, <1>5, <2>1 DEF Start, JournalSettled, Running
  <2>4. \A q \in Runtime : Running(q)' => rt'[q].phase = "open" /\ rt'[q].cmd = c
    <3>1. \A q \in Runtime : rt'[q] = IF q = r THEN p ELSE rt[q]
      BY <1>3 DEF TypeInv, TypeOK
    <3>2. \A q \in Runtime : q # r => ~Running(q)
      BY <1>1 DEF LedgerInv, Alone, Running
    <3> QED BY <1>2, <3>1, <3>2 DEF Running
  <2> QED BY <1>1, <2>2, <2>3, <2>4 DEF JournalSettled
<1> QED BY <1>4, <1>5

LEMMA JournalWork ==
  ASSUME TypeInv, LedgerInv, JournalSettled, NEW r \in Runtime, Work(r)
  PROVE  JournalSettled'
<1>1. rt[r] \in Process
  BY DEF TypeInv, TypeOK
<1>2. ASSUME NEW c \in Command, Replay(r, c) \/ Reject(r, c) \/ Start(r, c)
      PROVE  JournalSettled'
  <2>1. Running(r) /\ rt[r].phase \notin Unsettled
    BY <1>2 DEF Replay, Reject, Start, AtHead, Running, Unsettled
  <2>2. CASE Replay(r, c)
    <3>1. PICK d \in Recorded(c) :
            rt' = [rt EXCEPT ![r] = [rt[r] EXCEPT !.phase = "closing", !.cmd = c,
                                             !.outcome = rec[d].result, !.todo = Pending]]
      BY <2>2 DEF Replay
    <3> QED BY <2>1, <2>2, <3>1, JournalKept DEF Replay, store
  <2>3. CASE Reject(r, c)
    BY <2>1, <2>3, JournalKept DEF Reject, store, TypeInv, TypeOK
  <2>4. CASE Start(r, c)
    BY <2>4, JournalStarts
  <2> QED BY <1>2, <2>2, <2>3, <2>4
<1>3. ASSUME NEW outcome \in Result, Finish(r, outcome) PROVE JournalSettled'
  <2> DEFINE p == [rt[r] EXCEPT !.phase = "committing", !.outcome = outcome]
  <2>1. Running(r) /\ owner = r
    BY <1>3 DEF Finish, Running, LedgerInv, Alone
  <2>2. rt' = [rt EXCEPT ![r] = p] /\ UNCHANGED <<rec, journal>>
    BY <1>3, <2>1 DEF Finish, store, TypeInv, TypeOK
  <2>3. p.phase = "committing" /\ p.cmd = rt[r].cmd
    BY <1>1 DEF Process
  <2> HIDE DEF p
  <2> QED BY <2>1, <2>2, <2>3, JournalKept DEF Unsettled
<1>4. CASE Recommit(r)
  BY <1>4, RecommitStep
<1>5. CASE Conflict(r)
  BY <1>5 DEF Conflict, LedgerInv, Mirrors, Unsettled
<1>6. CASE Commit(r)
  <2>1. /\ rec'[rt[r].cmd] # None
        /\ \A d \in Command : d # rt[r].cmd => rec'[d] = rec[d]
    BY <1>6, CommitStep
  <2> QED BY <1>6, <2>1, JournalEnds DEF Commit, Unsettled
<1>7. ASSUME NEW e \in Command, WriteEffect(r, e) PROVE JournalSettled'
  <2>1. Running(r) /\ rt[r].phase \notin Unsettled
    BY <1>7 DEF WriteEffect, Drains, Running, Unsettled
  <2> QED BY <1>7, <2>1, JournalKept DEF WriteEffect
<1>8. CASE CompleteEffect(r)
  <2> DEFINE p == [rt[r] EXCEPT !.wrote = None]
  <2>1. rt' = [rt EXCEPT ![r] = p] /\ UNCHANGED <<rec, journal>>
    BY <1>8 DEF CompleteEffect, TypeInv, TypeOK
  <2>2. p.phase = rt[r].phase /\ p.cmd = rt[r].cmd
    BY <1>1 DEF Process
  <2> HIDE DEF p
  <2>3. CASE Running(r)
    BY <2>1, <2>2, <2>3, JournalKept
  <2>4. CASE ~Running(r)
    <3>1. \A q \in Runtime : rt'[q].phase = rt[q].phase /\ rt'[q].cmd = rt[q].cmd
      BY <2>1, <2>2 DEF TypeInv, TypeOK
    <3> QED BY <2>1, <3>1 DEF JournalSettled, Running
  <2> QED BY <2>3, <2>4
<1>9. CASE Answer(r)
  <2>1. Running(r) /\ rt[r].phase \notin Unsettled
    BY <1>9 DEF Answer, Running, Unsettled
  <2> QED BY <1>9, <2>1, JournalKept DEF Answer, store, TypeInv, TypeOK
<1>10. CASE Ready(r)
  <2>1. Running(r) /\ rt[r].phase \notin Unsettled
    BY <1>10 DEF Ready, Running, Unsettled
  <2>2. rt' = [rt EXCEPT ![r] = [rt[r] EXCEPT !.phase = "idle"]]
    BY <1>10 DEF Ready, TypeInv, TypeOK
  <2> QED BY <1>10, <2>1, <2>2, JournalKept DEF Ready
<1> QED BY <1>2, <1>3, <1>4, <1>5, <1>6, <1>7, <1>8, <1>9, <1>10 DEF Work

LEMMA JournalStep ==
  ASSUME TypeInv, LedgerInv, JournalSettled, [Next]_vars
  PROVE  JournalSettled'
<1>1. ASSUME NEW r \in Runtime, NEW c \in Command, Send(r, c) \/ FailEffect(r, c)
      PROVE  JournalSettled'
  <2>1. rt[r] \in Process
    BY DEF TypeInv, TypeOK
  <2>2. PICK p \in {[rt[r] EXCEPT !.queue = Append(@, c)], [rt[r] EXCEPT !.todo = @ \ {c}]} :
          rt' = [rt EXCEPT ![r] = p] /\ UNCHANGED <<rec, journal>>
    BY <1>1 DEF Send, FailEffect, store, TypeInv, TypeOK
  <2>3. p.phase = rt[r].phase /\ p.cmd = rt[r].cmd
    BY <2>1 DEF Process
  <2>4. Running(r)
    BY <1>1 DEF Send, FailEffect, Drains, Running
  <2> QED BY <2>2, <2>3, <2>4, JournalKept
<1>2. ASSUME NEW r \in Runtime, Throw(r) PROVE JournalSettled'
  <2>1. rec' = rec /\ journal' = JournalAs(rt[r].cmd, "aborted") /\ rt[r].phase = "open"
    BY <1>2 DEF Throw, RollBack
  <2>2. rt[r].cmd \in Command /\ Recorded(rt[r].cmd) = {}
    BY <2>1 DEF LedgerInv, Mirrors, Unsettled, TypeInv, Busy
  <2>3. rec'[rt[r].cmd] = None
    BY <2>1, <2>2 DEF Recorded
  <2> QED BY <2>1, <2>3, JournalEnds DEF Unsettled
<1>3. ASSUME NEW r \in Runtime, Persist(r) PROVE JournalSettled'
  BY <1>3 DEF Persist, JournalSettled, Running
<1>4. ASSUME NEW r \in Runtime, Open(r) PROVE JournalSettled'
  <2>1. rec' = rec /\ journal \in [Command -> Journal] /\ Journaled \subseteq Command
    BY <1>4, CommandAssumption DEF Open, TypeInv, TypeOK
  <2>2. \A c \in Command :
          journal'[c].status = IF journal[c].status = "in_progress"
                                 THEN "aborted" ELSE journal[c].status
    BY <1>4, <2>1 DEF Open, InProgress, Journal
  <2> QED BY <2>1, <2>2 DEF JournalSettled
<1>5. ASSUME NEW r \in Runtime, Crash(r) PROVE JournalSettled'
  <2>1. [Idle EXCEPT !.phase = "dead"].phase = "dead"
    BY DEF Idle
  <2> QED BY <1>5, <2>1, JournalKept DEF Crash, store
<1>6. CASE UNCHANGED vars
  BY <1>6 DEF vars, JournalSettled, Running
<1> QED BY <1>1, <1>2, <1>3, <1>4, <1>5, <1>6, JournalWork DEF Next

LEMMA LedgerAlways ==
  ASSUME Overlap = FALSE, MaxDirty = 0
  PROVE  Spec => []LedgerInv
<1>1. Init => LedgerInv
  <2> SUFFICES ASSUME Init PROVE LedgerInv
    OBVIOUS
  <2>1. \A r \in Runtime : rt[r].phase = "down"
    BY DEF Init, Idle
  <2> QED BY <2>1 DEF Init, LedgerInv, Alone, Running, Mirrors, Settled, Unsettled, Copies
<1>2. TypeInv /\ LedgerInv /\ [Next]_vars => LedgerInv'
  BY StepsEnterOrStutter
<1> QED BY <1>1, <1>2, TypeAlways, PTL DEF Spec

(******************************************************************************)
(* Runtimes that follow one another leave no deployment in between (the       *)
(* journal of commandExecutor.ts and recoverWorkflowDeployments): completed   *)
(* exactly when the command is on record, in progress only while it is open   *)
(* or until the next runtime opens, after any throws, crashes and retries.    *)
(******************************************************************************)
THEOREM JournalSettledHolds ==
  ASSUME Overlap = FALSE, MaxDirty = 0
  PROVE  Spec => []JournalSettled
<1>1. Init => JournalSettled
  <2> SUFFICES ASSUME Init, NEW c \in Journaled
               PROVE  journal[c].status = "none" /\ rec[c] = None
    BY DEF JournalSettled
  <2>1. c \in Command
    BY CommandAssumption
  <2> QED BY <2>1 DEF Init
<1>2. TypeInv /\ LedgerInv /\ JournalSettled /\ [Next]_vars => JournalSettled'
  BY JournalStep
<1> QED BY <1>1, <1>2, TypeAlways, LedgerAlways, PTL DEF Spec

-----------------------------------------------------------------------------
(* Answers.                                                                   *)

(* A result a client was told, or is about to be told, is on record.          *)
OnRecord(c, result) == \E d \in Recorded(c) : rec[d].result = result
ReplyInv ==
  /\ \A c \in Command : told[c] \in Result => OnRecord(c, told[c])
  /\ \A r \in Runtime : rt[r].phase = "closing" => OnRecord(rt[r].cmd, rt[r].outcome)

(* Two results on record for one key are one.                                 *)
LEMMA OneResult ==
  ASSUME RecordedOnce, NEW c \in Command, NEW x, NEW y, OnRecord(c, x), OnRecord(c, y)
  PROVE  x = y
<1>1. PICK d \in Recorded(c) : rec[d].result = x
  BY DEF OnRecord
<1>2. PICK e \in Recorded(c) : rec[e].result = y
  BY DEF OnRecord
<1>3. d \in Command /\ rec[d] # None /\ Recorded(d) = {d}
  BY DEF Recorded, RecordedOnce
<1>4. e \in Recorded(d)
  BY <1>3 DEF Recorded
<1> QED BY <1>1, <1>2, <1>3, <1>4

(* A step of one runtime that tells nobody a result.                          *)
LEMMA ReplyKept ==
  ASSUME TypeInv, ReplyInv, [Next]_vars, NEW r \in Runtime, NEW p,
         rt' = [rt EXCEPT ![r] = p],
         \A c \in Command : told'[c] = told[c] \/ told'[c] = "error",
         p.phase = "closing" =>
           \/ p.cmd \in Command /\ OnRecord(p.cmd, p.outcome)
           \/ rt[r].phase = "closing" /\ p.cmd = rt[r].cmd /\ p.outcome = rt[r].outcome
  PROVE  ReplyInv'
<1>1. \A q \in Runtime : rt'[q] = IF q = r THEN p ELSE rt[q]
  BY DEF TypeInv, TypeOK
<1>2. ASSUME NEW c \in Command, told'[c] \in Result
      PROVE  \E d \in Command : rec'[d] # None /\ KeyOf[d] = KeyOf[c] /\ rec'[d].result = told'[c]
  <2>1. told'[c] = told[c] /\ OnRecord(c, told[c])
    BY <1>2 DEF ReplyInv, Result
  <2>2. \E d \in Command : rec[d] # None /\ KeyOf[d] = KeyOf[c] /\ rec[d].result = told[c]
    BY <2>1 DEF OnRecord, Recorded
  <2> QED BY <2>1, <2>2, RecordsStay
<1>3. ASSUME NEW q \in Runtime, rt'[q].phase = "closing"
      PROVE  \E d \in Command : /\ rec'[d] # None /\ KeyOf[d] = KeyOf[rt'[q].cmd]
                                /\ rec'[d].result = rt'[q].outcome
  <2>1. rt'[q].cmd \in Command /\ OnRecord(rt'[q].cmd, rt'[q].outcome)
    BY <1>1, <1>3 DEF ReplyInv, TypeInv, Busy
  <2>2. \E d \in Command : /\ rec[d] # None /\ KeyOf[d] = KeyOf[rt'[q].cmd]
                           /\ rec[d].result = rt'[q].outcome
    BY <2>1 DEF OnRecord, Recorded
  <2> QED BY <2>2, RecordsStay
<1> QED BY <1>2, <1>3 DEF ReplyInv, OnRecord, Recorded

\* What a step may tell: nothing; an error about what is not on record; or a result that is.
Tells ==
  \/ told' = told
  \/ \E c \in Command : told' = [told EXCEPT ![c] = "error"] /\ Recorded(c) = {}
  \/ \E r \in Runtime :
       /\ rt[r].phase = "closing"
       /\ told' = [told EXCEPT ![rt[r].cmd] = rt[r].outcome]

LEMMA TellsEnough ==
  ASSUME TypeInv, ReplyInv, RecordedOnce, Tells, NEW c \in Command, told'[c] # told[c]
  PROVE  IF told'[c] = "error" THEN Recorded(c) = {} ELSE told[c] \notin Result
<1>1. told \in [Command -> Result \cup {"error", "nothing"}]
  BY DEF TypeInv, TypeOK
<1>2. ASSUME NEW d \in Command, told' = [told EXCEPT ![d] = "error"], Recorded(d) = {}
      PROVE  told'[c] = "error" /\ Recorded(c) = {}
  BY <1>1, <1>2
<1>3. ASSUME NEW r \in Runtime, rt[r].phase = "closing",
             told' = [told EXCEPT ![rt[r].cmd] = rt[r].outcome]
      PROVE  told'[c] \in Result /\ told[c] \notin Result
  <2>1. rt[r].cmd \in Command /\ rt[r].outcome \in Result
    BY <1>3 DEF TypeInv, TypeOK, Process, Busy
  <2>2. rt[r].cmd = c /\ told'[c] = rt[r].outcome /\ OnRecord(c, rt[r].outcome)
    BY <1>1, <1>3, <2>1 DEF ReplyInv
  <2>3. told[c] \in Result => told[c] = rt[r].outcome
    BY <2>2, OneResult DEF ReplyInv
  <2> QED BY <2>1, <2>2, <2>3
<1> QED BY <1>2, <1>3 DEF Tells, Result

LEMMA ReplyWork ==
  ASSUME TypeInv, LedgerInv, ReplyInv, [Next]_vars, NEW r \in Runtime, Work(r)
  PROVE  ReplyInv' /\ Tells
<1>1. rt[r] \in Process /\ told \in [Command -> Result \cup {"error", "nothing"}]
  BY DEF TypeInv, TypeOK
<1>2. ASSUME NEW c \in Command, Replay(r, c) PROVE ReplyInv' /\ Tells
  <2> DEFINE P(d) == [rt[r] EXCEPT !.phase = "closing", !.cmd = c,
                                   !.outcome = rec[d].result, !.todo = Pending]
  <2>1. PICK d \in Recorded(c) : rt' = [rt EXCEPT ![r] = P(d)]
    BY <1>2 DEF Replay
  <2>2. P(d).cmd = c /\ P(d).outcome = rec[d].result
    BY <1>1 DEF Process
  <2>3. OnRecord(c, P(d).outcome)
    BY <2>2 DEF OnRecord
  <2> HIDE DEF P
  <2>4. told' = told
    BY <1>2 DEF Replay
  <2> QED BY <2>1, <2>2, <2>3, <2>4, ReplyKept DEF Tells
<1>3. ASSUME NEW c \in Command, Reject(r, c) PROVE ReplyInv' /\ Tells
  <2>1. /\ rt' = [rt EXCEPT ![r] = Answered(rt[r])]
        /\ told' = [told EXCEPT ![c] = "error"] /\ Recorded(c) = {}
    BY <1>3 DEF Reject, TypeInv, TypeOK
  <2>2. Answered(rt[r]).phase = "idle"
    BY <1>1 DEF Answered, Process
  <2>3. \A d \in Command : told'[d] = told[d] \/ told'[d] = "error"
    BY <1>1, <2>1
  <2> QED BY <2>1, <2>2, <2>3, ReplyKept DEF Tells
<1>4. ASSUME NEW c \in Command, Start(r, c) PROVE ReplyInv' /\ Tells
  <2> DEFINE p == [rt[r] EXCEPT !.phase = "open", !.cmd = c,
                                !.saved = rt[r].mem, !.mem[c] = @ + 1]
  <2>1. rt' = [rt EXCEPT ![r] = p] /\ told' = told
    BY <1>4 DEF Start
  <2>2. p.phase = "open"
    BY <1>1 DEF Process
  <2> HIDE DEF p
  <2> QED BY <2>1, <2>2, ReplyKept DEF Tells
<1>5. ASSUME NEW outcome \in Result, Finish(r, outcome) PROVE ReplyInv' /\ Tells
  <2> DEFINE p == [rt[r] EXCEPT !.phase = "committing", !.outcome = outcome]
  <2>1. owner = r
    BY <1>5 DEF Finish, Running, LedgerInv, Alone
  <2>2. rt' = [rt EXCEPT ![r] = p] /\ told' = told
    BY <1>5, <2>1 DEF Finish, TypeInv, TypeOK
  <2>3. p.phase = "committing"
    BY <1>1 DEF Process
  <2> HIDE DEF p
  <2> QED BY <2>2, <2>3, ReplyKept DEF Tells
<1>6. CASE Recommit(r)
  BY <1>6, RecommitStep
<1>7. CASE Conflict(r)
  BY <1>7 DEF Conflict, LedgerInv, Mirrors, Unsettled
<1>8. CASE Commit(r)
  <2> DEFINE c == rt[r].cmd
             p == [rt[r] EXCEPT !.phase = "closing", !.seen = NextVersion(c),
                     !.todo = IF rt[r].outcome = "ok"
                                THEN {e \in Command : outbox'[e] = "pending"} ELSE {}]
  <2>1. rt' = [rt EXCEPT ![r] = p] /\ told' = told
    BY <1>8 DEF Commit
  <2>2. p.cmd = c /\ p.outcome = rt[r].outcome
    BY <1>1 DEF Process
  <2>3. /\ c \in Command /\ rec'[c] # None
        /\ rec'[c] = [result |-> rt[r].outcome, version |-> NextVersion(c)]
    BY <1>8, CommitStep
  <2> HIDE DEF p, c
  <2>4. \A q \in Runtime : rt'[q] = IF q = r THEN p ELSE rt[q]
    BY <2>1 DEF TypeInv, TypeOK
  <2>5. ASSUME NEW d \in Command, NEW x, OnRecord(d, x)
        PROVE  \E e \in Command : rec'[e] # None /\ KeyOf[e] = KeyOf[d] /\ rec'[e].result = x
    BY <2>5, RecordsStay DEF OnRecord, Recorded
  <2>6. ASSUME NEW q \in Runtime, rt'[q].phase = "closing"
        PROVE  \E e \in Command : /\ rec'[e] # None /\ KeyOf[e] = KeyOf[rt'[q].cmd]
                                  /\ rec'[e].result = rt'[q].outcome
    <3>1. CASE q = r
      BY <2>2, <2>3, <2>4, <3>1
    <3>2. CASE q # r
      <4>1. rt[q].cmd \in Command /\ OnRecord(rt[q].cmd, rt[q].outcome)
        BY <2>4, <2>6, <3>2 DEF ReplyInv, TypeInv, Busy
      <4> QED BY <2>4, <2>5, <3>2, <4>1
    <3> QED BY <3>1, <3>2
  <2>7. ASSUME NEW d \in Command, told'[d] \in Result
        PROVE  \E e \in Command : rec'[e] # None /\ KeyOf[e] = KeyOf[d] /\ rec'[e].result = told'[d]
    BY <2>1, <2>5, <2>7 DEF ReplyInv
  <2> QED BY <2>1, <2>6, <2>7 DEF ReplyInv, OnRecord, Recorded, Tells
<1>9. ASSUME NEW e \in Command, WriteEffect(r, e) PROVE ReplyInv' /\ Tells
  <2> DEFINE p == [rt[r] EXCEPT !.todo = @ \ {e},
                                !.wrote = IF owner = r THEN e ELSE None]
  <2>1. rt' = [rt EXCEPT ![r] = p] /\ told' = told
    BY <1>9 DEF WriteEffect
  <2>2. p.phase = rt[r].phase /\ p.cmd = rt[r].cmd /\ p.outcome = rt[r].outcome
    BY <1>1 DEF Process
  <2> HIDE DEF p
  <2> QED BY <2>1, <2>2, ReplyKept DEF Tells
<1>10. CASE CompleteEffect(r)
  <2> DEFINE p == [rt[r] EXCEPT !.wrote = None]
  <2>1. rt' = [rt EXCEPT ![r] = p] /\ told' = told
    BY <1>10 DEF CompleteEffect, TypeInv, TypeOK
  <2>2. p.phase = rt[r].phase /\ p.cmd = rt[r].cmd /\ p.outcome = rt[r].outcome
    BY <1>1 DEF Process
  <2> HIDE DEF p
  <2> QED BY <2>1, <2>2, ReplyKept DEF Tells
<1>11. CASE Answer(r)
  <2>1. /\ rt[r].phase = "closing" /\ rt' = [rt EXCEPT ![r] = Answered(rt[r])]
        /\ told' = [told EXCEPT ![rt[r].cmd] = rt[r].outcome] /\ rec' = rec
    BY <1>11 DEF Answer, store, TypeInv, TypeOK
  <2>2. Answered(rt[r]).phase = "idle" /\ rt[r].cmd \in Command
    BY <1>1, <2>1 DEF Answered, Process, TypeInv, Busy
  <2>3. \A q \in Runtime : rt'[q].phase = "closing" => rt'[q] = rt[q]
    BY <2>1, <2>2 DEF TypeInv, TypeOK
  <2>4. \A c \in Command : told'[c] = IF c = rt[r].cmd THEN rt[r].outcome ELSE told[c]
    BY <1>1, <2>1
  <2>5. \A q \in Runtime : rt'[q].phase = "closing" =>
          \E d \in Recorded(rt'[q].cmd) : rec[d].result = rt'[q].outcome
    BY <2>3 DEF ReplyInv, OnRecord
  <2>6. \A c \in Command : told'[c] \in Result =>
          \E d \in Recorded(c) : rec[d].result = told'[c]
    BY <2>1, <2>2, <2>4 DEF ReplyInv, OnRecord
  <2> QED BY <2>1, <2>5, <2>6 DEF ReplyInv, OnRecord, Recorded, Tells
<1>12. CASE Ready(r)
  <2> DEFINE p == [rt[r] EXCEPT !.phase = "idle"]
  <2>1. rt' = [rt EXCEPT ![r] = p] /\ told' = told
    BY <1>12 DEF Ready, TypeInv, TypeOK
  <2>2. p.phase = "idle"
    BY <1>1 DEF Process
  <2> HIDE DEF p
  <2> QED BY <2>1, <2>2, ReplyKept DEF Tells
<1> QED
  BY <1>2, <1>3, <1>4, <1>5, <1>6, <1>7, <1>8, <1>9, <1>10, <1>11, <1>12 DEF Work

LEMMA ReplyStep ==
  ASSUME TypeInv, LedgerInv, ReplyInv, [Next]_vars
  PROVE  ReplyInv' /\ Tells
<1>1. ASSUME NEW r \in Runtime, NEW c \in Command, Send(r, c) \/ FailEffect(r, c)
      PROVE  ReplyInv' /\ Tells
  <2>1. rt[r] \in Process
    BY DEF TypeInv, TypeOK
  <2>2. PICK p \in {[rt[r] EXCEPT !.queue = Append(@, c)], [rt[r] EXCEPT !.todo = @ \ {c}]} :
          rt' = [rt EXCEPT ![r] = p] /\ told' = told
    BY <1>1 DEF Send, FailEffect, store, TypeInv, TypeOK
  <2>3. p.phase = rt[r].phase /\ p.cmd = rt[r].cmd /\ p.outcome = rt[r].outcome
    BY <2>1 DEF Process
  <2> QED BY <2>2, <2>3, ReplyKept DEF Tells
<1>2. ASSUME NEW r \in Runtime, Throw(r) PROVE ReplyInv' /\ Tells
  <2> DEFINE p == [Answered(rt[r]) EXCEPT !.mem = rt[r].saved]
  <2>1. /\ rt' = [rt EXCEPT ![r] = p] /\ told' = [told EXCEPT ![rt[r].cmd] = "error"]
        /\ rt[r].phase = "open"
    BY <1>2 DEF Throw, RollBack, TypeInv, TypeOK
  <2>2. rt[r].cmd \in Command /\ Recorded(rt[r].cmd) = {}
    BY <2>1 DEF LedgerInv, Mirrors, Unsettled, TypeInv, Busy
  <2>3. p.phase = "idle"
    BY DEF Answered, Process, TypeInv, TypeOK
  <2> HIDE DEF p
  <2>4. \A d \in Command : told'[d] = told[d] \/ told'[d] = "error"
    BY <2>1 DEF TypeInv, TypeOK
  <2> QED BY <2>1, <2>2, <2>3, <2>4, ReplyKept DEF Tells
<1>3. ASSUME NEW r \in Runtime, Open(r) PROVE ReplyInv' /\ Tells
  <2> DEFINE p == [rt[r] EXCEPT !.phase = "recovering", !.mem = Recovered,
                                !.seen = version, !.todo = Pending]
  <2>1. rt' = [rt EXCEPT ![r] = p] /\ told' = told
    BY <1>3 DEF Open
  <2>2. p.phase = "recovering"
    BY DEF Process, TypeInv, TypeOK
  <2> HIDE DEF p
  <2> QED BY <2>1, <2>2, ReplyKept DEF Tells
<1>4. ASSUME NEW r \in Runtime, Crash(r) PROVE ReplyInv' /\ Tells
  <2>1. [Idle EXCEPT !.phase = "dead"].phase = "dead"
    BY DEF Idle
  <2> QED BY <1>4, <2>1, ReplyKept DEF Crash, Tells
<1>5. ASSUME UNCHANGED <<rec, rt, told>> PROVE ReplyInv' /\ Tells
  BY <1>5 DEF ReplyInv, OnRecord, Recorded, Tells
<1>6. ASSUME NEW r \in Runtime, Persist(r) PROVE UNCHANGED <<rec, rt, told>>
  BY <1>6 DEF Persist
<1>7. CASE UNCHANGED vars
  BY <1>5, <1>7 DEF vars
<1> QED BY <1>1, <1>2, <1>3, <1>4, <1>5, <1>6, <1>7, ReplyWork DEF Next

(******************************************************************************)
(* The answers to a retried command agree (the order of #dispatch: replay,    *)
(* version, journal): an error is told only of what is not on record, and     *)
(* after a success or a refusal no retry, in this runtime or the next, is     *)
(* answered otherwise.                                                        *)
(******************************************************************************)
THEOREM AnswersAgreeHolds ==
  ASSUME Overlap = FALSE, MaxDirty = 0
  PROVE  Spec => AnswersAgree
<1>1. Init => ReplyInv
  <2> SUFFICES ASSUME Init PROVE ReplyInv
    OBVIOUS
  <2>1. \A r \in Runtime : rt[r].phase = "down"
    BY DEF Init, Idle
  <2> QED BY <2>1 DEF Init, ReplyInv, Result
<1>2. TypeInv /\ LedgerInv /\ ReplyInv /\ [Next]_vars => ReplyInv'
  BY ReplyStep
<1>3. TypeInv /\ LedgerInv /\ ReplyInv /\ RecordedOnce /\ [Next]_vars =>
        [\A c \in Command : told'[c] # told[c] =>
           IF told'[c] = "error" THEN Recorded(c) = {} ELSE told[c] \notin Result]_vars
  BY ReplyStep, TellsEnough
<1> QED
  BY <1>1, <1>2, <1>3, TypeAlways, LedgerAlways, RecordedOnceHolds, PTL DEF Spec, AnswersAgree
=============================================================================
