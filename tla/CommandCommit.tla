--------------------------- MODULE CommandCommit ---------------------------
(******************************************************************************)
(* The commit protocol of a kernel command: the command executor              *)
(* (control/commandExecutor.ts) over the kernel store (kernelStore.ts), in    *)
(* the processes ("runtimes") that open one database one after the other.     *)
(* A client may submit a command again, with the same commandId or with the   *)
(* same idempotency key, to the same runtime or to the next one; a runtime    *)
(* may stop between any two steps, and may still run when the next opens.     *)
(*                                                                            *)
(* A step is what the code does between two points where another process, a   *)
(* callback or a crash can come between: the handler of a command may await;  *)
(* the owner of the database is read before the transaction of a commit       *)
(* begins; an effect of the outbox is written before it is marked complete.   *)
(*                                                                            *)
(* What a command does to the runtime state is abstracted to a count per      *)
(* command: 0, not applied; 1, applied; 2, applied twice.                     *)
(******************************************************************************)
EXTENDS Naturals, Sequences

CONSTANTS
  Command,     \* commands clients submit, by commandId
  KeyOf,       \* the idempotency key of each command
  Journaled,   \* automaticallyJournaledWorkflow: a deployment journal is kept
  Silent,      \* affectsControlVersion = false
  Checked,     \* sent with the expectedVersion the client has seen
  Staging,     \* the handler stages an effect in the outbox
  Refusable,   \* the handler may throw an error marked commitState
  Overlap,     \* may a runtime open while an earlier one still runs
  MaxOpen,     \* bound: runtimes that open the database
  MaxSend,     \* bound: submissions of commands
  MaxThrow,    \* bound: handlers that throw
  MaxDirty,    \* bound: snapshots written while a command is open
  MaxWriteError, \* bound: effects whose write fails
  None

ASSUME CommandAssumption ==
  /\ DOMAIN KeyOf = Command
  /\ Journaled \subseteq Command
  /\ Silent \subseteq Command
  /\ Checked \subseteq Command
  /\ Staging \subseteq Command
  /\ Refusable \subseteq Command
  /\ None \notin Command \cup Nat
  /\ None \notin [result : {"ok", "refused"}, version : Nat]

ASSUME BoundAssumption ==
  /\ Overlap \in BOOLEAN
  /\ MaxOpen \in Nat \ {0}
  /\ MaxSend \in Nat
  /\ MaxThrow \in Nat
  /\ MaxDirty \in Nat
  /\ MaxWriteError \in Nat

VARIABLES
  \* the database
  owner,      \* meta 'snapshot-owner': the runtime that opened last
  version,    \* runtime_state.version
  row,        \* runtime_state.state: how often each command is applied in it
  rec,        \* command_records
  log,        \* how often the events of each command are in the log
  journal,    \* workflow_deployments, by commandId
  outbox,     \* status of the effect of each command
  completed,  \* how often the completion event of the effect is in the log
  files,      \* effects written outside the database
  \* the processes
  rt,
  \* the clients
  told,       \* the last answer about each command
  expected,   \* the version each command was first sent with
  used        \* what is used up of the bounds

store == <<owner, version, row, rec, log, journal, outbox, completed, files>>
vars == <<owner, version, row, rec, log, journal, outbox, completed, files,
          rt, told, expected, used>>

Runtime == 1..MaxOpen
Counts == [Command -> Nat]
Result == {"ok", "refused"}
Record == [result : Result, version : Nat]
Journal == [status : {"none", "in_progress", "completed", "aborted"}, before : Nat]
Phase == {"down", "recovering", "idle", "open", "committing", "closing", "dead"}

(******************************************************************************)
(* A runtime: its memory (the runtime state and its controlVersion), the      *)
(* checkpoint of the open command, the chain of submitted commands, the       *)
(* open command and what its handler came to, the pending effects a drain     *)
(* still has to look at and the one it has written.                           *)
(******************************************************************************)
Process ==
  [phase : Phase, mem : Counts, seen : Nat, saved : Counts, queue : Seq(Command),
   cmd : Command \cup {None}, outcome : Result, todo : SUBSET Command,
   wrote : Command \cup {None}]

Idle == [phase |-> "down", mem |-> [c \in Command |-> 0], seen |-> 0,
         saved |-> [c \in Command |-> 0], queue |-> <<>>, cmd |-> None,
         outcome |-> "ok", todo |-> {}, wrote |-> None]

TypeOK ==
  /\ owner \in 0..MaxOpen
  /\ version \in Nat
  /\ row \in Counts
  /\ rec \in [Command -> Record \cup {None}]
  /\ log \in Counts
  /\ journal \in [Command -> Journal]
  /\ outbox \in [Command -> {"none", "pending", "completed"}]
  /\ completed \in Counts
  /\ files \in SUBSET Command
  /\ rt \in [Runtime -> Process]
  /\ told \in [Command -> Result \cup {"error", "nothing"}]
  /\ expected \in [Command -> Nat \cup {None}]
  /\ used \in [sends : Nat, throws : Nat, dirty : Nat, writeErrors : Nat]

Init ==
  /\ owner = 0
  /\ version = 0
  /\ row = [c \in Command |-> 0]
  /\ rec = [c \in Command |-> None]
  /\ log = [c \in Command |-> 0]
  /\ journal = [c \in Command |-> [status |-> "none", before |-> 0]]
  /\ outbox = [c \in Command |-> "none"]
  /\ completed = [c \in Command |-> 0]
  /\ files = {}
  /\ rt = [r \in Runtime |-> Idle]
  /\ told = [c \in Command |-> "nothing"]
  /\ expected = [c \in Command |-> None]
  /\ used = [sends |-> 0, throws |-> 0, dirty |-> 0, writeErrors |-> 0]

-----------------------------------------------------------------------------
(* Reading the store.                                                         *)

\* A mutant of Recorded: it looks for the commandId only.
RecordedById(c) == {d \in Command : rec[d] # None /\ d = c}

\* getCommandRecord: the records a submission of c is a replay of.
Recorded(c) == {d \in Command : rec[d] # None /\ KeyOf[d] = KeyOf[c]}

\* A mutant of Conflicts: only a version ahead of the store is a conflict.
ConflictsAhead(c) == c \in Checked /\ expected[c] > version

\* The expectedVersion of c is not the current one.
Conflicts(c) == c \in Checked /\ expected[c] # version

\* A deployment of c is on record that was not aborted.
Deployed(c) == c \in Journaled /\ journal[c].status \in {"in_progress", "completed"}

Pending == {c \in Command : outbox[c] = "pending"}

Running(r) == rt[r].phase \notin {"down", "dead"}

\* A mutant of JournalAs: a rollback forgets the journal.
JournalAsCompleted(c, status) ==
  IF c \in Journaled /\ status = "completed"
    THEN [journal EXCEPT ![c].status = status] ELSE journal

\* The journal of c, if it has one, with a new status.
JournalAs(c, status) ==
  IF c \in Journaled THEN [journal EXCEPT ![c].status = status] ELSE journal

-----------------------------------------------------------------------------
(* Clients.                                                                   *)

\* A client submits c to r, for the first time or again. It sends the
\* version it saw when it first made the command.
Send(r, c) ==
  /\ rt[r].phase \in {"idle", "open"}
  /\ used.sends < MaxSend
  /\ rt' = [rt EXCEPT ![r].queue = Append(@, c)]
  /\ expected' = IF expected[c] = None
                   THEN [expected EXCEPT ![c] = rt[r].seen] ELSE expected
  /\ used' = [used EXCEPT !.sends = @ + 1]
  /\ UNCHANGED <<store, told>>

\* The process r after it has answered the command at the head of its chain.
Answered(p) ==
  [p EXCEPT !.phase = "idle", !.queue = Tail(@), !.cmd = None,
            !.outcome = "ok", !.saved = Idle.saved]

-----------------------------------------------------------------------------
(* The head of the chain is taken up when the command before it is over.      *)

AtHead(r, c) == rt[r].phase = "idle" /\ rt[r].queue # <<>> /\ c = Head(rt[r].queue)

\* A submission of what is on record: the recorded result is the answer, after
\* another drain of the outbox.
Replay(r, c) ==
  /\ AtHead(r, c)
  /\ \E d \in Recorded(c) :
       rt' = [rt EXCEPT ![r] = [rt[r] EXCEPT !.phase = "closing", !.cmd = c,
                                             !.outcome = rec[d].result, !.todo = Pending]]
  /\ UNCHANGED <<store, told, expected, used>>

\* A mutant of Reject: the version and the journal are looked at first.
RejectBeforeReplay(r, c) ==
  /\ AtHead(r, c)
  /\ Conflicts(c) \/ Deployed(c)
  /\ rt' = [rt EXCEPT ![r] = Answered(@)]
  /\ told' = [told EXCEPT ![c] = "error"]
  /\ UNCHANGED <<store, expected, used>>

\* The version has moved on, or a deployment of this commandId is on record:
\* the command is refused before it changes anything.
Reject(r, c) ==
  /\ AtHead(r, c)
  /\ Recorded(c) = {}
  /\ Conflicts(c) \/ Deployed(c)
  /\ rt' = [rt EXCEPT ![r] = Answered(@)]
  /\ told' = [told EXCEPT ![c] = "error"]
  /\ UNCHANGED <<store, expected, used>>

\* The journal is prepared, the state is copied, and the handler starts to
\* change it. Nothing of this asks who owns the database.
Start(r, c) ==
  /\ AtHead(r, c)
  /\ Recorded(c) = {}
  /\ ~Conflicts(c)
  /\ ~Deployed(c)
  /\ journal' = IF c \in Journaled
                  THEN [journal EXCEPT ![c] = [status |-> "in_progress",
                                               before |-> rt[r].mem[c]]]
                  ELSE journal
  /\ rt' = [rt EXCEPT ![r] = [rt[r] EXCEPT !.phase = "open", !.cmd = c,
                                           !.saved = rt[r].mem, !.mem[c] = @ + 1]]
  /\ UNCHANGED <<owner, version, row, rec, log, outbox, completed, files,
                 told, expected, used>>

-----------------------------------------------------------------------------
(* The end of a command.                                                      *)

\* The catch of #dispatch: memory is the checkpoint again, the journal is
\* aborted, whoever owns the database, and the client gets the error.
RollBack(r) ==
  /\ rt' = [rt EXCEPT ![r] = [Answered(@) EXCEPT !.mem = rt[r].saved]]
  /\ journal' = JournalAs(rt[r].cmd, "aborted")
  /\ told' = [told EXCEPT ![rt[r].cmd] = "error"]
  /\ UNCHANGED <<owner, version, row, rec, log, outbox, completed, files, expected>>

\* A commit that fails inside the catch, for an error marked commitState:
\* nothing is put back.
Escape(r) ==
  /\ rt' = [rt EXCEPT ![r] = Answered(@)]
  /\ told' = [told EXCEPT ![rt[r].cmd] = "error"]
  /\ UNCHANGED <<store, expected>>

Unwind(r, outcome) == IF outcome = "ok" THEN RollBack(r) ELSE Escape(r)

\* The handler throws.
Throw(r) ==
  /\ rt[r].phase = "open"
  /\ used.throws < MaxThrow
  /\ RollBack(r)
  /\ used' = [used EXCEPT !.throws = @ + 1]

\* The handler is over, with a result or with an error marked commitState, and
\* commitControlCommand reads the owner, before its transaction.
Finish(r, outcome) ==
  /\ rt[r].phase = "open"
  /\ outcome = "refused" => rt[r].cmd \in Refusable
  /\ IF owner = r
       THEN /\ rt' = [rt EXCEPT ![r].phase = "committing", ![r].outcome = outcome]
            /\ UNCHANGED <<store, told, expected>>
       ELSE Unwind(r, outcome)
  /\ UNCHANGED used

\* A mutant of Recommit: the answer is what the handler came to here.
RecommitAsRun(r) ==
  /\ rt[r].phase = "committing"
  /\ \E d \in Recorded(rt[r].cmd) :
       rt' = [rt EXCEPT ![r] = [rt[r] EXCEPT
                !.phase = "closing", !.seen = rec[d].version,
                !.todo = IF rt[r].outcome = "ok" THEN Pending ELSE {}]]
  /\ UNCHANGED <<store, told, expected, used>>

\* Where the transaction finds the command on record, the record stands.
Recommit(r) ==
  /\ rt[r].phase = "committing"
  /\ \E d \in Recorded(rt[r].cmd) :
       rt' = [rt EXCEPT ![r] = [rt[r] EXCEPT
                !.phase = "closing", !.seen = rec[d].version,
                !.outcome = IF @ = "ok" THEN rec[d].result ELSE @,
                !.todo = IF rt[r].outcome = "ok" THEN Pending ELSE {}]]
  /\ UNCHANGED <<store, told, expected, used>>

\* The transaction finds another version than the command expects.
Conflict(r) ==
  /\ rt[r].phase = "committing"
  /\ Recorded(rt[r].cmd) = {}
  /\ Conflicts(rt[r].cmd)
  /\ Unwind(r, rt[r].outcome)
  /\ UNCHANGED used

\* A mutant of NextVersion: a silent command records no version.
NextVersionOfAffecting(c) == IF c \in Silent THEN None ELSE version + 1

NextVersion(c) == IF c \in Silent THEN version ELSE version + 1

\* The effects the transaction of c stages; an error marked commitState
\* commits without them.
Staged(c, outcome) ==
  IF outcome = "ok" /\ c \in Staging /\ outbox[c] = "none"
    THEN [outbox EXCEPT ![c] = "pending"] ELSE outbox

\* A mutant of Commit: the transaction does not look for a record.
CommitAgain(r) ==
  LET c == rt[r].cmd
      outcome == rt[r].outcome
  IN /\ rt[r].phase = "committing"
     /\ ~Conflicts(c)
     /\ version' = NextVersion(c)
     /\ row' = rt[r].mem
     /\ rec' = [rec EXCEPT ![c] = [result |-> outcome, version |-> NextVersion(c)]]
     /\ log' = [log EXCEPT ![c] = @ + 1]
     /\ journal' = JournalAs(c, "completed")
     /\ outbox' = Staged(c, outcome)
     /\ rt' = [rt EXCEPT ![r] = [rt[r] EXCEPT
                 !.phase = "closing", !.seen = NextVersion(c),
                 !.todo = IF outcome = "ok"
                            THEN {e \in Command : outbox'[e] = "pending"} ELSE {}]]
     /\ UNCHANGED <<owner, completed, files, told, expected, used>>

\* The transaction: events, state and version, journal, outbox and record.
Commit(r) ==
  LET c == rt[r].cmd
      outcome == rt[r].outcome
  IN /\ rt[r].phase = "committing"
     /\ Recorded(c) = {}
     /\ ~Conflicts(c)
     /\ version' = NextVersion(c)
     /\ row' = rt[r].mem
     /\ rec' = [rec EXCEPT ![c] = [result |-> outcome, version |-> NextVersion(c)]]
     /\ log' = [log EXCEPT ![c] = @ + 1]
     /\ journal' = JournalAs(c, "completed")
     /\ outbox' = Staged(c, outcome)
     /\ rt' = [rt EXCEPT ![r] = [rt[r] EXCEPT
                 !.phase = "closing", !.seen = NextVersion(c),
                 !.todo = IF outcome = "ok"
                            THEN {e \in Command : outbox'[e] = "pending"} ELSE {}]]
     /\ UNCHANGED <<owner, completed, files, told, expected, used>>

-----------------------------------------------------------------------------
(* drainDurableEffects: one pending effect after the other.                   *)

Drains(r) == rt[r].phase \in {"closing", "recovering"} /\ rt[r].wrote = None

\* The file is written; only the owner goes on to mark the effect complete.
WriteEffect(r, e) ==
  /\ Drains(r)
  /\ e \in rt[r].todo
  /\ files' = files \cup {e}
  /\ rt' = [rt EXCEPT ![r] = [rt[r] EXCEPT !.todo = @ \ {e},
                                           !.wrote = IF owner = r THEN e ELSE None]]
  /\ UNCHANGED <<owner, version, row, rec, log, journal, outbox, completed,
                 told, expected, used>>

\* The write fails: the effect stays pending, for a later drain.
FailEffect(r, e) ==
  /\ Drains(r)
  /\ e \in rt[r].todo
  /\ used.writeErrors < MaxWriteError
  /\ rt' = [rt EXCEPT ![r].todo = @ \ {e}]
  /\ used' = [used EXCEPT !.writeErrors = @ + 1]
  /\ UNCHANGED <<store, told, expected>>

\* A mutant of CompleteEffect: the status is not looked at again.
CompleteEffectBlindly(r) ==
  LET e == rt[r].wrote
  IN /\ e # None
     /\ outbox' = [outbox EXCEPT ![e] = "completed"]
     /\ completed' = [completed EXCEPT ![e] = @ + 1]
     /\ rt' = [rt EXCEPT ![r].wrote = None]
     /\ UNCHANGED <<owner, version, row, rec, log, journal, files,
                    told, expected, used>>

\* completeEffectWithEvent: the transaction looks at the status again.
CompleteEffect(r) ==
  LET e == rt[r].wrote
  IN /\ e # None
     /\ IF outbox[e] = "pending"
          THEN /\ outbox' = [outbox EXCEPT ![e] = "completed"]
               /\ completed' = [completed EXCEPT ![e] = @ + 1]
          ELSE UNCHANGED <<outbox, completed>>
     /\ rt' = [rt EXCEPT ![r].wrote = None]
     /\ UNCHANGED <<owner, version, row, rec, log, journal, files,
                    told, expected, used>>

Drained(r) == rt[r].todo = {} /\ rt[r].wrote = None

\* The promise of the submission settles.
Answer(r) ==
  /\ rt[r].phase = "closing"
  /\ Drained(r)
  /\ told' = [told EXCEPT ![rt[r].cmd] = rt[r].outcome]
  /\ rt' = [rt EXCEPT ![r] = Answered(@)]
  /\ UNCHANGED <<store, expected, used>>

-----------------------------------------------------------------------------
(* Snapshots, restarts.                                                       *)

\* A callback outside the executor touches the state, or the timer of a
\* deferred touch fires: the memory of the owner is written as it is, that
\* of an open command included.
Persist(r) ==
  /\ rt[r].phase \in {"idle", "open"}
  /\ rt[r].phase = "open" => used.dirty < MaxDirty
  /\ owner = r
  /\ row' = rt[r].mem
  /\ used' = IF rt[r].phase = "open" THEN [used EXCEPT !.dirty = @ + 1] ELSE used
  /\ UNCHANGED <<owner, version, rec, log, journal, outbox, completed, files,
                 rt, told, expected>>

InProgress == {c \in Command : journal[c].status = "in_progress"}

\* recoverWorkflowDeployments: what the journal copied is put back.
Recovered == [c \in Command |-> IF c \in InProgress THEN journal[c].before ELSE row[c]]

\* A mutant of Open: the outbox is not drained at start-up.
OpenUndrained(r) ==
  /\ rt[r].phase = "down"
  /\ \A q \in 1..(r - 1) :
       /\ rt[q].phase # "down"
       /\ Overlap \/ rt[q].phase = "dead"
  /\ owner' = r
  /\ rt' = [rt EXCEPT ![r] = [rt[r] EXCEPT !.phase = "recovering", !.mem = Recovered,
                                           !.seen = version]]
  /\ journal' = [c \in Command |-> IF c \in InProgress
                                     THEN [journal[c] EXCEPT !.status = "aborted"]
                                     ELSE journal[c]]
  /\ UNCHANGED <<version, row, rec, log, outbox, completed, files,
                 told, expected, used>>

\* A new runtime claims the database, loads the state and compensates the
\* deployments that were in progress, in the database at once, in the state
\* in memory.
Open(r) ==
  /\ rt[r].phase = "down"
  /\ \A q \in 1..(r - 1) :
       /\ rt[q].phase # "down"
       /\ Overlap \/ rt[q].phase = "dead"
  /\ owner' = r
  /\ rt' = [rt EXCEPT ![r] = [rt[r] EXCEPT !.phase = "recovering", !.mem = Recovered,
                                           !.seen = version, !.todo = Pending]]
  /\ journal' = [c \in Command |-> IF c \in InProgress
                                     THEN [journal[c] EXCEPT !.status = "aborted"]
                                     ELSE journal[c]]
  /\ UNCHANGED <<version, row, rec, log, outbox, completed, files,
                 told, expected, used>>

\* The end of the constructor: the recovered state is written.
Ready(r) ==
  /\ rt[r].phase = "recovering"
  /\ Drained(r)
  /\ row' = IF owner = r THEN rt[r].mem ELSE row
  /\ rt' = [rt EXCEPT ![r].phase = "idle"]
  /\ UNCHANGED <<owner, version, rec, log, journal, outbox, completed, files,
                 told, expected, used>>

\* The process ends; the last one in the bound does not.
Crash(r) ==
  /\ Running(r)
  /\ r < MaxOpen
  /\ rt' = [rt EXCEPT ![r] = [Idle EXCEPT !.phase = "dead"]]
  /\ UNCHANGED <<store, told, expected, used>>

-----------------------------------------------------------------------------
(* What a runtime does by itself.                                             *)
Work(r) ==
  \/ \E c \in Command : Replay(r, c) \/ Reject(r, c) \/ Start(r, c)
  \/ \E outcome \in Result : Finish(r, outcome)
  \/ Recommit(r) \/ Conflict(r) \/ Commit(r)
  \/ \E e \in Command : WriteEffect(r, e)
  \/ CompleteEffect(r)
  \/ Answer(r)
  \/ Ready(r)

Next ==
  \E r \in Runtime :
    \/ Work(r)
    \/ \E c \in Command : Send(r, c) \/ FailEffect(r, c)
    \/ Throw(r)
    \/ Persist(r)
    \/ Open(r)
    \/ Crash(r)

Spec == Init /\ [][Next]_vars

(******************************************************************************)
(* A handler comes to an end and a promise chain with a settled head is       *)
(* continued; a runtime that stopped is started again.                        *)
(******************************************************************************)
FairSpec == Spec /\ \A r \in Runtime : WF_vars(Work(r)) /\ WF_vars(Open(r))

-----------------------------------------------------------------------------
(* Properties.                                                                *)

(******************************************************************************)
(* A command is a unit: record, events, durable state and version change      *)
(* together and once for each idempotency key, whatever was retried, thrown,  *)
(* refused or interrupted, as the head of commandExecutor.ts says ("atomic    *)
(* commit"). Runtimes follow one another, and no snapshot is written while    *)
(* a command is open.                                                         *)
(******************************************************************************)
Committed == {c \in Command : rec[c] # None}
L == INSTANCE Ledger WITH entries <- Committed, applied <- row, logged <- log
IsLedger == L!Spec

(******************************************************************************)
(* Once a command is on record the record stays, its events are in the log    *)
(* once, and no other command with its idempotency key gets a record: also    *)
(* when two runtimes run it at the same time (commitControlCommand looks for  *)
(* a duplicate inside its transaction).                                       *)
(******************************************************************************)
RecordedOnce ==
  \A c \in Command :
    /\ log[c] = IF rec[c] = None THEN 0 ELSE 1
    /\ rec[c] # None => Recorded(c) = {c}

(******************************************************************************)
(* The control version counts the commands that affect it, one by one, and    *)
(* a command sent with an expectedVersion is the next one after the version   *)
(* its client saw: two clients that saw the same version cannot both change   *)
(* the state.                                                                 *)
(******************************************************************************)
Affecting == {c \in Committed : c \notin Silent}
VersionSerial ==
  /\ \A c \in Affecting : rec[c].version \in 1..version
  /\ \A v \in 1..version : \E c \in Affecting : rec[c].version = v
  /\ \A c, d \in Affecting : rec[c].version = rec[d].version => c = d
  /\ \A c \in Affecting \cap Checked : rec[c].version = expected[c] + 1

(******************************************************************************)
(* A client that was told a command succeeded can rely on it: the command is  *)
(* on record, and so is its effect until it is complete.                      *)
(******************************************************************************)
ToldIsTrue ==
  \A c \in Command : told[c] = "ok" =>
    \E d \in Recorded(c) :
      /\ rec[d].result = "ok"
      /\ d \in Staging => outbox[d] # "none"

(******************************************************************************)
(* An effect of the outbox belongs to a recorded command, is reported         *)
(* complete once, and only after it was written, although drains repeat it    *)
(* after a crash and two runtimes may drain it at the same time.              *)
(******************************************************************************)
EffectOnce ==
  \A c \in Command :
    /\ outbox[c] # "none" => rec[c] # None
    /\ completed[c] = IF outbox[c] = "completed" THEN 1 ELSE 0
    /\ outbox[c] = "completed" => c \in files

(******************************************************************************)
(* Runtimes that follow one another leave no deployment in between: one is    *)
(* completed exactly when its command is on record, and in progress only      *)
(* while the command is open or until the next runtime opens.                 *)
(******************************************************************************)
JournalSettled ==
  \A c \in Journaled :
    /\ journal[c].status = "completed" <=> rec[c] # None
    /\ journal[c].status = "in_progress" =>
         \A r \in Runtime : Running(r) =>
           rt[r].phase \in {"open", "committing"} /\ rt[r].cmd = c

(******************************************************************************)
(* An error answers a command that left nothing behind, and the answers to a  *)
(* retried command agree: after a success or a refusal on record, no retry    *)
(* is answered otherwise (the replay comes before the check of the version    *)
(* and of the journal).                                                       *)
(******************************************************************************)
AnswersAgree ==
  [][\A c \in Command : told'[c] # told[c] =>
       IF told'[c] = "error" THEN Recorded(c) = {} ELSE told[c] \notin Result]_vars

(******************************************************************************)
(* A staged effect is materialized, however often the runtime stops on the    *)
(* way (drainDurableEffects at start-up).                                     *)
(******************************************************************************)
EffectMaterialized ==
  \A c \in Command : outbox[c] = "pending" ~> outbox[c] = "completed"

(******************************************************************************)
(* "the in-memory unit of work surrounding one durable KernelStore commit":   *)
(* a runtime that has nothing open works on no change of a command that is    *)
(* not on record.                                                             *)
(******************************************************************************)
NothingUncommitted ==
  \A r \in Runtime : rt[r].phase = "idle" /\ owner = r =>
    \A c \in Command : rt[r].mem[c] > 0 => rec[c] # None

(******************************************************************************)
(* "A new owner will reconcile the still-in-progress journal": the journal of *)
(* the command the owner has open is in progress, so that a crash now would   *)
(* be compensated.                                                            *)
(******************************************************************************)
OwnerJournal ==
  \A r \in Runtime :
    owner = r /\ rt[r].phase \in {"open", "committing"} /\ rt[r].cmd \in Journaled =>
      journal[rt[r].cmd].status = "in_progress"
=============================================================================
