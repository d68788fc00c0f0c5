---------------------------- MODULE RunAdmission ----------------------------
(***************************************************************************)
(* How provider turns are admitted: the run queue, the workspace leases,   *)
(* the turn budget and the window of a launch                              *)
(* (sessionRuntimeController.ts, sessionCommandRuntime.ts).                *)
(*                                                                         *)
(* A launch awaits the membrane bridge.  While the bridge listens that     *)
(* takes three microtasks, in which no other handler can run: such a launch *)
(* is one step.  The first launch of a process, and the first after        *)
(* killAll, awaits a real socket, and anything may come in between.        *)
(*                                                                         *)
(* Left out: token, duration and tool-call budgets, priorities, several    *)
(* scopes, a change of policy, plan councils and dynamic groups.           *)
(***************************************************************************)
EXTENDS Integers, FiniteSets, SequencesExt

CONSTANTS
  Agent,        \* sessions that run turns
  Vendor,       \* Vendor[s]: the provider instance of a session
  ReadOnly,     \* sessions whose turns take reader leases; all share one workspace
  Serialize,    \* serializeWorkspaceAccess
  MaxActive,    \* maxConcurrentSessions
  MaxPerVendor, \* maxConcurrentPerProvider
  MaxQueued,    \* maxQueuedRuns
  MaxTurns,     \* maxTurns of a hard budget; 0: no budget
  MaxAsk,       \* bounds: commands of people, launches that fail, killAll, crashes
  MaxBroken, MaxKillAll, MaxStop

ASSUME AgentAssumption == IsFiniteSet(Agent) /\ ReadOnly \subseteq Agent /\ DOMAIN Vendor = Agent
ASSUME AdmissionAssumption ==
  /\ Serialize \in BOOLEAN
  /\ {MaxActive, MaxPerVendor, MaxQueued} \subseteq Nat \ {0}
  /\ {MaxTurns, MaxAsk, MaxBroken, MaxKillAll, MaxStop} \subseteq Nat

VARIABLES
  book,      \* runtimeState: status, frozen, queue, leases, usage facts, last turn started
  bookDisk,  \* the runtime_state row
  runOf,     \* the runs map: the turn whose run it holds, or 0
  turnOf,    \* runContext: the turn it is for, or 0
  processes, \* provider processes that have not closed
  undone,    \* workflowCompensatedRuns
  launching, \* launches that await the socket
  drain,     \* a drain of the queue is asked for, or has to go on
  held,      \* the open command while it awaits, with its checkpoint; or NoCmd
  asked,     \* the chain of the executor
  epoch, paused, listening, nturn,
  spent,     \* how much of the bounds is used
  crossed    \* history: turns in progress at once with another turn of their session,
             \* turns whose run, lease or launch the rollback of another session's
             \* command took or gave back, and runs whose entry another process took
             \* along when it closed

rest == <<asked, epoch, paused, listening, nturn, spent, crossed>>
runVars == <<book, bookDisk, runOf, turnOf, processes, undone, launching, drain, held, rest>>

Status == {"idle", "pending", "running", "failed", "killed"}
NoCmd == [kind |-> "none"]

-------------------------------------------------------------------------------
(* Admission.                                                               *)

ActiveTurns(b) == {l.turn : l \in b.leases}
QueuedTurns(b) == {q.turn : q \in ToSet(b.queue)}

(* leaseCompatible, over one workspace.                                     *)
LeaseCompatible(b, s) ==
  IF s \in ReadOnly THEN \A l \in b.leases : l.sess \in ReadOnly ELSE b.leases = {}

Admitted(b, s) ==
  /\ Cardinality(b.leases) < MaxActive
  /\ Cardinality({l \in b.leases : Vendor[l.sess] = Vendor[s]}) < MaxPerVendor
  /\ Serialize => LeaseCompatible(b, s)

(* budgetExceededFor: turns done, and turns admitted or queued, but for the *)
(* one that asks.                                                           *)
BudgetExceeded(b, own) ==
  /\ MaxTurns # 0
  /\ Cardinality(b.facts \cup ((ActiveTurns(b) \cup QueuedTurns(b)) \ {own})) >= MaxTurns

(* freezeForBudget.                                                         *)
FrozenForBudget(b, s) ==
  [b EXCEPT !.frozen[s] = TRUE, !.status[s] = IF @ = "pending" THEN "idle" ELSE @]

(* A turn's lease is given back; if there was one, a drain is asked for.    *)
Released(b, t) == [b EXCEPT !.leases = {l \in @ : l.turn # t}]
(* Nobody asks for a drain when a lease is given back.                      *)
AskNoDrain(b, t) == drain' = (drain /\ b = b /\ t = t)
AskDrain(b, t) == drain' = (drain \/ t \in ActiveTurns(b))

(* A context that is gone counts as well.                                   *)
UsedAlways(b, t) == [b EXCEPT !.facts = @ \cup {t}]

(* recordUsageFact.                                                         *)
Used(b, t) == [b EXCEPT !.facts = IF t = 0 THEN @ ELSE @ \cup {t}]

(* The lease stays.                                                         *)
FailedSessionLeased(b, s) == Used([b EXCEPT !.status[s] = "failed"], turnOf[s])

(* failSession, on state b: the context, whatever turn it is for, is over.  *)
FailedSession(b, s) ==
  Released(Used([b EXCEPT !.status[s] = "failed"], turnOf[s]), turnOf[s])

Save(b) == book' = b /\ bookDisk' = b
Settled == launching = {} \/ \A l \in launching : ~l.aborted
(* The outside acts when only sockets are awaited.                          *)
Resting ==
  /\ Settled
  /\ drain => paused \/ \E l \in launching : l.by = "drain"
  /\ held = NoCmd => asked = <<>>

-------------------------------------------------------------------------------
(* The executor: one command at a time.                                     *)

Ask(kind, s) ==
  /\ Resting /\ spent.ask < MaxAsk
  /\ kind \in {"activate", "kill", "freeze", "unfreeze"}
  /\ asked' = Append(asked, [kind |-> kind, sess |-> s, turn |-> 0, epoch |-> epoch])
  /\ spent' = [spent EXCEPT !.ask = @ + 1]
  /\ UNCHANGED <<book, bookDisk, runOf, turnOf, processes, undone, launching, drain, held,
                 epoch, paused, listening, nturn, crossed>>

(* onAuthorizedCommandCommitted: a command of this lifecycle resumes the    *)
(* drain of the queue.                                                      *)
Resumes(c, wanted) ==
  IF c.epoch = epoch THEN paused' = FALSE /\ drain' = TRUE
                     ELSE paused' = paused /\ drain' = wanted

Commits(c, b, wanted) ==
  /\ Save(b)
  /\ Resumes(c, wanted)
  /\ asked' = Tail(asked)
  /\ held' = NoCmd
  /\ UNCHANGED <<epoch, spent>>

Starting(kind) == held = NoCmd /\ asked # <<>> /\ Head(asked).kind = kind /\ Settled

(* assertActivatable, but for the budget.                                   *)
Runnable(s) ==
  /\ runOf[s] = 0
  /\ \A q \in ToSet(book.queue) : q.sess # s
  /\ book.status[s] # "killed" /\ ~book.frozen[s]

(* The handler threw and had changed nothing.                               *)
Refuse ==
  /\ Starting("activate")
  /\ LET c == Head(asked)
     IN /\ \/ ~Runnable(c.sess)
           \/ /\ ~BudgetExceeded(book, 0)
              /\ \/ paused /\ c.epoch # epoch
                 \/ ~Admitted(book, c.sess) /\ Len(book.queue) >= MaxQueued
        /\ asked' = Tail(asked)
  /\ UNCHANGED <<book, bookDisk, runOf, turnOf, processes, undone, launching, drain, held,
                 epoch, paused, listening, nturn, spent, crossed>>

(* The budget is used up: the session is frozen, and the refusal committed. *)
RefuseForBudget ==
  /\ Starting("activate")
  /\ LET c == Head(asked)
     IN /\ Runnable(c.sess) /\ BudgetExceeded(book, 0)
        /\ Commits(c, FrozenForBudget(book, c.sess), drain)
  /\ UNCHANGED <<runOf, turnOf, processes, undone, launching, listening, nturn, crossed>>

MayStart(c) ==
  /\ Runnable(c.sess) /\ ~BudgetExceeded(book, 0)
  /\ paused => c.epoch = epoch

Pending(b, s) == [b EXCEPT !.status[s] = "pending"]
Leased(b, s, t) == [b EXCEPT !.leases = @ \cup {[turn |-> t, sess |-> s]}]

(* launchRun after its await: the turn is running.  A context that is there *)
(* already is replaced.                                                     *)
Running(b, s, t) == [b EXCEPT !.status[s] = "running", !.started[s] = t]
Crosses(s, t) ==
  LET others == ({turnOf[s]} \cup {l.turn : l \in {m \in launching : m.sess = s}}) \ {0, t}
  IN crossed' = IF others = {} THEN crossed ELSE crossed \cup others \cup {t}
Launches(s, t) ==
  /\ runOf' = [runOf EXCEPT ![s] = t]
  /\ turnOf' = [turnOf EXCEPT ![s] = t]
  /\ processes' = processes \cup {[turn |-> t, sess |-> s, doomed |-> FALSE]}
  /\ Crosses(s, t)
Awaits(s, t, who) ==
  /\ launching' = launching \cup
       {[sess |-> s, turn |-> t, by |-> who, aborted |-> FALSE, stale |-> FALSE]}
  /\ Crosses(s, t)

(* startRun queues the turn.                                                *)
Enqueue ==
  /\ Starting("activate")
  /\ LET c == Head(asked)
     IN /\ MayStart(c) /\ ~Admitted(book, c.sess) /\ Len(book.queue) < MaxQueued
        /\ Commits(c, [Pending(book, c.sess) EXCEPT
                         !.queue = Append(@, [sess |-> c.sess, turn |-> nturn + 1])], drain)
        /\ nturn' = nturn + 1
        /\ Crosses(c.sess, nturn + 1)
  /\ UNCHANGED <<runOf, turnOf, processes, undone, launching, listening>>

(* startRun launches the turn at once; the bridge listens.                  *)
LaunchNow ==
  /\ Starting("activate") /\ listening
  /\ LET c == Head(asked)
         t == nturn + 1
     IN /\ MayStart(c) /\ Admitted(book, c.sess)
        /\ Launches(c.sess, t)
        /\ Commits(c, Running(Leased(book, c.sess, t), c.sess, t), drain)
        /\ nturn' = t
  /\ UNCHANGED <<undone, launching, listening>>

(* The provider does not start: all of it is undone but the request for a   *)
(* drain, and that the context of the session is gone, were it that of a    *)
(* turn whose completion waits behind this command.                         *)
LaunchBreaks ==
  /\ Starting("activate") /\ listening
  /\ spent.broken < MaxBroken
  /\ MayStart(Head(asked)) /\ Admitted(book, Head(asked).sess)
  /\ spent' = [spent EXCEPT !.broken = @ + 1]
  /\ turnOf' = [turnOf EXCEPT ![Head(asked).sess] = 0]
  /\ crossed' = crossed \cup ({turnOf[Head(asked).sess]} \ {0})
  /\ asked' = Tail(asked)
  /\ drain' = TRUE
  /\ UNCHANGED <<book, bookDisk, runOf, processes, undone, launching, held, epoch, paused,
                 listening, nturn>>

(* The same while the bridge does not listen: the lease is taken, the       *)
(* command stays open.                                                      *)
LaunchLater ==
  /\ Starting("activate") /\ ~listening
  /\ LET c == Head(asked)
         t == nturn + 1
     IN /\ MayStart(c) /\ Admitted(book, c.sess)
        /\ held' = [kind |-> "activate", sess |-> c.sess, epoch |-> c.epoch, saved |-> book,
                    before |-> {s \in Agent : runOf[s] # 0}]
        /\ book' = Leased(Pending(book, c.sess), c.sess, t)
        /\ Awaits(c.sess, t, "command")
        /\ nturn' = t
  /\ UNCHANGED <<bookDisk, runOf, turnOf, processes, undone, drain, asked, epoch, paused,
                 listening, spent>>

-------------------------------------------------------------------------------
(* Launches that awaited the socket.                                        *)

(* The catch of the executor: runs that were not there are killed and       *)
(* forgotten, the state of the start of the command comes back.  It is      *)
(* another object: a launch that goes on holds its session in the old one.  *)
Differ(S, T) == (S \ T) \cup (T \ S)
RollBackTo(h, l, contexts) ==
  LET new == {s \in Agent : runOf[s] # 0 /\ s \notin h.before}
  IN /\ book' = h.saved
     /\ UNCHANGED bookDisk
     /\ undone' = undone \cup new
     /\ runOf' = [s \in Agent |-> IF s \in new THEN 0 ELSE runOf[s]]
     /\ turnOf' = [s \in Agent |-> IF s \in new THEN 0 ELSE contexts[s]]
     /\ processes' = {IF p.sess \in new /\ p.turn = runOf[p.sess] THEN [p EXCEPT !.doomed = TRUE]
                      ELSE p : p \in processes}
     /\ launching' = {[m EXCEPT !.stale = TRUE] : m \in launching \ {l}}
     /\ crossed' = crossed \cup ((Differ(ActiveTurns(h.saved), ActiveTurns(book))
                                  \cup {runOf[s] : s \in new}
                                  \cup {m.turn : m \in launching}) \ {l.turn})
     /\ asked' = Tail(asked)
     /\ held' = NoCmd
     /\ UNCHANGED <<epoch, paused>>

(* launchRun wrote to the session it read before it waited.                 *)
Resumed(b, l) ==
  LET r == Running(b, l.sess, l.turn)
  IN IF l.stale THEN [r EXCEPT !.status = b.status] ELSE r

Listened(l) ==
  /\ l \in launching /\ ~l.aborted
  /\ launching' = launching \ {l}
  /\ listening' = TRUE
  /\ Launches(l.sess, l.turn)
  /\ IF l.by = "drain"
     THEN /\ Save(Resumed(book, l))
          /\ drain' = TRUE
          /\ UNCHANGED <<held, asked, epoch, paused, spent>>
     ELSE Commits(held, Resumed(book, l), drain)
  /\ UNCHANGED <<undone, nturn>>

(* A launch that goes wrong: the socket failed, killAll aborted it, or the  *)
(* provider did not start, in which case the turn counts.  The session      *)
(* fails; a command is rolled back.                                         *)
LaunchFailed(b, s, t, counts) ==
  Released([(IF counts THEN Used(b, t) ELSE b) EXCEPT !.status[s] = "failed"], t)

LaunchFails(l) ==
  /\ l \in launching
  /\ drain' = TRUE
  /\ \E provider \in BOOLEAN :
       /\ IF l.aborted
          THEN ~provider /\ UNCHANGED spent
          ELSE spent.broken < MaxBroken /\ spent' = [spent EXCEPT !.broken = @ + 1]
       /\ listening' = (listening \/ provider)
       /\ IF l.by = "drain"
          THEN /\ Save(LaunchFailed(book, l.sess, l.turn, provider))
               /\ launching' = launching \ {l}
               /\ turnOf' = [turnOf EXCEPT ![l.sess] = 0]
               /\ UNCHANGED <<runOf, processes, undone, held, asked, epoch, paused, crossed>>
          ELSE RollBackTo(held, l, IF provider \/ l.aborted THEN [turnOf EXCEPT ![l.sess] = 0]
                                                           ELSE turnOf)
  /\ UNCHANGED nturn

-------------------------------------------------------------------------------
(* drainRunQueue, one turn of its loop at a time.                           *)

Eligible(q) ==
  /\ book.status[q.sess] # "killed" /\ ~book.frozen[q.sess]
  /\ runOf[q.sess] = 0
  /\ Admitted(book, q.sess)

Candidates == {i \in 1..Len(book.queue) : Eligible(book.queue[i])}
Draining ==
  drain /\ ~paused /\ Settled /\ \A l \in launching : l.by # "drain"
FirstOf(S) == CHOOSE i \in S : \A j \in S : i <= j
Taken(i) == [book EXCEPT !.queue = RemoveAt(@, i)]

DrainEnds ==
  /\ Draining /\ Candidates = {}
  /\ drain' = FALSE
  /\ Save(book)
  /\ UNCHANGED <<runOf, turnOf, processes, undone, launching, held, rest>>

DrainLaunches ==
  /\ Draining /\ Candidates # {}
  /\ LET i == FirstOf(Candidates)
         q == book.queue[i]
         b == Taken(i)
     IN IF BudgetExceeded(b, q.turn)
        THEN /\ Save(FrozenForBudget(b, q.sess))
             /\ UNCHANGED <<runOf, turnOf, processes, launching, drain, spent, crossed>>
        ELSE IF listening
        THEN \/ /\ Launches(q.sess, q.turn)
                /\ Save(Running(Leased(b, q.sess, q.turn), q.sess, q.turn))
                /\ UNCHANGED <<launching, drain, spent>>
             \/ /\ spent.broken < MaxBroken
                /\ spent' = [spent EXCEPT !.broken = @ + 1]
                /\ turnOf' = [turnOf EXCEPT ![q.sess] = 0]
                /\ crossed' = crossed \cup ({turnOf[q.sess]} \ {0})
                /\ Save(LaunchFailed(b, q.sess, q.turn, TRUE))
                /\ UNCHANGED <<runOf, processes, launching, drain>>
        ELSE /\ book' = Leased(b, q.sess, q.turn)
             /\ Awaits(q.sess, q.turn, "drain")
             /\ UNCHANGED <<bookDisk, runOf, turnOf, processes, drain, spent>>
  /\ UNCHANGED <<undone, held, asked, epoch, paused, listening, nturn>>

-------------------------------------------------------------------------------
(* The other commands.                                                      *)

(* cmdKillSession: a running session is told to stop, a queued one leaves   *)
(* the queue, where it has one entry; of a launch it finds neither.         *)
KillSession ==
  /\ Starting("kill")
  /\ LET c == Head(asked)
         s == c.sess
         mine == {i \in DOMAIN book.queue : book.queue[i].sess = s}
     IN IF runOf[s] # 0
        THEN /\ Commits(c, [book EXCEPT !.status[s] = "killed"], drain)
             /\ processes' = {IF p.turn = runOf[s] THEN [p EXCEPT !.doomed = TRUE] ELSE p
                              : p \in processes}
        ELSE /\ UNCHANGED processes
             /\ Commits(c, IF mine = {} THEN book
                           ELSE [Taken(FirstOf(mine)) EXCEPT !.status[s] = "killed"],
                        drain)
  /\ UNCHANGED <<runOf, turnOf, undone, launching, listening, nturn, crossed>>

SetFrozen ==
  /\ Starting("freeze") \/ Starting("unfreeze")
  /\ LET c == Head(asked)
     IN Commits(c, [book EXCEPT !.frozen[c.sess] = (c.kind = "freeze")], drain)
  /\ UNCHANGED <<runOf, turnOf, processes, undone, launching, listening, nturn, crossed>>

(* cmdCompleteProviderRun; if it is for another turn than the current one,  *)
(* it throws and the handler that sent it fails the session.                *)
CompleteRun ==
  /\ Starting("complete")
  /\ LET c == Head(asked)
         s == c.sess
     IN /\ turnOf' = [turnOf EXCEPT ![s] = 0]
        /\ IF c.turn # 0 /\ turnOf[s] = c.turn
           THEN Commits(c, Released(Used([book EXCEPT !.status[s] = "idle"], c.turn), c.turn),
                        TRUE)
           ELSE /\ Save(FailedSession(book, s))
                /\ AskDrain(book, turnOf[s])
                /\ asked' = Tail(asked)
                /\ UNCHANGED <<held, epoch, paused, spent>>
  /\ UNCHANGED <<runOf, processes, undone, launching, listening, nturn, crossed>>

-------------------------------------------------------------------------------
(* Callbacks of a run, outside every command.                               *)

(* The error event of the provider.                                         *)
RunErrs(p) ==
  /\ Resting /\ p \in processes /\ spent.broken < MaxBroken
  /\ p.sess \notin undone /\ book.status[p.sess] # "killed" /\ ~p.doomed
  /\ turnOf[p.sess] # 0
  /\ spent' = [spent EXCEPT !.broken = @ + 1]
  /\ Save(FailedSession(book, p.sess))
  /\ AskDrain(book, turnOf[p.sess])
  /\ turnOf' = [turnOf EXCEPT ![p.sess] = 0]
  /\ UNCHANGED <<runOf, processes, undone, launching, held, asked, epoch, paused, listening,
                 nturn, crossed>>

(* The close event: the entry of the session leaves the runs map, whichever *)
(* run it is of.                                                            *)
RunCloses(p) ==
  LET s == p.sess
      t == turnOf[s]
  IN /\ Resting /\ p \in processes
     /\ processes' = processes \ {p}
     /\ runOf' = [runOf EXCEPT ![s] = 0]
     /\ undone' = undone \ {s}
     /\ crossed' = crossed \cup ({runOf[s]} \ {0, p.turn})
     /\ \/ /\ \/ s \in undone
              \/ t = 0 /\ book.status[s] \in {"idle", "failed", "killed"}
              \/ s \notin undone /\ t # 0 /\ book.status[s] = "failed" /\ ~p.doomed
           /\ UNCHANGED <<book, bookDisk, turnOf, drain, asked>>
        \/ /\ s \notin undone
           /\ t # 0 \/ book.status[s] \in {"pending", "running"}
           /\ \/ /\ p.doomed \/ book.status[s] = "killed"
                 /\ Save(Released(Used([book EXCEPT !.status[s] = "killed"], t), t))
                 /\ AskDrain(book, t)
                 /\ turnOf' = [turnOf EXCEPT ![s] = 0]
                 /\ UNCHANGED asked
              \/ /\ ~p.doomed /\ book.status[s] \notin {"killed", "failed"}
                 /\ asked' = Append(asked, [kind |-> "complete", sess |-> s, turn |-> t,
                                            epoch |-> epoch])
                 /\ UNCHANGED <<book, bookDisk, turnOf, drain>>
     /\ UNCHANGED <<launching, held, epoch, paused, listening, nturn, spent>>

-------------------------------------------------------------------------------
(* The end of the runtime.                                                  *)

(* killAll: no launch goes on, what runs is told to stop, the bridge closes. *)
KillAll ==
  /\ Resting /\ spent.killAll < MaxKillAll
  /\ spent' = [spent EXCEPT !.killAll = @ + 1]
  /\ paused' = TRUE
  /\ epoch' = epoch + 1
  /\ launching' = {[l EXCEPT !.aborted = TRUE] : l \in launching}
  /\ Save([book EXCEPT !.status = [s \in Agent |-> IF runOf[s] # 0 THEN "killed" ELSE @[s]]])
  /\ processes' = {IF runOf[p.sess] = p.turn THEN [p EXCEPT !.doomed = TRUE] ELSE p
                   : p \in processes}
  /\ listening' = FALSE
  /\ UNCHANGED <<runOf, turnOf, undone, drain, held, asked, nturn, crossed>>

(* A crash, and the construction of the next runtime over the row: leases   *)
(* are revoked, sessions that were active have failed, the queue stays.     *)
Interrupted(b) == {s \in Agent : b.status[s] \in {"pending", "running"}}
RestartRuntime ==
  /\ spent.stop < MaxStop
  /\ spent' = [spent EXCEPT !.stop = @ + 1]
  /\ LET b == bookDisk
         lost == Interrupted(b)
     IN Save([b EXCEPT
               !.leases = {},
               !.status = [s \in Agent |-> IF s \in lost THEN "failed" ELSE @[s]],
               !.facts = @ \cup ({b.started[s] : s \in lost} \ {0})])
  /\ runOf' = [s \in Agent |-> 0]
  /\ turnOf' = [s \in Agent |-> 0]
  /\ processes' = {} /\ undone' = {} /\ launching' = {}
  /\ drain' = TRUE /\ held' = NoCmd /\ asked' = <<>>
  /\ paused' = FALSE /\ listening' = FALSE
  /\ UNCHANGED <<epoch, nturn, crossed>>

-------------------------------------------------------------------------------

RunInit ==
  /\ book = [status |-> [s \in Agent |-> "idle"], frozen |-> [s \in Agent |-> FALSE],
             queue |-> <<>>, leases |-> {}, facts |-> {}, started |-> [s \in Agent |-> 0]]
  /\ bookDisk = book
  /\ runOf = [s \in Agent |-> 0] /\ turnOf = [s \in Agent |-> 0]
  /\ processes = {} /\ undone = {} /\ launching = {}
  /\ drain = FALSE /\ held = NoCmd /\ asked = <<>>
  /\ epoch = 0 /\ paused = FALSE /\ listening = FALSE /\ nturn = 0
  /\ spent = [ask |-> 0, broken |-> 0, killAll |-> 0, stop |-> 0]
  /\ crossed = {}

RunNext ==
  \/ \E k \in {"activate", "kill", "freeze", "unfreeze"}, s \in Agent : Ask(k, s)
  \/ Refuse \/ RefuseForBudget \/ Enqueue \/ LaunchNow \/ LaunchBreaks \/ LaunchLater
  \/ \E l \in launching : Listened(l) \/ LaunchFails(l)
  \/ DrainEnds \/ DrainLaunches
  \/ KillSession \/ SetFrozen \/ CompleteRun
  \/ \E p \in processes : RunErrs(p) \/ RunCloses(p)
  \/ KillAll \/ RestartRuntime

CommandGoesOn ==
  \/ Refuse \/ RefuseForBudget \/ Enqueue \/ LaunchNow \/ LaunchLater
  \/ KillSession \/ SetFrozen \/ CompleteRun
DrainGoesOn == DrainEnds \/ DrainLaunches
LaunchGoesOn == \E l \in launching : Listened(l) \/ LaunchFails(l)
ProcessEnds == \E p \in processes : RunCloses(p)

(* Commands, drains and sockets go on when they can; a person need not ask, *)
(* and nothing need break.  That a process ends is the provider's part.     *)
RunFair ==
  /\ WF_runVars(CommandGoesOn) /\ WF_runVars(DrainGoesOn)
  /\ WF_runVars(LaunchGoesOn) /\ WF_runVars(ProcessEnds)

RunSpec == RunInit /\ [][RunNext]_runVars /\ RunFair

-------------------------------------------------------------------------------

RunTypeOK ==
  /\ \A b \in {book, bookDisk} :
       /\ b.status \in [Agent -> Status] /\ b.frozen \in [Agent -> BOOLEAN]
       /\ \A q \in ToSet(b.queue) : q \in [sess : Agent, turn : 1..nturn]
       /\ b.leases \subseteq [turn : 1..nturn, sess : Agent]
       /\ b.facts \subseteq 1..nturn
  /\ runOf \in [Agent -> 0..nturn] /\ turnOf \in [Agent -> 0..nturn]
  /\ processes \subseteq [turn : 1..nturn, sess : Agent, doomed : BOOLEAN]

(* budgetExceededFor counts the turns that are done, run or wait.           *)
Counted(b) == b.facts \cup ActiveTurns(b) \cup QueuedTurns(b)

(* Turns that count, that run and that wait never exceed the hard budget    *)
(* together, although they are counted at three moments (asked, queued,     *)
(* drained) and a failed command takes back some of what was counted.  What *)
(* crossed is left out: a launch that goes on over the rollback of another  *)
(* session's command has lost its lease, and counts again when it ends.     *)
BudgetHeld ==
  MaxTurns # 0 => Cardinality(Counted(book) \ crossed) <= MaxTurns

InProgress(t) ==
  \/ \E s \in Agent : turnOf[s] = t
  \/ \E l \in launching : l.turn = t

(* A turn in progress holds a lease, and a lease belongs to a turn in       *)
(* progress, over rollbacks, aborted launches and restarts: no run without  *)
(* admission, no capacity lost.  The exceptions are what the code lets      *)
(* happen: turns that crossed another turn of their session (OneProcess),   *)
(* and those whose run, lease or launch the rollback of another session's   *)
(* command took away or gave back, because it restores the whole state.     *)
LeasesMatchTurns ==
  /\ \A s \in Agent : turnOf[s] # 0 => turnOf[s] \in ActiveTurns(book) \cup crossed
  /\ \A t \in ActiveTurns(book) : InProgress(t) \/ t \in crossed

(* A session has one provider process that was not told to stop.  The       *)
(* exception is what the code lets happen: a queued run that a restart kept *)
(* is launched while a person activates the session again (drainRunQueue    *)
(* takes it off the queue before its launch awaits the socket).  So is a    *)
(* run that lost its entry in the runs map to the close event of a process  *)
(* that a rollback had killed: the session can start another beside it.     *)
OneProcess ==
  \A p, q \in processes :
    p.sess = q.sess => p = q \/ p.doomed \/ q.doomed \/ {p.turn, q.turn} \cap crossed # {}

(* The turns, the leases, the budget and the processes agree.               *)
TurnsAccounted == BudgetHeld /\ LeasesMatchTurns /\ OneProcess

(* The queue empties again and again: every way a turn can end gives its    *)
(* lease back and asks for a drain, except after killAll, under a freeze,   *)
(* or when turns of the session crossed.  (As turns are finitely many here, *)
(* this says that each queued run leaves the queue.)                        *)
QueuedRunMoves ==
  []<>(book.queue = <<>> \/ paused \/ crossed # {} \/ \E s \in Agent : book.frozen[s])
=============================================================================
