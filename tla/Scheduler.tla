------------------------------ MODULE Scheduler ------------------------------
(***************************************************************************)
(* The activation scheduler of the runtime: subscriptions (edges) turn      *)
(* facts of one session into activations of another.                        *)
(*   src/electron/runtime/scheduler/schedulerRuntime.ts                     *)
(*   src/shared/graph-core/scheduler.ts                                     *)
(* composed with the command executor it dispatches through                 *)
(*   src/electron/runtime/control/commandExecutor.ts                        *)
(* and with the provider runs whose end it reacts to                        *)
(*   src/electron/runtime/sessions/sessionRuntimeController.ts              *)
(*                                                                          *)
(* Concurrency.  The runtime is one JavaScript event loop.  Three kinds of  *)
(* chains of microtasks interleave on it: the executor, which runs commands *)
(* one at a time in FIFO order; the scheduler chain (task 0), which handles *)
(* one event at a time; and the drains that approve_activation and unfreeze *)
(* start after their commit, outside the scheduler chain (tasks 1, 2, ...). *)
(* A task that awaits a command is resumed after the command ends.  People, *)
(* agents and provider processes are macrotasks: they get their turn when   *)
(* no microtask can run, which includes the time a command awaits real I/O  *)
(* (Quiescent).                                                             *)
(*                                                                          *)
(* Not modelled here: admission (RunAdmission), create and master edges,    *)
(* clusters, external and timer sources, budgets.                           *)
(***************************************************************************)
EXTENDS GraphFold, FiniteSets, Sequences

CONSTANTS
  Def,       \* Def[e]: the definition of edge e (EdgeDef)
  Bundle,    \* sessions whose artifact bundle is not empty
  None,      \* "no edge", "no session", "no open command"
  HumanKind, \* the kinds of human command that are sent
  \* Bounds.  Each Max bounds how often an actor outside the code acts.
  MaxHuman,  \* human commands
  MaxReport, \* reports sent by agents
  MaxFail,   \* provider runs that end with an error
  MaxAbort,  \* commands whose handler throws after an await
  MaxCrash   \* crashes, each followed by a restart

Human == -1            \* the dispatcher of a command nobody waits for
Chain == 0             \* the scheduler chain
Drains == 1 .. MaxHuman
Task == {Chain} \cup Drains

EventKind == {"finished", "failed", "killed", "issues", "clean", "delivered"}

EdgeDef == [source : Session, target : Session,
            on : {"finished", "failed", "issues", "clean", "report", "delivered"},
            deliver : BOOLEAN,      \* action.kind: deliver only, or activate
            auto : BOOLEAN,         \* gate: auto, or a person approves
            policy : {"coalesce", "queue", "drop", "interrupt"},
            cap : Nat,              \* stop.maxFirings, 0 when there is none
            stopOnClean : BOOLEAN,  \* stop.whenReport = clean
            freezeOnStop : BOOLEAN, \* onStop: freeze-target, or none
            rank : Nat]             \* place in authoring order

HumanCommand == {"approve", "deny", "stop", "freeze", "unfreeze", "activate",
                 "kill", "workflow"}

ASSUME DefAssumption ==
  /\ Def \in [Edge -> EdgeDef]
  /\ \A e, f \in Edge : Def[e].rank = Def[f].rank => e = f
ASSUME BoundAssumption ==
  /\ MaxHuman \in Nat /\ MaxReport \in Nat /\ MaxFail \in Nat
  /\ MaxAbort \in Nat /\ MaxCrash \in Nat
ASSUME InputAssumption ==
  /\ IsFiniteSet(Session)
  /\ Bundle \subseteq Session
  /\ HumanKind \subseteq HumanCommand
  /\ None \notin Session /\ None \notin Edge

Source(e) == Def[e].source
Target(e) == Def[e].target

(* A parked firing.  data: executing it delivers a bundle first.            *)
Slot == [edge : Edge, n : Nat \ {0}, trig : Nat, data : BOOLEAN, ok : BOOLEAN]

LiveState == [status  : [Session -> Status],
              frozen  : SUBSET Session,
              active  : SUBSET Edge,
              firings : [Edge -> Nat],
              slots   : SUBSET Slot]

EdgeRule == {"stopFor", "deliverFor", "dropFiring", "pend", "dropMissing",
             "dropDead", "execute"}
OnEdge == {"approve", "deny", "stop"} \cup EdgeRule
OnSession == {"freeze", "unfreeze", "activate", "kill", "stopKilled", "complete",
              "issues", "clean", "deliverFor"}
CmdKind == OnEdge \cup OnSession \cup {"workflow"}

(* A kernel command waiting in the executor.  by: the task that awaits it.  *)
Command ==
  {c \in [kind : CmdKind, edge : Edge \cup {None}, sess : Session \cup {None},
           n : Nat, trig : Nat, data : BOOLEAN, sup : BOOLEAN, by : {Human} \cup Task] :
     /\ c.kind \in OnEdge => c.edge \in Edge
     /\ c.kind \in OnSession => c.sess \in Session
     /\ c.kind \in EdgeRule => c.by \in Task}

Event == {ev \in [kind : EventKind \cup {"recover"}, sess : Session \cup {None}, id : Nat] :
            ev.kind # "recover" => ev.sess \in Session}

VARIABLES
  live,    \* runtimeState: what the handlers read and write in place
  disk,    \* the last runtime_state row written to SQLite
  kernel,  \* the fold of the facts in the log
  proc,    \* the runs map: the run whose process is alive, 0 for none
  ctx,     \* the runContext map: the run a session is in, 0 for none
  doomed,  \* sessions whose live process was asked to die
  bridge,  \* the membrane bridge listens
  nrun,    \* runs started
  nev,     \* events published
  schedQ,  \* events that wait on the scheduler chain
  task,    \* the scheduler chain and the drains
  cmdQ,    \* commands that wait in the executor; the head may be open
  open,    \* what the head command keeps while it awaits, or None
  done,    \* idempotency keys of the committed rule commands
  left,    \* how often each outside actor may still act
  hist     \* what happened, for the properties: no step reads it

providers == <<proc, ctx, doomed, bridge, nrun>>
vars == <<live, disk, kernel, providers, nev, schedQ, task, cmdQ, open, done, left, hist>>

------------------------------------------------------------------------------
(* Tasks.                                                                    *)

OffTask == [pc |-> "off", todo |-> {}, fresh |-> FALSE, slots |-> {}]
(* A task about to take a new snapshot of the approved slots.               *)
FreshTask == [pc |-> "ready", todo |-> {}, fresh |-> TRUE, slots |-> {}]

TaskState == [pc : {"off", "ready", "wait"}, todo : SUBSET Command,
              fresh : BOOLEAN, slots : SUBSET Slot]

Cmd(kind) == [kind |-> kind, edge |-> None, sess |-> None, n |-> 0, trig |-> 0,
              data |-> FALSE, sup |-> FALSE, by |-> Human]

(* What makes two dispatches of a rule command the same command.            *)
Key(c) == <<c.kind, c.edge, c.n, c.trig>>

Init ==
  /\ live = [status |-> [s \in Session |-> "idle"], frozen |-> {}, active |-> Edge,
             firings |-> [e \in Edge |-> 0], slots |-> {}]
  /\ disk = live
  /\ kernel = [status |-> [s \in Session |-> "idle"], frozen |-> {}, active |-> Edge,
               firings |-> [e \in Edge |-> 0], pend |-> {}]
  /\ proc = [s \in Session |-> 0]
  /\ ctx = [s \in Session |-> 0]
  /\ doomed = {}
  /\ bridge = FALSE
  /\ nrun = 0
  /\ nev = 0
  /\ schedQ = <<>>
  /\ task = [p \in Task |-> OffTask]
  /\ cmdQ = <<>>
  /\ open = None
  /\ done = {}
  /\ left = [human |-> MaxHuman, report |-> MaxReport, fail |-> MaxFail,
             abort |-> MaxAbort, crash |-> MaxCrash]
  /\ hist = [fired |-> {}, granted |-> {}, lost |-> {}]

------------------------------------------------------------------------------
(* The event loop.                                                          *)

(* A drain the executor has just started takes its snapshot before the next *)
(* command begins and before the scheduler chain moves: it was queued as a  *)
(* microtask ahead of both.                                                 *)
Urgent == \E p \in Drains : task[p].pc = "ready" /\ task[p].fresh

(* No microtask can run: the loop takes the next macrotask.                 *)
Quiescent ==
  /\ \A p \in Task : task[p].pc # "ready"
  /\ task[Chain].pc = "off" => schedQ = <<>>
  /\ IF open = None THEN cmdQ = <<>> ELSE open.io

(* enqueueSchedulerEvent: a fact that triggers is queued on the chain unless *)
(* there is neither an active edge nor a slot.                               *)
Publish(L, kind, s) ==
  /\ nev' = nev + 1
  /\ schedQ' = IF L.active = {} /\ L.slots = {} THEN schedQ
               ELSE Append(schedQ, [kind |-> kind, sess |-> s, id |-> nev + 1])
Quiet == UNCHANGED <<nev, schedQ>>

(* Mutant: the row is not written. *)
WriteMemoryOnly(L) == live' = L /\ UNCHANGED disk

(* A state the process holds and has written to disk.                       *)
Write(L) == live' = L /\ disk' = L

------------------------------------------------------------------------------
(* evaluateSubscriptions: what one event asks of each active edge.          *)

Matches(e, ev) ==
  /\ ev.sess = Source(e)
  /\ \/ ev.kind = Def[e].on
     \/ Def[e].on = "report" /\ ev.kind \in {"issues", "clean"}

(* The verdict counts from either end of the edge; the cap only when the    *)
(* event would fire the edge.                                               *)
StopsOn(e, ev) ==
  \/ Def[e].stopOnClean /\ ev.kind = "clean" /\ ev.sess \in {Source(e), Target(e)}
  \/ Matches(e, ev) /\ Def[e].cap > 0 /\ live.firings[e] >= Def[e].cap

Busy(s) == live.status[s] \in {"running", "pending"}

RuleCmd(kind, e, ev) == [Cmd(kind) EXCEPT !.edge = e, !.trig = ev.id, !.by = Chain]

(* Mutant: an approved slot does not count. *)
ParkedUnapproved(e) == \E x \in At(live.slots, e, 1) : ~x.ok

(* Something is parked under the plain key of the edge.                     *)
Parked(e) == At(live.slots, e, 1) # {}

(* A report trigger carries the rendered report, so it always has data.     *)
Decide(e, ev) ==
  LET parked == Parked(e)
      busy   == Busy(Target(e))
      data   == ev.sess \in Bundle \/ ev.kind \in {"issues", "clean"}
  IN IF StopsOn(e, ev) THEN {RuleCmd("stopFor", e, ev)}
     ELSE IF ~Matches(e, ev) THEN {}
     ELSE IF Def[e].deliver
       THEN {[RuleCmd("deliverFor", e, ev) EXCEPT !.sess = ev.sess, !.data = data]}
     ELSE IF Def[e].policy = "drop" /\ (busy \/ parked) THEN {RuleCmd("dropFiring", e, ev)}
     ELSE {[RuleCmd("pend", e, ev) EXCEPT !.data = data,
                                          !.sup = parked /\ Def[e].policy # "queue"]}
          \cup {[RuleCmd("kill", e, ev) EXCEPT !.sess = Target(e)] :
                  x \in {y \in {e} : Def[y].policy = "interrupt" /\ busy}}

(* A killed session is not evaluated: one command stops all its edges.      *)
Decisions(ev) ==
  IF ev.kind = "recover" THEN {}
  ELSE IF ev.kind = "killed"
    THEN {[Cmd("stopKilled") EXCEPT !.sess = ev.sess, !.trig = ev.id, !.by = Chain]}
  ELSE UNION {Decide(e, ev) : e \in live.active}

(* Authoring order; within an edge the interrupt comes before the pend.     *)
Precedes(c, d) ==
  \/ c.edge = d.edge /\ c.kind = "kill"
  \/ c.edge # d.edge /\ Def[c.edge].rank < Def[d.edge].rank

------------------------------------------------------------------------------
(* drainApprovedSlots.                                                      *)

(* Order of the pending facts: events are handled one at a time, and the    *)
(* edges of an event in authoring order.                                    *)
Older(x, y) == \/ x.trig < y.trig
               \/ x.trig = y.trig /\ Def[x.edge].rank < Def[y.edge].rank

(* Mutant: the gate is not looked at. *)
ApprovedOrNot == live.slots

Approved == {x \in live.slots : x.ok}

Dead(s) == live.status[s] \in {"killed", "failed"}

(* Mutant: the freeze of the target is not looked at. *)
SkippedUnlessFrozen(x) ==
  LET s == Target(x.edge)
  IN \/ At(live.slots, x.edge, x.n) = {}
     \/ x.edge \in live.active /\ ~Dead(s) /\ (proc[s] # 0 \/ Busy(s))

(* The slot of the snapshot is passed over without an await: its key is     *)
(* gone, or its target is busy or frozen.                                   *)
Skipped(x) ==
  LET s == Target(x.edge)
  IN \/ At(live.slots, x.edge, x.n) = {}
     \/ /\ x.edge \in live.active /\ ~Dead(s)
        /\ proc[s] # 0 \/ Busy(s) \/ s \in live.frozen

(* Mutant: the slot of a stopped edge is executed. *)
DrainCmdOfAnyEdge(p, x) ==
  [Cmd(IF Dead(Target(x.edge)) THEN "dropDead" ELSE "execute")
   EXCEPT !.edge = x.edge, !.n = x.n, !.trig = x.trig, !.by = p]

DrainCmd(p, x) ==
  [Cmd(IF x.edge \notin live.active THEN "dropMissing"
       ELSE IF Dead(Target(x.edge)) THEN "dropDead" ELSE "execute")
   EXCEPT !.edge = x.edge, !.n = x.n, !.trig = x.trig, !.by = p]

(* One synchronous run of a task: it dispatches its next decision, or the   *)
(* command of the next slot it does not skip, and awaits it; or it ends.    *)
Proceed(p, t) ==
  LET S == IF t.fresh THEN Approved ELSE t.slots
  IN \/ \E c \in t.todo :
          /\ \A d \in t.todo \ {c} : Precedes(c, d)
          /\ cmdQ' = Append(cmdQ, c)
          /\ task' = [task EXCEPT ![p] = [t EXCEPT !.pc = "wait", !.todo = @ \ {c}]]
     \/ /\ t.todo = {}
        /\ \E x \in S :
             /\ ~Skipped(x)
             /\ \A y \in S : Older(y, x) => Skipped(y)
             /\ cmdQ' = Append(cmdQ, DrainCmd(p, x))
             /\ task' = [task EXCEPT ![p] = [t EXCEPT !.pc = "wait", !.fresh = FALSE,
                                              !.slots = {y \in S : Older(x, y)}]]
     \/ /\ t.todo = {}
        /\ \A x \in S : Skipped(x)
        /\ cmdQ' = cmdQ
        /\ task' = [task EXCEPT ![p] = OffTask]

TaskUnchanged == UNCHANGED <<live, disk, kernel, providers, nev, open, done, left, hist>>

(* processSchedulerEvent, up to its first await.                            *)
TakeEvent ==
  /\ task[Chain].pc = "off" /\ schedQ # <<>> /\ ~Urgent
  /\ Proceed(Chain, [FreshTask EXCEPT !.todo = Decisions(Head(schedQ))])
  /\ schedQ' = Tail(schedQ)
  /\ TaskUnchanged

Resume(p) ==
  /\ task[p].pc = "ready"
  /\ Urgent => p \in Drains /\ task[p].fresh
  /\ Proceed(p, task[p])
  /\ UNCHANGED schedQ
  /\ TaskUnchanged

------------------------------------------------------------------------------
(* The executor.                                                            *)

Current == Head(cmdQ)
Replayed(c) == c.by \in Task /\ Key(c) \in done

Begins(kind) ==
  /\ open = None /\ cmdQ # <<>> /\ ~Urgent
  /\ Current.kind = kind /\ ~Replayed(Current)

(* The command committed: its dispatcher goes on, its key is recorded.      *)
Completes(c) ==
  /\ cmdQ' = Tail(cmdQ)
  /\ open' = None
  /\ done' = IF c.by \in Task THEN done \cup {Key(c)} ELSE done
  /\ task' = IF c.by \in Task THEN [task EXCEPT ![c.by].pc = "ready"] ELSE task

(* Mutant: the executor is not told that the handler ended. *)
ThrowsLeavingOpen(c) ==
  /\ cmdQ' = Tail(cmdQ)
  /\ UNCHANGED <<open, done>>
  /\ task' = IF c.by \in Task THEN [task EXCEPT ![c.by] = OffTask] ELSE task

(* The handler threw: nothing of it is kept.  The scheduler catches what a  *)
(* delivery or an interrupt throws; any other exception ends the task.      *)
Throws(c) ==
  /\ cmdQ' = Tail(cmdQ)
  /\ open' = None
  /\ done' = done
  /\ task' = IF c.by \notin Task THEN task
             ELSE IF c.kind \in {"kill", "deliverFor"}
               THEN [task EXCEPT ![c.by].pc = "ready"]
             ELSE [task EXCEPT ![c.by] = OffTask]

(* Mutant: no drain is started. *)
CompletesOnly ==
  cmdQ' = Tail(cmdQ) /\ open' = None /\ UNCHANGED <<done, task>>

(* As Completes, for the two commands after whose commit the executor       *)
(* starts a drain of its own.                                               *)
CompletesAndDrains ==
  /\ cmdQ' = Tail(cmdQ)
  /\ open' = None
  /\ done' = done
  /\ \E p \in Drains :
       /\ task[p].pc = "off"
       /\ \A q \in Drains : q < p => task[q].pc # "off"
       /\ task' = [task EXCEPT ![p] = FreshTask]

NoChange == UNCHANGED <<live, disk, kernel, nev, schedQ>>
Rest == UNCHANGED <<providers, left>>

(* A command already recorded: the recorded result, and no second effect.   *)
Replay ==
  /\ open = None /\ cmdQ # <<>> /\ ~Urgent
  /\ Replayed(Current)
  /\ Completes(Current)
  /\ NoChange /\ Rest /\ UNCHANGED hist

------------------------------------------------------------------------------
(* Commands that run without an await.                                      *)

(* cmdStopSubscription: the edge stops and every slot of it is dropped.     *)
StopEdges(L, E) == [L EXCEPT !.active = @ \ E, !.slots = {x \in @ : x.edge \notin E}]
StopEdgeFacts(k, E) == [k EXCEPT !.active = @ \ E, !.pend = {x \in @ : x.edge \notin E}]

(* stopSubscriptionWithOnStop, for an edge that is active.                  *)
StopWithOnStop(L, e) ==
  [StopEdges(L, {e}) EXCEPT
     !.frozen = IF Def[e].freezeOnStop THEN @ \cup {Target(e)} ELSE @]
StopWithOnStopFacts(k, e) ==
  LET stopped == AllDroppedFacts(StoppedFact(k, e), e)
  IN IF Def[e].freezeOnStop THEN FreezeFact(stopped, Target(e)) ELSE stopped

(* Mutant: off by one. *)
BeyondCap(L, e) == e \in L.active /\ Def[e].cap > 0 /\ L.firings[e] > Def[e].cap

(* maxFiringsStopDecision *)
AtCap(L, e) == e \in L.active /\ Def[e].cap > 0 /\ L.firings[e] >= Def[e].cap

(* The slot under a key is replaced, never joined.                          *)
Park(S, c, n) ==
  (S \ At(S, c.edge, n)) \cup {[edge |-> c.edge, n |-> n, trig |-> c.trig,
                                data |-> c.data, ok |-> Def[c.edge].auto]}

(* createPendingActivation.  The edge is not looked at again: a pend whose  *)
(* edge stopped since the event was evaluated still parks a slot.           *)
Pend ==
  /\ Begins("pend")
  /\ LET c  == Current
         e  == c.edge
         gone == c.sup /\ At(live.slots, e, 1) # {}
         S  == IF gone THEN live.slots \ At(live.slots, e, 1) ELSE live.slots
         k  == IF gone THEN ClosedFact(kernel, e, 1) ELSE kernel
     IN \E n \in 1 .. Cardinality(Of(S, e)) + 1 :
          /\ IF Def[e].policy = "queue"
             THEN At(S, e, n) = {} /\ \A m \in 1 .. n - 1 : At(S, e, m) # {}
             ELSE n = 1
          /\ Write([live EXCEPT !.slots = Park(S, c, n)])
          /\ kernel' = IF Def[e].auto
                       THEN ApprovedFact(PendingFact(k, e, n, c.trig), e, n)
                       ELSE PendingFact(k, e, n, c.trig)
          /\ hist' = [hist EXCEPT !.lost = @ \cup {<<e, x.trig>> : x \in At(S, e, n)}]
          /\ Completes(c)
  /\ Quiet /\ Rest

(* cmdApproveActivation, by a person.                                       *)
Approve ==
  /\ Begins("approve")
  /\ LET c == Current
         mine == At(live.slots, c.edge, c.n)
     IN IF mine = {}
        THEN Throws(c) /\ NoChange /\ UNCHANGED hist
        ELSE /\ Write([live EXCEPT !.slots = (@ \ mine) \cup
                         {[x EXCEPT !.ok = TRUE] : x \in mine}])
             /\ kernel' = IF \E x \in mine : ~x.ok
                          THEN ApprovedFact(kernel, c.edge, c.n) ELSE kernel
             /\ hist' = [hist EXCEPT !.granted = @ \cup {<<x.edge, x.trig>> : x \in mine}]
             /\ CompletesAndDrains /\ Quiet
  /\ Rest

(* cmdDenyActivation, by a person.                                          *)
Deny ==
  /\ Begins("deny")
  /\ LET c == Current
         mine == At(live.slots, c.edge, c.n)
     IN IF mine = {}
        THEN Throws(c) /\ NoChange
        ELSE /\ Write([live EXCEPT !.slots = @ \ mine])
             /\ kernel' = ClosedFact(kernel, c.edge, c.n)
             /\ Completes(c) /\ Quiet
  /\ Rest /\ UNCHANGED hist

(* rule_drop_activation of a slot: whatever is under the key goes.          *)
Drop(kind) ==
  /\ Begins(kind)
  /\ LET c == Current
     IN /\ Write([live EXCEPT !.slots = @ \ At(@, c.edge, c.n)])
        /\ kernel' = ClosedFact(kernel, c.edge, c.n)
        /\ Completes(c)
  /\ Quiet /\ Rest /\ UNCHANGED hist

(* rule_drop_activation without a key: only the fact that a firing dropped. *)
DropFiring ==
  /\ Begins("dropFiring")
  /\ Completes(Current)
  /\ Write(live) /\ UNCHANGED kernel
  /\ Quiet /\ Rest /\ UNCHANGED hist

(* stop_subscription by a person.                                           *)
Stop ==
  /\ Begins("stop")
  /\ LET E == {Current.edge} \cap live.active
     IN Write(StopEdges(live, E)) /\ kernel' = StopEdgeFacts(kernel, E)
  /\ Completes(Current)
  /\ Quiet /\ Rest /\ UNCHANGED hist

(* rule_stop_for_event.                                                     *)
StopFor ==
  /\ Begins("stopFor")
  /\ LET e == Current.edge
     IN IF e \in live.active
        THEN Write(StopWithOnStop(live, e)) /\ kernel' = StopWithOnStopFacts(kernel, e)
        ELSE Write(live) /\ UNCHANGED kernel
  /\ Completes(Current)
  /\ Quiet /\ Rest /\ UNCHANGED hist

(* rule_stop_killed_subscriptions.                                          *)
Participates(e, s) == s \in {Source(e), Target(e)}
StopKilled ==
  /\ Begins("stopKilled")
  /\ LET E == {e \in live.active : Participates(e, Current.sess)}
     IN Write(StopEdges(live, E)) /\ kernel' = StopEdgeFacts(kernel, E)
  /\ Completes(Current)
  /\ Quiet /\ Rest /\ UNCHANGED hist

(* rule_deliver_for_event: deliverSubscriptionFiring.                       *)
DeliverFor ==
  /\ Begins("deliverFor")
  /\ LET c == Current
         e == c.edge
         L == [live EXCEPT !.firings[e] = @ + 1]
         k == DeliveredFact(kernel, e, TRUE)
     IN IF e \notin live.active
        THEN Completes(c) /\ Write(live) /\ UNCHANGED kernel /\ Quiet /\ UNCHANGED hist
        ELSE IF ~c.data THEN Throws(c) /\ NoChange /\ UNCHANGED hist
        ELSE LET M == IF AtCap(L, e) THEN StopWithOnStop(L, e) ELSE L
             IN /\ Write(M)
                /\ kernel' = IF AtCap(L, e) THEN StopWithOnStopFacts(k, e) ELSE k
                /\ Publish(M, "delivered", c.sess)
                /\ hist' = [hist EXCEPT !.fired = @ \cup {<<e, c.trig>>}]
                /\ Completes(c)
  /\ Rest

Freeze ==
  /\ Begins("freeze")
  /\ Write([live EXCEPT !.frozen = @ \cup {Current.sess}])
  /\ kernel' = FreezeFact(kernel, Current.sess)
  /\ Completes(Current)
  /\ Quiet /\ Rest /\ UNCHANGED hist

Unfreeze ==
  /\ Begins("unfreeze")
  /\ Write([live EXCEPT !.frozen = @ \ {Current.sess}])
  /\ kernel' = LiftFact(kernel, Current.sess)
  /\ CompletesAndDrains
  /\ Quiet /\ Rest /\ UNCHANGED hist

(* cmdKillSession, by a person or to interrupt.  Without a live process it  *)
(* answers ok: false; otherwise the session is killed at once, in advance   *)
(* of the end of its process.                                               *)
Kill ==
  /\ Begins("kill")
  /\ LET s == Current.sess
         L == [live EXCEPT !.status[s] = "killed"]
     IN IF proc[s] = 0
        THEN Write(live) /\ UNCHANGED <<kernel, doomed>> /\ Quiet
        ELSE /\ Write(L)
             /\ kernel' = SessionFact(kernel, s, "killed")
             /\ doomed' = doomed \cup {s}
             /\ Publish(L, "killed", s)
  /\ Completes(Current)
  /\ UNCHANGED <<proc, ctx, bridge, nrun, left, hist>>

(* report by the agent of a session.                                        *)
Report(kind) ==
  /\ Begins(kind)
  /\ Write(live) /\ UNCHANGED kernel
  /\ Publish(live, kind, Current.sess)
  /\ Completes(Current)
  /\ Rest /\ UNCHANGED hist

(* failSession: outside every command, so its fact and its state go to disk *)
(* at once.                                                                 *)
FailSession(s) ==
  LET L == [live EXCEPT !.status[s] = "failed"]
  IN /\ Write(L)
     /\ kernel' = SessionFact(kernel, s, "failed")
     /\ ctx' = [ctx EXCEPT ![s] = 0]
     /\ Publish(L, "failed", s)

(* provider_complete_run.  A completion of another run than the current one *)
(* throws, and the close handler that dispatched it then fails the session. *)
Complete ==
  /\ Begins("complete")
  /\ LET c == Current
         s == c.sess
         L == [live EXCEPT !.status[s] = "idle"]
     IN IF c.n # 0 /\ ctx[s] = c.n
        THEN /\ Write(L)
             /\ kernel' = SessionFact(kernel, s, "idle")
             /\ ctx' = [ctx EXCEPT ![s] = 0]
             /\ Publish(L, "finished", s)
             /\ Completes(c)
        ELSE FailSession(s) /\ Throws(c)
  /\ UNCHANGED <<proc, doomed, bridge, nrun, left, hist>>

------------------------------------------------------------------------------
(* Commands that await.  They keep the state they began with, to put it     *)
(* back if they throw, and change the live state as they go.  The first     *)
(* launch after a start awaits the socket of the bridge (real I/O); later   *)
(* ones only yield to other microtasks.                                     *)

(* Mutant: the slot is not taken away.                                      *)
OpensKeepingSlot(slot, io, L) ==
  /\ open' = [saved |-> live, io |-> io, slot |-> slot]
  /\ live' = [L EXCEPT !.slots = live.slots]
  /\ UNCHANGED <<disk, kernel, providers, nev, schedQ, task, cmdQ, done, left, hist>>

Opens(slot, io, L) ==
  /\ open' = [saved |-> live, io |-> io, slot |-> slot]
  /\ live' = L
  /\ UNCHANGED <<disk, kernel, providers, nev, schedQ, task, cmdQ, done, left, hist>>

(* executeApprovedSlot up to launchRun.  Neither the status of the slot nor *)
(* the edge, the target or its freeze is looked at again.                   *)
ExecuteBegin ==
  /\ Begins("execute")
  /\ LET c == Current
         e == c.edge
         s == Target(e)
         mine == At(live.slots, e, c.n)
     IN IF mine = {}
        THEN Completes(c) /\ Write(live) /\ UNCHANGED kernel /\ Quiet /\ Rest /\ UNCHANGED hist
        ELSE IF proc[s] # 0
        THEN Throws(c) /\ NoChange /\ Rest /\ UNCHANGED hist
        ELSE \E x \in mine :
               Opens(x, ~bridge, [live EXCEPT !.slots = @ \ mine, !.status[s] = "pending"])

(* Mutant: the status is not looked at. *)
ActivatableKilled(s) == proc[s] = 0 /\ s \notin live.frozen

(* assertActivatable                                                        *)
Activatable(s) == proc[s] = 0 /\ live.status[s] # "killed" /\ s \notin live.frozen

(* cmdActivate by a person up to launchRun.                                 *)
ActivateBegin ==
  /\ Begins("activate")
  /\ LET s == Current.sess
     IN IF ~Activatable(s)
        THEN Throws(Current) /\ NoChange /\ Rest /\ UNCHANGED hist
        ELSE Opens(None, ~bridge, [live EXCEPT !.status[s] = "pending"])

(* A workflow command of a person (start_review_workflow, ...): it builds   *)
(* elsewhere in the graph and awaits two turns of the event loop            *)
(* (settleProviderStart) before it commits.                                 *)
WorkflowBegin ==
  /\ Begins("workflow")
  /\ Opens(None, TRUE, live)

Launched(s) ==
  /\ nrun' = nrun + 1
  /\ proc' = [proc EXCEPT ![s] = nrun + 1]
  /\ ctx' = [ctx EXCEPT ![s] = nrun + 1]
  /\ doomed' = doomed \ {s}
  /\ bridge' = TRUE

(* The turn started: the firing counts, and the last one of the cap stops   *)
(* the edge.                                                                *)
ExecuteEnd ==
  /\ open # None /\ Current.kind = "execute"
  /\ LET c == Current
         e == c.edge
         s == Target(e)
         L == [live EXCEPT !.status[s] = "running", !.firings[e] = @ + 1]
         d == IF open.slot.data THEN DeliveredFact(kernel, e, Def[e].deliver) ELSE kernel
         k == FiredFact(d, e, c.n, s)
         M == IF AtCap(L, e) THEN StopWithOnStop(L, e) ELSE L
     IN /\ Write(M)
        /\ kernel' = IF AtCap(L, e) THEN StopWithOnStopFacts(k, e) ELSE k
        /\ IF open.slot.data THEN Publish(M, "delivered", Source(e)) ELSE Quiet
        /\ Launched(s)
        /\ hist' = [hist EXCEPT !.fired = @ \cup {<<e, open.slot.trig>>}]
        /\ Completes(c)
  /\ UNCHANGED left

ActivateEnd ==
  /\ open # None /\ Current.kind = "activate"
  /\ LET s == Current.sess
     IN /\ Write([live EXCEPT !.status[s] = "running"])
        /\ kernel' = ActivatedFact(kernel, s)
        /\ Launched(s)
  /\ Completes(Current)
  /\ Quiet /\ UNCHANGED <<left, hist>>

WorkflowEnd ==
  /\ open # None /\ Current.kind = "workflow"
  /\ Write(live)
  /\ Completes(Current)
  /\ UNCHANGED <<kernel, providers, left, hist>> /\ Quiet

(* The handler throws after its await: the state it began with comes back,  *)
(* together with whatever else changed since, which is lost.  The disk is   *)
(* not written.                                                             *)
Abort ==
  /\ open # None /\ left.abort > 0
  /\ left' = [left EXCEPT !.abort = @ - 1]
  /\ live' = open.saved
  /\ bridge' = (bridge \/ Current.kind # "workflow")
  /\ Throws(Current)
  /\ UNCHANGED <<disk, kernel, proc, ctx, doomed, nrun, hist>> /\ Quiet

------------------------------------------------------------------------------
(* Macrotasks: people, agents, provider processes.                          *)

Sends(c) ==
  /\ cmdQ' = Append(cmdQ, c)
  /\ UNCHANGED <<live, disk, kernel, providers, nev, schedQ, task, open, done, hist>>

HumanSends ==
  /\ Quiescent /\ left.human > 0
  /\ left' = [left EXCEPT !.human = @ - 1]
  /\ \/ \E kind \in HumanKind \cap {"approve", "deny"} : \E x \in live.slots :
          /\ ~x.ok
          /\ Sends([Cmd(kind) EXCEPT !.edge = x.edge, !.n = x.n])
     \/ \E kind \in HumanKind \cap {"stop"} : \E e \in live.active :
          Sends([Cmd(kind) EXCEPT !.edge = e])
     \/ \E kind \in HumanKind \cap {"freeze", "unfreeze", "activate", "kill"} :
        \E s \in Session :
          Sends([Cmd(kind) EXCEPT !.sess = s])
     \/ \E kind \in HumanKind \cap {"workflow"} : Sends(Cmd(kind))

AgentReports(s) ==
  /\ Quiescent /\ left.report > 0
  /\ proc[s] # 0 /\ s \notin doomed
  /\ left' = [left EXCEPT !.report = @ - 1]
  /\ \E kind \in {"issues", "clean"} : Sends([Cmd(kind) EXCEPT !.sess = s])

(* The process of a run ends: run.on('close').                              *)
ProviderCloses(s) ==
  /\ Quiescent /\ proc[s] # 0
  /\ proc' = [proc EXCEPT ![s] = 0]
  /\ doomed' = doomed \ {s}
  /\ UNCHANGED <<bridge, nrun, task, open, done, hist>>
  /\ \/ \* a context that is gone belongs to a run already settled
        /\ ctx[s] = 0 /\ live.status[s] \in {"idle", "failed", "killed"}
        /\ UNCHANGED <<live, disk, kernel, ctx, nev, schedQ, cmdQ, left>>
     \/ \* the end of a process that was killed
        /\ ctx[s] # 0 \/ live.status[s] \in {"pending", "running"}
        /\ s \in doomed \/ live.status[s] = "killed"
        /\ Write([live EXCEPT !.status[s] = "killed"])
        /\ ctx' = [ctx EXCEPT ![s] = 0]
        /\ UNCHANGED <<kernel, nev, schedQ, cmdQ, left>>
     \/ \* the error event was there before: it is the authority
        /\ ctx[s] # 0 /\ s \notin doomed /\ live.status[s] = "failed"
        /\ UNCHANGED <<live, disk, kernel, ctx, nev, schedQ, cmdQ, left>>
     \/ \* exit code 0
        /\ ctx[s] # 0 \/ live.status[s] \in {"pending", "running"}
        /\ s \notin doomed /\ live.status[s] \notin {"failed", "killed"}
        /\ cmdQ' = Append(cmdQ, [Cmd("complete") EXCEPT !.sess = s, !.n = ctx[s]])
        /\ UNCHANGED <<live, disk, kernel, ctx, nev, schedQ, left>>
     \/ \* any other exit code
        /\ ctx[s] # 0 \/ live.status[s] \in {"pending", "running"}
        /\ s \notin doomed /\ live.status[s] \notin {"failed", "killed"}
        /\ left.fail > 0
        /\ left' = [left EXCEPT !.fail = @ - 1]
        /\ FailSession(s)
        /\ UNCHANGED cmdQ

(* run.on('error') while the process is still there.                        *)
ProviderErrs(s) ==
  /\ Quiescent /\ proc[s] # 0 /\ left.fail > 0
  /\ live.status[s] # "killed" /\ s \notin doomed
  /\ left' = [left EXCEPT !.fail = @ - 1]
  /\ FailSession(s)
  /\ UNCHANGED <<proc, doomed, bridge, nrun, task, cmdQ, open, done, hist>>

------------------------------------------------------------------------------
(* The runtime dies at any point and starts again from the disk.  Sessions  *)
(* that were active become failed, and the facts of that are queued; then   *)
(* the target of an execution or activation that was open gets back the     *)
(* session record its deployment journal holds; edges with a killed         *)
(* participant, and exhausted edges, are stopped; the slots that survived   *)
(* are drained after the events.                                            *)
Journaled ==
  {s \in Session : /\ open # None
                   /\ \/ Current.kind = "execute" /\ s = Target(Current.edge)
                      \/ Current.kind = "activate" /\ s = Current.sess}

Recovered(F) == [s \in Session |-> IF s \in Journaled THEN open.saved.status[s]
                                  ELSE IF s \in F THEN "failed" ELSE disk.status[s]]

(* Mutant: what was running still counts as running. *)
RestartedAsRunning(L, F, killedEdges, cappedEdges) ==
  StopEdges(L, killedEdges \cup cappedEdges)

Restarted(L, F, killedEdges, cappedEdges) ==
  LET swept == StopEdges([L EXCEPT !.status = Recovered(F)], killedEdges \cup cappedEdges)
  IN [swept EXCEPT !.frozen =
        @ \cup {Target(e) : e \in {f \in cappedEdges \ killedEdges : Def[f].freezeOnStop}}]

Crash ==
  LET F == {s \in Session : disk.status[s] \in {"pending", "running"}}
      killedEdges == {e \in disk.active : \E s \in {Source(e), Target(e)} :
                                            Recovered(F)[s] = "killed"}
      cappedEdges == {e \in disk.active : AtCap(disk, e)}
      L == Restarted(disk, F, killedEdges, cappedEdges)
      stopped == StopEdgeFacts(kernel, killedEdges \cup cappedEdges)
      listens == disk.active # {} \/ disk.slots # {}
  IN /\ left.crash > 0
     /\ left' = [left EXCEPT !.crash = @ - 1]
     /\ Write(L)
     /\ kernel' = [stopped EXCEPT
                     !.status = [s \in Session |-> IF s \in F THEN "failed" ELSE @[s]],
                     !.frozen = @ \cup {Target(e) : e \in
                          {f \in cappedEdges \ killedEdges : Def[f].freezeOnStop}}]
     /\ \E order \in [1 .. Cardinality(F) -> F] :
          /\ \A s \in F : \E i \in 1 .. Cardinality(F) : order[i] = s
          /\ schedQ' =
               (IF listens
                THEN [i \in 1 .. Cardinality(F) |->
                        [kind |-> "failed", sess |-> order[i], id |-> nev + i]]
                ELSE <<>>)
               \o <<[kind |-> "recover", sess |-> None, id |-> 0]>>
     /\ nev' = nev + Cardinality(F)
     /\ proc' = [s \in Session |-> 0]
     /\ ctx' = [s \in Session |-> 0]
     /\ doomed' = {}
     /\ bridge' = FALSE
     /\ task' = [p \in Task |-> OffTask]
     /\ cmdQ' = <<>>
     /\ open' = None
     /\ UNCHANGED <<nrun, done, hist>>

------------------------------------------------------------------------------
Work == \/ Replay \/ Pend \/ Approve \/ Deny \/ Drop("dropMissing") \/ Drop("dropDead")
        \/ DropFiring \/ Stop \/ StopFor \/ StopKilled \/ DeliverFor \/ Freeze \/ Unfreeze
        \/ Kill \/ Report("issues") \/ Report("clean") \/ Complete
        \/ ExecuteBegin \/ ActivateBegin \/ WorkflowBegin
        \/ ExecuteEnd \/ ActivateEnd \/ WorkflowEnd

Next == \/ TakeEvent
        \/ \E p \in Task : Resume(p)
        \/ Work
        \/ Abort
        \/ HumanSends
        \/ \E s \in Session : AgentReports(s) \/ ProviderCloses(s) \/ ProviderErrs(s)
        \/ Crash

Spec == Init /\ [][Next]_vars

(* The event loop runs every microtask that is ready and every command that *)
(* is queued; a provider process that was started ends some day (assumed of *)
(* the providers).  Nothing is assumed of people and agents.                *)
Fairness == /\ WF_vars(TakeEvent)
            /\ \A p \in Task : WF_vars(Resume(p))
            /\ WF_vars(Work)
            /\ \A s \in Session : WF_vars(ProviderCloses(s))

FairSpec == Spec /\ Fairness

------------------------------------------------------------------------------
(* Properties.                                                              *)

(* Every variable keeps its type; a run number in use was given out, and a  *)
(* trigger number in use was published.                                     *)
OpenState == [saved : LiveState, io : BOOLEAN, slot : Slot \cup {None}]
ASSUME NoneAssumption == None \notin OpenState
Budget == [human : Nat, report : Nat, fail : Nat, abort : Nat, crash : Nat]
History == [fired : SUBSET (Edge \X Nat), granted : SUBSET (Edge \X Nat),
            lost : SUBSET (Edge \X Nat)]
TypeOK ==
  /\ live \in LiveState /\ disk \in LiveState /\ kernel \in KernelState
  /\ proc \in [Session -> Nat] /\ ctx \in [Session -> Nat]
  /\ doomed \subseteq Session /\ bridge \in BOOLEAN
  /\ nrun \in Nat /\ nev \in Nat
  /\ schedQ \in Seq(Event) /\ task \in [Task -> TaskState] /\ cmdQ \in Seq(Command)
  /\ open \in OpenState \cup {None}
  /\ open # None => /\ cmdQ # <<>>
                    /\ Current.kind \in {"execute", "activate", "workflow"}
                    /\ Current.kind = "execute" => open.slot \in Slot
  /\ left \in Budget /\ hist \in History

(* What the fold says of the part of the runtime state it covers.           *)
View(L) == [status |-> L.status, frozen |-> L.frozen, active |-> L.active,
            firings |-> L.firings,
            pend |-> {[edge |-> x.edge, n |-> x.n, trig |-> x.trig, ok |-> x.ok] :
                        x \in L.slots}]

(* State = fold(Log): between commands, what the runtime believes is what   *)
(* the log of facts says (fold.ts:1).                                       *)
LiveIsFold == open = None => kernel = View(live)

(* A slot key holds one slot: approving, denying or executing a key is      *)
(* never ambiguous.                                                         *)
OneSlotPerKey ==
  \A x, y \in live.slots : x.edge = y.edge /\ x.n = y.n => x = y

(* An edge fires at most once for a trigger event, whatever the number of   *)
(* drains that see its slot: firings counts distinct triggers.              *)
FiredBy(H, e) == {h \in H : h[1] = e}
FiresOncePerTrigger ==
  \A e \in Edge : live.firings[e] = Cardinality(FiredBy(hist.fired, e))

(* A firing that already ran is never parked again.                         *)
NoParkedGhost == \A x \in live.slots : <<x.edge, x.trig>> \notin hist.fired

(* maxFirings (scheduler.ts:178): an edge that has had them is stopped, at  *)
(* once and whatever is rolled back or restarted.  What fires it beyond     *)
(* them was dispatched before (StoppedEdgeHolds).                           *)
CapRespected == \A e \in live.active : Def[e].cap > 0 => live.firings[e] < Def[e].cap

(* A firing of a gated edge was approved by a person, for that trigger.     *)
GateRespected ==
  \A h \in hist.fired : ~Def[h[1]].auto /\ ~Def[h[1]].deliver => h \in hist.granted

(* The firing that an execution was dispatched for was approved by a        *)
(* person, for that trigger, whatever was denied, dropped, parked again,    *)
(* rolled back or restarted between the approval and the launch.  What can  *)
(* run unapproved is only another slot that took the same key meanwhile.    *)
ApprovedFires ==
  [][\A h \in hist'.fired \ hist.fired :
       ~Def[h[1]].auto /\ ~Def[h[1]].deliver /\ Current.trig = h[2] => h \in hist.granted]_vars

(* A pending activation ends with a fact of its own: no pend overwrites a   *)
(* slot without superseding it (scheduler.ts:333).  A rollback can put a    *)
(* slot back under a pend that was decided while the slot was taken.        *)
NoSilentOverwrite == left.abort = MaxAbort => hist.lost = {}

(* A session the runtime believes is running has a live process, or its     *)
(* completion is on the way.                                                *)
Completing(s) == \E i \in 1 .. Len(cmdQ) : cmdQ[i].kind = "complete" /\ cmdQ[i].sess = s
NoOrphanRun ==
  \A s \in Session : open = None /\ live.status[s] \in {"running", "pending"}
                       => proc[s] # 0 \/ Completing(s)

(* A step in which a turn of s starts.                                      *)
Starts(s) == proc'[s] # proc[s] /\ proc'[s] # 0

(* A stopped edge fires nothing more, once no execution of it is on its way *)
(* (dispatched, and not ended): whatever slots a late pend or an older      *)
(* snapshot of a drain still holds, none is executed, and it stays stopped. *)
Executing(e) == \E i \in DOMAIN cmdQ : cmdQ[i].kind = "execute" /\ cmdQ[i].edge = e
StoppedEdgeHolds ==
  [][\A e \in Edge :
       e \notin live.active /\ ~Executing(e) =>
         /\ e \notin live'.active /\ ~Executing(e)'
         /\ live'.firings[e] = live.firings[e]]_vars

(* Freeze holds: once a session is frozen and no turn of it is on its way   *)
(* (its execution dispatched, or its launch open), none is until the freeze *)
(* is lifted, whatever drains still hold of older snapshots.                *)
OnItsWay(s) ==
  \/ \E i \in DOMAIN cmdQ : cmdQ[i].kind = "execute" /\ Target(cmdQ[i].edge) = s
  \/ open # None /\ Current.kind = "activate" /\ Current.sess = s
FreezeHolds ==
  [][\A s \in Session :
       s \in live.frozen /\ s \in live'.frozen /\ ~OnItsWay(s) => ~OnItsWay(s)' /\ ~Starts(s)]_vars

(* A kill holds in the same way, as long as the session counts as killed.   *)
KilledHolds ==
  [][\A s \in Session :
       live.status[s] = "killed" /\ ~OnItsWay(s) => ~OnItsWay(s)' /\ ~Starts(s)]_vars

(* "The ordered drain for queue backlogs" (schedulerRuntime.ts:594): the     *)
(* backlog of a queue edge that needs no approval fires oldest first.        *)
QueueFiresOldest ==
  [][\A h \in hist'.fired \ hist.fired : Def[h[1]].policy = "queue" /\ Def[h[1]].auto =>
       \A x \in Of(live.slots, h[1]) : x.ok => x.trig > h[2]]_vars

(* An approved activation is not forgotten: it is executed, dropped or      *)
(* superseded, or its target is frozen.                                     *)
ApprovedIsResolved ==
  \A e \in Edge :
    (\E x \in Of(live.slots, e) : x.ok)
      ~> ((\A x \in Of(live.slots, e) : ~x.ok) \/ Target(e) \in live.frozen)

------------------------------------------------------------------------------
(* Why a trigger fires once: an inductive invariant (SchedulerProofs proves *)
(* it).  The idempotency key of a pend is the fence: it is in the log from  *)
(* the moment a slot of the trigger exists, in memory, on disk or in the    *)
(* state an open command would put back, and it outlives the slot.          *)

PendKey(e, t)    == <<"pend", e, 0, t>>
DeliverKey(e, t) == <<"deliverFor", e, 0, t>>

(* The runtime states a later step can bring back.                          *)
Saved  == IF open = None THEN live ELSE open.saved
States == {live, disk, Saved}

Queued == {cmdQ[i] : i \in DOMAIN cmdQ} \cup UNION {task[p].todo : p \in Task}
CommandsKeyed ==
  \A c \in Queued : /\ c.kind = "pend" => c.n = 0 /\ ~Def[c.edge].deliver
                    /\ c.kind = "deliverFor" => c.n = 0 /\ Def[c.edge].deliver

(* No two slots share a key, or a trigger; each has its pend on record.     *)
SlotSetOK(S) ==
  /\ \A x, y \in S : x.edge = y.edge /\ (x.n = y.n \/ x.trig = y.trig) => x = y
  /\ \A x \in S : /\ ~Def[x.edge].deliver
                  /\ PendKey(x.edge, x.trig) \in done
                  /\ <<x.edge, x.trig>> \notin hist.fired
SlotsOK == \A L \in States : SlotSetOK(L.slots)

FiredKeyed ==
  \A h \in hist.fired : (IF Def[h[1]].deliver THEN DeliverKey(h[1], h[2])
                         ELSE PendKey(h[1], h[2])) \in done

(* While a command is open only it has taken a slot away.                   *)
OpenSlotTaken ==
  open # None =>
    /\ live.slots \subseteq open.saved.slots
    /\ Current.kind = "execute" =>
         open.slot \in open.saved.slots \ live.slots /\ open.slot.edge = Current.edge

Counted ==
  /\ IsFiniteSet(hist.fired)
  /\ \A L \in States : \A e \in Edge :
       L.firings[e] = Cardinality(FiredBy(hist.fired, e))

OnceInv == /\ CommandsKeyed /\ SlotsOK /\ FiredKeyed /\ OpenSlotTaken /\ Counted

------------------------------------------------------------------------------
(* Why nothing unapproved is dispatched: a slot that counts as approved     *)
(* needs no approval or has one on record, wherever it is kept, and so do   *)
(* the drains and the executions that were made from it.                    *)

Granted(x) == Def[x.edge].auto \/ <<x.edge, x.trig>> \in hist.granted
GateInv ==
  /\ \A L \in States : \A x \in L.slots : x.ok => Granted(x)
  /\ \A p \in Task : \A x \in task[p].slots : Granted(x)
  /\ \A i \in DOMAIN cmdQ : cmdQ[i].kind = "execute" => Granted(cmdQ[i])

------------------------------------------------------------------------------
(* Why the cap stops an edge: every state a later step can bring back has   *)
(* the same edges and counts, and no executions but those of drains.        *)

SameEdges(L) == L.active = live.active /\ L.firings = live.firings
EdgeInv == /\ SameEdges(disk)
           /\ open # None => SameEdges(open.saved)
           /\ \A p \in Task : \A c \in task[p].todo : c.kind # "execute"
           /\ CapRespected
=============================================================================
