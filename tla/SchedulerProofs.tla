--------------------------- MODULE SchedulerProofs ---------------------------
(***************************************************************************)
(* Proofs about the scheduler, for every graph and every bound: types       *)
(* first.                                                                   *)
(* A trigger fires an edge once: the inductive invariant is OnceInv of      *)
(* Scheduler.tla.  Most steps only put back, or thin out, slots that exist  *)
(* already (Restores); the four that do more are a pend, an approval, a     *)
(* turn that starts and a delivery.                                         *)
(* The cap stops an edge and a stopped edge stays stopped, from EdgeInv:    *)
(* what a step may do to the edges and to the turns on their way is         *)
(* EdgesGoOn.  The same fact shows that a freeze and a kill hold.           *)
(* What is dispatched was approved, from GateInv.                           *)
(* Last: what is decided stays right until it is done, and what the runtime *)
(* believes is what the log says.  No pend overwrites a slot unseen         *)
(* (PendInv).  Memory, disk and log agree between commands, and what counts *)
(* as running has a process (FoldInv), as long as no command awaits the     *)
(* outside while processes run, which only a workflow command does.         *)
(***************************************************************************)
EXTENDS Scheduler, FiniteSetTheorems, TLAPS

------------------------------------------------------------------------------
(* The operators the actions are built from keep types.                     *)

(* Stopping a set of edges leaves a runtime state a runtime state.          *)
LEMMA StopTyped ==
  ASSUME NEW L \in LiveState, NEW E \in SUBSET Edge
  PROVE  StopEdges(L, E) \in LiveState
BY DEF StopEdges, LiveState

(* So does a stop with its onStop escalation.                               *)
LEMMA StopWithOnStopTyped ==
  ASSUME NEW L \in LiveState, NEW e \in Edge
  PROVE  StopWithOnStop(L, e) \in LiveState
<1>1. Target(e) \in Session
  BY DefAssumption DEF Target, EdgeDef
<1>2. StopEdges(L, {e}) \in LiveState
  BY StopTyped
<1> QED BY <1>1, <1>2 DEF StopWithOnStop, LiveState

(* Every fact takes a kernel state to a kernel state.                       *)
LEMMA FactsTyped ==
  ASSUME NEW k \in KernelState, NEW e \in Edge, NEW s \in Session,
         NEW n \in Nat \ {0}, NEW t \in Nat
  PROVE  /\ \A st \in Status : SessionFact(k, s, st) \in KernelState
         /\ FreezeFact(k, s) \in KernelState /\ LiftFact(k, s) \in KernelState
         /\ StoppedFact(k, e) \in KernelState
         /\ PendingFact(k, e, n, t) \in KernelState
         /\ AllDroppedFacts(k, e) \in KernelState
         /\ ActivatedFact(k, s) \in KernelState
<1>1. \A st \in Status : SessionFact(k, s, st) \in KernelState
  BY DEF SessionFact, KernelState
<1>2. FreezeFact(k, s) \in KernelState /\ LiftFact(k, s) \in KernelState
  BY DEF FreezeFact, LiftFact, KernelState
<1>3. StoppedFact(k, e) \in KernelState /\ AllDroppedFacts(k, e) \in KernelState
  BY DEF StoppedFact, AllDroppedFacts, Of, KernelState
<1>4. PendingFact(k, e, n, t) \in KernelState
  <2>1. [edge |-> e, n |-> n, trig |-> t, ok |-> FALSE] \in PendRecord
    BY DEF PendRecord
  <2>2. k.pend \subseteq PendRecord
    BY DEF KernelState
  <2> QED BY <2>1, <2>2 DEF PendingFact, At, KernelState
<1>5. ActivatedFact(k, s) \in KernelState
  BY DEF ActivatedFact, KernelState, Status
<1> QED BY <1>1, <1>2, <1>3, <1>4, <1>5

(* The facts under a slot key, which may be any key a command carries.      *)
LEMMA KeyFactsTyped ==
  ASSUME NEW k \in KernelState, NEW e \in Edge, NEW n, NEW s \in Session
  PROVE  /\ ApprovedFact(k, e, n) \in KernelState
         /\ ClosedFact(k, e, n) \in KernelState
         /\ FiredFact(k, e, n, s) \in KernelState
         /\ \A b \in BOOLEAN : DeliveredFact(k, e, b) \in KernelState
<1>1. ApprovedFact(k, e, n) \in KernelState
  <2>1. \A x \in PendRecord : [x EXCEPT !.ok = TRUE] \in PendRecord
    BY DEF PendRecord
  <2>2. k.pend \subseteq PendRecord
    BY DEF KernelState
  <2>3. {IF x \in At(k.pend, e, n) THEN [x EXCEPT !.ok = TRUE] ELSE x : x \in k.pend}
          \in SUBSET PendRecord
    BY <2>1, <2>2
  <2> QED BY <2>3 DEF ApprovedFact, KernelState
<1>2. ClosedFact(k, e, n) \in KernelState
  BY DEF ClosedFact, At, KernelState
<1>3. FiredFact(k, e, n, s) \in KernelState
  <2>1. k.firings[e] + 1 \in Nat /\ "running" \in Status
    BY DEF KernelState, Status
  <2>2. k.pend \ At(k.pend, e, n) \in SUBSET PendRecord
    BY DEF KernelState
  <2>3. [k.status EXCEPT ![s] = "running"] \in [Session -> Status]
    BY <2>1 DEF KernelState
  <2>4. [k.firings EXCEPT ![e] = @ + 1] \in [Edge -> Nat]
    BY <2>1 DEF KernelState
  <2> QED BY <2>2, <2>3, <2>4 DEF FiredFact, KernelState
<1>4. \A b \in BOOLEAN : DeliveredFact(k, e, b) \in KernelState
  BY DEF DeliveredFact, KernelState
<1> QED BY <1>1, <1>2, <1>3, <1>4

(* The facts of a stop.                                                     *)
LEMMA StopFactsTyped ==
  ASSUME NEW k \in KernelState
  PROVE  /\ \A E \in SUBSET Edge : StopEdgeFacts(k, E) \in KernelState
         /\ \A e \in Edge : StopWithOnStopFacts(k, e) \in KernelState
<1>1. ASSUME NEW E \in SUBSET Edge PROVE StopEdgeFacts(k, E) \in KernelState
  BY DEF StopEdgeFacts, KernelState
<1>2. ASSUME NEW e \in Edge PROVE StopWithOnStopFacts(k, e) \in KernelState
  <2>1. Target(e) \in Session
    BY DefAssumption DEF Target, EdgeDef
  <2>2. StoppedFact(k, e) \in KernelState
    BY DEF StoppedFact, KernelState
  <2>3. AllDroppedFacts(StoppedFact(k, e), e) \in KernelState
    BY <2>2 DEF AllDroppedFacts, Of, KernelState
  <2> QED BY <2>1, <2>3 DEF StopWithOnStopFacts, FreezeFact, KernelState
<1> QED BY <1>1, <1>2

(* A published event is an event.                                           *)
LEMMA PublishTyped ==
  ASSUME NEW L, NEW kind \in EventKind, NEW s \in Session,
         nev \in Nat, schedQ \in Seq(Event), Publish(L, kind, s)
  PROVE  nev' \in Nat /\ schedQ' \in Seq(Event)
<1>1. nev' \in Nat /\ nev + 1 \in Nat
  BY DEF Publish
<1>2. [kind |-> kind, sess |-> s, id |-> nev + 1] \in Event
  BY <1>1 DEF Event
<1>3. CASE L.active = {} /\ L.slots = {}
  BY <1>1, <1>3 DEF Publish
<1>4. CASE ~(L.active = {} /\ L.slots = {})
  <2>1. schedQ' = Append(schedQ, [kind |-> kind, sess |-> s, id |-> nev + 1])
    BY <1>4 DEF Publish
  <2> QED BY <1>1, <1>2, <2>1
<1> QED BY <1>3, <1>4

------------------------------------------------------------------------------
(* The commands and the tasks keep types.                                   *)

(* What the scheduler makes of an event for one edge.                       *)
DeliverCmd(e, ev, d) == [RuleCmd("deliverFor", e, ev) EXCEPT !.sess = ev.sess, !.data = d]
PendCmd(e, ev, d, u) == [RuleCmd("pend", e, ev) EXCEPT !.data = d, !.sup = u]
InterruptCmd(e, ev)  == [RuleCmd("kill", e, ev) EXCEPT !.sess = Target(e)]

LEMMA RuleCmdTyped ==
  ASSUME NEW ev \in Event, ev.sess \in Session, NEW e \in Edge,
         NEW d \in BOOLEAN, NEW u \in BOOLEAN
  PROVE  /\ RuleCmd("stopFor", e, ev) \in Command
         /\ RuleCmd("dropFiring", e, ev) \in Command
         /\ DeliverCmd(e, ev, d) \in Command
         /\ PendCmd(e, ev, d, u) \in Command
         /\ InterruptCmd(e, ev) \in Command
<1> USE DEF RuleCmd, Cmd, Command, CmdKind, OnEdge, OnSession, EdgeRule, Event,
            Task, Chain, Human
<1>1. RuleCmd("stopFor", e, ev) \in Command
  OBVIOUS
<1>2. RuleCmd("dropFiring", e, ev) \in Command
  OBVIOUS
<1>3. DeliverCmd(e, ev, d) \in Command
  BY DEF DeliverCmd
<1>4. PendCmd(e, ev, d, u) \in Command
  BY DEF PendCmd
<1>5. InterruptCmd(e, ev) \in Command
  <2>1. Target(e) \in Session
    BY DefAssumption DEF Target, EdgeDef
  <2> QED BY <2>1 DEF InterruptCmd
<1> QED BY <1>1, <1>2, <1>3, <1>4, <1>5

(* The shapes a decision can have.                                          *)
LEMMA DecideShape ==
  ASSUME NEW e, NEW ev, NEW c \in Decide(e, ev)
  PROVE  \/ c = RuleCmd("stopFor", e, ev)
         \/ c = RuleCmd("dropFiring", e, ev)
         \/ \E d \in BOOLEAN : /\ Def[e].deliver
                               /\ Matches(e, ev)
                               /\ c = DeliverCmd(e, ev, d)
         \/ \E d, u \in BOOLEAN : /\ ~Def[e].deliver
                                  /\ c = PendCmd(e, ev, d, u)
         \/ c = InterruptCmd(e, ev)
<1> DEFINE data == ev.sess \in Bundle \/ ev.kind \in {"issues", "clean"}
           parked == At(live.slots, e, 1) # {}
           sup == parked /\ Def[e].policy # "queue"
           busy == Busy(Target(e))
           pend == PendCmd(e, ev, data, sup)
           kill == InterruptCmd(e, ev)
<1>1. data \in BOOLEAN /\ sup \in BOOLEAN
  OBVIOUS
<1>2. CASE StopsOn(e, ev)
  BY <1>2 DEF Decide
<1>3. CASE ~StopsOn(e, ev) /\ ~Matches(e, ev)
  BY <1>3 DEF Decide
<1>4. CASE ~StopsOn(e, ev) /\ Matches(e, ev) /\ Def[e].deliver
  BY <1>1, <1>4 DEF Decide, DeliverCmd
<1>5. CASE ~StopsOn(e, ev) /\ Matches(e, ev) /\ ~Def[e].deliver
  <2>1. CASE Def[e].policy = "drop" /\ (busy \/ parked)
    BY <1>5, <2>1 DEF Decide, Parked
  <2>2. CASE ~(Def[e].policy = "drop" /\ (busy \/ parked))
    <3>1. Decide(e, ev) = {pend} \cup
            {kill : x \in {y \in {e} : Def[y].policy = "interrupt" /\ busy}}
      BY <1>5, <2>2 DEF Decide, Parked, PendCmd, InterruptCmd
    <3>2. c = pend \/ c = kill
      BY <3>1
    <3> QED BY <1>1, <1>5, <3>2
  <2> QED BY <2>1, <2>2
<1> QED BY <1>2, <1>3, <1>4, <1>5

(* The decisions on an event are commands.                                  *)
LEMMA DecisionsTyped ==
  ASSUME NEW ev \in Event, live.active \subseteq Edge
  PROVE  Decisions(ev) \subseteq Command
<1>1. ev.kind # "recover" => ev.sess \in Session
  BY DEF Event
<1>2. ASSUME NEW e \in live.active, ev.kind # "recover" PROVE Decide(e, ev) \subseteq Command
  <2>1. e \in Edge /\ Target(e) \in Session
    BY DefAssumption DEF Target, EdgeDef
  <2>2. ASSUME NEW c \in Decide(e, ev) PROVE c \in Command
    <3>1. \A d, u \in BOOLEAN : /\ RuleCmd("stopFor", e, ev) \in Command
                                /\ RuleCmd("dropFiring", e, ev) \in Command
                                /\ DeliverCmd(e, ev, d) \in Command
                                /\ PendCmd(e, ev, d, u) \in Command
                                /\ InterruptCmd(e, ev) \in Command
      BY <1>1, <1>2, <2>1, RuleCmdTyped
    <3>2. \/ c = RuleCmd("stopFor", e, ev)
          \/ c = RuleCmd("dropFiring", e, ev)
          \/ \E d \in BOOLEAN : c = DeliverCmd(e, ev, d)
          \/ \E d, u \in BOOLEAN : c = PendCmd(e, ev, d, u)
          \/ c = InterruptCmd(e, ev)
      BY <2>2, DecideShape, Zenon
    <3> QED BY <3>1, <3>2, Zenon
  <2> QED BY <2>2
<1>3. CASE ev.kind = "recover"
  BY <1>3 DEF Decisions
<1>4. CASE ev.kind = "killed"
  <2>1. Decisions(ev) = {[Cmd("stopKilled") EXCEPT !.sess = ev.sess, !.trig = ev.id, !.by = Chain]}
    BY <1>4 DEF Decisions
  <2>2. \A s \in Session :
          [Cmd("stopKilled") EXCEPT !.sess = s, !.trig = ev.id, !.by = Chain] \in Command
    BY DEF Cmd, Command, CmdKind, OnEdge, OnSession, EdgeRule, Event, Task, Chain, Human
  <2> QED BY <1>1, <1>4, <2>1, <2>2
<1>5. CASE ev.kind # "recover" /\ ev.kind # "killed"
  BY <1>2, <1>5 DEF Decisions
<1> QED BY <1>3, <1>4, <1>5

(* The command a drain dispatches for a slot.                               *)
LEMMA DrainCmdTyped ==
  ASSUME NEW p \in Task, NEW x \in Slot
  PROVE  DrainCmd(p, x) \in Command
<1> DEFINE Of3(kind) == [Cmd(kind) EXCEPT !.edge = x.edge, !.n = x.n, !.trig = x.trig, !.by = p]
<1>1. \A kind \in {"dropMissing", "dropDead", "execute"} : Of3(kind) \in Command
  BY DEF Cmd, Command, CmdKind, OnEdge, OnSession, EdgeRule, Human, Slot
<1>2. \E kind \in {"dropMissing", "dropDead", "execute"} : DrainCmd(p, x) = Of3(kind)
  BY DEF DrainCmd
<1> QED BY <1>1, <1>2

(* What a synchronous run of a task can do to the queue and to the task.    *)
Sent(t, u, c) == c \in t.todo /\ u = [t EXCEPT !.pc = "wait", !.todo = @ \ {c}]
Drained(t, u, x, S) ==
  /\ t.todo = {} /\ x \in Approved \cup t.slots /\ ~Skipped(x)
  /\ S \subseteq Approved \cup t.slots
  /\ u = [t EXCEPT !.pc = "wait", !.fresh = FALSE, !.slots = S]
Proceeds(p, t, u) ==
  \/ u = OffTask /\ cmdQ' = cmdQ
  \/ \E c : Sent(t, u, c) /\ cmdQ' = Append(cmdQ, c)
  \/ \E x, S : Drained(t, u, x, S) /\ cmdQ' = Append(cmdQ, DrainCmd(p, x))

LEMMA ProceedShape ==
  ASSUME NEW p, NEW t, Proceed(p, t)
  PROVE  \E u : task' = [task EXCEPT ![p] = u] /\ Proceeds(p, t, u)
<1> DEFINE S == IF t.fresh THEN {x \in live.slots : x.ok} ELSE t.slots
<1>1. S \subseteq Approved \cup t.slots
  BY DEF Approved
<1>2. CASE \E c \in t.todo : /\ cmdQ' = Append(cmdQ, c)
                             /\ task' = [task EXCEPT ![p] = [t EXCEPT !.pc = "wait", !.todo = @ \ {c}]]
  BY <1>2 DEF Proceeds, Sent
<1>3. CASE /\ t.todo = {}
           /\ \E x \in S :
                /\ ~Skipped(x)
                /\ cmdQ' = Append(cmdQ, DrainCmd(p, x))
                /\ task' = [task EXCEPT ![p] = [t EXCEPT !.pc = "wait", !.fresh = FALSE,
                                                 !.slots = {y \in S : Older(x, y)}]]
  <2>1. PICK x \in S : /\ ~Skipped(x)
                       /\ cmdQ' = Append(cmdQ, DrainCmd(p, x))
                       /\ task' = [task EXCEPT ![p] = [t EXCEPT !.pc = "wait", !.fresh = FALSE,
                                                        !.slots = {y \in S : Older(x, y)}]]
    BY <1>3
  <2> DEFINE R == {y \in S : Older(x, y)}
             u == [t EXCEPT !.pc = "wait", !.fresh = FALSE, !.slots = R]
  <2>2. Drained(t, u, x, R)
    BY <1>1, <1>3, <2>1 DEF Drained
  <2> QED BY <2>1, <2>2 DEF Proceeds
<1>4. CASE cmdQ' = cmdQ /\ task' = [task EXCEPT ![p] = OffTask]
  BY <1>4 DEF Proceeds
<1> QED BY <1>2, <1>3, <1>4 DEF Proceed, Approved

(* A synchronous run keeps the types, and the head of a queue that has one. *)
LEMMA ProceedTyped ==
  ASSUME NEW p \in Task, NEW t \in TaskState, Proceed(p, t),
         live.slots \subseteq Slot, cmdQ \in Seq(Command), task \in [Task -> TaskState]
  PROVE  /\ cmdQ' \in Seq(Command)
         /\ task' \in [Task -> TaskState]
         /\ cmdQ # <<>> => cmdQ' # <<>> /\ Head(cmdQ') = Head(cmdQ)
<1>1. PICK u : task' = [task EXCEPT ![p] = u] /\ Proceeds(p, t, u)
  BY ProceedShape
<1>2. t.todo \subseteq Command /\ t.slots \subseteq Slot
  BY DEF TaskState
<1>3. /\ u \in TaskState
      /\ cmdQ' = cmdQ \/ \E c \in Command : cmdQ' = Append(cmdQ, c)
  <2>1. CASE u = OffTask /\ cmdQ' = cmdQ
    BY <2>1 DEF TaskState, OffTask
  <2>2. CASE \E c : Sent(t, u, c) /\ cmdQ' = Append(cmdQ, c)
    <3>1. PICK c : Sent(t, u, c) /\ cmdQ' = Append(cmdQ, c)
      BY <2>2
    <3>2. u \in TaskState
      BY <3>1 DEF Sent, TaskState
    <3>3. c \in Command
      BY <1>2, <3>1 DEF Sent
    <3> QED BY <3>1, <3>2, <3>3
  <2>3. CASE \E x, S : Drained(t, u, x, S) /\ cmdQ' = Append(cmdQ, DrainCmd(p, x))
    <3>1. PICK x, S : Drained(t, u, x, S) /\ cmdQ' = Append(cmdQ, DrainCmd(p, x))
      BY <2>3
    <3>2. x \in Slot /\ S \subseteq Slot
      BY <1>2, <3>1 DEF Drained, Approved
    <3>3. u \in TaskState
      BY <3>1, <3>2 DEF Drained, TaskState
    <3>4. DrainCmd(p, x) \in Command
      BY <3>2, DrainCmdTyped
    <3> QED BY <3>1, <3>3, <3>4
  <2> QED BY <1>1, <2>1, <2>2, <2>3 DEF Proceeds
<1>4. task' \in [Task -> TaskState]
  BY <1>1, <1>3
<1>5. cmdQ' \in Seq(Command) /\ (cmdQ # <<>> => cmdQ' # <<>> /\ Head(cmdQ') = Head(cmdQ))
  BY <1>3
<1> QED BY <1>4, <1>5

(* However a command ends, it leaves the queue, and the queue and the tasks *)
(* keep their types.                                                        *)
Ends(c) == Completes(c) \/ Throws(c) \/ CompletesAndDrains
LEMMA EndsTyped ==
  ASSUME NEW c \in Command, Ends(c), cmdQ \in Seq(Command), cmdQ # <<>>,
         task \in [Task -> TaskState]
  PROVE  /\ cmdQ' = Tail(cmdQ) /\ cmdQ' \in Seq(Command)
         /\ open' = None
         /\ task' \in [Task -> TaskState]
<1>1. cmdQ' = Tail(cmdQ) /\ open' = None
  BY DEF Ends, Completes, Throws, CompletesAndDrains
<1>2. OffTask \in TaskState /\ FreshTask \in TaskState
  BY DEF TaskState, OffTask, FreshTask
<1>3. \A p \in Task : [task EXCEPT ![p].pc = "ready"] \in [Task -> TaskState]
  BY DEF TaskState
<1>4. \/ task' = task
      \/ \E p \in Task : \/ task' = [task EXCEPT ![p].pc = "ready"]
                         \/ task' = [task EXCEPT ![p] = OffTask]
                         \/ task' = [task EXCEPT ![p] = FreshTask]
  BY DEF Ends, Completes, Throws, CompletesAndDrains, Task
<1>5. task' \in [Task -> TaskState]
  BY <1>2, <1>3, <1>4
<1> QED BY <1>1, <1>5

------------------------------------------------------------------------------
(* Type correctness, one step for each action.                              *)

(* What holds of the head command when it begins.                           *)
LEMMA BeginsTyped ==
  ASSUME TypeOK, NEW kind, Begins(kind)
  PROVE  /\ Current \in Command /\ Current.kind = kind
         /\ kind \in OnEdge => Current.edge \in Edge
         /\ kind \in OnSession => Current.sess \in Session
         /\ cmdQ \in Seq(Command) /\ cmdQ # <<>> /\ task \in [Task -> TaskState]
<1>1. cmdQ \in Seq(Command) /\ cmdQ # <<>> /\ task \in [Task -> TaskState]
  BY DEF TypeOK, Begins
<1>2. Current \in Command /\ Current.kind = kind
  BY <1>1 DEF Begins, Current
<1> QED BY <1>1, <1>2 DEF Command

(* The updates of the runtime state.                                        *)
LEMMA LiveTyped ==
  ASSUME NEW L \in LiveState, NEW s \in Session, NEW e \in Edge
  PROVE  /\ \A S \in SUBSET Slot : [L EXCEPT !.slots = S] \in LiveState
         /\ \A st \in Status : [L EXCEPT !.status[s] = st] \in LiveState
         /\ [L EXCEPT !.firings[e] = @ + 1] \in LiveState
         /\ [L EXCEPT !.frozen = @ \cup {s}] \in LiveState
         /\ [L EXCEPT !.frozen = @ \ {s}] \in LiveState
<1>1. \A S \in SUBSET Slot : [L EXCEPT !.slots = S] \in LiveState
  BY DEF LiveState
<1>2. \A st \in Status : [L EXCEPT !.status[s] = st] \in LiveState
  BY DEF LiveState
<1>3. [L EXCEPT !.firings[e] = @ + 1] \in LiveState
  BY DEF LiveState
<1>4. [L EXCEPT !.frozen = @ \cup {s}] \in LiveState
  BY DEF LiveState
<1>5. [L EXCEPT !.frozen = @ \ {s}] \in LiveState
  BY DEF LiveState
<1> QED BY <1>1, <1>2, <1>3, <1>4, <1>5

(* What a step must keep besides the commands and the tasks.                *)
StateTyped ==
  /\ live \in LiveState /\ disk \in LiveState /\ kernel \in KernelState
  /\ proc \in [Session -> Nat] /\ ctx \in [Session -> Nat]
  /\ doomed \subseteq Session /\ bridge \in BOOLEAN
  /\ nrun \in Nat /\ nev \in Nat /\ schedQ \in Seq(Event)
  /\ left \in Budget /\ hist \in History

(* A command that ends keeps the type invariant if it keeps the state's.    *)
LEMMA EndsKeepsTypeOK ==
  ASSUME TypeOK, cmdQ # <<>>, Ends(Current), StateTyped'
  PROVE  TypeOK'
<1>1. cmdQ \in Seq(Command) /\ Current \in Command /\ task \in [Task -> TaskState]
  BY DEF TypeOK, Current
<1> QED BY <1>1, EndsTyped DEF TypeOK, StateTyped

LEMMA TypePend ==
  ASSUME TypeOK, Pend
  PROVE  TypeOK'
<1> DEFINE c == Current
           e == c.edge
           gone == c.sup /\ At(live.slots, e, 1) # {}
           S == IF gone THEN live.slots \ At(live.slots, e, 1) ELSE live.slots
           k == IF gone THEN ClosedFact(kernel, e, 1) ELSE kernel
           new(n) == [edge |-> e, n |-> n, trig |-> c.trig, data |-> c.data, ok |-> Def[e].auto]
<1>1. Begins("pend")
  BY DEF Pend
<1>2. c \in Command /\ e \in Edge /\ cmdQ # <<>>
  BY <1>1, BeginsTyped DEF OnEdge, EdgeRule
<1>3. live \in LiveState /\ kernel \in KernelState /\ live.slots \subseteq Slot
  BY DEF TypeOK, LiveState
<1>4. S \subseteq Slot /\ k \in KernelState
  <2>1. PICK s : s \in Session
    BY <1>2, DefAssumption DEF EdgeDef
  <2> QED BY <1>2, <1>3, <2>1, KeyFactsTyped
<1> HIDE DEF S, k
<1>5. PICK n \in 1 .. Cardinality(Of(S, e)) + 1 :
        /\ Write([live EXCEPT !.slots = (S \ At(S, e, n)) \cup {new(n)}])
        /\ kernel' = IF Def[e].auto
                     THEN ApprovedFact(PendingFact(k, e, n, c.trig), e, n)
                     ELSE PendingFact(k, e, n, c.trig)
        /\ hist' = [hist EXCEPT !.lost = @ \cup {<<e, x.trig>> : x \in At(S, e, n)}]
        /\ Completes(c)
  BY Zenon DEF Pend, Park, S, k
<1> n \in Nat \ {0}
  OBVIOUS
<1>6. new(n) \in Slot
  BY <1>2, DefAssumption DEF Slot, EdgeDef, Command
<1>7. live' \in LiveState /\ disk' \in LiveState
  <2> DEFINE T == (S \ At(S, e, n)) \cup {new(n)}
  <2>1. T \in SUBSET Slot
    BY <1>4, <1>6
  <2>2. live' = [live EXCEPT !.slots = T] /\ disk' = live'
    BY <1>5 DEF Write
  <2> HIDE DEF T
  <2> QED BY <1>3, <2>1, <2>2 DEF LiveState
<1>8. kernel' \in KernelState
  <2>1. c.trig \in Nat
    BY <1>2 DEF Command
  <2>2. PICK s : s \in Session
    BY <1>2, DefAssumption DEF EdgeDef
  <2>3. PendingFact(k, e, n, c.trig) \in KernelState
    BY <1>2, <1>4, <2>1, <2>2, FactsTyped
  <2>4. ApprovedFact(PendingFact(k, e, n, c.trig), e, n) \in KernelState
    BY <1>2, <2>2, <2>3, KeyFactsTyped
  <2> QED BY <1>5, <2>3, <2>4
<1>9. hist' \in History
  <2>1. {<<e, x.trig>> : x \in At(S, e, n)} \subseteq Edge \X Nat
    BY <1>2, <1>4 DEF At, Slot
  <2>2. hist \in History
    BY DEF TypeOK
  <2> QED BY <1>5, <2>1, <2>2 DEF History
<1>10. UNCHANGED <<nev, schedQ, providers, left>>
  BY DEF Pend, Quiet, Rest
<1>11. StateTyped'
  BY <1>7, <1>8, <1>9, <1>10 DEF StateTyped, TypeOK, providers
<1> QED BY <1>2, <1>5, <1>11, EndsKeepsTypeOK DEF Ends

(* A person's decision on a slot, and a drop.                               *)
LEMMA TypeSlots ==
  ASSUME TypeOK, Approve \/ Deny \/ \E kind \in {"dropMissing", "dropDead"} : Drop(kind)
  PROVE  TypeOK'
<1> DEFINE c == Current
           mine == At(live.slots, c.edge, c.n)
<1>1. PICK kind \in {"approve", "deny", "dropMissing", "dropDead"} : Begins(kind)
  BY DEF Approve, Deny, Drop
<1>2. c \in Command /\ c.edge \in Edge /\ cmdQ # <<>>
  BY <1>1, BeginsTyped DEF OnEdge, EdgeRule
<1>3. live \in LiveState /\ kernel \in KernelState /\ live.slots \subseteq Slot /\ hist \in History
  BY DEF TypeOK, LiveState
<1>4. PICK s : s \in Session
  BY <1>2, DefAssumption DEF EdgeDef
<1>5. CASE NoChange /\ UNCHANGED <<providers, left, hist>> /\ Throws(c)
  <2>1. StateTyped'
    BY <1>5 DEF NoChange, StateTyped, TypeOK, providers
  <2> QED BY <1>2, <1>5, <2>1, EndsKeepsTypeOK DEF Ends
<1>6. CASE /\ \E T \in SUBSET Slot : Write([live EXCEPT !.slots = T])
           /\ \/ kernel' = kernel
              \/ kernel' = ApprovedFact(kernel, c.edge, c.n)
              \/ kernel' = ClosedFact(kernel, c.edge, c.n)
           /\ \/ hist' = hist
              \/ hist' = [hist EXCEPT !.granted = @ \cup {<<x.edge, x.trig>> : x \in mine}]
           /\ UNCHANGED <<providers, left, nev, schedQ>>
           /\ Completes(c) \/ CompletesAndDrains
  <2>1. live' \in LiveState /\ disk' \in LiveState
    BY <1>3, <1>6 DEF Write, LiveState
  <2>2. kernel' \in KernelState
    BY <1>2, <1>3, <1>4, <1>6, KeyFactsTyped
  <2>3. hist' \in History
    <3>1. {<<x.edge, x.trig>> : x \in mine} \subseteq Edge \X Nat
      BY <1>3 DEF At, Slot
    <3> HIDE DEF mine
    <3> QED BY <1>3, <1>6, <3>1 DEF History
  <2>4. StateTyped'
    BY <1>6, <2>1, <2>2, <2>3 DEF StateTyped, TypeOK, providers
  <2> QED BY <1>2, <1>6, <2>4, EndsKeepsTypeOK DEF Ends
<1>7. CASE Approve
  <2> DEFINE T == (live.slots \ mine) \cup {[x EXCEPT !.ok = TRUE] : x \in mine}
  <2>1. T \in SUBSET Slot
    BY <1>3 DEF At, Slot
  <2>2. CASE mine = {}
    BY <1>5, <1>7, <2>2 DEF Approve, Rest
  <2>3. CASE mine # {}
    <3>1. Write([live EXCEPT !.slots = T])
      BY <1>7, <2>3 DEF Approve
    <3> HIDE DEF T
    <3> QED BY <1>6, <1>7, <2>1, <2>3, <3>1 DEF Approve, Rest, Quiet
  <2> QED BY <2>2, <2>3
<1>8. CASE Deny
  <2>1. live.slots \ mine \in SUBSET Slot
    BY <1>3
  <2>2. CASE mine = {}
    BY <1>5, <1>8, <2>2 DEF Deny, Rest
  <2>3. CASE mine # {}
    BY <1>6, <1>8, <2>1, <2>3 DEF Deny, Rest, Quiet
  <2> QED BY <2>2, <2>3
<1>9. CASE \E k \in {"dropMissing", "dropDead"} : Drop(k)
  <2>1. live.slots \ mine \in SUBSET Slot
    BY <1>3
  <2> QED BY <1>6, <1>9, <2>1 DEF Drop, Rest, Quiet
<1> QED BY <1>7, <1>8, <1>9

(* The commands that stop edges.                                            *)
LEMMA TypeStops ==
  ASSUME TypeOK, DropFiring \/ Stop \/ StopFor \/ StopKilled
  PROVE  TypeOK'
<1>1. PICK kind \in {"dropFiring", "stop", "stopFor", "stopKilled"} : Begins(kind)
  BY DEF DropFiring, Stop, StopFor, StopKilled
<1>2. Current \in Command /\ cmdQ # <<>> /\ (kind # "stopKilled" => Current.edge \in Edge)
  BY <1>1, BeginsTyped DEF OnEdge, EdgeRule
<1>3. live \in LiveState /\ kernel \in KernelState
  BY DEF TypeOK
<1>4. live.active \subseteq Edge
  BY <1>3 DEF LiveState
<1>5. /\ UNCHANGED <<nev, schedQ, providers, left, hist>>
      /\ Completes(Current)
  BY DEF DropFiring, Stop, StopFor, StopKilled, Quiet, Rest
<1>6. \/ Write(live) /\ kernel' = kernel
      \/ \E E \in SUBSET Edge : Write(StopEdges(live, E)) /\ kernel' = StopEdgeFacts(kernel, E)
      \/ \E e \in Edge : Write(StopWithOnStop(live, e)) /\ kernel' = StopWithOnStopFacts(kernel, e)
  <2>1. CASE DropFiring
    BY <2>1 DEF DropFiring
  <2>2. CASE Stop
    <3>1. {Current.edge} \cap live.active \in SUBSET Edge
      BY <1>4
    <3> QED BY <2>2, <3>1 DEF Stop
  <2>3. CASE StopFor
    BY <1>4, <2>3 DEF StopFor
  <2>4. CASE StopKilled
    <3>1. {e \in live.active : Participates(e, Current.sess)} \in SUBSET Edge
      BY <1>4
    <3> QED BY <2>4, <3>1 DEF StopKilled
  <2> QED BY <2>1, <2>2, <2>3, <2>4
<1>7. live' \in LiveState /\ disk' \in LiveState /\ kernel' \in KernelState
  BY <1>3, <1>6, StopTyped, StopWithOnStopTyped, StopFactsTyped DEF Write
<1>8. StateTyped'
  BY <1>5, <1>7 DEF StateTyped, TypeOK, providers
<1> QED BY <1>2, <1>5, <1>8, EndsKeepsTypeOK DEF Ends

LEMMA TypeDeliverFor ==
  ASSUME TypeOK, DeliverFor
  PROVE  TypeOK'
<1> DEFINE c == Current
           e == c.edge
           L == [live EXCEPT !.firings[e] = @ + 1]
           k == DeliveredFact(kernel, e, TRUE)
           M == IF AtCap(L, e) THEN StopWithOnStop(L, e) ELSE L
<1>1. Begins("deliverFor")
  BY DEF DeliverFor
<1>2. c \in Command /\ e \in Edge /\ cmdQ # <<>>
  BY <1>1, BeginsTyped DEF OnEdge, EdgeRule
<1>3. live \in LiveState /\ kernel \in KernelState /\ hist \in History
  BY DEF TypeOK
<1>4. PICK s : s \in Session
  BY <1>2, DefAssumption DEF EdgeDef
<1>5. Ends(c) /\ UNCHANGED <<providers, left>>
  BY DEF DeliverFor, Ends, Rest
<1>6. CASE e \notin live.active
  <2>1. live' = live /\ disk' = live /\ UNCHANGED <<kernel, nev, schedQ, hist>>
    BY <1>6 DEF DeliverFor, Write, Quiet
  <2>2. StateTyped'
    BY <1>5, <2>1 DEF StateTyped, TypeOK, providers
  <2> QED BY <1>2, <1>5, <2>2, EndsKeepsTypeOK
<1>7. CASE e \in live.active /\ ~c.data
  <2>1. UNCHANGED <<live, disk, kernel, nev, schedQ, hist>>
    BY <1>7 DEF DeliverFor, NoChange
  <2>2. StateTyped'
    BY <1>5, <2>1 DEF StateTyped, TypeOK, providers
  <2> QED BY <1>2, <1>5, <2>2, EndsKeepsTypeOK
<1>8. CASE e \in live.active /\ c.data
  <2>1. L \in LiveState /\ k \in KernelState
    BY <1>2, <1>3, <1>4, LiveTyped, KeyFactsTyped
  <2>2. M \in LiveState /\ StopWithOnStopFacts(k, e) \in KernelState
    BY <1>2, <2>1, StopWithOnStopTyped, StopFactsTyped
  <2> HIDE DEF L, k
  <2>3. /\ Write(M)
        /\ kernel' = IF AtCap(L, e) THEN StopWithOnStopFacts(k, e) ELSE k
        /\ Publish(M, "delivered", c.sess)
        /\ hist' = [hist EXCEPT !.fired = @ \cup {<<e, c.trig>>}]
    BY <1>8, Zenon DEF DeliverFor, L, k
  <2>4. live' \in LiveState /\ disk' \in LiveState /\ kernel' \in KernelState
    BY <2>1, <2>2, <2>3 DEF Write
  <2>5. hist' \in History
    BY <1>2, <1>3, <2>3 DEF History, Command
  <2>6. nev' \in Nat /\ schedQ' \in Seq(Event)
    <3>1. c.sess \in Session
      BY <1>1, <1>2, BeginsTyped DEF OnSession
    <3> QED BY <2>3, <3>1, PublishTyped DEF EventKind, TypeOK
  <2>7. StateTyped'
    BY <1>5, <2>4, <2>5, <2>6 DEF StateTyped, TypeOK, providers
  <2> QED BY <1>2, <1>5, <2>7, EndsKeepsTypeOK
<1> QED BY <1>6, <1>7, <1>8

(* Freezing, killing, reporting and completing.                             *)
LEMMA TypeSessions ==
  ASSUME TypeOK,
         Freeze \/ Unfreeze \/ Kill \/ Report("issues") \/ Report("clean") \/ Complete
  PROVE  TypeOK'
<1> DEFINE s == Current.sess
<1>1. PICK kind \in {"freeze", "unfreeze", "kill", "issues", "clean", "complete"} : Begins(kind)
  BY DEF Freeze, Unfreeze, Kill, Report, Complete
<1>2. Current \in Command /\ cmdQ # <<>> /\ s \in Session
  BY <1>1, BeginsTyped DEF OnSession
<1>3. /\ live \in LiveState /\ kernel \in KernelState /\ hist \in History
      /\ disk \in LiveState /\ proc \in [Session -> Nat] /\ ctx \in [Session -> Nat]
      /\ doomed \subseteq Session /\ bridge \in BOOLEAN /\ nrun \in Nat /\ left \in Budget
      /\ nev \in Nat /\ schedQ \in Seq(Event)
  BY DEF TypeOK
<1>4. Ends(Current) /\ UNCHANGED <<proc, bridge, nrun, left, hist>>
  BY DEF Freeze, Unfreeze, Kill, Report, Complete, Ends, Rest, providers
<1>5. SUFFICES /\ live' \in LiveState /\ disk' \in LiveState /\ kernel' \in KernelState
               /\ ctx' \in [Session -> Nat] /\ doomed' \subseteq Session
               /\ nev' \in Nat /\ schedQ' \in Seq(Event)
  <2>1. ASSUME live' \in LiveState, disk' \in LiveState, kernel' \in KernelState,
               ctx' \in [Session -> Nat], doomed' \subseteq Session,
               nev' \in Nat, schedQ' \in Seq(Event)
        PROVE  StateTyped'
    BY <1>3, <1>4, <2>1 DEF StateTyped
  <2> QED BY <1>2, <1>4, <2>1, EndsKeepsTypeOK
<1>6. \A st \in Status : /\ [live EXCEPT !.status[s] = st] \in LiveState
                         /\ SessionFact(kernel, s, st) \in KernelState
  BY <1>2, <1>3 DEF LiveState, SessionFact, KernelState
<1>7. [ctx EXCEPT ![s] = 0] \in [Session -> Nat]
  BY <1>3
<1>8. \A L : \A kind2 \in EventKind :
        Publish(L, kind2, s) => nev' \in Nat /\ schedQ' \in Seq(Event)
  BY <1>2, <1>3, PublishTyped
<1>9. CASE Freeze
  <2>1. [live EXCEPT !.frozen = @ \cup {s}] \in LiveState /\ FreezeFact(kernel, s) \in KernelState
    BY <1>2, <1>3 DEF LiveState, FreezeFact, KernelState
  <2> QED BY <1>3, <1>9, <2>1 DEF Freeze, Write, Quiet, Rest, providers
<1>10. CASE Unfreeze
  <2>1. [live EXCEPT !.frozen = @ \ {s}] \in LiveState /\ LiftFact(kernel, s) \in KernelState
    BY <1>2, <1>3 DEF LiveState, LiftFact, KernelState
  <2> QED BY <1>3, <1>10, <2>1 DEF Unfreeze, Write, Quiet, Rest, providers
<1>11. CASE Kill
  <2>1. CASE proc[s] = 0
    BY <1>3, <1>11, <2>1 DEF Kill, Write, Quiet
  <2>2. CASE proc[s] # 0
    <3>1. /\ live' = [live EXCEPT !.status[s] = "killed"] /\ disk' = live'
          /\ kernel' = SessionFact(kernel, s, "killed")
          /\ doomed' = doomed \cup {s} /\ ctx' = ctx
          /\ Publish([live EXCEPT !.status[s] = "killed"], "killed", s)
      BY <1>11, <2>2 DEF Kill, Write
    <3>2. "killed" \in Status /\ "killed" \in EventKind
      BY DEF Status, EventKind
    <3>3. live' \in LiveState /\ disk' \in LiveState /\ kernel' \in KernelState
      BY <1>6, <3>1, <3>2
    <3>4. nev' \in Nat /\ schedQ' \in Seq(Event)
      BY <1>8, <3>1, <3>2
    <3> QED BY <1>2, <1>3, <3>1, <3>3, <3>4
  <2> QED BY <2>1, <2>2
<1>12. CASE Report("issues") \/ Report("clean")
  <2>1. "issues" \in EventKind /\ "clean" \in EventKind
    BY DEF EventKind
  <2>2. nev' \in Nat /\ schedQ' \in Seq(Event)
    BY <1>8, <1>12, <2>1 DEF Report
  <2> QED BY <1>3, <1>12, <2>2 DEF Report, Write, Rest, providers
<1>13. CASE Complete
  <2>1. PICK st \in {"idle", "failed"}, kind2 \in {"finished", "failed"} :
          /\ live' = [live EXCEPT !.status[s] = st] /\ disk' = live'
          /\ kernel' = SessionFact(kernel, s, st)
          /\ ctx' = [ctx EXCEPT ![s] = 0] /\ doomed' = doomed
          /\ Publish([live EXCEPT !.status[s] = st], kind2, s)
    <3>1. CASE Current.n # 0 /\ ctx[s] = Current.n
      BY <1>13, <3>1 DEF Complete, Write
    <3>2. CASE ~(Current.n # 0 /\ ctx[s] = Current.n)
      BY <1>13, <3>2 DEF Complete, FailSession, Write
    <3> QED BY <3>1, <3>2
  <2>2. st \in Status /\ kind2 \in EventKind
    BY DEF Status, EventKind
  <2>3. live' \in LiveState /\ disk' \in LiveState /\ kernel' \in KernelState
    BY <1>6, <2>1, <2>2
  <2>4. nev' \in Nat /\ schedQ' \in Seq(Event)
    BY <1>8, <2>1, <2>2
  <2> QED BY <1>3, <1>7, <2>1, <2>3, <2>4
<1> QED BY <1>9, <1>10, <1>11, <1>12, <1>13

(* A command that opens keeps its place at the head of the queue.           *)
LEMMA TypeOpens ==
  ASSUME TypeOK, NEW slot \in Slot \cup {None}, NEW L \in LiveState, NEW io \in BOOLEAN,
         cmdQ # <<>>, Opens(slot, io, L),
         Current.kind \in {"execute", "activate", "workflow"},
         Current.kind = "execute" => slot \in Slot
  PROVE  TypeOK'
<1>1. open' = [saved |-> live, io |-> io, slot |-> slot] /\ live' = L
      /\ UNCHANGED <<disk, kernel, providers, nev, schedQ, task, cmdQ, done, left, hist>>
  BY DEF Opens
<1>2. open' \in OpenState /\ open'.slot = slot
  BY <1>1 DEF OpenState, TypeOK
<1> QED BY <1>1, <1>2 DEF TypeOK, Current, providers

LEMMA TypeBegins ==
  ASSUME TypeOK, ExecuteBegin \/ ActivateBegin \/ WorkflowBegin \/ Replay
  PROVE  TypeOK'
<1>1. live \in LiveState /\ bridge \in BOOLEAN /\ cmdQ \in Seq(Command)
  BY DEF TypeOK
<1>2. CASE /\ UNCHANGED <<kernel, nev, schedQ, providers, left, hist>>
           /\ live' = live /\ disk' \in {disk, live}
           /\ cmdQ # <<>> /\ Ends(Current)
  <2>1. StateTyped'
    BY <1>2 DEF StateTyped, TypeOK, providers
  <2> QED BY <1>2, <2>1, EndsKeepsTypeOK
<1>3. CASE ExecuteBegin
  <2> DEFINE s == Target(Current.edge)
             mine == At(live.slots, Current.edge, Current.n)
  <2>1. Begins("execute")
    BY <1>3 DEF ExecuteBegin
  <2>2. Current \in Command /\ cmdQ # <<>> /\ Current.kind = "execute" /\ Current.edge \in Edge
    BY <2>1, BeginsTyped DEF OnEdge, EdgeRule
  <2>3. CASE mine = {}
    BY <1>2, <1>3, <2>2, <2>3 DEF ExecuteBegin, Write, Quiet, Rest, Ends
  <2>4. CASE mine # {} /\ proc[s] # 0
    BY <1>2, <1>3, <2>2, <2>4 DEF ExecuteBegin, NoChange, Rest, Ends
  <2>5. CASE mine # {} /\ proc[s] = 0
    <3>1. PICK x \in mine :
            Opens(x, ~bridge, [live EXCEPT !.slots = @ \ mine, !.status[s] = "pending"])
      BY <1>3, <2>5 DEF ExecuteBegin
    <3>2. x \in Slot /\ s \in Session
      BY <1>1, <2>2, DefAssumption DEF At, LiveState, Target, EdgeDef
    <3>3. [live EXCEPT !.slots = @ \ mine, !.status[s] = "pending"] \in LiveState
      BY <1>1, <3>2 DEF LiveState, Status
    <3> QED BY <1>1, <2>2, <3>1, <3>2, <3>3, TypeOpens
  <2> QED BY <2>3, <2>4, <2>5
<1>4. CASE ActivateBegin
  <2> DEFINE s == Current.sess
  <2>1. Begins("activate")
    BY <1>4 DEF ActivateBegin
  <2>2. Current \in Command /\ cmdQ # <<>> /\ Current.kind = "activate" /\ s \in Session
    BY <2>1, BeginsTyped DEF OnSession
  <2>3. CASE Throws(Current) /\ NoChange /\ Rest /\ UNCHANGED hist
    BY <1>2, <2>2, <2>3 DEF NoChange, Rest, Ends
  <2>4. CASE Opens(None, ~bridge, [live EXCEPT !.status[s] = "pending"])
    <3>1. [live EXCEPT !.status[s] = "pending"] \in LiveState
      BY <1>1, <2>2 DEF LiveState, Status
    <3> QED BY <1>1, <2>2, <2>4, <3>1, TypeOpens
  <2> QED BY <1>4, <2>3, <2>4 DEF ActivateBegin
<1>5. CASE WorkflowBegin
  <2>1. Begins("workflow") /\ Opens(None, TRUE, live)
    BY <1>5 DEF WorkflowBegin
  <2>2. cmdQ # <<>> /\ Current.kind = "workflow"
    BY <2>1 DEF Begins
  <2> QED BY <1>1, <2>1, <2>2, TypeOpens
<1>6. CASE Replay
  BY <1>2, <1>6 DEF Replay, NoChange, Rest, Ends
<1> QED BY <1>3, <1>4, <1>5, <1>6

(* An open command ends.                                                    *)
LEMMA TypeEnds ==
  ASSUME TypeOK, ExecuteEnd \/ ActivateEnd \/ WorkflowEnd \/ Abort
  PROVE  TypeOK'
<1>1. open # None /\ cmdQ # <<>> /\ open \in OpenState /\ Ends(Current)
  BY DEF ExecuteEnd, ActivateEnd, WorkflowEnd, Abort, Ends, TypeOK
<1>2. /\ live \in LiveState /\ disk \in LiveState /\ kernel \in KernelState
      /\ proc \in [Session -> Nat] /\ ctx \in [Session -> Nat]
      /\ doomed \subseteq Session /\ bridge \in BOOLEAN /\ nrun \in Nat /\ left \in Budget
      /\ nev \in Nat /\ schedQ \in Seq(Event) /\ hist \in History
      /\ Current \in Command
  BY <1>1 DEF TypeOK, Current
<1>3. SUFFICES StateTyped'
  BY <1>1, EndsKeepsTypeOK
<1>4. \A s : s \in Session /\ Launched(s) =>
        /\ proc' \in [Session -> Nat] /\ ctx' \in [Session -> Nat]
        /\ doomed' \subseteq Session /\ bridge' \in BOOLEAN /\ nrun' \in Nat
  BY <1>2 DEF Launched
<1>5. CASE ExecuteEnd
  <2> DEFINE c == Current
             e == c.edge
             s == Target(e)
             L == [live EXCEPT !.status[s] = "running", !.firings[e] = @ + 1]
             d == IF open.slot.data THEN DeliveredFact(kernel, e, Def[e].deliver) ELSE kernel
             k == FiredFact(d, e, c.n, s)
             M == IF AtCap(L, e) THEN StopWithOnStop(L, e) ELSE L
  <2>1. e \in Edge /\ s \in Session /\ Source(e) \in Session /\ Def[e].deliver \in BOOLEAN
    <3>1. e \in Edge
      BY <1>2, <1>5 DEF ExecuteEnd, Command, OnEdge, EdgeRule
    <3> QED BY <3>1, DefAssumption DEF Target, Source, EdgeDef
  <2>2. open.slot \in Slot
    BY <1>1, <1>5 DEF ExecuteEnd, TypeOK
  <2>3. L \in LiveState
    <3>1. live.firings[e] + 1 \in Nat /\ "running" \in Status
      BY <1>2, <2>1 DEF LiveState, Status
    <3>2. [live.firings EXCEPT ![e] = @ + 1] \in [Edge -> Nat]
      BY <1>2, <2>1, <3>1 DEF LiveState
    <3>3. [live.status EXCEPT ![s] = "running"] \in [Session -> Status]
      BY <1>2, <2>1, <3>1 DEF LiveState
    <3> QED BY <1>2, <3>2, <3>3 DEF LiveState
  <2>4. d \in KernelState
    BY <1>2, <2>1, KeyFactsTyped
  <2>5. k \in KernelState
    <3> HIDE DEF d
    <3> QED BY <2>1, <2>4, KeyFactsTyped
  <2>6. M \in LiveState /\ StopWithOnStopFacts(k, e) \in KernelState
    <3> HIDE DEF L, k
    <3> QED BY <2>1, <2>3, <2>5, StopWithOnStopTyped, StopFactsTyped
  <2>7. /\ Write(M)
        /\ kernel' = IF AtCap(L, e) THEN StopWithOnStopFacts(k, e) ELSE k
        /\ IF open.slot.data THEN Publish(M, "delivered", Source(e)) ELSE Quiet
        /\ Launched(s)
        /\ hist' = [hist EXCEPT !.fired = @ \cup {<<e, open.slot.trig>>}]
        /\ left' = left
    BY <1>5, Zenon DEF ExecuteEnd
  <2> HIDE DEF L, d, k, M
  <2>8. live' \in LiveState /\ disk' \in LiveState /\ kernel' \in KernelState
    BY <2>5, <2>6, <2>7 DEF Write
  <2>9. nev' \in Nat /\ schedQ' \in Seq(Event)
    <3>1. CASE open.slot.data
      BY <1>2, <2>1, <2>7, <3>1, PublishTyped DEF EventKind
    <3>2. CASE ~open.slot.data
      BY <1>2, <2>7, <3>2 DEF Quiet
    <3> QED BY <3>1, <3>2
  <2>10. hist' \in History
    <3>1. <<e, open.slot.trig>> \in Edge \X Nat
      BY <2>1, <2>2 DEF Slot
    <3> QED BY <1>2, <2>7, <3>1 DEF History
  <2>11. /\ proc' \in [Session -> Nat] /\ ctx' \in [Session -> Nat]
         /\ doomed' \subseteq Session /\ bridge' \in BOOLEAN /\ nrun' \in Nat
    BY <1>4, <2>1, <2>7
  <2>12. left' \in Budget
    BY <1>2, <2>7
  <2> QED BY <2>8, <2>9, <2>10, <2>11, <2>12 DEF StateTyped
<1>6. CASE ActivateEnd
  <2> DEFINE s == Current.sess
  <2>1. s \in Session
    BY <1>2, <1>6 DEF ActivateEnd, Command, OnSession
  <2>2. [live EXCEPT !.status[s] = "running"] \in LiveState
    BY <1>2, <2>1 DEF LiveState, Status
  <2>3. ActivatedFact(kernel, s) \in KernelState
    BY <1>2, <2>1 DEF ActivatedFact, KernelState, Status
  <2>4. live' \in LiveState /\ disk' \in LiveState /\ kernel' \in KernelState
    BY <1>6, <2>2, <2>3 DEF ActivateEnd, Write
  <2>5. UNCHANGED <<nev, schedQ, left, hist>> /\ Launched(s)
    BY <1>6 DEF ActivateEnd, Quiet
  <2> QED BY <1>2, <1>4, <2>1, <2>4, <2>5 DEF StateTyped
<1>7. CASE WorkflowEnd
  BY <1>2, <1>7 DEF WorkflowEnd, Write, Quiet, StateTyped, providers
<1>8. CASE Abort
  <2>1. open.saved \in LiveState
    BY <1>1 DEF OpenState
  <2>2. left' \in Budget /\ bridge' \in BOOLEAN
    <3>1. left' = [left EXCEPT !.abort = @ - 1] /\ left.abort > 0
      BY <1>8 DEF Abort
    <3>2. bridge' \in BOOLEAN
      BY <1>8, Zenon DEF Abort
    <3>3. left' \in Budget
      <4>1. left.abort - 1 \in Nat
        BY <1>2, <3>1 DEF Budget
      <4> QED BY <1>2, <3>1, <4>1 DEF Budget
    <3> QED BY <3>2, <3>3
  <2>3. live' = open.saved /\ UNCHANGED <<disk, kernel, proc, ctx, doomed, nrun, hist, nev, schedQ>>
    BY <1>8 DEF Abort, Quiet
  <2> QED BY <1>2, <2>1, <2>2, <2>3 DEF StateTyped
<1> QED BY <1>5, <1>6, <1>7, <1>8

LEMMA TypeTasks ==
  ASSUME TypeOK, TakeEvent \/ \E p \in Task : Resume(p)
  PROVE  TypeOK'
<1>1. /\ schedQ \in Seq(Event) /\ live.slots \subseteq Slot /\ live.active \subseteq Edge
      /\ cmdQ \in Seq(Command) /\ task \in [Task -> TaskState]
  BY DEF TypeOK, LiveState
<1>2. schedQ' \in Seq(Event) /\ TaskUnchanged
      /\ \E p \in Task, t \in TaskState : Proceed(p, t)
  <2>1. CASE TakeEvent
    <3>1. Head(schedQ) \in Event /\ Tail(schedQ) \in Seq(Event)
      BY <1>1, <2>1 DEF TakeEvent
    <3>2. Decisions(Head(schedQ)) \subseteq Command
      BY <1>1, <3>1, DecisionsTyped
    <3>3. [FreshTask EXCEPT !.todo = Decisions(Head(schedQ))] \in TaskState
      BY <3>2 DEF FreshTask, TaskState
    <3>4. Chain \in Task
      BY DEF Task
    <3> QED BY <2>1, <3>1, <3>3, <3>4 DEF TakeEvent
  <2>2. CASE \E p \in Task : Resume(p)
    <3>1. PICK p \in Task : Resume(p)
      BY <2>2
    <3>2. task[p] \in TaskState
      BY <1>1
    <3> QED BY <1>1, <3>1, <3>2 DEF Resume
  <2> QED BY <2>1, <2>2
<1>3. /\ cmdQ' \in Seq(Command) /\ task' \in [Task -> TaskState]
      /\ cmdQ # <<>> => cmdQ' # <<>> /\ Head(cmdQ') = Head(cmdQ)
  BY <1>1, <1>2, ProceedTyped
<1> QED BY <1>2, <1>3 DEF TypeOK, TaskUnchanged, Current, providers

(* A command that is sent goes to the end of the queue.                     *)
LEMMA AppendTyped ==
  ASSUME NEW q \in Seq(Command), NEW c \in Command
  PROVE  /\ Append(q, c) \in Seq(Command) /\ Append(q, c) # <<>>
         /\ q # <<>> => Head(Append(q, c)) = Head(q)
<1>1. Append(q, c) \in Seq(Command)
  OBVIOUS
<1>2. Append(q, c) # <<>>
  <2>1. Len(Append(q, c)) = Len(q) + 1 /\ Len(q) \in Nat
    OBVIOUS
  <2>2. Len(<<>>) = 0
    OBVIOUS
  <2> QED BY <2>1, <2>2
<1>3. ASSUME q # <<>> PROVE Head(Append(q, c)) = Head(q)
  BY <1>3
<1> QED BY <1>1, <1>2, <1>3

LEMMA TypeSends ==
  ASSUME TypeOK, NEW c \in Command, Sends(c), left' \in Budget
  PROVE  TypeOK'
<1>1. /\ cmdQ' \in Seq(Command) /\ cmdQ' # <<>>
      /\ cmdQ # <<>> => Head(cmdQ') = Head(cmdQ)
  BY AppendTyped DEF TypeOK, Sends
<1>2. UNCHANGED <<live, disk, kernel, providers, nev, schedQ, task, open, hist>>
  BY DEF Sends
<1> QED BY <1>1, <1>2 DEF TypeOK, Current, providers

(* People and agents send commands of their own, never one of the rules.    *)
Asked(c) == /\ c \in Command /\ c.kind \notin EdgeRule
            /\ c.by = Human /\ c.kind \in HumanKind \cup {"issues", "clean"}
LEMMA SendersSend ==
  ASSUME TypeOK, HumanSends \/ \E s \in Session : AgentReports(s)
  PROVE  \E c \in Command : Sends(c) /\ Asked(c)
<1>1. live.slots \subseteq Slot /\ live.active \subseteq Edge
  BY DEF TypeOK, LiveState
<1>2. ASSUME NEW c \in Command, c.by = Human, c.kind \in HumanKind \cup {"issues", "clean"}
      PROVE  Asked(c)
  BY <1>2, InputAssumption DEF Asked, HumanCommand, EdgeRule
<1>3. CASE HumanSends
  <2>1. ASSUME NEW kind \in HumanKind \cap {"approve", "deny"}, NEW x \in live.slots
        PROVE  Asked([Cmd(kind) EXCEPT !.edge = x.edge, !.n = x.n])
    <3>1. [Cmd(kind) EXCEPT !.edge = x.edge, !.n = x.n] \in Command
      BY <1>1 DEF Slot, Cmd, Command, CmdKind, OnEdge, OnSession, EdgeRule
    <3> QED BY <1>2, <3>1 DEF Cmd
  <2>2. ASSUME NEW kind \in HumanKind \cap {"stop"}, NEW e \in live.active
        PROVE  Asked([Cmd(kind) EXCEPT !.edge = e])
    <3>1. [Cmd(kind) EXCEPT !.edge = e] \in Command
      BY <1>1 DEF Cmd, Command, CmdKind, OnEdge, OnSession, EdgeRule
    <3> QED BY <1>2, <3>1 DEF Cmd
  <2>3. ASSUME NEW kind \in HumanKind \cap {"freeze", "unfreeze", "activate", "kill"},
               NEW s \in Session
        PROVE  Asked([Cmd(kind) EXCEPT !.sess = s])
    <3>1. [Cmd(kind) EXCEPT !.sess = s] \in Command
      BY DEF Cmd, Command, CmdKind, OnEdge, OnSession, EdgeRule
    <3> QED BY <1>2, <3>1 DEF Cmd
  <2>4. ASSUME NEW kind \in HumanKind \cap {"workflow"}
        PROVE  Asked(Cmd(kind))
    <3>1. Cmd(kind) \in Command
      BY DEF Cmd, Command, CmdKind, OnEdge, OnSession, EdgeRule
    <3> QED BY <1>2, <3>1 DEF Cmd
  <2>5. \E c : Sends(c) /\ Asked(c)
    BY <1>3, <2>1, <2>2, <2>3, <2>4, Zenon DEF HumanSends
  <2> QED BY <2>5 DEF Asked
<1>4. CASE \E s \in Session : AgentReports(s)
  <2>1. PICK s \in Session : AgentReports(s)
    BY <1>4
  <2>2. \A kind \in {"issues", "clean"} : [Cmd(kind) EXCEPT !.sess = s] \in Command
    BY DEF Cmd, Command, CmdKind, OnEdge, OnSession, EdgeRule
  <2>3. PICK kind \in {"issues", "clean"} : Sends([Cmd(kind) EXCEPT !.sess = s])
    BY <2>1 DEF AgentReports
  <2>4. Asked([Cmd(kind) EXCEPT !.sess = s])
    BY <1>2, <2>2 DEF Cmd
  <2> QED BY <2>2, <2>3, <2>4
<1> QED BY <1>3, <1>4

LEMMA TypeSenders ==
  ASSUME TypeOK, HumanSends \/ \E s \in Session : AgentReports(s)
  PROVE  TypeOK'
<1>1. left \in Budget
  BY DEF TypeOK
<1>2. PICK c \in Command : Sends(c)
  BY SendersSend
<1>3. left' \in Budget
  <2>1. \/ left' = [left EXCEPT !.human = @ - 1] /\ left.human > 0
        \/ left' = [left EXCEPT !.report = @ - 1] /\ left.report > 0
    BY DEF HumanSends, AgentReports
  <2>2. /\ left.human > 0 => left.human - 1 \in Nat
        /\ left.report > 0 => left.report - 1 \in Nat
    BY <1>1 DEF Budget
  <2> QED BY <1>1, <2>1, <2>2 DEF Budget
<1> QED BY <1>2, <1>3, TypeSends

(* A provider process that ends or errs.                                    *)
LEMMA TypeProviders ==
  ASSUME TypeOK, NEW s \in Session, ProviderCloses(s) \/ ProviderErrs(s)
  PROVE  TypeOK'
<1>1. /\ live \in LiveState /\ disk \in LiveState /\ kernel \in KernelState
      /\ proc \in [Session -> Nat] /\ ctx \in [Session -> Nat]
      /\ doomed \subseteq Session /\ bridge \in BOOLEAN /\ nrun \in Nat /\ left \in Budget
      /\ nev \in Nat /\ schedQ \in Seq(Event) /\ hist \in History /\ cmdQ \in Seq(Command)
  BY DEF TypeOK
<1>2. /\ UNCHANGED <<bridge, nrun, task, open, hist>>
      /\ doomed' \in {doomed, doomed \ {s}} /\ proc' \in {proc, [proc EXCEPT ![s] = 0]}
  BY DEF ProviderCloses, ProviderErrs
<1>3. doomed' \subseteq Session /\ proc' \in [Session -> Nat]
  <2>1. [proc EXCEPT ![s] = 0] \in [Session -> Nat]
    BY <1>1
  <2> QED BY <1>1, <1>2, <2>1
<1>4. left' \in Budget
  <2>1. left' = left \/ (left' = [left EXCEPT !.fail = @ - 1] /\ left.fail > 0)
    BY DEF ProviderCloses, ProviderErrs
  <2>2. left.fail > 0 => left.fail - 1 \in Nat
    BY <1>1 DEF Budget
  <2> QED BY <1>1, <2>1, <2>2 DEF Budget
<1>5. CASE UNCHANGED <<live, disk, kernel, nev, schedQ>> /\ ctx' = ctx
           /\ \/ cmdQ' = cmdQ
              \/ cmdQ' = Append(cmdQ, [Cmd("complete") EXCEPT !.sess = s, !.n = ctx[s]])
  <2>1. [Cmd("complete") EXCEPT !.sess = s, !.n = ctx[s]] \in Command
    BY <1>1 DEF Cmd, Command, CmdKind, OnEdge, OnSession, EdgeRule
  <2> DEFINE c == [Cmd("complete") EXCEPT !.sess = s, !.n = ctx[s]]
  <2>2. cmdQ' = cmdQ \/ cmdQ' = Append(cmdQ, c)
    BY <1>5
  <2> HIDE DEF c
  <2>3. /\ cmdQ' \in Seq(Command)
        /\ cmdQ # <<>> => cmdQ' # <<>> /\ Head(cmdQ') = Head(cmdQ)
    BY <1>1, <2>1, <2>2, AppendTyped DEF c
  <2> QED BY <1>2, <1>3, <1>4, <1>5, <2>3 DEF TypeOK, Current
<1>6. CASE /\ live' = [live EXCEPT !.status[s] = "killed"] /\ disk' = live'
           /\ ctx' = [ctx EXCEPT ![s] = 0] /\ UNCHANGED <<kernel, nev, schedQ, cmdQ>>
  <2>1. live' \in LiveState
    BY <1>1, <1>6 DEF LiveState, Status
  <2> QED BY <1>1, <1>2, <1>3, <1>4, <1>6, <2>1 DEF TypeOK, Current
<1>7. CASE FailSession(s) /\ cmdQ' = cmdQ
  <2>1. /\ live' = [live EXCEPT !.status[s] = "failed"] /\ disk' = live'
        /\ kernel' = SessionFact(kernel, s, "failed") /\ ctx' = [ctx EXCEPT ![s] = 0]
        /\ Publish([live EXCEPT !.status[s] = "failed"], "failed", s)
    BY <1>7 DEF FailSession, Write
  <2>2. live' \in LiveState
    BY <1>1, <2>1 DEF LiveState, Status
  <2>3. kernel' \in KernelState
    BY <1>1, <2>1 DEF SessionFact, KernelState, Status
  <2>4. nev' \in Nat /\ schedQ' \in Seq(Event)
    BY <1>1, <2>1, PublishTyped DEF EventKind
  <2> QED BY <1>1, <1>2, <1>3, <1>4, <1>7, <2>1, <2>2, <2>3, <2>4 DEF TypeOK, Current
<1> QED BY <1>5, <1>6, <1>7 DEF ProviderCloses, ProviderErrs, Write

(* A crash, and the restart from the disk.                                  *)
LEMMA TypeCrash ==
  ASSUME TypeOK, Crash
  PROVE  TypeOK'
<1> DEFINE F == {s \in Session : disk.status[s] \in {"pending", "running"}}
           killedEdges == {e \in disk.active : \E s \in {Source(e), Target(e)} :
                                                 Recovered(F)[s] = "killed"}
           cappedEdges == {e \in disk.active : AtCap(disk, e)}
           frozenBy == {Target(e) : e \in {f \in cappedEdges \ killedEdges : Def[f].freezeOnStop}}
           listens == disk.active # {} \/ disk.slots # {}
           recover == [kind |-> "recover", sess |-> None, id |-> 0]
           failed(order) == [i \in 1 .. Cardinality(F) |->
                               [kind |-> "failed", sess |-> order[i], id |-> nev + i]]
<1>1. /\ disk \in LiveState /\ kernel \in KernelState /\ nev \in Nat /\ nrun \in Nat
      /\ left \in Budget /\ hist \in History
  BY DEF TypeOK
<1>2. F \subseteq Session /\ killedEdges \subseteq Edge /\ cappedEdges \subseteq Edge
  BY <1>1 DEF LiveState
<1>3. frozenBy \subseteq Session
  BY <1>2, DefAssumption DEF Target, EdgeDef
<1>4. Cardinality(F) \in Nat
  BY <1>2, InputAssumption, FS_Subset, FS_CardinalityType
<1> HIDE DEF F, killedEdges, cappedEdges, listens
<1>5. schedQ' \in Seq(Event)
  <2>1. PICK order \in [1 .. Cardinality(F) -> F] :
          schedQ' = (IF listens THEN failed(order) ELSE <<>>) \o <<recover>>
    BY Zenon DEF Crash, F, listens
  <2>2. recover \in Event /\ <<recover>> \in Seq(Event)
    BY DEF Event
  <2>3. failed(order) \in Seq(Event)
    <3>1. \A i \in 1 .. Cardinality(F) :
            [kind |-> "failed", sess |-> order[i], id |-> nev + i] \in Event
      BY <1>1, <1>2, <1>4 DEF Event, EventKind
    <3>2. failed(order) \in [1 .. Cardinality(F) -> Event]
      BY <3>1
    <3> HIDE DEF failed
    <3> QED BY <1>4, <3>2
  <2>4. (IF listens THEN failed(order) ELSE <<>>) \in Seq(Event)
    BY <2>3
  <2> HIDE DEF failed, recover
  <2> QED BY <2>1, <2>2, <2>4
<1>6. live' = Restarted(disk, F, killedEdges, cappedEdges) /\ disk' = live'
  BY Zenon DEF Crash, Write, F, killedEdges, cappedEdges
<1>7. live' \in LiveState
  <2> DEFINE L1 == [disk EXCEPT !.status = Recovered(F)]
             L2 == StopEdges(L1, killedEdges \cup cappedEdges)
  <2>0. Recovered(F) \in [Session -> Status]
    <3>1. open # None => open.saved \in LiveState
      BY DEF TypeOK, OpenState
    <3>2. \A s \in Journaled : open.saved.status[s] \in Status
      BY <3>1 DEF Journaled, LiveState
    <3> QED BY <1>1, <3>2 DEF Recovered, LiveState, Status
  <2>1. L1 \in LiveState
    BY <1>1, <2>0 DEF LiveState
  <2>2. L2 \in LiveState
    <3> HIDE DEF L1
    <3> QED BY <1>2, <2>1, StopTyped
  <2>3. live' = [L2 EXCEPT !.frozen = @ \cup frozenBy]
    BY <1>6, Zenon DEF Restarted
  <2> HIDE DEF L2, frozenBy
  <2> QED BY <1>3, <2>2, <2>3 DEF LiveState
<1>8. kernel' \in KernelState
  <2> DEFINE k == StopEdgeFacts(kernel, killedEdges \cup cappedEdges)
  <2>1. k \in KernelState
    BY <1>1, <1>2, StopFactsTyped
  <2>2. kernel' = [k EXCEPT
                     !.status = [s \in Session |-> IF s \in F THEN "failed" ELSE @[s]],
                     !.frozen = @ \cup frozenBy]
    BY Zenon DEF Crash, F, killedEdges, cappedEdges
  <2> HIDE DEF k, frozenBy
  <2> QED BY <1>3, <2>1, <2>2 DEF KernelState, Status
<1>9. /\ nev' = nev + Cardinality(F) /\ proc' = [s \in Session |-> 0]
      /\ ctx' = [s \in Session |-> 0] /\ doomed' = {} /\ bridge' = FALSE
      /\ task' = [p \in Task |-> OffTask] /\ cmdQ' = <<>> /\ open' = None
      /\ nrun' = nrun /\ hist' = hist
      /\ left' = [left EXCEPT !.crash = @ - 1] /\ left.crash > 0
  BY DEF Crash, F
<1>10. task' \in [Task -> TaskState]
  BY <1>9 DEF TaskState, OffTask
<1>11. left' \in Budget
  <2>1. left.crash - 1 \in Nat
    BY <1>1, <1>9 DEF Budget
  <2> QED BY <1>1, <1>9, <2>1 DEF Budget
<1>12. cmdQ' \in Seq(Command)
  BY <1>9
<1>13. proc' \in [Session -> Nat] /\ ctx' \in [Session -> Nat] /\ nev' \in Nat
  BY <1>1, <1>4, <1>9
<1> QED BY <1>1, <1>5, <1>6, <1>7, <1>8, <1>9, <1>10, <1>11, <1>12, <1>13 DEF TypeOK

LEMMA TypeInit ==
  ASSUME Init
  PROVE  TypeOK
<1>1. live \in LiveState /\ disk \in LiveState /\ kernel \in KernelState
  BY DEF Init, LiveState, KernelState, Status
<1>2. left \in Budget
  BY BoundAssumption DEF Init, Budget
<1>3. task \in [Task -> TaskState]
  BY DEF Init, TaskState, OffTask
<1>4. hist \in History
  BY DEF Init, History
<1>5. /\ proc \in [Session -> Nat] /\ ctx \in [Session -> Nat] /\ doomed \subseteq Session
      /\ nrun \in Nat /\ nev \in Nat /\ open = None
  BY DEF Init
<1>6. bridge \in BOOLEAN
  BY Zenon DEF Init
<1>7. schedQ \in Seq(Event) /\ cmdQ \in Seq(Command)
  BY DEF Init
<1> QED BY <1>1, <1>2, <1>3, <1>4, <1>5, <1>6, <1>7 DEF TypeOK

(* Every step keeps the types.                                              *)
LEMMA TypeStep ==
  ASSUME TypeOK, [Next]_vars
  PROVE  TypeOK'
<1>1. CASE UNCHANGED vars
  BY <1>1 DEF vars, providers, TypeOK, Current
<1>2. CASE Next
  <2>1. CASE Work
    BY <2>1, TypePend, TypeSlots, TypeStops, TypeDeliverFor, TypeSessions, TypeBegins,
       TypeEnds DEF Work
  <2>2. CASE TakeEvent \/ \E p \in Task : Resume(p)
    BY <2>2, TypeTasks
  <2>3. CASE HumanSends \/ \E s \in Session : AgentReports(s)
    BY <2>3, TypeSenders
  <2>4. CASE \E s \in Session : ProviderCloses(s) \/ ProviderErrs(s)
    BY <2>4, TypeProviders
  <2>5. CASE Abort
    BY <2>5, TypeEnds
  <2>6. CASE Crash
    BY <2>6, TypeCrash
  <2> QED BY <1>2, <2>1, <2>2, <2>3, <2>4, <2>5, <2>6 DEF Next
<1> QED BY <1>1, <1>2

(* In every graph, under every bound, every reachable state of the          *)
(* scheduler is of its type: a command in the queue names an edge or a      *)
(* session of the graph, and an open command is at the head of the queue.   *)
THEOREM TypeCorrect == Spec => []TypeOK
<1>1. Init => TypeOK
  BY TypeInit
<1>2. TypeOK /\ [Next]_vars => TypeOK'
  BY TypeStep
<1> QED BY <1>1, <1>2, PTL DEF Spec

------------------------------------------------------------------------------
(* Counting.                                                                *)

(* One more firing of e counts once for e, and not for another edge.        *)
LEMMA CountOneMore ==
  ASSUME NEW H, IsFiniteSet(H), NEW e, NEW t, <<e, t>> \notin H
  PROVE  /\ IsFiniteSet(H \cup {<<e, t>>})
         /\ \A f : Cardinality(FiredBy(H \cup {<<e, t>>}, f)) =
                     IF f = e THEN Cardinality(FiredBy(H, f)) + 1
                     ELSE Cardinality(FiredBy(H, f))
<1>1. IsFiniteSet(H \cup {<<e, t>>})
  BY FS_AddElement
<1>2. ASSUME NEW f
      PROVE  Cardinality(FiredBy(H \cup {<<e, t>>}, f)) =
               IF f = e THEN Cardinality(FiredBy(H, f)) + 1 ELSE Cardinality(FiredBy(H, f))
  <2> DEFINE G == FiredBy(H, f)
             new == <<e, t>>
  <2>1. IsFiniteSet(G) /\ new \notin G
    BY FS_Subset DEF FiredBy
  <2>2. CASE f = e
    <3>1. FiredBy(H \cup {new}, f) = G \cup {new}
      BY <2>2 DEF FiredBy
    <3>2. Cardinality(G \cup {new}) = Cardinality(G) + 1
      <4> HIDE DEF G, new
      <4> QED BY <2>1, FS_AddElement
    <3> QED BY <2>2, <3>1, <3>2
  <2>3. CASE f # e
    <3>1. FiredBy(H \cup {new}, f) = G
      BY <2>3 DEF FiredBy
    <3> QED BY <2>3, <3>1
  <2> QED BY <2>2, <2>3
<1> QED BY <1>1, <1>2

------------------------------------------------------------------------------
(* Steps that put back or thin out.                                         *)

(* If every state a later step can bring back has the counts, and some of   *)
(* the slots, of one that could be brought back before, nothing is lost.    *)
LEMMA Restores ==
  ASSUME OnceInv, done \subseteq done', hist'.fired = hist.fired,
         \A L \in States' : \E K \in States : L.slots \subseteq K.slots /\ L.firings = K.firings
  PROVE  SlotsOK' /\ FiredKeyed' /\ Counted'
<1>1. ASSUME NEW L \in States' PROVE SlotSetOK(L.slots)'
  <2>1. PICK K \in States : L.slots \subseteq K.slots
    BY <1>1
  <2>2. SlotSetOK(K.slots)
    BY <2>1 DEF OnceInv, SlotsOK
  <2> QED BY <2>1, <2>2 DEF SlotSetOK
<1>2. SlotsOK'
  BY <1>1 DEF SlotsOK
<1>3. FiredKeyed'
  BY DEF OnceInv, FiredKeyed
<1>4. Counted'
  <2>1. ASSUME NEW L \in States', NEW e \in Edge
        PROVE  L.firings[e] = Cardinality(FiredBy(hist'.fired, e))
    <3>1. PICK K \in States : L.firings = K.firings
      BY <2>1
    <3> QED BY <3>1 DEF OnceInv, Counted
  <2> QED BY <2>1 DEF OnceInv, Counted
<1> QED BY <1>2, <1>3, <1>4

(* The end of a command adds nothing to what is queued, decided or kept in  *)
(* a snapshot.                                                              *)
LEMMA EndsOnlyLeave ==
  ASSUME TypeOK, cmdQ # <<>>, Ends(Current)
  PROVE  /\ open' = None
         /\ \A p \in Task : task'[p].todo \subseteq task[p].todo
         /\ \A p \in Task : task'[p].slots \subseteq task[p].slots
         /\ \A i \in DOMAIN cmdQ' : \E j \in DOMAIN cmdQ : cmdQ'[i] = cmdQ[j]
<1>1. cmdQ \in Seq(Command) /\ task \in [Task -> TaskState] /\ Current \in Command
  BY DEF TypeOK, Current
<1>2. cmdQ' = Tail(cmdQ) /\ open' = None
  BY <1>1, EndsTyped
<1>3. \A p \in Task : /\ task'[p].todo \subseteq task[p].todo
                       /\ task'[p].slots \subseteq task[p].slots
  <2>1. \/ task' = task
        \/ \E p \in Task : \/ task' = [task EXCEPT ![p].pc = "ready"]
                           \/ task' = [task EXCEPT ![p] = OffTask]
                           \/ task' = [task EXCEPT ![p] = FreshTask]
    BY DEF Ends, Completes, Throws, CompletesAndDrains, Task
  <2>2. \A q \in Task : task[q] \in TaskState
    BY <1>1
  <2>3. /\ OffTask.todo = {} /\ OffTask.slots = {}
        /\ FreshTask.todo = {} /\ FreshTask.slots = {}
    BY DEF OffTask, FreshTask
  <2>4. ASSUME NEW p \in Task, task' = [task EXCEPT ![p].pc = "ready"], NEW q \in Task
        PROVE  task'[q].todo = task[q].todo /\ task'[q].slots = task[q].slots
    BY <1>1, <2>2, <2>4 DEF TaskState
  <2>5. ASSUME NEW p \in Task, NEW u \in {OffTask, FreshTask}, task' = [task EXCEPT ![p] = u],
               NEW q \in Task
        PROVE  task'[q].todo \subseteq task[q].todo /\ task'[q].slots \subseteq task[q].slots
    BY <1>1, <2>3, <2>5
  <2> QED BY <2>1, <2>4, <2>5
<1>4. \A i \in DOMAIN cmdQ' : \E j \in DOMAIN cmdQ : cmdQ'[i] = cmdQ[j]
  <2>1. \A i \in 1 .. Len(cmdQ) - 1 : Tail(cmdQ)[i] = cmdQ[i + 1] /\ i + 1 \in 1 .. Len(cmdQ)
    BY <1>1
  <2>2. Len(Tail(cmdQ)) = Len(cmdQ) - 1
    BY <1>1
  <2>3. DOMAIN cmdQ' = 1 .. Len(cmdQ) - 1 /\ DOMAIN cmdQ = 1 .. Len(cmdQ)
    BY <1>1, <1>2, <2>2
  <2> QED BY <1>2, <2>1, <2>3
<1> QED BY <1>2, <1>3, <1>4

(* A command that ends: no command is added, and no key is lost.            *)
LEMMA EndsOnce ==
  ASSUME TypeOK, OnceInv, cmdQ # <<>>, Ends(Current)
  PROVE  /\ done \subseteq done' /\ open' = None
         /\ States' = {live', disk'}
         /\ CommandsKeyed' /\ OpenSlotTaken'
<1>1. /\ open' = None
      /\ \A p \in Task : task'[p].todo \subseteq task[p].todo
      /\ \A i \in DOMAIN cmdQ' : \E j \in DOMAIN cmdQ : cmdQ'[i] = cmdQ[j]
  BY EndsOnlyLeave
<1>2. done \subseteq done'
  BY DEF Ends, Completes, Throws, CompletesAndDrains
<1>3. Queued' \subseteq Queued
  BY <1>1 DEF Queued
<1>4. CommandsKeyed'
  BY <1>3 DEF OnceInv, CommandsKeyed
<1>5. OpenSlotTaken' /\ States' = {live', disk'}
  BY <1>1 DEF OpenSlotTaken, States, Saved
<1> QED BY <1>1, <1>2, <1>4, <1>5

(* L has the counts, and some of the slots, of a state that could come back. *)
Thinned(L) == \E K \in States : L.slots \subseteq K.slots /\ L.firings = K.firings

LEMMA EndsThinned ==
  ASSUME TypeOK, OnceInv, cmdQ # <<>>, Ends(Current), hist'.fired = hist.fired,
         Thinned(live'), Thinned(disk')
  PROVE  OnceInv'
<1>1. /\ done \subseteq done' /\ States' = {live', disk'} /\ CommandsKeyed' /\ OpenSlotTaken'
  BY EndsOnce
<1>2. SlotsOK' /\ FiredKeyed' /\ Counted'
  BY <1>1, Restores DEF Thinned
<1> QED BY <1>1, <1>2 DEF OnceInv

(* The runtime states at hand thin out to themselves; stopping edges only   *)
(* takes slots away.                                                        *)
LEMMA ThinnedFacts ==
  ASSUME TypeOK
  PROVE  /\ Thinned(live) /\ Thinned(disk) /\ (open # None => Thinned(open.saved))
         /\ \A L \in LiveState : Thinned(L) =>
              /\ \A E : Thinned(StopEdges(L, E))
              /\ \A e : Thinned(StopWithOnStop(L, e))
<1>1. Thinned(live) /\ Thinned(disk) /\ (open # None => Thinned(open.saved))
  BY DEF Thinned, States, Saved
<1>2. ASSUME NEW L \in LiveState, Thinned(L), NEW E PROVE Thinned(StopEdges(L, E))
  <2>1. StopEdges(L, E).slots \subseteq L.slots /\ StopEdges(L, E).firings = L.firings
    BY DEF StopEdges, LiveState
  <2> QED BY <1>2, <2>1 DEF Thinned
<1>3. ASSUME NEW L \in LiveState, Thinned(L), NEW e PROVE Thinned(StopWithOnStop(L, e))
  <2>1. /\ StopWithOnStop(L, e).slots \subseteq L.slots
        /\ StopWithOnStop(L, e).firings = L.firings
    BY DEF StopWithOnStop, StopEdges, LiveState
  <2> QED BY <1>3, <2>1 DEF Thinned
<1> QED BY <1>1, <1>2, <1>3

(* Commands without an await that neither park nor fire.                    *)
LEMMA PlainThinned ==
  ASSUME TypeOK,
         \/ Deny \/ Drop("dropMissing") \/ Drop("dropDead") \/ DropFiring
         \/ Stop \/ StopFor \/ StopKilled \/ Freeze \/ Unfreeze \/ Kill
         \/ Report("issues") \/ Report("clean") \/ Complete \/ Replay
  PROVE  /\ cmdQ # <<>> /\ Ends(Current) /\ hist' = hist
         /\ Thinned(live') /\ Thinned(disk')
<1>1. cmdQ # <<>> /\ Ends(Current) /\ hist' = hist
  BY DEF Deny, Drop, DropFiring, Stop, StopFor, StopKilled, Freeze, Unfreeze, Kill, Report,
         Complete, Replay, Begins, Ends
<1>2. live \in LiveState /\ Thinned(live) /\ Thinned(disk)
  BY ThinnedFacts DEF TypeOK
<1>3. ASSUME NEW L, L.slots \subseteq live.slots, L.firings = live.firings PROVE Thinned(L)
  BY <1>3 DEF Thinned, States
<1>4. Thinned(live') /\ Thinned(disk')
  <2>1. CASE Deny
    BY <1>2, <1>3, <2>1 DEF Deny, Write, NoChange, LiveState
  <2>2. CASE Drop("dropMissing") \/ Drop("dropDead")
    BY <1>2, <1>3, <2>2 DEF Drop, Write, LiveState
  <2>3. CASE DropFiring \/ Report("issues") \/ Report("clean") \/ Replay
    BY <1>2, <2>3 DEF DropFiring, Report, Replay, Write, NoChange
  <2>4. CASE Stop \/ StopFor \/ StopKilled
    BY <1>2, <2>4, ThinnedFacts DEF Stop, StopFor, StopKilled, Write
  <2>5. CASE Freeze \/ Unfreeze
    BY <1>2, <1>3, <2>5 DEF Freeze, Unfreeze, Write, LiveState
  <2>6. CASE Kill
    BY <1>2, <1>3, <2>6 DEF Kill, Write, LiveState
  <2>7. CASE Complete
    <3>1. \E st : live' = [live EXCEPT !.status[Current.sess] = st] /\ disk' = live'
      BY <2>7 DEF Complete, FailSession, Write
    <3> QED BY <1>2, <1>3, <3>1 DEF LiveState
  <2> QED BY <2>1, <2>2, <2>3, <2>4, <2>5, <2>6, <2>7
<1> QED BY <1>1, <1>4

(* Ends of open commands that fire nothing: the rollback of Abort brings    *)
(* slots back, and every one of them was there when the command began.      *)
LEMMA OpenEndsThinned ==
  ASSUME TypeOK, ActivateEnd \/ WorkflowEnd \/ Abort
  PROVE  /\ cmdQ # <<>> /\ Ends(Current) /\ hist' = hist
         /\ Thinned(live') /\ Thinned(disk')
<1>1. open # None /\ cmdQ # <<>> /\ Ends(Current) /\ hist' = hist
  BY DEF ActivateEnd, WorkflowEnd, Abort, Ends, TypeOK
<1>2. live \in LiveState /\ Thinned(live) /\ Thinned(disk) /\ Thinned(open.saved)
  BY <1>1, ThinnedFacts DEF TypeOK
<1>3. Thinned(live') /\ Thinned(disk')
  <2>1. CASE ActivateEnd
    <3>1. live' = [live EXCEPT !.status[Current.sess] = "running"] /\ disk' = live'
      BY <2>1 DEF ActivateEnd, Write
    <3> QED BY <1>2, <3>1 DEF Thinned, States, LiveState
  <2>2. CASE WorkflowEnd
    BY <1>2, <2>2 DEF WorkflowEnd, Write
  <2>3. CASE Abort
    BY <1>2, <2>3 DEF Abort
  <2> QED BY <2>1, <2>2, <2>3
<1> QED BY <1>1, <1>3

LEMMA OnceEnds ==
  ASSUME TypeOK, OnceInv,
         \/ Deny \/ Drop("dropMissing") \/ Drop("dropDead") \/ DropFiring
         \/ Stop \/ StopFor \/ StopKilled \/ Freeze \/ Unfreeze \/ Kill
         \/ Report("issues") \/ Report("clean") \/ Complete \/ Replay
         \/ ActivateEnd \/ WorkflowEnd \/ Abort
  PROVE  OnceInv'
<1>1. /\ cmdQ # <<>> /\ Ends(Current) /\ hist' = hist
      /\ Thinned(live') /\ Thinned(disk')
  BY PlainThinned, OpenEndsThinned
<1> QED BY <1>1, EndsThinned

(* Beginnings.                                                              *)
LEMMA OnceBegins ==
  ASSUME TypeOK, OnceInv, ExecuteBegin \/ ActivateBegin \/ WorkflowBegin
  PROVE  OnceInv'
<1>1. cmdQ # <<>> /\ open = None /\ live \in LiveState /\ Thinned(live) /\ Thinned(disk)
  BY ThinnedFacts DEF ExecuteBegin, ActivateBegin, WorkflowBegin, Begins, TypeOK
<1>2. CASE Ends(Current) /\ hist' = hist /\ live' = live /\ disk' \in {live, disk}
  BY <1>1, <1>2, EndsThinned
<1>3. ASSUME NEW slot, NEW io, NEW L, Opens(slot, io, L),
             L.slots \subseteq live.slots, L.firings = live.firings,
             Current.kind = "execute" =>
               slot \in live.slots \ L.slots /\ slot.edge = Current.edge
      PROVE  OnceInv'
  <2>1. /\ open' = [saved |-> live, io |-> io, slot |-> slot] /\ live' = L
        /\ UNCHANGED <<disk, task, cmdQ, done, hist>>
    BY <1>3 DEF Opens
  <2>2. \A K \in States' : K \in {L, disk, live}
    BY <2>1 DEF States, Saved
  <2>3. SlotsOK' /\ FiredKeyed' /\ Counted'
    <3>1. \A K \in States' : Thinned(K)
      BY <1>1, <1>3, <2>2 DEF Thinned, States
    <3> QED BY <2>1, <3>1, Restores DEF Thinned
  <2>4. CommandsKeyed'
    BY <2>1 DEF OnceInv, CommandsKeyed, Queued
  <2>5. OpenSlotTaken'
    BY <1>3, <2>1 DEF OpenSlotTaken, Current
  <2> QED BY <2>3, <2>4, <2>5 DEF OnceInv
<1>4. CASE ExecuteBegin
  <2> DEFINE s == Target(Current.edge)
             mine == At(live.slots, Current.edge, Current.n)
  <2>1. CASE mine = {}
    BY <1>2, <1>4, <2>1 DEF ExecuteBegin, Write, Ends
  <2>2. CASE mine # {} /\ proc[s] # 0
    BY <1>2, <1>4, <2>2 DEF ExecuteBegin, NoChange, Ends
  <2>3. CASE mine # {} /\ proc[s] = 0
    <3>1. PICK x \in mine :
            Opens(x, ~bridge, [live EXCEPT !.slots = @ \ mine, !.status[s] = "pending"])
      BY <1>4, <2>3 DEF ExecuteBegin
    <3> DEFINE L == [live EXCEPT !.slots = @ \ mine, !.status[s] = "pending"]
    <3>2. L.slots = live.slots \ mine /\ L.firings = live.firings
      BY <1>1 DEF LiveState
    <3>3. x \in live.slots \ L.slots /\ x.edge = Current.edge
      BY <3>2 DEF At
    <3> HIDE DEF L, mine
    <3> QED BY <1>3, <3>1, <3>2, <3>3 DEF L
  <2> QED BY <2>1, <2>2, <2>3
<1>5. CASE ActivateBegin
  <2> DEFINE L == [live EXCEPT !.status[Current.sess] = "pending"]
  <2>1. CASE Throws(Current) /\ NoChange /\ Rest /\ UNCHANGED hist
    BY <1>2, <2>1 DEF NoChange, Ends
  <2>2. CASE Opens(None, ~bridge, L)
    <3>1. L.slots = live.slots /\ L.firings = live.firings
      BY <1>1 DEF LiveState
    <3>2. Current.kind = "activate"
      BY <1>5 DEF ActivateBegin, Begins
    <3> HIDE DEF L
    <3> QED BY <1>3, <2>2, <3>1, <3>2
  <2> QED BY <1>5, <2>1, <2>2 DEF ActivateBegin
<1>6. CASE WorkflowBegin
  <2>1. Opens(None, TRUE, live) /\ Current.kind = "workflow"
    BY <1>6 DEF WorkflowBegin, Begins
  <2> QED BY <1>3, <2>1
<1> QED BY <1>4, <1>5, <1>6

(* Steps that dispatch a command: it is added at the end of the queue.      *)
Innocent(c) == /\ c.kind = "pend" => c.n = 0 /\ ~Def[c.edge].deliver
               /\ c.kind = "deliverFor" => c.n = 0 /\ Def[c.edge].deliver

LEMMA OnceSends ==
  ASSUME TypeOK, OnceInv, UNCHANGED <<open, done, hist>>,
         live'.slots = live.slots, live'.firings = live.firings, Thinned(disk'),
         cmdQ' = cmdQ \/ \E c \in Command : Innocent(c) /\ cmdQ' = Append(cmdQ, c),
         \A p \in Task : \A c \in task'[p].todo : Innocent(c)
  PROVE  OnceInv'
<1>1. cmdQ \in Seq(Command)
  BY DEF TypeOK
<1>2. \A i \in DOMAIN cmdQ : Innocent(cmdQ[i])
  BY DEF OnceInv, CommandsKeyed, Queued, Innocent
<1>3. \A i \in DOMAIN cmdQ' : Innocent(cmdQ'[i])
  <2>1. CASE cmdQ' = cmdQ
    BY <1>2, <2>1
  <2>2. CASE \E c \in Command : Innocent(c) /\ cmdQ' = Append(cmdQ, c)
    <3>1. PICK c \in Command : Innocent(c) /\ cmdQ' = Append(cmdQ, c)
      BY <2>2
    <3>2. /\ DOMAIN cmdQ' = 1 .. Len(cmdQ) + 1 /\ cmdQ'[Len(cmdQ) + 1] = c
          /\ \A i \in 1 .. Len(cmdQ) : cmdQ'[i] = cmdQ[i]
          /\ DOMAIN cmdQ = 1 .. Len(cmdQ) /\ Len(cmdQ) \in Nat
      BY <1>1, <3>1
    <3>3. \A i \in 1 .. Len(cmdQ) + 1 : i = Len(cmdQ) + 1 \/ i \in 1 .. Len(cmdQ)
      BY <3>2
    <3> QED BY <1>2, <3>1, <3>2, <3>3
  <2> QED BY <2>1, <2>2
<1>4. CommandsKeyed'
  BY <1>3 DEF CommandsKeyed, Queued, Innocent
<1>5. OpenSlotTaken'
  <2>1. ASSUME open # None PROVE Current' = Current
    <3>1. cmdQ # <<>>
      BY <2>1 DEF TypeOK
    <3> QED BY <1>1, <3>1, AppendTyped DEF Current
  <2> QED BY <2>1 DEF OnceInv, OpenSlotTaken
<1>6. \A L \in States' : Thinned(L)
  <2>1. Thinned(live')
    BY DEF Thinned, States
  <2>2. Thinned(Saved')
    BY <2>1 DEF Thinned, States, Saved
  <2> QED BY <2>1, <2>2 DEF States
<1>7. SlotsOK' /\ FiredKeyed' /\ Counted'
  BY <1>6, Restores DEF Thinned
<1> QED BY <1>4, <1>5, <1>7 DEF OnceInv

(* The decisions on an event are innocent: delivery and activation exclude  *)
(* each other.                                                              *)
LEMMA DecisionsInnocent ==
  ASSUME NEW ev, NEW c \in Decisions(ev)
  PROVE  Innocent(c)
<1>1. CASE c.kind \notin {"pend", "deliverFor"}
  BY <1>1 DEF Innocent
<1>2. CASE c.kind \in {"pend", "deliverFor"}
  <2>1. PICK e \in live.active : c \in Decide(e, ev)
    <3>1. ev.kind # "recover"
      BY DEF Decisions
    <3>2. ev.kind # "killed"
      BY <1>2 DEF Decisions, Cmd
    <3> QED BY <3>1, <3>2 DEF Decisions
  <2>2. c # RuleCmd("stopFor", e, ev) /\ c # RuleCmd("dropFiring", e, ev)
        /\ c # InterruptCmd(e, ev)
    BY <1>2 DEF RuleCmd, InterruptCmd, Cmd
  <2>3. CASE \E d \in BOOLEAN : Def[e].deliver /\ c = DeliverCmd(e, ev, d)
    <3>1. c.kind = "deliverFor" /\ c.n = 0 /\ c.edge = e /\ Def[e].deliver
      BY <2>3 DEF DeliverCmd, RuleCmd, Cmd
    <3> QED BY <3>1 DEF Innocent
  <2>4. CASE \E d, u \in BOOLEAN : ~Def[e].deliver /\ c = PendCmd(e, ev, d, u)
    <3>1. c.kind = "pend" /\ c.n = 0 /\ c.edge = e /\ ~Def[e].deliver
      BY <2>4 DEF PendCmd, RuleCmd, Cmd
    <3> QED BY <3>1 DEF Innocent
  <2> QED BY <2>1, <2>2, <2>3, <2>4, DecideShape, Zenon
<1> QED BY <1>1, <1>2

LEMMA OnceTasks ==
  ASSUME TypeOK, OnceInv, TakeEvent \/ \E p \in Task : Resume(p)
  PROVE  OnceInv'
<1>1. /\ task \in [Task -> TaskState] /\ live.slots \subseteq Slot /\ live.active \subseteq Edge
      /\ schedQ \in Seq(Event)
  BY DEF TypeOK, LiveState
<1>2. \A p \in Task : \A c \in task[p].todo : Innocent(c)
  BY DEF OnceInv, CommandsKeyed, Queued, Innocent
<1>3. PICK p \in Task, t \in TaskState :
        /\ Proceed(p, t) /\ \A c \in t.todo : Innocent(c)
        /\ TaskUnchanged
  <2>1. CASE TakeEvent
    <3> DEFINE t == [FreshTask EXCEPT !.todo = Decisions(Head(schedQ))]
    <3>1. Head(schedQ) \in Event
      BY <1>1, <2>1 DEF TakeEvent
    <3>2. t \in TaskState /\ t.todo = Decisions(Head(schedQ))
      BY <1>1, <3>1, DecisionsTyped DEF FreshTask, TaskState
    <3>3. Chain \in Task
      BY DEF Task
    <3> QED BY <2>1, <3>2, <3>3, DecisionsInnocent DEF TakeEvent
  <2>2. CASE \E p \in Task : Resume(p)
    BY <1>1, <1>2, <2>2 DEF Resume
  <2> QED BY <2>1, <2>2
<1>4. PICK u : task' = [task EXCEPT ![p] = u] /\ Proceeds(p, t, u)
  BY <1>3, ProceedShape
<1>5. t.todo \subseteq Command /\ t.slots \subseteq Slot
  BY DEF TaskState
<1>6. /\ \A c \in u.todo : Innocent(c)
      /\ cmdQ' = cmdQ \/ \E c \in Command : Innocent(c) /\ cmdQ' = Append(cmdQ, c)
  <2>1. CASE u = OffTask /\ cmdQ' = cmdQ
    BY <2>1 DEF OffTask
  <2>2. CASE \E c : Sent(t, u, c) /\ cmdQ' = Append(cmdQ, c)
    <3>1. PICK c : Sent(t, u, c) /\ cmdQ' = Append(cmdQ, c)
      BY <2>2
    <3>2. u.todo \subseteq t.todo /\ c \in Command /\ Innocent(c)
      BY <1>3, <1>5, <3>1 DEF Sent, TaskState
    <3> QED BY <1>3, <3>1, <3>2
  <2>3. CASE \E x, S : Drained(t, u, x, S) /\ cmdQ' = Append(cmdQ, DrainCmd(p, x))
    <3>1. PICK x, S : Drained(t, u, x, S) /\ cmdQ' = Append(cmdQ, DrainCmd(p, x))
      BY <2>3
    <3>2. x \in Slot /\ u.todo = {}
      BY <1>1, <1>5, <3>1 DEF Drained, Approved, TaskState
    <3>3. DrainCmd(p, x) \in Command
      BY <3>2, DrainCmdTyped
    <3>4. DrainCmd(p, x).kind \in {"dropMissing", "dropDead", "execute"}
      BY DEF DrainCmd, Cmd
    <3> HIDE DEF Innocent
    <3>5. Innocent(DrainCmd(p, x))
      BY <3>4 DEF Innocent
    <3> QED BY <3>1, <3>2, <3>3, <3>5
  <2> QED BY <1>4, <2>1, <2>2, <2>3 DEF Proceeds
<1>7. \A q \in Task : \A c \in task'[q].todo : Innocent(c)
  BY <1>1, <1>2, <1>4, <1>6
<1>8. UNCHANGED <<live, disk, open, done, hist>>
  BY <1>3 DEF TaskUnchanged
<1>9. Thinned(disk')
  BY <1>8, ThinnedFacts
<1> QED BY <1>6, <1>7, <1>8, <1>9, OnceSends

LEMMA OnceMacro ==
  ASSUME TypeOK, OnceInv,
         \/ HumanSends
         \/ \E s \in Session : AgentReports(s) \/ ProviderCloses(s) \/ ProviderErrs(s)
  PROVE  OnceInv'
<1>1. \A p \in Task : \A c \in task[p].todo : Innocent(c)
  BY DEF OnceInv, CommandsKeyed, Queued, Innocent
<1>2. /\ live \in LiveState /\ ctx \in [Session -> Nat] /\ live.slots \subseteq Slot
      /\ live.active \subseteq Edge
  BY DEF TypeOK, LiveState
<1>3. Thinned(live) /\ Thinned(disk)
  BY ThinnedFacts
<1>4. ASSUME NEW c, Sends(c), Innocent(c), c \in Command PROVE OnceInv'
  <2>1. /\ cmdQ' = Append(cmdQ, c)
        /\ UNCHANGED <<live, disk, task, open, done, hist>>
    BY <1>4 DEF Sends
  <2> QED BY <1>1, <1>3, <1>4, <2>1, OnceSends
<1>5. CASE HumanSends \/ \E s \in Session : AgentReports(s)
  <2>1. PICK c \in Command : Sends(c) /\ Asked(c)
    BY <1>5, SendersSend
  <2>2. Innocent(c)
    BY <2>1 DEF Asked, Innocent, EdgeRule
  <2> QED BY <1>4, <2>1, <2>2
<1>6. CASE \E s \in Session : ProviderCloses(s) \/ ProviderErrs(s)
  <2>1. PICK s \in Session : ProviderCloses(s) \/ ProviderErrs(s)
    BY <1>6
  <2>2. UNCHANGED <<task, open, done, hist>>
    BY <2>1 DEF ProviderCloses, ProviderErrs
  <2>3. /\ live'.slots = live.slots /\ live'.firings = live.firings
        /\ disk' \in {disk, live'}
    <3>1. \/ live' = live /\ disk' = disk
          \/ \E st : live' = [live EXCEPT !.status[s] = st] /\ disk' = live'
      BY <2>1 DEF ProviderCloses, ProviderErrs, FailSession, Write
    <3> QED BY <1>2, <3>1 DEF LiveState
  <2> DEFINE c == [Cmd("complete") EXCEPT !.sess = s, !.n = ctx[s]]
  <2>4. c \in Command /\ c.kind = "complete"
    BY <1>2 DEF Cmd, Command, CmdKind, OnEdge, OnSession, EdgeRule
  <2>5. cmdQ' = cmdQ \/ cmdQ' = Append(cmdQ, c)
    BY <2>1 DEF ProviderCloses, ProviderErrs
  <2>6. Thinned(disk')
    BY <1>3, <2>3 DEF Thinned, States
  <2> HIDE DEF c
  <2>7. Innocent(c)
    BY <2>4 DEF Innocent
  <2>8. \A p \in Task : \A d \in task'[p].todo : Innocent(d)
    BY <1>1, <2>2
  <2> QED BY <2>2, <2>3, <2>4, <2>5, <2>6, <2>7, <2>8, OnceSends
<1> QED BY <1>5, <1>6

LEMMA OnceCrash ==
  ASSUME TypeOK, OnceInv, Crash
  PROVE  OnceInv'
<1> DEFINE F == {s \in Session : disk.status[s] \in {"pending", "running"}}
           killedEdges == {e \in disk.active : \E s \in {Source(e), Target(e)} :
                                                 Recovered(F)[s] = "killed"}
           cappedEdges == {e \in disk.active : AtCap(disk, e)}
<1>1. live' = Restarted(disk, F, killedEdges, cappedEdges) /\ disk' = live'
  BY Zenon DEF Crash, Write
<1>2. /\ task' = [p \in Task |-> OffTask] /\ cmdQ' = <<>> /\ open' = None
      /\ UNCHANGED <<done, hist>>
  BY DEF Crash
<1>3. live'.slots \subseteq disk.slots /\ live'.firings = disk.firings
  BY <1>1 DEF Restarted, StopEdges, TypeOK, LiveState
<1> HIDE DEF F, killedEdges, cappedEdges
<1>4. SlotsOK' /\ FiredKeyed' /\ Counted'
  <2>1. \A L \in States' : Thinned(L)
    BY <1>1, <1>2, <1>3 DEF Thinned, States, Saved
  <2> QED BY <1>2, <2>1, Restores DEF Thinned
<1>5. CommandsKeyed' /\ OpenSlotTaken'
  BY <1>2 DEF CommandsKeyed, Queued, OpenSlotTaken, OffTask
<1> QED BY <1>4, <1>5 DEF OnceInv

------------------------------------------------------------------------------
(* The four steps that do more.                                             *)

(* A command that begins and is one of the rule's has its key fenced off.   *)
LEMMA CurrentInnocent ==
  ASSUME TypeOK, OnceInv, cmdQ # <<>>
  PROVE  Innocent(Current)
<1>1. cmdQ \in Seq(Command)
  BY DEF TypeOK
<1>2. Current = cmdQ[1] /\ 1 \in DOMAIN cmdQ
  BY <1>1 DEF Current
<1> QED BY <1>2 DEF OnceInv, CommandsKeyed, Queued, Innocent

(* A pend that is not a replay parks the first slot its trigger ever had.   *)
LEMMA OncePend ==
  ASSUME TypeOK, OnceInv, Pend
  PROVE  OnceInv'
<1> DEFINE c == Current
           e == c.edge
           gone == c.sup /\ At(live.slots, e, 1) # {}
           S == IF gone THEN live.slots \ At(live.slots, e, 1) ELSE live.slots
           k == IF gone THEN ClosedFact(kernel, e, 1) ELSE kernel
           new(n) == [edge |-> e, n |-> n, trig |-> c.trig, data |-> c.data, ok |-> Def[e].auto]
<1>1. Begins("pend")
  BY DEF Pend
<1>2. c \in Command /\ c.kind = "pend" /\ e \in Edge /\ cmdQ # <<>> /\ c.by \in Task
  BY <1>1, BeginsTyped DEF OnEdge, EdgeRule, Command
<1>3. c.n = 0 /\ ~Def[e].deliver
  BY <1>2, CurrentInnocent DEF Innocent
<1>4. PendKey(e, c.trig) \notin done
  BY <1>1, <1>2, <1>3 DEF Begins, Replayed, Key, PendKey
<1>5. live \in LiveState
  BY DEF TypeOK
<1>6. S \subseteq live.slots
  OBVIOUS
<1> HIDE DEF S, k
<1>7. PICK n \in 1 .. Cardinality(Of(S, e)) + 1 :
        /\ Write([live EXCEPT !.slots = (S \ At(S, e, n)) \cup {new(n)}])
        /\ kernel' = IF Def[e].auto
                     THEN ApprovedFact(PendingFact(k, e, n, c.trig), e, n)
                     ELSE PendingFact(k, e, n, c.trig)
        /\ hist' = [hist EXCEPT !.lost = @ \cup {<<e, x.trig>> : x \in At(S, e, n)}]
        /\ Completes(c)
  BY Zenon DEF Pend, Park, S, k
<1> DEFINE T == (S \ At(S, e, n)) \cup {new(n)}
<1>8. live'.slots = T /\ live'.firings = live.firings /\ disk' = live'
  BY <1>5, <1>7 DEF Write, LiveState
<1>9. hist'.fired = hist.fired
  BY <1>7 DEF TypeOK, History
<1>10. done' = done \cup {PendKey(e, c.trig)}
  BY <1>2, <1>3, <1>7 DEF Completes, Key, PendKey
<1>11. /\ done \subseteq done' /\ States' = {live', disk'} /\ CommandsKeyed' /\ OpenSlotTaken'
  BY <1>2, <1>7, EndsOnce DEF Ends
<1>12. SlotSetOK(live.slots)
  BY DEF OnceInv, SlotsOK, States
<1>13. SlotSetOK(live.slots)'
  <2> DEFINE x0 == new(n)
  <2>1. x0.edge = e /\ x0.n = n /\ x0.trig = c.trig
    OBVIOUS
  <2>2. \A x \in T : x = x0 \/ (x \in live.slots /\ ~(x.edge = e /\ x.n = n))
    BY <1>6 DEF At
  <2>3. \A x \in live.slots : ~(x.edge = e /\ x.trig = c.trig)
    BY <1>4, <1>12 DEF SlotSetOK
  <2>4. <<e, c.trig>> \notin hist.fired
    BY <1>3, <1>4 DEF OnceInv, FiredKeyed
  <2> HIDE DEF x0, T
  <2>5. \A x, y \in T : x.edge = y.edge /\ (x.n = y.n \/ x.trig = y.trig) => x = y
    BY <1>12, <2>1, <2>2, <2>3 DEF SlotSetOK
  <2>6. \A x \in T : /\ ~Def[x.edge].deliver
                     /\ PendKey(x.edge, x.trig) \in done'
                     /\ <<x.edge, x.trig>> \notin hist'.fired
    BY <1>3, <1>9, <1>10, <1>12, <2>1, <2>2, <2>4 DEF SlotSetOK
  <2> QED BY <1>8, <2>5, <2>6 DEF SlotSetOK
<1>14. SlotsOK'
  BY <1>8, <1>11, <1>13 DEF SlotsOK, SlotSetOK
<1>15. FiredKeyed'
  BY <1>9, <1>11 DEF OnceInv, FiredKeyed
<1>16. Counted'
  BY <1>8, <1>9, <1>11 DEF OnceInv, Counted, States
<1> QED BY <1>11, <1>14, <1>15, <1>16 DEF OnceInv

(* An approval marks the one slot under its key.                            *)
LEMMA OnceApprove ==
  ASSUME TypeOK, OnceInv, Approve
  PROVE  OnceInv'
<1> DEFINE c == Current
           mine == At(live.slots, c.edge, c.n)
           marked(x) == [x EXCEPT !.ok = TRUE]
           T == (live.slots \ mine) \cup {marked(x) : x \in mine}
<1>1. cmdQ # <<>> /\ Ends(c)
  BY DEF Approve, Begins, Ends
<1>2. live \in LiveState /\ live.slots \subseteq Slot /\ Thinned(live) /\ Thinned(disk)
  BY ThinnedFacts DEF TypeOK, LiveState
<1>3. CASE mine = {}
  <2>1. UNCHANGED <<live, disk, hist>>
    BY <1>3 DEF Approve, NoChange
  <2> QED BY <1>1, <1>2, <2>1, EndsThinned
<1>4. CASE mine # {}
  <2>1. /\ Write([live EXCEPT !.slots = T])
        /\ hist' = [hist EXCEPT !.granted = @ \cup {<<x.edge, x.trig>> : x \in mine}]
    BY <1>4 DEF Approve
  <2>2. live'.slots = T /\ live'.firings = live.firings /\ disk' = live'
        /\ hist'.fired = hist.fired
    BY <1>2, <2>1 DEF Write, LiveState, TypeOK, History
  <2>3. /\ done \subseteq done' /\ States' = {live', disk'} /\ CommandsKeyed' /\ OpenSlotTaken'
    BY <1>1, EndsOnce
  <2>4. SlotSetOK(live.slots)
    BY DEF OnceInv, SlotsOK, States
  <2>5. \A x \in T : \E y \in live.slots :
          /\ x.edge = y.edge /\ x.n = y.n /\ x.trig = y.trig
          /\ x = IF y \in mine THEN marked(y) ELSE y
    BY <1>2 DEF At, Slot
  <2> HIDE DEF T, mine, marked
  <2>6. SlotSetOK(live.slots)'
    <3>1. \A x, y \in T : x.edge = y.edge /\ (x.n = y.n \/ x.trig = y.trig) => x = y
      <4>1. ASSUME NEW x \in T, NEW y \in T, x.edge = y.edge, x.n = y.n \/ x.trig = y.trig
            PROVE  x = y
        <5>1. PICK a \in live.slots : /\ x.edge = a.edge /\ x.n = a.n /\ x.trig = a.trig
                                      /\ x = IF a \in mine THEN marked(a) ELSE a
          BY <2>5
        <5>2. PICK b \in live.slots : /\ y.edge = b.edge /\ y.n = b.n /\ y.trig = b.trig
                                      /\ y = IF b \in mine THEN marked(b) ELSE b
          BY <2>5
        <5>3. a = b
          BY <2>4, <4>1, <5>1, <5>2 DEF SlotSetOK
        <5> QED BY <5>1, <5>2, <5>3
      <4> QED BY <4>1
    <3>2. \A x \in T : /\ ~Def[x.edge].deliver
                       /\ PendKey(x.edge, x.trig) \in done'
                       /\ <<x.edge, x.trig>> \notin hist'.fired
      <4> SUFFICES ASSUME NEW x \in T
                   PROVE  /\ ~Def[x.edge].deliver
                          /\ PendKey(x.edge, x.trig) \in done'
                          /\ <<x.edge, x.trig>> \notin hist'.fired
        OBVIOUS
      <4>1. PICK y \in live.slots : x.edge = y.edge /\ x.trig = y.trig
        BY <2>5
      <4>2. /\ ~Def[y.edge].deliver
            /\ PendKey(y.edge, y.trig) \in done
            /\ <<y.edge, y.trig>> \notin hist.fired
        BY <2>4 DEF SlotSetOK
      <4> QED BY <2>2, <2>3, <4>1, <4>2
    <3> QED BY <2>2, <3>1, <3>2 DEF SlotSetOK
  <2>7. SlotsOK'
    BY <2>2, <2>3, <2>6 DEF SlotsOK, SlotSetOK
  <2>8. FiredKeyed'
    BY <2>2, <2>3 DEF OnceInv, FiredKeyed
  <2>9. Counted'
    BY <2>2, <2>3 DEF OnceInv, Counted, States
  <2> QED BY <2>3, <2>7, <2>8, <2>9 DEF OnceInv
<1> QED BY <1>3, <1>4

(* One more firing of edge e for trigger t, which it had not fired for.     *)
Fires(e, t) ==
  /\ <<e, t>> \notin hist.fired
  /\ hist'.fired = hist.fired \cup {<<e, t>>}
  /\ Def[e].deliver => DeliverKey(e, t) \in done'
  /\ ~Def[e].deliver => PendKey(e, t) \in done'
  /\ disk' = live' /\ live'.slots \subseteq live.slots
  /\ \A f \in Edge : live'.firings[f] = IF f = e THEN live.firings[f] + 1 ELSE live.firings[f]
  /\ \A x \in live'.slots : ~(x.edge = e /\ x.trig = t)

LEMMA OnceFires ==
  ASSUME TypeOK, OnceInv, cmdQ # <<>>, Ends(Current), NEW e \in Edge, NEW t \in Nat, Fires(e, t)
  PROVE  OnceInv'
<1>1. /\ done \subseteq done' /\ States' = {live', disk'} /\ CommandsKeyed' /\ OpenSlotTaken'
  BY EndsOnce
<1>2. SlotSetOK(live.slots)
  BY DEF OnceInv, SlotsOK, States
<1>3. SlotsOK'
  <2>1. \A x \in live'.slots : <<x.edge, x.trig>> \notin hist'.fired
    BY <1>2 DEF SlotSetOK, Fires
  <2>2. SlotSetOK(live.slots)'
    BY <1>1, <1>2, <2>1 DEF SlotSetOK, Fires
  <2> QED BY <1>1, <2>2 DEF SlotsOK, SlotSetOK, Fires
<1>4. FiredKeyed'
  <2> SUFFICES ASSUME NEW h \in hist'.fired
               PROVE  (IF Def[h[1]].deliver THEN DeliverKey(h[1], h[2])
                       ELSE PendKey(h[1], h[2])) \in done'
    BY DEF FiredKeyed
  <2>1. CASE h \in hist.fired
    BY <1>1, <2>1 DEF OnceInv, FiredKeyed
  <2>2. CASE h = <<e, t>>
    <3>1. h[1] = e /\ h[2] = t
      BY <2>2
    <3> QED BY <3>1 DEF Fires
  <2> QED BY <2>1, <2>2 DEF Fires
<1>5. Counted'
  <2>1. IsFiniteSet(hist.fired)
        /\ \A f \in Edge : live.firings[f] = Cardinality(FiredBy(hist.fired, f))
    BY DEF OnceInv, Counted, States
  <2> DEFINE H == hist.fired \cup {<<e, t>>}
  <2>2. hist'.fired = H /\ <<e, t>> \notin hist.fired
    BY DEF Fires
  <2>3. IsFiniteSet(H)
        /\ \A f : Cardinality(FiredBy(H, f)) =
                    IF f = e THEN Cardinality(FiredBy(hist.fired, f)) + 1
                    ELSE Cardinality(FiredBy(hist.fired, f))
    BY <2>1, <2>2, CountOneMore
  <2> HIDE DEF H
  <2>4. \A f \in Edge : live'.firings[f] = Cardinality(FiredBy(hist'.fired, f))
    BY <2>1, <2>2, <2>3 DEF Fires
  <2> QED BY <1>1, <2>2, <2>3, <2>4 DEF Counted, Fires
<1> QED BY <1>1, <1>3, <1>4, <1>5 DEF OnceInv

(* A delivery that is not a replay is the first of its trigger.             *)
LEMMA OnceDeliverFor ==
  ASSUME TypeOK, OnceInv, DeliverFor
  PROVE  OnceInv'
<1> DEFINE c == Current
           e == c.edge
           L == [live EXCEPT !.firings[e] = @ + 1]
           M == IF AtCap(L, e) THEN StopWithOnStop(L, e) ELSE L
<1>1. Begins("deliverFor")
  BY DEF DeliverFor
<1>2. c \in Command /\ c.kind = "deliverFor" /\ e \in Edge /\ cmdQ # <<>> /\ c.by \in Task
      /\ c.trig \in Nat
  BY <1>1, BeginsTyped DEF OnEdge, EdgeRule, Command
<1>3. Ends(c)
  BY DEF DeliverFor, Ends
<1>4. c.n = 0 /\ Def[e].deliver
  BY <1>2, CurrentInnocent DEF Innocent
<1>5. DeliverKey(e, c.trig) \notin done
  BY <1>1, <1>2, <1>4 DEF Begins, Replayed, Key, DeliverKey
<1>6. live \in LiveState /\ Thinned(live) /\ Thinned(disk)
  BY ThinnedFacts DEF TypeOK
<1>7. CASE e \notin live.active
  <2>1. live' = live /\ disk' = live /\ hist' = hist
    BY <1>7 DEF DeliverFor, Write
  <2> QED BY <1>2, <1>3, <1>6, <2>1, EndsThinned
<1>8. CASE e \in live.active /\ ~c.data
  <2>1. UNCHANGED <<live, disk, hist>>
    BY <1>8 DEF DeliverFor, NoChange
  <2> QED BY <1>2, <1>3, <1>6, <2>1, EndsThinned
<1>9. CASE e \in live.active /\ c.data
  <2>1. /\ Write(M) /\ Completes(c)
        /\ hist' = [hist EXCEPT !.fired = @ \cup {<<e, c.trig>>}]
    BY <1>9, Zenon DEF DeliverFor
  <2>2. L \in LiveState /\ L.slots = live.slots
        /\ L.firings = [live.firings EXCEPT ![e] = @ + 1]
    <3>1. live.firings[e] + 1 \in Nat /\ live.firings \in [Edge -> Nat]
      BY <1>2, <1>6 DEF LiveState
    <3>2. [live.firings EXCEPT ![e] = @ + 1] \in [Edge -> Nat]
      BY <1>2, <3>1
    <3> QED BY <1>6, <3>2 DEF LiveState
  <2> HIDE DEF L
  <2>3. M.slots \subseteq live.slots /\ M.firings = L.firings
    BY <2>2 DEF StopWithOnStop, StopEdges, LiveState
  <2>4. live' = M /\ disk' = M
    BY <2>1 DEF Write
  <2>5. hist'.fired = hist.fired \cup {<<e, c.trig>>}
    BY <2>1 DEF TypeOK, History
  <2>6. done' = done \cup {DeliverKey(e, c.trig)}
    BY <1>2, <1>4, <2>1 DEF Completes, Key, DeliverKey
  <2>7. <<e, c.trig>> \notin hist.fired
    BY <1>4, <1>5 DEF OnceInv, FiredKeyed
  <2>8. \A x \in live.slots : ~Def[x.edge].deliver
    BY DEF OnceInv, SlotsOK, States, SlotSetOK
  <2>9. \A x \in live'.slots : ~(x.edge = e /\ x.trig = c.trig)
    BY <1>4, <2>3, <2>4, <2>8
  <2>10. disk' = live' /\ live'.slots \subseteq live.slots
         /\ live'.firings = [live.firings EXCEPT ![e] = @ + 1]
    BY <2>2, <2>3, <2>4
  <2>11. \A f \in Edge : live'.firings[f] = IF f = e THEN live.firings[f] + 1 ELSE live.firings[f]
    BY <1>2, <1>6, <2>10 DEF LiveState
  <2>12. Fires(e, c.trig)
    BY <1>4, <2>5, <2>6, <2>7, <2>9, <2>10, <2>11 DEF Fires
  <2> QED BY <1>2, <1>3, <2>12, OnceFires
<1> QED BY <1>7, <1>8, <1>9

(* The slot an execution took at its begin is the only one of its trigger.  *)
LEMMA OnceExecuteEnd ==
  ASSUME TypeOK, OnceInv, ExecuteEnd
  PROVE  OnceInv'
<1> DEFINE c == Current
           e == c.edge
           s == Target(e)
           L == [live EXCEPT !.status[s] = "running", !.firings[e] = @ + 1]
           M == IF AtCap(L, e) THEN StopWithOnStop(L, e) ELSE L
           t == open.slot.trig
<1>1. open # None /\ cmdQ # <<>> /\ c.kind = "execute" /\ c \in Command /\ e \in Edge
  BY DEF ExecuteEnd, TypeOK, Current, Command, OnEdge, EdgeRule
<1>2. /\ Write(M) /\ Completes(c)
      /\ hist' = [hist EXCEPT !.fired = @ \cup {<<e, t>>}]
  BY Zenon DEF ExecuteEnd
<1>3. live \in LiveState /\ open.slot \in Slot /\ t \in Nat
  BY <1>1 DEF TypeOK, Slot
<1>4. L \in LiveState /\ L.slots = live.slots
      /\ L.firings = [live.firings EXCEPT ![e] = @ + 1]
  <2>1. s \in Session /\ "running" \in Status
    BY <1>1, DefAssumption DEF Target, EdgeDef, Status
  <2>2. [live.status EXCEPT ![s] = "running"] \in [Session -> Status]
    BY <1>3, <2>1 DEF LiveState
  <2>3. live.firings[e] + 1 \in Nat /\ live.firings \in [Edge -> Nat]
    BY <1>1, <1>3 DEF LiveState
  <2>4. [live.firings EXCEPT ![e] = @ + 1] \in [Edge -> Nat]
    BY <1>1, <2>3
  <2>5. /\ L.status = [live.status EXCEPT ![s] = "running"] /\ L.slots = live.slots
        /\ L.firings = [live.firings EXCEPT ![e] = @ + 1]
    BY <1>3 DEF LiveState
  <2> QED BY <1>3, <2>2, <2>4, <2>5 DEF LiveState
<1> HIDE DEF L
<1>5. M.slots \subseteq live.slots /\ M.firings = L.firings
  BY <1>4 DEF StopWithOnStop, StopEdges, LiveState
<1>6. live' = M /\ disk' = M
  BY <1>2 DEF Write
<1>7. hist'.fired = hist.fired \cup {<<e, t>>}
  BY <1>2 DEF TypeOK, History
<1>8. /\ live.slots \subseteq open.saved.slots
      /\ open.slot \in open.saved.slots \ live.slots
      /\ open.slot.edge = e
  BY <1>1 DEF OnceInv, OpenSlotTaken
<1>9. SlotSetOK(open.saved.slots)
  BY <1>1 DEF OnceInv, SlotsOK, States, Saved
<1>10. ~Def[e].deliver /\ PendKey(e, t) \in done /\ <<e, t>> \notin hist.fired
  BY <1>8, <1>9 DEF SlotSetOK
<1>11. \A x \in live.slots : ~(x.edge = e /\ x.trig = t)
  BY <1>8, <1>9 DEF SlotSetOK
<1>12. Ends(c) /\ done \subseteq done'
  BY <1>2 DEF Ends, Completes
<1>13. \A x \in live'.slots : ~(x.edge = e /\ x.trig = t)
  BY <1>5, <1>6, <1>11
<1>14. disk' = live' /\ live'.slots \subseteq live.slots
       /\ live'.firings = [live.firings EXCEPT ![e] = @ + 1]
  BY <1>4, <1>5, <1>6
<1>15. \A f \in Edge : live'.firings[f] = IF f = e THEN live.firings[f] + 1 ELSE live.firings[f]
  BY <1>1, <1>3, <1>14 DEF LiveState
<1>16. Fires(e, t)
  BY <1>7, <1>10, <1>12, <1>13, <1>14, <1>15 DEF Fires
<1> QED BY <1>1, <1>3, <1>12, <1>16, OnceFires

------------------------------------------------------------------------------
LEMMA OnceInit ==
  ASSUME Init
  PROVE  OnceInv
<1>1. /\ States = {live} /\ live.slots = {} /\ live.firings = [e \in Edge |-> 0]
      /\ hist.fired = {} /\ open = None /\ cmdQ = <<>> /\ task = [p \in Task |-> OffTask]
  BY DEF Init, States, Saved
<1>2. Queued = {}
  BY <1>1 DEF Queued, OffTask
<1>3. \A e : FiredBy({}, e) = {}
  BY DEF FiredBy
<1>4. Counted
  BY <1>1, <1>3, FS_EmptySet DEF Counted
<1> QED BY <1>1, <1>2, <1>4 DEF OnceInv, CommandsKeyed, SlotsOK, SlotSetOK, FiredKeyed,
                               OpenSlotTaken

LEMMA OnceStep ==
  ASSUME TypeOK, OnceInv, [Next]_vars
  PROVE  OnceInv'
<1>1. CASE UNCHANGED vars
  BY <1>1 DEF vars, OnceInv, CommandsKeyed, Queued, SlotsOK, SlotSetOK, States, Saved,
              FiredKeyed, OpenSlotTaken, Counted, Current
<1>2. CASE Next
  <2>1. CASE Work
    BY <2>1, OncePend, OnceApprove, OnceEnds, OnceDeliverFor, OnceBegins, OnceExecuteEnd DEF Work
  <2>2. CASE TakeEvent \/ \E p \in Task : Resume(p)
    BY <2>2, OnceTasks
  <2>3. CASE HumanSends \/ \E s \in Session : AgentReports(s) \/ ProviderCloses(s) \/ ProviderErrs(s)
    BY <2>3, OnceMacro
  <2>4. CASE Abort
    BY <2>4, OnceEnds
  <2>5. CASE Crash
    BY <2>5, OnceCrash
  <2> QED BY <1>2, <2>1, <2>2, <2>3, <2>4, <2>5 DEF Next
<1> QED BY <1>1, <1>2

(* The strengthening holds in every reachable state.                        *)
THEOREM OnceInvariant == Spec => []OnceInv
<1>1. Init => OnceInv
  BY OnceInit
<1>2. TypeOK /\ OnceInv /\ [Next]_vars => OnceInv'
  BY OnceStep
<1> QED BY <1>1, <1>2, TypeCorrect, PTL DEF Spec

(* An edge fires at most once for a trigger event: the counter that its cap *)
(* is compared with counts distinct triggers, through crashes, rollbacks    *)
(* and however many drains run at once.                                     *)
THEOREM FiresOnce == Spec => []FiresOncePerTrigger
<1>1. OnceInv => FiresOncePerTrigger
  BY DEF OnceInv, Counted, States, FiresOncePerTrigger
<1> QED BY <1>1, OnceInvariant, PTL

(* No rollback and no restart parks a firing again that already ran.        *)
THEOREM NoGhost == Spec => []NoParkedGhost
<1>1. OnceInv => NoParkedGhost
  BY DEF OnceInv, SlotsOK, SlotSetOK, States, NoParkedGhost
<1> QED BY <1>1, OnceInvariant, PTL

(* A slot key names at most one slot.                                       *)
THEOREM OneSlot == Spec => []OneSlotPerKey
<1>1. OnceInv => OneSlotPerKey
  BY DEF OnceInv, SlotsOK, SlotSetOK, States, OneSlotPerKey
<1> QED BY <1>1, OnceInvariant, PTL

------------------------------------------------------------------------------
(* Stopped edges.                                                           *)

(* Edges only stop, and nothing fires.                                      *)
Quieter == live'.active \subseteq live.active /\ live'.firings = live.firings

(* One more firing of e, which is stopped when it has had them all.         *)
Counts(e) ==
  /\ e \in live.active \/ Executing(e)
  /\ live'.firings = [live.firings EXCEPT ![e] = @ + 1]
  /\ live'.active \subseteq live.active
  /\ e \in live'.active => ~(Def[e].cap > 0 /\ live'.firings[e] >= Def[e].cap)

(* Nothing forbids a turn of s.                                             *)
Free(s) == live.status[s] # "killed" /\ s \notin live.frozen

(* What a step may do to the edges, and to the turns on their way: a drain  *)
(* dispatches an execution, and an activation opens, after a look.          *)
EdgesGoOn ==
  /\ Quieter \/ \E e \in Edge : Counts(e)
  /\ SameEdges(disk)'
  /\ open' # None => SameEdges(open.saved)'
  /\ \A p \in Task : \A c \in task'[p].todo : c.kind # "execute"
  /\ \A i \in DOMAIN cmdQ' : cmdQ'[i].kind = "execute" =>
       \/ Executing(cmdQ'[i].edge)
       \/ cmdQ'[i].edge \in live.active /\ Free(Target(cmdQ'[i].edge))
  /\ open' # None /\ Current'.kind = "activate" =>
       \/ open # None /\ Current' = Current
       \/ Free(Current'.sess)

(* The end of a command.                                                    *)
LEMMA EndsGoOn ==
  ASSUME TypeOK, EdgeInv, cmdQ # <<>>, Ends(Current),
         Quieter \/ \E e \in Edge : Counts(e), SameEdges(disk)'
  PROVE  EdgesGoOn
<1>1. /\ open' = None
      /\ \A p \in Task : task'[p].todo \subseteq task[p].todo
      /\ \A i \in DOMAIN cmdQ' : \E j \in DOMAIN cmdQ : cmdQ'[i] = cmdQ[j]
  BY EndsOnlyLeave
<1> QED BY <1>1 DEF EdgesGoOn, Executing, EdgeInv

(* Commands that fire nothing: the edges stay, or some of them stop.        *)
LEMMA PlainGoesOn ==
  ASSUME TypeOK, EdgeInv,
         \/ Pend \/ Approve \/ Deny \/ Drop("dropMissing") \/ Drop("dropDead") \/ DropFiring
         \/ Stop \/ StopFor \/ StopKilled \/ Freeze \/ Unfreeze \/ Kill
         \/ Report("issues") \/ Report("clean") \/ Complete \/ Replay
         \/ ActivateEnd \/ WorkflowEnd \/ Abort
  PROVE  EdgesGoOn
<1>1. cmdQ # <<>> /\ Ends(Current)
  BY DEF Pend, Approve, Deny, Drop, DropFiring, Stop, StopFor, StopKilled, Freeze, Unfreeze,
         Kill, Report, Complete, Replay, ActivateEnd, WorkflowEnd, Abort, Begins, Ends, TypeOK
<1>2. live \in LiveState /\ SameEdges(live) /\ SameEdges(disk)
  BY DEF TypeOK, EdgeInv, SameEdges
<1>3. ASSUME NEW L, L.active \subseteq live.active, L.firings = live.firings,
             live' = L, disk' = L
      PROVE  EdgesGoOn
  <2>1. Quieter /\ SameEdges(disk)'
    BY <1>3 DEF Quieter, SameEdges
  <2> QED BY <1>1, <2>1, EndsGoOn
<1>4. CASE UNCHANGED <<live, disk>>
  <2>1. Quieter /\ SameEdges(disk)'
    BY <1>2, <1>4 DEF Quieter, SameEdges
  <2> QED BY <1>1, <2>1, EndsGoOn
<1>5. CASE \E T : Write([live EXCEPT !.slots = T])
  BY <1>2, <1>3, <1>5 DEF Write, LiveState
<1>6. CASE \E T : Write([live EXCEPT !.frozen = T])
  BY <1>2, <1>3, <1>6 DEF Write, LiveState
<1>7. CASE \E s, st : Write([live EXCEPT !.status[s] = st])
  BY <1>2, <1>3, <1>7 DEF Write, LiveState
<1>8. CASE Write(live)
  BY <1>2, <1>3, <1>8 DEF Write
<1>9. CASE Pend
  BY <1>5, <1>9 DEF Pend
<1>10. CASE Approve \/ Deny
  BY <1>4, <1>5, <1>10 DEF Approve, Deny, NoChange
<1>11. CASE Drop("dropMissing") \/ Drop("dropDead")
  BY <1>5, <1>11 DEF Drop
<1>12. CASE DropFiring \/ Report("issues") \/ Report("clean") \/ Replay \/ WorkflowEnd
  BY <1>4, <1>8, <1>12 DEF DropFiring, Report, Replay, NoChange, WorkflowEnd
<1>13. CASE Stop \/ StopFor \/ StopKilled
  <2>1. \A E : /\ StopEdges(live, E).active \subseteq live.active
               /\ StopEdges(live, E).firings = live.firings
    BY <1>2 DEF StopEdges, LiveState
  <2>2. \A e : /\ StopWithOnStop(live, e).active \subseteq live.active
               /\ StopWithOnStop(live, e).firings = live.firings
    BY <1>2 DEF StopWithOnStop, StopEdges, LiveState
  <2>3. \/ Write(live) \/ \E E : Write(StopEdges(live, E))
        \/ \E e : Write(StopWithOnStop(live, e))
    BY <1>13 DEF Stop, StopFor, StopKilled
  <2> QED BY <1>3, <1>8, <2>1, <2>2, <2>3 DEF Write
<1>14. CASE Freeze \/ Unfreeze
  BY <1>6, <1>14 DEF Freeze, Unfreeze
<1>15. CASE Kill \/ ActivateEnd
  BY <1>7, <1>8, <1>15 DEF Kill, ActivateEnd
<1>16. CASE Complete
  BY <1>7, <1>16 DEF Complete, FailSession
<1>17. CASE Abort
  <2>1. live' = open.saved /\ disk' = disk /\ SameEdges(open.saved)
    BY <1>17 DEF Abort, EdgeInv
  <2>2. Quieter /\ SameEdges(disk)'
    BY <1>2, <2>1 DEF Quieter, SameEdges
  <2> QED BY <1>1, <2>2, EndsGoOn
<1> QED BY <1>9, <1>10, <1>11, <1>12, <1>13, <1>14, <1>15, <1>16, <1>17

(* A firing: of an active edge at once, or by the execution that is open.   *)
LEMMA FiringGoesOn ==
  ASSUME TypeOK, EdgeInv, cmdQ # <<>>, Ends(Current), NEW e \in Edge, NEW L \in LiveState,
         e \in live.active \/ Executing(e), L.active = live.active,
         L.firings = [live.firings EXCEPT ![e] = @ + 1],
         Write(IF AtCap(L, e) THEN StopWithOnStop(L, e) ELSE L)
  PROVE  EdgesGoOn
<1>1. disk' = live' /\ live'.firings = L.firings /\ live'.active \subseteq L.active
      /\ (e \in live'.active => ~AtCap(L, e) /\ e \in L.active)
  BY DEF Write, StopWithOnStop, StopEdges, LiveState
<1>2. Counts(e)
  BY <1>1 DEF Counts, AtCap
<1>3. SameEdges(disk)'
  BY <1>1 DEF SameEdges
<1> QED BY <1>2, <1>3, EndsGoOn

LEMMA FiringsGoOn ==
  ASSUME TypeOK, EdgeInv, DeliverFor \/ ExecuteEnd
  PROVE  EdgesGoOn
<1>1. live \in LiveState /\ SameEdges(disk)
  BY DEF TypeOK, EdgeInv
<1>2. CASE DeliverFor
  <2> DEFINE c == Current
             e == c.edge
             L == [live EXCEPT !.firings[e] = @ + 1]
  <2>1. e \in Edge /\ cmdQ # <<>> /\ Ends(c)
    BY <1>2, BeginsTyped DEF DeliverFor, Ends, OnEdge, EdgeRule
  <2>2. CASE e \notin live.active \/ ~c.data
    <3>1. live' = live /\ disk' \in {live, disk}
      BY <1>2, <2>2 DEF DeliverFor, Write, NoChange
    <3>2. Quieter /\ SameEdges(disk)'
      BY <1>1, <3>1 DEF Quieter, SameEdges
    <3> QED BY <2>1, <3>2, EndsGoOn
  <2>3. CASE e \in live.active /\ c.data
    <3>1. Write(IF AtCap(L, e) THEN StopWithOnStop(L, e) ELSE L)
      BY <1>2, <2>3, Zenon DEF DeliverFor
    <3>2. L \in LiveState /\ L.active = live.active
          /\ L.firings = [live.firings EXCEPT ![e] = @ + 1]
      <4>1. live.firings[e] + 1 \in Nat /\ live.firings \in [Edge -> Nat]
        BY <1>1, <2>1 DEF LiveState
      <4>2. [live.firings EXCEPT ![e] = @ + 1] \in [Edge -> Nat]
        BY <2>1, <4>1
      <4> QED BY <1>1, <4>2 DEF LiveState
    <3> HIDE DEF L
    <3> QED BY <2>1, <2>3, <3>1, <3>2, FiringGoesOn
  <2> QED BY <2>2, <2>3
<1>3. CASE ExecuteEnd
  <2> DEFINE c == Current
             e == c.edge
             s == Target(e)
             L == [live EXCEPT !.status[s] = "running", !.firings[e] = @ + 1]
  <2>1. cmdQ # <<>> /\ c.kind = "execute" /\ e \in Edge /\ Ends(c)
    BY <1>3 DEF ExecuteEnd, TypeOK, Current, Command, OnEdge, EdgeRule, Ends
  <2>2. Executing(e)
    <3>1. cmdQ \in Seq(Command)
      BY DEF TypeOK
    <3>2. c = cmdQ[1] /\ 1 \in DOMAIN cmdQ
      BY <2>1, <3>1 DEF Current
    <3> QED BY <2>1, <3>2 DEF Executing
  <2>3. Write(IF AtCap(L, e) THEN StopWithOnStop(L, e) ELSE L)
    BY <1>3, Zenon DEF ExecuteEnd
  <2>4. L \in LiveState /\ L.active = live.active
        /\ L.firings = [live.firings EXCEPT ![e] = @ + 1]
    <3>1. s \in Session /\ "running" \in Status
      BY <2>1, DefAssumption DEF Target, EdgeDef, Status
    <3>2. [live.status EXCEPT ![s] = "running"] \in [Session -> Status]
      BY <1>1, <3>1 DEF LiveState
    <3>3. live.firings[e] + 1 \in Nat /\ live.firings \in [Edge -> Nat]
      BY <1>1, <2>1 DEF LiveState
    <3>4. [live.firings EXCEPT ![e] = @ + 1] \in [Edge -> Nat]
      BY <2>1, <3>3
    <3>5. /\ L.status = [live.status EXCEPT ![s] = "running"] /\ L.active = live.active
          /\ L.firings = [live.firings EXCEPT ![e] = @ + 1]
      BY <1>1 DEF LiveState
    <3> QED BY <1>1, <3>2, <3>4, <3>5 DEF LiveState
  <2> HIDE DEF L
  <2> QED BY <2>1, <2>2, <2>3, <2>4, FiringGoesOn
<1> QED BY <1>2, <1>3

(* An open command starts from the edges there are.                         *)
LEMMA BeginsGoOn ==
  ASSUME TypeOK, EdgeInv, ExecuteBegin \/ ActivateBegin \/ WorkflowBegin
  PROVE  EdgesGoOn
<1>1. cmdQ # <<>> /\ live \in LiveState /\ SameEdges(disk)
  BY DEF ExecuteBegin, ActivateBegin, WorkflowBegin, Begins, TypeOK, EdgeInv
<1>2. CASE Ends(Current) /\ live' = live /\ disk' \in {live, disk}
  <2>1. Quieter /\ SameEdges(disk)'
    BY <1>1, <1>2 DEF Quieter, SameEdges
  <2> QED BY <1>1, <1>2, <2>1, EndsGoOn
<1>3. ASSUME NEW slot, NEW io, NEW L, Opens(slot, io, L), SameEdges(L),
             Current.kind = "activate" => Free(Current.sess)
      PROVE  EdgesGoOn
  <2>1. /\ open' = [saved |-> live, io |-> io, slot |-> slot] /\ live' = L
        /\ UNCHANGED <<disk, task, cmdQ>>
    BY <1>3 DEF Opens
  <2>2. Quieter /\ SameEdges(disk)' /\ SameEdges(open.saved)'
    BY <1>1, <1>3, <2>1 DEF Quieter, SameEdges
  <2>3. Current' = Current
    BY <2>1 DEF Current
  <2> QED BY <1>3, <2>1, <2>2, <2>3 DEF EdgesGoOn, Executing, EdgeInv
<1>4. CASE ExecuteBegin
  <2> DEFINE s == Target(Current.edge)
             mine == At(live.slots, Current.edge, Current.n)
  <2>1. CASE mine = {} \/ proc[s] # 0
    BY <1>2, <1>4, <2>1 DEF ExecuteBegin, Write, NoChange, Ends
  <2>2. CASE mine # {} /\ proc[s] = 0
    <3>1. PICK x \in mine :
            Opens(x, ~bridge, [live EXCEPT !.slots = @ \ mine, !.status[s] = "pending"])
      BY <1>4, <2>2 DEF ExecuteBegin
    <3> DEFINE L == [live EXCEPT !.slots = @ \ mine, !.status[s] = "pending"]
    <3>2. SameEdges(L)
      BY <1>1 DEF LiveState, SameEdges
    <3>3. Current.kind # "activate"
      BY <1>4 DEF ExecuteBegin, Begins
    <3> HIDE DEF L, mine
    <3> QED BY <1>3, <3>1, <3>2, <3>3 DEF L
  <2> QED BY <2>1, <2>2
<1>5. CASE ActivateBegin
  <2> DEFINE L == [live EXCEPT !.status[Current.sess] = "pending"]
  <2>1. CASE Throws(Current) /\ NoChange
    BY <1>2, <2>1 DEF NoChange, Ends
  <2>2. CASE Opens(None, ~bridge, L) /\ Free(Current.sess)
    <3>1. SameEdges(L)
      BY <1>1 DEF LiveState, SameEdges
    <3> HIDE DEF L
    <3> QED BY <1>3, <2>2, <3>1
  <2> QED BY <1>5, <2>1, <2>2 DEF ActivateBegin, Activatable, Free
<1>6. CASE WorkflowBegin
  <2>1. Current.kind # "activate"
    BY <1>6 DEF WorkflowBegin, Begins
  <2> QED BY <1>3, <1>6, <2>1 DEF WorkflowBegin, SameEdges
<1> QED BY <1>4, <1>5, <1>6

(* Steps that dispatch: only a drain dispatches an execution, and only of   *)
(* an active edge whose target is free.                                     *)
LEMMA SendsGoOn ==
  ASSUME TypeOK, EdgeInv, SameEdges(live'), SameEdges(disk'), open' = open,
         \/ cmdQ' = cmdQ
         \/ \E c \in Command :
              /\ c.kind = "execute" => c.edge \in live.active /\ Free(Target(c.edge))
              /\ cmdQ' = Append(cmdQ, c),
         \A p \in Task : \A c \in task'[p].todo : c.kind # "execute"
  PROVE  EdgesGoOn
<1>1. cmdQ \in Seq(Command)
  BY DEF TypeOK
<1>2. \A i \in DOMAIN cmdQ' : cmdQ'[i].kind = "execute" =>
        \/ Executing(cmdQ'[i].edge)
        \/ cmdQ'[i].edge \in live.active /\ Free(Target(cmdQ'[i].edge))
  <2>1. CASE cmdQ' = cmdQ
    BY <2>1 DEF Executing
  <2>2. CASE cmdQ' # cmdQ
    <3>1. PICK c \in Command :
            /\ c.kind = "execute" => c.edge \in live.active /\ Free(Target(c.edge))
            /\ cmdQ' = Append(cmdQ, c)
      BY <2>2
    <3>2. /\ DOMAIN cmdQ' = 1 .. Len(cmdQ) + 1 /\ cmdQ'[Len(cmdQ) + 1] = c
          /\ \A i \in 1 .. Len(cmdQ) : cmdQ'[i] = cmdQ[i]
          /\ DOMAIN cmdQ = 1 .. Len(cmdQ) /\ Len(cmdQ) \in Nat
      BY <1>1, <3>1
    <3>3. \A i \in 1 .. Len(cmdQ) + 1 : i = Len(cmdQ) + 1 \/ i \in 1 .. Len(cmdQ)
      BY <3>2
    <3> QED BY <3>1, <3>2, <3>3 DEF Executing
  <2> QED BY <2>1, <2>2
<1>3. Quieter /\ SameEdges(disk)' /\ (open' # None => SameEdges(open.saved)')
  BY DEF Quieter, SameEdges, EdgeInv
<1>4. open # None => Current' = Current
  <2>1. ASSUME NEW c \in Command, cmdQ # <<>>
        PROVE  Head(Append(cmdQ, c)) = Head(cmdQ)
    BY <1>1, <2>1
  <2> QED BY <2>1 DEF Current, TypeOK
<1> QED BY <1>2, <1>3, <1>4 DEF EdgesGoOn

(* A synchronous run of a task: no execution is among its decisions, and    *)
(* its snapshot is the one the task had.                                    *)
LEMMA TaskRuns ==
  ASSUME TypeOK, EdgeInv, TakeEvent \/ \E p \in Task : Resume(p)
  PROVE  \E p \in Task, t \in TaskState :
           /\ Proceed(p, t) /\ \A c \in t.todo : c.kind # "execute"
           /\ t.slots \subseteq task[p].slots
           /\ TaskUnchanged
<1>1. /\ task \in [Task -> TaskState] /\ live.slots \subseteq Slot /\ live.active \subseteq Edge
      /\ schedQ \in Seq(Event)
  BY DEF TypeOK, LiveState
<1>2. \A p \in Task : \A c \in task[p].todo : c.kind # "execute"
  BY DEF EdgeInv
<1>3. ASSUME NEW ev, NEW c \in Decisions(ev) PROVE c.kind # "execute"
  <2>1. CASE c.kind = "execute"
    <3>1. PICK e \in live.active : c \in Decide(e, ev)
      <4>1. ev.kind # "recover"
        BY <1>3 DEF Decisions
      <4>2. ev.kind # "killed"
        BY <1>3, <2>1 DEF Decisions, Cmd
      <4> QED BY <1>3, <4>1, <4>2 DEF Decisions
    <3>2. /\ c # RuleCmd("stopFor", e, ev) /\ c # RuleCmd("dropFiring", e, ev)
          /\ c # InterruptCmd(e, ev)
          /\ \A d, u \in BOOLEAN : c # DeliverCmd(e, ev, d) /\ c # PendCmd(e, ev, d, u)
      BY <2>1 DEF RuleCmd, InterruptCmd, DeliverCmd, PendCmd, Cmd
    <3>3. \/ \E d \in BOOLEAN : c = DeliverCmd(e, ev, d)
          \/ \E d, u \in BOOLEAN : c = PendCmd(e, ev, d, u)
      BY <3>1, <3>2, DecideShape, Zenon
    <3>4. CASE \E d \in BOOLEAN : c = DeliverCmd(e, ev, d)
      BY <3>2, <3>4, Zenon
    <3>5. CASE \E d, u \in BOOLEAN : c = PendCmd(e, ev, d, u)
      BY <3>2, <3>5, Zenon
    <3> QED BY <3>3, <3>4, <3>5, Zenon
  <2> QED BY <2>1
<1>4. \E p \in Task, t \in TaskState :
        /\ Proceed(p, t) /\ \A c \in t.todo : c.kind # "execute"
        /\ t.slots \subseteq task[p].slots
        /\ TaskUnchanged
  <2>1. CASE TakeEvent
    <3> DEFINE t == [FreshTask EXCEPT !.todo = Decisions(Head(schedQ))]
    <3>1. Head(schedQ) \in Event
      BY <1>1, <2>1 DEF TakeEvent
    <3>2. t \in TaskState /\ t.todo = Decisions(Head(schedQ)) /\ t.slots = {}
      BY <1>1, <3>1, DecisionsTyped DEF FreshTask, TaskState
    <3>3. Chain \in Task
      BY DEF Task
    <3> QED BY <1>3, <2>1, <3>2, <3>3 DEF TakeEvent
  <2>2. CASE \E p \in Task : Resume(p)
    BY <1>1, <1>2, <2>2 DEF Resume
  <2> QED BY <2>1, <2>2
<1> QED BY <1>4

LEMMA TasksGoOn ==
  ASSUME TypeOK, EdgeInv, TakeEvent \/ \E p \in Task : Resume(p)
  PROVE  EdgesGoOn
<1>1. /\ task \in [Task -> TaskState] /\ live.slots \subseteq Slot /\ live.active \subseteq Edge
      /\ schedQ \in Seq(Event)
  BY DEF TypeOK, LiveState
<1>2. \A p \in Task : \A c \in task[p].todo : c.kind # "execute"
  BY DEF EdgeInv
<1>3. PICK p \in Task, t \in TaskState :
        /\ Proceed(p, t) /\ \A c \in t.todo : c.kind # "execute"
        /\ TaskUnchanged
  BY TaskRuns
<1>4. PICK u : task' = [task EXCEPT ![p] = u] /\ Proceeds(p, t, u)
  BY <1>3, ProceedShape
<1>5. t.todo \subseteq Command /\ t.slots \subseteq Slot
  BY DEF TaskState
<1>6. /\ \A c \in u.todo : c.kind # "execute"
      /\ \/ cmdQ' = cmdQ
         \/ \E c \in Command :
              /\ c.kind = "execute" => c.edge \in live.active /\ Free(Target(c.edge))
              /\ cmdQ' = Append(cmdQ, c)
  <2>1. CASE u = OffTask /\ cmdQ' = cmdQ
    BY <2>1 DEF OffTask
  <2>2. CASE \E c : Sent(t, u, c) /\ cmdQ' = Append(cmdQ, c)
    <3>1. PICK c : Sent(t, u, c) /\ cmdQ' = Append(cmdQ, c)
      BY <2>2
    <3>2. u.todo \subseteq t.todo /\ c \in Command /\ c.kind # "execute"
      BY <1>3, <1>5, <3>1 DEF Sent, TaskState
    <3> QED BY <1>3, <3>1, <3>2
  <2>3. CASE \E x, S : Drained(t, u, x, S) /\ cmdQ' = Append(cmdQ, DrainCmd(p, x))
    <3>1. PICK x, S : Drained(t, u, x, S) /\ cmdQ' = Append(cmdQ, DrainCmd(p, x))
      BY <2>3
    <3>2. x \in Slot /\ u.todo = {}
      BY <1>1, <1>5, <3>1 DEF Drained, Approved, TaskState
    <3>3. DrainCmd(p, x) \in Command
      BY <3>2, DrainCmdTyped
    <3>4. /\ DrainCmd(p, x).edge = x.edge
          /\ DrainCmd(p, x).kind = "execute" => x.edge \in live.active /\ ~Dead(Target(x.edge))
      BY DEF DrainCmd, Cmd
    <3>5. DrainCmd(p, x).kind = "execute" => Free(Target(x.edge))
      BY <3>1, <3>4 DEF Drained, Skipped, Dead, Free
    <3> QED BY <3>1, <3>2, <3>3, <3>4, <3>5
  <2> QED BY <1>4, <2>1, <2>2, <2>3 DEF Proceeds
<1>7. \A q \in Task : \A c \in task'[q].todo : c.kind # "execute"
  BY <1>1, <1>2, <1>4, <1>6
<1>8. open' = open /\ SameEdges(live') /\ SameEdges(disk')
  BY <1>3 DEF TaskUnchanged, SameEdges, EdgeInv
<1> QED BY <1>6, <1>7, <1>8, SendsGoOn

LEMMA MacroGoesOn ==
  ASSUME TypeOK, EdgeInv,
         \/ HumanSends
         \/ \E s \in Session : AgentReports(s) \/ ProviderCloses(s) \/ ProviderErrs(s)
  PROVE  EdgesGoOn
<1>1. live \in LiveState /\ ctx \in [Session -> Nat] /\ SameEdges(live) /\ SameEdges(disk)
      /\ \A p \in Task : \A c \in task[p].todo : c.kind # "execute"
  BY DEF TypeOK, EdgeInv, SameEdges
<1>2. CASE HumanSends \/ \E s \in Session : AgentReports(s)
  <2>1. PICK c \in Command : Sends(c) /\ Asked(c)
    BY <1>2, SendersSend
  <2>2. c.kind # "execute" /\ cmdQ' = Append(cmdQ, c) /\ UNCHANGED <<live, disk, task, open>>
    BY <2>1 DEF Asked, Sends, EdgeRule
  <2> QED BY <1>1, <2>2, SendsGoOn
<1>3. CASE \E s \in Session : ProviderCloses(s) \/ ProviderErrs(s)
  <2>1. PICK s \in Session : ProviderCloses(s) \/ ProviderErrs(s)
    BY <1>3
  <2>2. UNCHANGED <<task, open>>
    BY <2>1 DEF ProviderCloses, ProviderErrs
  <2>3. SameEdges(live') /\ SameEdges(disk')
    <3>1. \/ live' = live /\ disk' = disk
          \/ \E st : live' = [live EXCEPT !.status[s] = st] /\ disk' = live'
      BY <2>1 DEF ProviderCloses, ProviderErrs, FailSession, Write
    <3> QED BY <1>1, <3>1 DEF LiveState, SameEdges
  <2> DEFINE c == [Cmd("complete") EXCEPT !.sess = s, !.n = ctx[s]]
  <2>4. c \in Command /\ c.kind = "complete"
    BY <1>1 DEF Cmd, Command, CmdKind, OnEdge, OnSession, EdgeRule
  <2>5. cmdQ' = cmdQ \/ cmdQ' = Append(cmdQ, c)
    BY <2>1 DEF ProviderCloses, ProviderErrs
  <2> HIDE DEF c
  <2> QED BY <1>1, <2>2, <2>3, <2>4, <2>5, SendsGoOn
<1> QED BY <1>2, <1>3

LEMMA CrashGoesOn ==
  ASSUME TypeOK, EdgeInv, Crash
  PROVE  EdgesGoOn
<1> DEFINE F == {s \in Session : disk.status[s] \in {"pending", "running"}}
           killedEdges == {e \in disk.active : \E s \in {Source(e), Target(e)} :
                                                 Recovered(F)[s] = "killed"}
           cappedEdges == {e \in disk.active : AtCap(disk, e)}
<1>1. live' = Restarted(disk, F, killedEdges, cappedEdges) /\ disk' = live'
  BY Zenon DEF Crash, Write
<1>2. task' = [p \in Task |-> OffTask] /\ cmdQ' = <<>> /\ open' = None
  BY DEF Crash
<1> HIDE DEF F, killedEdges, cappedEdges
<1>3. live'.active \subseteq disk.active /\ live'.firings = disk.firings
  BY <1>1 DEF Restarted, StopEdges, TypeOK, LiveState
<1>4. Quieter /\ SameEdges(disk)'
  BY <1>1, <1>3 DEF Quieter, SameEdges, EdgeInv
<1> QED BY <1>2, <1>4 DEF EdgesGoOn, OffTask

LEMMA StepGoesOn ==
  ASSUME TypeOK, EdgeInv, [Next]_vars
  PROVE  EdgesGoOn
<1>1. CASE UNCHANGED vars
  BY <1>1 DEF vars, EdgesGoOn, Quieter, SameEdges, EdgeInv, Executing, Current
<1>2. CASE Next
  <2>1. CASE Work
    BY <2>1, PlainGoesOn, FiringsGoOn, BeginsGoOn DEF Work
  <2>2. CASE TakeEvent \/ \E p \in Task : Resume(p)
    BY <2>2, TasksGoOn
  <2>3. CASE HumanSends \/ \E s \in Session : AgentReports(s) \/ ProviderCloses(s) \/ ProviderErrs(s)
    BY <2>3, MacroGoesOn
  <2>4. CASE Abort
    BY <2>4, PlainGoesOn
  <2>5. CASE Crash
    BY <2>5, CrashGoesOn
  <2> QED BY <1>2, <2>1, <2>2, <2>3, <2>4, <2>5 DEF Next
<1> QED BY <1>1, <1>2

LEMMA EdgesKept ==
  ASSUME TypeOK, TypeOK', EdgeInv, EdgesGoOn
  PROVE  EdgeInv'
<1>1. ASSUME NEW e \in live'.active, Def[e].cap > 0 PROVE live'.firings[e] < Def[e].cap
  <2>1. /\ live.firings \in [Edge -> Nat] /\ live'.firings \in [Edge -> Nat]
        /\ live'.active \subseteq Edge /\ e \in Edge
    BY <1>1 DEF TypeOK, LiveState
  <2>2. e \in live.active /\ live.firings[e] < Def[e].cap
    BY <1>1 DEF EdgesGoOn, Quieter, Counts, EdgeInv, CapRespected
  <2>3. CASE Quieter
    BY <2>2, <2>3 DEF Quieter
  <2>4. CASE \E f \in Edge : Counts(f)
    <3>1. PICK f \in Edge : Counts(f)
      BY <2>4
    <3>2. CASE f = e
      <4>1. Def[e].cap \in Nat
        BY <2>1, DefAssumption DEF EdgeDef
      <4> QED BY <1>1, <2>1, <3>1, <3>2, <4>1 DEF Counts
    <3>3. CASE f # e
      BY <2>1, <2>2, <3>1, <3>3 DEF Counts
    <3> QED BY <3>2, <3>3
  <2> QED BY <2>3, <2>4 DEF EdgesGoOn
<1> QED BY <1>1 DEF EdgeInv, EdgesGoOn, CapRespected

LEMMA EdgesFirst ==
  ASSUME Init
  PROVE  EdgeInv
<1>1. live.firings = [e \in Edge |-> 0] /\ live.active = Edge /\ disk = live /\ open = None
      /\ task = [p \in Task |-> OffTask]
  BY DEF Init
<1>2. \A e \in Edge : Def[e].cap \in Nat
  BY DefAssumption DEF EdgeDef
<1> QED BY <1>1, <1>2 DEF EdgeInv, SameEdges, CapRespected, OffTask

LEMMA EdgesAlways == Spec => []EdgeInv
<1>1. Init => EdgeInv
  BY EdgesFirst
<1>2. TypeOK /\ TypeOK' /\ EdgeInv /\ [Next]_vars => EdgeInv'
  BY StepGoesOn, EdgesKept
<1> QED BY <1>1, <1>2, TypeCorrect, PTL DEF Spec

(* A turn starts only when it was on its way.                               *)
LEMMA StartsAsked ==
  ASSUME TypeOK, [Next]_vars, NEW s \in Session, Starts(s)
  PROVE  OnItsWay(s)
<1>1. proc \in [Session -> Nat] /\ cmdQ \in Seq(Command) /\ proc' # proc
  BY DEF TypeOK, Starts
<1>2. ~(UNCHANGED vars \/ TakeEvent \/ \E p \in Task : Resume(p))
  BY <1>1 DEF vars, TakeEvent, Resume, TaskUnchanged, providers
<1>3. ~(HumanSends \/ \E u \in Session : AgentReports(u))
  BY <1>1 DEF HumanSends, AgentReports, Sends, providers
<1>4. ~(Crash \/ Abort \/ \E u \in Session : ProviderCloses(u) \/ ProviderErrs(u))
  BY <1>1 DEF Crash, Abort, ProviderCloses, ProviderErrs, Starts
<1>5. ~(\/ Replay \/ Pend \/ Approve \/ Deny \/ Drop("dropMissing") \/ Drop("dropDead")
        \/ DropFiring \/ Stop \/ StopFor \/ StopKilled \/ DeliverFor \/ Freeze \/ Unfreeze
        \/ Kill \/ Report("issues") \/ Report("clean") \/ Complete
        \/ ExecuteBegin \/ ActivateBegin \/ WorkflowBegin \/ WorkflowEnd)
  BY <1>1 DEF Replay, Pend, Approve, Deny, Drop, DropFiring, Stop, StopFor, StopKilled, DeliverFor,
       Freeze, Unfreeze, Kill, Report, Complete, ExecuteBegin, ActivateBegin, WorkflowBegin,
       WorkflowEnd, Opens, Rest, providers
<1>6. ExecuteEnd \/ ActivateEnd
  BY <1>2, <1>3, <1>4, <1>5 DEF Next, Work
<1>7. ASSUME NEW u, Launched(u) PROVE u = s
  BY <1>1, <1>7 DEF Launched, Starts
<1>8. CASE ExecuteEnd
  <2>1. Current.kind = "execute" /\ Target(Current.edge) = s /\ cmdQ # <<>>
    BY <1>7, <1>8 DEF ExecuteEnd, TypeOK
  <2>2. Current = cmdQ[1] /\ 1 \in DOMAIN cmdQ
    BY <1>1, <2>1 DEF Current
  <2> QED BY <2>1, <2>2 DEF OnItsWay
<1>9. CASE ActivateEnd
  BY <1>7, <1>9 DEF ActivateEnd, OnItsWay
<1> QED BY <1>6, <1>8, <1>9

(* No turn of a session that is not free gets on its way.                   *)
LEMMA WayKept ==
  ASSUME EdgesGoOn, NEW s \in Session, ~Free(s), ~OnItsWay(s)
  PROVE  ~OnItsWay(s)'
<1>1. \A i \in DOMAIN cmdQ' : cmdQ'[i].kind = "execute" => Target(cmdQ'[i].edge) # s
  BY DEF EdgesGoOn, Executing, OnItsWay
<1>2. open' # None /\ Current'.kind = "activate" => Current'.sess # s
  BY DEF EdgesGoOn, OnItsWay
<1> QED BY <1>1, <1>2 DEF OnItsWay, Target

(* maxFirings (scheduler.ts:178): an edge that has had its firings is       *)
(* stopped, in memory, and after any rollback and restart.                  *)
THEOREM CapStops == Spec => []CapRespected
<1>1. EdgeInv => CapRespected
  BY DEF EdgeInv
<1> QED BY <1>1, EdgesAlways, PTL

(* A stopped edge stays stopped and fires nothing, once what drains had     *)
(* dispatched for it before is over: no slot that a late pend parked, and   *)
(* none an older snapshot holds, is ever executed.                          *)
THEOREM StoppedStays == Spec => StoppedEdgeHolds
<1> DEFINE Holds ==
      \A e \in Edge :
        e \notin live.active /\ ~Executing(e) =>
          /\ e \notin live'.active /\ ~Executing(e)'
          /\ live'.firings[e] = live.firings[e]
<1>1. TypeOK /\ EdgesGoOn => Holds
  <2> SUFFICES ASSUME TypeOK, EdgesGoOn, NEW e \in Edge, e \notin live.active, ~Executing(e)
               PROVE  /\ e \notin live'.active /\ ~Executing(e)'
                      /\ live'.firings[e] = live.firings[e]
    OBVIOUS
  <2>1. live.firings \in [Edge -> Nat]
    BY DEF TypeOK, LiveState
  <2>2. e \notin live'.active /\ live'.firings[e] = live.firings[e]
    BY <2>1 DEF EdgesGoOn, Quieter, Counts
  <2>3. ~Executing(e)'
    BY DEF EdgesGoOn, Executing
  <2> QED BY <2>2, <2>3
<1>2. TypeOK /\ EdgeInv /\ [Next]_vars => [Holds]_vars
  BY <1>1, StepGoesOn
<1> QED BY <1>2, TypeCorrect, EdgesAlways, PTL DEF Spec, StoppedEdgeHolds

(* types.ts:184: from the freeze of a session on, once no turn of it is on  *)
(* its way, none is, however old the snapshots are that drains work on.     *)
THEOREM FrozenStays == Spec => FreezeHolds
<1> DEFINE Holds ==
      \A s \in Session :
        s \in live.frozen /\ s \in live'.frozen /\ ~OnItsWay(s) => ~OnItsWay(s)' /\ ~Starts(s)
<1>1. TypeOK /\ EdgeInv /\ [Next]_vars => [Holds]_vars
  BY StepGoesOn, StartsAsked, WayKept DEF Free
<1> QED BY <1>1, TypeCorrect, EdgesAlways, PTL DEF Spec, FreezeHolds

(* The same from a kill on, for as long as the session counts as killed.    *)
THEOREM KilledStays == Spec => KilledHolds
<1> DEFINE Holds ==
      \A s \in Session :
        live.status[s] = "killed" /\ ~OnItsWay(s) => ~OnItsWay(s)' /\ ~Starts(s)
<1>1. TypeOK /\ EdgeInv /\ [Next]_vars => [Holds]_vars
  BY StepGoesOn, StartsAsked, WayKept DEF Free
<1> QED BY <1>1, TypeCorrect, EdgesAlways, PTL DEF Spec, KilledHolds

------------------------------------------------------------------------------
(* Approvals.  What counts as approved has an approval on record: the       *)
(* record only grows, and all but a pend and an approval keep to the slots  *)
(* that there were.                                                         *)

Shown(x, G) == Def[x.edge].auto \/ <<x.edge, x.trig>> \in G
Vouched(S, G) == \A x \in S : x.ok => Shown(x, G)
KeptSlots(L) == \E K \in States : L.slots \subseteq K.slots

LEMMA KeptVouched ==
  ASSUME GateInv, NEW L, KeptSlots(L), NEW G, hist.granted \subseteq G
  PROVE  Vouched(L.slots, G)
<1>1. PICK K \in States : L.slots \subseteq K.slots
  BY DEF KeptSlots
<1>2. \A x \in K.slots : x.ok => Shown(x, hist.granted)
  BY <1>1 DEF GateInv, Granted, Shown
<1> QED BY <1>1, <1>2 DEF Vouched, Shown

(* GateInv of the next state, said without a prime on what is in it.        *)
LEMMA GateNext ==
  ASSUME \A L \in States' : Vouched(L.slots, hist'.granted),
         \A p \in Task : \A x \in task'[p].slots : Shown(x, hist'.granted),
         \A i \in DOMAIN cmdQ' : cmdQ'[i].kind = "execute" => Shown(cmdQ'[i], hist'.granted)
  PROVE  GateInv'
BY DEF GateInv, Granted, Vouched, Shown

LEMMA GateEnds ==
  ASSUME TypeOK, GateInv, cmdQ # <<>>, Ends(Current), hist.granted \subseteq hist'.granted,
         Vouched(live'.slots, hist'.granted), Vouched(disk'.slots, hist'.granted)
  PROVE  GateInv'
<1>1. /\ open' = None
      /\ \A p \in Task : task'[p].slots \subseteq task[p].slots
      /\ \A i \in DOMAIN cmdQ' : \E j \in DOMAIN cmdQ : cmdQ'[i] = cmdQ[j]
  BY EndsOnlyLeave
<1>2. \A x : Granted(x) => Shown(x, hist'.granted)
  BY DEF Granted, Shown
<1>3. \A L \in States' : Vouched(L.slots, hist'.granted)
  BY <1>1 DEF States, Saved
<1>4. \A p \in Task : \A x \in task'[p].slots : Shown(x, hist'.granted)
  <2> SUFFICES ASSUME NEW p \in Task, NEW x \in task'[p].slots PROVE Shown(x, hist'.granted)
    OBVIOUS
  <2>1. x \in task[p].slots
    BY <1>1
  <2> QED BY <1>2, <2>1 DEF GateInv
<1>5. \A i \in DOMAIN cmdQ' : cmdQ'[i].kind = "execute" => Shown(cmdQ'[i], hist'.granted)
  <2> SUFFICES ASSUME NEW i \in DOMAIN cmdQ', cmdQ'[i].kind = "execute"
               PROVE  Shown(cmdQ'[i], hist'.granted)
    OBVIOUS
  <2>1. PICK j \in DOMAIN cmdQ : cmdQ'[i] = cmdQ[j]
    BY <1>1
  <2> QED BY <1>2, <2>1 DEF GateInv
<1> QED BY <1>3, <1>4, <1>5, GateNext

(* Commands that end and keep to the slots that there were.                 *)
LEMMA GatePlain ==
  ASSUME TypeOK, GateInv,
         \/ Deny \/ Drop("dropMissing") \/ Drop("dropDead") \/ DropFiring
         \/ Stop \/ StopFor \/ StopKilled \/ Freeze \/ Unfreeze \/ Kill
         \/ Report("issues") \/ Report("clean") \/ Complete \/ Replay
         \/ ActivateEnd \/ WorkflowEnd \/ Abort \/ DeliverFor \/ ExecuteEnd
  PROVE  GateInv'
<1>1. ASSUME cmdQ # <<>>, Ends(Current), hist'.granted = hist.granted,
             KeptSlots(live'), KeptSlots(disk')
      PROVE  GateInv'
  BY <1>1, KeptVouched, GateEnds
<1>2. CASE \/ Deny \/ Drop("dropMissing") \/ Drop("dropDead") \/ DropFiring
           \/ Stop \/ StopFor \/ StopKilled \/ Freeze \/ Unfreeze \/ Kill
           \/ Report("issues") \/ Report("clean") \/ Complete \/ Replay
           \/ ActivateEnd \/ WorkflowEnd \/ Abort
  <2>1. /\ cmdQ # <<>> /\ Ends(Current) /\ hist' = hist
        /\ Thinned(live') /\ Thinned(disk')
    BY <1>2, PlainThinned, OpenEndsThinned
  <2> QED BY <1>1, <2>1 DEF Thinned, KeptSlots
<1>3. CASE DeliverFor \/ ExecuteEnd
  <2>1. cmdQ # <<>> /\ Ends(Current)
    BY <1>3 DEF DeliverFor, ExecuteEnd, Begins, Ends, TypeOK
  <2>2. live \in LiveState /\ hist \in History /\ KeptSlots(live) /\ KeptSlots(disk)
    BY DEF TypeOK, KeptSlots, States
  <2>3. ASSUME NEW L \in LiveState, L.slots = live.slots, NEW e, NEW M,
               M = L \/ M = StopWithOnStop(L, e)
        PROVE  KeptSlots(M)
    BY <2>3 DEF StopWithOnStop, StopEdges, LiveState, KeptSlots, States
  <2>4. CASE DeliverFor
    <3> DEFINE e == Current.edge
               L == [live EXCEPT !.firings[e] = @ + 1]
               M == IF AtCap(L, e) THEN StopWithOnStop(L, e) ELSE L
    <3>1. \/ live' = live /\ disk' \in {live, disk} /\ hist' = hist
          \/ Write(M) /\ hist' = [hist EXCEPT !.fired = @ \cup {<<e, Current.trig>>}]
      BY <2>4 DEF DeliverFor, Write, NoChange
    <3>2. L \in LiveState /\ L.slots = live.slots
      BY <2>2 DEF LiveState
    <3>3. KeptSlots(M)
      <4> HIDE DEF L
      <4> QED BY <2>3, <3>2
    <3> HIDE DEF M
    <3>4. /\ hist'.granted = hist.granted
          /\ KeptSlots(live') /\ KeptSlots(disk')
      BY <2>2, <3>1, <3>3 DEF Write, History
    <3> QED BY <1>1, <2>1, <3>4
  <2>5. CASE ExecuteEnd
    <3> DEFINE e == Current.edge
               L == [live EXCEPT !.status[Target(e)] = "running", !.firings[e] = @ + 1]
               M == IF AtCap(L, e) THEN StopWithOnStop(L, e) ELSE L
    <3>1. Write(M) /\ hist' = [hist EXCEPT !.fired = @ \cup {<<e, open.slot.trig>>}]
      BY <2>5 DEF ExecuteEnd
    <3>2. L \in LiveState /\ L.slots = live.slots
      <4>1. /\ "running" \in Status /\ live.status \in [Session -> Status]
            /\ live.firings \in [Edge -> Nat]
        BY <2>2 DEF LiveState, Status
      <4>2. [live.status EXCEPT ![Target(e)] = "running"] \in [Session -> Status]
        BY <4>1
      <4>3. e \in Edge
        <5>1. Current \in Command /\ Current.kind = "execute"
          BY <2>1, <2>5 DEF ExecuteEnd, TypeOK, Current
        <5> QED BY <5>1 DEF Command, OnEdge, EdgeRule
      <4>4. [live.firings EXCEPT ![e] = @ + 1] \in [Edge -> Nat]
        BY <4>1, <4>3
      <4> QED BY <2>2, <4>2, <4>4 DEF LiveState
    <3>3. KeptSlots(M)
      <4> HIDE DEF L
      <4> QED BY <2>3, <3>2
    <3> HIDE DEF M
    <3>4. /\ hist'.granted = hist.granted
          /\ KeptSlots(live') /\ KeptSlots(disk')
      BY <2>2, <3>1, <3>3 DEF Write, History
    <3> QED BY <1>1, <2>1, <3>4
  <2> QED BY <1>3, <2>4, <2>5
<1> QED BY <1>2, <1>3

(* A pend counts as approved only where no approval is asked for.           *)
LEMMA GatePend ==
  ASSUME TypeOK, GateInv, Pend
  PROVE  GateInv'
<1> DEFINE c == Current
           e == c.edge
           gone == c.sup /\ At(live.slots, e, 1) # {}
           S == IF gone THEN live.slots \ At(live.slots, e, 1) ELSE live.slots
           k == IF gone THEN ClosedFact(kernel, e, 1) ELSE kernel
           new(n) == [edge |-> e, n |-> n, trig |-> c.trig, data |-> c.data, ok |-> Def[e].auto]
<1>1. cmdQ # <<>> /\ Ends(c) /\ live \in LiveState /\ hist \in History
  BY DEF Pend, Begins, Ends, TypeOK
<1>2. S \subseteq live.slots
  OBVIOUS
<1> HIDE DEF S, k
<1>3. PICK n \in 1 .. Cardinality(Of(S, e)) + 1 :
        /\ Write([live EXCEPT !.slots = (S \ At(S, e, n)) \cup {new(n)}])
        /\ kernel' = IF Def[e].auto
                     THEN ApprovedFact(PendingFact(k, e, n, c.trig), e, n)
                     ELSE PendingFact(k, e, n, c.trig)
        /\ hist' = [hist EXCEPT !.lost = @ \cup {<<e, x.trig>> : x \in At(S, e, n)}]
        /\ Completes(c)
  BY Zenon DEF Pend, Park, S, k
<1>4. live'.slots = (S \ At(S, e, n)) \cup {new(n)} /\ disk' = live'
      /\ hist'.granted = hist.granted
  BY <1>1, <1>3 DEF Write, LiveState, History
<1>5. Vouched(live.slots, hist.granted)
  BY DEF Vouched, Shown, GateInv, Granted, States
<1>6. new(n).ok = Def[e].auto /\ new(n).edge = e
  OBVIOUS
<1> HIDE DEF new
<1>7. Vouched(live'.slots, hist.granted)
  BY <1>2, <1>4, <1>5, <1>6 DEF Vouched, Shown
<1> QED BY <1>1, <1>4, <1>7, GateEnds

LEMMA GateApprove ==
  ASSUME TypeOK, GateInv, Approve
  PROVE  GateInv'
<1> DEFINE c == Current
           mine == At(live.slots, c.edge, c.n)
           marked(x) == [x EXCEPT !.ok = TRUE]
           T == (live.slots \ mine) \cup {marked(x) : x \in mine}
<1>1. cmdQ # <<>> /\ Ends(c) /\ live \in LiveState /\ live.slots \subseteq Slot
      /\ hist \in History
  BY DEF Approve, Begins, Ends, TypeOK, LiveState
<1>2. CASE mine = {}
  <2>1. UNCHANGED <<live, disk, hist>>
    BY <1>2 DEF Approve, NoChange
  <2>2. KeptSlots(live) /\ KeptSlots(disk)
    BY DEF KeptSlots, States
  <2> QED BY <1>1, <2>1, <2>2, KeptVouched, GateEnds
<1>3. CASE mine # {}
  <2>1. /\ Write([live EXCEPT !.slots = T])
        /\ hist' = [hist EXCEPT !.granted = @ \cup {<<x.edge, x.trig>> : x \in mine}]
    BY <1>3 DEF Approve
  <2>2. /\ live'.slots = T /\ disk' = live'
        /\ hist'.granted = hist.granted \cup {<<x.edge, x.trig>> : x \in mine}
    BY <1>1, <2>1 DEF Write, LiveState, History
  <2>3. Vouched(live.slots, hist.granted)
    BY DEF Vouched, Shown, GateInv, Granted, States
  <2>4. \A y \in mine : y \in Slot /\ marked(y).edge = y.edge /\ marked(y).trig = y.trig
    BY <1>1 DEF At, Slot
  <2> HIDE DEF mine, marked
  <2>5. Vouched(T, hist'.granted)
    BY <2>2, <2>3, <2>4 DEF Vouched, Shown
  <2> QED BY <1>1, <2>2, <2>5, GateEnds
<1> QED BY <1>2, <1>3

(* Beginnings.  An open command keeps the slots it began with.              *)
LEMMA GateBegins ==
  ASSUME TypeOK, GateInv, ExecuteBegin \/ ActivateBegin \/ WorkflowBegin
  PROVE  GateInv'
<1>1. cmdQ # <<>> /\ live \in LiveState /\ KeptSlots(live) /\ KeptSlots(disk)
  BY DEF ExecuteBegin, ActivateBegin, WorkflowBegin, Begins, TypeOK, KeptSlots, States
<1>2. CASE Ends(Current) /\ hist' = hist /\ live' = live /\ disk' \in {live, disk}
  BY <1>1, <1>2, KeptVouched, GateEnds
<1>3. ASSUME NEW slot, NEW io, NEW L, Opens(slot, io, L), L.slots \subseteq live.slots
      PROVE  GateInv'
  <2>1. /\ open' = [saved |-> live, io |-> io, slot |-> slot] /\ live' = L
        /\ UNCHANGED <<disk, task, cmdQ, hist>>
    BY <1>3 DEF Opens
  <2>2. \A K \in States' : KeptSlots(K)
    BY <1>1, <1>3, <2>1 DEF KeptSlots, States, Saved
  <2>3. \A K \in States' : Vouched(K.slots, hist'.granted)
    BY <2>1, <2>2, KeptVouched
  <2> QED BY <2>1, <2>3, GateNext DEF GateInv, Granted, Shown
<1>4. CASE ExecuteBegin
  <2> DEFINE s == Target(Current.edge)
             mine == At(live.slots, Current.edge, Current.n)
  <2>1. CASE mine = {} \/ proc[s] # 0
    BY <1>2, <1>4, <2>1 DEF ExecuteBegin, Write, NoChange, Ends
  <2>2. CASE mine # {} /\ proc[s] = 0
    <3>1. PICK x \in mine :
            Opens(x, ~bridge, [live EXCEPT !.slots = @ \ mine, !.status[s] = "pending"])
      BY <1>4, <2>2 DEF ExecuteBegin
    <3> DEFINE L == [live EXCEPT !.slots = @ \ mine, !.status[s] = "pending"]
    <3>2. L.slots = live.slots \ mine
      BY <1>1 DEF LiveState
    <3> HIDE DEF L, mine
    <3> QED BY <1>3, <3>1, <3>2 DEF L
  <2> QED BY <2>1, <2>2
<1>5. CASE ActivateBegin
  <2> DEFINE L == [live EXCEPT !.status[Current.sess] = "pending"]
  <2>1. CASE Throws(Current) /\ NoChange /\ UNCHANGED hist
    BY <1>2, <2>1 DEF NoChange, Ends
  <2>2. CASE Opens(None, ~bridge, L)
    <3>1. L.slots = live.slots
      BY <1>1 DEF LiveState
    <3> HIDE DEF L
    <3> QED BY <1>3, <2>2, <3>1
  <2> QED BY <1>5, <2>1, <2>2 DEF ActivateBegin
<1>6. CASE WorkflowBegin
  BY <1>3, <1>6 DEF WorkflowBegin
<1> QED BY <1>4, <1>5, <1>6

(* Steps that dispatch: an execution is dispatched for a slot with an       *)
(* approval on record.                                                      *)
LEMMA GateSends ==
  ASSUME TypeOK, GateInv, UNCHANGED <<open, hist>>,
         KeptSlots(live'), KeptSlots(disk'),
         \/ cmdQ' = cmdQ
         \/ \E c \in Command : /\ c.kind = "execute" => Granted(c)
                               /\ cmdQ' = Append(cmdQ, c),
         \A p \in Task : \A x \in task'[p].slots : Granted(x)
  PROVE  GateInv'
<1>1. cmdQ \in Seq(Command)
  BY DEF TypeOK
<1>2. \A i \in DOMAIN cmdQ' : cmdQ'[i].kind = "execute" => Granted(cmdQ'[i])
  <2>1. CASE cmdQ' = cmdQ
    BY <2>1 DEF GateInv
  <2>2. CASE cmdQ' # cmdQ
    <3>1. PICK c \in Command : /\ c.kind = "execute" => Granted(c)
                               /\ cmdQ' = Append(cmdQ, c)
      BY <2>2
    <3>2. /\ DOMAIN cmdQ' = 1 .. Len(cmdQ) + 1 /\ cmdQ'[Len(cmdQ) + 1] = c
          /\ \A i \in 1 .. Len(cmdQ) : cmdQ'[i] = cmdQ[i]
          /\ DOMAIN cmdQ = 1 .. Len(cmdQ) /\ Len(cmdQ) \in Nat
      BY <1>1, <3>1
    <3>3. \A i \in 1 .. Len(cmdQ) + 1 : i = Len(cmdQ) + 1 \/ i \in 1 .. Len(cmdQ)
      BY <3>2
    <3> QED BY <3>1, <3>2, <3>3 DEF GateInv
  <2> QED BY <2>1, <2>2
<1>3. \A L \in States' : KeptSlots(L)
  BY DEF KeptSlots, States, Saved
<1>4. \A L \in States' : Vouched(L.slots, hist'.granted)
  BY <1>3, KeptVouched
<1> QED BY <1>2, <1>4, GateNext DEF Granted, Shown

LEMMA GateTasks ==
  ASSUME TypeOK, EdgeInv, GateInv, TakeEvent \/ \E p \in Task : Resume(p)
  PROVE  GateInv'
<1>1. /\ task \in [Task -> TaskState] /\ live.slots \subseteq Slot
      /\ \A p \in Task : \A x \in task[p].slots : Granted(x)
  BY DEF TypeOK, LiveState, GateInv
<1>2. PICK p \in Task, t \in TaskState :
        /\ Proceed(p, t) /\ \A c \in t.todo : c.kind # "execute"
        /\ t.slots \subseteq task[p].slots
        /\ TaskUnchanged
  BY TaskRuns
<1>3. PICK u : task' = [task EXCEPT ![p] = u] /\ Proceeds(p, t, u)
  BY <1>2, ProceedShape
<1>4. /\ t.todo \subseteq Command /\ t.slots \subseteq Slot
      /\ \A x \in Approved \cup t.slots : x \in Slot /\ Granted(x)
  BY <1>1, <1>2 DEF TaskState, Approved, GateInv, States
<1>5. /\ \A x \in u.slots : Granted(x)
      /\ \/ cmdQ' = cmdQ
         \/ \E c \in Command : /\ c.kind = "execute" => Granted(c)
                               /\ cmdQ' = Append(cmdQ, c)
  <2>1. CASE u = OffTask /\ cmdQ' = cmdQ
    BY <2>1 DEF OffTask
  <2>2. CASE \E c : Sent(t, u, c) /\ cmdQ' = Append(cmdQ, c)
    <3>1. PICK c : Sent(t, u, c) /\ cmdQ' = Append(cmdQ, c)
      BY <2>2
    <3>2. u.slots = t.slots /\ c \in Command /\ c.kind # "execute"
      BY <1>2, <1>4, <3>1 DEF Sent, TaskState
    <3> QED BY <1>4, <3>1, <3>2
  <2>3. CASE \E x, S : Drained(t, u, x, S) /\ cmdQ' = Append(cmdQ, DrainCmd(p, x))
    <3>1. PICK x, S : Drained(t, u, x, S) /\ cmdQ' = Append(cmdQ, DrainCmd(p, x))
      BY <2>3
    <3>2. x \in Slot /\ Granted(x) /\ \A y \in S : Granted(y)
      BY <1>4, <3>1 DEF Drained
    <3>3. u.slots = S
      BY <3>1 DEF Drained, TaskState
    <3>4. DrainCmd(p, x) \in Command
      BY <3>2, DrainCmdTyped
    <3>5. DrainCmd(p, x).edge = x.edge /\ DrainCmd(p, x).trig = x.trig
      BY DEF DrainCmd, Cmd
    <3>6. Granted(DrainCmd(p, x))
      BY <3>2, <3>5 DEF Granted
    <3> QED BY <3>1, <3>2, <3>3, <3>4, <3>6
  <2> QED BY <1>3, <2>1, <2>2, <2>3 DEF Proceeds
<1>6. \A q \in Task : \A x \in task'[q].slots : Granted(x)
  BY <1>1, <1>3, <1>5
<1>7. UNCHANGED <<live, disk, open, hist>> /\ KeptSlots(live) /\ KeptSlots(disk)
  BY <1>2 DEF TaskUnchanged, KeptSlots, States
<1> QED BY <1>5, <1>6, <1>7, GateSends

LEMMA GateMacro ==
  ASSUME TypeOK, GateInv,
         \/ HumanSends
         \/ \E s \in Session : AgentReports(s) \/ ProviderCloses(s) \/ ProviderErrs(s)
  PROVE  GateInv'
<1>1. /\ live \in LiveState /\ ctx \in [Session -> Nat] /\ KeptSlots(live) /\ KeptSlots(disk)
      /\ \A p \in Task : \A x \in task[p].slots : Granted(x)
  BY DEF TypeOK, KeptSlots, States, GateInv
<1>2. CASE HumanSends \/ \E s \in Session : AgentReports(s)
  <2>1. PICK c \in Command : Sends(c) /\ Asked(c)
    BY <1>2, SendersSend
  <2>2. /\ c.kind # "execute" /\ cmdQ' = Append(cmdQ, c)
        /\ UNCHANGED <<live, disk, task, open, hist>>
    BY <2>1 DEF Asked, Sends, EdgeRule
  <2> QED BY <1>1, <2>2, GateSends
<1>3. CASE \E s \in Session : ProviderCloses(s) \/ ProviderErrs(s)
  <2>1. PICK s \in Session : ProviderCloses(s) \/ ProviderErrs(s)
    BY <1>3
  <2>2. UNCHANGED <<task, open, hist>>
    BY <2>1 DEF ProviderCloses, ProviderErrs
  <2>3. live'.slots = live.slots /\ disk' \in {disk, live'}
    <3>1. \/ live' = live /\ disk' = disk
          \/ \E st : live' = [live EXCEPT !.status[s] = st] /\ disk' = live'
      BY <2>1 DEF ProviderCloses, ProviderErrs, FailSession, Write
    <3> QED BY <1>1, <3>1 DEF LiveState
  <2>4. KeptSlots(live') /\ KeptSlots(disk')
    BY <1>1, <2>3 DEF KeptSlots
  <2> DEFINE c == [Cmd("complete") EXCEPT !.sess = s, !.n = ctx[s]]
  <2>5. c \in Command /\ c.kind = "complete"
    BY <1>1 DEF Cmd, Command, CmdKind, OnEdge, OnSession, EdgeRule
  <2>6. cmdQ' = cmdQ \/ cmdQ' = Append(cmdQ, c)
    BY <2>1 DEF ProviderCloses, ProviderErrs
  <2> HIDE DEF c
  <2> QED BY <1>1, <2>2, <2>4, <2>5, <2>6, GateSends
<1> QED BY <1>2, <1>3

LEMMA GateCrash ==
  ASSUME TypeOK, GateInv, Crash
  PROVE  GateInv'
<1> DEFINE F == {s \in Session : disk.status[s] \in {"pending", "running"}}
           killedEdges == {e \in disk.active : \E s \in {Source(e), Target(e)} :
                                                 Recovered(F)[s] = "killed"}
           cappedEdges == {e \in disk.active : AtCap(disk, e)}
<1>1. live' = Restarted(disk, F, killedEdges, cappedEdges) /\ disk' = live'
  BY Zenon DEF Crash, Write
<1>2. /\ task' = [p \in Task |-> OffTask] /\ cmdQ' = <<>> /\ open' = None
      /\ UNCHANGED hist
  BY DEF Crash
<1> HIDE DEF F, killedEdges, cappedEdges
<1>3. live'.slots \subseteq disk.slots
  BY <1>1 DEF Restarted, StopEdges, TypeOK, LiveState
<1>4. \A L \in States' : KeptSlots(L)
  BY <1>1, <1>2, <1>3 DEF KeptSlots, States, Saved
<1>5. \A L \in States' : Vouched(L.slots, hist'.granted)
  BY <1>2, <1>4, KeptVouched
<1> QED BY <1>2, <1>5, GateNext DEF OffTask

LEMMA GateStep ==
  ASSUME TypeOK, EdgeInv, GateInv, [Next]_vars
  PROVE  GateInv'
<1>1. CASE UNCHANGED vars
  BY <1>1 DEF vars, GateInv, Granted, States, Saved
<1>2. CASE Next
  <2>1. CASE Work
    BY <2>1, GatePlain, GatePend, GateApprove, GateBegins DEF Work
  <2>2. CASE TakeEvent \/ \E p \in Task : Resume(p)
    BY <2>2, GateTasks
  <2>3. CASE HumanSends \/ \E s \in Session : AgentReports(s) \/ ProviderCloses(s) \/ ProviderErrs(s)
    BY <2>3, GateMacro
  <2>4. CASE Abort
    BY <2>4, GatePlain
  <2>5. CASE Crash
    BY <2>5, GateCrash
  <2> QED BY <1>2, <2>1, <2>2, <2>3, <2>4, <2>5 DEF Next
<1> QED BY <1>1, <1>2

LEMMA GateAlways == Spec => []GateInv
<1>1. Init => GateInv
  BY DEF Init, GateInv, States, Saved, OffTask
<1>2. TypeOK /\ EdgeInv /\ GateInv /\ [Next]_vars => GateInv'
  BY GateStep
<1> QED BY <1>1, <1>2, TypeCorrect, EdgesAlways, PTL DEF Spec

(* Only the end of an execution, and a delivery, fire.                      *)
LEMMA FiresWhere ==
  ASSUME TypeOK, OnceInv, [Next]_vars, NEW h \in hist'.fired, h \notin hist.fired
  PROVE  \/ Current.kind = "execute" /\ cmdQ # <<>> /\ h[1] = Current.edge
         \/ Def[h[1]].deliver
<1>1. hist \in History /\ hist'.fired # hist.fired /\ cmdQ \in Seq(Command)
  BY DEF TypeOK
<1>2. ~(UNCHANGED vars \/ TakeEvent \/ \E p \in Task : Resume(p))
  BY <1>1 DEF vars, TakeEvent, Resume, TaskUnchanged
<1>3. ~(Crash \/ Abort \/ HumanSends
        \/ \E u \in Session : AgentReports(u) \/ ProviderCloses(u) \/ ProviderErrs(u))
  BY <1>1 DEF Crash, Abort, HumanSends, AgentReports, Sends, ProviderCloses, ProviderErrs
<1>4. ~(\/ Deny \/ Drop("dropMissing") \/ Drop("dropDead") \/ DropFiring
        \/ Stop \/ StopFor \/ StopKilled \/ Freeze \/ Unfreeze \/ Kill
        \/ Report("issues") \/ Report("clean") \/ Complete \/ Replay
        \/ ActivateEnd \/ WorkflowEnd)
  BY <1>1, PlainThinned, OpenEndsThinned
<1>5. ~(Pend \/ Approve \/ ExecuteBegin \/ ActivateBegin \/ WorkflowBegin)
  <2>1. \A l : [hist EXCEPT !.lost = l].fired = hist.fired
    BY <1>1 DEF History
  <2>2. \A g : [hist EXCEPT !.granted = g].fired = hist.fired
    BY <1>1 DEF History
  <2>3. ~Pend
    BY <1>1, <2>1, Zenon DEF Pend
  <2>4. ~Approve
    BY <1>1, <2>2 DEF Approve
  <2> QED BY <1>1, <2>3, <2>4 DEF ExecuteBegin, ActivateBegin, WorkflowBegin, Opens
<1>6. DeliverFor \/ ExecuteEnd
  BY <1>2, <1>3, <1>4, <1>5 DEF Next, Work
<1>7. CASE ExecuteEnd
  <2>1. /\ Current.kind = "execute" /\ cmdQ # <<>>
        /\ hist' = [hist EXCEPT !.fired = @ \cup {<<Current.edge, open.slot.trig>>}]
    BY <1>7 DEF ExecuteEnd, TypeOK
  <2>2. h = <<Current.edge, open.slot.trig>>
    BY <1>1, <2>1 DEF History
  <2> QED BY <2>1, <2>2
<1>8. CASE DeliverFor
  <2>1. /\ Current.kind = "deliverFor" /\ cmdQ # <<>>
        /\ \/ hist' = hist
           \/ hist' = [hist EXCEPT !.fired = @ \cup {<<Current.edge, Current.trig>>}]
    BY <1>8 DEF DeliverFor, Begins
  <2>2. h = <<Current.edge, Current.trig>>
    BY <1>1, <2>1 DEF History
  <2>3. Def[Current.edge].deliver
    BY <2>1, CurrentInnocent DEF Innocent
  <2> QED BY <2>2, <2>3
<1> QED BY <1>6, <1>7, <1>8

(* schedulerRuntime.ts:589: what an execution was dispatched for had been   *)
(* approved, where a person has to approve it, for the very trigger that    *)
(* fires, whatever became of the key in between.                            *)
THEOREM GateHolds == Spec => ApprovedFires
<1> DEFINE Holds ==
      \A h \in hist'.fired \ hist.fired :
        ~Def[h[1]].auto /\ ~Def[h[1]].deliver /\ Current.trig = h[2] => h \in hist.granted
<1>1. TypeOK /\ OnceInv /\ GateInv /\ [Next]_vars => [Holds]_vars
  <2> SUFFICES ASSUME TypeOK, OnceInv, GateInv, [Next]_vars,
                      NEW h \in hist'.fired, h \notin hist.fired,
                      ~Def[h[1]].auto, ~Def[h[1]].deliver, Current.trig = h[2]
               PROVE  h \in hist.granted
    OBVIOUS
  <2>1. Current.kind = "execute" /\ cmdQ # <<>> /\ h[1] = Current.edge
    BY FiresWhere
  <2>2. Current = cmdQ[1] /\ 1 \in DOMAIN cmdQ
    BY <2>1 DEF Current, TypeOK
  <2>3. <<h[1], h[2]>> \in hist.granted
    BY <2>1, <2>2 DEF GateInv, Granted
  <2>4. h = <<h[1], h[2]>>
    BY TypeStep DEF TypeOK, History
  <2> QED BY <2>3, <2>4
<1> QED BY <1>1, TypeCorrect, OnceInvariant, GateAlways, PTL DEF Spec, ApprovedFires

------------------------------------------------------------------------------
(* A pend is still right when its turn comes.                               *)

(* Only the scheduler chain pends; it awaits one command at a time.         *)
OnlyChain ==
  /\ \A p \in Drains : task[p].todo = {}
  /\ \A c \in task[Chain].todo : c.by = Chain
  /\ \A i \in DOMAIN cmdQ : cmdQ[i].kind = "pend" => cmdQ[i].by = Chain
OneAtATime ==
  \A i \in DOMAIN cmdQ : cmdQ[i].by = Chain =>
    task[Chain].pc = "wait" /\ \A j \in DOMAIN cmdQ : cmdQ[j].by = Chain => i = j

(* An event pends an edge at most once.                                     *)
OnePend ==
  \A c \in task[Chain].todo : c.kind = "pend" =>
    /\ \A d \in task[Chain].todo : d.kind = "pend" /\ d.edge = c.edge => d = c
    /\ \A i \in DOMAIN cmdQ : cmdQ[i].kind = "pend" => cmdQ[i].edge # c.edge

(* A pend that supersedes nothing finds nothing under its key.              *)
Accurate(c) ==
  c.kind = "pend" /\ Def[c.edge].policy # "queue" /\ ~c.sup => At(live.slots, c.edge, 1) = {}
NothingLost == hist.lost = {} /\ \A c \in Queued : Accurate(c)

PendShape == OnlyChain /\ OneAtATime /\ OnePend /\ left.abort <= MaxAbort
PendInv == PendShape /\ (left.abort = MaxAbort => NothingLost)

(* No slot appears under a plain key.                                       *)
KeysKept == \A e \in Edge : At(live.slots, e, 1) = {} => At(live'.slots, e, 1) = {}

LEMMA AccurateKept ==
  ASSUME NothingLost, KeysKept, hist'.lost = hist.lost,
         \A c \in Queued' : c.kind = "pend" => c \in Queued /\ c.edge \in Edge
  PROVE  NothingLost'
BY DEF NothingLost, KeysKept, Accurate

(* The end of a command: it leaves the queue, and no pend is added.         *)
LEMMA EndsShape ==
  ASSUME TypeOK, PendShape, cmdQ # <<>>, Ends(Current), left'.abort <= left.abort,
         left'.abort \in Nat
  PROVE  /\ PendShape'
         /\ \A c \in Queued' : c.kind = "pend" =>
              /\ c \in Queued /\ c.edge \in Edge
              /\ Current.kind = "pend" => c.edge # Current.edge
<1>1. cmdQ \in Seq(Command) /\ task \in [Task -> TaskState] /\ Current \in Command
  BY DEF TypeOK, Current
<1>2. cmdQ' = Tail(cmdQ)
  BY <1>1, EndsTyped
<1>3. DOMAIN cmdQ' = 1 .. Len(cmdQ) - 1 /\ DOMAIN cmdQ = 1 .. Len(cmdQ) /\ Len(cmdQ) \in Nat
  <2>1. Len(Tail(cmdQ)) = Len(cmdQ) - 1 /\ Len(cmdQ) \in Nat
    BY <1>1
  <2>2. DOMAIN cmdQ' = 1 .. Len(Tail(cmdQ)) /\ DOMAIN cmdQ = 1 .. Len(cmdQ)
    BY <1>1, <1>2
  <2> QED BY <2>1, <2>2
<1>4. \A i \in DOMAIN cmdQ' : cmdQ'[i] = cmdQ[i + 1] /\ i + 1 \in DOMAIN cmdQ /\ i + 1 # 1
  BY <1>1, <1>2, <1>3
<1>5. Current = cmdQ[1] /\ 1 \in DOMAIN cmdQ
  BY <1>1 DEF Current
<1>6. Chain \in Task /\ Chain \notin Drains /\ \A p \in Drains : p \in Task
  BY DEF Chain, Drains, Task
<1>7. \A p \in Task : task'[p].todo \subseteq task[p].todo
  <2>1. \/ task' = task
        \/ \E p \in Task : \/ task' = [task EXCEPT ![p].pc = "ready"]
                           \/ task' = [task EXCEPT ![p] = OffTask]
                           \/ task' = [task EXCEPT ![p] = FreshTask]
    BY DEF Ends, Completes, Throws, CompletesAndDrains, Task
  <2> QED BY <1>1, <2>1 DEF OffTask, FreshTask, TaskState
<1>8. Current.by # Chain => task'[Chain] = task[Chain]
  BY <1>1, <1>6 DEF Ends, Completes, Throws, CompletesAndDrains
<1>9. OnlyChain'
  BY <1>4, <1>6, <1>7 DEF PendShape, OnlyChain
<1>10. OneAtATime'
  <2>1. ASSUME NEW i \in DOMAIN cmdQ', cmdQ'[i].by = Chain
        PROVE  /\ task'[Chain].pc = "wait"
               /\ \A j \in DOMAIN cmdQ' : cmdQ'[j].by = Chain => i = j
    <3>1. i + 1 \in DOMAIN cmdQ /\ cmdQ[i + 1].by = Chain /\ i + 1 # 1 /\ i \in Int
      BY <1>3, <1>4, <2>1
    <3>2. task[Chain].pc = "wait" /\ \A j \in DOMAIN cmdQ : cmdQ[j].by = Chain => i + 1 = j
      BY <3>1 DEF PendShape, OneAtATime
    <3>3. Current.by # Chain
      BY <1>5, <3>1, <3>2
    <3>4. ASSUME NEW j \in DOMAIN cmdQ', cmdQ'[j].by = Chain PROVE i = j
      <4>1. i + 1 = j + 1 /\ j \in Int
        BY <1>3, <1>4, <3>2, <3>4
      <4> QED BY <3>1, <4>1
    <3> QED BY <1>8, <3>2, <3>3, <3>4
  <2> QED BY <2>1 DEF OneAtATime
<1>11. OnePend'
  BY <1>4, <1>6, <1>7 DEF PendShape, OnePend
<1>12. ASSUME NEW c \in Queued', c.kind = "pend"
       PROVE  c \in Queued /\ c.edge \in Edge /\ (Current.kind = "pend" => c.edge # Current.edge)
  <2>1. CASE \E i \in DOMAIN cmdQ' : c = cmdQ'[i]
    <3>1. PICK i \in DOMAIN cmdQ' : c = cmdQ'[i]
      BY <2>1
    <3>2. c = cmdQ[i + 1] /\ i + 1 \in DOMAIN cmdQ /\ i + 1 # 1
      BY <1>4, <3>1
    <3>3. c \in Command
      BY <1>1, <3>2
    <3>4. Current.kind # "pend"
      BY <1>5, <1>12, <3>2 DEF PendShape, OnlyChain, OneAtATime
    <3> QED BY <1>12, <3>2, <3>3, <3>4 DEF Queued, Command, OnEdge, EdgeRule
  <2>2. CASE \E p \in Task : c \in task'[p].todo
    <3>1. PICK p \in Task : c \in task'[p].todo
      BY <2>2
    <3>2. c \in task[p].todo /\ c \in Command
      BY <1>1, <1>7, <3>1 DEF TaskState
    <3>3. p = Chain
      BY <3>2 DEF PendShape, OnlyChain, Task
    <3>4. Current.kind = "pend" => c.edge # Current.edge
      BY <1>5, <1>12, <3>2, <3>3 DEF PendShape, OnePend
    <3> QED BY <1>12, <3>2, <3>4 DEF Queued, Command, OnEdge, EdgeRule
  <2> QED BY <2>1, <2>2 DEF Queued
<1>13. left'.abort <= MaxAbort
  BY BoundAssumption DEF PendShape, TypeOK, Budget
<1> QED BY <1>9, <1>10, <1>11, <1>12, <1>13 DEF PendShape

(* Commands that park nothing.                                              *)
LEMMA PendEnds ==
  ASSUME TypeOK, PendInv, cmdQ # <<>>, Ends(Current),
         hist'.lost = hist.lost, left' = left, KeysKept
  PROVE  PendInv'
<1>1. left.abort \in Nat
  BY DEF TypeOK, Budget
<1>2. PendShape' /\ \A c \in Queued' : c.kind = "pend" => c \in Queued /\ c.edge \in Edge
  BY <1>1, EndsShape DEF PendInv
<1> QED BY <1>2, AccurateKept DEF PendInv

LEMMA ThinnerKeeps ==
  ASSUME live'.slots \subseteq live.slots PROVE KeysKept
BY DEF KeysKept, At

LEMMA PendPlain ==
  ASSUME TypeOK, PendInv,
         \/ Approve \/ Deny \/ Drop("dropMissing") \/ Drop("dropDead") \/ DropFiring
         \/ Stop \/ StopFor \/ StopKilled \/ DeliverFor \/ Freeze \/ Unfreeze \/ Kill
         \/ Report("issues") \/ Report("clean") \/ Complete \/ Replay
         \/ ExecuteEnd \/ ActivateEnd \/ WorkflowEnd
  PROVE  PendInv'
<1>1. cmdQ # <<>> /\ Ends(Current) /\ left' = left
  BY DEF Approve, Deny, Drop, DropFiring, Stop, StopFor, StopKilled, DeliverFor, Freeze, Unfreeze,
         Kill, Report, Complete, Replay, ExecuteEnd, ActivateEnd, WorkflowEnd, Begins, Ends, Rest,
         TypeOK
<1>2. live \in LiveState /\ hist \in History
  BY DEF TypeOK
<1>3. hist'.lost = hist.lost
  BY <1>2 DEF Approve, Deny, Drop, DropFiring, Stop, StopFor, StopKilled, DeliverFor, Freeze,
         Unfreeze, Kill, Report, Complete, Replay, ExecuteEnd, ActivateEnd, WorkflowEnd, History
<1>4. KeysKept
  <2>1. CASE Approve
    <3> DEFINE mine == At(live.slots, Current.edge, Current.n)
               T == (live.slots \ mine) \cup {[x EXCEPT !.ok = TRUE] : x \in mine}
    <3>1. live'.slots = live.slots \/ live'.slots = T
      BY <1>2, <2>1 DEF Approve, Write, NoChange, LiveState
    <3>2. \A x \in live.slots : [x EXCEPT !.ok = TRUE].edge = x.edge /\ [x EXCEPT !.ok = TRUE].n = x.n
      BY <1>2 DEF LiveState, Slot
    <3>3. ASSUME NEW e \in Edge, NEW y \in T, y.edge = e, y.n = 1
          PROVE  At(live.slots, e, 1) # {}
      BY <3>2, <3>3 DEF At
    <3> HIDE DEF T
    <3> QED BY <3>1, <3>3 DEF KeysKept, At
  <2>2. CASE ~Approve
    <3>1. live'.slots \subseteq live.slots
      <4>1. CASE Deny \/ Drop("dropMissing") \/ Drop("dropDead")
        BY <1>2, <4>1 DEF Deny, Drop, Write, NoChange, LiveState
      <4>2. CASE DropFiring \/ Report("issues") \/ Report("clean") \/ Replay \/ WorkflowEnd
        BY <4>2 DEF DropFiring, Report, Replay, WorkflowEnd, Write, NoChange
      <4>3. \A L \in LiveState : /\ \A E : StopEdges(L, E).slots \subseteq L.slots
                                 /\ \A e : StopWithOnStop(L, e).slots \subseteq L.slots
        BY DEF StopEdges, StopWithOnStop, LiveState
      <4>4. CASE Stop \/ StopFor \/ StopKilled
        BY <1>2, <4>3, <4>4 DEF Stop, StopFor, StopKilled, Write
      <4>5. CASE Freeze \/ Unfreeze \/ Kill
        BY <1>2, <4>5 DEF Freeze, Unfreeze, Kill, Write, LiveState
      <4>6. CASE Complete \/ ActivateEnd
        <5>1. \E st : live' = [live EXCEPT !.status[Current.sess] = st]
          BY <4>6 DEF Complete, ActivateEnd, FailSession, Write
        <5> QED BY <1>2, <5>1 DEF LiveState
      <4>7. CASE DeliverFor
        <5>1. Current.edge \in Edge
          BY <4>7, BeginsTyped DEF DeliverFor, OnEdge, EdgeRule
        <5> DEFINE L == [live EXCEPT !.firings[Current.edge] = @ + 1]
        <5>2. L \in LiveState /\ L.slots = live.slots
          BY <1>2, <5>1 DEF LiveState
        <5>3. live' = live \/ live' = L \/ live' = StopWithOnStop(L, Current.edge)
          BY <4>7 DEF DeliverFor, Write, NoChange
        <5> HIDE DEF L
        <5> QED BY <4>3, <5>2, <5>3
      <4>8. CASE ExecuteEnd
        <5>1. Current.edge \in Edge
          BY <4>8, <1>1 DEF ExecuteEnd, TypeOK, Current, Command, OnEdge, EdgeRule
        <5> DEFINE s == Target(Current.edge)
                   L == [live EXCEPT !.status[s] = "running", !.firings[Current.edge] = @ + 1]
        <5>2. s \in Session
          BY <5>1, DefAssumption DEF Target, EdgeDef
        <5>3. L.slots = live.slots /\ L \in LiveState
          <6>1. L = [live EXCEPT !.status = [live.status EXCEPT ![s] = "running"],
                                 !.firings = [live.firings EXCEPT ![Current.edge] = @ + 1]]
            BY <1>2 DEF LiveState
          <6>2. [live.status EXCEPT ![s] = "running"] \in [Session -> Status]
            BY <1>2, <5>2 DEF LiveState, Status
          <6>3. [live.firings EXCEPT ![Current.edge] = @ + 1] \in [Edge -> Nat]
            BY <1>2, <5>1 DEF LiveState
          <6> HIDE DEF L
          <6> QED BY <1>2, <6>1, <6>2, <6>3 DEF LiveState
        <5>4. live' = L \/ live' = StopWithOnStop(L, Current.edge)
          BY <4>8 DEF ExecuteEnd, Write
        <5> HIDE DEF L
        <5> QED BY <4>3, <5>3, <5>4
      <4> QED BY <2>2, <4>1, <4>2, <4>4, <4>5, <4>6, <4>7, <4>8
    <3> QED BY <3>1, ThinnerKeeps
  <2> QED BY <2>1, <2>2
<1> QED BY <1>1, <1>3, <1>4, PendEnds

(* A pend takes only what it supersedes away.                               *)
LEMMA PendPend ==
  ASSUME TypeOK, PendInv, Pend
  PROVE  PendInv'
<1> DEFINE c == Current
           e == c.edge
           gone == c.sup /\ At(live.slots, e, 1) # {}
           S == IF gone THEN live.slots \ At(live.slots, e, 1) ELSE live.slots
           new(n) == [edge |-> e, n |-> n, trig |-> c.trig, data |-> c.data, ok |-> Def[e].auto]
<1>1. Begins("pend") /\ Ends(c) /\ left' = left
  BY DEF Pend, Ends, Rest
<1>2. c \in Command /\ c.kind = "pend" /\ e \in Edge /\ cmdQ # <<>> /\ cmdQ \in Seq(Command)
  BY <1>1, BeginsTyped DEF OnEdge, EdgeRule
<1>3. live \in LiveState /\ hist \in History /\ left.abort \in Nat
  BY DEF TypeOK, Budget
<1>4. PICK n \in 1 .. Cardinality(Of(S, e)) + 1 :
        /\ IF Def[e].policy = "queue" THEN At(S, e, n) = {} ELSE n = 1
        /\ live' = [live EXCEPT !.slots = (S \ At(S, e, n)) \cup {new(n)}]
        /\ hist' = [hist EXCEPT !.lost = @ \cup {<<e, x.trig>> : x \in At(S, e, n)}]
  BY Zenon DEF Pend, Park, Write
<1>5. /\ PendShape'
      /\ \A d \in Queued' : d.kind = "pend" => d \in Queued /\ d.edge \in Edge /\ d.edge # e
  BY <1>1, <1>2, <1>3, EndsShape DEF PendInv
<1>6. ASSUME left.abort = MaxAbort PROVE NothingLost'
  <2>1. NothingLost /\ c \in Queued
    <3>1. c = cmdQ[1] /\ 1 \in DOMAIN cmdQ
      BY <1>2 DEF Current
    <3> QED BY <1>6, <3>1 DEF PendInv, Queued
  <2>2. At(S, e, n) = {}
    <3>1. CASE Def[e].policy = "queue"
      BY <1>4, <3>1
    <3>2. CASE Def[e].policy # "queue"
      <4>1. n = 1
        BY <1>4, <3>2
      <4>2. CASE gone
        BY <4>1, <4>2 DEF At
      <4>3. CASE ~gone
        BY <1>2, <2>1, <3>2, <4>1, <4>3 DEF NothingLost, Accurate
      <4> QED BY <4>2, <4>3
    <3> QED BY <3>1, <3>2
  <2>3. hist'.lost = {}
    BY <1>3, <1>4, <2>1, <2>2 DEF NothingLost, History
  <2>4. live'.slots \subseteq live.slots \cup {new(n)}
    BY <1>3, <1>4 DEF LiveState
  <2>5. ASSUME NEW d \in Queued' PROVE Accurate(d)'
    <3>1. CASE d.kind # "pend"
      BY <3>1 DEF Accurate
    <3>2. CASE d.kind = "pend"
      <4>1. Accurate(d) /\ d.edge # e
        BY <1>5, <2>1, <3>2 DEF NothingLost
      <4>2. At(live'.slots, d.edge, 1) \subseteq At(live.slots, d.edge, 1)
        BY <2>4, <4>1 DEF At
      <4> QED BY <4>1, <4>2 DEF Accurate
    <3> QED BY <3>1, <3>2
  <2> QED BY <2>3, <2>5 DEF NothingLost
<1> QED BY <1>1, <1>5, <1>6 DEF PendInv

(* Commands that open take a slot at most.                                  *)
LEMMA PendBegins ==
  ASSUME TypeOK, PendInv, ExecuteBegin \/ ActivateBegin \/ WorkflowBegin
  PROVE  PendInv'
<1>1. cmdQ # <<>> /\ live \in LiveState /\ live' \in LiveState
  BY TypeBegins DEF ExecuteBegin, ActivateBegin, WorkflowBegin, Begins, TypeOK
<1>2. live'.slots \subseteq live.slots /\ left' = left /\ hist' = hist
  <2>1. CASE ExecuteBegin
    <3> DEFINE s == Target(Current.edge)
               mine == At(live.slots, Current.edge, Current.n)
    <3>1. \/ live' = live /\ Rest /\ hist' = hist
          \/ \E x \in mine :
               Opens(x, ~bridge, [live EXCEPT !.slots = @ \ mine, !.status[s] = "pending"])
      BY <2>1 DEF ExecuteBegin, Write, NoChange
    <3>2. [live EXCEPT !.slots = @ \ mine, !.status[s] = "pending"].slots \subseteq live.slots
      BY <1>1 DEF LiveState
    <3> QED BY <3>1, <3>2 DEF Opens, Rest
  <2>2. CASE ActivateBegin
    BY <1>1, <2>2 DEF ActivateBegin, Opens, Rest, NoChange, LiveState
  <2>3. CASE WorkflowBegin
    BY <2>3 DEF WorkflowBegin, Opens
  <2> QED BY <2>1, <2>2, <2>3
<1>3. KeysKept
  BY <1>2, ThinnerKeeps
<1>4. CASE Ends(Current)
  BY <1>1, <1>2, <1>3, <1>4, PendEnds
<1>5. CASE ~Ends(Current)
  <2>1. UNCHANGED <<task, cmdQ>>
    BY <1>5 DEF ExecuteBegin, ActivateBegin, WorkflowBegin, Opens, Ends
  <2>2. PendShape' /\ Queued' = Queued
    BY <1>2, <2>1 DEF PendInv, PendShape, OnlyChain, OneAtATime, OnePend, Queued
  <2>3. \A c \in Queued : c.kind = "pend" => c.edge \in Edge
    BY DEF Queued, TypeOK, TaskState, Command, OnEdge, EdgeRule
  <2> QED BY <1>2, <1>3, <2>2, <2>3, AccurateKept DEF PendInv
<1> QED BY <1>4, <1>5
(* Tasks: an event is decided on what is parked while nothing pends.        *)
LEMMA DecidePend ==
  ASSUME NEW e, NEW ev, NEW c \in Decide(e, ev), c.kind = "pend"
  PROVE  c = PendCmd(e, ev, ev.sess \in Bundle \/ ev.kind \in {"issues", "clean"},
                     Parked(e) /\ Def[e].policy # "queue")
<1> DEFINE data == ev.sess \in Bundle \/ ev.kind \in {"issues", "clean"}
           busy == Busy(Target(e))
<1>1. c # RuleCmd("stopFor", e, ev) /\ c # RuleCmd("dropFiring", e, ev) /\ c # InterruptCmd(e, ev)
      /\ \A d : c # DeliverCmd(e, ev, d)
  BY DEF RuleCmd, InterruptCmd, DeliverCmd, Cmd
<1>2. ~StopsOn(e, ev) /\ Matches(e, ev) /\ ~Def[e].deliver
  BY <1>1 DEF Decide, DeliverCmd
<1>3. ~(Def[e].policy = "drop" /\ (busy \/ Parked(e)))
  BY <1>1, <1>2 DEF Decide
<1>4. Decide(e, ev) = {PendCmd(e, ev, data, Parked(e) /\ Def[e].policy # "queue")} \cup
        {InterruptCmd(e, ev) : x \in {y \in {e} : Def[y].policy = "interrupt" /\ busy}}
  BY <1>2, <1>3 DEF Decide, PendCmd, InterruptCmd
<1> QED BY <1>1, <1>4

LEMMA DecisionsPend ==
  ASSUME NEW ev
  PROVE  /\ \A c \in Decisions(ev) : c.by = Chain
         /\ \A c \in Decisions(ev) : c.kind = "pend" =>
              /\ Accurate(c)
              /\ \A d \in Decisions(ev) : d.kind = "pend" /\ d.edge = c.edge => d = c
<1>1. ASSUME NEW c \in Decisions(ev) PROVE c.by = Chain
  <2>1. CASE ev.kind = "killed"
    BY <1>1, <2>1 DEF Decisions, Cmd
  <2>2. CASE \E e \in live.active : c \in Decide(e, ev)
    <3>1. PICK e \in live.active : c \in Decide(e, ev)
      BY <2>2
    <3>2. \A d, u : /\ RuleCmd("stopFor", e, ev).by = Chain /\ RuleCmd("dropFiring", e, ev).by = Chain
                    /\ DeliverCmd(e, ev, d).by = Chain /\ PendCmd(e, ev, d, u).by = Chain
                    /\ InterruptCmd(e, ev).by = Chain
      BY DEF RuleCmd, DeliverCmd, PendCmd, InterruptCmd, Cmd
    <3>3. \/ c = RuleCmd("stopFor", e, ev)
          \/ c = RuleCmd("dropFiring", e, ev)
          \/ \E d \in BOOLEAN : c = DeliverCmd(e, ev, d)
          \/ \E d, u \in BOOLEAN : c = PendCmd(e, ev, d, u)
          \/ c = InterruptCmd(e, ev)
      BY <3>1, DecideShape, Zenon
    <3> QED BY <3>2, <3>3, Zenon
  <2> QED BY <1>1, <2>1, <2>2 DEF Decisions
<1>2. ASSUME NEW c \in Decisions(ev), c.kind = "pend"
      PROVE  \E e : /\ c.edge = e
                    /\ c = PendCmd(e, ev, ev.sess \in Bundle \/ ev.kind \in {"issues", "clean"},
                                   Parked(e) /\ Def[e].policy # "queue")
  <2>1. PICK e \in live.active : c \in Decide(e, ev)
    BY <1>2 DEF Decisions, Cmd
  <2>2. c = PendCmd(e, ev, ev.sess \in Bundle \/ ev.kind \in {"issues", "clean"},
                    Parked(e) /\ Def[e].policy # "queue")
    BY <1>2, <2>1, DecidePend
  <2>3. c.edge = e
    BY <2>2 DEF PendCmd, RuleCmd, Cmd
  <2> QED BY <2>2, <2>3
<1>3. ASSUME NEW c \in Decisions(ev), c.kind = "pend" PROVE Accurate(c)
  <2>1. PICK e : /\ c.edge = e
                 /\ c = PendCmd(e, ev, ev.sess \in Bundle \/ ev.kind \in {"issues", "clean"},
                                Parked(e) /\ Def[e].policy # "queue")
    BY <1>2, <1>3
  <2>2. c.sup = (Parked(e) /\ Def[e].policy # "queue")
    BY <2>1 DEF PendCmd, RuleCmd, Cmd
  <2> QED BY <2>1, <2>2 DEF Accurate, Parked
<1>4. ASSUME NEW c \in Decisions(ev), c.kind = "pend",
             NEW d \in Decisions(ev), d.kind = "pend", d.edge = c.edge
      PROVE  d = c
  BY <1>2, <1>4
<1> QED BY <1>1, <1>3, <1>4

LEMMA PendTasks ==
  ASSUME TypeOK, PendInv, TakeEvent \/ \E p \in Task : Resume(p)
  PROVE  PendInv'
<1>1. /\ task \in [Task -> TaskState] /\ cmdQ \in Seq(Command) /\ Chain \in Task
      /\ Chain \notin Drains /\ Drains \subseteq Task /\ \A p \in Task : p # Chain => p \in Drains
  BY DEF TypeOK, Chain, Drains, Task
<1>2. TaskUnchanged
  BY DEF TakeEvent, Resume
(* What the run starts from. *)
<1>3. PICK p \in Task, t \in TaskState :
        /\ Proceed(p, t)
        /\ p \in Drains => t.todo = {}
        /\ p = Chain =>
             /\ task[Chain].pc # "wait"
             /\ \A c \in t.todo :
                  /\ c.by = Chain
                  /\ c.kind = "pend" =>
                       /\ \A d \in t.todo : d.kind = "pend" /\ d.edge = c.edge => d = c
                       /\ left.abort = MaxAbort => Accurate(c)
  <2>1. CASE TakeEvent
    <3> DEFINE t == [FreshTask EXCEPT !.todo = Decisions(Head(schedQ))]
    <3>1. t.todo = Decisions(Head(schedQ)) /\ t \in TaskState
      <4>1. Head(schedQ) \in Event /\ live.active \subseteq Edge
        BY <2>1 DEF TakeEvent, TypeOK, LiveState
      <4> QED BY <4>1, DecisionsTyped DEF FreshTask, TaskState
    <3>2. Proceed(Chain, t) /\ task[Chain].pc # "wait"
      BY <2>1 DEF TakeEvent
    <3> HIDE DEF t
    <3> QED BY <1>1, <3>1, <3>2, DecisionsPend
  <2>2. CASE \E q \in Task : Resume(q)
    <3>1. PICK q \in Task : Resume(q)
      BY <2>2
    <3>2. Proceed(q, task[q]) /\ task[q].pc # "wait"
      BY <3>1 DEF Resume
    <3>3. \A c \in task[Chain].todo : left.abort = MaxAbort => Accurate(c)
      BY <1>1 DEF PendInv, NothingLost, Queued
    <3>4. \A c \in task[Chain].todo : c.by = Chain /\ (c.kind = "pend" =>
            \A d \in task[Chain].todo : d.kind = "pend" /\ d.edge = c.edge => d = c)
      BY DEF PendInv, PendShape, OnlyChain, OnePend
    <3>5. q \in Drains => task[q].todo = {}
      BY DEF PendInv, PendShape, OnlyChain
    <3>6. task[q] \in TaskState
      BY <1>1
    <3> QED BY <3>2, <3>3, <3>4, <3>5, <3>6
  <2> QED BY <2>1, <2>2
<1>4. PICK u : task' = [task EXCEPT ![p] = u] /\ Proceeds(p, t, u)
  BY <1>3, ProceedShape
<1>5. task'[p] = u /\ \A q \in Task : q # p => task'[q] = task[q]
  BY <1>1, <1>4
<1>6. p = Chain => \A i \in DOMAIN cmdQ : cmdQ[i].by # Chain
  BY <1>3 DEF PendInv, PendShape, OneAtATime
(* What it sends. *)
<1>7. \/ u = OffTask /\ cmdQ' = cmdQ
      \/ \E c \in Command :
           /\ cmdQ' = Append(cmdQ, c) /\ c.by = p /\ u.pc = "wait"
           /\ u.todo \subseteq t.todo /\ (c.kind = "pend" => c \in t.todo /\ c \notin u.todo)
  <2>1. CASE u = OffTask /\ cmdQ' = cmdQ
    BY <2>1
  <2>2. CASE \E c : Sent(t, u, c) /\ cmdQ' = Append(cmdQ, c)
    <3>1. PICK c : Sent(t, u, c) /\ cmdQ' = Append(cmdQ, c)
      BY <2>2
    <3>2. c \in t.todo /\ p = Chain /\ c.by = p /\ c \in Command
      BY <1>1, <1>3, <3>1 DEF Sent, TaskState
    <3>3. u.pc = "wait" /\ u.todo = t.todo \ {c}
      BY <3>1 DEF Sent, TaskState
    <3> QED BY <3>1, <3>2, <3>3
  <2>3. CASE \E x, S : Drained(t, u, x, S) /\ cmdQ' = Append(cmdQ, DrainCmd(p, x))
    <3>1. PICK x, S : Drained(t, u, x, S) /\ cmdQ' = Append(cmdQ, DrainCmd(p, x))
      BY <2>3
    <3>2. x \in Slot /\ u.todo = t.todo /\ u.pc = "wait"
      BY <3>1 DEF Drained, Approved, TaskState, TypeOK, LiveState
    <3>3. DrainCmd(p, x) \in Command /\ DrainCmd(p, x).by = p /\ DrainCmd(p, x).kind # "pend"
      BY <3>2, DrainCmdTyped DEF DrainCmd, Cmd
    <3> QED BY <3>1, <3>2, <3>3
  <2> QED BY <1>4, <2>1, <2>2, <2>3 DEF Proceeds
<1>8. /\ \A q \in Drains : task'[q].todo = {}
      /\ \A c \in task'[Chain].todo : c.by = Chain
  <2>1. u.todo \subseteq t.todo
    BY <1>7 DEF OffTask
  <2> QED BY <1>1, <1>3, <1>5, <2>1 DEF PendInv, PendShape, OnlyChain
<1>9. CASE u = OffTask /\ cmdQ' = cmdQ
  <2>1. \A q \in Task : task'[q].todo \subseteq task[q].todo
    BY <1>5, <1>9 DEF OffTask
  <2>2. PendShape' /\ Queued' \subseteq Queued
    BY <1>1, <1>2, <1>5, <1>6, <1>8, <1>9, <2>1
    DEF PendInv, PendShape, OnlyChain, OneAtATime, OnePend, Queued, TaskUnchanged
  <2> QED BY <1>2, <2>2 DEF PendInv, NothingLost, Accurate, TaskUnchanged
<1>10. ASSUME NEW c \in Command, cmdQ' = Append(cmdQ, c), c.by = p, u.pc = "wait",
              u.todo \subseteq t.todo, c.kind = "pend" => c \in t.todo /\ c \notin u.todo
       PROVE  PendInv'
  <2>1. /\ DOMAIN cmdQ' = DOMAIN cmdQ \cup {Len(cmdQ) + 1} /\ Len(cmdQ) + 1 \notin DOMAIN cmdQ
        /\ cmdQ'[Len(cmdQ) + 1] = c /\ \A i \in DOMAIN cmdQ : cmdQ'[i] = cmdQ[i]
    BY <1>1, <1>10
  <2>2. c.kind = "pend" => p = Chain
    BY <1>1, <1>3, <1>10
  <2>3. OnlyChain'
    BY <1>8, <1>10, <2>1, <2>2 DEF PendInv, PendShape, OnlyChain
  <2>4. OneAtATime'
    <3>1. CASE p = Chain
      BY <1>5, <1>6, <1>10, <2>1, <3>1 DEF OneAtATime
    <3>2. CASE p # Chain
      BY <1>1, <1>5, <1>10, <2>1, <3>2 DEF PendInv, PendShape, OneAtATime
    <3> QED BY <3>1, <3>2
  <2>5. OnePend'
    <3>1. CASE p = Chain
      <4>1. \A i \in DOMAIN cmdQ : cmdQ[i].kind # "pend"
        BY <1>6, <3>1 DEF PendInv, PendShape, OnlyChain
      <4> QED BY <1>3, <1>5, <1>10, <2>1, <3>1, <4>1 DEF OnePend
    <3>2. CASE p # Chain
      BY <1>1, <1>5, <2>1, <2>2, <3>2 DEF PendInv, PendShape, OnePend
    <3> QED BY <3>1, <3>2
  <2>6. ASSUME left.abort = MaxAbort, NEW d \in Queued' PROVE Accurate(d)
    <3>1. CASE d.kind # "pend"
      BY <3>1 DEF Accurate
    <3>2. CASE d.kind = "pend" /\ \E i \in DOMAIN cmdQ' : d = cmdQ'[i]
      <4>1. d = c \/ d \in Queued
        BY <2>1, <3>2 DEF Queued
      <4> QED BY <1>3, <1>10, <2>2, <2>6, <3>2, <4>1 DEF PendInv, NothingLost
    <3>3. CASE d.kind = "pend" /\ \E q \in Task : d \in task'[q].todo
      <4>1. PICK q \in Task : d \in task'[q].todo
        BY <3>3
      <4>2. CASE q # p
        <5>1. d \in Queued
          BY <1>5, <4>1, <4>2 DEF Queued
        <5> QED BY <2>6, <5>1 DEF PendInv, NothingLost
      <4>3. CASE q = p
        BY <1>1, <1>3, <1>5, <1>10, <2>6, <3>3, <4>1, <4>3
      <4> QED BY <4>2, <4>3
    <3> QED BY <2>6, <3>1, <3>2, <3>3 DEF Queued
  <2> QED BY <1>2, <2>3, <2>4, <2>5, <2>6
      DEF PendInv, PendShape, NothingLost, Accurate, TaskUnchanged
<1> QED BY <1>7, <1>9, <1>10

(* People, agents and providers send commands that pend nothing.            *)
LEMMA PendMacro ==
  ASSUME TypeOK, PendInv,
         \/ HumanSends
         \/ \E s \in Session : AgentReports(s) \/ ProviderCloses(s) \/ ProviderErrs(s)
  PROVE  PendInv'
<1>1. live \in LiveState /\ left \in Budget /\ cmdQ \in Seq(Command)
  BY DEF TypeOK
<1>2. cmdQ' = cmdQ \/ \E c \in Command : cmdQ' = Append(cmdQ, c) /\ c.by = Human /\ c.kind # "pend"
  <2>1. CASE HumanSends \/ \E s \in Session : AgentReports(s)
    BY <2>1, SendersSend DEF Asked, Sends, EdgeRule
  <2>2. ASSUME NEW s \in Session, ProviderCloses(s) \/ ProviderErrs(s)
        PROVE  cmdQ' = cmdQ \/ \E c \in Command :
                                 cmdQ' = Append(cmdQ, c) /\ c.by = Human /\ c.kind # "pend"
    <3> DEFINE c == [Cmd("complete") EXCEPT !.sess = s, !.n = ctx[s]]
    <3>1. c \in Command /\ c.kind = "complete" /\ c.by = Human
      BY DEF Cmd, Command, CmdKind, OnEdge, OnSession, EdgeRule, TypeOK
    <3>2. cmdQ' = cmdQ \/ cmdQ' = Append(cmdQ, c)
      BY <2>2 DEF ProviderCloses, ProviderErrs
    <3> HIDE DEF c
    <3> QED BY <3>1, <3>2
  <2> QED BY <2>1, <2>2
<1>3. UNCHANGED <<task, hist>> /\ live'.slots = live.slots /\ left'.abort = left.abort
  <2>1. UNCHANGED <<task, hist>>
    BY DEF HumanSends, AgentReports, Sends, ProviderCloses, ProviderErrs
  <2>2. \/ live' = live
        \/ \E s, st : live' = [live EXCEPT !.status[s] = st]
    BY DEF HumanSends, AgentReports, Sends, ProviderCloses, ProviderErrs, FailSession, Write
  <2>3. \/ left' = left \/ left' = [left EXCEPT !.human = @ - 1]
        \/ left' = [left EXCEPT !.report = @ - 1] \/ left' = [left EXCEPT !.fail = @ - 1]
    BY DEF HumanSends, AgentReports, ProviderCloses, ProviderErrs
  <2> QED BY <1>1, <2>1, <2>2, <2>3 DEF LiveState, Budget
<1>4. \A i \in DOMAIN cmdQ' :
        \/ i \in DOMAIN cmdQ /\ cmdQ'[i] = cmdQ[i]
        \/ cmdQ'[i].kind # "pend" /\ cmdQ'[i].by # Chain
  <2>1. CASE cmdQ' # cmdQ
    <3>1. PICK c \in Command : cmdQ' = Append(cmdQ, c) /\ c.by = Human /\ c.kind # "pend"
      BY <1>2, <2>1
    <3>2. /\ DOMAIN cmdQ' = DOMAIN cmdQ \cup {Len(cmdQ) + 1}
          /\ cmdQ'[Len(cmdQ) + 1] = c /\ \A i \in DOMAIN cmdQ : cmdQ'[i] = cmdQ[i]
      BY <1>1, <3>1
    <3> QED BY <3>1, <3>2 DEF Human, Chain
  <2> QED BY <2>1
<1>5. PendShape'
  BY <1>3, <1>4 DEF PendInv, PendShape, OnlyChain, OneAtATime, OnePend
<1>6. \A c \in Queued' : c.kind = "pend" => c \in Queued
  BY <1>3, <1>4 DEF Queued
<1> QED BY <1>3, <1>5, <1>6 DEF PendInv, NothingLost, Accurate

(* A rollback may bring a slot back; a crash leaves no command.             *)
LEMMA PendAbort ==
  ASSUME TypeOK, PendInv, Abort
  PROVE  PendInv'
<1>1. left.abort \in Nat /\ left.abort > 0 /\ left'.abort = left.abort - 1
  BY DEF Abort, TypeOK, Budget
<1>2. cmdQ # <<>> /\ Ends(Current)
  BY DEF Abort, TypeOK, Ends
<1>3. PendShape'
  BY <1>1, <1>2, EndsShape DEF PendInv
<1>4. left'.abort # MaxAbort
  BY <1>1, BoundAssumption DEF PendInv, PendShape
<1> QED BY <1>3, <1>4 DEF PendInv

LEMMA PendCrash ==
  ASSUME TypeOK, PendInv, Crash
  PROVE  PendInv'
<1>1. task' = [p \in Task |-> OffTask] /\ cmdQ' = <<>> /\ hist' = hist
      /\ left' = [left EXCEPT !.crash = @ - 1]
  BY DEF Crash
<1>2. left'.abort = left.abort
  BY <1>1 DEF TypeOK, Budget
<1>3. \A p \in Task : task'[p].todo = {}
  BY <1>1 DEF OffTask
<1>4. Chain \in Task /\ Drains \subseteq Task /\ DOMAIN cmdQ' = {}
  BY <1>1 DEF Task
<1> QED BY <1>1, <1>2, <1>3, <1>4
    DEF PendInv, PendShape, OnlyChain, OneAtATime, OnePend, NothingLost, Queued

LEMMA PendStep ==
  ASSUME TypeOK, PendInv, [Next]_vars
  PROVE  PendInv'
<1>1. CASE UNCHANGED vars
  BY <1>1 DEF vars, PendInv, PendShape, OnlyChain, OneAtATime, OnePend, NothingLost, Queued, Accurate
<1>2. CASE Next
  BY <1>2, PendPlain, PendPend, PendBegins, PendTasks, PendMacro, PendAbort, PendCrash DEF Next, Work
<1> QED BY <1>1, <1>2

LEMMA PendFirst ==
  ASSUME Init
  PROVE  PendInv
<1>1. task = [p \in Task |-> OffTask] /\ cmdQ = <<>> /\ hist.lost = {} /\ left.abort = MaxAbort
  BY DEF Init
<1>2. \A p \in Task : task[p].todo = {}
  BY <1>1 DEF OffTask
<1>3. Chain \in Task /\ Drains \subseteq Task /\ DOMAIN cmdQ = {}
  BY <1>1 DEF Task
<1> QED BY <1>1, <1>2, <1>3, BoundAssumption
    DEF PendInv, PendShape, OnlyChain, OneAtATime, OnePend, NothingLost, Queued

(* A pending activation ends with a fact of its own: for any graph and any  *)
(* number of drains and crashes, no pend overwrites a slot it does not      *)
(* supersede, unless a rollback brought the slot back (scheduler.ts:333).   *)
THEOREM NothingOverwritten == Spec => []NoSilentOverwrite
<1>1. Init => PendInv
  BY PendFirst
<1>2. TypeOK /\ PendInv /\ [Next]_vars => PendInv'
  BY PendStep
<1>3. PendInv => NoSilentOverwrite
  BY DEF PendInv, NothingLost, NoSilentOverwrite
<1> QED BY <1>1, <1>2, <1>3, TypeCorrect, PTL DEF Spec

------------------------------------------------------------------------------
(* Memory, disk and log agree.                                              *)

Running == {"pending", "running"}
Ending(s) == cmdQ # <<>> /\ Current.kind = "complete" /\ Current.sess = s

(* A completion is handled before anything else happens.                    *)
CompletesFirst ==
  \A i \in DOMAIN cmdQ :
    /\ cmdQ[i].kind # "workflow"
    /\ cmdQ[i].kind = "complete" =>
         i = 1 /\ open = None /\ cmdQ[i].by = Human /\ proc[cmdQ[i].sess] = 0
OnlyRules == \A p \in Task : \A c \in task[p].todo : c.kind \notin {"complete", "workflow"}

(* A command awaits the outside only while no process runs.                 *)
Alone ==
  /\ ~bridge => \A s \in Session : proc[s] = 0
  /\ open # None /\ open.io => \A s \in Session : proc[s] = 0

(* Disk and log hold what memory held when the open command began; the      *)
(* command has touched its target and its slot, and nothing else.           *)
Agrees == kernel = View(Saved) /\ disk = Saved
Untouched ==
  open # None =>
    \/ /\ Current.kind = "execute" /\ proc[Target(Current.edge)] = 0
       /\ live = [open.saved EXCEPT !.slots = @ \ At(@, Current.edge, Current.n),
                                    !.status[Target(Current.edge)] = "pending"]
    \/ /\ Current.kind = "activate" /\ proc[Current.sess] = 0
       /\ live = [open.saved EXCEPT !.status[Current.sess] = "pending"]

(* What counts as running has a process, or its completion comes next; what *)
(* was sent a kill counts as killed.                                        *)
RunsAreThere ==
  \A s \in Session : Saved.status[s] \in Running => proc[s] # 0 \/ Ending(s)
DoomedKilled == \A s \in doomed : proc[s] # 0 /\ Saved.status[s] = "killed"

FoldInv == /\ CompletesFirst /\ OnlyRules /\ Alone
           /\ Agrees /\ Untouched /\ RunsAreThere /\ DoomedKilled

(* What the fold sees of an update of the state.                            *)
Rec(x) == [edge |-> x.edge, n |-> x.n, trig |-> x.trig, ok |-> x.ok]
Recs(S) == {Rec(x) : x \in S}

LEMMA RecsWithout ==
  ASSUME NEW S \in SUBSET Slot, NEW e, NEW n, NEW E
  PROVE  /\ Recs(S \ At(S, e, n)) = Recs(S) \ At(Recs(S), e, n)
         /\ Recs({x \in S : x.edge \notin E}) = {p \in Recs(S) : p.edge \notin E}
         /\ Recs(S) \ Of(Recs(S), e) = {p \in Recs(S) : p.edge \notin {e}}
<1>1. \A x \in S : Rec(x).edge = x.edge /\ Rec(x).n = x.n
  BY DEF Rec
<1>2. \A p : p \in Recs(S \ At(S, e, n)) <=> p \in Recs(S) \ At(Recs(S), e, n)
  BY <1>1 DEF Recs, At
<1>3. \A p : p \in Recs({x \in S : x.edge \notin E}) <=> p \in {q \in Recs(S) : q.edge \notin E}
  BY <1>1 DEF Recs
<1>4. Recs(S) \ Of(Recs(S), e) = {p \in Recs(S) : p.edge \notin {e}}
  BY DEF Of
<1> QED BY <1>2, <1>3, <1>4

LEMMA ViewIs ==
  ASSUME NEW L
  PROVE  View(L) = [status |-> L.status, frozen |-> L.frozen, active |-> L.active,
                    firings |-> L.firings, pend |-> Recs(L.slots)]
BY DEF View, Recs, Rec

LEMMA ViewTyped ==
  ASSUME NEW L \in LiveState
  PROVE  View(L) \in KernelState
<1>1. \A x \in Slot : Rec(x) \in PendRecord
  BY DEF Rec, Slot, PendRecord
<1>2. Recs(L.slots) \subseteq PendRecord
  BY <1>1 DEF Recs, LiveState
<1> QED BY <1>2, ViewIs DEF KernelState, LiveState

LEMMA EdgesAndSlots ==
  ASSUME NEW k \in KernelState, NEW A \in SUBSET Edge, NEW P
  PROVE  [k EXCEPT !.active = A, !.pend = P]
           = [status |-> k.status, frozen |-> k.frozen, active |-> A,
              firings |-> k.firings, pend |-> P]
<1>1. PICK m : m = [k EXCEPT !.active = A]
  OBVIOUS
<1>2. m \in KernelState
  BY <1>1 DEF KernelState
<1>3. m = [status |-> k.status, frozen |-> k.frozen, active |-> A,
           firings |-> k.firings, pend |-> k.pend]
  BY <1>1 DEF KernelState
<1>4. [m EXCEPT !.pend = P]
        = [status |-> k.status, frozen |-> k.frozen, active |-> A,
           firings |-> k.firings, pend |-> P]
  BY <1>2, <1>3 DEF KernelState
<1>5. [m EXCEPT !.pend = P] = [k EXCEPT !.active = A, !.pend = P]
  BY <1>1
<1> QED BY <1>4, <1>5

LEMMA ViewChanged ==
  ASSUME NEW L \in LiveState
  PROVE  /\ \A T : View([L EXCEPT !.slots = T]) = [View(L) EXCEPT !.pend = Recs(T)]
         /\ \A f : View([L EXCEPT !.status = f]) = [View(L) EXCEPT !.status = f]
         /\ \A F : View([L EXCEPT !.frozen = F]) = [View(L) EXCEPT !.frozen = F]
         /\ \A f : View([L EXCEPT !.firings = f]) = [View(L) EXCEPT !.firings = f]
         /\ \A A \in SUBSET Edge : \A T :
              View([L EXCEPT !.active = A, !.slots = T]) = [View(L) EXCEPT !.active = A, !.pend = Recs(T)]
<1> USE ViewIs DEF LiveState
<1>1. \A T : View([L EXCEPT !.slots = T]) = [View(L) EXCEPT !.pend = Recs(T)]
  OBVIOUS
<1>2. \A f : View([L EXCEPT !.status = f]) = [View(L) EXCEPT !.status = f]
  OBVIOUS
<1>3. \A F : View([L EXCEPT !.frozen = F]) = [View(L) EXCEPT !.frozen = F]
  OBVIOUS
<1>4. \A f : View([L EXCEPT !.firings = f]) = [View(L) EXCEPT !.firings = f]
  OBVIOUS
<1>5. \A A \in SUBSET Edge : \A T :
        View([L EXCEPT !.active = A, !.slots = T]) = [View(L) EXCEPT !.active = A, !.pend = Recs(T)]
  <2>1. TAKE A \in SUBSET Edge
  <2>7. TAKE T
  <2> DEFINE M == [L EXCEPT !.active = A, !.slots = T]
             P == Recs(T)
  <2>2. M.status = L.status /\ M.frozen = L.frozen /\ M.firings = L.firings
    OBVIOUS
  <2>3. M.active = A /\ M.slots = T
    OBVIOUS
  <2>4. [View(L) EXCEPT !.active = A, !.pend = P]
          = [status |-> L.status, frozen |-> L.frozen, active |-> A,
             firings |-> L.firings, pend |-> P]
    <3>1. View(L).status = L.status /\ View(L).frozen = L.frozen /\ View(L).firings = L.firings
      BY ViewIs
    <3> HIDE DEF P
    <3> QED BY <3>1, ViewTyped, EdgesAndSlots
  <2>5. View(M) = [status |-> L.status, frozen |-> L.frozen, active |-> A,
                   firings |-> L.firings, pend |-> P]
    <3> HIDE DEF M
    <3> QED BY <2>2, <2>3, ViewIs
  <2> QED BY <2>4, <2>5
<1> QED BY <1>1, <1>2, <1>3, <1>4, <1>5

LEMMA ViewParts ==
  ASSUME NEW L
  PROVE  /\ View(L).status = L.status /\ View(L).frozen = L.frozen
         /\ View(L).active = L.active /\ View(L).firings = L.firings
         /\ View(L).pend = Recs(L.slots)
BY ViewIs

LEMMA ViewSession ==
  ASSUME NEW L \in LiveState, NEW s, NEW st
  PROVE  View([L EXCEPT !.status[s] = st]) = SessionFact(View(L), s, st)
<1> DEFINE f == [L.status EXCEPT ![s] = st]
<1>1. [L EXCEPT !.status[s] = st] = [L EXCEPT !.status = f]
  BY DEF LiveState
<1>2. SessionFact(View(L), s, st) = [View(L) EXCEPT !.status = f]
  BY ViewIs DEF SessionFact
<1> QED BY <1>1, <1>2, ViewChanged

LEMMA ViewStops ==
  ASSUME NEW L \in LiveState
  PROVE  /\ \A E : View(StopEdges(L, E)) = StopEdgeFacts(View(L), E)
         /\ \A e \in Edge : View(StopWithOnStop(L, e)) = StopWithOnStopFacts(View(L), e)
<1>1. L.slots \in SUBSET Slot
  BY DEF LiveState
<1>2. ASSUME NEW E PROVE View(StopEdges(L, E)) = StopEdgeFacts(View(L), E)
  <2> DEFINE A == L.active \ E
             T == {x \in L.slots : x.edge \notin E}
  <2>1. StopEdges(L, E) = [L EXCEPT !.active = A, !.slots = T]
    BY DEF StopEdges, LiveState
  <2>2. StopEdgeFacts(View(L), E) = [View(L) EXCEPT !.active = A, !.pend = Recs(T)]
    <3>1. Recs(T) = {p \in Recs(L.slots) : p.edge \notin E}
      BY <1>1, RecsWithout
    <3> HIDE DEF T
    <3> QED BY <3>1, ViewIs DEF StopEdgeFacts
  <2>3. \A B \in SUBSET Edge : \A U : View([L EXCEPT !.active = B, !.slots = U])
                  = [View(L) EXCEPT !.active = B, !.pend = Recs(U)]
    BY ViewChanged
  <2>4. A \in SUBSET Edge
    BY DEF LiveState
  <2> HIDE DEF A, T
  <2> QED BY <2>1, <2>2, <2>3, <2>4
<1>3. ASSUME NEW e \in Edge PROVE View(StopWithOnStop(L, e)) = StopWithOnStopFacts(View(L), e)
  <2> DEFINE M == StopEdges(L, {e})
             F == IF Def[e].freezeOnStop THEN M.frozen \cup {Target(e)} ELSE M.frozen
  <2>1. M \in LiveState
    BY StopTyped
  <2>2. StopWithOnStop(L, e) = [M EXCEPT !.frozen = F]
    BY <2>1 DEF StopWithOnStop, LiveState
  <2>3. View(M) = StopEdgeFacts(View(L), {e})
    BY <1>2
  <2>4. AllDroppedFacts(StoppedFact(View(L), e), e) = View(M)
    <3>1. Recs(L.slots) \ Of(Recs(L.slots), e) = {p \in Recs(L.slots) : p.edge \notin {e}}
      BY <1>1, RecsWithout
    <3> QED BY <2>3, <3>1, ViewIs DEF AllDroppedFacts, StoppedFact, StopEdgeFacts
  <2> HIDE DEF M
  <2>5. StopWithOnStopFacts(View(L), e) = [View(M) EXCEPT !.frozen = F]
    <3>1. View(M).frozen = M.frozen
      BY ViewIs
    <3>2. [View(M) EXCEPT !.frozen = M.frozen] = View(M)
      BY ViewIs
    <3> QED BY <2>4, <3>1, <3>2 DEF StopWithOnStopFacts, FreezeFact
  <2> HIDE DEF F
  <2>6. View([M EXCEPT !.frozen = F]) = [View(M) EXCEPT !.frozen = F]
    BY <2>1, ViewChanged
  <2> QED BY <2>2, <2>5, <2>6
<1> QED BY <1>2, <1>3

(* The end of a command, when what it wrote agrees.                         *)
LEMMA FoldEnds ==
  ASSUME TypeOK, FoldInv, cmdQ # <<>>, Ends(Current),
         kernel' = View(live'), disk' = live',
         ~bridge' => \A s \in Session : proc'[s] = 0,
         \A s \in doomed' : proc'[s] # 0 /\ live'.status[s] = "killed",
         \A s \in Session : live'.status[s] \in Running => proc'[s] # 0
  PROVE  FoldInv'
<1>1. cmdQ \in Seq(Command) /\ task \in [Task -> TaskState] /\ Current \in Command
  BY DEF TypeOK, Current
<1>2. cmdQ' = Tail(cmdQ) /\ open' = None
  BY <1>1, EndsTyped
<1>3. \A i \in DOMAIN cmdQ' : cmdQ'[i] = cmdQ[i + 1] /\ i + 1 \in DOMAIN cmdQ /\ i + 1 # 1
  <2>1. Len(Tail(cmdQ)) = Len(cmdQ) - 1 /\ Len(cmdQ) \in Nat
    BY <1>1
  <2>2. DOMAIN cmdQ' = 1 .. Len(Tail(cmdQ)) /\ DOMAIN cmdQ = 1 .. Len(cmdQ)
    BY <1>1, <1>2
  <2>3. \A i \in 1 .. Len(cmdQ) - 1 : Tail(cmdQ)[i] = cmdQ[i + 1]
    BY <1>1
  <2> QED BY <1>2, <2>1, <2>2, <2>3
<1>4. CompletesFirst'
  BY <1>3 DEF FoldInv, CompletesFirst
<1>5. OnlyRules'
  <2>1. \/ task' = task
        \/ \E p \in Task : \/ task' = [task EXCEPT ![p].pc = "ready"]
                           \/ task' = [task EXCEPT ![p] = OffTask]
                           \/ task' = [task EXCEPT ![p] = FreshTask]
    BY DEF Ends, Completes, Throws, CompletesAndDrains, Task
  <2>2. \A p \in Task : task'[p].todo \subseteq task[p].todo
    BY <1>1, <2>1 DEF OffTask, FreshTask, TaskState
  <2> QED BY <2>2 DEF FoldInv, OnlyRules
<1> QED BY <1>2, <1>4, <1>5
    DEF FoldInv, Alone, Agrees, Saved, Untouched, RunsAreThere, DoomedKilled

(* A command that is not a completion and leaves sessions alone.            *)
LEMMA FoldPlain ==
  ASSUME TypeOK, FoldInv, cmdQ # <<>>, open = None, Ends(Current), Current.kind # "complete",
         kernel' = View(live'), disk' = live', live'.status = live.status, UNCHANGED providers
  PROVE  FoldInv'
<1>1. \A s \in Session : live.status[s] \in Running => proc[s] # 0
  BY DEF FoldInv, RunsAreThere, Saved, Ending
<1>2. \A s \in doomed : proc[s] # 0 /\ live.status[s] = "killed"
  BY DEF FoldInv, DoomedKilled, Saved
<1>3. ~bridge => \A s \in Session : proc[s] = 0
  BY DEF FoldInv, Alone
<1> QED BY <1>1, <1>2, <1>3, FoldEnds DEF providers

LEMMA Agreed ==
  ASSUME FoldInv, open = None
  PROVE  kernel = View(live) /\ disk = live
BY DEF FoldInv, Agrees, Saved

(* Slots.                                                                   *)
LEMMA RecsParked ==
  ASSUME NEW S \in SUBSET Slot, NEW x \in Slot, NEW e, NEW n, x.edge = e, x.n = n
  PROVE  Recs((S \ At(S, e, n)) \cup {x}) = (Recs(S) \ At(Recs(S), e, n)) \cup {Rec(x)}
<1>1. Recs(S \ At(S, e, n)) = Recs(S) \ At(Recs(S), e, n)
  BY RecsWithout
<1>2. Recs((S \ At(S, e, n)) \cup {x}) = Recs(S \ At(S, e, n)) \cup {Rec(x)}
  BY DEF Recs
<1> QED BY <1>1, <1>2

LEMMA OkRecord ==
  ASSUME NEW e \in Edge, NEW n \in Nat \ {0}, NEW t \in Nat
  PROVE  [[edge |-> e, n |-> n, trig |-> t, ok |-> FALSE] EXCEPT !.ok = TRUE]
           = [edge |-> e, n |-> n, trig |-> t, ok |-> TRUE]
<1>1. PICK x : x = [edge |-> e, n |-> n, trig |-> t, ok |-> FALSE]
  OBVIOUS
<1>2. x \in PendRecord
  BY <1>1 DEF PendRecord
<1>3. PICK b \in BOOLEAN : b = TRUE
  OBVIOUS
<1>4. [x EXCEPT !.ok = b] = [edge |-> e, n |-> n, trig |-> t, ok |-> b]
  BY <1>1, <1>2 DEF PendRecord
<1> QED BY <1>1, <1>3, <1>4

LEMMA FoldPend ==
  ASSUME TypeOK, FoldInv, Pend
  PROVE  FoldInv'
<1> DEFINE c == Current
           e == c.edge
           gone == c.sup /\ At(live.slots, e, 1) # {}
           S == IF gone THEN live.slots \ At(live.slots, e, 1) ELSE live.slots
           k == IF gone THEN ClosedFact(kernel, e, 1) ELSE kernel
           new(n) == [edge |-> e, n |-> n, trig |-> c.trig, data |-> c.data, ok |-> Def[e].auto]
           T(n) == (S \ At(S, e, n)) \cup {new(n)}
<1>1. Begins("pend") /\ Ends(c) /\ UNCHANGED providers
  BY DEF Pend, Ends, Rest
<1>2. c \in Command /\ c.kind = "pend" /\ e \in Edge /\ cmdQ # <<>>
  BY <1>1, BeginsTyped DEF OnEdge, EdgeRule
<1>3. live \in LiveState /\ live.slots \in SUBSET Slot /\ open = None
  BY <1>1 DEF TypeOK, LiveState, Begins
<1>4. kernel = View(live)
  BY <1>3, Agreed
<1>5. PICK n \in 1 .. Cardinality(Of(S, e)) + 1 :
        /\ live' = [live EXCEPT !.slots = T(n)] /\ disk' = live'
        /\ kernel' = IF Def[e].auto
                     THEN ApprovedFact(PendingFact(k, e, n, c.trig), e, n)
                     ELSE PendingFact(k, e, n, c.trig)
  BY Zenon DEF Pend, Park, Write
<1>6. S \in SUBSET Slot /\ k = [View(live) EXCEPT !.pend = Recs(S)]
  <2>1. CASE gone
    <3>1. Recs(S) = Recs(live.slots) \ At(Recs(live.slots), e, 1)
      BY <1>3, <2>1, RecsWithout
    <3> QED BY <1>3, <1>4, <2>1, <3>1, ViewIs DEF ClosedFact
  <2>2. CASE ~gone
    BY <1>3, <1>4, <2>2, ViewIs
  <2> QED BY <2>1, <2>2
<1>7. n \in Nat \ {0}
  BY <1>5
<1> HIDE DEF S, k
<1>8. new(n) \in Slot /\ new(n).edge = e /\ new(n).n = n
  <2>1. Def[e].auto \in BOOLEAN
    BY <1>2, DefAssumption DEF EdgeDef
  <2> QED BY <1>2, <1>7, <2>1 DEF Slot, Command
<1>9. Recs(T(n)) = (Recs(S) \ At(Recs(S), e, n)) \cup {Rec(new(n))}
  <2> DEFINE y == new(n)
  <2>1. y \in Slot /\ y.edge = e /\ y.n = n
    BY <1>8
  <2> HIDE DEF new, y
  <2>2. Recs((S \ At(S, e, n)) \cup {y}) = (Recs(S) \ At(Recs(S), e, n)) \cup {Rec(y)}
    BY <1>6, <2>1, RecsParked
  <2> QED BY <2>2 DEF y
<1>10. kernel' = [View(live) EXCEPT !.pend = Recs(T(n))]
  <2> DEFINE R == Recs(S) \ At(Recs(S), e, n)
             r(ok) == [edge |-> e, n |-> n, trig |-> c.trig, ok |-> ok]
             j == PendingFact(k, e, n, c.trig)
  <2>1. Rec(new(n)) = r(Def[e].auto)
    BY DEF Rec
  <2>2. j = [View(live) EXCEPT !.pend = R \cup {r(FALSE)}]
    BY <1>6, ViewIs DEF PendingFact
  <2>3. CASE ~Def[e].auto
    <3>1. Def[e].auto = FALSE
      BY <1>2, <2>3, DefAssumption DEF EdgeDef
    <3> QED BY <1>5, <1>9, <2>1, <2>2, <3>1
  <2>4. CASE Def[e].auto
    <3>1. Def[e].auto = TRUE
      BY <1>2, <2>4, DefAssumption DEF EdgeDef
    <3> DEFINE P == R \cup {r(FALSE)}
    <3>2. {IF x \in At(P, e, n) THEN [x EXCEPT !.ok = TRUE] ELSE x : x \in P} = R \cup {r(TRUE)}
      <4>1. At(P, e, n) = {r(FALSE)}
        BY DEF At
      <4>2. [r(FALSE) EXCEPT !.ok = TRUE] = r(TRUE)
        BY <1>2, <1>7, OkRecord DEF Command
      <4>3. r(FALSE) \notin R
        BY DEF At
      <4> HIDE DEF R, r
      <4> QED BY <4>1, <4>2, <4>3 DEF P
    <3>3. ApprovedFact(j, e, n) = [View(live) EXCEPT !.pend = R \cup {r(TRUE)}]
      <4>1. j.pend = P
        BY <2>2, ViewIs
      <4> HIDE DEF R, r, P, j
      <4>2. ApprovedFact(j, e, n) = [j EXCEPT !.pend = R \cup {r(TRUE)}]
        BY <3>2, <4>1 DEF ApprovedFact
      <4> QED BY <2>2, <4>2, ViewIs
    <3> HIDE DEF R, r, P, j
    <3> QED BY <1>5, <1>9, <2>1, <2>4, <3>1, <3>3 DEF j, R
  <2> QED BY <2>3, <2>4
<1> HIDE DEF T, new
<1>11. kernel' = View(live') /\ live'.status = live.status
  <2>1. View([live EXCEPT !.slots = T(n)]) = [View(live) EXCEPT !.pend = Recs(T(n))]
    BY <1>3, ViewChanged
  <2>2. [live EXCEPT !.slots = T(n)].status = live.status
    BY <1>3 DEF LiveState
  <2> QED BY <1>5, <1>10, <2>1, <2>2
<1> QED BY <1>1, <1>2, <1>3, <1>5, <1>11, FoldPlain

(* Approving a slot approves its record.                                    *)
LEMMA RecsApproved ==
  ASSUME NEW S \in SUBSET Slot, NEW e, NEW n
  PROVE  Recs((S \ At(S, e, n)) \cup {[x EXCEPT !.ok = TRUE] : x \in At(S, e, n)})
           = {IF p \in At(Recs(S), e, n) THEN [p EXCEPT !.ok = TRUE] ELSE p : p \in Recs(S)}
<1> DEFINE up(x) == [x EXCEPT !.ok = TRUE]
<1>1. ASSUME NEW x \in Slot
      PROVE  Rec(up(x)) = up(Rec(x)) /\ Rec(x).edge = x.edge /\ Rec(x).n = x.n
  <2>1. PICK b \in BOOLEAN : b = TRUE
    OBVIOUS
  <2>2. Rec([x EXCEPT !.ok = b]) = [Rec(x) EXCEPT !.ok = b]
    BY DEF Rec, Slot
  <2> QED BY <2>1, <2>2 DEF Rec
<1>2. \A x \in S : x \in At(S, e, n) <=> Rec(x) \in At(Recs(S), e, n)
  BY <1>1 DEF At, Recs
<1> DEFINE f(p) == IF p \in At(Recs(S), e, n) THEN up(p) ELSE p
           New == (S \ At(S, e, n)) \cup {up(x) : x \in At(S, e, n)}
<1>3. \A x \in S : f(Rec(x)) = IF x \in At(S, e, n) THEN Rec(up(x)) ELSE Rec(x)
  BY <1>1, <1>2
<1>4. At(S, e, n) \subseteq S
  BY DEF At
<1> HIDE DEF up, f
<1>5. \A y : y \in Recs(New) <=> \E x \in S : y = IF x \in At(S, e, n) THEN Rec(up(x)) ELSE Rec(x)
  BY <1>4 DEF Recs
<1>6. \A y : y \in {f(p) : p \in Recs(S)} <=> \E x \in S : y = f(Rec(x))
  BY DEF Recs
<1>7. Recs(New) = {f(p) : p \in Recs(S)}
  BY <1>3, <1>5, <1>6
<1> QED BY <1>7 DEF up, f

LEMMA FoldApprove ==
  ASSUME TypeOK, FoldInv, Approve
  PROVE  FoldInv'
<1> DEFINE c == Current
           mine == At(live.slots, c.edge, c.n)
           New == (live.slots \ mine) \cup {[x EXCEPT !.ok = TRUE] : x \in mine}
<1>1. Begins("approve") /\ Ends(c) /\ UNCHANGED providers
  BY DEF Approve, Ends, Rest
<1>2. c \in Command /\ c.kind = "approve" /\ c.edge \in Edge /\ cmdQ # <<>>
  BY <1>1, BeginsTyped DEF OnEdge, EdgeRule
<1>3. live \in LiveState /\ live.slots \in SUBSET Slot /\ open = None
  BY <1>1 DEF TypeOK, LiveState, Begins
<1>4. kernel = View(live) /\ disk = live
  BY <1>3, Agreed
<1>5. CASE mine = {}
  <2>1. UNCHANGED <<live, disk, kernel>>
    BY <1>5 DEF Approve, NoChange
  <2> QED BY <1>1, <1>2, <1>3, <1>4, <2>1, FoldPlain DEF View
<1>6. CASE mine # {}
  <2>1. /\ live' = [live EXCEPT !.slots = New] /\ disk' = live'
        /\ kernel' = IF \E x \in mine : ~x.ok THEN ApprovedFact(kernel, c.edge, c.n) ELSE kernel
    BY <1>6, Zenon DEF Approve, Write
  <2>2. kernel' = [View(live) EXCEPT !.pend = Recs(New)]
    <3>1. CASE \E x \in mine : ~x.ok
      <4>1. Recs(New) = {IF p \in At(Recs(live.slots), c.edge, c.n)
                         THEN [p EXCEPT !.ok = TRUE] ELSE p : p \in Recs(live.slots)}
        BY <1>3, RecsApproved
      <4>2. kernel.pend = Recs(live.slots)
        BY <1>4, ViewParts
      <4> DEFINE P == Recs(New)
      <4> HIDE DEF P, New, mine
      <4>3. ApprovedFact(kernel, c.edge, c.n) = [kernel EXCEPT !.pend = P]
        BY <4>1, <4>2, Zenon DEF ApprovedFact, P
      <4> QED BY <1>4, <2>1, <3>1, <4>3 DEF P
    <3>2. CASE ~ \E x \in mine : ~x.ok
      <4>1. \A x \in mine : [x EXCEPT !.ok = TRUE] = x
        <5>1. TAKE x \in mine
        <5>2. x \in Slot /\ x.ok = TRUE
          BY <1>3, <3>2 DEF At, Slot
        <5> QED BY <5>2 DEF Slot
      <4>2. {[x EXCEPT !.ok = TRUE] : x \in mine} = mine /\ mine \subseteq live.slots
        <5>1. mine \subseteq live.slots
          BY DEF At
        <5> HIDE DEF mine
        <5> QED BY <4>1, <5>1, Zenon
      <4>4. New = live.slots
        <5> HIDE DEF mine
        <5> QED BY <4>2
      <4> HIDE DEF New, mine
      <4> QED BY <1>4, <2>1, <3>2, <4>4, ViewIs
    <3> QED BY <3>1, <3>2
  <2> HIDE DEF New, mine
  <2>3. kernel' = View(live') /\ live'.status = live.status
    <3>1. View([live EXCEPT !.slots = New]) = [View(live) EXCEPT !.pend = Recs(New)]
      BY <1>3, ViewChanged
    <3>2. [live EXCEPT !.slots = New].status = live.status
      BY <1>3 DEF LiveState
    <3> QED BY <2>1, <2>2, <3>1, <3>2
  <2> QED BY <1>1, <1>2, <1>3, <2>1, <2>3, FoldPlain
<1> QED BY <1>5, <1>6

(* Commands that take slots away, stop edges or freeze.                     *)
LEMMA FoldSlots ==
  ASSUME TypeOK, FoldInv,
         Replay \/ Deny \/ Drop("dropMissing") \/ Drop("dropDead") \/ DropFiring
  PROVE  FoldInv'
<1> DEFINE c == Current
           New == live.slots \ At(live.slots, c.edge, c.n)
<1>1. Ends(c) /\ UNCHANGED providers /\ open = None /\ cmdQ # <<>>
  BY DEF Replay, Deny, Drop, DropFiring, Ends, Rest, Begins
<1>2. c \in Command
  BY <1>1 DEF TypeOK, Current
<1>3. live \in LiveState /\ live.slots \in SUBSET Slot
  BY DEF TypeOK, LiveState
<1>4. kernel = View(live) /\ disk = live
  BY <1>1, Agreed
<1>5. c.kind # "complete"
  <2>1. CASE Replay
    <3>1. c.by # Human
      BY <2>1 DEF Replay, Replayed, Task, Chain, Drains, Human, BoundAssumption
    <3>2. cmdQ \in Seq(Command) /\ c = cmdQ[1] /\ 1 \in DOMAIN cmdQ
      BY <1>1 DEF TypeOK, Current
    <3> QED BY <3>1, <3>2 DEF FoldInv, CompletesFirst
  <2> QED BY <2>1 DEF Deny, Drop, DropFiring, Begins
<1>6. \/ UNCHANGED <<live, disk, kernel>>
      \/ live' = live /\ disk' = live /\ kernel' = kernel
      \/ /\ live' = [live EXCEPT !.slots = New] /\ disk' = live'
         /\ kernel' = ClosedFact(kernel, c.edge, c.n)
  BY DEF Replay, Deny, Drop, DropFiring, NoChange, Write
<1>7. CASE UNCHANGED live /\ UNCHANGED kernel /\ disk' = live
  BY <1>1, <1>4, <1>5, <1>7, FoldPlain DEF View
<1>8. CASE /\ live' = [live EXCEPT !.slots = New] /\ disk' = live'
           /\ kernel' = ClosedFact(kernel, c.edge, c.n)
  <2>1. Recs(New) = Recs(live.slots) \ At(Recs(live.slots), c.edge, c.n)
    BY <1>3, RecsWithout
  <2> HIDE DEF New
  <2>2. ClosedFact(kernel, c.edge, c.n) = [View(live) EXCEPT !.pend = Recs(New)]
    BY <1>4, <2>1, ViewParts DEF ClosedFact
  <2>3. View([live EXCEPT !.slots = New]) = [View(live) EXCEPT !.pend = Recs(New)]
    BY <1>3, ViewChanged
  <2>4. [live EXCEPT !.slots = New].status = live.status
    BY <1>3 DEF LiveState
  <2> QED BY <1>1, <1>5, <1>8, <2>2, <2>3, <2>4, FoldPlain
<1> QED BY <1>4, <1>6, <1>7, <1>8

LEMMA StopKeepsStatus ==
  ASSUME NEW L \in LiveState
  PROVE  /\ \A E : StopEdges(L, E).status = L.status
         /\ \A e \in Edge : StopWithOnStop(L, e).status = L.status
<1>1. \A E : StopEdges(L, E).status = L.status
  BY DEF StopEdges, LiveState
<1>2. ASSUME NEW e \in Edge PROVE StopWithOnStop(L, e).status = L.status
  <2>1. StopEdges(L, {e}) \in LiveState
    BY StopTyped
  <2>2. StopWithOnStop(L, e).status = StopEdges(L, {e}).status
    BY <2>1 DEF StopWithOnStop, LiveState
  <2> QED BY <1>1, <2>2
<1> QED BY <1>1, <1>2

LEMMA FoldStops ==
  ASSUME TypeOK, FoldInv,
         Stop \/ StopFor \/ StopKilled \/ Freeze \/ Unfreeze \/ Report("issues") \/ Report("clean")
  PROVE  FoldInv'
<1> DEFINE c == Current
<1>1. Ends(c) /\ UNCHANGED providers /\ open = None /\ cmdQ # <<>>
  BY DEF Stop, StopFor, StopKilled, Freeze, Unfreeze, Report, Ends, Rest, Begins
<1>2. c.kind # "complete" /\ (StopFor => c.edge \in Edge)
  <2>1. StopFor => Begins("stopFor")
    BY DEF StopFor
  <2>2. StopFor => c.edge \in Edge
    BY <2>1, BeginsTyped DEF OnEdge, EdgeRule
  <2> QED BY <2>2 DEF Stop, StopFor, StopKilled, Freeze, Unfreeze, Report, Begins
<1>3. live \in LiveState
  BY DEF TypeOK
<1>4. kernel = View(live) /\ disk = live
  BY <1>1, Agreed
<1>5. disk' = live' /\ kernel' = View(live') /\ live'.status = live.status
  <2>1. CASE \/ live' = live /\ disk' = live /\ kernel' = kernel
    BY <1>4, <2>1 DEF View
  <2>2. CASE \E E : Write(StopEdges(live, E)) /\ kernel' = StopEdgeFacts(kernel, E)
    BY <1>3, <1>4, <2>2, ViewStops, StopKeepsStatus DEF Write
  <2>3. CASE \E e \in Edge : Write(StopWithOnStop(live, e)) /\ kernel' = StopWithOnStopFacts(kernel, e)
    BY <1>3, <1>4, <2>3, ViewStops, StopKeepsStatus DEF Write
  <2>4. CASE \E F : Write([live EXCEPT !.frozen = F]) /\ kernel' = [kernel EXCEPT !.frozen = F]
    <3>1. PICK F : Write([live EXCEPT !.frozen = F]) /\ kernel' = [kernel EXCEPT !.frozen = F]
      BY <2>4
    <3>2. View([live EXCEPT !.frozen = F]) = [View(live) EXCEPT !.frozen = F]
      BY <1>3, ViewChanged
    <3>3. [live EXCEPT !.frozen = F].status = live.status
      BY <1>3 DEF LiveState
    <3> QED BY <1>4, <3>1, <3>2, <3>3 DEF Write
  <2>5. Stop \/ StopKilled => \E E : Write(StopEdges(live, E)) /\ kernel' = StopEdgeFacts(kernel, E)
    BY Zenon DEF Stop, StopKilled
  <2>6. StopFor => \/ live' = live /\ disk' = live /\ kernel' = kernel
                   \/ \E e \in Edge : /\ Write(StopWithOnStop(live, e))
                                      /\ kernel' = StopWithOnStopFacts(kernel, e)
    BY <1>2, Zenon DEF StopFor, Write
  <2>7. Report("issues") \/ Report("clean") => live' = live /\ disk' = live /\ kernel' = kernel
    BY DEF Report, Write
  <2>8. Freeze \/ Unfreeze => \E F : Write([live EXCEPT !.frozen = F])
                                     /\ kernel' = [kernel EXCEPT !.frozen = F]
    <3>1. kernel.frozen = live.frozen
      BY <1>4, ViewParts
    <3>2. Freeze => /\ Write([live EXCEPT !.frozen = live.frozen \cup {c.sess}])
                    /\ kernel' = [kernel EXCEPT !.frozen = live.frozen \cup {c.sess}]
      BY <3>1, Zenon DEF Freeze, FreezeFact
    <3>3. Unfreeze => /\ Write([live EXCEPT !.frozen = live.frozen \ {c.sess}])
                      /\ kernel' = [kernel EXCEPT !.frozen = live.frozen \ {c.sess}]
      BY <3>1, Zenon DEF Unfreeze, LiftFact
    <3> QED BY <3>2, <3>3, Zenon
  <2> QED BY <2>1, <2>2, <2>3, <2>4, <2>5, <2>6, <2>7, <2>8
<1> QED BY <1>1, <1>2, <1>5, FoldPlain

(* A delivery or an execution counts a firing of its edge.                  *)
LEMMA ViewFires ==
  ASSUME NEW L \in LiveState, NEW e \in Edge
  PROVE  View([L EXCEPT !.firings[e] = @ + 1]) = [View(L) EXCEPT !.firings[e] = @ + 1]
<1> DEFINE f == [L.firings EXCEPT ![e] = @ + 1]
<1>1. [L EXCEPT !.firings[e] = @ + 1] = [L EXCEPT !.firings = f]
  BY DEF LiveState
<1>2. [View(L) EXCEPT !.firings[e] = @ + 1] = [View(L) EXCEPT !.firings = f]
  BY ViewParts
<1> HIDE DEF f
<1>3. View([L EXCEPT !.firings = f]) = [View(L) EXCEPT !.firings = f]
  BY ViewChanged
<1> QED BY <1>1, <1>2, <1>3

LEMMA FoldDeliverFor ==
  ASSUME TypeOK, FoldInv, DeliverFor
  PROVE  FoldInv'
<1> DEFINE c == Current
           e == c.edge
           L == [live EXCEPT !.firings[e] = @ + 1]
           k == DeliveredFact(kernel, e, TRUE)
           M == IF AtCap(L, e) THEN StopWithOnStop(L, e) ELSE L
<1>1. Begins("deliverFor") /\ Ends(c) /\ UNCHANGED providers
  BY DEF DeliverFor, Ends, Rest
<1>2. c \in Command /\ c.kind = "deliverFor" /\ e \in Edge /\ cmdQ # <<>>
  BY <1>1, BeginsTyped DEF OnEdge, EdgeRule
<1>3. live \in LiveState /\ open = None
  BY <1>1 DEF TypeOK, Begins
<1>4. kernel = View(live) /\ disk = live
  BY <1>3, Agreed
<1>5. L \in LiveState /\ L.status = live.status
  <2>1. L \in LiveState
    <3>1. Target(e) \in Session
      BY <1>2, DefAssumption DEF Target, EdgeDef
    <3> HIDE DEF e
    <3> QED BY <1>2, <1>3, <3>1, LiveTyped
  <2> QED BY <1>3, <2>1 DEF LiveState
<1>6. View(L) = k
  BY <1>2, <1>3, <1>4, ViewFires DEF DeliveredFact
<1>7. \/ live' = live /\ disk' = live /\ kernel' = kernel
      \/ /\ live' = M /\ disk' = M
         /\ kernel' = IF AtCap(L, e) THEN StopWithOnStopFacts(k, e) ELSE k
  BY <1>4, Zenon DEF DeliverFor, NoChange, Write
<1> HIDE DEF L, k
<1>8. View(M) = IF AtCap(L, e) THEN StopWithOnStopFacts(k, e) ELSE k
  BY <1>2, <1>5, <1>6, ViewStops
<1>9. M.status = live.status
  BY <1>2, <1>5, StopKeepsStatus
<1>10. disk' = live' /\ kernel' = View(live') /\ live'.status = live.status
  BY <1>4, <1>7, <1>8, <1>9 DEF View
<1> QED BY <1>1, <1>2, <1>3, <1>10, FoldPlain

(* The head of the queue is the first of its elements.                      *)
LEMMA FirstIsCurrent ==
  ASSUME TypeOK, cmdQ # <<>>
  PROVE  1 \in DOMAIN cmdQ /\ cmdQ[1] = Current /\ Current \in Command
BY DEF TypeOK, Current

LEMMA FoldSessions ==
  ASSUME TypeOK, FoldInv, Kill \/ Complete
  PROVE  FoldInv'
<1> DEFINE s == Current.sess
<1>1. Ends(Current) /\ open = None /\ cmdQ # <<>>
  BY DEF Kill, Complete, Ends, Begins
<1>2. Current \in Command /\ s \in Session
  BY BeginsTyped DEF Kill, Complete, OnSession
<1>3. live \in LiveState
  BY DEF TypeOK
<1>4. kernel = View(live) /\ disk = live
  BY <1>1, Agreed
<1>5. \A t \in Session : live.status[t] \in Running => proc[t] # 0 \/ Ending(t)
  BY <1>1 DEF FoldInv, RunsAreThere, Saved
<1>6. \A t \in doomed : proc[t] # 0 /\ live.status[t] = "killed"
  BY <1>1 DEF FoldInv, DoomedKilled, Saved
<1>7. ~bridge => \A t \in Session : proc[t] = 0
  BY DEF FoldInv, Alone
<1>8. \A st : /\ View([live EXCEPT !.status[s] = st]) = SessionFact(View(live), s, st)
              /\ [live EXCEPT !.status[s] = st].status = [live.status EXCEPT ![s] = st]
  BY <1>3, ViewSession DEF LiveState
<1>9. \A st : \A t \in Session : [live.status EXCEPT ![s] = st][t]
                                   = IF t = s THEN st ELSE live.status[t]
  BY <1>3 DEF LiveState
<1>10. UNCHANGED <<proc, bridge>> /\ doomed \subseteq Session
  BY DEF Kill, Complete, TypeOK
<1> HIDE DEF s
<1>11. CASE Kill
  <2>1. Current.kind = "kill"
    BY <1>11 DEF Kill, Begins
  <2>2. CASE proc[s] = 0
    <3>1. live' = live /\ disk' = live /\ kernel' = kernel /\ doomed' = doomed
      BY <1>11, <2>2 DEF Kill, Write, s
    <3>2. kernel' = View(live')
      BY <1>4, <3>1 DEF View
    <3> QED BY <1>1, <1>5, <1>6, <1>7, <1>10, <2>1, <3>1, <3>2, FoldEnds DEF Ending
  <2>3. CASE proc[s] # 0
    <3>1. /\ live' = [live EXCEPT !.status[s] = "killed"] /\ disk' = live'
          /\ kernel' = SessionFact(kernel, s, "killed") /\ doomed' = doomed \cup {s}
      BY <1>11, <2>3 DEF Kill, Write, s
    <3>2. kernel' = View(live')
      BY <1>4, <1>8, <3>1
    <3>3. \A t \in Session : live'.status[t] = IF t = s THEN "killed" ELSE live.status[t]
      <4>1. live'.status = [live.status EXCEPT ![s] = "killed"]
        BY <1>8, <3>1
      <4> QED BY <1>9, <4>1
    <3>4. \A t \in Session : live'.status[t] \in Running => proc'[t] # 0
      BY <1>5, <1>10, <2>1, <3>3 DEF Ending, Running
    <3>5. \A t \in doomed' : proc'[t] # 0 /\ live'.status[t] = "killed"
      BY <1>2, <1>6, <1>10, <2>3, <3>1, <3>3 DEF s
    <3> QED BY <1>1, <1>7, <1>10, <3>1, <3>2, <3>4, <3>5, FoldEnds
  <2> QED BY <2>2, <2>3
<1>12. CASE Complete
  <2>1. Current.kind = "complete"
    BY <1>12 DEF Complete, Begins
  <2>2. proc[s] = 0
    BY <1>1, <2>1, FirstIsCurrent DEF FoldInv, CompletesFirst, s
  <2>3. PICK st \in {"idle", "failed"} :
          /\ live' = [live EXCEPT !.status[s] = st] /\ disk' = live'
          /\ kernel' = SessionFact(kernel, s, st)
    BY <1>12, Zenon DEF Complete, FailSession, Write, s
  <2>4. doomed' = doomed
    BY <1>12 DEF Complete
  <2>5. kernel' = View(live')
    BY <1>4, <1>8, <2>3
  <2>6. \A t \in Session : live'.status[t] = IF t = s THEN st ELSE live.status[t]
    BY <1>8, <1>9, <2>3
  <2>7. \A t \in Session : live'.status[t] \in Running => proc'[t] # 0
    BY <1>5, <1>10, <2>6 DEF Ending, Running, s
  <2>8. \A t \in doomed' : proc'[t] # 0 /\ live'.status[t] = "killed"
    BY <1>6, <1>10, <2>2, <2>4, <2>6
  <2> QED BY <1>1, <1>7, <1>10, <2>3, <2>5, <2>7, <2>8, FoldEnds
<1> QED BY <1>11, <1>12

(* A command that awaits keeps what it began with.                          *)
LEMMA FoldOpens ==
  ASSUME TypeOK, FoldInv, open = None, cmdQ # <<>>, Current.kind # "complete",
         NEW slot \in Slot \cup {None}, NEW L, Opens(slot, ~bridge, L),
         \/ /\ Current.kind = "execute" /\ proc[Target(Current.edge)] = 0
            /\ L = [live EXCEPT !.slots = @ \ At(@, Current.edge, Current.n),
                                !.status[Target(Current.edge)] = "pending"]
         \/ /\ Current.kind = "activate" /\ proc[Current.sess] = 0
            /\ L = [live EXCEPT !.status[Current.sess] = "pending"]
  PROVE  FoldInv'
<1>1. open' = [saved |-> live, io |-> ~bridge, slot |-> slot] /\ live' = L
  BY DEF Opens
<1>2. UNCHANGED <<disk, kernel, proc, doomed, bridge, task, cmdQ>> /\ Current' = Current
  BY DEF Opens, Current, providers
<1>3. open' # None /\ open'.saved = live /\ open'.io = ~bridge
  <2>1. open' \in OpenState
    BY <1>1 DEF OpenState, TypeOK
  <2> QED BY <1>1, <2>1, NoneAssumption
<1>4. CompletesFirst'
  <2>1. \A i \in DOMAIN cmdQ : cmdQ[i].kind # "complete"
    BY FirstIsCurrent DEF FoldInv, CompletesFirst
  <2> QED BY <1>2, <2>1 DEF FoldInv, CompletesFirst
<1>5. OnlyRules' /\ Alone'
  BY <1>2, <1>3 DEF FoldInv, OnlyRules, Alone
<1>6. Saved' = live /\ Saved = live
  BY <1>3 DEF Saved
<1>7. Agrees' /\ RunsAreThere' /\ DoomedKilled'
  BY <1>2, <1>6 DEF FoldInv, Agrees, RunsAreThere, DoomedKilled, Ending, View
<1>8. Untouched'
  BY <1>1, <1>2, <1>3, Zenon DEF Untouched
<1> QED BY <1>4, <1>5, <1>7, <1>8 DEF FoldInv

LEMMA FoldBegins ==
  ASSUME TypeOK, FoldInv, ExecuteBegin \/ ActivateBegin
  PROVE  FoldInv'
<1>1. open = None /\ cmdQ # <<>> /\ Current.kind \in {"execute", "activate"}
  BY DEF ExecuteBegin, ActivateBegin, Begins
<1>2. kernel = View(live) /\ disk = live
  BY <1>1, Agreed
<1>3. CASE /\ Ends(Current) /\ Rest
           /\ live' = live /\ disk' = live /\ kernel' = kernel
  BY <1>1, <1>2, <1>3, FoldPlain DEF View, Rest
<1>4. CASE ExecuteBegin
  <2> DEFINE s == Target(Current.edge)
             mine == At(live.slots, Current.edge, Current.n)
  <2>1. CASE mine = {}
    BY <1>2, <1>3, <1>4, <2>1 DEF ExecuteBegin, Write, Ends
  <2>2. CASE mine # {} /\ proc[s] # 0
    BY <1>2, <1>3, <1>4, <2>2 DEF ExecuteBegin, NoChange, Ends
  <2>3. CASE mine # {} /\ proc[s] = 0
    <3>1. PICK x \in mine :
            Opens(x, ~bridge, [live EXCEPT !.slots = @ \ mine, !.status[s] = "pending"])
      BY <1>4, <2>3 DEF ExecuteBegin
    <3>2. x \in Slot
      BY DEF At, LiveState, TypeOK
    <3>3. Current.kind = "execute"
      BY <1>4 DEF ExecuteBegin, Begins
    <3>4. PICK L : /\ L = [live EXCEPT !.slots = @ \ mine, !.status[s] = "pending"]
                   /\ Opens(x, ~bridge, L)
      BY <3>1
    <3>5. L = [live EXCEPT !.slots = @ \ At(@, Current.edge, Current.n),
                           !.status[Target(Current.edge)] = "pending"]
      BY <3>4
    <3> QED BY <1>1, <2>3, <3>2, <3>3, <3>4, <3>5, FoldOpens
  <2> QED BY <2>1, <2>2, <2>3
<1>5. CASE ActivateBegin
  <2> DEFINE s == Current.sess
  <2>1. CASE ~Activatable(s)
    BY <1>2, <1>3, <1>5, <2>1 DEF ActivateBegin, NoChange, Ends
  <2>2. CASE Activatable(s)
    <3>1. PICK L : L = [live EXCEPT !.status[s] = "pending"] /\ Opens(None, ~bridge, L)
      BY <1>5, <2>2 DEF ActivateBegin
    <3>2. proc[s] = 0 /\ Current.kind = "activate"
      BY <1>5, <2>2 DEF Activatable, ActivateBegin, Begins
    <3> QED BY <1>1, <3>1, <3>2, FoldOpens
  <2> QED BY <2>1, <2>2
<1> QED BY <1>4, <1>5

(* Runtime states with the same parts are the same.                         *)
LEMMA SameLive ==
  ASSUME NEW L \in LiveState, NEW M \in LiveState,
         L.status = M.status, L.frozen = M.frozen, L.active = M.active,
         L.firings = M.firings, L.slots = M.slots
  PROVE  L = M
BY DEF LiveState

(* An execution that ends leaves what its facts say: the slot is gone, the  *)
(* target runs, the firing counts.                                          *)
Executed(L, e, n, s) ==
  [L EXCEPT !.slots = @ \ At(@, e, n), !.status[s] = "running", !.firings[e] = @ + 1]

LEMMA ExecutedParts ==
  ASSUME NEW L \in LiveState, NEW e \in Edge, NEW n, NEW s \in Session
  PROVE  /\ Executed(L, e, n, s) \in LiveState
         /\ Executed(L, e, n, s).status = [L.status EXCEPT ![s] = "running"]
         /\ View(Executed(L, e, n, s)) = FiredFact(View(L), e, n, s)
<1> DEFINE T == L.slots \ At(L.slots, e, n)
           f == [L.status EXCEPT ![s] = "running"]
           g == [L.firings EXCEPT ![e] = @ + 1]
<1>1. T \in SUBSET Slot /\ f \in [Session -> Status] /\ g \in [Edge -> Nat]
  BY DEF LiveState, Status
<1>2. Executed(L, e, n, s) = [L EXCEPT !.slots = T, !.status = f, !.firings = g]
  BY DEF Executed, LiveState
<1>3. PICK L1 : L1 = [L EXCEPT !.slots = T]
  OBVIOUS
<1>4. PICK L2 : L2 = [L1 EXCEPT !.status = f]
  OBVIOUS
<1>5. PICK L3 : L3 = [L2 EXCEPT !.firings = g]
  OBVIOUS
<1>6. Executed(L, e, n, s) = L3
  BY <1>2, <1>3, <1>4, <1>5
<1>7. Recs(T) = Recs(L.slots) \ At(Recs(L.slots), e, n)
  <2>1. L.slots \in SUBSET Slot
    BY DEF LiveState
  <2> QED BY <2>1, RecsWithout
<1>8. FiredFact(View(L), e, n, s)
        = [View(L) EXCEPT !.pend = Recs(T), !.status = f, !.firings = g]
  <2>1. PICK k : k = View(L)
    OBVIOUS
  <2>2. k \in KernelState /\ k.status = L.status /\ k.firings = L.firings /\ k.pend = Recs(L.slots)
    BY <2>1, ViewTyped, ViewParts
  <2>3. PICK P : P = Recs(T)
    OBVIOUS
  <2>4. P = k.pend \ At(k.pend, e, n)
    BY <1>7, <2>2, <2>3
  <2>5. f = [k.status EXCEPT ![s] = "running"] /\ g = [k.firings EXCEPT ![e] = @ + 1]
    BY <2>2
  <2> HIDE DEF T, f, g
  <2>6. FiredFact(k, e, n, s) = [k EXCEPT !.pend = P, !.status = f, !.firings = g]
    BY <2>2, <2>4, <2>5, Zenon DEF FiredFact
  <2> QED BY <2>1, <2>3, <2>6
<1> HIDE DEF T, f, g
<1>9. L1 \in LiveState /\ L2 \in LiveState /\ L3 \in LiveState /\ L3.status = f
  <2>1. L1 \in LiveState
    BY <1>1, <1>3 DEF LiveState
  <2>2. L2 \in LiveState /\ L2.status = f
    BY <1>1, <1>4, <2>1 DEF LiveState
  <2> QED BY <1>1, <1>5, <2>1, <2>2 DEF LiveState
<1>10. View(L3) = [View(L) EXCEPT !.pend = Recs(T), !.status = f, !.firings = g]
  <2>1. View(L1) = [View(L) EXCEPT !.pend = Recs(T)]
    BY <1>3, ViewChanged
  <2>2. View(L2) = [View(L1) EXCEPT !.status = f]
    BY <1>4, <1>9, ViewChanged
  <2>3. View(L3) = [View(L2) EXCEPT !.firings = g]
    BY <1>5, <1>9, ViewChanged
  <2> QED BY <2>1, <2>2, <2>3
<1> QED BY <1>6, <1>8, <1>9, <1>10 DEF f

(* What had begun ends, and its facts say what it did.                      *)
LEMMA FoldExecuteEnd ==
  ASSUME TypeOK, OnceInv, FoldInv, ExecuteEnd
  PROVE  FoldInv'
<1> DEFINE c == Current
           e == c.edge
           s == Target(e)
           S == open.saved
           L == [live EXCEPT !.status[s] = "running", !.firings[e] = @ + 1]
           k == FiredFact(kernel, e, c.n, s)
           M == IF AtCap(L, e) THEN StopWithOnStop(L, e) ELSE L
           X == Executed(S, e, c.n, s)
<1>1. open # None /\ cmdQ # <<>> /\ c.kind = "execute" /\ c \in Command /\ e \in Edge
  BY DEF ExecuteEnd, TypeOK, Current, Command, OnEdge, EdgeRule
<1>2. S \in LiveState /\ s \in Session /\ proc \in [Session -> Nat] /\ nrun \in Nat
      /\ doomed \subseteq Session /\ open.slot \in Slot
  <2>1. open \in OpenState /\ s \in Session
    BY <1>1, DefAssumption DEF TypeOK, Target, EdgeDef
  <2> QED BY <1>1, <2>1 DEF OpenState, TypeOK
<1>3. Saved = S /\ kernel = View(S) /\ disk = S
  BY <1>1 DEF Saved, FoldInv, Agrees
<1>4. live = [S EXCEPT !.slots = @ \ At(@, e, c.n), !.status[s] = "pending"]
  BY <1>1 DEF FoldInv, Untouched
<1>5. L = X
  <2> DEFINE T == S.slots \ At(S.slots, e, c.n)
  <2>1. live.slots = T /\ live.status = [S.status EXCEPT ![s] = "pending"]
        /\ live.firings = S.firings /\ live.active = S.active /\ live.frozen = S.frozen
    BY <1>2, <1>4 DEF LiveState
  <2>2. X.slots = T /\ X.status = [S.status EXCEPT ![s] = "running"]
        /\ X.firings = [S.firings EXCEPT ![e] = @ + 1] /\ X.active = S.active
        /\ X.frozen = S.frozen
    BY <1>2 DEF Executed, LiveState
  <2>3. live \in LiveState
    BY DEF TypeOK
  <2>4. L.slots = live.slots /\ L.status = [live.status EXCEPT ![s] = "running"]
        /\ L.firings = [live.firings EXCEPT ![e] = @ + 1] /\ L.active = live.active
        /\ L.frozen = live.frozen
    BY <2>3 DEF LiveState
  <2>5. L \in LiveState
    <3>1. [live.status EXCEPT ![s] = "running"] \in [Session -> Status]
      BY <1>2, <2>3 DEF LiveState, Status
    <3>2. live.firings[e] + 1 \in Nat
      BY <1>1, <2>3 DEF LiveState
    <3>3. [live.firings EXCEPT ![e] = @ + 1] \in [Edge -> Nat]
      BY <1>1, <2>3, <3>2 DEF LiveState
    <3> HIDE DEF L
    <3>4. L = [live EXCEPT !.status = [live.status EXCEPT ![s] = "running"],
                           !.firings = [live.firings EXCEPT ![e] = @ + 1]]
      BY <2>3 DEF L, LiveState
    <3> QED BY <2>3, <3>1, <3>3, <3>4 DEF LiveState
  <2>6. X \in LiveState
    BY <1>1, <1>2, ExecutedParts
  <2>7. [[S.status EXCEPT ![s] = "pending"] EXCEPT ![s] = "running"]
          = [S.status EXCEPT ![s] = "running"]
    BY <1>2 DEF LiveState
  <2> HIDE DEF T, L, X, S, e, s
  <2> QED BY <2>1, <2>2, <2>4, <2>5, <2>6, <2>7, SameLive
<1>6. View(L) = k /\ L \in LiveState /\ L.status = [S.status EXCEPT ![s] = "running"]
  <2>1. X \in LiveState /\ X.status = [S.status EXCEPT ![s] = "running"]
        /\ View(X) = FiredFact(View(S), e, c.n, s)
    <3>1. PICK n : n = c.n
      OBVIOUS
    <3> HIDE DEF e, S, s
    <3>2. /\ Executed(S, e, n, s) \in LiveState
          /\ Executed(S, e, n, s).status = [S.status EXCEPT ![s] = "running"]
          /\ View(Executed(S, e, n, s)) = FiredFact(View(S), e, n, s)
      BY <1>1, <1>2, ExecutedParts
    <3> QED BY <3>1, <3>2
  <2> HIDE DEF L, X, S, s
  <2> QED BY <1>3, <1>5, <2>1
<1>7. ~Def[e].deliver
  <2>1. open.slot \in S.slots /\ open.slot.edge = e
    BY <1>1 DEF OnceInv, OpenSlotTaken
  <2> QED BY <1>1, <2>1 DEF OnceInv, SlotsOK, States, Saved, SlotSetOK
<1>8. /\ live' = M /\ disk' = M
      /\ kernel' = IF AtCap(L, e) THEN StopWithOnStopFacts(k, e) ELSE k
  <2>1. (IF open.slot.data THEN DeliveredFact(kernel, e, Def[e].deliver) ELSE kernel) = kernel
    BY <1>7 DEF DeliveredFact
  <2> QED BY <2>1, Zenon DEF ExecuteEnd, Write
<1>9. /\ Ends(c) /\ proc' = [proc EXCEPT ![s] = nrun + 1]
      /\ doomed' = doomed \ {s} /\ bridge' = TRUE
  BY Zenon DEF ExecuteEnd, Launched, Ends
<1> HIDE DEF L, k, X, S, s
<1>10. View(M) = IF AtCap(L, e) THEN StopWithOnStopFacts(k, e) ELSE k
  BY <1>1, <1>6, ViewStops
<1>11. M.status = [S.status EXCEPT ![s] = "running"]
  BY <1>1, <1>6, StopKeepsStatus
<1>12. \A t \in Session : M.status[t] = IF t = s THEN "running" ELSE S.status[t]
  BY <1>2, <1>11 DEF LiveState
<1>13. \A t \in Session : proc'[t] = IF t = s THEN nrun + 1 ELSE proc[t]
  BY <1>2, <1>9
<1>14. \A t \in Session : live'.status[t] \in Running => proc'[t] # 0
  <2>1. \A t \in Session : S.status[t] \in Running => proc[t] # 0
    BY <1>1, <1>3 DEF FoldInv, RunsAreThere, Ending
  <2> HIDE DEF M
  <2> QED BY <1>2, <1>8, <1>12, <1>13, <2>1
<1>15. \A t \in doomed' : proc'[t] # 0 /\ live'.status[t] = "killed"
  <2>1. \A t \in doomed : t \in Session /\ proc[t] # 0 /\ S.status[t] = "killed"
    BY <1>2, <1>3 DEF FoldInv, DoomedKilled
  <2> HIDE DEF M
  <2> QED BY <1>2, <1>8, <1>9, <1>12, <1>13, <2>1
<1> HIDE DEF M
<1>16. kernel' = View(live') /\ disk' = live'
  BY <1>8, <1>10
<1> QED BY <1>1, <1>9, <1>14, <1>15, <1>16, FoldEnds

LEMMA FoldActivateEnd ==
  ASSUME TypeOK, FoldInv, ActivateEnd
  PROVE  FoldInv'
<1> DEFINE s == Current.sess
           S == open.saved
           L == [live EXCEPT !.status[s] = "running"]
           f == [S.status EXCEPT ![s] = "running"]
<1>1. open # None /\ cmdQ # <<>> /\ Current.kind = "activate" /\ s \in Session
  BY DEF ActivateEnd, TypeOK, Current, Command, OnSession
<1>2. S \in LiveState /\ proc \in [Session -> Nat] /\ nrun \in Nat /\ doomed \subseteq Session
  <2>1. open \in OpenState
    BY <1>1 DEF TypeOK
  <2> QED BY <2>1 DEF OpenState, TypeOK
<1>3. Saved = S /\ kernel = View(S) /\ disk = S
  BY <1>1 DEF Saved, FoldInv, Agrees
<1>4. live = [S EXCEPT !.status[s] = "pending"]
  BY <1>1 DEF FoldInv, Untouched
<1>5. L = [S EXCEPT !.status = f]
  <2>1. PICK g : g = [S.status EXCEPT ![s] = "pending"]
    OBVIOUS
  <2>2. live = [S EXCEPT !.status = g]
    BY <1>2, <1>4, <2>1 DEF LiveState
  <2>3. [g EXCEPT ![s] = "running"] = f
    BY <1>1, <1>2, <2>1 DEF LiveState
  <2>4. live.status = g
    BY <1>2, <2>2 DEF LiveState
  <2>5. L = [live EXCEPT !.status = [g EXCEPT ![s] = "running"]]
    BY <2>4
  <2> HIDE DEF f, L
  <2>6. L = [live EXCEPT !.status = f]
    BY <2>3, <2>5
  <2> HIDE DEF S
  <2> QED BY <1>2, <2>2, <2>6 DEF LiveState
<1>6. /\ live' = L /\ disk' = L /\ kernel' = ActivatedFact(kernel, s)
      /\ Ends(Current) /\ proc' = [proc EXCEPT ![s] = nrun + 1]
      /\ doomed' = doomed \ {s} /\ bridge' = TRUE
  BY Zenon DEF ActivateEnd, Write, Launched, Ends
<1>7. kernel' = View(live')
  <2>1. kernel' = [View(S) EXCEPT !.status = f]
    <3>1. View(S).status = S.status
      BY ViewParts
    <3>2. [View(S).status EXCEPT ![s] = "running"] = f
      BY <3>1
    <3> HIDE DEF f, S
    <3> QED BY <1>3, <1>6, <3>2, Zenon DEF ActivatedFact
  <2> HIDE DEF f, L, S
  <2>2. View([S EXCEPT !.status = f]) = [View(S) EXCEPT !.status = f]
    BY <1>2, ViewChanged
  <2> QED BY <1>5, <1>6, <2>1, <2>2
<1>8. live'.status = f
  <2> HIDE DEF f, L, S
  <2> QED BY <1>2, <1>5, <1>6 DEF LiveState
<1>9. \A t \in Session : live'.status[t] = IF t = s THEN "running" ELSE S.status[t]
  BY <1>2, <1>8 DEF LiveState
<1> HIDE DEF L, f, S, s
<1>10. \A t \in Session : proc'[t] = IF t = s THEN nrun + 1 ELSE proc[t]
  BY <1>2, <1>6
<1>11. \A t \in Session : live'.status[t] \in Running => proc'[t] # 0
  <2>1. \A t \in Session : S.status[t] \in Running => proc[t] # 0
    BY <1>1, <1>3 DEF FoldInv, RunsAreThere, Ending
  <2> QED BY <1>2, <1>9, <1>10, <2>1
<1>12. \A t \in doomed' : proc'[t] # 0 /\ live'.status[t] = "killed"
  <2>1. \A t \in doomed : t \in Session /\ proc[t] # 0 /\ S.status[t] = "killed"
    BY <1>2, <1>3 DEF FoldInv, DoomedKilled
  <2> QED BY <1>2, <1>6, <1>9, <1>10, <2>1
<1> QED BY <1>1, <1>6, <1>7, <1>11, <1>12, FoldEnds

(* A rollback puts back what disk and log never ceased to say.              *)
LEMMA FoldAbort ==
  ASSUME TypeOK, FoldInv, Abort
  PROVE  FoldInv'
<1>1. open # None /\ cmdQ # <<>> /\ Ends(Current)
  BY DEF Abort, TypeOK, Ends
<1>2. Current.kind \in {"execute", "activate"}
  BY <1>1 DEF FoldInv, Untouched
<1>3. live' = open.saved /\ bridge' = TRUE /\ UNCHANGED <<disk, kernel, proc, doomed>>
  BY <1>2 DEF Abort, TypeOK
<1>4. Saved = live'
  BY <1>1, <1>3 DEF Saved
<1>5. kernel' = View(live') /\ disk' = live'
  BY <1>3, <1>4 DEF FoldInv, Agrees
<1>6. \A t \in Session : live'.status[t] \in Running => proc'[t] # 0
  BY <1>2, <1>3, <1>4 DEF FoldInv, RunsAreThere, Ending
<1>7. \A t \in doomed' : proc'[t] # 0 /\ live'.status[t] = "killed"
  BY <1>3, <1>4 DEF FoldInv, DoomedKilled
<1> QED BY <1>1, <1>3, <1>5, <1>6, <1>7, FoldEnds

(* A command is sent, or a task moves on.                                   *)
LEMMA FoldSends ==
  ASSUME TypeOK, FoldInv, UNCHANGED <<live, disk, kernel, proc, doomed, bridge, open>>,
         \/ cmdQ' = cmdQ
         \/ \E c \in Command : cmdQ' = Append(cmdQ, c) /\ c.kind \notin {"complete", "workflow"},
         OnlyRules'
  PROVE  FoldInv'
<1>1. cmdQ \in Seq(Command)
  BY DEF TypeOK
<1>2. CASE cmdQ' = cmdQ
  BY <1>2 DEF FoldInv, CompletesFirst, Alone, Agrees, Untouched, RunsAreThere, DoomedKilled,
              Saved, Ending, Current, View
<1>3. CASE cmdQ' # cmdQ
  <2>1. PICK c \in Command : cmdQ' = Append(cmdQ, c) /\ c.kind \notin {"complete", "workflow"}
    BY <1>3
  <2>2. /\ DOMAIN cmdQ' = DOMAIN cmdQ \cup {Len(cmdQ) + 1}
        /\ cmdQ'[Len(cmdQ) + 1] = c /\ \A i \in DOMAIN cmdQ : cmdQ'[i] = cmdQ[i]
    BY <1>1, <2>1
  <2>3. CompletesFirst'
    BY <2>1, <2>2 DEF FoldInv, CompletesFirst
  <2>4. cmdQ # <<>> => cmdQ' # <<>> /\ Current' = Current
    BY <1>1, <2>1 DEF Current
  <2>5. \A s : Ending(s) => Ending(s)'
    BY <2>4 DEF Ending
  <2>6. Untouched'
    <3>1. open # None => cmdQ # <<>>
      BY DEF TypeOK
    <3> QED BY <2>4, <3>1 DEF FoldInv, Untouched
  <2>7. Alone' /\ Agrees' /\ DoomedKilled'
    BY DEF FoldInv, Alone, Agrees, DoomedKilled, Saved, View
  <2>8. RunsAreThere'
    BY <2>5 DEF FoldInv, RunsAreThere, Saved
  <2> QED BY <2>3, <2>6, <2>7, <2>8 DEF FoldInv
<1> QED BY <1>2, <1>3

LEMMA DecisionsOfRules ==
  ASSUME NEW ev, NEW c \in Decisions(ev)
  PROVE  c.kind \notin {"complete", "workflow"}
<1>1. CASE ev.kind = "recover"
  BY <1>1 DEF Decisions
<1>2. CASE ev.kind = "killed"
  BY <1>2 DEF Decisions, Cmd
<1>3. CASE ev.kind # "recover" /\ ev.kind # "killed"
  <2>1. PICK e \in live.active : c \in Decide(e, ev)
    BY <1>3 DEF Decisions
  <2>2. /\ RuleCmd("stopFor", e, ev).kind = "stopFor"
        /\ RuleCmd("dropFiring", e, ev).kind = "dropFiring"
        /\ \A d : DeliverCmd(e, ev, d).kind = "deliverFor"
        /\ \A d, u : PendCmd(e, ev, d, u).kind = "pend"
        /\ InterruptCmd(e, ev).kind = "kill"
    BY DEF RuleCmd, DeliverCmd, PendCmd, InterruptCmd, Cmd
  <2>3. \/ c = RuleCmd("stopFor", e, ev)
        \/ c = RuleCmd("dropFiring", e, ev)
        \/ \E d \in BOOLEAN : c = DeliverCmd(e, ev, d)
        \/ \E d, u \in BOOLEAN : c = PendCmd(e, ev, d, u)
        \/ c = InterruptCmd(e, ev)
    BY <2>1, DecideShape, Zenon
  <2>4. c.kind \in {"stopFor", "dropFiring", "deliverFor", "pend", "kill"}
    BY <2>2, <2>3, Zenon
  <2> QED BY <2>4
<1> QED BY <1>1, <1>2, <1>3

LEMMA FoldTasks ==
  ASSUME TypeOK, FoldInv, TakeEvent \/ \E p \in Task : Resume(p)
  PROVE  FoldInv'
<1> DEFINE Rule(c) == c.kind \notin {"complete", "workflow"}
<1>1. /\ task \in [Task -> TaskState] /\ live.slots \subseteq Slot /\ live.active \subseteq Edge
      /\ schedQ \in Seq(Event)
  BY DEF TypeOK, LiveState
<1>2. \A p \in Task : \A c \in task[p].todo : Rule(c)
  BY DEF FoldInv, OnlyRules
<1>3. PICK p \in Task, t \in TaskState :
        Proceed(p, t) /\ (\A c \in t.todo : Rule(c)) /\ TaskUnchanged
  <2>1. CASE TakeEvent
    <3> DEFINE t == [FreshTask EXCEPT !.todo = Decisions(Head(schedQ))]
    <3>1. Head(schedQ) \in Event
      BY <1>1, <2>1 DEF TakeEvent
    <3>2. t \in TaskState /\ t.todo = Decisions(Head(schedQ))
      BY <1>1, <3>1, DecisionsTyped DEF FreshTask, TaskState
    <3>3. Chain \in Task
      BY DEF Task
    <3> QED BY <2>1, <3>2, <3>3, DecisionsOfRules DEF TakeEvent
  <2>2. CASE \E p \in Task : Resume(p)
    BY <1>1, <1>2, <2>2 DEF Resume
  <2> QED BY <2>1, <2>2
<1>4. PICK u : task' = [task EXCEPT ![p] = u] /\ Proceeds(p, t, u)
  BY <1>3, ProceedShape
<1>5. t.todo \subseteq Command /\ t.slots \subseteq Slot
  BY DEF TaskState
<1> HIDE DEF Rule
<1>6. /\ \A c \in u.todo : Rule(c)
      /\ cmdQ' = cmdQ \/ \E c \in Command : Rule(c) /\ cmdQ' = Append(cmdQ, c)
  <2>1. CASE u = OffTask /\ cmdQ' = cmdQ
    BY <2>1 DEF OffTask
  <2>2. CASE \E c : Sent(t, u, c) /\ cmdQ' = Append(cmdQ, c)
    <3>1. PICK c : Sent(t, u, c) /\ cmdQ' = Append(cmdQ, c)
      BY <2>2
    <3>2. u.todo \subseteq t.todo /\ c \in Command /\ Rule(c)
      BY <1>3, <1>5, <3>1 DEF Sent, TaskState
    <3> QED BY <1>3, <3>1, <3>2
  <2>3. CASE \E x, S : Drained(t, u, x, S) /\ cmdQ' = Append(cmdQ, DrainCmd(p, x))
    <3>1. PICK x, S : Drained(t, u, x, S) /\ cmdQ' = Append(cmdQ, DrainCmd(p, x))
      BY <2>3
    <3>2. x \in Slot /\ u.todo = {}
      BY <1>1, <1>5, <3>1 DEF Drained, Approved, TaskState
    <3>3. DrainCmd(p, x) \in Command
      BY <3>2, DrainCmdTyped
    <3>4. DrainCmd(p, x).kind \in {"dropMissing", "dropDead", "execute"}
      BY DEF DrainCmd, Cmd
    <3>5. Rule(DrainCmd(p, x))
      BY <3>4 DEF Rule
    <3> QED BY <3>1, <3>2, <3>3, <3>5
  <2> QED BY <1>4, <2>1, <2>2, <2>3 DEF Proceeds
<1>7. OnlyRules'
  BY <1>1, <1>2, <1>4, <1>6 DEF OnlyRules, Rule
<1>8. UNCHANGED <<live, disk, kernel, proc, doomed, bridge, open>>
  BY <1>3 DEF TaskUnchanged, providers
<1> QED BY <1>6, <1>7, <1>8, FoldSends DEF Rule

(* People, agents and processes move only when no command is open but one   *)
(* that awaits the outside, and then no process runs.                       *)
LEMMA NothingUnderWay ==
  ASSUME FoldInv, Quiescent, NEW s \in Session, proc[s] # 0
  PROVE  open = None /\ cmdQ = <<>>
BY DEF FoldInv, Alone, Quiescent

LEMMA FoldCloses ==
  ASSUME TypeOK, FoldInv, NEW s \in Session, ProviderCloses(s) \/ ProviderErrs(s)
  PROVE  FoldInv'
<1>1. open = None /\ cmdQ = <<>> /\ proc[s] # 0
  BY NothingUnderWay DEF ProviderCloses, ProviderErrs
<1>2. live \in LiveState /\ proc \in [Session -> Nat] /\ ctx[s] \in Nat /\ doomed \subseteq Session
  BY DEF TypeOK
<1>3. kernel = View(live) /\ disk = live
  BY <1>1, Agreed
<1>4. \A t \in Session : live.status[t] \in Running => proc[t] # 0
  BY <1>1 DEF FoldInv, RunsAreThere, Saved, Ending
<1>5. \A t \in doomed : proc[t] # 0 /\ live.status[t] = "killed"
  BY <1>1 DEF FoldInv, DoomedKilled, Saved
<1>6. ~bridge => \A t \in Session : proc[t] = 0
  BY DEF FoldInv, Alone
<1>7. bridge' = bridge /\ task' = task /\ open' = None
  BY <1>1 DEF ProviderCloses, ProviderErrs
<1>8. ASSUME NEW st,
             live' = [live EXCEPT !.status[s] = st], disk' = live',
             kernel' = SessionFact(kernel, s, st)
      PROVE  /\ kernel' = View(live')
             /\ \A t \in Session : live'.status[t] = IF t = s THEN st ELSE live.status[t]
  <2>1. View([live EXCEPT !.status[s] = st]) = SessionFact(View(live), s, st)
    BY <1>2, ViewSession
  <2> QED BY <1>2, <1>3, <1>8, <2>1 DEF LiveState
<1>9. CASE ProviderErrs(s)
  <2>1. /\ live' = [live EXCEPT !.status[s] = "failed"] /\ disk' = live'
        /\ kernel' = SessionFact(kernel, s, "failed")
        /\ UNCHANGED <<proc, doomed, cmdQ>> /\ s \notin doomed
    BY <1>9 DEF ProviderErrs, FailSession, Write
  <2>2. /\ kernel' = View(live')
        /\ \A t \in Session : live'.status[t] = IF t = s THEN "failed" ELSE live.status[t]
    BY <1>8, <2>1
  <2>3. \A t \in Session : live'.status[t] \in Running => proc'[t] # 0
    BY <1>4, <2>1, <2>2 DEF Running
  <2>4. \A t \in doomed' : proc'[t] # 0 /\ live'.status[t] = "killed"
    BY <1>2, <1>5, <2>1, <2>2
  <2>5. Saved' = live'
    BY <1>7 DEF Saved
  <2>6. CompletesFirst' /\ OnlyRules'
    BY <1>7, <2>1 DEF FoldInv, CompletesFirst, OnlyRules
  <2>7. Alone' /\ Untouched'
    BY <1>6, <1>7, <2>1 DEF Alone, Untouched
  <2>8. Agrees' /\ RunsAreThere' /\ DoomedKilled'
    BY <2>1, <2>2, <2>3, <2>4, <2>5 DEF Agrees, RunsAreThere, DoomedKilled
  <2> QED BY <2>6, <2>7, <2>8 DEF FoldInv
<1>10. CASE ProviderCloses(s)
  <2> DEFINE c == [Cmd("complete") EXCEPT !.sess = s, !.n = ctx[s]]
  <2>1. proc' = [proc EXCEPT ![s] = 0] /\ doomed' = doomed \ {s}
    BY <1>10 DEF ProviderCloses
  <2>2. \A t \in Session : proc'[t] = IF t = s THEN 0 ELSE proc[t]
    BY <1>2, <2>1
  <2>3. c.kind = "complete" /\ c.sess = s /\ c.by = Human
    BY DEF Cmd
  <2>4. \/ /\ UNCHANGED <<live, disk, kernel, cmdQ>> /\ live.status[s] \notin Running
        \/ /\ live' = [live EXCEPT !.status[s] = "killed"] /\ disk' = live'
           /\ s \in doomed \/ live.status[s] = "killed"
           /\ UNCHANGED <<kernel, cmdQ>>
        \/ cmdQ' = Append(cmdQ, c) /\ UNCHANGED <<live, disk, kernel>>
        \/ /\ live' = [live EXCEPT !.status[s] = "failed"] /\ disk' = live'
           /\ kernel' = SessionFact(kernel, s, "failed") /\ cmdQ' = cmdQ
    BY <1>10 DEF ProviderCloses, FailSession, Write, Running
  <2> HIDE DEF c
  <2>5. \/ cmdQ' = <<>>
        \/ cmdQ' = <<c>>
    BY <1>1, <2>4
  <2>6. CompletesFirst'
    <3>1. \A i \in DOMAIN cmdQ' : i = 1 /\ cmdQ'[i] = c
      BY <2>5
    <3> QED BY <1>7, <2>2, <2>3, <3>1 DEF CompletesFirst
  <2>7. OnlyRules' /\ Alone' /\ Untouched' /\ Saved' = live'
    BY <1>6, <1>7, <2>2 DEF FoldInv, OnlyRules, Alone, Untouched, Saved
  <2>8. /\ kernel' = View(live') /\ disk' = live'
        /\ live'.status[s] \in Running => cmdQ' = <<c>>
        /\ \A t \in Session : t # s => live'.status[t] = live.status[t]
    <3>1. CASE UNCHANGED <<live, disk, kernel>> /\ live.status[s] \notin Running
      BY <1>3, <3>1 DEF View
    <3>2. CASE /\ live' = [live EXCEPT !.status[s] = "killed"] /\ disk' = live'
               /\ s \in doomed \/ live.status[s] = "killed"
               /\ UNCHANGED kernel
      <4>1. live.status[s] = "killed"
        BY <1>5, <3>2
      <4>2. live' = live
        BY <1>2, <3>2, <4>1 DEF LiveState
      <4> QED BY <1>3, <3>2, <4>1, <4>2 DEF View, Running
    <3>3. CASE cmdQ' = Append(cmdQ, c) /\ UNCHANGED <<live, disk, kernel>>
      BY <1>1, <1>3, <3>3 DEF View
    <3>4. CASE /\ live' = [live EXCEPT !.status[s] = "failed"] /\ disk' = live'
               /\ kernel' = SessionFact(kernel, s, "failed")
      BY <1>8, <3>4 DEF Running
    <3> QED BY <2>4, <3>1, <3>2, <3>3, <3>4
  <2>9. \A t \in Session : live'.status[t] \in Running => proc'[t] # 0 \/ Ending(t)'
    <3>1. cmdQ' = <<c>> => Ending(s)'
      BY <2>3 DEF Ending, Current
    <3> QED BY <1>4, <2>2, <2>8, <3>1
  <2>10. \A t \in doomed' : proc'[t] # 0 /\ live'.status[t] = "killed"
    BY <1>2, <1>5, <2>1, <2>2, <2>8
  <2>11. Agrees' /\ RunsAreThere' /\ DoomedKilled'
    BY <2>7, <2>8, <2>9, <2>10 DEF Agrees, RunsAreThere, DoomedKilled
  <2> QED BY <2>6, <2>7, <2>11 DEF FoldInv
<1> QED BY <1>9, <1>10

LEMMA FoldMacro ==
  ASSUME TypeOK, FoldInv, "workflow" \notin HumanKind,
         \/ HumanSends
         \/ \E s \in Session : AgentReports(s) \/ ProviderCloses(s) \/ ProviderErrs(s)
  PROVE  FoldInv'
<1>1. CASE HumanSends \/ \E s \in Session : AgentReports(s)
  <2>1. PICK c \in Command : Sends(c) /\ Asked(c)
    BY <1>1, SendersSend
  <2>2. c.kind \notin {"complete", "workflow"}
    BY <2>1, InputAssumption DEF Asked, HumanCommand
  <2>3. cmdQ' = Append(cmdQ, c) /\ task' = task
        /\ UNCHANGED <<live, disk, kernel, proc, doomed, bridge, open>>
    BY <2>1 DEF Sends, providers
  <2>4. OnlyRules'
    BY <2>3 DEF FoldInv, OnlyRules
  <2> QED BY <2>2, <2>3, <2>4, FoldSends
<1>2. CASE \E s \in Session : ProviderCloses(s) \/ ProviderErrs(s)
  BY <1>2, FoldCloses
<1> QED BY <1>1, <1>2

(* The runtime comes back with what the disk holds, and the log gets the    *)
(* facts of what the restart changes.                                       *)
LEMMA FoldCrash ==
  ASSUME TypeOK, FoldInv, Crash
  PROVE  FoldInv'
<1> DEFINE F == {s \in Session : disk.status[s] \in {"pending", "running"}}
           R == Recovered(F)
           killedEdges == {e \in disk.active : \E s \in {Source(e), Target(e)} :
                                                 R[s] = "killed"}
           cappedEdges == {e \in disk.active : AtCap(disk, e)}
           E == killedEdges \cup cappedEdges
           Z == {Target(e) : e \in {f \in cappedEdges \ killedEdges : Def[f].freezeOnStop}}
           G == [s \in Session |-> IF s \in F THEN "failed" ELSE disk.status[s]]
           D == [disk EXCEPT !.status = G]
           W == StopEdges(D, E)
           k == StopEdgeFacts(kernel, E)
<1>1. disk \in LiveState /\ disk = Saved /\ kernel = View(disk)
  BY DEF TypeOK, FoldInv, Agrees
<1>2. R = G
  <2>1. ASSUME NEW s \in Journaled
        PROVE  s \notin F /\ open.saved.status[s] = disk.status[s]
    <3>1. open # None /\ s \in Session
      BY <2>1 DEF Journaled
    <3>2. disk = open.saved
      BY <1>1, <3>1 DEF Saved
    <3>3. proc[s] = 0 /\ Current.kind # "complete"
      BY <2>1, <3>1 DEF FoldInv, Untouched, Journaled
    <3>4. Saved.status[s] \notin Running
      BY <3>1, <3>3 DEF FoldInv, RunsAreThere, Ending
    <3> QED BY <1>1, <3>2, <3>4 DEF Running
  <2> HIDE DEF F
  <2>2. \A s \in Session : (IF s \in Journaled THEN open.saved.status[s]
                            ELSE IF s \in F THEN "failed" ELSE disk.status[s])
                         = IF s \in F THEN "failed" ELSE disk.status[s]
    BY <2>1
  <2> QED BY <2>2, Zenon DEF Recovered
<1>3. live' = Restarted(disk, F, killedEdges, cappedEdges) /\ disk' = live'
  BY Zenon DEF Crash, Write
<1>4. kernel' = [k EXCEPT !.status = [s \in Session |-> IF s \in F THEN "failed" ELSE @[s]],
                          !.frozen = @ \cup Z]
  BY Zenon DEF Crash
<1>5. /\ proc' = [s \in Session |-> 0] /\ doomed' = {} /\ cmdQ' = <<>> /\ open' = None
      /\ task' = [p \in Task |-> OffTask]
  BY Zenon DEF Crash
<1>6. D \in LiveState /\ G \in [Session -> Status] /\ E \in SUBSET Edge
  <2>1. G \in [Session -> Status]
    BY <1>1 DEF LiveState, Status
  <2>2. E \in SUBSET Edge
    BY <1>1 DEF LiveState
  <2> HIDE DEF G, E
  <2> QED BY <1>1, <2>1, <2>2 DEF LiveState
<1>7. W \in LiveState
  BY <1>6, StopTyped
<1>8. live' = [W EXCEPT !.frozen = W.frozen \cup Z]
  <2>1. live' = [StopEdges([disk EXCEPT !.status = R], E) EXCEPT !.frozen = @ \cup Z]
    <3> HIDE DEF F, killedEdges, cappedEdges
    <3> QED BY <1>3, Zenon DEF Restarted
  <2> HIDE DEF R, G, E, Z
  <2> QED BY <1>2, <2>1, <1>7, Zenon
<1>9. \A s \in Session : G[s] \notin Running
  BY DEF Running
<1> HIDE DEF R, G, E, Z
<1>10. kernel' = [View(W) EXCEPT !.frozen = W.frozen \cup Z]
  <2>1. k.status = disk.status
    BY <1>1, ViewParts, ViewTyped DEF StopEdgeFacts, KernelState
  <2>2. kernel' = [[k EXCEPT !.status = G] EXCEPT !.frozen = @ \cup Z]
    <3>1. [s \in Session |-> IF s \in F THEN "failed" ELSE k.status[s]] = G
      BY <2>1 DEF G
    <3> HIDE DEF k, F
    <3> QED BY <1>4, <3>1, Zenon
  <2>3. View(W) = [k EXCEPT !.status = G]
    <3>1. View(W) = StopEdgeFacts(View(D), E)
      BY <1>6, ViewStops
    <3>2. View(D) = [kernel EXCEPT !.status = G]
      BY <1>1, ViewChanged
    <3>3. \A x : x \in KernelState =>
             StopEdgeFacts([x EXCEPT !.status = G], E) = [StopEdgeFacts(x, E) EXCEPT !.status = G]
      BY DEF StopEdgeFacts, KernelState
    <3>4. kernel \in KernelState
      BY DEF TypeOK
    <3> HIDE DEF W, D
    <3> QED BY <3>1, <3>2, <3>3, <3>4
  <2>4. View(W).frozen = W.frozen
    BY ViewParts
  <2> HIDE DEF k, W
  <2> QED BY <2>2, <2>3, <2>4
<1>11. W.status = G
  BY <1>1, <1>6, StopKeepsStatus DEF LiveState
<1> HIDE DEF W
<1>12. kernel' = View(live') /\ live'.status = G
  <2>1. \A X : View([W EXCEPT !.frozen = X]) = [View(W) EXCEPT !.frozen = X]
    BY <1>7, ViewChanged
  <2> QED BY <1>7, <1>8, <1>10, <1>11, <2>1 DEF LiveState
<1>13. \A s \in Session : proc'[s] = 0
  BY <1>5
<1>14. \A p \in Task : task'[p].todo = {}
  BY <1>5 DEF OffTask
<1>15. CompletesFirst' /\ OnlyRules' /\ Alone' /\ Untouched'
  BY <1>5, <1>13, <1>14 DEF CompletesFirst, OnlyRules, Alone, Untouched
<1>16. Saved' = live'
  BY <1>5 DEF Saved
<1>17. Agrees' /\ RunsAreThere' /\ DoomedKilled'
  BY <1>3, <1>5, <1>9, <1>12, <1>16 DEF Agrees, RunsAreThere, DoomedKilled
<1> QED BY <1>15, <1>17 DEF FoldInv

LEMMA FoldFirst ==
  ASSUME Init
  PROVE  FoldInv
<1>1. /\ live = [status |-> [s \in Session |-> "idle"], frozen |-> {}, active |-> Edge,
                 firings |-> [e \in Edge |-> 0], slots |-> {}]
      /\ kernel = [status |-> [s \in Session |-> "idle"], frozen |-> {}, active |-> Edge,
                   firings |-> [e \in Edge |-> 0], pend |-> {}]
      /\ disk = live /\ proc = [s \in Session |-> 0] /\ doomed = {} /\ cmdQ = <<>>
      /\ open = None /\ task = [p \in Task |-> OffTask]
  BY DEF Init
<1>2. Recs({}) = {}
  BY DEF Recs
<1>3. kernel = View(live) /\ Saved = live
  BY <1>1, <1>2, ViewIs DEF Saved
<1>4. \A s \in Session : proc[s] = 0 /\ live.status[s] = "idle"
  BY <1>1
<1>5. \A p \in Task : task[p].todo = {}
  BY <1>1 DEF OffTask
<1>6. CompletesFirst /\ OnlyRules /\ Alone /\ Untouched
  BY <1>1, <1>4, <1>5 DEF CompletesFirst, OnlyRules, Alone, Untouched
<1>7. Agrees /\ RunsAreThere /\ DoomedKilled
  BY <1>1, <1>3, <1>4 DEF Agrees, RunsAreThere, DoomedKilled, Running
<1> QED BY <1>6, <1>7 DEF FoldInv

LEMMA FoldStep ==
  ASSUME TypeOK, OnceInv, FoldInv, [Next]_vars, "workflow" \notin HumanKind
  PROVE  FoldInv'
<1>1. CASE UNCHANGED vars
  BY <1>1 DEF vars, providers, FoldInv, CompletesFirst, OnlyRules, Alone, Agrees, Untouched,
              RunsAreThere, DoomedKilled, Saved, Ending, Current, View
<1>2. CASE Work
  <2>1. ~WorkflowBegin /\ ~WorkflowEnd
    <3>1. cmdQ # <<>> => Current.kind # "workflow"
      BY FirstIsCurrent DEF FoldInv, CompletesFirst
    <3> QED BY <3>1 DEF WorkflowBegin, WorkflowEnd, Begins, TypeOK
  <2> QED BY <1>2, <2>1, FoldPend, FoldApprove, FoldSlots, FoldStops, FoldDeliverFor,
             FoldSessions, FoldBegins, FoldExecuteEnd, FoldActivateEnd DEF Work
<1>3. CASE TakeEvent \/ \E p \in Task : Resume(p)
  BY <1>3, FoldTasks
<1>4. CASE HumanSends \/ \E s \in Session : AgentReports(s) \/ ProviderCloses(s) \/ ProviderErrs(s)
  BY <1>4, FoldMacro
<1>5. CASE Abort \/ Crash
  BY <1>5, FoldAbort, FoldCrash
<1> QED BY <1>1, <1>2, <1>3, <1>4, <1>5 DEF Next

LEMMA FoldAlways == ASSUME "workflow" \notin HumanKind PROVE Spec => []FoldInv
<1>1. Init => FoldInv
  BY FoldFirst
<1>2. TypeOK /\ OnceInv /\ FoldInv /\ [Next]_vars => FoldInv'
  BY FoldStep
<1> QED BY <1>1, <1>2, TypeCorrect, OnceInvariant, PTL DEF Spec

(* State = fold(Log): for any graph, any number of drains, aborts and       *)
(* crashes, memory between two commands is what the log says (fold.ts:1),   *)
(* provided that no workflow command awaits while processes run.            *)
THEOREM MemoryIsFold == ASSUME "workflow" \notin HumanKind PROVE Spec => []LiveIsFold
<1>1. FoldInv => LiveIsFold
  BY DEF FoldInv, Agrees, Saved, LiveIsFold
<1> QED BY <1>1, FoldAlways, PTL

(* Nothing counts as running without a process, whatever was rolled back    *)
(* or restarted, under the same condition.                                  *)
THEOREM NoneOrphaned == ASSUME "workflow" \notin HumanKind PROVE Spec => []NoOrphanRun
<1>1. TypeOK /\ FoldInv => NoOrphanRun
  <2> SUFFICES ASSUME TypeOK, FoldInv, NEW s \in Session, open = None,
                      live.status[s] \in {"running", "pending"}, proc[s] = 0
               PROVE  Completing(s)
    BY DEF NoOrphanRun
  <2>1. Ending(s)
    BY DEF FoldInv, RunsAreThere, Saved, Running
  <2>2. cmdQ \in Seq(Command) /\ cmdQ # <<>>
    BY <2>1 DEF TypeOK, Ending
  <2>3. 1 \in 1 .. Len(cmdQ) /\ cmdQ[1] = Current
    BY <2>2 DEF Current
  <2> QED BY <2>1, <2>3 DEF Ending, Completing
<1> QED BY <1>1, FoldAlways, TypeCorrect, PTL
=============================================================================
