---------------------------- MODULE PlanCouncil ----------------------------
(***************************************************************************)
(* A plan council (planCouncil.ts): planners draft, reviewers review, a     *)
(* synthesizer ends it.  Each phase waits at a barrier of mode "all" that   *)
(* has no deadline; a participant whose turn is refused for the budget      *)
(* blocks the council until a person retries it.                            *)
(*                                                                         *)
(* Admission is left to RunAdmission: a turn runs at once or is queued.    *)
(* Left out: what artifacts say and their delivery, the numbers of         *)
(* attempts, interventions, turns that people give participants, and the   *)
(* frozen flag a refusal sets and a retry clears.  A retry and a patch      *)
(* await a launch too, and are one step here; a queued turn that survives   *)
(* a restart is taken for one that fails.                                   *)
(***************************************************************************)
EXTENDS Naturals, SequencesExt, FiniteSets

CONSTANTS Planner, Synth,
          Verifier,     \* a reviewer that a patch may add
          Hub,          \* reviewTopology is hub-and-spoke
          AutoGates,    \* both gates of the council are automatic
          Picked,       \* bound: members that people kill or replace
          MaxStirring   \* bound: commands of people, turns that fail or are refused, commits
                        \* that are lost, commands of others that roll back, killAll, restarts

ASSUME CouncilAssumption ==
    /\ IsFiniteSet(Planner) /\ Planner # {} /\ Synth \notin Planner
    /\ Verifier \notin Planner \cup {Synth}
    /\ {Hub, AutoGates} \subseteq BOOLEAN /\ MaxStirring \in Nat
    /\ Picked \subseteq Planner \cup {Synth, Verifier}

VARIABLES
    council,   \* state.planCouncils[id] and its barriers
    agent,     \* its sessions: what their turn does, and its number
    row,       \* the runtime_state row: council and agent
    steps,     \* the chain of the executor
    answered,  \* automatic commands in the ledger: phase and generation
    awaiting,  \* the command that awaits, with its checkpoint; or Shut
    queueStopped, \* killAll has suspended the queue
    strayed,   \* history: who is waited for in vain or was not waited for, or Advance
    asks, troubles  \* history: what was used of MaxStirring

councilVars ==
    <<council, agent, row, steps, answered, awaiting, queueStopped, strayed, asks, troubles>>

Member == Planner \cup {Synth, Verifier}
ArtifactKind == {"proposal", "peer-review", "synthesis"}
Over == {"none", "completed", "stopped", "failed"}
PhaseOf == [k \in ArtifactKind |-> CASE k = "proposal" -> "drafting-plans"
                                     [] k = "peer-review" -> "reviewing-peers"
                                     [] k = "synthesis" -> "synthesizing"]
ActivePhase == {PhaseOf[k] : k \in ArtifactKind}
Gated == {"peer-review", "synthesis"}
ReadyFor == [k \in Gated |-> CASE k = "peer-review" -> "ready-for-cross-review"
                               [] k = "synthesis" -> "ready-for-synthesis"]
Shut == [kind |-> "none"]
Advance == "phase"

Trouble == asks + troubles < MaxStirring /\ troubles' = troubles + 1
Persist(c, a) == council' = c /\ agent' = a /\ row' = [council |-> c, agent |-> a]

-----------------------------------------------------------------------------
(* The council.                                                            *)

NoBarrier == [gen |-> 0, who |-> {}, in |-> {}, status |-> "none"]

\* cmdCreateBarrier, of the next generation of its phase.
WithBarrier(c, k, who) ==
    [c EXCEPT !.barrier[k] = [gen |-> @.gen + 1, who |-> who, in |-> {}, status |-> "pending"]]

\* The barriers that failPlanCouncil finds in the council it is given, which may be a copy.
Known(c) == IF c.phase \in Over THEN {} ELSE {<<k, c.barrier[k].gen>> : k \in ArtifactKind}

\* cancelPendingCouncilBarriers, of those.
Without(c, known) ==
    [c EXCEPT !.barrier = [k \in ArtifactKind |->
        IF @[k].status = "pending" /\ <<k, @[k].gen>> \in known
        THEN [@[k] EXCEPT !.status = "cancelled"] ELSE @[k]]]
Cancelled(c) == Without(c, Known(c))

failPlanCouncil(c) ==
    IF c.phase \in Over THEN c ELSE [Cancelled(c) EXCEPT !.phase = "failed", !.blocked = <<>>]

\* planCouncilFailed: with any error but the budget's, and with the budget's.
TurnFails(c, p) == IF c.turn[p] = 0 THEN c ELSE failPlanCouncil(c)
TurnBlocked(c, p) ==
    IF c.phase \in Over \/ c.turn[p] = 0 THEN c
    ELSE [c EXCEPT !.phase = "blocked",
                   !.from = IF c.phase = "blocked" THEN @ ELSE c.phase,
                   !.blocked = IF c.phase # "blocked" THEN <<p>>
                               ELSE IF p \in ToSet(@) THEN @ ELSE Append(@, p)]

\* What is expected of a member whose turn t was asked for.
Expecting(c, p, k, t) ==
    [c EXCEPT !.want[p] = k, !.turn[p] = t, !.gate[p] = c.barrier[k].gen]

\* materializePlanCouncilArtifact.
Materialized(c, p) ==
    [c EXCEPT !.made = @ \cup {<<c.want[p], p>>},
              !.want[p] = "none", !.turn[p] = 0, !.gate[p] = 0]

\* The first that arrives releases the barrier.
WithFirstArrivalOf(c, k, p) ==
    [c EXCEPT !.barrier[k].in = @ \cup {p}, !.barrier[k].status = "released"]

\* cmdArriveBarrier: releases when the last one arrives.
WithArrivalOf(c, k, p) ==
    LET b == c.barrier[k]
    IN [c EXCEPT !.barrier[k].in = @ \cup {p},
                 !.barrier[k].status = IF b.who \subseteq b.in \cup {p} THEN "released" ELSE @]

\* The phase a release leads to.
AfterRelease(c, p) ==
    CASE c.phase = "drafting-plans" -> [c EXCEPT !.phase = "ready-for-cross-review"]
      [] c.phase = "reviewing-peers" -> [c EXCEPT !.phase = "ready-for-synthesis"]
      [] c.phase = "synthesizing" /\ p = Synth -> [c EXCEPT !.phase = "completed"]
      [] OTHER -> c

\* planCouncilFinished.  An envelope of another generation is refused, which fails the council.
planCouncilFinished(c, p, t) ==
    IF c.phase \in Over \/ c.turn[p] # t \/ c.want[p] = "none" THEN c
    ELSE LET k == c.want[p]
             d == Materialized(c, p)
             b == c.barrier[k]
         IN IF c.gate[p] # b.gen \/ p \notin b.who THEN failPlanCouncil(d)
            ELSE IF b.status # "pending" THEN d
            ELSE IF WithArrivalOf(d, k, p).barrier[k].status = "released"
            THEN AfterRelease(WithArrivalOf(d, k, p), p) ELSE WithArrivalOf(d, k, p)

\* maybeAdvancePlanCouncil: a command whose key names the generation of the next barrier.  Its
\* sender holds the council, to fail it when the command is refused.
Advances(c, d) ==
    IF AutoGates /\ c.phase # d.phase /\ \E k \in Gated : d.phase = ReadyFor[k]
    THEN LET k == CHOOSE k \in Gated : d.phase = ReadyFor[k]
         IN <<[kind |-> "phase", by |-> "runtime", of |-> k, gen |-> d.barrier[k].gen + 1,
              held |-> "council", known |-> {}]>>
    ELSE <<>>

-----------------------------------------------------------------------------
(* The turns of its sessions.                                              *)

Asked(a, p, how) == [a EXCEPT ![p] = [st |-> how, turn |-> @.turn + 1]]
Idle(a, p) == a[p].st \in {"idle", "failed", "ending", "lost"}  \* assertActivatable
With(a, p, st) == [a EXCEPT ![p].st = st]

TurnErrs(p) ==
    /\ agent[p].st = "running" /\ Trouble
    /\ Persist(TurnFails(council, p), With(agent, p, "failed"))
    /\ UNCHANGED <<answered, steps, awaiting, queueStopped, strayed, asks>>

TurnEnds(p) ==
    /\ agent[p].st = "running"
    /\ Persist(council, With(agent, p, "ending"))
    /\ steps' = Append(steps, [kind |-> "complete", by |-> "runtime",
                               who |-> p, turn |-> agent[p].turn])
    /\ UNCHANGED <<answered, awaiting, queueStopped, strayed, asks, troubles>>

\* drainRunQueue: the turn starts, is refused for the budget, or does not start.
DrainTurn(p) ==
    /\ agent[p].st = "queued" /\ ~queueStopped
    /\ \/ Persist(council, With(agent, p, "running")) /\ UNCHANGED troubles
       \/ Persist(TurnBlocked(council, p), With(agent, p, "idle")) /\ Trouble
       \/ Persist(TurnFails(council, p), With(agent, p, "failed")) /\ Trouble
    /\ UNCHANGED <<answered, steps, awaiting, queueStopped, strayed, asks>>

-----------------------------------------------------------------------------
(* Commands.                                                               *)

SubmitToCouncil(s) ==
    /\ council.phase # "none" /\ asks + troubles < MaxStirring
    /\ \A x \in ToSet(steps) : x.by # "human"
    /\ asks' = asks + 1
    /\ steps' = Append(steps, s)
    /\ UNCHANGED <<answered, council, agent, row, awaiting, queueStopped, strayed, troubles>>

Comes(kind) == awaiting = Shut /\ steps # <<>> /\ Head(steps).kind = kind
CommitCouncil(c, a) ==
    /\ Persist(c, a)
    /\ steps' = Tail(steps)
    /\ queueStopped' = (queueStopped /\ Head(steps).by # "human")

\* After a rollback a copy is the state, and what the senders hold is the council of before.
Automatic(x) == x.kind = "phase" /\ x.gen # 0
Detached(q, known) ==
    [i \in DOMAIN q |-> IF Automatic(q[i]) /\ q[i].held = "council"
                        THEN [q[i] EXCEPT !.held = "copy", !.known = known] ELSE q[i]]
Refuses ==
    /\ steps' = Detached(Tail(steps), Known(council))
    /\ UNCHANGED <<council, agent, row, queueStopped>>

\* cmdCompleteProviderRun.  For another turn than the session's it throws, which fails the
\* session.  The last disjuncts: the answer cannot be read, which fails the council, and the
\* commit is lost, which fails the session.
CompleteTurn ==
    /\ Comes("complete")
    /\ LET s == Head(steps)
           c == planCouncilFinished(council, s.who, s.turn)
           a == With(agent, s.who, "idle")
       IN IF agent[s.who] # [st |-> "ending", turn |-> s.turn]
          THEN /\ Persist(TurnFails(council, s.who), With(agent, s.who, "failed"))
               /\ steps' = Detached(Tail(steps), Known(council)) /\ UNCHANGED troubles
          ELSE \/ /\ Persist(c, a) /\ UNCHANGED troubles
                  /\ steps' = Tail(steps) \o Advances(council, c)
               \/ /\ Persist(TurnFails(council, s.who), a) /\ Trouble
                  /\ steps' = Tail(steps)
               \/ /\ Persist(TurnFails(council, s.who), With(agent, s.who, "failed")) /\ Trouble
                  /\ steps' = Detached(Tail(steps) \o Advances(council, c), Known(c))
    /\ UNCHANGED <<answered, awaiting, queueStopped, strayed, asks>>

\* The turn of a session that was replaced: it concerns no council.  It is committed, or it is
\* for another turn than the session's, or the commit is lost.
FormerTurnEnds ==
    /\ Comes("former")
    /\ Persist(council, agent)
    /\ steps' \in {Tail(steps), Detached(Tail(steps), Known(council))}
    /\ UNCHANGED <<answered, awaiting, queueStopped, strayed, asks, troubles>>

\* startPlanCouncil, up to the look at what became of the first turns.
startPlanCouncil ==
    /\ council.phase = "none" /\ awaiting = Shut /\ asks = 0
    /\ asks' = 1
    /\ awaiting' = [kind |-> "start", who |-> Planner, council |-> council, agent |-> agent]
    /\ \E how \in [Planner -> {"running", "queued"}] :
          /\ agent' = [p \in Member |->
                          IF p \in Planner THEN [st |-> how[p], turn |-> 1] ELSE agent[p]]
          /\ council' = [WithBarrier(council, "proposal", Planner) EXCEPT
                           !.phase = PhaseOf["proposal"],
                           !.want = [p \in Member |-> IF p \in Planner THEN "proposal" ELSE @[p]],
                           !.turn = [p \in Member |-> IF p \in Planner THEN 1 ELSE @[p]],
                           !.gate = [p \in Member |-> IF p \in Planner THEN 1 ELSE @[p]]]
    /\ UNCHANGED <<answered, row, steps, queueStopped, strayed, troubles>>

Reviewers == IF Hub THEN {Synth} ELSE Planner \cup IF council.joined THEN {Verifier} ELSE {}
WhoFor(k) == IF k = "synthesis" THEN {Synth} ELSE Reviewers
MayLaunch(s) == ~queueStopped \/ s.by = "human"

\* The ledger is told of an automatic command that was committed.
Tells(x) == answered' = IF x.gen = 0 THEN answered ELSE answered \cup {<<x.of, x.gen>>}
Unanswered(x) == <<x.of, x.gen>> \notin answered
Later(k) == {"synthesizing", "completed"} \cup
            IF k = "synthesis" THEN {} ELSE {"reviewing-peers", "ready-for-synthesis"}

\* An automatic command that was answered before: its sender gets what was recorded, which
\* it takes for an answer even when it is a failure.
PhaseReplayed ==
    /\ Comes("phase") /\ ~Unanswered(Head(steps))
    /\ CommitCouncil(council, agent)
    /\ strayed' = strayed \cup {Advance}
    /\ UNCHANGED <<answered, awaiting, asks, troubles>>

\* startPlanCouncilCrossReview and startPlanCouncilSynthesis, when the phase is not the one
\* before theirs.  What comes too late is answered.
PhaseAnswered ==
    /\ Comes("phase")
    /\ LET x == Head(steps)
       IN /\ Unanswered(x) /\ council.phase \in Later(x.of)
          /\ Tells(x)
          /\ strayed' = strayed \cup IF Automatic(x) THEN {Advance} ELSE {}
    /\ CommitCouncil(council, agent)
    /\ UNCHANGED <<awaiting, asks, troubles>>

\* What comes too early throws.  The sender of an automatic command then fails the council it
\* holds: no longer the one of the state, but with the barriers of the state.
PhaseRefused ==
    /\ Comes("phase")
    /\ LET x == Head(steps)
       IN /\ Unanswered(x) /\ council.phase \notin Later(x.of) \cup {ReadyFor[x.of]}
          /\ IF Automatic(x)
             THEN /\ Persist(Without(council, IF x.held = "copy" THEN x.known ELSE Known(council)),
                             agent)
                  /\ steps' = Detached(Tail(steps), IF x.held = "copy" THEN Known(council) ELSE {})
                  /\ strayed' = strayed \cup {Advance}
                  /\ UNCHANGED queueStopped
             ELSE Refuses /\ UNCHANGED strayed
    /\ UNCHANGED <<answered, awaiting, asks, troubles>>

\* The phase opens: the barrier is made, and the turns of `who` are asked for.
Opened(k, who, done) ==
    LET b == WithBarrier(council, k, who)
    IN [b EXCEPT !.phase = PhaseOf[k],
                 !.want = [p \in Member |-> IF p \in done THEN k ELSE @[p]],
                 !.turn = [p \in Member |-> IF p \in done THEN agent[p].turn + 1 ELSE @[p]],
                 !.gate = [p \in Member |-> IF p \in done THEN b.barrier[k].gen ELSE @[p]]]
Launched(how) ==
    [p \in Member |->
        IF p \in DOMAIN how THEN [st |-> how[p], turn |-> agent[p].turn + 1] ELSE agent[p]]

PhaseOpens ==
    /\ Comes("phase")
    /\ LET x == Head(steps)
           who == WhoFor(x.of)
       IN /\ Unanswered(x) /\ council.phase = ReadyFor[x.of]
          /\ MayLaunch(x) /\ \A p \in who : Idle(agent, p)
          /\ \E how \in [who -> {"running", "queued"}] : agent' = Launched(how)
          /\ council' = Opened(x.of, who, who)
          /\ awaiting' = [kind |-> "phase", who |-> who, council |-> council, agent |-> agent]
    /\ UNCHANGED <<row, steps, answered, queueStopped, strayed, asks, troubles>>

\* A participant is busy, or an activation throws after those of `done': the council fails,
\* which is committed.
PhaseBreaks ==
    /\ Comes("phase")
    /\ LET x == Head(steps)
           who == WhoFor(x.of)
           busy == \E p \in who : ~Idle(agent, p)
       IN /\ Unanswered(x) /\ council.phase = ReadyFor[x.of]
          /\ IF busy \/ ~MayLaunch(x) THEN UNCHANGED troubles ELSE Trouble
          /\ IF busy THEN CommitCouncil(failPlanCouncil(council), agent)
             ELSE \E done \in SUBSET who :
                    /\ done # who /\ (~MayLaunch(x) => done = {})
                    /\ \E how \in [done -> {"running", "queued"}] :
                          CommitCouncil(failPlanCouncil(Opened(x.of, who, done)), Launched(how))
          /\ Tells(x)
    /\ UNCHANGED <<awaiting, strayed, asks>>

\* settleProviderStart is over.  A session that failed meanwhile takes the council with it.
Broken == \E p \in awaiting.who : agent[p].st = "failed"
Settles ==
    /\ awaiting.kind \in {"start", "phase"}
    /\ awaiting' = Shut
    /\ IF awaiting.kind = "start"
       THEN /\ IF Broken THEN Persist(awaiting.council, awaiting.agent) ELSE Persist(council, agent)
            /\ UNCHANGED <<steps, queueStopped, answered>>
       ELSE /\ CommitCouncil(IF Broken THEN failPlanCouncil(council) ELSE council, agent)
            /\ Tells(Head(steps))
    /\ UNCHANGED <<strayed, asks, troubles>>

-----------------------------------------------------------------------------
(* Rollback: by the commit of a phase, or by a command of somebody else    *)
(* that awaits.                                                            *)

\* A turn that stopped meanwhile is running again in the state that comes back, with nobody
\* that runs it; a turn that left the queue is in it again.
Undone(p) ==
    LET before == awaiting.agent[p].st
        after == agent[p].st
    IN [st |-> IF after = "ending" /\ before \in {"queued", "running"} THEN "ending"
               ELSE IF before = "running" /\ after # "running" THEN "lost" ELSE before,
        turn |-> agent[p].turn]

RollsBack ==
    /\ awaiting # Shut /\ Trouble
    /\ awaiting' = Shut
    /\ LET back == [p \in Member |-> Undone(p)]
           own == awaiting.kind = "phase"
           fails == own /\ Automatic(Head(steps))
           known == IF own /\ Head(steps).held = "copy" THEN Head(steps).known ELSE Known(council)
       IN /\ agent' = back
          /\ council' = IF fails THEN Without(awaiting.council, known) ELSE awaiting.council
          /\ strayed' = strayed \cup {p \in Member : back[p].st = "lost"}
                                \cup IF own THEN {Advance} ELSE {}
          /\ steps' = Detached(IF own THEN Tail(steps) ELSE steps, Known(council))
          /\ row' = IF fails THEN [council |-> council', agent |-> back] ELSE row
    /\ UNCHANGED <<answered, queueStopped, asks>>

OthersOpen ==
    /\ awaiting = Shut /\ council.phase \notin Over
    /\ asks + troubles < MaxStirring
    /\ awaiting' = [kind |-> "other", who |-> {}, council |-> council, agent |-> agent]
    /\ UNCHANGED <<answered, council, agent, row, steps, queueStopped, strayed, asks, troubles>>

OthersCommit ==
    /\ awaiting.kind = "other"
    /\ awaiting' = Shut
    /\ Persist(council, agent)
    /\ UNCHANGED <<answered, steps, queueStopped, strayed, asks, troubles>>

-----------------------------------------------------------------------------
(* What people do.                                                         *)

stopPlanCouncil ==
    /\ Comes("stop")
    /\ IF council.phase \in Over THEN CommitCouncil(council, agent)
       ELSE CommitCouncil([Cancelled(council) EXCEPT !.phase = "stopped"],
                          [p \in Member |-> IF agent[p].st \in {"running", "queued"}
                                            THEN [agent[p] EXCEPT !.st = "killed"] ELSE agent[p]])
    /\ UNCHANGED <<answered, awaiting, strayed, asks, troubles>>

\* cmdKillSession.  The council hears of it only when the turn is still queued.
KillMember ==
    /\ Comes("kill")
    /\ LET p == Head(steps).who
       IN IF agent[p].st \in {"running", "queued"}
          THEN CommitCouncil(IF agent[p].st = "queued" THEN TurnFails(council, p) ELSE council,
                             With(agent, p, "killed"))
          ELSE CommitCouncil(council, agent)
    /\ UNCHANGED <<answered, awaiting, strayed, asks, troubles>>

\* cmdRetryPlanCouncilParticipant.  When the budget still refuses the turn, what the command
\* has done so far is committed; any other error undoes it.
cmdRetryPlanCouncilParticipant ==
    /\ Comes("retry")
    /\ LET p == Head(council.blocked)
           others == Tail(council.blocked)
           able == council.phase = "blocked" /\ Idle(agent, p) /\ MayLaunch(Head(steps))
           retried == [council EXCEPT !.turn[p] = agent[p].turn + 1, !.blocked = others,
                                      !.phase = IF others = <<>> THEN council.from ELSE @]
       IN IF ~able THEN Refuses /\ UNCHANGED troubles
          ELSE \/ /\ \E how \in {"running", "queued"} : CommitCouncil(retried, Asked(agent, p, how))
                  /\ UNCHANGED troubles
               \/ CommitCouncil([council EXCEPT !.turn[p] = 0], agent) /\ Trouble
    /\ UNCHANGED <<answered, awaiting, strayed, asks>>

\* commitPlanCouncilPatch, of one operation, with activateCouncilPatchParticipant: the
\* council it leaves, and what p is activated for.
Patched(op, p) ==
    LET k == CASE p = Synth -> "synthesis" [] p = Verifier -> "peer-review" [] OTHER -> "proposal"
        c == IF op = "replace"
             THEN [council EXCEPT !.made = {m \in @ : m[2] # p}, !.turn[p] = 0, !.gate[p] = 0]
             ELSE [council EXCEPT !.joined = @ \/ p = Verifier]
    IN [WithBarrier(c, k, {p}) EXCEPT !.phase = PhaseOf[k], !.want[p] = k]

Patchable(op, p) ==
    CASE op = "resynthesize" -> p = Synth /\ council.phase \in {"completed", "ready-for-synthesis"}
      [] op = "replace" -> /\ council.phase \notin {"reviewing-peers", "synthesizing", "none"}
                           /\ p = Verifier => council.joined
      [] OTHER -> /\ p = Verifier /\ ~council.joined
                  /\ council.phase \notin {"reviewing-peers", "synthesizing", "none"}

\* A replacement has a session of its own; what the former one has sent is still to come.
Replaced(q, p) ==
    [i \in DOMAIN q |-> IF q[i].kind = "complete" /\ q[i].who = p
                        THEN [q[i] EXCEPT !.kind = "former"] ELSE q[i]]
Seat(op, p) == IF op = "replace" THEN With(agent, p, "idle") ELSE agent

PatchRefused ==
    /\ Comes("patch")
    /\ LET s == Head(steps)
       IN ~Patchable(s.op, s.who) \/ ~Idle(Seat(s.op, s.who), s.who) \/ ~MayLaunch(s)
    /\ Refuses
    /\ UNCHANGED <<answered, awaiting, strayed, asks, troubles>>

\* A verifier that comes before there is something to verify only joins.
VerifierJoins ==
    /\ Comes("patch")
    /\ LET s == Head(steps)
       IN /\ s.op = "add-verifier" /\ Patchable(s.op, s.who) /\ MayLaunch(s)
          /\ council.phase \notin {"ready-for-synthesis", "completed"}
    /\ CommitCouncil([council EXCEPT !.joined = TRUE], agent)
    /\ UNCHANGED <<answered, awaiting, strayed, asks, troubles>>

\* The turn of the patch runs or waits; or it is refused for the budget, and what was done so
\* far is committed.
commitPlanCouncilPatch ==
    /\ Comes("patch")
    /\ LET s == Head(steps)
           p == s.who
           a == Seat(s.op, p)
           c == Patched(s.op, p)
           passed == IF s.op = "replace" /\ \E q \in Member \ {p} : council.want[q] # "none"
                     THEN Planner ELSE {}
       IN /\ Patchable(s.op, p) /\ Idle(a, p) /\ MayLaunch(s)
          /\ s.op = "add-verifier" => council.phase \in {"ready-for-synthesis", "completed"}
          /\ \/ /\ \E how \in {"running", "queued"} :
                      Persist(Expecting(c, p, c.want[p], a[p].turn + 1), Asked(a, p, how))
                /\ strayed' = strayed \cup passed
                /\ UNCHANGED troubles
             \/ /\ Persist(c, a) /\ Trouble
                /\ strayed' = strayed \cup passed \cup {p}
          /\ steps' = IF s.op = "replace" THEN Replaced(Tail(steps), p) ELSE Tail(steps)
          /\ queueStopped' = (queueStopped /\ s.by # "human")
    /\ UNCHANGED <<answered, awaiting, asks>>

-----------------------------------------------------------------------------
(* The end of the runtime.                                                 *)

KillAllTurns ==
    /\ Trouble
    /\ queueStopped' = TRUE
    /\ Persist(council, [p \in Member |-> IF agent[p].st = "running"
                                          THEN [agent[p] EXCEPT !.st = "killed"] ELSE agent[p]])
    \* What was asked before may not launch any more.
    /\ steps' = [i \in DOMAIN steps |-> [steps[i] EXCEPT !.by = "runtime"]]
    /\ UNCHANGED <<answered, awaiting, strayed, asks>>

\* reconcileInterruptedPlanCouncils, over the row; a council whose start was not committed
\* is taken away by recoverWorkflowDeployments.
RestartCouncil ==
    /\ Trouble
    /\ LET c == row.council
           cut == {p \in Member : row.agent[p].st \in {"queued", "running", "ending", "lost"}}
           a == [p \in Member |-> IF p \in cut THEN [row.agent[p] EXCEPT !.st = "failed"]
                                  ELSE row.agent[p]]
       IN IF awaiting.kind = "start" THEN Persist(awaiting.council, awaiting.agent)
          ELSE Persist(IF \E p \in cut : c.turn[p] # 0 THEN failPlanCouncil(c) ELSE c, a)
    /\ steps' = <<>> /\ awaiting' = Shut /\ queueStopped' = FALSE
    /\ strayed' = strayed \cup ({s.kind : s \in ToSet(steps)} \cap {Advance})
    /\ UNCHANGED <<answered, asks>>

-----------------------------------------------------------------------------

CouncilInit ==
    /\ council = [phase |-> "none", from |-> "none", blocked |-> <<>>, joined |-> FALSE,
                  want |-> [p \in Member |-> "none"], turn |-> [p \in Member |-> 0],
                  gate |-> [p \in Member |-> 0], made |-> {},
                  barrier |-> [k \in ArtifactKind |-> NoBarrier]]
    /\ agent = [p \in Member |-> [st |-> "idle", turn |-> 0]]
    /\ row = [council |-> council, agent |-> agent]
    /\ steps = <<>> /\ answered = {} /\ awaiting = Shut /\ queueStopped = FALSE /\ strayed = {}
    /\ asks = 0 /\ troubles = 0

Asking ==
    [kind : {"phase"}, by : {"human"}, of : Gated, gen : {0}]
    \cup [kind : {"stop", "retry"}, by : {"human"}]
    \cup [kind : {"kill"}, by : {"human"}, who : Picked]
    \cup [kind : {"patch"}, by : {"human"}, op : {"replace"}, who : Picked]
    \cup [kind : {"patch"}, by : {"human"}, op : {"resynthesize"}, who : {Synth}]
    \cup [kind : {"patch"}, by : {"human"}, op : {"add-verifier"}, who : {Verifier}]

CouncilNext ==
    \/ startPlanCouncil
    \/ \E p \in Member : TurnErrs(p) \/ TurnEnds(p) \/ DrainTurn(p)
    \/ \E s \in Asking : SubmitToCouncil(s)
    \/ CompleteTurn \/ FormerTurnEnds
    \/ PhaseReplayed \/ PhaseAnswered \/ PhaseRefused \/ PhaseOpens \/ PhaseBreaks \/ Settles
    \/ RollsBack \/ OthersOpen \/ OthersCommit
    \/ stopPlanCouncil \/ KillMember \/ cmdRetryPlanCouncilParticipant
    \/ PatchRefused \/ VerifierJoins \/ commitPlanCouncilPatch
    \/ KillAllTurns \/ RestartCouncil

CouncilSpec == CouncilInit /\ [][CouncilNext]_councilVars

-----------------------------------------------------------------------------

Quiet == awaiting.kind \in {"none", "other"}
Working(p) ==
    /\ agent[p].turn = council.turn[p]
    /\ \/ agent[p].st \in {"queued", "running"}
       \/ agent[p].st = "ending" /\ \E s \in ToSet(steps) :
                                       s.kind = "complete" /\ s.who = p /\ s.turn = agent[p].turn

CouncilTypeOK ==
    /\ council.phase \in Over \cup ActivePhase \cup {ReadyFor[k] : k \in Gated} \cup {"blocked"}
    /\ council.from \in ActivePhase \cup {ReadyFor[k] : k \in Gated} \cup {"none"}
    /\ council.blocked \in Seq(Member) /\ council.joined \in BOOLEAN
    /\ council.want \in [Member -> ArtifactKind \cup {"none"}]
    /\ council.turn \in [Member -> Nat] /\ council.gate \in [Member -> Nat]
    /\ council.made \subseteq ArtifactKind \X Member
    /\ \A k \in ArtifactKind :
          LET b == council.barrier[k]
          IN /\ b.gen \in Nat /\ b.in \subseteq b.who /\ b.who \subseteq Member
             /\ b.status \in {"none", "pending", "released", "cancelled"}
    /\ agent \in [Member ->
          [st : {"idle", "failed", "running", "queued", "ending", "killed", "lost"}, turn : Nat]]
    /\ answered \subseteq Gated \X Nat
    /\ awaiting.kind \in {"none", "start", "phase", "other"}
    /\ queueStopped \in BOOLEAN /\ strayed \subseteq Member \cup {Advance}
    /\ {asks, troubles} \subseteq 0 .. MaxStirring + 1

Awaited(k) == council.barrier[k].who \ council.barrier[k].in

\* A council that is not over waits for somebody: for a participant of its barrier whose turn
\* runs, is queued or ends; for one that is blocked, which a person may retry; or, with an
\* automatic gate, for the command that opens the next phase.  What the code lets happen
\* besides: a participant was killed while it ran, or its turn was lost with the rollback of
\* another command; a replacement took the barrier from the others; the automatic command
\* was refused, which cancels the barrier, or was replayed or lost, and is not sent again.
WaitsForSomeone ==
    /\ \A k \in ArtifactKind : council.phase = PhaseOf[k] =>
          IF council.barrier[k].status = "pending"
          THEN \A p \in Awaited(k) : Working(p) \/ agent[p].st = "killed" \/ p \in strayed
          ELSE strayed # {}
    /\ council.phase = "blocked" =>
          /\ council.blocked # <<>>
          /\ \A k \in ArtifactKind :
                council.from = PhaseOf[k] /\ council.barrier[k].status = "pending" =>
                \A p \in Awaited(k) : \/ Working(p) \/ p \in ToSet(council.blocked)
                                      \/ agent[p].st = "killed" \/ p \in strayed
    /\ \A k \in Gated : AutoGates /\ council.phase = ReadyFor[k] =>
          Advance \in strayed \/ \E x \in ToSet(steps) : x.kind = "phase" /\ x.of = k

\* A phase is earned: what comes after the drafts has a plan of every planner, unless a
\* replacement went past the others, and what is completed has a synthesis.
PhaseEarned ==
    /\ council.phase \in {"ready-for-cross-review", "reviewing-peers", "ready-for-synthesis",
                         "synthesizing", "completed"} =>
          \A p \in Planner : <<"proposal", p>> \in council.made \/ p \in strayed
    /\ council.phase = "completed" => <<"synthesis", Synth>> \in council.made

\* Between its commands a council is on track, over failed and refused turns, kills, patches,
\* gates that answer twice, commits that are lost, rollbacks, killAll and restarts.
CouncilOnTrack == Quiet => WaitsForSomeone /\ PhaseEarned
=============================================================================
