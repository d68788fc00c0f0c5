----------------------------- MODULE MCServices -----------------------------
(***************************************************************************)
(* The components that share no state with one another, checked together:  *)
(* `part` is the component whose behaviour this is, the others stay as they *)
(* were.  A state of one component meets no state of another.              *)
(***************************************************************************)
EXTENDS RunAdmission, FileLock, LoopControl, ClientSync, Ingestion, Governance, Barrier,
        PlanCouncil, Collaboration, ContextChannel,
        IntentGraph, TLC

CONSTANTS writer, reader, viewer, p1, p2, p3, start, did, bad, go, stop, c1, c2, foreign, failure,
          d1, d2, q1, q2, q3, q4,
          m1, m2, nobody, s1, s2, s3, k1, k2, e1, e2

\* Three agents of one vendor; `reader' and `viewer' only read the workspace.
VendorOf == writer :> "codex" @@ reader :> "codex" @@ viewer :> "codex"

\* A lap: the implementer's report, then the reviewer's.
Asks(kind, role, verdict) == [kind |-> kind, role |-> role, verdict |-> verdict]
ContentOf ==
  start :> Asks("start", "implementer", "done") @@ did :> Asks("report", "implementer", "done")
  @@ bad :> Asks("report", "reviewer", "issues") @@ go :> Asks("resume", "implementer", "done")
  @@ stop :> Asks("cancel", "implementer", "done")
LimitOf == [transitions |-> 4, reports |-> 2, operations |-> 3, decisions |-> 1]

\* What authors ask for: the defaults, and a cap with a gate of their own.
WishOf == {[gate |-> "none", cap |-> 0, activates |-> TRUE],
           [gate |-> "auto", cap |-> 2, activates |-> TRUE]}

VARIABLE part

all == <<runVars, lockFileVars, loopVars, syncVars, ingestVars, governanceVars,
         barrierVars, councilVars, mateVars, channelVars, intentVars, part>>

InRuns == part = "runs"
OnlyRuns ==
  UNCHANGED <<lockFileVars, loopVars, syncVars, ingestVars, governanceVars, barrierVars,
              councilVars, mateVars, channelVars, intentVars, part>>
InLock == part = "lock"
OnlyLock ==
  UNCHANGED <<runVars, loopVars, syncVars, ingestVars, governanceVars, barrierVars, councilVars,
              mateVars, channelVars, intentVars, part>>
InLoop == part = "loop"
OnlyLoop ==
  UNCHANGED <<runVars, lockFileVars, syncVars, ingestVars, governanceVars, barrierVars,
              councilVars, mateVars, channelVars, intentVars, part>>
InSync == part = "sync"
OnlySync ==
  UNCHANGED <<runVars, lockFileVars, loopVars, ingestVars, governanceVars, barrierVars,
              councilVars, mateVars, channelVars, intentVars, part>>
InFeed == part = "feed" /\ Len(watcher) < MaxWatcher
OnlyFeed ==
  UNCHANGED <<runVars, lockFileVars, loopVars, syncVars, governanceVars, barrierVars,
              councilVars, mateVars, channelVars, intentVars, part>>
InPlan == part = "plan"
OnlyPlan ==
  UNCHANGED <<runVars, lockFileVars, loopVars, syncVars, ingestVars, barrierVars, councilVars,
              mateVars, channelVars, intentVars, part>>
InBarrier == part = "barrier"
OnlyBarrier ==
  UNCHANGED <<runVars, lockFileVars, loopVars, syncVars, ingestVars, governanceVars,
              councilVars, mateVars, channelVars, intentVars, part>>
InMates == part = "mates"
OnlyMates ==
  UNCHANGED <<runVars, lockFileVars, loopVars, syncVars, ingestVars, governanceVars,
              barrierVars, councilVars, channelVars, intentVars, part>>
InInbox == part = "inbox"
OnlyInbox ==
  UNCHANGED <<runVars, lockFileVars, loopVars, syncVars, ingestVars, governanceVars,
              barrierVars, councilVars, mateVars, intentVars, part>>
InGraph == part = "graph"
OnlyGraph ==
  UNCHANGED <<runVars, lockFileVars, loopVars, syncVars, ingestVars, governanceVars,
              barrierVars, councilVars, mateVars, channelVars, part>>
InCouncil == part = "council"
OnlyCouncil ==
  UNCHANGED <<runVars, lockFileVars, loopVars, syncVars, ingestVars, governanceVars,
              barrierVars, mateVars, channelVars, intentVars, part>>

Init ==
  /\ part \in {"runs", "lock", "loop", "sync", "feed", "plan", "barrier", "council",
             "mates", "inbox", "graph"}
  /\ RunInit /\ LockInit /\ LoopInit /\ SyncInit /\ IngestInit /\ GovernanceInit
  /\ BarrierInit /\ CouncilInit /\ CollaborationInit /\ ChannelInit /\ IntentInit
  /\ part # "feed" => head = c1

RunsStep ==
  \/ \E k \in {"activate", "kill", "freeze", "unfreeze"}, s \in Agent : InRuns /\ Ask(k, s) /\ OnlyRuns
  \/ InRuns /\ Refuse /\ OnlyRuns
  \/ InRuns /\ RefuseForBudget /\ OnlyRuns
  \/ InRuns /\ Enqueue /\ OnlyRuns
  \/ InRuns /\ LaunchNow /\ OnlyRuns
  \/ InRuns /\ LaunchBreaks /\ OnlyRuns
  \/ InRuns /\ LaunchLater /\ OnlyRuns
  \/ \E l \in launching :
       \/ InRuns /\ Listened(l) /\ OnlyRuns
       \/ InRuns /\ LaunchFails(l) /\ OnlyRuns
  \/ InRuns /\ DrainEnds /\ OnlyRuns
  \/ InRuns /\ DrainLaunches /\ OnlyRuns
  \/ InRuns /\ KillSession /\ OnlyRuns
  \/ InRuns /\ SetFrozen /\ OnlyRuns
  \/ InRuns /\ CompleteRun /\ OnlyRuns
  \/ \E p \in processes :
       \/ InRuns /\ RunErrs(p) /\ OnlyRuns
       \/ InRuns /\ RunCloses(p) /\ OnlyRuns
  \/ InRuns /\ KillAll /\ OnlyRuns
  \/ InRuns /\ RestartRuntime /\ OnlyRuns

LockStep ==
  \/ \E p \in Proc :
       \/ InLock /\ Acquire(p) /\ OnlyLock
       \/ InLock /\ Occupied(p) /\ OnlyLock
       \/ InLock /\ LooksAtLock(p) /\ OnlyLock
       \/ InLock /\ Leaves(p) /\ OnlyLock
       \/ InLock /\ Removes(p) /\ OnlyLock
       \/ InLock /\ TakesGuard(p) /\ OnlyLock
       \/ InLock /\ GuardTaken(p) /\ OnlyLock
       \/ InLock /\ LooksAtGuard(p) /\ OnlyLock
       \/ InLock /\ ReadsGuard(p) /\ OnlyLock
       \/ InLock /\ MovesGuard(p) /\ OnlyLock
       \/ InLock /\ JudgesGuard(p) /\ OnlyLock
       \/ InLock /\ RestoresGuard(p) /\ OnlyLock
       \/ InLock /\ ChecksLock(p) /\ OnlyLock
       \/ InLock /\ ChecksOwner(p) /\ OnlyLock
       \/ InLock /\ ChecksGuard(p) /\ OnlyLock
       \/ InLock /\ ChecksAgain(p) /\ OnlyLock
       \/ InLock /\ UnlinksLock(p) /\ OnlyLock
       \/ InLock /\ CleansUp(p) /\ OnlyLock
       \/ InLock /\ UnlinksGuard(p) /\ OnlyLock
       \/ InLock /\ Dies(p) /\ OnlyLock
  \/ InLock /\ LockAges /\ OnlyLock
  \/ InLock /\ GuardAges /\ OnlyLock

LoopStep ==
  \/ InLoop /\ IssueCapability /\ OnlyLoop
  \/ \E r \in Request, token \in 0..issued : InLoop /\ Enter(r, token) /\ OnlyLoop
  \/ InLoop /\ PutTransition /\ OnlyLoop
  \/ InLoop /\ PutReport /\ OnlyLoop
  \/ InLoop /\ PutReceipt /\ OnlyLoop
  \/ InLoop /\ SwapState /\ OnlyLoop
  \/ \E who \in {"root"} \cup Role : InLoop /\ EvaluateStop(who) /\ OnlyLoop
  \/ InLoop /\ Output /\ OnlyLoop
  \/ InLoop /\ RecoverSession /\ OnlyLoop
  \/ InLoop /\ CallerDies /\ OnlyLoop
  \/ InLoop /\ PruneRun /\ OnlyLoop

SyncStep ==
  \/ InSync /\ FlushBatch /\ OnlySync
  \/ InSync /\ ProviderDelta /\ OnlySync
  \/ InSync /\ OpenCommand /\ OnlySync
  \/ InSync /\ CommitCommand /\ OnlySync
  \/ InSync /\ AbortCommand /\ OnlySync
  \/ InSync /\ BroadcastState /\ OnlySync
  \/ InSync /\ TakeState /\ OnlySync
  \/ InSync /\ TakeStream /\ OnlySync
  \/ InSync /\ RenderBatch /\ OnlySync
  \/ InSync /\ AskState /\ OnlySync
  \/ InSync /\ TakeReply /\ OnlySync
  \/ InSync /\ Reconnect /\ OnlySync

FeedStep ==
  \/ \E i \in DOMAIN watcher :
       \/ InFeed /\ Poll(i) /\ OnlyFeed
       \/ InFeed /\ EmitHead(i) /\ OnlyFeed
  \/ \E kind \in {"register", "remove", "slow"} : InFeed /\ Submit(kind) /\ OnlyFeed
  \/ InFeed /\ MoveHead /\ OnlyFeed
  \/ InFeed /\ EmitForeign /\ OnlyFeed
  \/ InFeed /\ IntervalOver /\ OnlyFeed
  \/ InFeed /\ RunCommand /\ OnlyFeed
  \/ InFeed /\ OpenSlow /\ OnlyFeed
  \/ InFeed /\ CommitSlow /\ OnlyFeed
  \/ InFeed /\ AbortSlow /\ OnlyFeed
  \/ InFeed /\ suspendAdapters /\ OnlyFeed
  \/ InFeed /\ recoverSourceAnchors /\ OnlyFeed

PlanStep ==
  \/ \E patch \in BOOLEAN : \E told \in SUBSET DOMAIN wakeup :
       \/ InPlan /\ cmdPropose(patch, told) /\ OnlyPlan
  \/ \E i \in DOMAIN proposal :
       \/ InPlan /\ cmdReviseWorkflow(i) /\ OnlyPlan
       \/ InPlan /\ cmdApproveWorkflowProposal(i) /\ OnlyPlan
       \/ InPlan /\ cmdRejectWorkflowProposal(i) /\ OnlyPlan
       \/ InPlan /\ SubmitCommit(i) /\ OnlyPlan
  \/ \E kind \in WakeupKind : InPlan /\ Observe(kind) /\ OnlyPlan
  \/ \E w \in DOMAIN wakeup : InPlan /\ cmdAcknowledgeWorkflowWakeup(w) /\ OnlyPlan
  \/ InPlan /\ cmdCommitWorkflow /\ OnlyPlan
  \/ InPlan /\ cmdRecordWorkflowWakeup /\ OnlyPlan
  \/ \E w \in DOMAIN wakeup, n \in 1 .. MaxObserved :
       \/ InPlan /\ NotifyIdle(w, NotifyKey(w, n)) /\ OnlyPlan
       \/ InPlan /\ NotifyLate(w, NotifyKey(w, n)) /\ OnlyPlan
       \/ InPlan /\ NotifyStarts(w, NotifyKey(w, n)) /\ OnlyPlan
       \/ InPlan /\ NotifyExhausted(w, NotifyKey(w, n)) /\ OnlyPlan
       \/ InPlan /\ NotifyFrozen(w, NotifyKey(w, n)) /\ OnlyPlan
  \/ InPlan /\ drainWorkflowWakeups /\ OnlyPlan
  \/ InPlan /\ MasterFinishes /\ OnlyPlan
  \/ InPlan /\ ReviveMaster /\ OnlyPlan
  \/ InPlan /\ FreezeMaster /\ OnlyPlan
  \/ InPlan /\ suspendWakeupDrain /\ OnlyPlan
  \/ InPlan /\ Reload /\ OnlyPlan

BarrierStep ==
  \/ \E c \in BarrierCommand : InBarrier /\ Dispatch(c) /\ OnlyBarrier
  \/ InBarrier /\ BarrierCommitted /\ OnlyBarrier
  \/ InBarrier /\ BarrierNotCommitted /\ OnlyBarrier
  \/ InBarrier /\ TimerFires /\ OnlyBarrier
  \/ InBarrier /\ DeadlinePasses /\ OnlyBarrier
  \/ InBarrier /\ clearBarrierTimers /\ OnlyBarrier
  \/ InBarrier /\ recoverBarrierTimers /\ OnlyBarrier

CouncilStep ==
  \/ InCouncil /\ startPlanCouncil /\ OnlyCouncil
  \/ \E p \in Member :
       \/ InCouncil /\ TurnErrs(p) /\ OnlyCouncil
       \/ InCouncil /\ TurnEnds(p) /\ OnlyCouncil
       \/ InCouncil /\ DrainTurn(p) /\ OnlyCouncil
  \/ \E s \in Asking : InCouncil /\ SubmitToCouncil(s) /\ OnlyCouncil
  \/ InCouncil /\ CompleteTurn /\ OnlyCouncil
  \/ InCouncil /\ FormerTurnEnds /\ OnlyCouncil
  \/ InCouncil /\ PhaseReplayed /\ OnlyCouncil
  \/ InCouncil /\ PhaseAnswered /\ OnlyCouncil
  \/ InCouncil /\ PhaseRefused /\ OnlyCouncil
  \/ InCouncil /\ PhaseOpens /\ OnlyCouncil
  \/ InCouncil /\ PhaseBreaks /\ OnlyCouncil
  \/ InCouncil /\ Settles /\ OnlyCouncil
  \/ InCouncil /\ RollsBack /\ OnlyCouncil
  \/ InCouncil /\ OthersOpen /\ OnlyCouncil
  \/ InCouncil /\ OthersCommit /\ OnlyCouncil
  \/ InCouncil /\ stopPlanCouncil /\ OnlyCouncil
  \/ InCouncil /\ KillMember /\ OnlyCouncil
  \/ InCouncil /\ cmdRetryPlanCouncilParticipant /\ OnlyCouncil
  \/ InCouncil /\ PatchRefused /\ OnlyCouncil
  \/ InCouncil /\ VerifierJoins /\ OnlyCouncil
  \/ InCouncil /\ commitPlanCouncilPatch /\ OnlyCouncil
  \/ InCouncil /\ KillAllTurns /\ OnlyCouncil
  \/ InCouncil /\ RestartCouncil /\ OnlyCouncil

MatesStep ==
  \/ \E s \in Thread, who \in SUBSET Mate : InMates /\ PersonWritesInRoom(s, who) /\ OnlyMates
  \/ \E i \in {"none", "open", "resolved"} : InMates /\ PersonWritesInDiscussion(i) /\ OnlyMates
  \/ \E linked \in BOOLEAN, required \in SUBSET Mate :
       InMates /\ startDiscussion(linked, required) /\ OnlyMates
  \/ \E required \in SUBSET Mate : InMates /\ reviseDiscussion(required) /\ OnlyMates
  \/ \E raised \in BOOLEAN : InMates /\ resumeDiscussion(raised) /\ OnlyMates
  \/ InMates /\ pauseDiscussion /\ OnlyMates
  \/ InMates /\ cancelDiscussion /\ OnlyMates
  \/ InMates /\ archive /\ OnlyMates
  \/ \E m \in Mate :
       \/ \E thread \in RoomScope : InMates /\ retryMember(m, thread) /\ OnlyMates
       \/ \E i \in {"none", "open", "resolved"} : InMates /\ postInDiscussion(m, i) /\ OnlyMates
       \/ \E verdict \in {"satisfied", "objects"} : InMates /\ assess(m, verdict) /\ OnlyMates
       \/ \E outcome \in {"completed", "failed"} : InMates /\ RunEnds(m, outcome) /\ OnlyMates
       \/ InMates /\ Chat(m) /\ OnlyMates
       \/ InMates /\ killMember(m) /\ OnlyMates
       \/ InMates /\ readUpdates(m) /\ OnlyMates
       \/ InMates /\ postInRoom(m) /\ OnlyMates
       \/ InMates /\ assessObjecting(m) /\ OnlyMates
       \/ InMates /\ KilledRunCloses(m) /\ OnlyMates
  \/ InMates /\ drainTriggers /\ OnlyMates
  \/ InMates /\ dispatchTriggerSkipped /\ OnlyMates
  \/ InMates /\ dispatchTriggerCapped /\ OnlyMates
  \/ \E starts \in BOOLEAN : InMates /\ dispatchTrigger(starts) /\ OnlyMates
  \/ InMates /\ settledIgnored /\ OnlyMates
  \/ InMates /\ settled /\ OnlyMates
  \/ InMates /\ WorkLost /\ OnlyMates
  \/ InMates /\ killAllMembers /\ OnlyMates
  \/ InMates /\ recoverTurns /\ OnlyMates

InboxStep ==
  \/ InInbox /\ cmdDeliver /\ OnlyInbox
  \/ InInbox /\ runActivation /\ OnlyInbox
  \/ InInbox /\ executeApprovedSlot /\ OnlyInbox
  \/ \E keep \in 0 .. 1 : InInbox /\ cmdCleanupChannels(keep) /\ OnlyInbox
  \/ \E to \in {"queued", "running"} : InInbox /\ CommandKept(to) /\ OnlyInbox
  \/ InInbox /\ CommandFails /\ OnlyInbox
  \/ InInbox /\ CleanupRuns /\ OnlyInbox
  \/ InInbox /\ ProducesOutput /\ OnlyInbox
  \/ InInbox /\ TurnCompletes /\ OnlyInbox
  \/ InInbox /\ failSession /\ OnlyInbox
  \/ InInbox /\ QueuedTurnLaunched /\ OnlyInbox
  \/ InInbox /\ QueuedTurnLost /\ OnlyInbox
  \/ InInbox /\ RestartWithInbox /\ OnlyInbox

GraphStep ==
  \/ \E e \in Edge, from \in Peer \cup Cluster, to \in Peer, wish \in Wish :
       InGraph /\ cmdAuthorSubscription(e, from, to, wish) /\ OnlyGraph
  \/ \E e \in Edge : InGraph /\ cmdStopSubscription(e) /\ OnlyGraph
  \/ \E c \in Cluster :
       \/ \E ids \in SUBSET Peer : InGraph /\ cmdUpsertCluster(c, ids) /\ OnlyGraph
       \/ \E s \in Peer :
            \/ InGraph /\ cmdAssignMaster(c, s) /\ OnlyGraph
            \/ InGraph /\ cmdCreateMasterForCluster(c, s) /\ OnlyGraph
  \/ \E s \in Peer, r \in {"worker", "master"}, c \in Cluster \cup {Nobody} :
       InGraph /\ cmdCreateSession(s, r, c) /\ OnlyGraph

Next ==
  \/ RunsStep \/ LockStep \/ LoopStep \/ SyncStep
  \/ FeedStep \/ PlanStep \/ BarrierStep \/ CouncilStep \/ MatesStep \/ InboxStep \/ GraphStep

\* RunFair, where the step is one of this part; elsewhere none of these can run.
PartFair ==
  /\ WF_runVars(InRuns /\ CommandGoesOn) /\ WF_runVars(InRuns /\ DrainGoesOn)
  /\ WF_runVars(InRuns /\ LaunchGoesOn) /\ WF_runVars(InRuns /\ ProcessEnds)

Spec == Init /\ [][Next]_all /\ PartFair

\* The state of the part this behaviour is of: the others are as Init leaves them, so that two
\* reachable states with the same view are the same state.
InView ==
  <<part,
    CASE part = "runs" -> runVars [] part = "lock" -> lockFileVars [] part = "loop" -> loopVars
      [] part = "sync" -> syncVars [] part = "feed" -> ingestVars [] part = "plan" -> governanceVars
      [] part = "barrier" -> barrierVars [] part = "council" -> councilVars
      [] part = "mates" -> mateVars [] part = "inbox" -> channelVars
      [] part = "graph" -> intentVars>>

TypesOK ==
  /\ part = "runs" => RunTypeOK
  /\ part = "lock" => LockTypeOK
  /\ part = "loop" => LoopTypeOK
  /\ part = "sync" => SyncTypeOK
  /\ part = "feed" => IngestTypeOK
  /\ part = "plan" => GovernanceTypeOK
  /\ part = "barrier" => BarrierTypeOK
  /\ part = "council" => CouncilTypeOK
  /\ part = "mates" => CollaborationTypeOK
  /\ part = "inbox" => ChannelTypeOK
  /\ part = "graph" => IntentTypeOK
=============================================================================
