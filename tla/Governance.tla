----------------------------- MODULE Governance -----------------------------
(***************************************************************************)
(* One workflow under governance: its plan versions, the proposals that    *)
(* change them, and the wakeups that tell its Master what happened.        *)
(*                                                                         *)
(* An event about an active plan becomes a record command; the wakeup it   *)
(* records waits until the drain, which follows every commit, dispatches a *)
(* notify command whose idempotency key is made of the wakeup and its      *)
(* occurrence count.  A key the ledger holds is answered from the ledger.  *)
(*                                                                         *)
(* What is abstracted: what a plan says (an edition number), the validity  *)
(* of a plan, scopes and their actors, recipes and the sessions a commit   *)
(* creates; the order of firstObservedAt is the order of creation.         *)
(***************************************************************************)
EXTENDS Naturals, Sequences, FiniteSets

CONSTANTS WakeupKind,    \* kinds of observation: failure, cap, milestone, ...
          MaxProposal,   \* proposals
          MaxObserved,   \* events that are observed
          MaxPile,       \* commands waiting for the executor
          MaxIncident    \* revisions, calls of killAll, restarts, notifications that the
                         \* budget refuses and freezes of the Master, all together

ASSUME GovernanceAssumption ==
    {MaxProposal, MaxObserved, MaxPile, MaxIncident} \subseteq Nat

VARIABLES
    plan,      \* status of every version of workflowPlans
    proposal,  \* workflowProposals, in the order they were made
    wakeup,    \* workflowWakeups, in the order they were recorded
    observed,  \* classified events in the kernel log, each with the version it is about
    ledgered,  \* the idempotency keys the kernel store holds
    pile,      \* commands waiting for the executor
    master,    \* the Master's session: "idle", "running" or "down"
    frozen,    \* whether the Master's node is frozen
    draining,  \* workflowWakeupDrainEnabled
    due,       \* drainWorkflowWakeups is a microtask that has not run yet
    tally      \* history: incidents so far

governanceVars ==
    <<plan, proposal, wakeup, observed, ledgered, pile, master, frozen, draining, due, tally>>

Version == 1 .. MaxProposal
Open == {"proposed", "approved"}

GovernanceInit ==
    /\ plan = <<>> /\ proposal = <<>> /\ wakeup = <<>> /\ observed = <<>> /\ pile = <<>>
    /\ ledgered = {}
    /\ master = "idle" /\ frozen = FALSE
    /\ draining = TRUE /\ due = FALSE
    /\ tally = 0

Incident == tally < MaxIncident /\ tally' = tally + 1

\* 0 when no version is active.
activeWorkflowPlan ==
    IF \E v \in DOMAIN plan : plan[v] = "active"
    THEN CHOOSE v \in DOMAIN plan : plan[v] = "active" /\ \A u \in DOMAIN plan : plan[u] = "active" => u <= v
    ELSE 0

-----------------------------------------------------------------------------
(* Proposals.  Each is one command that commits; none waits for a provider.*)

ProposalOnly ==
    /\ due' = TRUE
    /\ UNCHANGED <<wakeup, observed, ledgered, pile, master, frozen, draining>>

\* propose_workflow and, when there is an active plan to change, propose_workflow_patch.
cmdPropose(patch, heard) ==
    /\ Len(proposal) < MaxProposal
    /\ \A i \in DOMAIN proposal : proposal[i].status \notin Open
    /\ patch => activeWorkflowPlan # 0
    /\ heard \subseteq {w \in DOMAIN wakeup : patch /\ wakeup[w].version = activeWorkflowPlan}
    /\ plan' = Append(plan, "proposed")
    /\ proposal' = Append(proposal,
           [base |-> activeWorkflowPlan, version |-> Len(plan) + 1, patch |-> patch,
            heard |-> heard, status |-> "proposed", edition |-> 0, approved |-> 0])
    /\ UNCHANGED tally
    /\ ProposalOnly

\* The approval outlives the revision.
cmdReviseKeepingApproval(i) ==
    /\ proposal[i].status \in Open /\ ~ proposal[i].patch
    /\ Incident
    /\ proposal' = [proposal EXCEPT ![i].edition = @ + 1]
    /\ UNCHANGED plan
    /\ ProposalOnly

\* A revision gives up the approval.
cmdReviseWorkflow(i) ==
    /\ proposal[i].status \in Open /\ ~ proposal[i].patch
    /\ Incident
    /\ proposal' = [proposal EXCEPT ![i].status = "proposed", ![i].edition = @ + 1, ![i].approved = 0]
    /\ plan' = [plan EXCEPT ![proposal[i].version] = "proposed"]
    /\ ProposalOnly

\* approved is one more than the edition the human saw.
cmdApproveWorkflowProposal(i) ==
    /\ proposal[i].status \in Open
    /\ proposal' = [proposal EXCEPT ![i].status = "approved", ![i].approved = proposal[i].edition + 1]
    /\ UNCHANGED <<plan, tally>>
    /\ ProposalOnly

\* reject, abort and expire end a proposal and its plan.
cmdRejectWorkflowProposal(i) ==
    /\ proposal[i].status \in Open
    /\ proposal' = [proposal EXCEPT ![i].status = "rejected"]
    /\ plan' = [plan EXCEPT ![proposal[i].version] = "aborted"]
    /\ UNCHANGED tally
    /\ ProposalOnly

-----------------------------------------------------------------------------
(* The executor's chain.                                                   *)

Piles(c) == pile' = Append(pile, c)

SubmitCommit(i) ==
    /\ proposal[i].status = "approved" /\ Len(pile) < MaxPile
    /\ Piles([kind |-> "commit", of |-> i, at |-> 0])
    /\ UNCHANGED <<plan, proposal, wakeup, observed, ledgered, master, frozen, draining, due, tally>>

Runs(kind) == pile # <<>> /\ Head(pile).kind = kind /\ pile' = Tail(pile)

\* Only what the Master has not heard of is superseded.
AfterPatchPending(p) ==
    [w \in DOMAIN wakeup |->
        IF w \in p.heard /\ wakeup[w].status # "superseded"
        THEN [wakeup[w] EXCEPT !.status = "acknowledged"]
        ELSE IF wakeup[w].version = p.base /\ wakeup[w].status = "pending"
        THEN [wakeup[w] EXCEPT !.status = "superseded"]
        ELSE wakeup[w]]

\* What a patch does to the wakeups of the version it replaces.
AfterPatch(p) ==
    [w \in DOMAIN wakeup |->
        IF w \in p.heard /\ wakeup[w].status # "superseded"
        THEN [wakeup[w] EXCEPT !.status = "acknowledged"]
        ELSE IF wakeup[w].version = p.base /\ wakeup[w].status \in {"pending", "notified"}
        THEN [wakeup[w] EXCEPT !.status = "superseded"]
        ELSE wakeup[w]]

\* commit_workflow: the sessions it starts may fail, and then all of it is undone.
cmdCommitWorkflow ==
    /\ Runs("commit")
    /\ LET i == Head(pile).of
           p == proposal[i] IN
        \/ /\ p.status = "approved" /\ p.base = activeWorkflowPlan
           /\ plan' = [v \in DOMAIN plan |-> IF v = p.version THEN "active"
                                             ELSE IF v = p.base THEN "superseded" ELSE plan[v]]
           /\ proposal' = [proposal EXCEPT ![i].status = "committed"]
           /\ wakeup' = IF p.patch THEN AfterPatch(p) ELSE wakeup
           /\ due' = TRUE
        \/ UNCHANGED <<plan, proposal, wakeup, due>>
    /\ UNCHANGED <<observed, ledgered, master, frozen, draining, tally>>

\* An event about the active version is appended and a record command dispatched.
Observe(kind) ==
    /\ activeWorkflowPlan # 0 /\ Len(observed) < MaxObserved /\ Len(pile) < MaxPile
    /\ observed' = Append(observed, [kind |-> kind, version |-> activeWorkflowPlan])
    /\ Piles([kind |-> "record", of |-> Len(observed) + 1, at |-> activeWorkflowPlan])
    /\ due' = TRUE
    /\ UNCHANGED <<plan, proposal, wakeup, ledgered, master, frozen, draining, tally>>

RecordKey(e, v) == <<"record", e, v>>
NotifyKey(w, n) == <<"notify", w, n>>

Fresh(e, v) == [kind |-> observed[e].kind, version |-> v, status |-> "pending", sources |-> {e},
                occurrences |-> 1, interrupted |-> FALSE, exhausted |-> FALSE]

\* A pending wakeup forgets what it was about.
cmdRecordLatest ==
    /\ Runs("record")
    /\ LET e == Head(pile).of
           v == Head(pile).at
           same == {w \in DOMAIN wakeup : /\ wakeup[w].version = v
                                          /\ wakeup[w].kind = observed[e].kind
                                          /\ wakeup[w].status = "pending"}
       IN /\ RecordKey(e, v) \notin ledgered /\ plan[v] = "active"
          /\ ledgered' = ledgered \cup {RecordKey(e, v)}
          /\ due' = TRUE
          /\ IF same = {} THEN wakeup' = Append(wakeup, Fresh(e, v))
             ELSE \E w \in same : wakeup' = [wakeup EXCEPT ![w].sources = {e}]
    /\ UNCHANGED <<plan, proposal, observed, master, frozen, draining, tally>>

\* record_workflow_wakeup: a pending wakeup of the kind takes the event in.
cmdRecordWorkflowWakeup ==
    /\ Runs("record")
    /\ LET e == Head(pile).of
           v == Head(pile).at
           same == {w \in DOMAIN wakeup : /\ wakeup[w].version = v
                                          /\ wakeup[w].kind = observed[e].kind
                                          /\ wakeup[w].status = "pending"}
       IN IF RecordKey(e, v) \in ledgered \/ plan[v] # "active"
          THEN UNCHANGED <<wakeup, ledgered, due>>
          ELSE /\ ledgered' = ledgered \cup {RecordKey(e, v)}
               /\ due' = TRUE
               /\ IF same = {}
                  THEN wakeup' = Append(wakeup, Fresh(e, v))
                  ELSE \E w \in same :
                       wakeup' = [wakeup EXCEPT ![w].sources = @ \cup {e},
                                                ![w].occurrences = @ + (IF e \in wakeup[w].sources THEN 0 ELSE 1)]
    /\ UNCHANGED <<plan, proposal, observed, master, frozen, draining, tally>>

\* The drain dispatches the oldest pending wakeup and stops there.
drainWorkflowWakeups ==
    /\ due /\ due' = FALSE
    /\ LET ready == {w \in DOMAIN wakeup : wakeup[w].status = "pending"} IN
       IF draining /\ ready # {} /\ master = "idle" /\ ~ frozen /\ Len(pile) < MaxPile
       THEN \E w \in ready : /\ \A u \in ready : w <= u
                             /\ Piles([kind |-> "notify", of |-> w, at |-> wakeup[w].occurrences])
       ELSE UNCHANGED pile
    /\ UNCHANGED <<plan, proposal, wakeup, observed, ledgered, master, frozen, draining, tally>>

NotifyRuns(w, key) ==
    /\ Runs("notify")
    /\ w = Head(pile).of /\ key = NotifyKey(w, Head(pile).at)

\* Answered from the ledger, or refused: the key stays as it was.
NotifyIdle(w, key) ==
    /\ NotifyRuns(w, key)
    /\ \/ key \in ledgered
       \/ wakeup[w].status = "pending" /\ (~ draining \/ master # "idle")
    /\ UNCHANGED <<plan, proposal, wakeup, observed, ledgered, master, frozen, draining, due, tally>>

\* Nothing to do any more: the command commits, and so does its key.
NotifyLate(w, key) ==
    /\ NotifyRuns(w, key)
    /\ key \notin ledgered /\ wakeup[w].status # "pending"
    /\ ledgered' = ledgered \cup {key} /\ due' = TRUE
    /\ UNCHANGED <<plan, proposal, wakeup, observed, master, frozen, draining, tally>>

Notifiable(w, key) ==
    /\ NotifyRuns(w, key)
    /\ key \notin ledgered /\ wakeup[w].status = "pending" /\ draining /\ master = "idle"

\* The Master's turn starts with the wakeup as its note.
NotifyStarts(w, key) ==
    /\ Notifiable(w, key) /\ ~ frozen
    /\ wakeup' = [wakeup EXCEPT ![w].status = "notified"]
    /\ ledgered' = ledgered \cup {key} /\ due' = TRUE
    /\ master' = "running"
    /\ UNCHANGED <<plan, proposal, observed, frozen, draining, tally>>

\* The budget is used up: the Master is frozen, and the failure is committed.
NotifyExhausted(w, key) ==
    /\ Notifiable(w, key) /\ ~ frozen
    /\ Incident
    /\ wakeup' = [wakeup EXCEPT ![w].exhausted = TRUE]
    /\ ledgered' = ledgered \cup {key} /\ due' = TRUE
    /\ frozen' = TRUE
    /\ UNCHANGED <<plan, proposal, observed, master, draining>>

\* The refusal is recorded.
NotifyFrozenOnRecord(w, key) ==
    /\ Notifiable(w, key) /\ frozen
    /\ ledgered' = ledgered \cup {key}
    /\ UNCHANGED <<plan, proposal, wakeup, observed, master, frozen, draining, due, tally>>

\* A frozen Master cannot be activated: the command is undone.
NotifyFrozen(w, key) ==
    /\ Notifiable(w, key) /\ frozen
    /\ UNCHANGED <<plan, proposal, wakeup, observed, ledgered, master, frozen, draining, due, tally>>

cmdNotifyWorkflowWakeup ==
    \E w \in DOMAIN wakeup : \E n \in 1 .. MaxObserved :
        LET key == NotifyKey(w, n) IN
        \/ NotifyIdle(w, key) \/ NotifyLate(w, key) \/ NotifyStarts(w, key)
        \/ NotifyExhausted(w, key) \/ NotifyFrozen(w, key)

cmdAcknowledgeWorkflowWakeup(w) ==
    /\ wakeup[w].status # "acknowledged"
    /\ wakeup' = [wakeup EXCEPT ![w].status = "acknowledged"]
    /\ due' = TRUE
    /\ UNCHANGED <<plan, proposal, observed, ledgered, pile, master, frozen, draining, tally>>

-----------------------------------------------------------------------------
(* The Master's session, shutdown and restart.                             *)

MasterFinishes ==
    /\ master = "running"
    /\ master' = "idle" /\ due' = TRUE
    /\ UNCHANGED <<plan, proposal, wakeup, observed, ledgered, pile, frozen, draining, tally>>

\* A human activates the Master again, or unfreezes it: any such command revives the drain.
ReviveMaster ==
    /\ master = "down" \/ frozen \/ ~ draining
    /\ master' = "idle" /\ frozen' = FALSE /\ draining' = TRUE /\ due' = TRUE
    /\ UNCHANGED <<plan, proposal, wakeup, observed, ledgered, pile, tally>>

\* A human freezes the Master's node; a notification may be on its way.
FreezeMaster ==
    /\ ~ frozen
    /\ Incident
    /\ frozen' = TRUE /\ due' = TRUE
    /\ UNCHANGED <<plan, proposal, wakeup, observed, ledgered, pile, master, draining>>

suspendWakeupDrain ==
    /\ Incident
    /\ draining' = FALSE
    /\ master' = IF master = "running" THEN "down" ELSE master
    /\ UNCHANGED <<plan, proposal, wakeup, observed, ledgered, pile, frozen, due>>

\* The one sequence of some events that keeps their order in the log.
LogOrder(S) == {log \in [1 .. Cardinality(S) -> S] : \A i, j \in DOMAIN log : i < j => log[i] < log[j]}

\* Restart: waiting commands are gone; events about the active version are read
\* from the log again; the wakeup whose turn was cut off is pending again.
Reload ==
    /\ Incident
    /\ master' = IF master = "running" THEN "down" ELSE master
    /\ wakeup' = [w \in DOMAIN wakeup |->
           IF master = "running" /\ wakeup[w].status = "notified"
           THEN [wakeup[w] EXCEPT !.status = "pending", !.interrupted = TRUE] ELSE wakeup[w]]
    /\ \E log \in LogOrder({e \in DOMAIN observed : observed[e].version = activeWorkflowPlan}) :
           pile' = [i \in DOMAIN log |-> [kind |-> "record", of |-> log[i], at |-> activeWorkflowPlan]]
    /\ draining' = TRUE /\ due' = TRUE
    /\ UNCHANGED <<plan, proposal, observed, ledgered, frozen>>

GovernanceNext ==
    \/ \E patch \in BOOLEAN : \E heard \in SUBSET DOMAIN wakeup : cmdPropose(patch, heard)
    \/ \E i \in DOMAIN proposal : \/ cmdReviseWorkflow(i) \/ cmdApproveWorkflowProposal(i)
                                  \/ cmdRejectWorkflowProposal(i) \/ SubmitCommit(i)
    \/ \E kind \in WakeupKind : Observe(kind)
    \/ \E w \in DOMAIN wakeup : cmdAcknowledgeWorkflowWakeup(w)
    \/ cmdCommitWorkflow \/ cmdRecordWorkflowWakeup \/ cmdNotifyWorkflowWakeup
    \/ drainWorkflowWakeups \/ MasterFinishes \/ ReviveMaster \/ FreezeMaster \/ suspendWakeupDrain \/ Reload

GovernanceSpec == GovernanceInit /\ [][GovernanceNext]_governanceVars

-----------------------------------------------------------------------------
GovernanceTypeOK ==
    /\ plan \in Seq({"proposed", "active", "superseded", "aborted"}) /\ Len(plan) <= MaxProposal
    /\ \A i \in DOMAIN proposal : /\ proposal[i].base \in 0 .. MaxProposal
                                  /\ proposal[i].version \in DOMAIN plan
                                  /\ proposal[i].status \in Open \cup {"rejected", "committed"}
    /\ \A w \in DOMAIN wakeup : /\ wakeup[w].status \in {"pending", "notified", "acknowledged", "superseded"}
                                /\ wakeup[w].version \in DOMAIN plan
                                /\ wakeup[w].occurrences = Cardinality(wakeup[w].sources)
    /\ \A i \in DOMAIN pile : pile[i].kind \in {"commit", "record", "notify"}
    /\ master \in {"idle", "running", "down"}
    /\ {frozen, draining, due} \subseteq BOOLEAN

\* A version is active only with the approval of a human for exactly what it says,
\* it replaced the version that was active when it was proposed, and there is at
\* most one: proposals, revisions, late commits and rejections in any order.
ApprovedIsActive ==
    /\ \A u, v \in DOMAIN plan : plan[u] = "active" /\ plan[v] = "active" => u = v
    /\ \A i \in DOMAIN proposal :
          /\ proposal[i].status = "committed" => proposal[i].approved = proposal[i].edition + 1
          /\ plan[proposal[i].version] \in {"active", "superseded"} <=> proposal[i].status = "committed"

\* Every event about the version that is active is in one of its wakeups, or on the
\* way to one, whatever was coalesced, cut off by a restart or answered meanwhile.
NothingUnheard ==
    \A e \in DOMAIN observed :
        plan[observed[e].version] = "active" =>
            \/ \E w \in DOMAIN wakeup : e \in wakeup[w].sources /\ wakeup[w].version = observed[e].version
            \/ \E i \in DOMAIN pile : pile[i].kind = "record" /\ pile[i].of = e

\* The Master is asked about a version that governs nothing any more only when the
\* version was replaced by a whole plan: a patch settles the wakeups of its base.
WakeupsCurrent ==
    \A w \in DOMAIN wakeup :
        wakeup[w].status \in {"pending", "notified"} =>
            \/ plan[wakeup[w].version] = "active"
            \/ \E i \in DOMAIN proposal : /\ proposal[i].base = wakeup[w].version
                                          /\ proposal[i].status = "committed" /\ ~ proposal[i].patch

\* A pending wakeup can be notified: the ledger does not hold the key its next
\* notification would use, except after a restart cut the notified turn off or the
\* budget refused it - then the drain is answered from the ledger, for good.
StillNotifiable ==
    \A w \in DOMAIN wakeup :
        /\ wakeup[w].status = "pending"
        /\ NotifyKey(w, wakeup[w].occurrences) \in ledgered
        => wakeup[w].interrupted \/ wakeup[w].exhausted
=============================================================================
