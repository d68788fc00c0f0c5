--------------------------- MODULE ServiceProofs ---------------------------
(***************************************************************************)
(* Proofs about workflow governance, for any kinds of wakeup and all       *)
(* bounds; about a barrier, for any participants and mode; about the       *)
(* watchers of an external source (Ingestion), for any commits, any number *)
(* of watchers and all bounds; and about the graph of a runtime            *)
(* (IntentGraph), for any sessions, clusters and subscriptions and all     *)
(* bounds: first that its static check finds the cycles.                   *)
(***************************************************************************)
EXTENDS Governance, Barrier, Ingestion, IntentGraph, FiniteSetTheorems, NaturalsInduction, WellFoundedInduction,
        TLAPS

PlanStatus == {"proposed", "active", "superseded", "aborted"}
ProposalRecord ==
    [base : Nat, version : Nat, patch : BOOLEAN, heard : SUBSET Nat,
     status : Open \cup {"rejected", "committed"}, edition : Nat, approved : Nat]
WakeupRecord ==
    [kind : WakeupKind, version : Nat,
     status : {"pending", "notified", "acknowledged", "superseded"},
     sources : SUBSET Nat, occurrences : Nat, interrupted : BOOLEAN, exhausted : BOOLEAN]
Event == [kind : WakeupKind, version : Nat]
Waiting == [kind : {"commit", "record", "notify"}, of : Nat, at : Nat]

Shape ==
    /\ plan \in Seq(PlanStatus) /\ proposal \in Seq(ProposalRecord)
    /\ wakeup \in Seq(WakeupRecord) /\ observed \in Seq(Event) /\ pile \in Seq(Waiting)
    /\ master \in {"idle", "running", "down"}
    /\ frozen \in BOOLEAN /\ draining \in BOOLEAN /\ due \in BOOLEAN

-----------------------------------------------------------------------------
(* Sequences.                                                              *)

(* A sequence with one more element.                                       *)
LEMMA Appended ==
    ASSUME NEW T, NEW s \in Seq(T), NEW x \in T
    PROVE  /\ Append(s, x) \in Seq(T)
           /\ Len(Append(s, x)) = Len(s) + 1
           /\ DOMAIN Append(s, x) = DOMAIN s \cup {Len(s) + 1}
           /\ \A i \in DOMAIN s : Append(s, x)[i] = s[i]
           /\ Append(s, x)[Len(s) + 1] = x
OBVIOUS

(* A sequence without its first element.                                   *)
LEMMA Behind ==
    ASSUME NEW T, NEW s \in Seq(T), s # <<>>
    PROVE  /\ 1 \in DOMAIN s /\ Head(s) = s[1] /\ Head(s) \in T
           /\ Tail(s) \in Seq(T)
           /\ \A i \in DOMAIN Tail(s) : i + 1 \in DOMAIN s /\ Tail(s)[i] = s[i + 1]
           /\ \A i \in DOMAIN s : i # 1 => i - 1 \in DOMAIN Tail(s) /\ s[i] = Tail(s)[i - 1]
OBVIOUS

(* A sequence with one element changed.                                    *)
LEMMA Altered ==
    ASSUME NEW T, NEW s \in Seq(T), NEW k \in DOMAIN s, NEW x \in T
    PROVE  /\ [s EXCEPT ![k] = x] \in Seq(T)
           /\ Len([s EXCEPT ![k] = x]) = Len(s)
           /\ DOMAIN [s EXCEPT ![k] = x] = DOMAIN s
OBVIOUS

(* A sequence rewritten in place.                                          *)
LEMMA Rewritten ==
    ASSUME NEW T, NEW s \in Seq(T), NEW t, t = [i \in DOMAIN s |-> t[i]],
           \A i \in DOMAIN s : t[i] \in T
    PROVE  t \in Seq(T) /\ Len(t) = Len(s) /\ DOMAIN t = DOMAIN s
OBVIOUS

(* An index of a sequence.                                                 *)
LEMMA Indexed ==
    ASSUME NEW T, NEW s \in Seq(T)
    PROVE  /\ Len(s) \in Nat /\ DOMAIN s = 1 .. Len(s)
           /\ \A i \in DOMAIN s : i \in Nat /\ s[i] \in T
OBVIOUS

-----------------------------------------------------------------------------
(* The active version.                                                     *)

OneActive == \A u, v \in DOMAIN plan : plan[u] = "active" /\ plan[v] = "active" => u = v

(* activeWorkflowPlan is the version that is active, or 0.                 *)
LEMMA ActivePlan ==
    ASSUME plan \in Seq(PlanStatus), OneActive
    PROVE  /\ activeWorkflowPlan \in Nat
           /\ activeWorkflowPlan = 0 => \A v \in DOMAIN plan : plan[v] # "active"
           /\ activeWorkflowPlan # 0 =>
                 activeWorkflowPlan \in DOMAIN plan /\ plan[activeWorkflowPlan] = "active"
           /\ \A v \in DOMAIN plan : plan[v] = "active" => v = activeWorkflowPlan
<1>1. CASE \E v \in DOMAIN plan : plan[v] = "active"
  <2>1. PICK v \in DOMAIN plan : plan[v] = "active"
    BY <1>1
  <2>2. v \in Nat /\ v # 0
    OBVIOUS
  <2>3. \A u \in DOMAIN plan : plan[u] = "active" => u <= v
    BY <2>1, <2>2 DEF OneActive
  <2>4. \E w \in DOMAIN plan : plan[w] = "active" /\ \A u \in DOMAIN plan : plan[u] = "active" => u <= w
    BY <2>1, <2>3
  <2>5. activeWorkflowPlan \in DOMAIN plan /\ plan[activeWorkflowPlan] = "active"
    BY <1>1, <2>4 DEF activeWorkflowPlan
  <2>6. activeWorkflowPlan = v
    BY <2>1, <2>5 DEF OneActive
  <2> QED BY <2>1, <2>2, <2>6 DEF OneActive
<1>2. CASE ~ \E v \in DOMAIN plan : plan[v] = "active"
  BY <1>2 DEF activeWorkflowPlan
<1> QED BY <1>1, <1>2

-----------------------------------------------------------------------------
(* Types.                                                                  *)

(* What the pending commands and the events are about exists.              *)
PileInv ==
    \A c \in DOMAIN pile :
        /\ pile[c].kind = "commit" => pile[c].of \in DOMAIN proposal
        /\ pile[c].kind = "record" => /\ pile[c].of \in DOMAIN observed
                                      /\ pile[c].at = observed[pile[c].of].version

PlanInv ==
    /\ Len(plan) = Len(proposal) /\ Len(plan) <= MaxProposal
    /\ OneActive
    /\ \A i \in DOMAIN proposal :
          /\ proposal[i].version = i /\ proposal[i].base < i
          /\ proposal[i].status \in Open => plan[i] = "proposed"
          /\ proposal[i].status = "rejected" => plan[i] = "aborted"
          /\ proposal[i].status = "committed" => plan[i] \in {"active", "superseded"}
          /\ proposal[i].status \in {"approved", "committed"} =>
                 proposal[i].approved = proposal[i].edition + 1

(* The state before a step.                                                *)
Sound == Shape /\ PlanInv /\ PileInv

(* A new proposal is a record of its type.                                 *)
LEMMA ProposeShape ==
    ASSUME Sound, NEW patch \in BOOLEAN, NEW heard \in SUBSET DOMAIN wakeup, cmdPropose(patch, heard)
    PROVE  Shape'
<1> DEFINE p == [base |-> activeWorkflowPlan, version |-> Len(plan) + 1, patch |-> patch,
                 heard |-> heard, status |-> "proposed", edition |-> 0, approved |-> 0]
<1>1. activeWorkflowPlan \in Nat /\ Len(plan) \in Nat /\ heard \subseteq Nat
  BY ActivePlan DEF Sound, Shape, PlanInv
<1>2. p \in ProposalRecord
  BY <1>1 DEF ProposalRecord, Open
<1>3. Append(proposal, p) \in Seq(ProposalRecord) /\ Append(plan, "proposed") \in Seq(PlanStatus)
  BY <1>2, Appended DEF Sound, Shape, PlanStatus
<1> QED BY <1>3 DEF cmdPropose, ProposalOnly, Sound, Shape

(* A decision about a proposal keeps the types.                            *)
LEMMA DecideShape ==
    ASSUME Sound, NEW i \in DOMAIN proposal,
           \/ cmdReviseWorkflow(i) \/ cmdApproveWorkflowProposal(i) \/ cmdRejectWorkflowProposal(i)
    PROVE  Shape'
<1>1. proposal[i] \in ProposalRecord /\ i \in DOMAIN plan /\ proposal[i].version = i
  BY DEF Sound, Shape, PlanInv
<1>2. /\ [proposal[i] EXCEPT !.status = "proposed", !.edition = @ + 1, !.approved = 0] \in ProposalRecord
      /\ [proposal[i] EXCEPT !.status = "approved", !.approved = proposal[i].edition + 1] \in ProposalRecord
      /\ [proposal[i] EXCEPT !.status = "rejected"] \in ProposalRecord
  <2>1. proposal[i].edition + 1 \in Nat
    BY <1>1 DEF ProposalRecord
  <2>2. \A x, y \in Nat, status \in {"proposed", "approved", "rejected"} :
           [proposal[i] EXCEPT !.status = status, !.edition = x, !.approved = y] \in ProposalRecord
    BY <1>1 DEF ProposalRecord, Open
  <2>3. [proposal[i] EXCEPT !.status = "proposed", !.edition = @ + 1, !.approved = 0] \in ProposalRecord
    BY <2>1, <2>2
  <2>4. [proposal[i] EXCEPT !.status = "approved", !.approved = proposal[i].edition + 1] \in ProposalRecord
    BY <1>1, <2>1 DEF ProposalRecord, Open
  <2>5. [proposal[i] EXCEPT !.status = "rejected"] \in ProposalRecord
    BY <1>1 DEF ProposalRecord, Open
  <2> QED BY <2>3, <2>4, <2>5
<1>3. proposal' \in Seq(ProposalRecord)
  <2>1. \E x \in ProposalRecord : proposal' = [proposal EXCEPT ![i] = x]
    BY <1>2 DEF cmdReviseWorkflow, cmdApproveWorkflowProposal, cmdRejectWorkflowProposal
  <2> QED BY <2>1, Altered DEF Sound, Shape
<1>4. plan' \in Seq(PlanStatus)
  <2>1. plan' = plan \/ \E x \in PlanStatus : plan' = [plan EXCEPT ![i] = x]
    BY <1>1 DEF cmdReviseWorkflow, cmdApproveWorkflowProposal, cmdRejectWorkflowProposal, PlanStatus
  <2>2. plan \in Seq(PlanStatus)
    BY DEF Sound, Shape
  <2>3. CASE \E x \in PlanStatus : plan' = [plan EXCEPT ![i] = x]
    <3>1. PICK x \in PlanStatus : plan' = [plan EXCEPT ![i] = x]
      BY <2>3
    <3> QED BY <3>1, <2>2, <1>1, Altered
  <2> QED BY <2>1, <2>2, <2>3
<1> QED BY <1>3, <1>4 DEF cmdReviseWorkflow, cmdApproveWorkflowProposal, cmdRejectWorkflowProposal,
                          ProposalOnly, Sound, Shape

(* A command that is sent waits at the end.                                *)
LEMMA SubmitShape ==
    ASSUME Sound, NEW i \in DOMAIN proposal, SubmitCommit(i)
    PROVE  Shape'
<1>1. [kind |-> "commit", of |-> i, at |-> 0] \in Waiting
  BY DEF Waiting, Sound, Shape
<1>2. pile' \in Seq(Waiting)
  BY <1>1, Appended DEF SubmitCommit, Piles, Sound, Shape
<1> QED BY <1>2 DEF SubmitCommit, Sound, Shape

LEMMA ObserveShape ==
    ASSUME Sound, NEW kind \in WakeupKind, Observe(kind)
    PROVE  Shape'
<1>1. activeWorkflowPlan \in Nat /\ Len(observed) \in Nat
  BY ActivePlan DEF Sound, Shape, PlanInv
<1>2. /\ [kind |-> kind, version |-> activeWorkflowPlan] \in Event
      /\ [kind |-> "record", of |-> Len(observed) + 1, at |-> activeWorkflowPlan] \in Waiting
  BY <1>1 DEF Event, Waiting
<1>3. pile' \in Seq(Waiting) /\ observed' \in Seq(Event)
  BY <1>2, Appended DEF Observe, Piles, Sound, Shape
<1> QED BY <1>3 DEF Observe, Sound, Shape

(* A command that runs was the first that waited.                          *)
LEMMA RunsFirst ==
    ASSUME Shape, NEW kind, Runs(kind)
    PROVE  /\ pile # <<>> /\ 1 \in DOMAIN pile /\ Head(pile) = pile[1] /\ pile[1].kind = kind
           /\ Head(pile) \in Waiting
           /\ pile' \in Seq(Waiting)
           /\ \A c \in DOMAIN pile' : c + 1 \in DOMAIN pile /\ pile'[c] = pile[c + 1]
           /\ \A c \in DOMAIN pile : c # 1 => c - 1 \in DOMAIN pile' /\ pile[c] = pile'[c - 1]
BY Behind DEF Shape, Runs

(* A patch rewrites the wakeups where they are.                            *)
LEMMA AfterPatchWakeups ==
    ASSUME Shape, NEW p
    PROVE  /\ AfterPatch(p) \in Seq(WakeupRecord)
           /\ DOMAIN AfterPatch(p) = DOMAIN wakeup
           /\ \A w \in DOMAIN wakeup :
                 /\ \E status \in {"acknowledged", "superseded", wakeup[w].status} :
                       AfterPatch(p)[w] = [wakeup[w] EXCEPT !.status = status]
                 /\ AfterPatch(p)[w].status \in {"pending", "notified"} =>
                       AfterPatch(p)[w] = wakeup[w] /\ wakeup[w].version # p.base
<1> DEFINE t == AfterPatch(p)
<1>1. t = [w \in DOMAIN wakeup |-> t[w]]
  BY DEF AfterPatch
<1>2. ASSUME NEW w \in DOMAIN wakeup
      PROVE  /\ t[w] \in WakeupRecord
             /\ \E status \in {"acknowledged", "superseded", wakeup[w].status} :
                   t[w] = [wakeup[w] EXCEPT !.status = status]
             /\ t[w].status \in {"pending", "notified"} => t[w] = wakeup[w] /\ wakeup[w].version # p.base
  <2>1. wakeup[w] \in WakeupRecord
    BY DEF Shape
  <2>2. [wakeup[w] EXCEPT !.status = wakeup[w].status] = wakeup[w]
    BY <2>1 DEF WakeupRecord
  <2>3. CASE w \in p.heard /\ wakeup[w].status # "superseded"
    <3>1. t[w] = [wakeup[w] EXCEPT !.status = "acknowledged"]
      BY <2>3 DEF AfterPatch
    <3> QED BY <2>1, <3>1 DEF WakeupRecord
  <2>4. CASE /\ ~ (w \in p.heard /\ wakeup[w].status # "superseded")
             /\ wakeup[w].version = p.base /\ wakeup[w].status \in {"pending", "notified"}
    <3>1. t[w] = [wakeup[w] EXCEPT !.status = "superseded"]
      BY <2>4 DEF AfterPatch
    <3> QED BY <2>1, <3>1 DEF WakeupRecord
  <2>5. CASE /\ ~ (w \in p.heard /\ wakeup[w].status # "superseded")
             /\ ~ (wakeup[w].version = p.base /\ wakeup[w].status \in {"pending", "notified"})
    <3>1. t[w] = wakeup[w]
      BY <2>5 DEF AfterPatch
    <3> QED BY <2>1, <2>2, <2>5, <3>1
  <2> QED BY <2>3, <2>4, <2>5
<1>3. t \in Seq(WakeupRecord) /\ DOMAIN t = DOMAIN wakeup
  BY <1>1, <1>2, Rewritten DEF Shape
<1> QED BY <1>2, <1>3

LEMMA CommitShape ==
    ASSUME Sound, cmdCommitWorkflow
    PROVE  Shape'
<1> DEFINE i == Head(pile).of
           p == proposal[i]
<1>1. pile' \in Seq(Waiting)
  BY RunsFirst DEF Sound, cmdCommitWorkflow
<1>2. i \in DOMAIN proposal /\ p \in ProposalRecord
  BY RunsFirst DEF Sound, PileInv, Shape, cmdCommitWorkflow
<1>3. CASE UNCHANGED <<plan, proposal, wakeup, due>>
  BY <1>1, <1>3 DEF Sound, Shape, cmdCommitWorkflow
<1>4. CASE /\ p.status = "approved" /\ p.base = activeWorkflowPlan
           /\ plan' = [v \in DOMAIN plan |-> IF v = p.version THEN "active"
                                             ELSE IF v = p.base THEN "superseded" ELSE plan[v]]
           /\ proposal' = [proposal EXCEPT ![i].status = "committed"]
           /\ wakeup' = IF p.patch THEN AfterPatch(p) ELSE wakeup
           /\ due' = TRUE
  <2>1. plan' \in Seq(PlanStatus)
    <3>1. \A v \in DOMAIN plan : plan'[v] \in PlanStatus
      BY <1>4 DEF Sound, Shape, PlanStatus
    <3>2. plan' = [v \in DOMAIN plan |-> plan'[v]]
      BY <1>4
    <3> QED BY <3>1, <3>2, Rewritten DEF Sound, Shape
  <2>2. proposal' \in Seq(ProposalRecord)
    <3>1. [p EXCEPT !.status = "committed"] \in ProposalRecord
      BY <1>2 DEF ProposalRecord
    <3> QED BY <1>2, <1>4, <3>1, Altered DEF Sound, Shape
  <2>3. wakeup' \in Seq(WakeupRecord)
    BY <1>4, AfterPatchWakeups DEF Sound, Shape
  <2> QED BY <1>1, <1>4, <2>1, <2>2, <2>3 DEF Sound, Shape, cmdCommitWorkflow
<1> QED BY <1>3, <1>4 DEF cmdCommitWorkflow

(* A recorded wakeup is a record of its type.                              *)
LEMMA RecordShape ==
    ASSUME Sound, cmdRecordWorkflowWakeup
    PROVE  Shape'
<1> DEFINE e == Head(pile).of
           v == Head(pile).at
<1>1. pile' \in Seq(Waiting)
  BY RunsFirst DEF Sound, cmdRecordWorkflowWakeup
<1>2. e \in DOMAIN observed /\ e \in Nat /\ v \in Nat /\ observed[e] \in Event
  <2>1. e \in DOMAIN observed /\ Head(pile) \in Waiting
    BY RunsFirst DEF Sound, PileInv, cmdRecordWorkflowWakeup
  <2> QED BY <2>1 DEF Waiting, Sound, Shape
<1>3. Fresh(e, v) \in WakeupRecord
  BY <1>2 DEF Fresh, WakeupRecord, Event
<1>4. CASE wakeup' = Append(wakeup, Fresh(e, v))
  <2>1. wakeup' \in Seq(WakeupRecord)
    BY <1>3, <1>4, Appended DEF Sound, Shape
  <2> QED BY <1>1, <2>1 DEF Sound, Shape, cmdRecordWorkflowWakeup
<1>5. ASSUME NEW w \in DOMAIN wakeup,
             wakeup' = [wakeup EXCEPT ![w].sources = @ \cup {e},
                                      ![w].occurrences = @ + (IF e \in wakeup[w].sources THEN 0 ELSE 1)]
      PROVE  Shape'
  <2> DEFINE x == [wakeup[w] EXCEPT !.sources = @ \cup {e},
                                    !.occurrences = @ + (IF e \in wakeup[w].sources THEN 0 ELSE 1)]
  <2>1. wakeup[w] \in WakeupRecord
    BY DEF Sound, Shape
  <2>2. x \in WakeupRecord
    <3>1. wakeup[w].sources \cup {e} \in SUBSET Nat
      BY <1>2, <2>1 DEF WakeupRecord
    <3>2. wakeup[w].occurrences + (IF e \in wakeup[w].sources THEN 0 ELSE 1) \in Nat
      BY <2>1 DEF WakeupRecord
    <3> QED BY <2>1, <3>1, <3>2 DEF WakeupRecord
  <2>3. wakeup' = [wakeup EXCEPT ![w] = x]
    BY <1>5 DEF Sound, Shape
  <2>4. wakeup' \in Seq(WakeupRecord)
    BY <2>2, <2>3, Altered DEF Sound, Shape
  <2> QED BY <1>1, <2>4 DEF Sound, Shape, cmdRecordWorkflowWakeup
<1>6. CASE UNCHANGED <<wakeup, ledgered, due>>
  BY <1>1, <1>6 DEF Sound, Shape, cmdRecordWorkflowWakeup
<1> QED BY <1>4, <1>5, <1>6 DEF cmdRecordWorkflowWakeup

(* What the drain sends asks about a pending wakeup.                       *)
LEMMA DrainShape ==
    ASSUME Sound, drainWorkflowWakeups
    PROVE  Shape'
<1>1. CASE UNCHANGED pile
  BY <1>1 DEF drainWorkflowWakeups, Sound, Shape
<1>2. ASSUME NEW w \in DOMAIN wakeup,
             Piles([kind |-> "notify", of |-> w, at |-> wakeup[w].occurrences])
      PROVE  Shape'
  <2>1. w \in Nat /\ wakeup[w].occurrences \in Nat
    <3>1. w \in Nat /\ wakeup[w] \in WakeupRecord
      BY DEF Sound, Shape
    <3> QED BY <3>1 DEF WakeupRecord
  <2>2. [kind |-> "notify", of |-> w, at |-> wakeup[w].occurrences] \in Waiting
    BY <2>1 DEF Waiting
  <2>3. pile' \in Seq(Waiting)
    BY <1>2, <2>2, Appended DEF Piles, Sound, Shape
  <2> QED BY <2>3 DEF drainWorkflowWakeups, Sound, Shape
<1> QED BY <1>1, <1>2 DEF drainWorkflowWakeups

(* What a notification may do to a wakeup.                                 *)
LEMMA NotifyShape ==
    ASSUME Sound, cmdNotifyWorkflowWakeup
    PROVE  Shape'
<1>1. PICK w \in DOMAIN wakeup, n \in 1 .. MaxObserved :
        \/ NotifyIdle(w, NotifyKey(w, n)) \/ NotifyLate(w, NotifyKey(w, n))
        \/ NotifyStarts(w, NotifyKey(w, n)) \/ NotifyExhausted(w, NotifyKey(w, n))
        \/ NotifyFrozen(w, NotifyKey(w, n))
  BY DEF cmdNotifyWorkflowWakeup
<1>2. Runs("notify")
  BY <1>1 DEF NotifyIdle, NotifyLate, NotifyStarts, NotifyExhausted, NotifyFrozen, Notifiable, NotifyRuns
<1>3. pile' \in Seq(Waiting)
  BY <1>2, RunsFirst DEF Sound
<1>4. wakeup[w] \in WakeupRecord
  BY DEF Sound, Shape
<1>5. wakeup' \in Seq(WakeupRecord)
  <2>1. CASE UNCHANGED wakeup
    BY <2>1 DEF Sound, Shape
  <2>2. CASE wakeup' = [wakeup EXCEPT ![w].status = "notified"]
    <3>1. [wakeup[w] EXCEPT !.status = "notified"] \in WakeupRecord
      BY <1>4 DEF WakeupRecord
    <3> QED BY <2>2, <3>1, Altered DEF Sound, Shape
  <2>3. CASE wakeup' = [wakeup EXCEPT ![w].exhausted = TRUE]
    <3>1. [wakeup[w] EXCEPT !.exhausted = TRUE] \in WakeupRecord
      BY <1>4 DEF WakeupRecord
    <3> QED BY <2>3, <3>1, Altered DEF Sound, Shape
  <2> QED BY <1>1, <2>1, <2>2, <2>3
        DEF NotifyIdle, NotifyLate, NotifyStarts, NotifyExhausted, NotifyFrozen
<1>6. /\ plan' = plan /\ proposal' = proposal /\ observed' = observed
      /\ master' \in {master, "running"} /\ frozen' \in {frozen, TRUE} /\ draining' = draining
      /\ due' \in {due, TRUE}
  BY <1>1 DEF NotifyIdle, NotifyLate, NotifyStarts, NotifyExhausted, NotifyFrozen
<1> QED BY <1>3, <1>5, <1>6 DEF Sound, Shape

LEMMA AcknowledgeShape ==
    ASSUME Sound, NEW w \in DOMAIN wakeup, cmdAcknowledgeWorkflowWakeup(w)
    PROVE  Shape'
<1>1. wakeup[w] \in WakeupRecord
  BY DEF Sound, Shape
<1>2. [wakeup[w] EXCEPT !.status = "acknowledged"] \in WakeupRecord
  BY <1>1 DEF WakeupRecord
<1>3. wakeup' \in Seq(WakeupRecord)
  BY <1>2, Altered DEF cmdAcknowledgeWorkflowWakeup, Sound, Shape
<1> QED BY <1>3 DEF cmdAcknowledgeWorkflowWakeup, Sound, Shape

(* What happens to the session of the Master.                              *)
LEMMA MasterShape ==
    ASSUME Sound, \/ MasterFinishes \/ ReviveMaster \/ FreezeMaster \/ suspendWakeupDrain
    PROVE  Shape'
BY DEF MasterFinishes, ReviveMaster, FreezeMaster, suspendWakeupDrain, Sound, Shape

(* A sequence in the order of the log names every event once.              *)
LEMMA InLogOrder ==
    ASSUME Shape, NEW S \in SUBSET DOMAIN observed, NEW log \in LogOrder(S)
    PROVE  /\ DOMAIN log = 1 .. Cardinality(S) /\ Cardinality(S) \in Nat
           /\ \A i \in DOMAIN log : log[i] \in S
           /\ \A e \in S : \E i \in DOMAIN log : log[i] = e
<1>1. IsFiniteSet(S) /\ Cardinality(S) \in Nat
  <2>1. Len(observed) \in Nat /\ DOMAIN observed = 1 .. Len(observed)
    BY Indexed DEF Shape
  <2>2. IsFiniteSet(DOMAIN observed)
    BY <2>1, FS_Interval
  <2> QED BY <2>2, FS_Subset, FS_CardinalityType
<1>2. log \in [1 .. Cardinality(S) -> S]
  BY DEF LogOrder
<1>3. log \in Injection(1 .. Cardinality(S), S)
  <2>1. ASSUME NEW i \in 1 .. Cardinality(S), NEW j \in 1 .. Cardinality(S), log[i] = log[j]
        PROVE  i = j
    <3>1. log[i] \in Nat /\ log[j] \in Nat /\ i \in Nat /\ j \in Nat
      <4>1. log[i] \in S /\ log[j] \in S
        BY <1>2
      <4>2. \A e \in S : e \in Nat
        BY Indexed DEF Shape
      <4> QED BY <1>1, <4>1, <4>2
    <3>2. (i < j => log[i] < log[j]) /\ (j < i => log[j] < log[i])
      BY <1>2 DEF LogOrder
    <3> QED BY <2>1, <3>1, <3>2
  <2> QED BY <1>2, <2>1 DEF Injection, IsInjective
<1>4. Cardinality(1 .. Cardinality(S)) = Cardinality(S)
  BY <1>1, FS_Interval
<1>5. log \in Surjection(1 .. Cardinality(S), S)
  BY <1>1, <1>3, <1>4, FS_Injection
<1> QED BY <1>1, <1>2, <1>5 DEF Surjection

(* After a restart the log is read again.                                  *)
LEMMA Reread ==
    ASSUME Sound, Reload
    PROVE  /\ pile' \in Seq(Waiting)
           /\ \A c \in DOMAIN pile' :
                 /\ pile'[c].kind = "record" /\ pile'[c].of \in DOMAIN observed
                 /\ pile'[c].at = activeWorkflowPlan
                 /\ pile'[c].at = observed[pile'[c].of].version
           /\ \A e \in DOMAIN observed : observed[e].version = activeWorkflowPlan =>
                 \E c \in DOMAIN pile' : pile'[c].kind = "record" /\ pile'[c].of = e
<1> DEFINE S == {e \in DOMAIN observed : observed[e].version = activeWorkflowPlan}
<1>1. PICK log \in LogOrder(S) :
        pile' = [i \in DOMAIN log |-> [kind |-> "record", of |-> log[i], at |-> activeWorkflowPlan]]
  BY DEF Reload
<1>2. /\ DOMAIN log = 1 .. Cardinality(S) /\ Cardinality(S) \in Nat
      /\ \A i \in DOMAIN log : log[i] \in S
      /\ \A e \in S : \E i \in DOMAIN log : log[i] = e
  <2>1. S \in SUBSET DOMAIN observed
    OBVIOUS
  <2> HIDE DEF S
  <2> QED BY <2>1, InLogOrder DEF Sound
<1>3. activeWorkflowPlan \in Nat
  BY ActivePlan DEF Sound, Shape, PlanInv
<1>4. \A i \in DOMAIN log : [kind |-> "record", of |-> log[i], at |-> activeWorkflowPlan] \in Waiting
  <2>1. \A e \in S : e \in Nat
    BY Indexed DEF Sound, Shape
  <2> QED BY <1>2, <1>3, <2>1 DEF Waiting
<1>5. pile' \in Seq(Waiting)
  <2> HIDE DEF S
  <2>1. pile' = [i \in 1 .. Cardinality(S) |-> pile'[i]]
    BY <1>1, <1>2
  <2>2. \A i \in 1 .. Cardinality(S) : pile'[i] \in Waiting
    BY <1>1, <1>2, <1>4
  <2> QED BY <1>2, <2>1, <2>2
<1>6. DOMAIN pile' = DOMAIN log
  BY <1>1
<1>7. \A c \in DOMAIN log : /\ pile'[c].kind = "record" /\ pile'[c].of = log[c]
                            /\ pile'[c].at = activeWorkflowPlan
  BY <1>1
<1> QED BY <1>2, <1>5, <1>6, <1>7

(* What a restart does to a wakeup.                                        *)
Interrupted(w) ==
    IF master = "running" /\ wakeup[w].status = "notified"
    THEN [wakeup[w] EXCEPT !.status = "pending", !.interrupted = TRUE] ELSE wakeup[w]

LEMMA ReloadWakeups ==
    ASSUME Sound, Reload
    PROVE  /\ wakeup' \in Seq(WakeupRecord) /\ DOMAIN wakeup' = DOMAIN wakeup
           /\ \A w \in DOMAIN wakeup : wakeup'[w] = Interrupted(w)
<1>1. \A w \in DOMAIN wakeup : wakeup'[w] = Interrupted(w)
  BY DEF Reload, Interrupted
<1>2. ASSUME NEW w \in DOMAIN wakeup
      PROVE  wakeup'[w] \in WakeupRecord
  <2>1. wakeup[w] \in WakeupRecord
    BY DEF Sound, Shape
  <2>2. [wakeup[w] EXCEPT !.status = "pending", !.interrupted = TRUE] \in WakeupRecord
    BY <2>1 DEF WakeupRecord
  <2> QED BY <1>1, <2>1, <2>2 DEF Interrupted
<1>3. wakeup' = [w \in DOMAIN wakeup |-> wakeup'[w]]
  BY DEF Reload
<1>4. wakeup' \in Seq(WakeupRecord) /\ DOMAIN wakeup' = DOMAIN wakeup
  BY <1>2, <1>3, Rewritten DEF Sound, Shape
<1> QED BY <1>1, <1>4

LEMMA ReloadShape ==
    ASSUME Sound, Reload
    PROVE  Shape'
BY Reread, ReloadWakeups DEF Reload, Sound, Shape

(* Every step keeps the types.                                             *)
LEMMA ShapeStep ==
    ASSUME Sound, [GovernanceNext]_governanceVars
    PROVE  Shape'
<1>1. CASE UNCHANGED governanceVars
  BY <1>1 DEF governanceVars, Sound, Shape
<1>2. CASE GovernanceNext
  BY <1>2, ProposeShape, DecideShape, SubmitShape, ObserveShape, AcknowledgeShape, CommitShape,
     RecordShape, NotifyShape, DrainShape, MasterShape, ReloadShape DEF GovernanceNext
<1> QED BY <1>1, <1>2

-----------------------------------------------------------------------------
(* Plans and proposals.                                                    *)

Settled == {"active", "superseded"}

(* A commit replaces the version that was active when it was proposed.     *)
CommitHappens(i) ==
    /\ i \in DOMAIN proposal
    /\ proposal[i].status = "approved" /\ proposal[i].base = activeWorkflowPlan
    /\ plan' = [v \in DOMAIN plan |-> IF v = i THEN "active"
                                      ELSE IF v = proposal[i].base THEN "superseded" ELSE plan[v]]
    /\ proposal' = [proposal EXCEPT ![i].status = "committed"]
    /\ wakeup' = IF proposal[i].patch THEN AfterPatch(proposal[i]) ELSE wakeup

(* No step forgets a version or a proposal; a version that has been active *)
(* stays so or is superseded by a commit; only a proposed one becomes      *)
(* active.                                                                 *)
PlanMoves ==
    /\ DOMAIN plan \subseteq DOMAIN plan' /\ DOMAIN proposal \subseteq DOMAIN proposal'
    /\ \A v \in DOMAIN plan : /\ plan[v] \in Settled => plan'[v] \in Settled
                              /\ plan'[v] = "active" => plan[v] \in {"active", "proposed"}
                              /\ plan[v] = "active" =>
                                    \/ plan'[v] = "active"
                                    \/ \E i : CommitHappens(i) /\ proposal[i].base = v
    /\ \A i \in DOMAIN proposal :
          /\ proposal'[i].base = proposal[i].base /\ proposal'[i].patch = proposal[i].patch
          /\ proposal[i].status = "committed" => proposal'[i].status = "committed"

(* One proposal in its place.                                              *)
PlaceOK(p, i, status) ==
    /\ p.version = i /\ p.base < i
    /\ p.status \in Open => status = "proposed"
    /\ p.status = "rejected" => status = "aborted"
    /\ p.status = "committed" => status \in Settled
    /\ p.status \in {"approved", "committed"} => p.approved = p.edition + 1

LEMMA ProposePlan ==
    ASSUME Sound, NEW patch \in BOOLEAN, NEW heard \in SUBSET DOMAIN wakeup, cmdPropose(patch, heard)
    PROVE  PlanInv' /\ PlanMoves
<1> DEFINE p == [base |-> activeWorkflowPlan, version |-> Len(plan) + 1, patch |-> patch,
                 heard |-> heard, status |-> "proposed", edition |-> 0, approved |-> 0]
           n == Len(plan) + 1
<1>1. /\ plan \in Seq(PlanStatus) /\ proposal \in Seq(ProposalRecord)
      /\ Len(plan) = Len(proposal) /\ Len(plan) \in Nat /\ OneActive
      /\ Len(proposal) < MaxProposal /\ MaxProposal \in Nat
  BY GovernanceAssumption DEF Sound, Shape, PlanInv, cmdPropose
<1>2. plan' = Append(plan, "proposed") /\ proposal' = Append(proposal, p)
  BY DEF cmdPropose
<1>3. /\ Len(plan') = n /\ DOMAIN plan' = DOMAIN plan \cup {n} /\ plan'[n] = "proposed"
      /\ \A v \in DOMAIN plan : plan'[v] = plan[v]
  <2>1. "proposed" \in PlanStatus
    BY DEF PlanStatus
  <2> QED BY <1>1, <1>2, <2>1, Appended
<1>4. /\ Len(proposal') = n /\ DOMAIN proposal' = DOMAIN proposal \cup {n} /\ proposal'[n] = p
      /\ \A i \in DOMAIN proposal : proposal'[i] = proposal[i]
  BY <1>1, <1>2
<1>5. OneActive'
  BY <1>1, <1>3 DEF OneActive
<1>6. activeWorkflowPlan < n
  BY <1>1, ActivePlan
<1>7. PlaceOK(p, n, "proposed")
  BY <1>6 DEF PlaceOK, Open
<1>8. n \notin DOMAIN proposal /\ DOMAIN proposal = DOMAIN plan
  BY <1>1
<1>9. \A i \in DOMAIN proposal' : PlaceOK(proposal'[i], i, plan'[i])
  <2>1. \A i \in DOMAIN proposal : PlaceOK(proposal[i], i, plan[i])
    BY DEF Sound, PlanInv, PlaceOK, Settled
  <2> HIDE DEF p, n
  <2> QED BY <1>3, <1>4, <1>7, <1>8, <2>1
<1>10. PlanInv'
  BY <1>1, <1>3, <1>4, <1>5, <1>9 DEF PlanInv, PlaceOK, Settled
<1>11. PlanMoves
  BY <1>3, <1>4 DEF PlanMoves, Settled
<1> QED BY <1>10, <1>11

(* A decision touches one proposal and its version, while it is open.      *)
LEMMA DecidePlan ==
    ASSUME Sound, NEW i \in DOMAIN proposal,
           \/ cmdReviseWorkflow(i) \/ cmdApproveWorkflowProposal(i) \/ cmdRejectWorkflowProposal(i)
    PROVE  PlanInv' /\ PlanMoves
<1>1. /\ plan \in Seq(PlanStatus) /\ proposal \in Seq(ProposalRecord)
      /\ Len(plan) = Len(proposal) /\ DOMAIN plan = DOMAIN proposal /\ OneActive /\ Len(plan) <= MaxProposal
      /\ i \in DOMAIN plan /\ proposal[i] \in ProposalRecord
      /\ \A k \in DOMAIN proposal : PlaceOK(proposal[k], k, plan[k])
  BY DEF Sound, Shape, PlanInv, PlaceOK, Settled
<1>2. proposal[i].status \in Open /\ plan[i] = "proposed" /\ proposal[i].version = i
  BY <1>1 DEF PlaceOK, cmdReviseWorkflow, cmdApproveWorkflowProposal, cmdRejectWorkflowProposal
<1>3. PICK q \in {"proposed", "aborted"} : plan' = [plan EXCEPT ![i] = q]
        /\ \E p : /\ proposal' = [proposal EXCEPT ![i] = p]
                  /\ PlaceOK(p, i, q) /\ p.base = proposal[i].base /\ p.patch = proposal[i].patch
  <2>1. CASE cmdReviseWorkflow(i)
    <3> DEFINE p == [proposal[i] EXCEPT !.status = "proposed", !.edition = @ + 1, !.approved = 0]
    <3>1. p.version = i /\ p.base = proposal[i].base /\ p.patch = proposal[i].patch /\ p.status = "proposed"
      BY <1>1, <1>2 DEF ProposalRecord
    <3>2. PlaceOK(p, i, "proposed")
      BY <1>1, <3>1 DEF PlaceOK, Open
    <3>3. proposal' = [proposal EXCEPT ![i] = p] /\ plan' = [plan EXCEPT ![i] = "proposed"]
      BY <1>1, <1>2, <2>1 DEF cmdReviseWorkflow
    <3> QED BY <3>1, <3>2, <3>3
  <2>2. CASE cmdApproveWorkflowProposal(i)
    <3> DEFINE p == [proposal[i] EXCEPT !.status = "approved", !.approved = proposal[i].edition + 1]
    <3>1. /\ p.version = i /\ p.base = proposal[i].base /\ p.patch = proposal[i].patch
          /\ p.status = "approved" /\ p.edition = proposal[i].edition /\ p.approved = proposal[i].edition + 1
      BY <1>1, <1>2 DEF ProposalRecord
    <3>2. PlaceOK(p, i, "proposed")
      BY <1>1, <3>1 DEF PlaceOK, Open
    <3>3. proposal' = [proposal EXCEPT ![i] = p]
      BY <1>1, <2>2 DEF cmdApproveWorkflowProposal
    <3>4. plan' = [plan EXCEPT ![i] = "proposed"]
      <4>1. plan' = plan
        BY <2>2 DEF cmdApproveWorkflowProposal
      <4>2. \A s \in Seq(PlanStatus) : \A k \in DOMAIN s : s = [s EXCEPT ![k] = s[k]]
        OBVIOUS
      <4> QED BY <1>1, <1>2, <4>1, <4>2
    <3> QED BY <3>1, <3>2, <3>3, <3>4
  <2>3. CASE cmdRejectWorkflowProposal(i)
    <3> DEFINE p == [proposal[i] EXCEPT !.status = "rejected"]
    <3>1. /\ p.version = i /\ p.base = proposal[i].base /\ p.patch = proposal[i].patch /\ p.status = "rejected"
      BY <1>1, <1>2 DEF ProposalRecord
    <3>2. PlaceOK(p, i, "aborted")
      BY <1>1, <3>1 DEF PlaceOK, Open
    <3>3. proposal' = [proposal EXCEPT ![i] = p] /\ plan' = [plan EXCEPT ![i] = "aborted"]
      BY <1>1, <1>2, <2>3 DEF cmdRejectWorkflowProposal
    <3> QED BY <3>1, <3>2, <3>3
  <2> QED BY <2>1, <2>2, <2>3
<1>4. PICK p : /\ proposal' = [proposal EXCEPT ![i] = p]
               /\ PlaceOK(p, i, q) /\ p.base = proposal[i].base /\ p.patch = proposal[i].patch
  BY <1>3
<1>5. /\ DOMAIN plan' = DOMAIN plan /\ Len(plan') = Len(plan)
      /\ DOMAIN proposal' = DOMAIN proposal /\ Len(proposal') = Len(proposal)
      /\ plan'[i] = q /\ proposal'[i] = p
      /\ \A k \in DOMAIN proposal : k # i => plan'[k] = plan[k] /\ proposal'[k] = proposal[k]
  BY <1>1, <1>3, <1>4
<1>6. OneActive'
  BY <1>1, <1>5 DEF OneActive
<1>7. \A k \in DOMAIN proposal' : PlaceOK(proposal'[k], k, plan'[k])
  BY <1>1, <1>4, <1>5
<1>8. PlanInv'
  BY <1>1, <1>5, <1>6, <1>7 DEF PlanInv, PlaceOK, Settled
<1>9. PlanMoves
  BY <1>1, <1>2, <1>4, <1>5 DEF PlanMoves, Settled, Open
<1> QED BY <1>8, <1>9

(* A commit command either does this or leaves plans and wakeups alone.    *)
LEMMA CommitCases ==
    ASSUME Sound, cmdCommitWorkflow
    PROVE  \/ \E i \in DOMAIN proposal : CommitHappens(i)
           \/ UNCHANGED <<plan, proposal, wakeup>>
<1>1. Head(pile).of \in DOMAIN proposal
  BY RunsFirst DEF Sound, PileInv, cmdCommitWorkflow
<1>2. proposal[Head(pile).of].version = Head(pile).of
  BY <1>1 DEF Sound, PlanInv
<1> QED BY <1>1, <1>2 DEF cmdCommitWorkflow, CommitHappens

LEMMA CommitPlan ==
    ASSUME Sound, NEW i, CommitHappens(i)
    PROVE  PlanInv' /\ PlanMoves
<1>1. /\ plan \in Seq(PlanStatus) /\ proposal \in Seq(ProposalRecord)
      /\ Len(plan) = Len(proposal) /\ DOMAIN plan = DOMAIN proposal /\ OneActive /\ Len(plan) <= MaxProposal
      /\ i \in DOMAIN plan /\ i \in DOMAIN proposal /\ i \in Nat /\ proposal[i] \in ProposalRecord
      /\ \A k \in DOMAIN proposal : PlaceOK(proposal[k], k, plan[k])
  BY DEF Sound, Shape, PlanInv, PlaceOK, Settled, CommitHappens
<1> DEFINE p == [proposal[i] EXCEPT !.status = "committed"]
           b == proposal[i].base
<1>2. /\ p.version = i /\ p.base = b /\ p.patch = proposal[i].patch /\ p.status = "committed"
      /\ p.approved = proposal[i].approved /\ p.edition = proposal[i].edition
  BY <1>1 DEF ProposalRecord, PlaceOK
<1>3. plan[i] = "proposed" /\ b < i /\ b \in Nat /\ p.approved = p.edition + 1
  BY <1>1, <1>2 DEF CommitHappens, PlaceOK, Open, ProposalRecord
<1>4. /\ b \in DOMAIN plan => plan[b] = "active"
      /\ \A v \in DOMAIN plan : plan[v] = "active" => v = b
  BY <1>1, ActivePlan DEF CommitHappens
<1>5. /\ DOMAIN plan' = DOMAIN plan
      /\ plan'[i] = "active" /\ (b \in DOMAIN plan => plan'[b] = "superseded")
      /\ \A k \in DOMAIN plan : k # i /\ k # b => plan'[k] = plan[k]
  BY <1>1, <1>3 DEF CommitHappens
<1>6. Len(plan') = Len(plan)
  <2>1. plan' = [v \in 1 .. Len(plan) |-> plan'[v]]
    BY <1>1 DEF CommitHappens
  <2> QED BY <1>1, <2>1
<1>7. /\ DOMAIN proposal' = DOMAIN proposal /\ Len(proposal') = Len(proposal)
      /\ proposal'[i] = p
      /\ \A k \in DOMAIN proposal : k # i => proposal'[k] = proposal[k]
  BY <1>1 DEF CommitHappens
<1> HIDE DEF p, b
<1>8. OneActive'
  BY <1>1, <1>3, <1>4, <1>5 DEF OneActive
<1>9. ASSUME NEW k \in DOMAIN proposal'
      PROVE  PlaceOK(proposal'[k], k, plan'[k])
  <2>1. CASE k = i
    BY <1>1, <1>2, <1>3, <1>5, <1>7, <2>1 DEF PlaceOK, Open, Settled
  <2>2. CASE k = b
    <3>1. k \in DOMAIN proposal /\ k # i /\ plan[k] = "active" /\ plan'[k] = "superseded"
      BY <1>1, <1>3, <1>4, <1>5, <1>7, <2>2
    <3>2. PlaceOK(proposal[k], k, "active") /\ proposal'[k] = proposal[k]
      BY <1>1, <1>7, <3>1
    <3> QED BY <3>1, <3>2 DEF PlaceOK, Settled
  <2>3. CASE k # i /\ k # b
    BY <1>1, <1>5, <1>7, <2>3
  <2> QED BY <2>1, <2>2, <2>3
<1>10. PlanInv'
  BY <1>1, <1>5, <1>6, <1>7, <1>8, <1>9 DEF PlanInv, PlaceOK, Settled
<1>11. PlanMoves
  <2>1. \A v \in DOMAIN plan : /\ plan[v] \in Settled => plan'[v] \in Settled
                               /\ plan'[v] = "active" => plan[v] \in {"active", "proposed"}
                               /\ plan[v] = "active" =>
                                     \/ plan'[v] = "active"
                                     \/ \E k : CommitHappens(k) /\ proposal[k].base = v
    BY <1>3, <1>4, <1>5 DEF Settled, b
  <2>2. \A k \in DOMAIN proposal :
          /\ proposal'[k].base = proposal[k].base /\ proposal'[k].patch = proposal[k].patch
          /\ proposal[k].status = "committed" => proposal'[k].status = "committed"
    BY <1>2, <1>7 DEF b
  <2> QED BY <1>5, <1>7, <2>1, <2>2 DEF PlanMoves
<1> QED BY <1>10, <1>11

(* Every other step leaves plans and proposals alone.                      *)
LEMMA PlanStep ==
    ASSUME Sound, [GovernanceNext]_governanceVars
    PROVE  PlanInv' /\ PlanMoves
<1>1. CASE UNCHANGED <<plan, proposal>>
  BY <1>1 DEF Sound, PlanInv, PlanMoves, OneActive
<1>2. CASE \E patch \in BOOLEAN : \E heard \in SUBSET DOMAIN wakeup : cmdPropose(patch, heard)
  BY <1>2, ProposePlan
<1>3. CASE \E i \in DOMAIN proposal :
             \/ cmdReviseWorkflow(i) \/ cmdApproveWorkflowProposal(i) \/ cmdRejectWorkflowProposal(i)
  BY <1>3, DecidePlan
<1>4. CASE cmdCommitWorkflow
  BY <1>1, <1>4, CommitCases, CommitPlan
<1>5. CASE \/ \E i \in DOMAIN proposal : SubmitCommit(i)
           \/ \E kind \in WakeupKind : Observe(kind)
           \/ \E w \in DOMAIN wakeup : cmdAcknowledgeWorkflowWakeup(w)
           \/ cmdRecordWorkflowWakeup \/ cmdNotifyWorkflowWakeup \/ drainWorkflowWakeups
           \/ MasterFinishes \/ ReviveMaster \/ FreezeMaster \/ suspendWakeupDrain \/ Reload
           \/ UNCHANGED governanceVars
  BY <1>1, <1>5 DEF SubmitCommit, Observe, cmdAcknowledgeWorkflowWakeup, cmdRecordWorkflowWakeup,
     cmdNotifyWorkflowWakeup, NotifyIdle, NotifyLate, NotifyStarts, NotifyExhausted, NotifyFrozen,
     drainWorkflowWakeups, MasterFinishes, ReviveMaster, FreezeMaster, suspendWakeupDrain, Reload, governanceVars
<1> QED BY <1>2, <1>3, <1>4, <1>5 DEF GovernanceNext

-----------------------------------------------------------------------------
(* Wakeups.                                                                *)

(* The occurrences of a wakeup are the events it has taken in.             *)
Counted(x) == IsFiniteSet(x.sources) /\ x.occurrences = Cardinality(x.sources)

(* What a step may do to a wakeup.                                         *)
MovesTo(x, y) ==
    /\ y.version = x.version /\ x.sources \subseteq y.sources /\ (Counted(x) => Counted(y))
    /\ y.status \in {"pending", "notified"} => x.status \in {"pending", "notified"}
    /\ y.status = "pending" => x.status = "pending" \/ y.interrupted
    /\ (x.interrupted => y.interrupted) /\ (x.exhausted => y.exhausted)

(* A step that changes only the marks of a wakeup.                         *)
LEMMA MarksMove ==
    ASSUME NEW x \in WakeupRecord,
           NEW status \in {"acknowledged", "superseded", "notified", x.status},
           status = "notified" => x.status = "pending"  \/ x.status = "notified"
    PROVE  MovesTo(x, x) /\ MovesTo(x, [x EXCEPT !.status = status])
<1> DEFINE y == [x EXCEPT !.status = status]
<1>1. /\ y.version = x.version /\ y.sources = x.sources /\ y.occurrences = x.occurrences
      /\ y.status = status /\ y.interrupted = x.interrupted /\ y.exhausted = x.exhausted
  BY DEF WakeupRecord
<1>2. x.status \in {"pending", "notified", "acknowledged", "superseded"}
  BY DEF WakeupRecord
<1> HIDE DEF y
<1>3. MovesTo(x, y)
  BY <1>1, <1>2 DEF MovesTo, Counted
<1> QED BY <1>3 DEF y, MovesTo

(* Wakeups stay where they are, and a new one is about the active version. *)
WakeMoves ==
    /\ DOMAIN wakeup \subseteq DOMAIN wakeup'
    /\ \A w \in DOMAIN wakeup : MovesTo(wakeup[w], wakeup'[w])
    /\ \A w \in DOMAIN wakeup' \ DOMAIN wakeup :
          /\ wakeup'[w].version \in DOMAIN plan /\ plan[wakeup'[w].version] = "active"
          /\ plan' = plan /\ Counted(wakeup'[w])
          /\ \A n \in Nat : NotifyKey(w, n) \in ledgered' => NotifyKey(w, n) \in ledgered

(* Every event is about a version that has been active.                    *)
ObservedInv ==
    \A e \in DOMAIN observed :
        observed[e].version \in DOMAIN plan /\ plan[observed[e].version] \in Settled

(* The keys of the ledger differ.                                          *)
LEMMA KeysUsed ==
    ASSUME NEW e, NEW v, NEW w, NEW n
    PROVE  /\ RecordKey(e, v) # NotifyKey(w, n)
           /\ \A d, u : RecordKey(e, v) = RecordKey(d, u) => d = e /\ u = v
           /\ \A d, u : NotifyKey(w, n) = NotifyKey(d, u) => d = w /\ u = n
BY DEF RecordKey, NotifyKey

(* What recording an event does.                                           *)
LEMMA RecordCases ==
    ASSUME Sound, ObservedInv, cmdRecordWorkflowWakeup
    PROVE  \E e \in DOMAIN observed : \E v \in DOMAIN plan :
             /\ e = pile[1].of /\ v = observed[e].version
             /\ \/ (RecordKey(e, v) \in ledgered \/ plan[v] # "active") /\ UNCHANGED <<wakeup, ledgered>>
                \/ /\ plan[v] = "active" /\ ledgered' = ledgered \cup {RecordKey(e, v)}
                   /\ \/ wakeup' = Append(wakeup, Fresh(e, v))
                      \/ \E w \in DOMAIN wakeup :
                           /\ wakeup[w].version = v /\ wakeup[w].status = "pending"
                           /\ wakeup' = [wakeup EXCEPT ![w].sources = @ \cup {e},
                                  ![w].occurrences = @ + (IF e \in wakeup[w].sources THEN 0 ELSE 1)]
<1> DEFINE e == Head(pile).of
           v == Head(pile).at
<1>1. /\ e = pile[1].of /\ e \in DOMAIN observed /\ v = observed[e].version
  BY RunsFirst DEF Sound, PileInv, cmdRecordWorkflowWakeup
<1>2. v \in DOMAIN plan
  BY <1>1 DEF ObservedInv
<1>3. \/ (RecordKey(e, v) \in ledgered \/ plan[v] # "active") /\ UNCHANGED <<wakeup, ledgered>>
      \/ /\ plan[v] = "active" /\ ledgered' = ledgered \cup {RecordKey(e, v)}
         /\ \/ wakeup' = Append(wakeup, Fresh(e, v))
            \/ \E w \in DOMAIN wakeup :
                 /\ wakeup[w].version = v /\ wakeup[w].status = "pending"
                 /\ wakeup' = [wakeup EXCEPT ![w].sources = @ \cup {e},
                        ![w].occurrences = @ + (IF e \in wakeup[w].sources THEN 0 ELSE 1)]
  BY DEF cmdRecordWorkflowWakeup
<1> HIDE DEF e, v
<1> QED BY <1>1, <1>2, <1>3

(* An event that is taken in is counted once.                              *)
LEMMA TakesIn ==
    ASSUME NEW x \in WakeupRecord, NEW e
    PROVE  LET y == [x EXCEPT !.sources = @ \cup {e},
                              !.occurrences = @ + (IF e \in x.sources THEN 0 ELSE 1)]
           IN  MovesTo(x, y) /\ e \in y.sources /\ y.version = x.version
<1> DEFINE y == [x EXCEPT !.sources = @ \cup {e},
                          !.occurrences = @ + (IF e \in x.sources THEN 0 ELSE 1)]
<1>1. /\ y.version = x.version /\ y.sources = x.sources \cup {e}
      /\ y.occurrences = x.occurrences + (IF e \in x.sources THEN 0 ELSE 1)
      /\ y.status = x.status /\ y.interrupted = x.interrupted /\ y.exhausted = x.exhausted
  BY DEF WakeupRecord
<1> HIDE DEF y
<1>2. Counted(x) => Counted(y)
  <2>1. CASE e \in x.sources
    <3>1. y.sources = x.sources /\ y.occurrences = x.occurrences + 0 /\ x.occurrences \in Nat
      BY <1>1, <2>1 DEF WakeupRecord
    <3> QED BY <3>1 DEF Counted
  <2>2. CASE e \notin x.sources
    <3>1. ASSUME IsFiniteSet(x.sources)
          PROVE  IsFiniteSet(x.sources \cup {e}) /\ Cardinality(x.sources \cup {e}) = Cardinality(x.sources) + 1
      BY <2>2, <3>1, FS_AddElement
    <3> QED BY <1>1, <2>2, <3>1 DEF Counted
  <2> QED BY <2>1, <2>2
<1>3. MovesTo(x, y)
  BY <1>1, <1>2 DEF MovesTo
<1> QED BY <1>1, <1>3 DEF y

LEMMA RecordMoves ==
    ASSUME Sound, ObservedInv, cmdRecordWorkflowWakeup
    PROVE  WakeMoves
<1>1. PICK e \in DOMAIN observed, v \in DOMAIN plan :
        \/ UNCHANGED <<wakeup, ledgered>>
        \/ /\ plan[v] = "active" /\ ledgered' = ledgered \cup {RecordKey(e, v)}
           /\ \/ wakeup' = Append(wakeup, Fresh(e, v))
              \/ \E w \in DOMAIN wakeup :
                   wakeup' = [wakeup EXCEPT ![w].sources = @ \cup {e},
                         ![w].occurrences = @ + (IF e \in wakeup[w].sources THEN 0 ELSE 1)]
  BY RecordCases
<1>2. wakeup \in Seq(WakeupRecord) /\ \A w \in DOMAIN wakeup : wakeup[w] \in WakeupRecord
  BY DEF Sound, Shape
<1>3. \A w \in DOMAIN wakeup : MovesTo(wakeup[w], wakeup[w])
  BY <1>2, MarksMove
<1>4. plan' = plan
  BY DEF cmdRecordWorkflowWakeup
<1>5. CASE UNCHANGED <<wakeup, ledgered>>
  BY <1>3, <1>5 DEF WakeMoves
<1>6. CASE plan[v] = "active" /\ ledgered' = ledgered \cup {RecordKey(e, v)} /\ wakeup' = Append(wakeup, Fresh(e, v))
  <2> DEFINE n == Len(wakeup) + 1
  <2>1. /\ DOMAIN wakeup' = DOMAIN wakeup \cup {n} /\ wakeup'[n] = Fresh(e, v)
        /\ \A w \in DOMAIN wakeup : wakeup'[w] = wakeup[w]
    BY <1>2, <1>6
  <2>2. wakeup'[n].version = v /\ wakeup'[n].sources = {e} /\ wakeup'[n].occurrences = 1
    BY <2>1 DEF Fresh
  <2>3. Counted(wakeup'[n])
    BY <2>2, FS_Singleton DEF Counted
  <2>4. \A k \in Nat : NotifyKey(n, k) \in ledgered' => NotifyKey(n, k) \in ledgered
    BY <1>6, KeysUsed
  <2> HIDE DEF n
  <2> QED BY <1>3, <1>4, <1>6, <2>1, <2>2, <2>3, <2>4 DEF WakeMoves
<1>7. ASSUME NEW w \in DOMAIN wakeup,
             wakeup' = [wakeup EXCEPT ![w].sources = @ \cup {e},
                    ![w].occurrences = @ + (IF e \in wakeup[w].sources THEN 0 ELSE 1)]
      PROVE  WakeMoves
  <2> DEFINE y == [wakeup[w] EXCEPT !.sources = @ \cup {e},
                       !.occurrences = @ + (IF e \in wakeup[w].sources THEN 0 ELSE 1)]
  <2>1. wakeup' = [wakeup EXCEPT ![w] = y]
    BY <1>2, <1>7
  <2>2. MovesTo(wakeup[w], y)
    BY <1>2, TakesIn
  <2> HIDE DEF y
  <2>3. DOMAIN wakeup' = DOMAIN wakeup /\ \A u \in DOMAIN wakeup : MovesTo(wakeup[u], wakeup'[u])
    BY <1>2, <1>3, <2>1, <2>2
  <2> QED BY <2>3 DEF WakeMoves
<1> QED BY <1>1, <1>5, <1>6, <1>7

(* What a notification does to its wakeup and to the ledger.               *)
LEMMA NotifyCases ==
    ASSUME Sound, cmdNotifyWorkflowWakeup
    PROVE  \E w \in DOMAIN wakeup : \E n \in Nat :
             \/ UNCHANGED <<wakeup, ledgered>>
             \/ /\ ledgered' = ledgered \cup {NotifyKey(w, n)}
                /\ \/ wakeup[w].status # "pending" /\ wakeup' = wakeup
                   \/ /\ wakeup[w].status = "pending"
                      /\ wakeup' = [wakeup EXCEPT ![w].status = "notified"]
                   \/ wakeup' = [wakeup EXCEPT ![w].exhausted = TRUE]
<1>1. PICK w \in DOMAIN wakeup, n \in 1 .. MaxObserved :
        \/ NotifyIdle(w, NotifyKey(w, n)) \/ NotifyLate(w, NotifyKey(w, n))
        \/ NotifyStarts(w, NotifyKey(w, n)) \/ NotifyExhausted(w, NotifyKey(w, n))
        \/ NotifyFrozen(w, NotifyKey(w, n))
  BY DEF cmdNotifyWorkflowWakeup
<1>2. n \in Nat
  BY GovernanceAssumption
<1>3. \/ UNCHANGED <<wakeup, ledgered>>
      \/ /\ ledgered' = ledgered \cup {NotifyKey(w, n)}
         /\ \/ wakeup[w].status # "pending" /\ wakeup' = wakeup
            \/ wakeup[w].status = "pending" /\ wakeup' = [wakeup EXCEPT ![w].status = "notified"]
            \/ wakeup' = [wakeup EXCEPT ![w].exhausted = TRUE]
  BY <1>1 DEF NotifyIdle, NotifyLate, NotifyStarts, NotifyExhausted, NotifyFrozen, Notifiable
<1> QED BY <1>2, <1>3

(* One wakeup changes its marks.                                           *)
LEMMA OneMoves ==
    ASSUME Shape, NEW w \in DOMAIN wakeup, NEW y, MovesTo(wakeup[w], y), wakeup' = [wakeup EXCEPT ![w] = y]
    PROVE  WakeMoves
<1>1. wakeup \in Seq(WakeupRecord) /\ \A u \in DOMAIN wakeup : wakeup[u] \in WakeupRecord
  BY DEF Shape
<1>2. \A u \in DOMAIN wakeup : MovesTo(wakeup[u], wakeup[u])
  BY <1>1, MarksMove
<1>3. DOMAIN wakeup' = DOMAIN wakeup /\ \A u \in DOMAIN wakeup : MovesTo(wakeup[u], wakeup'[u])
  BY <1>1, <1>2
<1> QED BY <1>3 DEF WakeMoves

LEMMA NoneMoves ==
    ASSUME Shape, UNCHANGED wakeup
    PROVE  WakeMoves
<1>1. \A u \in DOMAIN wakeup : wakeup[u] \in WakeupRecord
  BY DEF Shape
<1>2. \A u \in DOMAIN wakeup : MovesTo(wakeup[u], wakeup[u])
  BY <1>1, MarksMove
<1> QED BY <1>2 DEF WakeMoves

LEMMA NotifyMoves ==
    ASSUME Sound, cmdNotifyWorkflowWakeup
    PROVE  WakeMoves
<1>1. PICK w \in DOMAIN wakeup, n \in Nat :
        \/ UNCHANGED wakeup
        \/ /\ wakeup[w].status = "pending"
           /\ wakeup' = [wakeup EXCEPT ![w].status = "notified"]
        \/ wakeup' = [wakeup EXCEPT ![w].exhausted = TRUE]
  BY NotifyCases
<1>2. wakeup[w] \in WakeupRecord
  BY DEF Sound, Shape
<1>3. CASE UNCHANGED wakeup
  BY <1>3, NoneMoves DEF Sound
<1>4. CASE wakeup[w].status = "pending" /\ wakeup' = [wakeup EXCEPT ![w].status = "notified"]
  <2> DEFINE y == [wakeup[w] EXCEPT !.status = "notified"]
  <2>1. MovesTo(wakeup[w], y)
    BY <1>2, <1>4, MarksMove
  <2>2. wakeup' = [wakeup EXCEPT ![w] = y]
    BY <1>4 DEF Sound, Shape
  <2> HIDE DEF y
  <2> QED BY <2>1, <2>2, OneMoves DEF Sound
<1>5. CASE wakeup' = [wakeup EXCEPT ![w].exhausted = TRUE]
  <2> DEFINE y == [wakeup[w] EXCEPT !.exhausted = TRUE]
  <2>1. /\ y.version = wakeup[w].version /\ y.sources = wakeup[w].sources
        /\ y.occurrences = wakeup[w].occurrences /\ y.status = wakeup[w].status
        /\ y.interrupted = wakeup[w].interrupted /\ y.exhausted
    BY <1>2 DEF WakeupRecord
  <2>2. wakeup' = [wakeup EXCEPT ![w] = y]
    BY <1>5 DEF Sound, Shape
  <2> HIDE DEF y
  <2>3. MovesTo(wakeup[w], y)
    BY <2>1 DEF MovesTo, Counted
  <2> QED BY <2>2, <2>3, OneMoves DEF Sound
<1> QED BY <1>1, <1>3, <1>4, <1>5

LEMMA AcknowledgeMoves ==
    ASSUME Sound, NEW w \in DOMAIN wakeup, cmdAcknowledgeWorkflowWakeup(w)
    PROVE  WakeMoves
<1> DEFINE y == [wakeup[w] EXCEPT !.status = "acknowledged"]
<1>1. wakeup[w] \in WakeupRecord
  BY DEF Sound, Shape
<1>2. MovesTo(wakeup[w], y)
  BY <1>1, MarksMove
<1>3. wakeup' = [wakeup EXCEPT ![w] = y]
  BY DEF cmdAcknowledgeWorkflowWakeup, Sound, Shape
<1> HIDE DEF y
<1> QED BY <1>2, <1>3, OneMoves DEF Sound

LEMMA CommitMoves ==
    ASSUME Sound, NEW i, CommitHappens(i)
    PROVE  WakeMoves
<1>1. CASE ~ proposal[i].patch
  BY <1>1, NoneMoves DEF CommitHappens, Sound
<1>2. CASE proposal[i].patch
  <2>1. wakeup' = AfterPatch(proposal[i])
    BY <1>2 DEF CommitHappens
  <2>2. ASSUME NEW w \in DOMAIN wakeup
        PROVE  MovesTo(wakeup[w], wakeup'[w])
    <3>1. PICK status \in {"acknowledged", "superseded", wakeup[w].status} :
            AfterPatch(proposal[i])[w] = [wakeup[w] EXCEPT !.status = status]
      BY AfterPatchWakeups DEF Sound
    <3>2. wakeup[w] \in WakeupRecord
      BY DEF Sound, Shape
    <3>3. MovesTo(wakeup[w], AfterPatch(proposal[i])[w])
      BY <3>1, <3>2, MarksMove
    <3> QED BY <2>1, <3>3
  <2>3. DOMAIN wakeup' = DOMAIN wakeup
    BY <2>1, AfterPatchWakeups DEF Sound
  <2> QED BY <2>2, <2>3 DEF WakeMoves
<1> QED BY <1>1, <1>2

LEMMA ReloadMoves ==
    ASSUME Sound, Reload
    PROVE  WakeMoves
<1>1. DOMAIN wakeup' = DOMAIN wakeup /\ \A w \in DOMAIN wakeup : wakeup'[w] = Interrupted(w)
  BY ReloadWakeups
<1>2. ASSUME NEW w \in DOMAIN wakeup
      PROVE  MovesTo(wakeup[w], Interrupted(w))
  <2> DEFINE y == [wakeup[w] EXCEPT !.status = "pending", !.interrupted = TRUE]
  <2>1. wakeup[w] \in WakeupRecord
    BY DEF Sound, Shape
  <2>2. CASE ~ (master = "running" /\ wakeup[w].status = "notified")
    BY <2>1, <2>2, MarksMove DEF Interrupted
  <2>3. CASE wakeup[w].status = "notified" /\ Interrupted(w) = y
    <3>1. /\ y.version = wakeup[w].version /\ y.sources = wakeup[w].sources
          /\ y.occurrences = wakeup[w].occurrences /\ y.status = "pending"
          /\ y.interrupted /\ y.exhausted = wakeup[w].exhausted
      BY <2>1 DEF WakeupRecord
    <3> HIDE DEF y
    <3>2. MovesTo(wakeup[w], y)
      BY <2>3, <3>1 DEF MovesTo, Counted
    <3> QED BY <2>3, <3>2
  <2> QED BY <2>2, <2>3 DEF Interrupted
<1> QED BY <1>1, <1>2 DEF WakeMoves

(* Every step moves wakeups as it may.                                     *)
LEMMA WakeStep ==
    ASSUME Sound, ObservedInv, [GovernanceNext]_governanceVars
    PROVE  WakeMoves
<1>1. CASE \E w \in DOMAIN wakeup : cmdAcknowledgeWorkflowWakeup(w)
  BY <1>1, AcknowledgeMoves
<1>2. CASE cmdCommitWorkflow
  BY <1>2, CommitCases, CommitMoves, NoneMoves DEF Sound
<1>3. CASE cmdRecordWorkflowWakeup \/ cmdNotifyWorkflowWakeup \/ Reload
  BY <1>3, RecordMoves, NotifyMoves, ReloadMoves
<1>4. CASE \/ \E patch \in BOOLEAN : \E heard \in SUBSET DOMAIN wakeup : cmdPropose(patch, heard)
           \/ \E i \in DOMAIN proposal : \/ cmdReviseWorkflow(i) \/ cmdApproveWorkflowProposal(i)
                                         \/ cmdRejectWorkflowProposal(i) \/ SubmitCommit(i)
           \/ \E kind \in WakeupKind : Observe(kind)
           \/ drainWorkflowWakeups
           \/ MasterFinishes \/ ReviveMaster \/ FreezeMaster \/ suspendWakeupDrain
           \/ UNCHANGED governanceVars
  <2>1. UNCHANGED wakeup
    BY <1>4 DEF cmdPropose, cmdReviseWorkflow, cmdApproveWorkflowProposal, cmdRejectWorkflowProposal,
       ProposalOnly, SubmitCommit, Observe, drainWorkflowWakeups, MasterFinishes, ReviveMaster,
       FreezeMaster, suspendWakeupDrain, governanceVars
  <2> QED BY <2>1, NoneMoves DEF Sound
<1> QED BY <1>1, <1>2, <1>3, <1>4 DEF GovernanceNext

-----------------------------------------------------------------------------
(* The ledger.                                                             *)

(* A wakeup is pending with a notification on record only if that was cut  *)
(* off or refused; no notification of a later wakeup is on record.         *)
NotifyInv ==
    \A w, n \in Nat : NotifyKey(w, n) \in ledgered =>
        /\ w \in DOMAIN wakeup
        /\ wakeup[w].status = "pending" => wakeup[w].interrupted \/ wakeup[w].exhausted

(* A recorded event is in a wakeup.                                        *)
InWakeup(e, v) == \E w \in DOMAIN wakeup : e \in wakeup[w].sources /\ wakeup[w].version = v
RecordInv == \A e \in Nat : \A v \in Nat : RecordKey(e, v) \in ledgered => InWakeup(e, v)

(* Only recording and notifying write to the ledger.                       *)
LEMMA LedgerSteps ==
    ASSUME [GovernanceNext]_governanceVars, ~ cmdRecordWorkflowWakeup, ~ cmdNotifyWorkflowWakeup
    PROVE  ledgered' = ledgered
BY DEF GovernanceNext, cmdPropose, cmdReviseWorkflow, cmdApproveWorkflowProposal, cmdRejectWorkflowProposal,
   ProposalOnly, SubmitCommit, Observe, cmdAcknowledgeWorkflowWakeup, cmdCommitWorkflow,
   drainWorkflowWakeups, MasterFinishes, ReviveMaster, FreezeMaster, suspendWakeupDrain, Reload, governanceVars

LEMMA NotifyInvStep ==
    ASSUME Sound, ObservedInv, NotifyInv, [GovernanceNext]_governanceVars
    PROVE  NotifyInv'
<1> SUFFICES ASSUME NEW w \in Nat, NEW n \in Nat, NotifyKey(w, n) \in ledgered'
             PROVE  /\ w \in DOMAIN wakeup'
                    /\ wakeup'[w].status = "pending" => wakeup'[w].interrupted \/ wakeup'[w].exhausted
  BY DEF NotifyInv
<1>1. WakeMoves
  BY WakeStep
<1>2. CASE NotifyKey(w, n) \in ledgered
  <2>1. /\ w \in DOMAIN wakeup /\ w \in DOMAIN wakeup' /\ MovesTo(wakeup[w], wakeup'[w])
        /\ wakeup[w].status = "pending" => wakeup[w].interrupted \/ wakeup[w].exhausted
    BY <1>1, <1>2 DEF WakeMoves, NotifyInv
  <2> QED BY <2>1 DEF MovesTo
<1>3. CASE NotifyKey(w, n) \notin ledgered
  <2>1. ~ cmdRecordWorkflowWakeup
    <3>1. SUFFICES ASSUME cmdRecordWorkflowWakeup PROVE FALSE
      OBVIOUS
    <3>2. ledgered' = ledgered \/ \E e, v : ledgered' = ledgered \cup {RecordKey(e, v)}
      BY <3>1, RecordCases
    <3> QED BY <1>3, <3>2, KeysUsed
  <2>2. cmdNotifyWorkflowWakeup
    BY <1>3, <2>1, LedgerSteps
  <2>3. PICK u \in DOMAIN wakeup, m \in Nat :
          /\ ledgered' = ledgered \cup {NotifyKey(u, m)}
          /\ \/ wakeup[u].status # "pending" /\ wakeup' = wakeup
             \/ wakeup' = [wakeup EXCEPT ![u].status = "notified"]
             \/ wakeup' = [wakeup EXCEPT ![u].exhausted = TRUE]
    BY <1>3, <2>2, NotifyCases
  <2>4. w = u
    BY <1>3, <2>3, KeysUsed
  <2>5. wakeup[u] \in WakeupRecord /\ w \in DOMAIN wakeup'
    BY <1>1, <2>3, <2>4 DEF WakeMoves, Sound, Shape
  <2>6. wakeup' = [wakeup EXCEPT ![u].status = "notified"] => wakeup'[u].status = "notified"
    BY <2>5 DEF WakeupRecord
  <2>7. wakeup' = [wakeup EXCEPT ![u].exhausted = TRUE] => wakeup'[u].exhausted
    BY <2>5 DEF WakeupRecord
  <2> QED BY <2>3, <2>4, <2>5, <2>6, <2>7
<1> QED BY <1>2, <1>3

LEMMA InWakeupStays ==
    ASSUME WakeMoves, NEW e, NEW v, InWakeup(e, v)
    PROVE  InWakeup(e, v)'
BY DEF WakeMoves, MovesTo, InWakeup

LEMMA RecordInvStep ==
    ASSUME Sound, ObservedInv, RecordInv, [GovernanceNext]_governanceVars
    PROVE  RecordInv'
<1> SUFFICES ASSUME NEW e \in Nat, NEW v \in Nat, RecordKey(e, v) \in ledgered'
             PROVE  InWakeup(e, v)'
  BY DEF RecordInv
<1>1. WakeMoves
  BY WakeStep
<1>2. CASE RecordKey(e, v) \in ledgered
  BY <1>1, <1>2, InWakeupStays DEF RecordInv
<1>3. CASE RecordKey(e, v) \notin ledgered
  <2>1. ~ cmdNotifyWorkflowWakeup
    <3>1. SUFFICES ASSUME cmdNotifyWorkflowWakeup PROVE FALSE
      OBVIOUS
    <3>2. ledgered' = ledgered \/ \E w, n : ledgered' = ledgered \cup {NotifyKey(w, n)}
      BY <3>1, NotifyCases
    <3> QED BY <1>3, <3>2, KeysUsed
  <2>2. cmdRecordWorkflowWakeup
    BY <1>3, <2>1, LedgerSteps
  <2>3. RecordKey(e, v) \in ledgered' /\ ledgered' # ledgered
    BY <1>3
  <2>4. PICK d \in DOMAIN observed, u \in DOMAIN plan :
          /\ ledgered' = ledgered \cup {RecordKey(d, u)}
          /\ \/ wakeup' = Append(wakeup, Fresh(d, u))
             \/ \E w \in DOMAIN wakeup :
                  /\ wakeup[w].version = u
                  /\ wakeup' = [wakeup EXCEPT ![w].sources = @ \cup {d},
                         ![w].occurrences = @ + (IF d \in wakeup[w].sources THEN 0 ELSE 1)]
    BY <2>2, <2>3, RecordCases
  <2>5. d = e /\ u = v
    <3>1. ledgered' = ledgered \cup {RecordKey(d, u)}
      BY <2>4
    <3>2. RecordKey(e, v) = RecordKey(d, u)
      BY <1>3, <3>1
    <3> QED BY <3>2, KeysUsed
  <2>6. wakeup \in Seq(WakeupRecord) /\ \A w \in DOMAIN wakeup : wakeup[w] \in WakeupRecord
    BY DEF Sound, Shape
  <2>7. CASE wakeup' = Append(wakeup, Fresh(d, u))
    <3>1. Len(wakeup) + 1 \in DOMAIN wakeup' /\ wakeup'[Len(wakeup) + 1] = Fresh(d, u)
      BY <2>6, <2>7
    <3>2. Fresh(d, u).sources = {d} /\ Fresh(d, u).version = u
      BY DEF Fresh
    <3> QED BY <2>5, <3>1, <3>2 DEF InWakeup
  <2>8. ASSUME NEW w \in DOMAIN wakeup, wakeup[w].version = u,
               wakeup' = [wakeup EXCEPT ![w].sources = @ \cup {d},
                      ![w].occurrences = @ + (IF d \in wakeup[w].sources THEN 0 ELSE 1)]
        PROVE  InWakeup(e, v)'
    <3> DEFINE y == [wakeup[w] EXCEPT !.sources = @ \cup {d},
                         !.occurrences = @ + (IF d \in wakeup[w].sources THEN 0 ELSE 1)]
    <3>1. wakeup' = [wakeup EXCEPT ![w] = y]
      BY <2>6, <2>8
    <3>2. d \in y.sources /\ y.version = u
      <4>1. wakeup[w] \in WakeupRecord
        BY <2>6
      <4>2. d \in y.sources /\ y.version = wakeup[w].version
        BY <4>1 DEF WakeupRecord
      <4> QED BY <2>8, <4>2
    <3> HIDE DEF y
    <3>3. w \in DOMAIN wakeup' /\ wakeup'[w] = y
      BY <2>6, <3>1
    <3> QED BY <2>5, <3>2, <3>3 DEF InWakeup
  <2> QED BY <2>4, <2>7, <2>8
<1> QED BY <1>2, <1>3

-----------------------------------------------------------------------------
(* Events and the commands that wait.                                      *)

(* Events stay in the log.                                                 *)
LEMMA ObservedSteps ==
    ASSUME Sound, [GovernanceNext]_governanceVars
    PROVE  \/ observed' = observed
           \/ \E kind \in WakeupKind : Observe(kind)
BY DEF GovernanceNext, cmdPropose, cmdReviseWorkflow, cmdApproveWorkflowProposal, cmdRejectWorkflowProposal,
   ProposalOnly, SubmitCommit, cmdAcknowledgeWorkflowWakeup, cmdCommitWorkflow, cmdRecordWorkflowWakeup,
   cmdNotifyWorkflowWakeup, NotifyIdle, NotifyLate, NotifyStarts, NotifyExhausted, NotifyFrozen,
   drainWorkflowWakeups, MasterFinishes, ReviveMaster, FreezeMaster, suspendWakeupDrain, Reload, governanceVars

LEMMA ObserveCases ==
    ASSUME Sound, NEW kind \in WakeupKind, Observe(kind)
    PROVE  LET n == Len(observed) + 1
               k == Len(pile) + 1 IN
           /\ DOMAIN observed' = DOMAIN observed \cup {n} /\ observed'[n].version = activeWorkflowPlan
           /\ \A e \in DOMAIN observed : observed'[e] = observed[e]
           /\ activeWorkflowPlan \in DOMAIN plan /\ plan[activeWorkflowPlan] = "active"
           /\ UNCHANGED <<plan, proposal, wakeup, ledgered>>
           /\ DOMAIN pile' = DOMAIN pile \cup {k}
           /\ \A c \in DOMAIN pile : pile'[c] = pile[c]
           /\ pile'[k].kind = "record" /\ pile'[k].of = n /\ pile'[k].at = activeWorkflowPlan
<1>1. observed \in Seq(Event) /\ pile \in Seq(Waiting)
  BY DEF Sound, Shape
<1>2. /\ observed' = Append(observed, [kind |-> kind, version |-> activeWorkflowPlan])
      /\ pile' = Append(pile, [kind |-> "record", of |-> Len(observed) + 1, at |-> activeWorkflowPlan])
      /\ activeWorkflowPlan # 0
      /\ UNCHANGED <<plan, proposal, wakeup, ledgered>>
  BY DEF Observe, Piles
<1>3. activeWorkflowPlan \in DOMAIN plan /\ plan[activeWorkflowPlan] = "active"
  BY <1>2, ActivePlan DEF Sound, Shape, PlanInv
<1> QED BY <1>1, <1>2, <1>3

(* Where the waiting commands of the next state come from.                 *)
LEMMA PileSteps ==
    ASSUME Sound, [GovernanceNext]_governanceVars
    PROVE  \/ pile' = pile
           \/ \E c \in Waiting : /\ pile' = Append(pile, c)
                                 /\ \/ c.kind = "notify"
                                    \/ c.kind = "commit" /\ c.of \in DOMAIN proposal
           \/ \E kind \in WakeupKind : Observe(kind)
           \/ Runs("commit") \/ cmdRecordWorkflowWakeup \/ Runs("notify")
           \/ Reload
<1>1. CASE \E i \in DOMAIN proposal : SubmitCommit(i)
  <2>1. PICK i \in DOMAIN proposal : SubmitCommit(i)
    BY <1>1
  <2>2. i \in Nat
    BY DEF Sound, Shape
  <2>3. [kind |-> "commit", of |-> i, at |-> 0] \in Waiting
    BY <2>2 DEF Waiting
  <2> QED BY <2>1, <2>3 DEF SubmitCommit, Piles
<1>2. CASE drainWorkflowWakeups
  <2>1. CASE UNCHANGED pile
    BY <2>1
  <2>2. ASSUME NEW w \in DOMAIN wakeup,
               Piles([kind |-> "notify", of |-> w, at |-> wakeup[w].occurrences])
        PROVE  \E c \in Waiting : pile' = Append(pile, c) /\ c.kind = "notify"
    <3>1. w \in Nat /\ wakeup[w] \in WakeupRecord
      BY DEF Sound, Shape
    <3>2. [kind |-> "notify", of |-> w, at |-> wakeup[w].occurrences] \in Waiting
      BY <3>1 DEF Waiting, WakeupRecord
    <3> QED BY <2>2, <3>2 DEF Piles
  <2> QED BY <1>2, <2>1, <2>2 DEF drainWorkflowWakeups
<1>3. CASE cmdCommitWorkflow \/ cmdNotifyWorkflowWakeup
  BY <1>3 DEF cmdCommitWorkflow, cmdNotifyWorkflowWakeup, NotifyIdle, NotifyLate, NotifyStarts,
     NotifyExhausted, NotifyFrozen, Notifiable, NotifyRuns
<1>4. CASE \/ \E patch \in BOOLEAN : \E heard \in SUBSET DOMAIN wakeup : cmdPropose(patch, heard)
           \/ \E i \in DOMAIN proposal : \/ cmdReviseWorkflow(i) \/ cmdApproveWorkflowProposal(i)
                                         \/ cmdRejectWorkflowProposal(i)
           \/ \E w \in DOMAIN wakeup : cmdAcknowledgeWorkflowWakeup(w)
           \/ MasterFinishes \/ ReviveMaster \/ FreezeMaster \/ suspendWakeupDrain
           \/ UNCHANGED governanceVars
  BY <1>4 DEF cmdPropose, cmdReviseWorkflow, cmdApproveWorkflowProposal, cmdRejectWorkflowProposal,
     ProposalOnly, cmdAcknowledgeWorkflowWakeup, MasterFinishes, ReviveMaster, FreezeMaster,
     suspendWakeupDrain, governanceVars
<1> QED BY <1>1, <1>2, <1>3, <1>4 DEF GovernanceNext

LEMMA PileStep ==
    ASSUME Sound, [GovernanceNext]_governanceVars
    PROVE  PileInv'
<1>1. DOMAIN proposal \subseteq DOMAIN proposal'
  BY PlanStep DEF PlanMoves
<1>2. /\ DOMAIN observed \subseteq DOMAIN observed'
      /\ \A e \in DOMAIN observed : observed'[e] = observed[e]
  BY ObservedSteps, ObserveCases
<1> DEFINE Good(c) == /\ c.kind = "commit" => c.of \in DOMAIN proposal'
                      /\ c.kind = "record" => /\ c.of \in DOMAIN observed'
                                              /\ c.at = observed'[c.of].version
<1>3. \A c \in DOMAIN pile : Good(pile[c])
  BY <1>1, <1>2 DEF Sound, PileInv
<1>4. pile \in Seq(Waiting)
  BY DEF Sound, Shape
<1>5. SUFFICES \A c \in DOMAIN pile' : Good(pile'[c])
  BY DEF PileInv
<1> HIDE DEF Good
<1>6. CASE pile' = pile
  BY <1>3, <1>6
<1>7. ASSUME NEW x \in Waiting, pile' = Append(pile, x),
             x.kind = "notify" \/ (x.kind = "commit" /\ x.of \in DOMAIN proposal)
      PROVE  \A c \in DOMAIN pile' : Good(pile'[c])
  <2>1. Good(x)
    BY <1>1, <1>7 DEF Good
  <2> QED BY <1>3, <1>4, <1>7, <2>1
<1>8. ASSUME NEW kind \in WakeupKind, Observe(kind)
      PROVE  \A c \in DOMAIN pile' : Good(pile'[c])
  <2> DEFINE k == Len(pile) + 1
  <2>1. DOMAIN pile' = DOMAIN pile \cup {k} /\ \A c \in DOMAIN pile : pile'[c] = pile[c]
    BY <1>8, ObserveCases
  <2>2. Good(pile'[k])
    BY <1>8, ObserveCases DEF Good
  <2> HIDE DEF k
  <2> QED BY <1>3, <2>1, <2>2
<1>9. CASE Runs("commit") \/ Runs("record") \/ Runs("notify")
  BY <1>3, <1>9, RunsFirst DEF Sound
<1>10. CASE Reload
  <2>1. observed' = observed
    BY <1>10 DEF Reload
  <2> QED BY <1>10, <2>1, Reread DEF Good
<1> QED BY <1>6, <1>7, <1>8, <1>9, <1>10, PileSteps DEF cmdRecordWorkflowWakeup

(* Every event stays about a version that has been active.                 *)
LEMMA ObservedStep ==
    ASSUME Sound, ObservedInv, [GovernanceNext]_governanceVars
    PROVE  ObservedInv'
<1>1. CASE observed' = observed
  BY <1>1, PlanStep DEF ObservedInv, PlanMoves
<1>2. ASSUME NEW kind \in WakeupKind, Observe(kind)
      PROVE  ObservedInv'
  BY <1>2, ObserveCases DEF ObservedInv, Settled
<1> QED BY <1>1, <1>2, ObservedSteps

-----------------------------------------------------------------------------
(* The properties.                                                         *)

(* A wakeup that the Master may be asked about stays about a version that  *)
(* is active or was replaced whole.                                        *)
LEMMA CurrentStep ==
    ASSUME Sound, ObservedInv, WakeupsCurrent, [GovernanceNext]_governanceVars,
           \A w \in DOMAIN wakeup : wakeup[w].version \in DOMAIN plan
    PROVE  WakeupsCurrent'
<1> SUFFICES ASSUME NEW w \in DOMAIN wakeup', wakeup'[w].status \in {"pending", "notified"}
             PROVE  \/ plan'[wakeup'[w].version] = "active"
                    \/ \E i \in DOMAIN proposal' : /\ proposal'[i].base = wakeup'[w].version
                                                   /\ proposal'[i].status = "committed"
                                                   /\ ~ proposal'[i].patch
  BY DEF WakeupsCurrent
<1>1. WakeMoves /\ PlanMoves
  BY WakeStep, PlanStep
<1>2. CASE w \notin DOMAIN wakeup
  BY <1>1, <1>2 DEF WakeMoves
<1>3. CASE w \in DOMAIN wakeup
  <2> DEFINE v == wakeup[w].version
  <2>1. /\ wakeup'[w].version = v /\ v \in DOMAIN plan
        /\ wakeup[w].status \in {"pending", "notified"}
    BY <1>1, <1>3 DEF WakeMoves, MovesTo
  <2>2. CASE \E i \in DOMAIN proposal : /\ proposal[i].base = v /\ proposal[i].status = "committed"
                                        /\ ~ proposal[i].patch
    BY <1>1, <2>1, <2>2 DEF PlanMoves
  <2>3. CASE plan[v] = "active" /\ plan'[v] # "active"
    <3>1. PICK i : CommitHappens(i) /\ proposal[i].base = v
      BY <1>1, <2>1, <2>3 DEF PlanMoves
    <3>2. proposal[i] \in ProposalRecord /\ i \in DOMAIN proposal
      BY <3>1 DEF CommitHappens, Sound, Shape
    <3>3. ~ proposal[i].patch
      <4>1. SUFFICES ASSUME proposal[i].patch PROVE FALSE
        BY <3>2 DEF ProposalRecord
      <4>2. wakeup' = AfterPatch(proposal[i])
        BY <3>1, <4>1 DEF CommitHappens
      <4>3. AfterPatch(proposal[i])[w].status \in {"pending", "notified"}
        BY <4>2
      <4>4. wakeup[w].version # proposal[i].base
        BY <1>3, <4>3, AfterPatchWakeups DEF Sound
      <4> QED BY <3>1, <4>4
    <3>4. /\ i \in DOMAIN proposal' /\ proposal'[i].base = v /\ ~ proposal'[i].patch
      BY <1>1, <3>1, <3>2, <3>3 DEF PlanMoves
    <3>5. proposal'[i].status = "committed"
      <4>1. proposal' = [proposal EXCEPT ![i].status = "committed"]
        BY <3>1 DEF CommitHappens
      <4> QED BY <3>2, <4>1 DEF ProposalRecord, Sound, Shape
    <3> QED BY <2>1, <3>4, <3>5
  <2>4. \/ plan[v] = "active"
        \/ \E i \in DOMAIN proposal : /\ proposal[i].base = v /\ proposal[i].status = "committed"
                                      /\ ~ proposal[i].patch
    BY <1>3, <2>1 DEF WakeupsCurrent
  <2> QED BY <2>1, <2>2, <2>3, <2>4
<1> QED BY <1>2, <1>3

(* An event about the active version is recorded, or its command waits.    *)
LEMMA UnheardStep ==
    ASSUME Sound, ObservedInv, RecordInv, NothingUnheard, [GovernanceNext]_governanceVars
    PROVE  NothingUnheard'
<1> SUFFICES ASSUME NEW e \in DOMAIN observed', plan'[observed'[e].version] = "active"
             PROVE  \/ InWakeup(e, observed[e].version)'
                    \/ \E c \in DOMAIN pile' : pile'[c].kind = "record" /\ pile'[c].of = e
  BY DEF NothingUnheard, InWakeup
<1>1. WakeMoves /\ PlanMoves
  BY WakeStep, PlanStep
<1>2. ASSUME NEW kind \in WakeupKind, Observe(kind)
      PROVE  \/ InWakeup(e, observed[e].version)'
             \/ \E c \in DOMAIN pile' : pile'[c].kind = "record" /\ pile'[c].of = e
  <2> DEFINE n == Len(observed) + 1
             k == Len(pile) + 1
  <2>1. /\ DOMAIN observed' = DOMAIN observed \cup {n}
        /\ \A d \in DOMAIN observed : observed'[d] = observed[d]
        /\ UNCHANGED <<plan, wakeup>>
        /\ DOMAIN pile' = DOMAIN pile \cup {k} /\ \A c \in DOMAIN pile : pile'[c] = pile[c]
        /\ pile'[k].kind = "record" /\ pile'[k].of = n
    BY <1>2, ObserveCases
  <2> HIDE DEF n, k
  <2> QED BY <2>1 DEF NothingUnheard, InWakeup
<1>3. CASE observed' = observed
  <2>0. PICK v \in DOMAIN plan : v = observed[e].version /\ plan[v] \in Settled
    BY <1>3 DEF ObservedInv
  <2>1. e \in DOMAIN observed /\ plan[v] = "active" /\ e \in Nat /\ v \in Nat
    <3>1. plan[v] \in {"active", "proposed"}
      BY <1>1, <1>3, <2>0 DEF PlanMoves
    <3> QED BY <1>3, <2>0, <3>1 DEF Settled, Sound, Shape
  <2>2. \/ InWakeup(e, v)
        \/ \E c \in DOMAIN pile : pile[c].kind = "record" /\ pile[c].of = e
    BY <2>0, <2>1 DEF NothingUnheard, InWakeup
  <2>3. ASSUME InWakeup(e, v)
        PROVE  InWakeup(e, v)'
    BY <1>1, <2>3, InWakeupStays
  <2>4. ASSUME NEW c \in DOMAIN pile, pile[c].kind = "record", pile[c].of = e
        PROVE  \/ InWakeup(e, v)'
               \/ \E d \in DOMAIN pile' : pile'[d].kind = "record" /\ pile'[d].of = e
    <3>1. CASE pile' = pile
      BY <2>4, <3>1
    <3>2. ASSUME NEW x \in Waiting, pile' = Append(pile, x)
          PROVE  \E d \in DOMAIN pile' : pile'[d].kind = "record" /\ pile'[d].of = e
      <4>1. c \in DOMAIN pile' /\ pile'[c] = pile[c]
        BY <3>2 DEF Sound, Shape
      <4> QED BY <2>4, <4>1
    <3>3. ASSUME NEW kind, Runs(kind), c # 1
          PROVE  \E d \in DOMAIN pile' : pile'[d].kind = "record" /\ pile'[d].of = e
      <4>1. c - 1 \in DOMAIN pile' /\ pile[c] = pile'[c - 1]
        BY <3>3, RunsFirst DEF Sound
      <4> QED BY <2>4, <4>1
    <3>4. CASE Runs("commit") \/ Runs("notify")
      <4>1. c # 1
        BY <2>4, <3>4, RunsFirst DEF Sound
      <4> QED BY <3>3, <3>4, <4>1
    <3>5. CASE cmdRecordWorkflowWakeup /\ c = 1
      <4>1. PICK d \in DOMAIN observed, u \in DOMAIN plan :
              /\ d = pile[1].of /\ u = observed[d].version
              /\ \/ (RecordKey(d, u) \in ledgered \/ plan[u] # "active") /\ UNCHANGED ledgered
                 \/ ledgered' = ledgered \cup {RecordKey(d, u)}
        BY <3>5, RecordCases
      <4>2. d = e /\ u = v
        BY <2>0, <2>4, <3>5, <4>1
      <4>3. RecordKey(e, v) \in ledgered'
        BY <2>1, <4>1, <4>2
      <4>4. RecordInv'
        BY RecordInvStep
      <4> QED BY <2>1, <4>3, <4>4 DEF RecordInv
    <3>6. CASE Reload
      <4>1. v = activeWorkflowPlan
        BY <2>1, ActivePlan DEF Sound, Shape, PlanInv
      <4> QED BY <2>0, <2>1, <3>6, <4>1, Reread
    <3>7. ~ \E kind \in WakeupKind : Observe(kind)
      <4>1. ASSUME NEW kind \in WakeupKind, Observe(kind)
            PROVE  FALSE
        <5>1. Len(observed) + 1 \in DOMAIN observed'
          BY <4>1, ObserveCases
        <5>2. Len(observed) + 1 \notin DOMAIN observed
          BY DEF Sound, Shape
        <5> QED BY <1>3, <5>1, <5>2
      <4> QED BY <4>1
    <3>8. cmdRecordWorkflowWakeup => Runs("record")
      BY DEF cmdRecordWorkflowWakeup
    <3> QED BY <3>1, <3>2, <3>3, <3>4, <3>5, <3>6, <3>7, <3>8, PileSteps
  <2>5. \/ InWakeup(e, v)'
        \/ \E d \in DOMAIN pile' : pile'[d].kind = "record" /\ pile'[d].of = e
    BY <2>2, <2>3, <2>4
  <2> QED BY <1>3, <2>0, <2>5 DEF InWakeup
<1> QED BY <1>2, <1>3, ObservedSteps

(* The occurrences of every wakeup are counted, and its version exists.    *)
WakeInv == \A w \in DOMAIN wakeup : wakeup[w].version \in DOMAIN plan /\ Counted(wakeup[w])

LEMMA WakeInvStep ==
    ASSUME Sound, ObservedInv, WakeInv, [GovernanceNext]_governanceVars
    PROVE  WakeInv'
<1>1. WakeMoves /\ PlanMoves
  BY WakeStep, PlanStep
<1>2. ASSUME NEW w \in DOMAIN wakeup', w \in DOMAIN wakeup
      PROVE  wakeup'[w].version \in DOMAIN plan' /\ Counted(wakeup'[w])
  BY <1>1, <1>2 DEF WakeMoves, MovesTo, PlanMoves, WakeInv
<1>3. ASSUME NEW w \in DOMAIN wakeup', w \notin DOMAIN wakeup
      PROVE  wakeup'[w].version \in DOMAIN plan' /\ Counted(wakeup'[w])
  BY <1>1, <1>3 DEF WakeMoves
<1> QED BY <1>2, <1>3 DEF WakeInv, Counted

GovernanceInv ==
    /\ Sound /\ ObservedInv /\ WakeInv
    /\ NotifyInv /\ RecordInv
    /\ WakeupsCurrent /\ NothingUnheard

(* The invariant holds when the program starts.                            *)
LEMMA InitInv == GovernanceInit => GovernanceInv
<1> SUFFICES ASSUME GovernanceInit PROVE GovernanceInv
  OBVIOUS
<1>1. /\ plan = <<>> /\ proposal = <<>> /\ wakeup = <<>> /\ observed = <<>> /\ pile = <<>> /\ ledgered = {}
  BY DEF GovernanceInit
<1>2. \A T : <<>> \in Seq(T)
  OBVIOUS
<1>3. Shape
  BY <1>1, <1>2 DEF Shape, GovernanceInit
<1>4. PlanInv /\ PileInv
  BY <1>1, GovernanceAssumption DEF PlanInv, PileInv, OneActive
<1>5. ObservedInv /\ WakeInv /\ NotifyInv /\ RecordInv /\ WakeupsCurrent /\ NothingUnheard
  BY <1>1 DEF ObservedInv, WakeInv, NotifyInv, RecordInv, WakeupsCurrent, NothingUnheard
<1> QED BY <1>3, <1>4, <1>5 DEF GovernanceInv, Sound

(* Every step keeps it.                                                    *)
LEMMA NextInv == GovernanceInv /\ [GovernanceNext]_governanceVars => GovernanceInv'
<1> SUFFICES ASSUME GovernanceInv, [GovernanceNext]_governanceVars PROVE GovernanceInv'
  OBVIOUS
<1>1. Shape' /\ PlanInv' /\ PileInv'
  BY ShapeStep, PlanStep, PileStep DEF GovernanceInv
<1>2. ObservedInv' /\ WakeInv' /\ NotifyInv' /\ RecordInv'
  BY ObservedStep, WakeInvStep, NotifyInvStep, RecordInvStep DEF GovernanceInv
<1>3. WakeupsCurrent' /\ NothingUnheard'
  BY CurrentStep, UnheardStep DEF GovernanceInv, WakeInv
<1> QED BY <1>1, <1>2, <1>3 DEF GovernanceInv, Sound

LEMMA AlwaysInv == GovernanceSpec => []GovernanceInv
BY InitInv, NextInv, PTL DEF GovernanceSpec

(* Types: every field of every plan, proposal, wakeup and command is what  *)
(* the program's schema says, and occurrenceCount counts the sources.      *)
THEOREM GovernanceTyped == GovernanceSpec => []GovernanceTypeOK
<1>1. ASSUME GovernanceInv PROVE GovernanceTypeOK
  <2>1. plan \in Seq({"proposed", "active", "superseded", "aborted"}) /\ Len(plan) <= MaxProposal
    BY <1>1 DEF GovernanceInv, Sound, Shape, PlanInv, PlanStatus
  <2>2. ASSUME NEW i \in DOMAIN proposal
        PROVE  /\ proposal[i].base \in 0 .. MaxProposal /\ proposal[i].version \in DOMAIN plan
               /\ proposal[i].status \in Open \cup {"rejected", "committed"}
    <3>1. /\ proposal[i] \in ProposalRecord /\ i \in 1 .. Len(plan) /\ Len(plan) <= MaxProposal
          /\ proposal[i].base < i /\ proposal[i].version = i /\ DOMAIN plan = 1 .. Len(plan)
          /\ Len(plan) \in Nat
      BY <1>1 DEF GovernanceInv, Sound, Shape, PlanInv
    <3>2. MaxProposal \in Nat
      BY GovernanceAssumption
    <3> QED BY <3>1, <3>2 DEF ProposalRecord
  <2>3. ASSUME NEW w \in DOMAIN wakeup
        PROVE  /\ wakeup[w].status \in {"pending", "notified", "acknowledged", "superseded"}
               /\ wakeup[w].version \in DOMAIN plan
               /\ wakeup[w].occurrences = Cardinality(wakeup[w].sources)
    <3>1. wakeup[w] \in WakeupRecord
      BY <1>1 DEF GovernanceInv, Sound, Shape
    <3> QED BY <1>1, <3>1 DEF GovernanceInv, WakeInv, Counted, WakeupRecord
  <2>4. ASSUME NEW c \in DOMAIN pile
        PROVE  pile[c].kind \in {"commit", "record", "notify"}
    <3>1. pile[c] \in Waiting
      BY <1>1 DEF GovernanceInv, Sound, Shape
    <3> QED BY <3>1 DEF Waiting
  <2>5. master \in {"idle", "running", "down"} /\ {frozen, draining, due} \subseteq BOOLEAN
    BY <1>1 DEF GovernanceInv, Sound, Shape
  <2> QED BY <2>1, <2>2, <2>3, <2>4, <2>5 DEF GovernanceTypeOK
<1> QED BY <1>1, AlwaysInv, PTL

(* What governs was approved as it stands: at most one version is active,  *)
(* and a version that is or was active has a committed proposal whose      *)
(* approval is of its latest edition.                                      *)
THEOREM ApprovedGoverns == GovernanceSpec => []ApprovedIsActive
<1>1. ASSUME GovernanceInv PROVE ApprovedIsActive
  <2>1. OneActive
    BY <1>1 DEF GovernanceInv, Sound, PlanInv
  <2>2. ASSUME NEW i \in DOMAIN proposal
        PROVE  /\ proposal[i].status = "committed" => proposal[i].approved = proposal[i].edition + 1
               /\ plan[proposal[i].version] \in {"active", "superseded"} <=> proposal[i].status = "committed"
    <3>1. proposal[i] \in ProposalRecord /\ proposal[i].version = i
      BY <1>1 DEF GovernanceInv, Sound, Shape, PlanInv
    <3>2. proposal[i].status \in Open \cup {"rejected", "committed"}
      BY <3>1 DEF ProposalRecord
    <3>3. /\ proposal[i].status \in Open => plan[i] = "proposed"
          /\ proposal[i].status = "rejected" => plan[i] = "aborted"
          /\ proposal[i].status = "committed" => plan[i] \in {"active", "superseded"}
          /\ proposal[i].status = "committed" => proposal[i].approved = proposal[i].edition + 1
      BY <1>1 DEF GovernanceInv, Sound, PlanInv
    <3> QED BY <3>1, <3>2, <3>3
  <2> QED BY <2>1, <2>2 DEF ApprovedIsActive, OneActive
<1> QED BY <1>1, AlwaysInv, PTL

(* No event about the active version is lost.                              *)
THEOREM NothingStaysUnheard == GovernanceSpec => []NothingUnheard
BY AlwaysInv, PTL DEF GovernanceInv

(* A patch settles what was asked about the version it replaces.           *)
THEOREM PatchesSettle == GovernanceSpec => []WakeupsCurrent
BY AlwaysInv, PTL DEF GovernanceInv

(* A pending wakeup whose next notification is already on record was cut   *)
(* off by a restart or refused by the budget.                              *)
THEOREM OnlyTheseAreStuck == GovernanceSpec => []StillNotifiable
<1>1. ASSUME GovernanceInv PROVE StillNotifiable
  <2>1. ASSUME NEW w \in DOMAIN wakeup
        PROVE  w \in Nat /\ wakeup[w].occurrences \in Nat
    <3>1. w \in Nat /\ wakeup[w] \in WakeupRecord
      BY <1>1 DEF GovernanceInv, Sound, Shape
    <3> QED BY <3>1 DEF WakeupRecord
  <2> QED BY <1>1, <2>1 DEF GovernanceInv, NotifyInv, StillNotifiable
<1> QED BY <1>1, AlwaysInv, PTL

-----------------------------------------------------------------------------
(* A barrier.                                                              *)

BarrierRecord ==
    [status : {"none", "pending"} \cup TerminalStatus, arrivals : [Participant -> 0 .. MaxAttempt]]

(* The key of the expiry is free until there is a barrier.                 *)
Inductive == BarrierTypeOK /\ BarrierKept /\ (barrier.status = "none" => ~keyUsed)

Rightful(b) ==
    /\ b.status = "released" => barrierIsSatisfied(b)
    /\ b.status \in {"none", "pending"} => ~barrierIsSatisfied(b)

-----------------------------------------------------------------------------
(* The handlers.                                                           *)

(* An arrival keeps everything but the attempt of who arrives.             *)
LEMMA ArrivalTyped ==
    ASSUME NEW b \in BarrierRecord, NEW c \in BarrierCommand, c.kind = "arrive"
    PROVE  WithArrival(b, c) \in BarrierRecord /\ WithArrival(b, c).status = b.status
<1>1. c.who \in Participant /\ c.attempt \in 0 .. MaxAttempt
    BY DEF BarrierCommand
<1>2. DEFINE n == IF c.attempt > b.arrivals[c.who] THEN c.attempt ELSE b.arrivals[c.who]
<1>3. n \in 0 .. MaxAttempt
    BY <1>1 DEF BarrierRecord
<1>4. WithArrival(b, c) = [b EXCEPT !.arrivals = [b.arrivals EXCEPT ![c.who] = n]]
    BY DEF WithArrival
<1>5. [b.arrivals EXCEPT ![c.who] = n] \in [Participant -> 0 .. MaxAttempt]
    <2> HIDE DEF n
    <2> QED BY <1>1, <1>3 DEF BarrierRecord
<1> HIDE DEF n
<1> DEFINE f == [b.arrivals EXCEPT ![c.who] = n]
<1>6. [b EXCEPT !.arrivals = f] \in BarrierRecord /\ [b EXCEPT !.arrivals = f].status = b.status
    <2> HIDE DEF f
    <2>1. f \in [Participant -> 0 .. MaxAttempt]
        BY <1>5 DEF f
    <2> QED BY <2>1 DEF BarrierRecord
<1> QED BY <1>4, <1>6

(* Only the status decides what barrierIsSatisfied does not ask for.       *)
LEMMA SameArrivals ==
    ASSUME NEW b \in BarrierRecord, NEW s \in {"none", "pending"} \cup TerminalStatus
    PROVE  /\ [b EXCEPT !.status = s] \in BarrierRecord
           /\ [b EXCEPT !.status = s].status = s
           /\ barrierIsSatisfied([b EXCEPT !.status = s]) <=> barrierIsSatisfied(b)
<1>1. /\ [b EXCEPT !.status = s] \in BarrierRecord
      /\ [b EXCEPT !.status = s].status = s
      /\ [b EXCEPT !.status = s].arrivals = b.arrivals
    BY DEF BarrierRecord
<1> QED BY <1>1 DEF barrierIsSatisfied, Arrivals

(* What a handler makes of a barrier: a barrier that deserves its status,  *)
(* and of one that has ended the same.                                     *)
LEMMA HandledRightful ==
    ASSUME NEW b \in BarrierRecord, NEW c \in BarrierCommand, Rightful(b)
    PROVE  /\ Handled(b, c) \in BarrierRecord
           /\ Rightful(Handled(b, c))
           /\ b.status \in TerminalStatus => Handled(b, c) = b
           /\ b.status # "none" => Handled(b, c).status # "none"
<1>1. CASE c.kind = "create" /\ b.status = "none"
    <2>1. Handled(b, c) = [b EXCEPT !.status = "pending"]
        BY <1>1 DEF Handled
    <2>2. /\ [b EXCEPT !.status = "pending"] \in BarrierRecord
          /\ [b EXCEPT !.status = "pending"].status = "pending"
          /\ barrierIsSatisfied([b EXCEPT !.status = "pending"]) <=> barrierIsSatisfied(b)
        BY SameArrivals
    <2> QED BY <1>1, <2>1, <2>2 DEF Rightful, TerminalStatus
<1>2. CASE c.kind = "arrive"
    <2>1. Handled(b, c) = Arriving(b, c)
        BY <1>2 DEF Handled
    <2>2. CASE b.status # "pending"
        BY <2>1, <2>2 DEF Arriving
    <2>3. CASE b.status = "pending" /\ barrierIsSatisfied(WithArrival(b, c))
        <3> DEFINE w == WithArrival(b, c)
        <3>1. Handled(b, c) = [w EXCEPT !.status = "released"]
            BY <2>1, <2>3 DEF Arriving
        <3>2. w \in BarrierRecord /\ barrierIsSatisfied(w)
            BY <1>2, <2>3, ArrivalTyped
        <3>3. "released" \in {"none", "pending"} \cup TerminalStatus
            BY DEF TerminalStatus
        <3> HIDE DEF w
        <3>4. /\ [w EXCEPT !.status = "released"] \in BarrierRecord
              /\ [w EXCEPT !.status = "released"].status = "released"
              /\ barrierIsSatisfied([w EXCEPT !.status = "released"]) <=> barrierIsSatisfied(w)
            BY <3>2, <3>3, SameArrivals
        <3> QED BY <2>3, <3>1, <3>2, <3>4 DEF Rightful, TerminalStatus
    <2>4. CASE b.status = "pending" /\ ~barrierIsSatisfied(WithArrival(b, c))
        <3>1. Handled(b, c) = WithArrival(b, c)
            BY <2>1, <2>4 DEF Arriving
        <3>2. WithArrival(b, c) \in BarrierRecord /\ WithArrival(b, c).status = b.status
            BY <1>2, ArrivalTyped
        <3> QED BY <2>4, <3>1, <3>2 DEF Rightful, TerminalStatus
    <2> QED BY <2>2, <2>3, <2>4
<1>3. CASE c.kind = "cancel" /\ b.status = "pending"
    <2>1. Handled(b, c) = [b EXCEPT !.status = "cancelled"]
        BY <1>3 DEF Handled
    <2>2. /\ [b EXCEPT !.status = "cancelled"] \in BarrierRecord
          /\ [b EXCEPT !.status = "cancelled"].status = "cancelled"
        BY SameArrivals DEF TerminalStatus
    <2> QED BY <1>3, <2>1, <2>2 DEF Rightful, TerminalStatus
<1>4. CASE c.kind = "expire" /\ ~keyUsed /\ b.status = "pending" /\ past
    <2>1. Handled(b, c) = [b EXCEPT !.status = "timed-out"]
        BY <1>4 DEF Handled
    <2>2. /\ [b EXCEPT !.status = "timed-out"] \in BarrierRecord
          /\ [b EXCEPT !.status = "timed-out"].status = "timed-out"
        BY SameArrivals DEF TerminalStatus
    <2> QED BY <1>4, <2>1, <2>2 DEF Rightful, TerminalStatus
<1>5. CASE ~(\/ c.kind = "create" /\ b.status = "none"
             \/ c.kind = "arrive"
             \/ c.kind = "cancel" /\ b.status = "pending"
             \/ c.kind = "expire" /\ ~keyUsed /\ b.status = "pending" /\ past)
    <2>1. Handled(b, c) = b
        BY <1>5 DEF Handled
    <2> QED BY <2>1
<1> QED BY <1>1, <1>2, <1>3, <1>4, <1>5

-----------------------------------------------------------------------------
(* The steps.                                                              *)

LEMMA InitialBarrier == BarrierInit => Inductive
<1> SUFFICES ASSUME BarrierInit PROVE Inductive
    OBVIOUS
<1>1. barrier = [status |-> "none", arrivals |-> [p \in Participant |-> 0]]
    BY DEF BarrierInit
<1>2. 0 \in 0 .. MaxAttempt
    BY BarrierAssumption
<1>3. BarrierTypeOK
    <2>1. [p \in Participant |-> 0] \in [Participant -> 0 .. MaxAttempt]
        BY <1>2
    <2>2. barrier \in [status : {"none", "pending"} \cup TerminalStatus,
                       arrivals : [Participant -> 0 .. MaxAttempt]]
        BY <1>1, <2>1
    <2>3. calls \in Seq(BarrierCommand)
        BY DEF BarrierInit
    <2> QED BY <2>2, <2>3 DEF BarrierInit, BarrierTypeOK
<1>4. Arrivals(barrier) = {}
    BY <1>1 DEF Arrivals
<1>5. ~barrierIsSatisfied(barrier)
    <2>1. Cardinality(Arrivals(barrier)) = 0
        BY <1>4, FS_EmptySet
    <2>2. Cardinality(Participant) \in Nat
        BY BarrierAssumption, FS_CardinalityType
    <2> QED BY <2>1, <2>2, BarrierAssumption DEF barrierIsSatisfied
<1> QED BY <1>1, <1>3, <1>5 DEF BarrierInit, Inductive, BarrierKept, PendingIsWatched, EndsOnce, TerminalStatus

(* What every step that leaves the barrier alone has to show.              *)
LEMMA SameBarrier ==
    ASSUME Inductive, barrier' = barrier, outcomes' = outcomes
    PROVE  EndsOnce'
BY DEF Inductive, BarrierKept, EndsOnce, barrierIsSatisfied, Arrivals

(* The chain keeps its commands and their order.                           *)
LEMMA ChainTyped ==
    ASSUME NEW s \in Seq(BarrierCommand)
    PROVE  /\ \A c \in BarrierCommand :
                /\ Append(s, c) \in Seq(BarrierCommand)
                /\ \E i \in DOMAIN Append(s, c) : Append(s, c)[i] = c
                /\ \A i \in DOMAIN s : i \in DOMAIN Append(s, c) /\ Append(s, c)[i] = s[i]
           /\ s # <<>> =>
                /\ Head(s) \in BarrierCommand
                /\ Tail(s) \in Seq(BarrierCommand)
                /\ \A i \in DOMAIN s : i # 1 => \E j \in DOMAIN Tail(s) : Tail(s)[j] = s[i]
                /\ Head(s) = s[1]
<1>1. ASSUME NEW c \in BarrierCommand
      PROVE  /\ Append(s, c) \in Seq(BarrierCommand)
             /\ \E i \in DOMAIN Append(s, c) : Append(s, c)[i] = c
             /\ \A i \in DOMAIN s : i \in DOMAIN Append(s, c) /\ Append(s, c)[i] = s[i]
    <2>1. Len(s) + 1 \in DOMAIN Append(s, c) /\ Append(s, c)[Len(s) + 1] = c
        OBVIOUS
    <2> QED BY <2>1
<1>2. ASSUME s # <<>>, NEW i \in DOMAIN s, i # 1
      PROVE  \E j \in DOMAIN Tail(s) : Tail(s)[j] = s[i]
    <2>1. i - 1 \in DOMAIN Tail(s) /\ Tail(s)[i - 1] = s[i]
        BY <1>2
    <2> QED BY <2>1
<1> QED BY <1>1, <1>2

(* A step that adds to the chain leaves what waits in it.                  *)
LEMMA StillQueued ==
    ASSUME calls \in Seq(BarrierCommand), NEW c \in BarrierCommand, calls' = Append(calls, c),
           \E i \in DOMAIN calls : calls[i].kind = "expire"
    PROVE  \E i \in DOMAIN calls' : calls'[i].kind = "expire"
BY ChainTyped

(* One that takes the first command away leaves the others.                *)
LEMMA QueuedOrTaken ==
    ASSUME calls \in Seq(BarrierCommand), calls # <<>>, calls' = Tail(calls),
           \E i \in DOMAIN calls : calls[i].kind = "expire"
    PROVE  \/ Head(calls).kind = "expire"
           \/ \E i \in DOMAIN calls' : calls'[i].kind = "expire"
<1>1. PICK i \in DOMAIN calls : calls[i].kind = "expire"
    OBVIOUS
<1>2. CASE i = 1
    BY <1>1, <1>2, ChainTyped
<1>3. CASE i # 1
    <2>1. PICK j \in DOMAIN Tail(calls) : Tail(calls)[j] = calls[i]
        BY <1>3, ChainTyped
    <2> QED BY <1>1, <2>1
<1> QED BY <1>2, <1>3

(* A command that is committed keeps the invariant: what a handler makes   *)
(* of the barrier is counted once, and an expiry that does not end it has  *)
(* come too early.                                                         *)
LEMMA CommittedKeeps == Inductive /\ BarrierCommitted => Inductive'
<1> SUFFICES ASSUME Inductive, BarrierCommitted PROVE Inductive'
    OBVIOUS
<1> DEFINE c == Head(calls)
           h == Handled(barrier, c)
<1>1. c \in BarrierCommand /\ calls' \in Seq(BarrierCommand)
    BY ChainTyped DEF Inductive, BarrierTypeOK, BarrierCommitted
<1>2. barrier \in BarrierRecord /\ Rightful(barrier)
    BY DEF Inductive, BarrierTypeOK, BarrierKept, EndsOnce, BarrierRecord, Rightful
<1>3. /\ h \in BarrierRecord
      /\ Rightful(h)
      /\ barrier.status \in TerminalStatus => h = barrier
      /\ barrier.status # "none" => h.status # "none"
    BY <1>1, <1>2, HandledRightful
<1>4. /\ barrier' = h
      /\ timer' = TimerAfter(c)
      /\ keyUsed' = (keyUsed \/ (c.kind = "expire" /\ barrier.status # "none"))
      /\ outcomes' = IF h.status \in TerminalStatus /\ barrier.status \notin TerminalStatus
                     THEN outcomes + 1 ELSE outcomes
      /\ unwatched' = (unwatched \/ TooEarly(c))
      /\ calls' = Tail(calls) /\ calls # <<>>
      /\ past' = past /\ bstirs' = bstirs
    BY DEF BarrierCommitted
<1>5. BarrierTypeOK'
    <2>1. barrier' \in [status : {"none", "pending"} \cup TerminalStatus,
                        arrivals : [Participant -> 0 .. MaxAttempt]]
        BY <1>3, <1>4 DEF BarrierRecord
    <2>2. timer' \in BOOLEAN
        BY <1>4 DEF TimerAfter, Inductive, BarrierTypeOK
    <2>3. unwatched' \in BOOLEAN /\ keyUsed' \in BOOLEAN
        BY <1>4 DEF TooEarly, Inductive, BarrierTypeOK
    <2>4. outcomes' \in Nat /\ past' \in BOOLEAN /\ bstirs' \in Nat
        BY <1>4 DEF Inductive, BarrierTypeOK
    <2> QED BY <1>1, <2>1, <2>2, <2>3, <2>4 DEF BarrierTypeOK
<1>6. EndsOnce'
    <2>1. outcomes = IF barrier.status \in TerminalStatus THEN 1 ELSE 0
        BY DEF Inductive, BarrierKept, EndsOnce
    <2>2. outcomes' = IF h.status \in TerminalStatus THEN 1 ELSE 0
        BY <1>3, <1>4, <2>1
    <2>3. /\ h.status = "released" => barrierIsSatisfied(h)
          /\ h.status \in {"none", "pending"} => ~barrierIsSatisfied(h)
        BY <1>3 DEF Rightful
    <2>4. barrierIsSatisfied(barrier)' <=> barrierIsSatisfied(h)
        BY <1>4 DEF barrierIsSatisfied, Arrivals
    <2> HIDE DEF h
    <2> QED BY <1>4, <2>2, <2>3, <2>4 DEF EndsOnce
<1>7. barrier'.status = "none" => ~keyUsed'
    BY <1>3, <1>4 DEF Inductive
<1>8. PendingIsWatched'
    <2> SUFFICES ASSUME h.status = "pending", ~unwatched'
                 PROVE  ~keyUsed' /\ (timer' \/ \E i \in DOMAIN calls' : calls'[i].kind = "expire")
        BY <1>4 DEF PendingIsWatched
    <2>1. ~unwatched /\ ~TooEarly(c)
        BY <1>4
    <2>2. CASE barrier.status = "none"
        BY <1>4, <2>2 DEF TimerAfter, Inductive
    <2>3. CASE barrier.status = "pending"
        <3>1. ~keyUsed /\ (timer \/ \E i \in DOMAIN calls : calls[i].kind = "expire")
            BY <2>1, <2>3 DEF Inductive, BarrierKept, PendingIsWatched
        <3>2. c.kind # "expire"
            <4> SUFFICES ASSUME c.kind = "expire" PROVE FALSE
                OBVIOUS
            <4>1. past
                BY <2>1, <2>3, <3>1 DEF TooEarly
            <4>2. h = [barrier EXCEPT !.status = "timed-out"]
                BY <2>3, <3>1, <4>1 DEF Handled
            <4>3. [barrier EXCEPT !.status = "timed-out"].status = "timed-out"
                BY <1>2 DEF BarrierRecord
            <4> QED BY <4>2, <4>3
        <3>3. ~keyUsed'
            BY <1>4, <3>1, <3>2
        <3>4. CASE timer
            BY <1>4, <3>3, <3>4 DEF TimerAfter
        <3>5. CASE \E i \in DOMAIN calls : calls[i].kind = "expire"
            BY <1>4, <3>2, <3>3, <3>5, QueuedOrTaken DEF Inductive, BarrierTypeOK
        <3> QED BY <3>1, <3>4, <3>5
    <2>4. CASE barrier.status \in TerminalStatus
        BY <1>3, <2>4 DEF TerminalStatus
    <2> QED BY <1>2, <2>2, <2>3, <2>4 DEF BarrierRecord
<1> QED BY <1>5, <1>6, <1>7, <1>8 DEF Inductive, BarrierKept

(* A command that is not committed leaves the barrier; the timer it takes  *)
(* is remembered in `unwatched`.                                           *)
LEMMA NotCommittedKeeps == Inductive /\ BarrierNotCommitted => Inductive'
<1> SUFFICES ASSUME Inductive, BarrierNotCommitted PROVE Inductive'
    OBVIOUS
<1> DEFINE c == Head(calls)
<1>1. c \in BarrierCommand /\ calls' \in Seq(BarrierCommand)
    BY ChainTyped DEF Inductive, BarrierTypeOK, BarrierNotCommitted
<1>2. /\ timer' = TimerAfter(c)
      /\ unwatched' = (unwatched \/ (c.kind = "expire" /\ barrier.status = "pending")
                                 \/ (timer /\ ~TimerAfter(c)))
      /\ calls' = Tail(calls) /\ calls # <<>>
      /\ barrier' = barrier /\ past' = past /\ keyUsed' = keyUsed /\ outcomes' = outcomes
      /\ bstirs' = bstirs + 1
    BY DEF BarrierNotCommitted, BStir
<1>3. BarrierTypeOK'
    <2>1. timer' \in BOOLEAN /\ unwatched' \in BOOLEAN
        BY <1>2 DEF TimerAfter, TooEarly, Inductive, BarrierTypeOK
    <2> QED BY <1>1, <1>2, <2>1 DEF Inductive, BarrierTypeOK
<1>4. PendingIsWatched'
    <2> SUFFICES ASSUME barrier.status = "pending", ~unwatched'
                 PROVE  ~keyUsed /\ (timer' \/ \E i \in DOMAIN calls' : calls'[i].kind = "expire")
        BY <1>2 DEF PendingIsWatched
    <2>1. ~unwatched /\ c.kind # "expire" /\ (timer => timer')
        BY <1>2
    <2>2. ~keyUsed /\ (timer \/ \E i \in DOMAIN calls : calls[i].kind = "expire")
        BY <2>1 DEF Inductive, BarrierKept, PendingIsWatched
    <2> QED BY <1>2, <2>1, <2>2, QueuedOrTaken DEF Inductive, BarrierTypeOK
<1> QED BY <1>2, <1>3, <1>4, SameBarrier DEF Inductive, BarrierKept

LEMMA DispatchKeeps ==
    ASSUME Inductive, NEW c \in BarrierCommand, Dispatch(c)
    PROVE  Inductive'
<1>1. calls' \in Seq(BarrierCommand)
    BY ChainTyped DEF Dispatch, Inductive, BarrierTypeOK
<1>2. BarrierTypeOK'
    BY <1>1 DEF Dispatch, BStir, Inductive, BarrierTypeOK
<1>3. PendingIsWatched'
    BY StillQueued DEF Dispatch, Inductive, BarrierKept, PendingIsWatched, BarrierTypeOK
<1> QED BY <1>2, <1>3, SameBarrier DEF Dispatch, Inductive, BarrierKept

(* The timer becomes an expiry in the chain.                               *)
LEMMA TimerKeeps == Inductive /\ TimerFires => Inductive'
<1> SUFFICES ASSUME Inductive, TimerFires PROVE Inductive'
    OBVIOUS
<1>1. [kind |-> "expire"] \in BarrierCommand
    BY DEF BarrierCommand
<1>2. /\ calls' \in Seq(BarrierCommand)
      /\ \E i \in DOMAIN calls' : calls'[i] = [kind |-> "expire"]
    BY <1>1, ChainTyped DEF TimerFires, Inductive, BarrierTypeOK
<1>3. \E i \in DOMAIN calls' : calls'[i].kind = "expire"
    BY <1>2
<1>4. BarrierTypeOK'
    <2>1. bstirs' \in Nat
        BY DEF TimerFires, BStir, Inductive, BarrierTypeOK
    <2> QED BY <1>2, <2>1 DEF TimerFires, Inductive, BarrierTypeOK
<1>5. PendingIsWatched'
    BY <1>3 DEF TimerFires, Inductive, BarrierKept, PendingIsWatched
<1> QED BY <1>4, <1>5, SameBarrier DEF TimerFires, Inductive, BarrierKept

LEMMA DeadlineKeeps == Inductive /\ DeadlinePasses => Inductive'
<1> SUFFICES ASSUME Inductive, DeadlinePasses PROVE Inductive'
    OBVIOUS
<1>1. BarrierTypeOK' /\ PendingIsWatched'
    BY DEF DeadlinePasses, Inductive, BarrierKept, BarrierTypeOK, PendingIsWatched
<1> QED BY <1>1, SameBarrier DEF DeadlinePasses, Inductive, BarrierKept

LEMMA ClearKeeps == Inductive /\ clearBarrierTimers => Inductive'
<1> SUFFICES ASSUME Inductive, clearBarrierTimers PROVE Inductive'
    OBVIOUS
<1>1. bstirs' \in Nat
    BY DEF clearBarrierTimers, BStir, Inductive, BarrierTypeOK
<1>2. unwatched' \in BOOLEAN
    BY DEF clearBarrierTimers
<1>3. BarrierTypeOK'
    BY <1>1, <1>2 DEF clearBarrierTimers, Inductive, BarrierTypeOK
<1>4. PendingIsWatched'
    BY DEF clearBarrierTimers, Inductive, BarrierKept, PendingIsWatched
<1> QED BY <1>3, <1>4, SameBarrier DEF clearBarrierTimers, Inductive, BarrierKept

(* A restart empties the chain and arms the timer of what is pending.      *)
LEMMA RestartKeeps == Inductive /\ recoverBarrierTimers => Inductive'
<1> SUFFICES ASSUME Inductive, recoverBarrierTimers PROVE Inductive'
    OBVIOUS
<1>1. bstirs' \in Nat
    BY DEF recoverBarrierTimers, BStir, Inductive, BarrierTypeOK
<1>2. calls' \in Seq(BarrierCommand)
    BY DEF recoverBarrierTimers
<1>3. unwatched' \in BOOLEAN /\ timer' \in BOOLEAN
    BY DEF recoverBarrierTimers
<1>4. BarrierTypeOK'
    BY <1>1, <1>2, <1>3 DEF recoverBarrierTimers, Inductive, BarrierTypeOK
<1>5. PendingIsWatched'
    BY DEF recoverBarrierTimers, Inductive, BarrierKept, PendingIsWatched
<1> QED BY <1>4, <1>5, SameBarrier DEF recoverBarrierTimers, Inductive, BarrierKept

-----------------------------------------------------------------------------

(* The invariant holds in every state.                                     *)
LEMMA InductiveHolds == BarrierSpec => []Inductive
<1>1. BarrierInit => Inductive
    BY InitialBarrier
<1>2. Inductive /\ [BarrierNext]_barrierVars => Inductive'
    <2> SUFFICES ASSUME Inductive, [BarrierNext]_barrierVars PROVE Inductive'
        OBVIOUS
    <2>1. CASE \E c \in BarrierCommand : Dispatch(c)
        BY <2>1, DispatchKeeps
    <2>2. CASE UNCHANGED barrierVars
        BY <2>2 DEF barrierVars, Inductive, BarrierTypeOK, BarrierKept, PendingIsWatched, EndsOnce,
                    barrierIsSatisfied, Arrivals
    <2> QED BY <2>1, <2>2, CommittedKeeps, NotCommittedKeeps, TimerKeeps, DeadlineKeeps, ClearKeeps,
               RestartKeeps DEF BarrierNext
<1> QED BY <1>1, <1>2, PTL DEF BarrierSpec

(* Status, arrivals, timer and chain have the types the code gives them,   *)
(* for any participants, mode and bounds.                                  *)
THEOREM BarrierTyped == BarrierSpec => []BarrierTypeOK
<1>1. Inductive => BarrierTypeOK
    BY DEF Inductive
<1> QED BY <1>1, InductiveHolds, PTL

(* A barrier ends once, with the arrivals a release requires, and while it *)
(* is pending its expiry is on the way and will be heard, unless a lost    *)
(* commit, killAll or an early timer took it (governanceRuntime.ts).       *)
THEOREM BarrierHolds == BarrierSpec => []BarrierKept
<1>1. Inductive => BarrierKept
    BY DEF Inductive
<1> QED BY <1>1, InductiveHolds, PTL

-----------------------------------------------------------------------------
(* An external source.                                                     *)

WatcherRecord ==
    [at : {"idle", "read", "dead"}, stopped : BOOLEAN,
     read : Commit \cup {NoKey}, lastAccepted : Commit \cup {NoKey}]
Anchor == [key : Keys, tooSoon : BOOLEAN]

WatchShape ==
    /\ head \in Commit /\ source \in {"none", "active", "removed"}
    /\ anchor \in Anchor /\ extLog \in Seq(Keys)
    /\ watcher \in Seq(WatcherRecord)
    /\ enabled \in BOOLEAN /\ needed \in BOOLEAN /\ blurred \in BOOLEAN
    /\ checkpoint = Closed \/ checkpoint.anchor \in Anchor

(* A source that became active while adapters were suspended, or was then,  *)
(* is remembered until they resume.                                         *)
Suspended == ~enabled /\ source = "active" => needed

(* An anchor says what the log ends with, unless it was rolled back; and    *)
(* nothing while the log is empty.                                          *)
Ends(key) == extLog # <<>> /\ Last(extLog) = key
Anchored ==
    /\ extLog = <<>> => anchor.key = NoKey
    /\ extLog = <<>> /\ checkpoint # Closed => checkpoint.anchor.key = NoKey
    /\ ~blurred /\ anchor.key # NoKey => Ends(anchor.key)

WatchInv == WatchShape /\ Suspended /\ Anchored /\ WatchersHold

(* Sequences: an element, a list rewritten in place, one element changed.   *)
LEMMA Element ==
    ASSUME NEW T, NEW s \in Seq(T), NEW i \in DOMAIN s PROVE s[i] \in T
OBVIOUS

LEMMA InPlace ==
    ASSUME NEW T, NEW s \in Seq(T), NEW t, t = [i \in DOMAIN s |-> t[i]],
           \A i \in DOMAIN s : t[i] \in T
    PROVE  t \in Seq(T) /\ DOMAIN t = DOMAIN s
OBVIOUS

LEMMA OneChanged ==
    ASSUME NEW T, NEW s \in Seq(T), NEW k \in DOMAIN s, NEW x \in T,
           NEW t, t = [s EXCEPT ![k] = x]
    PROVE  /\ t \in Seq(T) /\ DOMAIN t = DOMAIN s /\ t[k] = x
           /\ \A i \in DOMAIN s : i # k => t[i] = s[i]
OBVIOUS

(* What is live in a list of watchers.                                      *)
Awake(w) == w.at # "dead" /\ ~w.stopped
OneAwake(ws, on) ==
    /\ \A i, j \in DOMAIN ws : Awake(ws[i]) /\ Awake(ws[j]) => i = j
    /\ (\E i \in DOMAIN ws : Awake(ws[i])) <=> on
(* The live ones of a list were live before, as they are, or have accepted  *)
(* nothing.                                                                 *)
Renewed(ws) ==
    \A i \in DOMAIN ws : Awake(ws[i]) =>
        \/ ws[i].lastAccepted = NoKey
        \/ i \in DOMAIN watcher /\ ws[i] = watcher[i]

LEMMA OneWatcherIs == OneWatcher <=> OneAwake(watcher, enabled /\ source = "active")
BY DEF OneWatcher, OneAwake, Live, Awake

LEMMA OneWatcherWill == OneWatcher' <=> OneAwake(watcher', enabled' /\ source' = "active")
BY DEF OneWatcher, OneAwake, Live, Awake

LEMMA StoppedAll ==
    ASSUME NEW ws \in Seq(WatcherRecord)
    PROVE  /\ stopAllAdapters(ws) \in Seq(WatcherRecord)
           /\ DOMAIN stopAllAdapters(ws) = DOMAIN ws
           /\ \A i \in DOMAIN ws : ~Awake(stopAllAdapters(ws)[i])
<1>1. PICK all : all = stopAllAdapters(ws)
  OBVIOUS
<1>2. /\ all = [i \in DOMAIN ws |-> all[i]]
      /\ \A i \in DOMAIN ws : all[i] = [ws[i] EXCEPT !.stopped = TRUE]
  BY <1>1 DEF stopAllAdapters
<1>3. \A i \in DOMAIN ws : all[i] \in WatcherRecord /\ all[i].stopped
  <2> SUFFICES ASSUME NEW i \in DOMAIN ws PROVE all[i] \in WatcherRecord /\ all[i].stopped
    OBVIOUS
  <2>1. ws[i] \in WatcherRecord /\ all[i] = [ws[i] EXCEPT !.stopped = TRUE]
    BY <1>2, Element
  <2> QED BY <2>1 DEF WatcherRecord
<1>4. all \in Seq(WatcherRecord) /\ DOMAIN all = DOMAIN ws
  BY <1>2, <1>3, InPlace
<1> QED BY <1>1, <1>3, <1>4 DEF Awake

(* A synchronisation leaves one live watcher, a new one, or none.           *)
LEMMA SyncLeavesOne ==
    ASSUME NEW ws \in Seq(WatcherRecord), NEW state
    PROVE  /\ syncAdapterForSource(ws, state) \in Seq(WatcherRecord)
           /\ OneAwake(syncAdapterForSource(ws, state), state = "active")
           /\ \A i \in DOMAIN syncAdapterForSource(ws, state) :
                Awake(syncAdapterForSource(ws, state)[i]) =>
                  syncAdapterForSource(ws, state)[i].lastAccepted = NoKey
<1>1. PICK all : all = stopAllAdapters(ws)
  OBVIOUS
<1>2. /\ all \in Seq(WatcherRecord) /\ DOMAIN all = DOMAIN ws
      /\ \A i \in DOMAIN all : ~Awake(all[i])
  BY <1>1, StoppedAll
<1>3. Newborn \in WatcherRecord /\ Awake(Newborn) /\ Newborn.lastAccepted = NoKey
  BY DEF Newborn, WatcherRecord, Awake
<1>4. CASE state = "active"
  <2>1. PICK new : new = Append(all, Newborn)
    OBVIOUS
  <2>2. syncAdapterForSource(ws, state) = new
    BY <1>1, <1>4, <2>1 DEF syncAdapterForSource
  <2>3. /\ new \in Seq(WatcherRecord)
        /\ \A i \in DOMAIN new : Awake(new[i]) <=> i = Len(all) + 1
        /\ Len(all) + 1 \in DOMAIN new /\ new[Len(all) + 1] = Newborn
    BY <1>2, <1>3, <2>1
  <2> QED BY <1>3, <1>4, <2>2, <2>3 DEF OneAwake
<1>5. CASE state # "active"
  <2>1. syncAdapterForSource(ws, state) = all
    BY <1>1, <1>5 DEF syncAdapterForSource
  <2> QED BY <1>2, <1>5, <2>1 DEF OneAwake
<1> QED BY <1>4, <1>5

(* A command that commits leaves the watchers its source asks for: with     *)
(* `sync' when it changed the source.                                       *)
LEMMA SettleHolds ==
    ASSUME WatchInv, NEW state \in {"none", "active", "removed"}, NEW sync \in BOOLEAN, NEW epoch,
           sync <=> state # source, sync => state # "none", source' = state, Settle(state, sync, epoch)
    PROVE  /\ watcher' \in Seq(WatcherRecord) /\ OneWatcher' /\ Suspended' /\ Renewed(watcher')
           /\ enabled' \in BOOLEAN /\ needed' \in BOOLEAN
<1> DEFINE held == sync /\ ~enabled
           resumes == epoch = lifecycle
<1>1. PICK synced : synced = IF sync /\ enabled THEN syncAdapterForSource(watcher, state) ELSE watcher
  OBVIOUS
<1>2. /\ enabled' = (enabled \/ resumes)
      /\ resumes /\ (needed \/ held) =>
           /\ needed' = FALSE
           /\ watcher' = IF state = "none" THEN synced ELSE syncAdapterForSource(synced, state)
      /\ ~(resumes /\ (needed \/ held)) => needed' = (needed \/ held) /\ watcher' = synced
  BY <1>1 DEF Settle
<1>3. /\ watcher \in Seq(WatcherRecord) /\ OneAwake(watcher, enabled /\ source = "active")
      /\ enabled \in BOOLEAN /\ needed \in BOOLEAN /\ Renewed(watcher)
      /\ ~enabled /\ source = "active" => needed
  BY OneWatcherIs DEF WatchInv, WatchShape, WatchersHold, Suspended, Renewed
<1>4. /\ synced \in Seq(WatcherRecord) /\ OneAwake(synced, enabled /\ state = "active")
      /\ Renewed(synced)
  <2>1. CASE sync /\ enabled
    BY <1>1, <1>3, <2>1, SyncLeavesOne DEF Renewed
  <2>2. CASE ~(sync /\ enabled)
    <3>1. synced = watcher
      BY <1>1, <2>2
    <3>2. (enabled /\ source = "active") <=> (enabled /\ state = "active")
      BY <2>2
    <3> QED BY <1>3, <3>1, <3>2 DEF OneAwake
  <2> QED BY <2>1, <2>2
<1>5. CASE resumes /\ (needed \/ held) /\ state # "none"
  <2>1. PICK new : new = syncAdapterForSource(synced, state)
    OBVIOUS
  <2>2. new \in Seq(WatcherRecord) /\ OneAwake(new, state = "active") /\ Renewed(new)
    BY <1>4, <2>1, SyncLeavesOne DEF Renewed
  <2>3. watcher' = new /\ enabled' = TRUE /\ needed' = FALSE
    BY <1>2, <1>3, <1>5, <2>1
  <2>4. OneWatcher'
    <3>1. OneAwake(watcher', enabled' /\ source' = "active")
      BY <2>2, <2>3
    <3> QED BY <3>1, OneWatcherWill
  <2> QED BY <2>2, <2>3, <2>4 DEF Suspended
<1>6. CASE ~(resumes /\ (needed \/ held) /\ state # "none")
  <2>1. watcher' = synced /\ enabled' \in BOOLEAN /\ needed' \in BOOLEAN
    BY <1>2, <1>3, <1>6
  <2>2. (enabled /\ state = "active") <=> (enabled' /\ state = "active")
    BY <1>2, <1>3, <1>6
  <2>3. OneWatcher'
    <3>1. OneAwake(watcher', enabled' /\ source' = "active")
      BY <1>4, <2>1, <2>2 DEF OneAwake
    <3> QED BY <3>1, OneWatcherWill
  <2>4. Suspended'
    BY <1>2, <1>3, <1>6 DEF Suspended
  <2> QED BY <1>4, <2>1, <2>3, <2>4
<1> QED BY <1>5, <1>6

(* The quiet watchers stay right while the log and the anchors do.          *)
LEMMA QuietStays ==
    ASSUME QuietIsLogged, UNCHANGED <<extLog, blurred>>, Renewed(watcher')
    PROVE  QuietIsLogged'
<1> SUFFICES ASSUME NEW i \in DOMAIN watcher', Live(i)', watcher'[i].lastAccepted # NoKey, ~blurred
             PROVE  extLog # <<>> /\ Last(extLog) = watcher'[i].lastAccepted
  BY DEF QuietIsLogged
<1>1. i \in DOMAIN watcher /\ watcher'[i] = watcher[i]
  BY DEF Renewed, Live, Awake
<1> QED BY <1>1 DEF QuietIsLogged, Live

-----------------------------------------------------------------------------
(* The steps.                                                               *)

LEMMA PollHolds ==
    ASSUME WatchInv, NEW i \in DOMAIN watcher, Poll(i) PROVE WatchInv'
<1> USE DEF WatchInv, WatchersHold
<1>1. /\ watcher' = [watcher EXCEPT ![i].at = "read", ![i].read = head]
      /\ watcher[i].at = "idle"
      /\ UNCHANGED <<head, source, anchor, extLog, enabled, needed, checkpoint, blurred>>
  BY DEF Poll
<1>2. /\ watcher' \in Seq(WatcherRecord) /\ DOMAIN watcher' = DOMAIN watcher
      /\ \A j \in DOMAIN watcher :
           /\ Awake(watcher'[j]) <=> Awake(watcher[j])
           /\ watcher'[j].lastAccepted = watcher[j].lastAccepted
  <2>1. watcher[i] \in WatcherRecord /\ head \in Commit
    BY DEF WatchShape
  <2>2. PICK w : w = [watcher[i] EXCEPT !.at = "read", !.read = head]
    OBVIOUS
  <2>3. /\ w \in WatcherRecord /\ w.at # "dead" /\ w.stopped = watcher[i].stopped
        /\ w.lastAccepted = watcher[i].lastAccepted
    BY <2>1, <2>2 DEF WatcherRecord
  <2>4. watcher' = [watcher EXCEPT ![i] = w]
    BY <1>1, <2>2
  <2>5. /\ watcher' \in Seq(WatcherRecord) /\ DOMAIN watcher' = DOMAIN watcher
        /\ watcher'[i] = w /\ \A j \in DOMAIN watcher : j # i => watcher'[j] = watcher[j]
    BY <2>3, <2>4, OneChanged DEF WatchShape
  <2> QED BY <1>1, <2>3, <2>5 DEF Awake
<1>3. OneWatcher'
  <2>1. OneAwake(watcher, enabled /\ source = "active")
    BY OneWatcherIs
  <2>2. OneAwake(watcher', enabled' /\ source' = "active")
    BY <1>1, <1>2, <2>1 DEF OneAwake
  <2> QED BY <2>2, OneWatcherWill
<1>4. QuietIsLogged'
  BY <1>1, <1>2 DEF QuietIsLogged, Live, Awake
<1> QED BY <1>1, <1>2, <1>3, <1>4 DEF WatchShape, Suspended, Anchored, Ends

(* An emit appends at most one key, and then anchors it.                    *)
LEMMA EmitIs ==
    ASSUME NEW key \in Keys, WatchShape, emitExternalEvent(key)
    PROVE  /\ Verdict(key) = "ok" =>
                /\ extLog' \in Seq(Keys) /\ extLog' # <<>> /\ Last(extLog') = key
                /\ anchor' \in Anchor /\ anchor'.key = key
           /\ Verdict(key) # "ok" => UNCHANGED <<extLog, anchor>>
<1>1. CASE Verdict(key) = "ok"
  <2>1. extLog' = Append(extLog, key) /\ anchor' = [key |-> key, tooSoon |-> TRUE]
    BY <1>1 DEF emitExternalEvent
  <2> QED BY <1>1, <2>1 DEF WatchShape, Last, Anchor
<1>2. CASE Verdict(key) # "ok"
  BY <1>2 DEF emitExternalEvent
<1> QED BY <1>1, <1>2

LEMMA EmitHeadHolds ==
    ASSUME WatchInv, NEW i \in DOMAIN watcher, EmitHead(i) PROVE WatchInv'
<1> USE DEF WatchInv, WatchersHold
<1>1. PICK key, verdict : key = watcher[i].read /\ verdict = Verdict(key)
  OBVIOUS
<1>2. PICK taken : taken = IF verdict \in {"ok", "duplicate"} THEN key ELSE watcher[i].lastAccepted
  OBVIOUS
<1>3. /\ emitExternalEvent(key) /\ watcher[i].at = "read"
      /\ watcher' = [watcher EXCEPT ![i].at = "idle", ![i].lastAccepted = taken]
      /\ blurred' = (blurred \/ (watcher[i].stopped /\ verdict = "ok"))
      /\ UNCHANGED <<head, source, enabled, needed, checkpoint>>
  BY <1>1, <1>2 DEF EmitHead
<1>4. key \in Keys /\ watcher[i] \in WatcherRecord /\ taken \in Commit \cup {NoKey}
  <2>1. watcher[i] \in WatcherRecord
    BY Element DEF WatchShape
  <2> QED BY <1>1, <1>2, <2>1 DEF WatcherRecord, Keys
<1>5. PICK w : w = [watcher[i] EXCEPT !.at = "idle", !.lastAccepted = taken]
  OBVIOUS
<1>6. /\ w \in WatcherRecord /\ w.at # "dead" /\ w.stopped = watcher[i].stopped /\ w.lastAccepted = taken
      /\ watcher' = [watcher EXCEPT ![i] = w]
  BY <1>3, <1>4, <1>5 DEF WatcherRecord
<1>7. /\ watcher' \in Seq(WatcherRecord) /\ DOMAIN watcher' = DOMAIN watcher
      /\ watcher'[i] = w /\ \A j \in DOMAIN watcher : j # i => watcher'[j] = watcher[j]
      /\ \A j \in DOMAIN watcher : Awake(watcher'[j]) <=> Awake(watcher[j])
  <2>1. /\ watcher' \in Seq(WatcherRecord) /\ DOMAIN watcher' = DOMAIN watcher
        /\ watcher'[i] = w /\ \A j \in DOMAIN watcher : j # i => watcher'[j] = watcher[j]
    BY <1>6, OneChanged DEF WatchShape
  <2> QED BY <1>3, <1>6, <2>1 DEF Awake
<1>8. OneWatcher'
  <2>1. OneAwake(watcher, enabled /\ source = "active")
    BY OneWatcherIs
  <2>2. OneAwake(watcher', enabled' /\ source' = "active")
    BY <1>3, <1>7, <2>1 DEF OneAwake
  <2> QED BY <2>2, OneWatcherWill
<1>9. CASE verdict = "ok"
  <2>1. /\ extLog' \in Seq(Keys) /\ extLog' # <<>> /\ Last(extLog') = key
        /\ anchor' \in Anchor /\ anchor'.key = key
    BY <1>1, <1>3, <1>4, <1>9, EmitIs
  <2>2. QuietIsLogged'
    <3> SUFFICES ASSUME NEW j \in DOMAIN watcher, Awake(watcher'[j]), ~blurred'
                 PROVE  Last(extLog') = watcher'[j].lastAccepted
      BY <1>7, <2>1 DEF QuietIsLogged, Live, Awake
    <3>1. ~watcher[i].stopped /\ Awake(watcher[j])
      BY <1>3, <1>7, <1>9
    <3>2. Awake(watcher[i])
      BY <1>3, <3>1 DEF Awake
    <3>3. j = i
      BY <3>1, <3>2 DEF OneWatcher, Live, Awake
    <3> QED BY <1>2, <1>6, <1>7, <1>9, <2>1, <3>3
  <2>3. WatchShape' /\ Anchored'
    BY <1>3, <1>7, <2>1 DEF WatchShape, Anchored, Ends
  <2> QED BY <1>3, <1>8, <2>2, <2>3 DEF Suspended
<1>10. CASE verdict # "ok"
  <2>1. UNCHANGED <<extLog, anchor, blurred>>
    BY <1>1, <1>3, <1>4, <1>10, EmitIs DEF WatchShape
  <2>2. QuietIsLogged'
    <3> SUFFICES ASSUME NEW j \in DOMAIN watcher, Awake(watcher'[j]), ~blurred,
                        watcher'[j].lastAccepted # NoKey
                 PROVE  extLog # <<>> /\ Last(extLog) = watcher'[j].lastAccepted
      BY <1>7, <2>1 DEF QuietIsLogged, Live, Awake
    <3>1. CASE j = i /\ verdict = "duplicate"
      <4>1. key # NoKey /\ key = anchor.key
        BY <1>1, <3>1 DEF Verdict
      <4> QED BY <1>2, <1>6, <1>7, <3>1, <4>1 DEF Anchored, Ends
    <3>2. CASE ~(j = i /\ verdict = "duplicate")
      <4>1. watcher'[j].lastAccepted = watcher[j].lastAccepted
        BY <1>2, <1>6, <1>7, <1>10, <3>2
      <4> QED BY <1>7, <4>1 DEF QuietIsLogged, Live, Awake
    <3> QED BY <3>1, <3>2
  <2>3. WatchShape' /\ Anchored'
    BY <1>3, <1>7, <2>1 DEF WatchShape, Anchored, Ends
  <2> QED BY <1>3, <1>8, <2>2, <2>3 DEF Suspended
<1> QED BY <1>9, <1>10

LEMMA EmitForeignHolds ==
    ASSUME WatchInv, EmitForeign PROVE WatchInv'
<1> USE DEF WatchInv, WatchersHold
<1>1. PICK key \in {Foreign, NoKey} :
        emitExternalEvent(key) /\ blurred' = (blurred \/ Verdict(key) = "ok")
  BY DEF EmitForeign
<1>2. /\ key \in Keys
      /\ UNCHANGED <<head, source, watcher, enabled, needed, checkpoint>>
  BY DEF Keys, EmitForeign
<1>3. OneWatcher' /\ Suspended'
  BY <1>2 DEF OneWatcher, Live, Suspended
<1>4. CASE Verdict(key) = "ok"
  <2>1. /\ extLog' \in Seq(Keys) /\ extLog' # <<>> /\ anchor' \in Anchor /\ blurred' = TRUE
    BY <1>1, <1>2, <1>4, EmitIs
  <2> QED BY <1>2, <1>3, <2>1 DEF WatchShape, Anchored, QuietIsLogged, Ends
<1>5. CASE Verdict(key) # "ok"
  <2>1. UNCHANGED <<extLog, anchor, blurred>>
    BY <1>1, <1>2, <1>5, EmitIs DEF WatchShape
  <2> QED BY <1>2, <1>3, <2>1 DEF WatchShape, Anchored, QuietIsLogged, Live, Ends
<1> QED BY <1>4, <1>5

LEMMA RunCommandHolds ==
    ASSUME WatchInv, RunCommand PROVE WatchInv'
<1> USE DEF WatchInv, WatchersHold
<1>1. PICK c, wanted, fails :
        /\ c = Head(chain) /\ wanted = IF c.kind = "register" THEN "active" ELSE "removed"
        /\ fails = IF c.kind = "register" THEN source # "none" ELSE source = "none"
  OBVIOUS
<1>2. /\ fails => UNCHANGED <<source, watcher, enabled, needed>>
      /\ ~fails => source' = wanted /\ Settle(wanted, source # wanted, c.epoch)
      /\ UNCHANGED <<head, anchor, extLog, checkpoint, blurred>>
  BY <1>1 DEF RunCommand
<1>3. CASE fails
  BY <1>2, <1>3 DEF WatchShape, Suspended, Anchored, OneWatcher, QuietIsLogged, Live, Ends
<1>4. CASE ~fails
  <2>1. wanted \in {"none", "active", "removed"} /\ wanted # "none"
    BY <1>1
  <2>2. /\ watcher' \in Seq(WatcherRecord) /\ OneWatcher' /\ Suspended' /\ Renewed(watcher')
        /\ enabled' \in BOOLEAN /\ needed' \in BOOLEAN
    BY <1>2, <1>4, <2>1, SettleHolds
  <2>3. QuietIsLogged'
    BY <1>2, <2>2, QuietStays
  <2> QED BY <1>2, <1>4, <2>1, <2>2, <2>3 DEF WatchShape, Anchored, Ends
<1> QED BY <1>3, <1>4

LEMMA CommitSlowHolds ==
    ASSUME WatchInv, CommitSlow PROVE WatchInv'
<1> USE DEF WatchInv, WatchersHold
<1>1. /\ Settle(source, FALSE, Head(chain).epoch) /\ checkpoint' = Closed
      /\ UNCHANGED <<head, source, anchor, extLog, blurred>>
  BY DEF CommitSlow
<1>2. /\ watcher' \in Seq(WatcherRecord) /\ OneWatcher' /\ Suspended' /\ Renewed(watcher')
      /\ enabled' \in BOOLEAN /\ needed' \in BOOLEAN
  BY <1>1, SettleHolds DEF WatchShape
<1>3. QuietIsLogged'
  BY <1>1, <1>2, QuietStays
<1> QED BY <1>1, <1>2, <1>3 DEF WatchShape, Anchored, Ends

LEMMA AbortSlowHolds ==
    ASSUME WatchInv, AbortSlow PROVE WatchInv'
<1> USE DEF WatchInv, WatchersHold
<1>1. /\ checkpoint # Closed /\ anchor' = checkpoint.anchor /\ checkpoint' = Closed
      /\ blurred' = (blurred \/ anchor.key # checkpoint.anchor.key)
      /\ UNCHANGED <<head, source, extLog, watcher, enabled, needed>>
  BY DEF AbortSlow
<1>2. OneWatcher' /\ Suspended' /\ QuietIsLogged'
  BY <1>1 DEF OneWatcher, Live, Suspended, QuietIsLogged, WatchShape
<1>3. WatchShape' /\ Anchored'
  BY <1>1 DEF WatchShape, Anchored, Ends
<1> QED BY <1>2, <1>3

LEMMA SuspendHolds ==
    ASSUME WatchInv, suspendAdapters PROVE WatchInv'
<1> USE DEF WatchInv, WatchersHold
<1>1. /\ enabled' = FALSE /\ needed' = (needed \/ source = "active")
      /\ watcher' = stopAllAdapters(watcher)
      /\ UNCHANGED <<head, source, anchor, extLog, checkpoint, blurred>>
  BY DEF suspendAdapters
<1>2. /\ watcher' \in Seq(WatcherRecord) /\ \A i \in DOMAIN watcher' : ~Awake(watcher'[i])
  BY <1>1, StoppedAll DEF WatchShape
<1>3. OneWatcher' /\ QuietIsLogged'
  BY <1>1, <1>2 DEF OneWatcher, QuietIsLogged, Live, Awake
<1> QED BY <1>1, <1>2, <1>3 DEF WatchShape, Suspended, Anchored, Ends

LEMMA RestartHolds ==
    ASSUME WatchInv, recoverSourceAnchors PROVE WatchInv'
<1> USE DEF WatchInv, WatchersHold
<1>1. PICK dead : dead = [i \in DOMAIN watcher |-> [watcher[i] EXCEPT !.at = "dead"]]
  OBVIOUS
<1>2. /\ anchor' = [anchor EXCEPT !.key = IF extLog = <<>> THEN @ ELSE Last(extLog)]
      /\ watcher' = syncAdapterForSource(dead, source)
      /\ enabled' = TRUE /\ needed' = FALSE /\ checkpoint' = Closed /\ blurred' = FALSE
      /\ UNCHANGED <<head, source, extLog>>
  BY <1>1 DEF recoverSourceAnchors
<1>3. dead \in Seq(WatcherRecord)
  <2>1. \A i \in DOMAIN watcher : dead[i] \in WatcherRecord
    <3> SUFFICES ASSUME NEW i \in DOMAIN watcher PROVE dead[i] \in WatcherRecord
      OBVIOUS
    <3>1. watcher[i] \in WatcherRecord /\ dead[i] = [watcher[i] EXCEPT !.at = "dead"]
      BY <1>1, Element DEF WatchShape
    <3> QED BY <3>1 DEF WatcherRecord
  <2> QED BY <1>1, <2>1, InPlace DEF WatchShape
<1>4. /\ watcher' \in Seq(WatcherRecord) /\ OneAwake(watcher', source = "active")
      /\ \A i \in DOMAIN watcher' : Awake(watcher'[i]) => watcher'[i].lastAccepted = NoKey
  BY <1>2, <1>3, SyncLeavesOne
<1>5. OneWatcher'
  <2>1. OneAwake(watcher', enabled' /\ source' = "active")
    BY <1>2, <1>4
  <2> QED BY <2>1, OneWatcherWill
<1>6. QuietIsLogged'
  BY <1>4 DEF QuietIsLogged, Live, Awake
<1>7. /\ anchor' \in Anchor
      /\ extLog = <<>> => anchor'.key = anchor.key
      /\ extLog # <<>> => anchor'.key = Last(extLog)
  <2>1. extLog # <<>> => Last(extLog) \in Keys
    BY DEF WatchShape, Last
  <2> QED BY <1>2, <2>1 DEF WatchShape, Anchor
<1>8. WatchShape' /\ Anchored' /\ Suspended'
  BY <1>2, <1>4, <1>7 DEF WatchShape, Anchored, Suspended, Ends
<1> QED BY <1>5, <1>6, <1>8

LEMMA WatchStep == WatchInv /\ [IngestNext]_ingestVars => WatchInv'
<1> SUFFICES ASSUME WatchInv, [IngestNext]_ingestVars PROVE WatchInv'
  OBVIOUS
<1>1. ASSUME UNCHANGED <<source, extLog, watcher, enabled, needed, blurred>>, head' \in Commit,
             anchor' \in Anchor, anchor'.key = anchor.key,
             checkpoint' = checkpoint \/ checkpoint'.anchor = anchor
      PROVE  WatchInv'
  BY <1>1
  DEF WatchInv, WatchShape, Suspended, Anchored, Ends, WatchersHold, OneWatcher, QuietIsLogged, Live
<1>2. CASE MoveHead \/ (\E kind \in {"register", "remove", "slow"} : Submit(kind)) \/ UNCHANGED ingestVars
  BY <1>1, <1>2 DEF MoveHead, Submit, ingestVars, WatchInv, WatchShape
<1>3. CASE IntervalOver
  <2>1. anchor' \in Anchor /\ anchor'.key = anchor.key
    BY <1>3 DEF IntervalOver, Anchor, WatchInv, WatchShape
  <2> QED BY <1>1, <1>3, <2>1 DEF IntervalOver, WatchInv, WatchShape
<1>4. CASE OpenSlow
  <2>1. checkpoint'.anchor = anchor
    BY <1>4 DEF OpenSlow
  <2> QED BY <1>1, <1>4, <2>1 DEF OpenSlow, WatchInv, WatchShape
<1>5. ASSUME NEW i \in DOMAIN watcher, Poll(i) \/ EmitHead(i) PROVE WatchInv'
  BY <1>5, PollHolds, EmitHeadHolds
<1> QED
  BY <1>2, <1>3, <1>4, <1>5, EmitForeignHolds, RunCommandHolds, CommitSlowHolds, AbortSlowHolds,
     SuspendHolds, RestartHolds
  DEF IngestNext

LEMMA WatchInit == IngestInit => WatchInv
<1> SUFFICES ASSUME IngestInit PROVE WatchInv
  OBVIOUS
<1>1. anchor \in Anchor /\ anchor.key = NoKey
  BY DEF IngestInit, Anchor, Keys
<1>2. WatchShape
  <2>1. extLog \in Seq(Keys) /\ watcher \in Seq(WatcherRecord)
    BY DEF IngestInit
  <2>2. head \in Commit /\ source = "none" /\ checkpoint = Closed
    BY DEF IngestInit
  <2>3. enabled \in BOOLEAN /\ needed \in BOOLEAN /\ blurred \in BOOLEAN
    BY DEF IngestInit
  <2> QED BY <1>1, <2>1, <2>2, <2>3 DEF WatchShape
<1>3. watcher = <<>> /\ source = "none" /\ checkpoint = Closed
  BY DEF IngestInit
<1>4. WatchersHold /\ Suspended /\ Anchored
  BY <1>1, <1>3 DEF Suspended, Anchored, WatchersHold, OneWatcher, QuietIsLogged
<1> QED BY <1>2, <1>4 DEF WatchInv

(* A source has one live watcher while it is active and adapters run and     *)
(* none otherwise, and one that is quiet has its head in the log, for any    *)
(* order of registrations, removals, killAll, late commits and restarts.     *)
THEOREM WatchersAlwaysHold == IngestSpec => []WatchersHold
<1>1. WatchInv => WatchersHold
  BY DEF WatchInv
<1> QED BY <1>1, WatchInit, WatchStep, PTL DEF IngestSpec

(* The commands that wait carry the epoch of a killAll that has happened,   *)
(* and the open one is the first of them.                                   *)
Submitted == [kind : {"register", "remove", "slow"}, epoch : 0..MaxStir]
Booked ==
    /\ stirs \in 0..MaxStir /\ lifecycle \in 0..stirs
    /\ chain \in Seq(Submitted)
    /\ checkpoint # Closed => chain # <<>>

LEMMA BookedStep == Booked /\ [IngestNext]_ingestVars => Booked'
<1> SUFFICES ASSUME Booked, [IngestNext]_ingestVars PROVE Booked'
  OBVIOUS
<1> USE IngestAssumption
<1>1. MaxStir \in Nat
  OBVIOUS
<1>2. CASE UNCHANGED <<stirs, lifecycle, chain, checkpoint>>
  BY <1>2 DEF Booked
<1>3. ASSUME Stir, lifecycle' \in {0, lifecycle, lifecycle + 1},
             UNCHANGED <<chain, checkpoint>>
      PROVE  Booked'
  BY <1>1, <1>3 DEF Booked, Stir
<1>4. ASSUME chain # <<>>, chain' = Tail(chain), checkpoint' = Closed,
             UNCHANGED <<stirs, lifecycle>>
      PROVE  Booked'
  BY <1>4 DEF Booked
<1>5. ASSUME NEW kind \in {"register", "remove", "slow"}, Submit(kind) PROVE Booked'
  <2> DEFINE c == [kind |-> kind, epoch |-> lifecycle]
  <2>1. c \in Submitted
    BY <1>1 DEF Booked, Submitted
  <2>2. Append(chain, c) \in Seq(Submitted) /\ Append(chain, c) # <<>>
    BY <2>1 DEF Booked
  <2>3. stirs' \in 0..MaxStir /\ lifecycle' \in 0..stirs'
    BY <1>1, <1>5 DEF Booked, Submit, Stir
  <2> QED BY <1>5, <2>2, <2>3 DEF Booked, Submit
<1>6. CASE OpenSlow
  BY <1>6 DEF Booked, OpenSlow
<1>7. CASE recoverSourceAnchors
  <2>1. stirs' \in 0..MaxStir /\ lifecycle' = 0 /\ chain' = <<>> /\ checkpoint' = Closed
    BY <1>1, <1>7 DEF Booked, recoverSourceAnchors, Stir
  <2> QED BY <2>1 DEF Booked
<1>8. CASE RunCommand \/ CommitSlow \/ AbortSlow
  <2>1. chain # <<>> /\ chain' = Tail(chain) /\ checkpoint' = Closed
    BY <1>8 DEF Booked, RunCommand, CommitSlow, AbortSlow
  <2>2. UNCHANGED <<stirs, lifecycle>>
    BY <1>8 DEF RunCommand, CommitSlow, AbortSlow
  <2> QED BY <1>4, <2>1, <2>2
<1>9. CASE MoveHead \/ EmitForeign \/ suspendAdapters
  BY <1>3, <1>9 DEF MoveHead, EmitForeign, suspendAdapters
<1>10. CASE IntervalOver \/ UNCHANGED ingestVars \/ \E i \in DOMAIN watcher : Poll(i) \/ EmitHead(i)
  BY <1>2, <1>10 DEF IntervalOver, ingestVars, Poll, EmitHead
<1> QED BY <1>5, <1>6, <1>7, <1>8, <1>9, <1>10 DEF IngestNext

(* What an external source keeps has its type: the epochs the waiting       *)
(* commands captured never outgrow the calls of killAll.                    *)
THEOREM IngestTyped == IngestSpec => []IngestTypeOK
<1>1. IngestInit => Booked
  BY IngestAssumption DEF IngestInit, Booked, Closed
<1>2. WatchInv /\ Booked => IngestTypeOK
  <2> SUFFICES ASSUME WatchInv, Booked PROVE IngestTypeOK
    OBVIOUS
  <2>1. lifecycle \in Nat
    BY IngestAssumption DEF Booked
  <2>2. ASSUME NEW c \in ToSet(chain)
        PROVE  c.kind \in {"register", "remove", "slow"} /\ c.epoch <= MaxStir
    <3>1. PICK i \in DOMAIN chain : c = chain[i]
      BY DEF ToSet
    <3>2. c \in Submitted
      BY <3>1, Element DEF Booked
    <3> QED BY <3>2, IngestAssumption DEF Submitted
  <2>3. {enabled, needed, blurred} \subseteq BOOLEAN
    BY DEF WatchInv, WatchShape
  <2> QED BY <2>1, <2>2, <2>3 DEF WatchInv, WatchShape, IngestTypeOK, Anchor, WatcherRecord
<1> QED BY <1>1, <1>2, WatchInit, WatchStep, BookedStep, PTL DEF IngestSpec

-----------------------------------------------------------------------------
(* The graph.                                                              *)

OnStack(t) == ToSet(t.stack)
Entered(t) == DOMAIN t.index
Placed(t) == DOMAIN t.of
Graph(next) == next \in [DOMAIN next -> SUBSET DOMAIN next] /\ IsFiniteSet(DOMAIN next)

(* A set of nodes that no edge leaves; what lies in each of them that has v. *)
Sealed(ns, next) == ns \subseteq DOMAIN next /\ \A x \in ns : next[x] \subseteq ns
Leads(v, u, next) == \A ns \in SUBSET DOMAIN next : Sealed(ns, next) /\ v \in ns => u \in ns

Frame(next) == [node : DOMAIN next, left : SUBSET DOMAIN next]
TarjanShape(t, next) ==
  /\ t = [index |-> t.index, low |-> t.low, of |-> t.of, stack |-> t.stack, work |-> t.work]
  /\ t.index \in [Entered(t) -> Nat] /\ t.low \in [Entered(t) -> Nat]
  /\ t.of \in [Placed(t) -> Placed(t)]
  /\ t.stack \in Seq(DOMAIN next) /\ t.work \in Seq(Frame(next))
  /\ Entered(t) \subseteq DOMAIN next /\ Entered(t) = Placed(t) \cup OnStack(t)
  /\ Placed(t) \cap OnStack(t) = {}
  /\ \A n \in Entered(t) : t.index[n] < Cardinality(Entered(t))

StackClimbs(t) == \A i, j \in DOMAIN t.stack : i < j => t.index[t.stack[i]] < t.index[t.stack[j]]
FramesClimb(t) == \A k, l \in DOMAIN t.work : k < l => t.index[t.work[k].node] < t.index[t.work[l].node]
FramesFollow(t, next) ==
  /\ \A k \in DOMAIN t.work : t.work[k].node \in OnStack(t) /\ t.work[k].left \subseteq next[t.work[k].node]
  /\ \A k \in DOMAIN t.work : k + 1 \in DOMAIN t.work => t.work[k + 1].node \in next[t.work[k].node]

(* low names a node of the stack that the node leads to, no later than itself. *)
LowIsReached(t, next) ==
  \A v \in OnStack(t) : /\ t.low[v] <= t.index[v]
                        /\ \E u \in OnStack(t) : t.index[u] = t.low[v] /\ Leads(v, u, next)

(* The frame below which a node of the stack was entered.                  *)
Under(t, k, v, next) ==
  /\ t.index[t.work[k].node] <= t.index[v] /\ t.low[t.work[k].node] <= t.low[v]
  /\ k + 1 \in DOMAIN t.work => t.index[v] < t.index[t.work[k + 1].node]
  /\ Leads(t.work[k].node, v, next)
AllUnder(t, next) == \A v \in OnStack(t) : \E k \in DOMAIN t.work : Under(t, k, v, next)

Framed(t, v) == \E k \in DOMAIN t.work : t.work[k].node = v
LeftLow(t) == \A v \in OnStack(t) : Framed(t, v) \/ t.low[v] < t.index[v]

(* What is known of an edge to u that a node v of the stack has.           *)
Ahead(t, v, u) ==
  \E k \in DOMAIN t.work : /\ t.work[k].node = v
                           /\ u \in t.work[k].left \/ (k + 1 \in DOMAIN t.work /\ u = t.work[k + 1].node)
Known(t, v, u) == u \in Placed(t) \/ (u \in OnStack(t) /\ t.low[v] <= t.index[u]) \/ Ahead(t, v, u)
EdgesKnown(t, next, but) ==
  \A v \in OnStack(t) : \A u \in next[v] : <<v, u>> \in but \/ Known(t, v, u)

(* Nodes are placed with those, and only those, that lead to one another.  *)
Apart(x, y, next) == \E ns \in SUBSET DOMAIN next : Sealed(ns, next) /\ ~(x \in ns <=> y \in ns)
PlacedRight(t, next) ==
  /\ Sealed(Placed(t), next)
  /\ \A x, y \in Placed(t) : t.of[x] = t.of[y] <=> ~Apart(x, y, next)

Midway(t, next, but) ==
  /\ TarjanShape(t, next) /\ StackClimbs(t) /\ FramesClimb(t) /\ FramesFollow(t, next)
  /\ LowIsReached(t, next) /\ AllUnder(t, next) /\ LeftLow(t) /\ EdgesKnown(t, next, but)
  /\ PlacedRight(t, next)

Looked(t, next) ==
  {e \in Entered(t) \X DOMAIN next :
     ~\E k \in DOMAIN t.work : t.work[k].node = e[1] /\ e[2] \in t.work[k].left}
Left(t) == {v \in Entered(t) : ~Framed(t, v)}
Work(t, next) == Cardinality(Entered(t)) + Cardinality(Left(t)) + Cardinality(Looked(t, next))
AtEnd(t, next) == t.work = <<>> /\ Entered(t) = DOMAIN next

-----------------------------------------------------------------------------
(* Leading.                                                                *)

(* Each node leads to itself, to its neighbours, and on from where it leads. *)
LEMMA Leading ==
  ASSUME NEW next
  PROVE  /\ \A v : Leads(v, v, next)
         /\ \A v, u, w : Leads(v, u, next) /\ Leads(u, w, next) => Leads(v, w, next)
         /\ \A v \in DOMAIN next : \A u \in next[v] : Leads(v, u, next)
BY DEF Leads, Sealed

(* The shape of the stacks.                                                *)
LEMMA StackTyped ==
  ASSUME NEW t, NEW next, TarjanShape(t, next)
  PROVE  /\ OnStack(t) \subseteq Entered(t) /\ OnStack(t) \subseteq DOMAIN next
         /\ Len(t.stack) \in Nat /\ DOMAIN t.stack = 1 .. Len(t.stack)
         /\ \A i \in DOMAIN t.stack : t.stack[i] \in OnStack(t)
         /\ \A v \in OnStack(t) : \E i \in DOMAIN t.stack : t.stack[i] = v
         /\ \A v \in OnStack(t) : t.index[v] \in Nat /\ t.low[v] \in Nat
         /\ Len(t.work) \in Nat /\ DOMAIN t.work = 1 .. Len(t.work)
         /\ \A k \in DOMAIN t.work : t.work[k].node \in DOMAIN next /\ t.work[k].left \subseteq DOMAIN next
<1>1. DOMAIN t.stack = 1 .. Len(t.stack) /\ Len(t.stack) \in Nat
  BY DEF TarjanShape
<1>2. DOMAIN t.work = 1 .. Len(t.work) /\ Len(t.work) \in Nat
  BY DEF TarjanShape
<1>3. OnStack(t) = {t.stack[i] : i \in DOMAIN t.stack}
  BY DEF OnStack, ToSet
<1>4. \A k \in DOMAIN t.work : t.work[k] \in Frame(next)
  BY <1>2 DEF TarjanShape
<1>5. OnStack(t) \subseteq Entered(t) /\ OnStack(t) \subseteq DOMAIN next
  BY DEF TarjanShape
<1>6. \A v \in OnStack(t) : t.index[v] \in Nat /\ t.low[v] \in Nat
  BY <1>5 DEF TarjanShape
<1> QED BY <1>1, <1>2, <1>3, <1>4, <1>5, <1>6 DEF Frame

(* What the step that enters a node changes.                               *)
Entering(t, u, n, next) ==
  /\ u = [index |-> u.index, low |-> u.low, of |-> u.of, stack |-> u.stack, work |-> u.work]
  /\ Entered(u) = Entered(t) \cup {n} /\ u.index \in [Entered(u) -> Nat] /\ u.low \in [Entered(u) -> Nat]
  /\ u.index[n] = Cardinality(Entered(t)) /\ u.low[n] = u.index[n]
  /\ \A v \in Entered(t) : u.index[v] = t.index[v] /\ u.low[v] = t.low[v]
  /\ u.of = t.of /\ u.stack = Append(t.stack, n)
  /\ u.work = Append(t.work, [node |-> n, left |-> next[n]])
LEMMA EntersIs ==
  ASSUME NEW next, Graph(next), NEW t, TarjanShape(t, next), NEW n \in DOMAIN next, n \notin Entered(t)
  PROVE  Entering(t, Enters(t, n, next), n, next)
<1>0. IsFiniteSet(Entered(t))
  BY FS_Subset DEF TarjanShape, Graph
<1>1. Cardinality(Entered(t)) \in Nat
  BY <1>0, FS_CardinalityType
<1> DEFINE c == Cardinality(DOMAIN t.index)
           u == Enters(t, n, next)
<1>2. t = [index |-> t.index, low |-> t.low, of |-> t.of, stack |-> t.stack, work |-> t.work]
  BY DEF TarjanShape
<1>3. u = [index |-> Adding(t.index, {n}, c), low |-> Adding(t.low, {n}, c), of |-> t.of,
           stack |-> Append(t.stack, n), work |-> Append(t.work, [node |-> n, left |-> next[n]])]
  BY DEF Enters
<1>4. \A f \in [Entered(t) -> Nat] : 
        /\ Adding(f, {n}, c) \in [Entered(t) \cup {n} -> Nat] /\ Adding(f, {n}, c)[n] = c
        /\ \A v \in Entered(t) : Adding(f, {n}, c)[v] = f[v]
  BY <1>1 DEF Adding, Entered
<1>5. t.index \in [Entered(t) -> Nat] /\ t.low \in [Entered(t) -> Nat]
  BY DEF TarjanShape
<1> HIDE DEF u
<1>6. /\ u.index = Adding(t.index, {n}, c) /\ u.low = Adding(t.low, {n}, c) /\ u.of = t.of
      /\ u.stack = Append(t.stack, n) /\ u.work = Append(t.work, [node |-> n, left |-> next[n]])
      /\ u = [index |-> u.index, low |-> u.low, of |-> u.of, stack |-> u.stack, work |-> u.work]
  BY <1>3
<1>7. Entered(u) = Entered(t) \cup {n}
  BY <1>4, <1>5, <1>6 DEF Entered
<1>8. Entering(t, u, n, next)
  BY <1>4, <1>5, <1>6, <1>7 DEF Entering, Entered
<1> QED BY <1>8 DEF u

(* Entering a node, from the frame of a node that has it for a neighbour, or with no frame. *)
EntersFrom(t, n, but, next) ==
  \/ t.work = <<>> /\ but = {}
  \/ /\ t.work # <<>> /\ n \in next[t.work[Len(t.work)].node]
     /\ but \subseteq {<<t.work[Len(t.work)].node, n>>}
LEMMA EnterKeeps ==
  ASSUME NEW next, Graph(next), NEW t, NEW n \in DOMAIN next, n \notin Entered(t), NEW but,
         Midway(t, next, but), EntersFrom(t, n, but, next), NEW u, Entering(t, u, n, next)
  PROVE  Midway(u, next, {})
<1> DEFINE c == Cardinality(Entered(t))
<1>1. TarjanShape(t, next)
  BY DEF Midway
<1>2. IsFiniteSet(Entered(t)) /\ c \in Nat /\ Cardinality(Entered(t) \cup {n}) = c + 1
  <2>1. IsFiniteSet(Entered(t))
    BY <1>1, FS_Subset DEF TarjanShape, Graph
  <2> QED BY <2>1, FS_CardinalityType, FS_AddElement
<1> HIDE DEF c
<1>3. /\ Entered(u) = Entered(t) \cup {n} /\ u.index \in [Entered(u) -> Nat] /\ u.low \in [Entered(u) -> Nat]
      /\ u.index[n] = c /\ u.low[n] = c /\ u.of = t.of
      /\ \A v \in Entered(t) : u.index[v] = t.index[v] /\ u.low[v] = t.low[v]
  BY DEF Entering, c
<1>4. /\ t.stack \in Seq(DOMAIN next) /\ t.work \in Seq(Frame(next))
      /\ [node |-> n, left |-> next[n]] \in Frame(next)
  BY <1>1 DEF TarjanShape, Graph, Frame
<1>5. /\ u.stack \in Seq(DOMAIN next) /\ DOMAIN u.stack = DOMAIN t.stack \cup {Len(t.stack) + 1}
      /\ \A i \in DOMAIN t.stack : u.stack[i] = t.stack[i]
      /\ u.stack[Len(t.stack) + 1] = n
  BY <1>4, Appended DEF Entering
<1>6. /\ u.work \in Seq(Frame(next)) /\ DOMAIN u.work = DOMAIN t.work \cup {Len(t.work) + 1}
      /\ \A k \in DOMAIN t.work : u.work[k] = t.work[k]
      /\ u.work[Len(t.work) + 1].node = n /\ u.work[Len(t.work) + 1].left = next[n]
  BY <1>4, Appended DEF Entering
<1>7. OnStack(u) = OnStack(t) \cup {n}
  <2>1. OnStack(u) = {u.stack[i] : i \in DOMAIN u.stack} /\ OnStack(t) = {t.stack[i] : i \in DOMAIN t.stack}
    BY DEF OnStack, ToSet
  <2> QED BY <1>5, <2>1
<1>8. Placed(u) = Placed(t)
  BY <1>3 DEF Placed
<1>9. TarjanShape(u, next)
  <2>1. u = [index |-> u.index, low |-> u.low, of |-> u.of, stack |-> u.stack, work |-> u.work]
    BY DEF Entering
  <2>2. \A v \in Entered(u) : u.index[v] < Cardinality(Entered(u))
    <3>1. \A v \in Entered(t) : t.index[v] < c /\ t.index[v] \in Nat
      BY <1>1 DEF TarjanShape, c
    <3> QED BY <1>2, <1>3, <3>1
  <2>3. /\ Entered(t) \subseteq DOMAIN next /\ Entered(t) = Placed(t) \cup OnStack(t)
        /\ Placed(t) \cap OnStack(t) = {} /\ t.of \in [Placed(t) -> Placed(t)]
    BY <1>1 DEF TarjanShape
  <2>4. u.of \in [Placed(u) -> Placed(u)]
    BY <1>3, <1>8, <2>3
  <2>5. /\ Entered(u) \subseteq DOMAIN next /\ Entered(u) = Placed(u) \cup OnStack(u)
        /\ Placed(u) \cap OnStack(u) = {}
    BY <1>3, <1>7, <1>8, <2>3
  <2>6. u.index \in [Entered(u) -> Nat] /\ u.low \in [Entered(u) -> Nat]
    BY <1>3
  <2> QED BY <1>5, <1>6, <2>1, <2>2, <2>4, <2>5, <2>6 DEF TarjanShape
<1>10. \A v \in Entered(t) : t.index[v] \in Nat /\ t.low[v] \in Nat /\ t.index[v] < c
  BY <1>1 DEF TarjanShape, c
<1>11. /\ DOMAIN t.stack = 1 .. Len(t.stack) /\ Len(t.stack) \in Nat
       /\ DOMAIN t.work = 1 .. Len(t.work) /\ Len(t.work) \in Nat
       /\ \A i \in DOMAIN t.stack : t.stack[i] \in OnStack(t)
       /\ OnStack(t) \subseteq Entered(t)
  BY <1>1, StackTyped
<1>12. StackClimbs(u)
  <2>1. StackClimbs(t)
    BY DEF Midway
  <2>2. ASSUME NEW i \in DOMAIN u.stack, NEW j \in DOMAIN u.stack, i < j
        PROVE  u.index[u.stack[i]] < u.index[u.stack[j]]
    <3>1. i \in DOMAIN t.stack
      BY <1>5, <1>11, <2>2
    <3>2. u.stack[i] = t.stack[i] /\ t.stack[i] \in Entered(t)
      BY <1>5, <1>11, <3>1
    <3>3. CASE j \in DOMAIN t.stack
      BY <1>3, <1>5, <1>11, <2>1, <2>2, <3>1, <3>2, <3>3 DEF StackClimbs
    <3>4. CASE j = Len(t.stack) + 1
      BY <1>3, <1>5, <1>10, <3>2, <3>4
    <3> QED BY <1>5, <3>3, <3>4
  <2> QED BY <2>2 DEF StackClimbs
<1>13. \A k \in DOMAIN t.work : t.work[k].node \in OnStack(t) /\ t.work[k].node \in Entered(t)
  BY <1>11 DEF Midway, FramesFollow
<1>14. FramesClimb(u)
  <2>1. FramesClimb(t)
    BY DEF Midway
  <2>2. ASSUME NEW i \in DOMAIN u.work, NEW j \in DOMAIN u.work, i < j
        PROVE  u.index[u.work[i].node] < u.index[u.work[j].node]
    <3>1. i \in DOMAIN t.work
      BY <1>6, <1>11, <2>2
    <3>2. u.work[i] = t.work[i] /\ t.work[i].node \in Entered(t)
      BY <1>6, <1>13, <3>1
    <3>3. CASE j \in DOMAIN t.work
      <4>1. t.index[t.work[i].node] < t.index[t.work[j].node]
        BY <2>1, <2>2, <3>1, <3>3 DEF FramesClimb
      <4>2. u.work[j] = t.work[j] /\ t.work[j].node \in Entered(t)
        BY <1>6, <1>13, <3>3
      <4> QED BY <1>3, <3>2, <4>1, <4>2
    <3>4. CASE j = Len(t.work) + 1
      BY <1>3, <1>6, <1>10, <3>2, <3>4
    <3> QED BY <1>6, <3>3, <3>4
  <2> QED BY <2>2 DEF FramesClimb
<1>15. t.work # <<>> => Len(t.work) \in DOMAIN t.work /\ n \in next[t.work[Len(t.work)].node]
  BY <1>4, <1>11 DEF EntersFrom
<1>16. t.work = <<>> => DOMAIN t.work = {} /\ Len(t.work) = 0
  OBVIOUS
<1>17. FramesFollow(u, next)
  <2>1. FramesFollow(t, next)
    BY DEF Midway
  <2>2. ASSUME NEW k \in DOMAIN u.work
        PROVE  u.work[k].node \in OnStack(u) /\ u.work[k].left \subseteq next[u.work[k].node]
    BY <1>6, <1>7, <2>1 DEF FramesFollow
  <2>3. ASSUME NEW k \in DOMAIN u.work, k + 1 \in DOMAIN u.work
        PROVE  u.work[k + 1].node \in next[u.work[k].node]
    <3>1. k \in DOMAIN t.work
      BY <1>6, <1>11, <2>3
    <3>2. CASE k + 1 \in DOMAIN t.work
      BY <1>6, <2>1, <3>1, <3>2 DEF FramesFollow
    <3>3. CASE k + 1 = Len(t.work) + 1
      <4>1. k = Len(t.work)
        BY <1>11, <3>1, <3>3
      <4>2. t.work # <<>>
        BY <1>16, <3>1
      <4> QED BY <1>6, <1>15, <3>1, <4>1, <4>2
    <3> QED BY <1>6, <2>3, <3>2, <3>3
  <2> QED BY <2>2, <2>3 DEF FramesFollow
<1>18. LowIsReached(u, next)
  <2>1. LowIsReached(t, next)
    BY DEF Midway
  <2>2. ASSUME NEW v \in OnStack(u)
        PROVE  /\ u.low[v] <= u.index[v]
               /\ \E w \in OnStack(u) : u.index[w] = u.low[v] /\ Leads(v, w, next)
    <3>1. CASE v = n
      BY <1>2, <1>3, <1>7, <3>1, Leading
    <3>2. CASE v \in OnStack(t)
      BY <1>3, <1>7, <1>11, <2>1, <3>2 DEF LowIsReached
    <3> QED BY <1>7, <3>1, <3>2
  <2> QED BY <2>2 DEF LowIsReached
<1>19. AllUnder(u, next)
  <2>1. AllUnder(t, next)
    BY DEF Midway
  <2>2. ASSUME NEW v \in OnStack(t)
        PROVE  \E k \in DOMAIN u.work : Under(u, k, v, next)
    <3>1. PICK k \in DOMAIN t.work : Under(t, k, v, next)
      BY <2>1 DEF AllUnder
    <3>2. v \in Entered(t) /\ k \in DOMAIN u.work /\ u.work[k] = t.work[k] /\ t.work[k].node \in Entered(t)
      BY <1>6, <1>11, <1>13, <3>1
    <3>3. k + 1 \in DOMAIN u.work => u.index[v] < u.index[u.work[k + 1].node]
      <4>1. CASE k + 1 \in DOMAIN t.work
        BY <1>3, <1>6, <1>13, <3>1, <3>2, <4>1 DEF Under
      <4>2. CASE k + 1 = Len(t.work) + 1
        BY <1>3, <1>6, <1>10, <3>2, <4>2
      <4> QED BY <1>6, <4>1, <4>2
    <3> QED BY <1>3, <3>1, <3>2, <3>3 DEF Under
  <2>3. Under(u, Len(t.work) + 1, n, next)
    <3>1. Len(t.work) + 1 + 1 \notin DOMAIN u.work
      BY <1>6, <1>11
    <3> QED BY <1>2, <1>3, <1>6, <3>1, Leading DEF Under
  <2>4. ASSUME NEW v \in OnStack(u)
        PROVE  \E k \in DOMAIN u.work : Under(u, k, v, next)
    BY <1>6, <1>7, <2>2, <2>3
  <2> QED BY <2>4 DEF AllUnder
<1>20. LeftLow(u)
  BY <1>3, <1>6, <1>7, <1>11 DEF Midway, LeftLow, Framed
<1>21. EdgesKnown(u, next, {})
  <2>1. EdgesKnown(t, next, but)
    BY DEF Midway
  <2>2. ASSUME NEW v \in OnStack(t), NEW w \in next[v]
        PROVE  Known(u, v, w)
    <3>1. CASE <<v, w>> \in but
      <4>1. t.work # <<>> /\ v = t.work[Len(t.work)].node /\ w = n
        BY <3>1 DEF EntersFrom
      <4>2. Len(t.work) \in DOMAIN u.work /\ Len(t.work) + 1 \in DOMAIN u.work
            /\ u.work[Len(t.work)].node = v /\ u.work[Len(t.work) + 1].node = w
        BY <1>6, <1>15, <4>1
      <4> QED BY <4>2 DEF Known, Ahead
    <3>2. CASE Ahead(t, v, w)
      <4>1. PICK k \in DOMAIN t.work :
              /\ t.work[k].node = v
              /\ w \in t.work[k].left \/ (k + 1 \in DOMAIN t.work /\ w = t.work[k + 1].node)
        BY <3>2 DEF Ahead
      <4>2. k \in DOMAIN u.work /\ u.work[k] = t.work[k]
        BY <1>6, <4>1
      <4>3. k + 1 \in DOMAIN t.work => k + 1 \in DOMAIN u.work /\ u.work[k + 1] = t.work[k + 1]
        BY <1>6
      <4> QED BY <4>1, <4>2, <4>3 DEF Known, Ahead
    <3>3. CASE w \in Placed(t)
      BY <1>8, <3>3 DEF Known
    <3>4. CASE w \in OnStack(t) /\ t.low[v] <= t.index[w]
      BY <1>3, <1>7, <1>11, <3>4 DEF Known
    <3> QED BY <2>1, <3>1, <3>2, <3>3, <3>4 DEF EdgesKnown, Known
  <2>3. ASSUME NEW w \in next[n]
        PROVE  Known(u, n, w)
    BY <1>6 DEF Known, Ahead
  <2> QED BY <1>7, <2>2, <2>3 DEF EdgesKnown
<1>22. PlacedRight(u, next)
  BY <1>3, <1>8 DEF Midway, PlacedRight
<1> QED BY <1>9, <1>12, <1>14, <1>17, <1>18, <1>19, <1>20, <1>21, <1>22 DEF Midway


(* What looking at a neighbour takes from the last frame.                  *)
Moved(t, m) == [t EXCEPT !.work[Len(t.work)].left = @ \ {m}]
LEMMA MovedIs ==
  ASSUME NEW next, NEW t, TarjanShape(t, next), t.work # <<>>, NEW m
  PROVE  LET u == Moved(t, m) IN
         /\ u = [index |-> t.index, low |-> t.low, of |-> t.of, stack |-> t.stack, work |-> u.work]
         /\ u.work \in Seq(Frame(next)) /\ Len(u.work) = Len(t.work) /\ DOMAIN u.work = DOMAIN t.work
         /\ Len(t.work) \in DOMAIN t.work
         /\ \A k \in DOMAIN t.work : k # Len(t.work) => u.work[k] = t.work[k]
         /\ u.work[Len(t.work)].node = t.work[Len(t.work)].node
         /\ u.work[Len(t.work)].left = t.work[Len(t.work)].left \ {m}
<1> DEFINE u == Moved(t, m)
           e == Len(t.work)
           f == [node |-> t.work[e].node, left |-> t.work[e].left \ {m}]
<1>1. t = [index |-> t.index, low |-> t.low, of |-> t.of, stack |-> t.stack, work |-> t.work]
  BY DEF TarjanShape
<1>2. t.work \in Seq(Frame(next)) /\ e \in DOMAIN t.work /\ t.work[e] \in Frame(next)
  BY DEF TarjanShape
<1>3. [t.work[e] EXCEPT !.left = @ \ {m}] = f /\ f \in Frame(next)
  <2>1. \A r \in [node : DOMAIN next, left : SUBSET DOMAIN next] :
          /\ [r EXCEPT !.left = @ \ {m}] = [node |-> r.node, left |-> r.left \ {m}]
          /\ r.node \in DOMAIN next /\ r.left \ {m} \subseteq DOMAIN next
    OBVIOUS
  <2> QED BY <1>2, <2>1 DEF Frame
<1>4. u = [t EXCEPT !.work = [t.work EXCEPT ![e] = [t.work[e] EXCEPT !.left = @ \ {m}]]]
  BY DEF Moved
<1>5. u = [index |-> t.index, low |-> t.low, of |-> t.of, stack |-> t.stack, work |-> [t.work EXCEPT ![e] = f]]
  BY <1>1, <1>3, <1>4
<1>6. u.work = [t.work EXCEPT ![e] = f]
  BY <1>5
<1> HIDE DEF u
<1>7. u.work \in Seq(Frame(next)) /\ Len(u.work) = Len(t.work) /\ DOMAIN u.work = DOMAIN t.work
  BY <1>2, <1>3, <1>6
<1>8. u.work[e] = f /\ \A k \in DOMAIN t.work : k # e => u.work[k] = t.work[k]
  BY <1>2, <1>6
<1>9. u = [index |-> t.index, low |-> t.low, of |-> t.of, stack |-> t.stack, work |-> u.work]
  BY <1>5, <1>6
<1> QED BY <1>2, <1>7, <1>8, <1>9 DEF u

LEMMA MovedKeeps ==
  ASSUME NEW next, NEW t, Midway(t, next, {}), t.work # <<>>, NEW m
  PROVE  Midway(Moved(t, m), next, {<<t.work[Len(t.work)].node, m>>})
<1> DEFINE u == Moved(t, m)
           e == Len(t.work)
<1>0. TarjanShape(t, next)
  BY DEF Midway
<1>1. /\ u = [index |-> t.index, low |-> t.low, of |-> t.of, stack |-> t.stack, work |-> u.work]
      /\ u.work \in Seq(Frame(next)) /\ DOMAIN u.work = DOMAIN t.work /\ e \in DOMAIN t.work
      /\ \A k \in DOMAIN t.work : k # e => u.work[k] = t.work[k]
      /\ u.work[e].node = t.work[e].node /\ u.work[e].left = t.work[e].left \ {m}
  BY <1>0, MovedIs
<1> HIDE DEF u, e
<1>2. u.index = t.index /\ u.low = t.low /\ u.of = t.of /\ u.stack = t.stack
  BY <1>1
<1>3. \A k \in DOMAIN t.work : u.work[k].node = t.work[k].node /\ u.work[k].left \subseteq t.work[k].left
  BY <1>1
<1>4. OnStack(u) = OnStack(t) /\ Entered(u) = Entered(t) /\ Placed(u) = Placed(t)
  BY <1>2 DEF OnStack, Entered, Placed
<1>5. TarjanShape(u, next)
  <2>1. u = [index |-> u.index, low |-> u.low, of |-> u.of, stack |-> u.stack, work |-> u.work]
    BY <1>1, <1>2
  <2> QED BY <1>0, <1>1, <1>2, <1>4, <2>1 DEF TarjanShape
<1>6. StackClimbs(u)
  BY <1>2 DEF Midway, StackClimbs
<1>7. FramesClimb(u)
  BY <1>1, <1>2, <1>3 DEF Midway, FramesClimb
<1>8. FramesFollow(u, next)
  <2>1. FramesFollow(t, next)
    BY DEF Midway
  <2> QED BY <1>1, <1>3, <1>4, <2>1 DEF FramesFollow
<1>9. LowIsReached(u, next)
  BY <1>2, <1>4 DEF Midway, LowIsReached
<1>10. AllUnder(u, next)
  <2>1. \A k \in DOMAIN t.work : \A v : Under(t, k, v, next) => Under(u, k, v, next)
    BY <1>1, <1>2, <1>3 DEF Under
  <2> QED BY <1>1, <1>4, <2>1 DEF Midway, AllUnder
<1>11. LeftLow(u)
  BY <1>1, <1>2, <1>3, <1>4 DEF Midway, LeftLow, Framed
<1>12. EdgesKnown(u, next, {<<t.work[e].node, m>>})
  <2>1. ASSUME NEW v, NEW w, Ahead(t, v, w), ~(v = t.work[e].node /\ w = m)
        PROVE  Ahead(u, v, w)
    <3>1. PICK k \in DOMAIN t.work :
            /\ t.work[k].node = v
            /\ w \in t.work[k].left \/ (k + 1 \in DOMAIN t.work /\ w = t.work[k + 1].node)
      BY <2>1 DEF Ahead
    <3>2. w \in t.work[k].left => w \in u.work[k].left
      BY <1>1, <2>1, <3>1
    <3> QED BY <1>1, <1>3, <3>1, <3>2 DEF Ahead
  <2>2. ASSUME NEW v \in OnStack(u), NEW w \in next[v]
        PROVE  <<v, w>> \in {<<t.work[e].node, m>>} \/ Known(u, v, w)
    <3>1. Known(t, v, w)
      BY <1>4 DEF Midway, EdgesKnown
    <3> QED BY <1>2, <1>4, <2>1, <3>1 DEF Known
  <2> QED BY <2>2 DEF EdgesKnown
<1>13. PlacedRight(u, next)
  BY <1>2, <1>4 DEF Midway, PlacedRight
<1>14. Midway(u, next, {<<t.work[e].node, m>>})
  BY <1>5, <1>6, <1>7, <1>8, <1>9, <1>10, <1>11, <1>12, <1>13 DEF Midway
<1> QED BY <1>14 DEF u, e

(* What lowering changes.                                                  *)
Lowering(t, u, n, k) ==
  /\ u = [index |-> t.index, low |-> u.low, of |-> t.of, stack |-> t.stack, work |-> t.work]
  /\ u.low \in [Entered(t) -> Nat]
  /\ \A v \in Entered(t) : v # n => u.low[v] = t.low[v]
  /\ u.low[n] = IF k < t.low[n] THEN k ELSE t.low[n]
LEMMA LowersIs ==
  ASSUME NEW t, NEW n \in Entered(t), NEW k \in Nat, t.low \in [Entered(t) -> Nat],
         t = [index |-> t.index, low |-> t.low, of |-> t.of, stack |-> t.stack, work |-> t.work]
  PROVE  Lowering(t, Lowers(t, n, k), n, k)
<1> DEFINE u == Lowers(t, n, k)
           l == IF k < t.low[n] THEN k ELSE t.low[n]
<1>1. u = [t EXCEPT !.low = [t.low EXCEPT ![n] = l]]
  BY DEF Lowers
<1>2. u = [index |-> t.index, low |-> [t.low EXCEPT ![n] = l], of |-> t.of, stack |-> t.stack, work |-> t.work]
  BY <1>1
<1>3. u.low = [t.low EXCEPT ![n] = l] /\ l \in Nat
  BY <1>2
<1> HIDE DEF u
<1>4. u.low \in [Entered(t) -> Nat] /\ u.low[n] = l /\ \A v \in Entered(t) : v # n => u.low[v] = t.low[v]
  BY <1>3
<1>5. u = [index |-> t.index, low |-> u.low, of |-> t.of, stack |-> t.stack, work |-> t.work]
  BY <1>2, <1>3
<1> QED BY <1>4, <1>5 DEF Lowering, u

LEMMA LowerKeeps ==
  ASSUME NEW next, NEW t, NEW m \in OnStack(t), NEW n, t.work # <<>>, n = t.work[Len(t.work)].node,
         n \in DOMAIN next, m \in next[n],
         Midway(t, next, {<<n, m>>}), NEW u, Lowering(t, u, n, t.index[m])
  PROVE  Midway(u, next, {})
<1>0. TarjanShape(t, next) /\ FramesClimb(t) /\ FramesFollow(t, next)
  BY DEF Midway
<1>1. u = [index |-> t.index, low |-> u.low, of |-> t.of, stack |-> t.stack, work |-> t.work]
  BY DEF Lowering
<1>2. u.index = t.index /\ u.of = t.of /\ u.stack = t.stack /\ u.work = t.work
  BY <1>1
<1>3. OnStack(u) = OnStack(t) /\ Entered(u) = Entered(t) /\ Placed(u) = Placed(t)
  BY <1>2 DEF OnStack, Entered, Placed
<1>4. /\ OnStack(t) \subseteq Entered(t) /\ OnStack(t) \subseteq DOMAIN next
      /\ \A v \in OnStack(t) : t.index[v] \in Nat /\ t.low[v] \in Nat
      /\ Len(t.work) \in Nat /\ DOMAIN t.work = 1 .. Len(t.work)
  BY <1>0, StackTyped
<1>5. Len(t.work) \in DOMAIN t.work
  BY <1>0, <1>4 DEF TarjanShape
<1>6. n \in OnStack(t)
  BY <1>0, <1>5 DEF FramesFollow
<1>7. /\ \A v \in OnStack(t) : v # n => u.low[v] = t.low[v]
      /\ \A v \in OnStack(t) : u.low[v] \in Nat /\ u.low[v] <= t.low[v]
      /\ u.low[n] <= t.index[m] /\ u.low[n] \in {t.low[n], t.index[m]}
  BY <1>4, <1>6 DEF Lowering
<1>8. TarjanShape(u, next)
  <2>1. u = [index |-> u.index, low |-> u.low, of |-> u.of, stack |-> u.stack, work |-> u.work]
    BY <1>1, <1>2
  <2>2. u.low \in [Entered(t) -> Nat]
    BY DEF Lowering
  <2> QED BY <1>0, <1>2, <1>3, <2>1, <2>2 DEF TarjanShape
<1>9. StackClimbs(u) /\ FramesClimb(u)
  BY <1>2 DEF Midway, StackClimbs, FramesClimb
<1>10. FramesFollow(u, next)
  BY <1>0, <1>2, <1>3 DEF FramesFollow
<1>11. LowIsReached(u, next)
  <2>1. LowIsReached(t, next)
    BY DEF Midway
  <2>2. Leads(n, m, next)
    BY Leading
  <2>3. ASSUME NEW v \in OnStack(u)
        PROVE  /\ u.low[v] <= u.index[v]
               /\ \E w \in OnStack(u) : u.index[w] = u.low[v] /\ Leads(v, w, next)
    <3>1. u.low[v] <= u.index[v]
      BY <1>2, <1>3, <1>4, <1>7, <2>1 DEF LowIsReached
    <3>2. CASE v = n /\ u.low[n] = t.index[m]
      BY <1>2, <1>3, <2>2, <3>1, <3>2
    <3>3. CASE u.low[v] = t.low[v]
      BY <1>2, <1>3, <2>1, <3>1, <3>3 DEF LowIsReached
    <3> QED BY <1>3, <1>7, <3>2, <3>3
  <2> QED BY <2>3 DEF LowIsReached
<1>12. AllUnder(u, next)
  <2>1. ASSUME NEW v \in OnStack(u)
        PROVE  \E k \in DOMAIN u.work : Under(u, k, v, next)
    <3>1. PICK k \in DOMAIN t.work : Under(t, k, v, next)
      BY <1>3 DEF Midway, AllUnder
    <3>2. t.work[k].node \in OnStack(t)
      BY <1>0 DEF FramesFollow
    <3>3. u.low[t.work[k].node] <= u.low[v]
      <4>1. t.low[t.work[k].node] <= t.low[v]
        BY <3>1 DEF Under
      <4>2. CASE v # n
        BY <1>3, <1>4, <1>7, <3>2, <4>1, <4>2
      <4>3. CASE v = n
        <5>1. k = Len(t.work)
          <6>1. t.index[t.work[k].node] <= t.index[n] /\ (k + 1 \in DOMAIN t.work => t.index[n] < t.index[t.work[k + 1].node])
            BY <3>1, <4>3 DEF Under
          <6>2. SUFFICES ASSUME k # Len(t.work) PROVE FALSE
            OBVIOUS
          <6>3. k + 1 \in DOMAIN t.work /\ (k + 1 = Len(t.work) \/ k + 1 < Len(t.work))
            BY <1>4, <6>2
          <6>4. t.work[k + 1].node \in OnStack(t)
            BY <1>0, <6>3 DEF FramesFollow
          <6>5. t.index[t.work[k + 1].node] <= t.index[n]
            <7>1. CASE k + 1 = Len(t.work)
              BY <1>4, <1>6, <7>1
            <7>2. CASE k + 1 < Len(t.work)
              <8>1. t.index[t.work[k + 1].node] < t.index[t.work[Len(t.work)].node]
                BY <1>0, <1>5, <6>3, <7>2 DEF FramesClimb
              <8> QED BY <1>4, <1>6, <6>4, <8>1
            <7> QED BY <6>3, <7>1, <7>2
          <6> QED BY <1>4, <1>6, <6>1, <6>3, <6>4, <6>5
        <5> QED BY <1>3, <1>7, <4>3, <5>1
      <4> QED BY <4>2, <4>3
    <3> QED BY <1>2, <3>1, <3>3 DEF Under
  <2> QED BY <2>1 DEF AllUnder
<1>13. LeftLow(u)
  BY <1>2, <1>3, <1>4, <1>7 DEF Midway, LeftLow, Framed
<1>14. EdgesKnown(u, next, {})
  <2>1. ASSUME NEW v \in OnStack(u), NEW w \in next[v]
        PROVE  Known(u, v, w)
    <3>1. CASE v = n /\ w = m
      BY <1>2, <1>3, <1>7, <3>1 DEF Known
    <3>2. CASE Known(t, v, w)
      <4>1. Ahead(t, v, w) => Ahead(u, v, w)
        BY <1>2 DEF Ahead
      <4>2. w \in OnStack(t) /\ t.low[v] <= t.index[w] => u.low[v] <= u.index[w]
        BY <1>2, <1>3, <1>4, <1>7
      <4> QED BY <1>3, <3>2, <4>1, <4>2 DEF Known
    <3> QED BY <1>3, <3>1, <3>2 DEF Midway, EdgesKnown
  <2> QED BY <2>1 DEF EdgesKnown
<1>15. PlacedRight(u, next)
  BY <1>2, <1>3 DEF Midway, PlacedRight
<1> QED BY <1>8, <1>9, <1>10, <1>11, <1>12, <1>13, <1>14, <1>15 DEF Midway


(* All but the last of a sequence.                                         *)
LEMMA FrontIs ==
  ASSUME NEW T, NEW s \in Seq(T), s # <<>>
  PROVE  /\ Front(s) \in Seq(T) /\ DOMAIN Front(s) = 1 .. Len(s) - 1 /\ Len(Front(s)) = Len(s) - 1
         /\ \A i \in 1 .. Len(s) - 1 : Front(s)[i] = s[i]
         /\ Len(s) \in DOMAIN s /\ Len(s) \in Nat /\ DOMAIN s = 1 .. Len(s)
         /\ Front(s) = <<>> <=> Len(s) = 1
<1>1. Len(s) \in Nat /\ DOMAIN s = 1 .. Len(s) /\ Len(s) # 0 /\ \A i \in DOMAIN s : s[i] \in T
  OBVIOUS
<1>2. Len(s) \in DOMAIN s /\ Len(s) - 1 \in Nat
  BY <1>1
<1>3. Front(s) = [i \in 1 .. Len(s) - 1 |-> s[i]]
  BY <1>1, <1>2 DEF Front
<1>4. Front(s) \in Seq(T) /\ Len(Front(s)) = Len(s) - 1
  <2>1. \A i \in 1 .. Len(s) - 1 : s[i] \in T
    BY <1>1
  <2> QED BY <1>2, <1>3, <2>1
<1>5. Front(s) = <<>> <=> Len(s) = 1
  BY <1>1, <1>2, <1>4
<1> QED BY <1>1, <1>2, <1>3, <1>4, <1>5

(* Midway, at the end of the neighbours of the last frame.                 *)
Returning(t, n, next) ==
  /\ Midway(t, next, {}) /\ t.work # <<>> /\ n = t.work[Len(t.work)].node
  /\ t.work[Len(t.work)].left = {}

(* What is under the last frame comes after its node; other frames before it. *)
LEMMA LastFrame ==
  ASSUME NEW next, NEW t, NEW n, Returning(t, n, next)
  PROVE  /\ n \in OnStack(t) /\ Len(t.work) \in DOMAIN t.work
         /\ \A k \in DOMAIN t.work : k # Len(t.work) =>
              /\ k + 1 \in DOMAIN t.work /\ t.index[t.work[k].node] < t.index[n]
              /\ t.work[k].node # n
              /\ \A v \in OnStack(t) : Under(t, k, v, next) => t.index[v] < t.index[n]
<1>1. TarjanShape(t, next) /\ FramesClimb(t) /\ FramesFollow(t, next)
  BY DEF Returning, Midway
<1>2. /\ \A v \in OnStack(t) : t.index[v] \in Nat /\ t.low[v] \in Nat
      /\ Len(t.work) \in Nat /\ DOMAIN t.work = 1 .. Len(t.work)
  BY <1>1, StackTyped
<1>3. Len(t.work) \in DOMAIN t.work
  BY <1>1, <1>2 DEF Returning, TarjanShape
<1>4. n \in OnStack(t)
  BY <1>1, <1>3 DEF FramesFollow, Returning
<1>5. ASSUME NEW k \in DOMAIN t.work, k # Len(t.work)
      PROVE  /\ k + 1 \in DOMAIN t.work /\ t.index[t.work[k].node] < t.index[n]
             /\ t.work[k].node # n
             /\ \A v \in OnStack(t) : Under(t, k, v, next) => t.index[v] < t.index[n]
  <2>1. k + 1 \in DOMAIN t.work /\ k < Len(t.work)
    BY <1>2, <1>5
  <2>2. t.index[t.work[k].node] < t.index[n]
    BY <1>1, <1>3, <2>1 DEF FramesClimb, Returning
  <2>3. t.work[k].node # n
    BY <1>2, <1>4, <2>2
  <2>4. t.work[k + 1].node \in OnStack(t)
    BY <1>1, <2>1 DEF FramesFollow
  <2>5. t.index[t.work[k + 1].node] <= t.index[n]
    <3>1. CASE k + 1 = Len(t.work)
      BY <1>2, <1>4, <3>1 DEF Returning
    <3>2. CASE k + 1 # Len(t.work)
      <4>1. k + 1 < Len(t.work)
        BY <1>2, <2>1, <3>2
      <4>2. t.index[t.work[k + 1].node] < t.index[n]
        BY <1>1, <1>3, <2>1, <4>1 DEF FramesClimb, Returning
      <4> QED BY <1>2, <1>4, <2>4, <4>2
    <3> QED BY <3>1, <3>2
  <2>6. ASSUME NEW v \in OnStack(t), Under(t, k, v, next)
        PROVE  t.index[v] < t.index[n]
    <3>1. t.index[v] < t.index[t.work[k + 1].node]
      BY <2>1, <2>6 DEF Under
    <3> QED BY <1>2, <1>4, <2>4, <2>5, <3>1
  <2> QED BY <2>1, <2>2, <2>3, <2>6
<1> QED BY <1>3, <1>4, <1>5

(* A node alone in its frame is the first of the stack, and its low is its index. *)
LEMMA FirstFrame ==
  ASSUME NEW next, NEW t, NEW n, Returning(t, n, next), t.low[n] # t.index[n]
  PROVE  Len(t.work) - 1 \in DOMAIN t.work
<1>1. TarjanShape(t, next) /\ AllUnder(t, next) /\ LowIsReached(t, next) /\ n \in OnStack(t)
      /\ Len(t.work) \in DOMAIN t.work
  BY LastFrame DEF Returning, Midway
<1>2. /\ \A v \in OnStack(t) : t.index[v] \in Nat /\ t.low[v] \in Nat
      /\ Len(t.work) \in Nat /\ DOMAIN t.work = 1 .. Len(t.work)
  BY <1>1, StackTyped
<1>0. Len(t.work) # 1 => Len(t.work) - 1 \in 1 .. Len(t.work)
  <2>1. \A x \in Nat : x \in 1 .. x /\ x # 1 => x - 1 \in 1 .. x
    OBVIOUS
  <2> QED BY <1>1, <1>2, <2>1
<1>3. SUFFICES ASSUME Len(t.work) = 1 PROVE FALSE
  BY <1>0, <1>2
<1>4. PICK u \in OnStack(t) : t.index[u] = t.low[n]
  BY <1>1 DEF LowIsReached
<1>5. PICK k \in DOMAIN t.work : Under(t, k, u, next)
  BY <1>1 DEF AllUnder
<1>6. t.work[k].node = n
  BY <1>2, <1>3, <1>5 DEF Returning
<1>7. t.index[n] <= t.index[u]
  BY <1>5, <1>6 DEF Under
<1>8. t.low[n] <= t.index[n]
  BY <1>1 DEF LowIsReached
<1> QED BY <1>1, <1>2, <1>4, <1>7, <1>8

Popped(t) == [t EXCEPT !.work = Front(@)]
LEMMA PoppedIs ==
  ASSUME NEW next, NEW t, TarjanShape(t, next), t.work # <<>>
  PROVE  LET u == Popped(t) IN
         /\ u = [index |-> t.index, low |-> t.low, of |-> t.of, stack |-> t.stack, work |-> Front(t.work)]
         /\ u.index = t.index /\ u.low = t.low /\ u.of = t.of /\ u.stack = t.stack /\ u.work = Front(t.work)
<1>1. t = [index |-> t.index, low |-> t.low, of |-> t.of, stack |-> t.stack, work |-> t.work]
  BY DEF TarjanShape
<1>2. Popped(t) = [index |-> t.index, low |-> t.low, of |-> t.of, stack |-> t.stack, work |-> Front(t.work)]
  BY <1>1 DEF Popped
<1> QED BY <1>2

(* A node whose low lies before it, and the frame before.                  *)
Telling(t, u, n, e, p, next) ==
  /\ e - 1 \in DOMAIN t.work /\ e \in DOMAIN t.work /\ n \in OnStack(t) /\ e \in 2 .. e
  /\ p \in OnStack(t) /\ n \in next[p] /\ p \in DOMAIN next /\ t.index[p] < t.index[n] /\ p # n
  /\ Front(t.work) \in Seq(Frame(next)) /\ DOMAIN Front(t.work) = 1 .. e - 1
  /\ Front(t.work) # <<>> /\ Len(Front(t.work)) = e - 1
  /\ \A k \in 1 .. e - 1 : Front(t.work)[k] = t.work[k]
  /\ u = [index |-> t.index, low |-> u.low, of |-> t.of, stack |-> t.stack, work |-> Front(t.work)]
  /\ u.low \in [Entered(t) -> Nat]
  /\ \A v \in Entered(t) : v # p => u.low[v] = t.low[v]
  /\ u.low[p] = IF t.low[n] < t.low[p] THEN t.low[n] ELSE t.low[p]
  /\ u.index = t.index /\ u.of = t.of /\ u.stack = t.stack /\ u.work = Front(t.work)
LEMMA ReturnIs ==
  ASSUME NEW next, NEW t, NEW n, Returning(t, n, next), t.low[n] # t.index[n]
  PROVE  Telling(t, Returns(t, n), n, Len(t.work), t.work[Len(t.work) - 1].node, next)
<1> DEFINE e == Len(t.work)
           p == t.work[e - 1].node
           u == Returns(t, n)
<1>1. TarjanShape(t, next) /\ FramesClimb(t) /\ FramesFollow(t, next) /\ t.work # <<>>
  BY DEF Returning, Midway
<1>2. /\ OnStack(t) \subseteq Entered(t) /\ OnStack(t) \subseteq DOMAIN next
      /\ \A v \in OnStack(t) : t.index[v] \in Nat /\ t.low[v] \in Nat
      /\ e \in Nat /\ DOMAIN t.work = 1 .. e
  BY <1>1, StackTyped
<1>3. e - 1 \in DOMAIN t.work /\ e \in DOMAIN t.work /\ n \in OnStack(t) /\ e \in 2 .. e
  BY <1>2, FirstFrame, LastFrame
<1>4. p \in OnStack(t) /\ n \in next[p] /\ p \in DOMAIN next /\ t.index[p] < t.index[n] /\ p # n
  <2>1. e - 1 # e /\ e - 1 + 1 = e
    BY <1>2
  <2>2. n = t.work[e - 1 + 1].node
    BY <2>1 DEF Returning
  <2>3. n \in next[p] /\ p \in OnStack(t)
    BY <1>1, <1>3, <2>1, <2>2 DEF FramesFollow
  <2> QED BY <1>2, <1>3, <2>1, <2>3, LastFrame
<1>5. /\ Front(t.work) \in Seq(Frame(next)) /\ DOMAIN Front(t.work) = 1 .. e - 1
      /\ Front(t.work) # <<>> /\ Len(Front(t.work)) = e - 1
      /\ \A k \in 1 .. e - 1 : Front(t.work)[k] = t.work[k]
  BY <1>1, <1>2, <1>3, FrontIs DEF TarjanShape
<1>6. Last(Front(t.work)).node = p
  BY <1>2, <1>3, <1>5 DEF Last
<1>7. Lowering(Popped(t), u, p, t.low[n])
  <2>1. u = Lowers(Popped(t), p, t.low[n])
    <3>1. Popped(t).work = Front(t.work)
      BY <1>1, PoppedIs
    <3> QED BY <1>5, <1>6, <3>1 DEF Returns, Popped
  <2>2. /\ p \in Entered(Popped(t)) /\ Popped(t).low \in [Entered(Popped(t)) -> Nat]
        /\ Popped(t) = [index |-> Popped(t).index, low |-> Popped(t).low, of |-> Popped(t).of,
                        stack |-> Popped(t).stack, work |-> Popped(t).work]
    BY <1>1, <1>2, <1>4, PoppedIs DEF TarjanShape, Entered
  <2> QED BY <1>2, <1>3, <2>1, <2>2, LowersIs
<1>8. /\ u = [index |-> t.index, low |-> u.low, of |-> t.of, stack |-> t.stack, work |-> Front(t.work)]
      /\ u.low \in [Entered(t) -> Nat] /\ \A v \in Entered(t) : v # p => u.low[v] = t.low[v]
      /\ u.low[p] = IF t.low[n] < t.low[p] THEN t.low[n] ELSE t.low[p]
  BY <1>1, <1>7, PoppedIs DEF Lowering, Entered
<1>9. u.index = t.index /\ u.of = t.of /\ u.stack = t.stack /\ u.work = Front(t.work)
  BY <1>8
<1> HIDE DEF u, e, p
<1>10. Telling(t, u, n, e, p, next)
  BY <1>3, <1>4, <1>5, <1>8, <1>9 DEF Telling
<1> QED BY <1>10 DEF u, e, p

(* A node whose low lies before it: it stays on the stack, under the frame before. *)
LEMMA ReturnKeeps ==
  ASSUME NEW next, NEW t, NEW n, Returning(t, n, next), t.low[n] # t.index[n]
  PROVE  Midway(Returns(t, n), next, {})
<1> DEFINE e == Len(t.work)
           p == t.work[e - 1].node
           u == Returns(t, n)
<1>1. TarjanShape(t, next) /\ FramesClimb(t) /\ FramesFollow(t, next) /\ t.work # <<>>
  BY DEF Returning, Midway
<1>2. /\ OnStack(t) \subseteq Entered(t) /\ OnStack(t) \subseteq DOMAIN next
      /\ \A v \in OnStack(t) : t.index[v] \in Nat /\ t.low[v] \in Nat
      /\ e \in Nat /\ DOMAIN t.work = 1 .. e
  BY <1>1, StackTyped
<1>0. Telling(t, u, n, e, p, next)
  BY ReturnIs
<1>3. e - 1 \in DOMAIN t.work /\ e \in DOMAIN t.work /\ n \in OnStack(t) /\ e \in 2 .. e
  BY <1>0 DEF Telling
<1>4. p \in OnStack(t) /\ n \in next[p] /\ p \in DOMAIN next /\ t.index[p] < t.index[n] /\ p # n
  BY <1>0 DEF Telling
<1>5. /\ Front(t.work) \in Seq(Frame(next)) /\ DOMAIN Front(t.work) = 1 .. e - 1
      /\ Front(t.work) # <<>> /\ Len(Front(t.work)) = e - 1
      /\ \A k \in 1 .. e - 1 : Front(t.work)[k] = t.work[k]
  BY <1>0 DEF Telling
<1>8. /\ u = [index |-> t.index, low |-> u.low, of |-> t.of, stack |-> t.stack, work |-> Front(t.work)]
      /\ u.low \in [Entered(t) -> Nat] /\ \A v \in Entered(t) : v # p => u.low[v] = t.low[v]
      /\ u.low[p] = IF t.low[n] < t.low[p] THEN t.low[n] ELSE t.low[p]
  BY <1>0 DEF Telling
<1> HIDE DEF u
<1>9. u.index = t.index /\ u.of = t.of /\ u.stack = t.stack /\ u.work = Front(t.work)
  BY <1>8
<1>10. OnStack(u) = OnStack(t) /\ Entered(u) = Entered(t) /\ Placed(u) = Placed(t)
  BY <1>9 DEF OnStack, Entered, Placed
<1>11. /\ \A v \in OnStack(t) : v # p => u.low[v] = t.low[v]
       /\ \A v \in OnStack(t) : u.low[v] \in Nat /\ u.low[v] <= t.low[v]
       /\ u.low[p] <= t.low[n] /\ u.low[p] \in {t.low[p], t.low[n]}
  BY <1>2, <1>3, <1>4, <1>8
<1>12. DOMAIN u.work = 1 .. e - 1 /\ \A k \in DOMAIN u.work : u.work[k] = t.work[k] /\ k \in DOMAIN t.work /\ k # e
  BY <1>2, <1>5, <1>9
<1>13. TarjanShape(u, next)
  <2>1. u = [index |-> u.index, low |-> u.low, of |-> u.of, stack |-> u.stack, work |-> u.work]
    BY <1>8, <1>9
  <2> QED BY <1>1, <1>5, <1>8, <1>9, <1>10, <2>1 DEF TarjanShape
<1>14. StackClimbs(u)
  BY <1>9 DEF Returning, Midway, StackClimbs
<1>15. FramesClimb(u)
  BY <1>1, <1>9, <1>12 DEF FramesClimb
<1>16. FramesFollow(u, next)
  BY <1>1, <1>10, <1>12 DEF FramesFollow
<1>17. LowIsReached(u, next)
  <2>1. LowIsReached(t, next)
    BY DEF Returning, Midway
  <2>2. Leads(p, n, next)
    BY <1>4, Leading
  <2>3. ASSUME NEW v \in OnStack(u)
        PROVE  /\ u.low[v] <= u.index[v]
               /\ \E w \in OnStack(u) : u.index[w] = u.low[v] /\ Leads(v, w, next)
    <3>1. u.low[v] <= u.index[v]
      BY <1>2, <1>9, <1>10, <1>11, <2>1 DEF LowIsReached
    <3>2. CASE v = p /\ u.low[p] = t.low[n]
      <4>1. PICK w \in OnStack(t) : t.index[w] = t.low[n] /\ Leads(n, w, next)
        BY <1>3, <2>1 DEF LowIsReached
      <4>2. Leads(p, w, next)
        BY <2>2, <4>1, Leading
      <4> QED BY <1>9, <1>10, <3>1, <3>2, <4>1, <4>2
    <3>3. CASE u.low[v] = t.low[v]
      BY <1>9, <1>10, <2>1, <3>1, <3>3 DEF LowIsReached
    <3> QED BY <1>10, <1>11, <3>2, <3>3
  <2> QED BY <2>3 DEF LowIsReached
<1>18. AllUnder(u, next)
  <2>1. ASSUME NEW v \in OnStack(u)
        PROVE  \E k \in DOMAIN u.work : Under(u, k, v, next)
    <3>1. PICK k \in DOMAIN t.work : Under(t, k, v, next)
      BY <1>10 DEF Returning, Midway, AllUnder
    <3>2. /\ t.index[t.work[k].node] <= t.index[v] /\ t.low[t.work[k].node] <= t.low[v]
          /\ Leads(t.work[k].node, v, next)
      BY <3>1 DEF Under
    <3>3. CASE k = e
      <4>1. t.work[k].node = n
        BY <3>3 DEF Returning
      <4>2. v # p /\ t.index[p] <= t.index[v]
        BY <1>2, <1>3, <1>4, <1>10, <3>2, <4>1
      <4>3. u.low[p] <= u.low[v]
        <5>1. u.low[p] <= t.low[n] /\ t.low[n] <= t.low[v] /\ u.low[v] = t.low[v]
          BY <1>10, <1>11, <3>2, <4>1, <4>2
        <5>2. u.low[p] \in Nat /\ t.low[n] \in Nat /\ t.low[v] \in Nat
          BY <1>2, <1>3, <1>4, <1>10, <1>11
        <5> QED BY <5>1, <5>2
      <4>4. Leads(p, v, next)
        BY <1>4, <3>2, <4>1, Leading
      <4>5. e - 1 \in DOMAIN u.work /\ u.work[e - 1].node = p /\ e - 1 + 1 \notin DOMAIN u.work
        <5>1. e - 1 \in 1 .. e - 1 /\ e - 1 + 1 \notin 1 .. e - 1
          BY <1>2, <1>3
        <5> QED BY <1>12, <5>1
      <4>6. Under(u, e - 1, v, next)
        BY <1>9, <4>2, <4>3, <4>4, <4>5 DEF Under
      <4> QED BY <4>5, <4>6
    <3>4. CASE k # e
      <4>1. k \in DOMAIN u.work /\ u.work[k] = t.work[k]
        BY <1>2, <1>12, <3>4
      <4>2. t.work[k].node \in OnStack(t)
        BY <1>1 DEF FramesFollow
      <4>3. u.low[t.work[k].node] <= u.low[v]
        <5>1. CASE v # p
          BY <1>2, <1>10, <1>11, <3>2, <4>2, <5>1
        <5>2. CASE v = p /\ k = e - 1
          BY <1>4, <1>11, <5>2
        <5>3. CASE v = p /\ k # e - 1
          <6>1. k + 1 \in DOMAIN t.work /\ k + 1 <= e - 1
            BY <1>2, <3>4, <5>3
          <6>2. t.index[p] < t.index[t.work[k + 1].node]
            BY <3>1, <5>3, <6>1 DEF Under
          <6>3. t.work[k + 1].node \in OnStack(t)
            BY <1>1, <6>1 DEF FramesFollow
          <6>4. CASE k + 1 = e - 1
            BY <1>2, <1>4, <6>2, <6>4
          <6>5. CASE k + 1 < e - 1
            <7>1. t.index[t.work[k + 1].node] < t.index[p]
              BY <1>1, <1>3, <6>1, <6>5 DEF FramesClimb
            <7> QED BY <1>2, <1>4, <6>2, <6>3, <7>1
          <6> QED BY <1>2, <6>1, <6>4, <6>5
        <5> QED BY <5>1, <5>2, <5>3
      <4>4. k + 1 \in DOMAIN u.work => u.index[v] < u.index[u.work[k + 1].node]
        BY <1>9, <1>12, <3>1 DEF Under
      <4>5. Under(u, k, v, next)
        BY <1>9, <3>2, <4>1, <4>3, <4>4 DEF Under
      <4> QED BY <4>1, <4>5
    <3> QED BY <3>3, <3>4
  <2> QED BY <2>1 DEF AllUnder
<1>19. LeftLow(u)
  <2>1. LeftLow(t) /\ LowIsReached(t, next)
    BY DEF Returning, Midway
  <2>2. ASSUME NEW v \in OnStack(u), ~Framed(u, v)
        PROVE  u.low[v] < u.index[v]
    <3>1. CASE v = n
      <4>1. t.low[n] < t.index[n]
        BY <1>2, <1>3, <2>1 DEF LowIsReached
      <4> QED BY <1>3, <1>4, <1>9, <1>11, <3>1, <4>1
    <3>2. CASE v # n
      <4>1. ~Framed(t, v)
        <5>1. SUFFICES ASSUME NEW k \in DOMAIN t.work, t.work[k].node = v PROVE FALSE
          BY DEF Framed
        <5>2. k # e
          BY <3>2, <5>1 DEF Returning
        <5>3. k \in DOMAIN u.work /\ u.work[k].node = v
          BY <1>2, <1>12, <5>1, <5>2
        <5> QED BY <2>2, <5>3 DEF Framed
      <4>2. t.low[v] < t.index[v]
        BY <1>10, <2>1, <4>1 DEF LeftLow
      <4> QED BY <1>2, <1>9, <1>10, <1>11, <4>2
    <3> QED BY <3>1, <3>2
  <2> QED BY <2>2 DEF LeftLow
<1>20. EdgesKnown(u, next, {})
  <2>1. ASSUME NEW v \in OnStack(u), NEW w \in next[v]
        PROVE  Known(u, v, w)
    <3>0. Known(t, v, w)
      BY <1>10 DEF Returning, Midway, EdgesKnown
    <3>1. CASE w \in Placed(t)
      BY <1>10, <3>1 DEF Known
    <3>2. CASE w \in OnStack(t) /\ t.low[v] <= t.index[w]
      BY <1>2, <1>9, <1>10, <1>11, <3>2 DEF Known
    <3>3. CASE Ahead(t, v, w)
      <4>1. PICK k \in DOMAIN t.work :
              /\ t.work[k].node = v
              /\ w \in t.work[k].left \/ (k + 1 \in DOMAIN t.work /\ w = t.work[k + 1].node)
        BY <3>3 DEF Ahead
      <4>2. k # e
        BY <1>2, <4>1 DEF Returning
      <4>3. k \in DOMAIN u.work /\ u.work[k] = t.work[k]
        BY <1>2, <1>12, <4>2
      <4>4. CASE w \in t.work[k].left
        BY <4>1, <4>3, <4>4 DEF Known, Ahead
      <4>5. CASE k + 1 # e /\ k + 1 \in DOMAIN t.work /\ w = t.work[k + 1].node
        <5>1. k + 1 \in DOMAIN u.work /\ u.work[k + 1] = t.work[k + 1]
          BY <1>2, <1>12, <4>5
        <5> QED BY <4>1, <4>3, <4>5, <5>1 DEF Known, Ahead
      <4>6. CASE k + 1 = e /\ w = t.work[k + 1].node
        <5>1. w = n
          BY <4>6 DEF Returning
        <5>2. v = p
          <6>1. k = e - 1
            BY <1>2, <4>6
          <6> QED BY <4>1, <6>1
        <5>3. u.low[v] <= u.index[w]
          <6>1. t.low[n] <= t.index[n]
            BY <1>3 DEF Returning, Midway, LowIsReached
          <6> QED BY <1>2, <1>3, <1>4, <1>9, <1>11, <5>1, <5>2, <6>1
        <5> QED BY <1>3, <1>10, <5>1, <5>3 DEF Known
      <4> QED BY <4>1, <4>4, <4>5, <4>6
    <3> QED BY <3>0, <3>1, <3>2, <3>3 DEF Known
  <2> QED BY <2>1 DEF EdgesKnown
<1>21. PlacedRight(u, next)
  BY <1>9, <1>10 DEF Returning, Midway, PlacedRight
<1>22. Midway(u, next, {})
  BY <1>13, <1>14, <1>15, <1>16, <1>17, <1>18, <1>19, <1>20, <1>21 DEF Midway
<1> QED BY <1>22 DEF u


(* The nodes of the stack from n on.                                       *)
Above(t, n) == {v \in OnStack(t) : t.index[n] <= t.index[v]}
Below(t, n) == {v \in OnStack(t) : t.index[v] < t.index[n]}

(* The stack is cut at n.                                                  *)
PlaceOf(t, n) == CHOOSE j \in DOMAIN t.stack : t.stack[j] = n
Kept(t, n) == SubSeq(t.stack, 1, PlaceOf(t, n) - 1)
Taken(t, n) == SubSeq(t.stack, PlaceOf(t, n), Len(t.stack))
LEMMA StackCut ==
  ASSUME NEW next, NEW t, TarjanShape(t, next), StackClimbs(t), NEW n \in OnStack(t)
  PROVE  /\ Kept(t, n) \in Seq(DOMAIN next) /\ DOMAIN Kept(t, n) \subseteq DOMAIN t.stack
         /\ \A j \in DOMAIN Kept(t, n) : Kept(t, n)[j] = t.stack[j]
         /\ ToSet(Kept(t, n)) = Below(t, n) /\ ToSet(Taken(t, n)) = Above(t, n)
<1> DEFINE i == PlaceOf(t, n)
           s == SubSeq(t.stack, 1, i - 1)
           r == SubSeq(t.stack, i, Len(t.stack))
           c == Len(t.stack)
<1>1. /\ c \in Nat /\ DOMAIN t.stack = 1 .. c /\ t.stack \in Seq(DOMAIN next)
      /\ \A j \in DOMAIN t.stack : t.stack[j] \in OnStack(t)
      /\ \A v \in OnStack(t) : \E j \in DOMAIN t.stack : t.stack[j] = v
      /\ \A v \in OnStack(t) : t.index[v] \in Nat
  BY StackTyped DEF TarjanShape
<1>2. i \in 1 .. c /\ t.stack[i] = n
  BY <1>1 DEF PlaceOf
<1> HIDE DEF i, c
<1>3. /\ s \in Seq(DOMAIN next) /\ DOMAIN s = 1 .. i - 1 /\ \A j \in 1 .. i - 1 : s[j] = t.stack[j]
  <2>1. s = [j \in 1 .. i - 1 |-> t.stack[j]]
    BY <1>1, <1>2
  <2>2. \A j \in 1 .. i - 1 : t.stack[j] \in DOMAIN next
    BY <1>1, <1>2
  <2> QED BY <1>2, <2>1, <2>2
<1>4. DOMAIN r = 1 .. c - i + 1 /\ \A j \in 1 .. c - i + 1 : r[j] = t.stack[j + i - 1]
  <2>1. r = [j \in 1 .. c - i + 1 |-> t.stack[j + i - 1]]
    BY <1>1, <1>2 DEF c
  <2> QED BY <2>1
<1>5. \A j \in DOMAIN t.stack : /\ j < i => t.index[t.stack[j]] < t.index[n]
                                /\ i <= j => t.index[n] <= t.index[t.stack[j]]
  <2>1. ASSUME NEW j \in DOMAIN t.stack, i <= j
        PROVE  t.index[n] <= t.index[t.stack[j]]
    <3>1. CASE i = j
      BY <1>1, <1>2, <3>1
    <3>2. CASE i # j
      <4>1. i < j
        BY <1>1, <1>2, <2>1, <3>2
      <4>2. t.index[n] < t.index[t.stack[j]]
        BY <1>1, <1>2, <4>1 DEF StackClimbs
      <4> QED BY <1>1, <4>2
    <3> QED BY <3>1, <3>2
  <2> QED BY <1>1, <1>2, <2>1 DEF StackClimbs
<1>6. ToSet(s) = {t.stack[j] : j \in 1 .. i - 1}
  BY <1>3 DEF ToSet
<1>7. ToSet(s) = Below(t, n)
  <2>1. ASSUME NEW v \in ToSet(s) PROVE v \in Below(t, n)
    <3>1. PICK j \in 1 .. i - 1 : v = t.stack[j]
      BY <1>6, <2>1
    <3>2. j \in DOMAIN t.stack /\ j < i
      BY <1>1, <1>2, <3>1
    <3> QED BY <1>1, <1>5, <3>1, <3>2 DEF Below
  <2>2. ASSUME NEW v \in Below(t, n) PROVE v \in ToSet(s)
    <3>1. PICK j \in DOMAIN t.stack : v = t.stack[j]
      BY <1>1, <2>2 DEF Below
    <3>2. ~(i <= j)
      BY <1>1, <1>2, <1>5, <2>2, <3>1 DEF Below
    <3>3. j \in 1 .. i - 1
      BY <1>1, <1>2, <3>2
    <3> QED BY <1>6, <3>1, <3>3
  <2> QED BY <2>1, <2>2
<1>8. ToSet(r) = Above(t, n)
  <2>0. ToSet(r) = {r[j] : j \in 1 .. c - i + 1}
    BY <1>4 DEF ToSet
  <2>1. ASSUME NEW v \in ToSet(r) PROVE v \in Above(t, n)
    <3>1. PICK j \in 1 .. c - i + 1 : v = r[j]
      BY <2>0, <2>1
    <3>2. j + i - 1 \in 1 .. c /\ i <= j + i - 1 /\ v = t.stack[j + i - 1]
      BY <1>1, <1>2, <1>4, <3>1
    <3> QED BY <1>1, <1>5, <3>2 DEF Above
  <2>2. ASSUME NEW v \in Above(t, n) PROVE v \in ToSet(r)
    <3>1. PICK j \in DOMAIN t.stack : v = t.stack[j]
      BY <1>1, <2>2 DEF Above
    <3>2. ~(j < i)
      BY <1>1, <1>2, <1>5, <2>2, <3>1 DEF Above
    <3>3. j - i + 1 \in 1 .. c - i + 1 /\ j - i + 1 + i - 1 = j
      BY <1>1, <1>2, <3>2
    <3>4. r[j - i + 1] = t.stack[j]
      BY <1>4, <3>3
    <3> QED BY <2>0, <3>1, <3>3, <3>4
  <2> QED BY <2>1, <2>2
<1>9. DOMAIN s \subseteq DOMAIN t.stack /\ \A j \in DOMAIN s : s[j] = t.stack[j]
  BY <1>1, <1>2, <1>3
<1> QED BY <1>3, <1>7, <1>8, <1>9 DEF i, c, Kept, Taken

(* What placing a component changes.                                       *)
Placing(t, u, n, next) ==
  /\ u = [index |-> t.index, low |-> t.low, of |-> u.of, stack |-> u.stack, work |-> Front(t.work)]
  /\ u.stack \in Seq(DOMAIN next) /\ DOMAIN u.stack \subseteq DOMAIN t.stack
  /\ \A j \in DOMAIN u.stack : u.stack[j] = t.stack[j]
  /\ OnStack(u) = Below(t, n) /\ Placed(u) = Placed(t) \cup Above(t, n)
  /\ u.of = [v \in Placed(u) |-> IF v \in Above(t, n) THEN n ELSE t.of[v]]
LEMMA PlacesIs ==
  ASSUME NEW next, NEW t, NEW n, Returning(t, n, next), t.low[n] = t.index[n]
  PROVE  Placing(t, Returns(t, n), n, next)
<1> DEFINE e == Len(t.work)
           p == t.work[e - 1].node
           s == Kept(t, n)
           r == Taken(t, n)
           told == IF Popped(t).work = <<>> THEN Popped(t)
                   ELSE Lowers(Popped(t), Last(Popped(t).work).node, t.low[n])
           u == Returns(t, n)
<1>1. TarjanShape(t, next) /\ StackClimbs(t) /\ FramesFollow(t, next) /\ t.work # <<>> /\ LowIsReached(t, next)
  BY DEF Returning, Midway
<1>2. /\ OnStack(t) \subseteq Entered(t) /\ OnStack(t) \subseteq DOMAIN next
      /\ \A v \in OnStack(t) : t.index[v] \in Nat /\ t.low[v] \in Nat
      /\ e \in Nat /\ DOMAIN t.work = 1 .. e /\ n \in OnStack(t)
  BY <1>1, StackTyped, LastFrame
<1>3. u = [told EXCEPT !.stack = SubSeq(@, 1, PlaceOf(t, n) - 1), !.of = Adding(@, ToSet(r), n)]
  BY DEF Returns, Popped, PlaceOf, Taken
<1>4. told = [index |-> t.index, low |-> t.low, of |-> t.of, stack |-> t.stack, work |-> Front(t.work)]
  <2>1. Popped(t) = [index |-> t.index, low |-> t.low, of |-> t.of, stack |-> t.stack, work |-> Front(t.work)]
        /\ Popped(t).work = Front(t.work) /\ Popped(t).low = t.low /\ Popped(t).index = t.index
        /\ Popped(t).of = t.of /\ Popped(t).stack = t.stack
    BY <1>1, PoppedIs
  <2>2. SUFFICES ASSUME Front(t.work) # <<>>
                 PROVE  Lowers(Popped(t), Last(Popped(t).work).node, t.low[n]) = Popped(t)
    BY <2>1
  <2>3. e - 1 \in DOMAIN t.work /\ e - 1 # e /\ Last(Popped(t).work).node = p
    <3>1. /\ DOMAIN Front(t.work) = 1 .. e - 1 /\ Len(Front(t.work)) = e - 1
          /\ \A k \in 1 .. e - 1 : Front(t.work)[k] = t.work[k] /\ e \in DOMAIN t.work /\ e # 1
      BY <1>1, <1>2, <2>2, FrontIs DEF TarjanShape
    <3>2. e # 1 /\ e \in 1 .. e
      BY <1>1, <1>2, <2>2, FrontIs DEF TarjanShape
    <3>3. e - 1 \in 1 .. e - 1 /\ e - 1 \in 1 .. e /\ e - 1 # e
      <4>1. \A x \in Nat : x \in 1 .. x /\ x # 1 => x - 1 \in 1 .. x - 1 /\ x - 1 \in 1 .. x /\ x - 1 # x
        OBVIOUS
      <4> QED BY <1>2, <3>2, <4>1
    <3> QED BY <1>2, <2>1, <3>1, <3>3 DEF Last
  <2>4. p \in OnStack(t) /\ t.index[p] < t.index[n]
    BY <1>1, <1>2, <2>3, LastFrame DEF FramesFollow
  <2>5. ~(t.low[n] < t.low[p])
    <3>1. t.low[p] <= t.index[p]
      BY <1>1, <2>4 DEF LowIsReached
    <3> QED BY <1>2, <2>4, <3>1
  <2>6. Lowers(Popped(t), p, t.low[n]) = [Popped(t) EXCEPT !.low = [t.low EXCEPT ![p] = t.low[p]]]
    BY <2>1, <2>5 DEF Lowers
  <2>7. [t.low EXCEPT ![p] = t.low[p]] = t.low
    BY <1>1, <1>2, <2>4 DEF TarjanShape
  <2> QED BY <2>1, <2>3, <2>6, <2>7
<1>5. u = [index |-> t.index, low |-> t.low, of |-> Adding(t.of, ToSet(r), n), stack |-> s, work |-> Front(t.work)]
  <2> HIDE DEF told, u
  <2> QED BY <1>3, <1>4 DEF Kept
<1>6. /\ s \in Seq(DOMAIN next) /\ DOMAIN s \subseteq DOMAIN t.stack
      /\ \A j \in DOMAIN s : s[j] = t.stack[j]
      /\ ToSet(s) = Below(t, n) /\ ToSet(r) = Above(t, n)
  BY <1>1, <1>2, StackCut
<1> HIDE DEF told, u
<1>7. u.of = Adding(t.of, Above(t, n), n) /\ u.stack = s
  BY <1>5, <1>6
<1>8. /\ Placed(u) = Placed(t) \cup Above(t, n)
      /\ u.of = [v \in Placed(u) |-> IF v \in Above(t, n) THEN n ELSE t.of[v]]
  BY <1>7 DEF Adding, Placed
<1>9. OnStack(u) = Below(t, n)
  BY <1>6, <1>7 DEF OnStack
<1>10. u = [index |-> t.index, low |-> t.low, of |-> u.of, stack |-> u.stack, work |-> Front(t.work)]
  BY <1>5, <1>6, <1>7
<1>11. Placing(t, u, n, next)
  BY <1>6, <1>7, <1>8, <1>9, <1>10 DEF Placing
<1> QED BY <1>11 DEF u


(* Induction: a set of numbers has a least one.                             *)
LEMMA LeastNumber ==
  ASSUME NEW T, T \subseteq Nat, T # {}
  PROVE  \E x \in T : \A y \in T : x <= y
<1> DEFINE R == OpToRel(<, Nat)
<1>1. IsWellFoundedOn(R, Nat)
  BY NatLessThanWellFounded
<1>2. \A a, b \in Nat : a < b => <<a, b>> \in R
  BY DEF OpToRel
<1> HIDE DEF R
<1>3. PICK x \in T : \A y \in T : ~(<<y, x>> \in R)
  BY <1>1, WFMin
<1>4. ASSUME NEW y \in T PROVE x <= y
  <2>1. ~(y < x)
    BY <1>2, <1>3
  <2> QED BY <2>1
<1> QED BY <1>4

(* What is placed together with n: all of it leads to n, and n to it.      *)
LEMMA AboveTogether ==
  ASSUME NEW next, NEW t, NEW n, Returning(t, n, next), t.low[n] = t.index[n]
  PROVE  /\ n \in Above(t, n)
         /\ \A v \in Above(t, n) : /\ t.low[n] <= t.low[v] /\ Leads(n, v, next) /\ Leads(v, n, next)
                                   /\ \A k \in DOMAIN t.work : t.work[k].node = v => k = Len(t.work)
<1>1. /\ TarjanShape(t, next) /\ AllUnder(t, next) /\ LowIsReached(t, next) /\ LeftLow(t)
      /\ n \in OnStack(t) /\ Len(t.work) \in DOMAIN t.work
  BY LastFrame DEF Returning, Midway
<1>2. \A v \in OnStack(t) : t.index[v] \in Nat /\ t.low[v] \in Nat
  BY <1>1, StackTyped
<1>3. n \in Above(t, n)
  BY <1>1, <1>2 DEF Above
<1>4. ASSUME NEW v \in Above(t, n)
      PROVE  /\ t.low[n] <= t.low[v] /\ Leads(n, v, next)
             /\ \A k \in DOMAIN t.work : t.work[k].node = v => k = Len(t.work)
  <2>1. v \in OnStack(t) /\ ~(t.index[v] < t.index[n])
    BY <1>1, <1>2, <1>4 DEF Above
  <2>2. PICK k \in DOMAIN t.work : Under(t, k, v, next)
    BY <1>1, <2>1 DEF AllUnder
  <2>3. k = Len(t.work)
    BY <2>1, <2>2, LastFrame
  <2>4. t.work[k].node = n
    BY <2>3 DEF Returning
  <2>5. t.low[n] <= t.low[v] /\ Leads(n, v, next)
    BY <2>2, <2>4 DEF Under
  <2>6. \A l \in DOMAIN t.work : t.work[l].node = v => l = Len(t.work)
    BY <2>1, LastFrame
  <2> QED BY <2>5, <2>6
<1>5. ASSUME NEW v \in Above(t, n), NEW ns \in SUBSET DOMAIN next, Sealed(ns, next), v \in ns, n \notin ns
      PROVE  FALSE
  <2> DEFINE T == {t.index[w] : w \in Above(t, n) \cap ns}
  <2>1. T \subseteq Nat /\ T # {}
    BY <1>2, <1>5 DEF Above
  <2>2. \A k : k \in T <=> \E w \in Above(t, n) \cap ns : k = t.index[w]
    OBVIOUS
  <2> HIDE DEF T
  <2>3. PICK k \in T : \A l \in T : k <= l
    BY <2>1, LeastNumber
  <2>4. PICK w \in Above(t, n) \cap ns : k = t.index[w]
    BY <2>2, <2>3
  <2>5. w \in OnStack(t) /\ w # n
    BY <1>5, <2>4 DEF Above
  <2>6. ~Framed(t, w)
    <3>1. SUFFICES ASSUME NEW l \in DOMAIN t.work, t.work[l].node = w PROVE FALSE
      BY DEF Framed
    <3>2. l = Len(t.work)
      BY <1>4, <2>4, <3>1
    <3> QED BY <2>5, <3>1, <3>2 DEF Returning
  <2>7. t.low[w] < t.index[w]
    BY <1>1, <2>5, <2>6 DEF LeftLow
  <2>8. PICK x \in OnStack(t) : t.index[x] = t.low[w] /\ Leads(w, x, next)
    BY <1>1, <2>5 DEF LowIsReached
  <2>9. x \in Above(t, n)
    <3>1. t.low[n] <= t.low[w]
      BY <1>4, <2>4
    <3> QED BY <2>8, <3>1 DEF Above
  <2>10. x \in ns
    BY <1>5, <2>4, <2>8 DEF Leads
  <2>11. t.index[x] \in T
    BY <2>2, <2>9, <2>10
  <2> QED BY <1>2, <2>3, <2>4, <2>5, <2>7, <2>8, <2>11
<1>6. \A v \in Above(t, n) : Leads(v, n, next)
  BY <1>5 DEF Leads
<1> QED BY <1>3, <1>4, <1>6

(* A node whose low is its own index is the first of a component, which is placed. *)
LEMMA PlaceKeeps ==
  ASSUME NEW next, NEW t, NEW n, Returning(t, n, next), t.low[n] = t.index[n], NEW u, Placing(t, u, n, next)
  PROVE  Midway(u, next, {})
<1> DEFINE e == Len(t.work)
<1>1. /\ TarjanShape(t, next) /\ FramesClimb(t) /\ FramesFollow(t, next) /\ t.work # <<>>
      /\ AllUnder(t, next) /\ LowIsReached(t, next) /\ LeftLow(t) /\ EdgesKnown(t, next, {})
      /\ PlacedRight(t, next) /\ StackClimbs(t)
  BY DEF Returning, Midway
<1>2. /\ OnStack(t) \subseteq Entered(t) /\ OnStack(t) \subseteq DOMAIN next
      /\ \A v \in OnStack(t) : t.index[v] \in Nat /\ t.low[v] \in Nat
      /\ e \in Nat /\ DOMAIN t.work = 1 .. e /\ e \in DOMAIN t.work /\ n \in OnStack(t)
      /\ DOMAIN t.stack = 1 .. Len(t.stack)
  BY <1>1, StackTyped, LastFrame
<1>3. /\ n \in Above(t, n)
      /\ \A v \in Above(t, n) : /\ t.low[n] <= t.low[v] /\ Leads(n, v, next) /\ Leads(v, n, next)
                                /\ \A k \in DOMAIN t.work : t.work[k].node = v => k = e
  BY AboveTogether
<1>4. /\ u = [index |-> t.index, low |-> t.low, of |-> u.of, stack |-> u.stack, work |-> Front(t.work)]
      /\ u.stack \in Seq(DOMAIN next) /\ DOMAIN u.stack \subseteq DOMAIN t.stack
      /\ \A j \in DOMAIN u.stack : u.stack[j] = t.stack[j]
      /\ OnStack(u) = Below(t, n) /\ Placed(u) = Placed(t) \cup Above(t, n)
      /\ u.of = [v \in Placed(u) |-> IF v \in Above(t, n) THEN n ELSE t.of[v]]
  BY DEF Placing
<1>5. u.index = t.index /\ u.low = t.low /\ u.work = Front(t.work) /\ Entered(u) = Entered(t)
  BY <1>4 DEF Entered
<1>6. /\ u.work \in Seq(Frame(next)) /\ DOMAIN u.work = 1 .. e - 1
      /\ \A k \in DOMAIN u.work : u.work[k] = t.work[k] /\ k \in DOMAIN t.work /\ k # e
  <2>1. /\ u.work \in Seq(Frame(next)) /\ DOMAIN u.work = 1 .. e - 1
        /\ \A k \in 1 .. e - 1 : u.work[k] = t.work[k]
    BY <1>1, <1>5, FrontIs DEF TarjanShape
  <2> QED BY <1>2, <2>1
<1>7. /\ OnStack(t) = Above(t, n) \cup Below(t, n) /\ Above(t, n) \cap Below(t, n) = {}
      /\ \A v : v \in Above(t, n) <=> v \in OnStack(t) /\ t.index[n] <= t.index[v]
      /\ \A v : v \in Below(t, n) <=> v \in OnStack(t) /\ t.index[v] < t.index[n]
  <2>1. \A v : v \in Above(t, n) <=> v \in OnStack(t) /\ t.index[n] <= t.index[v]
    BY DEF Above
  <2>2. \A v : v \in Below(t, n) <=> v \in OnStack(t) /\ t.index[v] < t.index[n]
    BY DEF Below
  <2>3. \A v \in OnStack(t) : t.index[n] <= t.index[v] <=> ~(t.index[v] < t.index[n])
    BY <1>2
  <2> QED BY <2>1, <2>2, <2>3
<1>8. /\ \A k \in DOMAIN t.work : k # e =>
           /\ k + 1 \in DOMAIN t.work /\ t.work[k].node \in Below(t, n)
           /\ \A v \in OnStack(t) : Under(t, k, v, next) => v \in Below(t, n)
  BY <1>1, <1>7, LastFrame DEF FramesFollow
<1>9. /\ Entered(t) \subseteq DOMAIN next /\ Entered(t) = Placed(t) \cup OnStack(t)
      /\ Placed(t) \cap OnStack(t) = {} /\ t.of \in [Placed(t) -> Placed(t)]
  BY <1>1 DEF TarjanShape
<1>10. /\ \A v \in Above(t, n) : u.of[v] = n
       /\ \A v \in Placed(t) : u.of[v] = t.of[v] /\ t.of[v] \in Placed(t)
  BY <1>4, <1>7, <1>9
<1>11. TarjanShape(u, next)
  <2>1. u = [index |-> u.index, low |-> u.low, of |-> u.of, stack |-> u.stack, work |-> u.work]
    BY <1>4, <1>5
  <2>2. Entered(u) = Placed(u) \cup OnStack(u) /\ Placed(u) \cap OnStack(u) = {} /\ Entered(u) \subseteq DOMAIN next
    BY <1>4, <1>5, <1>7, <1>9
  <2>3. u.of \in [Placed(u) -> Placed(u)]
    <3>1. \A v \in Placed(u) : u.of[v] \in Placed(u)
      BY <1>3, <1>4, <1>10
    <3> QED BY <1>4, <3>1
  <2> QED BY <1>1, <1>4, <1>5, <1>6, <2>1, <2>2, <2>3 DEF TarjanShape
<1>12. StackClimbs(u)
  BY <1>1, <1>2, <1>4, <1>5 DEF StackClimbs
<1>13. FramesClimb(u)
  BY <1>1, <1>5, <1>6 DEF FramesClimb
<1>14. FramesFollow(u, next)
  BY <1>1, <1>4, <1>6, <1>8 DEF FramesFollow
<1>15. LowIsReached(u, next)
  <2>1. ASSUME NEW v \in OnStack(u)
        PROVE  /\ u.low[v] <= u.index[v]
               /\ \E w \in OnStack(u) : u.index[w] = u.low[v] /\ Leads(v, w, next)
    <3>1. v \in OnStack(t) /\ t.index[v] < t.index[n]
      BY <1>4, <1>7
    <3>2. PICK w \in OnStack(t) : t.index[w] = t.low[v] /\ Leads(v, w, next)
      BY <1>1, <3>1 DEF LowIsReached
    <3>3. t.low[v] <= t.index[v]
      BY <1>1, <3>1 DEF LowIsReached
    <3>4. w \in OnStack(u)
      BY <1>2, <1>4, <1>7, <3>1, <3>2, <3>3
    <3> QED BY <1>5, <3>2, <3>3, <3>4
  <2> QED BY <2>1 DEF LowIsReached
<1>16. AllUnder(u, next)
  <2>1. ASSUME NEW v \in OnStack(u)
        PROVE  \E k \in DOMAIN u.work : Under(u, k, v, next)
    <3>1. v \in OnStack(t) /\ t.index[v] < t.index[n]
      BY <1>4, <1>7
    <3>2. PICK k \in DOMAIN t.work : Under(t, k, v, next)
      BY <1>1, <3>1 DEF AllUnder
    <3>3. k # e
      <4>1. SUFFICES ASSUME k = e PROVE FALSE
        OBVIOUS
      <4>2. t.index[n] <= t.index[v]
        BY <3>2, <4>1 DEF Under, Returning
      <4> QED BY <1>2, <3>1, <4>2
    <3>4. k \in DOMAIN u.work /\ u.work[k] = t.work[k]
      BY <1>2, <1>6, <3>3
    <3> QED BY <1>5, <1>6, <3>2, <3>4 DEF Under
  <2> QED BY <2>1 DEF AllUnder
<1>17. LeftLow(u)
  <2>1. ASSUME NEW v \in OnStack(u), Framed(t, v) PROVE Framed(u, v)
    <3>1. PICK k \in DOMAIN t.work : t.work[k].node = v
      BY <2>1 DEF Framed
    <3>2. k # e
      BY <1>3, <1>4, <1>7, <2>1, <3>1 DEF Returning
    <3>3. k \in DOMAIN u.work /\ u.work[k] = t.work[k]
      BY <1>2, <1>6, <3>2
    <3> QED BY <3>1, <3>3 DEF Framed
  <2> QED BY <1>1, <1>4, <1>5, <1>7, <2>1 DEF LeftLow
<1>18. EdgesKnown(u, next, {})
  <2>1. ASSUME NEW v \in OnStack(u), NEW w \in next[v]
        PROVE  Known(u, v, w)
    <3>0. v \in OnStack(t) /\ v # n /\ Known(t, v, w)
      BY <1>1, <1>3, <1>4, <1>7 DEF EdgesKnown
    <3>1. CASE w \in Placed(t)
      BY <1>4, <3>1 DEF Known
    <3>2. CASE w \in OnStack(t) /\ t.low[v] <= t.index[w]
      BY <1>4, <1>5, <1>7, <3>2 DEF Known
    <3>3. CASE Ahead(t, v, w)
      <4>1. PICK k \in DOMAIN t.work :
              /\ t.work[k].node = v
              /\ w \in t.work[k].left \/ (k + 1 \in DOMAIN t.work /\ w = t.work[k + 1].node)
        BY <3>3 DEF Ahead
      <4>2. k # e
        BY <3>0, <4>1 DEF Returning
      <4>3. k \in DOMAIN u.work /\ u.work[k] = t.work[k]
        BY <1>2, <1>6, <4>2
      <4>4. CASE w \in t.work[k].left
        BY <4>1, <4>3, <4>4 DEF Known, Ahead
      <4>5. CASE k + 1 # e /\ k + 1 \in DOMAIN t.work /\ w = t.work[k + 1].node
        <5>1. k + 1 \in DOMAIN u.work /\ u.work[k + 1] = t.work[k + 1]
          BY <1>2, <1>6, <4>5
        <5> QED BY <4>1, <4>3, <4>5, <5>1 DEF Known, Ahead
      <4>6. CASE k + 1 = e /\ w = t.work[k + 1].node
        <5>1. w = n
          BY <4>6 DEF Returning
        <5> QED BY <1>3, <1>4, <5>1 DEF Known
      <4> QED BY <4>1, <4>4, <4>5, <4>6
    <3> QED BY <3>0, <3>1, <3>2, <3>3 DEF Known
  <2> QED BY <2>1 DEF EdgesKnown
<1>19. Sealed(Placed(u), next)
  <2>1. Sealed(Placed(t), next)
    BY <1>1 DEF PlacedRight
  <2>2. ASSUME NEW v \in Above(t, n), NEW w \in next[v]
        PROVE  w \in Placed(u)
    <3>0. Known(t, v, w)
      BY <1>1, <1>7 DEF EdgesKnown
    <3>1. CASE w \in Placed(t)
      BY <1>4, <3>1
    <3>2. CASE w \in OnStack(t) /\ t.low[v] <= t.index[w]
      <4>1. t.low[n] <= t.low[v]
        BY <1>3
      <4>2. t.index[n] <= t.index[w]
        BY <1>2, <1>7, <3>2, <4>1
      <4> QED BY <1>4, <1>7, <3>2, <4>2
    <3>3. CASE Ahead(t, v, w)
      <4>1. PICK k \in DOMAIN t.work :
              /\ t.work[k].node = v
              /\ w \in t.work[k].left \/ (k + 1 \in DOMAIN t.work /\ w = t.work[k + 1].node)
        BY <3>3 DEF Ahead
      <4>2. k = e
        BY <1>3, <4>1
      <4> QED BY <1>2, <4>1, <4>2 DEF Returning
    <3> QED BY <3>0, <3>1, <3>2, <3>3 DEF Known
  <2>3. Placed(u) \subseteq DOMAIN next
    BY <1>2, <1>4, <1>7, <1>9
  <2> QED BY <1>4, <2>1, <2>2, <2>3 DEF Sealed
<1>20. \A x, y \in Placed(u) : u.of[x] = u.of[y] <=> ~Apart(x, y, next)
  <2>1. ASSUME NEW x \in Above(t, n), NEW y \in Placed(t)
        PROVE  u.of[x] # u.of[y] /\ Apart(x, y, next) /\ Apart(y, x, next)
    <3>1. x \notin Placed(t) /\ n \notin Placed(t)
      BY <1>2, <1>7, <1>9
    <3>2. Sealed(Placed(t), next) /\ Placed(t) \in SUBSET DOMAIN next
      BY <1>1 DEF PlacedRight, Sealed
    <3> QED BY <1>10, <3>1, <3>2 DEF Apart
  <2>2. ASSUME NEW x \in Above(t, n), NEW y \in Above(t, n)
        PROVE  u.of[x] = u.of[y] /\ ~Apart(x, y, next)
    <3>1. Leads(x, n, next) /\ Leads(n, y, next) /\ Leads(y, n, next) /\ Leads(n, x, next)
      BY <1>3
    <3> QED BY <1>10, <3>1 DEF Apart, Leads
  <2>3. ASSUME NEW x \in Placed(t), NEW y \in Placed(t)
        PROVE  u.of[x] = u.of[y] <=> ~Apart(x, y, next)
    BY <1>1, <1>10 DEF PlacedRight
  <2> QED BY <1>4, <2>1, <2>2, <2>3
<1>21. PlacedRight(u, next)
  BY <1>19, <1>20 DEF PlacedRight
<1> QED BY <1>11, <1>12, <1>13, <1>14, <1>15, <1>16, <1>17, <1>18, <1>21 DEF Midway


(* More is done: of what was entered, left and looked at, nothing is lost and something is added. *)
Grows(t, u, next) ==
  /\ Entered(t) \subseteq Entered(u) /\ Left(t) \subseteq Left(u) /\ Looked(t, next) \subseteq Looked(u, next)
  /\ Entered(t) # Entered(u) \/ Left(t) # Left(u) \/ Looked(t, next) # Looked(u, next)

LEMMA EnterGrows ==
  ASSUME NEW next, Graph(next), NEW t, NEW n \in DOMAIN next, n \notin Entered(t), NEW but,
         Midway(t, next, but), NEW u, Entering(t, u, n, next)
  PROVE  Grows(t, u, next)
<1>1. TarjanShape(t, next) /\ FramesFollow(t, next)
  BY DEF Midway
<1>2. Entered(u) = Entered(t) \cup {n}
  BY DEF Entering
<1>3. t.work \in Seq(Frame(next)) /\ [node |-> n, left |-> next[n]] \in Frame(next)
  BY <1>1 DEF TarjanShape, Graph, Frame
<1>4. /\ DOMAIN u.work = DOMAIN t.work \cup {Len(t.work) + 1}
      /\ \A k \in DOMAIN t.work : u.work[k] = t.work[k]
      /\ u.work[Len(t.work) + 1].node = n
  BY <1>3, Appended DEF Entering
<1>5. Left(t) \subseteq Left(u)
  <2>1. ASSUME NEW v \in Entered(t), v # n, Framed(u, v) PROVE Framed(t, v)
    BY <1>4, <2>1 DEF Framed
  <2> QED BY <1>2, <2>1 DEF Left
<1>6. Looked(t, next) \subseteq Looked(u, next)
  <2>1. ASSUME NEW x \in Looked(t, next) PROVE x \in Looked(u, next)
    <3>1. /\ x \in Entered(t) \X DOMAIN next
          /\ ~\E k \in DOMAIN t.work : t.work[k].node = x[1] /\ x[2] \in t.work[k].left
      BY <2>1 DEF Looked
    <3>2. x \in Entered(u) \X DOMAIN next /\ x[1] # n
      BY <1>2, <3>1
    <3>3. ~\E k \in DOMAIN u.work : u.work[k].node = x[1] /\ x[2] \in u.work[k].left
      BY <1>4, <3>1, <3>2
    <3> QED BY <3>2, <3>3 DEF Looked
  <2> QED BY <2>1
<1> QED BY <1>2, <1>5, <1>6 DEF Grows

LEMMA MovedGrows ==
  ASSUME NEW next, NEW t, Midway(t, next, {}), t.work # <<>>, NEW m \in t.work[Len(t.work)].left
  PROVE  Grows(t, Moved(t, m), next)
<1> DEFINE u == Moved(t, m)
           e == Len(t.work)
           n == t.work[e].node
<1>0. TarjanShape(t, next) /\ FramesFollow(t, next) /\ FramesClimb(t)
  BY DEF Midway
<1>1. /\ u = [index |-> t.index, low |-> t.low, of |-> t.of, stack |-> t.stack, work |-> u.work]
      /\ u.work \in Seq(Frame(next)) /\ DOMAIN u.work = DOMAIN t.work /\ e \in DOMAIN t.work
      /\ \A k \in DOMAIN t.work : k # e => u.work[k] = t.work[k]
      /\ u.work[e].node = t.work[e].node /\ u.work[e].left = t.work[e].left \ {m}
  BY <1>0, MovedIs
<1> HIDE DEF u, e
<1>2. Entered(u) = Entered(t)
  BY <1>1 DEF Entered
<1>3. \A k \in DOMAIN t.work : u.work[k].node = t.work[k].node /\ u.work[k].left \subseteq t.work[k].left
  BY <1>1
<1>4. Left(u) = Left(t)
  BY <1>1, <1>2, <1>3 DEF Left, Framed
<1>5. Looked(t, next) \subseteq Looked(u, next)
  BY <1>1, <1>2, <1>3 DEF Looked
<1>6. /\ OnStack(t) \subseteq Entered(t) /\ \A v \in OnStack(t) : t.index[v] \in Nat
      /\ e \in Nat /\ DOMAIN t.work = 1 .. e /\ n \in OnStack(t) /\ m \in DOMAIN next
  BY <1>0, <1>1, StackTyped DEF FramesFollow, e
<1>7. \A k \in DOMAIN t.work : t.work[k].node = n => k = e
  <2>1. ASSUME NEW k \in DOMAIN t.work, t.work[k].node = n, k # e PROVE FALSE
    <3>1. k < e
      BY <1>6, <2>1
    <3>2. t.index[n] < t.index[n]
      BY <1>0, <1>1, <2>1, <3>1 DEF FramesClimb
    <3> QED BY <1>6, <3>2
  <2> QED BY <2>1
<1>8. <<n, m>> \notin Looked(t, next)
  BY <1>1 DEF Looked, e
<1>9. <<n, m>> \in Looked(u, next)
  <2>1. <<n, m>> \in Entered(u) \X DOMAIN next
    BY <1>2, <1>6
  <2>2. ASSUME NEW k \in DOMAIN u.work, u.work[k].node = n, m \in u.work[k].left PROVE FALSE
    BY <1>1, <1>3, <1>7, <2>2
  <2> QED BY <2>1, <2>2 DEF Looked
<1>10. Grows(t, u, next)
  BY <1>2, <1>4, <1>5, <1>8, <1>9 DEF Grows
<1> QED BY <1>10 DEF u

(* A return adds its node to those that are left.                          *)
LEMMA ReturnGrows ==
  ASSUME NEW next, NEW t, NEW n, Returning(t, n, next),
         NEW u, Entered(u) = Entered(t), u.work = Front(t.work)
  PROVE  Grows(t, u, next)
<1> DEFINE e == Len(t.work)
<1>1. TarjanShape(t, next) /\ t.work # <<>>
  BY DEF Returning, Midway
<1>2. /\ OnStack(t) \subseteq Entered(t) /\ e \in Nat /\ DOMAIN t.work = 1 .. e
      /\ e \in DOMAIN t.work /\ n \in OnStack(t)
  BY <1>1, StackTyped, LastFrame
<1>3. \A k \in DOMAIN u.work : u.work[k] = t.work[k] /\ k \in DOMAIN t.work /\ k # e
  <2>1. DOMAIN u.work = 1 .. e - 1 /\ \A k \in 1 .. e - 1 : u.work[k] = t.work[k]
    BY <1>1, FrontIs DEF TarjanShape
  <2> QED BY <1>2, <2>1
<1>4. Left(t) \subseteq Left(u)
  BY <1>3 DEF Left, Framed
<1>5. Looked(t, next) \subseteq Looked(u, next)
  BY <1>3 DEF Looked
<1>6. n \notin Left(t)
  BY <1>2 DEF Left, Framed, Returning
<1>7. n \in Left(u)
  BY <1>2, <1>3, LastFrame DEF Left, Framed
<1> QED BY <1>4, <1>5, <1>6, <1>7 DEF Grows

(* A step keeps everything, and does more unless all is done.              *)
LEMMA StepKeeps ==
  ASSUME NEW next, Graph(next), NEW t, Midway(t, next, {})
  PROVE  /\ Midway(Step(t, next), next, {})
         /\ AtEnd(t, next) => Step(t, next) = t
         /\ ~AtEnd(t, next) => Grows(t, Step(t, next), next)
<1> DEFINE e == Len(t.work)
           n == t.work[e].node
           left == t.work[e].left
           m == CHOOSE x \in left : TRUE
           moved == Moved(t, m)
           fresh == DOMAIN next \ Entered(t)
           s == CHOOSE x \in fresh : TRUE
<1>1. TarjanShape(t, next) /\ FramesFollow(t, next)
  BY DEF Midway
<1>2. Last(t.work) = t.work[e]
  BY DEF Last
<1>3. CASE t.work # <<>> /\ left # {}
  <2>0. e \in DOMAIN t.work /\ n \in OnStack(t) /\ n \in DOMAIN next /\ m \in left /\ m \in next[n] /\ m \in DOMAIN next
    <3>1. e \in DOMAIN t.work
      BY <1>1, <1>3 DEF TarjanShape
    <3>2. n \in OnStack(t) /\ left \subseteq next[n] /\ n \in DOMAIN next /\ left \subseteq DOMAIN next
      BY <1>1, <3>1, StackTyped DEF FramesFollow
    <3>3. m \in left
      BY <1>3
    <3> QED BY <3>1, <3>2, <3>3
  <2>1. Step(t, next) = Explores(t, n, m, next)
    BY <1>2, <1>3 DEF Step
  <2>2. Explores(t, n, m, next) =
          IF m \notin Entered(t) THEN Enters(moved, m, next)
          ELSE IF m \in OnStack(t) THEN Lowers(moved, n, t.index[m]) ELSE moved
    BY DEF Explores, Moved, Entered, OnStack
  <2> HIDE DEF m
  <2>3. /\ moved = [index |-> t.index, low |-> t.low, of |-> t.of, stack |-> t.stack, work |-> moved.work]
        /\ Len(moved.work) = e /\ moved.work[e].node = n /\ moved.work # <<>>
    <3>1. /\ moved = [index |-> t.index, low |-> t.low, of |-> t.of, stack |-> t.stack, work |-> moved.work]
          /\ Len(moved.work) = e /\ DOMAIN moved.work = DOMAIN t.work /\ moved.work[e].node = n
      BY <1>1, <1>3, MovedIs
    <3>2. moved.work # <<>>
      BY <2>0, <3>1
    <3> QED BY <3>1, <3>2
  <2>4. Midway(moved, next, {<<n, m>>}) /\ Grows(t, moved, next)
    BY <1>3, <2>0, MovedKeeps, MovedGrows
  <2> HIDE DEF moved
  <2>5. moved.index = t.index /\ moved.low = t.low /\ moved.stack = t.stack /\ moved.of = t.of
    BY <2>3
  <2>6. Entered(moved) = Entered(t) /\ OnStack(moved) = OnStack(t) /\ Placed(moved) = Placed(t)
    BY <2>5 DEF Entered, OnStack, Placed
  <2>7. TarjanShape(moved, next)
    BY <2>4 DEF Midway
  <2>8. CASE m \notin Entered(t)
    <3> DEFINE u == Enters(moved, m, next)
    <3>1. Entering(moved, u, m, next)
      BY <2>0, <2>6, <2>7, <2>8, EntersIs
    <3>2. EntersFrom(moved, m, {<<n, m>>}, next)
      BY <2>0, <2>3 DEF EntersFrom
    <3> HIDE DEF u
    <3>3. Midway(u, next, {})
      BY <2>0, <2>4, <2>6, <2>8, <3>1, <3>2, EnterKeeps
    <3>4. Grows(moved, u, next)
      BY <2>0, <2>4, <2>6, <2>8, <3>1, EnterGrows
    <3>5. Grows(t, u, next)
      BY <2>4, <3>4 DEF Grows
    <3>6. Step(t, next) = u
      BY <2>1, <2>2, <2>8 DEF u
    <3> QED BY <1>3, <3>3, <3>5, <3>6 DEF AtEnd
  <2>9. CASE m \in OnStack(t)
    <3> DEFINE u == Lowers(moved, n, t.index[m])
    <3>0. OnStack(t) \subseteq Entered(t) /\ t.index[m] \in Nat
      BY <1>1, <2>9, StackTyped
    <3>1. Lowering(moved, u, n, moved.index[m])
      BY <2>0, <2>5, <2>6, <2>7, <3>0, LowersIs DEF TarjanShape
    <3> HIDE DEF u
    <3>2. Midway(u, next, {})
      BY <2>0, <2>3, <2>4, <2>6, <2>9, <3>1, LowerKeeps
    <3>3. u.index = moved.index /\ u.work = moved.work
      BY <3>1 DEF Lowering
    <3>4. Grows(t, u, next)
      <4>1. Entered(u) = Entered(moved) /\ Left(u) = Left(moved) /\ Looked(u, next) = Looked(moved, next)
        BY <3>3 DEF Entered, Left, Framed, Looked
      <4> QED BY <2>4, <4>1 DEF Grows
    <3>5. Step(t, next) = u
      BY <2>1, <2>2, <2>9, <3>0 DEF u
    <3> QED BY <1>3, <3>2, <3>4, <3>5 DEF AtEnd
  <2>10. CASE m \in Entered(t) /\ m \notin OnStack(t)
    <3>1. m \in Placed(moved)
      BY <1>1, <2>6, <2>10 DEF TarjanShape
    <3>2. EdgesKnown(moved, next, {})
      BY <2>4, <3>1 DEF Midway, EdgesKnown, Known
    <3>3. Midway(moved, next, {})
      BY <2>4, <3>2 DEF Midway
    <3>4. Step(t, next) = moved
      BY <2>1, <2>2, <2>10
    <3> QED BY <1>3, <2>4, <3>3, <3>4 DEF AtEnd
  <2> QED BY <2>8, <2>9, <2>10
<1>4. CASE t.work # <<>> /\ left = {}
  <2>1. Returning(t, n, next)
    BY <1>4 DEF Returning
  <2>2. Step(t, next) = Returns(t, n)
    BY <1>2, <1>4 DEF Step
  <2> DEFINE u == Returns(t, n)
  <2>3. Midway(u, next, {}) /\ Entered(u) = Entered(t) /\ u.work = Front(t.work)
    <3>1. CASE t.low[n] = t.index[n]
      <4>1. Placing(t, u, n, next)
        BY <2>1, <3>1, PlacesIs
      <4> HIDE DEF u
      <4>2. Midway(u, next, {})
        BY <2>1, <3>1, <4>1, PlaceKeeps
      <4>3. u.index = t.index /\ u.work = Front(t.work)
        BY <4>1 DEF Placing
      <4> QED BY <4>2, <4>3 DEF Entered
    <3>2. CASE t.low[n] # t.index[n]
      <4>1. Midway(u, next, {})
        BY <2>1, <3>2, ReturnKeeps
      <4>2. Entered(u) = Entered(t) /\ u.work = Front(t.work)
        BY <2>1, <3>2, ReturnIs DEF Entered, Telling
      <4> QED BY <4>1, <4>2
    <3> QED BY <3>1, <3>2
  <2> HIDE DEF u
  <2>4. Grows(t, u, next)
    BY <2>1, <2>3, ReturnGrows
  <2> QED BY <1>4, <2>2, <2>3, <2>4 DEF AtEnd, u
<1>5. CASE t.work = <<>> /\ fresh # {}
  <2>1. Step(t, next) = Enters(t, s, next)
    BY <1>5 DEF Step, Entered
  <2>2. s \in DOMAIN next /\ s \notin Entered(t)
    BY <1>5
  <2> DEFINE u == Enters(t, s, next)
  <2> HIDE DEF s
  <2>3. Entering(t, u, s, next)
    BY <1>1, <2>2, EntersIs
  <2> HIDE DEF u
  <2>4. Midway(u, next, {})
    BY <1>5, <2>2, <2>3, EnterKeeps DEF EntersFrom
  <2>5. Grows(t, u, next)
    BY <2>2, <2>3, EnterGrows
  <2>6. ~AtEnd(t, next)
    BY <2>2 DEF AtEnd
  <2> QED BY <2>1, <2>4, <2>5, <2>6 DEF u
<1>6. CASE t.work = <<>> /\ fresh = {}
  <2>1. Step(t, next) = t
    BY <1>6 DEF Step, Entered
  <2>2. AtEnd(t, next)
    BY <1>1, <1>6 DEF AtEnd, TarjanShape
  <2> QED BY <2>1, <2>2
<1> QED BY <1>3, <1>4, <1>5, <1>6


(* One set in another.                                                     *)
LEMMA Within ==
  ASSUME NEW B, IsFiniteSet(B), NEW A, A \subseteq B
  PROVE  /\ IsFiniteSet(A) /\ Cardinality(A) \in Nat /\ Cardinality(B) \in Nat
         /\ Cardinality(A) <= Cardinality(B)
         /\ A # B => Cardinality(A) + 1 <= Cardinality(B)
<1>1. IsFiniteSet(A) /\ Cardinality(A) <= Cardinality(B) /\ (Cardinality(B) = Cardinality(A) => B = A)
  BY FS_Subset
<1>2. Cardinality(A) \in Nat /\ Cardinality(B) \in Nat
  BY <1>1, FS_CardinalityType
<1>3. \A a, b \in Nat : a <= b /\ a # b => a + 1 <= b
  OBVIOUS
<1> QED BY <1>1, <1>2, <1>3

(* What can be done: the nodes entered and left, and the pairs looked at.  *)
LEMMA WorkBounded ==
  ASSUME NEW next, Graph(next), NEW t, Entered(t) \subseteq DOMAIN next
  PROVE  /\ Work(t, next) \in Nat /\ TarjanSteps(DOMAIN next) \in Nat
         /\ Work(t, next) <= TarjanSteps(DOMAIN next)
         /\ Work(t, next) = TarjanSteps(DOMAIN next) => Entered(t) = DOMAIN next /\ Left(t) = DOMAIN next
         /\ Work(t, next) = Cardinality(Entered(t)) + Cardinality(Left(t)) + Cardinality(Looked(t, next))
         /\ IsFiniteSet(Entered(t)) /\ IsFiniteSet(Left(t)) /\ IsFiniteSet(Looked(t, next))
<1> DEFINE V == DOMAIN next
           c == Cardinality(V)
<1>1. IsFiniteSet(V) /\ IsFiniteSet(V \X V) /\ Cardinality(V \X V) = c * c
  BY FS_Product DEF Graph
<1>2. Left(t) \subseteq V /\ Looked(t, next) \subseteq V \X V
  BY DEF Left, Looked
<1>3. /\ IsFiniteSet(Entered(t)) /\ IsFiniteSet(Left(t)) /\ IsFiniteSet(Looked(t, next)) /\ c \in Nat
      /\ Cardinality(Entered(t)) \in Nat /\ Cardinality(Left(t)) \in Nat /\ Cardinality(Looked(t, next)) \in Nat
      /\ Cardinality(Entered(t)) <= c /\ Cardinality(Left(t)) <= c /\ Cardinality(Looked(t, next)) <= c * c
      /\ Entered(t) # V => Cardinality(Entered(t)) + 1 <= c
      /\ Left(t) # V => Cardinality(Left(t)) + 1 <= c
  <2>1. /\ IsFiniteSet(Entered(t)) /\ c \in Nat /\ Cardinality(Entered(t)) \in Nat
        /\ Cardinality(Entered(t)) <= c /\ (Entered(t) # V => Cardinality(Entered(t)) + 1 <= c)
    BY <1>1, Within
  <2>2. /\ IsFiniteSet(Left(t)) /\ Cardinality(Left(t)) \in Nat
        /\ Cardinality(Left(t)) <= c /\ (Left(t) # V => Cardinality(Left(t)) + 1 <= c)
    BY <1>1, <1>2, Within
  <2>3. /\ IsFiniteSet(Looked(t, next)) /\ Cardinality(Looked(t, next)) \in Nat
        /\ Cardinality(Looked(t, next)) <= c * c
    BY <1>1, <1>2, Within
  <2> QED BY <2>1, <2>2, <2>3
<1>4. Work(t, next) = Cardinality(Entered(t)) + Cardinality(Left(t)) + Cardinality(Looked(t, next))
  BY DEF Work
<1>5. TarjanSteps(V) = c * c + 2 * c /\ c * c \in Nat
  <2>1. \A x \in Nat : x * (x + 2) = x * x + 2 * x /\ x * x \in Nat
    OBVIOUS
  <2> QED BY <1>3, <2>1 DEF TarjanSteps
<1>6. \A a, b, d, x, y \in Nat : a <= x /\ b <= x /\ d <= y =>
        /\ a + b + d \in Nat /\ y + 2 * x \in Nat /\ a + b + d <= y + 2 * x
        /\ (a + b + d = y + 2 * x => ~(a + 1 <= x) /\ ~(b + 1 <= x))
  OBVIOUS
<1> HIDE DEF c, V
<1>7. /\ Work(t, next) \in Nat /\ TarjanSteps(V) \in Nat /\ Work(t, next) <= TarjanSteps(V)
      /\ Work(t, next) = TarjanSteps(V) =>
           ~(Cardinality(Entered(t)) + 1 <= c) /\ ~(Cardinality(Left(t)) + 1 <= c)
  BY <1>3, <1>4, <1>5, <1>6
<1>8. /\ Work(t, next) \in Nat /\ TarjanSteps(V) \in Nat /\ Work(t, next) <= TarjanSteps(V)
      /\ Work(t, next) = TarjanSteps(V) => Entered(t) = V /\ Left(t) = V
  BY <1>3, <1>7
<1> QED BY <1>3, <1>4, <1>8 DEF V

LEMMA WorkGrows ==
  ASSUME NEW next, Graph(next), NEW t, NEW u,
         Entered(t) \subseteq DOMAIN next, Entered(u) \subseteq DOMAIN next, Grows(t, u, next)
  PROVE  Work(t, next) + 1 <= Work(u, next)
<1>1. /\ Work(t, next) = Cardinality(Entered(t)) + Cardinality(Left(t)) + Cardinality(Looked(t, next))
      /\ Work(u, next) = Cardinality(Entered(u)) + Cardinality(Left(u)) + Cardinality(Looked(u, next))
      /\ IsFiniteSet(Entered(u)) /\ IsFiniteSet(Left(u)) /\ IsFiniteSet(Looked(u, next))
  BY WorkBounded
<1>2. /\ Cardinality(Entered(t)) \in Nat /\ Cardinality(Entered(u)) \in Nat
      /\ Cardinality(Entered(t)) <= Cardinality(Entered(u))
      /\ Entered(t) # Entered(u) => Cardinality(Entered(t)) + 1 <= Cardinality(Entered(u))
  BY <1>1, Within DEF Grows
<1>3. /\ Cardinality(Left(t)) \in Nat /\ Cardinality(Left(u)) \in Nat
      /\ Cardinality(Left(t)) <= Cardinality(Left(u))
      /\ Left(t) # Left(u) => Cardinality(Left(t)) + 1 <= Cardinality(Left(u))
  BY <1>1, Within DEF Grows
<1>4. /\ Cardinality(Looked(t, next)) \in Nat /\ Cardinality(Looked(u, next)) \in Nat
      /\ Cardinality(Looked(t, next)) <= Cardinality(Looked(u, next))
      /\ Looked(t, next) # Looked(u, next) => Cardinality(Looked(t, next)) + 1 <= Cardinality(Looked(u, next))
  BY <1>1, Within DEF Grows
<1>5. Entered(t) # Entered(u) \/ Left(t) # Left(u) \/ Looked(t, next) # Looked(u, next)
  BY DEF Grows
<1>6. \A a, b, d, x, y, z \in Nat :
        a <= x /\ b <= y /\ d <= z /\ (a + 1 <= x \/ b + 1 <= y \/ d + 1 <= z) => a + b + d + 1 <= x + y + z
  OBVIOUS
<1> QED BY <1>1, <1>2, <1>3, <1>4, <1>5, <1>6

-----------------------------------------------------------------------------
(* The whole of it.                                                        *)

Blank == [index |-> <<>>, low |-> <<>>, of |-> <<>>, stack |-> <<>>, work |-> <<>>]

LEMMA BlankMidway ==
  ASSUME NEW next
  PROVE  Midway(Blank, next, {})
<1> DEFINE b == Blank
<1>1. b.index = <<>> /\ b.low = <<>> /\ b.of = <<>> /\ b.stack = <<>> /\ b.work = <<>>
  BY DEF Blank
<1>2. b = [index |-> b.index, low |-> b.low, of |-> b.of, stack |-> b.stack, work |-> b.work]
  BY <1>1 DEF Blank
<1> HIDE DEF b
<1>3. Entered(b) = {} /\ Placed(b) = {} /\ OnStack(b) = {} /\ DOMAIN b.stack = {} /\ DOMAIN b.work = {}
  <2>1. DOMAIN b.index = {} /\ DOMAIN b.of = {} /\ DOMAIN b.stack = {} /\ DOMAIN b.work = {}
    BY <1>1
  <2>2. ToSet(b.stack) = {b.stack[i] : i \in DOMAIN b.stack}
    BY DEF ToSet
  <2> QED BY <2>1, <2>2 DEF Entered, Placed, OnStack
<1>4. TarjanShape(b, next)
  <2>1. b.index \in [Entered(b) -> Nat] /\ b.low \in [Entered(b) -> Nat] /\ b.of \in [Placed(b) -> Placed(b)]
    BY <1>1, <1>3
  <2>2. b.stack \in Seq(DOMAIN next) /\ b.work \in Seq(Frame(next))
    BY <1>1
  <2> QED BY <1>2, <1>3, <2>1, <2>2 DEF TarjanShape
<1>5. StackClimbs(b) /\ FramesClimb(b) /\ FramesFollow(b, next)
  BY <1>3 DEF StackClimbs, FramesClimb, FramesFollow
<1>6. LowIsReached(b, next) /\ AllUnder(b, next) /\ LeftLow(b) /\ EdgesKnown(b, next, {})
  BY <1>3 DEF LowIsReached, AllUnder, LeftLow, EdgesKnown
<1>7. PlacedRight(b, next)
  BY <1>3 DEF PlacedRight, Sealed
<1>8. Midway(b, next, {})
  BY <1>4, <1>5, <1>6, <1>7 DEF Midway
<1> QED BY <1>8 DEF b

(* The steps the algorithm takes.                                          *)
Proceeds(g, n, next) == g = [k \in 0 .. n |-> IF k = 0 THEN Blank ELSE Step(g[k - 1], next)]

LEMMA ProceedsMore ==
  ASSUME NEW next, NEW n \in Nat, n # 0, NEW g, Proceeds(g, n - 1, next)
  PROVE  \E h : Proceeds(h, n, next)
<1> DEFINE h == [k \in 0 .. n |-> IF k = n THEN Step(g[n - 1], next) ELSE g[k]]
<1>1. g = [k \in 0 .. (n - 1) |-> IF k = 0 THEN Blank ELSE Step(g[k - 1], next)]
  BY DEF Proceeds
<1>2. ASSUME NEW k \in 0 .. n
      PROVE  h[k] = IF k = 0 THEN Blank ELSE Step(h[k - 1], next)
  <2>1. CASE k = n
    <3>1. h[k] = Step(g[n - 1], next)
      BY <2>1
    <3>2. h[k - 1] = g[n - 1]
      BY <2>1
    <3> QED BY <2>1, <3>1, <3>2
  <2>2. CASE k # n /\ k = 0
    <3>1. h[k] = g[0]
      BY <2>2
    <3>2. g[0] = Blank
      BY <1>1
    <3> QED BY <2>2, <3>1, <3>2
  <2>3. CASE k # n /\ k # 0
    <3>1. h[k] = g[k] /\ h[k - 1] = g[k - 1]
      BY <2>3
    <3>2. g[k] = Step(g[k - 1], next)
      <4>1. k \in 0 .. (n - 1)
        BY <2>3
      <4> QED BY <1>1, <2>3, <4>1
    <3> QED BY <2>3, <3>1, <3>2
  <2> QED BY <2>1, <2>2, <2>3
<1>3. h = [k \in 0 .. n |-> h[k]]
  OBVIOUS
<1> HIDE DEF h
<1>4. h = [k \in 0 .. n |-> IF k = 0 THEN Blank ELSE Step(h[k - 1], next)]
  BY <1>2, <1>3
<1> QED BY <1>4 DEF Proceeds

LEMMA ProceedsExist ==
  ASSUME NEW next, NEW n \in Nat
  PROVE  \E g : Proceeds(g, n, next)
<1> DEFINE T == {m \in Nat : ~ \E g : Proceeds(g, m, next)}
<1>0. T \subseteq Nat /\ \A m : m \in T <=> m \in Nat /\ ~ \E g : Proceeds(g, m, next)
  OBVIOUS
<1> HIDE DEF T
<1> SUFFICES ASSUME T # {} PROVE FALSE
  BY <1>0
<1>1. PICK m \in T : \A k \in T : m <= k
  BY <1>0, LeastNumber
<1>2. m \in Nat
  BY <1>0
<1>3. CASE m = 0
  <2> DEFINE g == [k \in 0 .. 0 |-> Blank]
  <2>1. g = [k \in 0 .. 0 |-> IF k = 0 THEN Blank ELSE Step(g[k - 1], next)]
    OBVIOUS
  <2> HIDE DEF g
  <2>2. Proceeds(g, 0, next)
    BY <2>1 DEF Proceeds
  <2> QED BY <1>0, <1>3, <2>2
<1>4. CASE m # 0
  <2>1. m - 1 \in Nat /\ ~(m <= m - 1)
    BY <1>2, <1>4
  <2>2. PICK g : Proceeds(g, m - 1, next)
    BY <1>0, <1>1, <2>1
  <2>3. \E h : Proceeds(h, m, next)
    BY <1>2, <1>4, <2>2, ProceedsMore
  <2> QED BY <1>0, <2>3
<1> QED BY <1>3, <1>4

(* After k steps it is at its end or has done k pieces of work.            *)
Done(t, k, next) == Midway(t, next, {}) /\ (AtEnd(t, next) \/ k <= Work(t, next))
LEMMA ProceedsDone ==
  ASSUME NEW next, Graph(next), NEW n \in Nat, NEW g, Proceeds(g, n, next)
  PROVE  Done(g[n], n, next)
<1> DEFINE T == {k \in 0 .. n : ~Done(g[k], k, next)}
<1>1. T \subseteq Nat /\ \A k : k \in T <=> k \in 0 .. n /\ ~Done(g[k], k, next)
  OBVIOUS
<1> HIDE DEF T
<1>2. ASSUME NEW t, Midway(t, next, {})
      PROVE  Entered(t) \subseteq DOMAIN next /\ Work(t, next) \in Nat
  <2>1. Entered(t) \subseteq DOMAIN next
    BY <1>2 DEF Midway, TarjanShape
  <2> QED BY <2>1, WorkBounded
<1>3. T = {}
  <2> SUFFICES ASSUME T # {} PROVE FALSE
    OBVIOUS
  <2>1. PICK k \in T : \A l \in T : k <= l
    BY <1>1, LeastNumber
  <2>2. k \in 0 .. n /\ ~Done(g[k], k, next)
    BY <1>1
  <2>3. g[k] = IF k = 0 THEN Blank ELSE Step(g[k - 1], next)
    BY <2>2 DEF Proceeds
  <2>4. k # 0
    <3> SUFFICES ASSUME k = 0 PROVE FALSE
      OBVIOUS
    <3>1. g[0] = Blank /\ Midway(Blank, next, {})
      BY <2>3, BlankMidway
    <3>2. Work(Blank, next) \in Nat
      BY <1>2, <3>1
    <3> QED BY <2>2, <3>1, <3>2 DEF Done
  <2>5. k - 1 \in 0 .. n /\ ~(k <= k - 1) /\ k \in Nat
    BY <2>2, <2>4
  <2>6. Done(g[k - 1], k - 1, next)
    BY <1>1, <2>1, <2>5
  <2> DEFINE t == g[k - 1]
             u == Step(t, next)
  <2> HIDE DEF t, u
  <2>7. Midway(t, next, {})
    BY <2>6 DEF Done, t
  <2>8. Midway(u, next, {}) /\ (AtEnd(t, next) => u = t) /\ (~AtEnd(t, next) => Grows(t, u, next))
    BY <2>7, StepKeeps DEF u
  <2>9. CASE AtEnd(t, next)
    BY <2>2, <2>3, <2>4, <2>8, <2>9 DEF Done, t, u
  <2>10. CASE ~AtEnd(t, next)
    <3>1. Work(t, next) + 1 <= Work(u, next) /\ Work(t, next) \in Nat /\ Work(u, next) \in Nat
      BY <1>2, <2>7, <2>8, <2>10, WorkGrows
    <3>2. k - 1 <= Work(t, next)
      BY <2>6, <2>10 DEF Done, t
    <3>3. k <= Work(u, next)
      BY <2>5, <3>1, <3>2
    <3> QED BY <2>2, <2>3, <2>4, <2>8, <3>3 DEF Done, t, u
  <2> QED BY <2>9, <2>10
<1> QED BY <1>1, <1>3

(* At its end it has placed every node, with the nodes it belongs with.    *)
LEMMA AllPlaced ==
  ASSUME NEW next, Graph(next), NEW g, Proceeds(g, TarjanSteps(DOMAIN next), next)
  PROVE  LET of == g[TarjanSteps(DOMAIN next)].of
         IN  DOMAIN of = DOMAIN next /\ \A x, y \in DOMAIN next : of[x] = of[y] <=> ~Apart(x, y, next)
<1> DEFINE n == TarjanSteps(DOMAIN next)
           t == g[n]
<1>1. n \in Nat
  <2>1. Entered(Blank) \subseteq DOMAIN next
    BY BlankMidway DEF Midway, TarjanShape
  <2> QED BY <2>1, WorkBounded
<1> HIDE DEF n
<1>2. Proceeds(g, n, next)
  BY DEF n
<1> HIDE DEF t
<1>3. Done(t, n, next)
  BY <1>1, <1>2, ProceedsDone DEF t
<1>4. Midway(t, next, {}) /\ TarjanShape(t, next)
  BY <1>3 DEF Done, Midway
<1>5. Entered(t) = DOMAIN next /\ t.work = <<>>
  <2>1. CASE AtEnd(t, next)
    BY <2>1 DEF AtEnd
  <2>2. CASE n <= Work(t, next)
    <3>0. Entered(t) \subseteq DOMAIN next
      BY <1>4 DEF TarjanShape
    <3>1. Work(t, next) = n
      BY <1>1, <2>2, <3>0, WorkBounded DEF n
    <3>2. Entered(t) = DOMAIN next /\ Left(t) = DOMAIN next
      BY <3>0, <3>1, WorkBounded DEF n
    <3>3. t.work = <<>>
      <4> SUFFICES ASSUME t.work # <<>> PROVE FALSE
        OBVIOUS
      <4>1. Len(t.work) \in DOMAIN t.work /\ DOMAIN t.work = 1 .. Len(t.work)
        BY <1>4 DEF TarjanShape
      <4>2. t.work[Len(t.work)].node \in OnStack(t)
        BY <1>4, <4>1 DEF Midway, FramesFollow
      <4>3. t.work[Len(t.work)].node \in Left(t)
        BY <1>4, <3>2, <4>2, StackTyped
      <4> QED BY <4>1, <4>3 DEF Left, Framed
    <3> QED BY <3>2, <3>3
  <2> QED BY <1>3, <2>1, <2>2 DEF Done
<1>6. OnStack(t) = {}
  BY <1>4, <1>5 DEF Midway, AllUnder
<1>7. Placed(t) = DOMAIN next
  BY <1>4, <1>5, <1>6 DEF TarjanShape
<1>8. DOMAIN t.of = DOMAIN next /\ \A x, y \in DOMAIN next : t.of[x] = t.of[y] <=> ~Apart(x, y, next)
  BY <1>4, <1>7 DEF Midway, PlacedRight, Placed
<1> QED BY <1>8 DEF t, n



(* The nodes an edge leads to, from each node.                             *)
NextOf(edges) == [n \in NodesOf(edges) |-> {x.to : x \in {y \in edges : y.from = n}}]

LEMMA ComponentsFound ==
  ASSUME NEW edges, IsFiniteSet(NodesOf(edges))
  PROVE  /\ DOMAIN ComponentOf(edges) = NodesOf(edges)
         /\ \A x, y \in NodesOf(edges) :
              ComponentOf(edges)[x] = ComponentOf(edges)[y] <=> ~Apart(x, y, NextOf(edges))
<1> DEFINE next == NextOf(edges)
           n == TarjanSteps(NodesOf(edges))
           g == CHOOSE t : Proceeds(t, n, next)
<1>1. DOMAIN next = NodesOf(edges)
  BY DEF NextOf
<1>2. Graph(next)
  <2>1. \A x \in edges : x.to \in NodesOf(edges)
    BY DEF NodesOf
  <2>2. next \in [NodesOf(edges) -> SUBSET NodesOf(edges)]
    BY <2>1 DEF NextOf
  <2> QED BY <1>1, <2>2 DEF Graph
<1>3. n \in Nat
  <2>1. Entered(Blank) \subseteq DOMAIN next
    BY BlankMidway DEF Midway, TarjanShape
  <2> QED BY <1>1, <1>2, <2>1, WorkBounded
<1>4. ComponentOf(edges) = g[n].of
  BY Zenon DEF ComponentOf, Proceeds, Blank, NextOf
<1> HIDE DEF next, n
<1>5. Proceeds(g, n, next)
  BY <1>3, ProceedsExist
<1> HIDE DEF g
<1>6. n = TarjanSteps(DOMAIN next)
  BY <1>1 DEF n
<1>7. /\ DOMAIN g[n].of = DOMAIN next
      /\ \A x, y \in DOMAIN next : g[n].of[x] = g[n].of[y] <=> ~Apart(x, y, next)
  BY <1>2, <1>5, <1>6, AllPlaced
<1> QED BY <1>1, <1>4, <1>7 DEF next

(* Tarjan's algorithm finds the edges that lie on a cycle, all of them and  *)
(* no others (static-check.ts), whatever the graph and in whatever order it *)
(* takes the nodes and their neighbours.                                   *)
THEOREM CyclesFound ==
  ASSUME NEW edges, IsFiniteSet(NodesOf(edges))
  PROVE  OnCycle(edges) = Cyclic(edges)
<1> DEFINE next == NextOf(edges)
           of == ComponentOf(edges)
<1>1. DOMAIN next = NodesOf(edges)
  BY DEF NextOf
<1>2. ASSUME NEW ns \in SUBSET NodesOf(edges)
      PROVE  Sealed(ns, next) <=> SealedBy(ns, edges)
  <2>1. \A n \in ns : next[n] = {x.to : x \in {y \in edges : y.from = n}}
    BY DEF NextOf
  <2> HIDE DEF next
  <2> QED BY <1>1, <2>1 DEF Sealed, SealedBy
<1>3. /\ DOMAIN of = NodesOf(edges)
      /\ \A a, b \in NodesOf(edges) : of[a] = of[b] <=> ~Apart(a, b, next)
  BY ComponentsFound
<1> HIDE DEF next, of
<1>4. ASSUME NEW x \in edges
      PROVE  x \in OnCycle(edges) <=> x \in Cyclic(edges)
  <2> DEFINE a == x.from
             b == x.to
  <2>1. a \in NodesOf(edges) /\ b \in NodesOf(edges)
    BY DEF NodesOf
  <2>2. x \in OnCycle(edges) <=> of[a] = of[b]
    <3>1. x \in OnCycle(edges) <=> /\ of[a] = of[b]
                                   /\ a = b \/ \E n \in DOMAIN of \ {a} : of[n] = of[a]
      BY DEF OnCycle, of
    <3>2. of[a] = of[b] /\ a # b => b \in DOMAIN of \ {a} /\ of[b] = of[a]
      BY <1>3, <2>1
    <3> QED BY <3>1, <3>2
  <2>3. x \in Cyclic(edges) <=>
          \A ns \in SUBSET NodesOf(edges) : b \in ns /\ SealedBy(ns, edges) => a \in ns
    BY <2>1 DEF Cyclic, Reaches
  <2>4. \A ns \in SUBSET NodesOf(edges) : SealedBy(ns, edges) /\ a \in ns => b \in ns
    BY DEF SealedBy
  <2>5. ~Apart(a, b, next) <=>
          \A ns \in SUBSET NodesOf(edges) : SealedBy(ns, edges) => (a \in ns <=> b \in ns)
    BY <1>1, <1>2 DEF Apart
  <2> HIDE DEF a, b
  <2>6. x \in Cyclic(edges) <=> ~Apart(a, b, next)
    BY <2>3, <2>4, <2>5
  <2> QED BY <1>3, <2>1, <2>2, <2>6
<1>5. OnCycle(edges) \subseteq edges /\ Cyclic(edges) \subseteq edges
  BY DEF OnCycle, Cyclic
<1> QED BY <1>4, <1>5

-----------------------------------------------------------------------------
(* The Subscriptions an author makes.                                       *)
Sub == [source : Peer \cup Cluster \cup {Nobody}, target : Peer \cup {Nobody},
        gate : {"none", "auto", "master", "human"}, cap : Nat, activates : BOOLEAN, active : BOOLEAN]
Subscribed ==
  subs \in [Edge -> Sub] /\ \A e \in Edge : subs[e].active => subs[e].target \in born

GraphTyped ==
  /\ born \subseteq Peer /\ rank \in [Peer -> {"worker", "master"}]
  /\ home \in [Peer -> Cluster \cup {Nobody}]
  /\ DOMAIN clusters \subseteq Cluster /\ DOMAIN scopes \subseteq DOMAIN clusters
  /\ clusters \in [DOMAIN clusters -> [in : SUBSET born, master : born \cup {Nobody}]]
  /\ scopes \in [DOMAIN scopes -> [in : SUBSET Peer, master : Peer \cup {Nobody}]]
  /\ \A s \in Peer : home[s] # Nobody => home[s] \in DOMAIN clusters
  /\ drift \subseteq Cluster /\ usurped \subseteq Cluster

(* The parts of HomesAgree, of what a step leaves: cs the clusters, rs the  *)
(* roles, hs what is shown.                                                *)
OneCluster(cs) ==
  \A c, d \in DOMAIN cs :
    c # d => /\ cs[c].in \cap cs[d].in = {}
             /\ cs[c].master = cs[d].master => cs[c].master = Nobody
MembersAtHome(cs, rs, hs) == \A c \in DOMAIN cs : \A s \in cs[c].in : rs[s] = "worker" /\ hs[s] = c
MastersAtHome(cs, rs, hs) ==
  \A c \in DOMAIN cs : cs[c].master # Nobody => rs[cs[c].master] = "master" /\ hs[cs[c].master] = c
WorkersInside(cs, rs, hs) ==
  \A s \in Peer : rs[s] = "worker" /\ hs[s] # Nobody => hs[s] \in DOMAIN cs /\ s \in cs[hs[s]].in
AtHome(cs, rs, hs) ==
  /\ OneCluster(cs) /\ MembersAtHome(cs, rs, hs) /\ MastersAtHome(cs, rs, hs) /\ WorkersInside(cs, rs, hs)

(* The fold has the Master of a cluster that lost none, the members of one   *)
(* that does not drift: each by itself, as a Master assigned later mends    *)
(* the one and not the other.                                              *)
MasterOf(ss, c) == IF c \in DOMAIN ss THEN ss[c].master ELSE Nobody
InsideOf(ss, c) == IF c \in DOMAIN ss THEN ss[c].in ELSE {}
Folded ==
  \A c \in DOMAIN clusters :
    /\ c \notin usurped => MasterOf(scopes, c) = clusters[c].master
    /\ c \notin drift => InsideOf(scopes, c) = clusters[c].in

GraphInv == GraphTyped /\ Subscribed /\ CyclesCapped /\ AtHome(clusters, rank, home) /\ Folded

-----------------------------------------------------------------------------
(* Cycles.                                                                 *)

(* The edges of a subscription, if it is active and activates.             *)
Joins(x, e, s) ==
  /\ s.active /\ s.activates
  /\ \E n \in Peer \cap SourcesOf(s) : x = [of |-> e, from |-> n, to |-> s.target]
LEMMA EdgeIs ==
  ASSUME NEW ss, NEW x
  PROVE  /\ x \in intentEdges(ss) <=> \E e \in Edge : Joins(x, e, ss[e])
         /\ x \in intentEdges(ss) =>
              x.of \in Edge /\ x.from \in Peer /\ x.to = ss[x.of].target /\ ss[x.of].active
<1>1. x \in intentEdges(ss) <=> \E e \in Edge : Joins(x, e, ss[e])
  BY DEF intentEdges, Joins
<1>2. ASSUME x \in intentEdges(ss)
      PROVE  x.of \in Edge /\ x.from \in Peer /\ x.to = ss[x.of].target /\ ss[x.of].active
  <2>1. PICK e \in Edge : Joins(x, e, ss[e])
    BY <1>1, <1>2
  <2>2. PICK n \in Peer : x = [of |-> e, from |-> n, to |-> ss[e].target]
    BY <2>1 DEF Joins
  <2>3. x.of = e /\ x.from = n /\ x.to = ss[e].target
    BY <2>2
  <2> QED BY <2>1, <2>3 DEF Joins
<1> QED BY <1>1, <1>2

LEMMA EdgesFinite ==
  ASSUME IntentAssumption, NEW ss, \A e \in Edge : ss[e].active => ss[e].target \in Peer
  PROVE  IsFiniteSet(NodesOf(intentEdges(ss)))
<1>1. NodesOf(intentEdges(ss)) \subseteq Peer
  BY EdgeIs DEF NodesOf
<1> QED BY <1>1, FS_Subset DEF IntentAssumption

(* Without an edge there are no more cycles.                               *)
LEMMA CyclicMonotone ==
  ASSUME NEW fewer, NEW edges, fewer \subseteq edges
  PROVE  Cyclic(fewer) \subseteq Cyclic(edges)
<1> SUFFICES ASSUME NEW x \in Cyclic(fewer) PROVE x \in Cyclic(edges)
  OBVIOUS
<1>1. /\ x \in fewer /\ x \in edges
      /\ \A ns \in SUBSET NodesOf(fewer) : {x.to} \subseteq ns /\ SealedBy(ns, fewer) => x.from \in ns
  BY DEF Cyclic, Reaches
<1>2. ASSUME NEW ns \in SUBSET NodesOf(edges), {x.to} \subseteq ns, SealedBy(ns, edges)
      PROVE  x.from \in ns
  <2> DEFINE ms == ns \cap NodesOf(fewer)
  <2>1. \A y \in fewer : y.from \in NodesOf(fewer) /\ y.to \in NodesOf(fewer)
    BY DEF NodesOf
  <2>2. {x.to} \subseteq ms /\ SealedBy(ms, fewer)
    BY <1>1, <1>2, <2>1 DEF SealedBy
  <2> QED BY <1>1, <2>2
<1>3. x.from \in NodesOf(edges)
  BY <1>1 DEF NodesOf
<1> QED BY <1>1, <1>2, <1>3 DEF Cyclic, Reaches

(* What is asked for, and what is written once the static check has run.    *)
Asks(e, giver, target, wish) ==
  [subs EXCEPT ![e] = [source |-> giver, target |-> target, gate |-> wish.gate,
                       cap |-> wish.cap, activates |-> wish.activates, active |-> TRUE]]
Alike(ss, tt) ==
  \A e \in Edge : /\ ss[e].source = tt[e].source /\ ss[e].target = tt[e].target
                  /\ ss[e].activates = tt[e].activates /\ ss[e].active = tt[e].active
LEMMA SameEdges ==
  ASSUME NEW ss, NEW tt, Alike(ss, tt)
  PROVE  intentEdges(ss) = intentEdges(tt)
<1>1. ASSUME NEW e \in Edge, NEW x PROVE Joins(x, e, ss[e]) <=> Joins(x, e, tt[e])
  BY DEF Alike, Joins, SourcesOf
<1>2. \A x : x \in intentEdges(ss) <=> x \in intentEdges(tt)
  BY <1>1, EdgeIs
<1> QED BY <1>2

LEMMA AskedTyped ==
  ASSUME IntentAssumption, GraphTyped, Subscribed,
         NEW e \in Edge, NEW giver \in born \cup DOMAIN clusters, NEW target \in born, NEW wish \in Wish
  PROVE  /\ Asks(e, giver, target, wish) \in [Edge -> Sub]
         /\ \A x \in Edge : Asks(e, giver, target, wish)[x].active => Asks(e, giver, target, wish)[x].target \in born
<1> DEFINE r == [source |-> giver, target |-> target, gate |-> wish.gate,
                 cap |-> wish.cap, activates |-> wish.activates, active |-> TRUE]
<1>1. /\ wish.gate \in {"none", "auto", "master", "human"} /\ wish.cap \in Nat /\ wish.activates \in BOOLEAN
  BY DEF IntentAssumption
<1>2. giver \in Peer \cup Cluster /\ target \in Peer
  BY DEF GraphTyped
<1>3. r \in Sub /\ r.target = target
  BY <1>1, <1>2 DEF Sub
<1> HIDE DEF r
<1>4. Asks(e, giver, target, wish) = [subs EXCEPT ![e] = r]
  BY DEF Asks, r
<1> QED BY <1>3, <1>4 DEF Subscribed

LEMMA AuthorKeeps ==
  ASSUME IntentAssumption, GraphTyped, Subscribed,
         NEW e \in Edge, NEW giver, NEW target, NEW wish \in Wish,
         cmdAuthorSubscription(e, giver, target, wish)
  PROVE  Subscribed' /\ CyclesCapped'
<1> DEFINE asked == Asks(e, giver, target, wish)
           cyclic == cyclicIds(asked)
           gate == IF wish.gate # "none" THEN wish.gate ELSE IF e \in cyclic THEN "master" ELSE "auto"
           guarded == [x \in Edge |->
                         IF x \in cyclic /\ asked[x].cap = 0
                         THEN [asked[x] EXCEPT !.cap = defaultCycleMaxFirings] ELSE asked[x]]
<1>1. /\ target \in born /\ giver \in born \cup DOMAIN clusters
      /\ subs' = [guarded EXCEPT ![e].gate = gate]
      /\ UNCHANGED <<born, clusters>>
  BY DEF cmdAuthorSubscription, Asks
<1>2. asked \in [Edge -> Sub] /\ \A x \in Edge : asked[x].active => asked[x].target \in born
  BY <1>1, AskedTyped
<1>3. gate \in {"none", "auto", "master", "human"}
  BY DEF IntentAssumption
<1> HIDE DEF asked, gate, cyclic
<1>4. ASSUME NEW r \in Sub
      PROVE  LET u == [r EXCEPT !.gate = gate]
                 v == [r EXCEPT !.cap = defaultCycleMaxFirings]
             IN  /\ u \in Sub /\ u.source = r.source /\ u.target = r.target
                 /\ u.activates = r.activates /\ u.active = r.active /\ u.cap = r.cap
                 /\ v \in Sub /\ v.source = r.source /\ v.target = r.target
                 /\ v.activates = r.activates /\ v.active = r.active /\ v.cap = defaultCycleMaxFirings
  BY <1>3 DEF Sub, defaultCycleMaxFirings
<1>5. guarded \in [Edge -> Sub] /\ Alike(guarded, asked) /\ \A x \in cyclic \cap Edge : guarded[x].cap # 0
  <2>1. ASSUME NEW x \in Edge
        PROVE  /\ guarded[x] \in Sub /\ guarded[x].source = asked[x].source /\ guarded[x].target = asked[x].target
               /\ guarded[x].activates = asked[x].activates /\ guarded[x].active = asked[x].active
               /\ x \in cyclic => guarded[x].cap # 0
    <3>1. asked[x] \in Sub
      BY <1>2
    <3>2. CASE x \in cyclic /\ asked[x].cap = 0
      <4> DEFINE v == [asked[x] EXCEPT !.cap = defaultCycleMaxFirings]
      <4>1. guarded[x] = v
        BY <3>2
      <4>2. /\ v \in Sub /\ v.source = asked[x].source /\ v.target = asked[x].target
            /\ v.activates = asked[x].activates /\ v.active = asked[x].active /\ v.cap = 6
        BY <1>4, <3>1 DEF defaultCycleMaxFirings
      <4> HIDE DEF v, guarded
      <4> QED BY <4>1, <4>2
    <3>3. CASE ~(x \in cyclic /\ asked[x].cap = 0)
      BY <3>1, <3>3
    <3> QED BY <3>2, <3>3
  <2>2. guarded \in [Edge -> Sub]
    BY <2>1
  <2> HIDE DEF guarded
  <2> QED BY <2>1, <2>2 DEF Alike
<1> HIDE DEF guarded
<1>6. subs' \in [Edge -> Sub] /\ Alike(subs', guarded) /\ \A x \in Edge : subs'[x].cap = guarded[x].cap
  <2>1. ASSUME NEW x \in Edge
        PROVE  /\ subs'[x] \in Sub /\ subs'[x].source = guarded[x].source /\ subs'[x].target = guarded[x].target
               /\ subs'[x].activates = guarded[x].activates /\ subs'[x].active = guarded[x].active
               /\ subs'[x].cap = guarded[x].cap
    <3>1. guarded[x] \in Sub
      BY <1>5
    <3>2. CASE x = e
      <4>1. subs'[x] = [guarded[x] EXCEPT !.gate = gate]
        BY <1>1, <1>5, <3>2
      <4> QED BY <1>3, <1>4, <3>1, <4>1
    <3>3. CASE x # e
      <4>1. subs'[x] = guarded[x]
        BY <1>1, <1>5, <3>3
      <4> QED BY <3>1, <4>1
    <3> QED BY <3>2, <3>3
  <2>2. subs' = [x \in Edge |-> subs'[x]]
    BY <1>1, <1>5
  <2>3. subs' \in [Edge -> Sub]
    BY <2>1, <2>2
  <2> QED BY <2>1, <2>3 DEF Alike
<1>7. Subscribed'
  BY <1>1, <1>2, <1>5, <1>6 DEF Subscribed, Alike
<1>8. CyclesCapped'
  <2>1. Alike(subs', asked)
    BY <1>5, <1>6 DEF Alike
  <2>2. intentEdges(subs') = intentEdges(asked)
    BY <2>1, SameEdges
  <2>3. intentEdges(subs)' = intentEdges(subs')
    BY <1>1 DEF intentEdges, SourcesOf, MembersOf
  <2>4. ASSUME NEW x \in Cyclic(intentEdges(asked)) PROVE subs'[x.of].cap # 0
    <3>0. \A y \in Edge : asked[y].active => asked[y].target \in Peer
      BY <1>2 DEF GraphTyped
    <3>1. x \in OnCycle(intentEdges(asked))
      BY <2>4, <3>0, EdgesFinite, CyclesFound
    <3>2. x.of \in Edge
      BY <2>4, EdgeIs DEF Cyclic
    <3>3. x.of \in cyclic
      BY <3>1 DEF cyclicIds, cyclic
    <3> QED BY <1>5, <1>6, <3>2, <3>3
  <2> QED BY <2>2, <2>3, <2>4 DEF CyclesCapped, Cyclic, Reaches, NodesOf, SealedBy
<1> QED BY <1>7, <1>8

LEMMA StopKeeps ==
  ASSUME IntentAssumption, GraphTyped, Subscribed, CyclesCapped,
         NEW e \in Edge, cmdStopSubscription(e)
  PROVE  Subscribed' /\ CyclesCapped'
<1>1. subs' = [subs EXCEPT ![e].active = FALSE] /\ UNCHANGED <<born, clusters, regrouped>>
  BY DEF cmdStopSubscription
<1>2. \A r \in Sub : /\ [r EXCEPT !.active = FALSE] \in Sub /\ [r EXCEPT !.active = FALSE].active = FALSE
                     /\ [r EXCEPT !.active = FALSE].cap = r.cap
  BY DEF Sub
<1>3. ASSUME NEW x \in Edge
      PROVE  subs'[x] \in Sub /\ subs'[x].cap = subs[x].cap /\ (subs'[x].active => subs'[x] = subs[x])
  <2>1. subs[x] \in Sub
    BY DEF Subscribed
  <2>2. CASE x = e
    <3>1. subs'[x] = [subs[x] EXCEPT !.active = FALSE]
      BY <1>1, <2>2 DEF Subscribed
    <3> QED BY <1>2, <2>1, <3>1
  <2>3. CASE x # e
    <3>1. subs'[x] = subs[x]
      BY <1>1, <2>3 DEF Subscribed
    <3> QED BY <2>1, <3>1
  <2> QED BY <2>2, <2>3
<1>4. subs' \in [Edge -> Sub]
  <2>1. subs' = [x \in Edge |-> subs'[x]]
    BY <1>1 DEF Subscribed
  <2> QED BY <1>3, <2>1
<1>5. Subscribed'
  BY <1>1, <1>3, <1>4 DEF Subscribed
<1>6. CyclesCapped'
  <2>1. intentEdges(subs)' = intentEdges(subs')
    BY <1>1 DEF intentEdges, SourcesOf, MembersOf
  <2>2. intentEdges(subs') \subseteq intentEdges(subs)
    <3> SUFFICES ASSUME NEW x \in intentEdges(subs') PROVE x \in intentEdges(subs)
      OBVIOUS
    <3>1. PICK y \in Edge : Joins(x, y, subs'[y])
      BY EdgeIs
    <3>2. subs'[y] = subs[y]
      BY <1>3, <3>1 DEF Joins
    <3> QED BY <3>1, <3>2, EdgeIs
  <2>3. Cyclic(intentEdges(subs')) \subseteq Cyclic(intentEdges(subs))
    BY <2>2, CyclicMonotone
  <2>4. \A x \in Cyclic(intentEdges(subs)) : x.of \in Edge
    BY EdgeIs DEF Cyclic
  <2>5. ~regrouped => \A x \in Cyclic(intentEdges(subs')) : subs'[x.of].cap # 0
    BY <1>3, <2>3, <2>4 DEF CyclesCapped
  <2>6. ASSUME \A x \in Cyclic(intentEdges(subs')) : subs'[x.of].cap # 0 PROVE CyclesCapped'
    BY <2>1, <2>6 DEF CyclesCapped, Cyclic, Reaches, NodesOf, SealedBy
  <2>7. regrouped' => CyclesCapped'
    BY DEF CyclesCapped
  <2> QED BY <1>1, <2>5, <2>6, <2>7
<1> QED BY <1>5, <1>6

-----------------------------------------------------------------------------
(* Clusters.                                                               *)

(* What a command that leaves the subscriptions alone keeps of them.       *)
LEMMA SubsLeft ==
  ASSUME Subscribed, subs' = subs, born \subseteq born'
  PROVE  Subscribed'
BY DEF Subscribed

LEMMA EnsuredIs ==
  ASSUME IntentAssumption, GraphTyped, AtHome(clusters, rank, home), Folded, NEW c \in Cluster
  PROVE  /\ DOMAIN Ensured(c) = DOMAIN clusters \cup {c}
         /\ Ensured(c) \in [DOMAIN clusters \cup {c} -> [in : SUBSET born, master : born \cup {Nobody}]]
         /\ \A d \in DOMAIN clusters : Ensured(c)[d] = clusters[d]
         /\ c \notin DOMAIN clusters => Ensured(c)[c].in = {} /\ Ensured(c)[c].master = Nobody
         /\ OneCluster(Ensured(c)) /\ MembersAtHome(Ensured(c), rank, home)
         /\ MastersAtHome(Ensured(c), rank, home) /\ WorkersInside(Ensured(c), rank, home)
         /\ \A d \in DOMAIN Ensured(c) :
              /\ d \notin usurped => MasterOf(scopes, d) = Ensured(c)[d].master
              /\ d \notin drift => InsideOf(scopes, d) = Ensured(c)[d].in
<1> DEFINE cs == Ensured(c)
           none == [in |-> {}, master |-> Nobody]
<1>1. CASE c \in DOMAIN clusters
  <2>1. cs = clusters /\ DOMAIN clusters = DOMAIN clusters \cup {c}
    BY <1>1 DEF Ensured
  <2> HIDE DEF cs
  <2>2. /\ cs \in [DOMAIN clusters \cup {c} -> [in : SUBSET born, master : born \cup {Nobody}]]
        /\ OneCluster(cs) /\ MembersAtHome(cs, rank, home)
        /\ MastersAtHome(cs, rank, home) /\ WorkersInside(cs, rank, home)
    BY <2>1 DEF GraphTyped, AtHome
  <2>3. \A d \in DOMAIN cs :
          /\ d \notin usurped => MasterOf(scopes, d) = cs[d].master
          /\ d \notin drift => InsideOf(scopes, d) = cs[d].in
    BY <2>1 DEF Folded
  <2> QED BY <1>1, <2>1, <2>2, <2>3 DEF cs
<1>2. CASE c \notin DOMAIN clusters
  <2>1. /\ DOMAIN cs = DOMAIN clusters \cup {c} /\ cs[c] = none
        /\ \A d \in DOMAIN clusters : cs[d] = clusters[d]
        /\ cs = [d \in DOMAIN clusters \cup {c} |-> cs[d]]
    BY <1>2 DEF Ensured, Adding
  <2>2. none \in [in : SUBSET born, master : born \cup {Nobody}] /\ none.in = {} /\ none.master = Nobody
    OBVIOUS
  <2> HIDE DEF cs, none
  <2>3. cs \in [DOMAIN clusters \cup {c} -> [in : SUBSET born, master : born \cup {Nobody}]]
    BY <2>1, <2>2 DEF GraphTyped
  <2>4. cs[c].in = {} /\ cs[c].master = Nobody
    BY <2>1, <2>2
  <2>5. OneCluster(cs)
    BY <2>1, <2>4 DEF AtHome, OneCluster
  <2>6. MembersAtHome(cs, rank, home) /\ MastersAtHome(cs, rank, home)
    BY <2>1, <2>4 DEF AtHome, MembersAtHome, MastersAtHome
  <2>7. WorkersInside(cs, rank, home)
    BY <2>1 DEF AtHome, WorkersInside
  <2>8. MasterOf(scopes, c) = Nobody /\ InsideOf(scopes, c) = {}
    BY <1>2 DEF GraphTyped, MasterOf, InsideOf
  <2>9. \A d \in DOMAIN cs :
          /\ d \notin usurped => MasterOf(scopes, d) = cs[d].master
          /\ d \notin drift => InsideOf(scopes, d) = cs[d].in
    BY <2>1, <2>4, <2>8 DEF Folded
  <2> QED BY <2>1, <2>3, <2>4, <2>5, <2>6, <2>7, <2>9 DEF cs
<1> QED BY <1>1, <1>2

(* What the log says of one more scope.                                    *)
LEMMA LoggedIs ==
  ASSUME GraphTyped, NEW c, NEW r \in [in : SUBSET Peer, master : Peer \cup {Nobody}]
  PROVE  /\ DOMAIN Logged(c, r) = DOMAIN scopes \cup {c}
         /\ Logged(c, r) \in [DOMAIN scopes \cup {c} -> [in : SUBSET Peer, master : Peer \cup {Nobody}]]
         /\ MasterOf(Logged(c, r), c) = r.master /\ InsideOf(Logged(c, r), c) = r.in
<1> DEFINE ss == Logged(c, r)
<1>1. /\ DOMAIN ss = DOMAIN scopes \cup {c} /\ ss[c] = r
      /\ \A d \in DOMAIN scopes : d # c => ss[d] = scopes[d]
      /\ ss = [d \in DOMAIN scopes \cup {c} |-> ss[d]]
  BY DEF Logged, Adding
<1> HIDE DEF ss
<1>2. ss \in [DOMAIN scopes \cup {c} -> [in : SUBSET Peer, master : Peer \cup {Nobody}]]
  BY <1>1 DEF GraphTyped
<1>3. MasterOf(ss, c) = r.master /\ InsideOf(ss, c) = r.in
  BY <1>1 DEF MasterOf, InsideOf
<1> QED BY <1>1, <1>2, <1>3 DEF ss

LEMMA LoggedElse ==
  ASSUME NEW c, NEW r, NEW d, d # c
  PROVE  MasterOf(Logged(c, r), d) = MasterOf(scopes, d) /\ InsideOf(Logged(c, r), d) = InsideOf(scopes, d)
<1>1. DOMAIN Logged(c, r) = DOMAIN scopes \cup {c} /\ (d \in DOMAIN scopes => Logged(c, r)[d] = scopes[d])
  BY DEF Logged, Adding
<1> QED BY <1>1 DEF MasterOf, InsideOf

(* A cluster drawn: its new members leave the others.                      *)
LEMMA UpsertKeeps ==
  ASSUME IntentAssumption, GraphInv, NEW c \in Cluster, NEW asked \in SUBSET Peer, cmdUpsertCluster(c, asked)
  PROVE  GraphTyped' /\ Subscribed' /\ CyclesCapped' /\ AtHome(clusters', rank', home') /\ Folded'
<1> DEFINE who == {s \in asked \cap born : rank[s] # "master"}
           cs == Ensured(c)
           up == [cs EXCEPT ![c].in = who]
           r == ScopeUpserted(c, who)
<1>1. /\ clusters' = LeavingOthers(up, c, who)
      /\ home' = [s \in Peer |-> IF s \in who \/ s = cs[c].master THEN c
                                 ELSE IF home[s] = c THEN Nobody ELSE home[s]]
      /\ scopes' = Logged(c, r)
      /\ drift' = (drift \ {c}) \cup Strays(c, who) \cup Mistaken(c, who)
      /\ regrouped' = TRUE /\ UNCHANGED <<born, rank, subs, usurped>>
  BY DEF cmdUpsertCluster
<1>2. GraphTyped /\ Subscribed /\ AtHome(clusters, rank, home) /\ Folded
  BY DEF GraphInv
<1>3. who \subseteq born /\ \A s \in who : rank[s] = "worker"
  BY <1>2 DEF GraphTyped
<1> HIDE DEF who, cs
<1>4. /\ DOMAIN cs = DOMAIN clusters \cup {c}
      /\ cs \in [DOMAIN clusters \cup {c} -> [in : SUBSET born, master : born \cup {Nobody}]]
      /\ \A d \in DOMAIN clusters : cs[d] = clusters[d]
      /\ OneCluster(cs) /\ MembersAtHome(cs, rank, home)
      /\ MastersAtHome(cs, rank, home) /\ WorkersInside(cs, rank, home)
      /\ \A d \in DOMAIN cs :
           /\ d \notin usurped => MasterOf(scopes, d) = cs[d].master
           /\ d \notin drift => InsideOf(scopes, d) = cs[d].in
      /\ c \notin DOMAIN clusters => cs[c].in = {}
  BY <1>2, EnsuredIs DEF cs
<1>5. \A x \in [in : SUBSET born, master : born \cup {Nobody}] : \A w \in SUBSET born :
        /\ [x EXCEPT !.in = w].in = w /\ [x EXCEPT !.in = w].master = x.master
        /\ [x EXCEPT !.in = w] \in [in : SUBSET born, master : born \cup {Nobody}]
        /\ [x EXCEPT !.in = @ \ w].in = x.in \ w /\ [x EXCEPT !.in = @ \ w].master = x.master
        /\ [x EXCEPT !.in = @ \ w] \in [in : SUBSET born, master : born \cup {Nobody}]
  OBVIOUS
<1>6. /\ DOMAIN clusters' = DOMAIN cs
      /\ clusters' \in [DOMAIN cs -> [in : SUBSET born, master : born \cup {Nobody}]]
      /\ clusters'[c].in = who /\ clusters'[c].master = cs[c].master
      /\ \A d \in DOMAIN cs : d # c => clusters'[d].in = cs[d].in \ who /\ clusters'[d].master = cs[d].master
  <2>1. /\ DOMAIN up = DOMAIN cs /\ up[c] = [cs[c] EXCEPT !.in = who]
        /\ \A d \in DOMAIN cs : d # c => up[d] = cs[d]
    BY <1>4
  <2> HIDE DEF up
  <2>2. /\ DOMAIN clusters' = DOMAIN cs /\ clusters'[c] = up[c]
        /\ \A d \in DOMAIN cs : d # c => clusters'[d] = [cs[d] EXCEPT !.in = @ \ who]
        /\ clusters' = [d \in DOMAIN cs |-> clusters'[d]]
    BY <1>1, <1>4, <2>1 DEF LeavingOthers
  <2>3. /\ clusters'[c].in = who /\ clusters'[c].master = cs[c].master
        /\ clusters'[c] \in [in : SUBSET born, master : born \cup {Nobody}]
    BY <1>3, <1>4, <1>5, <2>1, <2>2
  <2>4. ASSUME NEW d \in DOMAIN cs, d # c
        PROVE  /\ clusters'[d].in = cs[d].in \ who /\ clusters'[d].master = cs[d].master
               /\ clusters'[d] \in [in : SUBSET born, master : born \cup {Nobody}]
    <3>1. cs[d] \in [in : SUBSET born, master : born \cup {Nobody}] /\ who \in SUBSET born
      BY <1>3, <1>4
    <3>2. clusters'[d] = [cs[d] EXCEPT !.in = @ \ who]
      BY <2>2, <2>4
    <3> QED BY <1>5, <3>1, <3>2
  <2> QED BY <2>2, <2>3, <2>4
<1>7. /\ r.in = who \ {MasterOf(scopes, c)} /\ r.master = MasterOf(scopes, c)
      /\ r \in [in : SUBSET Peer, master : Peer \cup {Nobody}]
  <2>1. MasterOf(scopes, c) \in Peer \cup {Nobody} /\ who \subseteq Peer
    BY <1>2, <1>3 DEF GraphTyped, MasterOf
  <2>2. r = [in |-> who \ {MasterOf(scopes, c)}, master |-> MasterOf(scopes, c)]
    BY DEF ScopeUpserted, MasterOf
  <2> QED BY <2>1, <2>2
<1> HIDE DEF r
<1>8. /\ DOMAIN scopes' = DOMAIN scopes \cup {c}
      /\ scopes' \in [DOMAIN scopes' -> [in : SUBSET Peer, master : Peer \cup {Nobody}]]
      /\ MasterOf(scopes', c) = r.master /\ InsideOf(scopes', c) = r.in
      /\ \A d : d # c => MasterOf(scopes', d) = MasterOf(scopes, d) /\ InsideOf(scopes', d) = InsideOf(scopes, d)
  <2>1. LET ss == Logged(c, r)
        IN  /\ DOMAIN ss = DOMAIN scopes \cup {c}
            /\ ss \in [DOMAIN scopes \cup {c} -> [in : SUBSET Peer, master : Peer \cup {Nobody}]]
            /\ MasterOf(ss, c) = r.master /\ InsideOf(ss, c) = r.in
    BY <1>2, <1>7, LoggedIs
  <2>2. scopes' = Logged(c, r)
    BY <1>1
  <2>3. \A d : d # c => MasterOf(scopes', d) = MasterOf(scopes, d) /\ InsideOf(scopes', d) = InsideOf(scopes, d)
    BY <2>2, LoggedElse
  <2> QED BY <2>1, <2>2, <2>3
<1>9. \A s \in Peer :
        /\ s \in who \/ s = cs[c].master => home'[s] = c
        /\ ~(s \in who \/ s = cs[c].master) => home'[s] = IF home[s] = c THEN Nobody ELSE home[s]
  BY <1>1
<1>10. GraphTyped'
  <2>1. home' \in [Peer -> Cluster \cup {Nobody}]
    BY <1>1, <1>2 DEF GraphTyped
  <2>2. \A s \in Peer : home'[s] # Nobody => home'[s] \in DOMAIN clusters'
    BY <1>2, <1>4, <1>6, <1>9 DEF GraphTyped
  <2>3. Strays(c, who) \subseteq Cluster /\ Mistaken(c, who) \subseteq Cluster
    BY <1>2 DEF GraphTyped, Strays, Mistaken
  <2>4. drift' \subseteq Cluster /\ usurped' \subseteq Cluster
    BY <1>1, <1>2, <2>3 DEF GraphTyped
  <2> QED BY <1>1, <1>2, <1>4, <1>6, <1>8, <2>1, <2>2, <2>4 DEF GraphTyped
<1>11. c \in DOMAIN cs /\ Nobody \notin Peer /\ born \subseteq Peer
  BY <1>2, <1>4 DEF IntentAssumption, GraphTyped
<1>12. OneCluster(clusters')
  BY <1>4, <1>6 DEF OneCluster
<1>13. MembersAtHome(clusters', rank', home')
  <2>1. ASSUME NEW d \in DOMAIN cs, NEW s \in clusters'[d].in
        PROVE  rank[s] = "worker" /\ home'[s] = d
    <3>1. s \in Peer
      BY <1>6, <1>11, <2>1
    <3>2. CASE d = c
      BY <1>3, <1>6, <1>9, <2>1, <3>1, <3>2
    <3>3. CASE d # c
      <4>1. s \in cs[d].in /\ s \notin who
        BY <1>6, <2>1, <3>3
      <4>2. rank[s] = "worker" /\ home[s] = d
        BY <1>4, <4>1 DEF MembersAtHome
      <4>3. s # cs[c].master
        BY <1>4, <1>11, <3>1, <4>2 DEF MastersAtHome
      <4> QED BY <1>9, <3>1, <3>3, <4>1, <4>2, <4>3
    <3> QED BY <3>2, <3>3
  <2>2. rank' = rank /\ DOMAIN clusters' = DOMAIN cs
    BY <1>1, <1>6
  <2> QED BY <2>1, <2>2 DEF MembersAtHome
<1>14. MastersAtHome(clusters', rank', home')
  <2>1. ASSUME NEW d \in DOMAIN cs, cs[d].master # Nobody
        PROVE  rank[cs[d].master] = "master" /\ home'[cs[d].master] = d
    <3> DEFINE m == cs[d].master
    <3>1. m \in Peer /\ rank[m] = "master" /\ home[m] = d
      BY <1>4, <1>11, <2>1 DEF MastersAtHome
    <3>2. m \notin who
      BY <1>3, <3>1
    <3>3. d # c => m # cs[c].master
      BY <1>4, <1>11, <2>1 DEF OneCluster
    <3> QED BY <1>9, <3>1, <3>2, <3>3
  <2>2. rank' = rank /\ DOMAIN clusters' = DOMAIN cs /\ \A d \in DOMAIN cs : clusters'[d].master = cs[d].master
    BY <1>1, <1>6
  <2> QED BY <2>1, <2>2 DEF MastersAtHome
<1>15. WorkersInside(clusters', rank', home')
  <2>1. ASSUME NEW s \in Peer, rank[s] = "worker", home'[s] # Nobody
        PROVE  home'[s] \in DOMAIN cs /\ s \in clusters'[home'[s]].in
    <3>1. s # cs[c].master
      BY <1>4, <1>11, <2>1 DEF MastersAtHome
    <3>2. CASE s \in who
      BY <1>6, <1>9, <1>11, <3>2
    <3>3. CASE s \notin who
      <4>1. home'[s] = home[s] /\ home[s] # c /\ home[s] # Nobody
        BY <1>9, <2>1, <3>1, <3>3
      <4>2. home[s] \in DOMAIN cs /\ s \in cs[home[s]].in
        BY <1>4, <2>1, <4>1 DEF WorkersInside
      <4> QED BY <1>6, <3>3, <4>1, <4>2
    <3> QED BY <3>2, <3>3
  <2> QED BY <1>1, <1>6, <2>1 DEF WorkersInside
<1>16. Folded'
  <2>1. ASSUME NEW d \in DOMAIN cs
        PROVE  /\ d \notin usurped => MasterOf(scopes', d) = clusters'[d].master
               /\ d \notin drift' => InsideOf(scopes', d) = clusters'[d].in
    <3>1. d \notin usurped => MasterOf(scopes', d) = clusters'[d].master
      BY <1>4, <1>6, <1>7, <1>8
    <3>2. CASE d = c
      <4>1. c \notin drift' => MasterOf(scopes, c) \notin who
        BY <1>1, <1>3, <1>11 DEF Mistaken, MasterOf
      <4>2. MasterOf(scopes, c) \notin who => who \ {MasterOf(scopes, c)} = who
        OBVIOUS
      <4>3. InsideOf(scopes', c) = who \ {MasterOf(scopes, c)} /\ clusters'[c].in = who
        BY <1>6, <1>7, <1>8
      <4> QED BY <3>1, <3>2, <4>1, <4>2, <4>3
    <3>3. CASE d # c
      <4>1. d \in DOMAIN clusters
        BY <1>4, <3>3
      <4>2. d \notin drift' => d \notin drift /\ clusters[d].in \cap who = {}
        BY <1>1, <3>3, <4>1 DEF Strays
      <4>3. cs[d] = clusters[d]
        BY <1>4, <4>1
      <4>4. d \notin drift' => clusters'[d].in = cs[d].in
        BY <1>6, <3>3, <4>2, <4>3
      <4> QED BY <1>4, <1>8, <3>1, <3>3, <4>2, <4>4
    <3> QED BY <3>2, <3>3
  <2> QED BY <1>1, <1>6, <2>1 DEF Folded, MasterOf, InsideOf
<1>17. Subscribed' /\ CyclesCapped'
  BY <1>1, <1>2, SubsLeft DEF CyclesCapped
<1> QED BY <1>10, <1>12, <1>13, <1>14, <1>15, <1>16, <1>17 DEF AtHome


(* A Master assigned, over the roles rs and the homes hs, which differ from  *)
(* those before for it alone.                                              *)
Reassigned(c, s) ==
  [d \in DOMAIN clusters |->
     [in |-> clusters[d].in \ {s},
      master |-> IF d = c THEN s ELSE IF clusters[d].master = s THEN Nobody ELSE clusters[d].master]]
LedBy(cs, x) == {d \in DOMAIN cs : cs[d].master = x}
Holding(cs, x) == {d \in DOMAIN cs : x \in cs[d].in}
LEMMA AssignKeeps ==
  ASSUME IntentAssumption, GraphInv, NEW c \in DOMAIN clusters, NEW s \in Peer,
         NEW rs \in [Peer -> {"worker", "master"}], NEW hs \in [Peer -> Cluster \cup {Nobody}],
         \A x \in Peer : x # s => rs[x] = rank[x] /\ hs[x] = home[x],
         s \in born', born \subseteq born', born' \subseteq Peer,
         subs' = subs, regrouped' = TRUE, Assigns(c, s, clusters, rs, hs)
  PROVE  GraphTyped' /\ Subscribed' /\ CyclesCapped' /\ AtHome(clusters', rank', home') /\ Folded'
<1> DEFINE stale == ({clusters[c].master} \cup {x \in Peer : hs[x] = c /\ rs[x] = "master"}) \ {s, Nobody}
           some(x) == IF LedBy(clusters', x) # {} THEN LedBy(clusters', x) ELSE Holding(clusters', x)
<1>1. GraphTyped /\ Subscribed /\ AtHome(clusters, rank, home) /\ Folded
  BY DEF GraphInv
<1>2. clusters' = Reassigned(c, s)
  BY DEF Assigns, Reassigned
<1>3. rank' = [x \in Peer |-> IF x = s THEN "master" ELSE IF x \notin stale THEN rs[x]
                              ELSE IF LedBy(clusters', x) # {} THEN "master" ELSE "worker"]
  <2>1. rank' = [x \in Peer |-> IF x = s THEN "master" ELSE IF x \notin stale THEN rs[x]
                                ELSE IF LedBy(Reassigned(c, s), x) # {} THEN "master" ELSE "worker"]
    BY Zenon DEF Assigns, LedBy, Reassigned
  <2> QED BY <1>2, <2>1
<1>4. home' = [x \in Peer |-> IF x = s THEN c ELSE IF x \notin stale THEN hs[x]
                              ELSE IF some(x) = {} THEN Nobody ELSE CHOOSE d \in some(x) : TRUE]
  <2> DEFINE next == Reassigned(c, s)
             few(x) == IF LedBy(next, x) # {} THEN LedBy(next, x) ELSE Holding(next, x)
  <2>1. home' = [x \in Peer |-> IF x = s THEN c ELSE IF x \notin stale THEN hs[x]
                                ELSE IF few(x) = {} THEN Nobody ELSE CHOOSE d \in few(x) : TRUE]
    BY Zenon DEF Assigns, LedBy, Holding, Reassigned
  <2> QED BY <1>2, <2>1
<1>5. /\ clusters[c].master = s => UNCHANGED <<scopes, drift, usurped>>
      /\ clusters[c].master # s =>
           /\ scopes' = Logged(c, RoleAssigned(c, s))
           /\ drift' = drift \cup Strays(c, {s})
           /\ usurped' = (usurped \ {c}) \cup {d \in DOMAIN clusters \ {c} : clusters[d].master = s}
  BY DEF Assigns
<1>6. /\ clusters \in [DOMAIN clusters -> [in : SUBSET born, master : born \cup {Nobody}]]
      /\ c \in Cluster /\ DOMAIN clusters \subseteq Cluster /\ Nobody \notin Peer /\ Nobody \notin Cluster
      /\ born \subseteq Peer
  BY <1>1 DEF GraphTyped, IntentAssumption
<1>7. OneCluster(clusters) /\ MembersAtHome(clusters, rank, home) /\ MastersAtHome(clusters, rank, home)
      /\ WorkersInside(clusters, rank, home)
  BY <1>1 DEF AtHome
<1>8. /\ DOMAIN clusters' = DOMAIN clusters
      /\ \A d \in DOMAIN clusters : clusters'[d].in = clusters[d].in \ {s}
      /\ clusters'[c].master = s
      /\ \A d \in DOMAIN clusters : d # c =>
           clusters'[d].master = IF clusters[d].master = s THEN Nobody ELSE clusters[d].master
  BY <1>2 DEF Reassigned
<1>9. clusters' \in [DOMAIN clusters -> [in : SUBSET born', master : born' \cup {Nobody}]]
  <2>1. \A d \in DOMAIN clusters : clusters[d].in \subseteq born /\ clusters[d].master \in born \cup {Nobody}
    BY <1>6
  <2> QED BY <1>2, <2>1 DEF Reassigned
<1>10. ASSUME NEW x \in Peer
       PROVE  /\ x = s => rank'[x] = "master" /\ home'[x] = c
              /\ x # s /\ x \notin stale => rank'[x] = rank[x] /\ home'[x] = home[x]
              /\ x # s /\ x \in stale =>
                   /\ rank'[x] = IF LedBy(clusters', x) # {} THEN "master" ELSE "worker"
                   /\ some(x) = {} => home'[x] = Nobody
                   /\ some(x) # {} => home'[x] \in some(x)
  <2>1. rank'[x] = IF x = s THEN "master" ELSE IF x \notin stale THEN rs[x]
                   ELSE IF LedBy(clusters', x) # {} THEN "master" ELSE "worker"
    BY <1>3
  <2>2. home'[x] = IF x = s THEN c ELSE IF x \notin stale THEN hs[x]
                   ELSE IF some(x) = {} THEN Nobody ELSE CHOOSE d \in some(x) : TRUE
    BY <1>4
  <2> HIDE DEF stale, some
  <2> QED BY <2>1, <2>2
<1>11. \A x \in Peer : some(x) \subseteq DOMAIN clusters
  BY <1>8 DEF LedBy, Holding
<1>12. \A x \in Peer : x \in stale /\ x # s => rank[x] = "master"
  <2>1. clusters[c].master # Nobody => rank[clusters[c].master] = "master"
    BY <1>7 DEF MastersAtHome
  <2> QED BY <2>1
<1>13. \A x \in Peer : x \in stale /\ x # s => x = clusters[c].master \/ home[x] = c
  OBVIOUS
<1>14. GraphTyped'
  <2>1. rank' \in [Peer -> {"worker", "master"}]
    BY <1>3
  <2>2. \A x \in Peer : home'[x] # Nobody => home'[x] \in DOMAIN clusters
    <3> SUFFICES ASSUME NEW x \in Peer, home'[x] # Nobody PROVE home'[x] \in DOMAIN clusters
      OBVIOUS
    <3>1. home[x] # Nobody => home[x] \in DOMAIN clusters
      BY <1>1 DEF GraphTyped
    <3> HIDE DEF stale, some
    <3> QED BY <1>10, <1>11, <3>1
  <2>3. home' \in [Peer -> Cluster \cup {Nobody}]
    <3>1. \A x \in Peer : home'[x] \in Cluster \cup {Nobody}
      BY <1>6, <2>2
    <3>2. home' = [x \in Peer |-> home'[x]]
      BY <1>4
    <3> QED BY <3>1, <3>2
  <2>4. RoleAssigned(c, s) \in [in : SUBSET Peer, master : Peer \cup {Nobody}]
    BY <1>1 DEF RoleAssigned, GraphTyped
  <2>5. LET ss == Logged(c, RoleAssigned(c, s))
        IN  /\ DOMAIN ss = DOMAIN scopes \cup {c}
            /\ ss \in [DOMAIN scopes \cup {c} -> [in : SUBSET Peer, master : Peer \cup {Nobody}]]
    BY <1>1, <2>4, LoggedIs
  <2>6. DOMAIN scopes' \subseteq DOMAIN clusters /\ scopes' \in [DOMAIN scopes' -> [in : SUBSET Peer, master : Peer \cup {Nobody}]]
    BY <1>1, <1>5, <2>5 DEF GraphTyped
  <2>7. drift' \subseteq Cluster /\ usurped' \subseteq Cluster
    BY <1>1, <1>5 DEF GraphTyped, Strays
  <2> QED BY <1>6, <1>8, <1>9, <2>1, <2>2, <2>3, <2>6, <2>7 DEF GraphTyped
<1> HIDE DEF stale, some
<1>15. OneCluster(clusters')
  <2>1. ASSUME NEW d \in DOMAIN clusters, NEW f \in DOMAIN clusters, d # f
        PROVE  /\ clusters'[d].in \cap clusters'[f].in = {}
               /\ clusters'[d].master = clusters'[f].master => clusters'[d].master = Nobody
    <3>1. /\ clusters[d].in \cap clusters[f].in = {}
          /\ clusters[d].master = clusters[f].master => clusters[d].master = Nobody
      BY <1>7, <2>1 DEF OneCluster
    <3> QED BY <1>6, <1>8, <2>1, <3>1
  <2> QED BY <1>8, <2>1 DEF OneCluster
<1>16. MembersAtHome(clusters', rank', home')
  <2>1. ASSUME NEW d \in DOMAIN clusters, NEW x \in clusters'[d].in
        PROVE  rank'[x] = "worker" /\ home'[x] = d
    <3>1. x \in clusters[d].in /\ x # s /\ x \in Peer
      BY <1>6, <1>8, <2>1
    <3>2. rank[x] = "worker" /\ home[x] = d
      BY <1>7, <3>1 DEF MembersAtHome
    <3> QED BY <1>10, <1>12, <3>1, <3>2
  <2> QED BY <1>8, <2>1 DEF MembersAtHome
<1>17. MastersAtHome(clusters', rank', home')
  <2>1. ASSUME NEW d \in DOMAIN clusters, clusters'[d].master # Nobody
        PROVE  rank'[clusters'[d].master] = "master" /\ home'[clusters'[d].master] = d
    <3>1. CASE d = c
      BY <1>8, <1>10, <3>1
    <3>2. CASE d # c
      <4>1. clusters'[d].master = clusters[d].master /\ clusters[d].master # s /\ clusters[d].master # Nobody
        BY <1>8, <2>1, <3>2
      <4> DEFINE m == clusters[d].master
      <4>2. m \in Peer /\ rank[m] = "master" /\ home[m] = d
        BY <1>6, <1>7, <4>1 DEF MastersAtHome
      <4>3. m # clusters[c].master
        BY <1>7, <3>2, <4>1 DEF OneCluster
      <4>4. m \notin stale
        BY <1>13, <3>2, <4>1, <4>2, <4>3
      <4> QED BY <1>10, <4>1, <4>2, <4>4
    <3> QED BY <3>1, <3>2
  <2> QED BY <1>8, <2>1 DEF MastersAtHome
<1>18. WorkersInside(clusters', rank', home')
  <2>1. ASSUME NEW x \in Peer, rank'[x] = "worker", home'[x] # Nobody
        PROVE  home'[x] \in DOMAIN clusters /\ x \in clusters'[home'[x]].in
    <3>1. x # s
      BY <1>10, <2>1
    <3>2. CASE x \notin stale
      <4>1. home[x] \in DOMAIN clusters /\ x \in clusters[home[x]].in /\ home'[x] = home[x]
        BY <1>7, <1>10, <2>1, <3>1, <3>2 DEF WorkersInside
      <4> QED BY <1>8, <3>1, <4>1
    <3>3. CASE x \in stale
      <4>1. LedBy(clusters', x) = {} /\ home'[x] \in some(x)
        BY <1>10, <2>1, <3>1, <3>3
      <4>2. home'[x] \in Holding(clusters', x)
        BY <4>1 DEF some
      <4> QED BY <1>8, <4>2 DEF Holding
    <3> QED BY <3>2, <3>3
  <2> QED BY <1>8, <2>1 DEF WorkersInside
<1>19. Folded'
  <2>1. CASE clusters[c].master = s
    <3>1. rank[s] = "master"
      BY <1>6, <1>7, <2>1 DEF MastersAtHome
    <3>2. ASSUME NEW d \in DOMAIN clusters
          PROVE  clusters'[d].in = clusters[d].in /\ clusters'[d].master = clusters[d].master
      <4>1. s \notin clusters[d].in
        BY <1>7, <3>1 DEF MembersAtHome
      <4>2. d # c => clusters[d].master # s
        BY <1>6, <1>7, <2>1 DEF OneCluster
      <4>3. clusters[d].in \ {s} = clusters[d].in
        BY <4>1
      <4>4. clusters'[d].master = clusters[d].master
        BY <1>8, <2>1, <4>2
      <4> QED BY <1>8, <4>3, <4>4
    <3>3. scopes' = scopes /\ drift' = drift /\ usurped' = usurped
      BY <1>5, <2>1
    <3> QED BY <1>1, <1>8, <3>2, <3>3 DEF Folded, MasterOf, InsideOf
  <2>2. CASE clusters[c].master # s
    <3> DEFINE r == RoleAssigned(c, s)
    <3>1. r.master = s /\ r.in = InsideOf(scopes, c) \ {s} /\ r \in [in : SUBSET Peer, master : Peer \cup {Nobody}]
      BY <1>1 DEF RoleAssigned, GraphTyped, InsideOf
    <3> HIDE DEF r
    <3>2. /\ MasterOf(Logged(c, r), c) = r.master /\ InsideOf(Logged(c, r), c) = r.in
          /\ \A d : d # c => /\ MasterOf(Logged(c, r), d) = MasterOf(scopes, d)
                             /\ InsideOf(Logged(c, r), d) = InsideOf(scopes, d)
      <4>1. GraphTyped
        BY <1>1
      <4>2. r \in [in : SUBSET Peer, master : Peer \cup {Nobody}]
        BY <3>1
      <4>3. MasterOf(Logged(c, r), c) = r.master /\ InsideOf(Logged(c, r), c) = r.in
        BY <4>1, <4>2, LoggedIs
      <4>4. ASSUME NEW d, d # c
            PROVE  /\ MasterOf(Logged(c, r), d) = MasterOf(scopes, d)
                   /\ InsideOf(Logged(c, r), d) = InsideOf(scopes, d)
        BY <4>4, LoggedElse
      <4> QED BY <4>3, <4>4
    <3>3. scopes' = Logged(c, r)
      BY <1>5, <2>2 DEF r
    <3>4. ASSUME NEW d \in DOMAIN clusters
          PROVE  /\ d \notin usurped' => MasterOf(scopes', d) = clusters'[d].master
                 /\ d \notin drift' => InsideOf(scopes', d) = clusters'[d].in
      <4>1. /\ d \notin usurped => MasterOf(scopes, d) = clusters[d].master
            /\ d \notin drift => InsideOf(scopes, d) = clusters[d].in
        BY <1>1 DEF Folded
      <4>2. CASE d = c
        <5>1. MasterOf(scopes', c) = s /\ InsideOf(scopes', c) = InsideOf(scopes, c) \ {s}
          BY <3>1, <3>2, <3>3
        <5>2. c \notin drift' => c \notin drift
          BY <1>5, <2>2
        <5> QED BY <1>8, <4>1, <4>2, <5>1, <5>2
      <4>3. CASE d # c
        <5>1. MasterOf(scopes', d) = MasterOf(scopes, d) /\ InsideOf(scopes', d) = InsideOf(scopes, d)
          BY <3>2, <3>3, <4>3
        <5>2. d \notin usurped' => d \notin usurped /\ clusters[d].master # s
          BY <1>5, <2>2, <4>3
        <5>3. d \notin drift' => d \notin drift /\ s \notin clusters[d].in
          BY <1>5, <2>2, <4>3 DEF Strays
        <5>4. s \notin clusters[d].in => clusters[d].in \ {s} = clusters[d].in
          OBVIOUS
        <5> QED BY <1>8, <4>1, <4>3, <5>1, <5>2, <5>3, <5>4
      <4> QED BY <4>2, <4>3
    <3> QED BY <1>8, <3>4 DEF Folded, MasterOf, InsideOf
  <2> QED BY <2>1, <2>2
<1>20. Subscribed' /\ CyclesCapped'
  BY <1>1, SubsLeft DEF CyclesCapped
<1> QED BY <1>14, <1>15, <1>16, <1>17, <1>18, <1>19, <1>20 DEF AtHome


(* A session created, in a cluster or in none.                             *)
LEMMA CreateKeeps ==
  ASSUME IntentAssumption, GraphInv, NEW s \in Peer, NEW k \in {"worker", "master"},
         NEW c \in Cluster \cup {Nobody}, cmdCreateSession(s, k, c)
  PROVE  GraphTyped' /\ Subscribed' /\ CyclesCapped' /\ AtHome(clusters', rank', home') /\ Folded'
<1>1. GraphTyped /\ Subscribed /\ CyclesCapped /\ AtHome(clusters, rank, home) /\ Folded
  BY DEF GraphInv
<1>2. /\ s \notin born /\ born' = born \cup {s} /\ rank' = [rank EXCEPT ![s] = k] /\ home' = [home EXCEPT ![s] = c]
      /\ UNCHANGED <<subs, scopes, usurped>>
  BY DEF cmdCreateSession
<1>3. /\ rank' \in [Peer -> {"worker", "master"}] /\ home' \in [Peer -> Cluster \cup {Nobody}]
      /\ rank'[s] = k /\ home'[s] = c
      /\ \A x \in Peer : x # s => rank'[x] = rank[x] /\ home'[x] = home[x]
  BY <1>1, <1>2 DEF GraphTyped
<1>4. Subscribed' /\ born' \subseteq Peer /\ born \subseteq born' /\ s \in born'
  BY <1>1, <1>2, SubsLeft DEF GraphTyped
<1>5. Nobody \notin Peer /\ Nobody \notin Cluster /\ born \subseteq Peer
  BY <1>1 DEF IntentAssumption, GraphTyped
(* What is left to show, of clusters cs that differ in who is in c.         *)
<1> DEFINE Fits(cs) ==
             /\ cs \in [DOMAIN cs -> [in : SUBSET born, master : born \cup {Nobody}]]
             /\ OneCluster(cs) /\ MembersAtHome(cs, rank, home)
             /\ MastersAtHome(cs, rank, home) /\ WorkersInside(cs, rank, home)
           Now(cs) ==
             /\ DOMAIN clusters' = DOMAIN cs
             /\ \A d \in DOMAIN cs :
                  /\ clusters'[d].master = cs[d].master
                  /\ clusters'[d].in = IF d = c /\ k = "worker" THEN cs[d].in \cup {s} ELSE cs[d].in
<1>6. ASSUME NEW cs, Fits(cs), Now(cs), c # Nobody => c \in DOMAIN cs
      PROVE  AtHome(clusters', rank', home')
  <2>1. \A d \in DOMAIN cs : s \notin cs[d].in /\ cs[d].master # s /\ cs[d].in \subseteq Peer /\ cs[d].master \in Peer \cup {Nobody}
    <3>1. \A d \in DOMAIN cs : cs[d].in \subseteq born /\ cs[d].master \in born \cup {Nobody}
      BY <1>6
    <3> QED BY <1>2, <1>5, <3>1
  <2>2. OneCluster(clusters')
    <3>1. ASSUME NEW d \in DOMAIN cs, NEW f \in DOMAIN cs, d # f
          PROVE  /\ clusters'[d].in \cap clusters'[f].in = {}
                 /\ clusters'[d].master = clusters'[f].master => clusters'[d].master = Nobody
      <4>1. /\ cs[d].in \cap cs[f].in = {}
            /\ cs[d].master = cs[f].master => cs[d].master = Nobody
        BY <1>6, <3>1 DEF OneCluster
      <4>2. clusters'[d].master = cs[d].master /\ clusters'[f].master = cs[f].master
        BY <1>6
      <4>3. CASE d = c /\ k = "worker"
        <5>1. clusters'[d].in = cs[d].in \cup {s} /\ clusters'[f].in = cs[f].in /\ s \notin cs[f].in
          BY <1>6, <2>1, <3>1, <4>3
        <5> QED BY <4>1, <4>2, <5>1
      <4>4. CASE f = c /\ k = "worker"
        <5>1. clusters'[f].in = cs[f].in \cup {s} /\ clusters'[d].in = cs[d].in /\ s \notin cs[d].in
          BY <1>6, <2>1, <3>1, <4>4
        <5> QED BY <4>1, <4>2, <5>1
      <4>5. CASE ~((d = c \/ f = c) /\ k = "worker")
        <5>1. clusters'[d].in = cs[d].in /\ clusters'[f].in = cs[f].in
          BY <1>6, <4>5
        <5> QED BY <4>1, <4>2, <5>1
      <4> QED BY <4>3, <4>4, <4>5
    <3> QED BY <1>6, <3>1 DEF OneCluster
  <2>3. MembersAtHome(clusters', rank', home')
    <3>1. ASSUME NEW d \in DOMAIN cs, NEW x \in clusters'[d].in
          PROVE  rank'[x] = "worker" /\ home'[x] = d
      <4>1. CASE x = s
        <5>1. d = c /\ k = "worker"
          BY <1>6, <2>1, <3>1, <4>1
        <5> QED BY <1>3, <4>1, <5>1
      <4>2. CASE x # s
        <5>1. x \in cs[d].in
          BY <1>6, <3>1, <4>2
        <5>2. rank[x] = "worker" /\ home[x] = d /\ x \in Peer
          BY <1>6, <2>1, <5>1 DEF MembersAtHome
        <5> QED BY <1>3, <4>2, <5>2
      <4> QED BY <4>1, <4>2
    <3> QED BY <1>6, <3>1 DEF MembersAtHome
  <2>4. MastersAtHome(clusters', rank', home')
    <3>1. ASSUME NEW d \in DOMAIN cs, cs[d].master # Nobody
          PROVE  rank'[cs[d].master] = "master" /\ home'[cs[d].master] = d
      <4>1. rank[cs[d].master] = "master" /\ home[cs[d].master] = d
        BY <1>6, <3>1 DEF MastersAtHome
      <4> QED BY <1>3, <2>1, <3>1, <4>1
    <3> QED BY <1>6, <3>1 DEF MastersAtHome
  <2>5. WorkersInside(clusters', rank', home')
    <3>1. ASSUME NEW x \in Peer, rank'[x] = "worker", home'[x] # Nobody
          PROVE  home'[x] \in DOMAIN cs /\ x \in clusters'[home'[x]].in
      <4>1. CASE x = s
        BY <1>3, <1>6, <3>1, <4>1
      <4>2. CASE x # s
        <5>1. home[x] \in DOMAIN cs /\ x \in cs[home[x]].in /\ home'[x] = home[x]
          BY <1>3, <1>6, <3>1, <4>2 DEF WorkersInside
        <5> QED BY <1>6, <5>1
      <4> QED BY <4>1, <4>2
    <3> QED BY <1>6, <3>1 DEF WorkersInside
  <2> QED BY <2>2, <2>3, <2>4, <2>5 DEF AtHome
<1>7. CASE c = Nobody
  <2>1. clusters' = clusters /\ drift' = drift /\ regrouped' = regrouped
    BY <1>7 DEF cmdCreateSession
  <2>2. Fits(clusters) /\ Now(clusters)
    BY <1>1, <1>5, <1>7, <2>1 DEF GraphTyped, AtHome
  <2> HIDE DEF Fits, Now
  <2>3. AtHome(clusters', rank', home')
    BY <1>6, <1>7, <2>2
  <2>4. clusters' \in [DOMAIN clusters' -> [in : SUBSET born', master : born' \cup {Nobody}]]
    <3>1. \A d \in DOMAIN clusters : clusters[d] \in [in : SUBSET born, master : born \cup {Nobody}]
      BY <1>1 DEF GraphTyped
    <3>2. \A r \in [in : SUBSET born, master : born \cup {Nobody}] : r \in [in : SUBSET born', master : born' \cup {Nobody}]
      BY <1>4
    <3>3. \A d \in DOMAIN clusters : clusters[d] \in [in : SUBSET born', master : born' \cup {Nobody}]
      BY <3>1, <3>2
    <3>4. clusters = [d \in DOMAIN clusters |-> clusters[d]]
      BY <1>1 DEF GraphTyped
    <3> QED BY <2>1, <3>3, <3>4
  <2>5. \A x \in Peer : home'[x] # Nobody => home'[x] \in DOMAIN clusters'
    BY <1>1, <1>3, <1>7, <2>1 DEF GraphTyped
  <2>6. GraphTyped'
    BY <1>1, <1>2, <1>3, <1>4, <2>1, <2>4, <2>5 DEF GraphTyped
  <2>7. Folded'
    BY <1>1, <1>2, <2>1 DEF Folded, MasterOf, InsideOf
  <2>8. CyclesCapped'
    <3>1. intentEdges(subs)' = intentEdges(subs)
      BY <1>2, <2>1 DEF intentEdges, SourcesOf, MembersOf
    <3>2. ~regrouped => \A x \in Cyclic(intentEdges(subs)) : subs'[x.of].cap # 0
      BY <1>1, <1>2 DEF CyclesCapped
    <3>3. ASSUME \A x \in Cyclic(intentEdges(subs)) : subs'[x.of].cap # 0 PROVE CyclesCapped'
      BY <3>1, <3>3 DEF CyclesCapped, Cyclic, Reaches, NodesOf, SealedBy
    <3>4. regrouped' => CyclesCapped'
      BY DEF CyclesCapped
    <3> QED BY <2>1, <3>2, <3>3, <3>4
  <2> QED BY <1>4, <2>3, <2>6, <2>7, <2>8
<1>8. CASE c \in Cluster
  <2> DEFINE cs == Ensured(c)
             more == [cs EXCEPT ![c].in = @ \cup {s}]
  <2>1. /\ clusters' = IF k = "master" THEN cs ELSE more
        /\ drift' = IF k = "master" THEN drift ELSE drift \cup {c}
        /\ regrouped' = TRUE
    BY <1>5, <1>8 DEF cmdCreateSession
  <2> HIDE DEF cs
  <2>2. /\ DOMAIN cs = DOMAIN clusters \cup {c}
        /\ cs \in [DOMAIN clusters \cup {c} -> [in : SUBSET born, master : born \cup {Nobody}]]
        /\ OneCluster(cs) /\ MembersAtHome(cs, rank, home)
        /\ MastersAtHome(cs, rank, home) /\ WorkersInside(cs, rank, home)
        /\ \A d \in DOMAIN cs :
             /\ d \notin usurped => MasterOf(scopes, d) = cs[d].master
             /\ d \notin drift => InsideOf(scopes, d) = cs[d].in
    BY <1>1, <1>8, EnsuredIs DEF cs
  <2>3. Fits(cs) /\ c \in DOMAIN cs
    BY <2>2
  <2>4. \A x \in [in : SUBSET born, master : born \cup {Nobody}] :
          /\ [x EXCEPT !.in = @ \cup {s}].in = x.in \cup {s}
          /\ [x EXCEPT !.in = @ \cup {s}].master = x.master
          /\ [x EXCEPT !.in = @ \cup {s}] \in [in : SUBSET born', master : born' \cup {Nobody}]
          /\ x \in [in : SUBSET born', master : born' \cup {Nobody}]
    BY <1>4
  <2>5. /\ DOMAIN clusters' = DOMAIN cs /\ clusters' = [d \in DOMAIN cs |-> clusters'[d]]
        /\ \A d \in DOMAIN cs : clusters'[d] = IF d = c /\ k = "worker" THEN [cs[d] EXCEPT !.in = @ \cup {s}] ELSE cs[d]
    BY <2>1, <2>2
  <2>6. Now(cs) /\ clusters' \in [DOMAIN cs -> [in : SUBSET born', master : born' \cup {Nobody}]]
    <3>1. ASSUME NEW d \in DOMAIN cs
          PROVE  /\ clusters'[d].master = cs[d].master
                 /\ clusters'[d].in = IF d = c /\ k = "worker" THEN cs[d].in \cup {s} ELSE cs[d].in
                 /\ clusters'[d] \in [in : SUBSET born', master : born' \cup {Nobody}]
      <4>1. cs[d] \in [in : SUBSET born, master : born \cup {Nobody}]
        BY <2>2
      <4>2. CASE d = c /\ k = "worker"
        <5>1. clusters'[d] = [cs[d] EXCEPT !.in = @ \cup {s}]
          BY <2>5, <4>2
        <5> QED BY <2>4, <4>1, <4>2, <5>1
      <4>3. CASE ~(d = c /\ k = "worker")
        <5>1. clusters'[d] = cs[d]
          BY <2>5, <4>3
        <5> QED BY <2>4, <4>1, <4>3, <5>1
      <4> QED BY <4>2, <4>3
    <3> QED BY <2>5, <3>1
  <2>7. \A x \in Peer : home'[x] # Nobody => home'[x] \in DOMAIN clusters'
    BY <1>1, <1>3, <2>2, <2>5 DEF GraphTyped
  <2>8. GraphTyped'
    <3>1. drift' \subseteq Cluster
      BY <1>1, <1>8, <2>1 DEF GraphTyped
    <3>2. DOMAIN clusters' \subseteq Cluster /\ DOMAIN scopes' \subseteq DOMAIN clusters'
      BY <1>1, <1>2, <1>8, <2>2, <2>5 DEF GraphTyped
    <3>3. clusters' \in [DOMAIN clusters' -> [in : SUBSET born', master : born' \cup {Nobody}]]
      BY <2>5, <2>6
    <3>4. scopes' \in [DOMAIN scopes' -> [in : SUBSET Peer, master : Peer \cup {Nobody}]] /\ usurped' \subseteq Cluster
      BY <1>1, <1>2 DEF GraphTyped
    <3> QED BY <1>3, <1>4, <2>7, <3>1, <3>2, <3>3, <3>4 DEF GraphTyped
  <2>9. Folded'
    <3>1. ASSUME NEW d \in DOMAIN cs
          PROVE  /\ d \notin usurped' => MasterOf(scopes', d) = clusters'[d].master
                 /\ d \notin drift' => InsideOf(scopes', d) = clusters'[d].in
      <4>1. usurped' = usurped /\ scopes' = scopes /\ clusters'[d].master = cs[d].master
        BY <1>2, <2>6
      <4>2. d \notin drift' => d \notin drift /\ clusters'[d].in = cs[d].in
        <5>1. k = "worker" => c \in drift'
          BY <2>1
        <5>2. drift \subseteq drift'
          BY <2>1
        <5> QED BY <2>6, <5>1, <5>2
      <4> QED BY <2>2, <4>1, <4>2
    <3> QED BY <2>5, <3>1 DEF Folded, MasterOf, InsideOf
  <2> HIDE DEF Fits, Now
  <2>10. AtHome(clusters', rank', home')
    BY <1>6, <2>3, <2>6
  <2>11. CyclesCapped'
    BY <2>1 DEF CyclesCapped
  <2> QED BY <1>4, <2>8, <2>9, <2>10, <2>11
<1> QED BY <1>7, <1>8

LEMMA GraphBegins ==
  ASSUME IntentAssumption, IntentInit
  PROVE  GraphInv
<1>1. /\ born = Founder /\ rank = [s \in Peer |-> "worker"] /\ subs = [e \in Edge |-> NoSub]
      /\ home = [s \in Peer |-> IF s \in Founder THEN Drawn ELSE Nobody]
      /\ clusters = [c \in {Drawn} |-> [in |-> Founder, master |-> Nobody]] /\ scopes = clusters
      /\ regrouped = FALSE /\ drift = {} /\ usurped = {}
  BY DEF IntentInit
<1>2. /\ Founder \subseteq Peer /\ Drawn \in Cluster /\ Nobody \notin Peer /\ Nobody \notin Cluster
  BY DEF IntentAssumption
<1>3. /\ DOMAIN clusters = {Drawn} /\ clusters[Drawn].in = Founder /\ clusters[Drawn].master = Nobody
      /\ clusters \in [{Drawn} -> [in : SUBSET born, master : born \cup {Nobody}]]
      /\ clusters \in [{Drawn} -> [in : SUBSET Peer, master : Peer \cup {Nobody}]]
  BY <1>1, <1>2
<1>4. GraphTyped
  <2>1. rank \in [Peer -> {"worker", "master"}] /\ home \in [Peer -> Cluster \cup {Nobody}]
    BY <1>1, <1>2
  <2>2. \A s \in Peer : home[s] # Nobody => home[s] \in DOMAIN clusters
    BY <1>1, <1>3
  <2> QED BY <1>1, <1>2, <1>3, <2>1, <2>2 DEF GraphTyped
<1>5. NoSub \in Sub /\ NoSub.active = FALSE
  BY DEF NoSub, Sub
<1>6. Subscribed
  <2>1. subs \in [Edge -> Sub] /\ \A e \in Edge : subs[e] = NoSub
    BY <1>1, <1>5
  <2> QED BY <1>5, <2>1 DEF Subscribed
<1>7. CyclesCapped
  <2>1. intentEdges(subs) = {}
    <3>1. \A x, e : e \in Edge => ~Joins(x, e, subs[e])
      BY <1>1, <1>5 DEF Joins
    <3> QED BY <3>1, EdgeIs
  <2>2. Cyclic(intentEdges(subs)) = {}
    BY <2>1 DEF Cyclic
  <2> QED BY <2>2 DEF CyclesCapped
<1>8. AtHome(clusters, rank, home)
  <2>1. \A s \in Peer : rank[s] = "worker" /\ home[s] = IF s \in Founder THEN Drawn ELSE Nobody
    BY <1>1
  <2> QED BY <1>2, <1>3, <2>1 DEF AtHome, OneCluster, MembersAtHome, MastersAtHome, WorkersInside
<1>9. Folded
  BY <1>1, <1>3 DEF Folded, MasterOf, InsideOf
<1> QED BY <1>4, <1>6, <1>7, <1>8, <1>9 DEF GraphInv


(* Each command keeps the graph.                                           *)
LEMMA GraphStep ==
  ASSUME IntentAssumption, GraphInv, IntentNext
  PROVE  GraphInv'
<1> SUFFICES GraphTyped' /\ Subscribed' /\ CyclesCapped' /\ AtHome(clusters', rank', home') /\ Folded'
  BY DEF GraphInv, AtHome, OneCluster, MembersAtHome, MastersAtHome, WorkersInside
<1>1. GraphTyped /\ Subscribed /\ CyclesCapped /\ AtHome(clusters, rank, home) /\ Folded
  BY DEF GraphInv
<1>2. ASSUME UNCHANGED <<born, rank, home, clusters, scopes, drift, usurped>>
      PROVE  GraphTyped' /\ AtHome(clusters', rank', home') /\ Folded'
  BY <1>1, <1>2 DEF GraphTyped, Folded, MasterOf, InsideOf
<1>3. ASSUME NEW e \in Edge, NEW giver \in Peer \cup Cluster, NEW target \in Peer, NEW wish \in Wish,
             cmdAuthorSubscription(e, giver, target, wish)
      PROVE  GraphTyped' /\ Subscribed' /\ CyclesCapped' /\ AtHome(clusters', rank', home') /\ Folded'
  <2>1. UNCHANGED <<born, rank, home, clusters, scopes, drift, usurped>>
    BY <1>3 DEF cmdAuthorSubscription
  <2>2. Subscribed' /\ CyclesCapped'
    BY <1>1, <1>3, AuthorKeeps
  <2> QED BY <1>2, <2>1, <2>2
<1>4. ASSUME NEW e \in Edge, cmdStopSubscription(e)
      PROVE  GraphTyped' /\ Subscribed' /\ CyclesCapped' /\ AtHome(clusters', rank', home') /\ Folded'
  <2>1. UNCHANGED <<born, rank, home, clusters, scopes, drift, usurped>>
    BY <1>4 DEF cmdStopSubscription
  <2>2. Subscribed' /\ CyclesCapped'
    BY <1>1, <1>4, StopKeeps
  <2> QED BY <1>2, <2>1, <2>2
<1>5. ASSUME NEW c \in Cluster, NEW asked \in SUBSET Peer, cmdUpsertCluster(c, asked)
      PROVE  GraphTyped' /\ Subscribed' /\ CyclesCapped' /\ AtHome(clusters', rank', home') /\ Folded'
  BY <1>5, UpsertKeeps
<1>6. ASSUME NEW c \in Cluster, NEW s \in Peer, cmdAssignMaster(c, s)
      PROVE  GraphTyped' /\ Subscribed' /\ CyclesCapped' /\ AtHome(clusters', rank', home') /\ Folded'
  <2>1. /\ c \in DOMAIN clusters /\ s \in born /\ Assigns(c, s, clusters, rank, home)
        /\ regrouped' = TRUE /\ UNCHANGED <<born, subs>>
    BY <1>6 DEF cmdAssignMaster
  <2>2. /\ rank \in [Peer -> {"worker", "master"}] /\ home \in [Peer -> Cluster \cup {Nobody}]
        /\ s \in born' /\ born \subseteq born' /\ born' \subseteq Peer /\ subs' = subs
    BY <1>1, <2>1 DEF GraphTyped
  <2> QED BY <2>1, <2>2, AssignKeeps
<1>7. ASSUME NEW c \in Cluster, NEW s \in Peer, cmdCreateMasterForCluster(c, s)
      PROVE  GraphTyped' /\ Subscribed' /\ CyclesCapped' /\ AtHome(clusters', rank', home') /\ Folded'
  <2> DEFINE rs == [rank EXCEPT ![s] = "master"]
             hs == [home EXCEPT ![s] = c]
  <2>1. /\ c \in DOMAIN clusters /\ Assigns(c, s, clusters, rs, hs)
        /\ regrouped' = TRUE /\ UNCHANGED subs
        /\ \/ clusters[c].master # Nobody /\ s = clusters[c].master /\ born' = born
           \/ s \notin born /\ born' = born \cup {s}
    BY <1>7 DEF cmdCreateMasterForCluster
  <2>2. /\ rs \in [Peer -> {"worker", "master"}] /\ hs \in [Peer -> Cluster \cup {Nobody}]
        /\ \A x \in Peer : x # s => rs[x] = rank[x] /\ hs[x] = home[x]
    BY <1>1 DEF GraphTyped
  <2>3. clusters[c].master \in born \cup {Nobody}
    BY <1>1, <2>1 DEF GraphTyped
  <2>4. s \in born' /\ born \subseteq born' /\ born' \subseteq Peer /\ subs' = subs
    BY <1>1, <2>1, <2>3 DEF GraphTyped
  <2> HIDE DEF rs, hs
  <2> QED BY <2>1, <2>2, <2>4, AssignKeeps
<1>8. ASSUME NEW s \in Peer, NEW r \in {"worker", "master"}, NEW c \in Cluster \cup {Nobody},
             cmdCreateSession(s, r, c)
      PROVE  GraphTyped' /\ Subscribed' /\ CyclesCapped' /\ AtHome(clusters', rank', home') /\ Folded'
  BY <1>8, CreateKeeps
<1> QED BY <1>3, <1>4, <1>5, <1>6, <1>7, <1>8 DEF IntentNext

LEMMA GraphUnchanged ==
  ASSUME GraphInv, UNCHANGED intentVars
  PROVE  GraphInv'
<1>1. UNCHANGED <<born, rank, home, clusters, subs, scopes, regrouped, drift, usurped>>
  BY DEF intentVars
<1>2. intentEdges(subs)' = intentEdges(subs)
  BY <1>1 DEF intentEdges, SourcesOf, MembersOf
<1>3. CyclesCapped'
  <2>1. ~regrouped => \A x \in Cyclic(intentEdges(subs)) : subs'[x.of].cap # 0
    BY <1>1 DEF GraphInv, CyclesCapped
  <2>2. ASSUME \A x \in Cyclic(intentEdges(subs)) : subs'[x.of].cap # 0 PROVE CyclesCapped'
    BY <1>2, <2>2 DEF CyclesCapped, Cyclic, Reaches, NodesOf, SealedBy
  <2>3. regrouped' => CyclesCapped'
    BY DEF CyclesCapped
  <2> QED BY <1>1, <2>1, <2>2, <2>3
<1>4. GraphTyped' /\ Subscribed'
  BY <1>1 DEF GraphInv, GraphTyped, Subscribed
<1>5. AtHome(clusters, rank, home)' /\ Folded'
  BY <1>1 DEF GraphInv, AtHome, OneCluster, MembersAtHome, MastersAtHome, WorkersInside, Folded, MasterOf, InsideOf
<1> QED BY <1>3, <1>4, <1>5 DEF GraphInv

LEMMA GraphShown ==
  ASSUME GraphInv
  PROVE  IntentTypeOK /\ GraphKept
<1>1. GraphTyped /\ Subscribed /\ CyclesCapped /\ AtHome(clusters, rank, home) /\ Folded
  BY DEF GraphInv
<1>2. IntentTypeOK
  <2>1. \A e \in Edge : subs[e].cap \in Nat /\ (subs[e].active => subs[e].target \in born)
    BY <1>1 DEF Subscribed, Sub
  <2> QED BY <1>1, <2>1 DEF IntentTypeOK, GraphTyped
<1>3. HomesAgree
  BY <1>1 DEF AtHome, OneCluster, MembersAtHome, MastersAtHome, WorkersInside, HomesAgree
<1>4. ScopesAreFold
  <2>1. ASSUME NEW c \in DOMAIN clusters
        PROVE  clusters[c].in \ {clusters[c].master} = clusters[c].in
    <3>1. clusters[c].in \subseteq born /\ (clusters[c].master # Nobody => clusters[c].master \in born)
      BY <1>1 DEF GraphTyped
    <3>2. clusters[c].master \notin clusters[c].in
      <4>1. CASE clusters[c].master = Nobody
        BY <1>1, <3>1, <4>1, IntentAssumption DEF GraphTyped, IntentAssumption
      <4>2. CASE clusters[c].master # Nobody
        BY <1>1, <4>2 DEF AtHome, MembersAtHome, MastersAtHome
      <4> QED BY <4>1, <4>2
    <3> QED BY <3>2
  <2> QED BY <1>1, <2>1 DEF ScopesAreFold, Folded, MasterOf, InsideOf, MembersOf
<1> QED BY <1>1, <1>2, <1>3, <1>4 DEF GraphKept

(* The graph of a runtime is kept: each active subscription on a cycle of   *)
(* activations has a cap, unless the clusters changed since the last static *)
(* check; what the canvas shows, the clusters and the roles agree; and the  *)
(* fold of the log knows the clusters but for what no event told it.       *)
THEOREM GraphAlwaysKept == IntentSpec => [](IntentTypeOK /\ GraphKept)
<1> USE IntentAssumption
<1>1. IntentInit => GraphInv
  BY GraphBegins
<1>2. GraphInv /\ [IntentNext]_intentVars => GraphInv'
  BY GraphStep, GraphUnchanged
<1>3. GraphInv => IntentTypeOK /\ GraphKept
  BY GraphShown
<1> QED BY <1>1, <1>2, <1>3, PTL DEF IntentSpec
=============================================================================
