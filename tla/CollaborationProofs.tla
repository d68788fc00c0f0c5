------------------------ MODULE CollaborationProofs ------------------------
(***************************************************************************)
(* An agreement rests on evidence that each member was given, and a        *)
(* discussion that rests waits for a person: for every set of members,     *)
(* every cap on the turns and any number of incidents.                     *)
(*                                                                         *)
(* AgreementInformed is not inductive: it says nothing before the goal is  *)
(* completed.  What carries it is that an assessment that counts, and the  *)
(* reading of a turn on the goal, are only there for members who have the  *)
(* evidence (or wrote some since): new evidence takes both back from all   *)
(* but its author, in the same step.                                       *)
(*                                                                         *)
(* WaitsForPerson speaks of states at rest only.  What carries it is that  *)
(* before the rest every turn has a run or a settlement to come, every     *)
(* trigger that could start a drain or a start to come, every required     *)
(* member an assessment, a turn to come or a person to wait for, and that  *)
(* an active discussion is completed in the step after which it can be.    *)
(* The types come last.                                                    *)
(***************************************************************************)
EXTENDS Collaboration, FiniteSetTheorems, TLAPS

Has == heard \cup unread

Duties == [scope : {"none", "past", "cancelled"} \cup Scope,
           read : BOOLEAN, said : BOOLEAN, assessed : BOOLEAN]
Goals == [status : {"none", "active", "paused", "completed", "cancelled"}, linked : BOOLEAN,
          required : SUBSET Mate, left : 0 .. TurnCap, issue : {"none", "open", "resolved"}]

Shape ==
    /\ goal \in Goals
    /\ stand \in [Mate -> {"none", "satisfied", "objects"}]
    /\ duty \in [Mate -> Duties]
    /\ waiting \in [Mate -> SUBSET Scope]
StandInformed == \A m \in Mate : stand[m] # "none" => m \in Has
ReadInformed == \A m \in Mate : duty[m].scope = "goal" /\ duty[m].read => m \in Has
Informed == Shape /\ StandInformed /\ ReadInformed /\ AgreementInformed

-----------------------------------------------------------------------------
(* The helpers.                                                            *)

LEMMA BehindType ==
    ASSUME Shape, NEW who \in SUBSET Mate
    PROVE  /\ Behind(duty, who) \in [Mate -> Duties]
           /\ \A m \in Mate : /\ Behind(duty, who)[m].scope = duty[m].scope
                              /\ m \notin who /\ duty[m].scope = "goal" => ~Behind(duty, who)[m].read
                              /\ m \in who => Behind(duty, who)[m] = duty[m]
  <1>1. \A m \in Mate : duty[m] \in Duties
    BY DEF Shape
  <1>2. \A m \in Mate :
          [duty[m] EXCEPT !.read = FALSE] \in Duties /\ [duty[m] EXCEPT !.read = FALSE].scope = duty[m].scope
          /\ [duty[m] EXCEPT !.read = FALSE].read = FALSE
    BY <1>1 DEF Duties
  <1> QED
    BY <1>1, <1>2 DEF Behind

LEMMA NotifyType ==
    ASSUME Shape, NEW who \in SUBSET Mate
    PROVE  NotifyDiscussion(waiting, who) \in [Mate -> SUBSET Scope]
  <1>1. "goal" \in Scope
    BY DEF Scope
  <1> QED
    BY <1>1 DEF NotifyDiscussion, Shape

\* A completed goal has the members and the evidence it was completed with.
LEMMA CompletedInformed ==
    ASSUME NEW g \in Goals, NEW att, NEW sta, NEW wai, NEW dut,
           \A m \in g.required : sta[m] # "none" => m \in Has,
           g.status = "completed" => g.required \subseteq Has
    PROVE  LET h == Completed(g, att, sta, wai, dut) IN
           h \in Goals /\ (h.status = "completed" => h.required \subseteq Has)
  <1>1. CASE discussionCanComplete(g, att, sta, wai, dut)
    <2>1. \A m \in g.required : sta[m] = "satisfied"
      BY <1>1 DEF discussionCanComplete
    <2>2. [g EXCEPT !.status = "completed"] \in Goals
          /\ [g EXCEPT !.status = "completed"].required = g.required
      BY DEF Goals
    <2> QED
      BY <1>1, <2>1, <2>2 DEF Completed
  <1>2. CASE ~discussionCanComplete(g, att, sta, wai, dut)
    BY <1>2 DEF Completed
  <1> QED
    BY <1>1, <1>2

LEMMA InitInformed == CollaborationInit => Informed
  <1> SUFFICES ASSUME CollaborationInit PROVE Informed
    OBVIOUS
  <1>1. goal \in Goals /\ goal.status = "none"
    BY CollaborationAssumption DEF CollaborationInit, Goals
  <1>2. NoDuty \in Duties /\ ~NoDuty.read
    BY DEF NoDuty, Duties
  <1>3. Shape
    BY <1>1, <1>2 DEF CollaborationInit, Shape
  <1> QED
    BY <1>1, <1>2, <1>3 DEF CollaborationInit, Informed, StandInformed, ReadInformed,
         AgreementInformed

-----------------------------------------------------------------------------
(* The steps.                                                              *)

\* Steps that touch neither the goal, the assessments, the turns nor what was given.
LEMMA StillInformed ==
    ASSUME Informed, UNCHANGED <<goal, stand, duty, heard, unread>>,
           waiting' \in [Mate -> SUBSET Scope]
    PROVE  Informed'
BY DEF Informed, Shape, StandInformed, ReadInformed, AgreementInformed, Has

\* Steps that only change the goal, and leave it open or agreed.
LEMMA GoalInformed ==
    ASSUME Informed, UNCHANGED <<stand, duty, heard, unread>>,
           waiting' \in [Mate -> SUBSET Scope], goal' \in Goals,
           goal'.status = "completed" => goal'.required \subseteq Has
    PROVE  Informed'
BY DEF Informed, Shape, StandInformed, ReadInformed, AgreementInformed, Has

LEMMA QuietSteps ==
    ASSUME Informed,
           \/ \E m \in Mate, thread \in RoomScope : retryMember(m, thread)
           \/ \E m \in Mate, outcome \in {"completed", "failed"} : RunEnds(m, outcome)
           \/ \E m \in Mate : Chat(m) \/ killMember(m) \/ KilledRunCloses(m)
           \/ drainTriggers \/ dispatchTriggerSkipped \/ settledIgnored \/ WorkLost
           \/ killAllMembers \/ recoverTurns
    PROVE  Informed'
  <1>0. waiting \in [Mate -> SUBSET Scope]
    BY DEF Informed, Shape
  <1>1. ASSUME NEW m \in Mate, NEW thread \in RoomScope, retryMember(m, thread) PROVE Informed'
    <2>1. UNCHANGED <<goal, stand, duty, heard, unread>>
      BY <1>1 DEF retryMember
    <2>2. waiting' \in [Mate -> SUBSET Scope]
      BY <1>0, <1>1 DEF retryMember, Scope
    <2> QED
      BY <2>1, <2>2, StillInformed
  <1>2. ASSUME NEW m \in Mate, NEW outcome \in {"completed", "failed"}, RunEnds(m, outcome)
        PROVE  Informed'
    BY <1>0, <1>2, StillInformed DEF RunEnds
  <1>3. ASSUME NEW m \in Mate, Chat(m) \/ killMember(m) \/ KilledRunCloses(m) PROVE Informed'
    BY <1>0, <1>3, StillInformed DEF Chat, killMember, KilledRunCloses
  <1>4. CASE drainTriggers \/ dispatchTriggerSkipped \/ settledIgnored \/ WorkLost
             \/ killAllMembers \/ recoverTurns
    BY <1>0, <1>4, StillInformed DEF drainTriggers, dispatchTriggerSkipped, settledIgnored, WorkLost,
       killAllMembers, recoverTurns
  <1> QED
    BY <1>1, <1>2, <1>3, <1>4

LEMMA GoalSteps ==
    ASSUME Informed,
           \/ pauseDiscussion \/ cancelDiscussion \/ archive \/ dispatchTriggerCapped
           \/ \E raised \in BOOLEAN : resumeDiscussion(raised)
    PROVE  Informed'
  <1>0. waiting \in [Mate -> SUBSET Scope] /\ goal \in Goals
        /\ (goal.status = "completed" => goal.required \subseteq Has)
    BY DEF Informed, Shape, AgreementInformed, Has
  <1>1. CASE pauseDiscussion
    <2>1. goal' \in Goals /\ goal'.status = "paused"
      BY <1>0, <1>1 DEF pauseDiscussion, Goals
    <2> QED
      BY <1>0, <1>1, <2>1, GoalInformed DEF pauseDiscussion
  <1>2. CASE cancelDiscussion
    <2>1. goal' \in Goals /\ goal'.status = "cancelled"
      BY <1>0, <1>2 DEF cancelDiscussion, Goals
    <2>2. waiting' \in [Mate -> SUBSET Scope]
      BY <1>0, <1>2 DEF cancelDiscussion
    <2> QED
      BY <1>2, <2>1, <2>2, GoalInformed DEF cancelDiscussion
  <1>3. CASE archive
    <2>1. goal' \in Goals /\ (goal'.status = "paused" \/ goal' = goal)
      BY <1>0, <1>3 DEF archive, Goals
    <2>2. goal'.status = "completed" => goal'.required \subseteq Has
      BY <1>0, <2>1
    <2> QED
      BY <1>0, <1>3, <2>1, <2>2, GoalInformed DEF archive
  <1>4. CASE dispatchTriggerCapped
    <2>1. goal' \in Goals /\ goal'.status = "paused"
      BY <1>0, <1>4 DEF dispatchTriggerCapped, Goals
    <2> QED
      BY <1>0, <1>4, <2>1, GoalInformed DEF dispatchTriggerCapped
  <1>5. ASSUME NEW raised \in BOOLEAN, resumeDiscussion(raised) PROVE Informed'
    <2> DEFINE l == IF raised THEN TurnCap ELSE goal.left
    <2> DEFINE g == [goal EXCEPT !.status = "active", !.left = l]
    <2>5. l \in 0 .. TurnCap
      BY <1>0, CollaborationAssumption DEF Goals
    <2>1. g \in Goals /\ g.status = "active" /\ g.required = goal.required
      <3> HIDE DEF l
      <3> QED
        BY <1>0, <2>5 DEF Goals
    <2>2. goal' = Completed(g, attention, stand, waiting, duty)
      BY <1>5 DEF resumeDiscussion
    <2>3. \A m \in g.required : stand[m] # "none" => m \in Has
      BY <1>0, <2>1 DEF Informed, StandInformed, Goals
    <2> HIDE DEF g
    <2>4. goal' \in Goals /\ (goal'.status = "completed" => goal'.required \subseteq Has)
      BY <2>1, <2>2, <2>3, CompletedInformed
    <2> QED
      BY <1>0, <1>5, <2>4, GoalInformed DEF resumeDiscussion
  <1> QED
    BY <1>1, <1>2, <1>3, <1>4, <1>5

\* New evidence: what was said and read before counts for nobody but `who', who has it.
LEMMA EvidenceInformed ==
    ASSUME NEW who \in SUBSET Mate, who \subseteq Has',
           goal' \in Goals, goal'.status # "completed",
           stand' \in [Mate -> {"none", "satisfied", "objects"}],
           duty' \in [Mate -> Duties], waiting' \in [Mate -> SUBSET Scope],
           \A m \in Mate : stand'[m] # "none" => m \in who,
           \A m \in Mate : duty'[m].scope = "goal" /\ duty'[m].read => m \in who
    PROVE  Informed'
BY DEF Informed, Shape, StandInformed, ReadInformed, AgreementInformed

LEMMA RoomMessageStep ==
    ASSUME Informed, NEW s \in Thread, NEW who \in SUBSET Mate, PersonWritesInRoom(s, who)
    PROVE  Informed'
  <1>0. Shape
    BY DEF Informed
  <1>1. s \in Scope /\ "goal" \in Scope /\ s # "goal"
    BY CollaborationAssumption DEF Scope, RoomScope
  <1>2. goal' = goal /\ waiting' \in [Mate -> SUBSET Scope]
    BY <1>0, <1>1 DEF PersonWritesInRoom, Shape
  <1>3. \A m \in Mate : [duty[m] EXCEPT !.read = FALSE] \in Duties
          /\ [duty[m] EXCEPT !.read = FALSE].scope = duty[m].scope
          /\ [duty[m] EXCEPT !.read = FALSE].read = FALSE
    <2>1. \A m \in Mate : duty[m] \in Duties
      BY <1>0 DEF Shape
    <2> QED
      BY <2>1 DEF Duties
  <1>4. /\ duty' \in [Mate -> Duties]
        /\ \A m \in Mate : duty'[m] = duty[m] \/ duty'[m] = [duty[m] EXCEPT !.read = FALSE]
        /\ LinkedTo(s) => \A m \in Mate : duty[m].scope = "goal" =>
                                            duty'[m] = [duty[m] EXCEPT !.read = FALSE]
    BY <1>0, <1>1, <1>3 DEF PersonWritesInRoom, Shape
  <1>5. CASE LinkedTo(s)
    <2>1. goal'.status # "completed"
      BY <1>2, <1>5 DEF LinkedTo, OpenGoal
    <2>2. stand' = [m \in Mate |-> "none"]
      BY <1>5 DEF PersonWritesInRoom, Outdated
    <2>3. \A m \in Mate : ~(duty'[m].scope = "goal" /\ duty'[m].read)
      <3> TAKE m \in Mate
      <3>1. CASE duty[m].scope = "goal"
        BY <1>3, <1>4, <1>5, <3>1
      <3>2. CASE duty[m].scope # "goal"
        BY <1>3, <1>4, <3>2
      <3> QED
        BY <3>1, <3>2
    <2>4. {} \in SUBSET Mate /\ {} \subseteq Has'
      OBVIOUS
    <2> QED
      BY <1>0, <1>2, <1>4, <2>1, <2>2, <2>3, <2>4, EvidenceInformed DEF Shape
  <1>6. CASE ~LinkedTo(s)
    <2>1. UNCHANGED <<goal, stand, heard, unread>>
      BY <1>2, <1>6 DEF PersonWritesInRoom
    <2>2. \A m \in Mate : duty'[m].scope = "goal" /\ duty'[m].read => m \in Has
      <3> TAKE m \in Mate
      <3>1. CASE duty'[m] = duty[m]
        BY <3>1 DEF Informed, ReadInformed
      <3>2. CASE duty'[m] = [duty[m] EXCEPT !.read = FALSE]
        BY <1>3, <3>2
      <3> QED
        BY <1>4, <3>1, <3>2
    <2> QED
      BY <1>2, <1>4, <2>1, <2>2
      DEF Informed, Shape, StandInformed, ReadInformed, AgreementInformed, Has
  <1> QED
    BY <1>5, <1>6

LEMMA DiscussionMessageStep ==
    ASSUME Informed, NEW issue \in {"none", "open", "resolved"}, PersonWritesInDiscussion(issue)
    PROVE  Informed'
  <1>0. Shape /\ {} \in SUBSET Mate /\ {} \subseteq Has'
    BY DEF Informed
  <1>1. goal' \in Goals /\ goal'.status # "completed"
    BY <1>0 DEF PersonWritesInDiscussion, Shape, Goals, OpenGoal
  <1>2. stand' = [m \in Mate |-> "none"]
    BY DEF PersonWritesInDiscussion, Outdated
  <1>3. duty' = Behind(duty, {}) /\ waiting' = NotifyDiscussion(waiting, {})
    BY DEF PersonWritesInDiscussion
  <1>4. duty' \in [Mate -> Duties]
        /\ \A m \in Mate : ~(duty'[m].scope = "goal" /\ duty'[m].read)
    BY <1>0, <1>3, BehindType
  <1>5. waiting' \in [Mate -> SUBSET Scope]
    BY <1>0, <1>3, NotifyType
  <1> QED
    BY <1>0, <1>1, <1>2, <1>4, <1>5, EvidenceInformed

LEMMA ReviseStep ==
    ASSUME Informed, NEW required \in SUBSET Mate, reviseDiscussion(required)
    PROVE  Informed'
  <1>0. Shape /\ {} \in SUBSET Mate /\ {} \subseteq Has'
    BY DEF Informed
  <1>1. goal' \in Goals /\ goal'.status # "completed"
    BY <1>0 DEF reviseDiscussion, Shape, Goals, OpenGoal
  <1>2. stand' = [m \in Mate |-> "none"] /\ duty' = Behind(duty, {})
    BY DEF reviseDiscussion, Outdated
  <1>4. duty' \in [Mate -> Duties]
        /\ \A m \in Mate : ~(duty'[m].scope = "goal" /\ duty'[m].read)
    BY <1>0, <1>2, BehindType
  <1>5. waiting' \in [Mate -> SUBSET Scope]
    BY <1>0 DEF reviseDiscussion, Shape, Scope
  <1> QED
    BY <1>0, <1>1, <1>2, <1>4, <1>5, EvidenceInformed

LEMMA StartStep ==
    ASSUME Informed, NEW linked \in BOOLEAN, NEW required \in SUBSET Mate,
           startDiscussion(linked, required)
    PROVE  Informed'
  <1>0. Shape /\ {} \in SUBSET Mate /\ {} \subseteq Has'
    BY DEF Informed
  <1>1. goal' \in Goals /\ goal'.status # "completed"
    BY CollaborationAssumption DEF startDiscussion, Goals
  <1>2. stand' = [m \in Mate |-> "none"]
    BY DEF startDiscussion
  <1>3. \A m \in Mate, c \in {"past", "cancelled"} :
          [duty[m] EXCEPT !.scope = c] \in Duties /\ [duty[m] EXCEPT !.scope = c].scope = c
    <2>1. \A m \in Mate : duty[m] \in Duties
      BY <1>0 DEF Shape
    <2> QED
      BY <2>1 DEF Duties
  <1>4. duty' \in [Mate -> Duties] /\ \A m \in Mate : duty'[m].scope # "goal"
    <2> DEFINE c == IF goal.status = "cancelled" THEN "cancelled" ELSE "past"
    <2>1. c \in {"past", "cancelled"} /\ c # "goal"
      OBVIOUS
    <2>2. duty' = [m \in Mate |-> IF duty[m].scope = "goal" THEN [duty[m] EXCEPT !.scope = c]
                                  ELSE duty[m]]
      BY DEF startDiscussion
    <2> HIDE DEF c
    <2> QED
      BY <1>0, <1>3, <2>1, <2>2 DEF Shape
  <1>5. waiting' \in [Mate -> SUBSET Scope]
    BY <1>0 DEF startDiscussion, Shape, Scope
  <1> QED
    BY <1>0, <1>1, <1>2, <1>4, <1>5, EvidenceInformed

LEMMA PostStep ==
    ASSUME Informed, NEW m \in Mate, NEW issue \in {"none", "open", "resolved"},
           postInDiscussion(m, issue)
    PROVE  Informed'
  <1>0. Shape /\ {m} \in SUBSET Mate
    BY DEF Informed
  <1>1. goal' \in Goals /\ goal'.status # "completed"
    BY <1>0 DEF postInDiscussion, Shape, Goals, OpenGoal
  <1>2. stand' = [n \in Mate |-> "none"] /\ waiting' = NotifyDiscussion(waiting, {})
    BY DEF postInDiscussion, Outdated
  <1>3. {m} \subseteq Has'
    BY DEF postInDiscussion, HeardAfter, UnreadAfter, Has
  <1> DEFINE d == Behind(duty, {m})
  <1>4. d \in [Mate -> Duties]
        /\ \A n \in Mate : n \notin {m} /\ d[n].scope = "goal" => ~d[n].read
    BY <1>0, BehindType
  <1>5. duty' = [d EXCEPT ![m].read = TRUE, ![m].said = TRUE]
    BY DEF postInDiscussion
  <1>6. duty' \in [Mate -> Duties]
        /\ \A n \in Mate : n # m => duty'[n] = d[n]
    <2> HIDE DEF d
    <2> QED
      BY <1>4, <1>5 DEF Duties
  <1>7. \A n \in Mate : duty'[n].scope = "goal" /\ duty'[n].read => n \in {m}
    BY <1>4, <1>6
  <1>8. waiting' \in [Mate -> SUBSET Scope]
    BY <1>0, <1>2, NotifyType
  <1> QED
    BY <1>0, <1>1, <1>2, <1>3, <1>6, <1>7, <1>8, EvidenceInformed

LEMMA RoomReplyStep ==
    ASSUME Informed, NEW m \in Mate, postInRoom(m)
    PROVE  Informed'
  <1>0. Shape /\ {} \in SUBSET Mate /\ {} \subseteq Has' /\ goal' = goal
    BY DEF Informed, postInRoom
  <1>9. duty[m].scope # "goal"
    BY DEF postInRoom, RoomScope
  <1>1. CASE LinkedTo(duty[m].scope)
    <2>1. goal' \in Goals /\ goal'.status # "completed"
      BY <1>0, <1>1 DEF LinkedTo, OpenGoal, Shape
    <2>2. stand' = [n \in Mate |-> "none"] /\ waiting' = NotifyDiscussion(waiting, {})
      BY <1>1 DEF postInRoom, Outdated
    <2> DEFINE d == Behind(duty, {})
    <2>3. d \in [Mate -> Duties] /\ \A n \in Mate : ~(d[n].scope = "goal" /\ d[n].read)
      BY <1>0, BehindType
    <2>4. duty' = [d EXCEPT ![m].said = TRUE]
      BY <1>1 DEF postInRoom
    <2>5. duty' \in [Mate -> Duties]
          /\ \A n \in Mate : duty'[n].scope = d[n].scope /\ duty'[n].read = d[n].read
      <3> HIDE DEF d
      <3> QED
        BY <2>3, <2>4 DEF Duties
    <2>6. \A n \in Mate : ~(duty'[n].scope = "goal" /\ duty'[n].read)
      BY <2>3, <2>5
    <2>7. waiting' \in [Mate -> SUBSET Scope]
      BY <1>0, <2>2, NotifyType
    <2> QED
      BY <1>0, <2>1, <2>2, <2>5, <2>6, <2>7, EvidenceInformed
  <1>2. CASE ~LinkedTo(duty[m].scope)
    <2>1. UNCHANGED <<goal, stand, waiting, heard, unread>>
      BY <1>2 DEF postInRoom
    <2>2. duty' = [duty EXCEPT ![m].said = TRUE]
      BY <1>2 DEF postInRoom
    <2>3. duty' \in [Mate -> Duties]
          /\ \A n \in Mate : duty'[n].scope = duty[n].scope /\ duty'[n].read = duty[n].read
      BY <1>0, <2>2 DEF Shape, Duties
    <2> QED
      BY <2>1, <2>3 DEF Informed, Shape, StandInformed, ReadInformed, AgreementInformed, Has
  <1> QED
    BY <1>1, <1>2

LEMMA ReadStep ==
    ASSUME Informed, NEW m \in Mate, readUpdates(m)
    PROVE  Informed'
  <1>1. UNCHANGED <<goal, stand, waiting>> /\ duty' = [duty EXCEPT ![m].read = TRUE]
    BY DEF readUpdates
  <1>2. duty' \in [Mate -> Duties]
        /\ duty'[m].scope = duty[m].scope
        /\ \A n \in Mate : n # m => duty'[n] = duty[n]
    BY <1>1 DEF Informed, Shape, Duties
  <1>3. Has' = IF duty[m].scope = "goal" THEN Has \cup {m} ELSE Has
    BY DEF readUpdates, Has
  <1>4. ReadInformed'
    <2> SUFFICES ASSUME NEW n \in Mate, duty'[n].scope = "goal", duty'[n].read PROVE n \in Has'
      BY DEF ReadInformed
    <2>1. CASE n = m
      BY <1>2, <1>3, <2>1
    <2>2. CASE n # m
      BY <1>2, <1>3, <2>2 DEF Informed, ReadInformed
    <2> QED
      BY <2>1, <2>2
  <1>5. Has \subseteq Has'
    BY <1>3
  <1> QED
    BY <1>1, <1>2, <1>4, <1>5 DEF Informed, Shape, StandInformed, AgreementInformed, Has

LEMMA AssessStep ==
    ASSUME Informed, NEW m \in Mate, NEW verdict \in {"satisfied", "objects"}, assess(m, verdict)
    PROVE  Informed'
  <1>1. UNCHANGED <<goal, waiting, heard, unread>>
        /\ stand' = [stand EXCEPT ![m] = verdict]
        /\ duty' = [duty EXCEPT ![m].assessed = TRUE]
    BY DEF assess
  <1>2. m \in Has
    BY DEF assess, mayAssess, Informed, ReadInformed
  <1>3. duty' \in [Mate -> Duties]
        /\ \A n \in Mate : duty'[n].scope = duty[n].scope /\ duty'[n].read = duty[n].read
    BY <1>1 DEF Informed, Shape, Duties
  <1>4. stand' \in [Mate -> {"none", "satisfied", "objects"}]
        /\ \A n \in Mate : stand'[n] = stand[n] \/ n = m
    BY <1>1 DEF Informed, Shape
  <1> QED
    BY <1>1, <1>2, <1>3, <1>4
    DEF Informed, Shape, StandInformed, ReadInformed, AgreementInformed, Has

LEMMA ObjectStep ==
    ASSUME Informed, NEW m \in Mate, assessObjecting(m)
    PROVE  Informed'
  <1>0. Shape /\ {m} \in SUBSET Mate
    BY DEF Informed
  <1>1. goal' \in Goals /\ goal'.status # "completed"
    BY <1>0 DEF assessObjecting, mayAssess, Shape, Goals, OpenGoal
  <1>2. stand' \in [Mate -> {"none", "satisfied", "objects"}]
        /\ \A n \in Mate : stand'[n] # "none" => n \in {m}
    BY DEF assessObjecting, Outdated
  <1>3. {m} \subseteq Has' /\ waiting' = NotifyDiscussion(waiting, {m})
    BY DEF assessObjecting, HeardAfter, UnreadAfter, Has
  <1> DEFINE d == Behind(duty, {m})
  <1>4. d \in [Mate -> Duties]
        /\ \A n \in Mate : n \notin {m} /\ d[n].scope = "goal" => ~d[n].read
    BY <1>0, BehindType
  <1>5. duty' = [d EXCEPT ![m].assessed = TRUE]
    BY DEF assessObjecting
  <1>6. duty' \in [Mate -> Duties] /\ \A n \in Mate : n # m => duty'[n] = d[n]
    <2> HIDE DEF d
    <2> QED
      BY <1>4, <1>5 DEF Duties
  <1>7. \A n \in Mate : duty'[n].scope = "goal" /\ duty'[n].read => n \in {m}
    BY <1>4, <1>6
  <1>8. waiting' \in [Mate -> SUBSET Scope]
    BY <1>0, <1>3, NotifyType
  <1> QED
    BY <1>0, <1>1, <1>2, <1>3, <1>6, <1>7, <1>8, EvidenceInformed

LEMMA DispatchStep ==
    ASSUME Informed, NEW starts \in BOOLEAN, dispatchTrigger(starts)
    PROVE  Informed'
  <1> DEFINE m == Head(work).who
             s == Head(work).scope
  <1>0. Shape
    BY DEF Informed
  <1>1. s \in Startable(m) /\ ~Capped(s) /\ UNCHANGED <<stand, heard, unread>>
    BY DEF dispatchTrigger, Skips
  <1>2. goal' = IF s = "goal" THEN [goal EXCEPT !.left = @ - 1] ELSE goal
    BY DEF dispatchTrigger
  <1>3. goal' \in Goals /\ goal'.status = goal.status /\ goal'.required = goal.required
    <2>1. goal \in Goals
      BY <1>0 DEF Shape
    <2>2. CASE s = "goal"
      <3>1. goal.left \in 0 .. TurnCap /\ goal.left # 0
        BY <1>1, <2>1, <2>2 DEF Capped, Goals
      <3>2. goal.left - 1 \in 0 .. TurnCap
        BY <3>1, CollaborationAssumption
      <3>3. goal' = [goal EXCEPT !.left = goal.left - 1]
        BY <1>2, <2>2
      <3> QED
        BY <2>1, <3>2, <3>3 DEF Goals
    <2>3. CASE s # "goal"
      BY <1>2, <2>1, <2>3
    <2> QED
      BY <2>2, <2>3
  <1>4. waiting' \in [Mate -> SUBSET Scope]
    BY <1>0 DEF dispatchTrigger, Shape
  <1>5. \A n \in Mate : duty'[n] = duty[n] \/ ~duty'[n].read
    <2>1. CASE duty' = duty
      BY <2>1
    <2>2. CASE duty' = [duty EXCEPT ![m] = [NoDuty EXCEPT !.scope = s]]
      <3>1. [NoDuty EXCEPT !.scope = s].read = FALSE
        BY DEF NoDuty
      <3> QED
        BY <1>0, <2>2, <3>1 DEF Shape
    <2> QED
      BY <2>1, <2>2 DEF dispatchTrigger
  <1>6. duty' \in [Mate -> Duties]
    <2>1. CASE m \in Mate
      <3>1. s \in Scope
        BY <1>0, <1>1, <2>1 DEF Startable, Shape
      <3>2. [NoDuty EXCEPT !.scope = s] \in Duties
        BY <3>1 DEF NoDuty, Duties
      <3> QED
        BY <1>0, <3>2 DEF dispatchTrigger, Shape
    <2>2. CASE m \notin Mate
      BY <1>0, <2>2 DEF dispatchTrigger, Shape
    <2> QED
      BY <2>1, <2>2
  <1>7. ReadInformed'
    BY <1>1, <1>5 DEF Informed, ReadInformed, Has
  <1> QED
    BY <1>0, <1>1, <1>3, <1>4, <1>6, <1>7
    DEF Informed, Shape, StandInformed, AgreementInformed, Has

LEMMA SettledStep ==
    ASSUME Informed, settled
    PROVE  Informed'
  <1> DEFINE c == Head(work)
             m == c.who
             t == duty[m]
             failed == c.outcome = "failed"
             current == t.scope = "goal" /\ t.assessed /\ stand'[m] \in {"satisfied", "objects"}
             done == IF current \/ (t.scope \in RoomScope /\ t.read) THEN {t.scope} ELSE {}
             again == IF ~failed /\ t.scope = "goal" /\ OpenGoal /\ m \in goal.required
                         /\ t.assessed /\ ~current
                      THEN {"goal"} ELSE {}
  <1>0. Shape
    BY DEF Informed
  <1>1. UNCHANGED <<heard, unread>>
    BY DEF settled
  <1>2. stand' = stand \/ stand' = [stand EXCEPT ![m] = "none"]
    BY DEF settled
  <1>3. stand' \in [Mate -> {"none", "satisfied", "objects"}]
        /\ \A n \in Mate : stand'[n] # "none" => n \in Has
    BY <1>0, <1>2 DEF Informed, Shape, StandInformed
  <1>4. duty' = [duty EXCEPT ![m] = NoDuty]
    BY DEF settled
  <1>5. duty' \in [Mate -> Duties] /\ \A n \in Mate : duty'[n] = duty[n] \/ ~duty'[n].read
    <2>1. NoDuty \in Duties /\ ~NoDuty.read
      BY DEF NoDuty, Duties
    <2> QED
      BY <1>0, <1>4, <2>1 DEF Shape
  <1>6. waiting' = [waiting EXCEPT ![m] = (@ \ done) \cup again]
    BY DEF settled
  <1>7. waiting' \in [Mate -> SUBSET Scope]
    <2>1. again \subseteq Scope
      BY DEF Scope
    <2> HIDE DEF done, again, m
    <2> QED
      BY <1>0, <1>6, <2>1 DEF Shape
  <1>8. goal' = goal \/ goal' = Completed(goal, attention', stand', waiting', duty')
    BY DEF settled
  <1>9. goal' \in Goals /\ (goal'.status = "completed" => goal'.required \subseteq Has)
    <2>1. goal \in Goals /\ (goal.status = "completed" => goal.required \subseteq Has)
      BY <1>0 DEF Informed, Shape, AgreementInformed, Has
    <2>2. \A n \in goal.required : stand'[n] # "none" => n \in Has
      BY <1>3, <2>1 DEF Goals
    <2> QED
      BY <1>8, <2>1, <2>2, CompletedInformed
  <1>10. ReadInformed'
    BY <1>1, <1>5 DEF Informed, ReadInformed, Has
  <1> QED
    BY <1>1, <1>3, <1>5, <1>7, <1>9, <1>10
    DEF Informed, Shape, StandInformed, AgreementInformed, Has

LEMMA NextInformed == Informed /\ [CollaborationNext]_mateVars => Informed'
  <1> SUFFICES ASSUME Informed, [CollaborationNext]_mateVars PROVE Informed'
    OBVIOUS
  <1>1. CASE \E s \in Thread, who \in SUBSET Mate : PersonWritesInRoom(s, who)
    BY <1>1, RoomMessageStep
  <1>2. CASE \E issue \in {"none", "open", "resolved"} : PersonWritesInDiscussion(issue)
    BY <1>2, DiscussionMessageStep
  <1>3. CASE \E linked \in BOOLEAN, required \in SUBSET Mate : startDiscussion(linked, required)
    BY <1>3, StartStep
  <1>4. CASE \E required \in SUBSET Mate : reviseDiscussion(required)
    BY <1>4, ReviseStep
  <1>5. CASE \/ pauseDiscussion \/ cancelDiscussion \/ archive \/ dispatchTriggerCapped
             \/ \E raised \in BOOLEAN : resumeDiscussion(raised)
    BY <1>5, GoalSteps
  <1>6. CASE \E m \in Mate, issue \in {"none", "open", "resolved"} : postInDiscussion(m, issue)
    BY <1>6, PostStep
  <1>7. CASE \E m \in Mate, verdict \in {"satisfied", "objects"} : assess(m, verdict)
    BY <1>7, AssessStep
  <1>8. CASE \E m \in Mate : postInRoom(m)
    BY <1>8, RoomReplyStep
  <1>9. CASE \E m \in Mate : readUpdates(m)
    BY <1>9, ReadStep
  <1>10. CASE \E m \in Mate : assessObjecting(m)
    BY <1>10, ObjectStep
  <1>11. CASE \E starts \in BOOLEAN : dispatchTrigger(starts)
    BY <1>11, DispatchStep
  <1>12. CASE settled
    BY <1>12, SettledStep
  <1>13. CASE \/ \E m \in Mate, thread \in RoomScope : retryMember(m, thread)
              \/ \E m \in Mate, outcome \in {"completed", "failed"} : RunEnds(m, outcome)
              \/ \E m \in Mate : Chat(m) \/ killMember(m) \/ KilledRunCloses(m)
              \/ drainTriggers \/ dispatchTriggerSkipped \/ settledIgnored \/ WorkLost
              \/ killAllMembers \/ recoverTurns
    BY <1>13, QuietSteps
  <1>14. CASE UNCHANGED mateVars
    <2>1. UNCHANGED <<goal, stand, waiting, duty, heard, unread>>
      BY <1>14 DEF mateVars
    <2>2. waiting' \in [Mate -> SUBSET Scope]
      BY <2>1 DEF Informed, Shape
    <2> QED
      BY <2>1, <2>2, StillInformed
  <1> QED
    BY <1>1, <1>2, <1>3, <1>4, <1>5, <1>6, <1>7, <1>8, <1>9, <1>10, <1>11, <1>12, <1>13, <1>14
    DEF CollaborationNext

-----------------------------------------------------------------------------

\* A discussion is completed only when every required member was given all the evidence, or
\* published after it came (collaborationRuntime.ts: assess, complete).
THEOREM AgreementRestsOnEvidence == CollaborationSpec => []AgreementInformed
  <1>1. Informed => AgreementInformed
    BY DEF Informed
  <1> QED
    BY <1>1, InitInformed, NextInformed, PTL DEF CollaborationSpec

-----------------------------------------------------------------------------
(* A discussion that rests waits for a person.                             *)

Command == [kind : {"start"}, who : Mate, scope : Scope, run : {"no"}, outcome : {"no"}]
           \cup [kind : {"settle"}, who : Mate, scope : {"none"},
                 run : {"turn", "chat", "any", "restart"}, outcome : {"completed", "failed"}]

\* Whatever is under way ends: a turn still has its run, or what settles it is in the chain.
Settles(m) == \E c \in ToSet(work) : c.kind = "settle" /\ c.who = m /\ c.run # "chat"
TurnsEnd == \A m \in Mate : duty[m].scope # "none" => lost \/ seat[m] = "turn" \/ Settles(m)

\* Whatever could start is about to: a drain is scheduled, or what it sent is in the chain.
OnItsWay(m) == \E c \in ToSet(work) : c.who = m /\ (c.kind = "settle" \/ c.scope \in Startable(m))
Coming(m) == wanted \/ asleep \/ archived \/ lost \/ OnItsWay(m)
TriggersMove == \A m \in Mate : Startable(m) # {} => m \in dead \/ Coming(m)

Moving ==
    /\ work \in Seq(Command)
    /\ \A m \in Mate : seat[m] = "dying" => m \in dead
    /\ seat \in [Mate -> {"no", "turn", "chat", "dying"}]
    /\ TurnsEnd /\ TriggersMove

\* An objection goes with an open issue; a turn on a member that asks for a retry is over.
Objections == \A m \in Mate : stand[m] = "objects" => goal.issue = "open"
RunsClear == \A m \in Mate : duty[m].scope # "none" => attention[m] = "no"

\* Of an open discussion: what a member publishes in a turn on the goal gives it another one,
\* and a member who has not assessed has a turn, asks for a retry or was passed over.
SaidIsTold ==
    \A m \in goal.required : duty[m].scope = "goal" /\ duty[m].said => "goal" \in waiting[m]
Asked(m) ==
    stand[m] # "none" \/ "goal" \in waiting[m] \/ duty[m].scope = "goal" \/ attention[m] # "no"
    \/ m \in missed
OpenKept == OpenGoal => /\ goal.required # {} /\ SaidIsTold /\ \A m \in goal.required : Asked(m)

\* An active discussion is completed as soon as it can be.
Agreed == discussionCanComplete(goal, attention, stand, waiting, duty)
NotForgotten == goal.status = "active" => missed # {} \/ ~Agreed

Pursued ==
    /\ attention \in [Mate -> {"no"} \cup RoomScope]
    /\ Objections /\ RunsClear /\ OpenKept /\ NotForgotten

-----------------------------------------------------------------------------
(* Sequences.                                                              *)

LEMMA OneMore ==
    ASSUME NEW T, NEW s \in Seq(T), NEW x \in T
    PROVE  Append(s, x) \in Seq(T) /\ ToSet(Append(s, x)) = ToSet(s) \cup {x}
  <1>1. /\ Append(s, x) \in Seq(T) /\ DOMAIN Append(s, x) = DOMAIN s \cup {Len(s) + 1}
        /\ \A i \in DOMAIN s : Append(s, x)[i] = s[i]
        /\ Append(s, x)[Len(s) + 1] = x
    OBVIOUS
  <1> HIDE DEF ToSet
  <1>2. PICK t : t = Append(s, x)
    OBVIOUS
  <1>3. /\ DOMAIN t = DOMAIN s \cup {Len(s) + 1} /\ t[Len(s) + 1] = x
        /\ \A i \in DOMAIN s : t[i] = s[i]
    BY <1>1, <1>2
  <1>4. {t[i] : i \in DOMAIN t} = {s[i] : i \in DOMAIN s} \cup {x}
    BY <1>3
  <1> QED
    BY <1>1, <1>2, <1>4 DEF ToSet

LEMMA FirstGone ==
    ASSUME NEW T, NEW s \in Seq(T), s # <<>>
    PROVE  /\ Tail(s) \in Seq(T) /\ Head(s) \in T
           /\ \A x \in ToSet(s) : x = Head(s) \/ x \in ToSet(Tail(s))
  <1>1. /\ Tail(s) \in Seq(T) /\ Head(s) \in T /\ Head(s) = s[1]
        /\ \A i \in DOMAIN s : i # 1 => i - 1 \in DOMAIN Tail(s) /\ s[i] = Tail(s)[i - 1]
    OBVIOUS
  <1> QED
    BY <1>1 DEF ToSet

LEMMA Joined ==
    ASSUME NEW T, NEW s \in Seq(T), NEW t \in Seq(T)
    PROVE  s \o t \in Seq(T) /\ ToSet(s \o t) = ToSet(s) \cup ToSet(t)
  <1>1. /\ s \o t \in Seq(T) /\ DOMAIN s = 1 .. Len(s) /\ DOMAIN t = 1 .. Len(t)
        /\ DOMAIN (s \o t) = 1 .. (Len(s) + Len(t)) /\ Len(s) \in Nat /\ Len(t) \in Nat
        /\ \A i \in 1 .. (Len(s) + Len(t)) :
             (s \o t)[i] = IF i \leq Len(s) THEN s[i] ELSE t[i - Len(s)]
    OBVIOUS
  <1>2. PICK u : u = s \o t
    OBVIOUS
  <1>3. \A i \in DOMAIN u : u[i] \in ToSet(s) \cup ToSet(t)
    <2> TAKE i \in DOMAIN u
    <2>1. CASE i \leq Len(s)
      BY <1>1, <1>2, <2>1 DEF ToSet
    <2>2. CASE ~(i \leq Len(s))
      <3>1. i - Len(s) \in DOMAIN t
        BY <1>1, <1>2, <2>2
      <3> QED
        BY <1>1, <1>2, <2>2, <3>1 DEF ToSet
    <2> QED
      BY <2>1, <2>2
  <1>4. \A i \in DOMAIN s : i \in DOMAIN u /\ u[i] = s[i]
    BY <1>1, <1>2
  <1>5. \A i \in DOMAIN t : i + Len(s) \in DOMAIN u /\ u[i + Len(s)] = t[i]
    BY <1>1, <1>2
  <1>6. ToSet(u) = ToSet(s) \cup ToSet(t)
    BY <1>3, <1>4, <1>5 DEF ToSet
  <1> QED
    BY <1>1, <1>2, <1>6

LEMMA Listed ==
    ASSUME NEW S, IsFiniteSet(S)
    PROVE  SetToSeq(S) \in Seq(S) /\ ToSet(SetToSeq(S)) = S
  <1> DEFINE n == Cardinality(S)
  <1>1. n \in Nat /\ \E f \in [1 .. n -> S] : IsInjective(f)
    BY FS_CardinalityType DEF ExistsBijection, Bijection, Injection
  <1>2. PICK f \in [1 .. n -> S] : f = SetToSeq(S) /\ IsInjective(f)
    BY <1>1 DEF SetToSeq
  <1>3. \A x \in S : \E i \in 1 .. n : f[i] = x
    <2> SUFFICES ASSUME NEW x \in S, \A i \in 1 .. n : f[i] # x PROVE FALSE
      OBVIOUS
    <2>1. f \in [1 .. n -> S \ {x}]
      BY <1>2
    <2>2. IsFiniteSet(S \ {x}) /\ Cardinality(S \ {x}) = n - 1
      BY FS_RemoveElement
    <2>3. IsFiniteSet(1 .. n) /\ Cardinality(1 .. n) = n
      <3>1. n \in Int /\ (1 > n => n = 0)
        BY <1>1
      <3>2. IsFiniteSet(1 .. n) /\ Cardinality(1 .. n) = IF 1 > n THEN 0 ELSE n - 1 + 1
        BY <3>1, FS_Interval
      <3> QED
        BY <1>1, <3>1, <3>2
    <2>4. \E a, b \in 1 .. n : a # b /\ f[a] = f[b]
      <3>1. PICK A, B : A = 1 .. n /\ B = S \ {x}
        OBVIOUS
      <3>2. n - 1 < n
        BY <1>1
      <3>3. IsFiniteSet(A) /\ IsFiniteSet(B) /\ Cardinality(B) < Cardinality(A) /\ f \in [A -> B]
        BY <2>1, <2>2, <2>3, <3>1, <3>2
      <3> HIDE DEF n
      <3>4. \E a, b \in A : a # b /\ f[a] = f[b]
        BY <3>3, FS_PigeonHole
      <3> QED
        BY <3>1, <3>4
    <2> QED
      BY <1>2, <2>4 DEF IsInjective
  <1>4. f \in Seq(S) /\ DOMAIN f = 1 .. n
    BY <1>1, <1>2
  <1>5. {f[i] : i \in DOMAIN f} = S
    BY <1>2, <1>3, <1>4
  <1> QED
    BY <1>2, <1>4, <1>5 DEF ToSet

\* As many commands as there are members, or fewer.
LEMMA OfMembers ==
    ASSUME NEW D \in SUBSET Mate, NEW S, NEW g \in [D -> S], \A x \in S : \E m \in D : g[m] = x
    PROVE  \A R \in SUBSET S : IsFiniteSet(R)
  <1>1. IsFiniteSet(D)
    BY CollaborationAssumption, FS_Subset
  <1>2. g \in Surjection(D, S)
    BY DEF Surjection
  <1>3. IsFiniteSet(S)
    BY <1>1, <1>2, FS_Surjection
  <1> QED
    BY <1>3, FS_Subset

-----------------------------------------------------------------------------
(* The turns and the triggers move.                                        *)

\* A step that schedules a drain, and neither starts a turn nor touches the runs and the chain.
LEMMA RevivedMoves ==
    ASSUME Moving, wanted', UNCHANGED <<seat, dead, work, lost>>,
           \A m \in Mate : duty'[m].scope # "none" => duty[m].scope # "none"
    PROVE  Moving'
BY DEF Moving, TurnsEnd, Settles, TriggersMove, Coming

\* What people and members do to the goal and the messages.
Talk ==
    \/ \E s \in Thread, who \in SUBSET Mate : PersonWritesInRoom(s, who)
    \/ \E issue \in {"none", "open", "resolved"} : PersonWritesInDiscussion(issue)
    \/ \E linked \in BOOLEAN, required \in SUBSET Mate : startDiscussion(linked, required)
    \/ \E required \in SUBSET Mate : reviseDiscussion(required)
    \/ \E raised \in BOOLEAN : resumeDiscussion(raised)
    \/ pauseDiscussion \/ cancelDiscussion \/ archive
    \/ \E m \in Mate, thread \in RoomScope : retryMember(m, thread)
    \/ \E m \in Mate, issue \in {"none", "open", "resolved"} : postInDiscussion(m, issue)
    \/ \E m \in Mate, verdict \in {"satisfied", "objects"} : assess(m, verdict)
    \/ \E m \in Mate : readUpdates(m) \/ postInRoom(m) \/ assessObjecting(m)

\* Turns are not given a scope by them.
SameScopes(d, e) == \A m \in Mate : e[m].scope # "none" => d[m].scope # "none"

LEMMA BehindScopes ==
    ASSUME Shape, NEW who \in SUBSET Mate
    PROVE  SameScopes(duty, Behind(duty, who))
BY BehindType DEF SameScopes

LEMMA TalkScopes ==
    ASSUME Shape, Talk
    PROVE  SameScopes(duty, duty')
  <1>0. duty \in [Mate -> Duties] /\ SameScopes(duty, duty)
    BY DEF Shape, SameScopes
  <1>1. \A m \in Mate : [duty[m] EXCEPT !.read = FALSE].scope = duty[m].scope
    BY <1>0 DEF Duties
  <1>2. \A d \in [Mate -> Duties], n \in Mate :
          /\ SameScopes(d, [d EXCEPT ![n].read = TRUE])
          /\ SameScopes(d, [d EXCEPT ![n].said = TRUE])
          /\ SameScopes(d, [d EXCEPT ![n].assessed = TRUE])
          /\ SameScopes(d, [d EXCEPT ![n].read = TRUE, ![n].said = TRUE])
    BY DEF SameScopes, Duties
  <1>3. \A who \in SUBSET Mate : Behind(duty, who) \in [Mate -> Duties]
                                 /\ SameScopes(duty, Behind(duty, who))
    BY BehindType, BehindScopes
  <1>4. \A d, e, f : SameScopes(d, e) /\ SameScopes(e, f) => SameScopes(d, f)
    BY DEF SameScopes
  <1>5. \A m \in Mate : {m} \in SUBSET Mate /\ {} \in SUBSET Mate
    OBVIOUS
  <1>6. CASE \E s \in Thread, who \in SUBSET Mate : PersonWritesInRoom(s, who)
    BY <1>0, <1>1, <1>6 DEF PersonWritesInRoom, SameScopes
  <1>7. CASE \/ \E issue \in {"none", "open", "resolved"} : PersonWritesInDiscussion(issue)
             \/ \E required \in SUBSET Mate : reviseDiscussion(required)
    BY <1>3, <1>7 DEF PersonWritesInDiscussion, reviseDiscussion
  <1>8. CASE \E linked \in BOOLEAN, required \in SUBSET Mate : startDiscussion(linked, required)
    BY <1>0, <1>8 DEF startDiscussion, SameScopes
  <1>9. CASE \/ \E raised \in BOOLEAN : resumeDiscussion(raised)
             \/ pauseDiscussion \/ cancelDiscussion \/ archive
             \/ \E m \in Mate, thread \in RoomScope : retryMember(m, thread)
    BY <1>0, <1>9 DEF resumeDiscussion, pauseDiscussion, cancelDiscussion, archive, retryMember
  <1>10. CASE \E m \in Mate, issue \in {"none", "open", "resolved"} : postInDiscussion(m, issue)
    <2>1. PICK m \in Mate : duty' = [Behind(duty, {m}) EXCEPT ![m].read = TRUE, ![m].said = TRUE]
      BY <1>10 DEF postInDiscussion
    <2>2. SameScopes(Behind(duty, {m}), duty') /\ SameScopes(duty, Behind(duty, {m}))
      BY <1>2, <1>3, <1>5, <2>1
    <2> QED
      BY <1>4, <2>2
  <1>11. CASE \E m \in Mate, verdict \in {"satisfied", "objects"} : assess(m, verdict)
    BY <1>0, <1>2, <1>11 DEF assess
  <1>12. CASE \E m \in Mate : readUpdates(m)
    BY <1>0, <1>2, <1>12 DEF readUpdates
  <1>13. CASE \E m \in Mate : postInRoom(m)
    <2>1. PICK m \in Mate : \/ duty' = [Behind(duty, {}) EXCEPT ![m].said = TRUE]
                            \/ duty' = [duty EXCEPT ![m].said = TRUE]
      BY <1>13 DEF postInRoom
    <2>2. CASE duty' = [Behind(duty, {}) EXCEPT ![m].said = TRUE]
      <3>1. SameScopes(Behind(duty, {}), duty') /\ SameScopes(duty, Behind(duty, {}))
        BY <1>2, <1>3, <1>5, <2>2
      <3> QED
        BY <1>4, <3>1
    <2>3. CASE duty' = [duty EXCEPT ![m].said = TRUE]
      BY <1>0, <1>2, <2>3
    <2> QED
      BY <2>1, <2>2, <2>3
  <1>14. CASE \E m \in Mate : assessObjecting(m)
    <2>1. PICK m \in Mate : duty' = [Behind(duty, {m}) EXCEPT ![m].assessed = TRUE]
      BY <1>14 DEF assessObjecting
    <2>2. SameScopes(Behind(duty, {m}), duty') /\ SameScopes(duty, Behind(duty, {m}))
      BY <1>2, <1>3, <1>5, <2>1
    <2> QED
      BY <1>4, <2>2
  <1> QED
    BY <1>6, <1>7, <1>8, <1>9, <1>10, <1>11, <1>12, <1>13, <1>14 DEF Talk

LEMMA TalkMoves ==
    ASSUME Shape, Moving, Talk
    PROVE  Moving'
  <1>1. wanted' /\ UNCHANGED <<seat, dead, work, lost>>
    BY DEF Talk, PersonWritesInRoom, PersonWritesInDiscussion, startDiscussion, reviseDiscussion,
       resumeDiscussion, pauseDiscussion, cancelDiscussion, archive, retryMember, postInDiscussion,
       assess, readUpdates, postInRoom, assessObjecting, mayAssess, authenticated, Person, Revive
  <1>2. \A m \in Mate : duty'[m].scope # "none" => duty[m].scope # "none"
    BY TalkScopes DEF SameScopes
  <1> QED
    BY <1>1, <1>2, RevivedMoves

LEMMA ChatMoves ==
    ASSUME Moving, NEW m \in Mate, Chat(m)
    PROVE  Moving'
  <1>1. wanted' /\ UNCHANGED <<duty, dead, work, lost>>
    BY DEF Chat, Person, Revive
  <1>2. seat[m] = "no" /\ seat' = [seat EXCEPT ![m] = "chat"]
    BY DEF Chat
  <1>3. /\ seat' \in [Mate -> {"no", "turn", "chat", "dying"}] /\ seat'[m] = "chat"
        /\ \A n \in Mate : n # m => seat'[n] = seat[n]
    BY <1>2 DEF Moving
  <1>4. TurnsEnd'
    BY <1>1, <1>2, <1>3 DEF Moving, TurnsEnd, Settles
  <1> QED
    BY <1>1, <1>3, <1>4 DEF Moving, TriggersMove, Coming

LEMMA SettlementTyped ==
    ASSUME NEW m \in Mate, NEW run \in {"turn", "chat", "any", "restart"},
           NEW outcome \in {"completed", "failed"}
    PROVE  /\ Settlement(m, run, outcome) \in Command
           /\ Settlement(m, run, outcome).kind = "settle"
           /\ Settlement(m, run, outcome).who = m
           /\ Settlement(m, run, outcome).run = run
BY DEF Settlement, Command

LEMMA RunEndsMoves ==
    ASSUME Moving, NEW m \in Mate,
           killMember(m) \/ \E outcome \in {"completed", "failed"} : RunEnds(m, outcome)
    PROVE  Moving'
  <1> DEFINE Seats == {"no", "turn", "chat", "dying"}
  <1>1. PICK c \in Command :
          /\ c.kind = "settle" /\ c.who = m /\ (seat[m] = "turn" => c.run # "chat")
          /\ work' = Append(work, c)
    <2>1. CASE killMember(m)
      <3>1. work' = Append(work, Settlement(m, "any", "failed"))
        BY <2>1 DEF killMember
      <3> QED
        BY <3>1, SettlementTyped
    <2>2. ASSUME NEW outcome \in {"completed", "failed"}, RunEnds(m, outcome)
          PROVE  \E c \in Command : /\ c.kind = "settle" /\ c.who = m
                                    /\ (seat[m] = "turn" => c.run # "chat")
                                    /\ work' = Append(work, c)
      <3>1. work' = Append(work, Settlement(m, seat[m], outcome)) /\ seat[m] \in {"turn", "chat"}
        BY <2>2 DEF RunEnds
      <3> QED
        BY <3>1, SettlementTyped
    <2> QED
      BY <2>1, <2>2
  <1>2. work' \in Seq(Command) /\ ToSet(work') = ToSet(work) \cup {c}
    BY <1>1, OneMore DEF Moving
  <1>3. UNCHANGED <<duty, lost, goal, waiting, attention>> /\ dead \subseteq dead'
        /\ ((asleep' = asleep /\ wanted' = wanted) \/ wanted') /\ archived' = archived
    BY DEF killMember, RunEnds, Person, Revive
  <1>4. /\ seat' \in [Mate -> Seats]
        /\ \A n \in Mate : n # m => seat'[n] = seat[n]
        /\ seat'[m] = "dying" => m \in dead'
    BY DEF killMember, RunEnds, Moving
  <1>5. TurnsEnd'
    <2> SUFFICES ASSUME NEW n \in Mate, duty[n].scope # "none", ~lost, seat'[n] # "turn"
                 PROVE  Settles(n)'
      BY <1>3 DEF TurnsEnd
    <2>1. CASE Settles(n)
      BY <1>2, <2>1 DEF Settles
    <2>2. CASE seat[n] = "turn"
      BY <1>1, <1>2, <1>4, <2>2 DEF Settles
    <2> QED
      BY <2>1, <2>2 DEF Moving, TurnsEnd
  <1>6. TriggersMove'
    <2> SUFFICES ASSUME NEW n \in Mate, Startable(n)' # {}, n \notin dead' PROVE Coming(n)'
      BY DEF TriggersMove
    <2>1. CASE n = m
      BY <1>1, <1>2, <2>1 DEF Coming, OnItsWay
    <2>2. CASE n # m
      <3>1. Startable(n)' = Startable(n)
        BY <1>3, <1>4, <2>2 DEF Startable
      <3>2. Coming(n)
        BY <1>3, <3>1 DEF Moving, TriggersMove
      <3>3. OnItsWay(n) => OnItsWay(n)'
        BY <1>2, <3>1 DEF OnItsWay
      <3> QED
        BY <1>3, <3>2, <3>3 DEF Coming
    <2> QED
      BY <2>1, <2>2
  <1>7. \A n \in Mate : seat'[n] = "dying" => n \in dead'
    BY <1>3, <1>4 DEF Moving
  <1> QED
    BY <1>2, <1>4, <1>5, <1>6, <1>7 DEF Moving

LEMMA ClosesMoves ==
    ASSUME Moving, NEW m \in Mate, KilledRunCloses(m)
    PROVE  Moving'
  <1>1. UNCHANGED <<duty, lost, goal, waiting, attention, dead, work, wanted, asleep, archived>>
        /\ seat[m] = "dying" /\ seat' = [seat EXCEPT ![m] = "no"]
    BY DEF KilledRunCloses
  <1>2. /\ seat' \in [Mate -> {"no", "turn", "chat", "dying"}] /\ seat'[m] = "no"
        /\ \A n \in Mate : n # m => seat'[n] = seat[n]
    BY <1>1 DEF Moving
  <1>3. TurnsEnd'
    BY <1>1, <1>2 DEF Moving, TurnsEnd, Settles
  <1>4. \A n \in Mate : n # m => Startable(n)' = Startable(n)
    BY <1>1, <1>2 DEF Startable
  <1>5. m \in dead
    BY <1>1 DEF Moving
  <1>6. TriggersMove'
    <2> SUFFICES ASSUME NEW n \in Mate, n # m, Startable(n)' # {}, n \notin dead PROVE Coming(n)'
      BY <1>1, <1>5 DEF TriggersMove
    <2>1. Coming(n)
      BY <1>4 DEF Moving, TriggersMove
    <2> QED
      BY <1>1, <1>4, <2>1 DEF Coming, OnItsWay
  <1>7. \A n \in Mate : seat'[n] = "dying" => n \in dead'
    BY <1>1, <1>2 DEF Moving
  <1> QED
    BY <1>1, <1>2, <1>3, <1>6, <1>7 DEF Moving

LEMMA DrainMoves ==
    ASSUME Shape, Moving, drainTriggers
    PROVE  Moving'
  <1>1. UNCHANGED <<goal, waiting, duty, seat, attention, dead, asleep, archived, lost>>
    BY DEF drainTriggers
  <1>2. \A m \in Mate : Startable(m)' = Startable(m)
    BY <1>1 DEF Startable
  <1>3. CASE asleep \/ archived
    BY <1>1, <1>2, <1>3 DEF drainTriggers, Moving, TurnsEnd, Settles, TriggersMove, Coming, OnItsWay
  <1>4. CASE ~(asleep \/ archived)
    <2> DEFINE D == {m \in Mate : Startable(m) # {}}
    <2>1. PICK choice \in [D -> Scope] :
            /\ \A m \in D : choice[m] \in Startable(m)
            /\ work' = work \o SetToSeq({Start(m, choice[m]) : m \in D} \ ToSet(work))
      BY <1>4 DEF drainTriggers
    <2> DEFINE g == [m \in D |-> Start(m, choice[m])]
               S == {Start(m, choice[m]) : m \in D}
               R == S \ ToSet(work)
    <2>2. IsFiniteSet(R)
      <3>1. g \in [D -> S] /\ (\A x \in S : \E m \in D : g[m] = x) /\ D \in SUBSET Mate
        OBVIOUS
      <3>2. R \in SUBSET S
        OBVIOUS
      <3>3. PICK d, h, u, r : d = D /\ h = g /\ u = S /\ r = R
        OBVIOUS
      <3> HIDE DEF g, S, R, D
      <3>4. d \in SUBSET Mate /\ r \in SUBSET u /\ h \in [d -> u]
            /\ \A x \in u : \E m \in d : h[m] = x
        BY <3>1, <3>2, <3>3
      <3> QED
        BY <3>3, <3>4, OfMembers
    <2>3. S \subseteq Command /\ \A m \in D : Start(m, choice[m]) \in S
      BY <2>1 DEF Start, Command
    <2>4. SetToSeq(R) \in Seq(Command) /\ ToSet(SetToSeq(R)) = R
      <3>1. R \subseteq Command
        BY <2>3
      <3> HIDE DEF R
      <3>2. SetToSeq(R) \in Seq(R) /\ ToSet(SetToSeq(R)) = R
        BY <2>2, Listed
      <3> QED
        BY <3>1, <3>2
    <2>5. work' \in Seq(Command) /\ ToSet(work') = ToSet(work) \cup R
      <3>1. work \in Seq(Command) /\ work' = work \o SetToSeq(R)
        BY <2>1 DEF Moving
      <3> HIDE DEF R
      <3> QED
        BY <2>4, <3>1, Joined
    <2>6. TurnsEnd'
      BY <1>1, <2>5 DEF Moving, TurnsEnd, Settles
    <2>7. TriggersMove'
      <3> SUFFICES ASSUME NEW m \in Mate, Startable(m) # {} PROVE OnItsWay(m)'
        BY <1>2 DEF TriggersMove, Coming
      <3>0. m \in D /\ S \subseteq ToSet(work) \cup R
        OBVIOUS
      <3>1. Start(m, choice[m]) \in ToSet(work')
        <4> HIDE DEF S, R, D
        <4> QED
          BY <2>3, <2>5, <3>0
      <3>2. Start(m, choice[m]).who = m /\ Start(m, choice[m]).scope \in Startable(m)
        BY <2>1 DEF Start
      <3> QED
        BY <1>2, <3>1, <3>2 DEF OnItsWay
    <2> QED
      BY <1>1, <2>5, <2>6, <2>7 DEF Moving
  <1> QED
    BY <1>3, <1>4

\* The first command of the chain is carried out.
LEMMA HeadGone ==
    ASSUME Moving, Next1
    PROVE  /\ Head(work) \in Command /\ Head(work).who \in Mate /\ work' \in Seq(Command)
           /\ \A x \in ToSet(work) : x = Head(work) \/ x \in ToSet(work')
  <1>1. work \in Seq(Command) /\ work # <<>> /\ work' = Tail(work)
    BY DEF Moving, Next1
  <1>2. Head(work) \in Command /\ Tail(work) \in Seq(Command)
        /\ \A x \in ToSet(work) : x = Head(work) \/ x \in ToSet(Tail(work))
    BY <1>1, FirstGone
  <1> QED
    BY <1>1, <1>2 DEF Command

\* A settlement that settles its member, or a command that settles nobody, is out of the chain.
LEMMA TurnsStillEnd ==
    ASSUME Moving, Next1, NEW m \in Mate, Settles(m), Head(work).who = m => Head(work).kind = "start"
    PROVE  Settles(m)'
BY HeadGone DEF Settles

LEMMA SkippedMoves ==
    ASSUME Moving, dispatchTriggerSkipped
    PROVE  Moving'
  <1>1. UNCHANGED <<goal, waiting, duty, seat, attention, dead, wanted, asleep, archived, lost>>
        /\ Next1 /\ Head(work).kind = "start" /\ Skips(Head(work).who, Head(work).scope)
    BY DEF dispatchTriggerSkipped, NextIs
  <1>2. \A m \in Mate : Startable(m)' = Startable(m)
    BY <1>1 DEF Startable
  <1>3. TurnsEnd'
    BY <1>1, TurnsStillEnd DEF Moving, TurnsEnd
  <1>4. TriggersMove'
    <2> SUFFICES ASSUME NEW m \in Mate, Startable(m) # {}, m \notin dead PROVE Coming(m)'
      BY <1>1, <1>2 DEF TriggersMove
    <2>1. Coming(m)
      BY DEF Moving, TriggersMove
    <2>2. CASE OnItsWay(m)
      <3>1. PICK c \in ToSet(work) : c.who = m /\ (c.kind = "settle" \/ c.scope \in Startable(m))
        BY <2>2 DEF OnItsWay
      <3>2. CASE c = Head(work)
        BY <1>1, <3>1, <3>2 DEF Skips, Coming
      <3>3. CASE c \in ToSet(work')
        BY <1>2, <3>1, <3>3 DEF Coming, OnItsWay
      <3> QED
        BY <1>1, <3>1, <3>2, <3>3, HeadGone
    <2> QED
      BY <1>1, <2>1, <2>2 DEF Coming
  <1> QED
    BY <1>1, <1>3, <1>4, HeadGone DEF Moving

LEMMA CappedMoves ==
    ASSUME Moving, dispatchTriggerCapped
    PROVE  Moving'
  <1>1. UNCHANGED <<duty, seat, dead, lost>> /\ wanted' /\ Next1 /\ Head(work).kind = "start"
    BY DEF dispatchTriggerCapped, NextIs, Changed
  <1>2. TurnsEnd'
    BY <1>1, TurnsStillEnd DEF Moving, TurnsEnd
  <1> QED
    BY <1>1, <1>2, HeadGone DEF Moving, TriggersMove, Coming

LEMMA DispatchMoves ==
    ASSUME Moving, NEW starts \in BOOLEAN, dispatchTrigger(starts)
    PROVE  Moving'
  <1>1. UNCHANGED <<dead, lost>> /\ wanted' /\ Next1 /\ Head(work).kind = "start"
    BY DEF dispatchTrigger, NextIs, Changed
  <1>2. PICK m : m = Head(work).who
    OBVIOUS
  <1>3. m \in Mate
    BY <1>1, <1>2, HeadGone
  <1>4. /\ seat' \in [Mate -> {"no", "turn", "chat", "dying"}]
        /\ \A n \in Mate : seat'[n] = seat[n] \/ seat'[n] = "turn"
        /\ \A n \in Mate : (duty'[n] = duty[n] /\ seat'[n] = seat[n]) \/ seat'[n] = "turn"
    <2>1. CASE starts
      <3>1. seat' = [seat EXCEPT ![m] = "turn"]
            /\ duty' = [duty EXCEPT ![m] = [NoDuty EXCEPT !.scope = Head(work).scope]]
        BY <1>2, <2>1 DEF dispatchTrigger
      <3>2. seat \in [Mate -> {"no", "turn", "chat", "dying"}]
        BY DEF Moving
      <3> QED
        BY <1>3, <3>1, <3>2
    <2>2. CASE ~starts
      BY <2>2 DEF dispatchTrigger, Moving
    <2> QED
      BY <2>1, <2>2
  <1>5. TurnsEnd'
    <2> SUFFICES ASSUME NEW n \in Mate, duty[n].scope # "none", ~lost, seat[n] # "turn"
                 PROVE  Settles(n)'
      BY <1>1, <1>4 DEF TurnsEnd
    <2> QED
      BY <1>1, TurnsStillEnd DEF Moving, TurnsEnd
  <1>6. \A n \in Mate : seat'[n] = "dying" => n \in dead'
    BY <1>1, <1>4 DEF Moving
  <1> QED
    BY <1>1, <1>4, <1>5, <1>6, HeadGone DEF Moving, TriggersMove, Coming

LEMMA SettledMoves ==
    ASSUME Shape, Moving, settled \/ settledIgnored
    PROVE  Moving'
  <1>1. UNCHANGED <<seat, dead, lost>> /\ wanted' /\ Next1 /\ Head(work).kind = "settle"
    BY DEF settled, settledIgnored, NextIs, Changed
  <1>2. PICK m : m = Head(work).who
    OBVIOUS
  <1>3. m \in Mate
    BY <1>1, <1>2, HeadGone
  <1>4. /\ \A n \in Mate : n # m => duty'[n] = duty[n]
        /\ duty'[m].scope # "none" => duty' = duty /\ Head(work).run = "chat"
    <2>1. CASE settled
      <3>1. duty' = [duty EXCEPT ![m] = NoDuty] /\ NoDuty.scope = "none"
        BY <1>2, <2>1 DEF settled, NoDuty
      <3> QED
        BY <1>3, <3>1 DEF Shape
    <2>2. CASE settledIgnored
      BY <1>2, <2>2 DEF settledIgnored, ForDuty
    <2> QED
      BY <2>1, <2>2
  <1>5. TurnsEnd'
    <2> SUFFICES ASSUME NEW n \in Mate, duty'[n].scope # "none", ~lost, seat[n] # "turn"
                 PROVE  Settles(n)'
      BY <1>1 DEF TurnsEnd
    <2>1. duty'[n] = duty[n]
      BY <1>4
    <2>2. PICK c \in ToSet(work) : c.kind = "settle" /\ c.who = n /\ c.run # "chat"
      BY <2>1 DEF Moving, TurnsEnd, Settles
    <2>3. c # Head(work)
      BY <1>2, <1>4, <2>2
    <2> QED
      BY <1>1, <2>2, <2>3, HeadGone DEF Settles
  <1> QED
    BY <1>1, <1>5, HeadGone DEF Moving, TriggersMove, Coming

LEMMA LostMoves ==
    ASSUME Moving, WorkLost
    PROVE  Moving'
  <1>1. Next1 /\ lost' /\ UNCHANGED <<seat, dead>>
    BY DEF WorkLost
  <1> QED
    BY <1>1, HeadGone DEF Moving, TurnsEnd, TriggersMove, Coming

LEMMA KillAllMoves ==
    ASSUME Moving, killAllMembers
    PROVE  Moving'
  <1> DEFINE K == {m \in Mate : seat[m] \in {"turn", "chat"}}
             S == {Settlement(m, "any", "failed") : m \in K}
  <1>1. UNCHANGED <<duty, lost>> /\ asleep' /\ dead' = dead \cup K
        /\ seat' = [m \in Mate |-> IF m \in K THEN "dying" ELSE seat[m]]
        /\ work' = work \o SetToSeq(S)
    BY DEF killAllMembers
  <1>2. IsFiniteSet(S)
    <2> DEFINE g == [m \in K |-> Settlement(m, "any", "failed")]
    <2>1. g \in [K -> S] /\ (\A x \in S : \E m \in K : g[m] = x) /\ K \in SUBSET Mate
      OBVIOUS
    <2>2. PICK d, h, u : d = K /\ h = g /\ u = S
      OBVIOUS
    <2> HIDE DEF g, S, K
    <2>3. d \in SUBSET Mate /\ u \in SUBSET u /\ h \in [d -> u] /\ \A x \in u : \E m \in d : h[m] = x
      BY <2>1, <2>2
    <2> QED
      BY <2>2, <2>3, OfMembers
  <1>3. S \subseteq Command /\ \A m \in K : Settlement(m, "any", "failed") \in S
    BY SettlementTyped
  <1>4. work' \in Seq(Command) /\ ToSet(work') = ToSet(work) \cup S
    <2> HIDE DEF S, K
    <2>1. SetToSeq(S) \in Seq(S) /\ ToSet(SetToSeq(S)) = S
      BY <1>2, Listed
    <2>2. SetToSeq(S) \in Seq(Command)
      BY <1>3, <2>1
    <2>3. work \in Seq(Command)
      BY DEF Moving
    <2> QED
      BY <1>1, <2>1, <2>2, <2>3, Joined
  <1>5. \A m \in K : Settles(m)'
    <2> TAKE m \in K
    <2>1. Settlement(m, "any", "failed") \in ToSet(work')
      BY <1>3, <1>4
    <2> QED
      BY <2>1, SettlementTyped DEF Settles
  <1>6. TurnsEnd'
    <2> SUFFICES ASSUME NEW m \in Mate, duty[m].scope # "none", ~lost, m \notin K PROVE Settles(m)'
      BY <1>1, <1>5 DEF TurnsEnd
    <2>1. Settles(m)
      BY DEF Moving, TurnsEnd
    <2> HIDE DEF S
    <2> QED
      BY <1>4, <2>1 DEF Settles
  <1>7. /\ seat' \in [Mate -> {"no", "turn", "chat", "dying"}]
        /\ \A m \in Mate : seat'[m] = "dying" => m \in dead'
    BY <1>1 DEF Moving
  <1> HIDE DEF S, K
  <1> QED
    BY <1>1, <1>4, <1>6, <1>7 DEF Moving, TriggersMove, Coming

LEMMA RecoverMoves ==
    ASSUME Shape, Moving, recoverTurns
    PROVE  Moving'
  <1> DEFINE K == {m \in Mate : duty[m].scope # "none"}
             Fate(m) == IF endedAs[m] = "completed" /\ seat[m] = "no" /\ m \notin dead
                        THEN "completed" ELSE "failed"
             S == {Settlement(m, "restart", Fate(m)) : m \in K}
  <1>1. UNCHANGED <<duty, dead>> /\ wanted' /\ work' = SetToSeq(S)
    BY DEF recoverTurns
  <1>2. IsFiniteSet(S)
    <2> DEFINE g == [m \in K |-> Settlement(m, "restart", Fate(m))]
    <2>1. g \in [K -> S] /\ (\A x \in S : \E m \in K : g[m] = x) /\ K \in SUBSET Mate
      OBVIOUS
    <2>2. PICK d, h, u : d = K /\ h = g /\ u = S
      OBVIOUS
    <2> HIDE DEF g, S, K
    <2>3. d \in SUBSET Mate /\ u \in SUBSET u /\ h \in [d -> u] /\ \A x \in u : \E m \in d : h[m] = x
      BY <2>1, <2>2
    <2> QED
      BY <2>2, <2>3, OfMembers
  <1>3. S \subseteq Command /\ \A m \in K : Settlement(m, "restart", Fate(m)) \in S
    BY SettlementTyped
  <1>4. work' \in Seq(Command) /\ ToSet(work') = S
    <2> HIDE DEF S, K
    <2>1. SetToSeq(S) \in Seq(S) /\ ToSet(SetToSeq(S)) = S
      BY <1>2, Listed
    <2> QED
      BY <1>1, <1>3, <2>1
  <1>5. TurnsEnd'
    <2> SUFFICES ASSUME NEW m \in K PROVE Settles(m)'
      BY <1>1 DEF TurnsEnd
    <2>1. Settlement(m, "restart", Fate(m)) \in ToSet(work') /\ Fate(m) \in {"completed", "failed"}
      BY <1>3, <1>4
    <2> HIDE DEF Fate
    <2> QED
      BY <2>1, SettlementTyped DEF Settles
  <1>6. /\ seat' \in [Mate -> {"no", "turn", "chat", "dying"}]
        /\ \A m \in Mate : seat'[m] # "dying"
    BY DEF recoverTurns
  <1> HIDE DEF S, K
  <1> QED
    BY <1>1, <1>4, <1>5, <1>6 DEF Moving, TriggersMove, Coming

-----------------------------------------------------------------------------
(* The goal is pursued.                                                    *)

\* New evidence: every required member has a turn to come.
LEMMA EvidencePursued ==
    ASSUME Pursued, UNCHANGED attention, goal' \in Goals, goal'.required # {},
           \A m \in Mate : stand'[m] = "none",
           \A m \in goal'.required : "goal" \in waiting'[m],
           \A m \in Mate : duty'[m].scope # "none" => duty[m].scope # "none"
    PROVE  Pursued'
  <1>1. goal'.required \subseteq Mate
    BY DEF Goals
  <1>2. Objections' /\ RunsClear' /\ SaidIsTold' /\ (\A m \in goal'.required : Asked(m)')
    BY <1>1 DEF Pursued, Objections, RunsClear, SaidIsTold, Asked
  <1>3. ~Agreed'
    BY <1>1 DEF Agreed, discussionCanComplete
  <1> QED
    BY <1>2, <1>3 DEF Pursued, OpenKept, NotForgotten

\* Nothing that counts changes, but that a member has more to do.
LEMMA MorePursued ==
    ASSUME Pursued, UNCHANGED <<goal, stand, attention, missed>>, goal \in Goals,
           \A m \in Mate :
             /\ waiting[m] \subseteq waiting'[m] /\ duty'[m].scope = duty[m].scope
             /\ duty'[m].scope = "goal" => duty'[m].said = duty[m].said
    PROVE  Pursued'
  <1>1. goal.required \subseteq Mate
    BY DEF Goals
  <1>2. Objections' /\ RunsClear'
    BY DEF Pursued, Objections, RunsClear
  <1>3. OpenKept'
    BY <1>1 DEF Pursued, OpenKept, OpenGoal, SaidIsTold, Asked
  <1>4. Agreed' => Agreed
    BY <1>1 DEF Agreed, discussionCanComplete, discussionHasAttention
  <1> QED
    BY <1>2, <1>3, <1>4 DEF Pursued, NotForgotten

\* The discussion is no longer active.
LEMMA InactivePursued ==
    ASSUME Pursued, UNCHANGED <<stand, duty, attention, missed>>,
           goal'.issue = goal.issue, goal'.status # "active",
           \/ goal'.status \notin {"active", "paused"}
           \/ OpenGoal /\ goal'.required = goal.required /\ UNCHANGED waiting
    PROVE  Pursued'
  <1>1. Objections' /\ RunsClear'
    BY DEF Pursued, Objections, RunsClear
  <1>2. OpenKept'
    BY DEF Pursued, OpenKept, OpenGoal, SaidIsTold, Asked
  <1> QED
    BY <1>1, <1>2 DEF Pursued, NotForgotten

LEMMA NotifiedMembers ==
    ASSUME Shape, NEW who \in SUBSET Mate
    PROVE  \A m \in Mate : /\ waiting[m] \subseteq NotifyDiscussion(waiting, who)[m]
                           /\ m \in goal.required \ who => "goal" \in NotifyDiscussion(waiting, who)[m]
BY DEF NotifyDiscussion, Shape

LEMMA EvidenceSteps ==
    ASSUME Informed, Informed', Pursued, Talk,
           \/ \E issue \in {"none", "open", "resolved"} : PersonWritesInDiscussion(issue)
           \/ \E linked \in BOOLEAN, required \in SUBSET Mate : startDiscussion(linked, required)
           \/ \E required \in SUBSET Mate : reviseDiscussion(required)
           \/ \E m \in Mate, issue \in {"none", "open", "resolved"} : postInDiscussion(m, issue)
           \/ \E s \in Thread, who \in SUBSET Mate : PersonWritesInRoom(s, who) /\ LinkedTo(s)
           \/ \E m \in Mate : postInRoom(m) /\ LinkedTo(duty[m].scope)
    PROVE  Pursued'
  <1>0. Shape /\ goal \in Goals /\ goal.required \subseteq Mate /\ {} \in SUBSET Mate
        /\ goal' \in Goals /\ goal'.required \subseteq Mate
    BY DEF Informed, Shape, Goals
  <1>1. \A m \in Mate : duty'[m].scope # "none" => duty[m].scope # "none"
    BY <1>0, TalkScopes DEF SameScopes
  <1>2. \A m \in Mate : m \in goal.required => "goal" \in NotifyDiscussion(waiting, {})[m]
    BY <1>0, NotifiedMembers
  <1>3. \A required \in SUBSET Mate : Cardinality(required) \geq 2 => required # {}
    BY FS_EmptySet
  <1>4. UNCHANGED attention /\ \A m \in Mate : stand'[m] = "none"
    BY DEF PersonWritesInDiscussion, startDiscussion, reviseDiscussion, postInDiscussion,
       PersonWritesInRoom, postInRoom, Outdated
  <1>5. CASE \/ \E issue \in {"none", "open", "resolved"} : PersonWritesInDiscussion(issue)
             \/ \E m \in Mate, issue \in {"none", "open", "resolved"} : postInDiscussion(m, issue)
             \/ \E m \in Mate : postInRoom(m) /\ LinkedTo(duty[m].scope)
    <2>1. OpenGoal /\ waiting' = NotifyDiscussion(waiting, {})
      BY <1>5 DEF PersonWritesInDiscussion, postInDiscussion, postInRoom, LinkedTo
    <2>2. goal'.required = goal.required
      BY <1>0, <1>5 DEF PersonWritesInDiscussion, postInDiscussion, postInRoom, Goals
    <2>3. goal.required # {}
      BY <2>1 DEF Pursued, OpenKept
    <2> QED
      BY <1>0, <1>1, <1>2, <1>4, <2>1, <2>2, <2>3, EvidencePursued
  <1>6. CASE \E s \in Thread, who \in SUBSET Mate : PersonWritesInRoom(s, who) /\ LinkedTo(s)
    <2>1. goal' = goal /\ OpenGoal /\ \A m \in goal.required : "goal" \in waiting'[m]
      BY <1>0, <1>6 DEF PersonWritesInRoom, LinkedTo
    <2>2. goal.required # {}
      BY <2>1 DEF Pursued, OpenKept
    <2> QED
      BY <1>0, <1>1, <1>4, <2>1, <2>2, EvidencePursued
  <1>7. CASE \E linked \in BOOLEAN, required \in SUBSET Mate : startDiscussion(linked, required)
    <2>1. goal'.required # {} /\ \A m \in goal'.required : "goal" \in waiting'[m]
      BY <1>0, <1>3, <1>7 DEF startDiscussion
    <2> QED
      BY <1>0, <1>1, <1>4, <2>1, EvidencePursued
  <1>8. CASE \E required \in SUBSET Mate : reviseDiscussion(required)
    <2>1. PICK required \in SUBSET Mate : reviseDiscussion(required)
      BY <1>8
    <2>2. goal' = [goal EXCEPT !.required = required] /\ Cardinality(required) \geq 2
      BY <2>1 DEF reviseDiscussion
    <2>3. goal'.required = required
      BY <1>0, <2>2 DEF Goals
    <2>4. \A m \in required : "goal" \in waiting'[m]
      BY <2>1 DEF reviseDiscussion
    <2> QED
      BY <1>0, <1>1, <1>3, <1>4, <2>2, <2>3, <2>4, EvidencePursued
  <1> QED
    BY <1>5, <1>6, <1>7, <1>8

LEMMA MoreSteps ==
    ASSUME Informed, Pursued,
           \/ \E s \in Thread, who \in SUBSET Mate : PersonWritesInRoom(s, who) /\ ~LinkedTo(s)
           \/ \E m \in Mate : postInRoom(m) /\ ~LinkedTo(duty[m].scope)
           \/ \E m \in Mate : readUpdates(m)
    PROVE  Pursued'
  <1>0. Shape /\ goal \in Goals /\ duty \in [Mate -> Duties] /\ waiting \in [Mate -> SUBSET Scope]
    BY DEF Informed, Shape
  <1>1. UNCHANGED <<goal, stand, attention, missed>>
    BY DEF PersonWritesInRoom, postInRoom, readUpdates
  <1>2. \A m \in Mate : waiting[m] \subseteq waiting'[m]
    <2>1. CASE \E s \in Thread, who \in SUBSET Mate : PersonWritesInRoom(s, who) /\ ~LinkedTo(s)
      BY <1>0, <2>1 DEF PersonWritesInRoom
    <2>2. CASE \/ \E m \in Mate : postInRoom(m) /\ ~LinkedTo(duty[m].scope)
               \/ \E m \in Mate : readUpdates(m)
      BY <2>2 DEF postInRoom, readUpdates
    <2> QED
      BY <2>1, <2>2
  <1>3. \A m \in Mate : /\ duty'[m].scope = duty[m].scope
                        /\ duty'[m].scope = "goal" => duty'[m].said = duty[m].said
    <2>1. CASE \E s \in Thread, who \in SUBSET Mate : PersonWritesInRoom(s, who) /\ ~LinkedTo(s)
      <3>1. \A m \in Mate : duty'[m] = duty[m] \/ duty'[m] = [duty[m] EXCEPT !.read = FALSE]
        BY <1>0, <2>1 DEF PersonWritesInRoom
      <3>2. \A m \in Mate : /\ [duty[m] EXCEPT !.read = FALSE].scope = duty[m].scope
                            /\ [duty[m] EXCEPT !.read = FALSE].said = duty[m].said
        BY <1>0 DEF Duties
      <3> QED
        BY <3>1, <3>2
    <2>2. ASSUME NEW m \in Mate, postInRoom(m) /\ ~LinkedTo(duty[m].scope)
          PROVE  \A n \in Mate : /\ duty'[n].scope = duty[n].scope
                                 /\ duty'[n].scope = "goal" => duty'[n].said = duty[n].said
      <3>1. duty' = [duty EXCEPT ![m].said = TRUE] /\ duty[m].scope # "goal"
        BY <2>2 DEF postInRoom, RoomScope
      <3> QED
        BY <1>0, <3>1 DEF Duties
    <2>3. ASSUME NEW m \in Mate, readUpdates(m)
          PROVE  \A n \in Mate : /\ duty'[n].scope = duty[n].scope
                                 /\ duty'[n].scope = "goal" => duty'[n].said = duty[n].said
      <3>1. duty' = [duty EXCEPT ![m].read = TRUE]
        BY <2>3 DEF readUpdates
      <3> QED
        BY <1>0, <3>1 DEF Duties
    <2> QED
      BY <2>1, <2>2, <2>3
  <1> QED
    BY <1>0, <1>1, <1>2, <1>3, MorePursued

LEMMA AssessPursued ==
    ASSUME Informed, Pursued, NEW m \in Mate, NEW verdict \in {"satisfied", "objects"},
           assess(m, verdict)
    PROVE  Pursued'
  <1>0. goal \in Goals /\ goal.required \subseteq Mate
    BY DEF Informed, Shape, Goals
  <1>1. /\ UNCHANGED <<goal, waiting, attention, missed>> /\ duty[m].scope = "goal"
        /\ OpenGoal /\ m \in goal.required /\ (verdict = "objects" => goal.issue = "open")
    BY DEF assess, mayAssess
  <1>2. \A n \in Mate : stand'[n] = IF n = m THEN verdict ELSE stand[n]
    BY DEF assess, Informed, Shape
  <1>3. \A n \in Mate : duty'[n].scope = duty[n].scope /\ duty'[n].said = duty[n].said
    BY DEF assess, Informed, Shape, Duties
  <1>4. ~Agreed'
    BY <1>1, <1>3 DEF Agreed, discussionCanComplete
  <1>5. Objections' /\ RunsClear'
    BY <1>1, <1>2, <1>3 DEF Pursued, Objections, RunsClear
  <1>6. OpenKept'
    BY <1>0, <1>1, <1>2, <1>3 DEF Pursued, OpenKept, OpenGoal, SaidIsTold, Asked
  <1> QED
    BY <1>1, <1>4, <1>5, <1>6 DEF Pursued, NotForgotten

LEMMA ObjectPursued ==
    ASSUME Informed, Pursued, NEW m \in Mate, assessObjecting(m)
    PROVE  Pursued'
  <1>0. Shape /\ goal \in Goals /\ goal.required \subseteq Mate /\ {m} \in SUBSET Mate
    BY DEF Informed, Shape, Goals
  <1>1. /\ UNCHANGED attention /\ OpenGoal /\ m \in goal.required /\ duty[m].scope = "goal"
        /\ goal' = [goal EXCEPT !.issue = "open"]
        /\ stand' = [Outdated EXCEPT ![m] = "objects"]
        /\ waiting' = NotifyDiscussion(waiting, {m})
        /\ duty' = [Behind(duty, {m}) EXCEPT ![m].assessed = TRUE]
    BY DEF assessObjecting, mayAssess
  <1>2. goal'.required = goal.required /\ goal'.status = goal.status /\ goal'.issue = "open"
    BY <1>0, <1>1 DEF Goals
  <1>3. /\ stand'[m] = "objects" /\ \A n \in Mate : waiting[n] \subseteq waiting'[n]
        /\ \A n \in goal.required : n # m => "goal" \in waiting'[n]
    BY <1>0, <1>1, NotifiedMembers DEF Outdated
  <1>4. \A n \in Mate : duty'[n].scope = duty[n].scope /\ (n = m => duty'[n].said = duty[n].said)
    <2>1. PICK d : d = Behind(duty, {m})
      OBVIOUS
    <2>2. d \in [Mate -> Duties] /\ (\A n \in Mate : d[n].scope = duty[n].scope) /\ d[m] = duty[m]
      BY <1>0, <2>1, BehindType
    <2>3. duty' = [d EXCEPT ![m].assessed = TRUE]
      BY <1>1, <2>1
    <2> QED
      BY <2>2, <2>3 DEF Duties
  <1>5. ~Agreed'
    BY <1>2 DEF Agreed, discussionCanComplete
  <1>6. Objections' /\ RunsClear'
    BY <1>1, <1>2, <1>4 DEF Pursued, Objections, RunsClear
  <1>7. OpenKept'
    <2>1. goal'.required # {} /\ SaidIsTold
      BY <1>1, <1>2 DEF Pursued, OpenKept
    <2>2. \A n \in goal.required : duty'[n].scope = "goal" /\ duty'[n].said => "goal" \in waiting'[n]
      BY <1>0, <1>3, <1>4, <2>1 DEF SaidIsTold
    <2>3. \A n \in goal.required : Asked(n)'
      BY <1>0, <1>3 DEF Asked
    <2> QED
      BY <1>2, <2>1, <2>2, <2>3 DEF OpenKept, SaidIsTold
  <1> QED
    BY <1>1, <1>5, <1>6, <1>7 DEF Pursued, NotForgotten

LEMMA RetryPursued ==
    ASSUME Informed, Pursued, NEW m \in Mate, NEW thread \in RoomScope, retryMember(m, thread)
    PROVE  Pursued'
  <1> DEFINE ofGoal == OpenGoal /\ (thread = "plain" \/ LinkedTo(thread))
             scope == IF ofGoal /\ m \in goal.required THEN "goal" ELSE thread
  <1>0. goal \in Goals /\ goal.required \subseteq Mate /\ waiting \in [Mate -> SUBSET Scope]
    BY DEF Informed, Shape, Goals
  <1>1. /\ UNCHANGED <<goal, stand, duty>> /\ attention[m] # "no"
        /\ thread = attention[m] \/ thread # "plain"
        /\ attention' = [attention EXCEPT ![m] = "no"]
        /\ waiting' = [waiting EXCEPT ![m] = @ \cup {scope}]
        /\ missed' = IF OpenGoal /\ (m \in goal.required \/ LinkedTo(attention[m])) /\ ~ofGoal
                     THEN missed \cup {m} ELSE missed
    BY DEF retryMember
  <1>2. /\ attention' \in [Mate -> {"no"} \cup RoomScope]
        /\ attention'[m] = "no" /\ \A n \in Mate : n # m => attention'[n] = attention[n]
    BY <1>1 DEF Pursued
  <1>3. /\ scope \in waiting'[m] /\ missed \subseteq missed'
        /\ \A n \in Mate : waiting[n] \subseteq waiting'[n]
    <2> HIDE DEF scope
    <2> QED
      BY <1>0, <1>1
  <1>4. Objections' /\ RunsClear'
    BY <1>1, <1>2 DEF Pursued, Objections, RunsClear
  <1>5. OpenKept'
    <2> SUFFICES ASSUME OpenGoal PROVE goal.required # {} /\ SaidIsTold' /\ \A n \in goal.required : Asked(n)'
      BY <1>1 DEF OpenKept, OpenGoal
    <2>1. goal.required # {} /\ SaidIsTold /\ \A n \in goal.required : Asked(n)
      BY DEF Pursued, OpenKept
    <2>2. SaidIsTold'
      BY <1>0, <1>1, <1>3, <2>1 DEF SaidIsTold
    <2>3. ASSUME NEW n \in goal.required PROVE Asked(n)'
      <3>1. CASE n # m
        BY <1>0, <1>1, <1>2, <1>3, <2>1, <3>1 DEF Asked
      <3>2. CASE n = m /\ ofGoal
        BY <1>3, <3>2 DEF Asked
      <3>3. CASE n = m /\ ~ofGoal
        BY <1>1, <3>3 DEF Asked
      <3> QED
        BY <3>1, <3>2, <3>3
    <2> QED
      BY <2>1, <2>2, <2>3
  <1>6. NotForgotten'
    <2> SUFFICES ASSUME goal.status = "active", missed' = {}, Agreed' PROVE FALSE
      BY <1>1 DEF NotForgotten
    <2>1. OpenGoal /\ missed = {} /\ ~Agreed
      BY <1>3 DEF OpenGoal, Pursued, NotForgotten
    <2>2. ofGoal \/ ~(m \in goal.required \/ LinkedTo(attention[m]))
      BY <1>1, <2>1
    <2>3. CASE m \in goal.required
      <3>1. "goal" \in waiting'[m]
        BY <1>3, <2>2, <2>3
      <3> QED
        BY <1>1, <2>3, <3>1 DEF Agreed, discussionCanComplete
    <2>4. CASE m \notin goal.required /\ LinkedTo(attention[m])
      <3>1. LinkedTo(thread) /\ thread = "source" /\ scope = "source" /\ goal.linked
        BY <1>1, <2>2, <2>4 DEF LinkedTo
      <3> HIDE DEF scope
      <3> QED
        BY <1>1, <1>3, <3>1 DEF Agreed, discussionCanComplete
    <2>5. CASE m \notin goal.required /\ ~LinkedTo(attention[m])
      <3>1. discussionHasAttention(goal, attention) => discussionHasAttention(goal, attention')
        BY <1>2, <2>1, <2>5 DEF discussionHasAttention, LinkedTo
      <3> QED
        BY <1>0, <1>1, <1>3, <2>1, <3>1 DEF Agreed, discussionCanComplete
    <2> QED
      BY <2>3, <2>4, <2>5
  <1> QED
    BY <1>2, <1>4, <1>5, <1>6 DEF Pursued

\* A goal that is still active after the check cannot be completed.
LEMMA Rechecked ==
    ASSUME NEW g \in Goals, NEW att, NEW sta, NEW wai, NEW dut
    PROVE  LET h == Completed(g, att, sta, wai, dut) IN
           /\ h.required = g.required /\ h.issue = g.issue /\ h.status \in {g.status, "completed"}
           /\ h.status = "active" => h = g /\ ~discussionCanComplete(h, att, sta, wai, dut)
  <1>1. CASE discussionCanComplete(g, att, sta, wai, dut)
    <2>1. PICK h : h = [g EXCEPT !.status = "completed"]
      OBVIOUS
    <2>2. h.required = g.required /\ h.issue = g.issue /\ h.status = "completed"
      BY <2>1 DEF Goals
    <2> QED
      BY <1>1, <2>1, <2>2 DEF Completed
  <1>2. CASE ~discussionCanComplete(g, att, sta, wai, dut)
    BY <1>2 DEF Completed
  <1> QED
    BY <1>1, <1>2

LEMMA InactiveSteps ==
    ASSUME Informed, Pursued,
           pauseDiscussion \/ cancelDiscussion \/ archive \/ dispatchTriggerCapped
    PROVE  Pursued'
  <1>0. goal \in Goals
    BY DEF Informed, Shape
  <1>1. UNCHANGED <<stand, duty, attention, missed>>
    BY DEF pauseDiscussion, cancelDiscussion, archive, dispatchTriggerCapped
  <1>2. CASE pauseDiscussion
    BY <1>0, <1>1, <1>2, InactivePursued DEF pauseDiscussion, Goals
  <1>3. CASE cancelDiscussion
    BY <1>0, <1>1, <1>3, InactivePursued DEF cancelDiscussion, Goals
  <1>4. CASE archive
    <2>1. CASE goal' = goal
      BY <1>0, <1>1, <1>4, <2>1, MorePursued DEF archive
    <2>2. CASE goal.status = "active" /\ goal' = [goal EXCEPT !.status = "paused"]
      BY <1>0, <1>1, <1>4, <2>2, InactivePursued DEF archive, Goals, OpenGoal
    <2> QED
      BY <1>4, <2>1, <2>2 DEF archive
  <1>5. CASE dispatchTriggerCapped
    <2>1. goal.status = "active" /\ goal' = [goal EXCEPT !.status = "paused"] /\ UNCHANGED waiting
      BY <1>5 DEF dispatchTriggerCapped, Skips, Startable, Capped
    <2> QED
      BY <1>0, <1>1, <2>1, InactivePursued DEF Goals, OpenGoal
  <1> QED
    BY <1>2, <1>3, <1>4, <1>5

LEMMA ResumePursued ==
    ASSUME Informed, Pursued, NEW raised \in BOOLEAN, resumeDiscussion(raised)
    PROVE  Pursued'
  <1>0. goal \in Goals
    BY DEF Informed, Shape
  <1>1. OpenGoal /\ UNCHANGED <<stand, waiting, duty, attention, missed>>
    BY DEF resumeDiscussion
  <1>2. PICK g \in Goals :
          /\ g.required = goal.required /\ g.issue = goal.issue /\ g.status = "active"
          /\ goal' = Completed(g, attention, stand, waiting, duty)
    <2>1. PICK l \in 0 .. TurnCap : l = IF raised THEN TurnCap ELSE goal.left
      BY <1>0, CollaborationAssumption DEF Goals
    <2>2. PICK g : g = [goal EXCEPT !.status = "active", !.left = l]
      OBVIOUS
    <2>3. g \in Goals /\ g.required = goal.required /\ g.issue = goal.issue /\ g.status = "active"
      BY <1>0, <2>2 DEF Goals
    <2>4. goal' = Completed(g, attention, stand, waiting, duty)
      BY <2>1, <2>2 DEF resumeDiscussion
    <2> QED
      BY <2>3, <2>4
  <1>3. /\ goal'.required = goal.required /\ goal'.issue = goal.issue
        /\ goal'.status \in {"active", "completed"}
        /\ goal'.status = "active" =>
             ~discussionCanComplete(goal', attention, stand, waiting, duty)
    BY <1>2, Rechecked
  <1>4. CASE goal'.status # "active"
    BY <1>1, <1>3, <1>4, InactivePursued
  <1>5. CASE goal'.status = "active"
    <2>1. ~Agreed'
      BY <1>1, <1>3, <1>5 DEF Agreed
    <2>2. Objections' /\ RunsClear'
      BY <1>1, <1>3 DEF Pursued, Objections, RunsClear
    <2>3. OpenKept'
      BY <1>1, <1>3 DEF Pursued, OpenKept, SaidIsTold, Asked
    <2> QED
      BY <1>1, <2>1, <2>2, <2>3 DEF Pursued, NotForgotten
  <1> QED
    BY <1>4, <1>5

LEMMA ThreadTyped ==
    ASSUME NEW s
    PROVE  ThreadOf(s) \in RoomScope /\ ThreadOf(s) # "no" /\ (s = "source" => ThreadOf(s) = "source")
BY DEF ThreadOf, RoomScope

LEMMA DispatchPursued ==
    ASSUME Informed, Moving, Pursued, NEW starts \in BOOLEAN, dispatchTrigger(starts)
    PROVE  Pursued'
  <1>0. /\ goal \in Goals /\ goal.required \subseteq Mate
        /\ waiting \in [Mate -> SUBSET Scope] /\ duty \in [Mate -> Duties]
        /\ attention \in [Mate -> {"no"} \cup RoomScope]
    BY DEF Informed, Shape, Goals, Pursued
  <1>1. PICK m, s : m = Head(work).who /\ s = Head(work).scope
    OBVIOUS
  <1>2. m \in Mate
    BY <1>1, HeadGone DEF dispatchTrigger, NextIs
  <1>3. /\ s \in waiting[m] /\ attention[m] = "no" /\ duty[m].scope = "none"
        /\ UNCHANGED <<stand, missed>> /\ waiting' = [waiting EXCEPT ![m] = @ \ {s}]
    BY <1>1 DEF dispatchTrigger, Skips, Startable
  <1>4. goal'.required = goal.required /\ goal'.issue = goal.issue /\ goal'.status = goal.status
        /\ goal'.linked = goal.linked
    BY <1>0, <1>1 DEF dispatchTrigger, Goals
  <1>5. /\ \A n \in Mate : n # m => waiting'[n] = waiting[n]
        /\ waiting'[m] = waiting[m] \ {s}
    BY <1>0, <1>2, <1>3
  <1>6. CASE starts
    <2>1. /\ UNCHANGED attention /\ duty' = [duty EXCEPT ![m] = [NoDuty EXCEPT !.scope = s]]
      BY <1>1, <1>6 DEF dispatchTrigger
    <2>2. /\ duty'[m].scope = s /\ duty'[m].said = FALSE
          /\ \A n \in Mate : n # m => duty'[n] = duty[n]
      <3>1. [NoDuty EXCEPT !.scope = s].scope = s /\ [NoDuty EXCEPT !.scope = s].said = FALSE
        BY DEF NoDuty
      <3> QED
        BY <1>0, <1>2, <2>1, <3>1
    <2>3. Objections' /\ RunsClear'
      BY <1>3, <1>4, <2>1, <2>2 DEF Pursued, Objections, RunsClear
    <2>4. OpenKept'
      BY <1>0, <1>3, <1>4, <1>5, <2>1, <2>2 DEF Pursued, OpenKept, OpenGoal, SaidIsTold, Asked
    <2>5. Agreed' => Agreed
      BY <1>0, <1>2, <1>3, <1>4, <1>5, <2>1, <2>2
      DEF Agreed, discussionCanComplete, discussionHasAttention
    <2> QED
      BY <1>0, <1>3, <1>4, <2>1, <2>3, <2>4, <2>5 DEF Pursued, NotForgotten
  <1>7. CASE ~starts
    <2>1. UNCHANGED duty /\ attention' = [attention EXCEPT ![m] = ThreadOf(s)]
      BY <1>1, <1>7 DEF dispatchTrigger
    <2>2. /\ attention' \in [Mate -> {"no"} \cup RoomScope] /\ attention'[m] = ThreadOf(s)
          /\ \A n \in Mate : n # m => attention'[n] = attention[n]
          /\ attention'[m] # "no" /\ (s = "source" => attention'[m] = "source")
      BY <1>0, <1>2, <2>1, ThreadTyped
    <2>3. Objections' /\ RunsClear'
      BY <1>3, <1>4, <2>1, <2>2 DEF Pursued, Objections, RunsClear
    <2>4. OpenKept'
      BY <1>0, <1>3, <1>4, <1>5, <2>1, <2>2 DEF Pursued, OpenKept, OpenGoal, SaidIsTold, Asked
    <2>5. Agreed' => Agreed
      BY <1>0, <1>2, <1>3, <1>4, <1>5, <2>1, <2>2
      DEF Agreed, discussionCanComplete, discussionHasAttention
    <2> QED
      BY <1>3, <1>4, <2>2, <2>3, <2>4, <2>5 DEF Pursued, NotForgotten
  <1> QED
    BY <1>6, <1>7

LEMMA SettledPursued ==
    ASSUME Informed, Moving, Pursued, settled
    PROVE  Pursued'
  <1>1. PICK c, m, s : c = Head(work) /\ m = c.who /\ s = duty[m].scope
    OBVIOUS
  <1> DEFINE
      t == duty[m]
      failed == c.outcome = "failed"
      idled == ~t.said /\ ~t.assessed /\ s # "cancelled" /\ ~(s = "goal" /\ goal.status = "cancelled")
      current == s = "goal" /\ t.assessed /\ stand'[m] \in {"satisfied", "objects"}
      done == IF current \/ (s \in RoomScope /\ t.read) THEN {s} ELSE {}
      again == IF ~failed /\ s = "goal" /\ OpenGoal /\ m \in goal.required /\ t.assessed /\ ~current
               THEN {"goal"} ELSE {}
  <1>0. /\ goal \in Goals /\ goal.required \subseteq Mate
        /\ waiting \in [Mate -> SUBSET Scope] /\ duty \in [Mate -> Duties]
        /\ stand \in [Mate -> {"none", "satisfied", "objects"}]
        /\ attention \in [Mate -> {"no"} \cup RoomScope]
    BY DEF Informed, Shape, Goals, Pursued
  <1>2. m \in Mate /\ s # "none" /\ UNCHANGED missed
    BY <1>1, HeadGone DEF settled, NextIs, ForDuty
  <1>3. attention[m] = "no"
    BY <1>1, <1>2 DEF Pursued, RunsClear
  <1>4. stand' = IF failed /\ (s = "goal" \/ LinkedTo(s)) THEN [stand EXCEPT ![m] = "none"] ELSE stand
    BY <1>1 DEF settled
  <1>5. attention' = IF failed \/ idled THEN [attention EXCEPT ![m] = ThreadOf(s)] ELSE attention
    BY <1>1 DEF settled
  <1>6. waiting' = [waiting EXCEPT ![m] = (@ \ done) \cup again]
    BY <1>1, <1>4 DEF settled
  <1>7. duty' = [duty EXCEPT ![m] = NoDuty]
    BY <1>1 DEF settled
  <1>8. goal' = IF s = "goal" \/ LinkedTo(s) THEN Completed(goal, attention', stand', waiting', duty')
                ELSE goal
    BY <1>1 DEF settled
  <1>9. /\ goal'.required = goal.required /\ goal'.issue = goal.issue
        /\ goal'.status \in {goal.status, "completed"}
        /\ goal'.status = "active" /\ (s = "goal" \/ LinkedTo(s)) => ~Agreed'
    <2>1. CASE s = "goal" \/ LinkedTo(s)
      <3>1. goal' = Completed(goal, attention', stand', waiting', duty')
        BY <1>8, <2>1
      <3> QED
        BY <1>0, <3>1, Rechecked DEF Agreed
    <2>2. CASE ~(s = "goal" \/ LinkedTo(s))
      BY <1>8, <2>2
    <2> QED
      BY <2>1, <2>2
  <1>10. /\ duty'[m].scope = "none" /\ \A n \in Mate : n # m => duty'[n] = duty[n]
    BY <1>0, <1>2, <1>7 DEF NoDuty
  <1>11. /\ waiting'[m] = (waiting[m] \ done) \cup again
         /\ \A n \in Mate : n # m => waiting'[n] = waiting[n]
    <2> HIDE DEF done, again
    <2> QED
      BY <1>0, <1>2, <1>6
  <1>12. /\ stand' \in [Mate -> {"none", "satisfied", "objects"}]
         /\ \A n \in Mate : stand'[n] = stand[n] \/ stand'[n] = "none"
         /\ \A n \in Mate : n # m => stand'[n] = stand[n]
         /\ ~failed \/ ~(s = "goal" \/ LinkedTo(s)) => stand' = stand
    BY <1>0, <1>2, <1>4
  <1>13. /\ attention' \in [Mate -> {"no"} \cup RoomScope]
         /\ \A n \in Mate : n # m => attention'[n] = attention[n]
         /\ failed \/ idled => attention'[m] # "no"
         /\ ~(failed \/ idled) => attention' = attention
    <2>1. ThreadOf(s) \in RoomScope /\ ThreadOf(s) # "no"
      BY ThreadTyped
    <2> HIDE DEF failed, idled
    <2> QED
      BY <1>0, <1>2, <1>5, <2>1
  <1>14. Objections' /\ RunsClear'
    <2> HIDE DEF failed, idled
    <2> QED
      BY <1>9, <1>10, <1>12, <1>13 DEF Pursued, Objections, RunsClear
  <1>15. OpenKept'
    <2> SUFFICES ASSUME OpenGoal' PROVE goal'.required # {} /\ SaidIsTold' /\ \A n \in goal'.required : Asked(n)'
      BY DEF OpenKept
    <2>1. OpenGoal /\ goal.status # "cancelled"
      BY <1>9 DEF OpenGoal
    <2>2. goal.required # {} /\ SaidIsTold /\ \A n \in goal.required : Asked(n)
      BY <2>1 DEF Pursued, OpenKept
    <2>3. SaidIsTold'
      BY <1>0, <1>9, <1>10, <1>11, <2>2 DEF SaidIsTold
    <2>4. ASSUME NEW n \in goal.required, n # m PROVE Asked(n)'
      <3>1. stand'[n] = stand[n] /\ waiting'[n] = waiting[n] /\ duty'[n] = duty[n]
            /\ attention'[n] = attention[n]
        BY <1>0, <1>10, <1>11, <1>12, <1>13, <2>4
      <3> QED
        BY <1>2, <2>2, <3>1 DEF Asked
    <2>5. ASSUME m \in goal.required PROVE Asked(m)'
      <3>1. CASE failed \/ idled
        BY <1>13, <3>1 DEF Asked
      <3>2. CASE ~failed /\ ~idled /\ s = "goal"
        <4>1. t.said \/ t.assessed
          BY <2>1, <3>2
        <4>2. CASE current
          BY <4>2 DEF Asked
        <4>3. CASE t.assessed /\ ~current
          <5>1. "goal" \in again
            BY <2>1, <2>5, <3>2, <4>3
          <5> HIDE DEF again, done
          <5> QED
            BY <1>11, <5>1 DEF Asked
        <4>4. CASE t.said /\ ~t.assessed
          <5>1. "goal" \in waiting[m]
            BY <1>1, <2>2, <2>5, <3>2, <4>4 DEF SaidIsTold
          <5>2. done = {}
            BY <3>2, <4>4 DEF RoomScope
          <5> HIDE DEF again, done
          <5> QED
            BY <1>11, <5>1, <5>2 DEF Asked
        <4> QED
          BY <4>1, <4>2, <4>3, <4>4
      <3>3. CASE ~failed /\ ~idled /\ s # "goal"
        <4>1. stand' = stand
          BY <1>12, <3>3
        <4>2. "goal" \notin done
          BY <3>3
        <4>3. stand[m] # "none" \/ "goal" \in waiting[m] \/ m \in missed
          BY <1>1, <1>3, <2>2, <2>5, <3>3 DEF Asked
        <4> HIDE DEF again, done
        <4> QED
          BY <1>2, <1>11, <4>1, <4>2, <4>3 DEF Asked
      <3> QED
        BY <3>1, <3>2, <3>3
    <2> HIDE DEF failed, idled, current, done, again
    <2> QED
      BY <1>9, <2>2, <2>3, <2>4, <2>5
  <1>16. NotForgotten'
    <2> SUFFICES ASSUME goal'.status = "active", ~(s = "goal" \/ LinkedTo(s)), Agreed'
                 PROVE  Agreed
      BY <1>2, <1>8, <1>9 DEF Pursued, NotForgotten
    <2>1. goal' = goal /\ stand' = stand /\ OpenGoal
      BY <1>8, <1>12 DEF OpenGoal
    <2>2. done \subseteq {s} /\ s # "goal" /\ (goal.linked => s # "source")
      BY <2>1 DEF LinkedTo
    <2>3. ~discussionHasAttention(goal, attention)
      BY <1>0, <1>3, <1>13, <2>1 DEF Agreed, discussionCanComplete, discussionHasAttention
    <2>4. \A n \in Mate : /\ "goal" \in waiting[n] => "goal" \in waiting'[n]
                          /\ goal.linked /\ "source" \in waiting[n] => "source" \in waiting'[n]
      <3> HIDE DEF done, again
      <3> QED
        BY <1>11, <2>2
    <2> QED
      BY <1>0, <1>1, <1>10, <2>1, <2>2, <2>3, <2>4 DEF Agreed, discussionCanComplete
  <1> QED
    BY <1>13, <1>14, <1>15, <1>16 DEF Pursued

-----------------------------------------------------------------------------
(* Every step.                                                             *)

OnlyOthers ==
    \/ \E m \in Mate, outcome \in {"completed", "failed"} : RunEnds(m, outcome)
    \/ \E m \in Mate : Chat(m) \/ killMember(m) \/ KilledRunCloses(m)
    \/ drainTriggers \/ dispatchTriggerSkipped \/ settledIgnored \/ WorkLost
    \/ killAllMembers \/ recoverTurns

LEMMA OtherSteps ==
    ASSUME Informed, Pursued, OnlyOthers \/ UNCHANGED mateVars
    PROVE  Pursued'
  <1>1. UNCHANGED <<goal, stand, waiting, duty, attention, missed>>
    BY DEF OnlyOthers, RunEnds, Chat, killMember, KilledRunCloses, drainTriggers,
       dispatchTriggerSkipped, settledIgnored, WorkLost, killAllMembers, recoverTurns, mateVars
  <1> QED
    BY <1>1, MorePursued DEF Informed, Shape

LEMMA TalkPursued ==
    ASSUME Informed, Informed', Pursued, Talk
    PROVE  Pursued'
  <1>1. CASE \E s \in Thread, who \in SUBSET Mate : PersonWritesInRoom(s, who)
    BY <1>1, EvidenceSteps, MoreSteps
  <1>2. CASE \/ \E issue \in {"none", "open", "resolved"} : PersonWritesInDiscussion(issue)
             \/ \E linked \in BOOLEAN, required \in SUBSET Mate : startDiscussion(linked, required)
             \/ \E required \in SUBSET Mate : reviseDiscussion(required)
             \/ \E m \in Mate, issue \in {"none", "open", "resolved"} : postInDiscussion(m, issue)
    BY <1>2, EvidenceSteps
  <1>3. CASE \E raised \in BOOLEAN : resumeDiscussion(raised)
    BY <1>3, ResumePursued
  <1>4. CASE pauseDiscussion \/ cancelDiscussion \/ archive
    BY <1>4, InactiveSteps
  <1>5. CASE \E m \in Mate, thread \in RoomScope : retryMember(m, thread)
    BY <1>5, RetryPursued
  <1>6. CASE \E m \in Mate, verdict \in {"satisfied", "objects"} : assess(m, verdict)
    BY <1>6, AssessPursued
  <1>7. CASE \E m \in Mate : readUpdates(m)
    BY <1>7, MoreSteps
  <1>8. CASE \E m \in Mate : postInRoom(m)
    BY <1>8, EvidenceSteps, MoreSteps
  <1>9. CASE \E m \in Mate : assessObjecting(m)
    BY <1>9, ObjectPursued
  <1> QED
    BY <1>1, <1>2, <1>3, <1>4, <1>5, <1>6, <1>7, <1>8, <1>9 DEF Talk

LEMMA OthersMove ==
    ASSUME Shape, Moving, OnlyOthers \/ UNCHANGED mateVars
    PROVE  Moving'
  <1>1. CASE UNCHANGED mateVars
    <2>1. UNCHANGED <<goal, waiting, duty, seat, attention, dead, work, wanted, asleep, archived,
                      lost>>
      BY <1>1 DEF mateVars
    <2>2. \A m \in Mate : Startable(m)' = Startable(m) /\ Settles(m)' = Settles(m)
      BY <2>1 DEF Startable, Settles
    <2>3. \A m \in Mate : OnItsWay(m)' = OnItsWay(m)
      BY <2>1, <2>2 DEF OnItsWay
    <2> QED
      BY <2>1, <2>2, <2>3 DEF Moving, TurnsEnd, TriggersMove, Coming
  <1> QED
    BY <1>1, RunEndsMoves, ChatMoves, ClosesMoves, DrainMoves, SkippedMoves, SettledMoves, LostMoves,
       KillAllMoves, RecoverMoves DEF OnlyOthers

PersonInv == Informed /\ Moving /\ Pursued

LEMMA InitPerson == CollaborationInit => PersonInv
  <1> SUFFICES ASSUME CollaborationInit PROVE PersonInv
    OBVIOUS
  <1>1. Informed /\ work = <<>> /\ goal.status = "none"
    BY InitInformed DEF CollaborationInit
  <1>2. \A m \in Mate : duty[m].scope = "none" /\ Startable(m) = {} /\ seat[m] = "no"
                        /\ stand[m] = "none" /\ attention[m] = "no"
    BY DEF CollaborationInit, NoDuty, Startable
  <1>3. Moving
    BY <1>1, <1>2 DEF CollaborationInit, Moving, TurnsEnd, TriggersMove
  <1>4. Pursued
    BY <1>1, <1>2 DEF CollaborationInit, Pursued, Objections, RunsClear, OpenKept, OpenGoal,
       NotForgotten
  <1> QED
    BY <1>1, <1>3, <1>4 DEF PersonInv

LEMMA NextPerson == PersonInv /\ [CollaborationNext]_mateVars => PersonInv'
  <1> SUFFICES ASSUME PersonInv, [CollaborationNext]_mateVars PROVE PersonInv'
    OBVIOUS
  <1>0. Informed /\ Shape /\ Moving /\ Pursued /\ Informed'
    BY NextInformed DEF PersonInv, Informed
  <1>1. CASE Talk
    BY <1>0, <1>1, TalkMoves, TalkPursued DEF PersonInv
  <1>2. CASE OnlyOthers \/ UNCHANGED mateVars
    BY <1>0, <1>2, OthersMove, OtherSteps DEF PersonInv
  <1>3. CASE dispatchTriggerCapped
    BY <1>0, <1>3, CappedMoves, InactiveSteps DEF PersonInv
  <1>4. CASE \E starts \in BOOLEAN : dispatchTrigger(starts)
    BY <1>0, <1>4, DispatchMoves, DispatchPursued DEF PersonInv
  <1>5. CASE settled
    BY <1>0, <1>5, SettledMoves, SettledPursued DEF PersonInv
  <1>6. Talk \/ OnlyOthers \/ dispatchTriggerCapped \/ settled \/ UNCHANGED mateVars
        \/ \E starts \in BOOLEAN : dispatchTrigger(starts)
    BY DEF CollaborationNext, Talk, OnlyOthers
  <1> QED
    BY <1>1, <1>2, <1>3, <1>4, <1>5, <1>6

LEMMA PersonWaits == PersonInv => WaitsForPerson
  <1> SUFFICES ASSUME PersonInv, AtRest
               PROVE  /\ \A m \in Mate : duty[m].scope = "none" /\ (Startable(m) = {} \/ m \in dead)
                      /\ goal.status = "active" =>
                           goal.issue = "open" \/ missed # {} \/ \E m \in Mate : HoldsUp(m)
    BY DEF WaitsForPerson
  <1>0. /\ goal.required \subseteq Mate /\ ToSet(work) = {}
        /\ stand \in [Mate -> {"none", "satisfied", "objects"}]
        /\ waiting \in [Mate -> SUBSET Scope]
    BY DEF PersonInv, Informed, Shape, Goals, AtRest, ToSet
  <1>1. ~wanted /\ ~asleep /\ ~archived /\ ~lost /\ \A m \in Mate : seat[m] = "no"
    BY DEF AtRest
  <1>2. \A m \in Mate : duty[m].scope = "none"
    BY <1>0, <1>1 DEF PersonInv, Moving, TurnsEnd, Settles
  <1>3. \A m \in Mate : Startable(m) = {} \/ m \in dead
    BY <1>0, <1>1 DEF PersonInv, Moving, TriggersMove, Coming, OnItsWay
  <1>4. ASSUME goal.status = "active", goal.issue # "open", missed = {}
        PROVE  \E m \in Mate : HoldsUp(m)
    <2>1. OpenGoal /\ ~Agreed /\ \A m \in goal.required : Asked(m)
      BY <1>4 DEF OpenGoal, PersonInv, Pursued, OpenKept, NotForgotten
    <2>2. \A m \in Mate : attention[m] = "no" /\ "goal" \in waiting[m] => HoldsUp(m)
      BY <1>1, <1>2, <1>3, <1>4 DEF Startable, HoldsUp
    <2>3. \A m \in Mate : goal.linked /\ "source" \in waiting[m] => HoldsUp(m)
      <3> SUFFICES ASSUME NEW m \in Mate, goal.linked, "source" \in waiting[m] PROVE HoldsUp(m)
        OBVIOUS
      <3>1. CASE attention[m] = "no"
        BY <1>1, <1>2, <1>3, <3>1 DEF Startable, HoldsUp
      <3>2. CASE attention[m] # "no"
        BY <3>2 DEF HoldsUp
      <3> QED
        BY <3>1, <3>2
    <2>4. \A m \in Mate : attention[m] # "no" /\ (m \in goal.required \/ (goal.linked /\ attention[m] = "source"))
                          => HoldsUp(m)
      BY DEF HoldsUp
    <2>5. CASE discussionHasAttention(goal, attention)
      BY <2>4, <2>5 DEF discussionHasAttention
    <2>6. CASE \E m \in goal.required : stand[m] # "satisfied" \/ "goal" \in waiting[m]
      <3>1. PICK m \in goal.required : stand[m] # "satisfied" \/ "goal" \in waiting[m]
        BY <2>6
      <3>2. m \in Mate /\ stand[m] # "objects"
        BY <1>0, <1>4, <3>1 DEF PersonInv, Pursued, Objections
      <3>3. "goal" \in waiting[m] \/ attention[m] # "no"
        BY <1>0, <1>2, <1>4, <2>1, <3>1, <3>2 DEF Asked
      <3> QED
        BY <2>2, <2>4, <3>1, <3>2, <3>3
    <2>7. CASE goal.linked /\ \E m \in Mate : "source" \in waiting[m]
      BY <2>3, <2>7
    <2> QED
      BY <1>0, <1>2, <1>4, <2>1, <2>5, <2>6, <2>7 DEF Agreed, discussionCanComplete
  <1> QED
    BY <1>2, <1>3, <1>4

-----------------------------------------------------------------------------

\* A workspace in which nothing goes on has no turn under way and none that could start, and a
\* discussion that is still active waits for a person (collaborationRuntime.ts: drain, settled,
\* retry, complete).
THEOREM RestWaitsForPerson == CollaborationSpec => []WaitsForPerson
  <1> QED
    BY InitPerson, NextPerson, PersonWaits, PTL DEF CollaborationSpec
-----------------------------------------------------------------------------
(* What a workspace keeps has its type.                                     *)

Tallied ==
    /\ endedAs \in [Mate -> {"no", "completed", "failed"}]
    /\ heard \subseteq Mate /\ unread \subseteq Mate /\ missed \subseteq Mate /\ dead \subseteq Mate
    /\ {wanted, asleep, archived, lost} \subseteq BOOLEAN
    /\ moves \in 0 .. MaxMoves

LEMMA TalliedStep == Tallied /\ [CollaborationNext]_mateVars => Tallied'
  <1> SUFFICES ASSUME Tallied, [CollaborationNext]_mateVars PROVE Tallied'
    OBVIOUS
  <1>1. Move \/ NoMove => moves' \in 0 .. MaxMoves
    BY CollaborationAssumption DEF Tallied, Move, NoMove
  <1>2. Revive => wanted' \in BOOLEAN /\ asleep' \in BOOLEAN
    BY DEF Revive
  <1> USE DEF Person
  <1>3. ASSUME \/ \E s \in Thread, who \in SUBSET Mate : PersonWritesInRoom(s, who)
               \/ \E issue \in {"none", "open", "resolved"} : PersonWritesInDiscussion(issue)
               \/ \E linked \in BOOLEAN, required \in SUBSET Mate : startDiscussion(linked, required)
               \/ \E required \in SUBSET Mate : reviseDiscussion(required)
        PROVE  Tallied'
    BY <1>1, <1>2, <1>3
    DEF Tallied, PersonWritesInRoom, PersonWritesInDiscussion, startDiscussion, reviseDiscussion
  <1>4. ASSUME (\E raised \in BOOLEAN : resumeDiscussion(raised)) \/ pauseDiscussion
               \/ cancelDiscussion \/ archive
        PROVE  Tallied'
    BY <1>1, <1>2, <1>4 DEF Tallied, resumeDiscussion, pauseDiscussion, cancelDiscussion, archive
  <1>5. ASSUME NEW m \in Mate,
               (\E thread \in RoomScope : retryMember(m, thread)) \/ Chat(m) \/ killMember(m)
        PROVE  Tallied'
    BY <1>1, <1>2, <1>5 DEF Tallied, retryMember, Chat, killMember
  <1>6. ASSUME NEW m \in Mate,
               \/ \E issue \in {"none", "open", "resolved"} : postInDiscussion(m, issue)
               \/ \E verdict \in {"satisfied", "objects"} : assess(m, verdict)
               \/ readUpdates(m) \/ postInRoom(m) \/ assessObjecting(m)
        PROVE  Tallied'
    BY <1>1, <1>2, <1>6
    DEF Tallied, postInDiscussion, assess, readUpdates, postInRoom, assessObjecting, mayAssess,
        authenticated, HeardAfter, UnreadAfter
  <1>7. ASSUME NEW m \in Mate, NEW outcome \in {"completed", "failed"}, RunEnds(m, outcome)
        PROVE  Tallied'
    BY <1>1, <1>7 DEF Tallied, RunEnds
  <1>8. ASSUME \/ \E m \in Mate : KilledRunCloses(m)
               \/ drainTriggers \/ dispatchTriggerSkipped \/ dispatchTriggerCapped \/ settledIgnored
               \/ UNCHANGED mateVars
        PROVE  Tallied'
    BY <1>8
    DEF Tallied, KilledRunCloses, drainTriggers, dispatchTriggerSkipped, dispatchTriggerCapped,
        settledIgnored, Changed, mateVars
  <1>9. ASSUME NEW starts \in BOOLEAN, dispatchTrigger(starts) PROVE Tallied'
    BY <1>1, <1>9 DEF Tallied, dispatchTrigger, Changed
  <1>10. CASE settled
    BY <1>10 DEF Tallied, settled, Changed
  <1>11. CASE WorkLost \/ killAllMembers \/ recoverTurns
    BY <1>1, <1>11 DEF Tallied, WorkLost, killAllMembers, recoverTurns
  <1> HIDE DEF Person
  <1> QED
    BY <1>3, <1>4, <1>5, <1>6, <1>7, <1>8, <1>9, <1>10, <1>11 DEF CollaborationNext

\* What the workspace of a collaboration keeps has its type: the turns that are left of a
\* discussion stay within its cap, and the chain holds only commands about members.
THEOREM CollaborationTyped == CollaborationSpec => []CollaborationTypeOK
  <1>1. CollaborationInit => Tallied
    <2> SUFFICES ASSUME CollaborationInit PROVE Tallied
      OBVIOUS
    <2>1. moves \in 0 .. MaxMoves
      BY CollaborationAssumption DEF CollaborationInit
    <2>2. {wanted, asleep, archived, lost} \subseteq BOOLEAN
      BY DEF CollaborationInit
    <2> QED
      BY <2>1, <2>2 DEF CollaborationInit, Tallied
  <1>2. PersonInv /\ Tallied => CollaborationTypeOK
    BY DEF PersonInv, Informed, Shape, Moving, Pursued, Tallied, CollaborationTypeOK, Goals, Duties,
           Command
  <1> QED
    BY <1>1, <1>2, InitPerson, NextPerson, TalliedStep, PTL DEF CollaborationSpec

=============================================================================
