--------------------------- MODULE Collaboration ---------------------------
(***************************************************************************)
(* A collaboration workspace (collaborationRuntime.ts): members who take   *)
(* turns on triggers, and the discussion of a goal, which ends when every  *)
(* required member accepts it on the evidence there is.                    *)
(*                                                                         *)
(* Commands of people and tool calls are one step each; what the runtime   *)
(* itself dispatches waits in `work', behind the microtask that drains.    *)
(* Sequence numbers are abstracted to what is compared: whether a turn has *)
(* read past the last evidence (or mention), whether an assessment is of   *)
(* the current evidence and revisions.                                     *)
(***************************************************************************)
EXTENDS Integers, FiniteSets, Sequences, SequencesExt

CONSTANTS Mate,      \* memberIds
          Thread,    \* where people write: the room, "plain", the thread "source", an "other" one
          TurnCap,   \* maxTurns
          MaxMoves   \* bound: commands of people, what members write, failures, lost
                     \* commits, killAll, restarts

ASSUME CollaborationAssumption ==
    /\ IsFiniteSet(Mate)
    /\ Thread \subseteq {"plain", "source", "other"}
    /\ TurnCap \in Nat \ {0} /\ MaxMoves \in Nat

VARIABLES
    goal,      \* the discussion: status, sourceThreadId is "source", members, turns left, its issue
    stand,     \* assessments of the current evidence and revisions
    waiting,   \* scopes of the pending triggers of a member
    duty,      \* the running trigger of a member: read, published, assessed
    seat,      \* isBusy: a run for the trigger, another run, one that was killed
    endedAs,   \* how the run of the running trigger ended, "no" before
    attention, \* the scope of the turn that asks for a retry
    dead,      \* members whose session was killed
    work,      \* commands of the runtime in the chain
    wanted,    \* a drain is scheduled
    asleep,    \* suspend: between killAll and the next command
    archived,
    heard,     \* history: members who were given all the evidence
    unread,    \* history: members who published in a goal turn with evidence not given to them
    missed,    \* history: members whose attention was cleared without a turn on the goal
    lost,      \* history: a command of the runtime was not committed
    moves      \* history: what was used of MaxMoves

mateVars == <<goal, stand, waiting, duty, seat, endedAs, attention, dead, work, wanted, asleep,
              archived, heard, unread, missed, lost, moves>>

RoomScope == {"plain", "source", "other"}
Scope == RoomScope \cup {"goal"}
NoDuty == [scope |-> "none", read |-> FALSE, said |-> FALSE, assessed |-> FALSE]

CollaborationInit ==
    /\ goal = [status |-> "none", linked |-> FALSE, required |-> {}, left |-> TurnCap,
               issue |-> "none"]
    /\ stand = [m \in Mate |-> "none"]
    /\ waiting = [m \in Mate |-> {}]
    /\ duty = [m \in Mate |-> NoDuty]
    /\ seat = [m \in Mate |-> "no"]
    /\ endedAs = [m \in Mate |-> "no"]
    /\ attention = [m \in Mate |-> "no"]
    /\ work = <<>> /\ wanted = FALSE /\ asleep = FALSE /\ archived = FALSE
    /\ dead = {} /\ heard = {} /\ unread = {} /\ missed = {} /\ lost = FALSE /\ moves = 0

-----------------------------------------------------------------------------
(* What the handlers ask and do.                                           *)

OpenGoal == goal.status \in {"active", "paused"}
LinkedTo(s) == OpenGoal /\ goal.linked /\ s = "source"

\* The thread of a trigger; those of a discussion have none, as a plain mention.
ThreadOf(s) == IF s \in {"source", "other"} THEN s ELSE "plain"

discussionHasAttention(g, att) ==
    \E m \in Mate : att[m] # "no" /\ (m \in g.required \/ (g.linked /\ att[m] = "source"))

\* Of the discussion and the members as the handler leaves them.
discussionCanComplete(g, att, sta, wai, dut) ==
    /\ g.status = "active" /\ g.issue # "open"
    /\ ~discussionHasAttention(g, att)
    /\ \A m \in g.required :
         sta[m] = "satisfied" /\ "goal" \notin wai[m] /\ dut[m].scope # "goal"
    /\ g.linked => \A m \in Mate : "source" \notin wai[m] /\ dut[m].scope # "source"
Completed(g, att, sta, wai, dut) ==
    IF discussionCanComplete(g, att, sta, wai, dut) THEN [g EXCEPT !.status = "completed"] ELSE g

\* New evidence makes every assessment stale and gives the required members a turn; the reading
\* of a goal turn is behind again, except the author's own.
Outdated == [m \in Mate |-> "none"]
NotifyDiscussion(w, except) ==
    [m \in Mate |-> IF m \in goal.required \ except THEN w[m] \cup {"goal"} ELSE w[m]]
Behind(d, except) ==
    [m \in Mate |-> IF d[m].scope = "goal" /\ m \notin except THEN [d[m] EXCEPT !.read = FALSE]
                    ELSE d[m]]
\* Who wrote the evidence and had all that came before is given all of it.
HeardAfter(author) == heard \cap author
UnreadAfter(author) == author \ heard

\* A command revives the drains, and `changed' schedules one.
Changed == wanted' = TRUE
Revive == asleep' = FALSE /\ wanted' = TRUE

\* Commands of the runtime: the start of a turn, and its settlement on an event of a run.
Start(m, s) == [kind |-> "start", who |-> m, scope |-> s, run |-> "no", outcome |-> "no"]
Settlement(m, run, outcome) ==
    [kind |-> "settle", who |-> m, scope |-> "none", run |-> run, outcome |-> outcome]
Recovering == \E i \in DOMAIN work : work[i].run = "restart"
Move == moves < MaxMoves /\ moves' = moves + 1
NoMove == moves' = moves

-----------------------------------------------------------------------------
(* Commands of people.                                                     *)

Person == Move /\ Revive /\ ~Recovering

\* A message in the room mentions members; in the thread of an open discussion it is evidence,
\* and required members are told of it by a goal turn.
PersonWritesInRoom(s, who) ==
    /\ Person /\ ~archived
    /\ LET told(m) == m \in who /\ ~(LinkedTo(s) /\ m \in goal.required) IN
       /\ waiting' = [m \in Mate |-> waiting[m]
                        \cup (IF told(m) THEN {s} ELSE {})
                        \cup (IF LinkedTo(s) /\ m \in goal.required THEN {"goal"} ELSE {})]
       /\ duty' = [m \in Mate |->
                     IF (told(m) /\ duty[m].scope = s) \/ (LinkedTo(s) /\ duty[m].scope = "goal")
                     THEN [duty[m] EXCEPT !.read = FALSE] ELSE duty[m]]
    /\ IF LinkedTo(s)
       THEN stand' = Outdated /\ heard' = {} /\ unread' = {} /\ missed' = {}
       ELSE UNCHANGED <<stand, heard, unread, missed>>
    /\ UNCHANGED <<goal, seat, endedAs, attention, dead, work, archived, lost>>

\* A message in the discussion, which may open or resolve an issue.
PersonWritesInDiscussion(issue) ==
    /\ Person /\ ~archived /\ OpenGoal
    /\ issue = "resolved" => goal.issue # "none"
    /\ goal' = IF issue = "none" THEN goal ELSE [goal EXCEPT !.issue = issue]
    /\ stand' = Outdated /\ heard' = {} /\ unread' = {} /\ missed' = {}
    /\ waiting' = NotifyDiscussion(waiting, {})
    /\ duty' = Behind(duty, {})
    /\ UNCHANGED <<seat, endedAs, attention, dead, work, archived, lost>>

startDiscussion(linked, required) ==
    /\ Revive /\ ~Recovering /\ (IF goal.status = "none" THEN NoMove ELSE Move)
    /\ ~archived /\ ~OpenGoal
    /\ Cardinality(required) >= 2
    /\ goal' = [status |-> "active", linked |-> linked, required |-> required, left |-> TurnCap,
                issue |-> "none"]
    /\ stand' = [m \in Mate |-> "none"]
    /\ waiting' = [m \in Mate |-> IF m \in required THEN waiting[m] \cup {"goal"} ELSE waiting[m]]
    /\ duty' = [m \in Mate |-> IF duty[m].scope = "goal"
                               THEN [duty[m] EXCEPT !.scope = IF goal.status = "cancelled"
                                                              THEN "cancelled" ELSE "past"]
                               ELSE duty[m]]
    /\ heard' = {} /\ unread' = {} /\ missed' = {}
    /\ UNCHANGED <<seat, endedAs, attention, dead, work, archived, lost>>

pauseDiscussion ==
    /\ Person /\ OpenGoal
    /\ goal' = [goal EXCEPT !.status = "paused"]
    /\ UNCHANGED <<stand, waiting, duty, seat, endedAs, attention, dead, work, archived, heard,
                   unread, missed, lost>>

\* With or without a higher cap on the turns.
resumeDiscussion(raised) ==
    /\ Person /\ OpenGoal /\ ~archived
    /\ raised \/ goal.left > 0
    /\ goal' = Completed([goal EXCEPT !.status = "active", !.left = IF raised THEN TurnCap ELSE @],
                         attention, stand, waiting, duty)
    /\ UNCHANGED <<stand, waiting, duty, seat, endedAs, attention, dead, work, archived, heard,
                   unread, missed, lost>>

cancelDiscussion ==
    /\ Person /\ OpenGoal
    /\ goal' = [goal EXCEPT !.status = "cancelled"]
    /\ waiting' = [m \in Mate |-> waiting[m] \ {"goal"}]
    /\ UNCHANGED <<stand, duty, seat, endedAs, attention, dead, work, archived, heard, unread,
                   missed, lost>>

\* A new goal, or other members; whoever is no longer required loses the trigger that waits.
reviseDiscussion(required) ==
    /\ Person /\ OpenGoal
    /\ Cardinality(required) >= 2
    /\ goal' = [goal EXCEPT !.required = required]
    /\ stand' = Outdated /\ heard' = {} /\ unread' = {} /\ missed' = {}
    /\ waiting' = [m \in Mate |-> IF m \in required THEN waiting[m] \cup {"goal"}
                                  ELSE waiting[m] \ {"goal"}]
    /\ duty' = Behind(duty, {})
    /\ UNCHANGED <<seat, endedAs, attention, dead, work, archived, lost>>

archive ==
    /\ Person
    /\ archived' = ~archived
    /\ goal' = IF ~archived /\ goal.status = "active" THEN [goal EXCEPT !.status = "paused"] ELSE goal
    /\ UNCHANGED <<stand, waiting, duty, seat, endedAs, attention, dead, work, heard, unread, missed,
                   lost>>

\* The retry of a member: a turn on the goal, unless the turn that failed, or the panel the
\* retry is wanted in, is of a thread the discussion does not come from.
retryMember(m, thread) ==
    /\ Person /\ ~archived
    /\ attention[m] # "no" /\ seat[m] = "no" /\ m \notin dead
    /\ thread = attention[m] \/ thread \in Thread \ {"plain"}
    /\ attention' = [attention EXCEPT ![m] = "no"]
    /\ LET ofGoal == OpenGoal /\ (thread = "plain" \/ LinkedTo(thread)) IN
       /\ waiting' = [waiting EXCEPT ![m] =
                        @ \cup {IF ofGoal /\ m \in goal.required THEN "goal" ELSE thread}]
       /\ missed' = IF OpenGoal /\ (m \in goal.required \/ LinkedTo(attention[m])) /\ ~ofGoal
                    THEN missed \cup {m} ELSE missed
    /\ UNCHANGED <<goal, stand, duty, seat, endedAs, dead, work, archived, heard, unread, lost>>

\* A person talks to the member in the session's own chat.
Chat(m) ==
    /\ Person
    /\ seat[m] = "no" /\ m \notin dead
    /\ seat' = [seat EXCEPT ![m] = "chat"]
    /\ UNCHANGED <<goal, stand, waiting, duty, endedAs, attention, dead, work, archived, heard,
                   unread, missed, lost>>

\* The event of a kill names no turn: it settles whatever trigger is running.
killMember(m) ==
    /\ Person
    /\ seat[m] \in {"turn", "chat"}
    /\ seat' = [seat EXCEPT ![m] = "dying"]
    /\ dead' = dead \cup {m}
    /\ work' = Append(work, Settlement(m, "any", "failed"))
    /\ UNCHANGED <<goal, stand, waiting, duty, endedAs, attention, archived, heard, unread, missed,
                   lost>>

-----------------------------------------------------------------------------
(* Tool calls of a member in the turn that was dispatched to it.           *)

authenticated(m) ==
    /\ duty[m].scope # "none" /\ seat[m] \in {"turn", "dying"} /\ ~archived
    /\ Revive

\* All pages; a call that leaves some unread lets the member do nothing new.
readUpdates(m) ==
    /\ authenticated(m) /\ ~duty[m].read
    /\ duty' = [duty EXCEPT ![m].read = TRUE]
    /\ heard' = IF duty[m].scope = "goal" THEN heard \cup {m} ELSE heard
    /\ unread' = IF duty[m].scope = "goal" THEN unread \ {m} ELSE unread
    /\ UNCHANGED <<goal, stand, waiting, seat, endedAs, attention, dead, work, archived, missed,
                   lost, moves>>

\* What a member publishes in a goal turn counts as read by it, with all that came before.
postInDiscussion(m, issue) ==
    /\ authenticated(m) /\ Move
    /\ duty[m].scope = "goal" /\ OpenGoal /\ m \in goal.required
    /\ issue = "resolved" => goal.issue # "none"
    /\ goal' = IF issue = "none" THEN goal ELSE [goal EXCEPT !.issue = issue]
    /\ stand' = Outdated
    /\ waiting' = NotifyDiscussion(waiting, {})
    /\ duty' = [Behind(duty, {m}) EXCEPT ![m].read = TRUE, ![m].said = TRUE]
    /\ heard' = HeardAfter({m}) /\ unread' = UnreadAfter({m}) /\ missed' = {}
    /\ UNCHANGED <<seat, endedAs, attention, dead, work, archived, lost>>

\* A reply in the room; a late one in the thread of the discussion is evidence.
postInRoom(m) ==
    /\ authenticated(m) /\ NoMove
    /\ duty[m].scope \in RoomScope
    /\ IF LinkedTo(duty[m].scope)
       THEN /\ stand' = Outdated
            /\ waiting' = NotifyDiscussion(waiting, {})
            /\ duty' = [Behind(duty, {}) EXCEPT ![m].said = TRUE]
            /\ heard' = {} /\ unread' = {} /\ missed' = {}
       ELSE /\ duty' = [duty EXCEPT ![m].said = TRUE]
            /\ UNCHANGED <<stand, waiting, heard, unread, missed>>
    /\ UNCHANGED <<goal, seat, endedAs, attention, dead, work, archived, lost>>

\* What the turn has read is not asked.
mayAssessUnread(m) ==
    authenticated(m) /\ duty[m].scope = "goal" /\ OpenGoal /\ m \in goal.required

mayAssess(m) ==
    authenticated(m) /\ duty[m].scope = "goal" /\ OpenGoal /\ m \in goal.required /\ duty[m].read

\* An assessment that says nothing new.
assess(m, verdict) ==
    /\ mayAssess(m)
    /\ verdict = "objects" => goal.issue = "open"
    /\ stand' = [stand EXCEPT ![m] = verdict]
    /\ duty' = [duty EXCEPT ![m].assessed = TRUE]
    /\ UNCHANGED <<goal, waiting, seat, endedAs, attention, dead, work, archived, heard, unread,
                   missed, lost, moves>>

\* A new objection opens an issue and is evidence for the others.
assessObjecting(m) ==
    /\ mayAssess(m) /\ Move
    /\ goal' = [goal EXCEPT !.issue = "open"]
    /\ stand' = [Outdated EXCEPT ![m] = "objects"]
    /\ waiting' = NotifyDiscussion(waiting, {m})
    /\ duty' = [Behind(duty, {m}) EXCEPT ![m].assessed = TRUE]
    /\ heard' = HeardAfter({m}) /\ unread' = UnreadAfter({m}) /\ missed' = {}
    /\ UNCHANGED <<seat, endedAs, attention, dead, work, archived, lost>>

-----------------------------------------------------------------------------
(* Runs, and what the runtime dispatches.                                      *)

\* A run ends: its event becomes the command that settles the turn.
RunEnds(m, outcome) ==
    /\ seat[m] \in {"turn", "chat"}
    /\ outcome = "failed" => Move
    /\ outcome = "completed" => NoMove
    /\ seat' = [seat EXCEPT ![m] = "no"]
    /\ endedAs' = IF seat[m] = "turn" THEN [endedAs EXCEPT ![m] = outcome] ELSE endedAs
    /\ work' = Append(work, Settlement(m, seat[m], outcome))
    /\ UNCHANGED <<goal, stand, waiting, duty, attention, dead, wanted, asleep, archived, heard,
                   unread, missed, lost>>

\* The process of a killed run is gone.
KilledRunCloses(m) ==
    /\ seat[m] = "dying"
    /\ seat' = [seat EXCEPT ![m] = "no"]
    /\ UNCHANGED <<goal, stand, waiting, duty, endedAs, attention, dead, work, wanted, asleep,
                   archived, heard, unread, missed, lost, moves>>

\* The triggers a drain would start: at most one of a member, one of the running discussion only.
Startable(m) ==
    IF attention[m] = "no" /\ seat[m] = "no" /\ duty[m].scope = "none"
    THEN {s \in waiting[m] : s = "goal" => goal.status = "active"} ELSE {}

drainTriggers ==
    /\ wanted /\ ~Recovering
    /\ wanted' = FALSE
    /\ IF asleep \/ archived THEN work' = work
       ELSE \E choice \in [{m \in Mate : Startable(m) # {}} -> Scope] :
              /\ \A m \in DOMAIN choice : choice[m] \in Startable(m)
              /\ work' = work \o SetToSeq({Start(m, choice[m]) : m \in DOMAIN choice} \ ToSet(work))
    /\ UNCHANGED <<goal, stand, waiting, duty, seat, endedAs, attention, dead, asleep, archived,
                   heard, unread, missed, lost, moves>>

Next1 == work # <<>> /\ work' = Tail(work)
NextIs(c) == Next1 /\ Head(work).kind = c

Skips(m, s) == s \notin Startable(m) \/ archived \/ asleep
dispatchTriggerSkipped ==
    /\ NextIs("start") /\ Skips(Head(work).who, Head(work).scope)
    /\ UNCHANGED <<goal, stand, waiting, duty, seat, endedAs, attention, dead, wanted, asleep,
                   archived, heard, unread, missed, lost, moves>>

Capped(s) == s = "goal" /\ goal.left = 0
dispatchTriggerCapped ==
    /\ NextIs("start") /\ ~Skips(Head(work).who, Head(work).scope) /\ Capped(Head(work).scope)
    /\ goal' = [goal EXCEPT !.status = "paused"]
    /\ Changed
    /\ UNCHANGED <<stand, waiting, duty, seat, endedAs, attention, dead, asleep, archived, heard,
                   unread, missed, lost, moves>>

\* The activation starts or queues a run; or it throws, as for a session that was killed or
\* frozen or has no budget left, and the member asks for a retry.
dispatchTrigger(starts) ==
    /\ NextIs("start") /\ ~Skips(Head(work).who, Head(work).scope) /\ ~Capped(Head(work).scope)
    /\ LET m == Head(work).who
           s == Head(work).scope IN
       /\ starts => m \notin dead
       /\ IF starts \/ m \in dead THEN NoMove ELSE Move
       /\ waiting' = [waiting EXCEPT ![m] = @ \ {s}]
       /\ goal' = IF s = "goal" THEN [goal EXCEPT !.left = @ - 1] ELSE goal
       /\ IF starts
          THEN /\ duty' = [duty EXCEPT ![m] = [NoDuty EXCEPT !.scope = s]]
               /\ seat' = [seat EXCEPT ![m] = "turn"]
               /\ endedAs' = [endedAs EXCEPT ![m] = "no"]
               /\ attention' = attention
          ELSE /\ attention' = [attention EXCEPT ![m] = ThreadOf(s)]
               /\ UNCHANGED <<duty, seat, endedAs>>
    /\ Changed
    /\ UNCHANGED <<stand, dead, asleep, archived, heard, unread, missed, lost>>

\* The trigger a settlement is for: the running one, if it is of that run.
ForDuty(c) == duty[c.who].scope # "none" /\ c.run # "chat"

\* An event that settles nothing schedules no drain.
settledForNothing ==
    /\ NextIs("settle") /\ ~ForDuty(Head(work))
    /\ UNCHANGED <<goal, stand, waiting, duty, seat, endedAs, attention, dead, wanted, asleep,
                   archived, heard, unread, missed, lost, moves>>

settledIgnored ==
    /\ NextIs("settle") /\ ~ForDuty(Head(work))
    /\ Changed
    /\ UNCHANGED <<goal, stand, waiting, duty, seat, endedAs, attention, dead, asleep, archived,
                   heard, unread, missed, lost, moves>>

settled ==
    /\ NextIs("settle") /\ ForDuty(Head(work))
    /\ LET c == Head(work)
           m == c.who
           t == duty[m]
           ofGoal == t.scope = "goal"
           failed == c.outcome = "failed"
           idled == ~t.said /\ ~t.assessed /\ t.scope # "cancelled"
                    /\ ~(ofGoal /\ goal.status = "cancelled")
           sta == IF failed /\ (ofGoal \/ LinkedTo(t.scope)) THEN [stand EXCEPT ![m] = "none"]
                  ELSE stand
           current == ofGoal /\ t.assessed /\ sta[m] \in {"satisfied", "objects"}
           done == IF current \/ (t.scope \in RoomScope /\ t.read) THEN {t.scope} ELSE {}
           again == IF ~failed /\ ofGoal /\ OpenGoal /\ m \in goal.required /\ t.assessed /\ ~current
                    THEN {"goal"} ELSE {}
           att == IF failed \/ idled THEN [attention EXCEPT ![m] = ThreadOf(t.scope)] ELSE attention
           wai == [waiting EXCEPT ![m] = (@ \ done) \cup again]
           dut == [duty EXCEPT ![m] = NoDuty] IN
       /\ stand' = sta /\ attention' = att /\ waiting' = wai /\ duty' = dut
       /\ goal' = IF ofGoal \/ LinkedTo(t.scope) THEN Completed(goal, att, sta, wai, dut) ELSE goal
    /\ endedAs' = [endedAs EXCEPT ![Head(work).who] = "no"]
    /\ Changed
    /\ UNCHANGED <<seat, dead, asleep, archived, heard, unread, missed, lost, moves>>

\* A command that is not committed is undone, the run it launched is killed, and nobody sends
\* it again before a restart or, for a start, the next change.
WorkLost ==
    /\ Next1 /\ Move /\ ~Recovering
    /\ lost' = TRUE
    /\ UNCHANGED <<goal, stand, waiting, duty, seat, endedAs, attention, dead, wanted, asleep,
                   archived, heard, unread, missed>>

killAllMembers ==
    /\ Move /\ ~Recovering
    /\ LET killed == {m \in Mate : seat[m] \in {"turn", "chat"}} IN
       /\ seat' = [m \in Mate |-> IF m \in killed THEN "dying" ELSE seat[m]]
       /\ dead' = dead \cup killed
       /\ work' = work \o SetToSeq({Settlement(m, "any", "failed") : m \in killed})
    /\ asleep' = TRUE
    /\ UNCHANGED <<goal, stand, waiting, duty, endedAs, attention, wanted, archived, heard, unread,
                   missed, lost>>

\* The runtime is started anew: turns that were running are settled first, as completed when
\* the session shows that they were.  A run that was queued is started all the same.
recoverTurns ==
    /\ Move
    /\ work' = SetToSeq({Settlement(m, "restart",
                                    IF endedAs[m] = "completed" /\ seat[m] = "no" /\ m \notin dead
                                    THEN "completed" ELSE "failed")
                         : m \in {m \in Mate : duty[m].scope # "none"}})
    /\ \E queued \in SUBSET {m \in Mate : seat[m] \in {"turn", "chat"}} :
         seat' = [m \in Mate |-> IF m \in queued THEN "chat" ELSE "no"]
    /\ wanted' = TRUE /\ asleep' = FALSE /\ lost' = FALSE
    /\ UNCHANGED <<goal, stand, waiting, duty, endedAs, attention, dead, archived, heard, unread,
                   missed>>

CollaborationNext ==
    \/ \E s \in Thread, who \in SUBSET Mate : PersonWritesInRoom(s, who)
    \/ \E issue \in {"none", "open", "resolved"} : PersonWritesInDiscussion(issue)
    \/ \E linked \in BOOLEAN, required \in SUBSET Mate : startDiscussion(linked, required)
    \/ \E required \in SUBSET Mate : reviseDiscussion(required)
    \/ \E raised \in BOOLEAN : resumeDiscussion(raised)
    \/ pauseDiscussion \/ cancelDiscussion \/ archive
    \/ \E m \in Mate :
         \/ \E thread \in RoomScope : retryMember(m, thread)
         \/ \E issue \in {"none", "open", "resolved"} : postInDiscussion(m, issue)
         \/ \E verdict \in {"satisfied", "objects"} : assess(m, verdict)
         \/ \E outcome \in {"completed", "failed"} : RunEnds(m, outcome)
         \/ Chat(m) \/ killMember(m) \/ readUpdates(m) \/ postInRoom(m) \/ assessObjecting(m)
         \/ KilledRunCloses(m)
    \/ drainTriggers \/ dispatchTriggerSkipped \/ dispatchTriggerCapped
    \/ \E starts \in BOOLEAN : dispatchTrigger(starts)
    \/ settledIgnored \/ settled \/ WorkLost \/ killAllMembers \/ recoverTurns

CollaborationSpec == CollaborationInit /\ [][CollaborationNext]_mateVars

-----------------------------------------------------------------------------

CollaborationTypeOK ==
    /\ goal \in [status : {"none", "active", "paused", "completed", "cancelled"}, linked : BOOLEAN,
                 required : SUBSET Mate, left : 0 .. TurnCap,
                 issue : {"none", "open", "resolved"}]
    /\ stand \in [Mate -> {"none", "satisfied", "objects"}]
    /\ waiting \in [Mate -> SUBSET Scope]
    /\ duty \in [Mate -> [scope : {"none", "past", "cancelled"} \cup Scope,
                          read : BOOLEAN, said : BOOLEAN, assessed : BOOLEAN]]
    /\ seat \in [Mate -> {"no", "turn", "chat", "dying"}]
    /\ endedAs \in [Mate -> {"no", "completed", "failed"}]
    /\ attention \in [Mate -> {"no"} \cup RoomScope]
    /\ {heard, unread, missed, dead} \subseteq SUBSET Mate
    /\ {wanted, asleep, archived, lost} \subseteq BOOLEAN
    /\ work \in Seq([kind : {"start"}, who : Mate, scope : Scope, run : {"no"}, outcome : {"no"}]
                    \cup [kind : {"settle"}, who : Mate, scope : {"none"},
                          run : {"turn", "chat", "any", "restart"},
                          outcome : {"completed", "failed"}])
    /\ moves \in 0 .. MaxMoves

\* Who counts for an agreement was given all the evidence, or has published since it came:
\* publishing counts as reading (collaborationRuntime.ts:203).
AgreementInformed ==
    goal.status = "completed" => goal.required \subseteq heard \cup unread

AtRest ==
    /\ work = <<>> /\ ~wanted /\ ~asleep /\ ~archived /\ ~lost
    /\ \A m \in Mate : seat[m] = "no"

\* A member the goal waits for: it asks for a retry, or was killed with a trigger that waits.
HoldsUp(m) ==
    \/ attention[m] # "no" /\ \/ m \in goal.required
                              \/ goal.linked /\ "source" \in waiting[m] \cup {attention[m]}
    \/ m \in dead /\ ("goal" \in Startable(m) \/ (goal.linked /\ "source" \in Startable(m)))

\* When nothing is going on, no turn is under way or could be started; and a discussion that is
\* still active waits for a person: a member holds it up or an issue is open.
WaitsForPerson ==
    AtRest =>
        /\ \A m \in Mate : duty[m].scope = "none" /\ (Startable(m) = {} \/ m \in dead)
        /\ goal.status = "active" => goal.issue = "open" \/ missed # {} \/ \E m \in Mate : HoldsUp(m)
=============================================================================
