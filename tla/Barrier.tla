------------------------------ MODULE Barrier ------------------------------
(***************************************************************************)
(* One barrier with a deadline (governanceRuntime.ts): arrivals, release,  *)
(* cancellation, and the timer of this process that dispatches its expiry. *)
(*                                                                         *)
(* The handlers await nothing, so a command is one step; when it is not    *)
(* committed the executor restores the barrier, but not the timer, which   *)
(* is no part of the state.  Envelopes are abstracted to the attempt: a    *)
(* wrong correlation is refused without a trace.                           *)
(***************************************************************************)
EXTENDS Integers, FiniteSets, Sequences

CONSTANTS Participant,  \* expectedParticipantKeys
          Required,     \* barrierRequiredCount: 1 (any), a quorum, or all of them
          MaxAttempt,   \* bound: attempts of a participant
          MaxStirs      \* bound: commands of others, lost commits, early timers, killAll, restarts

ASSUME BarrierAssumption ==
    /\ IsFiniteSet(Participant)
    /\ Required \in 1 .. Cardinality(Participant)
    /\ {MaxAttempt, MaxStirs} \subseteq Nat

VARIABLES
    barrier,   \* state.barriers[id]: status and the attempt that arrived, 0 for none
    timer,     \* barrierTimers has an entry
    past,      \* the deadline is over
    calls,     \* the chain of the executor
    keyUsed,   \* the idempotency key of the expiry is in the command ledger
    outcomes,  \* history: terminal events in the log
    unwatched, \* history: a lost commit, killAll or an early timer took the timer
    bstirs     \* history: what was used of MaxStirs

barrierVars == <<barrier, timer, past, calls, keyUsed, outcomes, unwatched, bstirs>>

TerminalStatus == {"released", "timed-out", "cancelled"}
BarrierCommand ==
    [kind : {"create", "cancel", "expire"}] \cup
    [kind : {"arrive"}, who : Participant, attempt : 1 .. MaxAttempt]

BarrierInit ==
    /\ barrier = [status |-> "none", arrivals |-> [p \in Participant |-> 0]]
    /\ timer = FALSE /\ past = FALSE /\ calls = <<>>
    /\ keyUsed = FALSE /\ outcomes = 0 /\ unwatched = FALSE
    /\ bstirs = 0

BStir == bstirs < MaxStirs /\ bstirs' = bstirs + 1

-----------------------------------------------------------------------------
(* What the handlers do to the barrier.                                    *)

Arrivals(b) == {p \in Participant : b.arrivals[p] # 0}
barrierIsSatisfied(b) == Cardinality(Arrivals(b)) >= Required

\* A retry takes the place of the attempt before it.
WithArrival(b, c) ==
    [b EXCEPT !.arrivals[c.who] = IF c.attempt > @ THEN c.attempt ELSE @]
Arriving(b, c) ==
    IF b.status # "pending" THEN b
    ELSE IF barrierIsSatisfied(WithArrival(b, c))
    THEN [WithArrival(b, c) EXCEPT !.status = "released"]
    ELSE WithArrival(b, c)

Handled(b, c) ==
    CASE c.kind = "create" /\ b.status = "none" -> [b EXCEPT !.status = "pending"]
      [] c.kind = "arrive" -> Arriving(b, c)
      [] c.kind = "cancel" /\ b.status = "pending" -> [b EXCEPT !.status = "cancelled"]
      [] c.kind = "expire" /\ ~keyUsed /\ b.status = "pending" /\ past ->
            [b EXCEPT !.status = "timed-out"]
      [] OTHER -> b

\* An expiry that comes before the deadline arms the timer again; it is committed, under the
\* key that every later expiry uses too.
TooEarly(c) == c.kind = "expire" /\ ~keyUsed /\ barrier.status = "pending" /\ ~past

\* The timer after the handler: release and cancellation clear it.
TimerAfter(c) ==
    IF Handled(barrier, c).status = "pending" /\ barrier.status = "none" THEN TRUE
    ELSE IF TooEarly(c) THEN TRUE
    ELSE timer /\ Handled(barrier, c).status \in {"none", "pending"}

-----------------------------------------------------------------------------

Dispatch(c) ==
    /\ c.kind # "expire" /\ BStir
    /\ calls' = Append(calls, c)
    /\ UNCHANGED <<barrier, timer, past, keyUsed, outcomes, unwatched>>

BarrierCommitted ==
    /\ calls # <<>>
    /\ LET c == Head(calls) IN
       /\ barrier' = Handled(barrier, c)
       /\ timer' = TimerAfter(c)
       /\ keyUsed' = (keyUsed \/ (c.kind = "expire" /\ barrier.status # "none"))
       /\ outcomes' = IF barrier'.status \in TerminalStatus /\ barrier.status \notin TerminalStatus
                      THEN outcomes + 1 ELSE outcomes
       /\ unwatched' = (unwatched \/ TooEarly(c))
    /\ calls' = Tail(calls)
    /\ UNCHANGED <<past, bstirs>>

\* commitControlCommand throws: the state of before comes back.
BarrierNotCommitted ==
    /\ calls # <<>> /\ BStir
    /\ LET c == Head(calls) IN
       /\ timer' = TimerAfter(c)
       /\ unwatched' = (unwatched \/ (c.kind = "expire" /\ barrier.status = "pending")
                                  \/ (timer /\ ~TimerAfter(c)))
    /\ calls' = Tail(calls)
    /\ UNCHANGED <<barrier, past, keyUsed, outcomes>>

\* A timer may fire before the wall clock has reached the deadline: it is cut at 2^31 - 1 ms,
\* it counts by another clock, and the wall clock is set.
TimerFires ==
    /\ timer
    /\ IF past THEN bstirs' = bstirs ELSE BStir
    /\ timer' = FALSE
    /\ calls' = Append(calls, [kind |-> "expire"])
    /\ UNCHANGED <<barrier, past, keyUsed, outcomes, unwatched>>

DeadlinePasses ==
    /\ ~past /\ past' = TRUE
    /\ UNCHANGED <<barrier, timer, calls, keyUsed, outcomes, unwatched, bstirs>>

clearBarrierTimers ==
    /\ BStir
    /\ timer' = FALSE
    /\ unwatched' = (unwatched \/ timer)
    /\ UNCHANGED <<barrier, past, calls, keyUsed, outcomes>>

\* Only a new barrier gets a timer.
recoverNoTimers ==
    /\ BStir
    /\ calls' = <<>> /\ timer' = FALSE
    /\ unwatched' = (barrier.status = "pending" /\ keyUsed)
    /\ UNCHANGED <<barrier, past, keyUsed, outcomes>>

\* A restart, which arms the timer of every barrier that is pending.
recoverBarrierTimers ==
    /\ BStir
    /\ calls' = <<>>
    /\ timer' = (barrier.status = "pending")
    /\ unwatched' = (barrier.status = "pending" /\ keyUsed)
    /\ UNCHANGED <<barrier, past, keyUsed, outcomes>>

BarrierNext ==
    \/ \E c \in BarrierCommand : Dispatch(c)
    \/ BarrierCommitted \/ BarrierNotCommitted
    \/ TimerFires \/ DeadlinePasses \/ clearBarrierTimers \/ recoverBarrierTimers

BarrierSpec == BarrierInit /\ [][BarrierNext]_barrierVars

-----------------------------------------------------------------------------

BarrierTypeOK ==
    /\ barrier \in [status : {"none", "pending"} \cup TerminalStatus,
                    arrivals : [Participant -> 0 .. MaxAttempt]]
    /\ timer \in BOOLEAN /\ past \in BOOLEAN /\ keyUsed \in BOOLEAN /\ unwatched \in BOOLEAN
    /\ calls \in Seq(BarrierCommand)
    /\ outcomes \in Nat /\ bstirs \in Nat

\* A barrier that is pending is watched: its timer runs or its expiry waits in the chain, and
\* that expiry will not be taken for a replay.  The exceptions, remembered in `unwatched`, are
\* what the code lets happen: a release, a cancellation or an expiry that is not committed, or
\* killAll, takes the timer and nobody arms it again; and an expiry that came too early uses
\* up the key of all that follow (governanceRuntime.ts:394 and :545-548).
PendingIsWatched ==
    barrier.status = "pending" /\ ~unwatched =>
        /\ ~keyUsed
        /\ timer \/ \E i \in DOMAIN calls : calls[i].kind = "expire"

\* A barrier ends once, over retries, lost commits and restarts: the log has one terminal
\* event when the status is terminal and none before; what is released has the arrivals
\* it requires, and what is pending does not.
EndsOnce ==
    /\ outcomes = IF barrier.status \in TerminalStatus THEN 1 ELSE 0
    /\ barrier.status = "released" => barrierIsSatisfied(barrier)
    /\ barrier.status \in {"none", "pending"} => ~barrierIsSatisfied(barrier)

\* What a barrier promises: it ends once, and until then somebody will end it.
BarrierKept == PendingIsWatched /\ EndsOnce
=============================================================================
