----------------------------- MODULE ClientSync -----------------------------
(***************************************************************************)
(* How a session's transcript reaches a client.                            *)
(*                                                                         *)
(* The runtime emits one event per provider delta.  The batched emitter    *)
(* holds them back and flushes them in order; an event that carries the    *)
(* whole state drops what is held, "because it already contains it".  The  *)
(* client batches once more, with the same rule, and takes a snapshot only *)
(* when preferRuntimeSnapshot finds it not older than what it shows.       *)
(*                                                                         *)
(* What is abstracted: one session; a delta is a number and a transcript   *)
(* the sequence of them; timers fire at any time; a state is its           *)
(* transcript, controlVersion and updatedAt.                               *)
(***************************************************************************)
EXTENDS Naturals, Sequences, SequencesExt

CONSTANTS MaxDelta,     \* deltas the provider emits
          MaxRound      \* commands, state-bearing broadcasts from outside a command,
                        \* getState requests and breaks of the event stream, all together

ASSUME SyncAssumption ==
    {MaxDelta, MaxRound} \subseteq Nat

VARIABLES
    live,      \* the state in the runtime's memory
    saved,     \* what readState answers from outside an open command, or NoCommand
    clock,     \* Date.now(): every touch takes a later instant
    sendBatch, \* pendingRuns of the batched emitter
    wire,      \* the event stream, in order
    reply,     \* the getState answer on its way, on a connection of its own
    view,      \* the client's state
    viewBatch, \* pendingStreamEvents of the client
    slips,     \* history: how often a delta may have been lost or shown twice
    healed,    \* history: how many of the slips a later snapshot has undone
    emitted,   \* history: deltas so far
    rounds     \* history: what was used of MaxRound

syncVars == <<live, saved, clock, sendBatch, wire, reply, view, viewBatch, slips, healed, emitted, rounds>>

NoCommand == [open |-> FALSE]
NoReply == [on |-> FALSE]
Unloaded == [text |-> <<>>, version |-> 0, at |-> 0, loaded |-> FALSE]

SyncInit ==
    /\ live = [text |-> <<>>, version |-> 1, at |-> 1, loaded |-> TRUE]
    /\ saved = NoCommand
    /\ clock = 1
    /\ sendBatch = <<>> /\ wire = <<>> /\ viewBatch = <<>>
    /\ reply = NoReply
    /\ view = Unloaded
    /\ slips = 1 /\ healed = 0
    /\ emitted = 0 /\ rounds = 0

Round == rounds < MaxRound /\ rounds' = rounds + 1 /\ UNCHANGED emitted

\* readState from outside the open command: the state of the command's start.
PublicState == IF saved = NoCommand THEN live ELSE saved.state

-----------------------------------------------------------------------------
(* The client's rules.                                                     *)

\* An older snapshot never replaces a newer one.
preferRuntimeSnapshot(current, incoming) ==
    IF incoming.version # current.version
    THEN IF incoming.version > current.version THEN incoming ELSE current
    ELSE IF incoming.at < current.at THEN current ELSE incoming

\* A delta is applied once when it repeats the last one; an event of a session
\* the client has not loaded is ignored.
applyDelta(state, d) ==
    IF ~ state.loaded \/ (state.text # <<>> /\ Last(state.text) = d.id) THEN state
    ELSE [state EXCEPT !.text = Append(@, d.id), !.at = IF d.ts > @ THEN d.ts ELSE @]

applyStreamEvents(state, batch) ==
    LET shown[i \in 0 .. Len(batch)] ==
          IF i = 0 THEN state ELSE applyDelta(shown[i - 1], batch[i])
    IN shown[Len(batch)]

-----------------------------------------------------------------------------
(* The batched emitter.                                                    *)

Stream(batch) == IF batch = <<>> THEN <<>> ELSE <<[kind |-> "stream", batch |-> batch]>>

\* The snapshot is fresh when it contains every delta emitted so far.
Boundary(state, fresh) ==
    [kind |-> "state", state |-> state, fresh |-> fresh, covers |-> slips]

\* The timer of the batch, or an event without a state (a kernel event).
FlushBatch ==
    /\ sendBatch # <<>>
    /\ wire' = wire \o Stream(sendBatch)
    /\ sendBatch' = <<>>
    /\ UNCHANGED <<live, saved, clock, reply, view, viewBatch, slips, healed, emitted, rounds>>

\* A state-bearing event: the held batch is dropped, the snapshot crosses.
publishState(state, fresh) ==
    /\ sendBatch' = <<>>
    /\ wire' = Append(wire, Boundary(state, fresh))

-----------------------------------------------------------------------------
(* The runtime.                                                            *)

\* A provider callback: the live state takes the delta at once, whether or not
\* a command is open, and the event is handed to the emitter.
ProviderDelta ==
    /\ emitted < MaxDelta
    /\ LET d == [id |-> emitted + 1, ts |-> clock + 1] IN
        /\ live' = [live EXCEPT !.text = Append(@, d.id), !.at = d.ts]
        /\ clock' = d.ts
        /\ sendBatch' = Append(sendBatch, d)
    /\ emitted' = emitted + 1
    /\ UNCHANGED <<rounds, saved, wire, reply, view, viewBatch, slips, healed>>

\* The executor opens a command: from now on readers outside it see the checkpoint.
OpenCommand ==
    /\ saved = NoCommand
    /\ saved' = [open |-> TRUE, state |-> live]
    /\ Round
    /\ UNCHANGED <<live, clock, sendBatch, wire, reply, view, viewBatch, slips, healed>>

\* The command commits: the deferred broadcasts read the live state again.
CommitCommand ==
    /\ saved # NoCommand
    /\ live' = [live EXCEPT !.version = @ + 1, !.at = clock + 1]
    /\ clock' = clock + 1
    /\ saved' = NoCommand
    /\ publishState(live', TRUE)
    /\ UNCHANGED <<reply, view, viewBatch, slips, healed, emitted, rounds>>

\* The command fails: memory goes back to the checkpoint and nothing is
\* broadcast, so a client keeps the deltas it was sent in between.
AbortCommand ==
    /\ saved # NoCommand
    /\ live' = saved.state
    /\ saved' = NoCommand
    /\ slips' = slips + (IF live.text = saved.state.text THEN 0 ELSE 1)
    /\ UNCHANGED <<clock, sendBatch, wire, reply, view, viewBatch, healed, emitted, rounds>>

\* A callback outside any command (a run that ends, a poll) touches the state
\* and broadcasts it, as readers outside the open command see it.
BroadcastState ==
    /\ clock' = clock + 1
    /\ live' = [live EXCEPT !.at = clock + 1]
    /\ LET shown == IF saved = NoCommand THEN live' ELSE saved.state IN
        /\ publishState(shown, shown.text = live.text)
        /\ slips' = slips + (IF shown.text = live.text THEN 0 ELSE 1)
    /\ Round
    /\ UNCHANGED <<saved, reply, view, viewBatch, healed>>

-----------------------------------------------------------------------------
(* The client.                                                             *)

\* The client keeps its batch across a state event.
TakeStateKeepingBatch ==
    /\ wire # <<>> /\ Head(wire).kind = "state"
    /\ LET m == Head(wire)
           next == preferRuntimeSnapshot(view, m.state) IN
        /\ view' = next
        /\ healed' = IF m.fresh /\ next = m.state /\ m.covers > healed THEN m.covers ELSE healed
    /\ wire' = Tail(wire)
    /\ UNCHANGED <<live, saved, clock, sendBatch, viewBatch, reply, slips, emitted, rounds>>

\* A state event drops the client's own batch and offers its snapshot.
TakeState ==
    /\ wire # <<>> /\ Head(wire).kind = "state"
    /\ LET m == Head(wire)
           next == preferRuntimeSnapshot(view, m.state) IN
        /\ view' = next
        /\ healed' = IF m.fresh /\ next = m.state /\ m.covers > healed THEN m.covers ELSE healed
    /\ viewBatch' = <<>>
    /\ wire' = Tail(wire)
    /\ UNCHANGED <<live, saved, clock, sendBatch, reply, slips, emitted, rounds>>

TakeStream ==
    /\ wire # <<>> /\ Head(wire).kind = "stream"
    /\ viewBatch' = viewBatch \o Head(wire).batch
    /\ wire' = Tail(wire)
    /\ UNCHANGED <<live, saved, clock, sendBatch, reply, view, slips, healed, emitted, rounds>>

RenderBatch ==
    /\ viewBatch # <<>>
    /\ view' = applyStreamEvents(view, viewBatch)
    /\ viewBatch' = <<>>
    /\ UNCHANGED <<live, saved, clock, sendBatch, wire, reply, slips, healed, emitted, rounds>>

\* getState is answered from the server's memory at some moment ...
AskState ==
    /\ reply = NoReply
    /\ reply' = [on |-> TRUE, state |-> PublicState, seen |-> emitted, covers |-> slips]
    /\ Round
    /\ UNCHANGED <<live, saved, clock, sendBatch, wire, view, viewBatch, slips, healed>>

\* ... and the answer may overtake the stream, or come after it.  It undoes what
\* was missed when nothing was on its way and nothing happened since.
TakeReply ==
    /\ reply # NoReply
    /\ LET next == preferRuntimeSnapshot(view, reply.state)
           quiet == /\ sendBatch = <<>> /\ wire = <<>> /\ viewBatch = <<>>
                    /\ reply.seen = emitted /\ reply.state.text = live.text
       IN /\ view' = next
          /\ healed' = IF quiet /\ next = reply.state THEN slips ELSE healed
          /\ slips' = IF quiet \/ next # reply.state THEN slips ELSE slips + 1
    /\ reply' = NoReply
    /\ UNCHANGED <<live, saved, clock, sendBatch, wire, viewBatch, emitted, rounds>>

\* The stream breaks and is opened again: nothing is replayed.
Reconnect ==
    /\ wire # <<>>
    /\ wire' = <<>>
    /\ slips' = slips + 1
    /\ Round
    /\ UNCHANGED <<live, saved, clock, sendBatch, reply, view, viewBatch, healed>>

SyncNext ==
    \/ FlushBatch \/ ProviderDelta \/ OpenCommand \/ CommitCommand \/ AbortCommand
    \/ BroadcastState \/ TakeState \/ TakeStream \/ RenderBatch
    \/ AskState \/ TakeReply \/ Reconnect

SyncSpec == SyncInit /\ [][SyncNext]_syncVars

-----------------------------------------------------------------------------
SyncTypeOK ==
    LET States == [text : Seq(1..MaxDelta), version : Nat, at : Nat, loaded : BOOLEAN]
        Deltas == [id : 1..MaxDelta, ts : Nat]
    IN /\ live \in States /\ view \in States
       /\ saved = NoCommand \/ saved.state \in States
       /\ sendBatch \in Seq(Deltas) /\ viewBatch \in Seq(Deltas)
       /\ \A i \in DOMAIN wire : \/ wire[i].kind = "stream" /\ wire[i].batch \in Seq(Deltas)
                                 \/ wire[i].kind = "state" /\ wire[i].state \in States
       /\ reply = NoReply \/ reply.state \in States
       /\ healed <= slips

\* When nothing is on its way, the client shows exactly the transcript the runtime
\* has, each delta once and in order: two batches, dropped snapshots and answers
\* that overtake the stream do not lose, repeat or reorder one.  The qualification
\* is what the code does not prevent and the next fresh boundary repairs: a
\* snapshot from outside an open command (it lacks the deltas it drops), a
\* rollback, a broken stream, and an answer to getState that crosses a delta.
ViewIsLive ==
    (/\ sendBatch = <<>> /\ wire = <<>> /\ viewBatch = <<>>
     /\ healed = slips)
    => view.text = live.text
=============================================================================
