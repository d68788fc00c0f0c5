--------------------------- MODULE ContextChannel ---------------------------
(***************************************************************************)
(* The inbox of one session (contextChannel.ts): what is delivered, what a *)
(* turn was told of, and what becomes unread again when a turn or a        *)
(* command comes to nothing.                                               *)
(*                                                                         *)
(* The inbox is files, and is written when a handler runs; the fact of a   *)
(* delivery and the turn are written when its command commits.  A process  *)
(* may end in between.  The commands here await nothing but an activation  *)
(* its launch, and a session has one turn: no callback of this session     *)
(* meets an open command.                                                  *)
(*                                                                         *)
(* Left out: topics (a newer delivery shadows an older one of its topic,   *)
(* and both are read together), payload files, artifacts, kills (a killed  *)
(* session is never activated again), workspaces of new sessions, and a    *)
(* command sent again under the id of one that failed.                     *)
(***************************************************************************)
EXTENDS Naturals, Sequences, FiniteSets, SequencesExt

CONSTANTS MaxDelivery, \* bounds: deliveries tried
          MaxJolt      \* commands that fail, turns that fail or are lost, cleanups, restarts

ASSUME ChannelAssumption == {MaxDelivery, MaxJolt} \subseteq Nat

VARIABLES
  inbox,     \* manifest.json: sequence number, delivery, whether it is marked read
  delivered, \* deliveries with a `delivered' event in the log
  turn,      \* of the session: queued or running, what its message lists, any output
  handling,  \* the open command with the manifest before it; or NoHandler
  sweep,     \* channel-cleanup effects in the outbox: maxReadEntries of each
  seenOf,    \* history: deliveries whose listing an agent saw
  gone,      \* history: what an agent may never see (Forgets), and what has no fact
  jolts      \* history: what was used of MaxJolt

channelVars == <<inbox, delivered, turn, handling, sweep, seenOf, gone, jolts>>

-----------------------------------------------------------------------------
\* The manifest (ContextChannelStore).

Delivery == 1 .. MaxDelivery
Entry(seq, d) == [seq |-> seq, of |-> d, read |-> FALSE]
NoTurn == [at |-> "none", lists |-> {}, output |-> FALSE]
NoHandler == [kind |-> "none", before |-> <<>>, of |-> {}, lists |-> {}]

Unread(in) == {[seq |-> e.seq, of |-> e.of] : e \in {x \in ToSet(in) : ~x.read}}
NextSeq(in) == IF in = <<>> THEN 1 ELSE Last(in).seq + 1
deliver(in, d) == Append(in, Entry(NextSeq(in), d))
\* markRead(max of what is listed): everything is listed, so everything is marked.
markRead(in) == [i \in DOMAIN in |-> [in[i] EXCEPT !.read = TRUE]]
unmarkRead(in, lists) ==
  [i \in DOMAIN in |->
     IF \E l \in lists : l.seq = in[i].seq THEN [in[i] EXCEPT !.read = FALSE] ELSE in[i]]
\* Without a time limit the newest `keep' read entries stay, and all that are unread.
survives(in, keep, i) ==
  ~in[i].read \/ Cardinality({j \in DOMAIN in : j > i /\ in[j].read}) < keep
cleanup(in, keep) ==
  LET left[i \in 0 .. Len(in)] ==
        IF i = 0 THEN <<>>
        ELSE IF survives(in, keep, i) THEN Append(left[i - 1], in[i]) ELSE left[i - 1]
  IN  left[Len(in)]

Of(lists) == {l.of : l \in lists}
Jolt == jolts < MaxJolt /\ jolts' = jolts + 1
\* What `lists' told of is lost for the agent: nothing marks it unread.
Forgets(lists) == gone' = gone \cup (Of(lists) \ seenOf)

ChannelInit ==
  /\ inbox = <<>> /\ delivered = {} /\ turn = NoTurn /\ handling = NoHandler
  /\ sweep = <<>> /\ seenOf = {} /\ gone = {} /\ jolts = 0

-----------------------------------------------------------------------------
\* Commands.  The handler writes the files (checkpointChannelMutation, deliver, markRead).

\* The firing of a slot is declared without a journal.
journalsActivationsOnly(kind) == kind = "activate"
\* The commands whose deployment journal holds the manifest they found: an activation by a
\* person and the firing of a slot (rule_execute_activation) have one, a delivery has not.
automaticallyJournaledWorkflow(kind) == kind \in {"activate", "fire"}

Tried == delivered \cup gone \cup {e.of : e \in ToSet(inbox)}
Upcoming == {d \in Delivery \ Tried : \A x \in Delivery \ Tried : d <= x}

\* deliver and rule_deliver: one entry, whatever the session does.
cmdDeliver ==
  /\ handling = NoHandler
  /\ \E d \in Upcoming :
       /\ inbox' = deliver(inbox, d)
       /\ handling' = [kind |-> "deliver", before |-> inbox, of |-> {d}, lists |-> {}]
  /\ UNCHANGED <<delivered, turn, sweep, seenOf, gone, jolts>>

\* activate: the message lists all that is unread, and all of it is marked.
runActivation ==
  /\ handling = NoHandler /\ turn.at = "none"
  /\ inbox' = markRead(inbox)
  /\ handling' = [kind |-> "activate", before |-> inbox, of |-> {},
                  lists |-> Unread(inbox)]
  /\ UNCHANGED <<delivered, turn, sweep, seenOf, gone, jolts>>

\* rule_execute_activation delivers what the slot carries, if anything, and activates in one
\* command.
executeApprovedSlot ==
  /\ handling = NoHandler /\ turn.at = "none"
  /\ \E ds \in SUBSET Upcoming :
       LET now == IF ds = {} THEN inbox ELSE deliver(inbox, CHOOSE d \in ds : TRUE) IN
       /\ inbox' = markRead(now)
       /\ handling' = [kind |-> "fire", before |-> inbox, of |-> ds, lists |-> Unread(now)]
  /\ UNCHANGED <<delivered, turn, sweep, seenOf, gone, jolts>>

\* cleanup_channels stages an effect.
cmdCleanupChannels(keep) ==
  /\ handling = NoHandler /\ sweep = <<>> /\ Jolt
  /\ sweep' = Append(sweep, keep)
  /\ UNCHANGED <<inbox, delivered, turn, handling, seenOf, gone>>

\* The command commits: its facts, and the turn it launched or queued.
CommandKept(at) ==
  /\ handling # NoHandler
  /\ delivered' = delivered \cup handling.of
  /\ turn' = IF handling.kind = "deliver" THEN turn
             ELSE [at |-> at, lists |-> handling.lists, output |-> FALSE]
  /\ handling' = NoHandler
  /\ UNCHANGED <<inbox, sweep, seenOf, gone, jolts>>

\* The handler throws (full queue, budget, a launch that fails) or the commit does: restore.
CommandFails ==
  /\ handling # NoHandler /\ Jolt
  /\ inbox' = handling.before
  /\ handling' = NoHandler
  /\ UNCHANGED <<delivered, turn, sweep, seenOf, gone>>

\* drainDurableEffects, after a commit and when a runtime starts.
CleanupRuns ==
  /\ handling = NoHandler /\ sweep # <<>>
  /\ inbox' = cleanup(inbox, Head(sweep))
  /\ sweep' = Tail(sweep)
  /\ UNCHANGED <<delivered, turn, handling, seenOf, jolts>>
  /\ LET kept == {e.of : e \in ToSet(inbox')}
     IN  Forgets({l \in turn.lists : l.of \notin kept})

-----------------------------------------------------------------------------
\* The turn.

\* markRunProducedOutput.
ProducesOutput ==
  /\ handling = NoHandler /\ turn.at = "running" /\ ~turn.output
  /\ turn' = [turn EXCEPT !.output = TRUE]
  /\ seenOf' = seenOf \cup Of(turn.lists)
  /\ UNCHANGED <<inbox, delivered, handling, sweep, gone, jolts>>

\* A process that ends well has read its message, whether or not it said anything.
TurnCompletes ==
  /\ handling = NoHandler /\ turn.at = "running"
  /\ turn' = NoTurn
  /\ seenOf' = seenOf \cup Of(turn.lists)
  /\ UNCHANGED <<inbox, delivered, handling, sweep, gone, jolts>>

\* The listing of a turn that failed stays read.
failSessionKeepingRead ==
  /\ handling = NoHandler /\ turn.at = "running" /\ Jolt
  /\ turn' = NoTurn
  /\ UNCHANGED <<inbox, delivered, handling, sweep, seenOf, gone>>

\* failSession: the agent of a turn without output never saw the listing.
failSession ==
  /\ handling = NoHandler /\ turn.at = "running" /\ Jolt
  /\ inbox' = IF turn.output THEN inbox ELSE unmarkRead(inbox, turn.lists)
  /\ turn' = NoTurn
  /\ UNCHANGED <<delivered, handling, sweep, seenOf, gone>>

\* drainRunQueue: the request of the queued turn carries what its message lists.
QueuedTurnLaunched ==
  /\ handling = NoHandler /\ turn.at = "queued"
  /\ turn' = [turn EXCEPT !.at = "running"]
  /\ UNCHANGED <<inbox, delivered, handling, sweep, seenOf, gone, jolts>>

\* The budget refuses it, or its launch fails before the run has a context: the entry has left
\* the queue, and failSession finds no context that says what was listed.
QueuedTurnLost ==
  /\ handling = NoHandler /\ turn.at = "queued" /\ Jolt
  /\ turn' = NoTurn
  /\ Forgets(turn.lists)
  /\ UNCHANGED <<inbox, delivered, handling, sweep, seenOf>>

\* The process ends and another one starts.  recoverWorkflowDeployments puts back the manifest
\* that a command with a journal found; the entry of a delivery stays, without its fact.  A
\* running turn has failed, and nothing unmarks what it listed.
RestartWithInbox ==
  LET recovers == automaticallyJournaledWorkflow(handling.kind)
      unlogged == IF recovers THEN {} ELSE handling.of
      unseen == IF turn.at = "running" THEN Of(turn.lists) ELSE {}
  IN  /\ Jolt
      /\ inbox' = IF recovers THEN handling.before ELSE inbox
      /\ handling' = NoHandler
      /\ turn' = IF turn.at = "running" THEN NoTurn ELSE turn
      /\ gone' = gone \cup ((unlogged \cup unseen) \ seenOf)
      /\ UNCHANGED <<delivered, sweep, seenOf>>

ChannelNext ==
  \/ cmdDeliver \/ runActivation \/ executeApprovedSlot
  \/ \E keep \in 0 .. 1 : cmdCleanupChannels(keep)
  \/ \E at \in {"queued", "running"} : CommandKept(at)
  \/ CommandFails \/ CleanupRuns
  \/ ProducesOutput \/ TurnCompletes \/ failSession \/ QueuedTurnLaunched \/ QueuedTurnLost
  \/ RestartWithInbox

ChannelSpec == ChannelInit /\ [][ChannelNext]_channelVars

-----------------------------------------------------------------------------

Listing == [seq : Nat, of : Delivery]
ChannelTypeOK ==
  /\ inbox \in Seq([seq : Nat, of : Delivery, read : BOOLEAN])
  /\ delivered \subseteq Delivery
  /\ turn.at \in {"none", "queued", "running"} /\ turn.lists \subseteq Listing
  /\ turn.output \in BOOLEAN
  /\ handling.kind \in {"none", "deliver", "activate", "fire"}
  /\ sweep \in Seq(0 .. 1) /\ seenOf \subseteq Delivery /\ gone \subseteq Delivery
  /\ jolts \in 0 .. MaxJolt

\* Between commands the inbox and the log agree, and nothing is missed: what the log says was
\* delivered was shown to an agent, or is unread, or is listed by the turn under way.  The
\* exceptions (gone) are what the code lets happen: a crash inside a delivery, whose entry
\* then has no fact, or before the output of a turn, a queued turn that is never launched, and
\* a cleanup that removes what a turn has yet to read.  A crash inside an activation or a
\* firing is none: all it did to the inbox is undone.
NothingMissed ==
  handling = NoHandler =>
    /\ \A d \in delivered \ gone :
         \/ d \in seenOf \cup Of(turn.lists)
         \/ \E e \in ToSet(inbox) : e.of = d /\ ~e.read
    /\ \A e \in ToSet(inbox) : e.of \in delivered \cup gone
    /\ \A i, j \in DOMAIN inbox : i < j => inbox[i].seq < inbox[j].seq
=============================================================================
