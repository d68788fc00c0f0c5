----------------------------- MODULE Ingestion -----------------------------
(***************************************************************************)
(* One external source: its registration, its git watcher, the choke point *)
(* every emit passes, and what killAll, a rollback and a restart do to it. *)
(*                                                                         *)
(* What is abstracted: payloads and their validation, tokens, lastError;   *)
(* a dedupe key is a head, and what other emitters send carries none or    *)
(* the key `Foreign`; the sampling interval is over or not (tooSoon).  The *)
(* script adapter differs only in what it reads and checks `stopped` after *)
(* its run, so it is left to the README.                                   *)
(***************************************************************************)
EXTENDS Naturals, Sequences, SequencesExt

CONSTANTS Commit,       \* commits the watched ref may point at
          Foreign,      \* the key of an event that another emitter sends
          MaxStir,      \* moves of the ref, commands, emits of another emitter, calls of
                        \* killAll and restarts, all together
          MaxWatcher    \* watchers ever created

ASSUME IngestAssumption ==
    /\ Foreign \notin Commit /\ Commit # {}
    /\ {MaxStir, MaxWatcher} \subseteq Nat

VARIABLES
    head,      \* the commit the ref points at
    source,    \* state.sources[id].state, or "none"
    anchor,    \* lastDedupeKey and whether minInterval since lastEventAt is not over
    extLog,    \* keys of the external.<topic> events in the kernel log
    watcher,   \* every watcher created so far
    enabled,   \* adaptersEnabled
    needed,    \* adapterReconciliationNeeded
    lifecycle, \* adapterLifecycleEpoch
    chain,     \* commands submitted, each with the epoch of its submission
    checkpoint,\* what a rollback of the open command restores, or Closed
    blurred,   \* history: the anchor was rolled back, a stopped poll or another emitter emitted
    stirs      \* history: what was used of MaxStir

ingestVars == <<head, source, anchor, extLog, watcher, enabled, needed, lifecycle, chain,
                checkpoint, blurred, stirs>>

NoKey == "none"
Closed == [open |-> FALSE]
Keys == Commit \cup {Foreign, NoKey}

IngestInit ==
    /\ head \in Commit
    /\ source = "none"
    /\ anchor = [key |-> NoKey, tooSoon |-> FALSE]
    /\ extLog = <<>> /\ watcher = <<>> /\ chain = <<>>
    /\ enabled = TRUE /\ needed = FALSE /\ lifecycle = 0
    /\ checkpoint = Closed
    /\ blurred = FALSE
    /\ stirs = 0

Stir == stirs < MaxStir /\ stirs' = stirs + 1

-----------------------------------------------------------------------------
(* The watchers.                                                           *)

Newborn == [at |-> "idle", stopped |-> FALSE, read |-> NoKey, lastAccepted |-> NoKey]

stopAllAdapters(ws) == [i \in DOMAIN ws |-> [ws[i] EXCEPT !.stopped = TRUE]]

\* Stop the source's watcher and, when the source is active, start a new one.
syncAdapterForSource(ws, state) ==
    LET stopped == stopAllAdapters(ws) IN
    IF state = "active" THEN Append(stopped, Newborn) ELSE stopped

\* The ref moves.
MoveHead ==
    /\ Stir
    /\ head' \in Commit \ {head}
    /\ UNCHANGED <<source, anchor, extLog, watcher, enabled, needed, lifecycle, chain,
                   checkpoint, blurred>>

\* A poll reads the ref; a head the log already took is not emitted again.
Poll(i) ==
    /\ watcher[i].at = "idle" /\ ~ watcher[i].stopped
    /\ head # watcher[i].lastAccepted
    /\ watcher' = [watcher EXCEPT ![i].at = "read", ![i].read = head]
    /\ UNCHANGED <<head, source, anchor, extLog, enabled, needed, lifecycle, chain,
                   checkpoint, blurred, stirs>>

\* externalIngestionDecision and the append of what it accepts.
Verdict(key) ==
    IF source # "active" THEN "removed"
    ELSE IF key # NoKey /\ key = anchor.key THEN "duplicate"
    ELSE IF anchor.tooSoon THEN "sampled"
    ELSE "ok"

emitExternalEvent(key) ==
    IF Verdict(key) = "ok"
    THEN /\ extLog' = Append(extLog, key)
         /\ anchor' = [key |-> key, tooSoon |-> TRUE]
    ELSE UNCHANGED <<extLog, anchor>>

\* The poll goes on after its awaits whether or not the watcher was stopped.
EmitHead(i) ==
    /\ watcher[i].at = "read"
    /\ emitExternalEvent(watcher[i].read)
    /\ watcher' = [watcher EXCEPT ![i].at = "idle",
           ![i].lastAccepted =
               IF Verdict(watcher[i].read) \in {"ok", "duplicate"} THEN watcher[i].read ELSE @]
    /\ blurred' = (blurred \/ (watcher[i].stopped /\ Verdict(watcher[i].read) = "ok"))
    /\ UNCHANGED <<head, source, enabled, needed, lifecycle, chain, checkpoint, stirs>>

\* The endpoint takes events of the same source from anyone.
EmitForeign ==
    /\ source # "none"
    /\ Stir
    /\ \E key \in {Foreign, NoKey} :
          /\ emitExternalEvent(key)
          /\ blurred' = (blurred \/ Verdict(key) = "ok")
    /\ UNCHANGED <<head, source, watcher, enabled, needed, lifecycle, chain, checkpoint>>

IntervalOver ==
    /\ anchor.tooSoon
    /\ anchor' = [anchor EXCEPT !.tooSoon = FALSE]
    /\ UNCHANGED <<head, source, extLog, watcher, enabled, needed, lifecycle, chain,
                   checkpoint, blurred, stirs>>

-----------------------------------------------------------------------------
(* Commands.                                                               *)

\* dispatch captures the epoch at once and queues behind the open command.
Submit(kind) ==
    /\ Stir
    /\ chain' = Append(chain, [kind |-> kind, epoch |-> lifecycle])
    /\ UNCHANGED <<head, source, anchor, extLog, watcher, enabled, needed, lifecycle,
                   checkpoint, blurred>>

\* A synchronisation that finds the adapters suspended is forgotten.
SettleForgetting(state, sync, epoch) ==
    LET synced == IF sync /\ enabled THEN syncAdapterForSource(watcher, state) ELSE watcher
        resumes == epoch = lifecycle
    IN /\ enabled' = (enabled \/ resumes)
       /\ needed' = (needed /\ ~ resumes)
       /\ watcher' = IF resumes /\ needed /\ state # "none"
                     THEN syncAdapterForSource(synced, state) ELSE synced

\* The staged synchronisation, then what every non-runtime command that commits
\* does: adapters are resumed when no killAll came after the submission.
Settle(state, sync, epoch) ==
    LET held == sync /\ ~ enabled
        synced == IF sync /\ enabled THEN syncAdapterForSource(watcher, state) ELSE watcher
        resumes == epoch = lifecycle
    IN /\ enabled' = (enabled \/ resumes)
       /\ IF resumes /\ (needed \/ held)
          THEN /\ needed' = FALSE
               /\ watcher' = IF state = "none" THEN synced
                             ELSE syncAdapterForSource(synced, state)
          ELSE /\ needed' = (needed \/ held)
               /\ watcher' = synced

\* A command that registers or removes the source runs and commits in one turn of
\* the event loop; one that throws changes nothing and resumes nothing.
RunCommand ==
    /\ chain # <<>> /\ checkpoint = Closed
    /\ Head(chain).kind \in {"register", "remove"}
    /\ LET c == Head(chain)
           wanted == IF c.kind = "register" THEN "active" ELSE "removed"
           fails == IF c.kind = "register" THEN source # "none" ELSE source = "none"
       IN /\ source' = IF fails THEN source ELSE wanted
          /\ IF fails THEN UNCHANGED <<watcher, enabled, needed>>
             ELSE Settle(wanted, source # wanted, c.epoch)
    /\ chain' = Tail(chain)
    /\ UNCHANGED <<head, anchor, extLog, lifecycle, checkpoint, blurred, stirs>>

\* Any other command may wait for a provider while it is open.
OpenSlow ==
    /\ chain # <<>> /\ checkpoint = Closed /\ Head(chain).kind = "slow"
    /\ checkpoint' = [open |-> TRUE, anchor |-> anchor]
    /\ UNCHANGED <<head, source, anchor, extLog, watcher, enabled, needed, lifecycle, chain,
                   blurred, stirs>>

CommitSlow ==
    /\ checkpoint # Closed
    /\ Settle(source, FALSE, Head(chain).epoch)
    /\ chain' = Tail(chain)
    /\ checkpoint' = Closed
    /\ UNCHANGED <<head, source, anchor, extLog, lifecycle, blurred, stirs>>

\* The rollback of memory takes the anchors of the events accepted meanwhile
\* with it; the events stay in the log.
AbortSlow ==
    /\ checkpoint # Closed
    /\ anchor' = checkpoint.anchor
    /\ blurred' = (blurred \/ anchor.key # checkpoint.anchor.key)
    /\ chain' = Tail(chain)
    /\ checkpoint' = Closed
    /\ UNCHANGED <<head, source, extLog, watcher, enabled, needed, lifecycle, stirs>>

-----------------------------------------------------------------------------
(* Shutdown and restart.                                                   *)

suspendAdapters ==
    /\ Stir
    /\ lifecycle' = lifecycle + 1
    /\ enabled' = FALSE
    /\ needed' = (needed \/ source = "active")
    /\ watcher' = stopAllAdapters(watcher)
    /\ UNCHANGED <<head, source, anchor, extLog, chain, checkpoint, blurred>>

\* The process is gone: anchors are taken from the log whatever the snapshot held.
recoverSourceAnchors ==
    /\ Stir
    /\ anchor' = [anchor EXCEPT !.key = IF extLog = <<>> THEN @ ELSE Last(extLog)]
    /\ watcher' = syncAdapterForSource(
           [i \in DOMAIN watcher |-> [watcher[i] EXCEPT !.at = "dead"]], source)
    /\ enabled' = TRUE /\ needed' = FALSE /\ lifecycle' = 0
    /\ chain' = <<>> /\ checkpoint' = Closed
    /\ blurred' = FALSE
    /\ UNCHANGED <<head, source, extLog>>

IngestNext ==
    /\ Len(watcher) < MaxWatcher
    /\ \/ \E i \in DOMAIN watcher : Poll(i) \/ EmitHead(i)
       \/ \E kind \in {"register", "remove", "slow"} : Submit(kind)
       \/ MoveHead \/ EmitForeign \/ IntervalOver
       \/ RunCommand \/ OpenSlow \/ CommitSlow \/ AbortSlow
       \/ suspendAdapters \/ recoverSourceAnchors

IngestSpec == IngestInit /\ [][IngestNext]_ingestVars

-----------------------------------------------------------------------------
IngestTypeOK ==
    /\ head \in Commit
    /\ source \in {"none", "active", "removed"}
    /\ anchor \in [key : Keys, tooSoon : BOOLEAN]
    /\ extLog \in Seq(Keys)
    /\ watcher \in Seq([at : {"idle", "read", "dead"}, stopped : BOOLEAN,
                        read : Commit \cup {NoKey}, lastAccepted : Commit \cup {NoKey}])
    /\ {enabled, needed, blurred} \subseteq BOOLEAN
    /\ lifecycle \in Nat
    /\ \A c \in ToSet(chain) : c.kind \in {"register", "remove", "slow"} /\ c.epoch <= MaxStir

Live(i) == watcher[i].at # "dead" /\ ~ watcher[i].stopped

\* A source has exactly one live watcher while it is active and adapters run, and
\* none after killAll or its removal, whatever order registrations, removals,
\* killAll and late commits come in; work submitted before killAll revives nothing.
OneWatcher ==
    /\ \A i, j \in DOMAIN watcher : Live(i) /\ Live(j) => i = j
    /\ (\E i \in DOMAIN watcher : Live(i)) <=> (enabled /\ source = "active")

\* A watcher that goes quiet is right: the last event the log holds of its source
\* carries the head it stopped at.  The qualification is what the code does not
\* prevent: a rollback that takes back the anchors, a poll that outlives the
\* stop of its watcher, an emit of someone else.
QuietIsLogged ==
    \A i \in DOMAIN watcher :
        Live(i) /\ watcher[i].lastAccepted # NoKey /\ ~ blurred
        => extLog # <<>> /\ Last(extLog) = watcher[i].lastAccepted

\* One watcher per live source, and quiet only about what is in the log.
WatchersHold == OneWatcher /\ QuietIsLogged
=============================================================================
