----------------------------- MODULE LoopControl -----------------------------
(***************************************************************************)
(* The durable control plane of a loop run of the Codex plugin: commands   *)
(* of the root task, typed reports of the workers, decisions of the        *)
(* continuation governor, and the receipts that make them crash-safe       *)
(* (lib/control/, lib/governor.mjs, the facts of lib/store.mjs).           *)
(*                                                                         *)
(* Everything happens under control.lock; a caller publishes immutable     *)
(* facts, then a receipt, then the next state.  A caller may die between   *)
(* any two of these; the next one that takes the lock finishes the receipt *)
(* it finds.                                                               *)
(*                                                                         *)
(* Left out: corrupt files, digests and requests with the same id and      *)
(* other content, worker bindings (written once, before start), hook       *)
(* events, and how the lock itself is kept (FileLock).                     *)
(***************************************************************************)
EXTENDS Integers, FiniteSets

CONSTANTS
  Request,     \* request ids of commands and reports; none is one the runtime makes up
  Content,     \* Content[r]: what request r asks for
  LapCap,      \* lapCap of the definition: laps, and stops that may be blocked
  Limit,       \* files of a kind while a run is active ("transitions", ...)
  Reserve,     \* SAFETY_RECEIPT_RESERVE
  MaxTokensOf, \* bounds: capabilities issued, callers that die
  MaxCrash

Role == {"implementer", "reviewer"}
Kind == {"start", "report", "pause", "resume", "cancel"}
FactKind == {"transitions", "reports", "operations", "decisions"}

ASSUME LoopAssumption ==
  /\ IsFiniteSet(Request) /\ Request \cap Nat = {}
  /\ \A r \in Request :
       Content[r].kind \in Kind /\ Content[r].role \in Role
       /\ Content[r].verdict \in {"done", "clean", "issues"}
  /\ LapCap \in Nat \ {0}
  /\ \A k \in FactKind : Limit[k] \in Nat
  /\ {Reserve, MaxTokensOf, MaxCrash} \subseteq Nat

VARIABLES
  loop,        \* the state file
  transitions, \* transition facts
  reports,     \* report facts
  receipts,    \* operation receipts and governor decisions
  capability,  \* capability[t]: the token of the last capability of transition t, or 0
  cached,      \* actionTokens of the server process
  caller,      \* the holder of control.lock, or NoCaller
  issued,      \* tokens issued
  loopCrashes,
  shown,       \* history: transitions for which a hook was told to go on
  accepted     \* history: reports taken, with the token shown and the transition answered

loopVars == <<loop, transitions, reports, receipts, capability, cached, caller, issued,
              loopCrashes, shown, accepted>>
facts == <<transitions, reports, receipts>>
keys == <<capability, cached, issued>>

NoTransition == "none"
NoCaller == [step |-> "none"]
Active == {"draft", "running", "paused", "interrupted"}
Terminal == {"succeeded", "capped", "cancelled"}

(* Transitions of requests bear the request's id; those of fact limits, the *)
(* revision.                                                                *)
TransitionId == Request \cup Nat

-------------------------------------------------------------------------------
(* The reducer: what a receipt makes of a state.  A receipt is              *)
(* [kind, id, from, to, lap]: "to" names the transition of an operation, or *)
(* the action of a governor decision, whose id is its obligation.           *)

Drafted == [status |-> "draft", lap |-> 0, pending |-> NoTransition, consumed |-> 0,
            needsHuman |-> FALSE, rev |-> 0]

IsDecision(c) == c.kind = "decision"
Named(t) == CHOOSE x \in transitions : x.id = t
RoleOf(to) ==
  IF to = "activate-implementer" THEN "implementer"
  ELSE IF to = "activate-reviewer" THEN "reviewer" ELSE "nobody"

(* Where a report leads (buildReportMutation).                              *)
Route(st, r) ==
  CASE Content[r].role = "implementer" -> "activate-reviewer"
    [] Content[r].verdict = "clean" -> "succeed"
    [] st.lap + 1 > LapCap -> "cap"
    [] OTHER -> "activate-implementer"
Leads(st, r) ==
  CASE Content[r].kind = "start" -> "activate-implementer"
    [] Content[r].kind = "report" -> Route(st, r)
    [] OTHER -> Content[r].kind
LapAfter(st, r) ==
  IF Content[r].kind = "report" /\ Leads(st, r) = "activate-implementer"
  THEN st.lap + 1 ELSE st.lap

(* What the builders of commands and reports demand.                        *)
Permits(st, r) ==
  LET kind == Content[r].kind
  IN \/ kind = "start" /\ st.status = "draft"
     \/ kind = "pause" /\ st.status \in {"running", "interrupted"}
     \/ kind = "resume" /\ st.status \in {"paused", "interrupted"}
     \/ kind = "cancel" /\ st.status \in Active
     \/ /\ kind = "report" /\ st.status = "running" /\ st.pending # NoTransition
        /\ RoleOf(Named(st.pending).to) = Content[r].role

Interruptible(st) == st.status \in Active /\ ~(st.status = "interrupted" /\ st.needsHuman)

(* The semantic checks of a replayed receipt.                               *)
Follows(st, c) ==
  /\ c.from = st.rev
  /\ CASE c.kind = "interrupt" -> c.id = c.from /\ Interruptible(st) /\ c.lap = st.lap
       [] IsDecision(c) ->
            /\ st.status = "running" /\ c.obligation = st.pending
            /\ c.to = "block" => c.epoch = st.consumed + 1 /\ c.epoch <= LapCap
            /\ c.to = "exhaust" => st.consumed >= LapCap
       [] OTHER ->
            /\ Permits(st, c.id)
            /\ c.to = Leads(st, c.id) /\ c.lap = LapAfter(st, c.id)

StatusAfter(st, to) ==
  CASE to = "succeed" -> "succeeded"
    [] to \in {"cap", "exhaust"} -> "capped"
    [] to = "cancel" -> "cancelled"
    [] to = "pause" -> "paused"
    [] to = "resume" -> "running"
    [] to \in {"interrupt", "halt"} -> "interrupted"
    [] OTHER -> IF st.status = "draft" THEN "running" ELSE st.status

After(st, c) ==
  [status     |-> StatusAfter(st, c.to),
   lap        |-> c.lap,
   pending    |-> IF RoleOf(c.to) # "nobody" THEN c.id
                  ELSE IF c.to \in {"succeed", "cap", "exhaust", "cancel"} THEN NoTransition
                  ELSE st.pending,
   consumed   |-> IF c.to = "block" THEN c.epoch ELSE st.consumed,
   needsHuman |-> CASE c.to \in {"interrupt", "halt", "exhaust"} -> TRUE
                    [] c.to = "resume" -> FALSE
                    [] OTHER -> st.needsHuman,
   rev        |-> st.rev + 1]

-------------------------------------------------------------------------------
(* What every caller verifies before it acts (validateDurableControlHistory): *)
(* the receipts replay to the state, and at most one is prepared.           *)

At(rev) == {c \in receipts : c.from = rev}
Only(S) == CHOOSE c \in S : TRUE
Prepared == At(loop.rev)

Replay ==
  LET after[n \in 0..loop.rev] ==
        IF n = 0 THEN Drafted ELSE After(after[n - 1], Only(At(n - 1)))
  IN after

HasFacts(c) ==
  /\ ~IsDecision(c) => \E t \in transitions :
       t.id = c.id /\ t.from = c.from /\ t.to = c.to /\ t.lap = c.lap
  /\ c.kind = "report" => \E p \in reports : p.id = c.id /\ p.from = c.from
  /\ IsDecision(c) => \E o \in receipts :
       o.id = c.obligation /\ ~IsDecision(o) /\ o.from < c.from /\ RoleOf(o.to) # "nobody"

HistoryValid ==
  /\ \A c \in receipts : c.from <= loop.rev /\ HasFacts(c)
  /\ \A n \in 0..(loop.rev - 1) : Cardinality(At(n)) = 1
  /\ Replay[loop.rev] = loop
  /\ \A n \in 0..(loop.rev - 1) : Follows(Replay[n], Only(At(n)))
  /\ Cardinality(Prepared) <= 1
  /\ \A c \in Prepared : Follows(loop, c)
  /\ loop.consumed = Cardinality({c \in receipts : c.to = "block" /\ c.from < loop.rev})

(* A prepared receipt is left as it is.                                     *)
LeftPrepared == loop

(* rollForwardPrepared.                                                     *)
RolledForward == IF Prepared = {} THEN loop ELSE After(loop, Only(Prepared))

-------------------------------------------------------------------------------
(* Capabilities: issued under the lock for the pending transition; the      *)
(* server keeps the token in memory only.                                   *)

IssueCapability ==
  /\ caller = NoCaller /\ issued < MaxTokensOf
  /\ loop.status \in {"running", "paused", "interrupted"} /\ loop.pending # NoTransition
  /\ cached[loop.pending] = 0 \/ cached[loop.pending] # capability[loop.pending]
  /\ issued' = issued + 1
  /\ capability' = [capability EXCEPT ![loop.pending] = issued + 1]
  /\ cached' = [cached EXCEPT ![loop.pending] = issued + 1]
  /\ UNCHANGED <<loop, facts, caller, loopCrashes, shown, accepted>>

(* assertRoleCapability.                                                    *)
Capable(st, r, token) ==
  Content[r].kind = "report" =>
    /\ st.status = "running" /\ st.pending # NoTransition
    /\ RoleOf(Named(st.pending).to) = Content[r].role
    /\ token # 0 /\ capability[st.pending] = token

-------------------------------------------------------------------------------
(* mutate: a request enters with the lock, and finishes what it finds.      *)

Operations == {c \in receipts : ~IsDecision(c)}
Orphaned(r, rev) == \E f \in transitions \cup reports : f.id = r /\ f.from # rev

Builds(st, r) ==
  [kind |-> Content[r].kind, id |-> r, from |-> st.rev, to |-> Leads(st, r),
   lap |-> LapAfter(st, r), obligation |-> st.pending, epoch |-> 0]
Calls(c, step, token) == [step |-> step, receipt |-> c, token |-> token]

Admits(st, r, token) ==
  /\ Capable(st, r, token)
  /\ \A o \in Operations : o.id # r
  /\ ~Orphaned(r, st.rev)
  /\ Permits(st, r)

Enter(r, token) ==
  /\ caller = NoCaller /\ HistoryValid
  /\ Capable(loop, r, token)
  /\ loop' = RolledForward
  /\ caller' = IF Admits(loop', r, token)
               THEN Calls(Builds(loop', r), "transition", token) ELSE NoCaller
  /\ UNCHANGED <<facts, keys, loopCrashes, shown, accepted>>

-------------------------------------------------------------------------------
(* Publication.  A kind that is full interrupts the run instead, on the     *)
(* reserve.                                                                 *)

Interruption ==
  [kind |-> "interrupt", id |-> loop.rev, from |-> loop.rev, to |-> "interrupt",
   lap |-> loop.lap, obligation |-> loop.pending, epoch |-> 0]

Room(kind, files, c) ==
  LET reserved == kind \in {"transitions", "operations"} /\ c.kind \in {"interrupt", "cancel"}
  IN Cardinality(files) < Limit[kind] + (IF reserved THEN Reserve ELSE 0)

(* requireFactPublication on "limit".                                       *)
Overflow(c) ==
  /\ caller' = IF c.kind # "interrupt" /\ Interruptible(loop)
               THEN Calls(Interruption, "transition", 0) ELSE NoCaller
  /\ UNCHANGED <<loop, facts, keys, loopCrashes, shown, accepted>>

NextStep(step) == caller' = [caller EXCEPT !.step = step]

PutTransition ==
  /\ caller.step = "transition"
  /\ LET c == caller.receipt
         t == [id |-> c.id, from |-> c.from, to |-> c.to, lap |-> c.lap]
     IN IF t \notin transitions /\ ~Room("transitions", transitions, c) THEN Overflow(c)
        ELSE /\ transitions' = transitions \cup {t}
             /\ NextStep(IF c.kind = "report" THEN "report" ELSE "receipt")
             /\ UNCHANGED <<loop, reports, receipts, keys, loopCrashes, shown, accepted>>

PutReport ==
  /\ caller.step = "report"
  /\ LET c == caller.receipt
         p == [id |-> c.id, from |-> c.from]
     IN IF p \notin reports /\ ~Room("reports", reports, c) THEN Overflow(c)
        ELSE /\ reports' = reports \cup {p}
             /\ NextStep("receipt")
             /\ UNCHANGED <<loop, transitions, receipts, keys, loopCrashes, shown, accepted>>

(* The hook is answered before the state counts the block.                  *)
PutReceiptAndAnswer ==
  /\ caller.step = "receipt"
  /\ LET c == caller.receipt
     IN /\ Room(IF IsDecision(c) THEN "decisions" ELSE "operations",
                {o \in receipts : IsDecision(o) = IsDecision(c)}, c)
        /\ receipts' = receipts \cup {c}
        /\ NextStep(IF c.to = "block" THEN "output" ELSE "cas")
  /\ UNCHANGED <<loop, transitions, reports, keys, loopCrashes, shown, accepted>>

PutReceipt ==
  /\ caller.step = "receipt"
  /\ LET c == caller.receipt
         kind == IF IsDecision(c) THEN "decisions" ELSE "operations"
         files == {o \in receipts : IsDecision(o) = IsDecision(c)}
     IN IF ~Room(kind, files, c) THEN Overflow(c)
        ELSE /\ receipts' = receipts \cup {c}
             /\ accepted' = IF c.kind = "report"
                            THEN accepted \cup {[report |-> c.id, token |-> caller.token,
                                                 obligation |-> loop.pending]}
                            ELSE accepted
             /\ NextStep("cas")
             /\ UNCHANGED <<loop, transitions, reports, keys, loopCrashes, shown>>

SwapState ==
  /\ caller.step = "cas"
  /\ loop' = After(loop, caller.receipt)
  /\ caller' = IF caller.receipt.to = "block" THEN [caller EXCEPT !.step = "output"]
               ELSE NoCaller
  /\ UNCHANGED <<facts, keys, loopCrashes, shown, accepted>>

-------------------------------------------------------------------------------
(* The governor: a Stop of the root, or of a worker, and a resumed session. *)

Decides(st, action) ==
  [kind |-> "decision", id |-> IF action = "halt" THEN st.rev ELSE st.pending,
   from |-> st.rev, to |-> action, lap |-> st.lap, obligation |-> st.pending,
   epoch |-> IF action = "block" THEN st.consumed + 1 ELSE 0]

Blocked(t) == \E c \in receipts : c.to = "block" /\ c.obligation = t
Obliged(st) == st.status = "running" /\ st.pending # NoTransition

EvaluateStop(who) ==
  /\ caller = NoCaller /\ HistoryValid
  /\ loop' = RolledForward
  /\ caller' =
       IF /\ Obliged(loop') /\ ~Blocked(loop'.pending)
          /\ who \in {"root", RoleOf(Named(loop'.pending).to)}
       THEN Calls(Decides(loop', IF loop'.consumed >= LapCap THEN "exhaust" ELSE "block"),
                  "receipt", 0)
       ELSE NoCaller
  /\ UNCHANGED <<facts, keys, loopCrashes, shown, accepted>>

(* The hook is told to block the stop.                                      *)
Output ==
  /\ caller.step = "output"
  /\ caller' = NoCaller
  /\ shown' = [shown EXCEPT ![caller.receipt.obligation] = @ + 1]
  /\ UNCHANGED <<loop, facts, keys, loopCrashes, accepted>>

RecoverSession ==
  /\ caller = NoCaller /\ HistoryValid
  /\ loop' = RolledForward
  /\ caller' = IF Obliged(loop') THEN Calls(Decides(loop', "halt"), "receipt", 0)
               ELSE NoCaller
  /\ UNCHANGED <<facts, keys, loopCrashes, shown, accepted>>

-------------------------------------------------------------------------------
(* The caller dies; if it was the server, its tokens are forgotten.         *)
CallerDies ==
  /\ loopCrashes < MaxCrash
  /\ loopCrashes' = loopCrashes + 1
  /\ caller' = NoCaller
  /\ \E server \in BOOLEAN :
       cached' = IF server THEN [t \in Request |-> 0] ELSE cached
  /\ UNCHANGED <<loop, facts, capability, issued, shown, accepted>>

(* enforceRetention, under state.lock only: of a run that is over, facts    *)
(* that no receipt names may go.                                            *)
PruneRun ==
  /\ loop.status \in Terminal
  /\ \E lost \in SUBSET {t.id : t \in {u \in transitions : \A c \in receipts : c.id # u.id}} :
       /\ lost # {}
       /\ transitions' = {t \in transitions : t.id \notin lost}
       /\ reports' = {p \in reports : p.id \notin lost}
  /\ UNCHANGED <<loop, receipts, keys, caller, loopCrashes, shown, accepted>>

-------------------------------------------------------------------------------

LoopInit ==
  /\ loop = Drafted
  /\ transitions = {} /\ reports = {} /\ receipts = {}
  /\ capability = [t \in Request |-> 0] /\ cached = [t \in Request |-> 0]
  /\ caller = NoCaller /\ issued = 0 /\ loopCrashes = 0
  /\ shown = [t \in Request |-> 0]
  /\ accepted = {}

LoopNext ==
  \/ IssueCapability
  \/ \E r \in Request, token \in 0..issued : Enter(r, token)
  \/ PutTransition \/ PutReport \/ PutReceipt \/ SwapState
  \/ \E who \in {"root"} \cup Role : EvaluateStop(who)
  \/ Output \/ RecoverSession
  \/ CallerDies \/ PruneRun

LoopSpec == LoopInit /\ [][LoopNext]_loopVars

-------------------------------------------------------------------------------

LoopTypeOK ==
  /\ loop \in [status : Active \cup Terminal, lap : 0..LapCap,
               pending : Request \cup {NoTransition}, consumed : 0..LapCap,
               needsHuman : BOOLEAN, rev : Nat]
  /\ \A t \in transitions : t.id \in Request \cup 0..loop.rev
  /\ \A p \in reports : p.id \in Request

(* A transition is answered by one report, a capability is used for one     *)
(* report, and a token shown with another transition's report is worthless; *)
(* a hook is told at most once for a transition to go on, and never more    *)
(* often than laps are accounted for, so that an agent is not held back for *)
(* ever: over retries, dead callers and capabilities issued again.          *)
AnsweredOnce ==
  \A x, y \in accepted :
    x.obligation = y.obligation \/ x.token = y.token => x = y
BlockedOnce ==
  /\ \A t \in Request : shown[t] <= 1
  /\ Cardinality({t \in Request : shown[t] = 1}) <= loop.consumed
ToldOnce == AnsweredOnce /\ BlockedOnce

(* A run that is not over stays one that can be steered and ended.  What a   *)
(* caller that dies between two files leaves is what the next one accepts:  *)
(* the receipts replay to the state and at most one is prepared (otherwise  *)
(* validateDurableControlHistory refuses every later command of the run),   *)
(* and facts at their limit leave the reserve to interruptions and cancels, *)
(* of which each caller that dies may cost one file.                        *)
CancelFits ==
  loop.status \in Active /\ caller = NoCaller /\ Prepared = {} /\ loopCrashes + 2 <= Reserve =>
     /\ Cardinality(transitions) < Limit["transitions"] + Reserve
     /\ Cardinality(Operations) < Limit["operations"] + Reserve
StaysControllable == HistoryValid /\ CancelFits
=============================================================================
