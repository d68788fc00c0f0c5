------------------------------ MODULE GraphFold ------------------------------
(***************************************************************************)
(* State = fold(Log): one operator per fact of the append-only event log    *)
(* that src/shared/graph-core/fold.ts applies to the kernel state.  An      *)
(* operator takes the kernel state k and what the fact carries, and returns *)
(* the state applyEvent leaves.  Facts the fold ignores have no operator.   *)
(*                                                                          *)
(* A pending activation is kept under its slot key.  The key is the edge    *)
(* (which fixes the target) and an ordinal n: n = 1 is the plain key        *)
(* "edge->target", n > 1 the suffixed keys "edge->target#n" of a queue.     *)
(*                                                                          *)
(* Not carried by the state: scopes and roles, archived flags, timers and   *)
(* external sources, reasons and timestamps.                                *)
(***************************************************************************)
EXTENDS Integers

CONSTANTS Session, \* the agent sessions of the graph
          Edge     \* the subscriptions, by id

Status == {"idle", "pending", "running", "failed", "killed"}

PendRecord == [edge : Edge, n : Nat \ {0}, trig : Nat, ok : BOOLEAN]

KernelState == [status  : [Session -> Status],
                frozen  : SUBSET Session,
                active  : SUBSET Edge,
                firings : [Edge -> Nat],
                pend    : SUBSET PendRecord]

(* The records of S under the slot key <<e, n>>, and of the whole edge e.   *)
At(S, e, n) == {x \in S : x.edge = e /\ x.n = n}
Of(S, e)    == {x \in S : x.edge = e}

(* session.finished, session.failed, session.killed *)
SessionFact(k, s, st) == [k EXCEPT !.status[s] = st]

FreezeFact(k, s) == [k EXCEPT !.frozen = @ \cup {s}]
LiftFact(k, s)   == [k EXCEPT !.frozen = @ \ {s}]

StoppedFact(k, e) == [k EXCEPT !.active = @ \ {e}]

(* A second pending fact for a key overwrites the first.                    *)
PendingFact(k, e, n, t) ==
  [k EXCEPT !.pend = (@ \ At(@, e, n))
                     \cup {[edge |-> e, n |-> n, trig |-> t, ok |-> FALSE]}]

ApprovedFact(k, e, n) ==
  [k EXCEPT !.pend = {IF x \in At(k.pend, e, n) THEN [x EXCEPT !.ok = TRUE] ELSE x :
                        x \in @}]

(* activation.denied, activation.superseded, activation.dropped             *)
ClosedFact(k, e, n) == [k EXCEPT !.pend = @ \ At(@, e, n)]

(* One activation.dropped fact for each of the keys of an edge.             *)
AllDroppedFacts(k, e) == [k EXCEPT !.pend = @ \ Of(@, e)]

(* activated: by an edge (it frees the key and counts one firing), or       *)
(* directly by a command, with neither subscription nor key.                *)
ActivatedFact(k, s) == [k EXCEPT !.status[s] = "running"]
(* Mutant: the key is not freed. *)
FiredFactKeepingKey(k, e, n, s) == [k EXCEPT !.status[s] = "running", !.firings[e] = @ + 1]

FiredFact(k, e, n, s) ==
  [k EXCEPT !.pend = @ \ At(@, e, n),
            !.status[s] = "running",
            !.firings[e] = @ + 1]

(* delivered counts a firing only for a deliver-only edge.                  *)
DeliveredFact(k, e, deliverOnly) ==
  IF deliverOnly THEN [k EXCEPT !.firings[e] = @ + 1] ELSE k
=============================================================================
