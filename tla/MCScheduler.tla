---------------------------- MODULE MCScheduler ----------------------------
(***************************************************************************)
(* Small graphs for TLC.                                                    *)
(***************************************************************************)
EXTENDS Scheduler, TLC

CONSTANTS coder, reviewer, pass, fix, feed

EdgeOf(s, t, on) == [source |-> s, target |-> t, on |-> on, deliver |-> FALSE,
                     auto |-> TRUE, policy |-> "coalesce", cap |-> 0,
                     stopOnClean |-> FALSE, freezeOnStop |-> FALSE, rank |-> 0]

(* The review ring: each finished turn of the coder wakes the reviewer, the *)
(* issues it reports wake the coder, in order; a clean verdict ends it.     *)
RingSession == {coder, reviewer}
RingEdge == {pass, fix}
RingDef ==
  (pass :> [EdgeOf(coder, reviewer, "finished") EXCEPT !.cap = 2, !.stopOnClean = TRUE]) @@
  (fix  :> [EdgeOf(reviewer, coder, "issues") EXCEPT
              !.policy = "queue", !.cap = 1, !.stopOnClean = TRUE,
              !.freezeOnStop = TRUE, !.rank = 1])

(* The desk: every report of the reviewer asks, through a person, for a     *)
(* turn of the coder, in order; what the coder finishes is delivered back.  *)
DeskSession == {coder, reviewer}
DeskEdge == {fix, feed}
DeskDef ==
  (fix  :> [EdgeOf(reviewer, coder, "report") EXCEPT
              !.auto = FALSE, !.policy = "queue", !.cap = 2]) @@
  (feed :> [EdgeOf(coder, reviewer, "finished") EXCEPT
              !.deliver = TRUE, !.cap = 1, !.rank = 1])

(* One gated edge that coalesces.                                           *)
GateSession == {coder, reviewer}
GateEdge == {fix}
GateDef == fix :> [EdgeOf(reviewer, coder, "issues") EXCEPT !.auto = FALSE, !.cap = 2]

(* What the coder reports the reviewer looks at; what the reviewer reports   *)
(* waits in a line for the coder.                                           *)
LineSession == {coder, reviewer}
LineEdge == {pass, fix}
LineDef ==
  (pass :> EdgeOf(coder, reviewer, "issues")) @@
  (fix  :> [EdgeOf(reviewer, coder, "issues") EXCEPT !.policy = "queue", !.rank = 1])

(* A rescue edge that drops what comes while its target is busy, and one    *)
(* that interrupts the target.                                              *)
PolicySession == {coder, reviewer}
PolicyEdge == {pass, fix}
PolicyDef ==
  (pass :> [EdgeOf(coder, reviewer, "failed") EXCEPT !.policy = "drop", !.cap = 2]) @@
  (fix  :> [EdgeOf(reviewer, coder, "issues") EXCEPT
              !.policy = "interrupt", !.cap = 2, !.rank = 1])
=============================================================================
