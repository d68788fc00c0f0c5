------------------------- MODULE PlanCouncilProofs -------------------------
(***************************************************************************)
(* Proof that a plan council is on track (CouncilOnTrack), for any members *)
(* and gates, and all bounds; and, at the end, of its types.               *)
(***************************************************************************)
EXTENDS PlanCouncil, SequenceTheorems, TLAPS

(* Types.                                                                   *)
Ready == {"ready-for-cross-review", "ready-for-synthesis"}
Active == {"drafting-plans", "reviewing-peers", "synthesizing"}
Underway == Ready \cup Active
Phase == Over \cup Underway \cup {"blocked"}
Status == {"none", "pending", "released", "cancelled"}
Gate == [gen : Nat, who : SUBSET Member, in : SUBSET Member, status : Status]
Gates == [ArtifactKind -> Gate]
Line == Seq(Member)
Wants == [Member -> ArtifactKind \cup {"none"}]
Numbers == [Member -> Nat]
Works == SUBSET (ArtifactKind \X Member)
Origin == Underway \cup {"none"}
Paper == [phase : Phase, from : Origin, blocked : Line, joined : BOOLEAN, want : Wants,
          turn : Numbers, gate : Numbers, made : Works, barrier : Gates]
Duty == {"idle", "failed", "running", "queued", "ending", "killed", "lost"}
Mate == [st : Duty, turn : Nat]
Crew == [Member -> Mate]

(* Where a council is: when it is blocked, where it was.                    *)
Place(c) == IF c.phase = "blocked" THEN c.from ELSE c.phase
At(c, k) == Place(c) = PhaseOf[k]
AtGate(c, k) == Place(c) = ReadyFor[k]
Missing(c, k) == c.barrier[k].who \ c.barrier[k].in
Lists(l, p) == \E i \in DOMAIN l : l[i] = p
Once(l) == \A i, j \in DOMAIN l : l[i] = l[j] => i = j
Named(c, p) == c.phase = "blocked" /\ Lists(c.blocked, p)
Live == {"queued", "running", "ending"}

(* The council by itself.  s is who strayed.                                *)
TurnHasWant(c) == \A p \in Member : c.turn[p] # 0 => c.want[p] # "none"
NothingYet(c) == c.phase = "none" => \A p \in Member : c.want[p] = "none"
Within(c) == \A k \in ArtifactKind : c.barrier[k].in \subseteq c.barrier[k].who
WantsHere(c) ==
  \A k \in ArtifactKind : At(c, k) =>
    \A p \in c.barrier[k].who :
      /\ c.want[p] \in {"none", k}
      /\ p \in c.barrier[k].in => c.want[p] = "none"
      /\ c.barrier[k].status = "pending" /\ p \notin c.barrier[k].in => c.want[p] = k
SynthAlone(c) == At(c, "synthesis") => c.barrier["synthesis"].who = {Synth}
OnlyMissing(c, s) ==
  Planner \subseteq s \/
  /\ \A k \in ArtifactKind : At(c, k) =>
        \A p \in Member : c.want[p] # "none" => p \in Missing(c, k)
  /\ Place(c) \in Ready \cup {"completed"} => \A p \in Member : c.want[p] = "none"
Pends(c, s) ==
  \A k \in ArtifactKind : At(c, k) => c.barrier[k].status = "pending" \/ s # {}
Drafted(c, s) ==
  c.phase # "none" =>
  \A p \in Planner : <<"proposal", p>> \in c.made \/ p \in s \/ c.want[p] = "proposal"
Earned(c, s) ==
  /\ Place(c) \in (Underway \ {"drafting-plans"}) \cup {"completed"} =>
        \A p \in Planner : <<"proposal", p>> \in c.made \/ p \in s
  /\ c.phase = "completed" => <<"synthesis", Synth>> \in c.made
BlockedRight(c) ==
  c.phase = "blocked" =>
  /\ c.blocked # <<>> /\ c.from \in Underway
  /\ Once(c.blocked)
  /\ \A i \in DOMAIN c.blocked : c.want[c.blocked[i]] # "none"
Plan(c, s) ==
  /\ TurnHasWant(c) /\ NothingYet(c) /\ Within(c) /\ WantsHere(c) /\ SynthAlone(c)
  /\ OnlyMissing(c, s) /\ Pends(c, s) /\ Drafted(c, s) /\ Earned(c, s) /\ BlockedRight(c)

(* The council with its sessions.                                           *)
Numbered(a) == \A p \in Member : a[p].st \in Live => a[p].turn # 0
Past(c, a) == \A p \in Member : c.turn[p] <= a[p].turn
Halted(c, a) ==
  \A p \in Member : Named(c, p) => ~(a[p].turn = c.turn[p] /\ a[p].st \in Live)
Doing(c, a, p) ==
  c.turn[p] # 0 /\ (a[p].st = "killed" \/ (a[p].turn = c.turn[p] /\ a[p].st \in Live))
Manned(c, a, s) ==
  \A k \in ArtifactKind : At(c, k) /\ c.barrier[k].status = "pending" =>
    \A p \in Missing(c, k) : p \in s \/ Named(c, p) \/ Doing(c, a, p)
Hands(c, a, s) == Numbered(a) /\ Past(c, a) /\ Halted(c, a) /\ Manned(c, a, s)

Fit(c, a, s) == c \in Paper /\ a \in Crew /\ Plan(c, s) /\ Hands(c, a, s)

LEMMA PhaseNames ==
  /\ PhaseOf["proposal"] = "drafting-plans"
  /\ PhaseOf["peer-review"] = "reviewing-peers"
  /\ PhaseOf["synthesis"] = "synthesizing"
  /\ ReadyFor["peer-review"] = "ready-for-cross-review"
  /\ ReadyFor["synthesis"] = "ready-for-synthesis"
BY DEF PhaseOf, ReadyFor, ArtifactKind, Gated

LEMMA Places ==
  /\ \A k \in ArtifactKind : PhaseOf[k] \in Active
  /\ \A k, l \in ArtifactKind : PhaseOf[k] = PhaseOf[l] => k = l
  /\ \A k \in Gated : ReadyFor[k] \in Ready
  /\ \A k, l \in Gated : ReadyFor[k] = ReadyFor[l] => k = l
  /\ \A x \in Active : \E k \in ArtifactKind : PhaseOf[k] = x
  /\ \A x \in Ready : \E k \in Gated : ReadyFor[k] = x
  /\ Gated \subseteq ArtifactKind
BY PhaseNames DEF ArtifactKind, Gated, Active, Ready

LEMMA PlaceKinds ==
  /\ Active \cap Ready = {} /\ Underway \cap Over = {} /\ Active \cup Ready = Underway
  /\ "blocked" \notin Underway \cup Over
  /\ Underway \subseteq Phase /\ Over \subseteq Phase /\ "blocked" \in Phase
  /\ {"none", "completed", "stopped", "failed"} = Over
BY DEF Active, Ready, Underway, Over, Phase

(* What the operators of the model make of a council.                       *)
Renewed(c, d, k, who) ==
  /\ d.barrier[k].who = who /\ d.barrier[k].in = {} /\ d.barrier[k].status = "pending"
  /\ \A l \in ArtifactKind : l # k => d.barrier[l] = c.barrier[l]
HasBarrier(c, d, k, who) ==
  /\ d \in Paper /\ Renewed(c, d, k, who)
  /\ d.phase = c.phase /\ d.from = c.from /\ d.blocked = c.blocked
  /\ d.want = c.want /\ d.turn = c.turn /\ d.gate = c.gate /\ d.made = c.made

LEMMA WithBarrierIs ==
  ASSUME NEW c \in Paper, NEW k \in ArtifactKind, NEW who \in SUBSET Member
  PROVE  HasBarrier(c, WithBarrier(c, k, who), k, who)
<1>1. PICK f : f = [gen |-> c.barrier[k].gen + 1, who |-> who, in |-> {}, status |-> "pending"]
  OBVIOUS
<1>2. PICK g : g = [c.barrier EXCEPT ![k] = f]
  OBVIOUS
<1>3. c.barrier \in Gates
  BY DEF Paper
<1>4. f \in Gate /\ g \in Gates /\ g[k] = f /\ \A l \in ArtifactKind : l # k => g[l] = c.barrier[l]
  BY <1>1, <1>2, <1>3 DEF Gates, Gate, Status
<1>5. WithBarrier(c, k, who) = [c EXCEPT !.barrier = g]
  BY <1>1, <1>2 DEF WithBarrier
<1> QED
  BY <1>1, <1>4, <1>5 DEF Paper, HasBarrier, Renewed

LEMMA WithoutIs ==
  ASSUME NEW c \in Paper, NEW known
  PROVE  LET d == Without(c, known)
         IN /\ d \in Paper
            /\ d.phase = c.phase /\ d.from = c.from /\ d.blocked = c.blocked
            /\ d.joined = c.joined
            /\ d.want = c.want /\ d.turn = c.turn /\ d.gate = c.gate /\ d.made = c.made
            /\ \A k \in ArtifactKind : /\ d.barrier[k].gen = c.barrier[k].gen
                                       /\ d.barrier[k].who = c.barrier[k].who
                                       /\ d.barrier[k].in = c.barrier[k].in
                                       /\ d.barrier[k].status \in {c.barrier[k].status, "cancelled"}
<1> DEFINE G(k) == IF c.barrier[k].status = "pending" /\ <<k, c.barrier[k].gen>> \in known
                   THEN [c.barrier[k] EXCEPT !.status = "cancelled"] ELSE c.barrier[k]
<1>1. PICK g : g = [k \in ArtifactKind |-> G(k)]
  OBVIOUS
<1>2. ASSUME NEW k \in ArtifactKind
      PROVE  /\ g[k] \in Gate
             /\ g[k].gen = c.barrier[k].gen /\ g[k].who = c.barrier[k].who
             /\ g[k].in = c.barrier[k].in /\ g[k].status \in {c.barrier[k].status, "cancelled"}
  <2>1. c.barrier[k] \in Gate
    BY DEF Paper, Gates
  <2>2. g[k] = G(k)
    BY <1>1
  <2> QED
    BY <2>1, <2>2 DEF Gate, Status
<1>3. g \in Gates
  BY <1>1, <1>2 DEF Gates
<1>4. Without(c, known) = [c EXCEPT !.barrier = g]
  BY <1>1, Zenon DEF Without
<1> QED
  BY <1>2, <1>3, <1>4 DEF Paper

(* A council that is ended, in some way that is no success.                 *)
Ended(c, d) ==
  /\ d \in Paper /\ d.phase \in {"failed", "stopped"}
  /\ d.want = c.want /\ d.turn = c.turn /\ d.made = c.made
  /\ \A k \in ArtifactKind : /\ d.barrier[k].who = c.barrier[k].who
                             /\ d.barrier[k].in = c.barrier[k].in

LEMMA FailIs ==
  ASSUME NEW c \in Paper
  PROVE  /\ c.phase \in Over => failPlanCouncil(c) = c
         /\ c.phase \notin Over => /\ Ended(c, failPlanCouncil(c))
                                   /\ failPlanCouncil(c).phase = "failed"
<1>1. CASE c.phase \in Over
  BY <1>1 DEF failPlanCouncil
<1>2. CASE c.phase \notin Over
  <2>1. PICK e : e = Without(c, Known(c))
    OBVIOUS
  <2>2. /\ e \in Paper
        /\ e.want = c.want /\ e.turn = c.turn /\ e.made = c.made
        /\ \A k \in ArtifactKind : e.barrier[k].who = c.barrier[k].who
                                   /\ e.barrier[k].in = c.barrier[k].in
    BY <2>1, WithoutIs
  <2>3. PICK l : l = <<>>
    OBVIOUS
  <2>4. l \in Line
    BY <2>3 DEF Line
  <2>5. failPlanCouncil(c) = [e EXCEPT !.phase = "failed", !.blocked = l]
    BY <1>2, <2>1, <2>3 DEF failPlanCouncil, Cancelled
  <2>6. "failed" \in Phase
    BY DEF Phase, Over
  <2> QED
    BY <1>2, <2>2, <2>4, <2>5, <2>6 DEF Paper, Ended
<1> QED
  BY <1>1, <1>2

LEMMA StopIs ==
  ASSUME NEW c \in Paper
  PROVE  Ended(c, [Cancelled(c) EXCEPT !.phase = "stopped"])
<1>1. PICK e : e = Without(c, Known(c))
  OBVIOUS
<1>2. /\ e \in Paper
      /\ e.want = c.want /\ e.turn = c.turn /\ e.made = c.made
      /\ \A k \in ArtifactKind : e.barrier[k].who = c.barrier[k].who
                                 /\ e.barrier[k].in = c.barrier[k].in
  BY <1>1, WithoutIs
<1>3. [Cancelled(c) EXCEPT !.phase = "stopped"] = [e EXCEPT !.phase = "stopped"]
  BY <1>1 DEF Cancelled
<1>4. "stopped" \in Phase
  BY DEF Phase, Over
<1> QED
  BY <1>2, <1>3, <1>4 DEF Paper, Ended

(* More that strayed.                                                       *)
LEMMA PlanMore ==
  ASSUME NEW c, NEW s, NEW t, Plan(c, s), s \subseteq t
  PROVE  Plan(c, t)
<1>1. OnlyMissing(c, t)
  BY DEF Plan, OnlyMissing
<1>2. Pends(c, t)
  BY DEF Plan, Pends
<1>3. Drafted(c, t) /\ Earned(c, t)
  BY DEF Plan, Drafted, Earned
<1> QED
  BY <1>1, <1>2, <1>3 DEF Plan

LEMMA FitMore ==
  ASSUME NEW c, NEW a, NEW s, NEW t, Fit(c, a, s), s \subseteq t
  PROVE  Fit(c, a, t)
<1>1. Manned(c, a, t)
  BY DEF Fit, Hands, Manned
<1> QED
  BY <1>1, PlanMore DEF Fit, Hands

(* A council that is over is nowhere.                                       *)
LEMMA NoPlace ==
  ASSUME NEW c, c.phase \in Over
  PROVE  /\ \A k \in ArtifactKind : ~At(c, k)
         /\ Place(c) = c.phase
         /\ Place(c) \notin Underway
         /\ c.phase # "blocked"
BY Places, PlaceKinds DEF At, Place

LEMMA EndedFit ==
  ASSUME NEW c, NEW d, NEW a \in Crew, NEW s, c \in Paper, c.phase # "none",
         TurnHasWant(c), Within(c), Drafted(c, s), Ended(c, d), Numbered(a), Past(c, a)
  PROVE  Fit(d, a, s)
<1>1. d.phase \in Over /\ d.phase # "none" /\ d.phase # "completed"
  BY PlaceKinds DEF Ended
<1>2. /\ \A k \in ArtifactKind : ~At(d, k)
      /\ Place(d) = d.phase
      /\ Place(d) \notin Underway
      /\ d.phase # "blocked"
  BY <1>1, NoPlace
<1>3. TurnHasWant(d)
  BY DEF Ended, TurnHasWant
<1>4. NothingYet(d)
  BY <1>1 DEF NothingYet
<1>5. Within(d)
  BY DEF Ended, Within
<1>6. WantsHere(d) /\ Pends(d, s)
  BY <1>2 DEF WantsHere, Pends
<1>7. SynthAlone(d)
  BY <1>2 DEF SynthAlone, ArtifactKind
<1>8. OnlyMissing(d, s)
  BY <1>1, <1>2 DEF OnlyMissing, Underway
<1>9. Drafted(d, s)
  BY DEF Ended, Drafted
<1>10. Earned(d, s)
  BY <1>1, <1>2 DEF Earned
<1>11. BlockedRight(d)
  BY <1>2 DEF BlockedRight
<1>12. Hands(d, a, s)
  BY <1>2 DEF Hands, Past, Halted, Named, Manned, Ended
<1> QED
  BY <1>3, <1>4, <1>5, <1>6, <1>7, <1>8, <1>9, <1>10, <1>11, <1>12 DEF Fit, Plan, Ended

(* A council that is over needs no hands.                                   *)
LEMMA OverFit ==
  ASSUME NEW c, NEW a \in Crew, NEW s, c \in Paper, Plan(c, s), c.phase \in Over,
         Numbered(a), Past(c, a)
  PROVE  Fit(c, a, s)
BY NoPlace DEF Fit, Hands, Halted, Named, Manned

LEMMA FailFit ==
  ASSUME NEW c, NEW a \in Crew, NEW s, c \in Paper, Plan(c, s), Numbered(a), Past(c, a)
  PROVE  Fit(failPlanCouncil(c), a, s)
<1>1. CASE c.phase \in Over
  BY <1>1, FailIs, OverFit
<1>2. CASE c.phase \notin Over
  BY <1>2, FailIs, EndedFit DEF Over, Plan
<1> QED
  BY <1>1, <1>2

LEMMA CrewSet ==
  ASSUME NEW a \in Crew, NEW p \in Member, NEW st \in Duty
  PROVE  /\ With(a, p, st) \in Crew
         /\ With(a, p, st)[p].st = st
         /\ \A q \in Member : With(a, p, st)[q].turn = a[q].turn
         /\ \A q \in Member : q # p => With(a, p, st)[q] = a[q]
<1>1. PICK m : m = [a[p] EXCEPT !.st = st]
  OBVIOUS
<1>2. a[p] \in Mate
  BY DEF Crew
<1>3. m \in Mate /\ m.st = st /\ m.turn = a[p].turn
  BY <1>1, <1>2 DEF Mate
<1>4. With(a, p, st) = [a EXCEPT ![p] = m]
  BY <1>1 DEF With
<1> QED
  BY <1>3, <1>4 DEF Crew

(* Turns that go on, or are killed, or are lost.                            *)
GoesOn(a, b, t) ==
  \A p \in Member : /\ b[p].turn = a[p].turn
                    /\ \/ b[p].st = a[p].st
                       \/ /\ a[p].st \in Live
                          /\ b[p].st \in Live \cup {"killed"} \/ (b[p].st = "lost" /\ p \in t)

LEMMA LiveFit ==
  ASSUME NEW c, NEW a, NEW b \in Crew, NEW s, NEW t, Fit(c, a, s), s \subseteq t, GoesOn(a, b, t)
  PROVE  Fit(c, b, t)
<1> USE DEF GoesOn
<1>1. {"killed", "lost"} \cap Live = {}
  BY DEF Live
<1>2. \A p \in Member : b[p].st \in Live => a[p].st \in Live
  BY <1>1
<1>3. \A p \in Member : Doing(c, a, p) => Doing(c, b, p) \/ p \in t
  BY <1>1 DEF Doing
<1>4. Numbered(b) /\ Past(c, b) /\ Halted(c, b)
  BY <1>2 DEF Fit, Hands, Numbered, Past, Halted
<1>5. Fit(c, a, t)
  BY FitMore
<1>6. Manned(c, b, t)
  <2> SUFFICES ASSUME NEW k \in ArtifactKind, At(c, k), c.barrier[k].status = "pending",
                      NEW p \in Missing(c, k)
               PROVE  p \in t \/ Named(c, p) \/ Doing(c, b, p)
    BY DEF Manned
  <2>1. p \in Member
    BY DEF Missing, Fit, Paper, Gates, Gate
  <2> QED
    BY <1>3, <1>5, <2>1 DEF Fit, Hands, Manned
<1> QED
  BY <1>4, <1>5, <1>6 DEF Fit, Hands

LEMMA LiveFitOne ==
  ASSUME NEW c, NEW a, NEW s, Fit(c, a, s), NEW p \in Member, a[p].st \in Live,
         NEW st \in Live \cup {"killed"}
  PROVE  Fit(c, With(a, p, st), s)
<1>1. a \in Crew /\ st \in Duty
  BY DEF Fit, Live, Duty
<1>2. PICK b : b = With(a, p, st)
  OBVIOUS
<1>3. /\ b \in Crew /\ b[p].st = st
      /\ \A q \in Member : b[q].turn = a[q].turn
      /\ \A q \in Member : q # p => b[q] = a[q]
  BY <1>1, <1>2, CrewSet
<1>4. GoesOn(a, b, s)
  <2>1. ASSUME NEW q \in Member, q # p PROVE b[q].st = a[q].st
    BY <1>3, <2>1
  <2>2. b[p].st \in Live \cup {"killed"}
    BY <1>3
  <2>3. ASSUME NEW q \in Member
        PROVE  \/ b[q].st = a[q].st
               \/ /\ a[q].st \in Live
                  /\ b[q].st \in Live \cup {"killed"} \/ (b[q].st = "lost" /\ q \in s)
    <3>1. CASE q = p
      BY <2>2, <3>1
    <3> QED
      BY <2>1, <3>1
  <2> QED
    BY <1>3, <2>3 DEF GoesOn
<1>5. Fit(c, b, s)
  BY <1>3, <1>4, LiveFit
<1> QED
  BY <1>2, <1>5

(* A turn that fails.                                                       *)
LEMMA TurnFailsFit ==
  ASSUME NEW c, NEW a, NEW s, Fit(c, a, s), NEW p \in Member, NEW st \in Duty \ Live
  PROVE  Fit(TurnFails(c, p), With(a, p, st), s)
<1>1. PICK b : b = With(a, p, st)
  OBVIOUS
<1>2. /\ b \in Crew /\ b[p].st = st
      /\ \A q \in Member : b[q].turn = a[q].turn
      /\ \A q \in Member : q # p => b[q] = a[q]
  BY <1>1, CrewSet DEF Fit
<1>3. Numbered(b) /\ Past(c, b)
  BY <1>2 DEF Fit, Hands, Numbered, Past
<1>4. CASE c.turn[p] # 0
  BY <1>1, <1>2, <1>3, <1>4, FailFit DEF Fit, TurnFails
<1>5. CASE c.turn[p] = 0
  <2>1. Halted(c, b)
    BY <1>2 DEF Fit, Hands, Halted
  <2>2. Manned(c, b, s)
    <3> SUFFICES ASSUME NEW k \in ArtifactKind, At(c, k), c.barrier[k].status = "pending",
                        NEW q \in Missing(c, k)
                 PROVE  q \in s \/ Named(c, q) \/ Doing(c, b, q)
      BY DEF Manned
    <3>1. q \in Member
      BY DEF Missing, Fit, Paper, Gates, Gate
    <3>2. q \in s \/ Named(c, q) \/ Doing(c, a, q)
      BY DEF Fit, Hands, Manned
    <3> QED
      BY <1>2, <1>5, <3>1, <3>2 DEF Doing
  <2> QED
    BY <1>1, <1>2, <1>3, <1>5, <2>1, <2>2 DEF Fit, Hands, TurnFails
<1> QED
  BY <1>4, <1>5 DEF Fit, Paper, Numbers

(* A barrier that is cancelled, and somebody that strayed.                  *)
LEMMA CancelFit ==
  ASSUME NEW c, NEW a, NEW s, Fit(c, a, s), NEW known
  PROVE  Fit(Without(c, known), a, s \cup {Advance})
<1>1. PICK d : d = Without(c, known)
  OBVIOUS
<1>2. PICK t : t = s \cup {Advance}
  OBVIOUS
<1>3. /\ d \in Paper
      /\ d.phase = c.phase /\ d.from = c.from /\ d.blocked = c.blocked
      /\ d.want = c.want /\ d.turn = c.turn /\ d.made = c.made
      /\ \A k \in ArtifactKind : /\ d.barrier[k].who = c.barrier[k].who
                                 /\ d.barrier[k].in = c.barrier[k].in
                                 /\ d.barrier[k].status \in {c.barrier[k].status, "cancelled"}
  BY <1>1, WithoutIs DEF Fit
<1>4. s \subseteq t /\ t # {}
  BY <1>2
<1>5. Fit(c, a, t)
  BY <1>4, FitMore
<1>6. /\ Place(d) = Place(c) /\ \A k \in ArtifactKind : At(d, k) <=> At(c, k)
      /\ \A k \in ArtifactKind : Missing(d, k) = Missing(c, k)
      /\ \A p \in Member : Named(d, p) <=> Named(c, p)
      /\ \A p \in Member : Doing(d, a, p) <=> Doing(c, a, p)
  BY <1>3 DEF Place, At, Missing, Named, Doing
<1>7. TurnHasWant(d) /\ NothingYet(d) /\ Within(d)
  BY <1>3, <1>5 DEF Fit, Plan, TurnHasWant, NothingYet, Within
<1>8. WantsHere(d)
  BY <1>3, <1>5, <1>6 DEF Fit, Plan, WantsHere
<1>9. SynthAlone(d)
  BY <1>3, <1>5, <1>6 DEF Fit, Plan, SynthAlone, ArtifactKind
<1>10. OnlyMissing(d, t)
  BY <1>3, <1>5, <1>6 DEF Fit, Plan, OnlyMissing
<1>11. Pends(d, t)
  BY <1>4 DEF Pends
<1>12. Drafted(d, t) /\ Earned(d, t)
  BY <1>3, <1>5, <1>6 DEF Fit, Plan, Drafted, Earned
<1>13. BlockedRight(d)
  BY <1>3, <1>5 DEF Fit, Plan, BlockedRight
<1>14. Past(d, a) /\ Halted(d, a)
  BY <1>3, <1>5, <1>6 DEF Fit, Hands, Past, Halted
<1>15. Manned(d, a, t)
  <2> SUFFICES ASSUME NEW k \in ArtifactKind, At(d, k), d.barrier[k].status = "pending",
                      NEW p \in Missing(d, k)
               PROVE  p \in t \/ Named(d, p) \/ Doing(d, a, p)
    BY DEF Manned
  <2>1. p \in Member
    BY <1>3 DEF Missing, Paper, Gates, Gate
  <2>2. At(c, k) /\ c.barrier[k].status = "pending" /\ p \in Missing(c, k)
    BY <1>3, <1>6
  <2> QED
    BY <1>5, <1>6, <2>1, <2>2 DEF Fit, Hands, Manned
<1>16. Plan(d, t)
  BY <1>7, <1>8, <1>9, <1>10, <1>11, <1>12, <1>13 DEF Plan
<1> QED
  BY <1>1, <1>2, <1>3, <1>5, <1>14, <1>15, <1>16 DEF Fit, Hands

(* A list that p joins.                                                     *)
Joined(l, p) == IF p \in ToSet(l) THEN l ELSE Append(l, p)
LEMMA JoinedIs ==
  ASSUME NEW l \in Line, NEW p \in Member, Once(l)
  PROVE  /\ Joined(l, p) \in Line /\ Joined(l, p) # <<>> /\ Once(Joined(l, p))
         /\ \A q \in Member : Lists(Joined(l, p), q) <=> q = p \/ Lists(l, q)
<1>1. p \in ToSet(l) <=> Lists(l, p)
  BY DEF ToSet, Lists
<1>2. CASE p \in ToSet(l)
  BY <1>1, <1>2 DEF Joined, Line, Lists
<1>3. CASE p \notin ToSet(l)
  <2>1. PICK m : m = Append(l, p)
    OBVIOUS
  <2>2. m \in Line /\ Joined(l, p) = m
    BY <1>3, <2>1 DEF Line, Joined
  <2>3. DOMAIN l = 1..Len(l) /\ Len(l) \in Nat
    BY DEF Line
  <2>4. /\ DOMAIN m = 1..(Len(l) + 1) /\ m[Len(l) + 1] = p
        /\ \A i \in 1..Len(l) : m[i] = l[i]
    BY <2>1, <2>3 DEF Line
  <2>5. \A i \in DOMAIN m : i \in DOMAIN l \/ i = Len(l) + 1
    BY <2>3, <2>4
  <2>6. Len(l) + 1 \in DOMAIN m
    BY <2>3, <2>4
  <2>7. m # <<>>
    BY <2>1, <2>6 DEF Line
  <2>8. Once(m)
    BY <1>1, <1>3, <2>3, <2>4, <2>5 DEF Once, Lists
  <2>9. \A q \in Member : Lists(m, q) <=> q = p \/ Lists(l, q)
    BY <2>3, <2>4, <2>5, <2>6 DEF Lists
  <2> QED
    BY <2>2, <2>7, <2>8, <2>9
<1> QED
  BY <1>2, <1>3

(* A turn that is refused for the budget.                                   *)
LEMMA BlockedIs ==
  ASSUME NEW c \in Paper, NEW p \in Member, c.phase \notin Over, c.turn[p] # 0,
         BlockedRight(c)
  PROVE  LET d == TurnBlocked(c, p)
         IN /\ d \in Paper
            /\ d.phase = "blocked" /\ d.from = Place(c) /\ d.from \in Underway
            /\ d.want = c.want /\ d.turn = c.turn /\ d.made = c.made /\ d.barrier = c.barrier
            /\ d.blocked # <<>> /\ Once(d.blocked)
            /\ \A q \in Member : Named(d, q) <=> q = p \/ Named(c, q)
<1>1. PICK f : f = Place(c)
  OBVIOUS
<1>2. PICK l : l = IF c.phase = "blocked" THEN c.blocked ELSE <<>>
  OBVIOUS
<1>3. PICK m : m = Joined(l, p)
  OBVIOUS
<1>4. l \in Line /\ Once(l)
  BY <1>2 DEF Paper, Line, BlockedRight, Once
<1>5. /\ m \in Line /\ m # <<>> /\ Once(m)
      /\ \A q \in Member : Lists(m, q) <=> q = p \/ Lists(l, q)
  BY <1>3, <1>4, JoinedIs
<1>6. m = IF c.phase # "blocked" THEN <<p>>
          ELSE IF p \in ToSet(c.blocked) THEN c.blocked ELSE Append(c.blocked, p)
  <2>1. ToSet(<<>>) = {} /\ Append(<<>>, p) = <<p>>
    BY DEF ToSet
  <2> QED
    BY <1>2, <1>3, <2>1 DEF Joined
<1>7. TurnBlocked(c, p) = [c EXCEPT !.phase = "blocked", !.from = f, !.blocked = m]
  BY <1>1, <1>6 DEF TurnBlocked, Place
<1>8. f \in Underway /\ f \in Origin /\ "blocked" \in Phase
  BY <1>1 DEF Place, BlockedRight, Paper, Phase, Origin, Underway
<1>9. PICK d : d = TurnBlocked(c, p)
  OBVIOUS
<1>10. /\ d \in Paper /\ d.phase = "blocked" /\ d.from = f /\ d.blocked = m
       /\ d.want = c.want /\ d.turn = c.turn /\ d.made = c.made /\ d.barrier = c.barrier
  BY <1>5, <1>7, <1>8, <1>9 DEF Paper
<1>11. \A q \in Member : Named(d, q) <=> q = p \/ Named(c, q)
  <2>1. \A q \in Member : Lists(l, q) <=> Named(c, q)
    BY <1>2 DEF Named, Lists
  <2> QED
    BY <1>5, <1>10, <2>1 DEF Named
<1> QED
  BY <1>1, <1>5, <1>8, <1>9, <1>10, <1>11

LEMMA TurnBlockedFit ==
  ASSUME NEW c, NEW a, NEW s, Fit(c, a, s), NEW p \in Member, a[p].st = "queued"
  PROVE  Fit(TurnBlocked(c, p), With(a, p, "idle"), s)
<1>1. PICK b : b = With(a, p, "idle")
  OBVIOUS
<1>2. /\ b \in Crew /\ b[p].st = "idle"
      /\ \A q \in Member : b[q].turn = a[q].turn
      /\ \A q \in Member : q # p => b[q] = a[q]
  <2>1. "idle" \in Duty /\ a \in Crew
    BY DEF Duty, Fit
  <2> QED
    BY <1>1, <2>1, CrewSet
<1>3. Numbered(b) /\ Past(c, b)
  BY <1>2 DEF Fit, Hands, Numbered, Past, Live
<1>4. CASE c.phase \in Over
  BY <1>1, <1>2, <1>3, <1>4, OverFit DEF Fit, TurnBlocked
<1>5. CASE c.phase \notin Over /\ c.turn[p] # 0
  <2>1. PICK d : d = TurnBlocked(c, p)
    OBVIOUS
  <2>2. /\ d \in Paper
        /\ d.phase = "blocked" /\ d.from = Place(c) /\ d.from \in Underway
        /\ d.want = c.want /\ d.turn = c.turn /\ d.made = c.made /\ d.barrier = c.barrier
        /\ d.blocked # <<>> /\ Once(d.blocked)
        /\ \A q \in Member : Named(d, q) <=> q = p \/ Named(c, q)
    BY <1>5, <2>1, BlockedIs DEF Fit, Plan
  <2>3. /\ Place(d) = Place(c) /\ \A k \in ArtifactKind : At(d, k) <=> At(c, k)
        /\ \A k \in ArtifactKind : Missing(d, k) = Missing(c, k)
        /\ d.phase # "none" /\ c.phase # "none" /\ d.phase # "completed"
    BY <1>5, <2>2 DEF Place, At, Missing, Over
  <2>4. TurnHasWant(d) /\ NothingYet(d) /\ Within(d)
    BY <2>2, <2>3 DEF Fit, Plan, TurnHasWant, NothingYet, Within
  <2>5. WantsHere(d)
    BY <2>2, <2>3 DEF Fit, Plan, WantsHere
  <2>6. SynthAlone(d)
    BY <2>2, <2>3 DEF Fit, Plan, SynthAlone, ArtifactKind
  <2>7. OnlyMissing(d, s) /\ Pends(d, s)
    BY <2>2, <2>3 DEF Fit, Plan, OnlyMissing, Pends
  <2>8. Drafted(d, s) /\ Earned(d, s)
    BY <2>2, <2>3 DEF Fit, Plan, Drafted, Earned
  <2>9. BlockedRight(d)
    <3>1. \A q \in Member : Named(c, q) => c.want[q] # "none"
      BY DEF Fit, Plan, BlockedRight, Named, Lists, Paper, Line
    <3>2. c.want[p] # "none"
      BY <1>5 DEF Fit, Plan, TurnHasWant
    <3>3. \A i \in DOMAIN d.blocked : d.blocked[i] \in Member /\ Named(d, d.blocked[i])
      BY <2>2 DEF Named, Lists, Paper, Line
    <3> QED
      BY <2>2, <3>1, <3>2, <3>3 DEF BlockedRight
  <2>10. Past(d, b)
    BY <1>3, <2>2 DEF Past
  <2>11. Halted(d, b)
    BY <1>2, <2>2 DEF Fit, Hands, Halted, Live
  <2>12. Manned(d, b, s)
    <3> SUFFICES ASSUME NEW k \in ArtifactKind, At(d, k), d.barrier[k].status = "pending",
                        NEW q \in Missing(d, k)
                 PROVE  q \in s \/ Named(d, q) \/ Doing(d, b, q)
      BY DEF Manned
    <3>1. q \in Member
      BY <2>2 DEF Missing, Paper, Gates, Gate
    <3>2. q \in s \/ Named(c, q) \/ Doing(c, a, q)
      BY <2>2, <2>3 DEF Fit, Hands, Manned
    <3> QED
      BY <1>2, <2>2, <3>1, <3>2 DEF Doing
  <2>13. Plan(d, s)
    BY <2>4, <2>5, <2>6, <2>7, <2>8, <2>9 DEF Plan
  <2> QED
    BY <1>1, <1>2, <1>3, <2>1, <2>2, <2>10, <2>11, <2>12, <2>13 DEF Fit, Hands
<1>6. CASE c.turn[p] = 0
  <2>1. TurnBlocked(c, p) = TurnFails(c, p)
    BY <1>6 DEF TurnBlocked, TurnFails
  <2>2. "idle" \in Duty \ Live
    BY DEF Duty, Live
  <2> QED
    BY <1>1, <2>1, <2>2, TurnFailsFit
<1> QED
  BY <1>4, <1>5, <1>6 DEF Fit, Paper, Numbers

(* A council whose members are not at work.                                 *)
LEMMA RestFit ==
  ASSUME NEW c, NEW a, NEW b \in Crew, NEW s, Fit(c, a, s), c.phase \in Over \cup Ready,
         Numbered(b), Past(c, b)
  PROVE  Fit(c, b, s)
<1>1. c.phase # "blocked" /\ Place(c) \notin Active
  BY PlaceKinds DEF Place
<1>2. \A k \in ArtifactKind : ~At(c, k)
  BY <1>1, Places DEF At
<1> QED
  BY <1>1, <1>2 DEF Fit, Hands, Halted, Named, Manned

(* Turns that are cut.                                                      *)
LEMMA RestartFit ==
  ASSUME NEW c, NEW a, NEW b \in Crew, NEW s, Fit(c, a, s),
         \A p \in Member : /\ b[p].turn = a[p].turn
                           /\ b[p].st = IF a[p].st \in Live \cup {"lost"} THEN "failed"
                                        ELSE a[p].st,
         NEW d,
         \/ d = failPlanCouncil(c)
         \/ d = c /\ \A p \in Member : a[p].st \in Live => c.turn[p] = 0
  PROVE  Fit(d, b, s)
<1>1. \A p \in Member : b[p].st \notin Live
  BY DEF Live
<1>2. Numbered(b) /\ Past(c, b) /\ Halted(c, b)
  BY <1>1 DEF Fit, Hands, Numbered, Past, Halted
<1>3. CASE d = failPlanCouncil(c)
  BY <1>2, <1>3, FailFit DEF Fit
<1>4. CASE d = c /\ \A p \in Member : a[p].st \in Live => c.turn[p] = 0
  <2>1. Manned(c, b, s)
    <3> SUFFICES ASSUME NEW k \in ArtifactKind, At(c, k), c.barrier[k].status = "pending",
                        NEW p \in Missing(c, k)
                 PROVE  p \in s \/ Named(c, p) \/ Doing(c, b, p)
      BY DEF Manned
    <3>1. p \in Member
      BY DEF Missing, Fit, Paper, Gates, Gate
    <3>2. p \in s \/ Named(c, p) \/ Doing(c, a, p)
      BY DEF Fit, Hands, Manned
    <3>3. Doing(c, a, p) => a[p].st = "killed"
      BY <1>4, <3>1 DEF Doing
    <3> QED
      BY <3>1, <3>2, <3>3 DEF Doing, Live
  <2> QED
    BY <1>2, <1>4, <2>1 DEF Fit, Hands
<1> QED
  BY <1>3, <1>4

(* A barrier of phase k that waits for who.                                 *)
LEMMA PhaseFit ==
  ASSUME NEW c, NEW s, c \in Paper, Plan(c, s), NEW d \in Paper, NEW b \in Crew,
         NEW k \in ArtifactKind, NEW who \in SUBSET Member,
         d.phase = PhaseOf[k], Renewed(c, d, k, who), Numbered(b), Past(d, b),
         \A p \in who : d.want[p] = k /\ (p \in s \/ Doing(d, b, p)),
         \A p \in Member \ who : d.want[p] = c.want[p] /\ d.turn[p] = c.turn[p],
         Planner \subseteq s \/ \A p \in Member \ who : c.want[p] = "none",
         k = "synthesis" => who = {Synth},
         \A q \in Planner : \/ <<"proposal", q>> \in d.made \/ q \in s
                            \/ k = "proposal" /\ d.want[q] = "proposal"
  PROVE  Fit(d, b, s)
<1>0. /\ d.barrier[k].who = who /\ d.barrier[k].in = {} /\ d.barrier[k].status = "pending"
      /\ \A l \in ArtifactKind : l # k => d.barrier[l] = c.barrier[l]
  BY DEF Renewed
<1>1. /\ Place(d) = PhaseOf[k] /\ d.phase \in Active
      /\ \A l \in ArtifactKind : At(d, l) => l = k
      /\ Missing(d, k) = who
  BY <1>0, Places, PlaceKinds DEF Place, At, Missing
<1>2. d.phase \notin {"none", "blocked", "completed"} /\ d.phase \notin Ready
  BY <1>1, PlaceKinds DEF Underway, Active, Ready
<1>3. TurnHasWant(d)
  BY DEF Plan, TurnHasWant, ArtifactKind
<1>4. NothingYet(d) /\ BlockedRight(d)
  BY <1>2 DEF NothingYet, BlockedRight
<1>5. Within(d)
  BY <1>0 DEF Plan, Within
<1>6. WantsHere(d)
  BY <1>0, <1>1 DEF WantsHere
<1>7. SynthAlone(d)
  BY <1>0, <1>1 DEF SynthAlone, ArtifactKind
<1>8. OnlyMissing(d, s)
  BY <1>1, <1>2 DEF OnlyMissing
<1>9. Pends(d, s)
  BY <1>0, <1>1 DEF Pends
<1>10. Drafted(d, s)
  BY DEF Drafted
<1>11. Earned(d, s)
  <2>1. k = "proposal" => Place(d) = "drafting-plans"
    BY <1>1, PhaseNames
  <2>2. "drafting-plans" \notin (Underway \ {"drafting-plans"}) \cup {"completed"}
    OBVIOUS
  <2> QED
    BY <1>2, <2>1, <2>2 DEF Earned
<1>13. Halted(d, b)
  BY <1>2 DEF Halted, Named
<1>14. Manned(d, b, s)
  BY <1>1 DEF Manned
<1> QED
  BY <1>3, <1>4, <1>5, <1>6, <1>7, <1>8, <1>9, <1>10, <1>11, <1>13, <1>14
     DEF Fit, Plan, Hands

(* What is made of a council when its first phase starts.                   *)
Started ==
  [WithBarrier(council, "proposal", Planner) EXCEPT
     !.phase = PhaseOf["proposal"],
     !.want = [p \in Member |-> IF p \in Planner THEN "proposal" ELSE @[p]],
     !.turn = [p \in Member |-> IF p \in Planner THEN 1 ELSE @[p]],
     !.gate = [p \in Member |-> IF p \in Planner THEN 1 ELSE @[p]]]
Starting(how) ==
  [p \in Member |-> IF p \in Planner THEN [st |-> how[p], turn |-> 1] ELSE agent[p]]

LEMMA StartedFit ==
  ASSUME NEW s, Fit(council, agent, s), council.phase = "none",
         NEW how \in [Planner -> {"running", "queued"}]
  PROVE  Fit(Started, Starting(how), s)
<1>1. PICK e : e = WithBarrier(council, "proposal", Planner)
  OBVIOUS
<1>2. "proposal" \in ArtifactKind /\ Planner \in SUBSET Member
  BY DEF ArtifactKind, Member
<1>3. HasBarrier(council, e, "proposal", Planner)
  BY <1>1, <1>2, WithBarrierIs DEF Fit
<1>4. PICK w : w = [p \in Member |-> IF p \in Planner THEN "proposal" ELSE e.want[p]]
  OBVIOUS
<1>5. PICK t : t = [p \in Member |-> IF p \in Planner THEN 1 ELSE e.turn[p]]
  OBVIOUS
<1>6. PICK g : g = [p \in Member |-> IF p \in Planner THEN 1 ELSE e.gate[p]]
  OBVIOUS
<1>7. w \in Wants /\ t \in Numbers /\ g \in Numbers
  BY <1>2, <1>3, <1>4, <1>5, <1>6 DEF HasBarrier, Paper, Wants, Numbers
<1>8. PICK d : d = Started
  OBVIOUS
<1>9. d = [e EXCEPT !.phase = PhaseOf["proposal"], !.want = w, !.turn = t, !.gate = g]
  BY <1>1, <1>4, <1>5, <1>6, <1>8 DEF Started
<1>10. PhaseOf["proposal"] \in Phase
  BY PhaseNames DEF Phase, Underway, Active
<1>11. /\ d \in Paper /\ d.phase = PhaseOf["proposal"] /\ d.made = council.made
       /\ d.want = w /\ d.turn = t /\ d.barrier = e.barrier
  BY <1>3, <1>7, <1>9, <1>10 DEF Paper, HasBarrier
<1>12. PICK b : b = Starting(how)
  OBVIOUS
<1>13. /\ \A p \in Member \ Planner : b[p] = agent[p]
       /\ \A p \in Planner : /\ b[p] \in Mate /\ b[p].turn = 1
                             /\ b[p].st \in {"running", "queued"}
  <2>1. ASSUME NEW p \in Planner
        PROVE  b[p] \in Mate /\ b[p].turn = 1 /\ b[p].st \in {"running", "queued"}
    <3>1. PICK x : x = how[p]
      OBVIOUS
    <3>2. x \in {"running", "queued"} /\ x \in Duty
      BY <3>1 DEF Duty
    <3>3. b[p] = [st |-> x, turn |-> 1]
      BY <1>2, <1>12, <3>1 DEF Starting
    <3> QED
      BY <3>2, <3>3 DEF Mate
  <2> QED
    BY <1>12, <2>1 DEF Starting
<1>14. b \in Crew
  <2> SUFFICES ASSUME NEW p \in Member PROVE b[p] \in Mate
    BY <1>12 DEF Starting, Crew
  <2>1. agent[p] \in Mate
    BY DEF Fit, Crew
  <2> QED
    BY <1>13, <2>1
<1>15. \A p \in Planner : /\ d.want[p] = "proposal" /\ d.turn[p] = b[p].turn /\ b[p].turn # 0
                          /\ b[p].st \in {"running", "queued"}
  BY <1>2, <1>4, <1>5, <1>11, <1>13
<1>16. \A p \in Member \ Planner : /\ d.want[p] = council.want[p] /\ d.turn[p] = council.turn[p]
                                   /\ b[p] = agent[p] /\ council.want[p] = "none"
  BY <1>3, <1>4, <1>5, <1>11, <1>13 DEF HasBarrier, Fit, Plan, NothingYet
<1>17. /\ d.barrier["proposal"].who = Planner /\ d.barrier["proposal"].in = {}
       /\ d.barrier["proposal"].status = "pending"
       /\ \A l \in ArtifactKind : l # "proposal" => d.barrier[l] = council.barrier[l]
  BY <1>3, <1>11 DEF HasBarrier, Renewed
<1>18. Renewed(council, d, "proposal", Planner)
  BY <1>17 DEF Renewed
<1>19. Numbered(b)
  BY <1>15, <1>16 DEF Fit, Hands, Numbered
<1>20. Past(d, b)
  BY <1>14, <1>15, <1>16 DEF Fit, Hands, Past, Crew, Mate
<1>21. \A p \in Planner : d.want[p] = "proposal" /\ Doing(d, b, p)
  BY <1>15 DEF Doing, Live
<1>22. \A q \in Planner : d.want[q] = "proposal"
  BY <1>15
<1>23. Fit(d, b, s)
  BY <1>2, <1>11, <1>14, <1>16, <1>18, <1>19, <1>20, <1>21, <1>22, PhaseFit, SMTT(30) DEF Fit
<1> QED
  BY <1>8, <1>12, <1>23

(* What is made of a council when a phase opens.                            *)
InPhase(d, k, who, done) ==
  /\ d \in Paper /\ d.phase = PhaseOf[k] /\ d.made = council.made
  /\ \A p \in Member : d.want[p] = IF p \in done THEN k ELSE council.want[p]
  /\ \A p \in Member : d.turn[p] = IF p \in done THEN agent[p].turn + 1 ELSE council.turn[p]
  /\ Renewed(council, d, k, who)

LEMMA OpenedIs ==
  ASSUME council \in Paper, agent \in Crew, NEW k \in Gated, NEW who \in SUBSET Member,
         NEW done \in SUBSET Member
  PROVE  InPhase(Opened(k, who, done), k, who, done)
<1>1. PICK e : e = WithBarrier(council, k, who)
  OBVIOUS
<1>2. k \in ArtifactKind
  BY Places
<1>3. /\ e \in Paper /\ e.made = council.made /\ e.want = council.want /\ e.turn = council.turn
      /\ Renewed(council, e, k, who)
  <2>1. HasBarrier(council, e, k, who)
    BY <1>1, <1>2, WithBarrierIs
  <2> QED
    BY <2>1 DEF HasBarrier
<1>4. PICK w : w = [p \in Member |-> IF p \in done THEN k ELSE e.want[p]]
  OBVIOUS
<1>5. PICK t : t = [p \in Member |-> IF p \in done THEN agent[p].turn + 1 ELSE e.turn[p]]
  OBVIOUS
<1>6. PICK g : g = [p \in Member |-> IF p \in done THEN e.barrier[k].gen ELSE e.gate[p]]
  OBVIOUS
<1>7. w \in Wants /\ t \in Numbers /\ g \in Numbers
  <2>1. w \in Wants
    BY <1>2, <1>3, <1>4 DEF Paper, Wants
  <2>2. t \in Numbers
    BY <1>3, <1>5 DEF Paper, Numbers, Crew, Mate
  <2>3. g \in Numbers
    BY <1>2, <1>3, <1>6 DEF Paper, Numbers, Gates, Gate
  <2> QED
    BY <2>1, <2>2, <2>3
<1>8. PICK d : d = Opened(k, who, done)
  OBVIOUS
<1>9. d = [e EXCEPT !.phase = PhaseOf[k], !.want = w, !.turn = t, !.gate = g]
  BY <1>1, <1>4, <1>5, <1>6, <1>8 DEF Opened
<1>10. PhaseOf[k] \in Phase
  BY <1>2, Places, PlaceKinds
<1>11. /\ d \in Paper /\ d.phase = PhaseOf[k] /\ d.made = council.made
       /\ d.want = w /\ d.turn = t /\ d.barrier = e.barrier
  BY <1>3, <1>7, <1>9, <1>10 DEF Paper
<1>12. Renewed(council, d, k, who)
  BY <1>3, <1>11 DEF Renewed
<1>13. InPhase(d, k, who, done)
  BY <1>3, <1>4, <1>5, <1>11, <1>12 DEF InPhase
<1> QED
  BY <1>8, <1>13

LEMMA LaunchedIs ==
  ASSUME agent \in Crew, NEW done \in SUBSET Member,
         NEW how \in [done -> {"running", "queued"}]
  PROVE  /\ Launched(how) \in Crew
         /\ \A p \in done : /\ Launched(how)[p].turn = agent[p].turn + 1
                            /\ Launched(how)[p].st \in {"running", "queued"}
         /\ \A p \in Member \ done : Launched(how)[p] = agent[p]
<1>1. PICK b : b = Launched(how)
  OBVIOUS
<1>2. /\ \A p \in Member \ done : b[p] = agent[p]
      /\ \A p \in done : /\ b[p] \in Mate /\ b[p].turn = agent[p].turn + 1
                         /\ b[p].st \in {"running", "queued"}
  <2>0. DOMAIN how = done
    OBVIOUS
  <2>1. ASSUME NEW p \in done
        PROVE  /\ b[p] \in Mate /\ b[p].turn = agent[p].turn + 1
               /\ b[p].st \in {"running", "queued"}
    <3>1. PICK x : x = how[p]
      OBVIOUS
    <3>2. x \in {"running", "queued"} /\ x \in Duty
      BY <3>1 DEF Duty
    <3>3. b[p] = [st |-> x, turn |-> agent[p].turn + 1]
      BY <1>1, <2>0, <3>1 DEF Launched
    <3>4. agent[p].turn + 1 \in Nat
      BY DEF Crew, Mate
    <3> QED
      BY <3>2, <3>3, <3>4 DEF Mate
  <2> QED
    BY <1>1, <2>0, <2>1 DEF Launched
<1>3. b \in Crew
  <2> SUFFICES ASSUME NEW p \in Member PROVE b[p] \in Mate
    BY <1>1 DEF Launched, Crew
  <2>1. agent[p] \in Mate
    BY DEF Crew
  <2> QED
    BY <1>2, <2>1
<1> QED
  BY <1>1, <1>2, <1>3

LEMMA WhoIs ==
  ASSUME NEW k \in Gated
  PROVE  WhoFor(k) \in SUBSET Member /\ (k = "synthesis" => WhoFor(k) = {Synth})
BY DEF WhoFor, Reviewers, Member

(* A council that is ready has its drafts, and wants nothing.               *)
LEMMA ReadyHas ==
  ASSUME NEW c, NEW s, Plan(c, s), NEW k \in Gated, c.phase = ReadyFor[k]
  PROVE  /\ Planner \subseteq s \/ \A p \in Member : c.want[p] = "none"
         /\ \A q \in Planner : <<"proposal", q>> \in c.made \/ q \in s
         /\ c.phase \notin Over /\ c.phase # "blocked" /\ c.phase # "none"
<1>1. c.phase \in Ready
  BY Places
<1>2. c.phase \notin Over /\ c.phase # "blocked" /\ c.phase # "none" /\ Place(c) = c.phase
  BY <1>1 DEF Ready, Over, Place
<1> QED
  BY <1>1, <1>2 DEF Plan, OnlyMissing, Earned, Underway, Ready

LEMMA OpensFit ==
  ASSUME NEW s, Fit(council, agent, s), NEW k \in Gated, council.phase = ReadyFor[k],
         NEW how \in [WhoFor(k) -> {"running", "queued"}]
  PROVE  Fit(Opened(k, WhoFor(k), WhoFor(k)), Launched(how), s)
<1>1. PICK who : who = WhoFor(k)
  OBVIOUS
<1>2. who \in SUBSET Member /\ (k = "synthesis" => who = {Synth}) /\ k \in ArtifactKind
  BY <1>1, WhoIs, Places
<1>3. PICK d : d = Opened(k, who, who)
  OBVIOUS
<1>4. PICK b : b = Launched(how)
  OBVIOUS
<1>5. /\ d \in Paper /\ d.phase = PhaseOf[k] /\ d.made = council.made
      /\ \A p \in Member : d.want[p] = IF p \in who THEN k ELSE council.want[p]
      /\ \A p \in Member : d.turn[p] = IF p \in who THEN agent[p].turn + 1 ELSE council.turn[p]
      /\ \A l \in ArtifactKind : l # k => d.barrier[l] = council.barrier[l]
      /\ d.barrier[k].who = who /\ d.barrier[k].in = {} /\ d.barrier[k].status = "pending"
  <2>1. InPhase(d, k, who, who)
    BY <1>2, <1>3, OpenedIs DEF Fit
  <2> QED
    BY <2>1 DEF InPhase, Renewed
<1>6. /\ b \in Crew
      /\ \A p \in who : b[p].turn = agent[p].turn + 1 /\ b[p].st \in {"running", "queued"}
      /\ \A p \in Member \ who : b[p] = agent[p]
  BY <1>1, <1>2, <1>4, LaunchedIs DEF Fit
<1>7. \A p \in who : /\ d.want[p] = k /\ d.turn[p] = b[p].turn /\ b[p].turn # 0
                     /\ b[p].st \in {"running", "queued"}
  BY <1>2, <1>5, <1>6 DEF Fit, Crew, Mate
<1>8. \A p \in Member \ who : /\ d.want[p] = council.want[p] /\ d.turn[p] = council.turn[p]
                              /\ b[p] = agent[p]
  BY <1>5, <1>6
<1>9. /\ Planner \subseteq s \/ \A p \in Member \ who : council.want[p] = "none"
      /\ \A q \in Planner : <<"proposal", q>> \in council.made \/ q \in s
  BY ReadyHas DEF Fit
<1>10. Renewed(council, d, k, who)
  BY <1>5 DEF Renewed
<1>11. Numbered(b)
  BY <1>6, <1>7 DEF Fit, Hands, Numbered
<1>12. Past(d, b)
  BY <1>6, <1>7, <1>8 DEF Fit, Hands, Past, Crew, Mate
<1>13. \A p \in who : d.want[p] = k /\ Doing(d, b, p)
  BY <1>7 DEF Doing, Live
<1>14. Fit(d, b, s)
  BY <1>2, <1>5, <1>6, <1>8, <1>9, <1>10, <1>11, <1>12, <1>13, PhaseFit, SMTT(30) DEF Fit
<1> QED
  BY <1>1, <1>3, <1>4, <1>14

LEMMA BreaksFit ==
  ASSUME NEW s, Fit(council, agent, s), NEW k \in Gated, council.phase = ReadyFor[k],
         NEW done \in SUBSET WhoFor(k), NEW how \in [done -> {"running", "queued"}]
  PROVE  /\ Fit(failPlanCouncil(Opened(k, WhoFor(k), done)), Launched(how), s)
         /\ failPlanCouncil(Opened(k, WhoFor(k), done)).phase = "failed"
<1>1. PICK who : who = WhoFor(k)
  OBVIOUS
<1>2. who \in SUBSET Member /\ done \in SUBSET Member /\ k \in ArtifactKind
  BY <1>1, WhoIs, Places
<1>3. PICK d : d = Opened(k, who, done)
  OBVIOUS
<1>4. PICK b : b = Launched(how)
  OBVIOUS
<1>5. /\ d \in Paper /\ d.phase = PhaseOf[k] /\ d.made = council.made
      /\ \A p \in Member : d.want[p] = IF p \in done THEN k ELSE council.want[p]
      /\ \A p \in Member : d.turn[p] = IF p \in done THEN agent[p].turn + 1 ELSE council.turn[p]
      /\ \A l \in ArtifactKind : l # k => d.barrier[l] = council.barrier[l]
      /\ d.barrier[k].who = who /\ d.barrier[k].in = {}
  <2>1. InPhase(d, k, who, done)
    BY <1>2, <1>3, OpenedIs DEF Fit
  <2> QED
    BY <2>1 DEF InPhase, Renewed
<1>6. /\ b \in Crew
      /\ \A p \in done : b[p].turn = agent[p].turn + 1 /\ b[p].st \in {"running", "queued"}
      /\ \A p \in Member \ done : b[p] = agent[p]
  BY <1>2, <1>4, LaunchedIs DEF Fit
<1>7. d.phase \notin Over /\ d.phase # "none"
  BY <1>2, <1>5, Places DEF Active, Over
<1>8. Ended(d, failPlanCouncil(d)) /\ failPlanCouncil(d).phase = "failed"
  BY <1>5, <1>7, FailIs
<1>9. TurnHasWant(d)
  BY <1>2, <1>5 DEF Fit, Plan, TurnHasWant, ArtifactKind
<1>10. Within(d)
  BY <1>5 DEF Fit, Plan, Within
<1>11. Drafted(d, s)
  BY <1>5, ReadyHas DEF Fit, Drafted
<1>12. Numbered(b)
  BY <1>2, <1>6 DEF Fit, Hands, Numbered, Crew, Mate
<1>13. Past(d, b)
  BY <1>2, <1>5, <1>6 DEF Fit, Hands, Past, Crew, Mate
<1>14. Fit(failPlanCouncil(d), b, s)
  BY <1>5, <1>6, <1>7, <1>8, <1>9, <1>10, <1>11, <1>12, <1>13, EndedFit
<1> QED
  BY <1>1, <1>3, <1>4, <1>8, <1>14

(* A turn that the council waits for is over.                               *)
Onward(x, p) ==
  CASE x = "drafting-plans" -> "ready-for-cross-review"
    [] x = "reviewing-peers" -> "ready-for-synthesis"
    [] x = "synthesizing" /\ p = Synth -> "completed"
    [] OTHER -> x
Took(c, e, p) ==
  LET k == c.want[p]
      b == c.barrier[k]
      f == e.barrier[k]
  IN \/ b.status # "pending" /\ f = b /\ e.phase = c.phase
     \/ /\ b.status = "pending" /\ p \in b.who /\ f.who = b.who /\ f.in = b.in \cup {p}
        /\ \/ ~(b.who \subseteq b.in \cup {p}) /\ f.status = "pending" /\ e.phase = c.phase
           \/ b.who \subseteq b.in \cup {p} /\ f.status = "released" /\ e.phase = Onward(c.phase, p)
Took1(c, e, p) ==
  /\ e \in Paper /\ e.from = c.from /\ e.blocked = c.blocked
  /\ e.want[p] = "none" /\ e.turn[p] = 0 /\ e.made = c.made \cup {<<c.want[p], p>>}
  /\ \A q \in Member : q # p => e.want[q] = c.want[q] /\ e.turn[q] = c.turn[q]
  /\ \A k \in ArtifactKind : k # c.want[p] => e.barrier[k] = c.barrier[k]

LEMMA MaterializedIs ==
  ASSUME NEW c \in Paper, NEW p \in Member, c.want[p] # "none"
  PROVE  LET d == Materialized(c, p)
         IN Took1(c, d, p) /\ d.phase = c.phase /\ d.barrier = c.barrier
<1>1. PICK w : w = [c.want EXCEPT ![p] = "none"]
  OBVIOUS
<1>2. PICK t : t = [c.turn EXCEPT ![p] = 0]
  OBVIOUS
<1>3. PICK g : g = [c.gate EXCEPT ![p] = 0]
  OBVIOUS
<1>4. PICK m : m = c.made \cup {<<c.want[p], p>>}
  OBVIOUS
<1>5. w \in Wants /\ t \in Numbers /\ g \in Numbers
  BY <1>1, <1>2, <1>3 DEF Paper, Wants, Numbers
<1>6. m \in Works
  <2>1. c.want[p] \in ArtifactKind
    BY DEF Paper, Wants
  <2> QED
    BY <1>4, <2>1 DEF Paper, Works
<1>7. PICK d : d = Materialized(c, p)
  OBVIOUS
<1>8. d = [c EXCEPT !.made = m, !.want = w, !.turn = t, !.gate = g]
  BY <1>1, <1>2, <1>3, <1>4, <1>7 DEF Materialized
<1>9. /\ d \in Paper /\ d.made = m /\ d.want = w /\ d.turn = t /\ d.barrier = c.barrier
      /\ d.phase = c.phase /\ d.from = c.from /\ d.blocked = c.blocked
  BY <1>5, <1>6, <1>8 DEF Paper
<1>10. w[p] = "none" /\ \A q \in Member : q # p => w[q] = c.want[q]
  BY <1>1 DEF Paper, Wants
<1>11. t[p] = 0 /\ \A q \in Member : q # p => t[q] = c.turn[q]
  BY <1>2 DEF Paper, Numbers
<1> QED
  BY <1>4, <1>7, <1>9, <1>10, <1>11 DEF Took1

LEMMA ArrivalIs ==
  ASSUME NEW c \in Paper, NEW k \in ArtifactKind, NEW p \in Member
  PROVE  LET d == WithArrivalOf(c, k, p)
         IN /\ d \in Paper /\ d.made = c.made /\ d.want = c.want /\ d.turn = c.turn
            /\ d.phase = c.phase /\ d.from = c.from /\ d.blocked = c.blocked
            /\ \A l \in ArtifactKind : l # k => d.barrier[l] = c.barrier[l]
            /\ d.barrier[k].who = c.barrier[k].who /\ d.barrier[k].in = c.barrier[k].in \cup {p}
            /\ d.barrier[k].status =
                 IF c.barrier[k].who \subseteq c.barrier[k].in \cup {p} THEN "released"
                 ELSE c.barrier[k].status
<1>1. PICK b : b = c.barrier[k]
  OBVIOUS
<1>2. PICK i : i = b.in \cup {p}
  OBVIOUS
<1>3. PICK x : x = IF b.who \subseteq b.in \cup {p} THEN "released" ELSE b.status
  OBVIOUS
<1>4. PICK f : f = [b EXCEPT !.in = i, !.status = x]
  OBVIOUS
<1>5. PICK g : g = [c.barrier EXCEPT ![k] = f]
  OBVIOUS
<1>6. b \in Gate /\ c.barrier \in Gates
  BY <1>1 DEF Paper, Gates
<1>7. f \in Gate /\ f.who = b.who /\ f.in = i /\ f.status = x
  BY <1>2, <1>3, <1>4, <1>6 DEF Gate, Status
<1>8. g \in Gates /\ g[k] = f /\ \A l \in ArtifactKind : l # k => g[l] = c.barrier[l]
  BY <1>5, <1>6, <1>7 DEF Gates
<1>9. PICK d : d = WithArrivalOf(c, k, p)
  OBVIOUS
<1>10. d = [c EXCEPT !.barrier = g]
  BY <1>1, <1>2, <1>3, <1>4, <1>5, <1>6, <1>9 DEF WithArrivalOf, Gates, Gate, Paper
<1>11. /\ d \in Paper /\ d.made = c.made /\ d.want = c.want /\ d.turn = c.turn
       /\ d.phase = c.phase /\ d.from = c.from /\ d.blocked = c.blocked /\ d.barrier = g
  BY <1>8, <1>10 DEF Paper
<1> QED
  BY <1>1, <1>2, <1>3, <1>7, <1>8, <1>9, <1>11

LEMMA AfterReleaseIs ==
  ASSUME NEW c \in Paper, NEW p
  PROVE  LET d == AfterRelease(c, p)
         IN /\ d \in Paper /\ d.made = c.made /\ d.want = c.want /\ d.turn = c.turn
            /\ d.phase = Onward(c.phase, p) /\ d.from = c.from /\ d.blocked = c.blocked
            /\ d.barrier = c.barrier
<1>1. PICK d : d = AfterRelease(c, p)
  OBVIOUS
<1>2. PICK x : x = Onward(c.phase, p)
  OBVIOUS
<1>3. x \in Phase
  BY <1>2 DEF Onward, Paper, Phase, Over, Underway, Ready
<1>4. \/ d = c /\ x = c.phase
      \/ d = [c EXCEPT !.phase = x]
  <2>1. CASE c.phase = "drafting-plans"
    BY <1>1, <1>2, <2>1 DEF AfterRelease, Onward
  <2>2. CASE c.phase = "reviewing-peers"
    BY <1>1, <1>2, <2>2 DEF AfterRelease, Onward
  <2>3. CASE c.phase = "synthesizing" /\ p = Synth
    BY <1>1, <1>2, <2>3 DEF AfterRelease, Onward
  <2>4. CASE /\ c.phase # "drafting-plans" /\ c.phase # "reviewing-peers"
             /\ ~(c.phase = "synthesizing" /\ p = Synth)
    BY <1>1, <1>2, <2>4 DEF AfterRelease, Onward
  <2> QED
    BY <2>1, <2>2, <2>3, <2>4
<1> QED
  BY <1>1, <1>2, <1>3, <1>4 DEF Paper

LEMMA FinishedIs ==
  ASSUME NEW c \in Paper, NEW p \in Member, NEW t
  PROVE  LET e == planCouncilFinished(c, p, t)
         IN \/ /\ c.phase \in Over \/ c.turn[p] # t \/ c.want[p] = "none"
               /\ e = c
            \/ /\ c.phase \notin Over /\ c.turn[p] = t /\ c.want[p] # "none"
               /\ \/ e = failPlanCouncil(Materialized(c, p))
                  \/ Took1(c, e, p) /\ Took(c, e, p)
<1>1. PICK e : e = planCouncilFinished(c, p, t)
  OBVIOUS
<1>2. CASE c.phase \in Over \/ c.turn[p] # t \/ c.want[p] = "none"
  <2>1. e = c
    BY <1>1, <1>2 DEF planCouncilFinished
  <2> QED
    BY <1>1, <1>2, <2>1
<1>3. CASE ~(c.phase \in Over \/ c.turn[p] # t \/ c.want[p] = "none")
  <2>1. PICK k : k = c.want[p]
    OBVIOUS
  <2>2. PICK d : d = Materialized(c, p)
    OBVIOUS
  <2>3. PICK b : b = c.barrier[k]
    OBVIOUS
  <2>4. PICK f : f = WithArrivalOf(d, k, p)
    OBVIOUS
  <2>5. k \in ArtifactKind
    BY <1>3, <2>1 DEF Paper, Wants
  <2>6. Took1(c, d, p) /\ d.phase = c.phase /\ d.barrier = c.barrier
    BY <1>3, <2>2, MaterializedIs
  <2>7. e = IF c.gate[p] # b.gen \/ p \notin b.who THEN failPlanCouncil(d)
            ELSE IF b.status # "pending" THEN d
            ELSE IF f.barrier[k].status = "released" THEN AfterRelease(f, p) ELSE f
    BY <1>1, <1>3, <2>1, <2>2, <2>3, <2>4 DEF planCouncilFinished
  <2>8. CASE c.gate[p] # b.gen \/ p \notin b.who
    BY <1>1, <1>3, <2>2, <2>7, <2>8
  <2>9. CASE c.gate[p] = b.gen /\ p \in b.who /\ b.status # "pending"
    <3>1. e = d
      BY <2>7, <2>9
    <3>2. Took(c, e, p)
      BY <2>1, <2>3, <2>6, <2>9, <3>1 DEF Took
    <3> QED
      BY <1>1, <1>3, <2>6, <3>1, <3>2
  <2>10. CASE c.gate[p] = b.gen /\ p \in b.who /\ b.status = "pending"
    <3>1. d \in Paper
      BY <2>6 DEF Took1
    <3>2. /\ f \in Paper /\ f.made = d.made /\ f.want = d.want /\ f.turn = d.turn
          /\ f.phase = d.phase /\ f.from = d.from /\ f.blocked = d.blocked
          /\ \A l \in ArtifactKind : l # k => f.barrier[l] = d.barrier[l]
          /\ f.barrier[k].who = d.barrier[k].who /\ f.barrier[k].in = d.barrier[k].in \cup {p}
          /\ f.barrier[k].status =
               IF d.barrier[k].who \subseteq d.barrier[k].in \cup {p} THEN "released"
               ELSE d.barrier[k].status
      BY <2>4, <2>5, <3>1, ArrivalIs
    <3>3. CASE b.who \subseteq b.in \cup {p}
      <4>1. f.barrier[k].status = "released" /\ e = AfterRelease(f, p)
        BY <2>3, <2>6, <2>7, <2>10, <3>2, <3>3
      <4>2. /\ e \in Paper /\ e.made = f.made /\ e.want = f.want /\ e.turn = f.turn
            /\ e.phase = Onward(f.phase, p) /\ e.from = f.from /\ e.blocked = f.blocked
            /\ e.barrier = f.barrier
        BY <3>2, <4>1, AfterReleaseIs
      <4>3. Took1(c, e, p)
        BY <2>1, <2>6, <3>2, <4>2 DEF Took1
      <4>4. Took(c, e, p)
        BY <2>1, <2>3, <2>6, <2>10, <3>2, <3>3, <4>1, <4>2 DEF Took
      <4> QED
        BY <1>1, <1>3, <4>3, <4>4
    <3>4. CASE ~(b.who \subseteq b.in \cup {p})
      <4>1. f.barrier[k].status = "pending" /\ e = f
        BY <2>3, <2>6, <2>7, <2>10, <3>2, <3>4
      <4>2. Took1(c, e, p)
        BY <2>1, <2>6, <3>2, <4>1 DEF Took1
      <4>3. Took(c, e, p)
        BY <2>1, <2>3, <2>6, <2>10, <3>2, <3>4, <4>1 DEF Took
      <4> QED
        BY <1>1, <1>3, <4>2, <4>3
    <3> QED
      BY <3>3, <3>4
  <2> QED
    BY <2>8, <2>9, <2>10
<1> QED
  BY <1>2, <1>3

(* Where a council stays.                                                   *)
LEMMA StaysFit ==
  ASSUME NEW c, NEW a, NEW s, Fit(c, a, s), NEW p \in Member, NEW b \in Crew,
         NEW e, Took1(c, e, p), Took(c, e, p), e.phase = c.phase, c.phase \notin Over,
         c.want[p] # "none", a[p].turn = c.turn[p], a[p].st \in Live, b[p].st \notin Live,
         \A q \in Member : b[q].turn = a[q].turn, \A q \in Member : q # p => b[q] = a[q]
  PROVE  Fit(e, b, s)
<1>1. PICK k : k = c.want[p]
  OBVIOUS
<1>2. k \in ArtifactKind /\ c \in Paper /\ Plan(c, s) /\ Hands(c, a, s) /\ e \in Paper
  BY <1>1 DEF Fit, Paper, Wants, Took1
<1>3. /\ e.from = c.from /\ e.blocked = c.blocked
      /\ e.want[p] = "none" /\ e.turn[p] = 0 /\ e.made = c.made \cup {<<k, p>>}
      /\ \A q \in Member : q # p => e.want[q] = c.want[q] /\ e.turn[q] = c.turn[q]
      /\ \A l \in ArtifactKind : l # k => e.barrier[l] = c.barrier[l]
  BY <1>1 DEF Took1
<1>4. /\ e.barrier[k].who = c.barrier[k].who
      /\ \/ e.barrier[k] = c.barrier[k] /\ c.barrier[k].status # "pending"
         \/ /\ p \in c.barrier[k].who /\ e.barrier[k].in = c.barrier[k].in \cup {p}
            /\ c.barrier[k].status = "pending"
            /\ \/ e.barrier[k].status = "pending"
               \/ /\ c.barrier[k].who \subseteq c.barrier[k].in \cup {p}
                  /\ e.barrier[k].status = "released" /\ c.phase = Onward(c.phase, p)
  BY <1>1 DEF Took
<1>5. /\ Place(e) = Place(c) /\ \A l \in ArtifactKind : At(e, l) <=> At(c, l)
      /\ \A q \in Member : Named(e, q) <=> Named(c, q)
      /\ e.phase # "completed" /\ e.phase # "none"
  BY <1>3 DEF Place, At, Named, Over
<1>6. ~Named(c, p)
  BY <1>2 DEF Hands, Halted
<1>7. \A l \in ArtifactKind : At(c, l) /\ l # k => p \notin c.barrier[l].who
  BY <1>1, <1>2 DEF Plan, WantsHere
<1>8. TurnHasWant(e) /\ NothingYet(e)
  BY <1>2, <1>3, <1>5 DEF Plan, TurnHasWant, NothingYet
<1>9. Within(e)
  <2> SUFFICES ASSUME NEW l \in ArtifactKind
               PROVE  e.barrier[l].in \subseteq e.barrier[l].who
    BY DEF Within
  <2>1. c.barrier[l].in \subseteq c.barrier[l].who
    BY <1>2 DEF Plan, Within
  <2> QED
    BY <1>3, <1>4, <2>1
<1>10. WantsHere(e)
  <2> SUFFICES ASSUME NEW l \in ArtifactKind, At(e, l), NEW q \in e.barrier[l].who
               PROVE  /\ e.want[q] \in {"none", l}
                      /\ q \in e.barrier[l].in => e.want[q] = "none"
                      /\ e.barrier[l].status = "pending" /\ q \notin e.barrier[l].in
                           => e.want[q] = l
    BY DEF WantsHere
  <2>1. At(c, l) /\ q \in c.barrier[l].who /\ q \in Member
    BY <1>2, <1>3, <1>4, <1>5 DEF Paper, Gates, Gate
  <2>2. /\ c.want[q] \in {"none", l}
        /\ q \in c.barrier[l].in => c.want[q] = "none"
        /\ c.barrier[l].status = "pending" /\ q \notin c.barrier[l].in => c.want[q] = l
    BY <1>2, <2>1 DEF Plan, WantsHere
  <2>3. CASE l = k
    BY <1>3, <1>4, <2>1, <2>2, <2>3
  <2>4. CASE l # k
    BY <1>3, <1>7, <2>1, <2>2, <2>4
  <2> QED
    BY <2>3, <2>4
<1>11. SynthAlone(e)
  BY <1>2, <1>3, <1>4, <1>5 DEF Plan, SynthAlone, ArtifactKind
<1>12. OnlyMissing(e, s)
  <2> SUFFICES ASSUME ~(Planner \subseteq s)
               PROVE  /\ \A l \in ArtifactKind : At(e, l) =>
                           \A q \in Member : e.want[q] # "none" => q \in Missing(e, l)
                      /\ Place(e) \in Ready \cup {"completed"} =>
                           \A q \in Member : e.want[q] = "none"
    BY DEF OnlyMissing
  <2>1. \A q \in Member : e.want[q] # "none" => q # p /\ c.want[q] # "none"
    BY <1>3
  <2>2. ASSUME NEW l \in ArtifactKind, At(e, l), NEW q \in Member, e.want[q] # "none"
        PROVE  q \in Missing(e, l)
    <3>1. q \in Missing(c, l) /\ q # p
      BY <1>2, <1>5, <2>1, <2>2 DEF Plan, OnlyMissing
    <3> QED
      BY <1>3, <1>4, <3>1 DEF Missing
  <2>3. Place(e) \in Ready \cup {"completed"} => \A q \in Member : e.want[q] = "none"
    BY <1>2, <1>3, <1>5 DEF Plan, OnlyMissing
  <2> QED
    BY <2>2, <2>3
<1>13. Pends(e, s)
  <2> SUFFICES ASSUME NEW l \in ArtifactKind, At(e, l), e.barrier[l].status # "pending", s = {}
               PROVE  FALSE
    BY DEF Pends
  <2>1. At(c, l) /\ c.barrier[l].status = "pending"
    BY <1>2, <1>5 DEF Plan, Pends
  <2>2. l = k
    BY <1>3, <2>1
  <2>3. /\ c.barrier[k].who \subseteq c.barrier[k].in \cup {p}
        /\ c.phase = Onward(c.phase, p)
    BY <1>4, <2>1, <2>2
  <2>4. ~(Planner \subseteq s)
    BY CouncilAssumption
  <2>5. \A q \in Member : c.want[q] # "none" => q \in Missing(c, k)
    BY <1>2, <2>1, <2>2, <2>4 DEF Plan, OnlyMissing
  <2>6. CASE c.phase = "blocked"
    <3>1. c.blocked \in Line /\ c.blocked # <<>>
      BY <1>2, <2>6 DEF Paper, Plan, BlockedRight
    <3>2. 1 \in DOMAIN c.blocked /\ c.blocked[1] \in Member
      BY <3>1 DEF Line
    <3>3. PICK q \in Member : q = c.blocked[1]
      BY <3>2
    <3>4. Named(c, q) /\ c.want[q] # "none"
      BY <1>2, <2>6, <3>2, <3>3 DEF Plan, BlockedRight, Named, Lists
    <3>5. q # p /\ q \in Missing(c, k)
      BY <1>6, <2>5, <3>4
    <3> QED
      BY <2>3, <3>5 DEF Missing
  <2>7. CASE c.phase # "blocked"
    <3>1. c.phase = PhaseOf[k]
      BY <2>1, <2>2, <2>7 DEF At, Place
    <3>2. k = "synthesis" => p = Synth
      BY <1>1, <1>2, <2>1, <2>2, <2>5 DEF Plan, SynthAlone, Missing
    <3> QED
      BY <1>2, <2>3, <3>1, <3>2, PhaseNames DEF Onward, ArtifactKind
  <2> QED
    BY <2>6, <2>7
<1>14. Drafted(e, s)
  <2> SUFFICES ASSUME NEW q \in Planner
               PROVE  \/ <<"proposal", q>> \in e.made \/ q \in s \/ e.want[q] = "proposal"
    BY DEF Drafted
  <2>1. q \in Member /\ c.phase # "none"
    BY <1>5 DEF Member
  <2>2. <<"proposal", q>> \in c.made \/ q \in s \/ c.want[q] = "proposal"
    BY <1>2, <2>1 DEF Plan, Drafted
  <2> QED
    BY <1>1, <1>3, <2>1, <2>2
<1>15. Earned(e, s)
  BY <1>2, <1>3, <1>5 DEF Plan, Earned
<1>16. BlockedRight(e)
  <2>1. ASSUME c.phase = "blocked", NEW i \in DOMAIN c.blocked
        PROVE  c.blocked[i] \in Member /\ c.blocked[i] # p /\ c.want[c.blocked[i]] # "none"
    <3>1. Named(c, c.blocked[i])
      BY <2>1 DEF Named, Lists
    <3>2. c.want[c.blocked[i]] # "none" /\ c.blocked[i] \in Member
      BY <1>2, <2>1 DEF Plan, BlockedRight, Paper, Line
    <3> QED
      BY <1>6, <3>1, <3>2
  <2> QED
    BY <1>2, <1>3, <2>1 DEF Plan, BlockedRight
<1>17. Numbered(b)
  BY <1>2 DEF Hands, Numbered
<1>18. Past(e, b)
  BY <1>2, <1>3 DEF Hands, Past, Crew, Mate
<1>19. Halted(e, b)
  BY <1>2, <1>3, <1>5 DEF Hands, Halted
<1>20. Manned(e, b, s)
  <2> SUFFICES ASSUME NEW l \in ArtifactKind, At(e, l), e.barrier[l].status = "pending",
                      NEW q \in Missing(e, l)
               PROVE  q \in s \/ Named(e, q) \/ Doing(e, b, q)
    BY DEF Manned
  <2>1. q \in Member
    BY <1>2 DEF Missing, Paper, Gates, Gate
  <2>2. At(c, l) /\ c.barrier[l].status = "pending" /\ q \in Missing(c, l) /\ q # p
    BY <1>3, <1>4, <1>5, <1>7 DEF Missing
  <2>3. q \in s \/ Named(c, q) \/ Doing(c, a, q)
    BY <1>2, <2>2 DEF Hands, Manned
  <2> QED
    BY <1>3, <1>5, <2>1, <2>2, <2>3 DEF Doing
<1>21. Plan(e, s)
  BY <1>8, <1>9, <1>10, <1>11, <1>12, <1>13, <1>14, <1>15, <1>16 DEF Plan
<1> QED
  BY <1>2, <1>17, <1>18, <1>19, <1>20, <1>21 DEF Fit, Hands

(* Where a council goes on.                                                 *)
LEMMA MovesFit ==
  ASSUME NEW c, NEW a, NEW s, Fit(c, a, s), NEW p \in Member, NEW b \in Crew,
         NEW e, Took1(c, e, p), Took(c, e, p), e.phase # c.phase, c.phase \notin Over,
         c.want[p] # "none", b[p].st \notin Live,
         \A q \in Member : b[q].turn = a[q].turn, \A q \in Member : q # p => b[q] = a[q]
  PROVE  Fit(e, b, s)
<1>1. PICK k : k = c.want[p]
  OBVIOUS
<1>2. k \in ArtifactKind /\ c \in Paper /\ Plan(c, s) /\ Hands(c, a, s) /\ e \in Paper
  BY <1>1 DEF Fit, Paper, Wants, Took1
<1>3. /\ e.from = c.from /\ e.blocked = c.blocked
      /\ e.want[p] = "none" /\ e.turn[p] = 0 /\ e.made = c.made \cup {<<k, p>>}
      /\ \A q \in Member : q # p => e.want[q] = c.want[q] /\ e.turn[q] = c.turn[q]
      /\ \A l \in ArtifactKind : l # k => e.barrier[l] = c.barrier[l]
  BY <1>1 DEF Took1
<1>4. /\ e.barrier[k].who = c.barrier[k].who /\ p \in c.barrier[k].who
      /\ e.barrier[k].in = c.barrier[k].in \cup {p}
      /\ c.barrier[k].who \subseteq c.barrier[k].in \cup {p} /\ e.phase = Onward(c.phase, p)
  BY <1>1 DEF Took
<1>5. \/ c.phase = "drafting-plans" /\ e.phase = "ready-for-cross-review"
      \/ c.phase = "reviewing-peers" /\ e.phase = "ready-for-synthesis"
      \/ c.phase = "synthesizing" /\ p = Synth /\ e.phase = "completed"
  BY <1>4 DEF Onward
<1>6. PICK l \in ArtifactKind : c.phase = PhaseOf[l]
  BY <1>5, PhaseNames DEF ArtifactKind
<1>7. At(c, l) /\ Place(c) = c.phase /\ c.phase \in Active
  BY <1>5, <1>6 DEF At, Place, Active
<1>8. e.phase \in Ready \cup {"completed"} /\ Place(e) = e.phase /\ e.phase # "blocked"
  BY <1>5 DEF Ready, Place
<1>9. \A m \in ArtifactKind : ~At(e, m)
  BY <1>8, Places DEF At, Active, Ready
<1>10. Planner \subseteq s \/ \A q \in Member : e.want[q] = "none"
  <2>1. CASE l = k
    BY <1>2, <1>3, <1>4, <1>7, <2>1 DEF Plan, OnlyMissing, Missing
  <2>2. CASE l # k
    <3>1. p \in Missing(c, l) => c.want[p] \in {"none", l}
      BY <1>2, <1>7 DEF Plan, WantsHere, Missing
    <3> QED
      BY <1>1, <1>2, <1>7, <2>2, <3>1 DEF Plan, OnlyMissing
  <2> QED
    BY <2>1, <2>2
<1>11. Drafted(e, s) /\ \A q \in Planner : <<"proposal", q>> \in e.made \/ q \in s
  <2>1. ASSUME NEW q \in Planner
        PROVE  <<"proposal", q>> \in e.made \/ q \in s
    <3>1. q \in Member /\ c.phase # "none"
      BY <1>5 DEF Member
    <3>2. <<"proposal", q>> \in c.made \/ q \in s \/ c.want[q] = "proposal"
      BY <1>2, <3>1 DEF Plan, Drafted
    <3>3. q \in s \/ e.want[q] = "none"
      BY <1>10, <3>1
    <3> QED
      BY <1>1, <1>3, <3>1, <3>2, <3>3
  <2> QED
    BY <2>1 DEF Drafted
<1>12. e.phase = "completed" => <<"synthesis", Synth>> \in e.made
  <2> SUFFICES ASSUME e.phase = "completed"
               PROVE  <<"synthesis", Synth>> \in e.made
    OBVIOUS
  <2>1. c.phase = "synthesizing" /\ p = Synth
    BY <1>5
  <2>2. At(c, "synthesis") /\ "synthesis" \in ArtifactKind
    BY <1>7, <2>1, PhaseNames DEF At, ArtifactKind
  <2>3. c.barrier["synthesis"].who = {Synth}
    BY <1>2, <2>2 DEF Plan, SynthAlone
  <2>4. c.want[Synth] \in {"none", "synthesis"}
    BY <1>2, <2>2, <2>3 DEF Plan, WantsHere
  <2> QED
    BY <1>1, <1>3, <2>1, <2>4
<1>13. TurnHasWant(e)
  BY <1>2, <1>3 DEF Plan, TurnHasWant
<1>14. NothingYet(e)
  BY <1>8 DEF NothingYet, Ready
<1>15. Within(e)
  <2> SUFFICES ASSUME NEW m \in ArtifactKind
               PROVE  e.barrier[m].in \subseteq e.barrier[m].who
    BY DEF Within
  <2>1. c.barrier[m].in \subseteq c.barrier[m].who
    BY <1>2 DEF Plan, Within
  <2> QED
    BY <1>3, <1>4, <2>1
<1>16. WantsHere(e) /\ Pends(e, s)
  BY <1>9 DEF WantsHere, Pends
<1>17. SynthAlone(e)
  BY <1>9 DEF SynthAlone, ArtifactKind
<1>18. OnlyMissing(e, s)
  BY <1>9, <1>10 DEF OnlyMissing
<1>19. Earned(e, s)
  BY <1>11, <1>12 DEF Earned
<1>20. BlockedRight(e)
  BY <1>8 DEF BlockedRight
<1>21. Numbered(b)
  BY <1>2 DEF Hands, Numbered
<1>22. Past(e, b)
  BY <1>2, <1>3 DEF Hands, Past, Crew, Mate
<1>23. Halted(e, b) /\ Manned(e, b, s)
  BY <1>8, <1>9 DEF Halted, Named, Manned
<1> QED
  BY <1>2, <1>11, <1>13, <1>14, <1>15, <1>16, <1>17, <1>18, <1>19, <1>20, <1>21, <1>22, <1>23
     DEF Fit, Plan, Hands

LEMMA FinishedFit ==
  ASSUME NEW c, NEW a, NEW s, Fit(c, a, s), NEW p \in Member, NEW t,
         a[p] = [st |-> "ending", turn |-> t]
  PROVE  Fit(planCouncilFinished(c, p, t), With(a, p, "idle"), s)
<1>1. PICK e : e = planCouncilFinished(c, p, t)
  OBVIOUS
<1>2. PICK b : b = With(a, p, "idle")
  OBVIOUS
<1>3. a \in Crew /\ c \in Paper /\ Plan(c, s) /\ Hands(c, a, s) /\ "idle" \in Duty \ Live
  BY DEF Fit, Duty, Live
<1>4. /\ b \in Crew /\ b[p].st = "idle"
      /\ \A q \in Member : b[q].turn = a[q].turn
      /\ \A q \in Member : q # p => b[q] = a[q]
  BY <1>2, <1>3, CrewSet
<1>5. a[p].st = "ending" /\ a[p].turn = t /\ a[p].st \in Live /\ b[p].st \notin Live
  BY <1>4 DEF Live
<1>6. Numbered(b) /\ Past(c, b)
  BY <1>3, <1>4, <1>5 DEF Hands, Numbered, Past
<1>7. CASE (c.phase \in Over \/ c.turn[p] # t \/ c.want[p] = "none") /\ e = c
  <2>1. CASE c.phase \in Over
    BY <1>1, <1>2, <1>3, <1>4, <1>6, <1>7, <2>1, OverFit
  <2>2. CASE c.turn[p] # t \/ c.want[p] = "none"
    <3>1. Halted(c, b)
      BY <1>3, <1>4, <1>5 DEF Hands, Halted
    <3>2. ~Doing(c, a, p)
      BY <1>3, <1>5, <2>2 DEF Doing, Plan, TurnHasWant
    <3>3. Manned(c, b, s)
      <4> SUFFICES ASSUME NEW l \in ArtifactKind, At(c, l), c.barrier[l].status = "pending",
                          NEW q \in Missing(c, l)
                   PROVE  q \in s \/ Named(c, q) \/ Doing(c, b, q)
        BY DEF Manned
      <4>1. q \in Member
        BY <1>3 DEF Missing, Paper, Gates, Gate
      <4>2. q \in s \/ Named(c, q) \/ Doing(c, a, q)
        BY <1>3 DEF Hands, Manned
      <4> QED
        BY <1>4, <3>2, <4>1, <4>2 DEF Doing
    <3> QED
      BY <1>1, <1>2, <1>3, <1>4, <1>6, <1>7, <3>1, <3>3 DEF Fit, Hands
  <2> QED
    BY <1>7, <2>1, <2>2
<1>8. CASE /\ c.phase \notin Over /\ c.turn[p] = t /\ c.want[p] # "none"
           /\ e = failPlanCouncil(Materialized(c, p))
  <2>1. PICK d : d = Materialized(c, p)
    OBVIOUS
  <2>2. Took1(c, d, p) /\ d.phase = c.phase /\ d.barrier = c.barrier
    BY <1>3, <1>8, <2>1, MaterializedIs
  <2>3. d \in Paper /\ d.phase \notin Over /\ d.phase # "none" /\ c.phase # "none"
    BY <1>8, <2>2 DEF Took1, Over
  <2>4. Ended(d, e)
    BY <1>8, <2>1, <2>3, FailIs
  <2>5. TurnHasWant(d)
    BY <1>3, <2>2 DEF Took1, Plan, TurnHasWant
  <2>6. Within(d)
    BY <1>3, <2>2 DEF Plan, Within
  <2>7. Drafted(d, s)
    <3> SUFFICES ASSUME NEW q \in Planner
                 PROVE  \/ <<"proposal", q>> \in d.made \/ q \in s \/ d.want[q] = "proposal"
      BY DEF Drafted
    <3>1. q \in Member
      BY DEF Member
    <3>2. <<"proposal", q>> \in c.made \/ q \in s \/ c.want[q] = "proposal"
      BY <1>3, <2>3 DEF Plan, Drafted
    <3> QED
      BY <2>2, <3>1, <3>2 DEF Took1
  <2>8. Past(d, b)
    BY <1>4, <1>6, <2>2 DEF Took1, Past, Crew, Mate
  <2>9. Fit(e, b, s)
    BY <1>4, <1>6, <2>3, <2>4, <2>5, <2>6, <2>7, <2>8, EndedFit
  <2> QED
    BY <1>1, <1>2, <2>9
<1>9. CASE /\ c.phase \notin Over /\ c.turn[p] = t /\ c.want[p] # "none"
           /\ Took1(c, e, p) /\ Took(c, e, p)
  <2>1. CASE e.phase = c.phase
    BY <1>1, <1>2, <1>4, <1>5, <1>9, <2>1, StaysFit
  <2>2. CASE e.phase # c.phase
    BY <1>1, <1>2, <1>4, <1>5, <1>9, <2>2, MovesFit
  <2> QED
    BY <2>1, <2>2
<1> QED
  BY <1>1, <1>3, <1>7, <1>8, <1>9, FinishedIs

(* A list without its first.                                                *)
LEMMA TailIs ==
  ASSUME NEW l \in Line, l # <<>>, Once(l)
  PROVE  /\ Tail(l) \in Line /\ Once(Tail(l)) /\ Head(l) \in Member /\ Lists(l, Head(l))
         /\ \A q \in Member : Lists(Tail(l), q) <=> Lists(l, q) /\ q # Head(l)
<1>1. PICK m : m = Tail(l)
  OBVIOUS
<1>2. DOMAIN l = 1..Len(l) /\ Len(l) \in Nat /\ Len(l) # 0
  BY DEF Line
<1>3. m \in Line /\ DOMAIN m = 1..(Len(l) - 1)
  BY <1>1, <1>2 DEF Line
<1>4. \A i \in 1..(Len(l) - 1) : m[i] = l[i + 1]
  BY <1>1, <1>2 DEF Line
<1>5. 1 \in DOMAIN l /\ Head(l) = l[1] /\ l[1] \in Member
  BY <1>2 DEF Line
<1>6. Once(m)
  <2> SUFFICES ASSUME NEW i \in DOMAIN m, NEW j \in DOMAIN m, m[i] = m[j] PROVE i = j
    BY DEF Once
  <2>1. i \in Nat /\ j \in Nat /\ i + 1 \in DOMAIN l /\ j + 1 \in DOMAIN l
    BY <1>2, <1>3
  <2>2. i + 1 = j + 1
    BY <1>3, <1>4, <2>1 DEF Once
  <2> QED
    BY <2>1, <2>2
<1>7. ASSUME NEW q \in Member
      PROVE  Lists(m, q) <=> Lists(l, q) /\ q # l[1]
  <2>1. ASSUME Lists(m, q)
        PROVE  Lists(l, q) /\ q # l[1]
    <3>1. PICK i \in 1..(Len(l) - 1) : m[i] = q
      BY <1>3, <2>1 DEF Lists
    <3>2. i + 1 \in DOMAIN l /\ i + 1 # 1 /\ l[i + 1] = q
      BY <1>2, <1>4, <3>1
    <3> QED
      BY <1>5, <3>2 DEF Lists, Once
  <2>2. ASSUME Lists(l, q), q # l[1]
        PROVE  Lists(m, q)
    <3>1. PICK i \in DOMAIN l : l[i] = q
      BY <2>2 DEF Lists
    <3>2. i - 1 \in 1..(Len(l) - 1) /\ (i - 1) + 1 = i
      BY <1>2, <2>2, <3>1
    <3> QED
      BY <1>3, <1>4, <3>1, <3>2 DEF Lists
  <2> QED
    BY <2>1, <2>2
<1> QED
  BY <1>1, <1>3, <1>5, <1>6, <1>7 DEF Lists

(* A blocked member that is tried again.                                    *)
Retried(c, d, p) ==
  /\ d \in Paper /\ d.want = c.want /\ d.made = c.made /\ d.barrier = c.barrier
  /\ \A q \in Member : q # p => d.turn[q] = c.turn[q]
  /\ Place(d) = Place(c) /\ d.phase \notin {"none", "completed"}
  /\ \A q \in Member : q # p => (Named(d, q) <=> Named(c, q))

LEMMA RetriedPlan ==
  ASSUME NEW c, NEW d, NEW s, NEW p \in Member, Plan(c, s), Retried(c, d, p),
         c.phase = "blocked", c.want[p] # "none", BlockedRight(d)
  PROVE  Plan(d, s)
<1> USE DEF Retried
<1>1. /\ \A k \in ArtifactKind : At(d, k) <=> At(c, k)
      /\ \A k \in ArtifactKind : Missing(d, k) = Missing(c, k)
  BY DEF At, Missing
<1>2. TurnHasWant(d) /\ NothingYet(d) /\ Within(d)
  BY DEF Plan, TurnHasWant, NothingYet, Within
<1>3. WantsHere(d)
  BY <1>1 DEF Plan, WantsHere
<1>4. SynthAlone(d)
  BY <1>1 DEF Plan, SynthAlone, ArtifactKind
<1>5. OnlyMissing(d, s) /\ Pends(d, s)
  BY <1>1 DEF Plan, OnlyMissing, Pends
<1>6. Drafted(d, s) /\ Earned(d, s)
  BY DEF Plan, Drafted, Earned
<1> QED
  BY <1>2, <1>3, <1>4, <1>5, <1>6 DEF Plan

LEMMA RetriedManned ==
  ASSUME NEW c, NEW a, NEW d, NEW b, NEW s, NEW p \in Member, Manned(c, a, s), Retried(c, d, p),
         Named(d, p) \/ Doing(d, b, p), \A q \in Member : q # p => b[q] = a[q]
  PROVE  Manned(d, b, s)
<1> SUFFICES ASSUME NEW k \in ArtifactKind, At(d, k), d.barrier[k].status = "pending",
                    NEW q \in Missing(d, k)
             PROVE  q \in s \/ Named(d, q) \/ Doing(d, b, q)
  BY DEF Manned
<1>1. q \in Member
  BY DEF Missing, Retried, Paper, Gates, Gate
<1>2. q \in s \/ Named(c, q) \/ Doing(c, a, q)
  BY DEF Manned, Retried, At, Missing
<1> QED
  BY <1>1, <1>2 DEF Retried, Doing

LEMMA RetryFit ==
  ASSUME NEW c, NEW a, NEW s, Fit(c, a, s), c.phase = "blocked", NEW p, p = Head(c.blocked),
         NEW how \in {"running", "queued"}
  PROVE  /\ p \in Member
         /\ Fit([c EXCEPT !.turn[p] = a[p].turn + 1, !.blocked = Tail(c.blocked),
                          !.phase = IF Tail(c.blocked) = <<>> THEN c.from ELSE @],
                Asked(a, p, how), s)
<1>1. PICK l : l = c.blocked
  OBVIOUS
<1>2. PICK m : m = Tail(l)
  OBVIOUS
<1>3. /\ c \in Paper /\ a \in Crew /\ Plan(c, s) /\ Hands(c, a, s)
      /\ l \in Line /\ l # <<>> /\ Once(l) /\ c.from \in Underway
      /\ \A i \in DOMAIN l : c.want[l[i]] # "none"
  BY <1>1 DEF Fit, Plan, BlockedRight, Paper
<1>4. /\ m \in Line /\ Once(m) /\ p \in Member /\ Lists(l, p)
      /\ \A q \in Member : Lists(m, q) <=> Lists(l, q) /\ q # p
  BY <1>1, <1>2, <1>3, TailIs
<1>5. PICK t : t = [c.turn EXCEPT ![p] = a[p].turn + 1]
  OBVIOUS
<1>6. a[p] \in Mate
  BY <1>3, <1>4 DEF Crew
<1>7. t \in Numbers /\ t[p] = a[p].turn + 1 /\ \A q \in Member : q # p => t[q] = c.turn[q]
  BY <1>3, <1>4, <1>5, <1>6 DEF Numbers, Paper, Mate
<1>8. PICK x : x = IF m = <<>> THEN c.from ELSE "blocked"
  OBVIOUS
<1>9. x \in Phase /\ x \notin {"none", "completed"}
  BY <1>3, <1>8, PlaceKinds
<1>10. PICK d : d = [c EXCEPT !.turn = t, !.blocked = m, !.phase = x]
  OBVIOUS
<1>11. d = [c EXCEPT !.turn[p] = a[p].turn + 1, !.blocked = Tail(c.blocked),
                     !.phase = IF Tail(c.blocked) = <<>> THEN c.from ELSE @]
  BY <1>1, <1>2, <1>3, <1>5, <1>8, <1>10 DEF Paper
<1>12. /\ d \in Paper /\ d.want = c.want /\ d.made = c.made /\ d.barrier = c.barrier
       /\ d.turn = t /\ d.blocked = m /\ d.phase = x /\ d.from = c.from
  BY <1>3, <1>4, <1>7, <1>9, <1>10 DEF Paper
<1>13. Place(d) = Place(c)
  BY <1>3, <1>8, <1>12, PlaceKinds DEF Place
<1>14. /\ \A q \in Member : Named(d, q) <=> (Named(c, q) /\ q # p)
  <2>1. m = <<>> => \A q \in Member : ~Lists(m, q)
    BY DEF Lists
  <2>2. c.from # "blocked"
    BY <1>3, PlaceKinds
  <2> QED
    BY <1>1, <1>4, <1>8, <1>12, <2>1, <2>2 DEF Named
<1>15. Retried(c, d, p)
  BY <1>7, <1>9, <1>12, <1>13, <1>14 DEF Retried
<1>16. c.want[p] # "none"
  BY <1>3, <1>4 DEF Lists
<1>17. BlockedRight(d)
  <2>1. d.phase = "blocked" => m # <<>>
    BY <1>3, <1>8, <1>12, PlaceKinds
  <2>2. ASSUME NEW i \in DOMAIN m PROVE c.want[m[i]] # "none"
    <3>1. m[i] \in Member /\ Lists(m, m[i])
      BY <1>4 DEF Line, Lists
    <3> QED
      BY <1>3, <1>4, <3>1 DEF Lists
  <2> QED
    BY <1>3, <1>4, <1>12, <2>1, <2>2 DEF BlockedRight
<1>18. PICK y : y = [st |-> how, turn |-> a[p].turn + 1]
  OBVIOUS
<1>19. y \in Mate
  <2>1. PICK h : h = how
    OBVIOUS
  <2>2. h \in Duty
    BY <2>1 DEF Duty
  <2> QED
    BY <1>6, <1>18, <2>1, <2>2 DEF Mate
<1>20. PICK b : b = Asked(a, p, how)
  OBVIOUS
<1>21. b \in Crew /\ b[p] = y /\ \A q \in Member : q # p => b[q] = a[q]
  <2>1. b = [a EXCEPT ![p] = y]
    BY <1>18, <1>20, <1>3, <1>4 DEF Asked, Crew
  <2> QED
    BY <1>3, <1>4, <1>19, <2>1 DEF Crew
<1>22. b[p].turn = t[p] /\ b[p].turn # 0 /\ b[p].st \in Live
  BY <1>6, <1>7, <1>18, <1>21 DEF Live, Mate
<1>23. Numbered(b)
  BY <1>3, <1>21, <1>22 DEF Hands, Numbered
<1>24. Past(d, b)
  BY <1>3, <1>7, <1>12, <1>21, <1>22, <1>6, <1>18 DEF Hands, Past, Mate
<1>25. Halted(d, b)
  BY <1>3, <1>7, <1>12, <1>14, <1>21 DEF Hands, Halted
<1>26. Doing(d, b, p)
  BY <1>12, <1>22 DEF Doing
<1>27. Manned(d, b, s)
  BY <1>3, <1>4, <1>15, <1>21, <1>26, RetriedManned DEF Hands
<1>28. Plan(d, s)
  BY <1>3, <1>4, <1>15, <1>16, <1>17, RetriedPlan
<1> QED
  BY <1>4, <1>11, <1>12, <1>20, <1>21, <1>23, <1>24, <1>25, <1>27, <1>28 DEF Fit, Hands

(* It is refused again.                                                     *)
LEMMA RefusedFit ==
  ASSUME NEW c, NEW a, NEW s, Fit(c, a, s), c.phase = "blocked", NEW p, p = Head(c.blocked)
  PROVE  Fit([c EXCEPT !.turn[p] = 0], a, s)
<1>1. PICK l : l = c.blocked
  OBVIOUS
<1>2. /\ c \in Paper /\ a \in Crew /\ Plan(c, s) /\ Hands(c, a, s)
      /\ l \in Line /\ l # <<>> /\ Once(l) /\ c.from \in Underway
      /\ \A i \in DOMAIN l : c.want[l[i]] # "none"
  BY <1>1 DEF Fit, Plan, BlockedRight, Paper
<1>3. p \in Member /\ Lists(l, p)
  BY <1>1, <1>2, TailIs
<1>4. PICK t : t = [c.turn EXCEPT ![p] = 0]
  OBVIOUS
<1>5. t \in Numbers /\ t[p] = 0 /\ \A q \in Member : q # p => t[q] = c.turn[q]
  BY <1>2, <1>3, <1>4 DEF Numbers, Paper
<1>6. PICK d : d = [c EXCEPT !.turn = t]
  OBVIOUS
<1>7. /\ d \in Paper /\ d.want = c.want /\ d.made = c.made /\ d.barrier = c.barrier
      /\ d.turn = t /\ d.blocked = l /\ d.phase = c.phase /\ d.from = c.from
  BY <1>1, <1>2, <1>5, <1>6 DEF Paper
<1>8. d = [c EXCEPT !.turn[p] = 0]
  BY <1>4, <1>6
<1>9. Place(d) = Place(c) /\ \A q \in Member : Named(d, q) <=> Named(c, q)
  BY <1>1, <1>7 DEF Place, Named
<1>10. Retried(c, d, p)
  BY <1>5, <1>7, <1>9 DEF Retried
<1>11. BlockedRight(d)
  BY <1>1, <1>2, <1>7 DEF BlockedRight
<1>12. Plan(d, s)
  <2>1. c.want[p] # "none"
    BY <1>2, <1>3 DEF Lists
  <2> QED
    BY <1>2, <1>3, <1>10, <1>11, <2>1, RetriedPlan
<1>13. Past(d, a)
  BY <1>2, <1>5, <1>7 DEF Hands, Past, Crew, Mate
<1>14. Halted(d, a)
  BY <1>2, <1>5, <1>7, <1>9 DEF Hands, Halted, Numbered
<1>15. Named(d, p)
  BY <1>1, <1>3, <1>7 DEF Named
<1>16. Manned(d, a, s)
  BY <1>2, <1>3, <1>10, <1>15, RetriedManned DEF Hands
<1> QED
  BY <1>2, <1>7, <1>8, <1>12, <1>13, <1>14, <1>16 DEF Fit, Hands

(* What is made of a council by a patch.                                    *)
PatchOp == {"resynthesize", "replace", "add-verifier"}
KindOf(p) == CASE p = Synth -> "synthesis" [] p = Verifier -> "peer-review" [] OTHER -> "proposal"
InPatch(d, op, p) ==
  /\ d \in Paper /\ d.phase = PhaseOf[KindOf(p)] /\ Renewed(council, d, KindOf(p), {p})
  /\ d.want[p] = KindOf(p)
  /\ \A q \in Member : q # p => d.want[q] = council.want[q] /\ d.turn[q] = council.turn[q]
  /\ d.made = IF op = "replace" THEN {m \in council.made : m[2] # p} ELSE council.made
GoesPast(op, p, s) ==
  op = "replace" /\ (\E q \in Member \ {p} : council.want[q] # "none") => Planner \subseteq s

LEMMA KindIs ==
  ASSUME NEW p \in Member
  PROVE  /\ KindOf(p) \in ArtifactKind
         /\ KindOf(p) = "synthesis" => p = Synth
         /\ p \in Planner => KindOf(p) = "proposal"
BY CouncilAssumption DEF KindOf, ArtifactKind, Member

LEMMA PatchedIs ==
  ASSUME council \in Paper, NEW op \in PatchOp, NEW p \in Member
  PROVE  /\ InPatch(Patched(op, p), op, p)
         /\ Patched(op, p).turn[p] \in {0, council.turn[p]}
<1>1. PICK k : k = KindOf(p)
  OBVIOUS
<1>2. PICK c : c = IF op = "replace"
                   THEN [council EXCEPT !.made = {m \in @ : m[2] # p}, !.turn[p] = 0, !.gate[p] = 0]
                   ELSE [council EXCEPT !.joined = @ \/ p = Verifier]
  OBVIOUS
<1>3. /\ c \in Paper /\ c.want = council.want /\ c.barrier = council.barrier
      /\ c.made = IF op = "replace" THEN {m \in council.made : m[2] # p} ELSE council.made
      /\ \A q \in Member : q # p => c.turn[q] = council.turn[q]
      /\ c.turn[p] \in {0, council.turn[p]}
  <2>1. CASE op = "replace"
    <3>1. PICK w : w = {m \in council.made : m[2] # p}
      OBVIOUS
    <3>2. PICK t : t = [council.turn EXCEPT ![p] = 0]
      OBVIOUS
    <3>3. PICK g : g = [council.gate EXCEPT ![p] = 0]
      OBVIOUS
    <3>4. /\ t \in Numbers /\ g \in Numbers /\ t[p] = 0
          /\ \A q \in Member : q # p => t[q] = council.turn[q]
      BY <3>2, <3>3 DEF Paper, Numbers
    <3>5. w \in Works
      BY <3>1 DEF Paper, Works
    <3>6. c = [council EXCEPT !.made = w, !.turn = t, !.gate = g]
      BY <1>2, <2>1, <3>1, <3>2, <3>3 DEF Paper
    <3> QED
      BY <2>1, <3>1, <3>4, <3>5, <3>6 DEF Paper
  <2>2. CASE op # "replace"
    <3>1. PICK j : j = (council.joined \/ p = Verifier)
      OBVIOUS
    <3>2. j \in BOOLEAN
      BY <3>1 DEF Paper
    <3>3. c = [council EXCEPT !.joined = j]
      BY <1>2, <2>2, <3>1
    <3> QED
      BY <2>2, <3>2, <3>3 DEF Paper
  <2> QED
    BY <2>1, <2>2
<1>4. k \in ArtifactKind
  BY <1>1, KindIs
<1>5. PICK e : e = WithBarrier(c, k, {p})
  OBVIOUS
<1>6. HasBarrier(c, e, k, {p})
  BY <1>3, <1>4, <1>5, WithBarrierIs
<1>7. PICK w : w = [e.want EXCEPT ![p] = k]
  OBVIOUS
<1>8. w \in Wants /\ w[p] = k /\ \A q \in Member : q # p => w[q] = council.want[q]
  BY <1>3, <1>4, <1>6, <1>7 DEF Wants, HasBarrier, Paper
<1>9. PhaseOf[k] \in Phase
  BY <1>4, Places, PlaceKinds
<1>10. PICK d : d = Patched(op, p)
  OBVIOUS
<1>11. d = [e EXCEPT !.phase = PhaseOf[k], !.want = w]
  <2>1. d = [e EXCEPT !.phase = PhaseOf[k], !.want[p] = k]
    BY <1>1, <1>2, <1>5, <1>10 DEF Patched, KindOf
  <2> QED
    BY <1>7, <2>1
<1>12. /\ d \in Paper /\ d.phase = PhaseOf[k] /\ d.want = w /\ d.turn = c.turn /\ d.made = c.made
       /\ d.barrier = e.barrier
  BY <1>6, <1>8, <1>9, <1>11 DEF Paper, HasBarrier
<1>13. Renewed(council, d, k, {p})
  BY <1>3, <1>6, <1>12 DEF HasBarrier, Renewed
<1>14. InPatch(d, op, p)
  BY <1>1, <1>3, <1>8, <1>12, <1>13 DEF InPatch
<1> QED
  BY <1>3, <1>10, <1>12, <1>14

LEMMA PatchLands ==
  ASSUME NEW a, NEW s, Fit(council, a, s), NEW op \in PatchOp, NEW p \in Member, Patchable(op, p),
         op = "add-verifier" => council.phase \in {"ready-for-synthesis", "completed"},
         NEW t, s \subseteq t, GoesPast(op, p, t), NEW d, InPatch(d, op, p),
         NEW b \in Crew, Numbered(b), Past(d, b), p \in t \/ Doing(d, b, p)
  PROVE  Fit(d, b, t)
<1>1. PICK k : k = KindOf(p)
  OBVIOUS
<1>2. /\ k \in ArtifactKind /\ (k = "synthesis" => {p} = {Synth})
      /\ p \in Planner => k = "proposal"
  BY <1>1, KindIs
<1>3. council \in Paper /\ Plan(council, s) /\ Plan(council, t)
  BY PlanMore DEF Fit
<1>4. op # "replace" => council.phase \in {"ready-for-synthesis", "completed"}
  BY DEF Patchable, PatchOp
<1>5. op # "replace" => Place(council) \in Ready \cup {"completed"}
                        /\ Place(council) \in (Underway \ {"drafting-plans"}) \cup {"completed"}
  BY <1>4 DEF Place, Ready, Underway
<1>6. Planner \subseteq t \/ \A q \in Member \ {p} : council.want[q] = "none"
  <2>1. CASE op = "replace"
    BY <2>1 DEF GoesPast
  <2>2. CASE op # "replace"
    BY <1>3, <1>5, <2>2 DEF Plan, OnlyMissing
  <2> QED
    BY <2>1, <2>2
<1>7. \A q \in Planner : \/ <<"proposal", q>> \in d.made \/ q \in t
                         \/ k = "proposal" /\ d.want[q] = "proposal"
  <2>1. CASE op = "replace"
    <3> SUFFICES ASSUME NEW q \in Planner
                 PROVE  \/ <<"proposal", q>> \in d.made \/ q \in t
                        \/ k = "proposal" /\ d.want[q] = "proposal"
      OBVIOUS
    <3>1. q \in Member
      BY DEF Member
    <3>2. CASE q = p
      BY <1>1, <1>2, <3>2 DEF InPatch
    <3>3. CASE q # p /\ q \notin t
      <4>1. council.want[q] = "none"
        BY <1>6, <3>1, <3>3
      <4>2. council.phase # "none"
        BY <2>1 DEF Patchable
      <4>3. <<"proposal", q>> \in council.made
        BY <1>3, <3>3, <4>1, <4>2 DEF Plan, Drafted
      <4>4. d.made = {m \in council.made : m[2] # p}
        BY <2>1 DEF InPatch
      <4> QED
        BY <3>3, <4>3, <4>4
    <3> QED
      BY <3>2, <3>3
  <2>2. CASE op # "replace"
    BY <1>3, <1>5, <2>2 DEF Plan, Earned, InPatch
  <2> QED
    BY <2>1, <2>2
<1>8. /\ {p} \in SUBSET Member /\ d.phase = PhaseOf[k] /\ Renewed(council, d, k, {p}) /\ d \in Paper
      /\ \A q \in {p} : d.want[q] = k /\ (q \in t \/ Doing(d, b, q))
      /\ \A q \in Member \ {p} : d.want[q] = council.want[q] /\ d.turn[q] = council.turn[q]
  BY <1>1 DEF InPatch
<1>9. PICK who \in SUBSET Member : who = {p}
  BY <1>8
<1> QED
  BY <1>2, <1>3, <1>6, <1>7, <1>8, <1>9, PhaseFit

LEMMA ExpectingIs ==
  ASSUME NEW d, NEW op, NEW p \in Member, NEW t \in Nat, InPatch(d, op, p)
  PROVE  /\ InPatch(Expecting(d, p, d.want[p], t), op, p)
         /\ Expecting(d, p, d.want[p], t).turn[p] = t
<1>1. PICK k : k = d.want[p]
  OBVIOUS
<1>2. d \in Paper /\ k = KindOf(p) /\ k \in ArtifactKind
  BY <1>1, KindIs DEF InPatch
<1>3. PICK n : n = d.barrier[k].gen
  OBVIOUS
<1>4. n \in Nat
  BY <1>2, <1>3 DEF Paper, Gates, Gate
<1>5. PICK u : u = [d.turn EXCEPT ![p] = t]
  OBVIOUS
<1>6. PICK g : g = [d.gate EXCEPT ![p] = n]
  OBVIOUS
<1>7. PICK w : w = [d.want EXCEPT ![p] = k]
  OBVIOUS
<1>8. /\ u \in Numbers /\ g \in Numbers /\ u[p] = t /\ w = d.want
      /\ \A q \in Member : q # p => u[q] = d.turn[q]
  BY <1>1, <1>2, <1>4, <1>5, <1>6, <1>7 DEF Paper, Numbers, Wants
<1>9. PICK e : e = Expecting(d, p, k, t)
  OBVIOUS
<1>10. e = [d EXCEPT !.want = w, !.turn = u, !.gate = g]
  BY <1>3, <1>5, <1>6, <1>7, <1>9 DEF Expecting
<1>11. /\ e \in Paper /\ e.phase = d.phase /\ e.want = d.want /\ e.turn = u /\ e.made = d.made
       /\ e.barrier = d.barrier
  BY <1>2, <1>8, <1>10 DEF Paper
<1>12. Renewed(council, e, KindOf(p), {p})
  BY <1>11 DEF InPatch, Renewed
<1>13. InPatch(e, op, p)
  BY <1>8, <1>11, <1>12 DEF InPatch
<1> QED
  BY <1>1, <1>8, <1>9, <1>11, <1>13

LEMMA AskedIs ==
  ASSUME NEW a \in Crew, NEW p \in Member, NEW how \in {"running", "queued"}
  PROVE  /\ Asked(a, p, how) \in Crew
         /\ Asked(a, p, how)[p].st \in {"running", "queued"}
         /\ Asked(a, p, how)[p].turn = a[p].turn + 1
         /\ \A q \in Member : q # p => Asked(a, p, how)[q] = a[q]
<1>1. PICK y : y = [st |-> how, turn |-> a[p].turn + 1]
  OBVIOUS
<1>2. PICK b : b = Asked(a, p, how)
  OBVIOUS
<1>3. b = [a EXCEPT ![p] = y]
  BY <1>1, <1>2 DEF Asked, Crew
<1>4. a[p] \in Mate
  BY DEF Crew
<1>5. y \in Mate /\ y.st \in {"running", "queued"} /\ y.turn = a[p].turn + 1
  <2>1. PICK h : h = how
    OBVIOUS
  <2>2. h \in Duty
    BY <2>1 DEF Duty
  <2> QED
    BY <1>1, <1>4, <2>1, <2>2 DEF Mate
<1> QED
  BY <1>2, <1>3, <1>5 DEF Crew

LEMMA SeatIs ==
  ASSUME agent \in Crew, NEW op, NEW p \in Member
  PROVE  /\ Seat(op, p) \in Crew
         /\ \A q \in Member : Seat(op, p)[q].turn = agent[q].turn
         /\ \A q \in Member : Seat(op, p)[q].st \in {agent[q].st, "idle"}
<1>1. CASE op = "replace"
  <2>1. PICK b : b = With(agent, p, "idle")
    OBVIOUS
  <2>2. /\ b \in Crew /\ b[p].st = "idle"
        /\ \A q \in Member : b[q].turn = agent[q].turn
        /\ \A q \in Member : q # p => b[q] = agent[q]
    <3>1. "idle" \in Duty
      BY DEF Duty
    <3> QED
      BY <2>1, <3>1, CrewSet
  <2> QED
    BY <1>1, <2>1, <2>2 DEF Seat
<1>2. CASE op # "replace"
  BY <1>2 DEF Seat
<1> QED
  BY <1>1, <1>2

LEMMA PatchFit ==
  ASSUME NEW s, Fit(council, agent, s), NEW op \in PatchOp, NEW p \in Member, Patchable(op, p),
         op = "add-verifier" => council.phase \in {"ready-for-synthesis", "completed"},
         NEW t, s \subseteq t, GoesPast(op, p, t)
  PROVE  LET c == Patched(op, p)
             a == Seat(op, p)
         IN /\ \A how \in {"running", "queued"} :
                 Fit(Expecting(c, p, c.want[p], a[p].turn + 1), Asked(a, p, how), t)
            /\ Fit(c, a, t \cup {p})
<1>1. PICK c : c = Patched(op, p)
  OBVIOUS
<1>2. PICK a : a = Seat(op, p)
  OBVIOUS
<1>3. council \in Paper /\ agent \in Crew /\ Hands(council, agent, s)
  BY DEF Fit
<1>4. InPatch(c, op, p) /\ c.turn[p] \in {0, council.turn[p]}
  BY <1>1, <1>3, PatchedIs
<1>5. /\ a \in Crew /\ \A q \in Member : a[q].turn = agent[q].turn
      /\ \A q \in Member : a[q].st \in {agent[q].st, "idle"}
  BY <1>2, <1>3, SeatIs
<1>6. \A q \in Member : a[q] \in Mate /\ a[q].turn \in Nat
  BY <1>5 DEF Crew, Mate
<1>7. Numbered(a)
  BY <1>3, <1>5 DEF Hands, Numbered, Live
<1>8. Past(c, a)
  <2> SUFFICES ASSUME NEW q \in Member PROVE c.turn[q] <= a[q].turn
    BY DEF Past
  <2>1. council.turn[q] <= a[q].turn
    BY <1>3, <1>5 DEF Hands, Past
  <2>2. c.turn[q] = 0 \/ c.turn[q] = council.turn[q]
    BY <1>4 DEF InPatch
  <2> QED
    BY <1>6, <2>1, <2>2
<1>9. Fit(c, a, t \cup {p})
  <2>1. PICK u : u = t \cup {p}
    OBVIOUS
  <2>2. s \subseteq u /\ p \in u /\ GoesPast(op, p, u)
    BY <2>1 DEF GoesPast
  <2> QED
    BY <1>4, <1>5, <1>7, <1>8, <2>1, <2>2, PatchLands
<1>10. ASSUME NEW how \in {"running", "queued"}
       PROVE  Fit(Expecting(c, p, c.want[p], a[p].turn + 1), Asked(a, p, how), t)
  <2>1. PICK n : n = a[p].turn + 1
    OBVIOUS
  <2>2. n \in Nat /\ n # 0
    BY <1>6, <2>1
  <2>3. PICK d : d = Expecting(c, p, c.want[p], n)
    OBVIOUS
  <2>4. InPatch(d, op, p) /\ d.turn[p] = n
    BY <1>4, <2>2, <2>3, ExpectingIs
  <2>5. PICK b : b = Asked(a, p, how)
    OBVIOUS
  <2>6. /\ b \in Crew /\ b[p].st \in {"running", "queued"} /\ b[p].turn = n
        /\ \A q \in Member : q # p => b[q] = a[q]
    <3>1. /\ Asked(a, p, how) \in Crew
          /\ Asked(a, p, how)[p].st \in {"running", "queued"}
          /\ Asked(a, p, how)[p].turn = a[p].turn + 1
          /\ \A q \in Member : q # p => Asked(a, p, how)[q] = a[q]
      BY <1>5, AskedIs, Zenon
    <3> QED
      BY <2>1, <2>5, <3>1
  <2>7. Numbered(b)
    BY <1>7, <2>2, <2>6 DEF Numbered
  <2>8. Past(d, b)
    <3> SUFFICES ASSUME NEW q \in Member PROVE d.turn[q] <= b[q].turn
      BY DEF Past
    <3>1. CASE q = p
      BY <2>2, <2>4, <2>6, <3>1
    <3>2. CASE q # p
      BY <1>4, <1>8, <2>4, <2>6, <3>2 DEF InPatch, Past
    <3> QED
      BY <3>1, <3>2
  <2>9. Doing(d, b, p)
    BY <2>2, <2>4, <2>6 DEF Doing, Live
  <2>10. Fit(d, b, t)
    BY <2>4, <2>6, <2>7, <2>8, <2>9, PatchLands
  <2> QED
    BY <2>1, <2>3, <2>5, <2>10
<1> QED
  BY <1>1, <1>2, <1>9, <1>10

(* A verifier that only joins.                                              *)
LEMMA JoinFit ==
  ASSUME NEW c, NEW a, NEW s, Fit(c, a, s)
  PROVE  Fit([c EXCEPT !.joined = TRUE], a, s)
<1>1. PICK d : d = [c EXCEPT !.joined = TRUE]
  OBVIOUS
<1>2. /\ d \in Paper /\ d.phase = c.phase /\ d.from = c.from /\ d.blocked = c.blocked
      /\ d.want = c.want /\ d.turn = c.turn /\ d.made = c.made /\ d.barrier = c.barrier
  BY <1>1 DEF Fit, Paper
<1>3. /\ Place(d) = Place(c) /\ \A k \in ArtifactKind : At(d, k) <=> At(c, k)
      /\ \A k \in ArtifactKind : Missing(d, k) = Missing(c, k)
      /\ \A p \in Member : Named(d, p) <=> Named(c, p)
      /\ \A p \in Member : Doing(d, a, p) <=> Doing(c, a, p)
  BY <1>2 DEF Place, At, Missing, Named, Doing
<1>4. TurnHasWant(d) /\ NothingYet(d) /\ Within(d) /\ BlockedRight(d)
  BY <1>2 DEF Fit, Plan, TurnHasWant, NothingYet, Within, BlockedRight
<1>5. WantsHere(d)
  BY <1>2, <1>3 DEF Fit, Plan, WantsHere
<1>6. SynthAlone(d)
  BY <1>2, <1>3 DEF Fit, Plan, SynthAlone, ArtifactKind
<1>7. OnlyMissing(d, s) /\ Pends(d, s)
  BY <1>2, <1>3 DEF Fit, Plan, OnlyMissing, Pends
<1>8. Drafted(d, s) /\ Earned(d, s)
  BY <1>2, <1>3 DEF Fit, Plan, Drafted, Earned
<1>9. Past(d, a) /\ Halted(d, a)
  BY <1>2, <1>3 DEF Fit, Hands, Past, Halted
<1>10. Manned(d, a, s)
  <2> SUFFICES ASSUME NEW k \in ArtifactKind, At(d, k), d.barrier[k].status = "pending",
                      NEW p \in Missing(d, k)
               PROVE  p \in s \/ Named(d, p) \/ Doing(d, a, p)
    BY DEF Manned
  <2>1. p \in Member
    BY <1>2 DEF Missing, Paper, Gates, Gate
  <2> QED
    BY <1>2, <1>3, <2>1 DEF Fit, Hands, Manned
<1>11. Plan(d, s)
  BY <1>4, <1>5, <1>6, <1>7, <1>8 DEF Plan
<1> QED
  BY <1>1, <1>2, <1>9, <1>10, <1>11 DEF Fit, Hands

(* The chain of the executor.                                               *)
Knowns == SUBSET (ArtifactKind \X Nat)
By == {"human", "runtime"}
Holds == {"council", "copy"}
Opener == [kind : {"phase"}, by : {"runtime"}, of : Gated, gen : Nat \ {0},
           held : Holds, known : Knowns]
Ender == [kind : {"complete"}, by : {"runtime"}, who : Member, turn : Nat]
FormerEnder == [kind : {"former"}, by : {"runtime"}, who : Member, turn : Nat]
Request == [kind : {"phase"}, by : By, of : Gated, gen : {0}]
Plain == [kind : {"stop", "retry"}, by : By]
Killing == [kind : {"kill"}, by : By, who : Member]
Patching == [kind : {"patch"}, by : By, op : PatchOp, who : Member]
Other == FormerEnder \cup Request \cup Plain \cup Killing \cup Patching
Step == Opener \cup Ender \cup Other
Chain == Seq(Step)

OpensStep(x, k) == x \in Opener /\ x.of = k
ClosesStep(x, p, t) == x \in Ender /\ x.who = p /\ x.turn = t
Opens(q, k) == \E i \in DOMAIN q : OpensStep(q[i], k)
Closes(q, p, t) == \E i \in DOMAIN q : ClosesStep(q[i], p, t)

(* What a step is, from its kind.                                           *)
LEMMA StepKinds ==
  ASSUME NEW x \in Step
  PROVE  /\ x.kind = "phase" => /\ x.of \in Gated
                                /\ \/ x \in Opener /\ Automatic(x) /\ x.known \in Knowns
                                   \/ x \in Request /\ ~Automatic(x)
         /\ x.kind = "complete" => x \in Ender /\ x.who \in Member /\ x.turn \in Nat
         /\ x.kind = "kill" => x.who \in Member
         /\ x.kind = "patch" => x.op \in PatchOp /\ x.who \in Member
         /\ x \in Opener => x.kind = "phase"
         /\ x \in Ender => x.kind = "complete"
         /\ Automatic(x) => x \in Opener
<1> USE DEF Automatic
<1>1. CASE x \in Opener
  BY <1>1 DEF Opener, Ender
<1>2. CASE x \in Ender
  BY <1>2 DEF Ender, Opener
<1>3. CASE x \in FormerEnder
  BY <1>3 DEF FormerEnder, Opener, Ender
<1>4. CASE x \in Request
  BY <1>4 DEF Request, Opener, Ender
<1>5. CASE x \in Plain
  BY <1>5 DEF Plain, Opener, Ender
<1>6. CASE x \in Killing
  BY <1>6 DEF Killing, Opener, Ender
<1>7. CASE x \in Patching
  BY <1>7 DEF Patching, Opener, Ender
<1> QED
  BY <1>1, <1>2, <1>3, <1>4, <1>5, <1>6, <1>7 DEF Step, Other

(* A step that changes and still does what it did.                          *)
Alike(x, y) ==
  /\ y \in Step
  /\ x \in Opener => y \in Opener /\ y.of = x.of
  /\ x \in Ender => y \in Ender /\ y.who = x.who /\ y.turn = x.turn

LEMMA ByAlike ==
  ASSUME NEW x \in Step
  PROVE  Alike(x, [x EXCEPT !.by = "runtime"])
<1>1. PICK y : y = [x EXCEPT !.by = "runtime"]
  OBVIOUS
<1>2. CASE x \in Opener
  <2>1. y \in Opener /\ y.of = x.of /\ x \notin Ender
    BY <1>1, <1>2 DEF Opener, Ender
  <2> QED
    BY <1>1, <2>1 DEF Alike, Step
<1>3. CASE x \in Ender
  <2>1. y \in Ender /\ y.who = x.who /\ y.turn = x.turn /\ x \notin Opener
    BY <1>1, <1>3 DEF Opener, Ender
  <2> QED
    BY <1>1, <2>1 DEF Alike, Step
<1>4. CASE x \notin Opener /\ x \notin Ender
  <2>1. x \in FormerEnder => y \in Other
    BY <1>1 DEF FormerEnder, Other
  <2>2. x \in Request => y \in Other
    BY <1>1 DEF Request, Other, By
  <2>3. x \in Plain => y \in Other
    BY <1>1 DEF Plain, Other, By
  <2>4. x \in Killing => y \in Other
    BY <1>1 DEF Killing, Other, By
  <2>5. x \in Patching => y \in Other
    BY <1>1 DEF Patching, Other, By
  <2>6. y \in Other
    BY <1>4, <2>1, <2>2, <2>3, <2>4, <2>5 DEF Step, Other
  <2> QED
    BY <1>1, <1>4, <2>6 DEF Alike, Step
<1> QED
  BY <1>2, <1>3, <1>4

LEMMA SelfAlike ==
  ASSUME NEW x \in Step
  PROVE  Alike(x, x)
BY DEF Alike

LEMMA DetachedAlike ==
  ASSUME NEW x \in Step, NEW known \in Knowns
  PROVE  Alike(x, IF Automatic(x) /\ x.held = "council"
                  THEN [x EXCEPT !.held = "copy", !.known = known] ELSE x)
<1>1. CASE Automatic(x) /\ x.held = "council"
  <2>1. PICK y : y = [x EXCEPT !.held = "copy", !.known = known]
    OBVIOUS
  <2>2. x \in Opener
    BY <1>1, StepKinds
  <2>3. y \in Opener /\ y.of = x.of /\ x \notin Ender
    BY <2>1, <2>2 DEF Opener, Ender, Holds
  <2> QED
    BY <1>1, <2>1, <2>3 DEF Alike, Step
<1> QED
  BY <1>1, SelfAlike

LEMMA ReplacedAlike ==
  ASSUME NEW x \in Step, NEW p \in Member
  PROVE  LET y == IF x.kind = "complete" /\ x.who = p THEN [x EXCEPT !.kind = "former"] ELSE x
         IN y \in Step /\ (~(x \in Ender /\ x.who = p) => Alike(x, y))
<1>1. CASE x.kind = "complete" /\ x.who = p
  <2>1. PICK y : y = [x EXCEPT !.kind = "former"]
    OBVIOUS
  <2>2. x \in Ender
    BY <1>1, StepKinds
  <2>3. y \in FormerEnder
    BY <2>1, <2>2 DEF Ender, FormerEnder
  <2> QED
    BY <1>1, <2>1, <2>2, <2>3 DEF Step, Other
<1> QED
  BY <1>1, SelfAlike

(* A chain of which every step does what it did, but those that are out.    *)
LEMMA ChainAlike ==
  ASSUME NEW q \in Chain, NEW r, DOMAIN r = DOMAIN q, NEW out,
         r = [i \in DOMAIN q |-> r[i]],
         \A i \in DOMAIN q : r[i] \in Step,
         \A i \in DOMAIN q : ~(q[i] \in Ender /\ q[i].who \in out) => Alike(q[i], r[i])
  PROVE  /\ r \in Chain
         /\ \A k \in Gated : Opens(q, k) => Opens(r, k)
         /\ \A p \in Member \ out, t \in Nat : Closes(q, p, t) => Closes(r, p, t)
<1>1. DOMAIN q = 1..Len(q) /\ Len(q) \in Nat
  BY DEF Chain
<1>2. r \in Chain
  <2>1. r \in [1..Len(q) -> Step]
    BY <1>1
  <2> QED
    BY <1>1, <2>1, SeqDef DEF Chain
<1>3. ASSUME NEW k \in Gated, Opens(q, k)
      PROVE  Opens(r, k)
  <2>1. PICK i \in DOMAIN q : OpensStep(q[i], k)
    BY <1>3 DEF Opens
  <2>2. q[i] \notin Ender
    <3>1. q[i].kind = "phase"
      BY <2>1 DEF OpensStep, Opener
    <3> QED
      BY <3>1 DEF Ender
  <2> QED
    BY <2>1, <2>2 DEF Opens, OpensStep, Alike
<1>4. ASSUME NEW p \in Member \ out, NEW t \in Nat, Closes(q, p, t)
      PROVE  Closes(r, p, t)
  <2>1. PICK i \in DOMAIN q : ClosesStep(q[i], p, t)
    BY <1>4 DEF Closes
  <2> QED
    BY <1>4, <2>1 DEF Closes, ClosesStep, Alike
<1> QED
  BY <1>2, <1>3, <1>4

LEMMA ChainBy ==
  ASSUME NEW q \in Chain
  PROVE  LET r == [i \in DOMAIN q |-> [q[i] EXCEPT !.by = "runtime"]]
         IN /\ r \in Chain
            /\ \A k \in Gated : Opens(q, k) => Opens(r, k)
            /\ \A p \in Member, t \in Nat : Closes(q, p, t) => Closes(r, p, t)
<1>1. PICK r : r = [i \in DOMAIN q |-> [q[i] EXCEPT !.by = "runtime"]]
  OBVIOUS
<1>2. ASSUME NEW i \in DOMAIN q
      PROVE  r[i] \in Step /\ Alike(q[i], r[i])
  <2>1. q[i] \in Step
    BY DEF Chain
  <2>2. r[i] = [q[i] EXCEPT !.by = "runtime"]
    BY <1>1
  <2>3. Alike(q[i], r[i])
    BY <2>1, <2>2, ByAlike
  <2> QED
    BY <2>3 DEF Alike
<1>3. DOMAIN r = DOMAIN q /\ r = [i \in DOMAIN q |-> r[i]]
  BY <1>1
<1>4. PICK out : out = {}
  OBVIOUS
<1>5. /\ r \in Chain
      /\ \A k \in Gated : Opens(q, k) => Opens(r, k)
      /\ \A p \in Member \ out, t \in Nat : Closes(q, p, t) => Closes(r, p, t)
  BY <1>2, <1>3, ChainAlike
<1> QED
  BY <1>1, <1>4, <1>5

LEMMA ChainDetached ==
  ASSUME NEW q \in Chain, NEW known \in Knowns
  PROVE  /\ Detached(q, known) \in Chain
         /\ \A k \in Gated : Opens(q, k) => Opens(Detached(q, known), k)
         /\ \A p \in Member, t \in Nat : Closes(q, p, t) => Closes(Detached(q, known), p, t)
<1>1. PICK r : r = Detached(q, known)
  OBVIOUS
<1>2. ASSUME NEW i \in DOMAIN q
      PROVE  r[i] \in Step /\ Alike(q[i], r[i])
  <2>1. q[i] \in Step
    BY DEF Chain
  <2>2. r[i] = IF Automatic(q[i]) /\ q[i].held = "council"
               THEN [q[i] EXCEPT !.held = "copy", !.known = known] ELSE q[i]
    BY <1>1 DEF Detached
  <2>3. Alike(q[i], r[i])
    BY <2>1, <2>2, DetachedAlike
  <2> QED
    BY <2>3 DEF Alike
<1>3. DOMAIN r = DOMAIN q /\ r = [i \in DOMAIN q |-> r[i]]
  BY <1>1 DEF Detached
<1>4. PICK out : out = {}
  OBVIOUS
<1>5. /\ r \in Chain
      /\ \A k \in Gated : Opens(q, k) => Opens(r, k)
      /\ \A p \in Member \ out, t \in Nat : Closes(q, p, t) => Closes(r, p, t)
  BY <1>2, <1>3, ChainAlike
<1> QED
  BY <1>1, <1>4, <1>5

LEMMA ChainReplaced ==
  ASSUME NEW q \in Chain, NEW p \in Member
  PROVE  /\ Replaced(q, p) \in Chain
         /\ \A k \in Gated : Opens(q, k) => Opens(Replaced(q, p), k)
         /\ \A o \in Member, t \in Nat : o # p /\ Closes(q, o, t) => Closes(Replaced(q, p), o, t)
<1>1. PICK r : r = Replaced(q, p)
  OBVIOUS
<1>2. PICK out : out = {p}
  OBVIOUS
<1>3. ASSUME NEW i \in DOMAIN q
      PROVE  r[i] \in Step /\ (~(q[i] \in Ender /\ q[i].who \in out) => Alike(q[i], r[i]))
  <2>1. q[i] \in Step
    BY DEF Chain
  <2>2. r[i] = IF q[i].kind = "complete" /\ q[i].who = p
               THEN [q[i] EXCEPT !.kind = "former"] ELSE q[i]
    BY <1>1 DEF Replaced
  <2> QED
    BY <1>2, <2>1, <2>2, ReplacedAlike
<1>4. DOMAIN r = DOMAIN q /\ r = [i \in DOMAIN q |-> r[i]]
  BY <1>1 DEF Replaced
<1>5. /\ r \in Chain
      /\ \A k \in Gated : Opens(q, k) => Opens(r, k)
      /\ \A o \in Member \ out, t \in Nat : Closes(q, o, t) => Closes(r, o, t)
  BY <1>3, <1>4, ChainAlike
<1> QED
  BY <1>1, <1>2, <1>5

LEMMA ChainTail ==
  ASSUME NEW q \in Chain, q # <<>>
  PROVE  /\ Tail(q) \in Chain /\ Head(q) \in Step
         /\ \A k \in Gated : Opens(q, k) => Opens(Tail(q), k) \/ OpensStep(Head(q), k)
         /\ \A p \in Member, t \in Nat :
               Closes(q, p, t) => Closes(Tail(q), p, t) \/ ClosesStep(Head(q), p, t)
<1>1. PICK r : r = Tail(q)
  OBVIOUS
<1>2. DOMAIN q = 1..Len(q) /\ Len(q) \in Nat /\ Len(q) # 0
  BY DEF Chain
<1>3. r \in Chain /\ DOMAIN r = 1..(Len(q) - 1)
  BY <1>1, <1>2 DEF Chain
<1>4. \A i \in 1..(Len(q) - 1) : r[i] = q[i + 1]
  BY <1>1, <1>2 DEF Chain
<1>5. Head(q) = q[1] /\ q[1] \in Step
  BY <1>2 DEF Chain
<1>6. \A i \in DOMAIN q : i = 1 \/ (i - 1 \in DOMAIN r /\ r[i - 1] = q[i])
  BY <1>2, <1>3, <1>4
<1>7. \A k \in Gated : Opens(q, k) => Opens(r, k) \/ OpensStep(Head(q), k)
  BY <1>5, <1>6 DEF Opens
<1>8. \A p \in Member, t \in Nat : Closes(q, p, t) => Closes(r, p, t) \/ ClosesStep(Head(q), p, t)
  BY <1>5, <1>6 DEF Closes
<1> QED
  BY <1>1, <1>3, <1>5, <1>7, <1>8

LEMMA ChainConcat ==
  ASSUME NEW q \in Chain, NEW r \in Chain
  PROVE  /\ q \o r \in Chain
         /\ \A k \in Gated : Opens(q, k) \/ Opens(r, k) => Opens(q \o r, k)
         /\ \A p \in Member, t \in Nat : Closes(q, p, t) \/ Closes(r, p, t) => Closes(q \o r, p, t)
<1>1. PICK u : u = q \o r
  OBVIOUS
<1>2. /\ u \in Chain /\ Len(u) = Len(q) + Len(r)
      /\ \A i \in 1 .. Len(q) + Len(r) : u[i] = IF i <= Len(q) THEN q[i] ELSE r[i - Len(q)]
  BY <1>1, ConcatProperties DEF Chain
<1>3. /\ DOMAIN q = 1..Len(q) /\ Len(q) \in Nat /\ DOMAIN r = 1..Len(r) /\ Len(r) \in Nat
      /\ DOMAIN u = 1..Len(u)
  BY <1>2 DEF Chain
<1>4. \A i \in DOMAIN q : i \in DOMAIN u /\ u[i] = q[i]
  BY <1>2, <1>3
<1>5. \A i \in DOMAIN r : i + Len(q) \in DOMAIN u /\ u[i + Len(q)] = r[i]
  BY <1>2, <1>3
<1>6. \A k \in Gated : Opens(q, k) \/ Opens(r, k) => Opens(u, k)
  BY <1>4, <1>5 DEF Opens
<1>7. \A p \in Member, t \in Nat : Closes(q, p, t) \/ Closes(r, p, t) => Closes(u, p, t)
  BY <1>4, <1>5 DEF Closes
<1> QED
  BY <1>1, <1>2, <1>6, <1>7

LEMMA ChainOne ==
  ASSUME NEW x \in Step
  PROVE  /\ <<x>> \in Chain
         /\ \A k \in Gated : OpensStep(x, k) => Opens(<<x>>, k)
         /\ \A p \in Member, t \in Nat : ClosesStep(x, p, t) => Closes(<<x>>, p, t)
<1>1. <<x>> \in Chain /\ 1 \in DOMAIN <<x>> /\ <<x>>[1] = x
  BY DEF Chain
<1> QED
  BY <1>1 DEF Opens, Closes

LEMMA ChainAppend ==
  ASSUME NEW q \in Chain, NEW x \in Step
  PROVE  /\ Append(q, x) \in Chain
         /\ \A k \in Gated : Opens(q, k) => Opens(Append(q, x), k)
         /\ \A p \in Member, t \in Nat :
               Closes(q, p, t) \/ ClosesStep(x, p, t) => Closes(Append(q, x), p, t)
         /\ q # <<>> => Append(q, x) # <<>> /\ Head(Append(q, x)) = Head(q)
<1>1. PICK u : u = Append(q, x)
  OBVIOUS
<1>2. DOMAIN q = 1..Len(q) /\ Len(q) \in Nat
  BY DEF Chain
<1>3. /\ u \in Chain /\ DOMAIN u = 1..(Len(q) + 1) /\ u[Len(q) + 1] = x
      /\ \A i \in 1..Len(q) : u[i] = q[i]
  BY <1>1, <1>2 DEF Chain
<1>4. \A i \in DOMAIN q : i \in DOMAIN u /\ u[i] = q[i]
  BY <1>2, <1>3
<1>5. Len(q) + 1 \in DOMAIN u
  BY <1>2, <1>3
<1>6. \A k \in Gated : Opens(q, k) => Opens(u, k)
  BY <1>4 DEF Opens
<1>7. \A p \in Member, t \in Nat : Closes(q, p, t) \/ ClosesStep(x, p, t) => Closes(u, p, t)
  BY <1>3, <1>4, <1>5 DEF Closes
<1>8. q # <<>> => u # <<>> /\ Head(u) = Head(q)
  BY <1>1, <1>2 DEF Chain
<1> QED
  BY <1>1, <1>3, <1>6, <1>7, <1>8

(* The council, its sessions and the chain.                                 *)
Sends(c, q, s) == \A k \in Gated : AutoGates /\ AtGate(c, k) => Advance \in s \/ Opens(q, k)
Ends(c, a, q) ==
  \A p \in Member : a[p].st = "ending" /\ a[p].turn = c.turn[p] => Closes(q, p, a[p].turn)
Tracked(c, a, q, s) == Fit(c, a, s) /\ Sends(c, q, s) /\ Ends(c, a, q)

(* What a chain keeps that another one has.                                 *)
KeepsOpeners(q, r) == \A k \in Gated : Opens(q, k) => Opens(r, k)
KeepsEnders(q, r) == \A p \in Member, t \in Nat : Closes(q, p, t) => Closes(r, p, t)
KeepsButOf(q, r, o) == \A p \in Member, t \in Nat : p # o /\ Closes(q, p, t) => Closes(r, p, t)

LEMMA KeepsSelf ==
  ASSUME NEW q
  PROVE  KeepsOpeners(q, q) /\ KeepsEnders(q, q)
BY DEF KeepsOpeners, KeepsEnders

LEMMA KeepsBoth ==
  ASSUME NEW q, NEW r, NEW u
  PROVE  /\ KeepsOpeners(q, r) /\ KeepsOpeners(r, u) => KeepsOpeners(q, u)
         /\ KeepsEnders(q, r) /\ KeepsEnders(r, u) => KeepsEnders(q, u)
         /\ \A o : KeepsEnders(q, r) => KeepsButOf(q, r, o)
         /\ \A o : KeepsButOf(q, r, o) /\ KeepsEnders(r, u) => KeepsButOf(q, u, o)
         /\ \A o : KeepsEnders(q, r) /\ KeepsButOf(r, u, o) => KeepsButOf(q, u, o)
BY DEF KeepsOpeners, KeepsEnders, KeepsButOf

LEMMA SendsNowhere ==
  ASSUME NEW c, NEW q, NEW s, Place(c) \notin Ready \/ Advance \in s
  PROVE  Sends(c, q, s)
BY Places DEF Sends, AtGate

LEMMA SendsOn ==
  ASSUME NEW c, NEW q, NEW s, Sends(c, q, s), NEW d, NEW r, NEW t,
         Place(d) = Place(c) \/ Place(d) \notin Ready, KeepsOpeners(q, r), s \subseteq t
  PROVE  Sends(d, r, t)
<1>1. CASE Place(d) = Place(c)
  BY <1>1 DEF Sends, AtGate, KeepsOpeners
<1> QED
  BY <1>1, SendsNowhere

LEMMA EndsOn ==
  ASSUME NEW c, NEW a, NEW q, Ends(c, a, q), NEW d, NEW b \in Crew, NEW r, KeepsEnders(q, r),
         \A p \in Member : b[p].st = "ending" /\ b[p].turn = d.turn[p] =>
                             a[p].st = "ending" /\ a[p].turn = c.turn[p] /\ a[p].turn = b[p].turn
  PROVE  Ends(d, b, r)
<1>1. \A p \in Member : b[p].turn \in Nat
  BY DEF Crew, Mate
<1> QED
  BY <1>1 DEF Ends, KeepsEnders

LEMMA EndsButOf ==
  ASSUME NEW c, NEW a, NEW q, Ends(c, a, q), NEW d, NEW b \in Crew, NEW r, NEW o \in Member,
         KeepsButOf(q, r, o), b[o].st # "ending",
         \A p \in Member : p # o => b[p] = a[p] /\ d.turn[p] = c.turn[p]
  PROVE  Ends(d, b, r)
<1>1. \A p \in Member : b[p].turn \in Nat
  BY DEF Crew, Mate
<1> QED
  BY <1>1 DEF Ends, KeepsButOf

(* A chain without its head, by what the head is.                           *)
LEMMA TailKeeps ==
  ASSUME NEW q \in Chain, q # <<>>
  PROVE  /\ Tail(q) \in Chain /\ Head(q) \in Step
         /\ ~Automatic(Head(q)) => KeepsOpeners(q, Tail(q))
         /\ Head(q).kind # "complete" => KeepsEnders(q, Tail(q))
         /\ Head(q).kind = "complete" => KeepsButOf(q, Tail(q), Head(q).who)
<1>1. /\ Tail(q) \in Chain /\ Head(q) \in Step
      /\ \A k \in Gated : Opens(q, k) => Opens(Tail(q), k) \/ OpensStep(Head(q), k)
      /\ \A p \in Member, t \in Nat :
            Closes(q, p, t) => Closes(Tail(q), p, t) \/ ClosesStep(Head(q), p, t)
  BY ChainTail
<1>2. PICK x \in Step : x = Head(q)
  BY <1>1
<1>3. ~Automatic(x) => x \notin Opener
  <2>1. x \in Opener => x.kind = "phase" /\ x.gen # 0
    BY DEF Opener
  <2> QED
    BY <2>1 DEF Automatic
<1>4. x.kind # "complete" => x \notin Ender
  BY StepKinds
<1> QED
  BY <1>1, <1>2, <1>3, <1>4 DEF KeepsOpeners, KeepsEnders, KeepsButOf, OpensStep, ClosesStep

LEMMA DetachedKeeps ==
  ASSUME NEW q \in Chain, NEW known \in Knowns
  PROVE  /\ Detached(q, known) \in Chain
         /\ KeepsOpeners(q, Detached(q, known)) /\ KeepsEnders(q, Detached(q, known))
BY ChainDetached DEF KeepsOpeners, KeepsEnders

LEMMA KnownIs ==
  ASSUME NEW c \in Paper
  PROVE  Known(c) \in Knowns
<1>1. \A k \in ArtifactKind : c.barrier[k].gen \in Nat
  BY DEF Paper, Gates, Gate
<1> QED
  BY <1>1 DEF Known, Knowns

(* Where a council is after a turn.                                         *)
LEMMA FailPlace ==
  ASSUME NEW c \in Paper
  PROVE  LET d == failPlanCouncil(c)
         IN d \in Paper /\ d.turn = c.turn /\ Place(d) \notin Ready
<1>1. CASE c.phase \in Over
  <2>1. failPlanCouncil(c) = c /\ Place(c) = c.phase
    BY <1>1, FailIs, NoPlace
  <2> QED
    BY <1>1, <2>1, PlaceKinds
<1>2. CASE c.phase \notin Over
  <2>1. PICK d : d = failPlanCouncil(c)
    OBVIOUS
  <2>2. Ended(c, d) /\ d.phase = "failed"
    BY <1>2, <2>1, FailIs
  <2> QED
    BY <2>1, <2>2 DEF Ended, Place, Ready
<1> QED
  BY <1>1, <1>2

LEMMA TurnFailsPlace ==
  ASSUME NEW c \in Paper, NEW p
  PROVE  LET d == TurnFails(c, p)
         IN d \in Paper /\ d.turn = c.turn /\ (Place(d) = Place(c) \/ Place(d) \notin Ready)
BY FailPlace DEF TurnFails

LEMMA TurnBlockedPlace ==
  ASSUME NEW c \in Paper, NEW p \in Member, BlockedRight(c)
  PROVE  LET d == TurnBlocked(c, p)
         IN d \in Paper /\ d.turn = c.turn /\ Place(d) = Place(c)
<1>1. CASE c.phase \in Over \/ c.turn[p] = 0
  BY <1>1 DEF TurnBlocked
<1>2. CASE ~(c.phase \in Over \/ c.turn[p] = 0)
  <2>1. PICK d : d = TurnBlocked(c, p)
    OBVIOUS
  <2>2. d \in Paper /\ d.phase = "blocked" /\ d.from = Place(c) /\ d.turn = c.turn
    BY <1>2, <2>1, BlockedIs
  <2> QED
    BY <2>1, <2>2 DEF Place
<1> QED
  BY <1>1, <1>2

LEMMA FinishedPlace ==
  ASSUME NEW c \in Paper, NEW p \in Member, NEW t
  PROVE  LET e == planCouncilFinished(c, p, t)
         IN /\ e \in Paper
            /\ \A q \in Member : q # p => e.turn[q] = c.turn[q]
            /\ \/ Place(e) = Place(c) \/ Place(e) \notin Ready
               \/ e.phase # c.phase /\ e.phase = Place(e)
<1>1. PICK e : e = planCouncilFinished(c, p, t)
  OBVIOUS
<1>2. CASE e = c
  BY <1>1, <1>2
<1>3. CASE c.want[p] # "none" /\ e = failPlanCouncil(Materialized(c, p))
  <2>1. PICK d : d = Materialized(c, p)
    OBVIOUS
  <2>2. d \in Paper /\ \A q \in Member : q # p => d.turn[q] = c.turn[q]
    BY <1>3, <2>1, MaterializedIs DEF Took1
  <2>3. e \in Paper /\ e.turn = d.turn /\ Place(e) \notin Ready
    BY <1>3, <2>1, <2>2, FailPlace
  <2> QED
    BY <1>1, <2>2, <2>3
<1>4. CASE Took1(c, e, p) /\ Took(c, e, p)
  <2>1. /\ e \in Paper /\ e.from = c.from
        /\ \A q \in Member : q # p => e.turn[q] = c.turn[q]
    BY <1>4 DEF Took1
  <2>2. CASE e.phase = c.phase
    BY <1>1, <2>1, <2>2 DEF Place
  <2>3. CASE e.phase # c.phase
    <3>1. e.phase = Onward(c.phase, p)
      BY <1>4, <2>3 DEF Took
    <3>2. e.phase # "blocked"
      BY <2>3, <3>1 DEF Onward
    <3> QED
      BY <1>1, <2>1, <2>3, <3>2 DEF Place
  <2> QED
    BY <2>2, <2>3
<1> QED
  BY <1>1, <1>2, <1>3, <1>4, FinishedIs

LEMMA AdvancesIs ==
  ASSUME NEW c, NEW d \in Paper
  PROVE  /\ Advances(c, d) \in Chain
         /\ \A k \in Gated : AutoGates /\ c.phase # d.phase /\ d.phase = ReadyFor[k] =>
                               Opens(Advances(c, d), k)
<1>1. CASE ~(AutoGates /\ c.phase # d.phase /\ \E k \in Gated : d.phase = ReadyFor[k])
  BY <1>1 DEF Advances, Chain
<1>2. CASE AutoGates /\ c.phase # d.phase /\ \E k \in Gated : d.phase = ReadyFor[k]
  <2>1. PICK k \in Gated : k = CHOOSE l \in Gated : d.phase = ReadyFor[l]
    BY <1>2
  <2>2. d.phase = ReadyFor[k]
    BY <1>2, <2>1
  <2>3. PICK n : n = d.barrier[k].gen + 1
    OBVIOUS
  <2>4. k \in ArtifactKind
    BY Places
  <2>5. n \in Nat \ {0}
    BY <2>3, <2>4 DEF Paper, Gates, Gate
  <2>6. PICK x : x = [kind |-> "phase", by |-> "runtime", of |-> k, gen |-> n,
                      held |-> "council", known |-> {}]
    OBVIOUS
  <2>7. x \in Opener /\ x.of = k
    BY <2>5, <2>6 DEF Opener, Holds, Knowns
  <2>8. Advances(c, d) = <<x>>
    BY <1>2, <2>1, <2>3, <2>6 DEF Advances
  <2>9. x \in Step /\ OpensStep(x, k)
    BY <2>7 DEF Step, OpensStep
  <2>10. <<x>> \in Chain /\ Opens(<<x>>, k)
    BY <2>9, ChainOne
  <2>11. \A l \in Gated : d.phase = ReadyFor[l] => l = k
    BY <2>2, Places
  <2> QED
    BY <2>8, <2>10, <2>11
<1> QED
  BY <1>1, <1>2

(* The invariant.  w is the command that awaits, with its checkpoint.       *)
Suspended == [kind : {"start", "phase", "other"}, who : SUBSET Member,
              council : Paper, agent : Crew]
Linked(w, c, a, q) ==
  /\ w.kind = "start" => w.council.phase = "none"
  /\ w.kind = "phase" => /\ q # <<>> /\ Head(q).kind = "phase"
                         /\ w.council.phase \in Ready /\ Place(c) \notin Ready
  /\ w.kind = "other" => w.who = {}
  /\ \A p \in w.who : w.agent[p].turn < a[p].turn /\ w.agent[p].st \notin {"queued", "running"}
  /\ \A p \in Member \ w.who : a[p].turn = w.agent[p].turn /\ c.turn[p] = w.council.turn[p]
Waiting(w, c, a, q, s) ==
  w # Shut => w \in Suspended /\ Tracked(w.council, w.agent, q, s) /\ Linked(w, c, a, q)
Saved(r, q, s) == Fit(r.council, r.agent, s) /\ Sends(r.council, q, s)
Right(c, a, r, q, w, s) ==
  /\ q \in Chain /\ Tracked(c, a, q, s) /\ Saved(r, q, s) /\ Waiting(w, c, a, q, s)
NowRight == Right(council, agent, row, steps, awaiting, strayed)
NextRight == Right(council', agent', row', steps', awaiting', strayed')

LEMMA NextIs ==
  NextRight <=> NowRight'
BY DEF NextRight, NowRight

(* What is committed.                                                       *)
LEMMA CommitRight ==
  ASSUME NEW c, NEW a, NEW q \in Chain, NEW s, Tracked(c, a, q, s), NEW r,
         r = [council |-> c, agent |-> a], NEW w, Waiting(w, c, a, q, s)
  PROVE  Right(c, a, r, q, w, s)
BY DEF Right, Saved, Tracked

LEMMA WaitsNot ==
  ASSUME NEW w, w = Shut, NEW c, NEW a, NEW q, NEW s
  PROVE  Waiting(w, c, a, q, s)
BY DEF Waiting

LEMMA SavedOn ==
  ASSUME NEW r, NEW q, NEW s, Saved(r, q, s), NEW u, NEW t,
         s \subseteq t, KeepsOpeners(q, u) \/ Advance \in t
  PROVE  Saved(r, u, t)
<1>1. Fit(r.council, r.agent, t)
  BY FitMore DEF Saved
<1>2. Sends(r.council, u, t)
  BY SendsOn, SendsNowhere DEF Saved
<1> QED
  BY <1>1, <1>2 DEF Saved

(* A command that awaits, while turns go on.                                *)
LEMMA WaitsOn ==
  ASSUME NEW w, NEW c, NEW a, NEW q, NEW s, Waiting(w, c, a, q, s), NEW d, NEW b, NEW r,
         \A p \in Member : b[p].turn = a[p].turn /\ d.turn[p] = c.turn[p],
         Place(d) = Place(c) \/ Place(d) \notin Ready,
         KeepsOpeners(q, r), KeepsEnders(q, r),
         q # <<>> /\ Head(q).kind = "phase" => r # <<>> /\ Head(r).kind = "phase"
  PROVE  Waiting(w, d, b, r, s)
<1> SUFFICES ASSUME w # Shut
             PROVE  w \in Suspended /\ Tracked(w.council, w.agent, r, s) /\ Linked(w, d, b, r)
  BY DEF Waiting
<1>1. w \in Suspended /\ Tracked(w.council, w.agent, q, s) /\ Linked(w, c, a, q)
  BY DEF Waiting
<1>2. w.who \in SUBSET Member /\ w.agent \in Crew
  BY <1>1 DEF Suspended
<1>3. Sends(w.council, r, s)
  BY <1>1, SendsOn DEF Tracked
<1>4. Ends(w.council, w.agent, r)
  BY <1>1, <1>2, EndsOn DEF Tracked
<1>5. Linked(w, d, b, r)
  BY <1>1, <1>2 DEF Linked
<1> QED
  BY <1>1, <1>3, <1>4, <1>5 DEF Tracked

LEMMA NowIs ==
  ASSUME NowRight
  PROVE  /\ steps \in Chain /\ Tracked(council, agent, steps, strayed)
         /\ Fit(council, agent, strayed) /\ Sends(council, steps, strayed)
         /\ Ends(council, agent, steps)
         /\ Saved(row, steps, strayed) /\ Waiting(awaiting, council, agent, steps, strayed)
         /\ council \in Paper /\ agent \in Crew
         /\ Plan(council, strayed) /\ Hands(council, agent, strayed)
BY DEF NowRight, Right, Tracked, Fit

(* A turn that stops, or starts, without a word.                            *)
LEMMA TurnGoesRight ==
  ASSUME NowRight, NEW p \in Member, NEW c, NEW st \in Duty \ {"ending"},
         Fit(c, With(agent, p, st), strayed), c.turn = council.turn,
         Place(c) = Place(council) \/ Place(c) \notin Ready
  PROVE  LET a == With(agent, p, st)
         IN Right(c, a, [council |-> c, agent |-> a], steps, awaiting, strayed)
<1>1. PICK a : a = With(agent, p, st)
  OBVIOUS
<1>2. st \in Duty
  OBVIOUS
<1>3. /\ a \in Crew /\ a[p].st = st
      /\ \A q \in Member : a[q].turn = agent[q].turn
      /\ \A q \in Member : q # p => a[q] = agent[q]
  BY <1>1, <1>2, NowIs, CrewSet
<1>4. KeepsOpeners(steps, steps) /\ KeepsEnders(steps, steps)
  BY KeepsSelf
<1>5. Sends(c, steps, strayed)
  BY <1>4, NowIs, SendsOn
<1>6. Ends(c, a, steps)
  <2>1. \A q \in Member : a[q].st = "ending" /\ a[q].turn = c.turn[q] =>
           agent[q].st = "ending" /\ agent[q].turn = council.turn[q] /\ agent[q].turn = a[q].turn
    BY <1>3
  <2> QED
    BY <1>3, <1>4, <2>1, NowIs, EndsOn
<1>7. Waiting(awaiting, c, a, steps, strayed)
  BY <1>3, <1>4, NowIs, WaitsOn
<1>8. PICK r : r = [council |-> c, agent |-> a]
  OBVIOUS
<1>9. Tracked(c, a, steps, strayed)
  BY <1>1, <1>5, <1>6 DEF Tracked
<1>10. Right(c, a, r, steps, awaiting, strayed)
  BY <1>7, <1>8, <1>9, NowIs, CommitRight
<1> QED
  BY <1>1, <1>8, <1>10

LEMMA TurnErrsRight ==
  ASSUME NowRight, NEW p \in Member, TurnErrs(p)
  PROVE  NextRight
<1>1. "failed" \in Duty \ {"ending"} /\ "failed" \in Duty \ Live
  BY DEF Duty, Live
<1>2. PICK c : c = TurnFails(council, p)
  OBVIOUS
<1>3. Fit(c, With(agent, p, "failed"), strayed)
  BY <1>1, <1>2, NowIs, TurnFailsFit
<1>4. c.turn = council.turn /\ (Place(c) = Place(council) \/ Place(c) \notin Ready)
  BY <1>2, NowIs, TurnFailsPlace
<1>5. PICK a : a = With(agent, p, "failed")
  OBVIOUS
<1>6. Right(c, a, [council |-> c, agent |-> a], steps, awaiting, strayed)
  BY <1>1, <1>3, <1>4, <1>5, TurnGoesRight
<1>7. /\ council' = c /\ agent' = a /\ row' = [council |-> c, agent |-> a]
      /\ steps' = steps /\ awaiting' = awaiting /\ strayed' = strayed
  BY <1>2, <1>5 DEF TurnErrs, Persist
<1> QED
  BY <1>6, <1>7 DEF NextRight

LEMMA DrainTurnRight ==
  ASSUME NowRight, NEW p \in Member, DrainTurn(p)
  PROVE  NextRight
<1>1. /\ {"running", "idle", "failed"} \subseteq Duty \ {"ending"}
      /\ "failed" \in Duty \ Live /\ "running" \in Live \cup {"killed"}
  BY DEF Duty, Live
<1>2. agent[p].st = "queued" /\ agent[p].st \in Live
  BY DEF DrainTurn, Live
<1>3. PICK c, st : /\ \/ c = council /\ st = "running"
                      \/ c = TurnBlocked(council, p) /\ st = "idle"
                      \/ c = TurnFails(council, p) /\ st = "failed"
                   /\ Persist(c, With(agent, p, st))
  <2>1. CASE Persist(council, With(agent, p, "running"))
    BY <2>1
  <2>2. CASE Persist(TurnBlocked(council, p), With(agent, p, "idle"))
    BY <2>2
  <2>3. CASE Persist(TurnFails(council, p), With(agent, p, "failed"))
    BY <2>3
  <2> QED
    BY <2>1, <2>2, <2>3 DEF DrainTurn
<1>4. Fit(c, With(agent, p, st), strayed) /\ st \in Duty \ {"ending"}
  <2>1. CASE c = council /\ st = "running"
    BY <1>1, <1>2, <2>1, NowIs, LiveFitOne
  <2>2. CASE c = TurnBlocked(council, p) /\ st = "idle"
    BY <1>1, <1>2, <2>2, NowIs, TurnBlockedFit
  <2>3. CASE c = TurnFails(council, p) /\ st = "failed"
    BY <1>1, <2>3, NowIs, TurnFailsFit
  <2> QED
    BY <1>3, <2>1, <2>2, <2>3
<1>5. c.turn = council.turn /\ (Place(c) = Place(council) \/ Place(c) \notin Ready)
  <2>1. BlockedRight(council)
    BY NowIs DEF Plan
  <2> QED
    BY <1>3, <2>1, NowIs, TurnFailsPlace, TurnBlockedPlace
<1>6. PICK a : a = With(agent, p, st)
  OBVIOUS
<1>7. Right(c, a, [council |-> c, agent |-> a], steps, awaiting, strayed)
  BY <1>4, <1>5, <1>6, TurnGoesRight
<1>8. /\ council' = c /\ agent' = a /\ row' = [council |-> c, agent |-> a]
      /\ steps' = steps /\ awaiting' = awaiting /\ strayed' = strayed
  BY <1>3, <1>6 DEF DrainTurn, Persist
<1> QED
  BY <1>7, <1>8 DEF NextRight

LEMMA TurnEndsRight ==
  ASSUME NowRight, NEW p \in Member, TurnEnds(p)
  PROVE  NextRight
<1>1. PICK a : a = With(agent, p, "ending")
  OBVIOUS
<1>2. PICK t : t = agent[p].turn
  OBVIOUS
<1>3. t \in Nat
  BY <1>2, NowIs DEF Crew, Mate
<1>4. PICK x : x = [kind |-> "complete", by |-> "runtime", who |-> p, turn |-> t]
  OBVIOUS
<1>5. x \in Step /\ ClosesStep(x, p, t)
  <2>1. x \in Ender /\ x.who = p /\ x.turn = t
    BY <1>3, <1>4 DEF Ender
  <2> QED
    BY <2>1 DEF Step, ClosesStep
<1>6. PICK q : q = Append(steps, x)
  OBVIOUS
<1>7. /\ q \in Chain /\ KeepsOpeners(steps, q) /\ KeepsEnders(steps, q) /\ Closes(q, p, t)
      /\ steps # <<>> => q # <<>> /\ Head(q) = Head(steps)
  BY <1>3, <1>5, <1>6, NowIs, ChainAppend DEF KeepsOpeners, KeepsEnders
<1>8. /\ a \in Crew /\ a[p].st = "ending"
      /\ \A o \in Member : a[o].turn = agent[o].turn
      /\ \A o \in Member : o # p => a[o] = agent[o]
  <2>1. "ending" \in Duty
    BY DEF Duty
  <2> QED
    BY <1>1, <2>1, NowIs, CrewSet
<1>9. Fit(council, a, strayed)
  <2>1. agent[p].st \in Live /\ "ending" \in Live \cup {"killed"}
    BY DEF TurnEnds, Live
  <2> QED
    BY <1>1, <2>1, NowIs, LiveFitOne
<1>10. strayed \subseteq strayed
  OBVIOUS
<1>11. Sends(council, q, strayed)
  BY <1>7, <1>10, NowIs, SendsOn
<1>12. Ends(council, a, q)
  BY <1>2, <1>7, <1>8, NowIs DEF Ends, KeepsEnders, Crew, Mate
<1>13. Waiting(awaiting, council, a, q, strayed)
  BY <1>7, <1>8, NowIs, WaitsOn
<1>14. PICK r : r = [council |-> council, agent |-> a]
  OBVIOUS
<1>15. Right(council, a, r, q, awaiting, strayed)
  BY <1>7, <1>9, <1>11, <1>12, <1>13, <1>14, CommitRight DEF Tracked
<1>16. /\ council' = council /\ agent' = a /\ row' = r
       /\ steps' = q /\ awaiting' = awaiting /\ strayed' = strayed
  BY <1>1, <1>2, <1>4, <1>6, <1>14 DEF TurnEnds, Persist
<1> QED
  BY <1>15, <1>16 DEF NextRight

LEMMA AskingIs ==
  ASSUME NEW x \in Asking
  PROVE  x \in Step
<1>1. CASE x \in [kind : {"phase"}, by : {"human"}, of : Gated, gen : {0}]
  BY <1>1 DEF Step, Other, Request, By
<1>2. CASE x \in [kind : {"stop", "retry"}, by : {"human"}]
  BY <1>2 DEF Step, Other, Plain, By
<1>3. CASE x \in [kind : {"kill"}, by : {"human"}, who : Picked]
  BY <1>3, CouncilAssumption DEF Step, Other, Killing, By, Member
<1>4. CASE x \in [kind : {"patch"}, by : {"human"}, op : {"replace"}, who : Picked]
  BY <1>4, CouncilAssumption DEF Step, Other, Patching, By, PatchOp, Member
<1>5. CASE x \in [kind : {"patch"}, by : {"human"}, op : {"resynthesize"}, who : {Synth}]
  BY <1>5 DEF Step, Other, Patching, By, PatchOp, Member
<1>6. CASE x \in [kind : {"patch"}, by : {"human"}, op : {"add-verifier"}, who : {Verifier}]
  BY <1>6 DEF Step, Other, Patching, By, PatchOp, Member
<1> QED
  BY <1>1, <1>2, <1>3, <1>4, <1>5, <1>6 DEF Asking

LEMMA SubmitRight ==
  ASSUME NowRight, NEW x \in Asking, SubmitToCouncil(x)
  PROVE  NextRight
<1>1. PICK q : q = Append(steps, x)
  OBVIOUS
<1>2. /\ q \in Chain /\ KeepsOpeners(steps, q) /\ KeepsEnders(steps, q)
      /\ steps # <<>> => q # <<>> /\ Head(q) = Head(steps)
  BY <1>1, AskingIs, NowIs, ChainAppend DEF KeepsOpeners, KeepsEnders
<1>3. strayed \subseteq strayed
  OBVIOUS
<1>4. Sends(council, q, strayed)
  BY <1>2, <1>3, NowIs, SendsOn
<1>5. Ends(council, agent, q)
  BY <1>2, NowIs, EndsOn
<1>6. Saved(row, q, strayed)
  BY <1>2, <1>3, NowIs, SavedOn
<1>7. Waiting(awaiting, council, agent, q, strayed)
  BY <1>2, NowIs, WaitsOn
<1>8. /\ council' = council /\ agent' = agent /\ row' = row
      /\ steps' = q /\ awaiting' = awaiting /\ strayed' = strayed
  BY <1>1 DEF SubmitToCouncil
<1> QED
  BY <1>2, <1>4, <1>5, <1>6, <1>7, <1>8, NowIs DEF NextRight, Right, Tracked

(* The queue is suspended.                                                  *)
LEMMA HeadBy ==
  ASSUME NEW q \in Chain, q # <<>>, Head(q).kind = "phase", NEW r \in Chain,
         r = [i \in DOMAIN q |-> [q[i] EXCEPT !.by = "runtime"]]
  PROVE  r # <<>> /\ Head(r).kind = "phase"
<1>1. DOMAIN q = 1..Len(q) /\ Len(q) \in Nat /\ Len(q) # 0
  BY DEF Chain
<1>2. DOMAIN r = DOMAIN q /\ r[1] = [q[1] EXCEPT !.by = "runtime"] /\ q[1] \in Step /\ q[1] = Head(q)
  BY <1>1 DEF Chain
<1>3. r # <<>> /\ Head(r) = r[1]
  BY <1>1, <1>2 DEF Chain
<1>4. PICK x : x = q[1]
  OBVIOUS
<1>5. x \in Opener \/ x \in Request
  BY <1>2, <1>4, StepKinds
<1>6. [x EXCEPT !.by = "runtime"].kind = "phase"
  <2>1. CASE x \in Opener
    BY <2>1 DEF Opener
  <2>2. CASE x \in Request
    BY <2>2 DEF Request
  <2> QED
    BY <1>5, <2>1, <2>2
<1> QED
  BY <1>2, <1>3, <1>4, <1>6

LEMMA KillAllRight ==
  ASSUME NowRight, KillAllTurns
  PROVE  NextRight
<1>1. PICK a : a = [p \in Member |-> IF agent[p].st = "running"
                                     THEN [agent[p] EXCEPT !.st = "killed"] ELSE agent[p]]
  OBVIOUS
<1>2. ASSUME NEW p \in Member
      PROVE  /\ a[p] \in Mate /\ a[p].turn = agent[p].turn
             /\ a[p].st = IF agent[p].st = "running" THEN "killed" ELSE agent[p].st
  <2>1. agent[p] \in Mate
    BY NowIs DEF Crew
  <2>2. a[p] = IF agent[p].st = "running" THEN [agent[p] EXCEPT !.st = "killed"] ELSE agent[p]
    BY <1>1
  <2> QED
    BY <2>1, <2>2 DEF Mate, Duty
<1>3. a \in Crew
  BY <1>1, <1>2 DEF Crew
<1>4. PICK q : q = [i \in DOMAIN steps |-> [steps[i] EXCEPT !.by = "runtime"]]
  OBVIOUS
<1>5. q \in Chain /\ KeepsOpeners(steps, q) /\ KeepsEnders(steps, q)
  BY <1>4, NowIs, ChainBy DEF KeepsOpeners, KeepsEnders
<1>6. steps # <<>> /\ Head(steps).kind = "phase" => q # <<>> /\ Head(q).kind = "phase"
  BY <1>4, <1>5, NowIs, HeadBy
<1>7. GoesOn(agent, a, strayed)
  BY <1>2 DEF GoesOn, Live
<1>8. strayed \subseteq strayed
  OBVIOUS
<1>9. Fit(council, a, strayed)
  BY <1>3, <1>7, <1>8, NowIs, LiveFit
<1>10. Sends(council, q, strayed)
  BY <1>5, <1>8, NowIs, SendsOn
<1>11. Ends(council, a, q)
  <2>1. \A p \in Member : a[p].st = "ending" /\ a[p].turn = council.turn[p] =>
          agent[p].st = "ending" /\ agent[p].turn = council.turn[p] /\ agent[p].turn = a[p].turn
    BY <1>2
  <2>2. Ends(council, agent, steps)
    BY NowIs
  <2>3. \A p \in Member : agent[p].turn \in Nat
    BY NowIs DEF Crew, Mate
  <2> QED
    BY <1>5, <2>1, <2>2, <2>3 DEF Ends, KeepsEnders
<1>12. Waiting(awaiting, council, a, q, strayed)
  BY <1>2, <1>5, <1>6, NowIs, WaitsOn
<1>13. PICK r : r = [council |-> council, agent |-> a]
  OBVIOUS
<1>14. Right(council, a, r, q, awaiting, strayed)
  BY <1>5, <1>9, <1>10, <1>11, <1>12, <1>13, CommitRight DEF Tracked
<1>15. /\ council' = council /\ agent' = a /\ row' = r
       /\ steps' = q /\ awaiting' = awaiting /\ strayed' = strayed
  BY <1>1, <1>4, <1>13 DEF KillAllTurns, Persist
<1> QED
  BY <1>14, <1>15 DEF NextRight

(* Commands that open, with a checkpoint.                                   *)
Fresh ==
  /\ asks \in Nat
  /\ asks = 0 => /\ council.phase = "none" /\ row.council.phase = "none"
                 /\ awaiting = Shut /\ steps = <<>>
                 /\ \A p \in Member : agent[p].turn = 0 /\ row.agent[p].turn = 0

LEMMA OpenRight ==
  ASSUME NowRight, NEW kind \in {"start", "phase", "other"}, NEW who \in SUBSET Member,
         NEW c, NEW a, Tracked(c, a, steps, strayed), NEW w,
         w = [kind |-> kind, who |-> who, council |-> council, agent |-> agent],
         Linked(w, c, a, steps)
  PROVE  Right(c, a, row, steps, w, strayed)
<1>1. w \in Suspended /\ w.council = council /\ w.agent = agent
  BY NowIs DEF Suspended
<1>2. Waiting(w, c, a, steps, strayed)
  BY <1>1, NowIs DEF Waiting
<1> QED
  BY <1>2, NowIs DEF Right

LEMMA StartRight ==
  ASSUME NowRight, Fresh, startPlanCouncil
  PROVE  NextRight
<1>1. council.phase = "none" /\ asks = 0 /\ Planner \in SUBSET Member
  BY DEF startPlanCouncil, Member
<1>2. PICK how \in [Planner -> {"running", "queued"}] : agent' = Starting(how) /\ council' = Started
  BY DEF startPlanCouncil, Starting, Started
<1>3. PICK c : c = Started
  OBVIOUS
<1>4. PICK a : a = Starting(how)
  OBVIOUS
<1>5. Fit(c, a, strayed)
  BY <1>1, <1>3, <1>4, NowIs, StartedFit
<1>6. c.phase = PhaseOf["proposal"] /\ \A p \in Member \ Planner : c.turn[p] = council.turn[p]
  <2>1. PICK e : e = WithBarrier(council, "proposal", Planner)
    OBVIOUS
  <2>2. "proposal" \in ArtifactKind
    BY DEF ArtifactKind
  <2>3. e \in Paper /\ e.turn = council.turn
    BY <1>1, <2>1, <2>2, NowIs, WithBarrierIs DEF HasBarrier
  <2>4. PICK t : t = [p \in Member |-> IF p \in Planner THEN 1 ELSE e.turn[p]]
    OBVIOUS
  <2>5. c.phase = PhaseOf["proposal"] /\ c.turn = t
    BY <1>3, <2>1, <2>3, <2>4 DEF Started, Paper
  <2> QED
    BY <2>3, <2>4, <2>5
<1>7. /\ \A p \in Planner : a[p].turn = 1 /\ a[p].st \in {"running", "queued"}
      /\ \A p \in Member \ Planner : a[p] = agent[p]
  BY <1>1, <1>4 DEF Starting
<1>8. Place(c) \notin Ready
  BY <1>6, PhaseNames DEF Place, Ready
<1>9. Sends(c, steps, strayed)
  BY <1>8, SendsNowhere
<1>10. Ends(c, a, steps)
  BY <1>6, <1>7, NowIs DEF Ends
<1>11. PICK w : w = [kind |-> "start", who |-> Planner, council |-> council, agent |-> agent]
  OBVIOUS
<1>12. Linked(w, c, a, steps)
  <2>1. \A p \in Member : agent[p].turn = 0 /\ agent[p].st \notin Live
    BY <1>1, NowIs DEF Fresh, Hands, Numbered
  <2>2. \A p \in Planner : agent[p].turn < a[p].turn /\ agent[p].st \notin {"queued", "running"}
    BY <1>1, <1>7, <2>1 DEF Live
  <2> QED
    BY <1>1, <1>6, <1>7, <1>11, <2>2 DEF Linked
<1>13. Right(c, a, row, steps, w, strayed)
  BY <1>1, <1>5, <1>9, <1>10, <1>11, <1>12, OpenRight DEF Tracked
<1>14. /\ council' = c /\ agent' = a /\ row' = row
       /\ steps' = steps /\ awaiting' = w /\ strayed' = strayed
  BY <1>2, <1>3, <1>4, <1>11 DEF startPlanCouncil
<1> QED
  BY <1>13, <1>14 DEF NextRight

LEMMA OthersOpenRight ==
  ASSUME NowRight, OthersOpen
  PROVE  NextRight
<1>1. PICK w : w = [kind |-> "other", who |-> {}, council |-> council, agent |-> agent]
  OBVIOUS
<1>2. Linked(w, council, agent, steps)
  BY <1>1 DEF Linked
<1>3. Right(council, agent, row, steps, w, strayed)
  BY <1>1, <1>2, NowIs, OpenRight
<1>4. /\ council' = council /\ agent' = agent /\ row' = row
      /\ steps' = steps /\ awaiting' = w /\ strayed' = strayed
  BY <1>1 DEF OthersOpen
<1> QED
  BY <1>3, <1>4 DEF NextRight

LEMMA OthersCommitRight ==
  ASSUME NowRight, OthersCommit
  PROVE  NextRight
<1>1. PICK r : r = [council |-> council, agent |-> agent]
  OBVIOUS
<1>2. Right(council, agent, r, steps, Shut, strayed)
  BY <1>1, NowIs, CommitRight, WaitsNot
<1>3. /\ council' = council /\ agent' = agent /\ row' = r
      /\ steps' = steps /\ awaiting' = Shut /\ strayed' = strayed
  BY <1>1 DEF OthersCommit, Persist
<1> QED
  BY <1>2, <1>3 DEF NextRight

LEMMA PhaseOpensRight ==
  ASSUME NowRight, PhaseOpens
  PROVE  NextRight
<1>1. PICK k : k = Head(steps).of
  OBVIOUS
<1>2. steps # <<>> /\ Head(steps).kind = "phase" /\ Head(steps) \in Step
  BY NowIs, TailKeeps DEF PhaseOpens, Comes
<1>3. k \in Gated /\ council.phase = ReadyFor[k]
  BY <1>1, <1>2, StepKinds DEF PhaseOpens
<1>4. PICK who \in SUBSET Member : who = WhoFor(k)
  BY <1>3, WhoIs
<1>5. PICK how \in [who -> {"running", "queued"}] : agent' = Launched(how)
  BY <1>1, <1>4 DEF PhaseOpens
<1>6. PICK c : c = Opened(k, who, who)
  OBVIOUS
<1>7. PICK a : a = Launched(how)
  OBVIOUS
<1>8. Fit(c, a, strayed)
  BY <1>3, <1>4, <1>6, <1>7, NowIs, OpensFit
<1>9. /\ c.phase = PhaseOf[k]
      /\ \A p \in Member \ who : c.turn[p] = council.turn[p]
  <2>1. InPhase(c, k, who, who)
    BY <1>3, <1>6, NowIs, OpenedIs
  <2> QED
    BY <2>1 DEF InPhase
<1>10. /\ \A p \in who : a[p].turn = agent[p].turn + 1 /\ a[p].st \in {"running", "queued"}
       /\ \A p \in Member \ who : a[p] = agent[p]
  BY <1>7, NowIs, LaunchedIs
<1>11. Place(c) \notin Ready
  BY <1>3, <1>9, Places, PlaceKinds DEF Place, Active, Ready
<1>12. Sends(c, steps, strayed)
  BY <1>11, SendsNowhere
<1>13. Ends(c, a, steps)
  BY <1>9, <1>10, NowIs DEF Ends
<1>14. PICK w : w = [kind |-> "phase", who |-> who, council |-> council, agent |-> agent]
  OBVIOUS
<1>15. Linked(w, c, a, steps)
  <2>1. \A p \in who : agent[p].st \notin {"queued", "running"}
    BY <1>1, <1>4 DEF PhaseOpens, Idle
  <2>2. \A p \in who : agent[p].turn < a[p].turn
    BY <1>10, NowIs DEF Crew, Mate
  <2>3. council.phase \in Ready
    BY <1>3, Places
  <2> QED
    BY <1>2, <1>9, <1>10, <1>11, <1>14, <2>1, <2>2, <2>3 DEF Linked
<1>16. Right(c, a, row, steps, w, strayed)
  BY <1>8, <1>12, <1>13, <1>14, <1>15, OpenRight DEF Tracked
<1>17. /\ council' = c /\ agent' = a /\ row' = row
       /\ steps' = steps /\ awaiting' = w /\ strayed' = strayed
  BY <1>1, <1>4, <1>5, <1>6, <1>7, <1>14 DEF PhaseOpens
<1> QED
  BY <1>16, <1>17 DEF NextRight

(* A start or a phase settles.                                              *)
LEMMA WaitingIs ==
  ASSUME NowRight, awaiting # Shut
  PROVE  /\ awaiting \in Suspended /\ Linked(awaiting, council, agent, steps)
         /\ Fit(awaiting.council, awaiting.agent, strayed)
         /\ Sends(awaiting.council, steps, strayed) /\ Ends(awaiting.council, awaiting.agent, steps)
         /\ awaiting.who \in SUBSET Member /\ awaiting.kind \in {"start", "phase", "other"}
         /\ awaiting.council \in Paper /\ awaiting.agent \in Crew
BY NowIs DEF Waiting, Tracked, Suspended

LEMMA SettlesRight ==
  ASSUME NowRight, Settles
  PROVE  NextRight
<1>1. awaiting # Shut /\ awaiting.kind \in {"start", "phase"}
  BY DEF Settles, Shut
<1>2. awaiting' = Shut /\ strayed' = strayed
  BY DEF Settles
<1>3. CASE awaiting.kind = "start"
  <2>1. PICK c, a : /\ \/ c = awaiting.council /\ a = awaiting.agent
                       \/ c = council /\ a = agent
                    /\ council' = c /\ agent' = a /\ row' = [council |-> c, agent |-> a]
    BY <1>3 DEF Settles, Persist
  <2>2. Tracked(c, a, steps, strayed)
    BY <1>1, <2>1, WaitingIs, NowIs DEF Tracked
  <2>3. PICK r : r = [council |-> c, agent |-> a]
    OBVIOUS
  <2>4. Right(c, a, r, steps, Shut, strayed)
    BY <2>2, <2>3, NowIs, CommitRight, WaitsNot
  <2>5. steps' = steps
    BY <1>3 DEF Settles
  <2> QED
    BY <1>2, <2>1, <2>3, <2>4, <2>5 DEF NextRight
<1>4. CASE awaiting.kind = "phase"
  <2>1. steps # <<>> /\ Head(steps).kind = "phase" /\ Place(council) \notin Ready
    BY <1>1, <1>4, WaitingIs DEF Linked
  <2>2. PICK q : q = Tail(steps)
    OBVIOUS
  <2>3. q \in Chain /\ KeepsEnders(steps, q)
    BY <2>1, <2>2, NowIs, TailKeeps
  <2>4. PICK c : c = IF Broken THEN failPlanCouncil(council) ELSE council
    OBVIOUS
  <2>5. Fit(c, agent, strayed)
    BY <2>4, NowIs, FailFit DEF Hands
  <2>6. c.turn = council.turn /\ Place(c) \notin Ready
    BY <2>1, <2>4, NowIs, FailPlace
  <2>7. Sends(c, q, strayed)
    BY <2>6, SendsNowhere
  <2>8. Ends(c, agent, q)
    <3>1. \A p \in Member : agent[p].turn \in Nat
      BY NowIs DEF Crew, Mate
    <3> QED
      BY <2>3, <2>6, <3>1, NowIs DEF Ends, KeepsEnders
  <2>9. PICK r : r = [council |-> c, agent |-> agent]
    OBVIOUS
  <2>10. Right(c, agent, r, q, Shut, strayed)
    BY <2>3, <2>5, <2>7, <2>8, <2>9, CommitRight, WaitsNot DEF Tracked
  <2>11. /\ council' = c /\ agent' = agent /\ row' = r /\ steps' = q
    BY <1>4, <2>2, <2>4, <2>9 DEF Settles, CommitCouncil, Persist
  <2> QED
    BY <1>2, <2>10, <2>11 DEF NextRight
<1> QED
  BY <1>1, <1>3, <1>4

(* What a rollback brings back.                                             *)
Back == [p \in Member |-> Undone(p)]
LEMMA BackIs ==
  ASSUME NowRight, awaiting # Shut
  PROVE  /\ Back \in Crew
         /\ \A p \in Member :
              /\ Back[p].turn = agent[p].turn
              /\ \/ Back[p].st = awaiting.agent[p].st
                 \/ /\ Back[p].st = "ending" /\ agent[p].st = "ending"
                    /\ awaiting.agent[p].st \in {"queued", "running"}
                 \/ Back[p].st = "lost" /\ awaiting.agent[p].st = "running"
<1>1. PICK b : b = Back
  OBVIOUS
<1>2. ASSUME NEW p \in Member
      PROVE  /\ b[p] \in Mate /\ b[p].turn = agent[p].turn
             /\ \/ b[p].st = awaiting.agent[p].st
                \/ /\ b[p].st = "ending" /\ agent[p].st = "ending"
                   /\ awaiting.agent[p].st \in {"queued", "running"}
                \/ b[p].st = "lost" /\ awaiting.agent[p].st = "running"
  <2>1. PICK st : st = IF agent[p].st = "ending" /\ awaiting.agent[p].st \in {"queued", "running"}
                       THEN "ending"
                       ELSE IF awaiting.agent[p].st = "running" /\ agent[p].st # "running"
                       THEN "lost" ELSE awaiting.agent[p].st
    OBVIOUS
  <2>2. awaiting.agent[p].st \in Duty /\ agent[p].turn \in Nat
    BY WaitingIs, NowIs DEF Crew, Mate
  <2>3. st \in Duty
    BY <2>1, <2>2 DEF Duty
  <2>4. b[p] = [st |-> st, turn |-> agent[p].turn]
    BY <1>1, <2>1 DEF Back, Undone
  <2>5. b[p] \in Mate /\ b[p].st = st /\ b[p].turn = agent[p].turn
    BY <2>2, <2>3, <2>4 DEF Mate
  <2> QED
    BY <2>1, <2>5
<1>3. b \in Crew
  BY <1>1, <1>2 DEF Back, Crew
<1> QED
  BY <1>1, <1>2, <1>3

LEMMA BackFit ==
  ASSUME NowRight, awaiting # Shut, NEW t, strayed \subseteq t,
         {p \in Member : Back[p].st = "lost"} \subseteq t
  PROVE  Fit(awaiting.council, Back, t)
<1>1. PICK b : b = Back
  OBVIOUS
<1>2. /\ b \in Crew
      /\ \A p \in Member :
           /\ b[p].turn = agent[p].turn
           /\ \/ b[p].st = awaiting.agent[p].st
              \/ /\ b[p].st = "ending" /\ agent[p].st = "ending"
                 /\ awaiting.agent[p].st \in {"queued", "running"}
              \/ b[p].st = "lost" /\ awaiting.agent[p].st = "running"
  BY <1>1, BackIs
<1>3. PICK c : c = awaiting.council
  OBVIOUS
<1>4. PICK a : a = awaiting.agent
  OBVIOUS
<1>5. Fit(c, a, strayed) /\ Linked(awaiting, council, agent, steps) /\ c \in Paper /\ a \in Crew
  BY <1>3, <1>4, WaitingIs
<1>6. CASE awaiting.kind = "other"
  <2>1. \A p \in Member : agent[p].turn = a[p].turn
    BY <1>4, <1>5, <1>6 DEF Linked
  <2>2. GoesOn(a, b, t)
    BY <1>1, <1>2, <1>4, <2>1 DEF GoesOn, Live
  <2> QED
    BY <1>1, <1>2, <1>3, <1>5, <2>2, LiveFit
<1>7. CASE awaiting.kind \in {"start", "phase"}
  <2>1. c.phase \in Over \cup Ready
    BY <1>3, <1>5, <1>7, PlaceKinds DEF Linked
  <2>2. \A p \in Member : a[p].turn <= agent[p].turn /\ a[p].turn \in Nat /\ agent[p].turn \in Nat
    <3>1. \A p \in Member : a[p].turn \in Nat /\ agent[p].turn \in Nat
      BY <1>5, NowIs DEF Crew, Mate
    <3> QED
      BY <1>4, <1>5, <3>1, WaitingIs DEF Linked
  <2>3. Numbered(b)
    <3> SUFFICES ASSUME NEW p \in Member, b[p].st \in Live PROVE agent[p].turn # 0
      BY <1>2 DEF Numbered
    <3>1. CASE agent[p].st = "ending"
      BY <3>1, NowIs DEF Hands, Numbered, Live
    <3>2. CASE b[p].st = a[p].st
      BY <1>5, <2>2, <3>2 DEF Fit, Hands, Numbered
    <3> QED
      BY <1>2, <1>4, <3>1, <3>2 DEF Live
  <2>4. Past(c, b)
    <3> SUFFICES ASSUME NEW p \in Member PROVE c.turn[p] <= b[p].turn
      BY DEF Past
    <3>1. c.turn[p] <= a[p].turn /\ c.turn[p] \in Nat
      BY <1>5 DEF Fit, Hands, Past, Paper, Numbers
    <3> QED
      BY <1>2, <2>2, <3>1
  <2>5. Fit(c, b, strayed)
    BY <1>2, <1>5, <2>1, <2>3, <2>4, RestFit
  <2> QED
    BY <1>1, <1>3, <2>5, FitMore
<1> QED
  BY <1>6, <1>7, WaitingIs

LEMMA BackEnds ==
  ASSUME NowRight, awaiting # Shut, NEW q, KeepsEnders(steps, q),
         NEW c, c.turn = awaiting.council.turn
  PROVE  Ends(c, Back, q)
<1> SUFFICES ASSUME NEW p \in Member, Back[p].st = "ending", Back[p].turn = c.turn[p]
             PROVE  Closes(q, p, Back[p].turn)
  BY DEF Ends
<1>1. /\ Back[p].turn = agent[p].turn
      /\ \/ awaiting.agent[p].st = "ending"
         \/ agent[p].st = "ending" /\ awaiting.agent[p].st \in {"queued", "running"}
  BY BackIs
<1>2. agent[p].turn = awaiting.council.turn[p]
  BY <1>1
<1>3. agent[p].turn \in Nat /\ awaiting.agent[p].turn \in Nat
  BY NowIs, WaitingIs DEF Crew, Mate
<1>4. p \notin awaiting.who
  <2>1. awaiting.council.turn[p] <= awaiting.agent[p].turn
    BY WaitingIs DEF Fit, Hands, Past
  <2>2. p \in awaiting.who => awaiting.agent[p].turn < agent[p].turn
    BY WaitingIs DEF Linked
  <2> QED
    BY <1>2, <1>3, <2>1, <2>2
<1>5. agent[p].turn = awaiting.agent[p].turn /\ council.turn[p] = awaiting.council.turn[p]
  BY <1>4, WaitingIs DEF Linked
<1>6. Closes(steps, p, agent[p].turn)
  <2>1. CASE awaiting.agent[p].st = "ending"
    BY <1>2, <1>5, <2>1, WaitingIs DEF Ends
  <2>2. CASE agent[p].st = "ending"
    BY <1>2, <1>5, <2>2, NowIs DEF Ends
  <2> QED
    BY <1>1, <2>1, <2>2
<1> QED
  BY <1>1, <1>3, <1>6 DEF KeepsEnders

LEMMA RollsBackRight ==
  ASSUME NowRight, RollsBack
  PROVE  NextRight
<1>1. awaiting # Shut /\ awaiting' = Shut /\ agent' = Back
  BY DEF RollsBack, Back
<1>2. PICK b : b = Back
  OBVIOUS
<1>3. PICK t : t = strayed'
  OBVIOUS
<1>4. strayed \subseteq t /\ {p \in Member : Back[p].st = "lost"} \subseteq t
  BY <1>3 DEF RollsBack, Back
<1>5. Fit(awaiting.council, b, t)
  BY <1>1, <1>2, <1>4, BackFit
<1>6. Known(council) \in Knowns
  BY NowIs, KnownIs
<1>7. CASE awaiting.kind = "phase"
  <2>1. Advance \in t
    BY <1>3, <1>7 DEF RollsBack
  <2>2. steps # <<>> /\ Head(steps).kind = "phase"
    BY <1>1, <1>7, WaitingIs DEF Linked
  <2>3. Tail(steps) \in Chain /\ KeepsEnders(steps, Tail(steps))
    BY <2>2, NowIs, TailKeeps
  <2>4. PICK q : q = Detached(Tail(steps), Known(council))
    OBVIOUS
  <2>5. q \in Chain /\ KeepsEnders(steps, q)
    BY <1>6, <2>3, <2>4, DetachedKeeps, KeepsBoth
  <2>6. steps' = q
    BY <1>7, <2>4 DEF RollsBack
  <2>7. CASE council' = awaiting.council /\ row' = row
    <3>1. PICK c : c = awaiting.council
      OBVIOUS
    <3>2. Ends(c, b, q)
      BY <1>1, <1>2, <2>5, <3>1, BackEnds
    <3>3. Sends(c, q, t)
      BY <2>1, SendsNowhere
    <3>4. Saved(row, q, t)
      BY <1>4, <2>1, NowIs, SavedOn
    <3>5. Right(c, b, row, q, Shut, t)
      BY <1>5, <2>5, <3>1, <3>2, <3>3, <3>4, WaitsNot DEF Right, Tracked
    <3> QED
      BY <1>1, <1>2, <1>3, <2>6, <2>7, <3>1, <3>5 DEF NextRight
  <2>8. CASE /\ \E known : council' = Without(awaiting.council, known)
             /\ row' = [council |-> council', agent |-> Back]
    <3>1. PICK known : council' = Without(awaiting.council, known)
      BY <2>8
    <3>2. PICK c : c = Without(awaiting.council, known)
      OBVIOUS
    <3>3. c.turn = awaiting.council.turn
      BY <1>1, <3>2, WaitingIs, WithoutIs
    <3>4. Ends(c, b, q)
      BY <1>1, <1>2, <2>5, <3>3, BackEnds
    <3>5. t \cup {Advance} = t
      BY <2>1
    <3>6. Fit(c, b, t)
      BY <1>5, <3>2, <3>5, CancelFit
    <3>7. Sends(c, q, t)
      BY <2>1, SendsNowhere
    <3>8. PICK r : r = [council |-> c, agent |-> b]
      OBVIOUS
    <3>9. Right(c, b, r, q, Shut, t)
      BY <2>5, <3>4, <3>6, <3>7, <3>8, CommitRight, WaitsNot DEF Tracked
    <3> QED
      BY <1>1, <1>2, <1>3, <2>6, <2>8, <3>1, <3>2, <3>8, <3>9 DEF NextRight
  <2>9. \/ council' = awaiting.council /\ row' = row
        \/ /\ \E known : council' = Without(awaiting.council, known)
           /\ row' = [council |-> council', agent |-> Back]
    <3>1. CASE Automatic(Head(steps))
      BY <1>7, <3>1 DEF RollsBack, Back
    <3>2. CASE ~Automatic(Head(steps))
      BY <1>7, <3>2 DEF RollsBack
    <3> QED
      BY <3>1, <3>2
  <2> QED
    BY <2>7, <2>8, <2>9
<1>8. CASE awaiting.kind # "phase"
  <2>1. PICK c : c = awaiting.council
    OBVIOUS
  <2>2. PICK q : q = Detached(steps, Known(council))
    OBVIOUS
  <2>3. q \in Chain /\ KeepsEnders(steps, q) /\ KeepsOpeners(steps, q)
    BY <1>6, <2>2, NowIs, DetachedKeeps
  <2>4. council' = c /\ row' = row /\ steps' = q
    BY <1>8, <2>1, <2>2 DEF RollsBack
  <2>5. Ends(c, b, q)
    BY <1>1, <1>2, <2>1, <2>3, BackEnds
  <2>6. Sends(c, q, t)
    BY <1>1, <1>4, <2>1, <2>3, WaitingIs, SendsOn
  <2>7. Saved(row, q, t)
    BY <1>4, <2>3, NowIs, SavedOn
  <2>8. Right(c, b, row, q, Shut, t)
    BY <1>5, <2>1, <2>3, <2>5, <2>6, <2>7, WaitsNot DEF Right, Tracked
  <2> QED
    BY <1>1, <1>2, <1>3, <2>4, <2>8 DEF NextRight
<1> QED
  BY <1>7, <1>8

(* The runtime starts again.                                                *)
LEMMA RestartRight ==
  ASSUME NowRight, RestartCouncil
  PROVE  NextRight
<1>1. /\ steps' = <<>> /\ awaiting' = Shut
      /\ strayed' = strayed \cup ({x.kind : x \in ToSet(steps)} \cap {Advance})
  BY DEF RestartCouncil
<1>2. PICK t : t = strayed'
  OBVIOUS
<1>3. strayed \subseteq t /\ \A k \in Gated : Opens(steps, k) => Advance \in t
  <2>1. ASSUME NEW k \in Gated, Opens(steps, k)
        PROVE  Advance \in t
    <3>1. PICK i \in DOMAIN steps : steps[i] \in Opener
      BY <2>1 DEF Opens, OpensStep
    <3>2. steps[i].kind = "phase" /\ steps[i] \in ToSet(steps)
      BY <3>1 DEF Opener, ToSet
    <3> QED
      BY <1>1, <1>2, <3>2 DEF Advance
  <2> QED
    BY <1>1, <1>2, <2>1
<1>4. <<>> \in Chain
  BY DEF Chain
<1>5. CASE awaiting.kind = "start"
  <2>1. PICK c : c = awaiting.council
    OBVIOUS
  <2>2. PICK a : a = awaiting.agent
    OBVIOUS
  <2>3. awaiting # Shut
    BY <1>5 DEF Shut
  <2>4. /\ Fit(c, a, strayed) /\ c.phase = "none"
    BY <1>5, <2>1, <2>2, <2>3, WaitingIs DEF Linked
  <2>5. Fit(c, a, t)
    BY <1>3, <2>4, FitMore
  <2>6. Place(c) \notin Ready
    BY <2>4 DEF Place, Ready
  <2>7. Sends(c, <<>>, t)
    BY <2>6, SendsNowhere
  <2>8. Ends(c, a, <<>>)
    <3>1. \A p \in Member : c.turn[p] = 0
      BY <2>4 DEF Fit, Plan, TurnHasWant, NothingYet
    <3>2. \A p \in Member : a[p].st = "ending" => a[p].turn # 0
      BY <2>4 DEF Fit, Hands, Numbered, Live
    <3> QED
      BY <3>1, <3>2 DEF Ends
  <2>9. PICK r : r = [council |-> c, agent |-> a]
    OBVIOUS
  <2>10. Right(c, a, r, <<>>, Shut, t)
    BY <1>4, <2>5, <2>7, <2>8, <2>9, CommitRight, WaitsNot DEF Tracked
  <2>11. council' = c /\ agent' = a /\ row' = r
    BY <1>5, <2>1, <2>2, <2>9 DEF RestartCouncil, Persist
  <2> QED
    BY <1>1, <1>2, <2>10, <2>11 DEF NextRight
<1>6. CASE awaiting.kind # "start"
  <2>1. PICK d : d = row.council
    OBVIOUS
  <2>2. PICK e : e = row.agent
    OBVIOUS
  <2>3. PICK cut : cut = {p \in Member : e[p].st \in {"queued", "running", "ending", "lost"}}
    OBVIOUS
  <2>4. PICK a : a = [p \in Member |-> IF p \in cut THEN [e[p] EXCEPT !.st = "failed"] ELSE e[p]]
    OBVIOUS
  <2>5. PICK c : c = IF \E p \in cut : d.turn[p] # 0 THEN failPlanCouncil(d) ELSE d
    OBVIOUS
  <2>6. Fit(d, e, strayed) /\ Sends(d, steps, strayed) /\ d \in Paper /\ e \in Crew
    BY <2>1, <2>2, NowIs DEF Saved, Fit
  <2>7. cut = {p \in Member : e[p].st \in Live \cup {"lost"}}
    BY <2>3 DEF Live
  <2>8. ASSUME NEW p \in Member
        PROVE  /\ a[p] \in Mate /\ a[p].turn = e[p].turn
               /\ a[p].st = IF e[p].st \in Live \cup {"lost"} THEN "failed" ELSE e[p].st
    <3>1. e[p] \in Mate
      BY <2>6 DEF Crew
    <3>2. a[p] = IF e[p].st \in Live \cup {"lost"} THEN [e[p] EXCEPT !.st = "failed"] ELSE e[p]
      BY <2>4, <2>7
    <3>3. "failed" \in Duty
      BY DEF Duty
    <3> QED
      BY <3>1, <3>2, <3>3 DEF Mate
  <2>9. a \in Crew
    BY <2>4, <2>8 DEF Crew
  <2>10. Fit(c, a, strayed)
    <3>1. \A p \in Member : /\ a[p].turn = e[p].turn
                            /\ a[p].st = IF e[p].st \in Live \cup {"lost"} THEN "failed" ELSE e[p].st
      BY <2>8
    <3>2. Fit(d, e, strayed)
      BY <2>6
    <3>3. \/ c = failPlanCouncil(d)
          \/ c = d /\ \A p \in Member : e[p].st \in Live => d.turn[p] = 0
      BY <2>5, <2>7
    <3> QED
      BY <2>9, <3>1, <3>2, <3>3, RestartFit
  <2>11. Fit(c, a, t)
    BY <1>3, <2>10, FitMore
  <2>12. Sends(c, <<>>, t)
    <3>1. CASE Place(c) \notin Ready
      BY <3>1, SendsNowhere
    <3>2. CASE c = d
      BY <1>3, <2>6, <3>2 DEF Sends
    <3> QED
      BY <2>5, <2>6, <3>1, <3>2, FailPlace
  <2>13. Ends(c, a, <<>>)
    BY <2>8 DEF Ends, Live
  <2>14. PICK r : r = [council |-> c, agent |-> a]
    OBVIOUS
  <2>15. Right(c, a, r, <<>>, Shut, t)
    BY <1>4, <2>11, <2>12, <2>13, <2>14, CommitRight, WaitsNot DEF Tracked
  <2>16. council' = c /\ agent' = a /\ row' = r
    BY <1>6, <2>1, <2>2, <2>3, <2>4, <2>5, <2>14 DEF RestartCouncil, Persist
  <2> QED
    BY <1>1, <1>2, <2>15, <2>16 DEF NextRight
<1> QED
  BY <1>5, <1>6

(* A command that commits, and one that is refused.                         *)
LEMMA CommandRight ==
  ASSUME NowRight, NEW q \in Chain, KeepsEnders(steps, q), NEW c, NEW a \in Crew, NEW t,
         strayed \subseteq t, Fit(c, a, t),
         \/ KeepsOpeners(steps, q) /\ Place(c) = Place(council)
         \/ Place(c) \notin Ready
         \/ Advance \in t,
         \A p \in Member : a[p].st = "ending" /\ a[p].turn = c.turn[p] =>
           agent[p].st = "ending" /\ agent[p].turn = council.turn[p] /\ agent[p].turn = a[p].turn
  PROVE  Right(c, a, [council |-> c, agent |-> a], q, Shut, t)
<1>1. Ends(c, a, q)
  <2>1. \A p \in Member : a[p].turn \in Nat
    BY DEF Crew, Mate
  <2> QED
    BY <2>1, NowIs DEF Ends, KeepsEnders
<1>2. Sends(c, q, t)
  <2>1. Sends(council, steps, strayed)
    BY NowIs
  <2> QED
    BY <2>1, SendsOn, SendsNowhere
<1>3. PICK r : r = [council |-> c, agent |-> a]
  OBVIOUS
<1>4. Right(c, a, r, q, Shut, t)
  BY <1>1, <1>2, <1>3, CommitRight, WaitsNot DEF Tracked
<1> QED
  BY <1>3, <1>4

LEMMA RefusesRight ==
  ASSUME NowRight, steps # <<>>, ~Automatic(Head(steps)), Head(steps).kind # "complete",
         awaiting = Shut, Refuses, UNCHANGED <<awaiting, strayed>>
  PROVE  NextRight
<1>1. Tail(steps) \in Chain /\ KeepsOpeners(steps, Tail(steps)) /\ KeepsEnders(steps, Tail(steps))
  BY NowIs, TailKeeps
<1>2. PICK q : q = Detached(Tail(steps), Known(council))
  OBVIOUS
<1>3. q \in Chain /\ KeepsOpeners(steps, q) /\ KeepsEnders(steps, q)
  <2>1. Known(council) \in Knowns
    BY NowIs, KnownIs
  <2>2. /\ q \in Chain /\ KeepsOpeners(Tail(steps), q) /\ KeepsEnders(Tail(steps), q)
    BY <1>1, <1>2, <2>1, DetachedKeeps
  <2> QED
    BY <1>1, <2>2, KeepsBoth
<1>4. strayed \subseteq strayed
  OBVIOUS
<1>5. Sends(council, q, strayed)
  BY <1>3, <1>4, NowIs, SendsOn
<1>6. Ends(council, agent, q)
  <2>1. \A p \in Member : agent[p].turn \in Nat
    BY NowIs DEF Crew, Mate
  <2> QED
    BY <1>3, <2>1, NowIs DEF Ends, KeepsEnders
<1>7. Saved(row, q, strayed)
  BY <1>3, <1>4, NowIs, SavedOn
<1>8. Right(council, agent, row, q, Shut, strayed)
  BY <1>3, <1>5, <1>6, <1>7, NowIs, WaitsNot DEF Right, Tracked
<1>9. /\ council' = council /\ agent' = agent /\ row' = row /\ steps' = q
      /\ awaiting' = Shut /\ strayed' = strayed
  BY <1>2 DEF Refuses
<1> QED
  BY <1>8, <1>9 DEF NextRight

LEMMA CommitIs ==
  ASSUME NEW c, NEW a, NEW q, NEW t, Right(c, a, [council |-> c, agent |-> a], q, Shut, t),
         council' = c, agent' = a, row' = [council |-> council', agent |-> agent'],
         steps' = q, awaiting' = Shut, strayed' = t
  PROVE  NextRight
BY DEF NextRight

LEMMA PhaseReplayedRight ==
  ASSUME NowRight, PhaseReplayed \/ PhaseAnswered
  PROVE  NextRight
<1>1. /\ awaiting = Shut /\ steps # <<>> /\ Head(steps).kind = "phase" /\ awaiting' = awaiting
      /\ council' = council /\ agent' = agent /\ row' = [council |-> council', agent |-> agent']
      /\ steps' = Tail(steps)
  BY DEF PhaseReplayed, PhaseAnswered, Comes, CommitCouncil, Persist
<1>2. PICK t : t = strayed'
  OBVIOUS
<1>3. strayed \subseteq t /\ (Advance \in t \/ ~Automatic(Head(steps)))
  BY <1>2 DEF PhaseReplayed, PhaseAnswered
<1>4. PICK q : q = Tail(steps)
  OBVIOUS
<1>5. q \in Chain /\ KeepsEnders(steps, q) /\ (~Automatic(Head(steps)) => KeepsOpeners(steps, q))
  BY <1>1, <1>4, NowIs, TailKeeps
<1>6. Fit(council, agent, t)
  BY <1>3, NowIs, FitMore
<1>7. Right(council, agent, [council |-> council, agent |-> agent], q, Shut, t)
  BY <1>3, <1>5, <1>6, NowIs, CommandRight
<1> QED
  BY <1>1, <1>2, <1>4, <1>7, CommitIs

LEMMA PhaseRefusedRight ==
  ASSUME NowRight, PhaseRefused
  PROVE  NextRight
<1>1. /\ awaiting = Shut /\ steps # <<>> /\ Head(steps).kind = "phase" /\ awaiting' = awaiting
  BY DEF PhaseRefused, Comes
<1>2. CASE ~Automatic(Head(steps))
  BY <1>1, <1>2, RefusesRight DEF PhaseRefused
<1>3. CASE Automatic(Head(steps))
  <2>1. PICK known : council' = Without(council, known)
    BY <1>3 DEF PhaseRefused, Persist
  <2>2. PICK c : c = Without(council, known)
    OBVIOUS
  <2>3. PICK t : t = strayed \cup {Advance}
    OBVIOUS
  <2>4. Fit(c, agent, t)
    BY <2>2, <2>3, NowIs, CancelFit
  <2>5. c.turn = council.turn
    BY <2>2, NowIs, WithoutIs
  <2>6. PICK found \in Knowns : steps' = Detached(Tail(steps), found)
    <3>1. Known(council) \in Knowns /\ {} \in Knowns
      BY NowIs, KnownIs DEF Knowns
    <3>2. CASE Head(steps).held = "copy"
      BY <1>3, <3>1, <3>2 DEF PhaseRefused
    <3>3. CASE Head(steps).held # "copy"
      BY <1>3, <3>1, <3>3 DEF PhaseRefused
    <3> QED
      BY <3>2, <3>3
  <2>7. PICK q : q = Detached(Tail(steps), found)
    OBVIOUS
  <2>8. q \in Chain /\ KeepsEnders(steps, q)
    <3>1. Tail(steps) \in Chain /\ KeepsEnders(steps, Tail(steps))
      BY <1>1, NowIs, TailKeeps
    <3> QED
      BY <2>7, <3>1, DetachedKeeps, KeepsBoth
  <2>9. Right(c, agent, [council |-> c, agent |-> agent], q, Shut, t)
    BY <2>3, <2>4, <2>5, <2>8, NowIs, CommandRight
  <2>10. /\ council' = c /\ agent' = agent /\ row' = [council |-> council', agent |-> agent']
         /\ steps' = q /\ strayed' = t
    BY <1>3, <2>1, <2>2, <2>3, <2>6, <2>7 DEF PhaseRefused, Persist
  <2> QED
    BY <1>1, <2>9, <2>10, CommitIs
<1> QED
  BY <1>2, <1>3

LEMMA PhaseBreaksRight ==
  ASSUME NowRight, PhaseBreaks
  PROVE  NextRight
<1>1. PICK k : k = Head(steps).of
  OBVIOUS
<1>2. /\ awaiting = Shut /\ steps # <<>> /\ Head(steps).kind = "phase" /\ awaiting' = awaiting
      /\ strayed' = strayed
  BY DEF PhaseBreaks, Comes
<1>3. PICK q : q = Tail(steps)
  OBVIOUS
<1>4. Head(steps) \in Step /\ q \in Chain /\ KeepsEnders(steps, q)
  BY <1>2, <1>3, NowIs, TailKeeps
<1>5. k \in Gated /\ council.phase = ReadyFor[k]
  BY <1>1, <1>2, <1>4, StepKinds DEF PhaseBreaks
<1>6. strayed \subseteq strayed
  OBVIOUS
<1>7. CASE CommitCouncil(failPlanCouncil(council), agent)
  <2>1. PICK c : c = failPlanCouncil(council)
    OBVIOUS
  <2>2. Fit(c, agent, strayed)
    BY <2>1, NowIs, FailFit DEF Hands
  <2>3. c.turn = council.turn /\ Place(c) \notin Ready
    BY <2>1, NowIs, FailPlace
  <2>4. Right(c, agent, [council |-> c, agent |-> agent], q, Shut, strayed)
    BY <1>4, <1>6, <2>2, <2>3, NowIs, CommandRight
  <2>5. /\ council' = c /\ agent' = agent /\ row' = [council |-> council', agent |-> agent']
        /\ steps' = q
    BY <1>3, <1>7, <2>1 DEF CommitCouncil, Persist
  <2> QED
    BY <1>2, <2>4, <2>5, CommitIs
<1>8. ASSUME NEW done \in SUBSET WhoFor(k), NEW how \in [done -> {"running", "queued"}],
             CommitCouncil(failPlanCouncil(Opened(k, WhoFor(k), done)), Launched(how))
      PROVE  NextRight
  <2>1. PICK c : c = failPlanCouncil(Opened(k, WhoFor(k), done))
    OBVIOUS
  <2>2. PICK a : a = Launched(how)
    OBVIOUS
  <2>3. Fit(c, a, strayed) /\ c.phase = "failed"
    BY <1>5, <2>1, <2>2, NowIs, BreaksFit
  <2>4. done \in SUBSET Member /\ WhoFor(k) \in SUBSET Member
    BY <1>5, WhoIs
  <2>5. /\ a \in Crew
        /\ \A p \in done : a[p].st \in {"running", "queued"}
        /\ \A p \in Member \ done : a[p] = agent[p]
    BY <2>2, <2>4, NowIs, LaunchedIs
  <2>6. \A p \in Member \ done : c.turn[p] = council.turn[p]
    <3>1. PICK d : d = Opened(k, WhoFor(k), done)
      OBVIOUS
    <3>2. InPhase(d, k, WhoFor(k), done)
      BY <1>5, <2>4, <3>1, NowIs, OpenedIs
    <3>3. d \in Paper /\ \A p \in Member \ done : d.turn[p] = council.turn[p]
      BY <3>2 DEF InPhase
    <3>4. c.turn = d.turn
      BY <2>1, <3>1, <3>3, FailPlace
    <3> QED
      BY <3>3, <3>4
  <2>7. Place(c) \notin Ready
    BY <2>3 DEF Place, Ready
  <2>8. \A p \in Member : a[p].st = "ending" /\ a[p].turn = c.turn[p] =>
           agent[p].st = "ending" /\ agent[p].turn = council.turn[p] /\ agent[p].turn = a[p].turn
    BY <2>5, <2>6
  <2>9. Right(c, a, [council |-> c, agent |-> a], q, Shut, strayed)
    BY <1>4, <1>6, <2>3, <2>5, <2>7, <2>8, CommandRight
  <2>10. /\ council' = c /\ agent' = a /\ row' = [council |-> council', agent |-> agent']
         /\ steps' = q
    BY <1>3, <1>8, <2>1, <2>2 DEF CommitCouncil, Persist
  <2> QED
    BY <1>2, <2>9, <2>10, CommitIs
<1> QED
  BY <1>1, <1>7, <1>8 DEF PhaseBreaks

(* Commands of people that concern turns.                                   *)
LEMMA StopRight ==
  ASSUME NowRight, stopPlanCouncil
  PROVE  NextRight
<1>1. /\ awaiting = Shut /\ steps # <<>> /\ Head(steps).kind = "stop" /\ awaiting' = awaiting
      /\ strayed' = strayed
  BY DEF stopPlanCouncil, Comes
<1>2. PICK q : q = Tail(steps)
  OBVIOUS
<1>3. ~Automatic(Head(steps)) /\ Head(steps).kind # "complete"
  BY <1>1 DEF Automatic
<1>4. q \in Chain /\ KeepsOpeners(steps, q) /\ KeepsEnders(steps, q)
  BY <1>1, <1>2, <1>3, NowIs, TailKeeps
<1>5. strayed \subseteq strayed
  OBVIOUS
<1>6. CASE council.phase \in Over
  <2>1. Right(council, agent, [council |-> council, agent |-> agent], q, Shut, strayed)
    BY <1>4, <1>5, NowIs, CommandRight
  <2>2. /\ council' = council /\ agent' = agent
        /\ row' = [council |-> council', agent |-> agent'] /\ steps' = q
    BY <1>2, <1>6 DEF stopPlanCouncil, CommitCouncil, Persist
  <2> QED
    BY <1>1, <2>1, <2>2, CommitIs
<1>7. CASE council.phase \notin Over
  <2>1. PICK c : c = [Cancelled(council) EXCEPT !.phase = "stopped"]
    OBVIOUS
  <2>2. PICK a : a = [p \in Member |-> IF agent[p].st \in {"running", "queued"}
                                       THEN [agent[p] EXCEPT !.st = "killed"] ELSE agent[p]]
    OBVIOUS
  <2>3. ASSUME NEW p \in Member
        PROVE  /\ a[p] \in Mate /\ a[p].turn = agent[p].turn
               /\ a[p].st \in {"killed", agent[p].st}
    <3>1. agent[p] \in Mate
      BY NowIs DEF Crew
    <3>2. a[p] = IF agent[p].st \in {"running", "queued"}
                 THEN [agent[p] EXCEPT !.st = "killed"] ELSE agent[p]
      BY <2>2
    <3>3. "killed" \in Duty
      BY DEF Duty
    <3> QED
      BY <3>1, <3>2, <3>3 DEF Mate
  <2>4. a \in Crew
    BY <2>2, <2>3 DEF Crew
  <2>5. Ended(council, c)
    BY <2>1, NowIs, StopIs
  <2>6. Numbered(a) /\ Past(council, a)
    BY <2>3, NowIs DEF Hands, Numbered, Past, Live
  <2>7. council.phase # "none"
    BY <1>7, PlaceKinds
  <2>8. Fit(c, a, strayed)
    BY <2>4, <2>5, <2>6, <2>7, NowIs, EndedFit DEF Plan
  <2>9. Place(c) \notin Ready /\ c.turn = council.turn
    BY <2>5 DEF Ended, Place, Ready
  <2>10. \A p \in Member : a[p].st = "ending" /\ a[p].turn = c.turn[p] =>
           agent[p].st = "ending" /\ agent[p].turn = council.turn[p] /\ agent[p].turn = a[p].turn
    BY <2>3, <2>9
  <2>11. Right(c, a, [council |-> c, agent |-> a], q, Shut, strayed)
    BY <1>4, <1>5, <2>4, <2>8, <2>9, <2>10, CommandRight
  <2>12. /\ council' = c /\ agent' = a /\ row' = [council |-> council', agent |-> agent']
         /\ steps' = q
    BY <1>2, <1>7, <2>1, <2>2 DEF stopPlanCouncil, CommitCouncil, Persist
  <2> QED
    BY <1>1, <2>11, <2>12, CommitIs
<1> QED
  BY <1>6, <1>7

LEMMA KillRight ==
  ASSUME NowRight, KillMember
  PROVE  NextRight
<1>1. /\ awaiting = Shut /\ steps # <<>> /\ Head(steps).kind = "kill" /\ awaiting' = awaiting
      /\ strayed' = strayed
  BY DEF KillMember, Comes
<1>2. PICK q : q = Tail(steps)
  OBVIOUS
<1>3. ~Automatic(Head(steps)) /\ Head(steps).kind # "complete"
  BY <1>1 DEF Automatic
<1>4. /\ q \in Chain /\ KeepsOpeners(steps, q) /\ KeepsEnders(steps, q)
      /\ Head(steps) \in Step
  BY <1>1, <1>2, <1>3, NowIs, TailKeeps
<1>5. strayed \subseteq strayed
  OBVIOUS
<1>6. PICK p \in Member : p = Head(steps).who
  BY <1>1, <1>4, StepKinds
<1>7. CASE agent[p].st \notin {"running", "queued"}
  <2>1. Right(council, agent, [council |-> council, agent |-> agent], q, Shut, strayed)
    BY <1>4, <1>5, NowIs, CommandRight
  <2>2. /\ council' = council /\ agent' = agent
        /\ row' = [council |-> council', agent |-> agent'] /\ steps' = q
    BY <1>2, <1>6, <1>7 DEF KillMember, CommitCouncil, Persist
  <2> QED
    BY <1>1, <2>1, <2>2, CommitIs
<1>8. CASE agent[p].st \in {"running", "queued"}
  <2>1. PICK c : c = IF agent[p].st = "queued" THEN TurnFails(council, p) ELSE council
    OBVIOUS
  <2>2. PICK a : a = With(agent, p, "killed")
    OBVIOUS
  <2>3. "killed" \in Duty /\ "killed" \in Duty \ Live
    BY DEF Duty, Live
  <2>4. /\ a \in Crew /\ a[p].st = "killed"
        /\ \A o \in Member : a[o].turn = agent[o].turn
        /\ \A o \in Member : o # p => a[o] = agent[o]
    BY <2>2, <2>3, NowIs, CrewSet
  <2>5. Fit(c, a, strayed)
    <3>1. CASE agent[p].st = "queued"
      BY <2>1, <2>2, <2>3, <3>1, NowIs, TurnFailsFit
    <3>2. CASE agent[p].st # "queued"
      <4>1. agent[p].st \in Live /\ "killed" \in Live \cup {"killed"}
        BY <1>8, <3>2 DEF Live
      <4> QED
        BY <2>1, <2>2, <3>2, <4>1, NowIs, LiveFitOne
    <3> QED
      BY <3>1, <3>2
  <2>6. c.turn = council.turn /\ (Place(c) = Place(council) \/ Place(c) \notin Ready)
    BY <2>1, NowIs, TurnFailsPlace
  <2>7. \A o \in Member : a[o].st = "ending" /\ a[o].turn = c.turn[o] =>
           agent[o].st = "ending" /\ agent[o].turn = council.turn[o] /\ agent[o].turn = a[o].turn
    BY <2>4, <2>6
  <2>8. Right(c, a, [council |-> c, agent |-> a], q, Shut, strayed)
    BY <1>4, <1>5, <2>4, <2>5, <2>6, <2>7, CommandRight
  <2>9. /\ council' = c /\ agent' = a /\ row' = [council |-> council', agent |-> agent']
        /\ steps' = q
    BY <1>2, <1>6, <1>8, <2>1, <2>2 DEF KillMember, CommitCouncil, Persist
  <2> QED
    BY <1>1, <2>8, <2>9, CommitIs
<1> QED
  BY <1>7, <1>8

LEMMA FormerRight ==
  ASSUME NowRight, FormerTurnEnds
  PROVE  NextRight
<1>1. /\ awaiting = Shut /\ steps # <<>> /\ Head(steps).kind = "former" /\ awaiting' = awaiting
      /\ strayed' = strayed
      /\ council' = council /\ agent' = agent /\ row' = [council |-> council', agent |-> agent']
      /\ steps' \in {Tail(steps), Detached(Tail(steps), Known(council))}
  BY DEF FormerTurnEnds, Comes, Persist
<1>2. PICK q : q = Tail(steps)
  OBVIOUS
<1>3. ~Automatic(Head(steps)) /\ Head(steps).kind # "complete"
  BY <1>1 DEF Automatic
<1>4. q \in Chain /\ KeepsOpeners(steps, q) /\ KeepsEnders(steps, q)
  BY <1>1, <1>2, <1>3, NowIs, TailKeeps
<1>5. PICK r : r = Detached(q, Known(council))
  OBVIOUS
<1>6. r \in Chain /\ KeepsOpeners(steps, r) /\ KeepsEnders(steps, r)
  <2>1. Known(council) \in Knowns
    BY NowIs, KnownIs
  <2>2. r \in Chain /\ KeepsOpeners(q, r) /\ KeepsEnders(q, r)
    BY <1>4, <1>5, <2>1, DetachedKeeps
  <2> QED
    BY <1>4, <2>2, KeepsBoth
<1>7. PICK u : u = steps'
  OBVIOUS
<1>8. u \in Chain /\ KeepsOpeners(steps, u) /\ KeepsEnders(steps, u)
  BY <1>1, <1>2, <1>4, <1>5, <1>6, <1>7
<1>9. strayed \subseteq strayed
  OBVIOUS
<1>10. Right(council, agent, [council |-> council, agent |-> agent], u, Shut, strayed)
  BY <1>8, <1>9, NowIs, CommandRight
<1> QED
  BY <1>1, <1>7, <1>10, CommitIs

LEMMA RetryRight ==
  ASSUME NowRight, cmdRetryPlanCouncilParticipant
  PROVE  NextRight
<1>1. /\ awaiting = Shut /\ steps # <<>> /\ Head(steps).kind = "retry"
      /\ awaiting' = awaiting /\ strayed' = strayed
  BY DEF cmdRetryPlanCouncilParticipant, Comes
<1>2. PICK q : q = Tail(steps)
  OBVIOUS
<1>3. ~Automatic(Head(steps)) /\ Head(steps).kind # "complete"
  BY <1>1 DEF Automatic
<1>4. q \in Chain /\ KeepsOpeners(steps, q) /\ KeepsEnders(steps, q)
  BY <1>1, <1>2, <1>3, NowIs, TailKeeps
<1>5. strayed \subseteq strayed
  OBVIOUS
<1>6. PICK p : p = Head(council.blocked)
  OBVIOUS
<1>7. PICK l : l = Tail(council.blocked)
  OBVIOUS
<1>8. CASE Refuses
  BY <1>1, <1>3, <1>8, RefusesRight
<1>9. ASSUME council.phase = "blocked", NEW how \in {"running", "queued"},
             CommitCouncil([council EXCEPT !.turn[p] = agent[p].turn + 1, !.blocked = l,
                                           !.phase = IF l = <<>> THEN council.from ELSE @],
                           Asked(agent, p, how))
      PROVE  NextRight
  <2>1. PICK c : c = [council EXCEPT !.turn[p] = agent[p].turn + 1, !.blocked = l,
                                     !.phase = IF l = <<>> THEN council.from ELSE @]
    OBVIOUS
  <2>2. PICK a : a = Asked(agent, p, how)
    OBVIOUS
  <2>3. p \in Member /\ Fit(c, a, strayed)
    BY <1>6, <1>7, <1>9, <2>1, <2>2, NowIs, RetryFit
  <2>4. council.from \in Underway
    BY <1>9, NowIs DEF Plan, BlockedRight
  <2>5. Place(c) = Place(council) /\ \A o \in Member : o # p => c.turn[o] = council.turn[o]
    <3>1. PICK n : n = agent[p].turn + 1
      OBVIOUS
    <3>2. PICK t : t = [council.turn EXCEPT ![p] = n]
      OBVIOUS
    <3>3. PICK x : x = IF l = <<>> THEN council.from ELSE "blocked"
      OBVIOUS
    <3>4. c = [council EXCEPT !.turn = t, !.blocked = l, !.phase = x]
      BY <1>9, <2>1, <3>1, <3>2, <3>3, NowIs DEF Paper
    <3>5. c.phase = x /\ c.from = council.from /\ c.turn = t
      BY <3>4, NowIs DEF Paper
    <3>6. \A o \in Member : o # p => t[o] = council.turn[o]
      BY <3>2, NowIs DEF Paper, Numbers
    <3>7. Place(c) = council.from /\ Place(council) = council.from
      BY <1>9, <2>4, <3>3, <3>5, PlaceKinds DEF Place
    <3> QED
      BY <3>5, <3>6, <3>7
  <2>6. /\ a \in Crew /\ a[p].st \in {"running", "queued"}
        /\ \A o \in Member : o # p => a[o] = agent[o]
    BY <2>2, <2>3, NowIs, AskedIs
  <2>7. \A o \in Member : a[o].st = "ending" /\ a[o].turn = c.turn[o] =>
           agent[o].st = "ending" /\ agent[o].turn = council.turn[o] /\ agent[o].turn = a[o].turn
    BY <2>5, <2>6
  <2>8. Right(c, a, [council |-> c, agent |-> a], q, Shut, strayed)
    BY <1>4, <1>5, <2>3, <2>5, <2>6, <2>7, CommandRight
  <2>9. /\ council' = c /\ agent' = a /\ row' = [council |-> council', agent |-> agent']
        /\ steps' = q
    BY <1>2, <1>9, <2>1, <2>2 DEF CommitCouncil, Persist
  <2> QED
    BY <1>1, <2>8, <2>9, CommitIs
<1>10. CASE council.phase = "blocked" /\ CommitCouncil([council EXCEPT !.turn[p] = 0], agent)
  <2>1. PICK c : c = [council EXCEPT !.turn[p] = 0]
    OBVIOUS
  <2>2. Fit(c, agent, strayed)
    BY <1>6, <1>10, <2>1, NowIs, RefusedFit
  <2>3. PICK t : t = [council.turn EXCEPT ![p] = 0]
    OBVIOUS
  <2>4. c = [council EXCEPT !.turn = t]
    BY <2>1, <2>3
  <2>5. c.turn = t /\ Place(c) = Place(council)
    BY <2>4, NowIs DEF Place, Paper
  <2>6. \A o \in Member : t[o] \in {0, council.turn[o]}
    BY <2>3, NowIs DEF Paper, Numbers
  <2>7. \A o \in Member : agent[o].st = "ending" => agent[o].turn # 0
    BY NowIs DEF Hands, Numbered, Live
  <2>8. \A o \in Member : agent[o].st = "ending" /\ agent[o].turn = c.turn[o] =>
           agent[o].st = "ending" /\ agent[o].turn = council.turn[o] /\ agent[o].turn = agent[o].turn
    BY <2>5, <2>6, <2>7
  <2>9. Right(c, agent, [council |-> c, agent |-> agent], q, Shut, strayed)
    BY <1>4, <1>5, <2>2, <2>5, <2>8, NowIs, CommandRight
  <2>10. /\ council' = c /\ agent' = agent /\ row' = [council |-> council', agent |-> agent']
         /\ steps' = q
    BY <1>2, <1>10, <2>1 DEF CommitCouncil, Persist
  <2> QED
    BY <1>1, <2>9, <2>10, CommitIs
<1> QED
  BY <1>6, <1>7, <1>8, <1>9, <1>10 DEF cmdRetryPlanCouncilParticipant

LEMMA PatchRefusedRight ==
  ASSUME NowRight, PatchRefused
  PROVE  NextRight
<1>1. /\ awaiting = Shut /\ steps # <<>> /\ Head(steps).kind = "patch"
      /\ awaiting' = awaiting /\ strayed' = strayed /\ Refuses
  BY DEF PatchRefused, Comes
<1>2. ~Automatic(Head(steps)) /\ Head(steps).kind # "complete"
  BY <1>1 DEF Automatic
<1> QED
  BY <1>1, <1>2, RefusesRight

LEMMA JoinsRight ==
  ASSUME NowRight, VerifierJoins
  PROVE  NextRight
<1>1. /\ awaiting = Shut /\ steps # <<>> /\ Head(steps).kind = "patch"
      /\ awaiting' = awaiting /\ strayed' = strayed
  BY DEF VerifierJoins, Comes
<1>2. PICK q : q = Tail(steps)
  OBVIOUS
<1>3. ~Automatic(Head(steps)) /\ Head(steps).kind # "complete"
  BY <1>1 DEF Automatic
<1>4. q \in Chain /\ KeepsOpeners(steps, q) /\ KeepsEnders(steps, q)
  BY <1>1, <1>2, <1>3, NowIs, TailKeeps
<1>5. strayed \subseteq strayed
  OBVIOUS
<1>6. PICK c : c = [council EXCEPT !.joined = TRUE]
  OBVIOUS
<1>7. Fit(c, agent, strayed)
  BY <1>6, NowIs, JoinFit
<1>8. c.turn = council.turn /\ Place(c) = Place(council)
  BY <1>6, NowIs DEF Paper, Place
<1>9. Right(c, agent, [council |-> c, agent |-> agent], q, Shut, strayed)
  BY <1>4, <1>5, <1>7, <1>8, NowIs, CommandRight
<1>10. /\ council' = c /\ agent' = agent /\ row' = [council |-> council', agent |-> agent']
       /\ steps' = q
  BY <1>2, <1>6 DEF VerifierJoins, CommitCouncil, Persist
<1> QED
  BY <1>1, <1>9, <1>10, CommitIs

(* A patch.                                                                 *)
LEMMA SeatSame ==
  ASSUME agent \in Crew, NEW op, NEW p \in Member
  PROVE  /\ \A o \in Member : o # p => Seat(op, p)[o] = agent[o]
         /\ op = "replace" => Seat(op, p)[p].st = "idle"
         /\ op # "replace" => Seat(op, p) = agent
<1>1. CASE op = "replace"
  <2>1. PICK b : b = With(agent, p, "idle")
    OBVIOUS
  <2>2. b[p].st = "idle" /\ \A q \in Member : q # p => b[q] = agent[q]
    <3>1. "idle" \in Duty
      BY DEF Duty
    <3> QED
      BY <2>1, <3>1, CrewSet
  <2> QED
    BY <1>1, <2>1, <2>2 DEF Seat
<1>2. CASE op # "replace"
  BY <1>2 DEF Seat
<1> QED
  BY <1>1, <1>2

LEMMA PatchedRight ==
  ASSUME NowRight, NEW op, NEW p \in Member, NEW q \in Chain, KeepsButOf(steps, q, p),
         NEW d, InPatch(d, op, p), NEW b \in Crew, NEW t, strayed \subseteq t, Fit(d, b, t),
         \A o \in Member : o # p => b[o] = agent[o],
         \/ b[p].st # "ending"
         \/ b = agent /\ KeepsEnders(steps, q) /\ d.turn[p] \in {0, council.turn[p]}
  PROVE  Right(d, b, [council |-> d, agent |-> b], q, Shut, t)
<1>1. Place(d) \notin Ready
  <2>1. KindOf(p) \in ArtifactKind
    BY KindIs
  <2>2. d.phase = PhaseOf[KindOf(p)] /\ PhaseOf[KindOf(p)] \in Active
    BY <2>1, Places DEF InPatch
  <2> QED
    BY <2>2, PlaceKinds DEF Place
<1>2. Sends(d, q, t)
  BY <1>1, SendsNowhere
<1>3. \A o \in Member : o # p => b[o] = agent[o] /\ d.turn[o] = council.turn[o]
  BY DEF InPatch
<1>4. Ends(d, b, q)
  <2>1. Ends(council, agent, steps)
    BY NowIs
  <2>2. CASE b[p].st # "ending"
    BY <1>3, <2>1, <2>2, EndsButOf
  <2>3. CASE b = agent /\ KeepsEnders(steps, q) /\ d.turn[p] \in {0, council.turn[p]}
    <3>1. \A o \in Member : agent[o].st = "ending" => agent[o].turn # 0
      BY NowIs DEF Hands, Numbered, Live
    <3>2. \A o \in Member : d.turn[o] \in {0, council.turn[o]}
      BY <1>3, <2>3
    <3>3. \A o \in Member : agent[o].turn \in Nat
      BY NowIs DEF Crew, Mate
    <3> QED
      BY <2>1, <2>3, <3>1, <3>2, <3>3 DEF Ends, KeepsEnders
  <2> QED
    BY <2>2, <2>3
<1>5. PICK r : r = [council |-> d, agent |-> b]
  OBVIOUS
<1>6. Right(d, b, r, q, Shut, t)
  BY <1>2, <1>4, <1>5, CommitRight, WaitsNot DEF Tracked
<1> QED
  BY <1>5, <1>6

LEMMA PatchRight ==
  ASSUME NowRight, commitPlanCouncilPatch
  PROVE  NextRight
<1>1. /\ awaiting = Shut /\ steps # <<>> /\ Head(steps).kind = "patch" /\ awaiting' = awaiting
  BY DEF commitPlanCouncilPatch, Comes
<1>2. ~Automatic(Head(steps)) /\ Head(steps).kind # "complete"
  BY <1>1 DEF Automatic
<1>3. /\ Tail(steps) \in Chain /\ KeepsEnders(steps, Tail(steps)) /\ Head(steps) \in Step
  BY <1>1, <1>2, NowIs, TailKeeps
<1>4. PICK op \in PatchOp : op = Head(steps).op
  BY <1>1, <1>3, StepKinds
<1>5. PICK p \in Member : p = Head(steps).who
  BY <1>1, <1>3, StepKinds
<1>6. PICK q : q = IF op = "replace" THEN Replaced(Tail(steps), p) ELSE Tail(steps)
  OBVIOUS
<1>7. /\ q \in Chain /\ KeepsButOf(steps, q, p)
      /\ op # "replace" => KeepsEnders(steps, q)
  <2>1. CASE op = "replace"
    <3>1. q \in Chain /\ KeepsButOf(Tail(steps), q, p)
      BY <1>3, <1>6, <2>1, ChainReplaced DEF KeepsButOf
    <3> QED
      BY <1>3, <2>1, <3>1, KeepsBoth
  <2>2. CASE op # "replace"
    BY <1>3, <1>6, <2>2, KeepsBoth
  <2> QED
    BY <2>1, <2>2
<1>8. PICK passed : passed = IF op = "replace" /\ \E o \in Member \ {p} : council.want[o] # "none"
                             THEN Planner ELSE {}
  OBVIOUS
<1>9. PICK t : t = strayed \cup passed
  OBVIOUS
<1>10. strayed \subseteq t /\ GoesPast(op, p, t)
  BY <1>8, <1>9 DEF GoesPast
<1>11. PICK c : c = Patched(op, p)
  OBVIOUS
<1>12. PICK a : a = Seat(op, p)
  OBVIOUS
<1>13. /\ Patchable(op, p)
       /\ op = "add-verifier" => council.phase \in {"ready-for-synthesis", "completed"}
       /\ steps' = q
  BY <1>4, <1>5, <1>6 DEF commitPlanCouncilPatch
<1>14. /\ \A how \in {"running", "queued"} :
            Fit(Expecting(c, p, c.want[p], a[p].turn + 1), Asked(a, p, how), t)
       /\ Fit(c, a, t \cup {p})
  BY <1>10, <1>11, <1>12, <1>13, NowIs, PatchFit
<1>15. InPatch(c, op, p) /\ c.turn[p] \in {0, council.turn[p]}
  BY <1>11, NowIs, PatchedIs
<1>16. /\ a \in Crew /\ \A o \in Member : o # p => a[o] = agent[o]
       /\ op = "replace" => a[p].st = "idle"
       /\ op # "replace" => a = agent
  BY <1>12, NowIs, SeatIs, SeatSame
<1>17. PICK n : n = a[p].turn + 1
  OBVIOUS
<1>18. n \in Nat
  BY <1>16, <1>17 DEF Crew, Mate
<1>19. \/ \E how \in {"running", "queued"} :
             Persist(Expecting(c, p, c.want[p], n), Asked(a, p, how)) /\ strayed' = t
       \/ Persist(c, a) /\ strayed' = t \cup {p}
  BY <1>4, <1>5, <1>8, <1>9, <1>11, <1>12, <1>17 DEF commitPlanCouncilPatch
<1>20. ASSUME NEW how \in {"running", "queued"},
              Persist(Expecting(c, p, c.want[p], n), Asked(a, p, how)), strayed' = t
       PROVE  NextRight
  <2>1. PICK d : d = Expecting(c, p, c.want[p], n)
    OBVIOUS
  <2>2. InPatch(d, op, p)
    BY <1>15, <1>18, <2>1, ExpectingIs
  <2>3. PICK b : b = Asked(a, p, how)
    OBVIOUS
  <2>4. /\ b \in Crew /\ b[p].st \in {"running", "queued"}
        /\ \A o \in Member : o # p => b[o] = a[o]
    BY <1>16, <2>3, AskedIs
  <2>5. b[p].st # "ending" /\ \A o \in Member : o # p => b[o] = agent[o]
    BY <1>16, <2>4
  <2>6. Fit(d, b, t)
    BY <1>14, <1>17, <2>1, <2>3
  <2>7. Right(d, b, [council |-> d, agent |-> b], q, Shut, t)
    BY <1>7, <1>10, <2>2, <2>4, <2>5, <2>6, PatchedRight
  <2>8. council' = d /\ agent' = b /\ row' = [council |-> council', agent |-> agent']
    BY <1>20, <2>1, <2>3 DEF Persist
  <2> QED
    BY <1>1, <1>13, <1>20, <2>7, <2>8, CommitIs
<1>21. CASE Persist(c, a) /\ strayed' = t \cup {p}
  <2>1. PICK u : u = t \cup {p}
    OBVIOUS
  <2>2. strayed \subseteq u /\ Fit(c, a, u)
    BY <1>10, <1>14, <2>1
  <2>3. \/ a[p].st # "ending"
        \/ a = agent /\ KeepsEnders(steps, q) /\ c.turn[p] \in {0, council.turn[p]}
    BY <1>7, <1>15, <1>16
  <2>4. Right(c, a, [council |-> c, agent |-> a], q, Shut, u)
    BY <1>7, <1>15, <1>16, <2>2, <2>3, PatchedRight
  <2>5. council' = c /\ agent' = a /\ row' = [council |-> council', agent |-> agent']
    BY <1>21 DEF Persist
  <2> QED
    BY <1>1, <1>13, <1>21, <2>1, <2>4, <2>5, CommitIs
<1> QED
  BY <1>19, <1>20, <1>21

(* The end of a turn.                                                       *)
LEMMA EndedTurnRight ==
  ASSUME NowRight, NEW p \in Member, NEW q \in Chain, KeepsButOf(steps, q, p), NEW d,
         NEW st \in Duty \ {"ending"}, Fit(d, With(agent, p, st), strayed),
         \A o \in Member : o # p => d.turn[o] = council.turn[o], Sends(d, q, strayed)
  PROVE  LET a == With(agent, p, st)
         IN Right(d, a, [council |-> d, agent |-> a], q, Shut, strayed)
<1>1. PICK a : a = With(agent, p, st)
  OBVIOUS
<1>2. a \in Crew /\ a[p].st = st /\ \A o \in Member : o # p => a[o] = agent[o]
  <2>1. st \in Duty
    OBVIOUS
  <2> QED
    BY <1>1, <2>1, NowIs, CrewSet
<1>3. a[p].st # "ending"
  BY <1>2
<1>4. Ends(d, a, q)
  BY <1>2, <1>3, NowIs, EndsButOf
<1>5. PICK r : r = [council |-> d, agent |-> a]
  OBVIOUS
<1>6. Right(d, a, r, q, Shut, strayed)
  BY <1>1, <1>4, <1>5, CommitRight, WaitsNot DEF Tracked
<1> QED
  BY <1>1, <1>5, <1>6

LEMMA FailedTurnRight ==
  ASSUME NowRight, NEW p \in Member, NEW q \in Chain, KeepsButOf(steps, q, p),
         KeepsOpeners(steps, q), NEW st \in {"idle", "failed"}
  PROVE  LET d == TurnFails(council, p)
             a == With(agent, p, st)
         IN Right(d, a, [council |-> d, agent |-> a], q, Shut, strayed)
<1>1. PICK d : d = TurnFails(council, p)
  OBVIOUS
<1>2. st \in Duty \ {"ending"} /\ st \in Duty \ Live
  BY DEF Duty, Live
<1>3. Fit(d, With(agent, p, st), strayed)
  BY <1>1, <1>2, NowIs, TurnFailsFit
<1>4. d.turn = council.turn /\ (Place(d) = Place(council) \/ Place(d) \notin Ready)
  BY <1>1, NowIs, TurnFailsPlace
<1>5. strayed \subseteq strayed
  OBVIOUS
<1>6. Sends(d, q, strayed)
  BY <1>4, <1>5, NowIs, SendsOn
<1>7. PICK a : a = With(agent, p, st)
  OBVIOUS
<1>8. Right(d, a, [council |-> d, agent |-> a], q, Shut, strayed)
  BY <1>2, <1>3, <1>4, <1>6, <1>7, EndedTurnRight
<1> QED
  BY <1>1, <1>7, <1>8

LEMMA FinishedRight ==
  ASSUME NowRight, NEW p \in Member, NEW q \in Chain, KeepsButOf(steps, q, p),
         KeepsOpeners(steps, q), NEW n, agent[p] = [st |-> "ending", turn |-> n],
         NEW d, d = planCouncilFinished(council, p, n)
  PROVE  LET a == With(agent, p, "idle")
         IN Right(d, a, [council |-> d, agent |-> a], q \o Advances(council, d), Shut, strayed)
<1>1. PICK u : u = q \o Advances(council, d)
  OBVIOUS
<1>2. /\ d \in Paper
      /\ \A o \in Member : o # p => d.turn[o] = council.turn[o]
      /\ \/ Place(d) = Place(council) \/ Place(d) \notin Ready
         \/ d.phase # council.phase /\ d.phase = Place(d)
  BY NowIs, FinishedPlace
<1>3. PICK v : v = Advances(council, d)
  OBVIOUS
<1>4. /\ v \in Chain
      /\ \A k \in Gated : AutoGates /\ council.phase # d.phase /\ d.phase = ReadyFor[k] =>
                            Opens(v, k)
  BY <1>2, <1>3, AdvancesIs
<1>5. /\ u \in Chain
      /\ \A k \in Gated : Opens(q, k) \/ Opens(v, k) => Opens(u, k)
      /\ \A o \in Member, t \in Nat : Closes(q, o, t) => Closes(u, o, t)
  BY <1>1, <1>3, <1>4, ChainConcat
<1>6. KeepsOpeners(steps, u) /\ KeepsButOf(steps, u, p)
  BY <1>5 DEF KeepsOpeners, KeepsButOf
<1>7. strayed \subseteq strayed
  OBVIOUS
<1>8. Sends(d, u, strayed)
  <2>1. CASE Place(d) = Place(council) \/ Place(d) \notin Ready
    BY <1>6, <1>7, <2>1, NowIs, SendsOn
  <2>2. CASE d.phase # council.phase /\ d.phase = Place(d)
    BY <1>4, <1>5, <2>2 DEF Sends, AtGate
  <2> QED
    BY <1>2, <2>1, <2>2
<1>9. Fit(d, With(agent, p, "idle"), strayed)
  BY NowIs, FinishedFit
<1>10. "idle" \in Duty \ {"ending"}
  BY DEF Duty
<1>11. PICK a : a = With(agent, p, "idle")
  OBVIOUS
<1>12. Right(d, a, [council |-> d, agent |-> a], u, Shut, strayed)
  BY <1>2, <1>5, <1>6, <1>8, <1>9, <1>10, <1>11, EndedTurnRight
<1> QED
  BY <1>1, <1>11, <1>12

LEMMA CompleteRight ==
  ASSUME NowRight, CompleteTurn
  PROVE  NextRight
<1>1. /\ awaiting = Shut /\ steps # <<>> /\ Head(steps).kind = "complete" /\ awaiting' = awaiting
      /\ strayed' = strayed
  BY DEF CompleteTurn, Comes
<1>2. ~Automatic(Head(steps))
  BY <1>1 DEF Automatic
<1>3. PICK q : q = Tail(steps)
  OBVIOUS
<1>4. /\ q \in Chain /\ KeepsOpeners(steps, q) /\ KeepsButOf(steps, q, Head(steps).who)
      /\ Head(steps) \in Step
  BY <1>1, <1>2, <1>3, NowIs, TailKeeps
<1>5. PICK p \in Member : p = Head(steps).who
  BY <1>1, <1>4, StepKinds
<1>6. PICK n : n = Head(steps).turn
  OBVIOUS
<1>7. PICK c : c = planCouncilFinished(council, p, n)
  OBVIOUS
<1>8. PICK d : d = TurnFails(council, p)
  OBVIOUS
<1>9. PICK v : v = Advances(council, c)
  OBVIOUS
<1>10. v \in Chain /\ Known(council) \in Knowns /\ Known(c) \in Knowns
  <2>1. c \in Paper
    BY <1>7, NowIs, FinishedPlace
  <2> QED
    BY <1>9, <2>1, NowIs, AdvancesIs, KnownIs
<1>11. q \o v \in Chain /\ KeepsOpeners(steps, q \o v) /\ KeepsButOf(steps, q \o v, p)
  <2>1. /\ q \o v \in Chain
        /\ \A k \in Gated : Opens(q, k) => Opens(q \o v, k)
        /\ \A o \in Member, t \in Nat : Closes(q, o, t) => Closes(q \o v, o, t)
    BY <1>4, <1>10, ChainConcat
  <2> QED
    BY <1>4, <1>5, <2>1 DEF KeepsOpeners, KeepsButOf
<1>12. ASSUME NEW u \in Chain, KeepsOpeners(steps, u), KeepsButOf(steps, u, p),
              NEW st \in {"idle", "failed"}, Persist(d, With(agent, p, st)), steps' = u
       PROVE  NextRight
  <2>1. PICK a : a = With(agent, p, st)
    OBVIOUS
  <2>2. Right(d, a, [council |-> d, agent |-> a], u, Shut, strayed)
    BY <1>8, <1>12, <2>1, FailedTurnRight
  <2>3. council' = d /\ agent' = a /\ row' = [council |-> council', agent |-> agent']
    BY <1>12, <2>1 DEF Persist
  <2> QED
    BY <1>1, <1>12, <2>2, <2>3, CommitIs
<1>13. ASSUME NEW u \in Chain, KeepsOpeners(steps, u), KeepsButOf(steps, u, p),
              NEW known \in Knowns
       PROVE  LET r == Detached(u, known)
              IN r \in Chain /\ KeepsOpeners(steps, r) /\ KeepsButOf(steps, r, p)
  BY <1>13, DetachedKeeps, KeepsBoth
<1>14. CASE agent[p] # [st |-> "ending", turn |-> n]
  <2>1. /\ Persist(d, With(agent, p, "failed")) /\ steps' = Detached(q, Known(council))
    BY <1>3, <1>5, <1>6, <1>8, <1>14 DEF CompleteTurn
  <2>2. PICK r : r = Detached(q, Known(council))
    OBVIOUS
  <2>3. r \in Chain /\ KeepsOpeners(steps, r) /\ KeepsButOf(steps, r, p)
    BY <1>4, <1>5, <1>10, <1>13, <2>2
  <2> QED
    BY <1>12, <2>1, <2>2, <2>3
<1>15. CASE agent[p] = [st |-> "ending", turn |-> n]
  <2>1. \/ Persist(c, With(agent, p, "idle")) /\ steps' = q \o v
        \/ Persist(d, With(agent, p, "idle")) /\ steps' = q
        \/ Persist(d, With(agent, p, "failed")) /\ steps' = Detached(q \o v, Known(c))
    BY <1>3, <1>5, <1>6, <1>7, <1>8, <1>9, <1>15 DEF CompleteTurn
  <2>2. CASE Persist(c, With(agent, p, "idle")) /\ steps' = q \o v
    <3>1. PICK a : a = With(agent, p, "idle")
      OBVIOUS
    <3>2. PICK u : u = q \o v
      OBVIOUS
    <3>3. Right(c, a, [council |-> c, agent |-> a], u, Shut, strayed)
      BY <1>4, <1>5, <1>7, <1>9, <1>15, <3>1, <3>2, FinishedRight
    <3>4. council' = c /\ agent' = a /\ row' = [council |-> council', agent |-> agent']
          /\ steps' = u
      BY <2>2, <3>1, <3>2 DEF Persist
    <3> QED
      BY <1>1, <3>3, <3>4, CommitIs
  <2>3. CASE Persist(d, With(agent, p, "idle")) /\ steps' = q
    BY <1>4, <1>5, <1>12, <2>3
  <2>4. CASE Persist(d, With(agent, p, "failed")) /\ steps' = Detached(q \o v, Known(c))
    <3>1. PICK r : r = Detached(q \o v, Known(c))
      OBVIOUS
    <3>2. r \in Chain /\ KeepsOpeners(steps, r) /\ KeepsButOf(steps, r, p)
      BY <1>10, <1>11, <1>13, <3>1
    <3> QED
      BY <1>12, <2>4, <3>1, <3>2
  <2> QED
    BY <2>1, <2>2, <2>3, <2>4
<1> QED
  BY <1>14, <1>15

(* Before a council is started there is none.                               *)
LEMMA NothingComes ==
  ASSUME steps = <<>>, NEW kind
  PROVE  ~Comes(kind)
BY DEF Comes

LEMMA AsksGrow ==
  ASSUME CouncilNext
  PROVE  asks' = asks \/ asks' = 1 \/ asks' = asks + 1
<1>1. startPlanCouncil => asks' = 1
  BY DEF startPlanCouncil
<1>2. \A p \in Member : TurnErrs(p) \/ TurnEnds(p) \/ DrainTurn(p) => asks' = asks
  BY DEF TurnErrs, TurnEnds, DrainTurn
<1>3. \A s \in Asking : SubmitToCouncil(s) => asks' = asks + 1
  BY DEF SubmitToCouncil
<1>4. CompleteTurn \/ FormerTurnEnds => asks' = asks
  BY DEF CompleteTurn, FormerTurnEnds
<1>5. PhaseReplayed \/ PhaseAnswered \/ PhaseRefused => asks' = asks
  BY DEF PhaseReplayed, PhaseAnswered, PhaseRefused
<1>6. PhaseOpens \/ PhaseBreaks \/ Settles => asks' = asks
  BY DEF PhaseOpens, PhaseBreaks, Settles
<1>7. RollsBack \/ OthersOpen \/ OthersCommit => asks' = asks
  BY DEF RollsBack, OthersOpen, OthersCommit
<1>8. stopPlanCouncil \/ KillMember \/ cmdRetryPlanCouncilParticipant => asks' = asks
  BY DEF stopPlanCouncil, KillMember, cmdRetryPlanCouncilParticipant
<1>9. PatchRefused \/ VerifierJoins \/ commitPlanCouncilPatch => asks' = asks
  BY DEF PatchRefused, VerifierJoins, commitPlanCouncilPatch
<1>10. KillAllTurns \/ RestartCouncil => asks' = asks
  BY DEF KillAllTurns, RestartCouncil
<1> QED
  BY <1>1, <1>2, <1>3, <1>4, <1>5, <1>6, <1>7, <1>8, <1>9, <1>10 DEF CouncilNext

\* While nobody has asked for a council, only the runtime may end.
LEMMA OnlyStarts ==
  ASSUME NowRight, Fresh, asks = 0, CouncilNext
  PROVE  startPlanCouncil \/ KillAllTurns \/ RestartCouncil
<1>1. /\ council.phase = "none" /\ awaiting = Shut /\ steps = <<>>
      /\ \A p \in Member : agent[p].turn = 0
  BY DEF Fresh
<1>2. \A p \in Member : agent[p].st \notin Live
  BY <1>1, NowIs DEF Hands, Numbered
<1>3. \A p \in Member : ~TurnErrs(p) /\ ~TurnEnds(p) /\ ~DrainTurn(p)
  BY <1>2 DEF TurnErrs, TurnEnds, DrainTurn, Live
<1>4. \A s \in Asking : ~SubmitToCouncil(s)
  BY <1>1 DEF SubmitToCouncil
<1>5. ~CompleteTurn /\ ~FormerTurnEnds
  BY <1>1, NothingComes DEF CompleteTurn, FormerTurnEnds
<1>6. ~PhaseReplayed /\ ~PhaseAnswered /\ ~PhaseRefused /\ ~PhaseOpens /\ ~PhaseBreaks
  BY <1>1, NothingComes DEF PhaseReplayed, PhaseAnswered, PhaseRefused, PhaseOpens, PhaseBreaks
<1>7. ~Settles /\ ~OthersCommit
  <2>1. awaiting.kind = "none"
    BY <1>1 DEF Shut
  <2> QED
    BY <2>1 DEF Settles, OthersCommit
<1>8. ~RollsBack
  BY <1>1 DEF RollsBack
<1>9. ~OthersOpen
  BY <1>1, PlaceKinds DEF OthersOpen
<1>10. ~stopPlanCouncil /\ ~KillMember /\ ~cmdRetryPlanCouncilParticipant
  BY <1>1, NothingComes DEF stopPlanCouncil, KillMember, cmdRetryPlanCouncilParticipant
<1>11. ~PatchRefused /\ ~VerifierJoins /\ ~commitPlanCouncilPatch
  BY <1>1, NothingComes DEF PatchRefused, VerifierJoins, commitPlanCouncilPatch
<1> QED
  BY <1>3, <1>4, <1>5, <1>6, <1>7, <1>8, <1>9, <1>10, <1>11 DEF CouncilNext

LEMMA FreshStep ==
  ASSUME NowRight, Fresh, CouncilNext
  PROVE  Fresh'
<1>1. asks' \in Nat /\ (asks # 0 => asks' # 0)
  BY AsksGrow DEF Fresh
<1>2. CASE asks # 0 \/ startPlanCouncil
  <2>1. asks' # 0
    <3>1. startPlanCouncil => asks' = 1
      BY DEF startPlanCouncil
    <3> QED
      BY <1>1, <1>2, <3>1
  <2> QED
    BY <1>1, <2>1 DEF Fresh
<1>3. CASE asks = 0 /\ KillAllTurns
  <2>1. /\ council.phase = "none" /\ awaiting = Shut /\ steps = <<>>
        /\ \A p \in Member : agent[p].turn = 0
    BY <1>3 DEF Fresh
  <2>2. PICK a : a = agent'
    OBVIOUS
  <2>3. council' = council /\ awaiting' = awaiting /\ row' = [council |-> council, agent |-> a]
    BY <1>3, <2>2 DEF KillAllTurns, Persist
  <2>4. steps' = <<>>
    <3>1. PICK q : q = [i \in DOMAIN steps |-> [steps[i] EXCEPT !.by = "runtime"]]
      OBVIOUS
    <3>2. q \in Chain /\ DOMAIN q = DOMAIN steps
      BY <3>1, NowIs, ChainBy
    <3>3. DOMAIN steps = 1..0
      BY <2>1
    <3>4. q \in Seq(Step) /\ Len(q) = 0
      BY <3>2, <3>3, LenProperties DEF Chain
    <3>5. q = <<>>
      BY <3>4, EmptySeq
    <3>6. steps' = q
      BY <1>3, <3>1 DEF KillAllTurns
    <3> QED
      BY <3>5, <3>6
  <2>5. ASSUME NEW p \in Member PROVE a[p].turn = 0
    <3>1. agent[p] \in Mate
      BY NowIs DEF Crew
    <3>2. a[p] = IF agent[p].st = "running" THEN [agent[p] EXCEPT !.st = "killed"] ELSE agent[p]
      BY <1>3, <2>2 DEF KillAllTurns, Persist
    <3> QED
      BY <2>1, <3>1, <3>2 DEF Mate
  <2>6. row'.council = council /\ row'.agent = a
    BY <2>3
  <2> QED
    BY <1>1, <2>1, <2>2, <2>3, <2>4, <2>5, <2>6 DEF Fresh
<1>4. CASE asks = 0 /\ RestartCouncil
  <2>1. /\ row.council.phase = "none" /\ awaiting = Shut
        /\ \A p \in Member : row.agent[p].turn = 0
    BY <1>4 DEF Fresh
  <2>2. PICK cut : cut = {p \in Member : row.agent[p].st \in {"queued", "running", "ending", "lost"}}
    OBVIOUS
  <2>3. PICK a : a = [p \in Member |-> IF p \in cut THEN [row.agent[p] EXCEPT !.st = "failed"]
                                       ELSE row.agent[p]]
    OBVIOUS
  <2>4. PICK c : c = IF \E p \in cut : row.council.turn[p] # 0 THEN failPlanCouncil(row.council)
                     ELSE row.council
    OBVIOUS
  <2>5. awaiting.kind # "start"
    BY <2>1 DEF Shut
  <2>6. council' = c /\ agent' = a /\ row' = [council |-> c, agent |-> a]
        /\ steps' = <<>> /\ awaiting' = Shut
    BY <1>4, <2>2, <2>3, <2>4, <2>5 DEF RestartCouncil, Persist
  <2>7. c.phase = "none"
    <3>1. failPlanCouncil(row.council) = row.council
      BY <2>1, PlaceKinds DEF failPlanCouncil
    <3> QED
      BY <2>1, <2>4, <3>1
  <2>8. ASSUME NEW p \in Member PROVE a[p].turn = 0
    <3>1. row.agent[p] \in Mate
      BY NowIs DEF Saved, Fit, Crew
    <3>2. a[p] = IF p \in cut THEN [row.agent[p] EXCEPT !.st = "failed"] ELSE row.agent[p]
      BY <2>3
    <3> QED
      BY <2>1, <3>1, <3>2 DEF Mate
  <2>9. row'.council = c /\ row'.agent = a
    BY <2>6
  <2> QED
    BY <1>1, <2>6, <2>7, <2>8, <2>9 DEF Fresh
<1> QED
  BY <1>2, <1>3, <1>4, OnlyStarts

LEMMA NowStep ==
  ASSUME NowRight, Fresh, CouncilNext
  PROVE  NowRight'
<1>1. startPlanCouncil => NextRight
  BY StartRight
<1>2. \A p \in Member : TurnErrs(p) \/ TurnEnds(p) \/ DrainTurn(p) => NextRight
  BY TurnErrsRight, TurnEndsRight, DrainTurnRight
<1>3. \A s \in Asking : SubmitToCouncil(s) => NextRight
  BY SubmitRight
<1>4. CompleteTurn \/ FormerTurnEnds => NextRight
  BY CompleteRight, FormerRight
<1>5. PhaseReplayed \/ PhaseAnswered \/ PhaseRefused => NextRight
  BY PhaseReplayedRight, PhaseRefusedRight
<1>6. PhaseOpens \/ PhaseBreaks \/ Settles => NextRight
  BY PhaseOpensRight, PhaseBreaksRight, SettlesRight
<1>7. RollsBack \/ OthersOpen \/ OthersCommit => NextRight
  BY RollsBackRight, OthersOpenRight, OthersCommitRight
<1>8. stopPlanCouncil \/ KillMember \/ cmdRetryPlanCouncilParticipant => NextRight
  BY StopRight, KillRight, RetryRight
<1>9. PatchRefused \/ VerifierJoins \/ commitPlanCouncilPatch => NextRight
  BY PatchRefusedRight, JoinsRight, PatchRight
<1>10. KillAllTurns \/ RestartCouncil => NextRight
  BY KillAllRight, RestartRight
<1>11. NextRight
  BY <1>1, <1>2, <1>3, <1>4, <1>5, <1>6, <1>7, <1>8, <1>9, <1>10 DEF CouncilNext
<1> QED
  BY <1>11, NextIs

(* At first there is no council.                                            *)
LEMMA InitRight ==
  ASSUME CouncilInit
  PROVE  NowRight /\ Fresh
<1>1. PICK c : c = council
  OBVIOUS
<1>2. PICK a : a = agent
  OBVIOUS
<1>3. /\ row = [council |-> c, agent |-> a] /\ steps = <<>> /\ awaiting = Shut
      /\ asks = 0 /\ strayed = {}
  BY <1>1, <1>2 DEF CouncilInit
<1>4. PICK want : want = [p \in Member |-> "none"]
  OBVIOUS
<1>5. PICK zero : zero = [p \in Member |-> 0]
  OBVIOUS
<1>6. PICK b : b = [k \in ArtifactKind |-> NoBarrier]
  OBVIOUS
<1>7. /\ want \in Wants /\ zero \in Numbers /\ b \in Gates
      /\ \A p \in Member : want[p] = "none" /\ zero[p] = 0
      /\ \A k \in ArtifactKind : b[k].who = {} /\ b[k].in = {}
  <2>1. NoBarrier \in Gate /\ NoBarrier.who = {} /\ NoBarrier.in = {}
    BY DEF NoBarrier, Gate, Status
  <2>2. b \in Gates /\ \A k \in ArtifactKind : b[k] = NoBarrier
    BY <1>6, <2>1 DEF Gates
  <2>3. zero \in Numbers /\ \A p \in Member : zero[p] = 0
    BY <1>5 DEF Numbers
  <2>4. want \in Wants /\ \A p \in Member : want[p] = "none"
    BY <1>4 DEF Wants
  <2> QED
    BY <2>1, <2>2, <2>3, <2>4
<1>8. PICK l : l = <<>>
  OBVIOUS
<1>9. PICK made : made = {}
  OBVIOUS
<1>10. c = [phase |-> "none", from |-> "none", blocked |-> l, joined |-> FALSE,
            want |-> want, turn |-> zero, gate |-> zero, made |-> made, barrier |-> b]
  BY <1>1, <1>4, <1>5, <1>6, <1>8, <1>9 DEF CouncilInit
<1>11. l \in Line /\ made \in Works /\ "none" \in Phase /\ "none" \in Origin
  BY <1>8, <1>9 DEF Line, Works, Phase, Over, Origin
<1>12. /\ c \in Paper /\ c.phase = "none" /\ c.want = want /\ c.turn = zero /\ c.barrier = b
       /\ c.phase \in Over /\ Place(c) = "none"
  BY <1>7, <1>10, <1>11 DEF Paper, Over, Place
<1>13. \A k \in ArtifactKind : ~At(c, k)
  BY <1>12, NoPlace
<1>14. "synthesis" \in ArtifactKind /\ "none" \notin Ready \cup {"completed"} \cup Underway
  BY DEF ArtifactKind, Ready, Underway, Active
<1>15. /\ TurnHasWant(c) /\ NothingYet(c) /\ Within(c) /\ WantsHere(c) /\ SynthAlone(c)
       /\ OnlyMissing(c, strayed)
  BY <1>7, <1>12, <1>13, <1>14
     DEF TurnHasWant, NothingYet, Within, WantsHere, SynthAlone, OnlyMissing
<1>16. Pends(c, strayed) /\ Drafted(c, strayed) /\ Earned(c, strayed) /\ BlockedRight(c)
  BY <1>12, <1>13, <1>14 DEF Pends, Drafted, Earned, BlockedRight
<1>17. /\ a \in Crew /\ \A p \in Member : a[p].st = "idle" /\ a[p].turn = 0
  <2>1. PICK m : m = [st |-> "idle", turn |-> 0]
    OBVIOUS
  <2>2. "idle" \in Duty
    BY DEF Duty
  <2>3. m \in Mate /\ m.st = "idle" /\ m.turn = 0
    BY <2>1, <2>2 DEF Mate
  <2>4. a = [p \in Member |-> m]
    BY <1>2, <2>1 DEF CouncilInit
  <2> QED
    BY <2>3, <2>4 DEF Crew
<1>18. Hands(c, a, strayed)
  <2>1. Numbered(a) /\ Past(c, a)
    BY <1>7, <1>12, <1>17 DEF Numbered, Past, Live
  <2>2. Halted(c, a) /\ Manned(c, a, strayed)
    BY <1>12, <1>13 DEF Halted, Named, Manned
  <2> QED
    BY <2>1, <2>2 DEF Hands
<1>19. Fit(c, a, strayed)
  BY <1>12, <1>15, <1>16, <1>17, <1>18 DEF Fit, Plan
<1>20. Sends(c, steps, strayed)
  BY <1>12, <1>14, SendsNowhere
<1>21. Ends(c, a, steps)
  BY <1>17 DEF Ends
<1>22. steps \in Chain
  BY <1>3 DEF Chain
<1>23. Right(c, a, row, steps, awaiting, strayed)
  BY <1>3, <1>19, <1>20, <1>21, <1>22, CommitRight, WaitsNot DEF Tracked
<1>24. row.council = c /\ row.agent = a
  BY <1>3
<1>25. Fresh
  BY <1>1, <1>2, <1>3, <1>12, <1>17, <1>24 DEF Fresh
<1> QED
  BY <1>1, <1>2, <1>23, <1>25 DEF NowRight

(* The invariant says what the property says.                               *)
LEMMA RightWaits ==
  ASSUME NowRight
  PROVE  WaitsForSomeone
<1>1. /\ steps \in Chain /\ council \in Paper /\ agent \in Crew
      /\ Plan(council, strayed) /\ Hands(council, agent, strayed)
      /\ Sends(council, steps, strayed) /\ Ends(council, agent, steps)
  BY NowIs
<1>2. \A k \in ArtifactKind : Awaited(k) = Missing(council, k) /\ Awaited(k) \subseteq Member
  BY <1>1 DEF Awaited, Missing, Paper, Gates, Gate
<1>3. ASSUME NEW p \in Member, Doing(council, agent, p)
      PROVE  Working(p) \/ agent[p].st = "killed"
  <2>1. CASE agent[p].st = "killed"
    BY <2>1
  <2>2. CASE agent[p].turn = council.turn[p] /\ agent[p].st \in {"queued", "running"}
    BY <2>2 DEF Working
  <2>3. CASE agent[p].turn = council.turn[p] /\ agent[p].st = "ending"
    <3>1. Closes(steps, p, agent[p].turn)
      BY <1>1, <2>3 DEF Ends
    <3>2. PICK i \in DOMAIN steps : ClosesStep(steps[i], p, agent[p].turn)
      BY <3>1 DEF Closes
    <3>3. steps[i] \in ToSet(steps)
      BY DEF ToSet
    <3>4. steps[i].kind = "complete" /\ steps[i].who = p /\ steps[i].turn = agent[p].turn
      BY <3>2 DEF ClosesStep, Ender
    <3> QED
      BY <2>3, <3>3, <3>4 DEF Working
  <2> QED
    BY <1>3, <2>1, <2>2, <2>3 DEF Doing, Live
<1>4. ASSUME NEW k \in ArtifactKind, At(council, k), council.barrier[k].status = "pending",
             NEW p \in Awaited(k)
      PROVE  Working(p) \/ agent[p].st = "killed" \/ p \in strayed \/ Named(council, p)
  <2>1. p \in strayed \/ Named(council, p) \/ Doing(council, agent, p)
    BY <1>1, <1>2, <1>4 DEF Hands, Manned
  <2> QED
    BY <1>2, <1>3, <2>1
<1>5. ASSUME NEW k \in ArtifactKind, council.phase = PhaseOf[k]
      PROVE  IF council.barrier[k].status = "pending"
             THEN \A p \in Awaited(k) : Working(p) \/ agent[p].st = "killed" \/ p \in strayed
             ELSE strayed # {}
  <2>1. council.phase # "blocked"
    BY <1>5, Places, PlaceKinds
  <2>2. At(council, k) /\ \A p \in Member : ~Named(council, p)
    BY <1>5, <2>1 DEF At, Place, Named
  <2>3. council.barrier[k].status = "pending" \/ strayed # {}
    BY <1>1, <2>2 DEF Plan, Pends
  <2> QED
    BY <1>2, <1>4, <2>2, <2>3
<1>6. ASSUME council.phase = "blocked"
      PROVE  /\ council.blocked # <<>>
             /\ \A k \in ArtifactKind :
                   council.from = PhaseOf[k] /\ council.barrier[k].status = "pending" =>
                   \A p \in Awaited(k) : \/ Working(p) \/ p \in ToSet(council.blocked)
                                         \/ agent[p].st = "killed" \/ p \in strayed
  <2>1. council.blocked # <<>>
    BY <1>1, <1>6 DEF Plan, BlockedRight
  <2>2. \A k \in ArtifactKind : council.from = PhaseOf[k] => At(council, k)
    BY <1>6 DEF At, Place
  <2>3. \A p \in Member : Named(council, p) => p \in ToSet(council.blocked)
    BY DEF Named, Lists, ToSet
  <2>4. ASSUME NEW k \in ArtifactKind, council.from = PhaseOf[k],
               council.barrier[k].status = "pending", NEW p \in Awaited(k)
        PROVE  \/ Working(p) \/ p \in ToSet(council.blocked)
               \/ agent[p].st = "killed" \/ p \in strayed
    BY <1>2, <1>4, <2>2, <2>3, <2>4
  <2> QED
    BY <2>1, <2>4
<1>7. ASSUME NEW k \in Gated, AutoGates, council.phase = ReadyFor[k]
      PROVE  Advance \in strayed \/ \E x \in ToSet(steps) : x.kind = "phase" /\ x.of = k
  <2>1. council.phase # "blocked"
    BY <1>7, Places, PlaceKinds
  <2>2. AtGate(council, k)
    BY <1>7, <2>1 DEF AtGate, Place
  <2>3. Advance \in strayed \/ Opens(steps, k)
    BY <1>1, <1>7, <2>2 DEF Sends
  <2>4. ASSUME Opens(steps, k)
        PROVE  \E x \in ToSet(steps) : x.kind = "phase" /\ x.of = k
    <3>1. PICK i \in DOMAIN steps : OpensStep(steps[i], k)
      BY <2>4 DEF Opens
    <3>2. steps[i] \in ToSet(steps)
      BY DEF ToSet
    <3>3. steps[i].kind = "phase" /\ steps[i].of = k
      BY <3>1 DEF OpensStep, Opener
    <3> QED
      BY <3>2, <3>3
  <2> QED
    BY <2>3, <2>4
<1> QED
  BY <1>5, <1>6, <1>7 DEF WaitsForSomeone

LEMMA RightEarned ==
  ASSUME NowRight
  PROVE  PhaseEarned
<1>1. Earned(council, strayed)
  BY NowIs DEF Plan
<1>2. council.phase # "blocked" => Place(council) = council.phase
  BY DEF Place
<1>3. {"ready-for-cross-review", "reviewing-peers", "ready-for-synthesis", "synthesizing",
       "completed"} \subseteq (Underway \ {"drafting-plans"}) \cup {"completed"}
  BY DEF Underway, Active, Ready
<1>4. council.phase \in (Underway \ {"drafting-plans"}) \cup {"completed"} =>
         council.phase # "blocked"
  BY PlaceKinds DEF Over
<1> QED
  BY <1>1, <1>2, <1>3, <1>4 DEF Earned, PhaseEarned

\* A council that is not over always waits for somebody who will answer, or whom a person may
\* retry, or for the command that opens its next phase; and every phase is earned by what the
\* participants made: over failed and refused turns, kills, patches, gates that answer twice,
\* commits that are lost, rollbacks of its own and of others' commands, killAll and restarts
\* (planCouncil.ts, with the calls of the session runtime and the executor).
THEOREM CouncilAlwaysOnTrack == CouncilSpec => []CouncilOnTrack
<1>1. CouncilInit => NowRight /\ Fresh
  BY InitRight
<1>2. NowRight /\ Fresh /\ [CouncilNext]_councilVars => (NowRight /\ Fresh)'
  <2>1. ASSUME NowRight, Fresh, CouncilNext
        PROVE  NowRight' /\ Fresh'
    BY <2>1, NowStep, FreshStep
  <2>2. ASSUME NowRight, Fresh, UNCHANGED councilVars
        PROVE  NowRight' /\ Fresh'
    BY <2>2 DEF councilVars, NowRight, Fresh
  <2> QED
    BY <2>1, <2>2
<1>3. NowRight => CouncilOnTrack
  BY RightWaits, RightEarned DEF CouncilOnTrack
<1> QED
  BY <1>1, <1>2, <1>3, PTL DEF CouncilSpec

-----------------------------------------------------------------------------
(* What a council keeps has its type.                                       *)

Counted ==
  /\ answered \subseteq Gated \X Nat /\ queueStopped \in BOOLEAN
  /\ strayed \subseteq Member \cup {Advance}
  /\ asks \in Nat /\ troubles \in Nat /\ asks + troubles <= MaxStirring + 1
  /\ asks = 0 => troubles <= MaxStirring

(* The ledger is told of phases and generations.                            *)
LEMMA ToldTyped ==
  ASSUME NowRight, Counted, NEW kind, Comes(kind), kind = "phase"
  PROVE  Tells(Head(steps)) => answered' \subseteq Gated \X Nat
<1>1. Head(steps) \in Step /\ Head(steps).kind = "phase"
  BY NowIs DEF Comes, Chain
<1>2. Head(steps).of \in Gated /\ Head(steps).gen \in Nat
  BY <1>1, StepKinds DEF Opener, Request
<1> QED
  BY <1>2 DEF Tells, Counted

LEMMA CountedStep ==
  ASSUME NowRight, Counted, [CouncilNext]_councilVars
  PROVE  Counted'
<1>1. Trouble => /\ troubles' \in Nat /\ asks + troubles' <= MaxStirring + 1
                 /\ troubles' <= MaxStirring
  BY CouncilAssumption DEF Trouble, Counted
<1>2. Advance \in Member \cup {Advance} /\ Planner \subseteq Member /\ Synth \in Member
  BY DEF Member
<1>3. \A c, a : CommitCouncil(c, a) => queueStopped' \in BOOLEAN
  BY DEF CommitCouncil, Counted
<1>4. CASE startPlanCouncil
  BY <1>4, CouncilAssumption DEF startPlanCouncil, Counted
<1>5. ASSUME NEW p \in Member, TurnErrs(p) \/ TurnEnds(p) \/ DrainTurn(p) PROVE Counted'
  BY <1>1, <1>5 DEF TurnErrs, TurnEnds, DrainTurn, Counted
<1>6. ASSUME NEW s \in Asking, SubmitToCouncil(s) PROVE Counted'
  BY <1>6, CouncilAssumption DEF SubmitToCouncil, Counted
<1>7. CASE CompleteTurn \/ FormerTurnEnds
  BY <1>1, <1>7 DEF CompleteTurn, FormerTurnEnds, Counted
<1>8. CASE PhaseReplayed
  BY <1>2, <1>3, <1>8 DEF PhaseReplayed, Counted
<1>9. CASE PhaseAnswered
  BY <1>2, <1>3, <1>9, ToldTyped DEF PhaseAnswered, Counted
<1>10. CASE PhaseRefused
  BY <1>2, <1>10 DEF PhaseRefused, Refuses, Counted
<1>11. CASE PhaseOpens \/ OthersOpen \/ OthersCommit
  BY <1>11 DEF PhaseOpens, OthersOpen, OthersCommit, Counted
<1>12. CASE PhaseBreaks
  <2>1. Comes("phase") /\ Tells(Head(steps)) /\ UNCHANGED <<strayed, asks>>
    BY <1>12 DEF PhaseBreaks
  <2>2. queueStopped' \in BOOLEAN
    BY <1>3, <1>12 DEF PhaseBreaks
  <2>3. troubles' = troubles \/ Trouble
    BY <1>12 DEF PhaseBreaks
  <2> QED
    BY <1>1, <2>1, <2>2, <2>3, ToldTyped DEF Counted
<1>13. CASE Settles
  <2>1. CASE awaiting.kind = "start"
    BY <1>13, <2>1 DEF Settles, Counted
  <2>2. CASE awaiting.kind = "phase"
    <3>1. awaiting # Shut
      BY <2>2 DEF Shut
    <3>2. steps # <<>> /\ Head(steps).kind = "phase"
      BY <2>2, <3>1, NowIs DEF Waiting, Linked
    <3>3. Head(steps).of \in Gated /\ Head(steps).gen \in Nat
      BY <3>2, NowIs, StepKinds DEF Chain, Opener, Request
    <3>4. answered' \subseteq Gated \X Nat
      BY <1>13, <2>2, <3>3 DEF Settles, Tells, Counted
    <3> QED
      BY <1>3, <1>13, <2>2, <3>4 DEF Settles, Counted
  <2> QED
    BY <1>13, <2>1, <2>2 DEF Settles
<1>14. CASE RollsBack
  BY <1>1, <1>2, <1>14 DEF RollsBack, Counted
<1>15. CASE stopPlanCouncil \/ KillMember \/ VerifierJoins
  BY <1>3, <1>15 DEF stopPlanCouncil, KillMember, VerifierJoins, Counted
<1>16. CASE cmdRetryPlanCouncilParticipant \/ PatchRefused
  BY <1>1, <1>3, <1>16 DEF cmdRetryPlanCouncilParticipant, PatchRefused, Refuses, Counted
<1>17. CASE commitPlanCouncilPatch
  <2>1. Head(steps).who \in Member
    BY <1>17, NowIs, StepKinds DEF commitPlanCouncilPatch, Comes, Chain
  <2>2. strayed' \subseteq Member \cup {Advance}
    BY <1>2, <1>17, <2>1 DEF commitPlanCouncilPatch, Counted
  <2>3. troubles' = troubles \/ Trouble
    BY <1>17 DEF commitPlanCouncilPatch
  <2> QED
    BY <1>1, <1>17, <2>2, <2>3 DEF commitPlanCouncilPatch, Counted
<1>18. CASE KillAllTurns \/ RestartCouncil
  BY <1>1, <1>2, <1>18 DEF KillAllTurns, RestartCouncil, Counted
<1>19. CASE UNCHANGED councilVars
  BY <1>19 DEF councilVars, Counted
<1> QED
  BY <1>4, <1>5, <1>6, <1>7, <1>8, <1>9, <1>10, <1>11, <1>12, <1>13, <1>14, <1>15, <1>16, <1>17,
     <1>18, <1>19 DEF CouncilNext

\* What a council keeps has its type: phases, barriers of which only members arrive, and a
\* blocked council that comes from a phase that was under way.
THEOREM CouncilTyped == CouncilSpec => []CouncilTypeOK
<1>1. CouncilInit => NowRight /\ Fresh /\ Counted
  <2>1. CouncilInit => Counted
    <3>1. CouncilInit => asks = 0 /\ troubles = 0 /\ answered = {} /\ strayed = {} /\ queueStopped = FALSE
      BY DEF CouncilInit
    <3>2. CouncilInit => /\ asks + troubles <= MaxStirring + 1 /\ troubles <= MaxStirring
                         /\ asks \in Nat /\ troubles \in Nat
      BY <3>1, CouncilAssumption
    <3>3. CouncilInit => queueStopped \in BOOLEAN
      BY <3>1
    <3>4. CouncilInit => answered \subseteq Gated \X Nat /\ strayed \subseteq Member \cup {Advance}
      BY <3>1
    <3> QED
      BY <3>2, <3>3, <3>4 DEF Counted
  <2> QED
    BY <2>1, InitRight
<1>2. NowRight /\ Fresh /\ Counted /\ [CouncilNext]_councilVars => (NowRight /\ Fresh /\ Counted)'
  <2>1. ASSUME NowRight, Fresh, Counted, CouncilNext
        PROVE  NowRight' /\ Fresh' /\ Counted'
    BY <2>1, NowStep, FreshStep, CountedStep
  <2>2. ASSUME NowRight, Fresh, Counted, UNCHANGED councilVars
        PROVE  NowRight' /\ Fresh' /\ Counted'
    BY <2>2 DEF councilVars, NowRight, Fresh, Counted
  <2> QED
    BY <2>1, <2>2
<1>3. NowRight /\ Counted => CouncilTypeOK
  <2> SUFFICES ASSUME NowRight, Counted PROVE CouncilTypeOK
    OBVIOUS
  <2>1. council \in Paper /\ agent \in Crew /\ Within(council)
    BY NowIs DEF Plan
  <2>2. council.phase \in Over \cup ActivePhase \cup {ReadyFor[k] : k \in Gated} \cup {"blocked"}
    BY <2>1, Places DEF Paper, Phase, Underway, ActivePhase
  <2>3. council.from \in ActivePhase \cup {ReadyFor[k] : k \in Gated} \cup {"none"}
    BY <2>1, Places DEF Paper, Origin, Underway, ActivePhase
  <2>4. ASSUME NEW k \in ArtifactKind
        PROVE  LET b == council.barrier[k]
               IN /\ b.gen \in Nat /\ b.in \subseteq b.who /\ b.who \subseteq Member
                  /\ b.status \in {"none", "pending", "released", "cancelled"}
    BY <2>1 DEF Paper, Gates, Gate, Status, Within
  <2>5. awaiting.kind \in {"none", "start", "phase", "other"}
    BY NowIs DEF Waiting, Suspended, Shut
  <2>6. {asks, troubles} \subseteq 0 .. MaxStirring + 1
    BY CouncilAssumption DEF Counted
  <2> QED
    BY <2>1, <2>2, <2>3, <2>4, <2>5, <2>6
       DEF Counted, CouncilTypeOK, Paper, Line, Wants, Numbers, Works, Crew, Mate, Duty
<1> QED
  BY <1>1, <1>2, <1>3, PTL DEF CouncilSpec

=============================================================================
