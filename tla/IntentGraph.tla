---------------------------- MODULE IntentGraph ----------------------------
(***************************************************************************)
(* Who is in which cluster, who is its Master, which session activates     *)
(* which (clusterControlRuntime.ts, subscriptionAuthoring.ts), and the      *)
(* static check that every subscription on a cycle of activations carries  *)
(* a cap (static-check.ts), with what the log makes of the clusters         *)
(* (fold.ts).                                                              *)
(*                                                                         *)
(* Left out: timers and external sources, which no session activates and   *)
(* which are on no cycle, and subscriptions that create sessions, which    *)
(* have no target yet; stop conditions other than the cap (maxFirings);    *)
(* labels, freezes and loop policies.                                      *)
(***************************************************************************)
EXTENDS Naturals, Sequences, FiniteSets, SequencesExt

CONSTANTS Peer,      \* sessions
          Founder,   \* those that exist from the start
          Cluster,
          Drawn,     \* the cluster all of them are in at the start
          Edge,      \* subscriptions, by id
          Nobody,    \* no session, no cluster
          Wish,      \* what an author asks for: gate ("none": not said), cap (0: none), activates
          MaxEdit    \* bound: commands that change something

ASSUME IntentAssumption ==
  /\ Founder \subseteq Peer /\ Drawn \in Cluster /\ Peer \cap Cluster = {} /\ Nobody \notin Peer \cup Cluster
  /\ IsFiniteSet(Peer) /\ MaxEdit \in Nat
  /\ Wish \subseteq [gate : {"none", "auto", "master", "human"}, cap : Nat, activates : BOOLEAN]

VARIABLES
  born,      \* sessions that exist
  rank,      \* worker or master
  home,      \* node.clusterId
  clusters,  \* nodeIds and masterSessionId of each cluster that exists
  subs,      \* subscriptions
  scopes,    \* fold(Log): members and Master of each scope
  regrouped, \* history: the clusters changed since the last static check
  drift,     \* history: clusters the fold has wrong, see Strays and Mistaken
  usurped,   \* history: clusters whose Master was taken away without such an event
  edits      \* history: what was used of MaxEdit

intentVars == <<born, rank, home, clusters, subs, scopes, regrouped, drift, usurped, edits>>

NoSub == [source |-> Nobody, target |-> Nobody, gate |-> "none", cap |-> 0,
          activates |-> FALSE, active |-> FALSE]
defaultCycleMaxFirings == 6

\* f, with x for each of keys.
Adding(f, keys, x) == [k \in DOMAIN f \cup keys |-> IF k \in keys THEN x ELSE f[k]]

-----------------------------------------------------------------------------
\* The static check.

\* kernelView, intentEdges: the activating edges among sessions; a Master is no member.
MembersOf(c) == IF c \in DOMAIN clusters THEN clusters[c].in \ {clusters[c].master} ELSE {}
SourcesOf(s) == IF s.source \in Cluster THEN MembersOf(s.source) ELSE {s.source}
intentEdges(ss) ==
  UNION {{[of |-> e, from |-> n, to |-> ss[e].target] : n \in Peer \cap SourcesOf(ss[e])} :
           e \in {x \in Edge : ss[x].active /\ ss[x].activates}}

\* stronglyConnectedComponents: Tarjan's algorithm with a stack of frames, step by step, in
\* some order of the nodes and of the neighbours of each.
Enters(t, n, next) ==
  LET k == Cardinality(DOMAIN t.index)
  IN  [index |-> Adding(t.index, {n}, k), low |-> Adding(t.low, {n}, k), of |-> t.of,
       stack |-> Append(t.stack, n), work |-> Append(t.work, [node |-> n, left |-> next[n]])]
Lowers(t, n, k) == [t EXCEPT !.low[n] = IF k < @ THEN k ELSE @]
Explores(t, n, m, next) ==
  LET moved == [t EXCEPT !.work[Len(t.work)].left = @ \ {m}]
  IN  IF m \notin DOMAIN t.index THEN Enters(moved, m, next)
      ELSE IF m \in ToSet(t.stack) THEN Lowers(moved, n, t.index[m]) ELSE moved
Returns(t, n) ==
  LET popped == [t EXCEPT !.work = Front(@)]
      told == IF popped.work = <<>> THEN popped
              ELSE Lowers(popped, Last(popped.work).node, t.low[n])
      i == CHOOSE j \in DOMAIN t.stack : t.stack[j] = n
  IN  IF t.low[n] # t.index[n] THEN told
      ELSE [told EXCEPT !.stack = SubSeq(@, 1, i - 1),
                        !.of = Adding(@, ToSet(SubSeq(t.stack, i, Len(t.stack))), n)]
Step(t, next) ==
  LET frame == Last(t.work)
      some(ns) == CHOOSE n \in ns : TRUE
      fresh == DOMAIN next \ DOMAIN t.index
  IN  IF t.work # <<>>
      THEN IF frame.left # {} THEN Explores(t, frame.node, some(frame.left), next)
           ELSE Returns(t, frame.node)
      ELSE IF fresh # {} THEN Enters(t, some(fresh), next) ELSE t

\* Each node is entered once and left once, and from each a node is looked at once at most:
\* after so many steps the algorithm is at its end, where a step changes nothing.
TarjanSteps(nodes) == Cardinality(nodes) * (Cardinality(nodes) + 2)

NodesOf(edges) == {x.from : x \in edges} \cup {x.to : x \in edges}
ComponentOf(edges) ==
  LET next == [n \in NodesOf(edges) |-> {x.to : x \in {y \in edges : y.from = n}}]
      t[k \in 0 .. TarjanSteps(NodesOf(edges))] ==
        IF k = 0 THEN [index |-> <<>>, low |-> <<>>, of |-> <<>>, stack |-> <<>>, work |-> <<>>]
        ELSE Step(t[k - 1], next)
  IN  t[TarjanSteps(NodesOf(edges))].of

\* Both ends in one component, which has another node or a loop.
OnCycle(edges) ==
  LET of == ComponentOf(edges)
  IN  {x \in edges : /\ of[x.from] = of[x.to]
                     /\ x.from = x.to \/ \E n \in DOMAIN of \ {x.from} : of[n] = of[x.from]}
cyclicIds(ss) == {x.of : x \in OnCycle(intentEdges(ss))}
isGuarded(s) == s.cap # 0 \/ s.gate # "auto"
\* The edges of cycles without any guard.
Violations(ss) == OnCycle({x \in OnCycle(intentEdges(ss)) : ~isGuarded(ss[x.of])})

-----------------------------------------------------------------------------
\* Commands.  Each runs alone and commits as a whole.

Edit == edits < MaxEdit /\ edits' = edits + 1

IntentInit ==
  /\ born = Founder /\ rank = [s \in Peer |-> "worker"] /\ subs = [e \in Edge |-> NoSub]
  /\ home = [s \in Peer |-> IF s \in Founder THEN Drawn ELSE Nobody]
  /\ clusters = [c \in {Drawn} |-> [in |-> Founder, master |-> Nobody]] /\ scopes = clusters
  /\ regrouped = FALSE /\ drift = {} /\ usurped = {} /\ edits = 0

\* An id in use, or a new one.
Ids == LET unused == {e \in Edge : subs[e] = NoSub}
       IN  (Edge \ unused) \cup (IF unused = {} THEN {} ELSE {CHOOSE e \in unused : TRUE})

\* The static check caps the subscription that is authored, and no other.
cmdAuthorCappingItself(e, source, target, wish) ==
  /\ Edit /\ e \in Ids
  /\ target \in born /\ source \in born \cup DOMAIN clusters
  /\ LET asked == [subs EXCEPT ![e] = [source |-> source, target |-> target, gate |-> wish.gate,
                                       cap |-> wish.cap, activates |-> wish.activates, active |-> TRUE]]
         cyclic == cyclicIds(asked)
         gate == IF wish.gate # "none" THEN wish.gate ELSE IF e \in cyclic THEN "master" ELSE "auto"
         capped == IF e \in cyclic /\ wish.cap = 0 THEN defaultCycleMaxFirings ELSE wish.cap
         authored == [asked EXCEPT ![e].gate = gate, ![e].cap = capped]
     IN  Violations(authored) = {} /\ subs' = authored
  /\ regrouped' = FALSE
  /\ UNCHANGED <<born, rank, home, clusters, scopes, drift, usurped>>

\* The subscription replaces one of its id.  What is on a cycle now and has no cap gets one,
\* whoever authored it.
cmdAuthorSubscription(e, source, target, wish) ==
  /\ Edit /\ e \in Ids
  /\ target \in born /\ source \in born \cup DOMAIN clusters
  /\ LET asked == [subs EXCEPT ![e] = [source |-> source, target |-> target, gate |-> wish.gate,
                                       cap |-> wish.cap, activates |-> wish.activates, active |-> TRUE]]
         cyclic == cyclicIds(asked)
         gate == IF wish.gate # "none" THEN wish.gate ELSE IF e \in cyclic THEN "master" ELSE "auto"
         guarded == [x \in Edge |->
                       IF x \in cyclic /\ asked[x].cap = 0
                       THEN [asked[x] EXCEPT !.cap = defaultCycleMaxFirings] ELSE asked[x]]
         authored == [guarded EXCEPT ![e].gate = gate]
     IN  Violations(authored) = {} /\ subs' = authored
  /\ regrouped' = FALSE
  /\ UNCHANGED <<born, rank, home, clusters, scopes, drift, usurped>>

cmdStopSubscription(e) ==
  /\ Edit
  /\ subs[e].active
  /\ subs' = [subs EXCEPT ![e].active = FALSE]
  /\ UNCHANGED <<born, rank, home, clusters, scopes, regrouped, drift, usurped>>

Ensured(c) == IF c \in DOMAIN clusters THEN clusters ELSE Adding(clusters, {c}, [in |-> {}, master |-> Nobody])
LeavingOthers(cs, c, gone) == [d \in DOMAIN cs |-> IF d = c THEN cs[d] ELSE [cs[d] EXCEPT !.in = @ \ gone]]
\* Clusters other than c that lose a member: scope.upserted and role.assigned name c only.
Strays(c, who) == {d \in DOMAIN clusters \ {c} : clusters[d].in \cap who # {}}

\* fold: scope.upserted keeps the Master it knows, which is no member.
ScopeUpserted(c, who) ==
  LET master == IF c \in DOMAIN scopes THEN scopes[c].master ELSE Nobody
  IN  [in |-> who \ {master}, master |-> master]
\* fold: role.assigned.
RoleAssigned(c, s) ==
  [in |-> IF c \in DOMAIN scopes THEN scopes[c].in \ {s} ELSE {}, master |-> s]
Logged(c, scope) == Adding(scopes, {c}, scope)

\* The log leaves out of c whom it still takes for its Master.
Mistaken(c, who) == IF c \in DOMAIN scopes /\ scopes[c].master \in who THEN {c} ELSE {}

\* Masters are dropped from what is asked for.
cmdUpsertCluster(c, asked) ==
  /\ Edit
  /\ LET who == {s \in asked \cap born : rank[s] # "master"}
     IN  /\ who # {}
         /\ clusters' = LeavingOthers([Ensured(c) EXCEPT ![c].in = who], c, who)
         /\ home' = [s \in Peer |->
                       IF s \in who \/ s = Ensured(c)[c].master THEN c
                       ELSE IF home[s] = c THEN Nobody ELSE home[s]]
         /\ scopes' = Logged(c, ScopeUpserted(c, who))
         /\ drift' = (drift \ {c}) \cup Strays(c, who) \cup Mistaken(c, who)
  /\ regrouped' = TRUE
  /\ UNCHANGED <<born, rank, subs, usurped>>

\* assignMaster over the clusters cs, roles rs and homes hs of the command so far.
Assigns(c, s, cs, rs, hs) ==
  LET next == [d \in DOMAIN cs |->
                 [in |-> cs[d].in \ {s},
                  master |-> IF d = c THEN s ELSE IF cs[d].master = s THEN Nobody ELSE cs[d].master]]
      \* The Master it had, and any other of that role in the cluster, are what they still are.
      stale == ({cs[c].master} \cup {x \in Peer : hs[x] = c /\ rs[x] = "master"}) \ {s, Nobody}
      masters(x) == {d \in DOMAIN next : next[d].master = x}
      manages(x) == {d \in DOMAIN next : x \in next[d].in}
      first(ds) == IF ds = {} THEN Nobody ELSE CHOOSE d \in ds : TRUE
  IN  /\ clusters' = next
      /\ rank' = [x \in Peer |-> IF x = s THEN "master"
                                 ELSE IF x \notin stale THEN rs[x]
                                 ELSE IF masters(x) # {} THEN "master" ELSE "worker"]
      /\ home' = [x \in Peer |-> IF x = s THEN c
                                 ELSE IF x \notin stale THEN hs[x]
                                 ELSE first(IF masters(x) # {} THEN masters(x) ELSE manages(x))]
      /\ IF cs[c].master = s THEN UNCHANGED <<scopes, drift, usurped>>
         ELSE /\ scopes' = Logged(c, RoleAssigned(c, s))
              /\ drift' = drift \cup Strays(c, {s})
              /\ usurped' = (usurped \ {c}) \cup {d \in DOMAIN cs \ {c} : cs[d].master = s}

cmdAssignMaster(c, s) ==
  /\ Edit
  /\ c \in DOMAIN clusters /\ s \in born
  /\ Assigns(c, s, clusters, rank, home)
  /\ regrouped' = TRUE
  /\ UNCHANGED <<born, subs>>

\* The Master the cluster has is assigned again; else a session is created for it.
cmdCreateMasterForCluster(c, s) ==
  /\ Edit
  /\ c \in DOMAIN clusters
  /\ IF clusters[c].master # Nobody THEN s = clusters[c].master /\ UNCHANGED born
     ELSE s \notin born /\ born' = born \cup {s}
  /\ Assigns(c, s, clusters, [rank EXCEPT ![s] = "master"], [home EXCEPT ![s] = c])
  /\ regrouped' = TRUE
  /\ UNCHANGED subs

\* session.created says nothing of a scope.
cmdCreateSession(s, r, c) ==
  /\ Edit
  /\ s \notin born /\ born' = born \cup {s}
  /\ rank' = [rank EXCEPT ![s] = r] /\ home' = [home EXCEPT ![s] = c]
  /\ IF c = Nobody THEN UNCHANGED <<clusters, drift, regrouped>>
     ELSE /\ clusters' = IF r = "master" THEN Ensured(c) ELSE [Ensured(c) EXCEPT ![c].in = @ \cup {s}]
          /\ drift' = IF r = "master" THEN drift ELSE drift \cup {c}
          /\ regrouped' = TRUE
  /\ UNCHANGED <<subs, scopes, usurped>>

IntentNext ==
  \/ \E e \in Edge, source \in Peer \cup Cluster, target \in Peer, wish \in Wish :
       cmdAuthorSubscription(e, source, target, wish)
  \/ \E e \in Edge : cmdStopSubscription(e)
  \/ \E c \in Cluster :
       \/ \E asked \in SUBSET Peer : cmdUpsertCluster(c, asked)
       \/ \E s \in Peer : cmdAssignMaster(c, s) \/ cmdCreateMasterForCluster(c, s)
  \/ \E s \in Peer, r \in {"worker", "master"}, c \in Cluster \cup {Nobody} : cmdCreateSession(s, r, c)

IntentSpec == IntentInit /\ [][IntentNext]_intentVars

-----------------------------------------------------------------------------

IntentTypeOK ==
  /\ born \subseteq Peer /\ rank \in [Peer -> {"worker", "master"}]
  /\ home \in [Peer -> Cluster \cup {Nobody}]
  /\ DOMAIN clusters \subseteq Cluster /\ DOMAIN scopes \subseteq Cluster
  /\ \A e \in Edge : subs[e].cap \in Nat /\ (subs[e].active => subs[e].target \in born)
  /\ drift \subseteq Cluster /\ usurped \subseteq Cluster

\* Sessions that those of `from' can activate, in any number of steps.
SealedBy(ns, edges) == \A x \in edges : x.from \in ns => x.to \in ns
Reaches(from, edges) ==
  {n \in NodesOf(edges) : \A ns \in SUBSET NodesOf(edges) : from \subseteq ns /\ SealedBy(ns, edges) => n \in ns}
Cyclic(edges) == {x \in edges : x.from \in Reaches({x.to}, edges)}

\* An unguarded loop is not legal: unless the clusters changed since the last subscription was
\* authored (nothing checks them then), each active subscription that lies on a cycle of
\* activations, through clusters too, has a cap, whenever and by whom it was authored.
CyclesCapped ==
  ~regrouped => \A x \in Cyclic(intentEdges(subs)) : subs[x.of].cap # 0

\* What the canvas shows (clusterId), the clusters and the roles agree: a session is a member of
\* one cluster at most, a Master of one at most and a member of none, and a worker is shown in
\* the cluster it is a member of.
HomesAgree ==
  /\ \A c, d \in DOMAIN clusters :
       c # d => /\ clusters[c].in \cap clusters[d].in = {}
                /\ clusters[c].master = clusters[d].master => clusters[c].master = Nobody
  /\ \A c \in DOMAIN clusters :
       /\ \A s \in clusters[c].in : rank[s] = "worker" /\ home[s] = c
       /\ clusters[c].master # Nobody => rank[clusters[c].master] = "master" /\ home[clusters[c].master] = c
  /\ \A s \in Peer : rank[s] = "worker" /\ home[s] # Nobody => s \in clusters[home[s]].in

\* The fold of the log knows the clusters, but for what no event told it.
ScopesAreFold ==
  \A c \in DOMAIN clusters :
    c \notin usurped =>
      /\ (IF c \in DOMAIN scopes THEN scopes[c].master ELSE Nobody) = clusters[c].master
      /\ c \notin drift => MembersOf(c) = IF c \in DOMAIN scopes THEN scopes[c].in ELSE {}

\* The graph of a runtime, its clusters and the log agree.
GraphKept == CyclesCapped /\ HomesAgree /\ ScopesAreFold
=============================================================================
