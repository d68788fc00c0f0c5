--------------------------- MODULE DeliveryProofs ---------------------------
(***************************************************************************)
(* Proofs about what is delivered, for every bound.                         *)
(*                                                                         *)
(* To a client (ClientSync): its view shows the live transcript once all    *)
(* that is under way has arrived.  The invariant is Follows: what the view  *)
(* shows, what the wire carries and what the server holds back are one way  *)
(* to the live text, from the view or, after a slip, from a state on the    *)
(* wire that covers it.                                                     *)
(*                                                                         *)
(* To a session (ContextChannel): nothing is missed.  The invariant is      *)
(* Balanced: the books of the inbox as the last command left it (Sound),    *)
(* and what an open command has done to it since (Open).                    *)
(***************************************************************************)
EXTENDS ClientSync, ContextChannel, FiniteSetTheorems, SequenceTheorems, WellFoundedInduction, TLAPS

------------------------------------------------------------------------------
(* The client.                                                              *)

Transcript == [text : Seq(1..MaxDelta), version : Nat, at : Nat, loaded : BOOLEAN]
Delta == [id : 1..MaxDelta, ts : Nat]

(* A text is the beginning of another, and a batch is what comes next in it.*)
Begins(t, T) == Len(t) <= Len(T) /\ \A i \in 1..Len(t) : t[i] = T[i]
ComesNext(n, b, T) == n + Len(b) <= Len(T) /\ \A j \in 1..Len(b) : T[n + j] = b[j].id
Rising(T) == \A i, j \in 1..Len(T) : i < j => T[i] < T[j]

(* Induction: a set of numbers has a least one.                             *)
LEMMA LeastNumber ==
  ASSUME NEW T, T \subseteq Nat, T # {}
  PROVE  \E x \in T : \A y \in T : x <= y
<1> DEFINE R == OpToRel(<, Nat)
<1>1. IsWellFoundedOn(R, Nat)
  BY NatLessThanWellFounded
<1>2. \A a, b \in Nat : a < b => <<a, b>> \in R
  BY DEF OpToRel
<1> HIDE DEF R
<1>3. PICK x \in T : \A y \in T : ~(<<y, x>> \in R)
  BY <1>1, WFMin
<1>4. ASSUME NEW y \in T PROVE x <= y
  <2>1. ~(y < x)
    BY <1>2, <1>3
  <2> QED BY <2>1
<1> QED BY <1>4

(* What the client shows after each event of a batch.                       *)
Shows(g, n, state, batch) ==
  g = [i \in 0..n |-> IF i = 0 THEN state ELSE applyDelta(g[i - 1], batch[i])]

(* One more event can be shown.                                            *)
LEMMA ShowsMore ==
  ASSUME NEW state, NEW batch, NEW n \in Nat, n # 0, NEW g, Shows(g, n - 1, state, batch)
  PROVE  \E h : Shows(h, n, state, batch)
<1> DEFINE h == [i \in 0..n |-> IF i = n THEN applyDelta(g[n - 1], batch[n]) ELSE g[i]]
<1>1. g = [i \in 0..(n - 1) |-> IF i = 0 THEN state ELSE applyDelta(g[i - 1], batch[i])]
  BY DEF Shows
<1>2. ASSUME NEW i \in 0..n
      PROVE  h[i] = IF i = 0 THEN state ELSE applyDelta(h[i - 1], batch[i])
  <2>1. CASE i = n
    <3>1. h[i] = applyDelta(g[n - 1], batch[n])
      BY <2>1
    <3>2. h[i - 1] = g[n - 1]
      BY <2>1
    <3> QED BY <2>1, <3>1, <3>2
  <2>2. CASE i # n /\ i = 0
    <3>1. h[i] = g[0]
      BY <2>2
    <3>2. g[0] = state
      BY <1>1
    <3> QED BY <2>2, <3>1, <3>2
  <2>3. CASE i # n /\ i # 0
    <3>1. h[i] = g[i] /\ h[i - 1] = g[i - 1]
      BY <2>3
    <3>2. g[i] = applyDelta(g[i - 1], batch[i])
      <4>1. i \in 0..(n - 1)
        BY <2>3
      <4> QED BY <1>1, <2>3, <4>1
    <3> QED BY <2>3, <3>1, <3>2
  <2> QED BY <2>1, <2>2, <2>3
<1>3. h = [i \in 0..n |-> h[i]]
  OBVIOUS
<1> HIDE DEF h
<1>4. h = [i \in 0..n |-> IF i = 0 THEN state ELSE applyDelta(h[i - 1], batch[i])]
  BY <1>2, <1>3
<1> QED BY <1>4 DEF Shows

(* Any number of events can be shown.                                      *)
LEMMA ShowsExists ==
  ASSUME NEW state, NEW batch, NEW n \in Nat
  PROVE  \E g : Shows(g, n, state, batch)
<1> DEFINE T == {m \in Nat : ~ \E g : Shows(g, m, state, batch)}
<1>0. T \subseteq Nat /\ \A m : m \in T <=> m \in Nat /\ ~ \E g : Shows(g, m, state, batch)
  OBVIOUS
<1> HIDE DEF T
<1> SUFFICES ASSUME T # {} PROVE FALSE
  BY <1>0
<1>1. PICK m \in T : \A k \in T : m <= k
  BY <1>0, LeastNumber
<1>2. m \in Nat
  BY <1>0
<1>3. CASE m = 0
  <2> DEFINE g == [i \in 0..0 |-> state]
  <2>1. g = [i \in 0..0 |-> IF i = 0 THEN state ELSE applyDelta(g[i - 1], batch[i])]
    OBVIOUS
  <2> HIDE DEF g
  <2>2. Shows(g, 0, state, batch)
    BY <2>1 DEF Shows
  <2> QED BY <1>0, <1>3, <2>2
<1>4. CASE m # 0
  <2>1. m - 1 \in Nat /\ ~(m <= m - 1)
    BY <1>2, <1>4
  <2>2. m - 1 \notin T
    BY <1>1, <2>1
  <2>3. PICK g : Shows(g, m - 1, state, batch)
    BY <1>0, <2>1, <2>2
  <2>4. \E h : Shows(h, m, state, batch)
    BY <1>2, <1>4, <2>3, ShowsMore
  <2> QED BY <1>0, <2>4
<1> QED BY <1>3, <1>4

(* What is rendered is what is shown after the last event of the batch.    *)
LEMMA RenderedIs ==
  ASSUME NEW state, NEW batch, Len(batch) \in Nat
  PROVE  \E g : Shows(g, Len(batch), state, batch) /\ applyStreamEvents(state, batch) = g[Len(batch)]
<1> DEFINE g == CHOOSE g : Shows(g, Len(batch), state, batch)
<1>1. Shows(g, Len(batch), state, batch)
  BY ShowsExists
<1>2. applyStreamEvents(state, batch) = g[Len(batch)]
  BY Zenon DEF applyStreamEvents, Shows
<1> QED BY <1>1, <1>2

(* One event.                                                               *)
LEMMA DeltaApplied ==
  ASSUME NEW s \in Transcript, NEW d \in Delta
  PROVE  /\ applyDelta(s, d) \in Transcript
         /\ applyDelta(s, d).version = s.version
         /\ applyDelta(s, d).loaded = s.loaded
         /\ \A x \in Nat : s.at <= x /\ d.ts <= x => applyDelta(s, d).at <= x
<1>1. CASE ~ s.loaded \/ (s.text # <<>> /\ Last(s.text) = d.id)
  BY <1>1 DEF applyDelta
<1>2. CASE ~ (~ s.loaded \/ (s.text # <<>> /\ Last(s.text) = d.id))
  <2>1. applyDelta(s, d) = [s EXCEPT !.text = Append(@, d.id), !.at = IF d.ts > @ THEN d.ts ELSE @]
    BY <1>2 DEF applyDelta
  <2>2. Append(s.text, d.id) \in Seq(1..MaxDelta)
    BY DEF Transcript, Delta
  <2> QED BY <2>1, <2>2 DEF Transcript, Delta
<1> QED BY <1>1, <1>2

(* The delta that comes next in the text is added to what is shown.        *)
LEMMA DeltaShown ==
  ASSUME NEW s \in Transcript, NEW d \in Delta, NEW T \in Seq(1..MaxDelta), Rising(T),
         s.loaded, Begins(s.text, T), Len(s.text) + 1 <= Len(T), T[Len(s.text) + 1] = d.id
  PROVE  /\ Begins(applyDelta(s, d).text, T)
         /\ Len(applyDelta(s, d).text) = Len(s.text) + 1
<1> USE SyncAssumption
<1>1. s.text \in Seq(1..MaxDelta) /\ Len(s.text) \in Nat /\ Len(T) \in Nat
  BY DEF Transcript
<1>2. ~ (s.text # <<>> /\ Last(s.text) = d.id)
  <2> SUFFICES ASSUME s.text # <<>>, Last(s.text) = d.id PROVE FALSE
    OBVIOUS
  <2>1. Len(s.text) \in 1..Len(s.text)
    BY <1>1
  <2>2. s.text[Len(s.text)] = T[Len(s.text)]
    BY <2>1 DEF Begins
  <2>3. Len(s.text) \in 1..Len(T) /\ Len(s.text) + 1 \in 1..Len(T)
    BY <1>1, <2>1
  <2>4. T[Len(s.text)] < T[Len(s.text) + 1]
    BY <1>1, <2>3 DEF Rising
  <2>5. T[Len(s.text)] \in 1..MaxDelta
    BY <2>3
  <2> QED BY <2>2, <2>4, <2>5 DEF Last
<1>3. applyDelta(s, d).text = Append(s.text, d.id)
  BY <1>2 DEF applyDelta, Transcript
<1> DEFINE t == Append(s.text, d.id)
<1>4. \A i \in 1..(Len(s.text) + 1) : t[i] = T[i]
  <2>1. /\ \A i \in 1..Len(s.text) : t[i] = s.text[i]
        /\ t[Len(s.text) + 1] = d.id
    BY <1>1
  <2>2. \A i \in 1..Len(s.text) : s.text[i] = T[i]
    BY DEF Begins
  <2>3. \A i \in 1..(Len(s.text) + 1) : i \in 1..Len(s.text) \/ i = Len(s.text) + 1
    BY <1>1
  <2> HIDE DEF t
  <2> QED BY <2>1, <2>2, <2>3
<1>5. Len(t) = Len(s.text) + 1
  BY <1>1 DEF Delta
<1> HIDE DEF t
<1>6. Begins(t, T)
  BY <1>1, <1>4, <1>5 DEF Begins
<1> QED BY <1>3, <1>5, <1>6 DEF t

(* A batch.                                                                 *)
LEMMA BatchApplied ==
  ASSUME NEW s \in Transcript, NEW batch \in Seq(Delta)
  PROVE  /\ applyStreamEvents(s, batch) \in Transcript
         /\ applyStreamEvents(s, batch).version = s.version
         /\ applyStreamEvents(s, batch).loaded = s.loaded
         /\ \A x \in Nat : s.at <= x /\ (\A k \in 1..Len(batch) : batch[k].ts <= x)
              => applyStreamEvents(s, batch).at <= x
<1>1. PICK g : Shows(g, Len(batch), s, batch) /\ applyStreamEvents(s, batch) = g[Len(batch)]
  BY RenderedIs
<1> DEFINE P(v) == /\ v \in Transcript /\ v.version = s.version /\ v.loaded = s.loaded
                   /\ \A x \in Nat : s.at <= x /\ (\A k \in 1..Len(batch) : batch[k].ts <= x) => v.at <= x
           T == {i \in 0..Len(batch) : ~ P(g[i])}
<1>2. P(s)
  OBVIOUS
<1>3. ASSUME NEW v, NEW k \in 1..Len(batch), P(v) PROVE P(applyDelta(v, batch[k]))
  <2>1. batch[k] \in Delta /\ v \in Transcript
    BY <1>3
  <2>2. /\ applyDelta(v, batch[k]) \in Transcript
        /\ applyDelta(v, batch[k]).version = v.version
        /\ applyDelta(v, batch[k]).loaded = v.loaded
        /\ \A x \in Nat : v.at <= x /\ batch[k].ts <= x => applyDelta(v, batch[k]).at <= x
    BY <2>1, DeltaApplied
  <2> QED BY <1>3, <2>2
<1>4. T \subseteq Nat /\ \A i : i \in T <=> i \in 0..Len(batch) /\ ~ P(g[i])
  OBVIOUS
<1> HIDE DEF P, T
<1>5. T = {}
  <2> SUFFICES ASSUME T # {} PROVE FALSE
    OBVIOUS
  <2>1. PICK n \in T : \A m \in T : n <= m
    BY <1>4, LeastNumber
  <2>2. n \in 0..Len(batch) /\ ~ P(g[n])
    BY <1>4, <2>1
  <2>3. g[n] = IF n = 0 THEN s ELSE applyDelta(g[n - 1], batch[n])
    BY <1>1, <2>2 DEF Shows
  <2>4. n # 0
    BY <1>2, <2>2, <2>3
  <2>5. n - 1 \in 0..Len(batch) /\ ~(n <= n - 1) /\ n \in 1..Len(batch)
    BY <2>2, <2>4
  <2>6. n - 1 \notin T
    BY <2>1, <2>5
  <2>7. P(g[n - 1])
    BY <1>4, <2>5, <2>6
  <2>8. P(applyDelta(g[n - 1], batch[n]))
    BY <1>3, <2>5, <2>7
  <2> QED BY <2>2, <2>3, <2>4, <2>8
<1>6. P(g[Len(batch)])
  BY <1>4, <1>5
<1> QED BY <1>1, <1>6 DEF P

(* So is a batch that comes next.                                          *)
LEMMA BatchShown ==
  ASSUME NEW s \in Transcript, NEW batch \in Seq(Delta), NEW T \in Seq(1..MaxDelta), Rising(T),
         s.loaded, Begins(s.text, T), ComesNext(Len(s.text), batch, T)
  PROVE  /\ Begins(applyStreamEvents(s, batch).text, T)
         /\ Len(applyStreamEvents(s, batch).text) = Len(s.text) + Len(batch)
<1>1. PICK g : Shows(g, Len(batch), s, batch) /\ applyStreamEvents(s, batch) = g[Len(batch)]
  BY RenderedIs
<1>0. Len(s.text) \in Nat /\ Len(T) \in Nat /\ Len(batch) \in Nat
  BY DEF Transcript
<1> DEFINE P(v, k) == /\ v \in Transcript /\ v.loaded /\ Begins(v.text, T)
                      /\ Len(v.text) = Len(s.text) + k
           N == {i \in 0..Len(batch) : ~ P(g[i], i)}
<1>2. P(s, 0)
  BY <1>0
<1>3. ASSUME NEW v, NEW k \in 1..Len(batch), P(v, k - 1) PROVE P(applyDelta(v, batch[k]), k)
  <2>1. batch[k] \in Delta /\ v \in Transcript
    BY <1>3
  <2>2. Len(v.text) = Len(s.text) + (k - 1) /\ Len(v.text) + 1 = Len(s.text) + k
    BY <1>0, <1>3
  <2>3. Len(v.text) + 1 <= Len(T)
    BY <1>0, <2>2 DEF ComesNext
  <2>4. T[Len(v.text) + 1] = batch[k].id
    BY <2>2 DEF ComesNext
  <2>5. /\ Begins(applyDelta(v, batch[k]).text, T)
        /\ Len(applyDelta(v, batch[k]).text) = Len(v.text) + 1
    BY <1>3, <2>1, <2>3, <2>4, DeltaShown
  <2>6. applyDelta(v, batch[k]) \in Transcript /\ applyDelta(v, batch[k]).loaded = v.loaded
    BY <2>1, DeltaApplied
  <2> QED BY <1>3, <2>2, <2>5, <2>6
<1>4. N \subseteq Nat /\ \A i : i \in N <=> i \in 0..Len(batch) /\ ~ P(g[i], i)
  OBVIOUS
<1> HIDE DEF P, N
<1>5. N = {}
  <2> SUFFICES ASSUME N # {} PROVE FALSE
    OBVIOUS
  <2>1. PICK n \in N : \A m \in N : n <= m
    BY <1>4, LeastNumber
  <2>2. n \in 0..Len(batch) /\ ~ P(g[n], n)
    BY <1>4, <2>1
  <2>3. g[n] = IF n = 0 THEN s ELSE applyDelta(g[n - 1], batch[n])
    BY <1>1, <2>2 DEF Shows
  <2>4. n # 0
    BY <1>2, <2>2, <2>3
  <2>5. n - 1 \in 0..Len(batch) /\ ~(n <= n - 1) /\ n \in 1..Len(batch)
    BY <2>2, <2>4
  <2>6. n - 1 \notin N
    BY <2>1, <2>5
  <2>7. P(g[n - 1], n - 1)
    BY <1>4, <2>5, <2>6
  <2>8. P(applyDelta(g[n - 1], batch[n]), n)
    BY <1>3, <2>5, <2>7
  <2> QED BY <2>2, <2>3, <2>4, <2>8
<1>6. P(g[Len(batch)], Len(batch))
  BY <1>0, <1>4, <1>5
<1> QED BY <1>1, <1>6 DEF P

StreamMessage == [kind : {"stream"}, batch : Seq(Delta)]
StateMessage == [kind : {"state"}, state : Transcript, fresh : BOOLEAN, covers : Nat]
Message == StreamMessage \cup StateMessage

(* A way from the b-th event of the wire: p[i] is how much of the text T a   *)
(* client that follows it from there has when the i-th event is rendered;   *)
(* the batch that is held back completes it.                                *)
Way(w, p, T, b, held) ==
  /\ p \in [b..Len(w) -> Nat]
  /\ \A i, j \in b..Len(w) : i <= j => p[i] <= p[j]
  /\ \A i \in (b + 1)..Len(w) : w[i].kind = "state" => Begins(w[i].state.text, T) /\ p[i] = Len(w[i].state.text)
  /\ \A i \in (b + 1)..Len(w) : w[i].kind = "stream" => ComesNext(p[i - 1], w[i].batch, T) /\ p[i] = p[i - 1] + Len(w[i].batch)
  /\ ComesNext(p[Len(w)], held, T) /\ p[Len(w)] + Len(held) = Len(T)

(* What a message carries.                                                 *)
LEMMA MessageIs ==
  ASSUME NEW m \in Message
  PROVE  /\ m.kind \in {"stream", "state"}
         /\ m.kind = "stream" => m \in StreamMessage /\ m.batch \in Seq(Delta)
         /\ m.kind = "state" => m \in StateMessage /\ m.state \in Transcript /\ m.fresh \in BOOLEAN /\ m.covers \in Nat
BY DEF Message, StreamMessage, StateMessage

(* A message that is sent comes last.                                      *)
LEMMA WireLonger ==
  ASSUME NEW w \in Seq(Message), NEW m \in Message
  PROVE  /\ Append(w, m) \in Seq(Message) /\ Len(w) \in Nat
         /\ Len(Append(w, m)) = Len(w) + 1
         /\ Append(w, m)[Len(w) + 1] = m
         /\ \A i \in 1..Len(w) : Append(w, m)[i] = w[i]
OBVIOUS

(* A message that is taken was the first.                                  *)
LEMMA WireShorter ==
  ASSUME NEW w \in Seq(Message), w # <<>>
  PROVE  /\ Tail(w) \in Seq(Message) /\ Len(w) \in Nat \ {0} /\ Len(Tail(w)) = Len(w) - 1
         /\ \A i \in 1..(Len(w) - 1) : Tail(w)[i] = w[i + 1]
         /\ Head(w) = w[1] /\ w[1] \in Message
OBVIOUS

(* The snapshot with the whole text is put on the wire.                     *)
LEMMA WayPublished ==
  ASSUME NEW w \in Seq(Message), NEW T \in Seq(1..MaxDelta), NEW b \in 0..Len(w), NEW p, NEW held \in Seq(Delta),
         Way(w, p, T, b, held), NEW m \in Message, m.kind = "state", m.state.text = T
  PROVE  \E q : Way(Append(w, m), q, T, b, <<>>) /\ q[b] = p[b]
<1> DEFINE q == [i \in b..(Len(w) + 1) |-> IF i = Len(w) + 1 THEN Len(T) ELSE p[i]]
           v == Append(w, m)
<1>1. /\ v \in Seq(Message) /\ Len(w) \in Nat /\ Len(v) = Len(w) + 1 /\ v[Len(w) + 1] = m
      /\ \A i \in 1..Len(w) : v[i] = w[i]
  BY WireLonger
<1> HIDE DEF v
<1>2. Len(T) \in Nat /\ Len(held) \in Nat /\ Len(<<>>) = 0
  OBVIOUS
<1>3. p \in [b..Len(w) -> Nat] /\ p[Len(w)] <= Len(T)
  <2>1. p \in [b..Len(w) -> Nat] /\ p[Len(w)] + Len(held) = Len(T) /\ Len(w) \in b..Len(w)
    BY <1>1 DEF Way
  <2>2. p[Len(w)] \in Nat
    BY <2>1
  <2> QED BY <1>2, <2>1, <2>2
<1>4. q \in [b..Len(v) -> Nat]
  BY <1>1, <1>2, <1>3
<1>5. \A i \in b..Len(w) : q[i] = p[i] /\ p[i] \in Nat
  BY <1>1, <1>3
<1>6. q[Len(w) + 1] = Len(T)
  BY <1>1
<1> HIDE DEF q
<1>7. \A i, j \in b..Len(v) : i <= j => q[i] <= q[j]
  <2> SUFFICES ASSUME NEW i \in b..Len(v), NEW j \in b..Len(v), i <= j PROVE q[i] <= q[j]
    OBVIOUS
  <2>1. CASE j # Len(w) + 1
    <3>1. i \in b..Len(w) /\ j \in b..Len(w)
      BY <1>1, <2>1
    <3> QED BY <1>5, <3>1 DEF Way
  <2>2. CASE j = Len(w) + 1 /\ i # Len(w) + 1
    <3>1. i \in b..Len(w) /\ Len(w) \in b..Len(w) /\ i <= Len(w)
      BY <1>1, <2>2
    <3>2. p[i] <= p[Len(w)] /\ p[i] \in Nat /\ p[Len(w)] \in Nat
      BY <1>5, <3>1 DEF Way
    <3> QED BY <1>2, <1>3, <1>5, <1>6, <2>2, <3>1, <3>2
  <2>3. CASE j = Len(w) + 1 /\ i = Len(w) + 1
    BY <1>2, <1>6, <2>3
  <2> QED BY <2>1, <2>2, <2>3
<1>8. Begins(T, T)
  BY <1>2 DEF Begins
<1>9. \A i \in (b + 1)..Len(v) : v[i].kind = "state" => Begins(v[i].state.text, T) /\ q[i] = Len(v[i].state.text)
  <2> SUFFICES ASSUME NEW i \in (b + 1)..Len(v), v[i].kind = "state"
               PROVE  Begins(v[i].state.text, T) /\ q[i] = Len(v[i].state.text)
    OBVIOUS
  <2>1. CASE i = Len(w) + 1
    BY <1>1, <1>6, <1>8, <2>1
  <2>2. CASE i # Len(w) + 1
    <3>1. i \in (b + 1)..Len(w) /\ i \in 1..Len(w) /\ i \in b..Len(w)
      BY <1>1, <2>2
    <3>2. v[i] = w[i] /\ q[i] = p[i]
      BY <1>1, <1>5, <3>1
    <3> QED BY <3>1, <3>2 DEF Way
  <2> QED BY <2>1, <2>2
<1>10. \A i \in (b + 1)..Len(v) : v[i].kind = "stream" => ComesNext(q[i - 1], v[i].batch, T) /\ q[i] = q[i - 1] + Len(v[i].batch)
  <2> SUFFICES ASSUME NEW i \in (b + 1)..Len(v), v[i].kind = "stream"
               PROVE  ComesNext(q[i - 1], v[i].batch, T) /\ q[i] = q[i - 1] + Len(v[i].batch)
    OBVIOUS
  <2>1. i # Len(w) + 1
    BY <1>1
  <2>2. i \in (b + 1)..Len(w) /\ i \in 1..Len(w) /\ i \in b..Len(w) /\ i - 1 \in b..Len(w)
    BY <1>1, <2>1
  <2>3. v[i] = w[i] /\ q[i] = p[i] /\ q[i - 1] = p[i - 1]
    BY <1>1, <1>5, <2>2
  <2> QED BY <2>2, <2>3 DEF Way
<1>11. ComesNext(q[Len(v)], <<>>, T) /\ q[Len(v)] + Len(<<>>) = Len(T)
  BY <1>1, <1>2, <1>6 DEF ComesNext
<1>12. Way(v, q, T, b, <<>>)
  BY <1>4, <1>7, <1>9, <1>10, <1>11 DEF Way
<1>13. q[b] = p[b]
  <2>1. b \in b..Len(w)
    BY <1>1
  <2> QED BY <1>5, <2>1
<1> QED BY <1>12, <1>13 DEF v

(* The held batch is put on the wire.                                       *)
LEMMA WayFlushed ==
  ASSUME NEW w \in Seq(Message), NEW T \in Seq(1..MaxDelta), NEW b \in 0..Len(w), NEW p, NEW held \in Seq(Delta),
         Way(w, p, T, b, held), NEW m \in Message, m.kind = "stream", m.batch = held
  PROVE  \E q : Way(Append(w, m), q, T, b, <<>>) /\ q[b] = p[b]
<1> DEFINE q == [i \in b..(Len(w) + 1) |-> IF i = Len(w) + 1 THEN Len(T) ELSE p[i]]
           v == Append(w, m)
<1>1. /\ v \in Seq(Message) /\ Len(w) \in Nat /\ Len(v) = Len(w) + 1 /\ v[Len(w) + 1] = m
      /\ \A i \in 1..Len(w) : v[i] = w[i]
  BY WireLonger
<1> HIDE DEF v
<1>2. Len(T) \in Nat /\ Len(held) \in Nat /\ Len(<<>>) = 0
  OBVIOUS
<1>3. p \in [b..Len(w) -> Nat] /\ p[Len(w)] <= Len(T)
  <2>1. p \in [b..Len(w) -> Nat] /\ p[Len(w)] + Len(held) = Len(T) /\ Len(w) \in b..Len(w)
    BY <1>1 DEF Way
  <2>2. p[Len(w)] \in Nat
    BY <2>1
  <2> QED BY <1>2, <2>1, <2>2
<1>4. q \in [b..Len(v) -> Nat]
  BY <1>1, <1>2, <1>3
<1>5. \A i \in b..Len(w) : q[i] = p[i] /\ p[i] \in Nat
  BY <1>1, <1>3
<1>6. q[Len(w) + 1] = Len(T)
  BY <1>1
<1> HIDE DEF q
<1>7. \A i, j \in b..Len(v) : i <= j => q[i] <= q[j]
  <2> SUFFICES ASSUME NEW i \in b..Len(v), NEW j \in b..Len(v), i <= j PROVE q[i] <= q[j]
    OBVIOUS
  <2>1. CASE j # Len(w) + 1
    <3>1. i \in b..Len(w) /\ j \in b..Len(w)
      BY <1>1, <2>1
    <3> QED BY <1>5, <3>1 DEF Way
  <2>2. CASE j = Len(w) + 1 /\ i # Len(w) + 1
    <3>1. i \in b..Len(w) /\ Len(w) \in b..Len(w) /\ i <= Len(w)
      BY <1>1, <2>2
    <3>2. p[i] <= p[Len(w)] /\ p[i] \in Nat /\ p[Len(w)] \in Nat
      BY <1>5, <3>1 DEF Way
    <3> QED BY <1>2, <1>3, <1>5, <1>6, <2>2, <3>1, <3>2
  <2>3. CASE j = Len(w) + 1 /\ i = Len(w) + 1
    BY <1>2, <1>6, <2>3
  <2> QED BY <2>1, <2>2, <2>3
<1>9. \A i \in (b + 1)..Len(v) : v[i].kind = "state" => Begins(v[i].state.text, T) /\ q[i] = Len(v[i].state.text)
  <2> SUFFICES ASSUME NEW i \in (b + 1)..Len(v), v[i].kind = "state"
               PROVE  Begins(v[i].state.text, T) /\ q[i] = Len(v[i].state.text)
    OBVIOUS
  <2>1. i # Len(w) + 1
    BY <1>1
  <2>2. i \in (b + 1)..Len(w) /\ i \in 1..Len(w) /\ i \in b..Len(w)
    BY <1>1, <2>1
  <2>3. v[i] = w[i] /\ q[i] = p[i]
    BY <1>1, <1>5, <2>2
  <2> QED BY <2>2, <2>3 DEF Way
<1>10. \A i \in (b + 1)..Len(v) : v[i].kind = "stream" => ComesNext(q[i - 1], v[i].batch, T) /\ q[i] = q[i - 1] + Len(v[i].batch)
  <2> SUFFICES ASSUME NEW i \in (b + 1)..Len(v), v[i].kind = "stream"
               PROVE  ComesNext(q[i - 1], v[i].batch, T) /\ q[i] = q[i - 1] + Len(v[i].batch)
    OBVIOUS
  <2>1. CASE i = Len(w) + 1
    <3>1. i - 1 = Len(w) /\ Len(w) \in b..Len(w) /\ v[i] = m
      BY <1>1, <2>1
    <3>2. q[i - 1] = p[Len(w)] /\ q[i] = Len(T)
      BY <1>5, <1>6, <2>1, <3>1
    <3> QED BY <3>1, <3>2 DEF Way
  <2>2. CASE i # Len(w) + 1
    <3>1. i \in (b + 1)..Len(w) /\ i \in 1..Len(w) /\ i \in b..Len(w) /\ i - 1 \in b..Len(w)
      BY <1>1, <2>2
    <3>2. v[i] = w[i] /\ q[i] = p[i] /\ q[i - 1] = p[i - 1]
      BY <1>1, <1>5, <3>1
    <3> QED BY <3>1, <3>2 DEF Way
  <2> QED BY <2>1, <2>2
<1>11. ComesNext(q[Len(v)], <<>>, T) /\ q[Len(v)] + Len(<<>>) = Len(T)
  BY <1>1, <1>2, <1>6 DEF ComesNext
<1>12. Way(v, q, T, b, <<>>)
  BY <1>4, <1>7, <1>9, <1>10, <1>11 DEF Way
<1>13. q[b] = p[b]
  <2>1. b \in b..Len(w)
    BY <1>1
  <2> QED BY <1>5, <2>1
<1> QED BY <1>12, <1>13 DEF v

(* At the end of the wire nothing is ahead.                                 *)
LEMMA WayHere ==
  ASSUME NEW w \in Seq(Message), NEW T \in Seq(1..MaxDelta)
  PROVE  \E q : Way(w, q, T, Len(w), <<>>) /\ q[Len(w)] = Len(T)
<1> DEFINE q == [i \in Len(w)..Len(w) |-> Len(T)]
<1>1. Len(T) \in Nat /\ Len(w) \in Nat /\ Len(<<>>) = 0
  OBVIOUS
<1>2. q \in [Len(w)..Len(w) -> Nat] /\ \A i \in Len(w)..Len(w) : q[i] = Len(T)
  BY <1>1
<1> HIDE DEF q
<1>3. Len(w) \in Len(w)..Len(w) /\ (Len(w) + 1)..Len(w) = {}
  BY <1>1
<1>4. q[Len(w)] = Len(T)
  BY <1>2, <1>3
<1>5. ComesNext(q[Len(w)], <<>>, T) /\ q[Len(w)] + Len(<<>>) = Len(T)
  BY <1>1, <1>4 DEF ComesNext
<1>6. \A i, j \in Len(w)..Len(w) : i <= j => q[i] <= q[j]
  BY <1>1, <1>2
<1>7. Way(w, q, T, Len(w), <<>>)
  BY <1>2, <1>3, <1>5, <1>6 DEF Way
<1> QED BY <1>4, <1>7

(* The first event is taken from the wire.                                  *)
LEMMA WayRest ==
  ASSUME NEW w \in Seq(Message), w # <<>>, NEW T, NEW b \in 1..Len(w), NEW p, NEW held,
         Way(w, p, T, b, held)
  PROVE  \E q : Way(Tail(w), q, T, b - 1, held) /\ q[b - 1] = p[b]
<1> DEFINE q == [i \in (b - 1)..(Len(w) - 1) |-> p[i + 1]]
           v == Tail(w)
<1>1. /\ v \in Seq(Message) /\ Len(w) \in Nat \ {0} /\ Len(v) = Len(w) - 1
      /\ \A i \in 1..(Len(w) - 1) : v[i] = w[i + 1]
  BY WireShorter
<1> HIDE DEF v
<1>2. p \in [b..Len(w) -> Nat]
  BY DEF Way
<1>3. \A i \in (b - 1)..Len(v) : q[i] = p[i + 1] /\ i + 1 \in b..Len(w) /\ p[i + 1] \in Nat
  BY <1>1, <1>2
<1>4. q \in [(b - 1)..Len(v) -> Nat]
  BY <1>1, <1>3
<1> HIDE DEF q
<1>5. \A i, j \in (b - 1)..Len(v) : i <= j => q[i] <= q[j]
  <2> SUFFICES ASSUME NEW i \in (b - 1)..Len(v), NEW j \in (b - 1)..Len(v), i <= j PROVE q[i] <= q[j]
    OBVIOUS
  <2>1. i + 1 <= j + 1 /\ i + 1 \in b..Len(w) /\ j + 1 \in b..Len(w)
    BY <1>1, <1>3
  <2>2. p[i + 1] <= p[j + 1]
    BY <2>1 DEF Way
  <2> QED BY <1>3, <2>2
<1>6. ASSUME NEW i \in ((b - 1) + 1)..Len(v)
      PROVE  /\ i + 1 \in (b + 1)..Len(w) /\ v[i] = w[i + 1] /\ q[i] = p[i + 1] /\ q[i - 1] = p[(i + 1) - 1]
  <2>1. i \in 1..(Len(w) - 1) /\ i \in (b - 1)..Len(v) /\ i - 1 \in (b - 1)..Len(v) /\ (i - 1) + 1 = (i + 1) - 1
    BY <1>1
  <2>2. q[i - 1] = p[(i - 1) + 1]
    BY <1>3, <2>1
  <2>3. i + 1 \in (b + 1)..Len(w)
    BY <1>1
  <2> QED BY <1>1, <1>3, <2>1, <2>2, <2>3
<1>7. \A i \in ((b - 1) + 1)..Len(v) : v[i].kind = "state" => Begins(v[i].state.text, T) /\ q[i] = Len(v[i].state.text)
  BY <1>6 DEF Way
<1>8. \A i \in ((b - 1) + 1)..Len(v) : v[i].kind = "stream" => ComesNext(q[i - 1], v[i].batch, T) /\ q[i] = q[i - 1] + Len(v[i].batch)
  BY <1>6 DEF Way
<1>9. q[Len(v)] = p[Len(w)] /\ q[b - 1] = p[b]
  <2>1. Len(v) \in (b - 1)..Len(v) /\ b - 1 \in (b - 1)..Len(v) /\ Len(v) + 1 = Len(w) /\ (b - 1) + 1 = b
    BY <1>1
  <2>2. q[Len(v)] = p[Len(v) + 1] /\ q[b - 1] = p[(b - 1) + 1]
    BY <1>3, <2>1
  <2> QED BY <2>1, <2>2
<1>10. Way(v, q, T, b - 1, held)
  BY <1>4, <1>5, <1>7, <1>8, <1>9 DEF Way
<1> QED BY <1>9, <1>10 DEF v

(* A way from the client is one from the first event.                       *)
LEMMA WayOn ==
  ASSUME NEW w \in Seq(Message), w # <<>>, NEW T, NEW p, NEW held, Way(w, p, T, 0, held)
  PROVE  /\ \E q : Way(w, q, T, 1, held) /\ q[1] = p[1]
         /\ p[0] \in Nat /\ p[1] \in Nat /\ p[0] <= p[1]
         /\ w[1].kind = "state" => Begins(w[1].state.text, T) /\ p[1] = Len(w[1].state.text)
         /\ w[1].kind = "stream" => ComesNext(p[0], w[1].batch, T) /\ p[1] = p[0] + Len(w[1].batch)
<1> DEFINE q == [i \in 1..Len(w) |-> p[i]]
<1>1. Len(w) \in Nat \ {0} /\ p \in [0..Len(w) -> Nat]
  BY DEF Way
<1>2. \A i \in 1..Len(w) : q[i] = p[i] /\ i \in 0..Len(w) /\ p[i] \in Nat
  BY <1>1
<1>3. q \in [1..Len(w) -> Nat]
  BY <1>1, <1>2
<1> HIDE DEF q
<1>4. \A i, j \in 1..Len(w) : i <= j => q[i] <= q[j]
  BY <1>2 DEF Way
<1>5. ASSUME NEW i \in (1 + 1)..Len(w)
      PROVE  i \in (0 + 1)..Len(w) /\ q[i] = p[i] /\ q[i - 1] = p[i - 1]
  <2>1. i \in 1..Len(w) /\ i - 1 \in 1..Len(w)
    BY <1>1
  <2> QED BY <1>2, <2>1
<1>6. \A i \in (1 + 1)..Len(w) : w[i].kind = "state" => Begins(w[i].state.text, T) /\ q[i] = Len(w[i].state.text)
  BY <1>5 DEF Way
<1>7. \A i \in (1 + 1)..Len(w) : w[i].kind = "stream" => ComesNext(q[i - 1], w[i].batch, T) /\ q[i] = q[i - 1] + Len(w[i].batch)
  BY <1>5 DEF Way
<1>8. q[Len(w)] = p[Len(w)] /\ q[1] = p[1]
  BY <1>1, <1>2
<1>9. Way(w, q, T, 1, held)
  BY <1>3, <1>4, <1>6, <1>7, <1>8 DEF Way
<1>10. p[0] \in Nat /\ p[1] \in Nat /\ p[0] <= p[1]
  <2>1. 0 \in 0..Len(w) /\ 1 \in 0..Len(w)
    BY <1>1
  <2> QED BY <1>1, <2>1 DEF Way
<1>11. 1 \in (0 + 1)..Len(w) /\ 1 - 1 = 0
  BY <1>1
<1>12. w[1].kind = "state" => Begins(w[1].state.text, T) /\ p[1] = Len(w[1].state.text)
  BY <1>11 DEF Way
<1>13. w[1].kind = "stream" => ComesNext(p[1 - 1], w[1].batch, T) /\ p[1] = p[1 - 1] + Len(w[1].batch)
  BY <1>11 DEF Way
<1> QED BY <1>8, <1>9, <1>10, <1>11, <1>12, <1>13

(* A delta is appended to the text and to the held batch.                   *)
LEMMA Grown ==
  ASSUME NEW T \in Seq(1..MaxDelta), NEW d \in Delta
  PROVE  /\ Append(T, d.id) \in Seq(1..MaxDelta) /\ Len(T) \in Nat /\ Len(Append(T, d.id)) = Len(T) + 1
         /\ Append(T, d.id)[Len(T) + 1] = d.id
         /\ \A i \in 1..Len(T) : Append(T, d.id)[i] = T[i]
         /\ \A t : Len(t) \in Nat /\ Begins(t, T) => Begins(t, Append(T, d.id))
         /\ \A n, c : n \in Nat /\ Len(c) \in Nat /\ ComesNext(n, c, T) => ComesNext(n, c, Append(T, d.id))
<1> DEFINE U == Append(T, d.id)
<1>1. U \in Seq(1..MaxDelta) /\ Len(T) \in Nat /\ Len(U) = Len(T) + 1 /\ U[Len(T) + 1] = d.id
      /\ \A i \in 1..Len(T) : U[i] = T[i]
  BY DEF Delta
<1> HIDE DEF U
<1>2. ASSUME NEW t, Len(t) \in Nat, Begins(t, T) PROVE Begins(t, U)
  BY <1>1, <1>2 DEF Begins
<1>3. ASSUME NEW n \in Nat, NEW c, Len(c) \in Nat, ComesNext(n, c, T) PROVE ComesNext(n, c, U)
  <2>1. n + Len(c) <= Len(T) /\ \A j \in 1..Len(c) : T[n + j] = c[j].id
    BY <1>3 DEF ComesNext
  <2>2. \A j \in 1..Len(c) : n + j \in 1..Len(T)
    BY <1>1, <1>3, <2>1
  <2>3. \A j \in 1..Len(c) : U[n + j] = c[j].id
    BY <1>1, <2>1, <2>2
  <2> QED BY <1>1, <1>3, <2>1, <2>3 DEF ComesNext
<1> QED BY <1>1, <1>2, <1>3 DEF U

(* A delta of the provider is held last, and the way to the text is longer. *)
LEMMA WayGrown ==
  ASSUME NEW w \in Seq(Message), NEW T \in Seq(1..MaxDelta), NEW b \in 0..Len(w), NEW p, NEW held \in Seq(Delta),
         Way(w, p, T, b, held), NEW d \in Delta
  PROVE  Way(w, p, Append(T, d.id), b, Append(held, d))
<1> DEFINE U == Append(T, d.id)
           h == Append(held, d)
<1>1. /\ Len(T) \in Nat /\ Len(U) = Len(T) + 1 /\ U[Len(T) + 1] = d.id
      /\ \A i \in 1..Len(T) : U[i] = T[i]
      /\ \A t : Len(t) \in Nat /\ Begins(t, T) => Begins(t, U)
      /\ \A n, c : n \in Nat /\ Len(c) \in Nat /\ ComesNext(n, c, T) => ComesNext(n, c, U)
  BY Grown
<1>2. h \in Seq(Delta) /\ Len(held) \in Nat /\ Len(h) = Len(held) + 1 /\ h[Len(held) + 1] = d
      /\ \A i \in 1..Len(held) : h[i] = held[i]
  OBVIOUS
<1>0. Len(w) \in Nat /\ p \in [b..Len(w) -> Nat]
  BY DEF Way
<1> HIDE DEF U, h
<1>3. \A i \in (b + 1)..Len(w) : w[i].kind = "state" => Begins(w[i].state.text, U) /\ p[i] = Len(w[i].state.text)
  <2> SUFFICES ASSUME NEW i \in (b + 1)..Len(w), w[i].kind = "state"
               PROVE  Begins(w[i].state.text, U) /\ p[i] = Len(w[i].state.text)
    OBVIOUS
  <2>1. Begins(w[i].state.text, T) /\ p[i] = Len(w[i].state.text)
    BY DEF Way
  <2>2. p[i] \in Nat
    BY <1>0
  <2> QED BY <1>1, <2>1, <2>2
<1>4. \A i \in (b + 1)..Len(w) : w[i].kind = "stream" => ComesNext(p[i - 1], w[i].batch, U) /\ p[i] = p[i - 1] + Len(w[i].batch)
  <2> SUFFICES ASSUME NEW i \in (b + 1)..Len(w), w[i].kind = "stream"
               PROVE  ComesNext(p[i - 1], w[i].batch, U) /\ p[i] = p[i - 1] + Len(w[i].batch)
    OBVIOUS
  <2>1. ComesNext(p[i - 1], w[i].batch, T) /\ p[i] = p[i - 1] + Len(w[i].batch)
    BY DEF Way
  <2>2. p[i - 1] \in Nat
    <3>1. i - 1 \in b..Len(w)
      BY <1>0
    <3> QED BY <1>0, <3>1
  <2>3. Len(w[i].batch) \in Nat
    <3>1. i \in 1..Len(w)
      BY <1>0
    <3>2. w[i] \in Message
      BY <3>1
    <3>3. w[i].batch \in Seq(Delta)
      BY <3>2, MessageIs
    <3> QED BY <3>3
  <2> QED BY <1>1, <2>1, <2>2, <2>3
<1>5. p[Len(w)] \in Nat /\ ComesNext(p[Len(w)], held, T) /\ p[Len(w)] + Len(held) = Len(T)
  <2>1. Len(w) \in b..Len(w)
    BY <1>0
  <2> QED BY <1>0, <2>1 DEF Way
<1>6. p[Len(w)] + Len(h) = Len(U)
  <2>1. Len(U) = Len(T) + 1 /\ Len(T) \in Nat
    BY <1>1
  <2>2. Len(h) = Len(held) + 1 /\ Len(held) \in Nat
    BY <1>2
  <2>3. p[Len(w)] \in Nat /\ p[Len(w)] + Len(held) = Len(T)
    BY <1>5
  <2>4. \A x, y, z \in Nat : x + y = z => x + (y + 1) = z + 1
    OBVIOUS
  <2>5. p[Len(w)] + (Len(held) + 1) = Len(T) + 1
    BY <2>1, <2>2, <2>3, <2>4, Zenon
  <2> QED BY <2>1, <2>2, <2>5, Zenon
<1>7. ComesNext(p[Len(w)], h, U)
  <2>1. ComesNext(p[Len(w)], held, U)
    BY <1>1, <1>2, <1>5
  <2>2. ASSUME NEW j \in 1..Len(h) PROVE U[p[Len(w)] + j] = h[j].id
    <3>1. CASE j = Len(held) + 1
      <4>1. p[Len(w)] + j = Len(T) + 1
        <5>1. \A x, y, z \in Nat : x + y = z => x + (y + 1) = z + 1
          OBVIOUS
        <5> QED BY <1>1, <1>2, <1>5, <3>1, <5>1
      <4> QED BY <1>1, <1>2, <3>1, <4>1
    <3>2. CASE j # Len(held) + 1
      <4>1. j \in 1..Len(held)
        BY <1>2, <3>2
      <4> QED BY <1>2, <2>1, <4>1 DEF ComesNext
    <3> QED BY <3>1, <3>2
  <2> QED BY <1>1, <1>2, <1>5, <1>6, <2>2 DEF ComesNext
<1>8. Way(w, p, U, b, h)
  BY <1>3, <1>4, <1>6, <1>7 DEF Way
<1> QED BY <1>8 DEF U, h

Typed ==
  /\ live \in Transcript /\ view \in Transcript
  /\ saved \in {NoCommand} \cup [open : {TRUE}, state : Transcript]
  /\ clock \in Nat
  /\ sendBatch \in Seq(Delta) /\ viewBatch \in Seq(Delta)
  /\ wire \in Seq(Message)
  /\ reply \in {NoReply} \cup [on : {TRUE}, state : Transcript, seen : Nat, covers : Nat]
  /\ slips \in Nat /\ healed \in Nat /\ healed <= slips
  /\ emitted \in Nat /\ emitted <= MaxDelta /\ rounds \in Nat

ShownIn(w) == {w[i].state : i \in {j \in 1..Len(w) : w[j].kind = "state"}}
Elements(c) == {c[k] : k \in 1..Len(c)}
StreamedIn(w) == UNION {Elements(w[i].batch) : i \in {j \in 1..Len(w) : w[j].kind = "stream"}}

(* The states a client may still be given, and the deltas on their way.      *)
Kept == {live, PublicState} \cup ShownIn(wire)
Pipe == Elements(viewBatch) \cup Elements(sendBatch) \cup StreamedIn(wire)

(* The client prefers the second of two states.                             *)
(* The order in which a client prefers states, and the wire carries them.   *)
NotAfter(x, y) == x.version < y.version \/ (x.version = y.version /\ x.at <= y.at)
Climbs(w) ==
  \A i, j \in 1..Len(w) : i < j /\ w[i].kind = "state" /\ w[j].kind = "state"
    => NotAfter(w[i].state, w[j].state) /\ w[i].covers <= w[j].covers

(* Nothing names a delta that was not emitted, or a time to come.           *)
StateKnown(y) == y.loaded /\ y.at <= clock /\ \A k \in 1..Len(y.text) : y.text[k] <= emitted
DeltaKnown(d) == d.ts <= clock /\ d.id <= emitted
Known ==
  /\ \A y \in Kept : StateKnown(y)
  /\ \A d \in Pipe : DeltaKnown(d)
  /\ view.at <= clock
  /\ reply # NoReply => reply.state.at <= clock /\ reply.state.loaded
  /\ Rising(live.text)

(* A state that has a delta is at least as late.                            *)
StampFits(d, y) == \A k \in 1..Len(y.text) : y.text[k] = d.id => d.ts <= y.at
Stamped == \A d \in Pipe, y \in Kept : StampFits(d, y)

(* What is public is a beginning of what is live.                           *)
PublicFits ==
  /\ PublicState.version = live.version /\ PublicState.at <= live.at
  /\ Begins(PublicState.text, live.text)
(* States are sent in their order, and none is after the one that is public. *)
Ordered ==
  /\ Climbs(wire)
  /\ \A y \in ShownIn(wire) : NotAfter(y, PublicState)
  /\ reply # NoReply => NotAfter(reply.state, PublicState)
  /\ view.version <= live.version
(* A state covers the slips before it; one that is not fresh is a slip itself. *)
CountFits(m) == healed <= m.covers /\ m.covers <= slips /\ (~ m.fresh => m.covers < slips)
Counted == \A i \in 1..Len(wire) : wire[i].kind = "state" => CountFits(wire[i])

(* From the view, or from a state that covers every slip, the way to the text. *)
CleanAt(i) == wire[i].kind = "state" /\ wire[i].fresh /\ wire[i].covers = slips
ViewOnWay ==
  \E p : /\ Way(wire, p, live.text, 0, sendBatch)
         /\ p[0] = Len(view.text) + Len(viewBatch)
         /\ Begins(view.text, live.text)
         /\ ComesNext(Len(view.text), viewBatch, live.text)
StateOnWay(i) ==
  \E p : /\ Way(wire, p, live.text, i, sendBatch)
         /\ p[i] = Len(wire[i].state.text)
         /\ Begins(wire[i].state.text, live.text)
Tracked ==
  /\ healed = slips => ViewOnWay
  /\ \A i \in 1..Len(wire) : CleanAt(i) => StateOnWay(i)
(* A view that missed nothing takes every state on the wire.                *)
Accepting ==
  healed = slips =>
    /\ view.loaded
    /\ \A y \in ShownIn(wire) : NotAfter(view, y)
    /\ PublicState.text = live.text => NotAfter(view, PublicState)

(* The inductive invariant.                                                 *)
Follows ==
  /\ Typed /\ Known /\ Stamped /\ PublicFits /\ Ordered /\ Counted /\ Tracked /\ Accepting

-----------------------------------------------------------------------------
(* The deltas of a batch.                                                  *)
LEMMA ElementsAre ==
  ASSUME NEW c \in Seq(Delta)
  PROVE  /\ Len(c) \in Nat /\ Elements(c) \subseteq Delta
         /\ \A k \in 1..Len(c) : c[k] \in Elements(c)
         /\ \A x : x \in Elements(c) => \E k \in 1..Len(c) : x = c[k]
BY DEF Elements

(* The states on the wire.                                                 *)
LEMMA ShownAre ==
  ASSUME NEW w \in Seq(Message)
  PROVE  /\ \A i \in 1..Len(w) : w[i].kind = "state" => w[i].state \in ShownIn(w)
         /\ \A y : y \in ShownIn(w) => \E i \in 1..Len(w) : w[i].kind = "state" /\ y = w[i].state
         /\ ShownIn(w) \subseteq Transcript
<1>1. ASSUME NEW i \in 1..Len(w), w[i].kind = "state" PROVE w[i].state \in ShownIn(w)
  BY <1>1 DEF ShownIn
<1>2. ASSUME NEW y \in ShownIn(w) PROVE \E i \in 1..Len(w) : w[i].kind = "state" /\ y = w[i].state
  BY DEF ShownIn
<1>3. ASSUME NEW y \in ShownIn(w) PROVE y \in Transcript
  <2>1. PICK i \in 1..Len(w) : w[i].kind = "state" /\ y = w[i].state
    BY <1>2
  <2>2. w[i] \in Message
    OBVIOUS
  <2> QED BY <2>1, <2>2, MessageIs
<1> QED BY <1>1, <1>2, <1>3

(* The deltas on the wire.                                                 *)
LEMMA StreamedAre ==
  ASSUME NEW w \in Seq(Message)
  PROVE  /\ \A i \in 1..Len(w) : w[i].kind = "stream" => Elements(w[i].batch) \subseteq StreamedIn(w)
         /\ \A x : x \in StreamedIn(w) => \E i \in 1..Len(w) : w[i].kind = "stream" /\ x \in Elements(w[i].batch)
         /\ StreamedIn(w) \subseteq Delta
<1>1. ASSUME NEW i \in 1..Len(w), w[i].kind = "stream" PROVE Elements(w[i].batch) \subseteq StreamedIn(w)
  BY <1>1 DEF StreamedIn
<1>2. ASSUME NEW x \in StreamedIn(w) PROVE \E i \in 1..Len(w) : w[i].kind = "stream" /\ x \in Elements(w[i].batch)
  BY DEF StreamedIn
<1>3. ASSUME NEW x \in StreamedIn(w) PROVE x \in Delta
  <2>1. PICK i \in 1..Len(w) : w[i].kind = "stream" /\ x \in Elements(w[i].batch)
    BY <1>2
  <2>2. w[i] \in Message
    OBVIOUS
  <2>3. w[i].batch \in Seq(Delta)
    BY <2>1, <2>2, MessageIs
  <2> QED BY <2>1, <2>3, ElementsAre
<1> QED BY <1>1, <1>2, <1>3

(* A message that is sent adds its state or its deltas.                    *)
LEMMA WireGains ==
  ASSUME NEW w \in Seq(Message), NEW m \in Message
  PROVE  /\ m.kind = "state" => ShownIn(Append(w, m)) = ShownIn(w) \cup {m.state} /\ StreamedIn(Append(w, m)) = StreamedIn(w)
         /\ m.kind = "stream" => ShownIn(Append(w, m)) = ShownIn(w) /\ StreamedIn(Append(w, m)) = StreamedIn(w) \cup Elements(m.batch)
<1> DEFINE v == Append(w, m)
<1>1. /\ v \in Seq(Message) /\ Len(w) \in Nat /\ Len(v) = Len(w) + 1 /\ v[Len(w) + 1] = m
      /\ \A i \in 1..Len(w) : v[i] = w[i]
  BY WireLonger
<1> HIDE DEF v
<1>2. /\ 1..Len(v) = 1..Len(w) \cup {Len(w) + 1} /\ Len(w) + 1 \in 1..Len(v)
      /\ \A i \in 1..Len(w) : i \in 1..Len(v)
  BY <1>1
<1>3. ShownIn(w) \subseteq ShownIn(v) /\ StreamedIn(w) \subseteq StreamedIn(v)
  <2>1. ASSUME NEW y \in ShownIn(w) PROVE y \in ShownIn(v)
    <3>1. PICK i \in 1..Len(w) : w[i].kind = "state" /\ y = w[i].state
      BY ShownAre
    <3>2. i \in 1..Len(v) /\ v[i] = w[i]
      BY <1>1, <1>2
    <3> QED BY <1>1, <3>1, <3>2, ShownAre
  <2>2. ASSUME NEW x \in StreamedIn(w) PROVE x \in StreamedIn(v)
    <3>1. PICK i \in 1..Len(w) : w[i].kind = "stream" /\ x \in Elements(w[i].batch)
      BY StreamedAre
    <3>2. i \in 1..Len(v) /\ v[i] = w[i]
      BY <1>1, <1>2
    <3> QED BY <1>1, <3>1, <3>2, StreamedAre
  <2> QED BY <2>1, <2>2
<1>4. ASSUME NEW y \in ShownIn(v) PROVE y \in ShownIn(w) \/ (m.kind = "state" /\ y = m.state)
  <2>1. PICK i \in 1..Len(v) : v[i].kind = "state" /\ y = v[i].state
    BY <1>1, ShownAre
  <2>2. CASE i \in 1..Len(w)
    BY <1>1, <2>1, <2>2, ShownAre
  <2>3. CASE i = Len(w) + 1
    BY <1>1, <2>1, <2>3
  <2> QED BY <1>2, <2>2, <2>3
<1>5. ASSUME NEW x \in StreamedIn(v) PROVE x \in StreamedIn(w) \/ (m.kind = "stream" /\ x \in Elements(m.batch))
  <2>1. PICK i \in 1..Len(v) : v[i].kind = "stream" /\ x \in Elements(v[i].batch)
    BY <1>1, StreamedAre
  <2>2. CASE i \in 1..Len(w)
    BY <1>1, <2>1, <2>2, StreamedAre
  <2>3. CASE i = Len(w) + 1
    BY <1>1, <2>1, <2>3
  <2> QED BY <1>2, <2>2, <2>3
<1>6. m.kind = "state" => m.state \in ShownIn(v)
  BY <1>1, <1>2, ShownAre
<1>7. m.kind = "stream" => Elements(m.batch) \subseteq StreamedIn(v)
  BY <1>1, <1>2, StreamedAre
<1>8. CASE m.kind = "state"
  <2>1. m.kind # "stream"
    BY <1>8
  <2>2. ShownIn(v) = ShownIn(w) \cup {m.state}
    BY <1>3, <1>4, <1>6, <1>8
  <2>3. StreamedIn(v) = StreamedIn(w)
    BY <1>3, <1>5, <2>1
  <2> QED BY <2>1, <2>2, <2>3 DEF v
<1>9. CASE m.kind = "stream"
  <2>1. m.kind # "state"
    BY <1>9
  <2>2. StreamedIn(v) = StreamedIn(w) \cup Elements(m.batch)
    BY <1>3, <1>5, <1>7, <1>9
  <2>3. ShownIn(v) = ShownIn(w)
    BY <1>3, <1>4, <2>1
  <2> QED BY <2>1, <2>2, <2>3 DEF v
<1> QED BY <1>8, <1>9, MessageIs

(* A message that is taken adds nothing.                                   *)
LEMMA WireLoses ==
  ASSUME NEW w \in Seq(Message), w # <<>>
  PROVE  /\ ShownIn(Tail(w)) \subseteq ShownIn(w) /\ StreamedIn(Tail(w)) \subseteq StreamedIn(w)
         /\ w[1].kind = "state" => w[1].state \in ShownIn(w)
         /\ w[1].kind = "stream" => Elements(w[1].batch) \subseteq StreamedIn(w)
<1> DEFINE v == Tail(w)
<1>1. /\ v \in Seq(Message) /\ Len(w) \in Nat \ {0} /\ Len(v) = Len(w) - 1
      /\ \A i \in 1..(Len(w) - 1) : v[i] = w[i + 1]
  BY WireShorter
<1> HIDE DEF v
<1>2. \A i \in 1..Len(v) : i + 1 \in 1..Len(w) /\ v[i] = w[i + 1]
  BY <1>1
<1>3. ASSUME NEW y \in ShownIn(v) PROVE y \in ShownIn(w)
  <2>1. PICK i \in 1..Len(v) : v[i].kind = "state" /\ y = v[i].state
    BY <1>1, ShownAre
  <2> QED BY <1>2, <2>1, ShownAre
<1>4. ASSUME NEW x \in StreamedIn(v) PROVE x \in StreamedIn(w)
  <2>1. PICK i \in 1..Len(v) : v[i].kind = "stream" /\ x \in Elements(v[i].batch)
    BY <1>1, StreamedAre
  <2> QED BY <1>2, <2>1, StreamedAre
<1>5. 1 \in 1..Len(w)
  BY <1>1
<1> QED BY <1>3, <1>4, <1>5, ShownAre, StreamedAre DEF v

(* Two batches, one after the other.                                       *)
LEMMA BatchesJoined ==
  ASSUME NEW a \in Seq(Delta), NEW c \in Seq(Delta)
  PROVE  /\ a \o c \in Seq(Delta) /\ Len(a) \in Nat /\ Len(c) \in Nat /\ Len(a \o c) = Len(a) + Len(c)
         /\ \A i \in 1..Len(a) : (a \o c)[i] = a[i]
         /\ \A i \in 1..Len(c) : (a \o c)[Len(a) + i] = c[i]
         /\ Elements(a \o c) \subseteq Elements(a) \cup Elements(c)
<1> DEFINE v == a \o c
<1>1. v \in Seq(Delta) /\ Len(a) \in Nat /\ Len(c) \in Nat /\ Len(v) = Len(a) + Len(c)
  OBVIOUS
<1>2. \A i \in 1..Len(a) : v[i] = a[i]
  OBVIOUS
<1>3. \A i \in 1..Len(c) : v[Len(a) + i] = c[i]
  OBVIOUS
<1> HIDE DEF v
<1>4. ASSUME NEW x \in Elements(v) PROVE x \in Elements(a) \cup Elements(c)
  <2>1. PICK k \in 1..Len(v) : x = v[k]
    BY <1>1, ElementsAre
  <2>2. CASE k <= Len(a)
    <3>1. k \in 1..Len(a)
      BY <1>1, <2>2
    <3> QED BY <1>2, <2>1, <3>1, ElementsAre
  <2>3. CASE ~(k <= Len(a))
    <3>1. k - Len(a) \in 1..Len(c) /\ Len(a) + (k - Len(a)) = k
      BY <1>1, <2>3
    <3>2. PICK j \in 1..Len(c) : Len(a) + j = k
      BY <3>1
    <3>3. x = c[j]
      BY <1>3, <2>1, <3>2
    <3>4. c[j] \in Elements(c)
      BY ElementsAre
    <3> QED BY <3>3, <3>4
  <2> QED BY <2>2, <2>3
<1> QED BY <1>1, <1>2, <1>3, <1>4 DEF v

(* A batch with one more delta.                                            *)
LEMMA BatchLonger ==
  ASSUME NEW a \in Seq(Delta), NEW d \in Delta
  PROVE  /\ Append(a, d) \in Seq(Delta)
         /\ Elements(Append(a, d)) \subseteq Elements(a) \cup {d}
<1> DEFINE v == Append(a, d)
<1>1. v \in Seq(Delta) /\ Len(a) \in Nat /\ Len(v) = Len(a) + 1 /\ v[Len(a) + 1] = d
      /\ \A i \in 1..Len(a) : v[i] = a[i]
  OBVIOUS
<1> HIDE DEF v
<1>4. ASSUME NEW x \in Elements(v) PROVE x \in Elements(a) \cup {d}
  <2>1. PICK k \in 1..Len(v) : x = v[k]
    BY <1>1, ElementsAre
  <2>2. CASE k \in 1..Len(a)
    BY <1>1, <2>1, <2>2, ElementsAre
  <2>3. CASE k = Len(a) + 1
    BY <1>1, <2>1, <2>3
  <2> QED BY <1>1, <2>2, <2>3
<1> QED BY <1>1, <1>4 DEF v

(* An empty batch, an empty wire.                                          *)
LEMMA NothingIn ==
  /\ Elements(<<>>) = {} /\ ShownIn(<<>>) = {} /\ StreamedIn(<<>>) = {} /\ Len(<<>>) = 0
  /\ <<>> \in Seq(Delta) /\ <<>> \in Seq(Message)
<1>1. Len(<<>>) = 0 /\ 1..0 = {}
  OBVIOUS
<1> QED BY <1>1 DEF Elements, ShownIn, StreamedIn

(* Versions and times order the states as preferRuntimeSnapshot does.      *)
LEMMA NotAfterOrder ==
  ASSUME NEW x \in Transcript, NEW y \in Transcript
  PROVE  /\ NotAfter(x, x)
         /\ \A z \in Transcript : NotAfter(x, y) /\ NotAfter(y, z) => NotAfter(x, z)
         /\ NotAfter(x, y) => preferRuntimeSnapshot(x, y) = y
         /\ preferRuntimeSnapshot(x, y) \in {x, y}
<1>1. x.version \in Nat /\ x.at \in Nat /\ y.version \in Nat /\ y.at \in Nat
  BY DEF Transcript
<1>2. ASSUME NEW z \in Transcript, NotAfter(x, y), NotAfter(y, z) PROVE NotAfter(x, z)
  <2>1. z.version \in Nat /\ z.at \in Nat
    BY DEF Transcript
  <2> QED BY <1>1, <1>2, <2>1 DEF NotAfter
<1>3. NotAfter(x, x)
  BY <1>1 DEF NotAfter
<1>4. NotAfter(x, y) => preferRuntimeSnapshot(x, y) = y
  BY <1>1 DEF NotAfter, preferRuntimeSnapshot
<1>5. preferRuntimeSnapshot(x, y) \in {x, y}
  BY DEF preferRuntimeSnapshot
<1> QED BY <1>2, <1>3, <1>4, <1>5

(* Every state the two sides keep is a transcript.                         *)
LEMMA StatesTyped ==
  ASSUME Typed
  PROVE  /\ PublicState \in Transcript /\ Kept \subseteq Transcript /\ Pipe \subseteq Delta
         /\ saved # NoCommand => saved.state \in Transcript
         /\ reply # NoReply => reply.state \in Transcript /\ reply.seen \in Nat /\ reply.covers \in Nat
<1>1. saved # NoCommand => saved.state \in Transcript
  BY DEF Typed
<1>2. PublicState \in Transcript
  BY <1>1 DEF Typed, PublicState
<1>3. Kept \subseteq Transcript
  BY <1>2, ShownAre DEF Typed, Kept
<1>4. Pipe \subseteq Delta
  BY ElementsAre, StreamedAre DEF Typed, Pipe
<1>5. reply # NoReply => reply.state \in Transcript /\ reply.seen \in Nat /\ reply.covers \in Nat
  BY DEF Typed
<1> QED BY <1>1, <1>2, <1>3, <1>4, <1>5

(* One message after the others.                                           *)
LEMMA JoinedOne ==
  ASSUME NEW w \in Seq(Message), NEW m \in Message PROVE w \o <<m>> = Append(w, m)
OBVIOUS

(* The elements of a sequence.                                             *)
LEMMA InSeq ==
  ASSUME NEW S, NEW t \in Seq(S) PROVE Len(t) \in Nat /\ \A k \in 1..Len(t) : t[k] \in S
OBVIOUS

(* A text is numbers of deltas.                                            *)
LEMMA TextIds ==
  ASSUME NEW t \in Seq(1..MaxDelta)
  PROVE  Len(t) \in Nat /\ \A k \in 1..Len(t) : t[k] \in Nat
<1>1. 1..MaxDelta \subseteq Nat
  BY SyncAssumption
<1>2. Len(t) \in Nat /\ \A k \in 1..Len(t) : t[k] \in 1..MaxDelta
  BY InSeq
<1> QED BY <1>1, <1>2

(* A state that is not before the others may be sent.                      *)
LEMMA ClimbsMore ==
  ASSUME NEW w \in Seq(Message), NEW m \in Message, Climbs(w),
         m.kind = "state" =>
           \A i \in 1..Len(w) : w[i].kind = "state" => NotAfter(w[i].state, m.state) /\ w[i].covers <= m.covers
  PROVE  Climbs(Append(w, m))
<1> DEFINE v == Append(w, m)
<1>1. /\ v \in Seq(Message) /\ Len(w) \in Nat /\ Len(v) = Len(w) + 1 /\ v[Len(w) + 1] = m
      /\ \A i \in 1..Len(w) : v[i] = w[i]
  BY WireLonger
<1> HIDE DEF v
<1>2. ASSUME NEW i \in 1..Len(v), NEW j \in 1..Len(v), i < j, v[i].kind = "state", v[j].kind = "state"
      PROVE  NotAfter(v[i].state, v[j].state) /\ v[i].covers <= v[j].covers
  <2>1. i \in 1..Len(w) /\ v[i] = w[i]
    BY <1>1, <1>2
  <2>2. CASE j \in 1..Len(w)
    <3>1. v[j] = w[j]
      BY <1>1, <2>2
    <3> QED BY <1>2, <2>1, <2>2, <3>1 DEF Climbs
  <2>3. CASE j = Len(w) + 1
    <3>1. v[j] = m
      BY <1>1, <2>3
    <3> QED BY <1>2, <2>1, <3>1
  <2> QED BY <1>1, <2>2, <2>3
<1>3. Climbs(v)
  BY <1>2 DEF Climbs
<1> QED BY <1>3 DEF v

(* A message that is taken leaves the others in order.                     *)
LEMMA ClimbsLess ==
  ASSUME NEW w \in Seq(Message), w # <<>>, Climbs(w) PROVE Climbs(Tail(w))
<1> DEFINE v == Tail(w)
<1>1. /\ Len(w) \in Nat \ {0} /\ Len(v) = Len(w) - 1
      /\ \A i \in 1..(Len(w) - 1) : v[i] = w[i + 1]
  BY WireShorter
<1> HIDE DEF v
<1>2. \A i \in 1..Len(v) : i + 1 \in 1..Len(w) /\ v[i] = w[i + 1]
  BY <1>1
<1>3. \A i, j \in 1..Len(v) : i < j => i + 1 < j + 1
  BY <1>1
<1>4. Climbs(v)
  BY <1>2, <1>3 DEF Climbs
<1> QED BY <1>4 DEF v

(* Nothing kept names a delta that was not emitted, or a time to come.     *)
LEMMA StatesKnown ==
  ASSUME Typed, Typed', Known, Kept' \subseteq Kept \cup {live'}, Pipe' \subseteq Pipe,
         clock <= clock', emitted <= emitted', StateKnown(live)'
  PROVE  (\A y \in Kept : StateKnown(y))' /\ (\A d \in Pipe : DeltaKnown(d))'
<1>1. clock \in Nat /\ clock' \in Nat /\ emitted \in Nat /\ emitted' \in Nat
  BY DEF Typed
<1>2. ASSUME NEW y \in Kept PROVE StateKnown(y)'
  <2>1. y \in Transcript /\ StateKnown(y)
    BY StatesTyped DEF Known
  <2>2. y.at \in Nat /\ y.text \in Seq(1..MaxDelta)
    BY <2>1 DEF Transcript
  <2>3. \A k \in 1..Len(y.text) : y.text[k] \in Nat
    BY <2>2, TextIds
  <2> QED BY <1>1, <2>1, <2>2, <2>3 DEF StateKnown
<1>3. ASSUME NEW d \in Pipe PROVE DeltaKnown(d)'
  <2>1. d \in Delta /\ DeltaKnown(d)
    BY StatesTyped DEF Known
  <2>2. d.ts \in Nat /\ d.id \in Nat
    BY <2>1 DEF Delta
  <2> QED BY <1>1, <2>1, <2>2 DEF DeltaKnown
<1>4. \A y \in Kept' : StateKnown(y)'
  BY <1>2
<1>5. \A d \in Pipe' : DeltaKnown(d)'
  BY <1>3
<1> QED BY <1>4, <1>5

(* A state that has a delta is at least as late as it.                     *)
LEMMA StampsKept ==
  ASSUME Stamped, Kept' \subseteq Kept \cup {live'}, Pipe' \subseteq Pipe,
         \A d \in Pipe : StampFits(d, live')
  PROVE  Stamped'
<1>1. \A d \in Pipe', y \in Kept' : StampFits(d, y)
  BY DEF Stamped
<1> QED BY <1>1 DEF Stamped

(* The live state is touched at a later instant: what is on its way is older.*)
LEMMA StampsLater ==
  ASSUME Typed, Known, live'.at = clock + 1
  PROVE  \A d \in Pipe : StampFits(d, live')
<1>1. ASSUME NEW d \in Pipe PROVE StampFits(d, live')
  <2>1. d.ts <= clock /\ d.ts \in Nat /\ clock \in Nat
    BY StatesTyped DEF Known, DeltaKnown, Typed, Delta
  <2>2. d.ts <= live'.at
    BY <2>1
  <2> QED BY <2>2 DEF StampFits
<1> QED BY <1>1

(* What raised the slips leaves no point clean.                             *)
LEMMA NothingClean ==
  ASSUME Typed, Typed', slips' = slips + 1, healed' = healed,
         \A i \in 1..Len(wire)' : wire[i]'.kind = "state" => wire[i]'.covers <= slips
  PROVE  Tracked' /\ Accepting'
<1>1. healed' # slips'
  BY DEF Typed
<1>2. ASSUME NEW i \in 1..Len(wire)', CleanAt(i)' PROVE FALSE
  <2>1. wire'[i].kind = "state" /\ wire'[i].covers = slips + 1
    BY <1>2 DEF CleanAt
  <2> QED BY <2>1 DEF Typed
<1> QED BY <1>1, <1>2 DEF Tracked, Accepting

(* No state on the wire covers more than was slipped.                      *)
LEMMA CoversBelow ==
  ASSUME Typed, Counted
  PROVE  \A i \in 1..Len(wire) : wire[i].kind = "state" => wire[i].covers \in Nat /\ wire[i].covers <= slips
<1>1. ASSUME NEW i \in 1..Len(wire), wire[i].kind = "state" PROVE wire[i].covers \in Nat /\ wire[i].covers <= slips
  <2>1. wire[i] \in Message
    BY DEF Typed
  <2> QED BY <1>1, <2>1, MessageIs DEF Counted, CountFits
<1> QED BY <1>1

(* flushBatch: what was held goes on the wire.                             *)
LEMMA FlushBatchFollows ==
  ASSUME Follows, FlushBatch PROVE Follows'
<1> DEFINE m == [kind |-> "stream", batch |-> sendBatch]
<1>0. Typed /\ Known /\ Stamped /\ PublicFits /\ Ordered /\ Counted /\ Tracked /\ Accepting
  BY DEF Follows
<1>1. wire \in Seq(Message) /\ sendBatch \in Seq(Delta) /\ live.text \in Seq(1..MaxDelta)
  BY <1>0 DEF Typed, Transcript
<1>2. m \in Message /\ m.kind = "stream" /\ m.kind # "state" /\ m.batch = sendBatch
  BY <1>1 DEF Message, StreamMessage
<1>3. wire' = wire \o <<m>>
  BY DEF FlushBatch, Stream
<1>4. sendBatch' = <<>> /\ UNCHANGED <<live, saved, clock, reply, view, viewBatch, slips, healed, emitted, rounds>>
  BY DEF FlushBatch
<1> HIDE DEF m
<1>5. wire' = Append(wire, m)
  BY <1>1, <1>2, <1>3, JoinedOne
<1>6. /\ wire' \in Seq(Message) /\ Len(wire) \in Nat /\ Len(wire') = Len(wire) + 1 /\ wire'[Len(wire) + 1] = m
      /\ \A i \in 1..Len(wire) : wire'[i] = wire[i]
  BY <1>1, <1>2, <1>5, WireLonger
<1>7. Typed'
  BY <1>0, <1>4, <1>6, NothingIn DEF Typed
<1>8. PublicState' = PublicState
  BY <1>4 DEF PublicState
<1>9. ShownIn(wire') = ShownIn(wire) /\ StreamedIn(wire') = StreamedIn(wire) \cup Elements(sendBatch)
  BY <1>1, <1>2, <1>5, WireGains
<1>10. Kept' \subseteq Kept \cup {live'} /\ Pipe' \subseteq Pipe
  BY <1>4, <1>8, <1>9, NothingIn DEF Kept, Pipe
<1>11. StateKnown(live)' /\ (\A d \in Pipe : StampFits(d, live'))
  BY <1>0, <1>4 DEF Known, Stamped, Kept, StateKnown
<1>12. clock <= clock' /\ emitted <= emitted'
  BY <1>0, <1>4 DEF Typed
<1>13. Known'
  <2>1. (\A y \in Kept : StateKnown(y))' /\ (\A d \in Pipe : DeltaKnown(d))'
    BY <1>0, <1>7, <1>10, <1>11, <1>12, StatesKnown
  <2> QED BY <1>0, <1>4, <2>1 DEF Known
<1>14. Stamped'
  BY <1>0, <1>10, <1>11, StampsKept
<1>15. PublicFits'
  BY <1>0, <1>4, <1>8 DEF PublicFits
<1>16. Ordered'
  <2>1. Climbs(wire')
    BY <1>0, <1>1, <1>2, <1>5, ClimbsMore DEF Ordered
  <2> QED BY <1>0, <1>4, <1>8, <1>9, <2>1 DEF Ordered
<1>17. \A i \in 1..Len(wire') : wire'[i].kind = "state" => i \in 1..Len(wire) /\ wire'[i] = wire[i]
  BY <1>2, <1>6
<1>18. Counted'
  BY <1>0, <1>4, <1>17 DEF Counted, CountFits
<1>19. Tracked'
  <2>1. ASSUME healed' = slips' PROVE ViewOnWay'
    <3>1. PICK p : /\ Way(wire, p, live.text, 0, sendBatch)
                   /\ p[0] = Len(view.text) + Len(viewBatch)
                   /\ Begins(view.text, live.text)
                   /\ ComesNext(Len(view.text), viewBatch, live.text)
      BY <1>0, <1>4, <2>1 DEF Tracked, ViewOnWay
    <3>2. 0 \in 0..Len(wire)
      BY <1>6
    <3>3. PICK q : Way(wire', q, live.text, 0, <<>>) /\ q[0] = p[0]
      BY <1>1, <1>2, <1>5, <3>1, <3>2, WayFlushed
    <3> QED BY <1>4, <3>1, <3>3 DEF ViewOnWay
  <2>2. ASSUME NEW i \in 1..Len(wire'), CleanAt(i)' PROVE StateOnWay(i)'
    <3>1. i \in 1..Len(wire) /\ wire'[i] = wire[i] /\ CleanAt(i)
      BY <1>4, <1>17, <2>2 DEF CleanAt
    <3>2. PICK p : /\ Way(wire, p, live.text, i, sendBatch)
                   /\ p[i] = Len(wire[i].state.text)
                   /\ Begins(wire[i].state.text, live.text)
      BY <1>0, <3>1 DEF Tracked, StateOnWay
    <3>3. i \in 0..Len(wire)
      BY <1>6, <3>1
    <3>4. PICK q : Way(wire', q, live.text, i, <<>>) /\ q[i] = p[i]
      BY <1>1, <1>2, <1>5, <3>2, <3>3, WayFlushed
    <3> QED BY <1>4, <3>1, <3>2, <3>4 DEF StateOnWay
  <2> QED BY <2>1, <2>2 DEF Tracked
<1>20. Accepting'
  BY <1>0, <1>4, <1>8, <1>9 DEF Accepting
<1> QED BY <1>7, <1>13, <1>14, <1>15, <1>16, <1>18, <1>19, <1>20 DEF Follows

(* A delta of the provider, applied here and held for the client.          *)
LEMMA ProviderDeltaFollows ==
  ASSUME Follows, ProviderDelta PROVE Follows'
<1> PICK d : d = [id |-> emitted + 1, ts |-> clock + 1]
  OBVIOUS
<1>0. Typed /\ Known /\ Stamped /\ PublicFits /\ Ordered /\ Counted /\ Tracked /\ Accepting
  BY DEF Follows
<1>1. /\ wire \in Seq(Message) /\ sendBatch \in Seq(Delta) /\ live \in Transcript /\ live.text \in Seq(1..MaxDelta)
      /\ clock \in Nat /\ emitted \in Nat /\ emitted < MaxDelta /\ MaxDelta \in Nat
  BY <1>0, SyncAssumption DEF Typed, Transcript, ProviderDelta
<1>2. d \in Delta /\ d.id = emitted + 1 /\ d.ts = clock + 1
  BY <1>1 DEF Delta
<1>3. /\ live' = [live EXCEPT !.text = Append(live.text, d.id), !.at = clock + 1] /\ clock' = clock + 1
      /\ sendBatch' = Append(sendBatch, d) /\ emitted' = emitted + 1
      /\ UNCHANGED <<rounds, saved, wire, reply, view, viewBatch, slips, healed>>
  BY DEF ProviderDelta
<1>4. /\ live'.text = Append(live.text, d.id) /\ live'.at = clock + 1 /\ live'.version = live.version
      /\ live'.loaded = live.loaded
  BY <1>1, <1>3 DEF Transcript
<1>5. /\ live'.text \in Seq(1..MaxDelta) /\ Len(live.text) \in Nat /\ Len(live'.text) = Len(live.text) + 1
      /\ live'.text[Len(live.text) + 1] = emitted + 1
      /\ \A i \in 1..Len(live.text) : live'.text[i] = live.text[i]
      /\ \A t : Len(t) \in Nat /\ Begins(t, live.text) => Begins(t, live'.text)
      /\ \A n, c : n \in Nat /\ Len(c) \in Nat /\ ComesNext(n, c, live.text) => ComesNext(n, c, live'.text)
  BY <1>1, <1>2, <1>4, Grown
<1>6. live' \in Transcript
  <2>1. live' = [text |-> Append(live.text, d.id), version |-> live.version, at |-> clock + 1, loaded |-> live.loaded]
    BY <1>1, <1>3 DEF Transcript
  <2>2. Append(live.text, d.id) \in Seq(1..MaxDelta)
    BY <1>4, <1>5
  <2> QED BY <1>1, <2>1, <2>2 DEF Transcript
<1>7. sendBatch' \in Seq(Delta) /\ Elements(sendBatch') \subseteq Elements(sendBatch) \cup {d}
  BY <1>1, <1>2, <1>3, BatchLonger
<1>31. clock \in Nat /\ emitted \in Nat /\ clock' = clock + 1 /\ emitted' = emitted + 1
  BY <1>1, <1>3
<1>32. clock' \in Nat /\ emitted' \in Nat /\ emitted' <= MaxDelta
  <2>1. emitted + 1 <= MaxDelta
    BY <1>1
  <2> QED BY <1>31, <2>1
<1>8. Typed'
  BY <1>0, <1>3, <1>6, <1>7, <1>32 DEF Typed
<1>9. saved = NoCommand => PublicState = live /\ PublicState' = live'
  BY <1>3 DEF PublicState
<1>10. saved # NoCommand => PublicState' = PublicState
  BY <1>3 DEF PublicState
<1>11. PublicState \in Transcript /\ PublicState' \in Transcript
  <2>1. PublicState \in Transcript
    BY <1>0, StatesTyped
  <2> QED BY <1>6, <1>9, <1>10, <2>1
<1>12. Kept' \subseteq Kept \cup {live'} /\ Pipe' \subseteq Pipe \cup {d}
  BY <1>3, <1>7, <1>9, <1>10 DEF Kept, Pipe
<1>13. live \in Kept /\ StateKnown(live) /\ live.at \in Nat /\ live.at <= clock /\ live.loaded
  BY <1>0, <1>1 DEF Known, Kept, StateKnown, Transcript
<1>14. ASSUME NEW k \in 1..Len(live'.text) PROVE live'.text[k] <= emitted + 1
  <2>1. CASE k = Len(live.text) + 1
    BY <1>1, <1>5, <2>1
  <2>2. CASE k # Len(live.text) + 1
    <3>1. k \in 1..Len(live.text)
      BY <1>5, <2>2
    <3>2. live'.text[k] = live.text[k]
      BY <1>5, <3>1
    <3>3. live.text[k] <= emitted /\ live.text[k] \in Nat
      BY <1>1, <1>13, <3>1, TextIds DEF StateKnown
    <3> QED BY <1>1, <3>2, <3>3
  <2> QED BY <2>1, <2>2
<1>15. Known'
  <2>1. ASSUME NEW y \in Kept PROVE StateKnown(y)'
    <3>1. y \in Transcript /\ StateKnown(y)
      BY <1>0, StatesTyped DEF Known
    <3>2. y.at \in Nat /\ y.text \in Seq(1..MaxDelta)
      BY <3>1 DEF Transcript
    <3>3. \A k \in 1..Len(y.text) : y.text[k] \in Nat
      BY <3>2, TextIds
    <3>4. y.loaded /\ y.at <= clock' /\ \A k \in 1..Len(y.text) : y.text[k] <= emitted'
      <4>1. y.loaded /\ y.at <= clock /\ \A k \in 1..Len(y.text) : y.text[k] <= emitted
        BY <3>1 DEF StateKnown
      <4> QED BY <1>31, <3>2, <3>3, <4>1
    <3> QED BY <3>4 DEF StateKnown
  <2>2. StateKnown(live)'
    <3>1. live'.loaded /\ live'.at <= clock' /\ \A k \in 1..Len(live'.text) : live'.text[k] <= emitted'
      <4>1. live'.at <= clock'
        BY <1>4, <1>31
      <4>2. live'.loaded
        BY <1>4, <1>13
      <4> QED BY <1>14, <1>31, <4>1, <4>2
    <3> QED BY <3>1 DEF StateKnown
  <2>3. \A y \in Kept' : StateKnown(y)'
    BY <1>12, <2>1, <2>2
  <2>4. ASSUME NEW e \in Pipe PROVE DeltaKnown(e)'
    <3>1. e \in Delta /\ DeltaKnown(e)
      BY <1>0, StatesTyped DEF Known
    <3>2. e.ts \in Nat /\ e.id \in Nat
      BY <3>1 DEF Delta
    <3> QED BY <1>1, <1>3, <3>1, <3>2 DEF DeltaKnown
  <2>5. DeltaKnown(d)'
    BY <1>1, <1>2, <1>3 DEF DeltaKnown
  <2>6. \A e \in Pipe' : DeltaKnown(e)'
    BY <1>12, <2>4, <2>5
  <2>7. Rising(live'.text)
    <3> SUFFICES ASSUME NEW i \in 1..Len(live'.text), NEW j \in 1..Len(live'.text), i < j
                 PROVE  live'.text[i] < live'.text[j]
      BY DEF Rising
    <3>1. i \in 1..Len(live.text)
      BY <1>5
    <3>2. live'.text[i] = live.text[i] /\ live.text[i] \in Nat /\ live.text[i] <= emitted
      BY <1>1, <1>5, <1>13, <3>1, TextIds DEF StateKnown
    <3>3. CASE j \in 1..Len(live.text)
      BY <1>0, <1>5, <3>1, <3>3 DEF Known, Rising
    <3>4. CASE j = Len(live.text) + 1
      <4>1. live'.text[j] = emitted + 1
        BY <1>5, <3>4
      <4> QED BY <1>31, <3>2, <4>1
    <3> QED BY <1>5, <3>3, <3>4
  <2>8. view'.at <= clock' /\ (reply' # NoReply => reply'.state.at <= clock' /\ reply'.state.loaded)
    <3>1. view.at \in Nat /\ view.at <= clock
      BY <1>0 DEF Typed, Known, Transcript
    <3>2. reply # NoReply => reply.state.at \in Nat /\ reply.state.at <= clock /\ reply.state.loaded
      BY <1>0, StatesTyped DEF Known, Transcript
    <3> QED BY <1>1, <1>3, <3>1, <3>2
  <2> QED BY <2>3, <2>6, <2>7, <2>8 DEF Known
<1>16. Stamped'
  <2>1. ASSUME NEW e \in Pipe PROVE StampFits(e, live')
    BY <1>0, <1>4, StampsLater
  <2>2. StampFits(d, live')
    BY <1>1, <1>2, <1>4 DEF StampFits
  <2>3. ASSUME NEW y \in Kept PROVE StampFits(d, y)
    <3>1. y \in Transcript /\ StateKnown(y)
      BY <1>0, StatesTyped DEF Known
    <3>4. y.text \in Seq(1..MaxDelta)
      BY <3>1 DEF Transcript
    <3>2. \A k \in 1..Len(y.text) : y.text[k] <= emitted /\ y.text[k] \in Nat
      BY <3>1, <3>4, TextIds DEF StateKnown
    <3>3. \A k \in 1..Len(y.text) : y.text[k] # d.id
      BY <1>1, <1>2, <3>2
    <3> QED BY <3>3 DEF StampFits
  <2>4. \A e \in Pipe', y \in Kept' : StampFits(e, y)
    BY <1>0, <1>12, <2>1, <2>2, <2>3 DEF Stamped
  <2> QED BY <2>4 DEF Stamped
<1>17. PublicState.version = live.version /\ PublicState.at <= live.at /\ Begins(PublicState.text, live.text)
       /\ PublicState.at \in Nat /\ Len(PublicState.text) \in Nat
  BY <1>0, <1>11 DEF PublicFits, Transcript
<1>18. PublicFits'
  <2>1. CASE saved = NoCommand
    <3>1. Begins(live'.text, live'.text)
      BY <1>5 DEF Begins
    <3>2. PublicState' = live' /\ live'.at <= live'.at
      BY <1>1, <1>4, <1>9, <2>1
    <3> QED BY <3>1, <3>2 DEF PublicFits
  <2>2. CASE saved # NoCommand
    <3>1. Begins(PublicState.text, live'.text)
      BY <1>5, <1>17
    <3> QED BY <1>1, <1>4, <1>10, <1>13, <1>17, <2>2, <3>1 DEF PublicFits
  <2> QED BY <2>1, <2>2
<1>19. NotAfter(PublicState, PublicState')
  <2>1. CASE saved = NoCommand
    BY <1>1, <1>4, <1>9, <1>13, <2>1 DEF NotAfter
  <2>2. CASE saved # NoCommand
    BY <1>10, <1>11, <2>2, NotAfterOrder
  <2> QED BY <2>1, <2>2
<1>20. Ordered'
  <2>1. ASSUME NEW y \in ShownIn(wire) PROVE NotAfter(y, PublicState')
    <3>1. y \in Transcript /\ NotAfter(y, PublicState)
      BY <1>0, <1>1, ShownAre DEF Ordered
    <3> QED BY <1>11, <1>19, <3>1, NotAfterOrder
  <2>2. reply # NoReply => NotAfter(reply.state, PublicState')
    <3>1. reply # NoReply => reply.state \in Transcript /\ NotAfter(reply.state, PublicState)
      BY <1>0, StatesTyped DEF Ordered
    <3> QED BY <1>11, <1>19, <3>1, NotAfterOrder
  <2> QED BY <1>0, <1>3, <1>4, <2>1, <2>2 DEF Ordered
<1>21. Counted'
  BY <1>0, <1>3 DEF Counted, CountFits
<1>22. Tracked'
  <2>1. ASSUME healed' = slips' PROVE ViewOnWay'
    <3>1. PICK p : /\ Way(wire, p, live.text, 0, sendBatch)
                   /\ p[0] = Len(view.text) + Len(viewBatch)
                   /\ Begins(view.text, live.text)
                   /\ ComesNext(Len(view.text), viewBatch, live.text)
      BY <1>0, <1>3, <2>1 DEF Tracked, ViewOnWay
    <3>2. 0 \in 0..Len(wire) /\ Len(view.text) \in Nat /\ Len(viewBatch) \in Nat
      BY <1>0 DEF Typed, Transcript
    <3>3. Way(wire, p, live'.text, 0, sendBatch')
      BY <1>1, <1>2, <1>3, <1>4, <3>1, <3>2, WayGrown
    <3>4. Begins(view.text, live'.text) /\ ComesNext(Len(view.text), viewBatch, live'.text)
      BY <1>5, <3>1, <3>2
    <3> QED BY <1>3, <3>1, <3>3, <3>4 DEF ViewOnWay
  <2>2. ASSUME NEW i \in 1..Len(wire'), CleanAt(i)' PROVE StateOnWay(i)'
    <3>1. i \in 1..Len(wire) /\ CleanAt(i) /\ wire[i].kind = "state" /\ wire[i] \in Message
      BY <1>1, <1>3, <2>2 DEF CleanAt
    <3>2. PICK p : /\ Way(wire, p, live.text, i, sendBatch)
                   /\ p[i] = Len(wire[i].state.text)
                   /\ Begins(wire[i].state.text, live.text)
      BY <1>0, <3>1 DEF Tracked, StateOnWay
    <3>3. i \in 0..Len(wire) /\ Len(wire[i].state.text) \in Nat
      BY <1>1, <3>1, MessageIs DEF Transcript
    <3>4. Way(wire, p, live'.text, i, sendBatch')
      BY <1>1, <1>2, <1>3, <1>4, <3>2, <3>3, WayGrown
    <3>5. Begins(wire[i].state.text, live'.text)
      BY <1>5, <3>2, <3>3
    <3> QED BY <1>3, <3>2, <3>4, <3>5 DEF StateOnWay
  <2> QED BY <2>1, <2>2 DEF Tracked
<1>23. Accepting'
  <2> SUFFICES ASSUME healed = slips
               PROVE  /\ view.loaded /\ \A y \in ShownIn(wire) : NotAfter(view, y)
                      /\ PublicState'.text = live'.text => NotAfter(view, PublicState')
    BY <1>3 DEF Accepting
  <2>1. /\ view.loaded /\ \A y \in ShownIn(wire) : NotAfter(view, y)
        /\ PublicState.text = live.text => NotAfter(view, PublicState)
    BY <1>0 DEF Accepting
  <2>2. CASE saved = NoCommand
    <3>1. view \in Transcript /\ NotAfter(view, PublicState)
      BY <1>0, <1>9, <2>1, <2>2 DEF Typed
    <3>2. NotAfter(view, PublicState')
      BY <1>11, <1>19, <3>1, NotAfterOrder
    <3> QED BY <2>1, <3>2
  <2>3. CASE saved # NoCommand
    <3>1. Len(PublicState.text) <= Len(live.text)
      BY <1>17 DEF Begins
    <3>2. Len(PublicState'.text) # Len(live'.text)
      BY <1>5, <1>10, <1>17, <2>3, <3>1
    <3> QED BY <2>1, <3>2
  <2> QED BY <2>2, <2>3
<1> QED BY <1>8, <1>15, <1>16, <1>18, <1>20, <1>21, <1>22, <1>23 DEF Follows

(* A state whose version and instant are set.                               *)
LEMMA Touched ==
  ASSUME NEW s \in Transcript, NEW v \in Nat, NEW a \in Nat
  PROVE  /\ [s EXCEPT !.version = v, !.at = a] = [text |-> s.text, version |-> v, at |-> a, loaded |-> s.loaded]
         /\ [s EXCEPT !.at = a] = [text |-> s.text, version |-> s.version, at |-> a, loaded |-> s.loaded]
         /\ [text |-> s.text, version |-> v, at |-> a, loaded |-> s.loaded] \in Transcript
<1>1. s.text \in Seq(1..MaxDelta) /\ s.loaded \in BOOLEAN
  BY DEF Transcript
<1>2. s = [text |-> s.text, version |-> s.version, at |-> s.at, loaded |-> s.loaded]
  BY DEF Transcript
<1>3. [s EXCEPT !.version = v, !.at = a] = [text |-> s.text, version |-> v, at |-> a, loaded |-> s.loaded]
  <2>1. [s EXCEPT !.version = v, !.at = a] \in Transcript
    BY <1>1 DEF Transcript
  <2>2. PICK r : r = [s EXCEPT !.version = v, !.at = a]
    OBVIOUS
  <2>3. r.text = s.text /\ r.version = v /\ r.at = a /\ r.loaded = s.loaded
    BY <2>2 DEF Transcript
  <2>4. r \in Transcript
    BY <2>1, <2>2
  <2>5. r = [text |-> s.text, version |-> v, at |-> a, loaded |-> s.loaded]
    BY <2>3, <2>4 DEF Transcript
  <2> QED BY <2>2, <2>5
<1>4. [s EXCEPT !.at = a] = [text |-> s.text, version |-> s.version, at |-> a, loaded |-> s.loaded]
  BY <1>2
<1>5. [text |-> s.text, version |-> v, at |-> a, loaded |-> s.loaded] \in Transcript
  BY <1>1 DEF Transcript
<1> QED BY <1>3, <1>4, <1>5

(* A step that changes neither what is on its way nor what a reader sees.    *)
LEMMA NothingMoves ==
  ASSUME Follows, Typed', PublicState' = PublicState,
         UNCHANGED <<live, clock, sendBatch, wire, view, viewBatch, slips, healed, emitted>>,
         reply' # NoReply => reply'.state.at <= clock /\ reply'.state.loaded /\ NotAfter(reply'.state, PublicState)
  PROVE  Follows'
<1>0. Typed /\ Known /\ Stamped /\ PublicFits /\ Ordered /\ Counted /\ Tracked /\ Accepting
  BY DEF Follows
<1>1. Kept' = Kept /\ Pipe' = Pipe
  BY DEF Kept, Pipe
<1>2. Known'
  <2>1. \A y : StateKnown(y)' = StateKnown(y)
    BY DEF StateKnown
  <2>2. \A d : DeltaKnown(d)' = DeltaKnown(d)
    BY DEF DeltaKnown
  <2>3. (\A y \in Kept' : StateKnown(y)') /\ (\A d \in Pipe' : DeltaKnown(d)')
    BY <1>0, <1>1, <2>1, <2>2 DEF Known
  <2> QED BY <1>0, <2>3 DEF Known
<1>3. Stamped'
  BY <1>0, <1>1 DEF Stamped
<1>4. PublicFits' /\ Ordered'
  BY <1>0 DEF PublicFits, Ordered
<1>5. Counted'
  BY <1>0 DEF Counted, CountFits
<1>6. Tracked'
  <2>1. ViewOnWay' = ViewOnWay
    BY DEF ViewOnWay
  <2>2. \A i : StateOnWay(i)' = StateOnWay(i) /\ CleanAt(i)' = CleanAt(i)
    BY DEF StateOnWay, CleanAt
  <2> QED BY <1>0, <2>1, <2>2 DEF Tracked
<1>7. Accepting'
  BY <1>0 DEF Accepting
<1> QED BY <1>2, <1>3, <1>4, <1>5, <1>6, <1>7 DEF Follows

(* A command keeps a copy of the state.                                    *)
LEMMA OpenCommandFollows ==
  ASSUME Follows, OpenCommand PROVE Follows'
<1>0. Typed /\ Known /\ Ordered
  BY DEF Follows
<1>1. /\ saved = NoCommand /\ saved' = [open |-> TRUE, state |-> live] /\ rounds' = rounds + 1
      /\ UNCHANGED <<live, clock, sendBatch, wire, reply, view, viewBatch, slips, healed, emitted>>
  BY DEF OpenCommand, Round
<1>2. Typed'
  <2>1. saved' \in [open : {TRUE}, state : Transcript]
    BY <1>0, <1>1 DEF Typed
  <2>2. rounds' \in Nat
    BY <1>0, <1>1 DEF Typed
  <2> QED BY <1>0, <1>1, <2>1, <2>2 DEF Typed
<1>3. PublicState' = PublicState
  <2>1. PublicState = live
    BY <1>1 DEF PublicState
  <2>2. saved'.state = live
    BY <1>1
  <2>3. PublicState' = live
    BY <1>1, <2>2 DEF PublicState
  <2> QED BY <2>1, <2>3
<1>4. reply' # NoReply => reply'.state.at <= clock /\ reply'.state.loaded /\ NotAfter(reply'.state, PublicState)
  BY <1>0, <1>1 DEF Known, Ordered
<1> QED BY <1>1, <1>2, <1>3, <1>4, NothingMoves

(* The client asks for the state.                                          *)
LEMMA AskStateFollows ==
  ASSUME Follows, AskState PROVE Follows'
<1>0. Typed /\ Known /\ Ordered
  BY DEF Follows
<1>1. /\ reply' = [on |-> TRUE, state |-> PublicState, seen |-> emitted, covers |-> slips] /\ rounds' = rounds + 1
      /\ UNCHANGED <<live, saved, clock, sendBatch, wire, view, viewBatch, slips, healed, emitted>>
  BY DEF AskState, Round
<1>2. PublicState \in Transcript
  BY <1>0, StatesTyped
<1>3. Typed'
  <2>1. reply' \in [on : {TRUE}, state : Transcript, seen : Nat, covers : Nat]
    BY <1>0, <1>1, <1>2 DEF Typed
  <2>2. rounds' \in Nat
    BY <1>0, <1>1 DEF Typed
  <2> QED BY <1>0, <1>1, <2>1, <2>2 DEF Typed
<1>4. PublicState' = PublicState
  BY <1>1 DEF PublicState
<1>5. reply'.state = PublicState
  BY <1>1
<1>6. PublicState.at <= clock /\ PublicState.loaded
  BY <1>0 DEF Known, Kept, StateKnown
<1>7. NotAfter(PublicState, PublicState)
  BY <1>2, NotAfterOrder
<1> QED BY <1>1, <1>3, <1>4, <1>5, <1>6, <1>7, NothingMoves

(* A snapshot with the whole text is put on the wire.                       *)
LEMMA PublishedTracked ==
  ASSUME Typed, Tracked, NEW CONSTANT m, m \in Message, m.kind = "state", wire' = Append(wire, m),
         m.state.text = live'.text, live'.text = live.text, sendBatch' = <<>>,
         UNCHANGED <<view, viewBatch, slips, healed>>
  PROVE  Tracked'
<1>1. wire \in Seq(Message) /\ sendBatch \in Seq(Delta) /\ live.text \in Seq(1..MaxDelta)
  BY DEF Typed, Transcript
<1>6. /\ wire' \in Seq(Message) /\ Len(wire) \in Nat /\ Len(wire') = Len(wire) + 1 /\ wire'[Len(wire) + 1] = m
      /\ \A i \in 1..Len(wire) : wire'[i] = wire[i]
  BY <1>1, WireLonger
<1>2. ASSUME healed' = slips' PROVE ViewOnWay'
  <2>1. PICK p : /\ Way(wire, p, live.text, 0, sendBatch)
                 /\ p[0] = Len(view.text) + Len(viewBatch)
                 /\ Begins(view.text, live.text)
                 /\ ComesNext(Len(view.text), viewBatch, live.text)
    BY <1>2 DEF Tracked, ViewOnWay
  <2>2. 0 \in 0..Len(wire)
    BY <1>6
  <2>3. PICK q : Way(wire', q, live.text, 0, <<>>) /\ q[0] = p[0]
    <3>1. m.state.text = live.text
      OBVIOUS
    <3>2. \E q : Way(Append(wire, m), q, live.text, 0, <<>>) /\ q[0] = p[0]
      BY <1>1, <2>1, <2>2, <3>1, WayPublished
    <3> QED BY <3>2
  <2> QED BY <2>1, <2>3 DEF ViewOnWay
<1>3. ASSUME NEW i \in 1..Len(wire'), CleanAt(i)' PROVE StateOnWay(i)'
  <2>1. CASE i = Len(wire) + 1
    <3>1. PICK q : Way(wire', q, live.text, Len(wire'), <<>>) /\ q[Len(wire')] = Len(live.text)
      BY <1>1, <1>6, WayHere
    <3>2. wire'[i] = m /\ i = Len(wire')
      BY <1>6, <2>1
    <3>3. Begins(live.text, live.text)
      BY <1>1 DEF Begins
    <3> QED BY <3>1, <3>2, <3>3 DEF StateOnWay
  <2>2. CASE i # Len(wire) + 1
    <3>1. i \in 1..Len(wire) /\ wire'[i] = wire[i]
      BY <1>6, <2>2
    <3>2. CleanAt(i)
      BY <1>3, <3>1 DEF CleanAt
    <3>3. PICK p : /\ Way(wire, p, live.text, i, sendBatch)
                   /\ p[i] = Len(wire[i].state.text)
                   /\ Begins(wire[i].state.text, live.text)
      BY <3>1, <3>2 DEF Tracked, StateOnWay
    <3>4. i \in 0..Len(wire)
      BY <1>6, <3>1
    <3>5. PICK q : Way(wire', q, live.text, i, <<>>) /\ q[i] = p[i]
      BY <1>1, <3>3, <3>4, WayPublished
    <3> QED BY <3>1, <3>3, <3>5 DEF StateOnWay
  <2> QED BY <2>1, <2>2
<1> QED BY <1>2, <1>3 DEF Tracked

(* A state is published after what was held, with a new time.              *)
LEMMA PublishedFollows ==
  ASSUME Follows, Typed', NEW CONSTANT m, m \in Message, m.kind = "state", wire' = Append(wire, m),
         sendBatch' = <<>>, clock' = clock + 1,
         live'.text = live.text, live'.at = clock + 1, live'.loaded = live.loaded, live.version <= live'.version,
         m.state = PublicState', PublicState' \in {PublicState, live'}, NotAfter(PublicState, PublicState'), PublicFits',
         m.covers = slips, slips' = (IF m.fresh THEN slips ELSE slips + 1),
         m.fresh => m.state.text = live.text /\ (PublicState.text = live.text \/ live.version < PublicState'.version),
         UNCHANGED <<view, viewBatch, reply, healed, emitted>>
  PROVE  Follows'
<1>0. Typed /\ Known /\ Stamped /\ PublicFits /\ Ordered /\ Counted /\ Tracked /\ Accepting
  BY DEF Follows
<1>1. wire \in Seq(Message) /\ slips \in Nat /\ healed \in Nat /\ healed <= slips /\ clock \in Nat /\ emitted \in Nat
  BY <1>0 DEF Typed
<1>2. ShownIn(wire') = ShownIn(wire) \cup {PublicState'} /\ StreamedIn(wire') = StreamedIn(wire)
  BY <1>1, WireGains
<1>3. /\ wire' \in Seq(Message) /\ Len(wire) \in Nat /\ Len(wire') = Len(wire) + 1 /\ wire'[Len(wire) + 1] = m
      /\ \A i \in 1..Len(wire) : wire'[i] = wire[i]
  BY <1>1, WireLonger
<1>4. Kept' \subseteq Kept \cup {live'} /\ Pipe' \subseteq Pipe
  BY <1>2, NothingIn DEF Kept, Pipe
<1>5. live' \in Transcript /\ live \in Transcript /\ view \in Transcript /\ PublicState \in Transcript
  BY <1>0, StatesTyped DEF Typed
<1>6. PublicState' \in Transcript
  BY <1>5
<1>7. StateKnown(live)'
  <2>1. StateKnown(live)
    BY <1>0 DEF Known, Kept
  <2>2. live'.loaded /\ live'.at <= clock' /\ \A k \in 1..Len(live'.text) : live'.text[k] <= emitted'
    BY <1>1, <2>1 DEF StateKnown
  <2> QED BY <2>2 DEF StateKnown
<1>8. clock <= clock' /\ emitted <= emitted'
  BY <1>1
<1>9. Known'
  <2>1. (\A y \in Kept : StateKnown(y))' /\ (\A d \in Pipe : DeltaKnown(d))'
    BY <1>0, <1>4, <1>7, <1>8, StatesKnown
  <2>2. Rising(live'.text)
    BY <1>0 DEF Known
  <2>3. view'.at <= clock'
    <3>1. view.at \in Nat /\ view.at <= clock
      BY <1>0, <1>5 DEF Known, Transcript
    <3> QED BY <1>1, <3>1
  <2>4. reply' # NoReply => reply'.state.at <= clock' /\ reply'.state.loaded
    <3>1. reply # NoReply => reply.state.at \in Nat /\ reply.state.at <= clock /\ reply.state.loaded
      BY <1>0, StatesTyped DEF Known, Transcript
    <3> QED BY <1>1, <3>1
  <2> QED BY <2>1, <2>2, <2>3, <2>4 DEF Known
<1>10. Stamped'
  BY <1>0, <1>4, StampsLater, StampsKept
<1>11. ASSUME NEW y \in ShownIn(wire) PROVE NotAfter(y, PublicState')
  <2>1. y \in Transcript /\ NotAfter(y, PublicState)
    BY <1>0, <1>1, ShownAre DEF Ordered
  <2> QED BY <1>5, <1>6, <2>1, NotAfterOrder
<1>12. Ordered'
  <2>1. ASSUME NEW i \in 1..Len(wire), wire[i].kind = "state"
        PROVE  NotAfter(wire[i].state, m.state) /\ wire[i].covers <= m.covers
    <3>1. wire[i].state \in ShownIn(wire)
      BY <1>1, <2>1, ShownAre
    <3>2. wire[i].covers <= slips
      BY <1>0, <2>1, CoversBelow
    <3> QED BY <1>11, <3>1, <3>2
  <2>2. Climbs(wire')
    BY <1>0, <1>1, <2>1, ClimbsMore DEF Ordered
  <2>3. \A y \in ShownIn(wire') : NotAfter(y, PublicState')
    BY <1>2, <1>6, <1>11, NotAfterOrder
  <2>4. reply # NoReply => NotAfter(reply.state, PublicState')
    <3>1. reply # NoReply => reply.state \in Transcript /\ NotAfter(reply.state, PublicState)
      BY <1>0, StatesTyped DEF Ordered
    <3> QED BY <1>5, <1>6, <3>1, NotAfterOrder
  <2>5. view.version <= live'.version
    <3>1. view.version \in Nat /\ live.version \in Nat /\ live'.version \in Nat /\ view.version <= live.version
      BY <1>0, <1>5 DEF Ordered, Transcript
    <3> QED BY <3>1
  <2> QED BY <2>2, <2>3, <2>4, <2>5 DEF Ordered
<1>13. Counted'
  <2>1. CountFits(m)'
    BY <1>1 DEF CountFits
  <2>2. ASSUME NEW i \in 1..Len(wire), wire[i].kind = "state" PROVE CountFits(wire[i])'
    <3>1. CountFits(wire[i]) /\ wire[i].covers \in Nat /\ wire[i].covers <= slips
      BY <1>0, <2>2, CoversBelow DEF Counted
    <3>2. healed <= wire'[i].covers /\ wire'[i].covers <= slips' /\ (~ wire'[i].fresh => wire'[i].covers < slips')
      BY <1>1, <1>3, <3>1 DEF CountFits
    <3> QED BY <3>2 DEF CountFits
  <2>3. ASSUME NEW i \in 1..Len(wire'), wire'[i].kind = "state" PROVE CountFits(wire[i])'
    <3>1. CASE i = Len(wire) + 1
      <4>1. wire'[i] = m
        BY <1>3, <3>1
      <4> QED BY <2>1, <4>1 DEF CountFits
    <3>2. CASE i # Len(wire) + 1
      <4>1. i \in 1..Len(wire) /\ wire'[i] = wire[i]
        BY <1>3, <3>2
      <4> QED BY <2>2, <2>3, <4>1
    <3> QED BY <3>1, <3>2
  <2> QED BY <2>3 DEF Counted
<1>14. CASE ~ m.fresh
  <2>1. ASSUME NEW i \in 1..Len(wire)', wire[i]'.kind = "state" PROVE wire[i]'.covers <= slips
    <3>1. CASE i = Len(wire) + 1
      BY <1>1, <1>3, <3>1
    <3>2. CASE i # Len(wire) + 1
      <4>1. i \in 1..Len(wire) /\ wire'[i] = wire[i]
        BY <1>3, <3>2
      <4> QED BY <1>0, <2>1, <4>1, CoversBelow
    <3> QED BY <3>1, <3>2
  <2>2. slips' = slips + 1
    BY <1>14
  <2>3. Tracked' /\ Accepting'
    BY <1>0, <2>1, <2>2, NothingClean
  <2> QED BY <1>9, <1>10, <1>12, <1>13, <2>3 DEF Follows
<1>15. CASE m.fresh
  <2>1. slips' = slips /\ m.state.text = live'.text
    BY <1>15
  <2>2. Tracked'
    BY <1>0, <2>1, PublishedTracked
  <2>3. Accepting'
    <3> SUFFICES ASSUME healed = slips
                 PROVE  /\ view.loaded /\ \A y \in ShownIn(wire') : NotAfter(view, y)
                        /\ NotAfter(view, PublicState')
      BY <2>1 DEF Accepting
    <3>1. /\ view.loaded /\ \A y \in ShownIn(wire) : NotAfter(view, y)
          /\ PublicState.text = live.text => NotAfter(view, PublicState)
      BY <1>0 DEF Accepting
    <3>2. NotAfter(view, PublicState')
      <4>1. CASE PublicState.text = live.text
        BY <1>5, <1>6, <3>1, <4>1, NotAfterOrder
      <4>2. CASE live.version < PublicState'.version
        <5>1. /\ view.version \in Nat /\ live.version \in Nat /\ PublicState'.version \in Nat
              /\ view.version <= live.version
          BY <1>0, <1>5, <1>6 DEF Ordered, Transcript
        <5>2. view.version < PublicState'.version
          BY <4>2, <5>1
        <5> QED BY <5>2 DEF NotAfter
      <4> QED BY <1>15, <4>1, <4>2
    <3> QED BY <1>2, <3>1, <3>2
  <2> QED BY <1>9, <1>10, <1>12, <1>13, <2>2, <2>3 DEF Follows
<1> QED BY <1>14, <1>15

(* A commit publishes its state.                                           *)
LEMMA CommitCommandFollows ==
  ASSUME Follows, CommitCommand PROVE Follows'
<1>0. Typed /\ Known /\ PublicFits
  BY DEF Follows
<1>1. /\ saved # NoCommand /\ live' = [live EXCEPT !.version = live.version + 1, !.at = clock + 1]
      /\ clock' = clock + 1 /\ saved' = NoCommand /\ sendBatch' = <<>> /\ wire' = Append(wire, Boundary(live', TRUE))
      /\ UNCHANGED <<reply, view, viewBatch, slips, healed, emitted, rounds>>
  BY DEF CommitCommand, publishState
<1>2. live \in Transcript /\ clock \in Nat /\ live.version \in Nat /\ slips \in Nat
  BY <1>0 DEF Typed, Transcript
<1>3. /\ live'.text = live.text /\ live'.at = clock + 1 /\ live'.version = live.version + 1
      /\ live'.loaded = live.loaded /\ live' \in Transcript
  <2>1. live.version + 1 \in Nat /\ clock + 1 \in Nat
    BY <1>2
  <2>2. live' = [text |-> live.text, version |-> live.version + 1, at |-> clock + 1, loaded |-> live.loaded]
    BY <1>1, <1>2, <2>1, Touched
  <2>3. live' \in Transcript
    BY <1>2, <2>1, <2>2, Touched
  <2> QED BY <2>2, <2>3
<1>4. PublicState' = live'
  BY <1>1 DEF PublicState
<1>5. PICK m : m = [kind |-> "state", state |-> live', fresh |-> TRUE, covers |-> slips]
  OBVIOUS
<1>6. m \in Message /\ m.kind = "state" /\ m.state = live' /\ m.fresh = TRUE /\ m.covers = slips
  BY <1>2, <1>3, <1>5 DEF Message, StateMessage
<1>7. wire' = Append(wire, m)
  BY <1>1, <1>5 DEF Boundary
<1>8. wire' \in Seq(Message)
  BY <1>0, <1>6, <1>7 DEF Typed
<1>9. clock' \in Nat
  BY <1>1, <1>2
<1>10. Typed'
  BY <1>0, <1>1, <1>3, <1>8, <1>9, NothingIn DEF Typed
<1>11. Begins(live'.text, live'.text)
  BY <1>3 DEF Begins, Transcript
<1>12. PublicFits'
  BY <1>2, <1>3, <1>4, <1>11 DEF PublicFits
<1>13. PublicState \in Transcript /\ PublicState.version = live.version
  BY <1>0, StatesTyped DEF PublicFits
<1>14. live.version < live'.version /\ live.version <= live'.version
  BY <1>2, <1>3
<1>15. NotAfter(PublicState, PublicState')
  BY <1>4, <1>13, <1>14 DEF NotAfter
<1>16. slips' = (IF m.fresh THEN slips ELSE slips + 1)
  BY <1>1, <1>6
<1> QED BY <1>1, <1>3, <1>4, <1>6, <1>7, <1>10, <1>12, <1>14, <1>15, <1>16, PublishedFollows

(* So does a broadcast.                                                    *)
LEMMA BroadcastStateFollows ==
  ASSUME Follows, BroadcastState PROVE Follows'
<1>0. Typed /\ Known /\ PublicFits
  BY DEF Follows
<1>1. PICK shown : shown = IF saved = NoCommand THEN live' ELSE saved.state
  OBVIOUS
<1>2. /\ live' = [live EXCEPT !.at = clock + 1] /\ clock' = clock + 1 /\ rounds' = rounds + 1
      /\ sendBatch' = <<>> /\ wire' = Append(wire, Boundary(shown, shown.text = live.text))
      /\ slips' = slips + (IF shown.text = live.text THEN 0 ELSE 1)
      /\ UNCHANGED <<saved, reply, view, viewBatch, healed, emitted>>
  BY <1>1 DEF BroadcastState, publishState, Round
<1>3. live \in Transcript /\ clock \in Nat /\ live.version \in Nat /\ slips \in Nat /\ live.at \in Nat /\ live.at <= clock
  BY <1>0 DEF Typed, Transcript, Known, Kept, StateKnown
<1>4. /\ live'.text = live.text /\ live'.at = clock + 1 /\ live'.version = live.version
      /\ live'.loaded = live.loaded /\ live' \in Transcript
  <2>1. clock + 1 \in Nat
    BY <1>3
  <2>2. live' = [text |-> live.text, version |-> live.version, at |-> clock + 1, loaded |-> live.loaded]
    BY <1>2, <1>3, <2>1, Touched
  <2>3. live' \in Transcript
    BY <1>3, <2>1, <2>2, Touched
  <2> QED BY <2>2, <2>3
<1>5. PublicState' = shown
  BY <1>1, <1>2 DEF PublicState
<1>6. saved = NoCommand => shown = live' /\ PublicState = live
  BY <1>1 DEF PublicState
<1>7. saved # NoCommand => shown = PublicState
  BY <1>1 DEF PublicState
<1>8. PublicState \in Transcript /\ shown \in Transcript
  BY <1>0, <1>4, <1>6, <1>7, StatesTyped
<1>9. PICK m : m = [kind |-> "state", state |-> shown, fresh |-> (shown.text = live.text), covers |-> slips]
  OBVIOUS
<1>10. m \in Message /\ m.kind = "state" /\ m.state = shown /\ m.covers = slips
  BY <1>3, <1>8, <1>9 DEF Message, StateMessage
<1>11. m.fresh <=> shown.text = live.text
  BY <1>9
<1>12. wire' = Append(wire, m)
  BY <1>2, <1>9 DEF Boundary
<1>13. slips' = (IF m.fresh THEN slips ELSE slips + 1)
  BY <1>2, <1>3, <1>11
<1>14. wire' \in Seq(Message)
  BY <1>0, <1>10, <1>12 DEF Typed
<1>15. Typed'
  <2>1. clock \in Nat /\ rounds \in Nat /\ slips \in Nat /\ healed \in Nat /\ healed <= slips
    BY <1>0 DEF Typed
  <2>2. slips' \in Nat /\ healed <= slips'
    <3>1. slips' = slips \/ slips' = slips + 1
      BY <1>13
    <3> QED BY <2>1, <3>1
  <2>3. clock' \in Nat /\ rounds' \in Nat /\ slips' \in Nat /\ healed' <= slips'
    BY <1>2, <2>1, <2>2
  <2> QED BY <1>0, <1>2, <1>4, <1>14, <2>3, NothingIn DEF Typed
<1>16. PublicState.version = live.version /\ PublicState.at <= live.at /\ Begins(PublicState.text, live.text)
       /\ PublicState.at \in Nat
  BY <1>0, <1>8 DEF PublicFits, Transcript
<1>17. PublicFits'
  <2>1. CASE saved = NoCommand
    <3>1. Begins(live'.text, live'.text)
      BY <1>4 DEF Begins, Transcript
    <3>2. live'.at <= live'.at
      BY <1>3, <1>4
    <3> QED BY <1>5, <1>6, <2>1, <3>1, <3>2 DEF PublicFits
  <2>2. CASE saved # NoCommand
    <3>1. PublicState.at <= live'.at
      BY <1>3, <1>4, <1>16
    <3> QED BY <1>4, <1>5, <1>7, <1>16, <2>2, <3>1 DEF PublicFits
  <2> QED BY <2>1, <2>2
<1>18. NotAfter(PublicState, PublicState')
  <2>1. CASE saved = NoCommand
    BY <1>3, <1>4, <1>5, <1>6, <2>1 DEF NotAfter
  <2>2. CASE saved # NoCommand
    BY <1>5, <1>7, <1>8, <2>2, NotAfterOrder
  <2> QED BY <2>1, <2>2
<1>19. m.fresh => PublicState.text = live.text /\ m.state.text = live.text
  BY <1>6, <1>7, <1>10, <1>11
<1>20. PublicState' \in {PublicState, live'} /\ m.state = PublicState' /\ live.version <= live'.version
  BY <1>3, <1>4, <1>5, <1>6, <1>7, <1>10
<1> QED BY <1>2, <1>4, <1>10, <1>12, <1>13, <1>15, <1>17, <1>18, <1>19, <1>20, PublishedFollows

(* An aborted command puts back the copy it kept and publishes nothing.    *)
LEMMA AbortCommandFollows ==
  ASSUME Follows, AbortCommand PROVE Follows'
<1>0. Typed /\ Known /\ Stamped /\ PublicFits /\ Ordered /\ Counted /\ Tracked /\ Accepting
  BY DEF Follows
<1>1. /\ saved # NoCommand /\ live' = saved.state /\ saved' = NoCommand
      /\ slips' = slips + (IF live.text = saved.state.text THEN 0 ELSE 1)
      /\ UNCHANGED <<clock, sendBatch, wire, reply, view, viewBatch, healed, emitted, rounds>>
  BY DEF AbortCommand
<1>2. PublicState = saved.state /\ live' = PublicState /\ PublicState' = PublicState
  BY <1>1 DEF PublicState
<1>3. live' \in Transcript /\ slips \in Nat /\ healed \in Nat /\ healed <= slips
  BY <1>0, <1>2, StatesTyped DEF Typed
<1>4. slips' = (IF PublicState.text = live.text THEN slips ELSE slips + 1)
  BY <1>1, <1>2, <1>3
<1>5. Typed'
  <2>1. slips' \in Nat /\ healed <= slips'
    BY <1>3, <1>4
  <2> QED BY <1>0, <1>1, <1>3, <2>1 DEF Typed
<1>6. Kept' \subseteq Kept \cup {live'} /\ Kept' \subseteq Kept /\ Pipe' \subseteq Pipe
  BY <1>1, <1>2 DEF Kept, Pipe
<1>7. StateKnown(live)'
  <2>1. StateKnown(PublicState)
    BY <1>0 DEF Known, Kept
  <2> QED BY <1>1, <1>2, <2>1 DEF StateKnown
<1>8. clock <= clock' /\ emitted <= emitted'
  BY <1>0, <1>1 DEF Typed
<1>9. /\ live'.version = live.version /\ live'.at \in Nat /\ Len(live'.text) \in Nat /\ Begins(live'.text, live.text)
      /\ Len(live.text) \in Nat
  BY <1>0, <1>2, <1>3 DEF PublicFits, Transcript, Typed
<1>10. Known'
  <2>1. (\A y \in Kept : StateKnown(y))' /\ (\A d \in Pipe : DeltaKnown(d))'
    BY <1>0, <1>5, <1>6, <1>7, <1>8, StatesKnown
  <2>2. Rising(live'.text)
    <3>1. \A i \in 1..Len(live'.text) : i \in 1..Len(live.text) /\ live'.text[i] = live.text[i]
      BY <1>9 DEF Begins
    <3> QED BY <1>0, <3>1 DEF Known, Rising
  <2> QED BY <1>0, <1>1, <2>1, <2>2 DEF Known
<1>11. Stamped'
  BY <1>0, <1>6 DEF Stamped
<1>12. PublicFits'
  <2>1. Begins(live'.text, live'.text)
    BY <1>9 DEF Begins
  <2>2. PublicState' = live' /\ live'.at <= live'.at
    BY <1>2, <1>9
  <2> QED BY <2>1, <2>2 DEF PublicFits
<1>13. Ordered'
  BY <1>0, <1>1, <1>2, <1>9 DEF Ordered
<1>14. Counted'
  <2>1. ASSUME NEW i \in 1..Len(wire), wire[i].kind = "state" PROVE CountFits(wire[i])'
    <3>1. CountFits(wire[i]) /\ wire[i].covers \in Nat /\ wire[i].covers <= slips
      BY <1>0, <2>1, CoversBelow DEF Counted
    <3>2. healed <= wire'[i].covers /\ wire'[i].covers <= slips' /\ (~ wire'[i].fresh => wire'[i].covers < slips')
      BY <1>1, <1>3, <1>4, <3>1 DEF CountFits
    <3> QED BY <1>1, <3>2 DEF CountFits
  <2> QED BY <1>1, <2>1 DEF Counted
<1>15. CASE PublicState.text # live.text
  <2>1. slips' = slips + 1
    BY <1>4, <1>15
  <2>2. \A i \in 1..Len(wire)' : wire[i]'.kind = "state" => wire[i]'.covers <= slips
    BY <1>0, <1>1, CoversBelow
  <2>3. Tracked' /\ Accepting'
    BY <1>0, <1>1, <1>5, <2>1, <2>2, NothingClean
  <2> QED BY <1>5, <1>10, <1>11, <1>12, <1>13, <1>14, <2>3 DEF Follows
<1>16. CASE PublicState.text = live.text
  <2>1. slips' = slips /\ live'.text = live.text
    BY <1>2, <1>4, <1>16
  <2>2. Tracked'
    <3>1. ViewOnWay' = ViewOnWay
      BY <1>1, <2>1 DEF ViewOnWay
    <3>2. \A i : StateOnWay(i)' = StateOnWay(i) /\ CleanAt(i)' = CleanAt(i)
      BY <1>1, <2>1 DEF StateOnWay, CleanAt
    <3> QED BY <1>0, <1>1, <2>1, <3>1, <3>2 DEF Tracked
  <2>3. Accepting'
    BY <1>0, <1>1, <1>2, <2>1 DEF Accepting
  <2> QED BY <1>5, <1>10, <1>11, <1>12, <1>13, <1>14, <2>2, <2>3 DEF Follows
<1> QED BY <1>15, <1>16

(* What is left of the wire is followed as before.                          *)
LEMMA RestTracked ==
  ASSUME Typed, Tracked, wire # <<>>, wire' = Tail(wire), UNCHANGED <<live, sendBatch, slips>>,
         NEW CONSTANT i, i \in 1..Len(wire'), CleanAt(i)'
  PROVE  StateOnWay(i)'
<1>1. wire \in Seq(Message)
  BY DEF Typed
<1>2. Len(wire) \in Nat \ {0} /\ Len(wire') = Len(wire) - 1 /\ \A k \in 1..(Len(wire) - 1) : wire'[k] = wire[k + 1]
  BY <1>1, WireShorter
<1>3. i + 1 \in 1..Len(wire) /\ wire'[i] = wire[i + 1] /\ (i + 1) - 1 = i
  BY <1>2
<1>4. CleanAt(i + 1)
  BY <1>3 DEF CleanAt
<1>5. PICK p : /\ Way(wire, p, live.text, i + 1, sendBatch)
               /\ p[i + 1] = Len(wire[i + 1].state.text)
               /\ Begins(wire[i + 1].state.text, live.text)
  BY <1>3, <1>4 DEF Tracked, StateOnWay
<1>6. PICK q : Way(wire', q, live.text, (i + 1) - 1, sendBatch) /\ q[(i + 1) - 1] = p[i + 1]
  BY <1>1, <1>3, <1>5, WayRest
<1>7. Way(wire', q, live.text, i, sendBatch) /\ q[i] = p[i + 1]
  BY <1>3, <1>6
<1> QED BY <1>3, <1>5, <1>7 DEF StateOnWay

(* The known states and deltas of a step that adds none.                    *)
LEMMA FewerKnown ==
  ASSUME Known, Stamped, Kept' \subseteq Kept, Pipe' \subseteq Pipe, UNCHANGED <<clock, emitted, live>>,
         view'.at <= clock', reply' # NoReply => reply' = reply
  PROVE  Known' /\ Stamped'
<1>1. \A y : StateKnown(y)' = StateKnown(y)
  BY DEF StateKnown
<1>2. \A d : DeltaKnown(d)' = DeltaKnown(d)
  BY DEF DeltaKnown
<1>3. (\A y \in Kept' : StateKnown(y)') /\ (\A d \in Pipe' : DeltaKnown(d)')
  BY <1>1, <1>2 DEF Known
<1>4. reply' # NoReply => reply'.state.at <= clock' /\ reply'.state.loaded
  BY DEF Known
<1>5. Rising(live'.text)
  BY DEF Known
<1>6. Stamped'
  BY DEF Stamped
<1> QED BY <1>3, <1>4, <1>5, <1>6 DEF Known

(* The client takes a state, or prefers its own.                           *)
LEMMA TakeStateFollows ==
  ASSUME Follows, TakeState PROVE Follows'
<1>0. Typed /\ Known /\ Stamped /\ PublicFits /\ Ordered /\ Counted /\ Tracked /\ Accepting
  BY DEF Follows
<1>1. PICK m : m = wire[1]
  OBVIOUS
<1>2. wire \in Seq(Message) /\ wire # <<>> /\ Head(wire) = m
  BY <1>0, <1>1, WireShorter DEF Typed, TakeState
<1>3. m \in Message /\ m.kind = "state"
  BY <1>1, <1>2, WireShorter DEF TakeState
<1>4. PICK next : next = preferRuntimeSnapshot(view, m.state)
  OBVIOUS
<1>5. /\ view' = next /\ wire' = Tail(wire) /\ viewBatch' = <<>>
      /\ healed' = IF m.fresh /\ next = m.state /\ m.covers > healed THEN m.covers ELSE healed
      /\ UNCHANGED <<live, saved, clock, sendBatch, reply, slips, emitted, rounds>>
  BY <1>2, <1>4 DEF TakeState
<1>6. m.state \in Transcript /\ m.covers \in Nat /\ m.fresh \in BOOLEAN /\ view \in Transcript
  BY <1>0, <1>3, MessageIs DEF Typed
<1>7. next \in {view, m.state} /\ next \in Transcript
  BY <1>4, <1>6, NotAfterOrder
<1>8. /\ wire' \in Seq(Message) /\ Len(wire) \in Nat \ {0} /\ Len(wire') = Len(wire) - 1
      /\ \A i \in 1..(Len(wire) - 1) : wire'[i] = wire[i + 1]
  BY <1>2, <1>5, WireShorter
<1>9. 1 \in 1..Len(wire) /\ \A i \in 1..Len(wire') : i + 1 \in 1..Len(wire) /\ wire'[i] = wire[i + 1] /\ 1 < i + 1
  BY <1>8
<1>10. healed \in Nat /\ slips \in Nat /\ healed <= m.covers /\ m.covers <= slips /\ (~ m.fresh => m.covers < slips)
  BY <1>0, <1>1, <1>3, <1>9 DEF Typed, Counted, CountFits
<1>11. healed' \in Nat /\ healed' <= m.covers /\ healed' <= slips
  BY <1>5, <1>6, <1>10
<1>12. m.state \in ShownIn(wire) /\ m.state \in Kept
  BY <1>1, <1>2, <1>3, WireLoses DEF Kept
<1>13. PublicState' = PublicState
  BY <1>5 DEF PublicState
<1>14. ASSUME healed' = slips PROVE m.fresh /\ m.covers = slips /\ view' = m.state
  <2>1. m.covers = slips /\ m.fresh
    BY <1>6, <1>10, <1>11, <1>14
  <2>2. CASE healed = slips
    <3>1. NotAfter(view, m.state)
      BY <1>0, <1>12, <2>2 DEF Accepting
    <3>2. next = m.state
      BY <1>4, <1>6, <3>1, NotAfterOrder
    <3> QED BY <1>5, <2>1, <3>2
  <2>3. CASE healed # slips
    BY <1>5, <1>14, <2>1, <2>3
  <2> QED BY <2>2, <2>3
<1>15. Typed'
  BY <1>0, <1>5, <1>7, <1>8, <1>11, NothingIn DEF Typed
<1>16. ShownIn(wire') \subseteq ShownIn(wire) /\ StreamedIn(wire') \subseteq StreamedIn(wire)
  BY <1>2, <1>5, WireLoses
<1>17. Kept' \subseteq Kept /\ Pipe' \subseteq Pipe
  BY <1>5, <1>13, <1>16, NothingIn DEF Kept, Pipe
<1>18. view'.at <= clock
  <2>1. m.state.at <= clock /\ view.at <= clock
    BY <1>0, <1>12 DEF Known, StateKnown
  <2> QED BY <1>5, <1>7, <2>1
<1>19. Known' /\ Stamped'
  BY <1>0, <1>5, <1>17, <1>18, FewerKnown
<1>20. PublicFits'
  BY <1>0, <1>5, <1>13 DEF PublicFits
<1>21. NotAfter(m.state, PublicState)
  BY <1>0, <1>12 DEF Ordered
<1>22. Ordered'
  <2>1. Climbs(wire')
    BY <1>0, <1>2, <1>5, ClimbsLess DEF Ordered
  <2>2. m.state.version <= live.version
    <3>1. PublicState \in Transcript /\ PublicState.version = live.version
      BY <1>0, StatesTyped DEF PublicFits
    <3>2. m.state.version \in Nat /\ PublicState.version \in Nat
      BY <1>6, <3>1 DEF Transcript
    <3> QED BY <1>21, <3>1, <3>2 DEF NotAfter
  <2>3. view'.version <= live.version
    BY <1>0, <1>5, <1>7, <2>2 DEF Ordered
  <2> QED BY <1>0, <1>5, <1>13, <1>16, <2>1, <2>3 DEF Ordered
<1>23. ASSUME NEW i \in 1..Len(wire'), wire'[i].kind = "state"
       PROVE  NotAfter(m.state, wire'[i].state) /\ m.covers <= wire'[i].covers
  BY <1>0, <1>1, <1>3, <1>9, <1>23 DEF Ordered, Climbs
<1>24. Counted'
  <2>1. ASSUME NEW i \in 1..Len(wire'), wire'[i].kind = "state" PROVE CountFits(wire[i])'
    <3>1. i + 1 \in 1..Len(wire) /\ wire'[i] = wire[i + 1]
      BY <1>9
    <3>2. wire[i + 1].covers \in Nat /\ CountFits(wire[i + 1])
      BY <1>0, <2>1, <3>1, CoversBelow DEF Counted
    <3>3. m.covers <= wire'[i].covers
      BY <1>23, <2>1
    <3>4. healed' <= wire'[i].covers
      BY <1>6, <1>11, <3>1, <3>2, <3>3
    <3>5. wire'[i].covers <= slips /\ (~ wire'[i].fresh => wire'[i].covers < slips)
      BY <3>1, <3>2 DEF CountFits
    <3> QED BY <1>5, <3>4, <3>5 DEF CountFits
  <2> QED BY <2>1 DEF Counted
<1>25. Tracked'
  <2>1. ASSUME healed' = slips' PROVE ViewOnWay'
    <3>1. CleanAt(1) /\ view' = m.state
      BY <1>1, <1>3, <1>5, <1>14, <2>1 DEF CleanAt
    <3>2. PICK p : /\ Way(wire, p, live.text, 1, sendBatch)
                   /\ p[1] = Len(m.state.text)
                   /\ Begins(m.state.text, live.text)
      BY <1>0, <1>1, <1>9, <3>1 DEF Tracked, StateOnWay
    <3>3. PICK q : Way(wire', q, live.text, 1 - 1, sendBatch) /\ q[1 - 1] = p[1]
      BY <1>2, <1>5, <1>9, <3>2, WayRest
    <3>4. Way(wire', q, live.text, 0, sendBatch) /\ q[0] = p[1]
      <4>1. 1 - 1 = 0
        OBVIOUS
      <4> QED BY <3>3, <4>1
    <3>5. Len(m.state.text) \in Nat /\ Len(m.state.text) <= Len(live.text)
      BY <1>6, <3>2 DEF Transcript, Begins
    <3>6. Len(viewBatch') = 0
      BY <1>5
    <3>7. q[0] = Len(view'.text) + Len(viewBatch')
      BY <3>1, <3>2, <3>4, <3>5, <3>6
    <3>8. ComesNext(Len(view'.text), viewBatch', live.text)
      BY <3>1, <3>5, <3>6 DEF ComesNext
    <3> QED BY <1>5, <3>1, <3>2, <3>4, <3>7, <3>8 DEF ViewOnWay
  <2>2. ASSUME NEW i \in 1..Len(wire'), CleanAt(i)' PROVE StateOnWay(i)'
    BY <1>0, <1>2, <1>5, <2>2, RestTracked
  <2> QED BY <2>1, <2>2 DEF Tracked
<1>26. Accepting'
  <2> SUFFICES ASSUME healed' = slips
               PROVE  /\ view'.loaded /\ \A y \in ShownIn(wire') : NotAfter(view', y)
                      /\ NotAfter(view', PublicState)
    BY <1>5, <1>13 DEF Accepting
  <2>1. view' = m.state
    BY <1>14
  <2>2. m.state.loaded
    BY <1>0, <1>12 DEF Known, StateKnown
  <2>3. ASSUME NEW y \in ShownIn(wire') PROVE NotAfter(m.state, y)
    <3>1. PICK i \in 1..Len(wire') : wire'[i].kind = "state" /\ y = wire'[i].state
      BY <1>8, ShownAre
    <3> QED BY <1>23, <3>1
  <2> QED BY <1>21, <2>1, <2>2, <2>3
<1> QED BY <1>15, <1>19, <1>20, <1>22, <1>24, <1>25, <1>26 DEF Follows

(* What comes next, and what comes after that.                             *)
LEMMA NextAfterNext ==
  ASSUME NEW a \in Seq(Delta), NEW c \in Seq(Delta), NEW n \in Nat, NEW T \in Seq(1..MaxDelta),
         ComesNext(n, a, T), ComesNext(n + Len(a), c, T)
  PROVE  ComesNext(n, a \o c, T)
<1> DEFINE v == a \o c
<1>1. /\ v \in Seq(Delta) /\ Len(a) \in Nat /\ Len(c) \in Nat /\ Len(v) = Len(a) + Len(c)
      /\ \A i \in 1..Len(a) : v[i] = a[i]
      /\ \A i \in 1..Len(c) : v[Len(a) + i] = c[i]
  BY BatchesJoined
<1>2. Len(T) \in Nat
  OBVIOUS
<1> HIDE DEF v
<1>3. ASSUME NEW j \in 1..Len(v) PROVE T[n + j] = v[j].id
  <2>1. CASE j <= Len(a)
    <3>1. j \in 1..Len(a)
      BY <1>1, <2>1
    <3> QED BY <1>1, <3>1 DEF ComesNext
  <2>2. CASE ~(j <= Len(a))
    <3>1. PICK k \in 1..Len(c) : j = Len(a) + k
      <4>1. j - Len(a) \in 1..Len(c) /\ j = Len(a) + (j - Len(a))
        BY <1>1, <2>2
      <4> QED BY <4>1
    <3>2. n + j = (n + Len(a)) + k
      BY <1>1, <3>1
    <3>3. T[(n + Len(a)) + k] = c[k].id
      BY <3>1 DEF ComesNext
    <3> QED BY <1>1, <3>1, <3>2, <3>3
  <2> QED BY <2>1, <2>2
<1>4. n + Len(v) <= Len(T)
  BY <1>1, <1>2 DEF ComesNext
<1>5. ComesNext(n, v, T)
  BY <1>3, <1>4 DEF ComesNext
<1> QED BY <1>5 DEF v

(* The client takes a batch and holds it until it renders.                 *)
LEMMA TakeStreamFollows ==
  ASSUME Follows, TakeStream PROVE Follows'
<1>0. Typed /\ Known /\ Stamped /\ PublicFits /\ Ordered /\ Counted /\ Tracked /\ Accepting
  BY DEF Follows
<1>1. PICK m : m = wire[1]
  OBVIOUS
<1>2. wire \in Seq(Message) /\ wire # <<>> /\ Head(wire) = m /\ viewBatch \in Seq(Delta) /\ view \in Transcript
  BY <1>0, <1>1, WireShorter DEF Typed, TakeStream
<1>3. m \in Message /\ m.kind = "stream"
  BY <1>1, <1>2, WireShorter DEF TakeStream
<1>4. m.batch \in Seq(Delta)
  BY <1>3, MessageIs
<1>5. /\ viewBatch' = viewBatch \o m.batch /\ wire' = Tail(wire)
      /\ UNCHANGED <<live, saved, clock, sendBatch, reply, view, slips, healed, emitted, rounds>>
  BY <1>2 DEF TakeStream
<1>6. /\ viewBatch' \in Seq(Delta) /\ Len(viewBatch) \in Nat /\ Len(m.batch) \in Nat
      /\ Len(viewBatch') = Len(viewBatch) + Len(m.batch)
      /\ Elements(viewBatch') \subseteq Elements(viewBatch) \cup Elements(m.batch)
  BY <1>2, <1>4, <1>5, BatchesJoined
<1>8. /\ wire' \in Seq(Message) /\ Len(wire) \in Nat \ {0} /\ Len(wire') = Len(wire) - 1
      /\ \A i \in 1..(Len(wire) - 1) : wire'[i] = wire[i + 1]
  BY <1>2, <1>5, WireShorter
<1>9. 1 \in 1..Len(wire) /\ \A i \in 1..Len(wire') : i + 1 \in 1..Len(wire) /\ wire'[i] = wire[i + 1]
  BY <1>8
<1>13. PublicState' = PublicState
  BY <1>5 DEF PublicState
<1>15. Typed'
  BY <1>0, <1>5, <1>6, <1>8 DEF Typed
<1>16. /\ ShownIn(wire') \subseteq ShownIn(wire) /\ StreamedIn(wire') \subseteq StreamedIn(wire)
       /\ Elements(m.batch) \subseteq StreamedIn(wire)
  BY <1>1, <1>2, <1>3, <1>5, WireLoses
<1>17. Kept' \subseteq Kept /\ Pipe' \subseteq Pipe
  BY <1>5, <1>6, <1>13, <1>16 DEF Kept, Pipe
<1>19. Known' /\ Stamped'
  <2>1. view'.at <= clock' /\ (reply' # NoReply => reply' = reply)
    BY <1>0, <1>5 DEF Known
  <2> QED BY <1>0, <1>5, <1>17, <2>1, FewerKnown
<1>20. PublicFits'
  BY <1>0, <1>5, <1>13 DEF PublicFits
<1>22. Ordered'
  <2>1. Climbs(wire')
    BY <1>0, <1>2, <1>5, ClimbsLess DEF Ordered
  <2> QED BY <1>0, <1>5, <1>13, <1>16, <2>1 DEF Ordered
<1>24. Counted'
  BY <1>0, <1>5, <1>9 DEF Counted, CountFits
<1>25. Tracked'
  <2>1. ASSUME healed' = slips' PROVE ViewOnWay'
    <3>1. PICK p : /\ Way(wire, p, live.text, 0, sendBatch)
                   /\ p[0] = Len(view.text) + Len(viewBatch)
                   /\ Begins(view.text, live.text)
                   /\ ComesNext(Len(view.text), viewBatch, live.text)
      BY <1>0, <1>5, <2>1 DEF Tracked, ViewOnWay
    <3>2. /\ \E q : Way(wire, q, live.text, 1, sendBatch) /\ q[1] = p[1]
          /\ ComesNext(p[0], m.batch, live.text) /\ p[1] = p[0] + Len(m.batch)
      <4>1. Way(wire, p, live.text, 0, sendBatch)
        BY <3>1
      <4>2. \E q : Way(wire, q, live.text, 1, sendBatch) /\ q[1] = p[1]
        BY <1>2, <4>1, WayOn
      <4>3. wire[1].kind = "stream" => ComesNext(p[0], wire[1].batch, live.text) /\ p[1] = p[0] + Len(wire[1].batch)
        BY <1>2, <4>1, WayOn
      <4>4. ComesNext(p[0], m.batch, live.text) /\ p[1] = p[0] + Len(m.batch)
        BY <1>1, <1>3, <4>3
      <4> QED BY <4>2, <4>4
    <3>3. PICK q : Way(wire, q, live.text, 1, sendBatch) /\ q[1] = p[1]
      BY <3>2
    <3>4. PICK r : Way(wire', r, live.text, 1 - 1, sendBatch) /\ r[1 - 1] = q[1]
      BY <1>2, <1>5, <1>9, <3>3, WayRest
    <3>5. Way(wire', r, live.text, 0, sendBatch) /\ r[0] = p[1]
      <4>1. 1 - 1 = 0
        OBVIOUS
      <4> QED BY <3>3, <3>4, <4>1
    <3>6. Len(view.text) \in Nat /\ live.text \in Seq(1..MaxDelta)
      BY <1>0, <1>2 DEF Typed, Transcript
    <3>7. ComesNext(Len(view.text), viewBatch', live.text)
      BY <1>2, <1>4, <1>5, <3>1, <3>2, <3>6, NextAfterNext
    <3>8. r[0] = Len(view.text) + Len(viewBatch')
      <4>1. \A x, y, z \in Nat : (x + y) + z = x + (y + z)
        OBVIOUS
      <4>2. r[0] = (Len(view.text) + Len(viewBatch)) + Len(m.batch)
        BY <3>1, <3>2, <3>5
      <4>3. (Len(view.text) + Len(viewBatch)) + Len(m.batch) = Len(view.text) + (Len(viewBatch) + Len(m.batch))
        BY <1>6, <3>6, <4>1
      <4>4. Len(viewBatch') = Len(viewBatch) + Len(m.batch)
        BY <1>6
      <4> QED BY <4>2, <4>3, <4>4
    <3> QED BY <1>5, <3>1, <3>5, <3>7, <3>8 DEF ViewOnWay
  <2>2. ASSUME NEW i \in 1..Len(wire'), CleanAt(i)' PROVE StateOnWay(i)'
    BY <1>0, <1>2, <1>5, <2>2, RestTracked
  <2> QED BY <2>1, <2>2 DEF Tracked
<1>26. Accepting'
  BY <1>0, <1>5, <1>13, <1>16 DEF Accepting
<1> QED BY <1>15, <1>19, <1>20, <1>22, <1>24, <1>25, <1>26 DEF Follows

(* A state that has what the client has, and what it is to render, is not   *)
(* before what the client then shows.                                       *)
LEMMA RenderedNotAfter ==
  ASSUME Typed, Stamped, NEW y \in Kept, NotAfter(view, y), Begins(y.text, live.text),
         ComesNext(Len(view.text), viewBatch, live.text),
         Len(view.text) + Len(viewBatch) <= Len(y.text)
  PROVE  NotAfter(applyStreamEvents(view, viewBatch), y)
<1> PICK v : v = applyStreamEvents(view, viewBatch)
  OBVIOUS
<1>1. view \in Transcript /\ viewBatch \in Seq(Delta) /\ y \in Transcript
  BY StatesTyped DEF Typed
<1>2. /\ v \in Transcript /\ v.version = view.version
      /\ \A x \in Nat : view.at <= x /\ (\A k \in 1..Len(viewBatch) : viewBatch[k].ts <= x) => v.at <= x
  BY <1>1, BatchApplied
<1>3. Len(view.text) \in Nat /\ Len(viewBatch) \in Nat /\ Len(y.text) \in Nat /\ y.at \in Nat
  BY <1>1 DEF Transcript
<1>4. ASSUME NEW k \in 1..Len(viewBatch) PROVE viewBatch[k].ts <= y.at
  <2>1. viewBatch[k] \in Pipe
    BY <1>1, ElementsAre DEF Pipe
  <2>2. StampFits(viewBatch[k], y)
    BY <2>1 DEF Stamped
  <2>3. Len(view.text) + k \in 1..Len(y.text)
    BY <1>3
  <2>4. y.text[Len(view.text) + k] = live.text[Len(view.text) + k]
    BY <2>3 DEF Begins
  <2>5. live.text[Len(view.text) + k] = viewBatch[k].id
    BY DEF ComesNext
  <2> QED BY <2>2, <2>3, <2>4, <2>5 DEF StampFits
<1>5. view.at <= y.at => v.at <= y.at
  BY <1>2, <1>3, <1>4
<1> QED BY <1>2, <1>5 DEF NotAfter

(* The client renders what it holds.                                       *)
LEMMA RenderBatchFollows ==
  ASSUME Follows, RenderBatch PROVE Follows'
<1>0. Typed /\ Known /\ Stamped /\ PublicFits /\ Ordered /\ Counted /\ Tracked /\ Accepting
  BY DEF Follows
<1>1. /\ view' = applyStreamEvents(view, viewBatch) /\ viewBatch' = <<>>
      /\ UNCHANGED <<live, saved, clock, sendBatch, wire, reply, slips, healed, emitted, rounds>>
  BY DEF RenderBatch
<1>2. view \in Transcript /\ viewBatch \in Seq(Delta) /\ clock \in Nat /\ wire \in Seq(Message) /\ live \in Transcript
  BY <1>0 DEF Typed
<1>3. /\ view' \in Transcript /\ view'.version = view.version /\ view'.loaded = view.loaded
      /\ \A x \in Nat : view.at <= x /\ (\A k \in 1..Len(viewBatch) : viewBatch[k].ts <= x) => view'.at <= x
  BY <1>1, <1>2, BatchApplied
<1>4. Typed'
  BY <1>0, <1>1, <1>3, NothingIn DEF Typed
<1>5. PublicState' = PublicState
  BY <1>1 DEF PublicState
<1>6. Kept' \subseteq Kept /\ Pipe' \subseteq Pipe
  BY <1>1, <1>5, NothingIn DEF Kept, Pipe
<1>7. view'.at <= clock
  <2>1. \A k \in 1..Len(viewBatch) : viewBatch[k] \in Pipe
    BY <1>2, ElementsAre DEF Pipe
  <2>2. \A k \in 1..Len(viewBatch) : viewBatch[k].ts <= clock
    BY <1>0, <2>1 DEF Known, DeltaKnown
  <2>3. view.at <= clock
    BY <1>0 DEF Known
  <2> QED BY <1>2, <1>3, <2>2, <2>3
<1>8. Known' /\ Stamped'
  BY <1>0, <1>1, <1>6, <1>7, FewerKnown
<1>9. PublicFits'
  BY <1>0, <1>1, <1>5 DEF PublicFits
<1>10. Ordered'
  BY <1>0, <1>1, <1>3, <1>5 DEF Ordered
<1>11. Counted'
  BY <1>0, <1>1 DEF Counted, CountFits
<1>12. \A i \in 1..Len(wire') : CleanAt(i)' => StateOnWay(i)'
  <2>1. \A i : StateOnWay(i)' = StateOnWay(i) /\ CleanAt(i)' = CleanAt(i)
    BY <1>1 DEF StateOnWay, CleanAt
  <2> QED BY <1>0, <1>1, <2>1 DEF Tracked
<1>13. CASE healed # slips
  <2>1. healed' # slips'
    BY <1>1, <1>13
  <2>2. Tracked' /\ Accepting'
    BY <1>12, <2>1 DEF Tracked, Accepting
  <2> QED BY <1>4, <1>8, <1>9, <1>10, <1>11, <2>2 DEF Follows
<1>14. CASE healed = slips
  <2>1. PICK p : /\ Way(wire, p, live.text, 0, sendBatch)
                 /\ p[0] = Len(view.text) + Len(viewBatch)
                 /\ Begins(view.text, live.text)
                 /\ ComesNext(Len(view.text), viewBatch, live.text)
    BY <1>0, <1>14 DEF Tracked, ViewOnWay
  <2>2. /\ view.loaded /\ \A y \in ShownIn(wire) : NotAfter(view, y)
        /\ PublicState.text = live.text => NotAfter(view, PublicState)
    BY <1>0, <1>14 DEF Accepting
  <2>3. Rising(live.text) /\ live.text \in Seq(1..MaxDelta) /\ Len(live.text) \in Nat
    BY <1>0, <1>2 DEF Known, Transcript
  <2>4. Begins(view'.text, live.text) /\ Len(view'.text) = Len(view.text) + Len(viewBatch)
    BY <1>1, <1>2, <2>1, <2>2, <2>3, BatchShown
  <2>5. Len(view'.text) \in Nat /\ Len(viewBatch') = 0
    BY <1>1, <1>3 DEF Transcript
  <2>6. p[0] = Len(view'.text) + Len(viewBatch') /\ ComesNext(Len(view'.text), viewBatch', live.text)
    BY <2>1, <2>3, <2>4, <2>5 DEF ComesNext, Begins
  <2>7. Tracked'
    BY <1>1, <1>12, <2>1, <2>4, <2>6 DEF Tracked, ViewOnWay
  <2>8. ASSUME NEW y \in ShownIn(wire) PROVE NotAfter(view', y)
    <3>1. PICK i \in 1..Len(wire) : wire[i].kind = "state" /\ y = wire[i].state
      BY <1>2, ShownAre
    <3>2. i \in (0 + 1)..Len(wire) /\ 0 \in 0..Len(wire) /\ i \in 0..Len(wire) /\ 0 <= i
      BY <3>1
    <3>3. Begins(y.text, live.text) /\ p[i] = Len(y.text) /\ p[0] <= p[i]
      BY <2>1, <3>1, <3>2 DEF Way
    <3>4. y \in Kept
      BY DEF Kept
    <3> QED BY <1>0, <1>1, <2>1, <2>2, <3>3, <3>4, RenderedNotAfter
  <2>9. ASSUME PublicState.text = live.text PROVE NotAfter(view', PublicState)
    <3>1. PublicState \in Kept /\ Begins(PublicState.text, live.text)
      BY <1>0 DEF Kept, PublicFits
    <3>2. Len(view.text) + Len(viewBatch) <= Len(PublicState.text)
      BY <2>1, <2>9 DEF ComesNext
    <3> QED BY <1>0, <1>1, <2>1, <2>2, <2>9, <3>1, <3>2, RenderedNotAfter
  <2>10. Accepting'
    BY <1>1, <1>3, <1>5, <2>2, <2>8, <2>9 DEF Accepting
  <2> QED BY <1>4, <1>8, <1>9, <1>10, <1>11, <2>7, <2>10 DEF Follows
<1> QED BY <1>13, <1>14

(* The client takes the answer to its question.                            *)
LEMMA TakeReplyFollows ==
  ASSUME Follows, TakeReply PROVE Follows'
<1>0. Typed /\ Known /\ Stamped /\ PublicFits /\ Ordered /\ Counted /\ Tracked /\ Accepting
  BY DEF Follows
<1>1. PICK next : next = preferRuntimeSnapshot(view, reply.state)
  OBVIOUS
<1> DEFINE quiet == /\ sendBatch = <<>> /\ wire = <<>> /\ viewBatch = <<>>
                    /\ reply.seen = emitted /\ reply.state.text = live.text
<1>2. /\ reply # NoReply /\ view' = next /\ reply' = NoReply
      /\ healed' = (IF quiet /\ next = reply.state THEN slips ELSE healed)
      /\ slips' = (IF quiet \/ next # reply.state THEN slips ELSE slips + 1)
      /\ UNCHANGED <<live, saved, clock, sendBatch, wire, viewBatch, emitted, rounds>>
  BY <1>1 DEF TakeReply
<1>3. reply.state \in Transcript /\ view \in Transcript /\ live \in Transcript
  BY <1>0, <1>2, StatesTyped DEF Typed
<1>4. next \in {view, reply.state} /\ next \in Transcript
  BY <1>1, <1>3, NotAfterOrder
<1>5. slips \in Nat /\ healed \in Nat /\ healed <= slips
  BY <1>0 DEF Typed
<1>6. Typed'
  <2>1. slips' \in Nat /\ healed' \in Nat /\ healed' <= slips'
    BY <1>2, <1>5
  <2> QED BY <1>0, <1>2, <1>4, <2>1 DEF Typed
<1>7. PublicState' = PublicState
  BY <1>2 DEF PublicState
<1>8. CASE next # reply.state
  <2>1. view' = view /\ slips' = slips /\ healed' = healed
    BY <1>2, <1>4, <1>8
  <2> QED BY <1>2, <1>6, <1>7, <2>1, NothingMoves
<1>9. CASE next = reply.state
  <2>1. Kept' \subseteq Kept /\ Pipe' \subseteq Pipe
    BY <1>2, <1>7 DEF Kept, Pipe
  <2>2. view'.at <= clock /\ view'.loaded
    BY <1>0, <1>2, <1>9 DEF Known
  <2>3. Known' /\ Stamped'
    BY <1>0, <1>2, <2>1, <2>2, FewerKnown
  <2>4. PublicFits'
    BY <1>0, <1>2, <1>7 DEF PublicFits
  <2>5. NotAfter(reply.state, PublicState)
    BY <1>0, <1>2 DEF Ordered
  <2>6. view'.version <= live.version
    <3>1. PublicState \in Transcript /\ PublicState.version = live.version
      BY <1>0, StatesTyped DEF PublicFits
    <3>2. reply.state.version \in Nat /\ PublicState.version \in Nat
      BY <1>3, <3>1 DEF Transcript
    <3> QED BY <1>2, <1>9, <2>5, <3>1, <3>2 DEF NotAfter
  <2>7. Ordered'
    BY <1>0, <1>2, <1>7, <2>6 DEF Ordered
  <2>8. CASE ~ quiet
    <3>1. slips' = slips + 1 /\ healed' = healed
      BY <1>2, <1>9, <2>8
    <3>2. \A i \in 1..Len(wire)' : wire[i]'.kind = "state" => wire[i]'.covers <= slips
      BY <1>0, <1>2, CoversBelow
    <3>3. Tracked' /\ Accepting'
      BY <1>0, <1>6, <3>1, <3>2, NothingClean
    <3>4. Counted'
      <4>1. ASSUME NEW i \in 1..Len(wire), wire[i].kind = "state" PROVE CountFits(wire[i])'
        <5>1. CountFits(wire[i]) /\ wire[i].covers \in Nat /\ wire[i].covers <= slips
          BY <1>0, <4>1, CoversBelow DEF Counted
        <5>2. healed' <= wire'[i].covers /\ wire'[i].covers <= slips' /\ (~ wire'[i].fresh => wire'[i].covers < slips')
          BY <1>2, <1>5, <3>1, <5>1 DEF CountFits
        <5> QED BY <5>2 DEF CountFits
      <4> QED BY <1>2, <4>1 DEF Counted
    <3> QED BY <1>6, <2>3, <2>4, <2>7, <3>3, <3>4 DEF Follows
  <2>9. CASE quiet
    <3>1. /\ wire = <<>> /\ viewBatch = <<>> /\ sendBatch = <<>> /\ reply.state.text = live.text
          /\ wire' = <<>> /\ viewBatch' = <<>> /\ sendBatch' = <<>> /\ view' = reply.state
      BY <1>2, <1>9, <2>9
    <3>2. Len(<<>>) = 0 /\ <<>> \in Seq(Message) /\ ShownIn(<<>>) = {}
      BY NothingIn
    <3>3. live.text \in Seq(1..MaxDelta) /\ Len(live.text) \in Nat
      BY <1>3 DEF Transcript
    <3>4. PICK q : Way(<<>>, q, live.text, Len(<<>>), <<>>) /\ q[Len(<<>>)] = Len(live.text)
      BY <3>2, <3>3, WayHere
    <3>5. Way(<<>>, q, live.text, 0, <<>>) /\ q[0] = Len(live.text)
      BY <3>2, <3>4
    <3>6. Begins(live.text, live.text) /\ ComesNext(Len(live.text), <<>>, live.text)
      BY <3>2, <3>3 DEF Begins, ComesNext
    <3>7. ViewOnWay'
      <4>1. q[0] = Len(view'.text) + Len(viewBatch')
        BY <3>1, <3>2, <3>3, <3>5
      <4> QED BY <1>2, <3>1, <3>5, <3>6, <4>1 DEF ViewOnWay
    <3>8. 1..Len(wire') = {}
      BY <3>1, <3>2
    <3>9. Tracked' /\ Counted'
      BY <3>7, <3>8 DEF Tracked, Counted
    <3>10. Accepting'
      BY <1>2, <1>7, <2>2, <2>5, <3>1, <3>2 DEF Accepting
    <3> QED BY <1>6, <2>3, <2>4, <2>7, <3>9, <3>10 DEF Follows
  <2> QED BY <2>8, <2>9
<1> QED BY <1>8, <1>9

(* A connection is lost with what was on it.                               *)
LEMMA ReconnectFollows ==
  ASSUME Follows, Reconnect PROVE Follows'
<1>0. Typed /\ Known /\ Stamped /\ PublicFits /\ Ordered /\ Counted /\ Tracked /\ Accepting
  BY DEF Follows
<1>1. /\ wire' = <<>> /\ slips' = slips + 1 /\ rounds' = rounds + 1
      /\ UNCHANGED <<live, saved, clock, sendBatch, reply, view, viewBatch, healed, emitted>>
  BY DEF Reconnect, Round
<1>2. slips \in Nat /\ healed \in Nat /\ healed <= slips /\ rounds \in Nat
  BY <1>0 DEF Typed
<1>3. Typed'
  <2>1. slips' \in Nat /\ healed' <= slips' /\ rounds' \in Nat
    BY <1>1, <1>2
  <2> QED BY <1>0, <1>1, <2>1, NothingIn DEF Typed
<1>4. PublicState' = PublicState
  BY <1>1 DEF PublicState
<1>5. Kept' \subseteq Kept /\ Pipe' \subseteq Pipe
  BY <1>1, <1>4, NothingIn DEF Kept, Pipe
<1>6. Known' /\ Stamped'
  <2>1. view'.at <= clock' /\ (reply' # NoReply => reply' = reply)
    BY <1>0, <1>1 DEF Known
  <2> QED BY <1>0, <1>1, <1>5, <2>1, FewerKnown
<1>7. PublicFits'
  BY <1>0, <1>1, <1>4 DEF PublicFits
<1>8. 1..Len(wire') = {} /\ ShownIn(wire') = {}
  BY <1>1, NothingIn
<1>9. Ordered'
  BY <1>0, <1>1, <1>4, <1>8 DEF Ordered, Climbs
<1>10. Counted'
  BY <1>8 DEF Counted
<1>11. \A i \in 1..Len(wire)' : wire[i]'.kind = "state" => wire[i]'.covers <= slips
  BY <1>8
<1>12. Tracked' /\ Accepting'
  BY <1>0, <1>1, <1>3, <1>11, NothingClean
<1> QED BY <1>3, <1>6, <1>7, <1>9, <1>10, <1>12 DEF Follows

(* The invariant holds at the start.                                       *)
LEMMA StartsFollowed ==
  ASSUME SyncInit PROVE Follows
<1>1. /\ live = [text |-> <<>>, version |-> 1, at |-> 1, loaded |-> TRUE] /\ saved = NoCommand /\ clock = 1
      /\ sendBatch = <<>> /\ wire = <<>> /\ viewBatch = <<>> /\ reply = NoReply /\ view = Unloaded
      /\ slips = 1 /\ healed = 0 /\ emitted = 0 /\ rounds = 0
  BY DEF SyncInit
<1>2. <<>> \in Seq(1..MaxDelta) /\ MaxDelta \in Nat
  BY SyncAssumption
<1>3. live \in Transcript /\ view \in Transcript
  BY <1>1, <1>2 DEF Transcript, Unloaded
<1>4. Typed
  BY <1>1, <1>2, <1>3, NothingIn DEF Typed
<1>5. PublicState = live
  BY <1>1 DEF PublicState
<1>6. ShownIn(wire) = {} /\ StreamedIn(wire) = {} /\ 1..Len(wire) = {} /\ Pipe = {} /\ Kept = {live}
  BY <1>1, <1>5, NothingIn DEF Pipe, Kept
<1>7. Len(live.text) = 0 /\ 1..Len(live.text) = {} /\ live.at = 1 /\ live.loaded /\ view.at = 0 /\ live.version = 1 /\ view.version = 0
  BY <1>1 DEF Unloaded
<1>8. StateKnown(live) /\ Rising(live.text) /\ Begins(live.text, live.text)
  BY <1>1, <1>7 DEF StateKnown, Rising, Begins
<1>9. Known /\ Stamped
  BY <1>1, <1>6, <1>7, <1>8 DEF Known, Stamped
<1>10. PublicFits
  BY <1>5, <1>7, <1>8 DEF PublicFits
<1>11. Ordered
  BY <1>1, <1>6, <1>7 DEF Ordered, Climbs
<1>12. Counted /\ Tracked /\ Accepting
  BY <1>1, <1>6 DEF Counted, Tracked, Accepting
<1> QED BY <1>4, <1>9, <1>10, <1>11, <1>12 DEF Follows

(* Every step keeps it.                                                    *)
LEMMA StepFollows ==
  ASSUME Follows, [SyncNext]_syncVars PROVE Follows'
<1>1. CASE UNCHANGED syncVars
  <2>0. UNCHANGED <<live, saved, clock, sendBatch, wire, reply, view, viewBatch, slips, healed, emitted, rounds>>
    BY <1>1 DEF syncVars
  <2>1. Typed /\ Known /\ Ordered
    BY DEF Follows
  <2>2. Typed'
    BY <2>0, <2>1 DEF Typed
  <2>3. PublicState' = PublicState
    BY <2>0 DEF PublicState
  <2>4. reply' # NoReply => reply'.state.at <= clock /\ reply'.state.loaded /\ NotAfter(reply'.state, PublicState)
    BY <2>0, <2>1 DEF Known, Ordered
  <2> QED BY <2>0, <2>2, <2>3, <2>4, NothingMoves
<1>2. CASE SyncNext
  BY <1>2, FlushBatchFollows, ProviderDeltaFollows, OpenCommandFollows, CommitCommandFollows, AbortCommandFollows,
     BroadcastStateFollows, TakeStateFollows, TakeStreamFollows, RenderBatchFollows, AskStateFollows, TakeReplyFollows,
     ReconnectFollows DEF SyncNext
<1> QED BY <1>1, <1>2

(* When nothing is on its way the client shows the live transcript.         *)
LEMMA FollowedIsLive ==
  ASSUME Follows PROVE ViewIsLive
<1> SUFFICES ASSUME sendBatch = <<>>, wire = <<>>, viewBatch = <<>>, healed = slips
             PROVE  view.text = live.text
  BY DEF ViewIsLive
<1>1. PICK p : /\ Way(wire, p, live.text, 0, sendBatch)
               /\ p[0] = Len(view.text) + Len(viewBatch)
               /\ Begins(view.text, live.text)
  BY DEF Follows, Tracked, ViewOnWay
<1>2. view.text \in Seq(1..MaxDelta) /\ live.text \in Seq(1..MaxDelta)
  BY DEF Follows, Typed, Transcript
<1>3. Len(wire) = 0 /\ Len(sendBatch) = 0 /\ Len(viewBatch) = 0 /\ Len(view.text) \in Nat /\ Len(live.text) \in Nat
  BY <1>2
<1>4. p[Len(wire)] + Len(sendBatch) = Len(live.text)
  BY <1>1 DEF Way
<1>5. Len(view.text) = Len(live.text)
  BY <1>1, <1>3, <1>4
<1>6. \A i \in 1..Len(view.text) : view.text[i] = live.text[i]
  BY <1>1 DEF Begins
<1> QED BY <1>2, <1>5, <1>6

(* It implies the types.                                                   *)
LEMMA FollowedIsTyped ==
  ASSUME Follows PROVE SyncTypeOK
<1>1. Typed
  BY DEF Follows
<1>2. saved = NoCommand \/ saved.state \in Transcript
  BY <1>1, StatesTyped
<1>3. reply = NoReply \/ reply.state \in Transcript
  BY <1>1, StatesTyped
<1>4. ASSUME NEW i \in DOMAIN wire
      PROVE  \/ wire[i].kind = "stream" /\ wire[i].batch \in Seq(Delta)
             \/ wire[i].kind = "state" /\ wire[i].state \in Transcript
  <2>1. wire[i] \in Message
    BY <1>1 DEF Typed
  <2> QED BY <2>1, MessageIs
<1> QED BY <1>1, <1>2, <1>3, <1>4 DEF SyncTypeOK, Typed, Transcript, Delta

(* When nothing is on its way and every slip was put right, a client shows  *)
(* the live transcript, each delta once and in order, for any number of     *)
(* deltas, commands, broadcasts, questions and lost connections: the two    *)
(* batches, the drop rule of the emitter and preferRuntimeSnapshot.         *)
THEOREM ClientShowsLive == SyncSpec => []SyncTypeOK /\ []ViewIsLive
<1>1. SyncInit => Follows
  BY StartsFollowed
<1>2. Follows /\ [SyncNext]_syncVars => Follows'
  BY StepFollows
<1>3. Follows => SyncTypeOK /\ ViewIsLive
  BY FollowedIsTyped, FollowedIsLive
<1> QED BY <1>1, <1>2, <1>3, PTL DEF SyncSpec

------------------------------------------------------------------------------
(* The inbox.                                                               *)

(* The manifest of an inbox.                                                *)
Entries == [seq : Nat, of : Delivery, read : BOOLEAN]
(* What is listed is in a manifest; a delivery is unread in it.              *)
Holds(in, l) == \E i \in 1..Len(in) : in[i].seq = l.seq /\ in[i].of = l.of
UnreadIn(in, d) == \E i \in 1..Len(in) : in[i].of = d /\ ~ in[i].read
(* A manifest has a delivery once, and its entries are numbered in order.   *)
OneEach(in) == \A i, j \in 1..Len(in) : in[i].of = in[j].of => i = j
Ascending(in) == \A i, j \in 1..Len(in) : i < j => in[i].seq < in[j].seq
Manifest(in) == in \in Seq(Entries) /\ OneEach(in) /\ Ascending(in)

-----------------------------------------------------------------------------
(* The manifest.                                                            *)

(* The entries of a manifest.                                              *)
LEMMA EntriesOf ==
  ASSUME NEW in \in Seq(Entries)
  PROVE  /\ Len(in) \in Nat /\ DOMAIN in = 1..Len(in)
         /\ \A i \in 1..Len(in) : in[i] \in Entries
         /\ \A i \in 1..Len(in) : in[i].seq \in Nat /\ in[i].of \in Delivery /\ in[i].read \in BOOLEAN
<1>1. Len(in) \in Nat /\ DOMAIN in = 1..Len(in) /\ \A i \in 1..Len(in) : in[i] \in Entries
  OBVIOUS
<1> QED BY <1>1 DEF Entries

(* They are what the manifest holds.                                       *)
LEMMA ToSetIs ==
  ASSUME NEW in \in Seq(Entries)
  PROVE  ToSet(in) = {in[i] : i \in 1..Len(in)}
BY EntriesOf DEF ToSet

(* What a message lists is what is unread, and is in the manifest.         *)
LEMMA UnreadIs ==
  ASSUME NEW in \in Seq(Entries)
  PROVE  /\ \A d : UnreadIn(in, d) => d \in Of(Unread(in))
         /\ \A l \in Unread(in) : Holds(in, l) /\ l \in [seq : Nat, of : Delivery]
         /\ \A d : d \in Of(Unread(in)) => UnreadIn(in, d)
<1>1. ToSet(in) = {in[i] : i \in 1..Len(in)}
  BY ToSetIs
<1>2. ASSUME NEW l \in Unread(in)
      PROVE \E i \in 1..Len(in) : ~ in[i].read /\ l = [seq |-> in[i].seq, of |-> in[i].of]
  <2>1. PICK e \in ToSet(in) : ~ e.read /\ l = [seq |-> e.seq, of |-> e.of]
    BY DEF Unread
  <2> QED BY <1>1, <2>1
<1>3. ASSUME NEW i \in 1..Len(in), ~ in[i].read PROVE [seq |-> in[i].seq, of |-> in[i].of] \in Unread(in)
  <2>1. in[i] \in ToSet(in)
    BY <1>1
  <2> QED BY <1>3, <2>1 DEF Unread
<1>4. ASSUME NEW d, UnreadIn(in, d) PROVE d \in Of(Unread(in))
  <2>1. PICK i \in 1..Len(in) : in[i].of = d /\ ~ in[i].read
    BY <1>4 DEF UnreadIn
  <2>2. [seq |-> in[i].seq, of |-> in[i].of] \in Unread(in)
    BY <1>3, <2>1
  <2>3. PICK l \in Unread(in) : l = [seq |-> in[i].seq, of |-> in[i].of]
    BY <2>2
  <2>4. l.of = d
    BY <2>1, <2>3
  <2> QED BY <2>4 DEF Of
<1>5. ASSUME NEW l \in Unread(in) PROVE Holds(in, l) /\ l \in [seq : Nat, of : Delivery]
  <2>1. PICK i \in 1..Len(in) : ~ in[i].read /\ l = [seq |-> in[i].seq, of |-> in[i].of]
    BY <1>2
  <2>2. in[i].seq \in Nat /\ in[i].of \in Delivery
    BY EntriesOf
  <2> QED BY <2>1, <2>2 DEF Holds
<1>6. ASSUME NEW d, d \in Of(Unread(in)) PROVE UnreadIn(in, d)
  <2>1. PICK l \in Unread(in) : l.of = d
    BY <1>6 DEF Of
  <2>2. PICK i \in 1..Len(in) : ~ in[i].read /\ l = [seq |-> in[i].seq, of |-> in[i].of]
    BY <1>2
  <2>3. in[i].of = d
    BY <2>1, <2>2
  <2> QED BY <2>2, <2>3 DEF UnreadIn
<1> QED BY <1>4, <1>5, <1>6

(* One more delivery.                                                       *)
LEMMA Delivered ==
  ASSUME NEW in, Manifest(in), NEW d \in Delivery, \A i \in 1..Len(in) : in[i].of # d
  PROVE  /\ Manifest(deliver(in, d))
         /\ UnreadIn(deliver(in, d), d)
         /\ \A x : UnreadIn(in, x) => UnreadIn(deliver(in, d), x)
         /\ \A l : Holds(in, l) => Holds(deliver(in, d), l)
         /\ \A i \in 1..Len(deliver(in, d)) :
              deliver(in, d)[i].of = d \/ \E j \in 1..Len(in) : in[j].of = deliver(in, d)[i].of
<1>1. in \in Seq(Entries) /\ Len(in) \in Nat
  BY DEF Manifest
<1>2. NextSeq(in) \in Nat /\ \A i \in 1..Len(in) : in[i].seq < NextSeq(in)
  <2>1. CASE in = <<>>
    BY <1>1, <2>1 DEF NextSeq
  <2>2. CASE in # <<>>
    <3>1. Len(in) \in 1..Len(in)
      BY <1>1, <2>2
    <3>2. NextSeq(in) = in[Len(in)].seq + 1
      BY <2>2 DEF NextSeq, Last
    <3>3. in[Len(in)].seq \in Nat
      BY <1>1, <3>1, EntriesOf
    <3>4. ASSUME NEW i \in 1..Len(in) PROVE in[i].seq < NextSeq(in)
      <4>1. in[i].seq \in Nat
        BY <1>1, EntriesOf
      <4>2. CASE i = Len(in)
        BY <3>2, <3>3, <4>2
      <4>3. CASE i # Len(in)
        <5>1. i < Len(in)
          BY <1>1, <4>3
        <5>2. in[i].seq < in[Len(in)].seq
          BY <3>1, <5>1 DEF Manifest, Ascending
        <5> QED BY <3>2, <3>3, <4>1, <5>2
      <4> QED BY <4>2, <4>3
    <3> QED BY <3>2, <3>3, <3>4
  <2> QED BY <2>1, <2>2
<1>3. PICK e : e = Entry(NextSeq(in), d)
  OBVIOUS
<1>4. e \in Entries /\ e.seq = NextSeq(in) /\ e.of = d /\ ~ e.read
  BY <1>2, <1>3 DEF Entry, Entries
<1>5. PICK v : v = deliver(in, d)
  OBVIOUS
<1>6. v = Append(in, e)
  BY <1>3, <1>5 DEF deliver
<1>7. /\ v \in Seq(Entries) /\ Len(v) = Len(in) + 1 /\ v[Len(in) + 1] = e
      /\ \A i \in 1..Len(in) : v[i] = in[i]
  BY <1>1, <1>4, <1>6
<1>8. \A i \in 1..Len(v) : i \in 1..Len(in) \/ i = Len(in) + 1
  BY <1>1, <1>7
<1>9. \A i \in 1..Len(in) : i \in 1..Len(v)
  BY <1>1, <1>7
<1>10. Len(in) + 1 \in 1..Len(v)
  BY <1>1, <1>7
<1>11. OneEach(v)
  <2> SUFFICES ASSUME NEW i \in 1..Len(v), NEW j \in 1..Len(v), v[i].of = v[j].of PROVE i = j
    BY DEF OneEach
  <2>1. CASE i \in 1..Len(in) /\ j \in 1..Len(in)
    BY <1>7, <2>1 DEF Manifest, OneEach
  <2>2. CASE i = Len(in) + 1 /\ j \in 1..Len(in)
    BY <1>4, <1>7, <2>2
  <2>3. CASE i \in 1..Len(in) /\ j = Len(in) + 1
    BY <1>4, <1>7, <2>3
  <2> QED BY <1>8, <2>1, <2>2, <2>3
<1>12. Ascending(v)
  <2> SUFFICES ASSUME NEW i \in 1..Len(v), NEW j \in 1..Len(v), i < j PROVE v[i].seq < v[j].seq
    BY DEF Ascending
  <2>1. i \in 1..Len(in) /\ v[i] = in[i]
    BY <1>1, <1>7
  <2>2. CASE j \in 1..Len(in)
    BY <1>7, <2>1, <2>2 DEF Manifest, Ascending
  <2>3. CASE j = Len(in) + 1
    BY <1>2, <1>4, <1>7, <2>1, <2>3
  <2> QED BY <1>8, <2>2, <2>3
<1>13. UnreadIn(v, d)
  BY <1>4, <1>7, <1>10 DEF UnreadIn
<1>14. \A x : UnreadIn(in, x) => UnreadIn(v, x)
  BY <1>7, <1>9 DEF UnreadIn
<1>15. \A l : Holds(in, l) => Holds(v, l)
  BY <1>7, <1>9 DEF Holds
<1>16. \A i \in 1..Len(v) : v[i].of = d \/ \E j \in 1..Len(in) : in[j].of = v[i].of
  BY <1>4, <1>7, <1>8
<1>17. Manifest(v)
  BY <1>7, <1>11, <1>12 DEF Manifest
<1> QED BY <1>5, <1>13, <1>14, <1>15, <1>16, <1>17

(* A manifest whose entries are only marked.                                *)
LEMMA Marked ==
  ASSUME NEW in, Manifest(in), NEW v, v \in Seq(Entries), Len(v) = Len(in),
         \A i \in 1..Len(in) : v[i].seq = in[i].seq /\ v[i].of = in[i].of
  PROVE  /\ Manifest(v) /\ \A l : Holds(in, l) <=> Holds(v, l)
BY DEF Manifest, OneEach, Ascending, Holds

(* A function on the first numbers is a sequence.                          *)
LEMMA SeqMade ==
  ASSUME NEW S, NEW n \in Nat, NEW f \in [1..n -> S]
  PROVE  f \in Seq(S) /\ Len(f) = n
<1>1. f \in Seq(S)
  BY SeqDef
<1>2. Len(f) \in Nat /\ DOMAIN f = 1..Len(f)
  BY <1>1, LenProperties
<1>3. DOMAIN f = 1..n
  OBVIOUS
<1>4. 1..n = 1..Len(f)
  BY <1>2, <1>3
<1>5. n = Len(f)
  BY <1>2, <1>4
<1> QED BY <1>1, <1>5

(* An entry that is marked keeps its number and its delivery.              *)
LEMMA EntryMarked ==
  ASSUME NEW e \in Entries, NEW b \in BOOLEAN
  PROVE  /\ [e EXCEPT !.read = b] \in Entries
         /\ [e EXCEPT !.read = b].seq = e.seq /\ [e EXCEPT !.read = b].of = e.of /\ [e EXCEPT !.read = b].read = b
BY DEF Entries

(* markRead keeps the entries.                                             *)
LEMMA MarkedRead ==
  ASSUME NEW in, Manifest(in)
  PROVE  /\ Manifest(markRead(in)) /\ \A l : Holds(in, l) <=> Holds(markRead(in), l)
         /\ Len(markRead(in)) = Len(in) /\ \A i \in 1..Len(in) : markRead(in)[i].of = in[i].of
<1> PICK v : v = markRead(in)
  OBVIOUS
<1>1. in \in Seq(Entries) /\ Len(in) \in Nat /\ DOMAIN in = 1..Len(in)
  BY EntriesOf DEF Manifest
<1>2. v = [i \in 1..Len(in) |-> [in[i] EXCEPT !.read = TRUE]]
  BY <1>1 DEF markRead
<1>3. ASSUME NEW i \in 1..Len(in)
      PROVE  v[i] \in Entries /\ v[i].seq = in[i].seq /\ v[i].of = in[i].of
  <2>1. in[i] \in Entries /\ v[i] = [in[i] EXCEPT !.read = TRUE]
    BY <1>1, <1>2
  <2> QED BY <2>1, EntryMarked
<1>4. v \in [1..Len(in) -> Entries]
  BY <1>2, <1>3
<1>5. v \in Seq(Entries) /\ Len(v) = Len(in)
  BY <1>1, <1>4, SeqMade
<1> QED BY <1>3, <1>5, Marked

(* unmarkRead keeps the entries, and what was listed is unread again.      *)
LEMMA UnmarkedRead ==
  ASSUME NEW in, Manifest(in), NEW lists
  PROVE  /\ Manifest(unmarkRead(in, lists)) /\ \A l : Holds(in, l) <=> Holds(unmarkRead(in, lists), l)
         /\ Len(unmarkRead(in, lists)) = Len(in) /\ \A i \in 1..Len(in) : unmarkRead(in, lists)[i].of = in[i].of
         /\ \A d : UnreadIn(in, d) => UnreadIn(unmarkRead(in, lists), d)
         /\ \A l \in lists : Holds(in, l) => UnreadIn(unmarkRead(in, lists), l.of)
<1> PICK v : v = unmarkRead(in, lists)
  OBVIOUS
<1>1. in \in Seq(Entries) /\ Len(in) \in Nat /\ DOMAIN in = 1..Len(in)
  BY EntriesOf DEF Manifest
<1>2. v = [i \in 1..Len(in) |-> IF \E l \in lists : l.seq = in[i].seq THEN [in[i] EXCEPT !.read = FALSE] ELSE in[i]]
  BY <1>1 DEF unmarkRead
<1>3. ASSUME NEW i \in 1..Len(in)
      PROVE  /\ v[i] \in Entries /\ v[i].seq = in[i].seq /\ v[i].of = in[i].of
             /\ (~ in[i].read \/ \E l \in lists : l.seq = in[i].seq) => ~ v[i].read
  <2>1. in[i] \in Entries
    BY <1>1
  <2>2. CASE \E l \in lists : l.seq = in[i].seq
    <3>1. v[i] = [in[i] EXCEPT !.read = FALSE]
      BY <1>2, <2>2
    <3> QED BY <2>1, <3>1, EntryMarked
  <2>3. CASE ~ \E l \in lists : l.seq = in[i].seq
    <3>1. v[i] = in[i]
      BY <1>2, <2>3
    <3> QED BY <2>1, <2>3, <3>1
  <2> QED BY <2>2, <2>3
<1>4. v \in [1..Len(in) -> Entries]
  <2>1. \A i \in 1..Len(in) : v[i] \in Entries
    BY <1>3
  <2> QED BY <1>2, <2>1
<1>5. v \in Seq(Entries) /\ Len(v) = Len(in)
  BY <1>1, <1>4, SeqMade
<1>6. Manifest(v) /\ \A l : Holds(in, l) <=> Holds(v, l)
  BY <1>3, <1>5, Marked
<1>7. \A d : UnreadIn(in, d) => UnreadIn(v, d)
  BY <1>3, <1>5 DEF UnreadIn
<1>8. ASSUME NEW l \in lists, Holds(in, l) PROVE UnreadIn(v, l.of)
  <2>1. PICK i \in 1..Len(in) : in[i].seq = l.seq /\ in[i].of = l.of
    BY <1>8 DEF Holds
  <2>2. ~ v[i].read /\ v[i].of = l.of
    BY <1>3, <2>1
  <2> QED BY <1>5, <2>2 DEF UnreadIn
<1> QED BY <1>3, <1>5, <1>6, <1>7, <1>8

(* What is left after each entry of a manifest.                             *)
Leaves(g, n, in, keep) ==
  g = [i \in 0..n |-> IF i = 0 THEN <<>>
                      ELSE IF survives(in, keep, i) THEN Append(g[i - 1], in[i]) ELSE g[i - 1]]

(* One more entry can be looked at.                                        *)
LEMMA LeavesMore ==
  ASSUME NEW in, NEW keep, NEW n \in Nat, n # 0, NEW g, Leaves(g, n - 1, in, keep)
  PROVE  \E h : Leaves(h, n, in, keep)
<1> PICK x : x = IF survives(in, keep, n) THEN Append(g[n - 1], in[n]) ELSE g[n - 1]
  OBVIOUS
<1> DEFINE h == [i \in 0..n |-> IF i = n THEN x ELSE g[i]]
<1>1. g = [i \in 0..(n - 1) |-> IF i = 0 THEN <<>>
                      ELSE IF survives(in, keep, i) THEN Append(g[i - 1], in[i]) ELSE g[i - 1]]
  BY DEF Leaves
<1>2. ASSUME NEW i \in 0..n
      PROVE  h[i] = IF i = 0 THEN <<>>
                    ELSE IF survives(in, keep, i) THEN Append(h[i - 1], in[i]) ELSE h[i - 1]
  <2>1. CASE i = n
    <3>1. h[i] = x /\ h[i - 1] = g[n - 1]
      BY <2>1
    <3> QED BY <2>1, <3>1
  <2>2. CASE i # n /\ i = 0
    <3>1. h[i] = g[0]
      BY <2>2
    <3>2. g[0] = <<>>
      BY <1>1
    <3> QED BY <2>2, <3>1, <3>2
  <2>3. CASE i # n /\ i # 0
    <3>1. h[i] = g[i] /\ h[i - 1] = g[i - 1]
      BY <2>3
    <3>2. g[i] = IF survives(in, keep, i) THEN Append(g[i - 1], in[i]) ELSE g[i - 1]
      <4>1. i \in 0..(n - 1)
        BY <2>3
      <4> QED BY <1>1, <2>3, <4>1
    <3> QED BY <2>3, <3>1, <3>2
  <2> QED BY <2>1, <2>2, <2>3
<1>3. h = [i \in 0..n |-> h[i]]
  OBVIOUS
<1> HIDE DEF h
<1>4. h = [i \in 0..n |-> IF i = 0 THEN <<>>
                      ELSE IF survives(in, keep, i) THEN Append(h[i - 1], in[i]) ELSE h[i - 1]]
  BY <1>2, <1>3
<1> QED BY <1>4 DEF Leaves

(* Any number of entries can be looked at.                                 *)
LEMMA LeavesExists ==
  ASSUME NEW in, NEW keep, NEW n \in Nat
  PROVE  \E g : Leaves(g, n, in, keep)
<1> DEFINE T == {m \in Nat : ~ \E g : Leaves(g, m, in, keep)}
<1>0. T \subseteq Nat /\ \A m : m \in T <=> m \in Nat /\ ~ \E g : Leaves(g, m, in, keep)
  OBVIOUS
<1> HIDE DEF T
<1> SUFFICES ASSUME T # {} PROVE FALSE
  BY <1>0
<1>1. PICK m \in T : \A k \in T : m <= k
  BY <1>0, LeastNumber
<1>2. m \in Nat
  BY <1>0
<1>3. CASE m = 0
  <2> DEFINE g == [i \in 0..0 |-> <<>>]
  <2>1. g = [i \in 0..0 |-> IF i = 0 THEN <<>>
                      ELSE IF survives(in, keep, i) THEN Append(g[i - 1], in[i]) ELSE g[i - 1]]
    OBVIOUS
  <2> HIDE DEF g
  <2>2. Leaves(g, 0, in, keep)
    BY <2>1 DEF Leaves
  <2> QED BY <1>0, <1>3, <2>2
<1>4. CASE m # 0
  <2>1. m - 1 \in Nat /\ ~(m <= m - 1)
    BY <1>2, <1>4
  <2>2. m - 1 \notin T
    BY <1>1, <2>1
  <2>3. PICK g : Leaves(g, m - 1, in, keep)
    BY <1>0, <2>1, <2>2
  <2>4. \E h : Leaves(h, m, in, keep)
    BY <1>2, <1>4, <2>3, LeavesMore
  <2> QED BY <1>0, <2>4
<1> QED BY <1>3, <1>4

(* A cleanup keeps entries in their order, and all that are unread.         *)
LEMMA CleanedUp ==
  ASSUME NEW in, Manifest(in), NEW keep
  PROVE  /\ Manifest(cleanup(in, keep))
         /\ \A k \in 1..Len(cleanup(in, keep)) : \E i \in 1..Len(in) : cleanup(in, keep)[k] = in[i]
         /\ \A d : UnreadIn(in, d) => UnreadIn(cleanup(in, keep), d)
<1>0. in \in Seq(Entries) /\ Len(in) \in Nat /\ \A i \in 1..Len(in) : in[i] \in Entries /\ in[i].seq \in Nat
  BY EntriesOf DEF Manifest
<1> DEFINE f == CHOOSE g : Leaves(g, Len(in), in, keep)
<1>1. Leaves(f, Len(in), in, keep)
  BY <1>0, LeavesExists
<1>2. cleanup(in, keep) = f[Len(in)]
  BY Zenon DEF cleanup, Leaves
<1> HIDE DEF f
<1> DEFINE P(v, n) == /\ v \in Seq(Entries) /\ Ascending(v)
                      /\ \A k \in 1..Len(v) : \E i \in 1..n : v[k] = in[i]
                      /\ \A i \in 1..n : ~ in[i].read => \E k \in 1..Len(v) : v[k] = in[i]
           N == {i \in 0..Len(in) : ~ P(f[i], i)}
<1>3. P(<<>>, 0)
  BY DEF Ascending
<1>4. ASSUME NEW v, NEW n \in 1..Len(in), P(v, n - 1)
      PROVE  /\ P(Append(v, in[n]), n)
             /\ in[n].read => P(v, n)
  <2>0. v \in Seq(Entries) /\ Ascending(v) /\ Len(v) \in Nat /\ in[n] \in Entries
    BY <1>0, <1>4
  <2>1. \A k \in 1..Len(v) : \E i \in 1..(n - 1) : v[k] = in[i]
    BY <1>4
  <2>2. \A i \in 1..(n - 1) : ~ in[i].read => \E k \in 1..Len(v) : v[k] = in[i]
    BY <1>4
  <2>3. \A i \in 1..(n - 1) : i \in 1..n /\ i \in 1..Len(in) /\ i < n
    BY <1>0
  <2>4. \A i \in 1..n : i \in 1..(n - 1) \/ i = n
    OBVIOUS
  <2>5. PICK u : u = Append(v, in[n])
    OBVIOUS
  <2>6. u \in Seq(Entries) /\ Len(u) = Len(v) + 1 /\ u[Len(v) + 1] = in[n] /\ \A k \in 1..Len(v) : u[k] = v[k]
    BY <2>0, <2>5
  <2>7. \A k \in 1..Len(u) : k \in 1..Len(v) \/ k = Len(v) + 1
    BY <2>0, <2>6
  <2>8. Len(v) + 1 \in 1..Len(u) /\ \A k \in 1..Len(v) : k \in 1..Len(u)
    BY <2>0, <2>6
  <2>9. Ascending(u)
    <3> SUFFICES ASSUME NEW a \in 1..Len(u), NEW c \in 1..Len(u), a < c PROVE u[a].seq < u[c].seq
      BY DEF Ascending
    <3>1. a \in 1..Len(v) /\ u[a] = v[a]
      BY <2>0, <2>6
    <3>2. CASE c \in 1..Len(v)
      BY <2>0, <2>6, <3>1, <3>2 DEF Ascending
    <3>3. CASE c = Len(v) + 1
      <4>1. PICK i \in 1..(n - 1) : v[a] = in[i]
        BY <2>1, <3>1
      <4>2. in[i].seq < in[n].seq
        BY <2>3 DEF Manifest, Ascending
      <4> QED BY <2>6, <3>1, <3>3, <4>1, <4>2
    <3> QED BY <2>7, <3>2, <3>3
  <2>10. ASSUME NEW k \in 1..Len(u) PROVE \E i \in 1..n : u[k] = in[i]
    <3>1. CASE k \in 1..Len(v)
      <4>1. PICK i \in 1..(n - 1) : v[k] = in[i]
        BY <2>1, <3>1
      <4> QED BY <2>3, <2>6, <3>1, <4>1
    <3>2. CASE k = Len(v) + 1
      BY <2>6, <3>2
    <3> QED BY <2>7, <3>1, <3>2
  <2>11. ASSUME NEW i \in 1..n, ~ in[i].read PROVE \E k \in 1..Len(u) : u[k] = in[i]
    <3>1. CASE i \in 1..(n - 1)
      <4>1. PICK k \in 1..Len(v) : v[k] = in[i]
        BY <2>2, <2>11, <3>1
      <4> QED BY <2>6, <2>8, <4>1
    <3>2. CASE i = n
      BY <2>6, <2>8, <3>2
    <3> QED BY <2>4, <3>1, <3>2
  <2>12. P(u, n)
    BY <2>6, <2>9, <2>10, <2>11
  <2>13. in[n].read => P(v, n)
    <3> SUFFICES ASSUME in[n].read PROVE P(v, n)
      OBVIOUS
    <3>1. \A k \in 1..Len(v) : \E i \in 1..n : v[k] = in[i]
      BY <2>1, <2>3
    <3>2. \A i \in 1..n : ~ in[i].read => \E k \in 1..Len(v) : v[k] = in[i]
      BY <2>2, <2>4
    <3> QED BY <2>0, <3>1, <3>2
  <2> QED BY <2>5, <2>12, <2>13
<1>5. N \subseteq Nat /\ \A i : i \in N <=> i \in 0..Len(in) /\ ~ P(f[i], i)
  OBVIOUS
<1> HIDE DEF P, N
<1>6. N = {}
  <2> SUFFICES ASSUME N # {} PROVE FALSE
    OBVIOUS
  <2>1. PICK n \in N : \A m \in N : n <= m
    BY <1>5, LeastNumber
  <2>2. n \in 0..Len(in) /\ ~ P(f[n], n)
    BY <1>5, <2>1
  <2>3. f[n] = IF n = 0 THEN <<>>
               ELSE IF survives(in, keep, n) THEN Append(f[n - 1], in[n]) ELSE f[n - 1]
    BY <1>1, <2>2 DEF Leaves
  <2>4. n # 0
    BY <1>3, <2>2, <2>3
  <2>5. n - 1 \in 0..Len(in) /\ ~(n <= n - 1) /\ n \in 1..Len(in)
    BY <1>0, <2>2, <2>4
  <2>6. n - 1 \notin N
    BY <2>1, <2>5
  <2>7. P(f[n - 1], n - 1)
    BY <1>5, <2>5, <2>6
  <2>8. P(Append(f[n - 1], in[n]), n) /\ (in[n].read => P(f[n - 1], n))
    BY <1>4, <2>5, <2>7
  <2>9. ~ in[n].read => survives(in, keep, n)
    BY DEF survives
  <2> QED BY <2>2, <2>3, <2>4, <2>8, <2>9
<1>7. P(f[Len(in)], Len(in))
  BY <1>0, <1>5, <1>6
<1>8. PICK v : v = cleanup(in, keep)
  OBVIOUS
<1>9. /\ v \in Seq(Entries) /\ Ascending(v)
      /\ \A k \in 1..Len(v) : \E i \in 1..Len(in) : v[k] = in[i]
      /\ \A i \in 1..Len(in) : ~ in[i].read => \E k \in 1..Len(v) : v[k] = in[i]
  BY <1>2, <1>7, <1>8 DEF P
<1>10. OneEach(v)
  <2> SUFFICES ASSUME NEW a \in 1..Len(v), NEW c \in 1..Len(v), v[a].of = v[c].of PROVE a = c
    BY DEF OneEach
  <2>1. PICK i \in 1..Len(in) : v[a] = in[i]
    BY <1>9
  <2>2. PICK j \in 1..Len(in) : v[c] = in[j]
    BY <1>9
  <2>3. i = j
    BY <2>1, <2>2 DEF Manifest, OneEach
  <2>4. v[a].seq = v[c].seq /\ v[a].seq \in Nat /\ Len(v) \in Nat
    BY <1>0, <1>9, <2>1, <2>2, <2>3
  <2>5. ~(a < c) /\ ~(c < a)
    BY <1>9, <2>4 DEF Ascending
  <2> QED BY <2>4, <2>5
<1>11. \A d : UnreadIn(in, d) => UnreadIn(v, d)
  <2> SUFFICES ASSUME NEW d, UnreadIn(in, d) PROVE UnreadIn(v, d)
    OBVIOUS
  <2>1. PICK i \in 1..Len(in) : in[i].of = d /\ ~ in[i].read
    BY DEF UnreadIn
  <2>2. PICK k \in 1..Len(v) : v[k] = in[i]
    BY <1>9, <2>1
  <2> QED BY <2>1, <2>2 DEF UnreadIn
<1>12. Manifest(v)
  BY <1>9, <1>10 DEF Manifest
<1> QED BY <1>8, <1>9, <1>11, <1>12

-----------------------------------------------------------------------------
(* The books of a session: its manifest, its turn, the log and the history. *)

Turns == [at : {"none", "queued", "running"}, lists : SUBSET Listing, output : BOOLEAN]
Sound(B, t, dl, go, seen) ==
  /\ Manifest(B) /\ t \in Turns
  /\ dl \subseteq Delivery /\ go \subseteq Delivery /\ seen \subseteq Delivery
  /\ seen \subseteq dl \cup go /\ Of(t.lists) \subseteq dl \cup go
  /\ t.at = "none" => t = NoTurn
  /\ t.output => Of(t.lists) \subseteq seen
  /\ \A i \in 1..Len(B) : B[i].of \in dl \cup go
  /\ \A d \in dl \ go : d \in seen \/ d \in Of(t.lists) \/ UnreadIn(B, d)
  /\ \A l \in t.lists : l.of \in go \/ l.of \in seen \/ Holds(B, l)

(* What an open command has done to the inbox.                              *)
Open(h, in, t, dl, go, seen) ==
  /\ Manifest(in) /\ h.kind \in {"deliver", "activate", "fire"}
  /\ h.of \subseteq Delivery /\ h.lists \subseteq Listing
  /\ \A d \in h.of : d \notin dl /\ d \notin go /\ d \notin seen
  /\ \A l : Holds(h.before, l) => Holds(in, l)
  /\ \A i \in 1..Len(in) : in[i].of \in h.of \/ \E j \in 1..Len(h.before) : h.before[j].of = in[i].of
  /\ \A l \in h.lists : Holds(in, l)
  /\ h.kind = "deliver" => \A d : d \in h.of \/ UnreadIn(h.before, d) => UnreadIn(in, d)
  /\ h.kind # "deliver" =>
       t = NoTurn /\ \A d : d \in h.of \/ UnreadIn(h.before, d) => d \in Of(h.lists)

(* The inbox as the last command left it.                                   *)
Base == IF handling = NoHandler THEN inbox ELSE handling.before
(* The inductive invariant.                                                 *)
Balanced ==
  /\ sweep \in Seq(0 .. 1) /\ jolts \in 0 .. MaxJolt
  /\ Sound(Base, turn, delivered, gone, seenOf)
  /\ handling # NoHandler => Open(handling, inbox, turn, delivered, gone, seenOf)

(* No turn lists nothing.                                                  *)
LEMMA NothingListed == Of({}) = {} /\ NoTurn \in Turns /\ NoTurn.lists = {} /\ ~ NoTurn.output /\ NoTurn.at = "none"
BY DEF Of, NoTurn, Turns

(* The deliveries of a listing.                                            *)
LEMMA ListedOf ==
  ASSUME NEW lists
  PROVE  /\ \A l \in lists : l.of \in Of(lists)
         /\ \A d \in Of(lists) : \E l \in lists : l.of = d
         /\ lists \subseteq Listing => Of(lists) \subseteq Delivery
BY DEF Of, Listing

(* The turn of an activation.                                              *)
LEMMA NewTurn ==
  ASSUME NEW lists, lists \subseteq Listing, NEW at \in {"queued", "running"},
         NEW u, u = [at |-> at, lists |-> lists, output |-> FALSE]
  PROVE  u \in Turns /\ u.lists = lists /\ u.at # "none" /\ ~ u.output
<1>1. u.lists = lists /\ u.at = at /\ u.output = FALSE
  OBVIOUS
<1>2. lists \in SUBSET Listing /\ at \in {"none", "queued", "running"} /\ FALSE \in BOOLEAN
  OBVIOUS
<1>3. u \in Turns
  BY <1>2 DEF Turns
<1>4. at # "none"
  OBVIOUS
<1> QED BY <1>1, <1>3, <1>4

(* A command commits.                                                       *)
LEMMA BooksKept ==
  ASSUME NEW h, NEW in, NEW t, NEW dl, NEW go, NEW seen, NEW at \in {"queued", "running"},
         Sound(h.before, t, dl, go, seen), Open(h, in, t, dl, go, seen),
         NEW u, u = IF h.kind = "deliver" THEN t ELSE [at |-> at, lists |-> h.lists, output |-> FALSE]
  PROVE  Sound(in, u, dl \cup h.of, go, seen)
<1>1. Manifest(in) /\ h.of \subseteq Delivery /\ h.lists \subseteq Listing
  BY DEF Open
<1>2. \A i \in 1..Len(in) : in[i].of \in (dl \cup h.of) \cup go
  BY DEF Open, Sound
<1>3. CASE h.kind = "deliver"
  <2>1. \A d : d \in h.of \/ UnreadIn(h.before, d) => UnreadIn(in, d)
    BY <1>3 DEF Open
  <2>2. \A l : Holds(h.before, l) => Holds(in, l)
    BY DEF Open
  <2>3. \A d \in (dl \cup h.of) \ go : d \in seen \/ d \in Of(t.lists) \/ UnreadIn(in, d)
    BY <2>1 DEF Sound
  <2>4. \A l \in t.lists : l.of \in go \/ l.of \in seen \/ Holds(in, l)
    BY <2>2 DEF Sound
  <2>5. u = t
    BY <1>3
  <2>6. /\ seen \subseteq (dl \cup h.of) \cup go /\ dl \cup h.of \subseteq Delivery
        /\ Of(t.lists) \subseteq (dl \cup h.of) \cup go
    BY <1>1 DEF Sound
  <2>7. /\ t \in Turns /\ go \subseteq Delivery /\ seen \subseteq Delivery
        /\ (t.at = "none" => t = NoTurn) /\ (t.output => Of(t.lists) \subseteq seen)
    BY DEF Sound
  <2>8. Sound(in, t, dl \cup h.of, go, seen)
    BY <1>1, <1>2, <2>3, <2>4, <2>6, <2>7 DEF Sound
  <2> QED BY <2>5, <2>8
<1>4. CASE h.kind # "deliver"
  <2>1. t = NoTurn /\ \A d : d \in h.of \/ UnreadIn(h.before, d) => d \in Of(h.lists)
    BY <1>4 DEF Open
  <2>2. u = [at |-> at, lists |-> h.lists, output |-> FALSE]
    BY <1>4
  <2>3. u \in Turns /\ u.lists = h.lists /\ u.at # "none" /\ ~ u.output
    BY <1>1, <2>2, NewTurn
  <2>4. \A l \in h.lists : Holds(in, l)
    BY DEF Open
  <2>5. ASSUME NEW d \in Of(h.lists) PROVE d \in (dl \cup h.of) \cup go
    <3>1. PICK l \in h.lists : l.of = d
      BY ListedOf
    <3>2. PICK i \in 1..Len(in) : in[i].of = l.of
      BY <2>4, <3>1 DEF Holds
    <3> QED BY <1>2, <3>1, <3>2
  <2>6. \A d \in (dl \cup h.of) \ go : d \in seen \/ d \in Of(u.lists) \/ UnreadIn(in, d)
    <3> SUFFICES ASSUME NEW d \in (dl \cup h.of) \ go PROVE d \in seen \/ d \in Of(h.lists)
      BY <2>3
    <3>1. CASE d \in h.of
      BY <2>1, <3>1
    <3>2. CASE d \in dl \ go
      <4>1. d \in seen \/ d \in Of(t.lists) \/ UnreadIn(h.before, d)
        BY <3>2 DEF Sound
      <4>2. d \notin Of(t.lists)
        BY <2>1, NothingListed
      <4> QED BY <2>1, <4>1, <4>2
    <3> QED BY <3>1, <3>2
  <2>7. seen \subseteq (dl \cup h.of) \cup go /\ dl \cup h.of \subseteq Delivery /\ go \subseteq Delivery /\ seen \subseteq Delivery
    BY <1>1 DEF Sound
  <2> QED BY <1>1, <1>2, <2>3, <2>4, <2>5, <2>6, <2>7 DEF Sound
<1> QED BY <1>3, <1>4

(* The process ends; nothing of a command is left.                          *)
LEMMA BooksRestart ==
  ASSUME NEW B, NEW t, NEW dl, NEW go, NEW seen, Sound(B, t, dl, go, seen),
         NEW u, u = IF t.at = "running" THEN NoTurn ELSE t,
         NEW g2, g2 = go \cup ((IF t.at = "running" THEN Of(t.lists) ELSE {}) \ seen)
  PROVE  Sound(B, u, dl, g2, seen)
<1>1. CASE t.at = "running"
  <2>1. u = NoTurn /\ g2 = go \cup (Of(t.lists) \ seen)
    BY <1>1
  <2>2. Of(t.lists) \subseteq Delivery
    BY ListedOf DEF Sound, Turns
  <2>3. \A d \in dl \ g2 : d \in seen \/ d \in Of(u.lists) \/ UnreadIn(B, d)
    BY <2>1 DEF Sound
  <2> QED BY <2>1, <2>2, <2>3, NothingListed DEF Sound
<1>2. CASE t.at # "running"
  <2>1. u = t /\ g2 = go
    BY <1>2
  <2> QED BY <2>1
<1> QED BY <1>1, <1>2

(* The process ends; the entry of a delivery stays, without its fact.       *)
LEMMA BooksLeft ==
  ASSUME NEW h, NEW in, NEW t, NEW dl, NEW go, NEW seen,
         Sound(h.before, t, dl, go, seen), Open(h, in, t, dl, go, seen),
         h.kind = "deliver",
         NEW u, u = IF t.at = "running" THEN NoTurn ELSE t,
         NEW g2, g2 = go \cup ((h.of \cup (IF t.at = "running" THEN Of(t.lists) ELSE {})) \ seen)
  PROVE  Sound(in, u, dl, g2, seen)
<1>1. Manifest(in) /\ h.of \subseteq Delivery
  BY DEF Open
<1>2. Of(t.lists) \subseteq Delivery
  BY ListedOf DEF Sound, Turns
<1>3. h.of \subseteq g2 /\ go \subseteq g2 /\ g2 \subseteq Delivery
  <2>1. \A d \in h.of : d \notin seen
    BY DEF Open
  <2>2. go \subseteq Delivery
    BY DEF Sound
  <2> QED BY <1>1, <1>2, <2>1, <2>2
<1>4. \A i \in 1..Len(in) : in[i].of \in dl \cup g2
  <2> SUFFICES ASSUME NEW i \in 1..Len(in) PROVE in[i].of \in dl \cup g2
    OBVIOUS
  <2>1. in[i].of \in h.of \/ \E j \in 1..Len(h.before) : h.before[j].of = in[i].of
    BY DEF Open
  <2>2. \A j \in 1..Len(h.before) : h.before[j].of \in dl \cup go
    BY DEF Sound
  <2> QED BY <1>3, <2>1, <2>2
<1>5. u \in Turns /\ u.lists \subseteq t.lists /\ (u.at = "none" => u = NoTurn)
      /\ (u.output => Of(u.lists) \subseteq seen) /\ Of(u.lists) \subseteq dl \cup g2
  <2>1. CASE t.at = "running"
    BY <2>1, NothingListed
  <2>2. CASE t.at # "running"
    BY <1>3, <2>2 DEF Sound
  <2> QED BY <2>1, <2>2
<1>6. \A l \in u.lists : l.of \in g2 \/ l.of \in seen \/ Holds(in, l)
  <2>1. \A l : Holds(h.before, l) => Holds(in, l)
    BY DEF Open
  <2>2. \A l \in t.lists : l.of \in go \/ l.of \in seen \/ Holds(h.before, l)
    BY DEF Sound
  <2> QED BY <1>3, <1>5, <2>1, <2>2
<1>7. \A d \in dl \ g2 : d \in seen \/ d \in Of(u.lists) \/ UnreadIn(in, d)
  <2> SUFFICES ASSUME NEW d \in dl \ g2, d \notin seen PROVE d \in Of(u.lists) \/ UnreadIn(in, d)
    OBVIOUS
  <2>1. d \in Of(t.lists) \/ UnreadIn(h.before, d)
    BY <1>3 DEF Sound
  <2>2. CASE d \in Of(t.lists)
    <3>1. t.at # "running"
      BY <2>2
    <3> QED BY <2>2, <3>1
  <2>3. CASE UnreadIn(h.before, d)
    BY <2>3 DEF Open
  <2> QED BY <2>1, <2>2, <2>3
<1>8. seen \subseteq dl \cup g2 /\ dl \subseteq Delivery /\ seen \subseteq Delivery
  BY <1>3 DEF Sound
<1> QED BY <1>1, <1>3, <1>4, <1>5, <1>6, <1>7, <1>8 DEF Sound

(* A cleanup.                                                               *)
LEMMA BooksCleaned ==
  ASSUME NEW B, NEW t, NEW dl, NEW go, NEW seen, Sound(B, t, dl, go, seen), NEW keep,
         NEW C, C = cleanup(B, keep),
         NEW kept, kept = {e.of : e \in ToSet(C)},
         NEW g2, g2 = go \cup (Of({l \in t.lists : l.of \notin kept}) \ seen)
  PROVE  Sound(C, t, dl, g2, seen)
<1>1. Manifest(B)
  BY DEF Sound
<1>2. /\ Manifest(C) /\ \A k \in 1..Len(C) : \E i \in 1..Len(B) : C[k] = B[i]
      /\ \A d : UnreadIn(B, d) => UnreadIn(C, d)
  BY <1>1, CleanedUp
<1>3. ToSet(C) = {C[k] : k \in 1..Len(C)}
  BY <1>2, ToSetIs DEF Manifest
<1>4. t.lists \subseteq Listing
  BY DEF Sound, Turns
<1>5. Of({l \in t.lists : l.of \notin kept}) \subseteq Delivery
  BY <1>4, ListedOf
<1>6. go \subseteq g2 /\ g2 \subseteq Delivery
  BY <1>5 DEF Sound
<1>7. \A k \in 1..Len(C) : C[k].of \in dl \cup g2
  BY <1>2, <1>6 DEF Sound
<1>8. \A d \in dl \ g2 : d \in seen \/ d \in Of(t.lists) \/ UnreadIn(C, d)
  BY <1>2, <1>6 DEF Sound
<1>9. ASSUME NEW l \in t.lists PROVE l.of \in g2 \/ l.of \in seen \/ Holds(C, l)
  <2>1. CASE l.of \notin kept
    <3>1. l.of \in Of({x \in t.lists : x.of \notin kept})
      BY <2>1, ListedOf
    <3> QED BY <3>1
  <2>2. CASE l.of \in kept /\ Holds(B, l)
    <3>1. PICK i \in 1..Len(B) : B[i].seq = l.seq /\ B[i].of = l.of
      BY <2>2 DEF Holds
    <3>2. PICK k \in 1..Len(C) : C[k].of = l.of
      BY <1>3, <2>2
    <3>3. PICK j \in 1..Len(B) : C[k] = B[j]
      BY <1>2
    <3>4. i = j
      BY <1>1, <3>1, <3>2, <3>3 DEF Manifest, OneEach
    <3> QED BY <3>1, <3>3, <3>4 DEF Holds
  <2>3. l.of \in go \/ l.of \in seen \/ Holds(B, l)
    BY DEF Sound
  <2> QED BY <1>6, <2>1, <2>2, <2>3
<1>10. seen \subseteq dl \cup g2 /\ Of(t.lists) \subseteq dl \cup g2 /\ dl \subseteq Delivery /\ seen \subseteq Delivery
  BY <1>6 DEF Sound
<1> QED BY <1>2, <1>6, <1>7, <1>8, <1>9, <1>10 DEF Sound

(* The agent sees what its message lists; the turn goes on, or is over.     *)
LEMMA BooksSeen ==
  ASSUME NEW B, NEW t, NEW dl, NEW go, NEW seen, Sound(B, t, dl, go, seen), t.at = "running",
         NEW u, u = NoTurn \/ u = [t EXCEPT !.output = TRUE]
  PROVE  Sound(B, u, dl, go, seen \cup Of(t.lists))
<1>1. Of(t.lists) \subseteq Delivery
  BY ListedOf DEF Sound, Turns
<1>2. u = NoTurn \/ (u \in Turns /\ u.lists = t.lists /\ u.at = t.at)
  BY DEF Sound, Turns
<1>3. /\ u \in Turns /\ (u.at = "none" => u = NoTurn) /\ Of(u.lists) \subseteq Of(t.lists)
      /\ \A l \in u.lists : l \in t.lists
  BY <1>2, NothingListed
<1>4. Of(t.lists) \subseteq dl \cup go
  BY DEF Sound
<1>5. \A d \in dl \ go : d \in seen \cup Of(t.lists) \/ d \in Of(u.lists) \/ UnreadIn(B, d)
  BY DEF Sound
<1>6. \A l \in u.lists : l.of \in go \/ l.of \in seen \cup Of(t.lists) \/ Holds(B, l)
  BY <1>3 DEF Sound
<1> QED BY <1>1, <1>3, <1>4, <1>5, <1>6 DEF Sound

(* A turn that failed.                                                      *)
LEMMA BooksUnread ==
  ASSUME NEW B, NEW t, NEW dl, NEW go, NEW seen, Sound(B, t, dl, go, seen),
         NEW C, C = IF t.output THEN B ELSE unmarkRead(B, t.lists)
  PROVE  Sound(C, NoTurn, dl, go, seen)
<1>1. Manifest(B)
  BY DEF Sound
<1>2. CASE t.output
  <2>1. Of(t.lists) \subseteq seen
    BY <1>2 DEF Sound
  <2>2. \A d \in dl \ go : d \in seen \/ d \in Of(NoTurn.lists) \/ UnreadIn(B, d)
    BY <2>1 DEF Sound
  <2>3. C = B
    BY <1>2
  <2> QED BY <2>2, <2>3, NothingListed DEF Sound
<1>3. CASE ~ t.output
  <2>1. C = unmarkRead(B, t.lists)
    BY <1>3
  <2>2. /\ Manifest(C) /\ Len(C) = Len(B) /\ \A i \in 1..Len(B) : C[i].of = B[i].of
        /\ \A d : UnreadIn(B, d) => UnreadIn(C, d)
        /\ \A l \in t.lists : Holds(B, l) => UnreadIn(C, l.of)
    BY <1>1, <2>1, UnmarkedRead
  <2>3. ASSUME NEW d \in dl \ go PROVE d \in seen \/ UnreadIn(C, d)
    <3>1. CASE d \in Of(t.lists)
      <4>1. PICK l \in t.lists : l.of = d
        BY <3>1, ListedOf
      <4>2. l.of \in go \/ l.of \in seen \/ Holds(B, l)
        BY DEF Sound
      <4> QED BY <2>2, <4>1, <4>2
    <3>2. CASE d \notin Of(t.lists)
      BY <2>2, <3>2 DEF Sound
    <3> QED BY <3>1, <3>2
  <2>4. \A i \in 1..Len(C) : C[i].of \in dl \cup go
    BY <2>2 DEF Sound
  <2> QED BY <2>2, <2>3, <2>4, NothingListed DEF Sound
<1> QED BY <1>2, <1>3

(* A queued turn is launched, or lost.                                      *)
LEMMA BooksLaunched ==
  ASSUME NEW B, NEW t, NEW dl, NEW go, NEW seen, Sound(B, t, dl, go, seen)
  PROVE  Sound(B, [t EXCEPT !.at = "running"], dl, go, seen)
<1>1. PICK u : u = [t EXCEPT !.at = "running"]
  OBVIOUS
<1>2. u \in Turns /\ u.lists = t.lists /\ u.output = t.output /\ u.at = "running"
  BY <1>1 DEF Sound, Turns
<1>3. Sound(B, u, dl, go, seen)
  BY <1>2 DEF Sound
<1> QED BY <1>1, <1>3

(* A turn that is lost.                                                    *)
LEMMA BooksLost ==
  ASSUME NEW B, NEW t, NEW dl, NEW go, NEW seen, Sound(B, t, dl, go, seen)
  PROVE  Sound(B, NoTurn, dl, go \cup (Of(t.lists) \ seen), seen)
<1>1. Of(t.lists) \subseteq Delivery
  BY ListedOf DEF Sound, Turns
<1>2. \A d \in dl \ (go \cup (Of(t.lists) \ seen)) : d \in seen \/ d \in Of(NoTurn.lists) \/ UnreadIn(B, d)
  BY DEF Sound
<1> QED BY <1>1, <1>2, NothingListed DEF Sound

-----------------------------------------------------------------------------
(* What a handler does to the inbox.                                        *)

(* cmdDeliver adds a delivery that nobody has heard of.                    *)
LEMMA OpenDelivery ==
  ASSUME NEW in, NEW t, NEW dl, NEW go, NEW seen, Sound(in, t, dl, go, seen),
         NEW d \in Delivery, d \notin dl, d \notin go, \A i \in 1..Len(in) : in[i].of # d,
         NEW h, h = [kind |-> "deliver", before |-> in, of |-> {d}, lists |-> {}]
  PROVE  Open(h, deliver(in, d), t, dl, go, seen)
<1>1. /\ h.kind = "deliver" /\ h.before = in /\ h.of = {d} /\ h.lists = {}
  OBVIOUS
<1>2. Manifest(in) /\ d \notin seen
  BY DEF Sound
<1>3. /\ Manifest(deliver(in, d)) /\ UnreadIn(deliver(in, d), d)
      /\ \A x : UnreadIn(in, x) => UnreadIn(deliver(in, d), x)
      /\ \A l : Holds(in, l) => Holds(deliver(in, d), l)
      /\ \A i \in 1..Len(deliver(in, d)) :
           deliver(in, d)[i].of = d \/ \E j \in 1..Len(in) : in[j].of = deliver(in, d)[i].of
  BY <1>2, Delivered
<1>4. PICK v : v = deliver(in, d)
  OBVIOUS
<1>5. \A x : x \in h.of \/ UnreadIn(h.before, x) => UnreadIn(v, x)
  BY <1>1, <1>3, <1>4
<1>6. \A i \in 1..Len(v) : v[i].of \in h.of \/ \E j \in 1..Len(h.before) : h.before[j].of = v[i].of
  BY <1>1, <1>3, <1>4
<1>7. Manifest(v) /\ \A l : Holds(h.before, l) => Holds(v, l)
  BY <1>1, <1>3, <1>4
<1>8. Open(h, v, t, dl, go, seen)
  BY <1>1, <1>2, <1>5, <1>6, <1>7 DEF Open
<1> QED BY <1>4, <1>8

(* An activation lists and marks all that is unread in `now'.               *)
LEMMA OpenActivation ==
  ASSUME NEW in, NEW dl, NEW go, NEW seen, Sound(in, NoTurn, dl, go, seen),
         NEW now, Manifest(now), NEW ds \in SUBSET Delivery,
         \A d \in ds : d \notin dl /\ d \notin go /\ UnreadIn(now, d),
         \A x : UnreadIn(in, x) => UnreadIn(now, x),
         \A l : Holds(in, l) => Holds(now, l),
         \A i \in 1..Len(now) : now[i].of \in ds \/ \E j \in 1..Len(in) : in[j].of = now[i].of,
         NEW kind \in {"activate", "fire"},
         NEW h, h = [kind |-> kind, before |-> in, of |-> ds, lists |-> Unread(now)]
  PROVE  Open(h, markRead(now), NoTurn, dl, go, seen)
<1>1. h.kind = kind /\ h.before = in /\ h.of = ds /\ h.lists = Unread(now)
  OBVIOUS
<1>2. now \in Seq(Entries)
  BY DEF Manifest
<1>3. /\ \A d : UnreadIn(now, d) => d \in Of(h.lists)
      /\ \A l \in h.lists : Holds(now, l) /\ l \in [seq : Nat, of : Delivery]
  BY <1>1, <1>2, UnreadIs
<1>4. h.lists \subseteq Listing
  BY <1>3 DEF Listing
<1>5. PICK v : v = markRead(now)
  OBVIOUS
<1>6. /\ Manifest(v) /\ \A l : Holds(now, l) <=> Holds(v, l)
      /\ Len(v) = Len(now) /\ \A i \in 1..Len(now) : v[i].of = now[i].of
  BY <1>5, MarkedRead
<1>7. \A d \in h.of : d \notin dl /\ d \notin go /\ d \notin seen
  BY <1>1 DEF Sound
<1>8. \A l : Holds(h.before, l) => Holds(v, l)
  BY <1>1, <1>6
<1>9. \A l \in h.lists : Holds(v, l)
  BY <1>3, <1>6
<1>10. \A i \in 1..Len(v) : v[i].of \in h.of \/ \E j \in 1..Len(h.before) : h.before[j].of = v[i].of
  BY <1>1, <1>6
<1>11. \A d : d \in h.of \/ UnreadIn(h.before, d) => d \in Of(h.lists)
  BY <1>1, <1>3
<1>12. h.kind \in {"deliver", "activate", "fire"} /\ h.kind # "deliver" /\ h.of \subseteq Delivery
  BY <1>1
<1>13. Open(h, v, NoTurn, dl, go, seen)
  BY <1>4, <1>6, <1>7, <1>8, <1>9, <1>10, <1>11, <1>12 DEF Open
<1> QED BY <1>5, <1>13

-----------------------------------------------------------------------------
(* Every action keeps the books balanced.                                   *)

(* The delivery that comes next is new, and is the only one.               *)
LEMMA NewDelivery ==
  ASSUME Balanced, handling = NoHandler, NEW d \in Upcoming
  PROVE  /\ d \in Delivery /\ d \notin delivered /\ d \notin gone
         /\ \A i \in 1..Len(inbox) : inbox[i].of # d
         /\ \A x \in Upcoming : x = d
<1>1. inbox \in Seq(Entries)
  BY DEF Balanced, Base, Sound, Manifest
<1>2. ToSet(inbox) = {inbox[i] : i \in 1..Len(inbox)}
  BY <1>1, ToSetIs
<1>3. d \in Delivery /\ d \notin Tried
  BY DEF Upcoming
<1>4. ASSUME NEW i \in 1..Len(inbox) PROVE inbox[i].of # d
  <2>1. inbox[i] \in ToSet(inbox)
    BY <1>2
  <2>2. inbox[i].of \in Tried
    BY <2>1 DEF Tried
  <2> QED BY <1>3, <2>2
<1>5. ASSUME NEW x \in Upcoming PROVE x = d
  <2>1. x <= d /\ d <= x
    BY DEF Upcoming
  <2>2. x \in Nat /\ d \in Nat
    <3>1. MaxDelivery \in Nat
      BY ChannelAssumption
    <3> QED BY <3>1 DEF Upcoming, Delivery
  <2> QED BY <2>1, <2>2
<1> QED BY <1>3, <1>4, <1>5 DEF Tried

(* Outside commands, the books are those of the inbox.                      *)
LEMMA AtRest ==
  ASSUME Balanced, handling = NoHandler
  PROVE  Sound(inbox, turn, delivered, gone, seenOf)
BY DEF Balanced, Base

(* A step that leaves no command open.                                     *)
LEMMA NextSound ==
  ASSUME handling' = NoHandler, Sound(inbox', turn', delivered', gone', seenOf'),
         sweep' \in Seq(0 .. 1), jolts' \in 0 .. MaxJolt
  PROVE  Balanced'
BY DEF Balanced, Base

(* A step that opens a command.                                            *)
LEMMA NextOpen ==
  ASSUME handling' # NoHandler, Sound(handling'.before, turn', delivered', gone', seenOf'),
         Open(handling', inbox', turn', delivered', gone', seenOf'),
         sweep' \in Seq(0 .. 1), jolts' \in 0 .. MaxJolt
  PROVE  Balanced'
BY DEF Balanced, Base

(* The bound on what may fail.                                             *)
LEMMA Jolted ==
  ASSUME Balanced, Jolt
  PROVE  jolts' \in 0 .. MaxJolt
<1>1. MaxJolt \in Nat
  BY ChannelAssumption
<1> QED BY <1>1 DEF Balanced, Jolt

(* The effects staged and what was used of the bound.                      *)
LEMMA Bounds == Balanced => sweep \in Seq(0 .. 1) /\ jolts \in 0 .. MaxJolt
BY DEF Balanced

(* The books balance at the start.                                         *)
LEMMA BalancedInit == ChannelInit => Balanced
<1> SUFFICES ASSUME ChannelInit PROVE Balanced
  OBVIOUS
<1>1. /\ inbox = <<>> /\ delivered = {} /\ turn = NoTurn /\ handling = NoHandler
      /\ sweep = <<>> /\ seenOf = {} /\ gone = {} /\ jolts = 0
  BY DEF ChannelInit
<1>2. Manifest(<<>>) /\ Len(<<>>) = 0
  BY DEF Manifest, OneEach, Ascending
<1>3. Sound(<<>>, NoTurn, {}, {}, {})
  BY <1>2, NothingListed DEF Sound
<1>4. MaxJolt \in Nat
  BY ChannelAssumption
<1>5. sweep \in Seq(0 .. 1) /\ jolts \in 0 .. MaxJolt
  BY <1>1, <1>4
<1>6. Base = <<>>
  BY <1>1 DEF Base
<1> QED BY <1>1, <1>3, <1>5, <1>6 DEF Balanced

(* A delivery.                                                             *)
LEMMA BalancedDeliver == Balanced /\ cmdDeliver => Balanced'
<1> SUFFICES ASSUME Balanced, cmdDeliver PROVE Balanced'
  OBVIOUS
<1>1. handling = NoHandler /\ UNCHANGED <<delivered, turn, sweep, seenOf, gone, jolts>>
  BY DEF cmdDeliver
<1>2. PICK d \in Upcoming :
        /\ inbox' = deliver(inbox, d)
        /\ handling' = [kind |-> "deliver", before |-> inbox, of |-> {d}, lists |-> {}]
  BY DEF cmdDeliver
<1>3. Sound(inbox, turn, delivered, gone, seenOf)
  BY <1>1, AtRest
<1>4. d \in Delivery /\ d \notin delivered /\ d \notin gone /\ \A i \in 1..Len(inbox) : inbox[i].of # d
  BY <1>1, NewDelivery
<1>5. Open(handling', inbox', turn, delivered, gone, seenOf)
  BY <1>2, <1>3, <1>4, OpenDelivery
<1>6. handling'.before = inbox /\ handling'.kind = "deliver"
  BY <1>2
<1>7. handling' # NoHandler
  BY <1>6 DEF NoHandler
<1>8. sweep' \in Seq(0 .. 1) /\ jolts' \in 0 .. MaxJolt
  BY <1>1, Bounds
<1>9. Sound(handling'.before, turn', delivered', gone', seenOf') /\ Open(handling', inbox', turn', delivered', gone', seenOf')
  BY <1>1, <1>3, <1>5, <1>6
<1> QED BY <1>7, <1>8, <1>9, NextOpen

(* Without a turn nothing is listed.                                       *)
LEMMA IdleTurn ==
  ASSUME Balanced, turn.at = "none"
  PROVE  turn = NoTurn
BY DEF Balanced, Sound

(* An activation.                                                          *)
LEMMA BalancedActivation == Balanced /\ runActivation => Balanced'
<1> SUFFICES ASSUME Balanced, runActivation PROVE Balanced'
  OBVIOUS
<1>1. /\ handling = NoHandler /\ turn.at = "none" /\ UNCHANGED <<delivered, turn, sweep, seenOf, gone, jolts>>
      /\ inbox' = markRead(inbox)
      /\ handling' = [kind |-> "activate", before |-> inbox, of |-> {}, lists |-> Unread(inbox)]
  BY DEF runActivation
<1>2. turn = NoTurn
  BY <1>1, IdleTurn
<1>3. Sound(inbox, NoTurn, delivered, gone, seenOf)
  BY <1>1, <1>2, AtRest
<1>4. Manifest(inbox)
  BY <1>3 DEF Sound
<1>5. {} \in SUBSET Delivery
  OBVIOUS
<1>6. Open(handling', inbox', NoTurn, delivered, gone, seenOf)
  BY <1>1, <1>3, <1>4, <1>5, OpenActivation
<1>7. handling'.before = inbox /\ handling'.kind = "activate"
  BY <1>1
<1>8. handling' # NoHandler
  BY <1>7 DEF NoHandler
<1>9. sweep' \in Seq(0 .. 1) /\ jolts' \in 0 .. MaxJolt
  BY <1>1, Bounds
<1>10. Sound(handling'.before, turn', delivered', gone', seenOf') /\ Open(handling', inbox', turn', delivered', gone', seenOf')
  BY <1>1, <1>2, <1>3, <1>6, <1>7
<1> QED BY <1>8, <1>9, <1>10, NextOpen

(* An approved slot, which may deliver before it activates.                *)
LEMMA BalancedFire == Balanced /\ executeApprovedSlot => Balanced'
<1> SUFFICES ASSUME Balanced, executeApprovedSlot PROVE Balanced'
  OBVIOUS
<1>1. handling = NoHandler /\ turn.at = "none" /\ UNCHANGED <<delivered, turn, sweep, seenOf, gone, jolts>>
  BY DEF executeApprovedSlot
<1>2. PICK ds \in SUBSET Upcoming :
        LET now == IF ds = {} THEN inbox ELSE deliver(inbox, CHOOSE d \in ds : TRUE) IN
          /\ inbox' = markRead(now)
          /\ handling' = [kind |-> "fire", before |-> inbox, of |-> ds, lists |-> Unread(now)]
  BY Zenon DEF executeApprovedSlot
<1>3. PICK now : now = IF ds = {} THEN inbox ELSE deliver(inbox, CHOOSE d \in ds : TRUE)
  OBVIOUS
<1>4. /\ inbox' = markRead(now)
      /\ handling' = [kind |-> "fire", before |-> inbox, of |-> ds, lists |-> Unread(now)]
  BY <1>2, <1>3
<1>5. turn = NoTurn
  BY <1>1, IdleTurn
<1>6. Sound(inbox, NoTurn, delivered, gone, seenOf)
  BY <1>1, <1>5, AtRest
<1>7. Manifest(inbox)
  BY <1>6 DEF Sound
<1>8. /\ Manifest(now) /\ ds \in SUBSET Delivery
      /\ \A d \in ds : d \notin delivered /\ d \notin gone /\ UnreadIn(now, d)
      /\ \A x : UnreadIn(inbox, x) => UnreadIn(now, x)
      /\ \A l : Holds(inbox, l) => Holds(now, l)
      /\ \A i \in 1..Len(now) : now[i].of \in ds \/ \E j \in 1..Len(inbox) : inbox[j].of = now[i].of
  <2>1. CASE ds = {}
    <3>1. now = inbox
      BY <1>3, <2>1
    <3> QED BY <1>7, <2>1, <3>1
  <2>2. CASE ds # {}
    <3>1. PICK d : d = CHOOSE x \in ds : TRUE
      OBVIOUS
    <3>2. d \in ds /\ d \in Upcoming
      BY <2>2, <3>1
    <3>3. now = deliver(inbox, d)
      BY <1>3, <2>2, <3>1
    <3>4. /\ d \in Delivery /\ d \notin delivered /\ d \notin gone
          /\ \A i \in 1..Len(inbox) : inbox[i].of # d
          /\ \A x \in Upcoming : x = d
      BY <1>1, <3>2, NewDelivery
    <3>5. ds = {d}
      BY <3>2, <3>4
    <3>6. /\ Manifest(now) /\ UnreadIn(now, d)
          /\ \A x : UnreadIn(inbox, x) => UnreadIn(now, x)
          /\ \A l : Holds(inbox, l) => Holds(now, l)
          /\ \A i \in 1..Len(now) : now[i].of = d \/ \E j \in 1..Len(inbox) : inbox[j].of = now[i].of
      BY <1>7, <3>3, <3>4, Delivered
    <3> QED BY <3>4, <3>5, <3>6
  <2> QED BY <2>1, <2>2
<1>9. Open(handling', inbox', NoTurn, delivered, gone, seenOf)
  BY <1>4, <1>6, <1>8, OpenActivation
<1>10. handling'.before = inbox /\ handling'.kind = "fire"
  BY <1>4
<1>11. handling' # NoHandler
  BY <1>10 DEF NoHandler
<1>12. sweep' \in Seq(0 .. 1) /\ jolts' \in 0 .. MaxJolt
  BY <1>1, Bounds
<1>13. Sound(handling'.before, turn', delivered', gone', seenOf') /\ Open(handling', inbox', turn', delivered', gone', seenOf')
  BY <1>1, <1>5, <1>6, <1>9, <1>10
<1> QED BY <1>11, <1>12, <1>13, NextOpen

(* A command that commits.                                                 *)
LEMMA BalancedKept == ASSUME Balanced, NEW at \in {"queued", "running"}, CommandKept(at) PROVE Balanced'
<1>1. /\ handling # NoHandler /\ handling' = NoHandler /\ delivered' = delivered \cup handling.of
      /\ turn' = IF handling.kind = "deliver" THEN turn ELSE [at |-> at, lists |-> handling.lists, output |-> FALSE]
      /\ UNCHANGED <<inbox, sweep, seenOf, gone, jolts>>
  BY DEF CommandKept
<1>2. Sound(handling.before, turn, delivered, gone, seenOf) /\ Open(handling, inbox, turn, delivered, gone, seenOf)
  BY <1>1 DEF Balanced, Base
<1>3. Sound(inbox, turn', delivered \cup handling.of, gone, seenOf)
  BY <1>1, <1>2, BooksKept
<1>4. Sound(inbox', turn', delivered', gone', seenOf')
  BY <1>1, <1>3
<1>5. sweep' \in Seq(0 .. 1) /\ jolts' \in 0 .. MaxJolt
  BY <1>1, Bounds
<1> QED BY <1>1, <1>4, <1>5, NextSound

(* A command that fails.                                                   *)
LEMMA BalancedFails == Balanced /\ CommandFails => Balanced'
<1> SUFFICES ASSUME Balanced, CommandFails PROVE Balanced'
  OBVIOUS
<1>1. /\ handling # NoHandler /\ handling' = NoHandler /\ inbox' = handling.before /\ Jolt
      /\ UNCHANGED <<delivered, turn, sweep, seenOf, gone>>
  BY DEF CommandFails
<1>2. Sound(handling.before, turn, delivered, gone, seenOf)
  BY <1>1 DEF Balanced, Base
<1>3. Sound(inbox', turn', delivered', gone', seenOf')
  BY <1>1, <1>2
<1>4. sweep' \in Seq(0 .. 1) /\ jolts' \in 0 .. MaxJolt
  BY <1>1, Bounds, Jolted
<1> QED BY <1>1, <1>3, <1>4, NextSound

(* A restart, in a command or between two.                                 *)
LEMMA BalancedRestart == Balanced /\ RestartWithInbox => Balanced'
<1> SUFFICES ASSUME Balanced, RestartWithInbox PROVE Balanced'
  OBVIOUS
<1> DEFINE recovers == automaticallyJournaledWorkflow(handling.kind)
<1>1. recovers <=> handling.kind \in {"activate", "fire"}
  BY DEF automaticallyJournaledWorkflow
<1> HIDE DEF recovers
<1>2. PICK unlogged : unlogged = IF recovers THEN {} ELSE handling.of
  OBVIOUS
<1>3. PICK unseen : unseen = IF turn.at = "running" THEN Of(turn.lists) ELSE {}
  OBVIOUS
<1>4. /\ Jolt /\ handling' = NoHandler /\ UNCHANGED <<delivered, sweep, seenOf>>
      /\ inbox' = IF recovers THEN handling.before ELSE inbox
      /\ turn' = IF turn.at = "running" THEN NoTurn ELSE turn
      /\ gone' = gone \cup ((unlogged \cup unseen) \ seenOf)
  BY <1>2, <1>3 DEF RestartWithInbox, recovers
<1>5. Sound(Base, turn, delivered, gone, seenOf)
  BY DEF Balanced
<1>6. handling # NoHandler /\ ~ recovers => handling.kind = "deliver"
  <2>1. handling # NoHandler => handling.kind \in {"deliver", "activate", "fire"}
    BY DEF Balanced, Open
  <2> QED BY <1>1, <2>1
<1>7. \/ Base = inbox' /\ unlogged = {}
      \/ handling # NoHandler /\ ~ recovers
  <2>1. CASE handling = NoHandler
    <3>1. ~ recovers /\ handling.of = {}
      BY <1>1, <2>1 DEF NoHandler
    <3> QED BY <1>2, <1>4, <2>1, <3>1 DEF Base
  <2>2. CASE handling # NoHandler /\ recovers
    BY <1>2, <1>4, <2>2 DEF Base
  <2> QED BY <2>1, <2>2
<1>8. Sound(inbox', turn', delivered', gone', seenOf')
  <2>1. CASE Base = inbox' /\ unlogged = {}
    <3>1. gone' = gone \cup (unseen \ seenOf)
      BY <1>4, <2>1
    <3>2. Sound(Base, turn', delivered, gone', seenOf)
      BY <1>3, <1>4, <1>5, <3>1, BooksRestart
    <3> QED BY <1>4, <2>1, <3>2
  <2>2. CASE handling # NoHandler /\ ~ recovers
    <3>1. Sound(handling.before, turn, delivered, gone, seenOf) /\ Open(handling, inbox, turn, delivered, gone, seenOf)
      BY <2>2 DEF Balanced, Base
    <3>2. unlogged = handling.of /\ inbox' = inbox /\ handling.kind = "deliver"
      BY <1>2, <1>4, <1>6, <2>2
    <3>3. gone' = gone \cup ((handling.of \cup (IF turn.at = "running" THEN Of(turn.lists) ELSE {})) \ seenOf)
      BY <1>3, <1>4, <3>2
    <3>4. Sound(inbox, turn', delivered, gone', seenOf)
      BY <1>4, <3>1, <3>2, <3>3, BooksLeft
    <3> QED BY <1>4, <3>2, <3>4
  <2> QED BY <1>7, <2>1, <2>2
<1>9. sweep' \in Seq(0 .. 1) /\ jolts' \in 0 .. MaxJolt
  BY <1>4, Bounds, Jolted
<1> QED BY <1>4, <1>8, <1>9, NextSound

(* A cleanup that runs.                                                    *)
LEMMA BalancedCleanup == Balanced /\ CleanupRuns => Balanced'
<1> SUFFICES ASSUME Balanced, CleanupRuns PROVE Balanced'
  OBVIOUS
<1>1. PICK kept : kept = {e.of : e \in ToSet(inbox')}
  OBVIOUS
<1>2. /\ handling = NoHandler /\ sweep # <<>> /\ inbox' = cleanup(inbox, Head(sweep)) /\ sweep' = Tail(sweep)
      /\ UNCHANGED <<delivered, turn, handling, seenOf, jolts>>
      /\ gone' = gone \cup (Of({l \in turn.lists : l.of \notin kept}) \ seenOf)
  BY <1>1 DEF CleanupRuns, Forgets
<1>3. Sound(inbox, turn, delivered, gone, seenOf)
  BY <1>2, AtRest
<1>4. Sound(inbox', turn, delivered, gone', seenOf)
  BY <1>1, <1>2, <1>3, BooksCleaned
<1>5. sweep \in Seq(0 .. 1) /\ jolts \in 0 .. MaxJolt
  BY Bounds
<1>6. sweep' \in Seq(0 .. 1) /\ jolts' \in 0 .. MaxJolt
  BY <1>2, <1>5
<1>7. Sound(inbox', turn', delivered', gone', seenOf')
  BY <1>2, <1>4
<1> QED BY <1>2, <1>6, <1>7, NextSound

(* A cleanup that is staged.                                               *)
LEMMA BalancedSweep == ASSUME Balanced, NEW keep \in 0 .. 1, cmdCleanupChannels(keep) PROVE Balanced'
<1>1. /\ handling = NoHandler /\ Jolt /\ sweep' = Append(sweep, keep)
      /\ UNCHANGED <<inbox, delivered, turn, handling, seenOf, gone>>
  BY DEF cmdCleanupChannels
<1>2. sweep' \in Seq(0 .. 1)
  <2>1. sweep \in Seq(0 .. 1)
    BY Bounds
  <2> QED BY <1>1, <2>1
<1>3. Sound(inbox', turn', delivered', gone', seenOf')
  BY <1>1, AtRest
<1>4. jolts' \in 0 .. MaxJolt
  BY <1>1, Jolted
<1> QED BY <1>1, <1>2, <1>3, <1>4, NextSound

(* A turn whose agent has read its message.                                *)
LEMMA BalancedSeen == Balanced /\ (ProducesOutput \/ TurnCompletes) => Balanced'
<1> SUFFICES ASSUME Balanced, ProducesOutput \/ TurnCompletes PROVE Balanced'
  OBVIOUS
<1>1. /\ handling = NoHandler /\ turn.at = "running" /\ seenOf' = seenOf \cup Of(turn.lists)
      /\ UNCHANGED <<inbox, delivered, handling, sweep, gone, jolts>>
      /\ turn' = NoTurn \/ turn' = [turn EXCEPT !.output = TRUE]
  BY DEF ProducesOutput, TurnCompletes
<1>2. Sound(inbox, turn, delivered, gone, seenOf)
  BY <1>1, AtRest
<1>3. Sound(inbox, turn', delivered, gone, seenOf \cup Of(turn.lists))
  BY <1>1, <1>2, BooksSeen
<1>4. Sound(inbox', turn', delivered', gone', seenOf')
  BY <1>1, <1>3
<1>5. sweep' \in Seq(0 .. 1) /\ jolts' \in 0 .. MaxJolt
  BY <1>1, Bounds
<1> QED BY <1>1, <1>4, <1>5, NextSound

(* A turn that fails.                                                      *)
LEMMA BalancedFailed == Balanced /\ failSession => Balanced'
<1> SUFFICES ASSUME Balanced, failSession PROVE Balanced'
  OBVIOUS
<1>1. /\ handling = NoHandler /\ Jolt /\ turn' = NoTurn
      /\ inbox' = IF turn.output THEN inbox ELSE unmarkRead(inbox, turn.lists)
      /\ UNCHANGED <<delivered, handling, sweep, seenOf, gone>>
  BY DEF failSession
<1>2. Sound(inbox, turn, delivered, gone, seenOf)
  BY <1>1, AtRest
<1>3. Sound(inbox', NoTurn, delivered, gone, seenOf)
  BY <1>1, <1>2, BooksUnread
<1>4. Sound(inbox', turn', delivered', gone', seenOf')
  BY <1>1, <1>3
<1>5. sweep' \in Seq(0 .. 1) /\ jolts' \in 0 .. MaxJolt
  BY <1>1, Bounds, Jolted
<1> QED BY <1>1, <1>4, <1>5, NextSound

(* A queued turn that starts.                                              *)
LEMMA BalancedLaunched == Balanced /\ QueuedTurnLaunched => Balanced'
<1> SUFFICES ASSUME Balanced, QueuedTurnLaunched PROVE Balanced'
  OBVIOUS
<1>1. /\ handling = NoHandler /\ turn' = [turn EXCEPT !.at = "running"]
      /\ UNCHANGED <<inbox, delivered, handling, sweep, seenOf, gone, jolts>>
  BY DEF QueuedTurnLaunched
<1>2. Sound(inbox, turn, delivered, gone, seenOf)
  BY <1>1, AtRest
<1>3. Sound(inbox, turn', delivered, gone, seenOf)
  BY <1>1, <1>2, BooksLaunched
<1>4. Sound(inbox', turn', delivered', gone', seenOf')
  BY <1>1, <1>3
<1>5. sweep' \in Seq(0 .. 1) /\ jolts' \in 0 .. MaxJolt
  BY <1>1, Bounds
<1> QED BY <1>1, <1>4, <1>5, NextSound

(* A queued turn that never does.                                          *)
LEMMA BalancedLost == Balanced /\ QueuedTurnLost => Balanced'
<1> SUFFICES ASSUME Balanced, QueuedTurnLost PROVE Balanced'
  OBVIOUS
<1>1. /\ handling = NoHandler /\ Jolt /\ turn' = NoTurn /\ gone' = gone \cup (Of(turn.lists) \ seenOf)
      /\ UNCHANGED <<inbox, delivered, handling, sweep, seenOf>>
  BY DEF QueuedTurnLost, Forgets
<1>2. Sound(inbox, turn, delivered, gone, seenOf)
  BY <1>1, AtRest
<1>3. Sound(inbox, NoTurn, delivered, gone', seenOf)
  BY <1>1, <1>2, BooksLost
<1>4. Sound(inbox', turn', delivered', gone', seenOf')
  BY <1>1, <1>3
<1>5. sweep' \in Seq(0 .. 1) /\ jolts' \in 0 .. MaxJolt
  BY <1>1, Bounds, Jolted
<1> QED BY <1>1, <1>4, <1>5, NextSound

(* Every step keeps the books balanced.                                    *)
LEMMA BalancedNext == Balanced /\ [ChannelNext]_channelVars => Balanced'
<1> SUFFICES ASSUME Balanced, [ChannelNext]_channelVars PROVE Balanced'
  OBVIOUS
<1>1. CASE UNCHANGED channelVars
  <2>1. UNCHANGED <<inbox, delivered, turn, handling, sweep, seenOf, gone, jolts>>
    BY <1>1 DEF channelVars
  <2>2. Base' = Base
    BY <2>1 DEF Base
  <2> QED BY <2>1, <2>2 DEF Balanced
<1>2. CASE ChannelNext
  <2>1. CASE cmdDeliver
    BY <2>1, BalancedDeliver
  <2>2. CASE runActivation
    BY <2>2, BalancedActivation
  <2>3. CASE executeApprovedSlot
    BY <2>3, BalancedFire
  <2>4. CASE \E keep \in 0 .. 1 : cmdCleanupChannels(keep)
    BY <2>4, BalancedSweep
  <2>5. CASE \E at \in {"queued", "running"} : CommandKept(at)
    BY <2>5, BalancedKept
  <2>6. CASE CommandFails
    BY <2>6, BalancedFails
  <2>7. CASE CleanupRuns
    BY <2>7, BalancedCleanup
  <2>8. CASE ProducesOutput \/ TurnCompletes
    BY <2>8, BalancedSeen
  <2>9. CASE failSession
    BY <2>9, BalancedFailed
  <2>10. CASE QueuedTurnLaunched
    BY <2>10, BalancedLaunched
  <2>11. CASE QueuedTurnLost
    BY <2>11, BalancedLost
  <2>12. CASE RestartWithInbox
    BY <2>12, BalancedRestart
  <2> QED BY <1>2, <2>1, <2>2, <2>3, <2>4, <2>5, <2>6, <2>7, <2>8, <2>9, <2>10, <2>11, <2>12 DEF ChannelNext
<1> QED BY <1>1, <1>2

(* Balanced books are typed.                                               *)
LEMMA BalancedTyped == Balanced => ChannelTypeOK
<1> SUFFICES ASSUME Balanced PROVE ChannelTypeOK
  OBVIOUS
<1>1. Sound(Base, turn, delivered, gone, seenOf) /\ sweep \in Seq(0 .. 1) /\ jolts \in 0 .. MaxJolt
  BY DEF Balanced
<1>2. /\ delivered \subseteq Delivery /\ turn \in Turns /\ seenOf \subseteq Delivery /\ gone \subseteq Delivery
      /\ Manifest(Base)
  BY <1>1 DEF Sound
<1>3. Manifest(inbox) /\ handling.kind \in {"none", "deliver", "activate", "fire"}
  <2>1. CASE handling = NoHandler
    <3>1. handling.kind = "none"
      BY <2>1 DEF NoHandler
    <3> QED BY <1>2, <2>1, <3>1 DEF Base
  <2>2. CASE handling # NoHandler
    <3>1. Open(handling, inbox, turn, delivered, gone, seenOf)
      BY <2>2 DEF Balanced
    <3> QED BY <3>1 DEF Open
  <2> QED BY <2>1, <2>2
<1>4. inbox \in Seq([seq : Nat, of : Delivery, read : BOOLEAN])
  BY <1>3 DEF Manifest, Entries
<1>5. turn.at \in {"none", "queued", "running"} /\ turn.lists \subseteq Listing /\ turn.output \in BOOLEAN
  BY <1>2 DEF Turns
<1> QED BY <1>1, <1>2, <1>3, <1>4, <1>5 DEF ChannelTypeOK

(* And miss nothing.                                                       *)
LEMMA BalancedMisses == Balanced => NothingMissed
<1> SUFFICES ASSUME Balanced, handling = NoHandler
             PROVE  /\ \A d \in delivered \ gone :
                         \/ d \in seenOf \cup Of(turn.lists)
                         \/ \E e \in ToSet(inbox) : e.of = d /\ ~e.read
                    /\ \A e \in ToSet(inbox) : e.of \in delivered \cup gone
                    /\ \A i, j \in DOMAIN inbox : i < j => inbox[i].seq < inbox[j].seq
  BY DEF NothingMissed
<1>1. Sound(inbox, turn, delivered, gone, seenOf)
  BY AtRest
<1>2. Manifest(inbox)
  BY <1>1 DEF Sound
<1>3. DOMAIN inbox = 1..Len(inbox) /\ ToSet(inbox) = {inbox[i] : i \in 1..Len(inbox)}
  BY <1>2, EntriesOf, ToSetIs DEF Manifest
<1>4. ASSUME NEW d \in delivered \ gone
      PROVE  \/ d \in seenOf \cup Of(turn.lists)
             \/ \E e \in ToSet(inbox) : e.of = d /\ ~e.read
  <2>1. d \in seenOf \/ d \in Of(turn.lists) \/ UnreadIn(inbox, d)
    BY <1>1 DEF Sound
  <2>2. CASE UnreadIn(inbox, d)
    <3>1. PICK i \in 1..Len(inbox) : inbox[i].of = d /\ ~ inbox[i].read
      BY <2>2 DEF UnreadIn
    <3> QED BY <1>3, <3>1
  <2> QED BY <2>1, <2>2
<1>5. \A e \in ToSet(inbox) : e.of \in delivered \cup gone
  <2>1. \A i \in 1..Len(inbox) : inbox[i].of \in delivered \cup gone
    BY <1>1 DEF Sound
  <2> QED BY <1>3, <2>1
<1>6. \A i, j \in DOMAIN inbox : i < j => inbox[i].seq < inbox[j].seq
  BY <1>2, <1>3 DEF Manifest, Ascending
<1> QED BY <1>4, <1>5, <1>6

(* Between commands the inbox of a session and the log agree, and what the  *)
(* log says was delivered was shown to an agent, is unread or is listed by  *)
(* the turn under way, for any number of deliveries, failures, cleanups and *)
(* restarts (contextChannel.ts and its callers).                            *)
THEOREM ChannelMissesNothing == ChannelSpec => []ChannelTypeOK /\ []NothingMissed
<1>1. Balanced /\ [ChannelNext]_channelVars => Balanced'
  BY BalancedNext
<1> QED BY <1>1, BalancedInit, BalancedTyped, BalancedMisses, PTL DEF ChannelSpec
=============================================================================
