------------------------- MODULE RunAdmissionProofs -------------------------
(***************************************************************************)
(* Proof that turns, leases, budget and processes agree (TurnsAccounted),  *)
(* for any sessions, limits and budget, and all bounds.                    *)
(*                                                                         *)
(* The invariant is AdmissionInv.  Most steps only end things: CalmKeeps   *)
(* says what they have in common, once for all.  Steps that start a turn   *)
(* (StartKeeps), that wait for the socket (AwaitKeeps), that roll a        *)
(* command back (BackKeeps) and a restart (RestartKeeps) are the others.   *)
(* The types follow from the invariant (InvTypes).                         *)
(***************************************************************************)
EXTENDS RunAdmission, FiniteSetTheorems, WellFoundedInduction, TLAPS

(* Types.                                                                   *)
Turn == Nat \ {0}
Entry == [sess : Agent, turn : Turn]
RunBook == [status : [Agent -> Status], frozen : [Agent -> BOOLEAN], queue : Seq(Entry),
            leases : SUBSET [turn : Turn, sess : Agent], facts : SUBSET Turn,
            started : [Agent -> Nat]]
Launch == [sess : Agent, turn : Turn, by : {"drain", "command"},
           aborted : BOOLEAN, stale : BOOLEAN]
Process == [turn : Turn, sess : Agent, doomed : BOOLEAN]
RunCommand == [kind : {"activate", "kill", "freeze", "unfreeze", "complete"}, sess : Agent,
               turn : Nat, epoch : Nat]

Open == held # NoCmd
Books == {book, bookDisk} \cup IF Open THEN {held.saved} ELSE {}
Shaped ==
  /\ book \in RunBook /\ bookDisk \in RunBook
  /\ Open => held.saved \in RunBook
  /\ runOf \in [Agent -> Nat] /\ turnOf \in [Agent -> Nat]
  /\ processes \subseteq Process /\ launching \subseteq Launch
  /\ asked \in Seq(RunCommand) /\ epoch \in Nat /\ nturn \in Nat

(* A book by itself, with n turns so far, of which x crossed another.       *)
Queue(b) == ToSet(b.queue)
OneEntry(b) ==
  \A i, j \in DOMAIN b.queue :
    b.queue[i].sess = b.queue[j].sess \/ b.queue[i].turn = b.queue[j].turn => i = j
Numbered(b, n) == Counted(b) \subseteq 1..n
Cap(b, x) == MaxTurns # 0 => Cardinality(Counted(b) \ x) <= MaxTurns
WaitsOnce(b, x) ==
  \A q \in Queue(b) :
    /\ q.turn \in ActiveTurns(b) => q.turn \in x
    /\ \A s \in Agent : b.started[s] = q.turn => q.turn \in x
BookFine(b, n, x) == OneEntry(b) /\ Numbered(b, n) /\ Cap(b, x) /\ WaitsOnce(b, x)

(* A turn is of one session.                                                *)
InBook(b, t, s) == b.started[s] = t \/ \E q \in Queue(b) : q.turn = t /\ q.sess = s
Names(t, s) ==
  \/ turnOf[s] = t \/ runOf[s] = t
  \/ \E l \in launching : l.turn = t /\ l.sess = s
  \/ \E p \in processes : p.turn = t /\ p.sess = s
  \/ \E b \in Books : InBook(b, t, s)
Owned ==
  \A t \in Turn, s \in Agent :
    Names(t, s) => t <= nturn /\ \A r \in Agent : Names(t, r) => r = s

(* One launch is of the open command, and its turn is known nowhere else;   *)
(* at most one other is of the drain.                                       *)
Commanded(l) == l.by = "command"
Apart ==
  /\ \A l, m \in launching : l.by = m.by => l = m
  /\ \A l \in launching : Commanded(l) =>
       /\ Open /\ ~l.stale
       /\ \A s \in Agent : l.turn \notin {turnOf[s], runOf[s]}
       /\ \A p \in processes : p.turn # l.turn
       /\ \A m \in launching : m # l => m.turn # l.turn
       /\ \A b \in {book, held.saved} :
             /\ l.turn \notin QueuedTurns(b)
             /\ \A s \in Agent : b.started[s] # l.turn
       /\ l.turn \notin ActiveTurns(held.saved)

(* What shares its session with a launch has crossed it.                    *)
Meets ==
  \A l \in launching :
    /\ runOf[l.sess] # 0 => {runOf[l.sess], l.turn} \subseteq crossed
    /\ turnOf[l.sess] # 0 => {turnOf[l.sess], l.turn} \subseteq crossed
    /\ \A m \in launching : m.sess = l.sess /\ m # l => l.turn \in crossed
    /\ l.stale => l.turn \in crossed

(* A session that waits and is busy.                                        *)
Busy(s) == runOf[s] # 0 \/ turnOf[s] # 0 \/ \E l \in launching : l.sess = s
Doing(s, t) == t \in {runOf[s], turnOf[s]} \/ \E l \in launching : l.sess = s /\ l.turn = t
Waiting ==
  /\ \A q \in Queue(book) : Busy(q.sess) => q.turn \in crossed
  /\ Open => 
     /\ Queue(book) \subseteq Queue(held.saved)
     /\ \A q \in Queue(held.saved) :
          /\ Busy(q.sess) => q.turn \in crossed \/ Doing(q.sess, q.turn)
          /\ q.sess \in held.before => q.turn \in crossed

(* A process that was not told to stop is the run of its session.           *)
Lives ==
  \A p \in processes :
    \/ p.turn \in crossed
    \/ /\ p.turn \notin QueuedTurns(book)
       /\ \A l \in launching : l.turn # p.turn
       /\ Open /\ p.turn \in QueuedTurns(held.saved) => runOf[p.sess] = p.turn
       /\ \A r \in processes : r.turn = p.turn => r = p
       /\ ~p.doomed => runOf[p.sess] = p.turn

OneTurn == \A s \in Agent : turnOf[s] # 0 /\ runOf[s] # 0 => turnOf[s] = runOf[s]
Leasing ==
  /\ LeasesMatchTurns
  /\ \A l \in launching : l.turn \in ActiveTurns(book) \cup crossed

(* The last turn a session started counts, unless the session is gone.      *)
Gone(s) ==
  /\ book.status[s] = "killed"
  /\ \A l \in launching : l.sess # s
  /\ \A i \in DOMAIN asked : asked[i].kind = "complete" => asked[i].sess # s
LastCounts(b) ==
  \A s \in Agent : b.started[s] # 0 =>
    \/ b.started[s] \in Counted(b) \cup crossed
    \/ b.status[s] = "killed" /\ Gone(s)
Runs(b) ==
  \A s \in Agent : b.started[s] # 0 /\ b.started[s] = turnOf[s] =>
    turnOf[s] \in crossed \/ b.status[s] \in {"running", "killed"}
StartsOnce(b) ==
  \A s \in Agent :
    /\ \A l \in launching : l.turn = b.started[s] => l.turn \in crossed
    /\ b.started[s] \in QueuedTurns(book) => b.started[s] \in crossed
Remembers(b) == LastCounts(b) /\ Runs(b) /\ StartsOnce(b)
Remembered == Remembers(book) /\ (Open => Remembers(held.saved))

(* What a restart finds.                                                    *)
Recovers(b, x) ==
  \A s \in Agent : b.started[s] # 0 =>
    \/ b.started[s] \in b.facts \cup QueuedTurns(b) \cup x
    \/ b.status[s] = "killed"
    \/ b.status[s] = "running" /\ b.started[s] \in ActiveTurns(b)

BooksFine == \A b \in Books : BookFine(b, nturn, crossed)
DiskRecovers == Recovers(bookDisk, crossed)
AdmissionInv ==
  /\ Shaped /\ BooksFine
  /\ Owned /\ Apart /\ Meets /\ Waiting /\ Lives /\ OneTurn /\ Leasing /\ Remembered
  /\ DiskRecovers

-----------------------------------------------------------------------------
(* What is done to a book.                                                  *)
LEMMA StatusSet ==
    ASSUME NEW b \in RunBook, NEW s \in Agent, NEW st \in Status
    PROVE  [b EXCEPT !.status[s] = st] \in RunBook
BY DEF RunBook

(* A lease given back.                                                      *)
LEMMA ReleasedIs ==
    ASSUME NEW b \in RunBook, NEW t
    PROVE  /\ Released(b, t) \in RunBook
           /\ Released(b, t).queue = b.queue /\ Released(b, t).facts = b.facts
           /\ Released(b, t).started = b.started /\ Released(b, t).status = b.status
           /\ ActiveTurns(Released(b, t)) = ActiveTurns(b) \ {t}
BY DEF Released, RunBook, ActiveTurns

(* A turn that counts.                                                      *)
LEMMA UsedIs ==
    ASSUME NEW b \in RunBook, NEW t \in Nat
    PROVE  /\ Used(b, t) \in RunBook
           /\ Used(b, t).facts = b.facts \cup ({t} \ {0})
           /\ Used(b, t).queue = b.queue /\ Used(b, t).leases = b.leases
           /\ Used(b, t).started = b.started /\ Used(b, t).status = b.status
BY DEF Used, RunBook, Turn

(* A lease taken.                                                           *)
LEMMA LeasedIs ==
    ASSUME NEW b \in RunBook, NEW s \in Agent, NEW t \in Turn
    PROVE  /\ Leased(b, s, t) \in RunBook
           /\ Leased(b, s, t).queue = b.queue /\ Leased(b, s, t).facts = b.facts
           /\ Leased(b, s, t).started = b.started /\ Leased(b, s, t).status = b.status
           /\ ActiveTurns(Leased(b, s, t)) = ActiveTurns(b) \cup {t}
<1>1. PICK c : c = Leased(b, s, t)
  OBVIOUS
<1>2. /\ c \in RunBook /\ c.leases = b.leases \cup {[turn |-> t, sess |-> s]}
      /\ c.queue = b.queue /\ c.facts = b.facts /\ c.started = b.started /\ c.status = b.status
  <2>1. [turn |-> t, sess |-> s] \in [turn : Turn, sess : Agent]
    OBVIOUS
  <2>2. PICK l : l = b.leases \cup {[turn |-> t, sess |-> s]}
    OBVIOUS
  <2>3. l \in SUBSET [turn : Turn, sess : Agent] /\ c = [b EXCEPT !.leases = l]
    BY <1>1, <2>1, <2>2 DEF Leased, RunBook
  <2> QED
    BY <2>2, <2>3 DEF RunBook
<1>3. ActiveTurns(c) = ActiveTurns(b) \cup {t}
  <2>1. \A x : x \in ActiveTurns(c) <=> \E l \in c.leases : x = l.turn
    BY DEF ActiveTurns
  <2>2. \A x : x \in ActiveTurns(b) <=> \E l \in b.leases : x = l.turn
    BY DEF ActiveTurns
  <2>3. PICK m : m = [turn |-> t, sess |-> s]
    OBVIOUS
  <2>4. m.turn = t /\ \A l : l \in c.leases <=> l \in b.leases \/ l = m
    BY <1>2, <2>3
  <2>5. \A x : x \in ActiveTurns(c) <=> x \in ActiveTurns(b) \cup {t}
    BY <2>1, <2>2, <2>4
  <2> QED
    BY <2>5
<1> QED
  BY <1>1, <1>2, <1>3

(* A turn that runs.                                                        *)
LEMMA RunningIs ==
    ASSUME NEW b \in RunBook, NEW s \in Agent, NEW t \in Turn
    PROVE  /\ Running(b, s, t) \in RunBook
           /\ Running(b, s, t).queue = b.queue /\ Running(b, s, t).leases = b.leases
           /\ Running(b, s, t).facts = b.facts
           /\ Running(b, s, t).started = [b.started EXCEPT ![s] = t]
           /\ Running(b, s, t).status = [b.status EXCEPT ![s] = "running"]
BY DEF Running, RunBook, Turn, Status

(* A session frozen for the budget.                                         *)
LEMMA FrozenIs ==
    ASSUME NEW b \in RunBook, NEW s \in Agent
    PROVE  /\ FrozenForBudget(b, s) \in RunBook
           /\ FrozenForBudget(b, s).queue = b.queue /\ FrozenForBudget(b, s).leases = b.leases
           /\ FrozenForBudget(b, s).facts = b.facts
           /\ FrozenForBudget(b, s).started = b.started
           /\ \A r \in Agent : FrozenForBudget(b, s).status[r] = b.status[r]
                             \/ b.status[r] = "pending"
BY DEF FrozenForBudget, RunBook, Status

(* The same queue holds the same turns.                                     *)
LEMMA SameParts ==
    ASSUME NEW b, NEW c, c.queue = b.queue
    PROVE  Queue(c) = Queue(b) /\ QueuedTurns(c) = QueuedTurns(b)
BY DEF Queue, QueuedTurns

(* The same leases are of the same turns.                                   *)
LEMMA SameLeases ==
    ASSUME NEW b, NEW c, c.leases = b.leases
    PROVE  ActiveTurns(c) = ActiveTurns(b)
BY DEF ActiveTurns

(* A turn of s is over: it counts, and its lease is given back.             *)
OverAs(b, s, st, t) == Released(Used([b EXCEPT !.status[s] = st], t), t)
LEMMA OverIs ==
    ASSUME NEW b \in RunBook, NEW s \in Agent, NEW st \in Status, NEW t \in Nat
    PROVE  /\ OverAs(b, s, st, t) \in RunBook
           /\ OverAs(b, s, st, t).queue = b.queue
           /\ OverAs(b, s, st, t).facts = b.facts \cup ({t} \ {0})
           /\ OverAs(b, s, st, t).started = b.started
           /\ OverAs(b, s, st, t).status = [b.status EXCEPT ![s] = st]
           /\ ActiveTurns(OverAs(b, s, st, t)) = ActiveTurns(b) \ {t}
<1>1. PICK a : a = [b EXCEPT !.status[s] = st]
  OBVIOUS
<1>2. a \in RunBook /\ a.queue = b.queue /\ a.facts = b.facts /\ a.started = b.started
      /\ a.status = [b.status EXCEPT ![s] = st] /\ a.leases = b.leases
  BY <1>1 DEF RunBook
<1>3. PICK u : u = Used(a, t)
  OBVIOUS
<1>4. u \in RunBook
  BY <1>2, <1>3, UsedIs
<1>5. u.queue = a.queue /\ u.facts = a.facts \cup ({t} \ {0}) /\ u.started = a.started
      /\ u.status = a.status /\ u.leases = a.leases
  BY <1>2, <1>3, UsedIs
<1>6. PICK r : r = Released(u, t)
  OBVIOUS
<1>7. r \in RunBook /\ r.queue = u.queue /\ r.facts = u.facts /\ r.started = u.started
      /\ r.status = u.status /\ ActiveTurns(r) = ActiveTurns(u) \ {t}
  BY <1>4, <1>6, ReleasedIs
<1>8. ActiveTurns(u) = ActiveTurns(b)
  BY <1>2, <1>5, SameLeases
<1>9. r = OverAs(b, s, st, t)
  BY <1>1, <1>3, <1>6 DEF OverAs
<1> QED
  BY <1>2, <1>5, <1>7, <1>8, <1>9

(* A launch that failed.                                                    *)
LEMMA LaunchFailedIs ==
    ASSUME NEW b \in RunBook, NEW s \in Agent, NEW t \in Turn, NEW counts \in BOOLEAN
    PROVE  /\ LaunchFailed(b, s, t, counts) \in RunBook
           /\ LaunchFailed(b, s, t, counts).queue = b.queue
           /\ LaunchFailed(b, s, t, counts).facts = b.facts \cup IF counts THEN {t} ELSE {}
           /\ LaunchFailed(b, s, t, counts).started = b.started
           /\ LaunchFailed(b, s, t, counts).status = [b.status EXCEPT ![s] = "failed"]
           /\ ActiveTurns(LaunchFailed(b, s, t, counts)) = ActiveTurns(b) \ {t}
<1>1. PICK u : u = IF counts THEN Used(b, t) ELSE b
  OBVIOUS
<1>2. u \in RunBook /\ u.queue = b.queue /\ u.facts = b.facts \cup (IF counts THEN {t} ELSE {})
      /\ u.started = b.started /\ u.status = b.status /\ u.leases = b.leases
  <2>1. CASE counts
    <3>1. u = Used(b, t) /\ {t} \ {0} = {t} /\ t \in Nat
      BY <1>1, <2>1 DEF Turn
    <3> QED
      BY <2>1, <3>1, UsedIs
  <2>2. CASE ~counts
    BY <1>1, <2>2
  <2> QED
    BY <2>1, <2>2
<1>3. PICK a : a = [u EXCEPT !.status[s] = "failed"]
  OBVIOUS
<1>4. a \in RunBook /\ a.queue = u.queue /\ a.facts = u.facts /\ a.started = u.started
      /\ a.status = [u.status EXCEPT ![s] = "failed"] /\ a.leases = u.leases
  BY <1>2, <1>3 DEF RunBook, Status
<1>5. PICK r : r = Released(a, t)
  OBVIOUS
<1>6. r \in RunBook /\ r.queue = a.queue /\ r.facts = a.facts /\ r.started = a.started
      /\ r.status = a.status /\ ActiveTurns(r) = ActiveTurns(a) \ {t}
  BY <1>4, <1>5, ReleasedIs
<1>7. ActiveTurns(a) = ActiveTurns(b)
  BY <1>2, <1>4, SameLeases
<1>8. r = LaunchFailed(b, s, t, counts)
  BY <1>1, <1>3, <1>5 DEF LaunchFailed
<1> QED
  BY <1>2, <1>4, <1>6, <1>7, <1>8

(* An entry leaves a queue that has one of each session and turn.           *)
LEMMA EntryTaken ==
    ASSUME NEW q \in Seq(Entry), NEW i \in DOMAIN q,
           \A j, k \in DOMAIN q : q[j].sess = q[k].sess \/ q[j].turn = q[k].turn => j = k
    PROVE  /\ RemoveAt(q, i) \in Seq(Entry)
           /\ ToSet(RemoveAt(q, i)) = ToSet(q) \ {q[i]}
           /\ \A e \in ToSet(RemoveAt(q, i)) : e.sess # q[i].sess /\ e.turn # q[i].turn
           /\ \A j, k \in DOMAIN RemoveAt(q, i) :
                 RemoveAt(q, i)[j].sess = RemoveAt(q, i)[k].sess
                 \/ RemoveAt(q, i)[j].turn = RemoveAt(q, i)[k].turn => j = k
<1>1. PICK r : r = RemoveAt(q, i)
  OBVIOUS
<1>2. /\ r \in Seq(Entry) /\ Len(r) = Len(q) - 1
      /\ \A j \in 1..Len(r) : r[j] = IF j < i THEN q[j] ELSE q[j + 1]
  <2>1. PICK a : a = SubSeq(q, 1, i - 1)
    OBVIOUS
  <2>2. PICK c : c = SubSeq(q, i + 1, Len(q))
    OBVIOUS
  <2>3. i \in 1..Len(q) /\ Len(q) \in Nat
    OBVIOUS
  <2>4. a \in Seq(Entry) /\ Len(a) = i - 1 /\ \A j \in 1..i - 1 : a[j] = q[j]
    BY <2>1, <2>3
  <2>5. c \in Seq(Entry) /\ Len(c) = Len(q) - i /\ \A j \in 1..Len(q) - i : c[j] = q[j + i]
    BY <2>2, <2>3
  <2>6. r = a \o c
    BY <1>1, <2>1, <2>2 DEF RemoveAt
  <2>7. r \in Seq(Entry) /\ Len(r) = Len(q) - 1
    BY <2>3, <2>4, <2>5, <2>6
  <2>8. \A j \in 1..Len(r) : r[j] = IF j <= Len(a) THEN a[j] ELSE c[j - Len(a)]
    BY <2>4, <2>5, <2>6
  <2>9. \A j \in 1..Len(r) : r[j] = IF j < i THEN q[j] ELSE q[j + 1]
    <3> TAKE j \in 1..Len(r)
    <3>1. CASE j < i
      BY <2>3, <2>4, <2>7, <2>8, <3>1
    <3>2. CASE ~(j < i)
      <4>1. r[j] = c[j - (i - 1)] /\ j - (i - 1) \in 1..Len(q) - i
        BY <2>3, <2>4, <2>7, <2>8, <3>2
      <4>2. (j - (i - 1)) + i = j + 1
        BY <2>3, <2>7
      <4> QED
        BY <2>5, <3>2, <4>1, <4>2
    <3> QED
      BY <3>1, <3>2
  <2> QED
    BY <2>7, <2>9
<1>3. \A j \in DOMAIN r : \E k \in DOMAIN q : k # i /\ r[j] = q[k]
  BY <1>2
<1>4. \A k \in DOMAIN q : k # i => \E j \in DOMAIN r : r[j] = q[k]
  <2> TAKE k \in DOMAIN q
  <2> HAVE k # i
  <2>1. CASE k < i
    <3>1. k \in DOMAIN r /\ r[k] = q[k]
      BY <1>2, <2>1
    <3> QED
      BY <3>1
  <2>2. CASE k > i
    <3>1. k - 1 \in DOMAIN r /\ r[k - 1] = q[k]
      BY <1>2, <2>2
    <3> QED
      BY <3>1
  <2> QED
    BY <2>1, <2>2
<1>5. ToSet(r) = ToSet(q) \ {q[i]}
  BY <1>3, <1>4 DEF ToSet
<1>6. \A e \in ToSet(r) : e.sess # q[i].sess /\ e.turn # q[i].turn
  BY <1>3 DEF ToSet
<1>7. \A j, k \in DOMAIN r : r[j].sess = r[k].sess \/ r[j].turn = r[k].turn => j = k
  <2> TAKE j, k \in DOMAIN r
  <2> HAVE r[j].sess = r[k].sess \/ r[j].turn = r[k].turn
  <2>1. PICK x : x = IF j < i THEN j ELSE j + 1
    OBVIOUS
  <2>2. PICK y : y = IF k < i THEN k ELSE k + 1
    OBVIOUS
  <2>3. x \in DOMAIN q /\ y \in DOMAIN q /\ r[j] = q[x] /\ r[k] = q[y]
    BY <1>2, <2>1, <2>2
  <2>4. x = y
    BY <2>3
  <2> QED
    BY <1>2, <2>1, <2>2, <2>4
<1> QED
  BY <1>1, <1>2, <1>5, <1>6, <1>7

(* What is numbered is finite.                                              *)
LEMMA CountedIn ==
    ASSUME NEW n \in Nat, NEW S, S \subseteq 1..n
    PROVE  IsFiniteSet(S) /\ Cardinality(S) \in Nat
<1>1. 1 \in Int /\ n \in Int
  OBVIOUS
<1>2. IsFiniteSet(1..n)
  BY <1>1, FS_Interval
<1>3. IsFiniteSet(S)
  BY <1>2, FS_Subset
<1> QED
  BY <1>3, FS_CardinalityType

(* A book that is fine stays so when it loses entries and leases.           *)
LEMMA FineShrinks ==
    ASSUME NEW b \in RunBook, NEW c \in RunBook, NEW n \in Nat, NEW m \in Nat, n <= m,
           NEW x, NEW y, x \subseteq y, BookFine(b, n, x),
           OneEntry(c), Queue(c) \subseteq Queue(b), ActiveTurns(c) \subseteq ActiveTurns(b),
           c.started = b.started, Numbered(c, m), Counted(c) \subseteq Counted(b) \cup y
    PROVE  BookFine(c, m, y)
<1>1. Cap(c, y)
  <2>1. Counted(c) \ y \subseteq Counted(b) \ x /\ Counted(b) \ x \subseteq 1..n
    BY DEF BookFine, Numbered
  <2>2. IsFiniteSet(Counted(b) \ x)
    BY <2>1, CountedIn
  <2>3. /\ Cardinality(Counted(c) \ y) <= Cardinality(Counted(b) \ x)
        /\ Cardinality(Counted(c) \ y) \in Nat /\ Cardinality(Counted(b) \ x) \in Nat
    BY <2>1, <2>2, FS_Subset, FS_CardinalityType
  <2>4. MaxTurns # 0 => Cardinality(Counted(b) \ x) <= MaxTurns
    BY DEF BookFine, Cap
  <2>5. MaxTurns \in Nat
    BY AdmissionAssumption
  <2> QED
    BY <2>3, <2>4, <2>5 DEF Cap
<1>2. WaitsOnce(c, y)
  BY DEF BookFine, WaitsOnce
<1> QED
  BY <1>1, <1>2 DEF BookFine

(* A book that is fine stays so when more turns have crossed.               *)
LEMMA FineStays ==
    ASSUME NEW b \in RunBook, NEW n \in Nat, NEW m \in Nat, n <= m,
           NEW x, NEW y, x \subseteq y, BookFine(b, n, x)
    PROVE  BookFine(b, m, y)
<1>1. Numbered(b, m)
  BY DEF BookFine, Numbered
<1> QED
  BY <1>1, FineShrinks DEF BookFine

(* There is room for one more turn.                                         *)
LEMMA Room ==
    ASSUME NEW b \in RunBook, NEW c \in RunBook, NEW n \in Nat, NEW t, NEW y,
           Numbered(b, n), ~BudgetExceeded(b, 0), Counted(c) \subseteq Counted(b) \cup {t}
    PROVE  Cap(c, y)
<1> SUFFICES ASSUME MaxTurns # 0 PROVE Cardinality(Counted(c) \ y) <= MaxTurns
  BY DEF Cap
<1>1. b.facts \cup ((ActiveTurns(b) \cup QueuedTurns(b)) \ {0}) = Counted(b)
  <2>1. 0 \notin ActiveTurns(b) \cup QueuedTurns(b)
    BY DEF Numbered, Counted
  <2> QED
    BY <2>1 DEF Counted
<1>2. /\ IsFiniteSet(Counted(b)) /\ Cardinality(Counted(b)) \in Nat
  BY CountedIn DEF Numbered
<1>3. ~(Cardinality(Counted(b)) >= MaxTurns)
  BY <1>1 DEF BudgetExceeded
<1>4. /\ IsFiniteSet(Counted(b) \cup {t}) /\ Cardinality(Counted(b) \cup {t}) \in Nat
      /\ Cardinality(Counted(b) \cup {t}) <= Cardinality(Counted(b)) + 1
  <2>1. PICK k : k = Cardinality(Counted(b))
    OBVIOUS
  <2>2. IsFiniteSet(Counted(b) \cup {t}) /\ Cardinality(Counted(b) \cup {t}) \in {k, k + 1}
    BY <1>2, <2>1, FS_AddElement
  <2> QED
    BY <1>2, <2>1, <2>2
<1>5. /\ Cardinality(Counted(c) \ y) <= Cardinality(Counted(b) \cup {t})
      /\ Cardinality(Counted(c) \ y) \in Nat
  BY <1>4, FS_Subset, FS_CardinalityType
<1>6. MaxTurns \in Nat
  BY AdmissionAssumption
<1> QED
  BY <1>2, <1>3, <1>4, <1>5, <1>6

(* Memory, row and checkpoint are fine if the one that changed is.          *)
LEMMA BooksStay ==
    ASSUME Shaped, BooksFine, nturn' \in Nat, nturn <= nturn', crossed \subseteq crossed',
           BookFine(book', nturn', crossed'), bookDisk' = bookDisk \/ bookDisk' = book',
           held' = held \/ held' = NoCmd \/ held'.saved = book
    PROVE  BooksFine'
<1>1. ASSUME NEW b \in Books PROVE b \in RunBook /\ BookFine(b, nturn', crossed')
  <2>1. b \in RunBook /\ nturn \in Nat
    BY <1>1 DEF Shaped, Books
  <2>2. BookFine(b, nturn, crossed)
    BY <1>1 DEF BooksFine
  <2> QED
    BY <2>1, <2>2, FineStays
<1>2. \A b \in Books' : b \in Books \/ b = book'
  BY DEF Books, Open
<1> QED
  BY <1>1, <1>2 DEF BooksFine

-----------------------------------------------------------------------------
(* Steps in which no turn is asked for, launched or rolled back.            *)
Fewer(g, f) == \A s \in Agent : g[s] \in {f[s], 0}
LaunchesStay ==
  /\ \A l \in launching' : \E m \in launching :
        m.sess = l.sess /\ m.turn = l.turn /\ m.by = l.by /\ m.stale = l.stale
  /\ \A l, m \in launching' : l.by = m.by => l = m
ProcessesStay ==
  /\ \A p \in processes' : \E q \in processes :
        q.turn = p.turn /\ q.sess = p.sess /\ (q.doomed => p.doomed)
  /\ \A p, r \in processes' : p.turn = r.turn /\ p # r =>
        \E q, u \in processes : q.turn = p.turn /\ u.turn = p.turn /\ q # u
RunsStay ==
  \A p \in processes' : runOf[p.sess] = p.turn => runOf'[p.sess] = p.turn \/ p.turn \in crossed'
BookStays ==
  /\ Queue(book') \subseteq Queue(book) /\ OneEntry(book') /\ book'.started = book.started
  /\ ActiveTurns(book') \subseteq ActiveTurns(book)
  /\ Numbered(book', nturn) /\ Counted(book') \subseteq Counted(book) \cup crossed'
  /\ bookDisk' = bookDisk \/ bookDisk' = book'
CalmStep ==
  /\ nturn' = nturn /\ held' = held /\ crossed \subseteq crossed'
  /\ Fewer(turnOf', turnOf) /\ Fewer(runOf', runOf)
  /\ LaunchesStay /\ ProcessesStay
  /\ RunsStay /\ BookStays
(* What ends with its turn, and what goes on.                               *)
Accounts ==
  /\ \A t \in ActiveTurns(book) \ ActiveTurns(book') :
        \/ t \in crossed'
        \/ (\A s \in Agent : turnOf'[s] # t) /\ \A l \in launching' : l.turn # t
  /\ \A t \in ActiveTurns(book') : InProgress(t) => InProgress(t)' \/ t \in crossed'
  /\ \A s \in Agent : book.started[s] \in Counted(book) =>
        book.started[s] \in Counted(book') \cup crossed'
  /\ \A s \in Agent : Gone(s) => Gone(s)'
  /\ \A s \in Agent : turnOf'[s] # 0 /\ book.status[s] \in {"running", "killed"} =>
        book'.status[s] \in {"running", "killed"}

(* What such a step keeps, part by part.                                    *)
LEMMA CalmBooks ==
    ASSUME Shaped, Shaped', BooksFine, CalmStep PROVE BooksFine'
<1>1. BookFine(book', nturn, crossed')
  <2>1. book \in RunBook /\ book' \in RunBook /\ nturn \in Nat
    BY DEF Shaped
  <2>2. BookFine(book, nturn, crossed)
    BY DEF BooksFine, Books
  <2>3. nturn <= nturn
    BY <2>1
  <2>4. crossed \subseteq crossed' /\ BookStays
    BY DEF CalmStep
  <2> QED
    BY <2>1, <2>2, <2>3, <2>4, FineShrinks DEF BookStays
<1> QED
  BY <1>1, BooksStay DEF CalmStep, BookStays, Shaped

(* A turn stays of its session if nothing new names it.                     *)
LEMMA OwnedKept ==
    ASSUME Owned, nturn \in Nat, nturn' \in Nat, nturn <= nturn',
           \A t \in Turn, s \in Agent : Names(t, s)' => Names(t, s)
    PROVE  Owned'
BY DEF Owned, Turn

(* A new turn is of the session that asked for it.                          *)
LEMMA OwnedNew ==
    ASSUME Owned, nturn \in Nat, nturn' = nturn + 1, NEW s \in Agent,
           \A t \in Turn, r \in Agent : Names(t, r)' => Names(t, r) \/ (t = nturn + 1 /\ r = s)
    PROVE  Owned'
BY DEF Owned, Turn

(* Every turn stays of one session.                                         *)
LEMMA CalmOwned ==
    ASSUME Shaped, Shaped', Owned, CalmStep PROVE Owned'
<1>1. ASSUME NEW t \in Turn, NEW s \in Agent, Names(t, s)' PROVE Names(t, s)
  <2>1. \A b \in Books' : b \in Books \/ b = book'
    BY DEF Books, Open, CalmStep, BookStays
  <2>2. InBook(book', t, s) => InBook(book, t, s)
    BY DEF InBook, CalmStep, BookStays
  <2>3. book \in Books
    BY DEF Books
  <2>4. (\E b \in Books' : InBook(b, t, s)) => \E b \in Books : InBook(b, t, s)
    BY <2>1, <2>2, <2>3
  <2>5. turnOf'[s] = t => turnOf[s] = t
    BY DEF CalmStep, Fewer, Turn
  <2>6. runOf'[s] = t => runOf[s] = t
    BY DEF CalmStep, Fewer, Turn
  <2>7. (\E l \in launching' : l.turn = t /\ l.sess = s) => \E l \in launching : l.turn = t /\ l.sess = s
    BY DEF CalmStep, LaunchesStay
  <2>8. (\E l \in processes' : l.turn = t /\ l.sess = s) => \E l \in processes : l.turn = t /\ l.sess = s
    BY DEF CalmStep, ProcessesStay
  <2> QED
    BY <1>1, <2>4, <2>5, <2>6, <2>7, <2>8 DEF Names
<1>2. nturn' = nturn /\ nturn \in Nat
  BY DEF CalmStep, Shaped
<1> QED
  BY <1>1, <1>2, OwnedKept

(* The open command keeps its launch.                                       *)
LEMMA CalmApart ==
    ASSUME Shaped, Apart, CalmStep PROVE Apart'
<1>1. QueuedTurns(book') \subseteq QueuedTurns(book) /\ book'.started = book.started /\ held' = held
  BY DEF CalmStep, BookStays, QueuedTurns, Queue
<1>2. ASSUME NEW l \in launching', Commanded(l)
      PROVE  /\ Open' /\ ~l.stale
             /\ \A s \in Agent : l.turn \notin {turnOf'[s], runOf'[s]}
             /\ \A p \in processes' : p.turn # l.turn
             /\ \A m \in launching' : m # l => m.turn # l.turn
             /\ \A b \in {book', held'.saved} :
                   /\ l.turn \notin QueuedTurns(b)
                   /\ \A s \in Agent : b.started[s] # l.turn
             /\ l.turn \notin ActiveTurns(held'.saved)
  <2>1. PICK k \in launching : k.sess = l.sess /\ k.turn = l.turn /\ k.by = l.by /\ k.stale = l.stale
    BY DEF CalmStep, LaunchesStay
  <2>2. Commanded(k) /\ k.turn # 0
    BY <1>2, <2>1 DEF Commanded, Shaped, Launch, Turn
  <2>3. Open' /\ ~l.stale
    BY <1>1, <2>1, <2>2 DEF Apart, Open
  <2>4. \A s \in Agent : l.turn \notin {turnOf'[s], runOf'[s]}
    BY <2>1, <2>2 DEF Apart, CalmStep, Fewer
  <2>5. \A p \in processes' : p.turn # l.turn
    BY <2>1, <2>2 DEF Apart, CalmStep, ProcessesStay
  <2>6. ASSUME NEW m \in launching', m # l PROVE m.turn # l.turn
    <3>1. PICK j \in launching : j.sess = m.sess /\ j.turn = m.turn /\ j.by = m.by
      BY DEF CalmStep, LaunchesStay
    <3>2. m.by # l.by
      BY <2>6 DEF CalmStep, LaunchesStay
    <3> QED
      BY <2>1, <2>2, <3>1, <3>2 DEF Apart
  <2>7. \A b \in {book', held'.saved} :
           /\ l.turn \notin QueuedTurns(b)
           /\ \A s \in Agent : b.started[s] # l.turn
    BY <1>1, <2>1, <2>2 DEF Apart
  <2>8. l.turn \notin ActiveTurns(held'.saved)
    BY <1>1, <2>1, <2>2 DEF Apart
  <2> QED
    BY <2>3, <2>4, <2>5, <2>6, <2>7, <2>8
<1>3. \A l, m \in launching' : l.by = m.by => l = m
  BY DEF CalmStep, LaunchesStay
<1> QED
  BY <1>2, <1>3 DEF Apart

(* A launch meets nothing new.                                              *)
LEMMA CalmMeets ==
    ASSUME Shaped, Meets, CalmStep PROVE Meets'
<1> SUFFICES ASSUME NEW l \in launching'
             PROVE  /\ runOf'[l.sess] # 0 => {runOf'[l.sess], l.turn} \subseteq crossed'
                    /\ turnOf'[l.sess] # 0 => {turnOf'[l.sess], l.turn} \subseteq crossed'
                    /\ \A m \in launching' : m.sess = l.sess /\ m # l => l.turn \in crossed'
                    /\ l.stale => l.turn \in crossed'
  BY DEF Meets
<1>1. PICK k \in launching : k.sess = l.sess /\ k.turn = l.turn /\ k.by = l.by /\ k.stale = l.stale
  BY DEF CalmStep, LaunchesStay
<1>2. runOf'[l.sess] \in {runOf[l.sess], 0} /\ turnOf'[l.sess] \in {turnOf[l.sess], 0}
  BY <1>1 DEF CalmStep, Fewer, Shaped, Launch
<1>3. ASSUME NEW m \in launching', m.sess = l.sess, m # l PROVE l.turn \in crossed'
  <2>1. PICK j \in launching : j.sess = m.sess /\ j.turn = m.turn /\ j.by = m.by
    BY DEF CalmStep, LaunchesStay
  <2>2. m.by # l.by
    BY <1>3 DEF CalmStep, LaunchesStay
  <2> QED
    BY <1>1, <1>3, <2>1, <2>2 DEF Meets, CalmStep
<1> QED
  BY <1>1, <1>2, <1>3 DEF Meets, CalmStep

(* A turn in progress stays so, ends, or crossed.                           *)
LEMMA StillDoing ==
    ASSUME Meets, OneTurn, Fewer(turnOf', turnOf), Fewer(runOf', runOf), LaunchesStay,
           NEW s \in Agent, NEW t \in Turn, Busy(s)', Doing(s, t)
    PROVE  Doing(s, t)' \/ t \in crossed
<1> SUFFICES ASSUME t \notin crossed PROVE Doing(s, t)'
  OBVIOUS
<1>0. /\ turnOf'[s] \in {turnOf[s], 0} /\ runOf'[s] \in {runOf[s], 0} /\ t # 0
  BY DEF Fewer, Turn
<1>1. CASE runOf[s] = t
  <2>1. \A l \in launching : l.sess # s
    BY <1>0, <1>1 DEF Meets
  <2>2. \A l \in launching' : l.sess # s
    BY <2>1 DEF LaunchesStay
  <2>3. turnOf'[s] # 0 => turnOf'[s] = t
    BY <1>0, <1>1 DEF OneTurn
  <2> QED
    BY <1>0, <1>1, <2>2, <2>3 DEF Busy, Doing
<1>2. CASE turnOf[s] = t
  <2>1. \A l \in launching : l.sess # s
    BY <1>0, <1>2 DEF Meets
  <2>2. \A l \in launching' : l.sess # s
    BY <2>1 DEF LaunchesStay
  <2>3. runOf'[s] # 0 => runOf'[s] = t
    BY <1>0, <1>2 DEF OneTurn
  <2> QED
    BY <1>0, <1>2, <2>2, <2>3 DEF Busy, Doing
<1>3. ASSUME NEW l \in launching, l.sess = s, l.turn = t PROVE Doing(s, t)'
  <2>1. runOf'[s] = 0 /\ turnOf'[s] = 0
    BY <1>0, <1>3 DEF Meets
  <2>2. PICK m \in launching' : m.sess = s
    BY <2>1 DEF Busy
  <2>3. PICK k \in launching : k.sess = m.sess /\ k.turn = m.turn
    BY DEF LaunchesStay
  <2>4. k = l
    BY <1>3, <2>2, <2>3 DEF Meets
  <2> QED
    BY <1>3, <2>2, <2>3, <2>4 DEF Doing
<1> QED
  BY <1>1, <1>2, <1>3 DEF Doing

(* A session that is busy was busy.                                         *)
LEMMA StillBusy ==
    ASSUME Fewer(turnOf', turnOf), Fewer(runOf', runOf), LaunchesStay,
           NEW s \in Agent, Busy(s)'
    PROVE  Busy(s)
BY DEF Busy, Fewer, LaunchesStay

(* An entry of a queue has a session and a turn.                            *)
LEMMA EntryIn ==
    ASSUME NEW b \in RunBook, NEW q \in Queue(b)
    PROVE  q \in Entry /\ q.sess \in Agent /\ q.turn \in Turn
<1>1. b.queue \in Seq(Entry)
  BY DEF RunBook
<1>2. q \in Entry
  BY <1>1 DEF Queue, ToSet
<1> QED
  BY <1>2 DEF Entry

(* Who waits is not busy.                                                   *)
LEMMA CalmWaiting ==
    ASSUME Shaped, Meets, OneTurn, Waiting, CalmStep PROVE Waiting'
<1>0. /\ Fewer(turnOf', turnOf) /\ Fewer(runOf', runOf) /\ LaunchesStay /\ held' = held
      /\ crossed \subseteq crossed' /\ Queue(book') \subseteq Queue(book) /\ (Open' <=> Open)
  BY DEF CalmStep, BookStays, Open
<1>1. ASSUME NEW q \in Queue(book'), Busy(q.sess)' PROVE q.turn \in crossed'
  <2>1. q \in Queue(book) /\ q.sess \in Agent
    BY <1>0, <1>1, EntryIn DEF Shaped
  <2> QED
    BY <1>0, <1>1, <2>1, StillBusy DEF Waiting
<1>2. ASSUME Open PROVE Queue(book') \subseteq Queue(held'.saved)
  BY <1>0, <1>2 DEF Waiting
<1>3. ASSUME Open, NEW q \in Queue(held'.saved), Busy(q.sess)'
      PROVE  q.turn \in crossed' \/ Doing(q.sess, q.turn)'
  <2>1. q \in Queue(held.saved) /\ q.sess \in Agent /\ q.turn \in Turn
    BY <1>0, <1>3, EntryIn DEF Shaped
  <2>2. q.turn \in crossed \/ Doing(q.sess, q.turn)
    BY <1>0, <1>3, <2>1, StillBusy DEF Waiting
  <2> QED
    BY <1>0, <1>3, <2>1, <2>2, StillDoing
<1>4. ASSUME Open, NEW q \in Queue(held'.saved), q.sess \in held'.before PROVE q.turn \in crossed'
  BY <1>0, <1>4 DEF Waiting
<1> QED
  BY <1>0, <1>1, <1>2, <1>3, <1>4 DEF Waiting

(* A queued turn is one of an entry.                                        *)
LEMMA QueuedIs ==
    ASSUME NEW b, NEW t PROVE t \in QueuedTurns(b) <=> \E q \in Queue(b) : q.turn = t
BY DEF QueuedTurns, Queue

(* A process that was not told to stop stays the run of its session.        *)
LEMMA CalmLives ==
    ASSUME Shaped, Lives, CalmStep PROVE Lives'
<1> SUFFICES ASSUME NEW p \in processes', p.turn \notin crossed'
             PROVE  /\ p.turn \notin QueuedTurns(book')
                    /\ \A l \in launching' : l.turn # p.turn
                    /\ Open' /\ p.turn \in QueuedTurns(held'.saved) => runOf'[p.sess] = p.turn
                    /\ \A r \in processes' : r.turn = p.turn => r = p
                    /\ ~p.doomed => runOf'[p.sess] = p.turn
  BY DEF Lives
<1>1. PICK k \in processes : k.turn = p.turn /\ k.sess = p.sess /\ (k.doomed => p.doomed)
  BY DEF CalmStep, ProcessesStay
<1>2. /\ k.turn \notin QueuedTurns(book)
      /\ \A l \in launching : l.turn # k.turn
      /\ Open /\ k.turn \in QueuedTurns(held.saved) => runOf[k.sess] = k.turn
      /\ \A r \in processes : r.turn = k.turn => r = k
      /\ ~k.doomed => runOf[k.sess] = k.turn
  BY <1>1 DEF Lives, CalmStep
<1>3. p.turn \notin QueuedTurns(book')
  BY <1>1, <1>2, QueuedIs DEF CalmStep, BookStays
<1>4. \A l \in launching' : l.turn # p.turn
  BY <1>1, <1>2 DEF CalmStep, LaunchesStay
<1>5. runOf[p.sess] = p.turn => runOf'[p.sess] = p.turn
  BY DEF CalmStep, RunsStay
<1>6. \A r \in processes' : r.turn = p.turn => r = p
  BY <1>1, <1>2 DEF CalmStep, ProcessesStay
<1>7. held' = held /\ (Open' <=> Open)
  BY DEF CalmStep, Open
<1> QED
  BY <1>1, <1>2, <1>3, <1>4, <1>5, <1>6, <1>7

(* Run and context stay of one turn.                                        *)
LEMMA CalmOneTurn == ASSUME OneTurn, CalmStep PROVE OneTurn'
BY DEF OneTurn, CalmStep, Fewer

(* Leases and turns still match.                                            *)
LEMMA CalmLeasing ==
    ASSUME Leasing, CalmStep, Accounts PROVE Leasing'
<1>1. ASSUME NEW s \in Agent, turnOf'[s] # 0
      PROVE  turnOf'[s] \in ActiveTurns(book') \cup crossed'
  <2>1. turnOf'[s] = turnOf[s]
    BY <1>1 DEF CalmStep, Fewer
  <2>2. turnOf[s] \in ActiveTurns(book) \cup crossed
    BY <1>1, <2>1 DEF Leasing, LeasesMatchTurns
  <2> QED
    BY <2>1, <2>2 DEF Accounts, CalmStep
<1>2. ASSUME NEW t \in ActiveTurns(book') PROVE InProgress(t)' \/ t \in crossed'
  <2>1. t \in ActiveTurns(book)
    BY <1>2 DEF CalmStep, BookStays
  <2>2. InProgress(t) \/ t \in crossed
    BY <2>1 DEF Leasing, LeasesMatchTurns
  <2> QED
    BY <1>2, <2>2 DEF Accounts, CalmStep
<1>3. ASSUME NEW l \in launching' PROVE l.turn \in ActiveTurns(book') \cup crossed'
  <2>1. PICK k \in launching : k.turn = l.turn
    BY DEF CalmStep, LaunchesStay
  <2>2. l.turn \in ActiveTurns(book) \cup crossed
    BY <2>1 DEF Leasing
  <2> QED
    BY <1>3, <2>2 DEF Accounts, CalmStep
<1> QED
  BY <1>1, <1>2, <1>3 DEF Leasing, LeasesMatchTurns

(* The last turns are still accounted for.                                  *)
LEMMA CalmRemembered ==
    ASSUME Shaped, Remembered, CalmStep, Accounts PROVE Remembered'
<1>0. /\ held' = held /\ (Open' <=> Open) /\ crossed \subseteq crossed'
      /\ book'.started = book.started
      /\ \A t : t \in QueuedTurns(book') => t \in QueuedTurns(book)
  BY QueuedIs DEF CalmStep, BookStays, Open
<1>1. \A s \in Agent : Gone(s) => Gone(s)' /\ book'.status[s] = "killed"
  BY DEF Accounts, Gone
<1>2. LastCounts(book)'
  <2> SUFFICES ASSUME NEW s \in Agent, book'.started[s] # 0
               PROVE  \/ book'.started[s] \in Counted(book') \cup crossed'
                      \/ book'.status[s] = "killed" /\ Gone(s)'
    BY DEF LastCounts
  <2>1. \/ book.started[s] \in Counted(book) \cup crossed
        \/ book.status[s] = "killed" /\ Gone(s)
    BY <1>0 DEF Remembered, Remembers, LastCounts
  <2> QED
    BY <1>0, <1>1, <2>1 DEF Accounts
<1>3. Runs(book)'
  <2> SUFFICES ASSUME NEW s \in Agent, book'.started[s] # 0, book'.started[s] = turnOf'[s]
               PROVE  turnOf'[s] \in crossed' \/ book'.status[s] \in {"running", "killed"}
    BY DEF Runs
  <2>1. turnOf'[s] = turnOf[s]
    BY DEF CalmStep, Fewer
  <2>2. turnOf[s] \in crossed \/ book.status[s] \in {"running", "killed"}
    BY <1>0, <2>1 DEF Remembered, Remembers, Runs
  <2> QED
    BY <1>0, <2>1, <2>2 DEF Accounts
<1>4. ASSUME NEW b, b = book \/ (Open /\ b = held.saved),
             NEW s \in Agent
      PROVE  /\ \A l \in launching' : l.turn = b.started[s] => l.turn \in crossed'
             /\ b.started[s] \in QueuedTurns(book') => b.started[s] \in crossed'
  <2>1. StartsOnce(b)
    BY <1>4 DEF Remembered, Remembers
  <2> QED
    BY <1>0, <2>1 DEF StartsOnce, CalmStep, LaunchesStay
<1>5. StartsOnce(book)'
  BY <1>0, <1>4 DEF StartsOnce
<1>6. ASSUME Open PROVE Remembers(held.saved)'
  <2>1. PICK b : b = held.saved
    OBVIOUS
  <2>2. Remembers(b)
    BY <1>6, <2>1 DEF Remembered
  <2>3. \A s \in Agent : b.started[s] # 0 =>
          \/ b.started[s] \in Counted(b) \cup crossed'
          \/ b.status[s] = "killed" /\ Gone(s)'
    BY <1>0, <1>1, <2>2 DEF Remembers, LastCounts
  <2>4. \A s \in Agent : b.started[s] # 0 /\ b.started[s] = turnOf'[s] =>
          turnOf'[s] \in crossed' \/ b.status[s] \in {"running", "killed"}
    BY <1>0, <2>2 DEF Remembers, Runs, CalmStep, Fewer
  <2>5. held'.saved = b
    BY <1>0, <2>1
  <2> QED
    BY <1>4, <1>6, <2>1, <2>3, <2>4, <2>5 DEF Remembers, LastCounts, Runs, StartsOnce
<1> QED
  BY <1>0, <1>2, <1>3, <1>5, <1>6 DEF Remembered, Remembers

(* What is written to the row is enough for a restart.                      *)
LEMMA RowRecovers ==
    ASSUME Shaped', Owned', Leasing', Remembered', DiskRecovers, crossed \subseteq crossed',
           bookDisk' = bookDisk \/ bookDisk' = book'
    PROVE  DiskRecovers'
<1>1. CASE bookDisk' = bookDisk
  BY <1>1 DEF DiskRecovers, Recovers
<1>2. CASE bookDisk' = book'
  <2> SUFFICES ASSUME NEW s \in Agent, book'.started[s] # 0,
                      book'.started[s] \notin book'.facts \cup QueuedTurns(book') \cup crossed',
                      book'.status[s] # "killed"
               PROVE  book'.status[s] = "running" /\ book'.started[s] \in ActiveTurns(book')
    BY <1>2 DEF DiskRecovers, Recovers
  <2>1. PICK t : t = book'.started[s]
    OBVIOUS
  <2>2. t \in ActiveTurns(book')
    BY <2>1 DEF Remembered, Remembers, LastCounts, Counted
  <2>3. InProgress(t)'
    BY <2>1, <2>2 DEF Leasing, LeasesMatchTurns
  <2>4. \A l \in launching' : l.turn # t
    BY <2>1 DEF Remembered, Remembers, StartsOnce
  <2>5. PICK r \in Agent : turnOf'[r] = t
    BY <2>3, <2>4 DEF InProgress
  <2>6. t \in Turn /\ Names(t, r)' /\ Names(t, s)'
    <3>1. book' \in RunBook
      BY DEF Shaped
    <3>2. t \in Turn
      BY <2>1, <3>1 DEF RunBook, Turn
    <3>3. Names(t, r)'
      BY <2>5 DEF Names
    <3>4. InBook(book', t, s) /\ book' \in Books'
      BY <2>1 DEF InBook, Books
    <3>5. Names(t, s)'
      BY <3>4 DEF Names
    <3> QED
      BY <3>2, <3>3, <3>5
  <2>7. r = s
    BY <2>6 DEF Owned
  <2>8. t \in crossed' \/ book'.status[s] \in {"running", "killed"}
    BY <2>1, <2>5, <2>7 DEF Remembered, Remembers, Runs
  <2> QED
    BY <2>1, <2>2, <2>8
<1> QED
  BY <1>1, <1>2

(* Such a step keeps the invariant.                                         *)
LEMMA CalmKeeps ==
    ASSUME AdmissionInv, Shaped', CalmStep, Accounts PROVE AdmissionInv'
<1>1. /\ BooksFine' /\ Owned' /\ Apart' /\ Meets' /\ Waiting' /\ Lives' /\ OneTurn'
      /\ Leasing' /\ Remembered'
  BY CalmBooks, CalmOwned, CalmApart, CalmMeets, CalmWaiting, CalmLives, CalmOneTurn,
     CalmLeasing, CalmRemembered DEF AdmissionInv
<1>2. DiskRecovers'
  BY <1>1, RowRecovers DEF AdmissionInv, CalmStep, BookStays
<1> QED
  BY <1>1, <1>2 DEF AdmissionInv

(* The invariant says more than the property.                               *)
LEMMA InvHolds == AdmissionInv => TurnsAccounted
<1> SUFFICES ASSUME AdmissionInv PROVE TurnsAccounted
  OBVIOUS
<1>1. BudgetHeld
  BY DEF AdmissionInv, BooksFine, Books, BookFine, Cap, BudgetHeld
<1>2. LeasesMatchTurns
  BY DEF AdmissionInv, Leasing
<1>3. OneProcess
  BY DEF AdmissionInv, Lives, OneProcess
<1> QED
  BY <1>1, <1>2, <1>3 DEF TurnsAccounted

-----------------------------------------------------------------------------
(* The chain of the executor.                                               *)
AskedStay ==
  \A i \in DOMAIN asked' : asked'[i].kind = "complete" =>
    \/ \E j \in DOMAIN asked : asked[j].kind = "complete" /\ asked[j].sess = asked'[i].sess
    \/ book.status[asked'[i].sess] # "killed"

(* The head of the chain, when a command starts.                            *)
LEMMA Began ==
    ASSUME Shaped, NEW kind, Starting(kind)
    PROVE  /\ held = NoCmd /\ Head(asked) \in RunCommand /\ Head(asked).sess \in Agent
           /\ Head(asked).kind = kind /\ Head(asked).turn \in Nat
           /\ \E i \in DOMAIN asked : asked[i] = Head(asked)
           /\ asked' = Tail(asked) => asked' \in Seq(RunCommand) /\ AskedStay
           /\ asked' = asked => asked' \in Seq(RunCommand) /\ AskedStay
<1>1. asked \in Seq(RunCommand) /\ asked # <<>> /\ held = NoCmd /\ Head(asked).kind = kind
  BY DEF Shaped, Starting
<1>2. /\ Len(asked) \in Nat \ {0} /\ Head(asked) = asked[1] /\ asked[1] \in RunCommand
      /\ 1 \in DOMAIN asked
  BY <1>1
<1>3. /\ Tail(asked) \in Seq(RunCommand) /\ Len(Tail(asked)) = Len(asked) - 1
      /\ \A i \in 1..Len(asked) - 1 : Tail(asked)[i] = asked[i + 1]
  BY <1>1
<1>4. \A i \in DOMAIN Tail(asked) : \E j \in DOMAIN asked : Tail(asked)[i] = asked[j]
  BY <1>2, <1>3
<1>5. Head(asked).sess \in Agent /\ Head(asked).turn \in Nat
  BY <1>2 DEF RunCommand
<1> QED
  BY <1>1, <1>2, <1>3, <1>4, <1>5 DEF AskedStay

(* The chain grows by one command.                                          *)
LEMMA Appended ==
    ASSUME Shaped, NEW c \in RunCommand, asked' = Append(asked, c)
    PROVE  /\ asked' \in Seq(RunCommand)
           /\ \A i \in DOMAIN asked' : asked'[i] = c \/ \E j \in DOMAIN asked : asked'[i] = asked[j]
<1>1. asked \in Seq(RunCommand)
  BY DEF Shaped
<1>2. /\ asked' \in Seq(RunCommand) /\ Len(asked') = Len(asked) + 1
      /\ \A i \in 1..Len(asked) + 1 : asked'[i] = IF i <= Len(asked) THEN asked[i] ELSE c
  BY <1>1
<1>3. \A i \in DOMAIN asked' : asked'[i] = c \/ \E j \in DOMAIN asked : asked'[i] = asked[j]
  BY <1>1, <1>2
<1> QED
  BY <1>2, <1>3

(* A session that is gone stays gone.                                       *)
LEMMA GoneStays ==
    ASSUME LaunchesStay, AskedStay, NEW s \in Agent, Gone(s), book'.status[s] = "killed"
    PROVE  Gone(s)'
BY DEF LaunchesStay, AskedStay, Gone

(* Steps that leave turns, queue, leases and facts of the book as they are. *)
SameParts4(c, b) ==
  c.queue = b.queue /\ c.leases = b.leases /\ c.facts = b.facts /\ c.started = b.started

(* Such a book counts the same turns.                                       *)
LEMMA SameBook ==
    ASSUME NEW b, NEW c, SameParts4(c, b)
    PROVE  /\ Queue(c) = Queue(b) /\ QueuedTurns(c) = QueuedTurns(b)
           /\ ActiveTurns(c) = ActiveTurns(b) /\ Counted(c) = Counted(b)
           /\ c.started = b.started /\ (OneEntry(b) => OneEntry(c))
BY DEF SameParts4, Queue, QueuedTurns, ActiveTurns, Counted, OneEntry

(* A step that leaves them alone is calm.                                   *)
LEMMA StatusOnly ==
    ASSUME AdmissionInv, SameParts4(book', book), bookDisk' = bookDisk \/ bookDisk' = book',
           nturn' = nturn, held' = held, crossed \subseteq crossed',
           Fewer(runOf', runOf), RunsStay, Fewer(turnOf', turnOf),
           \A s \in Agent : turnOf'[s] = turnOf[s] \/ turnOf[s] \in crossed',
           LaunchesStay, \A l \in launching : \E m \in launching' : m.turn = l.turn,
           ProcessesStay, AskedStay,
           \A s \in Agent : book.status[s] = "killed" => book'.status[s] = "killed",
           \A s \in Agent : turnOf'[s] # 0 /\ book.status[s] = "running" =>
              book'.status[s] \in {"running", "killed"}
    PROVE  CalmStep /\ Accounts
<1>1. /\ Queue(book') = Queue(book) /\ ActiveTurns(book') = ActiveTurns(book)
      /\ Counted(book') = Counted(book) /\ book'.started = book.started
      /\ (OneEntry(book) => OneEntry(book'))
  BY SameBook
<1>2. OneEntry(book) /\ Numbered(book, nturn)
  BY DEF AdmissionInv, BooksFine, Books, BookFine
<1>3. BookStays
  BY <1>1, <1>2 DEF BookStays, Numbered
<1>5. CalmStep
  BY <1>3 DEF CalmStep
<1>6. ASSUME NEW t, InProgress(t) PROVE InProgress(t)' \/ t \in crossed'
  BY <1>6 DEF InProgress
<1>7. \A s \in Agent : Gone(s) => Gone(s)'
  BY GoneStays DEF Gone
<1>8. Accounts
  BY <1>1, <1>6, <1>7 DEF Accounts
<1> QED
  BY <1>5, <1>8

(* Nothing happens to what does not change.                                 *)
LEMMA Untouched ==
    ASSUME Shaped, Apart
    PROVE  /\ launching' = launching => LaunchesStay
           /\ processes' = processes => ProcessesStay
           /\ turnOf' = turnOf => Fewer(turnOf', turnOf)
           /\ runOf' = runOf => Fewer(runOf', runOf) /\ RunsStay
           /\ asked' = asked => AskedStay
           /\ asked' = <<>> => AskedStay
           /\ book' = book => SameParts4(book', book)
BY DEF LaunchesStay, ProcessesStay, Fewer, AskedStay, SameParts4, Apart, RunsStay

(* Types, when checkpoint and row are what they were or come from memory.   *)
LEMMA ShapedKept ==
    ASSUME Shaped, book' \in RunBook, bookDisk' = bookDisk \/ bookDisk' = book',
           held' = held \/ held' = NoCmd, runOf' \in [Agent -> Nat], turnOf' \in [Agent -> Nat],
           processes' \subseteq Process, launching' \subseteq Launch,
           asked' \in Seq(RunCommand), epoch' \in Nat, nturn' \in Nat
    PROVE  Shaped'
BY DEF Shaped, Open

(* Processes are told to stop.                                              *)
ToldToStop(R, P, D) == R = {IF p \in D THEN [p EXCEPT !.doomed = TRUE] ELSE p : p \in P}
LEMMA Doomed ==
    ASSUME NEW D, NEW P \in SUBSET Process, NEW R, ToldToStop(R, P, D)
    PROVE  /\ R \subseteq Process
           /\ \A p \in R : \E q \in P : q.turn = p.turn /\ q.sess = p.sess /\ (q.doomed => p.doomed)
           /\ \A p, r \in R : p.turn = r.turn /\ p # r =>
                \E q, u \in P : q.turn = p.turn /\ u.turn = p.turn /\ q # u
<1>1. ASSUME NEW r \in R
      PROVE  \E p \in P : r = IF p \in D THEN [p EXCEPT !.doomed = TRUE] ELSE p
  BY DEF ToldToStop
<1>2. ASSUME NEW p \in P, NEW r, r = IF p \in D THEN [p EXCEPT !.doomed = TRUE] ELSE p
      PROVE  r \in Process /\ p.turn = r.turn /\ p.sess = r.sess /\ (p.doomed => r.doomed)
  BY <1>2 DEF Process
<1>3. ASSUME NEW p \in R, NEW r \in R, p.turn = r.turn, p # r
      PROVE  \E q, u \in P : q.turn = p.turn /\ u.turn = p.turn /\ q # u
  <2>1. PICK q \in P : p = IF q \in D THEN [q EXCEPT !.doomed = TRUE] ELSE q
    BY <1>1
  <2>2. PICK u \in P : r = IF u \in D THEN [u EXCEPT !.doomed = TRUE] ELSE u
    BY <1>1
  <2>3. q # u
    BY <1>3, <2>1, <2>2
  <2>4. q.turn = p.turn /\ u.turn = r.turn
    BY <1>2, <2>1, <2>2
  <2> QED
    BY <1>3, <2>3, <2>4
<1>4. ASSUME NEW r \in R
      PROVE  r \in Process
             /\ \E q \in P : q.turn = r.turn /\ q.sess = r.sess /\ (q.doomed => r.doomed)
  <2>1. PICK q \in P : r = IF q \in D THEN [q EXCEPT !.doomed = TRUE] ELSE q
    BY <1>1
  <2> QED
    BY <1>2, <2>1
<1> QED
  BY <1>3, <1>4

(* They stay processes of their turns.                                      *)
LEMMA DoomedStay ==
    ASSUME Shaped, NEW D, ToldToStop(processes', processes, D)
    PROVE  processes' \subseteq Process /\ ProcessesStay
<1>1. PICK P : P = processes
  OBVIOUS
<1>2. PICK R : R = processes'
  OBVIOUS
<1>3. P \in SUBSET Process
  BY <1>1 DEF Shaped
<1>4. ToldToStop(R, P, D)
  BY <1>1, <1>2
<1>5. /\ R \subseteq Process
      /\ \A p \in R : \E q \in P : q.turn = p.turn /\ q.sess = p.sess /\ (q.doomed => p.doomed)
      /\ \A p, r \in R : p.turn = r.turn /\ p # r =>
           \E q, u \in P : q.turn = p.turn /\ u.turn = p.turn /\ q # u
  BY <1>3, <1>4, Doomed
<1> QED
  BY <1>1, <1>2, <1>5 DEF ProcessesStay

(* A person asks.                                                           *)
LEMMA AskKeeps ==
    ASSUME AdmissionInv, NEW k \in {"activate", "kill", "freeze", "unfreeze"}, NEW s \in Agent,
           Ask(k, s)
    PROVE  AdmissionInv'
<1>1. Shaped /\ Apart
  BY DEF AdmissionInv
<1>2. PICK c : c = [kind |-> k, sess |-> s, turn |-> 0, epoch |-> epoch]
  OBVIOUS
<1>3. c \in RunCommand /\ c.kind # "complete"
  BY <1>1, <1>2 DEF RunCommand, Shaped
<1>4. asked' = Append(asked, c)
  BY <1>2 DEF Ask
<1>5. asked' \in Seq(RunCommand) /\ AskedStay
  <2>1. /\ asked' \in Seq(RunCommand)
        /\ \A i \in DOMAIN asked' : asked'[i] = c \/ \E j \in DOMAIN asked : asked'[i] = asked[j]
    BY <1>1, <1>3, <1>4, Appended
  <2> QED
    BY <1>3, <2>1 DEF AskedStay
<1>6. /\ book' = book /\ bookDisk' = bookDisk /\ runOf' = runOf /\ turnOf' = turnOf
      /\ processes' = processes /\ launching' = launching /\ held' = held /\ epoch' = epoch
      /\ nturn' = nturn /\ crossed' = crossed
  BY DEF Ask
<1>7. Shaped'
  BY <1>1, <1>5, <1>6, ShapedKept DEF Shaped
<1>8. CalmStep /\ Accounts
  BY <1>1, <1>5, <1>6, StatusOnly, Untouched
<1> QED
  BY <1>7, <1>8, CalmKeeps

(* An activation is refused.                                                *)
LEMMA RefuseKeeps == ASSUME AdmissionInv, Refuse PROVE AdmissionInv'
<1>1. Shaped /\ Apart
  BY DEF AdmissionInv
<1>2. asked' \in Seq(RunCommand) /\ AskedStay
  BY <1>1, Began DEF Refuse
<1>3. /\ book' = book /\ bookDisk' = bookDisk /\ runOf' = runOf /\ turnOf' = turnOf
      /\ processes' = processes /\ launching' = launching /\ held' = held /\ epoch' = epoch
      /\ nturn' = nturn /\ crossed' = crossed
  BY DEF Refuse
<1>4. Shaped'
  BY <1>1, <1>2, <1>3, ShapedKept DEF Shaped
<1>5. CalmStep /\ Accounts
  BY <1>1, <1>2, <1>3, StatusOnly, Untouched
<1> QED
  BY <1>4, <1>5, CalmKeeps

(* An activation is refused because of the budget.                          *)
LEMMA RefuseForBudgetKeeps == ASSUME AdmissionInv, RefuseForBudget PROVE AdmissionInv'
<1>1. Shaped /\ Apart
  BY DEF AdmissionInv
<1>2. PICK s \in Agent : s = Head(asked).sess
  BY <1>1, Began DEF RefuseForBudget
<1>3. PICK b : b = book
  OBVIOUS
<1>4. PICK c : c = FrozenForBudget(b, s)
  OBVIOUS
<1>5. b \in RunBook
  BY <1>1, <1>3 DEF Shaped
<1>6. /\ c \in RunBook /\ SameParts4(c, b)
      /\ \A r \in Agent : c.status[r] = b.status[r] \/ b.status[r] = "pending"
  BY <1>4, <1>5, FrozenIs DEF SameParts4
<1>7. /\ book' = c /\ bookDisk' = book' /\ runOf' = runOf /\ turnOf' = turnOf
      /\ processes' = processes /\ launching' = launching /\ held' = held /\ epoch' = epoch
      /\ nturn' = nturn /\ crossed' = crossed /\ asked' = Tail(asked)
  BY <1>1, <1>2, <1>3, <1>4, Began DEF RefuseForBudget, Commits, Save
<1>8. asked' \in Seq(RunCommand) /\ AskedStay
  BY <1>1, <1>7, Began DEF RefuseForBudget
<1>9. Shaped'
  BY <1>1, <1>6, <1>7, <1>8, ShapedKept DEF Shaped
<1>10. SameParts4(book', book)
  BY <1>3, <1>6, <1>7
<1>11. /\ \A r \in Agent : book.status[r] = "killed" => book'.status[r] = "killed"
       /\ \A r \in Agent : turnOf'[r] # 0 /\ book.status[r] = "running" =>
              book'.status[r] \in {"running", "killed"}
  BY <1>3, <1>6, <1>7
<1>12. CalmStep /\ Accounts
  BY <1>1, <1>7, <1>8, <1>10, <1>11, StatusOnly, Untouched
<1> QED
  BY <1>9, <1>12, CalmKeeps

(* A session is frozen or unfrozen.                                         *)
LEMMA SetFrozenKeeps == ASSUME AdmissionInv, SetFrozen PROVE AdmissionInv'
<1>1. Shaped /\ Apart
  BY DEF AdmissionInv
<1>2. PICK k : Starting(k)
  BY DEF SetFrozen
<1>3. /\ Head(asked).sess \in Agent /\ held = NoCmd
      /\ asked' = Tail(asked) => asked' \in Seq(RunCommand) /\ AskedStay
  BY <1>1, <1>2, Began
<1>4. /\ book' = [book EXCEPT !.frozen[Head(asked).sess] = (Head(asked).kind = "freeze")]
      /\ bookDisk' = book' /\ runOf' = runOf /\ turnOf' = turnOf
      /\ processes' = processes /\ launching' = launching /\ held' = held /\ epoch' = epoch
      /\ nturn' = nturn /\ crossed' = crossed /\ asked' = Tail(asked)
  BY <1>3 DEF SetFrozen, Commits, Save
<1>5. book' \in RunBook /\ SameParts4(book', book) /\ book'.status = book.status
  BY <1>1, <1>3, <1>4 DEF Shaped, RunBook, SameParts4
<1>6. Shaped'
  BY <1>1, <1>3, <1>4, <1>5, ShapedKept DEF Shaped
<1>7. CalmStep /\ Accounts
  BY <1>1, <1>3, <1>4, <1>5, StatusOnly, Untouched
<1> QED
  BY <1>6, <1>7, CalmKeeps

(* The provider of an activation does not start.                            *)
LEMMA LaunchBreaksKeeps == ASSUME AdmissionInv, LaunchBreaks PROVE AdmissionInv'
<1>1. Shaped /\ Apart
  BY DEF AdmissionInv
<1>2. /\ Head(asked).sess \in Agent
      /\ asked' = Tail(asked) => asked' \in Seq(RunCommand) /\ AskedStay
  BY <1>1, Began DEF LaunchBreaks
<1>3. /\ book' = book /\ bookDisk' = bookDisk /\ runOf' = runOf
      /\ turnOf' = [turnOf EXCEPT ![Head(asked).sess] = 0]
      /\ processes' = processes /\ launching' = launching /\ held' = held /\ epoch' = epoch
      /\ nturn' = nturn /\ crossed' = crossed \cup ({turnOf[Head(asked).sess]} \ {0})
      /\ asked' = Tail(asked)
  BY DEF LaunchBreaks
<1>4. /\ turnOf' \in [Agent -> Nat] /\ Fewer(turnOf', turnOf) /\ crossed \subseteq crossed'
      /\ \A s \in Agent : turnOf'[s] = turnOf[s] \/ turnOf[s] \in crossed'
  BY <1>1, <1>2, <1>3 DEF Shaped, Fewer
<1>5. Shaped'
  BY <1>1, <1>2, <1>3, <1>4, ShapedKept DEF Shaped
<1>6. CalmStep /\ Accounts
  BY <1>1, <1>2, <1>3, <1>4, StatusOnly, Untouched
<1> QED
  BY <1>5, <1>6, CalmKeeps

(* A drain finds nothing to launch.                                         *)
LEMMA DrainEndsKeeps == ASSUME AdmissionInv, DrainEnds PROVE AdmissionInv'
<1>1. Shaped /\ Apart
  BY DEF AdmissionInv
<1>2. /\ book' = book /\ bookDisk' = book' /\ runOf' = runOf /\ turnOf' = turnOf
      /\ processes' = processes /\ launching' = launching /\ held' = held /\ epoch' = epoch
      /\ nturn' = nturn /\ crossed' = crossed /\ asked' = asked
  BY DEF DrainEnds, Save, rest
<1>3. Shaped'
  BY <1>1, <1>2, ShapedKept DEF Shaped
<1>4. CalmStep /\ Accounts
  BY <1>1, <1>2, StatusOnly, Untouched
<1> QED
  BY <1>3, <1>4, CalmKeeps

(* The first of some indices of the queue.                                  *)
LEMMA LeastIndex ==
    ASSUME NEW T, T \subseteq Nat, T # {}
    PROVE  FirstOf(T) \in T
<1> DEFINE R == OpToRel(<, Nat)
<1>1. IsWellFoundedOn(R, Nat)
  BY NatLessThanWellFounded
<1>2. \A a, b \in Nat : a < b => <<a, b>> \in R
  BY DEF OpToRel
<1> HIDE DEF R
<1>3. PICK x \in T : \A y \in T : ~(<<y, x>> \in R)
  BY <1>1, WFMin
<1>4. ASSUME NEW y \in T PROVE x <= y
  <2>1. ~(y < x)
    BY <1>2, <1>3
  <2> QED
    BY <2>1
<1> QED
  BY <1>3, <1>4, Zenon DEF FirstOf

(* A book without one of its entries.                                       *)
LEMMA TakenIs ==
    ASSUME NEW b \in RunBook, OneEntry(b), NEW i \in DOMAIN b.queue, NEW q, q = b.queue[i],
           NEW c, c = [b EXCEPT !.queue = RemoveAt(@, i)]
    PROVE  /\ c \in RunBook /\ q \in Entry /\ q \in Queue(b)
           /\ c.leases = b.leases /\ c.facts = b.facts /\ c.started = b.started
           /\ c.status = b.status /\ c.frozen = b.frozen
           /\ Queue(c) = Queue(b) \ {q} /\ OneEntry(c)
           /\ QueuedTurns(c) = QueuedTurns(b) \ {q.turn}
           /\ \A e \in Queue(c) : e.sess # q.sess /\ e.turn # q.turn
<1>1. PICK r : r = RemoveAt(b.queue, i)
  OBVIOUS
<1>2. b.queue \in Seq(Entry)
  BY DEF RunBook
<1>3. /\ r \in Seq(Entry) /\ ToSet(r) = ToSet(b.queue) \ {q}
      /\ \A e \in ToSet(r) : e.sess # q.sess /\ e.turn # q.turn
      /\ \A j, k \in DOMAIN r : r[j].sess = r[k].sess \/ r[j].turn = r[k].turn => j = k
  BY <1>1, <1>2, EntryTaken DEF OneEntry
<1>4. c = [b EXCEPT !.queue = r]
  BY <1>1
<1>5. /\ c \in RunBook /\ c.queue = r /\ c.leases = b.leases /\ c.facts = b.facts
      /\ c.started = b.started /\ c.status = b.status /\ c.frozen = b.frozen
  BY <1>3, <1>4 DEF RunBook
<1>6. q \in Entry /\ q \in Queue(b)
  BY <1>2 DEF Queue, ToSet
<1>7. Queue(c) = Queue(b) \ {q} /\ OneEntry(c)
  BY <1>3, <1>5 DEF Queue, OneEntry
<1>8. \A e \in Queue(c) : e.sess # q.sess /\ e.turn # q.turn
  BY <1>3, <1>5 DEF Queue
<1>9. QueuedTurns(c) = QueuedTurns(b) \ {q.turn}
  <2>1. \A t : t \in QueuedTurns(c) <=> t \in QueuedTurns(b) /\ t # q.turn
    BY <1>7, <1>8, QueuedIs
  <2> QED
    BY <2>1
<1> QED
  BY <1>5, <1>6, <1>7, <1>8, <1>9

(* An entry leaves the queue.                                               *)
LEMMA EntryGoes ==
    ASSUME AdmissionInv, NEW i \in DOMAIN book.queue, book'.queue = RemoveAt(book.queue, i),
           book'.leases = book.leases, book'.facts = book.facts, book'.started = book.started,
           bookDisk' = book', nturn' = nturn, held' = held, crossed' = crossed,
           runOf' = runOf, turnOf' = turnOf, launching' = launching, processes' = processes,
           AskedStay,
           \A s \in Agent : book.status[s] = "killed" => book'.status[s] = "killed",
           \A s \in Agent : book.status[s] = "running" => book'.status[s] \in {"running", "killed"}
    PROVE  CalmStep /\ Accounts
<1>1. PICK b : b = book
  OBVIOUS
<1>2. PICK c : c = [b EXCEPT !.queue = RemoveAt(@, i)]
  OBVIOUS
<1>3. PICK q : q = b.queue[i]
  OBVIOUS
<1>4. b \in RunBook /\ OneEntry(b) /\ Numbered(b, nturn) /\ WaitsOnce(b, crossed)
  BY <1>1 DEF AdmissionInv, Shaped, BooksFine, Books, BookFine
<1>5. /\ c \in RunBook /\ Queue(c) = Queue(b) \ {q} /\ OneEntry(c) /\ q \in Queue(b)
      /\ QueuedTurns(c) = QueuedTurns(b) \ {q.turn}
  BY <1>1, <1>2, <1>3, <1>4, TakenIs
<1>6. book'.queue = c.queue
  BY <1>1, <1>2, <1>4 DEF RunBook
<1>7. Queue(book') = Queue(c) /\ QueuedTurns(book') = QueuedTurns(c) /\ OneEntry(book')
  BY <1>5, <1>6 DEF Queue, QueuedTurns, OneEntry
<1>8. ActiveTurns(book') = ActiveTurns(b)
  BY <1>1 DEF ActiveTurns
<1>9. Counted(book') \subseteq Counted(b) /\ Counted(b) \subseteq Counted(book') \cup {q.turn}
  BY <1>1, <1>5, <1>7, <1>8 DEF Counted
<1>10. BookStays
  BY <1>1, <1>4, <1>5, <1>7, <1>8, <1>9 DEF BookStays, Numbered
<1>11. CalmStep
  BY <1>10, Untouched DEF CalmStep, AdmissionInv
<1>12. \A s \in Agent : book.started[s] = q.turn => q.turn \in crossed
  BY <1>1, <1>4, <1>5 DEF WaitsOnce
<1>13. \A s \in Agent : Gone(s) => Gone(s)'
  BY <1>11, GoneStays DEF Gone, CalmStep
<1>14. Accounts
  BY <1>1, <1>8, <1>9, <1>12, <1>13 DEF Accounts, InProgress
<1> QED
  BY <1>11, <1>14

(* A turn with a lease is a turn.                                           *)
LEMMA ActiveIs ==
    ASSUME NEW b \in RunBook PROVE ActiveTurns(b) \subseteq Turn /\ b.facts \subseteq Turn
BY DEF RunBook, ActiveTurns

(* The turn of s ends.                                                      *)
LEMMA TurnEnds ==
    ASSUME AdmissionInv, NEW s \in Agent, NEW st \in Status, NEW t \in Nat, t = turnOf[s],
           book' = OverAs(book, s, st, t), bookDisk' = book', nturn' = nturn, held' = held,
           crossed \subseteq crossed', turnOf' = [turnOf EXCEPT ![s] = 0],
           Fewer(runOf', runOf), RunsStay, launching' = launching, ProcessesStay, AskedStay,
           Gone(s) => st = "killed"
    PROVE  book' \in RunBook /\ turnOf' \in [Agent -> Nat] /\ CalmStep /\ Accounts
<1>0. PICK b : b = book
  OBVIOUS
<1>1. PICK c : c = OverAs(b, s, st, t)
  OBVIOUS
<1>2. b \in RunBook /\ OneEntry(b) /\ Numbered(b, nturn) /\ turnOf \in [Agent -> Nat] /\ nturn \in Nat
  BY <1>0 DEF AdmissionInv, Shaped, BooksFine, Books, BookFine
<1>3. /\ c \in RunBook /\ c.queue = b.queue /\ c.facts = b.facts \cup ({t} \ {0})
      /\ c.started = b.started /\ c.status = [b.status EXCEPT ![s] = st]
      /\ ActiveTurns(c) = ActiveTurns(b) \ {t}
  BY <1>1, <1>2, OverIs
<1>4. book' = c
  BY <1>0, <1>1
<1>5. Queue(c) = Queue(b) /\ QueuedTurns(c) = QueuedTurns(b) /\ OneEntry(c)
  BY <1>2, <1>3 DEF Queue, QueuedTurns, OneEntry
<1>6. /\ \A r \in Agent : turnOf'[r] = IF r = s THEN 0 ELSE turnOf[r]
      /\ turnOf' \in [Agent -> Nat]
  BY <1>2
<1>7. t # 0 => t \in ActiveTurns(b) \cup crossed /\ t \in 1..nturn
  <2> SUFFICES ASSUME t # 0 PROVE t \in ActiveTurns(b) \cup crossed /\ t \in 1..nturn
    OBVIOUS
  <2>1. t \in ActiveTurns(b) \cup crossed
    BY <1>0 DEF AdmissionInv, Leasing, LeasesMatchTurns
  <2>2. t \in Turn /\ Names(t, s)
    BY DEF Turn, Names
  <2>3. t <= nturn
    BY <2>2 DEF AdmissionInv, Owned
  <2> QED
    BY <1>2, <2>1, <2>3
<1>8. /\ Counted(c) \subseteq Counted(b) \cup crossed /\ Numbered(c, nturn)
  BY <1>2, <1>3, <1>5, <1>7 DEF Counted, Numbered
<1>9. Counted(b) \subseteq Counted(c)
  <2>1. ActiveTurns(b) \subseteq Turn
    BY <1>2, ActiveIs
  <2> QED
    BY <1>3, <1>5, <2>1 DEF Counted, Turn
<1>10. BookStays
  BY <1>0, <1>2, <1>3, <1>4, <1>5, <1>8 DEF BookStays
<1>11. Fewer(turnOf', turnOf) /\ LaunchesStay
  BY <1>6, Untouched DEF Fewer, AdmissionInv
<1>12. CalmStep
  BY <1>10, <1>11 DEF CalmStep
<1>13. ASSUME NEW u \in ActiveTurns(book) \ ActiveTurns(book'), u \notin crossed'
       PROVE  (\A r \in Agent : turnOf'[r] # u) /\ \A l \in launching' : l.turn # u
  <2>1. u = t /\ u \in Turn
    BY <1>0, <1>2, <1>3, <1>4, <1>13, ActiveIs
  <2>2. Names(u, s)
    BY <2>1 DEF Names
  <2>3. ASSUME NEW r \in Agent, turnOf'[r] = u PROVE FALSE
    <3>1. r # s /\ turnOf[r] = u
      BY <1>6, <2>1, <2>3 DEF Turn
    <3>2. Names(u, r)
      BY <3>1 DEF Names
    <3> QED
      BY <2>1, <2>2, <3>1, <3>2 DEF AdmissionInv, Owned
  <2>4. ASSUME NEW l \in launching', l.turn = u PROVE FALSE
    <3>1. l \in launching /\ l.sess \in Agent
      BY DEF AdmissionInv, Shaped, Launch
    <3>2. Names(u, l.sess)
      BY <2>4, <3>1 DEF Names
    <3>3. l.sess = s
      BY <2>1, <2>2, <3>1, <3>2 DEF AdmissionInv, Owned
    <3>4. l.turn \in crossed
      BY <2>1, <3>1, <3>3 DEF AdmissionInv, Meets, Turn
    <3> QED
      BY <1>13, <2>4, <3>4
  <2> QED
    BY <2>3, <2>4
<1>14. ASSUME NEW u \in ActiveTurns(book'), InProgress(u) PROVE InProgress(u)'
  <2>1. u # t
    BY <1>3, <1>4, <1>14
  <2>2. \A r \in Agent : turnOf[r] = u => turnOf'[r] = u
    BY <1>6, <2>1
  <2> QED
    BY <1>14, <2>2 DEF InProgress
<1>15. /\ \A r \in Agent : r # s => book'.status[r] = book.status[r]
       /\ book'.status[s] = st
  BY <1>0, <1>2, <1>3, <1>4 DEF RunBook
<1>16. \A r \in Agent : Gone(r) => Gone(r)'
  <2> SUFFICES ASSUME NEW r \in Agent, Gone(r) PROVE Gone(r)'
    OBVIOUS
  <2>1. book'.status[r] = "killed"
    BY <1>15 DEF Gone
  <2> QED
    BY <1>11, <2>1, GoneStays
<1>17. Accounts
  <2>1. \A r \in Agent : book.started[r] \in Counted(book) => book.started[r] \in Counted(book')
    BY <1>0, <1>4, <1>9
  <2>2. \A r \in Agent : turnOf'[r] # 0 => book'.status[r] = book.status[r]
    BY <1>6, <1>15
  <2> QED
    BY <1>13, <1>14, <1>16, <2>1, <2>2 DEF Accounts
<1> QED
  BY <1>3, <1>4, <1>6, <1>12, <1>17

(* A session is killed.                                                     *)
LEMMA KillSessionKeeps == ASSUME AdmissionInv, KillSession PROVE AdmissionInv'
<1>1. Shaped /\ Apart
  BY DEF AdmissionInv
<1>2. PICK s \in Agent : s = Head(asked).sess
  BY <1>1, Began DEF KillSession
<1>3. PICK mine : mine = {i \in DOMAIN book.queue : book.queue[i].sess = s}
  OBVIOUS
<1>4. /\ held' = held /\ runOf' = runOf /\ turnOf' = turnOf /\ launching' = launching
      /\ epoch' = epoch /\ nturn' = nturn /\ crossed' = crossed /\ asked' = Tail(asked)
      /\ bookDisk' = book'
      /\ \/ /\ book' = [book EXCEPT !.status[s] = "killed"]
            /\ processes' = {IF p.turn = runOf[s] THEN [p EXCEPT !.doomed = TRUE] ELSE p
                             : p \in processes}
         \/ mine = {} /\ book' = book /\ processes' = processes
         \/ /\ mine # {} /\ processes' = processes
            /\ book' = [Taken(FirstOf(mine)) EXCEPT !.status[s] = "killed"]
  BY <1>1, <1>2, <1>3, Began DEF KillSession, Commits, Save
<1>5. asked' \in Seq(RunCommand) /\ AskedStay
  BY <1>1, <1>4, Began DEF KillSession
<1>6. ASSUME book' \in RunBook, processes' \subseteq Process PROVE Shaped'
  BY <1>1, <1>4, <1>5, <1>6, ShapedKept DEF Shaped
<1>7. CASE /\ book' = [book EXCEPT !.status[s] = "killed"]
           /\ processes' = {IF p.turn = runOf[s] THEN [p EXCEPT !.doomed = TRUE] ELSE p
                             : p \in processes}
  <2>1. PICK D : D = {p \in processes : p.turn = runOf[s]}
    OBVIOUS
  <2>2. ToldToStop(processes', processes, D)
    BY <1>7, <2>1 DEF ToldToStop
  <2>3. processes' \subseteq Process /\ ProcessesStay
    BY <1>1, <2>2, DoomedStay
  <2>4. book \in RunBook /\ "killed" \in Status
    BY <1>1 DEF Shaped, Status
  <2>5. /\ book' \in RunBook /\ SameParts4(book', book)
        /\ \A r \in Agent : book'.status[r] = IF r = s THEN "killed" ELSE book.status[r]
    BY <1>7, <2>4 DEF RunBook, SameParts4
  <2>6. Shaped'
    BY <1>6, <2>3, <2>5
  <2>7. /\ \A r \in Agent : book.status[r] = "killed" => book'.status[r] = "killed"
        /\ \A r \in Agent : turnOf'[r] # 0 /\ book.status[r] = "running" =>
              book'.status[r] \in {"running", "killed"}
    BY <2>5
  <2>8. CalmStep /\ Accounts
    BY <1>1, <1>4, <1>5, <2>3, <2>5, <2>7, StatusOnly, Untouched
  <2> QED
    BY <2>6, <2>8, CalmKeeps
<1>8. CASE book' = book /\ processes' = processes
  <2>1. Shaped'
    BY <1>1, <1>6, <1>8 DEF Shaped
  <2>2. CalmStep /\ Accounts
    BY <1>1, <1>4, <1>5, <1>8, StatusOnly, Untouched
  <2> QED
    BY <2>1, <2>2, CalmKeeps
<1>9. CASE /\ mine # {} /\ processes' = processes
           /\ book' = [Taken(FirstOf(mine)) EXCEPT !.status[s] = "killed"]
  <2>1. PICK b : b = book
    OBVIOUS
  <2>2. b \in RunBook /\ OneEntry(b)
    BY <1>1, <2>1 DEF Shaped, AdmissionInv, BooksFine, Books, BookFine
  <2>3. mine \subseteq DOMAIN b.queue /\ DOMAIN b.queue \subseteq Nat
    <3>1. b.queue \in Seq(Entry)
      BY <2>2 DEF RunBook
    <3> QED
      BY <1>3, <2>1, <3>1
  <2>4. PICK i \in DOMAIN b.queue : i = FirstOf(mine)
    BY <1>9, <2>3, LeastIndex
  <2>5. PICK c : c = [b EXCEPT !.queue = RemoveAt(@, i)]
    OBVIOUS
  <2>6. PICK q : q = b.queue[i]
    OBVIOUS
  <2>7. /\ c \in RunBook /\ c.leases = b.leases /\ c.facts = b.facts /\ c.started = b.started
        /\ c.status = b.status
    BY <2>2, <2>5, <2>6, TakenIs
  <2>8. c.queue = RemoveAt(b.queue, i)
    BY <2>2, <2>5 DEF RunBook
  <2>9. book' = [c EXCEPT !.status[s] = "killed"]
    BY <1>9, <2>1, <2>4, <2>5 DEF Taken
  <2>10. /\ book' \in RunBook /\ book'.queue = c.queue /\ book'.leases = c.leases
         /\ book'.facts = c.facts /\ book'.started = c.started
         /\ \A r \in Agent : book'.status[r] = IF r = s THEN "killed" ELSE c.status[r]
    <3>1. "killed" \in Status
      BY DEF Status
    <3> QED
      BY <2>7, <2>9, <3>1 DEF RunBook
  <2>11. Shaped'
    BY <1>1, <1>6, <1>9, <2>10 DEF Shaped
  <2>12. /\ \A r \in Agent : book.status[r] = "killed" => book'.status[r] = "killed"
         /\ \A r \in Agent : book.status[r] = "running" => book'.status[r] \in {"running", "killed"}
    BY <2>1, <2>7, <2>10
  <2>13. /\ i \in DOMAIN book.queue /\ book'.queue = RemoveAt(book.queue, i)
         /\ book'.leases = book.leases /\ book'.facts = book.facts
         /\ book'.started = book.started
    BY <2>1, <2>7, <2>8, <2>10
  <2>14. CalmStep /\ Accounts
    BY <1>4, <1>5, <1>9, <2>12, <2>13, EntryGoes
  <2> QED
    BY <2>11, <2>14, CalmKeeps
<1> QED
  BY <1>4, <1>7, <1>8, <1>9

(* Launches are told to stop.                                               *)
AbortedAre(M, L) == M = {[l EXCEPT !.aborted = TRUE] : l \in L}
LEMMA Aborted ==
    ASSUME NEW L \in SUBSET Launch, NEW M, AbortedAre(M, L),
           \A l, m \in L : l.by = m.by => l = m
    PROVE  /\ M \subseteq Launch
           /\ \A l \in M : \E m \in L :
                m.sess = l.sess /\ m.turn = l.turn /\ m.by = l.by /\ m.stale = l.stale
           /\ \A l, m \in M : l.by = m.by => l = m
           /\ \A l \in L : \E m \in M : m.turn = l.turn
<1>1. ASSUME NEW l \in L, NEW m, m = [l EXCEPT !.aborted = TRUE]
      PROVE  m \in Launch /\ l.sess = m.sess /\ l.turn = m.turn /\ l.by = m.by /\ l.stale = m.stale
  BY <1>1 DEF Launch
<1>2. ASSUME NEW m \in M PROVE \E l \in L : m = [l EXCEPT !.aborted = TRUE]
  BY DEF AbortedAre
<1>3. ASSUME NEW l \in L PROVE \E m \in M : m = [l EXCEPT !.aborted = TRUE]
  BY DEF AbortedAre
<1>4. ASSUME NEW l \in M
      PROVE  /\ l \in Launch
             /\ \E m \in L : m.sess = l.sess /\ m.turn = l.turn /\ m.by = l.by
                           /\ m.stale = l.stale
  <2>1. PICK m \in L : l = [m EXCEPT !.aborted = TRUE]
    BY <1>2
  <2> QED
    BY <1>1, <2>1
<1>5. ASSUME NEW l \in M, NEW m \in M, l.by = m.by PROVE l = m
  <2>1. PICK j \in L : l = [j EXCEPT !.aborted = TRUE]
    BY <1>2
  <2>2. PICK k \in L : m = [k EXCEPT !.aborted = TRUE]
    BY <1>2
  <2>3. j.by = k.by
    BY <1>1, <1>5, <2>1, <2>2
  <2> QED
    BY <2>1, <2>2, <2>3
<1>6. ASSUME NEW l \in L PROVE \E m \in M : m.turn = l.turn
  <2>1. PICK m \in M : m = [l EXCEPT !.aborted = TRUE]
    BY <1>3
  <2> QED
    BY <1>1, <2>1
<1> QED
  BY <1>4, <1>5, <1>6

(* Everything is killed.                                                    *)
LEMMA KillAllKeeps == ASSUME AdmissionInv, KillAll PROVE AdmissionInv'
<1>1. Shaped /\ Apart
  BY DEF AdmissionInv
<1>2. /\ held' = held /\ runOf' = runOf /\ turnOf' = turnOf /\ epoch' = epoch + 1
      /\ nturn' = nturn /\ crossed' = crossed /\ asked' = asked /\ bookDisk' = book'
      /\ launching' = {[l EXCEPT !.aborted = TRUE] : l \in launching}
      /\ processes' = {IF runOf[p.sess] = p.turn THEN [p EXCEPT !.doomed = TRUE] ELSE p
                       : p \in processes}
      /\ book' = [book EXCEPT !.status = [s \in Agent |-> IF runOf[s] # 0 THEN "killed" ELSE @[s]]]
  BY DEF KillAll, Save
<1>3. PICK L : L = launching
  OBVIOUS
<1>4. PICK M : M = launching'
  OBVIOUS
<1>5. L \in SUBSET Launch /\ AbortedAre(M, L)
  BY <1>1, <1>2, <1>3, <1>4 DEF Shaped, AbortedAre
<1>6. \A l, m \in L : l.by = m.by => l = m
  BY <1>1, <1>3 DEF Apart
<1>7. launching' \subseteq Launch /\ LaunchesStay
      /\ \A l \in launching : \E m \in launching' : m.turn = l.turn
  <2>1. /\ M \subseteq Launch
        /\ \A l \in M : \E m \in L :
             m.sess = l.sess /\ m.turn = l.turn /\ m.by = l.by /\ m.stale = l.stale
        /\ \A l, m \in M : l.by = m.by => l = m
        /\ \A l \in L : \E m \in M : m.turn = l.turn
    BY <1>5, <1>6, Aborted
  <2> QED
    BY <1>3, <1>4, <2>1 DEF LaunchesStay
<1>8. PICK D : D = {p \in processes : runOf[p.sess] = p.turn}
  OBVIOUS
<1>9. ToldToStop(processes', processes, D)
  BY <1>2, <1>8 DEF ToldToStop
<1>10. processes' \subseteq Process /\ ProcessesStay
  BY <1>1, <1>9, DoomedStay
<1>11. /\ book' \in RunBook /\ SameParts4(book', book)
       /\ \A s \in Agent : book'.status[s] = IF runOf[s] # 0 THEN "killed" ELSE book.status[s]
  <2>1. PICK st : st = [s \in Agent |-> IF runOf[s] # 0 THEN "killed" ELSE book.status[s]]
    OBVIOUS
  <2>2. book \in RunBook
    BY <1>1 DEF Shaped
  <2>3. st \in [Agent -> Status]
    BY <2>1, <2>2 DEF RunBook, Status
  <2>4. book' = [book EXCEPT !.status = st]
    BY <1>2, <2>1
  <2>5. book' \in RunBook /\ SameParts4(book', book) /\ book'.status = st
    BY <2>2, <2>3, <2>4 DEF RunBook, SameParts4
  <2> QED
    BY <2>1, <2>5
<1>12. /\ \A r \in Agent : book.status[r] = "killed" => book'.status[r] = "killed"
       /\ \A r \in Agent : turnOf'[r] # 0 /\ book.status[r] = "running" =>
             book'.status[r] \in {"running", "killed"}
  BY <1>11
<1>13. AskedStay /\ asked' \in Seq(RunCommand) /\ epoch' \in Nat
  BY <1>1, <1>2, Untouched DEF Shaped
<1>14. Shaped'
  BY <1>1, <1>2, <1>7, <1>10, <1>11, <1>13, ShapedKept DEF Shaped
<1>15. CalmStep /\ Accounts
  BY <1>1, <1>2, <1>7, <1>10, <1>11, <1>12, <1>13, StatusOnly, Untouched
<1> QED
  BY <1>14, <1>15, CalmKeeps

(* A run completes.                                                         *)
LEMMA CompleteRunKeeps == ASSUME AdmissionInv, CompleteRun PROVE AdmissionInv'
<1>1. Shaped /\ Apart
  BY DEF AdmissionInv
<1>2. PICK s \in Agent : s = Head(asked).sess
  BY <1>1, Began DEF CompleteRun
<1>3. PICK t \in Nat : t = turnOf[s]
  BY <1>1 DEF Shaped
<1>4. /\ held' = held /\ runOf' = runOf /\ turnOf' = [turnOf EXCEPT ![s] = 0]
      /\ launching' = launching /\ processes' = processes
      /\ epoch' = epoch /\ nturn' = nturn /\ crossed' = crossed /\ asked' = Tail(asked)
      /\ bookDisk' = book'
      /\ book' = OverAs(book, s, "idle", t) \/ book' = OverAs(book, s, "failed", t)
  <2>1. held = NoCmd
    BY <1>1, Began DEF CompleteRun
  <2>2. /\ runOf' = runOf /\ turnOf' = [turnOf EXCEPT ![s] = 0]
        /\ launching' = launching /\ processes' = processes
        /\ nturn' = nturn /\ crossed' = crossed
    BY <1>2 DEF CompleteRun
  <2>3. PICK c : c = Head(asked)
    OBVIOUS
  <2>4. \/ /\ Commits(c, OverAs(book, s, "idle", c.turn), TRUE)
           /\ turnOf[s] = c.turn
        \/ /\ Save(FailedSession(book, s)) /\ asked' = Tail(asked)
           /\ UNCHANGED <<held, epoch, paused, spent>>
    BY <1>2, <2>3 DEF CompleteRun, OverAs
  <2>5. FailedSession(book, s) = OverAs(book, s, "failed", t)
    BY <1>3 DEF FailedSession, OverAs
  <2> QED
    BY <1>3, <2>1, <2>2, <2>4, <2>5 DEF Commits, Save
<1>5. asked' \in Seq(RunCommand) /\ AskedStay
  BY <1>1, <1>4, Began DEF CompleteRun
<1>6. ~Gone(s)
  BY <1>1, <1>2, Began DEF CompleteRun, Gone
<1>7. PICK st \in Status : book' = OverAs(book, s, st, t)
  BY <1>4 DEF Status
<1>8. book' \in RunBook /\ turnOf' \in [Agent -> Nat] /\ CalmStep /\ Accounts
  BY <1>1, <1>3, <1>4, <1>5, <1>6, <1>7, TurnEnds, Untouched
<1>9. Shaped'
  BY <1>1, <1>4, <1>5, <1>8, ShapedKept DEF Shaped
<1> QED
  BY <1>8, <1>9, CalmKeeps

(* A run reports an error.                                                  *)
LEMMA RunErrsKeeps ==
    ASSUME AdmissionInv, NEW p \in processes, RunErrs(p) PROVE AdmissionInv'
<1>1. Shaped /\ Apart
  BY DEF AdmissionInv
<1>2. PICK s \in Agent : s = p.sess
  BY <1>1 DEF Shaped, Process
<1>3. PICK t \in Nat : t = turnOf[s]
  BY <1>1 DEF Shaped
<1>4. /\ held' = held /\ runOf' = runOf /\ turnOf' = [turnOf EXCEPT ![s] = 0]
      /\ launching' = launching /\ processes' = processes
      /\ epoch' = epoch /\ nturn' = nturn /\ crossed' = crossed /\ asked' = asked
      /\ bookDisk' = book' /\ book' = OverAs(book, s, "failed", t)
      /\ book.status[s] # "killed"
  BY <1>1, <1>2, <1>3 DEF RunErrs, Save, FailedSession, OverAs
<1>5. "failed" \in Status /\ ~Gone(s)
  BY <1>4 DEF Status, Gone
<1>6. book' \in RunBook /\ turnOf' \in [Agent -> Nat] /\ CalmStep /\ Accounts
  BY <1>1, <1>3, <1>4, <1>5, TurnEnds, Untouched
<1>7. Shaped'
  BY <1>1, <1>4, <1>6, ShapedKept DEF Shaped
<1> QED
  BY <1>6, <1>7, CalmKeeps

(* A process closes.                                                        *)
LEMMA RunClosesKeeps ==
    ASSUME AdmissionInv, NEW p \in processes, RunCloses(p) PROVE AdmissionInv'
<1>1. Shaped /\ Apart
  BY DEF AdmissionInv
<1>2. PICK s \in Agent : s = p.sess
  BY <1>1 DEF Shaped, Process
<1>3. PICK t \in Nat : t = turnOf[s]
  BY <1>1 DEF Shaped
<1>4. /\ held' = held /\ runOf' = [runOf EXCEPT ![s] = 0] /\ processes' = processes \ {p}
      /\ launching' = launching /\ epoch' = epoch /\ nturn' = nturn
      /\ crossed' = crossed \cup ({runOf[s]} \ {0, p.turn})
      /\ \/ book' = book /\ bookDisk' = bookDisk /\ turnOf' = turnOf /\ asked' = asked
         \/ /\ book' = OverAs(book, s, "killed", t) /\ bookDisk' = book' /\ asked' = asked
            /\ turnOf' = [turnOf EXCEPT ![s] = 0]
         \/ /\ book.status[s] \notin {"killed", "failed"}
            /\ asked' = Append(asked, [kind |-> "complete", sess |-> s, turn |-> t,
                                       epoch |-> epoch])
            /\ book' = book /\ bookDisk' = bookDisk /\ turnOf' = turnOf
  BY <1>2, <1>3 DEF RunCloses, Save, OverAs
<1>5. /\ runOf' \in [Agent -> Nat] /\ Fewer(runOf', runOf) /\ crossed \subseteq crossed'
      /\ processes' \subseteq Process
  BY <1>1, <1>2, <1>4 DEF Shaped, Fewer
<1>6. RunsStay
  <2> SUFFICES ASSUME NEW r \in processes', runOf[r.sess] = r.turn, r.sess = s,
                      r.turn \notin crossed'
               PROVE  FALSE
    <3>1. \A r \in processes' : r.sess # s => runOf'[r.sess] = runOf[r.sess]
      BY <1>1, <1>4, <1>5 DEF Shaped, Process
    <3> QED
      BY <3>1 DEF RunsStay
  <2>1. r.turn = p.turn
    <3>1. r.turn # 0
      BY <1>5 DEF Process, Turn
    <3> QED
      BY <1>4, <3>1
  <2>2. r \in processes /\ r # p /\ r.turn \notin crossed
    BY <1>4
  <2> QED
    BY <2>1, <2>2 DEF AdmissionInv, Lives
<1>7. ProcessesStay
  BY <1>4 DEF ProcessesStay
<1>8. CASE book' = book /\ bookDisk' = bookDisk /\ turnOf' = turnOf /\ asked' = asked
  <2>1. Shaped'
    BY <1>1, <1>4, <1>5, <1>8, ShapedKept DEF Shaped
  <2>2. CalmStep /\ Accounts
    BY <1>1, <1>4, <1>5, <1>6, <1>7, <1>8, StatusOnly, Untouched
  <2> QED
    BY <2>1, <2>2, CalmKeeps
<1>9. CASE /\ book' = OverAs(book, s, "killed", t) /\ bookDisk' = book' /\ asked' = asked
           /\ turnOf' = [turnOf EXCEPT ![s] = 0]
  <2>1. "killed" \in Status
    BY DEF Status
  <2>2. book' \in RunBook /\ turnOf' \in [Agent -> Nat] /\ CalmStep /\ Accounts
    BY <1>1, <1>3, <1>4, <1>5, <1>6, <1>7, <1>9, <2>1, TurnEnds, Untouched
  <2>3. Shaped'
    BY <1>1, <1>4, <1>5, <1>9, <2>2, ShapedKept DEF Shaped
  <2> QED
    BY <2>2, <2>3, CalmKeeps
<1>10. CASE /\ book.status[s] \notin {"killed", "failed"}
            /\ asked' = Append(asked, [kind |-> "complete", sess |-> s, turn |-> t,
                                       epoch |-> epoch])
            /\ book' = book /\ bookDisk' = bookDisk /\ turnOf' = turnOf
  <2>1. PICK c : c = [kind |-> "complete", sess |-> s, turn |-> t, epoch |-> epoch]
    OBVIOUS
  <2>2. c \in RunCommand /\ c.sess = s
    BY <1>1, <2>1 DEF Shaped, RunCommand
  <2>3. asked' = Append(asked, c)
    BY <1>10, <2>1
  <2>4. /\ asked' \in Seq(RunCommand)
        /\ \A i \in DOMAIN asked' : asked'[i] = c \/ \E j \in DOMAIN asked : asked'[i] = asked[j]
    BY <1>1, <2>2, <2>3, Appended
  <2>5. AskedStay
    BY <1>10, <2>2, <2>4 DEF AskedStay
  <2>6. Shaped'
    BY <1>1, <1>4, <1>5, <1>10, <2>4, ShapedKept DEF Shaped
  <2>7. CalmStep /\ Accounts
    BY <1>1, <1>4, <1>5, <1>6, <1>7, <1>10, <2>5, StatusOnly, Untouched
  <2> QED
    BY <2>6, <2>7, CalmKeeps
<1> QED
  BY <1>4, <1>8, <1>9, <1>10

(* A launch of the drain fails.                                             *)
LEMMA DrainFailsKeeps ==
    ASSUME AdmissionInv, NEW l \in launching, l.by = "drain", LaunchFails(l)
    PROVE  AdmissionInv'
<1>1. Shaped /\ Apart /\ Meets /\ Owned /\ Leasing
  BY DEF AdmissionInv
<1>2. PICK s \in Agent : s = l.sess
  BY <1>1 DEF Shaped, Launch
<1>3. PICK t \in Turn : t = l.turn
  BY <1>1 DEF Shaped, Launch
<1>4. PICK n \in BOOLEAN :
        /\ held' = held /\ runOf' = runOf /\ turnOf' = [turnOf EXCEPT ![s] = 0]
        /\ launching' = launching \ {l} /\ processes' = processes /\ epoch' = epoch
        /\ nturn' = nturn /\ crossed' = crossed /\ asked' = asked /\ bookDisk' = book'
        /\ book' = LaunchFailed(book, s, t, n)
  BY <1>2, <1>3 DEF LaunchFails, Save
<1>5. PICK b : b = book
  OBVIOUS
<1>6. PICK c : c = LaunchFailed(b, s, t, n)
  OBVIOUS
<1>7. b \in RunBook /\ OneEntry(b) /\ Numbered(b, nturn) /\ turnOf \in [Agent -> Nat] /\ nturn \in Nat
  BY <1>5 DEF AdmissionInv, Shaped, BooksFine, Books, BookFine
<1>8. /\ c \in RunBook /\ c.queue = b.queue /\ c.facts = b.facts \cup (IF n THEN {t} ELSE {})
      /\ c.started = b.started /\ c.status = [b.status EXCEPT ![s] = "failed"]
      /\ ActiveTurns(c) = ActiveTurns(b) \ {t}
  BY <1>6, <1>7, LaunchFailedIs
<1>9. book' = c
  BY <1>4, <1>5, <1>6
<1>10. Queue(c) = Queue(b) /\ QueuedTurns(c) = QueuedTurns(b) /\ OneEntry(c)
  BY <1>7, <1>8 DEF Queue, QueuedTurns, OneEntry
<1>11. /\ \A r \in Agent : turnOf'[r] = IF r = s THEN 0 ELSE turnOf[r]
       /\ turnOf' \in [Agent -> Nat]
  BY <1>4, <1>7
<1>12. Names(t, s)
  BY <1>2, <1>3 DEF Names
<1>13. t \in ActiveTurns(b) \cup crossed /\ t \in 1..nturn
  <2>1. t \in ActiveTurns(b) \cup crossed
    BY <1>1, <1>3, <1>5 DEF Leasing
  <2>2. t <= nturn
    BY <1>1, <1>12 DEF Owned
  <2> QED
    BY <1>7, <2>1, <2>2 DEF Turn
<1>14. Counted(c) \subseteq Counted(b) \cup crossed /\ Numbered(c, nturn)
  BY <1>7, <1>8, <1>10, <1>13 DEF Counted, Numbered
<1>15. BookStays
  BY <1>4, <1>5, <1>7, <1>8, <1>9, <1>10, <1>14 DEF BookStays
<1>16. Fewer(turnOf', turnOf) /\ LaunchesStay
  BY <1>1, <1>4, <1>11 DEF Fewer, LaunchesStay, Apart
<1>17. CalmStep
  BY <1>1, <1>4, <1>15, <1>16, Untouched DEF CalmStep
<1>18. ASSUME NEW u \in ActiveTurns(book) \ ActiveTurns(book'), u \notin crossed
       PROVE  (\A r \in Agent : turnOf'[r] # u) /\ \A m \in launching' : m.turn # u
  <2>1. u = t
    BY <1>5, <1>8, <1>9, <1>18
  <2>2. ASSUME NEW r \in Agent, turnOf'[r] = t PROVE FALSE
    <3>1. r # s /\ turnOf[r] = t
      BY <1>11, <2>2 DEF Turn
    <3>2. Names(t, r)
      BY <3>1 DEF Names
    <3> QED
      BY <1>1, <1>12, <3>1, <3>2 DEF Owned
  <2>3. ASSUME NEW m \in launching', m.turn = t PROVE FALSE
    <3>1. m \in launching /\ m # l /\ m.sess \in Agent
      BY <1>1, <1>4 DEF Shaped, Launch
    <3>2. Names(t, m.sess)
      BY <2>3, <3>1 DEF Names
    <3>3. m.sess = s
      BY <1>1, <1>12, <3>1, <3>2 DEF Owned
    <3>4. l.turn \in crossed
      BY <1>1, <1>2, <3>1, <3>3 DEF Meets
    <3> QED
      BY <1>3, <1>18, <2>1, <3>4
  <2> QED
    BY <2>1, <2>2, <2>3
<1>19. ASSUME NEW u \in ActiveTurns(book'), InProgress(u) PROVE InProgress(u)' \/ u \in crossed
  <2>1. u # t /\ u # 0
    <3>1. ActiveTurns(c) \subseteq Turn
      BY <1>8, ActiveIs
    <3> QED
      BY <1>8, <1>9, <1>19, <3>1 DEF Turn
  <2>2. ASSUME NEW r \in Agent, turnOf[r] = u PROVE turnOf'[r] = u \/ u \in crossed
    <3>1. CASE r = s
      BY <1>1, <1>2, <2>1, <2>2, <3>1 DEF Meets
    <3>2. CASE r # s
      BY <1>11, <2>2, <3>2
    <3> QED
      BY <3>1, <3>2
  <2>3. ASSUME NEW m \in launching, m.turn = u PROVE m \in launching'
    BY <1>3, <1>4, <2>1, <2>3
  <2> QED
    BY <1>19, <2>2, <2>3 DEF InProgress
<1>20. \A r \in Agent : r # s => book'.status[r] = book.status[r]
  BY <1>5, <1>7, <1>8, <1>9 DEF RunBook
<1>21. \A r \in Agent : Gone(r) => Gone(r)'
  <2> SUFFICES ASSUME NEW r \in Agent, Gone(r) PROVE Gone(r)'
    OBVIOUS
  <2>1. r # s
    BY <1>2 DEF Gone
  <2>2. book'.status[r] = "killed"
    BY <1>20, <2>1 DEF Gone
  <2> QED
    BY <1>1, <1>4, <1>16, <2>2, GoneStays, Untouched
<1>22. \A r \in Agent : book.started[r] \in Counted(book) =>
          book.started[r] \in Counted(book') \cup crossed
  <2> SUFFICES ASSUME NEW r \in Agent, book.started[r] \in Counted(book)
               PROVE  book.started[r] \in Counted(book') \cup crossed
    OBVIOUS
  <2>1. CASE book.started[r] = t
    BY <1>3, <2>1 DEF AdmissionInv, Remembered, Remembers, StartsOnce
  <2>2. CASE book.started[r] # t
    BY <1>5, <1>8, <1>9, <1>10, <2>2 DEF Counted
  <2> QED
    BY <2>1, <2>2
<1>23. \A r \in Agent : turnOf'[r] # 0 => book'.status[r] = book.status[r]
  BY <1>11, <1>20
<1>24. Accounts
  BY <1>4, <1>18, <1>19, <1>21, <1>22, <1>23 DEF Accounts
<1>25. Shaped'
  <2>1. launching' \subseteq Launch
    BY <1>1, <1>4 DEF Shaped
  <2> QED
    BY <1>1, <1>4, <1>8, <1>9, <1>11, <2>1, ShapedKept DEF Shaped
<1> QED
  BY <1>17, <1>24, <1>25, CalmKeeps

(* The entry that the drain takes.                                          *)
LEMMA Drained ==
    ASSUME Shaped, BooksFine, Candidates # {}, NEW i, i = FirstOf(Candidates)
    PROVE  /\ i \in DOMAIN book.queue /\ book.queue[i] \in Entry /\ Eligible(book.queue[i])
           /\ book.queue[i] \in Queue(book)
<1>1. book.queue \in Seq(Entry)
  BY DEF Shaped, RunBook
<1>2. Candidates \subseteq DOMAIN book.queue /\ DOMAIN book.queue \subseteq Nat
  BY <1>1 DEF Candidates
<1>3. i \in Candidates
  BY <1>2, LeastIndex
<1>4. i \in DOMAIN book.queue /\ Eligible(book.queue[i])
  BY <1>2, <1>3 DEF Candidates
<1>5. book.queue[i] \in Entry
  BY <1>1, <1>4
<1> QED
  BY <1>4, <1>5 DEF Queue, ToSet

(* The drain meets the budget.                                              *)
LEMMA DrainForBudgetKeeps ==
    ASSUME AdmissionInv, Candidates # {}, NEW i, i = FirstOf(Candidates), NEW q, q = book.queue[i],
           Save(FrozenForBudget(Taken(i), q.sess)),
           UNCHANGED <<runOf, turnOf, processes, launching, drain, spent, crossed>>,
           UNCHANGED <<undone, held, asked, epoch, paused, listening, nturn>>
    PROVE  AdmissionInv'
<1>1. Shaped /\ Apart /\ BooksFine
  BY DEF AdmissionInv
<1>2. i \in DOMAIN book.queue /\ q \in Entry /\ q.sess \in Agent
  BY <1>1, Drained DEF Entry
<1>3. PICK b : b = book
  OBVIOUS
<1>4. b \in RunBook /\ OneEntry(b) /\ i \in DOMAIN b.queue /\ q = b.queue[i]
  BY <1>1, <1>2, <1>3 DEF Shaped, BooksFine, Books, BookFine
<1>5. PICK c : c = [b EXCEPT !.queue = RemoveAt(@, i)]
  OBVIOUS
<1>6. /\ c \in RunBook /\ c.leases = b.leases /\ c.facts = b.facts /\ c.started = b.started
      /\ c.status = b.status /\ c.queue = RemoveAt(b.queue, i)
  <2>1. c.queue = RemoveAt(b.queue, i)
    BY <1>4, <1>5 DEF RunBook
  <2> QED
    BY <1>4, <1>5, <2>1, TakenIs
<1>7. PICK d : d = FrozenForBudget(c, q.sess)
  OBVIOUS
<1>8. /\ d \in RunBook /\ d.queue = c.queue /\ d.leases = c.leases /\ d.facts = c.facts
      /\ d.started = c.started
      /\ \A r \in Agent : d.status[r] = c.status[r] \/ c.status[r] = "pending"
  BY <1>2, <1>6, <1>7, FrozenIs
<1>9. book' = d /\ bookDisk' = book'
  BY <1>3, <1>5, <1>7 DEF Save, Taken
<1>10. /\ book'.queue = RemoveAt(book.queue, i) /\ book'.leases = book.leases
       /\ book'.facts = book.facts /\ book'.started = book.started
       /\ \A r \in Agent : book.status[r] = "killed" => book'.status[r] = "killed"
       /\ \A r \in Agent : book.status[r] = "running" => book'.status[r] \in {"running", "killed"}
  BY <1>3, <1>6, <1>8, <1>9
<1>11. AskedStay
  BY <1>1, Untouched
<1>12. Shaped'
  BY <1>1, <1>8, <1>9, ShapedKept DEF Shaped
<1>13. CalmStep /\ Accounts
  BY <1>2, <1>9, <1>10, <1>11, EntryGoes
<1> QED
  BY <1>12, <1>13, CalmKeeps

(* The provider of a queued turn does not start.                            *)
LEMMA DrainBreaksKeeps ==
    ASSUME AdmissionInv, Candidates # {}, NEW i, i = FirstOf(Candidates), NEW q, q = book.queue[i],
           turnOf' = [turnOf EXCEPT ![q.sess] = 0],
           crossed' = crossed \cup ({turnOf[q.sess]} \ {0}),
           Save(LaunchFailed(Taken(i), q.sess, q.turn, TRUE)),
           UNCHANGED <<runOf, processes, launching, drain>>,
           UNCHANGED <<undone, held, asked, epoch, paused, listening, nturn>>
    PROVE  AdmissionInv'
<1>1. Shaped /\ Apart /\ BooksFine
  BY DEF AdmissionInv
<1>2. /\ i \in DOMAIN book.queue /\ q \in Entry /\ q.sess \in Agent /\ q.turn \in Turn
      /\ book.status[q.sess] # "killed" /\ q \in Queue(book)
  BY <1>1, Drained DEF Entry, Eligible
<1>3. PICK b : b = book
  OBVIOUS
<1>4. /\ b \in RunBook /\ OneEntry(b) /\ i \in DOMAIN b.queue /\ q = b.queue[i]
      /\ Numbered(b, nturn) /\ WaitsOnce(b, crossed)
  BY <1>1, <1>2, <1>3 DEF Shaped, BooksFine, Books, BookFine
<1>5. PICK c : c = [b EXCEPT !.queue = RemoveAt(@, i)]
  OBVIOUS
<1>6. /\ c \in RunBook /\ c.leases = b.leases /\ c.facts = b.facts /\ c.started = b.started
      /\ c.status = b.status /\ Queue(c) = Queue(b) \ {q} /\ OneEntry(c)
      /\ QueuedTurns(c) = QueuedTurns(b) \ {q.turn}
  BY <1>4, <1>5, TakenIs
<1>7. PICK d : d = LaunchFailed(c, q.sess, q.turn, TRUE)
  OBVIOUS
<1>8. /\ d \in RunBook /\ d.queue = c.queue /\ d.facts = c.facts \cup {q.turn}
      /\ d.started = c.started /\ d.status = [c.status EXCEPT ![q.sess] = "failed"]
      /\ ActiveTurns(d) = ActiveTurns(c) \ {q.turn}
  <2>1. PICK n \in BOOLEAN : n = TRUE
    OBVIOUS
  <2>2. d = LaunchFailed(c, q.sess, q.turn, n)
    BY <1>7, <2>1
  <2>3. /\ d \in RunBook /\ d.queue = c.queue
        /\ d.facts = c.facts \cup (IF n THEN {q.turn} ELSE {})
        /\ d.started = c.started /\ d.status = [c.status EXCEPT ![q.sess] = "failed"]
        /\ ActiveTurns(d) = ActiveTurns(c) \ {q.turn}
    BY <1>2, <1>6, <2>2, LaunchFailedIs
  <2> QED
    BY <2>1, <2>3
<1>9. book' = d /\ bookDisk' = book'
  BY <1>3, <1>5, <1>7 DEF Save, Taken
<1>10. /\ Queue(d) = Queue(b) \ {q} /\ QueuedTurns(d) = QueuedTurns(b) \ {q.turn} /\ OneEntry(d)
  BY <1>6, <1>8 DEF Queue, QueuedTurns, OneEntry
<1>11. ActiveTurns(d) = ActiveTurns(b) \ {q.turn}
  BY <1>6, <1>8 DEF ActiveTurns
<1>12. q.turn \in QueuedTurns(b)
  BY <1>2, <1>3, QueuedIs
<1>13. Counted(d) = Counted(b)
  BY <1>6, <1>8, <1>10, <1>11, <1>12 DEF Counted
<1>14. BookStays
  BY <1>3, <1>4, <1>6, <1>8, <1>9, <1>10, <1>11, <1>13 DEF BookStays, Numbered
<1>15. /\ \A r \in Agent : turnOf'[r] = IF r = q.sess THEN 0 ELSE turnOf[r]
       /\ turnOf' \in [Agent -> Nat]
  BY <1>1, <1>2 DEF Shaped
<1>16. Fewer(turnOf', turnOf)
  BY <1>15 DEF Fewer
<1>17. CalmStep
  BY <1>1, <1>14, <1>16, Untouched DEF CalmStep
<1>18. \A u \in ActiveTurns(book) \ ActiveTurns(book') : u \in crossed'
  BY <1>2, <1>3, <1>4, <1>9, <1>11 DEF WaitsOnce
<1>19. ASSUME NEW u \in ActiveTurns(book'), InProgress(u) PROVE InProgress(u)' \/ u \in crossed'
  <2>1. u # 0
    BY <1>8, <1>9, <1>19, ActiveIs DEF Turn
  <2>2. \A r \in Agent : turnOf[r] = u => turnOf'[r] = u \/ u \in crossed'
    BY <1>15, <2>1
  <2> QED
    BY <1>19, <2>2 DEF InProgress
<1>20. \A r \in Agent : r # q.sess => book'.status[r] = book.status[r]
  BY <1>3, <1>6, <1>8, <1>9 DEF RunBook
<1>21. \A r \in Agent : Gone(r) => Gone(r)'
  <2> SUFFICES ASSUME NEW r \in Agent, Gone(r) PROVE Gone(r)'
    OBVIOUS
  <2>1. book'.status[r] = "killed"
    BY <1>2, <1>20 DEF Gone
  <2> QED
    BY <1>1, <2>1, GoneStays, Untouched
<1>22. \A r \in Agent : turnOf'[r] # 0 => book'.status[r] = book.status[r]
  BY <1>15, <1>20
<1>23. Accounts
  BY <1>3, <1>9, <1>13, <1>18, <1>19, <1>21, <1>22 DEF Accounts
<1>24. Shaped'
  BY <1>1, <1>8, <1>9, <1>15, ShapedKept DEF Shaped
<1> QED
  BY <1>17, <1>23, <1>24, CalmKeeps

(* A turn that starts, or is asked for, beside another of its session.      *)
LEMMA CrossesIs ==
    ASSUME NEW s, NEW t, Crosses(s, t)
    PROVE  /\ crossed \subseteq crossed'
           /\ turnOf[s] \notin {0, t} => {turnOf[s], t} \subseteq crossed'
           /\ \A l \in launching : l.sess = s /\ l.turn \notin {0, t} => {l.turn, t} \subseteq crossed'
<1>1. PICK others : others = ({turnOf[s]} \cup {l.turn : l \in {m \in launching : m.sess = s}}) \ {0, t}
  OBVIOUS
<1>2. crossed' = IF others = {} THEN crossed ELSE crossed \cup others \cup {t}
  BY <1>1 DEF Crosses
<1>3. turnOf[s] \notin {0, t} => turnOf[s] \in others
  BY <1>1
<1>4. \A l \in launching : l.sess = s /\ l.turn \notin {0, t} => l.turn \in others
  BY <1>1
<1> QED
  BY <1>2, <1>3, <1>4

(* The budget holds where nothing new counts.                               *)
LEMMA CapStays ==
    ASSUME NEW b \in RunBook, NEW c \in RunBook, NEW n \in Nat, NEW x, NEW y, x \subseteq y,
           BookFine(b, n, x), Counted(c) \subseteq Counted(b) \cup y
    PROVE  Cap(c, y)
<1>1. Counted(c) \ y \subseteq Counted(b) \ x /\ Counted(b) \ x \subseteq 1..n
  BY DEF BookFine, Numbered
<1>2. IsFiniteSet(Counted(b) \ x)
  BY <1>1, CountedIn
<1>3. /\ Cardinality(Counted(c) \ y) <= Cardinality(Counted(b) \ x)
      /\ Cardinality(Counted(c) \ y) \in Nat /\ Cardinality(Counted(b) \ x) \in Nat
  BY <1>1, <1>2, FS_Subset, FS_CardinalityType
<1>4. MaxTurns # 0 => Cardinality(Counted(b) \ x) <= MaxTurns
  BY DEF BookFine, Cap
<1>5. MaxTurns \in Nat
  BY AdmissionAssumption
<1> QED
  BY <1>3, <1>4, <1>5 DEF Cap

-----------------------------------------------------------------------------
(* A turn t of s starts: what the three places that start one have in       *)
(* common.                                                                  *)
StartsIn(s, t) ==
  /\ Launches(s, t)
  /\ bookDisk' = book' /\ (held' = held \/ held' = NoCmd) /\ AskedStay
  /\ launching' \subseteq launching
  /\ \A m \in launching \ launching' : m.sess = s /\ m.turn = t
  /\ \A m \in launching' : Commanded(m) => Open' /\ m.turn # t
  /\ \A m \in launching' : m.turn = t => t \in crossed
StartsBook(s, t) ==
  /\ Queue(book') \subseteq Queue(book)
  /\ t \in QueuedTurns(book') => t \in crossed
  /\ \A q \in Queue(book') : q.sess = s => q.turn \in crossed
  /\ t \in ActiveTurns(book') \cup crossed'
  /\ ActiveTurns(book) \subseteq ActiveTurns(book')
  /\ ActiveTurns(book') \subseteq ActiveTurns(book) \cup {t}
  /\ Counted(book) \subseteq Counted(book')
  /\ book'.started = [book.started EXCEPT ![s] = t]
  /\ \A r \in Agent : r # s => book'.status[r] = book.status[r]
  /\ book'.status[s] = "running" \/ t \in crossed
StartsFresh(s, t) ==
  /\ \A p \in processes : p.turn = t => t \in crossed
  /\ runOf[s] = 0 \/ runOf[s] \in crossed
  /\ ~Gone(s)
  /\ Open' => \A q \in Queue(held.saved) : q.sess = s => q.turn \in crossed \/ q.turn = t
  /\ Open => \A r \in Agent : held.saved.started[r] = t => t \in crossed
Starts(s, t) == StartsIn(s, t) /\ StartsBook(s, t) /\ StartsFresh(s, t)

Started(s, t) ==
  /\ \A r \in Agent : turnOf'[r] = (IF r = s THEN t ELSE turnOf[r])
  /\ \A r \in Agent : runOf'[r] = (IF r = s THEN t ELSE runOf[r])
  /\ \A r \in Agent : book'.started[r] = (IF r = s THEN t ELSE book.started[r])
  /\ \E n : n.turn = t /\ n.sess = s /\ n.doomed = FALSE /\ processes' = processes \cup {n}
  /\ crossed \subseteq crossed'
  /\ turnOf[s] \notin {0, t} => {turnOf[s], t} \subseteq crossed'
  /\ \A l \in launching : l.sess = s /\ l.turn \notin {0, t} => {l.turn, t} \subseteq crossed'
  /\ Open' => Open /\ held' = held

(* What that makes of the state.                                            *)
LEMMA StartedIs ==
    ASSUME Shaped, NEW s \in Agent, NEW t \in Turn, Starts(s, t)
    PROVE  Started(s, t)
<1>1. \A r \in Agent : turnOf'[r] = (IF r = s THEN t ELSE turnOf[r])
  BY DEF Starts, StartsIn, Launches, Shaped
<1>2. \A r \in Agent : runOf'[r] = (IF r = s THEN t ELSE runOf[r])
  BY DEF Starts, StartsIn, Launches, Shaped
<1>3. \A r \in Agent : book'.started[r] = (IF r = s THEN t ELSE book.started[r])
  BY DEF Starts, StartsBook, Shaped, RunBook
<1>4. PICK n : n = [turn |-> t, sess |-> s, doomed |-> FALSE]
  OBVIOUS
<1>5. n.turn = t /\ n.sess = s /\ n.doomed = FALSE /\ processes' = processes \cup {n}
  BY <1>4 DEF Starts, StartsIn, Launches
<1>6. Crosses(s, t)
  BY DEF Starts, StartsIn, Launches
<1>7. Open' => Open /\ held' = held
  BY DEF Starts, StartsIn, Open
<1> QED
  <2>1. /\ crossed \subseteq crossed'
        /\ turnOf[s] \notin {0, t} => {turnOf[s], t} \subseteq crossed'
        /\ \A l \in launching : l.sess = s /\ l.turn \notin {0, t} => {l.turn, t} \subseteq crossed'
    BY <1>6, CrossesIs
  <2> QED
    BY <1>1, <1>2, <1>3, <1>5, <1>7, <2>1 DEF Started

(* It names no turn but its own.                                            *)
LEMMA StartNames ==
    ASSUME Shaped, NEW s \in Agent, NEW t \in Turn, Starts(s, t)
    PROVE  \A u \in Turn, r \in Agent : Names(u, r)' => Names(u, r) \/ (u = t /\ r = s)
<1>0. Started(s, t)
  BY StartedIs
<1> SUFFICES ASSUME NEW u \in Turn, NEW r \in Agent, Names(u, r)', ~(u = t /\ r = s)
             PROVE  Names(u, r)
  OBVIOUS
<1>1. turnOf'[r] = u => turnOf[r] = u
  BY <1>0 DEF Started
<1>2. runOf'[r] = u => runOf[r] = u
  BY <1>0 DEF Started
<1>3. (\E l \in launching' : l.turn = u /\ l.sess = r) => \E l \in launching : l.turn = u /\ l.sess = r
  BY DEF Starts, StartsIn
<1>4. (\E p \in processes' : p.turn = u /\ p.sess = r) => \E p \in processes : p.turn = u /\ p.sess = r
  BY <1>0 DEF Started
<1>5. InBook(book', u, r) => InBook(book, u, r)
  BY <1>0 DEF InBook, Starts, StartsBook, Started
<1>6. \A b \in Books' : b = book' \/ b \in Books
  BY <1>0 DEF Books, Starts, StartsIn, Started
<1>7. (\E b \in Books' : InBook(b, u, r)) => \E b \in Books : InBook(b, u, r)
  BY <1>5, <1>6 DEF Books
<1> QED
  BY <1>1, <1>2, <1>3, <1>4, <1>7 DEF Names

(* The open command keeps its launch, unless it is the one that goes on.    *)
LEMMA StartApart ==
    ASSUME Shaped, Apart, NEW s \in Agent, NEW t \in Turn, Starts(s, t)
    PROVE  Apart'
<1>0. Started(s, t)
  BY StartedIs
<1>1. /\ launching' \subseteq launching
      /\ \A m \in launching' : Commanded(m) => Open' /\ m.turn # t
      /\ Queue(book') \subseteq Queue(book)
  BY DEF Starts, StartsIn, StartsBook
<1>2. \A l, m \in launching' : l.by = m.by => l = m
  BY <1>1 DEF Apart
<1>3. ASSUME NEW l \in launching', Commanded(l)
      PROVE  /\ Open' /\ ~l.stale
             /\ \A r \in Agent : l.turn \notin {turnOf'[r], runOf'[r]}
             /\ \A p \in processes' : p.turn # l.turn
             /\ \A m \in launching' : m # l => m.turn # l.turn
             /\ \A b \in {book', held'.saved} :
                   /\ l.turn \notin QueuedTurns(b)
                   /\ \A r \in Agent : b.started[r] # l.turn
             /\ l.turn \notin ActiveTurns(held'.saved)
  <2>1. l \in launching /\ l.turn # t /\ Open' /\ held' = held /\ Open
    BY <1>1, <1>3, <1>0 DEF Started
  <2>2. \A r \in Agent : l.turn \notin {turnOf'[r], runOf'[r]}
    BY <1>3, <2>1, <1>0 DEF Apart, Started
  <2>3. \A p \in processes' : p.turn # l.turn
    BY <1>3, <2>1, <1>0 DEF Apart, Started
  <2>4. l.turn \notin QueuedTurns(book') /\ \A r \in Agent : book'.started[r] # l.turn
    BY <1>1, <1>3, <2>1, <1>0, QueuedIs DEF Apart, Started
  <2>5. /\ l.turn \notin QueuedTurns(held.saved) /\ \A r \in Agent : held.saved.started[r] # l.turn
        /\ l.turn \notin ActiveTurns(held.saved) /\ ~l.stale
        /\ \A m \in launching : m # l => m.turn # l.turn
    BY <1>3, <2>1 DEF Apart
  <2> QED
    BY <1>1, <2>1, <2>2, <2>3, <2>4, <2>5
<1> QED
  BY <1>2, <1>3 DEF Apart

(* Launches of the session have crossed the turn.                           *)
LEMMA StartMeets ==
    ASSUME Shaped, Meets, NEW s \in Agent, NEW t \in Turn, Starts(s, t)
    PROVE  Meets'
<1>0. Started(s, t)
  BY StartedIs
<1> SUFFICES ASSUME NEW l \in launching'
             PROVE  /\ runOf'[l.sess] # 0 => {runOf'[l.sess], l.turn} \subseteq crossed'
                    /\ turnOf'[l.sess] # 0 => {turnOf'[l.sess], l.turn} \subseteq crossed'
                    /\ \A m \in launching' : m.sess = l.sess /\ m # l => l.turn \in crossed'
                    /\ l.stale => l.turn \in crossed'
  BY DEF Meets
<1>1. /\ l \in launching /\ launching' \subseteq launching /\ crossed \subseteq crossed'
      /\ l.sess \in Agent /\ l.turn # 0
  BY <1>0 DEF Starts, StartsIn, Shaped, Launch, Turn, Started
<1>2. CASE l.sess # s
  BY <1>1, <1>2, <1>0 DEF Meets, Started
<1>3. CASE l.sess = s
  <2>1. {t, l.turn} \subseteq crossed'
    <3>1. CASE l.turn = t
      BY <1>1, <3>1 DEF Starts, StartsIn
    <3>2. CASE l.turn # t
      BY <1>1, <1>3, <3>2, <1>0 DEF Started
    <3> QED
      BY <3>1, <3>2
  <2> QED
    BY <1>3, <2>1, <1>0 DEF Started
<1> QED
  BY <1>2, <1>3

(* Who waits is not busy.                                                   *)
LEMMA StartWaiting ==
    ASSUME Shaped, Meets, Waiting, NEW s \in Agent, NEW t \in Turn, Starts(s, t)
    PROVE  Waiting'
<1>0. Started(s, t)
  BY StartedIs
<1>1. /\ launching' \subseteq launching /\ crossed \subseteq crossed'
      /\ \A m \in launching \ launching' : m.sess = s
      /\ Queue(book') \subseteq Queue(book)
      /\ \A q \in Queue(book') : q.sess = s => q.turn \in crossed
      /\ Open' => Open /\ held' = held
      /\ Open' => \A q \in Queue(held.saved) : q.sess = s => q.turn \in crossed \/ q.turn = t
  BY <1>0 DEF Starts, StartsIn, StartsBook, StartsFresh, Started
<1>2. \A r \in Agent : r # s /\ Busy(r)' => Busy(r)
  BY <1>1, <1>0 DEF Busy, Started
<1>3. \A r \in Agent : \A u : r # s /\ Doing(r, u) => Doing(r, u)'
  BY <1>1, <1>0 DEF Doing, Started
<1>4. ASSUME NEW q \in Queue(book'), Busy(q.sess)' PROVE q.turn \in crossed'
  <2>1. q \in Queue(book) /\ q.sess \in Agent
    BY <1>1, <1>4, EntryIn DEF Shaped
  <2> QED
    BY <1>1, <1>2, <1>4, <2>1 DEF Waiting
<1>5. ASSUME Open', NEW q \in Queue(held'.saved), Busy(q.sess)'
      PROVE  q.turn \in crossed' \/ Doing(q.sess, q.turn)'
  <2>1. Open /\ q \in Queue(held.saved)
    BY <1>1, <1>5
  <2>2. q.sess \in Agent
    BY <2>1, EntryIn DEF Shaped
  <2>3. CASE q.sess = s
    <3>1. Doing(s, t)'
      BY <1>0 DEF Doing, Started
    <3> QED
      BY <1>1, <1>5, <2>1, <2>3, <3>1
  <2>4. CASE q.sess # s
    BY <1>1, <1>2, <1>3, <1>5, <2>1, <2>2, <2>4 DEF Waiting
  <2> QED
    BY <2>3, <2>4
<1>6. Open' => Queue(book') \subseteq Queue(held'.saved)
  BY <1>1 DEF Waiting
<1>7. ASSUME Open', NEW q \in Queue(held'.saved), q.sess \in held'.before PROVE q.turn \in crossed'
  BY <1>1, <1>7 DEF Waiting
<1> QED
  BY <1>4, <1>5, <1>6, <1>7 DEF Waiting

(* The new process is the run of its session.                               *)
LEMMA StartLives ==
    ASSUME Shaped, Lives, NEW s \in Agent, NEW t \in Turn, Starts(s, t)
    PROVE  Lives'
<1>0. Started(s, t)
  BY StartedIs
<1>1. PICK n : /\ n.turn = t /\ n.sess = s /\ n.doomed = FALSE
               /\ processes' = processes \cup {n}
  BY <1>0 DEF Started
<1>2. /\ launching' \subseteq launching /\ crossed \subseteq crossed'
      /\ \A m \in launching' : m.turn = t => t \in crossed
      /\ t \in QueuedTurns(book') => t \in crossed
      /\ \A u : u \in QueuedTurns(book') => u \in QueuedTurns(book)
      /\ \A p \in processes : p.turn = t => t \in crossed
      /\ Open' => Open /\ held' = held
      /\ runOf[s] = 0 \/ runOf[s] \in crossed
  BY <1>0, QueuedIs DEF Starts, StartsIn, StartsBook, StartsFresh, Started
<1> SUFFICES ASSUME NEW p \in processes', p.turn \notin crossed'
             PROVE  /\ p.turn \notin QueuedTurns(book')
                    /\ \A l \in launching' : l.turn # p.turn
                    /\ Open' /\ p.turn \in QueuedTurns(held'.saved) => runOf'[p.sess] = p.turn
                    /\ \A r \in processes' : r.turn = p.turn => r = p
                    /\ ~p.doomed => runOf'[p.sess] = p.turn
  BY DEF Lives
<1>3. CASE p = n
  BY <1>1, <1>2, <1>3, <1>0 DEF Started
<1>4. CASE p # n
  <2>1. p \in processes /\ p.turn # t /\ p.turn # 0 /\ p.sess \in Agent
    BY <1>1, <1>2, <1>4 DEF Shaped, Process, Turn
  <2>2. /\ p.turn \notin QueuedTurns(book)
        /\ \A l \in launching : l.turn # p.turn
        /\ Open /\ p.turn \in QueuedTurns(held.saved) => runOf[p.sess] = p.turn
        /\ \A r \in processes : r.turn = p.turn => r = p
        /\ ~p.doomed => runOf[p.sess] = p.turn
    BY <1>2, <2>1 DEF Lives
  <2>3. runOf[p.sess] = p.turn => runOf'[p.sess] = p.turn
    BY <1>2, <2>1, <1>0 DEF Started
  <2> QED
    BY <1>1, <1>2, <2>1, <2>2, <2>3
<1> QED
  BY <1>3, <1>4

(* The turn has its lease.                                                  *)
LEMMA StartLeasing ==
    ASSUME Shaped, Shaped', Leasing, NEW s \in Agent, NEW t \in Turn, Starts(s, t)
    PROVE  Leasing'
<1>0. Started(s, t)
  BY StartedIs
<1>1. /\ launching' \subseteq launching /\ crossed \subseteq crossed'
      /\ \A m \in launching \ launching' : m.turn = t
      /\ t \in ActiveTurns(book') \cup crossed'
      /\ ActiveTurns(book) \subseteq ActiveTurns(book')
      /\ ActiveTurns(book') \subseteq ActiveTurns(book) \cup {t}
  BY <1>0 DEF Starts, StartsIn, StartsBook, Started
<1>2. ASSUME NEW r \in Agent, turnOf'[r] # 0
      PROVE  turnOf'[r] \in ActiveTurns(book') \cup crossed'
  <2>1. turnOf'[r] = t \/ turnOf'[r] = turnOf[r]
    BY <1>0 DEF Started
  <2> QED
    BY <1>1, <1>2, <2>1 DEF Leasing, LeasesMatchTurns
<1>3. ASSUME NEW u \in ActiveTurns(book'), u \notin crossed' PROVE InProgress(u)'
  <2>1. turnOf'[s] = t
    BY <1>0 DEF Started
  <2>2. CASE u = t
    BY <2>1, <2>2 DEF InProgress
  <2>3. CASE u # t
    <3>1. u \in ActiveTurns(book) /\ u # 0
      <4>1. book' \in RunBook
        BY DEF Shaped
      <4> QED
        BY <1>1, <1>3, <2>3, <4>1, ActiveIs DEF Turn
    <3>2. InProgress(u)
      BY <1>1, <1>3, <3>1 DEF Leasing, LeasesMatchTurns
    <3>3. ASSUME NEW r \in Agent, turnOf[r] = u PROVE turnOf'[r] = u
      <4>1. r # s
        BY <1>3, <2>3, <3>1, <3>3, <1>0 DEF Started
      <4> QED
        BY <3>3, <4>1, <1>0 DEF Started
    <3>4. \A l \in launching : l.turn = u => l \in launching'
      BY <1>1, <2>3
    <3> QED
      BY <3>2, <3>3, <3>4 DEF InProgress
  <2> QED
    BY <2>2, <2>3
<1>4. \A l \in launching' : l.turn \in ActiveTurns(book') \cup crossed'
  BY <1>1 DEF Leasing
<1> QED
  BY <1>2, <1>3, <1>4 DEF Leasing, LeasesMatchTurns

(* It is the last turn of its session.                                      *)
LEMMA StartRemembered ==
    ASSUME Shaped, Remembered, NEW s \in Agent, NEW t \in Turn, Starts(s, t)
    PROVE  Remembered'
<1>0. Started(s, t)
  BY StartedIs
<1>1. /\ launching' \subseteq launching /\ crossed \subseteq crossed'
      /\ \A m \in launching' : m.turn = t => t \in crossed
      /\ t \in QueuedTurns(book') => t \in crossed
      /\ \A u : u \in QueuedTurns(book') => u \in QueuedTurns(book)
      /\ t \in ActiveTurns(book') \cup crossed'
      /\ Counted(book) \subseteq Counted(book')
      /\ \A r \in Agent : r # s => book'.status[r] = book.status[r]
      /\ book'.status[s] = "running" \/ t \in crossed
      /\ ~Gone(s) /\ AskedStay
      /\ Open' => Open /\ held' = held
      /\ Open => \A r \in Agent : held.saved.started[r] = t => t \in crossed
  BY <1>0, QueuedIs DEF Starts, StartsIn, StartsBook, StartsFresh, Started
<1>2. \A r \in Agent : Gone(r) => Gone(r)'
  <2> SUFFICES ASSUME NEW r \in Agent, Gone(r) PROVE Gone(r)'
    OBVIOUS
  <2>1. book'.status[r] = "killed" /\ book.status[r] = "killed"
    BY <1>1 DEF Gone
  <2> QED
    BY <1>1, <2>1 DEF Gone, AskedStay
<1>3. Remembers(book)
  BY DEF Remembered
<1>4. LastCounts(book)'
  <2> SUFFICES ASSUME NEW r \in Agent, book'.started[r] # 0
               PROVE  \/ book'.started[r] \in Counted(book') \cup crossed'
                      \/ book'.status[r] = "killed" /\ Gone(r)'
    BY DEF LastCounts
  <2>1. CASE r = s
    BY <1>1, <2>1, <1>0 DEF Counted, Started
  <2>2. CASE r # s
    BY <1>1, <1>2, <1>3, <2>2, <1>0 DEF Remembers, LastCounts, Started
  <2> QED
    BY <2>1, <2>2
<1>5. Runs(book)'
  BY <1>1, <1>3, <1>0 DEF Remembers, Runs, Started
<1>6. StartsOnce(book)'
  BY <1>1, <1>3, <1>0 DEF Remembers, StartsOnce, Started
<1>7. ASSUME Open' PROVE Remembers(held.saved)'
  <2>1. PICK b : b = held.saved
    OBVIOUS
  <2>2. Remembers(b) /\ Open /\ held'.saved = b
    BY <1>1, <1>7, <2>1 DEF Remembered
  <2>3. LastCounts(b)'
    BY <1>1, <1>2, <2>2 DEF Remembers, LastCounts
  <2>4. Runs(b)'
    BY <1>1, <2>1, <2>2, <1>0 DEF Remembers, Runs, Started
  <2>5. StartsOnce(b)'
    BY <1>1, <2>2 DEF Remembers, StartsOnce
  <2> QED
    BY <2>2, <2>3, <2>4, <2>5 DEF Remembers, LastCounts, Runs, StartsOnce
<1> QED
  BY <1>4, <1>5, <1>6, <1>7 DEF Remembered, Remembers

(* The start of a turn keeps the invariant.                                 *)
LEMMA StartKeeps ==
    ASSUME AdmissionInv, NEW s \in Agent, NEW t \in Turn, Starts(s, t), Shaped', Owned',
           nturn <= nturn', BookFine(book', nturn', crossed')
    PROVE  AdmissionInv'
<1>0. Started(s, t)
  BY StartedIs DEF AdmissionInv
<1>1. crossed \subseteq crossed' /\ bookDisk' = book' /\ (held' = held \/ held' = NoCmd)
      /\ nturn' \in Nat /\ Shaped
  BY <1>0 DEF Starts, StartsIn, AdmissionInv, Shaped, Started
<1>2. BooksFine'
  BY <1>1, BooksStay DEF AdmissionInv
<1>3. OneTurn'
  BY <1>1, <1>0 DEF OneTurn, AdmissionInv, Started
<1>4. Apart' /\ Meets' /\ Waiting' /\ Lives' /\ Leasing' /\ Remembered'
  BY StartApart, StartMeets, StartWaiting, StartLives, StartLeasing, StartRemembered
     DEF AdmissionInv
<1>5. DiskRecovers'
  BY <1>1, <1>4, RowRecovers DEF AdmissionInv
<1> QED
  BY <1>2, <1>3, <1>4, <1>5 DEF AdmissionInv

-----------------------------------------------------------------------------
(* A turn t of s awaits the socket: what the two places that wait have in   *)
(* common.                                                                  *)
AwaitsIn(s, t, who) ==
  /\ Awaits(s, t, who)
  /\ bookDisk' = bookDisk /\ runOf' = runOf /\ turnOf' = turnOf /\ processes' = processes
  /\ asked' = asked
  /\ (held' = held \/ (~Open /\ Open' /\ held'.saved = book))
AwaitsBook(s, t) ==
  /\ Queue(book') \subseteq Queue(book)
  /\ t \in ActiveTurns(book')
  /\ ActiveTurns(book) \subseteq ActiveTurns(book')
  /\ ActiveTurns(book') \subseteq ActiveTurns(book) \cup {t}
  /\ Counted(book) \subseteq Counted(book')
  /\ book'.started = book.started
  /\ \A r \in Agent : r # s => book'.status[r] = book.status[r]
AwaitsFresh(s, t) ==
  /\ \A p \in processes : p.turn = t => t \in crossed
  /\ runOf[s] = 0
  /\ turnOf[s] = t => t \in crossed
  /\ \A m \in launching : m.turn = t => t \in crossed
  /\ ~Gone(s)
  /\ \A r \in Agent : book.started[r] = t => t \in crossed
  /\ Open => \A r \in Agent : held.saved.started[r] = t => t \in crossed
Waits(s, t, who) == AwaitsIn(s, t, who) /\ AwaitsBook(s, t) /\ AwaitsFresh(s, t)

Awaited(s, t, who) ==
  /\ \E n : /\ n.sess = s /\ n.turn = t /\ n.by = who /\ ~n.stale
            /\ launching' = launching \cup {n}
  /\ crossed \subseteq crossed'
  /\ turnOf[s] \notin {0, t} => {turnOf[s], t} \subseteq crossed'
  /\ \A l \in launching : l.sess = s /\ l.turn \notin {0, t} => {l.turn, t} \subseteq crossed'

(* What that makes of the state.                                            *)
LEMMA AwaitedIs ==
    ASSUME NEW s \in Agent, NEW t \in Turn, NEW who, Waits(s, t, who)
    PROVE  Awaited(s, t, who)
<1>1. PICK n : n = [sess |-> s, turn |-> t, by |-> who, aborted |-> FALSE, stale |-> FALSE]
  OBVIOUS
<1>2. /\ n.sess = s /\ n.turn = t /\ n.by = who /\ ~n.stale
      /\ launching' = launching \cup {n} /\ Crosses(s, t)
  BY <1>1 DEF Waits, AwaitsIn, Awaits
<1>3. /\ crossed \subseteq crossed'
      /\ turnOf[s] \notin {0, t} => {turnOf[s], t} \subseteq crossed'
      /\ \A l \in launching : l.sess = s /\ l.turn \notin {0, t} => {l.turn, t} \subseteq crossed'
  BY <1>2, CrossesIs
<1> QED
  BY <1>2, <1>3 DEF Awaited

(* Launches of the session cross each other.                                *)
LEMMA AwaitMeets ==
    ASSUME Shaped, Meets, NEW s \in Agent, NEW t \in Turn, NEW who, Waits(s, t, who)
    PROVE  Meets'
<1>0. Awaited(s, t, who)
  BY AwaitedIs
<1>1. PICK n : /\ n.sess = s /\ n.turn = t /\ n.by = who /\ ~n.stale
               /\ launching' = launching \cup {n}
  BY <1>0 DEF Awaited
<1>2. /\ runOf' = runOf /\ turnOf' = turnOf /\ crossed \subseteq crossed' /\ runOf[s] = 0
      /\ turnOf[s] # 0 => {turnOf[s], t} \subseteq crossed'
      /\ \A l \in launching : l.sess = s => {l.turn, t} \subseteq crossed'
  <2>1. \A l \in launching : l.turn # 0
    BY DEF Shaped, Launch, Turn
  <2> QED
    BY <1>0, <2>1 DEF Awaited, Waits, AwaitsIn, AwaitsFresh
<1> SUFFICES ASSUME NEW l \in launching'
             PROVE  /\ runOf[l.sess] # 0 => {runOf[l.sess], l.turn} \subseteq crossed'
                    /\ turnOf[l.sess] # 0 => {turnOf[l.sess], l.turn} \subseteq crossed'
                    /\ \A m \in launching' : m.sess = l.sess /\ m # l => l.turn \in crossed'
                    /\ l.stale => l.turn \in crossed'
  BY <1>2 DEF Meets
<1>3. CASE l = n
  BY <1>1, <1>2, <1>3
<1>4. CASE l # n
  <2>1. l \in launching
    BY <1>1, <1>4
  <2>2. ASSUME NEW m \in launching', m.sess = l.sess, m # l PROVE l.turn \in crossed'
    BY <1>1, <1>2, <2>1, <2>2 DEF Meets
  <2> QED
    BY <1>2, <2>1, <2>2 DEF Meets
<1> QED
  BY <1>3, <1>4

(* No process has the turn.                                                 *)
LEMMA AwaitLives ==
    ASSUME Shaped, Lives, NEW s \in Agent, NEW t \in Turn, NEW who, Waits(s, t, who)
    PROVE  Lives'
<1>0. Awaited(s, t, who)
  BY AwaitedIs
<1>1. PICK n : n.turn = t /\ launching' = launching \cup {n}
  BY <1>0 DEF Awaited
<1>2. /\ runOf' = runOf /\ crossed \subseteq crossed' /\ processes' = processes
      /\ \A u : u \in QueuedTurns(book') => u \in QueuedTurns(book)
      /\ \A p \in processes : p.turn = t => t \in crossed
      /\ (held' = held \/ (~Open /\ Open' /\ held'.saved = book))
  BY <1>0, QueuedIs DEF Awaited, Waits, AwaitsIn, AwaitsBook, AwaitsFresh
<1> SUFFICES ASSUME NEW p \in processes, p.turn \notin crossed'
             PROVE  /\ p.turn \notin QueuedTurns(book')
                    /\ \A l \in launching' : l.turn # p.turn
                    /\ Open' /\ p.turn \in QueuedTurns(held'.saved) => runOf[p.sess] = p.turn
                    /\ \A r \in processes : r.turn = p.turn => r = p
                    /\ ~p.doomed => runOf[p.sess] = p.turn
  BY <1>2 DEF Lives
<1>3. /\ p.turn \notin QueuedTurns(book)
      /\ \A l \in launching : l.turn # p.turn
      /\ Open /\ p.turn \in QueuedTurns(held.saved) => runOf[p.sess] = p.turn
      /\ \A r \in processes : r.turn = p.turn => r = p
      /\ ~p.doomed => runOf[p.sess] = p.turn
  BY <1>2 DEF Lives
<1>4. p.turn # t
  BY <1>2
<1> QED
  BY <1>1, <1>2, <1>3, <1>4 DEF Open

(* The launch has its lease.                                                *)
LEMMA AwaitLeasing ==
    ASSUME Leasing, NEW s \in Agent, NEW t \in Turn, NEW who, Waits(s, t, who)
    PROVE  Leasing'
<1>0. Awaited(s, t, who)
  BY AwaitedIs
<1>1. PICK n : n.turn = t /\ launching' = launching \cup {n}
  BY <1>0 DEF Awaited
<1>2. /\ turnOf' = turnOf /\ crossed \subseteq crossed'
      /\ t \in ActiveTurns(book')
      /\ ActiveTurns(book) \subseteq ActiveTurns(book')
      /\ ActiveTurns(book') \subseteq ActiveTurns(book) \cup {t}
  BY <1>0 DEF Awaited, Waits, AwaitsIn, AwaitsBook
<1>3. \A r \in Agent : turnOf'[r] # 0 => turnOf'[r] \in ActiveTurns(book') \cup crossed'
  BY <1>2 DEF Leasing, LeasesMatchTurns
<1>4. \A u \in ActiveTurns(book') : InProgress(u)' \/ u \in crossed'
  BY <1>1, <1>2 DEF Leasing, LeasesMatchTurns, InProgress
<1>5. \A l \in launching' : l.turn \in ActiveTurns(book') \cup crossed'
  BY <1>1, <1>2 DEF Leasing
<1> QED
  BY <1>3, <1>4, <1>5 DEF Leasing, LeasesMatchTurns

(* The last turns are still accounted for.                                  *)
LEMMA AwaitRemembered ==
    ASSUME Shaped, Remembered, NEW s \in Agent, NEW t \in Turn, NEW who, Waits(s, t, who)
    PROVE  Remembered'
<1>0. Awaited(s, t, who)
  BY AwaitedIs
<1>1. PICK n : n.turn = t /\ n.sess = s /\ launching' = launching \cup {n}
  BY <1>0 DEF Awaited
<1>2. /\ turnOf' = turnOf /\ crossed \subseteq crossed' /\ asked' = asked
      /\ turnOf[s] # 0 => turnOf[s] \in crossed'
      /\ \A u : u \in QueuedTurns(book') => u \in QueuedTurns(book)
      /\ Counted(book) \subseteq Counted(book')
      /\ book'.started = book.started
      /\ \A r \in Agent : r # s => book'.status[r] = book.status[r]
      /\ ~Gone(s)
      /\ \A r \in Agent : book.started[r] = t => t \in crossed
      /\ Open => \A r \in Agent : held.saved.started[r] = t => t \in crossed
      /\ (held' = held \/ (~Open /\ Open' /\ held'.saved = book))
  BY <1>0, QueuedIs DEF Awaited, Waits, AwaitsIn, AwaitsBook, AwaitsFresh
<1>3. \A r \in Agent : Gone(r) => r # s /\ Gone(r)'
  <2> SUFFICES ASSUME NEW r \in Agent, Gone(r) PROVE r # s /\ Gone(r)'
    OBVIOUS
  <2>1. r # s
    BY <1>2
  <2>2. book'.status[r] = "killed"
    BY <1>2, <2>1 DEF Gone
  <2> QED
    BY <1>1, <1>2, <2>1, <2>2 DEF Gone
<1>4. ASSUME NEW b, Remembers(b), \A r \in Agent : b.started[r] = t => t \in crossed
      PROVE  /\ \A r \in Agent : b.started[r] # 0 =>
                   \/ b.started[r] \in Counted(b) \cup crossed'
                   \/ b.status[r] = "killed" /\ r # s /\ Gone(r)'
             /\ \A r \in Agent : b.started[r] # 0 /\ b.started[r] = turnOf'[r] =>
                   turnOf'[r] \in crossed' \/ (r # s /\ b.status[r] \in {"running", "killed"})
             /\ \A r \in Agent :
                  /\ \A l \in launching' : l.turn = b.started[r] => l.turn \in crossed'
                  /\ b.started[r] \in QueuedTurns(book') => b.started[r] \in crossed'
  <2>1. \A r \in Agent : b.started[r] # 0 =>
          \/ b.started[r] \in Counted(b) \cup crossed'
          \/ b.status[r] = "killed" /\ r # s /\ Gone(r)'
    BY <1>2, <1>3, <1>4 DEF Remembers, LastCounts
  <2>2. \A r \in Agent : b.started[r] # 0 /\ b.started[r] = turnOf'[r] =>
          turnOf'[r] \in crossed' \/ (r # s /\ b.status[r] \in {"running", "killed"})
    BY <1>2, <1>4 DEF Remembers, Runs
  <2>3. \A r \in Agent :
          /\ \A l \in launching' : l.turn = b.started[r] => l.turn \in crossed'
          /\ b.started[r] \in QueuedTurns(book') => b.started[r] \in crossed'
    BY <1>1, <1>2, <1>4 DEF Remembers, StartsOnce
  <2> QED
    BY <2>1, <2>2, <2>3
<1>5. ASSUME NEW b, Remembers(b), \A r \in Agent : b.started[r] = t => t \in crossed
      PROVE  LastCounts(b)' /\ Runs(b)' /\ StartsOnce(b)'
  BY <1>4, <1>5 DEF LastCounts, Runs, StartsOnce
<1>6. Remembers(book)'
  <2>1. PICK b : b = book
    OBVIOUS
  <2>2. Remembers(b) /\ \A r \in Agent : b.started[r] = t => t \in crossed
    BY <1>2, <2>1 DEF Remembered
  <2>3. /\ \A r \in Agent : b.started[r] # 0 =>
              \/ b.started[r] \in Counted(b) \cup crossed'
              \/ b.status[r] = "killed" /\ r # s /\ Gone(r)'
        /\ \A r \in Agent : b.started[r] # 0 /\ b.started[r] = turnOf'[r] =>
              turnOf'[r] \in crossed' \/ (r # s /\ b.status[r] \in {"running", "killed"})
        /\ StartsOnce(b)'
    BY <1>4, <2>2 DEF StartsOnce
  <2>4. book'.started = b.started /\ Counted(b) \subseteq Counted(book')
    BY <1>2, <2>1
  <2>5. \A r \in Agent : r # s => book'.status[r] = b.status[r]
    BY <1>2, <2>1
  <2>6. LastCounts(book)'
    BY <2>3, <2>4, <2>5 DEF LastCounts
  <2>7. Runs(book)'
    BY <2>3, <2>4, <2>5 DEF Runs
  <2>8. StartsOnce(book)'
    BY <2>3, <2>4 DEF StartsOnce
  <2> QED
    BY <2>6, <2>7, <2>8 DEF Remembers
<1>7. ASSUME Open' PROVE Remembers(held.saved)'
  <2>1. PICK b : b = held'.saved
    OBVIOUS
  <2>2. b = book \/ (Open /\ b = held.saved)
    BY <1>2, <1>7, <2>1 DEF Open
  <2>3. Remembers(b) /\ \A r \in Agent : b.started[r] = t => t \in crossed
    BY <1>2, <2>2 DEF Remembered
  <2>4. LastCounts(b)' /\ Runs(b)' /\ StartsOnce(b)'
    BY <1>5, <2>3
  <2> QED
    BY <2>1, <2>4 DEF Remembers, LastCounts, Runs, StartsOnce
<1> QED
  BY <1>6, <1>7 DEF Remembered

(* A launch that waits keeps the invariant.                                 *)
LEMMA AwaitKeeps ==
    ASSUME AdmissionInv, NEW s \in Agent, NEW t \in Turn, NEW who, Waits(s, t, who), Shaped',
           Owned', Apart', Waiting', nturn <= nturn', BookFine(book', nturn', crossed')
    PROVE  AdmissionInv'
<1>0. Awaited(s, t, who)
  BY AwaitedIs
<1>1. /\ crossed \subseteq crossed' /\ bookDisk' = bookDisk /\ nturn' \in Nat /\ Shaped
      /\ (held' = held \/ held' = NoCmd \/ held'.saved = book)
      /\ runOf' = runOf /\ turnOf' = turnOf
  BY <1>0 DEF Awaited, Waits, AwaitsIn, AdmissionInv, Shaped
<1>2. BooksFine'
  BY <1>1, BooksStay DEF AdmissionInv
<1>3. OneTurn'
  BY <1>1 DEF OneTurn, AdmissionInv
<1>4. Meets' /\ Lives' /\ Leasing' /\ Remembered'
  BY AwaitMeets, AwaitLives, AwaitLeasing, AwaitRemembered DEF AdmissionInv
<1>5. DiskRecovers'
  BY <1>1 DEF DiskRecovers, Recovers, AdmissionInv
<1> QED
  BY <1>2, <1>3, <1>4, <1>5 DEF AdmissionInv

(* The next number is of no turn yet.                                       *)
IsNew(t) ==
  /\ t \in Turn /\ t = nturn + 1
  /\ \A s \in Agent : turnOf[s] # t /\ runOf[s] # t /\ book.started[s] # t
  /\ \A l \in launching : l.turn # t
  /\ \A p \in processes : p.turn # t
  /\ t \notin Counted(book) /\ t \notin QueuedTurns(book) /\ t \notin ActiveTurns(book)

(* The next number is new.                                                  *)
LEMMA NextIsNew == ASSUME AdmissionInv, NEW t, t = nturn + 1 PROVE IsNew(t)
<1>1. nturn \in Nat /\ Shaped /\ Owned
  BY DEF AdmissionInv, Shaped
<1>2. t \in Turn /\ ~(t <= nturn)
  BY <1>1 DEF Turn
<1>3. \A s \in Agent : ~Names(t, s)
  BY <1>1, <1>2 DEF Owned
<1>4. \A s \in Agent : turnOf[s] # t /\ runOf[s] # t /\ book.started[s] # t
  <2>1. book \in Books
    BY DEF Books
  <2> QED
    BY <1>3, <2>1 DEF Names, InBook
<1>5. \A l \in launching : l.turn # t
  BY <1>1, <1>3 DEF Names, Shaped, Launch
<1>6. \A p \in processes : p.turn # t
  BY <1>1, <1>3 DEF Names, Shaped, Process
<1>7. t \notin Counted(book)
  <2>1. Numbered(book, nturn)
    BY DEF AdmissionInv, BooksFine, Books, BookFine
  <2> QED
    BY <1>1, <1>2, <2>1 DEF Numbered
<1>8. t \notin QueuedTurns(book) /\ t \notin ActiveTurns(book)
  BY <1>7 DEF Counted
<1> QED
  BY <1>2, <1>4, <1>5, <1>6, <1>7, <1>8 DEF IsNew

(* Types after a start.                                                     *)
LEMMA LaunchesTypes ==
    ASSUME Shaped, NEW s \in Agent, NEW t \in Turn, Launches(s, t)
    PROVE  /\ runOf' \in [Agent -> Nat] /\ turnOf' \in [Agent -> Nat]
           /\ processes' \subseteq Process /\ crossed \subseteq crossed'
<1>1. t \in Nat
  BY DEF Turn
<1>2. runOf' \in [Agent -> Nat] /\ turnOf' \in [Agent -> Nat]
  BY <1>1 DEF Launches, Shaped
<1>3. [turn |-> t, sess |-> s, doomed |-> FALSE] \in Process
  BY DEF Process
<1>4. processes' \subseteq Process
  BY <1>3 DEF Launches, Shaped
<1>5. crossed \subseteq crossed'
  BY CrossesIs DEF Launches
<1> QED
  BY <1>2, <1>4, <1>5

(* A queue entry of a session that may start a turn there is not.           *)
LEMMA MayIs ==
    ASSUME AdmissionInv, Starting("activate"), MayStart(Head(asked)), NEW s, s = Head(asked).sess
    PROVE  /\ s \in Agent /\ runOf[s] = 0 /\ ~Gone(s) /\ book.status[s] # "killed"
           /\ \A q \in Queue(book) : q.sess # s
           /\ ~BudgetExceeded(book, 0)
           /\ ~Open /\ \A l \in launching : ~Commanded(l)
<1>1. s \in Agent /\ held = NoCmd
  BY Began DEF AdmissionInv
<1>2. /\ runOf[s] = 0 /\ book.status[s] # "killed" /\ ~BudgetExceeded(book, 0)
      /\ \A q \in Queue(book) : q.sess # s
  BY DEF MayStart, Runnable, Queue
<1>3. ~Open /\ \A l \in launching : ~Commanded(l)
  BY <1>1 DEF AdmissionInv, Apart, Open
<1> QED
  BY <1>1, <1>2, <1>3 DEF Gone

(* An activation launches at once.                                          *)
LEMMA LaunchNowKeeps == ASSUME AdmissionInv, LaunchNow PROVE AdmissionInv'
<1>0. PICK c0 : c0 = Head(asked)
  OBVIOUS
<1>1. PICK s : s = Head(asked).sess
  OBVIOUS
<1>2. PICK t : t = nturn + 1
  OBVIOUS
<1>3. IsNew(t) /\ t \in Turn
  BY <1>2, NextIsNew DEF IsNew
<1>4. /\ MayStart(c0) /\ Launches(s, t) /\ nturn' = t
      /\ Commits(c0, Running(Leased(book, s, t), s, t), drain)
      /\ launching' = launching
  BY <1>0, <1>1, <1>2 DEF LaunchNow
<1>5. /\ s \in Agent /\ runOf[s] = 0 /\ ~Gone(s) /\ book.status[s] # "killed"
      /\ \A q \in Queue(book) : q.sess # s
      /\ ~BudgetExceeded(book, 0)
      /\ ~Open /\ \A l \in launching : ~Commanded(l)
  BY <1>0, <1>1, <1>4, MayIs DEF LaunchNow
<1>6. PICK b : b = book
  OBVIOUS
<1>7. PICK c : c = Leased(b, s, t)
  OBVIOUS
<1>8. PICK d : d = Running(c, s, t)
  OBVIOUS
<1>9. /\ book' = d /\ bookDisk' = book' /\ held' = held /\ epoch' = epoch /\ asked' = Tail(asked)
  <2>1. held = NoCmd
    BY <1>5 DEF Open
  <2> QED
    BY <1>4, <1>6, <1>7, <1>8, <2>1 DEF Commits, Save
<1>10. b \in RunBook /\ BookFine(b, nturn, crossed) /\ nturn \in Nat /\ Shaped
  BY <1>6 DEF AdmissionInv, BooksFine, Books, Shaped
<1>11. /\ c \in RunBook /\ c.queue = b.queue /\ c.facts = b.facts /\ c.started = b.started
       /\ c.status = b.status /\ ActiveTurns(c) = ActiveTurns(b) \cup {t}
  BY <1>3, <1>5, <1>7, <1>10, LeasedIs
<1>12. /\ d \in RunBook /\ d.queue = c.queue /\ d.leases = c.leases /\ d.facts = c.facts
       /\ d.started = [c.started EXCEPT ![s] = t]
       /\ d.status = [c.status EXCEPT ![s] = "running"]
  BY <1>3, <1>5, <1>8, <1>11, RunningIs
<1>13. /\ Queue(d) = Queue(b) /\ QueuedTurns(d) = QueuedTurns(b)
       /\ ActiveTurns(d) = ActiveTurns(b) \cup {t} /\ d.facts = b.facts
       /\ OneEntry(d) /\ d.started = [b.started EXCEPT ![s] = t]
  BY <1>10, <1>11, <1>12, SameLeases DEF Queue, QueuedTurns, OneEntry, BookFine
<1>14. Counted(d) = Counted(b) \cup {t}
  BY <1>13 DEF Counted
<1>15. crossed \subseteq crossed' /\ runOf' \in [Agent -> Nat] /\ turnOf' \in [Agent -> Nat]
       /\ processes' \subseteq Process
  BY <1>3, <1>4, <1>5, <1>10, LaunchesTypes
<1>16. asked' \in Seq(RunCommand) /\ AskedStay
  BY <1>9, <1>10, Began DEF LaunchNow
<1>17. Shaped'
  BY <1>2, <1>4, <1>9, <1>10, <1>12, <1>15, <1>16, ShapedKept DEF Shaped
<1>18. BookFine(book', nturn', crossed')
  <2>1. Numbered(d, t)
    BY <1>2, <1>10, <1>14 DEF Numbered, BookFine
  <2>2. Cap(d, crossed')
    <3>1. Numbered(b, nturn) /\ ~BudgetExceeded(b, 0) /\ Counted(d) \subseteq Counted(b) \cup {t}
      BY <1>5, <1>6, <1>10, <1>14 DEF BookFine
    <3> QED
      BY <1>10, <1>12, <3>1, Room
  <2>3. WaitsOnce(d, crossed')
    <3> SUFFICES ASSUME NEW q \in Queue(d)
                 PROVE  /\ q.turn \in ActiveTurns(d) => q.turn \in crossed'
                        /\ \A r \in Agent : d.started[r] = q.turn => q.turn \in crossed'
      BY DEF WaitsOnce
    <3>1. q \in Queue(b) /\ q.turn # t
      BY <1>3, <1>6, <1>13, QueuedIs DEF IsNew
    <3>2. \A r \in Agent : d.started[r] = t \/ d.started[r] = b.started[r]
      BY <1>10, <1>13 DEF RunBook
    <3> QED
      BY <1>10, <1>13, <1>15, <3>1, <3>2 DEF BookFine, WaitsOnce
  <2> QED
    BY <1>4, <1>9, <1>13, <2>1, <2>2, <2>3 DEF BookFine
<1>19. \A r \in Agent : r # s => book'.status[r] = book.status[r]
  BY <1>6, <1>9, <1>10, <1>11, <1>12 DEF RunBook
<1>20. book'.status[s] = "running"
  BY <1>5, <1>9, <1>11, <1>12 DEF RunBook
<1>21. StartsIn(s, t)
  BY <1>3, <1>4, <1>5, <1>9, <1>16 DEF StartsIn, IsNew
<1>22. StartsBook(s, t)
  BY <1>3, <1>5, <1>6, <1>9, <1>13, <1>14, <1>19, <1>20 DEF StartsBook, IsNew
<1>23. StartsFresh(s, t)
  <2>1. ~Open'
    BY <1>5, <1>9 DEF Open
  <2> QED
    BY <1>3, <1>5, <2>1 DEF StartsFresh, IsNew
<1>24. Starts(s, t)
  BY <1>21, <1>22, <1>23 DEF Starts
<1>25. Owned'
  <2>1. \A u \in Turn, r \in Agent : Names(u, r)' => Names(u, r) \/ (u = t /\ r = s)
    BY <1>3, <1>5, <1>10, <1>24, StartNames
  <2>2. Owned /\ nturn' = nturn + 1
    BY <1>2, <1>4 DEF AdmissionInv
  <2> QED
    BY <1>2, <1>5, <1>10, <2>1, <2>2, OwnedNew
<1>26. nturn <= nturn'
  BY <1>2, <1>4, <1>10
<1> QED
  BY <1>3, <1>5, <1>17, <1>18, <1>24, <1>25, <1>26, StartKeeps

(* A session that is about to run.                                          *)
LEMMA PendingIs ==
    ASSUME NEW b \in RunBook, NEW s \in Agent, NEW c, c = Pending(b, s)
    PROVE  /\ c \in RunBook /\ c.queue = b.queue /\ c.leases = b.leases /\ c.facts = b.facts
           /\ c.started = b.started
           /\ \A r \in Agent : c.status[r] = IF r = s THEN "pending" ELSE b.status[r]
<1>1. "pending" \in Status
  BY DEF Status
<1> QED
  BY <1>1 DEF Pending, RunBook

(* An activation waits for the socket.                                      *)
LEMMA LaunchLaterKeeps == ASSUME AdmissionInv, LaunchLater PROVE AdmissionInv'
<1>0. PICK c0 : c0 = Head(asked)
  OBVIOUS
<1>1. PICK s : s = Head(asked).sess
  OBVIOUS
<1>2. PICK t : t = nturn + 1
  OBVIOUS
<1>3. IsNew(t) /\ t \in Turn
  BY <1>2, NextIsNew DEF IsNew
<1>4. /\ MayStart(c0) /\ Awaits(s, t, "command") /\ nturn' = t
      /\ held' = [kind |-> "activate", sess |-> s, epoch |-> c0.epoch, saved |-> book,
                    before |-> {r \in Agent : runOf[r] # 0}]
      /\ book' = Leased(Pending(book, s), s, t)
      /\ bookDisk' = bookDisk /\ runOf' = runOf /\ turnOf' = turnOf /\ processes' = processes
      /\ asked' = asked /\ epoch' = epoch
  BY <1>0, <1>1, <1>2 DEF LaunchLater
<1>5. /\ s \in Agent /\ runOf[s] = 0 /\ ~Gone(s) /\ book.status[s] # "killed"
      /\ \A q \in Queue(book) : q.sess # s
      /\ ~BudgetExceeded(book, 0)
      /\ ~Open /\ \A l \in launching : ~Commanded(l)
  BY <1>0, <1>1, <1>4, MayIs DEF LaunchLater
<1>6. PICK b : b = book
  OBVIOUS
<1>7. PICK c : c = Pending(b, s)
  OBVIOUS
<1>8. PICK d : d = Leased(c, s, t)
  OBVIOUS
<1>9. /\ held'.saved = b /\ held'.before = {r \in Agent : runOf[r] # 0} /\ Open'
      /\ book' = d
  <2>1. held' # NoCmd
    <3>1. held'.kind = "activate" /\ NoCmd.kind = "none"
      BY <1>4 DEF NoCmd
    <3> QED
      BY <3>1
  <2> QED
    BY <1>4, <1>6, <1>7, <1>8, <2>1 DEF Open
<1>10. b \in RunBook /\ BookFine(b, nturn, crossed) /\ nturn \in Nat /\ Shaped
  BY <1>6 DEF AdmissionInv, BooksFine, Books, Shaped
<1>11. /\ c \in RunBook /\ c.queue = b.queue /\ c.leases = b.leases /\ c.facts = b.facts
       /\ c.started = b.started
       /\ \A r \in Agent : c.status[r] = IF r = s THEN "pending" ELSE b.status[r]
  BY <1>5, <1>7, <1>10, PendingIs
<1>12. /\ d \in RunBook /\ d.queue = c.queue /\ d.facts = c.facts /\ d.started = c.started
       /\ d.status = c.status /\ ActiveTurns(d) = ActiveTurns(c) \cup {t}
  BY <1>3, <1>5, <1>8, <1>11, LeasedIs
<1>13. /\ Queue(d) = Queue(b) /\ QueuedTurns(d) = QueuedTurns(b)
       /\ ActiveTurns(d) = ActiveTurns(b) \cup {t} /\ d.facts = b.facts
       /\ OneEntry(d) /\ d.started = b.started
  BY <1>10, <1>11, <1>12, SameLeases DEF Queue, QueuedTurns, OneEntry, BookFine
<1>14. Counted(d) = Counted(b) \cup {t}
  BY <1>13 DEF Counted
<1>15. \A r \in Agent : r # s => book'.status[r] = book.status[r]
  BY <1>6, <1>9, <1>11, <1>12
<1>16. Waits(s, t, "command")
  <2>1. AwaitsIn(s, t, "command")
    BY <1>4, <1>5, <1>6, <1>9 DEF AwaitsIn
  <2>2. AwaitsBook(s, t)
    BY <1>5, <1>6, <1>9, <1>13, <1>14, <1>15 DEF AwaitsBook
  <2>3. AwaitsFresh(s, t)
    BY <1>3, <1>5 DEF AwaitsFresh, IsNew
  <2> QED
    BY <2>1, <2>2, <2>3 DEF Waits
<1>17. Awaited(s, t, "command")
  BY <1>3, <1>5, <1>16, AwaitedIs
<1>18. PICK n : n.sess = s /\ n.turn = t /\ n.by = "command" /\ ~n.stale
                /\ launching' = launching \cup {n}
  BY <1>17 DEF Awaited
<1>19. Shaped'
  <2>1. launching' \subseteq Launch
    <3>1. [sess |-> s, turn |-> t, by |-> "command", aborted |-> FALSE, stale |-> FALSE] \in Launch
      BY <1>3, <1>5 DEF Launch
    <3> QED
      BY <1>4, <1>10, <3>1 DEF Awaits, Shaped
  <2>2. nturn' \in Nat
    BY <1>3, <1>4 DEF Turn
  <2> QED
    BY <1>4, <1>9, <1>10, <1>12, <2>1, <2>2 DEF Shaped
<1>20. BookFine(book', nturn', crossed')
  <2>1. Numbered(d, t)
    BY <1>2, <1>10, <1>14 DEF Numbered, BookFine
  <2>2. Cap(d, crossed')
    <3>1. Numbered(b, nturn) /\ ~BudgetExceeded(b, 0) /\ Counted(d) \subseteq Counted(b) \cup {t}
      BY <1>5, <1>6, <1>10, <1>14 DEF BookFine
    <3> QED
      BY <1>10, <1>12, <3>1, Room
  <2>3. WaitsOnce(d, crossed')
    <3> SUFFICES ASSUME NEW q \in Queue(d)
                 PROVE  /\ q.turn \in ActiveTurns(d) => q.turn \in crossed'
                        /\ \A r \in Agent : d.started[r] = q.turn => q.turn \in crossed'
      BY DEF WaitsOnce
    <3>1. q \in Queue(b) /\ q.turn # t
      BY <1>3, <1>6, <1>13, QueuedIs DEF IsNew
    <3>2. crossed \subseteq crossed'
      BY <1>17 DEF Awaited
    <3> QED
      BY <1>10, <1>13, <3>1, <3>2 DEF BookFine, WaitsOnce
  <2> QED
    BY <1>4, <1>9, <1>13, <2>1, <2>2, <2>3 DEF BookFine
<1>21. Owned'
  <2>1. ASSUME NEW u \in Turn, NEW r \in Agent, Names(u, r)', ~(u = t /\ r = s) PROVE Names(u, r)
    <3>1. InBook(book', u, r) => InBook(book, u, r)
      BY <1>6, <1>9, <1>13 DEF InBook
    <3>2. \A x \in Books' : x = book' \/ x = bookDisk \/ x = book
      BY <1>4, <1>6, <1>9 DEF Books
    <3>3. (\E x \in Books' : InBook(x, u, r)) => \E x \in Books : InBook(x, u, r)
      BY <3>1, <3>2 DEF Books
    <3>4. (\E l \in launching' : l.turn = u /\ l.sess = r) => \E l \in launching : l.turn = u /\ l.sess = r
      BY <1>18, <2>1
    <3> QED
      BY <1>4, <2>1, <3>3, <3>4 DEF Names
  <2>2. Owned /\ nturn' = nturn + 1
    BY <1>2, <1>4 DEF AdmissionInv
  <2> QED
    BY <1>2, <1>5, <1>10, <2>1, <2>2, OwnedNew
<1>22. Apart'
  <2>1. ASSUME NEW l \in launching', NEW m \in launching', l.by = m.by PROVE l = m
    BY <1>5, <1>18, <2>1 DEF AdmissionInv, Apart, Commanded
  <2>2. \A l \in launching' : Commanded(l) => l = n
    BY <1>5, <1>18
  <2>3. \A m \in launching' : m # n => m.turn # t
    BY <1>3, <1>18 DEF IsNew
  <2>4. \A x \in {book', held'.saved} : t \notin QueuedTurns(x) /\ \A r \in Agent : x.started[r] # t
    BY <1>3, <1>6, <1>9, <1>13 DEF IsNew
  <2>5. t \notin ActiveTurns(held'.saved)
    BY <1>3, <1>6, <1>9 DEF IsNew
  <2>6. /\ \A r \in Agent : t \notin {turnOf'[r], runOf'[r]}
        /\ \A p \in processes' : p.turn # t
    BY <1>3, <1>4 DEF IsNew
  <2> QED
    BY <1>9, <1>18, <2>1, <2>2, <2>3, <2>4, <2>5, <2>6 DEF Apart
<1>23. Waiting'
  <2>0. crossed \subseteq crossed'
    BY <1>17 DEF Awaited
  <2>1. \A r \in Agent : r # s /\ Busy(r)' => Busy(r)
    BY <1>4, <1>18 DEF Busy
  <2>2. ASSUME NEW q \in Queue(b), Busy(q.sess)' \/ runOf[q.sess] # 0 PROVE q.turn \in crossed'
    <3>1. q.sess \in Agent /\ q.sess # s
      BY <1>5, <1>6, <1>10, EntryIn
    <3>2. Busy(q.sess)
      BY <2>1, <2>2, <3>1 DEF Busy
    <3> QED
      BY <1>6, <2>0, <3>2 DEF AdmissionInv, Waiting
  <2> QED
    BY <1>9, <1>13, <2>2 DEF Waiting
<1>24. nturn <= nturn'
  BY <1>2, <1>4, <1>10
<1> QED
  BY <1>3, <1>5, <1>16, <1>19, <1>20, <1>21, <1>22, <1>23, <1>24, AwaitKeeps

(* An activation is queued.                                                 *)
LEMMA EnqueueKeeps == ASSUME AdmissionInv, Enqueue PROVE AdmissionInv'
<1>0. PICK c0 : c0 = Head(asked)
  OBVIOUS
<1>1. PICK s : s = Head(asked).sess
  OBVIOUS
<1>2. PICK t : t = nturn + 1
  OBVIOUS
<1>3. IsNew(t) /\ t \in Turn
  BY <1>2, NextIsNew DEF IsNew
<1>4. PICK e : e = [sess |-> s, turn |-> t]
  OBVIOUS
<1>5. /\ MayStart(c0) /\ Crosses(s, t) /\ nturn' = t
      /\ Commits(c0, [Pending(book, s) EXCEPT !.queue = Append(@, e)], drain)
      /\ runOf' = runOf /\ turnOf' = turnOf /\ processes' = processes /\ launching' = launching
  BY <1>0, <1>1, <1>2, <1>4 DEF Enqueue
<1>6. /\ s \in Agent /\ runOf[s] = 0 /\ ~Gone(s) /\ book.status[s] # "killed"
      /\ \A q \in Queue(book) : q.sess # s
      /\ ~BudgetExceeded(book, 0)
      /\ ~Open /\ \A l \in launching : ~Commanded(l)
  BY <1>0, <1>1, <1>5, MayIs DEF Enqueue
<1>7. PICK b : b = book
  OBVIOUS
<1>8. PICK c : c = Pending(b, s)
  OBVIOUS
<1>9. PICK d : d = [c EXCEPT !.queue = Append(@, e)]
  OBVIOUS
<1>10. /\ book' = d /\ bookDisk' = book' /\ held' = held /\ epoch' = epoch /\ asked' = Tail(asked)
       /\ ~Open'
  BY <1>5, <1>6, <1>7, <1>8, <1>9 DEF Commits, Save, Open
<1>11. b \in RunBook /\ BookFine(b, nturn, crossed) /\ nturn \in Nat /\ Shaped
  BY <1>7 DEF AdmissionInv, BooksFine, Books, Shaped
<1>12. /\ c \in RunBook /\ c.queue = b.queue /\ c.leases = b.leases /\ c.facts = b.facts
       /\ c.started = b.started
       /\ \A r \in Agent : c.status[r] = IF r = s THEN "pending" ELSE b.status[r]
  BY <1>6, <1>8, <1>11, PendingIs
<1>13. e \in Entry /\ e.sess = s /\ e.turn = t
  BY <1>3, <1>4, <1>6 DEF Entry
<1>14. /\ d \in RunBook /\ d.queue = Append(b.queue, e) /\ d.leases = b.leases
       /\ d.facts = b.facts /\ d.started = b.started
       /\ \A r \in Agent : d.status[r] = IF r = s THEN "pending" ELSE b.status[r]
  <2>1. PICK q : q = Append(b.queue, e)
    OBVIOUS
  <2>2. q \in Seq(Entry)
    BY <1>11, <1>13, <2>1 DEF RunBook
  <2>3. d = [c EXCEPT !.queue = q]
    BY <1>9, <1>12, <2>1
  <2>4. d \in RunBook /\ d.queue = q /\ d.leases = c.leases /\ d.facts = c.facts
        /\ d.started = c.started /\ d.status = c.status
    BY <1>12, <2>2, <2>3 DEF RunBook
  <2> QED
    BY <1>12, <2>1, <2>4
<1>15. /\ Queue(d) = Queue(b) \cup {e} /\ ActiveTurns(d) = ActiveTurns(b)
       /\ QueuedTurns(d) = QueuedTurns(b) \cup {t} /\ OneEntry(d)
  <2>1. PICK q : q = b.queue
    OBVIOUS
  <2>2. PICK r : r = d.queue
    OBVIOUS
  <2>3. q \in Seq(Entry)
    BY <1>11, <2>1 DEF RunBook
  <2>4. /\ Len(r) = Len(q) + 1
        /\ \A i \in 1..Len(q) + 1 : r[i] = IF i <= Len(q) THEN q[i] ELSE e
        /\ DOMAIN r = 1..Len(q) + 1 /\ DOMAIN q = 1..Len(q) /\ Len(q) \in Nat
    BY <1>13, <1>14, <2>1, <2>2, <2>3
  <2>5. \A x : x \in ToSet(r) <=> x \in ToSet(q) \/ x = e
    BY <2>4 DEF ToSet
  <2>6. Queue(d) = Queue(b) \cup {e}
    BY <2>1, <2>2, <2>5 DEF Queue
  <2>7. \A u : u \in QueuedTurns(d) <=> u \in QueuedTurns(b) \/ u = t
    BY <1>13, <2>6, QueuedIs
  <2>8. \A i \in DOMAIN q : q[i].sess # s /\ q[i].turn # t
    <3>1. \A i \in DOMAIN q : q[i] \in Queue(b)
      BY <2>1, <2>4 DEF Queue, ToSet
    <3> QED
      BY <1>3, <1>6, <1>7, <3>1, QueuedIs DEF IsNew
  <2>9. OneEntry(d)
    <3> SUFFICES ASSUME NEW i \in DOMAIN r, NEW j \in DOMAIN r,
                        r[i].sess = r[j].sess \/ r[i].turn = r[j].turn
                 PROVE  i = j
      BY <2>2 DEF OneEntry
    <3>0. PICK n \in Nat : n = Len(q)
      BY <2>4
    <3>1. i \in DOMAIN q \/ (r[i] = e /\ i = n + 1)
      <4>1. i \in 1..n + 1 /\ DOMAIN q = 1..n
        BY <2>4, <3>0
      <4>2. i \in 1..n \/ i = n + 1
        BY <4>1
      <4>3. ~(n + 1 <= n) /\ n + 1 \in 1..n + 1
        BY <3>0
      <4>4. i = n + 1 => r[i] = e
        BY <2>4, <3>0, <4>3
      <4> QED
        BY <4>1, <4>2, <4>4
    <3>2. j \in DOMAIN q \/ (r[j] = e /\ j = n + 1)
      <4>1. j \in 1..n + 1 /\ DOMAIN q = 1..n
        BY <2>4, <3>0
      <4>2. j \in 1..n \/ j = n + 1
        BY <4>1
      <4>3. ~(n + 1 <= n) /\ n + 1 \in 1..n + 1
        BY <3>0
      <4>4. j = n + 1 => r[j] = e
        BY <2>4, <3>0, <4>3
      <4> QED
        BY <4>1, <4>2, <4>4
    <3>3. /\ i \in DOMAIN q => r[i] = q[i]
          /\ j \in DOMAIN q => r[j] = q[j]
      BY <2>4
    <3>4. OneEntry(b)
      BY <1>11 DEF BookFine
    <3> QED
      BY <1>13, <2>1, <2>8, <3>1, <3>2, <3>3, <3>4 DEF OneEntry
  <2> QED
    BY <1>14, <2>6, <2>7, <2>9, SameLeases
<1>16. Counted(d) = Counted(b) \cup {t}
  BY <1>14, <1>15 DEF Counted
<1>17. /\ crossed \subseteq crossed'
       /\ turnOf[s] # 0 => {turnOf[s], t} \subseteq crossed'
       /\ \A l \in launching : l.sess = s => t \in crossed'
  <2>1. \A l \in launching : l.turn # 0
    BY <1>11 DEF Shaped, Launch, Turn
  <2>2. /\ crossed \subseteq crossed'
        /\ turnOf[s] \notin {0, t} => {turnOf[s], t} \subseteq crossed'
        /\ \A l \in launching : l.sess = s /\ l.turn \notin {0, t} => {l.turn, t} \subseteq crossed'
    BY <1>5, CrossesIs
  <2> QED
    BY <1>3, <1>6, <2>1, <2>2 DEF IsNew
<1>18. asked' \in Seq(RunCommand) /\ AskedStay
  BY <1>10, <1>11, Began DEF Enqueue
<1>19. Shaped'
  <2>1. nturn' \in Nat
    BY <1>3, <1>5 DEF Turn
  <2> QED
    BY <1>5, <1>10, <1>11, <1>14, <1>18, <2>1, ShapedKept DEF Shaped
<1>20. BookFine(book', nturn', crossed')
  <2>1. Numbered(d, t)
    BY <1>2, <1>11, <1>16 DEF Numbered, BookFine
  <2>2. Cap(d, crossed')
    <3>1. Numbered(b, nturn) /\ ~BudgetExceeded(b, 0) /\ Counted(d) \subseteq Counted(b) \cup {t}
      BY <1>6, <1>7, <1>11, <1>16 DEF BookFine
    <3> QED
      BY <1>11, <1>14, <3>1, Room
  <2>3. WaitsOnce(d, crossed')
    <3> SUFFICES ASSUME NEW q \in Queue(d)
                 PROVE  /\ q.turn \in ActiveTurns(d) => q.turn \in crossed'
                        /\ \A r \in Agent : d.started[r] = q.turn => q.turn \in crossed'
      BY DEF WaitsOnce
    <3>1. CASE q = e
      BY <1>3, <1>7, <1>13, <1>14, <1>15, <3>1 DEF IsNew
    <3>2. CASE q # e
      BY <1>11, <1>14, <1>15, <1>17, <3>2 DEF BookFine, WaitsOnce
    <3> QED
      BY <3>1, <3>2
  <2> QED
    BY <1>5, <1>10, <1>15, <2>1, <2>2, <2>3 DEF BookFine
<1>21. BooksFine'
  <2>1. nturn' \in Nat /\ nturn <= nturn'
    BY <1>2, <1>5, <1>11
  <2> QED
    BY <1>10, <1>11, <1>17, <1>20, <2>1, BooksStay DEF AdmissionInv
<1>22. Owned'
  <2>1. ASSUME NEW u \in Turn, NEW r \in Agent, Names(u, r)', ~(u = t /\ r = s) PROVE Names(u, r)
    <3>1. InBook(book', u, r) => InBook(book, u, r)
      BY <1>7, <1>10, <1>13, <1>14, <1>15, <2>1 DEF InBook
    <3>2. \A x \in Books' : x = book'
      BY <1>10 DEF Books
    <3>3. (\E x \in Books' : InBook(x, u, r)) => \E x \in Books : InBook(x, u, r)
      BY <3>1, <3>2 DEF Books
    <3> QED
      BY <1>5, <2>1, <3>3 DEF Names
  <2>2. Owned /\ nturn' = nturn + 1
    BY <1>2, <1>5 DEF AdmissionInv
  <2> QED
    BY <1>2, <1>6, <1>11, <2>1, <2>2, OwnedNew
<1>23. Apart' /\ OneTurn'
  BY <1>5, <1>6 DEF AdmissionInv, Apart, OneTurn
<1>24. Meets'
  BY <1>5, <1>17 DEF AdmissionInv, Meets
<1>25. Waiting'
  <2>1. ASSUME NEW q \in Queue(book'), Busy(q.sess)' PROVE q.turn \in crossed'
    <3>0. Busy(q.sess)
      BY <1>5, <2>1 DEF Busy
    <3>1. CASE q = e
      BY <1>6, <1>13, <1>17, <3>0, <3>1 DEF Busy
    <3>2. CASE q # e
      BY <1>7, <1>10, <1>15, <1>17, <3>0, <3>2 DEF AdmissionInv, Waiting
    <3> QED
      BY <3>1, <3>2
  <2> QED
    BY <1>10, <2>1 DEF Waiting
<1>26. Lives'
  <2> SUFFICES ASSUME NEW p \in processes, p.turn \notin crossed'
               PROVE  /\ p.turn \notin QueuedTurns(book')
                      /\ \A l \in launching : l.turn # p.turn
                      /\ \A r \in processes : r.turn = p.turn => r = p
                      /\ ~p.doomed => runOf[p.sess] = p.turn
    BY <1>5, <1>10 DEF Lives
  <2>1. /\ p.turn \notin QueuedTurns(book)
        /\ \A l \in launching : l.turn # p.turn
        /\ \A r \in processes : r.turn = p.turn => r = p
        /\ ~p.doomed => runOf[p.sess] = p.turn
    BY <1>17 DEF AdmissionInv, Lives
  <2> QED
    BY <1>3, <1>7, <1>10, <1>15, <2>1 DEF IsNew
<1>27. Leasing'
  <2>1. ActiveTurns(book') = ActiveTurns(book)
    BY <1>7, <1>10, <1>15
  <2>2. \A u : InProgress(u) <=> InProgress(u)'
    BY <1>5 DEF InProgress
  <2> QED
    BY <1>5, <1>17, <2>1, <2>2 DEF AdmissionInv, Leasing, LeasesMatchTurns
<1>28. Remembered'
  <2>1. Remembers(b)
    BY <1>7 DEF AdmissionInv, Remembered
  <2>2. \A r \in Agent : Gone(r) => r # s /\ book'.status[r] = "killed" /\ Gone(r)'
    BY <1>5, <1>6, <1>7, <1>10, <1>14, <1>18 DEF Gone, AskedStay
  <2>3. LastCounts(book)'
    BY <1>10, <1>14, <1>16, <1>17, <2>1, <2>2 DEF Remembers, LastCounts
  <2>4. Runs(book)'
    BY <1>5, <1>10, <1>14, <1>17, <2>1 DEF Remembers, Runs
  <2>5. StartsOnce(book)'
    BY <1>3, <1>5, <1>7, <1>10, <1>14, <1>15, <1>17, <2>1 DEF Remembers, StartsOnce, IsNew
  <2> QED
    BY <1>10, <2>3, <2>4, <2>5 DEF Remembered, Remembers
<1>29. DiskRecovers'
  BY <1>10, <1>17, <1>19, <1>22, <1>27, <1>28, RowRecovers DEF AdmissionInv
<1> QED
  BY <1>19, <1>21, <1>22, <1>23, <1>24, <1>25, <1>26, <1>27, <1>28, <1>29 DEF AdmissionInv

(* What the drain takes from the queue is known nowhere else, or crossed.   *)
DrainTakes(i, q) ==
  /\ Candidates # {} /\ i = FirstOf(Candidates) /\ q = book.queue[i]
  /\ \A l \in launching : l.by # "drain"
  /\ UNCHANGED <<undone, held, asked, epoch, paused, listening, nturn>>
DrainKnows(s, t, q) ==
  /\ s \in Agent /\ t \in Turn /\ q \in Entry /\ q \in Queue(book) /\ t \in QueuedTurns(book)
  /\ \A p \in processes : p.turn = t => t \in crossed
  /\ runOf[s] = 0 /\ ~Gone(s)
  /\ turnOf[s] = t => t \in crossed
  /\ \A m \in launching : Commanded(m) /\ Open /\ m.turn # t
  /\ \A r \in Agent : book.started[r] = t => t \in crossed
  /\ Open => \A r \in Agent : held.saved.started[r] = t => t \in crossed
  /\ Open => q \in Queue(held.saved) /\ \A e \in Queue(held.saved) : e.sess = s => e = q
LEMMA DrainKnown ==
    ASSUME AdmissionInv, NEW i, NEW q, DrainTakes(i, q), NEW s, s = q.sess, NEW t, t = q.turn
    PROVE  DrainKnows(s, t, q) /\ i \in DOMAIN book.queue
<1>1. /\ i \in DOMAIN book.queue /\ q \in Entry /\ q \in Queue(book) /\ Eligible(q)
  BY Drained DEF DrainTakes, AdmissionInv
<1>2. s \in Agent /\ t \in Turn /\ t \in QueuedTurns(book) /\ runOf[s] = 0 /\ book.status[s] # "killed"
  BY <1>1, QueuedIs DEF Entry, Eligible
<1>3. ~Gone(s)
  BY <1>2 DEF Gone
<1>4. \A p \in processes : p.turn = t => t \in crossed
  BY <1>2 DEF AdmissionInv, Lives
<1>5. turnOf[s] = t => t \in crossed
  BY <1>1, <1>2 DEF AdmissionInv, Waiting, Busy, Turn
<1>6. \A m \in launching : Commanded(m) /\ Open /\ m.turn # t
  <2> SUFFICES ASSUME NEW m \in launching PROVE Commanded(m) /\ Open /\ m.turn # t
    OBVIOUS
  <2>1. Commanded(m)
    BY DEF AdmissionInv, Shaped, Launch, DrainTakes, Commanded
  <2> QED
    BY <1>2, <2>1 DEF AdmissionInv, Apart
<1>7. \A r \in Agent : book.started[r] = t => t \in crossed
  BY <1>2 DEF AdmissionInv, Remembered, Remembers, StartsOnce
<1>8. Open => \A r \in Agent : held.saved.started[r] = t => t \in crossed
  BY <1>2 DEF AdmissionInv, Remembered, Remembers, StartsOnce
<1>9. ASSUME Open
      PROVE  q \in Queue(held.saved) /\ \A e \in Queue(held.saved) : e.sess = s => e = q
  <2>1. q \in Queue(held.saved)
    BY <1>1, <1>9 DEF AdmissionInv, Waiting
  <2>2. OneEntry(held.saved)
    BY <1>9 DEF AdmissionInv, BooksFine, Books, BookFine
  <2> QED
    BY <2>1, <2>2 DEF OneEntry, Queue, ToSet
<1> QED
  BY <1>1, <1>2, <1>3, <1>4, <1>5, <1>6, <1>7, <1>8, <1>9 DEF DrainKnows

(* Its entry becomes a lease.                                               *)
LEMMA EntryLeased ==
    ASSUME NEW b \in RunBook, OneEntry(b), NEW i \in DOMAIN b.queue, NEW q, q = b.queue[i],
           NEW s, s = q.sess, NEW t, t = q.turn,
           NEW c, c = Leased([b EXCEPT !.queue = RemoveAt(@, i)], s, t)
    PROVE  /\ c \in RunBook /\ c.facts = b.facts /\ c.started = b.started /\ c.status = b.status
           /\ Queue(c) = Queue(b) \ {q} /\ OneEntry(c)
           /\ QueuedTurns(c) = QueuedTurns(b) \ {t}
           /\ ActiveTurns(c) = ActiveTurns(b) \cup {t}
           /\ Counted(c) = Counted(b)
           /\ \A e \in Queue(c) : e.sess # s /\ e.turn # t
<1>1. PICK a : a = [b EXCEPT !.queue = RemoveAt(@, i)]
  OBVIOUS
<1>2. /\ a \in RunBook /\ q \in Entry /\ q \in Queue(b)
      /\ a.leases = b.leases /\ a.facts = b.facts /\ a.started = b.started /\ a.status = b.status
      /\ Queue(a) = Queue(b) \ {q} /\ OneEntry(a)
      /\ QueuedTurns(a) = QueuedTurns(b) \ {q.turn}
      /\ \A e \in Queue(a) : e.sess # q.sess /\ e.turn # q.turn
  BY <1>1, TakenIs
<1>3. s \in Agent /\ t \in Turn
  BY <1>2 DEF Entry
<1>4. c = Leased(a, s, t)
  BY <1>1
<1>5. /\ c \in RunBook /\ c.queue = a.queue /\ c.facts = a.facts /\ c.started = a.started
      /\ c.status = a.status /\ ActiveTurns(c) = ActiveTurns(a) \cup {t}
  BY <1>2, <1>3, <1>4, LeasedIs
<1>6. ActiveTurns(a) = ActiveTurns(b)
  BY <1>2 DEF ActiveTurns
<1>7. Queue(c) = Queue(a) /\ QueuedTurns(c) = QueuedTurns(a) /\ OneEntry(c)
  <2>1. c.queue = a.queue /\ OneEntry(a)
    BY <1>2, <1>5
  <2> QED
    BY <2>1 DEF Queue, QueuedTurns, OneEntry
<1>8. t \in QueuedTurns(b)
  BY <1>2, QueuedIs
<1>9. Counted(c) = Counted(b)
  BY <1>2, <1>5, <1>6, <1>7, <1>8 DEF Counted
<1> QED
  BY <1>2, <1>5, <1>6, <1>7, <1>9

(* A queued turn is launched.                                               *)
LEMMA DrainLaunchesKeeps ==
    ASSUME AdmissionInv, NEW i, NEW q, DrainTakes(i, q),
           Launches(q.sess, q.turn),
           Save(Running(Leased(Taken(i), q.sess, q.turn), q.sess, q.turn)),
           UNCHANGED launching
    PROVE  AdmissionInv'
<1>1. PICK s : s = q.sess
  OBVIOUS
<1>2. PICK t : t = q.turn
  OBVIOUS
<1>3. DrainKnows(s, t, q) /\ i \in DOMAIN book.queue
  BY <1>1, <1>2, DrainKnown
<1>4. s \in Agent /\ t \in Turn /\ q \in Queue(book) /\ q.sess = s /\ q.turn = t
  BY <1>1, <1>2, <1>3 DEF DrainKnows
<1>5. PICK b : b = book
  OBVIOUS
<1>6. PICK c : c = Leased([b EXCEPT !.queue = RemoveAt(@, i)], s, t)
  OBVIOUS
<1>7. PICK d : d = Running(c, s, t)
  OBVIOUS
<1>8. /\ book' = d /\ bookDisk' = book' /\ held' = held /\ epoch' = epoch /\ asked' = asked
      /\ nturn' = nturn /\ launching' = launching /\ Launches(s, t) /\ q = b.queue[i]
  BY <1>1, <1>2, <1>5, <1>6, <1>7 DEF Save, Taken, DrainTakes
<1>9. b \in RunBook /\ BookFine(b, nturn, crossed) /\ OneEntry(b) /\ nturn \in Nat /\ Shaped
  BY <1>5 DEF AdmissionInv, BooksFine, Books, Shaped, BookFine
<1>10. /\ c \in RunBook /\ c.facts = b.facts /\ c.started = b.started /\ c.status = b.status
       /\ Queue(c) = Queue(b) \ {q} /\ OneEntry(c)
       /\ QueuedTurns(c) = QueuedTurns(b) \ {t}
       /\ ActiveTurns(c) = ActiveTurns(b) \cup {t}
       /\ Counted(c) = Counted(b)
       /\ \A e \in Queue(c) : e.sess # s /\ e.turn # t
  BY <1>1, <1>2, <1>3, <1>5, <1>6, <1>8, <1>9, EntryLeased
<1>11. /\ d \in RunBook /\ d.queue = c.queue /\ d.leases = c.leases /\ d.facts = c.facts
       /\ d.started = [c.started EXCEPT ![s] = t]
       /\ d.status = [c.status EXCEPT ![s] = "running"]
  BY <1>4, <1>7, <1>10, RunningIs
<1>12. /\ Queue(d) = Queue(c) /\ QueuedTurns(d) = QueuedTurns(c)
       /\ ActiveTurns(d) = ActiveTurns(c) /\ OneEntry(d) /\ Counted(d) = Counted(b)
  BY <1>10, <1>11 DEF Queue, QueuedTurns, OneEntry, ActiveTurns, Counted
<1>13. crossed \subseteq crossed' /\ runOf' \in [Agent -> Nat] /\ turnOf' \in [Agent -> Nat]
       /\ processes' \subseteq Process
  BY <1>4, <1>8, <1>9, LaunchesTypes
<1>14. AskedStay /\ asked' \in Seq(RunCommand)
  BY <1>8, <1>9, Untouched DEF AdmissionInv, Shaped
<1>15. Shaped'
  BY <1>8, <1>9, <1>11, <1>13, <1>14, ShapedKept DEF Shaped
<1>16. BookFine(book', nturn', crossed')
  <2>1. Numbered(d, nturn)
    BY <1>9, <1>12 DEF Numbered, BookFine
  <2>2. Cap(d, crossed')
    BY <1>9, <1>11, <1>12, <1>13, CapStays
  <2>3. WaitsOnce(d, crossed')
    <3> SUFFICES ASSUME NEW e \in Queue(d)
                 PROVE  /\ e.turn \in ActiveTurns(d) => e.turn \in crossed'
                        /\ \A r \in Agent : d.started[r] = e.turn => e.turn \in crossed'
      BY DEF WaitsOnce
    <3>1. e \in Queue(b) /\ e.turn # t
      BY <1>10, <1>12
    <3>2. \A r \in Agent : d.started[r] = t \/ d.started[r] = b.started[r]
      BY <1>9, <1>10, <1>11 DEF RunBook
    <3> QED
      BY <1>9, <1>10, <1>12, <1>13, <3>1, <3>2 DEF BookFine, WaitsOnce
  <2> QED
    BY <1>8, <1>12, <2>1, <2>2, <2>3 DEF BookFine
<1>17. \A r \in Agent : r # s => book'.status[r] = book.status[r]
  BY <1>5, <1>8, <1>9, <1>10, <1>11 DEF RunBook
<1>18. book'.status[s] = "running"
  BY <1>4, <1>8, <1>10, <1>11 DEF RunBook
<1>19. StartsIn(s, t)
  <2>1. Open => Open'
    BY <1>8 DEF Open
  <2> QED
    BY <1>3, <1>8, <1>14, <2>1 DEF StartsIn, DrainKnows
<1>20. StartsBook(s, t)
  BY <1>5, <1>8, <1>10, <1>11, <1>12, <1>17, <1>18 DEF StartsBook
<1>21. StartsFresh(s, t)
  <2>1. Open' => Open
    BY <1>8 DEF Open
  <2> QED
    BY <1>3, <1>4, <2>1 DEF StartsFresh, DrainKnows
<1>22. Starts(s, t)
  BY <1>19, <1>20, <1>21 DEF Starts
<1>23. Owned'
  <2>1. \A u \in Turn, r \in Agent : Names(u, r)' => Names(u, r) \/ (u = t /\ r = s)
    BY <1>4, <1>9, <1>22, StartNames
  <2>2. Names(t, s)
    <3>1. InBook(book, t, s) /\ book \in Books
      BY <1>4 DEF InBook, Books
    <3> QED
      BY <3>1 DEF Names
  <2>3. Owned /\ nturn' \in Nat /\ nturn <= nturn'
    BY <1>8, <1>9 DEF AdmissionInv
  <2> QED
    BY <1>9, <2>1, <2>2, <2>3, OwnedKept
<1>24. nturn <= nturn'
  BY <1>8, <1>9
<1> QED
  BY <1>4, <1>15, <1>16, <1>22, <1>23, <1>24, StartKeeps

(* The launch of a queued turn waits for the socket.                        *)
LEMMA DrainAwaitsKeeps ==
    ASSUME AdmissionInv, NEW i, NEW q, DrainTakes(i, q),
           book' = Leased(Taken(i), q.sess, q.turn),
           Awaits(q.sess, q.turn, "drain"),
           UNCHANGED <<bookDisk, runOf, turnOf, processes>>
    PROVE  AdmissionInv'
<1>1. PICK s : s = q.sess
  OBVIOUS
<1>2. PICK t : t = q.turn
  OBVIOUS
<1>3. DrainKnows(s, t, q) /\ i \in DOMAIN book.queue
  BY <1>1, <1>2, DrainKnown
<1>4. s \in Agent /\ t \in Turn /\ q \in Queue(book) /\ q.sess = s /\ q.turn = t
  BY <1>1, <1>2, <1>3 DEF DrainKnows
<1>5. PICK b : b = book
  OBVIOUS
<1>6. PICK c : c = Leased([b EXCEPT !.queue = RemoveAt(@, i)], s, t)
  OBVIOUS
<1>7. /\ book' = c /\ bookDisk' = bookDisk /\ held' = held /\ epoch' = epoch /\ asked' = asked
      /\ nturn' = nturn /\ runOf' = runOf /\ turnOf' = turnOf /\ processes' = processes
      /\ Awaits(s, t, "drain") /\ q = b.queue[i]
  BY <1>1, <1>2, <1>5, <1>6 DEF Taken, DrainTakes
<1>8. b \in RunBook /\ BookFine(b, nturn, crossed) /\ OneEntry(b) /\ nturn \in Nat /\ Shaped
  BY <1>5 DEF AdmissionInv, BooksFine, Books, Shaped, BookFine
<1>9. /\ c \in RunBook /\ c.facts = b.facts /\ c.started = b.started /\ c.status = b.status
      /\ Queue(c) = Queue(b) \ {q} /\ OneEntry(c)
      /\ QueuedTurns(c) = QueuedTurns(b) \ {t}
      /\ ActiveTurns(c) = ActiveTurns(b) \cup {t}
      /\ Counted(c) = Counted(b)
      /\ \A e \in Queue(c) : e.sess # s /\ e.turn # t
  BY <1>1, <1>2, <1>3, <1>5, <1>6, <1>7, <1>8, EntryLeased
<1>10. Waits(s, t, "drain")
  <2>1. AwaitsIn(s, t, "drain")
    BY <1>7 DEF AwaitsIn
  <2>2. AwaitsBook(s, t)
    BY <1>5, <1>7, <1>9 DEF AwaitsBook
  <2>3. AwaitsFresh(s, t)
    BY <1>3 DEF AwaitsFresh, DrainKnows
  <2> QED
    BY <2>1, <2>2, <2>3 DEF Waits
<1>11. Awaited(s, t, "drain")
  BY <1>4, <1>10, AwaitedIs
<1>12. PICK n : n.sess = s /\ n.turn = t /\ n.by = "drain" /\ ~n.stale
                /\ launching' = launching \cup {n}
  BY <1>11 DEF Awaited
<1>13. crossed \subseteq crossed'
  BY <1>11 DEF Awaited
<1>14. Shaped'
  <2>1. launching' \subseteq Launch
    <3>1. [sess |-> s, turn |-> t, by |-> "drain", aborted |-> FALSE, stale |-> FALSE] \in Launch
      BY <1>4 DEF Launch
    <3> QED
      BY <1>7, <1>8, <3>1 DEF Awaits, Shaped
  <2> QED
    BY <1>7, <1>8, <1>9, <2>1, ShapedKept DEF Shaped
<1>15. BookFine(book', nturn', crossed')
  <2>1. Numbered(c, nturn)
    BY <1>8, <1>9 DEF Numbered, BookFine
  <2>2. Cap(c, crossed')
    BY <1>8, <1>9, <1>13, CapStays
  <2>3. WaitsOnce(c, crossed')
    BY <1>8, <1>9, <1>13 DEF BookFine, WaitsOnce
  <2> QED
    BY <1>7, <1>9, <2>1, <2>2, <2>3 DEF BookFine
<1>16. Owned'
  <2>1. ASSUME NEW u \in Turn, NEW r \in Agent, Names(u, r)' PROVE Names(u, r)
    <3>1. InBook(book', u, r) => InBook(book, u, r)
      BY <1>5, <1>7, <1>9 DEF InBook
    <3>2. \A x \in Books' : x = book' \/ x \in Books
      BY <1>7 DEF Books, Open
    <3>3. (\E x \in Books' : InBook(x, u, r)) => \E x \in Books : InBook(x, u, r)
      BY <3>1, <3>2 DEF Books
    <3>4. (\E l \in launching' : l.turn = u /\ l.sess = r) =>
             (\E l \in launching : l.turn = u /\ l.sess = r) \/ (u = t /\ r = s)
      BY <1>12
    <3>5. \E x \in Books : InBook(x, t, s)
      BY <1>4 DEF InBook, Books
    <3> QED
      BY <1>7, <2>1, <3>3, <3>4, <3>5 DEF Names
  <2>2. Owned /\ nturn' \in Nat /\ nturn <= nturn'
    BY <1>7, <1>8 DEF AdmissionInv
  <2> QED
    BY <1>8, <2>1, <2>2, OwnedKept
<1>17. Apart'
  <2>1. ASSUME NEW l \in launching', NEW m \in launching', l.by = m.by PROVE l = m
    BY <1>3, <1>12, <2>1 DEF AdmissionInv, Apart, Commanded, DrainKnows
  <2>2. ASSUME NEW l \in launching', Commanded(l)
        PROVE  /\ Open' /\ ~l.stale
               /\ \A r \in Agent : l.turn \notin {turnOf'[r], runOf'[r]}
               /\ \A p \in processes' : p.turn # l.turn
               /\ \A m \in launching' : m # l => m.turn # l.turn
               /\ \A x \in {book', held'.saved} :
                     /\ l.turn \notin QueuedTurns(x)
                     /\ \A r \in Agent : x.started[r] # l.turn
               /\ l.turn \notin ActiveTurns(held'.saved)
    <3>1. l \in launching /\ l.turn # t
      BY <1>3, <1>12, <2>2 DEF Commanded, DrainKnows
    <3>2. /\ Open /\ ~l.stale
          /\ \A r \in Agent : l.turn \notin {turnOf[r], runOf[r]}
          /\ \A p \in processes : p.turn # l.turn
          /\ \A m \in launching : m # l => m.turn # l.turn
          /\ \A x \in {book, held.saved} :
                /\ l.turn \notin QueuedTurns(x)
                /\ \A r \in Agent : x.started[r] # l.turn
          /\ l.turn \notin ActiveTurns(held.saved)
      BY <2>2, <3>1 DEF AdmissionInv, Apart
    <3>3. \A m \in launching' : m # l => m.turn # l.turn
      BY <1>12, <3>1, <3>2
    <3>4. l.turn \notin QueuedTurns(book') /\ \A r \in Agent : book'.started[r] # l.turn
      BY <1>5, <1>7, <1>9, <3>2
    <3> QED
      BY <1>7, <3>2, <3>3, <3>4 DEF Open
  <2> QED
    BY <2>1, <2>2 DEF Apart
<1>18. Waiting'
  <2>1. \A r \in Agent : r # s /\ Busy(r)' => Busy(r)
    BY <1>7, <1>12 DEF Busy
  <2>2. \A r \in Agent : \A u : Doing(r, u) => Doing(r, u)'
    BY <1>7, <1>12 DEF Doing
  <2>3. ASSUME NEW e \in Queue(book'), Busy(e.sess)' PROVE e.turn \in crossed'
    <3>1. e \in Queue(book) /\ e.sess \in Agent /\ e.sess # s
      BY <1>5, <1>7, <1>8, <1>9, EntryIn
    <3> QED
      BY <1>13, <2>1, <2>3, <3>1 DEF AdmissionInv, Waiting
  <2>4. ASSUME Open, NEW e \in Queue(held.saved), Busy(e.sess)'
        PROVE  e.turn \in crossed' \/ Doing(e.sess, e.turn)'
    <3>1. e.sess \in Agent
      BY <1>8, <2>4, EntryIn DEF Shaped
    <3>2. CASE e.sess = s
      <4>1. e = q
        BY <1>3, <2>4, <3>2 DEF DrainKnows
      <4>2. Doing(s, t)'
        BY <1>12 DEF Doing
      <4> QED
        BY <1>4, <4>1, <4>2
    <3>3. CASE e.sess # s
      BY <1>13, <2>1, <2>2, <2>4, <3>1, <3>3 DEF AdmissionInv, Waiting
    <3> QED
      BY <3>2, <3>3
  <2>5. Open => /\ Queue(book') \subseteq Queue(held.saved)
                /\ \A e \in Queue(held.saved) : e.sess \in held.before => e.turn \in crossed'
    BY <1>5, <1>7, <1>9, <1>13 DEF AdmissionInv, Waiting
  <2> QED
    BY <1>7, <2>3, <2>4, <2>5 DEF Waiting, Open
<1>19. nturn <= nturn'
  BY <1>7, <1>8
<1> QED
  BY <1>4, <1>10, <1>14, <1>15, <1>16, <1>17, <1>18, <1>19, AwaitKeeps

-----------------------------------------------------------------------------
(* The open command is the head of the chain.                               *)
Chained == Open => asked # <<>>
LEMMA TailStays ==
    ASSUME Shaped, asked # <<>>, asked' = Tail(asked)
    PROVE  asked' \in Seq(RunCommand) /\ AskedStay
<1>1. asked \in Seq(RunCommand) /\ asked # <<>>
  BY DEF Shaped
<1>2. /\ Tail(asked) \in Seq(RunCommand) /\ Len(Tail(asked)) = Len(asked) - 1
      /\ \A i \in 1..Len(asked) - 1 : Tail(asked)[i] = asked[i + 1]
  BY <1>1
<1>3. \A i \in DOMAIN Tail(asked) : \E j \in DOMAIN asked : Tail(asked)[i] = asked[j]
  BY <1>1, <1>2
<1> QED
  BY <1>2, <1>3 DEF AskedStay

(* What a launch that waited writes.                                        *)
LEMMA ResumedIs ==
    ASSUME NEW b \in RunBook, NEW l \in Launch, NEW s, s = l.sess, NEW t, t = l.turn
    PROVE  /\ Resumed(b, l) \in RunBook
           /\ Resumed(b, l).queue = b.queue /\ Resumed(b, l).leases = b.leases
           /\ Resumed(b, l).facts = b.facts
           /\ Resumed(b, l).started = [b.started EXCEPT ![s] = t]
           /\ \A r \in Agent : r # s => Resumed(b, l).status[r] = b.status[r]
           /\ Resumed(b, l).status[s] = "running" \/ l.stale
<1>1. s \in Agent /\ t \in Turn /\ l.stale \in BOOLEAN
  BY DEF Launch
<1>2. PICK c : c = Running(b, s, t)
  OBVIOUS
<1>3. /\ c \in RunBook /\ c.queue = b.queue /\ c.leases = b.leases /\ c.facts = b.facts
      /\ c.started = [b.started EXCEPT ![s] = t]
      /\ c.status = [b.status EXCEPT ![s] = "running"]
  BY <1>1, <1>2, RunningIs
<1>4. PICK d : d = Resumed(b, l)
  OBVIOUS
<1>5. d = IF l.stale THEN [c EXCEPT !.status = b.status] ELSE c
  BY <1>2, <1>4 DEF Resumed
<1>6. CASE l.stale
  <2>1. d = [c EXCEPT !.status = b.status]
    BY <1>5, <1>6
  <2>2. /\ d \in RunBook /\ d.queue = c.queue /\ d.leases = c.leases /\ d.facts = c.facts
        /\ d.started = c.started /\ d.status = b.status
    BY <1>3, <2>1 DEF RunBook
  <2> QED
    BY <1>3, <1>4, <1>6, <2>2
<1>7. CASE ~l.stale
  <2>1. d = c
    BY <1>5, <1>7
  <2>2. c.status[s] = "running" /\ \A r \in Agent : r # s => c.status[r] = b.status[r]
    BY <1>1, <1>3 DEF RunBook
  <2> QED
    BY <1>3, <1>4, <2>1, <2>2
<1> QED
  BY <1>6, <1>7

(* A launch that waited goes on.                                            *)
LEMMA ListenedKeeps ==
    ASSUME AdmissionInv, Chained, NEW l \in launching, Listened(l)
    PROVE  AdmissionInv'
<1>1. PICK s : s = l.sess
  OBVIOUS
<1>2. PICK t : t = l.turn
  OBVIOUS
<1>3. PICK b : b = book
  OBVIOUS
<1>4. PICK d : d = Resumed(b, l)
  OBVIOUS
<1>5. /\ b \in RunBook /\ BookFine(b, nturn, crossed) /\ nturn \in Nat /\ Shaped /\ Apart /\ Meets
      /\ Owned /\ Waiting
  BY <1>3 DEF AdmissionInv, BooksFine, Books, Shaped
<1>6. l \in Launch /\ s \in Agent /\ t \in Turn /\ t # 0
  BY <1>1, <1>2, <1>5 DEF Shaped, Launch, Turn
<1>7. /\ d \in RunBook /\ d.queue = b.queue /\ d.leases = b.leases /\ d.facts = b.facts
      /\ d.started = [b.started EXCEPT ![s] = t]
      /\ \A r \in Agent : r # s => d.status[r] = b.status[r]
      /\ d.status[s] = "running" \/ l.stale
  BY <1>1, <1>2, <1>4, <1>5, <1>6, ResumedIs
<1>8. /\ book' = d /\ bookDisk' = book' /\ launching' = launching \ {l} /\ nturn' = nturn
      /\ Launches(s, t) /\ epoch' = epoch
      /\ \/ held' = held /\ asked' = asked /\ ~Commanded(l)
         \/ held' = NoCmd /\ asked' = Tail(asked) /\ Commanded(l)
  <2>1. l.by = "drain" <=> ~Commanded(l)
    BY <1>6 DEF Launch, Commanded
  <2>2. CASE l.by = "drain"
    BY <1>1, <1>2, <1>3, <1>4, <2>1, <2>2 DEF Listened, Save
  <2>3. CASE l.by # "drain"
    BY <1>1, <1>2, <1>3, <1>4, <2>1, <2>3 DEF Listened, Save, Commits
  <2> QED
    BY <2>2, <2>3
<1>9. crossed \subseteq crossed' /\ runOf' \in [Agent -> Nat] /\ turnOf' \in [Agent -> Nat]
      /\ processes' \subseteq Process
  BY <1>5, <1>6, <1>8, LaunchesTypes
<1>10. AskedStay /\ asked' \in Seq(RunCommand)
  <2>1. CASE asked' = asked
    BY <1>5, <2>1, Untouched DEF Shaped
  <2>2. CASE asked' # asked
    <3>1. asked # <<>> /\ asked' = Tail(asked)
      BY <1>5, <1>8, <2>2 DEF Apart, Chained
    <3> QED
      BY <1>5, <3>1, TailStays
  <2> QED
    BY <2>1, <2>2
<1>11. Shaped'
  BY <1>5, <1>7, <1>8, <1>9, <1>10, ShapedKept DEF Shaped
<1>12. Names(t, s) /\ Busy(s)
  BY <1>1, <1>2 DEF Names, Busy
<1>13. \A r \in Agent : Names(t, r) => r = s
  BY <1>5, <1>6, <1>12 DEF Owned
<1>14. \A m \in launching : m # l /\ m.turn = t => t \in crossed
  <2> SUFFICES ASSUME NEW m \in launching, m # l, m.turn = t PROVE t \in crossed
    OBVIOUS
  <2>1. m.sess \in Agent /\ Names(t, m.sess)
    BY <1>5 DEF Names, Shaped, Launch
  <2>2. m.sess = s
    BY <1>13, <2>1
  <2> QED
    BY <1>1, <1>2, <1>5, <2>2 DEF Meets
<1>15. \A q \in Queue(book) : q.sess = s => q.turn \in crossed
  BY <1>5, <1>12 DEF Waiting
<1>16. t \in QueuedTurns(book) => t \in crossed
  <2> SUFFICES ASSUME t \in QueuedTurns(book) PROVE t \in crossed
    OBVIOUS
  <2>1. PICK q \in Queue(book) : q.turn = t
    BY QueuedIs
  <2>2. q.sess \in Agent
    BY <1>5, <2>1, EntryIn DEF Shaped
  <2>3. book \in Books /\ InBook(book, t, q.sess)
    BY <2>1 DEF InBook, Books
  <2>4. Names(t, q.sess)
    BY <2>3 DEF Names
  <2>5. q.sess = s
    BY <1>13, <2>2, <2>4
  <2> QED
    BY <1>15, <2>1, <2>5
<1>17. Queue(d) = Queue(b) /\ QueuedTurns(d) = QueuedTurns(b) /\ ActiveTurns(d) = ActiveTurns(b)
  BY <1>7 DEF Queue, QueuedTurns, ActiveTurns
<1>18. Counted(d) = Counted(b)
  BY <1>7, <1>17 DEF Counted
<1>19. StartsIn(s, t)
  <2>1. \A m \in launching' : Commanded(m) => Open' /\ m.turn # t
    <3> SUFFICES ASSUME NEW m \in launching', Commanded(m) PROVE Open' /\ m.turn # t
      OBVIOUS
    <3>1. m \in launching /\ m # l
      BY <1>8
    <3>2. ~Commanded(l)
      BY <1>5, <3>1 DEF Apart, Commanded
    <3>3. Open /\ m.turn # t
      BY <1>2, <1>5, <3>1 DEF Apart
    <3> QED
      BY <1>8, <3>2, <3>3 DEF Open
  <2> QED
    BY <1>1, <1>2, <1>8, <1>10, <1>14, <2>1 DEF StartsIn
<1>20. StartsBook(s, t)
  <2>1. t \in ActiveTurns(book)  \cup crossed
    BY <1>2 DEF AdmissionInv, Leasing
  <2>2. l.stale => t \in crossed
    BY <1>2, <1>5 DEF Meets
  <2>3. book'.started = [book.started EXCEPT ![s] = t]
    BY <1>3, <1>7, <1>8
  <2>4. /\ \A r \in Agent : r # s => book'.status[r] = book.status[r]
        /\ book'.status[s] = "running" \/ t \in crossed
    BY <1>3, <1>7, <1>8, <2>2
  <2> QED
    BY <1>3, <1>8, <1>9, <1>15, <1>16, <1>17, <1>18, <2>1, <2>3, <2>4 DEF StartsBook
<1>21. StartsFresh(s, t)
  <2>1. \A p \in processes : p.turn = t => t \in crossed
    BY <1>2 DEF AdmissionInv, Lives
  <2>2. runOf[s] = 0 \/ runOf[s] \in crossed
    BY <1>1, <1>5 DEF Meets
  <2>3. ~Gone(s)
    BY <1>1 DEF Gone
  <2>4. ASSUME Open', NEW q \in Queue(held.saved), q.sess = s
        PROVE  q.turn \in crossed \/ q.turn = t
    <3>1. Open
      BY <1>8, <2>4 DEF Open
    <3>2. q.turn \in Turn
      BY <1>5, <2>4, <3>1, EntryIn DEF Shaped
    <3>3. q.turn \in crossed \/ Doing(s, q.turn)
      BY <1>5, <1>12, <2>4, <3>1 DEF Waiting
    <3> QED
      BY <1>1, <1>2, <1>5, <3>2, <3>3 DEF Doing, Meets, Turn
  <2>5. ASSUME Open, NEW r \in Agent, held.saved.started[r] = t PROVE t \in crossed
    BY <1>2, <2>5 DEF AdmissionInv, Remembered, Remembers, StartsOnce
  <2> QED
    BY <2>1, <2>2, <2>3, <2>4, <2>5 DEF StartsFresh
<1>22. Starts(s, t)
  BY <1>19, <1>20, <1>21 DEF Starts
<1>23. Owned'
  <2>1. \A u \in Turn, r \in Agent : Names(u, r)' => Names(u, r) \/ (u = t /\ r = s)
    BY <1>5, <1>6, <1>22, StartNames
  <2>2. nturn' \in Nat /\ nturn <= nturn'
    BY <1>5, <1>8
  <2> QED
    BY <1>5, <1>12, <2>1, <2>2, OwnedKept
<1>24. BookFine(book', nturn', crossed')
  <2>1. Numbered(d, nturn)
    BY <1>5, <1>18 DEF Numbered, BookFine
  <2>2. Cap(d, crossed')
    BY <1>5, <1>7, <1>9, <1>18, CapStays
  <2>3. OneEntry(d)
    BY <1>5, <1>7 DEF BookFine, OneEntry
  <2>4. WaitsOnce(d, crossed')
    <3> SUFFICES ASSUME NEW e \in Queue(d)
                 PROVE  /\ e.turn \in ActiveTurns(d) => e.turn \in crossed'
                        /\ \A r \in Agent : d.started[r] = e.turn => e.turn \in crossed'
      BY DEF WaitsOnce
    <3>1. e \in Queue(b) /\ e.turn \in QueuedTurns(book)
      BY <1>3, <1>17, QueuedIs
    <3>2. \A r \in Agent : d.started[r] = t \/ d.started[r] = b.started[r]
      BY <1>5, <1>7 DEF RunBook
    <3> QED
      BY <1>5, <1>9, <1>16, <1>17, <3>1, <3>2 DEF BookFine, WaitsOnce
  <2> QED
    BY <1>8, <2>1, <2>2, <2>3, <2>4 DEF BookFine
<1>25. nturn <= nturn'
  BY <1>5, <1>8
<1> QED
  BY <1>6, <1>11, <1>22, <1>23, <1>24, <1>25, StartKeeps

-----------------------------------------------------------------------------
(* A command is rolled back, to book b.                                     *)
RolledBack(l, b) ==
  /\ book' = b /\ bookDisk' = bookDisk /\ held' = NoCmd /\ nturn' = nturn /\ epoch' = epoch
  /\ crossed \subseteq crossed' /\ asked' = Tail(asked)
  /\ runOf' \in [Agent -> Nat] /\ turnOf' \in [Agent -> Nat]
  /\ \A s \in Agent : runOf[s] # 0 =>
        \/ runOf[s] \in crossed' /\ runOf'[s] = 0
        \/ s \in held.before /\ runOf'[s] = runOf[s]
  /\ Fewer(runOf', runOf) /\ Fewer(turnOf', turnOf)
  /\ \A s \in Agent : turnOf'[s] = 0 =>
        turnOf[s] = 0 \/ s = l.sess \/ (runOf[s] # 0 /\ runOf[s] \in crossed')
  /\ launching' \subseteq Launch
  /\ \A m \in launching' : /\ m.turn \in crossed' /\ ~Commanded(m)
                           /\ \E k \in launching : k.sess = m.sess /\ k.turn = m.turn
  /\ \A m, k \in launching' : m.by = k.by => m = k
  /\ \A m \in launching : m # l => m.turn \in crossed'
  /\ processes' \subseteq Process /\ ProcessesStay
  /\ \A u \in Differ(ActiveTurns(b), ActiveTurns(book)) : u = l.turn \/ u \in crossed'

StaleAre(M, L) == M = {[m EXCEPT !.stale = TRUE] : m \in L}
LEMMA Staled ==
    ASSUME NEW L \in SUBSET Launch, NEW M, StaleAre(M, L)
    PROVE  /\ M \subseteq Launch
           /\ \A m \in M : \E k \in L : m = [k EXCEPT !.stale = TRUE]
           /\ \A m \in M : \E k \in L : /\ k.sess = m.sess /\ k.turn = m.turn /\ k.by = m.by
                                        /\ m = [k EXCEPT !.stale = TRUE]
<1>1. ASSUME NEW m \in M PROVE \E k \in L : m = [k EXCEPT !.stale = TRUE]
  BY DEF StaleAre
<1>2. ASSUME NEW k \in L, NEW m, m = [k EXCEPT !.stale = TRUE]
      PROVE  m \in Launch /\ k.sess = m.sess /\ k.turn = m.turn /\ k.by = m.by
  BY <1>2 DEF Launch
<1>3. ASSUME NEW m \in M
      PROVE  m \in Launch
             /\ \E k \in L : /\ k.sess = m.sess /\ k.turn = m.turn /\ k.by = m.by
                             /\ m = [k EXCEPT !.stale = TRUE]
  <2>1. PICK k \in L : m = [k EXCEPT !.stale = TRUE]
    BY <1>1
  <2> QED
    BY <1>2, <2>1
<1> QED
  BY <1>1, <1>3

(* What the catch of the executor does.                                     *)
LEMMA RollsBack ==
    ASSUME AdmissionInv, NEW l \in launching, Commanded(l), nturn' = nturn,
           NEW C, C \in [Agent -> Nat], \A s \in Agent : C[s] = turnOf[s] \/ (s = l.sess /\ C[s] = 0),
           RollBackTo(held, l, C), NEW b, b = held.saved
    PROVE  RolledBack(l, b)
<1>1. PICK N : N = {s \in Agent : runOf[s] # 0 /\ s \notin held.before}
  OBVIOUS
<1>2. Shaped /\ Apart
  BY DEF AdmissionInv
<1>3. PICK L : L = launching \ {l}
  OBVIOUS
<1>4. L \in SUBSET Launch /\ StaleAre(launching', L)
  BY <1>2, <1>3 DEF Shaped, StaleAre, RollBackTo
<1>5. /\ book' = b /\ bookDisk' = bookDisk /\ held' = NoCmd /\ epoch' = epoch
      /\ crossed' = crossed \cup ((Differ(ActiveTurns(b), ActiveTurns(book))
                                   \cup {runOf[s] : s \in N} \cup {m.turn : m \in launching})
                                  \ {l.turn})
      /\ asked' = Tail(asked)
  BY <1>1 DEF RollBackTo
<1>6. /\ runOf' = [s \in Agent |-> IF s \in N THEN 0 ELSE runOf[s]]
      /\ turnOf' = [s \in Agent |-> IF s \in N THEN 0 ELSE C[s]]
  BY <1>1 DEF RollBackTo
<1>7. runOf' \in [Agent -> Nat] /\ turnOf' \in [Agent -> Nat]
  BY <1>2, <1>6 DEF Shaped
<1>8. /\ \A s \in Agent : runOf'[s] = IF s \in N THEN 0 ELSE runOf[s]
      /\ \A s \in Agent : turnOf'[s] = IF s \in N THEN 0 ELSE C[s]
  BY <1>6
<1>9. \A s \in Agent : runOf[s] # l.turn
  BY <1>2 DEF Apart
<1>10. \A s \in N : runOf[s] # 0 /\ runOf[s] \in crossed'
  BY <1>1, <1>5, <1>9
<1>11. \A s \in Agent : runOf[s] # 0 =>
        \/ runOf[s] \in crossed' /\ runOf'[s] = 0
        \/ s \in held.before /\ runOf'[s] = runOf[s]
  BY <1>1, <1>8, <1>10
<1>12. Fewer(runOf', runOf) /\ Fewer(turnOf', turnOf)
  BY <1>8 DEF Fewer
<1>13. \A s \in Agent : turnOf'[s] = 0 =>
        turnOf[s] = 0 \/ s = l.sess \/ (runOf[s] # 0 /\ runOf[s] \in crossed')
  BY <1>8, <1>10
<1>14. \A m \in launching : m # l => m.turn # l.turn /\ m.turn \in crossed' /\ ~Commanded(m)
  <2> SUFFICES ASSUME NEW m \in launching, m # l
               PROVE  m.turn # l.turn /\ m.turn \in crossed' /\ ~Commanded(m)
    OBVIOUS
  <2>1. m.turn # l.turn /\ ~Commanded(m)
    BY <1>2 DEF Apart, Commanded
  <2> QED
    BY <1>5, <2>1
<1>15. /\ launching' \subseteq Launch
       /\ \A m \in launching' : \E k \in L : /\ k.sess = m.sess /\ k.turn = m.turn /\ k.by = m.by
                                             /\ m = [k EXCEPT !.stale = TRUE]
  <2>1. PICK M : M = launching'
    OBVIOUS
  <2>2. StaleAre(M, L)
    BY <1>4, <2>1
  <2>3. /\ M \subseteq Launch
        /\ \A m \in M : \E k \in L : /\ k.sess = m.sess /\ k.turn = m.turn /\ k.by = m.by
                                     /\ m = [k EXCEPT !.stale = TRUE]
    BY <1>4, <2>2, Staled
  <2> QED
    BY <2>1, <2>3
<1>16. \A m \in launching' : /\ m.turn \in crossed' /\ ~Commanded(m)
                             /\ \E k \in launching : k.sess = m.sess /\ k.turn = m.turn
  <2> SUFFICES ASSUME NEW m \in launching'
               PROVE  /\ m.turn \in crossed' /\ ~Commanded(m)
                      /\ \E k \in launching : k.sess = m.sess /\ k.turn = m.turn
    OBVIOUS
  <2>1. PICK k \in L : k.sess = m.sess /\ k.turn = m.turn /\ k.by = m.by
    BY <1>15
  <2>2. k \in launching /\ k # l
    BY <1>3, <2>1
  <2> QED
    BY <1>14, <2>1, <2>2 DEF Commanded
<1>17. \A m, k \in launching' : m.by = k.by => m = k
  <2> SUFFICES ASSUME NEW m \in launching', NEW k \in launching', m.by = k.by PROVE m = k
    OBVIOUS
  <2>1. PICK x \in L : x.by = m.by /\ m = [x EXCEPT !.stale = TRUE]
    BY <1>15
  <2>2. PICK y \in L : y.by = k.by /\ k = [y EXCEPT !.stale = TRUE]
    BY <1>15
  <2>3. x = y
    BY <1>2, <1>3, <2>1, <2>2 DEF Apart
  <2> QED
    BY <2>1, <2>2, <2>3
<1>18. processes' \subseteq Process /\ ProcessesStay
  <2>1. PICK D : D = {p \in processes : p.sess \in N /\ p.turn = runOf[p.sess]}
    OBVIOUS
  <2>2. ToldToStop(processes', processes, D)
    <3>1. processes' = {IF p.sess \in N /\ p.turn = runOf[p.sess] THEN [p EXCEPT !.doomed = TRUE]
                        ELSE p : p \in processes}
      BY <1>1 DEF RollBackTo
    <3>2. \A p \in processes : p \in D <=> p.sess \in N /\ p.turn = runOf[p.sess]
      BY <2>1
    <3> QED
      BY <3>1, <3>2 DEF ToldToStop
  <2> QED
    BY <1>2, <2>2, DoomedStay
<1>19. crossed \subseteq crossed'
       /\ \A u \in Differ(ActiveTurns(b), ActiveTurns(book)) : u = l.turn \/ u \in crossed'
  BY <1>5
<1> QED
  BY <1>5, <1>7, <1>11, <1>12, <1>13, <1>14, <1>15, <1>16, <1>17, <1>18, <1>19 DEF RolledBack

(* Every turn stays of one session.                                         *)
LEMMA BackOwned ==
    ASSUME AdmissionInv, Open, NEW l, NEW b, b = held.saved, RolledBack(l, b)
    PROVE  Owned'
<1>1. ASSUME NEW t \in Turn, NEW s \in Agent, Names(t, s)' PROVE Names(t, s)
  <2>1. \A c \in Books' : c \in Books
    BY DEF Books, Open, RolledBack
  <2>2. (\E c \in Books' : InBook(c, t, s)) => \E c \in Books : InBook(c, t, s)
    BY <2>1
  <2>3. turnOf'[s] = t => turnOf[s] = t
    BY DEF RolledBack, Fewer, Turn
  <2>4. runOf'[s] = t => runOf[s] = t
    BY DEF RolledBack, Fewer, Turn
  <2>5. (\E m \in launching' : m.turn = t /\ m.sess = s) => \E m \in launching : m.turn = t /\ m.sess = s
    BY DEF RolledBack
  <2>6. (\E p \in processes' : p.turn = t /\ p.sess = s) => \E p \in processes : p.turn = t /\ p.sess = s
    BY DEF RolledBack, ProcessesStay
  <2> QED
    BY <1>1, <2>2, <2>3, <2>4, <2>5, <2>6 DEF Names
<1>2. nturn' = nturn /\ nturn \in Nat /\ Owned
  BY DEF RolledBack, AdmissionInv, Shaped
<1> QED
  BY <1>1, <1>2, OwnedKept

(* A turn that the command found in the queue has crossed if it was still   *)
(* there, and in progress at the same time.                                 *)
LEMMA BackCrossed ==
    ASSUME AdmissionInv, Open, NEW l \in launching, Commanded(l), NEW b, b = held.saved,
           RolledBack(l, b), NEW q \in Queue(b), Doing(q.sess, q.turn)
    PROVE  q.turn \in crossed'
<1>1. PICK s : s = q.sess
  OBVIOUS
<1>2. PICK t : t = q.turn
  OBVIOUS
<1>3. b \in RunBook /\ s \in Agent /\ t \in Turn /\ t # 0 /\ t \in QueuedTurns(b)
  BY <1>1, <1>2, EntryIn, QueuedIs DEF AdmissionInv, Shaped, Turn
<1>4. t # l.turn /\ crossed \subseteq crossed'
  BY <1>3 DEF AdmissionInv, Apart, RolledBack
<1>5. runOf[s] = t => t \in crossed'
  <2> SUFFICES ASSUME runOf[s] = t PROVE t \in crossed'
    OBVIOUS
  <2>1. t \in crossed' \/ s \in held.before
    BY <1>3 DEF RolledBack
  <2> QED
    BY <1>1, <1>2, <1>4, <2>1 DEF AdmissionInv, Waiting
<1>6. turnOf[s] = t => t \in crossed'
  <2> SUFFICES ASSUME turnOf[s] = t PROVE t \in crossed'
    OBVIOUS
  <2>1. t \in ActiveTurns(book) \cup crossed
    BY <1>3 DEF AdmissionInv, Leasing, LeasesMatchTurns
  <2>2. CASE t \in ActiveTurns(b)
    <3>1. WaitsOnce(b, crossed)
      BY DEF AdmissionInv, BooksFine, Books, BookFine
    <3> QED
      BY <1>2, <1>4, <2>2, <3>1 DEF WaitsOnce
  <2>3. CASE t \in ActiveTurns(book) \ ActiveTurns(b)
    BY <1>4, <2>3 DEF RolledBack, Differ
  <2> QED
    BY <1>4, <2>1, <2>2, <2>3
<1>7. \A m \in launching : m.turn = t => t \in crossed'
  BY <1>4 DEF RolledBack
<1> QED
  BY <1>1, <1>2, <1>5, <1>6, <1>7 DEF Doing

(* A turn that is in the queue again is not in progress, or crossed.        *)
LEMMA BackWaiting ==
    ASSUME AdmissionInv, Open, NEW l \in launching, Commanded(l), NEW b, b = held.saved,
           RolledBack(l, b)
    PROVE  Waiting'
<1>1. ~Open' /\ book' = b /\ crossed \subseteq crossed'
  BY DEF Open, RolledBack
<1>2. ASSUME NEW q \in Queue(b), Busy(q.sess)' PROVE q.turn \in crossed'
  <2>1. q.sess \in Agent
    BY <1>2, EntryIn DEF AdmissionInv, Shaped
  <2>2. Busy(q.sess)
    BY <1>2, <2>1 DEF Busy, RolledBack, Fewer
  <2>3. q.turn \in crossed \/ Doing(q.sess, q.turn)
    BY <1>2, <2>2 DEF AdmissionInv, Waiting
  <2> QED
    BY <1>1, <1>2, <2>3, BackCrossed
<1> QED
  BY <1>1, <1>2 DEF Waiting

(* A process whose turn is in the queue again was told to stop, or          *)
(* crossed.                                                                 *)
LEMMA BackLives ==
    ASSUME AdmissionInv, Open, NEW l \in launching, Commanded(l), NEW b, b = held.saved,
           RolledBack(l, b)
    PROVE  Lives'
<1>1. ~Open' /\ book' = b /\ crossed \subseteq crossed' /\ Shaped /\ Owned
  BY DEF Open, RolledBack, AdmissionInv
<1> SUFFICES ASSUME NEW p \in processes', p.turn \notin crossed'
             PROVE  /\ p.turn \notin QueuedTurns(b)
                    /\ \A m \in launching' : m.turn # p.turn
                    /\ \A r \in processes' : r.turn = p.turn => r = p
                    /\ ~p.doomed => runOf'[p.sess] = p.turn
  BY <1>1 DEF Lives
<1>2. PICK k \in processes : k.turn = p.turn /\ k.sess = p.sess /\ (k.doomed => p.doomed)
  BY DEF RolledBack, ProcessesStay
<1>3. p.sess \in Agent /\ p.turn \in Turn /\ p.turn # 0
  BY <1>1, <1>2 DEF Shaped, Process, Turn
<1>4. /\ Open /\ p.turn \in QueuedTurns(b) => runOf[p.sess] = p.turn
      /\ \A r \in processes : r.turn = k.turn => r = k
      /\ ~p.doomed => runOf[p.sess] = p.turn
  BY <1>1, <1>2 DEF AdmissionInv, Lives
<1>5. p.turn \notin QueuedTurns(b)
  <2> SUFFICES ASSUME p.turn \in QueuedTurns(b) PROVE FALSE
    OBVIOUS
  <2>1. PICK q \in Queue(b) : q.turn = p.turn
    BY QueuedIs
  <2>2. q.sess \in Agent
    BY <1>1, <2>1, EntryIn DEF Shaped
  <2>3. Names(p.turn, q.sess)
    <3>1. b \in Books /\ InBook(b, p.turn, q.sess)
      BY <2>1 DEF Books, InBook
    <3> QED
      BY <3>1 DEF Names
  <2>4. Names(p.turn, p.sess)
    BY <1>2 DEF Names
  <2>5. q.sess = p.sess
    BY <1>1, <1>3, <2>2, <2>3, <2>4 DEF Owned
  <2>6. Doing(q.sess, q.turn)
    BY <1>4, <2>1, <2>5 DEF Doing
  <2> QED
    BY <2>1, <2>6, BackCrossed
<1>6. \A m \in launching' : m.turn # p.turn
  BY DEF RolledBack
<1>7. \A r \in processes' : r.turn = p.turn => r = p
  BY <1>2, <1>4 DEF RolledBack, ProcessesStay
<1>8. runOf[p.sess] = p.turn => runOf'[p.sess] = p.turn
  BY <1>3 DEF RolledBack
<1> QED
  BY <1>4, <1>5, <1>6, <1>7, <1>8

(* Leases that came back, and those that went, are of turns that crossed.   *)
LEMMA BackLeasing ==
    ASSUME AdmissionInv, Open, NEW l \in launching, Commanded(l), NEW b, b = held.saved,
           RolledBack(l, b)
    PROVE  Leasing'
<1>1. book' = b /\ crossed \subseteq crossed' /\ b \in RunBook /\ Leasing
  BY DEF RolledBack, AdmissionInv, Shaped
<1>2. /\ \A s \in Agent : turnOf[s] # l.turn
      /\ l.turn \notin ActiveTurns(b)
  BY DEF AdmissionInv, Apart
<1>3. ASSUME NEW s \in Agent, turnOf'[s] # 0
      PROVE  turnOf'[s] \in ActiveTurns(b) \cup crossed'
  <2>1. turnOf'[s] = turnOf[s]
    BY <1>3 DEF RolledBack, Fewer
  <2>2. turnOf[s] \in ActiveTurns(book) \cup crossed
    BY <1>1, <1>3, <2>1 DEF Leasing, LeasesMatchTurns
  <2> QED
    BY <1>1, <1>2, <2>1, <2>2 DEF RolledBack, Differ
<1>4. ASSUME NEW u \in ActiveTurns(b), u \notin crossed' PROVE InProgress(u)'
  <2>1. u # l.turn /\ u \in ActiveTurns(book) /\ u # 0
    BY <1>1, <1>2, <1>4, ActiveIs DEF RolledBack, Differ, Turn
  <2>2. InProgress(u)
    BY <1>1, <1>4, <2>1 DEF Leasing, LeasesMatchTurns
  <2>3. \A m \in launching : m.turn # u
    BY <1>4, <2>1 DEF RolledBack
  <2>4. PICK s \in Agent : turnOf[s] = u
    BY <2>2, <2>3 DEF InProgress
  <2>5. turnOf'[s] = u
    <3> SUFFICES ASSUME turnOf'[s] = 0 PROVE FALSE
      BY <2>4 DEF RolledBack, Fewer
    <3>1. CASE s = l.sess
      BY <1>1, <1>4, <2>1, <2>4, <3>1 DEF AdmissionInv, Meets
    <3>2. CASE runOf[s] # 0 /\ runOf[s] \in crossed'
      BY <1>4, <2>1, <2>4, <3>2 DEF AdmissionInv, OneTurn
    <3> QED
      BY <2>1, <2>4, <3>1, <3>2 DEF RolledBack
  <2> QED
    BY <2>5 DEF InProgress
<1>5. \A m \in launching' : m.turn \in crossed'
  BY DEF RolledBack
<1> QED
  BY <1>1, <1>3, <1>4, <1>5 DEF Leasing, LeasesMatchTurns

(* The last turns are accounted for in the book that comes back.            *)
LEMMA BackRemembered ==
    ASSUME AdmissionInv, Chained, Open, NEW l \in launching, Commanded(l), NEW b, b = held.saved,
           RolledBack(l, b)
    PROVE  Remembered'
<1>1. /\ ~Open' /\ book' = b /\ crossed \subseteq crossed' /\ b \in RunBook
      /\ Remembers(b)
  BY DEF Open, RolledBack, AdmissionInv, Remembered, Shaped
<1>2. AskedStay
  BY TailStays DEF Chained, RolledBack, AdmissionInv
<1>3. LastCounts(b)'
  <2> SUFFICES ASSUME NEW s \in Agent, b.started[s] # 0
               PROVE  \/ b.started[s] \in Counted(b) \cup crossed'
                      \/ b.status[s] = "killed" /\ Gone(s)'
    BY <1>1 DEF LastCounts
  <2>1. CASE b.status[s] = "killed" /\ Gone(s)
    <3>1. book'.status[s] = "killed" /\ \A m \in launching' : m.sess # s
      BY <1>1, <2>1 DEF Gone, RolledBack
    <3>2. \A i \in DOMAIN asked' : asked'[i].kind = "complete" => asked'[i].sess # s
      BY <1>2, <2>1 DEF Gone, AskedStay
    <3> QED
      BY <2>1, <3>1, <3>2 DEF Gone
  <2>2. CASE b.started[s] \in Counted(b) \cup crossed
    BY <1>1, <2>2
  <2> QED
    BY <1>1, <2>1, <2>2 DEF Remembers, LastCounts
<1>4. Runs(b)'
  BY <1>1 DEF Remembers, Runs, RolledBack, Fewer
<1>5. StartsOnce(b)'
  <2>1. \A m \in launching' : m.turn \in crossed'
    BY DEF RolledBack
  <2>2. \A s \in Agent : b.started[s] \in QueuedTurns(b) => b.started[s] \in crossed'
    <3> SUFFICES ASSUME NEW s \in Agent, b.started[s] \in QueuedTurns(b)
                 PROVE  b.started[s] \in crossed'
      OBVIOUS
    <3>1. WaitsOnce(b, crossed)
      BY DEF AdmissionInv, BooksFine, Books, BookFine
    <3>2. PICK q \in Queue(b) : q.turn = b.started[s]
      BY QueuedIs
    <3> QED
      BY <1>1, <3>1, <3>2 DEF WaitsOnce
  <2> QED
    BY <1>1, <2>1, <2>2 DEF StartsOnce
<1> QED
  BY <1>1, <1>3, <1>4, <1>5 DEF Remembered, Remembers, LastCounts, Runs, StartsOnce

(* A rollback keeps the invariant.                                          *)
LEMMA BackKeeps ==
    ASSUME AdmissionInv, Chained, Open, NEW l \in launching, Commanded(l), NEW b, b = held.saved,
           RolledBack(l, b)
    PROVE  AdmissionInv'
<1>1. /\ book' = b /\ bookDisk' = bookDisk /\ held' = NoCmd /\ nturn' = nturn /\ epoch' = epoch
      /\ crossed \subseteq crossed' /\ Shaped /\ b \in RunBook /\ nturn \in Nat
  BY DEF RolledBack, AdmissionInv, Shaped
<1>2. Shaped'
  <2>1. asked' \in Seq(RunCommand)
    BY <1>1, TailStays DEF Chained, RolledBack
  <2> QED
    BY <1>1, <2>1 DEF RolledBack, Shaped, Open
<1>3. BooksFine'
  <2>1. \A c \in Books' : c \in Books
    BY <1>1 DEF Books, Open
  <2>2. ASSUME NEW c \in Books PROVE BookFine(c, nturn, crossed')
    <3>1. c \in RunBook /\ nturn <= nturn
      BY <1>1, <2>2 DEF Books, Shaped
    <3>2. BookFine(c, nturn, crossed)
      BY <2>2 DEF AdmissionInv, BooksFine
    <3> QED
      BY <1>1, <3>1, <3>2, FineStays
  <2> QED
    BY <1>1, <2>1, <2>2 DEF BooksFine
<1>4. Apart'
  BY DEF RolledBack, Apart
<1>5. Meets'
  <2> SUFFICES ASSUME NEW m \in launching'
               PROVE  /\ runOf'[m.sess] # 0 => {runOf'[m.sess], m.turn} \subseteq crossed'
                      /\ turnOf'[m.sess] # 0 => {turnOf'[m.sess], m.turn} \subseteq crossed'
                      /\ m.turn \in crossed'
    BY DEF Meets
  <2>1. PICK k \in launching : k.sess = m.sess /\ k.turn = m.turn
    BY DEF RolledBack
  <2>2. m.turn \in crossed' /\ k.sess \in Agent
    BY <1>1, <2>1 DEF RolledBack, Shaped, Launch
  <2>3. runOf'[k.sess] # 0 => runOf'[k.sess] \in crossed'
    BY <1>1, <2>1, <2>2 DEF RolledBack, Fewer, AdmissionInv, Meets
  <2>4. turnOf'[k.sess] # 0 => turnOf'[k.sess] \in crossed'
    BY <1>1, <2>1, <2>2 DEF RolledBack, Fewer, AdmissionInv, Meets
  <2> QED
    BY <2>1, <2>2, <2>3, <2>4
<1>6. OneTurn'
  BY DEF RolledBack, Fewer, OneTurn, AdmissionInv
<1>7. DiskRecovers'
  BY <1>1 DEF AdmissionInv, DiskRecovers, Recovers
<1>8. Owned' /\ Waiting' /\ Lives' /\ Leasing' /\ Remembered'
  BY BackOwned, BackWaiting, BackLives, BackLeasing, BackRemembered
<1> QED
  BY <1>2, <1>3, <1>4, <1>5, <1>6, <1>7, <1>8 DEF AdmissionInv

(* A launch fails.                                                          *)
LEMMA LaunchFailsKeeps ==
    ASSUME AdmissionInv, Chained, NEW l \in launching, LaunchFails(l)
    PROVE  AdmissionInv'
<1>1. CASE l.by = "drain"
  BY <1>1, DrainFailsKeeps
<1>2. CASE l.by # "drain"
  <2>1. Commanded(l) /\ Open
    BY <1>2 DEF AdmissionInv, Apart, Shaped, Launch, Commanded
  <2>2. PICK C : /\ C \in {[turnOf EXCEPT ![l.sess] = 0], turnOf}
                 /\ RollBackTo(held, l, C) /\ nturn' = nturn
    BY <1>2 DEF LaunchFails
  <2>3. C \in [Agent -> Nat] /\ \A s \in Agent : C[s] = turnOf[s] \/ (s = l.sess /\ C[s] = 0)
    BY <2>2 DEF AdmissionInv, Shaped
  <2>4. PICK b : b = held.saved
    OBVIOUS
  <2>5. RolledBack(l, b)
    BY <2>1, <2>2, <2>3, <2>4, RollsBack
  <2> QED
    BY <2>1, <2>4, <2>5, BackKeeps
<1> QED
  BY <1>1, <1>2

-----------------------------------------------------------------------------
(* What a restart makes of the row.                                         *)
Lost(b) == {b.started[s] : s \in Interrupted(b)} \ {0}
RestartOf(a, b) ==
  b = [a EXCEPT !.leases = {},
                !.status = [s \in Agent |-> IF s \in Interrupted(a) THEN "failed" ELSE @[s]],
                !.facts = @ \cup ({a.started[s] : s \in Interrupted(a)} \ {0})]
LEMMA RestartedIs ==
    ASSUME NEW a \in RunBook, NEW x, Recovers(a, x), NEW n \in Nat, BookFine(a, n, x),
           \A s \in Agent : a.started[s] # 0 => a.started[s] <= n,
           NEW b,
           RestartOf(a, b)
    PROVE  /\ b \in RunBook /\ b.queue = a.queue /\ b.started = a.started
           /\ ActiveTurns(b) = {} /\ BookFine(b, n, x)
           /\ \A s \in Agent : b.started[s] # 0 =>
                b.started[s] \in Counted(b) \cup x \/ b.status[s] = "killed"
<1>1. PICK T : T = [s \in Agent |-> IF s \in Interrupted(a) THEN "failed" ELSE a.status[s]]
  OBVIOUS
<1>2. PICK F : F = a.facts \cup Lost(a)
  OBVIOUS
<1>3. b = [a EXCEPT !.leases = {}, !.status = T, !.facts = F]
  BY <1>1, <1>2 DEF Lost, RunBook, RestartOf
<1>4. T \in [Agent -> Status]
  BY <1>1 DEF RunBook, Status
<1>5. Lost(a) \subseteq 1..n
  <2> SUFFICES ASSUME NEW s \in Agent, a.started[s] # 0 PROVE a.started[s] \in 1..n
    BY DEF Lost, Interrupted
  <2>1. a.started[s] \in Nat
    BY DEF RunBook
  <2> QED
    BY <2>1
<1>6. F \subseteq Turn /\ F \subseteq 1..n
  <2>1. a.facts \subseteq 1..n
    BY DEF BookFine, Numbered, Counted
  <2> QED
    BY <1>2, <1>5, <2>1 DEF Turn
<1>7. /\ b \in RunBook /\ b.queue = a.queue /\ b.started = a.started /\ b.leases = {}
      /\ b.status = T /\ b.facts = F
  BY <1>3, <1>4, <1>6 DEF RunBook
<1>8. Queue(b) = Queue(a) /\ QueuedTurns(b) = QueuedTurns(a) /\ ActiveTurns(b) = {}
  BY <1>7 DEF Queue, QueuedTurns, ActiveTurns
<1>9. Counted(b) \subseteq Counted(a) \cup x
  <2>1. Lost(a) \subseteq Counted(a) \cup x
    <3> SUFFICES ASSUME NEW s \in Interrupted(a), a.started[s] # 0
                 PROVE  a.started[s] \in Counted(a) \cup x
      BY DEF Lost
    <3>1. s \in Agent /\ a.status[s] # "killed"
      BY DEF Interrupted
    <3> QED
      BY <3>1 DEF Recovers, Counted
  <2> QED
    BY <1>2, <1>7, <1>8, <2>1 DEF Counted
<1>10. BookFine(b, n, x)
  <2>1. Numbered(b, n)
    BY <1>6, <1>7, <1>8 DEF Numbered, Counted, BookFine
  <2>2. Cap(b, x)
    BY <1>7, <1>9, CapStays
  <2>3. OneEntry(b)
    <3>1. b.queue = a.queue /\ OneEntry(a)
      BY <1>7 DEF BookFine
    <3> QED
      BY <3>1 DEF OneEntry
  <2>4. WaitsOnce(b, x)
    BY <1>7, <1>8 DEF BookFine, WaitsOnce
  <2> QED
    BY <2>1, <2>2, <2>3, <2>4 DEF BookFine
<1>11. ASSUME NEW s \in Agent, b.started[s] # 0
       PROVE  b.started[s] \in Counted(b) \cup x \/ b.status[s] = "killed"
  <2>1. CASE s \in Interrupted(a)
    <3>1. a.started[s] \in Lost(a)
      BY <1>7, <1>11, <2>1 DEF Lost
    <3> QED
      BY <1>2, <1>7, <3>1 DEF Counted
  <2>2. CASE s \notin Interrupted(a)
    <3>1. b.status[s] = a.status[s] /\ a.status[s] # "running"
      BY <1>1, <1>7, <2>2 DEF Interrupted
    <3>2. a.started[s] \in a.facts \cup QueuedTurns(a) \cup x \/ a.status[s] = "killed"
      BY <1>7, <1>11, <3>1 DEF Recovers
    <3> QED
      BY <1>2, <1>7, <1>8, <3>1, <3>2 DEF Counted
  <2> QED
    BY <2>1, <2>2
<1> QED
  BY <1>7, <1>8, <1>10, <1>11

(* A restart keeps the invariant.                                           *)
LEMMA RestartKeeps == ASSUME AdmissionInv, RestartRuntime PROVE AdmissionInv'
<1>1. PICK a : a = bookDisk
  OBVIOUS
<1>2. PICK b : b = book'
  OBVIOUS
<1>3. /\ book' = b /\ RestartOf(a, b) /\ bookDisk' = book' /\ processes' = {} /\ launching' = {}
      /\ held' = NoCmd /\ asked' = <<>> /\ epoch' = epoch /\ nturn' = nturn /\ crossed' = crossed
      /\ runOf' = [s \in Agent |-> 0] /\ turnOf' = [s \in Agent |-> 0]
  BY <1>1, <1>2 DEF RestartRuntime, Save, RestartOf
<1>4. \A s \in Agent : runOf'[s] = 0 /\ turnOf'[s] = 0
  BY <1>3
<1>5. /\ a \in RunBook /\ Recovers(a, crossed) /\ nturn \in Nat /\ BookFine(a, nturn, crossed)
      /\ Shaped /\ Owned /\ a \in Books
  BY <1>1 DEF AdmissionInv, Shaped, DiskRecovers, BooksFine, Books
<1>6. \A s \in Agent : a.started[s] # 0 => a.started[s] <= nturn
  <2> SUFFICES ASSUME NEW s \in Agent, a.started[s] # 0 PROVE a.started[s] <= nturn
    OBVIOUS
  <2>1. a.started[s] \in Turn
    BY <1>5 DEF RunBook, Turn
  <2>2. Names(a.started[s], s)
    BY <1>5 DEF Names, InBook
  <2> QED
    BY <1>5, <2>1, <2>2 DEF Owned
<1>7. /\ b \in RunBook /\ b.queue = a.queue /\ b.started = a.started
      /\ ActiveTurns(b) = {} /\ BookFine(b, nturn, crossed)
      /\ \A s \in Agent : b.started[s] # 0 =>
           b.started[s] \in Counted(b) \cup crossed \/ b.status[s] = "killed"
  BY <1>3, <1>5, <1>6, RestartedIs
<1>8. Queue(b) = Queue(a) /\ QueuedTurns(b) = QueuedTurns(a)
  BY <1>7 DEF Queue, QueuedTurns
<1>9. ~Open' /\ Books' = {b}
  BY <1>3 DEF Open, Books
<1>10. Shaped'
  <2>1. runOf' \in [Agent -> Nat] /\ turnOf' \in [Agent -> Nat]
    BY <1>3
  <2>2. asked' \in Seq(RunCommand)
    BY <1>3
  <2> QED
    BY <1>3, <1>5, <1>7, <2>1, <2>2, ShapedKept DEF Shaped
<1>11. BooksFine'
  BY <1>3, <1>7, <1>9 DEF BooksFine
<1>12. Owned'
  <2>1. ASSUME NEW u \in Turn, NEW r \in Agent, Names(u, r)' PROVE Names(u, r)
    <3>1. InBook(b, u, r)
      <4>1. turnOf'[r] # u /\ runOf'[r] # u
        BY <1>4 DEF Turn
      <4>2. \E c \in Books' : InBook(c, u, r)
        BY <1>3, <2>1, <4>1 DEF Names
      <4> QED
        BY <1>9, <4>2
    <3>2. InBook(a, u, r)
      BY <1>7, <1>8, <3>1 DEF InBook
    <3> QED
      BY <1>5, <3>2 DEF Names
  <2> QED
    BY <1>3, <1>5, <2>1, OwnedKept
<1>13. Apart' /\ Meets' /\ Lives'
  BY <1>3 DEF Apart, Meets, Lives
<1>14. Waiting'
  <2>1. \A q \in Queue(b) : ~Busy(q.sess)'
    <3> SUFFICES ASSUME NEW q \in Queue(b) PROVE ~Busy(q.sess)'
      OBVIOUS
    <3>1. q.sess \in Agent
      BY <1>7, EntryIn
    <3> QED
      BY <1>3, <1>4, <3>1 DEF Busy
  <2> QED
    BY <1>3, <1>9, <2>1 DEF Waiting
<1>15. OneTurn' /\ Leasing'
  BY <1>3, <1>4, <1>7 DEF OneTurn, Leasing, LeasesMatchTurns
<1>16. Remembered'
  <2>1. LastCounts(book)'
    <3>1. \A s \in Agent : b.status[s] = "killed" => Gone(s)'
      BY <1>3 DEF Gone
    <3> QED
      BY <1>3, <1>7, <3>1 DEF LastCounts
  <2>2. Runs(book)'
    BY <1>3, <1>4 DEF Runs
  <2>3. StartsOnce(book)'
    <3> SUFFICES ASSUME NEW s \in Agent, b.started[s] \in QueuedTurns(b)
                 PROVE  b.started[s] \in crossed
      BY <1>3 DEF StartsOnce
    <3>1. PICK q \in Queue(b) : q.turn = b.started[s]
      BY QueuedIs
    <3> QED
      BY <1>7, <3>1 DEF BookFine, WaitsOnce
  <2> QED
    BY <1>9, <2>1, <2>2, <2>3 DEF Remembered, Remembers
<1>17. DiskRecovers'
  BY <1>3, <1>10, <1>12, <1>15, <1>16, RowRecovers DEF AdmissionInv
<1> QED
  BY <1>10, <1>11, <1>12, <1>13, <1>14, <1>15, <1>16, <1>17 DEF AdmissionInv

-----------------------------------------------------------------------------
(* A chain with one more command is not empty.                              *)
LEMMA ChainGrows ==
    ASSUME Shaped, NEW c, asked' = Append(asked, c) PROVE asked' # <<>>
<1>1. asked \in Seq(RunCommand)
  BY DEF Shaped
<1>2. Len(asked) \in Nat /\ Len(asked') = Len(asked) + 1
  BY <1>1
<1> QED
  BY <1>2

(* No step takes the open command off the chain but its end.                *)
LEMMA ChainedStays ==
    ASSUME AdmissionInv, Chained, RunNext PROVE Chained'
<1> SUFFICES ASSUME held # NoCmd => asked # <<>>, held' # NoCmd PROVE asked' # <<>>
  BY DEF Chained, Open
<1>1. ASSUME NEW kind, Starting(kind) PROVE held = NoCmd /\ asked # <<>>
  BY <1>1 DEF Starting
<1>2. ASSUME NEW k \in {"activate", "kill", "freeze", "unfreeze"}, NEW s \in Agent, Ask(k, s)
      PROVE  asked' # <<>>
  BY <1>2, ChainGrows DEF Ask, AdmissionInv
<1>3. CASE Refuse
  BY <1>1, <1>3 DEF Refuse
<1>4. CASE RefuseForBudget
  BY <1>4 DEF RefuseForBudget, Commits
<1>5. CASE Enqueue
  BY <1>5 DEF Enqueue, Commits
<1>6. CASE LaunchNow
  BY <1>6 DEF LaunchNow, Commits
<1>7. CASE LaunchBreaks
  BY <1>1, <1>7 DEF LaunchBreaks
<1>8. CASE LaunchLater
  BY <1>1, <1>8 DEF LaunchLater
<1>9. ASSUME NEW l \in launching, Listened(l) PROVE asked' # <<>>
  BY <1>9 DEF Listened, Commits
<1>10. ASSUME NEW l \in launching, LaunchFails(l) PROVE asked' # <<>>
  BY <1>10 DEF LaunchFails, RollBackTo
<1>11. CASE DrainEnds
  BY <1>11 DEF DrainEnds, rest
<1>12. CASE DrainLaunches
  BY <1>12 DEF DrainLaunches
<1>13. CASE KillSession
  BY <1>13 DEF KillSession, Commits
<1>14. CASE SetFrozen
  BY <1>14 DEF SetFrozen, Commits
<1>15. CASE CompleteRun
  BY <1>1, <1>15 DEF CompleteRun, Commits
<1>16. ASSUME NEW p \in processes, RunErrs(p) PROVE asked' # <<>>
  BY <1>16 DEF RunErrs
<1>17. ASSUME NEW p \in processes, RunCloses(p) PROVE asked' # <<>>
  <2>1. held' = held
    BY <1>17 DEF RunCloses
  <2>2. asked' = asked \/ \E c : asked' = Append(asked, c)
    BY <1>17 DEF RunCloses
  <2> QED
    BY <2>1, <2>2, ChainGrows DEF AdmissionInv
<1>18. CASE KillAll
  BY <1>18 DEF KillAll
<1>19. CASE RestartRuntime
  BY <1>19 DEF RestartRuntime
<1> QED
  BY <1>2, <1>3, <1>4, <1>5, <1>6, <1>7, <1>8, <1>9, <1>10, <1>11, <1>12, <1>13, <1>14, <1>15,
     <1>16, <1>17, <1>18, <1>19 DEF RunNext

(* The drain goes on.                                                       *)
LEMMA DrainStepKeeps == ASSUME AdmissionInv, DrainLaunches PROVE AdmissionInv'
<1>1. PICK i : i = FirstOf(Candidates)
  OBVIOUS
<1>2. PICK q : q = book.queue[i]
  OBVIOUS
<1>3. /\ Candidates # {}
      /\ UNCHANGED <<undone, held, asked, epoch, paused, listening, nturn>>
      /\ DrainTakes(i, q)
  BY <1>1, <1>2 DEF DrainLaunches, DrainTakes, Draining
<1>4. \/ /\ Save(FrozenForBudget(Taken(i), q.sess))
         /\ UNCHANGED <<runOf, turnOf, processes, launching, drain, spent, crossed>>
      \/ /\ Launches(q.sess, q.turn)
         /\ Save(Running(Leased(Taken(i), q.sess, q.turn), q.sess, q.turn))
         /\ UNCHANGED <<launching, drain, spent>>
      \/ /\ turnOf' = [turnOf EXCEPT ![q.sess] = 0]
         /\ crossed' = crossed \cup ({turnOf[q.sess]} \ {0})
         /\ Save(LaunchFailed(Taken(i), q.sess, q.turn, TRUE))
         /\ UNCHANGED <<runOf, processes, launching, drain>>
      \/ /\ book' = Leased(Taken(i), q.sess, q.turn)
         /\ Awaits(q.sess, q.turn, "drain")
         /\ UNCHANGED <<bookDisk, runOf, turnOf, processes, drain, spent>>
  BY <1>1, <1>2, Zenon DEF DrainLaunches
<1> QED
  BY <1>1, <1>2, <1>3, <1>4, DrainForBudgetKeeps, DrainLaunchesKeeps, DrainBreaksKeeps,
     DrainAwaitsKeeps

(* Every step keeps the invariant.                                          *)
LEMMA NextKeeps == ASSUME AdmissionInv, Chained, RunNext PROVE AdmissionInv'
<1>1. \A k \in {"activate", "kill", "freeze", "unfreeze"}, s \in Agent : Ask(k, s) => AdmissionInv'
  BY AskKeeps
<1>2. \A l \in launching : Listened(l) \/ LaunchFails(l) => AdmissionInv'
  BY ListenedKeeps, LaunchFailsKeeps
<1>3. \A p \in processes : RunErrs(p) \/ RunCloses(p) => AdmissionInv'
  BY RunErrsKeeps, RunClosesKeeps
<1>4. Refuse \/ RefuseForBudget \/ Enqueue \/ LaunchNow \/ LaunchBreaks \/ LaunchLater
      => AdmissionInv'
  BY RefuseKeeps, RefuseForBudgetKeeps, EnqueueKeeps, LaunchNowKeeps, LaunchBreaksKeeps,
     LaunchLaterKeeps
<1>5. DrainEnds \/ DrainLaunches \/ KillSession \/ SetFrozen \/ CompleteRun => AdmissionInv'
  BY DrainEndsKeeps, DrainStepKeeps, KillSessionKeeps, SetFrozenKeeps, CompleteRunKeeps
<1>6. KillAll \/ RestartRuntime => AdmissionInv'
  BY KillAllKeeps, RestartKeeps
<1> QED
  BY <1>1, <1>2, <1>3, <1>4, <1>5, <1>6 DEF RunNext

(* The invariant holds at first.                                            *)
LEMMA InitKeeps == RunInit => AdmissionInv /\ Chained
<1> SUFFICES ASSUME RunInit PROVE AdmissionInv /\ Chained
  OBVIOUS
<1>1. /\ book.status = [s \in Agent |-> "idle"] /\ book.queue = <<>> /\ book.leases = {}
      /\ book.facts = {} /\ book.started = [s \in Agent |-> 0]
      /\ bookDisk = book /\ held = NoCmd /\ launching = {} /\ processes = {} /\ asked = <<>>
      /\ runOf = [s \in Agent |-> 0] /\ turnOf = [s \in Agent |-> 0]
      /\ nturn = 0 /\ epoch = 0 /\ crossed = {}
  BY DEF RunInit
<1>2. book \in RunBook
  BY DEF RunInit, RunBook, Status, Turn
<1>3. Queue(book) = {} /\ QueuedTurns(book) = {} /\ ActiveTurns(book) = {} /\ Counted(book) = {}
  BY <1>1 DEF Queue, QueuedTurns, ActiveTurns, Counted, ToSet
<1>4. \A s \in Agent : runOf[s] = 0 /\ turnOf[s] = 0 /\ book.started[s] = 0
  BY <1>1
<1>5. ~Open /\ Books = {book}
  BY <1>1 DEF Open, Books
<1>6. Shaped
  BY <1>1, <1>2, <1>5 DEF Shaped
<1>7. BookFine(book, nturn, crossed)
  <2>1. Cap(book, crossed)
    <3>1. Counted(book) \ crossed = {}
      BY <1>3
    <3>2. Cardinality({}) = 0
      BY FS_EmptySet
    <3>3. MaxTurns \in Nat
      BY AdmissionAssumption
    <3> QED
      BY <3>1, <3>2, <3>3 DEF Cap
  <2>2. OneEntry(book)
    BY <1>1 DEF OneEntry
  <2> QED
    BY <1>3, <2>1, <2>2 DEF BookFine, Numbered, WaitsOnce
<1>8. BooksFine /\ Owned
  <2>1. \A t \in Turn, s \in Agent : ~Names(t, s)
    BY <1>1, <1>3, <1>4, <1>5 DEF Names, InBook, Turn
  <2> QED
    BY <1>5, <1>7, <2>1 DEF BooksFine, Owned
<1>9. Apart /\ Meets /\ Waiting /\ Lives /\ OneTurn
  BY <1>1, <1>3, <1>4, <1>5 DEF Apart, Meets, Waiting, Lives, OneTurn
<1>10. Leasing /\ Remembered /\ DiskRecovers /\ Chained
  BY <1>1, <1>3, <1>4, <1>5
     DEF Leasing, LeasesMatchTurns, Remembered, Remembers, LastCounts, Runs, StartsOnce,
         DiskRecovers, Recovers, Chained
<1> QED
  BY <1>6, <1>8, <1>9, <1>10 DEF AdmissionInv

(* It holds where nothing happens.                                          *)
LEMMA StutterKeeps ==
    ASSUME AdmissionInv, Chained, UNCHANGED runVars PROVE AdmissionInv' /\ Chained'
<1>1. /\ book' = book /\ bookDisk' = bookDisk /\ runOf' = runOf /\ turnOf' = turnOf
      /\ processes' = processes /\ launching' = launching /\ held' = held /\ asked' = asked
      /\ epoch' = epoch /\ nturn' = nturn /\ crossed' = crossed
  BY DEF runVars, rest
<1>2. Shaped /\ Apart
  BY DEF AdmissionInv
<1>3. /\ LaunchesStay /\ ProcessesStay /\ AskedStay /\ RunsStay /\ SameParts4(book', book)
      /\ Fewer(runOf', runOf) /\ Fewer(turnOf', turnOf)
  BY <1>1, <1>2, Untouched
<1>4. CalmStep /\ Accounts
  BY <1>1, <1>3, StatusOnly
<1>5. Shaped'
  BY <1>1, <1>2, ShapedKept DEF Shaped
<1> QED
  BY <1>1, <1>4, <1>5, CalmKeeps DEF Chained, Open

(* Turns done, running and waiting stay within the hard budget, a turn in    *)
(* progress has a lease and a lease is of a turn in progress, and a session  *)
(* has one process that was not told to stop, but for turns that crossed     *)
(* (startRun, launchRun, drainRunQueue, the executor's catch).               *)
THEOREM TurnsAlwaysAccounted == RunSpec => []TurnsAccounted
<1>1. RunInit => AdmissionInv /\ Chained
  BY InitKeeps
<1>2. AdmissionInv /\ Chained /\ [RunNext]_runVars => (AdmissionInv /\ Chained)'
  BY NextKeeps, ChainedStays, StutterKeeps
<1>3. AdmissionInv => TurnsAccounted
  BY InvHolds
<1> QED
  BY <1>1, <1>2, <1>3, PTL DEF RunSpec

(* A book names no turn that was not given.                                 *)
LEMMA BookTyped ==
    ASSUME NEW b, b \in RunBook, nturn \in Nat, Numbered(b, nturn)
    PROVE  /\ b.status \in [Agent -> Status] /\ b.frozen \in [Agent -> BOOLEAN]
           /\ \A q \in ToSet(b.queue) : q \in [sess : Agent, turn : 1..nturn]
           /\ b.leases \subseteq [turn : 1..nturn, sess : Agent]
           /\ b.facts \subseteq 1..nturn
<1>1. /\ b.status \in [Agent -> Status] /\ b.frozen \in [Agent -> BOOLEAN]
      /\ b.queue \in Seq(Entry) /\ b.leases \subseteq [turn : Turn, sess : Agent]
  BY DEF RunBook
<1>2. b.facts \cup ActiveTurns(b) \cup QueuedTurns(b) \subseteq 1..nturn
  BY DEF Numbered, Counted
<1>3. \A q \in ToSet(b.queue) : q \in [sess : Agent, turn : 1..nturn]
  <2> SUFFICES ASSUME NEW q \in ToSet(b.queue) PROVE q \in [sess : Agent, turn : 1..nturn]
    OBVIOUS
  <2>1. q \in Entry
    BY <1>1 DEF ToSet
  <2>2. q.turn \in 1..nturn
    BY <1>2 DEF QueuedTurns
  <2> QED
    BY <2>1, <2>2 DEF Entry
<1>4. b.leases \subseteq [turn : 1..nturn, sess : Agent]
  <2> SUFFICES ASSUME NEW l \in b.leases PROVE l \in [turn : 1..nturn, sess : Agent]
    OBVIOUS
  <2>1. l \in [turn : Turn, sess : Agent]
    BY <1>1
  <2>2. l.turn \in 1..nturn
    BY <1>2 DEF ActiveTurns
  <2> QED
    BY <2>1, <2>2
<1> QED
  BY <1>1, <1>2, <1>3, <1>4

(* The invariant gives every variable its type, with the turns given so far. *)
LEMMA InvTypes == ASSUME AdmissionInv PROVE RunTypeOK
<1>1. Shaped /\ BooksFine /\ Owned
  BY DEF AdmissionInv
<1>2. nturn \in Nat /\ book \in RunBook /\ bookDisk \in RunBook
  BY <1>1 DEF Shaped
<1>3. Numbered(book, nturn) /\ Numbered(bookDisk, nturn)
  BY <1>1 DEF BooksFine, Books, BookFine
<1>4. \A t \in Turn, s \in Agent : Names(t, s) => t \in 1..nturn
  <2> SUFFICES ASSUME NEW t \in Turn, NEW s \in Agent, Names(t, s) PROVE t \in 1..nturn
    OBVIOUS
  <2>1. t <= nturn
    BY <1>1 DEF Owned
  <2> QED
    BY <1>2, <2>1 DEF Turn
<1>5. runOf \in [Agent -> 0..nturn] /\ turnOf \in [Agent -> 0..nturn]
  <2>1. runOf \in [Agent -> Nat] /\ turnOf \in [Agent -> Nat]
    BY <1>1 DEF Shaped
  <2>2. ASSUME NEW s \in Agent PROVE runOf[s] \in 0..nturn /\ turnOf[s] \in 0..nturn
    <3>1. runOf[s] # 0 => runOf[s] \in 1..nturn
      BY <1>4, <2>1 DEF Names, Turn
    <3>2. turnOf[s] # 0 => turnOf[s] \in 1..nturn
      BY <1>4, <2>1 DEF Names, Turn
    <3> QED
      BY <1>2, <3>1, <3>2
  <2> QED
    BY <2>1, <2>2
<1>6. processes \subseteq [turn : 1..nturn, sess : Agent, doomed : BOOLEAN]
  <2> SUFFICES ASSUME NEW p \in processes
               PROVE  p \in [turn : 1..nturn, sess : Agent, doomed : BOOLEAN]
    OBVIOUS
  <2>1. p \in [turn : Turn, sess : Agent, doomed : BOOLEAN]
    BY <1>1 DEF Shaped, Process
  <2>2. p.turn \in 1..nturn
    BY <1>4, <2>1 DEF Names
  <2> QED
    BY <2>1, <2>2
<1>7. \A b \in {book, bookDisk} :
        /\ b.status \in [Agent -> Status] /\ b.frozen \in [Agent -> BOOLEAN]
        /\ \A q \in ToSet(b.queue) : q \in [sess : Agent, turn : 1..nturn]
        /\ b.leases \subseteq [turn : 1..nturn, sess : Agent]
        /\ b.facts \subseteq 1..nturn
  BY <1>2, <1>3, BookTyped
<1> QED
  BY <1>5, <1>6, <1>7 DEF RunTypeOK

(* Every variable of the admission of turns keeps its type, and no book,    *)
(* run, turn or process names a turn that was not given (startRun).         *)
THEOREM AdmissionTyped == RunSpec => []RunTypeOK
<1>1. RunInit => AdmissionInv /\ Chained
  BY InitKeeps
<1>2. AdmissionInv /\ Chained /\ [RunNext]_runVars => (AdmissionInv /\ Chained)'
  BY NextKeeps, ChainedStays, StutterKeeps
<1>3. AdmissionInv => RunTypeOK
  BY InvTypes
<1> QED
  BY <1>1, <1>2, <1>3, PTL DEF RunSpec
=============================================================================
