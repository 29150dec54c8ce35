---------------------------- MODULE PlansProofs -----------------------------
(***************************************************************************)
(* Theorems about what the services compute, for any input: drafts of the  *)
(* scheduler keep clear, a segment tells its item, the generations of the  *)
(* genetic scheduler only improve, and the parts of an analytics page tell *)
(* of the same rows.                                                       *)
(***************************************************************************)
EXTENDS Scheduler, Genetic, Analytics, FoldProofs, SequenceTheorems

-----------------------------------------------------------------------------
(* Sums                                                                    *)

(* A sum is a fold. *)
LEMMA TotalFold ==
    ASSUME NEW n \in Nat, NEW s \in [1..n -> Int]
    PROVE  \E it : /\ it = [S \in SUBSET (1..n) |-> IF S = {} THEN 0 ELSE it[S \ {Max(S)}] + s[Max(S)]]
                   /\ Total(s) = it[1..n]
<1> DEFINE E(it) == it = [S \in SUBSET (1..n) |-> IF S = {} THEN 0
                                                  ELSE it[S \ {Max(S)}] + s[Max(S)]]
<1>1. \E it : E(it)
  <2>1. PICK step : step = [a \in Int \X Int |-> a[1] + a[2]] OBVIOUS
  <2>2. CanFold(n, Int, 0, Int, s, step) BY <2>1 DEF CanFold
  <2>3. PICK it : FoldOf(it, n, Int, 0, s, step) BY <2>2, FoldExists
  <2>4. ASSUME NEW S \in SUBSET (1..n), S # {} PROVE it[S] = it[S \ {Max(S)}] + s[Max(S)]
    <3>1. S \ {Max(S)} \in SUBSET (1..n) /\ Max(S) \in 1..n BY <2>4, OneFewer
    <3>2. it[S \ {Max(S)}] \in Int /\ s[Max(S)] \in Int BY <2>3, <3>1 DEF FoldOf
    <3>3. it[S] = step[<<it[S \ {Max(S)}], s[Max(S)]>>] BY <2>3, <2>4 DEF FoldOf
    <3> QED BY <2>1, <3>2, <3>3
  <2>6. E(it) BY <2>3, <2>4 DEF FoldOf
  <2> QED BY <2>6
<1>2. PICK f : f = (CHOOSE it : E(it)) OBVIOUS
<1>3. E(f) BY <1>1, <1>2
<1>4. Total(s) = f[DOMAIN s] BY <1>2 DEF Total, FoldLeft, MapThenFoldSet
<1> QED BY <1>3, <1>4

(* A sum with one more number. *)
LEMMA TotalAppend ==
    ASSUME NEW n \in Nat, NEW s \in [1..n -> Int], NEW u \in [1..(n + 1) -> Int],
           \A i \in 1..n : u[i] = s[i]
    PROVE  Total(u) = Total(s) + u[n + 1] /\ Total(s) \in Int
<1>1. PICK it : /\ it = [S \in SUBSET (1..n) |-> IF S = {} THEN 0 ELSE it[S \ {Max(S)}] + s[Max(S)]]
                /\ Total(s) = it[1..n]
  BY TotalFold
<1>2. n + 1 \in Nat OBVIOUS
<1>3. PICK jt : /\ jt = [S \in SUBSET (1..(n + 1)) |-> IF S = {} THEN 0
                                                ELSE jt[S \ {Max(S)}] + u[Max(S)]]
                /\ Total(u) = jt[1..(n + 1)]
  BY <1>2, TotalFold
<1>4. it[1..n] = jt[1..n] /\ it[1..n] \in Int
  <2>1. PICK same : same = [S \in SUBSET (1..n) |-> IF it[S] = jt[S] /\ it[S] \in Int THEN 1 ELSE 0]
    OBVIOUS
  <2>2. same[{}] \in {1}
    <3>1. {} \in SUBSET (1..n) /\ {} \in SUBSET (1..(n + 1)) OBVIOUS
    <3>2. it[{}] = 0 /\ jt[{}] = 0 BY <1>1, <1>3, <3>1
    <3> QED BY <2>1, <3>1, <3>2
  <2>3. ASSUME NEW S \in SUBSET (1..n), S # {}, same[S \ {Max(S)}] \in {1}
        PROVE  same[S] \in {1}
    <3>1. PICK R, m : R = S \ {Max(S)} /\ m = Max(S) OBVIOUS
    <3>2. R \in SUBSET (1..n) /\ m \in 1..n BY <2>3, <3>1, OneFewer
    <3>3. it[R] = jt[R] /\ it[R] \in Int BY <2>1, <2>3, <3>1, <3>2
    <3>4. it[S] = it[R] + s[m] BY <1>1, <2>3, <3>1
    <3>5. S \in SUBSET (1..(n + 1)) OBVIOUS
    <3>6. jt[S] = jt[R] + u[m] BY <1>3, <2>3, <3>1, <3>5
    <3>7. s[m] = u[m] /\ s[m] \in Int BY <3>2
    <3> QED BY <2>1, <3>3, <3>4, <3>6, <3>7
  <2>4. same[1..n] \in {1} BY <2>2, <2>3, FoldKeeps
  <2> QED BY <2>1, <2>4
<1>5. PICK S : S = 1..(n + 1) OBVIOUS
<1>6. S \in SUBSET (1..(n + 1)) /\ S # {} /\ n + 1 \in S BY <1>5
<1>7. Max(S) = n + 1
  <2>1. Max(S) \in S /\ \A i \in S : i <= Max(S) BY <1>2, <1>6, LastPlace
  <2> QED BY <1>5, <1>6, <2>1
<1>8. S \ {Max(S)} = 1..n BY <1>5, <1>7
<1>9. jt[S] = jt[1..n] + u[n + 1] BY <1>3, <1>6, <1>7, <1>8
<1> QED BY <1>1, <1>3, <1>4, <1>5, <1>9

(* Nothing sums to nothing. *)
LEMMA TotalOfNone ==
    ASSUME NEW s \in [1..0 -> Int]
    PROVE  Total(s) = 0
<1>1. PICK it : /\ it = [S \in SUBSET (1..0) |-> IF S = {} THEN 0 ELSE it[S \ {Max(S)}] + s[Max(S)]]
                /\ Total(s) = it[1..0]
  BY TotalFold
<1>2. 1..0 = {} OBVIOUS
<1> QED BY <1>1, <1>2

-----------------------------------------------------------------------------
(* Free blocks                                                             *)

\* By their starts.
InOrder(s) == \A i, j \in DOMAIN s : i < j => s[i].start <= s[j].start

(* A finite set of intervals can be put in the order of their starts. *)
LEMMA OrderExists ==
    ASSUME NEW S \in SUBSET Interval, IsFiniteSet(S)
    PROVE  \E s \in SetToSeqs(S) : InOrder(s)
<1>1. PICK before : before = {p \in S \X S : p[1].start <= p[2].start} OBVIOUS
<1>2. \A x, y \in S : <<x, y>> \in before <=> x.start <= y.start BY <1>1
<1>3. \A x \in S : x.start \in Int BY DEF Interval
<1>4. /\ \A x, y \in S : <<x, y>> \in before \/ <<y, x>> \in before
      /\ \A x, y, z \in S : <<x, y>> \in before /\ <<y, z>> \in before => <<x, z>> \in before
  BY <1>2, <1>3
<1>5. before \in SUBSET (S \X S) BY <1>1
<1>6. PICK s \in SetToSeqs(S) : \A i, j \in DOMAIN s : i < j => <<s[i], s[j]>> \in before
  BY <1>4, <1>5, RankExists
<1>7. \A i \in DOMAIN s : s[i] \in S BY DEF SetToSeqs
<1> QED BY <1>2, <1>6, <1>7 DEF InOrder

\* Blocks that keep clear of one another.
Apart(S) == \A x, y \in S : x # y => ~Overlap(x, y)

(* What is read of the calendar lies in the range, and none of it is empty
   where the range is not. *)
LEMMA BusyInRange ==
    ASSUME events \subseteq EventPool
    PROVE  /\ BusyBlocks \subseteq [start: 0..Horizon, end: 0..Horizon]
           /\ Horizon > 0 => \A b \in BusyBlocks : b.start < b.end
<1> SUFFICES ASSUME NEW b \in BusyBlocks
             PROVE  /\ b \in [start: 0..Horizon, end: 0..Horizon]
                    /\ Horizon > 0 => b.start < b.end
  OBVIOUS
<1>1. PICK o \in UNION {Occurrences(e) : e \in events} :
        b = [start |-> Later(o.start, 0), end |-> Earlier(o.end, Horizon)]
  BY DEF BusyBlocks
<1>2. PICK e \in events : o \in Occurrences(e) BY <1>1
<1>3. /\ e.start \in Int /\ e.end \in Int /\ e.every \in Nat /\ e.start < e.end
      /\ Horizon \in Nat /\ MaxIterations \in Nat
  BY <1>2, EventsHaveLength, SchedBounds
<1>4. PICK k \in Int : /\ o = [start |-> e.start + k * e.every, end |-> e.end + k * e.every]
                       /\ o.start < Horizon /\ o.end > 0
  <2>1. PICK k \in (IF e.every = 0 THEN {0} ELSE 0..(MaxIterations - 1)) :
           /\ o = [start |-> e.start + k * e.every, end |-> e.end + k * e.every]
           /\ o.start < Horizon /\ o.end > 0
    BY <1>2 DEF Occurrences
  <2>2. k \in Int BY <1>3
  <2> QED BY <2>1, <2>2
<1>5. PICK m : m = k * e.every OBVIOUS
<1>6. m \in Int BY <1>3, <1>5
<1>7. o.start = e.start + m /\ o.end = e.end + m BY <1>4, <1>5
<1>8. o.start \in Int /\ o.end \in Int /\ o.start < o.end BY <1>3, <1>6, <1>7
<1>9. b.start = Later(o.start, 0) /\ b.end = Earlier(o.end, Horizon)
      /\ b = [start |-> b.start, end |-> b.end]
  BY <1>1
<1>10. b.start \in 0..Horizon /\ b.end \in 0..Horizon /\ (Horizon > 0 => b.start < b.end)
  BY <1>3, <1>4, <1>8, <1>9 DEF Later, Earlier
<1> QED BY <1>9, <1>10

(* The gaps keep clear of what is busy and of one another. *)
LEMMA GapsApart ==
    ASSUME NEW busy \in SUBSET [start: 0..Horizon, end: 0..Horizon],
           Horizon > 0 => \A b \in busy : b.start < b.end
    PROVE  /\ FreeBlocks(busy) \subseteq [start: 0..Horizon, end: 0..Horizon]
           /\ \A g \in FreeBlocks(busy) : g.start < g.end /\ \A b \in busy : ~Overlap(g, b)
           /\ Apart(FreeBlocks(busy))
<1> USE SchedBounds
<1>1. ASSUME NEW g \in FreeBlocks(busy)
      PROVE  /\ g.start \in 0..Horizon /\ g.end \in 0..Horizon
             /\ g = [start |-> g.start, end |-> g.end]
             /\ g.start = 0 \/ \E b \in busy : g.start = b.end
             /\ g.end = Horizon \/ \E b \in busy : g.end = b.start
             /\ g.start < g.end /\ \A b \in busy : ~Overlap(g, b)
  <2>1. /\ g \in [start: {0} \cup {b.end : b \in busy}, end: {Horizon} \cup {b.start : b \in busy}]
        /\ g.end - g.start >= MinBlock /\ \A b \in busy : ~Overlap(g, b)
    BY DEF FreeBlocks
  <2>2. /\ g.start = 0 \/ \E b \in busy : g.start = b.end
        /\ g.end = Horizon \/ \E b \in busy : g.end = b.start
        /\ g = [start |-> g.start, end |-> g.end]
    BY <2>1
  <2>3. \A b \in busy : b.start \in 0..Horizon /\ b.end \in 0..Horizon OBVIOUS
  <2>4. g.start \in 0..Horizon /\ g.end \in 0..Horizon BY <2>2, <2>3
  <2> QED BY <2>1, <2>2, <2>4
<1>2. ASSUME NEW f \in FreeBlocks(busy), NEW g \in FreeBlocks(busy), Overlap(f, g),
             f.start < g.start
      PROVE  FALSE
  <2>1. f.start \in 0..Horizon /\ g.start \in 0..Horizon /\ f.end \in 0..Horizon BY <1>1
  <2>2. PICK b \in busy : g.start = b.end BY <1>1, <1>2, <2>1
  <2>3. Horizon > 0 BY <1>2, <2>1
  <2>4. b.start \in 0..Horizon /\ b.end \in 0..Horizon /\ b.start < b.end BY <2>3
  <2>5. Overlap(f, b) BY <1>2, <2>1, <2>2, <2>4 DEF Overlap
  <2> QED BY <1>1, <2>5
<1>3. ASSUME NEW f \in FreeBlocks(busy), NEW g \in FreeBlocks(busy), f.start = g.start,
             f.end < g.end
      PROVE  FALSE
  <2>1. /\ f.start \in 0..Horizon /\ f.end \in 0..Horizon /\ g.end \in 0..Horizon
        /\ f.start < f.end
    BY <1>1
  <2>2. PICK b \in busy : f.end = b.start BY <1>1, <1>3, <2>1
  <2>3. Horizon > 0 BY <1>3, <2>1
  <2>4. b.start \in 0..Horizon /\ b.end \in 0..Horizon /\ b.start < b.end BY <2>3
  <2>5. Overlap(g, b) BY <1>3, <2>1, <2>2, <2>4 DEF Overlap
  <2> QED BY <1>1, <2>5
<1>4. ASSUME NEW f \in FreeBlocks(busy), NEW g \in FreeBlocks(busy), f # g PROVE ~Overlap(f, g)
  <2>1. f.start # g.start \/ f.end # g.end BY <1>1, <1>4
  <2>2. /\ f.start \in Int /\ f.end \in Int /\ g.start \in Int /\ g.end \in Int
    BY <1>1
  <2>3. Overlap(f, g) => Overlap(g, f) BY <2>2 DEF Overlap
  <2> QED BY <1>2, <1>3, <2>1, <2>2, <2>3
<1>5. FreeBlocks(busy) \subseteq [start: 0..Horizon, end: 0..Horizon] BY <1>1
<1> QED BY <1>1, <1>4, <1>5 DEF Apart

(* What is cut out of two blocks that keep clear of each other does too. *)
LEMMA PartsApart ==
    ASSUME NEW a, NEW b, NEW c, NEW d,
           a.start \in Int, a.end \in Int, b.start \in Int, b.end \in Int,
           c.start \in Int, c.end \in Int, d.start \in Int, d.end \in Int,
           c.start >= a.start, c.end <= a.end, d.start >= b.start, d.end <= b.end,
           ~Overlap(a, b)
    PROVE  ~Overlap(c, d) /\ ~Overlap(d, c)
  BY DEF Overlap

(* The blocks of a run: a list of free parts of work windows, in the range,
   clear of what is busy and of one another. *)
LEMMA BlocksApart ==
    ASSUME NEW busy \in SUBSET [start: 0..Horizon, end: 0..Horizon],
           Horizon > 0 => \A b \in busy : b.start < b.end,
           NEW work \in SUBSET Interval, Apart(work)
    PROVE  LET blocks == InWorkHours(FreeBlocks(busy), work)
           IN  \E m \in Nat :
                 /\ blocks \in [1..m -> [start: 0..Horizon, end: 0..Horizon]]
                 /\ \A i \in 1..m : \A b \in busy : ~Overlap(blocks[i], b)
                 /\ \A i, j \in 1..m : i # j => ~Overlap(blocks[i], blocks[j])
<1> USE SchedBounds
<1>1. PICK free : free = FreeBlocks(busy) OBVIOUS
<1>2. /\ free \subseteq [start: 0..Horizon, end: 0..Horizon]
      /\ \A g \in free : g.start < g.end /\ \A b \in busy : ~Overlap(g, b)
      /\ Apart(free)
  BY <1>1, GapsApart
<1> DEFINE Part(f, w) == [start |-> Later(f.start, w.start), end |-> Earlier(f.end, w.end)]
           parts == {Part(f, w) : f \in free, w \in work}
           kept0 == {p \in parts : p.end - p.start >= MinBlock}
<1> HIDE DEF kept0
<1>3. PICK kept : kept = kept0 OBVIOUS
<1> USE DEF kept0
<1>4. PICK blocks : blocks = InWorkHours(FreeBlocks(busy), work) OBVIOUS
<1>5. blocks = CHOOSE s \in SetToSeqs(kept) : InOrder(s)
  BY <1>1, <1>3, <1>4 DEF InWorkHours, InOrder
<1>6. ASSUME NEW p \in kept
      PROVE  \E f \in free, w \in work :
               /\ p.start \in Int /\ p.end \in Int
               /\ p = [start |-> p.start, end |-> p.end]
               /\ p.start >= f.start /\ p.end <= f.end /\ p.start >= w.start /\ p.end <= w.end
               /\ p.start < p.end /\ p = Part(f, w)
  <2>1. PICK f \in free, w \in work : p = Part(f, w) /\ p.end - p.start >= MinBlock BY <1>3
  <2>2. f.start \in Int /\ f.end \in Int /\ w.start \in Int /\ w.end \in Int
    BY <1>2 DEF Interval
  <2>3. p.start = Later(f.start, w.start) /\ p.end = Earlier(f.end, w.end) BY <2>1
  <2>4. /\ p.start \in Int /\ p.end \in Int
        /\ p.start >= f.start /\ p.end <= f.end /\ p.start >= w.start /\ p.end <= w.end
        /\ p.start < p.end
    BY <2>1, <2>2, <2>3 DEF Later, Earlier
  <2>5. p = [start |-> p.start, end |-> p.end] BY <2>1
  <2> QED BY <2>1, <2>4, <2>5
<1> HIDE DEF kept0, parts
<1>7. kept \in SUBSET Interval /\ kept \subseteq [start: 0..Horizon, end: 0..Horizon]
  <2> SUFFICES ASSUME NEW p \in kept
               PROVE  p \in Interval /\ p \in [start: 0..Horizon, end: 0..Horizon]
    OBVIOUS
  <2>1. PICK f \in free, w \in work :
               /\ p.start \in Int /\ p.end \in Int
               /\ p = [start |-> p.start, end |-> p.end]
               /\ p.start >= f.start /\ p.end <= f.end /\ p.start < p.end
    BY <1>6
  <2>2. f.start \in 0..Horizon /\ f.end \in 0..Horizon BY <1>2
  <2>3. p.start \in 0..Horizon /\ p.end \in 0..Horizon BY <2>1, <2>2
  <2> QED BY <2>1, <2>3 DEF Interval
<1>8. IsFiniteSet(kept)
  <2>1. IsFiniteSet(0..Horizon) BY FS_Interval
  <2>2. IsFiniteSet((0..Horizon) \X (0..Horizon)) BY <2>1, FS_Product
  <2>3. PICK f : f = [p \in kept |-> <<p.start, p.end>>] OBVIOUS
  <2>4. f \in Injection(kept, (0..Horizon) \X (0..Horizon))
    <3>1. f \in [kept -> (0..Horizon) \X (0..Horizon)] BY <1>7, <2>3
    <3>2. \A p, q \in kept : f[p] = f[q] => p = q BY <1>7, <2>3
    <3> QED BY <3>1, <3>2 DEF Injection, IsInjective
  <2> QED BY <2>2, <2>4, FS_Injection
<1>9. blocks \in SetToSeqs(kept) BY <1>5, <1>7, <1>8, OrderExists
<1>10. PICK m \in Nat : blocks \in [1..m -> kept] /\ \A i, j \in 1..m : i # j => blocks[i] # blocks[j]
  BY <1>8, <1>9, FS_CardinalityType DEF SetToSeqs
<1>11. ASSUME NEW p \in kept, NEW b \in busy PROVE ~Overlap(p, b)
  <2>1. PICK f \in free : p.start \in Int /\ p.end \in Int /\ p.start >= f.start /\ p.end <= f.end
    BY <1>6
  <2>2. /\ f.start \in Int /\ f.end \in Int /\ b.start \in Int /\ b.end \in Int /\ ~Overlap(f, b)
    BY <1>2
  <2> QED BY <2>1, <2>2 DEF Overlap
<1>12. ASSUME NEW p \in kept, NEW q \in kept, p # q PROVE ~Overlap(p, q)
  <2>1. PICK f \in free, w \in work :
               /\ p.start \in Int /\ p.end \in Int
               /\ p.start >= f.start /\ p.end <= f.end /\ p.start >= w.start /\ p.end <= w.end
               /\ p = Part(f, w)
    BY <1>6
  <2>2. PICK g \in free, v \in work :
               /\ q.start \in Int /\ q.end \in Int
               /\ q.start >= g.start /\ q.end <= g.end /\ q.start >= v.start /\ q.end <= v.end
               /\ q = Part(g, v)
    BY <1>6
  <2>3. f # g \/ v # w BY <1>12, <2>1, <2>2
  <2>4. /\ f.start \in Int /\ f.end \in Int /\ g.start \in Int /\ g.end \in Int
        /\ w.start \in Int /\ w.end \in Int /\ v.start \in Int /\ v.end \in Int
    BY <1>2 DEF Interval
  <2> HIDE DEF Part
  <2>5. CASE f # g
    <3>1. ~Overlap(f, g) BY <1>2, <2>5 DEF Apart
    <3> QED BY <2>1, <2>2, <2>4, <3>1 DEF Overlap
  <2>6. CASE v # w
    <3>1. ~Overlap(w, v) BY <2>6 DEF Apart
    <3> QED BY <2>1, <2>2, <2>4, <3>1 DEF Overlap
  <2> QED BY <2>3, <2>5, <2>6
<1>13. /\ blocks \in [1..m -> [start: 0..Horizon, end: 0..Horizon]]
       /\ \A i \in 1..m : \A b \in busy : ~Overlap(blocks[i], b)
       /\ \A i, j \in 1..m : i # j => ~Overlap(blocks[i], blocks[j])
  BY <1>7, <1>10, <1>11, <1>12
<1> QED BY <1>4, <1>13

-----------------------------------------------------------------------------
(* Plans *)

Draft == [task: SchedTasks, start: Int, end: Int, by: {"rule", "llm"}]

(* A draft more: it fits when it fits with each of the others. *)
LEMMA JobsFitAppend ==
    ASSUME NEW busy, NEW jobs \in Seq(Draft), JobsFit(jobs, busy), NEW d \in Draft,
           InWindow(d), \A b \in busy : ~Overlap(d, b),
           \A i \in DOMAIN jobs : ~Overlap(d, jobs[i]) /\ ~Overlap(jobs[i], d)
    PROVE  Append(jobs, d) \in Seq(Draft) /\ JobsFit(Append(jobs, d), busy)
<1>1. PICK n, more : n = Len(jobs) /\ more = Append(jobs, d) OBVIOUS
<1>2. /\ n \in Nat /\ DOMAIN jobs = 1..n /\ DOMAIN more = 1..(n + 1)
      /\ \A i \in 1..n : more[i] = jobs[i]
      /\ more[n + 1] = d /\ more \in Seq(Draft)
  BY <1>1
<1>3. ASSUME NEW i \in 1..(n + 1)
      PROVE  /\ InWindow(more[i]) /\ \A b \in busy : ~Overlap(more[i], b)
             /\ \A j \in (1..(n + 1)) \ {i} : ~Overlap(more[i], more[j])
  <2>1. CASE i = n + 1
    <3>1. \A j \in (1..(n + 1)) \ {i} : j \in 1..n BY <1>2, <2>1
    <3> QED BY <1>2, <2>1, <3>1
  <2>2. CASE i # n + 1
    <3>1. i \in 1..n BY <1>2, <2>2
    <3>2. /\ InWindow(jobs[i]) /\ \A b \in busy : ~Overlap(jobs[i], b)
          /\ \A j \in (1..n) \ {i} : ~Overlap(jobs[i], jobs[j])
      BY <1>2, <3>1 DEF JobsFit
    <3>3. \A j \in (1..(n + 1)) \ {i} : j = n + 1 \/ j \in (1..n) \ {i} BY <1>2, <2>2
    <3> QED BY <1>2, <3>1, <3>2, <3>3
  <2> QED BY <2>1, <2>2
<1> QED BY <1>1, <1>2, <1>3 DEF JobsFit

(* What a draft more gives to its task. *)
LEMMA GivenAppend ==
    ASSUME NEW jobs \in Seq(Draft), NEW d \in Draft, NEW t
    PROVE  /\ Total(Given(jobs, t)) \in Int
           /\ Total(Given(Append(jobs, d), t)) =
                Total(Given(jobs, t)) + (IF d.task = t /\ d.by = "rule" THEN d.end - d.start ELSE 0)
<1>1. PICK n, more : n = Len(jobs) /\ more = Append(jobs, d) OBVIOUS
<1>2. /\ n \in Nat /\ DOMAIN jobs = 1..n /\ DOMAIN more = 1..(n + 1)
      /\ \A i \in 1..n : more[i] = jobs[i] /\ jobs[i] \in Draft
      /\ more[n + 1] = d
  BY <1>1
<1>3. \A i \in 1..(n + 1) : more[i] \in Draft
  <2>1. \A i \in 1..(n + 1) : i = n + 1 \/ i \in 1..n BY <1>2
  <2> QED BY <1>2, <2>1
<1>4. PICK s, u : s = Given(jobs, t) /\ u = Given(more, t) OBVIOUS
<1>5. /\ s = [i \in 1..n |-> IF jobs[i].task = t /\ jobs[i].by = "rule"
                             THEN jobs[i].end - jobs[i].start ELSE 0]
      /\ u = [i \in 1..(n + 1) |-> IF more[i].task = t /\ more[i].by = "rule"
                             THEN more[i].end - more[i].start ELSE 0]
  BY <1>2, <1>4 DEF Given
<1>6. \A j \in Draft : j.start \in Int /\ j.end \in Int BY DEF Draft
<1>7. s \in [1..n -> Int] /\ u \in [1..(n + 1) -> Int] BY <1>2, <1>3, <1>5, <1>6
<1>8. \A i \in 1..n : u[i] = s[i] BY <1>2, <1>5
<1>9. u[n + 1] = IF d.task = t /\ d.by = "rule" THEN d.end - d.start ELSE 0 BY <1>2, <1>5
<1>10. Total(u) = Total(s) + u[n + 1] /\ Total(s) \in Int BY <1>2, <1>7, <1>8, TotalAppend
<1> QED BY <1>1, <1>4, <1>9, <1>10

(* No draft gives nothing. *)
LEMMA GivenNone ==
    ASSUME NEW t, NEW jobs, DOMAIN jobs = {}
    PROVE  Total(Given(jobs, t)) = 0
<1>1. 1..0 = {} OBVIOUS
<1>2. PICK s : s = Given(jobs, t) OBVIOUS
<1>3. s \in [1..0 -> Int] BY <1>1, <1>2 DEF Given
<1> QED BY <1>2, <1>3, TotalOfNone

\* A plan on its way: what is left of the blocks is clear of the drafts, and
\* drafts and what is left of a task make up what was to be planned of it.
PlanState(m, busy, left) ==
    {acc \in [blocks: [1..m -> Interval], left: [SchedTasks -> Nat], items: Seq(Draft)] :
       /\ \A i \in 1..m : /\ acc.blocks[i].start >= 0 /\ acc.blocks[i].end <= Horizon
                          /\ \A b \in busy : ~Overlap(acc.blocks[i], b)
                          /\ \A j \in 1..m : i # j => ~Overlap(acc.blocks[i], acc.blocks[j])
                          /\ \A k \in DOMAIN acc.items : ~Overlap(acc.blocks[i], acc.items[k])
       /\ JobsFit(acc.items, busy)
       /\ \A t \in SchedTasks : Total(Given(acc.items, t)) + acc.left[t] = left[t]}

(* A draft takes no more of a block than is free, of a task than is left and
   than a chunk may be, and is never empty. *)
LEMMA PlaceKeeps ==
    ASSUME taskTable \in TaskTables, NEW m \in Nat, NEW busy \in SUBSET Interval,
           NEW left \in [SchedTasks -> Nat],
           NEW acc \in PlanState(m, busy, left), NEW t \in SchedTasks, NEW i \in 1..m
    PROVE  Place(acc, t, i) \in PlanState(m, busy, left)
<1>1. /\ taskTable[t] \in TaskPayload /\ Horizon \in Nat
  BY TasksHaveTypes, SchedBounds
<1>2. PICK task, start, room, size :
        /\ task = taskTable[t] /\ start = Later(task.earliest, acc.blocks[i].start)
        /\ room = Earlier(task.latest, acc.blocks[i].end) - start
        /\ size = Earlier(acc.left[t], Earlier(room, task.max))
  OBVIOUS
<1>3. /\ task.earliest \in Int /\ task.latest \in Int /\ task.min \in Nat \ {0}
      /\ task.max \in Nat /\ task.min <= task.max
  BY <1>1, <1>2 DEF TaskPayload
<1> DEFINE block == acc.blocks[i]
           cut == [block EXCEPT !.start = start + size]
           d == [task |-> t, start |-> start, end |-> start + size, by |-> "rule"]
           next == [blocks |-> [acc.blocks EXCEPT ![i] = cut],
                    left |-> [acc.left EXCEPT ![t] = @ - size],
                    items |-> Append(acc.items, d)]
           taken == /\ room >= task.min /\ acc.left[t] > 0
                    /\ task.canSplit \/ room >= acc.left[t]
<1>4. Place(acc, t, i) = IF taken THEN next ELSE acc
  BY <1>2 DEF Place, Consumed
<1>5. CASE ~taken BY <1>4, <1>5
<1>6. CASE taken
  <2>1. /\ acc = [blocks |-> acc.blocks, left |-> acc.left, items |-> acc.items]
        /\ acc.blocks \in [1..m -> Interval] /\ acc.left \in [SchedTasks -> Nat]
        /\ acc.items \in Seq(Draft) /\ JobsFit(acc.items, busy)
        /\ \A u \in SchedTasks : Total(Given(acc.items, u)) + acc.left[u] = left[u]
    BY DEF PlanState
  <2>2. \A j \in 1..m : /\ acc.blocks[j].start >= 0 /\ acc.blocks[j].end <= Horizon
                        /\ \A b \in busy : ~Overlap(acc.blocks[j], b)
                        /\ \A k \in 1..m : j # k => ~Overlap(acc.blocks[j], acc.blocks[k])
                        /\ \A k \in DOMAIN acc.items : ~Overlap(acc.blocks[j], acc.items[k])
    BY DEF PlanState
  <2>3. /\ block \in Interval /\ block.start \in Int /\ block.end \in Int
        /\ block = [start |-> block.start, end |-> block.end] /\ acc.left[t] \in Nat
    BY <2>1 DEF Interval
  <2>4. /\ start \in Int /\ start >= task.earliest /\ start >= block.start
        /\ room \in Int /\ start + room <= task.latest /\ start + room <= block.end
    BY <1>2, <1>3, <2>3 DEF Later, Earlier
  <2>5. size \in Nat /\ size > 0 /\ size <= room /\ size <= acc.left[t]
    BY <1>2, <1>3, <1>6, <2>3, <2>4 DEF Earlier
  <2>6. cut = [start |-> start + size, end |-> block.end] BY <2>3
  <2>7. /\ cut \in Interval /\ cut.start = start + size /\ cut.end = block.end
        /\ cut.start >= block.start
    BY <2>3, <2>4, <2>5, <2>6 DEF Interval
  <2>8. /\ d \in Draft /\ d.start = start /\ d.end = start + size /\ d.task = t
        /\ d.by = "rule" /\ d.end - d.start = size
    BY <2>4, <2>5 DEF Draft
  <2>9. InWindow(d)
    BY <1>1, <1>2, <1>3, <2>2, <2>3, <2>4, <2>5, <2>8 DEF InWindow, Later, Earlier
  <2> HIDE DEF block, cut, d, taken
  <2>10. PICK more : more = Append(acc.items, d) OBVIOUS
  <2>11. \A b \in busy : ~Overlap(d, b) /\ ~Overlap(cut, b)
    <3> SUFFICES ASSUME NEW b \in busy PROVE ~Overlap(d, b) /\ ~Overlap(cut, b) OBVIOUS
    <3>1. b.start \in Int /\ b.end \in Int BY DEF Interval
    <3>2. ~Overlap(block, b) BY <2>2 DEF block
    <3> QED BY <2>3, <2>4, <2>5, <2>7, <2>8, <3>1, <3>2 DEF Overlap
  <2>12. \A k \in DOMAIN acc.items :
           ~Overlap(d, acc.items[k]) /\ ~Overlap(acc.items[k], d) /\ ~Overlap(cut, acc.items[k])
    <3> SUFFICES ASSUME NEW k \in DOMAIN acc.items
                 PROVE  /\ ~Overlap(d, acc.items[k]) /\ ~Overlap(acc.items[k], d)
                        /\ ~Overlap(cut, acc.items[k])
      OBVIOUS
    <3>1. acc.items[k] \in Draft BY <2>1
    <3>2. acc.items[k].start \in Int /\ acc.items[k].end \in Int BY <3>1 DEF Draft
    <3>3. ~Overlap(block, acc.items[k]) BY <2>2 DEF block
    <3> QED BY <2>3, <2>4, <2>5, <2>7, <2>8, <3>2, <3>3 DEF Overlap
  <2>13. more \in Seq(Draft) /\ JobsFit(more, busy)
    BY <2>1, <2>8, <2>9, <2>10, <2>11, <2>12, JobsFitAppend
  <2>14. DOMAIN more = (DOMAIN acc.items) \cup {Len(acc.items) + 1}
         /\ more[Len(acc.items) + 1] = d
         /\ \A k \in DOMAIN acc.items : more[k] = acc.items[k]
    BY <2>1, <2>8, <2>10
  <2>15. PICK blocks : blocks = [acc.blocks EXCEPT ![i] = cut] OBVIOUS
  <2>16. PICK rest : rest = [acc.left EXCEPT ![t] = @ - size] OBVIOUS
  <2>17. /\ blocks \in [1..m -> Interval] /\ blocks[i] = cut
         /\ \A j \in (1..m) \ {i} : blocks[j] = acc.blocks[j]
    BY <2>1, <2>7, <2>15
  <2>18. rest \in [SchedTasks -> Nat] /\ rest[t] = acc.left[t] - size
         /\ \A u \in SchedTasks \ {t} : rest[u] = acc.left[u]
    BY <2>1, <2>3, <2>5, <2>16
  <2>19. next = [blocks |-> blocks, left |-> rest, items |-> more] BY <2>10, <2>15, <2>16
  <2> HIDE DEF next
  <2>20. /\ next \in [blocks: [1..m -> Interval], left: [SchedTasks -> Nat], items: Seq(Draft)]
         /\ next.blocks = blocks /\ next.left = rest /\ next.items = more
    BY <2>13, <2>17, <2>18, <2>19
  <2>21. \A u \in SchedTasks : Total(Given(more, u)) + rest[u] = left[u]
    <3> SUFFICES ASSUME NEW u \in SchedTasks
                 PROVE  Total(Given(more, u)) + rest[u] = left[u]
      OBVIOUS
    <3>1. /\ Total(Given(acc.items, u)) \in Int
          /\ Total(Given(more, u)) = Total(Given(acc.items, u))
               + (IF d.task = u /\ d.by = "rule" THEN d.end - d.start ELSE 0)
      BY <2>1, <2>8, <2>10, GivenAppend
    <3>2. acc.left[u] \in Nat BY <2>1
    <3> QED BY <2>1, <2>5, <2>8, <2>18, <3>1, <3>2
  <2>22. ASSUME NEW j \in 1..m
         PROVE  /\ blocks[j].start >= 0 /\ blocks[j].end <= Horizon
                /\ \A b \in busy : ~Overlap(blocks[j], b)
                /\ \A k \in 1..m : j # k => ~Overlap(blocks[j], blocks[k])
                /\ \A k \in DOMAIN more : ~Overlap(blocks[j], more[k])
    <3>1. \A k \in 1..m : acc.blocks[k].start \in Int /\ acc.blocks[k].end \in Int
      BY <2>1 DEF Interval
    <3>2. CASE j = i
      <4>1. cut.start >= 0 /\ cut.end <= Horizon
        <5>1. block.start >= 0 /\ block.end <= Horizon BY <2>2 DEF block
        <5> QED BY <2>3, <2>4, <2>5, <2>7, <5>1
      <4>2. ASSUME NEW k \in 1..m, i # k PROVE ~Overlap(cut, blocks[k])
        <5>1. ~Overlap(block, acc.blocks[k]) BY <2>2, <4>2 DEF block
        <5>2. blocks[k] = acc.blocks[k] BY <2>17, <4>2
        <5> QED BY <2>3, <2>4, <2>5, <2>7, <3>1, <5>1, <5>2 DEF Overlap
      <4>3. ~Overlap(cut, d) BY <2>4, <2>5, <2>7, <2>8 DEF Overlap
      <4>4. \A k \in DOMAIN more : ~Overlap(cut, more[k]) BY <2>12, <2>14, <4>3
      <4> QED BY <2>11, <2>17, <3>2, <4>1, <4>2, <4>4
    <3>3. CASE j # i
      <4>1. blocks[j] = acc.blocks[j] BY <2>17, <3>3
      <4>2. ~Overlap(acc.blocks[j], block) BY <2>2, <3>3 DEF block
      <4>3. ~Overlap(acc.blocks[j], cut) /\ ~Overlap(acc.blocks[j], d)
        BY <2>3, <2>4, <2>5, <2>7, <2>8, <3>1, <4>2 DEF Overlap
      <4>4. \A k \in 1..m : j # k => ~Overlap(blocks[j], blocks[k])
        BY <2>2, <2>17, <4>1, <4>3
      <4>5. \A k \in DOMAIN more : ~Overlap(blocks[j], more[k])
        BY <2>2, <2>14, <4>1, <4>3
      <4> QED BY <2>2, <4>1, <4>4, <4>5
    <3> QED BY <3>2, <3>3
  <2> QED BY <1>4, <1>6, <2>13, <2>20, <2>21, <2>22 DEF PlanState
<1> QED BY <1>5, <1>6

(* A task, block after block. *)
LEMMA PlanTaskKeeps ==
    ASSUME taskTable \in TaskTables, NEW m \in Nat, NEW busy \in SUBSET Interval,
           NEW left \in [SchedTasks -> Nat],
           NEW acc \in PlanState(m, busy, left), NEW t \in SchedTasks, NEW blocks, Len(blocks) = m
    PROVE  PlanTask(acc, t, blocks) \in PlanState(m, busy, left)
<1>1. PICK Acc : Acc = PlanState(m, busy, left) OBVIOUS
<1>2. PICK s : s = Indices(blocks) OBVIOUS
<1>3. s = [i \in 1..m |-> i] BY <1>2 DEF Indices
<1>4. \A a \in Acc, i \in 1..m : Place(a, t, i) \in Acc BY <1>1, PlaceKeeps
<1> DEFINE E(it) == it = [S \in SUBSET (1..m) |-> IF S = {} THEN acc
                                                  ELSE Place(it[S \ {Max(S)}], t, s[Max(S)])]
<1>5. \E it : E(it)
  <2>1. PICK step : step = [x \in Acc \X (1..m) |-> Place(x[1], t, x[2])] OBVIOUS
  <2>2. step \in [Acc \X (1..m) -> Acc] BY <1>4, <2>1
  <2>3. CanFold(m, Acc, acc, 1..m, s, step) BY <1>1, <1>3, <2>2 DEF CanFold
  <2>4. PICK it : FoldOf(it, m, Acc, acc, s, step) BY <2>3, FoldExists
  <2>5. ASSUME NEW S \in SUBSET (1..m), S # {}
        PROVE  it[S] = Place(it[S \ {Max(S)}], t, s[Max(S)])
    <3>1. S \ {Max(S)} \in SUBSET (1..m) /\ Max(S) \in 1..m BY <2>5, OneFewer
    <3>2. it[S \ {Max(S)}] \in Acc /\ s[Max(S)] \in 1..m BY <1>3, <2>4, <3>1 DEF FoldOf
    <3>3. it[S] = step[<<it[S \ {Max(S)}], s[Max(S)]>>] BY <2>4, <2>5 DEF FoldOf
    <3> QED BY <2>1, <3>2, <3>3
  <2> QED BY <2>4, <2>5 DEF FoldOf
<1>6. PICK f : f = (CHOOSE it : E(it)) OBVIOUS
<1>7. E(f) BY <1>5, <1>6
<1>8. DOMAIN s = 1..m BY <1>3
<1>9. PlanTask(acc, t, blocks) = f[DOMAIN s]
  BY <1>2, <1>6, <1>8 DEF PlanTask, FoldLeft, MapThenFoldSet
<1>10. f[{}] \in Acc BY <1>1, <1>7
<1>11. ASSUME NEW S \in SUBSET (1..m), S # {}, f[S \ {Max(S)}] \in Acc PROVE f[S] \in Acc
  <2>1. f[S] = Place(f[S \ {Max(S)}], t, s[Max(S)]) BY <1>7, <1>11
  <2>2. Max(S) \in 1..m BY <1>11, OneFewer
  <2>3. s[Max(S)] \in 1..m BY <1>3, <2>2
  <2> QED BY <1>4, <1>11, <2>1, <2>3
<1>12. f[1..m] \in Acc BY <1>10, <1>11, FoldKeeps
<1> QED BY <1>1, <1>8, <1>9, <1>12

(* The tasks, one after the other. *)
LEMMA RulePlanKeeps ==
    ASSUME taskTable \in TaskTables, IsFiniteSet(logs),
           NEW m \in Nat, NEW busy \in SUBSET Interval, NEW blocks \in [1..m -> Interval],
           \A i \in 1..m : /\ blocks[i].start >= 0 /\ blocks[i].end <= Horizon
                           /\ \A b \in busy : ~Overlap(blocks[i], b)
                           /\ \A j \in 1..m : i # j => ~Overlap(blocks[i], blocks[j]),
           NEW order \in SetToSeqs(ToPlan)
    PROVE  RulePlan(order, blocks) \in PlanState(m, busy, [t \in SchedTasks |-> Remaining(t)])
<1>1. PICK left : left = [t \in SchedTasks |-> Remaining(t)] OBVIOUS
<1>2. left \in [SchedTasks -> Nat]
  <2>1. ASSUME NEW t \in SchedTasks PROVE Remaining(t) \in Nat
    <3>1. Cardinality({l \in logs : l.task = t}) \in Nat
      BY FS_Subset, FS_CardinalityType
    <3>2. taskTable[t].estimate \in Nat BY TasksHaveTypes DEF TaskPayload
    <3> QED BY <3>1, <3>2 DEF Remaining, Later
  <2> QED BY <1>1, <2>1
<1>3. PICK Acc : Acc = PlanState(m, busy, left) OBVIOUS
<1>4. PICK base : base = [blocks |-> blocks, items |-> <<>>, left |-> left] OBVIOUS
<1>5. base \in Acc
  <2>1. /\ base = [blocks |-> blocks, left |-> left, items |-> <<>>]
        /\ base.blocks = blocks /\ base.items = <<>> /\ base.left = left
    BY <1>4
  <2>2. DOMAIN base.items = {} /\ base.items \in Seq(Draft) BY <2>1
  <2>3. base \in [blocks: [1..m -> Interval], left: [SchedTasks -> Nat], items: Seq(Draft)]
    BY <1>2, <2>1
  <2>4. JobsFit(base.items, busy) BY <2>2 DEF JobsFit
  <2>5. \A t \in SchedTasks : Total(Given(base.items, t)) + base.left[t] = left[t]
    <3> SUFFICES ASSUME NEW t \in SchedTasks
                 PROVE  Total(Given(base.items, t)) + base.left[t] = left[t]
      OBVIOUS
    <3>1. Total(Given(base.items, t)) = 0 BY <2>2, GivenNone
    <3>2. left[t] \in Nat BY <1>2
    <3> QED BY <2>1, <3>1, <3>2
  <2> QED BY <1>3, <2>1, <2>2, <2>3, <2>4, <2>5 DEF PlanState
<1>6. PICK n \in Nat : order \in [1..n -> SchedTasks]
  <2>1. ToPlan \subseteq SchedTasks BY DEF ToPlan
  <2>2. IsFiniteSet(ToPlan) BY <2>1, FS_Subset, TasksHaveTypes
  <2>3. Cardinality(ToPlan) \in Nat BY <2>2, FS_CardinalityType
  <2>4. order \in [1..Cardinality(ToPlan) -> ToPlan] BY DEF SetToSeqs
  <2> QED BY <2>1, <2>3, <2>4
<1>7. Len(blocks) = m OBVIOUS
<1>8. \A a \in Acc, t \in SchedTasks : PlanTask(a, t, blocks) \in Acc
  BY <1>2, <1>3, <1>7, PlanTaskKeeps
<1> DEFINE E(it) == it = [S \in SUBSET (1..n) |-> IF S = {} THEN base
                            ELSE PlanTask(it[S \ {Max(S)}], order[Max(S)], blocks)]
<1>9. \E it : E(it)
  <2>1. PICK step : step = [x \in Acc \X SchedTasks |-> PlanTask(x[1], x[2], blocks)] OBVIOUS
  <2>2. step \in [Acc \X SchedTasks -> Acc] BY <1>8, <2>1
  <2>3. CanFold(n, Acc, base, SchedTasks, order, step) BY <1>5, <1>6, <2>2 DEF CanFold
  <2>4. PICK it : FoldOf(it, n, Acc, base, order, step) BY <2>3, FoldExists
  <2>5. ASSUME NEW S \in SUBSET (1..n), S # {}
        PROVE  it[S] = PlanTask(it[S \ {Max(S)}], order[Max(S)], blocks)
    <3>1. S \ {Max(S)} \in SUBSET (1..n) /\ Max(S) \in 1..n BY <2>5, OneFewer
    <3>2. it[S \ {Max(S)}] \in Acc /\ order[Max(S)] \in SchedTasks
      BY <1>6, <2>4, <3>1 DEF FoldOf
    <3>3. it[S] = step[<<it[S \ {Max(S)}], order[Max(S)]>>] BY <2>4, <2>5 DEF FoldOf
    <3> QED BY <2>1, <3>2, <3>3
  <2> QED BY <2>4, <2>5 DEF FoldOf
<1>10. PICK f : f = (CHOOSE it : E(it)) OBVIOUS
<1>11. E(f) BY <1>9, <1>10
<1>12. DOMAIN order = 1..n BY <1>6
<1>13. RulePlan(order, blocks) = f[DOMAIN order]
  BY <1>1, <1>4, <1>10, <1>12 DEF RulePlan, FoldLeft, MapThenFoldSet
<1>14. f[{}] \in Acc BY <1>5, <1>11
<1>15. ASSUME NEW S \in SUBSET (1..n), S # {}, f[S \ {Max(S)}] \in Acc PROVE f[S] \in Acc
  <2>1. f[S] = PlanTask(f[S \ {Max(S)}], order[Max(S)], blocks) BY <1>11, <1>15
  <2>2. Max(S) \in 1..n BY <1>15, OneFewer
  <2>3. order[Max(S)] \in SchedTasks BY <1>6, <2>2
  <2> QED BY <1>8, <1>15, <2>1, <2>3
<1>16. f[1..n] \in Acc BY <1>14, <1>15, FoldKeeps
<1> QED BY <1>1, <1>3, <1>12, <1>13, <1>16

\* Drafts that keep clear, and give no task more than was left of it.
Clear(busy, left) ==
    {items \in Seq(Draft) :
       /\ JobsFit(items, busy)
       /\ \A t \in SchedTasks : Total(Given(items, t)) <= left[t]}

(* A draft of the model is taken when it is clear of all that was taken. *)
LEMMA TakeDraftKeeps ==
    ASSUME taskTable \in TaskTables, NEW busy \in SUBSET Interval,
           NEW left \in [SchedTasks -> Nat], NEW items \in Clear(busy, left),
           NEW d \in [task: SchedTasks, start: Int, end: Int]
    PROVE  TakeDraft(items, d, busy) \in Clear(busy, left)
<1>1. /\ taskTable[d.task] \in TaskPayload /\ Horizon \in Nat /\ d.task \in SchedTasks
      /\ d.start \in Int /\ d.end \in Int
  BY TasksHaveTypes, SchedBounds
<1> DEFINE e == [task |-> d.task, start |-> d.start, end |-> d.end, by |-> "llm"]
           fits == Fits(d, busy \cup {Span(items[i]) : i \in DOMAIN items})
<1>2. CASE ~fits BY <1>2 DEF TakeDraft
<1>3. CASE fits
  <2>1. /\ items \in Seq(Draft) /\ JobsFit(items, busy)
        /\ \A t \in SchedTasks : Total(Given(items, t)) <= left[t]
    BY DEF Clear
  <2>2. /\ e \in Draft /\ e.start = d.start /\ e.end = d.end /\ e.task = d.task /\ e.by = "llm"
    BY <1>1 DEF Draft
  <2>3. TakeDraft(items, d, busy) = Append(items, e) BY <1>3 DEF TakeDraft
  <2>4. /\ d.start < d.end /\ d.start >= 0 /\ d.end <= Horizon
        /\ d.start >= taskTable[d.task].earliest /\ d.end <= taskTable[d.task].latest
        /\ \A b \in busy \cup {Span(items[i]) : i \in DOMAIN items} : ~Overlap(d, b)
    BY <1>3 DEF Fits
  <2> HIDE DEF e, fits
  <2>5. InWindow(e)
    <3>1. taskTable[d.task].earliest \in Int /\ taskTable[d.task].latest \in Int
      BY <1>1 DEF TaskPayload
    <3> QED BY <1>1, <2>2, <2>4, <3>1 DEF InWindow, Later, Earlier
  <2>6. \A b \in busy : ~Overlap(e, b) BY <2>2, <2>4 DEF Overlap
  <2>7. ASSUME NEW i \in DOMAIN items PROVE ~Overlap(e, items[i]) /\ ~Overlap(items[i], e)
    <3>3. items[i] \in Draft BY <2>1
    <3>1. items[i].start \in Int /\ items[i].end \in Int BY <3>3 DEF Draft
    <3>2. ~Overlap(d, Span(items[i])) BY <2>4
    <3> QED BY <1>1, <2>2, <3>1, <3>2 DEF Overlap, Span
  <2>8. PICK more : more = Append(items, e) OBVIOUS
  <2>9. more \in Seq(Draft) /\ JobsFit(more, busy)
    BY <2>1, <2>2, <2>5, <2>6, <2>7, <2>8, JobsFitAppend
  <2>10. \A t \in SchedTasks : Total(Given(more, t)) <= left[t]
    <3> SUFFICES ASSUME NEW t \in SchedTasks PROVE Total(Given(more, t)) <= left[t] OBVIOUS
    <3>1. /\ Total(Given(items, t)) \in Int
          /\ Total(Given(more, t)) = Total(Given(items, t))
               + (IF e.task = t /\ e.by = "rule" THEN e.end - e.start ELSE 0)
      BY <2>1, <2>2, <2>8, GivenAppend
    <3> QED BY <2>1, <2>2, <3>1
  <2> QED BY <2>3, <2>8, <2>9, <2>10 DEF Clear
<1> QED BY <1>2, <1>3

(* The drafts of the model, one after the other. *)
LEMMA ValidatedKeeps ==
    ASSUME taskTable \in TaskTables, NEW busy \in SUBSET Interval,
           NEW left \in [SchedTasks -> Nat], NEW items \in Clear(busy, left),
           NEW reply \in Replies
    PROVE  Validated(reply, items, busy) \in Clear(busy, left)
<1>1. PICK Acc, Answers : Acc = Clear(busy, left) /\ Answers = [task: SchedTasks, start: Int, end: Int]
  OBVIOUS
<1>2. PICK n \in Nat : reply \in [1..n -> Answers]
  <2>1. reply \in Seq(Answers) BY <1>1, RepliesHaveTypes
  <2> QED BY <2>1
<1>3. \A a \in Acc, d \in Answers : TakeDraft(a, d, busy) \in Acc BY <1>1, TakeDraftKeeps
<1> DEFINE E(it) == it = [S \in SUBSET (1..n) |-> IF S = {} THEN items
                            ELSE TakeDraft(it[S \ {Max(S)}], reply[Max(S)], busy)]
<1>4. \E it : E(it)
  <2>1. PICK step : step = [x \in Acc \X Answers |-> TakeDraft(x[1], x[2], busy)] OBVIOUS
  <2>2. step \in [Acc \X Answers -> Acc] BY <1>3, <2>1
  <2>3. CanFold(n, Acc, items, Answers, reply, step) BY <1>1, <1>2, <2>2 DEF CanFold
  <2>4. PICK it : FoldOf(it, n, Acc, items, reply, step) BY <2>3, FoldExists
  <2>5. ASSUME NEW S \in SUBSET (1..n), S # {}
        PROVE  it[S] = TakeDraft(it[S \ {Max(S)}], reply[Max(S)], busy)
    <3>1. S \ {Max(S)} \in SUBSET (1..n) /\ Max(S) \in 1..n BY <2>5, OneFewer
    <3>2. it[S \ {Max(S)}] \in Acc /\ reply[Max(S)] \in Answers
      BY <1>2, <2>4, <3>1 DEF FoldOf
    <3>3. it[S] = step[<<it[S \ {Max(S)}], reply[Max(S)]>>] BY <2>4, <2>5 DEF FoldOf
    <3> QED BY <2>1, <3>2, <3>3
  <2> QED BY <2>4, <2>5 DEF FoldOf
<1>5. PICK f : f = (CHOOSE it : E(it)) OBVIOUS
<1>6. E(f) BY <1>4, <1>5
<1>7. DOMAIN reply = 1..n BY <1>2
<1>8. Validated(reply, items, busy) = f[DOMAIN reply]
  BY <1>5, <1>7 DEF Validated, FoldLeft, MapThenFoldSet
<1>9. f[{}] \in Acc BY <1>1, <1>6
<1>10. ASSUME NEW S \in SUBSET (1..n), S # {}, f[S \ {Max(S)}] \in Acc PROVE f[S] \in Acc
  <2>1. f[S] = TakeDraft(f[S \ {Max(S)}], reply[Max(S)], busy) BY <1>6, <1>10
  <2>2. Max(S) \in 1..n BY <1>10, OneFewer
  <2>3. reply[Max(S)] \in Answers BY <1>2, <2>2
  <2> QED BY <1>3, <1>10, <2>1, <2>3
<1>11. f[1..n] \in Acc BY <1>9, <1>10, FoldKeeps
<1> QED BY <1>1, <1>7, <1>8, <1>11

-----------------------------------------------------------------------------
(* Scheduler                                                               *)

\* What a plan says of a run that is in the table, it says for good.
PlansStay ==
    \A q \in Runs : Jobs(q)' = Jobs(q) /\ run'[q].busy = run[q].busy /\ run'[q].left = run[q].left

(* A run that is planned takes no place of one that segments are of. *)
LEMMA PlanRunInv ==
    ASSUME SegmentsInv, NEW r \in Runs, PlanRun(r)
    PROVE  SegmentsInv'
<1>1. run[r].status = "none" /\ UNCHANGED <<segment, accept>>
  BY DEF PlanRun
<1>2. PICK order \in SetToSeqs(ToPlan), reply \in Replies :
        LET blocks == BusyBlocks
            plan   == RulePlan(order, InWorkHours(FreeBlocks(blocks), WorkBlocks))
            items  == Validated(reply, plan.items, blocks)
        IN  run' = [run EXCEPT ![r] =
                      [status |-> "planned", busy |-> blocks,
                       left |-> [t \in SchedTasks |-> Remaining(t)],
                       items |-> [i \in DOMAIN items |->
                                    [job |-> items[i], status |-> "pending",
                                     at |-> Span(items[i])]]]]
  BY ZenonT(30) DEF PlanRun
<1> DEFINE blocks == BusyBlocks
           plan   == RulePlan(order, InWorkHours(FreeBlocks(blocks), WorkBlocks))
           items  == Validated(reply, plan.items, blocks)
           left   == [t \in SchedTasks |-> Remaining(t)]
<1>3. run' = [run EXCEPT ![r] = [status |-> "planned", busy |-> blocks, left |-> left,
                                   items |-> [i \in DOMAIN items |->
                                                [job |-> items[i], status |-> "pending",
                                                 at |-> Span(items[i])]]]]
  BY <1>2, Zenon
<1> HIDE DEF blocks, plan, items, left
<1>4. /\ DOMAIN run' = Runs /\ \A q \in Runs \ {r} : run'[q] = run[q]
      /\ run'[r] = [status |-> run'[r].status, items |-> run'[r].items,
                    busy |-> run'[r].busy, left |-> run'[r].left]
      /\ \A i \in DOMAIN run'[r].items :
           run'[r].items[i] = [job |-> run'[r].items[i].job, status |-> run'[r].items[i].status,
                               at |-> run'[r].items[i].at]
  BY <1>3 DEF SegmentsInv
<1>5. ASSUME NEW q, Stored(q) PROVE q \in Runs \ {r} /\ run'[q] = run[q] /\ Stored(q)'
  <2>1. q \in Runs \ {r}
    BY <1>1, <1>5 DEF Stored
  <2>. QED
    BY <1>4, <1>5, <2>1 DEF Stored
<1>6. SegmentTellsItem'
  BY <1>1, <1>5 DEF SegmentsInv, SegmentTellsItem, Span
<1> QED
  BY <1>1, <1>4, <1>5, <1>6 DEF SegmentsInv

(* Statuses of a run and of its items change; what an item says of a segment does
   not, unless the item ceases to say anything. *)
LEMMA StatusesInv ==
    ASSUME SegmentsInv, UNCHANGED <<segment, accept>>, DOMAIN run' = Runs,
           \A r \in Runs :
             /\ Stored(r) => Stored(r)'
             /\ run'[r] = [status |-> run'[r].status, items |-> run'[r].items,
                           busy |-> run'[r].busy, left |-> run'[r].left]
             /\ run'[r].busy = run[r].busy /\ run'[r].left = run[r].left
             /\ DOMAIN run'[r].items = DOMAIN run[r].items
             /\ \A i \in DOMAIN run[r].items :
                  \/ run'[r].items[i] = run[r].items[i]
                  \/ run'[r].items[i] = [run[r].items[i] EXCEPT !.status = "rejected"]
    PROVE  SegmentsInv' /\ PlansStay
<1>1. ASSUME NEW r \in Runs, NEW i \in DOMAIN run[r].items
      PROVE  /\ run'[r].items[i] = [job |-> run'[r].items[i].job,
                                    status |-> run'[r].items[i].status,
                                    at |-> run'[r].items[i].at]
             /\ run'[r].items[i] = run[r].items[i] \/ run'[r].items[i].status = "rejected"
  <2>1. run[r].items[i] = [job |-> run[r].items[i].job, status |-> run[r].items[i].status,
                           at |-> run[r].items[i].at]
    BY DEF SegmentsInv
  <2>2. [run[r].items[i] EXCEPT !.status = "rejected"] =
          [job |-> run[r].items[i].job, status |-> "rejected", at |-> run[r].items[i].at]
    BY <2>1
  <2> QED
    BY <2>1, <2>2
<1>2. \A s \in segment : Stored(s.run)' /\ s.item \in DOMAIN run'[s.run].items
  BY DEF SegmentsInv, Stored
<1>3. SegmentTellsItem'
  <2> SUFFICES ASSUME NEW s \in segment
               PROVE  LET item == run'[s.run].items[s.item]
                      IN  /\ item.status = "accepted" => s.at = Span(item.job)
                          /\ item.status = "modified" => s.at = item.at
    BY DEF SegmentTellsItem, Span
  <2>1. s.run \in Runs /\ s.item \in DOMAIN run[s.run].items
    BY DEF SegmentsInv, Stored
  <2>2. PICK before, after : /\ before = run[s.run].items[s.item]
                             /\ after = run'[s.run].items[s.item]
    OBVIOUS
  <2>3. after = before \/ after.status = "rejected"
    BY <1>1, <2>1, <2>2
  <2>4. /\ before.status = "accepted" => s.at = Span(before.job)
        /\ before.status = "modified" => s.at = before.at
    BY <2>2 DEF SegmentsInv, SegmentTellsItem
  <2> QED
    BY <2>2, <2>3, <2>4
<1>6. ASSUME NEW r \in Runs, NEW i \in DOMAIN run[r].items
      PROVE  run'[r].items[i].job = run[r].items[i].job
  <2>1. run[r].items[i] = [job |-> run[r].items[i].job, status |-> run[r].items[i].status,
                           at |-> run[r].items[i].at]
    BY DEF SegmentsInv
  <2>2. [run[r].items[i] EXCEPT !.status = "rejected"].job = run[r].items[i].job
    BY <2>1
  <2> QED
    BY <2>2
<1>4. PlansStay
  <2> SUFFICES ASSUME NEW r \in Runs PROVE Jobs(r)' = Jobs(r)
    BY DEF PlansStay
  <2>1. [i \in DOMAIN run'[r].items |-> run'[r].items[i].job] =
          [i \in DOMAIN run[r].items |-> run[r].items[i].job]
    BY <1>6
  <2> QED
    BY <2>1 DEF Jobs
<1>5. SegmentsInv'
  BY <1>1, <1>2, <1>3 DEF SegmentsInv, Stored
<1> QED
  BY <1>4, <1>5

(* Rejecting changes statuses only, of pending items and of a draft. *)
LEMMA RejectRunInv ==
    ASSUME SegmentsInv, NEW r \in Runs, RejectRun(r)
    PROVE  SegmentsInv' /\ PlansStay
<1> DEFINE items == [i \in DOMAIN run[r].items |->
                       IF run[r].items[i].status = "pending"
                       THEN [run[r].items[i] EXCEPT !.status = "rejected"] ELSE run[r].items[i]]
           status == IF run[r].status = "draft" THEN "rejected" ELSE run[r].status
<1>1. run[r] = [status |-> run[r].status, items |-> run[r].items,
                busy |-> run[r].busy, left |-> run[r].left]
  BY DEF SegmentsInv
<1>2. run' = [run EXCEPT ![r] = [run[r] EXCEPT !.status = status, !.items = items]]
  BY DEF RejectRun
<1>4. \A i \in DOMAIN run[r].items :
        \/ items[i] = run[r].items[i]
        \/ items[i] = [run[r].items[i] EXCEPT !.status = "rejected"]
  OBVIOUS
<1>5. DOMAIN items = DOMAIN run[r].items /\ status \notin {"none", "planned"}
  BY DEF RejectRun
<1>6. UNCHANGED <<segment, accept>>
  BY DEF RejectRun
<1> HIDE DEF items, status
<1> DEFINE first == [run[r] EXCEPT !.status = status]
           whole == [first EXCEPT !.items = items]
<1>3. run' = [run EXCEPT ![r] = whole]
  BY <1>2
<1>8. first = [status |-> status, items |-> run[r].items, busy |-> run[r].busy,
               left |-> run[r].left]
  BY <1>1
<1> HIDE DEF first
<1>9. whole = [status |-> status, items |-> items, busy |-> run[r].busy, left |-> run[r].left]
  BY <1>8
<1> HIDE DEF whole
<1>7. run'[r] = [status |-> status, items |-> items, busy |-> run[r].busy, left |-> run[r].left]
      /\ DOMAIN run' = Runs /\ \A q \in Runs \ {r} : run'[q] = run[q]
  BY <1>3, <1>9 DEF SegmentsInv
<1> QED
  BY <1>4, <1>5, <1>6, <1>7, StatusesInv DEF SegmentsInv, Stored

(* A run that is stored becomes a draft, and keeps its items. *)
LEMMA InsertRunInv ==
    ASSUME SegmentsInv, NEW r \in Runs, InsertRun(r)
    PROVE  SegmentsInv' /\ PlansStay
<1>1. /\ UNCHANGED <<segment, accept>> /\ run' = [run EXCEPT ![r].status = "draft"]
  BY DEF InsertRun
<1>2. run'[r] = [status |-> "draft", items |-> run[r].items, busy |-> run[r].busy,
                 left |-> run[r].left]
      /\ DOMAIN run' = Runs /\ \A q \in Runs \ {r} : run'[q] = run[q]
  BY <1>1 DEF SegmentsInv
<1> QED
  BY <1>1, <1>2, StatusesInv DEF SegmentsInv, Stored

(* Acceptance writes an item and its segment at the same times. *)
LEMMA AcceptWriteInv ==
    ASSUME SegmentsInv, NEW p \in Accepts, AcceptWrite(p)
    PROVE  SegmentsInv' /\ PlansStay
<1> DEFINE a == accept[p]
           r == a.run
           items == [i \in DOMAIN run[r].items |-> ItemAfter(a, i, run[r].items[i])]
           status == IF a.all THEN "accepted" ELSE "partially_accepted"
<1>1. /\ a.pc = "read" /\ Stored(r) /\ a.selected \subseteq DOMAIN run[r].items
      /\ run[r] = [status |-> run[r].status, items |-> run[r].items,
                   busy |-> run[r].busy, left |-> run[r].left]
  BY DEF AcceptWrite, SegmentsInv, Stored
<1>2. run' = [run EXCEPT ![r] = [run[r] EXCEPT !.items = items, !.status = status]]
  BY DEF AcceptWrite
<1>4. segment' = Upserted(a) /\ accept' = [accept EXCEPT ![p] = NoAccept]
  BY DEF AcceptWrite
<1>5. Written(a) \subseteq a.selected
  BY DEF Written
<1>6. ASSUME NEW i \in DOMAIN run[r].items
      PROVE  /\ items[i] = [job |-> items[i].job, status |-> items[i].status, at |-> items[i].at]
             /\ items[i].job = run[r].items[i].job
             /\ i \notin Written(a) => items[i] = run[r].items[i] \/ items[i].status = "rejected"
             /\ i \in Written(a) =>
                  \/ items[i].status = "rejected"
                  \/ items[i].status = "accepted" /\ TimesOf(a, i) = Span(items[i].job)
                  \/ items[i].status = "modified" /\ TimesOf(a, i) = items[i].at
  <2> DEFINE item == run[r].items[i]
  <2>1. item = [job |-> item.job, status |-> item.status, at |-> item.at]
    BY <1>1 DEF SegmentsInv, Stored
  <2>2. items[i] = ItemAfter(a, i, item)
    OBVIOUS
  <2>3. a.override.item # i => TimesOf(a, i) = Span(item.job)
    BY DEF TimesOf
  <2> HIDE DEF items, item, a, r
  <2>4. ItemAfter(a, i, item) \in
          {item, [item EXCEPT !.status = "rejected"],
           [item EXCEPT !.status = "accepted"],
           [[item EXCEPT !.status = "accepted"] EXCEPT !.status = "rejected"],
           [item EXCEPT !.status = "modified", !.at = TimesOf(a, i)],
           [[item EXCEPT !.status = "modified", !.at = TimesOf(a, i)]
              EXCEPT !.status = "rejected"]}
    BY DEF ItemAfter
  <2>5. /\ [item EXCEPT !.status = "rejected"] =
             [job |-> item.job, status |-> "rejected", at |-> item.at]
        /\ [item EXCEPT !.status = "accepted"] =
             [job |-> item.job, status |-> "accepted", at |-> item.at]
    BY <2>1
  <2> DEFINE done == [item EXCEPT !.status = "accepted"]
             turned == [item EXCEPT !.status = "modified"]
             moved == [turned EXCEPT !.at = TimesOf(a, i)]
  <2>16. turned = [job |-> item.job, status |-> "modified", at |-> item.at]
    BY <2>1
  <2> HIDE DEF turned
  <2>6. moved = [job |-> item.job, status |-> "modified", at |-> TimesOf(a, i)]
    BY <2>16
  <2>7. /\ done = [job |-> done.job, status |-> done.status, at |-> done.at]
        /\ moved = [job |-> moved.job, status |-> moved.status, at |-> moved.at]
        /\ done.job = item.job /\ moved.job = item.job
        /\ done.at = item.at /\ moved.at = TimesOf(a, i)
    BY <2>5, <2>6
  <2> HIDE DEF done, moved
  <2>8. [done EXCEPT !.status = "rejected"] =
          [job |-> item.job, status |-> "rejected", at |-> item.at]
    BY <2>7
  <2>9. [moved EXCEPT !.status = "rejected"] =
          [job |-> item.job, status |-> "rejected", at |-> TimesOf(a, i)]
    BY <2>7
  <2>10. i \notin Written(a) => ItemAfter(a, i, item) \in {item, [item EXCEPT !.status = "rejected"]}
    BY DEF ItemAfter
  <2>11. i \in Written(a) /\ i \notin a.rejected =>
           ItemAfter(a, i, item) = IF a.override.item = i
                 THEN [item EXCEPT !.status = "modified", !.at = TimesOf(a, i)]
                 ELSE [item EXCEPT !.status = "accepted"]
    BY DEF ItemAfter
  <2>12. i \in a.rejected => ItemAfter(a, i, item) \in
           {[item EXCEPT !.status = "rejected"],
            [[item EXCEPT !.status = "accepted"] EXCEPT !.status = "rejected"],
            [[item EXCEPT !.status = "modified", !.at = TimesOf(a, i)]
               EXCEPT !.status = "rejected"]}
    BY DEF ItemAfter
  <2> USE DEF done, moved, turned
  <2>13. items[i] = [job |-> items[i].job, status |-> items[i].status, at |-> items[i].at]
         /\ items[i].job = item.job
    BY <2>1, <2>2, <2>4, <2>5, <2>6, <2>7, <2>8, <2>9
  <2>14. i \notin Written(a) => items[i] = item \/ items[i].status = "rejected"
    BY <2>2, <2>5, <2>10
  <2>15. i \in Written(a) =>
                  \/ items[i].status = "rejected"
                  \/ items[i].status = "accepted" /\ TimesOf(a, i) = Span(items[i].job)
                  \/ items[i].status = "modified" /\ TimesOf(a, i) = items[i].at
    BY <2>2, <2>3, <2>5, <2>6, <2>7, <2>8, <2>9, <2>11, <2>12
  <2> QED
    BY <2>13, <2>14, <2>15 DEF item
<1>7. DOMAIN items = DOMAIN run[r].items /\ status \notin {"none", "planned"}
  OBVIOUS
<1>8. Upserted(a) = {s \in segment : s.run # r \/ s.item \notin Written(a)}
        \cup {[run |-> r, item |-> i, at |-> TimesOf(a, i)] : i \in Written(a)}
  BY DEF Upserted
<1>9. DOMAIN accept' = Accepts /\ accept'[p].pc = "idle"
      /\ \A q \in Accepts \ {p} : accept'[q] = accept[q]
  BY <1>4 DEF NoAccept, SegmentsInv
<1> HIDE DEF items, status, a, r
<1> DEFINE first == [run[r] EXCEPT !.items = items]
           whole == [first EXCEPT !.status = status]
<1>3. run' = [run EXCEPT ![r] = whole]
  BY <1>2
<1>16. first = [status |-> run[r].status, items |-> items, busy |-> run[r].busy,
                left |-> run[r].left]
  BY <1>1
<1> HIDE DEF first
<1>17. whole = [status |-> status, items |-> items, busy |-> run[r].busy, left |-> run[r].left]
  BY <1>16
<1> HIDE DEF whole
<1>10. /\ run'[r] = [status |-> status, items |-> items, busy |-> run[r].busy, left |-> run[r].left]
       /\ DOMAIN run' = Runs /\ \A q \in Runs \ {r} : run'[q] = run[q]
  BY <1>1, <1>3, <1>17 DEF SegmentsInv, Stored
<1>11. \A q \in Runs : Stored(q) => Stored(q)' /\ DOMAIN run'[q].items = DOMAIN run[q].items
  BY <1>7, <1>10 DEF Stored
<1>12. ASSUME NEW s \in segment'
       PROVE  /\ Stored(s.run)' /\ s.item \in DOMAIN run'[s.run].items
              /\ run'[s.run].items[s.item].status = "accepted" =>
                   s.at = Span(run'[s.run].items[s.item].job)
              /\ run'[s.run].items[s.item].status = "modified" =>
                   s.at = run'[s.run].items[s.item].at
  <2>1. CASE s \in segment /\ s.run # r
    BY <1>10, <1>11, <2>1 DEF SegmentsInv, SegmentTellsItem, Stored
  <2>2. CASE s \in segment /\ s.run = r /\ s.item \notin Written(a)
    BY <1>1, <1>6, <1>7, <1>10, <1>11, <2>2 DEF SegmentsInv, SegmentTellsItem, Stored
  <2>3. CASE s \in {[run |-> r, item |-> i, at |-> TimesOf(a, i)] : i \in Written(a)}
    <3>1. PICK i \in Written(a) : s.run = r /\ s.item = i /\ s.at = TimesOf(a, i)
      BY <2>3
    <3>2. i \in DOMAIN run[r].items
      BY <1>1, <1>5
    <3>3. r \in Runs /\ run'[s.run].items[s.item] = items[i] /\ i \in DOMAIN run'[r].items
      BY <1>1, <1>7, <1>10, <3>1, <3>2 DEF Stored
    <3>4. run'[r].status \notin {"none", "planned"}
      BY <1>1, <1>7, <1>10
    <3>5. /\ items[i].status = "accepted" => s.at = Span(items[i].job)
          /\ items[i].status = "modified" => s.at = items[i].at
      BY <1>6, <3>1, <3>2
    <3> QED
      BY <3>1, <3>3, <3>4, <3>5 DEF Stored
  <2> QED
    BY <1>4, <1>8, <2>1, <2>2, <2>3
<1>13. SegmentTellsItem'
  BY <1>12 DEF SegmentTellsItem, Span
<1>14. \A q \in Runs :
         /\ run'[q] = [status |-> run'[q].status, items |-> run'[q].items,
                       busy |-> run'[q].busy, left |-> run'[q].left]
         /\ \A i \in DOMAIN run'[q].items :
              run'[q].items[i] = [job |-> run'[q].items[i].job, status |-> run'[q].items[i].status,
                                  at |-> run'[q].items[i].at]
  BY <1>6, <1>7, <1>10 DEF SegmentsInv
<1>15. \A q \in Accepts : accept'[q].pc = "read" =>
         accept'[q].run \in Runs /\ run'[accept'[q].run].status \notin {"none", "planned"}
         /\ accept'[q].selected \subseteq DOMAIN run'[accept'[q].run].items
  <2> SUFFICES ASSUME NEW q \in Accepts, accept'[q].pc = "read"
               PROVE  /\ accept'[q].run \in Runs
                      /\ run'[accept'[q].run].status \notin {"none", "planned"}
                      /\ accept'[q].selected \subseteq DOMAIN run'[accept'[q].run].items
    OBVIOUS
  <2>1. q # p /\ accept'[q] = accept[q]
    BY <1>9
  <2>2. Stored(accept[q].run) /\ accept[q].selected \subseteq DOMAIN run[accept[q].run].items
    BY <2>1 DEF SegmentsInv
  <2>3. accept[q].run \in Runs
    BY <2>2 DEF Stored
  <2> QED
    BY <1>11, <2>1, <2>2, <2>3 DEF Stored
<1>18. PlansStay
  <2> SUFFICES ASSUME NEW q \in Runs
               PROVE  /\ Jobs(q)' = Jobs(q)
                      /\ run'[q].busy = run[q].busy /\ run'[q].left = run[q].left
    BY DEF PlansStay
  <2>1. CASE q # r
    BY <1>10, <2>1 DEF Jobs
  <2>2. CASE q = r
    <3>1. run'[q].items = items /\ run'[q].busy = run[q].busy /\ run'[q].left = run[q].left
      BY <1>10, <2>2
    <3>2. [i \in DOMAIN items |-> items[i].job] = [i \in DOMAIN run[r].items |-> run[r].items[i].job]
      BY <1>6, <1>7
    <3> QED
      BY <2>2, <3>1, <3>2 DEF Jobs
  <2> QED
    BY <2>1, <2>2
<1>19. SegmentsInv'
  BY <1>9, <1>10, <1>12, <1>13, <1>14, <1>15 DEF SegmentsInv, Stored
<1> QED
  BY <1>18, <1>19

(* What acceptDraft selects are items of a draft that is stored. *)
LEMMA AcceptReadInv ==
    ASSUME SegmentsInv, NEW p \in Accepts, NEW r \in Runs, AcceptRead(p, r)
    PROVE  SegmentsInv'
<1>1. /\ UNCHANGED <<run, segment>> /\ run[r].status = "draft"
  BY DEF AcceptRead
<1> DEFINE items == {i \in DOMAIN run[r].items : run[r].items[i].status = "pending"}
<1>2. PICK wanted \in SUBSET items, refused \in SUBSET items,
         o \in Overrides \cup {NoAccept.override} :
        LET selected == {i \in items \ refused : wanted = {} \/ i \in wanted \/ o.item = i}
        IN  accept' = [accept EXCEPT ![p] =
                         [pc |-> "read", run |-> r, selected |-> selected,
                          all |-> selected = items, rejected |-> refused, override |-> o]]
  BY DEF AcceptRead
<1> DEFINE selected == {i \in items \ refused : wanted = {} \/ i \in wanted \/ o.item = i}
           all == selected = items
<1>3. accept' = [accept EXCEPT ![p] = [pc |-> "read", run |-> r, selected |-> selected,
                                       all |-> all, rejected |-> refused, override |-> o]]
  BY <1>2
<1>4. selected \subseteq DOMAIN run[r].items
  OBVIOUS
<1> HIDE DEF items, selected, all
<1>5. DOMAIN accept' = Accepts /\ \A q \in Accepts \ {p} : accept'[q] = accept[q]
  BY <1>3 DEF SegmentsInv
<1>6. accept'[p].run = r /\ accept'[p].selected = selected
  BY <1>3 DEF SegmentsInv
<1>7. SegmentTellsItem'
  BY <1>1 DEF SegmentsInv, SegmentTellsItem
<1>8. \A q \in Accepts : accept'[q].pc = "read" =>
         accept'[q].run \in Runs /\ run'[accept'[q].run].status \notin {"none", "planned"}
         /\ accept'[q].selected \subseteq DOMAIN run'[accept'[q].run].items
  <2> SUFFICES ASSUME NEW q \in Accepts, accept'[q].pc = "read"
               PROVE  /\ accept'[q].run \in Runs
                      /\ run'[accept'[q].run].status \notin {"none", "planned"}
                      /\ accept'[q].selected \subseteq DOMAIN run'[accept'[q].run].items
    OBVIOUS
  <2>1. CASE q = p
    BY <1>1, <1>4, <1>6, <2>1 DEF Stored
  <2>2. CASE q # p
    BY <1>1, <1>5, <2>2 DEF SegmentsInv, Stored
  <2> QED
    BY <2>1, <2>2
<1>9. UNCHANGED <<run, segment>> /\ \A q : Stored(q)' = Stored(q)
  BY <1>1 DEF Stored
<1> QED
  BY <1>5, <1>7, <1>8, <1>9 DEF SegmentsInv, Stored

(* Every step of the scheduler keeps the segments tied to their items. *)
LEMMA SchedNextInv == SegmentsInv /\ [SchedNext]_schedVars => SegmentsInv'
<1> SUFFICES ASSUME SegmentsInv, [SchedNext]_schedVars PROVE SegmentsInv'
  OBVIOUS
<1>1. ASSUME segment' \subseteq segment, UNCHANGED run,
             accept' = accept \/ \E p \in Accepts : accept' = [accept EXCEPT ![p] = NoAccept]
      PROVE  SegmentsInv'
  BY <1>1 DEF SegmentsInv, SegmentTellsItem, Stored, NoAccept, Span
<1>2. CASE \/ \E p \in Accepts : AcceptFails(p)
           \/ \E p \in Detects : DetectRead(p) \/ DetectWrite(p)
           \/ EditEvents \/ ConfirmLog \/ DeleteSegment
           \/ UNCHANGED schedVars
  BY <1>1, <1>2 DEF AcceptFails, DetectRead, DetectWrite, EditEvents, ConfirmLog, DeleteSegment,
                    schedVars
<1> QED
  BY <1>2, PlanRunInv, InsertRunInv, RejectRunInv, AcceptReadInv, AcceptWriteInv DEF SchedNext

(* Before anything is planned there is nothing to tell. *)
LEMMA SchedInitInv == SchedInit => SegmentsInv
<1> SUFFICES ASSUME SchedInit PROVE SegmentsInv
  OBVIOUS
<1>1. /\ DOMAIN run = Runs /\ DOMAIN accept = Accepts /\ segment = {}
      /\ \A r \in Runs : run[r] = NoRun
      /\ \A p \in Accepts : accept[p].pc = "idle"
  BY DEF SchedInit, NoAccept
<1>2. /\ NoRun = [status |-> NoRun.status, items |-> NoRun.items, busy |-> NoRun.busy,
                  left |-> NoRun.left]
      /\ DOMAIN NoRun.items = {}
  BY DEF NoRun
<1> QED
  BY <1>1, <1>2 DEF SegmentsInv, SegmentTellsItem

(* However acceptances and rejections of one run overlap, a segment stands at the times
   its item tells: those proposed when it reads 'accepted', the user's when it reads
   'modified'. *)
THEOREM SegmentsTellItems == SchedSpec => []SegmentTellsItem
<1>1. SchedInit => SegmentsInv
  BY SchedInitInv
<1>2. SegmentsInv => SegmentTellsItem
  BY DEF SegmentsInv
<1> QED
  BY <1>1, <1>2, SchedNextInv, PTL DEF SchedSpec

-----------------------------------------------------------------------------
(* Drafts *)

(* The drafts of a run that is planned fit. *)
LEMMA PlanRunFits ==
    ASSUME PlansInv, WindowsApart, SegmentsInv, NEW r \in Runs, PlanRun(r)
    PROVE  DraftsFit'
<1>1. PICK order \in SetToSeqs(ToPlan), reply \in Replies :
        LET blocks == BusyBlocks
            plan   == RulePlan(order, InWorkHours(FreeBlocks(blocks), WorkBlocks))
            items  == Validated(reply, plan.items, blocks)
        IN  run' = [run EXCEPT ![r] =
                      [status |-> "planned", busy |-> blocks,
                       left |-> [t \in SchedTasks |-> Remaining(t)],
                       items |-> [i \in DOMAIN items |->
                                    [job |-> items[i], status |-> "pending",
                                     at |-> Span(items[i])]]]]
  BY ZenonT(30) DEF PlanRun
<1>2. PICK busy : busy = BusyBlocks
  OBVIOUS
<1>3. PICK blocks : blocks = InWorkHours(FreeBlocks(busy), WorkBlocks)
  OBVIOUS
<1>4. PICK plan : plan = RulePlan(order, blocks)
  OBVIOUS
<1>5. PICK items : items = Validated(reply, plan.items, busy)
  OBVIOUS
<1>6. PICK left : left = [t \in SchedTasks |-> Remaining(t)]
  OBVIOUS
<1>7. run' = [run EXCEPT ![r] = [status |-> "planned", busy |-> busy, left |-> left,
                                 items |-> [i \in DOMAIN items |->
                                              [job |-> items[i], status |-> "pending",
                                               at |-> Span(items[i])]]]]
  BY <1>1, <1>2, <1>3, <1>4, <1>5, <1>6, Zenon
<1>8. /\ busy \in SUBSET [start: 0..Horizon, end: 0..Horizon] /\ busy \in SUBSET Interval
      /\ Horizon > 0 => \A b \in busy : b.start < b.end
  <2>1. [start: 0..Horizon, end: 0..Horizon] \subseteq Interval
    BY SchedBounds DEF Interval
  <2> QED
    BY <1>2, <2>1, BusyInRange DEF PlansInv
<1>9. PICK m \in Nat : /\ blocks \in [1..m -> [start: 0..Horizon, end: 0..Horizon]]
                       /\ \A i \in 1..m : \A b \in busy : ~Overlap(blocks[i], b)
                       /\ \A i, j \in 1..m : i # j => ~Overlap(blocks[i], blocks[j])
  <2>1. WorkBlocks \in SUBSET Interval /\ Apart(WorkBlocks)
    <3>1. CASE workWindows = {}
      <4>1. WorkBlocks = {[start |-> 0, end |-> Horizon]}
        BY <3>1 DEF WorkBlocks
      <4> QED
        BY <4>1, SchedBounds DEF Interval, Apart
    <3>2. CASE workWindows # {}
      BY <3>2, WindowsHaveTypes DEF WorkBlocks, PlansInv, WindowsApart, Apart
    <3> QED
      BY <3>1, <3>2
  <2> QED
    BY <1>3, <1>8, <2>1, BlocksApart
<1>10. /\ blocks \in [1..m -> Interval]
       /\ \A i \in 1..m : blocks[i].start >= 0 /\ blocks[i].end <= Horizon
  <2>1. ASSUME NEW i \in 1..m
        PROVE  blocks[i] \in Interval /\ blocks[i].start >= 0 /\ blocks[i].end <= Horizon
    BY <1>9, SchedBounds DEF Interval
  <2> QED
    BY <1>9, <2>1
<1>11. plan \in PlanState(m, busy, left)
  BY <1>4, <1>6, <1>8, <1>9, <1>10, RulePlanKeeps DEF PlansInv
<1>12. left \in [SchedTasks -> Nat]
  <2>1. ASSUME NEW t \in SchedTasks PROVE Remaining(t) \in Nat
    <3>1. Cardinality({l \in logs : l.task = t}) \in Nat
      BY FS_Subset, FS_CardinalityType DEF PlansInv
    <3>2. taskTable[t].estimate \in Nat
      BY TasksHaveTypes DEF TaskPayload, PlansInv
    <3> QED
      BY <3>1, <3>2 DEF Remaining, Later
  <2> QED
    BY <1>6, <2>1
<1>13. plan.items \in Clear(busy, left)
  <2>1. /\ plan.items \in Seq(Draft) /\ plan.left \in [SchedTasks -> Nat]
        /\ JobsFit(plan.items, busy)
        /\ \A t \in SchedTasks : Total(Given(plan.items, t)) + plan.left[t] = left[t]
    BY <1>11 DEF PlanState
  <2>2. ASSUME NEW t \in SchedTasks PROVE Total(Given(plan.items, t)) <= left[t]
    <3>1. plan.left[t] \in Nat /\ left[t] \in Nat
      BY <1>12, <2>1
    <3>2. Total(Given(plan.items, t)) \in Int
      <4>1. PICK s, n : s = Given(plan.items, t) /\ n = Len(plan.items)
        OBVIOUS
      <4>2. n \in Nat /\ DOMAIN plan.items = 1..n /\ \A i \in 1..n : plan.items[i] \in Draft
        BY <2>1, <4>1
      <4>3. \A d \in Draft : d.start \in Int /\ d.end \in Int
        BY DEF Draft
      <4>4. s = [i \in 1..n |-> IF plan.items[i].task = t /\ plan.items[i].by = "rule"
                                THEN plan.items[i].end - plan.items[i].start ELSE 0]
        BY <4>1, <4>2 DEF Given
      <4>5. s \in [1..n -> Int]
        BY <4>2, <4>3, <4>4
      <4>6. PICK u : u = [i \in 1..(n + 1) |-> IF i \in 1..n THEN s[i] ELSE 0]
        OBVIOUS
      <4>7. u \in [1..(n + 1) -> Int] /\ \A i \in 1..n : u[i] = s[i]
        BY <4>2, <4>5, <4>6
      <4>8. Total(s) \in Int
        BY <4>2, <4>5, <4>7, TotalAppend
      <4> QED
        BY <4>1, <4>8
    <3> QED
      BY <2>1, <3>1, <3>2
  <2> QED
    BY <2>1, <2>2 DEF Clear
<1>14. items \in Clear(busy, left)
  BY <1>5, <1>8, <1>12, <1>13, ValidatedKeeps DEF PlansInv
<1>15. /\ DOMAIN run' = Runs /\ \A q \in Runs \ {r} : run'[q] = run[q]
       /\ run'[r].busy = busy /\ run'[r].left = left
       /\ run'[r].items = [i \in DOMAIN items |->
                             [job |-> items[i], status |-> "pending", at |-> Span(items[i])]]
  BY <1>7 DEF SegmentsInv
<1>16. Jobs(r)' = items
  <2>1. items = [i \in DOMAIN items |-> items[i]]
    <3>1. items \in Seq(Draft)
      BY <1>14 DEF Clear
    <3> QED
      BY <3>1
  <2>2. [i \in DOMAIN run'[r].items |-> run'[r].items[i].job] = [i \in DOMAIN items |-> items[i]]
    BY <1>15
  <2> QED
    BY <2>1, <2>2 DEF Jobs
<1>17. taskTable' = taskTable
  BY DEF PlanRun
<1>18. ASSUME NEW q \in Runs
       PROVE  /\ JobsFit(Jobs(q), run[q].busy)'
              /\ \A t \in SchedTasks : Total(Given(Jobs(q)', t)) <= run'[q].left[t]
  <2>1. CASE q = r
    <3>1. JobsFit(items, busy) /\ \A t \in SchedTasks : Total(Given(items, t)) <= left[t]
      BY <1>14 DEF Clear
    <3>2. JobsFit(items, busy)'
      BY <1>17, <3>1 DEF JobsFit, InWindow
    <3> QED
      BY <1>15, <1>16, <2>1, <3>1, <3>2
  <2>2. CASE q # r
    <3>1. Jobs(q)' = Jobs(q) /\ run'[q] = run[q]
      BY <1>15, <2>2 DEF Jobs
    <3>2. /\ JobsFit(Jobs(q), run[q].busy)
          /\ \A t \in SchedTasks : Total(Given(Jobs(q), t)) <= run[q].left[t]
      BY DEF PlansInv, DraftsFit
    <3> QED
      BY <1>17, <3>1, <3>2 DEF JobsFit, InWindow
  <2> QED
    BY <2>1, <2>2
<1> QED
  BY <1>18 DEF DraftsFit

(* Every step of the scheduler keeps what a plan needs, and the drafts apart. *)
LEMMA PlansNextInv ==
    ASSUME PlansInv, WindowsApart, SegmentsInv, [SchedNext]_schedVars
    PROVE  PlansInv'
<1>1. UNCHANGED <<taskTable, workWindows>>
  BY DEF SchedNext, schedVars, PlanRun, InsertRun, RejectRun, AcceptRead, AcceptWrite, AcceptFails,
         DetectRead, DetectWrite, EditEvents, ConfirmLog, DeleteSegment
<1>2. events' \subseteq EventPool
  <2>1. CASE EditEvents
    BY <2>1 DEF EditEvents, PlansInv
  <2>2. CASE UNCHANGED events
    BY <2>2 DEF PlansInv
  <2> QED
    BY <2>1, <2>2 DEF SchedNext, schedVars, PlanRun, InsertRun, RejectRun, AcceptRead, AcceptWrite,
         AcceptFails, DetectRead, DetectWrite, ConfirmLog, DeleteSegment
<1>3. IsFiniteSet(logs')
  <2>1. CASE ConfirmLog
    <3>1. PICK l : logs' = logs \cup {l}
      BY <2>1 DEF ConfirmLog
    <3> QED
      BY <3>1, FS_AddElement DEF PlansInv
  <2>2. CASE UNCHANGED logs
    BY <2>2 DEF PlansInv
  <2> QED
    BY <2>1, <2>2 DEF SchedNext, schedVars, PlanRun, InsertRun, RejectRun, AcceptRead, AcceptWrite,
         AcceptFails, DetectRead, DetectWrite, EditEvents, DeleteSegment
<1>4. CASE PlansStay
  <2> SUFFICES ASSUME NEW q \in Runs
               PROVE  /\ JobsFit(Jobs(q), run[q].busy)'
                      /\ \A t \in SchedTasks : Total(Given(Jobs(q)', t)) <= run'[q].left[t]
    BY <1>1, <1>2, <1>3 DEF PlansInv, DraftsFit
  <2>1. Jobs(q)' = Jobs(q) /\ run'[q].busy = run[q].busy /\ run'[q].left = run[q].left
    BY <1>4 DEF PlansStay
  <2>2. /\ JobsFit(Jobs(q), run[q].busy)
        /\ \A t \in SchedTasks : Total(Given(Jobs(q), t)) <= run[q].left[t]
    BY DEF PlansInv, DraftsFit
  <2> QED
    BY <1>1, <2>1, <2>2 DEF JobsFit, InWindow
<1>5. CASE \E r \in Runs : PlanRun(r)
  BY <1>1, <1>2, <1>3, <1>5, PlanRunFits DEF PlansInv
<1>6. CASE UNCHANGED run
  BY <1>4, <1>6 DEF PlansStay, Jobs
<1>7. CASE \/ \E r \in Runs : InsertRun(r) \/ RejectRun(r)
           \/ \E p \in Accepts : AcceptWrite(p)
  BY <1>4, <1>7, InsertRunInv, RejectRunInv, AcceptWriteInv
<1> QED
  BY <1>5, <1>6, <1>7 DEF SchedNext, schedVars, AcceptRead, AcceptFails, DetectRead, DetectWrite,
                          EditEvents, ConfirmLog, DeleteSegment

(* A user whose work windows keep clear of one another has drafts, in every run, that
   keep clear of one another and of the busy blocks the run read, that lie in the windows
   of their tasks, and of which the rule plan gives no task more than was left of it:
   for any horizon, tasks, calendar, logs and answers of the language model. *)
THEOREM DraftsKeepClear ==
    ASSUME WindowsApart
    PROVE  SchedSpec => []DraftsFit
<1>1. ASSUME SchedInit PROVE SegmentsInv /\ PlansInv
  <2>1. SegmentsInv
    BY <1>1, SchedInitInv
  <2>2. \A r \in Runs : run[r] = NoRun
    BY <1>1 DEF SchedInit
  <2>3. /\ NoRun.items = <<>> /\ NoRun.left = [t \in SchedTasks |-> 0]
    BY DEF NoRun
  <2>4. ASSUME NEW r \in Runs
        PROVE  /\ JobsFit(Jobs(r), run[r].busy)
               /\ \A t \in SchedTasks : Total(Given(Jobs(r), t)) <= run[r].left[t]
    <3>1. DOMAIN Jobs(r) = {}
      BY <2>2, <2>3 DEF Jobs
    <3>2. \A t \in SchedTasks : Total(Given(Jobs(r), t)) = 0 /\ run[r].left[t] = 0
      BY <2>2, <2>3, <3>1, GivenNone
    <3> QED
      BY <3>1, <3>2 DEF JobsFit
  <2>5. IsFiniteSet(logs)
    BY <1>1, FS_EmptySet DEF SchedInit
  <2> QED
    BY <1>1, <2>1, <2>4, <2>5 DEF SchedInit, PlansInv, DraftsFit
<1>2. PlansInv => DraftsFit
  BY DEF PlansInv
<1>3. ASSUME SegmentsInv, PlansInv, [SchedNext]_schedVars PROVE SegmentsInv' /\ PlansInv'
  BY <1>3, SchedNextInv, PlansNextInv
<1> QED
  BY <1>1, <1>2, <1>3, PTL DEF SchedSpec

-----------------------------------------------------------------------------
(* Generations                                                             *)

OneGene == [task: GeneTasks, start: Int, end: Int]
SlotRow == [start: Int, end: Int]
\* What initialize has placed so far, and what it has left of the slots.
Assigned(k) == [slots: [1..k -> SlotRow], genes: Chromosomes]

(* A sequence is a function of its places. *)
LEMMA PlacesOf ==
    ASSUME NEW S, NEW s \in Seq(S)
    PROVE  \E n \in Nat : s \in [1..n -> S]
OBVIOUS

(* The free slots are rows, at their places. *)
LEMMA SlotsAreRows == \E k \in Nat : FreeSlots \in [1..k -> SlotRow]
<1>1. FreeSlots \in Seq(SlotRow)
  BY GenesHaveTypes DEF SlotRow
<1> QED
  BY <1>1, PlacesOf

(* A task takes the beginning of a slot, or none. *)
LEMMA AssignSlotKeeps ==
    ASSUME NEW k \in Nat, NEW acc \in Assigned(k), NEW t \in GeneTasks
    PROVE  AssignSlot(acc, t) \in Assigned(k)
<1>1. /\ acc = [slots |-> acc.slots, genes |-> acc.genes]
      /\ acc.slots \in [1..k -> SlotRow] /\ acc.genes \in Chromosomes
  BY DEF Assigned
<1>2. TaskOf[t].needed \in Int /\ TaskOf[t].at \in Int
  BY GenesHaveTypes
<1>3. \A start \in Int : Gene(t, start) \in OneGene /\ Gene(t, start).end \in Int
  BY <1>2 DEF Gene, OneGene
<1>4. \A start \in Int : Append(acc.genes, Gene(t, start)) \in Chromosomes
  BY <1>1, <1>3 DEF Chromosomes, OneGene
<1> DEFINE fits == {i \in DOMAIN acc.slots :
                      acc.slots[i].end - acc.slots[i].start >= TaskOf[t].needed}
           i == Min(fits)
           gene == Gene(t, acc.slots[i].start)
           cut == [acc.slots[i] EXCEPT !.start = gene.end]
<1>5. CASE TaskOf[t].locked
  <2>1. AssignSlot(acc, t) = [acc EXCEPT !.genes = Append(acc.genes, Gene(t, TaskOf[t].at))]
    BY <1>5 DEF AssignSlot
  <2>2. PICK genes : genes = Append(acc.genes, Gene(t, TaskOf[t].at))
    OBVIOUS
  <2>3. AssignSlot(acc, t) = [slots |-> acc.slots, genes |-> genes]
    BY <1>1, <2>1, <2>2
  <2>4. genes \in Chromosomes
    BY <1>2, <1>4, <2>2
  <2> QED
    BY <1>1, <2>3, <2>4 DEF Assigned
<1>6. CASE ~TaskOf[t].locked /\ fits = {}
  BY <1>6 DEF AssignSlot
<1>7. CASE ~TaskOf[t].locked /\ fits # {}
  <2>1. i \in 1..k
    <3>1. fits \in SUBSET (1..k)
      BY <1>1
    <3> HIDE DEF fits
    <3>2. Min(fits) \in fits
      BY <1>7, <3>1, FirstPlace
    <3> QED
      BY <3>1, <3>2
  <2>2. AssignSlot(acc, t) = [slots |-> [acc.slots EXCEPT ![i] = cut],
                              genes |-> Append(acc.genes, gene)]
    BY <1>7 DEF AssignSlot
  <2> HIDE DEF fits, i
  <2>3. acc.slots[i] \in SlotRow
    BY <1>1, <2>1
  <2>4. acc.slots[i].start \in Int /\ acc.slots[i].end \in Int
    BY <2>3 DEF SlotRow
  <2>5. gene.end \in Int /\ Append(acc.genes, gene) \in Chromosomes
    BY <1>3, <1>4, <2>4
  <2> HIDE DEF gene
  <2>6. cut = [start |-> gene.end, end |-> acc.slots[i].end]
    BY <2>3 DEF SlotRow
  <2>7. cut \in SlotRow
    BY <2>4, <2>5, <2>6 DEF SlotRow
  <2> HIDE DEF cut
  <2>8. [acc.slots EXCEPT ![i] = cut] \in [1..k -> SlotRow]
    BY <1>1, <2>7
  <2> QED
    BY <2>2, <2>5, <2>8 DEF Assigned
<1> QED
  BY <1>5, <1>6, <1>7

(* What initialize gives is a schedule. *)
LEMMA ScheduleIsOne ==
    ASSUME NEW n \in Nat, NEW order \in [1..n -> GeneTasks]
    PROVE  Schedule(order) \in Chromosomes
<1>1. PICK k \in Nat : FreeSlots \in [1..k -> SlotRow]
  BY SlotsAreRows
<1>2. PICK Acc, base : Acc = Assigned(k) /\ base = [slots |-> FreeSlots, genes |-> <<>>]
  OBVIOUS
<1>3. base \in Acc
  BY <1>1, <1>2 DEF Assigned, Chromosomes
<1>4. \A a \in Acc, t \in GeneTasks : AssignSlot(a, t) \in Acc
  BY <1>2, AssignSlotKeeps
<1> DEFINE E(it) == it = [S \in SUBSET (1..n) |-> IF S = {} THEN base
                            ELSE AssignSlot(it[S \ {Max(S)}], order[Max(S)])]
<1>5. \E it : E(it)
  <2>1. PICK step : step = [x \in Acc \X GeneTasks |-> AssignSlot(x[1], x[2])]
    OBVIOUS
  <2>2. step \in [Acc \X GeneTasks -> Acc]
    BY <1>4, <2>1
  <2>3. CanFold(n, Acc, base, GeneTasks, order, step)
    BY <1>3, <2>2 DEF CanFold
  <2>4. PICK it : FoldOf(it, n, Acc, base, order, step)
    BY <2>3, FoldExists
  <2>5. ASSUME NEW S \in SUBSET (1..n), S # {}
        PROVE  it[S] = AssignSlot(it[S \ {Max(S)}], order[Max(S)])
    <3>1. S \ {Max(S)} \in SUBSET (1..n) /\ Max(S) \in 1..n
      BY <2>5, OneFewer
    <3>2. it[S \ {Max(S)}] \in Acc /\ order[Max(S)] \in GeneTasks
      BY <2>4, <3>1 DEF FoldOf
    <3>3. it[S] = step[<<it[S \ {Max(S)}], order[Max(S)]>>]
      BY <2>4, <2>5 DEF FoldOf
    <3> QED
      BY <2>1, <3>2, <3>3
  <2> QED
    BY <2>4, <2>5 DEF FoldOf
<1>6. PICK f : f = (CHOOSE it : E(it))
  OBVIOUS
<1>7. E(f)
  BY <1>5, <1>6
<1>8. DOMAIN order = 1..n
  OBVIOUS
<1>9. Schedule(order) = f[DOMAIN order].genes
  BY <1>2, <1>6, <1>8 DEF Schedule, FoldLeft, MapThenFoldSet
<1>10. f[{}] \in Acc
  BY <1>3, <1>7
<1>11. ASSUME NEW S \in SUBSET (1..n), S # {}, f[S \ {Max(S)}] \in Acc PROVE f[S] \in Acc
  <2>1. f[S] = AssignSlot(f[S \ {Max(S)}], order[Max(S)])
    BY <1>7, <1>11
  <2>2. order[Max(S)] \in GeneTasks
    BY <1>11, OneFewer
  <2> QED
    BY <1>4, <1>11, <2>1, <2>2
<1>12. f[1..n] \in Acc
  BY <1>10, <1>11, FoldKeeps
<1> QED
  BY <1>2, <1>8, <1>9, <1>12 DEF Assigned

(* The length of a schedule is a number ... *)
LEMMA LengthIsInt ==
    ASSUME NEW n \in Nat, NEW Rows, \A r \in Rows : r.start \in Int /\ r.end \in Int,
           NEW s \in [1..n -> Rows]
    PROVE  Length(s) \in Int
<1> DEFINE E(it) == it = [S \in SUBSET (1..n) |-> IF S = {} THEN 0
                            ELSE it[S \ {Max(S)}] + s[Max(S)].end - s[Max(S)].start]
<1>1. \A r \in Rows : r.start \in Int /\ r.end \in Int
  OBVIOUS
<1>2. \E it : E(it)
  <2>1. PICK step : step = [x \in Int \X Rows |-> x[1] + x[2].end - x[2].start]
    OBVIOUS
  <2>2. step \in [Int \X Rows -> Int]
    BY <1>1, <2>1
  <2>3. CanFold(n, Int, 0, Rows, s, step)
    BY <2>2 DEF CanFold
  <2>4. PICK it : FoldOf(it, n, Int, 0, s, step)
    BY <2>3, FoldExists
  <2>5. ASSUME NEW S \in SUBSET (1..n), S # {}
        PROVE  it[S] = it[S \ {Max(S)}] + s[Max(S)].end - s[Max(S)].start
    <3>1. S \ {Max(S)} \in SUBSET (1..n) /\ Max(S) \in 1..n
      BY <2>5, OneFewer
    <3>2. it[S \ {Max(S)}] \in Int /\ s[Max(S)] \in Rows
      BY <2>4, <3>1 DEF FoldOf
    <3>3. it[S] = step[<<it[S \ {Max(S)}], s[Max(S)]>>]
      BY <2>4, <2>5 DEF FoldOf
    <3> QED
      BY <2>1, <3>2, <3>3
  <2> QED
    BY <2>4, <2>5 DEF FoldOf
<1>3. PICK f : f = (CHOOSE it : E(it))
  OBVIOUS
<1>4. E(f)
  BY <1>2, <1>3
<1>5. DOMAIN s = 1..n
  OBVIOUS
<1>6. Length(s) = f[DOMAIN s]
  BY <1>3, <1>5 DEF Length, FoldLeft, MapThenFoldSet
<1>7. f[{}] \in Int
  BY <1>4
<1>8. ASSUME NEW S \in SUBSET (1..n), S # {}, f[S \ {Max(S)}] \in Int PROVE f[S] \in Int
  <2>1. f[S] = f[S \ {Max(S)}] + s[Max(S)].end - s[Max(S)].start
    BY <1>4, <1>8
  <2>2. s[Max(S)] \in Rows
    BY <1>8, OneFewer
  <2> QED
    BY <1>1, <1>8, <2>1, <2>2
<1>9. f[1..n] \in Int
  BY <1>7, <1>8, FoldKeeps
<1> QED
  BY <1>5, <1>6, <1>9

(* ... as is its worth ... *)
LEMMA WorthIsInt ==
    ASSUME NEW liked \in [GeneTasks -> Int], NEW ch, NEW gene \in OneGene
    PROVE  Worth(liked, ch, gene) \in Int
<1>1. gene.task \in GeneTasks /\ gene.end \in Int
  BY DEF OneGene
<1>2. PICK task : task = TaskOf[gene.task]
  OBVIOUS
<1>3. task.weight \in Int /\ task.due \in Int /\ IsFiniteSet(task.dependsOn)
  BY <1>1, <1>2, GenesHaveTypes
<1>4. PICK broken : broken = {d \in task.dependsOn : d \in Placed(ch)
                                                     /\ FirstOf(ch, d).end > gene.start}
  OBVIOUS
<1>5. Cardinality(broken) \in Int
  BY <1>3, <1>4, FS_Subset, FS_CardinalityType
<1>6. Late(gene.end - task.due) \in Int
  BY <1>1, <1>3 DEF Late
<1>7. liked[gene.task] \in Int
  BY <1>1
<1>8. Worth(liked, ch, gene) = task.weight + 2 * liked[gene.task] - 20 * Late(gene.end - task.due)
                                 - 200 * Cardinality(broken)
  BY <1>2, <1>4 DEF Worth
<1> QED
  BY <1>3, <1>5, <1>6, <1>7, <1>8

(* ... and its fitness, whatever the user likes. *)
LEMMA FitnessIsInt ==
    ASSUME NEW liked \in [GeneTasks -> Int], NEW ch \in Chromosomes
    PROVE  FitnessBy(liked, ch) \in Int
<1>1. PICK n \in Nat : ch \in [1..n -> OneGene]
  <2>1. ch \in Seq(OneGene)
    BY DEF Chromosomes, OneGene
  <2> QED
    BY <2>1, PlacesOf
<1>15. PICK base \in Int : base = 1000
  OBVIOUS
<1> DEFINE E(it) == it = [S \in SUBSET (1..n) |-> IF S = {} THEN base
                            ELSE it[S \ {Max(S)}] + Worth(liked, ch, ch[Max(S)])]
<1>2. \A g \in OneGene : Worth(liked, ch, g) \in Int
  BY WorthIsInt
<1>3. \E it : E(it)
  <2>1. PICK step : step = [x \in Int \X OneGene |-> x[1] + Worth(liked, ch, x[2])]
    OBVIOUS
  <2>2. step \in [Int \X OneGene -> Int]
    BY <1>2, <2>1
  <2>3. CanFold(n, Int, base, OneGene, ch, step)
    BY <1>1, <2>2 DEF CanFold
  <2>4. PICK it : FoldOf(it, n, Int, base, ch, step)
    BY <2>3, FoldExists
  <2>5. ASSUME NEW S \in SUBSET (1..n), S # {}
        PROVE  it[S] = it[S \ {Max(S)}] + Worth(liked, ch, ch[Max(S)])
    <3>1. S \ {Max(S)} \in SUBSET (1..n) /\ Max(S) \in 1..n
      BY <2>5, OneFewer
    <3>2. it[S \ {Max(S)}] \in Int /\ ch[Max(S)] \in OneGene
      BY <1>1, <2>4, <3>1 DEF FoldOf
    <3>3. it[S] = step[<<it[S \ {Max(S)}], ch[Max(S)]>>]
      BY <2>4, <2>5 DEF FoldOf
    <3> QED
      BY <2>1, <3>2, <3>3
  <2>6. E(it)
    BY <2>4, <2>5 DEF FoldOf
  <2> HIDE DEF E
  <2> QED
    BY <2>6
<1>4. PICK f : f = (CHOOSE it : E(it))
  OBVIOUS
<1> HIDE DEF E
<1>5. E(f)
  BY <1>3, <1>4
<1> USE DEF E
<1>6. DOMAIN ch = 1..n
  BY <1>1
<1>7. f[{}] \in Int
  BY <1>5
<1>8. ASSUME NEW S \in SUBSET (1..n), S # {}, f[S \ {Max(S)}] \in Int PROVE f[S] \in Int
  <2>1. f[S] = f[S \ {Max(S)}] + Worth(liked, ch, ch[Max(S)])
    BY <1>5, <1>8
  <2>2. ch[Max(S)] \in OneGene
    BY <1>1, <1>8, OneFewer
  <2> QED
    BY <1>2, <1>8, <2>1, <2>2
<1>9. f[1..n] \in Int
  BY <1>7, <1>8, FoldKeeps
<1>10. PICK missing : missing = Cardinality(GeneTasks \ Placed(ch))
  OBVIOUS
<1>11. missing \in Int
  BY <1>10, GenesHaveTypes, FS_Subset, FS_CardinalityType
<1>12. Length(FreeSlots) \in Int
  <2>1. PICK k \in Nat : FreeSlots \in [1..k -> SlotRow]
    BY SlotsAreRows
  <2>2. \A r \in SlotRow : r.start \in Int /\ r.end \in Int
    BY DEF SlotRow
  <2> QED
    BY <2>1, <2>2, LengthIsInt
<1>13. Length(ch) \in Int
  <2>1. \A g \in OneGene : g.start \in Int /\ g.end \in Int
    BY DEF OneGene
  <2> QED
    BY <1>1, <2>1, LengthIsInt
<1>14. FitnessBy(liked, ch) = Length(FreeSlots) * (f[DOMAIN ch] - 100 * missing) + 50 * Length(ch)
  BY <1>4, <1>6, <1>10, <1>15 DEF FitnessBy, FoldLeft, MapThenFoldSet
<1> QED
  BY <1>6, <1>9, <1>11, <1>12, <1>13, <1>14

(* The first of a ranked population is the best of it. *)
LEMMA RankedIsBest ==
    ASSUME preference \in [GeneTasks -> Int], NEW pop \in [1..PopulationSize -> Chromosomes]
    PROVE  /\ Ranked(pop) \in [1..PopulationSize -> Chromosomes]
           /\ \A i \in 1..PopulationSize : Fitness(pop[i]) <= Fitness(Ranked(pop)[1])
<1>1. PICK D, fit : D = 1..PopulationSize /\ fit = [i \in D |-> Fitness(pop[i])]
  OBVIOUS
<1>2. PopulationSize \in Nat \ {0} /\ DOMAIN pop = D /\ pop \in [D -> Chromosomes]
  BY <1>1, GeneticBounds
<1>3. fit \in [D -> Int]
  <2>1. \A i \in D : Fitness(pop[i]) \in Int
    BY <1>2, FitnessIsInt DEF Fitness
  <2> QED
    BY <1>1, <2>1
<1>4. PICK before : before = {p \in D \X D : fit[p[1]] > fit[p[2]]
                                              \/ (fit[p[1]] = fit[p[2]] /\ p[1] < p[2])}
  OBVIOUS
<1>5. \A i, j \in D : <<i, j>> \in before <=> fit[i] > fit[j] \/ (fit[i] = fit[j] /\ i < j)
  BY <1>4
<1>6. before \in SUBSET (D \X D)
  BY <1>4
<1>7. \A i \in D : i \in Int /\ fit[i] \in Int
  BY <1>1, <1>3
<1>8. \A x, y \in D : x # y => <<x, y>> \in before \/ <<y, x>> \in before
  BY <1>5, <1>7
<1>9. \A x, y, z \in D : <<x, y>> \in before /\ <<y, z>> \in before => <<x, z>> \in before
  BY <1>5, <1>7
<1>10. IsFiniteSet(D) /\ Cardinality(D) = PopulationSize
  BY <1>1, <1>2, FS_Interval
<1>11. PICK s \in SetToSeqs(D) : \A i, j \in DOMAIN s : i < j => <<s[i], s[j]>> \in before
  BY <1>6, <1>8, <1>9, <1>10, RankExists
<1> DEFINE Sorts(u) == \A i, j \in DOMAIN u : i < j =>
             \/ Fitness(pop[u[i]]) > Fitness(pop[u[j]])
             \/ Fitness(pop[u[i]]) = Fitness(pop[u[j]]) /\ u[i] < u[j]
<1>12. Sorts(s)
  <2>1. \A i \in DOMAIN s : s[i] \in D
    BY DEF SetToSeqs
  <2>2. \A i \in D : fit[i] = Fitness(pop[i])
    BY <1>1
  <2> QED
    BY <1>5, <1>11, <2>1, <2>2
<1>13. PICK places : places = CHOOSE u \in SetToSeqs(D) : Sorts(u)
  OBVIOUS
<1> HIDE DEF Sorts
<1>14. places \in SetToSeqs(D) /\ Sorts(places)
  <2>1. \E u \in SetToSeqs(D) : Sorts(u)
    BY <1>12
  <2> QED
    BY <1>13, <2>1
<1> USE DEF Sorts
<1>15. /\ places \in [D -> D]
       /\ \A x \in D : \E i \in D : places[i] = x
  <2>1. places \in SetToSeqs(D) /\ IsFiniteSet(D)
    BY <1>10, <1>14
  <2>2. places \in [1..Cardinality(D) -> D] /\ \A x \in D : \E i \in DOMAIN places : places[i] = x
    BY <2>1, ListsAreWhole
  <2>3. 1..Cardinality(D) = D
    BY <1>1, <1>10
  <2> QED
    BY <2>2, <2>3
<1>16. Ranked(pop) = [i \in D |-> pop[places[i]]]
  BY <1>2, <1>13 DEF Ranked
<1>17. Ranked(pop) \in [D -> Chromosomes]
  BY <1>2, <1>15, <1>16
<1>18. ASSUME NEW i \in D PROVE Fitness(pop[i]) <= Fitness(Ranked(pop)[1])
  <2>1. PICK k \in D : places[k] = i
    BY <1>15
  <2>2. 1 \in D /\ Ranked(pop)[1] = pop[places[1]] /\ places[1] \in D
    BY <1>1, <1>2, <1>15, <1>16
  <2>3. Fitness(pop[i]) = fit[i] /\ Fitness(pop[places[1]]) = fit[places[1]]
    BY <1>1, <2>2
  <2>4. fit[i] \in Int /\ fit[places[1]] \in Int
    BY <1>3, <2>2
  <2>5. CASE k = 1
    BY <2>1, <2>2, <2>3, <2>4, <2>5
  <2>6. CASE k # 1
    <3>1. 1 < k /\ k \in DOMAIN places /\ 1 \in DOMAIN places
      BY <1>1, <1>15, <2>2, <2>6
    <3>2. \/ Fitness(pop[places[1]]) > Fitness(pop[places[k]])
          \/ Fitness(pop[places[1]]) = Fitness(pop[places[k]])
      BY <1>14, <3>1
    <3> QED
      BY <2>1, <2>2, <2>3, <2>4, <3>2
  <2> QED
    BY <2>5, <2>6
<1> QED
  BY <1>1, <1>17, <1>18

(* What is bred is a schedule again. *)
LEMMA ChildrenAreSchedules ==
    ASSUME population \in [1..PopulationSize -> Chromosomes]
    PROVE  Children \subseteq Chromosomes
<1>1. TournamentSelect \subseteq Chromosomes
  BY DEF TournamentSelect
<1>2. ASSUME NEW a \in Chromosomes, NEW b \in Chromosomes PROVE Crossover(a, b) \subseteq Chromosomes
  <2>1. PICK shorter : shorter = IF Len(a) < Len(b) THEN Len(a) ELSE Len(b)
    OBVIOUS
  <2>2. a \in Seq(OneGene) /\ b \in Seq(OneGene) /\ Len(a) \in Nat /\ Len(b) \in Nat
    BY DEF Chromosomes, OneGene
  <2>3. shorter \in Nat /\ shorter <= Len(a) /\ shorter <= Len(b)
    BY <2>1, <2>2
  <2>4. ASSUME NEW cut \in 0..(IF shorter = 0 THEN 0 ELSE shorter - 1)
        PROVE  SubSeq(a, 1, cut) \o SubSeq(b, cut + 1, Len(b)) \in Chromosomes
    <3>1. cut \in Nat /\ cut <= Len(a)
      BY <2>2, <2>3
    <3>2. \A i \in 1..cut : a[i] \in OneGene
      BY <2>2, <3>1
    <3>3. SubSeq(a, 1, cut) \in Seq(OneGene)
      BY <3>1, <3>2, SubSeqProperties
    <3>4. \A i \in (cut + 1)..Len(b) : b[i] \in OneGene
      BY <2>2, <3>1
    <3>5. SubSeq(b, cut + 1, Len(b)) \in Seq(OneGene)
      BY <2>2, <3>1, <3>4, SubSeqProperties
    <3>6. SubSeq(a, 1, cut) \o SubSeq(b, cut + 1, Len(b)) \in Seq(OneGene)
      BY <3>3, <3>5, ConcatProperties
    <3> QED
      BY <3>6 DEF Chromosomes, OneGene
  <2> QED
    BY <2>1, <2>4 DEF Crossover
<1>3. ASSUME NEW ch \in Chromosomes PROVE Mutate(ch) \subseteq Chromosomes
  <2>1. PICK n \in Nat : ch \in [1..n -> OneGene]
    <3>1. ch \in Seq(OneGene)
      BY DEF Chromosomes, OneGene
    <3> QED
      BY <3>1, PlacesOf
  <2>2. ASSUME NEW i \in 1..n, NEW d \in Int PROVE Moved(ch, i, d) \in Chromosomes
    <3>1. ch[i] \in OneGene
      BY <2>1
    <3>2. PICK g : g = [ch[i] EXCEPT !.start = ch[i].start + d]
      OBVIOUS
    <3>3. g = [task |-> ch[i].task, start |-> ch[i].start + d, end |-> ch[i].end]
      BY <3>1, <3>2 DEF OneGene
    <3>4. PICK h : h = [g EXCEPT !.end = g.end + d]
      OBVIOUS
    <3>5. h = [task |-> ch[i].task, start |-> ch[i].start + d, end |-> ch[i].end + d]
      BY <3>3, <3>4
    <3>6. h \in OneGene
      BY <3>1, <3>5 DEF OneGene
    <3>7. Moved(ch, i, d) = [ch EXCEPT ![i] = h]
      <4>1. PICK first : first = [ch EXCEPT ![i] = g]
        OBVIOUS
      <4>2. first[i] = g
        BY <2>1, <4>1
      <4>3. Moved(ch, i, d) = [first EXCEPT ![i] = [first[i] EXCEPT !.end = first[i].end + d]]
        BY <3>2, <4>1 DEF Moved
      <4> QED
        BY <2>1, <3>4, <4>1, <4>2, <4>3
    <3>8. [ch EXCEPT ![i] = h] \in [1..n -> OneGene]
      BY <2>1, <3>6
    <3>9. [ch EXCEPT ![i] = h] \in Seq(OneGene)
      BY <3>8, SeqDef
    <3> QED
      BY <3>7, <3>9 DEF Chromosomes, OneGene
  <2>3. DOMAIN ch = 1..n /\ Shifts \subseteq Int
    BY <2>1, GenesHaveTypes
  <2> QED
    BY <2>2, <2>3 DEF Mutate
<1> DEFINE kept == TournamentSelect \cup UNION {Crossover(a, b) : a, b \in TournamentSelect}
<1>4. kept \subseteq Chromosomes
  BY <1>1, <1>2
<1>5. Children = kept \cup UNION {Mutate(ch) : ch \in kept}
  BY DEF Children
<1> HIDE DEF kept
<1> QED
  BY <1>3, <1>4, <1>5

(* A generation is bred from the best of the one before, and its best is the first. *)
LEMMA GeneticNextInv == GenerationsInv /\ [GeneticNext]_geneVars => GenerationsInv'
<1> SUFFICES ASSUME GenerationsInv, [GeneticNext]_geneVars PROVE GenerationsInv'
  OBVIOUS
<1>1. /\ PopulationSize \in Nat \ {0} /\ EliteCount \in Nat \ {0} /\ EliteCount <= PopulationSize
      /\ MaxGenerations \in Nat
  BY GeneticBounds
<1>2. preference \in [GeneTasks -> Int] /\ history \in Seq(Int)
  BY DEF GenerationsInv
<1>4. CASE UNCHANGED geneVars
  BY <1>4 DEF geneVars, GenerationsInv, HistoryRises, Fitness
<1>5. ASSUME NEW t \in GeneTasks, RecordFeedback(t) PROVE GenerationsInv'
  <2>1. phase = "idle" /\ phase' = "idle" /\ history' = history /\ history = <<>>
    BY <1>5 DEF RecordFeedback, GenerationsInv
  <2>2. PICK score \in Scores : preference' = [preference EXCEPT ![t] = @ + 5 * Clamped(score)]
    BY <1>5 DEF RecordFeedback
  <2>3. Clamped(score) \in Int /\ preference[t] \in Int
    BY <1>2, GenesHaveTypes DEF Clamped
  <2>4. preference' \in [GeneTasks -> Int]
    BY <1>2, <2>2, <2>3
  <2> QED
    BY <1>2, <2>1, <2>4 DEF GenerationsInv, HistoryRises
<1>6. CASE Evolve
  <2>1. phase' = "bred" /\ history' = <<>> /\ population' \in Initialize
    BY <1>6 DEF Evolve
  <2>2. preference' \in [GeneTasks -> Int]
    <3>1. PICK t \in GeneTasks, score \in Scores \cup {0} : preference' = [preference EXCEPT ![t] = @ + score]
      BY <1>6 DEF Evolve
    <3>2. score \in Int /\ preference[t] \in Int
      BY <1>2, GenesHaveTypes
    <3> QED
      BY <1>2, <3>1, <3>2
  <2>3. population' \in [1..PopulationSize -> Chromosomes]
    <3>1. PICK orders \in [2..PopulationSize -> SetToSeqs(GeneTasks)] :
            population' = [i \in 1..PopulationSize |-> IF i = 1 THEN Schedule(TopoOrder)
                                                       ELSE Schedule(orders[i])]
      BY <2>1 DEF Initialize
    <3>2. Schedule(TopoOrder) \in Chromosomes
      <4>1. TopoOrder \in Seq(GeneTasks)
        BY GenesHaveTypes
      <4>2. PICK n \in Nat : TopoOrder \in [1..n -> GeneTasks]
        BY <4>1, PlacesOf
      <4> QED
        BY <4>2, ScheduleIsOne
    <3>3. ASSUME NEW i \in 2..PopulationSize PROVE Schedule(orders[i]) \in Chromosomes
      <4>1. orders[i] \in SetToSeqs(GeneTasks) /\ IsFiniteSet(GeneTasks)
        BY GenesHaveTypes
      <4>2. orders[i] \in [1..Cardinality(GeneTasks) -> GeneTasks] /\ Cardinality(GeneTasks) \in Nat
        BY <4>1, ListsAreWhole
      <4> QED
        BY <4>2, ScheduleIsOne
    <3>4. \A i \in 1..PopulationSize : i = 1 \/ i \in 2..PopulationSize
      BY <1>1
    <3> QED
      BY <3>1, <3>2, <3>3, <3>4
  <2> QED
    BY <2>1, <2>2, <2>3 DEF GenerationsInv, HistoryRises
<1>7. CASE Rank
  <2>1. PICK sorted : sorted = Ranked(population)
    OBVIOUS
  <2>2. /\ phase = "bred" /\ phase' = "ranked" /\ UNCHANGED preference
        /\ population' = sorted /\ history' = Append(history, Fitness(sorted[1]))
        /\ nextGen' = Elites(sorted)
    BY <1>7, <2>1 DEF Rank
  <2>3. population \in [1..PopulationSize -> Chromosomes]
    BY <2>2 DEF GenerationsInv
  <2>4. /\ sorted \in [1..PopulationSize -> Chromosomes]
        /\ \A i \in 1..PopulationSize : Fitness(population[i]) <= Fitness(sorted[1])
    BY <1>2, <2>1, <2>3, RankedIsBest
  <2>5. 1 \in 1..PopulationSize /\ sorted[1] \in Chromosomes /\ population[1] \in Chromosomes
    BY <1>1, <2>3, <2>4
  <2>6. PICK best : best = Fitness(sorted[1])
    OBVIOUS
  <2>7. best \in Int /\ Fitness(population[1]) \in Int
    BY <1>2, <2>5, <2>6, FitnessIsInt DEF Fitness
  <2>8. history' = Append(history, best)
    BY <2>2, <2>6
  <2>9. history' \in Seq(Int) /\ history' # <<>> /\ Len(history') = Len(history) + 1
        /\ history'[Len(history')] = best
        /\ \A i \in 1..Len(history) : history'[i] = history[i]
    BY <1>2, <2>7, <2>8
  <2>10. nextGen' \in Seq(Chromosomes) /\ nextGen' # <<>> /\ nextGen'[1] = sorted[1]
    <3>1. \A i \in 1..EliteCount : sorted[i] \in Chromosomes
      BY <1>1, <2>4
    <3>2. /\ SubSeq(sorted, 1, EliteCount) \in Seq(Chromosomes)
          /\ Len(SubSeq(sorted, 1, EliteCount)) = IF 1 <= EliteCount THEN EliteCount - 1 + 1 ELSE 0
          /\ \A i \in 1..(EliteCount - 1 + 1) : SubSeq(sorted, 1, EliteCount)[i] = sorted[1 + i - 1]
      BY <1>1, <3>1, SubSeqProperties
    <3>3. PICK elite : elite = SubSeq(sorted, 1, EliteCount)
      OBVIOUS
    <3>4. elite \in Seq(Chromosomes) /\ Len(elite) = EliteCount
      BY <1>1, <3>2, <3>3
    <3>5. elite[1] = sorted[1]
      BY <1>1, <3>2, <3>3
    <3>6. elite # <<>>
      BY <1>1, <3>4
    <3> QED
      BY <2>2, <3>3, <3>4, <3>5, <3>6 DEF Elites
  <2>11. Fitness(nextGen[1])' = best
    BY <2>2, <2>6, <2>10 DEF Fitness
  <2>12. \A i \in 1..Len(history) : history[i] <= best
    <3> SUFFICES ASSUME NEW i \in 1..Len(history) PROVE history[i] <= best
      OBVIOUS
    <3>1. history # <<>> /\ Len(history) \in 1..Len(history) /\ DOMAIN history = 1..Len(history)
      BY <1>2
    <3>2. history[Len(history)] <= Fitness(population[1])
      BY <2>2, <3>1 DEF GenerationsInv
    <3>3. i < Len(history) => history[i] <= history[Len(history)]
      BY <3>1 DEF GenerationsInv, HistoryRises
    <3>4. history[i] \in Int /\ history[Len(history)] \in Int
      BY <1>2, <3>1
    <3>5. Fitness(population[1]) <= best
      BY <2>4, <2>5, <2>6
    <3> QED
      BY <2>7, <3>1, <3>2, <3>3, <3>4, <3>5
  <2>13. \A i, j \in DOMAIN history' : i < j => history'[i] <= history'[j]
    <3> SUFFICES ASSUME NEW i \in 1..(Len(history) + 1), NEW j \in 1..(Len(history) + 1), i < j
                 PROVE  history'[i] <= history'[j]
      BY <2>9
    <3>1. i \in 1..Len(history) /\ DOMAIN history = 1..Len(history) /\ Len(history) \in Nat
      BY <1>2
    <3>2. CASE j = Len(history) + 1
      BY <2>9, <2>12, <3>1, <3>2
    <3>3. CASE j # Len(history) + 1
      <4>1. j \in 1..Len(history)
        BY <3>1, <3>3
      <4>2. history[i] <= history[j]
        BY <3>1, <4>1 DEF GenerationsInv, HistoryRises
      <4> QED
        BY <2>9, <3>1, <4>1, <4>2
    <3> QED
      BY <3>2, <3>3
  <2>14. HistoryRises'
    BY <2>2, <2>13 DEF HistoryRises
  <2> QED
    BY <1>2, <2>2, <2>4, <2>7, <2>9, <2>10, <2>11, <2>14 DEF GenerationsInv
<1>8. CASE Breed
  <2>1. phase = "ranked" /\ UNCHANGED <<phase, population, history, preference>>
    BY <1>8 DEF Breed
  <2>2. PICK child \in Children : nextGen' = Append(nextGen, child)
    BY <1>8 DEF Breed
  <2>3. /\ nextGen \in Seq(Chromosomes) /\ nextGen # <<>> /\ history # <<>>
        /\ history[Len(history)] <= Fitness(nextGen[1])
        /\ population \in [1..PopulationSize -> Chromosomes]
    BY <2>1 DEF GenerationsInv
  <2>4. child \in Chromosomes
    BY <2>3, ChildrenAreSchedules
  <2>5. nextGen' \in Seq(Chromosomes) /\ nextGen' # <<>> /\ nextGen'[1] = nextGen[1]
    BY <2>2, <2>3, <2>4
  <2>6. Fitness(nextGen[1])' = Fitness(nextGen[1])
    BY <2>1, <2>5 DEF Fitness
  <2>7. HistoryRises'
    BY <2>1 DEF HistoryRises, GenerationsInv
  <2> QED
    BY <1>2, <2>1, <2>3, <2>5, <2>6, <2>7 DEF GenerationsInv
<1>9. CASE EndGeneration
  <2>1. /\ phase = "ranked" /\ Len(nextGen) >= PopulationSize /\ phase' = "bred"
        /\ population' = SubSeq(nextGen, 1, PopulationSize)
        /\ UNCHANGED <<history, preference>>
    BY <1>9 DEF EndGeneration
  <2>2. /\ nextGen \in Seq(Chromosomes) /\ history[Len(history)] <= Fitness(nextGen[1])
    BY <2>1 DEF GenerationsInv
  <2>3. PICK next : next = SubSeq(nextGen, 1, PopulationSize)
    OBVIOUS
  <2>4. next \in [1..PopulationSize -> Chromosomes] /\ next[1] = nextGen[1]
    <3>1. \A i \in 1..PopulationSize : nextGen[i] \in Chromosomes
      BY <1>1, <2>1, <2>2
    <3>2. /\ next \in Seq(Chromosomes)
          /\ Len(next) = IF 1 <= PopulationSize THEN PopulationSize - 1 + 1 ELSE 0
          /\ \A i \in 1..(PopulationSize - 1 + 1) : next[i] = nextGen[1 + i - 1]
      BY <1>1, <2>3, <3>1, SubSeqProperties
    <3>3. Len(next) = PopulationSize
      BY <1>1, <3>2
    <3> QED
      BY <1>1, <3>2, <3>3
  <2>5. Fitness(population[1])' = Fitness(nextGen[1])
    BY <2>1, <2>3, <2>4 DEF Fitness
  <2>6. HistoryRises'
    BY <2>1 DEF HistoryRises, GenerationsInv
  <2> QED
    BY <1>2, <2>1, <2>2, <2>3, <2>4, <2>5, <2>6 DEF GenerationsInv
<1>10. CASE Answer
  <2>1. PICK sorted : sorted = Ranked(population)
    OBVIOUS
  <2>2. /\ phase = "bred" /\ phase' = "done" /\ population' = sorted
        /\ UNCHANGED <<history, preference>>
    BY <1>10, <2>1 DEF Answer
  <2>3. population \in [1..PopulationSize -> Chromosomes]
    BY <2>2 DEF GenerationsInv
  <2>4. /\ sorted \in [1..PopulationSize -> Chromosomes]
        /\ \A i \in 1..PopulationSize : Fitness(population[i]) <= Fitness(sorted[1])
    BY <1>2, <2>1, <2>3, RankedIsBest
  <2>5. 1 \in 1..PopulationSize /\ sorted[1] \in Chromosomes /\ population[1] \in Chromosomes
    BY <1>1, <2>3, <2>4
  <2>6. Fitness(sorted[1]) \in Int /\ Fitness(population[1]) \in Int
    BY <1>2, <2>5, FitnessIsInt DEF Fitness
  <2>7. Fitness(population[1])' = Fitness(sorted[1])
    BY <2>2 DEF Fitness
  <2>8. ASSUME NEW i \in DOMAIN history PROVE history[i] <= Fitness(sorted[1])
    <3>1. /\ DOMAIN history = 1..Len(history) /\ Len(history) \in Nat
      BY <1>2
    <3>2. history # <<>> /\ Len(history) \in DOMAIN history /\ i \in 1..Len(history)
      BY <3>1
    <3>3. history[Len(history)] <= Fitness(population[1])
      BY <2>2, <3>2 DEF GenerationsInv
    <3>4. i < Len(history) => history[i] <= history[Len(history)]
      BY <3>2 DEF GenerationsInv, HistoryRises
    <3>5. history[i] \in Int /\ history[Len(history)] \in Int
      BY <1>2, <3>1, <3>2
    <3>6. Fitness(population[1]) <= Fitness(sorted[1])
      BY <2>4, <2>5
    <3> QED
      BY <2>6, <3>1, <3>2, <3>3, <3>4, <3>5, <3>6
  <2>9. HistoryRises'
    BY <2>2, <2>7, <2>8 DEF HistoryRises, GenerationsInv
  <2> QED
    BY <1>2, <2>2, <2>4, <2>9 DEF GenerationsInv
<1> QED
  BY <1>4, <1>5, <1>6, <1>7, <1>8, <1>9, <1>10 DEF GeneticNext

(* For any tasks, slots, elite and number of generations, and whatever the user said
   before: the best fitness never falls from one generation to the next, and the schedule
   that is answered is at least as good as every one before. *)
THEOREM GenerationsImprove == GeneticSpec => []HistoryRises
<1>1. GeneticInit => GenerationsInv
  BY DEF GeneticInit, GenerationsInv, HistoryRises
<1>2. GenerationsInv => HistoryRises
  BY DEF GenerationsInv
<1> QED
  BY <1>1, <1>2, GeneticNextInv, PTL DEF GeneticSpec

-----------------------------------------------------------------------------
(* Analytics: sums of numbers that a set's elements have                   *)

(* Every finite set is reached by adding one element after another. *)
LEMMA SetInduction ==
    ASSUME NEW S, IsFiniteSet(S), NEW F, {} \in F,
           \A A \in SUBSET S, x \in S : A \in F /\ x \notin A => A \cup {x} \in F
    PROVE  S \in F
<1> DEFINE T == {k \in Nat : \A A \in SUBSET S : Cardinality(A) = k => A \in F}
<1>1. \A A \in SUBSET S : IsFiniteSet(A) /\ Cardinality(A) \in Nat BY FS_Subset, FS_CardinalityType
<1>2. 0 \in T BY <1>1, FS_EmptySet
<1>3. ASSUME NEW k \in Nat, k \in T PROVE k + 1 \in T
  <2>1. ASSUME NEW A \in SUBSET S, Cardinality(A) = k + 1 PROVE A \in F
    <3>1. A # {} BY <1>1, <2>1, FS_EmptySet
    <3>2. PICK x \in A : TRUE BY <3>1
    <3>3. IsFiniteSet(A) /\ Cardinality(A \ {x}) = Cardinality(A) - 1
      BY <1>1, <3>2, FS_RemoveElement
    <3>5. A \ {x} \in SUBSET S /\ Cardinality(A \ {x}) = k BY <2>1, <3>3
    <3>4. A \ {x} \in F /\ x \in S /\ x \notin A \ {x} /\ A = (A \ {x}) \cup {x} BY <1>3, <3>2, <3>5
    <3> QED BY <3>4
  <2> QED BY <2>1
<1> HIDE DEF T
<1>4. Cardinality(S) \in T BY <1>1, <1>2, <1>3, NatSetInduction
<1> QED BY <1>4 DEF T

\* What the library's sum computes for the subsets of a set, element by element.
Element(A) == CHOOSE x \in A : TRUE
IsSum(it, f, S) ==
    it = [A \in SUBSET S |-> IF A = {} THEN 0 ELSE f[Element(A)] + it[A \ {Element(A)}]]

(* There is one, whatever the set. *)
LEMMA SumExists ==
    ASSUME NEW S, IsFiniteSet(S), NEW f \in [S -> Int]
    PROVE  \E it : IsSum(it, f, S) /\ it \in [SUBSET S -> Int]
<1> DEFINE After(it) == [A \in SUBSET S |-> IF A = {} THEN 0
                                            ELSE f[Element(A)] + it[A \ {Element(A)}]]
           T == {k \in Nat : \E it \in [SUBSET S -> Int] : \A A \in SUBSET S :
                   Cardinality(A) <= k => it[A] = After(it)[A]}
<1>1. \A A \in SUBSET S : IsFiniteSet(A) /\ Cardinality(A) \in Nat BY FS_Subset, FS_CardinalityType
<1>2. ASSUME NEW A \in SUBSET S, A # {}
      PROVE  /\ Element(A) \in A /\ A \ {Element(A)} \in SUBSET S
             /\ Cardinality(A \ {Element(A)}) = Cardinality(A) - 1
  <2>1. Element(A) \in A BY <1>2 DEF Element
  <2> QED BY <1>1, <2>1, FS_RemoveElement
<1>3. ASSUME NEW it \in [SUBSET S -> Int] PROVE After(it) \in [SUBSET S -> Int]
  BY <1>2
<1>4. 0 \in T
  <2>1. \A A \in SUBSET S : Cardinality(A) <= 0 => A = {} BY <1>1, FS_EmptySet
  <2>2. PICK it : it = [A \in SUBSET S |-> 0] OBVIOUS
  <2>3. it \in [SUBSET S -> Int] BY <2>2
  <2>4. \A A \in SUBSET S : Cardinality(A) <= 0 => it[A] = After(it)[A] BY <2>1, <2>2
  <2> HIDE DEF After
  <2> QED BY <2>3, <2>4
<1>5. ASSUME NEW k \in Nat, k \in T PROVE k + 1 \in T
  <2>1. PICK it \in [SUBSET S -> Int] : \A A \in SUBSET S : Cardinality(A) <= k => it[A] = After(it)[A]
    BY <1>5
  <2>2. PICK jt : jt = After(it) OBVIOUS
  <2>3. ASSUME NEW A \in SUBSET S, Cardinality(A) <= k + 1 PROVE jt[A] = After(jt)[A]
    <3>1. CASE A = {} BY <2>2, <3>1
    <3>2. CASE A # {}
      <4>1. PICK R, x : R = A \ {Element(A)} /\ x = Element(A) OBVIOUS
      <4>2. R \in SUBSET S /\ Cardinality(R) <= k BY <1>1, <1>2, <2>3, <3>2, <4>1
      <4>3. jt[R] = it[R] BY <2>1, <2>2, <4>2
      <4>4. jt[A] = f[x] + it[R] BY <2>2, <3>2, <4>1
      <4>5. After(jt)[A] = f[x] + jt[R] BY <3>2, <4>1
      <4> QED BY <4>3, <4>4, <4>5
    <3> QED BY <3>1, <3>2
  <2>4. jt \in [SUBSET S -> Int] BY <1>3, <2>2
  <2> HIDE DEF After
  <2>5. \E g \in [SUBSET S -> Int] : \A A \in SUBSET S : Cardinality(A) <= k + 1 => g[A] = After(g)[A]
    BY <2>3, <2>4
  <2>6. k + 1 \in Nat OBVIOUS
  <2> QED BY <2>5, <2>6, Zenon
<1> HIDE DEF T
<1>6. Cardinality(S) \in T BY <1>1, <1>4, <1>5, NatSetInduction
<1>7. PICK it \in [SUBSET S -> Int] : \A A \in SUBSET S :
         Cardinality(A) <= Cardinality(S) => it[A] = After(it)[A]
  BY <1>6 DEF T
<1>8. \A A \in SUBSET S : Cardinality(A) <= Cardinality(S) BY FS_Subset
<1>9. \A A \in SUBSET S : it[A] = After(it)[A] BY <1>7, <1>8
<1>10. it = After(it)
  <2> DEFINE at == After(it)
  <2>1. at \in [SUBSET S -> Int] BY <1>3, <1>7
  <2> HIDE DEF at
  <2>2. \A A \in SUBSET S : it[A] = at[A] BY <1>9 DEF at
  <2>3. it = at BY <1>7, <2>1, <2>2
  <2> QED BY <2>3 DEF at
<1> QED BY <1>7, <1>10 DEF IsSum

\* All that is to know of it.
Sums(it, f, S) ==
    /\ IsFiniteSet(S) /\ f \in [S -> Int]
    /\ it \in [SUBSET S -> Int] /\ IsSum(it, f, S)

(* It may begin with any element. *)
LEMMA SumFrom ==
    ASSUME NEW S, NEW f, NEW it, Sums(it, f, S), NEW C \in SUBSET S, NEW u \in C
    PROVE  it[C] = f[u] + it[C \ {u}]
<1> USE DEF Sums
<1> DEFINE T == {k \in Nat : \A A \in SUBSET S : Cardinality(A) = k =>
                               \A x \in A : it[A] = f[x] + it[A \ {x}]}
<1>1. \A A \in SUBSET S : IsFiniteSet(A) /\ Cardinality(A) \in Nat BY FS_Subset, FS_CardinalityType
<1>2. 0 \in T BY <1>1, FS_EmptySet
<1>3. ASSUME NEW k \in Nat, k \in T PROVE k + 1 \in T
  <2>1. ASSUME NEW A \in SUBSET S, Cardinality(A) = k + 1, NEW x \in A
        PROVE  it[A] = f[x] + it[A \ {x}]
    <3>1. PICK y : y = Element(A) OBVIOUS
    <3>2. y \in A BY <3>1 DEF Element
    <3>3. it[A] = f[y] + it[A \ {y}] BY <2>1, <3>1 DEF IsSum
    <3>4. CASE x = y BY <3>3, <3>4
    <3>5. CASE x # y
      <4>1. /\ A \ {x} \in SUBSET S /\ A \ {y} \in SUBSET S /\ A \ {x, y} \in SUBSET S
            /\ Cardinality(A \ {x}) = k /\ Cardinality(A \ {y}) = k
            /\ y \in A \ {x} /\ x \in A \ {y}
            /\ (A \ {x}) \ {y} = A \ {x, y} /\ (A \ {y}) \ {x} = A \ {x, y}
        <5>1. /\ Cardinality(A \ {x}) = Cardinality(A) - 1
              /\ Cardinality(A \ {y}) = Cardinality(A) - 1
          BY <1>1, <2>1, <3>2, FS_RemoveElement
        <5>2. Cardinality(A \ {x}) = k /\ Cardinality(A \ {y}) = k BY <2>1, <5>1
        <5> QED BY <2>1, <3>2, <3>5, <5>2
      <4>6. \A B \in SUBSET S : Cardinality(B) = k => \A z \in B : it[B] = f[z] + it[B \ {z}]
        BY <1>3
      <4>2. it[A \ {x}] = f[y] + it[A \ {x, y}]
        <5>1. it[A \ {x}] = f[y] + it[(A \ {x}) \ {y}] BY <4>1, <4>6
        <5> QED BY <4>1, <5>1
      <4>3. it[A \ {y}] = f[x] + it[A \ {x, y}]
        <5>1. it[A \ {y}] = f[x] + it[(A \ {y}) \ {x}] BY <4>1, <4>6
        <5> QED BY <4>1, <5>1
      <4>4. f[x] \in Int /\ f[y] \in Int /\ it[A \ {x, y}] \in Int BY <3>2, <4>1
      <4> QED BY <3>3, <4>2, <4>3, <4>4
    <3> QED BY <3>4, <3>5
  <2> QED BY <2>1
<1> HIDE DEF T
<1>4. Nat \subseteq T BY <1>2, <1>3, NatSetInduction
<1>5. Cardinality(C) \in T BY <1>1, <1>4
<1> QED BY <1>5 DEF T

(* The library's sum is that. *)
LEMMA SumIs ==
    ASSUME NEW S, IsFiniteSet(S), NEW f \in [S -> Int]
    PROVE  \E it : IsSum(it, f, S) /\ it \in [SUBSET S -> Int] /\ SumOver(f) = it[S]
<1> DEFINE E(it) == it = [A \in SUBSET S |-> IF A = {} THEN 0
                                             ELSE f[CHOOSE x \in A : TRUE] + it[A \ {CHOOSE x \in A : TRUE}]]
<1>1. \E it : E(it)
  <2>1. PICK it : IsSum(it, f, S) BY SumExists
  <2> QED BY <2>1 DEF IsSum, Element
<1>2. PICK it : it = (CHOOSE g : E(g)) OBVIOUS
<1>3. E(it) BY <1>1, <1>2
<1>4. SumOver(f) = it[S]
  <2>1. DOMAIN f = S OBVIOUS
  <2> QED BY <1>2, <2>1 DEF SumOver, MapThenSumSet, MapThenFoldSet
<1>5. IsSum(it, f, S) BY <1>3 DEF IsSum, Element
<1> HIDE DEF E
<1>6. it \in [SUBSET S -> Int]
  <2> DEFINE T == {k \in Nat : \A A \in SUBSET S : Cardinality(A) = k => it[A] \in Int}
  <2>1. \A A \in SUBSET S : IsFiniteSet(A) /\ Cardinality(A) \in Nat BY FS_Subset, FS_CardinalityType
  <2>2. 0 \in T
    <3>1. \A A \in SUBSET S : Cardinality(A) = 0 => A = {} BY <2>1, FS_EmptySet
    <3>2. it[{}] = 0 BY <1>5 DEF IsSum
    <3> QED BY <3>1, <3>2
  <2>3. ASSUME NEW k \in Nat, k \in T PROVE k + 1 \in T
    <3>1. ASSUME NEW A \in SUBSET S, Cardinality(A) = k + 1 PROVE it[A] \in Int
      <4>1. PICK x : x = Element(A) OBVIOUS
      <4>2. A # {} BY <2>1, <3>1, FS_EmptySet
      <4>3. x \in A BY <4>1, <4>2 DEF Element
      <4>4. Cardinality(A \ {x}) = Cardinality(A) - 1 BY <2>1, <4>3, FS_RemoveElement
      <4>5. Cardinality(A \ {x}) = k /\ A \ {x} \in SUBSET S BY <3>1, <4>4
      <4>6. it[A] = f[x] + it[A \ {x}] BY <1>5, <4>1, <4>2 DEF IsSum
      <4>7. it[A \ {x}] \in Int /\ f[x] \in Int BY <2>3, <4>3, <4>5
      <4> QED BY <4>6, <4>7
    <3> QED BY <3>1
  <2> HIDE DEF T
  <2>4. Nat \subseteq T BY <2>2, <2>3, NatSetInduction
  <2>5. ASSUME NEW A \in SUBSET S PROVE it[A] \in Int BY <2>1, <2>4 DEF T
  <2>6. it = [A \in SUBSET S |-> it[A]] BY <1>5 DEF IsSum
  <2> QED BY <2>5, <2>6
<1> QED BY <1>4, <1>5, <1>6

(* What it sums of a part does not depend on the rest. *)
LEMMA SumsOfPart ==
    ASSUME NEW S, IsFiniteSet(S), NEW f \in [S -> Int], NEW R \in SUBSET S, NEW g \in [R -> Int],
           \A x \in R : g[x] = f[x], NEW it, IsSum(it, f, S), NEW jt, IsSum(jt, g, R)
    PROVE  \A A \in SUBSET R : it[A] = jt[A]
<1> DEFINE T == {k \in Nat : \A A \in SUBSET R : Cardinality(A) = k => it[A] = jt[A]}
<1>1. \A A \in SUBSET R : IsFiniteSet(A) /\ Cardinality(A) \in Nat /\ A \in SUBSET S
  BY FS_Subset, FS_CardinalityType
<1>2. 0 \in T
  <2>1. \A A \in SUBSET R : Cardinality(A) = 0 => A = {} BY <1>1, FS_EmptySet
  <2>2. it[{}] = 0 /\ jt[{}] = 0 BY DEF IsSum
  <2> QED BY <2>1, <2>2
<1>3. ASSUME NEW k \in Nat, k \in T PROVE k + 1 \in T
  <2>1. ASSUME NEW A \in SUBSET R, Cardinality(A) = k + 1 PROVE it[A] = jt[A]
    <3>1. PICK x : x = Element(A) OBVIOUS
    <3>2. A # {} BY <1>1, <2>1, FS_EmptySet
    <3>3. x \in A BY <3>1, <3>2 DEF Element
    <3>4. Cardinality(A \ {x}) = Cardinality(A) - 1 BY <1>1, <3>3, FS_RemoveElement
    <3>5. Cardinality(A \ {x}) = k /\ A \ {x} \in SUBSET R BY <2>1, <3>4
    <3>6. it[A] = f[x] + it[A \ {x}] BY <1>1, <3>1, <3>2 DEF IsSum
    <3>7. jt[A] = g[x] + jt[A \ {x}] BY <3>1, <3>2 DEF IsSum
    <3>8. it[A \ {x}] = jt[A \ {x}] /\ f[x] = g[x] BY <1>3, <3>3, <3>5
    <3> QED BY <3>6, <3>7, <3>8
  <2> QED BY <2>1
<1> HIDE DEF T
<1>4. Nat \subseteq T BY <1>2, <1>3, NatSetInduction
<1>5. ASSUME NEW A \in SUBSET R PROVE it[A] = jt[A] BY <1>1, <1>4 DEF T
<1> QED BY <1>5

\* A function on a part of its domain.
On(f, A) == [x \in A |-> f[x]]

(* A sum of integers is one, and the sum of no numbers is 0. *)
LEMMA SumIsInt ==
    ASSUME NEW S, IsFiniteSet(S), NEW f \in [S -> Int]
    PROVE  SumOver(f) \in Int /\ (S = {} => SumOver(f) = 0)
<1>1. PICK it : IsSum(it, f, S) /\ it \in [SUBSET S -> Int] /\ SumOver(f) = it[S] BY SumIs
<1>2. S = {} => SumOver(f) = 0 BY <1>1 DEF IsSum
<1> QED BY <1>1, <1>2

(* One number and the others. *)
LEMMA SumTakes ==
    ASSUME NEW S, IsFiniteSet(S), NEW f \in [S -> Int], NEW x \in S
    PROVE  SumOver(f) = f[x] + SumOver(On(f, S \ {x}))
<1>1. PICK it : IsSum(it, f, S) /\ it \in [SUBSET S -> Int] /\ SumOver(f) = it[S] BY SumIs
<1>2. PICK R, g : R = S \ {x} /\ g = On(f, S \ {x}) OBVIOUS
<1>3. R \in SUBSET S /\ g \in [R -> Int] /\ \A y \in R : g[y] = f[y] BY <1>2 DEF On
<1>4. IsFiniteSet(R) BY <1>3, FS_Subset
<1>5. PICK jt : IsSum(jt, g, R) /\ SumOver(g) = jt[R] BY <1>3, <1>4, SumIs
<1>6. \A A \in SUBSET R : it[A] = jt[A] BY <1>1, <1>3, <1>5, SumsOfPart
<1>7. it[R] = jt[R] BY <1>6
<1>8. it[S] = f[x] + it[S \ {x}]
  <2>1. Sums(it, f, S) /\ S \in SUBSET S BY <1>1 DEF Sums
  <2> QED BY <2>1, SumFrom
<1> QED BY <1>1, <1>2, <1>5, <1>7, <1>8

(* A sum is the sum of two parts. *)
LEMMA SumOfParts ==
    ASSUME NEW S, IsFiniteSet(S), NEW f \in [S -> Int], NEW A \in SUBSET S
    PROVE  SumOver(f) = SumOver(On(f, A)) + SumOver(On(f, S \ A))
<1> DEFINE F == {B \in SUBSET A : SumOver(f) = SumOver(On(f, B)) + SumOver(On(f, S \ B))}
<1>1. \A B \in SUBSET S : IsFiniteSet(B) /\ On(f, B) \in [B -> Int] BY FS_Subset DEF On
<1>2. {} \in F
  <2>1. On(f, S \ {}) = f BY DEF On
  <2>2. On(f, {}) \in [{} -> Int] BY <1>1
  <2>3. SumOver(On(f, {})) = 0 BY <2>2, FS_EmptySet, SumIsInt
  <2>4. SumOver(f) \in Int BY SumIsInt
  <2> QED BY <2>1, <2>3, <2>4
<1>3. ASSUME NEW B \in SUBSET A, NEW x \in A, B \in F, x \notin B PROVE B \cup {x} \in F
  <2>1. PICK C, D : C = B \cup {x} /\ D = S \ B OBVIOUS
  <2>2. C \in SUBSET S /\ D \in SUBSET S /\ x \in C /\ x \in D /\ C \ {x} = B /\ D \ {x} = S \ C
    BY <1>3, <2>1
  <2>3. On(On(f, C), C \ {x}) = On(f, B) /\ On(On(f, D), D \ {x}) = On(f, S \ C)
        /\ On(f, C)[x] = f[x] /\ On(f, D)[x] = f[x]
    BY <2>2 DEF On
  <2>4. SumOver(On(f, C)) = On(f, C)[x] + SumOver(On(On(f, C), C \ {x})) BY <1>1, <2>2, SumTakes
  <2>5. SumOver(On(f, D)) = On(f, D)[x] + SumOver(On(On(f, D), D \ {x})) BY <1>1, <2>2, SumTakes
  <2>6. SumOver(f) = SumOver(On(f, B)) + SumOver(On(f, D)) BY <1>3, <2>1
  <2>7. SumOver(On(f, B)) \in Int /\ SumOver(On(f, S \ C)) \in Int BY <1>1, <2>2, SumIsInt
  <2>8. f[x] \in Int BY <2>2
  <2>9. SumOver(f) = SumOver(On(f, C)) + SumOver(On(f, S \ C))
    BY <2>3, <2>4, <2>5, <2>6, <2>7, <2>8
  <2> QED BY <2>1, <2>9
<1>4. IsFiniteSet(A) BY FS_Subset
<1> HIDE DEF F
<1>5. A \in F BY <1>2, <1>3, <1>4, SetInduction
<1> QED BY <1>5 DEF F

(* Numbers that are not smaller have a sum that is not smaller. *)
LEMMA SumMonotone ==
    ASSUME NEW S, IsFiniteSet(S), NEW f \in [S -> Int], NEW g \in [S -> Int],
           \A x \in S : f[x] <= g[x]
    PROVE  SumOver(f) <= SumOver(g)
<1> DEFINE F == {B \in SUBSET S : SumOver(On(f, B)) <= SumOver(On(g, B))}
<1>1. \A B \in SUBSET S : IsFiniteSet(B) /\ On(f, B) \in [B -> Int] /\ On(g, B) \in [B -> Int]
  BY FS_Subset DEF On
<1>2. {} \in F
  <2>1. On(f, {}) \in [{} -> Int] /\ On(g, {}) \in [{} -> Int] BY <1>1
  <2>2. SumOver(On(f, {})) = 0 BY <2>1, FS_EmptySet, SumIsInt
  <2>3. SumOver(On(g, {})) = 0 BY <2>1, FS_EmptySet, SumIsInt
  <2> QED BY <2>2, <2>3
<1>3. ASSUME NEW B \in SUBSET S, NEW x \in S, B \in F, x \notin B PROVE B \cup {x} \in F
  <2>1. PICK C : C = B \cup {x} OBVIOUS
  <2>2. C \in SUBSET S /\ x \in C /\ C \ {x} = B BY <1>3, <2>1
  <2>3. /\ On(On(f, C), C \ {x}) = On(f, B) /\ On(On(g, C), C \ {x}) = On(g, B)
        /\ On(f, C)[x] = f[x] /\ On(g, C)[x] = g[x]
    BY <2>2 DEF On
  <2>4. SumOver(On(f, C)) = On(f, C)[x] + SumOver(On(On(f, C), C \ {x})) BY <1>1, <2>2, SumTakes
  <2>5. SumOver(On(g, C)) = On(g, C)[x] + SumOver(On(On(g, C), C \ {x})) BY <1>1, <2>2, SumTakes
  <2>6. SumOver(On(f, B)) <= SumOver(On(g, B)) BY <1>3
  <2>7. SumOver(On(f, B)) \in Int BY <1>1, SumIsInt
  <2>10. SumOver(On(g, B)) \in Int BY <1>1, SumIsInt
  <2>8. f[x] \in Int /\ g[x] \in Int /\ f[x] <= g[x] OBVIOUS
  <2>9. SumOver(On(f, C)) <= SumOver(On(g, C)) BY <2>3, <2>4, <2>5, <2>6, <2>7, <2>8, <2>10
  <2> QED BY <2>1, <2>9
<1> HIDE DEF F
<1>5. S \in F BY <1>2, <1>3, SetInduction
<1>6. On(f, S) = f /\ On(g, S) = g BY DEF On
<1> QED BY <1>5, <1>6 DEF F

(* The sum of as many ones. *)
LEMMA SumOfOnes ==
    ASSUME NEW S, IsFiniteSet(S)
    PROVE  SumOver([x \in S |-> 1]) = Cardinality(S)
<1> DEFINE F == {B \in SUBSET S : SumOver([x \in B |-> 1]) = Cardinality(B)}
<1>1. \A B \in SUBSET S : IsFiniteSet(B) /\ Cardinality(B) \in Nat BY FS_Subset, FS_CardinalityType
<1>2. {} \in F
  <2>1. [x \in {} |-> 1] \in [{} -> Int] OBVIOUS
  <2>2. SumOver([x \in {} |-> 1]) = 0 BY <2>1, FS_EmptySet, SumIsInt
  <2> QED BY <2>2, FS_EmptySet
<1>3. ASSUME NEW B \in SUBSET S, NEW x \in S, B \in F, x \notin B PROVE B \cup {x} \in F
  <2>1. PICK C, g : C = B \cup {x} /\ g = [y \in B \cup {x} |-> 1] OBVIOUS
  <2>2. C \in SUBSET S /\ x \in C /\ C \ {x} = B /\ g \in [C -> Int] /\ g[x] = 1 BY <1>3, <2>1
  <2>3. On(g, C \ {x}) = [y \in B |-> 1] BY <2>1, <2>2 DEF On
  <2>4. SumOver(g) = g[x] + SumOver(On(g, C \ {x})) BY <1>1, <2>2, SumTakes
  <2>5. Cardinality(C) = Cardinality(B) + 1 BY <1>1, <1>3, <2>1, FS_AddElement
  <2>6. SumOver([y \in B |-> 1]) = Cardinality(B) BY <1>3
  <2>7. SumOver(g) = Cardinality(C) BY <1>1, <2>2, <2>3, <2>4, <2>5, <2>6
  <2> QED BY <2>1, <2>2, <2>7
<1> HIDE DEF F
<1>5. S \in F BY <1>2, <1>3, SetInduction
<1> QED BY <1>5 DEF F

(* The sum of one number. *)
LEMMA SumOfOne ==
    ASSUME NEW S, IsFiniteSet(S), NEW f \in [S -> Int], NEW x \in S, S = {x}
    PROVE  SumOver(f) = f[x]
<1>1. SumOver(f) = f[x] + SumOver(On(f, S \ {x})) BY SumTakes
<1>2. S \ {x} = {} OBVIOUS
<1>3. On(f, S \ {x}) \in [{} -> Int] BY <1>2 DEF On
<1>4. SumOver(On(f, S \ {x})) = 0 BY <1>3, FS_EmptySet, SumIsInt
<1> QED BY <1>1, <1>4

(* The sum of a part of naturals is not above the sum. *)
LEMMA SumOfPartIsLess ==
    ASSUME NEW S, IsFiniteSet(S), NEW f \in [S -> Nat], NEW A \in SUBSET S
    PROVE  SumOver(On(f, A)) <= SumOver(f)
<1>1. PICK g : g = [x \in S |-> IF x \in A THEN f[x] ELSE 0] OBVIOUS
<1>2. g \in [S -> Int] /\ f \in [S -> Int] /\ \A x \in S : g[x] <= f[x] BY <1>1
<1>3. SumOver(g) <= SumOver(f) BY <1>2, SumMonotone
<1>4. SumOver(g) = SumOver(On(g, A)) + SumOver(On(g, S \ A)) BY <1>2, SumOfParts
<1>5. On(g, A) = On(f, A) BY <1>1 DEF On
<1>6. IsFiniteSet(A) /\ IsFiniteSet(S \ A) BY FS_Subset
<1>7. On(f, A) \in [A -> Int] BY <1>2 DEF On
<1>8. SumOver(On(f, A)) \in Int BY <1>6, <1>7, SumIsInt
<1>9. SumOver(On(g, S \ A)) = 0
  <2>1. PICK R : R = S \ A OBVIOUS
  <2>2. PICK z : z = On(g, R) OBVIOUS
  <2>3. z = [x \in R |-> 0] BY <1>1, <2>1, <2>2 DEF On
  <2> DEFINE F == {B \in SUBSET R : SumOver(On(z, B)) = 0}
  <2>4. \A B \in SUBSET R : IsFiniteSet(B) /\ On(z, B) \in [B -> Int]
    BY <1>6, <2>1, <2>3, FS_Subset DEF On
  <2>5. {} \in F
    <3>1. On(z, {}) \in [{} -> Int] BY <2>4
    <3> QED BY <3>1, FS_EmptySet, SumIsInt
  <2>6. ASSUME NEW B \in SUBSET R, NEW x \in R, B \in F, x \notin B PROVE B \cup {x} \in F
    <3>1. PICK C, h : C = B \cup {x} /\ h = On(z, C) OBVIOUS
    <3>2. C \in SUBSET R /\ x \in C /\ C \ {x} = B BY <2>6, <3>1
    <3>3. IsFiniteSet(C) /\ h \in [C -> Int] BY <2>4, <3>1, <3>2
    <3>4. SumOver(h) = h[x] + SumOver(On(h, C \ {x})) BY <3>2, <3>3, SumTakes
    <3>5. h[x] = 0 /\ On(h, C \ {x}) = On(z, B) BY <2>3, <3>1, <3>2 DEF On
    <3>6. SumOver(On(z, B)) = 0 BY <2>6
    <3> QED BY <3>1, <3>2, <3>4, <3>5, <3>6
  <2>7. IsFiniteSet(R) BY <1>6, <2>1
  <2> HIDE DEF F
  <2>8. R \in F BY <2>5, <2>6, <2>7, SetInduction
  <2>9. On(z, R) = z BY <2>3 DEF On
  <2> QED BY <2>1, <2>2, <2>8, <2>9 DEF F
<1> QED BY <1>3, <1>4, <1>5, <1>8, <1>9

\* The elements that bear a label.
Labelled(label, l) == {x \in DOMAIN label : label[x] = l}
Labels(label) == {label[x] : x \in DOMAIN label}

(* Grouping what is summed does not change the sum. *)
LEMMA SumOfGroups ==
    ASSUME NEW S, IsFiniteSet(S), NEW f \in [S -> Int], NEW label, DOMAIN label = S,
           NEW g, g = [l \in Labels(label) |-> SumOver(On(f, Labelled(label, l)))]
    PROVE  /\ IsFiniteSet(Labels(label)) /\ g \in [Labels(label) -> Int]
           /\ SumOver(g) = SumOver(f)
<1>1. PICK L, named : L = Labels(label) /\ named = [x \in S |-> label[x]] OBVIOUS
<1>2. IsFiniteSet(L)
  <2>1. named \in Surjection(S, L) BY <1>1 DEF Surjection, Labels
  <2> QED BY <2>1, FS_Surjection
<1> DEFINE Of(B) == {x \in S : label[x] \in B}
           F == {B \in SUBSET L : SumOver(On(g, B)) = SumOver(On(f, Of(B)))}
<1>3. \A A \in SUBSET S : IsFiniteSet(A) /\ On(f, A) \in [A -> Int] BY FS_Subset DEF On
<1>4. \A A \in SUBSET S : SumOver(On(f, A)) \in Int BY <1>3, SumIsInt
<1>5. g \in [L -> Int]
  <2>1. \A l \in L : Labelled(label, l) \in SUBSET S BY DEF Labelled
  <2> QED BY <1>1, <1>4, <2>1
<1>6. \A B \in SUBSET L : IsFiniteSet(B) /\ On(g, B) \in [B -> Int]
  BY <1>2, <1>5, FS_Subset DEF On
<1>7. {} \in F
  <2>1. Of({}) = {} OBVIOUS
  <2>2. On(g, {}) \in [{} -> Int] /\ On(f, {}) \in [{} -> Int] BY <1>3, <1>6
  <2>3. SumOver(On(g, {})) = 0 BY <2>2, FS_EmptySet, SumIsInt
  <2>4. SumOver(On(f, {})) = 0 BY <2>2, FS_EmptySet, SumIsInt
  <2> QED BY <2>1, <2>3, <2>4
<1>8. ASSUME NEW B \in SUBSET L, NEW l \in L, B \in F, l \notin B PROVE B \cup {l} \in F
  <2>1. PICK C, h : C = B \cup {l} /\ h = On(g, C) OBVIOUS
  <2>2. C \in SUBSET L /\ l \in C /\ C \ {l} = B BY <1>8, <2>1
  <2>3. SumOver(h) = h[l] + SumOver(On(h, C \ {l})) BY <1>6, <2>1, <2>2, SumTakes
  <2>4. h[l] = g[l] /\ On(h, C \ {l}) = On(g, B) BY <2>1, <2>2 DEF On
  <2>5. PICK M, A, e : M = Of(C) /\ A = Labelled(label, l) /\ e = On(f, M) OBVIOUS
  <2>6. M \in SUBSET S /\ A \in SUBSET M /\ M \ A = Of(B)
    BY <1>8, <2>1, <2>5 DEF Labelled
  <2>7. SumOver(e) = SumOver(On(e, A)) + SumOver(On(e, M \ A)) BY <1>3, <2>5, <2>6, SumOfParts
  <2>8. On(e, A) = On(f, A) /\ On(e, M \ A) = On(f, Of(B)) BY <2>5, <2>6 DEF On
  <2>9. g[l] = SumOver(On(f, A)) BY <1>1, <2>5
  <2>10. SumOver(On(g, B)) = SumOver(On(f, Of(B))) BY <1>8
  <2>11. SumOver(h) = SumOver(e) BY <2>3, <2>4, <2>7, <2>8, <2>9, <2>10
  <2> QED BY <2>1, <2>2, <2>5, <2>11
<1> HIDE DEF F
<1>9. L \in F BY <1>2, <1>7, <1>8, SetInduction
<1>10. Of(L) = S BY <1>1 DEF Labels
<1>11. On(g, L) = g /\ On(f, S) = f BY <1>5 DEF On
<1>12. SumOver(g) = SumOver(f) BY <1>9, <1>10, <1>11 DEF F
<1> QED BY <1>1, <1>2, <1>5, <1>12

\* Places for all the members of a set, one for each.
Places(h, A, B) ==
    /\ IsFiniteSet(A) /\ h \in [A -> B] /\ \A x, y \in A : x # y => h[x] # h[y]
    /\ \A b \in B : \E x \in A : h[x] = b

\* The numbers of what is at the places.
Through(h, A, f) == [x \in A |-> f[h[x]]]

(* Nor does the order. *)
LEMMA SumInOrder ==
    ASSUME NEW A, NEW B, NEW h, Places(h, A, B), NEW f \in [B -> Int]
    PROVE  SumOver(Through(h, A, f)) = SumOver(f)
<1> USE DEF Places
<1>1. PICK e : e = Through(h, A, f) OBVIOUS
<1>2. e \in [A -> Int] BY <1>1 DEF Through
<1>3. PICK g : g = [l \in Labels(h) |-> SumOver(On(e, Labelled(h, l)))] OBVIOUS
<1>4. Labels(h) = B BY DEF Labels
<1>5. SumOver(g) = SumOver(e) /\ g \in [B -> Int] BY <1>2, <1>3, <1>4, SumOfGroups
<1>6. ASSUME NEW b \in B PROVE g[b] = f[b]
  <2>1. PICK x \in A : h[x] = b OBVIOUS
  <2>2. Labelled(h, b) = {x} BY <2>1 DEF Labelled
  <2>3. PICK S, k : S = {x} /\ k = On(e, {x}) OBVIOUS
  <2>4. k \in [S -> Int] /\ x \in S /\ k[x] = e[x] BY <1>2, <2>3 DEF On
  <2>5. IsFiniteSet(S) BY <2>3, FS_Singleton
  <2>6. SumOver(k) = k[x] BY <2>3, <2>4, <2>5, SumOfOne
  <2> QED BY <1>1, <1>3, <1>4, <2>1, <2>2, <2>3, <2>4, <2>6 DEF Through
<1>7. g = f BY <1>5, <1>6
<1> QED BY <1>1, <1>5, <1>7

-----------------------------------------------------------------------------
(* Analytics: what the queries tell                                        *)

\* The order a list of groups is cut in.
Above(groups, l, m) ==
    \/ groups[l].minutes > groups[m].minutes
    \/ groups[l].minutes = groups[m].minutes /\ groups[l].count > groups[m].count

\* Groups with numbers to compare.
AreGroups(groups) ==
    /\ IsFiniteSet(DOMAIN groups)
    /\ \A l \in DOMAIN groups : groups[l].minutes \in Int /\ groups[l].count \in Int

(* What a cut leaves is a part of the groups, and all of them unless the
   limit is reached. *)
LEMMA TopIsPart ==
    ASSUME NEW groups, AreGroups(groups), NEW n \in Nat
    PROVE  \E T \in SUBSET DOMAIN groups :
             /\ Top(groups, n) = On(groups, T)
             /\ Cardinality(T) < n => T = DOMAIN groups
<1>1. PICK D : D = DOMAIN groups OBVIOUS
<1>2. PICK N : N = Cardinality(D) OBVIOUS
<1>3. IsFiniteSet(D) /\ N \in Nat BY <1>1, <1>2, FS_CardinalityType DEF AreGroups
<1>4. PICK size : size = IF N < n THEN N ELSE n OBVIOUS
<1>5. size \in 0..N BY <1>3, <1>4
<1> DEFINE Best(T) == Cardinality(T) = size /\ \A l \in T, m \in D \ T : ~Above(groups, m, l)
<1>6. \E T \in SUBSET D : Best(T)
  <2>1. PICK before : before = {x \in D \X D : ~Above(groups, x[2], x[1])} OBVIOUS
  <2>2. \A x, y \in D : <<x, y>> \in before <=> ~Above(groups, y, x) BY <2>1
  <2>3. \A x, y \in D : x # y => <<x, y>> \in before \/ <<y, x>> \in before
    BY <1>1, <2>2 DEF Above, AreGroups
  <2>4. \A x, y, z \in D : <<x, y>> \in before /\ <<y, z>> \in before => <<x, z>> \in before
    BY <1>1, <2>2 DEF Above, AreGroups
  <2>5. before \in SUBSET (D \X D) BY <2>1
  <2>6. PICK s \in SetToSeqs(D) : \A i, j \in DOMAIN s : i < j => <<s[i], s[j]>> \in before
    BY <1>3, <2>3, <2>4, <2>5, RankExists
  <2>7. /\ s \in [1..N -> D] /\ \A i, j \in DOMAIN s : i # j => s[i] # s[j]
        /\ \A x \in D : \E i \in DOMAIN s : s[i] = x
    BY <1>2, <1>3, <2>6, ListsAreWhole
  <2>8. PICK T, h : T = {s[i] : i \in 1..size} /\ h = [i \in 1..size |-> s[i]] OBVIOUS
  <2>9. 1..size \subseteq 1..N BY <1>3, <1>5
  <2>10. T \in SUBSET D BY <2>7, <2>8, <2>9
  <2>11. Cardinality(T) = size
    <3>1. h \in Surjection(1..size, T) /\ h \in Injection(1..size, T)
      BY <2>7, <2>8, <2>9 DEF Surjection, Injection, IsInjective
    <3>2. IsFiniteSet(1..size) /\ Cardinality(1..size) = size BY <1>3, <1>5, FS_Interval
    <3> QED BY <3>1, <3>2, FS_Surjection
  <2>12. ASSUME NEW l \in T, NEW m \in D \ T PROVE ~Above(groups, m, l)
    <3>1. PICK i \in 1..size : l = s[i] BY <2>8
    <3>2. PICK j \in 1..N : m = s[j] BY <2>7
    <3>3. j \notin 1..size BY <2>8, <3>2
    <3>4. i \in 1..N /\ i < j BY <1>3, <1>5, <2>9, <3>1, <3>2, <3>3
    <3>5. <<l, m>> \in before BY <2>6, <2>7, <3>1, <3>2, <3>4
    <3> QED BY <2>2, <2>10, <3>5
  <2> QED BY <2>10, <2>11, <2>12
<1> DEFINE top == CHOOSE T \in SUBSET D : Best(T)
<1>7. Top(groups, n) = On(groups, top)
  <2>1. top = CHOOSE T \in SUBSET DOMAIN groups :
                Cardinality(T) = (IF Cardinality(DOMAIN groups) < n THEN Cardinality(DOMAIN groups) ELSE n)
                /\ \A l \in T, m \in DOMAIN groups \ T :
                     ~ \/ groups[m].minutes > groups[l].minutes
                       \/ groups[m].minutes = groups[l].minutes /\ groups[m].count > groups[l].count
    BY <1>1, <1>2, <1>4 DEF Above
  <2> HIDE DEF top
  <2> QED BY <2>1 DEF Top, On
<1>8. PICK T : T = top OBVIOUS
<1> HIDE DEF Best
<1>9. T \in SUBSET D /\ Best(T) BY <1>6, <1>8
<1> HIDE DEF top
<1>10. ASSUME Cardinality(T) < n PROVE T = D
  <2>1. Cardinality(T) = size BY <1>9 DEF Best
  <2>2. Cardinality(T) = Cardinality(D) BY <1>2, <1>3, <1>4, <1>10, <2>1
  <2> QED BY <1>3, <1>9, <2>2, FS_Subset
<1> QED BY <1>1, <1>7, <1>8, <1>9, <1>10

(* The durations of rows are numbers. *)
LEMMA DurationIsInt ==
    ASSUME NEW r \in RecordPool
    PROVE  ActivityDuration(r) \in Nat /\ ActivityStartAt(r) \in Int
<1>1. ActivityStartAt(r) \in Int BY RowsHaveTypes DEF ActivityStartAt, Read, Has
<1>2. Has(r, "minutes") => r.payload.minutes \in Int BY RowsHaveTypes DEF Has
<1>3. Has(r, "end") => r.payload.end \in Int BY RowsHaveTypes DEF Has
<1> QED BY <1>1, <1>2, <1>3 DEF ActivityDuration, NonNegative

Durations(R) == [r \in R |-> ActivityDuration(r)]

(* Groups tell all the rows and minutes there are. *)
LEMMA GroupedTellsAll ==
    ASSUME NEW R \in SUBSET RecordPool, IsFiniteSet(R), NEW label, DOMAIN label = R
    PROVE  /\ AreGroups(Grouped(R, label))
           /\ SumCounts(Grouped(R, label)) = Cardinality(R)
           /\ SumMinutes(Grouped(R, label)) = Minutes(R)
           /\ Minutes(R) \in Int /\ Cardinality(R) \in Nat
<1>1. PICK G, d, one : /\ G = Grouped(R, label) /\ d = Durations(R) /\ one = [r \in R |-> 1]
  OBVIOUS
<1>2. d \in [R -> Int] /\ one \in [R -> Int] BY <1>1, DurationIsInt DEF Durations
<1>3. DOMAIN G = Labels(label) BY <1>1 DEF Grouped, Labels
<1>4. ASSUME NEW l \in Labels(label)
      PROVE  /\ G[l].count = SumOver(On(one, Labelled(label, l)))
             /\ G[l].minutes = SumOver(On(d, Labelled(label, l)))
  <2>1. PICK A : A = Labelled(label, l) OBVIOUS
  <2>2. A \in SUBSET R /\ IsFiniteSet(A) BY <2>1, FS_Subset DEF Labelled
  <2>3. G[l] = ActivityTotals(A) BY <1>1, <2>1 DEF Grouped, Labels, Labelled
  <2>4. On(one, A) = [r \in A |-> 1] /\ On(d, A) = [r \in A |-> ActivityDuration(r)]
    BY <1>1, <2>2 DEF On, Durations
  <2>5. SumOver([r \in A |-> 1]) = Cardinality(A) BY <2>2, SumOfOnes
  <2> QED BY <2>1, <2>3, <2>4, <2>5 DEF ActivityTotals, Minutes
<1>5. PICK c, m : /\ c = [l \in Labels(label) |-> SumOver(On(one, Labelled(label, l)))]
                  /\ m = [l \in Labels(label) |-> SumOver(On(d, Labelled(label, l)))]
  OBVIOUS
<1>6. /\ IsFiniteSet(Labels(label)) /\ c \in [Labels(label) -> Int]
      /\ SumOver(c) = SumOver(one)
  BY <1>2, <1>5, SumOfGroups
<1>7. /\ m \in [Labels(label) -> Int] /\ SumOver(m) = SumOver(d)
  BY <1>2, <1>5, SumOfGroups
<1>8. SumOver(one) = Cardinality(R) BY <1>1, SumOfOnes
<1>9. SumCounts(G) = SumOver(c)
  <2>1. [l \in DOMAIN G |-> G[l].count] = c BY <1>3, <1>4, <1>5
  <2> QED BY <2>1 DEF SumCounts
<1>10. SumMinutes(G) = SumOver(m)
  <2>1. [l \in DOMAIN G |-> G[l].minutes] = m BY <1>3, <1>4, <1>5
  <2> QED BY <2>1 DEF SumMinutes
<1>11. AreGroups(G)
  <2>1. \A l \in Labels(label) : G[l].count = c[l] /\ G[l].minutes = m[l] BY <1>4, <1>5
  <2> QED BY <1>3, <1>6, <1>7, <2>1 DEF AreGroups
<1>12. SumOver(d) = Minutes(R) BY <1>1 DEF Minutes, Durations
<1>13. SumOver(d) \in Int BY <1>2, SumIsInt
<1>14. Cardinality(R) \in Nat BY FS_CardinalityType
<1> QED BY <1>1, <1>6, <1>7, <1>8, <1>9, <1>10, <1>11, <1>12, <1>13, <1>14

(* A sum with one number more at its end. *)
LEMMA SumAppend ==
    ASSUME NEW n \in Nat, NEW f \in [1..(n + 1) -> Int], NEW g,
           g = [i \in 1..n |-> f[i]]
    PROVE  SumOver(f) = SumOver(g) + f[n + 1]
<1>1. IsFiniteSet(1..(n + 1)) BY FS_Interval
<1>2. n + 1 \in 1..(n + 1) /\ (1..(n + 1)) \ {n + 1} = 1..n OBVIOUS
<1>3. SumOver(f) = f[n + 1] + SumOver(On(f, (1..(n + 1)) \ {n + 1})) BY <1>1, <1>2, SumTakes
<1>4. On(f, (1..(n + 1)) \ {n + 1}) = g BY <1>2 DEF On
<1>5. g \in [1..n -> Int] /\ IsFiniteSet(1..n) BY FS_Interval
<1>6. SumOver(g) \in Int BY <1>5, SumIsInt
<1> QED BY <1>3, <1>4, <1>6

\* What the rows of a list weigh, and those of a list of lists.
Weight(s, w) == SumOver([i \in DOMAIN s |-> w[s[i]]])
AllWeight(groups, w) == SumOver([i \in DOMAIN groups |-> Weight(groups[i], w)])

\* The lists the sessions are made of.
Groups(R) == {g \in Seq(Seq(R)) : \A i \in DOMAIN g : g[i] # <<>>}

(* A row more weighs more. *)
LEMMA WeightAppend ==
    ASSUME NEW R, NEW w \in [R -> Int], NEW s \in Seq(R), NEW r \in R
    PROVE  /\ Weight(s, w) \in Int
           /\ Weight(Append(s, r), w) = Weight(s, w) + w[r]
<1>1. PICK n \in Nat : s \in [1..n -> R] /\ Len(s) = n OBVIOUS
<1>2. PICK u : u = Append(s, r) OBVIOUS
<1>3. /\ DOMAIN u = 1..(n + 1) /\ u[n + 1] = r /\ \A i \in 1..n : u[i] = s[i]
      /\ DOMAIN s = 1..n
  BY <1>1, <1>2
<1>4. PICK f, g : /\ f = [i \in 1..(n + 1) |-> w[u[i]]] /\ g = [i \in 1..n |-> w[s[i]]]
  OBVIOUS
<1>5. f \in [1..(n + 1) -> Int] /\ g \in [1..n -> Int]
  <2>1. \A i \in 1..(n + 1) : u[i] \in R BY <1>1, <1>3
  <2> QED BY <1>1, <1>4, <2>1
<1>6. g = [i \in 1..n |-> f[i]] BY <1>3, <1>4
<1>7. SumOver(f) = SumOver(g) + f[n + 1] BY <1>5, <1>6, SumAppend
<1>8. SumOver(g) \in Int BY <1>5, FS_Interval, SumIsInt
<1>9. Weight(s, w) = SumOver(g) BY <1>3, <1>4 DEF Weight
<1>10. Weight(u, w) = SumOver(f) BY <1>3, <1>4 DEF Weight
<1>11. f[n + 1] = w[r] BY <1>3, <1>4
<1> QED BY <1>2, <1>7, <1>8, <1>9, <1>10, <1>11

(* A list weighs a number. *)
LEMMA WeightIsInt ==
    ASSUME NEW R, NEW w \in [R -> Int], NEW s \in Seq(R)
    PROVE  Weight(s, w) \in Int
<1>1. PICK f : f = [i \in DOMAIN s |-> w[s[i]]] OBVIOUS
<1>2. PICK n \in Nat : DOMAIN s = 1..n /\ \A i \in 1..n : s[i] \in R OBVIOUS
<1>3. f \in [1..n -> Int] /\ IsFiniteSet(1..n) BY <1>1, <1>2, FS_Interval
<1>4. SumOver(f) \in Int BY <1>3, SumIsInt
<1> QED BY <1>1, <1>4 DEF Weight

\* The weights of the lists of a list.
Weights(groups, w) == [i \in DOMAIN groups |-> Weight(groups[i], w)]

(* A row is added to the last list, or begins one: the lists are not empty,
   and weigh as much more as the row. *)
LEMMA GrowAdds ==
    ASSUME NEW R, NEW w \in [R -> Int], NEW groups \in Groups(R), NEW r \in R
    PROVE  /\ Grow(groups, r) \in Groups(R) /\ AllWeight(groups, w) \in Int
           /\ AllWeight(Grow(groups, r), w) = AllWeight(groups, w) + w[r]
<1>1. groups \in Seq(Seq(R)) /\ \A i \in DOMAIN groups : groups[i] # <<>> BY DEF Groups
<1>2. PICK n \in Nat : DOMAIN groups = 1..n /\ Len(groups) = n /\ \A i \in 1..n : groups[i] \in Seq(R)
  BY <1>1
<1>3. PICK a : a = Weights(groups, w) OBVIOUS
<1>4. a = [i \in 1..n |-> Weight(groups[i], w)] BY <1>2, <1>3 DEF Weights
<1>5. \A i \in 1..n : Weight(groups[i], w) \in Int BY <1>2, WeightIsInt
<1>6. a \in [1..n -> Int] BY <1>4, <1>5
<1>7. SumOver(a) \in Int BY <1>6, FS_Interval, SumIsInt
<1>8. AllWeight(groups, w) = SumOver(a) BY <1>3 DEF AllWeight, Weights
<1>9. CASE Grow(groups, r) = Append(groups, <<r>>)
  <2>1. PICK more : more = Append(groups, <<r>>) OBVIOUS
  <2>2. <<r>> \in Seq(R) /\ <<r>> # <<>> OBVIOUS
  <2>3. /\ more \in Seq(Seq(R)) /\ DOMAIN more = 1..(n + 1) /\ more[n + 1] = <<r>>
        /\ \A i \in 1..n : more[i] = groups[i]
    BY <1>1, <1>2, <2>1, <2>2
  <2>4. more \in Groups(R)
    <3>1. ASSUME NEW i \in DOMAIN more PROVE more[i] # <<>>
      <4>1. i \in 1..n \/ i = n + 1 BY <2>3
      <4> QED BY <1>1, <1>2, <2>2, <2>3, <4>1
    <3> QED BY <2>3, <3>1 DEF Groups
  <2>5. Weight(<<r>>, w) = w[r]
    <3>1. <<>> \in Seq(R) /\ Append(<<>>, r) = <<r>> OBVIOUS
    <3>2. Weight(<<>>, w) = 0
      <4>1. PICK f, E : E = {} /\ f = [i \in E |-> w[<<>>[i]]] OBVIOUS
      <4>2. f \in [E -> Int] BY <4>1
      <4>3. IsFiniteSet(E) BY <4>1, FS_EmptySet
      <4>4. SumOver(f) = 0 BY <4>1, <4>2, <4>3, SumIsInt
      <4> QED BY <4>1, <4>4 DEF Weight
    <3>3. Weight(Append(<<>>, r), w) = Weight(<<>>, w) + w[r] BY <3>1, WeightAppend
    <3> QED BY <3>1, <3>2, <3>3
  <2>6. PICK b : b = Weights(more, w) OBVIOUS
  <2>7. b = [i \in 1..(n + 1) |-> Weight(more[i], w)] BY <2>3, <2>6 DEF Weights
  <2>8. \A i \in 1..n : b[i] = a[i] BY <1>4, <2>3, <2>7
  <2>9. b[n + 1] = w[r]
    <3>1. n + 1 \in 1..(n + 1) OBVIOUS
    <3>2. b[n + 1] = Weight(more[n + 1], w) BY <2>7, <3>1
    <3> QED BY <2>3, <2>5, <3>2
  <2>10. b \in [1..(n + 1) -> Int]
    <3>1. \A i \in 1..(n + 1) : b[i] \in Int BY <1>6, <2>8, <2>9
    <3> QED BY <2>7, <3>1
  <2>11. a = [i \in 1..n |-> b[i]] BY <1>4, <2>8
  <2>12. SumOver(b) = SumOver(a) + b[n + 1] BY <2>10, <2>11, SumAppend
  <2>13. AllWeight(more, w) = SumOver(b) BY <2>6 DEF AllWeight, Weights
  <2> QED BY <1>7, <1>8, <1>9, <2>1, <2>4, <2>9, <2>12, <2>13
<1>10. CASE Grow(groups, r) # Append(groups, <<r>>)
  <2>1. groups # <<>> /\ Grow(groups, r) = Append(Front(groups), Append(Last(groups), r))
    BY <1>10 DEF Grow
  <2>2. n # 0 BY <1>1, <1>2, <2>1
  <2>3. PICK k \in Nat : n = k + 1 BY <2>2
  <2>4. PICK last, front : last = groups[n] /\ front = [i \in 1..k |-> groups[i]] OBVIOUS
  <2>5. Last(groups) = last BY <1>2, <2>4 DEF Last
  <2>6. Front(groups) = front
    <3>1. Len(groups) = k + 1 /\ (k + 1) - 1 = k BY <1>2, <2>3
    <3>2. Len(groups) - 1 = k BY <3>1
    <3>3. Front(groups) = SubSeq(groups, 1, k) BY <3>2 DEF Front
    <3>4. SubSeq(groups, 1, k) = [i \in 1..k |-> groups[i]] BY <1>1, <2>3
    <3> QED BY <2>4, <3>3, <3>4
  <2>7. last \in Seq(R) /\ Append(last, r) \in Seq(R) /\ Append(last, r) # <<>>
    <3>1. last \in Seq(R) BY <1>2, <2>3, <2>4
    <3>2. Append(last, r) \in Seq(R) /\ Len(Append(last, r)) = Len(last) + 1 BY <3>1
    <3>3. Len(Append(last, r)) # Len(<<>>) BY <3>1, <3>2
    <3> QED BY <3>1, <3>2, <3>3
  <2>8. front \in Seq(Seq(R)) /\ DOMAIN front = 1..k /\ Len(front) = k
    BY <1>2, <2>3, <2>4
  <2>9. PICK more, longer : longer = Append(last, r) /\ more = Append(front, longer) OBVIOUS
  <2>10. /\ more \in Seq(Seq(R)) /\ DOMAIN more = 1..(k + 1) /\ more[k + 1] = longer
         /\ \A i \in 1..k : more[i] = groups[i]
    BY <2>4, <2>7, <2>8, <2>9
  <2>11. more \in Groups(R)
    <3>1. ASSUME NEW i \in DOMAIN more PROVE more[i] # <<>>
      <4>1. i \in 1..k \/ i = k + 1 BY <2>10
      <4>2. i \in 1..k => i \in DOMAIN groups /\ more[i] = groups[i] BY <1>2, <2>3, <2>10
      <4> QED BY <1>1, <2>7, <2>9, <2>10, <4>1, <4>2
    <3> QED BY <2>10, <3>1 DEF Groups
  <2>12. PICK b, c : b = Weights(more, w) /\ c = [i \in 1..k |-> a[i]] OBVIOUS
  <2>13. b = [i \in 1..(k + 1) |-> Weight(more[i], w)] BY <2>10, <2>12 DEF Weights
  <2>14. \A i \in 1..k : b[i] = a[i] BY <1>4, <2>3, <2>10, <2>13
  <2>15. a[k + 1] = Weight(last, w) /\ b[k + 1] = Weight(longer, w)
    BY <1>4, <2>3, <2>4, <2>10, <2>13
  <2>16. b[k + 1] = a[k + 1] + w[r] /\ a[k + 1] \in Int BY <2>7, <2>9, <2>15, WeightAppend
  <2>17. b \in [1..(k + 1) -> Int]
    <3>1. \A i \in 1..(k + 1) : b[i] \in Int BY <1>6, <2>3, <2>14, <2>16
    <3> QED BY <2>13, <3>1
  <2>18. c = [i \in 1..k |-> b[i]] BY <2>12, <2>14
  <2>19. SumOver(b) = SumOver(c) + b[k + 1] BY <2>17, <2>18, SumAppend
  <2>20. SumOver(a) = SumOver(c) + a[k + 1] BY <1>6, <2>3, <2>12, SumAppend
  <2>21. SumOver(c) \in Int
    <3>1. c \in [1..k -> Int] BY <2>12, <2>14, <1>6, <2>3
    <3> QED BY <3>1, FS_Interval, SumIsInt
  <2>22. AllWeight(more, w) = SumOver(b) BY <2>12 DEF AllWeight, Weights
  <2>23. SumOver(b) = SumOver(a) + w[r] BY <2>16, <2>19, <2>20, <2>21
  <2> QED BY <1>7, <1>8, <2>1, <2>5, <2>6, <2>9, <2>11, <2>22, <2>23
<1> QED BY <1>9, <1>10

(* The rows have a list by their starts. *)
LEMMA ByStartIsList ==
    ASSUME NEW R \in SUBSET RecordPool, IsFiniteSet(R)
    PROVE  ByStart(R) \in SetToSeqs(R)
<1>1. PICK before : before = {x \in R \X R : ActivityStartAt(x[1]) <= ActivityStartAt(x[2])} OBVIOUS
<1>2. \A x, y \in R : <<x, y>> \in before <=> ActivityStartAt(x) <= ActivityStartAt(y) BY <1>1
<1>3. \A x \in R : ActivityStartAt(x) \in Int BY DurationIsInt
<1>4. before \in SUBSET (R \X R) BY <1>1
<1>5. \A x, y \in R : x # y => <<x, y>> \in before \/ <<y, x>> \in before BY <1>2, <1>3
<1>6. \A x, y, z \in R : <<x, y>> \in before /\ <<y, z>> \in before => <<x, z>> \in before
  BY <1>2, <1>3
<1>7. PICK s \in SetToSeqs(R) : \A i, j \in DOMAIN s : i < j => <<s[i], s[j]>> \in before
  BY <1>4, <1>5, <1>6, RankExists
<1>8. \A i, j \in DOMAIN s : i < j => ActivityStartAt(s[i]) <= ActivityStartAt(s[j])
  <2>1. \A i \in DOMAIN s : s[i] \in R BY ListsAreWhole
  <2> QED BY <1>2, <1>7, <2>1
<1> QED BY <1>8 DEF ByStart

\* A list of rows.
RowList(s, n, R) == n \in Nat /\ s \in [1..n -> R]

\* The lists of the first rows.
FoldedRows(it, s, n) ==
    it = [S \in SUBSET (1..n) |-> IF S = {} THEN <<>> ELSE Grow(it[S \ {Max(S)}], s[Max(S)])]

(* However many rows are in the lists, the lists weigh what they do. *)
LEMMA GroupsWeighAll ==
    ASSUME NEW R, NEW n, NEW s, RowList(s, n, R), NEW it, FoldedRows(it, s, n),
           NEW w \in [R -> Int]
    PROVE  it[1..n] \in Groups(R) /\ AllWeight(it[1..n], w) = Weight(s, w)
<1> USE DEF RowList
<1> DEFINE Part(k) == [i \in 1..k |-> s[i]]
           T == {k \in Nat : k <= n =>
                   /\ it[1..k] \in Groups(R) /\ AllWeight(it[1..k], w) = Weight(Part(k), w)}
<1>1. 0 \in T
  <2>1. PICK E : E = {} OBVIOUS
  <2>2. 1..0 = {} /\ E \in SUBSET (1..n) BY <2>1
  <2>3. it[1..0] = <<>> BY <2>2 DEF FoldedRows
  <2>4. <<>> \in Groups(R) BY DEF Groups
  <2>5. PICK f : f = [i \in E |-> w[s[i]]] OBVIOUS
  <2>6. f \in [E -> Int] /\ IsFiniteSet(E) BY <2>1, <2>5, FS_EmptySet
  <2>7. SumOver(f) = 0 BY <2>1, <2>6, SumIsInt
  <2>8. Weight(Part(0), w) = SumOver(f)
    <3>1. DOMAIN Part(0) = E BY <2>1, <2>2
    <3>2. [i \in DOMAIN Part(0) |-> w[Part(0)[i]]] = f BY <2>1, <2>5, <3>1
    <3> QED BY <3>2 DEF Weight
  <2>9. AllWeight(<<>>, w) = SumOver(f)
    <3>1. [i \in DOMAIN <<>> |-> Weight(<<>>[i], w)] = f BY <2>1, <2>5
    <3> QED BY <3>1 DEF AllWeight
  <2> QED BY <2>3, <2>4, <2>8, <2>9
<1>2. ASSUME NEW k \in Nat, k \in T PROVE k + 1 \in T
  <2> SUFFICES ASSUME k + 1 <= n
               PROVE  /\ it[1..(k + 1)] \in Groups(R)
                      /\ AllWeight(it[1..(k + 1)], w) = Weight(Part(k + 1), w)
    OBVIOUS
  <2>1. it[1..k] \in Groups(R) /\ AllWeight(it[1..k], w) = Weight(Part(k), w) BY <1>2
  <2>2. PICK S : S = 1..(k + 1) OBVIOUS
  <2>3. S \in SUBSET (1..n) /\ S # {} /\ k + 1 \in S
    <3>1. \A i \in S : i \in 1..n BY <2>2
    <3>2. k + 1 \in S BY <2>2
    <3>3. S \subseteq 1..n BY <3>1, Zenon
    <3> QED BY <3>2, <3>3
  <2>4. Max(S) = k + 1
    <3>1. Max(S) \in S /\ \A i \in S : i <= Max(S) BY <2>3, LastPlace
    <3> QED BY <2>2, <2>3, <3>1
  <2>5. S \ {Max(S)} = 1..k BY <2>2, <2>4
  <2>6. it[S] = Grow(it[1..k], s[k + 1]) BY <2>3, <2>4, <2>5 DEF FoldedRows
  <2>7. s[k + 1] \in R OBVIOUS
  <2>8. /\ it[S] \in Groups(R)
        /\ AllWeight(it[S], w) = AllWeight(it[1..k], w) + w[s[k + 1]]
    BY <2>1, <2>6, <2>7, GrowAdds
  <2>9. PICK u, v : u = Part(k) /\ v = Part(k + 1) OBVIOUS
  <2>10. u \in Seq(R) BY <2>9
  <2>11. v = Append(u, s[k + 1]) BY <2>9
  <2>12. Weight(v, w) = Weight(u, w) + w[s[k + 1]] BY <2>7, <2>10, <2>11, WeightAppend
  <2> QED BY <2>1, <2>2, <2>8, <2>9, <2>12
<1> HIDE DEF T
<1>3. n \in T BY <1>1, <1>2, NatSetInduction
<1>4. Part(n) = s OBVIOUS
<1> QED BY <1>3, <1>4 DEF T

(* The lists of all the rows are such a fold. *)
LEMMA SessionsFold ==
    ASSUME NEW R, NEW n, NEW s, RowList(s, n, R)
    PROVE  \E it : FoldedRows(it, s, n) /\ FoldLeft(Grow, <<>>, s) = it[1..n]
<1> USE DEF RowList
<1>1. PICK w : w = [r \in R |-> 0] OBVIOUS
<1>2. w \in [R -> Int] BY <1>1
<1> DEFINE E(it) == it = [S \in SUBSET (1..n) |-> IF S = {} THEN <<>>
                            ELSE Grow(it[S \ {Max(S)}], s[Max(S)])]
<1>3. \E it : E(it)
  <2>1. PICK Acc : Acc = Groups(R) OBVIOUS
  <2>2. \A a \in Acc, r \in R : Grow(a, r) \in Acc BY <1>2, <2>1, GrowAdds
  <2>3. PICK step : step = [x \in Acc \X R |-> Grow(x[1], x[2])] OBVIOUS
  <2>4. step \in [Acc \X R -> Acc] BY <2>2, <2>3
  <2>5. <<>> \in Acc BY <2>1 DEF Groups
  <2>6. CanFold(n, Acc, <<>>, R, s, step) BY <2>4, <2>5 DEF CanFold
  <2>7. PICK it : FoldOf(it, n, Acc, <<>>, s, step) BY <2>6, FoldExists
  <2>8. ASSUME NEW S \in SUBSET (1..n), S # {}
        PROVE  it[S] = Grow(it[S \ {Max(S)}], s[Max(S)])
    <3>1. S \ {Max(S)} \in SUBSET (1..n) /\ Max(S) \in 1..n BY <2>8, OneFewer
    <3>2. it[S \ {Max(S)}] \in Acc /\ s[Max(S)] \in R BY <2>7, <3>1 DEF FoldOf
    <3>3. it[S] = step[<<it[S \ {Max(S)}], s[Max(S)]>>] BY <2>7, <2>8 DEF FoldOf
    <3> QED BY <2>3, <3>2, <3>3
  <2> QED BY <2>7, <2>8 DEF FoldOf
<1>4. PICK f : f = (CHOOSE it : E(it)) OBVIOUS
<1>5. E(f) BY <1>3, <1>4
<1>6. DOMAIN s = 1..n OBVIOUS
<1>7. FoldLeft(Grow, <<>>, s) = f[DOMAIN s] BY <1>4, <1>6 DEF FoldLeft, MapThenFoldSet
<1> QED BY <1>5, <1>6, <1>7 DEF FoldedRows

\* A record shorter than a minute counts as one.
AtLeastOnes(R) == [r \in R |-> AtLeastOne(ActivityDuration(r))]
Ones(R) == [r \in R |-> 1]

(* Sessions tell all the rows, and no fewer minutes. *)
LEMMA SessionsTellAll ==
    ASSUME NEW R \in SUBSET RecordPool, IsFiniteSet(R), NEW a, a = ActivitySessions(R),
           ~(Cardinality(DOMAIN a) >= SessionLimit)
    PROVE  /\ SumCounts(a) = Cardinality(R)
           /\ SumMinutes(a) \in Int /\ SumMinutes(a) >= Minutes(R)
<1>1. PICK s, n : s = ByStart(R) /\ n = Cardinality(R) OBVIOUS
<1>2. n \in Nat /\ s \in [1..n -> R] /\ (\A i, j \in 1..n : i # j => s[i] # s[j])
      /\ \A x \in R : \E i \in 1..n : s[i] = x
  BY <1>1, ByStartIsList, ListsAreWhole
<1>0. RowList(s, n, R) /\ Places(s, 1..n, R)
  <2>1. IsFiniteSet(1..n) BY <1>2, FS_Interval
  <2> QED BY <1>2, <2>1 DEF RowList, Places
<1>3. PICK it : FoldedRows(it, s, n) /\ FoldLeft(Grow, <<>>, s) = it[1..n]
  BY <1>0, SessionsFold
<1>4. PICK G : G = it[1..n] OBVIOUS
<1>5. PICK one, least, d : one = Ones(R) /\ least = AtLeastOnes(R) /\ d = Durations(R) OBVIOUS
<1>6. /\ one \in [R -> Int] /\ least \in [R -> Int] /\ d \in [R -> Int]
      /\ \A r \in R : d[r] <= least[r]
  <2>1. \A r \in R : ActivityDuration(r) \in Nat BY DurationIsInt
  <2> QED BY <1>5, <2>1 DEF Ones, AtLeastOnes, Durations, AtLeastOne
<1>7. G \in Groups(R) /\ AllWeight(G, one) = Weight(s, one)
  BY <1>0, <1>3, <1>4, <1>6, GroupsWeighAll
<1>8. AllWeight(G, least) = Weight(s, least) BY <1>0, <1>3, <1>4, <1>6, GroupsWeighAll
<1>10. Weight(s, one) = SumOver(one)
  <2>1. SumOver(Through(s, 1..n, one)) = SumOver(one) BY <1>0, <1>6, SumInOrder
  <2> QED BY <1>2, <2>1 DEF Weight, Through
<1>11. Weight(s, least) = SumOver(least)
  <2>1. SumOver(Through(s, 1..n, least)) = SumOver(least) BY <1>0, <1>6, SumInOrder
  <2> QED BY <1>2, <2>1 DEF Weight, Through
<1>12. SumOver(one) = Cardinality(R) BY <1>5, SumOfOnes DEF Ones
<1>13. SumOver(d) <= SumOver(least) BY <1>6, SumMonotone
<1>14. SumOver(d) = Minutes(R) BY <1>5 DEF Durations, Minutes
<1>15. PICK b : b = [i \in DOMAIN G |-> Session(G[i])] OBVIOUS
<1>16. PICK k \in Nat : DOMAIN G = 1..k /\ \A i \in 1..k : G[i] \in Seq(R)
  BY <1>7 DEF Groups
<1>17. a = Newest(b, SessionLimit)
  BY <1>1, <1>3, <1>4, <1>15 DEF ActivitySessions
<1>18. a = b
  <2>1. b = [i \in 1..k |-> Session(G[i])] BY <1>15, <1>16
  <2>2. DOMAIN b = 1..k /\ Len(b) = k BY <2>1
  <2>3. SessionLimit \in Nat \ {0} BY AnalyticsBounds
  <2>4. CASE Len(b) > SessionLimit
    <3>1. a = SubSeq(b, k - SessionLimit + 1, k) BY <1>17, <2>2, <2>4 DEF Newest
    <3>2. DOMAIN a = 1..(k - (k - SessionLimit + 1) + 1) BY <2>2, <2>3, <2>4, <3>1
    <3>3. k - (k - SessionLimit + 1) + 1 = SessionLimit BY <2>3
    <3>4. Cardinality(DOMAIN a) = SessionLimit BY <2>3, <3>2, <3>3, FS_Interval
    <3> QED BY <2>3, <3>4
  <2>5. CASE ~(Len(b) > SessionLimit) BY <1>17, <2>5 DEF Newest
  <2> QED BY <2>4, <2>5
<1>19. ASSUME NEW i \in 1..k
       PROVE  b[i].count = Weight(G[i], one) /\ b[i].minutes = Weight(G[i], least)
  <2>1. PICK g : g = G[i] OBVIOUS
  <2>2. g \in Seq(R) BY <1>16, <2>1
  <2>3. PICK m \in Nat : DOMAIN g = 1..m /\ Len(g) = m /\ \A j \in 1..m : g[j] \in R BY <2>2
  <2>4. b[i] = Session(g) BY <1>15, <1>16, <2>1
  <2>5. b[i].count = m BY <2>3, <2>4 DEF Session
  <2>6. b[i].minutes = SumOver([j \in DOMAIN g |-> AtLeastOne(ActivityDuration(g[j]))])
    BY <2>4 DEF Session
  <2>7. [j \in DOMAIN g |-> one[g[j]]] = [j \in 1..m |-> 1] BY <1>5, <2>3 DEF Ones
  <2>8. [j \in DOMAIN g |-> least[g[j]]] = [j \in DOMAIN g |-> AtLeastOne(ActivityDuration(g[j]))]
    BY <1>5, <2>3 DEF AtLeastOnes
  <2>9. SumOver([j \in 1..m |-> 1]) = m
    <3>1. IsFiniteSet(1..m) /\ Cardinality(1..m) = m BY FS_Interval
    <3> QED BY <3>1, SumOfOnes
  <2> QED BY <2>1, <2>5, <2>6, <2>7, <2>8, <2>9 DEF Weight
<1>20. SumCounts(b) = AllWeight(G, one)
  <2>1. [i \in DOMAIN b |-> b[i].count] = [i \in DOMAIN G |-> Weight(G[i], one)]
    BY <1>15, <1>16, <1>19
  <2> QED BY <2>1 DEF SumCounts, AllWeight
<1>21. SumMinutes(b) = AllWeight(G, least)
  <2>1. [i \in DOMAIN b |-> b[i].minutes] = [i \in DOMAIN G |-> Weight(G[i], least)]
    BY <1>15, <1>16, <1>19
  <2> QED BY <2>1 DEF SumMinutes, AllWeight
<1>22. SumOver(least) \in Int /\ SumOver(d) \in Int BY <1>6, SumIsInt
<1> QED BY <1>7, <1>8, <1>10, <1>11, <1>12, <1>13, <1>14, <1>18, <1>20, <1>21, <1>22

(* What is divided by a positive number is within its multiple. *)
LEMMA Quotient ==
    ASSUME NEW a \in Int, NEW d \in Int, d > 0
    PROVE  /\ a \div d \in Int /\ a % d \in Int
           /\ a = d * (a \div d) + (a % d) /\ 0 <= a % d /\ a % d < d
<1>1. a \div d \in Int /\ a % d \in Int OBVIOUS
<1>2. a = d * (a \div d) + (a % d) OBVIOUS
<1>3. a % d \in 0..(d - 1) OBVIOUS
<1>4. 0 <= a % d /\ a % d < d BY <1>1, <1>3
<1> QED BY <1>1, <1>2, <1>4

(* Multiples of different numbers lie apart. *)
LEMMA Multiples ==
    ASSUME NEW d \in Nat \ {0}, NEW p \in Int, NEW q \in Int, p < q
    PROVE  d * p + d <= d * q
<1>1. PICK e \in Nat : q = p + 1 + e
  <2>1. q - p - 1 \in Nat /\ q = p + 1 + (q - p - 1) OBVIOUS
  <2> QED BY <2>1
<1>2. d * q = d * p + d + d * e BY <1>1
<1>3. d * e >= 0 BY <1>1
<1>4. d * p \in Int /\ d * q \in Int /\ d * e \in Int OBVIOUS
<1> QED BY <1>2, <1>3, <1>4

(* A division by a positive number. *)
LEMMA DividedBy ==
    ASSUME NEW a \in Int, NEW d \in Nat \ {0}, NEW b \in Int, b % d = 0
    PROVE  a \div d = b \div d <=> (b <= a /\ a < b + d)
<1>1. PICK p, q, m, dp, dq : /\ p = a \div d /\ q = b \div d /\ m = a % d
                             /\ dp = d * p /\ dq = d * q
  OBVIOUS
<1>2. p \in Int /\ q \in Int /\ m \in Int BY <1>1, Quotient
<1>3. dp \in Int /\ dq \in Int BY <1>1, <1>2
<1>4. a = dp + m /\ 0 <= m /\ m < d
  <2>1. a = d * (a \div d) + (a % d) /\ 0 <= a % d /\ a % d < d BY Quotient
  <2> QED BY <1>1, <2>1
<1>5. b = dq
  <2>1. b = d * (b \div d) + (b % d) BY Quotient
  <2>2. b = dq + 0 BY <1>1, <2>1
  <2> QED BY <1>3, <2>2
<1>6. p = q => dp = dq BY <1>1
<1>7. p < q => dp + d <= dq BY <1>1, <1>2, Multiples
<1>8. q < p => dq + d <= dp BY <1>1, <1>2, Multiples
<1>9. p = q <=> (b <= a /\ a < b + d) BY <1>2, <1>3, <1>4, <1>5, <1>6, <1>7, <1>8
<1> QED BY <1>1, <1>9

\* What the heatmap's bucket of the day says.
DayBucket(a) ==
    LET day == DayRange.start \div DayLength
    IN  [count |-> IF day \in DOMAIN a THEN a[day].count ELSE 0,
         minutes |-> IF day \in DOMAIN a THEN a[day].minutes ELSE 0, cut |-> FALSE]

(* The rows of the day's bucket are those of the day. *)
LEMMA HeatmapTellsDay ==
    ASSUME DayIsWhole, NEW records \in SUBSET RecordPool, IsFiniteSet(records), NEW a,
           a = ActivityHeatmap(ActivitySource(records, [DayRange EXCEPT !.start = 0])),
           NEW R, R = ActivitySource(records, DayRange)
    PROVE  DayBucket(a).count = Cardinality(R) /\ DayBucket(a).minutes = Minutes(R)
<1>1. PICK from, end, d : from = DayRange.start /\ end = DayRange.end /\ d = DayLength OBVIOUS
<1>2. from \in Nat /\ end = from + d /\ d \in Nat \ {0} /\ from % d = 0
  BY <1>1, AnalyticsBounds DEF DayIsWhole
<1>3. PICK rows, day : /\ rows = ActivitySource(records, [DayRange EXCEPT !.start = 0])
                       /\ day = from \div d
  OBVIOUS
<1>4. rows = {r \in records : 0 <= ActivityStartAt(r) /\ ActivityStartAt(r) < end}
  <2>1. [DayRange EXCEPT !.start = 0] = [start |-> 0, end |-> end] BY <1>1, RowsHaveTypes
  <2> QED BY <1>3, <2>1 DEF ActivitySource
<1>5. R = {r \in records : from <= ActivityStartAt(r) /\ ActivityStartAt(r) < end}
  BY <1>1 DEF ActivitySource
<1>6. \A r \in records : ActivityStartAt(r) \in Int BY DurationIsInt
<1>7. ASSUME NEW r \in records
      PROVE  r \in R <=> (r \in rows /\ ActivityStartAt(r) \div d = day)
  <2>1. PICK at : at = ActivityStartAt(r) OBVIOUS
  <2>2. at \in Int BY <1>6, <2>1
  <2>3. at \div d = from \div d <=> (from <= at /\ at < from + d) BY <1>2, <2>2, DividedBy
  <2> QED BY <1>2, <1>3, <1>4, <1>5, <2>1, <2>2, <2>3
<1>8. PICK label : label = [r \in rows |-> ActivityStartAt(r) \div d] OBVIOUS
<1>9. a = Grouped(rows, label) BY <1>1, <1>3, <1>8 DEF ActivityHeatmap
<1>10. R = {r \in rows : label[r] = day}
  <2>1. \A r \in R : r \in records BY <1>5
  <2>2. \A r \in rows : r \in records BY <1>4
  <2> QED BY <1>7, <1>8, <2>1, <2>2
<1>11. DOMAIN a = {label[r] : r \in rows} BY <1>9 DEF Grouped
<1>12. CASE day \in DOMAIN a
  <2>1. a[day] = ActivityTotals(R) BY <1>9, <1>10, <1>11, <1>12 DEF Grouped
  <2> QED BY <1>1, <1>3, <1>12, <2>1 DEF DayBucket, ActivityTotals
<1>13. CASE day \notin DOMAIN a
  <2>1. R = {} BY <1>10, <1>11, <1>13
  <2>2. Cardinality(R) = 0 BY <2>1, FS_EmptySet
  <2>3. Minutes(R) = 0
    <3>1. PICK f : f = Durations(R) OBVIOUS
    <3>2. f \in [R -> Int] BY <2>1, <3>1 DEF Durations
    <3>3. IsFiniteSet(R) BY <2>1, FS_EmptySet
    <3>4. SumOver(f) = 0 BY <2>1, <3>2, <3>3, SumIsInt
    <3> QED BY <3>1, <3>4 DEF Durations, Minutes
  <2> QED BY <1>1, <1>3, <1>13, <2>2, <2>3 DEF DayBucket
<1> QED BY <1>12, <1>13

(* A list of groups that the limit did not cut tells all of them. *)
LEMMA TopTellsAll ==
    ASSUME NEW R \in SUBSET RecordPool, IsFiniteSet(R), NEW label, DOMAIN label = R,
           NEW n \in Nat, NEW a, a = Top(Grouped(R, label), n), ~(Cardinality(DOMAIN a) >= n)
    PROVE  /\ SumCounts(a) = Cardinality(R)
           /\ SumMinutes(a) = Minutes(R)
<1>1. PICK G : G = Grouped(R, label) OBVIOUS
<1>2. AreGroups(G) /\ SumCounts(G) = Cardinality(R) /\ SumMinutes(G) = Minutes(R)
  BY <1>1, GroupedTellsAll
<1>3. PICK T \in SUBSET DOMAIN G : a = On(G, T) /\ (Cardinality(T) < n => T = DOMAIN G)
  BY <1>1, <1>2, TopIsPart
<1>4. DOMAIN a = T /\ Cardinality(T) \in Nat
  <2>1. IsFiniteSet(T) BY <1>2, FS_Subset DEF AreGroups
  <2> QED BY <1>3, <2>1, FS_CardinalityType DEF On
<1>5. T = DOMAIN G BY <1>3, <1>4
<1>6. a = G
  <2>1. G = [l \in DOMAIN G |-> G[l]] BY <1>1 DEF Grouped
  <2> QED BY <1>3, <1>5, <2>1 DEF On
<1> QED BY <1>2, <1>6

(* A query that has just run tells of the rows of the day as they are. *)
LEMMA QueryTells ==
    ASSUME DayIsWhole, NEW records \in SUBSET RecordPool, IsFiniteSet(records), NEW inputs,
           NEW query \in Compared, NEW a, a = QueryAnswer(query, records, inputs),
           NEW told, told = Told(query, a), ~told.cut,
           NEW now, now = ActivityTotals(ActivitySource(records, DayRange))
    PROVE  /\ now.count \in Nat /\ now.minutes \in Int /\ told.minutes \in Int
           /\ told.count = now.count
           /\ IF query = "sessions" THEN told.minutes >= now.minutes
              ELSE told.minutes = now.minutes
<1>1. PICK R : R = ActivitySource(records, DayRange) OBVIOUS
<1>2. R \in SUBSET RecordPool /\ IsFiniteSet(R)
  <2>1. R \subseteq records BY <1>1 DEF ActivitySource
  <2> QED BY <2>1, FS_Subset
<1>3. now.count = Cardinality(R) /\ now.minutes = Minutes(R) BY <1>1 DEF ActivityTotals
<1>4. PICK label : label = [r \in R |-> App(r)] OBVIOUS
<1>5. Minutes(R) \in Int /\ Cardinality(R) \in Nat BY <1>2, <1>4, GroupedTellsAll
<1>6. SliceLimit \in Nat /\ SessionLimit \in Nat BY AnalyticsBounds
<1>7. CASE query = "totals"
  <2>1. a = ActivityTotals(R) BY <1>1, <1>7 DEF QueryAnswer
  <2>2. told = [count |-> a.count, minutes |-> a.minutes, cut |-> FALSE] BY <1>7 DEF Told
  <2> QED BY <1>3, <1>5, <1>7, <2>1, <2>2 DEF ActivityTotals
<1>8. CASE query \in {"processes", "categories", "topApps", "topCategories"}
  <2>1. PICK field : /\ field = [r \in R |-> IF query \in {"processes", "topApps"}
                                             THEN App(r) ELSE Category(r)]
    OBVIOUS
  <2>2. a = Top(Grouped(R, field), SliceLimit)
    BY <1>1, <1>8, <2>1 DEF QueryAnswer, ActivitySlices, TopApps, TopCategories
  <2>3. told = [count |-> SumCounts(a), minutes |-> SumMinutes(a),
                cut |-> Cardinality(DOMAIN a) >= SliceLimit]
    BY <1>8 DEF Told
  <2>4. DOMAIN field = R BY <2>1
  <2>5. ~(Cardinality(DOMAIN a) >= SliceLimit)
    <3>1. PICK cut : cut = (Cardinality(DOMAIN a) >= SliceLimit) OBVIOUS
    <3>2. told = [count |-> SumCounts(a), minutes |-> SumMinutes(a), cut |-> cut]
      BY <2>3, <3>1, Zenon
    <3>3. told.cut = cut BY <3>2
    <3> QED BY <3>1, <3>3, Zenon
  <2>6. SumCounts(a) = Cardinality(R) /\ SumMinutes(a) = Minutes(R)
    BY <1>2, <1>6, <2>2, <2>4, <2>5, TopTellsAll
  <2> QED BY <1>3, <1>5, <1>8, <2>3, <2>6
<1>9. CASE query = "heatmap"
  <2>1. a = ActivityHeatmap(ActivitySource(records, [DayRange EXCEPT !.start = 0]))
    BY <1>9 DEF QueryAnswer
  <2>2. told = DayBucket(a) BY <1>9 DEF Told, DayBucket
  <2>3. DayBucket(a).count = Cardinality(R) /\ DayBucket(a).minutes = Minutes(R)
    BY <1>1, <2>1, HeatmapTellsDay
  <2> QED BY <1>3, <1>5, <1>9, <2>2, <2>3
<1>10. CASE query = "sessions"
  <2>1. a = ActivitySessions(R) BY <1>1, <1>10 DEF QueryAnswer
  <2>2. told = [count |-> SumCounts(a), minutes |-> SumMinutes(a),
                cut |-> Cardinality(DOMAIN a) >= SessionLimit]
    BY <1>10 DEF Told
  <2>3. ~(Cardinality(DOMAIN a) >= SessionLimit)
    <3>1. PICK cut : cut = (Cardinality(DOMAIN a) >= SessionLimit) OBVIOUS
    <3>2. told = [count |-> SumCounts(a), minutes |-> SumMinutes(a), cut |-> cut]
      BY <2>2, <3>1, Zenon
    <3>3. told.cut = cut BY <3>2
    <3> QED BY <3>1, <3>3, Zenon
  <2>4. /\ SumCounts(a) = Cardinality(R) /\ SumMinutes(a) \in Int
        /\ SumMinutes(a) >= Minutes(R)
    BY <1>2, <2>1, <2>3, SessionsTellAll
  <2> QED BY <1>3, <1>5, <1>10, <2>2, <2>4
<1> QED BY <1>7, <1>8, <1>9, <1>10 DEF Compared

(* What was pressed is told whole by any grouping. *)
LEMMA PressedTellsAll ==
    ASSUME CountsAreNatural, NEW E \in SUBSET InputPool, IsFiniteSet(E),
           NEW label, DOMAIN label = E, NEW G, G = Pressed(E, label)
    PROVE  /\ AreGroups(G) /\ SumCounts(G) = Events(E)
           /\ \A l \in DOMAIN G : G[l].count \in Nat
<1>1. PICK e, worth : e = [r \in E |-> EventCount(r)] /\ worth = [r \in E |-> Intensity(r)] OBVIOUS
<1>2. e \in [E -> Int] BY <1>1 DEF CountsAreNatural
<1>3. worth \in [E -> Int]
  <2>1. ASSUME NEW r \in E PROVE Intensity(r) \in Int
    <3>1. EventCount(r) \in Int BY DEF CountsAreNatural
    <3>2. PICK far : far = Read(r, "distance", 0) OBVIOUS
    <3>3. far \in Int BY <3>2, RowsHaveTypes DEF Read, Has
    <3>4. far \div 200 \in Int BY <3>3
    <3> QED BY <3>1, <3>2, <3>4 DEF Intensity
  <2> QED BY <1>1, <2>1
<1>4. DOMAIN G = Labels(label) BY DEF Pressed, Labels
<1>5. PICK c : c = [l \in Labels(label) |-> SumOver(On(e, Labelled(label, l)))] OBVIOUS
<1>6. ASSUME NEW l \in Labels(label)
      PROVE  G[l].count = c[l] /\ G[l].minutes \in Int /\ c[l] \in Nat
  <2>1. PICK A : A = Labelled(label, l) OBVIOUS
  <2>2. A \in SUBSET E /\ IsFiniteSet(A) BY <2>1, FS_Subset DEF Labelled
  <2>3. G[l].count = Events(A) /\ G[l].minutes = SumOver([r \in A |-> Intensity(r)])
    BY <2>1 DEF Pressed, Labels, Labelled
  <2>4. On(e, A) = [r \in A |-> EventCount(r)] /\ On(worth, A) = [r \in A |-> Intensity(r)]
    BY <1>1, <2>2 DEF On
  <2>5. PICK none, u, v : /\ u = On(e, A) /\ v = On(worth, A) /\ none = [r \in A |-> 0] OBVIOUS
  <2>6. u \in [A -> Int] /\ v \in [A -> Int] /\ none \in [A -> Int]
    BY <1>2, <1>3, <2>2, <2>5 DEF On
  <2>7. SumOver(u) \in Int /\ SumOver(v) \in Int BY <2>2, <2>6, SumIsInt
  <2>8. SumOver(u) >= 0
    <3>1. u \in [A -> Nat] BY <1>1, <2>2, <2>5 DEF On, CountsAreNatural
    <3>2. PICK z, F : F = {} /\ z = On(u, F) OBVIOUS
    <3>3. F \in SUBSET A /\ IsFiniteSet(F) /\ z \in [F -> Int]
      BY <3>2, FS_EmptySet DEF On
    <3>4. SumOver(z) = 0 BY <3>2, <3>3, SumIsInt
    <3>5. SumOver(On(u, F)) <= SumOver(u) BY <2>2, <3>1, <3>3, SumOfPartIsLess
    <3> QED BY <2>7, <3>2, <3>4, <3>5
  <2>9. c[l] = SumOver(u) BY <1>5, <2>1, <2>5
  <2> QED BY <2>3, <2>4, <2>5, <2>7, <2>8, <2>9 DEF Events
<1>7. IsFiniteSet(Labels(label)) /\ SumOver(c) = SumOver(e) BY <1>2, <1>5, SumOfGroups
<1>8. SumOver(e) = Events(E) BY <1>1 DEF Events
<1>9. SumCounts(G) = SumOver(c)
  <2>1. [l \in DOMAIN G |-> G[l].count] = c BY <1>4, <1>5, <1>6
  <2> QED BY <2>1 DEF SumCounts
<1> QED BY <1>4, <1>6, <1>7, <1>8, <1>9 DEF AreGroups

(* The apps tell no more events than the hours. *)
LEMMA AppsWithinHours ==
    ASSUME CountsAreNatural, NEW E \in SUBSET InputPool, IsFiniteSet(E),
           NEW input, input = InputHeatmap(E)
    PROVE  SumCounts(input.processes) <= SumCounts(input.buckets)
<1>1. PICK app, hour : app = [r \in E |-> App(r)] /\ hour = [r \in E |-> InputAt(r) \div HourLength]
  OBVIOUS
<1>2. PICK P, B : P = Pressed(E, app) /\ B = Pressed(E, hour) OBVIOUS
<1>3. input.processes = Top(P, ProcessLimit) /\ input.buckets = B
  BY <1>1, <1>2 DEF InputHeatmap
<1>4. AreGroups(P) /\ SumCounts(P) = Events(E) /\ \A l \in DOMAIN P : P[l].count \in Nat
  BY <1>1, <1>2, PressedTellsAll
<1>5. SumCounts(B) = Events(E) BY <1>1, <1>2, PressedTellsAll
<1>6. ProcessLimit \in Nat BY AnalyticsBounds
<1>7. PICK T \in SUBSET DOMAIN P : Top(P, ProcessLimit) = On(P, T) BY <1>4, <1>6, TopIsPart
<1>8. PICK c : c = [l \in DOMAIN P |-> P[l].count] OBVIOUS
<1>9. c \in [DOMAIN P -> Nat] /\ IsFiniteSet(DOMAIN P) BY <1>4, <1>8 DEF AreGroups
<1>10. SumOver(On(c, T)) <= SumOver(c) BY <1>9, SumOfPartIsLess
<1>11. SumCounts(On(P, T)) = SumOver(On(c, T))
  <2>1. [l \in DOMAIN On(P, T) |-> On(P, T)[l].count] = On(c, T) BY <1>8 DEF On
  <2> QED BY <2>1 DEF SumCounts
<1>12. SumCounts(P) = SumOver(c) BY <1>8 DEF SumCounts
<1> QED BY <1>3, <1>4, <1>5, <1>7, <1>10, <1>11, <1>12

-----------------------------------------------------------------------------
(* Analytics: the parts of a page                                          *)

(* Sets that differ by an element each way differ by no more in number. *)
LEMMA CountMoves ==
    ASSUME NEW A, NEW B, IsFiniteSet(A), IsFiniteSet(B), NEW x, NEW y,
           A \ B \subseteq {x}, B \ A \subseteq {y}
    PROVE  Cardinality(B) - Cardinality(A) \in (-1)..1
<1>1. PICK C : C = A \cap B OBVIOUS
<1>2. IsFiniteSet(C) BY <1>1, FS_Subset
<1>3. /\ Cardinality(A) \in Nat /\ Cardinality(B) \in Nat /\ Cardinality(C) \in Nat
  BY <1>2, FS_CardinalityType
<1>4. Cardinality(A) - Cardinality(C) \in 0..1
  <2>1. CASE A = C BY <1>3, <2>1
  <2>2. CASE A # C
    <3>1. A = C \cup {x} /\ x \notin C BY <1>1, <2>2
    <3>2. Cardinality(C \cup {x}) = Cardinality(C) + 1 BY <1>2, <3>1, FS_AddElement
    <3> QED BY <1>3, <3>1, <3>2
  <2> QED BY <2>1, <2>2
<1>5. Cardinality(B) - Cardinality(C) \in 0..1
  <2>1. CASE B = C BY <1>3, <2>1
  <2>2. CASE B # C
    <3>1. B = C \cup {y} /\ y \notin C BY <1>1, <2>2
    <3>2. Cardinality(C \cup {y}) = Cardinality(C) + 1 BY <1>2, <3>1, FS_AddElement
    <3> QED BY <1>3, <3>1, <3>2
  <2> QED BY <2>1, <2>2
<1> QED BY <1>3, <1>4, <1>5

\* The rows of the day.
DayRows(records) == ActivitySource(records, DayRange)

(* A row written or deleted is noted, and changes the rows of the day by one at
   the most: what every part tells stays near. *)
LEMMA WriteKeepsView ==
    ASSUME ViewInv, view' = Noted, NEW x, NEW y,
           tracked \ tracked' \subseteq {x}, tracked' \ tracked \subseteq {y},
           IsFiniteSet(tracked'), tracked' \in SUBSET RecordPool,
           \A r, s \in tracked' : r.id = s.id => r = s,
           typed' \in SUBSET InputPool, IsFiniteSet(typed')
    PROVE  ViewInv'
<1>1. PICK asked, parts, changes : asked = view.asked /\ parts = view.parts /\ changes = view.changes
  OBVIOUS
<1>2. view = [asked |-> asked, parts |-> parts, changes |-> changes] BY <1>1 DEF ViewInv
<1>3. PICK more : more = IF asked = {} THEN 0 ELSE changes + 1 OBVIOUS
<1>4. view' = [asked |-> asked, parts |-> parts, changes |-> more] BY <1>1, <1>2, <1>3 DEF Noted
<1>5. /\ changes \in Nat /\ (asked = {} => parts = <<>>) /\ DOMAIN parts \subseteq asked
  BY <1>1 DEF ViewInv
<1>6. more \in Nat /\ (asked # {} => more = changes + 1) BY <1>3, <1>5
<1>7. PICK A, B : A = DayRows(tracked) /\ B = DayRows(tracked') OBVIOUS
<1>8. /\ IsFiniteSet(A) /\ IsFiniteSet(B) /\ A \ B \subseteq {x} /\ B \ A \subseteq {y}
  <2>1. A \subseteq tracked /\ B \subseteq tracked' BY <1>7 DEF DayRows, ActivitySource
  <2>2. IsFiniteSet(A) /\ IsFiniteSet(B) BY <2>1, FS_Subset DEF ViewInv
  <2>3. A \ B \subseteq tracked \ tracked' /\ B \ A \subseteq tracked' \ tracked
    BY <1>7 DEF DayRows, ActivitySource
  <2> QED BY <2>2, <2>3
<1>9. Cardinality(B) - Cardinality(A) \in (-1)..1 BY <1>8, CountMoves
<1>10. Cardinality(A) \in Nat /\ Cardinality(B) \in Nat BY <1>8, FS_CardinalityType
<1>11. ASSUME NEW query \in DOMAIN parts \cap Compared PROVE TellsNow(query, parts[query])'
  <2>1. TellsNow(query, parts[query]) BY <1>1 DEF ViewInv
  <2>2. asked # {} BY <1>5
  <2>3. PICK told : told = Told(query, parts[query]) OBVIOUS
  <2>4. /\ ActivityTotals(ActivitySource(tracked, DayRange)).count = Cardinality(A)
        /\ ActivityTotals(ActivitySource(tracked', DayRange)).count = Cardinality(B)
    BY <1>7 DEF ActivityTotals, DayRows
  <2>5. ~told.cut =>
          /\ told.count \in Int /\ told.minutes \in Int
          /\ told.count - Cardinality(A) \in (-changes)..changes
    BY <1>1, <2>1, <2>3, <2>4 DEF TellsNow
  <2>6. ~told.cut => told.count - Cardinality(B) \in (-more)..more
    BY <1>5, <1>6, <1>9, <1>10, <2>2, <2>5
  <2>7. more # 0 BY <1>5, <1>6, <2>2
  <2>8. view'.changes = more BY <1>4
  <2> QED BY <2>3, <2>4, <2>5, <2>6, <2>7, <2>8 DEF TellsNow
<1>12. PartsAgree'
  <2>1. ASSUME NEW p \in DOMAIN parts \cap Compared, NEW q \in DOMAIN parts \cap Compared,
               NEW a, a = Told(p, parts[p]), NEW b, b = Told(q, parts[q]), ~a.cut, ~b.cut
        PROVE  a.count - b.count <= more /\ more # 0
    <3>1. a.count - b.count <= changes BY <1>1, <2>1 DEF ViewInv, PartsAgree
    <3>2. a.count \in Int /\ b.count \in Int BY <1>1, <2>1 DEF ViewInv, TellsNow
    <3>3. asked # {} BY <1>5
    <3> QED BY <1>5, <1>6, <3>1, <3>2, <3>3
  <2>2. "input" \in DOMAIN parts =>
          SumCounts(parts["input"].processes) <= SumCounts(parts["input"].buckets)
    BY <1>1 DEF ViewInv, PartsAgree
  <2>3. view'.parts = parts /\ view'.changes = more BY <1>4
  <2> QED BY <2>1, <2>2, <2>3 DEF PartsAgree
<1>13. \A query \in DOMAIN view'.parts \cap Compared : TellsNow(query, view.parts[query])'
  BY <1>4, <1>11
<1> QED BY <1>4, <1>5, <1>6, <1>12, <1>13 DEF ViewInv

(* A row of one id takes the place of the one there is. *)
LEMMA ReplacedRows ==
    ASSUME NEW rows, NEW pool, rows \in SUBSET pool, IsFiniteSet(rows), NEW r \in pool,
           NEW more, more = Replaced(rows, r)
    PROVE  /\ more \in SUBSET pool /\ IsFiniteSet(more) /\ more \ rows \subseteq {r}
           /\ (\A s, t \in rows : s.id = t.id => s = t) =>
                /\ \A s, t \in more : s.id = t.id => s = t
                /\ \E x : rows \ more \subseteq {x}
<1>1. PICK kept : kept = {s \in rows : s.id # r.id} OBVIOUS
<1>2. more = kept \cup {r} /\ kept \subseteq rows BY <1>1 DEF Replaced
<1>3. IsFiniteSet(kept) BY <1>2, FS_Subset
<1>4. IsFiniteSet(more) BY <1>2, <1>3, FS_AddElement
<1>5. ASSUME \A s, t \in rows : s.id = t.id => s = t PROVE \E x : rows \ more \subseteq {x}
  <2>1. CASE \E x \in rows : x.id = r.id
    <3>1. PICK x \in rows : x.id = r.id BY <2>1
    <3>2. rows \ more \subseteq {x} BY <1>1, <1>2, <1>5, <3>1
    <3> QED BY <3>2
  <2>2. CASE ~\E x \in rows : x.id = r.id
    <3>1. rows \ more \subseteq {r} BY <1>1, <1>2, <2>2
    <3> QED BY <3>1
  <2> QED BY <2>1, <2>2
<1>6. ASSUME \A s, t \in rows : s.id = t.id => s = t
      PROVE  \A s, t \in more : s.id = t.id => s = t
  BY <1>1, <1>2, <1>6
<1> QED BY <1>2, <1>4, <1>5, <1>6

(* A query that takes its snapshot tells what there is. *)
LEMMA RunQueryInv ==
    ASSUME DayIsWhole, CountsAreNatural, ViewInv, RunQuery
    PROVE  ViewInv'
<1>1. PICK asked, parts, changes : asked = view.asked /\ parts = view.parts /\ changes = view.changes
  OBVIOUS
<1>2. view = [asked |-> asked, parts |-> parts, changes |-> changes] BY <1>1 DEF ViewInv
<1>3. UNCHANGED <<tracked, typed>> BY DEF RunQuery
<1>4. PICK query \in view.asked \ DOMAIN view.parts :
        view' = [view EXCEPT !.parts =
                  [q \in DOMAIN view.parts \cup {query} |->
                     IF q = query THEN QueryAnswer(q, tracked, typed) ELSE view.parts[q]]]
  BY Zenon DEF RunQuery
<1>5. PICK answer : answer = QueryAnswer(query, tracked, typed) OBVIOUS
<1>6. PICK more : more = [q \in DOMAIN view.parts \cup {query} |->
                            IF q = query THEN QueryAnswer(q, tracked, typed) ELSE view.parts[q]]
  OBVIOUS
<1>7. view' = [asked |-> asked, parts |-> more, changes |-> changes]
  <2>1. view' = [view EXCEPT !.parts = more] BY <1>4, <1>6, Zenon
  <2> QED BY <1>2, <2>1
<1>8. /\ changes \in Nat /\ DOMAIN parts \subseteq asked
      /\ tracked \in SUBSET RecordPool /\ IsFiniteSet(tracked)
      /\ typed \in SUBSET InputPool /\ IsFiniteSet(typed)
  BY <1>1 DEF ViewInv
<1>9. /\ DOMAIN more = DOMAIN parts \cup {query} /\ more[query] = answer
      /\ \A q \in DOMAIN parts : more[q] = parts[q]
  BY <1>1, <1>4, <1>5, <1>6
<1>10. PICK now : now = ActivityTotals(ActivitySource(tracked, DayRange)) OBVIOUS
<1>11. ASSUME NEW told, told = Told(query, answer), query \in Compared, ~told.cut
       PROVE  /\ now.count \in Nat /\ now.minutes \in Int /\ told.minutes \in Int
              /\ told.count = now.count
              /\ IF query = "sessions" THEN told.minutes >= now.minutes
                 ELSE told.minutes = now.minutes
  BY <1>5, <1>8, <1>10, <1>11, QueryTells
<1>12. ASSUME NEW q \in DOMAIN parts \cap Compared, NEW told, told = Told(q, more[q]), ~told.cut
       PROVE  /\ told.count \in Int /\ told.minutes \in Int
              /\ told.count - now.count \in (-changes)..changes
              /\ changes = 0 => IF q = "sessions" THEN told.minutes >= now.minutes
                                ELSE told.minutes = now.minutes
  <2>1. TellsNow(q, parts[q]) BY <1>1 DEF ViewInv
  <2> QED BY <1>1, <1>9, <1>10, <1>12, <2>1 DEF TellsNow
<1>13. ASSUME NEW q \in DOMAIN more \cap Compared, NEW told, told = Told(q, more[q]), ~told.cut
       PROVE  /\ told.count \in Int /\ told.minutes \in Int
              /\ told.count - now.count \in (-changes)..changes
              /\ changes = 0 => IF q = "sessions" THEN told.minutes >= now.minutes
                                ELSE told.minutes = now.minutes
  <2>1. CASE q \in DOMAIN parts BY <1>12, <1>13, <2>1
  <2>2. CASE q = query
    <3>1. told = Told(query, answer) BY <1>9, <1>13, <2>2
    <3> QED BY <1>8, <1>11, <1>13, <2>2, <3>1
  <2> QED BY <1>9, <2>1, <2>2
<1>14. PartsAgree'
  <2>1. ASSUME NEW p \in DOMAIN more \cap Compared, NEW q \in DOMAIN more \cap Compared,
               NEW a, a = Told(p, more[p]), NEW b, b = Told(q, more[q]), ~a.cut, ~b.cut
        PROVE  /\ a.count - b.count <= changes
               /\ changes = 0 => IF p = "sessions" THEN a.minutes >= b.minutes
                                 ELSE a.minutes <= b.minutes
    <3>1. /\ a.count \in Int /\ b.count \in Int
          /\ a.count - now.count \in (-changes)..changes
          /\ b.count - now.count \in (-changes)..changes
      BY <1>13, <2>1
    <3>2. CASE p \in DOMAIN parts /\ q \in DOMAIN parts
      BY <1>1, <1>9, <2>1, <3>2 DEF ViewInv, PartsAgree
    <3>3. CASE p = query
      <4>1. a.count = now.count /\ now.count \in Nat /\ now.minutes \in Int
        BY <1>9, <1>11, <2>1, <3>3
      <4> QED BY <1>8, <1>13, <2>1, <3>1, <4>1
    <3>4. CASE q = query
      <4>1. b.count = now.count /\ now.count \in Nat /\ now.minutes \in Int
        BY <1>9, <1>11, <2>1, <3>4
      <4> QED BY <1>8, <1>13, <2>1, <3>1, <4>1
    <3> QED BY <1>9, <3>2, <3>3, <3>4
  <2>2. ASSUME "input" \in DOMAIN more
        PROVE  SumCounts(more["input"].processes) <= SumCounts(more["input"].buckets)
    <3>1. CASE query = "input"
      <4>1. PICK E : E = InputSource(typed, DayRange) OBVIOUS
      <4>2. answer = InputHeatmap(E) BY <1>5, <3>1, <4>1 DEF QueryAnswer
      <4>3. E \subseteq typed BY <4>1 DEF InputSource
      <4>4. E \in SUBSET InputPool /\ IsFiniteSet(E) BY <1>8, <4>3, FS_Subset
      <4>5. SumCounts(answer.processes) <= SumCounts(answer.buckets)
        BY <4>2, <4>4, AppsWithinHours
      <4> QED BY <1>9, <3>1, <4>5
    <3>2. CASE query # "input"
      <4>1. "input" \in DOMAIN parts /\ more["input"] = parts["input"] BY <1>9, <2>2, <3>2
      <4> QED BY <1>1, <4>1 DEF ViewInv, PartsAgree
    <3> QED BY <3>1, <3>2
  <2>3. view'.parts = more /\ view'.changes = changes BY <1>7
  <2> QED BY <2>1, <2>2, <2>3 DEF PartsAgree
<1>15. ASSUME NEW q \in DOMAIN more \cap Compared PROVE TellsNow(q, view.parts[q])'
  <2>1. view'.parts = more /\ view'.changes = changes BY <1>7
  <2>2. PICK told : told = Told(q, more[q]) OBVIOUS
  <2>3. now = ActivityTotals(ActivitySource(tracked', DayRange)) BY <1>3, <1>10
  <2> QED BY <1>13, <2>1, <2>2, <2>3 DEF TellsNow
<1>16. DOMAIN more \subseteq asked /\ asked # {} BY <1>1, <1>4, <1>8, <1>9
<1> QED BY <1>3, <1>7, <1>8, <1>14, <1>15, <1>16 DEF ViewInv

(* Every step keeps the parts telling of the same rows. *)
LEMMA AnalyticsNextInv ==
    ASSUME DayIsWhole, CountsAreNatural, ViewInv, [AnalyticsNext]_analyticsVars
    PROVE  ViewInv'
<1>1. /\ tracked \in SUBSET RecordPool /\ IsFiniteSet(tracked)
      /\ \A r, s \in tracked : r.id = s.id => r = s
      /\ typed \in SUBSET InputPool /\ IsFiniteSet(typed)
  BY DEF ViewInv
<1>2. ASSUME NEW r \in RecordPool, PutRecord(r) PROVE ViewInv'
  <2>1. tracked' = Replaced(tracked, r) /\ view' = Noted /\ typed' = typed
    BY <1>2 DEF PutRecord
  <2>2. /\ tracked' \in SUBSET RecordPool /\ IsFiniteSet(tracked')
        /\ tracked' \ tracked \subseteq {r}
        /\ \A s, t \in tracked' : s.id = t.id => s = t
        /\ \E x : tracked \ tracked' \subseteq {x}
    BY <1>1, <2>1, ReplacedRows
  <2>3. PICK x : tracked \ tracked' \subseteq {x} BY <2>2
  <2> QED BY <1>1, <2>1, <2>2, <2>3, WriteKeepsView
<1>3. ASSUME NEW r \in tracked, DeleteRecord(r) PROVE ViewInv'
  <2>1. tracked' = tracked \ {r} /\ view' = Noted /\ typed' = typed
    BY <1>3 DEF DeleteRecord
  <2>2. /\ tracked' \in SUBSET RecordPool /\ tracked' \ tracked \subseteq {r}
        /\ tracked \ tracked' \subseteq {r} /\ \A s, t \in tracked' : s.id = t.id => s = t
    BY <1>1, <2>1
  <2>3. IsFiniteSet(tracked') BY <1>1, <2>1, FS_RemoveElement
  <2> QED BY <1>1, <2>1, <2>2, <2>3, WriteKeepsView
<1>4. ASSUME NEW e \in InputPool, PutEvent(e) PROVE ViewInv'
  <2>1. typed' = Replaced(typed, e) /\ view' = Noted /\ tracked' = tracked
    BY <1>4 DEF PutEvent
  <2>2. typed' \in SUBSET InputPool /\ IsFiniteSet(typed') BY <1>1, <2>1, ReplacedRows
  <2>3. tracked' \ tracked \subseteq {e} /\ tracked \ tracked' \subseteq {e} BY <2>1
  <2> QED BY <1>1, <2>1, <2>2, <2>3, WriteKeepsView
<1>5. ASSUME OpenView PROVE ViewInv'
  <2>1. PICK asked : view' = [NoView EXCEPT !.asked = asked] BY <1>5 DEF OpenView
  <2>2. view' = [asked |-> asked, parts |-> <<>>, changes |-> 0] BY <2>1 DEF NoView
  <2>3. UNCHANGED <<tracked, typed>> BY <1>5 DEF OpenView
  <2>4. DOMAIN view'.parts = {} /\ view'.changes = 0 BY <2>2
  <2>5. PartsAgree' BY <2>4 DEF PartsAgree
  <2> QED BY <1>1, <2>2, <2>3, <2>4, <2>5 DEF ViewInv
<1>6. CASE RunQuery BY <1>6, RunQueryInv
<1>7. CASE UNCHANGED analyticsVars
  BY <1>7 DEF ViewInv, analyticsVars, PartsAgree, TellsNow
<1> QED BY <1>2, <1>3, <1>4, <1>5, <1>6, <1>7 DEF AnalyticsNext

(* The parts of a page tell of the same rows, give or take those written while
   it was put together, whatever the rows and the order of the queries. *)
THEOREM PagesTellOneStory ==
    ASSUME DayIsWhole, CountsAreNatural
    PROVE  AnalyticsSpec => []PartsAgree
<1>1. AnalyticsInit => ViewInv
  <2> SUFFICES ASSUME AnalyticsInit PROVE ViewInv OBVIOUS
  <2>1. tracked = {} /\ typed = {} /\ view = [asked |-> {}, parts |-> <<>>, changes |-> 0]
    BY DEF AnalyticsInit, NoView
  <2>2. IsFiniteSet({}) BY FS_EmptySet
  <2>3. view.asked = {} /\ view.parts = <<>> /\ view.changes = 0 /\ DOMAIN view.parts = {}
    BY <2>1
  <2>4. PartsAgree BY <2>3 DEF PartsAgree
  <2> QED BY <2>1, <2>2, <2>3, <2>4 DEF ViewInv
<1>2. ViewInv /\ [AnalyticsNext]_analyticsVars => ViewInv' BY AnalyticsNextInv
<1>3. ViewInv => PartsAgree BY DEF ViewInv
<1> QED BY <1>1, <1>2, <1>3, PTL DEF AnalyticsSpec
=============================================================================
