------------------------- MODULE AlertEpisodesProofs -------------------------
(***************************************************************************)
(* The alerting query, for any machines, windows, batches and crashes: a   *)
(* batch that is run again repeats itself, an alert needs a whole run of   *)
(* windows, and a run makes one alert.                                     *)
(***************************************************************************)
EXTENDS AlertEpisodes, FiniteSetTheorems, TLAPS

-----------------------------------------------------------------------------
(* The inductive invariant *)

\* The machines the handler is called for with rows, and what it sends for
\* one of them: a function of the planned batch and the committed state.
Called == {m \in Machine : WindowsOf(m) # {}}
Output(m) == CountWindows(m, store[m], WindowsOf(m)).out
Outputs(ms) == UNION {Output(m) : m \in ms}

\* What the running attempt has sent is what its machines send, and what the
\* attempts before it have sent is no more than all machines of the batch send.
BatchRepeats ==
    running =>
        /\ sent = Outputs(Called \ todo)
        /\ opened \cup sent \subseteq published
        /\ published \subseteq opened \cup Outputs(Called)

IInv ==
    /\ todo \subseteq Machine
    /\ ~running => todo = {}
    /\ BatchRepeats
    /\ ReplayAddsNothing

\* While a batch runs, in this attempt or the next, what it sends is settled.
LEMMA SameBatch ==
    ASSUME UNCHANGED <<store, lateMark, batch>>
    PROVE  /\ \A m \in Machine : Output(m)' = Output(m)
           /\ Called' = Called
<1>1. ASSUME NEW m \in Machine PROVE WindowsOf(m)' = WindowsOf(m)
  BY DEF WindowsOf, OnTime, Millis
<1>2. ASSUME NEW m \in Machine PROVE Output(m)' = Output(m)
  BY <1>1 DEF Output
<1> QED
  BY <1>1, <1>2 DEF Called

\* The steps that end neither the attempt nor the batch, and send nothing.
LEMMA QuietStep ==
    ASSUME IInv, UNCHANGED <<store, lateMark, batch, running, sent, published, opened>>,
           todo' \subseteq todo, Called' \ todo' = Called \ todo
    PROVE  IInv'
<1>1. Outputs(Called \ todo)' = Outputs(Called \ todo) /\ Outputs(Called)' = Outputs(Called)
  BY SameBatch DEF Outputs, Called
<1>2. BatchRepeats'
  BY <1>1 DEF IInv, BatchRepeats
<1> QED
  BY <1>2 DEF IInv, ReplayAddsNothing

LEMMA RowsStep ==
    ASSUME IInv, NEW m \in Machine, HandleRows(m)
    PROVE  IInv'
<1>1. /\ m \in todo /\ m \in Called /\ running
      /\ UNCHANGED <<store, lateMark, batch, running, opened>>
  BY DEF HandleRows, markVars, Called, IInv
<1>2. CASE UNCHANGED <<todo, sent, published>>
  <2>1. Called' = Called
    BY <1>1, SameBatch
  <2> QED
    BY <1>1, <1>2, <2>1, QuietStep
<1>3. CASE /\ todo' = todo \ {m}
           /\ sent' = sent \cup Output(m)
           /\ published' = published \cup Output(m)
  <2>1. Called' = Called /\ \A x \in Machine : Output(x)' = Output(x)
    BY <1>1, SameBatch
  <2>2. Outputs(Called \ todo)' = Outputs(Called \ todo) \cup Output(m)
        /\ Outputs(Called)' = Outputs(Called)
    <3>1. (Called \ todo)' = (Called \ todo) \cup {m}
      BY <1>1, <1>3, <2>1
    <3> QED
      BY <2>1, <3>1 DEF Outputs, Called
  <2>3. Output(m) \subseteq Outputs(Called)
    BY <1>1 DEF Outputs
  <2>4. BatchRepeats'
    BY <1>1, <1>3, <2>2, <2>3 DEF IInv, BatchRepeats
  <2> QED
    BY <1>1, <1>3, <2>4 DEF IInv, ReplayAddsNothing
<1>4. \/ UNCHANGED <<todo, sent, published>>
      \/ /\ todo' = todo \ {m}
         /\ sent' = sent \cup Output(m)
         /\ published' = published \cup Output(m)
  BY DEF HandleRows, Output
<1> QED
  BY <1>2, <1>3, <1>4

LEMMA TimeoutStep ==
    ASSUME IInv, NEW m \in Machine, HandleTimeout(m)
    PROVE  IInv'
<1>1. /\ m \notin Called /\ todo' = todo \ {m}
      /\ UNCHANGED <<store, lateMark, batch, running, sent, published, opened>>
  BY DEF HandleTimeout, TimedOut, Called, markVars, outVars
<1>2. Called' \ todo' = Called \ todo
  BY <1>1, SameBatch
<1> QED
  BY <1>1, <1>2, QuietStep

LEMMA PlanStep ==
    ASSUME IInv, NEW rows, PlanBatch(rows)
    PROVE  IInv'
<1>1. /\ todo' = Machine /\ sent' = {} /\ running' = TRUE
      /\ published' = published /\ opened' = opened /\ published = opened
  BY DEF PlanBatch, IInv, ReplayAddsNothing
<1>2. Outputs(Called \ todo)' = {}
  BY <1>1 DEF Outputs, Called
<1>3. BatchRepeats'
  BY <1>1, <1>2 DEF BatchRepeats
<1> QED
  BY <1>1, <1>3 DEF IInv, ReplayAddsNothing

\* Every machine with rows has been handled.
LEMMA CommitStep ==
    ASSUME IInv, CommitBatch
    PROVE  IInv'
<1>1. Called \cap todo = {} /\ running
  BY DEF CommitBatch, HasCall, Called
<1>2. published = opened \cup sent
  <2>1. Called \ todo = Called
    BY <1>1
  <2> QED
    BY <1>1, <2>1 DEF IInv, BatchRepeats
<1>3. running' = FALSE /\ todo' = {} /\ opened' = opened \cup sent /\ published' = published
  BY DEF CommitBatch
<1> QED
  BY <1>2, <1>3 DEF IInv, BatchRepeats, ReplayAddsNothing

LEMMA CrashStep ==
    ASSUME IInv, Crash
    PROVE  IInv'
<1>1. /\ running /\ running' = TRUE /\ todo' = Machine /\ sent' = {}
      /\ UNCHANGED <<store, lateMark, batch, published, opened>>
  BY DEF Crash, markVars
<1>2. Outputs(Called \ todo)' = {} /\ Outputs(Called)' = Outputs(Called)
  BY <1>1, SameBatch DEF Outputs, Called
<1>3. BatchRepeats'
  BY <1>1, <1>2 DEF IInv, BatchRepeats
<1> QED
  BY <1>1, <1>3 DEF IInv, ReplayAddsNothing

-----------------------------------------------------------------------------
(* Greatest elements *)

LEMMA MaxIsMember ==
    ASSUME NEW S \in SUBSET Int, IsFiniteSet(S), S # {}
    PROVE  Max(S) \in S /\ \A y \in S : y <= Max(S)
<1> DEFINE Above(x) == {y \in S : y > x}
           R == StrictSubsetOrdering(S)
           F == {Above(x) : x \in S}
<1>1. IsWellFoundedOn(R, FiniteSubsetsOf(S))
  BY FS_StrictSubsetOrderingWellFounded
<1>2. F \subseteq FiniteSubsetsOf(S) /\ F # {}
  <2>1. ASSUME NEW x \in S PROVE Above(x) \in FiniteSubsetsOf(S)
    <3>1. Above(x) \subseteq S
      OBVIOUS
    <3> QED
      BY <3>1, FS_Subset DEF FiniteSubsetsOf
  <2> QED
    BY <2>1
<1>3. PICK u \in F : \A v \in F : ~(<<v, u>> \in R)
  <2> HIDE DEF R, F
  <2> QED
    BY <1>1, <1>2, WFMin
<1>4. PICK x \in S : u = Above(x)
  OBVIOUS
<1>5. ASSUME NEW y \in S, y > x PROVE FALSE
  <2>1. Above(y) \subseteq Above(x) /\ y \in Above(x) /\ y \notin Above(y)
    <3>1. x \in Int /\ y \in Int /\ \A d \in S : d \in Int
      OBVIOUS
    <3>2. ~(y > y) /\ \A d \in S : d > y => d > x
      BY <1>5, <3>1
    <3> QED
      BY <1>5, <3>2
  <2>2. Above(y) \subseteq S /\ Above(x) \subseteq S /\ Above(y) # Above(x)
    BY <2>1
  <2>3. <<Above(y), Above(x)>> \in R
    BY <2>1, <2>2 DEF StrictSubsetOrdering
  <2> QED
    BY <1>3, <1>4, <2>3
<1>6. \A y \in S : x >= y
  BY <1>5
<1> QED
  BY <1>6 DEF Max

LEMMA LeastIsMember ==
    ASSUME NEW T \in SUBSET Nat, T # {}
    PROVE  \E n \in T : \A k \in T : n <= k
<1> DEFINE R == StrictSubsetOrdering(Nat)
           F == {0..k : k \in T}
<1>1. IsWellFoundedOn(R, FiniteSubsetsOf(Nat))
  BY FS_StrictSubsetOrderingWellFounded
<1>2. F \subseteq FiniteSubsetsOf(Nat) /\ F # {}
  <2>1. ASSUME NEW k \in T PROVE 0..k \in FiniteSubsetsOf(Nat)
    <3>1. IsFiniteSet(0..k) /\ 0..k \in SUBSET Nat
      BY FS_Interval
    <3> QED
      BY <3>1 DEF FiniteSubsetsOf
  <2> QED
    BY <2>1
<1>3. PICK x \in F : \A y \in F : ~(<<y, x>> \in R)
  <2> HIDE DEF R, F
  <2> QED
    BY <1>1, <1>2, WFMin
<1>4. PICK n \in T : x = 0..n
  OBVIOUS
<1>5. \A k \in T : n <= k
  <2> SUFFICES ASSUME NEW k \in T, k < n PROVE FALSE
    OBVIOUS
  <2>1. 0..k \in F /\ 0..k \subseteq 0..n /\ 0..k # 0..n
    OBVIOUS
  <2>2. 0..k \subseteq Nat /\ 0..n \subseteq Nat
    OBVIOUS
  <2>3. <<0..k, 0..n>> \in R
    BY <2>1, <2>2 DEF StrictSubsetOrdering
  <2> QED
    BY <2>1, <2>3, <1>3, <1>4
<1> QED
  BY <1>5

-----------------------------------------------------------------------------
(* The loop over the windows *)

\* What one more number makes of the state: f[n] is what the windows before n have made.
Follows(f, n, m, s, windows) ==
    f[n] = IF n = 0 THEN RunOf(s)
           ELSE IF n - 1 \in windows THEN CountWindow(m, f[n - 1], n - 1)
           ELSE f[n - 1]

\* The recursion of CountWindows has a solution.
LEMMA LoopDefined ==
    ASSUME NEW m, NEW s, NEW windows
    PROVE  \E f : /\ \A n \in Nat : Follows(f, n, m, s, windows)
                  /\ CountWindows(m, s, windows) = f[Max(windows) + 1]
<1> DEFINE Next1(g, n) == IF n = 0 THEN RunOf(s)
                          ELSE IF n - 1 \in windows THEN CountWindow(m, g[n - 1], n - 1)
                          ELSE g[n - 1]
           Upto(g, n) == g = [k \in 0..n |-> Next1(g, k)]
           bad == {n \in Nat : ~\E g : Upto(g, n)}
<1>1. \A n \in Nat : \E g : Upto(g, n)
  <2> SUFFICES ASSUME bad # {} PROVE FALSE
    OBVIOUS
  <2>1. PICK n \in bad : \A k \in bad : n <= k
    BY LeastIsMember
  <2>2. CASE n = 0
    <3> DEFINE g == [k \in 0..0 |-> RunOf(s)]
    <3>1. Upto(g, 0)
      <4>1. \A k \in 0..0 : k = 0
        OBVIOUS
      <4>2. [k \in 0..0 |-> Next1(g, k)] = [k \in 0..0 |-> RunOf(s)]
        BY <4>1
      <4> QED
        BY <4>2
    <3> QED
      BY <2>2, <3>1
  <2>3. CASE n # 0
    <3>1. n - 1 \in Nat /\ n - 1 \notin bad
      <4>1. n \in Nat
        OBVIOUS
      <4>2. n - 1 \in Nat /\ ~(n <= n - 1)
        BY <2>3, <4>1
      <4> HIDE DEF bad
      <4> QED
        BY <2>1, <4>2
    <3>2. PICK g : Upto(g, n - 1)
      BY <3>1
    <3> DEFINE h == [k \in 0..n |-> IF k = n THEN Next1(g, n) ELSE g[k]]
    <3>3. \A k \in 0..n : k # n => h[k] = g[k] /\ k \in 0..(n - 1)
      OBVIOUS
    <3>4. \A k \in 0..n : Next1(h, k) = Next1(g, k)
      <4> TAKE k \in 0..n
      <4>1. CASE k = 0
        BY <4>1
      <4>2. CASE k # 0
        <5>1. k - 1 \in 0..n /\ k - 1 # n
          BY <4>2
        <5>2. h[k - 1] = g[k - 1]
          BY <3>3, <5>1
        <5> HIDE DEF h
        <5> QED
          BY <4>2, <5>2
      <4> QED
        BY <4>1, <4>2
    <3>5. \A k \in 0..n : h[k] = Next1(h, k)
      <4> TAKE k \in 0..n
      <4>1. CASE k = n
        BY <4>1, <3>4
      <4>2. CASE k # n
        <5>1. h[k] = g[k] /\ k \in 0..(n - 1)
          BY <3>3, <4>2
        <5>2. g[k] = Next1(g, k)
          <6> HIDE DEF Next1
          <6> QED
            BY <3>2, <5>1
        <5> HIDE DEF h, Next1
        <5> QED
          BY <3>4, <5>1, <5>2
      <4> QED
        BY <4>1, <4>2
    <3>6. Upto(h, n)
      <4>1. h = [k \in 0..n |-> h[k]]
        OBVIOUS
      <4> HIDE DEF h, Next1
      <4> QED
        BY <4>1, <3>5
    <3> QED
      BY <3>6
  <2> QED
    BY <2>2, <2>3
<1>2. ASSUME NEW i \in Nat, NEW j \in Nat, NEW g, NEW h, Upto(g, i), Upto(h, j)
      PROVE  \A k \in Nat : k <= i /\ k <= j => g[k] = h[k]
  <2> DEFINE differ == {k \in Nat : k <= i /\ k <= j /\ g[k] # h[k]}
  <2> SUFFICES ASSUME differ # {} PROVE FALSE
    OBVIOUS
  <2>1. PICK k \in differ : \A l \in differ : k <= l
    <3>1. differ \in SUBSET Nat
      OBVIOUS
    <3> HIDE DEF differ
    <3> QED
      BY <3>1, LeastIsMember
  <2>2. k \in 0..i /\ k \in 0..j
    OBVIOUS
  <2>3. g[k] = Next1(g, k) /\ h[k] = Next1(h, k)
    <3> HIDE DEF Next1
    <3> QED
      BY <1>2, <2>2
  <2>4. CASE k = 0
    BY <2>3, <2>4
  <2>5. CASE k # 0
    <3>1. k - 1 \in Nat /\ k - 1 \notin differ
      BY <2>1, <2>5
    <3>2. g[k - 1] = h[k - 1]
      BY <3>1
    <3>3. Next1(g, k) = Next1(h, k)
      BY <3>2, <2>5
    <3> QED
      BY <2>3, <3>3
  <2> QED
    BY <2>4, <2>5
<1> DEFINE At(n) == CHOOSE g : Upto(g, n)
           f == [n \in Nat |-> At(n)[n]]
<1>3. \A n \in Nat : Upto(At(n), n)
  <2> HIDE DEF Upto
  <2> QED
    BY <1>1
<1>4. \A n \in Nat : f[n] = Next1(f, n)
  <2> TAKE n \in Nat
  <2>1. f[n] = At(n)[n] /\ At(n)[n] = Next1(At(n), n)
    <3>1. n \in 0..n
      OBVIOUS
    <3>2. Upto(At(n), n)
      BY <1>3
    <3> HIDE DEF At, Next1
    <3> QED
      BY <3>1, <3>2
  <2>2. CASE n = 0
    <3> HIDE DEF At
    <3> QED
      BY <2>1, <2>2
  <2>3. CASE n # 0
    <3>1. n - 1 \in Nat /\ n - 1 <= n /\ n - 1 <= n - 1
      BY <2>3
    <3>2. f[n - 1] = At(n - 1)[n - 1]
      BY <3>1
    <3>3. At(n)[n - 1] = At(n - 1)[n - 1]
      <4>1. Upto(At(n), n) /\ Upto(At(n - 1), n - 1)
        BY <3>1, <1>3
      <4> HIDE DEF At, Upto
      <4> QED
        BY <3>1, <4>1, <1>2
    <3>4. Next1(f, n) = Next1(At(n), n)
      <4> HIDE DEF At, f
      <4> QED
        BY <3>2, <3>3, <2>3
    <3> QED
      BY <2>1, <3>4
  <2> QED
    BY <2>2, <2>3
<1>5. f = [n \in Nat |-> Next1(f, n)]
  <2>1. f = [n \in Nat |-> f[n]]
    OBVIOUS
  <2> HIDE DEF f, Next1
  <2> QED
    BY <1>4, <2>1
<1> DEFINE c == CHOOSE run : run = [n \in Nat |-> Next1(run, n)]
<1>6. c = [n \in Nat |-> Next1(c, n)]
  <2> HIDE DEF f, Next1
  <2> QED
    BY <1>5
<1>7. CountWindows(m, s, windows) = c[Max(windows) + 1]
  BY DEF CountWindows
<1>8. \A n \in Nat : c[n] = Next1(c, n)
  <2> HIDE DEF Next1, c
  <2> QED
    BY <1>6
<1>9. \A n \in Nat : Follows(c, n, m, s, windows)
  <2> HIDE DEF c
  <2> QED
    BY <1>8 DEF Follows
<1> QED
  <2> HIDE DEF c
  <2> QED
    BY <1>7, <1>9

-----------------------------------------------------------------------------
(* Runs of windows *)

\* n windows up to the last one, each at most a gap from the next.
Chain(ws, last, n) ==
    \E c \in SUBSET ws :
        /\ IsFiniteSet(c) /\ Cardinality(c) = n /\ last \in c
        /\ \A x \in c : x <= last /\ last - x <= Gap * (n - 1)

\* What a state knows of an alert of its machine: it is no later than the last
\* window counted, or the watermark is past its gap; and once its run is over,
\* the windows counted since then have moved away from it.
Before(a, s, limit) ==
    /\ s.count = 0 => Millis(a + Gap) < limit
    /\ a <= s.last \/ Millis(a + Gap) < limit
    /\ s.count > 0 /\ ~s.open => s.last - a > Gap - WindowLen + s.count - 1

Apart(a, b) == a < b => b - a > Gap - WindowLen + ToOpen - 1

LEMMA Settings == {WindowLen, Gap, Delay, ToOpen} \subseteq Nat \ {0}
BY SettingsAssumption

LEMMA ChainStarts ==
    ASSUME NEW ws \in SUBSET Nat, NEW w \in ws
    PROVE  Chain(ws, w, 1)
<1>1. IsFiniteSet({w}) /\ Cardinality({w}) = 1
  BY FS_Singleton
<1>2. \A x \in {w} : x <= w /\ w - x <= Gap * (1 - 1)
  BY Settings
<1>3. {w} \in SUBSET ws /\ w \in {w}
  OBVIOUS
<1> QED
  BY <1>1, <1>2, <1>3 DEF Chain

LEMMA ChainGoesOn ==
    ASSUME NEW ws \in SUBSET Nat, NEW last \in Nat, NEW w \in ws, NEW n \in Nat \ {0},
           Chain(ws, last, n), last < w, w - last <= Gap
    PROVE  Chain(ws, w, n + 1)
<1>1. PICK c \in SUBSET ws :
          /\ IsFiniteSet(c) /\ Cardinality(c) = n /\ last \in c
          /\ \A x \in c : x <= last /\ last - x <= Gap * (n - 1)
  BY DEF Chain
<1> DEFINE d == c \cup {w}
<1>2. w \notin c
  BY <1>1
<1>3. IsFiniteSet(d) /\ Cardinality(d) = n + 1
  BY <1>1, <1>2, FS_AddElement
<1>4. Gap * ((n + 1) - 1) = Gap * (n - 1) + Gap /\ Gap * (n - 1) \in Nat
  BY Settings
<1>5. ASSUME NEW x \in d PROVE x <= w /\ w - x <= Gap * ((n + 1) - 1)
  <2>1. x \in Nat /\ Gap \in Nat /\ w \in Nat
    BY Settings
  <2>2. CASE x \in c
    <3>1. x <= last /\ last - x <= Gap * (n - 1)
      BY <1>1, <2>2
    <3> QED
      BY <1>4, <2>1, <3>1
  <2>3. CASE x = w
    BY <1>4, <2>1, <2>3
  <2> QED
    BY <2>2, <2>3
<1>6. d \in SUBSET ws /\ w \in d
  OBVIOUS
<1> HIDE DEF d
<1> QED
  BY <1>3, <1>5, <1>6 DEF Chain

LEMMA ChainOfMore ==
    ASSUME NEW ws, NEW more, ws \subseteq more, NEW last, NEW n, Chain(ws, last, n)
    PROVE  Chain(more, last, n)
BY DEF Chain

LEMMA BeforeLater ==
    ASSUME NEW a \in Nat, NEW s, NEW limit \in Int, NEW later \in Int, limit <= later,
           Before(a, s, limit)
    PROVE  Before(a, s, later)
<1>1. Millis(a + Gap) < limit => Millis(a + Gap) < later
  BY Settings DEF Millis
<1> QED
  BY <1>1 DEF Before

\* The handler's variables in the middle of the loop.
RunStates(m) == [open : BOOLEAN, count : Nat, last : Nat, out : SUBSET ({m} \X Nat)]
Emitted(r) == {id[2] : id \in r.out}

\* Where the loop stands, from the windows read, the alerts sent and the watermark: what has
\* been counted has been read, and every alert is on the right side of the run.
Tells(r, m, ws, alerts, limit) ==
    /\ r \in RunStates(m)
    /\ r.count = 0 => ~r.open
    /\ \A k \in 1..r.count : Chain(ws, r.last, k)
    /\ \A w \in Emitted(r) : Chain(ws, w, ToOpen)
    /\ \A a \in alerts \cup Emitted(r) : Before(a, r, limit)
    /\ \A a, b \in alerts \cup Emitted(r) : Apart(a, b)

\* The run after one more window, and whether the alert was open in it before.
LEMMA CountedIs ==
    ASSUME NEW m, NEW w \in Nat, NEW r \in RunStates(m), ~AlreadyCounted(r, w)
    PROVE  LET open == r.open /\ ~Interrupted(r, w)
               next == CountWindow(m, r, w)
           IN  /\ next \in RunStates(m)
               /\ next.count = Counted(r, w) /\ next.last = w /\ next.count > 0
               /\ next.open = (open \/ Opens(open, next.count))
               /\ next.out = r.out \cup (IF Opens(open, next.count) THEN {<<m, w>>} ELSE {})
<1> DEFINE open == r.open /\ ~Interrupted(r, w)
           next == CountWindow(m, r, w)
           count == Counted(r, w)
<1>1. next = [open |-> open \/ Opens(open, count), count |-> count, last |-> w,
              out |-> r.out \cup (IF Opens(open, count) THEN {<<m, w>>} ELSE {})]
  BY DEF CountWindow, AlertId
<1>2. count \in Nat /\ count > 0
  BY DEF Counted, RunStates
<1>3. (open \/ Opens(open, count)) \in BOOLEAN
  BY DEF Opens
<1>4. r.out \cup (IF Opens(open, count) THEN {<<m, w>>} ELSE {}) \in SUBSET ({m} \X Nat)
  BY DEF RunStates
<1> HIDE DEF open, count
<1>5. /\ next \in RunStates(m)
      /\ next.count = count /\ next.last = w
      /\ next.open = (open \/ Opens(open, count))
      /\ next.out = r.out \cup (IF Opens(open, count) THEN {<<m, w>>} ELSE {})
  BY <1>1, <1>2, <1>3, <1>4 DEF RunStates
<1> QED
  BY <1>2, <1>5 DEF open, count

\* A window moves the run away from the alerts before it.
LEMMA MovesAway ==
    ASSUME NEW m, NEW w \in Nat, NEW r \in RunStates(m), ~AlreadyCounted(r, w),
           r.count = 0 => ~r.open,
           NEW limit \in Nat, Millis(w + WindowLen) > limit,
           NEW a \in Nat, Before(a, r, limit)
    PROVE  /\ a <= w \/ Millis(a + Gap) < limit
           /\ ~(r.open /\ ~Interrupted(r, w))
                 => w - a > Gap - WindowLen + Counted(r, w) - 1
<1>1. /\ r.count \in Nat /\ r.last \in Nat /\ r.open \in BOOLEAN
      /\ Gap \in Nat /\ WindowLen \in Nat
  BY Settings DEF RunStates
<1>2. r.count = 0 \/ w > r.last
  BY <1>1 DEF AlreadyCounted
<1>3. Millis(a + Gap) < limit => w - a > Gap - WindowLen
  BY <1>1 DEF Millis
<1>4. a <= r.last \/ Millis(a + Gap) < limit
  BY DEF Before
<1>5. CASE r.count = 0
  <2>1. Millis(a + Gap) < limit
    BY <1>5 DEF Before
  <2>2. Counted(r, w) = 1
    BY <1>5 DEF Counted, Interrupted
  <2> QED
    BY <1>1, <1>3, <2>1, <2>2
<1>6. CASE r.count > 0 /\ Interrupted(r, w)
  <2>1. Counted(r, w) = 1 /\ w - r.last > Gap /\ w > r.last
    BY <1>2, <1>6 DEF Counted, Interrupted
  <2> QED
    BY <1>1, <1>3, <1>4, <2>1, Settings
<1>7. CASE r.count > 0 /\ ~Interrupted(r, w)
  <2>1. Counted(r, w) = r.count + 1 /\ w > r.last
    BY <1>2, <1>7 DEF Counted
  <2>2. ~r.open => r.last - a > Gap - WindowLen + r.count - 1
    BY <1>7 DEF Before
  <2> QED
    BY <1>1, <1>4, <1>7, <2>1, <2>2
<1> QED
  BY <1>1, <1>5, <1>6, <1>7

LEMMA WindowCounted ==
    ASSUME NEW m, NEW ws \in SUBSET Nat, NEW alerts \in SUBSET Nat, NEW limit \in Nat,
           NEW r, Tells(r, m, ws, alerts, limit),
           NEW w \in ws, Millis(w + WindowLen) > limit
    PROVE  Tells(CountWindow(m, r, w), m, ws, alerts, limit) /\ CountWindow(m, r, w).count > 0
<1>1. CASE AlreadyCounted(r, w)
  <2>1. CountWindow(m, r, w) = r /\ r.count > 0
    BY <1>1 DEF CountWindow, AlreadyCounted
  <2> QED
    BY <2>1
<1>2. CASE ~AlreadyCounted(r, w)
  <2> DEFINE open == r.open /\ ~Interrupted(r, w)
             next == CountWindow(m, r, w)
             count == next.count
             before == alerts \cup Emitted(r)
  <2>1. /\ r \in RunStates(m) /\ w \in Nat /\ Gap \in Nat /\ WindowLen \in Nat
        /\ ToOpen \in Nat \ {0} /\ (r.count = 0 => ~r.open)
    BY Settings DEF Tells
  <2>2. /\ next \in RunStates(m) /\ count = Counted(r, w) /\ next.last = w
        /\ count > 0 /\ next.open = (open \/ Opens(open, count))
        /\ next.out = r.out \cup (IF Opens(open, count) THEN {<<m, w>>} ELSE {})
    BY <1>2, <2>1, CountedIs
  <2>3. /\ Emitted(next) = Emitted(r) \cup (IF Opens(open, count) THEN {w} ELSE {})
        /\ next.open \in BOOLEAN /\ (Opens(open, count) => next.open)
        /\ open => next.open
    <3>1. /\ next.out = r.out \cup (IF Opens(open, count) THEN {<<m, w>>} ELSE {})
          /\ next.open = (open \/ Opens(open, count)) /\ next.open \in BOOLEAN
      BY <2>2 DEF RunStates
    <3> HIDE DEF next, open
    <3>2. CASE Opens(open, count)
      <4>1. next.out = r.out \cup {<<m, w>>}
        BY <3>1, <3>2
      <4>2. Emitted(next) = Emitted(r) \cup {w}
        <5>1. <<m, w>>[2] = w /\ <<m, w>> \in next.out
          BY <4>1
        <5>2. \A id \in r.out : id \in next.out /\ id[2] \in Emitted(r)
          BY <4>1 DEF Emitted
        <5>3. \A id \in next.out : id[2] \in Emitted(r) \cup {w}
          BY <4>1, <5>1, <5>2
        <5>4. w \in Emitted(next) /\ \A id \in r.out : id[2] \in Emitted(next)
          BY <5>1, <5>2 DEF Emitted
        <5> QED
          BY <5>3, <5>4 DEF Emitted
      <4> QED
        BY <3>1, <3>2, <4>2
    <3>3. CASE ~Opens(open, count)
      <4>1. Emitted(next) = Emitted(r)
        BY <3>1, <3>3 DEF Emitted
      <4> QED
        BY <3>1, <3>3, <4>1
    <3> QED
      BY <3>2, <3>3
  <2>4. before \subseteq Nat
    BY <2>1 DEF Emitted, RunStates
  <2>5. \A k \in 1..count : Chain(ws, w, k)
    <3> SUFFICES ASSUME NEW k \in 1..count PROVE Chain(ws, w, k)
      OBVIOUS
    <3>1. CASE k = 1
      BY <3>1, ChainStarts
    <3>2. CASE k # 1
      <4>1. r.count \in Nat /\ r.last \in Nat /\ count \in Nat
        BY <2>1, <2>2 DEF RunStates
      <4>2. ~Interrupted(r, w) /\ count = r.count + 1
        BY <2>2, <3>2, <4>1 DEF Counted
      <4>3. k - 1 \in 1..r.count /\ r.count > 0
        BY <3>2, <4>1, <4>2
      <4>4. Chain(ws, r.last, k - 1)
        BY <4>3 DEF Tells
      <4>5. r.last < w /\ w - r.last <= Gap
        BY <1>2, <2>1, <4>1, <4>2, <4>3 DEF AlreadyCounted, Interrupted
      <4>6. k - 1 \in Nat \ {0} /\ (k - 1) + 1 = k
        BY <4>3
      <4> QED
        BY <4>1, <4>4, <4>5, <4>6, ChainGoesOn
    <3> QED
      BY <3>1, <3>2
  <2>6. Opens(open, count) => Chain(ws, w, ToOpen)
    <3>1. count \in Nat
      BY <2>2 DEF RunStates
    <3>2. Opens(open, count) => ToOpen \in 1..count
      BY <2>1, <3>1 DEF Opens
    <3> QED
      BY <2>5, <3>2
  <2>7. \A v \in Emitted(next) : Chain(ws, v, ToOpen)
    BY <2>3, <2>6 DEF Tells
  <2>8. ASSUME NEW a \in before
        PROVE  /\ a <= w \/ Millis(a + Gap) < limit
               /\ ~open => w - a > Gap - WindowLen + count - 1
    <3>1. a \in Nat /\ Before(a, r, limit)
      BY <2>4 DEF Tells
    <3> QED
      BY <1>2, <2>1, <2>2, <3>1, MovesAway
  <2>9. \A a \in alerts \cup Emitted(next) : Before(a, next, limit)
    <3> SUFFICES ASSUME NEW a \in alerts \cup Emitted(next) PROVE Before(a, next, limit)
      OBVIOUS
    <3>1. CASE a \in before
      <4>1. next.count # 0 /\ next.last = w /\ (~next.open => ~open)
        <5> HIDE DEF next, open
        <5> QED
          BY <2>2, <2>3
      <4>2. a <= w \/ Millis(a + Gap) < limit
        BY <2>8, <3>1
      <4>3. ~open => w - a > Gap - WindowLen + count - 1
        BY <2>8, <3>1
      <4> HIDE DEF next, open
      <4> QED
        BY <4>1, <4>2, <4>3 DEF Before
    <3>2. CASE a \notin before
      <4>1. a = w /\ next.open /\ next.count # 0 /\ next.last = w
        <5> HIDE DEF next, open
        <5> QED
          BY <2>2, <2>3, <3>2
      <4> HIDE DEF next
      <4> QED
        BY <2>1, <4>1 DEF Before
    <3> QED
      BY <3>1, <3>2
  <2>10. \A a, b \in alerts \cup Emitted(next) : Apart(a, b)
    <3>1. \A a, b \in before : Apart(a, b)
      BY DEF Tells
    <3>2. ASSUME NEW a \in before, Opens(open, count) PROVE Apart(a, w) /\ Apart(w, a)
      <4>1. a \in Nat /\ count \in Nat
        BY <2>2, <2>4 DEF RunStates
      <4>2. w - a > Gap - WindowLen + count - 1 /\ count >= ToOpen
        BY <2>8, <3>2 DEF Opens
      <4>3. w - a > Gap - WindowLen + ToOpen - 1
        <5> HIDE DEF next
        <5> QED
          BY <2>1, <4>1, <4>2
      <4>4. a <= w \/ Millis(a + Gap) < limit
        BY <2>8, <3>2
      <4>5. w < a => a - w > Gap - WindowLen + ToOpen - 1
        BY <2>1, <4>1, <4>3, <4>4 DEF Millis
      <4> QED
        BY <4>3, <4>5 DEF Apart
    <3>3. Apart(w, w)
      BY <2>1 DEF Apart
    <3>4. alerts \cup Emitted(next) \subseteq before \cup {w}
          /\ (~Opens(open, count) => alerts \cup Emitted(next) = before)
      BY <2>3
    <3> HIDE DEF before, open, next, count
    <3> QED
      BY <3>1, <3>2, <3>3, <3>4
  <2> QED
    BY <2>2, <2>5, <2>7, <2>9, <2>10 DEF Tells
<1> QED
  BY <1>1, <1>2

\* What the loop makes of the windows of a batch.
LEMMA LoopTells ==
    ASSUME NEW m, NEW ws \in SUBSET Nat, NEW alerts \in SUBSET Nat, NEW limit \in Nat,
           NEW s, Tells(RunOf(s), m, ws, alerts, limit),
           NEW windows \in SUBSET ws, IsFiniteSet(windows), windows # {},
           \A w \in windows : Millis(w + WindowLen) > limit
    PROVE  /\ Tells(CountWindows(m, s, windows), m, ws, alerts, limit)
           /\ CountWindows(m, s, windows).count > 0
<1>1. PICK f : /\ \A n \in Nat : Follows(f, n, m, s, windows)
               /\ CountWindows(m, s, windows) = f[Max(windows) + 1]
  BY LoopDefined
<1> DEFINE Right(n) == /\ Tells(f[n], m, ws, alerts, limit)
                       /\ (\E w \in windows : w < n) => f[n].count > 0
           wrong == {n \in Nat : ~Right(n)}
<1>2. wrong = {}
  <2> SUFFICES ASSUME wrong # {} PROVE FALSE
    OBVIOUS
  <2>1. PICK n \in wrong : \A k \in wrong : n <= k
    <3>1. wrong \in SUBSET Nat
      OBVIOUS
    <3> HIDE DEF wrong
    <3> QED
      BY <3>1, LeastIsMember
  <2>2. n \in Nat /\ ~Right(n) /\ Follows(f, n, m, s, windows)
    BY <1>1
  <2>3. CASE n = 0
    <3>1. f[n] = RunOf(s) /\ \A w \in windows : ~(w < n)
      BY <2>2, <2>3 DEF Follows
    <3> QED
      BY <2>2, <3>1
  <2>4. CASE n # 0
    <3>1. n - 1 \in Nat /\ ~(n <= n - 1)
      BY <2>2, <2>4
    <3>2. Right(n - 1)
      <4>1. n - 1 \notin wrong
        <5> HIDE DEF wrong
        <5> QED
          BY <2>1, <3>1
      <4> HIDE DEF Right
      <4> QED
        BY <3>1, <4>1
    <3>3. CASE n - 1 \in windows
      <4>1. f[n] = CountWindow(m, f[n - 1], n - 1)
        BY <2>2, <2>4, <3>3 DEF Follows
      <4>2. /\ Tells(CountWindow(m, f[n - 1], n - 1), m, ws, alerts, limit)
            /\ CountWindow(m, f[n - 1], n - 1).count > 0
        BY <3>2, <3>3, WindowCounted
      <4> QED
        BY <2>2, <4>1, <4>2
    <3>4. CASE n - 1 \notin windows
      <4>1. f[n] = f[n - 1]
        BY <2>2, <2>4, <3>4 DEF Follows
      <4>2. \A w \in windows : w < n => w < n - 1
        BY <2>2, <3>1, <3>4
      <4> QED
        BY <2>2, <3>2, <4>1, <4>2
    <3> QED
      BY <3>3, <3>4
  <2> QED
    BY <2>3, <2>4
<1>3. Max(windows) \in windows /\ Max(windows) \in Nat
  <2>1. windows \in SUBSET Int
    OBVIOUS
  <2>2. Max(windows) \in windows
    BY <2>1, MaxIsMember
  <2> QED
    BY <2>2
<1>4. Max(windows) + 1 \in Nat /\ Max(windows) < Max(windows) + 1
  BY <1>3
<1>5. Right(Max(windows) + 1)
  <2> HIDE DEF Right
  <2> QED
    BY <1>2, <1>4
<1> QED
  BY <1>1, <1>3, <1>4, <1>5

-----------------------------------------------------------------------------
(* The invariant of the runs *)

\* The windows of a machine the query has ever read, the alerts of it that
\* committed attempts sent, and what the running attempt makes of its run.
SeenOf(m) == {r[2] : r \in {x \in seen : x[1] = m}}
AlertsOf(m) == {id[2] : id \in {x \in opened : x[1] = m}}
Run(m) == CountWindows(m, store[m], WindowsOf(m))

Shape ==
    /\ store \in [Machine -> RunState \cup {NoState}]
    /\ fresh \in [Machine -> RunState \cup {NoState}]
    /\ lateMark \in Nat /\ mark \in Nat /\ lateMark <= mark
    /\ batch \subseteq seen /\ seen \subseteq Row /\ IsFiniteSet(batch)
    /\ running \in BOOLEAN
    /\ opened \subseteq AlertIds /\ sent \subseteq AlertIds /\ published \subseteq AlertIds
    /\ alive = TRUE
    /\ batches \in 0..MaxBatches /\ faults \in 0..MaxFaults

\* No state times out before the end of its gap.
Patient(s) == s.count > 0 => s.timeout >= Millis(s.last + Gap)
TimeoutsAhead == \A m \in Machine : Patient(store[m]) /\ Patient(fresh[m])

\* What the running attempt has made of the committed states.
Told(m) ==
    /\ m \in todo => fresh[m] = store[m]
    /\ m \in Called \ todo =>
          /\ fresh[m].open = Run(m).open /\ fresh[m].count = Run(m).count
          /\ fresh[m].last = Run(m).last
    /\ m \notin Called => fresh[m] = store[m] \/ (TimedOut(m) /\ fresh[m] = NoState)
AttemptTold == running => \A m \in Machine : Told(m)

\* What has been counted has been read.
RunsChained ==
    /\ \A m \in Machine : \A k \in 1..store[m].count : Chain(SeenOf(m), store[m].last, k)
    /\ \A id \in published : Chain(SeenOf(id[1]), id[2], ToOpen)

\* No two alerts of a machine come from one run, and none will.
RunsApart ==
    \A m \in Machine :
        /\ \A a \in AlertsOf(m) : Before(a, store[m], lateMark)
        /\ \A a, b \in AlertsOf(m) : Apart(a, b)

RunInv == Shape /\ TimeoutsAhead /\ AttemptTold /\ RunsChained /\ RunsApart

LEMMA StateIs ==
    ASSUME NEW s \in RunState \cup {NoState}
    PROVE  /\ s.open \in BOOLEAN /\ s.count \in Nat /\ s.last \in Nat /\ s.timeout \in Nat
           /\ s.count = 0 => ~s.open
           /\ s = NoState <=> s.count = 0
<1>1. CASE s \in RunState
  <2>1. s.count # 0 /\ NoState.count = 0
    BY <1>1 DEF RunState, NoState
  <2>2. s # NoState
    BY <2>1
  <2> QED
    BY <1>1, <2>1, <2>2 DEF RunState
<1>2. CASE s = NoState
  BY <1>2 DEF NoState
<1> QED
  BY <1>1, <1>2

LEMMA SetsTyped ==
    ASSUME Shape, NEW m \in Machine
    PROVE  /\ SeenOf(m) \in SUBSET Nat /\ AlertsOf(m) \in SUBSET Nat
           /\ WindowsOf(m) \in SUBSET SeenOf(m) /\ IsFiniteSet(WindowsOf(m))
           /\ \A w \in WindowsOf(m) : Millis(w + WindowLen) > lateMark
<1>1. /\ seen \subseteq Machine \X Nat /\ batch \subseteq seen /\ IsFiniteSet(batch)
      /\ opened \subseteq Machine \X Nat
  BY RowAssumption DEF Shape, AlertIds
<1>2. SeenOf(m) \in SUBSET Nat /\ AlertsOf(m) \in SUBSET Nat
  BY <1>1 DEF SeenOf, AlertsOf
<1>3. WindowsOf(m) \in SUBSET SeenOf(m)
  BY <1>1 DEF WindowsOf, SeenOf
<1>4. \A w \in WindowsOf(m) : <<m, w>> \in batch /\ Millis(w + WindowLen) > lateMark
  <2>1. ASSUME NEW r \in batch, r[1] = m, OnTime(r)
        PROVE  <<m, r[2]>> \in batch /\ Millis(r[2] + WindowLen) > lateMark
    <3>1. r = <<m, r[2]>>
      BY <1>1, <2>1
    <3> QED
      BY <2>1, <3>1 DEF OnTime
  <2> QED
    BY <2>1 DEF WindowsOf
<1>5. IsFiniteSet(WindowsOf(m))
  <2> DEFINE f == [w \in WindowsOf(m) |-> <<m, w>>]
  <2>1. f \in Injection(WindowsOf(m), batch)
    BY <1>4 DEF Injection, IsInjective
  <2> QED
    BY <1>1, <2>1, FS_Injection
<1> QED
  BY <1>2, <1>3, <1>4, <1>5

LEMMA RunTells ==
    ASSUME RunInv, NEW m \in Called
    PROVE  Tells(Run(m), m, SeenOf(m), AlertsOf(m), lateMark) /\ Run(m).count > 0
<1>1. m \in Machine /\ WindowsOf(m) # {} /\ lateMark \in Nat /\ Shape
  BY DEF Called, RunInv, Shape
<1>2. store[m] \in RunState \cup {NoState}
  BY <1>1 DEF Shape
<1>3. Tells(RunOf(store[m]), m, SeenOf(m), AlertsOf(m), lateMark)
  <2> DEFINE r == RunOf(store[m])
  <2>1. /\ r.open = store[m].open /\ r.count = store[m].count /\ r.last = store[m].last
        /\ r.out = {} /\ r \in RunStates(m)
    BY <1>2, StateIs DEF RunOf, RunStates
  <2>2. Emitted(r) = {}
    BY <2>1 DEF Emitted
  <2>3. r.count = 0 => ~r.open
    BY <1>2, <2>1, StateIs
  <2>4. \A k \in 1..r.count : Chain(SeenOf(m), r.last, k)
    BY <1>1, <2>1 DEF RunInv, RunsChained
  <2>5. \A a \in AlertsOf(m) : Before(a, r, lateMark)
    BY <1>1, <2>1 DEF RunInv, RunsApart, Before
  <2>6. \A a, b \in AlertsOf(m) : Apart(a, b)
    BY <1>1 DEF RunInv, RunsApart
  <2>7. AlertsOf(m) \cup Emitted(r) = AlertsOf(m)
    BY <2>2
  <2>8. \A w \in Emitted(r) : Chain(SeenOf(m), w, ToOpen)
    BY <2>2
  <2>9. \A a \in AlertsOf(m) \cup Emitted(r) : Before(a, r, lateMark)
    BY <2>5, <2>7
  <2>10. \A a, b \in AlertsOf(m) \cup Emitted(r) : Apart(a, b)
    BY <2>6, <2>7
  <2>11. Tells(r, m, SeenOf(m), AlertsOf(m), lateMark)
    <3> HIDE DEF r
    <3> QED
      BY <2>1, <2>3, <2>4, <2>8, <2>9, <2>10 DEF Tells
  <2> QED
    BY <2>11
<1> QED
  BY <1>1, <1>3, SetsTyped, LoopTells DEF Run

-----------------------------------------------------------------------------
(* The steps *)

LEMMA SameRuns ==
    ASSUME UNCHANGED <<store, lateMark, mark, batch>>
    PROVE  /\ Called' = Called
           /\ \A m \in Machine : Run(m)' = Run(m) /\ TimedOut(m)' = TimedOut(m)
<1>1. ASSUME NEW m \in Machine PROVE WindowsOf(m)' = WindowsOf(m)
  BY DEF WindowsOf, OnTime, Millis
<1>2. ASSUME NEW m \in Machine PROVE Run(m)' = Run(m) /\ TimedOut(m)' = TimedOut(m)
  BY <1>1 DEF Run, TimedOut
<1> QED
  BY <1>1, <1>2 DEF Called

\* What no step but the commit changes.
LEMMA SameAlerts ==
    ASSUME RunInv, UNCHANGED <<store, lateMark, opened>>
    PROVE  RunsApart'
<1>1. \A m \in Machine : AlertsOf(m)' = AlertsOf(m)
  BY DEF AlertsOf
<1> QED
  BY <1>1 DEF RunInv, RunsApart

LEMMA MoreSeen ==
    ASSUME RunInv, UNCHANGED <<store, published>>, seen \subseteq seen'
    PROVE  RunsChained'
<1>1. ASSUME NEW m PROVE SeenOf(m) \subseteq SeenOf(m)'
  BY DEF SeenOf
<1>2. ASSUME NEW m \in Machine, NEW k \in 1..store'[m].count
      PROVE  Chain(SeenOf(m)', store'[m].last, k)
  <2>1. Chain(SeenOf(m), store[m].last, k)
    BY DEF RunInv, RunsChained
  <2> QED
    BY <1>1, <2>1, ChainOfMore
<1>3. ASSUME NEW id \in published PROVE Chain(SeenOf(id[1])', id[2], ToOpen)
  <2>1. Chain(SeenOf(id[1]), id[2], ToOpen)
    BY DEF RunInv, RunsChained
  <2> QED
    BY <1>1, <2>1, ChainOfMore
<1> QED
  BY <1>2, <1>3 DEF RunsChained

\* The timeout the handler asks for is one Spark accepts.
LEMMA RequestedIs ==
    ASSUME NEW last \in Nat, mark \in Nat
    PROVE  /\ RequestedTimeout(last) \in Nat
           /\ RequestedTimeout(last) >= Millis(last + Gap) /\ RequestedTimeout(last) > mark
<1> DEFINE S == {Millis(last + Gap), mark + 1}
<1>1. Millis(last + Gap) \in Nat /\ mark + 1 \in Nat
  BY Settings DEF Millis
<1>2. S \in SUBSET Int /\ S \in SUBSET Nat /\ S # {}
  BY <1>1
<1>3. IsFiniteSet(S)
  <2>1. S = {Millis(last + Gap)} \cup {mark + 1}
    OBVIOUS
  <2> HIDE DEF S
  <2> QED
    BY <2>1, FS_Singleton, FS_AddElement
<1>4. Max(S) \in S /\ \A y \in S : y <= Max(S)
  <2> HIDE DEF S
  <2> QED
    BY <1>2, <1>3, MaxIsMember
<1>5. RequestedTimeout(last) = Max(S)
  BY DEF RequestedTimeout
<1>6. Max(S) \in Nat /\ Millis(last + Gap) <= Max(S) /\ mark + 1 <= Max(S)
  BY <1>2, <1>4
<1> HIDE DEF S
<1> QED
  BY <1>1, <1>5, <1>6

LEMMA RowsRunStep ==
    ASSUME IInv, RunInv, NEW m \in Machine, HandleRows(m)
    PROVE  RunInv'
<1> DEFINE timeout == RequestedTimeout(Run(m).last)
           s == [open |-> Run(m).open, count |-> Run(m).count,
                 last |-> Run(m).last, timeout |-> timeout]
<1>1. /\ m \in Called /\ m \in todo /\ running
      /\ UNCHANGED <<store, lateMark, mark, batch, running, opened, seen, batches, faults>>
  BY DEF HandleRows, markVars, Called, IInv
<1>2. Tells(Run(m), m, SeenOf(m), AlertsOf(m), lateMark) /\ Run(m).count > 0
  BY <1>1, RunTells
<1>3. Run(m) \in RunStates(m) /\ mark \in Nat
  BY <1>2 DEF Tells, RunInv, Shape
<1>4. /\ Run(m).open \in BOOLEAN /\ Run(m).count \in Nat /\ Run(m).last \in Nat
      /\ Run(m).out \subseteq {m} \X Nat
  BY <1>3 DEF RunStates
<1>5. timeout \in Nat /\ timeout >= Millis(Run(m).last + Gap) /\ ~(timeout < mark)
  BY <1>3, <1>4, RequestedIs
<1>6. /\ fresh' = [fresh EXCEPT ![m] = s] /\ todo' = todo \ {m}
      /\ sent' = sent \cup Run(m).out /\ published' = published \cup Run(m).out
      /\ alive' = alive
  BY <1>5 DEF HandleRows, Run
<1>7. s \in RunState /\ s.count > 0 /\ s.timeout >= Millis(s.last + Gap)
      /\ s.open = Run(m).open /\ s.count = Run(m).count /\ s.last = Run(m).last
  BY <1>2, <1>4, <1>5 DEF RunState
<1> HIDE DEF s, timeout
<1>8. fresh'[m] = s /\ \A x \in Machine : x # m => fresh'[x] = fresh[x]
  BY <1>6 DEF RunInv, Shape
<1>9. Shape'
  <2>1. fresh' \in [Machine -> RunState \cup {NoState}]
    BY <1>6, <1>7 DEF RunInv, Shape
  <2>2. sent' \subseteq AlertIds /\ published' \subseteq AlertIds
    BY <1>4, <1>6 DEF RunInv, Shape, AlertIds
  <2> QED
    BY <1>1, <1>6, <2>1, <2>2 DEF RunInv, Shape
<1>10. TimeoutsAhead'
  <2> SUFFICES ASSUME NEW x \in Machine PROVE Patient(store'[x]) /\ Patient(fresh'[x])
    BY DEF TimeoutsAhead
  <2>1. Patient(s)
    BY <1>7 DEF Patient
  <2> QED
    BY <1>1, <1>8, <2>1 DEF RunInv, TimeoutsAhead
<1>11. AttemptTold'
  <2> SUFFICES ASSUME NEW x \in Machine PROVE Told(x)'
    BY DEF AttemptTold
  <2>1. Called' = Called /\ Run(x)' = Run(x) /\ TimedOut(x)' = TimedOut(x)
    BY <1>1, SameRuns
  <2>2. Told(x)
    BY <1>1 DEF RunInv, AttemptTold
  <2>3. CASE x = m
    BY <1>1, <1>6, <1>7, <1>8, <2>1, <2>3 DEF Told
  <2>4. CASE x # m
    BY <1>1, <1>6, <1>8, <2>1, <2>2, <2>4 DEF Told
  <2> QED
    BY <2>3, <2>4
<1>12. RunsChained'
  <2>1. ASSUME NEW x PROVE SeenOf(x)' = SeenOf(x)
    BY <1>1 DEF SeenOf
  <2>2. ASSUME NEW id \in Run(m).out PROVE Chain(SeenOf(id[1]), id[2], ToOpen)
    <3>1. id[1] = m /\ id[2] \in Emitted(Run(m))
      BY <1>4 DEF Emitted
    <3> QED
      BY <1>2, <3>1 DEF Tells
  <2>3. \A id \in published' : Chain(SeenOf(id[1]), id[2], ToOpen)
    BY <1>6, <2>2 DEF RunInv, RunsChained
  <2> QED
    BY <1>1, <2>1, <2>3 DEF RunInv, RunsChained
<1>13. RunsApart'
  BY <1>1, SameAlerts
<1> QED
  BY <1>9, <1>10, <1>11, <1>12, <1>13 DEF RunInv

LEMMA TimeoutRunStep ==
    ASSUME IInv, RunInv, NEW m \in Machine, HandleTimeout(m)
    PROVE  RunInv'
<1>1. /\ m \in todo /\ m \notin Called /\ TimedOut(m) /\ running
      /\ UNCHANGED <<store, lateMark, mark, batch, running, sent, published, opened, seen,
                     alive, batches, faults>>
      /\ fresh' = [fresh EXCEPT ![m] = NoState] /\ todo' = todo \ {m}
  BY DEF HandleTimeout, Closed, markVars, outVars, Called, TimedOut, IInv
<1>2. fresh'[m] = NoState /\ \A x \in Machine : x # m => fresh'[x] = fresh[x]
  BY <1>1 DEF RunInv, Shape
<1>3. Shape'
  <2>1. fresh' \in [Machine -> RunState \cup {NoState}]
    BY <1>1 DEF RunInv, Shape
  <2> QED
    BY <1>1, <2>1 DEF RunInv, Shape
<1>4. TimeoutsAhead'
  <2> SUFFICES ASSUME NEW x \in Machine PROVE Patient(store'[x]) /\ Patient(fresh'[x])
    BY DEF TimeoutsAhead
  <2>1. Patient(NoState)
    BY DEF Patient, NoState
  <2> QED
    BY <1>1, <1>2, <2>1 DEF RunInv, TimeoutsAhead
<1>5. AttemptTold'
  <2> SUFFICES ASSUME NEW x \in Machine PROVE Told(x)'
    BY DEF AttemptTold
  <2>1. Called' = Called /\ Run(x)' = Run(x) /\ TimedOut(x)' = TimedOut(x)
    BY <1>1, SameRuns
  <2>2. Told(x)
    BY <1>1 DEF RunInv, AttemptTold
  <2>3. CASE x = m
    BY <1>1, <1>2, <2>1, <2>3 DEF Told
  <2>4. CASE x # m
    BY <1>1, <1>2, <2>1, <2>2, <2>4 DEF Told
  <2> QED
    BY <2>3, <2>4
<1>6. RunsChained' /\ RunsApart'
  BY <1>1, SameAlerts, MoreSeen
<1> QED
  BY <1>3, <1>4, <1>5, <1>6 DEF RunInv

LEMMA PlanRunStep ==
    ASSUME RunInv, NEW rows \in Batches, PlanBatch(rows)
    PROVE  RunInv'
<1>1. /\ batch' = rows /\ seen' = seen \cup rows /\ todo' = Machine /\ running' = TRUE
      /\ fresh' = store /\ sent' = {} /\ batches' = batches + 1 /\ batches < MaxBatches
      /\ UNCHANGED <<store, lateMark, mark, published, opened, alive, faults>>
      /\ rows \subseteq Row /\ IsFiniteSet(rows)
  BY DEF PlanBatch, markVars, Batches
<1>2. batches' \in 0..MaxBatches
  BY <1>1, EpisodeBoundAssumption DEF RunInv, Shape
<1>3. Shape'
  BY <1>1, <1>2 DEF RunInv, Shape
<1>4. TimeoutsAhead'
  BY <1>1 DEF RunInv, TimeoutsAhead
<1>5. AttemptTold'
  BY <1>1 DEF AttemptTold, Told
<1>6. RunsChained' /\ RunsApart'
  BY <1>1, SameAlerts, MoreSeen
<1> QED
  BY <1>3, <1>4, <1>5, <1>6 DEF RunInv

LEMMA CrashRunStep ==
    ASSUME RunInv, Crash
    PROVE  RunInv'
<1>1. /\ faults < MaxFaults /\ faults' = faults + 1 /\ todo' = Machine /\ fresh' = store
      /\ sent' = {}
      /\ UNCHANGED <<store, lateMark, mark, batch, running, published, opened, seen,
                     alive, batches>>
  BY DEF Crash, markVars
<1>2. faults' \in 0..MaxFaults
  BY <1>1, EpisodeBoundAssumption DEF RunInv, Shape
<1>3. Shape'
  BY <1>1, <1>2 DEF RunInv, Shape
<1>4. TimeoutsAhead'
  BY <1>1 DEF RunInv, TimeoutsAhead
<1>5. AttemptTold'
  BY <1>1 DEF AttemptTold, Told
<1>6. RunsChained' /\ RunsApart'
  BY <1>1, SameAlerts, MoreSeen
<1> QED
  BY <1>3, <1>4, <1>5, <1>6 DEF RunInv

\* The watermark never goes back.
LEMMA MarkAdvances ==
    ASSUME RunInv, CommitBatch
    PROVE  mark' \in Nat /\ mark <= mark'
<1> DEFINE ends == {Millis(r[2] + WindowLen - Delay) : r \in batch}
           S == {mark} \cup ends
<1>1. \A r \in batch : Millis(r[2] + WindowLen - Delay) \in Int
  BY RowAssumption, Settings DEF RunInv, Shape, Millis
<1>2. mark \in Nat /\ IsFiniteSet(batch)
  BY DEF RunInv, Shape
<1>3. IsFiniteSet(ends)
  <2> DEFINE f == [r \in batch |-> Millis(r[2] + WindowLen - Delay)]
  <2>1. f \in Surjection(batch, ends)
    BY DEF Surjection
  <2> HIDE DEF f, ends
  <2> QED
    BY <1>2, <2>1, FS_Surjection
<1>4. S \in SUBSET Int /\ S # {} /\ mark \in S
  BY <1>1, <1>2
<1>5. IsFiniteSet(S)
  <2>1. S = ends \cup {mark}
    OBVIOUS
  <2> HIDE DEF S, ends
  <2> QED
    BY <1>3, <2>1, FS_AddElement
<1>6. Max(S) \in S /\ \A y \in S : y <= Max(S)
  <2> HIDE DEF S
  <2> QED
    BY <1>4, <1>5, MaxIsMember
<1>7. mark' = Max(S)
  BY DEF CommitBatch
<1>8. Max(S) \in Int /\ mark <= Max(S)
  <2> HIDE DEF S
  <2> QED
    BY <1>4, <1>6
<1> HIDE DEF S
<1> QED
  BY <1>2, <1>7, <1>8

\* The state of a machine at the end of the batch: that of its run, the committed one, or
\* none once the gap after its last window has passed.
LEMMA CommitRunStep ==
    ASSUME IInv, RunInv, CommitBatch
    PROVE  RunInv'
<1>1. /\ running /\ running' = FALSE /\ batch' = {} /\ store' = fresh
      /\ opened' = opened \cup sent /\ lateMark' = mark /\ todo' = {}
      /\ UNCHANGED <<fresh, sent, published, seen, alive, batches, faults>>
      /\ \A m \in todo : m \notin Called
  BY DEF CommitBatch, HasCall, Called
<1>2. mark' \in Nat /\ mark <= mark'
  BY MarkAdvances
<1>3. Shape'
  <2>1. IsFiniteSet({}) /\ opened' \subseteq AlertIds
    BY <1>1, FS_EmptySet DEF RunInv, Shape
  <2> QED
    BY <1>1, <1>2, <2>1 DEF RunInv, Shape
<1>4. TimeoutsAhead' /\ AttemptTold'
  BY <1>1 DEF RunInv, TimeoutsAhead, AttemptTold
<1>5. lateMark \in Nat /\ mark \in Nat /\ lateMark <= mark /\ Shape
  BY DEF RunInv, Shape
<1>6. ASSUME NEW m \in Called
      PROVE  /\ m \in Machine /\ fresh[m].open = Run(m).open
             /\ fresh[m].count = Run(m).count /\ fresh[m].last = Run(m).last
             /\ Tells(Run(m), m, SeenOf(m), AlertsOf(m), lateMark)
  <2>1. m \in Machine /\ m \in Called \ todo
    BY <1>1 DEF Called
  <2>2. Told(m)
    BY <1>1, <2>1 DEF RunInv, AttemptTold
  <2> QED
    BY <2>1, <2>2, RunTells DEF Told
<1>7. ASSUME NEW m \in Machine, m \notin Called
      PROVE  fresh[m] = store[m] \/ (TimedOut(m) /\ fresh[m] = NoState)
  BY <1>1, <1>7 DEF RunInv, AttemptTold, Told
<1>8. RunsChained'
  <2>1. ASSUME NEW m PROVE SeenOf(m)' = SeenOf(m)
    BY <1>1 DEF SeenOf
  <2>2. ASSUME NEW m \in Machine, NEW k \in 1..fresh[m].count
        PROVE  Chain(SeenOf(m), fresh[m].last, k)
    <3>1. CASE m \in Called
      BY <1>6, <3>1 DEF Tells
    <3>2. CASE fresh[m] = store[m]
      BY <3>2 DEF RunInv, RunsChained
    <3>3. CASE fresh[m] = NoState
      BY <3>3 DEF NoState
    <3> QED
      BY <1>7, <3>1, <3>2, <3>3
  <2> QED
    BY <1>1, <2>1, <2>2 DEF RunInv, RunsChained
<1>9. ASSUME NEW m \in Machine
      PROVE  AlertsOf(m)' \subseteq AlertsOf(m) \cup (IF m \in Called THEN Emitted(Run(m)) ELSE {})
  <2> SUFFICES ASSUME NEW id \in sent, id[1] = m
               PROVE  m \in Called /\ id[2] \in Emitted(Run(m))
    BY <1>1 DEF AlertsOf
  <2>1. id \in Outputs(Called \ todo)
    BY <1>1 DEF IInv, BatchRepeats
  <2>2. PICK x \in Called : id \in Output(x)
    BY <2>1 DEF Outputs
  <2>3. Output(x) = Run(x).out
    BY DEF Output, Run
  <2>4. id \in {x} \X Nat
    BY <1>6, <2>2, <2>3 DEF Tells, RunStates
  <2> QED
    BY <2>2, <2>3, <2>4 DEF Emitted
<1>10. RunsApart'
  <2> SUFFICES ASSUME NEW m \in Machine
               PROVE  /\ \A a \in AlertsOf(m)' : Before(a, fresh[m], mark)
                      /\ \A a, b \in AlertsOf(m)' : Apart(a, b)
    BY <1>1 DEF RunsApart
  <2>1. CASE m \in Called
    <3>1. AlertsOf(m)' \subseteq AlertsOf(m) \cup Emitted(Run(m))
      BY <1>9, <2>1
    <3>2. AlertsOf(m) \cup Emitted(Run(m)) \subseteq Nat
      <4>1. AlertsOf(m) \subseteq Nat /\ Run(m) \in RunStates(m)
        BY <1>5, <1>6, <2>1, SetsTyped DEF Tells
      <4> QED
        BY <4>1 DEF Emitted, RunStates
    <3>3. \A a \in AlertsOf(m) \cup Emitted(Run(m)) : Before(a, Run(m), lateMark)
      BY <1>6, <2>1 DEF Tells
    <3>4. \A a \in AlertsOf(m)' : a \in Nat /\ Before(a, Run(m), lateMark)
      BY <3>1, <3>2, <3>3
    <3>5. \A a \in AlertsOf(m)' : Before(a, fresh[m], lateMark)
      BY <1>6, <2>1, <3>4 DEF Before
    <3>6. \A a \in AlertsOf(m)' : Before(a, fresh[m], mark)
      BY <1>5, <3>4, <3>5, BeforeLater
    <3> QED
      BY <1>6, <2>1, <3>1, <3>6 DEF Tells
  <2>2. CASE m \notin Called
    <3>1. AlertsOf(m)' \subseteq AlertsOf(m) /\ AlertsOf(m) \subseteq Nat
      BY <1>5, <1>9, <2>2, SetsTyped
    <3>2. \A a, b \in AlertsOf(m)' : Apart(a, b)
      BY <3>1 DEF RunInv, RunsApart
    <3>3. ASSUME NEW a \in AlertsOf(m)' PROVE Before(a, fresh[m], mark)
      <4>1. a \in Nat /\ Before(a, store[m], lateMark)
        BY <3>1 DEF RunInv, RunsApart
      <4>2. Before(a, store[m], mark)
        BY <1>5, <4>1, BeforeLater
      <4>3. CASE fresh[m] = store[m]
        BY <4>2, <4>3
      <4>4. CASE TimedOut(m) /\ fresh[m] = NoState
        <5>1. /\ store[m] \in RunState /\ store[m].timeout < mark
              /\ store[m].timeout >= Millis(store[m].last + Gap)
          <6>1. store[m] \in RunState /\ store[m].timeout < mark
            BY <1>5, <4>4 DEF Shape, TimedOut
          <6>2. store[m].count > 0
            BY <6>1 DEF RunState
          <6> QED
            BY <6>1, <6>2 DEF RunInv, TimeoutsAhead, Patient
        <5>2. store[m].timeout \in Nat /\ store[m].last \in Nat
          BY <5>1 DEF RunState
        <5>3. a <= store[m].last \/ Millis(a + Gap) < mark
          BY <4>2 DEF Before
        <5>4. Millis(a + Gap) < mark
          BY <1>5, <4>1, <5>1, <5>2, <5>3, Settings DEF Millis
        <5> QED
          BY <4>4, <5>4 DEF Before, NoState
      <4> QED
        BY <1>7, <2>2, <4>3, <4>4
    <3> QED
      BY <3>2, <3>3
  <2> QED
    BY <2>1, <2>2
<1> QED
  BY <1>3, <1>4, <1>8, <1>10 DEF RunInv

-----------------------------------------------------------------------------
(* The theorems *)

\* What an attempt sends is settled by the committed state and the planned
\* rows, whatever crashes in the middle of it.
THEOREM Invariance == Spec => []IInv
<1>1. Init => IInv
  BY DEF Init, IInv, BatchRepeats, ReplayAddsNothing
<1>2. IInv /\ [Next]_vars => IInv'
  <2> SUFFICES ASSUME IInv, [Next]_vars PROVE IInv'
    OBVIOUS
  <2>1. CASE UNCHANGED vars
    <3>1. UNCHANGED <<store, lateMark, batch, todo, running, sent, published, opened>>
      BY <2>1 DEF vars, stateVars, markVars, outVars
    <3>2. Called' = Called
      BY <3>1, SameBatch
    <3> QED
      BY <3>1, <3>2, QuietStep
  <2> QED
    BY <2>1, RowsStep, TimeoutStep, PlanStep, CommitStep, CrashStep DEF Next
<1> QED
  BY <1>1, <1>2, PTL DEF Spec

\* Between batches every identifier on the alerts topic is one that a
\* committed attempt sent: replays add nothing, for any number of crashes.
THEOREM Replay == Spec => []ReplayAddsNothing
<1>1. IInv => ReplayAddsNothing
  BY DEF IInv
<1> QED
  BY <1>1, Invariance, PTL

LEMMA InitOK == Init => RunInv
<1> SUFFICES ASSUME Init PROVE RunInv
  OBVIOUS
<1>1. /\ store = [m \in Machine |-> NoState] /\ fresh = store /\ batch = {} /\ seen = {}
      /\ lateMark = 0 /\ mark = 0 /\ running = FALSE /\ sent = {} /\ published = {}
      /\ opened = {} /\ alive = TRUE /\ batches = 0 /\ faults = 0
  BY DEF Init
<1>2. Shape
  <2>1. NoState \in RunState \cup {NoState} /\ IsFiniteSet({})
    BY FS_EmptySet
  <2>2. /\ store \in [Machine -> RunState \cup {NoState}]
        /\ fresh \in [Machine -> RunState \cup {NoState}]
    BY <1>1, <2>1
  <2>3. batches \in 0..MaxBatches /\ faults \in 0..MaxFaults
    BY <1>1, EpisodeBoundAssumption
  <2>4. lateMark \in Nat /\ mark \in Nat /\ lateMark <= mark
    BY <1>1
  <2>5. /\ batch \subseteq seen /\ seen \subseteq Row /\ IsFiniteSet(batch)
        /\ running \in BOOLEAN /\ alive = TRUE
        /\ opened \subseteq AlertIds /\ sent \subseteq AlertIds /\ published \subseteq AlertIds
    BY <1>1, <2>1
  <2> QED
    BY <2>2, <2>3, <2>4, <2>5 DEF Shape
<1>3. TimeoutsAhead /\ RunsChained
  BY <1>1 DEF TimeoutsAhead, Patient, RunsChained, NoState
<1>4. AttemptTold /\ RunsApart
  BY <1>1 DEF AttemptTold, RunsApart, AlertsOf
<1> QED
  BY <1>2, <1>3, <1>4 DEF RunInv

\* Whatever is read, in which batches, however late, and wherever a crash
\* cuts them: the state of a machine tells its run from the ones before it.
THEOREM RunInvariance == Spec => []RunInv
<1>1. IInv /\ RunInv /\ [Next]_vars => RunInv'
  <2> SUFFICES ASSUME IInv, RunInv, [Next]_vars PROVE RunInv'
    OBVIOUS
  <2>1. CASE UNCHANGED vars
    <3>1. UNCHANGED <<store, fresh, lateMark, mark, batch, todo, running, sent, published,
                      opened, seen, alive, batches, faults>>
      BY <2>1 DEF vars, stateVars, markVars, outVars
    <3>2. Shape' /\ TimeoutsAhead'
      BY <3>1 DEF RunInv, Shape, TimeoutsAhead
    <3>3. AttemptTold'
      BY <3>1, SameRuns DEF RunInv, AttemptTold, Told
    <3>4. RunsChained' /\ RunsApart'
      BY <3>1, SameAlerts, MoreSeen
    <3> QED
      BY <3>2, <3>3, <3>4 DEF RunInv
  <2> QED
    BY <2>1, RowsRunStep, TimeoutRunStep, PlanRunStep, CommitRunStep, CrashRunStep DEF Next
<1> QED
  BY InitOK, Invariance, <1>1, PTL DEF Spec

\* The states, the watermarks, the batch and what is sent keep their types.
THEOREM TypeCorrect == Spec => []TypeOK
<1>1. IInv /\ RunInv => TypeOK
  BY DEF IInv, RunInv, Shape, TypeOK
<1> QED
  BY <1>1, Invariance, RunInvariance, PTL

\* The query never dies of a timeout behind the watermark: whatever the rows,
\* the handler's clamp is past it.
THEOREM NeverKilled == Spec => []QueryNeverKilled
<1>1. RunInv => QueryNeverKilled
  BY DEF RunInv, Shape, QueryNeverKilled
<1> QED
  BY <1>1, RunInvariance, PTL

\* An alert names a window that was read and has its number of distinct
\* windows behind it, none older than as many gaps as there are between them,
\* however batches, repeated updates and crashes cut the run.
THEOREM NeedsRun == Spec => []AlertNeedsRun
<1>1. RunInv => AlertNeedsRun
  <2> SUFFICES ASSUME RunInv, NEW id \in published
               PROVE  LET span == {r[2] : r \in {x \in seen : /\ x[1] = id[1]
                                                             /\ x[2] <= id[2]
                                                             /\ id[2] - x[2] <= Gap * (ToOpen - 1)}}
                      IN  id[2] \in span /\ Cardinality(span) >= ToOpen
    BY DEF AlertNeedsRun
  <2> DEFINE span == {r[2] : r \in {x \in seen : /\ x[1] = id[1]
                                                 /\ x[2] <= id[2]
                                                 /\ id[2] - x[2] <= Gap * (ToOpen - 1)}}
  <2>1. PICK c \in SUBSET SeenOf(id[1]) :
            /\ IsFiniteSet(c) /\ Cardinality(c) = ToOpen /\ id[2] \in c
            /\ \A x \in c : x <= id[2] /\ id[2] - x <= Gap * (ToOpen - 1)
    BY DEF RunInv, RunsChained, Chain
  <2>2. c \subseteq span
    BY <2>1 DEF SeenOf
  <2>3. seen \subseteq Machine \X Nat /\ id[2] \in Nat
    BY RowAssumption DEF RunInv, Shape, AlertIds
  <2>4. span \in SUBSET Nat /\ \A w \in span : w <= id[2]
    BY <2>3
  <2>5. IsFiniteSet(span)
    <3> HIDE DEF span
    <3> QED
      BY <2>3, <2>4, FS_BoundedSetOfNaturals
  <2>6. Cardinality(c) <= Cardinality(span) /\ Cardinality(span) \in Nat
    <3> HIDE DEF span
    <3> QED
      BY <2>2, <2>5, FS_Subset, FS_CardinalityType
  <2>7. Cardinality(span) >= ToOpen
    <3> HIDE DEF span
    <3> QED
      BY <2>1, <2>6, Settings
  <2> HIDE DEF span
  <2>8. id[2] \in span /\ Cardinality(span) >= ToOpen
    BY <2>1, <2>2, <2>7
  <2> QED
    BY <2>8 DEF span
<1> QED
  BY <1>1, RunInvariance, PTL

\* A run of anomalous windows is one alert: the alerts of a machine, those of
\* an attempt that has crashed included, are at least a run apart.
THEOREM OneAlert == Spec => []OneAlertPerRun
<1>1. IInv /\ RunInv => OneAlertPerRun
  <2> SUFFICES ASSUME IInv, RunInv, NEW a \in published, NEW b \in published,
                      a[1] = b[1], a[2] < b[2]
               PROVE  b[2] - a[2] > Gap - WindowLen + ToOpen - 1
    BY DEF OneAlertPerRun
  <2> DEFINE m == a[1]
  <2>1. published \subseteq Machine \X Nat /\ m \in Machine
    BY DEF RunInv, Shape, AlertIds
  <2>2. CASE m \in Called /\ running
    <3>1. ASSUME NEW id \in published, id[1] = m PROVE id[2] \in AlertsOf(m) \cup Emitted(Run(m))
      <4>1. CASE id \in opened
        BY <3>1, <4>1 DEF AlertsOf
      <4>2. CASE id \in Outputs(Called)
        <5>1. PICK x \in Called : id \in Run(x).out
          BY <4>2 DEF Outputs, Output, Run
        <5>2. id \in {x} \X Nat
          BY <5>1, RunTells DEF Tells, RunStates
        <5> QED
          BY <3>1, <5>1, <5>2 DEF Emitted
      <4> QED
        BY <2>2, <4>1, <4>2 DEF IInv, BatchRepeats
    <3>2. \A v, w \in AlertsOf(m) \cup Emitted(Run(m)) : Apart(v, w)
      BY <2>2, RunTells DEF Tells
    <3> QED
      BY <3>1, <3>2 DEF Apart
  <2>3. CASE ~(m \in Called /\ running)
    <3>1. ASSUME NEW id \in published, id[1] = m PROVE id \in opened
      <4>1. CASE ~running
        BY <4>1 DEF IInv, ReplayAddsNothing
      <4>2. CASE running /\ id \in Outputs(Called)
        <5>1. PICK x \in Called : id \in Run(x).out
          BY <4>2 DEF Outputs, Output, Run
        <5>2. id \in {x} \X Nat
          BY <5>1, RunTells DEF Tells, RunStates
        <5> QED
          BY <2>3, <3>1, <4>2, <5>2
      <4> QED
        BY <4>1, <4>2 DEF IInv, BatchRepeats
    <3>2. a[2] \in AlertsOf(m) /\ b[2] \in AlertsOf(m)
      BY <3>1 DEF AlertsOf
    <3> QED
      BY <2>1, <3>2 DEF RunInv, RunsApart, Apart
  <2> QED
    BY <2>2, <2>3
<1> QED
  BY <1>1, Invariance, RunInvariance, PTL

=============================================================================
