----------------------- MODULE TokenReviewTimeProofs -----------------------
(***************************************************************************)
(* How long a review waits, for any number of reviews, sources and token   *)
(* endpoints: InTime.                                                      *)
(*                                                                         *)
(* A review in the queue of a mutex waits for what is left of the time of  *)
(* the holder (Left), for those ahead of it in the queue (Ahead), and, as  *)
(* long as the mutex is not handed over in order, for one newcomer that    *)
(* may be faster than the head of the queue (Grace).  Whatever is done,    *)
(* and while time passes, this and what it has waited so far stay below    *)
(* the limit (Due).  One newcomer only: a queue is Ordered, so if anybody  *)
(* in it has waited then its head has, and the next newcomer starts the    *)
(* handing over.                                                           *)
(***************************************************************************)
EXTENDS TokenReviewProofs, FiniteSetTheorems

(* How long a process may hold a mutex: a build that of the configurator,  *)
(* a fetch that of a token source.  A review only reads under mu.          *)
Cost(m, p) ==
    IF m = mu THEN (IF p = Configurator THEN BuildTime ELSE 0) ELSE tokenEndpointRequestTimeout

Grace(m) == IF m = mu THEN BuildTime ELSE tokenEndpointRequestTimeout

Limit(m) ==
    IF m = mu THEN 2 * BuildTime ELSE (Cardinality(Reviews) + 1) * tokenEndpointRequestTimeout

(* What those before place k of queue q may take.                          *)
Ahead(m, q, k) ==
    IF m = mu
    THEN (IF \E j \in 1..k - 1 : q[j] = Configurator THEN BuildTime ELSE 0)
    ELSE (k - 1) * tokenEndpointRequestTimeout

Timer(p) == IF p = Configurator THEN loader.timer ELSE review[p].timer

(* What is left of the holder's time.                                      *)
Left(m) ==
    LET p == mutex[m].holder
    IN IF p = Nil THEN 0
       ELSE IF InSection(m, p) THEN Cost(m, p) - Timer(p)
       ELSE Cost(m, p)

Turn(m, mx, h, k) ==
    h + Ahead(m, mx.queue, k) + (IF mx.starving THEN 0 ELSE Grace(m)) + Cost(m, Observed)

Due(m, mx, h) ==
    /\ \A k \in DOMAIN mx.queue :
         mx.queue[k] = Observed => waited + Turn(m, mx, h, k) <= Limit(m)
    /\ mx.holder = Observed => waited + h <= Limit(m)

Ordered(q) == \A j, k \in DOMAIN q : j < k /\ Waiting(q[k]) => Waiting(q[j])

(* The observed review has waited only where there is something to wait    *)
(* for, and a request to a source takes no longer than its timeout.        *)
Stays(v, w) ==
    /\ v.step \notin {"mu", "wait", "fetch", "request"} => w = 0
    /\ v.step \in {"mu", "wait"} /\ v.timer = 0 => w = 0
    /\ v.step = "request" =>
         w <= v.timer + (IF <<v.asked, v.source>> \in TokenSources
                         THEN Limit(<<v.asked, v.source>>) ELSE 0)

MutexTime(m) == Ordered(mutex[m].queue) /\ Due(m, mutex[m], Left(m))

TimeInv ==
    /\ loader.at = "build" => loader.timer <= BuildTime
    /\ Stays(review[Observed], waited)
    /\ \A m \in Mutexes : MutexTime(m)

-----------------------------------------------------------------------------
(* Validation limits the token sources of what a reload builds, so a build *)
(* ends.                                                                   *)
LEMMA BuildEnds == BuildTime \in Nat
  BY MaxTokenSourcesAssumption DEF BuildTime, TimeToBuild, tokenEndpointRequestTimeout

LEMMA ReviewsCounted == Cardinality(Reviews) \in Nat
  BY NamesAssumption, FS_CardinalityType

(* Times are natural numbers.                                              *)
LEMMA TimesAreNumbers ==
    ASSUME NEW m
    PROVE  /\ Grace(m) \in Nat /\ Limit(m) \in Nat /\ Grace(m) <= Limit(m)
           /\ \A p : Cost(m, p) \in Nat /\ Cost(m, p) <= Grace(m)
           /\ \A q : \A k \in Nat \ {0} : Ahead(m, q, k) \in Nat
<1>1. CASE m = mu
  BY <1>1, BuildEnds DEF Grace, Limit, Cost, Ahead
<1>2. CASE m # mu
  BY <1>2, ReviewsCounted DEF Grace, Limit, Cost, Ahead, tokenEndpointRequestTimeout
<1> QED
  BY <1>1, <1>2

(* Nobody queues twice: a queue and the holder are no more than there are  *)
(* reviews.                                                                *)
LEMMA QueueIsShort ==
    ASSUME NEW mx, Sound(mx), Line(mx) \subseteq Reviews
    PROVE  /\ Len(mx.queue) <= Cardinality(Reviews)
           /\ mx.holder \in Reviews => Len(mx.queue) + 1 <= Cardinality(Reviews)
<1> DEFINE q == mx.queue
           n == Len(mx.queue)
<1>1. q \in Seq(Processes) /\ n \in Nat /\ DOMAIN q = 1..n
  <2>1. q \in Seq(Processes)
    BY MutexFields DEF Sound
  <2> QED
    BY <2>1
<1>2. \A k \in 1..n : q[k] \in Reviews
  BY <1>1 DEF Line, Elements
<1>3. \A j, k \in 1..n : q[j] = q[k] => j = k
  BY <1>1 DEF Sound, Distinct
<1>4. IsFiniteSet(Reviews) /\ Cardinality(Reviews) \in Nat
  BY NamesAssumption, ReviewsCounted
<1>5. n <= Cardinality(Reviews)
  <2>1. IsFiniteSet(1..n) /\ Cardinality(1..n) = n
    BY <1>1, FS_Interval
  <2>2. q \in [1..n -> Reviews]
    BY <1>1, <1>2
  <2>3. ~(Cardinality(Reviews) < Cardinality(1..n))
    <3> SUFFICES ASSUME Cardinality(Reviews) < Cardinality(1..n)
                 PROVE  FALSE
      OBVIOUS
    <3> HIDE DEF q, n
    <3>1. \E j, k \in 1..n : j # k /\ q[j] = q[k]
      BY <1>4, <2>1, <2>2, FS_PigeonHole
    <3> QED
      BY <1>3, <3>1
  <2> QED
    BY <1>1, <1>4, <2>1, <2>3
<1>6. ASSUME mx.holder \in Reviews
      PROVE  n + 1 <= Cardinality(Reviews)
  <2> DEFINE f == [k \in 1..n + 1 |-> IF k = n + 1 THEN mx.holder ELSE q[k]]
  <2>1. IsFiniteSet(1..n + 1) /\ Cardinality(1..n + 1) = n + 1
    BY <1>1, FS_Interval
  <2>2. f \in [1..n + 1 -> Reviews]
    BY <1>1, <1>2, <1>6
  <2>3. \A k \in 1..n : q[k] # mx.holder
    BY <1>1 DEF Sound, Line, Elements
  <2>4. \A j, k \in 1..n + 1 : f[j] = f[k] => j = k
    BY <1>1, <1>3, <2>3
  <2>5. ~(Cardinality(Reviews) < Cardinality(1..n + 1))
    <3> SUFFICES ASSUME Cardinality(Reviews) < Cardinality(1..n + 1)
                 PROVE  FALSE
      OBVIOUS
    <3> HIDE DEF q, n, f
    <3>1. \E j, k \in 1..n + 1 : j # k /\ f[j] = f[k]
      BY <1>4, <2>1, <2>2, FS_PigeonHole
    <3> QED
      BY <2>4, <3>1
  <2> QED
    BY <1>1, <1>4, <2>1, <2>5
<1> QED
  BY <1>5, <1>6

LEMMA ObservedIsReview ==
    /\ Observed \in Reviews /\ Observed \in Processes /\ Observed # Configurator /\ Observed # Nil
    /\ Cost(mu, Observed) = 0
  BY NamesAssumption DEF Processes, Cost

(* The time of a holder from the moment it has the mutex.                  *)
Full(m, p) == IF p = Nil THEN 0 ELSE Cost(m, p)

(* Those that queue for a token source or hold it are reviews.             *)
ForReviews(m, mx) == m # mu => Line(mx) \subseteq Reviews /\ mx.holder \in Reviews \cup {Nil}

(* Who has not waited yet can still wait for its turn.                     *)
LEMMA TurnBounded ==
    ASSUME NEW m, NEW mx, Sound(mx), ForReviews(m, mx),
           NEW h \in Nat, h <= Full(m, mx.holder), NEW k \in DOMAIN mx.queue
    PROVE  Turn(m, mx, h, k) \in Nat /\ Turn(m, mx, h, k) <= Limit(m)
<1> DEFINE q == mx.queue
           s == IF mx.starving THEN 0 ELSE Grace(m)
<1>1. q \in Seq(Processes) /\ mx.holder \in Processes \cup {Nil}
  BY MutexFields DEF Sound
<1>2. k \in Nat \ {0} /\ k <= Len(q) /\ Len(q) \in Nat /\ DOMAIN q = 1..Len(q)
  <2>1. DOMAIN q = 1..Len(q) /\ Len(q) \in Nat
    BY <1>1
  <2>2. k \in DOMAIN q
    OBVIOUS
  <2> HIDE DEF q
  <2> QED
    BY <2>1, <2>2
<1>3. s \in Nat /\ s <= Grace(m) /\ Grace(m) \in Nat /\ Limit(m) \in Nat
  BY TimesAreNumbers
<1>4. Turn(m, mx, h, k) = h + Ahead(m, q, k) + s + Cost(m, Observed)
  BY DEF Turn
<1>5. Ahead(m, q, k) \in Nat /\ Cost(m, Observed) \in Nat
  BY <1>2, TimesAreNumbers
<1>6. CASE m = mu
  <2>1. Grace(m) = BuildTime /\ Limit(m) = 2 * BuildTime /\ Cost(m, Observed) = 0 /\ BuildTime \in Nat
    BY <1>6, ObservedIsReview, BuildEnds DEF Grace, Limit
  <2>2. CASE mx.holder = Configurator
    <3>1. \A j \in 1..k - 1 : q[j] # Configurator
      BY <1>2, <2>2 DEF Sound, Line, Elements
    <3>2. Ahead(m, q, k) = 0
      BY <1>6, <3>1 DEF Ahead
    <3>3. h <= BuildTime
      BY <1>6, <2>1, <2>2, NamesAssumption DEF Full, Cost
    <3> HIDE DEF q, s
    <3> QED
      BY <1>3, <1>4, <2>1, <3>2, <3>3
  <2>3. CASE mx.holder # Configurator
    <3>1. h = 0
      BY <1>6, <2>3 DEF Full, Cost
    <3>2. Ahead(m, q, k) <= BuildTime
      BY <1>6, <2>1 DEF Ahead
    <3> HIDE DEF q, s
    <3> QED
      BY <1>3, <1>4, <1>5, <2>1, <3>1, <3>2
  <2> QED
    BY <2>2, <2>3
<1>7. CASE m # mu
  <2> DEFINE n == Cardinality(Reviews)
  <2>1. /\ Grace(m) = 2 /\ Limit(m) = (n + 1) * 2 /\ Cost(m, Observed) = 2
        /\ Ahead(m, q, k) = (k - 1) * 2 /\ n \in Nat
    BY <1>7, ReviewsCounted DEF Grace, Limit, Cost, Ahead, tokenEndpointRequestTimeout
  <2>2. /\ Len(q) <= n /\ (mx.holder \in Reviews => Len(q) + 1 <= n)
        /\ mx.holder \in Reviews \cup {Nil}
    BY <1>7, QueueIsShort DEF ForReviews
  <2>3. h <= 2 /\ (mx.holder = Nil => h = 0)
    BY <1>7 DEF Full, Cost, tokenEndpointRequestTimeout
  <2> HIDE DEF q, s, n
  <2> QED
    BY <1>2, <1>3, <1>4, <2>1, <2>2, <2>3
<1> QED
  BY <1>6, <1>7

(* Without its head a queue takes less by the head's time.                 *)
LEMMA AheadTail ==
    ASSUME NEW m, NEW q \in Seq(Processes), q # <<>>, Distinct(q), NEW k \in DOMAIN Tail(q)
    PROVE  /\ k + 1 \in DOMAIN q /\ Tail(q)[k] = q[k + 1] /\ Len(q) > 1
           /\ Ahead(m, q, k + 1) = Cost(m, Head(q)) + Ahead(m, Tail(q), k)
<1>1. /\ Len(q) \in Nat /\ DOMAIN q = 1..Len(q) /\ DOMAIN Tail(q) = 1..Len(q) - 1
      /\ \A j \in 1..Len(q) - 1 : Tail(q)[j] = q[j + 1]
      /\ Head(q) = q[1]
  OBVIOUS
<1>2. k \in Nat \ {0} /\ k + 1 \in DOMAIN q /\ Tail(q)[k] = q[k + 1] /\ Len(q) > 1
  BY <1>1
<1>3. CASE m # mu
  BY <1>2, <1>3 DEF Ahead, Cost, tokenEndpointRequestTimeout
<1>4. CASE m = mu
  <2>1. CASE q[1] = Configurator
    <3>1. \A j \in 1..k - 1 : q[j + 1] # Configurator
      BY <1>1, <1>2, <2>1 DEF Distinct
    <3>2. \A j \in 1..k - 1 : Tail(q)[j] # Configurator
      BY <1>1, <1>2, <3>1
    <3>3. 1 \in 1..k + 1 - 1
      BY <1>2
    <3> QED
      BY <1>1, <1>2, <1>4, <2>1, <3>2, <3>3, BuildEnds DEF Ahead, Cost
  <2>2. CASE q[1] # Configurator
    <3>1. (\E j \in 1..k + 1 - 1 : q[j] = Configurator) <=> \E j \in 1..k - 1 : Tail(q)[j] = Configurator
      <4>1. ASSUME NEW j \in 1..k + 1 - 1, q[j] = Configurator
            PROVE  \E i \in 1..k - 1 : Tail(q)[i] = Configurator
        <5>1. j - 1 \in 1..k - 1 /\ Tail(q)[j - 1] = q[j]
          BY <1>1, <1>2, <2>2, <4>1
        <5> QED
          BY <4>1, <5>1
      <4>2. ASSUME NEW j \in 1..k - 1, Tail(q)[j] = Configurator
            PROVE  \E i \in 1..k + 1 - 1 : q[i] = Configurator
        <5>1. j + 1 \in 1..k + 1 - 1 /\ Tail(q)[j] = q[j + 1]
          BY <1>1, <1>2
        <5> QED
          BY <4>2, <5>1
      <4> QED
        BY <4>1, <4>2
    <3> QED
      BY <1>1, <1>2, <1>4, <2>2, <3>1, BuildEnds DEF Ahead, Cost
  <2> QED
    BY <2>1, <2>2
<1> QED
  BY <1>2, <1>3, <1>4

(* The holder releases the mutex.                                          *)
LEMMA DueUnlock ==
    ASSUME NEW m, NEW mx, Sound(mx), NEW h \in Nat, waited \in Nat,
           Due(m, mx, h), mx.holder # Observed
    PROVE  Due(m, Unlock(mx), Full(m, Unlock(mx).holder))
<1> DEFINE q == mx.queue
           new == Unlock(mx)
<1>1. mx \in Mutex /\ q \in Seq(Processes) /\ Distinct(q)
  BY MutexFields DEF Sound
<1>2. Limit(m) \in Nat /\ Grace(m) \in Nat /\ Cost(m, Observed) \in Nat
  BY TimesAreNumbers
<1>3. CASE mx.starving
  <2>1. q # <<>>
    BY <1>3 DEF Sound
  <2>2. new.holder = Head(q) /\ new.queue = Tail(q) /\ new.starving = (Len(q) > 1)
    BY <1>3 DEF Unlock
  <2>3. Head(q) \in Processes /\ Head(q) # Nil /\ Full(m, new.holder) = Cost(m, Head(q))
    BY <1>1, <2>1, <2>2, NamesAssumption DEF Processes, Full
  <2>4. ASSUME NEW k \in DOMAIN Tail(q), Tail(q)[k] = Observed
        PROVE  waited + Turn(m, new, Cost(m, Head(q)), k) <= Limit(m)
    <3>1. /\ k + 1 \in DOMAIN q /\ q[k + 1] = Observed /\ Len(q) > 1
          /\ Ahead(m, q, k + 1) = Cost(m, Head(q)) + Ahead(m, Tail(q), k)
      BY <1>1, <2>1, <2>4, AheadTail
    <3>2. waited + Turn(m, mx, h, k + 1) <= Limit(m)
      BY <3>1 DEF Due
    <3>3. Turn(m, mx, h, k + 1) = h + Ahead(m, q, k + 1) + 0 + Cost(m, Observed)
      BY <1>3 DEF Turn
    <3>4. Turn(m, new, Cost(m, Head(q)), k) = Cost(m, Head(q)) + Ahead(m, Tail(q), k) + 0 + Cost(m, Observed)
      BY <2>2, <3>1 DEF Turn
    <3>5. Cost(m, Head(q)) \in Nat /\ Ahead(m, Tail(q), k) \in Nat
      <4>1. k \in Nat \ {0}
        BY <1>1, <2>1
      <4> QED
        BY <4>1, TimesAreNumbers
    <3> HIDE DEF q, new
    <3> QED
      BY <1>2, <3>1, <3>2, <3>3, <3>4, <3>5
  <2>5. ASSUME Head(q) = Observed
        PROVE  waited + Cost(m, Head(q)) <= Limit(m)
    <3>1. 1 \in DOMAIN q /\ q[1] = Observed
      BY <1>1, <2>1, <2>5
    <3>2. waited + Turn(m, mx, h, 1) <= Limit(m)
      BY <3>1 DEF Due
    <3>3. Turn(m, mx, h, 1) = h + Ahead(m, q, 1) + 0 + Cost(m, Observed) /\ Ahead(m, q, 1) \in Nat
      BY <1>3, TimesAreNumbers DEF Turn
    <3> HIDE DEF q
    <3> QED
      BY <1>2, <2>5, <3>2, <3>3
  <2> HIDE DEF new
  <2>6. Due(m, new, Cost(m, Head(q)))
    BY <2>2, <2>4, <2>5 DEF Due
  <2> QED
    BY <2>3, <2>6 DEF new
<1>4. CASE ~mx.starving
  <2>1. new.holder = Nil /\ new.queue = q /\ new.starving = mx.starving
    BY <1>1, <1>4 DEF Unlock, Mutex
  <2>2. Full(m, new.holder) = 0
    BY <2>1 DEF Full
  <2>3. ASSUME NEW k \in DOMAIN q, q[k] = Observed
        PROVE  waited + Turn(m, new, 0, k) <= Limit(m)
    <3>1. waited + Turn(m, mx, h, k) <= Limit(m)
      BY <2>3 DEF Due
    <3>2. /\ Turn(m, mx, h, k) = h + Ahead(m, q, k) + Grace(m) + Cost(m, Observed)
          /\ Turn(m, new, 0, k) = 0 + Ahead(m, q, k) + Grace(m) + Cost(m, Observed)
      BY <1>4, <2>1 DEF Turn
    <3>3. Ahead(m, q, k) \in Nat
      <4>1. k \in Nat \ {0}
        BY <1>1
      <4> QED
        BY <4>1, TimesAreNumbers
    <3> HIDE DEF q, new
    <3> QED
      BY <1>2, <3>1, <3>2, <3>3
  <2> HIDE DEF new
  <2>4. Due(m, new, 0)
    BY <2>1, <2>3, ObservedIsReview DEF Due
  <2> QED
    BY <2>2, <2>4 DEF new
<1> QED
  BY <1>3, <1>4

(* A process that waited has the mutex, or takes it.                       *)
LEMMA DueWoke ==
    ASSUME NEW m \in Mutexes, NEW p \in Processes, Sound(mutex[m]), waited \in Nat, Woken(m, p),
           Due(m, mutex[m], Full(m, mutex[m].holder))
    PROVE  Due(m, Woke(m, p), Cost(m, p))
<1> DEFINE mx == mutex[m]
           q == mx.queue
           new == Woke(m, p)
<1>1. mx \in Mutex /\ q \in Seq(Processes) /\ Distinct(q) /\ p # Nil
  BY MutexFields, NamesAssumption DEF Sound, Processes
<1>2. Limit(m) \in Nat /\ Grace(m) \in Nat /\ Cost(m, Observed) \in Nat /\ Cost(m, p) \in Nat
  BY TimesAreNumbers
<1>3. CASE mx.holder = p
  BY <1>1, <1>3 DEF Woke, Full
<1>4. CASE mx.holder # p
  <2>1. mx.holder = Nil /\ q # <<>> /\ Head(q) = p /\ ~mx.starving
    BY <1>4 DEF Woken, Free, Sound
  <2>2. new.holder = p /\ new.queue = Tail(q) /\ new.starving = mx.starving
    BY <1>1, <1>4 DEF Woke, Mutex
  <2>3. Full(m, mx.holder) = 0
    BY <2>1 DEF Full
  <2>4. ASSUME NEW k \in DOMAIN Tail(q), Tail(q)[k] = Observed
        PROVE  waited + Turn(m, new, Cost(m, p), k) <= Limit(m)
    <3>1. /\ k + 1 \in DOMAIN q /\ q[k + 1] = Observed
          /\ Ahead(m, q, k + 1) = Cost(m, Head(q)) + Ahead(m, Tail(q), k)
      BY <1>1, <2>1, <2>4, AheadTail
    <3>2. waited + Turn(m, mx, 0, k + 1) <= Limit(m)
      BY <2>3, <3>1 DEF Due
    <3>3. Turn(m, mx, 0, k + 1) = 0 + Ahead(m, q, k + 1) + Grace(m) + Cost(m, Observed)
      BY <2>1 DEF Turn
    <3>4. Turn(m, new, Cost(m, p), k) = Cost(m, p) + Ahead(m, Tail(q), k) + Grace(m) + Cost(m, Observed)
      BY <2>1, <2>2 DEF Turn
    <3>5. Ahead(m, Tail(q), k) \in Nat
      <4>1. k \in Nat \ {0}
        BY <1>1, <2>1
      <4> QED
        BY <4>1, TimesAreNumbers
    <3>6. Turn(m, new, Cost(m, p), k) = Turn(m, mx, 0, k + 1)
      <4> HIDE DEF q, new, mx
      <4> QED
        BY <1>2, <2>1, <3>1, <3>3, <3>4, <3>5
    <3> QED
      BY <3>2, <3>6
  <2>5. ASSUME p = Observed
        PROVE  waited + Cost(m, p) <= Limit(m)
    <3>1. 1 \in DOMAIN q /\ q[1] = Observed
      BY <1>1, <2>1, <2>5
    <3>2. waited + Turn(m, mx, 0, 1) <= Limit(m)
      BY <2>3, <3>1 DEF Due
    <3>3. Turn(m, mx, 0, 1) = 0 + Ahead(m, q, 1) + Grace(m) + Cost(m, Observed)
      BY <2>1 DEF Turn
    <3>4. Ahead(m, q, 1) \in Nat
      BY TimesAreNumbers
    <3> HIDE DEF q, mx
    <3> QED
      BY <1>2, <2>5, <3>2, <3>3, <3>4
  <2> HIDE DEF new
  <2>6. Due(m, new, Cost(m, p))
    BY <2>2, <2>4, <2>5 DEF Due
  <2> QED
    BY <2>6 DEF new
<1> QED
  BY <1>3, <1>4

(* A newcomer locks a free mutex.  If somebody in the queue has waited     *)
(* then the newcomer is the last one.                                      *)
LEMMA DueLock ==
    ASSUME NEW m \in Mutexes, NEW p \in Processes, Sound(mutex[m]), Free(m),
           p \notin Line(mutex[m]), m # mu => p \in Reviews, ForReviews(m, mutex[m]),
           waited \in Nat, Due(m, mutex[m], 0), Ordered(mutex[m].queue),
           Observed \in Line(mutex[m]) /\ ~Waiting(Observed) => waited = 0,
           p = Observed => waited = 0
    PROVE  Due(m, Lock(m, p), Cost(m, p))
<1> DEFINE mx == mutex[m]
           q == mx.queue
           new == Lock(m, p)
<1>1. mx \in Mutex /\ q \in Seq(Processes) /\ p # Nil /\ mx.holder = Nil /\ ~mx.starving
  BY MutexFields, NamesAssumption DEF Sound, Processes, Free
<1>2. /\ Limit(m) \in Nat /\ Grace(m) \in Nat /\ Cost(m, Observed) \in Nat /\ Cost(m, p) \in Nat
      /\ Cost(m, p) <= Grace(m) /\ Grace(m) <= Limit(m)
  BY TimesAreNumbers
<1>3. /\ Sound(new) /\ new.holder = p /\ new.queue = q /\ Line(new) = Line(mx)
      /\ new.starving = (q # <<>> /\ Waiting(Head(q)))
  BY LockSound
<1>4. ASSUME NEW k \in DOMAIN q, q[k] = Observed
      PROVE  waited + Turn(m, new, Cost(m, p), k) <= Limit(m)
  <2>1. k \in Nat \ {0} /\ q # <<>> /\ 1 \in DOMAIN q /\ Head(q) = q[1]
    BY <1>1
  <2>2. Ahead(m, q, k) \in Nat
    BY <2>1, TimesAreNumbers
  <2>3. CASE Waiting(Head(q))
    <3>1. Turn(m, new, Cost(m, p), k) = Cost(m, p) + Ahead(m, q, k) + 0 + Cost(m, Observed)
      BY <1>3, <2>1, <2>3 DEF Turn
    <3>2. waited + Turn(m, mx, 0, k) <= Limit(m)
      BY <1>4 DEF Due
    <3>3. Turn(m, mx, 0, k) = 0 + Ahead(m, q, k) + Grace(m) + Cost(m, Observed)
      BY <1>1 DEF Turn
    <3> HIDE DEF q, new, mx
    <3> QED
      BY <1>2, <2>2, <3>1, <3>2, <3>3
  <2>4. CASE ~Waiting(Head(q))
    <3>1. ~Waiting(Observed)
      BY <1>4, <2>1, <2>4 DEF Ordered
    <3>2. Observed \in Line(mx)
      BY <1>4 DEF Line, Elements
    <3>3. ForReviews(m, new)
      BY <1>3 DEF ForReviews
    <3>4. Cost(m, p) <= Full(m, new.holder)
      BY <1>1, <1>2, <1>3 DEF Full
    <3>5. k \in DOMAIN new.queue
      BY <1>3
    <3>6. Turn(m, new, Cost(m, p), k) \in Nat /\ Turn(m, new, Cost(m, p), k) <= Limit(m)
      <4> HIDE DEF new
      <4> QED
        BY <1>2, <1>3, <3>3, <3>4, <3>5, TurnBounded
    <3>7. waited = 0
      BY <3>1, <3>2
    <3> QED
      BY <3>6, <3>7
  <2> QED
    BY <2>3, <2>4
<1>5. p = Observed => waited + Cost(m, p) <= Limit(m)
  BY <1>2
<1> HIDE DEF new
<1>6. Due(m, new, Cost(m, p))
  BY <1>3, <1>4, <1>5 DEF Due
<1> QED
  BY <1>6 DEF new

(* A process queues behind all others.                                     *)
LEMMA DueJoin ==
    ASSUME NEW m \in Mutexes, NEW p \in Processes, Sound(mutex[m]),
           p \notin Line(mutex[m]), p # mutex[m].holder, m # mu => p \in Reviews,
           ForReviews(m, mutex[m]), waited \in Nat,
           NEW h \in Nat, h <= Full(m, mutex[m].holder), Due(m, mutex[m], h),
           p = Observed => waited = 0,
           NEW mx, mx = [mutex[m] EXCEPT !.queue = Append(mutex[m].queue, p)]
    PROVE  Due(m, mx, h)
<1> DEFINE old == mutex[m]
           q == old.queue
<1>1. old \in Mutex /\ q \in Seq(Processes)
  BY MutexFields DEF Sound
<1>2. Sound(mx) /\ mx.holder = old.holder /\ mx.queue = Append(q, p) /\ Line(mx) = Line(old) \cup {p}
  BY EnqueueSound
<1>3. mx.starving = old.starving
  BY EnqueueSound
<1>4. /\ Len(q) \in Nat /\ DOMAIN q = 1..Len(q) /\ DOMAIN mx.queue = 1..Len(q) + 1
      /\ \A k \in 1..Len(q) : mx.queue[k] = q[k]
      /\ mx.queue[Len(q) + 1] = p
  BY <1>1, <1>2
<1>5. ASSUME NEW k \in DOMAIN mx.queue, mx.queue[k] = Observed
      PROVE  waited + Turn(m, mx, h, k) <= Limit(m)
  <2>1. CASE p = Observed
    <3>1. ForReviews(m, mx)
      BY <1>2 DEF ForReviews
    <3>2. Turn(m, mx, h, k) \in Nat /\ Turn(m, mx, h, k) <= Limit(m)
      BY <1>2, <3>1, TurnBounded
    <3> QED
      BY <2>1, <3>2
  <2>2. CASE p # Observed
    <3>1. k \in 1..Len(q) /\ q[k] = Observed
      BY <1>4, <1>5, <2>2
    <3>2. Ahead(m, mx.queue, k) = Ahead(m, q, k)
      <4>1. \A j \in 1..k - 1 : mx.queue[j] = q[j]
        BY <1>4, <3>1
      <4> QED
        BY <4>1 DEF Ahead
    <3>3. Turn(m, mx, h, k) = Turn(m, old, h, k)
      BY <1>3, <3>2 DEF Turn
    <3> QED
      BY <1>4, <3>1, <3>3 DEF Due
  <2> QED
    BY <2>1, <2>2
<1> QED
  BY <1>2, <1>5 DEF Due

-----------------------------------------------------------------------------
(* The facts on a mutex that a step starts from.                           *)
LEMMA AtMutex ==
    ASSUME ReviewInv, TimeInv, NEW m \in Mutexes
    PROVE  /\ ForReviews(m, mutex[m]) /\ Sound(mutex[m]) /\ waited \in Nat
           /\ Left(m) \in Nat /\ Left(m) <= Full(m, mutex[m].holder)
           /\ Ordered(mutex[m].queue) /\ Due(m, mutex[m], Left(m))
           /\ \A p \in Processes : WaitsFor(m, p) /\ p = mutex[m].holder => Left(m) = Cost(m, p)
<1> DEFINE h == mutex[m].holder
<1>1. QueueAt(m) /\ Sound(mutex[m]) /\ waited \in Nat
  BY DEF ReviewInv, QueueInv, QueueAt, Shape
<1>2. h \in Processes \cup {Nil} /\ Line(mutex[m]) \subseteq Processes
  BY <1>1, MutexFields DEF Sound, Line
<1>3. ASSUME m # mu
      PROVE  Line(mutex[m]) \subseteq Reviews /\ h \in Reviews \cup {Nil}
  <2>1. ~WaitsFor(m, Configurator) /\ ~InSection(m, Configurator)
    BY <1>3 DEF WaitsFor, InSection
  <2>2. Configurator \notin Line(mutex[m]) /\ Configurator # h
    BY <1>1, <2>1 DEF QueueAt, Processes
  <2> QED
    BY <1>2, <2>2 DEF Processes
<1>4. \A p \in Processes : WaitsFor(m, p) => ~InSection(m, p)
  BY DEF WaitsFor, InSection
<1>5. \A p \in Processes : p # Nil
  BY NamesAssumption DEF Processes
<1>6. ASSUME NEW p \in Processes, InSection(m, p)
      PROVE  Timer(p) \in Nat /\ Timer(p) <= Cost(m, p)
  <2>1. CASE p = Configurator
    BY <1>6, <2>1 DEF InSection, Timer, Cost, TimeInv, ReviewInv, Shape
  <2>2. CASE p # Configurator
    <3>1. p \in Reviews /\ m # mu /\ review[p].step = "fetch"
      BY <1>6, <2>2 DEF InSection, Processes
    <3>2. review[p].timer \in Nat /\ review[p].timer <= 2
      BY <3>1, AtReview, ReviewSelect DEF Local, Timers
    <3> QED
      BY <2>2, <3>1, <3>2 DEF Timer, Cost, tokenEndpointRequestTimeout
  <2> QED
    BY <2>1, <2>2
<1>7. Left(m) \in Nat /\ Left(m) <= Full(m, h)
  <2>1. \A p : Cost(m, p) \in Nat
    BY TimesAreNumbers
  <2>2. CASE h = Nil
    BY <2>2 DEF Left, Full
  <2>3. CASE h # Nil /\ InSection(m, h)
    <3>1. h \in Processes /\ Left(m) = Cost(m, h) - Timer(h) /\ Full(m, h) = Cost(m, h)
      BY <1>2, <2>3 DEF Left, Full
    <3>2. Timer(h) \in Nat /\ Timer(h) <= Cost(m, h) /\ Cost(m, h) \in Nat
      BY <1>6, <2>1, <2>3, <3>1
    <3> QED
      BY <3>1, <3>2
  <2>4. CASE h # Nil /\ ~InSection(m, h)
    <3>1. Left(m) = Cost(m, h) /\ Full(m, h) = Cost(m, h) /\ Cost(m, h) \in Nat
      BY <2>1, <2>4 DEF Left, Full
    <3> QED
      BY <3>1
  <2> QED
    BY <2>2, <2>3, <2>4
<1>8. \A p \in Processes : WaitsFor(m, p) /\ p = h => Left(m) = Cost(m, p)
  BY <1>4, <1>5 DEF Left
<1>9. Ordered(mutex[m].queue) /\ Due(m, mutex[m], Left(m))
  BY DEF TimeInv, MutexTime
<1> QED
  BY <1>1, <1>3, <1>7, <1>8, <1>9 DEF ForReviews

(* Without its head a queue is still ordered.                              *)
LEMMA OrderedTail ==
    ASSUME NEW q \in Seq(Processes), q # <<>>, Ordered(q)
    PROVE  Ordered(Tail(q))
<1>1. /\ Len(q) \in Nat /\ DOMAIN q = 1..Len(q) /\ DOMAIN Tail(q) = 1..Len(q) - 1
      /\ \A j \in 1..Len(q) - 1 : Tail(q)[j] = q[j + 1]
  OBVIOUS
<1> SUFFICES ASSUME NEW j \in 1..Len(q) - 1, NEW k \in 1..Len(q) - 1, j < k, Waiting(q[k + 1])
             PROVE  Waiting(q[j + 1])
  BY <1>1 DEF Ordered
<1>2. j + 1 \in DOMAIN q /\ k + 1 \in DOMAIN q /\ j + 1 < k + 1
  BY <1>1
<1> QED
  BY <1>2 DEF Ordered

(* Nor do Unlock and Woke disturb the order.                               *)
LEMMA OrderedUnlock ==
    ASSUME NEW mx, Sound(mx), Ordered(mx.queue)
    PROVE  Ordered(Unlock(mx).queue)
<1>1. mx \in Mutex /\ mx.queue \in Seq(Processes)
  BY MutexFields DEF Sound
<1>2. CASE mx.starving
  <2>1. mx.queue # <<>> /\ Unlock(mx).queue = Tail(mx.queue)
    BY <1>2 DEF Sound, Unlock
  <2> QED
    BY <1>1, <2>1, OrderedTail
<1>3. CASE ~mx.starving
  <2>1. Unlock(mx).queue = mx.queue
    BY <1>1, <1>3 DEF Unlock, Mutex
  <2> QED
    BY <2>1
<1> QED
  BY <1>2, <1>3

LEMMA OrderedWoke ==
    ASSUME NEW m \in Mutexes, NEW p \in Processes, Sound(mutex[m]), Woken(m, p),
           Ordered(mutex[m].queue)
    PROVE  Ordered(Woke(m, p).queue)
<1>1. mutex[m] \in Mutex /\ mutex[m].queue \in Seq(Processes)
  BY MutexFields DEF Sound
<1>2. CASE mutex[m].holder = p
  BY <1>2 DEF Woke
<1>3. CASE mutex[m].holder # p
  <2>1. mutex[m].queue # <<>> /\ Woke(m, p).queue = Tail(mutex[m].queue)
    BY <1>1, <1>3 DEF Woken, Woke, Mutex
  <2> QED
    BY <1>1, <2>1, OrderedTail
<1> QED
  BY <1>2, <1>3

(* What is due stays due while the observed review waits no longer.        *)
LEMMA DueNext ==
    ASSUME NEW m, NEW mx, Sound(mx), NEW h \in Nat, Due(m, mx, h),
           waited \in Nat, waited' \in Nat, waited' <= waited
    PROVE  Due(m, mx, h)'
<1>1. mx.queue \in Seq(Processes)
  BY MutexFields DEF Sound
<1>2. Limit(m) \in Nat /\ Grace(m) \in Nat /\ Cost(m, Observed) \in Nat
  BY TimesAreNumbers
<1>3. ASSUME NEW k \in DOMAIN mx.queue, mx.queue[k] = Observed
      PROVE  waited' + Turn(m, mx, h, k) <= Limit(m)
  <2>1. k \in Nat \ {0}
    BY <1>1
  <2>2. Ahead(m, mx.queue, k) \in Nat
    BY <2>1, TimesAreNumbers
  <2>3. Turn(m, mx, h, k) \in Nat
    BY <1>2, <2>2 DEF Turn
  <2>4. waited + Turn(m, mx, h, k) <= Limit(m)
    BY <1>3 DEF Due
  <2> QED
    BY <1>2, <2>3, <2>4
<1>4. mx.holder = Observed => waited' + h <= Limit(m)
  BY <1>2 DEF Due
<1> QED
  BY <1>3, <1>4 DEF Due

(* What is left of the time of the holder of mx, which m becomes when p    *)
(* moves: who holds m keeps on, and a new holder has all of its time.      *)
Rest(m, mx, p) ==
    IF mx.holder \notin {Nil, p} /\ mx.holder = mutex[m].holder THEN Left(m)
    ELSE Full(m, mx.holder)

LEMMA TimeMoves ==
    ASSUME ReviewInv, TimeInv, NEW p \in Processes, NEW m \in Mutexes, NEW mx,
           mutex' = [mutex EXCEPT ![m] = mx], Passes(m, mx, p),
           \A q \in Processes \ {p} : Timer(q)' = Timer(q),
           \A n \in Mutexes, q \in Processes \ {p} : InSection(n, q)' <=> InSection(n, q),
           \A n \in Mutexes \ {m} : ~WaitsFor(n, p) /\ ~InSection(n, p),
           waited' \in Nat, waited' <= waited,
           mx.holder = p \/ p \in Line(mx) => Timer(p)' = 0,
           Due(m, mx, Rest(m, mx, p)),
           \/ Ordered(mx.queue) /\ p \notin Line(mx)
           \/ mx.queue = Append(mutex[m].queue, p)
    PROVE  \A n \in Mutexes : MutexTime(n)'
<1>1. mutex'[m] = mx /\ \A n \in Mutexes \ {m} : mutex'[n] = mutex[n]
  BY DEF ReviewInv, Shape
<1>2. waited \in Nat /\ Nil \notin Processes
  BY NamesAssumption DEF ReviewInv, Shape, Processes
<1>3. \A q \in Processes : (Waiting(q) <=> Timer(q) > 0) /\ (Waiting(q)' <=> Timer(q)' > 0)
  BY DEF Waiting, Timer
<1>4. \A q \in Processes \ {p} : Waiting(q)' <=> Waiting(q)
  BY <1>3
<1>5. ASSUME NEW n \in Mutexes \ {m}
      PROVE  MutexTime(n)'
  <2>1. /\ Sound(mutex[n]) /\ Left(n) \in Nat /\ Ordered(mutex[n].queue)
        /\ Due(n, mutex[n], Left(n)) /\ QueueAt(n)
    BY AtMutex DEF ReviewInv, QueueInv
  <2>2. p \notin Line(mutex[n]) /\ p # mutex[n].holder
    BY <2>1 DEF QueueAt
  <2>3. mutex[n].holder \in Processes \cup {Nil} /\ Line(mutex[n]) \subseteq Processes
    BY <2>1, MutexFields DEF Sound, Line
  <2>4. Left(n)' = Left(n)
    BY <1>1, <2>2, <2>3 DEF Left
  <2>5. Due(n, mutex[n], Left(n))'
    <3> DEFINE y == mutex[n]
               h == Left(n)
    <3>1. mutex'[n] = y /\ Left(n)' = h
      BY <1>1, <2>4
    <3>2. Sound(y) /\ h \in Nat /\ Due(n, y, h)
      BY <2>1
    <3> HIDE DEF y, h
    <3>3. /\ \A k \in DOMAIN y.queue :
               y.queue[k] = Observed => waited' + Turn(n, y, h, k) <= Limit(n)
          /\ y.holder = Observed => waited' + h <= Limit(n)
      BY <1>2, <3>2, DueNext DEF Due
    <3> QED
      BY <3>1, <3>3 DEF Due
  <2>6. Ordered(mutex[n].queue)'
    <3>1. \A k \in DOMAIN mutex[n].queue : mutex[n].queue[k] \in Processes \ {p}
      BY <2>2, <2>3 DEF Line, Elements
    <3>2. \A j, k \in DOMAIN mutex[n].queue :
            j < k /\ Waiting(mutex[n].queue[k])' => Waiting(mutex[n].queue[j])'
      BY <1>1, <1>4, <2>1, <3>1 DEF Ordered, Waiting
    <3> QED
      BY <1>1, <3>2 DEF Ordered
  <2> QED
    BY <2>5, <2>6 DEF MutexTime
<1>6. MutexTime(m)'
  <2> DEFINE h == Rest(m, mx, p)
             q == mx.queue
             old == mutex[m].queue
  <2>1. /\ Sound(mutex[m]) /\ Left(m) \in Nat /\ Ordered(old) /\ QueueAt(m)
        /\ Sound(mx)
    BY AtMutex DEF ReviewInv, QueueInv, Passes
  <2>2. /\ mx.holder \in Processes \cup {Nil} /\ Line(mx) \subseteq Processes
        /\ q \in Seq(Processes) /\ old \in Seq(Processes) /\ Line(mutex[m]) \subseteq Processes
    BY <2>1, MutexFields DEF Sound, Line
  <2>3. Cost(m, mx.holder) \in Nat
    BY TimesAreNumbers
  <2>4. Left(m)' = h /\ h \in Nat
    <3>1. CASE mx.holder = Nil
      BY <1>1, <3>1 DEF Left, Rest, Full
    <3>2. CASE mx.holder = p
      <4>1. h = Cost(m, p) /\ p # Nil
        BY <1>2, <3>2 DEF Rest, Full
      <4>2. Left(m)' = IF InSection(m, p)' THEN Cost(m, p) - Timer(p)' ELSE Cost(m, p)
        BY <1>1, <3>2, <4>1 DEF Left
      <4> QED
        BY <2>3, <3>2, <4>1, <4>2
    <3>3. CASE mx.holder \notin {Nil, p} /\ mx.holder = mutex[m].holder
      <4>1. h = Left(m)
        BY <3>3 DEF Rest
      <4>2. Left(m)' = Left(m)
        BY <1>1, <2>2, <3>3 DEF Left
      <4> QED
        BY <2>1, <4>1, <4>2
    <3>4. CASE mx.holder \notin {Nil, p} /\ mx.holder # mutex[m].holder
      <4>1. mx.holder \in Processes /\ mx.holder \in Line(mutex[m])
        BY <2>2, <3>4 DEF Passes
      <4>2. WaitsFor(m, mx.holder)
        BY <2>1, <4>1 DEF QueueAt
      <4>3. ~InSection(m, mx.holder)'
        <5>1. ~InSection(m, mx.holder)
          BY <4>2 DEF WaitsFor, InSection
        <5> QED
          BY <3>4, <4>1, <5>1
      <4>4. h = Cost(m, mx.holder)
        BY <3>4 DEF Rest, Full
      <4>5. Left(m)' = Cost(m, mx.holder)
        BY <1>1, <3>4, <4>3 DEF Left
      <4> QED
        BY <2>3, <4>4, <4>5
    <3> QED
      BY <3>1, <3>2, <3>3, <3>4
  <2>5. Due(m, mutex[m], Left(m))'
    <3>1. Due(m, mx, h)
      OBVIOUS
    <3> HIDE DEF h
    <3>2. /\ \A k \in DOMAIN mx.queue :
               mx.queue[k] = Observed => waited' + Turn(m, mx, h, k) <= Limit(m)
          /\ mx.holder = Observed => waited' + h <= Limit(m)
      BY <1>2, <2>1, <2>4, <3>1, DueNext DEF Due
    <3> QED
      BY <1>1, <2>4, <3>2 DEF Due
  <2>6. \A j, k \in DOMAIN q : j < k /\ Waiting(q[k])' => Waiting(q[j])'
    <3>1. CASE Ordered(q) /\ p \notin Line(mx)
      <4>1. \A k \in DOMAIN q : q[k] \in Processes \ {p}
        BY <2>2, <3>1 DEF Line, Elements
      <4> QED
        BY <1>4, <3>1, <4>1 DEF Ordered
    <3>2. CASE q = Append(old, p)
      <4>1. /\ Len(old) \in Nat /\ DOMAIN old = 1..Len(old) /\ DOMAIN q = 1..Len(old) + 1
            /\ \A k \in 1..Len(old) : q[k] = old[k] /\ old[k] \in Processes
            /\ q[Len(old) + 1] = p
        BY <2>2, <3>2
      <4>2. p \in Line(mx)
        BY <4>1 DEF Line, Elements
      <4>3. ~Waiting(p)'
        BY <1>3, <4>2
      <4>4. \A j, k \in DOMAIN q : j < k => j \in DOMAIN old /\ (k \in DOMAIN old \/ q[k] = p)
        BY <4>1
      <4>5. \A k \in DOMAIN old : q[k] # p
        <5>1. Distinct(q)
          BY <2>1 DEF Sound
        <5>2. \A k \in DOMAIN old : k \in DOMAIN q /\ k # Len(old) + 1
          BY <4>1
        <5>3. Len(old) + 1 \in DOMAIN q
          BY <4>1
        <5> QED
          BY <4>1, <5>1, <5>2, <5>3 DEF Distinct
      <4>6. \A k \in DOMAIN old : Waiting(q[k])' <=> Waiting(old[k])
        BY <1>4, <4>1, <4>5
      <4>7. SUFFICES ASSUME NEW j \in DOMAIN q, NEW k \in DOMAIN q, j < k, Waiting(q[k])'
                     PROVE  Waiting(q[j])'
        OBVIOUS
      <4>8. j \in DOMAIN old /\ k \in DOMAIN old
        BY <4>3, <4>4, <4>7
      <4> QED
        BY <2>1, <4>6, <4>7, <4>8 DEF Ordered
    <3> QED
      BY <3>1, <3>2
  <2>7. Ordered(mutex[m].queue)'
    BY <1>1, <2>6 DEF Ordered
  <2> QED
    BY <2>5, <2>7 DEF MutexTime
<1> QED
  BY <1>5, <1>6

-----------------------------------------------------------------------------
LEMMA SetWaited ==
    ASSUME NEW r \in Reviews, NEW v, Set(r, v), waited \in Nat
    PROVE  /\ waited' \in {0, waited} /\ waited' \in Nat /\ waited' <= waited
           /\ r # Observed => waited' = waited
           /\ r = Observed /\ (~InFlight(v) \/ <<v.asked, v.source>> # Source(r)) => waited' = 0
  BY DEF Set

(* A review moves at mutex m, and leaves it as mx.                         *)
LEMMA ReviewTimeMoves ==
    ASSUME ReviewInv, TimeInv, NEW r \in Reviews, NEW v, v \in Review, Set(r, v), loader' = loader,
           NEW m \in Mutexes, NEW mx, mutex' = [mutex EXCEPT ![m] = mx], Passes(m, mx, r),
           OnlyAt(m, review[r]),
           mx.holder = r \/ r \in Line(mx) => v.timer = 0,
           Due(m, mx, Rest(m, mx, r)),
           \/ Ordered(mx.queue) /\ r \notin Line(mx)
           \/ mx.queue = Append(mutex[m].queue, r),
           r = Observed => Stays(v, waited')
    PROVE  TimeInv'
<1>1. review \in [Reviews -> Review] /\ waited \in Nat /\ r \in Processes
  BY DEF ReviewInv, Shape, Processes
<1>2. /\ review' = [review EXCEPT ![r] = v]
      /\ review'[r] = v /\ \A q \in Reviews \ {r} : review'[q] = review[q]
  BY <1>1 DEF Set
<1>3. waited' \in Nat /\ waited' <= waited /\ (r # Observed => waited' = waited)
  BY <1>1, SetWaited
<1>4. ASSUME NEW q \in Processes \ {r}
      PROVE  /\ Timer(q)' = Timer(q)
             /\ \A n \in Mutexes : InSection(n, q)' <=> InSection(n, q)
  <2>1. CASE q = Configurator
    BY <2>1 DEF Timer, InSection
  <2>2. CASE q # Configurator
    <3>1. q \in Reviews \ {r}
      BY <2>2 DEF Processes
    <3> QED
      BY <1>2, <2>2, <3>1 DEF Timer, InSection, Source
  <2> QED
    BY <2>1, <2>2
<1>5. \A n \in Mutexes \ {m} : ~WaitsFor(n, r) /\ ~InSection(n, r)
  BY ReviewEngages DEF OnlyAt
<1>6. Timer(r)' = v.timer
  BY <1>2, NamesAssumption DEF Timer
<1>7. \A n \in Mutexes : MutexTime(n)'
  BY <1>1, <1>3, <1>4, <1>5, <1>6, TimeMoves
<1>8. Stays(review[Observed], waited)'
  <2>1. CASE r = Observed
    BY <1>2, <2>1 DEF Stays
  <2>2. CASE r # Observed
    <3>1. review'[Observed] = review[Observed] /\ waited' = waited
      BY <1>2, <1>3, <2>2, ObservedIsReview
    <3>2. Stays(review[Observed], waited)
      BY DEF TimeInv
    <3> QED
      BY <3>1, <3>2 DEF Stays
  <2> QED
    BY <2>1, <2>2
<1> QED
  BY <1>7, <1>8 DEF TimeInv

(* A review moves without touching a mutex.                                *)
LEMMA ReviewTimeWanders ==
    ASSUME ReviewInv, TimeInv, NEW r \in Reviews, NEW v, v \in Review, Set(r, v),
           UNCHANGED <<loader, mutex>>, review[r].step \notin {"mu", "wait", "fetch"},
           r = Observed => Stays(v, waited')
    PROVE  TimeInv'
<1>1. mu \in Mutexes /\ r \in Processes /\ mutex \in [Mutexes -> Mutex]
  BY DEF Mutexes, Processes, ReviewInv, Shape
<1>2. Unengaged(review[r]) /\ OnlyAt(mu, review[r])
  BY Engagement
<1>3. Sound(mutex[mu]) /\ r \notin Line(mutex[mu]) /\ r # mutex[mu].holder
  BY <1>1, <1>2, AtReview DEF Unengaged
<1>4. Ordered(mutex[mu].queue) /\ Due(mu, mutex[mu], Left(mu))
  BY <1>1, AtMutex
<1>5. Rest(mu, mutex[mu], r) = Left(mu)
  BY <1>3 DEF Rest, Full, Left
<1>6. Passes(mu, mutex[mu], r)
  BY <1>3 DEF Passes
<1>7. mutex' = [mutex EXCEPT ![mu] = mutex[mu]]
  BY <1>1
<1> QED
  BY <1>1, <1>2, <1>3, <1>4, <1>5, <1>6, <1>7, ReviewTimeMoves

(* A review takes the mutex, or has it, and releases it.                   *)
LEMMA ReviewTimeReleases ==
    ASSUME ReviewInv, TimeInv, NEW r \in Reviews, NEW v, v \in Review, Set(r, v), loader' = loader,
           NEW m \in Mutexes, NEW mx, Passes(m, mx, r), mx.holder = r,
           mutex' = [mutex EXCEPT ![m] = Unlock(mx)], OnlyAt(m, review[r]),
           NEW h \in Nat, Due(m, mx, h), Ordered(mx.queue),
           r = Observed => Stays(v, waited')
    PROVE  TimeInv'
<1> DEFINE new == Unlock(mx)
<1>1. r \in Processes /\ waited \in Nat
  BY DEF Processes, ReviewInv, Shape
<1>2. Sound(mx) /\ r \notin Line(mx) /\ Sound(mutex[m])
  BY AtMutex DEF Passes, Sound
<1>3. /\ Sound(new) /\ new.holder \in Line(mx) \cup {Nil}
      /\ Line(new) = Line(mx) \ {new.holder}
  BY <1>2, UnlockSound
<1>4. Passes(m, new, r)
  BY <1>1, Releases
<1>5. Ordered(new.queue)
  BY <1>2, OrderedUnlock
<1>6. r # Nil /\ mutex[m].holder \notin Line(mutex[m])
  BY <1>1, <1>2, NamesAssumption DEF Sound
<1>7. Line(mx) \subseteq Processes
  BY <1>2, MutexFields DEF Sound, Line
<1>8. Rest(m, new, r) = Full(m, new.holder)
  BY <1>2, <1>3, <1>6, <1>7 DEF Rest, Passes
<1>9. Due(m, new, Full(m, new.holder))
  <2>1. CASE r # Observed
    BY <1>1, <1>2, <2>1, DueUnlock
  <2>2. CASE r = Observed
    <3>1. Observed \notin Line(new) /\ new.holder # Observed
      BY <1>2, <1>3, <2>2, ObservedIsReview
    <3> HIDE DEF new
    <3> QED
      BY <3>1 DEF Due, Line, Elements
  <2> QED
    BY <2>1, <2>2
<1>10. r \notin Line(new) /\ new.holder # r
  BY <1>2, <1>3, <1>6
<1> HIDE DEF new
<1>11. Due(m, new, Rest(m, new, r)) /\ mutex' = [mutex EXCEPT ![m] = new]
  BY <1>8, <1>9 DEF new
<1> QED
  BY <1>4, <1>5, <1>10, <1>11, ReviewTimeMoves

(* The clock of the observed review: it has not run yet where there was    *)
(* nothing to wait for, and starts anew when the review goes on.           *)
LEMMA ClockStopped ==
    ASSUME ReviewInv, TimeInv, NEW r \in Reviews, NEW v \in Review, Set(r, v),
           \/ review[r].step \in {"idle", "union", "expand"}
           \/ ~InFlight(v) \/ <<v.asked, v.source>> # Source(r)
    PROVE  r = Observed => Stays(v, waited')
<1> SUFFICES ASSUME r = Observed
             PROVE  Stays(v, waited')
  OBVIOUS
<1>1. waited \in Nat /\ Stays(review[r], waited)
  BY DEF ReviewInv, Shape, TimeInv
<1>2. waited' = 0
  BY <1>1, SetWaited DEF Stays
<1>3. v.timer \in Nat /\ \A m : Limit(m) \in Nat
  BY ReviewSelect, TimesAreNumbers
<1> QED
  BY <1>2, <1>3 DEF Stays

LEMMA WokenLeft ==
    ASSUME ReviewInv, TimeInv, NEW m \in Mutexes, NEW p \in Processes, WaitsFor(m, p), Woken(m, p)
    PROVE  Due(m, Woke(m, p), Cost(m, p)) /\ Ordered(Woke(m, p).queue)
<1>1. Sound(mutex[m]) /\ waited \in Nat /\ Due(m, mutex[m], Left(m)) /\ Ordered(mutex[m].queue)
  BY AtMutex
<1>2. p # Nil
  BY NamesAssumption DEF Processes
<1>3. Left(m) = Full(m, mutex[m].holder)
  <2>1. CASE mutex[m].holder = p
    BY <1>2, <2>1, AtMutex DEF Full
  <2>2. CASE mutex[m].holder # p
    BY <2>2 DEF Woken, Free, Left, Full
  <2> QED
    BY <2>1, <2>2
<1> QED
  BY <1>1, <1>3, DueWoke, OrderedWoke

(* In the queue, the observed review has waited only if its timer shows.   *)
LEMMA LineFresh ==
    ASSUME ReviewInv, TimeInv, NEW m \in Mutexes
    PROVE  Observed \in Line(mutex[m]) /\ ~Waiting(Observed) => waited = 0
<1> SUFFICES ASSUME Observed \in Line(mutex[m]), ~Waiting(Observed)
             PROVE  waited = 0
  OBVIOUS
<1>1. Observed \in Reviews /\ Observed \in Processes /\ Observed # Configurator
  BY ObservedIsReview
<1>2. WaitsFor(m, Observed)
  BY <1>1 DEF ReviewInv, QueueInv, QueueAt
<1>3. review[Observed].step \in {"mu", "wait"}
  BY <1>1, <1>2, ReviewEngages DEF Seeks
<1>4. review[Observed].timer = 0
  <2>1. review[Observed].timer \in Nat
    BY <1>1, AtReview, ReviewSelect
  <2> QED
    BY <1>1, <2>1 DEF Waiting
<1> QED
  BY <1>3, <1>4 DEF TimeInv, Stays

LEMMA WanderTime ==
    ASSUME ReviewInv, ReviewInv', TimeInv, NEW r \in Reviews,
           Refuse(r) \/ Union(r) \/ NotWanted(r) \/ NoFetch(r) \/ Do(r) \/ Decide(r)
    PROVE  TimeInv'
<1>1. UNCHANGED <<loader, mutex>>
  BY DEF Refuse, Union, NotWanted, NoFetch, Do, Decide
<1>2. CASE Do(r)
  <2> DEFINE v == NextSource(review[r])
  <2>1. review[r].step = "request" /\ Set(r, v)
    BY <1>2 DEF Do
  <2>2. Local(review[r]) /\ review[r] \in Review /\ review[r].source \in Nat
    BY AtReview, ReviewSelect
  <2>3. v \in Review /\ v.source = review[r].source + 1
    BY <2>1, <2>2, LocalNextSource, GoesTo DEF Local, Consulting
  <2>4. <<v.asked, v.source>> # Source(r)
    BY <2>2, <2>3 DEF Source
  <2> HIDE DEF v
  <2> QED
    BY <1>1, <2>1, <2>3, <2>4, ClockStopped, ReviewTimeWanders
<1>3. CASE Refuse(r) \/ Union(r) \/ NotWanted(r) \/ NoFetch(r) \/ Decide(r)
  <2>1. review[r].step \in {"idle", "union", "expand"}
    BY <1>3 DEF Refuse, Union, NotWanted, NoFetch, Decide, Expanding
  <2>2. PICK v : Set(r, v)
    BY <1>3 DEF Refuse, Union, NotWanted, NoFetch, Decide
  <2>3. v \in Review
    <3>1. review'[r] = v
      BY <2>2 DEF Set, ReviewInv, Shape
    <3> QED
      BY <3>1 DEF ReviewInv, Shape
  <2> QED
    BY <1>1, <2>1, <2>2, <2>3, ClockStopped, ReviewTimeWanders
<1> QED
  BY <1>2, <1>3

(* A review queues, and its clock starts.                                  *)
LEMMA JoinTime ==
    ASSUME ReviewInv, TimeInv, NEW r \in Reviews, review[r].step \in {"idle", "expand"},
           NEW m \in Mutexes, ~Free(m), mutex' = Enqueue(m, r), loader' = loader,
           NEW v \in Review, v.timer = 0, Set(r, v)
    PROVE  TimeInv'
<1> DEFINE mx == [mutex[m] EXCEPT !.queue = Append(mutex[m].queue, r)]
<1>1. Unengaged(review[r]) /\ OnlyAt(m, review[r])
  BY Engagement
<1>2. r \in Processes /\ Sound(mutex[m]) /\ r \notin Line(mutex[m]) /\ r # mutex[m].holder
  BY <1>1, AtReview DEF Unengaged
<1>3. mutex \in [Mutexes -> Mutex]
  BY DEF ReviewInv, Shape
<1>4. mutex' = [mutex EXCEPT ![m] = mx] /\ Passes(m, mx, r)
  BY <1>2, <1>3, Joins
<1>5. mx.holder = mutex[m].holder /\ mx.queue = Append(mutex[m].queue, r)
  BY <1>2, EnqueueSound
<1>6. /\ ForReviews(m, mutex[m]) /\ waited \in Nat /\ Left(m) \in Nat
      /\ Left(m) <= Full(m, mutex[m].holder) /\ Due(m, mutex[m], Left(m))
  BY AtMutex
<1>7. r = Observed => waited = 0
  BY DEF TimeInv, Stays
<1>8. Due(m, mx, Left(m))
  BY <1>2, <1>6, <1>7, DueJoin
<1>9. Rest(m, mx, r) = Left(m)
  BY <1>2, <1>5 DEF Rest, Free
<1>10. r = Observed => Stays(v, waited')
  BY ClockStopped
<1> HIDE DEF mx
<1>11. Due(m, mx, Rest(m, mx, r))
  BY <1>8, <1>9
<1> QED
  BY <1>1, <1>4, <1>5, <1>10, <1>11, ReviewTimeMoves

LEMMA ServeHTTPTime ==
    ASSUME ReviewInv, ReviewInv', TimeInv, NEW r \in Reviews, ServeHTTP(r)
    PROVE  TimeInv'
<1>1. review[r].step = "idle" /\ loader' = loader /\ mu \in Mutexes
  BY DEF ServeHTTP, Mutexes
<1>2. PICK i \in Issuers :
        LET v == [NewReview EXCEPT !.issuer = i]
        IN IF Free(mu)
           THEN Set(r, Obtained(v)) /\ UNCHANGED mutex
           ELSE Set(r, [v EXCEPT !.step = "mu"]) /\ mutex' = Enqueue(mu, r)
  BY DEF ServeHTTP
<1> DEFINE v == [NewReview EXCEPT !.issuer = i]
           w == [v EXCEPT !.step = "mu"]
<1>3. \A x : Set(r, x) => x \in Review
  <2>1. \A x : Set(r, x) => review'[r] = x
    BY DEF Set, ReviewInv, Shape
  <2> QED
    BY <2>1 DEF ReviewInv, Shape
<1>4. CASE Free(mu)
  <2>1. Set(r, Obtained(v)) /\ UNCHANGED mutex
    BY <1>2, <1>4
  <2> HIDE DEF v
  <2> QED
    BY <1>1, <1>3, <2>1, ClockStopped, ReviewTimeWanders
<1>5. CASE ~Free(mu)
  <2>1. Set(r, w) /\ mutex' = Enqueue(mu, r)
    BY <1>2, <1>5
  <2>2. w.timer = 0
    BY DEF NewReview
  <2> HIDE DEF w
  <2> QED
    BY <1>1, <1>3, <1>5, <2>1, <2>2, JoinTime
<1> QED
  BY <1>4, <1>5

LEMMA TokenAuthenticatorTime ==
    ASSUME ReviewInv, ReviewInv', TimeInv, NEW r \in Reviews, TokenAuthenticator(r)
    PROVE  TimeInv'
<1> DEFINE v == Obtained(review[r])
           mx == Woke(mu, r)
<1>1. /\ review[r].step = "mu" /\ Woken(mu, r) /\ Set(r, v) /\ loader' = loader
      /\ mutex' = [mutex EXCEPT ![mu] = Unlock(mx)]
  BY DEF TokenAuthenticator
<1>2. mu \in Mutexes /\ review[r] \in Review /\ r \in Processes /\ Sound(mutex[mu]) /\ Local(review[r])
  BY AtReview DEF Mutexes
<1>3. OnlyAt(mu, review[r]) /\ WaitsFor(mu, r)
  BY <1>1, Engagement, ReviewEngages
<1>4. mutex \in [Mutexes -> Mutex]
  BY DEF ReviewInv, Shape
<1>5. Passes(mu, mx, r) /\ mx.holder = r
  BY <1>1, <1>2, <1>4, Wakes
<1>6. Due(mu, mx, Cost(mu, r)) /\ Ordered(mx.queue) /\ Cost(mu, r) \in Nat
  BY <1>1, <1>2, <1>3, WokenLeft, TimesAreNumbers
<1>7. v \in Review
  <2>1. review'[r] = v
    BY <1>1 DEF Set, ReviewInv, Shape
  <2> QED
    BY <2>1 DEF ReviewInv, Shape
<1>8. ~InFlight(v) \/ <<v.asked, v.source>> # Source(r)
  <2>1. CASE loaded
    <3>1. v.asked = 1 /\ review[r].asked = 0
      BY <1>1, <1>2, <2>1 DEF Obtained, Review, Local, Place
    <3> QED
      BY <3>1 DEF Source
  <2>2. CASE ~loaded
    <3>1. v = Answered(review[r], "error")
      BY <2>2 DEF Obtained
    <3>2. Answered(review[r], "error").step \in {"idle", "closed"}
      BY <1>2, GoesTo
    <3> QED
      BY <3>1, <3>2 DEF InFlight
  <2> QED
    BY <2>1, <2>2
<1> HIDE DEF v, mx
<1>9. r = Observed => Stays(v, waited')
  BY <1>1, <1>7, <1>8, ClockStopped
<1> QED
  BY <1>1, <1>2, <1>3, <1>5, <1>6, <1>7, <1>9, ReviewTimeReleases

(* A request begins with the time that waiting for its token has left.     *)
LEMMA RequestTime ==
    ASSUME ReviewInv, NEW r \in Reviews, Source(r) \in TokenSources,
           NEW mx, mx.holder = r, NEW h \in Nat, Due(Source(r), mx, h),
           NEW l, Set(r, WithToken(review[r], l))
    PROVE  r = Observed => Stays(WithToken(review[r], l), waited')
<1> SUFFICES ASSUME r = Observed
             PROVE  Stays(WithToken(review[r], l), waited')
  OBVIOUS
<1> DEFINE w == WithToken(review[r], l)
<1>1. w.step = "request" /\ w.timer = 0 /\ <<w.asked, w.source>> = Source(r)
  <2>1. review[r] \in Review
    BY AtReview
  <2> QED
    BY <2>1 DEF WithToken, Review, Source
<1>2. waited \in Nat /\ Limit(Source(r)) \in Nat
  BY TimesAreNumbers DEF ReviewInv, Shape
<1>3. waited + h <= Limit(Source(r))
  BY DEF Due
<1>4. waited' \in Nat /\ waited' <= waited
  BY <1>2, SetWaited
<1> HIDE DEF w
<1>5. waited' <= 0 + Limit(Source(r))
  BY <1>2, <1>3, <1>4
<1>6. Stays(w, waited')
  BY <1>1, <1>5 DEF Stays
<1> QED
  BY <1>6 DEF w

LEMMA TokenTime ==
    ASSUME ReviewInv, ReviewInv', TimeInv, NEW r \in Reviews, review[r].step \in {"expand", "wait"},
           Source(r) \in TokenSources, loader' = loader,
           NEW mx, Passes(Source(r), mx, r), mx.holder = r, Token(r, mx),
           Due(Source(r), mx, Cost(Source(r), r)), Ordered(mx.queue)
    PROVE  TimeInv'
<1> DEFINE m == Source(r)
<1>1. m \in Mutexes /\ Cost(m, r) \in Nat
  BY TimesAreNumbers DEF Mutexes
<1>2. OnlyAt(m, review[r]) /\ review[r] \in Review /\ r \in Processes
  BY Engagement, AtReview DEF Source
<1>3. \A x : Set(r, x) => x \in Review
  <2>1. \A x : Set(r, x) => review'[r] = x
    BY DEF Set, ReviewInv, Shape
  <2> QED
    BY <2>1 DEF ReviewInv, Shape
<1>4. CASE life[m] > expiryDelta
  <2> DEFINE v == WithToken(review[r], life[m])
  <2>1. Set(r, v) /\ mutex' = [mutex EXCEPT ![m] = Unlock(mx)]
    BY <1>4 DEF Token
  <2>2. r = Observed => Stays(v, waited')
    BY <1>1, <2>1, RequestTime
  <2> HIDE DEF v
  <2> QED
    BY <1>1, <1>2, <1>3, <2>1, <2>2, ReviewTimeReleases
<1>5. CASE ~(life[m] > expiryDelta)
  <2> DEFINE v == [review[r] EXCEPT !.step = "fetch", !.timer = 0]
  <2>1. Set(r, v) /\ mutex' = [mutex EXCEPT ![m] = mx]
    BY <1>5 DEF Token
  <2>2. v.step = "fetch" /\ v.timer = 0
    BY <1>2 DEF Review
  <2> HIDE DEF v
  <2>3. Stays(v, waited')
    BY <2>2 DEF Stays
  <2>4. Rest(m, mx, r) = Cost(m, r)
    BY <1>2, NamesAssumption DEF Rest, Full, Processes
  <2>5. r \notin Line(mx) /\ Due(m, mx, Rest(m, mx, r))
    BY <2>4 DEF Passes, Sound
  <2> QED
    BY <1>1, <1>2, <1>3, <2>1, <2>2, <2>3, <2>5, ReviewTimeMoves
<1> QED
  BY <1>4, <1>5

LEMMA GetAccessTokenTime ==
    ASSUME ReviewInv, ReviewInv', TimeInv, NEW r \in Reviews, GetAccessToken(r)
    PROVE  TimeInv'
<1> DEFINE m == Source(r)
           v == review[r]
<1>1. /\ v.step = "expand" /\ loader' = loader
      /\ v.source \in DOMAIN Authenticators[v.asked].sources
      /\ Authenticators[v.asked].sources[v.source] = "ClientCredential"
  BY DEF GetAccessToken, Expanding, Getter
<1>2. Local(v) /\ v \in Review /\ r \in Processes
  BY AtReview
<1>3. m \in TokenSources /\ m \in Mutexes
  <2>1. v.asked \in DOMAIN Authenticators
    BY <1>1, <1>2 DEF Local, Place
  <2> QED
    BY <1>1, <2>1 DEF Source, TokenSources, Mutexes
<1>4. Sound(mutex[m]) /\ r \notin Line(mutex[m]) /\ r # mutex[m].holder
  <2>1. Unengaged(v)
    BY <1>1, Engagement
  <2> QED
    BY <1>3, <2>1, AtReview DEF Unengaged
<1>5. CASE Free(m)
  <2>1. Token(r, Lock(m, r))
    BY <1>5 DEF GetAccessToken
  <2>2. mutex \in [Mutexes -> Mutex]
    BY DEF ReviewInv, Shape
  <2>3. Passes(m, Lock(m, r), r) /\ Lock(m, r).holder = r
    BY <1>2, <1>3, <1>4, <1>5, <2>2, Takes
  <2>4. /\ ForReviews(m, mutex[m]) /\ waited \in Nat
        /\ Ordered(mutex[m].queue) /\ Due(m, mutex[m], Left(m))
    BY <1>3, AtMutex
  <2>5. Left(m) = 0
    BY <1>5 DEF Free, Left
  <2>6. r = Observed => waited = 0
    BY <1>1 DEF TimeInv, Stays
  <2>7. Due(m, Lock(m, r), Cost(m, r))
    BY <1>2, <1>3, <1>4, <1>5, <2>4, <2>5, <2>6, LineFresh, DueLock
  <2>8. Ordered(Lock(m, r).queue)
    BY <1>2, <1>3, <1>4, <1>5, <2>4, LockSound
  <2> QED
    BY <1>1, <1>3, <2>1, <2>3, <2>7, <2>8, TokenTime
<1>6. CASE ~Free(m)
  <2> DEFINE w == [v EXCEPT !.step = "wait", !.timer = 0]
  <2>1. Set(r, w) /\ mutex' = Enqueue(m, r)
    BY <1>6 DEF GetAccessToken
  <2>2. w.timer = 0
    BY <1>2 DEF Review
  <2> HIDE DEF w
  <2>3. w \in Review
    <3>1. review'[r] = w
      BY <2>1 DEF Set, ReviewInv, Shape
    <3> QED
      BY <3>1 DEF ReviewInv, Shape
  <2> QED
    BY <1>1, <1>3, <1>6, <2>1, <2>2, <2>3, JoinTime
<1> QED
  BY <1>5, <1>6

LEMMA SourceWokenTime ==
    ASSUME ReviewInv, ReviewInv', TimeInv, NEW r \in Reviews, SourceWoken(r)
    PROVE  TimeInv'
<1> DEFINE m == Source(r)
<1>1. /\ review[r].step = "wait" /\ Woken(m, r) /\ Token(r, Woke(m, r)) /\ loader' = loader
  BY DEF SourceWoken
<1>2. m \in TokenSources /\ m \in Mutexes /\ r \in Processes /\ Sound(mutex[m])
  BY <1>1, AtReview DEF Mutexes
<1>3. mutex \in [Mutexes -> Mutex]
  BY DEF ReviewInv, Shape
<1>4. Passes(m, Woke(m, r), r) /\ Woke(m, r).holder = r
  BY <1>1, <1>2, <1>3, Wakes
<1>5. WaitsFor(m, r)
  <2>1. Seeks(m, review[r])
    BY <1>1, <1>2, Engagement DEF Source
  <2> QED
    BY <2>1, ReviewEngages
<1>6. Due(m, Woke(m, r), Cost(m, r)) /\ Ordered(Woke(m, r).queue)
  BY <1>1, <1>2, <1>5, WokenLeft
<1> QED
  BY <1>1, <1>2, <1>4, <1>6, TokenTime

LEMMA FetchTime ==
    ASSUME ReviewInv, ReviewInv', TimeInv, NEW r \in Reviews, FetchSucceeds(r) \/ FetchFails(r)
    PROVE  TimeInv'
<1> DEFINE m == Source(r)
           v == review[r]
<1>1. /\ v.step = "fetch" /\ mutex' = Unlocked(m) /\ loader' = loader
      /\ (\E l \in Lifetimes : Set(r, WithToken(v, l))) \/ Set(r, NextSource(v))
  BY DEF FetchSucceeds, FetchFails
<1>2. m \in TokenSources /\ m \in Mutexes /\ r \in Processes /\ v \in Review /\ v.source \in Nat
  BY <1>1, AtReview, ReviewSelect DEF Mutexes
<1>3. Fetches(m, v) /\ OnlyAt(m, v)
  BY <1>1, <1>2, Engagement DEF Source
<1>4. mutex[m].holder = r /\ Sound(mutex[m])
  BY <1>2, <1>3, AtReview
<1>5. Passes(m, mutex[m], r)
  BY <1>2, <1>4, Holds
<1>6. mutex' = [mutex EXCEPT ![m] = Unlock(mutex[m])]
  BY <1>1 DEF Unlocked
<1>7. Left(m) \in Nat /\ Due(m, mutex[m], Left(m)) /\ Ordered(mutex[m].queue)
  BY <1>2, AtMutex
<1>8. PICK x : Set(r, x) /\ x \in Review /\ (r = Observed => Stays(x, waited'))
  <2>1. \A x : Set(r, x) => x \in Review
    <3>1. \A x : Set(r, x) => review'[r] = x
      BY DEF Set, ReviewInv, Shape
    <3> QED
      BY <3>1 DEF ReviewInv, Shape
  <2>2. CASE \E l \in Lifetimes : Set(r, WithToken(v, l))
    <3>1. PICK l \in Lifetimes : Set(r, WithToken(v, l))
      BY <2>2
    <3>2. r = Observed => Stays(WithToken(v, l), waited')
      BY <1>2, <1>4, <1>7, <3>1, RequestTime
    <3> QED
      BY <2>1, <3>1, <3>2
  <2>3. CASE Set(r, NextSource(v))
    <3>1. NextSource(v).source = v.source + 1
      BY <1>2, GoesTo
    <3>2. <<NextSource(v).asked, NextSource(v).source>> # Source(r)
      BY <1>2, <3>1 DEF Source
    <3>3. r = Observed => Stays(NextSource(v), waited')
      BY <2>1, <2>3, <3>2, ClockStopped
    <3> QED
      BY <2>1, <2>3, <3>3
  <2> QED
    BY <1>1, <2>2, <2>3
<1> QED
  BY <1>1, <1>2, <1>3, <1>4, <1>5, <1>6, <1>7, <1>8, ReviewTimeReleases

(* The configuration goroutine moves, and leaves its mutex as mx.          *)
LEMMA LoaderTimeMoves ==
    ASSUME ReviewInv, TimeInv, loader'.timer = 0, UNCHANGED <<review, waited>>,
           NEW mx, mutex' = [mutex EXCEPT ![mu] = mx], Passes(mu, mx, Configurator),
           Due(mu, mx, Rest(mu, mx, Configurator)),
           \/ Ordered(mx.queue) /\ Configurator \notin Line(mx)
           \/ mx.queue = Append(mutex[mu].queue, Configurator)
    PROVE  TimeInv'
<1>1. Configurator \in Processes /\ mu \in Mutexes /\ waited \in Nat
  BY DEF Processes, Mutexes, ReviewInv, Shape
<1>2. ASSUME NEW q \in Processes \ {Configurator}
      PROVE  /\ Timer(q)' = Timer(q)
             /\ \A n \in Mutexes : InSection(n, q)' <=> InSection(n, q)
  BY DEF Timer, InSection, Source
<1>3. \A n \in Mutexes \ {mu} : ~WaitsFor(n, Configurator) /\ ~InSection(n, Configurator)
  BY DEF WaitsFor, InSection
<1>4. Timer(Configurator)' = 0 /\ waited' \in Nat /\ waited' <= waited
  BY <1>1 DEF Timer
<1>5. \A n \in Mutexes : MutexTime(n)'
  BY <1>1, <1>2, <1>3, <1>4, TimeMoves
<1>6. 0 <= BuildTime
  BY BuildEnds
<1> QED
  BY <1>5, <1>6 DEF TimeInv, Stays

LEMMA LoaderTime ==
    ASSUME ReviewInv, TimeInv, Loader
    PROVE  TimeInv'
<1> USE AtLoader
<1>1. loader'.timer = 0 /\ UNCHANGED <<review, waited>>
  BY DEF Loader, HandleConfigChange, LoaderWoken, FirstLoad, LoadFails
<1>2. /\ ForReviews(mu, mutex[mu]) /\ waited \in Nat
      /\ Left(mu) \in Nat /\ Left(mu) <= Full(mu, mutex[mu].holder)
      /\ Ordered(mutex[mu].queue) /\ Due(mu, mutex[mu], Left(mu))
  BY AtMutex
<1>3. Configurator # Nil /\ Configurator # Observed
  BY NamesAssumption
<1>4. CASE HandleConfigChange
  <2>1. loader.at \in {"start", "idle"}
    BY <1>4 DEF HandleConfigChange
  <2>2. CASE Free(mu)
    <3> DEFINE mx == Lock(mu, Configurator)
    <3>1. mutex' = [mutex EXCEPT ![mu] = mx]
      BY <1>4, <2>2 DEF HandleConfigChange
    <3>2. Passes(mu, mx, Configurator) /\ mx.holder = Configurator
      BY <2>1, <2>2, Takes
    <3>3. Left(mu) = 0
      BY <2>2 DEF Free, Left
    <3>4. Due(mu, mx, Cost(mu, Configurator))
      BY <1>2, <1>3, <2>1, <2>2, <3>3, LineFresh, DueLock
    <3>5. Ordered(mx.queue) /\ Configurator \notin Line(mx)
      BY <1>2, <2>1, <2>2, LockSound
    <3>6. Rest(mu, mx, Configurator) = Cost(mu, Configurator)
      BY <1>3, <3>2 DEF Rest, Full
    <3> HIDE DEF mx
    <3> QED
      BY <1>1, <3>1, <3>2, <3>4, <3>5, <3>6, LoaderTimeMoves
  <2>3. CASE ~Free(mu)
    <3> DEFINE mx == [mutex[mu] EXCEPT !.queue = Append(mutex[mu].queue, Configurator)]
    <3>1. mutex' = Enqueue(mu, Configurator)
      BY <1>4, <2>3 DEF HandleConfigChange
    <3>2. Enqueue(mu, Configurator) = [mutex EXCEPT ![mu] = mx] /\ Passes(mu, mx, Configurator)
      BY <2>1, Joins
    <3>3. mx.holder = mutex[mu].holder /\ mx.queue = Append(mutex[mu].queue, Configurator)
      BY <2>1, EnqueueSound
    <3>4. Due(mu, mx, Left(mu))
      BY <1>2, <1>3, <2>1, DueJoin
    <3>5. Rest(mu, mx, Configurator) = Left(mu)
      BY <2>1, <2>3, <3>3 DEF Rest, Free
    <3> HIDE DEF mx
    <3> QED
      BY <1>1, <3>1, <3>2, <3>3, <3>4, <3>5, LoaderTimeMoves
  <2> QED
    BY <2>2, <2>3
<1>5. CASE LoaderWoken
  <2> DEFINE mx == Woke(mu, Configurator)
  <2>1. Woken(mu, Configurator) /\ mutex' = [mutex EXCEPT ![mu] = mx] /\ WaitsFor(mu, Configurator)
    BY <1>5 DEF LoaderWoken, WaitsFor
  <2>2. Passes(mu, mx, Configurator) /\ mx.holder = Configurator
    BY <2>1, Wakes
  <2>3. Due(mu, mx, Cost(mu, Configurator)) /\ Ordered(mx.queue)
    BY <2>1, WokenLeft
  <2>4. Rest(mu, mx, Configurator) = Cost(mu, Configurator) /\ Configurator \notin Line(mx)
    BY <1>3, <2>2 DEF Rest, Full, Passes, Sound
  <2> HIDE DEF mx
  <2> QED
    BY <1>1, <2>1, <2>2, <2>3, <2>4, LoaderTimeMoves
<1>6. CASE FirstLoad \/ LoadFails
  <2> DEFINE mx == Unlock(mutex[mu])
  <2>1. mutex[mu].holder = Configurator /\ mutex' = [mutex EXCEPT ![mu] = mx]
    BY <1>6 DEF FirstLoad, LoadFails, Unlocked
  <2>2. Passes(mu, mx, Configurator)
    BY <2>1, Holds, Releases
  <2>3. Due(mu, mx, Full(mu, mx.holder)) /\ Ordered(mx.queue)
    BY <1>2, <1>3, <2>1, DueUnlock, OrderedUnlock
  <2>4. /\ mx.holder \in Line(mutex[mu]) \cup {Nil} /\ Line(mx) = Line(mutex[mu]) \ {mx.holder}
        /\ Configurator \notin Line(mutex[mu])
    BY <2>1, UnlockSound DEF Sound
  <2>5. Rest(mu, mx, Configurator) = Full(mu, mx.holder) /\ Configurator \notin Line(mx)
    BY <2>1, <2>4 DEF Rest
  <2> HIDE DEF mx
  <2> QED
    BY <1>1, <2>1, <2>2, <2>3, <2>5, LoaderTimeMoves
<1> QED
  BY <1>4, <1>5, <1>6 DEF Loader

-----------------------------------------------------------------------------
(* Time passes at a mutex that somebody waits for only while its holder is *)
(* in the critical section: anybody else could go on.                      *)
LEMMA TickHolder ==
    ASSUME ReviewInv, Tick, NEW m \in Mutexes,
           mutex[m].holder # Nil \/ Line(mutex[m]) # {}
    PROVE  mutex[m].holder \in Processes /\ InSection(m, mutex[m].holder)
<1>1. QueueAt(m) /\ Sound(mutex[m])
  BY DEF ReviewInv, QueueInv, QueueAt
<1>2. mutex[m].holder \in Processes \cup {Nil} /\ mutex[m].queue \in Seq(Processes)
  BY <1>1, MutexFields DEF Sound
<1>3. ASSUME NEW p \in Processes, WaitsFor(m, p)
      PROVE  ~Woken(m, p)
  <2>1. CASE p = Configurator
    BY <1>3, <2>1 DEF WaitsFor, Tick
  <2>2. CASE p # Configurator
    <3>1. p \in Reviews /\ Waits(p)
      BY <2>2 DEF Processes, Tick
    <3>2. CASE m = mu
      BY <1>3, <2>2, <3>1, <3>2 DEF WaitsFor, Waits
    <3>3. CASE m # mu
      <4>1. review[p].step = "wait" /\ Source(p) = m
        BY <1>3, <2>2, <3>3 DEF WaitsFor
      <4> QED
        BY <3>1, <4>1 DEF Waits
    <3> QED
      BY <3>2, <3>3
  <2> QED
    BY <2>1, <2>2
<1>4. mutex[m].holder # Nil
  <2> SUFFICES ASSUME mutex[m].holder = Nil
               PROVE  FALSE
    OBVIOUS
  <2>1. mutex[m].queue # <<>>
    BY DEF Line, Elements
  <2>2. Head(mutex[m].queue) \in Processes /\ Head(mutex[m].queue) \in Line(mutex[m])
    BY <1>1, <1>2, <2>1, TailFacts DEF Sound, Line
  <2>3. WaitsFor(m, Head(mutex[m].queue)) /\ Woken(m, Head(mutex[m].queue))
    BY <1>1, <2>1, <2>2 DEF QueueAt, Woken, Free
  <2> QED
    BY <1>3, <2>2, <2>3
<1>5. mutex[m].holder \in Processes
  BY <1>2, <1>4
<1>6. ~WaitsFor(m, mutex[m].holder)
  BY <1>3, <1>5 DEF Woken
<1> QED
  BY <1>1, <1>5, <1>6 DEF QueueAt

(* What a tick does to the timers.                                         *)
LEMMA TickTimers ==
    ASSUME ReviewInv, Tick
    PROVE  /\ \A r \in Reviews :
                /\ review[r].step \in {"fetch", "request"} => review'[r].timer = review[r].timer + 1
                /\ review[r].step \in {"mu", "wait"} => review'[r].timer = 1
           /\ loader.at = "build" => loader'.timer = loader.timer + 1
           /\ loader.at = "wait" => loader'.timer = 1
<1>1. ASSUME NEW r \in Reviews
      PROVE  /\ review[r].step \in {"fetch", "request"} => review'[r].timer = review[r].timer + 1
             /\ review[r].step \in {"mu", "wait"} => review'[r].timer = 1
  <2>1. review[r] \in Review
    BY AtReview
  <2>2. CASE review[r].step \in {"fetch", "request"}
    <3>1. review'[r] = [review[r] EXCEPT !.timer = review[r].timer + 1]
      BY <2>2 DEF Tick
    <3> QED
      BY <2>1, <2>2, <3>1 DEF Review
  <2>3. CASE review[r].step \in {"mu", "wait"}
    <3>1. review'[r] = [review[r] EXCEPT !.timer = 1]
      BY <2>3 DEF Tick
    <3> QED
      BY <2>1, <2>3, <3>1 DEF Review
  <2> QED
    BY <2>2, <2>3
<1>2. loader \in [at : LoaderAt, timer : Nat]
  BY DEF ReviewInv, Shape
<1>3. loader.at = "build" => loader'.timer = loader.timer + 1
  <2>1. loader.at = "build" => loader' = [loader EXCEPT !.timer = loader.timer + 1]
    BY DEF Tick
  <2> QED
    BY <1>2, <2>1
<1>4. loader.at = "wait" => loader'.timer = 1
  <2>1. loader.at = "wait" => loader' = [loader EXCEPT !.timer = 1]
    BY DEF Tick
  <2> QED
    BY <1>2, <2>1
<1> QED
  BY <1>1, <1>3, <1>4

(* Each tick takes from the time left what it adds to the time waited.     *)
LEMMA TickTime ==
    ASSUME ReviewInv, TimeInv, Tick
    PROVE  TimeInv'
<1>1. /\ mutex' = mutex /\ loader'.at = loader.at
      /\ \A r \in Reviews : /\ review'[r].step = review[r].step
                            /\ review'[r].asked = review[r].asked
                            /\ review'[r].source = review[r].source
  BY TickKeeps DEF Tick
<1>2. Observed \in Reviews /\ Observed \in Processes /\ Observed # Configurator /\ Observed # Nil
  BY ObservedIsReview
<1>3. waited \in Nat /\ waited' = IF InFlight(review[Observed]) THEN waited + 1 ELSE 0
  BY DEF ReviewInv, Shape, Tick
<1>4. ASSUME NEW m \in Mutexes
      PROVE  Ordered(mutex[m].queue)'
  <2>1. QueueAt(m) /\ Line(mutex[m]) \subseteq Processes
    BY MutexFields DEF ReviewInv, QueueInv, QueueAt, Sound, Line
  <2>2. ASSUME NEW p \in Processes, WaitsFor(m, p)
        PROVE  Waiting(p)'
    <3>1. CASE p = Configurator
      <4>1. loader'.timer = 1
        BY <2>2, <3>1, TickTimers DEF WaitsFor
      <4> QED
        BY <3>1, <4>1 DEF Waiting
    <3>2. CASE p # Configurator
      <4>1. p \in Reviews /\ review[p].step \in {"mu", "wait"}
        BY <2>2, <3>2 DEF WaitsFor, Processes
      <4>2. review'[p].timer = 1
        BY <4>1, TickTimers
      <4> QED
        BY <3>2, <4>2 DEF Waiting
    <3> QED
      BY <3>1, <3>2
  <2>3. \A k \in DOMAIN mutex[m].queue : Waiting(mutex[m].queue[k])'
    <3>1. \A k \in DOMAIN mutex[m].queue :
            mutex[m].queue[k] \in Processes /\ WaitsFor(m, mutex[m].queue[k])
      BY <2>1 DEF QueueAt, Line, Elements
    <3>2. \A k \in DOMAIN mutex[m].queue :
            \A p \in Processes : p = mutex[m].queue[k] => Waiting(p)'
      BY <2>2, <3>1
    <3> QED
      BY <1>1, <3>1, <3>2 DEF Waiting
  <2> QED
    BY <1>1, <2>3 DEF Ordered
<1>5. ASSUME NEW m \in Mutexes
      PROVE  Due(m, mutex[m], Left(m))'
  <2> DEFINE mx == mutex[m]
             h == mx.holder
  <2>1. /\ QueueAt(m) /\ Sound(mx) /\ Left(m) \in Nat /\ Due(m, mx, Left(m))
        /\ mx.queue \in Seq(Processes)
    BY AtMutex, MutexFields DEF ReviewInv, QueueInv, QueueAt, Sound
  <2>2. CASE Observed \notin Line(mx) /\ h # Observed
    BY <1>1, <2>2 DEF Due, Line, Elements
  <2>3. CASE Observed \in Line(mx) \/ h = Observed
    <3>1. h \in Processes /\ InSection(m, h) /\ h # Nil
      BY <1>2, <2>3, TickHolder, NamesAssumption DEF Processes
    <3>2. waited' = waited + 1
      <4>1. WaitsFor(m, Observed) \/ InSection(m, Observed)
        BY <1>2, <2>1, <2>3 DEF QueueAt
      <4>2. review[Observed].step \in {"mu", "wait", "fetch"}
        BY <1>2, <4>1 DEF WaitsFor, InSection
      <4> QED
        BY <1>3, <4>2 DEF InFlight
    <3>3. Timer(h)' = Timer(h) + 1 /\ InSection(m, h)' /\ Timer(h) \in Nat
      <4>1. CASE h = Configurator
        <5>1. loader.at = "build"
          BY <3>1, <4>1 DEF InSection
        <5>2. loader'.timer = loader.timer + 1 /\ loader.timer \in Nat
          BY <5>1, TickTimers DEF ReviewInv, Shape
        <5> QED
          BY <1>1, <3>1, <4>1, <5>2 DEF Timer, InSection
      <4>2. CASE h # Configurator
        <5>1. h \in Reviews /\ review[h].step = "fetch" /\ m # mu /\ Source(h) = m
          BY <3>1, <4>2 DEF InSection, Processes
        <5>2. review'[h].timer = review[h].timer + 1 /\ review[h].timer \in Nat
          BY <5>1, TickTimers, AtReview, ReviewSelect
        <5> QED
          BY <1>1, <4>2, <5>1, <5>2 DEF Timer, InSection, Source
      <4> QED
        BY <4>1, <4>2
    <3>4. Left(m)' = Left(m) - 1
      <4>1. Left(m) = Cost(m, h) - Timer(h)
        BY <3>1 DEF Left
      <4>2. Left(m)' = Cost(m, h) - Timer(h)'
        BY <1>1, <3>1, <3>3 DEF Left
      <4>3. Cost(m, h) \in Nat
        BY TimesAreNumbers
      <4> QED
        BY <3>3, <4>1, <4>2, <4>3
    <3>5. ASSUME NEW k \in DOMAIN mx.queue, mx.queue[k] = Observed
          PROVE  waited' + Turn(m, mx, Left(m)', k) <= Limit(m)
      <4>1. waited + Turn(m, mx, Left(m), k) <= Limit(m)
        BY <2>1, <3>5 DEF Due
      <4> DEFINE c == Ahead(m, mx.queue, k)
                 s == IF mx.starving THEN 0 ELSE Grace(m)
      <4>2. k \in Nat \ {0}
        BY <2>1
      <4>3. c \in Nat /\ s \in Nat /\ Cost(m, Observed) \in Nat /\ Limit(m) \in Nat
        BY <4>2, TimesAreNumbers
      <4>4. /\ Turn(m, mx, Left(m), k) = Left(m) + c + s + Cost(m, Observed)
            /\ Turn(m, mx, Left(m)', k) = Left(m)' + c + s + Cost(m, Observed)
        BY DEF Turn
      <4> HIDE DEF c, s, mx
      <4> QED
        BY <1>3, <2>1, <3>2, <3>4, <4>1, <4>3, <4>4
    <3>6. h = Observed => waited' + Left(m)' <= Limit(m)
      <4>1. h = Observed => waited + Left(m) <= Limit(m)
        BY <2>1 DEF Due
      <4>2. Limit(m) \in Nat
        BY TimesAreNumbers
      <4> QED
        BY <1>3, <2>1, <3>2, <3>4, <4>1, <4>2
    <3> QED
      BY <1>1, <3>5, <3>6 DEF Due
  <2> QED
    BY <2>2, <2>3
<1>6. Stays(review[Observed], waited)'
  <2> DEFINE v == review[Observed]
             limit == IF <<v.asked, v.source>> \in TokenSources
                      THEN Limit(<<v.asked, v.source>>) ELSE 0
  <2>1. /\ v.timer \in Nat /\ v \in Review /\ limit \in Nat
    BY <1>2, AtReview, ReviewSelect, TimesAreNumbers
  <2>2. v.step \notin {"mu", "wait", "fetch", "request"} => waited' = 0
    <3>1. Waits(Observed)
      BY <1>2 DEF Tick
    <3> QED
      BY <1>3, <3>1 DEF Waits
  <2>3. v.step \in {"mu", "wait"} => review'[Observed].timer # 0
    BY <1>2, TickTimers
  <2>4. v.step = "request" => waited' <= review'[Observed].timer + limit
    <3>1. v.step = "request" => review'[Observed].timer = v.timer + 1 /\ waited' = waited + 1
      BY <1>2, <1>3, TickTimers DEF InFlight
    <3>2. v.step = "request" => waited <= v.timer + limit
      BY DEF TimeInv, Stays
    <3> HIDE DEF limit, v
    <3> QED
      BY <1>3, <2>1, <3>1, <3>2
  <2> QED
    BY <1>1, <1>2, <2>2, <2>3, <2>4 DEF Stays
<1>7. (loader.at = "build" => loader.timer <= BuildTime)'
  <2>1. loader.at = "build" => loader.timer < BuildTime /\ loader.timer \in Nat
    BY DEF Tick, ReviewInv, Shape
  <2>2. loader'.at = "build" => loader'.timer <= BuildTime
    BY <1>1, <2>1, TickTimers, BuildEnds
  <2> QED
    BY <2>2
<1> QED
  BY <1>4, <1>5, <1>6, <1>7 DEF TimeInv, MutexTime

-----------------------------------------------------------------------------
LEMMA TimeStep ==
    ASSUME ReviewInv, ReviewInv', TimeInv, [Next]_vars
    PROVE  TimeInv'
<1>1. CASE UNCHANGED others
  BY <1>1 DEF others, TimeInv, MutexTime, Stays, Ordered, Waiting, Due, Left, InSection, Timer, Source
<1>2. CASE Loader
  BY <1>2, LoaderTime
<1>3. CASE Tick
  BY <1>3, TickTime
<1>4. ASSUME NEW r \in Reviews, Refuse(r) \/ ServeHTTP(r) \/ Proceed(r)
      PROVE  TimeInv'
  BY <1>4, WanderTime, ServeHTTPTime, TokenAuthenticatorTime, GetAccessTokenTime,
     SourceWokenTime, FetchTime DEF Proceed
<1>5. Serve \/ ServerEvent => UNCHANGED others
  BY DEF Serve, SelectServerErr, SelectDone, Shutdown, ReceiveServerErr,
         ServerEvent, Listen, ListenerReturns, CancelContext
<1>6. UNCHANGED vars => UNCHANGED others
  BY DEF vars, others
<1> QED
  BY <1>1, <1>2, <1>3, <1>4, <1>5, <1>6 DEF Next, Exited

LEMMA TimeInit ==
    ASSUME Init
    PROVE  TimeInv
<1>1. ASSUME NEW m \in Mutexes
      PROVE  MutexTime(m)
  <2>1. mutex[m].holder = Nil /\ mutex[m].queue = <<>>
    BY DEF Init, Mutexes
  <2>2. DOMAIN mutex[m].queue = {}
    BY <2>1
  <2>3. mutex[m].holder # Observed
    BY <2>1, ObservedIsReview
  <2> QED
    BY <2>2, <2>3 DEF MutexTime, Ordered, Due
<1>2. review[Observed] = NewReview /\ waited = 0 /\ loader.at = "start"
  BY ObservedIsReview DEF Init
<1>3. Stays(review[Observed], waited)
  BY <1>2 DEF Stays, NewReview
<1> QED
  BY <1>1, <1>2, <1>3 DEF TimeInv

(* However many reviews, sources and reloads there are and whatever the    *)
(* token endpoints and the sources do, a review gets the authenticator     *)
(* within two builds, and gets past a source within the timeout of its     *)
(* request and, if the source needs a token, one fetch for each review and *)
(* one more.                                                               *)
THEOREM WaitIsBounded == Spec => []InTime
<1>1. Init => TimeInv
  BY TimeInit
<1>2. Inv /\ Inv' /\ TimeInv /\ [Next]_vars => TimeInv'
  BY TimeStep DEF Inv
<1>3. Inv /\ TimeInv => InTime
  <2> SUFFICES ASSUME Inv, TimeInv
               PROVE  waited <= Patience(Observed)
    BY DEF InTime
  <2> DEFINE v == review[Observed]
             m == Source(Observed)
  <2>1. Observed \in Reviews /\ Observed \in Processes /\ ReviewInv /\ waited \in Nat
    BY ObservedIsReview DEF Inv, ReviewInv, Shape
  <2>2. Local(v) /\ v \in Review /\ v.timer \in Nat /\ m = <<v.asked, v.source>>
    BY <2>1, AtReview, ReviewSelect DEF Source
  <2>3. BuildTime \in Nat /\ Cardinality(Reviews) \in Nat
    BY BuildEnds, ReviewsCounted
  <2>4. ASSUME NEW n \in Mutexes, WaitsFor(n, Observed) \/ InSection(n, Observed)
        PROVE  waited <= Limit(n)
    <3>1. QueueAt(n) /\ Left(n) \in Nat /\ Due(n, mutex[n], Left(n)) /\ Sound(mutex[n])
          /\ Left(n) <= Full(n, mutex[n].holder) /\ ForReviews(n, mutex[n])
      BY <2>1, AtMutex DEF ReviewInv, QueueInv
    <3>2. Limit(n) \in Nat
      BY TimesAreNumbers
    <3>3. Observed \in Line(mutex[n]) \cup {mutex[n].holder}
      BY <2>1, <2>4, <3>1 DEF QueueAt
    <3>4. CASE mutex[n].holder = Observed
      <4>1. waited + Left(n) <= Limit(n)
        BY <3>1, <3>4 DEF Due
      <4> QED
        BY <2>1, <3>1, <3>2, <4>1
    <3>5. CASE Observed \in Line(mutex[n])
      <4>1. PICK k \in DOMAIN mutex[n].queue : mutex[n].queue[k] = Observed
        BY <3>5 DEF Line, Elements
      <4>2. waited + Turn(n, mutex[n], Left(n), k) <= Limit(n)
        BY <3>1, <4>1 DEF Due
      <4>3. Turn(n, mutex[n], Left(n), k) \in Nat
        BY <3>1, TurnBounded
      <4> QED
        BY <2>1, <3>2, <4>2, <4>3
    <3> QED
      BY <3>3, <3>4, <3>5
  <2>5. CASE v.step = "mu"
    <3>1. WaitsFor(mu, Observed) /\ mu \in Mutexes
      BY <2>1, <2>5, ReviewEngages DEF Seeks, Mutexes
    <3>2. waited <= 2 * BuildTime
      BY <2>4, <3>1 DEF Limit
    <3>3. m \notin TokenSources
      <4>1. m = mu
        BY <2>2, <2>5 DEF Local, Place, mu
      <4> QED
        BY <4>1, MuIsNoTokenSource
    <3>4. Patience(Observed) = 2 * BuildTime
      BY <2>5, <3>3 DEF Patience
    <3> QED
      BY <3>2, <3>4
  <2>6. CASE v.step \in {"wait", "fetch"}
    <3>1. m \in TokenSources /\ m \in Mutexes /\ m # mu
      BY <2>1, <2>6, AtReview, MuIsNoTokenSource DEF Mutexes
    <3>2. WaitsFor(m, Observed) \/ InSection(m, Observed)
      BY <2>1, <2>2, <2>6, <3>1, ReviewEngages DEF Seeks, Fetches
    <3>3. waited <= (Cardinality(Reviews) + 1) * tokenEndpointRequestTimeout
      BY <2>4, <3>1, <3>2 DEF Limit
    <3>4. Patience(Observed) =
            (Cardinality(Reviews) + 1) * tokenEndpointRequestTimeout + externalSourceRequestTimeout
      BY <2>6, <3>1 DEF Patience
    <3> QED
      BY <2>1, <2>3, <3>3, <3>4 DEF tokenEndpointRequestTimeout, externalSourceRequestTimeout
  <2>7. CASE v.step = "request"
    <3>1. v.timer <= 1
      BY <2>2, <2>7 DEF Local, Timers
    <3>2. waited <= v.timer + (IF m \in TokenSources THEN Limit(m) ELSE 0)
      BY <2>2, <2>7 DEF TimeInv, Stays
    <3>3. CASE m \in TokenSources
      <4>1. Limit(m) = (Cardinality(Reviews) + 1) * 2
        BY <3>3, MuIsNoTokenSource DEF Limit, tokenEndpointRequestTimeout
      <4>2. Patience(Observed) = (Cardinality(Reviews) + 1) * 2 + 1
        BY <2>7, <3>3 DEF Patience, tokenEndpointRequestTimeout, externalSourceRequestTimeout
      <4> QED
        BY <2>1, <2>2, <2>3, <3>1, <3>2, <3>3, <4>1, <4>2
    <3>4. CASE m \notin TokenSources
      <4>1. Patience(Observed) = 1
        BY <2>7, <3>4 DEF Patience, externalSourceRequestTimeout
      <4> QED
        BY <2>1, <2>2, <3>1, <3>2, <3>4, <4>1
    <3> QED
      BY <3>3, <3>4
  <2>8. CASE v.step \notin {"mu", "wait", "fetch", "request"}
    <3>1. waited = 0
      BY <2>8 DEF TimeInv, Stays
    <3>2. Patience(Observed) \in Nat
      BY <2>3 DEF Patience, tokenEndpointRequestTimeout, externalSourceRequestTimeout
    <3> QED
      BY <3>1, <3>2
  <2> QED
    BY <2>5, <2>6, <2>7, <2>8
<1> QED
  BY <1>1, <1>2, <1>3, Invariance, PTL DEF Spec
=============================================================================
