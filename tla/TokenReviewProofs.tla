------------------------- MODULE TokenReviewProofs -------------------------
(***************************************************************************)
(* The safety of token reviews, for any number of reviews, authenticators, *)
(* sources and issuers, and any lifetimes and timeouts.                    *)
(*                                                                         *)
(* The invariant has three parts: what holds of a review by itself         *)
(* (Local), of Go's mutexes and those that queue for them (QueueInv), and  *)
(* of Serve and its listener (ServeInv).                                   *)
(***************************************************************************)
EXTENDS TokenReview, SequenceTheorems, TLAPS

Mutexes == TokenSources \cup {mu}

-----------------------------------------------------------------------------
(* A review by itself: where in the configuration it is, that no verdict   *)
(* is passed over, and how long it has waited for what.                    *)
Place(v) ==
    /\ v.step \in {"idle", "closed", "mu"} => v.asked = 0 /\ v.source = 0
    /\ v.step = "union" => v.asked # 0 /\ v.source = 0
    /\ v.step \in {"expand", "wait", "fetch", "request"} =>
         v.asked \in DOMAIN Authenticators /\ v.source # 0
    /\ v.step \in {"wait", "fetch"} => <<v.asked, v.source>> \in TokenSources

Verdict(v) ==
    /\ InFlight(v) => v.answer = Nil /\ ~v.accepted
    /\ ~InFlight(v) => (v.answer = "authenticated" <=> v.accepted)
    /\ v.answer = "unauthenticated" =>
         \A a \in DOMAIN Authenticators : Authenticators[a].issuer # v.issuer
    /\ v.step = "mu" => ~v.err
    /\ v.step = "union" /\ ~v.err =>
         \A a \in DOMAIN Authenticators : a < v.asked => Authenticators[a].issuer # v.issuer

Timers(v) ==
    /\ v.step = "request" => v.timer <= 1 /\ (v.token # Nil => v.token > 1)
    /\ v.step = "fetch" => v.timer <= 2
    /\ v.step \in {"mu", "wait"} => v.timer <= 1

Local(v) == v \in Review /\ Place(v) /\ Verdict(v) /\ Timers(v)

LocalInv == \A r \in Reviews : Local(review[r])

(* Writing a field of a review with a value of its type.                   *)
LEMMA ReviewFields ==
    /\ \A v \in Review, x \in Steps : [v EXCEPT !.step = x] \in Review
    /\ \A v \in Review, x \in Issuers \cup {Nil} : [v EXCEPT !.issuer = x] \in Review
    /\ \A v \in Review, x \in Nat : [v EXCEPT !.asked = x] \in Review
    /\ \A v \in Review, x \in Nat : [v EXCEPT !.source = x] \in Review
    /\ \A v \in Review, x \in BOOLEAN : [v EXCEPT !.err = x] \in Review
    /\ \A v \in Review, x \in Nat \cup {Nil} : [v EXCEPT !.token = x] \in Review
    /\ \A v \in Review, x \in Nat : [v EXCEPT !.timer = x] \in Review
    /\ \A v \in Review, x \in Answers \cup {Nil} : [v EXCEPT !.answer = x] \in Review
    /\ \A v \in Review, x \in BOOLEAN : [v EXCEPT !.accepted = x] \in Review
<1>1. \A v \in Review, x \in BOOLEAN :
        [v EXCEPT !.err = x] \in Review /\ [v EXCEPT !.accepted = x] \in Review
  BY DEF Review
<1> QED
  BY <1>1 DEF Review

LEMMA ReviewSelect ==
    ASSUME NEW v \in Review
    PROVE  v.asked \in Nat /\ v.source \in Nat /\ v.timer \in Nat /\ v.step \in Steps
  BY DEF Review

(* A new review is one.                                                    *)
LEMMA LocalNew ==
    /\ NewReview \in Review
    /\ Local(NewReview)
    /\ \A i \in Issuers : Local([NewReview EXCEPT !.issuer = i])
<1>1. NewReview \in Review
  BY DEF NewReview, Review, Steps
<1>2. ASSUME NEW i \in Issuers \cup {Nil}
      PROVE  Local([NewReview EXCEPT !.issuer = i])
  <2> DEFINE w == [NewReview EXCEPT !.issuer = i]
  <2>1. w \in Review
    BY <1>1, ReviewFields
  <2>2. w.step = "idle" /\ w.asked = 0 /\ w.source = 0 /\ w.answer = Nil /\ w.accepted = FALSE
    BY DEF NewReview
  <2> HIDE DEF w
  <2>3. Place(w) /\ Verdict(w) /\ Timers(w)
    BY <2>2, NamesAssumption DEF Place, Verdict, Timers, InFlight, Answers
  <2> QED
    BY <2>1, <2>3 DEF Local, w
<1>3. Local(NewReview)
  BY <1>1, NamesAssumption DEF NewReview, Local, Place, Verdict, Timers, InFlight, Answers
<1> QED
  BY <1>1, <1>2, <1>3

(* An answer closes a review, if it is the verdict of its authenticator.   *)
LEMMA LocalAnswered ==
    ASSUME NEW v \in Review, NEW status \in Answers,
           status = "authenticated" <=> v.accepted,
           status = "unauthenticated" =>
             \A a \in DOMAIN Authenticators : Authenticators[a].issuer # v.issuer
    PROVE  Local(Answered(v, status)) /\ ~InFlight(Answered(v, status))
<1> DEFINE w == Answered(v, status)
<1>1. w \in Review
  <2>1. v.accepted \in BOOLEAN /\ v.issuer \in Issuers \cup {Nil}
    BY DEF Review
  <2>2. {"closed", "idle"} \subseteq Steps
    BY DEF Steps
  <2> QED
    BY <2>1, <2>2, ReviewFields, LocalNew DEF Answered
<1>2. /\ w.step = IF serve = "shutdown" THEN "closed" ELSE "idle"
      /\ w.issuer = IF status = "unauthenticated" THEN v.issuer ELSE Nil
      /\ w.asked = 0 /\ w.source = 0
      /\ w.answer = status /\ w.accepted = v.accepted
  BY DEF Answered, NewReview
<1> HIDE DEF w
<1>3. Place(w) /\ Verdict(w) /\ Timers(w) /\ ~InFlight(w)
  BY <1>2, NamesAssumption DEF Place, Verdict, Timers, InFlight, Answers
<1> QED
  BY <1>1, <1>3 DEF Local, w

(* The union moves on from a handler that reported an error.               *)
LEMMA LocalNextHandler ==
    ASSUME NEW v \in Review, v.err = TRUE, v.answer = Nil, v.accepted = FALSE
    PROVE  Local(NextHandler(v))
<1> DEFINE w == NextHandler(v)
<1>1. w \in Review
  <2>1. v.asked + 1 \in Nat /\ "union" \in Steps /\ 0 \in Nat
    BY DEF Review, Steps
  <2> QED
    BY <2>1, ReviewFields DEF NextHandler
<1>2. w.step = "union" /\ w.asked = v.asked + 1 /\ w.source = 0 /\ w.err = TRUE
      /\ w.answer = Nil /\ w.accepted = FALSE /\ v.asked \in Nat
  BY DEF NextHandler, Review
<1> HIDE DEF w
<1>3. Place(w) /\ Verdict(w) /\ Timers(w)
  BY <1>2, NamesAssumption DEF Place, Verdict, Timers, InFlight, Answers
<1> QED
  BY <1>1, <1>3 DEF Local, w

(* The union asks the handler that has the issuer.                         *)
LEMMA LocalAsks ==
    ASSUME NEW v, Local(v), v.step = "union", NEW a \in DOMAIN Authenticators
    PROVE  Local([v EXCEPT !.step = "expand", !.asked = a, !.source = 1])
<1> DEFINE w == [v EXCEPT !.step = "expand", !.asked = a, !.source = 1]
<1>1. v \in Review /\ v.answer = Nil /\ v.accepted = FALSE
  BY DEF Local, Verdict, InFlight, Review
<1>2. w \in Review
  <2>1. a \in Nat /\ "expand" \in Steps /\ 1 \in Nat
    BY AuthenticatorsAssumption DEF Steps
  <2> QED
    BY <1>1, <2>1, ReviewFields
<1>3. w.step = "expand" /\ w.asked = a /\ w.source = 1 /\ w.answer = Nil /\ w.accepted = FALSE
  BY <1>1 DEF Review
<1> HIDE DEF w
<1>4. Place(w) /\ Verdict(w) /\ Timers(w)
  BY <1>3, NamesAssumption DEF Place, Verdict, Timers, InFlight, Answers
<1> QED
  BY <1>2, <1>4 DEF Local, w

Consulting == {"expand", "wait", "fetch", "request"}

(* A source is left for the next one.                                      *)
LEMMA LocalNextSource ==
    ASSUME NEW v, Local(v), v.step \in Consulting
    PROVE  Local(NextSource(v))
<1> DEFINE w == NextSource(v)
<1>a. /\ v \in Review /\ v.answer = Nil /\ v.accepted = FALSE
      /\ v.asked \in DOMAIN Authenticators /\ v.source \in Nat /\ v.source # 0
  BY DEF Consulting, Local, Place, Verdict, InFlight, Review
<1>1. w \in Review
  <2>1. v.source + 1 \in Nat /\ "expand" \in Steps /\ 0 \in Nat
    BY <1>a DEF Steps
  <2> QED
    BY <2>1, <1>a, ReviewFields DEF NextSource
<1>2. w.step = "expand" /\ w.asked = v.asked /\ w.source = v.source + 1 /\ w.answer = Nil
      /\ w.accepted = FALSE
  BY <1>a DEF NextSource, Review
<1> HIDE DEF w
<1>3. Place(w) /\ Verdict(w) /\ Timers(w)
  BY <1>2, <1>a, NamesAssumption DEF Place, Verdict, Timers, InFlight, Answers
<1> QED
  BY <1>1, <1>3 DEF Local, w

(* The request to a source is sent with a token that outlives it.          *)
LEMMA LocalWithToken ==
    ASSUME NEW v, Local(v), v.step \in Consulting,
           NEW l \in Nat \cup {Nil}, l # Nil => l > 1
    PROVE  Local(WithToken(v, l))
<1> DEFINE w == WithToken(v, l)
<1>a. /\ v \in Review /\ v.answer = Nil /\ v.accepted = FALSE
      /\ v.asked \in DOMAIN Authenticators /\ v.source \in Nat /\ v.source # 0
  BY DEF Consulting, Local, Place, Verdict, InFlight, Review
<1>1. w \in Review
  <2>1. "request" \in Steps /\ 0 \in Nat
    BY DEF Steps
  <2> QED
    BY <2>1, <1>a, ReviewFields DEF WithToken
<1>2. w.step = "request" /\ w.asked = v.asked /\ w.source = v.source /\ w.answer = Nil
      /\ w.accepted = FALSE /\ w.token = l /\ w.timer = 0
  BY <1>a DEF WithToken, Review
<1> HIDE DEF w
<1>3. Place(w) /\ Verdict(w) /\ Timers(w)
  BY <1>2, <1>a, NamesAssumption DEF Place, Verdict, Timers, InFlight, Answers
<1> QED
  BY <1>1, <1>3 DEF Local, w

(* A review waits for a token source, or fetches its token.                *)
LEMMA LocalWait ==
    ASSUME NEW v, Local(v), v.step \in Consulting, NEW s \in {"wait", "fetch"},
           <<v.asked, v.source>> \in TokenSources
    PROVE  Local([v EXCEPT !.step = s, !.timer = 0])
<1> DEFINE w == [v EXCEPT !.step = s, !.timer = 0]
<1>a. /\ v \in Review /\ v.answer = Nil /\ v.accepted = FALSE
      /\ v.asked \in DOMAIN Authenticators /\ v.source \in Nat /\ v.source # 0
  BY DEF Consulting, Local, Place, Verdict, InFlight, Review
<1>1. w \in Review
  <2>1. s \in Steps /\ 0 \in Nat
    BY DEF Steps
  <2> QED
    BY <2>1, <1>a, ReviewFields
<1>2. w.step = s /\ w.asked = v.asked /\ w.source = v.source /\ w.answer = Nil
      /\ w.accepted = FALSE /\ w.timer = 0
  BY <1>a DEF Review
<1> HIDE DEF w
<1>3. Place(w) /\ Verdict(w) /\ Timers(w)
  BY <1>2, <1>a, NamesAssumption DEF Place, Verdict, Timers, InFlight, Answers
<1> QED
  BY <1>1, <1>3 DEF Local, w

(* The authenticator is obtained, or there is none yet.                    *)
LEMMA LocalObtained ==
    ASSUME NEW v \in Review, v.accepted = FALSE, v.err = FALSE, v.answer = Nil,
           v.source = 0
    PROVE  Local(Obtained(v))
<1>1. CASE loaded
  <2> DEFINE w == [v EXCEPT !.step = "union", !.asked = 1, !.timer = 0]
  <2>1. w \in Review
    <3>1. "union" \in Steps /\ 0 \in Nat /\ 1 \in Nat
      BY DEF Steps
    <3> QED
      BY <3>1, ReviewFields
  <2>2. w.step = "union" /\ w.asked = 1 /\ w.source = 0 /\ w.answer = Nil
        /\ w.accepted = FALSE /\ w.timer = 0
    BY DEF Review
  <2>3. DOMAIN Authenticators \subseteq Nat \ {0}
    BY AuthenticatorsAssumption
  <2> HIDE DEF w
  <2>4. \A a \in DOMAIN Authenticators : ~(a < w.asked)
    BY <2>2, <2>3
  <2>5. Place(w) /\ Verdict(w) /\ Timers(w)
    BY <2>2, <2>4, NamesAssumption DEF Place, Verdict, Timers, InFlight, Answers
  <2> QED
    BY <1>1, <2>1, <2>5 DEF Local, Obtained, w
<1>2. CASE ~loaded
  BY <1>2, LocalAnswered DEF Obtained, Answers
<1> QED
  BY <1>1, <1>2

(* A review that waits for the configurator's mutex.                       *)
LEMMA LocalQueued ==
    ASSUME NEW i \in Issuers
    PROVE  Local([[NewReview EXCEPT !.issuer = i] EXCEPT !.step = "mu"])
<1> DEFINE w == [[NewReview EXCEPT !.issuer = i] EXCEPT !.step = "mu"]
<1>1. w \in Review
  <2>1. "mu" \in Steps
    BY DEF Steps
  <2> QED
    BY <2>1, LocalNew, ReviewFields
<1>2. w.step = "mu" /\ w.asked = 0 /\ w.source = 0 /\ w.answer = Nil
      /\ w.accepted = FALSE /\ w.timer = 0 /\ w.err = FALSE
  BY DEF NewReview
<1> HIDE DEF w
<1>3. Place(w) /\ Verdict(w) /\ Timers(w)
  BY <1>2, NamesAssumption DEF Place, Verdict, Timers, InFlight, Answers
<1> QED
  BY <1>1, <1>3 DEF Local, w

(* Half a second passes for a review that waits.                           *)
LEMMA LocalTick ==
    ASSUME NEW v, Local(v), NEW t \in Nat,
           v.step \in {"request", "fetch"} => ~TimedOut(v) /\ t = v.timer + 1,
           v.step \in {"mu", "wait"} => t = 1
    PROVE  Local([v EXCEPT !.timer = t])
<1> DEFINE w == [v EXCEPT !.timer = t]
<1>1. v \in Review /\ v.timer \in Nat
  BY DEF Local, Review
<1>2. w \in Review
  BY <1>1, ReviewFields
<1>3. /\ w.step = v.step /\ w.asked = v.asked /\ w.source = v.source /\ w.err = v.err
      /\ w.answer = v.answer /\ w.accepted = v.accepted /\ w.token = v.token
      /\ w.timer = t /\ w.issuer = v.issuer
  BY <1>1 DEF Review
<1> HIDE DEF w
<1>4. Place(w) /\ Verdict(w)
  BY <1>3 DEF Local, Place, Verdict, InFlight
<1>5. Timers(w)
  BY <1>1, <1>3 DEF Local, Timers, TimedOut, externalSourceRequestTimeout, tokenEndpointRequestTimeout
<1> QED
  BY <1>2, <1>4, <1>5 DEF Local, w

-----------------------------------------------------------------------------
(* Go's sync.Mutex by itself.                                              *)

Elements(q) == {q[k] : k \in DOMAIN q}

Distinct(q) == \A j, k \in DOMAIN q : q[j] = q[k] => j = k

Line(mx) == Elements(mx.queue)

(* Nobody queues twice, nobody queues for what it holds, and a mutex that  *)
(* is handed over has somebody to hand it over to.                         *)
Sound(mx) ==
    /\ mx \in Mutex
    /\ Distinct(mx.queue)
    /\ mx.holder \notin Line(mx)
    /\ mx.starving => mx.holder # Nil /\ mx.queue # <<>>

(* The elements of a queue at whose end p is added.                        *)
LEMMA AppendFacts ==
    ASSUME NEW q \in Seq(Processes), NEW p \in Processes, Distinct(q), p \notin Elements(q)
    PROVE  /\ Append(q, p) \in Seq(Processes) /\ Append(q, p) # <<>>
           /\ Elements(Append(q, p)) = Elements(q) \cup {p}
           /\ Distinct(Append(q, p))
<1>1. /\ Append(q, p) \in Seq(Processes) /\ Append(q, p) # <<>>
      /\ DOMAIN q = 1..Len(q) /\ DOMAIN Append(q, p) = 1..Len(q) + 1 /\ Len(q) \in Nat
      /\ \A k \in 1..Len(q) : Append(q, p)[k] = q[k]
      /\ Append(q, p)[Len(q) + 1] = p
  OBVIOUS
<1>2. Elements(Append(q, p)) = Elements(q) \cup {p}
  BY <1>1 DEF Elements
<1>3. \A k \in 1..Len(q) : q[k] # p
  BY <1>1 DEF Elements
<1> QED
  BY <1>1, <1>2, <1>3 DEF Distinct

(* The elements of a queue without its head.                               *)
LEMMA TailFacts ==
    ASSUME NEW q \in Seq(Processes), q # <<>>, Distinct(q)
    PROVE  /\ Head(q) \in Processes /\ Head(q) \in Elements(q)
           /\ Tail(q) \in Seq(Processes)
           /\ Len(q) > 1 => Tail(q) # <<>>
           /\ Elements(Tail(q)) = Elements(q) \ {Head(q)}
           /\ Distinct(Tail(q))
<1>1. /\ Len(q) \in Nat \ {0} /\ DOMAIN q = 1..Len(q) /\ Head(q) = q[1]
      /\ Head(q) \in Processes
      /\ Tail(q) \in Seq(Processes) /\ Len(Tail(q)) = Len(q) - 1
      /\ DOMAIN Tail(q) = 1..Len(q) - 1
      /\ \A k \in 1..Len(q) - 1 : Tail(q)[k] = q[k + 1]
  OBVIOUS
<1>2. Elements(Tail(q)) \subseteq Elements(q) \ {Head(q)}
  <2> SUFFICES ASSUME NEW k \in 1..Len(q) - 1
               PROVE  q[k + 1] \in Elements(q) /\ q[k + 1] # q[1]
    BY <1>1 DEF Elements
  <2>1. k + 1 \in DOMAIN q /\ 1 \in DOMAIN q /\ k + 1 # 1
    BY <1>1
  <2> QED
    BY <2>1 DEF Elements, Distinct
<1>3. Elements(q) \ {Head(q)} \subseteq Elements(Tail(q))
  <2> SUFFICES ASSUME NEW k \in 1..Len(q), q[k] # q[1]
               PROVE  q[k] \in Elements(Tail(q))
    BY <1>1 DEF Elements
  <2>1. k - 1 \in DOMAIN Tail(q) /\ Tail(q)[k - 1] = q[k]
    BY <1>1
  <2> QED
    BY <2>1 DEF Elements
<1>4. Distinct(Tail(q))
  <2> SUFFICES ASSUME NEW j \in 1..Len(q) - 1, NEW k \in 1..Len(q) - 1, q[j + 1] = q[k + 1]
               PROVE  j = k
    BY <1>1 DEF Distinct
  <2>1. j + 1 \in DOMAIN q /\ k + 1 \in DOMAIN q
    BY <1>1
  <2>2. j + 1 = k + 1
    BY <2>1 DEF Distinct
  <2> QED
    BY <2>2
<1>5. Head(q) \in Elements(q)
  BY <1>1 DEF Elements
<1>6. Len(q) > 1 => Tail(q) # <<>>
  BY <1>1
<1> QED
  BY <1>1, <1>2, <1>3, <1>4, <1>5, <1>6

LEMMA MutexFields ==
    ASSUME NEW mx \in Mutex
    PROVE  /\ mx.holder \in Processes \cup {Nil} /\ mx.queue \in Seq(Processes)
           /\ mx.starving \in BOOLEAN /\ Elements(mx.queue) \subseteq Processes
           /\ \A x \in Processes \cup {Nil} : [mx EXCEPT !.holder = x] \in Mutex
           /\ \A x \in Seq(Processes) : [mx EXCEPT !.queue = x] \in Mutex
           /\ \A x \in Processes \cup {Nil}, y \in BOOLEAN :
                [mx EXCEPT !.holder = x, !.starving = y] \in Mutex
           /\ \A x \in Processes \cup {Nil}, y \in Seq(Processes) :
                [mx EXCEPT !.holder = x, !.queue = y] \in Mutex
<1>1. mx.holder \in Processes \cup {Nil} /\ mx.queue \in Seq(Processes) /\ mx.starving \in BOOLEAN
  BY DEF Mutex
<1>2. Elements(mx.queue) \subseteq Processes
  BY <1>1 DEF Elements
<1> QED
  BY <1>1, <1>2 DEF Mutex

(* A free mutex is locked by somebody who does not queue for it.           *)
LEMMA LockSound ==
    ASSUME NEW m \in Mutexes, Sound(mutex[m]), Free(m), NEW p \in Processes,
           p \notin Line(mutex[m])
    PROVE  /\ Sound(Lock(m, p)) /\ Lock(m, p).holder = p
           /\ Lock(m, p).queue = mutex[m].queue
           /\ Lock(m, p).starving = (mutex[m].queue # <<>> /\ Waiting(Head(mutex[m].queue)))
           /\ Line(Lock(m, p)) = Line(mutex[m])
<1> DEFINE mx == mutex[m]
           b == mx.queue # <<>> /\ Waiting(Head(mx.queue))
           new == Lock(m, p)
<1>1. mx \in Mutex /\ mx.holder = Nil /\ Sound(mx) /\ p \notin Line(mx)
  BY DEF Sound, Free
<1>2. b \in BOOLEAN /\ (b => mx.queue # <<>>)
  OBVIOUS
<1>3. new = [mx EXCEPT !.holder = p, !.starving = b]
  BY DEF Lock
<1> HIDE DEF mx, b, new
<1>4. new.holder = p /\ new.queue = mx.queue /\ new.starving = b
  BY <1>1, <1>3 DEF Mutex
<1>5. new \in Mutex
  BY <1>1, <1>2, <1>3, MutexFields
<1>6. Sound(new) /\ Line(new) = Line(mx)
  BY <1>1, <1>2, <1>4, <1>5, NamesAssumption DEF Sound, Line, Processes
<1> QED
  BY <1>4, <1>6 DEF mx, b, new

(* Somebody who neither holds the mutex nor queues for it queues.          *)
LEMMA EnqueueSound ==
    ASSUME NEW mx, Sound(mx), NEW p \in Processes, p \notin Line(mx), p # mx.holder,
           NEW new, new = [mx EXCEPT !.queue = Append(mx.queue, p)]
    PROVE  Sound(new) /\ new.holder = mx.holder /\ new.queue = Append(mx.queue, p)
           /\ new.starving = mx.starving /\ Line(new) = Line(mx) \cup {p}
<1>1. mx \in Mutex /\ mx.queue \in Seq(Processes)
  BY MutexFields DEF Sound
<1>2. new.holder = mx.holder /\ new.queue = Append(mx.queue, p) /\ new.starving = mx.starving
  BY <1>1 DEF Mutex
<1>3. /\ Append(mx.queue, p) \in Seq(Processes) /\ Append(mx.queue, p) # <<>>
      /\ Elements(Append(mx.queue, p)) = Elements(mx.queue) \cup {p}
      /\ Distinct(Append(mx.queue, p))
  BY <1>1, AppendFacts DEF Sound, Line
<1>4. new \in Mutex
  BY <1>1, <1>3, MutexFields
<1> QED
  BY <1>2, <1>3, <1>4 DEF Sound, Line

(* The mutex is released, to the head of the queue or to nobody.           *)
LEMMA UnlockSound ==
    ASSUME NEW mx, Sound(mx)
    PROVE  /\ Sound(Unlock(mx))
           /\ Unlock(mx).holder \in Line(mx) \cup {Nil}
           /\ Line(Unlock(mx)) = Line(mx) \ {Unlock(mx).holder}
<1> DEFINE new == Unlock(mx)
           q == mx.queue
<1>1. mx \in Mutex /\ q \in Seq(Processes) /\ Line(mx) \subseteq Processes
  BY MutexFields DEF Sound, Line
<1>2. CASE mx.starving
  <2>1. q # <<>> /\ Distinct(q)
    BY <1>2 DEF Sound
  <2>2. new = [holder |-> Head(q), queue |-> Tail(q), starving |-> Len(q) > 1]
    BY <1>2 DEF Unlock
  <2>3. new.holder = Head(q) /\ new.queue = Tail(q) /\ new.starving = (Len(q) > 1)
    BY <2>2
  <2>4. /\ Head(q) \in Processes /\ Head(q) \in Elements(q)
        /\ Tail(q) \in Seq(Processes)
        /\ Len(q) > 1 => Tail(q) # <<>>
        /\ Elements(Tail(q)) = Elements(q) \ {Head(q)}
        /\ Distinct(Tail(q))
    BY <1>1, <2>1, TailFacts
  <2>5. new \in Mutex
    BY <2>2, <2>4 DEF Mutex
  <2>6. new.holder # Nil
    BY <2>3, <2>4, NamesAssumption DEF Processes
  <2> QED
    BY <2>3, <2>4, <2>5, <2>6 DEF Sound, Line
<1>3. CASE ~mx.starving
  <2>1. new = [mx EXCEPT !.holder = Nil]
    BY <1>3 DEF Unlock
  <2>2. new.holder = Nil /\ new.queue = q /\ new.starving = mx.starving
    BY <1>1, <2>1 DEF Mutex
  <2>3. new \in Mutex
    BY <1>1, <2>1, MutexFields
  <2>4. Nil \notin Line(mx)
    BY <1>1, NamesAssumption DEF Processes
  <2> QED
    BY <1>3, <2>2, <2>3, <2>4 DEF Sound, Line
<1> QED
  BY <1>2, <1>3

(* The head of the queue of a free mutex takes it.                         *)
LEMMA PopSound ==
    ASSUME NEW mx, Sound(mx), mx.holder = Nil, mx.queue # <<>>,
           NEW new, new = [mx EXCEPT !.holder = Head(mx.queue), !.queue = Tail(mx.queue)]
    PROVE  /\ Sound(new) /\ new.holder = Head(mx.queue) /\ new.queue = Tail(mx.queue)
           /\ ~new.starving /\ Line(new) = Line(mx) \ {Head(mx.queue)}
<1>1. mx \in Mutex /\ mx.queue \in Seq(Processes) /\ ~mx.starving /\ Distinct(mx.queue)
  BY MutexFields DEF Sound
<1>2. new.holder = Head(mx.queue) /\ new.queue = Tail(mx.queue) /\ new.starving = mx.starving
  BY <1>1 DEF Mutex
<1>3. /\ Head(mx.queue) \in Processes
      /\ Tail(mx.queue) \in Seq(Processes)
      /\ Elements(Tail(mx.queue)) = Elements(mx.queue) \ {Head(mx.queue)}
      /\ Distinct(Tail(mx.queue))
  BY <1>1, TailFacts
<1>4. new \in Mutex
  BY <1>1, <1>3, MutexFields
<1> QED
  BY <1>1, <1>2, <1>3, <1>4 DEF Sound, Line

(* Somebody who waited has the mutex, or takes it.                         *)
LEMMA WokeSound ==
    ASSUME NEW m \in Mutexes, NEW p \in Processes, Sound(mutex[m]), Woken(m, p)
    PROVE  /\ Sound(Woke(m, p)) /\ Woke(m, p).holder = p
           /\ Line(Woke(m, p)) = Line(mutex[m]) \ {p}
<1>1. CASE mutex[m].holder = p
  BY <1>1 DEF Woke, Sound
<1>2. CASE mutex[m].holder # p
  <2>1. mutex[m].holder = Nil /\ mutex[m].queue # <<>> /\ Head(mutex[m].queue) = p
    BY <1>2 DEF Woken, Free
  <2>2. Woke(m, p) = [mutex[m] EXCEPT !.holder = Head(mutex[m].queue), !.queue = Tail(mutex[m].queue)]
    BY <1>2, <2>1 DEF Woke
  <2> QED
    BY <2>1, <2>2, PopSound
<1> QED
  BY <1>1, <1>2

-----------------------------------------------------------------------------
(* A mutex and those that engage with it.                                  *)

(* A review v is in the queue of m, or was handed m; v holds m and fetches *)
(* a token.                                                                *)
Seeks(m, v) ==
    IF m = mu THEN v.step = "mu" ELSE v.step = "wait" /\ <<v.asked, v.source>> = m

Fetches(m, v) == m # mu /\ v.step = "fetch" /\ <<v.asked, v.source>> = m

(* Who queues for m waits for it; who holds it waits or is in its critical *)
(* section; nobody else waits, and nobody else is in it.                   *)
QueueAt(m) ==
    /\ Sound(mutex[m])
    /\ \A p \in Processes :
         /\ p \in Line(mutex[m]) => WaitsFor(m, p)
         /\ p = mutex[m].holder => WaitsFor(m, p) \/ InSection(m, p)
         /\ WaitsFor(m, p) => p \in Line(mutex[m]) \cup {mutex[m].holder}
         /\ InSection(m, p) => p = mutex[m].holder

QueueInv == \A m \in Mutexes : QueueAt(m)

LEMMA MuIsNoTokenSource == mu \notin TokenSources
<1>1. 0 \notin DOMAIN Authenticators
  BY AuthenticatorsAssumption
<1> QED
  BY <1>1 DEF mu, TokenSources

LEMMA ReviewEngages ==
    ASSUME NEW r \in Reviews, NEW m
    PROVE  /\ WaitsFor(m, r) <=> Seeks(m, review[r])
           /\ InSection(m, r) <=> Fetches(m, review[r])
  BY NamesAssumption DEF WaitsFor, InSection, Seeks, Fetches, Source

LEMMA ReviewEngagesNext ==
    ASSUME NEW r \in Reviews, NEW m
    PROVE  /\ WaitsFor(m, r)' <=> Seeks(m, review'[r])
           /\ InSection(m, r)' <=> Fetches(m, review'[r])
  BY NamesAssumption DEF WaitsFor, InSection, Seeks, Fetches, Source

(* A mutex that becomes mx when process p moves: nobody but p joins the    *)
(* line or leaves the line and the mutex, and nobody loses the mutex.      *)
Passes(m, mx, p) ==
    /\ Sound(mx)
    /\ \A q \in Processes \ {p} :
         /\ q \in Line(mx) => q \in Line(mutex[m])
         /\ q = mx.holder => q \in Line(mutex[m]) \cup {mutex[m].holder}
         /\ q \in Line(mutex[m]) \cup {mutex[m].holder} => q \in Line(mx) \cup {mx.holder}
         /\ q = mutex[m].holder => q = mx.holder

(* What p does at m fits the mutex.                                        *)
Fits(mx, p, seeks, fetches) ==
    /\ p \in Line(mx) => seeks
    /\ p = mx.holder => seeks \/ fetches
    /\ seeks => p \in Line(mx) \cup {mx.holder}
    /\ fetches => p = mx.holder

LEMMA OneMoves ==
    ASSUME QueueInv, mutex \in [Mutexes -> Mutex],
           NEW p \in Processes, NEW m \in Mutexes, NEW mx,
           mutex' = [mutex EXCEPT ![m] = mx], Passes(m, mx, p),
           Fits(mx, p, WaitsFor(m, p)', InSection(m, p)'),
           \A n \in Mutexes \ {m} :
             /\ WaitsFor(n, p)' <=> WaitsFor(n, p)
             /\ InSection(n, p)' <=> InSection(n, p),
           \A n \in Mutexes, q \in Processes \ {p} :
             /\ WaitsFor(n, q)' <=> WaitsFor(n, q)
             /\ InSection(n, q)' <=> InSection(n, q)
    PROVE  QueueInv'
<1>1. mutex'[m] = mx /\ \A n \in Mutexes \ {m} : mutex'[n] = mutex[n]
  OBVIOUS
<1>2. \A n \in Mutexes \ {m} : QueueAt(n)'
  BY <1>1 DEF QueueInv, QueueAt
<1>3. QueueAt(m)'
  <2>1. QueueAt(m)
    BY DEF QueueInv
  <2>2. Sound(mx)
    BY DEF Passes
  <2> SUFFICES ASSUME NEW q \in Processes
               PROVE  Fits(mx, q, WaitsFor(m, q)', InSection(m, q)')
    BY <1>1, <2>2 DEF QueueAt, Fits
  <2>3. CASE q # p
    BY <2>1, <2>3 DEF QueueAt, Passes, Fits
  <2> QED
    BY <2>3
<1> QED
  BY <1>2, <1>3 DEF QueueInv

(* A review that engages with m at most.                                   *)
OnlyAt(m, v) == \A n \in Mutexes \ {m} : ~Seeks(n, v) /\ ~Fetches(n, v)

Unengaged(v) == \A n \in Mutexes : ~Seeks(n, v) /\ ~Fetches(n, v)

LEMMA ReviewMoves ==
    ASSUME QueueInv, mutex \in [Mutexes -> Mutex], review \in [Reviews -> Review], loader' = loader,
           NEW r \in Reviews, NEW v, review' = [review EXCEPT ![r] = v],
           NEW m \in Mutexes, NEW mx,
           mutex' = [mutex EXCEPT ![m] = mx], Passes(m, mx, r),
           Fits(mx, r, Seeks(m, v), Fetches(m, v)),
           OnlyAt(m, review[r]), OnlyAt(m, v)
    PROVE  QueueInv'
<1>1. review'[r] = v /\ \A q \in Reviews \ {r} : review'[q] = review[q]
  OBVIOUS
<1>2. \A n \in Mutexes, q \in Processes \ {r} :
        /\ WaitsFor(n, q)' <=> WaitsFor(n, q)
        /\ InSection(n, q)' <=> InSection(n, q)
  <2> SUFFICES ASSUME NEW n \in Mutexes, NEW q \in Processes \ {r}
               PROVE  /\ WaitsFor(n, q)' <=> WaitsFor(n, q)
                      /\ InSection(n, q)' <=> InSection(n, q)
    OBVIOUS
  <2>1. CASE q = Configurator
    BY <2>1 DEF WaitsFor, InSection
  <2>2. CASE q # Configurator
    <3>1. q \in Reviews \ {r}
      BY <2>2 DEF Processes
    <3> QED
      BY <3>1, <1>1, ReviewEngages, ReviewEngagesNext
  <2> QED
    BY <2>1, <2>2
<1>3. \A n \in Mutexes \ {m} :
        /\ WaitsFor(n, r)' <=> WaitsFor(n, r)
        /\ InSection(n, r)' <=> InSection(n, r)
  BY <1>1, ReviewEngages, ReviewEngagesNext DEF OnlyAt
<1>4. Fits(mx, r, WaitsFor(m, r)', InSection(m, r)')
  BY <1>1, ReviewEngagesNext DEF Fits
<1>5. r \in Processes
  BY DEF Processes
<1> QED
  BY <1>2, <1>3, <1>4, <1>5, OneMoves

(* A review that engages with no mutex, before or after.                   *)
LEMMA ReviewWanders ==
    ASSUME QueueInv, mutex \in [Mutexes -> Mutex], review \in [Reviews -> Review], loader' = loader,
           NEW r \in Reviews, NEW v, review' = [review EXCEPT ![r] = v],
           mutex' = mutex, Unengaged(review[r]), Unengaged(v)
    PROVE  QueueInv'
<1>1. mu \in Mutexes /\ r \in Processes
  BY DEF Mutexes, Processes
<1>2. mutex' = [mutex EXCEPT ![mu] = mutex[mu]]
  BY <1>1
<1>3. QueueAt(mu)
  BY <1>1 DEF QueueInv
<1>4. ~WaitsFor(mu, r) /\ ~InSection(mu, r)
  BY <1>1, ReviewEngages DEF Unengaged
<1>5. Passes(mu, mutex[mu], r)
  BY <1>3 DEF Passes, QueueAt
<1>6. Fits(mutex[mu], r, Seeks(mu, v), Fetches(mu, v))
  BY <1>1, <1>3, <1>4 DEF Fits, Unengaged, QueueAt
<1>7. OnlyAt(mu, review[r]) /\ OnlyAt(mu, v)
  BY DEF OnlyAt, Unengaged
<1> QED
  BY <1>1, <1>2, <1>5, <1>6, <1>7, ReviewMoves

(* Where a review is tells the mutex that it engages with.                 *)
LEMMA Engagement ==
    ASSUME NEW v
    PROVE  /\ v.step \notin {"mu", "wait", "fetch"} => Unengaged(v)
           /\ v.step = "mu" => OnlyAt(mu, v) /\ Seeks(mu, v) /\ ~Fetches(mu, v)
           /\ v.step \in {"wait", "fetch"} => OnlyAt(<<v.asked, v.source>>, v)
           /\ <<v.asked, v.source>> \in TokenSources =>
                /\ v.step = "wait" <=> Seeks(<<v.asked, v.source>>, v)
                /\ v.step = "fetch" <=> Fetches(<<v.asked, v.source>>, v)
           /\ \A m : Unengaged(v) => OnlyAt(m, v)
  BY MuIsNoTokenSource DEF Unengaged, OnlyAt, Seeks, Fetches, Mutexes

(* The five things that a process does to a mutex.                         *)
LEMMA Joins ==
    ASSUME mutex \in [Mutexes -> Mutex], NEW m \in Mutexes, Sound(mutex[m]),
           NEW p \in Processes, p \notin Line(mutex[m]), p # mutex[m].holder,
           NEW mx, mx = [mutex[m] EXCEPT !.queue = Append(mutex[m].queue, p)]
    PROVE  /\ Enqueue(m, p) = [mutex EXCEPT ![m] = mx]
           /\ Passes(m, mx, p)
           /\ Fits(mx, p, TRUE, FALSE)
<1>1. Enqueue(m, p) = [mutex EXCEPT ![m] = mx]
  BY DEF Enqueue
<1>2. Sound(mx) /\ mx.holder = mutex[m].holder /\ Line(mx) = Line(mutex[m]) \cup {p}
  BY EnqueueSound
<1>3. Passes(m, mx, p) /\ Fits(mx, p, TRUE, FALSE)
  BY <1>2 DEF Passes, Fits
<1> QED
  BY <1>1, <1>3

LEMMA Takes ==
    ASSUME mutex \in [Mutexes -> Mutex], NEW m \in Mutexes, Sound(mutex[m]), Free(m),
           NEW p \in Processes, p \notin Line(mutex[m])
    PROVE  /\ Passes(m, Lock(m, p), p) /\ Lock(m, p).holder = p
           /\ Fits(Lock(m, p), p, FALSE, TRUE)
<1>1. mutex[m].holder = Nil
  BY DEF Free
<1>2. Sound(Lock(m, p)) /\ Lock(m, p).holder = p /\ Line(Lock(m, p)) = Line(mutex[m])
  BY LockSound
<1>3. Nil \notin Processes
  BY NamesAssumption DEF Processes
<1> QED
  BY <1>1, <1>2, <1>3 DEF Passes, Fits

LEMMA Wakes ==
    ASSUME mutex \in [Mutexes -> Mutex], NEW m \in Mutexes, Sound(mutex[m]),
           NEW p \in Processes, Woken(m, p)
    PROVE  /\ Passes(m, Woke(m, p), p) /\ Woke(m, p).holder = p
           /\ Fits(Woke(m, p), p, FALSE, TRUE)
<1>1. /\ Sound(Woke(m, p)) /\ Woke(m, p).holder = p
      /\ Line(Woke(m, p)) = Line(mutex[m]) \ {p}
  BY WokeSound
<1>2. mutex[m].holder \in {p, Nil}
  BY DEF Woken, Free
<1>3. Nil \notin Processes
  BY NamesAssumption DEF Processes
<1> QED
  BY <1>1, <1>2, <1>3 DEF Passes, Fits

LEMMA Holds ==
    ASSUME NEW m \in Mutexes, NEW p \in Processes, Sound(mutex[m]), mutex[m].holder = p
    PROVE  Passes(m, mutex[m], p) /\ Fits(mutex[m], p, FALSE, TRUE)
  BY DEF Passes, Fits, Sound

LEMMA Releases ==
    ASSUME NEW m \in Mutexes, NEW p \in Processes, NEW mx,
           Passes(m, mx, p), mx.holder = p
    PROVE  Passes(m, Unlock(mx), p) /\ Fits(Unlock(mx), p, FALSE, FALSE)
<1>1. Sound(mx) /\ p \notin Line(mx)
  BY DEF Passes, Sound
<1>2. /\ Sound(Unlock(mx)) /\ Unlock(mx).holder \in Line(mx) \cup {Nil}
      /\ Line(Unlock(mx)) = Line(mx) \ {Unlock(mx).holder}
  BY <1>1, UnlockSound
<1>3. Nil \notin Processes
  BY NamesAssumption DEF Processes
<1>4. Fits(Unlock(mx), p, FALSE, FALSE)
  BY <1>1, <1>2, <1>3 DEF Fits
<1>5. ASSUME NEW q \in Processes \ {p}
      PROVE  /\ q \in Line(Unlock(mx)) => q \in Line(mx)
             /\ q = Unlock(mx).holder => q \in Line(mx)
             /\ q \in Line(mx) \cup {mx.holder} => q \in Line(Unlock(mx)) \cup {Unlock(mx).holder}
             /\ q # mx.holder
  BY <1>2, <1>3
<1> QED
  BY <1>2, <1>4, <1>5 DEF Passes

-----------------------------------------------------------------------------
(* The reviews and the configuration goroutine, step by step.              *)

LoaderAt == {"start", "wait", "build", "idle", "fatal"}

Shape ==
    /\ loader \in [at : LoaderAt, timer : Nat]
    /\ loaded \in BOOLEAN
    /\ mutex \in [Mutexes -> Mutex]
    /\ life \in [TokenSources -> Nat]
    /\ review \in [Reviews -> Review]
    /\ waited \in Nat

ReviewInv == Shape /\ LocalInv /\ QueueInv

(* Set writes one review.                                                  *)
LEMMA SetKeeps ==
    ASSUME Shape, LocalInv, NEW r \in Reviews, NEW v, Local(v), Set(r, v)
    PROVE  /\ review' = [review EXCEPT ![r] = v] /\ review' \in [Reviews -> Review]
           /\ LocalInv' /\ waited' \in Nat
<1>1. review' = [review EXCEPT ![r] = v] /\ review \in [Reviews -> Review] /\ v \in Review
  BY DEF Set, Shape, Local
<1>2. review' \in [Reviews -> Review]
  BY <1>1
<1>3. \A q \in Reviews : Local(review'[q])
  BY <1>1 DEF LocalInv
<1>4. LocalInv'
  BY <1>3 DEF LocalInv
<1>5. waited' \in Nat
  BY DEF Set, Shape
<1> QED
  BY <1>1, <1>2, <1>4, <1>5

(* A review that is not engaged with a mutex moves to where it is not.     *)
LEMMA Wanders ==
    ASSUME ReviewInv, NEW r \in Reviews, NEW v, Local(v), Set(r, v),
           review[r].step \notin {"mu", "wait", "fetch"}, v.step \notin {"mu", "wait", "fetch"},
           UNCHANGED <<loader, loaded, mutex, life>>
    PROVE  ReviewInv'
<1>1. /\ review' = [review EXCEPT ![r] = v] /\ review' \in [Reviews -> Review]
      /\ LocalInv' /\ waited' \in Nat
  BY SetKeeps DEF ReviewInv
<1>2. QueueInv'
  BY <1>1, ReviewWanders, Engagement DEF ReviewInv, Shape
<1>3. Shape'
  BY <1>1 DEF ReviewInv, Shape
<1> QED
  BY <1>1, <1>2, <1>3 DEF ReviewInv

(* A review that engages with m at most moves, and leaves it as mx.        *)
LEMMA Moves ==
    ASSUME ReviewInv, NEW r \in Reviews, NEW v, Local(v), Set(r, v),
           NEW m \in Mutexes, NEW mx, mutex' = [mutex EXCEPT ![m] = mx], Passes(m, mx, r),
           Fits(mx, r, Seeks(m, v), Fetches(m, v)),
           OnlyAt(m, review[r]), OnlyAt(m, v),
           UNCHANGED <<loader, loaded>>, life' \in [TokenSources -> Nat]
    PROVE  ReviewInv'
<1>1. /\ review' = [review EXCEPT ![r] = v] /\ review' \in [Reviews -> Review]
      /\ LocalInv' /\ waited' \in Nat
  BY SetKeeps DEF ReviewInv
<1>2. QueueInv'
  BY <1>1, ReviewMoves DEF ReviewInv, Shape
<1>3. mutex' \in [Mutexes -> Mutex]
  <2>1. mx \in Mutex
    BY DEF Passes, Sound
  <2> QED
    BY <2>1 DEF ReviewInv, Shape
<1>4. Shape'
  BY <1>1, <1>3 DEF ReviewInv, Shape
<1> QED
  BY <1>1, <1>2, <1>4 DEF ReviewInv

(* A review that moves with the mutex in hand goes on to leave it to the   *)
(* next or to keep it.                                                     *)
LEMMA MovesOn ==
    ASSUME ReviewInv, NEW r \in Reviews, NEW v, Local(v), Set(r, v),
           NEW m \in Mutexes, NEW mx, Passes(m, mx, r), mx.holder = r,
           mutex' = [mutex EXCEPT ![m] = Unlock(mx)],
           OnlyAt(m, review[r]), Unengaged(v),
           UNCHANGED <<loader, loaded>>, life' \in [TokenSources -> Nat]
    PROVE  ReviewInv'
<1>1. r \in Processes
  BY DEF Processes
<1>2. Passes(m, Unlock(mx), r) /\ Fits(Unlock(mx), r, FALSE, FALSE)
  BY <1>1, Releases
<1>3. ~Seeks(m, v) /\ ~Fetches(m, v) /\ OnlyAt(m, v)
  BY DEF Unengaged, OnlyAt
<1>4. Fits(Unlock(mx), r, Seeks(m, v), Fetches(m, v))
  BY <1>2, <1>3 DEF Fits
<1> QED
  BY <1>2, <1>3, <1>4, Moves

(* The facts on a review that its steps start from.                        *)
LEMMA AtReview ==
    ASSUME ReviewInv, NEW r \in Reviews
    PROVE  /\ Local(review[r]) /\ review[r] \in Review /\ r \in Processes
           /\ review[r].step \in {"wait", "fetch"} => Source(r) \in TokenSources
           /\ \A m \in Mutexes :
                /\ QueueAt(m) /\ Sound(mutex[m])
                /\ Fetches(m, review[r]) => mutex[m].holder = r
                /\ ~Seeks(m, review[r]) /\ ~Fetches(m, review[r]) =>
                     r \notin Line(mutex[m]) /\ r # mutex[m].holder
<1>1. Local(review[r]) /\ review[r] \in Review /\ r \in Processes
  BY DEF ReviewInv, LocalInv, Local, Processes
<1>2. review[r].step \in {"wait", "fetch"} => Source(r) \in TokenSources
  BY <1>1 DEF Local, Place, Source
<1>3. ASSUME NEW m \in Mutexes
      PROVE  /\ QueueAt(m) /\ Sound(mutex[m])
             /\ Fetches(m, review[r]) => mutex[m].holder = r
             /\ ~Seeks(m, review[r]) /\ ~Fetches(m, review[r]) =>
                  r \notin Line(mutex[m]) /\ r # mutex[m].holder
  BY <1>1, ReviewEngages DEF ReviewInv, QueueInv, QueueAt
<1> QED
  BY <1>1, <1>2, <1>3

(* Where a review goes.                                                    *)
LEMMA GoesTo ==
    ASSUME NEW v \in Review
    PROVE  /\ NextHandler(v).step = "union"
           /\ NextSource(v).step = "expand" /\ NextSource(v).source = v.source + 1
           /\ \A l : WithToken(v, l).step = "request"
           /\ \A status : Answered(v, status).step \in {"idle", "closed"}
           /\ Obtained(v).step \in {"union", "idle", "closed"}
<1>1. \A status : Answered(v, status).step \in {"idle", "closed"}
  BY DEF Answered, NewReview
<1>2. Obtained(v).step \in {"union", "idle", "closed"}
  BY <1>1 DEF Obtained, Review
<1>3. NextHandler(v).step = "union"
  BY DEF NextHandler, Review
<1>4. NextSource(v).step = "expand" /\ NextSource(v).source = v.source + 1
  BY DEF NextSource, Review
<1>5. \A l : WithToken(v, l).step = "request"
  BY DEF WithToken, Review
<1> QED
  BY <1>1, <1>2, <1>3, <1>4, <1>5

LEMMA RefuseKeeps ==
    ASSUME ReviewInv, NEW r \in Reviews, Refuse(r)
    PROVE  ReviewInv'
<1> DEFINE v == Answered(NewReview, "refused")
<1>1. Local(v)
  <2>1. NewReview \in Review /\ NewReview.accepted = FALSE /\ "refused" \in Answers
    BY LocalNew DEF NewReview, Answers
  <2> QED
    BY <2>1, LocalAnswered
<1>2. v.step \in {"idle", "closed"}
  BY LocalNew, GoesTo
<1>3. review[r].step = "idle" /\ Set(r, v) /\ UNCHANGED <<loader, loaded, mutex, life>>
  BY DEF Refuse
<1> HIDE DEF v
<1> QED
  BY <1>1, <1>2, <1>3, Wanders

LEMMA ServeHTTPKeeps ==
    ASSUME ReviewInv, NEW r \in Reviews, ServeHTTP(r)
    PROVE  ReviewInv'
<1>1. review[r].step = "idle" /\ UNCHANGED <<loader, loaded, life>>
  BY DEF ServeHTTP
<1>2. PICK i \in Issuers :
        LET v == [NewReview EXCEPT !.issuer = i]
        IN IF Free(mu)
           THEN Set(r, Obtained(v)) /\ UNCHANGED mutex
           ELSE Set(r, [v EXCEPT !.step = "mu"]) /\ mutex' = Enqueue(mu, r)
  BY DEF ServeHTTP
<1> DEFINE v == [NewReview EXCEPT !.issuer = i]
<1>3. CASE Free(mu)
  <2>1. v \in Review
    BY LocalNew DEF Local
  <2>2. v.accepted = FALSE /\ v.err = FALSE /\ v.answer = Nil /\ v.source = 0
    BY DEF NewReview
  <2>3. Set(r, Obtained(v)) /\ UNCHANGED mutex
    BY <1>2, <1>3
  <2> HIDE DEF v
  <2>4. Local(Obtained(v))
    BY <2>1, <2>2, LocalObtained
  <2>5. Obtained(v).step \notin {"mu", "wait", "fetch"}
    BY <2>1, GoesTo
  <2> QED
    BY <1>1, <2>3, <2>4, <2>5, Wanders
<1>4. CASE ~Free(mu)
  <2> DEFINE w == [v EXCEPT !.step = "mu"]
             mx == [mutex[mu] EXCEPT !.queue = Append(mutex[mu].queue, r)]
  <2>1. Local(w)
    BY LocalQueued
  <2>2. w.step = "mu"
    BY DEF NewReview
  <2>3. Set(r, w) /\ mutex' = Enqueue(mu, r)
    BY <1>2, <1>4
  <2>4. mu \in Mutexes
    BY DEF Mutexes
  <2>5. Unengaged(review[r]) /\ OnlyAt(mu, review[r])
    BY <1>1, Engagement
  <2>6. Sound(mutex[mu]) /\ r \in Processes /\ r \notin Line(mutex[mu]) /\ r # mutex[mu].holder
    BY <2>4, <2>5, AtReview DEF Unengaged
  <2>7. mutex \in [Mutexes -> Mutex] /\ life' \in [TokenSources -> Nat]
    BY <1>1 DEF ReviewInv, Shape
  <2>8. /\ Enqueue(mu, r) = [mutex EXCEPT ![mu] = mx]
        /\ Passes(mu, mx, r) /\ Fits(mx, r, TRUE, FALSE)
    BY <2>4, <2>6, <2>7, Joins
  <2> HIDE DEF w, mx
  <2>9. OnlyAt(mu, w) /\ Fits(mx, r, Seeks(mu, w), Fetches(mu, w))
    BY <2>2, <2>8, Engagement DEF Fits
  <2> QED
    BY <1>1, <2>1, <2>3, <2>4, <2>5, <2>7, <2>8, <2>9, Moves
<1> QED
  BY <1>3, <1>4

LEMMA TokenAuthenticatorKeeps ==
    ASSUME ReviewInv, NEW r \in Reviews, TokenAuthenticator(r)
    PROVE  ReviewInv'
<1> DEFINE v == review[r]
           mx == Woke(mu, r)
<1>1. /\ v.step = "mu" /\ Woken(mu, r) /\ Set(r, Obtained(v))
      /\ mutex' = [mutex EXCEPT ![mu] = Unlock(mx)]
      /\ UNCHANGED <<loader, loaded, life>>
  BY DEF TokenAuthenticator
<1>2. mu \in Mutexes /\ Local(v) /\ v \in Review /\ r \in Processes /\ Sound(mutex[mu])
  BY AtReview DEF Mutexes
<1>3. mutex \in [Mutexes -> Mutex] /\ life' \in [TokenSources -> Nat]
  BY <1>1 DEF ReviewInv, Shape
<1>4. Passes(mu, mx, r) /\ mx.holder = r
  BY <1>1, <1>2, <1>3, Wakes
<1>5. OnlyAt(mu, v)
  BY <1>1, Engagement
<1>6. v.accepted = FALSE /\ v.err = FALSE /\ v.answer = Nil /\ v.source = 0
  BY <1>1, <1>2 DEF Local, Verdict, Place, InFlight, Review
<1> HIDE DEF v, mx
<1>7. Local(Obtained(v)) /\ Unengaged(Obtained(v))
  BY <1>2, <1>6, LocalObtained, GoesTo, Engagement
<1>8. OnlyAt(mu, review[r])
  BY <1>5 DEF v
<1> QED
  BY <1>1, <1>2, <1>3, <1>4, <1>7, <1>8, MovesOn

LEMMA UnionKeeps ==
    ASSUME ReviewInv, NEW r \in Reviews, Union(r)
    PROVE  ReviewInv'
<1> DEFINE v == review[r]
           rest == {a \in DOMAIN Authenticators :
                      a >= v.asked /\ Authenticators[a].issuer = v.issuer}
           status == IF v.err THEN "error" ELSE "unauthenticated"
<1>1. /\ v.step = "union" /\ UNCHANGED <<loader, loaded, mutex, life>>
      /\ \/ rest = {} /\ Set(r, Answered(v, status))
         \/ \E a \in rest :
              \/ Set(r, NextHandler([v EXCEPT !.asked = a, !.err = TRUE]))
              \/ Set(r, [v EXCEPT !.step = "expand", !.asked = a, !.source = 1])
  BY DEF Union
<1>2. Local(v) /\ v \in Review
  BY AtReview
<1>3. v.accepted = FALSE /\ v.answer = Nil /\ v.asked \in Nat
  BY <1>1, <1>2 DEF Local, Verdict, InFlight, Review
<1>4. DOMAIN Authenticators \subseteq Nat
  BY AuthenticatorsAssumption
<1>5. CASE rest = {} /\ Set(r, Answered(v, status))
  <2>1. ~v.err => \A a \in DOMAIN Authenticators : Authenticators[a].issuer # v.issuer
    <3>1. ~v.err =>
            \A a \in DOMAIN Authenticators : a < v.asked => Authenticators[a].issuer # v.issuer
      BY <1>1, <1>2 DEF Local, Verdict
    <3>2. \A a \in DOMAIN Authenticators : a >= v.asked => Authenticators[a].issuer # v.issuer
      BY <1>5
    <3>3. \A a \in DOMAIN Authenticators : a < v.asked \/ a >= v.asked
      BY <1>3, <1>4
    <3> HIDE DEF v
    <3> QED
      BY <3>1, <3>2, <3>3
  <2>2. status \in Answers /\ status # "authenticated" /\ (status = "unauthenticated" => ~v.err)
    BY DEF Answers
  <2> HIDE DEF status, v
  <2>3. Local(Answered(v, status)) /\ Answered(v, status).step \in {"idle", "closed"}
    <3>1. status = "authenticated" <=> v.accepted
      BY <1>3, <2>2
    <3>2. status = "unauthenticated" =>
            \A a \in DOMAIN Authenticators : Authenticators[a].issuer # v.issuer
      BY <2>1, <2>2
    <3> QED
      BY <1>2, <2>2, <3>1, <3>2, LocalAnswered, GoesTo
  <2>4. review[r].step \notin {"mu", "wait", "fetch"}
    BY <1>1 DEF v
  <2> QED
    BY <1>1, <1>5, <2>3, <2>4, Wanders
<1>6. ASSUME NEW a \in rest, Set(r, NextHandler([v EXCEPT !.asked = a, !.err = TRUE]))
      PROVE  ReviewInv'
  <2> DEFINE w == [v EXCEPT !.asked = a, !.err = TRUE]
  <2>1. w \in Review
    <3>1. a \in Nat /\ TRUE \in BOOLEAN
      BY <1>4
    <3> QED
      BY <1>2, <3>1, ReviewFields
  <2>2. w.err = TRUE /\ w.answer = Nil /\ w.accepted = FALSE
    BY <1>2, <1>3 DEF Review
  <2> HIDE DEF w
  <2>3. Local(NextHandler(w)) /\ NextHandler(w).step = "union"
    BY <2>1, <2>2, LocalNextHandler, GoesTo
  <2>4. review[r].step \notin {"mu", "wait", "fetch"} /\ Set(r, NextHandler(w))
    BY <1>1, <1>6 DEF w
  <2> QED
    BY <1>1, <2>3, <2>4, Wanders
<1>7. ASSUME NEW a \in rest, Set(r, [v EXCEPT !.step = "expand", !.asked = a, !.source = 1])
      PROVE  ReviewInv'
  <2> DEFINE w == [v EXCEPT !.step = "expand", !.asked = a, !.source = 1]
  <2>1. Local(w) /\ w.step = "expand"
    <3>1. a \in DOMAIN Authenticators
      OBVIOUS
    <3>2. w.step = "expand"
      BY <1>2 DEF Review
    <3> QED
      BY <1>1, <1>2, <3>1, <3>2, LocalAsks
  <2>2. review[r].step \notin {"mu", "wait", "fetch"} /\ Set(r, w)
    BY <1>1, <1>7
  <2> HIDE DEF w
  <2> QED
    BY <1>1, <2>1, <2>2, Wanders
<1> QED
  BY <1>1, <1>5, <1>6, <1>7

LEMMA NotWantedKeeps ==
    ASSUME ReviewInv, NEW r \in Reviews, NotWanted(r) \/ Do(r)
    PROVE  ReviewInv'
<1>1. /\ review[r].step \in {"expand", "request"} /\ Set(r, NextSource(review[r]))
      /\ UNCHANGED <<loader, loaded, mutex, life>>
  BY DEF NotWanted, Expanding, Do
<1>2. Local(review[r]) /\ review[r] \in Review
  BY AtReview
<1>3. Local(NextSource(review[r])) /\ NextSource(review[r]).step = "expand"
  BY <1>1, <1>2, LocalNextSource, GoesTo DEF Consulting
<1> QED
  BY <1>1, <1>3, Wanders

LEMMA NoFetchKeeps ==
    ASSUME ReviewInv, NEW r \in Reviews, NoFetch(r)
    PROVE  ReviewInv'
<1>1. /\ review[r].step = "expand" /\ Set(r, WithToken(review[r], Nil))
      /\ UNCHANGED <<loader, loaded, mutex, life>>
  BY DEF NoFetch, Expanding
<1>2. Local(review[r]) /\ review[r] \in Review
  BY AtReview
<1>3. Local(WithToken(review[r], Nil)) /\ WithToken(review[r], Nil).step = "request"
  BY <1>1, <1>2, LocalWithToken, GoesTo DEF Consulting
<1> QED
  BY <1>1, <1>3, Wanders

LEMMA DecideKeeps ==
    ASSUME ReviewInv, NEW r \in Reviews, Decide(r)
    PROVE  ReviewInv'
<1> DEFINE v == review[r]
           e == [v EXCEPT !.err = TRUE]
           d == [v EXCEPT !.accepted = TRUE]
<1>1. /\ v.step = "expand" /\ UNCHANGED <<loader, loaded, mutex, life>>
      /\ Set(r, NextHandler(e)) \/ Set(r, Answered(d, "authenticated"))
  BY DEF Decide
<1>2. Local(v) /\ v \in Review
  BY AtReview
<1>3. v.accepted = FALSE /\ v.answer = Nil
  BY <1>1, <1>2 DEF Local, Verdict, InFlight, Review
<1>4. e \in Review /\ d \in Review
  <2>1. TRUE \in BOOLEAN
    OBVIOUS
  <2> QED
    BY <1>2, <2>1, ReviewFields
<1>5. e.err = TRUE /\ e.answer = Nil /\ e.accepted = FALSE /\ d.accepted = TRUE
  BY <1>2, <1>3 DEF Review
<1>6. review[r].step \notin {"mu", "wait", "fetch"}
  BY <1>1
<1> HIDE DEF v, e, d
<1>7. Local(NextHandler(e)) /\ NextHandler(e).step = "union"
  BY <1>4, <1>5, LocalNextHandler, GoesTo
<1>8. Local(Answered(d, "authenticated")) /\ Answered(d, "authenticated").step \in {"idle", "closed"}
  BY <1>4, <1>5, LocalAnswered, GoesTo DEF Answers
<1> QED
  BY <1>1, <1>6, <1>7, <1>8, Wanders

(* The token source hands out the token it caches, or a fetch begins.      *)
LEMMA TokenKeeps ==
    ASSUME ReviewInv, NEW r \in Reviews, review[r].step \in {"expand", "wait"},
           Source(r) \in TokenSources,
           NEW mx, Passes(Source(r), mx, r), mx.holder = r, Fits(mx, r, FALSE, TRUE),
           Token(r, mx), UNCHANGED <<loader, loaded, life>>
    PROVE  ReviewInv'
<1> DEFINE m == Source(r)
           v == review[r]
<1>1. Local(v) /\ v \in Review
  BY AtReview
<1>2. life' \in [TokenSources -> Nat] /\ life[m] \in Nat /\ m \in Mutexes
  BY DEF ReviewInv, Shape, Mutexes
<1>3. OnlyAt(m, v)
  BY Engagement DEF Source
<1>4. m = <<v.asked, v.source>> /\ v.step \in Consulting
  BY DEF Source, Consulting
<1>5. CASE life[m] > expiryDelta
  <2>1. Set(r, WithToken(v, life[m])) /\ mutex' = [mutex EXCEPT ![m] = Unlock(mx)]
    BY <1>5 DEF Token
  <2>2. life[m] > 1 /\ life[m] \in Nat \cup {Nil}
    BY <1>2, <1>5, LifetimesAssumption DEF externalSourceRequestTimeout
  <2>3. Local(WithToken(v, life[m])) /\ WithToken(v, life[m]).step = "request"
    BY <1>1, <1>4, <2>2, LocalWithToken, GoesTo
  <2>4. Unengaged(WithToken(v, life[m]))
    BY <2>3, Engagement
  <2> QED
    BY <1>2, <1>3, <2>1, <2>3, <2>4, MovesOn
<1>6. CASE ~(life[m] > expiryDelta)
  <2> DEFINE w == [v EXCEPT !.step = "fetch", !.timer = 0]
  <2>1. Set(r, w) /\ mutex' = [mutex EXCEPT ![m] = mx]
    BY <1>6 DEF Token
  <2>2. Local(w)
    BY <1>1, <1>4, LocalWait
  <2>3. w.step = "fetch" /\ <<w.asked, w.source>> = m
    BY <1>1, <1>4 DEF Review
  <2> HIDE DEF w
  <2>4. OnlyAt(m, w) /\ ~Seeks(m, w) /\ Fetches(m, w)
    BY <2>3, Engagement
  <2>5. Fits(mx, r, Seeks(m, w), Fetches(m, w))
    BY <2>4 DEF Fits
  <2> QED
    BY <1>2, <1>3, <2>1, <2>2, <2>4, <2>5, Moves
<1> QED
  BY <1>5, <1>6

LEMMA GetAccessTokenKeeps ==
    ASSUME ReviewInv, NEW r \in Reviews, GetAccessToken(r)
    PROVE  ReviewInv'
<1> DEFINE m == Source(r)
           v == review[r]
<1>1. /\ v.step = "expand" /\ UNCHANGED <<loader, loaded, life>>
      /\ v.source \in DOMAIN Authenticators[v.asked].sources
      /\ Authenticators[v.asked].sources[v.source] = "ClientCredential"
  BY DEF GetAccessToken, Expanding, Getter
<1>2. Local(v) /\ v \in Review /\ r \in Processes
  BY AtReview
<1>3. m \in TokenSources /\ m \in Mutexes
  <2>1. v.asked \in DOMAIN Authenticators
    BY <1>1, <1>2 DEF Local, Place
  <2> QED
    BY <1>1, <2>1 DEF Source, TokenSources, Mutexes
<1>4. Unengaged(v)
  BY <1>1, Engagement
<1>5. Sound(mutex[m]) /\ r \notin Line(mutex[m]) /\ r # mutex[m].holder
  BY <1>3, <1>4, AtReview DEF Unengaged
<1>6. mutex \in [Mutexes -> Mutex] /\ life' \in [TokenSources -> Nat]
  BY <1>1 DEF ReviewInv, Shape
<1>7. CASE Free(m)
  <2>1. Token(r, Lock(m, r))
    BY <1>7 DEF GetAccessToken
  <2>2. Passes(m, Lock(m, r), r) /\ Lock(m, r).holder = r /\ Fits(Lock(m, r), r, FALSE, TRUE)
    BY <1>2, <1>3, <1>5, <1>6, <1>7, Takes
  <2> QED
    BY <1>1, <1>3, <2>1, <2>2, TokenKeeps
<1>8. CASE ~Free(m)
  <2> DEFINE w == [v EXCEPT !.step = "wait", !.timer = 0]
             mx == [mutex[m] EXCEPT !.queue = Append(mutex[m].queue, r)]
  <2>1. Set(r, w) /\ mutex' = Enqueue(m, r)
    BY <1>8 DEF GetAccessToken
  <2>2. Local(w)
    BY <1>1, <1>2, <1>3, LocalWait DEF Source, Consulting
  <2>3. w.step = "wait" /\ <<w.asked, w.source>> = m
    BY <1>2 DEF Review, Source
  <2>4. /\ Enqueue(m, r) = [mutex EXCEPT ![m] = mx]
        /\ Passes(m, mx, r) /\ Fits(mx, r, TRUE, FALSE)
    BY <1>2, <1>3, <1>5, <1>6, Joins
  <2> HIDE DEF w, mx
  <2>5. OnlyAt(m, w) /\ Seeks(m, w) /\ ~Fetches(m, w) /\ OnlyAt(m, v)
    BY <1>3, <1>4, <2>3, Engagement
  <2>6. Fits(mx, r, Seeks(m, w), Fetches(m, w))
    BY <2>4, <2>5 DEF Fits
  <2> QED
    BY <1>1, <1>3, <1>6, <2>1, <2>2, <2>4, <2>5, <2>6, Moves
<1> QED
  BY <1>7, <1>8

LEMMA SourceWokenKeeps ==
    ASSUME ReviewInv, NEW r \in Reviews, SourceWoken(r)
    PROVE  ReviewInv'
<1> DEFINE m == Source(r)
<1>1. /\ review[r].step = "wait" /\ Woken(m, r) /\ Token(r, Woke(m, r))
      /\ UNCHANGED <<loader, loaded, life>>
  BY DEF SourceWoken
<1>2. m \in TokenSources /\ m \in Mutexes /\ r \in Processes /\ Sound(mutex[m])
  BY <1>1, AtReview DEF Mutexes
<1>3. mutex \in [Mutexes -> Mutex]
  BY DEF ReviewInv, Shape
<1>4. Passes(m, Woke(m, r), r) /\ Woke(m, r).holder = r /\ Fits(Woke(m, r), r, FALSE, TRUE)
  BY <1>1, <1>2, <1>3, Wakes
<1> QED
  BY <1>1, <1>2, <1>4, TokenKeeps

LEMMA FetchKeeps ==
    ASSUME ReviewInv, NEW r \in Reviews, FetchSucceeds(r) \/ FetchFails(r)
    PROVE  ReviewInv'
<1> DEFINE m == Source(r)
           v == review[r]
<1>1. /\ v.step = "fetch" /\ mutex' = Unlocked(m) /\ UNCHANGED <<loader, loaded>>
      /\ \/ \E l \in Lifetimes : life' = [life EXCEPT ![m] = l] /\ Set(r, WithToken(v, l))
         \/ UNCHANGED life /\ Set(r, NextSource(v))
  BY DEF FetchSucceeds, FetchFails
<1>2. /\ m \in TokenSources /\ m \in Mutexes /\ r \in Processes /\ Sound(mutex[m])
      /\ Local(v) /\ v \in Review
  BY <1>1, AtReview DEF Mutexes
<1>3. mutex \in [Mutexes -> Mutex] /\ life \in [TokenSources -> Nat]
  BY DEF ReviewInv, Shape
<1>4. Fetches(m, v) /\ OnlyAt(m, v)
  BY <1>1, <1>2, Engagement DEF Source
<1>5. mutex[m].holder = r
  BY <1>2, <1>4, AtReview
<1>6. Passes(m, mutex[m], r)
  BY <1>2, <1>5, Holds
<1>7. mutex' = [mutex EXCEPT ![m] = Unlock(mutex[m])]
  BY <1>1 DEF Unlocked
<1>8. CASE UNCHANGED life /\ Set(r, NextSource(v))
  <2>1. Local(NextSource(v)) /\ NextSource(v).step = "expand"
    BY <1>1, <1>2, LocalNextSource, GoesTo DEF Consulting
  <2>2. Unengaged(NextSource(v))
    BY <2>1, Engagement
  <2> QED
    BY <1>1, <1>2, <1>3, <1>4, <1>5, <1>6, <1>7, <1>8, <2>1, <2>2, MovesOn
<1>9. ASSUME NEW l \in Lifetimes, life' = [life EXCEPT ![m] = l], Set(r, WithToken(v, l))
      PROVE  ReviewInv'
  <2>1. l \in Nat /\ l > 1
    BY LifetimesAssumption DEF externalSourceRequestTimeout
  <2>2. Local(WithToken(v, l)) /\ WithToken(v, l).step = "request"
    BY <1>1, <1>2, <2>1, LocalWithToken, GoesTo DEF Consulting
  <2>3. Unengaged(WithToken(v, l))
    BY <2>2, Engagement
  <2>4. life' \in [TokenSources -> Nat]
    BY <1>2, <1>3, <1>9, <2>1
  <2> QED
    BY <1>1, <1>2, <1>4, <1>5, <1>6, <1>7, <1>9, <2>2, <2>3, <2>4, MovesOn
<1> QED
  BY <1>1, <1>8, <1>9

(* The configuration goroutine moves, and leaves its mutex as mx.          *)
LEMMA LoaderMoves ==
    ASSUME ReviewInv, NEW at \in LoaderAt, loader' = [at |-> at, timer |-> 0],
           NEW mx, mutex' = [mutex EXCEPT ![mu] = mx], Passes(mu, mx, Configurator),
           Fits(mx, Configurator, at = "wait", at = "build"),
           UNCHANGED <<review, waited>>, loaded' \in BOOLEAN, life' \in [TokenSources -> Nat]
    PROVE  ReviewInv'
<1>1. Configurator \in Processes /\ mu \in Mutexes /\ loader'.at = at
  BY DEF Processes, Mutexes
<1>2. ASSUME NEW n \in Mutexes, NEW q \in Processes \ {Configurator}
      PROVE  /\ WaitsFor(n, q)' <=> WaitsFor(n, q)
             /\ InSection(n, q)' <=> InSection(n, q)
  <2>1. q \in Reviews
    BY DEF Processes
  <2> QED
    BY <2>1, ReviewEngages, ReviewEngagesNext
<1>3. ASSUME NEW n \in Mutexes \ {mu}
      PROVE  /\ WaitsFor(n, Configurator)' <=> WaitsFor(n, Configurator)
             /\ InSection(n, Configurator)' <=> InSection(n, Configurator)
  BY DEF WaitsFor, InSection
<1>4. Fits(mx, Configurator, WaitsFor(mu, Configurator)', InSection(mu, Configurator)')
  BY <1>1 DEF WaitsFor, InSection, Fits
<1>5. QueueInv'
  BY <1>1, <1>2, <1>3, <1>4, OneMoves DEF ReviewInv, Shape
<1>6. mx \in Mutex
  BY DEF Passes, Sound
<1>7. Shape' /\ LocalInv'
  BY <1>6 DEF ReviewInv, Shape, LocalInv
<1> QED
  BY <1>5, <1>7 DEF ReviewInv

LEMMA AtLoader ==
    ASSUME ReviewInv
    PROVE  /\ Configurator \in Processes /\ mu \in Mutexes /\ Sound(mutex[mu])
           /\ mutex \in [Mutexes -> Mutex] /\ life \in [TokenSources -> Nat]
           /\ loader.at = "build" => mutex[mu].holder = Configurator
           /\ loader.at \notin {"build", "wait"} =>
                Configurator \notin Line(mutex[mu]) /\ Configurator # mutex[mu].holder
<1>1. /\ Configurator \in Processes /\ mu \in Mutexes /\ QueueAt(mu)
      /\ mutex \in [Mutexes -> Mutex] /\ life \in [TokenSources -> Nat]
  BY DEF ReviewInv, QueueInv, Shape, Processes, Mutexes
<1> QED
  BY <1>1 DEF QueueAt, WaitsFor, InSection

LEMMA LoaderKeeps ==
    ASSUME ReviewInv, Loader
    PROVE  ReviewInv'
<1> USE AtLoader
<1>1. /\ loaded \in BOOLEAN /\ UNCHANGED <<review, waited>>
      /\ life' \in [TokenSources -> Nat] /\ loaded' \in BOOLEAN
  BY LifetimesAssumption DEF ReviewInv, Shape, Loader, HandleConfigChange, LoaderWoken, FirstLoad, LoadFails
<1>2. CASE HandleConfigChange
  <2>1. loader.at \in {"start", "idle"}
    BY <1>2 DEF HandleConfigChange
  <2>2. CASE Free(mu)
    <3>1. /\ loader' = [at |-> "build", timer |-> 0]
          /\ mutex' = [mutex EXCEPT ![mu] = Lock(mu, Configurator)]
      BY <1>2, <2>2 DEF HandleConfigChange
    <3>2. /\ Passes(mu, Lock(mu, Configurator), Configurator)
          /\ Fits(Lock(mu, Configurator), Configurator, FALSE, TRUE)
      BY <2>1, <2>2, Takes
    <3> QED
      BY <1>1, <3>1, <3>2, LoaderMoves DEF LoaderAt
  <2>3. CASE ~Free(mu)
    <3> DEFINE mx == [mutex[mu] EXCEPT !.queue = Append(mutex[mu].queue, Configurator)]
    <3>1. loader' = [at |-> "wait", timer |-> 0] /\ mutex' = Enqueue(mu, Configurator)
      BY <1>2, <2>3 DEF HandleConfigChange
    <3>2. /\ Enqueue(mu, Configurator) = [mutex EXCEPT ![mu] = mx]
          /\ Passes(mu, mx, Configurator) /\ Fits(mx, Configurator, TRUE, FALSE)
      BY <2>1, Joins
    <3> HIDE DEF mx
    <3> QED
      BY <1>1, <3>1, <3>2, LoaderMoves DEF LoaderAt
  <2> QED
    BY <2>2, <2>3
<1>3. CASE LoaderWoken
  <2>1. /\ Woken(mu, Configurator) /\ loader' = [at |-> "build", timer |-> 0]
        /\ mutex' = [mutex EXCEPT ![mu] = Woke(mu, Configurator)]
    BY <1>3 DEF LoaderWoken
  <2>2. /\ Passes(mu, Woke(mu, Configurator), Configurator)
        /\ Fits(Woke(mu, Configurator), Configurator, FALSE, TRUE)
    BY <2>1, Wakes
  <2> QED
    BY <1>1, <2>1, <2>2, LoaderMoves DEF LoaderAt
<1>4. CASE FirstLoad \/ LoadFails
  <2>1. PICK at \in {"idle", "fatal"} : loader' = [at |-> at, timer |-> 0]
    BY <1>4 DEF FirstLoad, LoadFails
  <2>2. loader.at = "build" /\ mutex' = [mutex EXCEPT ![mu] = Unlock(mutex[mu])]
    BY <1>4 DEF FirstLoad, LoadFails, Unlocked
  <2>3. mutex[mu].holder = Configurator /\ Passes(mu, mutex[mu], Configurator)
    BY <2>2, Holds
  <2>4. /\ Passes(mu, Unlock(mutex[mu]), Configurator)
        /\ Fits(Unlock(mutex[mu]), Configurator, FALSE, FALSE)
    BY <2>3, Releases
  <2>5. at \in LoaderAt /\ (at = "wait") = FALSE /\ (at = "build") = FALSE
    BY DEF LoaderAt
  <2>6. Fits(Unlock(mutex[mu]), Configurator, at = "wait", at = "build")
    BY <2>4, <2>5 DEF Fits
  <2> QED
    BY <1>1, <2>1, <2>2, <2>4, <2>5, <2>6, LoaderMoves
<1> QED
  BY <1>2, <1>3, <1>4 DEF Loader

(* Time passes: everybody stays where it is.                               *)
LEMMA TickKeeps ==
    ASSUME ReviewInv, Tick
    PROVE  /\ ReviewInv'
           /\ loader'.at = loader.at
           /\ \A r \in Reviews : /\ review'[r].step = review[r].step
                                 /\ review'[r].asked = review[r].asked
                                 /\ review'[r].source = review[r].source
<1>1. /\ loader \in [at : LoaderAt, timer : Nat] /\ review \in [Reviews -> Review]
      /\ life \in [TokenSources -> Nat] /\ waited \in Nat /\ loaded' = loaded /\ mutex' = mutex
  BY DEF ReviewInv, Shape, Tick
<1>2. loader' \in [at : LoaderAt, timer : Nat] /\ loader'.at = loader.at
  <2>1. CASE loader.at = "build"
    <3>1. loader' = [loader EXCEPT !.timer = loader.timer + 1]
      BY <2>1 DEF Tick
    <3> QED
      BY <1>1, <3>1
  <2>2. CASE loader.at = "wait"
    <3>1. loader' = [loader EXCEPT !.timer = 1]
      BY <2>2 DEF Tick
    <3> QED
      BY <1>1, <3>1
  <2>3. CASE loader.at \notin {"build", "wait"}
    BY <1>1, <2>3 DEF Tick
  <2> QED
    BY <2>1, <2>2, <2>3
<1>3. ASSUME NEW r \in Reviews
      PROVE  /\ Local(review'[r])
             /\ review'[r].step = review[r].step
             /\ review'[r].asked = review[r].asked
             /\ review'[r].source = review[r].source
  <2> DEFINE v == review[r]
  <2>1. Local(v) /\ v \in Review /\ v.timer \in Nat
    BY AtReview, ReviewSelect
  <2>2. Waits(r)
    BY DEF Tick
  <2>3. CASE v.step \in {"fetch", "request"}
    <3> DEFINE t == v.timer + 1
    <3>1. review'[r] = [v EXCEPT !.timer = t]
      BY <2>3 DEF Tick
    <3>2. ~TimedOut(v) /\ t \in Nat
      BY <2>1, <2>2, <2>3 DEF Waits
    <3>3. Local([v EXCEPT !.timer = t])
      <4>1. v.step \in {"request", "fetch"} /\ ~TimedOut(v) /\ t = v.timer + 1
        BY <2>3, <3>2
      <4> HIDE DEF t, v
      <4> QED
        BY <2>1, <3>2, <4>1, LocalTick
    <3> QED
      BY <2>1, <3>1, <3>3 DEF Review
  <2>4. CASE v.step \in {"mu", "wait"}
    <3>1. review'[r] = [v EXCEPT !.timer = 1]
      BY <2>4 DEF Tick
    <3>2. Local([v EXCEPT !.timer = 1])
      BY <2>1, <2>4, LocalTick
    <3> QED
      BY <2>1, <3>1, <3>2 DEF Review
  <2>5. CASE v.step \notin {"fetch", "request", "mu", "wait"}
    <3>1. review'[r] = v
      BY <2>5 DEF Tick
    <3> QED
      BY <2>1, <3>1
  <2> QED
    BY <2>3, <2>4, <2>5
<1>4. review' \in [Reviews -> Review] /\ LocalInv'
  <2>1. review' = [r \in Reviews |-> review'[r]]
    BY DEF Tick
  <2>2. \A r \in Reviews : review'[r] \in Review
    BY <1>3 DEF Local
  <2> QED
    BY <1>3, <2>1, <2>2 DEF LocalInv
<1>5. life' \in [TokenSources -> Nat] /\ waited' \in Nat
  <2>1. life' = [t \in TokenSources |-> IF life[t] = 0 THEN 0 ELSE life[t] - 1]
    BY DEF Tick
  <2>2. \A t \in TokenSources : life[t] \in Nat
    BY <1>1
  <2>3. \A n \in Nat : (IF n = 0 THEN 0 ELSE n - 1) \in Nat
    OBVIOUS
  <2>4. life' \in [TokenSources -> Nat]
    BY <2>1, <2>2, <2>3
  <2>5. waited' = waited + 1 \/ waited' = 0
    BY DEF Tick
  <2>6. waited' \in Nat
    BY <1>1, <2>5
  <2> QED
    BY <2>4, <2>6
<1>6. QueueInv'
  <2>1. ASSUME NEW m \in Mutexes, NEW p \in Processes
        PROVE  /\ WaitsFor(m, p)' <=> WaitsFor(m, p)
               /\ InSection(m, p)' <=> InSection(m, p)
    BY <1>2, <1>3 DEF WaitsFor, InSection, Source, Processes
  <2>2. ASSUME NEW m \in Mutexes
        PROVE  QueueAt(m)'
    BY <1>1, <2>1 DEF ReviewInv, QueueInv, QueueAt
  <2> QED
    BY <2>2 DEF QueueInv
<1>7. Shape'
  BY <1>1, <1>2, <1>4, <1>5 DEF ReviewInv, Shape
<1> QED
  BY <1>2, <1>3, <1>4, <1>6, <1>7 DEF ReviewInv

LEMMA ReviewStepKeeps ==
    ASSUME ReviewInv, [Next]_vars
    PROVE  ReviewInv'
<1>1. CASE UNCHANGED others
  BY <1>1 DEF others, ReviewInv, Shape, LocalInv, QueueInv, QueueAt, WaitsFor, InSection, Source
<1>2. CASE Loader
  BY <1>2, LoaderKeeps
<1>3. CASE Tick
  BY <1>3, TickKeeps
<1>4. ASSUME NEW r \in Reviews, Refuse(r) \/ ServeHTTP(r) \/ Proceed(r)
      PROVE  ReviewInv'
  BY <1>4, RefuseKeeps, ServeHTTPKeeps, TokenAuthenticatorKeeps, UnionKeeps, NotWantedKeeps,
     NoFetchKeeps, GetAccessTokenKeeps, SourceWokenKeeps, FetchKeeps, DecideKeeps DEF Proceed
<1>5. Serve \/ ServerEvent => UNCHANGED others
  BY DEF Serve, SelectServerErr, SelectDone, Shutdown, ReceiveServerErr,
         ServerEvent, Listen, ListenerReturns, CancelContext
<1>6. UNCHANGED vars => UNCHANGED others
  BY DEF vars, others
<1> QED
  BY <1>1, <1>2, <1>3, <1>4, <1>5, <1>6 DEF Next, Exited

LEMMA ReviewInit ==
    ASSUME Init
    PROVE  ReviewInv
<1>1. Shape
  <2>1. NewReview \in Review
    BY LocalNew
  <2>2. [holder |-> Nil, queue |-> <<>>, starving |-> FALSE] \in Mutex
    BY DEF Mutex
  <2> QED
    BY <2>1, <2>2 DEF Init, Shape, Mutexes, LoaderAt
<1>2. LocalInv
  BY LocalNew DEF Init, LocalInv
<1>3. QueueInv
  <2> SUFFICES ASSUME NEW m \in Mutexes
               PROVE  QueueAt(m)
    BY DEF QueueInv
  <2>1. mutex[m] \in Mutex /\ mutex[m].holder = Nil /\ mutex[m].queue = <<>> /\ ~mutex[m].starving
    BY <1>1 DEF Init, Shape, Mutexes
  <2>2. Line(mutex[m]) = {} /\ Sound(mutex[m])
    BY <2>1 DEF Line, Elements, Sound, Distinct
  <2>3. ASSUME NEW p \in Processes
        PROVE  ~WaitsFor(m, p) /\ ~InSection(m, p) /\ p # Nil
    BY NamesAssumption DEF Init, NewReview, WaitsFor, InSection, Processes
  <2> QED
    BY <2>1, <2>2, <2>3 DEF QueueAt
<1> QED
  BY <1>1, <1>2, <1>3 DEF ReviewInv

-----------------------------------------------------------------------------
(* Serve: while it can still receive it, the error of a listener that      *)
(* returned is in the channel; and it gets past Shutdown only when no      *)
(* review is in flight, after which none begins.                           *)
ServeInv ==
    /\ ctxDone \in BOOLEAN
    /\ listener \in {"starting", "serving", "returned"}
    /\ serverErr \in {Nil, "failed", "ErrServerClosed"}
    /\ serve \in {"select", "shutdown", "receive", "nil", "error"}
    /\ stopping \in Nat /\ ServeReturns
    /\ listener = "returned" /\ serve \notin {"nil", "error"} => serverErr # Nil
    /\ serve \in {"receive", "nil"} => NoneActive

(* A step of a review is of one in flight, or begins one while Serve       *)
(* still accepts requests.                                                 *)
LEMMA ReviewStepServe ==
    ASSUME ServeInv, NEW r \in Reviews, Refuse(r) \/ ServeHTTP(r) \/ Proceed(r)
    PROVE  serve \notin {"receive", "nil"} /\ UNCHANGED server
<1>1. CASE Refuse(r) \/ ServeHTTP(r)
  BY <1>1 DEF Refuse, ServeHTTP
<1>2. CASE Proceed(r)
  <2>1. review[r].step \in {"mu", "union", "expand", "wait", "fetch", "request"}
    BY <1>2 DEF Proceed, TokenAuthenticator, Union, NotWanted, NoFetch, GetAccessToken, Expanding,
         SourceWoken, FetchSucceeds, FetchFails, Do, Decide
  <2>2. UNCHANGED server
    BY <1>2 DEF Proceed, TokenAuthenticator, Union, NotWanted, NoFetch, GetAccessToken,
         SourceWoken, FetchSucceeds, FetchFails, Do, Decide
  <2> QED
    BY <2>1, <2>2 DEF ServeInv, NoneActive, InFlight
<1> QED
  BY <1>1, <1>2

LEMMA ServeStepKeeps ==
    ASSUME ReviewInv, ServeInv, [Next]_vars
    PROVE  ServeInv'
<1>1. CASE UNCHANGED <<review, server>>
  BY <1>1 DEF server, ServeInv, ServeReturns, NoneActive
<1>2. CASE Loader
  BY <1>1, <1>2 DEF Loader, HandleConfigChange, LoaderWoken, FirstLoad, LoadFails
<1>3. ASSUME NEW r \in Reviews, Refuse(r) \/ ServeHTTP(r) \/ Proceed(r)
      PROVE  ServeInv'
  BY <1>3, ReviewStepServe DEF server, ServeInv, ServeReturns
<1>4. CASE Running /\ Serve
  <2>1. review' = review /\ UNCHANGED <<ctxDone, listener, stopping>>
    BY <1>4 DEF Serve, SelectServerErr, SelectDone, Shutdown, ReceiveServerErr, others
  <2>2. NoneActive' <=> NoneActive
    BY <2>1 DEF NoneActive
  <2>3. CASE SelectServerErr
    BY <2>1, <2>2, <2>3 DEF SelectServerErr, ServeInv, ServeReturns, ListenerFailed
  <2>4. CASE SelectDone
    BY <2>1, <2>2, <2>4 DEF SelectDone, ServeInv, ServeReturns, Cancelled
  <2>5. CASE Shutdown
    BY <2>1, <2>2, <2>5 DEF Shutdown, ShutdownOver, ServeInv, ServeReturns
  <2>6. CASE ReceiveServerErr
    BY <2>1, <2>2, <2>6 DEF ReceiveServerErr, ServerClosed, ServeInv, ServeReturns
  <2> QED
    BY <1>4, <2>3, <2>4, <2>5, <2>6 DEF Serve
<1>5. CASE Running /\ ServerEvent
  <2>1. review' = review /\ serve' = serve /\ stopping' = stopping /\ serve \notin {"nil", "error"}
    BY <1>5 DEF ServerEvent, Listen, ListenerReturns, CancelContext, others, Running
  <2>2. NoneActive' <=> NoneActive
    BY <2>1 DEF NoneActive
  <2> QED
    BY <1>5, <2>1, <2>2, NamesAssumption
       DEF ServerEvent, Listen, ListenerReturns, CancelContext, ServeInv, ServeReturns
<1>6. CASE Running /\ Tick
  <2>1. UNCHANGED <<ctxDone, listener, serverErr, serve>> /\ ~ServeReady /\ serve \notin {"nil", "error"}
    BY <1>6 DEF Tick, Running
  <2>2. NoneActive' <=> NoneActive
    BY <1>6, TickKeeps DEF NoneActive, InFlight
  <2>3. stopping' = IF ctxDone \/ listener = "returned" THEN stopping + 1 ELSE 0
    BY <1>6 DEF Tick
  <2>4. serve # "receive"
    BY <1>6, <2>1 DEF Tick, ServeInv, ServeReady, ServerClosed
  <2>5. serve = "select" => stopping' = 0
    BY <2>1, <2>3 DEF ServeInv, ServeReady, ListenerFailed, Cancelled
  <2>6. serve = "shutdown" => stopping # shutdownTimeout
    BY <2>1 DEF ServeReady, ShutdownOver
  <2>7. stopping' \in Nat /\ stopping' <= shutdownTimeout
    BY <2>1, <2>3, <2>4, <2>5, <2>6, LifetimesAssumption DEF ServeInv, ServeReturns
  <2> QED
    BY <2>1, <2>2, <2>5, <2>7 DEF ServeInv, ServeReturns
<1>7. UNCHANGED vars => UNCHANGED <<review, server>>
  BY DEF vars
<1> QED
  BY <1>1, <1>2, <1>3, <1>4, <1>5, <1>6, <1>7 DEF Next, Exited

LEMMA ServeInit ==
    ASSUME Init
    PROVE  ServeInv
<1>1. 0 <= shutdownTimeout
  BY LifetimesAssumption
<1> QED
  BY <1>1 DEF Init, ServeInv, ServeReturns

-----------------------------------------------------------------------------
Inv == ReviewInv /\ ServeInv

LEMMA Invariance == Spec => []Inv
<1>1. Init => Inv
  BY ReviewInit, ServeInit DEF Inv
<1>2. Inv /\ [Next]_vars => Inv'
  BY ReviewStepKeeps, ServeStepKeeps DEF Inv
<1> QED
  BY <1>1, <1>2, PTL DEF Spec

(* However reviews, reloads and shutdown interleave, a mutex is held by    *)
(* somebody in its critical section or handed to somebody who waits, and   *)
(* only those that wait are in its queue: no lock leaks on any path, and   *)
(* nobody is left in a queue it has gone from.                             *)
THEOREM TypeCorrect == Spec => []TypeOK
<1>1. Inv => TypeOK
  <2> SUFFICES ASSUME Inv
               PROVE  TypeOK
    OBVIOUS
  <2>1. ASSUME NEW m \in DOMAIN mutex
        PROVE  /\ mutex[m].holder # Nil =>
                    WaitsFor(m, mutex[m].holder) \/ InSection(m, mutex[m].holder)
               /\ \A k \in DOMAIN mutex[m].queue : WaitsFor(m, mutex[m].queue[k])
    <3>1. QueueAt(m) /\ mutex[m] \in Mutex
      BY DEF Inv, ReviewInv, Shape, QueueInv
    <3>2. mutex[m].holder \in Processes \cup {Nil} /\ Line(mutex[m]) \subseteq Processes
      BY <3>1, MutexFields DEF Line
    <3>3. \A k \in DOMAIN mutex[m].queue : mutex[m].queue[k] \in Line(mutex[m])
      BY DEF Line, Elements
    <3> QED
      BY <3>1, <3>2, <3>3 DEF QueueAt
  <2> QED
    BY <2>1 DEF Inv, ReviewInv, Shape, Mutexes, LoaderAt, ServeInv, TypeOK
<1> QED
  BY <1>1, Invariance, PTL

(* A token that a source is sent outlives the request: one that is reused  *)
(* lives longer than expiryDelta, and one that is fetched than the         *)
(* timeout, whoever fetched it and whoever else uses it.                   *)
THEOREM TokensAreFresh == Spec => []FreshToken
<1>1. Inv => FreshToken
  <2> SUFFICES ASSUME Inv, NEW r \in Reviews, review[r].step = "request", review[r].token # Nil
               PROVE  review[r].token > review[r].timer
    BY DEF FreshToken
  <2>1. review[r].timer <= 1 /\ review[r].token > 1
    BY DEF Inv, ReviewInv, LocalInv, Local, Timers
  <2>2. review[r].timer \in Nat /\ review[r].token \in Nat
    BY DEF Inv, ReviewInv, LocalInv, Local, Review
  <2> QED
    BY <2>1, <2>2
<1> QED
  BY <1>1, Invariance, PTL

(* The answer is authenticated exactly if an authenticator accepted the    *)
(* token, and unauthenticated only if none has its issuer: the union       *)
(* passes over no verdict, whatever fails at the sources.                  *)
THEOREM VerdictIsKept == Spec => []VerdictStands
<1>1. Inv => VerdictStands
  <2> SUFFICES ASSUME Inv, NEW r \in Reviews
               PROVE  LET v == review[r]
                      IN /\ v.answer = "authenticated" <=> ~InFlight(v) /\ v.accepted
                         /\ v.answer = "unauthenticated" =>
                              \A a \in DOMAIN Authenticators : Authenticators[a].issuer # v.issuer
    BY DEF VerdictStands
  <2>1. Verdict(review[r])
    BY DEF Inv, ReviewInv, LocalInv, Local
  <2> QED
    BY <2>1, NamesAssumption DEF Verdict, Answers
<1> QED
  BY <1>1, Invariance, PTL

(* Serve returns nil only when every review has its answer.                *)
THEOREM NilIsDrained == Spec => []Drained
<1>1. Inv => Drained
  BY DEF Inv, ServeInv, NoneActive, Drained
<1> QED
  BY <1>1, Invariance, PTL

(* Serve returns without delay when the listener fails, and within the     *)
(* timeout of Shutdown when the context is cancelled: a review that hangs  *)
(* on a mutex, a token endpoint or a source cannot keep it.                *)
THEOREM ServeIsBounded == Spec => []ServeReturns
<1>1. Inv => ServeReturns
  BY DEF Inv, ServeInv
<1> QED
  BY <1>1, Invariance, PTL
=============================================================================
