----------------------------- MODULE TimerProofs -----------------------------
(***************************************************************************)
(* Theorems about event timers, for every width of the clock and every     *)
(* number of timers and processes, and about callback timers.              *)
(***************************************************************************)
EXTENDS Ctimer, ListLemmas

\* While the walk of EXITED goes on, the timers from its place on may still be
\* those of the process that exits.
Owned(i) ==
  LET p == owner[timerlist[i]] IN
  p \in running \/ (pc.at = "drop" /\ pc.i <= i /\ p = pc.p)

ListInv == ListHoldsOnce /\ \A i \in DOMAIN timerlist : Owned(i)

\* A timer's start is age ticks behind the clock, and the code's arithmetic
\* modulo Wrap finds out by how much.
Aged(t) ==
  /\ age[t] < Wrap => start[t] + age[t] - now \in {-Wrap, 0, Wrap}
  /\ interval[t] - age[t] <= MaxTicks
AgeInv == /\ \A t \in Timer : Aged(t)
          /\ \A t \in Range(timerlist) : age[t] <= Wrap - 2

Live(t) == age[t] < interval[t]

\* The time n, at which the interrupt polls, is not after the expiration of t.
InTime(n, t) == Live(t) => (start[t] + interval[t] - n) % Wrap <= MaxTicks

\* When t becomes due, the interrupt takes next_expiration for the past.
Heard(t) == LET d == (next_expiration - now) % Wrap IN
            d <= interval[t] - age[t] \/ d > MaxTicks + 2

Updating(after) == pc.at \in {"update", "write"} /\ pc.after = after
Passed(i) == /\ pc.at = "scan" => i < pc.i
             /\ ~Updating(Scan(1))
PollInv ==
  /\ pc.at \in {"main", "scan", "drop"} =>
       \A t \in Range(timerlist) : InTime(next_expiration, t)
  /\ pc.at = "write" => \A t \in Range(timerlist) : InTime(pc.v, t)
  /\ ~needspoll =>
       /\ \A i \in DOMAIN timerlist : Passed(i) => Live(timerlist[i])
       /\ Updating(Main) => \A t \in Range(timerlist) : Heard(t)

----------------------------------------------------------------------------
(* The list of timers *)

LEMMA InClock == \A x \in Int : x % Wrap \in Clock
BY ClockAssumption DEF Clock

LEMMA Ticks == MaxTicks \in Nat /\ 2 * MaxTicks + 2 = Wrap
BY ClockAssumption DEF MaxTicks

PcOK ==
  \/ pc = Main
  \/ pc.at = "scan" /\ pc.i \in 1 .. Len(timerlist) + 1
  \/ pc.at = "drop" /\ pc.p \in Proc \ running /\ pc.i \in 1 .. Len(timerlist) + 1
  \/ pc.at = "update" /\ pc.after \in {Main, Scan(1)}
  \/ pc.at = "write" /\ pc.v \in Clock /\ pc.after \in {Main, Scan(1)}

\* Most steps change only some of the variables that the list is about.
LEMMA TypeKept ==
  ASSUME ListInv, UNCHANGED <<now, next_expiration, start, interval, queue, age>>,
         timerlist' \in Seq(Timer), owner' \in [Timer -> Proc \cup {NULL}],
         needspoll' \in BOOLEAN, running' \subseteq Proc, PcOK'
  PROVE  TypeOK'
<1>1. /\ now' \in Clock /\ next_expiration' \in Clock
      /\ start' \in [Timer -> Clock] /\ interval' \in [Timer -> Intervals \cup {0}]
      /\ age' \in [Timer -> -Ahead .. Wrap]
  BY DEF ListInv, ListHoldsOnce, TypeOK
<1>2. Queue!TypeOK'
  BY DEF ListInv, ListHoldsOnce, TypeOK, Queue!TypeOK
<1>3. QED BY <1>1, <1>2, Zenon DEF TypeOK, PcOK

LEMMA MainThread ==
  /\ Main.at = "main"
  /\ \A i : Scan(i).at = "scan" /\ Scan(i).i = i
  /\ \A p, i : Drop(p, i).at = "drop" /\ Drop(p, i).p = p /\ Drop(p, i).i = i
  /\ \A a : Update(a).at = "update" /\ Update(a).after = a
  /\ \A v, a : Write(v, a).at = "write" /\ Write(v, a).v = v /\ Write(v, a).after = a
BY DEF Main, Scan, Drop, Update, Write

LEMMA ListFacts ==
  ASSUME ListInv
  PROVE  /\ timerlist \in Seq(Timer) /\ Distinct(timerlist) /\ Len(timerlist) \in Nat
         /\ DOMAIN timerlist = 1 .. Len(timerlist)
         /\ \A i \in DOMAIN timerlist : timerlist[i] \in Timer
         /\ Range(timerlist) \subseteq Timer
         /\ \A t \in Range(timerlist) : owner[t] \in Proc /\ owner[t] # NULL
<1>1. timerlist \in Seq(Timer) /\ Distinct(timerlist)
  BY DEF ListInv, ListHoldsOnce, TypeOK, Distinct
<1>2. /\ DOMAIN timerlist = 1 .. Len(timerlist) /\ Len(timerlist) \in Nat
      /\ \A i \in DOMAIN timerlist : timerlist[i] \in Timer
  BY <1>1
<1>3. Range(timerlist) \subseteq Timer
  BY <1>2 DEF Range
<1>4. ASSUME NEW t \in Range(timerlist) PROVE owner[t] \in Proc /\ owner[t] # NULL
  <2>1. owner[t] # NULL /\ owner[t] \in Proc \cup {NULL}
    BY <1>3 DEF ListInv, ListHoldsOnce, TypeOK, Pending
  <2>2. QED BY <2>1
<1>5. QED BY <1>1, <1>2, <1>3, <1>4

LEMMA NearestIsTime ==
  ASSUME ListInv
  PROVE  /\ NearestExpiration \in Clock
         /\ timerlist # <<>> =>
              \E m \in Clock : /\ NearestExpiration = (now + m) % Wrap
                               /\ \A t \in Range(timerlist) : m <= Remaining(t)
<1>1. CASE timerlist = <<>>
  BY <1>1, ClockAssumption DEF NearestExpiration, Clock
<1>2. CASE timerlist # <<>>
  <2> DEFINE T == {Remaining(t) : t \in Range(timerlist)}
  <2>1. T \subseteq Clock
    <3>1. ASSUME NEW t \in Timer PROVE Remaining(t) \in Clock
      <4>1. start[t] \in Int /\ interval[t] \in Int /\ now \in Int
        BY IntervalAssumption, ClockAssumption
           DEF ListInv, ListHoldsOnce, TypeOK, Clock
      <4>2. QED BY <4>1, InClock DEF Remaining
    <3>2. QED BY <3>1, ListFacts
  <2>2. T # {}
    <3>1. 1 \in DOMAIN timerlist
      BY <1>2, ListFacts
    <3>2. timerlist[1] \in Range(timerlist)
      BY <3>1 DEF Range
    <3>3. QED BY <3>2
  <2>3. NearestExpiration = (now + Min(T)) % Wrap
    BY <1>2 DEF NearestExpiration
  <2> HIDE DEF T
  <2>4. Min(T) \in T /\ \A y \in T : Min(T) <= y
    <3>1. T \subseteq Nat
      BY <2>1 DEF Clock
    <3>2. QED BY <2>2, <3>1, NatMinimum
  <2>5. now \in Int /\ Min(T) \in Int /\ Min(T) \in Clock
    BY <2>1, <2>4 DEF ListInv, ListHoldsOnce, TypeOK, Clock
  <2>6. NearestExpiration \in Clock
    BY <2>3, <2>5, InClock
  <2>7. \A t \in Range(timerlist) : Min(T) <= Remaining(t)
    BY <2>4 DEF T
  <2>8. QED BY <2>3, <2>5, <2>6, <2>7
<1>3. QED BY <1>1, <1>2

LEMMA InitList == Init => ListInv
<1> SUFFICES ASSUME Init PROVE ListInv
  OBVIOUS
<1>1. timerlist = <<>> /\ DOMAIN timerlist = {}
  BY DEF Init
<1>2. TypeOK
  <2>1. 0 \in Clock /\ Wrap \in -Ahead .. Wrap
    BY ClockAssumption, IntervalAssumption DEF Clock
  <2>2. Queue!TypeOK
    BY QueueAssumption DEF Init, Queue!TypeOK
  <2>3. /\ start \in [Timer -> Clock] /\ interval \in [Timer -> Intervals \cup {0}]
        /\ owner \in [Timer -> Proc \cup {NULL}] /\ age \in [Timer -> -Ahead .. Wrap]
    BY <2>1 DEF Init
  <2>4. timerlist \in Seq(Timer) /\ now \in Clock /\ next_expiration \in Clock
    BY <1>1, <2>1 DEF Init
  <2>5. needspoll \in BOOLEAN /\ running \subseteq Proc /\ pc = Main
    BY DEF Init
  <2>6. QED BY <2>2, <2>3, <2>4, <2>5, Zenon DEF TypeOK
<1>3. QED BY <1>1, <1>2 DEF ListInv, ListHoldsOnce, Pending, Range

\* A step that leaves the list, its timers' owners and the walks alone.
LEMMA SameList ==
  ASSUME ListInv, TypeOK', timerlist' = timerlist, owner' = owner,
         running \subseteq running', pc' = pc \/ (pc.at # "drop" /\ pc'.at # "drop")
  PROVE  ListInv'
<1>1. ASSUME NEW i \in DOMAIN timerlist, Owned(i) PROVE Owned(i)'
  BY <1>1 DEF Owned
<1>2. QED BY <1>1 DEF ListInv, ListHoldsOnce, Pending

LEMMA TickList ==
  ASSUME ListInv, Tick
  PROVE  ListInv'
<1>1. now' \in Clock
  <2>1. now + 1 \in Int
    BY DEF ListInv, ListHoldsOnce, TypeOK, Clock
  <2>2. QED BY <2>1, InClock DEF Tick
<1>2. needspoll' \in BOOLEAN
  BY DEF ListInv, ListHoldsOnce, TypeOK, Tick
<1>3. age' \in [Timer -> -Ahead .. Wrap]
  <2>1. ASSUME NEW t \in Timer
        PROVE  (IF age[t] < Wrap THEN age[t] + 1 ELSE Wrap) \in -Ahead .. Wrap
    <3>1. age[t] \in -Ahead .. Wrap
      BY DEF ListInv, ListHoldsOnce, TypeOK
    <3>2. QED BY <3>1, ClockAssumption, IntervalAssumption
  <2>2. QED BY <2>1 DEF Tick
<1>4. TypeOK'
  <2>1. UNCHANGED <<timerlist, start, interval, owner, next_expiration, queue,
                    running, pc>>
    BY DEF Tick
  <2>2. QED
    BY <1>1, <1>2, <1>3, <2>1 DEF ListInv, ListHoldsOnce, TypeOK, Queue!TypeOK
<1>5. QED BY <1>4, SameList DEF Tick

LEMMA PollList ==
  ASSUME ListInv, Poll
  PROVE  ListInv'
<1>1. pc' = Scan(1) /\ 1 \in 1 .. Len(timerlist) + 1 /\ timerlist' = timerlist
  BY ListFacts DEF Poll
<1>2. PcOK'
  BY <1>1, MainThread DEF PcOK
<1>3. TypeOK'
  BY <1>2, TypeKept DEF ListInv, ListHoldsOnce, TypeOK, Poll
<1>4. pc.at = "main" /\ pc'.at = "scan"
  BY MainThread DEF Poll
<1>5. QED BY <1>3, <1>4, SameList DEF Poll

LEMMA ScanList ==
  ASSUME ListInv, ScanEnd \/ ScanSkip \/ ScanFull
  PROVE  ListInv'
<1>1. pc.at = "scan" /\ pc.i \in 1 .. Len(timerlist) + 1
  BY MainThread DEF ListInv, ListHoldsOnce, TypeOK, ScanEnd, ScanSkip, ScanFull
<1>2. pc' = Main \/ (pc' = Scan(pc.i + 1) /\ pc.i + 1 \in 1 .. Len(timerlist) + 1)
  BY <1>1, ListFacts DEF ScanEnd, ScanSkip, ScanFull
<1>3. needspoll' \in BOOLEAN
  BY DEF ListInv, ListHoldsOnce, TypeOK, ScanEnd, ScanSkip, ScanFull, PollAgain
<1>4. /\ UNCHANGED <<now, timerlist, start, interval, owner, next_expiration, queue,
                    running, age>>
  BY DEF ScanEnd, ScanSkip, ScanFull
<1>5. PcOK'
  BY <1>2, <1>4, MainThread DEF PcOK
<1>6. TypeOK'
  BY <1>3, <1>4, <1>5, TypeKept DEF ListInv, ListHoldsOnce, TypeOK
<1>7. pc'.at # "drop"
  BY <1>2, MainThread
<1>8. QED BY <1>1, <1>4, <1>6, <1>7, SameList

\* The timer at place i leaves the list, and nothing else of it changes.
LEMMA PlaceRemoved ==
  ASSUME ListInv, NEW i \in DOMAIN timerlist, timerlist' = RemoveAt(timerlist, i)
  PROVE  /\ timerlist' \in Seq(Timer) /\ Distinct(timerlist')
         /\ Range(timerlist') = Range(timerlist) \ {timerlist[i]}
         /\ DOMAIN timerlist' = 1 .. Len(timerlist) - 1
         /\ Len(timerlist') = Len(timerlist) - 1
         /\ \A j \in DOMAIN timerlist' :
              /\ (IF j < i THEN j ELSE j + 1) \in DOMAIN timerlist
              /\ timerlist'[j] = timerlist[IF j < i THEN j ELSE j + 1]
<1>1. /\ timerlist \in Seq(Timer) /\ Distinct(timerlist)
      /\ i \in 1 .. Len(timerlist) /\ Len(timerlist) \in Nat
      /\ DOMAIN timerlist = 1 .. Len(timerlist)
  BY ListFacts
<1>2. /\ timerlist' \in Seq(Timer) /\ Distinct(timerlist')
      /\ Range(timerlist') = Range(timerlist) \ {timerlist[i]}
  BY <1>1, RemoveAtKeeps
<1>3. /\ DOMAIN timerlist' = 1 .. (Len(timerlist) - 1)
      /\ Len(timerlist') = Len(timerlist) - 1
      /\ \A j \in 1 .. (Len(timerlist) - 1) :
           timerlist'[j] = timerlist[IF j < i THEN j ELSE j + 1]
  BY <1>1, RemoveAtFacts
<1>4. \A j \in 1 .. (Len(timerlist) - 1) :
        (IF j < i THEN j ELSE j + 1) \in 1 .. Len(timerlist)
  BY <1>1
<1>5. QED BY <1>1, <1>2, <1>3, <1>4

LEMMA ScanPostList ==
  ASSUME ListInv, ScanPost
  PROVE  ListInv'
<1> DEFINE t == timerlist[pc.i]
<1>1. pc.at = "scan" /\ pc.i \in DOMAIN timerlist /\ t \in Timer /\ t \in Range(timerlist)
  <2>1. pc.at = "scan" /\ pc.i \in 1 .. Len(timerlist) + 1 /\ pc.i <= Len(timerlist)
    BY MainThread DEF ListInv, ListHoldsOnce, TypeOK, ScanPost
  <2>2. QED BY <2>1, ListFacts DEF Range
<1>2. /\ timerlist' \in Seq(Timer) /\ Distinct(timerlist')
      /\ Range(timerlist') = Range(timerlist) \ {t}
      /\ \A j \in DOMAIN timerlist' :
           /\ (IF j < pc.i THEN j ELSE j + 1) \in DOMAIN timerlist
           /\ timerlist'[j] = timerlist[IF j < pc.i THEN j ELSE j + 1]
  BY <1>1, PlaceRemoved DEF ScanPost
<1>3. /\ owner' = [owner EXCEPT ![t] = NULL]
      /\ pc' = Update(Scan(1)) /\ running' = running
      /\ queue' = Append(queue, [p |-> owner[t], t |-> t]) /\ ~Queue!Full
      /\ UNCHANGED <<now, start, interval, next_expiration, needspoll, running, age>>
  BY DEF ScanPost, Queue!Post
<1>4. [p |-> owner[t], t |-> t] \in TimerEvent
  BY <1>1, ListFacts DEF TimerEvent
<1> HIDE DEF t
<1>5. Queue!TypeOK'
  <2>1. queue \in Seq(TimerEvent) /\ Len(queue) <= NumEvents /\ Len(queue) # NumEvents
    BY <1>3 DEF ListInv, ListHoldsOnce, TypeOK, Queue!TypeOK, Queue!Full
  <2>2. Len(queue) \in Nat
    BY <2>1
  <2>3. queue' \in Seq(TimerEvent) /\ Len(queue') = Len(queue) + 1
    BY <1>3, <1>4, <2>1
  <2>4. QED BY <2>1, <2>2, <2>3, QueueAssumption DEF Queue!TypeOK
<1>6. TypeOK'
  <2>1. owner' \in [Timer -> Proc \cup {NULL}]
    BY <1>1, <1>3 DEF ListInv, ListHoldsOnce, TypeOK
  <2>2. QED BY <1>2, <1>3, <1>5, <2>1, MainThread DEF ListInv, ListHoldsOnce, TypeOK
<1>7. ASSUME NEW u \in Timer, owner'[u] = NULL PROVE u \notin Range(timerlist')
  <2>1. u = t \/ owner[u] = NULL
    BY <1>3, <1>7 DEF ListInv, ListHoldsOnce, TypeOK
  <2>2. QED BY <1>2, <2>1, ListFacts
<1>8. ASSUME NEW j \in DOMAIN timerlist' PROVE Owned(j)'
  <2> DEFINE k == IF j < pc.i THEN j ELSE j + 1
  <2>1. k \in DOMAIN timerlist /\ timerlist'[j] = timerlist[k]
    BY <1>2
  <2>2. timerlist[k] # t /\ timerlist[k] \in Timer
    <3>1. timerlist'[j] \in Range(timerlist')
      BY DEF Range
    <3>2. QED BY <1>2, <2>1, <3>1, ListFacts
  <2>3. owner[timerlist[k]] \in running
    BY <1>1, <2>1, ListFacts DEF ListInv, Owned
  <2>4. QED BY <1>3, <2>1, <2>2, <2>3 DEF Owned, ListInv, ListHoldsOnce, TypeOK
<1>9. QED BY <1>2, <1>6, <1>7, <1>8 DEF ListInv, ListHoldsOnce, Pending, Distinct

LEMMA UpdateList ==
  ASSUME ListInv, UpdateTime
  PROVE  ListInv'
<1>1. pc.at \in {"update", "write"} /\ pc.after \in {Main, Scan(1)}
  BY MainThread DEF UpdateTime, UpdateRead, UpdateWrite, ListInv, ListHoldsOnce, TypeOK
<1>2. CASE UpdateRead
  <2>1. pc' = Write(NearestExpiration, pc.after) /\ NearestExpiration \in Clock
    BY <1>2, NearestIsTime DEF UpdateRead
  <2>2. PcOK'
    BY <1>1, <2>1, MainThread DEF PcOK
  <2>3. TypeOK'
    BY <1>2, <2>2, TypeKept DEF UpdateRead, ListInv, ListHoldsOnce, TypeOK
  <2>4. QED BY <1>1, <1>2, <2>1, <2>3, MainThread, SameList DEF UpdateRead
<1>3. CASE UpdateWrite
  <2>1. pc.v \in Clock
    BY <1>3, MainThread DEF UpdateWrite, ListInv, ListHoldsOnce, TypeOK
  <2>2. /\ pc' = pc.after /\ next_expiration' = pc.v
        /\ UNCHANGED <<now, timerlist, start, interval, owner, needspoll, queue,
                       running, age>>
    BY <1>3 DEF UpdateWrite
  <2>3. 1 \in 1 .. Len(timerlist) + 1
    BY ListFacts
  <2>4. PcOK'
    BY <1>1, <2>2, <2>3, MainThread DEF PcOK
  <2>5. TypeOK'
    <3>1. Queue!TypeOK'
      BY <2>2 DEF ListInv, ListHoldsOnce, TypeOK, Queue!TypeOK
    <3>2. QED BY <2>1, <2>2, <2>4, <3>1 DEF ListInv, ListHoldsOnce, TypeOK, PcOK
  <2>6. QED BY <1>1, <2>2, <2>5, MainThread, SameList
<1>4. QED BY <1>2, <1>3 DEF UpdateTime

LEMMA Running ==
  ASSUME ListInv, pc.at # "drop", NEW t \in Range(timerlist)
  PROVE  owner[t] \in running
<1>1. PICK i \in DOMAIN timerlist : t = timerlist[i]
  BY DEF Range
<1>2. QED BY <1>1 DEF ListInv, Owned

LEMMA NewList ==
  ASSUME TypeOK', Distinct(timerlist'),
         \A u \in Timer : owner'[u] = NULL => u \notin Range(timerlist'),
         \A u \in Range(timerlist') : owner'[u] \in running'
  PROVE  ListInv'
<1>1. \A i \in DOMAIN timerlist' : Owned(i)'
  BY DEF Owned, Range
<1>2. QED BY <1>1 DEF ListInv, ListHoldsOnce, Pending, Distinct

\* What add_timer does to the list: t is on it once, and is owned by p.
LEMMA AddTimerList ==
  ASSUME ListInv, NEW p \in running, NEW t \in Timer, pc = Main, AddTimer(p, t)
  PROVE  /\ timerlist' \in Seq(Timer) /\ Distinct(timerlist')
         /\ Range(timerlist') = Range(timerlist) \cup {t}
         /\ owner' \in [Timer -> Proc \cup {NULL}] /\ owner'[t] = p
         /\ \A u \in Timer : owner'[u] = NULL => u \notin Range(timerlist')
         /\ \A u \in Range(timerlist') : owner'[u] \in running
         /\ PcOK'
<1>1. /\ timerlist' \in Seq(Timer) /\ Distinct(timerlist')
      /\ Range(timerlist') = Range(timerlist) \cup {t}
  <2>1. CASE AlreadyOn(t)
    <3>1. timerlist' = timerlist /\ t \in Range(timerlist)
      BY <2>1 DEF AddTimer, AlreadyOn, Pending
    <3>2. QED BY <3>1, ListFacts
  <2>2. CASE ~AlreadyOn(t)
    <3>1. timerlist' = <<t>> \o timerlist
      BY <2>2 DEF AddTimer
    <3>2. t \notin Range(timerlist)
      BY <2>2 DEF AlreadyOn, Pending, ListInv, ListHoldsOnce
    <3>3. QED BY <3>1, <3>2, ListFacts, PushKeeps
  <2>3. QED BY <2>1, <2>2
<1>2. p \in Proc /\ p # NULL
  BY TimerAssumption DEF ListInv, ListHoldsOnce, TypeOK
<1>3. /\ owner' = [owner EXCEPT ![t] = p]
      /\ owner \in [Timer -> Proc \cup {NULL}]
  BY DEF AddTimer, ListInv, ListHoldsOnce, TypeOK
<1>4. /\ owner' \in [Timer -> Proc \cup {NULL}] /\ owner'[t] = p
      /\ \A u \in Timer : u # t => owner'[u] = owner[u]
  BY <1>2, <1>3
<1>5. pc.at # "drop"
  BY MainThread
<1>6. ASSUME NEW u \in Timer, owner'[u] = NULL PROVE u \notin Range(timerlist')
  <2>1. u # t /\ owner[u] = NULL
    BY <1>2, <1>4, <1>6
  <2>2. QED BY <1>1, <2>1, ListFacts
<1>7. ASSUME NEW u \in Range(timerlist') PROVE owner'[u] \in running
  <2>1. CASE u = t
    BY <1>4, <2>1
  <2>2. CASE u # t
    <3>1. u \in Range(timerlist) /\ u \in Timer
      BY <1>1, <2>2, ListFacts
    <3>2. owner[u] \in running
      BY <1>5, <3>1, Running
    <3>3. QED BY <1>4, <2>2, <3>1, <3>2
  <2>3. QED BY <2>1, <2>2
<1>8. PcOK'
  <2>1. pc' = Update(Main)
    BY DEF AddTimer
  <2>2. QED BY <2>1, MainThread DEF PcOK
<1>9. QED BY <1>1, <1>4, <1>6, <1>7, <1>8

\* What EtimerSet, EtimerReset and EtimerRestart do to t before add_timer.
LEMMA SetList ==
  ASSUME ListInv, NEW p \in running, NEW t \in Timer, pc = Main, AddTimer(p, t),
         NEW s \in Clock, start' = [start EXCEPT ![t] = s],
         interval' \in [Timer -> Intervals \cup {0}],
         NEW a \in -Ahead .. Wrap, age' = [age EXCEPT ![t] = a]
  PROVE  ListInv'
<1>1. /\ timerlist' \in Seq(Timer) /\ owner' \in [Timer -> Proc \cup {NULL}] /\ PcOK'
  BY AddTimerList
<1>2. start' \in [Timer -> Clock] /\ age' \in [Timer -> -Ahead .. Wrap]
  BY DEF ListInv, ListHoldsOnce, TypeOK
<1>3. /\ UNCHANGED <<now, next_expiration, queue, running>> /\ needspoll' \in BOOLEAN
  BY DEF AddTimer
<1>4. Queue!TypeOK' /\ now' \in Clock /\ next_expiration' \in Clock /\ running' \subseteq Proc
  BY <1>3 DEF ListInv, ListHoldsOnce, TypeOK, Queue!TypeOK
<1>5. TypeOK'
  BY <1>1, <1>2, <1>3, <1>4, Zenon DEF TypeOK, PcOK
<1>6. running' = running
  BY <1>3
<1>7. QED BY <1>5, <1>6, AddTimerList, NewList

LEMMA EtimerSetList ==
  ASSUME ListInv, NEW p \in Proc, NEW t \in Timer, NEW i \in Intervals, EtimerSet(p, t, i)
  PROVE  ListInv'
<1>1. now \in Clock /\ interval \in [Timer -> Intervals \cup {0}]
  BY DEF ListInv, ListHoldsOnce, TypeOK
<1>2. interval' \in [Timer -> Intervals \cup {0}] /\ 0 \in -Ahead .. Wrap
  BY <1>1, ClockAssumption, IntervalAssumption DEF EtimerSet
<1>3. QED BY <1>1, <1>2, SetList DEF EtimerSet

LEMMA EtimerRestartList ==
  ASSUME ListInv, NEW p \in Proc, NEW t \in Timer, EtimerRestart(p, t)
  PROVE  ListInv'
<1>1. now \in Clock /\ interval' \in [Timer -> Intervals \cup {0}]
  BY DEF ListInv, ListHoldsOnce, TypeOK, EtimerRestart
<1>2. 0 \in -Ahead .. Wrap
  BY ClockAssumption, IntervalAssumption
<1>3. QED BY <1>1, <1>2, SetList DEF EtimerRestart

LEMMA Numbers ==
  ASSUME ListInv, NEW t \in Timer
  PROVE  /\ now \in 0 .. Wrap - 1 /\ next_expiration \in 0 .. Wrap - 1
         /\ start[t] \in 0 .. Wrap - 1
         /\ interval[t] \in Intervals \cup {0}
         /\ interval[t] \in Nat /\ interval[t] + Ahead <= MaxTicks
         /\ age[t] \in -Ahead .. Wrap /\ age[t] \in Int
BY ClockAssumption, IntervalAssumption DEF ListInv, ListHoldsOnce, TypeOK, Clock

LEMMA EtimerResetList ==
  ASSUME ListInv, NEW p \in Proc, NEW t \in Timer, NEW i \in Intervals \cup {0},
         EtimerReset(p, t, i)
  PROVE  ListInv'
<1> DEFINE s == (start[t] + interval[t]) % Wrap
           a == age[t] - interval[t]
<1>1. s \in Clock
  <2>1. start[t] + interval[t] \in Int
    BY Numbers, ClockAssumption
  <2>2. QED BY <2>1, InClock
<1>2. a \in -Ahead .. Wrap
  BY Numbers, ClockAssumption, IntervalAssumption DEF EtimerReset
<1>3. interval' \in [Timer -> Intervals \cup {0}]
  BY DEF ListInv, ListHoldsOnce, TypeOK, EtimerReset
<1>4. /\ start' = [start EXCEPT ![t] = s] /\ age' = [age EXCEPT ![t] = a]
      /\ p \in running /\ pc = Main /\ AddTimer(p, t)
  BY DEF EtimerReset
<1> HIDE DEF s, a
<1>5. QED BY <1>1, <1>2, <1>3, <1>4, SetList

LEMMA EtimerAdjustList ==
  ASSUME ListInv, NEW t \in Timer, NEW d \in Adjustments, EtimerAdjust(t, d)
  PROVE  ListInv'
<1>1. (start[t] + d) % Wrap \in Clock
  <2>1. start[t] + d \in Int
    BY Numbers, ClockAssumption, AdjustAssumption, Ticks
  <2>2. QED BY <2>1, InClock
<1>2. age[t] - d \in -Ahead .. Wrap
  <2>1. /\ age[t] < interval[t] /\ age[t] - d >= -Ahead /\ d \in -MaxTicks .. MaxTicks
    BY AdjustAssumption DEF EtimerAdjust
  <2>2. QED BY <2>1, Numbers, ClockAssumption, IntervalAssumption, Ticks
<1>3. /\ pc = Main /\ pc' = Update(Main)
      /\ start' = [start EXCEPT ![t] = (start[t] + d) % Wrap]
      /\ age' = [age EXCEPT ![t] = age[t] - d]
      /\ UNCHANGED <<now, timerlist, interval, owner, next_expiration, needspoll,
                     queue, running>>
  BY DEF EtimerAdjust
<1>4. start' \in [Timer -> Clock] /\ age' \in [Timer -> -Ahead .. Wrap]
  BY <1>1, <1>2, <1>3 DEF ListInv, ListHoldsOnce, TypeOK
<1>5. PcOK'
  BY <1>3, MainThread DEF PcOK
<1>6. TypeOK'
  <2>1. Queue!TypeOK'
    BY <1>3 DEF ListInv, ListHoldsOnce, TypeOK, Queue!TypeOK
  <2>2. QED BY <1>3, <1>4, <1>5, <2>1 DEF ListInv, ListHoldsOnce, TypeOK, PcOK
<1>7. QED BY <1>3, <1>6, MainThread, SameList

LEMMA EtimerStopList ==
  ASSUME ListInv, NEW t \in Timer, EtimerStop(t)
  PROVE  ListInv'
<1>1. /\ pc = Main /\ pc' \in {Main, Update(Main)}
      /\ owner' = [owner EXCEPT ![t] = NULL]
      /\ timerlist' = RemoveFirst(timerlist, t)
      /\ UNCHANGED <<now, start, interval, next_expiration, needspoll, queue,
                     running, age>>
  BY DEF EtimerStop
<1>2. /\ timerlist' \in Seq(Timer) /\ Distinct(timerlist')
      /\ Range(timerlist') = Range(timerlist) \ {t}
  BY <1>1, ListFacts, RemoveFirstKeeps
<1>3. owner \in [Timer -> Proc \cup {NULL}]
  BY DEF ListInv, ListHoldsOnce, TypeOK
<1>4. /\ owner' \in [Timer -> Proc \cup {NULL}]
      /\ \A u \in Timer : u # t => owner'[u] = owner[u]
  BY <1>1, <1>3
<1>5. PcOK'
  BY <1>1, MainThread DEF PcOK
<1>6. TypeOK'
  BY <1>1, <1>2, <1>4, <1>5, TypeKept DEF ListInv, ListHoldsOnce, TypeOK
<1>7. ASSUME NEW u \in Timer, owner'[u] = NULL PROVE u \notin Range(timerlist')
  <2>1. CASE u = t
    BY <1>2, <2>1
  <2>2. CASE u # t
    BY <1>2, <1>4, <1>7, <2>2, ListFacts
  <2>3. QED BY <2>1, <2>2
<1>8. ASSUME NEW u \in Range(timerlist') PROVE owner'[u] \in running'
  <2>1. u \in Range(timerlist) /\ u # t /\ u \in Timer /\ running' = running
    BY <1>1, <1>2, <1>8, ListFacts
  <2>2. owner[u] \in running
    BY <1>1, <2>1, MainThread, Running
  <2>3. QED BY <1>4, <2>1, <2>2
<1>9. QED BY <1>2, <1>6, <1>7, <1>8, NewList

LEMMA EventsList ==
  ASSUME ListInv, DoEvent \/ PostOther
  PROVE  ListInv'
<1>1. /\ UNCHANGED <<now, timerlist, start, interval, owner, next_expiration,
                     needspoll, running, pc, age>>
  BY DEF DoEvent, PostOther
<1>2. queue \in Seq(TimerEvent) /\ Len(queue) <= NumEvents /\ Len(queue) \in Nat
  BY DEF ListInv, ListHoldsOnce, TypeOK, Queue!TypeOK
<1>3. queue' \in Seq(TimerEvent) /\ Len(queue') <= NumEvents
  <2>1. CASE DoEvent
    <3>1. queue # <<>> /\ queue' = Tail(queue)
      BY <2>1 DEF DoEvent, Queue!Take
    <3>2. QED BY <1>2, <3>1, QueueAssumption
  <2>2. CASE PostOther
    <3> DEFINE e == [p |-> NULL, t |-> NULL]
    <3>1. Len(queue) # NumEvents /\ queue' = Append(queue, e) /\ e \in TimerEvent
      BY <2>2 DEF PostOther, Queue!Post, Queue!Full, TimerEvent
    <3> HIDE DEF e
    <3>2. QED BY <1>2, <3>1, QueueAssumption
  <2>3. QED BY <2>1, <2>2
<1>4. TypeOK'
  BY <1>1, <1>3 DEF ListInv, ListHoldsOnce, TypeOK, Queue!TypeOK
<1>5. QED BY <1>1, <1>4, SameList

LEMMA ExitList ==
  ASSUME ListInv, NEW p \in Proc, Exit(p)
  PROVE  ListInv'
<1>1. /\ pc = Main /\ pc' = Drop(p, 1) /\ running' = running \ {p}
      /\ UNCHANGED <<now, timerlist, start, interval, owner, next_expiration,
                     needspoll, queue, age>>
  BY DEF Exit
<1>2. PcOK'
  BY <1>1, ListFacts, MainThread DEF PcOK
<1>3. TypeOK'
  BY <1>1, <1>2, TypeKept DEF ListInv, ListHoldsOnce, TypeOK
<1>4. ASSUME NEW i \in DOMAIN timerlist PROVE Owned(i)'
  <2>1. owner[timerlist[i]] \in running /\ i >= 1
    BY <1>1, MainThread, ListFacts DEF ListInv, Owned
  <2>2. QED BY <1>1, <2>1, MainThread DEF Owned
<1>5. QED BY <1>1, <1>3, <1>4 DEF ListInv, ListHoldsOnce, Pending

LEMMA StartList ==
  ASSUME ListInv, NEW p \in Proc, Start(p)
  PROVE  ListInv'
<1>1. /\ pc = Main /\ pc' = pc /\ running' = running \cup {p}
      /\ UNCHANGED <<now, timerlist, start, interval, owner, next_expiration,
                     needspoll, queue, age>>
  BY DEF Start
<1>2. PcOK'
  BY <1>1 DEF PcOK
<1>3. TypeOK'
  BY <1>1, <1>2, TypeKept DEF ListInv, ListHoldsOnce, TypeOK
<1>4. QED BY <1>1, <1>3, SameList

LEMMA DropTimerList ==
  ASSUME ListInv, DropTimer
  PROVE  ListInv'
<1>1. /\ pc.at = "drop" /\ pc.p \in Proc \ running /\ pc.i \in DOMAIN timerlist
      /\ pc.i \in Nat
  BY MainThread, ListFacts DEF ListInv, ListHoldsOnce, TypeOK, DropTimer
<1>2. /\ UNCHANGED <<now, start, interval, owner, next_expiration, needspoll, queue,
                     running, age>>
  BY DEF DropTimer
<1>3. CASE owner[timerlist[pc.i]] = pc.p
  <2>1. timerlist' = RemoveAt(timerlist, pc.i) /\ pc' = Drop(pc.p, pc.i)
    BY <1>3 DEF DropTimer, AfterDrop
  <2>2. /\ timerlist' \in Seq(Timer) /\ Distinct(timerlist')
        /\ Range(timerlist') \subseteq Range(timerlist)
        /\ Len(timerlist') = Len(timerlist) - 1
        /\ \A j \in DOMAIN timerlist' :
             /\ (IF j < pc.i THEN j ELSE j + 1) \in DOMAIN timerlist
             /\ timerlist'[j] = timerlist[IF j < pc.i THEN j ELSE j + 1]
    BY <1>1, <2>1, PlaceRemoved
  <2>3. PcOK'
    <3>1. pc.i \in 1 .. Len(timerlist') + 1
      BY <1>1, <2>2, ListFacts
    <3>2. QED BY <1>1, <1>2, <2>1, <3>1, MainThread DEF PcOK
  <2>4. TypeOK'
    BY <1>2, <2>2, <2>3, TypeKept DEF ListInv, ListHoldsOnce, TypeOK
  <2>5. ASSUME NEW j \in DOMAIN timerlist' PROVE Owned(j)'
    <3> DEFINE k == IF j < pc.i THEN j ELSE j + 1
    <3>1. k \in DOMAIN timerlist /\ timerlist'[j] = timerlist[k]
      BY <2>2
    <3>2. j \in Nat
      BY <2>2
    <3>3. CASE j < pc.i
      <4>1. owner[timerlist[j]] \in running
        BY <1>1, <3>1, <3>2, <3>3 DEF ListInv, Owned
      <4>2. QED BY <1>2, <3>1, <3>3, <4>1 DEF Owned
    <3>4. CASE ~(j < pc.i)
      <4>1. \/ owner[timerlist[k]] \in running
            \/ pc.i <= j /\ owner[timerlist[k]] = pc.p
        BY <1>1, <3>1, <3>2, <3>4 DEF ListInv, Owned
      <4>2. QED BY <1>2, <2>1, <3>1, <4>1, MainThread DEF Owned
    <3>5. QED BY <3>3, <3>4
  <2>6. \A u \in Timer : owner'[u] = NULL => u \notin Range(timerlist')
    BY <1>2, <2>2 DEF ListInv, ListHoldsOnce, Pending
  <2>7. QED BY <2>2, <2>4, <2>5, <2>6 DEF ListInv, ListHoldsOnce, Pending, Distinct
<1>4. CASE owner[timerlist[pc.i]] # pc.p
  <2>1. timerlist' = timerlist /\ pc' = Drop(pc.p, pc.i + 1)
    BY <1>4 DEF DropTimer
  <2>2. PcOK'
    <3>1. pc.i + 1 \in 1 .. Len(timerlist) + 1
      BY <1>1, ListFacts
    <3>2. QED BY <1>1, <1>2, <2>1, <3>1, MainThread DEF PcOK
  <2>3. TypeOK'
    BY <1>2, <2>1, <2>2, TypeKept DEF ListInv, ListHoldsOnce, TypeOK
  <2>4. ASSUME NEW j \in DOMAIN timerlist PROVE Owned(j)'
    <3>1. \/ owner[timerlist[j]] \in running
          \/ pc.i <= j /\ j # pc.i /\ owner[timerlist[j]] = pc.p
      BY <1>1, <1>4 DEF ListInv, Owned
    <3>2. j \in Nat
      BY ListFacts
    <3>3. QED BY <1>1, <1>2, <2>1, <3>1, <3>2, MainThread DEF Owned
  <2>5. QED BY <1>2, <2>1, <2>3, <2>4 DEF ListInv, ListHoldsOnce, Pending
<1>5. QED BY <1>3, <1>4

LEMMA DropEndList ==
  ASSUME ListInv, DropEnd
  PROVE  ListInv'
<1>1. /\ pc.at = "drop" /\ pc.i > Len(timerlist) /\ pc' = Main /\ pc.i \in Nat
      /\ UNCHANGED <<now, timerlist, start, interval, owner, next_expiration,
                     needspoll, queue, running, age>>
  BY MainThread DEF DropEnd, ListInv, ListHoldsOnce, TypeOK
<1>2. PcOK'
  BY <1>1 DEF PcOK
<1>3. TypeOK'
  BY <1>1, <1>2, TypeKept DEF ListInv, ListHoldsOnce, TypeOK
<1>4. ASSUME NEW j \in DOMAIN timerlist PROVE Owned(j)'
  <2>1. ~(pc.i <= j)
    BY <1>1, ListFacts
  <2>2. QED BY <1>1, <2>1 DEF ListInv, Owned
<1>5. QED BY <1>1, <1>3, <1>4 DEF ListInv, ListHoldsOnce, Pending

LEMMA StutterList ==
  ASSUME ListInv, UNCHANGED vars
  PROVE  ListInv'
<1>1. /\ UNCHANGED <<now, timerlist, start, interval, owner, next_expiration,
                     needspoll, queue, running, age>>
      /\ pc' = pc
  BY DEF vars
<1>2. PcOK'
  BY <1>1 DEF PcOK, ListInv, ListHoldsOnce, TypeOK
<1>3. TypeOK'
  BY <1>1, <1>2, TypeKept DEF ListInv, ListHoldsOnce, TypeOK
<1>4. QED BY <1>1, <1>3, SameList

LEMMA StepList ==
  ASSUME ListInv, [Next]_vars
  PROVE  ListInv'
<1>1. CASE Tick
  BY <1>1, TickList
<1>2. CASE EtimerProcess
  BY <1>2, PollList, ScanList, ScanPostList, DropTimerList, DropEndList DEF EtimerProcess
<1>3. CASE UpdateTime
  BY <1>3, UpdateList
<1>4. CASE Operation
  BY <1>4, EtimerSetList, EtimerResetList, EtimerRestartList, EtimerAdjustList,
     EtimerStopList DEF Operation
<1>5. CASE System
  BY <1>5, EventsList, ExitList, StartList DEF System
<1>6. CASE UNCHANGED vars
  BY <1>6, StutterList
<1>7. QED BY <1>1, <1>2, <1>3, <1>4, <1>5, <1>6 DEF Next

(* The invariant of the list of timers: types, the list and, through the   *)
(* walk of EXITED, the owners.                                             *)
THEOREM ListInvariant == Spec => []ListInv
<1>1. Init => ListInv
  BY InitList
<1>2. ListInv /\ [Next]_vars => ListInv'
  BY StepList
<1>3. QED BY <1>1, <1>2, PTL DEF Spec

(* The list of timers stays a list, and a timer marked as expired is off   *)
(* it, through stops, resets, expirations and exits of processes.          *)
THEOREM TimersAreListed == Spec => []ListHoldsOnce
<1>1. ListInv => ListHoldsOnce
  BY DEF ListInv
<1>2. QED BY <1>1, ListInvariant, PTL

(* The timers of an exited process are off the list when etimer_process    *)
(* has handled its exit.                                                   *)
THEOREM TimersAreOwned == Spec => []OwnersRun
<1>1. ListInv => OwnersRun
  BY Running DEF OwnersRun
<1>2. QED BY <1>1, ListInvariant, PTL

----------------------------------------------------------------------------
(* Ages *)

LEMMA ModRange ==
  ASSUME NEW x \in Int, -Wrap <= x, x < 2 * Wrap
  PROVE  x % Wrap = IF x < 0 THEN x + Wrap ELSE IF x < Wrap THEN x ELSE x - Wrap
BY ClockAssumption

LEMMA InitAges == Init => AgeInv
<1> SUFFICES ASSUME Init PROVE AgeInv
  OBVIOUS
<1>1. Range(timerlist) = {}
  BY DEF Init, Range
<1>2. \A t \in Timer : age[t] = Wrap /\ interval[t] = 0
  BY DEF Init
<1>3. QED BY <1>1, <1>2, ClockAssumption, Ticks DEF AgeInv, Aged

LEMMA TickAges ==
  ASSUME ListInv, AgeInv, Tick
  PROVE  AgeInv'
<1>1. now' = IF now + 1 < Wrap THEN now + 1 ELSE now + 1 - Wrap
  <2>1. now \in 0 .. Wrap - 1
    BY DEF ListInv, ListHoldsOnce, TypeOK, Clock
  <2>2. QED BY <2>1, ClockAssumption, ModRange DEF Tick
<1>2. /\ age' = [t \in Timer |-> IF age[t] < Wrap THEN age[t] + 1 ELSE Wrap]
      /\ UNCHANGED <<timerlist, start, interval>>
  BY DEF Tick
<1>3. ASSUME NEW t \in Timer PROVE Aged(t)'
  <2>1. Aged(t) /\ age'[t] = IF age[t] < Wrap THEN age[t] + 1 ELSE Wrap
    BY <1>2 DEF AgeInv
  <2>2. QED BY <1>1, <1>2, <2>1, Numbers, ClockAssumption, Ticks DEF Aged
<1>4. ASSUME NEW t \in Range(timerlist) PROVE age'[t] <= Wrap - 2
  <2>1. t \in Timer /\ age[t] < Wrap - 2
    BY ListFacts DEF Tick, Prompt
  <2>2. age'[t] = age[t] + 1
    BY <1>2, <2>1, Numbers, ClockAssumption
  <2>3. QED BY <2>1, <2>2, Numbers, ClockAssumption
<1>5. QED BY <1>2, <1>3, <1>4 DEF AgeInv

LEMMA SameAges ==
  ASSUME AgeInv, UNCHANGED <<now, start, interval, age>>,
         Range(timerlist') \subseteq Range(timerlist)
  PROVE  AgeInv'
<1>1. \A t \in Timer : Aged(t)'
  BY DEF AgeInv, Aged
<1>2. QED BY <1>1 DEF AgeInv

\* A timer is set with the start s and the interval k, a ticks ago.
LEMMA SetAges ==
  ASSUME ListInv, AgeInv, NEW t \in Timer, UNCHANGED now,
         Range(timerlist') \subseteq Range(timerlist) \cup {t},
         NEW s \in Clock, start' = [start EXCEPT ![t] = s],
         NEW a \in Int, age' = [age EXCEPT ![t] = a], a <= Wrap - 2,
         s + a - now \in {-Wrap, 0, Wrap},
         interval'[t] - a <= MaxTicks,
         \A u \in Timer : u # t => interval'[u] = interval[u]
  PROVE  AgeInv'
<1>1. start'[t] = s /\ age'[t] = a
  BY DEF ListInv, ListHoldsOnce, TypeOK
<1>2. \A u \in Timer : u # t => start'[u] = start[u] /\ age'[u] = age[u]
  BY DEF ListInv, ListHoldsOnce, TypeOK
<1>3. ASSUME NEW u \in Timer PROVE Aged(u)'
  BY <1>1, <1>2 DEF AgeInv, Aged
<1>4. ASSUME NEW u \in Range(timerlist') PROVE age'[u] <= Wrap - 2
  <2>1. u = t \/ (u # t /\ u \in Range(timerlist) /\ u \in Timer)
    BY ListFacts
  <2>2. QED BY <1>1, <1>2, <2>1 DEF AgeInv
<1>5. QED BY <1>3, <1>4 DEF AgeInv

LEMMA EtimerSetAges ==
  ASSUME ListInv, AgeInv, NEW p \in Proc, NEW t \in Timer,
         (\E i \in Intervals : EtimerSet(p, t, i)) \/ EtimerRestart(p, t)
  PROVE  AgeInv'
<1>1. /\ p \in running /\ pc = Main /\ AddTimer(p, t)
      /\ start' = [start EXCEPT ![t] = now] /\ age' = [age EXCEPT ![t] = 0]
  BY DEF EtimerSet, EtimerRestart
<1>2. Range(timerlist') = Range(timerlist) \cup {t} /\ now' = now
  BY <1>1, AddTimerList DEF AddTimer
<1>3. /\ interval'[t] \in Intervals \cup {0}
      /\ \A u \in Timer : u # t => interval'[u] = interval[u]
  BY DEF EtimerSet, EtimerRestart, ListInv, ListHoldsOnce, TypeOK
<1> DEFINE s == now
           a == 0
<1>4. interval'[t] - a <= MaxTicks
  <2>1. /\ interval'[t] \in Nat /\ Ahead \in Nat /\ MaxTicks \in Nat
        /\ interval'[t] + Ahead <= MaxTicks
    <3>1. \A i \in Intervals \cup {0} : i \in Nat /\ i + Ahead <= MaxTicks
      BY IntervalAssumption
    <3>2. QED BY <1>3, <3>1, Ticks, IntervalAssumption, Zenon
  <2>2. QED BY <2>1
<1>5. /\ s \in Clock /\ s + a - now \in {-Wrap, 0, Wrap}
      /\ a \in Int /\ a <= Wrap - 2
  BY ClockAssumption DEF ListInv, ListHoldsOnce, TypeOK, Clock
<1>6. start' = [start EXCEPT ![t] = s] /\ age' = [age EXCEPT ![t] = a]
  BY <1>1
<1> HIDE DEF s, a
<1>7. QED BY <1>2, <1>3, <1>4, <1>5, <1>6, SetAges

LEMMA EtimerResetAges ==
  ASSUME ListInv, AgeInv, NEW p \in Proc, NEW t \in Timer, NEW i \in Intervals,
         EtimerReset(p, t, i)
  PROVE  AgeInv'
<1> DEFINE s == (start[t] + interval[t]) % Wrap
           a == age[t] - interval[t]
<1>1. /\ p \in running /\ pc = Main /\ AddTimer(p, t)
      /\ start' = [start EXCEPT ![t] = s] /\ age' = [age EXCEPT ![t] = a]
      /\ interval' = [interval EXCEPT ![t] = i]
      /\ interval[t] <= age[t] /\ age[t] < Wrap /\ a < Wrap - 1
  BY DEF EtimerReset
<1>2. Range(timerlist') = Range(timerlist) \cup {t} /\ now' = now
  BY <1>1, AddTimerList DEF AddTimer
<1>3. interval'[t] = i /\ \A u \in Timer : u # t => interval'[u] = interval[u]
  BY <1>1 DEF ListInv, ListHoldsOnce, TypeOK
<1>4. a \in Int /\ a >= 0 /\ a <= Wrap - 2
  BY <1>1, Numbers, ClockAssumption
<1>5. i - a <= MaxTicks
  BY <1>4, Ticks, IntervalAssumption
<1>6. s = LET x == start[t] + interval[t] IN
          IF x < 0 THEN x + Wrap ELSE IF x < Wrap THEN x ELSE x - Wrap
  <2>1. start[t] + interval[t] \in -Wrap .. 2 * Wrap - 1
    BY Numbers, Ticks, ClockAssumption, IntervalAssumption
  <2>2. QED BY <2>1, ClockAssumption, ModRange
<1>7. s \in Clock /\ s + a - now \in {-Wrap, 0, Wrap}
  <2>1. start[t] + age[t] - now \in {-Wrap, 0, Wrap}
    BY <1>1 DEF AgeInv, Aged
  <2>2. QED BY <1>1, <1>4, <1>6, <2>1, Numbers, Ticks, ClockAssumption DEF Clock
<1> HIDE DEF s, a
<1>8. QED BY <1>1, <1>2, <1>3, <1>4, <1>5, <1>7, SetAges

LEMMA EtimerAdjustAges ==
  ASSUME ListInv, AgeInv, NEW t \in Timer, NEW d \in Adjustments, EtimerAdjust(t, d)
  PROVE  AgeInv'
<1> DEFINE s == (start[t] + d) % Wrap
           a == age[t] - d
<1>1. /\ start' = [start EXCEPT ![t] = s] /\ age' = [age EXCEPT ![t] = a]
      /\ UNCHANGED <<now, timerlist, interval>>
      /\ t \in Range(timerlist) /\ age[t] < interval[t] /\ a >= -Ahead
  BY DEF EtimerAdjust, Pending
<1>2. d \in -MaxTicks .. MaxTicks
  BY AdjustAssumption
<1>3. a \in Int /\ a <= Wrap - 2
  BY <1>1, <1>2, Numbers, Ticks, ClockAssumption, IntervalAssumption
<1>4. interval[t] - a <= MaxTicks
  BY <1>1, <1>2, <1>3, Numbers, Ticks, IntervalAssumption
<1>5. s = LET x == start[t] + d IN
          IF x < 0 THEN x + Wrap ELSE IF x < Wrap THEN x ELSE x - Wrap
  <2>1. start[t] + d \in -Wrap .. 2 * Wrap - 1
    BY <1>2, Numbers, Ticks, ClockAssumption
  <2>2. QED BY <2>1, ClockAssumption, ModRange
<1>6. s \in Clock /\ s + a - now \in {-Wrap, 0, Wrap}
  <2>1. start[t] + age[t] - now \in {-Wrap, 0, Wrap}
    BY <1>1, Numbers, Ticks, ClockAssumption, IntervalAssumption DEF AgeInv, Aged
  <2>2. QED
    BY <1>1, <1>2, <1>3, <1>5, <2>1, Numbers, Ticks, ClockAssumption,
       IntervalAssumption DEF Clock
<1> HIDE DEF s, a
<1>7. QED BY <1>1, <1>3, <1>4, <1>6, SetAges

LEMMA StepAges ==
  ASSUME ListInv, AgeInv, [Next]_vars
  PROVE  AgeInv'
<1>1. CASE Tick
  BY <1>1, TickAges
<1>2. CASE Operation /\ ~\E t \in Timer : EtimerStop(t)
  BY <1>2, EtimerSetAges, EtimerResetAges, EtimerAdjustAges DEF Operation
<1>3. CASE \/ EtimerProcess \/ UpdateTime \/ System \/ UNCHANGED vars
           \/ \E t \in Timer : EtimerStop(t)
  <2>1. UNCHANGED <<now, start, interval, age>>
    BY <1>3 DEF EtimerProcess, UpdateTime, System, vars, EtimerStop, Poll, ScanEnd,
       ScanSkip, ScanPost, ScanFull, DropTimer, DropEnd, UpdateRead, UpdateWrite,
       DoEvent, PostOther, Exit, Start
  <2>2. Range(timerlist') \subseteq Range(timerlist)
    <3>1. CASE timerlist' = timerlist
      BY <3>1
    <3>2. CASE \E i \in DOMAIN timerlist : timerlist' = RemoveAt(timerlist, i)
      BY <3>2, PlaceRemoved
    <3>3. CASE \E t \in Timer : timerlist' = RemoveFirst(timerlist, t)
      BY <3>3, ListFacts, RemoveFirstKeeps
    <3>4. CASE ScanPost \/ DropTimer
      <4>1. pc.i \in DOMAIN timerlist
        BY <3>4, MainThread, ListFacts
           DEF ListInv, ListHoldsOnce, TypeOK, ScanPost, DropTimer
      <4>2. QED BY <3>1, <3>2, <3>4, <4>1 DEF ScanPost, DropTimer
    <3>5. QED
      BY <1>3, <3>1, <3>3, <3>4 DEF EtimerProcess, UpdateTime, System, vars, EtimerStop,
         Poll, ScanEnd, ScanSkip, ScanFull, DropEnd, UpdateRead, UpdateWrite,
         DoEvent, PostOther, Exit, Start
  <2>3. QED BY <2>1, <2>2, SameAges
<1>4. QED BY <1>1, <1>2, <1>3 DEF Next

\* What timer_expired computes, unless the start is more than a tick ahead.
LEMMA ElapsedIsAge ==
  ASSUME ListInv, AgeInv, NEW t \in Range(timerlist), age[t] >= -1
  PROVE  (now - start[t] + 1) % Wrap = age[t] + 1
<1> DEFINE x == now - start[t] + 1
<1>1. t \in Timer /\ age[t] <= Wrap - 2 /\ age[t] \in Int /\ age[t] < Wrap
  BY ListFacts, Numbers, ClockAssumption DEF AgeInv
<1>2. start[t] + age[t] - now \in {-Wrap, 0, Wrap}
  BY <1>1 DEF AgeInv, Aged
<1>3. x \in Int /\ -Wrap <= x /\ x < 2 * Wrap
  BY <1>1, Numbers, ClockAssumption
<1>4. x = age[t] + 1 \/ x = age[t] + 1 + Wrap \/ x = age[t] + 1 - Wrap
  BY <1>1, <1>2, Numbers, ClockAssumption
<1> HIDE DEF x
<1>5. x % Wrap = IF x < 0 THEN x + Wrap ELSE IF x < Wrap THEN x ELSE x - Wrap
  BY <1>3, ModRange
<1>6. x % Wrap = age[t] + 1
  BY <1>1, <1>3, <1>4, <1>5, ClockAssumption
<1>7. QED BY <1>6 DEF x

LEMMA NotExpiredIsLive ==
  ASSUME ListInv, AgeInv, NEW t \in Range(timerlist), ~Expired(t)
  PROVE  Live(t)
<1>1. t \in Timer
  BY ListFacts
<1>2. interval[t] \in Nat /\ age[t] \in Int
  BY <1>1, Numbers
<1>3. CASE age[t] < -1
  BY <1>2, <1>3 DEF Live
<1>4. CASE age[t] >= -1
  <2>1. ~(interval[t] < age[t] + 1)
    BY <1>4, ElapsedIsAge DEF Expired
  <2>2. QED BY <1>2, <2>1 DEF Live
<1>5. QED BY <1>2, <1>3, <1>4

LEMMA ExpiredIsDue ==
  ASSUME Ahead <= 1, ListInv, AgeInv, NEW t \in Range(timerlist), Expired(t)
  PROVE  age[t] >= interval[t]
<1>1. t \in Timer
  BY ListFacts
<1>2. interval[t] \in Nat /\ age[t] \in Int /\ age[t] >= -1
  BY <1>1, Numbers, IntervalAssumption
<1>3. interval[t] < age[t] + 1
  BY <1>2, ElapsedIsAge DEF Expired
<1>4. QED BY <1>2, <1>3

(* The arithmetic modulo Wrap finds every timer's age.                     *)
THEOREM AgesInvariant == Spec => [](ListInv /\ AgeInv)
<1>1. Init => ListInv /\ AgeInv
  BY InitList, InitAges
<1>2. (ListInv /\ AgeInv) /\ [Next]_vars => (ListInv /\ AgeInv)'
  BY StepList, StepAges
<1>3. QED BY <1>1, <1>2, PTL DEF Spec

LEMMA EarlyStep ==
  ASSUME Ahead <= 1, ListInv, AgeInv, [Next]_vars, NEW t \in Timer, Pending(t),
         Len(queue') > Len(queue), queue'[Len(queue')].t = t
  PROVE  age[t] >= interval[t]
<1>1. queue \in Seq(TimerEvent) /\ Len(queue) \in Nat
  BY DEF ListInv, ListHoldsOnce, TypeOK, Queue!TypeOK
<1>2. CASE ScanPost
  <2> DEFINE u == timerlist[pc.i]
             e == [p |-> owner[u], t |-> u]
  <2>1. /\ Expired(u) /\ queue' = Append(queue, e)
        /\ pc.i \in DOMAIN timerlist
    BY <1>2, MainThread, ListFacts
       DEF ListInv, ListHoldsOnce, TypeOK, ScanPost, Queue!Post
  <2>2. u \in Range(timerlist) /\ e.t = u
    BY <2>1 DEF Range
  <2> HIDE DEF u, e
  <2>3. queue'[Len(queue')] = e
    BY <1>1, <2>1
  <2>4. QED BY <2>1, <2>2, <2>3, ExpiredIsDue
<1>3. CASE PostOther
  <2> DEFINE e == [p |-> NULL, t |-> NULL]
  <2>1. queue' = Append(queue, e) /\ e.t = NULL
    BY <1>3 DEF PostOther, Queue!Post
  <2> HIDE DEF e
  <2>2. queue'[Len(queue')] = e
    BY <1>1, <2>1
  <2>3. QED BY <2>1, <2>2, TimerAssumption
<1>4. CASE DoEvent
  <2>1. queue # <<>> /\ queue' = Tail(queue)
    BY <1>4 DEF DoEvent, Queue!Take
  <2>2. Len(queue') = Len(queue) - 1
    BY <1>1, <2>1
  <2>3. QED BY <1>1, <2>2
<1>5. CASE ~(ScanPost \/ PostOther \/ DoEvent)
  <2>1. queue' = queue
    BY <1>5 DEF Next, EtimerProcess, UpdateTime, Operation, System, vars, Tick,
       Poll, ScanEnd, ScanSkip, ScanFull, DropTimer, DropEnd, UpdateRead, UpdateWrite,
       EtimerSet, EtimerReset, EtimerRestart, AddTimer, EtimerAdjust, EtimerStop,
       Exit, Start
  <2>2. QED BY <1>1, <2>1
<1>6. QED BY <1>2, <1>3, <1>4, <1>5

(* Where no timer's start is put more than a tick ahead of the clock, no   *)
(* event is posted for a timer before its interval has passed.             *)
THEOREM TimersAreNotEarly ==
  ASSUME Ahead <= 1
  PROVE  Spec => NeverEarly
<1>1. ListInv /\ AgeInv /\ [Next]_vars
        => [\A t \in Timer : Pending(t) /\ Len(queue') > Len(queue)
                        /\ queue'[Len(queue')].t = t => age[t] >= interval[t]]_vars
  BY EarlyStep
<1>2. QED BY <1>1, AgesInvariant, PTL DEF Spec, NeverEarly

----------------------------------------------------------------------------
(* Polls *)

LEMMA InitPolls == Init => PollInv
<1> SUFFICES ASSUME Init PROVE PollInv
  OBVIOUS
<1>1. timerlist = <<>> /\ Range(timerlist) = {} /\ DOMAIN timerlist = {}
  BY DEF Init, Range
<1>2. pc.at = "main"
  BY MainThread DEF Init
<1>3. QED BY <1>1, <1>2 DEF PollInv

\* The ticks that t still has are those from now to start[t] + interval[t].
LEMMA TicksLeft ==
  ASSUME ListInv, AgeInv, NEW t \in Timer, Live(t)
  PROVE  /\ interval[t] - age[t] \in 1 .. MaxTicks
         /\ start[t] + interval[t] - now - (interval[t] - age[t]) \in {-Wrap, 0, Wrap}
         /\ Remaining(t) = interval[t] - age[t]
<1>1. age[t] < Wrap
  BY Numbers, Ticks, ClockAssumption, IntervalAssumption DEF Live
<1>2. start[t] + age[t] - now \in {-Wrap, 0, Wrap} /\ interval[t] - age[t] <= MaxTicks
  BY <1>1 DEF AgeInv, Aged
<1>3. interval[t] - age[t] \in 1 .. MaxTicks
  BY <1>2, Numbers, Ticks DEF Live
<1>4. start[t] + interval[t] - now - (interval[t] - age[t]) \in {-Wrap, 0, Wrap}
  BY <1>2, Numbers, ClockAssumption
<1> DEFINE r == interval[t] - age[t]
           x == start[t] + interval[t] - now
<1>5. x \in Int /\ -Wrap <= x /\ x < 2 * Wrap
  BY Numbers, Ticks, ClockAssumption, IntervalAssumption
<1>6. r \in 1 .. MaxTicks /\ r < Wrap /\ x - r \in {-Wrap, 0, Wrap}
  BY <1>3, <1>4, Numbers, Ticks, ClockAssumption
<1>7. Remaining(t) = x % Wrap
  BY DEF Remaining
<1> HIDE DEF x, r
<1>8. x % Wrap = IF x < 0 THEN x + Wrap ELSE IF x < Wrap THEN x ELSE x - Wrap
  BY <1>5, ModRange
<1>9. x % Wrap = r
  BY <1>5, <1>6, <1>8, Ticks, ClockAssumption
<1>10. Remaining(t) = interval[t] - age[t]
  BY <1>7, <1>9 DEF r
<1>11. QED BY <1>3, <1>4, <1>10

\* A timer that is live and in time for next_expiration will be heard of.
LEMMA InTimeIsHeard ==
  ASSUME ListInv, AgeInv, NEW t \in Timer, Live(t), InTime(next_expiration, t)
  PROVE  Heard(t)
<1> DEFINE r == interval[t] - age[t]
           x == start[t] + interval[t] - next_expiration
           y == next_expiration - now
<1>1. r \in 1 .. MaxTicks /\ start[t] + interval[t] - now - r \in {-Wrap, 0, Wrap}
  BY TicksLeft
<1>2. x % Wrap <= MaxTicks
  BY DEF InTime
<1>3. x \in Int /\ -Wrap <= x /\ x < 2 * Wrap
  BY Numbers, Ticks, ClockAssumption, IntervalAssumption
<1>4. y \in Int /\ -Wrap <= y /\ y < 2 * Wrap
  BY Numbers, Ticks, ClockAssumption
<1>5. x + y - r \in {-Wrap, 0, Wrap}
  BY <1>1, Numbers, Ticks, ClockAssumption
<1> HIDE DEF x, y, r
<1>6. x % Wrap = IF x < 0 THEN x + Wrap ELSE IF x < Wrap THEN x ELSE x - Wrap
  BY <1>3, ModRange
<1>7. y % Wrap = IF y < 0 THEN y + Wrap ELSE IF y < Wrap THEN y ELSE y - Wrap
  BY <1>4, ModRange
<1>8. y % Wrap <= r \/ y % Wrap > MaxTicks + 2
  BY <1>1, <1>2, <1>3, <1>4, <1>5, <1>6, <1>7, Ticks, ClockAssumption
<1>9. QED BY <1>8 DEF Heard, y, r

\* The interrupt asks for a poll before a timer that is heard of is due.
LEMMA HeardTick ==
  ASSUME ListInv, AgeInv, Tick, NEW t \in Range(timerlist), Live(t), Heard(t)
  PROVE  needspoll' \/ (Live(t)' /\ Heard(t)')
<1> DEFINE r == interval[t] - age[t]
           d == (next_expiration - now) % Wrap
           x == next_expiration - now
           y == next_expiration - now' - 1
           z == next_expiration - now'
<1>1. t \in Timer /\ r \in 1 .. MaxTicks
  BY ListFacts, TicksLeft
<1>2. d <= r \/ d > MaxTicks + 2
  BY DEF Heard
<1>3. now' = IF now + 1 < Wrap THEN now + 1 ELSE now + 1 - Wrap
  <2>1. now \in 0 .. Wrap - 1
    BY DEF ListInv, ListHoldsOnce, TypeOK, Clock
  <2>2. QED BY <2>1, ClockAssumption, ModRange DEF Tick
<1>4. /\ interval' = interval /\ next_expiration' = next_expiration
      /\ age'[t] = age[t] + 1
  <2>1. age[t] < Wrap
    BY <1>1, Numbers, Ticks, ClockAssumption, IntervalAssumption DEF Live
  <2>2. QED BY <1>1, <2>1 DEF Tick
<1>5. /\ x \in Int /\ -Wrap <= x /\ x < 2 * Wrap
      /\ y \in Int /\ -Wrap <= y /\ y < 2 * Wrap
      /\ z \in Int /\ -Wrap <= z /\ z < 2 * Wrap
  BY <1>1, <1>3, Numbers, Ticks, ClockAssumption
<1>6. z - x + 1 \in {-Wrap, 0, Wrap} /\ y = z - 1
  BY <1>1, <1>3, Numbers, ClockAssumption
<1>7. y % Wrap > MaxTicks => needspoll'
  <2>1. timerlist # <<>>
    BY DEF Range
  <2>2. QED BY <2>1 DEF Tick, Due
<1>8. d = x % Wrap
  OBVIOUS
<1> HIDE DEF x, y, z, d
<1>9. x % Wrap = IF x < 0 THEN x + Wrap ELSE IF x < Wrap THEN x ELSE x - Wrap
  BY <1>5, ModRange
<1>10. y % Wrap = IF y < 0 THEN y + Wrap ELSE IF y < Wrap THEN y ELSE y - Wrap
  BY <1>5, ModRange
<1>11. z % Wrap = IF z < 0 THEN z + Wrap ELSE IF z < Wrap THEN z ELSE z - Wrap
  BY <1>5, ModRange
<1>12. z % Wrap = IF d = 0 THEN Wrap - 1 ELSE d - 1
  BY <1>5, <1>6, <1>8, <1>9, <1>11, ClockAssumption
<1>13. y % Wrap = IF z % Wrap = 0 THEN Wrap - 1 ELSE (z % Wrap) - 1
  BY <1>5, <1>6, <1>10, <1>11, ClockAssumption
<1>14. d \in 0 .. Wrap - 1
  BY <1>5, <1>8, <1>9, ClockAssumption
<1>15. CASE d > MaxTicks + 2 \/ d = 0 \/ d = 1
  <2>1. y % Wrap > MaxTicks
    BY <1>12, <1>13, <1>14, <1>15, Ticks, ClockAssumption
  <2>2. QED BY <1>7, <2>1
<1>16. CASE d <= r /\ d > 1
  <2>1. r > 1 /\ z % Wrap <= r - 1
    BY <1>1, <1>12, <1>14, <1>16, Ticks
  <2>2. Live(t)'
    BY <1>1, <1>4, <2>1, Numbers DEF Live
  <2>3. Heard(t)'
    BY <1>1, <1>4, <2>1, Numbers DEF Heard, z
  <2>4. QED BY <2>2, <2>3
<1>17. QED BY <1>2, <1>14, <1>15, <1>16

LEMMA Places ==
  ASSUME ListInv
  PROVE  \/ pc.at \in {"main", "scan", "drop"}
         \/ Updating(Main) /\ ~Updating(Scan(1))
         \/ Updating(Scan(1)) /\ ~Updating(Main)
<1>1. Main # Scan(1)
  <2>1. Main.at # Scan(1).at
    BY MainThread
  <2>2. QED BY <2>1
<1>2. QED BY <1>1, MainThread DEF ListInv, ListHoldsOnce, TypeOK, Updating

\* Unless etimer_process is at work, no timer is due and not polled for.
LEMMA AllLive ==
  ASSUME PollInv, ~needspoll, pc.at # "scan", ~Updating(Scan(1)),
         NEW t \in Range(timerlist)
  PROVE  Live(t)
<1>1. PICK i \in DOMAIN timerlist : t = timerlist[i]
  BY DEF Range
<1>2. QED BY <1>1 DEF PollInv, Passed

LEMMA TickPolls ==
  ASSUME ListInv, AgeInv, PollInv, Tick
  PROVE  PollInv'
<1>1. UNCHANGED <<timerlist, start, interval, next_expiration, pc>>
  BY DEF Tick
<1>2. ~needspoll' => ~needspoll
  BY DEF Tick
<1>3. ASSUME NEW t \in Range(timerlist), Live(t)' PROVE Live(t)
  <2>1. t \in Timer /\ age'[t] = IF age[t] < Wrap THEN age[t] + 1 ELSE Wrap
    BY ListFacts DEF Tick
  <2>2. QED BY <1>1, <1>3, <2>1, Numbers, ClockAssumption DEF Live
<1>4. ASSUME NEW n, NEW t \in Range(timerlist), InTime(n, t)
      PROVE  (Live(t)' => (start'[t] + interval'[t] - n) % Wrap <= MaxTicks)
  BY <1>1, <1>3, <1>4 DEF InTime
<1>5. pc'.at \in {"main", "scan", "drop"} =>
        \A t \in Range(timerlist') : InTime(next_expiration, t)'
  BY <1>1, <1>4 DEF PollInv, InTime
<1>6. pc'.at = "write" => \A t \in Range(timerlist') : InTime(pc.v, t)'
  BY <1>1, <1>4 DEF PollInv, InTime
<1>7. ASSUME ~needspoll', NEW i \in DOMAIN timerlist, Passed(i)
      PROVE  Live(timerlist[i])'
  <2>0. PICK t \in Range(timerlist) : t = timerlist[i]
    BY DEF Range
  <2>1. t \in Range(timerlist) /\ t \in Timer /\ Live(t)
    BY <1>2, <1>7, <2>0, ListFacts DEF PollInv
  <2>2. Heard(t)
    <3>1. CASE pc.at \in {"main", "scan", "drop"}
      <4>1. InTime(next_expiration, t)
        BY <2>1, <3>1 DEF PollInv
      <4>2. QED BY <2>1, <4>1, InTimeIsHeard
    <3>2. CASE Updating(Main)
      BY <1>2, <1>7, <2>1, <3>2 DEF PollInv
    <3>3. QED BY <1>7, <3>1, <3>2, Places DEF Passed
  <2>3. Live(t)'
    BY <1>7, <2>1, <2>2, HeardTick
  <2>4. QED BY <1>1, <2>0, <2>3
<1>8. ASSUME ~needspoll', Updating(Main), NEW t \in Range(timerlist)
      PROVE  Heard(t)'
  <2>1. Heard(t)
    BY <1>2, <1>8 DEF PollInv
  <2>2. pc.at # "scan" /\ ~Updating(Scan(1))
    BY <1>8, Places DEF Updating
  <2>3. Live(t)
    BY <1>2, <1>8, <2>2, AllLive
  <2>4. QED BY <1>8, <2>1, <2>3, HeardTick
<1>9. /\ \A i : Passed(i)' <=> Passed(i)
      /\ Updating(Main)' <=> Updating(Main)
  BY <1>1 DEF Passed, Updating
<1>10. ASSUME ~needspoll', NEW i \in DOMAIN timerlist', Passed(i)'
       PROVE  Live(timerlist[i])'
  BY <1>1, <1>7, <1>9, <1>10
<1>11. ASSUME ~needspoll', Updating(Main)', NEW t \in Range(timerlist')
       PROVE  Heard(t)'
  BY <1>1, <1>8, <1>9, <1>11
<1>12. QED BY <1>1, <1>5, <1>6, <1>10, <1>11 DEF PollInv

\* A step that leaves the times alone, and is not at a place of the walk.
LEMMA Quiet ==
  ASSUME PollInv, pc.at \in {"main", "drop"}, pc'.at \in {"main", "drop"},
         Range(timerlist') \subseteq Range(timerlist),
         UNCHANGED <<now, start, interval, next_expiration, needspoll, age>>
  PROVE  PollInv'
<1>1. \A t \in Range(timerlist) : InTime(next_expiration, t)'
  BY DEF PollInv, InTime, Live
<1>2. ASSUME ~needspoll', NEW i \in DOMAIN timerlist' PROVE Live(timerlist[i])'
  <2>1. timerlist'[i] \in Range(timerlist)
    BY DEF Range
  <2>2. Live(timerlist'[i])
    BY <1>2, <2>1, AllLive DEF Updating
  <2>3. QED BY <2>2 DEF Live
<1>3. ~Updating(Main)' /\ pc'.at # "write"
  BY DEF Updating
<1>4. \A t \in Range(timerlist') : InTime(next_expiration, t)'
  BY <1>1
<1>5. QED BY <1>2, <1>3, <1>4 DEF PollInv

\* add_timer asks for a poll, and then there is nothing to show.
LEMMA AddTimerPolls ==
  ASSUME NEW p, NEW t, AddTimer(p, t)
  PROVE  PollInv'
<1>1. pc'.at = "update" /\ needspoll'
  BY MainThread DEF AddTimer
<1>2. QED BY <1>1 DEF PollInv

LEMMA WalkPolls ==
  ASSUME ListInv, AgeInv, PollInv, EtimerProcess
  PROVE  PollInv'
<1>1. CASE Poll
  <2>1. /\ pc.at = "main" /\ pc' = Scan(1) /\ ~needspoll'
        /\ UNCHANGED <<timerlist, start, interval, next_expiration, age>>
    BY <1>1, MainThread DEF Poll
  <2>2. \A t \in Range(timerlist) : InTime(next_expiration, t)'
    BY <2>1 DEF PollInv, InTime, Live
  <2>3. ~Updating(Main)' /\ pc'.at = "scan" /\ \A i \in DOMAIN timerlist' : ~Passed(i)'
    BY <2>1, MainThread, ListFacts DEF Updating, Passed
  <2>4. QED BY <2>1, <2>2, <2>3 DEF PollInv
<1>2. CASE ScanEnd \/ ScanSkip \/ ScanFull
  <2>1. /\ pc.at = "scan" /\ pc.i \in 1 .. Len(timerlist) + 1
        /\ UNCHANGED <<timerlist, start, interval, next_expiration, age>>
        /\ needspoll' = needspoll \/ needspoll'
    BY <1>2, MainThread
       DEF ListInv, ListHoldsOnce, TypeOK, ScanEnd, ScanSkip, ScanFull, PollAgain
  <2>2. \A t \in Range(timerlist') : InTime(next_expiration, t)'
    BY <2>1 DEF PollInv, InTime, Live
  <2>3. pc'.at \in {"main", "scan"}
    BY <1>2, MainThread DEF ScanEnd, ScanSkip, ScanFull
  <2>4. ASSUME ~needspoll', NEW i \in DOMAIN timerlist', Passed(i)'
        PROVE  Live(timerlist[i])'
    <3>1. ~needspoll
      BY <2>1, <2>4
    <3>2. ~ScanFull
      BY <2>4 DEF ScanFull, PollAgain
    <3>3. i < pc.i \/ (i = pc.i /\ ScanSkip)
      <4>1. CASE ScanEnd
        BY <2>1, <4>1, ListFacts DEF ScanEnd
      <4>2. CASE ScanSkip
        <5>1. pc' = Scan(pc.i + 1)
          BY <4>2 DEF ScanSkip
        <5>2. i < pc.i + 1
          BY <2>4, <5>1, MainThread DEF Passed
        <5>3. QED BY <2>1, <4>2, <5>2, ListFacts
      <4>3. QED BY <1>2, <3>2, <4>1, <4>2
    <3>4. Live(timerlist[i])
      <4>1. CASE i < pc.i
        <5>1. Passed(i)
          BY <2>1, <4>1 DEF Passed, Updating
        <5>2. QED BY <2>1, <2>4, <3>1, <5>1 DEF PollInv
      <4>2. CASE i = pc.i /\ ScanSkip
        <5>1. timerlist[i] \in Range(timerlist) /\ ~Expired(timerlist[i])
          BY <2>1, <2>4, <4>2 DEF ScanSkip, Range
        <5>2. QED BY <5>1, NotExpiredIsLive
      <4>3. QED BY <3>3, <4>1, <4>2
    <3>5. QED BY <2>1, <3>4 DEF Live
  <2>5. ~Updating(Main)' /\ pc'.at # "write"
    BY <2>3 DEF Updating
  <2>6. QED BY <2>2, <2>4, <2>5 DEF PollInv
<1>3. CASE ScanPost
  <2>1. pc' = Update(Scan(1)) /\ Main # Scan(1)
    <3>1. Main.at # Scan(1).at
      BY MainThread
    <3>2. QED BY <1>3, <3>1 DEF ScanPost
  <2>2. pc'.at = "update" /\ Updating(Scan(1))' /\ ~Updating(Main)'
    BY <2>1, MainThread DEF Updating
  <2>3. QED BY <2>2 DEF PollInv, Passed
<1>4. CASE DropTimer \/ DropEnd
  <2>1. /\ pc.at \in {"main", "drop"} /\ pc'.at \in {"main", "drop"}
        /\ UNCHANGED <<now, start, interval, next_expiration, needspoll, age>>
    BY <1>4, MainThread DEF DropTimer, DropEnd
  <2>2. Range(timerlist') \subseteq Range(timerlist)
    <3>1. CASE DropEnd
      BY <3>1 DEF DropEnd
    <3>2. CASE DropTimer
      <4>1. pc.i \in DOMAIN timerlist
        BY <3>2, MainThread, ListFacts DEF ListInv, ListHoldsOnce, TypeOK, DropTimer
      <4>2. QED BY <3>2, <4>1, PlaceRemoved DEF DropTimer
    <3>3. QED BY <1>4, <3>1, <3>2
  <2>3. QED BY <2>1, <2>2, Quiet
<1>5. QED BY <1>1, <1>2, <1>3, <1>4 DEF EtimerProcess

\* What update_time computes is in time for every timer that is live.
LEMMA NearestIsInTime ==
  ASSUME ListInv, AgeInv, NEW t \in Range(timerlist)
  PROVE  InTime(NearestExpiration, t)
<1> SUFFICES ASSUME Live(t)
             PROVE  (start[t] + interval[t] - NearestExpiration) % Wrap <= MaxTicks
  BY DEF InTime
<1>1. timerlist # <<>>
  BY DEF Range
<1>2. PICK m \in Clock : /\ NearestExpiration = (now + m) % Wrap
                         /\ \A u \in Range(timerlist) : m <= Remaining(u)
  BY <1>1, NearestIsTime
<1> DEFINE r == interval[t] - age[t]
           n == NearestExpiration
           x == start[t] + interval[t] - n
           y == now + m
<1>3. /\ t \in Timer /\ r \in 1 .. MaxTicks /\ Remaining(t) = r
      /\ start[t] + interval[t] - now - r \in {-Wrap, 0, Wrap}
  BY ListFacts, TicksLeft
<1>4. m \in Nat /\ m <= r
  BY <1>2, <1>3 DEF Clock
<1>5. y \in Int /\ -Wrap <= y /\ y < 2 * Wrap /\ n = y % Wrap
  <2>1. now \in 0 .. Wrap - 1 /\ m \in 0 .. Wrap - 1
    BY <1>2, <1>3, Numbers DEF Clock
  <2>2. n = y % Wrap
    BY <1>2
  <2>3. QED BY <2>1, <2>2, ClockAssumption
<1> HIDE DEF y, n
<1>6. n = IF y < 0 THEN y + Wrap ELSE IF y < Wrap THEN y ELSE y - Wrap
  BY <1>5, ModRange
<1>7. n \in 0 .. Wrap - 1 /\ n - now - m \in {-Wrap, 0, Wrap}
  BY <1>3, <1>4, <1>5, <1>6, Numbers, Ticks, ClockAssumption DEF y
<1>8. x \in Int /\ -Wrap <= x /\ x < 2 * Wrap
  BY <1>3, <1>7, Numbers, Ticks, ClockAssumption, IntervalAssumption
<1>9. x - r + m \in {-2 * Wrap, -Wrap, 0, Wrap, 2 * Wrap}
  BY <1>3, <1>4, <1>7, Numbers, ClockAssumption
<1> HIDE DEF x, r
<1>10. x % Wrap = IF x < 0 THEN x + Wrap ELSE IF x < Wrap THEN x ELSE x - Wrap
  BY <1>8, ModRange
<1>11. x % Wrap = r - m
  BY <1>3, <1>4, <1>8, <1>9, <1>10, Ticks, ClockAssumption
<1>12. x % Wrap <= MaxTicks
  BY <1>3, <1>4, <1>11, Ticks
<1>13. QED BY <1>12 DEF x, n

LEMMA UpdatePolls ==
  ASSUME ListInv, AgeInv, PollInv, UpdateTime
  PROVE  PollInv'
<1>1. CASE UpdateRead
  <2>1. /\ pc.at = "update" /\ pc' = Write(NearestExpiration, pc.after)
        /\ UNCHANGED <<now, timerlist, start, interval, next_expiration, needspoll, age>>
    BY <1>1 DEF UpdateRead
  <2>2. pc'.at = "write" /\ pc'.v = NearestExpiration /\ pc'.after = pc.after
    BY <2>1, MainThread
  <2>3. \A a : Updating(a)' <=> Updating(a)
    BY <2>1, <2>2 DEF Updating
  <2>4. ASSUME NEW t \in Range(timerlist) PROVE InTime(pc.v, t)'
    <3>1. InTime(NearestExpiration, t)
      BY NearestIsInTime
    <3>2. QED BY <2>1, <2>2, <3>1 DEF InTime, Live
  <2>5. ASSUME ~needspoll', NEW i \in DOMAIN timerlist', Passed(i)'
        PROVE  Live(timerlist[i])'
    <3>1. ~needspoll /\ Passed(i)
      BY <2>1, <2>3, <2>5 DEF Passed
    <3>2. QED BY <2>1, <3>1 DEF PollInv, Live
  <2>6. ASSUME ~needspoll', Updating(Main)', NEW t \in Range(timerlist)
        PROVE  Heard(t)'
    <3>1. Heard(t)
      BY <2>1, <2>3, <2>6 DEF PollInv
    <3>2. QED BY <2>1, <3>1 DEF Heard
  <2>7. QED BY <2>1, <2>2, <2>4, <2>5, <2>6 DEF PollInv
<1>2. CASE UpdateWrite
  <2>1. /\ pc.at = "write" /\ next_expiration' = pc.v /\ pc' = pc.after
        /\ UNCHANGED <<now, timerlist, start, interval, needspoll, age>>
    BY <1>2 DEF UpdateWrite
  <2>2. pc.after \in {Main, Scan(1)}
    BY <2>1, MainThread DEF ListInv, ListHoldsOnce, TypeOK
  <2>3. ASSUME NEW t \in Range(timerlist) PROVE InTime(next_expiration, t)'
    <3>1. InTime(pc.v, t)
      BY <2>1 DEF PollInv
    <3>2. QED BY <2>1, <3>1 DEF InTime, Live
  <2>4. pc'.at \in {"main", "scan"} /\ ~Updating(Main)'
    BY <2>1, <2>2, MainThread DEF Updating
  <2>5. ASSUME ~needspoll', NEW i \in DOMAIN timerlist', Passed(i)'
        PROVE  Live(timerlist[i])'
    <3>1. CASE pc.after = Main
      <4>1. Updating(Main)
        BY <2>1, <3>1 DEF Updating
      <4>2. pc.at # "scan" /\ ~Updating(Scan(1))
        BY <2>1, <4>1, Places
      <4>3. timerlist[i] \in Range(timerlist)
        BY <2>1 DEF Range
      <4>4. Live(timerlist[i])
        BY <2>1, <2>5, <4>2, <4>3, AllLive
      <4>5. QED BY <2>1, <4>4 DEF Live
    <3>2. CASE pc.after = Scan(1)
      <4>1. i < 1
        BY <2>1, <2>5, <3>2, MainThread DEF Passed
      <4>2. QED BY <2>1, <2>5, <4>1, ListFacts
    <3>3. QED BY <2>2, <3>1, <3>2
  <2>6. QED BY <2>1, <2>3, <2>4, <2>5 DEF PollInv
<1>3. QED BY <1>1, <1>2 DEF UpdateTime

\* From the main loop to update_time, the timers that are left being heard of.
LEMMA ToUpdate ==
  ASSUME ListInv, AgeInv, PollInv, pc = Main, pc' = Update(Main),
         Range(timerlist') \subseteq Range(timerlist), needspoll' = needspoll,
         \A t \in Range(timerlist') : Live(t) /\ Heard(t) => Live(t)' /\ Heard(t)'
  PROVE  PollInv'
<1>1. pc.at = "main" /\ pc'.at = "update" /\ Updating(Main)'
  BY MainThread DEF Updating
<1>2. ASSUME ~needspoll, NEW t \in Range(timerlist') PROVE Live(t)' /\ Heard(t)'
  <2>1. t \in Range(timerlist) /\ t \in Timer
    BY ListFacts
  <2>2. Live(t)
    BY <1>1, <1>2, <2>1, AllLive DEF Updating
  <2>3. InTime(next_expiration, t)
    BY <1>1, <2>1 DEF PollInv
  <2>4. QED BY <2>1, <2>2, <2>3, InTimeIsHeard
<1>3. ASSUME ~needspoll', NEW i \in DOMAIN timerlist' PROVE Live(timerlist[i])'
  <2>1. PICK t \in Range(timerlist') : t = timerlist'[i]
    BY DEF Range
  <2>2. Live(t)'
    BY <1>2, <1>3
  <2>3. QED BY <2>1, <2>2 DEF Live
<1>4. QED BY <1>1, <1>2, <1>3 DEF PollInv

LEMMA OperationPolls ==
  ASSUME Adjustments \subseteq Nat, ListInv, AgeInv, PollInv, Operation
  PROVE  PollInv'
<1>1. CASE \E t \in Timer, p \in Proc : AddTimer(p, t)
  BY <1>1, AddTimerPolls
<1>2. ASSUME NEW t \in Timer, NEW d \in Adjustments, EtimerAdjust(t, d)
      PROVE  PollInv'
  <2>1. /\ pc = Main /\ pc' = Update(Main) /\ d \in Nat
        /\ age' = [age EXCEPT ![t] = age[t] - d]
        /\ UNCHANGED <<now, timerlist, interval, next_expiration, needspoll>>
    BY <1>2 DEF EtimerAdjust
  <2>2. ASSUME NEW u \in Range(timerlist), Live(u), Heard(u) PROVE Live(u)' /\ Heard(u)'
    <3>1. u \in Timer /\ age[u] \in Int /\ interval[u] \in Int
      BY ListFacts, Numbers
    <3>2. age'[u] \in Int /\ age'[u] <= age[u]
      BY <2>1, <3>1 DEF ListInv, ListHoldsOnce, TypeOK
    <3>3. Live(u)'
      BY <2>1, <2>2, <3>1, <3>2 DEF Live
    <3>4. (next_expiration - now) % Wrap \in Int
      <4>1. next_expiration - now \in Int
        BY <3>1, Numbers, ClockAssumption
      <4>2. QED BY <4>1, InClock, ClockAssumption DEF Clock
    <3>5. Heard(u)'
      BY <2>1, <2>2, <3>1, <3>2, <3>4, Ticks DEF Heard
    <3>6. QED BY <3>3, <3>5
  <2>3. QED BY <2>1, <2>2, ToUpdate
<1>3. ASSUME NEW t \in Timer, EtimerStop(t) PROVE PollInv'
  <2>1. /\ pc = Main /\ pc' \in {Main, Update(Main)}
        /\ UNCHANGED <<now, start, interval, next_expiration, needspoll, age>>
        /\ timerlist' = RemoveFirst(timerlist, t)
    BY <1>3 DEF EtimerStop
  <2>2. Range(timerlist') \subseteq Range(timerlist)
    BY <2>1, ListFacts, RemoveFirstKeeps
  <2>3. CASE pc' = Main
    BY <2>1, <2>2, <2>3, MainThread, Quiet
  <2>4. CASE pc' = Update(Main)
    <3>1. \A u : Live(u) /\ Heard(u) => Live(u)' /\ Heard(u)'
      BY <2>1 DEF Live, Heard
    <3>2. QED BY <2>1, <2>2, <2>4, <3>1, ToUpdate
  <2>5. QED BY <2>1, <2>3, <2>4
<1>4. QED BY <1>1, <1>2, <1>3 DEF Operation, EtimerSet, EtimerReset, EtimerRestart

LEMMA SystemPolls ==
  ASSUME PollInv, System
  PROVE  PollInv'
<1>1. /\ pc.at = "main" /\ pc'.at \in {"main", "drop"} /\ timerlist' = timerlist
      /\ UNCHANGED <<now, start, interval, next_expiration, needspoll, age>>
  BY MainThread DEF System, DoEvent, PostOther, Exit, Start
<1>2. QED BY <1>1, Quiet

LEMMA StutterPolls ==
  ASSUME PollInv, UNCHANGED vars
  PROVE  PollInv'
BY DEF vars, PollInv, InTime, Heard, Live, Passed, Updating

(* next_expiration is in time for every timer that is live, and none is    *)
(* due without a poll.                                                     *)
THEOREM PollsInvariant ==
  ASSUME Adjustments \subseteq Nat
  PROVE  Spec => [](ListInv /\ AgeInv /\ PollInv)
<1>1. Init => ListInv /\ AgeInv /\ PollInv
  BY InitList, InitAges, InitPolls
<1>2. (ListInv /\ AgeInv /\ PollInv) /\ [Next]_vars => (ListInv /\ AgeInv /\ PollInv)'
  BY StepList, StepAges, TickPolls, WalkPolls, UpdatePolls, OperationPolls, SystemPolls,
     StutterPolls DEF Next
<1>3. QED BY <1>1, <1>2, PTL DEF Spec

(* Where timers are adjusted to later times only, a timer that has expired *)
(* is never forgotten: a poll is requested while protothreads run.         *)
THEOREM ExpirationsArePolled ==
  ASSUME Adjustments \subseteq Nat
  PROVE  Spec => []ExpiredIsPolled
<1>1. ListInv /\ PollInv => ExpiredIsPolled
  <2> SUFFICES ASSUME ListInv, PollInv, pc = Main, NEW t \in Range(timerlist), ~needspoll
               PROVE  ~(age[t] >= interval[t])
    BY DEF ExpiredIsPolled
  <2>1. pc.at # "scan" /\ ~Updating(Scan(1))
    BY MainThread DEF Updating
  <2>2. Live(t) /\ t \in Timer
    BY <2>1, AllLive, ListFacts
  <2>3. QED BY <2>2, Numbers DEF Live
<1>2. QED BY <1>1, PollsInvariant, PTL

----------------------------------------------------------------------------
(* Callback timers, for every number of them and every size of the queue.  *)

Queued(c) == \E k \in DOMAIN queue : queue[k].t = c

CtimerInv ==
  /\ ListInv /\ running = Proc
  /\ ctimer_list \in Seq(Timer) /\ Distinct(ctimer_list)
  /\ initialized \in BOOLEAN /\ armed \subseteq Timer
  /\ Range(ctimer_list) \subseteq armed
  /\ ~initialized => timerlist = <<>>
  /\ initialized => \A c \in Range(ctimer_list) : Pending(c) \/ Queued(c)

LEMMA ListRemoveFacts ==
  ASSUME CtimerInv, NEW c \in Timer
  PROVE  /\ ListRemove(c) \in Seq(Timer) /\ Distinct(ListRemove(c))
         /\ Range(ListRemove(c)) = Range(ctimer_list) \ {c}
BY RemoveFirstKeeps DEF CtimerInv, ListRemove

LEMMA ListAddFacts ==
  ASSUME CtimerInv, NEW c \in Timer
  PROVE  /\ ListAdd(c) \in Seq(Timer) /\ Distinct(ListAdd(c))
         /\ Range(ListAdd(c)) = Range(ctimer_list) \cup {c}
BY ListRemoveFacts, AppendKeeps DEF ListAdd

LEMMA InitCtimers == CtimerInit => CtimerInv
<1> SUFFICES ASSUME CtimerInit PROVE CtimerInv
  OBVIOUS
<1>1. ListInv
  BY InitList DEF CtimerInit
<1>2. ctimer_list \in Seq(Timer) /\ Distinct(ctimer_list) /\ Range(ctimer_list) = {}
  BY DEF CtimerInit, Distinct, Range
<1>3. QED BY <1>1, <1>2 DEF CtimerInit, Init, CtimerInv

\* A timer that leaves the list of timers does so with an event in the queue.
LEMMA StaysDue ==
  ASSUME ListInv, running = Proc, Tick \/ EtimerProcess \/ UpdateTime \/ PostOther,
         NEW c \in Timer, Pending(c) \/ Queued(c)
  PROVE  Pending(c)' \/ Queued(c)'
<1>1. queue \in Seq(TimerEvent) /\ Len(queue) \in Nat /\ DOMAIN queue = 1 .. Len(queue)
  BY DEF ListInv, ListHoldsOnce, TypeOK, Queue!TypeOK
<1>2. CASE ScanPost
  <2> DEFINE u == timerlist[pc.i]
             e == [p |-> owner[u], t |-> u]
  <2>1. /\ pc.i \in DOMAIN timerlist /\ timerlist' = RemoveAt(timerlist, pc.i)
        /\ queue' = Append(queue, e)
    BY <1>2, MainThread, ListFacts
       DEF ListInv, ListHoldsOnce, TypeOK, ScanPost, Queue!Post
  <2>2. Range(timerlist') = Range(timerlist) \ {u}
    BY <2>1, PlaceRemoved
  <2>3. e.t = u
    OBVIOUS
  <2> HIDE DEF e, u
  <2>4. /\ DOMAIN queue' = 1 .. Len(queue) + 1 /\ queue'[Len(queue) + 1] = e
        /\ \A k \in DOMAIN queue : queue'[k] = queue[k]
    BY <1>1, <2>1
  <2>5. CASE c = u
    <3>1. Len(queue) + 1 \in DOMAIN queue'
      BY <1>1, <2>4
    <3>2. QED BY <2>3, <2>4, <2>5, <3>1 DEF Queued
  <2>6. CASE c # u /\ Pending(c)
    BY <2>2, <2>6 DEF Pending
  <2>7. CASE Queued(c)
    <3>1. PICK k \in DOMAIN queue : queue[k].t = c
      BY <2>7 DEF Queued
    <3>2. k \in DOMAIN queue' /\ queue'[k].t = c
      BY <1>1, <2>4, <3>1
    <3>3. QED BY <3>2 DEF Queued
  <2>8. QED BY <2>5, <2>6, <2>7
<1>3. CASE PostOther
  <2> DEFINE e == [p |-> NULL, t |-> NULL]
  <2>1. queue' = Append(queue, e) /\ timerlist' = timerlist
    BY <1>3 DEF PostOther, Queue!Post
  <2> HIDE DEF e
  <2>2. \A k \in DOMAIN queue : k \in DOMAIN queue' /\ queue'[k] = queue[k]
    BY <1>1, <2>1
  <2>3. QED BY <2>1, <2>2 DEF Pending, Queued
<1>4. CASE ~(ScanPost \/ PostOther)
  <2>1. ~DropTimer
    BY MainThread DEF DropTimer, ListInv, ListHoldsOnce, TypeOK
  <2>2. timerlist' = timerlist /\ queue' = queue
    BY <1>4, <2>1 DEF Tick, EtimerProcess, UpdateTime, Poll, ScanEnd, ScanSkip,
       ScanFull, DropEnd, UpdateRead, UpdateWrite
  <2>3. QED BY <2>2 DEF Pending, Queued
<1>5. QED BY <1>2, <1>3, <1>4

LEMMA TimersStep ==
  ASSUME CtimerInv, Tick \/ EtimerProcess \/ UpdateTime \/ PostOther, UNCHANGED cvars
  PROVE  CtimerInv'
<1>1. ListInv'
  BY StepList DEF Next, System, CtimerInv
<1>2. running' = running
  BY DEF Tick, EtimerProcess, UpdateTime, PostOther, Poll, ScanEnd, ScanSkip, ScanPost,
     ScanFull, DropTimer, DropEnd, UpdateRead, UpdateWrite
<1>3. ASSUME timerlist = <<>> PROVE timerlist' = <<>>
  <2>1. ~ScanPost /\ (DropTimer => timerlist' = timerlist)
    <3>1. pc.at \in {"scan", "drop"} => pc.i \in Nat /\ pc.i >= 1
      BY MainThread DEF CtimerInv, ListInv, ListHoldsOnce, TypeOK
    <3>2. Len(timerlist) = 0
      BY <1>3
    <3>3. QED BY <3>1, <3>2 DEF ScanPost, DropTimer
  <2>2. timerlist' = timerlist
    BY <2>1 DEF Tick, EtimerProcess, UpdateTime, PostOther, Poll, ScanEnd, ScanSkip,
       ScanFull, DropEnd, UpdateRead, UpdateWrite
  <2>3. QED BY <1>3, <2>2
<1>4. ASSUME initialized', NEW c \in Range(ctimer_list')
      PROVE  Pending(c)' \/ Queued(c)'
  <2>1. initialized /\ c \in Range(ctimer_list) /\ c \in Timer
    BY <1>4 DEF cvars, CtimerInv
  <2>2. QED BY <2>1, StaysDue DEF CtimerInv
<1>5. QED BY <1>1, <1>2, <1>3, <1>4 DEF CtimerInv, cvars

\* The other timers, and the events in the queue, are as before.
LEMMA SetStep ==
  ASSUME CtimerInv, ListInv', running' = running, NEW c \in Timer, Rearm(c),
         queue' = queue, IF initialized THEN Range(timerlist') = Range(timerlist) \cup {c}
                                        ELSE timerlist' = timerlist
  PROVE  CtimerInv'
<1>1. /\ ctimer_list' = ListAdd(c) /\ armed' = armed \cup {c}
      /\ initialized' = initialized
  BY DEF Rearm
<1>2. /\ ctimer_list' \in Seq(Timer) /\ Distinct(ctimer_list')
      /\ Range(ctimer_list') = Range(ctimer_list) \cup {c}
  BY <1>1, ListAddFacts
<1>3. ASSUME initialized', NEW d \in Range(ctimer_list') PROVE Pending(d)' \/ Queued(d)'
  <2>1. initialized /\ (d = c \/ Pending(d) \/ Queued(d))
    BY <1>1, <1>2, <1>3 DEF CtimerInv
  <2>2. QED BY <2>1 DEF Pending, Queued
<1>4. QED BY <1>1, <1>2, <1>3 DEF CtimerInv

\* An operation before ctimer_init, on a list of timers that is empty.
LEMMA BeforeInit ==
  ASSUME CtimerInv, ~initialized, pc = Main,
         UNCHANGED <<now, timerlist, start, next_expiration, needspoll, queue,
                     running, pc, age>>,
         interval' \in [Timer -> Intervals \cup {0}],
         owner' \in [Timer -> Proc \cup {NULL}]
  PROVE  ListInv'
<1>1. timerlist' = <<>> /\ Range(timerlist') = {}
  BY DEF CtimerInv, Range
<1>2. Queue!TypeOK'
  BY DEF CtimerInv, ListInv, ListHoldsOnce, TypeOK, Queue!TypeOK
<1>3. TypeOK'
  BY <1>1, <1>2, Zenon DEF CtimerInv, ListInv, ListHoldsOnce, TypeOK
<1>4. Distinct(timerlist')
  BY <1>1 DEF Distinct
<1>5. QED BY <1>1, <1>3, <1>4, NewList

LEMMA SetCtimers ==
  ASSUME CtimerInv, NEW c \in Timer,
         (\E i \in Intervals : CtimerSet(c, i)) \/ CtimerReset(c) \/ CtimerRestart(c)
  PROVE  CtimerInv'
<1>1. Rearm(c) /\ pc = Main
  BY DEF CtimerSet, CtimerReset, CtimerRestart, EtimerSet, EtimerReset, EtimerRestart
<1>2. CASE initialized
  <2>1. AddTimer(ctimer_process, c) /\ ctimer_process \in running
    BY <1>2, CtimerAssumption DEF CtimerSet, CtimerReset, CtimerRestart, EtimerSet,
       EtimerReset, EtimerRestart, CtimerInv
  <2>2. Range(timerlist') = Range(timerlist) \cup {c}
    BY <1>1, <2>1, AddTimerList DEF CtimerInv
  <2>3. queue' = queue /\ running' = running
    BY <2>1 DEF AddTimer
  <2>4. ctimer_process \in Proc /\ interval[c] \in Intervals \cup {0}
    BY CtimerAssumption, Numbers DEF CtimerInv
  <2>5. ListInv'
    BY <1>2, <2>4, EtimerSetList, EtimerResetList, EtimerRestartList
       DEF CtimerSet, CtimerReset, CtimerRestart, CtimerInv
  <2>6. QED BY <1>1, <1>2, <2>2, <2>3, <2>5, SetStep
<1>3. CASE ~initialized
  <2>1. /\ UNCHANGED <<now, timerlist, start, owner, next_expiration, needspoll, queue,
                       running, pc, age>>
        /\ interval' = interval \/ \E i \in Intervals : interval' = [interval EXCEPT ![c] = i]
    BY <1>3 DEF CtimerSet, CtimerReset, CtimerRestart, vars
  <2>2. /\ interval' \in [Timer -> Intervals \cup {0}]
        /\ owner' \in [Timer -> Proc \cup {NULL}]
    BY <2>1 DEF CtimerInv, ListInv, ListHoldsOnce, TypeOK
  <2>3. ListInv'
    BY <1>1, <1>3, <2>1, <2>2, BeforeInit
  <2>4. QED BY <1>1, <1>3, <2>1, <2>3, SetStep
<1>4. QED BY <1>2, <1>3

LEMMA StopCtimer ==
  ASSUME CtimerInv, NEW c \in Timer, CtimerStop(c)
  PROVE  CtimerInv'
<1>1. /\ ctimer_list' = ListRemove(c) /\ armed' = armed \ {c}
      /\ initialized' = initialized /\ pc = Main
      /\ UNCHANGED <<now, start, interval, next_expiration, needspoll, queue,
                     running, age>>
  BY DEF CtimerStop, Removed, EtimerStop
<1>2. /\ ctimer_list' \in Seq(Timer) /\ Distinct(ctimer_list')
      /\ Range(ctimer_list') = Range(ctimer_list) \ {c}
  BY <1>1, ListRemoveFacts
<1>3. CASE initialized
  <2>1. EtimerStop(c)
    BY <1>3 DEF CtimerStop
  <2>2. ListInv'
    BY <2>1, EtimerStopList DEF CtimerInv
  <2>3. Range(timerlist') = Range(timerlist) \ {c}
    BY <2>1, ListFacts, RemoveFirstKeeps DEF EtimerStop, CtimerInv
  <2>4. ASSUME NEW d \in Range(ctimer_list') PROVE Pending(d)' \/ Queued(d)'
    <3>1. d # c /\ (Pending(d) \/ Queued(d))
      BY <1>2, <1>3 DEF CtimerInv
    <3>2. QED BY <1>1, <2>3, <3>1 DEF Pending, Queued
  <2>5. QED BY <1>1, <1>2, <1>3, <2>2, <2>4 DEF CtimerInv
<1>4. CASE ~initialized
  <2>1. owner' = [owner EXCEPT ![c] = NULL] /\ UNCHANGED <<timerlist, pc>>
    BY <1>4 DEF CtimerStop
  <2>2. /\ interval' \in [Timer -> Intervals \cup {0}]
        /\ owner' \in [Timer -> Proc \cup {NULL}]
    BY <1>1, <2>1 DEF CtimerInv, ListInv, ListHoldsOnce, TypeOK
  <2>3. ListInv'
    BY <1>1, <1>4, <2>1, <2>2, BeforeInit
  <2>4. QED BY <1>1, <1>2, <1>4, <2>1, <2>3 DEF CtimerInv
<1>5. QED BY <1>3, <1>4

\* The event that is taken was that of the ctimer which leaves the list, if any.
LEMMA DeliverStep ==
  ASSUME CtimerInv, Deliver
  PROVE  CtimerInv'
<1> DEFINE c == Head(queue).t
<1>1. /\ queue # <<>> /\ queue' = Tail(queue) /\ initialized' = initialized
      /\ UNCHANGED <<now, timerlist, start, interval, owner, next_expiration,
                     needspoll, running, pc, age>>
      /\ IF Calls(c) THEN ctimer_list' = ListRemove(c) /\ armed' = armed \ {c}
                     ELSE UNCHANGED <<ctimer_list, armed>>
  BY DEF Deliver, DoEvent, Queue!Take, Handled
<1>2. ListInv'
  BY EventsList DEF Deliver, CtimerInv
<1>3. Calls(c) <=> c \in Range(ctimer_list)
  BY <1>1 DEF Calls
<1>4. /\ queue \in Seq(TimerEvent) /\ Len(queue) \in Nat /\ Len(queue) > 0
      /\ DOMAIN queue = 1 .. Len(queue) /\ DOMAIN queue' = 1 .. Len(queue) - 1
      /\ \A k \in 1 .. Len(queue) - 1 : queue'[k] = queue[k + 1]
      /\ c = queue[1].t
  BY <1>1 DEF CtimerInv, ListInv, ListHoldsOnce, TypeOK, Queue!TypeOK
<1> HIDE DEF c
<1>5. /\ ctimer_list' \in Seq(Timer) /\ Distinct(ctimer_list') /\ armed' \subseteq Timer
      /\ Range(ctimer_list') = Range(ctimer_list) \ {c}
      /\ Range(ctimer_list') \subseteq armed'
  <2>1. CASE Calls(c)
    <3>1. c \in Timer
      BY <1>3, <2>1 DEF CtimerInv
    <3>2. QED BY <1>1, <2>1, <3>1, ListRemoveFacts DEF CtimerInv
  <2>2. CASE ~Calls(c)
    BY <1>1, <1>3, <2>2 DEF CtimerInv
  <2>3. QED BY <2>1, <2>2
<1>6. ASSUME initialized, NEW d \in Range(ctimer_list') PROVE Pending(d)' \/ Queued(d)'
  <2>1. d # c /\ (Pending(d) \/ Queued(d))
    BY <1>5, <1>6 DEF CtimerInv
  <2>2. CASE Pending(d)
    BY <1>1, <2>2 DEF Pending
  <2>3. CASE Queued(d)
    <3>1. PICK k \in 1 .. Len(queue) : queue[k].t = d
      BY <1>4, <2>3 DEF Queued
    <3>2. k # 1
      BY <1>4, <2>1, <3>1
    <3>3. k - 1 \in 1 .. Len(queue) - 1 /\ (k - 1) + 1 = k
      BY <1>4, <3>2
    <3>4. k - 1 \in DOMAIN queue' /\ queue'[k - 1].t = d
      BY <1>4, <3>1, <3>3
    <3>5. QED BY <3>4 DEF Queued
  <2>4. QED BY <2>1, <2>2, <2>3
<1>7. QED BY <1>1, <1>2, <1>5, <1>6 DEF CtimerInv

LEMMA CtimerStep ==
  ASSUME CtimerInv, [CtimerNext]_<<vars, cvars>>
  PROVE  CtimerInv'
<1>1. CASE (Tick \/ EtimerProcess \/ UpdateTime \/ PostOther) /\ UNCHANGED cvars
  BY <1>1, TimersStep
<1>2. CASE StartCtimers
  <2>1. /\ ListInv' /\ running' = running
    BY <1>2, StutterList DEF StartCtimers, CtimerInv, vars
  <2>2. /\ ctimer_list' = <<>> /\ Range(ctimer_list') = {} /\ Distinct(ctimer_list')
        /\ initialized' = TRUE /\ armed' = {}
    BY <1>2 DEF StartCtimers, Range, Distinct
  <2>3. QED BY <2>1, <2>2 DEF CtimerInv
<1>3. CASE Deliver
  BY <1>3, DeliverStep
<1>4. CASE \E c \in Timer : \/ \E i \in Intervals : CtimerSet(c, i)
                            \/ CtimerReset(c)
                            \/ CtimerRestart(c)
                            \/ CtimerStop(c)
  BY <1>4, SetCtimers, StopCtimer
<1>5. CASE UNCHANGED <<vars, cvars>>
  <2>1. ListInv'
    BY <1>5, StutterList DEF CtimerInv
  <2>2. UNCHANGED <<timerlist, queue, running, ctimer_list, initialized, armed>>
    BY <1>5 DEF vars, cvars
  <2>3. QED BY <2>1, <2>2 DEF CtimerInv, Pending, Queued
<1>6. QED BY <1>1, <1>2, <1>3, <1>4, <1>5 DEF CtimerNext

(* The invariant of the callback timers, with that of the event timers    *)
(* under them.                                                             *)
THEOREM CtimerInvariant == CtimerSpec => []CtimerInv
<1>1. QED BY InitCtimers, CtimerStep, PTL DEF CtimerSpec

(* The callback of every ctimer that is set is still to come: its etimer   *)
(* is pending, or the event of it is in the queue.                         *)
THEOREM CallbacksCome == CtimerSpec => []CallbackWillCome
<1>1. CtimerInv => CallbackWillCome
  BY DEF CtimerInv, CallbackWillCome, CtimerTypeOK, ListInv, ListHoldsOnce, Queued
<1>2. QED BY <1>1, CtimerInvariant, PTL

(* A ctimer that is stopped is not called, and one that is set once is     *)
(* called once, whatever events of it are queued.                          *)
THEOREM CalledAtMostOnce == CtimerSpec => CalledOncePerSet
<1>1. CtimerInv /\ [CtimerNext]_<<vars, cvars>>
        => [\A c \in Timer : Calls(c) /\ Len(queue') < Len(queue) => c \in armed]_
             <<vars, cvars>>
  BY DEF CtimerInv, Calls
<1>2. QED BY <1>1, CtimerInvariant, PTL DEF CtimerSpec, CalledOncePerSet

=============================================================================
