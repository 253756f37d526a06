------------------------------- MODULE Etimer -------------------------------
(***************************************************************************)
(* Event timers: core/sys/etimer.c with core/sys/timer.c, over a clock     *)
(* whose interrupt asks for polls, and over the kernel's event queue,      *)
(* which EventQueue states and Process.tla implements.                     *)
(*                                                                         *)
(* The code has two actors.  The main thread runs etimer_process, when it  *)
(* is polled, and the protothreads that set, stop and wait for timers.     *)
(* The clock interrupt advances the time between any two steps of the main *)
(* thread and polls etimer_process when next_expiration has been reached,  *)
(* so each reading of the clock that the main thread acts on is a step.    *)
(***************************************************************************)
EXTENDS Integers, SequencesExt

CONSTANTS
  Timer,        \* the struct etimers of the image
  Proc,         \* the processes that use them
  NULL,         \* the null pointer, and PROCESS_NONE
  NumEvents,    \* PROCESS_CONF_NUMEVENTS
  Wrap,         \* the number of values of clock_time_t
  Intervals,    \* the intervals timers are set to
  Adjustments,  \* the differences etimer_adjust is called with
  Ahead         \* how far it may move a timer's start past the clock

MaxTicks == (Wrap - 1) \div 2      \* the clock drivers' MAX_TICKS

ASSUME TimerAssumption == NULL \notin Proc \cup Timer
ASSUME ClockAssumption == Wrap \in Nat /\ Wrap > 3 /\ Wrap % 2 = 0
\* What is MaxTicks ahead the clock interrupt takes for the past: a timer may
\* be that far from next_expiration, which an exited process can leave behind.
ASSUME IntervalAssumption == /\ Intervals \subseteq Nat /\ Ahead \in Nat
                             /\ \A i \in Intervals \cup {0} : i + Ahead <= MaxTicks
ASSUME AdjustAssumption == Adjustments \subseteq -MaxTicks .. MaxTicks
ASSUME QueueAssumption == NumEvents \in Nat \ {0}

VARIABLES
  now,              \* the clock
  timerlist,        \* the linked list, head first
  start, interval,  \* t->timer
  owner,            \* t->p
  next_expiration,
  needspoll,        \* of etimer_process
  queue,            \* the kernel's event queue
  running,          \* the processes that are running
  pc,               \* where the main thread is
  age               \* auxiliary: the ticks since start, Wrap for longer

vars == <<now, timerlist, start, interval, owner, next_expiration, needspoll,
          queue, running, pc, age>>

----------------------------------------------------------------------------
(* Types *)

Clock == 0 .. Wrap - 1

\* An event in the queue: a TIMER event with its timer, or any other.
TimerEvent == [p : Proc, t : Timer] \cup [p : {NULL}, t : {NULL}]
Queue == INSTANCE EventQueue WITH Entry <- TimerEvent, Capacity <- NumEvents

\* The main thread executes a protothread or the main loop, or is inside
\* etimer_process at a timer of the list, for a poll or for the exit of a
\* process, or inside update_time.
Main == [at |-> "main"]
Scan(i) == [at |-> "scan", i |-> i]
Drop(p, i) == [at |-> "drop", p |-> p, i |-> i]
Update(after) == [at |-> "update", after |-> after]
Write(v, after) == [at |-> "write", v |-> v, after |-> after]

TypeOK ==
  /\ now \in Clock /\ next_expiration \in Clock
  /\ timerlist \in Seq(Timer)
  /\ start \in [Timer -> Clock]
  /\ interval \in [Timer -> Intervals \cup {0}]
  /\ owner \in [Timer -> Proc \cup {NULL}]
  /\ needspoll \in BOOLEAN
  /\ Queue!TypeOK
  /\ running \subseteq Proc
  /\ \/ pc = Main
     \/ pc.at = "scan" /\ pc.i \in 1 .. Len(timerlist) + 1
     \/ pc.at = "drop" /\ pc.p \in Proc \ running /\ pc.i \in 1 .. Len(timerlist) + 1
     \/ pc.at = "update" /\ pc.after \in {Main, Scan(1)}
     \/ pc.at = "write" /\ pc.v \in Clock /\ pc.after \in {Main, Scan(1)}
  /\ age \in [Timer -> -Ahead .. Wrap]

----------------------------------------------------------------------------
(* Time: clock_time_t is unsigned, so all of it is modulo Wrap. *)

Pending(t) == t \in Range(timerlist)

\* timer_expired
ExpiredEarly(t) == interval[t] <= (now - start[t] + 1) % Wrap
Expired(t) == interval[t] < (now - start[t] + 1) % Wrap

\* timer_remaining; update_time computes the same distance
Remaining(t) == (start[t] + interval[t] - now) % Wrap

\* What update_time sets next_expiration to.
NearestExpiration ==
  IF timerlist = <<>> THEN 0
  ELSE (now + Min({Remaining(t) : t \in Range(timerlist)})) % Wrap

----------------------------------------------------------------------------

Init ==
  /\ now = 0
  /\ timerlist = <<>>
  /\ start = [t \in Timer |-> 0]
  /\ interval = [t \in Timer |-> 0]
  /\ owner = [t \in Timer |-> NULL]
  /\ next_expiration = 0
  /\ needspoll = FALSE
  /\ queue = <<>>
  /\ running = Proc
  /\ pc = Main
  /\ age = [t \in Timer |-> Wrap]

----------------------------------------------------------------------------
(* The clock interrupt *)

\* etimer_process runs before a timer that is due looks as if it were not:
\* timer_expired() cannot tell a timer that expired Wrap - interval ticks ago
\* from one that has just been set.
Prompt == \A t \in Range(timerlist) : age[t] < Wrap - 2

Due(time) == timerlist # <<>> /\ (next_expiration - time - 1) % Wrap > MaxTicks

Tick ==
  /\ Prompt
  /\ now' = (now + 1) % Wrap
  /\ needspoll' = (needspoll \/ Due(now'))
  /\ age' = [t \in Timer |-> IF age[t] < Wrap THEN age[t] + 1 ELSE Wrap]
  /\ UNCHANGED <<timerlist, start, interval, owner, next_expiration, queue,
                 running, pc>>

----------------------------------------------------------------------------
(* etimer_process, and update_time that it shares with the operations *)

\* do_poll calls etimer_process; needspoll is cleared first.
Poll ==
  /\ pc = Main /\ needspoll
  /\ needspoll' = FALSE
  /\ pc' = Scan(1)
  /\ UNCHANGED <<now, timerlist, start, interval, owner, next_expiration, queue,
                 running, age>>

ScanEnd ==
  /\ pc.at = "scan" /\ pc.i > Len(timerlist)
  /\ pc' = Main
  /\ UNCHANGED <<now, timerlist, start, interval, owner, next_expiration,
                 needspoll, queue, running, age>>

ScanSkip ==
  /\ pc.at = "scan" /\ pc.i <= Len(timerlist)
  /\ ~Expired(timerlist[pc.i])
  /\ pc' = Scan(pc.i + 1)
  /\ UNCHANGED <<now, timerlist, start, interval, owner, next_expiration,
                 needspoll, queue, running, age>>

\* The event is posted: the timer leaves the list and the walk starts again.
ScanPost ==
  /\ pc.at = "scan" /\ pc.i <= Len(timerlist)
  /\ LET t == timerlist[pc.i] IN
     /\ Expired(t)
     /\ Queue!Post([p |-> owner[t], t |-> t])
     /\ owner' = [owner EXCEPT ![t] = NULL]
  /\ timerlist' = RemoveAt(timerlist, pc.i)
  /\ pc' = Update(Scan(1))
  /\ UNCHANGED <<now, start, interval, next_expiration, needspoll, running, age>>

\* The queue is full: the timer stays, and another poll is requested.
NoPollAgain == needspoll
PollAgain == TRUE

ScanFull ==
  /\ pc.at = "scan" /\ pc.i <= Len(timerlist)
  /\ Expired(timerlist[pc.i])
  /\ Queue!Full
  /\ needspoll' = PollAgain
  /\ pc' = Scan(pc.i + 1)
  /\ UNCHANGED <<now, timerlist, start, interval, owner, next_expiration, queue,
                 running, age>>

\* update_time: the clock is read once, and next_expiration written last.
UpdateRead ==
  /\ pc.at = "update"
  /\ pc' = Write(NearestExpiration, pc.after)
  /\ UNCHANGED <<now, timerlist, start, interval, owner, next_expiration,
                 needspoll, queue, running, age>>

UpdateWrite ==
  /\ pc.at = "write"
  /\ next_expiration' = pc.v
  /\ pc' = pc.after
  /\ UNCHANGED <<now, timerlist, start, interval, owner, needspoll, queue,
                 running, age>>

----------------------------------------------------------------------------
(* The operations, called by the protothread of process p *)

NeverOn(t) == FALSE
AlreadyOn(t) == owner[t] # NULL /\ Pending(t)

AddTimer(p, t) ==
  /\ needspoll' = TRUE
  /\ owner' = [owner EXCEPT ![t] = p]
  /\ timerlist' = IF AlreadyOn(t) THEN timerlist ELSE <<t>> \o timerlist
  /\ pc' = Update(Main)
  /\ UNCHANGED <<now, next_expiration, queue, running>>

EtimerSet(p, t, i) ==
  /\ pc = Main /\ p \in running
  /\ start' = [start EXCEPT ![t] = now]
  /\ interval' = [interval EXCEPT ![t] = i]
  /\ age' = [age EXCEPT ![t] = 0]
  /\ AddTimer(p, t)

\* etimer_reset, and etimer_reset_with_new_interval when i is another interval.
\* timer.c: "Must not be executed before timer expired"; nor so late after it
\* that the new expiration is a lap behind.
EtimerReset(p, t, i) ==
  /\ pc = Main /\ p \in running
  /\ owner[t] = NULL
  /\ interval[t] <= age[t] /\ age[t] < Wrap
  /\ age[t] - interval[t] < Wrap - 1
  /\ start' = [start EXCEPT ![t] = (start[t] + interval[t]) % Wrap]
  /\ interval' = [interval EXCEPT ![t] = i]
  /\ age' = [age EXCEPT ![t] = age[t] - interval[t]]
  /\ AddTimer(p, t)

EtimerRestart(p, t) ==
  /\ pc = Main /\ p \in running
  /\ start' = [start EXCEPT ![t] = now]
  /\ age' = [age EXCEPT ![t] = 0]
  /\ AddTimer(p, t)
  /\ UNCHANGED interval

\* Only a timer that is not yet due is adjusted.  No poll is requested.
EtimerAdjust(t, d) ==
  /\ pc = Main /\ Pending(t) /\ age[t] < interval[t]
  /\ age[t] - d >= -Ahead
  /\ start' = [start EXCEPT ![t] = (start[t] + d) % Wrap]
  /\ age' = [age EXCEPT ![t] = age[t] - d]
  /\ pc' = Update(Main)
  /\ UNCHANGED <<now, timerlist, interval, owner, next_expiration, needspoll,
                 queue, running>>

\* A timer that is not on the list is only marked as expired.
EtimerStop(t) ==
  /\ pc = Main
  /\ owner' = [owner EXCEPT ![t] = NULL]
  /\ timerlist' = RemoveFirst(timerlist, t)
  /\ pc' = IF Pending(t) THEN Update(Main) ELSE Main
  /\ UNCHANGED <<now, start, interval, next_expiration, needspoll, queue,
                 running, age>>

----------------------------------------------------------------------------
(* The rest of the system: other events, the delivery of the oldest one,   *)
(* and processes that exit and are started again.                          *)

PostOther ==
  /\ pc = Main
  /\ Queue!Post([p |-> NULL, t |-> NULL])
  /\ UNCHANGED <<now, timerlist, start, interval, owner, next_expiration,
                 needspoll, running, pc, age>>

DoEvent ==
  /\ pc = Main
  /\ Queue!Take
  /\ UNCHANGED <<now, timerlist, start, interval, owner, next_expiration,
                 needspoll, running, pc, age>>

\* etimer_process gets EXITED and walks along the list to drop the timers of
\* the exited process; their owner and next_expiration stay as they are.
Exit(p) ==
  /\ pc = Main /\ p \in running
  /\ running' = running \ {p}
  /\ pc' = Drop(p, 1)
  /\ UNCHANGED <<now, timerlist, start, interval, owner, next_expiration,
                 needspoll, queue, age>>

\* After a timer that was dropped comes the one that is now in its place.
AfterDropNext == pc.i + 1
AfterDrop == pc.i

DropTimer ==
  /\ pc.at = "drop" /\ pc.i <= Len(timerlist)
  /\ IF owner[timerlist[pc.i]] = pc.p
     THEN timerlist' = RemoveAt(timerlist, pc.i) /\ pc' = Drop(pc.p, AfterDrop)
     ELSE pc' = Drop(pc.p, pc.i + 1) /\ UNCHANGED timerlist
  /\ UNCHANGED <<now, start, interval, owner, next_expiration, needspoll, queue,
                 running, age>>

DropEnd ==
  /\ pc.at = "drop" /\ pc.i > Len(timerlist)
  /\ pc' = Main
  /\ UNCHANGED <<now, timerlist, start, interval, owner, next_expiration,
                 needspoll, queue, running, age>>

Start(p) ==
  /\ pc = Main /\ p \notin running
  /\ running' = running \cup {p}
  /\ UNCHANGED <<now, timerlist, start, interval, owner, next_expiration,
                 needspoll, queue, pc, age>>

----------------------------------------------------------------------------

EtimerProcess == \/ Poll \/ ScanEnd \/ ScanSkip \/ ScanPost \/ ScanFull
                 \/ DropTimer \/ DropEnd

UpdateTime == UpdateRead \/ UpdateWrite

Operation ==
  \E t \in Timer :
    \/ \E p \in Proc : \/ \E i \in Intervals : EtimerSet(p, t, i)
                       \/ \E i \in Intervals : EtimerReset(p, t, i)
                       \/ EtimerRestart(p, t)
    \/ \E d \in Adjustments : EtimerAdjust(t, d)
    \/ EtimerStop(t)

System == \/ DoEvent \/ PostOther
          \/ \E p \in Proc : Exit(p) \/ Start(p)

Next == Tick \/ EtimerProcess \/ UpdateTime \/ Operation \/ System

Spec == Init /\ [][Next]_vars

----------------------------------------------------------------------------
(* Properties *)

(* The state is well typed, all times within the clock's width.  And the   *)
(* list holds each timer once: the code looks for a timer on the list only *)
(* if its p is not PROCESS_NONE, so a timer marked as expired must be off  *)
(* the list, or the next etimer_set ties the list into a ring.             *)
ListHoldsOnce ==
  /\ TypeOK
  /\ \A i, j \in DOMAIN timerlist : timerlist[i] = timerlist[j] => i = j
  /\ \A t \in Timer : owner[t] = NULL => ~Pending(t)

(* A timer that has expired is never forgotten: while protothreads run, a  *)
(* poll of etimer_process is requested if a pending timer is due, through  *)
(* interrupts at any point, a full queue, the wrap of the clock, and       *)
(* timers that are stopped or whose process exits.                         *)
ExpiredIsPolled ==
  pc = Main => \A t \in Range(timerlist) : age[t] >= interval[t] => needspoll

(* No timer belongs to a process that has exited, once etimer_process has  *)
(* been told: its event would go to nobody, or to a later incarnation that *)
(* did not set it.                                                         *)
OwnersRun == pc.at # "drop" => \A t \in Range(timerlist) : owner[t] \in running

(* An event is posted for a timer only when its interval has passed since  *)
(* it was started: never early, whatever the clock's wrap does.            *)
NeverEarly ==
  [][\A t \in Timer : Pending(t) /\ Len(queue') > Len(queue)
                        /\ queue'[Len(queue')].t = t => age[t] >= interval[t]]_vars

=============================================================================
