------------------------------ MODULE Process ------------------------------
(***************************************************************************)
(* The process kernel, core/sys/process.c: the process list, the calls of  *)
(* protothreads, the poll requests that interrupts make, and the queue of  *)
(* asynchronous events.                                                    *)
(*                                                                         *)
(* Everything but interrupts runs on one C stack, and the hard part of the *)
(* kernel is that its loops over the list call protothreads, which call    *)
(* the kernel again: so the model keeps that stack.  A frame is a kernel   *)
(* loop (do_poll, the broadcast loop of do_event, the EXITED loop of       *)
(* exit_process), a process_post_synch that has a caller to restore, or an *)
(* activation of a protothread.  A step runs the top frame up to the next  *)
(* call or return; between any two steps an interrupt may call             *)
(* process_poll.  What a protothread does is arbitrary: between its call   *)
(* and its return it may use any service of the kernel any number of times.*)
(***************************************************************************)
EXTENDS Naturals, Sequences

CONSTANTS
  Proc,         \* the process structures linked into the image
  NULL,         \* the null pointer
  NumEvents,    \* PROCESS_CONF_NUMEVENTS
  PostEvents,   \* the events handlers post asynchronously to one process
  Broadcasts,   \* whether handlers post to PROCESS_BROADCAST
  Started,      \* the processes handlers start
  Exited,       \* the processes handlers exit
  SelfExit,     \* whether a handler exits the process that executes it
  Synched,      \* the processes handlers post synchronously to
  Polled,       \* the processes handlers poll
  Interrupted   \* the processes interrupt handlers poll

BROADCAST == NULL          \* process.h: #define PROCESS_BROADCAST NULL
ByteRange == 256           \* process_num_events_t is an unsigned char

ASSUME NullAssumption == NULL \notin Proc
\* The sum of fevent and nevents, taken in a byte, must not wrap.
ASSUME NumEventsAssumption == /\ NumEvents \in Nat \ {0}
                              /\ 2 * NumEvents - 2 < ByteRange
\* No code of the repository posts INIT or POLL through the queue.
ASSUME PostEventsAssumption == PostEvents \subseteq {"EVENT", "EXIT"}
ASSUME EnvironmentAssumption ==
  /\ Started \subseteq Proc /\ Exited \subseteq Proc /\ Synched \subseteq Proc
  /\ Polled \subseteq Proc /\ Interrupted \subseteq Proc
  /\ Broadcasts \in BOOLEAN /\ SelfExit \in BOOLEAN

VARIABLES
  process_list,     \* the linked list, head first
  next,             \* what p->next still holds once p is off the list
  state,            \* p->state
  needspoll,        \* p->needspoll
  poll_requested,
  process_current,
  events, nevents, fevent,
  stack,            \* the C stack above main(), the running frame last
  phase             \* where main() is: starting processes, or in process_run

queueVars == <<events, nevents, fevent>>
pollVars  == <<needspoll, poll_requested>>
listVars  == <<process_list, next>>
vars == <<listVars, state, pollVars, process_current, queueVars, stack, phase>>

----------------------------------------------------------------------------
(* Types *)

Pointer == Proc \cup {NULL}
Event == {"INIT", "POLL", "EXIT", "EXITED", "EVENT"}
EventData == [ev : Event, p : Pointer]

ThreadFrames == [kind : {"thread"}, p : Proc, ev : Event]
ByeFrames    == [kind : {"bye"}, p : Proc]
SynchFrames  == [kind : {"synch"}, caller : Pointer]
PollFrames   == [kind : {"poll"}, at : {"visit"}, p : Pointer]
                  \cup [kind : {"poll"}, at : {"called"}, p : Proc]
BcastFrames  == [kind : {"bcast"}, at : {"check"}, p : Pointer, ev : Event]
                  \cup [kind : {"bcast"}, at : {"call", "called"}, p : Proc,
                        ev : Event]
ExitFrames   == [kind : {"exit"}, at : {"visit", "exit", "unlink"}, p : Proc,
                 from : Pointer, old : Pointer, q : Pointer]
                  \cup [kind : {"exit"}, at : {"called"}, p : Proc,
                        from : Pointer, old : Pointer, q : Proc]
Frames == ThreadFrames \cup ByeFrames \cup SynchFrames \cup PollFrames
            \cup BcastFrames \cup ExitFrames

TypeOK ==
  /\ process_list \in Seq(Proc)
  /\ next \in [Proc -> Pointer]
  /\ state \in [Proc -> {"NONE", "RUNNING", "CALLED"}]
  /\ needspoll \in [Proc -> BOOLEAN]
  /\ poll_requested \in BOOLEAN
  /\ process_current \in Pointer
  /\ events \in [0 .. NumEvents - 1 -> EventData]
  /\ nevents \in 0 .. NumEvents
  /\ fevent \in 0 .. NumEvents - 1
  /\ stack \in Seq(Frames)
  /\ phase \in {"boot", "poll", "event"}

----------------------------------------------------------------------------
(* The process list *)

Listed(p) == \E i \in DOMAIN process_list : process_list[i] = p

IndexOf(p) == CHOOSE i \in DOMAIN process_list : process_list[i] = p

FirstOf(list) == IF list = <<>> THEN NULL ELSE list[1]

\* The value of p->next: a listed process points to its successor, one taken
\* off the list to what was its successor then.
Successor(p) == IF IndexOf(p) < Len(process_list)
                THEN process_list[IndexOf(p) + 1] ELSE NULL
NextOfCleared(p) == IF Listed(p) THEN Successor(p) ELSE NULL
NextOf(p) == IF Listed(p) THEN Successor(p) ELSE next[p]

Without(p) ==
  SubSeq(process_list, 1, IndexOf(p) - 1)
    \o SubSeq(process_list, IndexOf(p) + 1, Len(process_list))

\* The end of exit_process: nothing happens to a process that is off the list.
Unlink(p) ==
  IF Listed(p)
  THEN /\ process_list' = Without(p)
       /\ next' = [next EXCEPT ![p] = NextOf(p)]
  ELSE UNCHANGED listVars

----------------------------------------------------------------------------
(* The stack *)

Top == stack[Len(stack)]
Pop == SubSeq(stack, 1, Len(stack) - 1)
TopIs(kind) == stack # <<>> /\ Top.kind = kind
TopAt(kind, at) == TopIs(kind) /\ Top.at = at

\* The stack with the running frame moved on: f replaces it.
Moved(f) == Append(Pop, f)

Thread(p, ev) == [kind |-> "thread", p |-> p, ev |-> ev]
Synch         == [kind |-> "synch", caller |-> process_current]
Poll(p)       == [kind |-> "poll", at |-> "visit", p |-> p]

\* A protothread is executing: it is the running frame.
Executing == TopIs("thread") \/ TopIs("bye")

----------------------------------------------------------------------------
(* The calls that push a frame.  base is the stack the caller leaves. *)

CallableAgain(st, p) == st[p] # "NONE"
Callable(st, p) == st[p] = "RUNNING"

\* call_process: only a process in state RUNNING is called, in particular not
\* one that is CALLED already.  st is the state its caller has just written.
CallProcess(st, p, ev, base) ==
  IF Callable(st, p)
  THEN /\ state' = [st EXCEPT ![p] = "CALLED"]
       /\ process_current' = p
       /\ stack' = Append(base, Thread(p, ev))
  ELSE /\ state' = st
       /\ stack' = base
       /\ UNCHANGED process_current

StateKept(p) == state[p]
StateOfExiting(p) == "NONE"

\* exit_process up to its EXITED loop.
ExitProcess(p, from, base) ==
  IF Listed(p) /\ state[p] # "NONE"
  THEN /\ state' = [state EXCEPT ![p] = StateOfExiting(p)]
       /\ stack' = Append(base, [kind |-> "exit", at |-> "visit", p |-> p,
                                 from |-> from, old |-> process_current,
                                 q |-> FirstOf(process_list)])
       /\ UNCHANGED listVars
  ELSE /\ Unlink(p)
       /\ stack' = base
       /\ UNCHANGED state

AlreadyRunning(p) == state[p] # "NONE"
AlreadyStarted(p) == Listed(p)

\* process_start: the new process goes first in the list and gets a
\* synchronous INIT; one that is listed is left alone.
ProcessStart(p) ==
  /\ IF AlreadyStarted(p)
     THEN UNCHANGED <<listVars, state, process_current, stack>>
     ELSE /\ process_list' = <<p>> \o process_list
          /\ next' = [next EXCEPT ![p] = NULL]
          /\ CallProcess([state EXCEPT ![p] = "RUNNING"], p, "INIT",
                         Append(stack, Synch))
  /\ UNCHANGED <<pollVars, queueVars, phase>>

----------------------------------------------------------------------------
(* Initialisation: process_init, over process structures that are all zero. *)

Init ==
  /\ process_list = <<>>
  /\ next = [p \in Proc |-> NULL]
  /\ state = [p \in Proc |-> "NONE"]
  /\ needspoll = [p \in Proc |-> FALSE]
  /\ poll_requested = FALSE
  /\ process_current = NULL
  /\ events = [i \in 0 .. NumEvents - 1 |-> [ev |-> "INIT", p |-> NULL]]
  /\ nevents = 0
  /\ fevent = 0
  /\ stack = <<>>
  /\ phase = "boot"

\* main() starts processes before its loop (autostart_start).
Boot(p) ==
  /\ phase = "boot" /\ stack = <<>>
  /\ ProcessStart(p)

BootDone ==
  /\ phase = "boot" /\ stack = <<>>
  /\ phase' = "poll"
  /\ UNCHANGED <<listVars, state, pollVars, process_current, queueVars, stack>>

----------------------------------------------------------------------------
(* process_run: do_poll if it was requested, then do_event. *)

\* do_poll entered: the request is withdrawn before the list is walked.
EnterPoll(base) ==
  /\ poll_requested' = FALSE
  /\ stack' = Append(base, Poll(FirstOf(process_list)))

AfterPollLoop == IF poll_requested THEN "poll" ELSE "event"
AfterPoll == "event"

RunPoll ==
  /\ phase = "poll" /\ stack = <<>>
  /\ phase' = AfterPoll
  /\ IF poll_requested THEN EnterPoll(stack)
                       ELSE UNCHANGED <<poll_requested, stack>>
  /\ UNCHANGED <<listVars, state, needspoll, process_current, queueVars>>

\* The walk of do_poll: it ends, skips a process, or calls one and moves on.
PollEndClears ==
  /\ TopAt("poll", "visit") /\ Top.p = NULL
  /\ stack' = Pop
  /\ poll_requested' = FALSE
  /\ UNCHANGED <<listVars, state, needspoll, process_current, queueVars, phase>>

PollEnd ==
  /\ TopAt("poll", "visit") /\ Top.p = NULL
  /\ stack' = Pop
  /\ UNCHANGED <<listVars, state, pollVars, process_current, queueVars, phase>>

PollSkip ==
  /\ TopAt("poll", "visit") /\ Top.p # NULL
  /\ ~needspoll[Top.p]
  /\ stack' = Moved([Top EXCEPT !.p = NextOf(Top.p)])
  /\ UNCHANGED <<listVars, state, pollVars, process_current, queueVars, phase>>

PollCall ==
  /\ TopAt("poll", "visit") /\ Top.p # NULL
  /\ needspoll[Top.p]
  /\ needspoll' = [needspoll EXCEPT ![Top.p] = FALSE]
  /\ CallProcess([state EXCEPT ![Top.p] = "RUNNING"], Top.p, "POLL",
                 Moved([Top EXCEPT !.at = "called"]))
  /\ UNCHANGED <<listVars, poll_requested, queueVars, phase>>

PollAdvance ==
  /\ TopAt("poll", "called")
  /\ stack' = Moved([Top EXCEPT !.at = "visit", !.p = NextOf(Top.p)])
  /\ UNCHANGED <<listVars, state, pollVars, process_current, queueVars, phase>>

\* do_event: the oldest event leaves the queue, then goes to its receiver or,
\* process by process, to the whole list.
DoEvent ==
  LET e == events[fevent] IN
  /\ phase = "event" /\ stack = <<>>
  /\ phase' = "poll"
  /\ IF nevents = 0
     THEN UNCHANGED <<state, process_current, stack, nevents, fevent>>
     ELSE /\ fevent' = (fevent + 1) % NumEvents
          /\ nevents' = nevents - 1
          /\ IF e.p = BROADCAST
             THEN /\ stack' = <<[kind |-> "bcast", at |-> "check",
                                 p |-> FirstOf(process_list), ev |-> e.ev]>>
                  /\ UNCHANGED <<state, process_current>>
             ELSE CallProcess(IF e.ev = "INIT"
                              THEN [state EXCEPT ![e.p] = "RUNNING"] ELSE state,
                              e.p, e.ev, stack)
  /\ UNCHANGED <<listVars, pollVars, events>>

\* The broadcast loop: a requested poll goes between two deliveries.
BcastCheck ==
  /\ TopAt("bcast", "check")
  /\ IF Top.p = NULL
     THEN stack' = Pop /\ UNCHANGED poll_requested
     ELSE IF poll_requested
     THEN EnterPoll(Moved([Top EXCEPT !.at = "call"]))
     ELSE /\ stack' = Moved([Top EXCEPT !.at = "call"])
          /\ UNCHANGED poll_requested
  /\ UNCHANGED <<listVars, state, needspoll, process_current, queueVars, phase>>

BcastCall ==
  /\ TopAt("bcast", "call")
  /\ CallProcess(state, Top.p, Top.ev, Moved([Top EXCEPT !.at = "called"]))
  /\ UNCHANGED <<listVars, pollVars, queueVars, phase>>

BcastAdvance ==
  /\ TopAt("bcast", "called")
  /\ stack' = Moved([Top EXCEPT !.at = "check", !.p = NextOf(Top.p)])
  /\ UNCHANGED <<listVars, state, pollVars, process_current, queueVars, phase>>

----------------------------------------------------------------------------
(* exit_process from its EXITED loop on, and the return of process_post_synch *)

ExitVisit ==
  /\ TopAt("exit", "visit")
  /\ IF Top.q = NULL
     THEN /\ stack' = Moved([Top EXCEPT !.at = "exit"])
          /\ UNCHANGED <<state, process_current>>
     ELSE IF Top.q = Top.p
     THEN /\ stack' = Moved([Top EXCEPT !.at = "called"])
          /\ UNCHANGED <<state, process_current>>
     ELSE CallProcess(state, Top.q, "EXITED", Moved([Top EXCEPT !.at = "called"]))
  /\ UNCHANGED <<listVars, pollVars, queueVars, phase>>

ExitAdvance ==
  /\ TopAt("exit", "called")
  /\ stack' = Moved([Top EXCEPT !.at = "visit", !.q = NextOf(Top.q)])
  /\ UNCHANGED <<listVars, state, pollVars, process_current, queueVars, phase>>

\* The exiting process itself gets EXIT by a direct call of its thread, unless
\* it is the one that asked for the exit.
ExitThread ==
  /\ TopAt("exit", "exit")
  /\ LET base == Moved([Top EXCEPT !.at = "unlink"]) IN
     IF Top.p # Top.from
     THEN /\ process_current' = Top.p
          /\ stack' = Append(base, [kind |-> "bye", p |-> Top.p])
     ELSE /\ stack' = base
          /\ UNCHANGED process_current
  /\ UNCHANGED <<listVars, state, pollVars, queueVars, phase>>

ExitUnlink ==
  /\ TopAt("exit", "unlink")
  /\ Unlink(Top.p)
  /\ process_current' = Top.old
  /\ stack' = Pop
  /\ UNCHANGED <<state, pollVars, queueVars, phase>>

CurrentKept == process_current
CurrentRestored == Top.caller

SynchReturn ==
  /\ TopIs("synch")
  /\ process_current' = CurrentRestored
  /\ stack' = Pop
  /\ UNCHANGED <<listVars, state, pollVars, queueVars, phase>>

----------------------------------------------------------------------------
(* What a protothread does *)

FullLate == nevents > NumEvents
Full == nevents = NumEvents

\* The slot after the last event.  The sum is taken in an unsigned char.
SlotOfCount == nevents % NumEvents
FreeSlot == ((fevent + nevents) % ByteRange) % NumEvents

\* process_post: nothing changes when the queue is full (PROCESS_ERR_FULL).
ProcessPost(e) ==
  /\ Executing
  /\ IF Full
     THEN UNCHANGED queueVars
     ELSE /\ events' = [events EXCEPT ![FreeSlot] = e]
          /\ nevents' = nevents + 1
          /\ UNCHANGED fevent
  /\ UNCHANGED <<listVars, state, pollVars, process_current, stack, phase>>

PostOne == \E p \in Proc, ev \in PostEvents : ProcessPost([ev |-> ev, p |-> p])
PostAll == Broadcasts /\ ProcessPost([ev |-> "EVENT", p |-> BROADCAST])

ProcessPostSynch(p) ==
  /\ Executing
  /\ CallProcess(state, p, "EVENT", Append(stack, Synch))
  /\ UNCHANGED <<listVars, pollVars, queueVars, phase>>

\* process_exit has no guard; what callers do with it is: a process exits
\* another one that is not in the middle of a call and, if SelfExit, also the
\* process that is executing.
MayExit(p) == \/ ~Listed(p)
              \/ state[p] = "RUNNING"
              \/ SelfExit /\ p = process_current /\ state[p] = "CALLED"

ProcessExit(p) ==
  /\ Executing /\ MayExit(p)
  /\ ExitProcess(p, process_current, stack)
  /\ UNCHANGED <<pollVars, process_current, queueVars, phase>>

\* process_poll, from a protothread or from an interrupt.
ProcessPoll(p) ==
  /\ IF state[p] \in {"RUNNING", "CALLED"}
     THEN /\ needspoll' = [needspoll EXCEPT ![p] = TRUE]
          /\ poll_requested' = TRUE
     ELSE UNCHANGED pollVars
  /\ UNCHANGED <<listVars, state, process_current, queueVars, stack, phase>>

\* The thread returns PT_WAITING or PT_YIELDED: it runs on, unless EXIT was
\* delivered; or PT_EXITED or PT_ENDED, and call_process exits the process.
ThreadYields ==
  /\ TopIs("thread") /\ Top.ev # "EXIT"
  /\ state' = [state EXCEPT ![Top.p] = "RUNNING"]
  /\ stack' = Pop
  /\ UNCHANGED <<listVars, pollVars, process_current, queueVars, phase>>

ThreadEnds ==
  /\ TopIs("thread")
  /\ ExitProcess(Top.p, Top.p, Pop)
  /\ UNCHANGED <<pollVars, process_current, queueVars, phase>>

\* What a thread called directly with EXIT returns is ignored.
ByeReturns ==
  /\ TopIs("bye")
  /\ stack' = Pop
  /\ UNCHANGED <<listVars, state, pollVars, process_current, queueVars, phase>>

----------------------------------------------------------------------------

Kernel == \/ RunPoll \/ PollEnd \/ PollSkip \/ PollCall \/ PollAdvance
          \/ DoEvent \/ BcastCheck \/ BcastCall \/ BcastAdvance
          \/ ExitVisit \/ ExitAdvance \/ ExitThread \/ ExitUnlink
          \/ SynchReturn \/ BootDone

Return == ThreadYields \/ ThreadEnds \/ ByeReturns

Service == \/ PostOne \/ PostAll
           \/ \E p \in Synched : ProcessPostSynch(p)
           \/ \E p \in Started : Executing /\ ProcessStart(p)
           \/ \E p \in Exited  : ProcessExit(p)

PollRequest(p) == \/ p \in Polled /\ Executing /\ ProcessPoll(p)
                  \/ p \in Interrupted /\ ProcessPoll(p)

Next == \/ Kernel \/ Return \/ Service
        \/ \E p \in Proc : Boot(p)
        \/ \E p \in Proc : PollRequest(p)

Spec == Init /\ [][Next]_vars

=============================================================================
