---------------------------- MODULE ProcessProps ----------------------------
(***************************************************************************)
(* What the kernel of Process.tla guarantees: the safety invariants, and   *)
(* the refinement of EventQueue by the event ring.                         *)
(***************************************************************************)
EXTENDS Process

Activations(kinds, p) ==
  {i \in DOMAIN stack : stack[i].kind \in kinds /\ stack[i].p = p}

(* A protothread is never entered while an activation of it is still on    *)
(* the stack: call_process skips a CALLED process, do_poll, which writes   *)
(* the state it then tests, runs only where nothing is CALLED, and the     *)
(* direct EXIT call of exit_process reaches an idle process only.          *)
NoReentrancy ==
  \A p \in Proc : \A i, j \in Activations({"thread", "bye"}, p) : i = j

(* p->state tells where a process is: CALLED exactly while call_process    *)
(* has it on the stack, and on the process list whenever it is not NONE,   *)
(* so that polls and broadcasts reach every running process.               *)
StateAgrees ==
  \A p \in Proc : /\ state[p] # "NONE" => Listed(p)
                  /\ state[p] = "CALLED" <=> Activations({"thread"}, p) # {}

(* PROCESS_CURRENT() is the executing process for as long as it executes,  *)
(* whatever calls, starts and exits it made in between: timers set and     *)
(* requests made after a nested call belong to the caller.                 *)
CurrentIsExecuting == Executing => process_current = Top.p

(* A process that is on its way out is on the list until its EXITED loop   *)
(* and its EXIT call are over, exits once at a time, and is not restarted  *)
(* in between: process_start by an EXITED handler is too early.            *)
ExitIsExclusive ==
  \A i \in DOMAIN stack : stack[i].kind = "exit" =>
    /\ Listed(stack[i].p)
    /\ state[stack[i].p] = "NONE"
    /\ \A j \in DOMAIN stack :
         stack[j].kind = "exit" /\ stack[j].p = stack[i].p => i = j

(* What process.h says of process_exit: "The process can either be the     *)
(* currently executing process, or another process that is currently       *)
(* running."  Exited, it is off the list and process_is_running is false.  *)
(* The code leaves a process that exits itself off the list but RUNNING.   *)
RunningIsListed == \A p \in Proc : state[p] # "NONE" => Listed(p)

(* The ring is a FIFO: what lies in it, oldest first, behaves as the queue *)
(* of EventQueue does, through wrap-around, overflow and broadcasts.       *)
Pending == [i \in 1 .. nevents |-> events[(fevent + (i - 1)) % NumEvents]]

Abstract == INSTANCE EventQueue
              WITH Entry <- EventData, Capacity <- NumEvents, queue <- Pending

QueueIsFifo == Abstract!Spec

----------------------------------------------------------------------------
(* The inductive invariant behind the safety properties, for systems where *)
(* no process exits itself by process_exit.                                *)

ListIsSet == \A i, j \in DOMAIN process_list :
               process_list[i] = process_list[j] => i = j

\* What may lie on what: only main() broadcasts, only main() and a broadcast
\* poll, an EXIT call belongs to the exit below it, a poll that called a
\* process waits for the call or for the exit it ends in, and what a
\* protothread calls knows it as PROCESS_CURRENT().
StackOk(s) ==
  \A i \in DOMAIN s :
    /\ s[i].kind = "bcast" => i = 1
    /\ s[i].kind = "poll" => \A j \in 1 .. i - 1 : s[j].kind = "bcast"
    /\ s[i].kind = "bye" => /\ i > 1
                            /\ s[i - 1].kind = "exit" /\ s[i - 1].p = s[i].p
    /\ s[i].kind = "poll" /\ i < Len(s) =>
         /\ s[i].at = "called"
         /\ s[i + 1].kind \in {"thread", "exit"} /\ s[i + 1].p = s[i].p
    /\ s[i].kind \in {"thread", "bye"} /\ i < Len(s) =>
         \/ s[i + 1].kind = "synch" /\ s[i + 1].caller = s[i].p
         \/ s[i + 1].kind = "exit"  /\ s[i + 1].old = s[i].p

\* The calls of protothreads on the stack s are those the states st record.
ThreadsOk(s, st) ==
  /\ \A i \in DOMAIN s : s[i].kind = "thread" => st[s[i].p] = "CALLED"
  /\ \A p \in Proc : st[p] = "CALLED" =>
       \E i \in DOMAIN s : s[i].kind = "thread" /\ s[i].p = p
  /\ \A i, j \in DOMAIN s :
       s[i].kind = "thread" /\ s[j].kind = "thread" /\ s[i].p = s[j].p => i = j

ExitsOk(s, st) ==
  \A i \in DOMAIN s : s[i].kind = "exit" =>
    /\ st[s[i].p] = "NONE"
    /\ \A j \in DOMAIN s : s[j].kind = "exit" /\ s[j].p = s[i].p => i = j

ExitingIsListed ==
  \A i \in DOMAIN stack : stack[i].kind = "exit" => Listed(stack[i].p)

\* Where do_poll goes next is on the list.
PollStaysOnList ==
  TopIs("poll") =>
    LET q == IF Top.at = "visit" THEN Top.p ELSE NextOf(Top.p)
    IN q # NULL => Listed(q)

QueuedIsPosted == \A k \in 0 .. NumEvents - 1 :
                    events[k].p # NULL => events[k].ev \in PostEvents

IInv == /\ TypeOK /\ ListIsSet /\ StackOk(stack) /\ ThreadsOk(stack, state)
        /\ RunningIsListed /\ ExitsOk(stack, state) /\ ExitingIsListed
        /\ CurrentIsExecuting /\ PollStaysOnList /\ QueuedIsPosted

=============================================================================
