--------------------------- MODULE ProcessHistory ---------------------------
(***************************************************************************)
(* What the kernel of Process.tla owes its clients, in two history         *)
(* variables: the polls that were requested and not served yet, and the    *)
(* processes that the current broadcast has still to reach.                *)
(***************************************************************************)
EXTENDS ProcessProps

VARIABLES owed,   \* the processes whose poll is due
          due     \* the processes a broadcast in progress owes its event

hvars == <<vars, owed, due>>

\* The running frame is a call of p to poll it.
PolledNow(p) == /\ TopIs("thread")
                /\ Top.p = p /\ Top.ev = "POLL"

\* The broadcast loop has called p.
Reached(p) == /\ Len(stack) > 1
              /\ stack[1].kind = "bcast"
              /\ stack[2].kind = "thread" /\ stack[2].p = p

Step == \/ Kernel \/ Return \/ Service
        \/ \E p \in Proc : Boot(p)

HInit == Init /\ owed = {} /\ due = {}

\* A poll is served by a call, and void when the process exits; an exiting
\* process is owed no broadcast.
HNext ==
  \/ /\ Step
     /\ owed' = {p \in owed : state'[p] # "NONE" /\ ~PolledNow(p)'}
     /\ due' = IF TopIs("bcast")' /\ ~TopIs("bcast") /\ stack = <<>>
               THEN {p \in Proc : Listed(p)}
               ELSE {p \in due : state'[p] # "NONE" /\ ~Reached(p)'}
  \/ \E p \in Proc :
       /\ PollRequest(p)
       /\ owed' = IF state[p] # "NONE" THEN owed \cup {p} ELSE owed
       /\ due' = due

HSpec == HInit /\ [][HNext]_hvars

----------------------------------------------------------------------------

\* A do_poll in progress has still to come to p.
WillVisit(p) ==
  \E i \in DOMAIN stack :
    /\ stack[i].kind = "poll"
    /\ LET first == IF stack[i].at = "visit" THEN stack[i].p
                                             ELSE NextOf(stack[i].p)
       IN first # NULL /\ IndexOf(first) <= IndexOf(p)

(* A requested poll is never lost, whether the request comes before,       *)
(* during or after the walk of do_poll, from an interrupt between any two  *)
(* steps, and whatever the polled processes start and exit: the mark is    *)
(* set, and a do_poll is requested or has still to come to the process.    *)
NoLostPoll ==
  \A p \in owed : /\ needspoll[p]
                  /\ poll_requested \/ WillVisit(p)

(* A broadcast reaches every process that is on the list when it begins    *)
(* and does not exit before its turn, although handlers and the polls in   *)
(* between change the list under the loop.                                 *)
BroadcastReachesAll == TopAt("bcast", "check") /\ Top.p = NULL => due = {}

----------------------------------------------------------------------------
(* The inductive invariant behind the two, besides IInv.                   *)

Closed(S) == \A p \in S : NextOf(p) \in S \cup {NULL}

\* From the first of the two a loop comes to the second, along p->next: over
\* processes that are off the list, and round again where one of them was
\* started anew.
Reach == {e \in Proc \X Proc :
            \A S \in SUBSET Proc : e[1] \in S /\ Closed(S) => e[2] \in S}

\* The loop of the frame f has still to come to p.
Ahead(f, p) == <<f.p, p>> \in Reach /\ (f.at = "called" => p # f.p)

PollInv ==
  \A p \in owed :
    /\ state[p] # "NONE" /\ needspoll[p]
    /\ \/ poll_requested
       \/ \E i \in DOMAIN stack : stack[i].kind = "poll" /\ Ahead(stack[i], p)

BroadcastInv ==
  \A p \in due :
    /\ Listed(p)
    /\ stack # <<>> /\ stack[1].kind = "bcast" /\ Ahead(stack[1], p)

HistoryInv == /\ IInv /\ owed \subseteq Proc /\ due \subseteq Proc
              /\ PollInv /\ BroadcastInv

=============================================================================
