------------------------------- MODULE Ctimer -------------------------------
(***************************************************************************)
(* Callback timers: core/sys/ctimer.c over the event timers of Etimer.tla. *)
(* Every struct ctimer holds an etimer, which is always set in the context *)
(* of ctimer_process; ctimer_process finds by the TIMER event's etimer the *)
(* ctimer on ctimer_list whose function it calls.  A ctimer is identified  *)
(* with its etimer.  A callback may use every operation: its steps are the *)
(* operations that follow its call.                                        *)
(***************************************************************************)
EXTENDS Etimer

CONSTANT ctimer_process

ASSUME CtimerAssumption == Proc = {ctimer_process}

VARIABLES
  ctimer_list,    \* the ctimers that are set
  initialized,    \* ctimer_init has been called, and the process started
  armed           \* auxiliary: set and not yet called or stopped

cvars == <<ctimer_list, initialized, armed>>

CtimerTypeOK == /\ TypeOK
                /\ ctimer_list \in Seq(Timer)
                /\ initialized \in BOOLEAN
                /\ armed \subseteq Timer

CtimerInit == Init /\ ctimer_list = <<>> /\ initialized = FALSE /\ armed = {}

----------------------------------------------------------------------------
(* list.c: list_remove does nothing to an element that is not on the list, *)
(* list_add removes the element before it adds it at the end.              *)

ListRemove(c) == RemoveFirst(ctimer_list, c)
ListAdd(c) == Append(ListRemove(c), c)

\* ctimer_init starts ctimer_process, whose INIT event sets the timers of a
\* list that has just been emptied: what was set before is lost.
StartCtimers ==
  /\ ~initialized /\ pc = Main
  /\ initialized' = TRUE
  /\ ctimer_list' = <<>>
  /\ armed' = {}
  /\ UNCHANGED vars

----------------------------------------------------------------------------
(* The operations *)

Rearm(c) == /\ ctimer_list' = ListAdd(c)
            /\ armed' = armed \cup {c}
            /\ UNCHANGED initialized

CtimerSet(c, i) ==
  /\ IF initialized
     THEN EtimerSet(ctimer_process, c, i)
     ELSE /\ pc = Main
          /\ interval' = [interval EXCEPT ![c] = i]
          /\ UNCHANGED <<now, timerlist, start, owner, next_expiration, needspoll,
                         queue, running, pc, age>>
  /\ Rearm(c)

CtimerReset(c) ==
  /\ IF initialized THEN EtimerReset(ctimer_process, c, interval[c])
                    ELSE pc = Main /\ UNCHANGED vars
  /\ Rearm(c)

CtimerRestart(c) ==
  /\ IF initialized THEN EtimerRestart(ctimer_process, c)
                    ELSE pc = Main /\ UNCHANGED vars
  /\ Rearm(c)

\* ctimer_stop leaves a TIMER event that is already in the queue where it is.
RemovedLate(c) == IF Pending(c) THEN ListRemove(c) ELSE ctimer_list
Removed(c) == ListRemove(c)

CtimerStop(c) ==
  /\ IF initialized
     THEN EtimerStop(c)
     ELSE /\ pc = Main
          /\ owner' = [owner EXCEPT ![c] = NULL]
          /\ UNCHANGED <<now, timerlist, start, interval, next_expiration,
                         needspoll, queue, running, pc, age>>
  /\ ctimer_list' = Removed(c)
  /\ armed' = armed \ {c}
  /\ UNCHANGED initialized

----------------------------------------------------------------------------

\* ctimer_process handles the oldest event: if its timer is that of a ctimer on
\* the list, the ctimer leaves the list and its function is called.
Calls(c) == /\ queue # <<>> /\ Head(queue).t = c
            /\ c \in Range(ctimer_list)

NotRemoved(c) == ctimer_list
Handled(c) == ListRemove(c)

Deliver ==
  /\ DoEvent
  /\ LET c == Head(queue).t IN
     IF Calls(c) THEN /\ ctimer_list' = Handled(c)
                      /\ armed' = armed \ {c}
                 ELSE UNCHANGED <<ctimer_list, armed>>
  /\ UNCHANGED initialized

CtimerNext ==
  \/ (Tick \/ EtimerProcess \/ UpdateTime \/ PostOther) /\ UNCHANGED cvars
  \/ StartCtimers
  \/ Deliver
  \/ \E c \in Timer : \/ \E i \in Intervals : CtimerSet(c, i)
                      \/ CtimerReset(c)
                      \/ CtimerRestart(c)
                      \/ CtimerStop(c)

CtimerSpec == CtimerInit /\ [][CtimerNext]_<<vars, cvars>>

----------------------------------------------------------------------------
(* Properties *)

(* The state is well typed, and a callback that is due is never lost: the  *)
(* etimer of every ctimer on the list is pending or its TIMER event is in  *)
(* the queue, whatever has been stopped, set again or reset while earlier  *)
(* events were still queued.                                               *)
CallbackWillCome ==
  /\ CtimerTypeOK
  /\ initialized => \A c \in Range(ctimer_list) :
                      Pending(c) \/ \E k \in DOMAIN queue : queue[k].t = c

(* ctimer.h of ctimer_stop: "the callback timer will be expired and will   *)
(* not call the callback function", although its event may be queued; and  *)
(* a ctimer that is set once is called once, although stopping and setting *)
(* it again may have queued several events.                                *)
CalledOncePerSet ==
  [][\A c \in Timer : Calls(c) /\ Len(queue') < Len(queue) => c \in armed]_
    <<vars, cvars>>

=============================================================================
