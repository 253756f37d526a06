--------------------------- MODULE ProcessProofs ---------------------------
(***************************************************************************)
(* Theorems about the kernel, for every set of processes and every size of *)
(* the event ring.                                                         *)
(***************************************************************************)
EXTENDS ProcessHistory, ListLemmas

LEMMA InitTypeOK == Init => TypeOK
<1> SUFFICES ASSUME Init PROVE TypeOK
  OBVIOUS
<1>1. /\ process_list \in Seq(Proc) /\ stack \in Seq(Frames)
      /\ next \in [Proc -> Pointer] /\ process_current \in Pointer
      /\ state \in [Proc -> {"NONE", "RUNNING", "CALLED"}]
  BY DEF Init, Pointer
<1>2. /\ needspoll \in [Proc -> BOOLEAN] /\ poll_requested \in BOOLEAN
      /\ phase \in {"boot", "poll", "event"}
  BY DEF Init
<1>3. /\ events \in [0 .. NumEvents - 1 -> EventData]
      /\ nevents \in 0 .. NumEvents
      /\ fevent \in 0 .. NumEvents - 1
  BY NumEventsAssumption DEF Init, EventData, Event, Pointer
<1>4. QED BY <1>1, <1>2, <1>3 DEF TypeOK

LEMMA TopType ==
  ASSUME TypeOK, stack # <<>>
  PROVE  /\ Len(stack) \in Nat \ {0}
         /\ Top \in Frames
         /\ Pop \in Seq(Frames)
BY DEF TypeOK, Top, Pop

LEMMA MovedType ==
  ASSUME TypeOK, stack # <<>>, NEW f \in Frames
  PROVE  Moved(f) \in Seq(Frames)
BY TopType DEF Moved

LEMMA NextOfType ==
  ASSUME TypeOK, NEW p \in Proc
  PROVE  NextOf(p) \in Pointer
<1>1. CASE Listed(p)
  <2>1. IndexOf(p) \in DOMAIN process_list
    BY <1>1 DEF Listed, IndexOf
  <2>2. QED
    BY <1>1, <2>1 DEF NextOf, Successor, TypeOK, Pointer
<1>2. CASE ~Listed(p)
  BY <1>2 DEF NextOf, TypeOK
<1>3. QED BY <1>1, <1>2

LEMMA FirstOfType ==
  ASSUME TypeOK
  PROVE  FirstOf(process_list) \in Pointer
BY DEF TypeOK, FirstOf, Pointer

LEMMA UnlinkType ==
  ASSUME TypeOK, NEW p \in Proc, Unlink(p)
  PROVE  /\ process_list' \in Seq(Proc)
         /\ next' \in [Proc -> Pointer]
<1>1. CASE Listed(p)
  <2>1. IndexOf(p) \in DOMAIN process_list
    BY <1>1 DEF Listed, IndexOf
  <2>2. Without(p) \in Seq(Proc)
    BY <2>1 DEF Without, TypeOK
  <2>3. QED
    BY <1>1, <2>2, NextOfType DEF Unlink, TypeOK
<1>2. CASE ~Listed(p)
  BY <1>2 DEF Unlink, TypeOK, listVars
<1>3. QED BY <1>1, <1>2

----------------------------------------------------------------------------
(* What a frame at the top of the stack is, and the stacks made from it *)

LEMMA TopFrame ==
  ASSUME TypeOK, stack # <<>>
  PROVE  /\ Top.kind = "thread" => Top \in ThreadFrames
         /\ Top.kind = "bye"    => Top \in ByeFrames
         /\ Top.kind = "synch"  => Top \in SynchFrames
         /\ Top.kind = "poll"   => Top \in PollFrames
         /\ Top.kind = "bcast"  => Top \in BcastFrames
         /\ Top.kind = "exit"   => Top \in ExitFrames
<1>1. Top \in Frames
  BY TopType
<1>2. QED
  BY <1>1 DEF Frames, ThreadFrames, ByeFrames, SynchFrames, PollFrames,
              BcastFrames, ExitFrames

States == {"NONE", "RUNNING", "CALLED"}

LEMMA CallType ==
  ASSUME TypeOK, NEW st \in [Proc -> States], NEW p \in Proc, NEW ev \in Event,
         NEW base \in Seq(Frames), CallProcess(st, p, ev, base)
  PROVE  /\ state' \in [Proc -> States]
         /\ process_current' \in Pointer
         /\ stack' \in Seq(Frames)
<1>1. Thread(p, ev) \in Frames
  BY DEF Thread, Frames, ThreadFrames
<1>2. CASE st[p] = "RUNNING"
  <2>1. /\ state' = [st EXCEPT ![p] = "CALLED"]
        /\ process_current' = p
        /\ stack' = Append(base, Thread(p, ev))
    BY <1>2 DEF CallProcess, Callable
  <2>2. QED
    BY <1>1, <2>1 DEF States, Pointer
<1>3. CASE st[p] # "RUNNING"
  BY <1>3 DEF CallProcess, Callable, TypeOK
<1>4. QED BY <1>2, <1>3

LEMMA ExitType ==
  ASSUME TypeOK, NEW p \in Proc, NEW from \in Pointer,
         NEW base \in Seq(Frames), ExitProcess(p, from, base)
  PROVE  /\ state' \in [Proc -> States]
         /\ process_list' \in Seq(Proc)
         /\ next' \in [Proc -> Pointer]
         /\ stack' \in Seq(Frames)
<1>1. CASE Listed(p) /\ state[p] # "NONE"
  <2> DEFINE f == [kind |-> "exit", at |-> "visit", p |-> p, from |-> from,
                   old |-> process_current, q |-> FirstOf(process_list)]
  <2>1. f \in Frames
    BY FirstOfType DEF Frames, ExitFrames, TypeOK
  <2>2. stack' = Append(base, f) /\ UNCHANGED <<process_list, next>>
        /\ state' = [state EXCEPT ![p] = "NONE"]
    BY <1>1 DEF ExitProcess, StateOfExiting, listVars
  <2>3. QED
    BY <2>1, <2>2 DEF TypeOK, States
<1>2. CASE ~(Listed(p) /\ state[p] # "NONE")
  BY <1>2, UnlinkType DEF ExitProcess, TypeOK, States
<1>3. QED BY <1>1, <1>2

LEMMA StartType ==
  ASSUME TypeOK, NEW p \in Proc, ProcessStart(p)
  PROVE  TypeOK'
<1>1. CASE AlreadyStarted(p)
  BY <1>1 DEF ProcessStart, TypeOK, listVars, pollVars, queueVars
<1>2. CASE ~AlreadyStarted(p)
  <2>1. Synch \in Frames
    BY DEF Synch, Frames, SynchFrames, TypeOK
  <2>2. Append(stack, Synch) \in Seq(Frames)
    BY <2>1 DEF TypeOK
  <2>3. [state EXCEPT ![p] = "RUNNING"] \in [Proc -> States]
    BY DEF TypeOK, States
  <2>4. process_list' = <<p>> \o process_list /\ next' = [next EXCEPT ![p] = NULL]
        /\ CallProcess([state EXCEPT ![p] = "RUNNING"], p, "INIT", Append(stack, Synch))
    BY <1>2 DEF ProcessStart
  <2>5. /\ state' \in [Proc -> States] /\ process_current' \in Pointer
        /\ stack' \in Seq(Frames)
    BY <2>2, <2>3, <2>4, CallType DEF Event
  <2>6. process_list' \in Seq(Proc) /\ next' \in [Proc -> Pointer]
    BY <2>4 DEF TypeOK, Pointer
  <2>7. QED
    BY <2>5, <2>6 DEF ProcessStart, TypeOK, States, pollVars, queueVars
<1>3. QED BY <1>1, <1>2

----------------------------------------------------------------------------
(* Type correctness *)

LEMMA PollStepsType ==
  ASSUME TypeOK, RunPoll \/ PollEnd \/ PollSkip \/ PollCall \/ PollAdvance
  PROVE  TypeOK'
<1>1. CASE RunPoll
  <2>1. Poll(FirstOf(process_list)) \in Frames
    BY FirstOfType DEF Poll, Frames, PollFrames
  <2>2. Append(stack, Poll(FirstOf(process_list))) \in Seq(Frames)
    BY <2>1 DEF TypeOK
  <2>3. stack' \in Seq(Frames) /\ poll_requested' \in BOOLEAN
    BY <1>1, <2>2 DEF RunPoll, EnterPoll, TypeOK
  <2>4. QED
    BY <1>1, <2>3 DEF RunPoll, AfterPoll, TypeOK, listVars, queueVars
<1>2. CASE PollEnd
  BY <1>2, TopType DEF PollEnd, TopAt, TopIs, TypeOK, listVars, pollVars, queueVars
<1>3. CASE PollSkip
  <2>1. stack # <<>> /\ Top \in PollFrames /\ Top.at = "visit" /\ Top.p # NULL
    BY <1>3, TopFrame DEF PollSkip, TopAt, TopIs
  <2>2. Top.p \in Proc
    BY <2>1 DEF PollFrames, Pointer
  <2>3. [Top EXCEPT !.p = NextOf(Top.p)] \in Frames
    BY <2>1, <2>2, NextOfType DEF PollFrames, Frames
  <2>4. Moved([Top EXCEPT !.p = NextOf(Top.p)]) \in Seq(Frames)
    BY <2>1, <2>3, MovedType
  <2>5. QED
    BY <1>3, <2>4 DEF PollSkip, TypeOK, listVars, pollVars, queueVars
<1>4. CASE PollCall
  <2>1. stack # <<>> /\ Top \in PollFrames /\ Top.at = "visit" /\ Top.p # NULL
    BY <1>4, TopFrame DEF PollCall, TopAt, TopIs
  <2>2. Top.p \in Proc
    BY <2>1 DEF PollFrames, Pointer
  <2>3. [Top EXCEPT !.at = "called"] \in Frames
    BY <2>1, <2>2 DEF PollFrames, Frames
  <2>4. Moved([Top EXCEPT !.at = "called"]) \in Seq(Frames)
    BY <2>1, <2>3, MovedType
  <2>5. [state EXCEPT ![Top.p] = "RUNNING"] \in [Proc -> States]
    BY <2>2 DEF TypeOK, States
  <2>6. /\ state' \in [Proc -> States] /\ process_current' \in Pointer
        /\ stack' \in Seq(Frames)
    BY <1>4, <2>2, <2>4, <2>5, CallType DEF PollCall, Event
  <2>7. needspoll' \in [Proc -> BOOLEAN]
    BY <1>4, <2>2 DEF PollCall, TypeOK
  <2>8. QED
    BY <1>4, <2>6, <2>7 DEF PollCall, TypeOK, States, listVars, queueVars
<1>5. CASE PollAdvance
  <2>1. stack # <<>> /\ Top \in PollFrames /\ Top.at = "called"
    BY <1>5, TopFrame DEF PollAdvance, TopAt, TopIs
  <2>2. Top.p \in Proc
    BY <2>1 DEF PollFrames
  <2>3. [Top EXCEPT !.at = "visit", !.p = NextOf(Top.p)] \in Frames
    BY <2>1, <2>2, NextOfType DEF PollFrames, Frames
  <2>4. stack' \in Seq(Frames)
    BY <1>5, <2>1, <2>3, MovedType DEF PollAdvance
  <2>5. QED
    BY <1>5, <2>4 DEF PollAdvance, TypeOK, listVars, pollVars, queueVars
<1>6. QED BY <1>1, <1>2, <1>3, <1>4, <1>5

LEMMA DoEventType ==
  ASSUME TypeOK, DoEvent
  PROVE  TypeOK'
<1> DEFINE e == events[fevent]
<1>1. e \in EventData /\ phase' = "poll" /\ stack = <<>>
  BY DEF DoEvent, TypeOK
<1>2. CASE nevents = 0
  BY <1>2 DEF DoEvent, TypeOK, listVars, pollVars
<1>3. CASE nevents # 0
  <2>1. fevent' = (fevent + 1) % NumEvents /\ nevents' = nevents - 1
    BY <1>3 DEF DoEvent
  <2>2. fevent' \in 0 .. NumEvents - 1 /\ nevents' \in 0 .. NumEvents
    BY <1>3, <2>1, NumEventsAssumption DEF TypeOK
  <2>3. CASE e.p = BROADCAST
    <3> DEFINE f == [kind |-> "bcast", at |-> "check",
                     p |-> FirstOf(process_list), ev |-> e.ev]
    <3>1. f \in Frames
      BY <1>1, FirstOfType DEF Frames, BcastFrames, EventData
    <3>2. stack' = <<f>> /\ UNCHANGED <<state, process_current>>
      BY <1>3, <2>3 DEF DoEvent
    <3>3. QED
      BY <1>1, <2>2, <3>1, <3>2 DEF DoEvent, TypeOK, listVars, pollVars
  <2>4. CASE e.p # BROADCAST
    <3> DEFINE st == IF e.ev = "INIT" THEN [state EXCEPT ![e.p] = "RUNNING"]
                                      ELSE state
    <3>1. e.p \in Proc /\ e.ev \in Event
      BY <1>1, <2>4 DEF EventData, Pointer, BROADCAST
    <3>2. st \in [Proc -> States]
      BY <3>1 DEF TypeOK, States
    <3>3. CallProcess(st, e.p, e.ev, stack)
      BY <1>3, <2>4 DEF DoEvent
    <3>4. stack \in Seq(Frames)
      BY DEF TypeOK
    <3> HIDE DEF e, st
    <3>5. /\ state' \in [Proc -> States] /\ process_current' \in Pointer
          /\ stack' \in Seq(Frames)
      BY <3>1, <3>2, <3>3, <3>4, CallType
    <3>6. QED
      BY <1>1, <2>2, <3>5 DEF DoEvent, TypeOK, States, listVars, pollVars
  <2>5. QED BY <2>3, <2>4
<1>4. QED BY <1>2, <1>3

LEMMA BcastStepsType ==
  ASSUME TypeOK, BcastCheck \/ BcastCall \/ BcastAdvance
  PROVE  TypeOK'
<1>1. stack # <<>> /\ Top \in BcastFrames
  BY TopFrame DEF BcastCheck, BcastCall, BcastAdvance, TopAt, TopIs
<1>2. CASE BcastCheck
  <2>1. CASE Top.p = NULL
    BY <1>1, <1>2, <2>1, TopType
       DEF BcastCheck, TypeOK, listVars, pollVars, queueVars
  <2>2. CASE Top.p # NULL
    <3>1. [Top EXCEPT !.at = "call"] \in Frames
      BY <1>1, <1>2, <2>2 DEF BcastCheck, TopAt, BcastFrames, Frames, Pointer
    <3>2. Moved([Top EXCEPT !.at = "call"]) \in Seq(Frames)
      BY <1>1, <3>1, MovedType
    <3>3. Poll(FirstOf(process_list)) \in Frames
      BY FirstOfType DEF Poll, Frames, PollFrames
    <3> DEFINE base == Moved([Top EXCEPT !.at = "call"])
    <3> HIDE DEF base
    <3>4. /\ stack' = base \/ stack' = Append(base, Poll(FirstOf(process_list)))
          /\ poll_requested' \in BOOLEAN
      BY <1>2, <2>2 DEF base, BcastCheck, EnterPoll, TypeOK
    <3>5. stack' \in Seq(Frames)
      BY <3>2, <3>3, <3>4 DEF base
    <3>6. QED
      BY <1>2, <3>4, <3>5 DEF BcastCheck, TypeOK, listVars, queueVars
  <2>3. QED BY <2>1, <2>2
<1>3. CASE BcastCall
  <2>1. Top.p \in Proc /\ Top.ev \in Event /\ [Top EXCEPT !.at = "called"] \in Frames
    BY <1>1, <1>3 DEF BcastCall, TopAt, BcastFrames, Frames
  <2>2. Moved([Top EXCEPT !.at = "called"]) \in Seq(Frames)
    BY <1>1, <2>1, MovedType
  <2>3. state \in [Proc -> States]
    BY DEF TypeOK, States
  <2>4. /\ state' \in [Proc -> States] /\ process_current' \in Pointer
        /\ stack' \in Seq(Frames)
    BY <1>3, <2>1, <2>2, <2>3, CallType DEF BcastCall
  <2>5. QED
    BY <1>3, <2>4 DEF BcastCall, TypeOK, States, listVars, pollVars, queueVars
<1>4. CASE BcastAdvance
  <2>1. Top.p \in Proc
    BY <1>1, <1>4 DEF BcastAdvance, TopAt, BcastFrames
  <2>2. [Top EXCEPT !.at = "check", !.p = NextOf(Top.p)] \in Frames
    BY <1>1, <2>1, NextOfType DEF BcastFrames, Frames
  <2>3. stack' \in Seq(Frames)
    BY <1>1, <1>4, <2>2, MovedType DEF BcastAdvance
  <2>4. QED
    BY <1>4, <2>3 DEF BcastAdvance, TypeOK, listVars, pollVars, queueVars
<1>5. QED BY <1>2, <1>3, <1>4

LEMMA ExitStepsType ==
  ASSUME TypeOK, ExitVisit \/ ExitAdvance \/ ExitThread \/ ExitUnlink
  PROVE  TypeOK'
<1>1. stack # <<>> /\ Top \in ExitFrames /\ Top.p \in Proc
  BY TopFrame DEF ExitVisit, ExitAdvance, ExitThread, ExitUnlink, TopAt, TopIs,
                  ExitFrames
<1>2. CASE ExitVisit
  <2>1. CASE Top.q = NULL
    <3>1. [Top EXCEPT !.at = "exit"] \in Frames
      BY <1>1, <1>2 DEF ExitVisit, TopAt, ExitFrames, Frames
    <3>2. Moved([Top EXCEPT !.at = "exit"]) \in Seq(Frames)
      BY <1>1, <3>1, MovedType
    <3>3. QED
      BY <1>2, <2>1, <3>2 DEF ExitVisit, TypeOK, listVars, pollVars, queueVars
  <2>2. CASE Top.q # NULL
    <3>1. Top.q \in Proc
      BY <1>1, <2>2 DEF ExitFrames, Pointer
    <3>2. [Top EXCEPT !.at = "called"] \in Frames
      BY <1>1, <1>2, <3>1 DEF ExitVisit, TopAt, ExitFrames, Frames
    <3>3. Moved([Top EXCEPT !.at = "called"]) \in Seq(Frames)
      BY <1>1, <3>2, MovedType
    <3>4. CASE Top.q = Top.p
      BY <1>2, <2>2, <3>3, <3>4 DEF ExitVisit, TypeOK, listVars, pollVars, queueVars
    <3>5. CASE Top.q # Top.p
      <4>1. state \in [Proc -> States] /\ "EXITED" \in Event
        BY DEF TypeOK, States, Event
      <4>2. CallProcess(state, Top.q, "EXITED", Moved([Top EXCEPT !.at = "called"]))
        BY <1>2, <2>2, <3>5 DEF ExitVisit
      <4>3. /\ state' \in [Proc -> States] /\ process_current' \in Pointer
            /\ stack' \in Seq(Frames)
        BY <3>1, <3>3, <4>1, <4>2, CallType
      <4>4. QED
        BY <1>2, <4>3 DEF ExitVisit, TypeOK, States, listVars, pollVars, queueVars
    <3>6. QED BY <3>4, <3>5
  <2>3. QED BY <2>1, <2>2
<1>3. CASE ExitAdvance
  <2>1. Top.q \in Proc
    BY <1>1, <1>3 DEF ExitAdvance, TopAt, ExitFrames
  <2>2. [Top EXCEPT !.at = "visit", !.q = NextOf(Top.q)] \in Frames
    BY <1>1, <2>1, NextOfType DEF ExitFrames, Frames
  <2>3. stack' \in Seq(Frames)
    BY <1>1, <1>3, <2>2, MovedType DEF ExitAdvance
  <2>4. QED
    BY <1>3, <2>3 DEF ExitAdvance, TypeOK, listVars, pollVars, queueVars
<1>4. CASE ExitThread
  <2> DEFINE base == Moved([Top EXCEPT !.at = "unlink"])
             bye == [kind |-> "bye", p |-> Top.p]
  <2>1. [Top EXCEPT !.at = "unlink"] \in Frames
    BY <1>1, <1>4 DEF ExitThread, TopAt, ExitFrames, Frames
  <2>2. base \in Seq(Frames)
    BY <1>1, <2>1, MovedType
  <2>3. bye \in Frames
    BY <1>1 DEF Frames, ByeFrames
  <2> HIDE DEF base, bye
  <2>4. \/ stack' = base /\ process_current' = process_current
        \/ stack' = Append(base, bye) /\ process_current' = Top.p
    BY <1>4 DEF ExitThread, base, bye
  <2>5. process_current' \in Pointer
    BY <1>1, <2>4 DEF TypeOK, Pointer
  <2>6. stack' \in Seq(Frames)
    BY <2>2, <2>3, <2>4
  <2>7. QED
    BY <1>4, <2>5, <2>6 DEF ExitThread, TypeOK, listVars, pollVars, queueVars
<1>5. CASE ExitUnlink
  <2>1. process_list' \in Seq(Proc) /\ next' \in [Proc -> Pointer]
    BY <1>1, <1>5, UnlinkType DEF ExitUnlink
  <2>2. Top.old \in Pointer /\ Pop \in Seq(Frames)
    BY <1>1, TopType DEF ExitFrames
  <2>3. QED
    BY <1>5, <2>1, <2>2 DEF ExitUnlink, TypeOK, pollVars, queueVars
<1>6. QED BY <1>1, <1>2, <1>3, <1>4, <1>5

LEMMA PostType ==
  ASSUME TypeOK, NEW e \in EventData, ProcessPost(e)
  PROVE  TypeOK'
<1>1. CASE Full
  BY <1>1 DEF ProcessPost, TypeOK, listVars, pollVars, queueVars
<1>2. CASE ~Full
  <2>1. FreeSlot \in 0 .. NumEvents - 1
    BY NumEventsAssumption DEF FreeSlot, ByteRange, TypeOK
  <2>2. events' \in [0 .. NumEvents - 1 -> EventData]
    BY <1>2, <2>1 DEF ProcessPost, TypeOK
  <2>3. nevents' \in 0 .. NumEvents
    BY <1>2, NumEventsAssumption DEF ProcessPost, Full, TypeOK
  <2>4. QED
    BY <1>2, <2>2, <2>3 DEF ProcessPost, TypeOK, listVars, pollVars
<1>3. QED BY <1>1, <1>2

LEMMA PostSynchType ==
  ASSUME TypeOK, NEW p \in Proc, ProcessPostSynch(p)
  PROVE  TypeOK'
<1>1. Synch \in Frames
  BY DEF Synch, Frames, SynchFrames, TypeOK
<1>2. Append(stack, Synch) \in Seq(Frames) /\ state \in [Proc -> States]
  BY <1>1 DEF TypeOK, States
<1>3. /\ state' \in [Proc -> States] /\ process_current' \in Pointer
      /\ stack' \in Seq(Frames)
  BY <1>2, CallType DEF ProcessPostSynch, Event
<1>4. QED
  BY <1>3 DEF ProcessPostSynch, TypeOK, States, listVars, pollVars, queueVars

LEMMA ServiceType ==
  ASSUME TypeOK, Service
  PROVE  TypeOK'
<1>1. ASSUME PostOne \/ PostAll PROVE TypeOK'
  <2>1. \E e \in EventData : ProcessPost(e)
    BY <1>1, PostEventsAssumption
       DEF PostOne, PostAll, EventData, Event, Pointer, BROADCAST
  <2>2. QED BY <2>1, PostType
<1>2. ASSUME NEW p \in Synched, ProcessPostSynch(p) PROVE TypeOK'
  BY <1>2, PostSynchType, EnvironmentAssumption
<1>3. ASSUME NEW p \in Started, ProcessStart(p) PROVE TypeOK'
  BY <1>3, StartType, EnvironmentAssumption
<1>4. ASSUME NEW p \in Exited, ProcessExit(p) PROVE TypeOK'
  <2>1. p \in Proc /\ process_current \in Pointer /\ stack \in Seq(Frames)
    BY EnvironmentAssumption DEF TypeOK
  <2>2. ExitProcess(p, process_current, stack)
    BY <1>4 DEF ProcessExit
  <2>3. /\ state' \in [Proc -> States] /\ process_list' \in Seq(Proc)
        /\ next' \in [Proc -> Pointer] /\ stack' \in Seq(Frames)
    BY <2>1, <2>2, ExitType
  <2>4. QED
    BY <1>4, <2>3 DEF ProcessExit, TypeOK, States, pollVars, queueVars
<1>5. QED BY <1>1, <1>2, <1>3, <1>4 DEF Service

LEMMA ReturnType ==
  ASSUME TypeOK, Return
  PROVE  TypeOK'
<1>1. stack # <<>> /\ Pop \in Seq(Frames)
  BY TopType DEF Return, ThreadYields, ThreadEnds, ByeReturns, TopIs
<1>2. CASE ThreadYields
  <2>1. state' \in [Proc -> States]
    BY <1>2 DEF ThreadYields, TypeOK, States
  <2>2. QED
    BY <1>1, <1>2, <2>1
       DEF ThreadYields, TypeOK, States, listVars, pollVars, queueVars
<1>3. CASE ThreadEnds
  <2>1. Top.p \in Proc
    BY <1>1, <1>3, TopFrame DEF ThreadEnds, TopIs, ThreadFrames
  <2>2. /\ state' \in [Proc -> States] /\ process_list' \in Seq(Proc)
        /\ next' \in [Proc -> Pointer] /\ stack' \in Seq(Frames)
    BY <1>1, <1>3, <2>1, ExitType DEF ThreadEnds, Pointer
  <2>3. QED
    BY <1>3, <2>2 DEF ThreadEnds, TypeOK, States, pollVars, queueVars
<1>4. CASE ByeReturns
  BY <1>1, <1>4 DEF ByeReturns, TypeOK, listVars, pollVars, queueVars
<1>5. QED BY <1>2, <1>3, <1>4 DEF Return

LEMMA PollRequestType ==
  ASSUME TypeOK, NEW p \in Proc, PollRequest(p)
  PROVE  TypeOK'
BY DEF PollRequest, ProcessPoll, TypeOK, listVars, pollVars, queueVars

LEMMA TypeInductive == TypeOK /\ [Next]_vars => TypeOK'
<1> SUFFICES ASSUME TypeOK, [Next]_vars PROVE TypeOK'
  OBVIOUS
<1>1. CASE Kernel
  <2>1. CASE SynchReturn
    <3>1. stack # <<>> /\ Top \in SynchFrames
      BY <2>1, TopFrame DEF SynchReturn, TopIs
    <3>2. stack' \in Seq(Frames) /\ process_current' \in Pointer
      BY <2>1, <3>1, TopType DEF SynchReturn, CurrentRestored, SynchFrames
    <3>3. QED
      BY <2>1, <3>2 DEF SynchReturn, TypeOK, listVars, pollVars, queueVars
  <2>2. CASE BootDone
    BY <2>2 DEF BootDone, TypeOK, listVars, pollVars, queueVars
  <2>3. QED
    BY <1>1, <2>1, <2>2, PollStepsType, DoEventType, BcastStepsType, ExitStepsType
       DEF Kernel
<1>2. CASE Return
  BY <1>2, ReturnType
<1>3. CASE Service
  BY <1>3, ServiceType
<1>4. CASE \E p \in Proc : Boot(p)
  BY <1>4, StartType DEF Boot
<1>5. CASE \E p \in Proc : PollRequest(p)
  BY <1>5, PollRequestType
<1>6. CASE UNCHANGED vars
  BY <1>6 DEF TypeOK, vars, listVars, pollVars, queueVars
<1>7. QED BY <1>1, <1>2, <1>3, <1>4, <1>5, <1>6 DEF Next

(* The kernel's variables keep their types: the event ring stays within    *)
(* its bounds and every frame on the stack is one the code can make.       *)
THEOREM KernelTypes == Spec => []TypeOK
<1>1. Init => TypeOK
  BY InitTypeOK
<1>2. TypeOK /\ [Next]_vars => TypeOK'
  BY TypeInductive
<1>3. QED BY <1>1, <1>2, PTL DEF Spec

----------------------------------------------------------------------------
(* The event ring of the kernel implements the FIFO of EventQueue, for     *)
(* every size of the ring.                                                 *)

\* The slot k places after first.
Slot(first, k) == (first + k) % NumEvents

LEMMA ModOnce ==
  ASSUME NEW n \in Nat \ {0}, NEW a \in 0 .. n - 1, NEW k \in 0 .. n
  PROVE  (a + k) % n = IF a + k < n THEN a + k ELSE a + k - n
OBVIOUS

LEMMA SlotValue ==
  ASSUME NEW first \in 0 .. NumEvents - 1, NEW k \in 0 .. NumEvents
  PROVE  /\ Slot(first, k) = IF first + k < NumEvents THEN first + k
                             ELSE first + k - NumEvents
         /\ Slot(first, k) \in 0 .. NumEvents - 1
<1>1. Slot(first, k) = IF first + k < NumEvents THEN first + k
                       ELSE first + k - NumEvents
  BY ModOnce, NumEventsAssumption DEF Slot
<1>2. QED BY <1>1, NumEventsAssumption

Window(ring, n, first) == [i \in 1 .. n |-> ring[Slot(first, i - 1)]]

LEMMA PendingIsWindow == Pending = Window(events, nevents, fevent)
BY DEF Pending, Window, Slot

LEMMA WindowType ==
  ASSUME NEW ring \in [0 .. NumEvents - 1 -> EventData],
         NEW n \in 0 .. NumEvents, NEW first \in 0 .. NumEvents - 1
  PROVE  /\ Window(ring, n, first) \in Seq(EventData)
         /\ Len(Window(ring, n, first)) = n
         /\ \A i \in 1 .. n :
              Window(ring, n, first)[i] = ring[Slot(first, i - 1)]
<1>1. n \in Nat
  BY NumEventsAssumption
<1>2. ASSUME NEW i \in 1 .. n PROVE ring[Slot(first, i - 1)] \in EventData
  <2>1. i - 1 \in 0 .. NumEvents
    BY NumEventsAssumption
  <2>2. QED BY <2>1, SlotValue
<1>3. Window(ring, n, first) \in [1 .. n -> EventData]
  BY <1>2 DEF Window
<1>4. QED BY <1>1, <1>3 DEF Window

LEMMA WindowPost ==
  ASSUME NEW ring \in [0 .. NumEvents - 1 -> EventData],
         NEW n \in 0 .. NumEvents - 1, NEW first \in 0 .. NumEvents - 1,
         NEW e \in EventData
  PROVE  Window([ring EXCEPT ![Slot(first, n)] = e], n + 1, first)
           = Append(Window(ring, n, first), e)
<1> DEFINE ring2 == [ring EXCEPT ![Slot(first, n)] = e]
           w     == Window(ring, n, first)
           w2    == Window(ring2, n + 1, first)
<1>0. n \in 0 .. NumEvents /\ n + 1 \in 0 .. NumEvents
  BY NumEventsAssumption
<1>1. /\ n \in 0 .. NumEvents /\ n + 1 \in 0 .. NumEvents
      /\ Slot(first, n) \in 0 .. NumEvents - 1
      /\ ring2 \in [0 .. NumEvents - 1 -> EventData]
  BY <1>0, SlotValue
<1>2. /\ w \in Seq(EventData) /\ Len(w) = n
      /\ \A i \in 1 .. n : w[i] = ring[Slot(first, i - 1)]
  BY <1>1, WindowType
<1> HIDE DEF ring2
<1>3. /\ w2 \in Seq(EventData) /\ Len(w2) = n + 1
      /\ \A i \in 1 .. n + 1 : w2[i] = ring2[Slot(first, i - 1)]
  BY <1>1, WindowType
<1>4. ASSUME NEW i \in 1 .. n PROVE w2[i] = w[i]
  <2>1. i - 1 \in 0 .. NumEvents /\ i \in 1 .. n + 1
    BY NumEventsAssumption
  <2>2. /\ Slot(first, i - 1) \in 0 .. NumEvents - 1
        /\ Slot(first, i - 1) = IF first + (i - 1) < NumEvents
             THEN first + (i - 1) ELSE first + (i - 1) - NumEvents
    BY <2>1, SlotValue
  <2>3. Slot(first, n) = IF first + n < NumEvents THEN first + n
                         ELSE first + n - NumEvents
    BY <1>1, SlotValue
  <2>4. Slot(first, i - 1) # Slot(first, n)
    BY <2>2, <2>3, NumEventsAssumption
  <2>5. ring2[Slot(first, i - 1)] = ring[Slot(first, i - 1)]
    BY <2>2, <2>4 DEF ring2
  <2>6. QED BY <1>2, <1>3, <2>1, <2>5
<1>5. w2[n + 1] = e
  <2>1. n + 1 \in 1 .. n + 1 /\ (n + 1) - 1 = n
    BY NumEventsAssumption
  <2>2. QED BY <1>1, <1>3, <2>1 DEF ring2
<1> HIDE DEF w, w2
<1>6. w2 = Append(w, e)
  BY <1>1, <1>2, <1>3, <1>4, <1>5
<1>7. QED BY <1>6 DEF w, w2, ring2

LEMMA WindowTake ==
  ASSUME NEW ring \in [0 .. NumEvents - 1 -> EventData],
         NEW n \in 1 .. NumEvents, NEW first \in 0 .. NumEvents - 1
  PROVE  /\ Window(ring, n, first) # <<>>
         /\ Window(ring, n - 1, Slot(first, 1)) = Tail(Window(ring, n, first))
<1> DEFINE w  == Window(ring, n, first)
           w2 == Window(ring, n - 1, Slot(first, 1))
<1>1. /\ n \in 0 .. NumEvents /\ n - 1 \in 0 .. NumEvents
      /\ 1 \in 0 .. NumEvents
  BY NumEventsAssumption
<1>2. /\ Slot(first, 1) \in 0 .. NumEvents - 1
      /\ Slot(first, 1) = IF first + 1 < NumEvents THEN first + 1
                          ELSE first + 1 - NumEvents
  BY <1>1, SlotValue
<1>3. /\ w \in Seq(EventData) /\ Len(w) = n
      /\ \A i \in 1 .. n : w[i] = ring[Slot(first, i - 1)]
  BY <1>1, WindowType
<1>4. /\ w2 \in Seq(EventData) /\ Len(w2) = n - 1
      /\ \A i \in 1 .. n - 1 : w2[i] = ring[Slot(Slot(first, 1), i - 1)]
  BY <1>1, <1>2, WindowType
<1>5. ASSUME NEW i \in 1 .. n - 1 PROVE w2[i] = w[i + 1]
  <2>1. i - 1 \in 0 .. NumEvents /\ i \in 0 .. NumEvents /\ i + 1 \in 1 .. n
        /\ (i + 1) - 1 = i
    BY NumEventsAssumption
  <2>2. Slot(first, i) = IF first + i < NumEvents THEN first + i
                         ELSE first + i - NumEvents
    BY <2>1, SlotValue
  <2> DEFINE second == Slot(first, 1)
  <2>3. second \in 0 .. NumEvents - 1
    BY <1>2
  <2> HIDE DEF second
  <2>4. Slot(second, i - 1) = IF second + (i - 1) < NumEvents
             THEN second + (i - 1) ELSE second + (i - 1) - NumEvents
    BY <2>1, <2>3, SlotValue
  <2>5. Slot(second, i - 1) = Slot(first, i)
    BY <1>2, <2>2, <2>4, NumEventsAssumption DEF second
  <2>6. QED BY <1>3, <1>4, <2>1, <2>5 DEF second
<1> HIDE DEF w, w2
<1>6. w # <<>> /\ w2 = Tail(w)
  BY <1>1, <1>3, <1>4, <1>5
<1>7. QED BY <1>6 DEF w, w2

LEMMA PendingOfSame ==
  ASSUME UNCHANGED queueVars
  PROVE  UNCHANGED Pending
BY DEF queueVars, Pending

\* process_post, as the abstract queue sees it.
LEMMA PostRefines ==
  ASSUME TypeOK, NEW e \in EventData, ProcessPost(e)
  PROVE  Abstract!Post(e) \/ UNCHANGED Pending
<1>1. CASE Full
  BY <1>1, PendingOfSame DEF ProcessPost
<1>2. CASE ~Full
  <2>1. nevents \in 0 .. NumEvents - 1 /\ nevents \in 0 .. NumEvents
    BY <1>2, NumEventsAssumption DEF Full, TypeOK
  <2>2. FreeSlot = Slot(fevent, nevents)
    <3>1. fevent + nevents \in Nat /\ fevent + nevents < ByteRange
      BY <2>1, NumEventsAssumption DEF ByteRange, TypeOK
    <3>2. (fevent + nevents) % ByteRange = fevent + nevents
      BY <3>1 DEF ByteRange
    <3>3. QED BY <3>2 DEF FreeSlot, Slot
  <2>3. Pending' = Window([events EXCEPT ![Slot(fevent, nevents)] = e],
                          nevents + 1, fevent)
    BY <1>2, <2>2, PendingIsWindow DEF ProcessPost, Pending, Window, Slot
  <2>4. Pending' = Append(Pending, e)
    BY <2>1, <2>3, WindowPost, PendingIsWindow DEF TypeOK
  <2>5. Len(Pending) # NumEvents
    BY <1>2, <2>1, WindowType, PendingIsWindow DEF Full, TypeOK
  <2>6. QED BY <2>4, <2>5 DEF Abstract!Post, Abstract!Full
<1>3. QED BY <1>1, <1>2

\* do_event, as the abstract queue sees it.
LEMMA TakeRefines ==
  ASSUME TypeOK, DoEvent
  PROVE  Abstract!Take \/ UNCHANGED Pending
<1>1. CASE nevents = 0
  BY <1>1, PendingOfSame DEF DoEvent, queueVars
<1>2. CASE nevents # 0
  <2>1. nevents \in 1 .. NumEvents
    BY <1>2, NumEventsAssumption DEF TypeOK
  <2>2. Pending' = Window(events, nevents - 1, Slot(fevent, 1))
    BY <1>2 DEF DoEvent, Pending, Window, Slot
  <2>3. QED
    BY <2>1, <2>2, WindowTake, PendingIsWindow DEF Abstract!Take, TypeOK
<1>3. QED BY <1>1, <1>2

LEMMA StepRefines ==
  ASSUME TypeOK, [Next]_vars
  PROVE  [Abstract!Next]_Pending
<1>1. CASE DoEvent
  BY <1>1, TakeRefines DEF Abstract!Next
<1>2. CASE PostOne \/ PostAll
  <2>1. \E e \in EventData : ProcessPost(e)
    BY <1>2, PostEventsAssumption
       DEF PostOne, PostAll, EventData, Event, Pointer, BROADCAST
  <2>2. QED BY <2>1, PostRefines DEF Abstract!Next
<1>3. CASE ~DoEvent /\ ~PostOne /\ ~PostAll
  <2>1. CASE Kernel
    BY <1>3, <2>1, PendingOfSame
       DEF Kernel, RunPoll, PollEnd, PollSkip, PollCall, PollAdvance, BcastCheck,
           BcastCall, BcastAdvance, ExitVisit, ExitAdvance, ExitThread, ExitUnlink,
           SynchReturn, BootDone
  <2>2. CASE Return
    BY <2>2, PendingOfSame DEF Return, ThreadYields, ThreadEnds, ByeReturns
  <2>3. CASE Service
    BY <1>3, <2>3, PendingOfSame
       DEF Service, ProcessPostSynch, ProcessStart, ProcessExit
  <2>4. CASE \E p \in Proc : Boot(p) \/ PollRequest(p)
    BY <2>4, PendingOfSame DEF Boot, ProcessStart, PollRequest, ProcessPoll
  <2>5. CASE UNCHANGED vars
    BY <2>5, PendingOfSame DEF vars, queueVars
  <2>6. QED BY <2>1, <2>2, <2>3, <2>4, <2>5 DEF Next
<1>4. QED BY <1>1, <1>2, <1>3

(* What lies in events/nevents/fevent behaves as a FIFO of capacity        *)
(* PROCESS_CONF_NUMEVENTS: nothing posted is lost, reordered or            *)
(* duplicated, whatever handlers do between a post and its delivery.       *)
THEOREM RingImplementsFifo == Spec => QueueIsFifo
<1>1. Init => Abstract!Init
  BY DEF Init, Abstract!Init, Pending
<1>2. TypeOK /\ [Next]_vars => [Abstract!Next]_Pending
  BY StepRefines
<1>3. QED
  BY <1>1, <1>2, KernelTypes, PTL DEF Spec, QueueIsFifo, Abstract!Spec

----------------------------------------------------------------------------
(* IInv of ProcessProps is inductive as long as no process exits itself by *)
(* process_exit, and it implies that protothreads are not reentered, that  *)
(* p->state and PROCESS_CURRENT() are right, and that exits are exclusive. *)

----------------------------------------------------------------------------
(* Sequences *)

LEMMA PushFacts ==
  ASSUME NEW s \in Seq(Frames), NEW f \in Frames
  PROVE  /\ Append(s, f) \in Seq(Frames)
         /\ Len(s) \in Nat /\ DOMAIN s = 1 .. Len(s)
         /\ Len(Append(s, f)) = Len(s) + 1
         /\ DOMAIN Append(s, f) = 1 .. Len(s) + 1
         /\ \A i \in 1 .. Len(s) : Append(s, f)[i] = s[i]
         /\ Append(s, f)[Len(s) + 1] = f
OBVIOUS

LEMMA SliceFacts ==
  ASSUME NEW S, NEW s \in Seq(S), NEW m \in 1 .. Len(s) + 1, NEW n \in 0 .. Len(s),
         m <= n + 1
  PROVE  /\ SubSeq(s, m, n) \in Seq(S)
         /\ Len(SubSeq(s, m, n)) = n - m + 1
         /\ DOMAIN SubSeq(s, m, n) = 1 .. n - m + 1
         /\ \A i \in 1 .. n - m + 1 : SubSeq(s, m, n)[i] = s[m + i - 1]
<1>1. Len(s) \in Nat
  OBVIOUS
<1>2. Len(SubSeq(s, m, n)) = n - m + 1
  BY <1>1
<1>3. SubSeq(s, m, n) \in Seq(S)
  BY <1>1
<1>4. \A i \in 1 .. n - m + 1 : SubSeq(s, m, n)[i] = s[m + i - 1]
  BY <1>1
<1>5. QED BY <1>1, <1>2, <1>3, <1>4

LEMMA PopFacts ==
  ASSUME TypeOK, stack # <<>>
  PROVE  /\ Len(stack) \in Nat \ {0} /\ DOMAIN stack = 1 .. Len(stack)
         /\ Len(Pop) = Len(stack) - 1 /\ DOMAIN Pop = 1 .. Len(stack) - 1
         /\ \A i \in 1 .. Len(stack) - 1 : Pop[i] = stack[i]
         /\ Pop \in Seq(Frames)
<1> DEFINE n == Len(stack) - 1
<1>1. stack \in Seq(Frames) /\ Len(stack) \in Nat \ {0}
  BY DEF TypeOK
<1>2. n \in 0 .. Len(stack) /\ 1 \in 1 .. Len(stack) + 1 /\ 1 <= n + 1
      /\ n - 1 + 1 = n
  BY <1>1
<1>3. Pop = SubSeq(stack, 1, n)
  BY DEF Pop
<1> HIDE DEF n
<1>4. /\ Pop \in Seq(Frames) /\ Len(Pop) = n /\ DOMAIN Pop = 1 .. n
      /\ \A i \in 1 .. n : Pop[i] = stack[1 + i - 1]
  BY <1>1, <1>2, <1>3, SliceFacts
<1>5. \A i \in 1 .. n : 1 + i - 1 = i
  BY <1>1 DEF n
<1>6. QED BY <1>1, <1>4, <1>5 DEF n

LEMMA MovedFacts ==
  ASSUME TypeOK, stack # <<>>, NEW f \in Frames
  PROVE  /\ Moved(f) \in Seq(Frames)
         /\ Len(stack) \in Nat \ {0} /\ DOMAIN stack = 1 .. Len(stack)
         /\ Len(Moved(f)) = Len(stack) /\ DOMAIN Moved(f) = 1 .. Len(stack)
         /\ \A i \in 1 .. Len(stack) - 1 : Moved(f)[i] = stack[i]
         /\ Moved(f)[Len(stack)] = f
<1> DEFINE s == Pop
<1>1. /\ s \in Seq(Frames) /\ Len(s) = Len(stack) - 1
      /\ \A i \in 1 .. Len(stack) - 1 : s[i] = stack[i]
      /\ Len(stack) \in Nat \ {0} /\ DOMAIN stack = 1 .. Len(stack)
  BY PopFacts
<1>2. Moved(f) = Append(s, f)
  BY DEF Moved
<1> HIDE DEF s
<1>3. /\ Append(s, f) \in Seq(Frames)
      /\ Len(Append(s, f)) = Len(s) + 1
      /\ DOMAIN Append(s, f) = 1 .. Len(s) + 1
      /\ \A i \in 1 .. Len(s) : Append(s, f)[i] = s[i]
      /\ Append(s, f)[Len(s) + 1] = f
  BY <1>1, PushFacts
<1>4. Len(s) + 1 = Len(stack)
  BY <1>1
<1>5. QED BY <1>1, <1>2, <1>3, <1>4

----------------------------------------------------------------------------
(* The list *)

LEMMA NextIsListed ==
  ASSUME TypeOK, NEW p \in Proc, Listed(p), NextOf(p) # NULL
  PROVE  Listed(NextOf(p)) /\ NextOf(p) = process_list[IndexOf(p) + 1]
         /\ IndexOf(p) + 1 \in DOMAIN process_list
<1>1. IndexOf(p) \in DOMAIN process_list
  BY DEF Listed, IndexOf
<1>2. IndexOf(p) < Len(process_list) /\ NextOf(p) = process_list[IndexOf(p) + 1]
  BY DEF NextOf, Successor
<1>3. IndexOf(p) + 1 \in DOMAIN process_list
  BY <1>1, <1>2 DEF TypeOK
<1>4. QED BY <1>2, <1>3 DEF Listed

LEMMA FirstIsListed ==
  ASSUME TypeOK, FirstOf(process_list) # NULL
  PROVE  Listed(FirstOf(process_list))
<1>1. 1 \in DOMAIN process_list /\ FirstOf(process_list) = process_list[1]
  BY DEF FirstOf, TypeOK
<1>2. QED BY <1>1 DEF Listed

LEMMA WithoutFacts ==
  ASSUME TypeOK, NEW p \in Proc, Listed(p)
  PROVE  LET n == Len(process_list)
             k == IndexOf(p)
             w == Without(p)
         IN /\ n \in Nat /\ DOMAIN process_list = 1 .. n
            /\ k \in 1 .. n /\ process_list[k] = p
            /\ Len(w) = n - 1 /\ DOMAIN w = 1 .. n - 1
            /\ \A i \in 1 .. n - 1 :
                 w[i] = IF i < k THEN process_list[i] ELSE process_list[i + 1]
<1> DEFINE n == Len(process_list)
           k == IndexOf(p)
           w == Without(p)
<1>1. /\ n \in Nat /\ DOMAIN process_list = 1 .. n
      /\ k \in 1 .. n /\ process_list[k] = p
  BY DEF Listed, IndexOf, TypeOK
<1>2. /\ Len(w) = n - 1 /\ DOMAIN w = 1 .. n - 1
      /\ \A i \in 1 .. n - 1 :
           w[i] = IF i < k THEN process_list[i] ELSE process_list[i + 1]
  <2> DEFINE u == SubSeq(process_list, 1, k - 1)
             v == SubSeq(process_list, k + 1, n)
  <2>1. w = u \o v
    BY DEF Without
  <2>2. /\ k - 1 \in 0 .. n /\ k + 1 \in 1 .. n + 1 /\ 1 <= (k - 1) + 1
        /\ n \in 0 .. n /\ 1 \in 1 .. n + 1 /\ k + 1 <= n + 1
        /\ (k - 1) - 1 + 1 = k - 1 /\ n - (k + 1) + 1 = n - k
    BY <1>1
  <2>3. process_list \in Seq(Proc)
    BY DEF TypeOK
  <2>4. /\ u \in Seq(Proc) /\ Len(u) = k - 1
        /\ \A i \in 1 .. k - 1 : u[i] = process_list[1 + i - 1]
    BY <2>2, <2>3, SliceFacts
  <2>5. /\ v \in Seq(Proc) /\ Len(v) = n - k
        /\ \A i \in 1 .. n - k : v[i] = process_list[(k + 1) + i - 1]
    BY <2>2, <2>3, SliceFacts
  <2> HIDE DEF u, v, w, k, n
  <2>6. Len(w) = n - 1 /\ DOMAIN w = 1 .. n - 1
    <3>1. Len(u \o v) = Len(u) + Len(v) /\ u \o v \in Seq(Proc)
      BY <2>4, <2>5, ConcatProperties
    <3>2. QED BY <1>1, <2>1, <2>4, <2>5, <3>1
  <2>7. ASSUME NEW i \in 1 .. n - 1
        PROVE  w[i] = IF i < k THEN process_list[i] ELSE process_list[i + 1]
    <3>1. CASE i < k
      <4>1. i \in 1 .. k - 1 /\ 1 + i - 1 = i
        BY <1>1, <3>1
      <4>2. w[i] = u[i]
        BY <1>1, <2>1, <2>4, <2>5, <4>1, ConcatProperties
      <4>3. QED BY <2>4, <3>1, <4>1, <4>2
    <3>2. CASE ~(i < k)
      <4>1. i - (k - 1) \in 1 .. n - k /\ (k + 1) + (i - (k - 1)) - 1 = i + 1
        BY <1>1, <3>2
      <4>2. w[i] = v[i - (k - 1)]
        BY <1>1, <2>1, <2>4, <2>5, <2>6, <3>2, <4>1, ConcatProperties
      <4>3. QED BY <2>5, <3>2, <4>1, <4>2
    <3>3. QED BY <3>1, <3>2
  <2>8. QED BY <2>6, <2>7
<1>3. QED BY <1>1, <1>2

LEMMA UnlinkFacts ==
  ASSUME TypeOK, ListIsSet, NEW p \in Proc, Unlink(p)
  PROVE  /\ ListIsSet'
         /\ \A q \in Proc : Listed(q)' <=> Listed(q) /\ q # p
         /\ Listed(p) => /\ next'[p] = NextOf(p)
                         /\ \A q \in Proc : q = NextOf(p) => Listed(q)'
<1>1. CASE ~Listed(p)
  BY <1>1 DEF Unlink, listVars, ListIsSet, Listed
<1>2. CASE Listed(p)
  <2> DEFINE n == Len(process_list)
             k == IndexOf(p)
             w == Without(p)
  <2>1. /\ n \in Nat /\ DOMAIN process_list = 1 .. n
        /\ k \in 1 .. n /\ process_list[k] = p
    BY <1>2 DEF Listed, IndexOf, TypeOK
  <2>2. /\ Len(w) = n - 1 /\ DOMAIN w = 1 .. n - 1
        /\ \A i \in 1 .. n - 1 :
             w[i] = IF i < k THEN process_list[i] ELSE process_list[i + 1]
    BY <1>2, WithoutFacts
  <2>3. process_list' = w /\ next' = [next EXCEPT ![p] = NextOf(p)]
    BY <1>2 DEF Unlink
  <2> HIDE DEF w, k, n
  <2>4. ListIsSet'
    <3>1. ASSUME NEW i \in 1 .. n - 1, NEW j \in 1 .. n - 1, w[i] = w[j]
          PROVE  i = j
      <4> DEFINE a == IF i < k THEN i ELSE i + 1
                 b == IF j < k THEN j ELSE j + 1
      <4>1. a \in 1 .. n /\ b \in 1 .. n /\ (a = b => i = j)
        BY <2>1
      <4>2. process_list[a] = process_list[b]
        BY <2>2, <3>1
      <4>3. QED BY <2>1, <4>1, <4>2 DEF ListIsSet
    <3>2. QED BY <2>2, <2>3, <3>1 DEF ListIsSet
  <2>5. ASSUME NEW q \in Proc PROVE Listed(q)' <=> Listed(q) /\ q # p
    <3>1. ASSUME Listed(q)' PROVE Listed(q) /\ q # p
      <4>1. PICK i \in 1 .. n - 1 : w[i] = q
        BY <2>2, <2>3, <3>1 DEF Listed
      <4>2. CASE i < k
        BY <2>1, <2>2, <4>1, <4>2 DEF ListIsSet, Listed
      <4>3. CASE ~(i < k)
        <5>1. i + 1 \in 1 .. n /\ i + 1 # k /\ process_list[i + 1] = q
          BY <2>1, <2>2, <4>1, <4>3
        <5>2. QED BY <2>1, <5>1 DEF ListIsSet, Listed
      <4>4. QED BY <4>2, <4>3
    <3>2. ASSUME Listed(q), q # p PROVE Listed(q)'
      <4>1. PICK i \in 1 .. n : process_list[i] = q
        BY <2>1, <3>2 DEF Listed
      <4>2. i # k
        BY <2>1, <3>2, <4>1
      <4>3. CASE i < k
        <5>1. i \in 1 .. n - 1 /\ w[i] = q
          BY <2>1, <2>2, <4>1, <4>3
        <5>2. QED BY <2>2, <2>3, <5>1 DEF Listed
      <4>4. CASE i > k
        <5>1. i - 1 \in 1 .. n - 1 /\ w[i - 1] = q
          BY <2>1, <2>2, <4>1, <4>4
        <5>2. QED BY <2>2, <2>3, <5>1 DEF Listed
      <4>5. QED BY <2>1, <4>1, <4>2, <4>3, <4>4
    <3>3. QED BY <3>1, <3>2
  <2>6. next'[p] = NextOf(p)
    BY <2>3 DEF TypeOK
  <2>7. ASSUME NEW q \in Proc, q = NextOf(p) PROVE Listed(q)'
    <3>1. /\ Listed(q) /\ q = process_list[k + 1]
          /\ k + 1 \in DOMAIN process_list
      BY <1>2, <2>7, NextIsListed, NullAssumption DEF k
    <3>2. ASSUME q = p PROVE FALSE
      <4>1. k \in DOMAIN process_list /\ process_list[k + 1] = process_list[k]
        BY <2>1, <3>1, <3>2
      <4>2. k + 1 = k
        BY <3>1, <4>1 DEF ListIsSet
      <4>3. QED BY <2>1, <4>2
    <3>3. QED BY <2>5, <3>1, <3>2
  <2>8. QED BY <2>4, <2>5, <2>6, <2>7
<1>3. QED BY <1>1, <1>2

LEMMA StartFacts ==
  ASSUME TypeOK, ListIsSet, NEW p \in Proc, ~Listed(p),
         process_list' = <<p>> \o process_list
  PROVE  /\ ListIsSet'
         /\ \A q \in Proc : Listed(q)' <=> Listed(q) \/ q = p
<1> DEFINE n == Len(process_list)
<1>1. /\ n \in Nat /\ DOMAIN process_list = 1 .. n
      /\ DOMAIN process_list' = 1 .. n + 1
      /\ process_list'[1] = p
      /\ \A i \in 2 .. n + 1 : process_list'[i] = process_list[i - 1]
  BY DEF TypeOK
<1> HIDE DEF n
<1>2. ListIsSet'
  BY <1>1 DEF ListIsSet, Listed
<1>3. ASSUME NEW q \in Proc PROVE Listed(q)' <=> Listed(q) \/ q = p
  <2>1. ASSUME Listed(q)' PROVE Listed(q) \/ q = p
    BY <1>1, <2>1 DEF Listed
  <2>2. ASSUME Listed(q) PROVE Listed(q)'
    <3>1. PICK i \in 1 .. n : process_list[i] = q
      BY <1>1, <2>2 DEF Listed
    <3>2. i + 1 \in 2 .. n + 1 /\ i + 1 \in 1 .. n + 1 /\ (i + 1) - 1 = i
      BY <1>1
    <3>3. process_list'[i + 1] = q
      BY <1>1, <3>1, <3>2
    <3>4. QED BY <1>1, <3>2, <3>3 DEF Listed
  <2>3. ASSUME q = p PROVE Listed(q)'
    BY <1>1, <2>3 DEF Listed
  <2>4. QED BY <2>1, <2>2, <2>3
<1>4. QED BY <1>2, <1>3

----------------------------------------------------------------------------
(* The stack: what each way of changing it keeps of StackOk, ThreadsOk and *)
(* ExitsOk                                                                 *)

Good(s, st) == StackOk(s) /\ ThreadsOk(s, st) /\ ExitsOk(s, st)

\* The stack that call_process may find: no protothread is its last frame.
Under(s, st, p) ==
  \/ s = <<>>
  \/ s[Len(s)].kind \in {"synch", "exit", "bcast"}
  \/ s[Len(s)].kind = "poll" /\ s[Len(s)].p = p /\ s[Len(s)].at = "called"
       /\ st[p] = "RUNNING"

ExitFramesOf(s) == {i \in DOMAIN s : s[i].kind = "exit"}

LEMMA CallFacts ==
  ASSUME NEW base \in Seq(Frames), NEW st \in [Proc -> States], NEW p \in Proc,
         NEW ev \in Event, Good(base, st), Under(base, st, p),
         CallProcess(st, p, ev, base)
  PROVE  /\ Good(stack', state')
         /\ \A q \in Proc : state'[q] # "NONE" <=> st[q] # "NONE"
         /\ CurrentIsExecuting' /\ ~TopIs("poll")'
         /\ \A i \in DOMAIN stack' : stack'[i].kind = "exit" =>
              i \in DOMAIN base /\ stack'[i] = base[i]
<1>1. CASE st[p] # "RUNNING"
  <2>1. stack' = base /\ state' = st /\ process_current' = process_current
    BY <1>1 DEF CallProcess, Callable
  <2>2. base = <<>> \/ base[Len(base)].kind \in {"synch", "exit", "bcast"}
    BY <1>1 DEF Under
  <2>3. QED
    BY <2>1, <2>2 DEF Good, CurrentIsExecuting, Executing, TopIs, Top
<1>2. CASE st[p] = "RUNNING"
  <2> DEFINE f == Thread(p, ev)
             n == Len(base)
  <2>1. f \in Frames /\ f.kind = "thread" /\ f.p = p
    BY DEF Thread, Frames, ThreadFrames
  <2>2. stack' = Append(base, f) /\ process_current' = p
        /\ state' = [st EXCEPT ![p] = "CALLED"]
    BY <1>2 DEF CallProcess, Callable
  <2> HIDE DEF f
  <2>3. /\ n \in Nat /\ DOMAIN base = 1 .. n
        /\ Len(stack') = n + 1 /\ DOMAIN stack' = 1 .. n + 1
        /\ \A i \in 1 .. n : stack'[i] = base[i]
        /\ stack'[n + 1] = f
    BY <2>1, <2>2, PushFacts
  <2>4. n > 0 => \/ base[n].kind \in {"synch", "exit", "bcast"}
                 \/ base[n].kind = "poll" /\ base[n].p = p /\ base[n].at = "called"
    BY <2>3 DEF Under
  <2> HIDE DEF n
  <2>5. StackOk(stack')
    BY <2>1, <2>3, <2>4 DEF StackOk, Good
  <2>6. ThreadsOk(stack', state')
    <3>1. \A i \in 1 .. n : base[i].kind = "thread" => base[i].p # p
      BY <1>2, <2>3 DEF Good, ThreadsOk
    <3>2. \A q \in Proc : q # p => state'[q] = st[q]
      BY <2>2 DEF States
    <3>3. state'[p] = "CALLED"
      BY <2>2 DEF States
    <3>4. \A i \in 1 .. n : base[i].kind = "thread" => base[i].p \in Proc
      BY <2>3 DEF Frames, ThreadFrames, ByeFrames, SynchFrames, PollFrames,
                  BcastFrames, ExitFrames
    <3>5. \A i \in DOMAIN stack' :
            stack'[i].kind = "thread" => state'[stack'[i].p] = "CALLED"
      BY <2>1, <2>3, <3>1, <3>2, <3>3, <3>4 DEF Good, ThreadsOk
    <3>6. ASSUME NEW q \in Proc, state'[q] = "CALLED"
          PROVE  \E i \in DOMAIN stack' : stack'[i].kind = "thread" /\ stack'[i].p = q
      <4>1. CASE q = p
        <5>1. n + 1 \in DOMAIN stack'
          BY <2>3
        <5>2. QED BY <2>1, <2>3, <4>1, <5>1
      <4>2. CASE q # p
        <5>1. PICK i \in 1 .. n : base[i].kind = "thread" /\ base[i].p = q
          BY <2>3, <3>2, <3>6, <4>2 DEF Good, ThreadsOk
        <5>2. i \in DOMAIN stack'
          BY <2>3
        <5>3. QED BY <2>3, <5>1, <5>2
      <4>3. QED BY <4>1, <4>2
    <3>7. ASSUME NEW i \in DOMAIN stack', NEW j \in DOMAIN stack',
                 stack'[i].kind = "thread", stack'[j].kind = "thread",
                 stack'[i].p = stack'[j].p
          PROVE  i = j
      BY <2>1, <2>3, <3>1, <3>7 DEF Good, ThreadsOk
    <3>8. QED BY <3>5, <3>6, <3>7 DEF ThreadsOk
  <2>7. ExitsOk(stack', state')
    <3>1. \A i \in 1 .. n : base[i].kind = "exit" => base[i].p \in Proc
      BY <2>3 DEF Frames, ThreadFrames, ByeFrames, SynchFrames, PollFrames,
                  BcastFrames, ExitFrames
    <3>2. \A q \in Proc : st[q] = "NONE" => state'[q] = "NONE"
      BY <1>2, <2>2 DEF States
    <3>3. QED BY <2>1, <2>3, <3>1, <3>2 DEF Good, ExitsOk
  <2>8. \A q \in Proc : state'[q] # "NONE" <=> st[q] # "NONE"
    BY <1>2, <2>2 DEF States
  <2>9. CurrentIsExecuting' /\ ~TopIs("poll")'
    BY <2>1, <2>2, <2>3 DEF CurrentIsExecuting, TopIs, Top
  <2>10. \A i \in DOMAIN stack' : stack'[i].kind = "exit" =>
              i \in DOMAIN base /\ stack'[i] = base[i]
    BY <2>1, <2>3
  <2>11. QED BY <2>5, <2>6, <2>7, <2>8, <2>9, <2>10 DEF Good
<1>3. QED BY <1>1, <1>2

\* A loop moves on: its frame stays a frame of the same loop.
LEMMA MovedGood ==
  ASSUME TypeOK, stack # <<>>, Good(stack, state), NEW f \in Frames,
         Top.kind \in {"poll", "bcast", "exit"}, f.kind = Top.kind,
         Top.kind = "exit" => f.p = Top.p /\ f.old = Top.old
  PROVE  /\ Good(Moved(f), state)
         /\ Moved(f) # <<>> /\ Moved(f)[Len(Moved(f))] = f
         /\ \A i \in DOMAIN Moved(f) : Moved(f)[i].kind = "exit" =>
              i \in DOMAIN stack /\ stack[i].kind = "exit" /\ stack[i].p = Moved(f)[i].p
<1> DEFINE n == Len(stack)
           m == Moved(f)
<1>1. /\ m \in Seq(Frames) /\ n \in Nat \ {0} /\ DOMAIN stack = 1 .. n
      /\ Len(m) = n /\ DOMAIN m = 1 .. n
      /\ \A i \in 1 .. n - 1 : m[i] = stack[i]
      /\ m[n] = f /\ Top = stack[n]
  BY MovedFacts DEF Top
<1> HIDE DEF m, n
<1>2. StackOk(m)
  BY <1>1 DEF Good, StackOk
<1>3. ThreadsOk(m, state)
  <2>1. \A i \in 1 .. n : /\ m[i].kind = "thread" <=> stack[i].kind = "thread"
                          /\ m[i].kind = "thread" => m[i] = stack[i]
    BY <1>1
  <2>2. QED BY <1>1, <2>1 DEF Good, ThreadsOk
<1>4. \A i \in 1 .. n : /\ m[i].kind = "exit" <=> stack[i].kind = "exit"
                        /\ m[i].kind = "exit" => m[i].p = stack[i].p
  BY <1>1
<1>5. ExitsOk(m, state)
  BY <1>1, <1>4 DEF Good, ExitsOk
<1>6. m # <<>>
  BY <1>1
<1>7. QED BY <1>1, <1>2, <1>3, <1>4, <1>5, <1>6 DEF Good, m

LEMMA PopGood ==
  ASSUME TypeOK, stack # <<>>, Good(stack, state)
  PROVE  /\ StackOk(Pop) /\ ExitsOk(Pop, state)
         /\ Top.kind # "thread" => ThreadsOk(Pop, state)
         /\ Pop # <<>> => /\ Len(stack) > 1 /\ Len(Pop) = Len(stack) - 1
                          /\ Pop[Len(Pop)] = stack[Len(stack) - 1]
<1> DEFINE n == Len(stack)
           m == Pop
<1>1. /\ n \in Nat \ {0} /\ DOMAIN stack = 1 .. n
      /\ Len(m) = n - 1 /\ DOMAIN m = 1 .. n - 1
      /\ \A i \in 1 .. n - 1 : m[i] = stack[i]
      /\ m \in Seq(Frames) /\ Top = stack[n]
  BY PopFacts DEF Top
<1> HIDE DEF m, n
<1>2. StackOk(m)
  BY <1>1 DEF Good, StackOk
<1>3. ExitsOk(m, state)
  BY <1>1 DEF Good, ExitsOk
<1>4. ASSUME Top.kind # "thread" PROVE ThreadsOk(m, state)
  <2>1. ASSUME NEW q \in Proc, state[q] = "CALLED"
        PROVE  \E i \in DOMAIN m : m[i].kind = "thread" /\ m[i].p = q
    <3>1. PICK i \in 1 .. n : stack[i].kind = "thread" /\ stack[i].p = q
      BY <1>1, <2>1 DEF Good, ThreadsOk
    <3>2. i \in 1 .. n - 1
      BY <1>1, <1>4, <3>1
    <3>3. QED BY <1>1, <3>1, <3>2
  <2>2. QED BY <1>1, <2>1 DEF Good, ThreadsOk
<1>5. m # <<>> => n > 1
  BY <1>1
<1>6. QED BY <1>1, <1>2, <1>3, <1>4, <1>5 DEF m, n

\* A do_poll is entered by main() alone or under a broadcast.
LEMMA PushPoll ==
  ASSUME TypeOK, NEW base \in Seq(Frames), Good(base, state),
         \A i \in DOMAIN base : base[i].kind = "bcast",
         stack' = Append(base, Poll(FirstOf(process_list))),
         UNCHANGED <<state, process_list, next>>
  PROVE  /\ Good(stack', state') /\ CurrentIsExecuting' /\ PollStaysOnList'
         /\ \A i \in DOMAIN stack' : stack'[i].kind # "exit"
<1> DEFINE f == Poll(FirstOf(process_list))
           n == Len(base)
<1>1. /\ f \in Frames /\ f.kind = "poll" /\ f.at = "visit"
      /\ f.p = FirstOf(process_list)
  BY FirstOfType DEF Poll, Frames, PollFrames
<1> HIDE DEF f
<1>2. /\ n \in Nat /\ DOMAIN base = 1 .. n
      /\ Len(stack') = n + 1 /\ DOMAIN stack' = 1 .. n + 1
      /\ \A i \in 1 .. n : stack'[i] = base[i]
      /\ stack'[n + 1] = f
  BY <1>1, PushFacts DEF f
<1> HIDE DEF n
<1>3. StackOk(stack')
  BY <1>1, <1>2 DEF StackOk, Good
<1>4. ThreadsOk(stack', state')
  <2>1. \A i \in 1 .. n + 1 : stack'[i].kind # "thread"
    BY <1>1, <1>2
  <2>2. \A q \in Proc : state'[q] # "CALLED"
    BY <1>2 DEF Good, ThreadsOk
  <2>3. QED BY <1>2, <2>1, <2>2 DEF ThreadsOk
<1>5. \A i \in DOMAIN stack' : stack'[i].kind # "exit"
  BY <1>1, <1>2
<1>6. CurrentIsExecuting'
  BY <1>1, <1>2 DEF CurrentIsExecuting, Executing, TopIs, Top
<1>7. PollStaysOnList'
  <2>1. Top' = f
    BY <1>2 DEF Top
  <2>2. FirstOf(process_list) # NULL => Listed(FirstOf(process_list))
    BY FirstIsListed
  <2>3. QED BY <1>1, <2>1, <2>2 DEF PollStaysOnList, Listed
<1>8. QED BY <1>3, <1>4, <1>5, <1>6, <1>7 DEF Good, ExitsOk

\* exit_process of a live process, from a protothread or at the end of a call.
LEMMA EnterExit ==
  ASSUME TypeOK, NEW p \in Proc, NEW from \in Pointer, NEW base \in Seq(Frames),
         Listed(p), state[p] # "NONE", ExitProcess(p, from, base),
         StackOk(base), ExitsOk(base, state),
         ThreadsOk(base, [state EXCEPT ![p] = "NONE"]),
         \/ base = <<>>
         \/ base[Len(base)].kind \in {"synch", "exit", "bcast"}
         \/ base[Len(base)].kind = "poll" /\ base[Len(base)].p = p
              /\ base[Len(base)].at = "called"
         \/ base[Len(base)].kind \in {"thread", "bye"}
              /\ base[Len(base)].p = process_current
  PROVE  /\ Good(stack', state') /\ CurrentIsExecuting' /\ ~TopIs("poll")'
         /\ UNCHANGED <<process_list, next>>
         /\ state' = [state EXCEPT ![p] = "NONE"]
         /\ \A i \in DOMAIN stack' : stack'[i].kind = "exit" =>
              stack'[i].p = p \/ (i \in DOMAIN base /\ stack'[i] = base[i])
<1> DEFINE f == [kind |-> "exit", at |-> "visit", p |-> p, from |-> from,
                 old |-> process_current, q |-> FirstOf(process_list)]
           n == Len(base)
<1>1. /\ f \in Frames /\ f.kind = "exit" /\ f.p = p /\ f.old = process_current
  BY FirstOfType DEF Frames, ExitFrames, TypeOK
<1>2. /\ stack' = Append(base, f) /\ UNCHANGED <<process_list, next>>
      /\ state' = [state EXCEPT ![p] = "NONE"]
  BY DEF ExitProcess, StateOfExiting, listVars
<1> HIDE DEF f
<1>3. /\ n \in Nat /\ DOMAIN base = 1 .. n
      /\ Len(stack') = n + 1 /\ DOMAIN stack' = 1 .. n + 1
      /\ \A i \in 1 .. n : stack'[i] = base[i]
      /\ stack'[n + 1] = f
  BY <1>1, <1>2, PushFacts
<1>4. n > 0 =>
         \/ base[n].kind \in {"synch", "exit", "bcast"}
         \/ base[n].kind = "poll" /\ base[n].p = p /\ base[n].at = "called"
         \/ base[n].kind \in {"thread", "bye"} /\ base[n].p = process_current
  BY <1>3
<1> HIDE DEF n
<1>5. StackOk(stack')
  BY <1>1, <1>3, <1>4 DEF StackOk
<1>6. ThreadsOk(stack', state')
  <2>1. \A i \in DOMAIN stack' : stack'[i].kind = "thread" =>
          i \in DOMAIN base /\ stack'[i] = base[i]
    BY <1>1, <1>3
  <2>2. \A i \in DOMAIN base : i \in DOMAIN stack' /\ stack'[i] = base[i]
    BY <1>3
  <2>3. QED BY <1>2, <2>1, <2>2 DEF ThreadsOk
<1>7. ExitsOk(stack', state')
  <2>1. \A i \in 1 .. n : base[i].kind = "exit" =>
          /\ base[i].p \in Proc /\ state[base[i].p] = "NONE" /\ base[i].p # p
    BY <1>3 DEF ExitsOk, Frames, ThreadFrames, ByeFrames, SynchFrames, PollFrames,
                BcastFrames, ExitFrames
  <2>2. state'[p] = "NONE" /\ \A q \in Proc : state[q] = "NONE" => state'[q] = "NONE"
    BY <1>2 DEF TypeOK
  <2>3. QED BY <1>1, <1>3, <2>1, <2>2 DEF ExitsOk
<1>8. CurrentIsExecuting' /\ ~TopIs("poll")'
  BY <1>1, <1>3 DEF CurrentIsExecuting, Executing, TopIs, Top
<1>9. \A i \in DOMAIN stack' : stack'[i].kind = "exit" =>
        stack'[i].p = p \/ (i \in DOMAIN base /\ stack'[i] = base[i])
  BY <1>1, <1>3
<1>10. QED BY <1>2, <1>5, <1>6, <1>7, <1>8, <1>9 DEF Good

\* The frame process_post_synch leaves to restore its caller.
LEMMA PushSynch ==
  ASSUME TypeOK, Good(stack, state), CurrentIsExecuting, stack = <<>> \/ Executing
  PROVE  /\ Append(stack, Synch) \in Seq(Frames)
         /\ Good(Append(stack, Synch), state)
         /\ \A st, p : Under(Append(stack, Synch), st, p)
         /\ \A i \in DOMAIN Append(stack, Synch) :
              Append(stack, Synch)[i].kind = "exit" =>
                i \in DOMAIN stack /\ Append(stack, Synch)[i] = stack[i]
<1> DEFINE n == Len(stack)
           s == Append(stack, Synch)
<1>1. Synch \in Frames /\ Synch.kind = "synch" /\ Synch.caller = process_current
  BY DEF Synch, Frames, SynchFrames, TypeOK
<1>2. /\ n \in Nat /\ DOMAIN stack = 1 .. n /\ s \in Seq(Frames)
      /\ Len(s) = n + 1 /\ DOMAIN s = 1 .. n + 1
      /\ \A i \in 1 .. n : s[i] = stack[i]
      /\ s[n + 1] = Synch
  BY <1>1, PushFacts DEF TypeOK
<1>3. n > 0 => stack[n].kind \in {"thread", "bye"} /\ stack[n].p = process_current
  BY <1>2 DEF CurrentIsExecuting, Executing, TopIs, Top
<1> HIDE DEF s, n
<1>4. StackOk(s)
  BY <1>1, <1>2, <1>3 DEF StackOk, Good
<1>5. ThreadsOk(s, state)
  <2>1. \A i \in DOMAIN s : s[i].kind = "thread" => i \in DOMAIN stack /\ s[i] = stack[i]
    BY <1>1, <1>2
  <2>2. \A i \in DOMAIN stack : i \in DOMAIN s /\ s[i] = stack[i]
    BY <1>2
  <2>3. QED BY <2>1, <2>2 DEF Good, ThreadsOk
<1>6. \A i \in DOMAIN s : s[i].kind = "exit" => i \in DOMAIN stack /\ s[i] = stack[i]
  BY <1>1, <1>2
<1>7. ExitsOk(s, state)
  BY <1>6 DEF Good, ExitsOk
<1>8. \A st, p : Under(s, st, p)
  BY <1>1, <1>2 DEF Under
<1>9. QED BY <1>2, <1>4, <1>5, <1>6, <1>7, <1>8 DEF Good, s

----------------------------------------------------------------------------
(* Every step keeps IInv *)

LEMMA GoodStack == IInv => Good(stack, state)
BY DEF IInv, Good

\* A call while the list stays as it is.
LEMMA CallStep ==
  ASSUME IInv, TypeOK', NEW base \in Seq(Frames), NEW st \in [Proc -> States],
         NEW p \in Proc, NEW ev \in Event, Good(base, st), Under(base, st, p),
         CallProcess(st, p, ev, base), UNCHANGED <<process_list, next, events>>,
         \A q \in Proc : st[q] # "NONE" => Listed(q),
         \A i \in DOMAIN base : base[i].kind = "exit" => Listed(base[i].p)
  PROVE  IInv'
<1>1. /\ Good(stack', state')
      /\ \A q \in Proc : state'[q] # "NONE" <=> st[q] # "NONE"
      /\ CurrentIsExecuting' /\ ~TopIs("poll")'
      /\ \A i \in DOMAIN stack' : stack'[i].kind = "exit" =>
           i \in DOMAIN base /\ stack'[i] = base[i]
  BY CallFacts
<1>2. ListIsSet' /\ QueuedIsPosted'
  BY DEF IInv, ListIsSet, QueuedIsPosted
<1>3. RunningIsListed'
  BY <1>1 DEF RunningIsListed, Listed
<1>4. ExitingIsListed'
  BY <1>1 DEF ExitingIsListed, Listed
<1>5. PollStaysOnList'
  BY <1>1 DEF PollStaysOnList
<1>6. QED BY <1>1, <1>2, <1>3, <1>4, <1>5 DEF IInv, Good

\* A loop moves on without a call.
LEMMA MoveStep ==
  ASSUME IInv, TypeOK', stack # <<>>, NEW f \in Frames,
         Top.kind \in {"poll", "bcast", "exit"}, f.kind = Top.kind,
         Top.kind = "exit" => f.p = Top.p /\ f.old = Top.old,
         stack' = Moved(f), UNCHANGED <<process_list, next, state, events>>,
         f.kind = "poll" => f.at = "visit" /\ (f.p # NULL => Listed(f.p))
  PROVE  IInv'
<1>1. /\ Good(stack', state') /\ stack' # <<>> /\ Top' = f
      /\ \A i \in DOMAIN stack' : stack'[i].kind = "exit" =>
           i \in DOMAIN stack /\ stack[i].kind = "exit" /\ stack[i].p = stack'[i].p
  BY MovedGood, GoodStack DEF IInv, Top
<1>2. ListIsSet' /\ QueuedIsPosted' /\ RunningIsListed'
  BY DEF IInv, ListIsSet, QueuedIsPosted, RunningIsListed, Listed
<1>3. ExitingIsListed'
  BY <1>1 DEF IInv, ExitingIsListed, Listed
<1>4. CurrentIsExecuting'
  BY <1>1 DEF CurrentIsExecuting, Executing, TopIs
<1>5. PollStaysOnList'
  BY <1>1 DEF PollStaysOnList, TopIs, Listed
<1>6. QED BY <1>1, <1>2, <1>3, <1>4, <1>5 DEF IInv, Good

LEMMA PollStepsKeep ==
  ASSUME IInv, TypeOK', RunPoll \/ PollEnd \/ PollSkip \/ PollCall \/ PollAdvance
  PROVE  IInv'
<1>0. TypeOK /\ Good(stack, state)
  BY GoodStack DEF IInv
<1>1. CASE RunPoll /\ poll_requested
  <2>1. /\ stack = <<>> /\ stack' = Append(stack, Poll(FirstOf(process_list)))
        /\ UNCHANGED <<state, process_list, next, events>>
    BY <1>1 DEF RunPoll, EnterPoll, listVars, queueVars
  <2>2. /\ Good(stack', state') /\ CurrentIsExecuting' /\ PollStaysOnList'
        /\ \A i \in DOMAIN stack' : stack'[i].kind # "exit"
    <3>1. stack \in Seq(Frames) /\ \A i \in DOMAIN stack : stack[i].kind = "bcast"
      BY <1>0, <2>1 DEF TypeOK
    <3>2. QED BY <1>0, <2>1, <3>1, PushPoll
  <2>3. ListIsSet' /\ QueuedIsPosted' /\ RunningIsListed' /\ ExitingIsListed'
    BY <2>1, <2>2 DEF IInv, ListIsSet, QueuedIsPosted, RunningIsListed,
                      ExitingIsListed, Listed
  <2>4. QED BY <2>2, <2>3 DEF IInv, Good
<1>2. CASE RunPoll /\ ~poll_requested
  BY <1>2 DEF RunPoll, listVars, queueVars, IInv, ListIsSet, QueuedIsPosted,
     RunningIsListed, ExitingIsListed, CurrentIsExecuting, PollStaysOnList, Executing,
     TopIs, Top, Listed
<1>3. CASE PollEnd
  <2>1. /\ stack # <<>> /\ Top.kind = "poll" /\ stack' = Pop
        /\ UNCHANGED <<state, process_list, next, events, process_current>>
    BY <1>3 DEF PollEnd, TopAt, TopIs, listVars, queueVars
  <2>2. /\ Good(stack', state')
        /\ Pop # <<>> => /\ Len(stack) > 1 /\ Len(Pop) = Len(stack) - 1
                         /\ Pop[Len(Pop)] = stack[Len(stack) - 1]
    BY <1>0, <2>1, PopGood DEF Good
  <2>3. stack' # <<>> => Top'.kind = "bcast"
    <3>1. ASSUME stack' # <<>> PROVE stack[Len(stack) - 1].kind = "bcast"
      <4>1. Len(stack) > 1 /\ Len(stack) \in Nat /\ DOMAIN stack = 1 .. Len(stack)
        BY <1>0, <2>1, <2>2, <3>1, PopFacts
      <4>2. Len(stack) - 1 \in 1 .. Len(stack) - 1 /\ Len(stack) \in DOMAIN stack
        BY <4>1
      <4>3. QED BY <1>0, <2>1, <4>2 DEF Good, StackOk, Top
    <3>2. QED BY <2>1, <2>2, <3>1 DEF Top
  <2>4. CurrentIsExecuting' /\ PollStaysOnList'
    BY <2>3 DEF CurrentIsExecuting, PollStaysOnList, Executing, TopIs
  <2>5. \A i \in DOMAIN stack' : i \in DOMAIN stack /\ stack'[i] = stack[i]
    BY <1>0, <2>1, PopFacts
  <2>6. ListIsSet' /\ QueuedIsPosted' /\ RunningIsListed' /\ ExitingIsListed'
    BY <2>1, <2>5 DEF IInv, ListIsSet, QueuedIsPosted, RunningIsListed,
                      ExitingIsListed, Listed
  <2>7. QED BY <2>2, <2>4, <2>6, <2>1 DEF IInv, Good
<1>4. CASE PollSkip
  <2> DEFINE f == [Top EXCEPT !.p = NextOf(Top.p)]
  <2>1. stack # <<>> /\ Top.kind = "poll" /\ Top \in PollFrames /\ Top.at = "visit"
        /\ Top.p # NULL
    BY <1>0, <1>4, TopFrame DEF PollSkip, TopAt, TopIs
  <2>2. Top.p \in Proc /\ Listed(Top.p)
    BY <2>1 DEF IInv, PollStaysOnList, TopIs, PollFrames, Pointer
  <2>3. f \in Frames /\ f.kind = "poll" /\ f.at = "visit" /\ f.p = NextOf(Top.p)
    BY <1>0, <2>1, <2>2, NextOfType DEF PollFrames, Frames
  <2>4. f.p # NULL => Listed(f.p)
    BY <1>0, <2>2, <2>3, NextIsListed
  <2>5. stack' = Moved(f) /\ UNCHANGED <<process_list, next, state, events>>
    BY <1>4 DEF PollSkip, listVars, queueVars
  <2> HIDE DEF f
  <2>6. QED BY <2>1, <2>3, <2>4, <2>5, MoveStep
<1>5. CASE PollAdvance
  <2> DEFINE f == [Top EXCEPT !.at = "visit", !.p = NextOf(Top.p)]
  <2>1. stack # <<>> /\ Top.kind = "poll" /\ Top \in PollFrames /\ Top.at = "called"
    BY <1>0, <1>5, TopFrame DEF PollAdvance, TopAt, TopIs
  <2>2. Top.p \in Proc
    BY <2>1 DEF PollFrames
  <2>3. f \in Frames /\ f.kind = "poll" /\ f.at = "visit" /\ f.p = NextOf(Top.p)
    BY <1>0, <2>1, <2>2, NextOfType DEF PollFrames, Frames
  <2>4. f.p # NULL => Listed(f.p)
    BY <2>1, <2>3 DEF IInv, PollStaysOnList, TopIs
  <2>5. stack' = Moved(f) /\ UNCHANGED <<process_list, next, state, events>>
    BY <1>5 DEF PollAdvance, listVars, queueVars
  <2> HIDE DEF f
  <2>6. QED BY <2>1, <2>3, <2>4, <2>5, MoveStep
<1>6. CASE PollCall
  <2> DEFINE f == [Top EXCEPT !.at = "called"]
             st == [state EXCEPT ![Top.p] = "RUNNING"]
             p == Top.p
  <2>1. stack # <<>> /\ Top.kind = "poll" /\ Top \in PollFrames /\ Top.at = "visit"
        /\ Top.p # NULL
    BY <1>0, <1>6, TopFrame DEF PollCall, TopAt, TopIs
  <2>2. p \in Proc /\ Listed(p)
    BY <2>1 DEF IInv, PollStaysOnList, TopIs, PollFrames, Pointer
  <2>3. f \in Frames /\ f.kind = "poll" /\ f.at = "called" /\ f.p = p
    BY <2>1, <2>2 DEF PollFrames, Frames
  <2>4. /\ CallProcess(st, p, "POLL", Moved(f))
        /\ UNCHANGED <<process_list, next, events>>
    BY <1>6 DEF PollCall, listVars, queueVars
  <2>5. /\ st \in [Proc -> States] /\ st[p] = "RUNNING"
        /\ \A q \in Proc : q # p => st[q] = state[q]
    BY <1>0, <2>2 DEF TypeOK, States
  <2> HIDE DEF f, st, p
  <2>6. /\ Good(Moved(f), state) /\ Moved(f) \in Seq(Frames)
        /\ Moved(f) # <<>> /\ Moved(f)[Len(Moved(f))] = f
    BY <1>0, <2>1, <2>3, MovedGood, MovedType
  <2>7. /\ Len(Moved(f)) = Len(stack) /\ DOMAIN Moved(f) = 1 .. Len(stack)
        /\ Len(stack) \in Nat \ {0}
    BY <1>0, <2>1, <2>3, MovedFacts
  <2>8. \A i \in DOMAIN Moved(f) : Moved(f)[i].kind \in {"poll", "bcast"}
    BY <2>3, <2>6, <2>7 DEF Good, StackOk
  <2>9. Good(Moved(f), st)
    <3>1. \A q \in Proc : state[q] # "CALLED"
      BY <2>6, <2>8 DEF Good, ThreadsOk
    <3>2. ThreadsOk(Moved(f), st)
      BY <2>5, <2>8, <3>1 DEF ThreadsOk
    <3>3. QED BY <2>6, <2>8, <3>2 DEF Good, ExitsOk
  <2>10. Under(Moved(f), st, p)
    BY <2>3, <2>5, <2>6 DEF Under
  <2>11. \A q \in Proc : st[q] # "NONE" => Listed(q)
    BY <2>2, <2>5 DEF IInv, RunningIsListed
  <2>12. QED
    BY <2>2, <2>4, <2>5, <2>6, <2>8, <2>9, <2>10, <2>11, CallStep DEF Event
<1>7. QED BY <1>1, <1>2, <1>3, <1>4, <1>5, <1>6

LEMMA DoEventKeeps ==
  ASSUME IInv, TypeOK', DoEvent
  PROVE  IInv'
<1>0. TypeOK /\ Good(stack, state) /\ stack = <<>> /\ UNCHANGED <<process_list, next, events>>
  BY GoodStack DEF IInv, DoEvent, listVars
<1> DEFINE e == events[fevent]
<1>1. e \in EventData
  BY <1>0 DEF TypeOK
<1>2. CASE nevents = 0
  BY <1>0, <1>2 DEF DoEvent, IInv, ListIsSet, QueuedIsPosted,
     RunningIsListed, ExitingIsListed, CurrentIsExecuting, PollStaysOnList, Executing,
     TopIs, Top, Listed
<1>3. CASE nevents # 0 /\ e.p = BROADCAST
  <2> DEFINE f == [kind |-> "bcast", at |-> "check",
                   p |-> FirstOf(process_list), ev |-> e.ev]
  <2>1. stack' = <<f>> /\ UNCHANGED <<state, process_current>>
    BY <1>3 DEF DoEvent
  <2>2. f.kind = "bcast"
    OBVIOUS
  <2> HIDE DEF f
  <2>3. /\ Len(stack') = 1 /\ DOMAIN stack' = {1} /\ stack'[1] = f /\ Top' = f
    BY <2>1 DEF Top
  <2>4. Good(stack', state')
    <3>1. \A q \in Proc : state[q] # "CALLED"
      BY <1>0 DEF Good, ThreadsOk
    <3>2. QED BY <2>1, <2>2, <2>3, <3>1 DEF Good, StackOk, ThreadsOk, ExitsOk
  <2>5. CurrentIsExecuting' /\ PollStaysOnList' /\ ExitingIsListed'
    BY <2>2, <2>3 DEF CurrentIsExecuting, PollStaysOnList, ExitingIsListed,
                      Executing, TopIs
  <2>6. ListIsSet' /\ QueuedIsPosted' /\ RunningIsListed'
    BY <1>0, <2>1 DEF IInv, ListIsSet, QueuedIsPosted, RunningIsListed, Listed
  <2>7. QED BY <2>4, <2>5, <2>6 DEF IInv, Good
<1>4. CASE nevents # 0 /\ e.p # BROADCAST
  <2>1. e.p \in Proc /\ e.ev \in Event /\ e.ev # "INIT"
    BY <1>0, <1>1, <1>4, PostEventsAssumption
       DEF IInv, QueuedIsPosted, EventData, Pointer, BROADCAST, TypeOK
  <2>2. CallProcess(state, e.p, e.ev, stack)
    BY <1>4, <2>1 DEF DoEvent
  <2>3. Under(stack, state, e.p) /\ stack \in Seq(Frames) /\ state \in [Proc -> States]
    BY <1>0 DEF Under, TypeOK, States
  <2>4. /\ \A q \in Proc : state[q] # "NONE" => Listed(q)
        /\ \A i \in DOMAIN stack : stack[i].kind = "exit" => Listed(stack[i].p)
    BY DEF IInv, RunningIsListed, ExitingIsListed
  <2> HIDE DEF e
  <2>5. QED BY <1>0, <2>1, <2>2, <2>3, <2>4, CallStep
<1>5. QED BY <1>2, <1>3, <1>4

LEMMA BcastStepsKeep ==
  ASSUME IInv, TypeOK', BcastCheck \/ BcastCall \/ BcastAdvance
  PROVE  IInv'
<1>0. /\ TypeOK /\ Good(stack, state) /\ stack # <<>> /\ Top.kind = "bcast"
      /\ Top \in BcastFrames
      /\ UNCHANGED <<process_list, next, events>>
  BY GoodStack, TopFrame DEF IInv, BcastCheck, BcastCall, BcastAdvance, TopAt, TopIs,
                             listVars, queueVars
<1>1. Len(stack) = 1
  <2>1. Len(stack) \in DOMAIN stack
    BY <1>0, PopFacts
  <2>2. QED BY <1>0, <2>1 DEF Good, StackOk, Top
<1>2. CASE BcastCheck
  <2>1. CASE Top.p = NULL
    <3>1. stack' = Pop /\ UNCHANGED <<state, process_current>>
      BY <1>2, <2>1 DEF BcastCheck
    <3>2. Good(Pop, state) /\ Pop = <<>>
      BY <1>0, <1>1, PopGood, PopFacts DEF Good
    <3>3. QED
      BY <1>0, <3>1, <3>2 DEF IInv, Good, ListIsSet, QueuedIsPosted,
         RunningIsListed, ExitingIsListed, CurrentIsExecuting, PollStaysOnList,
         Executing, TopIs, Listed
  <2>2. CASE Top.p # NULL
    <3> DEFINE f == [Top EXCEPT !.at = "call"]
    <3>1. f \in Frames /\ f.kind = "bcast"
      BY <1>0, <1>2, <2>2 DEF BcastCheck, TopAt, BcastFrames, Frames, Pointer
    <3>2. CASE ~poll_requested
      <4>1. stack' = Moved(f) /\ UNCHANGED state
        BY <1>2, <2>2, <3>2 DEF BcastCheck
      <4> HIDE DEF f
      <4>2. QED BY <1>0, <3>1, <4>1, MoveStep
    <3>3. CASE poll_requested
      <4>1. stack' = Append(Moved(f), Poll(FirstOf(process_list))) /\ UNCHANGED state
        BY <1>2, <2>2, <3>3 DEF BcastCheck, EnterPoll
      <4> HIDE DEF f
      <4>2. Good(Moved(f), state) /\ Moved(f) \in Seq(Frames)
        BY <1>0, <3>1, MovedGood, MovedType
      <4>3. \A i \in DOMAIN Moved(f) : Moved(f)[i].kind = "bcast"
        BY <1>0, <1>1, <3>1, MovedFacts
      <4>4. /\ Good(stack', state') /\ CurrentIsExecuting' /\ PollStaysOnList'
            /\ \A i \in DOMAIN stack' : stack'[i].kind # "exit"
        BY <1>0, <4>1, <4>2, <4>3, PushPoll
      <4>5. ListIsSet' /\ QueuedIsPosted' /\ RunningIsListed' /\ ExitingIsListed'
        BY <1>0, <4>1, <4>4 DEF IInv, ListIsSet, QueuedIsPosted, RunningIsListed,
                                ExitingIsListed, Listed
      <4>6. QED BY <4>4, <4>5 DEF IInv, Good
    <3>4. QED BY <3>2, <3>3
  <2>3. QED BY <2>1, <2>2
<1>3. CASE BcastCall
  <2> DEFINE f == [Top EXCEPT !.at = "called"]
  <2>1. /\ f \in Frames /\ f.kind = "bcast" /\ Top.p \in Proc /\ Top.ev \in Event
    BY <1>0, <1>3 DEF BcastCall, TopAt, BcastFrames, Frames
  <2>2. CallProcess(state, Top.p, Top.ev, Moved(f))
    BY <1>3 DEF BcastCall
  <2> HIDE DEF f
  <2>3. /\ Good(Moved(f), state) /\ Moved(f) \in Seq(Frames)
        /\ Moved(f)[Len(Moved(f))] = f
    BY <1>0, <2>1, MovedGood, MovedType
  <2>4. Under(Moved(f), state, Top.p) /\ state \in [Proc -> States]
    BY <1>0, <2>1, <2>3 DEF Under, TypeOK, States
  <2>5. \A i \in DOMAIN Moved(f) : Moved(f)[i].kind = "bcast"
    BY <1>0, <1>1, <2>1, MovedFacts
  <2>6. \A q \in Proc : state[q] # "NONE" => Listed(q)
    BY DEF IInv, RunningIsListed
  <2>7. QED BY <1>0, <2>1, <2>2, <2>3, <2>4, <2>5, <2>6, CallStep
<1>4. CASE BcastAdvance
  <2> DEFINE f == [Top EXCEPT !.at = "check", !.p = NextOf(Top.p)]
  <2>1. Top.p \in Proc
    BY <1>0, <1>4 DEF BcastAdvance, TopAt, BcastFrames
  <2>2. f \in Frames /\ f.kind = "bcast"
    BY <1>0, <2>1, NextOfType DEF BcastFrames, Frames
  <2>3. stack' = Moved(f) /\ UNCHANGED state
    BY <1>4 DEF BcastAdvance
  <2> HIDE DEF f
  <2>4. QED BY <1>0, <2>2, <2>3, MoveStep
<1>5. QED BY <1>2, <1>3, <1>4

\* The frame below a frame that is popped.
LEMMA Below ==
  ASSUME TypeOK, stack # <<>>, Good(stack, state), Pop # <<>>, stack' = Pop
  PROVE  /\ Len(stack) - 1 \in DOMAIN stack /\ Len(stack) - 1 < Len(stack)
         /\ (Len(stack) - 1) + 1 = Len(stack) /\ Len(stack) \in DOMAIN stack
         /\ Top' = stack[Len(stack) - 1]
<1>1. /\ Len(stack) > 1 /\ Len(Pop) = Len(stack) - 1
      /\ Pop[Len(Pop)] = stack[Len(stack) - 1]
      /\ Len(stack) \in Nat /\ DOMAIN stack = 1 .. Len(stack)
  BY PopGood, PopFacts
<1>2. QED BY <1>1 DEF Top

LEMMA ExitStepsKeep ==
  ASSUME IInv, TypeOK', ExitVisit \/ ExitAdvance \/ ExitThread
  PROVE  IInv'
<1>0. /\ TypeOK /\ Good(stack, state) /\ stack # <<>> /\ Top.kind = "exit"
      /\ Top \in ExitFrames /\ Top.p \in Proc
      /\ UNCHANGED <<process_list, next, events>>
  BY GoodStack, TopFrame DEF IInv, ExitVisit, ExitAdvance, ExitThread, TopAt, TopIs,
                             listVars, queueVars, ExitFrames
<1>1. CASE ExitVisit
  <2>1. CASE Top.q = NULL
    <3> DEFINE f == [Top EXCEPT !.at = "exit"]
    <3>1. f \in Frames /\ f.kind = "exit" /\ f.p = Top.p /\ f.old = Top.old
      BY <1>0, <1>1 DEF ExitVisit, TopAt, ExitFrames, Frames
    <3>2. stack' = Moved(f) /\ UNCHANGED state
      BY <1>1, <2>1 DEF ExitVisit
    <3> HIDE DEF f
    <3>3. QED BY <1>0, <3>1, <3>2, MoveStep
  <2>2. CASE Top.q # NULL
    <3> DEFINE f == [Top EXCEPT !.at = "called"]
    <3>1. Top.q \in Proc
      BY <1>0, <2>2 DEF ExitFrames, Pointer
    <3>2. f \in Frames /\ f.kind = "exit" /\ f.p = Top.p /\ f.old = Top.old
      BY <1>0, <3>1 DEF ExitFrames, Frames
    <3>3. CASE Top.q = Top.p
      <4>1. stack' = Moved(f) /\ UNCHANGED state
        BY <1>1, <2>2, <3>3 DEF ExitVisit
      <4> HIDE DEF f
      <4>2. QED BY <1>0, <3>2, <4>1, MoveStep
    <3>4. CASE Top.q # Top.p
      <4>1. CallProcess(state, Top.q, "EXITED", Moved(f))
        BY <1>1, <2>2, <3>4 DEF ExitVisit
      <4> HIDE DEF f
      <4>2. /\ Good(Moved(f), state) /\ Moved(f) \in Seq(Frames)
            /\ Moved(f)[Len(Moved(f))] = f
            /\ \A i \in DOMAIN Moved(f) : Moved(f)[i].kind = "exit" =>
                 /\ i \in DOMAIN stack /\ stack[i].kind = "exit"
                 /\ stack[i].p = Moved(f)[i].p
        BY <1>0, <3>2, MovedGood, MovedType
      <4>3. Under(Moved(f), state, Top.q) /\ state \in [Proc -> States]
        BY <1>0, <3>2, <4>2 DEF Under, TypeOK, States
      <4>4. /\ \A q \in Proc : state[q] # "NONE" => Listed(q)
            /\ \A i \in DOMAIN Moved(f) :
                 Moved(f)[i].kind = "exit" => Listed(Moved(f)[i].p)
        BY <4>2 DEF IInv, RunningIsListed, ExitingIsListed
      <4>5. QED
        BY <1>0, <3>1, <4>1, <4>2, <4>3, <4>4, CallStep DEF Event
    <3>5. QED BY <3>3, <3>4
  <2>3. QED BY <2>1, <2>2
<1>2. CASE ExitAdvance
  <2> DEFINE f == [Top EXCEPT !.at = "visit", !.q = NextOf(Top.q)]
  <2>1. Top.q \in Proc
    BY <1>0, <1>2 DEF ExitAdvance, TopAt, ExitFrames
  <2>2. f \in Frames /\ f.kind = "exit" /\ f.p = Top.p /\ f.old = Top.old
    BY <1>0, <2>1, NextOfType DEF ExitFrames, Frames
  <2>3. stack' = Moved(f) /\ UNCHANGED state
    BY <1>2 DEF ExitAdvance
  <2> HIDE DEF f
  <2>4. QED BY <1>0, <2>2, <2>3, MoveStep
<1>3. CASE ExitThread
  <2> DEFINE f == [Top EXCEPT !.at = "unlink"]
             bye == [kind |-> "bye", p |-> Top.p]
             m == Moved(f)
             n == Len(stack)
  <2>1. f \in Frames /\ f.kind = "exit" /\ f.p = Top.p /\ f.old = Top.old
    BY <1>0, <1>3 DEF ExitThread, TopAt, ExitFrames, Frames
  <2>2. UNCHANGED state
    BY <1>3 DEF ExitThread
  <2>3. CASE Top.p = Top.from
    <3>1. stack' = Moved(f)
      BY <1>3, <2>3 DEF ExitThread
    <3> HIDE DEF f
    <3>2. QED BY <1>0, <2>1, <2>2, <3>1, MoveStep
  <2>4. CASE Top.p # Top.from
    <3>1. stack' = Append(m, bye) /\ process_current' = Top.p
      BY <1>3, <2>4 DEF ExitThread
    <3>2. bye \in Frames /\ bye.kind = "bye" /\ bye.p = Top.p
      BY <1>0 DEF Frames, ByeFrames
    <3> HIDE DEF f, bye
    <3>3. /\ m \in Seq(Frames) /\ Good(m, state) /\ n \in Nat \ {0}
          /\ Len(m) = n /\ DOMAIN m = 1 .. n /\ m[n] = f
          /\ \A i \in 1 .. n : m[i].kind = "exit" =>
               i \in DOMAIN stack /\ stack[i].kind = "exit" /\ stack[i].p = m[i].p
      BY <1>0, <2>1, MovedGood, MovedFacts
    <3> HIDE DEF m, n
    <3>4. /\ Len(stack') = n + 1 /\ DOMAIN stack' = 1 .. n + 1
          /\ \A i \in 1 .. n : stack'[i] = m[i]
          /\ stack'[n + 1] = bye
      BY <3>1, <3>2, <3>3, PushFacts
    <3>5. StackOk(stack')
      BY <2>1, <3>2, <3>3, <3>4 DEF StackOk, Good
    <3>6. \A i \in DOMAIN stack' : stack'[i].kind \in {"thread", "exit"} =>
            i \in DOMAIN m /\ stack'[i] = m[i]
      BY <3>2, <3>3, <3>4
    <3>7. \A i \in DOMAIN m : i \in DOMAIN stack' /\ stack'[i] = m[i]
      BY <3>3, <3>4
    <3>8. ThreadsOk(stack', state') /\ ExitsOk(stack', state')
      BY <2>2, <3>3, <3>6, <3>7 DEF Good, ThreadsOk, ExitsOk
    <3>9. CurrentIsExecuting' /\ PollStaysOnList'
      BY <3>1, <3>2, <3>3, <3>4
         DEF CurrentIsExecuting, PollStaysOnList, TopIs, Top
    <3>10. ExitingIsListed'
      BY <1>0, <3>3, <3>6 DEF IInv, ExitingIsListed, Listed
    <3>11. ListIsSet' /\ QueuedIsPosted' /\ RunningIsListed'
      BY <1>0, <2>2 DEF IInv, ListIsSet, QueuedIsPosted, RunningIsListed, Listed
    <3>12. QED BY <3>5, <3>8, <3>9, <3>10, <3>11 DEF IInv
  <2>5. QED BY <2>3, <2>4
<1>4. QED BY <1>1, <1>2, <1>3

LEMMA ExitUnlinkKeeps ==
  ASSUME IInv, TypeOK', ExitUnlink
  PROVE  IInv'
<1> DEFINE n == Len(stack)
<1>a. PICK p : p = Top.p
  OBVIOUS
<1>0. /\ TypeOK /\ Good(stack, state) /\ stack # <<>> /\ Top.kind = "exit"
      /\ Top \in ExitFrames /\ p \in Proc /\ Top = stack[n]
      /\ Unlink(p) /\ stack' = Pop /\ process_current' = Top.old
      /\ UNCHANGED <<state, events>>
  BY <1>a, GoodStack, TopFrame
     DEF IInv, ExitUnlink, TopAt, TopIs, queueVars, ExitFrames, Top
<1>1. /\ n \in Nat \ {0} /\ DOMAIN stack = 1 .. n /\ DOMAIN stack' = 1 .. n - 1
      /\ \A i \in 1 .. n - 1 : stack'[i] = stack[i]
  BY <1>0, PopFacts
<1>2. Listed(p) /\ state[p] = "NONE" /\ n \in DOMAIN stack
  BY <1>0, <1>1, <1>a DEF IInv, ExitingIsListed, ExitsOk
<1>3. /\ ListIsSet'
      /\ \A q \in Proc : Listed(q)' <=> Listed(q) /\ q # p
      /\ next'[p] = NextOf(p)
      /\ \A q \in Proc : q = NextOf(p) => Listed(q)'
  BY <1>0, <1>2, UnlinkFacts DEF IInv
<1>4. Good(stack', state')
  BY <1>0, PopGood DEF Good
<1>5. RunningIsListed' /\ QueuedIsPosted'
  BY <1>0, <1>2, <1>3 DEF IInv, RunningIsListed, QueuedIsPosted
<1>6. ExitingIsListed'
  <2>1. ASSUME NEW i \in DOMAIN stack', stack'[i].kind = "exit", NEW r, r = stack'[i].p
        PROVE  Listed(r)'
    <3>1. /\ i \in DOMAIN stack /\ i # n /\ stack'[i] = stack[i]
          /\ stack[i].kind = "exit" /\ Listed(stack[i].p) /\ r = stack[i].p
      BY <1>1, <2>1 DEF IInv, ExitingIsListed
    <3>2. r # p
      BY <1>0, <1>2, <1>a, <3>1 DEF Good, ExitsOk
    <3>3. r \in Proc /\ Listed(r)
      BY <3>1, <1>0 DEF Listed, TypeOK
    <3>4. QED BY <1>3, <3>2, <3>3
  <2>2. QED BY <2>1 DEF ExitingIsListed, Listed
<1>7. CurrentIsExecuting'
  <2>1. ASSUME Pop # <<>>, Top'.kind \in {"thread", "bye"}
        PROVE  Top.old = Top'.p
    BY <1>0, <2>1, Below DEF Good, StackOk
  <2>2. QED BY <1>0, <2>1 DEF CurrentIsExecuting, Executing, TopIs
<1>8. PollStaysOnList'
  <2>1. ASSUME Pop # <<>>, Top'.kind = "poll"
        PROVE  Top'.at = "called" /\ Top'.p = p
    BY <1>0, <1>a, <2>1, Below DEF Good, StackOk
  <2>2. ~(\E i \in DOMAIN process_list' : process_list'[i] = p)
    BY <1>0, <1>3 DEF Listed
  <2>3. ASSUME TopIs("poll")' PROVE NextOf(Top.p)' = NextOf(p)
    <3>1. Top'.p = p
      BY <1>0, <2>1, <2>3 DEF TopIs
    <3>2. QED BY <1>3, <2>2, <3>1 DEF NextOf, Listed
  <2>4. PICK q : q = NextOf(p)
    OBVIOUS
  <2>5. q # NULL => \E i \in DOMAIN process_list' : process_list'[i] = q
    BY <1>0, <1>3, <2>4, NextOfType DEF Pointer, Listed
  <2>6. TopIs("poll")' => Top'.at = "called"
    BY <1>0, <2>1 DEF TopIs
  <2>7. QED BY <2>3, <2>4, <2>5, <2>6 DEF PollStaysOnList, Listed
<1>9. QED BY <1>3, <1>4, <1>5, <1>6, <1>7, <1>8 DEF IInv, Good

\* A step that leaves alone what IInv speaks of.
LEMMA SameStep ==
  ASSUME IInv, TypeOK',
         UNCHANGED <<process_list, next, state, process_current, events, stack>>
  PROVE  IInv'
<1>1. Good(stack', state')
  BY GoodStack DEF Good
<1>2. ListIsSet' /\ QueuedIsPosted' /\ RunningIsListed' /\ ExitingIsListed'
  BY DEF IInv, ListIsSet, QueuedIsPosted, RunningIsListed, ExitingIsListed, Listed
<1>3. CurrentIsExecuting'
  BY DEF IInv, CurrentIsExecuting, Executing, TopIs, Top
<1>4. PollStaysOnList'
  BY DEF IInv, PollStaysOnList, TopIs, Top, NextOf, Successor, IndexOf, Listed
<1>5. QED BY <1>1, <1>2, <1>3, <1>4 DEF IInv, Good

LEMMA SynchReturnKeeps ==
  ASSUME IInv, TypeOK', SynchReturn
  PROVE  IInv'
<1>0. /\ TypeOK /\ Good(stack, state) /\ stack # <<>> /\ Top.kind = "synch"
      /\ Top = stack[Len(stack)] /\ stack' = Pop /\ process_current' = Top.caller
      /\ UNCHANGED <<process_list, next, state, events>>
  BY GoodStack DEF IInv, SynchReturn, CurrentRestored, TopIs, listVars, queueVars, Top
<1>1. Good(stack', state')
  BY <1>0, PopGood DEF Good
<1>2. ListIsSet' /\ QueuedIsPosted' /\ RunningIsListed'
  BY <1>0 DEF IInv, ListIsSet, QueuedIsPosted, RunningIsListed, Listed
<1>3. ExitingIsListed'
  BY <1>0, PopFacts DEF IInv, ExitingIsListed, Listed
<1>4. CurrentIsExecuting'
  <2>1. ASSUME Pop # <<>>, Top'.kind \in {"thread", "bye"}
        PROVE  Top.caller = Top'.p
    BY <1>0, <2>1, Below DEF Good, StackOk
  <2>2. QED BY <1>0, <2>1 DEF CurrentIsExecuting, Executing, TopIs
<1>5. PollStaysOnList'
  <2>1. ASSUME Pop # <<>> PROVE Top'.kind # "poll"
    BY <1>0, <2>1, Below DEF Good, StackOk
  <2>2. QED BY <1>0, <2>1 DEF PollStaysOnList, TopIs
<1>6. QED BY <1>1, <1>2, <1>3, <1>4, <1>5 DEF IInv, Good

\* The call of the running protothread is over: nothing else is called in it.
LEMMA ThreadPopped ==
  ASSUME TypeOK, Good(stack, state), stack # <<>>, Top.kind = "thread",
         NEW st \in [Proc -> States],
         \A q \in Proc : q # Top.p => st[q] = state[q],
         st[Top.p] # "CALLED"
  PROVE  ThreadsOk(Pop, st)
<1> DEFINE n == Len(stack)
           m == Pop
<1>0. /\ n \in Nat \ {0} /\ DOMAIN stack = 1 .. n /\ DOMAIN m = 1 .. n - 1
      /\ \A i \in 1 .. n - 1 : m[i] = stack[i]
      /\ stack \in Seq(Frames) /\ Top = stack[n]
  BY PopFacts DEF Top, TypeOK
<1> HIDE DEF m, n
<1>1. /\ n \in Nat \ {0} /\ DOMAIN stack = 1 .. n /\ DOMAIN m = 1 .. n - 1
      /\ \A i \in 1 .. n - 1 : m[i] = stack[i] /\ i # n
      /\ Top = stack[n] /\ n \in 1 .. n
  BY <1>0
<1>2. \A i \in 1 .. n : stack[i].kind = "thread" => stack[i].p \in Proc
  BY <1>0 DEF Frames, ThreadFrames, ByeFrames, SynchFrames, PollFrames,
              BcastFrames, ExitFrames
<1>3. \A i \in 1 .. n - 1 : m[i].kind = "thread" => m[i].p # Top.p
  BY <1>1 DEF Good, ThreadsOk
<1>4. \A i \in DOMAIN m : m[i].kind = "thread" => st[m[i].p] = "CALLED"
  BY <1>1, <1>2, <1>3 DEF Good, ThreadsOk
<1>5. ASSUME NEW q \in Proc, st[q] = "CALLED"
      PROVE  \E i \in DOMAIN m : m[i].kind = "thread" /\ m[i].p = q
  <2>1. PICK i \in 1 .. n : stack[i].kind = "thread" /\ stack[i].p = q
    BY <1>1, <1>5 DEF Good, ThreadsOk
  <2>2. i \in 1 .. n - 1
    BY <1>1, <1>5, <2>1
  <2>3. QED BY <1>1, <2>1, <2>2
<1>6. QED BY <1>1, <1>4, <1>5 DEF Good, ThreadsOk, m

LEMMA ThreadYieldsKeeps ==
  ASSUME IInv, TypeOK', ThreadYields
  PROVE  IInv'
<1>a. PICK r : r = Top.p
  OBVIOUS
<1>0. /\ TypeOK /\ Good(stack, state) /\ stack # <<>> /\ Top.kind = "thread"
      /\ Top = stack[Len(stack)] /\ stack' = Pop
      /\ state' = [state EXCEPT ![r] = "RUNNING"] /\ r \in Proc
      /\ UNCHANGED <<process_list, next, process_current, events>>
  BY <1>a, GoodStack, TopFrame
     DEF IInv, ThreadYields, TopIs, listVars, queueVars, Top, ThreadFrames
<1>1. /\ state' \in [Proc -> States] /\ state'[r] = "RUNNING"
      /\ \A q \in Proc : q # r => state'[q] = state[q]
  BY <1>0 DEF TypeOK, States
<1>2. state[r] = "CALLED" /\ Listed(r)
  BY <1>0, <1>a, PopFacts DEF Good, ThreadsOk, IInv, RunningIsListed
<1>3. StackOk(stack') /\ ExitsOk(stack', state')
  <2>1. StackOk(Pop) /\ ExitsOk(Pop, state)
    BY <1>0, PopGood
  <2>2. \A q \in Proc : state[q] = "NONE" => state'[q] = "NONE"
    BY <1>1, <1>2
  <2>3. \A i \in DOMAIN Pop : Pop[i].kind = "exit" => Pop[i].p \in Proc
    BY <1>0, PopFacts DEF Frames, ThreadFrames, ByeFrames, SynchFrames, PollFrames,
                          BcastFrames, ExitFrames
  <2>4. QED BY <1>0, <2>1, <2>2, <2>3 DEF ExitsOk
<1>4. ThreadsOk(stack', state')
  BY <1>0, <1>1, <1>a, ThreadPopped
<1>5. ListIsSet' /\ QueuedIsPosted'
  BY <1>0 DEF IInv, ListIsSet, QueuedIsPosted
<1>6. RunningIsListed'
  BY <1>0, <1>1, <1>2 DEF IInv, RunningIsListed, Listed
<1>7. ExitingIsListed'
  BY <1>0, PopFacts DEF IInv, ExitingIsListed, Listed
<1>8. CurrentIsExecuting'
  <2>1. ASSUME Pop # <<>> PROVE Top'.kind \notin {"thread", "bye"}
    BY <1>0, <2>1, Below DEF Good, StackOk
  <2>2. QED BY <1>0, <2>1 DEF CurrentIsExecuting, Executing, TopIs
<1>9. PollStaysOnList'
  <2>1. ASSUME Pop # <<>>, Top'.kind = "poll"
        PROVE  Top'.at = "called" /\ Top'.p = r
    BY <1>0, <1>a, <2>1, Below DEF Good, StackOk
  <2>2. NextOf(r) # NULL => Listed(NextOf(r))
    BY <1>0, <1>2, NextIsListed
  <2>3. TopIs("poll")' => NextOf(Top.p)' = NextOf(r) /\ Top'.at = "called"
    BY <1>0, <2>1 DEF TopIs, NextOf, Successor, IndexOf, Listed
  <2>4. PICK q : q = NextOf(r)
    OBVIOUS
  <2>5. q # NULL => \E i \in DOMAIN process_list' : process_list'[i] = q
    BY <1>0, <2>2, <2>4 DEF Listed
  <2>6. QED BY <2>3, <2>4, <2>5 DEF PollStaysOnList, Listed
<1>10. QED BY <1>3, <1>4, <1>5, <1>6, <1>7, <1>8, <1>9 DEF IInv

LEMMA ThreadEndsKeeps ==
  ASSUME IInv, TypeOK', ThreadEnds
  PROVE  IInv'
<1>a. PICK r : r = Top.p
  OBVIOUS
<1> DEFINE st == [state EXCEPT ![r] = "NONE"]
<1>0. /\ TypeOK /\ Good(stack, state) /\ stack # <<>> /\ Top.kind = "thread"
      /\ Top = stack[Len(stack)] /\ r \in Proc /\ ExitProcess(r, r, Pop)
      /\ UNCHANGED <<process_current, events>>
  BY <1>a, GoodStack, TopFrame
     DEF IInv, ThreadEnds, TopIs, queueVars, Top, ThreadFrames
<1>1. /\ st \in [Proc -> States] /\ st[r] = "NONE"
      /\ \A q \in Proc : q # r => st[q] = state[q]
  BY <1>0 DEF TypeOK, States
<1>2. state[r] = "CALLED" /\ Listed(r)
  BY <1>0, <1>a, PopFacts DEF Good, ThreadsOk, IInv, RunningIsListed
<1>3. StackOk(Pop) /\ ExitsOk(Pop, state) /\ Pop \in Seq(Frames) /\ ThreadsOk(Pop, st)
  BY <1>0, <1>1, <1>a, PopGood, PopFacts, ThreadPopped
<1>4. \/ Pop = <<>>
      \/ Pop[Len(Pop)].kind \in {"synch", "exit", "bcast"}
      \/ Pop[Len(Pop)].kind = "poll" /\ Pop[Len(Pop)].p = r /\ Pop[Len(Pop)].at = "called"
  <2>1. SUFFICES ASSUME Pop # <<>> PROVE
          \/ Pop[Len(Pop)].kind \in {"synch", "exit", "bcast"}
          \/ Pop[Len(Pop)].kind = "poll" /\ Pop[Len(Pop)].p = r
               /\ Pop[Len(Pop)].at = "called"
    OBVIOUS
  <2> DEFINE k == Len(stack) - 1
  <2>2. /\ k \in DOMAIN stack /\ k < Len(stack) /\ k + 1 = Len(stack)
        /\ Pop[Len(Pop)] = stack[k]
    BY <1>0, <2>1, PopGood, PopFacts
  <2> HIDE DEF k
  <2>3. stack[k].kind \notin {"thread", "bye"}
    BY <1>0, <2>2 DEF Good, StackOk
  <2>4. stack[k].kind = "poll" => stack[k].p = r /\ stack[k].at = "called"
    BY <1>0, <1>a, <2>2 DEF Good, StackOk
  <2>5. stack[k].kind \in {"thread", "bye", "synch", "exit", "bcast", "poll"}
    BY <1>0, <2>2 DEF TypeOK, Frames, ThreadFrames, ByeFrames, SynchFrames,
                      PollFrames, BcastFrames, ExitFrames
  <2>6. QED BY <2>2, <2>3, <2>4, <2>5
<1> HIDE DEF st
<1>5. /\ Good(stack', state') /\ CurrentIsExecuting' /\ ~TopIs("poll")'
      /\ UNCHANGED <<process_list, next>> /\ state' = st
      /\ \A i \in DOMAIN stack' : stack'[i].kind = "exit" =>
           stack'[i].p = r \/ (i \in DOMAIN Pop /\ stack'[i] = Pop[i])
  BY <1>0, <1>2, <1>3, <1>4, EnterExit DEF Pointer, st
<1>6. ListIsSet' /\ QueuedIsPosted' /\ PollStaysOnList'
  BY <1>0, <1>5 DEF IInv, ListIsSet, QueuedIsPosted, PollStaysOnList
<1>7. RunningIsListed'
  BY <1>1, <1>2, <1>5 DEF IInv, RunningIsListed, Listed
<1>8. ExitingIsListed'
  BY <1>0, <1>2, <1>5, PopFacts DEF IInv, ExitingIsListed, Listed
<1>9. QED BY <1>5, <1>6, <1>7, <1>8 DEF IInv, Good

LEMMA ByeReturnsKeeps ==
  ASSUME IInv, TypeOK', ByeReturns
  PROVE  IInv'
<1>0. /\ TypeOK /\ Good(stack, state) /\ stack # <<>> /\ Top.kind = "bye"
      /\ Top = stack[Len(stack)] /\ stack' = Pop
      /\ UNCHANGED <<process_list, next, state, process_current, events>>
  BY GoodStack DEF IInv, ByeReturns, TopIs, listVars, queueVars, Top
<1>1. Good(stack', state')
  BY <1>0, PopGood DEF Good
<1>2. ListIsSet' /\ QueuedIsPosted' /\ RunningIsListed'
  BY <1>0 DEF IInv, ListIsSet, QueuedIsPosted, RunningIsListed, Listed
<1>3. ExitingIsListed'
  BY <1>0, PopFacts DEF IInv, ExitingIsListed, Listed
<1>4. ASSUME Pop # <<>> PROVE Top'.kind = "exit"
  BY <1>0, <1>4, Below DEF Good, StackOk
<1>5. CurrentIsExecuting' /\ PollStaysOnList'
  BY <1>0, <1>4 DEF CurrentIsExecuting, PollStaysOnList, Executing, TopIs
<1>6. QED BY <1>1, <1>2, <1>3, <1>5 DEF IInv, Good

LEMMA PostKeeps ==
  ASSUME IInv, TypeOK', PostOne \/ PostAll
  PROVE  IInv'
<1>1. PICK e \in EventData : ProcessPost(e) /\ (e.p # NULL => e.ev \in PostEvents)
  <2>1. CASE PostOne
    <3>1. PICK p \in Proc, ev \in PostEvents : ProcessPost([ev |-> ev, p |-> p])
      BY <2>1 DEF PostOne
    <3>2. ev \in Event
      BY PostEventsAssumption DEF Event
    <3>3. [ev |-> ev, p |-> p] \in EventData
      BY <3>2 DEF EventData, Pointer
    <3>4. QED BY <3>1, <3>3
  <2>2. CASE PostAll
    <3>1. [ev |-> "EVENT", p |-> BROADCAST] \in EventData
      BY DEF EventData, Event, Pointer, BROADCAST
    <3>2. ProcessPost([ev |-> "EVENT", p |-> BROADCAST])
      BY <2>2 DEF PostAll
    <3>3. QED BY <3>1, <3>2 DEF BROADCAST
  <2>3. QED BY <2>1, <2>2
<1>2. UNCHANGED <<process_list, next, state, process_current, stack>>
  BY <1>1 DEF ProcessPost, listVars
<1>3. CASE Full
  BY <1>1, <1>2, <1>3, SameStep DEF ProcessPost, queueVars
<1>4. CASE ~Full
  <2>1. events' = [events EXCEPT ![FreeSlot] = e]
    BY <1>1, <1>4 DEF ProcessPost
  <2>2. QueuedIsPosted'
    <3>1. ASSUME NEW k \in 0 .. NumEvents - 1
          PROVE  events'[k].p # NULL => events'[k].ev \in PostEvents
      <4>1. CASE k = FreeSlot
        BY <1>1, <2>1, <4>1 DEF IInv, TypeOK
      <4>2. CASE k # FreeSlot
        BY <2>1, <4>2 DEF IInv, TypeOK, QueuedIsPosted
      <4>3. QED BY <4>1, <4>2
    <3>2. QED BY <3>1 DEF QueuedIsPosted
  <2>3. Good(stack', state')
    BY <1>2, GoodStack DEF Good
  <2>4. ListIsSet' /\ RunningIsListed' /\ ExitingIsListed'
    BY <1>2 DEF IInv, ListIsSet, RunningIsListed, ExitingIsListed, Listed
  <2>5. CurrentIsExecuting'
    BY <1>2 DEF IInv, CurrentIsExecuting, Executing, TopIs, Top
  <2>6. PollStaysOnList'
    BY <1>2 DEF IInv, PollStaysOnList, TopIs, Top, NextOf, Successor, IndexOf, Listed
  <2>7. QED BY <2>2, <2>3, <2>4, <2>5, <2>6 DEF IInv, Good
<1>5. QED BY <1>3, <1>4

LEMMA PostSynchKeeps ==
  ASSUME IInv, TypeOK', NEW p \in Proc, ProcessPostSynch(p)
  PROVE  IInv'
<1> DEFINE base == Append(stack, Synch)
<1>0. /\ TypeOK /\ Good(stack, state) /\ CurrentIsExecuting /\ Executing
      /\ CallProcess(state, p, "EVENT", base)
      /\ UNCHANGED <<process_list, next, events>>
  BY GoodStack DEF IInv, ProcessPostSynch, listVars, queueVars
<1>1. /\ base \in Seq(Frames) /\ Good(base, state) /\ Under(base, state, p)
      /\ \A i \in DOMAIN base : base[i].kind = "exit" =>
           i \in DOMAIN stack /\ base[i] = stack[i]
  BY <1>0, PushSynch
<1> HIDE DEF base
<1>2. /\ state \in [Proc -> States] /\ "EVENT" \in Event
      /\ \A q \in Proc : state[q] # "NONE" => Listed(q)
      /\ \A i \in DOMAIN base : base[i].kind = "exit" => Listed(base[i].p)
  BY <1>1 DEF IInv, TypeOK, States, Event, RunningIsListed, ExitingIsListed
<1>3. QED BY <1>0, <1>1, <1>2, CallStep

LEMMA StartKeeps ==
  ASSUME IInv, TypeOK', NEW p \in Proc, stack = <<>> \/ Executing, ProcessStart(p)
  PROVE  IInv'
<1>0. UNCHANGED events
  BY DEF ProcessStart, queueVars
<1>1. CASE Listed(p)
  BY <1>0, <1>1, SameStep DEF ProcessStart, AlreadyStarted, listVars
<1>2. CASE ~Listed(p)
  <2> DEFINE base == Append(stack, Synch)
             st == [state EXCEPT ![p] = "RUNNING"]
  <2>1. /\ TypeOK /\ ListIsSet /\ Good(stack, state) /\ CurrentIsExecuting
        /\ process_list' = <<p>> \o process_list
        /\ CallProcess(st, p, "INIT", base)
    BY <1>2, GoodStack DEF IInv, ProcessStart, AlreadyStarted
  <2>2. /\ base \in Seq(Frames) /\ Good(base, state) /\ Under(base, st, p)
        /\ \A i \in DOMAIN base : base[i].kind = "exit" =>
             i \in DOMAIN stack /\ base[i] = stack[i]
    BY <2>1, PushSynch
  <2>3. /\ st \in [Proc -> States] /\ st[p] = "RUNNING"
        /\ \A q \in Proc : q # p => st[q] = state[q]
        /\ state[p] = "NONE"
    BY <1>2, <2>1 DEF TypeOK, States, IInv, RunningIsListed
  <2> HIDE DEF base, st
  <2>4. \A i \in DOMAIN base : base[i] \in Frames
    BY <2>2
  <2>5. /\ \A i \in DOMAIN base : base[i].kind = "thread" => base[i].p \in Proc
        /\ \A i \in DOMAIN base : base[i].kind = "exit" => base[i].p \in Proc
    BY <2>4 DEF Frames, ThreadFrames, ByeFrames, SynchFrames, PollFrames, BcastFrames,
                ExitFrames
  <2>6. \A i \in DOMAIN base : base[i].kind = "exit" =>
          base[i].p # p /\ Listed(base[i].p)
    BY <1>2, <2>2 DEF IInv, ExitingIsListed
  <2>7. ThreadsOk(base, st)
    BY <2>2, <2>3, <2>5 DEF Good, ThreadsOk
  <2>8. ExitsOk(base, st)
    BY <2>2, <2>3, <2>5, <2>6 DEF Good, ExitsOk
  <2>9. /\ Good(stack', state')
        /\ \A q \in Proc : state'[q] # "NONE" <=> st[q] # "NONE"
        /\ CurrentIsExecuting' /\ ~TopIs("poll")'
        /\ \A i \in DOMAIN stack' : stack'[i].kind = "exit" =>
             i \in DOMAIN base /\ stack'[i] = base[i]
    BY <2>1, <2>2, <2>3, <2>7, <2>8, CallFacts DEF Event, Good
  <2>10. ListIsSet' /\ \A q \in Proc : Listed(q)' <=> Listed(q) \/ q = p
    BY <1>2, <2>1, StartFacts
  <2>11. RunningIsListed'
    BY <2>3, <2>9, <2>10 DEF IInv, RunningIsListed
  <2>12. ExitingIsListed'
    <3>1. ASSUME NEW i \in DOMAIN stack', stack'[i].kind = "exit", NEW r,
                 r = stack'[i].p
          PROVE  Listed(r)'
      BY <2>5, <2>6, <2>9, <2>10, <3>1
    <3>2. QED BY <3>1 DEF ExitingIsListed, Listed
  <2>13. PollStaysOnList' /\ QueuedIsPosted'
    BY <1>0, <2>9 DEF IInv, PollStaysOnList, QueuedIsPosted
  <2>14. QED BY <2>9, <2>10, <2>11, <2>12, <2>13 DEF IInv, Good
<1>3. QED BY <1>1, <1>2

LEMMA ExitKeeps ==
  ASSUME IInv, TypeOK', SelfExit = FALSE, NEW p \in Proc, ProcessExit(p)
  PROVE  IInv'
<1>0. /\ TypeOK /\ Good(stack, state) /\ CurrentIsExecuting /\ Executing
      /\ ExitProcess(p, process_current, stack)
      /\ UNCHANGED <<process_current, events>>
  BY GoodStack DEF IInv, ProcessExit, queueVars
<1>1. CASE ~Listed(p)
  BY <1>0, <1>1, SameStep DEF ExitProcess, Unlink, listVars
<1>2. CASE Listed(p)
  <2> DEFINE st == [state EXCEPT ![p] = "NONE"]
  <2>1. state[p] = "RUNNING"
    BY <1>2 DEF ProcessExit, MayExit
  <2>2. /\ st[p] = "NONE"
        /\ \A q \in Proc : q # p => st[q] = state[q]
    BY <1>0 DEF TypeOK
  <2>3. /\ stack \in Seq(Frames) /\ process_current \in Pointer
        /\ stack[Len(stack)].kind \in {"thread", "bye"}
        /\ stack[Len(stack)].p = process_current
    BY <1>0 DEF TypeOK, CurrentIsExecuting, Executing, TopIs, Top
  <2> HIDE DEF st
  <2>4. \A i \in DOMAIN stack : stack[i].kind = "thread" => stack[i].p \in Proc
    BY <2>3 DEF Frames, ThreadFrames, ByeFrames, SynchFrames, PollFrames, BcastFrames,
                ExitFrames
  <2>5. ThreadsOk(stack, st)
    BY <1>0, <2>1, <2>2, <2>4 DEF Good, ThreadsOk
  <2>6. /\ Good(stack', state') /\ CurrentIsExecuting' /\ ~TopIs("poll")'
        /\ UNCHANGED <<process_list, next>> /\ state' = st
        /\ \A i \in DOMAIN stack' : stack'[i].kind = "exit" =>
             stack'[i].p = p \/ (i \in DOMAIN stack /\ stack'[i] = stack[i])
    <3>1. state[p] # "NONE" /\ ThreadsOk(stack, [state EXCEPT ![p] = "NONE"])
      BY <2>1, <2>5 DEF st
    <3>2. StackOk(stack) /\ ExitsOk(stack, state)
      BY <1>0 DEF Good
    <3>3. PICK base \in Seq(Frames) : base = stack
      BY <2>3
    <3>4. PICK from \in Pointer : from = process_current
      BY <2>3
    <3>5. /\ TypeOK /\ Listed(p) /\ state[p] # "NONE" /\ ExitProcess(p, from, base)
          /\ StackOk(base) /\ ExitsOk(base, state)
          /\ ThreadsOk(base, [state EXCEPT ![p] = "NONE"])
          /\ base[Len(base)].kind \in {"thread", "bye"}
          /\ base[Len(base)].p = process_current
      BY <1>0, <1>2, <2>3, <3>1, <3>2, <3>3, <3>4
    <3>6. /\ Good(stack', state') /\ CurrentIsExecuting' /\ ~TopIs("poll")'
          /\ UNCHANGED <<process_list, next>>
          /\ state' = [state EXCEPT ![p] = "NONE"]
          /\ \A i \in DOMAIN stack' : stack'[i].kind = "exit" =>
               stack'[i].p = p \/ (i \in DOMAIN base /\ stack'[i] = base[i])
      BY <3>5, EnterExit
    <3>7. QED BY <3>3, <3>6 DEF st
  <2>7. ListIsSet' /\ QueuedIsPosted' /\ PollStaysOnList'
    BY <1>0, <2>6 DEF IInv, ListIsSet, QueuedIsPosted, PollStaysOnList
  <2>8. RunningIsListed' /\ ExitingIsListed'
    BY <1>2, <2>2, <2>6 DEF IInv, RunningIsListed, ExitingIsListed, Listed
  <2>9. QED BY <2>6, <2>7, <2>8 DEF IInv, Good
<1>3. QED BY <1>1, <1>2

----------------------------------------------------------------------------
(* IInv is inductive, and implies the safety properties *)

LEMMA InitIInv == Init => IInv
<1> SUFFICES ASSUME Init PROVE IInv
  OBVIOUS
<1>1. TypeOK
  BY InitTypeOK
<1>2. stack = <<>> /\ process_list = <<>> /\ \A p \in Proc : state[p] = "NONE"
  BY DEF Init
<1>3. StackOk(stack) /\ ThreadsOk(stack, state) /\ ExitsOk(stack, state)
  BY <1>2 DEF StackOk, ThreadsOk, ExitsOk
<1>4. ListIsSet /\ RunningIsListed /\ ExitingIsListed
  BY <1>2 DEF ListIsSet, RunningIsListed, ExitingIsListed
<1>5. CurrentIsExecuting /\ PollStaysOnList
  BY <1>2 DEF CurrentIsExecuting, PollStaysOnList, Executing, TopIs
<1>6. QueuedIsPosted
  BY DEF QueuedIsPosted, Init
<1>7. QED BY <1>1, <1>3, <1>4, <1>5, <1>6 DEF IInv

LEMMA IInvInductive ==
  ASSUME SelfExit = FALSE
  PROVE  IInv /\ [Next]_vars => IInv'
<1> SUFFICES ASSUME IInv, [Next]_vars PROVE IInv'
  OBVIOUS
<1>0. TypeOK'
  BY TypeInductive DEF IInv
<1>1. CASE Kernel
  <2>1. CASE BootDone
    BY <1>0, <2>1, SameStep DEF BootDone, listVars, queueVars
  <2>2. QED
    BY <1>0, <1>1, <2>1, PollStepsKeep, DoEventKeeps, BcastStepsKeep, ExitStepsKeep,
       ExitUnlinkKeeps, SynchReturnKeeps DEF Kernel
<1>2. CASE Return
  BY <1>0, <1>2, ThreadYieldsKeeps, ThreadEndsKeeps, ByeReturnsKeeps DEF Return
<1>3. CASE Service
  BY <1>0, <1>3, PostKeeps, PostSynchKeeps, StartKeeps, ExitKeeps,
     EnvironmentAssumption DEF Service
<1>4. CASE \E p \in Proc : Boot(p)
  BY <1>0, <1>4, StartKeeps DEF Boot
<1>5. CASE \E p \in Proc : PollRequest(p)
  BY <1>0, <1>5, SameStep DEF PollRequest, ProcessPoll, listVars, queueVars
<1>6. CASE UNCHANGED vars
  BY <1>0, <1>6, SameStep DEF vars, listVars, queueVars
<1>7. QED BY <1>1, <1>2, <1>3, <1>4, <1>5, <1>6 DEF Next

LEMMA Safety ==
  ASSUME IInv
  PROVE  NoReentrancy /\ StateAgrees /\ CurrentIsExecuting /\ ExitIsExclusive
<1> DEFINE n == Len(stack)
<1>0. /\ Good(stack, state) /\ n \in Nat /\ DOMAIN stack = 1 .. n
      /\ \A i \in 1 .. n : stack[i].kind = "exit" =>
           Listed(stack[i].p) /\ state[stack[i].p] = "NONE"
  BY GoodStack DEF IInv, TypeOK, ExitingIsListed, Good, ExitsOk
<1> HIDE DEF n
<1>1. NoReentrancy
  <2>1. ASSUME NEW i \in 1 .. n, stack[i].kind = "bye"
        PROVE  /\ i - 1 \in 1 .. n /\ stack[i - 1].kind = "exit"
               /\ stack[i - 1].p = stack[i].p /\ state[stack[i].p] = "NONE"
    BY <1>0, <2>1 DEF Good, StackOk
  <2>2. ASSUME NEW i \in 1 .. n, NEW j \in 1 .. n, stack[i].p = stack[j].p,
               stack[i].kind \in {"thread", "bye"}, stack[j].kind \in {"thread", "bye"}
        PROVE  i = j
    <3>1. CASE stack[i].kind = "thread" /\ stack[j].kind = "thread"
      BY <1>0, <2>2, <3>1 DEF Good, ThreadsOk
    <3>2. CASE stack[i].kind = "bye" /\ stack[j].kind = "bye"
      <4>1. i - 1 = j - 1
        BY <1>0, <2>1, <2>2, <3>2 DEF Good, ExitsOk
      <4>2. QED BY <1>0, <4>1
    <3>3. CASE stack[i].kind = "thread" /\ stack[j].kind = "bye"
      BY <1>0, <2>1, <2>2, <3>3 DEF Good, ThreadsOk
    <3>4. CASE stack[i].kind = "bye" /\ stack[j].kind = "thread"
      BY <1>0, <2>1, <2>2, <3>4 DEF Good, ThreadsOk
    <3>5. QED BY <2>2, <3>1, <3>2, <3>3, <3>4
  <2>3. QED BY <1>0, <2>2 DEF NoReentrancy, Activations
<1>2. StateAgrees
  <2>1. ASSUME NEW p \in Proc
        PROVE  state[p] = "CALLED" <=> Activations({"thread"}, p) # {}
    <3>1. ASSUME state[p] = "CALLED" PROVE Activations({"thread"}, p) # {}
      <4>1. PICK i \in DOMAIN stack : stack[i].kind = "thread" /\ stack[i].p = p
        BY <1>0, <3>1 DEF Good, ThreadsOk
      <4>2. i \in Activations({"thread"}, p)
        BY <4>1 DEF Activations
      <4>3. QED BY <4>2
    <3>2. ASSUME Activations({"thread"}, p) # {} PROVE state[p] = "CALLED"
      <4>1. PICK i \in DOMAIN stack : stack[i].kind = "thread" /\ stack[i].p = p
        BY <3>2 DEF Activations
      <4>2. QED BY <1>0, <4>1 DEF Good, ThreadsOk
    <3>3. QED BY <3>1, <3>2
  <2>2. QED BY <2>1 DEF StateAgrees, IInv, RunningIsListed
<1>3. CurrentIsExecuting
  BY DEF IInv
<1>4. ExitIsExclusive
  BY <1>0 DEF ExitIsExclusive, Good, ExitsOk
<1>5. QED BY <1>1, <1>2, <1>3, <1>4

(* IInv is an invariant: the kernel's stack, list and states always agree, *)
(* when no process exits itself by process_exit.                           *)
THEOREM KernelInvariant == ASSUME SelfExit = FALSE PROVE Spec => []IInv
<1>1. Init => IInv
  BY InitIInv
<1>2. IInv /\ [Next]_vars => IInv'
  BY IInvInductive
<1>3. QED BY <1>1, <1>2, PTL DEF Spec

(* A protothread is never entered while an activation of it is on the      *)
(* stack, whatever processes call, post, start, poll and exit.             *)
THEOREM NeverReentered == ASSUME SelfExit = FALSE PROVE Spec => []NoReentrancy
<1>1. IInv => NoReentrancy
  BY Safety
<1>2. Spec => []IInv
  BY KernelInvariant
<1>3. QED BY <1>1, <1>2, PTL

(* p->state is right: CALLED exactly for what is on the stack, and on the  *)
(* list whenever it is not NONE.                                           *)
THEOREM StatesAreRight == ASSUME SelfExit = FALSE PROVE Spec => []StateAgrees
<1>1. IInv => StateAgrees
  BY Safety
<1>2. Spec => []IInv
  BY KernelInvariant
<1>3. QED BY <1>1, <1>2, PTL

(* PROCESS_CURRENT() is the executing process after every nested call.     *)
THEOREM CurrentIsRight == ASSUME SelfExit = FALSE PROVE Spec => []CurrentIsExecuting
<1>1. IInv => CurrentIsExecuting
  BY Safety
<1>2. Spec => []IInv
  BY KernelInvariant
<1>3. QED BY <1>1, <1>2, PTL

(* A process on its way out stays listed and NONE, and exits once.         *)
THEOREM ExitsAreExclusive == ASSUME SelfExit = FALSE PROVE Spec => []ExitIsExclusive
<1>1. IInv => ExitIsExclusive
  BY Safety
<1>2. Spec => []IInv
  BY KernelInvariant
<1>3. QED BY <1>1, <1>2, PTL

----------------------------------------------------------------------------
(* Where the loops over the list come to                                   *)

LEMMA NextIsNext ==
  ASSUME ListIsSet, process_list \in Seq(Proc),
         NEW k \in 1 .. Len(process_list)
  PROVE  /\ Listed(process_list[k])
         /\ IndexOf(process_list[k]) = k
         /\ NextOf(process_list[k])
              = IF k < Len(process_list) THEN process_list[k + 1] ELSE NULL
<1>1. Listed(process_list[k])
  BY DEF Listed
<1>2. IndexOf(process_list[k]) = k
  <2>1. /\ IndexOf(process_list[k]) \in DOMAIN process_list
        /\ process_list[IndexOf(process_list[k])] = process_list[k]
    BY <1>1 DEF Listed, IndexOf
  <2>2. QED BY <2>1 DEF ListIsSet
<1>3. QED BY <1>1, <1>2 DEF NextOf, Successor

\* From the head a loop comes to every process on the list.
LEMMA WholeList ==
  ASSUME ListIsSet, process_list \in Seq(Proc), NEW S \in SUBSET Proc, Closed(S),
         process_list # <<>> => process_list[1] \in S
  PROVE  \A p \in Proc : Listed(p) => p \in S
<1> DEFINE n == Len(process_list)
           Missed == {k \in 1 .. n : process_list[k] \notin S}
<1>1. n \in Nat /\ DOMAIN process_list = 1 .. n
      /\ \A k \in 1 .. n : process_list[k] \in Proc
  OBVIOUS
<1>2. ASSUME Missed # {} PROVE FALSE
  <2> DEFINE k == Min(Missed)
  <2>1. k \in Missed /\ \A j \in Missed : k <= j
    <3>1. Missed \subseteq Nat /\ Missed # {}
      BY <1>1, <1>2
    <3> HIDE DEF Missed
    <3>2. QED BY <3>1, NatMinimum
  <2> HIDE DEF k
  <2>2. k \in 1 .. n /\ k # 1
    BY <1>1, <2>1
  <2>3. k - 1 \in 1 .. n /\ k - 1 < n /\ k - 1 \notin Missed /\ (k - 1) + 1 = k
    BY <1>1, <2>1, <2>2
  <2>4. process_list[k - 1] \in S /\ NextOf(process_list[k - 1]) = process_list[k]
    BY <2>3, NextIsNext
  <2>5. process_list[k] \in Proc
    BY <1>1, <2>2
  <2>6. process_list[k] \in S
    BY <2>4, <2>5, NullAssumption DEF Closed
  <2>7. QED BY <2>1, <2>6
<1> HIDE DEF n
<1>3. QED BY <1>1, <1>2 DEF Listed

LEMMA FirstReaches ==
  ASSUME TypeOK, ListIsSet, NEW p \in Proc, Listed(p)
  PROVE  <<FirstOf(process_list), p>> \in Reach
<1>1. process_list # <<>> /\ process_list \in Seq(Proc) /\ process_list[1] \in Proc
      /\ FirstOf(process_list) = process_list[1]
  BY DEF TypeOK, Listed, FirstOf
<1>2. ASSUME NEW S \in SUBSET Proc, process_list[1] \in S, Closed(S) PROVE p \in S
  BY <1>1, <1>2, WholeList
<1>3. QED BY <1>1, <1>2 DEF Reach

LEMMA ReachType ==
  ASSUME NEW f, NEW p, <<f, p>> \in Reach
  PROVE  f \in Proc /\ p \in Proc
BY DEF Reach

LEMMA ReachNext ==
  ASSUME TypeOK, NEW f, NEW p, <<f, p>> \in Reach, p # f
  PROVE  NextOf(f) # NULL /\ <<NextOf(f), p>> \in Reach
<1>1. f \in Proc /\ p \in Proc /\ NextOf(f) \in Proc \cup {NULL}
  BY ReachType, NextOfType DEF Pointer
<1>2. ASSUME NextOf(f) = NULL PROVE FALSE
  <2>1. Closed({f})
    BY <1>2 DEF Closed
  <2>2. {f} \in SUBSET Proc /\ p \notin {f}
    BY <1>1
  <2>3. QED BY <2>1, <2>2 DEF Reach
<1>3. ASSUME NEW S \in SUBSET Proc, NextOf(f) \in S, Closed(S) PROVE p \in S
  <2>1. Closed(S \cup {f}) /\ S \cup {f} \in SUBSET Proc
    BY <1>1, <1>3 DEF Closed
  <2>2. p \in S \cup {f}
    BY <2>1 DEF Reach
  <2>3. QED BY <2>2
<1>4. QED BY <1>1, <1>2, <1>3 DEF Reach

\* What lies ahead of a listed process comes no earlier on the list.
LEMMA ReachIsLater ==
  ASSUME TypeOK, ListIsSet, NEW f, NEW p, <<f, p>> \in Reach, Listed(f)
  PROVE  IndexOf(f) <= IndexOf(p)
<1> DEFINE S == {q \in Proc : Listed(q) /\ IndexOf(f) <= IndexOf(q)}
<1>1. f \in Proc /\ p \in Proc /\ process_list \in Seq(Proc)
  BY ReachType DEF TypeOK
<1>2. IndexOf(f) \in DOMAIN process_list
  BY DEF Listed, IndexOf
<1>3. ASSUME NEW q \in S, NextOf(q) # NULL PROVE NextOf(q) \in S
  <2>1. /\ Listed(NextOf(q)) /\ NextOf(q) = process_list[IndexOf(q) + 1]
        /\ IndexOf(q) + 1 \in DOMAIN process_list
    BY <1>3, NextIsListed
  <2>2. IndexOf(NextOf(q)) = IndexOf(q) + 1
    BY <1>1, <2>1, NextIsNext
  <2>3. IndexOf(f) <= IndexOf(q) + 1
    <3>1. IndexOf(f) \in Nat /\ IndexOf(q) \in Nat
      BY <1>1, <1>2, <1>3 DEF Listed, IndexOf
    <3>2. QED BY <1>3, <3>1
  <2>4. NextOf(q) \in Proc
    BY <1>1, <2>1
  <2>5. QED BY <2>1, <2>2, <2>3, <2>4
<1>4. f \in S
  BY <1>1, <1>2
<1> HIDE DEF S
<1>5. Closed(S) /\ S \in SUBSET Proc
  BY <1>3 DEF Closed, S
<1>6. p \in S
  BY <1>4, <1>5 DEF Reach
<1>7. QED BY <1>6 DEF S

LEMMA ReachOfSame ==
  ASSUME UNCHANGED <<process_list, next>>
  PROVE  /\ Reach' = Reach
         /\ \A p : Listed(p)' <=> Listed(p)
BY DEF Reach, Closed, NextOf, Successor, IndexOf, Listed

\* A process that leaves the list keeps its next, and who points to it takes
\* that over: nobody behind it is cut off.
LEMMA UnlinkNext ==
  ASSUME TypeOK, ListIsSet, NEW p \in Proc, Listed(p), Unlink(p)
  PROVE  \A q \in Proc :
           NextOf(q)' = IF Listed(q) /\ NextOf(q) = p THEN NextOf(p) ELSE NextOf(q)
<1> DEFINE n == Len(process_list)
           k == IndexOf(p)
           w == Without(p)
<1>1. /\ n \in Nat /\ DOMAIN process_list = 1 .. n
      /\ k \in 1 .. n /\ process_list[k] = p
      /\ Len(w) = n - 1 /\ DOMAIN w = 1 .. n - 1
      /\ \A i \in 1 .. n - 1 :
           w[i] = IF i < k THEN process_list[i] ELSE process_list[i + 1]
  BY WithoutFacts
<1>2. process_list' = w /\ next' = [next EXCEPT ![p] = NextOf(p)]
      /\ process_list \in Seq(Proc) /\ next \in [Proc -> Pointer]
  BY DEF Unlink, TypeOK
<1>3. /\ ListIsSet' /\ \A q \in Proc : Listed(q)' <=> Listed(q) /\ q # p
  BY UnlinkFacts
<1>4. \A i \in 1 .. n :
        /\ Listed(process_list[i])
        /\ NextOf(process_list[i]) = IF i < n THEN process_list[i + 1] ELSE NULL
  BY <1>2, NextIsNext
<1> HIDE DEF n, k, w
<1>5. ASSUME NEW q \in Proc, ~Listed(q)'
      PROVE  NextOf(q)' = IF Listed(q) /\ NextOf(q) = p THEN NextOf(p) ELSE NextOf(q)
  <2>1. NextOf(q)' = next'[q]
    BY <1>5 DEF NextOf, Listed
  <2>2. CASE q = p
    <3>1. NextOf(p) # p
      <4>1. k < n => process_list[k + 1] # process_list[k]
        BY <1>1 DEF ListIsSet
      <4>2. QED BY <1>1, <1>4, <4>1, NullAssumption
    <3>2. QED BY <1>2, <2>1, <2>2, <3>1
  <2>3. CASE q # p
    BY <1>2, <1>3, <1>5, <2>1, <2>3 DEF NextOf
  <2>4. QED BY <2>2, <2>3
<1>6. ASSUME NEW q \in Proc, Listed(q)'
      PROVE  NextOf(q)' = IF Listed(q) /\ NextOf(q) = p THEN NextOf(p) ELSE NextOf(q)
  <2>1. PICK j \in 1 .. n - 1 : w[j] = q
    BY <1>1, <1>2, <1>6 DEF Listed
  <2>2. NextOf(q)' = IF j < n - 1 THEN w[j + 1] ELSE NULL
    <3>1. IndexOf(q)' = j
      <4>1. IndexOf(q)' \in DOMAIN w /\ w[IndexOf(q)'] = q
        BY <1>2, <1>6 DEF Listed, IndexOf
      <4>2. QED BY <1>1, <1>2, <1>3, <2>1, <4>1 DEF ListIsSet
    <3>2. QED BY <1>1, <1>2, <1>6, <3>1 DEF NextOf, Successor, Listed
  <2>3. ASSUME NEW a \in 1 .. n, NEW b \in 1 .. n, process_list[a] = process_list[b]
        PROVE  a = b
    BY <1>1, <2>3 DEF ListIsSet
  <2>4. CASE j + 1 < k
    <3>1. /\ j \in 1 .. n /\ j + 1 \in 1 .. n /\ j + 1 \in 1 .. n - 1 /\ j < n - 1 /\ j < n
          /\ process_list[j] = q /\ w[j + 1] = process_list[j + 1]
      BY <1>1, <2>1, <2>4
    <3>2. Listed(q) /\ NextOf(q) = process_list[j + 1]
      BY <1>4, <3>1
    <3>3. process_list[j + 1] # p
      BY <1>1, <2>3, <2>4, <3>1
    <3>4. QED BY <2>2, <3>1, <3>2, <3>3
  <2>5. CASE j + 1 = k
    <3>1. j \in 1 .. n /\ j < n /\ process_list[j] = q /\ process_list[j + 1] = p
      BY <1>1, <2>1, <2>5
    <3>2. Listed(q) /\ NextOf(q) = p
      BY <1>4, <3>1
    <3>3. NextOf(p) = IF k < n THEN process_list[k + 1] ELSE NULL
      BY <1>1, <1>4
    <3>4. k < n => j < n - 1 /\ w[j + 1] = process_list[k + 1]
      BY <1>1, <2>5
    <3>5. ~(k < n) => ~(j < n - 1)
      BY <1>1, <2>5
    <3>6. QED BY <2>2, <3>2, <3>3, <3>4, <3>5
  <2>6. CASE ~(j + 1 < k) /\ j + 1 # k
    <3>1. /\ j + 1 \in 1 .. n /\ process_list[j + 1] = q
          /\ j < n - 1 => w[j + 1] = process_list[(j + 1) + 1] /\ (j + 1) + 1 \in 1 .. n
      BY <1>1, <2>1, <2>6
    <3>2. Listed(q) /\ NextOf(q) = IF j + 1 < n THEN process_list[(j + 1) + 1] ELSE NULL
      BY <1>4, <3>1
    <3>3. NextOf(q) # p
      <4>1. ASSUME j + 1 < n PROVE process_list[(j + 1) + 1] # p
        BY <1>1, <2>1, <2>3, <2>6, <3>1, <4>1
      <4>2. QED BY <3>2, <4>1, NullAssumption
    <3>4. j < n - 1 <=> j + 1 < n
      BY <1>1, <2>1
    <3>5. QED BY <2>2, <3>1, <3>2, <3>3, <3>4
  <2>7. QED BY <2>4, <2>5, <2>6
<1>7. QED BY <1>5, <1>6

LEMMA UnlinkReach ==
  ASSUME TypeOK, ListIsSet, NEW p \in Proc, Listed(p), Unlink(p),
         NEW f, NEW q, <<f, q>> \in Reach, q # p
  PROVE  <<f, q>> \in Reach'
<1> DEFINE Nx == [x \in Proc |-> NextOf(x)]
<1>1. f \in Proc /\ q \in Proc
  BY ReachType
<1>2. \A x \in Proc : NextOf(x)' = IF Listed(x) /\ NextOf(x) = p THEN NextOf(p) ELSE NextOf(x)
  BY UnlinkNext
<1>3. ASSUME NEW S \in SUBSET Proc, f \in S, Closed(S)' PROVE q \in S
  <2> DEFINE T == S \cup {x \in {p} : \E y \in S : Listed(y) /\ NextOf(y) = p}
  <2>1. \A x \in S : NextOf(x)' \in S \cup {NULL}
    BY <1>3 DEF Closed
  <2>2. ASSUME NEW x \in T PROVE NextOf(x) \in T \cup {NULL}
    <3>1. CASE x \in S /\ Listed(x) /\ NextOf(x) = p
      BY <3>1
    <3>2. CASE x \in S /\ ~(Listed(x) /\ NextOf(x) = p)
      BY <1>2, <2>1, <3>2
    <3>3. CASE x \notin S
      <4>1. PICK y \in S : x = p /\ Listed(y) /\ NextOf(y) = p
        BY <2>2, <3>3
      <4>2. NextOf(y)' = NextOf(p) /\ NextOf(y)' \in S \cup {NULL}
        BY <1>2, <2>1, <4>1
      <4>3. QED BY <4>1, <4>2
    <3>4. QED BY <3>1, <3>2, <3>3
  <2>3. Closed(T) /\ T \in SUBSET Proc /\ f \in T
    BY <1>3, <2>2 DEF Closed
  <2>4. q \in T
    BY <2>3 DEF Reach
  <2>5. QED BY <2>4
<1>4. QED BY <1>1, <1>3 DEF Reach

LEMMA StartReach ==
  ASSUME TypeOK, ListIsSet, NEW p \in Proc, ~Listed(p),
         process_list' = <<p>> \o process_list, next' = [next EXCEPT ![p] = NULL],
         NEW f, NEW q, <<f, q>> \in Reach, Listed(q)
  PROVE  <<f, q>> \in Reach'
<1> DEFINE n == Len(process_list)
<1>1. /\ n \in Nat /\ DOMAIN process_list = 1 .. n
      /\ DOMAIN process_list' = 1 .. n + 1 /\ Len(process_list') = n + 1
      /\ process_list'[1] = p
      /\ \A i \in 2 .. n + 1 : process_list'[i] = process_list[i - 1]
      /\ process_list \in Seq(Proc)
  BY DEF TypeOK
<1>2. /\ ListIsSet' /\ \A x \in Proc : Listed(x)' <=> Listed(x) \/ x = p
  BY StartFacts
<1>3. \A i \in 1 .. n :
        /\ Listed(process_list[i])
        /\ NextOf(process_list[i]) = IF i < n THEN process_list[i + 1] ELSE NULL
  BY <1>1, NextIsNext
<1>a. f \in Proc /\ q \in Proc /\ next \in [Proc -> Pointer]
  BY ReachType DEF TypeOK
<1> HIDE DEF n
<1>4. ASSUME NEW x \in Proc, x # p PROVE NextOf(x)' = NextOf(x)
  <2>1. CASE ~Listed(x)
    BY <1>2, <1>4, <1>a, <2>1 DEF NextOf
  <2>2. CASE Listed(x)
    <3>1. PICK j \in 1 .. n : process_list[j] = x
      BY <1>1, <2>2 DEF Listed
    <3>2. IndexOf(x)' = j + 1
      <4>1. j + 1 \in DOMAIN process_list' /\ process_list'[j + 1] = x
        BY <1>1, <3>1
      <4>2. IndexOf(x)' \in DOMAIN process_list' /\ process_list'[IndexOf(x)'] = x
        BY <1>2, <2>2 DEF Listed, IndexOf
      <4>3. QED BY <1>2, <4>1, <4>2 DEF ListIsSet
    <3>3. NextOf(x)' = IF j + 1 < n + 1 THEN process_list'[(j + 1) + 1] ELSE NULL
      BY <1>1, <1>2, <2>2, <3>2 DEF NextOf, Successor
    <3>4. j < n => process_list'[(j + 1) + 1] = process_list[j + 1]
      BY <1>1
    <3>5. j + 1 < n + 1 <=> j < n
      BY <1>1
    <3>6. QED BY <1>3, <3>1, <3>3, <3>4, <3>5
  <2>3. QED BY <2>1, <2>2
<1>5. n > 0 => NextOf(p)' = process_list[1]
  <2>1. IndexOf(p)' = 1
    <3>1. IndexOf(p)' \in DOMAIN process_list' /\ process_list'[IndexOf(p)'] = p
          /\ 1 \in DOMAIN process_list'
      BY <1>1, <1>2 DEF Listed, IndexOf
    <3>2. QED BY <1>1, <1>2, <3>1 DEF ListIsSet
  <2>2. QED BY <1>1, <1>2, <2>1 DEF NextOf, Successor
<1>6. ASSUME NEW S \in SUBSET Proc, f \in S, Closed(S)' PROVE q \in S
  <2>1. \A x \in S : NextOf(x)' \in S \cup {NULL}
    BY <1>6 DEF Closed
  <2>2. n > 0
    BY <1>1 DEF Listed
  <2>3. CASE p \in S
    <3> DEFINE T == S \ {p}
    <3>1. process_list[1] \in T
      <4>1. process_list[1] \in Proc /\ process_list[1] # p
        <5>1. 1 \in DOMAIN process_list /\ Listed(process_list[1])
          BY <1>1, <1>3, <2>2
        <5>2. QED BY <1>1, <5>1
      <4>2. QED BY <1>5, <2>1, <2>2, <2>3, <4>1, NullAssumption
    <3>2. ASSUME NEW x \in T, Listed(x) PROVE NextOf(x) \in T \cup {NULL}
      <4>1. NextOf(x) \in S \cup {NULL}
        BY <1>4, <2>1
      <4>2. NextOf(x) # NULL => Listed(NextOf(x))
        BY <3>2, NextIsListed
      <4>3. QED BY <4>1, <4>2
    <3> DEFINE U == {x \in T : Listed(x)}
    <3>3. Closed(U) /\ U \in SUBSET Proc
      <4>1. \A x \in U : NextOf(x) # NULL => Listed(NextOf(x))
        BY NextIsListed
      <4>2. QED BY <3>2, <4>1 DEF Closed
    <3>4. process_list[1] \in U
      BY <1>1, <1>3, <2>2, <3>1
    <3> HIDE DEF U
    <3>5. q \in U
      BY <1>1, <1>a, <3>3, <3>4, WholeList
    <3>6. QED BY <3>5 DEF U
  <2>4. CASE p \notin S
    <3>1. Closed(S)
      BY <1>4, <2>1, <2>4 DEF Closed
    <3>2. QED BY <1>6, <3>1 DEF Reach
  <2>5. QED BY <2>3, <2>4
<1>7. QED BY <1>a, <1>6 DEF Reach

----------------------------------------------------------------------------
(* HistoryInv: the steps that leave the loops of do_poll and do_event where *)
(* they are                                                                *)

Loops == {"poll", "bcast"}
LoopsStay == \A i \in DOMAIN stack : stack[i].kind \in Loops =>
               i \in DOMAIN stack' /\ stack'[i] = stack[i]
ReachStays == \A f, p : <<f, p>> \in Reach /\ Listed(p) /\ state'[p] # "NONE" =>
                          <<f, p>> \in Reach'

\* What a step does to the history.
Settled == /\ owed' = {p \in owed : state'[p] # "NONE" /\ ~PolledNow(p)'}
           /\ due' = IF TopIs("bcast")' /\ ~TopIs("bcast") /\ stack = <<>>
                     THEN {p \in Proc : Listed(p)}
                     ELSE {p \in due : state'[p] # "NONE" /\ ~Reached(p)'}

LEMMA HistoryKept ==
  ASSUME HistoryInv, IInv', LoopsStay, ReachStays,
         \A p \in Proc : needspoll[p] => needspoll'[p],
         poll_requested => poll_requested',
         owed' \subseteq {p \in owed : state'[p] # "NONE"},
         due' \subseteq {p \in due : state'[p] # "NONE"}
  PROVE  HistoryInv'
<1>0. /\ owed \subseteq Proc /\ due \subseteq Proc
      /\ \A p \in Proc : state[p] # "NONE" => Listed(p)
      /\ \A p \in Proc : state'[p] # "NONE" => Listed(p)'
  BY DEF HistoryInv, IInv, RunningIsListed
<1>1. ASSUME NEW p \in Proc, NEW i \in DOMAIN stack, stack[i].kind \in Loops,
             Ahead(stack[i], p), Listed(p), state'[p] # "NONE"
      PROVE  /\ i \in DOMAIN stack' /\ stack'[i] = stack[i]
             /\ <<stack'[i].p, p>> \in Reach'
             /\ stack'[i].at = "called" => p # stack'[i].p
  BY <1>1 DEF LoopsStay, ReachStays, Ahead
<1>2. PollInv'
  <2>1. ASSUME NEW p \in owed'
        PROVE  /\ state'[p] # "NONE" /\ needspoll'[p]
               /\ \/ poll_requested'
                  \/ \E i \in DOMAIN stack' :
                       /\ stack'[i].kind = "poll"
                       /\ <<stack'[i].p, p>> \in Reach'
                       /\ stack'[i].at = "called" => p # stack'[i].p
    <3>1. /\ p \in owed /\ p \in Proc /\ Listed(p) /\ state'[p] # "NONE"
          /\ needspoll[p] /\ needspoll'[p]
          /\ \/ poll_requested
             \/ \E i \in DOMAIN stack : stack[i].kind = "poll" /\ Ahead(stack[i], p)
      BY <1>0, <2>1 DEF HistoryInv, PollInv
    <3>2. CASE poll_requested
      BY <3>1, <3>2
    <3>3. ASSUME NEW i \in DOMAIN stack, stack[i].kind = "poll", Ahead(stack[i], p)
          PROVE  \E k \in DOMAIN stack' :
                       /\ stack'[k].kind = "poll"
                       /\ <<stack'[k].p, p>> \in Reach'
                       /\ stack'[k].at = "called" => p # stack'[k].p
      <4>1. /\ i \in DOMAIN stack' /\ stack'[i] = stack[i]
            /\ <<stack'[i].p, p>> \in Reach'
            /\ stack'[i].at = "called" => p # stack'[i].p
        BY <1>1, <3>1, <3>3 DEF Loops
      <4>2. QED BY <3>3, <4>1
    <3>4. QED BY <3>1, <3>2, <3>3
  <2>2. QED BY <2>1 DEF PollInv, Ahead
<1>3. BroadcastInv'
  <2>1. ASSUME NEW p \in due'
        PROVE  /\ Listed(p)'
               /\ stack' # <<>> /\ stack'[1].kind = "bcast"
               /\ <<stack'[1].p, p>> \in Reach'
               /\ stack'[1].at = "called" => p # stack'[1].p
    <3>1. /\ p \in Proc /\ Listed(p) /\ state'[p] # "NONE" /\ Listed(p)'
          /\ stack # <<>> /\ stack[1].kind = "bcast" /\ Ahead(stack[1], p)
      BY <1>0, <2>1 DEF HistoryInv, BroadcastInv
    <3>2. 1 \in DOMAIN stack
      BY <3>1 DEF HistoryInv, IInv, TypeOK
    <3>3. /\ 1 \in DOMAIN stack' /\ stack'[1] = stack[1]
          /\ <<stack'[1].p, p>> \in Reach'
          /\ stack'[1].at = "called" => p # stack'[1].p
      BY <1>1, <3>1, <3>2 DEF Loops
    <3>4. QED BY <3>1, <3>3
  <2>2. QED BY <2>1 DEF BroadcastInv, Ahead, Listed
<1>4. owed' \subseteq Proc /\ due' \subseteq Proc
  BY <1>0
<1>5. QED BY <1>2, <1>3, <1>4 DEF HistoryInv

LEMMA AnyPush ==
  ASSUME NEW S, NEW s \in Seq(S), NEW f
  PROVE  /\ Append(s, f) \in Seq(S \cup {f})
         /\ Len(s) \in Nat /\ DOMAIN s = 1 .. Len(s)
         /\ \A i \in DOMAIN s : i \in DOMAIN Append(s, f) /\ Append(s, f)[i] = s[i]
         /\ Len(Append(s, f)) = Len(s) + 1 /\ Append(s, f)[Len(s) + 1] = f
<1>1. s \in Seq(S \cup {f})
  OBVIOUS
<1>2. QED BY <1>1

LEMMA AnyMoved ==
  ASSUME TypeOK, stack # <<>>, NEW f
  PROVE  /\ Len(stack) \in Nat \ {0} /\ DOMAIN stack = 1 .. Len(stack)
         /\ \E S : Moved(f) \in Seq(S)
         /\ Len(Moved(f)) = Len(stack) /\ DOMAIN Moved(f) = 1 .. Len(stack)
         /\ \A i \in 1 .. Len(stack) - 1 : Moved(f)[i] = stack[i]
         /\ Moved(f)[Len(stack)] = f
<1> DEFINE s == Pop
           n == Len(stack)
<1>1. /\ s \in Seq(Frames) /\ Len(s) = n - 1 /\ DOMAIN s = 1 .. n - 1
      /\ \A i \in 1 .. n - 1 : s[i] = stack[i]
      /\ n \in Nat \ {0} /\ DOMAIN stack = 1 .. n
  BY PopFacts
<1>2. Moved(f) = Append(s, f)
  BY DEF Moved
<1> HIDE DEF s, n
<1>3. /\ Append(s, f) \in Seq(Frames \cup {f})
      /\ \A i \in DOMAIN s : i \in DOMAIN Append(s, f) /\ Append(s, f)[i] = s[i]
      /\ Len(Append(s, f)) = Len(s) + 1 /\ Append(s, f)[Len(s) + 1] = f
  BY <1>1, AnyPush
<1>4. Len(s) + 1 = n
  BY <1>1
<1>5. DOMAIN Append(s, f) = 1 .. n
  BY <1>3, <1>4
<1>6. QED BY <1>1, <1>2, <1>3, <1>4, <1>5 DEF n

LEMMA LoopsStayUnder ==
  ASSUME TypeOK, NEW base,
         \/ base = stack
         \/ /\ stack # <<>> /\ Top.kind \notin Loops
            /\ base = Pop \/ \E f : base = Append(Pop, f),
         stack' = base \/ \E g : stack' = Append(base, g)
  PROVE  LoopsStay
<1>1. /\ \E S : base \in Seq(S)
      /\ \A i \in DOMAIN stack : stack[i].kind \in Loops =>
           i \in DOMAIN base /\ base[i] = stack[i]
  <2>1. CASE base = stack
    BY <2>1 DEF TypeOK
  <2>2. CASE base # stack
    <3>1. /\ stack # <<>> /\ stack[Len(stack)].kind \notin Loops
          /\ base = Pop \/ \E f : base = Append(Pop, f)
      BY <2>2 DEF Top
    <3>2. /\ Len(stack) \in Nat /\ DOMAIN stack = 1 .. Len(stack)
          /\ Pop \in Seq(Frames) /\ DOMAIN Pop = 1 .. Len(stack) - 1
          /\ \A i \in 1 .. Len(stack) - 1 : Pop[i] = stack[i]
      BY <3>1, PopFacts
    <3>3. ASSUME NEW i \in DOMAIN stack, stack[i].kind \in Loops
          PROVE  i \in DOMAIN Pop /\ Pop[i] = stack[i]
      BY <3>1, <3>2, <3>3
    <3>4. CASE base = Pop
      BY <3>2, <3>3, <3>4
    <3>5. ASSUME NEW f, base = Append(Pop, f)
          PROVE  /\ base \in Seq(Frames \cup {f})
                 /\ \A i \in DOMAIN stack : stack[i].kind \in Loops =>
                      i \in DOMAIN base /\ base[i] = stack[i]
      <4> DEFINE s == Pop
      <4>a. s \in Seq(Frames)
        BY <3>2
      <4> HIDE DEF s
      <4>b. /\ Append(s, f) \in Seq(Frames \cup {f})
            /\ \A i \in DOMAIN s : i \in DOMAIN Append(s, f) /\ Append(s, f)[i] = s[i]
        BY <4>a, AnyPush
      <4>1. /\ base \in Seq(Frames \cup {f})
            /\ \A i \in DOMAIN Pop : i \in DOMAIN base /\ base[i] = Pop[i]
        BY <3>5, <4>b DEF s
      <4>2. QED BY <3>3, <4>1
    <3>6. QED BY <3>1, <3>4, <3>5
  <2>3. QED BY <2>1, <2>2
<1>2. ASSUME NEW i \in DOMAIN base PROVE i \in DOMAIN stack' /\ stack'[i] = base[i]
  <2>1. CASE stack' = base
    BY <2>1
  <2>2. ASSUME NEW g, stack' = Append(base, g)
        PROVE  i \in DOMAIN stack' /\ stack'[i] = base[i]
    BY <1>1, <2>2, AnyPush
  <2>3. QED BY <2>1, <2>2
<1>3. QED BY <1>1, <1>2 DEF LoopsStay

\* No list changes, no poll is requested, no loop moves and none begins.
LEMMA QuietStep ==
  ASSUME HistoryInv, IInv', Settled, UNCHANGED <<process_list, next, needspoll, poll_requested>>,
         LoopsStay, stack = <<>> => ~TopIs("bcast")'
  PROVE  HistoryInv'
<1>1. ReachStays
  BY ReachOfSame DEF ReachStays
<1>2. /\ owed' \subseteq {p \in owed : state'[p] # "NONE"}
      /\ due' \subseteq {p \in due : state'[p] # "NONE"}
  BY DEF Settled
<1>3. QED BY <1>1, <1>2, HistoryKept

LEMMA CallShape ==
  ASSUME NEW st, NEW p, NEW ev, NEW base, CallProcess(st, p, ev, base)
  PROVE  stack' = base \/ stack' = Append(base, Thread(p, ev))
BY DEF CallProcess

LEMMA QuietKernel ==
  ASSUME HistoryInv, IInv', Settled,
         \/ BootDone \/ (DoEvent /\ ~(nevents # 0 /\ events[fevent].p = BROADCAST))
         \/ ExitVisit \/ ExitAdvance \/ ExitThread \/ SynchReturn
         \/ RunPoll /\ ~poll_requested
  PROVE  HistoryInv'
<1>0. TypeOK /\ UNCHANGED <<process_list, next, needspoll, poll_requested>>
  BY DEF HistoryInv, IInv, BootDone, DoEvent, ExitVisit, ExitAdvance, ExitThread, SynchReturn,
         RunPoll, listVars, pollVars
<1>1. ASSUME stack' = stack PROVE HistoryInv'
  <2>1. LoopsStay /\ (stack = <<>> => ~TopIs("bcast")')
    BY <1>1 DEF LoopsStay, TopIs
  <2>2. QED BY <1>0, <2>1, QuietStep
<1>2. CASE DoEvent /\ ~(nevents # 0 /\ events[fevent].p = BROADCAST)
  <2> DEFINE e == events[fevent]
  <2>1. stack = <<>> /\ (stack' = <<>> \/ stack' = Append(stack, Thread(e.p, e.ev)))
    BY <1>2, CallShape DEF DoEvent
  <2>2. LoopsStay
    BY <2>1 DEF LoopsStay
  <2> HIDE DEF e
  <2>3. ~TopIs("bcast")'
    <3>1. CASE stack' = <<>>
      BY <3>1 DEF TopIs
    <3>2. CASE stack' = Append(stack, Thread(e.p, e.ev))
      <4>1. stack' = <<Thread(e.p, e.ev)>>
        BY <2>1, <3>2
      <4>2. Top'.kind = "thread"
        BY <4>1 DEF Top, Thread
      <4>3. QED BY <4>2 DEF TopIs
    <3>3. QED BY <2>1, <3>1, <3>2
  <2>4. QED BY <1>0, <2>2, <2>3, QuietStep
<1>3. CASE ExitVisit \/ ExitAdvance \/ ExitThread \/ SynchReturn
  <2>1. stack # <<>> /\ Top.kind \in {"exit", "synch"}
    BY <1>3 DEF ExitVisit, ExitAdvance, ExitThread, SynchReturn, TopAt, TopIs
  <2>2. \E base : /\ base = Pop \/ \E f : base = Append(Pop, f)
                  /\ stack' = base \/ \E g : stack' = Append(base, g)
    <3>1. CASE ExitVisit
      <4>1. \E f : \/ stack' = Append(Pop, f)
                   \/ \E st, q : CallProcess(st, q, "EXITED", Append(Pop, f))
        BY <3>1 DEF ExitVisit, Moved
      <4>2. PICK f : \/ stack' = Append(Pop, f)
                     \/ \E st, q : CallProcess(st, q, "EXITED", Append(Pop, f))
        BY <4>1
      <4>3. stack' = Append(Pop, f) \/ \E g : stack' = Append(Append(Pop, f), g)
        BY <4>2, CallShape
      <4>4. QED BY <4>3
    <3>2. CASE ExitAdvance
      BY <3>2 DEF ExitAdvance, Moved
    <3>3. CASE ExitThread
      BY <3>3 DEF ExitThread, Moved
    <3>4. CASE SynchReturn
      BY <3>4 DEF SynchReturn
    <3>5. QED BY <1>3, <3>1, <3>2, <3>3, <3>4
  <2>3. LoopsStay
    BY <1>0, <2>1, <2>2, LoopsStayUnder DEF Loops
  <2>4. stack = <<>> => ~TopIs("bcast")'
    BY <2>1
  <2>5. QED BY <1>0, <2>3, <2>4, QuietStep
<1>4. CASE BootDone
  <2>1. stack' = stack
    BY <1>4 DEF BootDone
  <2>2. QED BY <1>1, <2>1
<1>5. CASE RunPoll /\ ~poll_requested
  <2>1. stack' = stack
    BY <1>5 DEF RunPoll
  <2>2. QED BY <1>1, <2>1
<1>6. QED BY <1>2, <1>3, <1>4, <1>5

LEMMA QuietReturn ==
  ASSUME HistoryInv, IInv', Settled, Return
  PROVE  HistoryInv'
<1>0. TypeOK /\ UNCHANGED <<needspoll, poll_requested>> /\ stack # <<>>
      /\ Top.kind \in {"thread", "bye"}
  BY DEF HistoryInv, IInv, Return, ThreadYields, ThreadEnds, ByeReturns, pollVars, TopIs
<1>1. CASE ThreadYields \/ ByeReturns
  <2>1. stack' = Pop /\ UNCHANGED <<process_list, next>>
    BY <1>1 DEF ThreadYields, ByeReturns, listVars
  <2>2. LoopsStay
    BY <1>0, <2>1, LoopsStayUnder DEF Loops
  <2>3. QED BY <1>0, <2>1, <2>2, QuietStep
<1>2. CASE ThreadEnds
  <2>1. Listed(Top.p) /\ state[Top.p] # "NONE"
    <3>1. Len(stack) \in DOMAIN stack /\ Top \in ThreadFrames
      BY <1>0, <1>2, PopFacts, TopFrame DEF ThreadEnds, TopIs
    <3>2. Top.p \in Proc /\ state[Top.p] = "CALLED"
      BY <1>2, <3>1 DEF ThreadEnds, TopIs, Top, HistoryInv, IInv, ThreadsOk, ThreadFrames
    <3>3. QED BY <3>2 DEF HistoryInv, IInv, RunningIsListed
  <2>2. (\E g : stack' = Append(Pop, g)) /\ UNCHANGED <<process_list, next>>
    BY <1>2, <2>1 DEF ThreadEnds, ExitProcess, listVars
  <2>3. LoopsStay
    BY <1>0, <2>2, LoopsStayUnder DEF Loops
  <2>4. QED BY <1>0, <2>2, <2>3, QuietStep
<1>3. QED BY <1>1, <1>2 DEF Return

LEMMA QuietService ==
  ASSUME HistoryInv, IInv', Settled, SelfExit = FALSE,
         \/ PostOne \/ PostAll \/ \E p \in Synched : ProcessPostSynch(p)
         \/ \E p \in Exited : ProcessExit(p)
         \/ \E p \in Proc : Listed(p) /\ ProcessStart(p)
  PROVE  HistoryInv'
<1>0. TypeOK
  BY DEF HistoryInv, IInv
<1>1. ASSUME NEW e, ProcessPost(e) PROVE HistoryInv'
  <2>1. stack' = stack /\ UNCHANGED <<process_list, next, needspoll, poll_requested>>
        /\ stack # <<>>
    BY <1>1 DEF ProcessPost, listVars, pollVars, Executing, TopIs
  <2>2. LoopsStay
    BY <2>1 DEF LoopsStay
  <2>3. QED BY <2>1, <2>2, QuietStep
<1>2. ASSUME NEW p \in Synched, ProcessPostSynch(p) PROVE HistoryInv'
  <2>1. /\ UNCHANGED <<process_list, next, needspoll, poll_requested>> /\ stack # <<>>
        /\ CallProcess(state, p, "EVENT", Append(stack, Synch))
    BY <1>2 DEF ProcessPostSynch, listVars, pollVars, Executing, TopIs
  <2>2. stack' = Append(stack, Synch)
        \/ stack' = Append(Append(stack, Synch), Thread(p, "EVENT"))
    BY <2>1, CallShape
  <2>3. ASSUME NEW i \in DOMAIN stack PROVE i \in DOMAIN stack' /\ stack'[i] = stack[i]
    <3>1. stack \in Seq(Frames)
      BY <1>0 DEF TypeOK
    <3>2. /\ Append(stack, Synch) \in Seq(Frames \cup {Synch})
          /\ i \in DOMAIN Append(stack, Synch) /\ Append(stack, Synch)[i] = stack[i]
      BY <3>1, AnyPush
    <3>3. QED BY <2>2, <3>2, AnyPush
  <2>4. LoopsStay
    BY <2>3 DEF LoopsStay
  <2>5. QED BY <2>1, <2>4, QuietStep
<1>3. ASSUME NEW p \in Exited, ProcessExit(p) PROVE HistoryInv'
  <2>1. /\ UNCHANGED <<needspoll, poll_requested>> /\ stack # <<>> /\ p \in Proc
        /\ MayExit(p) /\ ExitProcess(p, process_current, stack)
    BY <1>3, EnvironmentAssumption DEF ProcessExit, pollVars, Executing, TopIs
  <2>2. Listed(p) => state[p] # "NONE"
    BY <2>1 DEF MayExit
  <2>3. /\ UNCHANGED <<process_list, next>>
        /\ stack' = stack \/ \E g : stack' = Append(stack, g)
    BY <2>1, <2>2 DEF ExitProcess, Unlink, listVars
  <2>4. LoopsStay
    BY <1>0, <2>3, LoopsStayUnder
  <2>5. QED BY <2>1, <2>3, <2>4, QuietStep
<1>4. ASSUME NEW p \in Proc, Listed(p), ProcessStart(p) PROVE HistoryInv'
  <2>1. stack' = stack /\ UNCHANGED <<process_list, next, needspoll, poll_requested>>
    BY <1>4 DEF ProcessStart, AlreadyStarted, listVars, pollVars
  <2>2. LoopsStay /\ (stack = <<>> => ~TopIs("bcast")')
    BY <2>1 DEF LoopsStay, TopIs
  <2>3. QED BY <2>1, <2>2, QuietStep
<1>5. QED BY <1>1, <1>2, <1>3, <1>4 DEF PostOne, PostAll

----------------------------------------------------------------------------
(* HistoryInv: the steps that change the list                              *)

LEMMA UnlinkHistory ==
  ASSUME HistoryInv, IInv', Settled, ExitUnlink
  PROVE  HistoryInv'
<1>a. PICK p : p = Top.p
  OBVIOUS
<1>1. /\ TypeOK /\ ListIsSet /\ stack # <<>> /\ Top.kind = "exit" /\ Unlink(p)
      /\ stack' = Pop /\ UNCHANGED <<state, needspoll, poll_requested>>
  BY <1>a DEF HistoryInv, IInv, ExitUnlink, TopAt, TopIs, pollVars
<1>2. p \in Proc /\ Listed(p) /\ state[p] = "NONE"
  <2>1. Len(stack) \in DOMAIN stack /\ Top \in ExitFrames
    BY <1>1, PopFacts, TopFrame
  <2>2. QED
    BY <1>1, <1>a, <2>1 DEF Top, HistoryInv, IInv, ExitingIsListed, ExitsOk, ExitFrames
<1>3. ReachStays
  BY <1>1, <1>2, UnlinkReach DEF ReachStays
<1>4. LoopsStay
  BY <1>1, LoopsStayUnder DEF Loops
<1>5. /\ owed' \subseteq {q \in owed : state'[q] # "NONE"}
      /\ due' \subseteq {q \in due : state'[q] # "NONE"}
  BY <1>1 DEF Settled
<1>6. QED BY <1>1, <1>3, <1>4, <1>5, HistoryKept

LEMMA StartHistory ==
  ASSUME HistoryInv, IInv', Settled, NEW p \in Proc, ~Listed(p), ProcessStart(p)
  PROVE  HistoryInv'
<1> DEFINE st == [state EXCEPT ![p] = "RUNNING"]
<1>1. /\ TypeOK /\ ListIsSet /\ UNCHANGED <<needspoll, poll_requested>>
      /\ process_list' = <<p>> \o process_list /\ next' = [next EXCEPT ![p] = NULL]
      /\ CallProcess(st, p, "INIT", Append(stack, Synch))
  BY DEF HistoryInv, IInv, ProcessStart, AlreadyStarted, pollVars
<1> HIDE DEF st
<1>2. stack' = Append(stack, Synch)
      \/ stack' = Append(Append(stack, Synch), Thread(p, "INIT"))
  BY <1>1, CallShape
<1> DEFINE base == Append(stack, Synch)
<1>3. /\ base \in Seq(Frames \cup {Synch}) /\ Len(base) = Len(stack) + 1
      /\ Len(stack) \in Nat /\ base[Len(stack) + 1] = Synch
      /\ \A i \in DOMAIN stack : i \in DOMAIN base /\ base[i] = stack[i]
  BY <1>1, AnyPush DEF TypeOK
<1> HIDE DEF base
<1>4. /\ stack' # <<>> /\ Top'.kind \in {"synch", "thread"}
      /\ \A i \in DOMAIN stack : i \in DOMAIN stack' /\ stack'[i] = stack[i]
  <2>1. CASE stack' = base
    BY <1>3, <2>1 DEF Top, Synch
  <2>2. CASE stack' = Append(base, Thread(p, "INIT"))
    <3>1. /\ Len(Append(base, Thread(p, "INIT"))) = Len(base) + 1
          /\ Append(base, Thread(p, "INIT"))[Len(base) + 1] = Thread(p, "INIT")
          /\ \A i \in DOMAIN base : /\ i \in DOMAIN Append(base, Thread(p, "INIT"))
                                    /\ Append(base, Thread(p, "INIT"))[i] = base[i]
      BY <1>3, AnyPush
    <3>2. Top' = Thread(p, "INIT") /\ stack' # <<>>
      BY <1>3, <2>2, <3>1 DEF Top
    <3>3. Top'.kind = "thread"
      BY <3>2 DEF Thread
    <3>4. QED BY <1>3, <2>2, <3>1, <3>2, <3>3
  <2>3. QED BY <1>2, <2>1, <2>2 DEF base
<1>5. LoopsStay
  BY <1>4 DEF LoopsStay
<1>6. ReachStays
  BY <1>1, StartReach DEF ReachStays
<1>7. /\ owed' \subseteq {q \in owed : state'[q] # "NONE"}
      /\ due' \subseteq {q \in due : state'[q] # "NONE"}
  BY <1>4 DEF Settled, TopIs
<1>8. QED BY <1>1, <1>5, <1>6, <1>7, HistoryKept

----------------------------------------------------------------------------
(* HistoryInv: the loops themselves                                        *)

\* All that is listed is ahead of a loop that begins.
LEMMA Beginning ==
  ASSUME HistoryInv, UNCHANGED <<process_list, next>>
  PROVE  /\ \A p \in Proc : Listed(p) => <<FirstOf(process_list), p>> \in Reach'
         /\ \A p \in owed : p \in Proc /\ state[p] # "NONE" /\ needspoll[p] /\ Listed(p)
<1>1. Reach' = Reach /\ TypeOK /\ ListIsSet /\ RunningIsListed
  BY ReachOfSame DEF HistoryInv, IInv
<1>2. \A p \in Proc : Listed(p) => <<FirstOf(process_list), p>> \in Reach'
  BY <1>1, FirstReaches
<1>3. \A p \in owed : p \in Proc /\ state[p] # "NONE" /\ needspoll[p] /\ Listed(p)
  BY <1>1 DEF HistoryInv, PollInv, RunningIsListed
<1>4. QED BY <1>2, <1>3

LEMMA BroadcastBegins ==
  ASSUME HistoryInv, IInv', Settled, DoEvent, nevents # 0, events[fevent].p = BROADCAST
  PROVE  HistoryInv'
<1> DEFINE f == [kind |-> "bcast", at |-> "check", p |-> FirstOf(process_list),
                 ev |-> events[fevent].ev]
<1>1. /\ stack = <<>> /\ stack' = <<f>>
      /\ UNCHANGED <<process_list, next, state, needspoll, poll_requested>>
  BY DEF DoEvent, listVars, pollVars
<1>2. f.kind = "bcast" /\ f.at = "check" /\ f.p = FirstOf(process_list)
  OBVIOUS
<1> HIDE DEF f
<1>3. /\ \A p \in Proc : Listed(p) => <<FirstOf(process_list), p>> \in Reach'
      /\ \A p : Listed(p)' <=> Listed(p)
  BY <1>1, Beginning, ReachOfSame
<1>4. stack' # <<>> /\ stack'[1] = f /\ Top' = f
  BY <1>1 DEF Top
<1>5. due' = {p \in Proc : Listed(p)} /\ owed' \subseteq owed
  BY <1>1, <1>2, <1>4 DEF Settled, TopIs
<1>6. PollInv'
  <2>1. \A p \in owed : state[p] # "NONE" /\ needspoll[p] /\ poll_requested
    BY <1>1 DEF HistoryInv, PollInv
  <2>2. QED BY <1>1, <1>5, <2>1 DEF PollInv
<1>7. BroadcastInv'
  BY <1>2, <1>3, <1>4, <1>5 DEF BroadcastInv, Ahead
<1>8. QED BY <1>5, <1>6, <1>7 DEF HistoryInv

LEMMA PollBegins ==
  ASSUME HistoryInv, IInv', Settled, RunPoll, poll_requested
  PROVE  HistoryInv'
<1> DEFINE f == Poll(FirstOf(process_list))
<1>1. /\ stack = <<>> /\ stack' = Append(stack, f)
      /\ UNCHANGED <<process_list, next, state, needspoll>>
  BY DEF RunPoll, EnterPoll, listVars
<1>2. f.kind = "poll" /\ f.at = "visit" /\ f.p = FirstOf(process_list)
  BY DEF Poll
<1> HIDE DEF f
<1>3. 1 \in DOMAIN stack' /\ stack'[1] = f /\ Top' = f
  BY <1>1 DEF Top
<1>4. due' = {} /\ owed' \subseteq owed
  BY <1>1, <1>2, <1>3 DEF Settled, TopIs, HistoryInv, BroadcastInv
<1>5. PollInv'
  <2>1. ASSUME NEW p \in owed'
        PROVE  /\ state'[p] # "NONE" /\ needspoll'[p]
               /\ stack'[1].kind = "poll" /\ <<stack'[1].p, p>> \in Reach'
               /\ stack'[1].at # "called"
    BY <1>1, <1>2, <1>3, <1>4, Beginning
  <2>2. QED BY <1>3, <2>1 DEF PollInv, Ahead
<1>6. QED BY <1>4, <1>5 DEF HistoryInv, BroadcastInv

\* The loop of do_poll is the only one, and lies on main() or a broadcast.
LEMMA PollIsAlone ==
  ASSUME HistoryInv, TopIs("poll"), NEW n, n = Len(stack)
  PROVE  /\ TypeOK /\ stack # <<>> /\ n \in Nat \ {0} /\ DOMAIN stack = 1 .. n
         /\ Top = stack[n] /\ Top \in PollFrames
         /\ \A i \in 1 .. n : stack[i].kind = "poll" => i = n
         /\ stack[1].kind = "bcast" => n > 1
<1>1. TypeOK /\ stack # <<>> /\ Top.kind = "poll" /\ StackOk(stack)
  BY DEF HistoryInv, IInv, TopIs
<1>2. n \in Nat \ {0} /\ DOMAIN stack = 1 .. n /\ Top = stack[n] /\ Top \in PollFrames
  BY <1>1, PopFacts, TopFrame DEF Top
<1>3. \A i \in 1 .. n : i # n => stack[i].kind = "bcast"
  BY <1>1, <1>2 DEF StackOk
<1>4. QED BY <1>1, <1>2, <1>3

LEMMA PollMoves ==
  ASSUME HistoryInv, IInv', Settled, TopIs("poll"),
         UNCHANGED <<process_list, next, poll_requested>>,
         NEW f, f.kind = "poll",
         stack' = Moved(f) \/ \E g : stack' = Append(Moved(f), g),
         \A p \in owed' : needspoll[p] => needspoll'[p] /\ (Ahead(Top, p) => Ahead(f, p))
  PROVE  HistoryInv'
<1> DEFINE n == Len(stack)
           s == Moved(f)
<1>0. /\ TypeOK /\ stack # <<>> /\ n \in Nat \ {0} /\ DOMAIN stack = 1 .. n
      /\ Top = stack[n]
      /\ \A i \in 1 .. n : stack[i].kind = "poll" => i = n
      /\ stack[1].kind = "bcast" => n > 1
  BY PollIsAlone
<1>1. /\ \E S : s \in Seq(S)
      /\ DOMAIN s = 1 .. n /\ \A i \in 1 .. n - 1 : s[i] = stack[i]
      /\ s[n] = f
  BY <1>0, AnyMoved
<1> HIDE DEF s, n
<1>2. \A i \in 1 .. n : i \in DOMAIN stack' /\ stack'[i] = s[i]
  <2>1. PICK S : s \in Seq(S)
    BY <1>1
  <2>2. ASSUME NEW g, stack' = Append(s, g)
        PROVE  \A i \in 1 .. n : i \in DOMAIN stack' /\ stack'[i] = s[i]
    <3>1. \A i \in DOMAIN s : i \in DOMAIN Append(s, g) /\ Append(s, g)[i] = s[i]
      <4>1. ASSUME NEW T, NEW u \in Seq(T), NEW i \in DOMAIN u
            PROVE  i \in DOMAIN Append(u, g) /\ Append(u, g)[i] = u[i]
        BY AnyPush
      <4>2. QED BY <2>1, <4>1
    <3>2. QED BY <1>1, <2>2, <3>1
  <2>3. CASE stack' = s
    BY <1>1, <2>3
  <2>4. QED BY <2>2, <2>3 DEF s
<1>3. /\ \A i \in 1 .. n - 1 : i \in DOMAIN stack' /\ stack'[i] = stack[i]
      /\ n \in DOMAIN stack' /\ stack'[n] = f
  BY <1>0, <1>1, <1>2
<1>4. Reach' = Reach /\ \A p : Listed(p)' <=> Listed(p)
  BY ReachOfSame
<1>5. /\ owed' \subseteq {p \in owed : state'[p] # "NONE"}
      /\ due' \subseteq {p \in due : state'[p] # "NONE"}
  BY <1>0 DEF Settled
<1>6. PollInv'
  <2>1. ASSUME NEW p \in owed'
        PROVE  /\ state'[p] # "NONE" /\ needspoll'[p]
               /\ poll_requested \/ Ahead(f, p)
    <3>1. /\ p \in owed /\ needspoll[p] /\ state'[p] # "NONE"
          /\ \/ poll_requested
             \/ \E i \in DOMAIN stack : stack[i].kind = "poll" /\ Ahead(stack[i], p)
      BY <1>5, <2>1 DEF HistoryInv, PollInv
    <3>2. poll_requested \/ Ahead(Top, p)
      BY <1>0, <3>1
    <3>3. QED BY <2>1, <3>1, <3>2
  <2>2. ASSUME NEW p \in owed'
        PROVE  /\ state'[p] # "NONE" /\ needspoll'[p]
               /\ \/ poll_requested'
                  \/ /\ stack'[n].kind = "poll" /\ <<stack'[n].p, p>> \in Reach'
                     /\ stack'[n].at = "called" => p # stack'[n].p
    BY <1>3, <1>4, <2>1 DEF Ahead
  <2>3. QED BY <1>3, <2>2 DEF PollInv, Ahead
<1>7. BroadcastInv'
  <2>1. ASSUME NEW p \in due'
        PROVE  /\ Listed(p) /\ stack' # <<>> /\ stack'[1].kind = "bcast"
               /\ <<stack'[1].p, p>> \in Reach' /\ (stack'[1].at = "called" => p # stack'[1].p)
    <3>1. /\ Listed(p) /\ stack[1].kind = "bcast" /\ Ahead(stack[1], p)
      BY <1>5, <2>1 DEF HistoryInv, BroadcastInv
    <3>2. 1 \in DOMAIN stack' /\ stack'[1] = stack[1]
      BY <1>0, <1>3, <3>1
    <3>3. stack' # <<>>
      BY <3>2
    <3>4. QED BY <1>4, <3>1, <3>2, <3>3 DEF Ahead
  <2>2. QED BY <1>4, <2>1 DEF BroadcastInv, Ahead
<1>8. QED BY <1>5, <1>6, <1>7 DEF HistoryInv

LEMMA PollHistory ==
  ASSUME HistoryInv, IInv', Settled, PollSkip \/ PollCall \/ PollAdvance
  PROVE  HistoryInv'
<1>1. TopIs("poll") /\ TypeOK /\ UNCHANGED <<process_list, next, poll_requested>>
  BY DEF HistoryInv, IInv, PollSkip, PollCall, PollAdvance, TopAt, listVars, pollVars
<1>2. Top \in PollFrames
  BY <1>1, PollIsAlone
<1>3. CASE PollSkip
  <2> DEFINE f == [Top EXCEPT !.p = NextOf(Top.p)]
  <2>1. stack' = Moved(f) /\ needspoll' = needspoll /\ ~needspoll[Top.p] /\ Top.at = "visit"
    BY <1>3 DEF PollSkip, pollVars, TopAt
  <2>2. f.kind = "poll" /\ f.p = NextOf(Top.p) /\ f.at = "visit"
    BY <1>2, <2>1 DEF PollFrames
  <2> HIDE DEF f
  <2>3. ASSUME NEW p \in owed', needspoll[p], Ahead(Top, p) PROVE Ahead(f, p)
    <3>1. <<Top.p, p>> \in Reach /\ p # Top.p
      BY <2>1, <2>3 DEF Ahead
    <3>2. QED BY <1>1, <2>2, <3>1, ReachNext DEF Ahead
  <2>4. QED BY <1>1, <2>1, <2>2, <2>3, PollMoves
<1>4. CASE PollAdvance
  <2> DEFINE f == [Top EXCEPT !.at = "visit", !.p = NextOf(Top.p)]
  <2>1. stack' = Moved(f) /\ needspoll' = needspoll /\ Top.at = "called"
    BY <1>4 DEF PollAdvance, pollVars, TopAt
  <2>2. f.kind = "poll" /\ f.p = NextOf(Top.p) /\ f.at = "visit"
    BY <1>2, <2>1 DEF PollFrames
  <2> HIDE DEF f
  <2>3. ASSUME NEW p \in owed', Ahead(Top, p) PROVE Ahead(f, p)
    <3>1. <<Top.p, p>> \in Reach /\ p # Top.p
      BY <2>1, <2>3 DEF Ahead
    <3>2. QED BY <1>1, <2>2, <3>1, ReachNext DEF Ahead
  <2>4. QED BY <1>1, <2>1, <2>2, <2>3, PollMoves
<1>5. CASE PollCall
  <2>a. PICK t : t = Top.p
    OBVIOUS
  <2> DEFINE f == [Top EXCEPT !.at = "called"]
             st == [state EXCEPT ![t] = "RUNNING"]
             g == Thread(t, "POLL")
  <2>1. /\ t \in Proc /\ Top.at = "visit"
        /\ needspoll' = [needspoll EXCEPT ![t] = FALSE]
        /\ CallProcess(st, t, "POLL", Moved(f))
    BY <1>2, <1>5, <2>a DEF PollCall, TopAt, PollFrames, Pointer
  <2>2. f.kind = "poll" /\ f.p = t
    BY <1>2, <2>a DEF PollFrames
  <2>3. stack' = Append(Moved(f), g)
    <3>1. Callable(st, t)
      BY <1>1, <2>1 DEF Callable, TypeOK
    <3>2. QED BY <2>1, <3>1 DEF CallProcess
  <2>4. PolledNow(t)'
    <3> DEFINE s == Moved(f)
    <3> HIDE DEF f, g
    <3>1. PICK S : s \in Seq(S)
      BY <1>1, AnyMoved DEF TopIs
    <3> HIDE DEF s
    <3>3. Len(Append(s, g)) = Len(s) + 1 /\ Append(s, g)[Len(s) + 1] = g /\ Append(s, g) # <<>>
      <4>1. /\ Append(s, g) \in Seq(S \cup {g})
            /\ Len(Append(s, g)) = Len(s) + 1 /\ Append(s, g)[Len(s) + 1] = g
            /\ Len(s) \in Nat
        BY <3>1, AnyPush, Zenon
      <4>2. QED BY <4>1
    <3>4. Top' = g /\ stack' # <<>>
      BY <2>3, <3>3 DEF Top, s
    <3>5. g.kind = "thread" /\ g.p = t /\ g.ev = "POLL"
      BY DEF g, Thread
    <3>6. QED BY <3>4, <3>5 DEF PolledNow, TopIs
  <2> HIDE DEF f, g, st
  <2>5. ASSUME NEW p \in owed', needspoll[p]
        PROVE  needspoll'[p] /\ (Ahead(Top, p) => Ahead(f, p))
    <3>1. p # t /\ p \in owed /\ p \in Proc
      BY <2>4, <2>5 DEF Settled, HistoryInv
    <3>2. needspoll'[p]
      BY <1>1, <2>1, <2>5, <3>1 DEF TypeOK
    <3>3. QED BY <2>2, <2>a, <3>1, <3>2 DEF Ahead
  <2>6. QED BY <1>1, <2>2, <2>3, <2>5, PollMoves
<1>6. QED BY <1>3, <1>4, <1>5

LEMMA PollEndHistory ==
  ASSUME HistoryInv, IInv', Settled, PollEnd
  PROVE  HistoryInv'
<1> DEFINE n == Len(stack)
<1>0. /\ TypeOK /\ stack # <<>> /\ n \in Nat \ {0} /\ DOMAIN stack = 1 .. n
      /\ Top = stack[n] /\ Top.p = NULL
      /\ \A i \in 1 .. n : stack[i].kind = "poll" => i = n
      /\ stack[1].kind = "bcast" => n > 1
  BY PollIsAlone DEF PollEnd, TopAt
<1>1. /\ stack' = Pop /\ UNCHANGED <<process_list, next, state, needspoll, poll_requested>>
      /\ DOMAIN Pop = 1 .. n - 1 /\ \A i \in 1 .. n - 1 : Pop[i] = stack[i]
  BY <1>0, PopFacts DEF PollEnd, listVars, pollVars
<1> HIDE DEF n
<1>2. Reach' = Reach /\ \A p : Listed(p)' <=> Listed(p)
  BY <1>1, ReachOfSame
<1>3. owed' \subseteq owed /\ due' \subseteq due
  BY <1>0 DEF Settled
<1>4. PollInv'
  <2>1. ASSUME NEW p \in owed PROVE state[p] # "NONE" /\ needspoll[p] /\ poll_requested
    <3>1. ~Ahead(Top, p)
      BY <1>0, ReachType, NullAssumption DEF Ahead
    <3>2. QED BY <1>0, <3>1 DEF HistoryInv, PollInv
  <2>2. QED BY <1>1, <1>3, <2>1 DEF PollInv
<1>5. BroadcastInv'
  <2>1. ASSUME NEW p \in due'
        PROVE  /\ Listed(p) /\ stack' # <<>> /\ stack'[1].kind = "bcast"
               /\ <<stack'[1].p, p>> \in Reach' /\ (stack'[1].at = "called" => p # stack'[1].p)
    <3>1. /\ Listed(p) /\ stack[1].kind = "bcast" /\ Ahead(stack[1], p)
      BY <1>3, <2>1 DEF HistoryInv, BroadcastInv
    <3>2. 1 \in DOMAIN stack' /\ stack'[1] = stack[1]
      BY <1>0, <1>1, <3>1
    <3>3. stack' # <<>>
      BY <3>2
    <3>4. QED BY <1>2, <3>1, <3>2, <3>3 DEF Ahead
  <2>2. QED BY <1>2, <2>1 DEF BroadcastInv, Ahead
<1>6. QED BY <1>3, <1>4, <1>5 DEF HistoryInv

\* The broadcast loop lies alone on main() while it runs.
LEMMA BroadcastIsAlone ==
  ASSUME HistoryInv, TopIs("bcast")
  PROVE  /\ TypeOK /\ stack # <<>> /\ Len(stack) = 1 /\ DOMAIN stack = {1}
         /\ Top = stack[1] /\ Top \in BcastFrames
         /\ \A p \in owed : poll_requested
         /\ \A p \in Proc : state[p] # "CALLED"
<1>1. TypeOK /\ stack # <<>> /\ Top.kind = "bcast" /\ StackOk(stack) /\ ThreadsOk(stack, state)
  BY DEF HistoryInv, IInv, TopIs
<1>2. Len(stack) \in Nat \ {0} /\ DOMAIN stack = 1 .. Len(stack) /\ Top = stack[Len(stack)]
      /\ Top \in BcastFrames
  BY <1>1, PopFacts, TopFrame DEF Top
<1>3. Len(stack) = 1
  BY <1>1, <1>2 DEF StackOk
<1>4. DOMAIN stack = {1} /\ Top = stack[1]
  BY <1>2, <1>3
<1>5. \A p \in owed : poll_requested
  BY <1>1, <1>4 DEF HistoryInv, PollInv
<1>6. \A p \in Proc : state[p] # "CALLED"
  BY <1>1, <1>4 DEF ThreadsOk
<1>7. QED BY <1>1, <1>2, <1>3, <1>4, <1>5, <1>6

LEMMA BroadcastMoves ==
  ASSUME HistoryInv, IInv', Settled, TopIs("bcast"), UNCHANGED <<process_list, next, needspoll>>,
         PollInv' \/ UNCHANGED poll_requested,
         NEW f, f.kind = "bcast", stack' # <<>>, stack'[1] = f,
         \A p \in due' : Ahead(Top, p) => Ahead(f, p)
  PROVE  HistoryInv'
<1>0. /\ stack # <<>> /\ Top = stack[1] /\ \A p \in owed : poll_requested
  BY BroadcastIsAlone
<1>1. Reach' = Reach /\ \A p : Listed(p)' <=> Listed(p)
  BY ReachOfSame
<1>2. /\ owed' \subseteq {p \in owed : state'[p] # "NONE"}
      /\ due' \subseteq {p \in due : state'[p] # "NONE"}
  BY <1>0 DEF Settled
<1>3. PollInv'
  <2>1. CASE UNCHANGED poll_requested
    <3>1. ASSUME NEW p \in owed'
          PROVE  state'[p] # "NONE" /\ needspoll'[p] /\ poll_requested'
      BY <1>0, <1>2, <2>1, <3>1 DEF HistoryInv, PollInv
    <3>2. QED BY <3>1 DEF PollInv
  <2>2. QED BY <2>1
<1>4. BroadcastInv'
  <2>1. ASSUME NEW p \in due' PROVE Listed(p) /\ Ahead(f, p)
    BY <1>0, <1>2, <2>1 DEF HistoryInv, BroadcastInv
  <2>2. ASSUME NEW p \in due'
        PROVE  /\ Listed(p) /\ stack' # <<>> /\ stack'[1].kind = "bcast"
               /\ <<stack'[1].p, p>> \in Reach' /\ (stack'[1].at = "called" => p # stack'[1].p)
    BY <1>1, <2>1 DEF Ahead
  <2>3. QED BY <1>1, <2>2 DEF BroadcastInv, Ahead
<1>5. QED BY <1>2, <1>3, <1>4 DEF HistoryInv

LEMMA BroadcastHistory ==
  ASSUME HistoryInv, IInv', Settled, BcastCheck \/ BcastCall \/ BcastAdvance
  PROVE  HistoryInv'
<1>0. TopIs("bcast") /\ UNCHANGED <<process_list, next, needspoll>>
  BY DEF BcastCheck, BcastCall, BcastAdvance, TopAt, listVars, pollVars
<1>1. /\ TypeOK /\ stack # <<>> /\ Len(stack) = 1 /\ DOMAIN stack = {1}
      /\ Top = stack[1] /\ Top \in BcastFrames
      /\ \A p \in owed : poll_requested
      /\ \A p \in Proc : state[p] # "CALLED"
  BY <1>0, BroadcastIsAlone
<1>2. ASSUME NEW f
      PROVE  /\ Moved(f) # <<>> /\ Moved(f)[1] = f
             /\ \A g : /\ Append(Moved(f), g) # <<>> /\ Len(Append(Moved(f), g)) = 2
                       /\ DOMAIN Append(Moved(f), g) = 1 .. 2
                       /\ Append(Moved(f), g)[1] = f /\ Append(Moved(f), g)[2] = g
  <2> DEFINE s == Moved(f)
  <2>1. (\E S : s \in Seq(S)) /\ Len(s) = 1 /\ s[1] = f /\ DOMAIN s = 1 .. 1
    BY <1>1, AnyMoved
  <2> HIDE DEF s
  <2>2. PICK S : s \in Seq(S)
    BY <2>1
  <2>3. ASSUME NEW g
        PROVE  /\ Append(s, g) # <<>> /\ Len(Append(s, g)) = 2
               /\ DOMAIN Append(s, g) = 1 .. 2
               /\ Append(s, g)[1] = f /\ Append(s, g)[2] = g
    <3>1. /\ Append(s, g) \in Seq(S \cup {g})
          /\ Len(Append(s, g)) = Len(s) + 1 /\ Append(s, g)[Len(s) + 1] = g
      BY <2>2, AnyPush
    <3>2. Append(s, g)[1] = s[1]
      <4>1. ASSUME NEW T, NEW u \in Seq(T), NEW i \in DOMAIN u
            PROVE  i \in DOMAIN Append(u, g) /\ Append(u, g)[i] = u[i]
        BY AnyPush
      <4>2. 1 \in DOMAIN s
        BY <2>1
      <4>3. QED BY <2>2, <4>1, <4>2
    <3>3. Len(Append(s, g)) = 2
      BY <2>1, <3>1
    <3>4. QED BY <2>1, <3>1, <3>2, <3>3
  <2>4. QED BY <2>1, <2>3 DEF s
<1>3. CASE BcastAdvance
  <2> DEFINE f == [Top EXCEPT !.at = "check", !.p = NextOf(Top.p)]
  <2>1. /\ stack' = Moved(f) /\ Top.at = "called" /\ UNCHANGED poll_requested
    BY <1>3 DEF BcastAdvance, TopAt, pollVars
  <2>2. f.kind = "bcast" /\ f.p = NextOf(Top.p) /\ f.at = "check"
    BY <1>1 DEF BcastFrames
  <2> HIDE DEF f
  <2>3. ASSUME NEW p, Ahead(Top, p) PROVE Ahead(f, p)
    BY <1>1, <2>1, <2>2, <2>3, ReachNext DEF Ahead
  <2>4. stack' # <<>> /\ stack'[1] = f
    BY <1>2, <2>1
  <2>5. QED BY <1>0, <2>1, <2>2, <2>3, <2>4, BroadcastMoves
<1>4. CASE BcastCall
  <2>a. PICK t : t = Top.p
    OBVIOUS
  <2> DEFINE f == [Top EXCEPT !.at = "called"]
             g == Thread(t, Top.ev)
  <2>1. /\ CallProcess(state, t, Top.ev, Moved(f)) /\ t \in Proc
        /\ UNCHANGED poll_requested
    BY <1>1, <1>4, <2>a DEF BcastCall, TopAt, pollVars, BcastFrames
  <2>2. f.kind = "bcast" /\ f.p = t /\ f.at = "called"
    BY <1>1, <2>a DEF BcastFrames
  <2>3. g.kind = "thread" /\ g.p = t
    BY DEF Thread
  <2> HIDE DEF f, g
  <2>4. stack' = Moved(f) \/ stack' = Append(Moved(f), g)
    BY <2>1, CallShape DEF g
  <2>5. stack' # <<>> /\ stack'[1] = f
    BY <1>2, <2>4
  <2>6. t \notin due'
    <3>1. CASE state[t] = "RUNNING"
      <4>1. stack' = Append(Moved(f), g)
        BY <2>1, <3>1 DEF CallProcess, Callable, g
      <4>2. Reached(t)'
        BY <1>2, <2>2, <2>3, <4>1 DEF Reached
      <4>3. QED BY <1>1, <4>2 DEF Settled
    <3>2. CASE state[t] # "RUNNING"
      <4>1. state[t] = "NONE" /\ state' = state
        BY <1>1, <2>1, <3>2 DEF TypeOK, CallProcess, Callable
      <4>2. QED BY <1>1, <4>1 DEF Settled
    <3>3. QED BY <3>1, <3>2
  <2>7. ASSUME NEW p \in due', Ahead(Top, p) PROVE Ahead(f, p)
    BY <2>2, <2>6, <2>7, <2>a DEF Ahead
  <2>8. QED BY <1>0, <2>1, <2>2, <2>5, <2>7, BroadcastMoves
<1>5. CASE BcastCheck /\ Top.p = NULL
  <2>1. stack' = Pop /\ UNCHANGED poll_requested
    BY <1>5 DEF BcastCheck
  <2>2. due = {}
    BY <1>1, <1>5, ReachType, NullAssumption DEF HistoryInv, BroadcastInv, Ahead
  <2>3. due' = {} /\ owed' \subseteq {p \in owed : state'[p] # "NONE"}
    BY <1>1, <2>2 DEF Settled
  <2>4. ASSUME NEW p \in owed'
        PROVE  state'[p] # "NONE" /\ needspoll'[p] /\ poll_requested'
    BY <1>0, <1>1, <2>1, <2>3, <2>4 DEF HistoryInv, PollInv
  <2>5. QED BY <2>3, <2>4 DEF HistoryInv, PollInv, BroadcastInv
<1>6. CASE BcastCheck /\ Top.p # NULL
  <2> DEFINE f == [Top EXCEPT !.at = "call"]
             g == Poll(FirstOf(process_list))
  <2>1. /\ \/ stack' = Moved(f) /\ UNCHANGED poll_requested
           \/ stack' = Append(Moved(f), g)
        /\ UNCHANGED state
    BY <1>6 DEF BcastCheck, EnterPoll
  <2>2. f.kind = "bcast" /\ f.p = Top.p /\ f.at = "call"
    BY <1>1 DEF BcastFrames
  <2>3. g.kind = "poll" /\ g.p = FirstOf(process_list) /\ g.at = "visit"
    BY DEF Poll
  <2> HIDE DEF f, g
  <2>4. ASSUME NEW p, Ahead(Top, p) PROVE Ahead(f, p)
    BY <2>2, <2>4 DEF Ahead
  <2>5. stack' # <<>> /\ stack'[1] = f
    BY <1>2, <2>1
  <2>6. CASE stack' = Append(Moved(f), g)
    <3>1. 2 \in DOMAIN stack' /\ stack'[2] = g
      BY <1>2, <2>6
    <3>2. ASSUME NEW p \in owed'
          PROVE  /\ state'[p] # "NONE" /\ needspoll'[p]
                 /\ stack'[2].kind = "poll" /\ <<stack'[2].p, p>> \in Reach'
                 /\ stack'[2].at # "called"
      <4>1. p \in owed
        BY <3>2 DEF Settled
      <4>2. QED BY <1>0, <2>1, <2>3, <3>1, <4>1, Beginning
    <3>3. PollInv'
      BY <3>1, <3>2 DEF PollInv, Ahead
    <3>4. QED BY <1>0, <2>2, <2>4, <2>5, <3>3, BroadcastMoves
  <2>7. CASE UNCHANGED poll_requested
    BY <1>0, <2>2, <2>4, <2>5, <2>7, BroadcastMoves
  <2>8. QED BY <2>1, <2>6, <2>7
<1>7. QED BY <1>3, <1>4, <1>5, <1>6

LEMMA PollRequestHistory ==
  ASSUME HistoryInv, IInv', NEW p \in Proc, ProcessPoll(p), due' = due,
         owed' = IF state[p] # "NONE" THEN owed \cup {p} ELSE owed
  PROVE  HistoryInv'
<1>1. /\ TypeOK /\ UNCHANGED <<process_list, next, state, stack>>
      /\ state[p] # "NONE" => /\ needspoll' = [needspoll EXCEPT ![p] = TRUE]
                              /\ poll_requested' = TRUE
      /\ state[p] = "NONE" => UNCHANGED <<needspoll, poll_requested>>
  BY DEF HistoryInv, IInv, TypeOK, ProcessPoll, listVars, pollVars
<1>2. Reach' = Reach /\ \A q : Listed(q)' <=> Listed(q)
  BY <1>1, ReachOfSame
<1>3. PollInv'
  <2>1. CASE state[p] # "NONE"
    <3>1. ASSUME NEW q \in owed'
          PROVE  state'[q] # "NONE" /\ needspoll'[q] /\ poll_requested'
      BY <1>1, <2>1, <3>1 DEF HistoryInv, PollInv, TypeOK
    <3>2. QED BY <3>1 DEF PollInv
  <2>2. CASE state[p] = "NONE"
    BY <1>1, <1>2, <2>2 DEF HistoryInv, PollInv, Ahead
  <2>3. QED BY <2>1, <2>2
<1>4. BroadcastInv'
  BY <1>1, <1>2 DEF HistoryInv, BroadcastInv, Ahead
<1>5. QED BY <1>3, <1>4 DEF HistoryInv

----------------------------------------------------------------------------

LEMMA StepHistory ==
  ASSUME HistoryInv, IInv', SelfExit = FALSE, Step, Settled
  PROVE  HistoryInv'
<1>1. CASE Kernel
  <2>1. CASE RunPoll
    BY <2>1, PollBegins, QuietKernel
  <2>2. CASE DoEvent
    BY <2>2, BroadcastBegins, QuietKernel
  <2>3. QED
    BY <1>1, <2>1, <2>2, PollHistory, PollEndHistory, BroadcastHistory, UnlinkHistory,
       QuietKernel DEF Kernel
<1>2. CASE Return
  BY <1>2, QuietReturn
<1>3. ASSUME NEW p \in Proc, ProcessStart(p) PROVE HistoryInv'
  BY <1>3, StartHistory, QuietService
<1>4. CASE Service
  BY <1>3, <1>4, QuietService, EnvironmentAssumption DEF Service
<1>5. CASE \E p \in Proc : Boot(p)
  BY <1>3, <1>5 DEF Boot
<1>6. QED BY <1>1, <1>2, <1>4, <1>5 DEF Step

LEMMA HistoryInductive ==
  ASSUME SelfExit = FALSE
  PROVE  HistoryInv /\ [HNext]_hvars => HistoryInv'
<1> SUFFICES ASSUME HistoryInv, [HNext]_hvars PROVE HistoryInv'
  OBVIOUS
<1>1. IInv'
  <2>1. [Next]_vars
    BY DEF HNext, Step, Next, hvars
  <2>2. QED BY <2>1, IInvInductive DEF HistoryInv
<1>2. CASE Step /\ Settled
  BY <1>1, <1>2, StepHistory
<1>3. ASSUME NEW p \in Proc, PollRequest(p), due' = due,
             owed' = IF state[p] # "NONE" THEN owed \cup {p} ELSE owed
      PROVE  HistoryInv'
  BY <1>1, <1>3, PollRequestHistory DEF PollRequest
<1>4. CASE UNCHANGED hvars
  <2>1. UNCHANGED <<process_list, next, state, stack, needspoll, poll_requested, owed, due>>
    BY <1>4 DEF hvars, vars, listVars, pollVars
  <2>2. Reach' = Reach /\ \A q : Listed(q)' <=> Listed(q)
    BY <2>1, ReachOfSame
  <2>3. PollInv' /\ BroadcastInv'
    BY <2>1, <2>2 DEF HistoryInv, PollInv, BroadcastInv, Ahead
  <2>4. QED BY <1>1, <2>1, <2>3 DEF HistoryInv
<1>5. QED BY <1>2, <1>3, <1>4 DEF HNext, Settled

\* What lies ahead of the running do_poll is what it will visit.
LEMMA AheadIsVisited ==
  ASSUME HistoryInv, NEW p, NEW i \in DOMAIN stack, stack[i].kind = "poll", Ahead(stack[i], p)
  PROVE  WillVisit(p)
<1> DEFINE n == Len(stack)
           f == stack[i]
           first == IF f.at = "visit" THEN f.p ELSE NextOf(f.p)
<1>1. /\ TypeOK /\ ListIsSet /\ stack \in Seq(Frames) /\ n \in Nat /\ DOMAIN stack = 1 .. n
      /\ i \in 1 .. n /\ f \in PollFrames /\ f.p \in Proc /\ <<f.p, p>> \in Reach
      /\ f.at = "called" => p # f.p
  <2>1. stack \in Seq(Frames) /\ TypeOK /\ ListIsSet
    BY DEF HistoryInv, IInv, TypeOK
  <2>2. f \in Frames /\ f.kind = "poll"
    BY <2>1
  <2>3. f \in PollFrames
    BY <2>2 DEF Frames, ThreadFrames, ByeFrames, SynchFrames, PollFrames, BcastFrames, ExitFrames
  <2>4. QED BY <2>1, <2>3, ReachType DEF Ahead
<1>2. first # NULL /\ <<first, p>> \in Reach
  <2>1. CASE f.at = "visit"
    BY <1>1, <2>1, NullAssumption
  <2>2. CASE f.at = "called"
    BY <1>1, <2>2, ReachNext
  <2>3. QED BY <1>1, <2>1, <2>2 DEF PollFrames
<1>3. Listed(first)
  <2>1. CASE i = n
    <3>1. TopIs("poll") /\ Top = f
      BY <1>1, <2>1 DEF TopIs, Top
    <3>2. QED BY <1>2, <3>1 DEF HistoryInv, IInv, PollStaysOnList
  <2>2. CASE i < n
    <3>1. /\ f.at = "called" /\ i + 1 \in DOMAIN stack
          /\ stack[i + 1].kind \in {"thread", "exit"} /\ stack[i + 1].p = f.p
      BY <1>1, <2>2 DEF HistoryInv, IInv, StackOk
    <3>2. Listed(f.p)
      <4>1. CASE stack[i + 1].kind = "exit"
        BY <3>1, <4>1 DEF HistoryInv, IInv, ExitingIsListed
      <4>2. CASE stack[i + 1].kind = "thread"
        <5>1. state[f.p] = "CALLED"
          BY <3>1, <4>2 DEF HistoryInv, IInv, ThreadsOk
        <5>2. QED BY <1>1, <5>1 DEF HistoryInv, IInv, RunningIsListed
      <4>3. QED BY <3>1, <4>1, <4>2
    <3>3. QED BY <1>1, <1>2, <3>1, <3>2, NextIsListed
  <2>3. QED BY <1>1, <2>1, <2>2
<1>4. IndexOf(first) <= IndexOf(p)
  BY <1>1, <1>2, <1>3, ReachIsLater
<1>5. QED BY <1>2, <1>4 DEF WillVisit

(* The inductive invariant of the kernel and its history.                  *)
THEOREM HistoryInvariant == ASSUME SelfExit = FALSE PROVE HSpec => []HistoryInv
<1>1. HInit => HistoryInv
  BY InitIInv DEF HInit, HistoryInv, PollInv, BroadcastInv
<1>2. HistoryInv /\ [HNext]_hvars => HistoryInv'
  BY HistoryInductive
<1>3. QED BY <1>1, <1>2, PTL DEF HSpec

(* No requested poll is lost, in whatever order interrupts request them,   *)
(* processes exit and start, and do_poll and broadcasts walk the list.     *)
THEOREM PollsAreKept == ASSUME SelfExit = FALSE PROVE HSpec => []NoLostPoll
<1>1. HistoryInv => NoLostPoll
  BY AheadIsVisited DEF HistoryInv, PollInv, NoLostPoll
<1>2. QED BY <1>1, HistoryInvariant, PTL

(* A broadcast passes over nobody who is on the list when it begins and    *)
(* stays, although processes exit and start under its loop.                *)
THEOREM BroadcastsReachAll == ASSUME SelfExit = FALSE PROVE HSpec => []BroadcastReachesAll
<1>1. HistoryInv => BroadcastReachesAll
  <2>1. ASSUME HistoryInv, TopAt("bcast", "check"), Top.p = NULL, NEW p \in due PROVE FALSE
    <3>1. Top = stack[1]
      BY <2>1, BroadcastIsAlone DEF TopAt
    <3>2. <<Top.p, p>> \in Reach
      BY <2>1, <3>1 DEF HistoryInv, BroadcastInv, Ahead
    <3>3. QED BY <2>1, <3>2, ReachType, NullAssumption
  <2>2. QED BY <2>1 DEF BroadcastReachesAll
<1>2. QED BY <1>1, HistoryInvariant, PTL

=============================================================================
