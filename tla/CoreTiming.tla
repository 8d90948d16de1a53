------------------------------- MODULE CoreTiming -------------------------------
(* CoreTiming in multicore mode: the HostTiming thread, which calls the events    *)
(* back when their time has come and sleeps in between; the threads that schedule *)
(* and unschedule events; and the one that pauses and stops the whole.  The timer *)
(* thread holds advance_lock over a call of Advance, and basic_lock except during *)
(* callbacks; flags outside the locks are read and written in steps of their own. *)
EXTENDS Integers, Sequences, FiniteSets

CONSTANTS Clients, Types, NoType,
          Period,    \* of the looping types; 0 for a type that is scheduled once
          MaxTime,   \* bound of the clock
          Soonest    \* how far ahead of the clock events are scheduled at least

ASSUME CoreTimingAssumption ==
    NoType \notin Types /\ Period \in [Types -> Nat] /\ MaxTime \in Nat /\ Soonest \in Nat

VARIABLES
    now,
    queue,            \* event_queue: [type, time] in the order of fifo_order
    running,          \* the type whose callback runs, and the time it was for
    sequenceChanged,  \* its sequence_number is no longer evt_sequence_num
    timer,            \* where the HostTiming thread is
    deadline,         \* the time it sleeps until; -1: until it is woken
    event, pauseEvent,         \* is_set of the two Common::Events
    paused, pausedSet, stop,   \* stop: stop_requested()
    pauseEnd,         \* pause_end_time
    client,           \* what each client has left to do
    control,          \* what the thread that pauses and stops has left to do
    unscheduled,      \* the types unscheduled, and not scheduled since ...
    finished          \* ... and for which a waiting UnscheduleEvent has returned

timerVars   == <<running, sequenceChanged, timer, deadline>>
pauseVars   == <<paused, pausedSet, stop, pauseEnd>>
historyVars == <<unscheduled, finished>>
vars == <<now, queue, timerVars, event, pauseEvent, pauseVars, client, control, historyVars>>

Idle == [op |-> "idle", type |-> NoType]
Nobody == [type |-> NoType, time |-> 0]

TypeOK ==
    /\ now \in 0..MaxTime
    /\ \A i \in DOMAIN queue : queue[i].type \in Types /\ queue[i].time \in Nat
    /\ running.type \in Types \cup {NoType} /\ running.time \in Nat
    /\ sequenceChanged \in BOOLEAN
    /\ timer \in {"check", "run", "enter", "loop", "callback", "sleep", "park", "parked", "wait", "done"}
    /\ deadline \in Nat \cup {-1}
    /\ {event, pauseEvent, paused, pausedSet, stop} \subseteq BOOLEAN
    /\ pauseEnd \in 0..MaxTime
    /\ client \in [Clients -> [op : {"idle", "set", "wait"}, type : Types \cup {NoType}]]
    /\ control \in {"idle", "pausing", "signal pause", "spin pause", "resuming", "signal resume",
                    "spin resume", "stopping", "signal stop", "join", "stopped"}
    /\ unscheduled \subseteq Types /\ finished \subseteq unscheduled

\* Initialize, with the thread created: Reset has set `paused`.
Init ==
    /\ now = 0
    /\ queue = <<>>
    /\ running = Nobody /\ sequenceChanged = FALSE
    /\ timer = "check" /\ deadline = -1
    /\ event = FALSE /\ pauseEvent = FALSE
    /\ paused = TRUE /\ pausedSet = FALSE /\ stop = FALSE
    /\ pauseEnd = 0
    /\ client = [c \in Clients |-> Idle]
    /\ control = "idle"
    /\ unscheduled = Types /\ finished = {}

\* Started: the same once the thread has parked for the first time.
InitParked ==
    /\ now = 0
    /\ queue = <<>>
    /\ running = Nobody /\ sequenceChanged = FALSE
    /\ timer = "wait" /\ deadline = -1
    /\ event = FALSE /\ pauseEvent = FALSE
    /\ paused = TRUE /\ pausedSet = TRUE /\ stop = FALSE
    /\ pauseEnd = 0
    /\ client = [c \in Clients |-> Idle]
    /\ control = "idle"
    /\ unscheduled = Types /\ finished = {}

BasicLockIsFree   == timer # "loop"
AdvanceLockIsFree == timer \notin {"loop", "callback"}

-----------------------------------------------------------------------------
(* The HostTiming thread.                                                    *)

\* The test of the inner loop, and the store that follows it.
Check ==
    /\ timer = "check"
    /\ timer' = IF ~paused /\ ~stop THEN "run" ELSE "park"
    /\ UNCHANGED <<now, queue, running, sequenceChanged, deadline, event, pauseEvent, pauseVars,
                   client, control, historyVars>>
Run ==
    /\ timer = "run"
    /\ pausedSet' = FALSE
    /\ timer' = "enter"
    /\ UNCHANGED <<now, queue, running, sequenceChanged, deadline, event, pauseEvent, paused, stop,
                   pauseEnd, client, control, historyVars>>

AdvanceEnter ==
    /\ timer = "enter"
    /\ timer' = "loop"
    /\ UNCHANGED <<now, queue, running, sequenceChanged, deadline, event, pauseEvent, pauseVars,
                   client, control, historyVars>>

\* The earliest event, the one scheduled first among equals.
Top == queue[CHOOSE i \in DOMAIN queue : \A j \in DOMAIN queue :
                queue[i].time < queue[j].time \/ (queue[i].time = queue[j].time /\ i <= j)]

Without(type) == SelectSeq(queue, LAMBDA e : e.type # type)
Scheduled(type) == \E i \in DOMAIN queue : queue[i].type = type

\* A due event: popped, unless it loops, and called without basic_lock.
AdvanceCall ==
    /\ timer = "loop"
    /\ queue # <<>> /\ Top.time <= now
    /\ queue' = IF Period[Top.type] = 0 THEN Without(Top.type) ELSE queue
    /\ running' = Top
    /\ sequenceChanged' = FALSE
    /\ timer' = "callback"
    /\ UNCHANGED <<now, deadline, event, pauseEvent, pauseVars, client, control, historyVars>>

\* A looping event goes on from its own time or from the end of a pause, unless
\* it was changed during the callback.
\* Mutant: the sequence number is not compared.
RescheduledAlways ==
    IF Period[running.type] = 0 THEN queue
    ELSE LET start == IF running.time < pauseEnd THEN pauseEnd ELSE running.time
         IN  Append(Without(running.type), [running EXCEPT !.time = start + Period[running.type]])
Rescheduled ==
    IF Period[running.type] = 0 \/ sequenceChanged THEN queue
    ELSE LET start == IF running.time < pauseEnd THEN pauseEnd ELSE running.time
         IN  Append(Without(running.type), [running EXCEPT !.time = start + Period[running.type]])

CallbackReturn ==
    /\ timer = "callback"
    /\ queue' = Rescheduled
    /\ running' = Nobody
    /\ sequenceChanged' = FALSE
    /\ timer' = "loop"
    /\ UNCHANGED <<now, deadline, event, pauseEvent, pauseVars, client, control, historyVars>>

AdvanceReturn ==
    /\ timer = "loop"
    /\ queue # <<>> => Top.time > now
    /\ deadline' = IF queue = <<>> THEN -1 ELSE Top.time
    /\ timer' = "sleep"
    /\ UNCHANGED <<now, queue, running, sequenceChanged, event, pauseEvent, pauseVars, client,
                   control, historyVars>>

\* event.Wait and event.WaitFor; an event that is not set at the timeout stays unset.
Wake ==
    /\ timer = "sleep"
    /\ event \/ (deadline # -1 /\ deadline <= now)
    /\ event' = FALSE
    /\ deadline' = -1
    /\ timer' = "check"
    /\ UNCHANGED <<now, queue, running, sequenceChanged, pauseEvent, pauseVars, client, control,
                   historyVars>>

\* The wait is left out when its time has passed before it begins; a set event stays set.
SkipWait ==
    /\ timer = "sleep"
    /\ deadline # -1 /\ deadline <= now
    /\ deadline' = -1
    /\ timer' = "check"
    /\ UNCHANGED <<now, queue, running, sequenceChanged, event, pauseEvent, pauseVars, client,
                   control, historyVars>>

Park ==
    /\ timer = "park"
    /\ pausedSet' = TRUE
    /\ timer' = "parked"
    /\ UNCHANGED <<now, queue, running, sequenceChanged, deadline, event, pauseEvent, paused, stop,
                   pauseEnd, client, control, historyVars>>
Parked ==
    /\ timer = "parked"
    /\ timer' = IF stop THEN "done" ELSE "wait"
    /\ UNCHANGED <<now, queue, running, sequenceChanged, deadline, event, pauseEvent, pauseVars,
                   client, control, historyVars>>
PauseWake ==
    /\ timer = "wait"
    /\ pauseEvent
    /\ pauseEvent' = FALSE
    /\ timer' = IF stop THEN "done" ELSE "check"
    /\ UNCHANGED <<now, queue, running, sequenceChanged, deadline, event, pauseVars, client,
                   control, historyVars>>

HostTiming ==
    \/ Check \/ Run \/ AdvanceEnter \/ AdvanceCall \/ CallbackReturn
    \/ AdvanceReturn \/ Wake \/ SkipWait \/ Park \/ Parked \/ PauseWake

-----------------------------------------------------------------------------
(* Scheduling.  A type is in the queue at most once.                         *)

\* ScheduleEvent and ScheduleLoopingEvent: the insertion, and event.Set after it.
ScheduleEvent(c, type, time) ==
    /\ client[c].op = "idle" /\ BasicLockIsFree
    /\ ~Scheduled(type) /\ time >= now + Soonest
    /\ queue' = Append(queue, [type |-> type, time |-> time])
    /\ client' = [client EXCEPT ![c].op = "set"]
    /\ unscheduled' = unscheduled \ {type} /\ finished' = finished \ {type}
    /\ UNCHANGED <<now, timerVars, event, pauseEvent, pauseVars, control>>
\* Mutant: the thread is not woken.
SetNoEvent(c) ==
    /\ client[c].op = "set"
    /\ client' = [client EXCEPT ![c] = Idle]
    /\ UNCHANGED <<now, queue, timerVars, event, pauseEvent, pauseVars, control, historyVars>>
SetEvent(c) ==
    /\ client[c].op = "set"
    /\ event' = TRUE
    /\ client' = [client EXCEPT ![c] = Idle]
    /\ UNCHANGED <<now, queue, timerVars, pauseEvent, pauseVars, control, historyVars>>

UnscheduleEvent(c, type, wait) ==
    /\ client[c].op = "idle" /\ BasicLockIsFree
    /\ queue' = Without(type)
    /\ sequenceChanged' = (sequenceChanged \/ running.type = type)
    /\ client' = IF wait THEN [client EXCEPT ![c] = [op |-> "wait", type |-> type]] ELSE client
    /\ unscheduled' = unscheduled \cup {type}
    /\ UNCHANGED <<now, running, timer, deadline, event, pauseEvent, pauseVars, control, finished>>

UnscheduleReturn(c) ==
    /\ client[c].op = "wait"
    /\ AdvanceLockIsFree
    /\ client' = [client EXCEPT ![c] = Idle]
    /\ finished' = finished \cup ({client[c].type} \cap unscheduled)
    /\ UNCHANGED <<now, queue, timerVars, event, pauseEvent, pauseVars, control, unscheduled>>

-----------------------------------------------------------------------------
(* Pausing and stopping.                                                     *)

\* SyncPause(true) and SyncPause(false): the store of `paused`, the events, the spin.
SyncPause ==
    /\ control = "idle"
    /\ ~(paused /\ pausedSet)
    /\ paused' = TRUE
    /\ control' = "signal pause"
    /\ UNCHANGED <<now, queue, timerVars, event, pauseEvent, pausedSet, stop, pauseEnd, client,
                   historyVars>>
\* Mutant: the sleeping thread is not woken.
SyncPauseSignalPauseEvent ==
    /\ control = "signal pause"
    /\ pauseEvent' = TRUE
    /\ control' = "spin pause"
    /\ UNCHANGED <<now, queue, timerVars, event, pauseVars, client, historyVars>>
SyncPauseSignal ==
    /\ control = "signal pause"
    /\ event' = TRUE /\ pauseEvent' = TRUE
    /\ control' = "spin pause"
    /\ UNCHANGED <<now, queue, timerVars, pauseVars, client, historyVars>>
SyncPauseReturn ==
    /\ control = "spin pause"
    /\ pausedSet
    /\ control' = "pausing"
    /\ UNCHANGED <<now, queue, timerVars, event, pauseEvent, pauseVars, client, historyVars>>

SyncResume ==
    /\ control \in {"idle", "pausing"}
    /\ paused \/ pausedSet
    /\ paused' = FALSE
    /\ control' = "signal resume"
    /\ UNCHANGED <<now, queue, timerVars, event, pauseEvent, pausedSet, stop, pauseEnd, client,
                   historyVars>>
SyncResumeSignal ==
    /\ control = "signal resume"
    /\ event' = TRUE /\ pauseEvent' = TRUE
    /\ pauseEnd' = now
    /\ control' = "spin resume"
    /\ UNCHANGED <<now, queue, timerVars, paused, pausedSet, stop, client, historyVars>>
SyncResumeReturn ==
    /\ control = "spin resume"
    /\ ~pausedSet
    /\ pauseEnd' = now
    /\ control' = "idle"
    /\ UNCHANGED <<now, queue, timerVars, event, pauseEvent, paused, pausedSet, stop, client,
                   historyVars>>

\* Reset, and ClearPendingEvents before it on shutdown.
ClearPendingEvents ==
    /\ control \in {"idle", "pausing"}
    /\ AdvanceLockIsFree
    /\ queue' = <<>> /\ event' = TRUE
    /\ UNCHANGED <<now, timerVars, pauseEvent, pauseVars, client, control, historyVars>>

Reset ==
    /\ control \in {"idle", "pausing"}
    /\ paused' = TRUE
    /\ control' = "stopping"
    /\ UNCHANGED <<now, queue, timerVars, event, pauseEvent, pausedSet, stop, pauseEnd, client,
                   historyVars>>
ResetStop ==
    /\ control = "stopping"
    /\ stop' = TRUE
    /\ control' = "signal stop"
    /\ UNCHANGED <<now, queue, timerVars, event, pauseEvent, paused, pausedSet, pauseEnd, client,
                   historyVars>>
ResetSignal ==
    /\ control = "signal stop"
    /\ event' = TRUE /\ pauseEvent' = TRUE
    /\ control' = "join"
    /\ UNCHANGED <<now, queue, timerVars, pauseVars, client, historyVars>>
ResetReturn ==
    /\ control = "join"
    /\ timer = "done"
    /\ control' = "stopped"
    /\ UNCHANGED <<now, queue, timerVars, event, pauseEvent, pauseVars, client, historyVars>>

Tick ==
    /\ now < MaxTime
    /\ now' = now + 1
    /\ UNCHANGED <<queue, timerVars, event, pauseEvent, pauseVars, client, control, historyVars>>

Finish(c) == SetEvent(c) \/ UnscheduleReturn(c)
Control   == \/ SyncPauseSignal \/ SyncPauseReturn \/ SyncResumeSignal \/ SyncResumeReturn
             \/ ResetStop \/ ResetSignal \/ ResetReturn

Next ==
    \/ HostTiming
    \/ \E c \in Clients :
           \/ \E type \in Types, time \in 0..MaxTime : ScheduleEvent(c, type, time)
           \/ \E type \in Types, wait \in BOOLEAN : UnscheduleEvent(c, type, wait)
           \/ Finish(c)
    \/ SyncPause \/ SyncResume \/ Reset \/ ClearPendingEvents \/ Control
    \/ Tick

\* All threads run; callbacks return.
Fairness == /\ WF_vars(HostTiming) /\ WF_vars(Control) /\ \A c \in Clients : WF_vars(Finish(c))

Spec         == Init /\ [][Next]_vars
SpecParked   == InitParked /\ [][Next]_vars
FairSpec     == SpecParked /\ Fairness

-----------------------------------------------------------------------------

\* When UnscheduleEvent has returned from its wait, and nobody has scheduled the event
\* since, its callback neither runs nor will: the event is gone although it may have
\* been unscheduled in the middle of a looping callback.
UnscheduledNeverRuns ==
    TypeOK /\ \A type \in finished : running.type # type /\ ~Scheduled(type)


\* A due event is called, taken back, or held up by a pause or the end: the thread
\* misses no ScheduleEvent on its way to sleep.
DueEventIsCalled ==
    \A type \in Types :
        (\E i \in DOMAIN queue : queue[i].type = type /\ queue[i].time <= now) ~>
            (~Scheduled(type) \/ running.type = type \/ paused \/ stop)

\* SyncPause and Reset return.
ControlReturns == control # "idle" ~> control \in {"idle", "pausing", "stopped"}
=============================================================================
