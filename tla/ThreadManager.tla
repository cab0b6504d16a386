--------------------------- MODULE ThreadManager ---------------------------
(***************************************************************************)
(* The cooperative scheduler of multitask/thread_manager.cpp and           *)
(* multitask/thread.cpp, with the contexts that call it: the main loop of  *)
(* twainet/twainet.cpp, the threads' own bodies, and the callbacks of the  *)
(* SDK.  One CPU, no preemption: a step is everything a context does       *)
(* between two calls of the scheduler.                                     *)
(*                                                                         *)
(* A thread lives in a desk (g_threadDesks).  Desk ids double as ETS task  *)
(* priorities; every task queue, the loop's included, holds one event.     *)
(***************************************************************************)
EXTENDS Naturals

CONSTANTS
  THREAD_MAX,    \* number of desks (thread_manager.h: 2)
  Threads,       \* Thread objects the heap can hold
  Destroyable,   \* the ones the scheduler deletes itself (ConnectThread)
  NoThread       \* the null Thread*

ASSUME DeskAssumption == THREAD_MAX \in Nat \ {0}
ASSUME ThreadAssumption == NoThread \notin Threads /\ Destroyable \subseteq Threads

THREAD_START_ID == 2
LOOP == 0        \* the main loop, in g_current_threadId and in GetNext...
SDK  == 1        \* the SDK's own tasks and timers, outside every coroutine
Ids  == THREAD_START_ID .. (THREAD_START_ID + THREAD_MAX - 1)

DeskState == {"ABSENT", "CREATED", "RUNNING", "SUSPENDED", "DELAYED",
              "WAITING", "STOPPED", "STOP_PENDING"}

VARIABLES
  desk,      \* desk[i]: m_state of desk i
  owner,     \* owner[i]: m_thread of desk i
  frames,    \* frames[i]: whose stack m_cont of desk i holds, NoThread at its start
  due,       \* desks whose m_startTime has passed
  tstate,    \* tstate[t]: Thread::m_state, the scheduler's copy of desk[i] in t
  heap,      \* Thread objects that are allocated
  current,   \* g_current_threadId
  posted,    \* tasks with an event in their queue, LOOP for the loop task
  ctx,       \* what executes now: LOOP, SDK or a desk
  phase,     \* where the main loop is in its body
  timer,     \* the loop's delay() timer is armed
  waits,     \* ids some socket holds in m_suspended*Thread
  mode       \* "up", or how the device went down

deskVars == <<desk, owner, frames, due, tstate, heap>>
loopVars == <<phase, timer>>
vars == <<deskVars, current, posted, ctx, loopVars, waits, mode>>

TypeOK ==
  /\ desk \in [Ids -> DeskState]
  /\ owner \in [Ids -> Threads \cup {NoThread}]
  /\ frames \in [Ids -> Threads \cup {NoThread}]
  /\ due \subseteq Ids
  /\ tstate \in [Threads -> DeskState]
  /\ heap \subseteq Threads
  /\ current \in Ids \cup {LOOP}
  /\ posted \subseteq Ids \cup {LOOP}
  /\ ctx \in Ids \cup {LOOP, SDK}
  /\ phase \in {"body", "check", "reaped", "swept", "switch"}
  /\ timer \in BOOLEAN
  /\ waits \subseteq Ids \cup {LOOP}
  /\ mode \in {"up", "panic", "fault"}

\* The constructor runs once at boot; the Arduino core posts the loop task.
Init ==
  /\ desk = [i \in Ids |-> "ABSENT"]
  /\ owner = [i \in Ids |-> NoThread]
  /\ frames = [i \in Ids |-> NoThread]
  /\ due = {}
  /\ tstate = [t \in Threads |-> "ABSENT"]
  /\ heap = {}
  /\ current = LOOP
  /\ posted = {LOOP}
  /\ ctx = SDK
  /\ phase = "body"
  /\ timer = FALSE
  /\ waits = {}
  /\ mode = "up"

----------------------------------------------------------------------------
(***************************************************************************)
(* The scheduler's operations.  Each leaves phase, timer and waits to the  *)
(* caller.                                                                 *)
(***************************************************************************)

\* panic(), or a store through a null Thread*: the chip resets.
GoDown(how) ==
  /\ mode' = how
  /\ UNCHANGED <<deskVars, current, posted, ctx>>

\* ets_post for a desk's task, esp_schedule for the loop's.  A queue that holds
\* its one event drops the next.
EtsPostNextId(id) ==                           \* variant: id off by one
  posted' = posted \cup {id + 1}
EtsPostOneQueue(id) ==                         \* variant: one queue for all
  posted' = IF posted = {} THEN {id} ELSE posted
EtsPost(id) == posted' = posted \cup {id}

\* A desk is written together with the copy of its state inside its thread.
SetState(i, s) ==
  /\ desk' = [desk EXCEPT ![i] = s]
  /\ tstate' = [tstate EXCEPT ![owner[i]] = s]

\* The desks GetNextSuspendThreadId looks at, given the desk states and what is
\* due: all of them from the loop, from the current one on otherwise.
Candidates(d, now) ==
  {i \in Ids : /\ current # LOOP => i >= current
               /\ \/ d[i] = "WAITING"
                  \/ d[i] = "DELAYED" /\ i \in now}

IsNextSuspendThread(d, now, n) ==
  \/ n \in Candidates(d, now) /\ \A i \in Candidates(d, now) : n <= i
  \/ n = LOOP /\ Candidates(d, now) = {}

\* The next thread gets the CPU if there is one, the loop otherwise.
HandOverUnscheduled(d, now) ==                 \* variant: no esp_schedule
  \E n \in Ids \cup {LOOP} :
    /\ IsNextSuspendThread(d, now, n)
    /\ posted' = posted \cup ({n} \ {LOOP})
    /\ current' = IF n = LOOP THEN LOOP ELSE current

HandOver(d, now) ==
  \E n \in Ids \cup {LOOP} :
    /\ IsNextSuspendThread(d, now, n)
    /\ EtsPost(n)
    /\ current' = IF n = LOOP THEN LOOP ELSE current

\* A coroutine that runs yields to the SDK; a call on behalf of one that does
\* not run (cont_can_yield fails) just returns.
YieldNever(i) ==                               \* variant: no cont_yield
  ctx' = ctx
Yield(i) == ctx' = IF ctx = i THEN SDK ELSE ctx

\* What SuspendThread and DelayThread share; now is what is due after the call.
Block(id, s, now) ==
  IF id \in Ids /\ owner[id] = NoThread
  THEN GoDown("fault")
  ELSE LET d == IF id \in Ids THEN [desk EXCEPT ![id] = s] ELSE desk IN
       /\ desk' = d
       /\ tstate' = IF id \in Ids THEN [tstate EXCEPT ![owner[id]] = s] ELSE tstate
       /\ due' = now
       /\ IF current = id
          THEN HandOver(d, now) /\ Yield(id)
          ELSE UNCHANGED <<posted, current, ctx>>
       /\ UNCHANGED <<owner, frames, heap, mode>>

SuspendThread(id) == Block(id, "SUSPENDED", due)

\* No desk is due the moment it delays.
DelayThread(id) == Block(id, "DELAYED", due \ {id})

ResumeThread(id) ==
  IF current \in Ids /\ owner[current] = NoThread
  THEN GoDown("fault")
  ELSE /\ EtsPost(id)
       /\ current' = IF id = LOOP THEN LOOP ELSE current
       /\ IF current \in Ids THEN SetState(current, "WAITING")
                             ELSE UNCHANGED <<desk, tstate>>
       /\ Yield(current)
       /\ UNCHANGED <<owner, frames, due, heap, mode>>

SwitchThread ==
  /\ HandOver(desk, due)
  /\ IF current \in Ids /\ desk[current] = "RUNNING"
     THEN SetState(current, "WAITING") /\ Yield(current)
     ELSE Yield(LOOP) /\ UNCHANGED <<desk, tstate>>
  /\ UNCHANGED <<owner, frames, due, heap, mode>>

\* AddThread takes the first absent desk ...
FirstAbsent(i) == desk[i] = "ABSENT" /\ \A j \in Ids : desk[j] = "ABSENT" => i <= j

\* ... and starts its coroutine afresh (cont_init).
StackKept(i) ==                                \* variant: no cont_init
  UNCHANGED frames
FreshStack(i) == frames' = [frames EXCEPT ![i] = NoThread]

\* new Thread, AddThread and the start event.
StartThread(t) ==
  /\ t \notin heap
  /\ IF \A i \in Ids : desk[i] # "ABSENT"
     THEN GoDown("panic")
     ELSE \E i \in Ids :
            /\ FirstAbsent(i)
            /\ FreshStack(i)
            /\ EtsPost(i)
            /\ desk' = [desk EXCEPT ![i] = "CREATED"]
            /\ owner' = [owner EXCEPT ![i] = t]
            /\ tstate' = [tstate EXCEPT ![t] = "CREATED"]
            /\ heap' = heap \cup {t}
            /\ UNCHANGED <<due, current, ctx, mode>>

\* StopThread and RemoveThread of the thread in desk i.  Stop() closes the
\* thread's socket, and with it the socket's registration.  A desk that is
\* released frees its thread if freed holds it.  OnStop() (79) is taken to make no
\* scheduler call: what it logs for a connector goes over the socket just closed,
\* or over that of another connector, if there is one that has the session.
StopThread(i, freed) ==
  /\ tstate[owner[i]] # "STOPPED"
  /\ IF i # current
     THEN /\ SetState(i, "ABSENT")
          /\ heap' = heap \ ({owner[i]} \cap freed)
          /\ owner' = [owner EXCEPT ![i] = NoThread]
     ELSE /\ SetState(i, "STOP_PENDING")
          /\ UNCHANGED <<heap, owner>>
  /\ UNCHANGED <<frames, due, current, posted, ctx, mode>>

\* ThreadManager's part of CheckManagers: the desks whose thread has returned
\* are released.
ReapThreads ==
  LET done == {i \in Ids : desk[i] = "STOPPED"}
      gone == {owner[i] : i \in done}
  IN /\ desk' = [i \in Ids |-> IF i \in done THEN "ABSENT" ELSE desk[i]]
     /\ tstate' = [t \in Threads |-> IF t \in gone THEN "ABSENT" ELSE tstate[t]]
     /\ owner' = [i \in Ids |-> IF i \in done THEN NoThread ELSE owner[i]]
     /\ heap' = heap \ (gone \cap Destroyable)
     /\ UNCHANGED <<frames, due, current, posted, ctx, mode>>

\* The connectors ConnectorManager::ManagerFunc deletes.
StoppedConnectors ==                           \* variant: IsStop, not IsAbsent
  {t \in heap \ Destroyable : tstate[t] \in {"ABSENT", "STOP_PENDING"}}
AbsentConnectors == {t \in heap \ Destroyable : tstate[t] = "ABSENT"}

----------------------------------------------------------------------------
(***************************************************************************)
(* The SDK: events in priority order, timers and the sockets' callbacks.   *)
(***************************************************************************)

\* thread_func: the event names the desk, whatever the desk holds by now.
RunnableStopped ==                             \* variant: returned thread run
  {"CREATED", "WAITING", "SUSPENDED", "DELAYED", "STOPPED"}
Runnable == {"CREATED", "WAITING", "SUSPENDED", "DELAYED"}

DispatchThread(i) ==
  /\ ctx = SDK /\ mode = "up"
  /\ i \in posted /\ \A j \in posted : j <= i
  /\ posted' = posted \ {i}
  /\ current' = i
  /\ IF desk[i] \in Runnable
     THEN /\ desk' = [desk EXCEPT ![i] = "RUNNING"]
          /\ frames' = [frames EXCEPT ![i] = IF @ = NoThread THEN owner[i] ELSE @]
          /\ ctx' = i
     ELSE UNCHANGED <<desk, frames, ctx>>
  /\ UNCHANGED <<owner, due, tstate, heap, loopVars, waits, mode>>

DispatchLoop ==
  /\ ctx = SDK /\ mode = "up"
  /\ posted = {LOOP}
  /\ posted' = {}
  /\ ctx' = LOOP
  /\ timer' = FALSE
  /\ UNCHANGED <<deskVars, current, phase, waits, mode>>

\* A socket's callback clears the registration, then resumes the thread.
Callback(id) ==
  /\ ctx = SDK /\ mode = "up"
  /\ id \in waits
  /\ waits' = waits \ {id}
  /\ ResumeThread(id)
  /\ UNCHANGED loopVars

TimerFires ==
  /\ ctx = SDK /\ mode = "up"
  /\ timer
  /\ timer' = FALSE
  /\ EtsPost(LOOP)
  /\ UNCHANGED <<deskVars, current, ctx, phase, waits, mode>>

DelayElapses(i) ==
  /\ ctx = SDK /\ mode = "up"
  /\ desk[i] = "DELAYED" /\ i \notin due
  /\ due' = due \cup {i}
  /\ UNCHANGED <<desk, owner, frames, tstate, heap, current, posted, ctx,
                 loopVars, waits, mode>>

\* Nothing of all this survives a reset.
Reboot ==
  /\ mode # "up"
  /\ desk' = [i \in Ids |-> "ABSENT"]
  /\ owner' = [i \in Ids |-> NoThread]
  /\ frames' = [i \in Ids |-> NoThread]
  /\ due' = {}
  /\ tstate' = [t \in Threads |-> "ABSENT"]
  /\ heap' = {}
  /\ current' = LOOP
  /\ posted' = {LOOP}
  /\ ctx' = SDK
  /\ phase' = "body"
  /\ timer' = FALSE
  /\ waits' = {}
  /\ mode' = "up"

----------------------------------------------------------------------------
(***************************************************************************)
(* The bodies of the loop and of the threads, by the scheduler calls they  *)
(* make.  Every blocking call passes GetCurrentThreadId().                 *)
(***************************************************************************)

Executing(c) == ctx = c /\ mode = "up"

\* The loop or a thread starts a thread (Connect, AddConnection).
Start(c, t) ==
  /\ Executing(c)
  /\ StartThread(t)
  /\ UNCHANGED <<loopVars, waits>>

\* The login checker, a ModuleState or LoginResult message, Disconnect.
Stop(c, i) ==
  /\ Executing(c)
  /\ owner[i] # NoThread
  /\ StopThread(i, Destroyable)
  /\ waits' = waits \ {i}
  /\ UNCHANGED loopVars

\* ConnectorManager::StopConnection deletes the connector whatever became of
\* its desk.  A desk that keeps it (STOP_PENDING) is left with a dangling
\* Thread*: nothing after that is defined.
StopConnection(c, i) ==
  /\ Executing(c)
  /\ owner[i] \in Threads \ Destroyable
  /\ IF i = current THEN GoDown("fault") ELSE StopThread(i, Threads)
  /\ waits' = waits \ {i}
  /\ UNCHANGED loopVars

\* A connector that has no desk any more is deleted, by the managers' pass or
\* by StopConnection.
DropConnection(c, t) ==
  /\ Executing(c)
  /\ t \in AbsentConnectors
  /\ heap' = heap \ {t}
  /\ UNCHANGED <<desk, owner, frames, due, tstate, current, posted, ctx, loopVars,
                 waits, mode>>

\* A socket call waits for its callback.
WaitForSocket(c) ==
  /\ Executing(c)
  /\ waits' = waits \cup {current}
  /\ SuspendThread(current)
  /\ UNCHANGED loopVars

\* TCPSocket::Connect gives the name lookup an empty address for its thread id:
\* the answer will resume the loop.
WaitForName(c) ==
  /\ Executing(c)
  /\ waits' = waits \cup {LOOP}
  /\ SuspendThread(current)
  /\ UNCHANGED loopVars

\* Send waits its turn, or a failed connection is tried again later.
WaitForTime(c) ==
  /\ Executing(c)
  /\ DelayThread(current)
  /\ UNCHANGED <<loopVars, waits>>

\* thread_wrapper: the thread's function has returned.
Return(i) ==
  /\ Executing(i)
  /\ desk' = [desk EXCEPT ![i] = "STOPPED"]
  /\ frames' = [frames EXCEPT ![i] = NoThread]
  /\ ctx' = SDK
  /\ UNCHANGED <<owner, due, tstate, heap, current, posted, loopVars, waits, mode>>

\* delay(150) ends mainloop and the handling of WiFi changes.
LoopDelay ==
  /\ Executing(LOOP) /\ phase = "body"
  /\ phase' = "check"
  /\ timer' = TRUE
  /\ ctx' = SDK
  /\ UNCHANGED <<deskVars, current, posted, waits, mode>>

\* CheckManagers runs ThreadManager's and ConnectorManager's ManagerFunc in the
\* order in which the two were first used, here in any order.
LoopReapThreads ==
  /\ Executing(LOOP)
  /\ \/ phase = "check" /\ phase' = "reaped"
     \/ phase = "swept" /\ phase' = "switch"
  /\ ReapThreads
  /\ UNCHANGED <<timer, waits>>

\* ConnectorManager deletes its absent connectors one by one (DropConnection).
LoopConnectorsSwept ==
  /\ Executing(LOOP)
  /\ AbsentConnectors = {}
  /\ \/ phase = "check" /\ phase' = "swept"
     \/ phase = "reaped" /\ phase' = "switch"
  /\ UNCHANGED <<deskVars, current, posted, ctx, timer, waits, mode>>

LoopSwitch ==
  /\ Executing(LOOP) /\ phase = "switch"
  /\ phase' = "body"
  /\ SwitchThread
  /\ UNCHANGED <<timer, waits>>

----------------------------------------------------------------------------
LoopStep ==
  \/ \E t \in Threads : Start(LOOP, t) \/ DropConnection(LOOP, t)
  \/ \E i \in Ids : Stop(LOOP, i) \/ StopConnection(LOOP, i)
  \/ WaitForSocket(LOOP)
  \/ WaitForTime(LOOP)
  \/ LoopDelay
  \/ LoopReapThreads
  \/ LoopConnectorsSwept
  \/ LoopSwitch

ThreadStep(i) ==
  \/ \E t \in Threads : Start(i, t) \/ DropConnection(i, t)
  \/ \E j \in Ids : Stop(i, j) \/ StopConnection(i, j)
  \/ WaitForSocket(i)
  \/ WaitForName(i)
  \/ WaitForTime(i)
  \/ Return(i)

SdkStep ==
  \/ \E i \in Ids : DispatchThread(i) \/ DelayElapses(i)
  \/ \E id \in Ids \cup {LOOP} : Callback(id)
  \/ DispatchLoop
  \/ TimerFires
  \/ Reboot

Next == SdkStep \/ LoopStep \/ \E i \in Ids : ThreadStep(i)

Spec == Init /\ [][Next]_vars

\* ETS runs every task to completion and serves a queued event; os_timers
\* expire; a context that runs comes to the end of its burst (the watchdog
\* resets the chip otherwise).  The loop task has the lowest priority, so it
\* is served when the queues run empty again and again, not at once.
Fairness ==
  /\ WF_vars(LoopDelay) /\ WF_vars(LoopReapThreads) /\ WF_vars(LoopSwitch)
  /\ WF_vars(LoopConnectorsSwept \/ \E t \in Threads : DropConnection(LOOP, t))
  /\ WF_vars(TimerFires)
  /\ SF_vars(DispatchLoop)
  /\ \A i \in Ids : /\ SF_vars(DispatchThread(i))
                    /\ WF_vars(WaitForSocket(i) \/ WaitForName(i) \/ WaitForTime(i) \/ Return(i))

FairSpec == Spec /\ Fairness

----------------------------------------------------------------------------
(***************************************************************************)
(* Properties.                                                             *)
(***************************************************************************)

\* GetCurrentThreadId() names the thread that executes, so a call made "on
\* behalf of the current thread" parks its caller; no other desk is RUNNING.
OneRunner ==
  /\ \A i \in Ids : desk[i] = "RUNNING" => ctx = i
  /\ ctx \in Ids => current = ctx /\ desk[ctx] \in {"RUNNING", "STOP_PENDING"}

\* What ConnectorManager::ManagerFunc relies on when it deletes a connector
\* that IsAbsent(): a thread reads ABSENT exactly when no desk points at it.
\* No desk holds a deleted thread, no thread is in two desks, and only an
\* absent desk holds none.
AbsentMeansFree ==
  /\ \A i \in Ids : desk[i] = "ABSENT" <=> owner[i] = NoThread
  /\ \A t \in heap : tstate[t] = "ABSENT" <=> \A i \in Ids : owner[i] # t
  /\ \A i \in Ids : owner[i] \in heap \cup {NoThread}
  /\ \A i, j \in Ids : owner[i] = owner[j] /\ owner[i] # NoThread => i = j

\* A desk resumes the stack of the thread it holds, never one that a removed
\* thread left suspended there (cont_init in AddThread).
OwnFrames ==
  \A i \in Ids : frames[i] # NoThread /\ owner[i] # NoThread => frames[i] = owner[i]

\* A thread that was started has its event in the queue until it runs: no
\* stale event, stop or restart of the desk loses the start.
StartIsPosted == \A i \in Ids : desk[i] = "CREATED" => i \in posted

\* Nothing is left that could schedule the loop: no timer, no queued event, no
\* socket or lookup that may still answer.
Silent == ctx = SDK /\ posted = {} /\ ~timer /\ waits = {} /\ mode = "up"

\* The thread that had the CPU last has returned, is being stopped or is gone.
CurrentGone ==
  current \in Ids /\ desk[current] \in {"STOPPED", "STOP_PENDING", "ABSENT"}

\* A thread that parks itself always hands the CPU on: silence falls only when
\* the last event went to a desk that has no thread to run any more.
SilentOnlyAfterReturn == Silent => CurrentGone

\* A desk whose thread has returned is only ever released, unless
\* g_current_threadId still names it.
StoppedOnlyReaped ==
  [][\A i \in Ids :
       desk[i] = "STOPPED" /\ desk'[i] # "STOPPED"
         => desk'[i] = "ABSENT" \/ current = i]_vars

\* Threads that only block and return cannot keep the CPU among themselves: once
\* the network is quiet and no thread starts another, the loop runs again and
\* again, unless it waits for a callback itself, the CPU went to a thread that is
\* gone, or the chip is down.
Quiet ==
  [][/\ \A id \in Ids \cup {LOOP} : ~Callback(id)
     /\ \A i \in Ids : \A t \in Threads : ~Start(i, t)]_vars

LoopServed ==
  <>Quiet => []<>(\/ ctx = LOOP
                  \/ LOOP \in waits
                  \/ CurrentGone
                  \/ mode # "up")
=============================================================================
