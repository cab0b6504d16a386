---------------------------- MODULE ClientModule ----------------------------
(***************************************************************************)
(* The client of twainet/client_module.cpp: connecting, logging in,        *)
(* reconnecting and disconnecting, by a ConnectThread and connectors that  *)
(* run on the scheduler.  A step of the client is a step of ThreadManager  *)
(* or leaves the scheduler alone.                                          *)
(*                                                                         *)
(* A connector's id is "Server" until it has logged in and "Server.<host>" *)
(* then; host is the part that is compared.  The server is taken to name   *)
(* itself in its ModuleName as the client does (client_connector.cpp:82),  *)
(* so that message does not change the id, and to answer one login once.   *)
(***************************************************************************)
EXTENDS ThreadManager, FiniteSets, SequencesExt

CONSTANTS
  Sessions,      \* session ids the server can give
  NoSession,     \* the empty string
  MaxReruns      \* bound: how often a thread that has returned is run again

ASSUME SessionAssumption == NoSession \notin Sessions
ASSUME RerunAssumption == MaxReruns \in Nat

Connectors == Threads \ Destroyable

VARIABLES
  status,         \* the loop has seen WiFi connected and connected the client
  stopConnect,    \* m_isStopConnect
  session,        \* m_ownSessionId
  connectThread,  \* m_connectThread, which may be deleted by now
  connectors,     \* m_connectors, newest first
  host,           \* host[c]: host part of connector c's m_id
  checked,        \* connectors an IPCCheckerThread counts for
  at,             \* at[t]: where the function of thread t stands
  closed,         \* threads whose socket is closed
  todo,           \* what the loop still has to do in the handler it is in
  victim,         \* the connector that handler is about
  first,          \* it was the first in the list when the handler's loop met it
  reruns          \* returned threads that were run again since boot (history)

moduleVars == <<stopConnect, session, connectThread>>
listVars   == <<connectors, host, checked>>
threadVars == <<at, closed>>
choreVars  == <<todo, victim, first>>
clientVars == <<status, moduleVars, listVars, threadVars, choreVars,
                 reruns>>

Places == {"begin", "talk", "retry", "end"}
Chores == {"nothing", "report", "delete", "tell", "stop", "halt", "delay"}

ClientTypeOK ==
  /\ TypeOK
  /\ status \in BOOLEAN /\ stopConnect \in BOOLEAN
  /\ session \in Sessions \cup {NoSession}
  /\ connectThread \in Destroyable \cup {NoThread}
  /\ connectors \in Seq(Connectors) /\ IsInjective(connectors)
  /\ host \in [Connectors -> Sessions \cup {NoSession}]
  /\ checked \subseteq Connectors
  /\ at \in [Threads -> Places]
  /\ closed \subseteq Threads
  /\ todo \in Chores
  /\ victim \in Connectors \cup {NoThread}
  /\ first \in BOOLEAN
  /\ reruns \in 0 .. MaxReruns

ClientInit ==
  /\ Init
  /\ status = FALSE
  /\ stopConnect = TRUE
  /\ session = NoSession
  /\ connectThread = NoThread
  /\ connectors = <<>>
  /\ host = [c \in Connectors |-> NoSession]
  /\ checked = {}
  /\ at = [t \in Threads |-> "end"]
  /\ closed = {}
  /\ todo = "nothing"
  /\ victim = NoThread
  /\ first = FALSE
  /\ reruns = 0

----------------------------------------------------------------------------
(***************************************************************************)
(* Operations, for whoever executes them.                                  *)
(***************************************************************************)

\* A thread and its socket are made and the thread is started.
Launch(c, t) ==
  /\ Start(c, t)
  /\ at' = [at EXCEPT ![t] = "begin"]
  /\ closed' = closed \ {t}

ConnectUnnamed(c) ==                           \* variant: thread not stored
  /\ \E t \in Destroyable : Launch(c, t)
  /\ stopConnect' = FALSE
  /\ UNCHANGED connectThread

\* Connect launches a ConnectThread and remembers it.  An earlier one is
\* forgotten, running or not.
Connect(c) ==
  \E t \in Destroyable :
    /\ Launch(c, t)
    /\ connectThread' = t
    /\ stopConnect' = FALSE

\* The first connector in the list whose id is "Server" with that host.
IsFirstWithHost(k, h) ==
  \E n \in DOMAIN connectors :
    /\ connectors[n] = k /\ host[k] = h
    /\ \A j \in 1 .. n - 1 : host[connectors[j]] # h

NoneWithHost(h) == \A n \in DOMAIN connectors : host[connectors[n]] # h

FiresAlways(k) == host[k] = session            \* variant: stop flag not looked at

\* OnFireConnector: the loss of the session's connector reconnects.
Fires(k) == host[k] = session /\ ~stopConnect

LossIgnored(c) ==                              \* variant: no Connect
  /\ session' = NoSession
  /\ UNCHANGED <<vars, stopConnect, connectThread, threadVars>>

OnFireConnector(c) == Connect(c) /\ session' = NoSession

Place(k) == CHOOSE n \in DOMAIN connectors : connectors[n] = k

StillChecked(k, h) ==                          \* variant: checker not stopped
  /\ connectors' = RemoveAt(connectors, Place(k))
  /\ host' = [h EXCEPT ![k] = NoSession]
  /\ closed' = closed \ {k}
  /\ UNCHANGED checked

\* What is known of a connector ends with it; h is what the others' hosts are.
Forget(k, h) ==
  /\ connectors' = RemoveAt(connectors, Place(k))
  /\ host' = [h EXCEPT ![k] = NoSession]
  /\ checked' = checked \ {k}
  /\ closed' = closed \ {k}

\* StopConnection after its notice: connector k is stopped and deleted.  What its
\* OnStop logs (ipc_signal_handler.cpp:69) could wait only over another connector that
\* has the session; by OneAtATime there is none before a rerun.  That wait is left out
\* here as in StopThread.
StopAndDelete(c, k, h) ==
  /\ \/ \E i \in Ids : owner[i] = k /\ StopConnection(c, i)
     \/ DropConnection(c, k)
  /\ Forget(k, h)

\* StopThread closes the socket of the thread in desk i, which matters if it
\* keeps the desk.
Halt(c, i) ==
  /\ Stop(c, i)
  /\ closed' = IF i = current THEN closed \cup {owner[i]} ELSE closed

----------------------------------------------------------------------------
(***************************************************************************)
(* The main loop.                                                          *)
(***************************************************************************)

LoopIdle == Executing(LOOP) /\ todo = "nothing"

\* WiFi is up and was down when the loop looked last.
WifiUp ==
  /\ LoopIdle /\ phase = "body"
  /\ ~status
  /\ status' = TRUE
  /\ Connect(LOOP)
  /\ todo' = "delay"
  /\ UNCHANGED <<session, listVars, victim, first, reruns>>

\* A log line of the loop's goes to the server, too: it is sent through the
\* session's connector, and the loop waits for the answer as any thread does.
\* Where g_current_threadId still names the desk of a thread that has returned,
\* the wait is at once over, Send's loop repeats it for ever and no step follows.
LogTo(k) ==
  /\ host[k] # NoSession /\ k \notin closed
  /\ current \in Ids => owner[current] = NoThread
  /\ WaitForSocket(LOOP) \/ WaitForTime(LOOP)
  /\ UNCHANGED clientVars

LoopTalks ==
  /\ LoopIdle /\ phase \in {"body", "check"}
  /\ \E k \in ToSet(connectors) : host[k] = session /\ LogTo(k)

\* WiFi is down and was up: Disconnect, which stops the session's connection
\* first.  The notice about it still finds m_isStopConnect unset ...
WifiDown ==
  /\ LoopIdle /\ phase = "body"
  /\ status
  /\ status' = FALSE
  /\ \/ \E k \in Connectors :
          /\ IsFirstWithHost(k, session)
          /\ victim' = k /\ first' = (Head(connectors) = k)
          /\ todo' = IF Fires(k) THEN "tell" ELSE "stop"
     \/ /\ NoneWithHost(session)
        /\ todo' = "halt"
        /\ UNCHANGED <<victim, first>>
  /\ UNCHANGED <<vars, moduleVars, listVars, threadVars, reruns>>

\* ... and logs the loss over the very connection that is going to be stopped,
\* before it reconnects.  The notice of a lost connector (NoticeLost) does the
\* same over that connector's socket, if only memory or a length was bad.
NoticeLogs == todo \in {"tell", "report"} /\ LogTo(victim)

NoticeTells ==
  /\ Executing(LOOP) /\ todo \in {"tell", "report"}
  /\ OnFireConnector(LOOP)
  /\ todo' = IF todo = "tell" THEN "stop" ELSE "delete"
  /\ UNCHANGED <<status, listVars, victim, first, reruns>>

\* The iterator that is erased holds its links since the walk began.  If a
\* connector was put in front of the first one since, the list is broken: no
\* step follows.
DisconnectStop ==
  /\ Executing(LOOP) /\ todo = "stop"
  /\ first => Head(connectors) = victim
  /\ StopAndDelete(LOOP, victim, host)
  /\ todo' = "halt"
  /\ victim' = NoThread /\ first' = FALSE
  /\ UNCHANGED <<status, moduleVars, at, reruns>>

ConnectThreadKept == UNCHANGED <<vars, closed>>  \* variant: no StopThread
ConnectThreadDeleted ==                        \* variant: delete, no StopThread
  /\ heap' = heap \ {connectThread}
  /\ UNCHANGED <<desk, owner, frames, due, tstate, current, posted, ctx, loopVars,
                 waits, mode, closed>>

\* The ConnectThread is stopped if it is in a desk.  One that was deleted is in
\* none: RemoveThread looks for the pointer only.
HaltConnectThread ==
  IF \E i \in Ids : owner[i] = connectThread
  THEN \E i \in Ids : owner[i] = connectThread /\ Halt(LOOP, i)
  ELSE UNCHANGED <<vars, closed>>

DisconnectHalt ==
  /\ Executing(LOOP) /\ todo = "halt"
  /\ stopConnect' = TRUE
  /\ HaltConnectThread
  /\ connectThread' = NoThread
  /\ todo' = "delay"
  /\ UNCHANGED <<status, session, listVars, at, victim, first, reruns>>

Delay ==
  /\ todo \in {"nothing", "delay"}
  /\ LoopDelay
  /\ todo' = "nothing"
  /\ UNCHANGED <<status, moduleVars, listVars, threadVars, victim, first, reruns>>

\* ConnectorManager::ManagerFunc meets an absent connector: it tells the client ...
NoticeLost ==
  /\ LoopIdle /\ phase \in {"check", "reaped"}
  /\ \E n \in DOMAIN connectors :
       LET k == connectors[n] IN
       /\ k \in AbsentConnectors
       /\ \A j \in 1 .. n - 1 : connectors[j] \notin AbsentConnectors
       /\ victim' = k /\ first' = (n = 1)
       /\ todo' = IF Fires(k) THEN "report" ELSE "delete"
  /\ UNCHANGED <<vars, status, moduleVars, listVars, threadVars, reruns>>

\* ... and deletes it, through an iterator like Disconnect's.
DeleteLost ==
  /\ Executing(LOOP) /\ todo = "delete"
  /\ first => Head(connectors) = victim
  /\ DropConnection(LOOP, victim)
  /\ Forget(victim, host)
  /\ todo' = "nothing"
  /\ victim' = NoThread /\ first' = FALSE
  /\ UNCHANGED <<status, moduleVars, at, reruns>>

\* IPCCheckerThread::ManagerFunc after fifty passes, here after any number.
CheckerExpires ==
  /\ LoopIdle /\ phase = "switch"
  /\ \E i \in Ids : /\ owner[i] \in checked
                    /\ Halt(LOOP, i)
                    /\ checked' = checked \ {owner[i]}
  /\ UNCHANGED <<status, moduleVars, connectors, host, at, choreVars, reruns>>

LoopRest ==
  /\ todo = "nothing"
  /\ LoopReapThreads \/ LoopConnectorsSwept \/ LoopSwitch
  /\ UNCHANGED clientVars

----------------------------------------------------------------------------
(***************************************************************************)
(* The ConnectThread, in desk i.                                           *)
(***************************************************************************)
Runs(i, t, place) == Executing(i) /\ owner[i] = t /\ at[t] = place

Goes(t, place) == at' = [at EXCEPT ![t] = place]

\* Name lookup, connecting, handshake.
Connecting(i) ==
  /\ \E t \in Destroyable \ closed : Runs(i, t, "begin")
  /\ WaitForName(i) \/ WaitForSocket(i) \/ WaitForTime(i)
  /\ UNCHANGED clientVars

\* A connector takes the socket over; AddConnection starts it and lists it.
Connected(i) ==
  /\ \E t \in Destroyable \ closed, c \in Connectors :
       /\ Runs(i, t, "begin")
       /\ Start(i, c)
       /\ connectors' = <<c>> \o connectors
       /\ host' = [host EXCEPT ![c] = NoSession]
       /\ at' = [at EXCEPT ![t] = "end", ![c] = "begin"]
       /\ closed' = closed \ {c}
  /\ UNCHANGED <<status, moduleVars, checked, choreVars, reruns>>

\* OnConnectFailed parks the thread for a second, or lets it end.
ConnectFailed(i) ==
  /\ \E t \in Destroyable :
       /\ Runs(i, t, "begin")
       /\ IF stopConnect
          THEN Goes(t, "end") /\ UNCHANGED <<vars, session>>
          ELSE Goes(t, "retry") /\ session' = NoSession /\ WaitForTime(i)
  /\ UNCHANGED <<status, stopConnect, connectThread, listVars, closed, choreVars,
                 reruns>>

\* After that second it connects, whatever has happened meanwhile.
Retry(i) ==
  /\ \E t, u \in Destroyable :
       /\ Runs(i, t, "retry")
       /\ Start(i, u)
       /\ connectThread' = u
       /\ at' = [at EXCEPT ![t] = "end", ![u] = "begin"]
       /\ closed' = closed \ {u}
  /\ stopConnect' = FALSE
  /\ UNCHANGED <<status, session, listVars, choreVars, reruns>>

----------------------------------------------------------------------------
(***************************************************************************)
(* A connector, in desk i.                                                 *)
(***************************************************************************)

\* OnStart hires a checker and sends the login.
Login(i) ==
  /\ \E c \in Connectors : /\ Runs(i, c, "begin")
                           /\ Goes(c, "talk")
                           /\ checked' = checked \cup {c}
  /\ UNCHANGED <<vars, status, moduleVars, connectors, host, closed, choreVars,
                 reruns>>

Talking(i, c) == Runs(i, c, "talk") /\ c \notin closed

Talk(i) ==
  /\ \E c \in Connectors : Talking(i, c)
  /\ WaitForSocket(i) \/ WaitForTime(i)
  /\ UNCHANGED clientVars

\* A session id that nobody has.
Fresh(s) == session # s /\ \A c \in Connectors : host[c] # s

\* The first session becomes the client's own.  If it has one, a connector that
\* has not logged in is stopped and deleted: one found earlier in the list, or
\* the one that got the answer, under its own feet.
LoginSuccess(i) ==
  /\ \E c \in Connectors, s \in Sessions :
       /\ Talking(i, c) /\ host[c] = NoSession /\ Fresh(s)
       /\ IF session = NoSession
          THEN /\ session' = s
               /\ host' = [host EXCEPT ![c] = s]
               /\ UNCHANGED <<vars, connectors, checked, closed>>
          ELSE /\ \E k \in Connectors :
                    /\ IsFirstWithHost(k, NoSession)
                    /\ StopAndDelete(i, k, [host EXCEPT ![c] = s])
               /\ UNCHANGED session
  /\ UNCHANGED <<status, stopConnect, connectThread, at, choreVars, reruns>>

LoginFailure(i) ==
  /\ \E c \in Connectors : /\ Talking(i, c) /\ host[c] = NoSession
                           /\ Goes(c, "end")
  /\ stopConnect' = TRUE
  /\ Halt(i, i)
  /\ UNCHANGED <<status, session, connectThread, listVars, choreVars, reruns>>

\* The server's name ends the checker's count.
ModuleName(i) ==
  /\ \E c \in checked : /\ Talking(i, c) /\ host[c] # NoSession
                        /\ checked' = checked \ {c}
  /\ UNCHANGED <<vars, status, moduleVars, connectors, host, threadVars, choreVars,
                 reruns>>

\* The server knows another client of that name.
ModuleExists(i) ==
  /\ \E c \in Connectors : Talking(i, c) /\ host[c] # NoSession /\ Goes(c, "end")
  /\ Halt(i, i)
  /\ UNCHANGED <<status, moduleVars, listVars, choreVars, reruns>>

\* The connection is lost; or a length is bad or memory runs out, with the socket
\* open.  What OnStop logs then over that socket is a wait like those of Talk.
Lost(i) ==
  /\ \E c \in Connectors : /\ Runs(i, c, "talk")
                           /\ Goes(c, "end")
                           /\ closed' \in {closed, closed \cup {c}}
  /\ UNCHANGED <<vars, status, moduleVars, listVars, choreVars, reruns>>

\* The function returns; OnStop dismisses the checker.
End(i) ==
  /\ \E t \in Threads : Runs(i, t, "end")
  /\ Return(i)
  /\ checked' = checked \ {owner[i]}
  /\ UNCHANGED <<status, moduleVars, connectors, host, threadVars, choreVars,
                 reruns>>

----------------------------------------------------------------------------
\* A thread without frames starts its function: for the first time, or again
\* because a callback took it for the current thread after it had returned.  A
\* ConnectThread then makes a new socket, a connector has the one it had.
Dispatch(i) ==
  /\ DispatchThread(i)
  /\ IF ctx' = i /\ frames[i] = NoThread
     THEN /\ Goes(owner[i], "begin")
          /\ closed' = closed \ ({owner[i]} \cap Destroyable)
          /\ reruns' = IF at[owner[i]] = "end" THEN reruns + 1 ELSE reruns
          /\ reruns' <= MaxReruns
     ELSE UNCHANGED <<threadVars, reruns>>
  /\ UNCHANGED <<status, moduleVars, listVars, choreVars>>

ClientReboot ==
  /\ Reboot
  /\ status' = FALSE
  /\ stopConnect' = TRUE
  /\ session' = NoSession
  /\ connectThread' = NoThread
  /\ connectors' = <<>>
  /\ host' = [c \in Connectors |-> NoSession]
  /\ checked' = {}
  /\ at' = [t \in Threads |-> "end"]
  /\ closed' = {}
  /\ todo' = "nothing"
  /\ victim' = NoThread
  /\ first' = FALSE
  /\ reruns' = 0

SdkRest ==
  /\ \/ \E i \in Ids : DelayElapses(i)
     \/ \E id \in Ids \cup {LOOP} : Callback(id)
     \/ DispatchLoop
     \/ TimerFires
  /\ UNCHANGED clientVars

ClientSdkStep ==
  \/ \E i \in Ids : Dispatch(i)
  \/ SdkRest
  \/ ClientReboot

ClientLoopStep ==
  \/ WifiUp \/ LoopTalks
  \/ WifiDown \/ NoticeLogs \/ NoticeTells \/ DisconnectStop \/ DisconnectHalt
  \/ NoticeLost \/ DeleteLost \/ CheckerExpires
  \/ Delay \/ LoopRest

ClientThreadStep(i) ==
  \/ Connecting(i) \/ Connected(i) \/ ConnectFailed(i) \/ Retry(i)
  \/ Login(i) \/ Talk(i) \/ LoginSuccess(i) \/ LoginFailure(i)
  \/ ModuleName(i) \/ ModuleExists(i) \/ Lost(i)
  \/ End(i)

ClientNext == ClientSdkStep \/ ClientLoopStep \/ \E i \in Ids : ClientThreadStep(i)

ClientSpec == ClientInit /\ [][ClientNext]_<<vars, clientVars>>

----------------------------------------------------------------------------
(***************************************************************************)
(* Properties.  The first group is stated for reruns = 0: once the         *)
(* scheduler runs a finished ConnectThread again, it connects once more    *)
(* and nobody knows of it.                                                 *)
(***************************************************************************)

\* A ConnectThread that is going to connect or to try again.
Attempts ==
  {t \in Destroyable : at[t] \in {"begin", "retry"} /\ \E i \in Ids : owner[i] = t}

\* Between two handlers of the loop.
Settled == mode = "up" /\ todo \in {"nothing", "delay"} /\ reruns = 0

\* However losses, retries, stops and WiFi changes meet, there is one connection
\* attempt, which m_connectThread names, or one connector, never more; so the
\* length of the frame that is read, a static variable of all connectors
\* (ipc_connector.cpp:36), has one user.
OneAtATime ==
  Settled => /\ Cardinality(Attempts) + Len(connectors) <= 1
             /\ Attempts \subseteq {connectThread}

\* After Disconnect nothing connects and no connector is left, although its own
\* StopConnection reconnects and a failed attempt may be asleep.
NothingAfterDisconnect == Settled /\ ~status => Attempts = {} /\ connectors = <<>>

\* As long as WiFi is up and the server has not refused the login, somebody
\* connects or is connected: no loss or failure is missed.  Nor will the next one
\* be: the session id it is recognised by is that of a connector in the list.
NeverIdle ==
  Settled =>
    /\ status /\ ~stopConnect => Attempts # {} \/ connectors # <<>>
    /\ session # NoSession => \E k \in ToSet(connectors) : host[k] = session

\* A refused login ends the attempts until WiFi comes up the next time.
RefusalIsFinal ==
  [][stopConnect /\ ~stopConnect' /\ reruns = 0 => ~status]_<<vars, clientVars>>

\* A walk over the connectors, with copies of the links, that waits for a log line
\* to be acknowledged: Disconnect's, which no reset ends, or the sweep's.
Walking == todo = "tell" \/ (todo = "report" /\ mode = "up")

\* No thread that runs during such a wait changes the list.
WalkUndisturbed ==
  [][Walking /\ reruns = 0 /\ mode' = "up" => UNCHANGED connectors]_<<vars, clientVars>>

\* The thread in desk i has returned and waits to be reaped.
Returned(i) == owner[i] # NoThread /\ at[owner[i]] = "end" /\ frames[i] = NoThread

\* Two desks are enough for the client: a thread that connects finds the other one
\* taken, and the loop both, only while a thread that has returned has not been
\* reaped.  No connector deletes itself: a store through a deleted Thread* needs a
\* current thread that is gone.
ResetsHaveACause ==
  reruns = 0 =>
    /\ mode = "panic" => \E i \in Ids : Returned(i)
    /\ mode = "fault" => CurrentGone

----------------------------------------------------------------------------
\* The second group holds whatever is run again.

\* Each step is one of the scheduler's, or none.
KeepsToScheduler == Spec

\* The connectors in the list are those that are allocated.
ListedAreAllocated == mode = "up" => ToSet(connectors) = heap \ Destroyable

\* An IPCCheckerThread that counts points at a connector that is in the list and
\* in a desk: when it expires it stops nothing that was deleted.
CheckersPointAtThreads ==
  mode = "up" =>
    \A c \in checked : c \in ToSet(connectors) /\ \E i \in Ids : owner[i] = c

\* Disconnect calls StopThread through m_connectThread only when it was set.
HaltHasThread == todo = "halt" => connectThread # NoThread

\* The pointers that outlive a handler name what is there: list, checkers and the
\* thread to stop, whoever was stopped, deleted or run again in between.
PointersHold ==
  ClientTypeOK /\ ListedAreAllocated /\ CheckersPointAtThreads /\ HaltHasThread
=============================================================================
